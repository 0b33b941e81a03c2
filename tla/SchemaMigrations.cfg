\* Two runs against the whole chain of 91 migrations.
SPECIFICATION Migrations
CONSTANTS
  Runs = {web, other}
  Chain <- AllSteps
  Built <- ByTheChain
  Ungrownable <- Stamp
  Images = {80, 91}
  Goals = {60}
  Mortal = {6, 26, 90}
  MaxTrouble = 1
INVARIANTS
  RevisionNamesTheSchema
  ReferencesFit
PROPERTIES
  SerializedPastBlocks
SYMMETRY Alike
