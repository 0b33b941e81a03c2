--------------------------- MODULE MC_ArchiveStore --------------------------
(* Instances of ArchiveStore: one imported content shared by two files,    *)
(* room for uploads of it and of a second content, two processes.          *)
EXTENDS ArchiveStore, TLC

CONSTANTS f1, f2, f3, i1, i2

MCImportFileItem == (f1 :> i1) @@ (f2 :> i1)
MCSoleFileItem == (f1 :> i1)
MCImportItemHash == [i \in {i1} |-> CHOOSE h \in Hashes : TRUE]

MCSymmetry == Permutations(Procs)
=============================================================================
