SPECIFICATION Spec
CONSTANTS
    fee = fee
    gift = gift
    giro = giro
    c1 = c1
    c2 = c2
    f1 = f1
    f2 = f2
    p1 = p1
    p2 = p2
    None = None
    Entries = {fee, gift}
    Files <- TheFiles
    Day <- TheDays
    Amount <- Worth
    Iban <- Payer
    Days = {0, 1}
    Accounts = {giro}
    Categories = {c1, c2}
    Filters = {f1, f2}
    Protected = {}
    Rules <- TheRules
    Parts = {1, 2}
    Requests = {p1, p2}
    MaxAsked = 4
SYMMETRY Alike
INVARIANTS DirectsAddUp HitsFollowRules ClosedHoldsNothing ReferencesHold
PROPERTY ConversionKeepsCategories
CHECK_DEADLOCK FALSE
