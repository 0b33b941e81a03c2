---------------------------- MODULE MC_P4xLedger ----------------------------
EXTENDS P4xLedger, TLC

CONSTANTS fee, gift

TheFiles == {fee :> 1 @@ gift :> 1, fee :> 2 @@ gift :> 0}
TheDays  == fee :> 1 @@ gift :> 0
Worth    == fee :> 1 @@ gift :> 2
Payer    == fee :> gift @@ gift :> gift

TheRules == {[category |-> c, account |-> a, finds |-> s] :
                c \in Categories, a \in Accounts, s \in {{fee}}}

Alike == Permutations(Categories) \cup Permutations(Filters) \cup Permutations(Requests)
=============================================================================
