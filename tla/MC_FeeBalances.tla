--------------------------- MODULE MC_FeeBalances ---------------------------
EXTENDS FeeBalances, TLC

CONSTANT b1

OneEach == b1 :> 5

Alike == Permutations(Members)
=============================================================================
