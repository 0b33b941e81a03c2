--------------------------- MODULE MC_Maintenance ---------------------------
(* Instances of Maintenance: two jobs or one, one administrator.           *)
EXTENDS Maintenance, TLC

MCSymmetry == Permutations(Jobs)
=============================================================================
