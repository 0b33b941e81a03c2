-------------------------- MODULE MC_ChangeRequests -------------------------
(* Instances of ChangeRequests: one request row proposing two fields, or   *)
(* two rows one after the other proposing a single field.                  *)
EXTENDS ChangeRequests, TLC

MCSymmetry == Permutations(Procs) \cup Permutations(Fields) \cup
    Permutations(Values) \cup Permutations(Requests) \cup Permutations(RoleLists)
=============================================================================
