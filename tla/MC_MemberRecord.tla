--------------------------- MODULE MC_MemberRecord ---------------------------
(* Instance of MemberRecord: two members, and forms that differ in a few   *)
(* respects each.                                                          *)
EXTENDS MemberRecord, TLC

CONSTANTS a, b, chair, m1, m2

Sent(name, left, dead, locked, email, parent, list) ==
    [name |-> name, left |-> left, leftOn |-> TRUE, dead |-> dead, diedOn |-> FALSE,
     locked |-> locked, mailed |-> TRUE, email |-> email, parent |-> parent,
     badges |-> "l", offices |-> list]

Term(s, t) == [role |-> chair, start |-> s, end |-> t]

MCForms ==
    {Sent("n", TRUE, FALSE, FALSE, m2, None, {Term(0, 1)}),
     Sent("k", FALSE, TRUE, FALSE, m2, None, {}),
     Sent("k", FALSE, FALSE, FALSE, m2, b, {}),
     Sent("k", FALSE, FALSE, FALSE, m2, b, {Term(0, 1), Term(0, Open)}),
     Sent("n", FALSE, FALSE, FALSE, m1, a, {Term(0, 1), Term(1, Open)}),
     Sent("n", FALSE, FALSE, FALSE, None, None, {Term(0, Open)})}

(* Explored until an overlap has had its effect.                           *)
MCBound == raced = {}

MCSymmetry == Permutations(Procs)
=============================================================================
