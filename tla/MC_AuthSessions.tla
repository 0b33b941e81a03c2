---------------------------- MODULE MC_AuthSessions -------------------------
(* Instances of AuthSessions: one member, two sessions, two or three       *)
(* concurrent requests.                                                    *)
EXTENDS AuthSessions, TLC

MCSymmetry == Permutations(Procs) \cup Permutations(Sids)

Running == Cardinality({p \in Procs : pc[p] # "idle"})

(* Bound: a third request only beside a reset, where it matters what       *)
(* commits while its DELETE waits for somebody else, and before the last   *)
(* tick, after which sessions are old; after a crash one request at a time.*)
MCCrowd ==
    \/ Running <= 1
    \/ Running = 2 /\ crashes = 0
    \/ /\ now < MaxTime /\ crashes = 0
       /\ \E p \in Procs : pc[p] \in {"reset", "delete"}
=============================================================================
