------------------------------ MODULE SignIn ------------------------------
(***************************************************************************)
(* What the sign-in sessions promise, with each operation in one step: a   *)
(* session is opened once for one member, its refresh secret is renewed by *)
(* a compare-and-swap, and a session that has ended is never there again.  *)
(* AuthSessions, with its separate reads, locks and commits, implements    *)
(* this.                                                                   *)
(***************************************************************************)
EXTENDS Integers

CONSTANTS Members, Sids, Procs, None

VARIABLES
    session,    \* session -> its state, its member and the number of its secret
    presented   \* request -> the secret it presents for a session, or Nothing

Unopened == [st |-> "unborn", owner |-> None, secret |-> 0]
Ended    == [st |-> "gone", owner |-> None, secret |-> 0]
Nothing  == [of |-> None, secret |-> 0]

IsOpen(s) == session[s].st = "live"

Init ==
    /\ session = [s \in Sids |-> Unopened]
    /\ presented = [p \in Procs |-> Nothing]

Open(s, m) ==
    /\ session[s].st = "unborn"
    /\ session' = [session EXCEPT ![s] = [st |-> "live", owner |-> m, secret |-> 0]]
    /\ UNCHANGED presented

(* A request comes with any secret the session ever had.                   *)
Present(p, s, k) ==
    /\ IsOpen(s)
    /\ presented[p] = Nothing
    /\ presented' = [presented EXCEPT ![p] = [of |-> s, secret |-> k]]
    /\ UNCHANGED session

(* A request that dies or is rolled back changes nothing.                  *)
Withdraw(p) ==
    /\ presented' = [presented EXCEPT ![p] = Nothing]
    /\ UNCHANGED session

(* Only the current secret is exchanged for the next one.                  *)
Renew(p) ==
    \E s \in Sids :
      /\ presented[p] = [of |-> s, secret |-> session[s].secret]
      /\ IsOpen(s)
      /\ session' = [session EXCEPT ![s].secret = @ + 1]
      /\ presented' = [presented EXCEPT ![p] = Nothing]

(* A refused refresh ends the session it was for.                          *)
Refuse(p) ==
    \E s \in Sids :
      /\ presented[p].of = s
      /\ IsOpen(s)
      /\ session' = [session EXCEPT ![s] = Ended]
      /\ presented' = [presented EXCEPT ![p] = Nothing]

(* Logout, idleness, expiry and a password reset end sessions, the last    *)
(* two several at once, but none that a refresh holds.                     *)
End(S) ==
    /\ \A s \in S : IsOpen(s) /\ \A p \in Procs : presented[p].of # s
    /\ session' = [s \in Sids |-> IF s \in S THEN Ended ELSE session[s]]
    /\ UNCHANGED presented

Next ==
    \/ \E p \in Procs : Withdraw(p)
    \/ \E s \in Sids, m \in Members : Open(s, m)
    \/ \E p \in Procs, s \in Sids : \E k \in 0..session[s].secret : Present(p, s, k)
    \/ \E p \in Procs : Renew(p) \/ Refuse(p)
    \/ \E S \in SUBSET Sids : End(S)

Spec == Init /\ [][Next]_<<session, presented>>
=============================================================================
