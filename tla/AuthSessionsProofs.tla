------------------------- MODULE AuthSessionsProofs -------------------------
(***************************************************************************)
(* Proofs about AuthSessions for every number of members, sessions and     *)
(* requests: a refresh secret is used once, deadlocks have known shapes,   *)
(* ended sessions stay ended, and a password reset leaves no session of    *)
(* the old password but those of a login that overlapped it.               *)
(*                                                                         *)
(* All of it rests on who holds which lock in which phase (LockInv).       *)
(* The same invariant carries the refinement: every step is one atomic     *)
(* operation of SignIn, or nothing SignIn can see.                         *)
(***************************************************************************)
EXTENDS AuthSessions, TLAPS

OnSession == {"refresh", "rotate", "touch", "touched", "end", "logout", "logouted"}
OnMember  == Phases \ {"idle", "end", "expire", "sweep"}
Holders   == {"refresh", "rotate", "delete", "expire", "sweep"}

(* A request knows the rows it works on; a session has an owner.           *)
PhaseInv ==
    /\ \A p \in Procs :
         /\ pc[p] \in OnSession => arg[p].s \in Sids
         /\ pc[p] \in OnMember => arg[p].m \in Members
    /\ \A s \in Sids : Live(s) => Owner(s) \in Members

(* Session rows are held by refreshes and bulk DELETEs, member rows by     *)
(* stamps and logouts. A refresh holds its session, which therefore stays, *)
(* and with it the secret that was compared.                               *)
LockInv ==
    /\ \A s \in Sids : slock[s] # None => pc[slock[s]] \in Holders
    /\ \A m \in Members : mlock[m] # None => pc[mlock[m]] \in {"touched", "logouted"}
    /\ \A p \in Procs : pc[p] \in {"refresh", "rotate"} =>
         slock[arg[p].s] = p /\ Live(arg[p].s)
    /\ \A p \in Procs : pc[p] = "rotate" => arg[p].k = sess[arg[p].s].secret

(* From the start of its DELETE on, a reset has taken or is still to take  *)
(* every session of its member but those inserted since.                   *)
ResetInv ==
    \A p \in Procs : pc[p] = "delete" =>
      \A s \in Sids : Live(s) /\ Owner(s) = arg[p].m =>
        s \in arg[p].d \/ slock[s] = p \/ s \in late

IInv == TypeOK /\ PhaseInv /\ LockInv /\ ResetInv /\ OldPasswordOnlyByOverlap

-----------------------------------------------------------------------------

(* A request that has read nothing, and session rows before and after.     *)
LEMMA BlankTypes == NoArg \in Reading /\ Blank \in SessionRow /\ Gone \in SessionRow
    BY AuthAssumption DEF NoArg, Reading, Blank, Gone, SessionRow

(* What a request has read, and where it stands, keeps its type; nobody    *)
(* else's changes.                                                         *)
LEMMA Move ==
    ASSUME TypeOK, NEW p \in Procs, NEW phase \in Phases, NEW a \in Reading,
           pc' = [pc EXCEPT ![p] = phase], arg' = [arg EXCEPT ![p] = a]
    PROVE  /\ pc' \in [Procs -> Phases] /\ arg' \in [Procs -> Reading]
           /\ pc'[p] = phase /\ arg'[p] = a
           /\ \A q \in Procs \ {p} : pc'[q] = pc[q] /\ arg'[q] = arg[q]
    BY DEF TypeOK

(* Ending a request gives up its locks and keeps those of the others.      *)
LEMMA Ends ==
    ASSUME TypeOK, NEW p \in Procs, Finish(p)
    PROVE  /\ pc' \in [Procs -> Phases] /\ arg' \in [Procs -> Reading]
           /\ pc'[p] = "idle"
           /\ \A q \in Procs \ {p} : pc'[q] = pc[q] /\ arg'[q] = arg[q]
           /\ slock' \in [Sids -> Procs \cup {None}]
           /\ mlock' \in [Members -> Procs \cup {None}]
           /\ \A s \in Sids : slock'[s] = IF slock[s] = p THEN None ELSE slock[s]
           /\ \A m \in Members : mlock'[m] = IF mlock[m] = p THEN None ELSE mlock[m]
<1>1. /\ pc' = [pc EXCEPT ![p] = "idle"] /\ arg' = [arg EXCEPT ![p] = NoArg]
      /\ "idle" \in Phases /\ NoArg \in Reading
    BY BlankTypes DEF Finish, Phases
<1>2. /\ pc' \in [Procs -> Phases] /\ arg' \in [Procs -> Reading]
      /\ pc'[p] = "idle"
      /\ \A q \in Procs \ {p} : pc'[q] = pc[q] /\ arg'[q] = arg[q]
    BY <1>1, Move
<1> QED BY <1>2 DEF Finish, TypeOK

(* Init: no request is running and no session exists.                      *)
LEMMA InitInv == Init => IInv
<1> SUFFICES ASSUME Init PROVE IInv
    OBVIOUS
<1>1. TypeOK
    BY AuthAssumption, BlankTypes DEF Init, TypeOK, Phases
<1>2. PhaseInv /\ LockInv /\ ResetInv /\ OldPasswordOnlyByOverlap
    BY DEF Init, PhaseInv, OnSession, OnMember, LockInv, ResetInv,
        OldPasswordOnlyByOverlap, Live, Blank
<1> QED BY <1>1, <1>2 DEF IInv

(* One step of any request, and of anybody else, keeps the invariant.      *)
LEMMA StepInv == IInv /\ Next => IInv'
<1> SUFFICES ASSUME IInv, Next PROVE IInv'
    OBVIOUS
<1> USE AuthAssumption DEF IInv, db, locks, Live, Owner, Holders
<1>1. ASSUME NEW p \in Procs, NEW m \in Members, LoginCheck(p, m)
      PROVE  IInv'
  <2>1. [NoArg EXCEPT !.m = m, !.k = pw[m]] \in Reading
    BY <1>1, BlankTypes DEF NoArg, Reading, TypeOK
  <2>2. /\ pc' = [pc EXCEPT ![p] = "login"] 
        /\ arg' = [arg EXCEPT ![p] = [NoArg EXCEPT !.m = m, !.k = pw[m]]]
        /\ "login" \in Phases /\ [NoArg EXCEPT !.m = m, !.k = pw[m]] \in Reading
    BY <1>1, <2>1 DEF LoginCheck, Start, Goto, Phases, TypeOK
  <2>3. /\ pc' \in [Procs -> Phases] /\ arg' \in [Procs -> Reading]
        /\ pc'[p] = "login" /\ arg'[p].m = m
        /\ \A q \in Procs \ {p} : pc'[q] = pc[q] /\ arg'[q] = arg[q]
    BY <2>2, Move DEF NoArg
  <2>4. TypeOK'
    BY <1>1, <2>3, <2>1 DEF LoginCheck, TypeOK
  <2>5. PhaseInv'
    BY <1>1, <2>3, <2>1 DEF LoginCheck, TypeOK, PhaseInv, Start, OnSession,
        OnMember, Phases
  <2>6. LockInv'
    BY <1>1, <2>3, <2>1 DEF LoginCheck, TypeOK, LockInv, Start, FreeFor,
        PhaseInv, OnSession
  <2>7. ResetInv'
    BY <1>1, <2>3, <2>1 DEF LoginCheck, TypeOK, ResetInv, Start, LockInv,
        FreeFor, PhaseInv, OnMember, Phases
  <2>8. OldPasswordOnlyByOverlap'
    BY <1>1, <2>3, <2>1 DEF LoginCheck, TypeOK, OldPasswordOnlyByOverlap, Start
  <2> QED BY <2>4, <2>5, <2>6, <2>7, <2>8
<1>2. ASSUME NEW p \in Procs, NEW s \in Sids, LoginInsert(p, s)
      PROVE  IInv'
  <2>1. arg[p].m \in Members /\ arg[p].k \in Nat
    BY <1>2 DEF LoginInsert, PhaseInv, OnMember, Phases, TypeOK, Reading
  <2>2. /\ sess' \in [Sids -> SessionRow]
        /\ sess'[s].st = "live" /\ sess'[s].owner = arg[p].m /\ sess'[s].pw = arg[p].k
        /\ \A r \in Sids \ {s} : sess'[r] = sess[r]
    BY <1>2, <2>1 DEF LoginInsert, TypeOK, SessionRow
  <2>3. late' \subseteq Sids /\ late \subseteq late'
    BY <1>2 DEF LoginInsert, TypeOK
  <2>4. Finish(p)
    BY <1>2 DEF LoginInsert
  <2>5. TypeOK'
    BY <1>2, <2>4, Ends, <2>1, <2>2, <2>3 DEF LoginInsert, TypeOK
  <2>6. PhaseInv'
    BY <1>2, <2>4, Ends, <2>1, <2>2, <2>3 DEF LoginInsert, TypeOK, PhaseInv,
        OnSession, OnMember, Phases
  <2>7. LockInv'
    BY <1>2, <2>4, Ends, <2>1, <2>2, <2>3 DEF LoginInsert, TypeOK, LockInv,
        FreeFor, PhaseInv, OnSession
  <2>8. ResetInv'
    BY <1>2, <2>4, Ends, <2>1, <2>2, <2>3 DEF LoginInsert, TypeOK, ResetInv,
        LockInv, FreeFor, PhaseInv, OnMember, Phases
  <2>9. OldPasswordOnlyByOverlap'
    BY <1>2, <2>4, Ends, <2>1, <2>2, <2>3 DEF LoginInsert, TypeOK,
        OldPasswordOnlyByOverlap
  <2> QED BY <2>5, <2>6, <2>7, <2>8, <2>9
<1>3. ASSUME NEW p \in Procs, NEW s \in Sids, NEW k \in 0..sess[s].secret, RefreshRead(p, s, k)
      PROVE  IInv'
  <2>1. k \in Nat /\ Owner(s) \in Members
    BY <1>3 DEF RefreshRead, PhaseInv, TypeOK, SessionRow
  <2>2. [NoArg EXCEPT !.s = s, !.m = Owner(s), !.k = k] \in Reading
    BY <2>1, BlankTypes DEF NoArg, Reading
  <2>3. \A r \in Sids : slock'[r] = IF r = s THEN p ELSE slock[r]
    BY <1>3 DEF RefreshRead, TypeOK
  <2>4. /\ pc' = [pc EXCEPT ![p] = "refresh"] 
        /\ arg' = [arg EXCEPT ![p] = [NoArg EXCEPT !.s = s, !.m = Owner(s), !.k = k]]
        /\ "refresh" \in Phases /\ [NoArg EXCEPT !.s = s, !.m = Owner(s), !.k = k] \in Reading
    BY <1>3, <2>1, <2>2, <2>3 DEF RefreshRead, Start, Goto, Phases, TypeOK
  <2>5. /\ pc' \in [Procs -> Phases] /\ arg' \in [Procs -> Reading]
        /\ pc'[p] = "refresh" /\ arg'[p].s = s /\ arg'[p].m = Owner(s)
        /\ \A q \in Procs \ {p} : pc'[q] = pc[q] /\ arg'[q] = arg[q]
    BY <2>4, Move DEF NoArg
  <2>6. TypeOK'
    BY <1>3, <2>5, <2>1, <2>2, <2>3 DEF RefreshRead, TypeOK
  <2>7. PhaseInv'
    BY <1>3, <2>5, <2>1, <2>2, <2>3 DEF RefreshRead, TypeOK, PhaseInv, Start,
        OnSession, OnMember, Phases
  <2>8. LockInv'
    BY <1>3, <2>5, <2>1, <2>2, <2>3 DEF RefreshRead, TypeOK, LockInv, Start,
        FreeFor, PhaseInv, OnSession
  <2>9. ResetInv'
    BY <1>3, <2>5, <2>1, <2>2, <2>3 DEF RefreshRead, TypeOK, ResetInv, Start,
        LockInv, FreeFor, PhaseInv, OnMember, Phases
  <2>10. OldPasswordOnlyByOverlap'
    BY <1>3, <2>5, <2>1, <2>2, <2>3 DEF RefreshRead, TypeOK,
        OldPasswordOnlyByOverlap, Start
  <2> QED BY <2>6, <2>7, <2>8, <2>9, <2>10
<1>4. ASSUME NEW p \in Procs, RefreshAccept(p)
      PROVE  IInv'
  <2>1. arg[p] \in Reading
    BY DEF TypeOK
  <2>2. [arg[p] EXCEPT !.t = now] \in Reading
    BY <2>1 DEF TypeOK, Reading
  <2>3. /\ pc' = [pc EXCEPT ![p] = "rotate"] 
        /\ arg' = [arg EXCEPT ![p] = [arg[p] EXCEPT !.t = now]]
        /\ "rotate" \in Phases /\ [arg[p] EXCEPT !.t = now] \in Reading
    BY <1>4, <2>1, <2>2 DEF RefreshAccept, Start, Goto, Phases, TypeOK
  <2>4. /\ pc' \in [Procs -> Phases] /\ arg' \in [Procs -> Reading]
        /\ pc'[p] = "rotate" /\ arg'[p].s = arg[p].s /\ arg'[p].m = arg[p].m /\ arg'[p].k = arg[p].k
        /\ \A q \in Procs \ {p} : pc'[q] = pc[q] /\ arg'[q] = arg[q]
    BY <2>3, Move DEF Reading
  <2>5. TypeOK'
    BY <1>4, <2>4, <2>1, <2>2 DEF RefreshAccept, TypeOK
  <2>6. PhaseInv'
    BY <1>4, <2>4, <2>1, <2>2 DEF RefreshAccept, TypeOK, PhaseInv, Start,
        OnSession, OnMember, Phases
  <2>7. LockInv'
    BY <1>4, <2>4, <2>1, <2>2 DEF RefreshAccept, TypeOK, LockInv, Start,
        FreeFor, PhaseInv, OnSession, Acceptable
  <2>8. ResetInv'
    BY <1>4, <2>4, <2>1, <2>2 DEF RefreshAccept, TypeOK, ResetInv, Start,
        LockInv, FreeFor, PhaseInv, OnMember, Phases
  <2>9. OldPasswordOnlyByOverlap'
    BY <1>4, <2>4, <2>1, <2>2 DEF RefreshAccept, TypeOK,
        OldPasswordOnlyByOverlap, Start
  <2> QED BY <2>5, <2>6, <2>7, <2>8, <2>9
<1>5. ASSUME NEW p \in Procs, RefreshReject(p)
      PROVE  IInv'
  <2>1. /\ sess' \in [Sids -> SessionRow]
        /\ \A s \in Sids : sess'[s] = sess[s] \/ (sess'[s].st = "gone" /\ s = arg[p].s)
    BY <1>5, BlankTypes DEF RefreshReject, TypeOK, Gone, Blank
  <2>2. Finish(p)
    BY <1>5 DEF RefreshReject
  <2>3. TypeOK'
    BY <1>5, <2>2, Ends, <2>1 DEF RefreshReject, TypeOK
  <2>4. PhaseInv'
    BY <1>5, <2>2, Ends, <2>1 DEF RefreshReject, TypeOK, PhaseInv, OnSession,
        OnMember, Phases
  <2>5. LockInv'
    BY <1>5, <2>2, Ends, <2>1 DEF RefreshReject, TypeOK, LockInv, FreeFor,
        PhaseInv, OnSession
  <2>6. ResetInv'
    BY <1>5, <2>2, Ends, <2>1 DEF RefreshReject, TypeOK, ResetInv, LockInv,
        FreeFor, PhaseInv, OnMember, Phases
  <2>7. OldPasswordOnlyByOverlap'
    BY <1>5, <2>2, Ends, <2>1 DEF RefreshReject, TypeOK,
        OldPasswordOnlyByOverlap
  <2> QED BY <2>3, <2>4, <2>5, <2>6, <2>7
<1>6. ASSUME NEW p \in Procs, RefreshRotate(p)
      PROVE  IInv'
  <2>1. Finish(p) /\ arg[p].t \in 0..MaxTime
    BY <1>6 DEF RefreshRotate, TypeOK, Reading
  <2>2. /\ sess' \in [Sids -> SessionRow]
        /\ \A s \in Sids :
             /\ sess'[s].st = sess[s].st /\ sess'[s].owner = sess[s].owner
             /\ sess'[s].pw = sess[s].pw
             /\ s # arg[p].s => sess'[s].secret = sess[s].secret
    BY <1>6, <2>1 DEF RefreshRotate, TypeOK, PhaseInv, OnSession, SessionRow
  <2>3. /\ pc[p] = "rotate" /\ FreeFor(p, mlock, arg[p].m)
        /\ UNCHANGED <<now, locked, pw, token, tokenAt, issued, late, crashes>>
    BY <1>6 DEF RefreshRotate
  <2>4. TypeOK'
    BY <2>1, <2>2, <2>3, Ends DEF TypeOK
  <2>5. PhaseInv'
    BY <2>1, <2>2, <2>3, Ends DEF TypeOK, PhaseInv, OnSession, OnMember, Phases
  <2>6. LockInv'
    <3>1. \A q \in Procs : pc'[q] # "idle" => q # p /\ pc'[q] = pc[q] /\ arg'[q] = arg[q]
      BY <2>1, Ends
    <3>2. /\ \A s \in Sids : slock'[s] # None => slock'[s] = slock[s] /\ slock[s] # p
          /\ \A m \in Members : mlock'[m] # None => mlock'[m] = mlock[m] /\ mlock[m] # p
      BY <2>1, Ends
    <3>3. /\ \A s \in Sids : slock'[s] # None =>
                 pc'[slock'[s]] \in Holders
          /\ \A m \in Members : mlock'[m] # None => pc'[mlock'[m]] \in {"touched", "logouted"}
      BY <2>1, <3>2, Ends DEF TypeOK, LockInv
    <3>4. ASSUME NEW q \in Procs, pc'[q] \in {"refresh", "rotate"}
          PROVE  /\ slock'[arg'[q].s] = q /\ sess'[arg'[q].s].st = "live"
                 /\ pc'[q] = "rotate" => arg'[q].k = sess'[arg'[q].s].secret
      <4>1. /\ q # p /\ pc'[q] = pc[q] /\ arg'[q] = arg[q] /\ arg[q].s \in Sids
            /\ slock[arg[q].s] = q /\ sess[arg[q].s].st = "live"
        BY <3>1, <3>4 DEF LockInv, PhaseInv, OnSession
      <4>2. slock[arg[p].s] = p
        BY <2>3 DEF LockInv
      <4>3. slock'[arg[q].s] = q
        BY <2>1, <4>1, Ends
      <4>4. sess'[arg[q].s].st = "live" /\ sess'[arg[q].s].secret = sess[arg[q].s].secret
        BY <2>2, <4>1, <4>2
      <4> QED BY <4>1, <4>3, <4>4 DEF LockInv
    <3> QED BY <3>3, <3>4 DEF LockInv
  <2>7. ResetInv'
    BY <2>1, <2>2, <2>3, Ends DEF TypeOK, ResetInv, LockInv, FreeFor, PhaseInv,
        OnMember, Phases
  <2>8. OldPasswordOnlyByOverlap'
    BY <2>1, <2>2, <2>3, Ends DEF TypeOK, OldPasswordOnlyByOverlap
  <2> QED BY <2>4, <2>5, <2>6, <2>7, <2>8
<1>7. ASSUME NEW p \in Procs, NEW s \in Sids, TouchRead(p, s), IsIdle(s, now)
      PROVE  IInv'
  <2>1. [NoArg EXCEPT !.s = s] \in Reading
    BY <1>7, BlankTypes DEF NoArg, Reading, TypeOK
  <2>2. /\ pc' = [pc EXCEPT ![p] = "end"] 
        /\ arg' = [arg EXCEPT ![p] = [NoArg EXCEPT !.s = s]]
        /\ "end" \in Phases /\ [NoArg EXCEPT !.s = s] \in Reading
    BY <1>7, <2>1 DEF TouchRead, Start, Goto, Phases, TypeOK
  <2>3. /\ pc' \in [Procs -> Phases] /\ arg' \in [Procs -> Reading]
        /\ pc'[p] = "end" /\ arg'[p].s = s
        /\ \A q \in Procs \ {p} : pc'[q] = pc[q] /\ arg'[q] = arg[q]
    BY <2>2, Move DEF NoArg
  <2>4. TypeOK'
    BY <1>7, <2>3, <2>1 DEF TouchRead, TypeOK
  <2>5. PhaseInv'
    BY <1>7, <2>3, <2>1 DEF TouchRead, TypeOK, PhaseInv, Start, OnSession,
        OnMember, Phases
  <2>6. LockInv'
    BY <1>7, <2>3, <2>1 DEF TouchRead, TypeOK, LockInv, Start, FreeFor,
        PhaseInv, OnSession
  <2>7. ResetInv'
    BY <1>7, <2>3, <2>1 DEF TouchRead, TypeOK, ResetInv, Start, LockInv,
        FreeFor, PhaseInv, OnMember, Phases
  <2>8. OldPasswordOnlyByOverlap'
    BY <1>7, <2>3, <2>1 DEF TouchRead, TypeOK, OldPasswordOnlyByOverlap, Start
  <2> QED BY <2>4, <2>5, <2>6, <2>7, <2>8
<1>8. ASSUME NEW p \in Procs, NEW s \in Sids, TouchRead(p, s), ~IsIdle(s, now)
      PROVE  IInv'
  <2>1. now \in 0..MaxTime /\ Owner(s) \in Members
    BY <1>8 DEF TouchRead, PhaseInv, TypeOK
  <2>2. [NoArg EXCEPT !.s = s, !.m = Owner(s), !.t = now] \in Reading
    BY <2>1, BlankTypes DEF NoArg, Reading
  <2>3. /\ pc' = [pc EXCEPT ![p] = "touch"] 
        /\ arg' = [arg EXCEPT ![p] = [NoArg EXCEPT !.s = s, !.m = Owner(s), !.t = now]]
        /\ "touch" \in Phases /\ [NoArg EXCEPT !.s = s, !.m = Owner(s), !.t = now] \in Reading
    BY <1>8, <2>1, <2>2 DEF TouchRead, Start, Goto, Phases, TypeOK
  <2>4. /\ pc' \in [Procs -> Phases] /\ arg' \in [Procs -> Reading]
        /\ pc'[p] = "touch" /\ arg'[p].s = s /\ arg'[p].m = Owner(s)
        /\ \A q \in Procs \ {p} : pc'[q] = pc[q] /\ arg'[q] = arg[q]
    BY <2>3, Move DEF NoArg
  <2>5. TypeOK'
    BY <1>8, <2>4, <2>1, <2>2 DEF TouchRead, TypeOK
  <2>6. PhaseInv'
    BY <1>8, <2>4, <2>1, <2>2 DEF TouchRead, TypeOK, PhaseInv, Start,
        OnSession, OnMember, Phases
  <2>7. LockInv'
    BY <1>8, <2>4, <2>1, <2>2 DEF TouchRead, TypeOK, LockInv, Start, FreeFor,
        PhaseInv, OnSession
  <2>8. ResetInv'
    BY <1>8, <2>4, <2>1, <2>2 DEF TouchRead, TypeOK, ResetInv, Start, LockInv,
        FreeFor, PhaseInv, OnMember, Phases
  <2>9. OldPasswordOnlyByOverlap'
    BY <1>8, <2>4, <2>1, <2>2 DEF TouchRead, TypeOK, OldPasswordOnlyByOverlap,
        Start
  <2> QED BY <2>5, <2>6, <2>7, <2>8, <2>9
<1>9. ASSUME NEW p \in Procs, TouchMember(p)
      PROVE  IInv'
  <2>1. \A m \in Members : mlock'[m] = IF m = arg[p].m THEN p ELSE mlock[m]
    BY <1>9 DEF TouchMember, TypeOK
  <2>2. /\ pc' = [pc EXCEPT ![p] = "touched"] 
        /\ arg' = [arg EXCEPT ![p] = arg[p]]
        /\ "touched" \in Phases /\ arg[p] \in Reading
    BY <1>9, <2>1 DEF TouchMember, Start, Goto, Phases, TypeOK
  <2>3. /\ pc' \in [Procs -> Phases] /\ arg' \in [Procs -> Reading]
        /\ pc'[p] = "touched" /\ arg'[p] = arg[p]
        /\ \A q \in Procs \ {p} : pc'[q] = pc[q] /\ arg'[q] = arg[q]
    BY <2>2, Move
  <2>4. TypeOK'
    BY <1>9, <2>3, <2>1 DEF TouchMember, TypeOK
  <2>5. PhaseInv'
    BY <1>9, <2>3, <2>1 DEF TouchMember, TypeOK, PhaseInv, Start, OnSession,
        OnMember, Phases
  <2>6. LockInv'
    BY <1>9, <2>3, <2>1 DEF TouchMember, TypeOK, LockInv, Start, FreeFor,
        PhaseInv, OnSession
  <2>7. ResetInv'
    BY <1>9, <2>3, <2>1 DEF TouchMember, TypeOK, ResetInv, Start, LockInv,
        FreeFor, PhaseInv, OnMember, Phases
  <2>8. OldPasswordOnlyByOverlap'
    BY <1>9, <2>3, <2>1 DEF TouchMember, TypeOK, OldPasswordOnlyByOverlap,
        Start
  <2> QED BY <2>4, <2>5, <2>6, <2>7, <2>8
<1>10. ASSUME NEW p \in Procs, TouchSession(p)
       PROVE  IInv'
  <2>1. arg[p].t \in 0..MaxTime
    BY DEF TypeOK, Reading
  <2>2. /\ sess' \in [Sids -> SessionRow]
        /\ \A s \in Sids :
             /\ sess'[s].st = sess[s].st /\ sess'[s].owner = sess[s].owner
             /\ sess'[s].pw = sess[s].pw
             /\ sess'[s].secret = sess[s].secret
    BY <1>10, <2>1 DEF TouchSession, TypeOK, PhaseInv, OnSession, SessionRow
  <2>3. Finish(p)
    BY <1>10 DEF TouchSession
  <2>4. TypeOK'
    BY <1>10, <2>3, Ends, <2>1, <2>2 DEF TouchSession, TypeOK
  <2>5. PhaseInv'
    BY <1>10, <2>3, Ends, <2>1, <2>2 DEF TouchSession, TypeOK, PhaseInv,
        OnSession, OnMember, Phases
  <2>6. LockInv'
    BY <1>10, <2>3, Ends, <2>1, <2>2 DEF TouchSession, TypeOK, LockInv,
        FreeFor, PhaseInv, OnSession
  <2>7. ResetInv'
    BY <1>10, <2>3, Ends, <2>1, <2>2 DEF TouchSession, TypeOK, ResetInv,
        LockInv, FreeFor, PhaseInv, OnMember, Phases
  <2>8. OldPasswordOnlyByOverlap'
    BY <1>10, <2>3, Ends, <2>1, <2>2 DEF TouchSession, TypeOK,
        OldPasswordOnlyByOverlap
  <2> QED BY <2>4, <2>5, <2>6, <2>7, <2>8
<1>11. ASSUME NEW p \in Procs, EndIdle(p)
       PROVE  IInv'
  <2>1. /\ sess' \in [Sids -> SessionRow]
        /\ \A s \in Sids : sess'[s] = sess[s] \/ (sess'[s].st = "gone" /\ s = arg[p].s)
    BY <1>11, BlankTypes DEF EndIdle, TypeOK, Gone, Blank
  <2>2. Finish(p)
    BY <1>11 DEF EndIdle
  <2>3. TypeOK'
    BY <1>11, <2>2, Ends, <2>1 DEF EndIdle, TypeOK
  <2>4. PhaseInv'
    BY <1>11, <2>2, Ends, <2>1 DEF EndIdle, TypeOK, PhaseInv, OnSession,
        OnMember, Phases
  <2>5. LockInv'
    BY <1>11, <2>2, Ends, <2>1 DEF EndIdle, TypeOK, LockInv, FreeFor, PhaseInv,
        OnSession
  <2>6. ResetInv'
    BY <1>11, <2>2, Ends, <2>1 DEF EndIdle, TypeOK, ResetInv, LockInv, FreeFor,
        PhaseInv, OnMember, Phases
  <2>7. OldPasswordOnlyByOverlap'
    BY <1>11, <2>2, Ends, <2>1 DEF EndIdle, TypeOK, OldPasswordOnlyByOverlap
  <2> QED BY <2>3, <2>4, <2>5, <2>6, <2>7
<1>12. ASSUME NEW p \in Procs, NEW s \in Sids, LogoutRead(p, s)
       PROVE  IInv'
  <2>1. Owner(s) \in Members
    BY <1>12 DEF LogoutRead, PhaseInv
  <2>2. [NoArg EXCEPT !.s = s, !.m = Owner(s)] \in Reading
    BY <2>1, BlankTypes DEF NoArg, Reading
  <2>3. /\ pc' = [pc EXCEPT ![p] = "logout"] 
        /\ arg' = [arg EXCEPT ![p] = [NoArg EXCEPT !.s = s, !.m = Owner(s)]]
        /\ "logout" \in Phases /\ [NoArg EXCEPT !.s = s, !.m = Owner(s)] \in Reading
    BY <1>12, <2>1, <2>2 DEF LogoutRead, Start, Goto, Phases, TypeOK
  <2>4. /\ pc' \in [Procs -> Phases] /\ arg' \in [Procs -> Reading]
        /\ pc'[p] = "logout" /\ arg'[p].s = s /\ arg'[p].m = Owner(s)
        /\ \A q \in Procs \ {p} : pc'[q] = pc[q] /\ arg'[q] = arg[q]
    BY <2>3, Move DEF NoArg
  <2>5. TypeOK'
    BY <1>12, <2>4, <2>1, <2>2 DEF LogoutRead, TypeOK
  <2>6. PhaseInv'
    BY <1>12, <2>4, <2>1, <2>2 DEF LogoutRead, TypeOK, PhaseInv, Start,
        OnSession, OnMember, Phases
  <2>7. LockInv'
    BY <1>12, <2>4, <2>1, <2>2 DEF LogoutRead, TypeOK, LockInv, Start, FreeFor,
        PhaseInv, OnSession
  <2>8. ResetInv'
    BY <1>12, <2>4, <2>1, <2>2 DEF LogoutRead, TypeOK, ResetInv, Start,
        LockInv, FreeFor, PhaseInv, OnMember, Phases
  <2>9. OldPasswordOnlyByOverlap'
    BY <1>12, <2>4, <2>1, <2>2 DEF LogoutRead, TypeOK,
        OldPasswordOnlyByOverlap, Start
  <2> QED BY <2>5, <2>6, <2>7, <2>8, <2>9
<1>13. ASSUME NEW p \in Procs, LogoutMember(p)
       PROVE  IInv'
  <2>1. \A m \in Members : mlock'[m] = IF m = arg[p].m THEN p ELSE mlock[m]
    BY <1>13 DEF LogoutMember, TypeOK
  <2>2. /\ pc' = [pc EXCEPT ![p] = "logouted"] 
        /\ arg' = [arg EXCEPT ![p] = arg[p]]
        /\ "logouted" \in Phases /\ arg[p] \in Reading
    BY <1>13, <2>1 DEF LogoutMember, Start, Goto, Phases, TypeOK
  <2>3. /\ pc' \in [Procs -> Phases] /\ arg' \in [Procs -> Reading]
        /\ pc'[p] = "logouted" /\ arg'[p] = arg[p]
        /\ \A q \in Procs \ {p} : pc'[q] = pc[q] /\ arg'[q] = arg[q]
    BY <2>2, Move
  <2>4. TypeOK'
    BY <1>13, <2>3, <2>1 DEF LogoutMember, TypeOK
  <2>5. PhaseInv'
    BY <1>13, <2>3, <2>1 DEF LogoutMember, TypeOK, PhaseInv, Start, OnSession,
        OnMember, Phases
  <2>6. LockInv'
    BY <1>13, <2>3, <2>1 DEF LogoutMember, TypeOK, LockInv, Start, FreeFor,
        PhaseInv, OnSession
  <2>7. ResetInv'
    BY <1>13, <2>3, <2>1 DEF LogoutMember, TypeOK, ResetInv, Start, LockInv,
        FreeFor, PhaseInv, OnMember, Phases
  <2>8. OldPasswordOnlyByOverlap'
    BY <1>13, <2>3, <2>1 DEF LogoutMember, TypeOK, OldPasswordOnlyByOverlap,
        Start
  <2> QED BY <2>4, <2>5, <2>6, <2>7, <2>8
<1>14. ASSUME NEW p \in Procs, LogoutSession(p)
       PROVE  IInv'
  <2>1. /\ sess' \in [Sids -> SessionRow]
        /\ \A s \in Sids : sess'[s] = sess[s] \/ (sess'[s].st = "gone" /\ s = arg[p].s)
    BY <1>14, BlankTypes DEF LogoutSession, TypeOK, Gone, Blank
  <2>2. Finish(p)
    BY <1>14 DEF LogoutSession
  <2>3. TypeOK'
    BY <1>14, <2>2, Ends, <2>1 DEF LogoutSession, TypeOK
  <2>4. PhaseInv'
    BY <1>14, <2>2, Ends, <2>1 DEF LogoutSession, TypeOK, PhaseInv, OnSession,
        OnMember, Phases
  <2>5. LockInv'
    BY <1>14, <2>2, Ends, <2>1 DEF LogoutSession, TypeOK, LockInv, FreeFor,
        PhaseInv, OnSession
  <2>6. ResetInv'
    BY <1>14, <2>2, Ends, <2>1 DEF LogoutSession, TypeOK, ResetInv, LockInv,
        FreeFor, PhaseInv, OnMember, Phases
  <2>7. OldPasswordOnlyByOverlap'
    BY <1>14, <2>2, Ends, <2>1 DEF LogoutSession, TypeOK,
        OldPasswordOnlyByOverlap
  <2> QED BY <2>3, <2>4, <2>5, <2>6, <2>7
<1>15. ASSUME NEW p \in Procs, NEW m \in Members, ResetCheck(p, m)
       PROVE  IInv'
  <2>1. token[m] \in Nat
    BY <1>15 DEF ResetCheck, TypeOK
  <2>2. [NoArg EXCEPT !.m = m, !.k = token[m]] \in Reading
    BY <2>1, BlankTypes DEF NoArg, Reading
  <2>3. /\ pc' = [pc EXCEPT ![p] = "reset"] 
        /\ arg' = [arg EXCEPT ![p] = [NoArg EXCEPT !.m = m, !.k = token[m]]]
        /\ "reset" \in Phases /\ [NoArg EXCEPT !.m = m, !.k = token[m]] \in Reading
    BY <1>15, <2>1, <2>2 DEF ResetCheck, Start, Goto, Phases, TypeOK
  <2>4. /\ pc' \in [Procs -> Phases] /\ arg' \in [Procs -> Reading]
        /\ pc'[p] = "reset" /\ arg'[p].m = m
        /\ \A q \in Procs \ {p} : pc'[q] = pc[q] /\ arg'[q] = arg[q]
    BY <2>3, Move DEF NoArg
  <2>5. TypeOK'
    BY <1>15, <2>4, <2>1, <2>2 DEF ResetCheck, TypeOK
  <2>6. PhaseInv'
    BY <1>15, <2>4, <2>1, <2>2 DEF ResetCheck, TypeOK, PhaseInv, Start,
        OnSession, OnMember, Phases
  <2>7. LockInv'
    BY <1>15, <2>4, <2>1, <2>2 DEF ResetCheck, TypeOK, LockInv, Start, FreeFor,
        PhaseInv, OnSession
  <2>8. ResetInv'
    BY <1>15, <2>4, <2>1, <2>2 DEF ResetCheck, TypeOK, ResetInv, Start,
        LockInv, FreeFor, PhaseInv, OnMember, Phases
  <2>9. OldPasswordOnlyByOverlap'
    BY <1>15, <2>4, <2>1, <2>2 DEF ResetCheck, TypeOK,
        OldPasswordOnlyByOverlap, Start
  <2> QED BY <2>5, <2>6, <2>7, <2>8, <2>9
<1>16. ASSUME NEW p \in Procs, ResetSessions(p)
       PROVE  IInv'
  <2> DEFINE mine == {s \in Sids : Live(s) /\ Owner(s) = arg[p].m}
  <2>1. arg[p] \in Reading /\ [arg[p] EXCEPT !.d = mine] \in Reading
    BY DEF TypeOK, Reading
  <2>2. /\ pc' = [pc EXCEPT ![p] = "delete"]
        /\ arg' = [arg EXCEPT ![p] = [arg[p] EXCEPT !.d = mine]]
        /\ "delete" \in Phases
    BY <1>16 DEF ResetSessions, Phases, TypeOK
  <2>3. /\ pc' \in [Procs -> Phases] /\ arg' \in [Procs -> Reading]
        /\ pc'[p] = "delete" /\ arg'[p].m = arg[p].m /\ arg'[p].d = mine
        /\ \A q \in Procs \ {p} : pc'[q] = pc[q] /\ arg'[q] = arg[q]
    BY <2>1, <2>2, Move DEF Reading
  <2>4. TypeOK'
    BY <1>16, <2>3 DEF ResetSessions, TypeOK
  <2>5. PhaseInv'
    BY <1>16, <2>3 DEF ResetSessions, PhaseInv, OnSession, OnMember, Phases
  <2>6. LockInv'
    BY <1>16, <2>3 DEF ResetSessions, TypeOK, LockInv
  <2>7. ResetInv'
    BY <1>16, <2>3 DEF ResetSessions, ResetInv
  <2>8. OldPasswordOnlyByOverlap'
    BY <1>16 DEF ResetSessions, OldPasswordOnlyByOverlap
  <2> QED BY <2>4, <2>5, <2>6, <2>7, <2>8
<1>17. ASSUME NEW p \in Procs, NEW s \in Sids, DeleteTake(p, s)
       PROVE  IInv'
  <2>1. arg[p] \in Reading /\ [arg[p] EXCEPT !.d = arg[p].d \ {s}] \in Reading
    BY DEF TypeOK, Reading
  <2>2. /\ pc' = pc /\ Deleting(p)
        /\ arg' = [arg EXCEPT ![p] = [arg[p] EXCEPT !.d = arg[p].d \ {s}]]
    BY <1>17 DEF DeleteTake
  <2>3. /\ arg' \in [Procs -> Reading]
        /\ arg'[p].m = arg[p].m /\ arg'[p].s = arg[p].s
        /\ arg'[p].d = arg[p].d \ {s}
        /\ \A q \in Procs \ {p} : arg'[q] = arg[q]
    BY <2>1, <2>2 DEF TypeOK, Reading
  <2>4. /\ slock' \in [Sids -> Procs \cup {None}]
        /\ slock[s] \in {None, p}
        /\ slock'[s] \in {slock[s], p}
        /\ \A t \in Sids \ {s} : slock'[t] = slock[t]
    BY <1>17 DEF DeleteTake, FreeFor, TypeOK
  <2>5. TypeOK'
    BY <1>17, <2>3, <2>4 DEF DeleteTake, TypeOK
  <2>6. PhaseInv'
    BY <1>17, <2>2, <2>3 DEF DeleteTake, PhaseInv
  <2>7. LockInv'
    BY <1>17, <2>2, <2>3, <2>4
    DEF DeleteTake, Deleting, TypeOK, LockInv, PhaseInv, OnSession
  <2>8. ResetInv'
    <3> SUFFICES ASSUME NEW q \in Procs, pc[q] = "delete",
                        NEW t \in Sids, Live(t), Owner(t) = arg[q].m
                 PROVE  t \in arg'[q].d \/ slock'[t] = q \/ t \in late
      BY <1>17, <2>2, <2>3 DEF DeleteTake, ResetInv
    <3>1. t \in arg[q].d \/ slock[t] = q \/ t \in late
      BY DEF ResetInv
    <3>2. CASE q = p /\ t = s
      BY <1>17, <3>2 DEF DeleteTake, StillWanted, TypeOK
    <3>3. CASE q = p /\ t # s
      BY <2>3, <2>4, <3>1, <3>3
    <3>4. CASE q # p
      BY <2>3, <2>4, <3>1, <3>4
    <3> QED BY <3>2, <3>3, <3>4
  <2>9. OldPasswordOnlyByOverlap'
    BY <1>17 DEF DeleteTake, OldPasswordOnlyByOverlap
  <2> QED BY <2>5, <2>6, <2>7, <2>8, <2>9
<1>18. ASSUME NEW p \in Procs, CleanupStart(p)
       PROVE  IInv'
  <2> DEFINE old == {s \in Sids : Live(s) /\ IsExpired(s, now)}
  <2>1. [NoArg EXCEPT !.t = now, !.d = old] \in Reading
    BY BlankTypes DEF NoArg, Reading, TypeOK
  <2>2. /\ pc' = [pc EXCEPT ![p] = "expire"]
        /\ arg' = [arg EXCEPT ![p] = [NoArg EXCEPT !.t = now, !.d = old]]
        /\ "expire" \in Phases /\ pc[p] = "idle"
    BY <1>18 DEF CleanupStart, Start, Phases
  <2>3. /\ pc' \in [Procs -> Phases] /\ arg' \in [Procs -> Reading]
        /\ pc'[p] = "expire"
        /\ \A q \in Procs \ {p} : pc'[q] = pc[q] /\ arg'[q] = arg[q]
    BY <2>1, <2>2, Move
  <2>4. TypeOK'
    BY <1>18, <2>3 DEF CleanupStart, TypeOK
  <2>5. PhaseInv'
    BY <1>18, <2>3 DEF CleanupStart, PhaseInv, OnSession, OnMember, Phases
  <2>6. LockInv'
    BY <1>18, <2>2, <2>3 DEF CleanupStart, TypeOK, LockInv
  <2>7. ResetInv'
    BY <1>18, <2>3 DEF CleanupStart, ResetInv
  <2>8. OldPasswordOnlyByOverlap'
    BY <1>18 DEF CleanupStart, OldPasswordOnlyByOverlap
  <2> QED BY <2>4, <2>5, <2>6, <2>7, <2>8
<1>19. ASSUME NEW p \in Procs, CleanupIdle(p)
       PROVE  IInv'
  <2> DEFINE idle == {s \in Sids : Live(s) /\ IsIdle(s, arg[p].t) /\ slock[s] # p}
  <2>1. arg[p] \in Reading /\ [arg[p] EXCEPT !.d = idle] \in Reading
    BY DEF TypeOK, Reading
  <2>2. /\ pc' = [pc EXCEPT ![p] = "sweep"]
        /\ arg' = [arg EXCEPT ![p] = [arg[p] EXCEPT !.d = idle]]
        /\ "sweep" \in Phases /\ pc[p] = "expire"
    BY <1>19 DEF CleanupIdle, Phases, TypeOK
  <2>3. /\ pc' \in [Procs -> Phases] /\ arg' \in [Procs -> Reading]
        /\ pc'[p] = "sweep"
        /\ \A q \in Procs \ {p} : pc'[q] = pc[q] /\ arg'[q] = arg[q]
    BY <2>1, <2>2, Move
  <2>4. TypeOK'
    BY <1>19, <2>3 DEF CleanupIdle, TypeOK
  <2>5. PhaseInv'
    BY <1>19, <2>3 DEF CleanupIdle, PhaseInv, OnSession, OnMember, Phases
  <2>6. LockInv'
    BY <1>19, <2>3 DEF CleanupIdle, TypeOK, LockInv
  <2>7. ResetInv'
    BY <1>19, <2>3 DEF CleanupIdle, ResetInv
  <2>8. OldPasswordOnlyByOverlap'
    BY <1>19 DEF CleanupIdle, OldPasswordOnlyByOverlap
  <2> QED BY <2>4, <2>5, <2>6, <2>7, <2>8
<1>20. ASSUME NEW p \in Procs, ResetCommit(p)
       PROVE  IInv'
  <2>1. /\ arg[p].m \in Members /\ pw' \in [Members -> Nat]
        /\ \A m \in Members : pw'[m] = IF m = arg[p].m THEN pw[m] + 1 ELSE pw[m]
    BY <1>20 DEF ResetCommit, PhaseInv, OnMember, Phases, TypeOK
  <2>2. /\ sess' \in [Sids -> SessionRow]
        /\ \A s \in Sids : IF slock[s] = p THEN sess'[s].st = "gone" ELSE sess'[s] = sess[s]
    BY <1>20, BlankTypes DEF ResetCommit, TypeOK, Gone, Blank
  <2>3. /\ token' \in [Members -> 0..MaxTokens \cup {None}]
        /\ tokenAt' \in [Members -> 0..MaxTime]
    BY <1>20 DEF ResetCommit, DropTokens, TypeOK
  <2>4. Finish(p)
    BY <1>20 DEF ResetCommit
  <2>5. TypeOK'
    BY <1>20, <2>4, Ends, <2>1, <2>2, <2>3 DEF ResetCommit, TypeOK
  <2>6. PhaseInv'
    BY <1>20, <2>4, Ends, <2>1, <2>2, <2>3 DEF ResetCommit, TypeOK, PhaseInv,
        OnSession, OnMember, Phases
  <2>7. LockInv'
    BY <1>20, <2>4, Ends, <2>1, <2>2, <2>3 DEF ResetCommit, TypeOK, LockInv,
        FreeFor, PhaseInv, OnSession
  <2>8. ResetInv'
    BY <1>20, <2>4, Ends, <2>1, <2>2, <2>3 DEF ResetCommit, TypeOK, ResetInv,
        LockInv, FreeFor, PhaseInv, OnMember, Phases
  <2>9. OldPasswordOnlyByOverlap'
    BY <1>20, <2>4, Ends, <2>1, <2>2, <2>3 DEF ResetCommit, TypeOK,
        OldPasswordOnlyByOverlap, ResetInv
  <2> QED BY <2>5, <2>6, <2>7, <2>8, <2>9
<1>21. ASSUME NEW p \in Procs, Crash(p)
       PROVE  IInv'
  <2>1. Finish(p)
    BY <1>21 DEF Crash
  <2>2. TypeOK'
    BY <1>21, <2>1, Ends DEF Crash, TypeOK
  <2>3. PhaseInv'
    BY <1>21, <2>1, Ends DEF Crash, TypeOK, PhaseInv, OnSession, OnMember,
        Phases
  <2>4. LockInv'
    BY <1>21, <2>1, Ends DEF Crash, TypeOK, LockInv, FreeFor, PhaseInv,
        OnSession
  <2>5. ResetInv'
    BY <1>21, <2>1, Ends DEF Crash, TypeOK, ResetInv, LockInv, FreeFor,
        PhaseInv, OnMember, Phases
  <2>6. OldPasswordOnlyByOverlap'
    BY <1>21, <2>1, Ends DEF Crash, TypeOK, OldPasswordOnlyByOverlap
  <2> QED BY <2>2, <2>3, <2>4, <2>5, <2>6
<1>22. ASSUME NEW p \in Procs, DeadlockAbort(p)
       PROVE  IInv'
  <2>1. Finish(p)
    BY <1>22 DEF DeadlockAbort
  <2>2. TypeOK'
    BY <1>22, <2>1, Ends DEF DeadlockAbort, TypeOK
  <2>3. PhaseInv'
    BY <1>22, <2>1, Ends DEF DeadlockAbort, TypeOK, PhaseInv, OnSession,
        OnMember, Phases
  <2>4. LockInv'
    BY <1>22, <2>1, Ends DEF DeadlockAbort, TypeOK, LockInv, FreeFor, PhaseInv,
        OnSession
  <2>5. ResetInv'
    BY <1>22, <2>1, Ends DEF DeadlockAbort, TypeOK, ResetInv, LockInv, FreeFor,
        PhaseInv, OnMember, Phases
  <2>6. OldPasswordOnlyByOverlap'
    BY <1>22, <2>1, Ends DEF DeadlockAbort, TypeOK, OldPasswordOnlyByOverlap
  <2> QED BY <2>2, <2>3, <2>4, <2>5, <2>6
<1>23. ASSUME NEW m \in Members, ForgotPassword(m)
       PROVE  IInv'
  <2>1. TypeOK'
    BY <1>23 DEF ForgotPassword, TypeOK
  <2>2. PhaseInv' /\ LockInv' /\ ResetInv' /\ OldPasswordOnlyByOverlap'
    BY <1>23 DEF ForgotPassword, PhaseInv, LockInv, ResetInv,
        OldPasswordOnlyByOverlap
  <2> QED BY <2>1, <2>2
<1>24. ASSUME NEW m \in Members, ResetExpired(m)
       PROVE  IInv'
  <2>1. TypeOK'
    BY <1>24 DEF ResetExpired, DropTokens, TypeOK
  <2>2. PhaseInv' /\ LockInv' /\ ResetInv' /\ OldPasswordOnlyByOverlap'
    BY <1>24 DEF ResetExpired, PhaseInv, LockInv, ResetInv,
        OldPasswordOnlyByOverlap
  <2> QED BY <2>1, <2>2
<1>25. ASSUME NEW m \in Members, LockMember(m)
       PROVE  IInv'
  <2>1. TypeOK'
    BY <1>25 DEF LockMember, TypeOK
  <2>2. PhaseInv' /\ LockInv' /\ ResetInv' /\ OldPasswordOnlyByOverlap'
    BY <1>25 DEF LockMember, PhaseInv, LockInv, ResetInv,
        OldPasswordOnlyByOverlap
  <2> QED BY <2>1, <2>2
<1>26. ASSUME NEW p \in Procs, CleanupCommit(p)
       PROVE  IInv'
  <2>1. /\ sess' \in [Sids -> SessionRow]
        /\ \A s \in Sids : IF slock[s] = p THEN sess'[s].st = "gone" ELSE sess'[s] = sess[s]
    BY <1>26, BlankTypes DEF CleanupCommit, TypeOK, Gone, Blank
  <2>2. /\ token' \in [Members -> 0..MaxTokens \cup {None}]
        /\ tokenAt' \in [Members -> 0..MaxTime]
    BY <1>26 DEF CleanupCommit, DropTokens, TypeOK
  <2>3. Finish(p)
    BY <1>26 DEF CleanupCommit
  <2>4. TypeOK'
    BY <1>26, <2>1, <2>2, <2>3, Ends DEF CleanupCommit, TypeOK
  <2>5. PhaseInv'
    BY <1>26, <2>1, <2>3, Ends DEF CleanupCommit, TypeOK, PhaseInv, OnSession,
        OnMember, Phases
  <2>6. LockInv'
    BY <1>26, <2>1, <2>3, Ends DEF CleanupCommit, TypeOK, LockInv, PhaseInv, OnSession
  <2>7. ResetInv'
    BY <1>26, <2>1, <2>3, Ends DEF CleanupCommit, TypeOK, ResetInv
  <2>8. OldPasswordOnlyByOverlap'
    BY <1>26, <2>1, <2>3, Ends DEF CleanupCommit, TypeOK, OldPasswordOnlyByOverlap
  <2> QED BY <2>4, <2>5, <2>6, <2>7, <2>8
<1>27. ASSUME Tick
       PROVE  IInv'
  <2>1. TypeOK'
    BY <1>27 DEF Tick, TypeOK
  <2>2. PhaseInv' /\ LockInv' /\ ResetInv' /\ OldPasswordOnlyByOverlap'
    BY <1>27 DEF Tick, PhaseInv, LockInv, ResetInv, OldPasswordOnlyByOverlap
  <2> QED BY <2>1, <2>2
<1> QED BY <1>1, <1>2, <1>3, <1>4, <1>5, <1>6, <1>7, <1>8, <1>9, <1>10,
    <1>11, <1>12, <1>13, <1>14, <1>15, <1>16, <1>17, <1>18, <1>19, <1>20, <1>21,
    <1>22, <1>23, <1>24, <1>25, <1>26, <1>27 DEF Next, Begin, Proceed

(* The invariant holds in every reachable state.                           *)
LEMMA InvariantHolds == Spec => []IInv
<1>1. IInv /\ UNCHANGED vars => IInv'
    BY DEF vars, db, locks, IInv, TypeOK, PhaseInv, LockInv, ResetInv,
        OldPasswordOnlyByOverlap, Live, Owner
<1> QED BY <1>1, InitInv, StepInv, PTL DEF Spec

-----------------------------------------------------------------------------
(* Theorems                                                                *)

(* Every variable keeps its type.                                          *)
THEOREM TypeCorrect == Spec => []TypeOK
<1>1. IInv => TypeOK
    BY DEF IInv
<1> QED BY <1>1, InvariantHolds, PTL

(* Refreshes that present one secret together, with resets, logouts, idle  *)
(* ends and clean-ups: the one that rotates holds the current secret.      *)
THEOREM SingleUse == Spec => []RotatesCurrentSecret
<1>1. IInv => RotatesCurrentSecret
    BY DEF IInv, LockInv, RotatesCurrentSecret
<1> QED BY <1>1, InvariantHolds, PTL

(* A reset leaves no session of an older password, but those of logins     *)
(* that had checked the old password before and were committed after its   *)
(* DELETE had begun, be it waiting, about to commit, or done.              *)
THEOREM ResetEndsOldSessions == Spec => []OldPasswordOnlyByOverlap
<1>1. IInv => OldPasswordOnlyByOverlap
    BY DEF IInv
<1> QED BY <1>1, InvariantHolds, PTL

(* Who waits for whom: members are held by stamps and logouts, sessions by *)
(* refreshes and bulk DELETEs.                                             *)
LEMMA Waits ==
    ASSUME IInv, NEW a \in Procs, NEW b \in Procs, WaitsFor(a, b)
    PROVE  \/ /\ \/ pc[a] \in {"login", "rotate", "touch", "logout"}
                 \/ pc[a] = "delete" /\ arg[a].d = {}
              /\ pc[b] \in {"touched", "logouted"}
           \/ /\ \/ pc[a] \in {"touched", "end", "logouted"}
                 \/ Deleting(a) /\ arg[a].d # {}
              /\ pc[b] \in Holders
<1>1. ASSUME NEW m \in NeedsMember(a), mlock[m] = b
      PROVE  /\ \/ pc[a] \in {"login", "rotate", "touch", "logout"}
                \/ pc[a] = "delete" /\ arg[a].d = {}
             /\ pc[b] \in {"touched", "logouted"}
  BY <1>1, AuthAssumption
  DEF NeedsMember, IInv, LockInv, PhaseInv, OnMember, Phases
<1>2. ASSUME NEW s \in NeedsSessions(a), slock[s] = b
      PROVE  /\ \/ pc[a] \in {"touched", "end", "logouted"}
                \/ Deleting(a) /\ arg[a].d # {}
             /\ pc[b] \in Holders
  <2>1. s \in Sids
    BY DEF NeedsSessions, IInv, PhaseInv, OnSession, TypeOK, Reading
  <2>2. pc[b] \in Holders
    BY <1>2, <2>1, AuthAssumption DEF IInv, LockInv
  <2>3. pc[a] \in {"touched", "end", "logouted"} \/ (Deleting(a) /\ arg[a].d # {})
    BY DEF NeedsSessions
  <2> QED BY <2>2, <2>3
<1> QED BY <1>1, <1>2 DEF WaitsFor

(* In a smallest set of requests that wait for each other, each is waited  *)
(* for: without it the others would still be such a set.                   *)
LEMMA EachIsWaitedFor ==
    ASSUME NEW S \in SUBSET Procs, Deadlocked(S), NEW p \in S
    PROVE  \E q \in S : WaitsFor(q, p)
<1> SUFFICES ASSUME \A q \in S : ~WaitsFor(q, p) PROVE FALSE
    OBVIOUS
<1> DEFINE T == S \ {p}
<1>1. \A q \in S : \E r \in T : WaitsFor(q, r)
    BY DEF Deadlocked, Closed
<1>2. Closed(T)
    BY <1>1 DEF Closed
<1>3. T \in SUBSET S /\ T # S
    OBVIOUS
<1> QED BY <1>2, <1>3 DEF Deadlocked

(* However many requests deadlock, they do so as member-first against      *)
(* session-first, or as bulk DELETEs among themselves.                     *)
THEOREM DeadlocksHaveOneShape == Spec => []DeadlockShape
<1>1. IInv => DeadlockShape
  <2> SUFFICES ASSUME IInv, NEW S \in SUBSET Procs, Deadlocked(S)
               PROVE  /\ \A p \in S :
                           pc[p] \in {"touched", "logouted", "rotate"} \/ Deleting(p)
                      /\ \/ /\ \E p \in S : pc[p] \in {"touched", "logouted"}
                            /\ \E q \in S :
                                 pc[q] = "rotate" \/ (pc[q] = "delete" /\ arg[q].d = {})
                         \/ \A p \in S : Deleting(p) /\ arg[p].d # {}
    BY DEF DeadlockShape
  <2>1. \A p \in S : p \in Procs /\ \E q \in S : q \in Procs /\ WaitsFor(p, q)
    BY DEF Deadlocked, Closed
  <2>2. \A p \in S : \E q \in S : q \in Procs /\ WaitsFor(q, p)
    BY EachIsWaitedFor
  <2>3. ASSUME NEW p \in S
        PROVE  \/ pc[p] \in {"touched", "logouted", "rotate"}
               \/ pc[p] = "delete" /\ arg[p].d = {}
               \/ Deleting(p) /\ arg[p].d # {}
    <3>1. PICK q \in Procs : WaitsFor(p, q)
      BY <2>1
    <3>2. PICK r \in Procs : WaitsFor(r, p)
      BY <2>2
    <3>3. p \in Procs
      OBVIOUS
    <3>4. pc[p] \in {"touched", "logouted"} \cup Holders
      BY <3>2, <3>3, Waits
    <3>5. \/ pc[p] \in {"login", "rotate", "touch", "logout", "touched", "end", "logouted"}
          \/ pc[p] = "delete" /\ arg[p].d = {}
          \/ Deleting(p) /\ arg[p].d # {}
      BY <3>1, <3>3, Waits
    <3> QED BY <3>4, <3>5 DEF Holders
  <2>4. ASSUME NEW p \in S, pc[p] \in {"touched", "logouted"}
        PROVE  \E q \in S : pc[q] = "rotate" \/ (pc[q] = "delete" /\ arg[q].d = {})
    <3>1. PICK q \in S : q \in Procs /\ WaitsFor(q, p)
      BY <2>2
    <3>2. \/ pc[q] \in {"login", "rotate", "touch", "logout"}
          \/ pc[q] = "delete" /\ arg[q].d = {}
      BY <3>1, <2>1, <2>4, Waits DEF Holders
    <3> QED BY <3>2, <2>3 DEF Deleting
  <2>5. ASSUME NEW p \in S, pc[p] = "rotate" \/ (pc[p] = "delete" /\ arg[p].d = {})
        PROVE  \E q \in S : pc[q] \in {"touched", "logouted"}
    <3>1. PICK q \in S : q \in Procs /\ WaitsFor(p, q)
      BY <2>1
    <3> QED BY <3>1, <2>1, <2>5, Waits DEF Deleting
  <2>6. \A p \in S : pc[p] \in {"touched", "logouted", "rotate"} \/ Deleting(p)
    BY <2>3 DEF Deleting
  <2>7. CASE \A p \in S : Deleting(p) /\ arg[p].d # {}
    BY <2>6, <2>7
  <2>8. ASSUME NEW p \in S, ~(Deleting(p) /\ arg[p].d # {})
        PROVE  /\ \E q \in S : pc[q] \in {"touched", "logouted"}
               /\ \E q \in S : pc[q] = "rotate" \/ (pc[q] = "delete" /\ arg[q].d = {})
    <3>1. CASE pc[p] \in {"touched", "logouted"}
      BY <3>1, <2>4
    <3>2. CASE pc[p] = "rotate" \/ (pc[p] = "delete" /\ arg[p].d = {})
      BY <3>2, <2>5
    <3> QED BY <3>1, <3>2, <2>3, <2>8
  <2> QED BY <2>6, <2>7, <2>8
<1> QED BY <1>1, InvariantHolds, PTL

(* Nothing a request read before brings an ended session back.             *)
THEOREM EndedForGood == Spec => EndedStaysEnded
<1> DEFINE Stays == \A s \in Sids : sess[s].st = "gone" => sess'[s].st = "gone"
<1>1. IInv /\ [Next]_vars => Stays
  <2> SUFFICES ASSUME IInv, [Next]_vars, NEW s \in Sids, sess[s].st = "gone"
               PROVE  sess'[s].st = "gone"
    OBVIOUS
  <2>1. sess \in [Sids -> SessionRow]
    BY DEF IInv, TypeOK
  <2>2. CASE UNCHANGED sess
    BY <2>2
  <2>3. ASSUME NEW p \in Procs, NEW r \in Sids, LoginInsert(p, r)
        PROVE  sess'[s].st = "gone"
    BY <2>1, <2>3 DEF LoginInsert
  <2>4. ASSUME NEW p \in Procs,
               \/ RefreshReject(p) \/ RefreshRotate(p) \/ TouchSession(p)
               \/ EndIdle(p) \/ LogoutSession(p) \/ ResetCommit(p) \/ CleanupCommit(p)
        PROVE  sess'[s].st = "gone"
    BY <2>1, <2>4 DEF RefreshReject, RefreshRotate, TouchSession, EndIdle,
        LogoutSession, ResetCommit, CleanupCommit, Gone, Blank, SessionRow
  <2>5. \/ UNCHANGED sess
        \/ \E p \in Procs, r \in Sids : LoginInsert(p, r)
        \/ \E p \in Procs :
             \/ RefreshReject(p) \/ RefreshRotate(p) \/ TouchSession(p)
             \/ EndIdle(p) \/ LogoutSession(p) \/ ResetCommit(p) \/ CleanupCommit(p)
    BY DEF vars, db, Next, Begin, Proceed, LoginCheck, ResetCheck, TouchRead,
        LogoutRead, RefreshRead, RefreshAccept, TouchMember, LogoutMember,
        ResetSessions, DeleteTake, CleanupStart, CleanupIdle, DeadlockAbort,
        Crash, ForgotPassword, ResetExpired, LockMember, Tick
  <2> QED BY <2>2, <2>3, <2>4, <2>5
<1>2. Stays => [Stays]_vars
    OBVIOUS
<1> QED BY <1>1, <1>2, InvariantHolds, PTL DEF Spec, EndedStaysEnded

-----------------------------------------------------------------------------
(* The refinement                                                          *)

(* A locked row exists, a request works on a row that was there, and an    *)
(* ended session has left nothing behind.                                  *)
RowInv ==
    /\ \A s \in Sids : slock[s] # None => Live(s)
    /\ \A p \in Procs : pc[p] \in OnSession => sess[arg[p].s].st # "unborn"
    /\ \A s \in Sids : sess[s].st = "gone" => sess[s] = Gone

(* Before the first request no row is locked and none is gone.             *)
LEMMA RowInit == Init => RowInv
    BY DEF Init, RowInv, OnSession, Blank

(* Only unlocked rows, or the holder's own, are ended, and only whole.     *)
LEMMA RowStep == IInv /\ RowInv /\ [Next]_vars => RowInv'
<1> SUFFICES ASSUME IInv, RowInv, [Next]_vars PROVE RowInv'
    OBVIOUS
<1> USE AuthAssumption DEF IInv, db, locks, Live, Owner, RowInv
<1>1. ASSUME UNCHANGED <<sess, slock>>,
             \A p \in Procs : \/ pc'[p] \notin OnSession
                              \/ pc[p] \in OnSession /\ arg'[p].s = arg[p].s
                              \/ sess[arg'[p].s].st = "live"
      PROVE  RowInv'
    BY <1>1
<1>2. ASSUME NEW p \in Procs, Begin(p)
      PROVE  RowInv'
  <2>1. ASSUME NEW m \in Members, LoginCheck(p, m) \/ ResetCheck(p, m)
        PROVE  RowInv'
    BY <1>1, <2>1 DEF LoginCheck, ResetCheck, Start, TypeOK, OnSession
  <2>2. CASE CleanupStart(p)
    BY <1>1, <2>2 DEF CleanupStart, Start, TypeOK, OnSession
  <2>3. ASSUME NEW s \in Sids, TouchRead(p, s) \/ LogoutRead(p, s)
        PROVE  RowInv'
    <3>1. \A q \in Procs : (pc'[q] = pc[q] /\ arg'[q] = arg[q]) \/ arg'[q].s = s
      <4>1. PICK phase, a : a.s = s /\ Start(p, phase, a)
        BY <2>3 DEF TouchRead, LogoutRead, NoArg
      <4> QED BY <4>1 DEF Start, TypeOK
    <3>2. UNCHANGED <<sess, slock>> /\ sess[s].st = "live"
      BY <2>3 DEF TouchRead, LogoutRead
    <3> QED BY <1>1, <3>1, <3>2
  <2>4. ASSUME NEW s \in Sids, NEW k \in 0..sess[s].secret, RefreshRead(p, s, k)
        PROVE  RowInv'
    BY <2>4 DEF RefreshRead, Start, TypeOK, OnSession, NoArg
  <2> QED BY <1>2, <2>1, <2>2, <2>3, <2>4 DEF Begin
<1>3. ASSUME NEW p \in Procs, Proceed(p) \/ Crash(p)
      PROVE  RowInv'
  <2>1. ASSUME NEW s \in Sids, LoginInsert(p, s)
        PROVE  RowInv'
    BY <2>1, Ends DEF LoginInsert, TypeOK, OnSession
  <2>2. CASE RefreshAccept(p)
    BY <1>1, <2>2 DEF RefreshAccept, TypeOK, OnSession
  <2>3. CASE RefreshReject(p)
    <3>1. pc[p] = "refresh" /\ Finish(p) /\ slock[arg[p].s] = p
      BY <2>3 DEF RefreshReject, LockInv
    <3>2. \A s \in Sids : sess'[s] = IF s = arg[p].s THEN Gone ELSE sess[s]
      BY <2>3 DEF RefreshReject, TypeOK
    <3>3. Gone.st = "gone"
      BY DEF Gone, Blank
    <3>4. \A s \in Sids : slock'[s] # None => sess'[s].st = "live"
      BY <3>1, <3>2, Ends
    <3>5. ASSUME NEW q \in Procs, pc'[q] \in OnSession PROVE sess'[arg'[q].s].st # "unborn"
      <4>1. pc'[q] = pc[q] /\ arg'[q] = arg[q] /\ arg[q].s \in Sids
        BY <3>1, <3>5, Ends DEF OnSession, PhaseInv
      <4> QED BY <3>2, <3>3, <3>5, <4>1
    <3> QED BY <3>2, <3>4, <3>5
  <2>4. CASE RefreshRotate(p)
    <3>1. /\ pc[p] = "rotate" /\ Finish(p) /\ slock[arg[p].s] = p
          /\ arg[p].s \in Sids /\ sess[arg[p].s].st = "live"
      BY <2>4 DEF RefreshRotate, OnSession, LockInv, PhaseInv
    <3>2. \A s \in Sids : sess'[s].st = sess[s].st /\ (s # arg[p].s => sess'[s] = sess[s])
      BY <2>4, <3>1 DEF RefreshRotate, TypeOK, SessionRow
    <3>3. \A s \in Sids : slock'[s] # None => sess'[s].st = "live"
      BY <3>1, <3>2, Ends
    <3>4. ASSUME NEW q \in Procs, pc'[q] \in OnSession PROVE sess'[arg'[q].s].st # "unborn"
      <4>1. pc'[q] = pc[q] /\ arg'[q] = arg[q] /\ arg[q].s \in Sids
        BY <3>1, <3>4, Ends DEF OnSession, PhaseInv
      <4> QED BY <3>2, <3>4, <4>1
    <3>5. \A s \in Sids : sess'[s].st = "gone" => sess'[s] = Gone
      BY <3>1, <3>2
    <3> QED BY <3>3, <3>4, <3>5
  <2>5. CASE TouchMember(p) \/ LogoutMember(p)
    BY <1>1, <2>5 DEF TouchMember, LogoutMember, Goto, TypeOK, OnSession
  <2>6. CASE TouchSession(p)
    BY <2>6, Ends DEF TouchSession, TypeOK, OnSession, PhaseInv
  <2>7. CASE EndIdle(p) \/ LogoutSession(p)
    <3>1. /\ sess' = [sess EXCEPT ![arg[p].s] = Gone] /\ Finish(p)
          /\ slock[arg[p].s] \in {None, p}
      BY <2>7 DEF EndIdle, LogoutSession, FreeFor
    <3>2. \A s \in Sids : \/ sess'[s] = sess[s]
                          \/ s = arg[p].s /\ sess'[s] = Gone /\ sess'[s].st = "gone"
      BY <3>1 DEF TypeOK, Gone, Blank
    <3>3. \A s \in Sids : slock'[s] # None => slock'[s] = slock[s] /\ slock[s] # p
      BY <3>1, Ends
    <3>4. \A q \in Procs : pc'[q] \in OnSession => pc[q] \in OnSession /\ arg'[q] = arg[q]
      BY <3>1, Ends DEF OnSession
    <3>5. \A q \in Procs : pc[q] \in OnSession => arg[q].s \in Sids
      BY DEF PhaseInv
    <3> QED BY <3>1, <3>2, <3>3, <3>4, <3>5
  <2>8. CASE ResetSessions(p) \/ CleanupIdle(p)
    BY <1>1, <2>8 DEF ResetSessions, CleanupIdle, TypeOK, OnSession
  <2>9. ASSUME NEW s \in Sids, DeleteTake(p, s)
         PROVE  RowInv'
    <3>1. /\ UNCHANGED <<sess, pc>>
          /\ \A r \in Sids : slock'[r] # slock[r] => sess[r].st = "live"
      BY <2>9 DEF DeleteTake, StillWanted, TypeOK
    <3>2. \A q \in Procs : arg'[q].s = arg[q].s
      BY <2>9 DEF DeleteTake, TypeOK, Reading
    <3> QED BY <3>1, <3>2
  <2>10. CASE ResetCommit(p) \/ CleanupCommit(p)
    <3>1. /\ sess' = [s \in Sids |-> IF slock[s] = p THEN Gone ELSE sess[s]] /\ Finish(p)
      BY <2>10 DEF ResetCommit, CleanupCommit
    <3>2. \A s \in Sids : \/ sess'[s] = sess[s]
                          \/ slock[s] = p /\ sess'[s] = Gone /\ sess'[s].st = "gone"
      BY <3>1 DEF TypeOK, Gone, Blank
    <3>3. \A s \in Sids : slock'[s] # None => slock'[s] = slock[s] /\ slock[s] # p
      BY <3>1, Ends
    <3>4. \A q \in Procs : pc'[q] \in OnSession => pc[q] \in OnSession /\ arg'[q] = arg[q]
      BY <3>1, Ends DEF OnSession
    <3>5. \A q \in Procs : pc[q] \in OnSession => arg[q].s \in Sids
      BY DEF PhaseInv
    <3> QED BY <3>2, <3>3, <3>4, <3>5
  <2>11. CASE DeadlockAbort(p) \/ Crash(p)
    BY <2>11, Ends DEF DeadlockAbort, Crash, TypeOK, OnSession
  <2> QED BY <1>3, <2>1, <2>2, <2>3, <2>4, <2>5, <2>6, <2>7, <2>8, <2>9, <2>10, <2>11
      DEF Proceed
<1>4. ASSUME NEW m \in Members, ForgotPassword(m) \/ ResetExpired(m) \/ LockMember(m)
      PROVE  RowInv'
    BY <1>1, <1>4 DEF ForgotPassword, ResetExpired, LockMember
<1>5. CASE Tick \/ UNCHANGED vars
    BY <1>1, <1>5 DEF Tick, vars
<1> QED BY <1>2, <1>3, <1>4, <1>5 DEF Next

(* Both invariants hold in every reachable state.                         *)
LEMMA RowsHold == Spec => [](IInv /\ RowInv)
    BY InvariantHolds, RowInit, RowStep, PTL DEF Spec

(* A step that leaves the rows and the refreshing requests as they are is  *)
(* invisible to SignIn.                                                    *)
LEMMA Invisible ==
    ASSUME TypeOK, UNCHANGED sess, pc' \in [Procs -> Phases],
           \A p \in Procs :
             \/ pc'[p] \notin {"refresh", "rotate"} /\ pc[p] \notin {"refresh", "rotate"}
             \/ /\ pc'[p] \in {"refresh", "rotate"} /\ pc[p] \in {"refresh", "rotate"}
                /\ arg'[p].s = arg[p].s /\ arg'[p].k = arg[p].k
    PROVE  UNCHANGED <<Shown, Presented>>
    BY DEF Shown, Presented, Owner

(* Answering a refresh takes its secret out of sight, and no other.        *)
LEMMA Answered ==
    ASSUME TypeOK, NEW p \in Procs, Finish(p)
    PROVE  Presented' = [Presented EXCEPT ![p] = Promise!Nothing]
<1>1. \A q \in Procs : pc'[q] = (IF q = p THEN "idle" ELSE pc[q])
                        /\ (q # p => arg'[q] = arg[q])
    BY Ends
<1>2. \A q \in Procs : Presented'[q] = IF q = p THEN Promise!Nothing ELSE Presented[q]
    BY <1>1 DEF Presented, Promise!Nothing
<1>3. Presented' = [q \in Procs |-> IF q = p THEN Promise!Nothing ELSE Presented[q]]
    BY <1>2 DEF Presented
<1> QED BY <1>3 DEF Presented

(* At first SignIn sees unopened sessions and nobody refreshing.           *)
LEMMA PromiseInit == Init => Promise!Init
    BY DEF Init, Promise!Init, Promise!Unopened, Promise!Nothing, Shown, Presented,
        Owner, Blank

(* Every step is a step of SignIn, or invisible to it.                     *)
LEMMA PromiseStep ==
    IInv /\ RowInv /\ [Next]_vars => [Promise!Next]_<<Shown, Presented>>
<1> SUFFICES ASSUME IInv, RowInv, [Next]_vars
             PROVE  Promise!Next \/ UNCHANGED <<Shown, Presented>>
    OBVIOUS
<1> USE AuthAssumption DEF IInv, db, locks, Live, Owner
<1>1. ASSUME NEW p \in Procs, Begin(p)
      PROVE  Promise!Next \/ UNCHANGED <<Shown, Presented>>
  <2>1. ASSUME NEW m \in Members, LoginCheck(p, m) \/ ResetCheck(p, m)
        PROVE  UNCHANGED <<Shown, Presented>>
    BY <2>1, Invisible DEF LoginCheck, ResetCheck, Start, TypeOK, Phases
  <2>2. ASSUME CleanupStart(p)
        PROVE  UNCHANGED <<Shown, Presented>>
    BY <2>2, Invisible DEF CleanupStart, Start, TypeOK, Phases
  <2>3. ASSUME NEW s \in Sids, TouchRead(p, s) \/ LogoutRead(p, s)
        PROVE  UNCHANGED <<Shown, Presented>>
    BY <2>3, Invisible DEF TouchRead, LogoutRead, Start, TypeOK, Phases
  <2>4. ASSUME NEW s \in Sids, NEW k \in 0..sess[s].secret, RefreshRead(p, s, k)
        PROVE  Promise!Present(p, s, k) /\ k \in 0..Shown[s].secret
    <3>1. UNCHANGED sess /\ Shown' = Shown
      BY <2>4 DEF RefreshRead, Shown
    <3>2. Shown[s].st = "live" /\ Shown[s].secret = sess[s].secret
      BY <2>4 DEF RefreshRead, Shown
    <3>3. Presented[p] = Promise!Nothing
      BY <2>4 DEF RefreshRead, Start, Presented, Promise!Nothing
    <3>4. Presented' = [Presented EXCEPT ![p] = [of |-> s, secret |-> k]]
      BY <2>4 DEF RefreshRead, Start, Presented, TypeOK, NoArg
    <3> QED BY <3>1, <3>2, <3>3, <3>4 DEF Promise!Present, Promise!IsOpen
  <2> QED BY <1>1, <2>1, <2>2, <2>3, <2>4 DEF Begin, Promise!Next
<1>2. ASSUME NEW p \in Procs, Proceed(p) \/ Crash(p)
      PROVE  Promise!Next \/ UNCHANGED <<Shown, Presented>>
  <2>1. ASSUME NEW s \in Sids, LoginInsert(p, s)
        PROVE  arg[p].m \in Members /\ Promise!Open(s, arg[p].m)
    <3>1. arg[p].m \in Members
      BY <2>1 DEF LoginInsert, PhaseInv, OnMember, Phases
    <3>2. Shown' = [Shown EXCEPT ![s] = [st |-> "live", owner |-> arg[p].m, secret |-> 0]]
      BY <2>1 DEF LoginInsert, Shown, TypeOK
    <3>3. Presented' = Presented
      BY <2>1, Ends DEF LoginInsert, Presented
    <3> QED BY <2>1, <3>1, <3>2, <3>3 DEF Promise!Open, LoginInsert, Shown
  <2>2. CASE RefreshAccept(p)
    BY <2>2, Invisible DEF RefreshAccept, TypeOK, Phases
  <2>3. CASE RefreshReject(p)
    <3> DEFINE s == arg[p].s
    <3>1. s \in Sids /\ Live(s) /\ Presented[p].of = s
      BY <2>3 DEF RefreshReject, PhaseInv, OnSession, LockInv, Presented
    <3>2. Shown' = [Shown EXCEPT ![s] = Promise!Ended]
      BY <2>3, <3>1 DEF RefreshReject, Shown, TypeOK, Gone, Blank, Promise!Ended
    <3>3. Presented' = [Presented EXCEPT ![p] = Promise!Nothing]
      BY <2>3, Answered DEF RefreshReject
    <3>4. Shown[s].st = "live"
      BY <3>1 DEF Shown
    <3> QED BY <3>1, <3>2, <3>3, <3>4 DEF Promise!Next, Promise!Refuse, Promise!IsOpen
  <2>4. CASE RefreshRotate(p)
    <3> DEFINE s == arg[p].s
    <3>1. s \in Sids /\ Live(s) /\ arg[p].k = sess[s].secret
      BY <2>4 DEF RefreshRotate, PhaseInv, OnSession, LockInv
    <3>2. Shown' = [Shown EXCEPT ![s].secret = @ + 1]
      <4>1. \A t \in Sids :
              /\ sess'[t].st = sess[t].st /\ sess'[t].owner = sess[t].owner
              /\ sess'[t].secret = IF t = s THEN sess[t].secret + 1 ELSE sess[t].secret
        BY <2>4, <3>1 DEF RefreshRotate, TypeOK, SessionRow
      <4> HIDE DEF s
      <4> QED BY <4>1, <3>1 DEF Shown
    <3>3. Presented' = [Presented EXCEPT ![p] = Promise!Nothing]
      BY <2>4, Answered DEF RefreshRotate
    <3>4. Presented[p] = [of |-> s, secret |-> Shown[s].secret] /\ Shown[s].st = "live"
      BY <2>4, <3>1 DEF RefreshRotate, Shown, Presented
    <3> QED BY <3>1, <3>2, <3>3, <3>4 DEF Promise!Next, Promise!Renew, Promise!IsOpen
  <2>5. CASE TouchMember(p) \/ LogoutMember(p)
    BY <2>5, Invisible DEF TouchMember, LogoutMember, Goto, TypeOK, Phases
  <2>6. CASE TouchSession(p)
    <3>1. Shown' = Shown
      BY <2>6 DEF TouchSession, Shown, TypeOK, SessionRow
    <3>2. Presented' = Presented
      BY <2>6, Ends DEF TouchSession, Presented
    <3> QED BY <3>1, <3>2
  <2>7. CASE EndIdle(p) \/ LogoutSession(p)
    <3> DEFINE s == arg[p].s
               S == {r \in Sids : r = s /\ Live(r)}
    <3>1. s \in Sids /\ pc[p] \in {"end", "logouted"} /\ FreeFor(p, slock, s)
      BY <2>7 DEF EndIdle, LogoutSession, PhaseInv, OnSession
    <3>2. sess' = [sess EXCEPT ![s] = Gone] /\ Finish(p)
      BY <2>7 DEF EndIdle, LogoutSession
    <3>3. sess[s] = Gone \/ Live(s)
      BY <2>7, <3>1 DEF RowInv, OnSession, TypeOK, SessionRow
    <3>4. Shown' = [r \in Sids |-> IF r \in S THEN Promise!Ended ELSE Shown[r]]
      BY <3>1, <3>2, <3>3 DEF Shown, TypeOK, Gone, Blank, Promise!Ended
    <3>5. Presented' = Presented
      BY <3>1, <3>2, Ends DEF Presented
    <3>6. \A q \in Procs : Presented[q].of # s
      BY <3>1 DEF Presented, LockInv, FreeFor
    <3>7. S \in SUBSET Sids /\ \A r \in S : Promise!IsOpen(r) /\ r = s
      BY DEF Promise!IsOpen, Shown
    <3>8. Promise!End(S)
      BY <3>4, <3>5, <3>6, <3>7 DEF Promise!End
    <3> QED BY <3>7, <3>8 DEF Promise!Next
  <2>8. CASE ResetSessions(p) \/ CleanupIdle(p)
    BY <2>8, Invisible DEF ResetSessions, CleanupIdle, TypeOK, Phases
  <2>9. ASSUME NEW s \in Sids, DeleteTake(p, s)
         PROVE  UNCHANGED <<Shown, Presented>>
    BY <2>9, Invisible DEF DeleteTake, Deleting, TypeOK
  <2>10. CASE ResetCommit(p) \/ CleanupCommit(p)
    <3> DEFINE S == {r \in Sids : slock[r] = p}
    <3>1. Shown' = [r \in Sids |-> IF r \in S THEN Promise!Ended ELSE Shown[r]]
      BY <2>10 DEF ResetCommit, CleanupCommit, Shown, TypeOK, Gone, Blank, Promise!Ended
    <3>2. Presented' = Presented
      BY <2>10, Ends DEF ResetCommit, CleanupCommit, Presented
    <3>3. \A r \in S : Promise!IsOpen(r) /\ \A q \in Procs : Presented[q].of # r
      BY <2>10 DEF ResetCommit, CleanupCommit, RowInv, Promise!IsOpen, Shown, Presented,
        LockInv
    <3>4. S \in SUBSET Sids /\ Promise!End(S)
      BY <3>1, <3>2, <3>3 DEF Promise!End
    <3> QED BY <3>4 DEF Promise!Next
  <2>11. CASE DeadlockAbort(p) \/ Crash(p)
    <3>1. Shown' = Shown
      BY <2>11 DEF DeadlockAbort, Crash, Shown
    <3>2. Presented' = [Presented EXCEPT ![p] = Promise!Nothing]
      BY <2>11, Answered DEF DeadlockAbort, Crash
    <3> QED BY <3>1, <3>2 DEF Promise!Next, Promise!Withdraw
  <2> QED BY <1>2, <2>1, <2>2, <2>3, <2>4, <2>5, <2>6, <2>7, <2>8, <2>9, <2>10, <2>11
      DEF Proceed, Promise!Next
<1>3. ASSUME NEW m \in Members, ForgotPassword(m) \/ ResetExpired(m) \/ LockMember(m)
      PROVE  UNCHANGED <<Shown, Presented>>
    BY <1>3 DEF ForgotPassword, ResetExpired, LockMember, Shown, Presented
<1>4. CASE Tick \/ UNCHANGED vars
    BY <1>4 DEF Tick, vars, Shown, Presented
<1> QED BY <1>1, <1>2, <1>3, <1>4 DEF Next

(* The interleaved reads, locks and commits of any number of requests      *)
(* implement the atomic operations of SignIn: a refresh is a               *)
(* compare-and-swap of the secret, and an ended session is never touched.  *)
THEOREM SignInRefined == Spec => KeepsPromise
<1>1. Init => Promise!Init
    BY PromiseInit
<1>2. IInv /\ RowInv /\ [Next]_vars => [Promise!Next]_<<Shown, Presented>>
    BY PromiseStep
<1> QED BY <1>1, <1>2, RowsHold, PTL DEF Spec, KeepsPromise, Promise!Spec
=============================================================================
