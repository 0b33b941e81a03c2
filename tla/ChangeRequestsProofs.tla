------------------------ MODULE ChangeRequestsProofs ------------------------
(***************************************************************************)
(* Proofs about ChangeRequests for every number of fields, values, request *)
(* rows, tabs and administrators: what a decision saves is what was        *)
(* reviewed, and it changes no other field.                                *)
(*                                                                         *)
(* The version check alone does not give this: between the check and the   *)
(* commit the member may submit again. DecisionInv says why that is no     *)
(* harm: from the check on, the decision holds the lock of its row.        *)
(***************************************************************************)
EXTENDS ChangeRequests, TLAPS

(* A review knows its row; as long as the row is pending in the version    *)
(* that was seen, it holds the values that were seen.                      *)
ReviewInv ==
    \A p \in Procs : pc[p] \in {"review", "decide", "apply"} =>
      LET r == arg[p].req IN
      /\ r \in Requests
      /\ status[r] # "unborn"
      /\ arg[p].ver <= version[r]
      /\ status[r] = "pending" /\ arg[p].ver = version[r] => data[r] = arg[p].snap

(* A decision that passed its checks holds the lock of a pending row that  *)
(* is as it was reviewed, with a verdict on exactly the fields proposed.   *)
DecisionInv ==
    \A p \in Procs : pc[p] = "apply" =>
      LET r == arg[p].req IN
      /\ lock[r] = p
      /\ status[r] = "pending"
      /\ data[r] = arg[p].snap
      /\ Touched(arg[p].verdict) = Touched(data[r])

(* The record was loaded, whole, when the query for the row was sent.      *)
LoadedInv ==
    \A p \in Procs : pc[p] \in {"decide", "apply"} =>
      arg[p].diff \in Record /\ arg[p].roles \in RoleLists

IInv == TypeOK /\ ReviewInv /\ DecisionInv /\ LoadedInv

-----------------------------------------------------------------------------

(* A request that has read nothing.                                        *)
LEMMA NoArgType == NoArg \in Reading
    BY VersionAssumption DEF NoArg, NoDiff, Reading, Diff, Verdicts

(* What a request has read, and where it stands, keeps its type.           *)
LEMMA GotoType ==
    ASSUME TypeOK, NEW p \in Procs, NEW phase \in Phases, NEW a \in Reading,
           Goto(p, phase, a)
    PROVE  pc' \in [Procs -> Phases] /\ arg' \in [Procs -> Reading]
    BY DEF TypeOK, Goto

(* Ending a request gives up its locks and keeps those of the others.      *)
LEMMA FinishType ==
    ASSUME TypeOK, NEW p \in Procs, Finish(p)
    PROVE  /\ pc' \in [Procs -> Phases] /\ arg' \in [Procs -> Reading]
           /\ lock' \in [Requests -> Procs \cup {None}]
<1>1. pc' \in [Procs -> Phases] /\ arg' \in [Procs -> Reading]
    BY GotoType, NoArgType DEF Finish, Phases
<1>2. lock' \in [Requests -> Procs \cup {None}]
    BY DEF Finish, TypeOK
<1> QED BY <1>1, <1>2

(* A request that goes on changes nobody else's phase or reading.          *)
LEMMA OthersKeep ==
    ASSUME TypeOK, NEW p \in Procs, NEW phase, NEW a, Goto(p, phase, a)
    PROVE  /\ pc'[p] = phase /\ arg'[p] = a
           /\ \A q \in Procs \ {p} : pc'[q] = pc[q] /\ arg'[q] = arg[q]
    BY DEF TypeOK, Goto

(* Init: no request is running and no row exists.                          *)
LEMMA InitInv == Init => IInv
<1> SUFFICES ASSUME Init PROVE IInv
    OBVIOUS
<1>1. TypeOK
    BY NoneAssumption, VersionAssumption, NoArgType
    DEF Init, TypeOK, Diff, Verdicts, NoDiff, Phases
<1>2. ReviewInv /\ DecisionInv /\ LoadedInv
    BY DEF Init, ReviewInv, DecisionInv, LoadedInv
<1> QED BY <1>1, <1>2 DEF IInv

(* The merged record gives every field a value: a verdict approves only    *)
(* fields for which a value is proposed.                                   *)
LEMMA MergedIsRecord ==
    ASSUME IInv, NEW p \in Procs, pc[p] = "apply"
    PROVE  Merged(p) \in Record
<1> DEFINE r == arg[p].req
<1>1. /\ r \in Requests
      /\ Touched(arg[p].verdict) = Touched(data[r])
      /\ arg[p].diff \in Record
    BY DEF IInv, ReviewInv, DecisionInv, LoadedInv
<1>2. data[r] \in [Fields -> Values \cup {None}]
    BY <1>1 DEF IInv, TypeOK, Diff
<1>3. ASSUME NEW f \in Approved(arg[p].verdict)
      PROVE  data[r][f] \in Values
  <2>1. f \in Touched(arg[p].verdict)
    BY NoneAssumption DEF Approved, Touched
  <2> QED BY <1>1, <1>2, <2>1 DEF Touched
<1> QED BY <1>1, <1>3 DEF Merged, Record

(* One step of any request, administrator or editor keeps the invariant.   *)
LEMMA StepInv == IInv /\ Next => IInv'
<1> SUFFICES ASSUME IInv, Next PROVE IInv'
    OBVIOUS
<1> USE NoneAssumption DEF IInv, rows, Phases
<1>1. ASSUME NEW p \in Procs, NEW proposed \in Record, SubmitDiff(p, proposed)
      PROVE  IInv'
  <2> DEFINE d == [f \in Fields |-> IF proposed[f] # live[f] THEN proposed[f] ELSE None]
             a == [NoArg EXCEPT !.diff = d]
  <2>1. d \in Diff
    BY DEF Record, Diff
  <2>2. a \in Reading
    BY <2>1, NoArgType DEF Reading
  <2>3. Goto(p, "submit", a)
    BY <1>1 DEF SubmitDiff
  <2>4. TypeOK'
    BY <1>1, <2>2, <2>3, GotoType DEF SubmitDiff, TypeOK
  <2>5. ReviewInv' /\ DecisionInv' /\ LoadedInv'
    BY <1>1, <2>3, OthersKeep DEF SubmitDiff, ReviewInv, DecisionInv, LoadedInv
  <2> QED BY <2>4, <2>5
<1>2. ASSUME NEW p \in Procs, SubmitLookup(p)
      PROVE  IInv'
  <2>1. PICK a \in Reading : Goto(p, "write", a)
    <3>1. arg[p] \in Reading
      BY DEF TypeOK
    <3>2. \A r \in Requests : [arg[p] EXCEPT !.req = r, !.snap = data[r]] \in Reading
      BY <3>1 DEF TypeOK, Reading
    <3> QED BY <1>2, <3>1, <3>2 DEF SubmitLookup
  <2>2. TypeOK'
    BY <1>2, <2>1, GotoType DEF SubmitLookup, TypeOK
  <2>3. /\ UNCHANGED <<status, data, version, lock>>
        /\ pc'[p] = "write"
        /\ \A q \in Procs \ {p} : pc'[q] = pc[q] /\ arg'[q] = arg[q]
    BY <1>2, <2>1, OthersKeep DEF SubmitLookup
  <2>4. ReviewInv' /\ DecisionInv' /\ LoadedInv'
    BY <2>3 DEF ReviewInv, DecisionInv, LoadedInv, Touched
  <2> QED BY <2>2, <2>4
<1>3. ASSUME NEW p \in Procs, SubmitWithdraw(p)
      PROVE  IInv'
  <2>1. Finish(p) /\ Goto(p, "idle", NoArg)
    BY <1>3 DEF SubmitWithdraw, Finish
  <2>2. NoDiff \in Diff /\ NoDiff \in Verdicts
    BY DEF NoDiff, Diff, Verdicts
  <2>3. TypeOK'
    BY <1>3, <2>1, <2>2, FinishType DEF SubmitWithdraw, TypeOK
  <2>4. ReviewInv'
    BY <1>3, <2>1, OthersKeep DEF SubmitWithdraw, TypeOK, ReviewInv
  <2>5. DecisionInv'
    BY <1>3, <2>1, OthersKeep DEF SubmitWithdraw, Finish, TypeOK, ReviewInv,
        DecisionInv, Free
  <2>6. LoadedInv'
    BY <1>3, <2>1, OthersKeep DEF SubmitWithdraw, LoadedInv
  <2> QED BY <2>3, <2>4, <2>5, <2>6
<1>4. ASSUME NEW p \in Procs, SubmitOverwrite(p)
      PROVE  IInv'
  <2>1. Finish(p) /\ Goto(p, "idle", NoArg)
    BY <1>4 DEF SubmitOverwrite, Finish
  <2>2. arg[p].diff \in Diff
    BY DEF TypeOK, Reading
  <2>3. \A r \in Requests : version[r] < MaxVersion => version[r] + 1 \in 0..MaxVersion
    BY VersionAssumption DEF TypeOK
  <2>4. TypeOK'
    BY <1>4, <2>1, <2>2, <2>3, FinishType DEF SubmitOverwrite, TypeOK
  <2>5. /\ \A q \in Procs : arg[q].ver \in Nat
        /\ \A r \in Requests : version[r] \in Nat
    BY VersionAssumption DEF TypeOK, Reading
  <2>6. ReviewInv'
    BY <1>4, <2>1, <2>5, OthersKeep DEF SubmitOverwrite, TypeOK, ReviewInv
  <2>7. DecisionInv'
    BY <1>4, <2>1, OthersKeep DEF SubmitOverwrite, Finish, TypeOK, ReviewInv,
        DecisionInv, Free
  <2>8. LoadedInv'
    BY <1>4, <2>1, OthersKeep DEF SubmitOverwrite, LoadedInv
  <2> QED BY <2>4, <2>6, <2>7, <2>8
<1>5. ASSUME NEW p \in Procs, NEW r \in Requests, SubmitInsert(p, r)
      PROVE  IInv'
  <2>1. Finish(p) /\ Goto(p, "idle", NoArg)
    BY <1>5 DEF SubmitInsert, Finish
  <2>2. arg[p].diff \in Diff
    BY DEF TypeOK, Reading
  <2>3. TypeOK'
    BY <1>5, <2>1, <2>2, FinishType DEF SubmitInsert, TypeOK
  <2>4. ReviewInv'
    BY <1>5, <2>1, OthersKeep DEF SubmitInsert, TypeOK, ReviewInv
  <2>5. DecisionInv'
    BY <1>5, <2>1, OthersKeep DEF SubmitInsert, Finish, TypeOK, ReviewInv,
        DecisionInv
  <2>6. LoadedInv'
    BY <1>5, <2>1, OthersKeep DEF SubmitInsert, LoadedInv
  <2> QED BY <2>3, <2>4, <2>5, <2>6
<1>6. ASSUME NEW p \in Procs, NEW r \in Requests, NEW v \in Verdicts,
             Review(p, r, v)
      PROVE  IInv'
  <2> DEFINE a == [NoArg EXCEPT !.req = r, !.ver = version[r], !.verdict = v,
                                !.snap = data[r]]
  <2>1. a \in Reading
    BY NoArgType DEF TypeOK, Reading
  <2>2. Goto(p, "review", a)
    BY <1>6 DEF Review
  <2>3. TypeOK'
    BY <1>6, <2>1, <2>2, GotoType DEF Review, TypeOK
  <2>4. a.req = r /\ a.ver = version[r] /\ a.snap = data[r] /\ version[r] \in Nat
    BY VersionAssumption DEF NoArg, TypeOK
  <2> HIDE DEF a
  <2>5. ReviewInv' /\ DecisionInv' /\ LoadedInv'
    BY <1>6, <2>2, <2>4, OthersKeep DEF Review, ReviewInv, DecisionInv,
        LoadedInv
  <2> QED BY <2>3, <2>5
<1>7. ASSUME NEW p \in Procs, DecideQuery(p)
      PROVE  IInv'
  <2> DEFINE a == [arg[p] EXCEPT !.diff = live, !.roles = roles]
  <2>1. arg[p] \in Reading /\ live \in Diff
    BY DEF TypeOK, Record, Diff
  <2>2. /\ a \in Reading /\ a.req = arg[p].req /\ a.ver = arg[p].ver
        /\ a.snap = arg[p].snap /\ a.diff = live /\ a.roles = roles
    BY <2>1 DEF TypeOK, Reading
  <2>3. Goto(p, "decide", a)
    BY <1>7 DEF DecideQuery
  <2> HIDE DEF a
  <2>4. TypeOK'
    BY <1>7, <2>2, <2>3, GotoType DEF DecideQuery, TypeOK
  <2>5. ReviewInv' /\ DecisionInv' /\ LoadedInv'
    BY <1>7, <2>2, <2>3, OthersKeep
    DEF DecideQuery, TypeOK, ReviewInv, DecisionInv, LoadedInv
  <2> QED BY <2>4, <2>5
<1>8. ASSUME NEW p \in Procs, Decide(p), Decidable(p)
      PROVE  IInv'
  <2> DEFINE r == arg[p].req
  <2>1. Goto(p, "apply", arg[p]) /\ arg[p] \in Reading /\ r \in Requests
    BY <1>8 DEF Decide, TypeOK, ReviewInv
  <2>2. TypeOK'
    BY <1>8, <2>1, GotoType DEF Decide, TypeOK
  <2>3. ReviewInv' /\ LoadedInv'
    BY <1>8, <2>1, OthersKeep DEF Decide, ReviewInv, LoadedInv
  <2>4. DecisionInv'
    <3>1. \A q \in Procs \ {p} : pc[q] = "apply" => arg[q].req # r
      BY <1>8 DEF Decide, Free, DecisionInv
    <3>2. lock' = [lock EXCEPT ![r] = p]
      BY <1>8 DEF Decide
    <3>3. /\ data[r] = arg[p].snap /\ status[r] = "pending"
          /\ Touched(arg[p].verdict) = Touched(data[r])
      BY <1>8 DEF Decide, Decidable, ReviewInv
    <3>4. \A s \in Requests : lock'[s] = IF s = r THEN p ELSE lock[s]
      BY <2>1, <3>2 DEF TypeOK
    <3> QED BY <1>8, <2>1, <3>1, <3>3, <3>4, OthersKeep
            DEF Decide, ReviewInv, DecisionInv, Touched
  <2> QED BY <2>2, <2>3, <2>4
<1>9. ASSUME NEW p \in Procs, Decide(p), ~Decidable(p)
      PROVE  IInv'
  <2>1. Finish(p) /\ Goto(p, "idle", NoArg)
    BY <1>9 DEF Decide, Finish
  <2>2. TypeOK'
    BY <1>9, <2>1, FinishType DEF Decide, TypeOK
  <2>3. ReviewInv'
    BY <1>9, <2>1, OthersKeep DEF Decide, TypeOK, ReviewInv
  <2>4. DecisionInv'
    BY <1>9, <2>1, OthersKeep DEF Decide, Finish, TypeOK, ReviewInv,
        DecisionInv
  <2>5. LoadedInv'
    BY <1>9, <2>1, OthersKeep DEF Decide, LoadedInv
  <2> QED BY <2>2, <2>3, <2>4, <2>5
<1>10. ASSUME NEW p \in Procs, DecideCommit(p)
       PROVE  IInv'
  <2>1. Finish(p) /\ Goto(p, "idle", NoArg)
    BY <1>10 DEF DecideCommit, Finish
  <2>2. Merged(p) \in Record
    BY <1>10, MergedIsRecord DEF DecideCommit
  <2>3. live' \in Record /\ roles' \in RoleLists
    BY <1>10, <2>2 DEF DecideCommit, TypeOK, Record, LoadedInv
  <2>4. arg[p].verdict \in Verdicts
    BY DEF TypeOK, Reading
  <2>5. TypeOK'
    BY <1>10, <2>1, <2>3, <2>4, FinishType DEF DecideCommit, TypeOK
  <2>6. ReviewInv' /\ LoadedInv'
    BY <1>10, <2>1, OthersKeep DEF DecideCommit, TypeOK, ReviewInv, LoadedInv
  <2>7. DecisionInv'
    BY <1>10, <2>1, OthersKeep
    DEF DecideCommit, Finish, TypeOK, ReviewInv, DecisionInv, Touched
  <2> QED BY <2>5, <2>6, <2>7
<1>11. ASSUME NEW p \in Procs, DecideRefused(p)
       PROVE  IInv'
  <2>1. Finish(p) /\ Goto(p, "idle", NoArg)
    BY <1>11 DEF DecideRefused, Finish
  <2>2. TypeOK'
    BY <1>11, <2>1, FinishType DEF DecideRefused, TypeOK
  <2>3. ReviewInv'
    BY <1>11, <2>1, OthersKeep DEF DecideRefused, TypeOK, ReviewInv
  <2>4. DecisionInv'
    BY <1>11, <2>1, OthersKeep DEF DecideRefused, Finish, TypeOK, ReviewInv,
        DecisionInv
  <2>5. LoadedInv'
    BY <1>11, <2>1, OthersKeep DEF DecideRefused, LoadedInv
  <2> QED BY <2>2, <2>3, <2>4, <2>5
<1>12. ASSUME NEW f \in Fields, NEW v \in Values, EditMember(f, v)
       PROVE  IInv'
    BY <1>12 DEF EditMember, TypeOK, Record, ReviewInv, DecisionInv, LoadedInv
<1>13. ASSUME NEW list \in RoleLists, EditRoles(list)
       PROVE  IInv'
    BY <1>13 DEF EditRoles, TypeOK, ReviewInv, DecisionInv, LoadedInv
<1> QED BY <1>1, <1>2, <1>3, <1>4, <1>5, <1>6, <1>7, <1>8, <1>9, <1>10, <1>11,
        <1>12, <1>13 DEF Next, Submit, Judge

(* The invariant holds in every reachable state.                           *)
LEMMA InvariantHolds == Spec => []IInv
<1>1. IInv /\ UNCHANGED vars => IInv'
    BY DEF vars, rows, IInv, TypeOK, ReviewInv, DecisionInv, LoadedInv
<1> QED BY <1>1, InitInv, StepInv, PTL DEF Spec

-----------------------------------------------------------------------------
(* Theorems                                                                *)

(* Every variable keeps its type; the record is complete at all times.     *)
THEOREM TypeCorrect == Spec => []TypeOK
<1>1. IInv => TypeOK
    BY DEF IInv
<1> QED BY <1>1, InvariantHolds, PTL

(* A decision applies the values the administrator reviewed, of a request  *)
(* still pending, whatever tabs and administrators do at the same time.    *)
THEOREM ReviewedApplied == Spec => []ReviewedIsApplied
<1>1. IInv => ReviewedIsApplied
    BY DEF IInv, DecisionInv, ReviewedIsApplied
<1> QED BY <1>1, InvariantHolds, PTL

(* A decision's commit changes approved fields only, although the record   *)
(* it writes was rebuilt from a read that may be stale.                    *)
THEOREM OnlyApprovedTouched == Spec => DecisionTouchesOnlyApproved
<1> DEFINE Keeps == \A p \in Procs : pc[p] = "apply" =>
                      \A f \in Fields : live'[f] # live[f] /\ pc'[p] = "idle" =>
                        f \in Approved(arg[p].verdict)
<1>1. IInv /\ [Next]_vars => Keeps
  <2> SUFFICES ASSUME IInv, [Next]_vars,
                      NEW p \in Procs, pc[p] = "apply", pc'[p] = "idle",
                      NEW f \in Fields, live'[f] # live[f]
               PROVE  f \in Approved(arg[p].verdict)
    OBVIOUS
  <2> USE DEF IInv, TypeOK, rows, Goto, Finish
  <2>1. CASE UNCHANGED vars
    BY <2>1 DEF vars
  <2>2. ASSUME NEW q \in Procs, Submit(q)
        PROVE  FALSE
    BY <2>2 DEF Submit, SubmitDiff, SubmitLookup, SubmitWithdraw,
        SubmitOverwrite, SubmitInsert
  <2>3. ASSUME NEW q \in Procs, DecideCommit(q)
        PROVE  f \in Approved(arg[p].verdict)
    <3>1. p = q
      BY <2>3 DEF DecideCommit
    <3>2. Merged(p)[f] # arg[p].diff[f]
      BY <2>3, <3>1 DEF DecideCommit, Record
    <3> QED BY <3>2 DEF Merged
  <2>4. ASSUME NEW q \in Procs, Judge(q), ~DecideCommit(q)
        PROVE  FALSE
    BY <2>4 DEF Judge, Review, DecideQuery, Decide, DecideRefused
  <2>5. ASSUME NEW g \in Fields, NEW v \in Values, EditMember(g, v)
        PROVE  FALSE
    BY <2>5 DEF EditMember
  <2>6. ASSUME NEW list \in RoleLists, EditRoles(list)
        PROVE  FALSE
    BY <2>6 DEF EditRoles
  <2> QED BY <2>1, <2>2, <2>3, <2>4, <2>5, <2>6 DEF Next
<1>2. Keeps => [Keeps]_vars
    OBVIOUS
<1> QED BY <1>1, <1>2, InvariantHolds, PTL DEF Spec,
    DecisionTouchesOnlyApproved
=============================================================================
