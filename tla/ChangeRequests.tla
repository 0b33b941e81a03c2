--------------------------- MODULE ChangeRequests ---------------------------
(***************************************************************************)
(* Members propose changes of their own record, administrators decide them *)
(* field by field: app/services/member_change_request_service.py with the  *)
(* handlers in standesdb_entry_service.py, for one member.                 *)
(*                                                                         *)
(* Requests are processes: the member may submit from several tabs, and    *)
(* several administrators may review at once. Each step is a read of       *)
(* committed state or a commit. A decision locks the request row from      *)
(* SELECT FOR UPDATE to its commit; a submission looks the pending row up  *)
(* without a lock and its UPDATE or DELETE (by primary key) then waits.    *)
(***************************************************************************)
EXTENDS Naturals, FiniteSets

CONSTANTS
    Fields,      \* fields a member may propose to change
    Values,
    RoleLists,   \* what the member's list of offices may be
    Requests,    \* ids of change request rows, never reused
    Procs,
    None,
    MaxVersion   \* bound on the versions (updated_at) of a row

ASSUME NoneAssumption ==
    None \notin Values \cup Requests \cup RoleLists \cup Procs \cup {"approved", "rejected"}
ASSUME VersionAssumption == MaxVersion \in Nat

VARIABLES
    live,      \* the member's record: field -> value
    roles,     \* the member's list of offices (member_roles)
    status,    \* row -> "unborn", "pending", "resolved" or "gone"
    data,      \* row -> proposed_data: field -> new value, or None
    version,   \* row -> updated_at
    decision,  \* row -> field_decisions: field -> "approved", "rejected" or None
    lock,      \* row -> the transaction holding it
    pc,
    arg        \* what each request has read

rows == <<status, data, version, decision>>
vars == <<live, roles, rows, lock, pc, arg>>

Record   == [Fields -> Values]
Diff     == [Fields -> Values \cup {None}]
Verdicts == [Fields -> {"approved", "rejected", None}]

NoDiff == [f \in Fields |-> None]
Touched(d) == {f \in Fields : d[f] # None}

NoArg == [req |-> None, diff |-> NoDiff, ver |-> 0, verdict |-> NoDiff, snap |-> NoDiff,
          roles |-> None]

Phases == {"idle", "submit", "write", "review", "decide", "apply"}

(* What a request may have read.                                           *)
Reading == [req : Requests \cup {None}, diff : Diff, ver : 0..MaxVersion,
            verdict : Verdicts, snap : Diff, roles : RoleLists \cup {None}]

TypeOK ==
    /\ live \in Record
    /\ roles \in RoleLists
    /\ status \in [Requests -> {"unborn", "pending", "resolved", "gone"}]
    /\ data \in [Requests -> Diff]
    /\ version \in [Requests -> 0..MaxVersion]
    /\ decision \in [Requests -> Verdicts]
    /\ lock \in [Requests -> Procs \cup {None}]
    /\ pc \in [Procs -> Phases]
    /\ arg \in [Procs -> Reading]

Init ==
    /\ live \in Record
    /\ roles \in RoleLists
    /\ status = [r \in Requests |-> "unborn"]
    /\ data = [r \in Requests |-> NoDiff]
    /\ version = [r \in Requests |-> 0]
    /\ decision = [r \in Requests |-> NoDiff]
    /\ lock = [r \in Requests |-> None]
    /\ pc = [p \in Procs |-> "idle"]
    /\ arg = [p \in Procs |-> NoArg]

Goto(p, phase, a) ==
    /\ pc' = [pc EXCEPT ![p] = phase]
    /\ arg' = [arg EXCEPT ![p] = a]

(* Commit, rollback or refusal: p's lock goes, the request is answered.    *)
Finish(p) ==
    /\ Goto(p, "idle", NoArg)
    /\ lock' = [r \in Requests |-> IF lock[r] = p THEN None ELSE lock[r]]

Free(r) == lock[r] = None
Exists(r) == status[r] \in {"pending", "resolved"}

-----------------------------------------------------------------------------
(* submit_change_request                                                   *)

(* The form's values are compared with the member as loaded at sign-in.    *)
SubmitDiff(p, proposed) ==
    /\ pc[p] = "idle"
    /\ Goto(p, "submit",
            [NoArg EXCEPT !.diff = [f \in Fields |->
                IF proposed[f] # live[f] THEN proposed[f] ELSE None]])
    /\ UNCHANGED <<live, roles, rows, lock>>

(* get_own_pending_request                                                 *)
SubmitLookup(p) ==
    LET pending == {r \in Requests : status[r] = "pending"} IN
    /\ pc[p] = "submit"
    /\ \/ pending = {} /\ Goto(p, "write", arg[p])
       \/ \E r \in pending :
            Goto(p, "write", [arg[p] EXCEPT !.req = r, !.snap = data[r]])
    /\ UNCHANGED <<live, roles, rows, lock>>

(* Nothing to change: a pending request found is deleted.                  *)
SubmitWithdraw(p) ==
    LET r == arg[p].req IN
    /\ pc[p] = "write"
    /\ arg[p].diff = NoDiff
    /\ IF r = None THEN UNCHANGED rows
       ELSE /\ Free(r)
            /\ status' = [status EXCEPT ![r] = "gone"]
            /\ data' = [data EXCEPT ![r] = NoDiff]
            /\ decision' = [decision EXCEPT ![r] = NoDiff]
            /\ UNCHANGED version
    /\ Finish(p)
    /\ UNCHANGED <<live, roles>>

(* A pending request found gets the new values. The UPDATE goes to the row *)
(* whatever its status is by then, fails if it is gone, and is not sent    *)
(* when the values are those read.                                         *)
SubmitOverwrite(p) ==
    LET r == arg[p].req IN
    /\ pc[p] = "write"
    /\ arg[p].diff # NoDiff
    /\ r # None
    /\ IF Exists(r) /\ arg[p].diff # arg[p].snap
       THEN /\ Free(r)
            /\ version[r] < MaxVersion
            /\ data' = [data EXCEPT ![r] = arg[p].diff]
            /\ version' = [version EXCEPT ![r] = @ + 1]
            /\ UNCHANGED <<status, decision>>
       ELSE UNCHANGED rows
    /\ Finish(p)
    /\ UNCHANGED <<live, roles>>

(* Otherwise a new request; the unique index on pending ones fails it when *)
(* another tab was faster.                                                 *)
SubmitInsert(p, r) ==
    /\ pc[p] = "write"
    /\ arg[p].diff # NoDiff
    /\ arg[p].req = None
    /\ status[r] = "unborn"
    /\ IF \E q \in Requests : status[q] = "pending"
       THEN UNCHANGED rows
       ELSE /\ status' = [status EXCEPT ![r] = "pending"]
            /\ data' = [data EXCEPT ![r] = arg[p].diff]
            /\ UNCHANGED <<version, decision>>
    /\ Finish(p)
    /\ UNCHANGED <<live, roles>>

-----------------------------------------------------------------------------
(* decide_change_request                                                   *)

(* The administrator sees the pending request and decides every field of   *)
(* it; arg.snap is what was seen, arg.ver its expected_updated_at.         *)
Review(p, r, verdict) ==
    /\ pc[p] = "idle"
    /\ status[r] = "pending"
    /\ Touched(verdict) = Touched(data[r])
    /\ Goto(p, "review", [NoArg EXCEPT !.req = r, !.ver = version[r],
                                       !.verdict = verdict, !.snap = data[r]])
    /\ UNCHANGED <<live, roles, rows, lock>>

(* The SELECT FOR UPDATE is sent. It waits for the row, but the member it  *)
(* joins, and the member's offices, are those committed by now; the record *)
(* is rebuilt from them. (Badges and keys are read a little later.)        *)
DecideQuery(p) ==
    /\ pc[p] = "review"
    /\ Goto(p, "decide", [arg[p] EXCEPT !.diff = live, !.roles = roles])
    /\ UNCHANGED <<live, roles, rows, lock>>

(* The request may still be decided, as it was reviewed.                   *)
Decidable(p) ==
    LET r == arg[p].req IN
    /\ status[r] = "pending"
    /\ version[r] = arg[p].ver
    /\ Touched(arg[p].verdict) = Touched(data[r])

(* Slip: the request is loaded without for_update.                         *)
DecideUnlocked(p) ==
    /\ pc[p] = "decide"
    /\ IF Decidable(p) THEN Goto(p, "apply", arg[p]) /\ UNCHANGED lock
                       ELSE Finish(p)
    /\ UNCHANGED <<live, roles, rows>>

(* The row is locked; what is gone, decided, changed or not fully covered  *)
(* is refused.                                                             *)
Decide(p) ==
    /\ pc[p] = "decide"
    /\ Free(arg[p].req)
    /\ IF Decidable(p)
       THEN /\ Goto(p, "apply", arg[p])
            /\ lock' = [lock EXCEPT ![arg[p].req] = p]
       ELSE Finish(p)
    /\ UNCHANGED <<live, roles, rows>>

Approved(v) == {f \in Fields : v[f] = "approved"}

(* The full record as it is to be: as loaded, with the approved values.    *)
Merged(p) == [f \in Fields |-> IF f \in Approved(arg[p].verdict)
                               THEN data[arg[p].req][f] ELSE arg[p].diff[f]]

(* Slip: the rebuilt record is written back as a whole.                    *)
DecideCommitWhole(p) ==
    LET r == arg[p].req IN
    /\ pc[p] = "apply"
    /\ live' = Merged(p)
    /\ roles' = arg[p].roles
    /\ status' = [status EXCEPT ![r] = "resolved"]
    /\ decision' = [decision EXCEPT ![r] = arg[p].verdict]
    /\ Finish(p)
    /\ UNCHANGED <<data, version>>

(* apply_member_input writes the fields that differ from the record as     *)
(* loaded, but deletes all offices and inserts those loaded. The           *)
(* resolution is part of the same commit. (It stamps updated_at too, but   *)
(* the version of a resolved row is not compared.)                         *)
DecideCommit(p) ==
    LET r == arg[p].req IN
    /\ pc[p] = "apply"
    /\ live' = [f \in Fields |-> IF Merged(p)[f] # arg[p].diff[f] THEN Merged(p)[f] ELSE live[f]]
    /\ roles' = arg[p].roles
    /\ status' = [status EXCEPT ![r] = "resolved"]
    /\ decision' = [decision EXCEPT ![r] = arg[p].verdict]
    /\ Finish(p)
    /\ UNCHANGED <<data, version>>

(* validate_member_org or validate_member_uniqueness refuses: rollback.    *)
DecideRefused(p) ==
    /\ pc[p] = "apply"
    /\ Finish(p)
    /\ UNCHANGED <<live, roles, rows>>

(* update_member: an administrator edits the record directly.              *)
EditMember(f, v) ==
    /\ live[f] # v
    /\ live' = [live EXCEPT ![f] = v]
    /\ UNCHANGED <<roles, rows, lock, pc, arg>>

(* The same for the member's offices.                                      *)
EditRoles(list) ==
    /\ roles # list
    /\ roles' = list
    /\ UNCHANGED <<live, rows, lock, pc, arg>>

-----------------------------------------------------------------------------

Submit(p) ==
    \/ \E proposed \in Record : SubmitDiff(p, proposed)
    \/ SubmitLookup(p)
    \/ SubmitWithdraw(p)
    \/ SubmitOverwrite(p)
    \/ \E r \in Requests : SubmitInsert(p, r)

Judge(p) ==
    \/ \E r \in Requests, v \in Verdicts : Review(p, r, v)
    \/ DecideQuery(p)
    \/ Decide(p)
    \/ DecideCommit(p)
    \/ DecideRefused(p)

Next ==
    \/ \E p \in Procs : Submit(p) \/ Judge(p)
    \/ \E f \in Fields, v \in Values : EditMember(f, v)
    \/ \E list \in RoleLists : EditRoles(list)

Spec == Init /\ [][Next]_vars

-----------------------------------------------------------------------------
(* Properties                                                              *)

(* expected_updated_at: "without this check a decision could apply values  *)
(* the admin never saw". Until its commit, a decision works on a request   *)
(* that is pending and holds exactly the values that were reviewed.        *)
ReviewedIsApplied ==
    \A p \in Procs : pc[p] = "apply" =>
      status[arg[p].req] = "pending" /\ data[arg[p].req] = arg[p].snap

(* _build_current_full_request_dict rebuilds the whole record, but of the  *)
(* fields a decision saves only the approved ones change: an edit of a     *)
(* field made while the decision ran is not undone.                        *)
DecisionTouchesOnlyApproved ==
    [][\A p \in Procs : pc[p] = "apply" =>
         \A f \in Fields : live'[f] # live[f] /\ pc'[p] = "idle" =>
           f \in Approved(arg[p].verdict)]_vars

(* _build_current_full_request_dict passes the offices on, so that a       *)
(* decision does not "wipe" them: it leaves them as they are. The code     *)
(* does not keep it.                                                       *)
DecisionKeepsRoles ==
    [][\A p \in Procs : pc[p] = "apply" /\ pc'[p] = "idle" => roles' = roles]_vars

(* A request is decided once: "a member's own resubmission ... waits for a *)
(* running decision", and a decided request keeps its proposal and its     *)
(* decisions. The code does not keep it.                                   *)
ResolvedIsFinal ==
    [][\A r \in Requests : status[r] = "resolved" =>
         status'[r] = "resolved" /\ data'[r] = data[r] /\ decision'[r] = decision[r]]_vars
=============================================================================
