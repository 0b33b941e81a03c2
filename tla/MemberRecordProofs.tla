------------------------- MODULE MemberRecordProofs -------------------------
(***************************************************************************)
(* Proofs about MemberRecord for every number of members, requests,        *)
(* offices, days and forms: what the checks of one transaction keep, and   *)
(* that every exception needs two transactions that overlapped.            *)
(*                                                                         *)
(* Each invariant carries what a request under way knows: the trigger's    *)
(* walk knows a set of members that leads away from the saved one, the     *)
(* check of offices knows that they are vacant, and what was loaded is     *)
(* current; each of them until an overlap is recorded.                     *)
(***************************************************************************)
EXTENDS MemberRecord, TLAPS

Member(p) == job[p].member

(* The row lock that a flush takes.                                        *)
LockInv ==
    \A p, q \in Procs : Holder(p) /\ Holder(q) /\ Member(p) = Member(q) => p = q

(* T leads away from m, as far as only overlapping saves have changed it.  *)
Away(T, m) ==
    /\ m \notin T
    /\ \A s \in T : rec[s].parent \in T \cup {None} \/ {s, m} \in raced

(* A flushed save that writes a parent knows a way up that avoids it.      *)
WalkInv ==
    \A p \in Procs :
        Holder(p) /\ job[p].form.parent # None /\ job[p].form.parent # job[p].loaded.parent
        => \E T \in SUBSET Members : job[p].form.parent \in T /\ Away(T, Member(p))

(* Offices that were found vacant stay so.                                 *)
VacantInv ==
    \A p \in Procs : pc[p] = "valid" =>
        \A n \in Members \ {Member(p)} : {Member(p), n} \notin raced =>
            \A e \in job[p].form.offices, f \in offices[n] : ~Overlap(e, f)

SoundInv ==
    /\ \A m \in Members : Sound(offices[m])
    /\ \A p \in Procs : pc[p] = "valid" => Sound(job[p].form.offices)

(* What a request has read of its row is still there.                      *)
ReadInv ==
    \A p \in Procs : pc[p] # "idle" /\ {Member(p)} \notin raced =>
        /\ job[p].loaded = rec[Member(p)]
        /\ pc[p] # "reset" => job[p].before = offices[Member(p)]

IInv == /\ TypeOK /\ LockInv
        /\ WalkInv /\ CyclesOnlyByOverlap
        /\ VacantInv /\ OneHolderUnlessRaced
        /\ SoundInv /\ ReadInv /\ HistoryTellsOffices /\ StatusRulesUnlessRaced

-----------------------------------------------------------------------------
(* Types                                                                   *)

LEMMA BlankType == Blank \in Columns
    BY NameAssumption DEF Blank, Columns

LEMMA NoJobType == NoJob \in Job
    BY BlankType DEF NoJob, Job

(* The rules for who has left or died keep a form a form.                  *)
LEMMA NormalType == ASSUME NEW f \in Form PROVE Normal(f) \in Form
    BY ZenonT(30) DEF Normal, Form

(* What a save writes is a row.                                            *)
LEMMA WritesType ==
    ASSUME NEW p \in Procs, job[p].form \in Form, job[p].loaded \in Columns, NEW r \in Columns
    PROVE  Writes(p, r) \in Columns
<1> DEFINE new == Normal(job[p].form)
<1>1. new \in Form
    BY NormalType
<1> QED
    BY <1>1 DEF Writes, Saved, Columns, Form

(* The types of a request that goes on.                                    *)
LEMMA GotoType ==
    ASSUME TypeOK, NEW p \in Procs, NEW phase \in Phases, NEW j \in Job, Goto(p, phase, j),
           phase # "idle" => j.member \in Members,
           phase \in {"loaded", "flushed", "valid"} => j.form \in Form
    PROVE  /\ pc' \in [Procs -> Phases]
           /\ job' \in [Procs -> Job]
           /\ \A q \in Procs : pc'[q] # "idle" => job'[q].member \in Members
           /\ \A q \in Procs : pc'[q] \in {"loaded", "flushed", "valid"} => job'[q].form \in Form
    BY DEF TypeOK, Goto

(* A request that goes on leaves the others alone.                         *)
LEMMA GotoKeeps ==
    ASSUME TypeOK, NEW p \in Procs, NEW phase, NEW j, Goto(p, phase, j)
    PROVE  /\ pc'[p] = phase /\ job'[p] = j
           /\ \A q \in Procs \ {p} : pc'[q] = pc[q] /\ job'[q] = job[q]
    BY DEF TypeOK, Goto

(* What TypeOK says of one request.                                        *)
LEMMA JobType ==
    ASSUME TypeOK, NEW p \in Procs
    PROVE  /\ job[p] \in Job
           /\ job[p].loaded \in Columns
           /\ pc[p] # "idle" => Member(p) \in Members
           /\ pc[p] \in {"loaded", "flushed", "valid"} => job[p].form \in Form
    BY DEF TypeOK, Job, Member

LEMMA RefuseType == ASSUME TypeOK, NEW p \in Procs, Refuse(p) PROVE TypeOK'
<1>1. Goto(p, "idle", NoJob) /\ UNCHANGED data
    BY DEF Refuse
<1> QED
    BY <1>1, GotoType, NoJobType DEF TypeOK, data, Phases

LEMMA LoadType ==
    ASSUME TypeOK, NEW p \in Procs, NEW m \in Members, NEW f \in Forms, Load(p, m, f)
    PROVE  TypeOK'
<1> DEFINE j == [member |-> m, form |-> f, loaded |-> rec[m], before |-> offices[m]]
<1>1. f \in Form
    BY FormAssumption
<1>2. j \in Job
    BY <1>1 DEF Job, TypeOK
<1>3. Goto(p, "loaded", j) /\ UNCHANGED data
    BY DEF Load
<1> HIDE DEF j
<1>4. j.member \in Members /\ j.form \in Form
    BY <1>1 DEF j
<1> QED
    BY <1>2, <1>3, <1>4, GotoType DEF TypeOK, data, Phases

LEMMA CommitType == ASSUME TypeOK, NEW p \in Procs, Commit(p) PROVE TypeOK'
<1> DEFINE m == job[p].member
<1>1. /\ pc[p] = "valid" /\ m \in Members /\ job[p].form \in Form /\ job[p].loaded \in Columns
    BY JobType DEF Commit, Member
<1>2. Writes(p, rec[m]) \in Columns
    BY <1>1, WritesType DEF TypeOK
<1>3. rec' \in [Members -> Columns]
    BY <1>2 DEF TypeOK, Commit
<1>4. job[p].form.offices \in SUBSET Entry /\ job[p].form.badges \in Badges
    BY <1>1 DEF Form
<1>5. Replay(told[m], Changes(job[p].before, job[p].form.offices)) \in SUBSET Entry
  <2>1. told[m] \in SUBSET Entry /\ job[p].before \in SUBSET Entry
      BY <1>1, JobType DEF TypeOK, Job
  <2>2. \A c \in Changes(job[p].before, job[p].form.offices) : c.entry \in Entry
      BY <1>4, <2>1 DEF Changes
  <2> QED
      BY <2>1, <2>2 DEF Replay
<1>6. offices' \in [Members -> SUBSET Entry] /\ badges' \in [Members -> Badges]
    BY <1>4 DEF TypeOK, Commit
<1>7. told' \in [Members -> SUBSET Entry]
    BY <1>5 DEF TypeOK, Commit
<1>8. raced' \subseteq SUBSET Members
  <2>1. Overlapping(p) \subseteq SUBSET Members
      BY <1>1, JobType DEF Overlapping, Member
  <2> QED
      BY <2>1 DEF TypeOK, Commit
<1>9. exists' \subseteq Members /\ UNCHANGED proven
    BY <1>1 DEF TypeOK, Commit
<1>10. Goto(p, "idle", NoJob)
    BY DEF Commit
<1> QED
    BY <1>3, <1>6, <1>7, <1>8, <1>9, <1>10, GotoType, NoJobType DEF TypeOK, Phases

LEMMA ResetLoadType ==
    ASSUME TypeOK, NEW p \in Procs, NEW m \in Members, ResetLoad(p, m)
    PROVE  TypeOK'
<1> DEFINE j == [NoJob EXCEPT !.member = m, !.loaded = rec[m]]
<1>1. j \in Job /\ j.member \in Members
    BY NoJobType DEF TypeOK, Job, NoJob
<1>2. Goto(p, "reset", j) /\ UNCHANGED data
    BY DEF ResetLoad
<1> HIDE DEF j
<1> QED
    BY <1>1, <1>2, GotoType DEF TypeOK, data, Phases

LEMMA ResetCommitType == ASSUME TypeOK, NEW p \in Procs, ResetCommit(p) PROVE TypeOK'
<1> DEFINE m == job[p].member
<1>1. m \in Members /\ job[p].loaded \in Columns
    BY JobType DEF ResetCommit, Member
<1>2. rec' \in [Members -> Columns]
  <2>1. [rec[m] EXCEPT !.verified = TRUE] \in Columns
      BY <1>1, ZenonT(30) DEF TypeOK, Columns
  <2>2. rec' = [rec EXCEPT ![m] = [rec[m] EXCEPT !.verified = TRUE]]
      BY <1>1 DEF TypeOK, ResetCommit
  <2> QED
      BY <1>1, <2>1, <2>2 DEF TypeOK
<1>3. proven' \in [Members -> Emails \cup {None}]
    BY <1>1 DEF TypeOK, ResetCommit, Columns
<1>4. Overlapping(p) \subseteq SUBSET Members
    BY <1>1, JobType DEF Overlapping, Member, Holder
<1>5. Goto(p, "idle", NoJob) /\ raced' = raced \cup Overlapping(p)
      /\ UNCHANGED <<exists, badges, offices, told>>
    BY DEF ResetCommit
<1> QED
    BY <1>2, <1>3, <1>4, <1>5, GotoType, NoJobType DEF TypeOK, Phases

LEMMA StepType == ASSUME TypeOK, [Next]_vars PROVE TypeOK'
<1>1. ASSUME NEW p \in Procs, Flush(p) PROVE TypeOK'
  <2>1. CASE Goto(p, "flushed", job[p]) /\ UNCHANGED data
      BY <1>1, <2>1, GotoType, JobType DEF Flush, TypeOK, data, Phases, Member
  <2> QED
      BY <1>1, <2>1, RefuseType DEF Flush
<1>2. ASSUME NEW p \in Procs, Validate(p) PROVE TypeOK'
  <2>1. CASE Goto(p, "valid", job[p]) /\ UNCHANGED data
      BY <1>2, <2>1, GotoType, JobType DEF Validate, TypeOK, data, Phases, Member
  <2> QED
      BY <1>2, <2>1, RefuseType DEF Validate
<1>3. CASE UNCHANGED vars
    BY <1>3 DEF vars, data, TypeOK
<1> QED
    BY <1>1, <1>2, <1>3, LoadType, CommitType, ResetLoadType, ResetCommitType DEF Next, Step

-----------------------------------------------------------------------------
(* Offices                                                                 *)

(* Of two offices in a sound list no two have the same role and first day. *)
LEMMA SoundKeys ==
    ASSUME NEW list \in SUBSET Entry, Sound(list), NEW e \in list, NEW f \in list, SameKey(e, f)
    PROVE  e = f
    BY DEF Sound, SameKey, Overlap, Within

LEMMA OverlapSymmetric == \A e, f : Overlap(e, f) <=> Overlap(f, e)
    BY DEF Overlap

(* What a save tells of its offices is what it did to them.                *)
LEMMA ReplayChanges ==
    ASSUME NEW before \in SUBSET Entry, NEW after \in SUBSET Entry,
           Sound(before), Sound(after)
    PROVE  Replay(before, Changes(before, after)) = after
<1> DEFINE changes == Changes(before, after)
<1>1. ASSUME NEW f \in after, ~ \E e \in before : SameKey(e, f)
      PROVE  f \in Replay(before, changes)
  <2>1. [act |-> "granted", entry |-> f] \in changes
      BY <1>1 DEF Changes
  <2> QED
      BY <2>1 DEF Replay
<1>2. ASSUME NEW f \in after, NEW e \in before, SameKey(e, f), e.end # f.end
      PROVE  f \in Replay(before, changes)
  <2>1. [act |-> "period_changed", entry |-> f] \in changes
      BY <1>2 DEF Changes
  <2> QED
      BY <2>1 DEF Replay
<1>3. ASSUME NEW f \in after, NEW e \in before, SameKey(e, f), e.end = f.end
      PROVE  f \in Replay(before, changes)
  <2>1. e = f
      BY <1>3 DEF SameKey, Entry
  <2>2. ASSUME NEW c \in changes, SameKey(f, c.entry) PROVE FALSE
    <3>1. CASE c.entry \in before /\ \A g \in after : ~SameKey(c.entry, g)
        BY <2>2, <3>1 DEF SameKey
    <3>2. CASE c.entry \in after /\ \A g \in before : ~SameKey(g, c.entry)
        BY <2>1, <2>2, <3>2 DEF SameKey
    <3>3. CASE c.entry \in after /\ \E g \in before : SameKey(g, c.entry) /\ g.end # c.entry.end
      <4>1. c.entry = f
          BY <2>2, <3>3, SoundKeys DEF SameKey
      <4>2. PICK g \in before : SameKey(g, f) /\ g.end # f.end
          BY <3>3, <4>1
      <4>3. g = f
          BY <2>1, <4>2, SoundKeys DEF SameKey
      <4> QED
          BY <4>2, <4>3
    <3> QED
        BY <2>2, <3>1, <3>2, <3>3 DEF Changes
  <2> QED
      BY <2>1, <2>2 DEF Replay
<1>4. ASSUME NEW e \in before, \A c \in changes : ~SameKey(e, c.entry)
      PROVE  e \in after
  <2>1. \E f \in after : SameKey(e, f)
    <3>1. [act |-> "revoked", entry |-> e] \in changes \/ \E f \in after : SameKey(e, f)
        BY DEF Changes
    <3> QED
        BY <1>4, <3>1 DEF SameKey
  <2>2. PICK f \in after : SameKey(e, f)
      BY <2>1
  <2>3. e.end = f.end
    <3>1. SUFFICES ASSUME e.end # f.end PROVE FALSE
        OBVIOUS
    <3>2. [act |-> "period_changed", entry |-> f] \in changes
        BY <2>2, <3>1 DEF Changes
    <3> QED
        BY <1>4, <2>2, <3>2
  <2> QED
      BY <2>2, <2>3 DEF SameKey, Entry
<1>5. \A c \in changes : c.act # "revoked" => c.entry \in after
    BY DEF Changes
<1> QED
    BY <1>1, <1>2, <1>3, <1>4, <1>5 DEF Replay

-----------------------------------------------------------------------------
(* Steps that write nothing: a request goes on or is refused.              *)

Flushing(p) ==
    /\ pc[p] = "loaded" /\ RowFree(Member(p)) /\ TriggerAllows(p)
    /\ Goto(p, "flushed", job[p]) /\ UNCHANGED data

Validating(p) ==
    /\ pc[p] = "flushed"
    /\ Sound(job[p].form.offices) /\ Vacant(Member(p), job[p].form.offices)
    /\ Goto(p, "valid", job[p]) /\ UNCHANGED data

(* The ways a step can go.                                                 *)
LEMMA StepCases ==
    ASSUME Next
    PROVE  \E p \in Procs :
             \/ Refuse(p) \/ Flushing(p) \/ Validating(p) \/ Commit(p) \/ ResetCommit(p)
             \/ \E m \in Members : ResetLoad(p, m) \/ \E f \in Forms : Load(p, m, f)
    BY DEF Next, Step, Flush, Validate, Flushing, Validating, Member

-----------------------------------------------------------------------------
(* The row lock                                                            *)

LEMMA StepLock == ASSUME TypeOK, LockInv, Next PROVE LockInv'
<1>1. PICK p \in Procs :
         \/ Refuse(p) \/ Flushing(p) \/ Validating(p) \/ Commit(p) \/ ResetCommit(p)
         \/ \E m \in Members : ResetLoad(p, m) \/ \E f \in Forms : Load(p, m, f)
    BY StepCases
<1>2. CASE Flushing(p)
  <2>1. /\ job'[p] = job[p] /\ pc'[p] = "flushed"
        /\ \A q \in Procs \ {p} : pc'[q] = pc[q] /\ job'[q] = job[q]
      BY <1>2, GotoKeeps DEF Flushing
  <2> QED
      BY <1>2, <2>1 DEF LockInv, Flushing, RowFree, Holder, Member
<1>3. CASE Validating(p)
  <2>1. /\ job'[p] = job[p] /\ pc'[p] = "valid" /\ Holder(p)
        /\ \A q \in Procs \ {p} : pc'[q] = pc[q] /\ job'[q] = job[q]
      BY <1>3, GotoKeeps DEF Validating, Holder
  <2> QED
      BY <2>1 DEF LockInv, Holder, Member
<1>4. CASE ~Flushing(p) /\ ~Validating(p)
  <2>1. /\ pc'[p] \in {"idle", "loaded", "reset"}
        /\ \A q \in Procs \ {p} : pc'[q] = pc[q] /\ job'[q] = job[q]
      BY <1>1, <1>4, GotoKeeps DEF Refuse, Commit, ResetCommit, ResetLoad, Load
  <2> QED
      BY <2>1 DEF LockInv, Holder, Member
<1> QED
    BY <1>2, <1>3, <1>4

-----------------------------------------------------------------------------
(* Parents                                                                 *)

(* The set that a finished walk leaves behind.                             *)
LEMMA WalkedSet ==
    ASSUME TypeOK, NEW q \in Members, NEW m \in Members, ~Reaches(Parent, q, m)
    PROVE  \E T \in SUBSET Members : q \in T /\ Away(T, m)
<1>1. PICK T \in SUBSET Members :
        q \in T /\ (\A s \in T : Parent[s] \in T \cup {None}) /\ m \notin T
    BY DEF Reaches
<1>2. Away(T, m)
    BY <1>1 DEF Away, Parent
<1> QED
    BY <1>1, <1>2

(* A commit writes one row and records who was writing beside it.          *)
LEMMA CommitFacts ==
    ASSUME TypeOK, NEW p \in Procs, Commit(p)
    PROVE  /\ Member(p) \in Members
           /\ rec'[Member(p)] = Writes(p, rec[Member(p)])
           /\ offices'[Member(p)] = job[p].form.offices
           /\ told'[Member(p)] =
                Replay(told[Member(p)], Changes(job[p].before, job[p].form.offices))
           /\ \A n \in Members \ {Member(p)} :
                rec'[n] = rec[n] /\ offices'[n] = offices[n] /\ told'[n] = told[n]
           /\ proven' = proven
           /\ raced \subseteq raced'
           /\ \A q \in Procs \ {p} : pc[q] # "idle" /\ (Member(q) = Member(p) \/ Holder(q))
                => {Member(p), Member(q)} \in raced'
           /\ pc'[p] = "idle"
           /\ \A q \in Procs \ {p} : pc'[q] = pc[q] /\ job'[q] = job[q]
<1>1. Member(p) \in Members
    BY JobType DEF Commit
<1>2. raced' = raced \cup Overlapping(p) /\ Goto(p, "idle", NoJob)
    BY DEF Commit
<1>3. pc'[p] = "idle" /\ \A q \in Procs \ {p} : pc'[q] = pc[q] /\ job'[q] = job[q]
    BY <1>2, GotoKeeps
<1>4. \A q \in Procs \ {p} : pc[q] # "idle" /\ (Member(q) = Member(p) \/ Holder(q))
        => {Member(p), Member(q)} \in Overlapping(p)
    BY DEF Overlapping, Member
<1> QED
    BY <1>1, <1>2, <1>3, <1>4 DEF Commit, TypeOK, Member

(* So does a reset, which leaves offices and parents alone.                *)
LEMMA ResetFacts ==
    ASSUME TypeOK, NEW p \in Procs, ResetCommit(p)
    PROVE  /\ Member(p) \in Members
           /\ rec'[Member(p)] = [rec[Member(p)] EXCEPT !.verified = TRUE]
           /\ proven'[Member(p)] = job[p].loaded.email
           /\ \A n \in Members \ {Member(p)} : rec'[n] = rec[n] /\ proven'[n] = proven[n]
           /\ offices' = offices /\ told' = told
           /\ raced \subseteq raced'
           /\ \A q \in Procs \ {p} : pc[q] # "idle" /\ Member(q) = Member(p)
                => {Member(p), Member(q)} \in raced'
           /\ pc'[p] = "idle"
           /\ \A q \in Procs \ {p} : pc'[q] = pc[q] /\ job'[q] = job[q]
<1>1. Member(p) \in Members
    BY JobType DEF ResetCommit
<1>2. raced' = raced \cup Overlapping(p) /\ Goto(p, "idle", NoJob)
    BY DEF ResetCommit
<1>3. pc'[p] = "idle" /\ \A q \in Procs \ {p} : pc'[q] = pc[q] /\ job'[q] = job[q]
    BY <1>2, GotoKeeps
<1>4. \A q \in Procs \ {p} : pc[q] # "idle" /\ Member(q) = Member(p)
        => {Member(p), Member(q)} \in Overlapping(p)
    BY DEF Overlapping, Member
<1>5. rec' = [rec EXCEPT ![Member(p)] = [rec[Member(p)] EXCEPT !.verified = TRUE]]
    BY <1>1 DEF ResetCommit, TypeOK, Member
<1>6. proven' = [proven EXCEPT ![Member(p)] = job[p].loaded.email]
    BY DEF ResetCommit, Member
<1>7. offices' = offices /\ told' = told
    BY DEF ResetCommit
<1>8. rec \in [Members -> Columns] /\ proven \in [Members -> Emails \cup {None}]
    BY DEF TypeOK
<1> HIDE DEF Member
<1> QED
    BY <1>1, <1>2, <1>3, <1>4, <1>5, <1>6, <1>7, <1>8

LEMMA ResetParents ==
    ASSUME TypeOK, NEW p \in Procs, ResetCommit(p)
    PROVE  \A n \in Members : rec'[n].parent = rec[n].parent
<1>1. rec[Member(p)] \in Columns
    BY ResetFacts DEF TypeOK
<1>2. [rec[Member(p)] EXCEPT !.verified = TRUE].parent = rec[Member(p)].parent
    BY <1>1 DEF Columns
<1>3. rec'[Member(p)] = [rec[Member(p)] EXCEPT !.verified = TRUE]
      /\ \A n \in Members \ {Member(p)} : rec'[n] = rec[n]
    BY ResetFacts
<1> QED
    BY <1>2, <1>3

LEMMA StepWalk == ASSUME TypeOK, LockInv, WalkInv, Next PROVE WalkInv'
<1>1. PICK p \in Procs :
         \/ Refuse(p) \/ Flushing(p) \/ Validating(p) \/ Commit(p) \/ ResetCommit(p)
         \/ \E m \in Members : ResetLoad(p, m) \/ \E f \in Forms : Load(p, m, f)
    BY StepCases
<1> DEFINE Walked(q) == Holder(q) /\ job[q].form.parent # None
                          /\ job[q].form.parent # job[q].loaded.parent
<1>2. SUFFICES ASSUME NEW q \in Procs, Walked(q)'
               PROVE  \E T \in SUBSET Members :
                        job'[q].form.parent \in T /\ Away(T, Member(q))'
    BY DEF WalkInv
<1>3. CASE Refuse(p) \/ \E m \in Members : ResetLoad(p, m) \/ \E f \in Forms : Load(p, m, f)
  <2>1. /\ UNCHANGED data /\ pc'[p] \in {"idle", "loaded", "reset"}
        /\ \A r \in Procs \ {p} : pc'[r] = pc[r] /\ job'[r] = job[r]
      BY <1>3, GotoKeeps DEF Refuse, ResetLoad, Load
  <2>2. q # p /\ Walked(q)
      BY <1>2, <2>1 DEF Holder
  <2> QED
      BY <2>1, <2>2 DEF WalkInv, Away, data, Member
<1>4. CASE Flushing(p)
  <2>1. /\ UNCHANGED data /\ job'[p] = job[p] /\ pc'[p] = "flushed"
        /\ \A r \in Procs \ {p} : pc'[r] = pc[r] /\ job'[r] = job[r]
      BY <1>4, GotoKeeps DEF Flushing
  <2>2. CASE q # p
      BY <1>2, <2>1, <2>2 DEF WalkInv, Away, data, Member, Holder
  <2>3. CASE q = p
    <3> DEFINE up == job[p].form.parent
    <3>1. job[p].form \in Form /\ Member(p) \in Members
        BY <1>4, JobType DEF Flushing
    <3>2. up \in Members /\ ~Reaches(Parent, up, Member(p))
        BY <1>2, <1>4, <2>1, <2>3, <3>1 DEF Flushing, TriggerAllows, Form, Member
    <3>3. \E T \in SUBSET Members : up \in T /\ Away(T, Member(p))
        BY <3>1, <3>2, WalkedSet
    <3> QED
        BY <2>1, <2>3, <3>3 DEF Away, data, Member
  <2> QED
      BY <2>2, <2>3
<1>5. CASE Validating(p)
  <2>1. /\ UNCHANGED data /\ job'[p] = job[p] /\ Holder(p)
        /\ \A r \in Procs \ {p} : pc'[r] = pc[r] /\ job'[r] = job[r]
      BY <1>5, GotoKeeps DEF Validating, Holder
  <2> QED
      BY <1>2, <2>1 DEF WalkInv, Away, data, Member, Holder
<1>6. CASE Commit(p)
  <2>1. /\ q # p /\ Walked(q)
        /\ job'[q] = job[q] /\ pc[q] # "idle"
      BY <1>2, <1>6, CommitFacts DEF Holder
  <2>2. Member(q) # Member(p)
      BY <1>6, <2>1 DEF LockInv, Commit, Holder
  <2>3. {Member(p), Member(q)} \in raced' /\ raced \subseteq raced'
      BY <1>6, <2>1, CommitFacts
  <2>4. PICK T \in SUBSET Members : job[q].form.parent \in T /\ Away(T, Member(q))
      BY <2>1 DEF WalkInv
  <2>5. \A s \in T : rec'[s].parent \in T \cup {None} \/ {s, Member(q)} \in raced'
      BY <1>6, <2>3, <2>4, CommitFacts, ZenonT(30) DEF Away
  <2> QED
      BY <2>1, <2>4, <2>5 DEF Away, Member
<1>7. CASE ResetCommit(p)
  <2>1. /\ q # p /\ Walked(q) /\ job'[q] = job[q] /\ raced \subseteq raced'
      BY <1>2, <1>7, ResetFacts DEF Holder
  <2>2. PICK T \in SUBSET Members : job[q].form.parent \in T /\ Away(T, Member(q))
      BY <2>1 DEF WalkInv
  <2>3. \A s \in T : rec'[s].parent \in T \cup {None} \/ {s, Member(q)} \in raced'
      BY <1>7, <2>1, <2>2, ResetParents DEF Away
  <2> QED
      BY <2>1, <2>2, <2>3 DEF Away, Member
<1> QED
    BY <1>1, <1>3, <1>4, <1>5, <1>6, <1>7

(* A group that is not closed before a step is not closed without an       *)
(* overlap after it.                                                       *)
LEMMA StepCycles ==
    ASSUME TypeOK, LockInv, WalkInv, CyclesOnlyByOverlap, Next
    PROVE  CyclesOnlyByOverlap'
<1>1. PICK p \in Procs :
         \/ Refuse(p) \/ Flushing(p) \/ Validating(p) \/ Commit(p) \/ ResetCommit(p)
         \/ \E m \in Members : ResetLoad(p, m) \/ \E f \in Forms : Load(p, m, f)
    BY StepCases
<1>2. CASE ~Commit(p)
  <2>1. (\A n \in Members : rec'[n].parent = rec[n].parent) /\ raced \subseteq raced'
      BY <1>1, <1>2, ResetParents, ResetFacts
      DEF Refuse, Flushing, Validating, ResetLoad, Load, data
  <2> QED
      BY <2>1 DEF CyclesOnlyByOverlap, Trapped, RacedIn
<1>3. CASE Commit(p)
  <2> DEFINE m == Member(p)
             up == job[p].form.parent
  <2>1. SUFFICES ASSUME NEW S \in SUBSET Members, Trapped(S)' PROVE RacedIn(S)'
      BY DEF CyclesOnlyByOverlap
  <2>2. raced \subseteq raced'
      BY <1>3, CommitFacts
  <2>3. \A U \in SUBSET S : Trapped(U) => RacedIn(S)'
      BY <2>2 DEF CyclesOnlyByOverlap, RacedIn
  <2>4. CASE m \notin S \/ rec'[m].parent = rec[m].parent
    <3>1. Trapped(S)
        BY <1>3, <2>1, <2>4, CommitFacts DEF Trapped
    <3> QED
        BY <2>3, <3>1
  <2>5. CASE m \in S /\ rec'[m].parent # rec[m].parent
    <3>1. rec'[m] = Writes(p, rec[m])
        BY <1>3, CommitFacts
    <3>2. rec'[m].parent = up /\ up # job[p].loaded.parent
      <4>1. job[p].form \in Form
          BY <1>3, JobType DEF Commit
      <4>2. Normal(job[p].form).parent = up
          BY <4>1 DEF Normal, Form
      <4> QED
          BY <2>5, <3>1, <4>2 DEF Writes, Saved
    <3>3. up \in S
        BY <2>1, <2>5, <3>2 DEF Trapped
    <3>4. PICK T \in SUBSET Members : up \in T /\ Away(T, m)
        BY <1>3, <3>2, <3>3, NoneAssumption DEF WalkInv, Commit, Holder
    <3>5. \A s \in S \cap T : s # m /\ rec[s].parent \in S
        BY <1>3, <2>1, <3>4, CommitFacts DEF Trapped, Away
    <3>6. CASE \E s \in S \cap T : {s, m} \in raced
        BY <2>2, <2>5, <3>5, <3>6 DEF RacedIn
    <3>7. CASE \A s \in S \cap T : {s, m} \notin raced
      <4>1. Trapped(S \cap T)
          BY <3>3, <3>4, <3>5, <3>7, NoneAssumption DEF Trapped, Away
      <4> QED
          BY <2>3, <4>1
    <3> QED
        BY <3>6, <3>7
  <2> QED
      BY <2>4, <2>5
<1> QED
    BY <1>2, <1>3

-----------------------------------------------------------------------------
(* Offices                                                                 *)

(* A request that goes on knows what it has just read or checked.          *)
Goes(p) ==
    \/ pc'[p] = "idle"
    \/ /\ pc'[p] \in {"loaded", "reset"}
       /\ job'[p].loaded = rec[job'[p].member]
       /\ pc'[p] # "reset" => job'[p].before = offices[job'[p].member]
    \/ /\ pc'[p] \in {"flushed", "valid"} /\ job'[p] = job[p] /\ pc[p] \in {"loaded", "flushed"}
       /\ pc'[p] = "valid" =>
            Sound(job[p].form.offices) /\ Vacant(Member(p), job[p].form.offices)

(* A step that neither commits nor resets.                                 *)
LEMMA QuietFacts ==
    ASSUME TypeOK, NEW p \in Procs,
           \/ Refuse(p) \/ Flushing(p) \/ Validating(p)
           \/ \E m \in Members : ResetLoad(p, m) \/ \E f \in Forms : Load(p, m, f)
    PROVE  /\ UNCHANGED data
           /\ \A q \in Procs \ {p} : pc'[q] = pc[q] /\ job'[q] = job[q]
           /\ Goes(p)
<1> DEFINE Frame == UNCHANGED data /\ \A q \in Procs \ {p} : pc'[q] = pc[q] /\ job'[q] = job[q]
<1>1. CASE Refuse(p)
    BY <1>1, GotoKeeps DEF Refuse, Goes
<1>2. CASE Flushing(p)
    BY <1>2, GotoKeeps DEF Flushing, Goes
<1>3. CASE Validating(p)
    BY <1>3, GotoKeeps DEF Validating, Goes
<1>4. ASSUME NEW m \in Members, ResetLoad(p, m) PROVE Frame /\ Goes(p)
  <2> DEFINE j == [NoJob EXCEPT !.member = m, !.loaded = rec[m]]
  <2>1. Goto(p, "reset", j) /\ UNCHANGED data
      BY <1>4 DEF ResetLoad
  <2>2. j.member = m /\ j.loaded = rec[m]
      BY DEF NoJob
  <2> HIDE DEF j
  <2> QED
      BY <2>1, <2>2, GotoKeeps DEF Goes
<1>5. ASSUME NEW m \in Members, NEW f \in Forms, Load(p, m, f) PROVE Frame /\ Goes(p)
  <2> DEFINE j == [member |-> m, form |-> f, loaded |-> rec[m], before |-> offices[m]]
  <2>1. Goto(p, "loaded", j) /\ UNCHANGED data
      BY <1>5 DEF Load
  <2>2. j.member = m /\ j.loaded = rec[m] /\ j.before = offices[m]
      OBVIOUS
  <2> HIDE DEF j
  <2> QED
      BY <2>1, <2>2, GotoKeeps DEF Goes
<1> QED
    BY <1>1, <1>2, <1>3, <1>4, <1>5

LEMMA StepOffices ==
    ASSUME TypeOK, LockInv, VacantInv, OneHolderUnlessRaced, SoundInv, Next
    PROVE  VacantInv' /\ OneHolderUnlessRaced' /\ SoundInv'
<1>1. PICK p \in Procs :
         \/ Refuse(p) \/ Flushing(p) \/ Validating(p) \/ Commit(p) \/ ResetCommit(p)
         \/ \E m \in Members : ResetLoad(p, m) \/ \E f \in Forms : Load(p, m, f)
    BY StepCases
<1>2. CASE ~Commit(p) /\ ~ResetCommit(p)
  <2>1. /\ UNCHANGED <<offices, raced>>
        /\ \A q \in Procs \ {p} : pc'[q] = pc[q] /\ job'[q] = job[q]
        /\ pc'[p] = "valid" =>
             /\ job'[p] = job[p]
             /\ Sound(job[p].form.offices) /\ Vacant(Member(p), job[p].form.offices)
    <3>1. UNCHANGED data /\ Goes(p) /\ \A q \in Procs \ {p} : pc'[q] = pc[q] /\ job'[q] = job[q]
        BY <1>1, <1>2, QuietFacts
    <3> QED
        BY <3>1 DEF Goes, data
  <2>2. VacantInv'
      BY <2>1 DEF VacantInv, Vacant, Member
  <2>3. SoundInv'
      BY <2>1 DEF SoundInv
  <2> QED
      BY <2>1, <2>2, <2>3 DEF OneHolderUnlessRaced
<1>3. CASE ResetCommit(p)
  <2>1. /\ offices' = offices /\ raced \subseteq raced' /\ pc'[p] = "idle"
        /\ \A q \in Procs \ {p} : pc'[q] = pc[q] /\ job'[q] = job[q]
      BY <1>3, ResetFacts
  <2> QED
      BY <2>1 DEF VacantInv, SoundInv, OneHolderUnlessRaced, Member
<1>4. CASE Commit(p)
  <2>1. /\ pc[p] = "valid" /\ Holder(p)
        /\ Sound(job[p].form.offices)
      BY <1>4 DEF Commit, Holder, SoundInv
  <2>2. /\ offices'[Member(p)] = job[p].form.offices /\ Member(p) \in Members
        /\ \A n \in Members \ {Member(p)} : offices'[n] = offices[n]
        /\ raced \subseteq raced' /\ pc'[p] = "idle"
        /\ \A q \in Procs \ {p} : pc'[q] = pc[q] /\ job'[q] = job[q]
      BY <1>4, CommitFacts
  <2>3. SoundInv'
      BY <2>1, <2>2 DEF SoundInv
  <2>4. OneHolderUnlessRaced'
    <3>1. SUFFICES ASSUME NEW m \in Members, NEW n \in Members, m # n, {m, n} \notin raced',
                          NEW e \in offices'[m], NEW f \in offices'[n]
                   PROVE  ~Overlap(e, f)
        BY DEF OneHolderUnlessRaced
    <3>2. {m, n} \notin raced /\ {n, m} \notin raced
      <4>1. {n, m} = {m, n}
          OBVIOUS
      <4> QED
          BY <2>2, <3>1, <4>1
    <3>3. CASE m = Member(p)
        BY <2>1, <2>2, <3>1, <3>2, <3>3 DEF VacantInv
    <3>4. CASE n = Member(p)
        BY <2>1, <2>2, <3>1, <3>2, <3>4, OverlapSymmetric DEF VacantInv
    <3>5. CASE m # Member(p) /\ n # Member(p)
        BY <2>2, <3>1, <3>2, <3>5 DEF OneHolderUnlessRaced
    <3> QED
        BY <3>3, <3>4, <3>5
  <2>5. VacantInv'
    <3>1. SUFFICES ASSUME NEW q \in Procs, pc'[q] = "valid",
                          NEW n \in Members \ {Member(q)'}, {Member(q)', n} \notin raced',
                          NEW e \in job'[q].form.offices, NEW f \in offices'[n]
                   PROVE  ~Overlap(e, f)
        BY DEF VacantInv
    <3>2. q # p /\ job'[q] = job[q] /\ pc[q] = "valid"
        BY <2>2, <3>1
    <3>3. n # Member(p)
      <4>1. SUFFICES ASSUME n = Member(p) PROVE FALSE
          OBVIOUS
      <4>2. {Member(p), Member(q)} \in raced'
          BY <1>4, <3>2, CommitFacts DEF Holder
      <4>3. {Member(q), n} = {Member(p), Member(q)} /\ Member(q)' = Member(q)
          BY <3>2, <4>1 DEF Member
      <4> QED
          BY <3>1, <4>2, <4>3
    <3>4. Member(q)' = Member(q) /\ f \in offices[n] /\ {Member(q), n} \notin raced
        BY <2>2, <3>1, <3>2, <3>3 DEF Member
    <3> QED
        BY <3>1, <3>2, <3>4 DEF VacantInv
  <2> QED
      BY <2>3, <2>4, <2>5
<1> QED
    BY <1>1, <1>2, <1>3, <1>4

-----------------------------------------------------------------------------
(* What a request has read, the history and the rules of the row           *)

LEMMA StepRead == ASSUME TypeOK, ReadInv, Next PROVE ReadInv'
<1>1. PICK p \in Procs :
         \/ Refuse(p) \/ Flushing(p) \/ Validating(p) \/ Commit(p) \/ ResetCommit(p)
         \/ \E m \in Members : ResetLoad(p, m) \/ \E f \in Forms : Load(p, m, f)
    BY StepCases
<1>2. CASE ~Commit(p) /\ ~ResetCommit(p)
  <2>1. UNCHANGED data /\ Goes(p) /\ \A q \in Procs \ {p} : pc'[q] = pc[q] /\ job'[q] = job[q]
      BY <1>1, <1>2, QuietFacts
  <2>2. SUFFICES ASSUME NEW q \in Procs, pc'[q] # "idle", {Member(q)'} \notin raced'
                 PROVE  /\ job'[q].loaded = rec'[Member(q)']
                        /\ pc'[q] # "reset" => job'[q].before = offices'[Member(q)']
      BY DEF ReadInv
  <2>3. CASE q # p
      BY <2>1, <2>2, <2>3 DEF ReadInv, data, Member
  <2>4. CASE q = p
      BY <2>1, <2>2, <2>4 DEF ReadInv, data, Member, Goes
  <2> QED
      BY <2>3, <2>4
<1>3. CASE Commit(p) \/ ResetCommit(p)
  <2>1. /\ pc'[p] = "idle" /\ raced \subseteq raced'
        /\ \A n \in Members \ {Member(p)} : rec'[n] = rec[n] /\ offices'[n] = offices[n]
        /\ \A q \in Procs \ {p} :
             /\ pc'[q] = pc[q] /\ job'[q] = job[q]
             /\ pc[q] # "idle" /\ Member(q) = Member(p) => {Member(p), Member(q)} \in raced'
      BY <1>3, CommitFacts, ResetFacts
  <2>2. SUFFICES ASSUME NEW q \in Procs, pc'[q] # "idle", {Member(q)'} \notin raced'
                 PROVE  /\ job'[q].loaded = rec'[Member(q)']
                        /\ pc'[q] # "reset" => job'[q].before = offices'[Member(q)']
      BY DEF ReadInv
  <2>3. q # p /\ pc[q] # "idle" /\ job'[q] = job[q] /\ Member(q)' = Member(q)
        /\ Member(q) \in Members /\ pc'[q] = pc[q]
      BY <2>1, <2>2, JobType DEF Member
  <2>4. Member(q) # Member(p)
    <3>1. SUFFICES ASSUME Member(q) = Member(p) PROVE FALSE
        OBVIOUS
    <3>2. {Member(p), Member(q)} = {Member(q)}
        BY <3>1
    <3> QED
        BY <2>1, <2>2, <2>3, <3>1, <3>2
  <2> QED
      BY <2>1, <2>2, <2>3, <2>4 DEF ReadInv
<1> QED
    BY <1>1, <1>2, <1>3

LEMMA StepHistory ==
    ASSUME TypeOK, SoundInv, ReadInv, HistoryTellsOffices, Next
    PROVE  HistoryTellsOffices'
<1>1. PICK p \in Procs :
         \/ Refuse(p) \/ Flushing(p) \/ Validating(p) \/ Commit(p) \/ ResetCommit(p)
         \/ \E m \in Members : ResetLoad(p, m) \/ \E f \in Forms : Load(p, m, f)
    BY StepCases
<1>2. CASE ~Commit(p)
  <2>1. offices' = offices /\ told' = told /\ raced \subseteq raced'
      BY <1>1, <1>2, QuietFacts, ResetFacts DEF data
  <2> QED
      BY <2>1 DEF HistoryTellsOffices
<1>3. CASE Commit(p)
  <2> DEFINE m == Member(p)
             after == job[p].form.offices
  <2>1. /\ m \in Members /\ pc[p] = "valid" /\ raced \subseteq raced'
        /\ offices'[m] = after
        /\ told'[m] = Replay(told[m], Changes(job[p].before, after))
        /\ \A n \in Members \ {m} : offices'[n] = offices[n] /\ told'[n] = told[n]
      BY <1>3, CommitFacts DEF Commit
  <2>2. ASSUME {m} \notin raced PROVE told'[m] = after
    <3>1. told[m] = offices[m] /\ job[p].before = offices[m]
        BY <2>1, <2>2 DEF HistoryTellsOffices, ReadInv
    <3>2. offices[m] \in SUBSET Entry /\ after \in SUBSET Entry
        BY <2>1, JobType DEF TypeOK, Form
    <3>3. Sound(offices[m]) /\ Sound(after)
        BY <2>1 DEF SoundInv
    <3> QED
        BY <2>1, <3>1, <3>2, <3>3, ReplayChanges
  <2> HIDE DEF m, after
  <2> QED
      BY <2>1, <2>2 DEF HistoryTellsOffices
<1> QED
    BY <1>2, <1>3

LEMMA StepStatus ==
    ASSUME TypeOK, ReadInv, StatusRulesUnlessRaced, Next
    PROVE  StatusRulesUnlessRaced'
<1>1. PICK p \in Procs :
         \/ Refuse(p) \/ Flushing(p) \/ Validating(p) \/ Commit(p) \/ ResetCommit(p)
         \/ \E m \in Members : ResetLoad(p, m) \/ \E f \in Forms : Load(p, m, f)
    BY StepCases
<1> DEFINE Rules(r, address) ==
               /\ r.left \/ r.dead \/ r.email = None => r.locked
               /\ r.verified => r.email = address
<1>2. CASE ~Commit(p) /\ ~ResetCommit(p)
    BY <1>1, <1>2, QuietFacts DEF StatusRulesUnlessRaced, data
<1>3. CASE Commit(p)
  <2> DEFINE m == Member(p)
  <2>1. /\ m \in Members /\ proven' = proven /\ raced \subseteq raced'
        /\ rec'[m] = Writes(p, rec[m]) /\ \A n \in Members \ {m} : rec'[n] = rec[n]
      BY <1>3, CommitFacts
  <2>2. /\ job[p].form \in Form /\ job[p].loaded \in Columns /\ rec[m] \in Columns
        /\ pc[p] # "idle"
      BY <1>3, <2>1, JobType DEF Commit, TypeOK
  <2>3. ASSUME {m} \notin raced PROVE Rules(Writes(p, rec[m]), proven[m])
    <3>1. job[p].loaded = rec[m]
        BY <2>2, <2>3 DEF ReadInv
    <3>2. Rules(rec[m], proven[m])
        BY <2>1, <2>3 DEF StatusRulesUnlessRaced
    <3> DEFINE new == Normal(job[p].form)
    <3>3. /\ new.left \/ new.dead \/ new.email = None => new.locked
        BY <2>2 DEF Normal, Form
    <3>4. LET w == Writes(p, rec[m]) IN
          /\ w.left = new.left /\ w.dead = new.dead /\ w.locked = new.locked
          /\ w.email = new.email
          /\ w.verified = (rec[m].verified /\ new.email = rec[m].email)
        BY <2>2, <3>1 DEF Writes, Saved, Columns
    <3> QED
        BY <3>2, <3>3, <3>4
  <2>4. \A n \in Members : {n} \notin raced' => Rules(rec'[n], proven'[n])
    <3>1. SUFFICES ASSUME NEW n \in Members, {n} \notin raced' PROVE Rules(rec'[n], proven'[n])
        OBVIOUS
    <3>2. CASE n = m
        BY <2>1, <2>3, <3>1, <3>2
    <3>3. CASE n # m
        BY <2>1, <3>1, <3>3 DEF StatusRulesUnlessRaced
    <3> QED
        BY <3>2, <3>3
  <2> QED
      BY <2>4 DEF StatusRulesUnlessRaced
<1>4. CASE ResetCommit(p)
  <2> DEFINE m == Member(p)
  <2>1. /\ m \in Members /\ raced \subseteq raced'
        /\ rec'[m] = [rec[m] EXCEPT !.verified = TRUE]
        /\ proven'[m] = job[p].loaded.email
        /\ \A n \in Members \ {m} : rec'[n] = rec[n] /\ proven'[n] = proven[n]
      BY <1>4, ResetFacts
  <2>2. rec[m] \in Columns /\ pc[p] # "idle"
      BY <1>4, <2>1 DEF ResetCommit, TypeOK
  <2>3. /\ rec'[m].left = rec[m].left /\ rec'[m].dead = rec[m].dead
        /\ rec'[m].email = rec[m].email /\ rec'[m].locked = rec[m].locked
      BY <2>1, <2>2 DEF Columns
  <2>4. \A n \in Members : {n} \notin raced' => Rules(rec'[n], proven'[n])
    <3>1. SUFFICES ASSUME NEW n \in Members, {n} \notin raced' PROVE Rules(rec'[n], proven'[n])
        OBVIOUS
    <3>2. CASE n = m
      <4>1. job[p].loaded = rec[m]
          BY <2>1, <2>2, <3>1, <3>2 DEF ReadInv
      <4>2. Rules(rec[m], proven[m])
          BY <2>1, <3>1, <3>2 DEF StatusRulesUnlessRaced
      <4> QED
          BY <2>1, <2>3, <3>2, <4>1, <4>2
    <3>3. CASE n # m
        BY <2>1, <3>1, <3>3 DEF StatusRulesUnlessRaced
    <3> QED
        BY <3>2, <3>3
  <2> QED
      BY <2>4 DEF StatusRulesUnlessRaced
<1> QED
    BY <1>1, <1>2, <1>3, <1>4

-----------------------------------------------------------------------------

LEMMA InitInv == Init => IInv
<1> SUFFICES ASSUME Init PROVE IInv
    OBVIOUS
<1> USE DEF Init
<1>1. \A m \in Members : rec[m] \in Columns /\ rec[m].left = FALSE /\ rec[m].dead = FALSE
        /\ rec[m].parent = None /\ rec[m].verified = FALSE
        /\ (rec[m].email = None => rec[m].locked)
  <2>1. ASSUME NEW e \in Emails \cup {None}, NEW r,
               r = [Blank EXCEPT !.email = e, !.locked = (e = None)]
        PROVE  r \in Columns /\ r.left = FALSE /\ r.dead = FALSE /\ r.parent = None
               /\ r.verified = FALSE /\ (r.email = None => r.locked)
      BY <2>1, NameAssumption DEF Blank, Columns
  <2>2. \A m \in Members : \E e \in Emails \cup {None} :
          rec[m] = [Blank EXCEPT !.email = e, !.locked = (e = None)]
    <3> DEFINE R == {[Blank EXCEPT !.email = e, !.locked = (e = None)] : e \in Emails \cup {None}}
    <3>1. rec \in [Members -> R]
        OBVIOUS
    <3>2. \A r \in R : \E e \in Emails \cup {None} :
            r = [Blank EXCEPT !.email = e, !.locked = (e = None)]
        OBVIOUS
    <3> HIDE DEF R
    <3>3. \A m \in Members : rec[m] \in R
        BY <3>1
    <3> QED
        BY <3>2, <3>3
  <2>3. SUFFICES ASSUME NEW m \in Members
                 PROVE  /\ rec[m] \in Columns /\ rec[m].left = FALSE /\ rec[m].dead = FALSE
                        /\ rec[m].parent = None /\ rec[m].verified = FALSE
                        /\ (rec[m].email = None => rec[m].locked)
      OBVIOUS
  <2>4. PICK e \in Emails \cup {None} : rec[m] = [Blank EXCEPT !.email = e, !.locked = (e = None)]
      BY <2>2
  <2> HIDE DEF Init
  <2> QED
      BY <2>1, <2>4
<1>2. TypeOK
  <2>1. rec \in [Members -> Columns]
      BY <1>1
  <2>2. pc \in [Procs -> Phases] /\ job \in [Procs -> Job] /\ \A p \in Procs : pc[p] = "idle"
      BY NoJobType DEF Phases
  <2>3. badges \in [Members -> Badges]
      OBVIOUS
  <2> QED
      BY <2>1, <2>2, <2>3 DEF TypeOK
<1>3. CyclesOnlyByOverlap
  <2>1. ASSUME NEW S \in SUBSET Members, Trapped(S) PROVE FALSE
    <3>1. PICK m \in S : rec[m].parent \in S
        BY <2>1 DEF Trapped
    <3>2. m \in Members /\ None \in Members
        BY <1>1, <3>1
    <3> QED
        BY <3>2, NoneAssumption
  <2> QED
      BY <2>1 DEF CyclesOnlyByOverlap
<1>4. StatusRulesUnlessRaced
    BY <1>1 DEF StatusRulesUnlessRaced
<1>5. LockInv /\ WalkInv /\ VacantInv /\ ReadInv
    BY DEF LockInv, WalkInv, VacantInv, ReadInv, Holder
<1>6. OneHolderUnlessRaced /\ SoundInv /\ HistoryTellsOffices
    BY DEF OneHolderUnlessRaced, SoundInv, Sound, HistoryTellsOffices
<1> QED
    BY <1>2, <1>3, <1>4, <1>5, <1>6 DEF IInv

LEMMA StepInv == IInv /\ [Next]_vars => IInv'
<1> SUFFICES ASSUME IInv, [Next]_vars PROVE IInv'
    OBVIOUS
<1>1. TypeOK'
    BY StepType DEF IInv
<1>2. CASE Next
    BY <1>1, <1>2, StepLock, StepWalk, StepCycles, StepOffices, StepRead, StepHistory, StepStatus
    DEF IInv
<1>3. CASE UNCHANGED vars
    BY <1>1, <1>3 DEF IInv, vars, data, LockInv, WalkInv, CyclesOnlyByOverlap, VacantInv,
       OneHolderUnlessRaced, SoundInv, ReadInv, HistoryTellsOffices, StatusRulesUnlessRaced,
       Holder, Member, Away, Trapped, RacedIn
<1> QED
    BY <1>2, <1>3

(* Everything below follows from the inductive invariant.                  *)
THEOREM Invariant == Spec => []IInv
    BY InitInv, StepInv, PTL DEF Spec

(* Saves and password resets keep every row and every request well formed, *)
(* whatever an administrator sends.                                        *)
THEOREM TypeCorrect == Spec => []TypeOK
<1>1. IInv => TypeOK
    BY DEF IInv
<1> QED
    BY <1>1, Invariant, PTL

(* The trigger on parent_id lets no cycle through that one save alone      *)
(* would close.                                                            *)
THEOREM CyclesNeedOverlap == Spec => []CyclesOnlyByOverlap
<1>1. IInv => CyclesOnlyByOverlap
    BY DEF IInv
<1> QED
    BY <1>1, Invariant, PTL

(* validate_roles_history lets no office have two holders unless it was    *)
(* given to both by overlapping saves.                                     *)
THEOREM OneHolder == Spec => []OneHolderUnlessRaced
<1>1. IInv => OneHolderUnlessRaced
    BY DEF IInv
<1> QED
    BY <1>1, Invariant, PTL

(* The role history, replayed, gives the offices of every member whose     *)
(* saves never overlapped.                                                 *)
THEOREM HistoryIsTrue == Spec => []HistoryTellsOffices
<1>1. IInv => HistoryTellsOffices
    BY DEF IInv
<1> QED
    BY <1>1, Invariant, PTL

(* Who has left, died or has no address is locked, and an address counts   *)
(* as verified only if it was the one proven, unless writers overlapped.   *)
THEOREM StatusRules == Spec => []StatusRulesUnlessRaced
<1>1. IInv => StatusRulesUnlessRaced
    BY DEF IInv
<1> QED
    BY <1>1, Invariant, PTL

=============================================================================
