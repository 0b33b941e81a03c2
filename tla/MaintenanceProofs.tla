-------------------------- MODULE MaintenanceProofs -------------------------
(***************************************************************************)
(* Proofs about the maintenance jobs, and about the migrations with which  *)
(* each of them ends.                                                      *)
(*                                                                         *)
(* Maintenance, for any number of jobs, dumps, failing steps and timeouts. *)
(* As long as no job has run past its timeout, the job at work is the one  *)
(* whose task holds the lock (SoleInv); everything else about a restore    *)
(* rests on that: what a job knows of the database and of the mirrored     *)
(* dumps stays true while it works (RestoreInv, MirrorInv).                *)
(*                                                                         *)
(* SchemaMigrations, for every chain of migrations that is as its          *)
(* assumptions say, and any number of runs, goals and failures.  While no  *)
(* run is bound to end half-way (Fated), the one run that is half-way has  *)
(* the schema of its block, uncommitted work that of its revision, and     *)
(* otherwise the committed schema is that of the committed revision        *)
(* (ContentInv).  References hold without that condition (ReferencesInv).  *)
(***************************************************************************)
EXTENDS Maintenance, SchemaMigrations, FiniteSetTheorems, TLAPS

(* The phases in which a job has chosen the dump to restore.               *)
Chosen == {"download", "snapshot", "wipe"} \cup Restoring

(* Every dump was begun before now; a dump is chosen before it is restored;*)
(* success is reported only at the end.                                    *)
DumpsDated ==
    /\ \A d \in prod \cup local : d.at < clock
    /\ \A b \in Backups : manual[b].step # "idle" =>
          manual[b].dump \in Dump /\ manual[b].dump.at < clock
JobsKnow ==
    \A j \in Jobs :
        /\ pc[j] \in Chosen => read[j].pick \in Dump
        /\ read[j].ok => pc[j] = "record" /\ read[j].pick \in Dump

TypeInv == TypeOK /\ DumpsDated /\ JobsKnow

(* Unless a timeout has freed the lock early, it tells who is at work.     *)
SoleInv == Undisturbed => \A j \in Jobs : AtWork(j) <=> lock = j

(* What the database is while a job restores it.                           *)
Succeeds(j) == pc[j] = "record" /\ read[j].ok
Past(j, phases) == pc[j] \in phases \/ Succeeds(j)

JobRestores(j) ==
    LET dump == read[j].pick IN
    /\ pc[j] = "load" => db.rows = Wiped
    /\ pc[j] = "loading" => db.rows <= dump.rows
    /\ Past(j, Restoring) => db.goal = dump.rows /\ db.of = dump.of
    /\ pc[j] \in Restoring => db.head = dump.head
    /\ Past(j, {"verify", "history", "migrate"}) => db.rows = dump.rows
    /\ Past(j, {"history", "migrate"}) => db.rows \in {Part, Whole}
    /\ Succeeds(j) => db.head
    /\ Past(j, {"migrate"}) /\ dump.head /\ faults = 0 => read[j].snap \subseteq hist

RestoreInv == Undisturbed => \A j \in Jobs : JobRestores(j)

(* While nobody restores, nothing is half done.                            *)
DbAtRest == db.rows = db.goal /\ (db.head \/ db.goal \in {Wiped, Bare})
RestInv ==
    Undisturbed /\ faults = 0 /\ (\A j \in Jobs : pc[j] \notin Restoring) => DbAtRest

(* What the mirror knows of the stage's dumps.                             *)
JobMirrors(j) ==
    /\ pc[j] = "copy" =>
        /\ read[j].gone \cap read[j].src = {}
        /\ ~read[j].errors => read[j].src \ read[j].todo \subseteq local
    /\ pc[j] = "select" => read[j].src \subseteq local
    /\ pc[j] \in Chosen => \A d \in read[j].src : d.at <= read[j].pick.at

MirrorInv == Undisturbed => \A j \in Jobs : JobMirrors(j)

(* Every thread whose task has stopped waiting was once timed out.         *)
Abandoned == {j \in Jobs : AtWork(j) /\ lock # j}
AbandonedInv == Cardinality(Abandoned) <= timeouts

-----------------------------------------------------------------------------
(* Dumps by time                                                           *)

(* A set of numbers has a least one: among the intervals from 0 to its     *)
(* members one contains no other.                                          *)
LEMMA LeastNat ==
    ASSUME NEW S \in SUBSET Nat, S # {}
    PROVE  \E n \in S : \A m \in S : n <= m
<1> DEFINE T == {0..n : n \in S}
<1>1. T \subseteq FiniteSubsetsOf(Nat) /\ T # {}
  <2>1. \A n \in S : IsFiniteSet(0..n) /\ 0..n \subseteq Nat
    BY FS_Interval
  <2> QED BY <2>1 DEF FiniteSubsetsOf
<1>2. PICK x \in T : \A y \in T : ~(<<y, x>> \in StrictSubsetOrdering(Nat))
    BY <1>1, FS_StrictSubsetOrderingWellFounded, WFMin
<1>3. PICK n \in S : x = 0..n
    OBVIOUS
<1>4. ASSUME NEW m \in S, m < n PROVE FALSE
  <2>1. 0..m \subseteq 0..n /\ 0..m # 0..n
    BY <1>4
  <2>2. <<0..m, 0..n>> \in StrictSubsetOrdering(Nat)
    BY <2>1, <1>1 DEF StrictSubsetOrdering, FiniteSubsetsOf
  <2> QED BY <1>2, <1>3, <2>2
<1> QED
    BY <1>4

(* The copy loop has a first key.                                          *)
LEMMA OldestIn ==
    ASSUME NEW D \in SUBSET Dump, D # {}
    PROVE  Oldest(D) \in D
<1> DEFINE S == {d.at : d \in D}
<1>1. S \in SUBSET Nat /\ S # {}
    BY DEF Dump
<1>2. PICK n \in S : \A m \in S : n <= m
    BY <1>1, LeastNat
<1>3. \E d \in D : \A e \in D : d.at <= e.at
    BY <1>2
<1> QED
    BY <1>3 DEF Oldest

(* latest_backup_key finds a newest dump among dumps begun before n.       *)
LEMMA LatestIn ==
    ASSUME NEW D \in SUBSET Dump, D # {}, NEW n \in Nat, \A d \in D : d.at < n
    PROVE  Latest(D) \in D /\ \A e \in D : e.at <= Latest(D).at
<1> DEFINE S == {n - d.at : d \in D}
<1>1. S \in SUBSET Nat /\ S # {}
    BY DEF Dump
<1>2. PICK k \in S : \A m \in S : k <= m
    BY <1>1, LeastNat
<1>3. PICK d \in D : k = n - d.at
    OBVIOUS
<1>4. ASSUME NEW e \in D PROVE e.at <= d.at
  <2>1. d.at \in Nat /\ e.at \in Nat
    BY DEF Dump
  <2>2. n - d.at <= n - e.at
    BY <1>2, <1>3
  <2> QED BY <2>1, <2>2
<1>5. \E x \in D : \A e \in D : e.at <= x.at
    BY <1>4
<1> QED
    BY <1>5 DEF Latest

-----------------------------------------------------------------------------
(* Types                                                                   *)

(* A job that has read nothing.                                            *)
LEMMA NoReadType == NoRead \in Reading
    BY DEF NoRead, Reading

(* Where a job stands and what it has read keep their types, and other     *)
(* jobs keep both.                                                         *)
LEMMA GotoType ==
    ASSUME TypeOK, NEW j \in Jobs, NEW phase \in Phases, NEW r \in Reading, Goto(j, phase, r)
    PROVE  /\ pc' \in [Jobs -> Phases] /\ read' \in [Jobs -> Reading]
           /\ pc'[j] = phase /\ read'[j] = r
           /\ \A i \in Jobs \ {j} : pc'[i] = pc[i] /\ read'[i] = read[i]
    BY DEF TypeOK, Goto

(* A job that fails goes to record that.                                   *)
LEMMA FailType ==
    ASSUME TypeOK, NEW j \in Jobs, Fail(j)
    PROVE  /\ pc' \in [Jobs -> Phases] /\ read' \in [Jobs -> Reading]
           /\ pc'[j] = "record" /\ read'[j] \in Reading /\ read'[j].ok = FALSE
           /\ \A i \in Jobs \ {j} : pc'[i] = pc[i] /\ read'[i] = read[i]
<1> DEFINE r == [read[j] EXCEPT !.ok = FALSE]
<1>1. r \in Reading /\ r.ok = FALSE
    BY DEF TypeOK, Reading
<1> QED
    BY <1>1, GotoType DEF Fail, Phases

(* A step of one job keeps what is known of the jobs, if the dump is chosen*)
(* and success reported at the right places.                               *)
LEMMA GotoKnows ==
    ASSUME TypeOK, JobsKnow, NEW j \in Jobs, NEW phase \in Phases, NEW r \in Reading,
           Goto(j, phase, r), phase \in Chosen => r.pick \in Dump,
           r.ok => phase = "record" /\ r.pick \in Dump
    PROVE  JobsKnow'
<1>1. ASSUME NEW i \in Jobs, i # j
      PROVE  pc'[i] = pc[i] /\ read'[i] = read[i]
    BY <1>1, GotoType
<1>2. pc'[j] = phase /\ read'[j] = r
    BY GotoType
<1> QED
    BY <1>1, <1>2 DEF JobsKnow

(* So does a job that fails.                                               *)
LEMMA FailKnows ==
    ASSUME TypeOK, JobsKnow, NEW j \in Jobs, Fail(j)
    PROVE  JobsKnow'
<1> DEFINE r == [read[j] EXCEPT !.ok = FALSE]
<1>1. r \in Reading /\ r.ok = FALSE
    BY DEF TypeOK, Reading
<1> QED
    BY <1>1, GotoKnows DEF Fail, Phases, Chosen, Restoring

(* A stage just set up is well-formed.                                     *)
LEMMA InitType == Init => TypeInv
<1> SUFFICES ASSUME Init PROVE TypeInv
    OBVIOUS
<1>1. TypeOK
    BY BoundsAssumption, NoReadType
    DEF Init, TypeOK, Dump, Database, Writing, NoBackup, Phases, Wiped, Whole
<1>2. DumpsDated /\ JobsKnow
    BY DEF Init, DumpsDated, JobsKnow, NoBackup, Chosen, Restoring, NoRead
<1> QED
    BY <1>1, <1>2 DEF TypeInv

(* Every step keeps the types, and what is known of dumps.                 *)
LEMMA TypeStep == TypeInv /\ [Next]_vars => TypeInv'
<1> SUFFICES ASSUME TypeInv, [Next]_vars
    PROVE  TypeInv'
    OBVIOUS
<1> USE DEF TypeInv, store
<1>1. ASSUME NEW j \in Jobs, StartTask(j) PROVE TypeInv'
  <2>1. pc' \in [Jobs -> Phases] /\ read' \in [Jobs -> Reading]
        /\ read'[j] = NoRead /\ pc'[j] \in {"newest", "source"}
        /\ \A i \in Jobs \ {j} : pc'[i] = pc[i] /\ read'[i] = read[i]
    BY <1>1, NoReadType, GotoType DEF StartTask, Begin, Phases
  <2>2. TypeOK'
    BY <1>1, <2>1 DEF StartTask, TypeOK
  <2>3. DumpsDated' /\ JobsKnow'
    BY <1>1, <2>1 DEF StartTask, DumpsDated, JobsKnow, Chosen, Restoring,
        NoRead
  <2> QED BY <2>2, <2>3
<1>2. ASSUME NEW j \in Jobs, Timeout(j) PROVE TypeInv'
    BY <1>2, BoundsAssumption DEF Timeout, TypeOK, DumpsDated, JobsKnow
<1>3. ASSUME NEW j \in Jobs, StepFails(j) PROVE TypeInv'
  <2>1. Fail(j) /\ faults' \in 0..MaxFaults
    BY <1>3, BoundsAssumption DEF StepFails, TypeOK
  <2>2. TypeOK'
    BY <1>3, <2>1, FailType DEF StepFails, TypeOK
  <2>3. JobsKnow'
    BY <2>1, FailKnows
  <2>4. DumpsDated'
    BY <1>3 DEF StepFails, DumpsDated
  <2> QED BY <2>2, <2>3, <2>4
<1>4. ASSUME NEW j \in Jobs, MirrorNewest(j) PROVE TypeInv'
  <2>1. CASE Fail(j)
    <3>1. TypeOK'
      BY <1>4, <2>1, FailType DEF MirrorNewest, TypeOK
    <3>2. JobsKnow'
      BY <2>1, FailKnows
    <3>3. DumpsDated'
      BY <1>4 DEF MirrorNewest, DumpsDated
    <3> QED BY <3>1, <3>2, <3>3
  <2>2. CASE ~Fail(j)
    <3> DEFINE r == [read[j] EXCEPT !.scope = {Latest(prod)}]
    <3>1. r \in Reading /\ r.ok = FALSE
      BY <1>4, <2>2, LatestIn DEF MirrorNewest, TypeOK, Reading, JobsKnow,
          DumpsDated
    <3>2. Goto(j, "source", r)
      BY <1>4, <2>2 DEF MirrorNewest
    <3>3. TypeOK'
      BY <1>4, <2>2, <3>1, <3>2, GotoType DEF MirrorNewest, TypeOK, Phases
    <3>4. "source" \in Chosen => r.pick \in Dump
      BY <1>4, <2>2, LatestIn DEF MirrorNewest, TypeOK, Reading, JobsKnow,
          Chosen, Restoring, DumpsDated
    <3>5. JobsKnow'
      BY <3>1, <3>2, <3>4, GotoKnows DEF Phases
    <3>6. DumpsDated'
      BY <1>4 DEF MirrorNewest, DumpsDated
    <3> QED BY <3>3, <3>5, <3>6
  <2> QED BY <2>1, <2>2
<1>5. ASSUME NEW j \in Jobs, MirrorSource(j) PROVE TypeInv'
  <2> DEFINE r == [read[j] EXCEPT !.src = InScope(j, prod)]
  <2>1. r \in Reading /\ r.ok = FALSE
    BY <1>5 DEF MirrorSource, TypeOK, Reading, JobsKnow, InScope
  <2>2. Goto(j, "dest", r)
    BY <1>5 DEF MirrorSource
  <2>3. TypeOK'
    BY <1>5, <2>1, <2>2, GotoType DEF MirrorSource, TypeOK, Phases
  <2>4. JobsKnow'
    BY <2>1, <2>2, GotoKnows DEF Phases, Chosen, Restoring
  <2>5. DumpsDated'
    BY <1>5 DEF MirrorSource, DumpsDated
  <2> QED BY <2>3, <2>4, <2>5
<1>6. ASSUME NEW j \in Jobs, MirrorDest(j) PROVE TypeInv'
  <2>1. CASE Fail(j)
    <3>1. TypeOK'
      BY <1>6, <2>1, FailType DEF MirrorDest, TypeOK
    <3>2. JobsKnow'
      BY <2>1, FailKnows
    <3>3. DumpsDated'
      BY <1>6 DEF MirrorDest, DumpsDated
    <3> QED BY <3>1, <3>2, <3>3
  <2>2. CASE ~Fail(j)
    <3> DEFINE r == [read[j] EXCEPT !.todo = read[j].src \ InScope(j, local),
                                    !.gone = InScope(j, local) \ read[j].src]
    <3>1. r \in Reading /\ r.ok = FALSE
      BY <1>6, <2>2, ZenonT(40) DEF MirrorDest, TypeOK, Reading, JobsKnow, InScope
    <3>2. Goto(j, "copy", r)
      BY <1>6, <2>2 DEF MirrorDest
    <3>3. TypeOK'
      BY <1>6, <2>2, <3>1, <3>2, GotoType DEF MirrorDest, TypeOK, Phases
    <3>4. "copy" \in Chosen => r.pick \in Dump
      BY <1>6, <2>2 DEF MirrorDest, TypeOK, Reading, JobsKnow, Chosen,
          Restoring, InScope
    <3>5. JobsKnow'
      BY <3>1, <3>2, <3>4, GotoKnows DEF Phases
    <3>6. DumpsDated'
      BY <1>6 DEF MirrorDest, DumpsDated
    <3> QED BY <3>3, <3>5, <3>6
  <2> QED BY <2>1, <2>2
<1>7. ASSUME NEW j \in Jobs, MirrorCopy(j) PROVE TypeInv'
  <2> DEFINE d == Oldest(read[j].todo)
             r == [read[j] EXCEPT !.todo = @ \ {d}]
             e == [r EXCEPT !.errors = TRUE]
  <2>1. d \in read[j].todo /\ d \in Dump
    BY <1>7, OldestIn DEF MirrorCopy, TypeOK, Reading
  <2>2. r \in Reading /\ e \in Reading /\ r.ok = read[j].ok /\ e.ok = read[j].ok
    BY DEF TypeOK, Reading
  <2>3. Goto(j, "copy", r) \/ Goto(j, "copy", e)
    BY <1>7 DEF MirrorCopy
  <2>4. TypeOK'
    BY <1>7, <2>1, <2>2, <2>3, GotoType, BoundsAssumption DEF MirrorCopy,
        TypeOK, Phases
  <2>5. DumpsDated'
    BY <1>7 DEF MirrorCopy, DumpsDated
  <2>6. read[j].ok = FALSE
    BY <1>7 DEF MirrorCopy, TypeOK, Reading, JobsKnow
  <2>7. JobsKnow'
    BY <2>2, <2>3, <2>6, GotoKnows DEF Chosen, Restoring, Phases
  <2> QED BY <2>4, <2>5, <2>7
<1>8. ASSUME NEW j \in Jobs, MirrorPrune(j) PROVE TypeInv'
  <2>1. pc' \in [Jobs -> Phases] /\ read' \in [Jobs -> Reading]
        /\ pc'[j] \in {"record", "select"} /\ read'[j].ok = FALSE
        /\ \A i \in Jobs \ {j} : pc'[i] = pc[i] /\ read'[i] = read[i]
    <3>1. Fail(j) \/ Goto(j, "select", read[j])
      BY <1>8 DEF MirrorPrune
    <3>2. read[j] \in Reading /\ read[j].ok = FALSE
      BY <1>8 DEF MirrorPrune, TypeOK, JobsKnow, Reading
    <3> QED BY <3>1, <3>2, FailType, GotoType, ZenonT(30) DEF Phases
  <2>2. TypeOK'
    BY <1>8, <2>1, BoundsAssumption DEF MirrorPrune, TypeOK
  <2>3. DumpsDated' /\ JobsKnow'
    BY <1>8, <2>1 DEF MirrorPrune, DumpsDated, JobsKnow, Chosen, Restoring
  <2> QED BY <2>2, <2>3
<1>9. ASSUME NEW j \in Jobs, RestoreSelect(j) PROVE TypeInv'
  <2>1. CASE Fail(j)
    <3>1. TypeOK'
      BY <1>9, <2>1, FailType DEF RestoreSelect, TypeOK
    <3>2. JobsKnow'
      BY <2>1, FailKnows
    <3>3. DumpsDated'
      BY <1>9 DEF RestoreSelect, DumpsDated
    <3> QED BY <3>1, <3>2, <3>3
  <2>2. CASE ~Fail(j)
    <3> DEFINE r == [read[j] EXCEPT !.pick = Latest(local)]
    <3>1. r \in Reading /\ r.ok = FALSE
      BY <1>9, <2>2, LatestIn DEF RestoreSelect, TypeOK, Reading, JobsKnow,
          DumpsDated
    <3>2. Goto(j, "download", r)
      BY <1>9, <2>2 DEF RestoreSelect
    <3>3. TypeOK'
      BY <1>9, <2>2, <3>1, <3>2, GotoType DEF RestoreSelect, TypeOK, Phases
    <3>4. "download" \in Chosen => r.pick \in Dump
      BY <1>9, <2>2, LatestIn DEF RestoreSelect, TypeOK, Reading, JobsKnow,
          Chosen, Restoring, DumpsDated
    <3>5. JobsKnow'
      BY <3>1, <3>2, <3>4, GotoKnows DEF Phases
    <3>6. DumpsDated'
      BY <1>9 DEF RestoreSelect, DumpsDated
    <3> QED BY <3>3, <3>5, <3>6
  <2> QED BY <2>1, <2>2
<1>10. ASSUME NEW j \in Jobs, RestoreDownload(j) PROVE TypeInv'
  <2>1. CASE Fail(j)
    <3>1. TypeOK'
      BY <1>10, <2>1, FailType DEF RestoreDownload, TypeOK
    <3>2. JobsKnow'
      BY <2>1, FailKnows
    <3>3. DumpsDated'
      BY <1>10 DEF RestoreDownload, DumpsDated
    <3> QED BY <3>1, <3>2, <3>3
  <2>2. CASE ~Fail(j)
    <3> DEFINE r == read[j]
    <3>1. r \in Reading /\ r.ok = FALSE
      BY <1>10, <2>2 DEF RestoreDownload, TypeOK, Reading, JobsKnow
    <3>2. Goto(j, "snapshot", r)
      BY <1>10, <2>2 DEF RestoreDownload
    <3>3. TypeOK'
      BY <1>10, <2>2, <3>1, <3>2, GotoType DEF RestoreDownload, TypeOK, Phases
    <3>4. "snapshot" \in Chosen => r.pick \in Dump
      BY <1>10, <2>2 DEF RestoreDownload, TypeOK, Reading, JobsKnow, Chosen,
          Restoring
    <3>5. JobsKnow'
      BY <3>1, <3>2, <3>4, GotoKnows DEF Phases
    <3>6. DumpsDated'
      BY <1>10 DEF RestoreDownload, DumpsDated
    <3> QED BY <3>3, <3>5, <3>6
  <2> QED BY <2>1, <2>2
<1>11. ASSUME NEW j \in Jobs, RestoreSnapshot(j) PROVE TypeInv'
  <2> DEFINE r == [read[j] EXCEPT !.snap = hist]
  <2>1. r \in Reading /\ r.ok = FALSE /\ r.pick \in Dump
    BY <1>11 DEF RestoreSnapshot, TypeOK, Reading, JobsKnow, Chosen
  <2>2. Goto(j, "wipe", r)
    BY <1>11 DEF RestoreSnapshot
  <2>3. TypeOK'
    BY <1>11, <2>1, <2>2, GotoType DEF RestoreSnapshot, TypeOK, Phases
  <2>4. JobsKnow'
    BY <2>1, <2>2, GotoKnows DEF Phases, Chosen, Restoring
  <2>5. DumpsDated'
    BY <1>11 DEF RestoreSnapshot, DumpsDated
  <2> QED BY <2>3, <2>4, <2>5
<1>12. ASSUME NEW j \in Jobs, RestoreWipe(j) PROVE TypeInv'
  <2>1. read[j].pick \in Dump
    BY <1>12 DEF RestoreWipe, JobsKnow, Chosen
  <2>2. pc' \in [Jobs -> Phases] /\ db' \in Database
    BY <1>12, <2>1 DEF RestoreWipe, TypeOK, Dump, Database, Phases, Wiped,
        Whole
  <2>3. manual' \in [Backups -> Writing]
    BY <1>12 DEF RestoreWipe, TypeOK, Writing, NoBackup
  <2>4. TypeOK'
    BY <1>12, <2>2, <2>3 DEF RestoreWipe, TypeOK
  <2>5. DumpsDated'
    BY <1>12 DEF RestoreWipe, TypeOK, DumpsDated, NoBackup
  <2>6. JobsKnow'
    BY <1>12, <2>1 DEF RestoreWipe, TypeOK, JobsKnow, Chosen, Restoring
  <2> QED BY <2>4, <2>5, <2>6
<1>13. ASSUME NEW j \in Jobs, RestoreBegin(j) PROVE TypeInv'
  <2>1. db' \in Database
    BY <1>13 DEF RestoreBegin, TypeOK, Database, Wiped, Part, Whole
  <2>2. read' = read /\ pc' \in [Jobs -> Phases]
        /\ \A i \in Jobs : pc'[i] \in {pc[i], "loading", "record"}
                         /\ (pc'[i] = "loading" => pc[i] = "loading" \/ i = j)
    BY <1>13 DEF RestoreBegin, Goto, TypeOK, Phases
  <2>3. TypeOK'
    BY <1>13, <2>1, <2>2 DEF RestoreBegin, TypeOK
  <2>4. DumpsDated' /\ JobsKnow'
    BY <1>13, <2>2 DEF RestoreBegin, DumpsDated, JobsKnow, Chosen, Restoring
  <2> QED BY <2>3, <2>4
<1>14. ASSUME NEW j \in Jobs, RestoreLoad(j) PROVE TypeInv'
  <2>1. read[j].pick \in Dump
    BY <1>14 DEF RestoreLoad, JobsKnow, Chosen, Restoring
  <2>2. db' \in Database
    BY <1>14, <2>1 DEF RestoreLoad, TypeOK, Database, Dump, Wiped, Whole
  <2>3. read' = read /\ pc' \in [Jobs -> Phases] /\ pc'[j] \in {"loading", "verify"}
        /\ \A i \in Jobs \ {j} : pc'[i] = pc[i]
    BY <1>14 DEF RestoreLoad, Goto, TypeOK, Phases
  <2>4. TypeOK'
    BY <1>14, <2>2, <2>3 DEF RestoreLoad, TypeOK
  <2>5. DumpsDated' /\ JobsKnow'
    BY <1>14, <2>1, <2>3 DEF RestoreLoad, DumpsDated, JobsKnow, Chosen,
        Restoring
  <2> QED BY <2>4, <2>5
<1>15. ASSUME NEW j \in Jobs, RestoreVerify(j) PROVE TypeInv'
  <2>1. CASE Fail(j)
    <3>1. TypeOK'
      BY <1>15, <2>1, FailType DEF RestoreVerify, TypeOK
    <3>2. JobsKnow'
      BY <2>1, FailKnows
    <3>3. DumpsDated'
      BY <1>15 DEF RestoreVerify, DumpsDated
    <3> QED BY <3>1, <3>2, <3>3
  <2>2. CASE ~Fail(j)
    <3> DEFINE r == read[j]
    <3>1. r \in Reading /\ r.ok = FALSE
      BY <1>15, <2>2 DEF RestoreVerify, TypeOK, Reading, JobsKnow
    <3>2. Goto(j, "history", r)
      BY <1>15, <2>2 DEF RestoreVerify
    <3>3. TypeOK'
      BY <1>15, <2>2, <3>1, <3>2, GotoType DEF RestoreVerify, TypeOK, Phases
    <3>4. "history" \in Chosen => r.pick \in Dump
      BY <1>15, <2>2 DEF RestoreVerify, TypeOK, Reading, JobsKnow, Chosen,
          Restoring
    <3>5. JobsKnow'
      BY <3>1, <3>2, <3>4, GotoKnows DEF Phases
    <3>6. DumpsDated'
      BY <1>15 DEF RestoreVerify, DumpsDated
    <3> QED BY <3>3, <3>5, <3>6
  <2> QED BY <2>1, <2>2
<1>16. ASSUME NEW j \in Jobs, RestoreHistory(j) PROVE TypeInv'
  <2>1. Goto(j, "migrate", read[j]) /\ read[j] \in Reading
    BY <1>16 DEF RestoreHistory, TypeOK
  <2>2. hist' \subseteq Others \cup Run
    BY <1>16 DEF RestoreHistory, TypeOK, Reading
  <2>3. TypeOK'
    BY <1>16, <2>1, <2>2, GotoType, BoundsAssumption DEF RestoreHistory,
        TypeOK, Phases
  <2>4. DumpsDated' /\ JobsKnow'
    BY <1>16, <2>1, GotoType DEF RestoreHistory, DumpsDated, JobsKnow, Chosen,
        Restoring, Phases
  <2> QED BY <2>3, <2>4
<1>17. ASSUME NEW j \in Jobs, Migrate(j) PROVE TypeInv'
  <2> DEFINE r == [read[j] EXCEPT !.ok = TRUE]
  <2>1. r \in Reading /\ r.pick \in Dump
    BY <1>17, ZenonT(40) DEF Migrate, TypeOK, Reading, JobsKnow, Chosen, Restoring
  <2>2. Goto(j, "record", r)
    BY <1>17 DEF Migrate
  <2>3. db' \in Database
    <3>1. db' = [rows |-> IF db.rows = Wiped THEN Bare ELSE db.rows, goal |-> db.goal,
                 of |-> db.of, head |-> TRUE]
      BY <1>17 DEF Migrate, TypeOK, Database
    <3> QED BY <3>1 DEF TypeOK, Database, Wiped, Bare, Whole
  <2>4. TypeOK'
    BY <1>17, <2>1, <2>2, <2>3, GotoType DEF Migrate, TypeOK, Phases
  <2>5. JobsKnow'
    BY <2>1, <2>2, GotoKnows DEF Phases, Chosen, Restoring
  <2>6. DumpsDated'
    BY <1>17 DEF Migrate, DumpsDated
  <2> QED BY <2>4, <2>5, <2>6
<1>18. ASSUME NEW j \in Jobs, Record(j) PROVE TypeInv'
  <2>1. Goto(j, "idle", NoRead)
    BY <1>18 DEF Record, Finish
  <2>2. [by |-> j, ok |-> read[j].ok] \in Run
    BY DEF TypeOK, Reading, Run
  <2>3. lock' \in Jobs \cup {None} /\ hist' \subseteq Others \cup Run
    BY <1>18, <2>2 DEF Record, Finish, TypeOK
  <2>4. TypeOK'
    BY <1>18, <2>1, <2>3, NoReadType, GotoType, BoundsAssumption DEF Record,
        TypeOK, Phases
  <2>5. DumpsDated' /\ JobsKnow'
    BY <1>18, <2>1, NoReadType, GotoType DEF Record, DumpsDated, JobsKnow,
        Chosen, Restoring, Phases, NoRead
  <2> QED BY <2>4, <2>5
<1>19. ASSUME NEW b \in Backups, BackupBegin(b) PROVE TypeInv'
  <2> DEFINE d == [at |-> clock, src |-> "stage", rows |-> db.rows, of |-> db.of,
                   head |-> db.head]
  <2>1. d \in Dump
    BY DEF TypeOK, Database, Dump
  <2>2. TypeOK'
    BY <1>19, <2>1 DEF BackupBegin, TypeOK, Writing
  <2>3. DumpsDated' /\ JobsKnow'
    BY <1>19, <2>1 DEF BackupBegin, TypeOK, DumpsDated, JobsKnow, Dump
  <2> QED BY <2>2, <2>3
<1>20. ASSUME NEW b \in Backups, BackupDumped(b) PROVE TypeInv'
    BY <1>20 DEF BackupDumped, TypeOK, DumpsDated, JobsKnow, Writing, store
<1>21. ASSUME NEW b \in Backups, BackupUpload(b) PROVE TypeInv'
    BY <1>21 DEF BackupUpload, TypeOK, DumpsDated, JobsKnow, Writing, NoBackup
<1>22. ASSUME NEW b \in Backups, BackupFails(b) PROVE TypeInv'
    BY <1>22 DEF BackupFails, TypeOK, DumpsDated, JobsKnow, Writing, NoBackup,
        store
<1>23. CASE Crash
  <2>1. TypeOK'
    BY <1>23, NoReadType, BoundsAssumption DEF Crash, TypeOK, Phases, store
  <2>2. DumpsDated' /\ JobsKnow'
    BY <1>23 DEF Crash, DumpsDated, JobsKnow, Chosen, Restoring, NoRead, store
  <2> QED BY <2>1, <2>2
<1>24. CASE ProductionBackup
  <2>1. \A h \in BOOLEAN : [at |-> clock, src |-> "production", rows |-> Whole,
                           of |-> clock, head |-> h] \in Dump
    BY DEF TypeOK, Dump, Wiped, Whole
  <2>2. TypeOK'
    BY <1>24, <2>1 DEF ProductionBackup, TypeOK
  <2>3. DumpsDated' /\ JobsKnow'
    BY <1>24, <2>1 DEF ProductionBackup, TypeOK, DumpsDated, JobsKnow, Dump
  <2> QED BY <2>2, <2>3
<1>25. CASE ProductionExpire
    BY <1>25 DEF ProductionExpire, TypeOK, DumpsDated, JobsKnow
<1>26. CASE OtherRecord
    BY <1>26 DEF OtherRecord, TypeOK, DumpsDated, JobsKnow, store
<1>27. CASE UNCHANGED vars
    BY <1>27 DEF vars, store, TypeOK, DumpsDated, JobsKnow
<1> QED
    BY <1>1, <1>2, <1>3, <1>4, <1>5, <1>6, <1>7, <1>8, <1>9, <1>10, <1>11,
        <1>12, <1>13, <1>14, <1>15, <1>16, <1>17, <1>18, <1>19, <1>20, <1>21,
        <1>22, <1>23, <1>24, <1>25, <1>26, <1>27
    DEF Next, JobStep, Restore

-----------------------------------------------------------------------------
(* The lock                                                                *)

(* Who is at work, who holds the lock.                                     *)
SameWork ==
    /\ \A i \in Jobs : AtWork(i)' <=> AtWork(i)
    /\ lock' = lock /\ timeouts' = timeouts

(* Only the start of a task, its timeout, the end of a job and a crash of  *)
(* the worker change who is at work or who holds the lock.                 *)
LEMMA WorkStep ==
    TypeInv /\ [Next]_vars =>
        SameWork \/ Crash \/ \E j \in Jobs : StartTask(j) \/ Timeout(j) \/ Record(j)
<1> SUFFICES ASSUME TypeInv, [Next]_vars
             PROVE  SameWork \/ Crash \/ \E j \in Jobs : StartTask(j) \/ Timeout(j) \/ Record(j)
    OBVIOUS
<1> USE DEF TypeInv
<1>1. ASSUME NEW j \in Jobs,
             \/ StepFails(j)
             \/ MirrorNewest(j) \/ MirrorSource(j) \/ MirrorDest(j)
             \/ MirrorCopy(j) \/ MirrorPrune(j)
      PROVE  SameWork
  <2>1. AtWork(j) /\ lock' = lock /\ timeouts' = timeouts
    BY <1>1
    DEF StepFails, MirrorNewest, MirrorSource, MirrorDest, MirrorCopy, MirrorPrune, AtWork
  <2>2. pc'[j] # "idle" /\ \A i \in Jobs \ {j} : pc'[i] = pc[i]
    BY <1>1, FailType
    DEF StepFails, MirrorNewest, MirrorSource, MirrorDest, MirrorCopy, MirrorPrune, Goto, TypeOK
  <2> QED BY <2>1, <2>2 DEF SameWork, AtWork
<1>2. ASSUME NEW j \in Jobs,
             \/ RestoreSelect(j) \/ RestoreDownload(j) \/ RestoreSnapshot(j)
             \/ RestoreVerify(j) \/ RestoreHistory(j) \/ Migrate(j)
      PROVE  SameWork
  <2>1. AtWork(j) /\ lock' = lock /\ timeouts' = timeouts
    BY <1>2
    DEF RestoreSelect, RestoreDownload, RestoreSnapshot, RestoreVerify, RestoreHistory, Migrate,
        AtWork
  <2>2. pc'[j] # "idle" /\ \A i \in Jobs \ {j} : pc'[i] = pc[i]
    BY <1>2, FailType
    DEF RestoreSelect, RestoreDownload, RestoreSnapshot, RestoreVerify, RestoreHistory, Migrate,
        Goto, TypeOK
  <2> QED BY <2>1, <2>2 DEF SameWork, AtWork
<1>3. ASSUME NEW j \in Jobs, RestoreWipe(j) \/ RestoreBegin(j) \/ RestoreLoad(j)
      PROVE  SameWork
    BY <1>3 DEF RestoreWipe, RestoreBegin, RestoreLoad, Goto, TypeOK, SameWork,
        AtWork
<1>4. ASSUME NEW b \in Backups,
             BackupBegin(b) \/ BackupDumped(b) \/ BackupUpload(b) \/ BackupFails(b)
      PROVE  SameWork
    BY <1>4 DEF BackupBegin, BackupDumped, BackupUpload, BackupFails, SameWork,
        AtWork
<1>5. CASE ProductionBackup \/ ProductionExpire \/ OtherRecord \/ UNCHANGED vars
    BY <1>5 DEF ProductionBackup, ProductionExpire, OtherRecord, vars,
        SameWork, AtWork
<1> QED
    BY <1>1, <1>2, <1>3, <1>4, <1>5 DEF Next, JobStep, Restore

(* As long as no timeout has come, the lock says who is at work.           *)
LEMMA SoleStep == TypeInv /\ SoleInv /\ [Next]_vars => SoleInv'
<1> SUFFICES ASSUME TypeInv, SoleInv, [Next]_vars, Undisturbed'
             PROVE  \A j \in Jobs : AtWork(j)' <=> lock' = j
    BY DEF SoleInv
<1>1. CASE SameWork
    BY <1>1 DEF SameWork, SoleInv, Undisturbed
<1>2. CASE Crash
    BY <1>2, ActorsAssumption DEF Crash, AtWork
<1>3. ASSUME NEW j \in Jobs, StartTask(j)
      PROVE  \A i \in Jobs : AtWork(i)' <=> lock' = i
  <2>1. \A i \in Jobs : ~AtWork(i)
    BY <1>3, ActorsAssumption DEF StartTask, SoleInv, Undisturbed
  <2> QED BY <1>3, <2>1 DEF StartTask, Begin, Goto, AtWork, TypeInv, TypeOK
<1>4. ASSUME NEW j \in Jobs, Timeout(j) PROVE FALSE
    BY <1>4 DEF Timeout, Undisturbed, TypeInv, TypeOK
<1>5. ASSUME NEW j \in Jobs, Record(j)
      PROVE  \A i \in Jobs : AtWork(i)' <=> lock' = i
  <2>1. \A i \in Jobs : AtWork(i) <=> lock = i
    BY <1>5 DEF Record, SoleInv, Undisturbed
  <2>2. lock = j
    BY <1>5, <2>1 DEF Record, AtWork
  <2> QED BY <1>5, <2>1, <2>2, ActorsAssumption DEF Record, Finish, Goto,
      AtWork, TypeInv, TypeOK
<1> QED
    BY <1>1, <1>2, <1>3, <1>4, <1>5, WorkStep

(* Jobs are many, but not infinitely many.                                 *)
LEMMA AbandonedFinite == IsFiniteSet(Abandoned) /\ Cardinality(Abandoned) \in Nat
    BY ActorsAssumption, FS_Subset, FS_CardinalityType DEF Abandoned

(* Each timeout abandons one thread.                                       *)
LEMMA AbandonedStep == TypeInv /\ AbandonedInv /\ [Next]_vars => AbandonedInv'
<1> SUFFICES ASSUME TypeInv, AbandonedInv, [Next]_vars PROVE AbandonedInv'
    OBVIOUS
<1> USE AbandonedFinite
<1>1. ASSUME Abandoned' \subseteq Abandoned, timeouts' = timeouts PROVE AbandonedInv'
  <2>1. Cardinality(Abandoned') <= Cardinality(Abandoned) /\ IsFiniteSet(Abandoned')
    BY <1>1, FS_Subset
  <2>2. Cardinality(Abandoned') \in Nat
    BY <2>1, FS_CardinalityType
  <2>3. Cardinality(Abandoned) <= timeouts /\ timeouts \in Nat
    BY DEF AbandonedInv, TypeInv, TypeOK
  <2>4. Cardinality(Abandoned') <= timeouts'
    BY <1>1, <2>1, <2>2, <2>3
  <2> QED BY <2>4 DEF AbandonedInv
<1>2. CASE SameWork
    BY <1>1, <1>2 DEF SameWork, Abandoned
<1>3. CASE Crash
    BY <1>1, <1>3 DEF Crash, Abandoned, AtWork
<1>4. ASSUME NEW j \in Jobs, StartTask(j) PROVE AbandonedInv'
  <2>1. \A i \in Jobs \ {j} : pc'[i] = pc[i]
    BY <1>4 DEF StartTask, Begin, Goto, TypeInv, TypeOK
  <2>2. Abandoned' \subseteq Abandoned
    BY <1>4, <2>1, ActorsAssumption DEF StartTask, Abandoned, AtWork
  <2> QED BY <1>1, <1>4, <2>2 DEF StartTask
<1>5. ASSUME NEW j \in Jobs, Timeout(j) PROVE AbandonedInv'
  <2>1. Abandoned' \subseteq Abandoned \cup {j}
    BY <1>5 DEF Timeout, Abandoned, AtWork
  <2>2. /\ IsFiniteSet(Abandoned \cup {j})
        /\ Cardinality(Abandoned \cup {j}) <= Cardinality(Abandoned) + 1
    BY FS_AddElement
  <2>3. Cardinality(Abandoned') <= Cardinality(Abandoned \cup {j})
        /\ Cardinality(Abandoned') \in Nat /\ Cardinality(Abandoned \cup {j}) \in Nat
    BY <2>1, <2>2, FS_Subset, FS_CardinalityType
  <2> QED BY <1>5, <2>2, <2>3 DEF Timeout, AbandonedInv, TypeInv, TypeOK
<1>6. ASSUME NEW j \in Jobs, Record(j) PROVE AbandonedInv'
  <2>1. pc'[j] = "idle" /\ \A i \in Jobs \ {j} : pc'[i] = pc[i]
    BY <1>6 DEF Record, Finish, Goto, TypeInv, TypeOK
  <2>2. Abandoned' \subseteq Abandoned
    BY <1>6, <2>1 DEF Record, Finish, Abandoned, AtWork
  <2> QED BY <1>1, <1>6, <2>2 DEF Record
<1> QED
    BY <1>2, <1>3, <1>4, <1>5, <1>6, WorkStep

(* Undisturbed, the other jobs are idle while one is at work.              *)
LEMMA OthersIdle ==
    ASSUME TypeInv, SoleInv, Undisturbed, NEW j \in Jobs, AtWork(j)
    PROVE  \A i \in Jobs \ {j} : pc[i] = "idle" /\ ~read[i].ok
    BY DEF SoleInv, AtWork, TypeInv, TypeOK, JobsKnow, Reading

-----------------------------------------------------------------------------
(* Kinds of steps                                                          *)

(* A step of somebody else, or a timeout: no job moves, and rows and dumps *)
(* are only added.                                                         *)
Elsewhere ==
    /\ pc' = pc /\ read' = read /\ db' = db /\ faults' = faults
    /\ hist \subseteq hist' /\ local \subseteq local'

(* A job that does not touch the database, or ends with an error.          *)
Prepares(j) ==
    \/ StartTask(j) \/ StepFails(j) \/ Record(j)
    \/ MirrorNewest(j) \/ MirrorSource(j) \/ MirrorDest(j) \/ MirrorCopy(j) \/ MirrorPrune(j)
    \/ RestoreSelect(j) \/ RestoreDownload(j) \/ RestoreSnapshot(j)

Rewrites(j) ==
    \/ RestoreWipe(j) \/ RestoreBegin(j) \/ RestoreLoad(j)
    \/ RestoreVerify(j) \/ RestoreHistory(j) \/ Migrate(j)

(* There are no other steps.                                               *)
LEMMA StepKinds == [Next]_vars => Elsewhere \/ Crash \/ \E j \in Jobs : Prepares(j) \/ Rewrites(j)
<1> SUFFICES ASSUME [Next]_vars
             PROVE  Elsewhere \/ Crash \/ \E j \in Jobs : Prepares(j) \/ Rewrites(j)
    OBVIOUS
<1>1. ASSUME NEW j \in Jobs, StartTask(j) \/ JobStep(j) \/ StepFails(j)
      PROVE  Prepares(j) \/ Rewrites(j)
    BY <1>1 DEF JobStep, Restore, Prepares, Rewrites
<1>2. ASSUME NEW j \in Jobs, Timeout(j) PROVE Elsewhere
    BY <1>2 DEF Timeout, Elsewhere, store
<1>3. ASSUME NEW b \in Backups,
             BackupBegin(b) \/ BackupDumped(b) \/ BackupUpload(b) \/ BackupFails(b)
      PROVE  Elsewhere
    BY <1>3 DEF BackupBegin, BackupDumped, BackupUpload, BackupFails,
        Elsewhere, store
<1>4. CASE ProductionBackup \/ ProductionExpire \/ OtherRecord
    BY <1>4 DEF ProductionBackup, ProductionExpire, OtherRecord, Elsewhere,
        store
<1>5. CASE UNCHANGED vars
    BY <1>5 DEF vars, store, Elsewhere
<1> QED
    BY <1>1, <1>2, <1>3, <1>4, <1>5 DEF Next

(* A timeout that has come stays counted.                                  *)
LEMMA StaysDisturbed == TypeInv /\ [Next]_vars /\ Undisturbed' => Undisturbed
<1> SUFFICES ASSUME TypeInv, [Next]_vars, timeouts' = 0 PROVE timeouts = 0
    BY DEF Undisturbed
<1>1. ASSUME NEW j \in Jobs, Timeout(j) PROVE FALSE
    BY <1>1 DEF Timeout, TypeInv, TypeOK
<1> QED
    BY <1>1, WorkStep DEF SameWork, Crash, StartTask, Record

(* What a preparing job leaves: itself outside the restore, the database   *)
(* as it was.                                                              *)
LEMMA PreparesLeaves ==
    ASSUME TypeInv, NEW j \in Jobs, Prepares(j)
    PROVE  /\ pc'[j] \notin Restoring /\ ~Succeeds(j)' /\ db' = db
           /\ \A i \in Jobs \ {j} : pc'[i] = pc[i]
<1> USE DEF TypeInv
<1>1. CASE StepFails(j)
    BY <1>1, FailType DEF StepFails, Restoring, Succeeds
<1>2. CASE StartTask(j) \/ Record(j)
    BY <1>2 DEF StartTask, Begin, Record, Finish, Goto, TypeOK, Restoring,
        Succeeds
<1>3. CASE MirrorNewest(j) \/ MirrorSource(j) \/ MirrorDest(j)
    BY <1>3, FailType
    DEF MirrorNewest, MirrorSource, MirrorDest, Goto, TypeOK, Restoring, Succeeds, store
<1>4. CASE MirrorCopy(j) \/ MirrorPrune(j)
    BY <1>4, FailType DEF MirrorCopy, MirrorPrune, Goto, TypeOK, Restoring,
        Succeeds
<1>5. CASE RestoreSelect(j) \/ RestoreDownload(j) \/ RestoreSnapshot(j)
    BY <1>5, FailType
    DEF RestoreSelect, RestoreDownload, RestoreSnapshot, Goto, TypeOK, Restoring, Succeeds
<1> QED
    BY <1>1, <1>2, <1>3, <1>4, <1>5 DEF Prepares

(* A job that rewrites the database is at work before and after.           *)
LEMMA RewritesWorks ==
    ASSUME TypeInv, NEW j \in Jobs, Rewrites(j)
    PROVE  AtWork(j) /\ AtWork(j)'
<1> USE DEF TypeInv
<1>1. CASE RestoreWipe(j) \/ RestoreBegin(j) \/ RestoreLoad(j)
    BY <1>1 DEF RestoreWipe, RestoreBegin, RestoreLoad, Goto, TypeOK, AtWork
<1>2. CASE RestoreVerify(j) \/ RestoreHistory(j) \/ Migrate(j)
    BY <1>2, FailType DEF RestoreVerify, RestoreHistory, Migrate, Goto, TypeOK,
        AtWork
<1> QED
    BY <1>1, <1>2 DEF Rewrites

(* Undisturbed, the other jobs are idle after a step of one, too.          *)
LEMMA OthersStayIdle ==
    ASSUME TypeInv, SoleInv, SoleInv', [Next]_vars, Undisturbed', NEW j \in Jobs,
           Prepares(j) \/ Rewrites(j)
    PROVE  \A i \in Jobs \ {j} : pc[i] = "idle" /\ pc'[i] = "idle"
<1>1. Undisturbed
    BY StaysDisturbed
<1>2. CASE AtWork(j)
  <2>1. \A i \in Jobs \ {j} : pc[i] = "idle"
    BY <1>1, <1>2, OthersIdle
  <2>2. CASE Prepares(j)
    BY <2>1, <2>2, PreparesLeaves
  <2>3. CASE Rewrites(j)
    <3>1. AtWork(j)'
      BY <2>3, RewritesWorks
    <3> QED BY <2>1, <3>1 DEF SoleInv, AtWork
  <2> QED BY <2>1, <2>2, <2>3
<1>3. CASE ~AtWork(j)
  <2>1. StartTask(j)
    BY <1>3, RewritesWorks
    DEF Prepares, AtWork, StepFails, Record, MirrorNewest, MirrorSource, MirrorDest, MirrorCopy,
        MirrorPrune, RestoreSelect, RestoreDownload, RestoreSnapshot
  <2>2. \A i \in Jobs : pc[i] = "idle"
    BY <1>1, <2>1, ActorsAssumption DEF StartTask, SoleInv, AtWork
  <2> QED BY <2>1, <2>2 DEF StartTask, Begin, Goto, TypeInv, TypeOK
<1> QED
    BY <1>2, <1>3

-----------------------------------------------------------------------------
(* The restore                                                             *)

(* Outside of a restore nothing is said of the job.                        *)
LEMMA NotRestoring ==
    ASSUME NEW j \in Jobs, pc'[j] \notin Restoring, ~Succeeds(j)'
    PROVE  JobRestores(j)'
    BY DEF JobRestores, Restoring, Past, Succeeds

(* The steps that rewrite the database keep what the job relies on.        *)
LEMMA RewriteKeeps ==
    ASSUME TypeInv, Undisturbed, NEW j \in Jobs, Rewrites(j), JobRestores(j),
           \A i \in Jobs \ {j} : pc[i] = "idle"
    PROVE  JobRestores(j)'
<1> USE DEF TypeInv
<1> DEFINE dump == read[j].pick
<1>1. read[j] \in Reading /\ dump \in Dump /\ ~read[j].ok
    BY DEF Rewrites, RestoreWipe, RestoreBegin, RestoreLoad, RestoreVerify,
        RestoreHistory,
           Migrate, TypeOK, JobsKnow, Chosen, Restoring
<1>2. CASE Fail(j)
    BY <1>2, FailType, NotRestoring DEF Restoring, Succeeds
<1>3. CASE RestoreWipe(j)
  <2>1. pc'[j] = "load" /\ read' = read
    BY <1>3 DEF RestoreWipe, TypeOK
  <2>2. db'.rows = Wiped /\ db'.goal = dump.rows /\ db'.of = dump.of /\ db'.head = dump.head
    BY <1>3 DEF RestoreWipe
  <2> QED BY <2>1, <2>2 DEF JobRestores, Past, Succeeds, Restoring
<1>4. CASE RestoreBegin(j)
  <2>1. db.rows = Wiped
    BY <1>4 DEF RestoreBegin, JobRestores
  <2>2. pc'[j] = "loading" /\ read'[j] = read[j] /\ db' = db
    BY <1>4, <2>1 DEF RestoreBegin, Goto, TypeOK
  <2> QED BY <1>1, <1>4, <2>1, <2>2
          DEF RestoreBegin, JobRestores, Past, Succeeds, Restoring, Dump, Wiped
<1>5. CASE RestoreLoad(j)
  <2>1. db \in Database /\ db.rows <= dump.rows /\ db.goal = dump.rows /\ db.of = dump.of
        /\ db.head = dump.head
    BY <1>5 DEF RestoreLoad, JobRestores, Past, Restoring, TypeOK
  <2>2. CASE db.rows < dump.rows
    <3>1. pc'[j] = "loading" /\ read'[j] = read[j] /\ db'.rows = db.rows + 1
          /\ db'.goal = db.goal /\ db'.of = db.of /\ db'.head = db.head
      BY <1>1, <1>5, <2>1, <2>2 DEF RestoreLoad, Database, Dump, Wiped, Whole
    <3>2. db'.rows <= dump.rows
      BY <1>1, <2>1, <2>2, <3>1 DEF Database, Dump, Wiped, Whole
    <3> QED BY <2>1, <3>1, <3>2 DEF JobRestores, Past, Succeeds, Restoring
  <2>3. CASE db.rows >= dump.rows
    <3>1. db.rows = dump.rows
      BY <1>1, <2>1, <2>3 DEF Database, Dump, Wiped, Whole
    <3>2. pc'[j] = "verify" /\ read'[j] = read[j] /\ db' = db
      BY <1>1, <1>5, <2>1, <3>1 DEF RestoreLoad, Goto, TypeOK, Database, Dump,
          Wiped, Whole
    <3> QED BY <2>1, <3>1, <3>2 DEF JobRestores, Past, Succeeds, Restoring
  <2> QED BY <1>1, <2>1, <2>2, <2>3 DEF Database, Dump, Wiped, Whole
<1>6. CASE RestoreVerify(j) /\ ~Fail(j)
  <2>1. pc'[j] = "history" /\ read'[j] = read[j] /\ db' = db /\ db.rows \notin {Wiped, Bare}
    BY <1>6 DEF RestoreVerify, Goto, TypeOK
  <2>2. db.rows \in {Part, Whole}
    BY <2>1 DEF TypeOK, Database, Wiped, Bare, Part, Whole
  <2> QED BY <1>1, <1>6, <2>1, <2>2 DEF RestoreVerify, JobRestores, Past,
      Succeeds, Restoring
<1>7. CASE RestoreHistory(j)
  <2>1. pc'[j] = "migrate" /\ read'[j] = read[j] /\ db' = db
    BY <1>7 DEF RestoreHistory, Goto, TypeOK
  <2>2. db.rows = dump.rows /\ db.rows \in {Part, Whole} /\ db.goal = dump.rows
        /\ db.of = dump.of /\ db.head = dump.head
    BY <1>7 DEF RestoreHistory, JobRestores, Past, Restoring
  <2>3. ASSUME dump.head, faults' = 0 PROVE read[j].snap \subseteq hist'
    BY <1>7, <2>2, <2>3 DEF RestoreHistory, HasHistory, TypeOK, Wiped, Part,
        Whole
  <2> QED BY <1>1, <2>1, <2>2, <2>3 DEF JobRestores, Past, Succeeds, Restoring
<1>8. CASE Migrate(j)
  <2>1. pc'[j] = "record" /\ read'[j].pick = dump /\ read'[j].snap = read[j].snap
        /\ hist' = hist /\ faults' = faults
    BY <1>1, <1>8 DEF Migrate, Goto, TypeOK, Reading
  <2>2. db.rows = dump.rows /\ db.rows \in {Part, Whole} /\ db.goal = dump.rows
        /\ db.of = dump.of
    BY <1>8 DEF Migrate, JobRestores, Past, Restoring
  <2>3. db'.rows = db.rows /\ db'.goal = db.goal /\ db'.of = db.of /\ db'.head
    BY <1>8, <2>2 DEF Migrate, TypeOK, Database, Wiped, Part, Whole
  <2>4. ASSUME dump.head, faults = 0 PROVE read[j].snap \subseteq hist
    BY <1>8, <2>4 DEF Migrate, JobRestores, Past
  <2> QED BY <2>1, <2>2, <2>3, <2>4 DEF JobRestores, Past, Succeeds, Restoring
<1> QED
    BY <1>2, <1>3, <1>4, <1>5, <1>6, <1>7, <1>8 DEF Rewrites

(* Undisturbed, each job's restore goes on as it relies on.                *)
LEMMA RestoreStep == TypeInv /\ SoleInv /\ SoleInv' /\ RestoreInv /\ [Next]_vars => RestoreInv'
<1> SUFFICES ASSUME TypeInv, SoleInv, SoleInv', RestoreInv, [Next]_vars, Undisturbed',
                    NEW i \in Jobs
             PROVE  JobRestores(i)'
    BY DEF RestoreInv
<1>1. Undisturbed /\ JobRestores(i)
    BY StaysDisturbed DEF RestoreInv
<1>2. CASE Elsewhere
    BY <1>1, <1>2 DEF Elsewhere, JobRestores, Past, Succeeds
<1>3. CASE Crash
    BY <1>3, NotRestoring DEF Crash, Restoring, Succeeds
<1>4. ASSUME NEW j \in Jobs, Prepares(j) \/ Rewrites(j) PROVE JobRestores(i)'
  <2>1. CASE i # j
    BY <1>4, <2>1, OthersStayIdle, NotRestoring DEF Restoring, Succeeds
  <2>2. CASE i = j /\ Prepares(j)
    BY <2>2, PreparesLeaves, NotRestoring
  <2>3. CASE i = j /\ Rewrites(j)
    BY <1>1, <1>4, <2>3, OthersStayIdle, RewriteKeeps
  <2> QED BY <1>4, <2>1, <2>2, <2>3
<1> QED
    BY <1>2, <1>3, <1>4, StepKinds

(* Nothing is half done while nobody restores.                             *)
LEMMA RestStep ==
    TypeInv /\ SoleInv /\ SoleInv' /\ RestoreInv /\ RestoreInv' /\ RestInv /\ [Next]_vars
        => RestInv'
<1> SUFFICES ASSUME TypeInv, SoleInv, SoleInv', RestoreInv, RestoreInv', RestInv, [Next]_vars,
                    Undisturbed', faults' = 0, \A i \in Jobs : pc'[i] \notin Restoring
             PROVE  DbAtRest'
    BY DEF RestInv
<1>1. Undisturbed
    BY StaysDisturbed
<1>2. CASE Elsewhere
    BY <1>1, <1>2 DEF Elsewhere, RestInv, DbAtRest
<1>3. CASE Crash
    BY <1>3 DEF Crash, TypeInv, TypeOK
<1>4. ASSUME NEW j \in Jobs, Prepares(j) PROVE DbAtRest'
  <2>1. ~StepFails(j) /\ faults = 0
    BY <1>4
    DEF Prepares, StepFails, StartTask, Record, MirrorNewest, MirrorSource, MirrorDest,
        MirrorCopy, MirrorPrune, RestoreSelect, RestoreDownload, RestoreSnapshot, TypeInv, TypeOK
  <2>2. pc[j] \notin Restoring
    BY <1>4, <2>1
    DEF Prepares, StartTask, Record, MirrorNewest, MirrorSource, MirrorDest, MirrorCopy,
        MirrorPrune, RestoreSelect, RestoreDownload, RestoreSnapshot, Restoring
  <2>3. \A i \in Jobs : pc[i] \notin Restoring
    BY <1>4, <2>2, OthersStayIdle DEF Restoring
  <2> QED BY <1>1, <1>4, <2>1, <2>3, PreparesLeaves DEF RestInv, DbAtRest
<1>5. ASSUME NEW j \in Jobs, Rewrites(j) PROVE DbAtRest'
  <2>1. JobRestores(j) /\ JobRestores(j)'
    BY <1>1 DEF RestoreInv
  <2>2. CASE RestoreVerify(j)
    <3>1. db.rows = db.goal
      BY <2>1, <2>2 DEF RestoreVerify, JobRestores, Past, Restoring
    <3>2. pc'[j] # "history"
      BY DEF Restoring
    <3>3. db.rows \in {Wiped, Bare} /\ db' = db
      BY <2>2, <3>2 DEF RestoreVerify, Goto, TypeInv, TypeOK
    <3> QED BY <3>1, <3>3 DEF DbAtRest
  <2>3. CASE Migrate(j)
    <3>1. Succeeds(j)'
      BY <2>3 DEF Migrate, Goto, Succeeds, TypeInv, TypeOK, Reading
    <3> QED BY <2>1, <3>1 DEF JobRestores, Past, DbAtRest
  <2>4. CASE RestoreWipe(j) \/ RestoreLoad(j) \/ RestoreHistory(j)
    BY <2>4 DEF RestoreWipe, RestoreLoad, RestoreHistory, Goto, Restoring,
        TypeInv, TypeOK
  <2>5. CASE RestoreBegin(j)
    BY <2>1, <2>5 DEF RestoreBegin, JobRestores, Goto, Restoring, TypeInv,
        TypeOK
  <2> QED BY <1>5, <2>2, <2>3, <2>4, <2>5 DEF Rewrites
<1> QED
    BY <1>2, <1>3, <1>4, <1>5, StepKinds

-----------------------------------------------------------------------------
(* The mirror                                                              *)

(* Before the copy, and after a failure, nothing is said of the mirror.    *)
LEMMA NotMirroring ==
    ASSUME NEW j \in Jobs, pc'[j] \notin {"copy", "select"} \cup Chosen
    PROVE  JobMirrors(j)'
    BY DEF JobMirrors

(* The job's own steps keep what the mirror knows.                         *)
LEMMA MirrorKeeps ==
    ASSUME TypeInv, NEW j \in Jobs, Prepares(j) \/ Rewrites(j), JobMirrors(j)
    PROVE  JobMirrors(j)'
<1> USE DEF TypeInv
<1>1. CASE Fail(j)
    BY <1>1, FailType, NotMirroring DEF Chosen, Restoring
<1>2. CASE StartTask(j) \/ StepFails(j) \/ Record(j)
  <2>1. CASE StepFails(j)
    BY <1>1, <2>1 DEF StepFails
  <2>2. CASE StartTask(j) \/ Record(j)
    BY <2>2, NotMirroring
    DEF StartTask, Begin, Record, Finish, Goto, TypeOK, Chosen, Restoring
  <2> QED BY <1>2, <2>1, <2>2
<1>3. CASE MirrorNewest(j) \/ MirrorSource(j)
  <2>1. pc'[j] \in {"record", "source", "dest"}
    BY <1>3, FailType DEF MirrorNewest, MirrorSource, Goto, TypeOK
  <2> QED BY <2>1, NotMirroring DEF Chosen, Restoring
<1>4. CASE MirrorDest(j) /\ ~Fail(j)
  <2> DEFINE src == read[j].src
             dest == InScope(j, local)
  <2>1. read[j] \in Reading
    BY DEF TypeOK
  <2>2. pc'[j] = "copy" /\ local' = local /\ read'[j].src = src /\ read'[j].todo = src \ dest
        /\ read'[j].gone = dest \ src
    <3>1. Goto(j, "copy", [read[j] EXCEPT !.todo = src \ dest, !.gone = dest \ src])
          /\ local' = local
      BY <1>4 DEF MirrorDest, store
    <3> QED BY <2>1, <3>1 DEF Goto, TypeOK, Reading
  <2>3. dest \subseteq local
    BY DEF InScope
  <2> QED BY <2>2, <2>3 DEF JobMirrors, Chosen, Restoring
<1>5. CASE MirrorCopy(j)
  <2> DEFINE d == Oldest(read[j].todo)
  <2>1. read[j] \in Reading
    BY DEF TypeOK
  <2>2. pc'[j] = "copy" /\ read'[j].src = read[j].src /\ read'[j].gone = read[j].gone
        /\ read'[j].todo = read[j].todo \ {d} /\ local \subseteq local'
        /\ (~read'[j].errors => ~read[j].errors /\ d \in local')
    <3> DEFINE rest == [read[j] EXCEPT !.todo = @ \ {d}]
               bad  == [rest EXCEPT !.errors = TRUE]
    <3>1. /\ rest \in Reading /\ rest.src = read[j].src /\ rest.gone = read[j].gone
          /\ rest.todo = read[j].todo \ {d} /\ rest.errors = read[j].errors
      BY <2>1, OldestIn DEF Reading
    <3>2. /\ bad.src = read[j].src /\ bad.gone = read[j].gone
          /\ bad.todo = read[j].todo \ {d} /\ bad.errors
      BY <2>1 DEF Reading
    <3>3. CASE Goto(j, "copy", rest) /\ local' = local \cup {d}
      BY <3>1, <3>3 DEF Goto, TypeOK
    <3>4. CASE Goto(j, "copy", bad) /\ local' = local
      BY <3>2, <3>4 DEF Goto, TypeOK
    <3> QED BY <1>5, <3>3, <3>4 DEF MirrorCopy
  <2>3. read[j].gone \cap read[j].src = {}
        /\ (~read[j].errors => read[j].src \ read[j].todo \subseteq local)
    BY <1>5 DEF MirrorCopy, JobMirrors
  <2> QED BY <2>2, <2>3 DEF JobMirrors, Chosen, Restoring
<1>6. CASE MirrorPrune(j) /\ ~Fail(j)
  <2>1. pc'[j] = "select" /\ read'[j] = read[j] /\ ~read[j].errors /\ read[j].todo = {}
        /\ local' = local \ read[j].gone
    BY <1>6 DEF MirrorPrune, Goto, TypeOK
  <2>2. read[j].gone \cap read[j].src = {} /\ read[j].src \subseteq local
    BY <1>6, <2>1 DEF MirrorPrune, JobMirrors
  <2> QED BY <2>1, <2>2 DEF JobMirrors, Chosen, Restoring
<1>7. CASE RestoreSelect(j) /\ ~Fail(j)
  <2>1. read[j] \in Reading /\ local \in SUBSET Dump /\ clock \in Nat
        /\ \A d \in local : d.at < clock
    BY DEF TypeOK, DumpsDated
  <2>2. local # {} /\ pc'[j] = "download" /\ read'[j].src = read[j].src
        /\ read'[j].pick = Latest(local)
    BY <1>7, <2>1 DEF RestoreSelect, Goto, TypeOK, Reading
  <2>3. \A d \in local : d.at <= Latest(local).at
    BY <2>1, <2>2, LatestIn
  <2>4. read[j].src \subseteq local
    BY <1>7 DEF RestoreSelect, JobMirrors
  <2> QED BY <2>2, <2>3, <2>4 DEF JobMirrors
<1>8. CASE (RestoreDownload(j) \/ RestoreSnapshot(j) \/ Rewrites(j)) /\ ~Fail(j)
  <2>1. pc[j] \in Chosen
    BY <1>8 DEF RestoreDownload, RestoreSnapshot, Rewrites, RestoreWipe,
        RestoreBegin,
                RestoreLoad, RestoreVerify, RestoreHistory, Migrate, Chosen, Restoring
  <2>2. read'[j].src = read[j].src /\ read'[j].pick = read[j].pick
        /\ pc'[j] \notin {"copy", "select"}
    <3>1. CASE RestoreDownload(j) \/ RestoreSnapshot(j)
      BY <1>8, <3>1 DEF RestoreDownload, RestoreSnapshot, Goto, TypeOK, Reading
    <3>2. CASE RestoreWipe(j) \/ RestoreBegin(j) \/ RestoreLoad(j)
      BY <3>2 DEF RestoreWipe, RestoreBegin, RestoreLoad, Goto, TypeOK
    <3>3. CASE RestoreVerify(j) \/ RestoreHistory(j) \/ Migrate(j)
      BY <1>8, <3>3 DEF RestoreVerify, RestoreHistory, Migrate, Goto, TypeOK,
          Reading
    <3> QED BY <1>8, <3>1, <3>2, <3>3 DEF Rewrites
  <2> QED BY <2>1, <2>2 DEF JobMirrors
<1> QED
    BY <1>1, <1>2, <1>3, <1>4, <1>5, <1>6, <1>7, <1>8 DEF Prepares

(* Undisturbed, no one takes from the mirror what a job relies on.         *)
LEMMA MirrorStep == TypeInv /\ SoleInv /\ SoleInv' /\ MirrorInv /\ [Next]_vars => MirrorInv'
<1> SUFFICES ASSUME TypeInv, SoleInv, SoleInv', MirrorInv, [Next]_vars, Undisturbed',
                    NEW i \in Jobs
             PROVE  JobMirrors(i)'
    BY DEF MirrorInv
<1>1. JobMirrors(i)
    BY StaysDisturbed DEF MirrorInv
<1>2. CASE Elsewhere
    BY <1>1, <1>2 DEF Elsewhere, JobMirrors
<1>3. CASE Crash
    BY <1>3, NotMirroring DEF Crash, Chosen, Restoring
<1>4. ASSUME NEW j \in Jobs, Prepares(j) \/ Rewrites(j) PROVE JobMirrors(i)'
  <2>1. CASE i # j
    BY <1>4, <2>1, OthersStayIdle, NotMirroring DEF Chosen, Restoring
  <2>2. CASE i = j
    BY <1>1, <1>4, <2>2, MirrorKeeps
  <2> QED BY <2>1, <2>2
<1> QED
    BY <1>2, <1>3, <1>4, StepKinds

-----------------------------------------------------------------------------
(* What the specification implies                                          *)

Invariant ==
    TypeInv /\ SoleInv /\ AbandonedInv /\ RestoreInv /\ RestInv /\ MirrorInv

(* The invariant holds in a stage just set up, and every step keeps it.    *)
LEMMA InitInvariant == Init => Invariant
<1> SUFFICES ASSUME Init PROVE Invariant
    OBVIOUS
<1>1. SoleInv
    BY ActorsAssumption DEF Init, SoleInv, AtWork
<1>2. AbandonedInv
  <2>1. Abandoned = {}
    BY DEF Init, Abandoned, AtWork
  <2> QED BY <2>1, FS_EmptySet DEF Init, AbandonedInv
<1>3. RestoreInv /\ RestInv /\ MirrorInv
    BY DEF Init, RestoreInv, JobRestores, Past, Succeeds, Restoring, RestInv,
        DbAtRest, MirrorInv,
           JobMirrors, Chosen
<1> QED
    BY <1>1, <1>2, <1>3, InitType DEF Invariant

(* Each conjunct's step, together.                                         *)
LEMMA NextInvariant == Invariant /\ [Next]_vars => Invariant'
    BY TypeStep, SoleStep, AbandonedStep, RestoreStep, RestStep, MirrorStep DEF
        Invariant

(* So it always holds.                                                     *)
LEMMA InvariantHolds == Spec => []Invariant
    BY InitInvariant, NextInvariant, PTL DEF Spec

(* Every variable keeps its type (all of Maintenance's actions).           *)
THEOREM TypeCorrect == Spec => []TypeOK
<1>1. Invariant => TypeOK
    BY DEF Invariant, TypeInv
<1> QED
    BY <1>1, InvariantHolds, PTL

(* The maintenance lock bounds the jobs at work by the timeouts that have  *)
(* freed it early, plus one (worker.py, _run_exclusively).                 *)
THEOREM LockKeepsJobsApart == Spec => []OneJobPerTimeout
<1>1. ASSUME Invariant PROVE OneJobPerTimeout
  <2> DEFINE W == {j \in Jobs : AtWork(j)}
  <2>1. W \subseteq Abandoned \cup {lock}
    BY DEF Abandoned
  <2>2. /\ IsFiniteSet(Abandoned \cup {lock})
        /\ Cardinality(Abandoned \cup {lock}) <= Cardinality(Abandoned) + 1
    BY AbandonedFinite, FS_AddElement
  <2>3. Cardinality(W) <= Cardinality(Abandoned \cup {lock}) /\ IsFiniteSet(W)
    BY <2>1, <2>2, FS_Subset
  <2>4. Cardinality(W) \in Nat /\ Cardinality(Abandoned \cup {lock}) \in Nat
    BY <2>2, <2>3, FS_CardinalityType
  <2>5. Cardinality(Abandoned) <= timeouts /\ timeouts \in Nat
    BY <1>1 DEF Invariant, AbandonedInv, TypeInv, TypeOK
  <2>6. Cardinality(W) <= 1 + timeouts
    BY <2>2, <2>3, <2>4, <2>5, AbandonedFinite
  <2> QED BY <2>6 DEF OneJobPerTimeout
<1> QED
    BY <1>1, InvariantHolds, PTL

(* A downsync that reports success has restored its dump (job_downsync).   *)
THEOREM SuccessRestores == Spec => []SuccessMeansRestored
<1>1. Invariant => SuccessMeansRestored
    BY DEF Invariant, RestoreInv, JobRestores, Past, Succeeds,
        SuccessMeansRestored
<1> QED
    BY <1>1, InvariantHolds, PTL

(* Without failing steps the stage is never left half restored             *)
(* (run_restore and job_downsync).                                         *)
THEOREM RestIsWhole == Spec => []RestWithWholeDump
<1>1. Invariant => RestWithWholeDump
    BY DEF Invariant, RestInv, DbAtRest, AtRest, AtWork, Restoring,
        RestWithWholeDump
<1> QED
    BY <1>1, InvariantHolds, PTL

(* The dump restored is as new as everything the mirror saw in production  *)
(* (mirror_prefix and latest_backup_key).                                  *)
THEOREM RestoresNewest == Spec => []NothingOlderThanMirrored
<1>1. Invariant => NothingOlderThanMirrored
    BY DEF Invariant, MirrorInv, JobMirrors, Chosen, NothingOlderThanMirrored
<1> QED
    BY <1>1, InvariantHolds, PTL

(* The history saved by a job that succeeds is back when it ends           *)
(* (_restore_local_job_history).                                           *)
THEOREM HistoryReturns == Spec => []SavedHistoryIsBack
<1>1. Invariant => SavedHistoryIsBack
    BY DEF Invariant, RestoreInv, JobRestores, Past, Succeeds,
        SavedHistoryIsBack
<1> QED
    BY <1>1, InvariantHolds, PTL

-----------------------------------------------------------------------------
(***************************************************************************)
(* The migrations: what each run is doing, and typing.                     *)
(***************************************************************************)
(* A run that has read a revision and not yet ended.                       *)
Active(r) == run[r].pc \notin {"idle", "waiting"}
Before(r) == IF run[r].up THEN run[r].at < run[r].goal ELSE run[r].goal < run[r].at

(* What a run is doing, by itself: it is before its goal while in a block, *)
(* and has left something half done as soon as a block follows a change.   *)
ShapeOK(r) ==
  /\ run[r].half => Active(r)
  /\ run[r].pc \in {"block", "building"} =>
       /\ Before(r) /\ Block(r) # <<>> /\ 1 <= run[r].k
       /\ run[r].half \/ Change(r) = Nothing
  /\ run[r].pc = "building" => run[r].half /\ run[r].k <= Len(Block(r)) /\ Statement(r).op = "create"

(* In its transaction: uncommitted work leads from the committed revision  *)
(* towards the goal; without any, the run is before its goal.              *)
StepsOK(r) ==
  run[r].pc = "steps" =>
    IF dirty = r
    THEN /\ run[r].at = work.version
         /\ IF run[r].up THEN version < run[r].at /\ run[r].at <= run[r].goal
                         ELSE run[r].at < version /\ run[r].goal <= run[r].at
    ELSE Before(r) /\ ~run[r].half

RunInv == \A r \in Runs : ShapeOK(r) /\ StepsOK(r)
TypedRuns == MigrationsTypeOK /\ RunInv

-----------------------------------------------------------------------------
RunRec == [pc : {"idle", "waiting", "steps", "block", "building"}, up : BOOLEAN,
           goal : 0..Newest, at : 0..Newest, k : Nat, half : BOOLEAN]

(* The list of a migration's statements: as long as it is numbered.        *)
LEMMA BlockLength ==
    ASSUME NEW v \in 1..Newest, NEW b \in {Chain[v].online, Chain[v].offline}
    PROVE  Len(b) \in Nat /\ DOMAIN b = 1..Len(b) /\ (b # <<>> => Len(b) >= 1)
<1>1. PICK S : b \in Seq(S)
    BY ChainAssumption DEF Listed
<1> QED BY <1>1

(* A run in a block, or before its goal, is at a migration of the chain.   *)
LEMMA AtMigration ==
    ASSUME MigrationsTypeOK, NEW r \in Runs, Before(r)
    PROVE  /\ run[r] \in RunRec
           /\ run[r].up => run[r].at + 1 \in 1..Newest
           /\ ~run[r].up => run[r].at \in 1..Newest
           /\ Onward(r) \in 0..Newest
           /\ Len(Block(r)) \in Nat /\ DOMAIN Block(r) = 1..Len(Block(r))
           /\ Block(r) # <<>> => Len(Block(r)) >= 1
<1>1. run[r] \in RunRec
    BY DEF MigrationsTypeOK, RunRec
<1>2. Newest \in Nat
    BY ChainAssumption
<1>3. run[r].up => run[r].at + 1 \in 1..Newest
    BY <1>1, <1>2 DEF Before, RunRec
<1>4. ~run[r].up => run[r].at \in 1..Newest
    BY <1>1, <1>2 DEF Before, RunRec
<1>5. Onward(r) \in 0..Newest
    BY <1>1, <1>2, <1>3, <1>4 DEF Onward, RunRec
<1>6. \E v \in 1..Newest : Block(r) \in {Chain[v].online, Chain[v].offline}
    BY <1>1, <1>3, <1>4 DEF Block, RunRec
<1> QED BY <1>1, <1>3, <1>4, <1>5, <1>6, BlockLength

LEMMA StartTyped == MigrationsInit => TypedRuns
<1>1. Newest \in Nat
    BY ChainAssumption
<1>2. Idle \in RunRec
    BY <1>1 DEF Idle, RunRec
<1> SUFFICES ASSUME MigrationsInit PROVE TypedRuns
    OBVIOUS
<1>3. \A r \in Runs : run[r] = Idle
    BY DEF MigrationsInit
<1>4. MigrationsTypeOK
  <2>1. run \in [Runs -> RunRec]
    BY <1>2 DEF MigrationsInit
  <2>2. version \in 0..Newest
    BY <1>1, GrownAssumption DEF MigrationsInit
  <2>3. work.version \in 0..Newest
    BY <1>1 DEF MigrationsInit, NoWork
  <2>4. trouble \in 0..MaxTrouble
    BY RunsAssumption DEF MigrationsInit
  <2> QED BY <2>1, <2>2, <2>3, <2>4 DEF MigrationsInit, MigrationsTypeOK, RunRec
<1>5. RunInv
    BY <1>3 DEF RunInv, ShapeOK, StepsOK, Active, Idle
<1> QED BY <1>4, <1>5 DEF TypedRuns

LEMMA IdleTyped == Idle \in RunRec /\ Idle.pc = "idle" /\ Idle.half = FALSE
<1>1. Newest \in Nat
    BY ChainAssumption
<1> QED BY <1>1 DEF Idle, RunRec

(* One run moves: what the others are doing stays as it is.                *)
LEMMA OneMoves ==
    ASSUME MigrationsTypeOK, RunInv, NEW p \in Runs, NEW to \in RunRec,
           run' = [run EXCEPT ![p] = to]
    PROVE  /\ run' \in [Runs -> RunRec] /\ run'[p] = to
           /\ \A q \in Runs \ {p} : run'[q] = run[q] /\ ShapeOK(q)'
<1>1. run \in [Runs -> RunRec]
    BY DEF MigrationsTypeOK, RunRec
<1>2. run' \in [Runs -> RunRec] /\ run'[p] = to
    BY <1>1
<1>3. \A q \in Runs \ {p} : run'[q] = run[q]
    BY <1>1
<1>4. ASSUME NEW q \in Runs \ {p} PROVE ShapeOK(q)'
    BY <1>3 DEF RunInv, ShapeOK, Active, Before, Block, Change, Statement
<1> QED BY <1>2, <1>3, <1>4

(* ... nor does their uncommitted work, unless it is touched.              *)
LEMMA OthersSteps ==
    ASSUME RunInv, NEW p \in Runs, NEW q \in Runs \ {p}, run'[q] = run[q],
           dirty' = q <=> dirty = q,
           dirty = q => work' = work /\ version' = version
    PROVE  StepsOK(q)'
BY DEF RunInv, StepsOK, Before

(* What it takes to keep TypedRuns.                                        *)
LEMMA KeepsRuns ==
    ASSUME TypedRuns, NEW p \in Runs, NEW to \in RunRec,
           run' = [run EXCEPT ![p] = to],
           ShapeOK(p)', StepsOK(p)',
           \A q \in Runs \ {p} : /\ dirty' = q <=> dirty = q
                                 /\ dirty = q => work' = work /\ version' = version,
           \A q \in Runs \ {p} : advisory' = q => advisory = q,
           dirty' \in Runs \cup {Nobody}, advisory' \in Runs \cup {Nobody},
           dirty' = p => to.pc = "steps", advisory' = p => to.pc = "steps",
           version' \in 0..Newest, work'.version \in 0..Newest,
           spoilt' \in BOOLEAN, trouble' \in 0..MaxTrouble
    PROVE  TypedRuns'
<1>1. /\ run' \in [Runs -> RunRec] /\ run'[p] = to
      /\ \A q \in Runs \ {p} : run'[q] = run[q] /\ ShapeOK(q)'
    BY OneMoves DEF TypedRuns
<1>2. \A q \in Runs \ {p} : StepsOK(q)'
    BY <1>1, OthersSteps DEF TypedRuns
<1>3. RunInv'
    BY <1>1, <1>2 DEF RunInv
<1>4. dirty' # Nobody => run'[dirty'].pc = "steps"
    BY <1>1 DEF TypedRuns, MigrationsTypeOK
<1>5. advisory' # Nobody => run'[advisory'].pc = "steps"
    BY <1>1 DEF TypedRuns, MigrationsTypeOK
<1>6. MigrationsTypeOK'
    BY <1>1, <1>4, <1>5 DEF MigrationsTypeOK, RunRec
<1> QED BY <1>3, <1>6 DEF TypedRuns

LEMMA TroubleCounts ==
    ASSUME MigrationsTypeOK, trouble < MaxTrouble
    PROVE  trouble + 1 \in 0..MaxTrouble
BY RunsAssumption DEF MigrationsTypeOK

(* A run begins to wait for the lock.                                      *)
LEMMA BeginTyped ==
    ASSUME TypedRuns, NEW r \in Runs, run[r].pc = "idle",
           NEW to \in RunRec, to.pc = "waiting", to.half = FALSE,
           run' = [run EXCEPT ![r] = to], trouble' \in 0..MaxTrouble,
           UNCHANGED <<schema, version, advisory, dirty, work, spoilt>>
    PROVE  TypedRuns'
<1>1. dirty # r /\ advisory # r
    BY RunsAssumption DEF TypedRuns, MigrationsTypeOK
<1>2. run'[r] = to
    BY DEF TypedRuns, MigrationsTypeOK
<1>3. ShapeOK(r)' /\ StepsOK(r)'
    BY <1>2 DEF ShapeOK, StepsOK
<1> QED BY <1>1, <1>3, KeepsRuns DEF TypedRuns, MigrationsTypeOK

LEMMA UpgradeTyped ==
    ASSUME TypedRuns, NEW r \in Runs, NEW h \in Images, Upgrade(r, h)
    PROVE  TypedRuns'
<1> DEFINE to == [Idle EXCEPT !.pc = "waiting", !.goal = h]
<1>1. h \in 0..Newest
    BY RunsAssumption
<1>2. to \in RunRec /\ to.pc = "waiting" /\ to.half = FALSE
    BY <1>1, IdleTyped DEF RunRec
<1>3. trouble' \in 0..MaxTrouble
    BY TroubleCounts DEF Upgrade, TypedRuns, MigrationsTypeOK
<1> QED BY <1>1, <1>2, <1>3, BeginTyped DEF Upgrade

LEMMA DowngradeTyped ==
    ASSUME TypedRuns, NEW r \in Runs, NEW g \in Goals, Downgrade(r, g)
    PROVE  TypedRuns'
<1> DEFINE to == [Idle EXCEPT !.pc = "waiting", !.up = FALSE, !.goal = g]
<1>1. g \in 0..Newest
    BY RunsAssumption
<1>2. to \in RunRec /\ to.pc = "waiting" /\ to.half = FALSE
    BY <1>1, IdleTyped DEF RunRec
<1>3. trouble' \in 0..MaxTrouble
    BY TroubleCounts DEF Downgrade, TypedRuns, MigrationsTypeOK
<1> QED BY <1>1, <1>2, <1>3, BeginTyped DEF Downgrade

LEMMA TakeLockTyped ==
    ASSUME TypedRuns, NEW r \in Runs, TakeLock(r)
    PROVE  TypedRuns'
<1> DEFINE due == IF run[r].up THEN version < run[r].goal ELSE version > run[r].goal
           to  == IF due THEN [run[r] EXCEPT !.pc = "steps", !.at = version] ELSE Idle
<1>1. run[r] \in RunRec /\ version \in 0..Newest /\ run[r].pc = "waiting"
    BY DEF TakeLock, TypedRuns, MigrationsTypeOK, RunRec
<1>2. ~run[r].half
    BY <1>1 DEF TypedRuns, RunInv, ShapeOK, Active
<1>3. to \in RunRec /\ (to.pc = IF due THEN "steps" ELSE "idle") /\ to.half = FALSE
  <2>1. CASE due
    BY <1>1, <1>2, <2>1 DEF RunRec
  <2>2. CASE ~due
    BY <2>2, IdleTyped DEF Idle
  <2> QED BY <2>1, <2>2
<1>4. dirty # r /\ dirty \in Runs \cup {Nobody}
    BY <1>1, RunsAssumption DEF TypedRuns, MigrationsTypeOK
<1>5. run' = [run EXCEPT ![r] = to] /\ run'[r] = to
    BY DEF TakeLock, TypedRuns, MigrationsTypeOK
<1>6. ShapeOK(r)'
  <2> HIDE DEF to, due
  <2> QED BY <1>3, <1>5 DEF ShapeOK
<1>7. StepsOK(r)'
  <2>1. dirty' # r
    BY <1>4 DEF TakeLock
  <2>2. CASE due
    <3>1. to.up = run[r].up /\ to.goal = run[r].goal /\ to.at = version
      BY <1>1, <2>2 DEF RunRec
    <3> QED BY <2>1, <2>2, <3>1, <1>1, <1>3, <1>5 DEF StepsOK, Before, RunRec
  <2>3. CASE ~due
    BY <2>3, <1>3, <1>5 DEF StepsOK
  <2> QED BY <2>2, <2>3
<1>8. /\ advisory' = r => to.pc = "steps"
      /\ advisory' \in Runs \cup {Nobody}
      /\ \A q \in Runs \ {r} : advisory' # q
    BY <1>3, RunsAssumption DEF TakeLock
<1> HIDE DEF to, due
<1> QED BY <1>3, <1>4, <1>5, <1>6, <1>7, <1>8, KeepsRuns DEF TakeLock, TypedRuns, MigrationsTypeOK

(* Whatever ends a run, nothing of it stays.                               *)
LEMMA AbortTyped ==
    ASSUME TypedRuns, NEW r \in Runs, Abort(r), trouble' \in 0..MaxTrouble
    PROVE  TypedRuns'
<1>1. run' = [run EXCEPT ![r] = Idle] /\ run'[r] = Idle
    BY DEF Abort, TypedRuns, MigrationsTypeOK
<1>2. ShapeOK(r)' /\ StepsOK(r)'
    BY <1>1, IdleTyped DEF ShapeOK, StepsOK
<1>3. /\ \A q \in Runs \ {r} : /\ dirty' = q <=> dirty = q
                               /\ dirty = q => work' = work /\ version' = version
      /\ dirty' \in Runs \cup {Nobody} /\ dirty' # r
    BY RunsAssumption DEF Abort, TypedRuns, MigrationsTypeOK
<1>4. /\ \A q \in Runs \ {r} : advisory' = q => advisory = q
      /\ advisory' \in Runs \cup {Nobody} /\ advisory' # r
    BY RunsAssumption DEF Abort, GiveBack, TypedRuns, MigrationsTypeOK
<1>5. version' \in 0..Newest /\ spoilt' \in BOOLEAN
    BY DEF Abort, TypedRuns, MigrationsTypeOK
<1>6. work'.version \in 0..Newest
  <2>1. 0 \in 0..Newest
    BY ChainAssumption
  <2> QED BY <2>1 DEF Abort, NoWork, TypedRuns, MigrationsTypeOK
<1> QED BY <1>1, <1>2, <1>3, <1>4, <1>5, <1>6, IdleTyped, KeepsRuns

(* A run that may make a step is before its goal, and its revision is the  *)
(* one it sees.                                                            *)
LEMMA DueRun ==
    ASSUME TypedRuns, NEW r \in Runs, Due(r)
    PROVE  /\ run[r].pc = "steps" /\ Before(r) /\ run[r] \in RunRec
           /\ dirty \in {r, Nobody} /\ r # Nobody
           /\ dirty = r => run[r].at = Mine(r).version
           /\ Mine(r).version \in 0..Newest
           /\ dirty = r => IF run[r].up THEN version < run[r].at ELSE run[r].at < version
           /\ dirty # r => ~run[r].half
<1>1. run[r] \in RunRec /\ run[r].pc = "steps" /\ dirty \in {r, Nobody} /\ r # Nobody
    BY RunsAssumption DEF Due, Free, TypedRuns, MigrationsTypeOK, RunRec
<1>2. StepsOK(r)
    BY DEF TypedRuns, RunInv
<1>3. Mine(r).version \in 0..Newest
    BY DEF Mine, TypedRuns, MigrationsTypeOK
<1>4. run[r].at \in Int /\ run[r].goal \in Int /\ run[r].at # run[r].goal
    BY <1>1 DEF Due, RunRec
<1>5. dirty = r => run[r].at = Mine(r).version
    BY <1>1, <1>2 DEF StepsOK, Mine
<1>6. Before(r)
    BY <1>1, <1>2, <1>4 DEF StepsOK, Before
<1> QED BY <1>1, <1>2, <1>3, <1>5, <1>6 DEF StepsOK

LEMMA StepTyped ==
    ASSUME TypedRuns, NEW r \in Runs, Step(r)
    PROVE  TypedRuns'
<1> DEFINE to == [run[r] EXCEPT !.at = Onward(r)]
<1>1. /\ run[r].pc = "steps" /\ Before(r) /\ run[r] \in RunRec
      /\ dirty \in {r, Nobody} /\ r # Nobody
      /\ dirty = r => IF run[r].up THEN version < run[r].at ELSE run[r].at < version
    BY DueRun DEF Step
<1>2. Onward(r) \in 0..Newest
    BY <1>1, AtMigration DEF TypedRuns
<1>3. /\ to \in RunRec /\ to.pc = "steps" /\ to.at = Onward(r)
      /\ to.up = run[r].up /\ to.goal = run[r].goal
    BY <1>1, <1>2 DEF RunRec
<1>4. run' = [run EXCEPT ![r] = to] /\ run'[r] = to
    BY DEF Step, TypedRuns, MigrationsTypeOK
<1>5. /\ dirty' = r /\ work'.version = Onward(r) /\ version' = version
      /\ UNCHANGED <<advisory, spoilt, trouble>> /\ Mine(r).version = run[r].at
    BY DEF Step
<1>6. version \in Int /\ run[r].at \in Int /\ run[r].goal \in Int
    BY <1>1 DEF TypedRuns, MigrationsTypeOK, RunRec
<1>7. IF run[r].up THEN version < Onward(r) /\ Onward(r) <= run[r].goal
                   ELSE Onward(r) < version /\ run[r].goal <= Onward(r)
  <2>1. dirty # r => version = run[r].at
    BY <1>5 DEF Mine
  <2> QED BY <1>1, <1>6, <2>1 DEF Onward, Before
<1> HIDE DEF to
<1>8. ShapeOK(r)'
    BY <1>3, <1>4 DEF ShapeOK, Active
<1>9. StepsOK(r)'
    BY <1>3, <1>4, <1>5, <1>7 DEF StepsOK
<1>10. \A q \in Runs \ {r} : dirty' # q /\ dirty # q
    BY <1>1, <1>5, RunsAssumption
<1> QED BY <1>1, <1>2, <1>3, <1>4, <1>5, <1>8, <1>9, <1>10, KeepsRuns DEF TypedRuns, MigrationsTypeOK

LEMMA EnterBlockTyped ==
    ASSUME TypedRuns, NEW r \in Runs, EnterBlock(r)
    PROVE  /\ TypedRuns'
           /\ \A q \in Runs \ {r} : run'[q] = run[q]
           /\ run'[r].pc = "block" /\ run'[r].k = 1 /\ run'[r].half = (Change(r) # Nothing)
           /\ run'[r].up = run[r].up /\ run'[r].at = run[r].at /\ run'[r].goal = run[r].goal
           /\ Change(r)' = Change(r) /\ Block(r)' = Block(r)
<1>1. /\ run[r].pc = "steps" /\ Before(r) /\ run[r] \in RunRec
      /\ dirty \in {r, Nobody} /\ r # Nobody /\ Mine(r).version \in 0..Newest
    BY DueRun DEF EnterBlock
<1> DEFINE h == Change(r) # Nothing
           to == [run[r] EXCEPT !.pc = "block", !.k = 1, !.half = h]
<1>2. run' = [run EXCEPT ![r] = to] /\ run'[r] = to /\ \A q \in Runs \ {r} : run'[q] = run[q]
    BY DEF EnterBlock, TypedRuns, MigrationsTypeOK
<1>3. h \in BOOLEAN
    OBVIOUS
<1>4. /\ to \in RunRec /\ to.pc = "block" /\ to.at = run[r].at /\ to.k = 1 /\ to.half = h
      /\ to.up = run[r].up /\ to.goal = run[r].goal
  <2> HIDE DEF h
  <2> QED BY <1>1, <1>3 DEF RunRec
<1> HIDE DEF to
<1>5. Change(r)' = Change(r) /\ Block(r)' = Block(r) /\ Before(r)'
    BY <1>1, <1>2, <1>4 DEF Change, Block, Before
<1>6. ShapeOK(r)'
  <2>1. to.half \/ Change(r) = Nothing
    BY <1>4
  <2>2. Block(r) # <<>>
    BY DEF EnterBlock
  <2> HIDE DEF h
  <2> QED BY <1>2, <1>4, <1>5, <2>1, <2>2 DEF ShapeOK, Active
<1>7. StepsOK(r)'
    BY <1>2, <1>4 DEF StepsOK
<1>8. /\ dirty' = Nobody /\ \A q \in Runs \ {r} : dirty' # q /\ dirty # q
      /\ version' = Mine(r).version /\ UNCHANGED trouble
    BY <1>1, RunsAssumption DEF EnterBlock
<1>9. /\ \A q \in Runs \ {r} : advisory' = q => advisory = q
      /\ advisory' \in Runs \cup {Nobody} /\ advisory' # r
    BY <1>1, RunsAssumption DEF EnterBlock, GiveBack, TypedRuns, MigrationsTypeOK
<1>10. work'.version \in 0..Newest
  <2>1. 0 \in 0..Newest
    BY ChainAssumption
  <2> QED BY <2>1 DEF EnterBlock, NoWork
<1>11. spoilt' \in BOOLEAN
    BY DEF EnterBlock, TypedRuns, MigrationsTypeOK
<1>12. TypedRuns'
    BY <1>1, <1>2, <1>4, <1>6, <1>7, <1>8, <1>9, <1>10, <1>11, KeepsRuns
       DEF TypedRuns, MigrationsTypeOK
<1> QED BY <1>2, <1>4, <1>5, <1>12

(* Inside a block a run goes on from statement to statement.               *)
InsideBlock(r) == run[r].pc \in {"block", "building"}
Goes(r, phase, k, half) ==
  /\ run'[r].pc = phase /\ run'[r].k = k /\ run'[r].half = half
  /\ run'[r].up = run[r].up /\ run'[r].at = run[r].at /\ run'[r].goal = run[r].goal
  /\ \A q \in Runs \ {r} : run'[q] = run[q]

LEMMA InsideRun ==
    ASSUME TypedRuns, NEW r \in Runs, InsideBlock(r)
    PROVE  /\ Before(r) /\ run[r] \in RunRec /\ run[r].k \in Nat /\ 1 <= run[r].k
           /\ Block(r) # <<>> /\ Len(Block(r)) \in Nat /\ DOMAIN Block(r) = 1..Len(Block(r))
           /\ Len(Block(r)) >= 1
           /\ run[r].half \/ Change(r) = Nothing
           /\ dirty # r /\ advisory # r
<1>1. Before(r) /\ 1 <= run[r].k /\ Block(r) # <<>> /\ (run[r].half \/ Change(r) = Nothing)
    BY DEF TypedRuns, RunInv, ShapeOK, InsideBlock
<1>2. dirty # r /\ advisory # r
    BY RunsAssumption DEF TypedRuns, MigrationsTypeOK, InsideBlock
<1>3. run[r] \in RunRec /\ Len(Block(r)) \in Nat /\ DOMAIN Block(r) = 1..Len(Block(r)) /\ Len(Block(r)) >= 1
    BY <1>1, AtMigration DEF TypedRuns
<1> QED BY <1>1, <1>2, <1>3 DEF RunRec

LEMMA InsideKeeps ==
    ASSUME TypedRuns, NEW r \in Runs, InsideBlock(r),
           NEW phase \in {"block", "building"}, NEW k \in Nat, NEW half \in BOOLEAN,
           run' = [run EXCEPT ![r] = [@ EXCEPT !.pc = phase, !.k = k, !.half = half]],
           1 <= k, half \/ Change(r) = Nothing,
           phase = "building" => half /\ k <= Len(Block(r)) /\ Block(r)[k].op = "create",
           UNCHANGED <<version, advisory, dirty, work, spoilt, trouble>>
    PROVE  TypedRuns' /\ Goes(r, phase, k, half)
<1> DEFINE to == [run[r] EXCEPT !.pc = phase, !.k = k, !.half = half]
<1>1. Before(r) /\ run[r] \in RunRec /\ dirty # r /\ advisory # r /\ Block(r) # <<>>
    BY InsideRun
<1>2. run' = [run EXCEPT ![r] = to] /\ run'[r] = to /\ \A q \in Runs \ {r} : run'[q] = run[q]
    BY DEF TypedRuns, MigrationsTypeOK
<1>3. /\ to \in RunRec /\ to.pc = phase /\ to.at = run[r].at /\ to.k = k /\ to.half = half
      /\ to.up = run[r].up /\ to.goal = run[r].goal
    BY <1>1 DEF RunRec
<1> HIDE DEF to
<1>4. /\ Change(r)' = Change(r) /\ Block(r)' = Block(r) /\ Before(r)'
      /\ Statement(r)' = Block(r)[k]
    BY <1>1, <1>2, <1>3 DEF Change, Block, Before, Statement
<1>5. ShapeOK(r)'
    BY <1>1, <1>2, <1>3, <1>4 DEF ShapeOK, Active
<1>6. StepsOK(r)'
    BY <1>2, <1>3 DEF StepsOK
<1>7. TypedRuns'
    BY <1>1, <1>2, <1>3, <1>5, <1>6, KeepsRuns DEF TypedRuns, MigrationsTypeOK
<1> QED BY <1>2, <1>3, <1>7 DEF Goes

LEMMA SkipTyped ==
    ASSUME TypedRuns, NEW r \in Runs, Skip(r)
    PROVE  /\ TypedRuns' /\ InBlock(r)
           /\ \E n \in (run[r].k + 1)..(Len(Block(r)) + 1) :
                /\ Goes(r, "block", n, run[r].half)
                /\ \A i \in run[r].k..(n - 1) : Idling(Block(r)[i])
<1>1. InBlock(r) /\ InsideBlock(r)
    BY DEF Skip, InBlock, InsideBlock
<1>2. /\ run[r] \in RunRec /\ run[r].k \in Nat /\ 1 <= run[r].k /\ Len(Block(r)) \in Nat
      /\ run[r].half \/ Change(r) = Nothing
    BY <1>1, InsideRun
<1>3. PICK n \in (run[r].k + 1)..(Len(Block(r)) + 1) :
             /\ \A i \in run[r].k..(n - 1) : Idling(Block(r)[i])
             /\ run' = [run EXCEPT ![r].k = n]
    BY DEF Skip
<1>4. n \in Nat /\ 1 <= n
    BY <1>2
<1>5. run' = [run EXCEPT ![r] = [@ EXCEPT !.pc = "block", !.k = n, !.half = run[r].half]]
  <2>1. [run[r] EXCEPT !.k = n] = [run[r] EXCEPT !.pc = "block", !.k = n, !.half = run[r].half]
    BY <1>1, <1>2 DEF RunRec, InBlock
  <2> QED BY <1>3, <2>1 DEF TypedRuns, MigrationsTypeOK
<1>6. run[r].half \in BOOLEAN
    BY <1>2 DEF RunRec
<1>7. TypedRuns' /\ Goes(r, "block", n, run[r].half)
    BY <1>1, <1>2, <1>4, <1>5, <1>6, InsideKeeps DEF Skip
<1> QED BY <1>1, <1>3, <1>7

LEMMA BeginIndexTyped ==
    ASSUME TypedRuns, NEW r \in Runs, BeginIndex(r)
    PROVE  TypedRuns' /\ Goes(r, "building", run[r].k, TRUE)
<1>1. InBlock(r) /\ InsideBlock(r) /\ Statement(r).op = "create"
    BY DEF BeginIndex, InBlock, InsideBlock
<1>2. run[r] \in RunRec /\ run[r].k \in Nat /\ 1 <= run[r].k
    BY <1>1, InsideRun
<1>3. run' = [run EXCEPT ![r] = [@ EXCEPT !.pc = "building", !.k = run[r].k, !.half = TRUE]]
  <2>1. [run[r] EXCEPT !.pc = "building", !.half = TRUE]
            = [run[r] EXCEPT !.pc = "building", !.k = run[r].k, !.half = TRUE]
    BY <1>2 DEF RunRec
  <2> QED BY <2>1 DEF BeginIndex, TypedRuns, MigrationsTypeOK
<1>4. run[r].k <= Len(Block(r)) /\ Block(r)[run[r].k].op = "create"
    BY <1>1 DEF InBlock, Statement
<1> QED BY <1>1, <1>2, <1>3, <1>4, InsideKeeps DEF BeginIndex

(* The other statements of a block end with it being done.                 *)
LEMMA DoneTyped ==
    ASSUME TypedRuns, NEW r \in Runs, InsideBlock(r), run' = Done(r),
           UNCHANGED <<version, advisory, dirty, work, spoilt, trouble>>
    PROVE  TypedRuns' /\ Goes(r, "block", run[r].k + 1, TRUE)
<1>1. run[r] \in RunRec /\ run[r].k \in Nat /\ 1 <= run[r].k
    BY InsideRun
<1>2. run' = [run EXCEPT ![r] = [@ EXCEPT !.pc = "block", !.k = run[r].k + 1, !.half = TRUE]]
    BY <1>1 DEF Done, TypedRuns, MigrationsTypeOK
<1>3. run[r].k + 1 \in Nat /\ 1 <= run[r].k + 1
    BY <1>1
<1> QED BY <1>2, <1>3, InsideKeeps

LEMMA StatementTyped ==
    ASSUME TypedRuns, NEW r \in Runs,
           FinishIndex(r) \/ DropConcurrently(r) \/ ValidateConstraint(r)
    PROVE  TypedRuns' /\ Goes(r, "block", run[r].k + 1, TRUE) /\ InsideBlock(r)
<1>1. InsideBlock(r)
    BY DEF FinishIndex, DropConcurrently, ValidateConstraint, InBlock, InsideBlock
<1>2. run' = Done(r) /\ UNCHANGED <<version, advisory, dirty, work, spoilt, trouble>>
    BY DEF FinishIndex, DropConcurrently, ValidateConstraint
<1> QED BY <1>1, <1>2, DoneTyped

LEMMA LeaveBlockTyped ==
    ASSUME TypedRuns, NEW r \in Runs, LeaveBlock(r), version = run[r].at
    PROVE  /\ TypedRuns'
           /\ run'[r].pc = "steps" /\ run'[r].half = run[r].half /\ run'[r].up = run[r].up
           /\ \A q \in Runs \ {r} : run'[q] = run[q]
           /\ run'[r].at = Onward(r) /\ Onward(r) \in 0..Newest
           /\ dirty' = r /\ work' = [schema |-> schema, version |-> Onward(r)]
           /\ UNCHANGED <<schema, version, advisory, spoilt>>
<1> DEFINE to == [run[r] EXCEPT !.pc = "steps", !.at = Onward(r), !.k = 0]
<1>1. InsideBlock(r)
    BY DEF LeaveBlock, InsideBlock
<1>2. Before(r) /\ run[r] \in RunRec /\ dirty # r /\ advisory # r
    BY <1>1, InsideRun
<1>3. Onward(r) \in 0..Newest
    BY <1>2, AtMigration DEF TypedRuns
<1>4. run' = [run EXCEPT ![r] = to] /\ run'[r] = to /\ \A q \in Runs \ {r} : run'[q] = run[q]
    BY DEF LeaveBlock, TypedRuns, MigrationsTypeOK
<1>5. /\ to \in RunRec /\ to.pc = "steps" /\ to.at = Onward(r) /\ to.half = run[r].half
      /\ to.up = run[r].up /\ to.goal = run[r].goal
    BY <1>2, <1>3 DEF RunRec
<1>6. /\ dirty' = r /\ work' = [schema |-> schema, version |-> Onward(r)] /\ dirty \in {r, Nobody}
      /\ UNCHANGED <<schema, version, advisory, spoilt, trouble>>
    BY DEF LeaveBlock, Free
<1> HIDE DEF to
<1>7. ShapeOK(r)'
    BY <1>4, <1>5 DEF ShapeOK, Active
<1>8. IF run[r].up THEN version < Onward(r) /\ Onward(r) <= run[r].goal
                   ELSE Onward(r) < version /\ run[r].goal <= Onward(r)
    BY <1>2 DEF Onward, Before, RunRec
<1>9. StepsOK(r)'
    BY <1>4, <1>5, <1>6, <1>8 DEF StepsOK
<1>10. \A q \in Runs \ {r} : dirty' # q /\ dirty # q
    BY <1>6, RunsAssumption
<1>11. TypedRuns'
    BY <1>2, <1>3, <1>4, <1>5, <1>6, <1>7, <1>9, <1>10, KeepsRuns DEF TypedRuns, MigrationsTypeOK
<1> QED BY <1>3, <1>4, <1>5, <1>6, <1>11

LEMMA CommitTyped ==
    ASSUME TypedRuns, NEW r \in Runs, Commit(r)
    PROVE  TypedRuns' /\ dirty = r /\ run'[r] = Idle /\ \A q \in Runs \ {r} : run'[q] = run[q]
<1>1. run' = [run EXCEPT ![r] = Idle] /\ run'[r] = Idle /\ \A q \in Runs \ {r} : run'[q] = run[q]
    BY DEF Commit, TypedRuns, MigrationsTypeOK
<1>2. run[r] \in RunRec /\ run[r].pc = "steps" /\ run[r].at = run[r].goal /\ r # Nobody
    BY RunsAssumption DEF Commit, TypedRuns, MigrationsTypeOK, RunRec
<1>3. dirty = r
  <2>1. ~Before(r)
    BY <1>2 DEF Before, RunRec
  <2> QED BY <1>2, <2>1 DEF TypedRuns, RunInv, StepsOK
<1>4. ShapeOK(r)' /\ StepsOK(r)'
    BY <1>1, IdleTyped DEF ShapeOK, StepsOK
<1>5. /\ dirty' = Nobody /\ \A q \in Runs \ {r} : dirty' # q /\ dirty # q
      /\ version' = work.version /\ UNCHANGED trouble
    BY <1>2, <1>3, RunsAssumption DEF Commit
<1>6. /\ \A q \in Runs \ {r} : advisory' = q => advisory = q
      /\ advisory' \in Runs \cup {Nobody} /\ advisory' # r
    BY <1>2, RunsAssumption DEF Commit, GiveBack, TypedRuns, MigrationsTypeOK
<1>7. work'.version \in 0..Newest
  <2>1. 0 \in 0..Newest
    BY ChainAssumption
  <2> QED BY <2>1 DEF Commit, NoWork
<1>8. spoilt' \in BOOLEAN
    BY DEF Commit, TypedRuns, MigrationsTypeOK
<1>9. TypedRuns'
    BY <1>1, <1>2, <1>4, <1>5, <1>6, <1>7, <1>8, IdleTyped, KeepsRuns DEF TypedRuns, MigrationsTypeOK
<1> QED BY <1>1, <1>3, <1>9

LEMMA TypedStep ==
    ASSUME TypedRuns, [MigrationsNext]_migrationVars
    PROVE  TypedRuns'
<1>1. ASSUME NEW r \in Runs, NEW h \in Images, Upgrade(r, h) PROVE TypedRuns'
    BY <1>1, UpgradeTyped
<1>2. ASSUME NEW r \in Runs, NEW g \in Goals, Downgrade(r, g) PROVE TypedRuns'
    BY <1>2, DowngradeTyped
<1>3. ASSUME NEW r \in Runs, Abort(r), UNCHANGED trouble PROVE TypedRuns'
    BY <1>3, AbortTyped DEF TypedRuns, MigrationsTypeOK
<1>4. ASSUME NEW r \in Runs, BreakOff(r) PROVE TypedRuns'
    BY <1>4, AbortTyped, TroubleCounts DEF BreakOff, TypedRuns
<1>5. ASSUME NEW r \in Runs, LeaveBlock(r) PROVE TypedRuns'
    BY <1>3, <1>5, LeaveBlockTyped DEF LeaveBlock
<1>6. ASSUME NEW r \in Runs, Refused(r) \/ RefusedInBlock(r) PROVE TypedRuns'
    BY <1>3, <1>6 DEF Refused, RefusedInBlock
<1>7. ASSUME NEW r \in Runs, RunStep(r) PROVE TypedRuns'
    BY <1>5, <1>6, <1>7, TakeLockTyped, StepTyped, EnterBlockTyped, SkipTyped, BeginIndexTyped,
       StatementTyped, CommitTyped DEF RunStep
<1>8. ASSUME UNCHANGED migrationVars PROVE TypedRuns'
  <2> USE <1>8 DEF migrationVars
  <2>1. MigrationsTypeOK'
    BY DEF TypedRuns, MigrationsTypeOK
  <2>2. ASSUME NEW q \in Runs PROVE ShapeOK(q)' /\ StepsOK(q)'
    <3>1. ShapeOK(q) /\ StepsOK(q)
      BY DEF TypedRuns, RunInv
    <3>2. Block(q)' = Block(q) /\ Change(q)' = Change(q) /\ (Before(q)' <=> Before(q))
      BY DEF Block, Change, Before
    <3>3. ShapeOK(q)'
      BY <3>1, <3>2 DEF ShapeOK, Active, Statement
    <3>4. StepsOK(q)'
      BY <3>1, <3>2 DEF StepsOK
    <3> QED BY <3>3, <3>4
  <2> QED BY <2>1, <2>2 DEF TypedRuns, RunInv
<1> QED BY <1>1, <1>2, <1>4, <1>7, <1>8 DEF MigrationsNext

(* Typing, and a run keeps the lock or uncommitted work only while it is   *)
(* in its transaction (src/alembic/env.py:45-66).                          *)
THEOREM MigrationsTyped == Migrations => []MigrationsTypeOK
<1>1. MigrationsInit => TypedRuns
    BY StartTyped
<1>2. TypedRuns /\ [MigrationsNext]_migrationVars => TypedRuns'
    BY TypedStep
<1>3. TypedRuns => MigrationsTypeOK
    BY DEF TypedRuns
<1> QED BY <1>1, <1>2, <1>3, PTL DEF Migrations

-----------------------------------------------------------------------------
(***************************************************************************)
(* What a migration does to a schema, fact by fact.                        *)
(***************************************************************************)
LEMMA ApplyAt ==
    ASSUME NEW c, NEW S, NEW f
    PROVE  f \in Apply(c, S) <=> \/ f \in c.add \/ f \in c.ensure
                                 \/ f \in S /\ f[1] \notin Dropped(c) /\ f \notin c.del /\ f \notin c.loose
<1> DEFINE gone == Dropped(c)
           left == IF gone = {} THEN S ELSE {g \in S : g[1] \notin gone}
<1>1. f \in left <=> f \in S /\ f[1] \notin gone
    OBVIOUS
<1> HIDE DEF gone, left
<1>2. f \in (left \ (c.del \cup c.loose)) \cup c.add \cup c.ensure
        <=> f \in c.add \/ f \in c.ensure \/ (f \in left /\ f \notin c.del /\ f \notin c.loose)
    OBVIOUS
<1> QED BY <1>1, <1>2 DEF Apply, left, gone

LEMMA ApplyAgrees ==
    ASSUME NEW c, NEW S, NEW T, NEW f, f \in S <=> f \in T
    PROVE  f \in Apply(c, S) <=> f \in Apply(c, T)
<1> DEFINE stays == f[1] \notin Dropped(c) /\ f \notin c.del /\ f \notin c.loose
<1>1. f \in Apply(c, S) <=> f \in c.add \/ f \in c.ensure \/ (f \in S /\ stays)
    BY ApplyAt
<1>2. f \in Apply(c, T) <=> f \in c.add \/ f \in c.ensure \/ (f \in T /\ stays)
    BY ApplyAt
<1> HIDE DEF stays
<1> QED BY <1>1, <1>2

LEMMA ApplyNothing ==
    ASSUME NEW S
    PROVE  Apply(Nothing, S) = S
<1>1. Nothing.add = {} /\ Nothing.del = {} /\ Nothing.ensure = {} /\ Nothing.loose = {}
    BY DEF Nothing
<1>2. Dropped(Nothing) = {}
    BY <1>1 DEF Dropped
<1> QED BY <1>1, <1>2 DEF Apply

(* The schema of a revision, from the one below it and from the one above. *)
LEMMA KeptAbove ==
    ASSUME NEW v \in 1..Newest, NEW f, f \notin Lost
    PROVE  f \in Kept[v] <=>
             \/ f \in Established(Chain[v].online)
             \/ f \in Apply(Chain[v].up, Kept[v - 1]) /\ f \notin Halves(Chain[v].online)
<1>1. v \in 0..Newest /\ v - 1 \in 0..Newest
    BY ChainAssumption
<1>2. f \in Kept[v] <=> f \in Built[v]
    BY <1>1 DEF Kept
<1>3. f \in Kept[v - 1] <=> f \in Built[v - 1]
    BY <1>1 DEF Kept
<1>4. f \in Apply(Chain[v].up, Kept[v - 1]) <=> f \in Apply(Chain[v].up, Built[v - 1])
    BY <1>3, ApplyAgrees
<1>5. Built[v] = (Apply(Chain[v].up, Built[v - 1]) \ Halves(Chain[v].online)) \cup Established(Chain[v].online)
    BY ChainAssumption DEF Made
<1> QED BY <1>2, <1>4, <1>5

LEMMA KeptBelow ==
    ASSUME NEW v \in 1..Newest, NEW f, f \notin Lost
    PROVE  f \in Kept[v - 1] <=>
             /\ f \in Apply(Chain[v].down, Kept[v])
             /\ f \notin Established(Chain[v].offline) \cup Halves(Chain[v].offline)
<1>1. Undone(v)
    BY ChainAssumption
<1> QED BY <1>1 DEF Undone

-----------------------------------------------------------------------------
(***************************************************************************)
(* A run that stands in a block below the committed revision can only end  *)
(* by aborting; so can one of two that are both half-way.                  *)
(***************************************************************************)
OrderInv ==
  ~spoilt => \A r \in Runs : Active(r) /\ dirty # r => run[r].at <= version

Fated ==
  \/ \E r \in Runs : \E q \in Runs \ {r} : run[r].half /\ run[q].half
  \/ \E r \in Runs : run[r].half /\ dirty # r /\ run[r].at < version

(* What a step of r does to the order of the runs.                         *)
Orderly(r) ==
  /\ \A q \in Runs \ {r} : run'[q] = run[q] /\ (dirty' = q <=> dirty = q)
  /\ \A q \in Runs \ {r} : Active(q) => version <= version' \/ spoilt'
  /\ spoilt => spoilt'
  /\ ~spoilt' /\ run[r].half => run'[r].half \/ (dirty = r /\ version' # version)
  /\ ~spoilt' /\ run[r].half /\ dirty # r /\ run[r].at < version =>
       run'[r].half /\ dirty' # r /\ run'[r].at = run[r].at /\ version' = version
  /\ ~spoilt' /\ Active(r)' /\ dirty' # r => run'[r].at <= version'

LEMMA OrderKept ==
    ASSUME TypedRuns, TypedRuns', OrderInv, NEW r \in Runs, Orderly(r)
    PROVE  OrderInv' /\ (~spoilt' /\ Fated => Fated')
<1>1. \A q \in Runs : run[q] \in RunRec /\ run'[q] \in RunRec
    BY DEF TypedRuns, MigrationsTypeOK, RunRec
<1>2. \A q \in Runs : run[q].at \in Int /\ (run[q].half => Active(q))
    BY <1>1 DEF RunRec, TypedRuns, RunInv, ShapeOK
<1>3. version \in Int /\ version' \in Int
    BY DEF TypedRuns, MigrationsTypeOK
<1>4. ASSUME ~spoilt', NEW q \in Runs \ {r}, Active(q), dirty # q
      PROVE  run[q].at <= version /\ version <= version'
    BY <1>4 DEF OrderInv, Orderly
<1>5. OrderInv'
  <2> SUFFICES ASSUME ~spoilt', NEW q \in Runs, Active(q)', dirty' # q
               PROVE  run'[q].at <= version'
    BY DEF OrderInv
  <2>1. CASE q = r
    BY <2>1 DEF Orderly
  <2>2. CASE q # r
    <3>1. run'[q] = run[q] /\ dirty # q /\ Active(q)
      BY <2>2 DEF Orderly, Active
    <3> QED BY <1>2, <1>3, <1>4, <2>2, <3>1
  <2> QED BY <2>1, <2>2
<1>6. ASSUME ~spoilt', NEW q \in Runs \ {r}, run[q].half, dirty # q, version < version' \/ run[q].at < version
      PROVE  Fated'
  <2>1. run[q].at < version'
    BY <1>2, <1>3, <1>4, <1>6
  <2>2. run'[q] = run[q] /\ dirty' # q
    BY <1>6 DEF Orderly
  <2> QED BY <1>6, <2>1, <2>2 DEF Fated
<1>7. ASSUME ~spoilt', NEW q \in Runs \ {r}, run[q].half, run[r].half
      PROVE  Fated'
  <2>1. CASE run'[r].half
    <3>1. run'[q].half
      BY <1>7 DEF Orderly
    <3> QED BY <1>7, <2>1, <3>1 DEF Fated
  <2>2. CASE ~run'[r].half
    <3>1. dirty = r /\ version' # version
      BY <1>7, <2>2 DEF Orderly
    <3>2. version <= version'
      BY <1>2, <1>4, <1>7, <3>1
    <3> QED BY <1>3, <1>6, <1>7, <3>1, <3>2
  <2> QED BY <2>1, <2>2
<1>8. ASSUME ~spoilt', NEW p \in Runs \ {r}, NEW q \in Runs \ {r, p}, run[p].half, run[q].half
      PROVE  Fated'
    BY <1>8 DEF Orderly, Fated
<1>9. ASSUME ~spoilt', run[r].half, dirty # r, run[r].at < version
      PROVE  Fated'
    BY <1>9 DEF Orderly, Fated
<1>10. ASSUME ~spoilt', Fated PROVE Fated'
  <2>1. CASE \E p \in Runs : \E q \in Runs \ {p} : run[p].half /\ run[q].half
    <3>0. PICK p \in Runs : \E q \in Runs \ {p} : run[p].half /\ run[q].half
      BY <2>1
    <3>1. PICK q \in Runs \ {p} : run[p].half /\ run[q].half
      BY <3>0
    <3>2. CASE p = r
      BY <3>1, <3>2, <1>7, <1>10
    <3>3. CASE q = r
      BY <3>1, <3>3, <1>7, <1>10
    <3>4. CASE p # r /\ q # r
      BY <3>1, <3>4, <1>8, <1>10
    <3> QED BY <3>2, <3>3, <3>4
  <2>2. CASE \E p \in Runs : run[p].half /\ dirty # p /\ run[p].at < version
    BY <2>2, <1>6, <1>9, <1>10
  <2> QED BY <1>10, <2>1, <2>2 DEF Fated
<1> QED BY <1>5, <1>10

LEMMA RunValues ==
    ASSUME TypedRuns, NEW r \in Runs
    PROVE  run[r] \in RunRec /\ run[r].at \in Int /\ version \in Int /\ work.version \in Int
           /\ r # Nobody /\ dirty \in Runs \cup {Nobody}
<1>1. run[r] \in RunRec
    BY DEF TypedRuns, MigrationsTypeOK, RunRec
<1> QED BY <1>1, RunsAssumption DEF TypedRuns, MigrationsTypeOK, RunRec

(* A run that has nothing half done begins, ends, or changes nothing else. *)
LEMMA QuietOrder ==
    ASSUME TypedRuns, OrderInv, NEW r \in Runs, ~run[r].half, NEW to \in RunRec,
           run' = [run EXCEPT ![r] = to],
           to.pc \in {"idle", "waiting"} \/ to.at <= version,
           \A q \in Runs \ {r} : dirty' = q <=> dirty = q,
           UNCHANGED <<version, spoilt>>
    PROVE  Orderly(r)
<1>1. run'[r] = to /\ \A q \in Runs \ {r} : run'[q] = run[q]
    BY DEF TypedRuns, MigrationsTypeOK
<1>2. version \in Int
    BY DEF TypedRuns, MigrationsTypeOK
<1> QED BY <1>1, <1>2 DEF Orderly, Active

LEMMA AbortOrder ==
    ASSUME TypedRuns, OrderInv, NEW r \in Runs, Abort(r)
    PROVE  Orderly(r)
<1>1. run' = [run EXCEPT ![r] = Idle] /\ run'[r] = Idle /\ \A q \in Runs \ {r} : run'[q] = run[q]
    BY DEF Abort, TypedRuns, MigrationsTypeOK
<1>2. \A q \in Runs \ {r} : dirty' = q <=> dirty = q
    BY RunsAssumption DEF Abort
<1>3. version' = version /\ version \in Int /\ (spoilt => spoilt') /\ (run[r].half => spoilt')
    BY DEF Abort, TypedRuns, MigrationsTypeOK
<1> QED BY <1>1, <1>2, <1>3, IdleTyped DEF Orderly, Active

LEMMA TakeLockOrder ==
    ASSUME TypedRuns, OrderInv, NEW r \in Runs, TakeLock(r)
    PROVE  Orderly(r)
<1> DEFINE due == IF run[r].up THEN version < run[r].goal ELSE version > run[r].goal
           to  == IF due THEN [run[r] EXCEPT !.pc = "steps", !.at = version] ELSE Idle
<1>1. run[r] \in RunRec /\ version \in 0..Newest /\ run[r].pc = "waiting"
    BY DEF TakeLock, TypedRuns, MigrationsTypeOK, RunRec
<1>2. ~run[r].half
    BY <1>1 DEF TypedRuns, RunInv, ShapeOK, Active
<1>3. to \in RunRec /\ (to.pc = "idle" \/ to.at <= version)
  <2>1. CASE due
    <3>1. to \in RunRec /\ to.at = version
      BY <1>1, <2>1 DEF RunRec
    <3> QED BY <1>1, <3>1
  <2>2. CASE ~due
    BY <2>2, IdleTyped
  <2> QED BY <2>1, <2>2
<1>4. run' = [run EXCEPT ![r] = to] /\ UNCHANGED <<version, spoilt, dirty>>
    BY DEF TakeLock
<1> HIDE DEF to
<1> QED BY <1>2, <1>3, <1>4, QuietOrder

LEMMA StepOrder ==
    ASSUME TypedRuns, OrderInv, NEW r \in Runs, Step(r)
    PROVE  Orderly(r)
<1>1. dirty \in {r, Nobody} /\ (dirty # r => ~run[r].half)
    BY DueRun DEF Step
<1>2. dirty' = r /\ UNCHANGED <<version, spoilt>> /\ version \in Int
    BY DEF Step, TypedRuns, MigrationsTypeOK
<1>3. \A q \in Runs \ {r} : run'[q] = run[q]
    BY DEF Step, TypedRuns, MigrationsTypeOK
<1>4. run'[r].half = run[r].half
    BY DEF Step, TypedRuns, MigrationsTypeOK
<1>5. \A q \in Runs \ {r} : dirty' # q /\ dirty # q
    BY <1>1, <1>2, RunsAssumption
<1> QED BY <1>1, <1>2, <1>3, <1>4, <1>5 DEF Orderly

(* A commit of r: nobody else has read a higher revision than it leaves.   *)
LEMMA CommitsOrder ==
    ASSUME TypedRuns, OrderInv, NEW r \in Runs, dirty \in {r, Nobody}, dirty' = Nobody,
           run[r].pc = "steps", dirty # r => ~run[r].half,
           NEW v \in 0..Newest, version' = v, spoilt' = (spoilt \/ Undercut(r, v)),
           dirty = r => v # version,
           \A q \in Runs \ {r} : run'[q] = run[q],
           ~spoilt' /\ Active(r)' => run'[r].at <= v
    PROVE  Orderly(r)
<1>1. \A q \in Runs \ {r} : dirty' # q /\ dirty # q
    BY RunsAssumption
<1>2. ASSUME NEW q \in Runs \ {r}, Active(q) PROVE version <= version' \/ spoilt'
  <2>1. version \in Int /\ v \in Int
    BY DEF TypedRuns, MigrationsTypeOK
  <2>2. v < version => spoilt'
    BY <1>2 DEF Undercut, Active
  <2> QED BY <2>1, <2>2
<1>3. spoilt => spoilt'
    OBVIOUS
<1> HIDE DEF Undercut
<1> QED BY <1>1, <1>2, <1>3 DEF Orderly

LEMMA EnterBlockOrder ==
    ASSUME TypedRuns, OrderInv, NEW r \in Runs, EnterBlock(r)
    PROVE  Orderly(r)
<1>1. /\ run[r].pc = "steps" /\ dirty \in {r, Nobody} /\ Mine(r).version \in 0..Newest
      /\ dirty = r => run[r].at = Mine(r).version
      /\ dirty = r => IF run[r].up THEN version < run[r].at ELSE run[r].at < version
      /\ dirty # r => ~run[r].half
    BY DueRun DEF EnterBlock
<1>2. run[r].at \in Int /\ version \in Int
    BY RunValues
<1>3. /\ \A q \in Runs \ {r} : run'[q] = run[q]
      /\ run'[r].at = run[r].at
    BY EnterBlockTyped
<1>4. ASSUME ~spoilt' PROVE run[r].at <= Mine(r).version
  <2>1. CASE dirty = r
    BY <1>1, <1>2, <2>1
  <2>2. CASE dirty # r
    BY <1>1, <1>4, <2>2 DEF OrderInv, Active, Mine, EnterBlock
  <2> QED BY <2>1, <2>2
<1>5. dirty = r => Mine(r).version # version
    BY <1>1, <1>2
<1>6. dirty' = Nobody /\ version' = Mine(r).version /\ spoilt' = (spoilt \/ Undercut(r, Mine(r).version))
    BY DEF EnterBlock
<1> QED BY <1>1, <1>3, <1>4, <1>5, <1>6, CommitsOrder

LEMMA CommitOrder ==
    ASSUME TypedRuns, OrderInv, NEW r \in Runs, Commit(r)
    PROVE  Orderly(r) /\ work.version # version
<1>1. dirty = r /\ run[r].pc = "steps" /\ work.version \in 0..Newest
    BY CommitTyped DEF Commit, TypedRuns, MigrationsTypeOK
<1>2. run[r].at \in Int /\ version \in Int
    BY RunValues
<1>3. work.version # version
    BY <1>1, <1>2 DEF TypedRuns, RunInv, StepsOK
<1>4. (\A q \in Runs \ {r} : run'[q] = run[q]) /\ ~Active(r)'
    BY CommitTyped, IdleTyped DEF Active
<1>5. dirty' = Nobody /\ version' = work.version /\ spoilt' = (spoilt \/ Undercut(r, work.version))
    BY DEF Commit
<1> QED BY <1>1, <1>3, <1>4, <1>5, CommitsOrder

(* A statement of a block.                                                 *)
LEMMA GoesOrder ==
    ASSUME TypedRuns, OrderInv, NEW r \in Runs, InsideBlock(r),
           NEW phase, NEW k, NEW half \in BOOLEAN, Goes(r, phase, k, half), run[r].half => half,
           UNCHANGED <<version, dirty, spoilt>>
    PROVE  Orderly(r)
<1>1. /\ \A q \in Runs \ {r} : run'[q] = run[q]
      /\ run'[r].at = run[r].at /\ run'[r].half = half
    BY DEF Goes
<1>2. version \in Int /\ dirty # r /\ Active(r)
    BY InsideRun DEF TypedRuns, MigrationsTypeOK, InsideBlock, Active
<1> QED BY <1>1, <1>2 DEF Orderly, OrderInv

LEMMA LeaveBlockOrder ==
    ASSUME TypedRuns, OrderInv, NEW r \in Runs, LeaveBlock(r)
    PROVE  Orderly(r)
<1>1. CASE version # run[r].at
    BY <1>1, AbortOrder DEF LeaveBlock
<1>2. CASE version = run[r].at
  <2>1. /\ \A q \in Runs \ {r} : run'[q] = run[q]
        /\ run'[r].half = run[r].half /\ dirty' = r /\ UNCHANGED <<version, spoilt>>
    BY <1>2, LeaveBlockTyped
  <2>2. version \in Int
    BY DEF TypedRuns, MigrationsTypeOK
  <2>3. \A q \in Runs \ {r} : dirty' # q /\ dirty # q
    BY <2>1, RunsAssumption DEF LeaveBlock, Free
  <2> QED BY <1>2, <2>1, <2>2, <2>3 DEF Orderly
<1> QED BY <1>1, <1>2

-----------------------------------------------------------------------------
(***************************************************************************)
(* A block from statement to statement.  What the block is about is set    *)
(* aside; the rest of schema S is what change c makes of the schema base.  *)
(***************************************************************************)
Aside(b) == Lost \cup Established(b) \cup Halves(b)

UpTo(b, c, base, S, k, building) ==
  /\ S \ Aside(b) = Apply(c, base) \ Aside(b)
  /\ \A i \in DOMAIN b :
       IF b[i].op = "create"
       THEN /\ b[i].half \in S => building /\ i = k
            /\ building /\ i = k => b[i].half \in S
            /\ i < k => b[i].fact \in S
       ELSE b[i].fact \in S /\ (i < k => b[i].half \notin S)

DownTo(b, c, base, S, k) ==
  /\ S \ Aside(b) = Apply(c, base) \ Aside(b)
  /\ \A i \in DOMAIN b : i < k => About(b[i]) \cap S = {}

(* What the chain promises of a block.                                     *)
Apart(b) ==
  /\ Len(b) \in Nat /\ DOMAIN b = 1..Len(b)
  /\ \A i, j \in DOMAIN b : i # j => About(b[i]) \cap About(b[j]) = {}
  /\ \A i \in DOMAIN b : b[i].fact # b[i].half
OnlineOf(b, c, base) ==
  /\ Apart(b)
  /\ \A i \in DOMAIN b :
       \/ b[i].op = "create" /\ About(b[i]) \cap (Lost \cup base \cup Apply(c, base)) = {}
       \/ b[i].op = "validate" /\ b[i].fact \in c.add
OfflineOf(b, c, base) ==
  /\ Apart(b)
  /\ \A i \in DOMAIN b : b[i].op = "drop" /\ (c = Nothing => b[i].fact \in base)

LEMMA BlockApart ==
    ASSUME NEW v \in 1..Newest, NEW b \in {Chain[v].online, Chain[v].offline}
    PROVE  Apart(b)
<1>1. Listed(b)
    BY ChainAssumption
<1>2. Len(b) \in Nat /\ DOMAIN b = 1..Len(b)
    BY BlockLength
<1> QED BY <1>1, <1>2 DEF Apart, Listed

LEMMA RunBlock ==
    ASSUME TypedRuns, NEW r \in Runs, Before(r)
    PROVE  /\ run[r].up => OnlineOf(Block(r), Change(r), Kept[run[r].at])
           /\ ~run[r].up => OfflineOf(Block(r), Change(r), Kept[run[r].at])
<1>1. run[r] \in RunRec /\ (run[r].up => run[r].at + 1 \in 1..Newest) /\ (~run[r].up => run[r].at \in 1..Newest)
    BY AtMigration DEF TypedRuns
<1>2. run[r].at \in Int
    BY <1>1 DEF RunRec
<1>3. ASSUME run[r].up PROVE OnlineOf(Block(r), Change(r), Kept[run[r].at])
  <2> DEFINE v == run[r].at + 1
  <2>1. v \in 1..Newest /\ v - 1 = run[r].at
    BY <1>1, <1>2, <1>3
  <2>2. Block(r) = Chain[v].online /\ Change(r) = Chain[v].up
    BY <1>3 DEF Block, Change
  <2> HIDE DEF v
  <2>3. OnlineSound(v)
    BY <2>1, ChainAssumption
  <2>4. Apart(Chain[v].online)
    BY <2>1, BlockApart
  <2> QED BY <2>1, <2>2, <2>3, <2>4 DEF OnlineSound, OnlineOf
<1>4. ASSUME ~run[r].up PROVE OfflineOf(Block(r), Change(r), Kept[run[r].at])
  <2>1. Block(r) = Chain[run[r].at].offline /\ Change(r) = Chain[run[r].at].down /\ run[r].at \in 1..Newest
    BY <1>1, <1>4 DEF Block, Change
  <2>2. OfflineSound(run[r].at)
    BY <2>1, ChainAssumption
  <2>3. Apart(Chain[run[r].at].offline)
    BY <2>1, BlockApart
  <2> QED BY <2>1, <2>2, <2>3 DEF OfflineSound, OfflineOf
<1> QED BY <1>3, <1>4

LEMMA AboutAside ==
    ASSUME NEW b, NEW i \in DOMAIN b
    PROVE  b[i].fact \in Aside(b) /\ b[i].half \in Aside(b)
BY DEF Aside, Established, Halves

LEMMA Alongside ==
    ASSUME NEW c, NEW S, NEW base, S \ Lost = base, NEW f, f \notin Lost
    PROVE  f \in Apply(c, S) <=> f \in Apply(c, base)
<1>1. f \in S <=> f \in base
    OBVIOUS
<1> QED BY <1>1, ApplyAgrees

LEMMA UpEnters ==
    ASSUME NEW b, NEW c, NEW base, OnlineOf(b, c, base), NEW S, S \ Lost = base
    PROVE  UpTo(b, c, base, Apply(c, S), 1, FALSE)
<1>1. Apply(c, S) \ Aside(b) = Apply(c, base) \ Aside(b)
    BY Alongside DEF Aside
<1>2. ASSUME NEW i \in DOMAIN b, b[i].op = "create" PROVE b[i].half \notin Apply(c, S)
  <2>1. b[i].half \notin Lost /\ b[i].half \notin Apply(c, base)
    BY <1>2 DEF OnlineOf, About
  <2> QED BY <2>1, Alongside
<1>3. ASSUME NEW i \in DOMAIN b, b[i].op # "create" PROVE b[i].fact \in Apply(c, S)
  <2>1. b[i].fact \in c.add
    BY <1>3 DEF OnlineOf
  <2> QED BY <2>1, ApplyAt
<1>4. \A i \in DOMAIN b : ~(i < 1)
    BY DEF OnlineOf, Apart
<1> QED BY <1>1, <1>2, <1>3, <1>4 DEF UpTo

LEMMA DownEnters ==
    ASSUME NEW b, NEW c, NEW base, OfflineOf(b, c, base), NEW S, S \ Lost = base
    PROVE  DownTo(b, c, base, Apply(c, S), 1)
<1>1. Apply(c, S) \ Aside(b) = Apply(c, base) \ Aside(b)
    BY Alongside DEF Aside
<1>2. \A i \in DOMAIN b : ~(i < 1)
    BY DEF OfflineOf, Apart
<1> QED BY <1>1, <1>2 DEF DownTo

LEMMA UpBegins ==
    ASSUME NEW b, NEW c, NEW base, OnlineOf(b, c, base), NEW S,
           NEW k \in DOMAIN b, UpTo(b, c, base, S, k, FALSE), b[k].op = "create"
    PROVE  UpTo(b, c, base, S \cup {b[k].half}, k, TRUE)
<1>1. (S \cup {b[k].half}) \ Aside(b) = Apply(c, base) \ Aside(b)
    BY AboutAside DEF UpTo
<1>2. ASSUME NEW i \in DOMAIN b, i # k PROVE b[i].half # b[k].half
    BY <1>2 DEF OnlineOf, Apart, About
<1> QED BY <1>1, <1>2 DEF UpTo

LEMMA UpFinishes ==
    ASSUME NEW b, NEW c, NEW base, OnlineOf(b, c, base), NEW S,
           NEW k \in DOMAIN b, UpTo(b, c, base, S, k, TRUE), b[k].op = "create"
    PROVE  /\ b[k].half \in S
           /\ UpTo(b, c, base, (S \ {b[k].half}) \cup {b[k].fact}, k + 1, FALSE)
<1> DEFINE T == (S \ {b[k].half}) \cup {b[k].fact}
<1>1. T \ Aside(b) = Apply(c, base) \ Aside(b)
    BY AboutAside DEF UpTo
<1>2. ASSUME NEW i \in DOMAIN b, i # k
      PROVE  /\ b[i].half # b[k].half /\ b[i].half # b[k].fact
             /\ b[i].fact # b[k].half /\ b[i].fact # b[k].fact
    BY <1>2 DEF OnlineOf, Apart, About
<1>3. b[k].fact # b[k].half
    BY DEF OnlineOf, Apart
<1>4. \A i \in DOMAIN b : i < k + 1 => i < k \/ i = k
    BY DEF OnlineOf, Apart
<1>5. ASSUME NEW i \in DOMAIN b, i # k
      PROVE  (b[i].half \in T <=> b[i].half \in S) /\ (b[i].fact \in T <=> b[i].fact \in S)
    BY <1>2, <1>5
<1>6. b[k].half \notin T /\ b[k].fact \in T
    BY <1>3
<1> HIDE DEF T
<1>7. b[k].half \in S
    BY DEF UpTo
<1>8. UpTo(b, c, base, T, k + 1, FALSE)
    BY <1>1, <1>4, <1>5, <1>6 DEF UpTo
<1> QED BY <1>7, <1>8 DEF T

LEMMA UpValidates ==
    ASSUME NEW b, NEW c, NEW base, OnlineOf(b, c, base), NEW S,
           NEW k \in DOMAIN b, UpTo(b, c, base, S, k, FALSE), b[k].op # "create"
    PROVE  UpTo(b, c, base, S \ {b[k].half}, k + 1, FALSE)
<1> DEFINE T == S \ {b[k].half}
<1>1. T \ Aside(b) = Apply(c, base) \ Aside(b)
    BY AboutAside DEF UpTo
<1>2. ASSUME NEW i \in DOMAIN b, i # k
      PROVE  b[i].half # b[k].half /\ b[i].fact # b[k].half
    BY <1>2 DEF OnlineOf, Apart, About
<1>3. b[k].fact # b[k].half
    BY DEF OnlineOf, Apart
<1>4. \A i \in DOMAIN b : i < k + 1 => i < k \/ i = k
    BY DEF OnlineOf, Apart
<1>5. ASSUME NEW i \in DOMAIN b, i # k
      PROVE  (b[i].half \in T <=> b[i].half \in S) /\ (b[i].fact \in T <=> b[i].fact \in S)
    BY <1>2, <1>5
<1>6. b[k].half \notin T /\ (b[k].fact \in S => b[k].fact \in T)
    BY <1>3
<1> HIDE DEF T
<1>7. UpTo(b, c, base, T, k + 1, FALSE)
    BY <1>1, <1>4, <1>5, <1>6 DEF UpTo
<1> QED BY <1>7 DEF T

LEMMA UpPasses ==
    ASSUME NEW b, NEW c, NEW base, OnlineOf(b, c, base), NEW S,
           NEW k \in Nat, NEW n \in Nat, UpTo(b, c, base, S, k, FALSE),
           \A i \in k..(n - 1) : i \in DOMAIN b =>
               IF b[i].op = "create" THEN About(b[i]) \cap S # {} ELSE b[i].half \notin S
    PROVE  UpTo(b, c, base, S, n, FALSE)
<1>1. \A i \in DOMAIN b : i < n => i < k \/ i \in k..(n - 1)
    BY DEF OnlineOf, Apart
<1>2. ASSUME NEW i \in DOMAIN b, b[i].op = "create", i < n PROVE b[i].fact \in S
    BY <1>1, <1>2 DEF UpTo, About
<1>3. ASSUME NEW i \in DOMAIN b, b[i].op # "create", i < n PROVE b[i].half \notin S
    BY <1>1, <1>3 DEF UpTo
<1> QED BY <1>2, <1>3 DEF UpTo

LEMMA UpLeaves ==
    ASSUME NEW b, NEW c, NEW base, OnlineOf(b, c, base), NEW S,
           NEW k \in Nat, k > Len(b), UpTo(b, c, base, S, k, FALSE), NEW f, f \notin Lost
    PROVE  f \in S <=> \/ f \in Established(b)
                       \/ f \in Apply(c, base) /\ f \notin Halves(b)
<1>1. \A i \in DOMAIN b : i < k
    BY DEF OnlineOf, Apart
<1>2. ASSUME f \in Established(b) PROVE f \in S
    BY <1>1, <1>2 DEF UpTo, Established
<1>3. ASSUME f \in Halves(b) PROVE f \notin S
    BY <1>1, <1>3 DEF UpTo, Halves
<1>4. f \notin Established(b) /\ f \notin Halves(b) => (f \in S <=> f \in Apply(c, base))
    BY DEF UpTo, Aside
<1> QED BY <1>2, <1>3, <1>4

LEMMA DownDrops ==
    ASSUME NEW b, NEW c, NEW base, OfflineOf(b, c, base), NEW S,
           NEW k \in DOMAIN b, DownTo(b, c, base, S, k)
    PROVE  DownTo(b, c, base, S \ {b[k].fact, b[k].half}, k + 1)
<1>1. (S \ {b[k].fact, b[k].half}) \ Aside(b) = Apply(c, base) \ Aside(b)
    BY AboutAside DEF DownTo
<1>2. \A i \in DOMAIN b : i < k + 1 => i < k \/ i = k
    BY DEF OfflineOf, Apart
<1> QED BY <1>1, <1>2 DEF DownTo, About

LEMMA DownPasses ==
    ASSUME NEW b, NEW c, NEW base, OfflineOf(b, c, base), NEW S,
           NEW k \in Nat, NEW n \in Nat, DownTo(b, c, base, S, k),
           \A i \in k..(n - 1) : i \in DOMAIN b => About(b[i]) \cap S = {}
    PROVE  DownTo(b, c, base, S, n)
<1>1. \A i \in DOMAIN b : i < n => i < k \/ i \in k..(n - 1)
    BY DEF OfflineOf, Apart
<1> QED BY <1>1 DEF DownTo

LEMMA DownLeaves ==
    ASSUME NEW b, NEW c, NEW base, OfflineOf(b, c, base), NEW S,
           NEW k \in Nat, k > Len(b), DownTo(b, c, base, S, k), NEW f, f \notin Lost
    PROVE  f \in S <=> f \in Apply(c, base) /\ f \notin Established(b) \cup Halves(b)
<1>1. \A i \in DOMAIN b : i < k
    BY DEF OfflineOf, Apart
<1>2. ASSUME f \in Established(b) \cup Halves(b) PROVE f \notin S
    BY <1>1, <1>2 DEF DownTo, Established, Halves, About
<1>3. f \notin Established(b) \cup Halves(b) => (f \in S <=> f \in Apply(c, base))
    BY DEF DownTo, Aside
<1> QED BY <1>2, <1>3

-----------------------------------------------------------------------------
(***************************************************************************)
(* What the schema is while no run is bound to end half-way: the only run  *)
(* that is half-way has the schema of its block, uncommitted work is that  *)
(* of its revision, and while nothing is half done so is the schema.       *)
(***************************************************************************)
HalfOK(r) ==
  LET b == Block(r)
      c == Change(r)
      base == Kept[run[r].at]
  IN  /\ run[r].up /\ run[r].pc = "building" => UpTo(b, c, base, schema, run[r].k, TRUE)
      /\ run[r].up /\ run[r].pc = "block" => UpTo(b, c, base, schema, run[r].k, FALSE)
      /\ ~run[r].up => DownTo(b, c, base, schema, run[r].k)

NobodyHalf == \A r \in Runs : ~run[r].half
HalfWay == \A r \in Runs : run[r].half /\ dirty # r => HalfOK(r)
WorkBuilt ==
  (\A r \in Runs : run[r].half => dirty = r) /\ dirty # Nobody =>
      work.schema \ Lost = Kept[work.version]
RestBuilt ==
  NobodyHalf => /\ schema \ Lost = Kept[version]
                /\ \A r \in Runs : run[r].pc = "block" /\ run[r].at = version => run[r].k = 1

ContentInv == ~spoilt /\ ~Fated => HalfWay /\ WorkBuilt /\ RestBuilt
MigrationInv == TypedRuns /\ OrderInv /\ ContentInv

LEMMA OthersHalf ==
    ASSUME NEW r \in Runs, NEW q \in Runs \ {r}, run'[q] = run[q], schema' = schema
    PROVE  HalfOK(q)' <=> HalfOK(q)
<1>1. Block(q)' = Block(q) /\ Change(q)' = Change(q)
    BY DEF Block, Change
<1> QED BY <1>1 DEF HalfOK

(* A run alone in a block, at the committed revision, has its schema, even *)
(* if it has not done anything yet.                                        *)
LEMMA AloneInBlock ==
    ASSUME MigrationInv, ~spoilt, ~Fated, NEW r \in Runs, InsideBlock(r),
           run[r].at = version, \A q \in Runs \ {r} : ~run[q].half
    PROVE  HalfOK(r)
<1>0. TypedRuns /\ HalfWay /\ RestBuilt
    BY DEF MigrationInv, ContentInv
<1>1. Before(r) /\ dirty # r /\ (run[r].half \/ Change(r) = Nothing)
    BY <1>0, InsideRun
<1>2. CASE run[r].half
    BY <1>0, <1>1, <1>2 DEF HalfWay
<1>3. CASE ~run[r].half
  <2>1. run[r].pc = "block"
    BY <1>0, <1>3 DEF TypedRuns, RunInv, ShapeOK, InsideBlock
  <2>2. schema \ Lost = Kept[run[r].at] /\ run[r].k = 1
    BY <1>0, <1>3, <2>1 DEF RestBuilt, NobodyHalf
  <2>3. Apply(Change(r), schema) = schema
    BY <1>1, <1>3, ApplyNothing
  <2>4. CASE run[r].up
    <3>1. OnlineOf(Block(r), Change(r), Kept[run[r].at])
      BY <1>0, <1>1, <2>4, RunBlock
    <3>2. UpTo(Block(r), Change(r), Kept[run[r].at], Apply(Change(r), schema), 1, FALSE)
      BY <2>2, <3>1, UpEnters
    <3> QED BY <2>1, <2>2, <2>3, <2>4, <3>2 DEF HalfOK
  <2>5. CASE ~run[r].up
    <3>1. OfflineOf(Block(r), Change(r), Kept[run[r].at])
      BY <1>0, <1>1, <2>5, RunBlock
    <3>2. DownTo(Block(r), Change(r), Kept[run[r].at], Apply(Change(r), schema), 1)
      BY <2>2, <3>1, DownEnters
    <3> QED BY <2>1, <2>2, <2>3, <2>5, <3>2 DEF HalfOK
  <2> QED BY <2>4, <2>5
<1> QED BY <1>2, <1>3

(* A statement that does its part keeps the invariant.                     *)
LEMMA StatementContent ==
    ASSUME MigrationInv, NEW r \in Runs, InsideBlock(r), NEW phase, NEW k,
           Goes(r, phase, k, TRUE), UNCHANGED <<version, dirty, work, spoilt>>,
           ~spoilt' /\ Fated => Fated',
           HalfOK(r) => HalfOK(r)'
    PROVE  ContentInv'
<1> SUFFICES ASSUME ~spoilt', ~Fated' PROVE (HalfWay /\ WorkBuilt /\ RestBuilt)'
    BY DEF ContentInv
<1>0. TypedRuns /\ OrderInv /\ ~spoilt /\ ~Fated
    BY DEF MigrationInv
<1>1. /\ \A q \in Runs \ {r} : run'[q] = run[q]
      /\ run'[r].half /\ run'[r].at = run[r].at
    BY DEF Goes
<1>2. dirty # r /\ Active(r) /\ run[r].at \in Int /\ version \in Int
    BY <1>0, InsideRun, RunValues DEF InsideBlock, Active
<1>3. \A q \in Runs \ {r} : ~run[q].half
    BY <1>1 DEF Fated
<1>4. run[r].at = version
  <2>1. run[r].at <= version
    BY <1>0, <1>2 DEF OrderInv
  <2>2. ~(run[r].at < version)
    BY <1>1, <1>2 DEF Fated
  <2> QED BY <1>2, <2>1, <2>2
<1>5. HalfOK(r)'
    BY <1>0, <1>3, <1>4, AloneInBlock
<1>6. HalfWay'
    BY <1>1, <1>3, <1>5 DEF HalfWay
<1>7. WorkBuilt'
    BY <1>1, <1>2 DEF WorkBuilt
<1>8. RestBuilt'
    BY <1>1 DEF RestBuilt, NobodyHalf
<1> QED BY <1>6, <1>7, <1>8

LEMMA GoesOn ==
    ASSUME NEW r \in Runs, NEW phase, NEW k, NEW half, Goes(r, phase, k, half)
    PROVE  /\ Block(r)' = Block(r) /\ Change(r)' = Change(r)
           /\ run'[r].up = run[r].up /\ run'[r].at = run[r].at /\ run'[r].pc = phase /\ run'[r].k = k
BY DEF Goes, Block, Change

(* The statement a run is at.                                              *)
LEMMA AtStatement ==
    ASSUME TypedRuns, NEW r \in Runs, InsideBlock(r), run[r].k <= Len(Block(r))
    PROVE  /\ run[r].k \in DOMAIN Block(r) /\ Statement(r) = Block(r)[run[r].k]
           /\ run[r].up => /\ OnlineOf(Block(r), Change(r), Kept[run[r].at])
                           /\ Statement(r).op \in {"create", "validate"}
           /\ ~run[r].up => /\ OfflineOf(Block(r), Change(r), Kept[run[r].at])
                            /\ Statement(r).op = "drop"
<1>1. Before(r) /\ run[r].k \in DOMAIN Block(r)
    BY InsideRun
<1>2. /\ run[r].up => OnlineOf(Block(r), Change(r), Kept[run[r].at])
      /\ ~run[r].up => OfflineOf(Block(r), Change(r), Kept[run[r].at])
    BY <1>1, RunBlock
<1> QED BY <1>1, <1>2 DEF Statement, OnlineOf, OfflineOf

LEMMA BeginIndexContent ==
    ASSUME MigrationInv, NEW r \in Runs, BeginIndex(r)
    PROVE  Orderly(r) /\ ((~spoilt' /\ Fated => Fated') => ContentInv')
<1>1. TypedRuns /\ OrderInv
    BY DEF MigrationInv
<1>2. InsideBlock(r) /\ run[r].pc = "block" /\ run[r].k <= Len(Block(r)) /\ Statement(r).op = "create"
    BY DEF BeginIndex, InBlock, InsideBlock
<1>3. Goes(r, "building", run[r].k, TRUE) /\ UNCHANGED <<version, dirty, work, spoilt>>
    BY <1>1, BeginIndexTyped DEF BeginIndex
<1>4. ASSUME HalfOK(r) PROVE HalfOK(r)'
  <2>1. /\ run[r].up /\ run[r].k \in DOMAIN Block(r) /\ Statement(r) = Block(r)[run[r].k]
        /\ OnlineOf(Block(r), Change(r), Kept[run[r].at])
    BY <1>1, <1>2, AtStatement
  <2>2. UpTo(Block(r), Change(r), Kept[run[r].at], schema, run[r].k, FALSE)
    BY <1>2, <1>4, <2>1 DEF HalfOK
  <2>3. schema' = schema \cup {Block(r)[run[r].k].half} /\ Block(r)[run[r].k].op = "create"
    BY <1>2, <2>1 DEF BeginIndex
  <2>4. UpTo(Block(r), Change(r), Kept[run[r].at], schema', run[r].k, TRUE)
    BY <2>1, <2>2, <2>3, UpBegins
  <2>5. /\ Block(r)' = Block(r) /\ Change(r)' = Change(r) /\ run'[r].up = run[r].up
        /\ run'[r].at = run[r].at /\ run'[r].pc = "building" /\ run'[r].k = run[r].k
    BY <1>3, GoesOn, ZenonT(40)
  <2> QED BY <2>1, <2>4, <2>5 DEF HalfOK
<1>5. Orderly(r)
    BY <1>1, <1>2, <1>3, GoesOrder
<1>6. (~spoilt' /\ Fated => Fated') => ContentInv'
    BY <1>2, <1>3, <1>4, StatementContent
<1> QED BY <1>5, <1>6

LEMMA FinishIndexContent ==
    ASSUME MigrationInv, NEW r \in Runs, FinishIndex(r)
    PROVE  Orderly(r) /\ ((~spoilt' /\ Fated => Fated') => ContentInv')
<1>1. TypedRuns /\ OrderInv
    BY DEF MigrationInv
<1>2. InsideBlock(r) /\ run[r].pc = "building"
    BY DEF FinishIndex, InsideBlock
<1>3. Goes(r, "block", run[r].k + 1, TRUE) /\ UNCHANGED <<version, dirty, work, spoilt>>
    BY <1>1, StatementTyped DEF FinishIndex
<1>4. run[r].k <= Len(Block(r)) /\ Statement(r).op = "create"
    BY <1>1, <1>2 DEF TypedRuns, RunInv, ShapeOK
<1>5. ASSUME HalfOK(r) PROVE HalfOK(r)'
  <2>1. /\ run[r].up /\ run[r].k \in DOMAIN Block(r) /\ Statement(r) = Block(r)[run[r].k]
        /\ OnlineOf(Block(r), Change(r), Kept[run[r].at])
    BY <1>1, <1>2, <1>4, AtStatement
  <2>2. UpTo(Block(r), Change(r), Kept[run[r].at], schema, run[r].k, TRUE)
    BY <1>2, <1>5, <2>1 DEF HalfOK
  <2>3. UpTo(Block(r), Change(r), Kept[run[r].at], schema', run[r].k + 1, FALSE)
    BY <1>4, <2>1, <2>2, UpFinishes DEF FinishIndex
  <2>4. /\ Block(r)' = Block(r) /\ Change(r)' = Change(r) /\ run'[r].up = run[r].up
        /\ run'[r].at = run[r].at /\ run'[r].pc = "block" /\ run'[r].k = run[r].k + 1
    BY <1>3, GoesOn
  <2> QED BY <2>1, <2>3, <2>4 DEF HalfOK
<1>6. Orderly(r)
    BY <1>1, <1>2, <1>3, GoesOrder
<1>7. (~spoilt' /\ Fated => Fated') => ContentInv'
    BY <1>2, <1>3, <1>5, StatementContent
<1> QED BY <1>6, <1>7

LEMMA DropContent ==
    ASSUME MigrationInv, NEW r \in Runs, DropConcurrently(r)
    PROVE  Orderly(r) /\ ((~spoilt' /\ Fated => Fated') => ContentInv')
<1>1. TypedRuns /\ OrderInv
    BY DEF MigrationInv
<1>2. InsideBlock(r) /\ run[r].k <= Len(Block(r)) /\ Statement(r).op = "drop"
    BY DEF DropConcurrently, InBlock, InsideBlock
<1>3. Goes(r, "block", run[r].k + 1, TRUE) /\ UNCHANGED <<version, dirty, work, spoilt>>
    BY <1>1, StatementTyped DEF DropConcurrently
<1>4. ASSUME HalfOK(r) PROVE HalfOK(r)'
  <2>1. /\ ~run[r].up /\ run[r].k \in DOMAIN Block(r) /\ Statement(r) = Block(r)[run[r].k]
        /\ OfflineOf(Block(r), Change(r), Kept[run[r].at])
    BY <1>1, <1>2, AtStatement
  <2>2. DownTo(Block(r), Change(r), Kept[run[r].at], schema, run[r].k)
    BY <1>4, <2>1 DEF HalfOK
  <2>3. DownTo(Block(r), Change(r), Kept[run[r].at], schema', run[r].k + 1)
    BY <2>1, <2>2, DownDrops DEF DropConcurrently
  <2> QED BY <1>3, <2>1, <2>3, GoesOn DEF HalfOK
<1>5. Orderly(r)
    BY <1>1, <1>2, <1>3, GoesOrder
<1>6. (~spoilt' /\ Fated => Fated') => ContentInv'
    BY <1>2, <1>3, <1>4, StatementContent
<1> QED BY <1>5, <1>6

LEMMA ValidateContent ==
    ASSUME MigrationInv, NEW r \in Runs, ValidateConstraint(r)
    PROVE  Orderly(r) /\ ((~spoilt' /\ Fated => Fated') => ContentInv')
<1>1. TypedRuns /\ OrderInv
    BY DEF MigrationInv
<1>2. InsideBlock(r) /\ run[r].pc = "block" /\ run[r].k <= Len(Block(r)) /\ Statement(r).op = "validate"
    BY DEF ValidateConstraint, InBlock, InsideBlock
<1>3. Goes(r, "block", run[r].k + 1, TRUE) /\ UNCHANGED <<version, dirty, work, spoilt>>
    BY <1>1, StatementTyped DEF ValidateConstraint
<1>4. ASSUME HalfOK(r) PROVE HalfOK(r)'
  <2>1. /\ run[r].up /\ run[r].k \in DOMAIN Block(r) /\ Statement(r) = Block(r)[run[r].k]
        /\ OnlineOf(Block(r), Change(r), Kept[run[r].at])
    BY <1>1, <1>2, AtStatement
  <2>2. UpTo(Block(r), Change(r), Kept[run[r].at], schema, run[r].k, FALSE)
    BY <1>2, <1>4, <2>1 DEF HalfOK
  <2>3. UpTo(Block(r), Change(r), Kept[run[r].at], schema', run[r].k + 1, FALSE)
    BY <1>2, <2>1, <2>2, UpValidates DEF ValidateConstraint
  <2>4. /\ Block(r)' = Block(r) /\ Change(r)' = Change(r) /\ run'[r].up = run[r].up
        /\ run'[r].at = run[r].at /\ run'[r].pc = "block" /\ run'[r].k = run[r].k + 1
    BY <1>3, GoesOn
  <2> QED BY <2>1, <2>3, <2>4 DEF HalfOK
<1>5. Orderly(r)
    BY <1>1, <1>2, <1>3, GoesOrder
<1>6. (~spoilt' /\ Fated => Fated') => ContentInv'
    BY <1>2, <1>3, <1>4, StatementContent
<1> QED BY <1>5, <1>6

-----------------------------------------------------------------------------
(* A run begins, waits, or ends with nothing half done.                    *)
LEMMA QuietContent ==
    ASSUME MigrationInv, NEW r \in Runs, ~run[r].half, ~run'[r].half, run'[r].pc # "block",
           \A q \in Runs \ {r} : run'[q] = run[q] /\ (dirty' = q <=> dirty = q),
           dirty' # Nobody => dirty' = dirty /\ work' = work,
           UNCHANGED <<schema, version, spoilt>>,
           ~spoilt' /\ Fated => Fated'
    PROVE  ContentInv'
<1> SUFFICES ASSUME ~spoilt', ~Fated' PROVE (HalfWay /\ WorkBuilt /\ RestBuilt)'
    BY DEF ContentInv
<1>1. HalfWay /\ WorkBuilt /\ RestBuilt
    BY DEF MigrationInv, ContentInv
<1>2. HalfWay'
  <2> SUFFICES ASSUME NEW q \in Runs, run'[q].half, dirty' # q PROVE HalfOK(q)'
    BY DEF HalfWay
  <2>1. q \in Runs \ {r} /\ run'[q] = run[q] /\ dirty # q
    OBVIOUS
  <2> QED BY <1>1, <2>1, OthersHalf DEF HalfWay
<1>3. WorkBuilt'
    BY <1>1 DEF WorkBuilt
<1>4. NobodyHalf' => NobodyHalf
    BY DEF NobodyHalf
<1>5. RestBuilt'
  <2> SUFFICES ASSUME NobodyHalf'
               PROVE  /\ schema' \ Lost = Kept[version']
                      /\ \A q \in Runs : run'[q].pc = "block" /\ run'[q].at = version' => run'[q].k = 1
    BY DEF RestBuilt
  <2> QED BY <1>1, <1>4 DEF RestBuilt
<1> QED BY <1>2, <1>3, <1>5

LEMMA BeginContent ==
    ASSUME MigrationInv, NEW r \in Runs, run[r].pc = "idle",
           NEW to \in RunRec, to.pc = "waiting", to.half = FALSE, run' = [run EXCEPT ![r] = to],
           UNCHANGED <<schema, version, dirty, work, spoilt>>
    PROVE  Orderly(r) /\ ((~spoilt' /\ Fated => Fated') => ContentInv')
<1>1. TypedRuns /\ OrderInv
    BY DEF MigrationInv
<1>2. ~run[r].half
    BY <1>1 DEF TypedRuns, RunInv, ShapeOK, Active
<1>3. run'[r] = to /\ \A q \in Runs \ {r} : run'[q] = run[q]
    BY <1>1 DEF TypedRuns, MigrationsTypeOK
<1>4. Orderly(r)
    BY <1>1, <1>2, QuietOrder
<1>5. (~spoilt' /\ Fated => Fated') => ContentInv'
    BY <1>2, <1>3, QuietContent
<1> QED BY <1>4, <1>5

LEMMA UpgradeContent ==
    ASSUME MigrationInv, NEW r \in Runs, NEW h \in Images, Upgrade(r, h)
    PROVE  Orderly(r) /\ ((~spoilt' /\ Fated => Fated') => ContentInv')
<1> DEFINE to == [Idle EXCEPT !.pc = "waiting", !.goal = h]
<1>1. to \in RunRec /\ to.pc = "waiting" /\ to.half = FALSE
    BY RunsAssumption, IdleTyped DEF RunRec
<1>2. /\ run[r].pc = "idle" /\ run' = [run EXCEPT ![r] = to]
      /\ UNCHANGED <<schema, version, dirty, work, spoilt>>
    BY DEF Upgrade
<1> HIDE DEF to
<1> QED BY <1>1, <1>2, BeginContent

LEMMA DowngradeContent ==
    ASSUME MigrationInv, NEW r \in Runs, NEW g \in Goals, Downgrade(r, g)
    PROVE  Orderly(r) /\ ((~spoilt' /\ Fated => Fated') => ContentInv')
<1> DEFINE to == [Idle EXCEPT !.pc = "waiting", !.up = FALSE, !.goal = g]
<1>1. to \in RunRec /\ to.pc = "waiting" /\ to.half = FALSE
    BY RunsAssumption, IdleTyped DEF RunRec
<1>2. /\ run[r].pc = "idle" /\ run' = [run EXCEPT ![r] = to]
      /\ UNCHANGED <<schema, version, dirty, work, spoilt>>
    BY DEF Downgrade
<1> HIDE DEF to
<1> QED BY <1>1, <1>2, BeginContent

LEMMA TakeLockContent ==
    ASSUME MigrationInv, NEW r \in Runs, TakeLock(r)
    PROVE  Orderly(r) /\ ((~spoilt' /\ Fated => Fated') => ContentInv')
<1>1. TypedRuns /\ OrderInv
    BY DEF MigrationInv
<1>2. run[r] \in RunRec /\ version \in 0..Newest /\ run[r].pc = "waiting"
    BY <1>1 DEF TakeLock, TypedRuns, MigrationsTypeOK, RunRec
<1>3. ~run[r].half
    BY <1>1, <1>2 DEF TypedRuns, RunInv, ShapeOK, Active
<1> DEFINE to == [run[r] EXCEPT !.pc = "steps", !.at = version]
<1>4. run' = [run EXCEPT ![r] = to] \/ run' = [run EXCEPT ![r] = Idle]
    BY DEF TakeLock
<1>5. to.half = run[r].half /\ to.pc = "steps"
    BY <1>2 DEF RunRec
<1> HIDE DEF to
<1>6. (run'[r] = to \/ run'[r] = Idle) /\ \A q \in Runs \ {r} : run'[q] = run[q]
    BY <1>1, <1>4 DEF TypedRuns, MigrationsTypeOK
<1>7. ~run'[r].half /\ run'[r].pc # "block" /\ \A q \in Runs \ {r} : run'[q] = run[q]
    BY <1>3, <1>5, <1>6, IdleTyped
<1>8. UNCHANGED <<schema, version, dirty, work, spoilt>>
    BY DEF TakeLock
<1>9. Orderly(r)
    BY <1>1, TakeLockOrder
<1>10. (~spoilt' /\ Fated => Fated') => ContentInv'
    BY <1>3, <1>7, <1>8, QuietContent
<1> QED BY <1>9, <1>10

LEMMA AbortContent ==
    ASSUME MigrationInv, NEW r \in Runs, Abort(r)
    PROVE  Orderly(r) /\ ((~spoilt' /\ Fated => Fated') => ContentInv')
<1>1. TypedRuns /\ OrderInv
    BY DEF MigrationInv
<1>2. Orderly(r)
    BY <1>1, AbortOrder
<1>3. /\ run'[r] = Idle /\ UNCHANGED <<schema, version>>
      /\ dirty' # Nobody => dirty' = dirty /\ work' = work
      /\ run[r].half => spoilt'
      /\ ~spoilt' => ~spoilt /\ spoilt' = spoilt
    BY <1>1 DEF Abort, TypedRuns, MigrationsTypeOK
<1>4. ASSUME ~spoilt' /\ Fated => Fated' PROVE ContentInv'
  <2>1. CASE spoilt'
    BY <2>1 DEF ContentInv
  <2>2. CASE ~spoilt'
    BY <1>2, <1>3, <1>4, <2>2, QuietContent, IdleTyped DEF Orderly
  <2> QED BY <2>1, <2>2
<1> QED BY <1>2, <1>4

(* Where a migration leads: the schema of the next revision.               *)
LEMMA Arrives ==
    ASSUME TypedRuns, NEW r \in Runs, Before(r), NEW S,
           \A f : f \notin Lost =>
             (f \in S <=>
                IF run[r].up
                THEN \/ f \in Established(Block(r))
                     \/ f \in Apply(Change(r), Kept[run[r].at]) /\ f \notin Halves(Block(r))
                ELSE /\ f \in Apply(Change(r), Kept[run[r].at])
                     /\ f \notin Established(Block(r)) \cup Halves(Block(r)))
    PROVE  S \ Lost = Kept[Onward(r)]
<1>1. /\ run[r] \in RunRec /\ Onward(r) \in 0..Newest
      /\ run[r].up => run[r].at + 1 \in 1..Newest
      /\ ~run[r].up => run[r].at \in 1..Newest
    BY AtMigration DEF TypedRuns
<1>2. run[r].at \in Int
    BY <1>1 DEF RunRec
<1>3. ASSUME NEW f, f \notin Lost PROVE f \in S <=> f \in Kept[Onward(r)]
  <2>1. CASE run[r].up
    <3> DEFINE v == run[r].at + 1
    <3>1. v \in 1..Newest /\ v - 1 = run[r].at /\ Onward(r) = v
      BY <1>1, <1>2, <2>1 DEF Onward
    <3>2. Block(r) = Chain[v].online /\ Change(r) = Chain[v].up
      BY <2>1 DEF Block, Change
    <3> HIDE DEF v
    <3>3. f \in Kept[v] <=> \/ f \in Established(Chain[v].online)
                            \/ f \in Apply(Chain[v].up, Kept[v - 1]) /\ f \notin Halves(Chain[v].online)
      BY <1>3, <3>1, KeptAbove
    <3> QED BY <1>3, <2>1, <3>1, <3>2, <3>3
  <2>2. CASE ~run[r].up
    <3> DEFINE v == run[r].at
    <3>1. v \in 1..Newest /\ Onward(r) = v - 1
      BY <1>1, <2>2 DEF Onward
    <3>2. Block(r) = Chain[v].offline /\ Change(r) = Chain[v].down
      BY <2>2 DEF Block, Change
    <3>3. f \in Kept[v - 1] <=> /\ f \in Apply(Chain[v].down, Kept[v])
                                /\ f \notin Established(Chain[v].offline) \cup Halves(Chain[v].offline)
      BY <1>3, <3>1, KeptBelow
    <3> QED BY <1>3, <2>2, <3>1, <3>2, <3>3
  <2> QED BY <2>1, <2>2
<1>4. Kept[Onward(r)] \cap Lost = {}
    BY <1>1 DEF Kept
<1> QED BY <1>3, <1>4

(* What a run sees, while nobody else is half-way, is built.               *)
LEMMA MineBuilt ==
    ASSUME MigrationInv, ~spoilt, ~Fated, NEW r \in Runs, dirty \in {r, Nobody},
           \A q \in Runs \ {r} : ~run[q].half, dirty # r => ~run[r].half
    PROVE  Mine(r).schema \ Lost = Kept[Mine(r).version]
<1>1. WorkBuilt /\ RestBuilt
    BY DEF MigrationInv, ContentInv
<1>2. CASE dirty = r
  <2>1. dirty # Nobody /\ \A q \in Runs : run[q].half => dirty = q
    BY <1>2, RunsAssumption
  <2> QED BY <1>1, <1>2, <2>1 DEF Mine, WorkBuilt
<1>3. CASE dirty # r
  <2>1. NobodyHalf
    BY <1>3 DEF NobodyHalf
  <2> QED BY <1>1, <1>3, <2>1 DEF Mine, RestBuilt
<1> QED BY <1>2, <1>3

LEMMA StepContent ==
    ASSUME MigrationInv, NEW r \in Runs, Step(r)
    PROVE  Orderly(r) /\ ((~spoilt' /\ Fated => Fated') => ContentInv')
<1>1. TypedRuns /\ OrderInv
    BY DEF MigrationInv
<1>2. Orderly(r)
    BY <1>1, StepOrder
<1> SUFFICES ASSUME ~spoilt' /\ Fated => Fated', ~spoilt', ~Fated'
             PROVE  (HalfWay /\ WorkBuilt /\ RestBuilt)'
    BY <1>2 DEF ContentInv
<1>3. /\ ~spoilt /\ ~Fated
      /\ dirty' = r /\ UNCHANGED <<schema, version>>
      /\ work' = [schema |-> Apply(Change(r), Mine(r).schema), version |-> Onward(r)]
      /\ Block(r) = <<>> /\ Mine(r).version = run[r].at
    BY DEF Step
<1>4. HalfWay /\ WorkBuilt /\ RestBuilt
    BY <1>3 DEF MigrationInv, ContentInv
<1>5. run[r].pc = "steps" /\ Before(r) /\ dirty \in {r, Nobody} /\ r # Nobody /\ (dirty # r => ~run[r].half)
    BY <1>1, DueRun DEF Step
<1>6. /\ \A q \in Runs \ {r} : run'[q] = run[q] /\ dirty # q
      /\ run'[r].half = run[r].half /\ run'[r].pc = run[r].pc
    BY <1>1, <1>5, RunsAssumption DEF Step, TypedRuns, MigrationsTypeOK
<1>7. HalfWay'
  <2> SUFFICES ASSUME NEW q \in Runs, run'[q].half, dirty' # q PROVE HalfOK(q)'
    BY DEF HalfWay
  <2>1. q \in Runs \ {r} /\ run'[q] = run[q] /\ dirty # q /\ run[q].half
    BY <1>3, <1>6
  <2> QED BY <1>3, <1>4, <2>1, OthersHalf DEF HalfWay
<1>8. WorkBuilt'
  <2> SUFFICES ASSUME \A q \in Runs : run'[q].half => dirty' = q
               PROVE  work'.schema \ Lost = Kept[work'.version]
    BY DEF WorkBuilt
  <2>1. \A q \in Runs \ {r} : ~run[q].half
    BY <1>3, <1>6
  <2>2. Mine(r).schema \ Lost = Kept[run[r].at]
    BY <1>3, <1>5, <2>1, MineBuilt
  <2>3. Established(Block(r)) = {} /\ Halves(Block(r)) = {}
    BY <1>3 DEF Established, Halves
  <2>4. \A f : f \notin Lost => (f \in Apply(Change(r), Mine(r).schema) <=> f \in Apply(Change(r), Kept[run[r].at]))
    BY <2>2, Alongside
  <2>5. Apply(Change(r), Mine(r).schema) \ Lost = Kept[Onward(r)]
    BY <1>1, <1>5, <2>3, <2>4, Arrives
  <2> QED BY <1>3, <2>5
<1>9. RestBuilt'
  <2> SUFFICES ASSUME NobodyHalf'
               PROVE  /\ schema' \ Lost = Kept[version']
                      /\ \A q \in Runs : run'[q].pc = "block" /\ run'[q].at = version' => run'[q].k = 1
    BY DEF RestBuilt
  <2>1. NobodyHalf
    BY <1>6 DEF NobodyHalf
  <2> QED BY <1>3, <1>4, <1>5, <1>6, <2>1 DEF RestBuilt
<1> QED BY <1>7, <1>8, <1>9

LEMMA EnterBlockContent ==
    ASSUME MigrationInv, NEW r \in Runs, EnterBlock(r)
    PROVE  Orderly(r) /\ ((~spoilt' /\ Fated => Fated') => ContentInv')
<1>1. TypedRuns /\ OrderInv
    BY DEF MigrationInv
<1>2. Orderly(r)
    BY <1>1, EnterBlockOrder
<1> SUFFICES ASSUME ~spoilt' /\ Fated => Fated', ~spoilt', ~Fated'
             PROVE  (HalfWay /\ WorkBuilt /\ RestBuilt)'
    BY <1>2 DEF ContentInv
<1>3. /\ ~spoilt /\ ~Fated
      /\ dirty' = Nobody /\ version' = Mine(r).version
      /\ schema' = Apply(Change(r), Mine(r).schema)
    BY DEF EnterBlock
<1>4. HalfWay /\ WorkBuilt /\ RestBuilt
    BY <1>3 DEF MigrationInv, ContentInv
<1>5. /\ run[r].pc = "steps" /\ Before(r) /\ dirty \in {r, Nobody} /\ r # Nobody
      /\ dirty # r => ~run[r].half
      /\ dirty = r => run[r].at = Mine(r).version
      /\ dirty = r => IF run[r].up THEN version < run[r].at ELSE run[r].at < version
    BY <1>1, DueRun DEF EnterBlock
<1>6. /\ TypedRuns'
      /\ \A q \in Runs \ {r} : run'[q] = run[q]
      /\ run'[r].pc = "block" /\ run'[r].k = 1 /\ run'[r].half = (Change(r) # Nothing)
      /\ run'[r].up = run[r].up /\ run'[r].at = run[r].at /\ run'[r].goal = run[r].goal
      /\ Change(r)' = Change(r) /\ Block(r)' = Block(r)
    BY <1>1, EnterBlockTyped
<1>7. version \in Int /\ version' \in Int /\ \A q \in Runs : run[q].at \in Int
    BY <1>1, <1>6, RunValues DEF TypedRuns, MigrationsTypeOK
<1>8. \A q \in Runs \ {r} : dirty # q /\ dirty' # q
    BY <1>3, <1>5, RunsAssumption
<1>9. WorkBuilt'
    BY <1>3 DEF WorkBuilt
<1>10. CASE Change(r) # Nothing
  <2>1. run'[r].half
    BY <1>6, <1>10
  <2>2. \A q \in Runs \ {r} : ~run'[q].half /\ ~run[q].half
    BY <1>6, <2>1 DEF Fated
  <2>3. run[r].at = version'
    <3>1. ~(run'[r].at < version')
      BY <1>3, <1>5, <2>1 DEF Fated
    <3>2. run'[r].at <= version'
      BY <1>1, <1>2, <1>3, <1>5, <1>6 DEF Orderly, Active
    <3> QED BY <1>6, <1>7, <3>1, <3>2
  <2>4. Mine(r).schema \ Lost = Kept[run[r].at]
    BY <1>3, <1>5, <2>2, <2>3, MineBuilt
  <2>5. HalfOK(r)'
    <3>1. CASE run[r].up
      <4>1. OnlineOf(Block(r), Change(r), Kept[run[r].at])
        BY <1>1, <1>5, <3>1, RunBlock
      <4>2. UpTo(Block(r), Change(r), Kept[run[r].at], schema', 1, FALSE)
        BY <1>3, <2>4, <4>1, UpEnters
      <4> QED BY <1>6, <3>1, <4>2 DEF HalfOK
    <3>2. CASE ~run[r].up
      <4>1. OfflineOf(Block(r), Change(r), Kept[run[r].at])
        BY <1>1, <1>5, <3>2, RunBlock
      <4>2. DownTo(Block(r), Change(r), Kept[run[r].at], schema', 1)
        BY <1>3, <2>4, <4>1, DownEnters
      <4> QED BY <1>6, <3>2, <4>2 DEF HalfOK
    <3> QED BY <3>1, <3>2
  <2>6. HalfWay'
    BY <2>2, <2>5 DEF HalfWay
  <2>7. RestBuilt'
    BY <2>1 DEF RestBuilt, NobodyHalf
  <2> QED BY <1>9, <2>6, <2>7
<1>11. CASE Change(r) = Nothing
  <2>1. ~run'[r].half /\ schema' = Mine(r).schema
    BY <1>3, <1>6, <1>11, ApplyNothing
  <2>2. CASE dirty = r
    <3>1. version' # version
      BY <1>3, <1>5, <1>7, <2>2
    <3>2. ASSUME NEW q \in Runs \ {r}, Active(q) PROVE run[q].at < version'
      <4>1. run[q].at <= version
        BY <1>1, <1>3, <1>8, <3>2 DEF OrderInv
      <4>2. version <= version'
        BY <1>2, <3>2 DEF Orderly
      <4> QED BY <1>7, <3>1, <4>1, <4>2
    <3>3. \A q \in Runs \ {r} : ~run[q].half
      <4> SUFFICES ASSUME NEW q \in Runs \ {r}, run[q].half PROVE FALSE
        OBVIOUS
      <4>1. Active(q)
        BY <1>1 DEF TypedRuns, RunInv, ShapeOK
      <4>2. run'[q].half /\ run'[q].at < version' /\ dirty' # q
        BY <1>6, <1>8, <3>2, <4>1
      <4> QED BY <4>2 DEF Fated
    <3>4. schema' \ Lost = Kept[version']
      BY <1>3, <1>5, <2>1, <3>3, MineBuilt
    <3>5. HalfWay'
      BY <1>6, <2>1, <3>3 DEF HalfWay
    <3>6. ASSUME NEW q \in Runs, run'[q].pc = "block", run'[q].at = version' PROVE run'[q].k = 1
      <4>1. CASE q # r
        <5>1. Active(q) /\ run[q].at = version'
          BY <1>6, <3>6, <4>1 DEF Active
        <5> QED BY <1>7, <3>2, <4>1, <5>1
      <4> QED BY <1>6, <4>1
    <3>7. RestBuilt'
      BY <3>4, <3>6 DEF RestBuilt
    <3> QED BY <1>9, <3>5, <3>7
  <2>3. CASE dirty # r
    <3>1. schema' = schema /\ version' = version /\ ~run[r].half
      BY <1>3, <1>5, <2>1, <2>3 DEF Mine
    <3>2. HalfWay'
      <4> SUFFICES ASSUME NEW q \in Runs, run'[q].half, dirty' # q PROVE HalfOK(q)'
        BY DEF HalfWay
      <4>1. q \in Runs \ {r} /\ run'[q] = run[q] /\ dirty # q /\ run[q].half
        BY <1>6, <1>8, <2>1
      <4> QED BY <1>4, <3>1, <4>1, OthersHalf DEF HalfWay
    <3>3. ASSUME NobodyHalf'
          PROVE  /\ schema' \ Lost = Kept[version']
                 /\ \A q \in Runs : run'[q].pc = "block" /\ run'[q].at = version' => run'[q].k = 1
      <4>1. NobodyHalf
        BY <1>6, <3>1, <3>3 DEF NobodyHalf
      <4> QED BY <1>4, <1>6, <3>1, <4>1 DEF RestBuilt
    <3>4. RestBuilt'
      BY <3>3 DEF RestBuilt
    <3> QED BY <1>9, <3>2, <3>4
  <2> QED BY <2>2, <2>3
<1> QED BY <1>10, <1>11

LEMMA CommitContent ==
    ASSUME MigrationInv, NEW r \in Runs, Commit(r)
    PROVE  Orderly(r) /\ ((~spoilt' /\ Fated => Fated') => ContentInv')
<1>1. TypedRuns /\ OrderInv
    BY DEF MigrationInv
<1>2. Orderly(r) /\ work.version # version
    BY <1>1, CommitOrder
<1> SUFFICES ASSUME ~spoilt' /\ Fated => Fated', ~spoilt', ~Fated'
             PROVE  (HalfWay /\ WorkBuilt /\ RestBuilt)'
    BY <1>2 DEF ContentInv
<1>3. /\ ~spoilt /\ ~Fated
      /\ dirty' = Nobody /\ version' = work.version /\ schema' = work.schema
    BY DEF Commit
<1>4. /\ TypedRuns' /\ dirty = r /\ r # Nobody
      /\ run'[r] = Idle /\ \A q \in Runs \ {r} : run'[q] = run[q]
    BY <1>1, CommitTyped, RunsAssumption
<1>5. version \in Int /\ version' \in Int /\ \A q \in Runs : run[q].at \in Int
    BY <1>1, <1>4, RunValues DEF TypedRuns, MigrationsTypeOK
<1>6. ASSUME NEW q \in Runs \ {r}, Active(q) PROVE run[q].at < version'
  <2>1. run[q].at <= version
    BY <1>1, <1>3, <1>4, <1>6 DEF OrderInv
  <2>2. version <= version'
    BY <1>2, <1>6 DEF Orderly
  <2> QED BY <1>2, <1>3, <1>5, <2>1, <2>2
<1>7. \A q \in Runs \ {r} : ~run[q].half
  <2> SUFFICES ASSUME NEW q \in Runs \ {r}, run[q].half PROVE FALSE
    OBVIOUS
  <2>1. Active(q)
    BY <1>1 DEF TypedRuns, RunInv, ShapeOK
  <2>2. run'[q].half /\ run'[q].at < version' /\ dirty' # q
    BY <1>3, <1>4, <1>6, <2>1, RunsAssumption
  <2> QED BY <2>2 DEF Fated
<1>8. schema' \ Lost = Kept[version']
  <2>1. Mine(r).schema \ Lost = Kept[Mine(r).version]
    BY <1>3, <1>4, <1>7, MineBuilt
  <2> QED BY <1>3, <1>4, <2>1 DEF Mine
<1>9. HalfWay'
    BY <1>4, <1>7, IdleTyped DEF HalfWay
<1>10. WorkBuilt'
    BY <1>3 DEF WorkBuilt
<1>11. ASSUME NEW q \in Runs, run'[q].pc = "block", run'[q].at = version' PROVE run'[q].k = 1
  <2>1. q # r
    BY <1>4, <1>11, IdleTyped
  <2>2. Active(q) /\ run[q].at = version'
    BY <1>4, <1>11, <2>1 DEF Active
  <2> QED BY <1>5, <1>6, <2>1, <2>2
<1>12. RestBuilt'
    BY <1>8, <1>11 DEF RestBuilt
<1> QED BY <1>9, <1>10, <1>12

(* A statement with nothing to do, of a run that has done something: it is *)
(* as if it had been done.                                                 *)
LEMMA PassesOn ==
    ASSUME TypedRuns, NEW r \in Runs, InBlock(r), NEW n \in Nat, run[r].k < n,
           NEW half, Goes(r, "block", n, half), UNCHANGED schema,
           \A i \in run[r].k..(n - 1) : Idling(Block(r)[i]), HalfOK(r)
    PROVE  HalfOK(r)'
<1>1. InsideBlock(r) /\ run[r].pc = "block" /\ run[r].k <= Len(Block(r))
    BY DEF InBlock, InsideBlock
<1>2. Before(r) /\ run[r].k \in Nat
    BY <1>1, InsideRun
<1>3. /\ Block(r)' = Block(r) /\ Change(r)' = Change(r) /\ run'[r].up = run[r].up
      /\ run'[r].at = run[r].at /\ run'[r].pc = "block" /\ run'[r].k = n
    BY GoesOn
<1>4. CASE run[r].up
  <2>1. OnlineOf(Block(r), Change(r), Kept[run[r].at])
    BY <1>2, <1>4, RunBlock
  <2>2. \A i \in run[r].k..(n - 1) : i \in DOMAIN Block(r) =>
          IF Block(r)[i].op = "create" THEN About(Block(r)[i]) \cap schema # {} ELSE Block(r)[i].half \notin schema
    <3> SUFFICES ASSUME NEW i \in run[r].k..(n - 1), i \in DOMAIN Block(r)
                 PROVE  IF Block(r)[i].op = "create"
                        THEN About(Block(r)[i]) \cap schema # {} ELSE Block(r)[i].half \notin schema
      OBVIOUS
    <3>1. Idling(Block(r)[i])
      OBVIOUS
    <3>2. Block(r)[i].op \in {"create", "validate"}
      BY <2>1 DEF OnlineOf
    <3> QED BY <3>1, <3>2 DEF Idling, About
  <2>3. UpTo(Block(r), Change(r), Kept[run[r].at], schema, run[r].k, FALSE)
    BY <1>1, <1>4 DEF HalfOK
  <2>4. UpTo(Block(r), Change(r), Kept[run[r].at], schema, n, FALSE)
    BY <1>2, <2>1, <2>2, <2>3, UpPasses
  <2> QED BY <1>3, <1>4, <2>4 DEF HalfOK
<1>5. CASE ~run[r].up
  <2>1. OfflineOf(Block(r), Change(r), Kept[run[r].at])
    BY <1>2, <1>5, RunBlock
  <2>2. \A i \in run[r].k..(n - 1) : i \in DOMAIN Block(r) => About(Block(r)[i]) \cap schema = {}
    <3> SUFFICES ASSUME NEW i \in run[r].k..(n - 1), i \in DOMAIN Block(r)
                 PROVE  About(Block(r)[i]) \cap schema = {}
      OBVIOUS
    <3>1. Idling(Block(r)[i])
      OBVIOUS
    <3>2. Block(r)[i].op = "drop"
      BY <2>1 DEF OfflineOf
    <3> QED BY <3>1, <3>2 DEF Idling, About
  <2>3. DownTo(Block(r), Change(r), Kept[run[r].at], schema, run[r].k)
    BY <1>5 DEF HalfOK
  <2>4. DownTo(Block(r), Change(r), Kept[run[r].at], schema, n)
    BY <1>2, <2>1, <2>2, <2>3, DownPasses
  <2> QED BY <1>3, <1>5, <2>4 DEF HalfOK
<1> QED BY <1>4, <1>5

(* The first statement of a block has something to do, unless the schema   *)
(* is not what the chain builds for the revision.                          *)
LEMMA FirstStatement ==
    ASSUME TypedRuns, NEW r \in Runs, InBlock(r), run[r].k = 1, Change(r) = Nothing,
           schema \ Lost = Kept[run[r].at]
    PROVE  ~Idling(Block(r)[1])
<1>1. InsideBlock(r) /\ run[r].k <= Len(Block(r))
    BY DEF InBlock, InsideBlock
<1>2. Before(r) /\ 1 \in DOMAIN Block(r)
    BY <1>1, InsideRun
<1>3. CASE run[r].up
  <2>1. OnlineOf(Block(r), Change(r), Kept[run[r].at])
    BY <1>2, <1>3, RunBlock
  <2>2. Nothing.add = {}
    BY DEF Nothing
  <2>3. Block(r)[1].op = "create" /\ About(Block(r)[1]) \cap (Lost \cup Kept[run[r].at]) = {}
    BY <1>2, <2>1, <2>2 DEF OnlineOf
  <2> QED BY <2>3 DEF Idling, About
<1>4. CASE ~run[r].up
  <2>1. OfflineOf(Block(r), Change(r), Kept[run[r].at])
    BY <1>2, <1>4, RunBlock
  <2>2. Block(r)[1].op = "drop" /\ Block(r)[1].fact \in Kept[run[r].at]
    BY <1>2, <2>1 DEF OfflineOf
  <2> QED BY <2>2 DEF Idling
<1> QED BY <1>3, <1>4

LEMMA SkipContent ==
    ASSUME MigrationInv, NEW r \in Runs, Skip(r)
    PROVE  Orderly(r) /\ ((~spoilt' /\ Fated => Fated') => ContentInv')
<1>1. TypedRuns /\ OrderInv
    BY DEF MigrationInv
<1>2. InBlock(r) /\ InsideBlock(r) /\ UNCHANGED <<schema, version, dirty, work, spoilt>>
    BY DEF Skip, InBlock, InsideBlock
<1>3. run[r] \in RunRec /\ run[r].k \in Nat /\ Len(Block(r)) \in Nat /\ (run[r].half \/ Change(r) = Nothing)
    BY <1>1, <1>2, InsideRun
<1>4. PICK n \in (run[r].k + 1)..(Len(Block(r)) + 1) :
             /\ Goes(r, "block", n, run[r].half)
             /\ \A i \in run[r].k..(n - 1) : Idling(Block(r)[i])
    BY <1>1, SkipTyped
<1>5. n \in Nat /\ run[r].k < n /\ run[r].k \in run[r].k..(n - 1) /\ run[r].half \in BOOLEAN
    BY <1>3 DEF RunRec
<1>6. Orderly(r)
    BY <1>1, <1>2, <1>4, <1>5, GoesOrder
<1>7. CASE run[r].half
  <2>1. Goes(r, "block", n, TRUE)
    BY <1>4, <1>5, <1>7
  <2>2. HalfOK(r) => HalfOK(r)'
    BY <1>1, <1>2, <1>4, <1>5, PassesOn
  <2>3. (~spoilt' /\ Fated => Fated') => ContentInv'
    BY <1>2, <2>1, <2>2, StatementContent
  <2> QED BY <1>6, <2>3
<1>8. CASE ~run[r].half
  <2> SUFFICES ASSUME ~spoilt' /\ Fated => Fated', ~spoilt', ~Fated'
               PROVE  (HalfWay /\ WorkBuilt /\ RestBuilt)'
    BY <1>6 DEF ContentInv
  <2>1. HalfWay /\ WorkBuilt /\ RestBuilt
    BY <1>2 DEF MigrationInv, ContentInv
  <2>2. /\ \A q \in Runs \ {r} : run'[q] = run[q]
        /\ run'[r].half = run[r].half /\ run'[r].at = run[r].at
    BY <1>4 DEF Goes
  <2>3. HalfWay'
    <3> SUFFICES ASSUME NEW q \in Runs, run'[q].half, dirty' # q PROVE HalfOK(q)'
      BY DEF HalfWay
    <3>1. q \in Runs \ {r} /\ run'[q] = run[q] /\ dirty # q /\ run[q].half
      BY <1>2, <1>8, <2>2
    <3> QED BY <1>2, <2>1, <3>1, OthersHalf DEF HalfWay
  <2>4. WorkBuilt'
    BY <1>2, <2>1, <2>2 DEF WorkBuilt
  <2>5. ASSUME NobodyHalf'
        PROVE  /\ schema' \ Lost = Kept[version']
               /\ \A q \in Runs : run'[q].pc = "block" /\ run'[q].at = version' => run'[q].k = 1
    <3>1. NobodyHalf
      BY <2>2, <2>5 DEF NobodyHalf
    <3>2. run[r].at # version
      <4> SUFFICES ASSUME run[r].at = version PROVE FALSE
        OBVIOUS
      <4>1. run[r].k = 1 /\ schema \ Lost = Kept[run[r].at]
        BY <1>2, <2>1, <3>1 DEF RestBuilt, InBlock
      <4>2. ~Idling(Block(r)[1])
        BY <1>1, <1>2, <1>3, <1>8, <4>1, FirstStatement
      <4> QED BY <1>4, <1>5, <4>1, <4>2
    <3> QED BY <1>2, <2>1, <2>2, <3>1, <3>2 DEF RestBuilt
  <2>6. RestBuilt'
    BY <2>5 DEF RestBuilt
  <2> QED BY <2>3, <2>4, <2>6
<1> QED BY <1>7, <1>8

(* At the end of its block a migration has made the schema of the next     *)
(* revision.                                                               *)
LEMMA BlockLeft ==
    ASSUME TypedRuns, NEW r \in Runs, Before(r), run[r].pc = "block",
           run[r].k \in Nat, run[r].k > Len(Block(r)), HalfOK(r)
    PROVE  schema \ Lost = Kept[Onward(r)]
<1>1. CASE run[r].up
  <2>1. OnlineOf(Block(r), Change(r), Kept[run[r].at])
    BY <1>1, RunBlock
  <2>2. UpTo(Block(r), Change(r), Kept[run[r].at], schema, run[r].k, FALSE)
    BY <1>1 DEF HalfOK
  <2>3. ASSUME NEW f, f \notin Lost
        PROVE  f \in schema <=>
                 \/ f \in Established(Block(r))
                 \/ f \in Apply(Change(r), Kept[run[r].at]) /\ f \notin Halves(Block(r))
    BY <2>1, <2>2, <2>3, UpLeaves
  <2> QED BY <1>1, <2>3, Arrives
<1>2. CASE ~run[r].up
  <2>1. OfflineOf(Block(r), Change(r), Kept[run[r].at])
    BY <1>2, RunBlock
  <2>2. DownTo(Block(r), Change(r), Kept[run[r].at], schema, run[r].k)
    BY <1>2 DEF HalfOK
  <2>3. ASSUME NEW f, f \notin Lost
        PROVE  f \in schema <=>
                 /\ f \in Apply(Change(r), Kept[run[r].at])
                 /\ f \notin Established(Block(r)) \cup Halves(Block(r))
    BY <2>1, <2>2, <2>3, DownLeaves
  <2> QED BY <1>2, <2>3, Arrives
<1> QED BY <1>1, <1>2

LEMMA LeaveBlockContent ==
    ASSUME MigrationInv, NEW r \in Runs, LeaveBlock(r)
    PROVE  Orderly(r) /\ ((~spoilt' /\ Fated => Fated') => ContentInv')
<1>1. TypedRuns /\ OrderInv
    BY DEF MigrationInv
<1>2. Orderly(r)
    BY <1>1, LeaveBlockOrder
<1>3. CASE version # run[r].at
    BY <1>3, AbortContent DEF LeaveBlock
<1>4. CASE version = run[r].at
  <2> SUFFICES ASSUME ~spoilt' /\ Fated => Fated', ~spoilt', ~Fated'
               PROVE  (HalfWay /\ WorkBuilt /\ RestBuilt)'
    BY <1>2 DEF ContentInv
  <2>1. /\ run'[r].pc = "steps" /\ run'[r].half = run[r].half
        /\ \A q \in Runs \ {r} : run'[q] = run[q]
        /\ dirty' = r /\ work' = [schema |-> schema, version |-> Onward(r)]
        /\ UNCHANGED <<schema, version, spoilt>>
    BY <1>1, <1>4, LeaveBlockTyped
  <2>2. run[r].pc = "block" /\ InsideBlock(r) /\ run[r].k > Len(Block(r)) /\ dirty \in {r, Nobody}
    BY DEF LeaveBlock, InsideBlock, Free
  <2>3. Before(r) /\ dirty # r /\ run[r].k \in Nat
    BY <1>1, <2>2, InsideRun
  <2>4. ~spoilt /\ ~Fated /\ HalfWay /\ WorkBuilt /\ RestBuilt
    BY <2>1 DEF MigrationInv, ContentInv
  <2>5. \A q \in Runs \ {r} : dirty # q /\ dirty' # q
    BY <2>1, <2>2, RunsAssumption
  <2>6. HalfWay'
    <3> SUFFICES ASSUME NEW q \in Runs, run'[q].half, dirty' # q PROVE HalfOK(q)'
      BY DEF HalfWay
    <3>1. q \in Runs \ {r} /\ run'[q] = run[q] /\ dirty # q /\ run[q].half
      BY <2>1, <2>5
    <3> QED BY <2>1, <2>4, <3>1, OthersHalf DEF HalfWay
  <2>7. ASSUME \A q \in Runs : run'[q].half => dirty' = q
        PROVE  schema \ Lost = Kept[Onward(r)]
    <3>1. \A q \in Runs \ {r} : ~run[q].half
      BY <2>1, <2>5, <2>7
    <3>2. HalfOK(r)
      BY <1>4, <2>2, <2>4, <3>1, AloneInBlock
    <3> QED BY <1>1, <2>2, <2>3, <3>2, BlockLeft
  <2>8. WorkBuilt'
    BY <2>1, <2>7 DEF WorkBuilt
  <2>9. ASSUME NobodyHalf'
        PROVE  /\ schema' \ Lost = Kept[version']
               /\ \A q \in Runs : run'[q].pc = "block" /\ run'[q].at = version' => run'[q].k = 1
    <3>1. NobodyHalf
      BY <2>1, <2>9 DEF NobodyHalf
    <3> QED BY <2>1, <2>4, <3>1 DEF RestBuilt
  <2>10. RestBuilt'
    BY <2>9 DEF RestBuilt
  <2> QED BY <2>6, <2>8, <2>10
<1> QED BY <1>2, <1>3, <1>4

LEMMA MigrationInvStarts == MigrationsInit => MigrationInv
<1> SUFFICES ASSUME MigrationsInit PROVE MigrationInv
    OBVIOUS
<1>1. \A r \in Runs : run[r] = Idle
    BY DEF MigrationsInit
<1>2. OrderInv
    BY <1>1, IdleTyped DEF OrderInv, Active
<1>3. schema \ Lost = Kept[version]
  <2>1. CASE schema = {} /\ version = 0
    <3>1. 0 \in 0..Newest /\ Built[0] = {}
      BY ChainAssumption
    <3> QED BY <2>1, <3>1 DEF Kept
  <2>2. CASE version = Ungrownable[1] /\ schema = Built[version] \ Ungrownable[2]
    <3>1. version \in 0..Newest /\ Ungrownable[2] \subseteq Lost
      BY <2>2, GrownAssumption
    <3>2. Kept[version] = Built[version] \ Lost
      BY <3>1 DEF Kept
    <3> HIDE DEF Kept, Lost
    <3> QED BY <2>2, <3>1, <3>2
  <2> QED BY <2>1, <2>2 DEF MigrationsInit
<1>4. HalfWay
    BY <1>1, IdleTyped DEF HalfWay
<1>5. WorkBuilt
    BY DEF MigrationsInit, WorkBuilt
<1>6. RestBuilt
    BY <1>1, <1>3, IdleTyped DEF RestBuilt
<1> QED BY <1>2, <1>4, <1>5, <1>6, StartTyped DEF MigrationInv, ContentInv

LEMMA MigrationInvKept ==
    ASSUME MigrationInv, [MigrationsNext]_migrationVars
    PROVE  MigrationInv'
<1>1. TypedRuns /\ OrderInv
    BY DEF MigrationInv
<1>2. TypedRuns'
    BY <1>1, TypedStep
<1>3. ASSUME NEW r \in Runs, Orderly(r), (~spoilt' /\ Fated => Fated') => ContentInv'
      PROVE  MigrationInv'
    BY <1>1, <1>2, <1>3, OrderKept DEF MigrationInv
<1>4. ASSUME NEW r \in Runs, NEW h \in Images, Upgrade(r, h) PROVE MigrationInv'
    BY <1>3, <1>4, UpgradeContent
<1>5. ASSUME NEW r \in Runs, NEW g \in Goals, Downgrade(r, g) PROVE MigrationInv'
    BY <1>3, <1>5, DowngradeContent
<1>6. ASSUME NEW r \in Runs, Abort(r) PROVE MigrationInv'
    BY <1>3, <1>6, AbortContent
<1>7. ASSUME NEW r \in Runs, RunStep(r) PROVE MigrationInv'
  <2>1. CASE TakeLock(r)
    BY <1>3, <2>1, TakeLockContent
  <2>2. CASE Step(r)
    BY <1>3, <2>2, StepContent
  <2>3. CASE EnterBlock(r)
    BY <1>3, <2>3, EnterBlockContent
  <2>4. CASE Refused(r) \/ RefusedInBlock(r)
    BY <1>6, <2>4 DEF Refused, RefusedInBlock
  <2>5. CASE Skip(r)
    BY <1>3, <2>5, SkipContent
  <2>6. CASE BeginIndex(r)
    BY <1>3, <2>6, BeginIndexContent
  <2>7. CASE FinishIndex(r)
    BY <1>3, <2>7, FinishIndexContent
  <2>8. CASE DropConcurrently(r)
    BY <1>3, <2>8, DropContent
  <2>9. CASE ValidateConstraint(r)
    BY <1>3, <2>9, ValidateContent
  <2>10. CASE LeaveBlock(r)
    BY <1>3, <2>10, LeaveBlockContent
  <2>11. CASE Commit(r)
    BY <1>3, <2>11, CommitContent
  <2> QED BY <1>7, <2>1, <2>2, <2>3, <2>4, <2>5, <2>6, <2>7, <2>8, <2>9, <2>10, <2>11 DEF RunStep
<1>8. ASSUME UNCHANGED migrationVars PROVE MigrationInv'
  <2>1. UNCHANGED <<schema, version, run, dirty, work, spoilt>>
    BY <1>8 DEF migrationVars
  <2>2. OrderInv'
    BY <1>1, <2>1 DEF OrderInv, Active
  <2>3. \A q \in Runs : HalfOK(q)' <=> HalfOK(q)
    BY <2>1 DEF HalfOK, Block, Change
  <2>4. (Fated' <=> Fated) /\ (WorkBuilt' <=> WorkBuilt) /\ (RestBuilt' <=> RestBuilt)
    BY <2>1 DEF Fated, WorkBuilt, RestBuilt, NobodyHalf
  <2>5. HalfWay => HalfWay'
    BY <2>1, <2>3 DEF HalfWay
  <2>6. ContentInv'
    BY <2>1, <2>4, <2>5 DEF MigrationInv, ContentInv
  <2> QED BY <1>2, <2>2, <2>6 DEF MigrationInv
<1> QED BY <1>4, <1>5, <1>6, <1>7, <1>8 DEF MigrationsNext, BreakOff

(* The revision in alembic_version says what the schema is: for every      *)
(* chain whose downgrades undo its upgrades, any number of runs and any    *)
(* failures, until a run ends between a block and the commit of its        *)
(* revision (src/alembic/env.py:45-66).                                    *)
THEOREM RevisionAlwaysNamesTheSchema == Migrations => []RevisionNamesTheSchema
<1>1. MigrationsInit => MigrationInv
    BY MigrationInvStarts
<1>2. MigrationInv /\ [MigrationsNext]_migrationVars => MigrationInv'
    BY MigrationInvKept
<1>3. MigrationInv => RevisionNamesTheSchema
  <2> SUFFICES ASSUME MigrationInv, ~spoilt, NobodyHalf PROVE schema \ Lost = Kept[version]
    BY DEF RevisionNamesTheSchema, NobodyHalf
  <2>1. ~Fated
    BY DEF Fated, NobodyHalf
  <2> QED BY <2>1 DEF MigrationInv, ContentInv, RestBuilt
<1> QED BY <1>1, <1>2, <1>3, PTL DEF Migrations

-----------------------------------------------------------------------------
(***************************************************************************)
(* References: a schema has all of a revision's references, keys and       *)
(* columns they join, but for those that may be lost, and no others.       *)
(***************************************************************************)
Matches(X, v) ==
  \A f : Relevant(f) => /\ f \in X => f \in Built[v]
                        /\ f \in Built[v] /\ f \notin Lost => f \in X
ReferencesInv ==
  /\ TypedRuns /\ Matches(schema, version)
  /\ dirty # Nobody => Matches(work.schema, work.version)

LEMMA LeavesAt ==
    ASSUME NEW c, Leaves(c), NEW S, NEW f, Relevant(f)
    PROVE  f \in Apply(c, S) <=> f \in S
<1>1. Dropped(c) = {} /\ f \notin c.add /\ f \notin c.del /\ f \notin c.ensure /\ f \notin c.loose
    BY DEF Leaves
<1>2. f \in Apply(c, S) <=> \/ f \in c.add \/ f \in c.ensure
                            \/ f \in S /\ f[1] \notin Dropped(c) /\ f \notin c.del /\ f \notin c.loose
    BY ApplyAt
<1> HIDE DEF Relevant
<1> QED BY <1>1, <1>2

(* Nothing a block is about is relevant.                                   *)
LEMMA BlockBeside ==
    ASSUME NEW v \in 1..Newest, NEW b \in {Chain[v].online, Chain[v].offline}
    PROVE  /\ \A i \in DOMAIN b : ~Relevant(b[i].fact) /\ ~Relevant(b[i].half)
           /\ \A f : Relevant(f) => f \notin Established(b) /\ f \notin Halves(b)
<1>1. Untouched(v)
    BY ReferencesAssumption
<1>2. \A i \in DOMAIN b : ~Relevant(b[i].fact) /\ ~Relevant(b[i].half)
    BY <1>1 DEF Untouched, About
<1>3. \A f : f \in Established(b) \cup Halves(b) => \E i \in DOMAIN b : f = b[i].fact \/ f = b[i].half
    BY DEF Established, Halves
<1> QED BY <1>2, <1>3

(* From a revision to the next, upwards and downwards.                     *)
LEMMA MatchesUp ==
    ASSUME NEW v \in 1..Newest, NEW X, Matches(X, v - 1)
    PROVE  /\ Chain[v].online = <<>> => Matches(Apply(Chain[v].up, X), v)
           /\ Chain[v].online # <<>> => Matches(X, v)
<1>1. \A f : Relevant(f) => (f \in Built[v] <=> f \in Apply(Chain[v].up, Built[v - 1]))
  <2>1. Built[v] = (Apply(Chain[v].up, Built[v - 1]) \ Halves(Chain[v].online)) \cup Established(Chain[v].online)
    BY ChainAssumption DEF Made
  <2>2. \A f : Relevant(f) => f \notin Established(Chain[v].online) /\ f \notin Halves(Chain[v].online)
    BY BlockBeside
  <2> HIDE DEF Relevant
  <2> QED BY <2>1, <2>2
<1>2. ASSUME NEW f, Relevant(f)
      PROVE  /\ f \in Apply(Chain[v].up, X) => f \in Apply(Chain[v].up, Built[v - 1])
             /\ f \in Apply(Chain[v].up, Built[v - 1]) /\ f \notin Lost => f \in Apply(Chain[v].up, X)
  <2>1. /\ f \in X => f \in Built[v - 1]
        /\ f \in Built[v - 1] /\ f \notin Lost => f \in X
    BY <1>2 DEF Matches
  <2> DEFINE stays == f[1] \notin Dropped(Chain[v].up) /\ f \notin Chain[v].up.del /\ f \notin Chain[v].up.loose
             made == f \in Chain[v].up.add \/ f \in Chain[v].up.ensure
  <2>2. f \in Apply(Chain[v].up, X) <=> made \/ (f \in X /\ stays)
    BY ApplyAt
  <2>3. f \in Apply(Chain[v].up, Built[v - 1]) <=> made \/ (f \in Built[v - 1] /\ stays)
    BY ApplyAt
  <2> HIDE DEF stays, made, Relevant
  <2> QED BY <2>1, <2>2, <2>3
<1>3. ASSUME Chain[v].online = <<>> PROVE Matches(Apply(Chain[v].up, X), v)
  <2> HIDE DEF Relevant
  <2> QED BY <1>1, <1>2 DEF Matches
<1>4. ASSUME Chain[v].online # <<>> PROVE Matches(X, v)
  <2>1. Leaves(Chain[v].up)
    BY <1>4, ReferencesAssumption DEF Untouched
  <2>2. \A f : Relevant(f) => (f \in Apply(Chain[v].up, Built[v - 1]) <=> f \in Built[v - 1])
    BY <2>1, LeavesAt
  <2> HIDE DEF Relevant
  <2> QED BY <1>1, <2>2 DEF Matches
<1> QED BY <1>3, <1>4

LEMMA MatchesDown ==
    ASSUME NEW v \in 1..Newest, NEW X, Matches(X, v)
    PROVE  /\ Chain[v].offline = <<>> => Matches(Apply(Chain[v].down, X), v - 1)
           /\ Chain[v].offline # <<>> => Matches(X, v - 1)
<1> DEFINE c == Chain[v].down
<1>1. \A f : Relevant(f) /\ f \in Apply(c, Built[v]) => f \in Built[v - 1]
    BY ReferencesAssumption
<1>2. v \in 0..Newest /\ v - 1 \in 0..Newest
    BY ChainAssumption
<1>3. ASSUME NEW f, f \in Built[v - 1], f \notin Lost PROVE f \in Apply(c, Built[v])
  <2>1. f \in Kept[v - 1]
    BY <1>2, <1>3 DEF Kept
  <2>2. f \in Apply(c, Kept[v])
    BY <1>3, <2>1, KeptBelow
  <2>3. f \in Kept[v] <=> f \in Built[v]
    BY <1>2, <1>3 DEF Kept
  <2> HIDE DEF c
  <2> QED BY <2>2, <2>3, ApplyAgrees
<1>4. ASSUME NEW f, Relevant(f)
      PROVE  /\ f \in Apply(c, X) => f \in Apply(c, Built[v])
             /\ f \in Apply(c, Built[v]) /\ f \notin Lost => f \in Apply(c, X)
  <2>1. /\ f \in X => f \in Built[v]
        /\ f \in Built[v] /\ f \notin Lost => f \in X
    BY <1>4 DEF Matches
  <2> DEFINE stays == f[1] \notin Dropped(c) /\ f \notin c.del /\ f \notin c.loose
             made == f \in c.add \/ f \in c.ensure
  <2>2. f \in Apply(c, X) <=> made \/ (f \in X /\ stays)
    BY ApplyAt
  <2>3. f \in Apply(c, Built[v]) <=> made \/ (f \in Built[v] /\ stays)
    BY ApplyAt
  <2> HIDE DEF stays, made, Relevant, c
  <2> QED BY <2>1, <2>2, <2>3
<1>5. Matches(Apply(c, X), v - 1)
  <2> HIDE DEF Relevant, c
  <2> QED BY <1>1, <1>3, <1>4 DEF Matches
<1>6. ASSUME Chain[v].offline # <<>> PROVE Matches(X, v - 1)
  <2>1. Leaves(c)
    BY <1>6, ReferencesAssumption DEF Untouched
  <2>2. \A f : Relevant(f) => (f \in Apply(c, X) <=> f \in X)
    BY <2>1, LeavesAt
  <2> HIDE DEF Relevant, c
  <2> QED BY <1>5, <2>2 DEF Matches
<1> QED BY <1>5, <1>6

LEMMA MatchesKeep ==
    ASSUME NEW v, NEW X, NEW Y, Matches(X, v), \A f : Relevant(f) => (f \in Y <=> f \in X)
    PROVE  Matches(Y, v)
<1> HIDE DEF Relevant
<1> QED BY DEF Matches

LEMMA MatchesSound ==
    ASSUME NEW v \in 0..Newest, NEW X, Matches(X, v)
    PROVE  SoundReferences(X)
<1>1. \A f \in Lost : Relevant(f) => f[2] = "fk"
    BY ReferencesAssumption
<1>2. ASSUME NEW f, Relevant(f), f \in Built[v], f[2] # "fk" PROVE f \in X
  <2> HIDE DEF Relevant
  <2> QED BY <1>1, <1>2 DEF Matches
<1> SUFFICES ASSUME NEW f \in X, f[2] = "fk"
             PROVE  /\ <<f[4], "key", f[5]>> \in X
                    /\ \E type \in {"uuid", "int", "text"} :
                         <<f[1], "column", f[3], type>> \in X /\ <<f[4], "column", f[5], type>> \in X
    BY DEF SoundReferences
<1>3. f \in Built[v]
    BY DEF Matches, Relevant
<1>4. <<f[1], f[3]>> \in Joined /\ <<f[4], f[5]>> \in Joined
    BY <1>3 DEF Joined
<1>5. SoundReferences(Built[v])
    BY ReferencesAssumption
<1>6. <<f[4], "key", f[5]>> \in X
  <2>1. <<f[4], "key", f[5]>> \in Built[v]
    BY <1>3, <1>5 DEF SoundReferences
  <2> QED BY <1>2, <2>1 DEF Relevant
<1>7. PICK type \in {"uuid", "int", "text"} :
             <<f[1], "column", f[3], type>> \in Built[v] /\ <<f[4], "column", f[5], type>> \in Built[v]
    BY <1>3, <1>5 DEF SoundReferences
<1>8. <<f[1], "column", f[3], type>> \in X
  <2> DEFINE g == <<f[1], "column", f[3], type>>
  <2>1. g[1] = f[1] /\ g[2] = "column" /\ g[3] = f[3]
    OBVIOUS
  <2>2. Relevant(g)
    BY <1>4, <2>1 DEF Relevant
  <2>3. g \in Built[v]
    BY <1>7
  <2> HIDE DEF g
  <2>4. g \in X
    BY <1>2, <2>1, <2>2, <2>3
  <2> QED BY <2>4 DEF g
<1>9. <<f[4], "column", f[5], type>> \in X
  <2> DEFINE g == <<f[4], "column", f[5], type>>
  <2>1. g[1] = f[4] /\ g[2] = "column" /\ g[3] = f[5]
    OBVIOUS
  <2>2. Relevant(g)
    BY <1>4, <2>1 DEF Relevant
  <2>3. g \in Built[v]
    BY <1>7
  <2> HIDE DEF g
  <2>4. g \in X
    BY <1>2, <2>1, <2>2, <2>3
  <2> QED BY <2>4 DEF g
<1> QED BY <1>6, <1>8, <1>9

(* The statements of a run's block, and the change before it.              *)
LEMMA RunBeside ==
    ASSUME TypedRuns, NEW r \in Runs, Before(r)
    PROVE  /\ Block(r) # <<>> => Leaves(Change(r))
           /\ \A i \in DOMAIN Block(r) : ~Relevant(Block(r)[i].fact) /\ ~Relevant(Block(r)[i].half)
<1>1. \E v \in 1..Newest : \/ Block(r) = Chain[v].online /\ Change(r) = Chain[v].up
                           \/ Block(r) = Chain[v].offline /\ Change(r) = Chain[v].down
  <2>1. /\ run[r].up => run[r].at + 1 \in 1..Newest
        /\ ~run[r].up => run[r].at \in 1..Newest
        /\ run[r].up \in BOOLEAN
    BY AtMigration DEF TypedRuns, RunRec
  <2> QED BY <2>1 DEF Block, Change
<1>2. PICK v \in 1..Newest : \/ Block(r) = Chain[v].online /\ Change(r) = Chain[v].up
                             \/ Block(r) = Chain[v].offline /\ Change(r) = Chain[v].down
    BY <1>1
<1>3. Untouched(v)
    BY ReferencesAssumption
<1>4. Block(r) # <<>> => Leaves(Change(r))
    BY <1>2, <1>3 DEF Untouched
<1>5. \A i \in DOMAIN Block(r) : ~Relevant(Block(r)[i].fact) /\ ~Relevant(Block(r)[i].half)
  <2> HIDE DEF Relevant
  <2> QED BY <1>2, BlockBeside
<1> QED BY <1>4, <1>5

(* Where a run's migration leads, from the schema of its revision.         *)
LEMMA RunMatches ==
    ASSUME TypedRuns, NEW r \in Runs, Before(r), NEW X, Matches(X, run[r].at)
    PROVE  /\ Block(r) = <<>> => Matches(Apply(Change(r), X), Onward(r))
           /\ Block(r) # <<>> => Matches(X, Onward(r))
<1>1. /\ run[r] \in RunRec /\ (run[r].up => run[r].at + 1 \in 1..Newest)
      /\ ~run[r].up => run[r].at \in 1..Newest
    BY AtMigration DEF TypedRuns
<1>2. run[r].at \in Int /\ run[r].up \in BOOLEAN
    BY <1>1 DEF RunRec
<1>3. CASE run[r].up
  <2> DEFINE v == run[r].at + 1
  <2>1. v \in 1..Newest /\ v - 1 = run[r].at /\ Onward(r) = v
    BY <1>1, <1>2, <1>3 DEF Onward
  <2>2. Block(r) = Chain[v].online /\ Change(r) = Chain[v].up
    BY <1>3 DEF Block, Change
  <2> HIDE DEF v
  <2> QED BY <2>1, <2>2, MatchesUp
<1>4. CASE ~run[r].up
  <2>1. run[r].at \in 1..Newest /\ Onward(r) = run[r].at - 1
    BY <1>1, <1>4 DEF Onward
  <2>2. Block(r) = Chain[run[r].at].offline /\ Change(r) = Chain[run[r].at].down
    BY <1>4 DEF Block, Change
  <2> QED BY <2>1, <2>2, MatchesDown
<1> QED BY <1>2, <1>3, <1>4

LEMMA ReferencesStart == MigrationsInit => ReferencesInv
<1> SUFFICES ASSUME MigrationsInit PROVE ReferencesInv
    OBVIOUS
<1>1. Matches(schema, version)
  <2>1. CASE schema = {} /\ version = 0
    BY <2>1, ChainAssumption DEF Matches
  <2>2. CASE version = Ungrownable[1] /\ schema = Built[version] \ Ungrownable[2]
    <3>1. Ungrownable[2] \subseteq Lost
      BY GrownAssumption
    <3> HIDE DEF Lost, Relevant
    <3> QED BY <2>2, <3>1 DEF Matches
  <2> QED BY <2>1, <2>2 DEF MigrationsInit
<1>2. dirty = Nobody
    BY DEF MigrationsInit
<1> QED BY <1>1, <1>2, StartTyped DEF ReferencesInv

(* What a run sees matches the revision it sees.                           *)
LEMMA MineMatches ==
    ASSUME ReferencesInv, NEW r \in Runs
    PROVE  Matches(Mine(r).schema, Mine(r).version)
BY RunsAssumption DEF ReferencesInv, Mine

LEMMA ReferencesStep ==
    ASSUME ReferencesInv, TypedRuns', NEW r \in Runs, Step(r)
    PROVE  ReferencesInv'
<1>1. TypedRuns
    BY DEF ReferencesInv
<1>2. Before(r)
    BY <1>1, DueRun DEF Step
<1>3. Mine(r).version = run[r].at /\ Block(r) = <<>> /\ UNCHANGED <<schema, version>>
    BY DEF Step
<1>4. Matches(Mine(r).schema, run[r].at)
    BY <1>3, MineMatches
<1>5. Matches(Apply(Change(r), Mine(r).schema), Onward(r))
    BY <1>1, <1>2, <1>3, <1>4, RunMatches
<1>6. Matches(work'.schema, work'.version)
    BY <1>5 DEF Step
<1> QED BY <1>3, <1>6 DEF ReferencesInv

LEMMA ReferencesEnter ==
    ASSUME ReferencesInv, TypedRuns', NEW r \in Runs, EnterBlock(r)
    PROVE  ReferencesInv'
<1>1. TypedRuns
    BY DEF ReferencesInv
<1>2. Before(r)
    BY <1>1, DueRun DEF EnterBlock
<1>3. /\ Block(r) # <<>> /\ dirty' = Nobody /\ version' = Mine(r).version
      /\ schema' = Apply(Change(r), Mine(r).schema)
    BY DEF EnterBlock
<1>4. Leaves(Change(r))
    BY <1>1, <1>2, <1>3, RunBeside
<1>5. \A f : Relevant(f) => (f \in Apply(Change(r), Mine(r).schema) <=> f \in Mine(r).schema)
    BY <1>4, LeavesAt
<1>6. Matches(Mine(r).schema, Mine(r).version)
    BY MineMatches
<1>7. Matches(Apply(Change(r), Mine(r).schema), Mine(r).version)
  <2> HIDE DEF Relevant
  <2> QED BY <1>5, <1>6, MatchesKeep
<1> QED BY <1>3, <1>7 DEF ReferencesInv

(* A statement of a block.                                                 *)
LEMMA ReferencesBeside ==
    ASSUME ReferencesInv, TypedRuns', NEW r \in Runs, InsideBlock(r), run[r].k <= Len(Block(r)),
           UNCHANGED <<version, dirty, work>>,
           \A f : f \notin {Statement(r).fact, Statement(r).half} => (f \in schema' <=> f \in schema)
    PROVE  ReferencesInv'
<1>1. TypedRuns
    BY DEF ReferencesInv
<1>2. Before(r) /\ run[r].k \in DOMAIN Block(r)
    BY <1>1, InsideRun
<1>3. ~Relevant(Statement(r).fact) /\ ~Relevant(Statement(r).half)
  <2> HIDE DEF Relevant
  <2> QED BY <1>1, <1>2, RunBeside DEF Statement
<1>4. \A f : Relevant(f) => (f \in schema' <=> f \in schema)
  <2> HIDE DEF Relevant
  <2> QED BY <1>3
<1>5. Matches(schema, version)'
  <2>1. Matches(schema, version)
    BY DEF ReferencesInv
  <2>2. Matches(schema', version)
    BY <1>4, <2>1, MatchesKeep
  <2> QED BY <2>2
<1> QED BY <1>5 DEF ReferencesInv

LEMMA ReferencesLeave ==
    ASSUME ReferencesInv, TypedRuns', NEW r \in Runs, LeaveBlock(r), version = run[r].at
    PROVE  ReferencesInv'
<1>1. TypedRuns
    BY DEF ReferencesInv
<1>2. InsideBlock(r)
    BY DEF LeaveBlock, InsideBlock
<1>3. Before(r) /\ Block(r) # <<>>
    BY <1>1, <1>2, InsideRun
<1>4. Matches(schema, Onward(r))
    BY <1>1, <1>3, RunMatches DEF ReferencesInv
<1>5. work' = [schema |-> schema, version |-> Onward(r)] /\ UNCHANGED <<schema, version>>
    BY <1>1, LeaveBlockTyped
<1>6. Matches(work'.schema, work'.version)
    BY <1>4, <1>5
<1> QED BY <1>5, <1>6 DEF ReferencesInv

LEMMA ReferencesKept ==
    ASSUME ReferencesInv, [MigrationsNext]_migrationVars
    PROVE  ReferencesInv'
<1>1. TypedRuns
    BY DEF ReferencesInv
<1>2. TypedRuns'
    BY <1>1, TypedStep
<1>3. ASSUME UNCHANGED <<schema, version, dirty, work>> PROVE ReferencesInv'
    BY <1>2, <1>3 DEF ReferencesInv
<1>4. ASSUME NEW r \in Runs, Abort(r) PROVE ReferencesInv'
    BY <1>2, <1>4 DEF Abort, ReferencesInv
<1>5. ASSUME NEW r \in Runs, Commit(r) PROVE ReferencesInv'
  <2>1. dirty = r /\ r # Nobody
    BY <1>1, <1>5, CommitTyped, RunsAssumption
  <2> QED BY <1>2, <1>5, <2>1 DEF Commit, ReferencesInv
<1>6. ASSUME NEW r \in Runs, BeginIndex(r) \/ DropConcurrently(r) \/ ValidateConstraint(r) PROVE ReferencesInv'
  <2>1. InsideBlock(r) /\ run[r].k <= Len(Block(r)) /\ UNCHANGED <<version, dirty, work>>
    BY <1>6 DEF BeginIndex, DropConcurrently, ValidateConstraint, InBlock, InsideBlock
  <2>2. \A f : f \notin {Statement(r).fact, Statement(r).half} => (f \in schema' <=> f \in schema)
    BY <1>6 DEF BeginIndex, DropConcurrently, ValidateConstraint
  <2> QED BY <1>2, <2>1, <2>2, ReferencesBeside
<1>7. ASSUME NEW r \in Runs, FinishIndex(r) PROVE ReferencesInv'
  <2>1. InsideBlock(r) /\ UNCHANGED <<version, dirty, work>>
    BY <1>7 DEF FinishIndex, InsideBlock
  <2>2. run[r].k <= Len(Block(r))
    BY <1>1, <1>7 DEF FinishIndex, TypedRuns, RunInv, ShapeOK
  <2>3. \A f : f \notin {Statement(r).fact, Statement(r).half} => (f \in schema' <=> f \in schema)
    BY <1>7 DEF FinishIndex
  <2> QED BY <1>2, <2>1, <2>2, <2>3, ReferencesBeside
<1>8. ASSUME NEW r \in Runs, LeaveBlock(r) PROVE ReferencesInv'
    BY <1>2, <1>4, <1>8, ReferencesLeave DEF LeaveBlock
<1>9. ASSUME NEW r \in Runs, RunStep(r) PROVE ReferencesInv'
  <2>1. CASE TakeLock(r) \/ Skip(r)
    BY <1>3, <2>1 DEF TakeLock, Skip
  <2>2. CASE Step(r)
    BY <1>2, <2>2, ReferencesStep
  <2>3. CASE EnterBlock(r)
    BY <1>2, <2>3, ReferencesEnter
  <2>4. CASE Refused(r) \/ RefusedInBlock(r)
    BY <1>4, <2>4 DEF Refused, RefusedInBlock
  <2> QED BY <1>5, <1>6, <1>7, <1>8, <1>9, <2>1, <2>2, <2>3, <2>4 DEF RunStep
<1>10. ASSUME NEW r \in Runs, NEW x, Upgrade(r, x) \/ Downgrade(r, x) PROVE ReferencesInv'
    BY <1>3, <1>10 DEF Upgrade, Downgrade
<1>11. ASSUME UNCHANGED migrationVars PROVE ReferencesInv'
    BY <1>3, <1>11 DEF migrationVars
<1> QED BY <1>4, <1>9, <1>10, <1>11 DEF MigrationsNext, BreakOff

(* Every reference points to a key of its own type after every migration,  *)
(* committed or not, whatever runs beside it and wherever a run ends.      *)
THEOREM ReferencesAlwaysFit == Migrations => []ReferencesFit
<1>1. MigrationsInit => ReferencesInv
    BY ReferencesStart
<1>2. ReferencesInv /\ [MigrationsNext]_migrationVars => ReferencesInv'
    BY ReferencesKept
<1>3. ReferencesInv => ReferencesFit
  <2> SUFFICES ASSUME ReferencesInv PROVE ReferencesFit
    OBVIOUS
  <2>1. version \in 0..Newest /\ work.version \in 0..Newest
    BY DEF ReferencesInv, TypedRuns, MigrationsTypeOK
  <2>2. CASE dirty = Nobody
    BY <2>1, <2>2, MatchesSound DEF ReferencesInv, ReferencesFit
  <2>3. CASE dirty # Nobody
    BY <2>1, <2>3, MatchesSound DEF ReferencesInv, ReferencesFit
  <2> QED BY <2>2, <2>3
<1> QED BY <1>1, <1>2, <1>3, PTL DEF Migrations
=============================================================================
