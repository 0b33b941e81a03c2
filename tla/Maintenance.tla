----------------------------- MODULE Maintenance ----------------------------
(***************************************************************************)
(* The maintenance of a stage other than production. Every night, and when *)
(* an administrator asks for it, the worker runs a downsync: it mirrors    *)
(* the production bucket into the stage's own S3 storage, wipes the        *)
(* database, restores the newest dump it finds there, re-inserts the       *)
(* stage's own job history and migrates (worker.py, core/scheduler.py,     *)
(* backup_service.py, s3_mirror_service.py). Administrators may write a    *)
(* dump of the stage at any time.                                          *)
(*                                                                         *)
(* A job is a thread of the worker. The maintenance lock belongs to the    *)
(* task that waits for the thread: a timeout ends the wait and frees the   *)
(* lock, but the thread goes on. Every step is one subprocess, one S3 call *)
(* or one loop of them.                                                    *)
(***************************************************************************)
EXTENDS Naturals, FiniteSets

CONSTANTS
    Jobs,         \* downsync jobs of the worker, nightly or triggered
    Backups,      \* manual backups: POST /system/backups/trigger, or backup_db.py
    Others,       \* runs that other jobs record in the job history
    None,
    Light,        \* DOWNSYNC_LIGHT
    MaxDumps,     \* bound on dumps written, on either side
    MaxFaults,    \* bound on failing steps and crashes of the worker
    MaxTimeouts   \* bound on jobs that run longer than job_timeout

ASSUME ActorsAssumption ==
    /\ IsFiniteSet(Jobs) /\ None \notin Jobs
    /\ Light \in BOOLEAN
ASSUME BoundsAssumption ==
    MaxDumps \in Nat /\ MaxFaults \in Nat /\ MaxTimeouts \in Nat

(* How much a database, or a dump of it, holds. pg_restore creates all     *)
(* tables, then loads them one by one.                                     *)
Wiped == 0    \* no schema
Bare  == 1    \* tables without rows
Part  == 2    \* some tables loaded
Whole == 3

(* A dump: when it was started (the time in its name), which stage made    *)
(* it, how much of which production state it holds, and whether its schema *)
(* is that of the stage's code. Times are distinct.                        *)
Dump == [at : Nat, src : {"production", "stage"}, rows : Wiped..Whole, of : Nat,
         head : BOOLEAN]

(* A row of scheduled_task_runs: of another job, or of a downsync.         *)
Run == [by : Jobs, ok : BOOLEAN]

VARIABLES
    clock,      \* number of dumps written so far: the next time stamp
    prod,       \* dumps in the production bucket
    local,      \* dumps in the stage's storage
    db,         \* the stage's database
    hist,       \* scheduled_task_runs; {} when the table does not exist
    lock,       \* task holding _MAINTENANCE_LOCK
    pc,
    read,       \* what each job has read
    manual,     \* what each manual backup has dumped, and how far it is
    faults,
    timeouts

store  == <<clock, prod, local>>
vars   == <<store, db, hist, lock, pc, read, manual, faults, timeouts>>

Phases == {"idle", "newest", "source", "dest", "copy", "select", "download",
           "snapshot", "wipe", "load", "loading", "verify", "history", "migrate", "record"}

(* From the wipe to the end of the migration the database is in pieces.    *)
Restoring == {"load", "loading", "verify", "history", "migrate"}

NoRead == [scope |-> {}, src |-> {}, todo |-> {}, gone |-> {}, errors |-> FALSE,
           pick |-> None, snap |-> {}, ok |-> FALSE]

Database == [rows : Wiped..Whole, goal : Wiped..Whole, of : Nat, head : BOOLEAN]

(* The mirror's scope and listings, the dump restored and the history saved*)
(* before, and the outcome.                                                *)
Reading == [scope : SUBSET Dump, src : SUBSET Dump, todo : SUBSET Dump, gone : SUBSET Dump,
            errors : BOOLEAN, pick : Dump \cup {None}, snap : SUBSET (Others \cup Run),
            ok : BOOLEAN]

Writing == [step : {"idle", "dumping", "upload"}, dump : Dump \cup {None}]

TypeOK ==
    /\ clock \in Nat
    /\ prod \subseteq Dump /\ local \subseteq Dump
    /\ db \in Database
    /\ hist \subseteq Others \cup Run
    /\ lock \in Jobs \cup {None}
    /\ pc \in [Jobs -> Phases]
    /\ read \in [Jobs -> Reading]
    /\ manual \in [Backups -> Writing]
    /\ faults \in 0..MaxFaults
    /\ timeouts \in 0..MaxTimeouts

NoBackup == [step |-> "idle", dump |-> None]

(* A stage that has been set up from the first production dump.            *)
Init ==
    LET first == [at |-> 0, src |-> "production", rows |-> Whole, of |-> 0,
                  head |-> TRUE] IN
    /\ clock = 1
    /\ prod = {first} /\ local = {first}
    /\ db = [rows |-> Whole, goal |-> Whole, of |-> 0, head |-> TRUE]
    /\ hist = {}
    /\ lock = None
    /\ pc = [j \in Jobs |-> "idle"]
    /\ read = [j \in Jobs |-> NoRead]
    /\ manual = [b \in Backups |-> NoBackup]
    /\ faults = 0 /\ timeouts = 0

(* latest_backup_key: by the time in the name, not by the name.            *)
Latest(dumps) == CHOOSE d \in dumps : \A e \in dumps : e.at <= d.at
Oldest(dumps) == CHOOSE d \in dumps : \A e \in dumps : d.at <= e.at

(* What downsync_prod.py --dry-run announces: max(keys) compares names,    *)
(* and "test-..." comes after "production-...".                            *)
LastByName(dumps) ==
    LET stage == {d \in dumps : d.src = "stage"}
    IN  Latest(IF stage = {} THEN dumps ELSE stage)

Goto(j, phase, r) ==
    /\ pc' = [pc EXCEPT ![j] = phase]
    /\ read' = [read EXCEPT ![j] = r]

Fail(j) == Goto(j, "record", [read[j] EXCEPT !.ok = FALSE])

(* The thread ends, and with it the wait of its task, if that still waits. *)
Finish(j) ==
    /\ Goto(j, "idle", NoRead)
    /\ lock' = IF lock = j THEN None ELSE lock

HasHistory == db.rows # Wiped

AtWork(j) == pc[j] # "idle"

-----------------------------------------------------------------------------
(* The worker                                                              *)

Begin(j) == Goto(j, IF Light THEN "newest" ELSE "source", NoRead)

(* Slip: the job starts without looking at the lock.                       *)
StartTaskUnlocked(j) ==
    /\ pc[j] = "idle"
    /\ lock' = j
    /\ Begin(j)
    /\ UNCHANGED <<store, db, hist, manual, faults, timeouts>>

(* task_downsync by _run_exclusively: while another task waits for its job *)
(* a task is skipped, which changes nothing.                               *)
StartTask(j) ==
    /\ pc[j] = "idle"
    /\ lock = None
    /\ lock' = j
    /\ Begin(j)
    /\ UNCHANGED <<store, db, hist, manual, faults, timeouts>>

(* arq cancels the task after job_timeout; its thread cannot be cancelled. *)
Timeout(j) ==
    /\ lock = j
    /\ timeouts < MaxTimeouts
    /\ timeouts' = timeouts + 1
    /\ lock' = None
    /\ UNCHANGED <<store, db, hist, pc, read, manual, faults>>

(* The worker's process dies with all its threads.                         *)
Crash ==
    /\ \E j \in Jobs : AtWork(j)
    /\ faults < MaxFaults
    /\ faults' = faults + 1
    /\ pc' = [j \in Jobs |-> "idle"]
    /\ read' = [j \in Jobs |-> NoRead]
    /\ lock' = None
    /\ UNCHANGED <<store, db, hist, manual, timeouts>>

(* A step fails: no credentials, S3 after its retries, psql, pg_dump,      *)
(* pg_restore or alembic. What a failing pg_restore has loaded stays; the  *)
(* wipe is one transaction.                                                *)
StepFails(j) ==
    /\ pc[j] \in {"newest", "source", "dest", "select", "download", "snapshot", "wipe",
                  "loading", "verify", "migrate"}
    /\ faults < MaxFaults
    /\ faults' = faults + 1
    /\ Fail(j)
    /\ UNCHANGED <<store, db, hist, lock, manual, timeouts>>

-----------------------------------------------------------------------------
(* The mirror                                                              *)

(* mirror_light: find the newest production dump and mirror only that.     *)
MirrorNewest(j) ==
    /\ pc[j] = "newest"
    /\ IF prod = {} THEN Fail(j)
       ELSE Goto(j, "source", [read[j] EXCEPT !.scope = {Latest(prod)}])
    /\ UNCHANGED <<store, db, hist, lock, manual, faults, timeouts>>

InScope(j, dumps) == IF Light THEN dumps \cap read[j].scope ELSE dumps

(* mirror_prefix lists the source, then the destination.                   *)
MirrorSource(j) ==
    /\ pc[j] = "source"
    /\ Goto(j, "dest", [read[j] EXCEPT !.src = InScope(j, prod)])
    /\ UNCHANGED <<store, db, hist, lock, manual, faults, timeouts>>

(* A source that is empty under the prefix, with a destination that is     *)
(* not, is refused; the whole bucket is never empty.                       *)
MirrorDest(j) ==
    LET src  == read[j].src
        dest == InScope(j, local)
    IN
    /\ pc[j] = "dest"
    /\ IF Light /\ src = {} /\ dest # {} THEN Fail(j)
       ELSE Goto(j, "copy", [read[j] EXCEPT !.todo = src \ dest, !.gone = dest \ src])
    /\ UNCHANGED <<store, db, hist, lock, manual, faults, timeouts>>

(* One key of the copy loop, oldest first. Production may have deleted it  *)
(* meanwhile: that is counted like any other failure.                      *)
MirrorCopy(j) ==
    LET d == Oldest(read[j].todo)
        rest == [read[j] EXCEPT !.todo = @ \ {d}]
    IN
    /\ pc[j] = "copy" /\ read[j].todo # {}
    /\ \/ d \in prod /\ local' = local \cup {d} /\ Goto(j, "copy", rest)
          /\ UNCHANGED faults
       \/ d \notin prod /\ Goto(j, "copy", [rest EXCEPT !.errors = TRUE])
          /\ UNCHANGED <<local, faults>>
       \/ faults < MaxFaults /\ faults' = faults + 1
          /\ Goto(j, "copy", [rest EXCEPT !.errors = TRUE])
          /\ UNCHANGED local
    /\ UNCHANGED <<clock, prod, db, hist, lock, manual, timeouts>>

(* Slip: a mirror with errors is followed by the restore all the same.     *)
MirrorPruneIgnoresErrors(j) ==
    /\ pc[j] = "copy" /\ read[j].todo = {}
    /\ local' = local \ read[j].gone
    /\ Goto(j, "select", read[j])
    /\ UNCHANGED <<clock, prod, db, hist, lock, manual, faults, timeouts>>

(* Slip: what production does not have is kept.                            *)
MirrorPruneKeepsOrphans(j) ==
    /\ pc[j] = "copy" /\ read[j].todo = {}
    /\ IF read[j].errors THEN Fail(j) ELSE Goto(j, "select", read[j])
    /\ UNCHANGED <<store, db, hist, lock, manual, faults, timeouts>>

(* _delete_orphans, then job_downsync: with errors nothing is restored.    *)
MirrorPrune(j) ==
    /\ pc[j] = "copy" /\ read[j].todo = {}
    /\ \/ /\ local' = local \ read[j].gone
          /\ IF read[j].errors THEN Fail(j) ELSE Goto(j, "select", read[j])
          /\ UNCHANGED faults
       \/ /\ read[j].gone # {} /\ faults < MaxFaults
          /\ \E some \in SUBSET read[j].gone : local' = local \ some
          /\ faults' = faults + 1
          /\ Fail(j)
    /\ UNCHANGED <<clock, prod, db, hist, lock, manual, timeouts>>

-----------------------------------------------------------------------------
(* run_restore                                                             *)

RestoreSelect(j) ==
    /\ pc[j] = "select"
    /\ IF local = {} THEN Fail(j)
       ELSE Goto(j, "download", [read[j] EXCEPT !.pick = Latest(local)])
    /\ UNCHANGED <<store, db, hist, lock, manual, faults, timeouts>>

RestoreDownload(j) ==
    /\ pc[j] = "download"
    /\ IF read[j].pick \in local THEN Goto(j, "snapshot", read[j]) ELSE Fail(j)
    /\ UNCHANGED <<store, db, hist, lock, manual, faults, timeouts>>

(* _snapshot_local_job_history, if the table exists.                       *)
RestoreSnapshot(j) ==
    /\ pc[j] = "snapshot"
    /\ Goto(j, "wipe", [read[j] EXCEPT !.snap = hist])
    /\ UNCHANGED <<store, db, hist, lock, manual, faults, timeouts>>

(* _wipe_public_schema terminates all other connections, then drops and    *)
(* recreates the schema: running pg_restores and pg_dumps fail.            *)
RestoreWipe(j) ==
    LET killed == {i \in Jobs : pc[i] = "loading"} IN
    /\ pc[j] = "wipe"
    /\ db' = [rows |-> Wiped, goal |-> read[j].pick.rows, of |-> read[j].pick.of,
              head |-> read[j].pick.head]
    /\ hist' = {}
    /\ pc' = [i \in Jobs |-> IF i = j THEN "load"
                             ELSE IF i \in killed THEN "record" ELSE pc[i]]
    /\ manual' = [b \in Backups |-> IF manual[b].step = "dumping" THEN NoBackup ELSE manual[b]]
    /\ UNCHANGED <<store, lock, read, faults, timeouts>>

(* pg_restore begins. If another one has already created tables, it fails, *)
(* and may make the other one fail, too.                                   *)
RestoreBegin(j) ==
    LET others == {i \in Jobs : pc[i] = "loading"} IN
    /\ pc[j] = "load"
    /\ \/ db.rows = Wiped /\ Goto(j, "loading", read[j]) /\ UNCHANGED db
       \/ /\ db.rows # Wiped
          /\ \E hurt \in SUBSET others :
                pc' = [i \in Jobs |-> IF i \in hurt \cup {j} THEN "record" ELSE pc[i]]
          /\ db' \in {db, [db EXCEPT !.rows = Part]}
          /\ UNCHANGED read
    /\ UNCHANGED <<store, hist, lock, manual, faults, timeouts>>

(* Tables, then rows, until all that the dump holds is there.              *)
RestoreLoad(j) ==
    LET dump == read[j].pick IN
    /\ pc[j] = "loading"
    /\ \/ /\ db.rows < dump.rows
          /\ db' = [db EXCEPT !.rows = @ + 1]
          /\ UNCHANGED <<pc, read>>
       \/ /\ db.rows >= dump.rows
          /\ Goto(j, "verify", read[j])
          /\ UNCHANGED db
    /\ UNCHANGED <<store, hist, lock, manual, faults, timeouts>>

(* Slip: the restore is believed because pg_restore exits with 0.          *)
RestoreVerifySkipped(j) ==
    /\ pc[j] = "verify"
    /\ Goto(j, "history", read[j])
    /\ UNCHANGED <<store, db, hist, lock, manual, faults, timeouts>>

(* _verify_restore_populated.                                              *)
RestoreVerify(j) ==
    /\ pc[j] = "verify"
    /\ IF db.rows \in {Wiped, Bare} THEN Fail(j) ELSE Goto(j, "history", read[j])
    /\ UNCHANGED <<store, db, hist, lock, manual, faults, timeouts>>

(* Slip: the history that was saved is not put back.                       *)
RestoreHistoryForgotten(j) ==
    /\ pc[j] = "history"
    /\ Goto(j, "migrate", read[j])
    /\ UNCHANGED <<store, db, hist, lock, manual, faults, timeouts>>

(* Slip: a history that does not fit the restored schema ends the restore. *)
RestoreHistoryAborts(j) ==
    /\ pc[j] = "history"
    /\ \/ /\ hist' = IF HasHistory THEN hist \cup read[j].snap ELSE hist
          /\ Goto(j, "migrate", read[j])
       \/ ~db.head /\ Fail(j) /\ UNCHANGED hist
    /\ UNCHANGED <<store, db, lock, manual, faults, timeouts>>

(* _restore_local_job_history. It may fail, too, when the dump's schema is *)
(* older than the code's; any failure is logged and ignored.               *)
RestoreHistory(j) ==
    /\ pc[j] = "history"
    /\ \/ hist' = (IF HasHistory THEN hist \cup read[j].snap ELSE hist) /\ UNCHANGED faults
       \/ ~db.head /\ UNCHANGED <<hist, faults>>
       \/ faults < MaxFaults /\ faults' = faults + 1 /\ UNCHANGED hist
    /\ Goto(j, "migrate", read[j])
    /\ UNCHANGED <<store, db, lock, manual, timeouts>>

(* _run_alembic_upgrade_head; on an empty schema it creates all tables.    *)
Migrate(j) ==
    /\ pc[j] = "migrate"
    /\ db' = [db EXCEPT !.head = TRUE, !.rows = IF @ = Wiped THEN Bare ELSE @]
    /\ Goto(j, "record", [read[j] EXCEPT !.ok = TRUE])
    /\ UNCHANGED <<store, hist, lock, manual, faults, timeouts>>

(* record_job_run never raises: without the table, or when the INSERT      *)
(* fails, the outcome is only logged.                                      *)
Record(j) ==
    LET run == [by |-> j, ok |-> read[j].ok] IN
    /\ pc[j] = "record"
    /\ \/ hist' = (IF HasHistory THEN hist \cup {run} ELSE hist) /\ UNCHANGED faults
       \/ ~db.head /\ UNCHANGED <<hist, faults>>
       \/ faults < MaxFaults /\ faults' = faults + 1 /\ UNCHANGED hist
    /\ Finish(j)
    /\ UNCHANGED <<store, db, manual, timeouts>>

-----------------------------------------------------------------------------
(* Everybody else                                                          *)

(* run_backup(manual=True) in the web process or by backup_db.py, on every *)
(* stage and without the lock. The name has the time of the start; pg_dump *)
(* sees one snapshot of the database.                                      *)
BackupBegin(b) ==
    /\ manual[b].step = "idle"
    /\ clock < MaxDumps /\ clock' = clock + 1
    /\ manual' = [manual EXCEPT ![b] = [step |-> "dumping",
                 dump |-> [at |-> clock, src |-> "stage", rows |-> db.rows, of |-> db.of,
                          head |-> db.head]]]
    /\ UNCHANGED <<prod, local, db, hist, lock, pc, read, faults, timeouts>>

BackupDumped(b) ==
    /\ manual[b].step = "dumping"
    /\ manual' = [manual EXCEPT ![b].step = "upload"]
    /\ UNCHANGED <<store, db, hist, lock, pc, read, faults, timeouts>>

BackupUpload(b) ==
    /\ manual[b].step = "upload"
    /\ local' = local \cup {manual[b].dump}
    /\ manual' = [manual EXCEPT ![b] = NoBackup]
    /\ UNCHANGED <<clock, prod, db, hist, lock, pc, read, faults, timeouts>>

(* A failing pg_dump or upload leaves nothing behind.                      *)
BackupFails(b) ==
    /\ manual[b].step # "idle"
    /\ manual' = [manual EXCEPT ![b] = NoBackup]
    /\ UNCHANGED <<store, db, hist, lock, pc, read, faults, timeouts>>

(* Production: job_db_backup writes dumps, cleanup_old_backups deletes     *)
(* old ones, never the newest.                                             *)
ProductionBackup ==
    /\ clock < MaxDumps /\ clock' = clock + 1
    /\ \E h \in BOOLEAN :
          prod' = prod \cup {[at |-> clock, src |-> "production", rows |-> Whole,
                             of |-> clock, head |-> h]}
    /\ UNCHANGED <<local, db, hist, lock, pc, read, manual, faults, timeouts>>

ProductionExpire ==
    /\ \E d, e \in prod : d.at < e.at /\ prod' = prod \ {d}
    /\ UNCHANGED <<clock, local, db, hist, lock, pc, read, manual, faults, timeouts>>

(* record_job_run of another job; without the table nothing is recorded.   *)
OtherRecord ==
    /\ HasHistory
    /\ \E o \in Others \ hist : hist' = hist \cup {o}
    /\ UNCHANGED <<store, db, lock, pc, read, manual, faults, timeouts>>

-----------------------------------------------------------------------------
Restore(j) ==
    \/ RestoreSelect(j) \/ RestoreDownload(j) \/ RestoreSnapshot(j)
    \/ RestoreWipe(j) \/ RestoreBegin(j) \/ RestoreLoad(j)
    \/ RestoreVerify(j) \/ RestoreHistory(j)

JobStep(j) ==
    \/ MirrorNewest(j) \/ MirrorSource(j) \/ MirrorDest(j) \/ MirrorCopy(j) \/ MirrorPrune(j)
    \/ Restore(j) \/ Migrate(j) \/ Record(j)

Next ==
    \/ \E j \in Jobs : StartTask(j) \/ Timeout(j) \/ JobStep(j) \/ StepFails(j)
    \/ \E b \in Backups : BackupBegin(b) \/ BackupDumped(b) \/ BackupUpload(b) \/ BackupFails(b)
    \/ Crash \/ ProductionBackup \/ ProductionExpire \/ OtherRecord

Spec == Init /\ [][Next]_vars

(* The worker keeps its threads running, and its nights come.              *)
FairSpec ==
    /\ Spec
    /\ \A j \in Jobs : WF_vars(JobStep(j)) /\ WF_vars(StartTask(j))

-----------------------------------------------------------------------------
(* No job has run past its timeout: the lock has kept jobs apart.          *)
Undisturbed == timeouts = 0

AtRest == \A j \in Jobs : ~AtWork(j)

(* At most one job is at work unless one has run past its timeout, and     *)
(* then one more for each that has (worker.py:84, _MAINTENANCE_LOCK).      *)
OneJobPerTimeout == Cardinality({j \in Jobs : AtWork(j)}) <= 1 + timeouts

(* A downsync that reports success has put into the database all that its  *)
(* dump holds, rows arrived, and the schema is the code's                  *)
(* (scheduler.py:832, run_restore and alembic).                            *)
SuccessMeansRestored ==
    \A j \in Jobs :
        pc[j] = "record" /\ read[j].ok /\ Undisturbed =>
            /\ db.of = read[j].pick.of
            /\ db.rows = read[j].pick.rows /\ db.rows \in {Part, Whole}
            /\ db.head

(* Unless a step fails, no order of jobs, dumps and deletions leaves the   *)
(* stage half restored: between jobs the database holds all of the dump    *)
(* restored last, and is migrated if that held any rows                    *)
(* (backup_service.py:444).                                                *)
RestWithWholeDump ==
    AtRest /\ faults = 0 /\ Undisturbed =>
        db.rows = db.goal /\ (db.head \/ db.goal \in {Wiped, Bare})

(* What is restored is at least as new as all production dumps the mirror  *)
(* saw: also when production deletes one of them during the copy           *)
(* (scheduler.py:813).                                                     *)
NothingOlderThanMirrored ==
    \A j \in Jobs :
        Undisturbed /\ pc[j] \in {"snapshot", "wipe"} \cup Restoring =>
            \A d \in read[j].src : d.at <= read[j].pick.at

(* The history that a successful job saved is back when it records its own *)
(* run, unless putting it back failed, which is tolerated                  *)
(* (backup_service.py:469).                                                *)
SavedHistoryIsBack ==
    \A j \in Jobs :
        pc[j] = "record" /\ read[j].ok /\ read[j].pick.head /\ faults = 0 /\ Undisturbed =>
            read[j].snap \subseteq hist

(* Whatever happened to the database, a later night repairs it: the full   *)
(* mirror removes the stage's own dumps and the newest production dump is  *)
(* whole (scheduler.py:778).                                               *)
Broken == db.rows # Whole \/ ~db.head
RepairedByLaterNight == Broken ~> ~Broken

-----------------------------------------------------------------------------
(* Statements of the documentation that the program does not keep          *)

(* worker.py:81: "Jobs that rewrite the database or the S3 mirror must     *)
(* never overlap".                                                         *)
NeverOverlap == \A i, j \in Jobs : AtWork(i) /\ AtWork(j) => i = j

(* system.py:125: a downsync "restores the freshest production backup".    *)
RestoresProduction == \A j \in Jobs : pc[j] = "wipe" => read[j].pick.src = "production"

(* system.py:100: a backup outside production is "harmless" and "working". *)
BackupsAreWhole == \A d \in local : d.rows = Whole

(* backup_service.py:401: the job history "survives the restore": the wipe *)
(* drops only rows that were saved before.                                 *)
HistorySurvives ==
    [][\A j \in Jobs : RestoreWipe(j) => hist \subseteq read[j].snap]_vars

(* system.py:139: the outcome "is visible via the existing scheduled-job   *)
(* history".                                                               *)
OutcomeVisible ==
    [][\A j \in Jobs : pc[j] = "record" /\ faults' = faults /\ pc'[j] = "idle" =>
            [by |-> j, ok |-> read[j].ok] \in hist']_vars

(* downsync_prod.py:140: --dry-run shows "what would be done": the dump it *)
(* announces is the one a restore would take.                              *)
DryRunAnnouncesRestored == local # {} => LastByName(local) = Latest(local)
=============================================================================
