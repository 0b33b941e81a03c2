# vb-api: specifications

TLA+ modules, model-checking configurations and machine-checked proofs for the
back end of the fraternity's web site: a FastAPI application (`src/app`), an ARQ
worker (`src/app/worker.py`), maintenance scripts (`src/scripts`), PostgreSQL,
S3 and Redis. The program is a set of request handlers and jobs that run at the
same time and meet in the database and in S3; a handler holds a transaction only
between two commits, and no transaction spans PostgreSQL and S3. The modules
model exactly that: which committed states a handler's steps can see in between,
and what it does with what it read before.

## The system

| Component | State | Operations | Meets | Hard part |
|---|---|---|---|---|
| Archive content store (`archive_service`, `archive_store_cleanup`, `archive_maintenance_service`, CLI) | `archive_files`, `archive_store_items`, S3 objects and thumbnails | upload, soft delete, restore, file into a directory, delete an unfiled upload, thumbnail; CLI: purge, purge-duplicates, restore | database and S3, CLI beside the web | two commits and two S3 calls per deletion, nothing atomic between them; shared items |
| Archive directories and permissions (`archive_service`) | `archive_dirs`, `archive_permissions` | create, move, save permissions, trash, purge, restore; open, list, read, search | administrators against each other | cycles; permissions replaced by what was read; inherited permissions and trash seen by several read paths |
| Sign-in sessions (`auth_service`, `job_cleanup`) | `auth_sessions`, member stamps and lock flag, reset tokens | login, access check, refresh with rotation, logout, forgotten password, reset, cleanup | every request | single-use secrets, two row locks in different orders, expiry |
| Member change requests (`member_change_request_service`, `standesdb_entry_service`) | `member_change_requests`, the member record | submit, withdraw, review, decide, direct edits | member tabs against administrators | optimistic version against row lock; a whole record rebuilt to save a part |
| Member record, offices, badges, keys (`standesdb_service`, `standesdb_entry_service`, `role_history_service`) | `members`, `members_roles`, `role_assignment_events` | create, save with its lists, parent | two administrators, password resets | replaced lists, checks of what others have not committed |
| Accounting: accounts, partners, categories, filters, import (`p4x_*_service`) | `p4x_transactions`, accounts, category assignments, filter hits | import, rebuild, filter saves, assign, convert, close | two administrators, the nightly rebuild | derived hits, sums checked per transaction |
| Accounting: fees (`p4x_fee_balance_service`) | `p4x_fees`, members' opening balances | fee changes; statement of one member, list of all | bookings assigned at any time | the same balance computed twice |
| Worker and schedule (`worker.py`, `core/scheduler.py`, `scheduled_task_run_service`) | Redis queue, run log, maintenance lock | cron jobs, manual triggers, contact mail with retries | jobs against jobs | timeouts that do not stop a thread |
| Backup, restore, downsync (`backup_service`, `downsync_service`, scripts) | dump files, the whole database and store | dump, verify, snapshot, wipe, restore, copy | maintenance mode | partial failure in a long pipeline |
| S3 mirror (`s3_mirror_service`) | two buckets | copy missing, delete surplus | live uploads | keys compared, not contents |
| Migrations (`src/alembic`, `docker-entrypoint.sh`) | the schema, `alembic_version` | upgrade at the start of a container, downgrade | several containers | blocks outside the transaction that hold no lock |
| Member and contact images (`image_service`) | `standesdb_images`, S3 objects | upload, set default, delete | concurrent uploads | one default |
| Contacts, public content, ordering, permissions, mail, tracking, logs, exports, anniversaries, status pages, configuration, request schemas | single rows, or none | edits of a row, rendering, I/O, reports | - | - |

What makes the components correct:

* *content store*: a row always has its item and its object; nothing is lost or
  stranded by an interleaving; orphans come from failures only; the checks made
  before a deletion still hold when it happens;
* *directories*: the tree has no cycles, a directory is open to the keys that
  were last saved for it, nothing is left in a directory that is gone, and all
  ways to read agree on who sees what;
* *sessions*: a refresh is a compare-and-swap of the secret; a stale secret ends
  its session; a reset ends the sessions of the old password, but for those whose login
  commits after its DELETE has begun; an ended session
  stays ended; no request waits for ever;
* *change requests*: what is applied is what was reviewed, and nothing else of
  the record changes;
* *member record*: parents have no cycle, an office has one holder at a time, the
  role history tells what happened, rules between columns hold;
* *ledger*: direct assignments add up, hits are what the rules give, closed
  accounts are empty, making a filter permanent changes nothing's category;
  *fees*: both computations of a balance agree;
* *jobs*: one maintenance job at a time, success means restored, a broken stage is
  repaired by a later night; *migrations*: the revision names the schema.

`PROJECT.json` lists each component with its sources and status, and under
`hazards` the places in the code where these can go wrong.

## Modules

| Module | Contents |
|---|---|
| `ContentStore` | abstract: what the archive promises about contents, in atomic steps |
| `ArchiveStore`, `MC_ArchiveStore`, `ArchiveStoreProofs` | the archive's store, which implements `ContentStore` |
| `ArchiveTree`, `MC_ArchiveTree`, `ArchiveTreeProofs` | directories, permissions, and what members see |
| `SignIn` | abstract: what sign-in sessions promise, in atomic steps |
| `AuthSessions`, `MC_AuthSessions`, `AuthSessionsProofs` | sign-in sessions, which implement `SignIn` |
| `ChangeRequests`, `MC_ChangeRequests`, `ChangeRequestsProofs` | change requests of one member |
| `MemberRecord`, `MC_MemberRecord`, `MemberRecordProofs` | saves of members and their offices |
| `P4xLedger`, `MC_P4xLedger`, `P4xLedgerProofs` | bank entries, categories, filters and assignments |
| `FeeBalances`, `MC_FeeBalances`, `FeeBalancesProofs` | fees and what members owe |
| `Maintenance`, `MC_Maintenance`, `MaintenanceProofs` | downsync of a stage: maintenance lock, S3 mirror, restore, backups, run history; proofs about it and about the migrations it ends with |
| `SchemaFacts` | the schema as a set of facts, and what a migration may do to it |
| `BaselineSteps`, `IdentifierSteps`, `ConstraintSteps` | the 91 migrations, as changes of facts (three chapters of one chain) |
| `SchemaMigrations`, `MC_SchemaMigrations` | alembic runs that apply them |

Conventions shared by all modules:

* A request, command or job is a process `p` with a program counter `pc[p]` and
  what it has read so far. One action is one transaction, one locked section of a
  transaction or one S3 call, named after the function it is in. Everything the
  function changes in it is in the action.
* PostgreSQL runs READ COMMITTED with the pool's defaults: a SELECT sees what is
  committed; an UPDATE or DELETE by primary key waits for the row's lock. A flush
  that finds its row gone raises `StaleDataError` for an UPDATE, and only warns
  for a DELETE, as SQLAlchemy does. The session factory has `autoflush=False`
  (`app/db/database.py`), so pending changes reach the database at `commit`, in
  dependency order.
* Row ids are UUIDv7 and never reused: `"unborn"`, alive, `"gone"`.
* Several properties have the form "holds unless two transactions overlapped".
  The overlap is recorded by a history variable (`raced`, `crossed`, `blurred`,
  `late`) exactly when a request commits while another that read before is under
  way on the same thing. So the property is the correctness of each check on
  its own, for every interleaving, and the exception is the weakness the code has.
* Definitions whose comment begins with *Slip:* are variants of the action that
  follows them, with a plausible programming error. No specification uses them;
  substituting one for the real action makes a property fail, which shows what
  the property is sensitive to (`mutants` in `PROJECT.json`).

### ArchiveStore

`fstate`, `fitem`, `filed` are the columns `deleted_at`, `archive_store_item_id`
and `archive_dir_id` of `archive_files`; `istate`, `ihash` the rows of
`archive_store_items` with their unique `sha256_hash`; `objects` and `thumbs` the
keys under `S3_PATH_ARCHIVE_STORE` and `S3_PATH_ARCHIVE_CACHE`. An upload is
`UploadCheck` (422 for known content), `UploadPut`, `UploadInsert` or
`UploadConflict`. `hard_delete_file` is `FileDelete` (first commit),
`OrphanCheck` (the reference count), `ItemDelete` (second commit),
`ObjectDelete`, `CacheDelete`; it is entered from `DeleteUnfiledLock`,
`PurgeCheck`, or `BatchList` – `BatchRecheck` – `BatchPurgeCheck`. `Crash` ends a
handler at any step; S3 calls may fail (`UploadPutFails`, `ObjectDeleteFails`).
The initial state is that of the data import, in which several files share one
item; uploads always create an item of their own. `raced` is a history variable:
the contents whose purge overlapped a use of them.

`ContentStore` is what this amounts to: `Store` a content, `Put` a file that holds
it, `Move` the file into the trash and back, `Delete` it, and `BeginDiscard`,
`Discard`, `EndDiscard` a content that no file holds. The mapping shows it a file row
with the content of its item (`Holding`) while the row exists, and as being discarded
what a hard delete works on from its reference count to its last S3 call
(`Discarded`); the item rows, the thumbnails and the handlers' phases it does not
see. `KeepsContent` is `ContentStore`'s specification under that mapping. A content
may be `disturbed` only while it is being discarded: that is the one way a file can
lose it (`Kept`).

Who may call an operation is not modelled: only what calls do to each other.
Comments of a file and metadata edits change nothing the properties mention.

### ArchiveTree

`dir` holds a row of `archive_dirs` with its `archive_permissions` (`up`,
`trashed`, `recursive`, `keys`), or `None`/`Gone`; `file` the directory of each
file. A key is a pair of organisation and state, `Grants` what a save may send.
A request reads and checks (`StartMove`, `StartUpdate`, `StartTrash`, ...) and
writes in `Commit`; nothing it read is locked. Creating a directory, restoring
one and moving a file have no check that could go stale before their only write,
and are one step. `Above` walks `archive_dir_id` as `build_path` and
`_inherited_permissions` do; the read paths `Opens`, `Listed`, `ListedFiles`,
`Reads`, `FoundDirs` and `FoundFiles` are translated each from its own function,
which is what makes comparing them worthwhile. They are those of a member; what
administrators see, and the trash of single files, is left out.

### AuthSessions

`sess` are the rows of `auth_sessions` (`secret` counts rotations, so a smaller
number is a stale secret; `pw` is a history field: the password that opened the
session); `slock` and `mlock` are the row locks PostgreSQL holds for a transaction. The
member's `auth_last*` stamps matter only for the lock their UPDATE takes. The
order of locks is the code's: `refresh_session` locks the session by
`SELECT ... FOR UPDATE` and the member at the commit; the access check and
`logout_session` send the member's UPDATE before the session's; a password reset
takes all sessions by a bulk DELETE, then the member. A bulk DELETE is several
steps: its start fixes the rows it sees (`ResetSessions`; `CleanupStart` and
`CleanupIdle`, the two of `run_all_cleanup_jobs`), then it takes them one at a
time, waiting where another request holds one (`DeleteTake`), and what commits
meanwhile it does not see. A login that does so is in `late`. `DeadlockAbort` is
PostgreSQL's deadlock detection; it ends one request of a circle of any length. `now` is the clock; `IdleTimeout`, `Lifetime`
and `TokenTtl` are settings. bcrypt, JWT signatures and Google's side are left
out: a secret is right or stale.

`SignIn` is what this amounts to: `Open`, `Present`, `Renew`, `Refuse`,
`Withdraw`, `End`, each in one step, with the comparison and the exchange of a
secret in the same step. `Shown` and `Presented` map a row and a request that
refreshes to it; `KeepsPromise` is `SignIn`'s specification under that mapping.

### ChangeRequests

`live` is the member's record (fields a member may propose to change), `roles`
the list of offices that is saved with it, `status`, `data`, `version`,
`decision` a row's `status`, `proposed_data`, `updated_at`, `field_decisions`.
`SubmitDiff` – `SubmitLookup` – `SubmitWithdraw`/`Overwrite`/`Insert` is
`submit_change_request` with its three separate looks at the database. `Review`
is the form an administrator sees; `DecideQuery` and `Decide` the one
`SELECT ... FOR UPDATE`, which first takes its snapshot of the joined member and
then waits for the row; `DecideCommit` is `apply_member_input`, which writes
differing fields but replaces lists, together with the resolution.

### Maintenance

A stage other than production. `prod` and `local` are the dumps under
`db-backups/` in the production bucket and in the stage's storage; a dump is the
time in its name, the stage that made it, how much of production's data it holds
(`rows`, `of`) and whether its schema is the code's (`head`). `db` is the stage's
database in the same terms, with `goal`, the rows of the dump being restored, as
a history field; `hist` the rows of `scheduled_task_runs`, which lives in the
database but is never part of a dump. `lock` is `_MAINTENANCE_LOCK`, which
belongs to the task that awaits a thread, not to the thread: `Timeout` frees it,
the thread goes on. A job (`job_downsync`) is `StartTask`, the mirror
(`MirrorNewest` only with `DOWNSYNC_LIGHT`, `MirrorSource`, `MirrorDest`,
`MirrorCopy` per key, `MirrorPrune`), the restore (`RestoreSelect` …
`RestoreHistory`), `Migrate` and `Record`. `StepFails` is any of the subprocesses
or S3 calls failing; what `pg_restore` has loaded by then stays, and the wipe is
one transaction. `pg_restore` loads in two steps that a crash, a manual backup
or a second job can fall between.

`BackupBegin` – `BackupDumped` – `BackupUpload` is `run_backup` called by an
administrator, without the lock. Production is external: it writes dumps and
expires all but the newest. The scripts `downsync_prod.py` and `restore_db.py`
take no lock either; they would be one more job that has run past its timeout
and are left out, as is `backup_db.py --cleanup`. Objects other than dumps are
left out: no later step of a downsync reads them. Two dumps never have the same
time (in the hour repeated in autumn they could).

### MemberRecord

`rec` are the columns of a member's row that rules speak about, `badges` and
`offices` its lists, `told` what the events of the role history replay to, `job`
what a save was sent and has read. `Load` fetches and checks the entry, `Flush`
sends the UPDATE (unique address, row lock, and the trigger on `parent_id`, which
walks the committed parents), `Validate` compares the offices with those of
others, `Commit` replaces the lists and writes the history. A reset of a password
(`ResetLoad`, `ResetCommit`) is the other writer of a row. Organisations, the
changelog and the columns no rule mentions are left out.

### Ledger and fees

`P4xLedger`: `tx` maps the hash of an entry (entry and occurrence, as
`compute_transaction_hash`) to booked, set aside or none; `directs` and `hits` are
the two kinds of category, `filters` the rules. Every request is `Start`...,
`Match`, `Check`, `Commit` or `Fail`; what it writes waits in `delta` until the
commit. Abstracted: reads and first writes of a request are one step, and so are
reading and flushing an import and evaluating the filters of a rebuild; delegated
partners, comments, attachments, malformed and zero entries are left out.
`spent` remembers categories that rows set aside still reference. A request is
`stale` once another has committed since it read; a stale request that commits enters
the accounts it touches in `crossed`: those it closes and those in
which its import puts entries, in the place the entries have *now*. The place matters:
a stale import revives a row that was meanwhile bound to another account, set aside
there, and whose account was then closed. `ReferencesHold` says that foreign keys are
never broken by a commit: a hit belongs to a filter that exists, filters and
assignments name categories that exist.

`FeeBalances`: `Statement` is `calculate_fee_balance`, `Balance` is
`get_fee_balances`, computed side by side over the same rows; the actions change
the rows. `create_fee` reads today's date and commits in one step, so a month that
turns in between is not in the model; `NewFeeLeavesPast` speaks of a fee that is created
within one month. A month has `MonthLength` days, so first and last day differ from the
rest; turning a month number into year and month is left out.

### Migrations

`SchemaFacts` says what a migration does: facts (a column, a key, an index, a
constraint, a trigger ...) that must be absent and are added, that must be present
and are removed, that are ensured (`IF NOT EXISTS`) or dropped if there. The three
`Steps` modules translate each file of `src/alembic/versions` to its changes
upwards and downwards and to the statements of its `autocommit_block()`.
`SchemaMigrations` runs any chain of them: `TakeLock`, `Step`, `EnterBlock`, the
statements of the block, `LeaveBlock`, `Commit`, `BreakOff`. What migrations do to
rows is left out but for the order of keys and references. The lock, the
transaction and the version row are PostgreSQL's and Alembic's, modelled as
`src/alembic/env.py` uses them.

What the runs may rely on is said of the chain, once, as assumptions of
`SchemaMigrations`, and TLC evaluates them on the 91 migrations of the repository
before the run starts: the statements of a block do not touch each other's facts nor
what the transaction before them made (`Listed`, `OnlineSound`, `OfflineSound`), every
downgrade takes its upgrade back but for what was dropped with `IF EXISTS` (`Undone`,
`Lost`), no block touches a reference or a key, and each revision, built from nothing
(`Built`), has a key of the same type for every reference (`ReferencesAssumption`: a
cutover whose list of references misses one breaks it). The properties say what runs
make of such a chain: several at once, interrupted, upwards and downwards, on a
database that grew before the baseline (`GrownAssumption`).

`spoilt` marks what `RevisionNamesTheSchema` excepts: a run that ends between a block
and the commit of its revision, and `Undercut`: an upgrade stands in a block, without
the lock; a downgrade begun earlier takes the lock and commits a lower revision; an
upgrade comes back up to the revision the first one waits at. The first one's test
of the revision then passes on a database that is not the one it left.

## Runs

| Run | Question | Instance | Distinct states |
|---|---|---|---|
| `archive_store` | do the handlers implement `ContentStore`; do rows keep items and objects, and checks hold until the write | 3 processes, 3 files (2 sharing an item), 2 items, 1 content, 1 failure | 665 332 |
| `archive_store_liveness` | is a stranded item removed in the end | 2 processes, no failure | 35 716 |
| `archive_tree` | do trees and permissions survive overlapping administrators; do the ways to read agree | 3 directories in any forest, 1 file, 2 keys, 2 requests at a time, 3 in all | 123 655 |
| `auth_sessions` | do the handlers implement `SignIn`; resets, deadlocks | 1 member, 2 sessions, 3 requests (the third beside a reset), 1 reset, 1 crash | 669 179 |
| `auth_sessions_liveness` | is every request answered, does reuse end the session | 1 member, 1 session, 2 requests | 36 562 |
| `change_requests` | is what was reviewed applied and nothing else | 2 fields, 2 lists of offices, 1 row, 2 processes | 947 608 |
| `member_record` | do checks of one transaction hold of the whole directory | 2 members, 6 forms, 1 office, 2 days, 3 requests | 57 683 |
| `accounting` | do derived hits, sums, references, closed accounts stay right | 2 entries (one may occur twice), 2 categories, 2 filters, 1 account, 2 requests at a time, 4 in all | 697 419 |
| `fee_balances` | does the list equal the statements | 2 members, 1 counter account, 1 booking at a month's end or the day after, fees from any of 3 months | 524 232 |
| `maintenance` | does a downsync do what it reports; does the lock keep jobs apart | `DOWNSYNC_LIGHT`, 2 jobs, 1 manual backup, 2 dumps, 1 failure or crash, 1 timeout | 1 457 006 |
| `maintenance_full` | does a later night repair the stage | full mirror, 1 job, 3 dumps, 1 failure, another job's history | 368 138 |
| `migrations` | does the revision name the schema, do references fit, does the lock serialise | 2 runs, all 91 migrations, 1 downgrade, older image or failure | 90 577 |

Every run is expected to pass. A property appears in a run only if some plausible
error in the code breaks it there (`mutants`).

Why the bounds are enough. *ArchiveStore*: the interactions are between handlers
on one content, so one content with two items (the imported one and the one of an
upload after its deletion) shows all of them; distinct contents share no row, no
lock and no key. Three files are two that share an item and one to upload; the
third process is needed because a purge, an upload and an administrator's click
can be under way at once. *ArchiveTree*: the initial forest is arbitrary, so
behaviours start anywhere; three directories have a gap in the middle of an
inheritance and a cycle that closes behind a third. *AuthSessions*: nearly
every conflict is between two requests on one session or member. Three are needed for
the login that commits while a reset's DELETE waits for a refresh, and for deadlocks of
three; therefore the third request runs beside a reset only (`MCCrowd`, which also
lets one request run at a time after a crash). A second session
distinguishes a reset from a logout, and lets two DELETEs wait for each other. A second
reset would only repeat the first; the proof has any number of both. *ChangeRequests*: two requests at once are
two tabs, a tab and an administrator, or two administrators; the second field is
what a decision must not touch. *MemberRecord*: rules relate two members or two
terms; the six forms leave, die, lock, take an address, a parent and overlapping
terms. Exploration stops (`MCBound`) where an overlap has had its effect; the proofs
have no such bound. *P4xLedger*: four requests are two filters, an
import and what uses them; three of the properties need the two at once.
*FeeBalances*: a booking on the last or the first day of a month, beside fees that
start in any month, is where the two computations could part; one booking is
enough because both add bookings up one by one, which `AttributionAgrees` proves.
*Maintenance*: the second job shows what happens beside a job that was timed out;
without a timeout jobs run one after the other, so the run with one job and more
dumps covers the rest: three dumps are the one the stage was set up from and a
newer one of production and of the stage, in any order, or two newer ones of
either. `MaxFaults` is one because each property is about what one failure leaves
behind. *Migrations*: the chain is complete; a run may die
at three revisions (`Mortal`): before the checks that are validated in a block,
before a block of indexes, and at the last migration; and `MaxTrouble` is one for
the reason `MaxFaults` is.
The properties proved below do not depend on these bounds at all.

Deadlock is not checked where ids, versions or requests are used up and the
program may simply be idle (`ArchiveStore`, `AuthSessions`, `ChangeRequests`,
`MemberRecord`, `P4xLedger`, `ArchiveTree`). It is checked in the runs of
`Maintenance`, whose nights come for ever, of `FeeBalances` and of the migrations,
where a run that waits for ever would be one.

Symmetry is used for processes, sessions, fields, values and rows in the runs of
safety properties, and in none of the liveness runs.

Fairness. `ArchiveStore`: weak fairness of each handler's own steps, failures
and new requests excepted: a thread keeps running, and S3 and PostgreSQL answer
or fail within their timeouts. Liveness is checked without failures, since
nothing in the code resumes the deletion of a crashed handler.
`AuthSessions`: strong fairness of each request's steps, the cleanup's among them. A request that waits
for a row gets it in the order of arrival (PostgreSQL's lock queue), although in
between others may hold it, and a deadlock is broken by PostgreSQL.
`Maintenance`: weak fairness of each job's steps and of `StartTask`: threads run,
subprocesses end, and the cron entry comes every night. The number of failures is
bounded, as without a bound every night could fail; production's dumps and the
administrator are not assumed to do anything. The other modules state no liveness:
their requests are straight lines that end by themselves.

## Where the code and its words part

The modules state what a doc or a comment of the repository says, also where the
code does not keep it. These are no properties of a run; checking one as an
invariant or property of the instance of its module shows the behaviour. The
property next to it is what does hold, and is checked.

* `ItemHasObject` (`ArchiveStore`): `hard_delete_file` deletes the S3 object after
  the commit that removes the item row (`archive_store_cleanup.py:124`). An upload
  of the same content in between stores the object and commits its row, and the
  pending delete removes the object. `scripts/README.md:32` and `:139` speak of a
  harmless orphan at worst. `MissingOnlyWhereRaced` holds.
* `PurgeTakesOnlyTrash`: `purge_file` tests that the file is in the trash without a
  lock (`archive_maintenance_service.py:272`); a restore before its first commit is
  overtaken (`maintain_deleted_archive_files.py:36`).
* `BatchSparesObjects`: `purge-duplicates` may delete an object when the last other
  copy is deleted between its recheck and its commit.
* `ResolvedIsFinal` (`ChangeRequests`): the submission's lookup takes no lock; its
  UPDATE or DELETE by primary key waits for the decision and then changes the
  decided row (`member_change_request_service.py:59`;
  `member_change_request.py:24`). `ReviewedIsApplied` holds.
* `DecisionKeepsRoles`: offices are loaded when the decision's query is sent and
  replaced wholesale at its commit (`standesdb_service.py:796`), while plain fields
  are compared first (`member_change_request_service.py:141`).
  `DecisionTouchesOnlyApproved` holds for the fields.
* `BackupsAreWhole` (`Maintenance`): a manual backup takes no maintenance lock and
  may dump a wiped database (`api/router_includes/system.py:100`). A downsync may
  even restore it; `RepairedByLaterNight` shows that the stage gets out of it again.
* `NeverOverlap`: a timed-out task frees the lock, its thread goes on.
  `OneJobPerTimeout` holds.
* `RestoresProduction`: a downsync restores the newest dump in the stage's storage,
  which may be the stage's own. `NothingOlderThanMirrored` holds.
* `DryRunAnnouncesRestored`: `downsync_prod.py --dry-run` announces the last name as
  text, the restore takes the newest time.
* `HistorySurvives`, `OutcomeVisible`: a run recorded between the history's snapshot
  and the wipe is lost, and when `pg_restore` fails at once no table is left to
  record the outcome in. `SavedHistoryIsBack` holds.
* `DatabaseRefusesOtherSums` (`P4xLedger`): `e1b3c5d7f9a2_p4x_category_direct_sum.py:9`
  says the database refuses any other sum; the deferred triggers of two
  transactions do not see each other's rows. `DirectsAddUp` holds.
* Migrations: `migration_lock.py:6` says the lock serialises runs; it ends with the
  first `autocommit_block()`. `SerializedPastBlocks` holds. A failed
  `VALIDATE` leaves constraints that the next start adds again
  (`cb250c054945_check_constraints.py:220`).
* Without the exception for overlaps, acyclic parents, acyclic directories, "one
  holder" and "the keys are those of the last save" fail in their modules.

Smaller observations made on the way: the purge of a trashed directory may overtake
its restoring; the summary spreadsheet counts the start day of an account; deleting
an unprotected fee that is in force changes balances of the past; direct assignments
of transactions set aside block the deletion of their category with an unhandled
integrity error.

## Proofs

All proofs are for every value of the constants, under the named assumptions in
the modules: `FaultsAssumption`, `NoneAssumption` and `ImportAssumption` (the
import gives every file an item, every item a file and a content of its own) in
`ArchiveStore`; `AuthAssumption` in `AuthSessions`; those of `FeeBalances`,
`ArchiveTree`, `P4xLedger` and `MemberRecord` say that marks are no values, bounds and
amounts are numbers (no bank entry is zero: the import skips those), forms and rules
are well formed, and that the bookings of a ledger, its categories and filters, and the
directories of an archive are finitely many; `NoneAssumption` and `VersionAssumption`
in `ChangeRequests`. The `NoneAssumption`s say that the marker for "no value" is not a
value.

Induction. Two of the modules sum over sets and one walks up a tree. The provers
cannot use an induction rule that takes a predicate as its parameter, but they can use
the well-foundedness of strict inclusion of finite sets
(`FS_StrictSubsetOrderingWellFounded` with `WFMin`): the *set* of counterexamples, if
not empty, has a smallest member, and that one leads to a contradiction. So
`MapThenSumSet` is shown to be additive over disjoint sets, a recursive function over
numbers to take the value meant at each number, and a walk along parents to end.

`ArchiveStoreProofs`. None of the invariants is inductive by itself.
`RowInv` is: with the types and the foreign key it says what a handler may rely
on in each phase (`PhaseOK`) and that between the reference count and the second
commit nobody can start to reference the item again (`NoRefAtDelete`) – true
because uploads never attach to an existing item. From `RowInv` follow, each with
one lemma over all actions: the row lock (`LockInv`: one holder, and every action
that could file or delete a locked file waits), the CLI's restore, stranded
items, lost content (`StoreInv`: overlaps are recorded, and an upload about to
insert has its object stored or its content recorded), and orphans
(`OrphanInv`: an object without a row has its S3 deletion still to come).
The argument for `ForeignKeyNeverTrips` is the one `hard_delete_file` needs and
does not spell out.

It also joins its parts to the properties the run checks:
`OrphansExplained` and `ChecksHold`, and `ForeignKeyNeverTrips` with `NothingStranded`
to `RowsAlwaysAgree`.
`ContentStoreRefined` is the refinement, with a lemma for each action `ContentStore`
sees (`InsertIsPut`, `CountIsBegin`, `PurgeIsDiscard`, `RowIsDelete`, `UpdateIsMove`);
every other step is invisible to it. `CountIsBegin` is where it could fail: the
handler counts references to an *item*, the promise is about a *content*, and only
`OneItemPerContent`, the unique `sha256_hash` kept by every step, makes them the same.
`PurgeIsDiscard` needs that overlaps are recorded. `FilesKeepTheirContent` is then a
fact about `ContentStore` alone, carried over by the refinement.

`AuthSessionsProofs`. `LockInv` says who holds which row in which phase: sessions
by refreshes and bulk DELETEs, members by stamps and logouts; a refresh holds its live
session, so the secret it compared is current until it commits. `ResetInv` says
that from the start of its DELETE on, a reset has taken or has still to take every
session of its member, except those inserted since, which are in `late`. A deadlock is
a smallest set of requests that wait for nobody outside it; there each one is also
waited for (`EachIsWaitedFor`), so it holds a row and wants another, which few phases
do: a stamp or a logout after its first UPDATE, a refresh about to rotate, and a DELETE.
`SingleUse`, `DeadlocksHaveOneShape`, `ResetEndsOldSessions`
and `EndedForGood` follow.
`SignInRefined` is the refinement: `RowInv` adds that locked rows exist and that an
ended session has left nothing behind, and with it every step is one step of
`SignIn` or changes nothing it sees (`PromiseStep`, one case per action). The
rotation needs `LockInv`: it exchanges the secret without looking, and only the row
lock makes that a compare-and-swap.

`ChangeRequestsProofs`. `ReviewInv`: a row still pending in the version that was
seen holds the values that were seen. `DecisionInv`: from the check on, the
decision holds the row's lock, so the version check stays true until the commit.
`MergedIsRecord` shows that the record to be saved is complete. `ReviewedApplied`
and `OnlyApprovedTouched` follow.

`MaintenanceProofs` (assumptions `ActorsAssumption`: finitely many jobs, `None` is
none of them; `BoundsAssumption`; for the migrations `ChainAssumption`, `RunsAssumption`,
`GrownAssumption`, `ReferencesAssumption`). `SoleInv`: without a timeout, who is at work
and who holds the lock is the same thing. With it, one job's steps are all that
can disturb what that job relies on, and `RestoreInv` (what the database is in
each phase of a restore), `MirrorInv` (the mirror's listings are still there to
select from) and `RestInv` (nothing half done while nobody restores) are
inductive. `AbandonedInv` counts the threads whose task has stopped waiting.
The newest of a set of dumps exists because numbers have a least element, which
`LeastNat` derives from the well-foundedness of inclusion of finite sets in the
library. `SuccessMeansRestored` is proved with any number of failing steps and
crashes; the bound on them plays no part.

`MemberRecordProofs`. `LockInv`: who has flushed holds the row. `WalkInv`: the walk
of the trigger has seen the committed parents, so a cycle needs two commits that
overlapped; `Away` says that a walk from a member does not come back. `VacantInv`
and `ReadInv`: what a save has compared is what is committed, unless a recorded
overlap came in between. `HistoryIsTrue` rests on `ReplayChanges`: replaying the
difference of two lists of offices turns one into the other. All five properties of
the module are proved, `OneHolder` and `StatusRules` among them.

`FeeBalancesProofs`. All three properties of the module are proved. At their heart is
`AttributionAgrees`: the pass over all bookings attributes to a member exactly what the
member's own statement collects; with the sums of equal sets, and the sum over months
(`FeesAreSums`), the list equals the statements (`ListAgrees`). `StatementsAddUp`: the
bookings and the months of two adjoining periods are disjoint and together those of
the whole. `PastIsSettled`: a fee that starts in a month changes no month before it.

`ArchiveTreeProofs`. All five properties of the module are proved. `KeysInv` says of an
update under way that the rows it has read and will delete are still there, and that
every other row of its directory was put there by a save it has met; it gives
`KeysAreOfLastSaves`. `PlacesStay` needs only the types: a commit tests again, by its
foreign keys, what the request had read. `AboveLaws` shows that what the walk upwards
collects is the least set closed under parents; it needs that there are no more steps
than directories, which is a counting argument. `CyclesNeedOverlap` rests on `MoveInv`:
when a move was checked, the walk from its target passed a set of directories that
holds none of those to be moved; while the move is under way that set is as it was, but
for the directories that requests it has met moved. So a commit that closes a cycle
met another request, and that is recorded. `PathsAlwaysAgree` and `InheritanceReachesDown`
compare what the read paths say, along a walk with gaps, each computed its own way.

`P4xLedgerProofs`. All five properties of the module are proved. The inductive
invariant is, beside the properties themselves, `TypeOK`, `BoundInv` (an entry has an
account), and what is known of requests that have written and not committed:
`OrderInv` (of two such requests one waits for the other, and none commits while it
contends with one it waits for), `PairInv` (two that have both been checked assign to
different transactions, or to ones recorded in `raced`), `ShapeInv` (what each kind of
request writes; what it adds as direct assignments splits whole amounts), `FreshInv` (a
request that is not stale sees in the ledger what it has read) and `CheckedInv` (what
the constraint triggers tested still holds, whatever the others have committed since).
`DirectsAddUp` is the one that needs sums: a commit removes and adds whole splits, so
the triggers' test for the transaction and the ledger's sum agree. `ConversionIsNeutral`
follows without further invariant from `FreshInv`.

Proving changed the ledger's history variable `crossed`: as first written, it recorded
the account that an import was made for, and `ClosedHoldsNothing` was then false with
three requests and three accounts, which no run had reached: the behaviour is the one
told under *Ledger and fees*.

The second half of `MaintenanceProofs` is about `SchemaMigrations`, for every chain
that meets its assumptions, which TLC evaluates on the real one.
`RevisionNamesTheSchema` is far from inductive: it speaks of the moments in which
nothing is half done, and what must be known of the others is

* `TypedRuns`: where a run can be in each phase, and that uncommitted work leads from
  the committed revision towards the goal;
* `OrderInv`: a run that has read a revision is not above the committed one, until one
  is undercut;
* `Fated`: a run that is half-way below the committed revision, or one of two that are
  half-way, can only end by aborting, which `spoilt` records; once so, always so
  (`OrderKept`, from what each step does to the order of the runs: `Orderly`). So as
  long as the property can come true again, at most one run is half-way, at the
  committed revision;
* `ContentInv`: then that run has the schema of its block, statement by statement
  (`HalfOK`: `UpTo` and `DownTo`, with one lemma for each kind of statement), work that
  is not committed is the schema of its revision (`WorkBuilt`), and if nothing is half
  done the committed schema is (`RestBuilt`).

`KeptAbove` and `KeptBelow` say of the chain, fact by fact, what each of its links makes
of a schema that has it so far. `ReferencesFit` needs none of this: every schema a run
can reach has the references, keys and joined columns of its revision, but for the
references that may be lost (`Matches`), because blocks do not touch them.

Proving changed the model here too. As first written, `spoilt` recorded the runs that
end half-way and nothing else, and the property was then false: the behaviour is
`Undercut`, told under *Migrations*. TLC found it on a chain of three made-up
migrations; it needs a downgrade that drops a table a block above it has worked on, and
the run over the real chain does not meet that.

Only model-checked: the liveness properties (`StrandedItemRemoved`,
`EveryRequestAnswered`, `ReuseEndsSession`, `RepairedByLaterNight`), which need
fairness and ENABLED; and `SerializedPastBlocks`, which rests on what each change of the
chain past the last block finds in the schema (whether its statements fail there), a
computation over 91 changes that a proof would only repeat. Every other property of
every run is proved.

## Plan

The system's stateful parts have their modules; what is worth doing next, in order:

1. `StandesdbImages`: the default image and its unique index beside S3.
2. `ContactMail`: arq's retries of a job whose mail may already have been sent;
   `Maintenance` extended by the two scripts, by retention on the stage and by the
   hour repeated in autumn.

## Not modelled

* Mail, exports, anniversaries, statistics, status pages, integrity report: rendering
  and read-only queries. Tracking and the activity log append rows nobody depends on.
* Contacts, comments, public content and its order, linking a Google account: saves of
  one row in one transaction; the unique indexes decide the rest.
* Images: a default image per member under a unique index; the object handling is the
  archive's.
* Who may call an operation: a lookup in constant tables per request, without state
  (except what the archive shows to whom, which is `ArchiveTree`'s).
* Request schemas: validation of single values; forms reach the modules validated.
* Parsing of bank files, full-text search, tokens' signatures, bcrypt, images'
  scaling: functions of their input.
