-------------------------- MODULE SchemaMigrations --------------------------
(***************************************************************************)
(* Runs of alembic against one PostgreSQL database: the web container that *)
(* migrates before it starts (src/docker-entrypoint.sh), the downsync job, *)
(* a person.  A run takes the advisory lock and reads the revision, then   *)
(* applies one migration after the other inside a single transaction       *)
(* (src/alembic/env.py).                                                   *)
(*                                                                         *)
(* autocommit_block() ends that transaction: it commits what was done so   *)
(* far, with the revision still the one before, and so gives the advisory  *)
(* lock back; each statement of the block commits on its own, and the rest *)
(* of the run goes on in a new transaction without the lock.               *)
(***************************************************************************)
EXTENDS SchemaFacts, Integers

CONSTANTS
  Runs,        \* processes that may run alembic
  Chain,       \* the migrations, in the order of their down_revision links
  Built,       \* the schema that the first v migrations build from nothing
  Ungrownable, \* <<revision, facts>>: where a database that grew before the
               \* baseline was stamped, and the facts it lacks there
  Images,      \* heads of the images that may be started
  Goals,       \* revisions a person may downgrade to
  Mortal,      \* bound: the revisions at which a run may fail
  MaxTrouble   \* bound: downgrades, starts of an older image and failures

VARIABLES
  schema,      \* committed facts
  version,     \* committed revision: how many migrations of the chain are applied
  advisory,    \* holder of pg_advisory_xact_lock
  run,         \* what each process is doing
  dirty,       \* the run with uncommitted work,
  work,        \* and what it sees: [schema, version]
  spoilt,      \* a run ended between a block and the commit of its revision,
               \* or a downgrade went below a revision another run had read
  trouble      \* how often something out of the ordinary has happened

migrationVars == <<schema, version, advisory, run, dirty, work, spoilt, trouble>>

Nobody == "none"
Newest == Len(Chain)

\* What a migration makes of what was built before it.
Made(m, facts) == (Apply(m.up, facts) \ Halves(m.online)) \cup Established(m.online)

\* Dropped with IF EXISTS on the way up, and not made again on the way down.
Lost == UNION {Chain[v].up.loose : v \in 1..Newest}
Kept == [v \in 0..Newest |-> Built[v] \ Lost]

(***************************************************************************)
(* What the migrations are expected to be, for any chain of them: lists of *)
(* statements that do not get in each other's way or in the way of the     *)
(* transaction before them, and downgrades that undo the upgrades.         *)
(***************************************************************************)
About(s) == {s.fact, s.half}
Listed(block) ==
  /\ block \in Seq({block[i] : i \in DOMAIN block})
  /\ \A i, j \in DOMAIN block : i # j => About(block[i]) \cap About(block[j]) = {}
  /\ \A i \in DOMAIN block : block[i].fact # block[i].half
OnlineSound(v) ==
  LET m == Chain[v]
  IN  \A i \in DOMAIN m.online :
        \/ m.online[i].op = "create"
           /\ About(m.online[i]) \cap (Lost \cup Kept[v - 1] \cup Apply(m.up, Kept[v - 1])) = {}
        \/ m.online[i].op = "validate" /\ m.online[i].fact \in m.up.add
OfflineSound(v) ==
  LET m == Chain[v]
  IN  \A i \in DOMAIN m.offline :
        m.offline[i].op = "drop" /\ (m.down = Nothing => m.offline[i].fact \in Kept[v])
Undone(v) ==
  LET m == Chain[v]
  IN  (Apply(m.down, Kept[v]) \ Lost) \ (Established(m.offline) \cup Halves(m.offline)) = Kept[v - 1]

ASSUME ChainAssumption ==
  /\ Newest \in Nat /\ Built[0] = {}
  /\ \A v \in 1..Newest : Built[v] = Made(Chain[v], Built[v - 1])
  /\ \A v \in 1..Newest : /\ Listed(Chain[v].online) /\ Listed(Chain[v].offline)
                          /\ OnlineSound(v) /\ OfflineSound(v) /\ Undone(v)
ASSUME RunsAssumption ==
  /\ Nobody \notin Runs /\ Images \subseteq 0..Newest /\ Goals \subseteq 0..Newest
  /\ MaxTrouble \in Nat
ASSUME GrownAssumption ==
  Ungrownable[1] \in 0..Newest /\ Ungrownable[2] \subseteq Lost

(***************************************************************************)
(* References and keys, and the types of the columns some reference joins: *)
(* no block touches them, nothing drops them loosely, and each revision    *)
(* has a key of the same type wherever it has a reference.                 *)
(***************************************************************************)
Joined == UNION { {<<f[1], f[3]>>, <<f[4], f[5]>>} :
                  f \in {g \in UNION {Built[v] : v \in 0..Newest} : g[2] = "fk"} }
Relevant(f) == \/ f[2] \in {"fk", "key"}
               \/ f[2] = "column" /\ <<f[1], f[3]>> \in Joined
Leaves(c) == Dropped(c) = {} /\ \A f \in c.add \cup c.del \cup c.ensure \cup c.loose : ~Relevant(f)
Untouched(v) ==
  LET m == Chain[v]
  IN  /\ m.online # <<>> => Leaves(m.up)
      /\ m.offline # <<>> => Leaves(m.down)
      /\ \A i \in DOMAIN m.online : \A f \in About(m.online[i]) : ~Relevant(f)
      /\ \A i \in DOMAIN m.offline : \A f \in About(m.offline[i]) : ~Relevant(f)
SoundReferences(facts) ==
  \A f \in facts :
    f[2] = "fk" => /\ <<f[4], "key", f[5]>> \in facts
                   /\ \E type \in {"uuid", "int", "text"} :
                        <<f[1], "column", f[3], type>> \in facts /\ <<f[4], "column", f[5], type>> \in facts

ASSUME ReferencesAssumption ==
  /\ \A f \in Lost : Relevant(f) => f[2] = "fk"
  /\ \A v \in 1..Newest :
       Untouched(v) /\ \A f \in Apply(Chain[v].down, Built[v]) : Relevant(f) => f \in Built[v - 1]
  /\ \A v \in 0..Newest : SoundReferences(Built[v])

Idle == [pc |-> "idle", up |-> TRUE, goal |-> 0, at |-> 0, k |-> 0, half |-> FALSE]
NoWork == [schema |-> {}, version |-> 0]

(***************************************************************************)
(* The migration a run is at: the change its transaction makes, the block  *)
(* after it, the revision it leads to.                                     *)
(***************************************************************************)
Change(r) == IF run[r].up THEN Chain[run[r].at + 1].up ELSE Chain[run[r].at].down
Block(r)  == IF run[r].up THEN Chain[run[r].at + 1].online ELSE Chain[run[r].at].offline
Onward(r) == IF run[r].up THEN run[r].at + 1 ELSE run[r].at - 1

\* A statement waits for the locks of another run's uncommitted statements.
Free(r) == dirty \in {r, Nobody}
Mine(r) == IF dirty = r THEN work ELSE [schema |-> schema, version |-> version]
GiveBack(r) == advisory' = IF advisory = r THEN Nobody ELSE advisory

MigrationsInit ==
  /\ \/ schema = {} /\ version = 0
     \/ version = Ungrownable[1] /\ schema = Built[version] \ Ungrownable[2]
  /\ advisory = Nobody /\ run = [r \in Runs |-> Idle]
  /\ dirty = Nobody /\ work = NoWork
  /\ spoilt = FALSE /\ trouble = 0

\* alembic upgrade head, in a container of an image whose chain ends at h.
Upgrade(r, h) ==
  /\ run[r].pc = "idle"
  /\ h = Newest \/ trouble < MaxTrouble
  /\ trouble' = IF h = Newest THEN trouble ELSE trouble + 1
  /\ run' = [run EXCEPT ![r] = [Idle EXCEPT !.pc = "waiting", !.goal = h]]
  /\ UNCHANGED <<schema, version, advisory, dirty, work, spoilt>>

\* alembic downgrade, by a person, who begins it while nothing else migrates
\* (src/README.md:135); a container may well start while it is under way.
Downgrade(r, g) ==
  /\ \A q \in Runs : run[q].pc = "idle"
  /\ trouble < MaxTrouble
  /\ trouble' = trouble + 1
  /\ run' = [run EXCEPT ![r] = [Idle EXCEPT !.pc = "waiting", !.up = FALSE, !.goal = g]]
  /\ UNCHANGED <<schema, version, advisory, dirty, work, spoilt>>

\* Slip: the revision is read without the lock.
TakeLockUnheld(r) ==
  /\ run[r].pc = "waiting"
  /\ LET due == IF run[r].up THEN version < run[r].goal ELSE version > run[r].goal
     IN  run' = [run EXCEPT ![r] = IF due THEN [@ EXCEPT !.pc = "steps", !.at = version] ELSE Idle]
  /\ UNCHANGED <<schema, version, advisory, dirty, work, spoilt, trouble>>

\* The transaction begins, takes the lock and then reads the revision.  A
\* database at or beyond the image's head is left as it is.
TakeLock(r) ==
  /\ run[r].pc = "waiting" /\ advisory = Nobody
  /\ LET due == IF run[r].up THEN version < run[r].goal ELSE version > run[r].goal
     IN  /\ advisory' = IF due THEN r ELSE Nobody
         /\ run' = [run EXCEPT ![r] = IF due THEN [@ EXCEPT !.pc = "steps", !.at = version] ELSE Idle]
  /\ UNCHANGED <<schema, version, dirty, work, spoilt, trouble>>

\* Slip: what was done before the error stays, as without transactional DDL.
AbortKeepsWork(r) ==
  /\ GiveBack(r)
  /\ run' = [run EXCEPT ![r] = Idle]
  /\ schema' = Mine(r).schema
  /\ dirty' = IF dirty = r THEN Nobody ELSE dirty
  /\ work' = IF dirty = r THEN NoWork ELSE work
  /\ spoilt' = (spoilt \/ run[r].half)
  /\ UNCHANGED version

\* The transaction rolls back: an error, or the end of the process.
Abort(r) ==
  /\ GiveBack(r)
  /\ run' = [run EXCEPT ![r] = Idle]
  /\ dirty' = IF dirty = r THEN Nobody ELSE dirty
  /\ work' = IF dirty = r THEN NoWork ELSE work
  /\ spoilt' = (spoilt \/ run[r].half)
  /\ UNCHANGED <<schema, version>>

(***************************************************************************)
(* One migration without a block: its statements, then UPDATE              *)
(* alembic_version ... WHERE version_num = <the revision before>, which    *)
(* must match a row.                                                       *)
(***************************************************************************)
Due(r) == run[r].pc = "steps" /\ run[r].at # run[r].goal /\ Free(r)

\* Slip: a migration does not see what the ones before it have done.
StepFromCommitted(r) ==
  /\ Due(r) /\ Block(r) = <<>>
  /\ Applicable(Change(r), Mine(r).schema) /\ Mine(r).version = run[r].at
  /\ dirty' = r
  /\ work' = [schema |-> Apply(Change(r), schema), version |-> Onward(r)]
  /\ run' = [run EXCEPT ![r].at = Onward(r)]
  /\ UNCHANGED <<schema, version, advisory, spoilt, trouble>>

Step(r) ==
  /\ Due(r) /\ Block(r) = <<>>
  /\ Applicable(Change(r), Mine(r).schema) /\ Mine(r).version = run[r].at
  /\ dirty' = r
  /\ work' = [schema |-> Apply(Change(r), Mine(r).schema), version |-> Onward(r)]
  /\ run' = [run EXCEPT ![r].at = Onward(r)]
  /\ UNCHANGED <<schema, version, advisory, spoilt, trouble>>

\* r is about to commit a lower revision while another run, which has read
\* one before, is still at work.
Undercut(r, v) == v < version /\ \E q \in Runs \ {r} : run[q].pc \notin {"idle", "waiting"}

\* The statements before a block, and the commit with which the block begins.
EnterBlock(r) ==
  /\ Due(r) /\ Block(r) # <<>>
  /\ Applicable(Change(r), Mine(r).schema)
  /\ schema' = Apply(Change(r), Mine(r).schema)
  /\ version' = Mine(r).version
  /\ dirty' = Nobody /\ work' = NoWork
  /\ GiveBack(r)
  /\ run' = [run EXCEPT ![r].pc = "block", ![r].k = 1, ![r].half = (Change(r) # Nothing)]
  /\ spoilt' = (spoilt \/ Undercut(r, Mine(r).version))
  /\ UNCHANGED trouble

\* A statement meets what another run has done since this one read the revision.
Refused(r) ==
  /\ Due(r)
  /\ \/ ~Applicable(Change(r), Mine(r).schema)
     \/ Block(r) = <<>> /\ Mine(r).version # run[r].at
  /\ Abort(r) /\ UNCHANGED trouble

(***************************************************************************)
(* The statements of a block, each committed by itself.                    *)
(***************************************************************************)
InBlock(r) == run[r].pc = "block" /\ run[r].k <= Len(Block(r))
Statement(r) == Block(r)[run[r].k]
Missing(r) ==     \* its table or, to validate, its constraint
  \/ Statement(r).op = "create" /\ \A f \in schema : f[1] # Statement(r).fact[1]
  \/ Statement(r).op = "validate" /\ Statement(r).fact \notin schema
Done(r) == [run EXCEPT ![r].pc = "block", ![r].k = @ + 1, ![r].half = TRUE]

\* IF [NOT] EXISTS, or a constraint already valid: nothing to do.  Statements
\* of this kind that follow each other are passed over together.
Idling(s) ==
  \/ s.op = "create" /\ {s.fact, s.half} \cap schema # {}
  \/ s.op = "drop" /\ {s.fact, s.half} \cap schema = {}
  \/ s.op = "validate" /\ s.fact \in schema /\ s.half \notin schema

Skip(r) ==
  /\ InBlock(r)
  /\ \E n \in (run[r].k + 1)..(Len(Block(r)) + 1) :
       /\ \A i \in run[r].k..(n - 1) : Idling(Block(r)[i])
       /\ n <= Len(Block(r)) => ~Idling(Block(r)[n])
       /\ run' = [run EXCEPT ![r].k = n]
  /\ UNCHANGED <<schema, version, advisory, dirty, work, spoilt, trouble>>

\* CREATE INDEX CONCURRENTLY: an index that is not valid yet, then the scans.
BeginIndex(r) ==
  /\ InBlock(r) /\ Free(r) /\ ~Missing(r)
  /\ Statement(r).op = "create" /\ {Statement(r).fact, Statement(r).half} \cap schema = {}
  /\ schema' = schema \cup {Statement(r).half}
  /\ run' = [run EXCEPT ![r].pc = "building", ![r].half = TRUE]
  /\ UNCHANGED <<version, advisory, dirty, work, spoilt, trouble>>

FinishIndex(r) ==
  /\ run[r].pc = "building" /\ Free(r)
  /\ schema' = IF Statement(r).half \in schema
               THEN (schema \ {Statement(r).half}) \cup {Statement(r).fact} ELSE schema
  /\ run' = Done(r)
  /\ UNCHANGED <<version, advisory, dirty, work, spoilt, trouble>>

DropConcurrently(r) ==
  /\ InBlock(r) /\ Free(r)
  /\ Statement(r).op = "drop" /\ {Statement(r).fact, Statement(r).half} \cap schema # {}
  /\ schema' = schema \ {Statement(r).fact, Statement(r).half}
  /\ run' = Done(r)
  /\ UNCHANGED <<version, advisory, dirty, work, spoilt, trouble>>

ValidateConstraint(r) ==
  /\ InBlock(r) /\ Free(r)
  /\ Statement(r).op = "validate" /\ Statement(r).half \in schema /\ ~Missing(r)
  /\ schema' = schema \ {Statement(r).half}
  /\ run' = Done(r)
  /\ UNCHANGED <<version, advisory, dirty, work, spoilt, trouble>>

\* A migration of another run has taken away what the statement is about.
RefusedInBlock(r) == InBlock(r) /\ Free(r) /\ Missing(r) /\ Abort(r) /\ UNCHANGED trouble

\* After the block a new transaction: the revision, and whatever comes next.
LeaveBlock(r) ==
  /\ run[r].pc = "block" /\ run[r].k > Len(Block(r)) /\ Free(r)
  /\ IF version = run[r].at
     THEN /\ dirty' = r /\ work' = [schema |-> schema, version |-> Onward(r)]
          /\ run' = [run EXCEPT ![r].pc = "steps", ![r].at = Onward(r), ![r].k = 0]
          /\ UNCHANGED <<schema, version, advisory, spoilt>>
     ELSE Abort(r)
  /\ UNCHANGED trouble

Commit(r) ==
  /\ run[r].pc = "steps" /\ run[r].at = run[r].goal
  /\ schema' = work.schema /\ version' = work.version
  /\ dirty' = Nobody /\ work' = NoWork
  /\ GiveBack(r)
  /\ run' = [run EXCEPT ![r] = Idle]
  /\ spoilt' = (spoilt \/ Undercut(r, work.version))
  /\ UNCHANGED trouble

\* The process dies, lock_timeout runs out, or the rows break a new rule.
BreakOff(r) ==
  /\ run[r].pc # "idle" /\ trouble < MaxTrouble /\ run[r].at \in Mortal
  /\ trouble' = trouble + 1
  /\ Abort(r)

RunStep(r) ==
  \/ TakeLock(r) \/ Step(r) \/ EnterBlock(r) \/ Refused(r) \/ Skip(r) \/ BeginIndex(r)
  \/ FinishIndex(r) \/ DropConcurrently(r) \/ ValidateConstraint(r) \/ RefusedInBlock(r)
  \/ LeaveBlock(r) \/ Commit(r)

MigrationsNext ==
  \E r \in Runs :
    \/ \E h \in Images : Upgrade(r, h)
    \/ \E g \in Goals : Downgrade(r, g)
    \/ RunStep(r) \/ BreakOff(r)

Migrations == MigrationsInit /\ [][MigrationsNext]_migrationVars

-----------------------------------------------------------------------------
(***************************************************************************)
(* Types; uncommitted work and the lock belong to a run that is in its     *)
(* transaction, so whatever ends a run gives both back (env.py:45-66).     *)
(***************************************************************************)
MigrationsTypeOK ==
  /\ version \in 0..Newest
  /\ advisory \in Runs \cup {Nobody} /\ dirty \in Runs \cup {Nobody}
  /\ work.version \in 0..Newest
  /\ run \in [Runs -> [pc : {"idle", "waiting", "steps", "block", "building"}, up : BOOLEAN,
                       goal : 0..Newest, at : 0..Newest, k : Nat, half : BOOLEAN]]
  /\ spoilt \in BOOLEAN /\ trouble \in 0..MaxTrouble
  /\ dirty # Nobody => run[dirty].pc = "steps"      \* no work is left behind
  /\ advisory # Nobody => run[advisory].pc = "steps"

(***************************************************************************)
(* The revision in alembic_version says what the schema is: whichever way  *)
(* a database came to a revision, from nothing, grown and stamped, one     *)
(* release at a time, through downgrades, beside another run, it has the   *)
(* schema the chain builds for it, as long as no run ended between an      *)
(* autocommit block and the commit of its revision, and no downgrade has   *)
(* gone below a revision that another run had read: that run would meet    *)
(* its revision again on another database and not notice.                  *)
(* (src/tests/test_migration_round_trip.py checks one path.)               *)
(***************************************************************************)
RevisionNamesTheSchema ==
  ~spoilt /\ (\A r \in Runs : ~run[r].half) => schema \ Lost = Kept[version]

(***************************************************************************)
(* After every migration, committed or not, each reference has the         *)
(* type of the column it points to, and that column is a key: no cutover   *)
(* forgets a reference that an earlier migration has created.              *)
(***************************************************************************)
ReferencesFit == SoundReferences(IF dirty = Nobody THEN schema ELSE work.schema)

\* Past the last migration with a block the advisory lock does what it is for:
\* no run is refused for what another has done meanwhile.
LastBlock == CHOOSE v \in 0..Newest :
               /\ v = 0 \/ Chain[v].online # <<>>
               /\ \A w \in (v + 1)..Newest : Chain[w].online = <<>>
SerializedPastBlocks ==
  [][\A r \in Runs :
       (run[r].pc \in {"steps", "block"} /\ run[r].at # run[r].goal /\ run'[r] = Idle /\ trouble' = trouble)
         => run[r].at <= LastBlock]_migrationVars
=============================================================================
