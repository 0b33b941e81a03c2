---------------------------- MODULE ArchiveTree ----------------------------
(***************************************************************************)
(* The directories of the archive, who may see into them, and the requests *)
(* of administrators that move, permit, trash and remove them:             *)
(* archive_service. What is stored under a file is ArchiveStore's matter;  *)
(* here a file only has a place.                                           *)
(*                                                                         *)
(* A request reads and checks first and writes when it commits. Nothing    *)
(* that is read is locked, so any other request may commit in between.     *)
(* Requests whose check cannot go stale before their single write (create, *)
(* restore, move a file) are one step.                                     *)
(***************************************************************************)
EXTENDS Naturals, FiniteSets

CONSTANTS
    Dirs,       \* ids of directories; an id is never used again
    Files,
    Keys,       \* pairs of organisation and state a permission is given to
    Grants,     \* the sets of keys an administrator may send
    Requests,   \* administrators' requests under way
    None,       \* the root as a place; an id not used yet
    Gone,       \* an id whose row was deleted
    MaxAsked    \* bound on the requests of a behaviour

ASSUME FiniteDirs   == IsFiniteSet(Dirs)
ASSUME BoundIsNat   == MaxAsked \in Nat
ASSUME GrantsOfKeys == Grants \subseteq SUBSET Keys

VARIABLES
    dir,        \* archive_dirs with archive_permissions
    file,       \* the archive_dir_id of each of archive_files
    job,        \* what each request has read and will write
    asked,      \* requests made so far
    saved,      \* history: the keys of the last save, and those of saves it crossed
    crossed     \* history: {d, e} where a move of d overlapped one of e

vars == <<dir, file, job, asked, saved, crossed>>

Place == Dirs \cup {None}
Row   == [up : Place, trashed : BOOLEAN, recursive : BOOLEAN, keys : SUBSET Keys]

ASSUME MarksAreNoRows ==
    None \notin Row \cup Dirs /\ Gone \notin Row /\ Gone # None

Idle   == [op |-> "idle"]
Move   == [op : {"move"}, dirs : SUBSET Dirs, target : Place, met : SUBSET Dirs]
Update == [op : {"update"}, dir : Dirs, keys : SUBSET Keys, recursive : BOOLEAN,
           flips : BOOLEAN, gone : SUBSET Keys, met : SUBSET Keys]
Delete == [op : {"delete"}, dir : Dirs, hard : BOOLEAN]

TypeOK ==
    /\ dir \in [Dirs -> Row \cup {None, Gone}]
    /\ file \in [Files -> Place]
    /\ job \in [Requests -> {Idle} \cup Move \cup Update \cup Delete]
    /\ asked \in 0..MaxAsked
    /\ saved \in [Dirs -> [keys : SUBSET Keys, met : SUBSET Keys]]
    /\ crossed \subseteq SUBSET Dirs

-----------------------------------------------------------------------------
(* The tree                                                                *)

Live == {d \in Dirs : dir[d] \notin {None, Gone}}

(* The directories a walk over archive_dir_id from d passes.               *)
Above(d) ==
    LET up[n \in Nat] ==
            IF n = 0 THEN {d}
            ELSE LET passed == up[n - 1]
                 IN passed \cup ({dir[e].up : e \in passed} \ {None})
    IN {e \in up[Cardinality(Dirs)] : e # d \/ \E b \in up[Cardinality(Dirs)] : dir[b].up = d}

(* The walk of build_path and of _inherited_permissions comes to an end.   *)
Ends(d) == \A e \in {d} \cup Above(d) : e \notin Above(e)

HasContent(d) ==
    \/ \E e \in Live : dir[e].up = d
    \/ \E f \in Files : file[f] = d

(* Slip: a directory without recursive permissions ends the inheritance.   *)
InheritedToFirstGap(d) ==
    LET inherited[n \in Nat] == [e \in Live |->
            IF n = 0 \/ dir[e].up = None \/ ~dir[dir[e].up].recursive THEN {}
            ELSE dir[dir[e].up].keys \cup inherited[n - 1][dir[e].up]]
    IN inherited[Cardinality(Dirs)][d]

(* _inherited_permissions: a parent without recursive permissions is       *)
(* skipped, those above it are still asked.                                *)
Inherited(d) ==
    LET inherited[n \in Nat] == [e \in Live |->
            IF n = 0 \/ dir[e].up = None THEN {}
            ELSE (IF dir[dir[e].up].recursive THEN dir[dir[e].up].keys ELSE {})
                 \cup inherited[n - 1][dir[e].up]]
    IN inherited[Cardinality(Dirs)][d]

Effective(d) == dir[d].keys \cup Inherited(d)

Insight(k, d) == k \in Effective(d)

(* _trashed_subtree                                                        *)
InTrash(d) == \E e \in {d} \cup Above(d) : dir[e].trashed

-----------------------------------------------------------------------------
(* What a member with key k, no administrator, gets to see. Each request   *)
(* that reads has checks of its own.                                       *)

Opens(k, d) == ~InTrash(d) /\ Insight(k, d)

Reads(k, f) == file[f] # None /\ ~InTrash(file[f]) /\ Insight(k, file[f])

(* Slip: the listing leaves it to the directory itself to check.           *)
ListedUnchecked(k, place) == {d \in Live : dir[d].up = place /\ ~dir[d].trashed}

Listed(k, place) == {d \in Live : dir[d].up = place /\ ~dir[d].trashed /\ Insight(k, d)}

ListedFiles(k, d) == {f \in Files : file[f] = d /\ Insight(k, d)}

FoundDirs(k) == {d \in Live : ~dir[d].trashed /\ ~InTrash(d) /\ Insight(k, d)}

FoundFiles(k) ==
    {f \in Files : file[f] # None /\ ~InTrash(file[f]) /\ Insight(k, file[f])}

-----------------------------------------------------------------------------
(* Requests                                                                *)

NewRow(place, keys, recursive) ==
    [up |-> place, trashed |-> FALSE, recursive |-> recursive, keys |-> keys]

NothingSaved == [keys |-> {}, met |-> {}]

(* Any forest, built by directories created one below another.             *)
Init ==
    /\ dir \in [Dirs -> {None} \cup {NewRow(place, {}, FALSE) : place \in Place}]
    /\ \A d \in Live : dir[d].up \in Live \cup {None}
    /\ \A d \in Live : d \notin Above(d)
    /\ file \in [Files -> Live \cup {None}]
    /\ job = [p \in Requests |-> Idle]
    /\ asked = 0
    /\ saved = [d \in Dirs |-> NothingSaved]
    /\ crossed = {}

Ask == asked < MaxAsked /\ asked' = asked + 1

Begin(p, what) ==
    /\ job[p] = Idle
    /\ Ask
    /\ job' = [job EXCEPT ![p] = what]
    /\ UNCHANGED <<dir, file, saved, crossed>>

(* create_dir. The new row's foreign key needs the parent until the end.   *)
Create(d, place, keys, recursive) ==
    /\ dir[d] = None
    /\ place \in Live \cup {None}
    /\ Ask
    /\ dir' = [dir EXCEPT ![d] = NewRow(place, keys, recursive)]
    /\ saved' = [saved EXCEPT ![d] = [keys |-> keys, met |-> {}]]
    /\ UNCHANGED <<file, job, crossed>>

(* receive_items for files.                                                *)
MoveFile(f, place) ==
    /\ place \in Live \cup {None}
    /\ file[f] # place
    /\ Ask
    /\ file' = [file EXCEPT ![f] = place]
    /\ UNCHANGED <<dir, job, saved, crossed>>

(* restore_dir                                                             *)
Restore(d) ==
    /\ d \in Live
    /\ dir[d].trashed
    /\ Ask
    /\ dir' = [dir EXCEPT ![d].trashed = FALSE]
    /\ UNCHANGED <<file, job, saved, crossed>>

(* Slip: only the target itself is compared.                               *)
MayReceiveAny(place, dirs) == place \notin dirs

(* _receive_dirs with _is_descendant                                       *)
MayReceive(place, dirs) ==
    place # None => \A d \in dirs : d # place /\ d \notin Above(place)

(* receive_items for directories. One that is in its place already is      *)
(* unchanged for the session and not written.                              *)
StartMove(p, dirs, place) ==
    /\ dirs \subseteq Live
    /\ place \in Live \cup {None}
    /\ MayReceive(place, dirs)
    /\ LET away == {d \in dirs : dir[d].up # place}
       IN /\ away # {}
          /\ Begin(p, [op |-> "move", dirs |-> away, target |-> place, met |-> {}])

CommitMove(p) ==
    /\ job[p].op = "move"
    /\ job[p].dirs \subseteq Live
    /\ job[p].target \in Live \cup {None}
    /\ dir' = [d \in Dirs |->
                 IF d \in job[p].dirs THEN [dir[d] EXCEPT !.up = job[p].target] ELSE dir[d]]
    /\ job' = [q \in Requests |->
                 IF q = p THEN Idle
                 ELSE IF job[q].op = "move"
                      THEN [job[q] EXCEPT !.met = @ \cup job[p].dirs]
                      ELSE job[q]]
    /\ crossed' = crossed \cup {{d, e} : d \in job[p].dirs, e \in job[p].met}
    /\ UNCHANGED <<file, asked, saved>>

(* update_dir. _sync_permissions deletes the rows its statement sees at    *)
(* once; recursive_permissions is written if it differs from what was read.*)
StartUpdate(p, d, keys, recursive) ==
    /\ d \in Live
    /\ Begin(p, [op |-> "update", dir |-> d, keys |-> keys, recursive |-> recursive,
                 flips |-> recursive # dir[d].recursive, gone |-> dir[d].keys, met |-> {}])

(* Slip: rows are only added.                                              *)
SurvivorsAll(p) == dir[job[p].dir].keys

(* Permission rows another request inserted after the deletion of p.       *)
Survivors(p) == dir[job[p].dir].keys \ job[p].gone

(* The rows are inserted; a pair that another request has inserted         *)
(* meanwhile violates the unique constraint and the request fails.         *)
CommitUpdate(p) ==
    /\ job[p].op = "update"
    /\ LET d == job[p].dir IN
       /\ d \in Live
       /\ job[p].keys \cap Survivors(p) = {}
       /\ dir' = [dir EXCEPT ![d].keys = Survivors(p) \cup job[p].keys,
                             ![d].recursive = IF job[p].flips THEN job[p].recursive ELSE @]
       /\ saved' = [saved EXCEPT ![d] = [keys |-> job[p].keys, met |-> job[p].met]]
       /\ job' = [q \in Requests |->
                    IF q = p THEN Idle
                    ELSE IF job[q].op = "update" /\ job[q].dir = d
                         THEN [job[q] EXCEPT !.gone = @ \ job[p].gone,
                                             !.met = @ \cup job[p].keys]
                         ELSE job[q]]
    /\ UNCHANGED <<file, asked, crossed>>

(* delete_dir: into the trash if anything lies in it, away if not.         *)
StartDelete(p, d) ==
    /\ d \in Live
    /\ Begin(p, [op |-> "delete", dir |-> d, hard |-> ~HasContent(d)])

(* purge_dir                                                               *)
StartPurge(p, d) ==
    /\ d \in Live
    /\ dir[d].trashed
    /\ ~HasContent(d)
    /\ Begin(p, [op |-> "delete", dir |-> d, hard |-> TRUE])

(* Slip: the row goes whatever refers to it, as without ON DELETE RESTRICT.*)
RowMayGoAlways(d) == d \in Live

(* ON DELETE RESTRICT on both foreign keys                                 *)
RowMayGo(d) == d \in Live /\ ~HasContent(d)

CommitDelete(p) ==
    /\ job[p].op = "delete"
    /\ LET d == job[p].dir IN
       IF job[p].hard
       THEN RowMayGo(d) /\ dir' = [dir EXCEPT ![d] = Gone]
       ELSE d \in Live /\ dir' = [dir EXCEPT ![d].trashed = TRUE]
    /\ job' = [job EXCEPT ![p] = Idle]
    /\ UNCHANGED <<file, asked, saved, crossed>>

(* The database refuses (a row that is gone, a foreign key, the unique     *)
(* constraint), or the request is lost before its commit.                  *)
GiveUp(p) ==
    /\ job[p] # Idle
    /\ job' = [job EXCEPT ![p] = Idle]
    /\ UNCHANGED <<dir, file, asked, saved, crossed>>

Next ==
    \/ \E d \in Dirs, place \in Place, keys \in Grants, recursive \in BOOLEAN :
          Create(d, place, keys, recursive)
    \/ \E f \in Files, place \in Place : MoveFile(f, place)
    \/ \E d \in Dirs : Restore(d)
    \/ \E p \in Requests :
          \/ \E dirs \in SUBSET Dirs, place \in Place : StartMove(p, dirs, place)
          \/ \E d \in Dirs, keys \in Grants, recursive \in BOOLEAN :
                StartUpdate(p, d, keys, recursive)
          \/ \E d \in Dirs : StartDelete(p, d) \/ StartPurge(p, d)
          \/ CommitMove(p) \/ CommitUpdate(p) \/ CommitDelete(p)
          \/ GiveUp(p)

Spec == Init /\ [][Next]_vars

-----------------------------------------------------------------------------
(* Properties                                                              *)

(* A directory lies below itself only after moves that overlapped, of two  *)
(* directories of that cycle. Each move is checked against what is         *)
(* committed, and neither a lock nor a trigger sees both; in a cycle       *)
(* build_path and _inherited_permissions never return.                     *)
CyclesOnlyByOverlap ==
    \A d \in Live : d \in Above(d) =>
        \E e \in Above(d), m \in Above(d) :
            e \in Above(e) /\ m \in Above(m) /\ {e, m} \in crossed

(* A directory is open to the keys of its last save and, beyond these, at  *)
(* most to keys of saves that overlapped it: deleting and inserting rows   *)
(* in READ COMMITTED may unite two saves (neither administrator asked for  *)
(* that), but never brings back or loses a permission of an earlier one.   *)
KeysOfLastSaves ==
    \A d \in Live :
        /\ saved[d].keys \subseteq dir[d].keys
        /\ dir[d].keys \subseteq saved[d].keys \cup saved[d].met

(* Whatever is removed while others move things into it: every directory   *)
(* and file lies in the root or in a directory that exists. _dir_has_      *)
(* content is read before; only the foreign keys hold until the commit.    *)
EverythingHasAPlace ==
    /\ \A d \in Live : dir[d].up \in Live \cup {None}
    /\ \A f \in Files : file[f] \in Live \cup {None}

(* The ways to a directory or a file agree for everyone who is not an      *)
(* administrator: what a listing reached from the root or any open         *)
(* directory shows can be opened, and the search finds exactly that.       *)
(* Listings test one row's deleted_at, opening tests the trashed subtree.  *)
ReadPathsAgree ==
    \A k \in Keys :
        LET open  == {d \in Live : Ends(d) /\ Opens(k, d)}
            sound == {d \in Live : Ends(d)}
            read  == {f \in Files : file[f] # None => file[f] \in sound}
        IN /\ \A place \in open \cup {None} :
                Listed(k, place) \cap sound \subseteq open
           /\ FoundDirs(k) \cap sound = open
           /\ \A d \in open : ListedFiles(k, d) \subseteq {f \in read : Reads(k, f)}
           /\ FoundFiles(k) \cap read = {f \in read : Reads(k, f)}

(* Insight reaches down through directories without recursive permissions: *)
(* what _inherited_permissions computes step by step are the keys of all   *)
(* recursive directories above, however deep.                              *)
InheritsAcrossGaps ==
    \A d \in Live : Ends(d) =>
        Effective(d) = dir[d].keys
                       \cup UNION {dir[e].keys : e \in {e \in Above(d) : dir[e].recursive}}
=============================================================================
