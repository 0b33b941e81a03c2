---------------------------- MODULE ArchiveStore ----------------------------
(***************************************************************************)
(* The archive's content-addressed store: PostgreSQL rows (archive_files   *)
(* referencing archive_store_items, one per SHA-256) beside S3 objects     *)
(* (the content and its cached thumbnails), as changed by                  *)
(*   - app/services/archive_service.py (upload, soft delete, restore,      *)
(*     move, delete_unfiled_upload, thumbnails),                           *)
(*   - app/services/archive_store_cleanup.py (hard_delete_file),           *)
(*   - app/services/archive_maintenance_service.py and its CLI (purge,     *)
(*     batch purge of duplicates, restore).                                *)
(*                                                                         *)
(* Every request and every CLI command is a process; one action is one     *)
(* database transaction or one S3 call, and the handlers interleave        *)
(* between them. PostgreSQL runs READ COMMITTED: a step reads what is      *)
(* committed, an UPDATE or DELETE waits for a row locked by SELECT FOR     *)
(* UPDATE. An ORM UPDATE of a row that is gone fails and changes nothing;  *)
(* an ORM DELETE of such a row only warns and the handler carries on.      *)
(***************************************************************************)
EXTENDS Naturals, FiniteSets

CONSTANTS
    Files,           \* archive_files row ids, never reused (uuidv7)
    Items,           \* archive_store_items row ids, never reused
    Hashes,          \* SHA-256 values, i.e. contents
    Procs,           \* request threads and CLI commands
    None,
    ImportFileItem,  \* the initial data import: file -> item, several to one
    ImportItemHash,  \* the initial data import: item -> content
    MaxFaults        \* bound on crashes and failed S3 calls

ASSUME FaultsAssumption == MaxFaults \in Nat
ASSUME NoneAssumption == None \notin Files \cup Items \cup Hashes
ASSUME ImportAssumption ==
    /\ DOMAIN ImportFileItem \subseteq Files
    /\ DOMAIN ImportItemHash \subseteq Items
    /\ \A f \in DOMAIN ImportFileItem : ImportFileItem[f] \in DOMAIN ImportItemHash
    /\ \A i \in DOMAIN ImportItemHash :
         /\ ImportItemHash[i] \in Hashes
         /\ \E f \in DOMAIN ImportFileItem : ImportFileItem[f] = i
         /\ \A j \in DOMAIN ImportItemHash :
              ImportItemHash[i] = ImportItemHash[j] => i = j

VARIABLES
    fstate,   \* archive_files: "unborn", "active", "trashed" (deleted_at), "gone"
    fitem,    \* archive_files.archive_store_item_id
    filed,    \* files with a directory (archive_dir_id is not NULL)
    istate,   \* archive_store_items: "unborn", "live", "gone"
    ihash,    \* archive_store_items.sha256_hash
    objects,  \* contents stored under S3_PATH_ARCHIVE_STORE
    thumbs,   \* contents with thumbnails under S3_PATH_ARCHIVE_CACHE
    pc,       \* where each process stands in its handler
    pfile,    \* the file a process works on
    pitem,    \* the store item a process took from that file's row
    phash,    \* the content a process works on
    batch,    \* processes running purge-duplicates (expect_no_s3_impact)
    faults,   \* crashes and S3 errors so far
    raced     \* history: contents whose S3 purge overlapped a user of them

rows  == <<fstate, fitem, filed, istate, ihash>>
s3    == <<objects, thumbs>>
local == <<pc, pfile, pitem, phash, batch>>
vars  == <<rows, s3, local, faults, raced>>

Phases == {"idle", "put", "insert", "locked", "listed", "recheck", "purge",
           "orphans", "ditem", "object", "cache", "thumb", "tput", "crestore"}

TypeOK ==
    /\ fstate \in [Files -> {"unborn", "active", "trashed", "gone"}]
    /\ fitem \in [Files -> Items \cup {None}]
    /\ filed \subseteq Files
    /\ istate \in [Items -> {"unborn", "live", "gone"}]
    /\ ihash \in [Items -> Hashes \cup {None}]
    /\ objects \subseteq Hashes
    /\ thumbs \subseteq Hashes
    /\ pc \in [Procs -> Phases]
    /\ pfile \in [Procs -> Files \cup {None}]
    /\ pitem \in [Procs -> Items \cup {None}]
    /\ phash \in [Procs -> Hashes \cup {None}]
    /\ batch \subseteq Procs
    /\ faults \in Nat
    /\ raced \subseteq Hashes

-----------------------------------------------------------------------------

(* The row of file f exists.                                               *)
Exists(f) == fstate[f] \in {"active", "trashed"}

(* Some file row still references item i.                                  *)
Referenced(i) == \E f \in Files : Exists(f) /\ fitem[f] = i

(* A store item row for content h exists.                                  *)
Stored(h) == \E i \in Items : istate[i] = "live" /\ ihash[i] = h

(* Slip: delete_unfiled_upload reads its row without FOR UPDATE.           *)
LockedNever(f) == FALSE

(* delete_unfiled_upload holds the row lock of f.                          *)
Locked(f) == \E p \in Procs : pc[p] = "locked" /\ pfile[p] = f

(* Some process uploads content h, or makes a thumbnail of it.             *)
Using(h) == \E p \in Procs :
    pc[p] \in {"put", "insert", "thumb", "tput"} /\ phash[p] = h

(* Some hard delete is about to remove the S3 objects of content h.        *)
Purging(h) == \E p \in Procs : pc[p] \in {"object", "cache"} /\ phash[p] = h

(* A purge of h overlaps an upload or thumbnail of h, or a row with h.     *)
Overlap(h) == Purging(h) /\ (Using(h) \/ Stored(h))

Init ==
    /\ fstate = [f \in Files |->
                   IF f \in DOMAIN ImportFileItem THEN "active" ELSE "unborn"]
    /\ fitem = [f \in Files |->
                  IF f \in DOMAIN ImportFileItem THEN ImportFileItem[f] ELSE None]
    /\ filed = DOMAIN ImportFileItem
    /\ istate = [i \in Items |->
                   IF i \in DOMAIN ImportItemHash THEN "live" ELSE "unborn"]
    /\ ihash = [i \in Items |->
                  IF i \in DOMAIN ImportItemHash THEN ImportItemHash[i] ELSE None]
    /\ objects = {ImportItemHash[i] : i \in DOMAIN ImportItemHash}
    /\ thumbs = {}
    /\ pc = [p \in Procs |-> "idle"]
    /\ pfile = [p \in Procs |-> None]
    /\ pitem = [p \in Procs |-> None]
    /\ phash = [p \in Procs |-> None]
    /\ batch = {}
    /\ faults = 0
    /\ raced = {}

(* p moves to a phase, keeping what it read so far.                        *)
Goto(p, phase) ==
    /\ pc' = [pc EXCEPT ![p] = phase]
    /\ UNCHANGED <<pfile, pitem, phash, batch>>

(* p's handler returns or raises: what it read is forgotten.               *)
Finish(p) ==
    /\ pc' = [pc EXCEPT ![p] = "idle"]
    /\ pfile' = [pfile EXCEPT ![p] = None]
    /\ pitem' = [pitem EXCEPT ![p] = None]
    /\ phash' = [phash EXCEPT ![p] = None]
    /\ batch' = batch \ {p}

(* p starts a handler on file f, in the given phase.                       *)
StartOn(p, phase, f) ==
    /\ pc[p] = "idle"
    /\ pc' = [pc EXCEPT ![p] = phase]
    /\ pfile' = [pfile EXCEPT ![p] = f]
    /\ pitem' = [pitem EXCEPT ![p] = fitem[f]]
    /\ UNCHANGED phash

-----------------------------------------------------------------------------
(* upload_file                                                             *)

(* The duplicate check: content with a store item is answered 422.         *)
UploadCheck(p, h) ==
    /\ pc[p] = "idle"
    /\ ~Stored(h)
    /\ pc' = [pc EXCEPT ![p] = "put"]
    /\ phash' = [phash EXCEPT ![p] = h]
    /\ UNCHANGED <<rows, s3, pfile, pitem, batch, faults>>

UploadPut(p) ==
    /\ pc[p] = "put"
    /\ objects' = objects \cup {phash[p]}
    /\ Goto(p, "insert")
    /\ UNCHANGED <<rows, thumbs, faults>>

(* Slip: the S3 error is swallowed and the rows are inserted all the same. *)
UploadPutSwallowsError(p) ==
    /\ pc[p] = "put"
    /\ faults < MaxFaults
    /\ faults' = faults + 1
    /\ Goto(p, "insert")
    /\ UNCHANGED <<rows, s3>>

(* The S3 call fails for the client; the object may be stored all the same.*)
UploadPutFails(p) ==
    /\ pc[p] = "put"
    /\ faults < MaxFaults
    /\ faults' = faults + 1
    /\ objects' \in {objects, objects \cup {phash[p]}}
    /\ Finish(p)
    /\ UNCHANGED <<rows, thumbs>>

(* Item and file row are inserted and committed together, unfiled.         *)
UploadInsert(p, f, i) ==
    /\ pc[p] = "insert"
    /\ ~Stored(phash[p])
    /\ fstate[f] = "unborn"
    /\ istate[i] = "unborn"
    /\ fstate' = [fstate EXCEPT ![f] = "active"]
    /\ fitem' = [fitem EXCEPT ![f] = i]
    /\ istate' = [istate EXCEPT ![i] = "live"]
    /\ ihash' = [ihash EXCEPT ![i] = phash[p]]
    /\ Finish(p)
    /\ UNCHANGED <<filed, s3, faults>>

(* sha256_hash is UNIQUE: the loser of two uploads gets an IntegrityError. *)
UploadConflict(p) ==
    /\ pc[p] = "insert"
    /\ Stored(phash[p])
    /\ Finish(p)
    /\ UNCHANGED <<rows, s3, faults>>

-----------------------------------------------------------------------------
(* Row updates by an archive administrator                                 *)

(* delete_file: into the trash.                                            *)
SoftDelete(f) ==
    /\ Exists(f) /\ ~Locked(f)
    /\ fstate' = [fstate EXCEPT ![f] = "trashed"]
    /\ UNCHANGED <<fitem, filed, istate, ihash, s3, local, faults>>

(* restore_file of the web interface: from any state.                      *)
Restore(f) ==
    /\ Exists(f) /\ ~Locked(f)
    /\ fstate' = [fstate EXCEPT ![f] = "active"]
    /\ UNCHANGED <<fitem, filed, istate, ihash, s3, local, faults>>

(* receive_items for files: into a directory, or back to the root.         *)
Receive(f) ==
    /\ Exists(f) /\ ~Locked(f)
    /\ filed' \in {filed \cup {f}, filed \ {f}}
    /\ UNCHANGED <<fstate, fitem, istate, ihash, s3, local, faults>>

-----------------------------------------------------------------------------
(* Who calls hard_delete_file                                              *)

(* delete_unfiled_upload: SELECT ... FOR UPDATE, then refuse a filed file. *)
(* (That the caller uploaded the content concerns only who may call.)      *)
DeleteUnfiledLock(p, f) ==
    /\ Exists(f) /\ ~Locked(f)
    /\ f \notin filed
    /\ StartOn(p, "locked", f)
    /\ UNCHANGED <<rows, s3, batch, faults>>

(* purge <id> of the CLI: the file must be in the trash.                   *)
PurgeCheck(p, f) ==
    /\ fstate[f] = "trashed"
    /\ StartOn(p, "purge", f)
    /\ UNCHANGED <<rows, s3, batch, faults>>

(* An active file holds item i.                                            *)
HasActive(i) == \E g \in Files : fstate[g] = "active" /\ fitem[g] = i

(* purge-duplicates: f is listed with impact DUPLICATE, then the operator  *)
(* is asked.                                                               *)
BatchList(p, f) ==
    /\ fstate[f] = "trashed"
    /\ HasActive(fitem[f])
    /\ StartOn(p, "listed", f)
    /\ batch' = batch \cup {p}
    /\ UNCHANGED <<rows, s3, faults>>

(* is_still_duplicate, directly before the purge; otherwise f is skipped.  *)
BatchRecheck(p) ==
    /\ pc[p] = "listed"
    /\ IF HasActive(pitem[p]) THEN Goto(p, "recheck") ELSE Finish(p)
    /\ UNCHANGED <<rows, s3, faults>>

(* purge_file reads the row again and refuses one that left the trash.     *)
BatchPurgeCheck(p) ==
    /\ pc[p] = "recheck"
    /\ IF fstate[pfile[p]] = "trashed" THEN Goto(p, "purge") ELSE Finish(p)
    /\ UNCHANGED <<rows, s3, faults>>

-----------------------------------------------------------------------------
(* hard_delete_file                                                        *)

(* Slip: an unfiled upload loses its row only, not its stored content.     *)
FileDeleteRowOnly(p) ==
    /\ \/ pc[p] = "locked"
       \/ pc[p] = "purge" /\ ~Locked(pfile[p])
    /\ fstate' = [fstate EXCEPT ![pfile[p]] = "gone"]
    /\ IF pc[p] = "locked" THEN Finish(p) ELSE Goto(p, "orphans")
    /\ UNCHANGED <<fitem, filed, istate, ihash, s3, faults>>

(* First transaction: the file row goes (with its comments). purge_file    *)
(* holds no lock since its check: the row may be active again, or gone.    *)
FileDelete(p) ==
    /\ \/ pc[p] = "locked"
       \/ pc[p] = "purge" /\ ~Locked(pfile[p])
    /\ fstate' = [fstate EXCEPT ![pfile[p]] = "gone"]
    /\ Goto(p, "orphans")
    /\ UNCHANGED <<fitem, filed, istate, ihash, s3, faults>>

(* Slip: one file per item is assumed and references are not counted.      *)
OrphanCheckUncounted(p) ==
    /\ pc[p] = "orphans"
    /\ IF istate[pitem[p]] = "live"
       THEN /\ pc' = [pc EXCEPT ![p] = "ditem"]
            /\ phash' = [phash EXCEPT ![p] = ihash[pitem[p]]]
            /\ UNCHANGED <<pfile, pitem, batch>>
       ELSE Finish(p)
    /\ UNCHANGED <<rows, s3, faults>>

(* _delete_orphaned_store_items: an item still referenced is kept.         *)
OrphanCheck(p) ==
    /\ pc[p] = "orphans"
    /\ IF ~Referenced(pitem[p]) /\ istate[pitem[p]] = "live"
       THEN /\ pc' = [pc EXCEPT ![p] = "ditem"]
            /\ phash' = [phash EXCEPT ![p] = ihash[pitem[p]]]
            /\ UNCHANGED <<pfile, pitem, batch>>
       ELSE Finish(p)
    /\ UNCHANGED <<rows, s3, faults>>

(* Second transaction: the item row goes, unless another hard delete of    *)
(* the same item was faster, which only warns.                             *)
ItemDelete(p) ==
    /\ pc[p] = "ditem"
    /\ istate' = [istate EXCEPT ![pitem[p]] = "gone"]
    /\ Goto(p, "object")
    /\ UNCHANGED <<fstate, fitem, filed, ihash, s3, faults>>

(* Slip: the content's key is listed under the cache prefix and missed.    *)
ObjectDeleteMissed(p) ==
    /\ pc[p] = "object"
    /\ Goto(p, "cache")
    /\ UNCHANGED <<rows, s3, faults>>

(* _purge_s3_object: the content, then the cached thumbnails.              *)
ObjectDelete(p) ==
    /\ pc[p] = "object"
    /\ objects' = objects \ {phash[p]}
    /\ Goto(p, "cache")
    /\ UNCHANGED <<rows, thumbs, faults>>

(* A ClientError is noted and the thumbnails are tried nevertheless.       *)
ObjectDeleteFails(p) ==
    /\ pc[p] = "object"
    /\ faults < MaxFaults
    /\ faults' = faults + 1
    /\ Goto(p, "cache")
    /\ UNCHANGED <<rows, s3>>

CacheDelete(p) ==
    /\ pc[p] = "cache"
    /\ thumbs' = thumbs \ {phash[p]}
    /\ Finish(p)
    /\ UNCHANGED <<rows, objects, faults>>

-----------------------------------------------------------------------------
(* restore of the CLI                                                      *)

(* Only a trashed file with impact SOLE: nothing else references its item. *)
CliRestoreCheck(p, f) ==
    /\ fstate[f] = "trashed"
    /\ \A g \in Files \ {f} : ~(Exists(g) /\ fitem[g] = fitem[f])
    /\ StartOn(p, "crestore", f)
    /\ UNCHANGED <<rows, s3, batch, faults>>

CliRestore(p) ==
    /\ pc[p] = "crestore"
    /\ ~Locked(pfile[p])
    /\ fstate' = IF Exists(pfile[p]) THEN [fstate EXCEPT ![pfile[p]] = "active"]
                                     ELSE fstate
    /\ Finish(p)
    /\ UNCHANGED <<fitem, filed, istate, ihash, s3, faults>>

-----------------------------------------------------------------------------
(* get_presigned_url with a size: _get_or_create_thumbnail                 *)

(* The row is read and the connection released; then the cache is asked.   *)
ThumbStart(p, f) ==
    /\ pc[p] = "idle"
    /\ Exists(f)
    /\ ihash[fitem[f]] \notin thumbs
    /\ pc' = [pc EXCEPT ![p] = "thumb"]
    /\ phash' = [phash EXCEPT ![p] = ihash[fitem[f]]]
    /\ UNCHANGED <<rows, s3, pfile, pitem, batch, faults>>

(* The content is fetched, if it is there.                                 *)
ThumbRead(p) ==
    /\ pc[p] = "thumb"
    /\ IF phash[p] \in objects THEN Goto(p, "tput") ELSE Finish(p)
    /\ UNCHANGED <<rows, s3, faults>>

ThumbPut(p) ==
    /\ pc[p] = "tput"
    /\ thumbs' = thumbs \cup {phash[p]}
    /\ Finish(p)
    /\ UNCHANGED <<rows, objects, faults>>

-----------------------------------------------------------------------------

(* The process dies, or an exception nobody handles ends the handler (a    *)
(* lost database connection, a botocore timeout): what is committed stays. *)
Crash(p) ==
    /\ pc[p] # "idle"
    /\ faults < MaxFaults
    /\ faults' = faults + 1
    /\ Finish(p)
    /\ UNCHANGED <<rows, s3>>

(* What a process does once its handler runs; no error among it.           *)
Proceed(p) ==
    \/ UploadPut(p)
    \/ \E f \in Files, i \in Items : UploadInsert(p, f, i)
    \/ UploadConflict(p)
    \/ BatchRecheck(p)
    \/ BatchPurgeCheck(p)
    \/ FileDelete(p)
    \/ OrphanCheck(p)
    \/ ItemDelete(p)
    \/ ObjectDelete(p)
    \/ CacheDelete(p)
    \/ CliRestore(p)
    \/ ThumbRead(p)
    \/ ThumbPut(p)

Begin(p) ==
    \/ \E h \in Hashes : UploadCheck(p, h)
    \/ \E f \in Files :
         \/ DeleteUnfiledLock(p, f)
         \/ PurgeCheck(p, f)
         \/ BatchList(p, f)
         \/ CliRestoreCheck(p, f)
         \/ ThumbStart(p, f)

Fail(p) == UploadPutFails(p) \/ ObjectDeleteFails(p) \/ Crash(p)

Administer(f) == SoftDelete(f) \/ Restore(f) \/ Receive(f)

Record == raced' = raced \cup {h \in Hashes : Overlap(h)'}

Next ==
    /\ \/ \E p \in Procs : Begin(p) \/ Proceed(p) \/ Fail(p)
       \/ \E f \in Files : Administer(f)
    /\ Record

Spec == Init /\ [][Next]_vars

(* A handler that has started runs on: the thread is never descheduled for *)
(* good and PostgreSQL and S3 answer or fail within their timeouts.        *)
FairSpec == Spec /\ \A p \in Procs : WF_vars(Proceed(p) /\ Record)

-----------------------------------------------------------------------------
(* Properties                                                              *)

(* No hard delete ever trips the RESTRICT foreign key of archive_files:    *)
(* every file row that exists references a store item row that exists.     *)
(* hard_delete_file relies on it: it expects no IntegrityError between its *)
(* reference count and its second commit.                                  *)
FileHasItem ==
    \A f \in Files : Exists(f) => fitem[f] \in Items /\ istate[fitem[f]] = "live"

(* Content that a row promises is in S3, unless a purge of the same        *)
(* content was still at its S3 calls when an upload of it came in: no      *)
(* other interleaving of uploads, purges, restores, crashes and S3 errors  *)
(* loses content.                                                          *)
MissingOnlyWhereRaced ==
    \A i \in Items : istate[i] = "live" /\ ihash[i] \notin objects => ihash[i] \in raced

(* hard_delete_file: "if the S3 step later fails, the worst case is an     *)
(* orphaned S3 object". Stated of every state: a committed row always has  *)
(* its object. The code does not keep it.                                  *)
ItemHasObject ==
    \A i \in Items : istate[i] = "live" => ihash[i] \in objects

(* As long as nothing fails, a store item whose last file is deleted has a *)
(* hard delete at work that will remove it: two deletes of its last two    *)
(* files never both leave it to the other.                                 *)
NoStrandedItem ==
    faults = 0 =>
      \A i \in Items : istate[i] = "live" /\ ~Referenced(i) =>
        \E p \in Procs : pc[p] \in {"orphans", "ditem"} /\ pitem[p] = i

(* As long as nothing fails, every S3 object has its row, or an upload or  *)
(* a hard delete still at work on it: orphans (as check_s3_integrity       *)
(* reports them) come from failures only.                                  *)
OrphanObjectOnlyByFailure ==
    faults = 0 =>
      \A h \in objects : Stored(h) \/ Using(h) \/ Purging(h)

(* As long as nothing fails, thumbnails of content without a row are about *)
(* to be purged, or were made while the purge ran.                         *)
OrphanThumbOnlyWhereRaced ==
    faults = 0 =>
      \A h \in thumbs : Stored(h) \/ Purging(h) \/ h \in raced

(* delete_unfiled_upload: "a concurrent filing by an admin cannot slip in  *)
(* between the check and the deletion".                                    *)
LockedStaysUnfiled ==
    \A p \in Procs : pc[p] = "locked" => Exists(pfile[p]) /\ pfile[p] \notin filed

(* restore_file of the CLI checks SOLE and commits later without a lock:   *)
(* still no other file shares the content of the one it brings back.       *)
CliRestoreStaysSole ==
    \A p \in Procs : pc[p] = "crestore" =>
      \A g \in Files \ {pfile[p]} : ~(Exists(g) /\ fitem[g] = pitem[p])

(* What S3 holds without a row is accounted for: by a failure, by a        *)
(* handler at work, or for thumbnails by a purge that overlapped.          *)
OrphansAccounted == OrphanObjectOnlyByFailure /\ OrphanThumbOnlyWhereRaced

(* What a deletion or a restore has checked is still so when it writes:    *)
(* with the row lock of the web interface, and without one in the CLI.     *)
ChecksHoldUntilWrite == LockedStaysUnfiled /\ CliRestoreStaysSole

(* The purge targets of the CLI "must currently be soft-deleted": what it  *)
(* deletes is in the trash. The code does not keep it.                     *)
PurgeTakesOnlyTrash ==
    [][\A p \in Procs : pc[p] = "purge" /\ pc'[p] = "orphans" =>
         fstate[pfile[p]] # "active"]_vars

(* purge-duplicates is "S3-SAFE BY CONSTRUCTION": it never comes to delete *)
(* an S3 object. The code does not keep it.                                *)
BatchSparesObjects == \A p \in batch : pc[p] # "object"

(* The rows of files and store items agree, whatever two deletions of the  *)
(* last files of an item do to each other: no file loses its item, and     *)
(* without a failure no item outlives its files unattended.                *)
RowsAgree == FileHasItem /\ NoStrandedItem

(* What ContentStore sees of a file, and which contents are being          *)
(* discarded: from the reference count to the end of the S3 calls.         *)
Holding ==
    [f \in Files |-> [st |-> fstate[f],
                      content |-> IF Exists(f) THEN ihash[fitem[f]] ELSE None]]
Discarded ==
    {h \in Hashes : \E p \in Procs :
       pc[p] \in {"ditem", "object", "cache"} /\ phash[p] = h}

Promise == INSTANCE ContentStore WITH
    file <- Holding, available <- objects, discarding <- Discarded, disturbed <- raced

(* The checks, transactions and S3 calls of uploads, purges and restores   *)
(* amount to the atomic operations of ContentStore: a file holds one       *)
(* content until it is deleted, a content is given up only when no file    *)
(* holds it, and a file can lose it only to a purge begun before.          *)
KeepsContent == Promise!Spec

(* When nothing fails, a store item without files is eventually removed.   *)
StrandedItemRemoved ==
    \A i \in Items :
      (istate[i] = "live" /\ ~Referenced(i)) ~> istate[i] = "gone"
=============================================================================
