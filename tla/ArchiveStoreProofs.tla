------------------------- MODULE ArchiveStoreProofs -------------------------
(***************************************************************************)
(* Proofs about ArchiveStore for every number of files, items, contents,   *)
(* requests and failures: all invariants its runs check on small instances.*)
(*                                                                         *)
(* RowInv relates the phases of the handlers to the rows they work on; it  *)
(* is inductive by itself. The other invariants are inductive relative to  *)
(* it and are proved one after the other, each lemma naming the actions    *)
(* that could disturb it.                                                  *)
(* The last part is the refinement: every step is one of ContentStore.     *)
(***************************************************************************)
EXTENDS ArchiveStore, TLAPS

(* What the handlers rely on in each phase: a handler on a file knows the  *)
(* file and its item, both inserted; one on content knows the content.     *)
OnFile   == {"locked", "listed", "recheck", "purge", "crestore"}
OnItem   == {"orphans", "ditem"}
OnHash   == {"put", "insert", "ditem", "object", "cache", "thumb", "tput"}

PhaseOK ==
    \A p \in Procs :
      /\ pc[p] \in OnFile => /\ pfile[p] \in Files
                             /\ fstate[pfile[p]] # "unborn"
                             /\ pitem[p] = fitem[pfile[p]]
      /\ pc[p] \in OnFile \cup OnItem => pitem[p] \in Items /\ istate[pitem[p]] # "unborn"
      /\ pc[p] \in OnHash => phash[p] \in Hashes
      /\ pc[p] = "ditem" => phash[p] = ihash[pitem[p]]

LiveHasHash == \A i \in Items : istate[i] = "live" => ihash[i] \in Hashes

(* The reference count stays zero until the item row is deleted.           *)
NoRefAtDelete == \A p \in Procs : pc[p] = "ditem" => ~Referenced(pitem[p])

RowInv ==
    /\ TypeOK
    /\ FileHasItem
    /\ LiveHasHash
    /\ PhaseOK
    /\ NoRefAtDelete

(* A row lock has one holder.                                              *)
LockUnique ==
    \A p, q \in Procs :
      pc[p] = "locked" /\ pc[q] = "locked" /\ pfile[p] = pfile[q] => p = q

LockInv == LockUnique /\ LockedStaysUnfiled

(* Overlaps are recorded; an upload about to insert has stored its object. *)
OverlapRecorded == \A h \in Hashes : Overlap(h) => h \in raced

InsertHasObject ==
    \A p \in Procs : pc[p] = "insert" => phash[p] \in objects \/ phash[p] \in raced

StoreInv == OverlapRecorded /\ InsertHasObject /\ MissingOnlyWhereRaced

(* An object whose row is gone has its S3 delete still to come.            *)
ObjectAccounted ==
    faults = 0 =>
      \A h \in objects :
        \/ Stored(h)
        \/ \E p \in Procs : pc[p] \in {"put", "insert", "object"} /\ phash[p] = h

(* A thumbnail in the making is of stored content, or its purge overlaps.  *)
ThumbOfStored ==
    \A p \in Procs : pc[p] \in {"thumb", "tput"} => Stored(phash[p]) \/ phash[p] \in raced

OrphanInv == ObjectAccounted /\ ThumbOfStored /\ OrphanThumbOnlyWhereRaced

-----------------------------------------------------------------------------
(* One step: a lemma for each part of the invariant.                       *)

(* Rows and phases: every handler step leaves the others' phases justified.*)
LEMMA RowStep == RowInv /\ Next => RowInv'
<1> SUFFICES ASSUME RowInv, Next PROVE RowInv'
    OBVIOUS
<1> USE FaultsAssumption DEF RowInv, TypeOK, FileHasItem, LiveHasHash, PhaseOK,
        NoRefAtDelete, Phases, OnFile, OnItem, OnHash, Exists, Referenced,
        Goto, Finish, StartOn, rows, s3, local
<1>0. raced' \subseteq Hashes BY DEF Next, Record
<1>1. ASSUME NEW p \in Procs, NEW f \in Files, NEW i \in Items, UploadInsert(p, f, i)
      PROVE  RowInv'
  <2>1. TypeOK' BY <1>0, <1>1 DEF UploadInsert
  <2>2. FileHasItem' BY <1>0, <1>1 DEF UploadInsert
  <2>3. LiveHasHash' BY <1>0, <1>1 DEF UploadInsert
  <2>4. PhaseOK' BY <1>0, <1>1 DEF UploadInsert
  <2>5. NoRefAtDelete' BY <1>0, <1>1 DEF UploadInsert
  <2> QED BY <2>1, <2>2, <2>3, <2>4, <2>5
<1>2. ASSUME NEW p \in Procs, FileDelete(p)
      PROVE  RowInv'
  <2>1. TypeOK' BY <1>0, <1>2 DEF FileDelete
  <2>2. FileHasItem' BY <1>0, <1>2 DEF FileDelete
  <2>3. LiveHasHash' BY <1>0, <1>2 DEF FileDelete
  <2>4. PhaseOK' BY <1>0, <1>2 DEF FileDelete
  <2>5. NoRefAtDelete' BY <1>0, <1>2 DEF FileDelete
  <2> QED BY <2>1, <2>2, <2>3, <2>4, <2>5
<1>3. ASSUME NEW p \in Procs, OrphanCheck(p)
      PROVE  RowInv'
  <2>1. TypeOK' BY <1>0, <1>3 DEF OrphanCheck
  <2>2. FileHasItem' BY <1>0, <1>3 DEF OrphanCheck
  <2>3. LiveHasHash' BY <1>0, <1>3 DEF OrphanCheck
  <2>4. PhaseOK' BY <1>0, <1>3 DEF OrphanCheck
  <2>5. NoRefAtDelete' BY <1>0, <1>3 DEF OrphanCheck
  <2> QED BY <2>1, <2>2, <2>3, <2>4, <2>5
<1>4. ASSUME NEW p \in Procs, ItemDelete(p)
      PROVE  RowInv'
  <2>1. TypeOK' BY <1>0, <1>4 DEF ItemDelete
  <2>2. FileHasItem' BY <1>0, <1>4 DEF ItemDelete
  <2>3. LiveHasHash' BY <1>0, <1>4 DEF ItemDelete
  <2>4. PhaseOK' BY <1>0, <1>4 DEF ItemDelete
  <2>5. NoRefAtDelete' BY <1>0, <1>4 DEF ItemDelete
  <2> QED BY <2>1, <2>2, <2>3, <2>4, <2>5
<1>5. ASSUME NEW p \in Procs, CliRestore(p)
      PROVE  RowInv'
  <2>1. TypeOK' BY <1>0, <1>5 DEF CliRestore
  <2>2. FileHasItem' BY <1>0, <1>5 DEF CliRestore
  <2>3. LiveHasHash' BY <1>0, <1>5 DEF CliRestore
  <2>4. PhaseOK' BY <1>0, <1>5 DEF CliRestore
  <2>5. NoRefAtDelete' BY <1>0, <1>5 DEF CliRestore
  <2> QED BY <2>1, <2>2, <2>3, <2>4, <2>5
<1>6. ASSUME NEW p \in Procs,
             \/ UploadPut(p) \/ UploadPutFails(p) \/ UploadConflict(p)
             \/ BatchRecheck(p) \/ BatchPurgeCheck(p) \/ ObjectDelete(p)
             \/ ObjectDeleteFails(p) \/ CacheDelete(p) \/ ThumbRead(p)
             \/ ThumbPut(p) \/ Crash(p)
      PROVE  RowInv'
    BY <1>0, <1>6 DEF UploadPut, UploadPutFails, UploadConflict, BatchRecheck,
        BatchPurgeCheck, ObjectDelete, ObjectDeleteFails, CacheDelete,
        ThumbRead, ThumbPut, Crash
<1>7. ASSUME NEW p \in Procs, NEW f \in Files,
             \/ DeleteUnfiledLock(p, f) \/ PurgeCheck(p, f)
             \/ BatchList(p, f) \/ CliRestoreCheck(p, f)
             \/ ThumbStart(p, f)
      PROVE  RowInv'
    BY <1>0, <1>7 DEF DeleteUnfiledLock, PurgeCheck, BatchList,
        CliRestoreCheck, ThumbStart
<1>8. ASSUME NEW f \in Files,
             \/ SoftDelete(f) \/ Restore(f) \/ Receive(f)
      PROVE  RowInv'
    BY <1>0, <1>8 DEF SoftDelete, Restore, Receive
<1>9. ASSUME NEW p \in Procs, NEW h \in Hashes, UploadCheck(p, h)
      PROVE  RowInv'
    BY <1>0, <1>9 DEF UploadCheck
<1> QED BY <1>1, <1>2, <1>3, <1>4, <1>5, <1>6, <1>7, <1>8, <1>9 DEF Next,
    Begin, Proceed, Fail, Administer

(* Row locks: whoever would change a locked row waits.                     *)
LEMMA LockStep == RowInv /\ LockInv /\ Next => LockInv'
<1> SUFFICES ASSUME RowInv /\ LockInv, Next PROVE LockInv'
    OBVIOUS
<1> USE DEF RowInv, TypeOK, PhaseOK, OnFile, LockInv, LockUnique,
        LockedStaysUnfiled, Locked, Exists, Goto, Finish, StartOn, rows, s3,
        local
<1>1. ASSUME NEW p \in Procs, NEW f \in Files, DeleteUnfiledLock(p, f)
      PROVE  LockInv'
    BY <1>1 DEF DeleteUnfiledLock
<1>2. ASSUME NEW p \in Procs, FileDelete(p)
      PROVE  LockInv'
    BY <1>2 DEF FileDelete
<1>3. ASSUME NEW p \in Procs, CliRestore(p)
      PROVE  LockInv'
    BY <1>3 DEF CliRestore
<1>4. ASSUME NEW f \in Files, Receive(f)
      PROVE  LockInv'
    BY <1>4 DEF Receive
<1>5. ASSUME NEW f \in Files, SoftDelete(f)
      PROVE  LockInv'
    BY <1>5 DEF SoftDelete
<1>6. ASSUME NEW p \in Procs,
             \/ UploadPut(p) \/ UploadPutFails(p) \/ UploadConflict(p)
             \/ BatchRecheck(p) \/ BatchPurgeCheck(p) \/ OrphanCheck(p)
             \/ ItemDelete(p) \/ ObjectDelete(p) \/ ObjectDeleteFails(p)
             \/ CacheDelete(p) \/ ThumbRead(p) \/ ThumbPut(p) \/ Crash(p)
      PROVE  LockInv'
    BY <1>6 DEF UploadPut, UploadPutFails, UploadConflict, BatchRecheck,
        BatchPurgeCheck, OrphanCheck, ItemDelete, ObjectDelete,
        ObjectDeleteFails, CacheDelete, ThumbRead, ThumbPut, Crash
<1>7. ASSUME NEW p \in Procs, NEW f \in Files,
             \/ PurgeCheck(p, f) \/ BatchList(p, f)
             \/ CliRestoreCheck(p, f) \/ ThumbStart(p, f)
      PROVE  LockInv'
    BY <1>7 DEF PurgeCheck, BatchList, CliRestoreCheck, ThumbStart
<1>8. ASSUME NEW f \in Files, Restore(f)
      PROVE  LockInv'
    BY <1>8 DEF Restore
<1>9. ASSUME NEW p \in Procs, NEW h \in Hashes, UploadCheck(p, h)
      PROVE  LockInv'
    BY <1>9 DEF UploadCheck
<1>10. ASSUME NEW p \in Procs, NEW f \in Files, NEW i \in Items, UploadInsert(p, f, i)
      PROVE  LockInv'
    BY <1>10 DEF UploadInsert
<1> QED BY <1>1, <1>2, <1>3, <1>4, <1>5, <1>6, <1>7, <1>8, <1>9, <1>10 DEF
    Next, Begin, Proceed, Fail, Administer

(* The CLI's restore: new files get new items, so its file stays alone.    *)
LEMMA SoleStep == RowInv /\ CliRestoreStaysSole /\ Next => CliRestoreStaysSole'
<1> SUFFICES ASSUME RowInv /\ CliRestoreStaysSole, Next PROVE CliRestoreStaysSole'
    OBVIOUS
<1> USE DEF RowInv, TypeOK, FileHasItem, PhaseOK, OnFile, OnItem,
        CliRestoreStaysSole, Exists, Goto, Finish, StartOn, rows, s3, local
<1>1. ASSUME NEW p \in Procs, NEW f \in Files, CliRestoreCheck(p, f)
      PROVE  CliRestoreStaysSole'
    BY <1>1 DEF CliRestoreCheck
<1>2. ASSUME NEW p \in Procs, NEW f \in Files, NEW i \in Items, UploadInsert(p, f, i)
      PROVE  CliRestoreStaysSole'
    BY <1>2 DEF UploadInsert
<1>3. ASSUME NEW p \in Procs, CliRestore(p)
      PROVE  CliRestoreStaysSole'
    BY <1>3 DEF CliRestore
<1>4. ASSUME NEW p \in Procs,
             \/ UploadPut(p) \/ UploadPutFails(p) \/ UploadConflict(p)
             \/ BatchRecheck(p) \/ BatchPurgeCheck(p) \/ FileDelete(p)
             \/ OrphanCheck(p) \/ ItemDelete(p) \/ ObjectDelete(p)
             \/ ObjectDeleteFails(p) \/ CacheDelete(p) \/ ThumbRead(p)
             \/ ThumbPut(p) \/ Crash(p)
      PROVE  CliRestoreStaysSole'
    BY <1>4 DEF UploadPut, UploadPutFails, UploadConflict, BatchRecheck,
        BatchPurgeCheck, FileDelete, OrphanCheck, ItemDelete, ObjectDelete,
        ObjectDeleteFails, CacheDelete, ThumbRead, ThumbPut, Crash
<1>5. ASSUME NEW p \in Procs, NEW f \in Files,
             \/ DeleteUnfiledLock(p, f) \/ PurgeCheck(p, f)
             \/ BatchList(p, f) \/ ThumbStart(p, f)
      PROVE  CliRestoreStaysSole'
    BY <1>5 DEF DeleteUnfiledLock, PurgeCheck, BatchList, ThumbStart
<1>6. ASSUME NEW f \in Files,
             \/ SoftDelete(f) \/ Restore(f) \/ Receive(f)
      PROVE  CliRestoreStaysSole'
    BY <1>6 DEF SoftDelete, Restore, Receive
<1>7. ASSUME NEW p \in Procs, NEW h \in Hashes, UploadCheck(p, h)
      PROVE  CliRestoreStaysSole'
    BY <1>7 DEF UploadCheck
<1> QED BY <1>1, <1>2, <1>3, <1>4, <1>5, <1>6, <1>7 DEF Next, Begin, Proceed,
    Fail, Administer

(* Content: whoever removes an object of content in use has been recorded. *)
LEMMA StoreStep == RowInv /\ StoreInv /\ Next => StoreInv'
<1> SUFFICES ASSUME RowInv /\ StoreInv, Next PROVE StoreInv'
    OBVIOUS
<1> USE DEF RowInv, TypeOK, PhaseOK, OnFile, OnItem, OnHash, LiveHasHash,
        StoreInv, InsertHasObject, MissingOnlyWhereRaced, Goto, Finish,
        StartOn, rows, s3, local
<1>0. OverlapRecorded' /\ raced \subseteq raced'
    BY DEF Next, Record, OverlapRecorded, Overlap
<1>1. ASSUME NEW p \in Procs, NEW f \in Files, NEW i \in Items, UploadInsert(p, f, i)
      PROVE  StoreInv'
    BY <1>0, <1>1 DEF UploadInsert
<1>2. ASSUME NEW p \in Procs, ObjectDelete(p)
      PROVE  StoreInv'
    BY <1>0, <1>2 DEF ObjectDelete, OverlapRecorded, Overlap, Purging, Using,
        Stored
<1>3. ASSUME NEW p \in Procs,
             \/ UploadPut(p) \/ UploadPutFails(p) \/ UploadConflict(p)
             \/ BatchRecheck(p) \/ BatchPurgeCheck(p) \/ FileDelete(p)
             \/ OrphanCheck(p) \/ ItemDelete(p) \/ ObjectDeleteFails(p)
             \/ CacheDelete(p) \/ CliRestore(p) \/ ThumbRead(p)
             \/ ThumbPut(p) \/ Crash(p)
      PROVE  StoreInv'
    BY <1>0, <1>3 DEF UploadPut, UploadPutFails, UploadConflict, BatchRecheck,
        BatchPurgeCheck, FileDelete, OrphanCheck, ItemDelete,
        ObjectDeleteFails, CacheDelete, CliRestore, ThumbRead, ThumbPut, Crash
<1>4. ASSUME NEW p \in Procs, NEW f \in Files,
             \/ DeleteUnfiledLock(p, f) \/ PurgeCheck(p, f)
             \/ BatchList(p, f) \/ CliRestoreCheck(p, f)
             \/ ThumbStart(p, f)
      PROVE  StoreInv'
    BY <1>0, <1>4 DEF DeleteUnfiledLock, PurgeCheck, BatchList,
        CliRestoreCheck, ThumbStart
<1>5. ASSUME NEW f \in Files,
             \/ SoftDelete(f) \/ Restore(f) \/ Receive(f)
      PROVE  StoreInv'
    BY <1>0, <1>5 DEF SoftDelete, Restore, Receive
<1>6. ASSUME NEW p \in Procs, NEW h \in Hashes, UploadCheck(p, h)
      PROVE  StoreInv'
    BY <1>0, <1>6 DEF UploadCheck
<1> QED BY <1>1, <1>2, <1>3, <1>4, <1>5, <1>6 DEF Next, Begin, Proceed, Fail,
    Administer

(* Stranded items: the hard delete of the last file finds its item.        *)
LEMMA StrandedStep == RowInv /\ NoStrandedItem /\ Next => NoStrandedItem'
<1> SUFFICES ASSUME RowInv /\ NoStrandedItem, Next PROVE NoStrandedItem'
    OBVIOUS
<1> USE FaultsAssumption DEF RowInv, TypeOK, FileHasItem, PhaseOK, OnFile,
        OnItem, NoStrandedItem, Referenced, Exists, Goto, Finish, StartOn,
        rows, s3, local
<1>1. ASSUME NEW p \in Procs, NEW f \in Files, NEW i \in Items, UploadInsert(p, f, i)
      PROVE  NoStrandedItem'
    BY <1>1 DEF UploadInsert
<1>2. ASSUME NEW p \in Procs, FileDelete(p)
      PROVE  NoStrandedItem'
    BY <1>2 DEF FileDelete
<1>3. ASSUME NEW p \in Procs, OrphanCheck(p)
      PROVE  NoStrandedItem'
    BY <1>3 DEF OrphanCheck
<1>4. ASSUME NEW p \in Procs, ItemDelete(p)
      PROVE  NoStrandedItem'
    BY <1>4 DEF ItemDelete
<1>5. ASSUME NEW p \in Procs,
             \/ UploadPut(p) \/ UploadPutFails(p) \/ UploadConflict(p)
             \/ BatchRecheck(p) \/ BatchPurgeCheck(p) \/ ObjectDelete(p)
             \/ ObjectDeleteFails(p) \/ CacheDelete(p) \/ CliRestore(p)
             \/ ThumbRead(p) \/ ThumbPut(p) \/ Crash(p)
      PROVE  NoStrandedItem'
    BY <1>5 DEF UploadPut, UploadPutFails, UploadConflict, BatchRecheck,
        BatchPurgeCheck, ObjectDelete, ObjectDeleteFails, CacheDelete,
        CliRestore, ThumbRead, ThumbPut, Crash
<1>6. ASSUME NEW p \in Procs, NEW f \in Files,
             \/ DeleteUnfiledLock(p, f) \/ PurgeCheck(p, f)
             \/ BatchList(p, f) \/ CliRestoreCheck(p, f)
             \/ ThumbStart(p, f)
      PROVE  NoStrandedItem'
    BY <1>6 DEF DeleteUnfiledLock, PurgeCheck, BatchList, CliRestoreCheck,
        ThumbStart
<1>7. ASSUME NEW f \in Files,
             \/ SoftDelete(f) \/ Restore(f) \/ Receive(f)
      PROVE  NoStrandedItem'
    BY <1>7 DEF SoftDelete, Restore, Receive
<1>8. ASSUME NEW p \in Procs, NEW h \in Hashes, UploadCheck(p, h)
      PROVE  NoStrandedItem'
    BY <1>8 DEF UploadCheck
<1> QED BY <1>1, <1>2, <1>3, <1>4, <1>5, <1>6, <1>7, <1>8 DEF Next, Begin,
    Proceed, Fail, Administer

(* Orphans in S3: what loses its row is purged, or its purge is recorded.  *)
LEMMA OrphanStep == RowInv /\ OverlapRecorded /\ OrphanInv /\ Next => OrphanInv'
<1> SUFFICES ASSUME RowInv /\ OverlapRecorded /\ OrphanInv, Next PROVE OrphanInv'
    OBVIOUS
<1> USE FaultsAssumption DEF RowInv, TypeOK, PhaseOK, OnFile, OnItem, OnHash,
        FileHasItem, LiveHasHash, OrphanInv, ObjectAccounted, ThumbOfStored,
        OrphanThumbOnlyWhereRaced, Stored, Purging, Goto, Finish, StartOn,
        rows, s3, local
<1>0. OverlapRecorded' /\ raced \subseteq raced'
    BY DEF Next, Record, OverlapRecorded, Overlap
<1>1. ASSUME NEW p \in Procs, NEW f \in Files, NEW i \in Items, UploadInsert(p, f, i)
      PROVE  OrphanInv'
    BY <1>0, <1>1 DEF UploadInsert
<1>2. ASSUME NEW p \in Procs, ItemDelete(p)
      PROVE  OrphanInv'
    BY <1>0, <1>2 DEF ItemDelete, OverlapRecorded, Overlap, Using
<1>3. ASSUME NEW p \in Procs, CacheDelete(p)
      PROVE  OrphanInv'
    BY <1>0, <1>3 DEF CacheDelete
<1>4. ASSUME NEW p \in Procs, ThumbPut(p)
      PROVE  OrphanInv'
    BY <1>0, <1>4 DEF ThumbPut
<1>5. ASSUME NEW p \in Procs,
             \/ UploadPut(p) \/ UploadPutFails(p) \/ UploadConflict(p)
             \/ BatchRecheck(p) \/ BatchPurgeCheck(p) \/ FileDelete(p)
             \/ OrphanCheck(p) \/ ObjectDelete(p) \/ ObjectDeleteFails(p)
             \/ CliRestore(p) \/ ThumbRead(p) \/ Crash(p)
      PROVE  OrphanInv'
    BY <1>0, <1>5 DEF UploadPut, UploadPutFails, UploadConflict, BatchRecheck,
        BatchPurgeCheck, FileDelete, OrphanCheck, ObjectDelete,
        ObjectDeleteFails, CliRestore, ThumbRead, Crash
<1>6. ASSUME NEW p \in Procs, NEW f \in Files,
             \/ DeleteUnfiledLock(p, f) \/ PurgeCheck(p, f)
             \/ BatchList(p, f) \/ CliRestoreCheck(p, f)
             \/ ThumbStart(p, f)
      PROVE  OrphanInv'
    BY <1>0, <1>6 DEF DeleteUnfiledLock, PurgeCheck, BatchList,
        CliRestoreCheck, ThumbStart
<1>7. ASSUME NEW f \in Files,
             \/ SoftDelete(f) \/ Restore(f) \/ Receive(f)
      PROVE  OrphanInv'
    BY <1>0, <1>7 DEF SoftDelete, Restore, Receive
<1>8. ASSUME NEW p \in Procs, NEW h \in Hashes, UploadCheck(p, h)
      PROVE  OrphanInv'
    BY <1>0, <1>8 DEF UploadCheck
<1> QED BY <1>1, <1>2, <1>3, <1>4, <1>5, <1>6, <1>7, <1>8 DEF Next, Begin,
    Proceed, Fail, Administer

-----------------------------------------------------------------------------
(* The invariants hold after the data import and when nothing changes.     *)

(* Init: the import gives every file an item and every item its object.    *)
LEMMA InitInv ==
    Init => /\ RowInv /\ LockInv /\ StoreInv /\ OrphanInv
            /\ CliRestoreStaysSole /\ NoStrandedItem
<1> SUFFICES ASSUME Init
             PROVE  /\ RowInv /\ LockInv /\ StoreInv /\ OrphanInv
                    /\ CliRestoreStaysSole /\ NoStrandedItem
    OBVIOUS
<1> USE ImportAssumption, NoneAssumption DEF Init
<1>1. TypeOK
    BY DEF TypeOK, Phases
<1>2. FileHasItem /\ LiveHasHash
    BY DEF FileHasItem, LiveHasHash, Exists
<1>3. PhaseOK /\ NoRefAtDelete
    BY DEF PhaseOK, NoRefAtDelete, OnFile, OnItem, OnHash
<1>4. LockInv /\ CliRestoreStaysSole
    BY DEF LockInv, LockUnique, LockedStaysUnfiled, CliRestoreStaysSole
<1>5. StoreInv
    BY DEF StoreInv, OverlapRecorded, Overlap, Purging, InsertHasObject,
        MissingOnlyWhereRaced
<1>6. OrphanInv
    BY DEF OrphanInv, ObjectAccounted, Stored, ThumbOfStored,
        OrphanThumbOnlyWhereRaced
<1>7. NoStrandedItem
    BY DEF NoStrandedItem, Referenced, Exists
<1> QED BY <1>1, <1>2, <1>3, <1>4, <1>5, <1>6, <1>7 DEF RowInv

(* A step that changes no variable keeps every invariant.                  *)
LEMMA Stutter ==
    vars' = vars =>
      /\ RowInv => RowInv'
      /\ LockInv => LockInv'
      /\ StoreInv => StoreInv'
      /\ OrphanInv => OrphanInv'
      /\ CliRestoreStaysSole => CliRestoreStaysSole'
      /\ NoStrandedItem => NoStrandedItem'
<1> USE DEF vars, rows, s3, local, Exists, Referenced, Stored, Using, Purging
<1>1. vars' = vars /\ RowInv => RowInv'
    BY DEF RowInv, TypeOK, FileHasItem, LiveHasHash, PhaseOK, NoRefAtDelete
<1>2. vars' = vars /\ LockInv => LockInv'
    BY DEF LockInv, LockUnique, LockedStaysUnfiled
<1>3. vars' = vars /\ StoreInv => StoreInv'
    BY DEF StoreInv, OverlapRecorded, Overlap, InsertHasObject,
        MissingOnlyWhereRaced
<1>4. vars' = vars /\ OrphanInv => OrphanInv'
    BY DEF OrphanInv, ObjectAccounted, ThumbOfStored, OrphanThumbOnlyWhereRaced
<1>5. vars' = vars /\ CliRestoreStaysSole => CliRestoreStaysSole'
    BY DEF CliRestoreStaysSole
<1>6. vars' = vars /\ NoStrandedItem => NoStrandedItem'
    BY DEF NoStrandedItem
<1> QED BY <1>1, <1>2, <1>3, <1>4, <1>5, <1>6

-----------------------------------------------------------------------------
(* Theorems                                                                *)

(* The rows and the handlers' phases agree, in every reachable state.      *)
THEOREM RowsAndPhases == Spec => []RowInv
<1>1. Init => RowInv
    BY InitInv
<1>2. RowInv /\ [Next]_vars => RowInv'
    BY RowStep, Stutter
<1> QED BY <1>1, <1>2, PTL DEF Spec

(* Every variable keeps its type.                                          *)
THEOREM TypeCorrect == Spec => []TypeOK
<1>1. RowInv => TypeOK
    BY DEF RowInv
<1> QED BY <1>1, RowsAndPhases, PTL

(* No hard delete ever trips the foreign key from a file to its item, for  *)
(* any number of concurrent uploads, deletes, purges and crashes.          *)
THEOREM ForeignKeyNeverTrips == Spec => []FileHasItem
<1>1. RowInv => FileHasItem
    BY DEF RowInv
<1> QED BY <1>1, RowsAndPhases, PTL

(* While delete_unfiled_upload holds its row lock the file stays unfiled.  *)
THEOREM LockKeepsUnfiled == Spec => []LockedStaysUnfiled
<1>1. Init => LockInv
    BY InitInv
<1>2. RowInv /\ LockInv /\ [Next]_vars => LockInv'
    BY LockStep, Stutter
<1>3. LockInv => LockedStaysUnfiled
    BY DEF LockInv
<1> QED BY <1>1, <1>2, <1>3, RowsAndPhases, PTL DEF Spec

(* The CLI's restore brings back a file that shares its content with none, *)
(* although it checks and commits in two transactions without a lock.      *)
THEOREM CliRestoreSole == Spec => []CliRestoreStaysSole
<1>1. Init => CliRestoreStaysSole
    BY InitInv
<1>2. RowInv /\ CliRestoreStaysSole /\ [Next]_vars => CliRestoreStaysSole'
    BY SoleStep, Stutter
<1> QED BY <1>1, <1>2, RowsAndPhases, PTL DEF Spec

(* Overlaps are recorded, what is inserted is stored, content goes missing *)
(* only where an overlap was recorded.                                     *)
THEOREM StoreInvariant == Spec => []StoreInv
<1>1. Init => StoreInv
    BY InitInv
<1>2. RowInv /\ StoreInv /\ [Next]_vars => StoreInv'
    BY StoreStep, Stutter
<1> QED BY <1>1, <1>2, RowsAndPhases, PTL DEF Spec

(* The one way to lose content is a purge overlapping an upload of it.     *)
THEOREM ContentKept == Spec => []MissingOnlyWhereRaced
<1>1. StoreInv => MissingOnlyWhereRaced
    BY DEF StoreInv
<1> QED BY <1>1, StoreInvariant, PTL

(* Two deletes of an item's last two files never leave it to each other.   *)
THEOREM NothingStranded == Spec => []NoStrandedItem
<1>1. Init => NoStrandedItem
    BY InitInv
<1>2. RowInv /\ NoStrandedItem /\ [Next]_vars => NoStrandedItem'
    BY StrandedStep, Stutter
<1> QED BY <1>1, <1>2, RowsAndPhases, PTL DEF Spec

(* Objects and thumbnails whose content lost its row are accounted for.    *)
THEOREM OrphanInvariant == Spec => []OrphanInv
<1>1. Init => OrphanInv
    BY InitInv
<1>2. RowInv /\ StoreInv /\ OrphanInv /\ [Next]_vars => OrphanInv'
    BY OrphanStep, Stutter DEF StoreInv
<1> QED BY <1>1, <1>2, RowsAndPhases, StoreInvariant, PTL DEF Spec

(* Orphaned S3 objects come from failures only.                            *)
THEOREM ObjectOrphansByFailure == Spec => []OrphanObjectOnlyByFailure
<1>1. OrphanInv => OrphanObjectOnlyByFailure
    BY DEF OrphanInv, ObjectAccounted, OrphanObjectOnlyByFailure, Using,
        Purging
<1> QED BY <1>1, OrphanInvariant, PTL

(* Orphaned thumbnails come from failures or from a purge that overlapped. *)
THEOREM ThumbOrphansWhereRaced == Spec => []OrphanThumbOnlyWhereRaced
<1>1. OrphanInv => OrphanThumbOnlyWhereRaced
    BY DEF OrphanInv
<1> QED BY <1>1, OrphanInvariant, PTL

(* Without failures nothing is left in S3 unaccounted for.                 *)
THEOREM OrphansExplained == Spec => []OrphansAccounted
<1>1. OrphanObjectOnlyByFailure /\ OrphanThumbOnlyWhereRaced => OrphansAccounted
    BY DEF OrphansAccounted
<1> QED BY <1>1, ObjectOrphansByFailure, ThumbOrphansWhereRaced, PTL

(* Filing cannot slip between check and deletion, nor a second file of the *)
(* same content between check and restore.                                 *)
THEOREM ChecksHold == Spec => []ChecksHoldUntilWrite
<1>1. LockedStaysUnfiled /\ CliRestoreStaysSole => ChecksHoldUntilWrite
    BY DEF ChecksHoldUntilWrite
<1> QED BY <1>1, LockKeepsUnfiled, CliRestoreSole, PTL

(* Rows and items agree: no file without its item, no item forgotten.      *)
THEOREM RowsAlwaysAgree == Spec => []RowsAgree
<1>1. FileHasItem /\ NoStrandedItem => RowsAgree
    BY DEF RowsAgree
<1> QED BY <1>1, ForeignKeyNeverTrips, NothingStranded, PTL

-----------------------------------------------------------------------------
(* Refinement: the handlers implement the atomic operations of             *)
(* ContentStore. What this needs beyond RowInv and StoreInv is that two    *)
(* items in the table never have one content (the UNIQUE sha256_hash).     *)

OneItemPerContent ==
    \A i, j \in Items :
      istate[i] = "live" /\ istate[j] = "live" /\ ihash[i] = ihash[j] => i = j

(* Only an insert adds an item, of content no item has.                    *)
LEMMA UniqueStep ==
    RowInv /\ OneItemPerContent /\ [Next]_vars => OneItemPerContent'
<1> SUFFICES ASSUME RowInv, OneItemPerContent, [Next]_vars
             PROVE  OneItemPerContent'
    OBVIOUS
<1> USE DEF OneItemPerContent, rows
<1>1. ASSUME NEW p \in Procs, NEW f \in Files, NEW i \in Items, UploadInsert(p, f, i)
      PROVE  OneItemPerContent'
    BY <1>1 DEF UploadInsert, Stored, RowInv, TypeOK
<1>2. ASSUME NEW p \in Procs, ItemDelete(p)
      PROVE  OneItemPerContent'
    BY <1>2 DEF ItemDelete, RowInv, TypeOK
<1>3. ASSUME UNCHANGED <<istate, ihash>> PROVE OneItemPerContent'
    BY <1>3
<1>4. ASSUME NEW p \in Procs, Begin(p) \/ Fail(p)
      PROVE  UNCHANGED <<istate, ihash>>
    BY <1>4 DEF Begin, Fail, UploadCheck, DeleteUnfiledLock, PurgeCheck, BatchList,
        CliRestoreCheck, ThumbStart, UploadPutFails, ObjectDeleteFails, Crash
<1>5. ASSUME NEW p \in Procs,
             \/ UploadPut(p) \/ UploadConflict(p) \/ BatchRecheck(p)
             \/ BatchPurgeCheck(p) \/ FileDelete(p) \/ OrphanCheck(p)
             \/ ObjectDelete(p) \/ CacheDelete(p) \/ CliRestore(p)
             \/ ThumbRead(p) \/ ThumbPut(p)
      PROVE  UNCHANGED <<istate, ihash>>
    BY <1>5 DEF UploadPut, UploadConflict, BatchRecheck, BatchPurgeCheck,
        FileDelete, OrphanCheck, ObjectDelete, CacheDelete, CliRestore,
        ThumbRead, ThumbPut
<1>6. ASSUME NEW f \in Files, Administer(f)
      PROVE  UNCHANGED <<istate, ihash>>
    BY <1>6 DEF Administer, SoftDelete, Restore, Receive
<1>7. vars' = vars => UNCHANGED <<istate, ihash>>
    BY DEF vars
<1> QED BY <1>1, <1>2, <1>3, <1>4, <1>5, <1>6, <1>7 DEF Next, Proceed

(* A content that ContentStore sees held has an item in the table.         *)
LEMMA HeldIsStored ==
    ASSUME RowInv, NEW h, Promise!Held(h)
    PROVE  \E f \in Files : Exists(f) /\ istate[fitem[f]] = "live"
                            /\ fitem[f] \in Items /\ ihash[fitem[f]] = h
    BY DEF Promise!Held, Promise!Exists, Holding, Exists, RowInv, FileHasItem

(* Overlaps are of content being discarded, so every step disturbs as      *)
(* ContentStore allows.                                                    *)
LEMMA RecordDisturbs == Record => Promise!Disturb
    BY DEF Record, Overlap, Purging, Discarded, Promise!Disturb

(* The data import is an initial state of ContentStore.                    *)
LEMMA PromiseInit == Init => Promise!Init /\ OneItemPerContent
<1> SUFFICES ASSUME Init PROVE Promise!Init /\ OneItemPerContent
    OBVIOUS
<1> USE ImportAssumption, NoneAssumption DEF Init
<1>1. OneItemPerContent
    BY DEF OneItemPerContent
<1>2. ASSUME NEW f \in Files
      PROVE  \/ Holding[f] = [st |-> "unborn", content |-> None]
             \/ Holding[f].st = "active" /\ Holding[f].content \in objects
    BY DEF Holding, Exists
<1>3. objects \subseteq Hashes /\ Discarded = {} /\ raced = {}
    BY DEF Discarded
<1> QED BY <1>1, <1>2, <1>3 DEF Promise!Init

(* What changes neither a row of archive_files or an item's content, nor   *)
(* who discards, is invisible to ContentStore but for what it stores.      *)
LEMMA FilesInvisible ==
    UNCHANGED <<fstate, fitem, ihash>> => Holding' = Holding
    BY DEF Holding, Exists

LEMMA DiscardInvisible ==
    (\A p \in Procs :
       \/ pc'[p] \in {"ditem", "object", "cache"} /\ pc[p] \in {"ditem", "object", "cache"}
          /\ phash'[p] = phash[p]
       \/ pc'[p] \notin {"ditem", "object", "cache"} /\ pc[p] \notin {"ditem", "object", "cache"})
    => Discarded' = Discarded
    BY DEF Discarded

(* A process that ends leaves its content to the others that discard it.   *)
LEMMA EndsDiscard ==
    ASSUME TypeOK, NEW p \in Procs, phash[p] \in Hashes, Finish(p)
    PROVE  Discarded' = Discarded \/ Discarded' = Discarded \ {phash[p]}
    BY DEF Discarded, Finish, TypeOK

LEMMA EndsUnseen ==
    ASSUME TypeOK, NEW p \in Procs, pc[p] \notin {"ditem", "object", "cache"}, Finish(p)
    PROVE  Discarded' = Discarded
    BY DEF Discarded, Finish, TypeOK

(* An insert is Put: the upload's content has no item, so no file has it,  *)
(* and it is stored.                                                       *)
LEMMA InsertIsPut ==
    ASSUME RowInv, StoreInv, NEW p \in Procs, NEW f \in Files, NEW i \in Items,
           UploadInsert(p, f, i)
    PROVE  phash[p] \in Hashes /\ Promise!Put(f, phash[p])
<1> DEFINE h == phash[p]
<1> USE DEF UploadInsert, RowInv, TypeOK
<1>1. h \in Hashes /\ pc[p] = "insert"
    BY DEF PhaseOK, OnHash
<1>2. ~Promise!Held(h)
    BY HeldIsStored DEF Stored
<1>3. h \in objects \cup raced
    BY <1>1 DEF StoreInv, InsertHasObject
<1>4. Holding[f].st = "unborn"
    BY DEF Holding
<1>5. Holding' = [Holding EXCEPT ![f] = [st |-> "active", content |-> h]]
  <2>1. ASSUME NEW g \in Files, g # f PROVE Holding'[g] = Holding[g]
    <3>1. fstate'[g] = fstate[g] /\ fitem'[g] = fitem[g] /\ Exists(g)' = Exists(g)
      BY <2>1 DEF Exists
    <3>2. Exists(g) => ihash'[fitem[g]] = ihash[fitem[g]]
      BY DEF FileHasItem
    <3> QED BY <3>1, <3>2 DEF Holding
  <2>2. Holding'[f] = [st |-> "active", content |-> h]
    BY DEF Holding, Exists
  <2> QED BY <2>1, <2>2 DEF Holding
<1>6. Discarded' = Discarded /\ objects' = objects
    BY <1>1, EndsUnseen DEF s3
<1> HIDE DEF UploadInsert, RowInv, TypeOK
<1> QED BY <1>1, <1>2, <1>3, <1>4, <1>5, <1>6 DEF Promise!Put

(* The reference count is BeginDiscard: an item without files is the only  *)
(* one with its content.                                                   *)
LEMMA CountIsBegin ==
    ASSUME RowInv, OneItemPerContent, NEW p \in Procs, OrphanCheck(p)
    PROVE  \/ UNCHANGED <<Holding, objects, Discarded>>
           \/ \E h \in Hashes : Promise!BeginDiscard(h)
<1> USE DEF RowInv, TypeOK
<1>1. Holding' = Holding /\ objects' = objects
    BY FilesInvisible DEF OrphanCheck, rows, s3
<1>2. pc[p] = "orphans" /\ pitem[p] \in Items
    BY DEF OrphanCheck, PhaseOK, OnItem
<1>3. CASE Referenced(pitem[p]) \/ istate[pitem[p]] # "live"
  <2>1. Finish(p)
    BY <1>3 DEF OrphanCheck
  <2> QED BY <2>1, <1>1, <1>2, EndsUnseen
<1>4. CASE ~Referenced(pitem[p]) /\ istate[pitem[p]] = "live"
  <2> DEFINE h == ihash[pitem[p]]
  <2>1. h \in Hashes
    BY <1>2, <1>4 DEF LiveHasHash
  <2>2. pc' = [pc EXCEPT ![p] = "ditem"] /\ phash' = [phash EXCEPT ![p] = h]
    BY <1>4 DEF OrphanCheck
  <2>3. Discarded' = Discarded \cup {h}
    BY <1>2, <2>1, <2>2 DEF Discarded
  <2>4. ~Promise!Held(h)
    BY <1>2, <1>4, HeldIsStored DEF OneItemPerContent, Referenced
  <2> HIDE DEF h
  <2> QED BY <1>1, <2>1, <2>3, <2>4 DEF Promise!BeginDiscard
<1> QED BY <1>3, <1>4

(* Deleting the object is Discard: if a file holds the content, the        *)
(* overlap has been recorded.                                              *)
LEMMA PurgeIsDiscard ==
    ASSUME RowInv, StoreInv, NEW p \in Procs, ObjectDelete(p)
    PROVE  phash[p] \in Hashes /\ Promise!Discard(phash[p])
<1> DEFINE h == phash[p]
<1> USE DEF ObjectDelete, Goto
<1>1. h \in Hashes /\ h \in Discarded
    BY DEF RowInv, PhaseOK, OnHash, Discarded
<1>2. Promise!Held(h) => h \in raced
  <2>1. Promise!Held(h) => Stored(h)
    BY HeldIsStored DEF Stored
  <2> QED BY <1>1, <2>1 DEF StoreInv, OverlapRecorded, Overlap, Purging
<1>3. Holding' = Holding
    BY FilesInvisible DEF rows
<1>4. Discarded' = Discarded
    BY DiscardInvisible DEF RowInv, TypeOK
<1> QED BY <1>1, <1>2, <1>3, <1>4 DEF Promise!Discard

(* Deleting a file row is Delete, unless another deletion was faster.      *)
LEMMA RowIsDelete ==
    ASSUME RowInv, NEW p \in Procs, FileDelete(p)
    PROVE  \/ UNCHANGED <<Holding, objects, Discarded>>
           \/ \E f \in Files : Promise!Delete(f)
<1> USE DEF RowInv, TypeOK, FileDelete, Goto
<1> DEFINE f == pfile[p]
<1>1. f \in Files /\ fstate[f] # "unborn"
    BY DEF PhaseOK, OnFile
<1>2. Discarded' = Discarded /\ objects' = objects
    BY DiscardInvisible DEF s3
<1>3. \A g \in Files : g # f => Holding'[g] = Holding[g]
    BY <1>1 DEF Holding, Exists
<1>4. Holding'[f] = [st |-> "gone", content |-> None]
    BY <1>1 DEF Holding, Exists
<1>5. Holding' = [Holding EXCEPT ![f] = [st |-> "gone", content |-> None]]
  <2> HIDE DEF f
  <2> QED BY <1>3, <1>4 DEF Holding
<1>6. CASE Exists(f)
  <2>1. Promise!Exists(f)
    BY <1>1, <1>6 DEF Promise!Exists, Holding, Exists
  <2> QED BY <1>1, <1>2, <1>5, <2>1 DEF Promise!Delete
<1>7. CASE ~Exists(f)
  <2>1. Holding[f] = [st |-> "gone", content |-> None]
    BY <1>1, <1>7 DEF Holding, Exists
  <2> QED BY <1>2, <1>5, <2>1 DEF Holding
<1> QED BY <1>6, <1>7

(* Trash and restore, of the web interface and of the CLI, are Move.       *)
LEMMA UpdateIsMove ==
    ASSUME RowInv, NEW f \in Files, NEW st \in {"active", "trashed"}, Exists(f),
           fstate' = [fstate EXCEPT ![f] = st],
           UNCHANGED <<fitem, ihash, objects, Discarded>>
    PROVE  Promise!Move(f, st)
<1>1. Promise!Exists(f)
    BY DEF Promise!Exists, Holding, Exists
<1>2. Holding' = [Holding EXCEPT ![f].st = st]
    BY DEF Holding, Exists, RowInv, TypeOK
<1> QED BY <1>1, <1>2 DEF Promise!Move

(* Every step is a step of ContentStore, or invisible to it.               *)
LEMMA PromiseStep ==
    RowInv /\ StoreInv /\ OneItemPerContent /\ [Next]_vars
      => [Promise!Next]_<<Holding, objects, Discarded, raced>>
<1> SUFFICES ASSUME RowInv, StoreInv, OneItemPerContent, Next
             PROVE  Promise!Next
  <2>1. vars' = vars => UNCHANGED <<Holding, objects, Discarded, raced>>
    BY FilesInvisible, DiscardInvisible DEF vars, rows, s3, local, Discarded
  <2> QED BY <2>1
<1> DEFINE Unseen == UNCHANGED <<Holding, objects, Discarded>>
           Step   == \/ Unseen
                     \/ \E h \in Hashes :
                          \/ Promise!Store(h) \/ Promise!BeginDiscard(h)
                          \/ Promise!Discard(h) \/ Promise!EndDiscard(h)
                          \/ \E f \in Files : Promise!Put(f, h)
                     \/ \E f \in Files :
                          \/ Promise!Delete(f)
                          \/ \E st \in {"active", "trashed"} : Promise!Move(f, st)
<1>0. Promise!Disturb
    BY RecordDisturbs DEF Next
<1> SUFFICES Step
    BY <1>0 DEF Promise!Next
<1>1. ASSUME NEW p \in Procs, Begin(p) PROVE Step
  <2>1. Holding' = Holding /\ objects' = objects
    BY <1>1, FilesInvisible DEF Begin, UploadCheck, DeleteUnfiledLock, PurgeCheck,
        BatchList, CliRestoreCheck, ThumbStart, rows, s3
  <2>2. Discarded' = Discarded
    BY <1>1, DiscardInvisible DEF Begin, UploadCheck, DeleteUnfiledLock, PurgeCheck,
        BatchList, CliRestoreCheck, ThumbStart, StartOn, RowInv, TypeOK
  <2> QED BY <2>1, <2>2
<1>2. ASSUME NEW p \in Procs, Proceed(p) PROVE Step
  <2>1. ASSUME NEW f \in Files, NEW i \in Items, UploadInsert(p, f, i) PROVE Step
    BY <2>1, InsertIsPut
  <2>2. CASE UploadPut(p)
    <3>1. phash[p] \in Hashes
      BY <2>2 DEF UploadPut, RowInv, PhaseOK, OnHash
    <3>2. Holding' = Holding /\ Discarded' = Discarded
      BY <2>2, FilesInvisible, DiscardInvisible DEF UploadPut, Goto, rows, RowInv, TypeOK
    <3> QED BY <2>2, <3>1, <3>2 DEF UploadPut, Promise!Store
  <2>3. CASE BatchRecheck(p) \/ BatchPurgeCheck(p) \/ UploadConflict(p)
             \/ ThumbRead(p) \/ ThumbPut(p)
    <3>1. Holding' = Holding /\ objects' = objects
      BY <2>3, FilesInvisible DEF BatchRecheck, BatchPurgeCheck, UploadConflict,
          ThumbRead, ThumbPut, rows, s3
    <3>2. Discarded' = Discarded
      BY <2>3, DiscardInvisible DEF BatchRecheck, BatchPurgeCheck, UploadConflict,
          ThumbRead, ThumbPut, Goto, Finish, RowInv, TypeOK
    <3> QED BY <3>1, <3>2
  <2>4. CASE ItemDelete(p)
    BY <2>4, FilesInvisible, DiscardInvisible DEF ItemDelete, Goto, s3, RowInv, TypeOK
  <2>5. CASE CacheDelete(p)
    <3>1. Holding' = Holding /\ objects' = objects /\ Finish(p)
      BY <2>5, FilesInvisible DEF CacheDelete, rows
    <3>2. phash[p] \in Hashes
      BY <2>5 DEF CacheDelete, RowInv, PhaseOK, OnHash
    <3> QED BY <3>1, <3>2, EndsDiscard DEF RowInv, Promise!EndDiscard
  <2>6. CASE CliRestore(p)
    <3>1. pc[p] = "crestore" /\ pfile[p] \in Files
      BY <2>6 DEF CliRestore, RowInv, PhaseOK, OnFile
    <3>2. UNCHANGED <<fitem, ihash, objects, Discarded>>
      BY <2>6, <3>1, EndsUnseen DEF CliRestore, s3, RowInv
    <3>3. CASE Exists(pfile[p])
      BY <2>6, <3>1, <3>2, <3>3, UpdateIsMove DEF CliRestore
    <3>4. CASE ~Exists(pfile[p])
      BY <2>6, <3>2, <3>4, FilesInvisible DEF CliRestore
    <3> QED BY <3>3, <3>4
  <2> QED BY <1>2, <2>1, <2>2, <2>3, <2>4, <2>5, <2>6, RowIsDelete, CountIsBegin,
        PurgeIsDiscard DEF Proceed
<1>3. ASSUME NEW p \in Procs, Fail(p) PROVE Step
  <2>1. CASE UploadPutFails(p)
    <3>1. phash[p] \in Hashes /\ pc[p] = "put"
      BY <2>1 DEF UploadPutFails, RowInv, PhaseOK, OnHash
    <3>2. Holding' = Holding /\ Discarded' = Discarded
      BY <2>1, <3>1, FilesInvisible, EndsUnseen DEF UploadPutFails, rows, RowInv
    <3> QED BY <2>1, <3>1, <3>2 DEF UploadPutFails, Promise!Store
  <2>2. CASE ObjectDeleteFails(p)
    BY <2>2, FilesInvisible, DiscardInvisible DEF ObjectDeleteFails, Goto, rows, s3,
        RowInv, TypeOK
  <2>3. CASE Crash(p)
    <3>1. Holding' = Holding /\ objects' = objects /\ Finish(p)
      BY <2>3, FilesInvisible DEF Crash, rows, s3
    <3>2. CASE pc[p] \in {"ditem", "object", "cache"}
      <4>1. phash[p] \in Hashes
        BY <3>2 DEF RowInv, PhaseOK, OnHash
      <4> QED BY <3>1, <4>1, EndsDiscard DEF RowInv, Promise!EndDiscard
    <3>3. CASE pc[p] \notin {"ditem", "object", "cache"}
      BY <3>1, <3>3, EndsUnseen DEF RowInv
    <3> QED BY <3>2, <3>3
  <2> QED BY <1>3, <2>1, <2>2, <2>3 DEF Fail
<1>4. ASSUME NEW f \in Files, Administer(f) PROVE Step
  <2>1. UNCHANGED <<fitem, ihash, objects, Discarded>>
    BY <1>4 DEF Administer, SoftDelete, Restore, Receive, s3, local, Discarded
  <2>2. CASE SoftDelete(f)
    BY <2>1, <2>2, UpdateIsMove DEF SoftDelete
  <2>3. CASE Restore(f)
    BY <2>1, <2>3, UpdateIsMove DEF Restore
  <2>4. CASE Receive(f)
    BY <2>1, <2>4, FilesInvisible DEF Receive
  <2> QED BY <1>4, <2>2, <2>3, <2>4 DEF Administer
<1> QED BY <1>1, <1>2, <1>3, <1>4 DEF Next

(* The checks, transactions and S3 calls of any number of uploads,         *)
(* deletions, purges, restores and failures implement ContentStore.        *)
THEOREM ContentStoreRefined == Spec => KeepsContent
<1>1. Init => Promise!Init /\ OneItemPerContent
    BY PromiseInit
<1>2. RowInv /\ OneItemPerContent /\ [Next]_vars => OneItemPerContent'
    BY UniqueStep
<1>3. RowInv /\ StoreInv /\ OneItemPerContent /\ [Next]_vars
        => [Promise!Next]_<<Holding, objects, Discarded, raced>>
    BY PromiseStep
<1> QED BY <1>1, <1>2, <1>3, RowsAndPhases, StoreInvariant, PTL
        DEF Spec, KeepsContent, Promise!Spec, Promise!vars

(* Whatever implements ContentStore keeps a file's content until the file  *)
(* is deleted, unless the content came back while it was being discarded:  *)
(* so the archive does.                                                    *)
THEOREM FilesKeepTheirContent == Spec => []Promise!Kept
<1>1. Promise!Init => Promise!Kept
    BY DEF Promise!Init, Promise!Kept, Promise!Exists
<1>2. Promise!Kept /\ [Promise!Next]_(Promise!vars) => Promise!Kept'
  <2> SUFFICES ASSUME Promise!Kept, [Promise!Next]_(Promise!vars) PROVE Promise!Kept'
    OBVIOUS
  <2> USE DEF Promise!Kept, Promise!Exists, Promise!Disturb
  <2>1. ASSUME Promise!vars' = Promise!vars PROVE Promise!Kept'
    BY <2>1 DEF Promise!vars
  <2>2. ASSUME Promise!Next PROVE raced \subseteq raced'
    BY <2>2 DEF Promise!Next
  <2>3. ASSUME NEW h \in Hashes, raced \subseteq raced',
               Promise!Store(h) \/ Promise!BeginDiscard(h) \/ Promise!EndDiscard(h)
        PROVE  Promise!Kept'
    BY <2>3 DEF Promise!Store, Promise!BeginDiscard, Promise!EndDiscard
  <2>4. ASSUME NEW h \in Hashes, raced \subseteq raced', Promise!Discard(h)
        PROVE  Promise!Kept'
    BY <2>4 DEF Promise!Discard, Promise!Held
  <2>5. ASSUME NEW h \in Hashes, NEW f \in Files, raced \subseteq raced', Promise!Put(f, h)
        PROVE  Promise!Kept'
    BY <2>5 DEF Promise!Put, Holding
  <2>0. Holding = [f \in Files |-> [st |-> Holding[f].st, content |-> Holding[f].content]]
    BY DEF Holding
  <2>6. ASSUME NEW f \in Files, raced \subseteq raced',
               \/ Promise!Delete(f)
               \/ \E st \in {"active", "trashed"} : Promise!Move(f, st)
        PROVE  Promise!Kept'
    <3>1. \A g \in Files :
            Promise!Exists(g)' =>
              Promise!Exists(g) /\ Holding'[g].content = Holding[g].content
      BY <2>0, <2>6 DEF Promise!Delete, Promise!Move
    <3>2. objects' = objects
      BY <2>6 DEF Promise!Delete, Promise!Move
    <3> QED BY <2>6, <3>1, <3>2
  <2>7. ASSUME raced \subseteq raced', UNCHANGED <<Holding, objects, Discarded>>
        PROVE  Promise!Kept'
    BY <2>7
  <2> HIDE DEF Promise!Kept, Promise!Exists, Promise!Disturb
  <2>8. ASSUME Promise!Next PROVE Promise!Kept'
    BY <2>2, <2>3, <2>4, <2>5, <2>6, <2>7, <2>8 DEF Promise!Next
  <2> QED BY <2>1, <2>8
<1> QED BY <1>1, <1>2, ContentStoreRefined, PTL DEF KeepsContent, Promise!Spec
=============================================================================
