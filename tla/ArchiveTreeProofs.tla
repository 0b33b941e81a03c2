------------------------- MODULE ArchiveTreeProofs -------------------------
(***************************************************************************)
(* Proofs about ArchiveTree for any directories, files, keys and requests: *)
(* the permissions of a directory after overlapping saves, and that        *)
(* nothing loses its place; what a walk up the tree computes, and that it  *)
(* comes back only after moves that overlapped.                            *)
(***************************************************************************)
EXTENDS ArchiveTree, FiniteSetTheorems, TLAPS

(* The kind of a request is told by its op.                                *)
LEMMA JobKinds ==
    ASSUME TypeOK, NEW p \in Requests
    PROVE  /\ job[p].op = "move" => job[p] \in Move
           /\ job[p].op = "update" => job[p] \in Update
           /\ job[p].op = "delete" => job[p] \in Delete
           /\ job[p] \in Move => job[p].op = "move"
           /\ job[p] \in Update => job[p].op = "update"
           /\ job[p] \in Delete => job[p].op = "delete"
           /\ job[p] = Idle => job[p].op = "idle"
  BY DEF TypeOK, Idle, Move, Update, Delete

(* A directory is live if there is a row for it.                           *)
LEMMA LiveRows ==
    ASSUME TypeOK
    PROVE  Live = {d \in Dirs : dir[d] \in Row}
  BY MarksAreNoRows DEF TypeOK, Live

(* The rows are well formed to begin with ...                              *)
LEMMA InitTypeOK == Init => TypeOK
<1> SUFFICES ASSUME Init PROVE TypeOK
  OBVIOUS
<1>1. \A place \in Place : NewRow(place, {}, FALSE) \in Row
  BY DEF NewRow, Row
<1>2. dir \in [Dirs -> Row \cup {None, Gone}]
  <2>1. {None} \cup {NewRow(place, {}, FALSE) : place \in Place} \subseteq Row \cup {None, Gone}
    BY <1>1
  <2> QED
    BY <2>1 DEF Init
<1>3. file \in [Files -> Place]
  BY DEF Init, Live, Place
<1>4. job \in [Requests -> {Idle} \cup Move \cup Update \cup Delete]
  BY DEF Init
<1>5. saved \in [Dirs -> [keys : SUBSET Keys, met : SUBSET Keys]]
  BY DEF Init, NothingSaved
<1> QED
  BY <1>2, <1>3, <1>4, <1>5, BoundIsNat DEF Init, TypeOK

(* A request that begins only changes its own record and the count.        *)
LEMMA BeginTypeOK ==
    ASSUME TypeOK, NEW p \in Requests, NEW what \in Move \cup Update \cup Delete,
           Begin(p, what)
    PROVE  TypeOK'
<1>1. asked' \in 0..MaxAsked
  BY BoundIsNat DEF Begin, Ask, TypeOK
<1>2. job' \in [Requests -> {Idle} \cup Move \cup Update \cup Delete]
  BY DEF Begin, TypeOK
<1> QED
  BY <1>1, <1>2 DEF Begin, TypeOK

(* ... and every step of a request leaves them so.                         *)
LEMMA NextTypeOK == TypeOK /\ [Next]_vars => TypeOK'
<1> SUFFICES ASSUME TypeOK, [Next]_vars PROVE TypeOK'
  OBVIOUS
<1>0. /\ dir \in [Dirs -> Row \cup {None, Gone}]
      /\ Live = {d \in Dirs : dir[d] \in Row}
  BY LiveRows DEF TypeOK
<1>1. ASSUME NEW d \in Dirs, NEW place \in Place, NEW keys \in Grants,
             NEW recursive \in BOOLEAN, Create(d, place, keys, recursive)
      PROVE  TypeOK'
  <2>1. NewRow(place, keys, recursive) \in Row
    BY GrantsOfKeys DEF NewRow, Row
  <2>2. asked' \in 0..MaxAsked
    BY <1>1, BoundIsNat DEF Create, Ask, TypeOK
  <2>3. dir' \in [Dirs -> Row \cup {None, Gone}]
    BY <1>0, <1>1, <2>1 DEF Create
  <2>4. saved' \in [Dirs -> [keys : SUBSET Keys, met : SUBSET Keys]]
    BY <1>1, GrantsOfKeys DEF Create, TypeOK
  <2> QED
    BY <1>1, <2>2, <2>3, <2>4 DEF Create, TypeOK
<1>2. ASSUME NEW f \in Files, NEW place \in Place, MoveFile(f, place) PROVE TypeOK'
  <2>1. asked' \in 0..MaxAsked
    BY <1>2, BoundIsNat DEF MoveFile, Ask, TypeOK
  <2> QED
    BY <1>2, <2>1 DEF MoveFile, TypeOK
<1>3. ASSUME NEW d \in Dirs, Restore(d) PROVE TypeOK'
  <2>1. asked' \in 0..MaxAsked
    BY <1>3, BoundIsNat DEF Restore, Ask, TypeOK
  <2>2. dir[d] \in Row
    BY <1>0, <1>3 DEF Restore
  <2>3. [dir[d] EXCEPT !.trashed = FALSE] \in Row
    BY <2>2 DEF Row
  <2>4. dir' = [dir EXCEPT ![d] = [dir[d] EXCEPT !.trashed = FALSE]]
    BY <1>3 DEF Restore
  <2> QED
    BY <1>0, <1>3, <2>1, <2>3, <2>4 DEF Restore, TypeOK
<1>4. ASSUME NEW p \in Requests, NEW dirs \in SUBSET Dirs, NEW place \in Place,
             StartMove(p, dirs, place)
      PROVE  TypeOK'
  <2> DEFINE what == [op |-> "move", dirs |-> {d \in dirs : dir[d].up # place},
                      target |-> place, met |-> {}]
  <2>1. what \in Move
    BY DEF Move
  <2>2. Begin(p, what)
    BY <1>4 DEF StartMove
  <2> HIDE DEF what
  <2> QED
    BY <2>1, <2>2, BeginTypeOK
<1>5. ASSUME NEW p \in Requests, NEW d \in Dirs, NEW keys \in Grants,
             NEW recursive \in BOOLEAN, StartUpdate(p, d, keys, recursive)
      PROVE  TypeOK'
  <2> DEFINE what == [op |-> "update", dir |-> d, keys |-> keys, recursive |-> recursive,
                      flips |-> recursive # dir[d].recursive, gone |-> dir[d].keys,
                      met |-> {}]
  <2>1. dir[d].keys \in SUBSET Keys
    BY <1>0, <1>5 DEF StartUpdate, Row
  <2>2. what \in Update
    BY <2>1, GrantsOfKeys DEF Update
  <2>3. Begin(p, what)
    BY <1>5 DEF StartUpdate
  <2> HIDE DEF what
  <2> QED
    BY <2>2, <2>3, BeginTypeOK
<1>6. ASSUME NEW p \in Requests, NEW d \in Dirs, StartDelete(p, d) \/ StartPurge(p, d)
      PROVE  TypeOK'
  <2>1. \A hard \in BOOLEAN : [op |-> "delete", dir |-> d, hard |-> hard] \in Delete
    BY DEF Delete
  <2>2. \E hard \in BOOLEAN : Begin(p, [op |-> "delete", dir |-> d, hard |-> hard])
    BY <1>6 DEF StartDelete, StartPurge
  <2> QED
    BY <2>1, <2>2, BeginTypeOK
<1>7. ASSUME NEW p \in Requests, CommitMove(p) PROVE TypeOK'
  <2>1. job[p] \in Move
    BY <1>7, JobKinds DEF CommitMove
  <2>2. \A d \in job[p].dirs : [dir[d] EXCEPT !.up = job[p].target] \in Row
    BY <1>0, <1>7, <2>1 DEF CommitMove, Move, Row
  <2>3. dir' \in [Dirs -> Row \cup {None, Gone}]
    BY <1>0, <1>7, <2>2 DEF CommitMove
  <2>4. ASSUME NEW q \in Requests, job[q].op = "move"
        PROVE  [job[q] EXCEPT !.met = @ \cup job[p].dirs] \in Move
    <3>1. job[q] \in Move
      BY <2>4, JobKinds
    <3> QED
      BY <2>1, <3>1 DEF Move
  <2>5. job' \in [Requests -> {Idle} \cup Move \cup Update \cup Delete]
    BY <1>7, <2>4 DEF CommitMove, TypeOK
  <2>6. ASSUME NEW d \in job[p].dirs, NEW e \in job[p].met PROVE {d, e} \in SUBSET Dirs
    BY <2>1 DEF Move
  <2>7. crossed' \subseteq SUBSET Dirs
    BY <1>7, <2>6 DEF CommitMove, TypeOK
  <2> QED
    BY <1>7, <2>3, <2>5, <2>7 DEF CommitMove, TypeOK
<1>8. ASSUME NEW p \in Requests, CommitUpdate(p) PROVE TypeOK'
  <2> DEFINE d == job[p].dir
  <2>1. job[p] \in Update /\ d \in Live
    BY <1>8, JobKinds DEF CommitUpdate
  <2>2. d \in Dirs /\ dir[d] \in Row
    BY <1>0, <2>1
  <2> DEFINE row == [dir[d] EXCEPT !.keys = Survivors(p) \cup job[p].keys,
                                   !.recursive = IF job[p].flips THEN job[p].recursive ELSE @]
  <2>3. row \in Row
    BY <2>1, <2>2 DEF Row, Update, Survivors
  <2>4. dir' = [dir EXCEPT ![d] = row]
    BY <1>8 DEF CommitUpdate
  <2>5. ASSUME NEW q \in Requests, job[q].op = "update"
        PROVE  [job[q] EXCEPT !.gone = @ \ job[p].gone, !.met = @ \cup job[p].keys] \in Update
    <3>1. job[q] \in Update
      BY <2>5, JobKinds
    <3> QED
      BY <2>1, <3>1 DEF Update
  <2>6. job' \in [Requests -> {Idle} \cup Move \cup Update \cup Delete]
    BY <1>8, <2>5 DEF CommitUpdate, TypeOK
  <2>7. [keys |-> job[p].keys, met |-> job[p].met] \in [keys : SUBSET Keys, met : SUBSET Keys]
    BY <2>1 DEF Update
  <2>8. saved' \in [Dirs -> [keys : SUBSET Keys, met : SUBSET Keys]]
    BY <1>8, <2>7 DEF CommitUpdate, TypeOK
  <2> HIDE DEF d, row
  <2>9. dir' \in [Dirs -> Row \cup {None, Gone}]
    BY <1>0, <2>2, <2>3, <2>4
  <2> QED
    BY <1>8, <2>6, <2>8, <2>9 DEF CommitUpdate, TypeOK
<1>9. ASSUME NEW p \in Requests, CommitDelete(p) PROVE TypeOK'
  <2>1. job[p] \in Delete
    BY <1>9, JobKinds DEF CommitDelete
  <2>2. job[p].dir \in Live
    BY <1>9 DEF CommitDelete, RowMayGo
  <2>3. [dir[job[p].dir] EXCEPT !.trashed = TRUE] \in Row
    BY <1>0, <2>2 DEF Row
  <2>4. \/ dir' = [dir EXCEPT ![job[p].dir] = Gone]
        \/ dir' = [dir EXCEPT ![job[p].dir] = [dir[job[p].dir] EXCEPT !.trashed = TRUE]]
    BY <1>9 DEF CommitDelete
  <2>5. dir' \in [Dirs -> Row \cup {None, Gone}]
    BY <1>0, <2>3, <2>4
  <2> QED
    BY <1>9, <2>5 DEF CommitDelete, TypeOK
<1>10. ASSUME NEW p \in Requests, GiveUp(p) PROVE TypeOK'
  BY <1>10 DEF GiveUp, TypeOK
<1>11. CASE UNCHANGED vars
  BY <1>11 DEF vars, TypeOK
<1> QED
  BY <1>1, <1>2, <1>3, <1>4, <1>5, <1>6, <1>7, <1>8, <1>9, <1>10, <1>11 DEF Next

(* Directories, files, requests and histories keep their types.            *)
THEOREM TypeCorrect == Spec => []TypeOK
<1> QED
  BY InitTypeOK, NextTypeOK, PTL DEF Spec

-----------------------------------------------------------------------------
(* Permissions                                                             *)

(* An update knows which rows of its directory it has deleted; all others  *)
(* were put there by saves it has met.                                     *)
KeysInv ==
    \A p \in Requests : job[p].op = "update" =>
        /\ dir[job[p].dir] # None
        /\ job[p].dir \in Live =>
              /\ job[p].gone \subseteq dir[job[p].dir].keys
              /\ Survivors(p) \subseteq job[p].met

KeysIInv == TypeOK /\ KeysInv /\ KeysOfLastSaves

(* Steps that change no permission rows, bring back no directory and leave *)
(* the requests for permissions alone.                                     *)
LEMMA SameKeys ==
    ASSUME KeysIInv, saved' = saved,
           Live' \subseteq Live,
           \A d \in Live' : dir'[d].keys = dir[d].keys,
           \A d \in Dirs : dir[d] # None => dir'[d] # None,
           \A p \in Requests : job'[p].op = "update" => job'[p] = job[p]
    PROVE  KeysInv' /\ KeysOfLastSaves'
<1>1. KeysOfLastSaves'
  BY DEF KeysIInv, KeysOfLastSaves
<1>2. ASSUME NEW p \in Requests, job'[p].op = "update"
      PROVE  /\ dir'[job'[p].dir] # None
             /\ job'[p].dir \in Live' =>
                   /\ job'[p].gone \subseteq dir'[job'[p].dir].keys
                   /\ Survivors(p)' \subseteq job'[p].met
  <2>1. job'[p] = job[p] /\ job[p].op = "update"
    BY <1>2
  <2>2. job[p].dir \in Dirs
    BY <2>1, JobKinds DEF KeysIInv, Update
  <2> QED
    BY <2>1, <2>2 DEF KeysIInv, KeysInv, Survivors
<1> QED
  BY <1>1, <1>2 DEF KeysInv

(* A directory keeps the keys of its last save, or gets keys of saves that *)
(* overlapped it.                                                          *)
LEMMA KeysStep == KeysIInv /\ [Next]_vars => KeysInv' /\ KeysOfLastSaves'
<1> SUFFICES ASSUME KeysIInv, [Next]_vars PROVE KeysInv' /\ KeysOfLastSaves'
  OBVIOUS
<1>0. /\ TypeOK
      /\ dir \in [Dirs -> Row \cup {None, Gone}]
      /\ job \in [Requests -> {Idle} \cup Move \cup Update \cup Delete]
      /\ Live = {d \in Dirs : dir[d] \in Row}
  BY LiveRows DEF KeysIInv, TypeOK
<1>a. Live' = {d \in Dirs : dir'[d] \in Row}
  <2>1. TypeOK'
    BY <1>0, NextTypeOK
  <2> QED
    BY <2>1, MarksAreNoRows DEF TypeOK, Live
<1>b. ASSUME NEW p \in Requests, NEW what, what.op # "update", Begin(p, what)
      PROVE  KeysInv' /\ KeysOfLastSaves'
  <2>1. Live' = Live /\ dir' = dir /\ saved' = saved
    BY <1>b DEF Begin, Live
  <2>2. \A q \in Requests : job'[q].op = "update" => job'[q] = job[q]
    BY <1>0, <1>b DEF Begin
  <2> QED
    BY <2>1, <2>2, SameKeys
<1>1. ASSUME NEW d \in Dirs, NEW place \in Place, NEW keys \in Grants,
             NEW recursive \in BOOLEAN, Create(d, place, keys, recursive)
      PROVE  KeysInv' /\ KeysOfLastSaves'
  <2>1. dir'[d].keys = keys /\ saved'[d].keys = keys
    BY <1>0, <1>1 DEF Create, NewRow, KeysIInv, TypeOK
  <2>2. \A e \in Dirs \ {d} : dir'[e] = dir[e] /\ saved'[e] = saved[e]
    BY <1>0, <1>1 DEF Create, TypeOK
  <2>3. \A e \in Live' : e # d => e \in Live
    BY <1>0, <1>a, <2>2
  <2>4. KeysOfLastSaves'
    BY <1>a, <2>1, <2>2, <2>3 DEF KeysIInv, KeysOfLastSaves
  <2>5. ASSUME NEW p \in Requests, job'[p].op = "update"
        PROVE  /\ dir'[job'[p].dir] # None
               /\ job'[p].dir \in Live' =>
                     /\ job'[p].gone \subseteq dir'[job'[p].dir].keys
                     /\ Survivors(p)' \subseteq job'[p].met
    <3>1. job' = job
      BY <1>1 DEF Create
    <3>2. job[p].dir \in Dirs
      BY <1>0, <2>5, <3>1, JobKinds DEF Update
    <3>3. dir[job[p].dir] # None
      BY <2>5, <3>1 DEF KeysIInv, KeysInv
    <3>4. job[p].dir # d
      BY <1>1, <3>3 DEF Create
    <3> QED
      BY <2>2, <2>3, <2>5, <3>1, <3>2, <3>3, <3>4 DEF KeysIInv, KeysInv, Survivors
  <2> QED
    BY <2>4, <2>5 DEF KeysInv
<1>2. ASSUME NEW f \in Files, NEW place \in Place, MoveFile(f, place)
      PROVE  KeysInv' /\ KeysOfLastSaves'
  BY <1>2, SameKeys DEF MoveFile, Live
<1>3. ASSUME NEW d \in Dirs, Restore(d) PROVE KeysInv' /\ KeysOfLastSaves'
  <2>1. dir[d] \in Row
    BY <1>0, <1>3 DEF Restore
  <2>2. \A e \in Dirs : dir'[e] = IF e = d THEN [dir[d] EXCEPT !.trashed = FALSE] ELSE dir[e]
    BY <1>0, <1>3 DEF Restore
  <2>3. dir'[d] \in Row /\ dir'[d].keys = dir[d].keys
    BY <2>1, <2>2 DEF Row
  <2>4. Live' \subseteq Live /\ \A e \in Live' : dir'[e].keys = dir[e].keys
    BY <1>0, <1>a, <2>1, <2>2, <2>3
  <2>5. \A e \in Dirs : dir[e] # None => dir'[e] # None
    BY <2>2, <2>3, MarksAreNoRows
  <2> QED
    BY <1>3, <2>4, <2>5, SameKeys DEF Restore
<1>4. ASSUME NEW p \in Requests, NEW dirs \in SUBSET Dirs, NEW place \in Place,
             StartMove(p, dirs, place)
      PROVE  KeysInv' /\ KeysOfLastSaves'
  BY <1>4, <1>b DEF StartMove
<1>5. ASSUME NEW p \in Requests, NEW d \in Dirs, NEW keys \in Grants,
             NEW recursive \in BOOLEAN, StartUpdate(p, d, keys, recursive)
      PROVE  KeysInv' /\ KeysOfLastSaves'
  <2>1. dir' = dir /\ saved' = saved /\ Live' = Live
    BY <1>5 DEF StartUpdate, Begin, Live
  <2>2. KeysOfLastSaves'
    BY <2>1 DEF KeysIInv, KeysOfLastSaves
  <2>3. job'[p].dir = d /\ job'[p].gone = dir[d].keys /\ d \in Live
    BY <1>0, <1>5 DEF StartUpdate, Begin
  <2>4. Survivors(p)' = {}
    BY <2>1, <2>3 DEF Survivors
  <2>5. \A q \in Requests \ {p} : job'[q] = job[q]
    BY <1>0, <1>5 DEF StartUpdate, Begin
  <2>6. dir[d] # None
    BY <2>3 DEF Live
  <2> QED
    BY <2>1, <2>2, <2>3, <2>4, <2>5, <2>6 DEF KeysIInv, KeysInv, Survivors
<1>6. ASSUME NEW p \in Requests, NEW d \in Dirs, StartDelete(p, d) \/ StartPurge(p, d)
      PROVE  KeysInv' /\ KeysOfLastSaves'
  BY <1>6, <1>b DEF StartDelete, StartPurge
<1>7. ASSUME NEW p \in Requests, CommitMove(p) PROVE KeysInv' /\ KeysOfLastSaves'
  <2>1. \A e \in job[p].dirs : dir[e] \in Row
    BY <1>0, <1>7 DEF CommitMove
  <2>2. \A e \in Dirs : dir'[e] = IF e \in job[p].dirs
                                  THEN [dir[e] EXCEPT !.up = job[p].target] ELSE dir[e]
    BY <1>7 DEF CommitMove
  <2>3. \A e \in job[p].dirs : dir[e].keys = [dir[e] EXCEPT !.up = job[p].target].keys
    BY <2>1 DEF Row
  <2>4. job[p] \in Move
    BY <1>0, <1>7, JobKinds DEF CommitMove
  <2>5. \A e \in job[p].dirs : [dir[e] EXCEPT !.up = job[p].target] \in Row
    BY <2>1, <2>4 DEF Row, Move
  <2>6. Live' \subseteq Live /\ \A e \in Live' : dir'[e].keys = dir[e].keys
    BY <1>0, <1>a, <2>1, <2>2, <2>3
  <2>7. \A e \in Dirs : dir[e] # None => dir'[e] # None
    BY <2>2, <2>5, MarksAreNoRows
  <2>8. ASSUME NEW q \in Requests, job'[q].op = "update" PROVE job'[q] = job[q]
    <3>1. CASE q = p
      BY <1>7, <2>8, <3>1 DEF CommitMove, Idle
    <3>2. CASE q # p /\ job[q].op = "move"
      <4>1. job[q] \in Move
        BY <1>0, <3>2, JobKinds
      <4>2. job'[q] = [job[q] EXCEPT !.met = @ \cup job[p].dirs]
        BY <1>7, <3>2 DEF CommitMove
      <4>3. job'[q].op = "move"
        BY <4>1, <4>2 DEF Move
      <4> QED
        BY <2>8, <4>3
    <3>3. CASE q # p /\ job[q].op # "move"
      BY <1>7, <3>3 DEF CommitMove
    <3> QED
      BY <3>1, <3>2, <3>3
  <2> QED
    BY <1>7, <2>6, <2>7, <2>8, SameKeys DEF CommitMove
<1>8. ASSUME NEW p \in Requests, CommitUpdate(p) PROVE KeysInv' /\ KeysOfLastSaves'
  <2> DEFINE d == job[p].dir
  <2>1. job[p] \in Update /\ d \in Live /\ d \in Dirs /\ dir[d] \in Row
    BY <1>0, <1>8, JobKinds DEF CommitUpdate
  <2>2. dir' = [dir EXCEPT ![d].keys = Survivors(p) \cup job[p].keys,
                           ![d].recursive = IF job[p].flips THEN job[p].recursive ELSE @]
    BY <1>8 DEF CommitUpdate
  <2>3. dir'[d].keys = Survivors(p) \cup job[p].keys /\ dir'[d] \in Row
    <3>1. dir'[d] = [dir[d] EXCEPT !.keys = Survivors(p) \cup job[p].keys,
                       !.recursive = IF job[p].flips THEN job[p].recursive ELSE @]
      BY <1>0, <2>1, <2>2
    <3>2. Survivors(p) \subseteq Keys /\ job[p].keys \subseteq Keys
      BY <2>1 DEF Survivors, Row, Update
    <3> QED
      BY <2>1, <3>1, <3>2 DEF Row, Update
  <2>4. \A e \in Dirs \ {d} : dir'[e] = dir[e]
    BY <1>0, <2>2
  <2>5. /\ saved'[d] = [keys |-> job[p].keys, met |-> job[p].met]
        /\ \A e \in Dirs \ {d} : saved'[e] = saved[e]
    BY <1>8, <2>1 DEF CommitUpdate, KeysIInv, TypeOK
  <2>6. /\ job[p].gone \subseteq dir[d].keys
        /\ Survivors(p) \subseteq job[p].met
    BY <1>8, <2>1 DEF KeysIInv, KeysInv, CommitUpdate
  <2>7. Live' = Live
    BY <1>0, <1>a, <2>1, <2>3, <2>4
  <2>8. KeysOfLastSaves'
    BY <1>0, <2>3, <2>4, <2>5, <2>6, <2>7 DEF KeysIInv, KeysOfLastSaves
  <2>9. ASSUME NEW q \in Requests, job'[q].op = "update"
        PROVE  /\ dir'[job'[q].dir] # None
               /\ job'[q].dir \in Live' =>
                     /\ job'[q].gone \subseteq dir'[job'[q].dir].keys
                     /\ Survivors(q)' \subseteq job'[q].met
    <3>1. q # p
      BY <1>8, <2>9 DEF CommitUpdate, Idle
    <3>2. CASE job[q].op = "update" /\ job[q].dir = d
      <4>1. job[q] \in Update
        BY <1>0, <3>2, JobKinds
      <4>2. job'[q] = [job[q] EXCEPT !.gone = @ \ job[p].gone, !.met = @ \cup job[p].keys]
        BY <1>8, <3>1, <3>2 DEF CommitUpdate
      <4>3. /\ job'[q].dir = d
            /\ job'[q].gone = job[q].gone \ job[p].gone
            /\ job'[q].met = job[q].met \cup job[p].keys
        BY <3>2, <4>1, <4>2 DEF Update
      <4>4. /\ job[q].gone \subseteq dir[d].keys
            /\ dir[d].keys \ job[q].gone \subseteq job[q].met
        BY <2>1, <3>2 DEF KeysIInv, KeysInv, Survivors
      <4>5. job'[q].gone \subseteq dir'[d].keys
        BY <2>3, <4>3, <4>4 DEF Survivors
      <4>6. job[p].keys \cap (dir[d].keys \ job[p].gone) = {}
        BY <1>8 DEF CommitUpdate, Survivors
      <4>7. dir'[d].keys \ job'[q].gone \subseteq job'[q].met
        BY <2>3, <4>3, <4>4, <4>6 DEF Survivors
      <4> QED
        BY <2>3, <4>3, <4>5, <4>7, MarksAreNoRows DEF Survivors
    <3>3. CASE ~(job[q].op = "update" /\ job[q].dir = d)
      <4>1. job'[q] = job[q]
        BY <1>8, <3>1, <3>3 DEF CommitUpdate
      <4>2. job[q].dir \in Dirs \ {d}
        BY <1>0, <2>9, <3>3, <4>1, JobKinds DEF Update
      <4> QED
        BY <2>4, <2>7, <2>9, <4>1, <4>2 DEF KeysIInv, KeysInv, Survivors
    <3> QED
      BY <3>2, <3>3
  <2> QED
    BY <2>8, <2>9 DEF KeysInv
<1>9. ASSUME NEW p \in Requests, CommitDelete(p) PROVE KeysInv' /\ KeysOfLastSaves'
  <2> DEFINE d == job[p].dir
  <2>1. d \in Live /\ dir[d] \in Row
    BY <1>0, <1>9 DEF CommitDelete, RowMayGo
  <2>2. \/ dir' = [dir EXCEPT ![d] = Gone]
        \/ dir' = [dir EXCEPT ![d] = [dir[d] EXCEPT !.trashed = TRUE]]
    BY <1>9 DEF CommitDelete
  <2>3. \A e \in Dirs \ {d} : dir'[e] = dir[e]
    BY <1>0, <2>2
  <2>4. \/ dir'[d] = Gone
        \/ dir'[d] \in Row /\ dir'[d].keys = dir[d].keys
    <3>1. [dir[d] EXCEPT !.trashed = TRUE] \in Row
          /\ [dir[d] EXCEPT !.trashed = TRUE].keys = dir[d].keys
      BY <2>1 DEF Row
    <3>2. d \in Dirs /\ DOMAIN dir = Dirs
      BY <1>0, <2>1 DEF Live
    <3>3. dir'[d] = Gone \/ dir'[d] = [dir[d] EXCEPT !.trashed = TRUE]
      BY <2>2, <3>2, Zenon
    <3> QED BY <3>1, <3>3, Zenon
  <2>5. Gone # None
    BY MarksAreNoRows
  <2>6. Live' \subseteq Live /\ \A e \in Live' : dir'[e].keys = dir[e].keys
    BY <1>0, <1>a, <2>1, <2>3, <2>4, MarksAreNoRows
  <2>7. \A e \in Dirs : dir[e] # None => dir'[e] # None
    BY <2>3, <2>4, <2>5, MarksAreNoRows
  <2>8. \A q \in Requests : job'[q].op = "update" => job'[q] = job[q]
    BY <1>0, <1>9 DEF CommitDelete, Idle
  <2> QED
    BY <1>9, <2>6, <2>7, <2>8, SameKeys DEF CommitDelete
<1>10. ASSUME NEW p \in Requests, GiveUp(p) PROVE KeysInv' /\ KeysOfLastSaves'
  <2>1. \A q \in Requests : job'[q].op = "update" => job'[q] = job[q]
    BY <1>0, <1>10 DEF GiveUp, Idle
  <2> QED
    BY <1>10, <2>1, SameKeys DEF GiveUp, Live
<1>11. CASE UNCHANGED vars
  BY <1>11, SameKeys DEF vars, Live
<1> QED
  BY <1>1, <1>2, <1>3, <1>4, <1>5, <1>6, <1>7, <1>8, <1>9, <1>10, <1>11 DEF Next

(* A directory is open to exactly the keys of its last save, and to keys   *)
(* of saves that overlapped that one.                                      *)
THEOREM KeysAreOfLastSaves == Spec => []KeysOfLastSaves
<1>1. Init => KeysIInv
  <2> SUFFICES ASSUME Init PROVE KeysInv /\ KeysOfLastSaves
    BY InitTypeOK DEF KeysIInv
  <2>1. KeysInv
    BY DEF Init, KeysInv, Idle
  <2>2. \A d \in Live : dir[d].keys = {}
    BY DEF Init, Live, NewRow
  <2> QED
    BY <2>1, <2>2 DEF Init, KeysOfLastSaves, NothingSaved, Live
<1>2. KeysIInv /\ [Next]_vars => KeysIInv'
  BY NextTypeOK, KeysStep DEF KeysIInv
<1>3. KeysIInv => KeysOfLastSaves
  BY DEF KeysIInv
<1> QED
  BY <1>1, <1>2, <1>3, PTL DEF Spec

-----------------------------------------------------------------------------
(* Places                                                                  *)

(* Steps after which every directory is as live as before and each place   *)
(* is an old one or live.                                                  *)
LEMMA SamePlaces ==
    ASSUME EverythingHasAPlace,
           Live \subseteq Live',
           \A d \in Live' : dir'[d].up \in Live' \cup {None}
                            \/ (d \in Live /\ dir'[d].up = dir[d].up),
           \A f \in Files : file'[f] \in Live' \cup {None} \/ file'[f] = file[f]
    PROVE  EverythingHasAPlace'
  BY DEF EverythingHasAPlace

(* Whatever is removed, moved or created, the foreign keys keep the places.*)
LEMMA PlacesStep ==
    TypeOK /\ EverythingHasAPlace /\ [Next]_vars => EverythingHasAPlace'
<1> SUFFICES ASSUME TypeOK, EverythingHasAPlace, [Next]_vars PROVE EverythingHasAPlace'
  OBVIOUS
<1>0. /\ dir \in [Dirs -> Row \cup {None, Gone}]
      /\ file \in [Files -> Place]
      /\ Live = {d \in Dirs : dir[d] \in Row}
  BY LiveRows DEF TypeOK
<1>a. Live' = {d \in Dirs : dir'[d] \in Row}
  <2>1. TypeOK'
    BY NextTypeOK
  <2> QED
    BY <2>1, MarksAreNoRows DEF TypeOK, Live
<1>b. dir' = dir /\ file' = file => EverythingHasAPlace'
  BY DEF EverythingHasAPlace, Live
<1>1. ASSUME NEW d \in Dirs, NEW place \in Place, NEW keys \in Grants,
             NEW recursive \in BOOLEAN, Create(d, place, keys, recursive)
      PROVE  EverythingHasAPlace'
  <2>1. NewRow(place, keys, recursive) \in Row
    BY GrantsOfKeys DEF NewRow, Row
  <2>2. dir'[d] = NewRow(place, keys, recursive) /\ \A e \in Dirs \ {d} : dir'[e] = dir[e]
    BY <1>0, <1>1 DEF Create
  <2>3. Live' = Live \cup {d}
    BY <1>0, <1>a, <1>1, <2>1, <2>2 DEF Create
  <2>4. dir'[d].up \in Live \cup {None}
    BY <1>1, <2>2 DEF Create, NewRow
  <2>5. \A e \in Live' : dir'[e].up \in Live' \cup {None}
                         \/ (e \in Live /\ dir'[e].up = dir[e].up)
    <3> SUFFICES ASSUME NEW e \in Live'
                 PROVE  dir'[e].up \in Live' \cup {None} \/ (e \in Live /\ dir'[e].up = dir[e].up)
      OBVIOUS
    <3>1. CASE e = d
      BY <2>3, <2>4, <3>1
    <3>2. CASE e # d
      <4>1. e \in Live /\ e \in Dirs
        BY <1>0, <2>3, <3>2
      <4> QED
        BY <2>2, <3>2, <4>1
    <3> QED
      BY <3>1, <3>2
  <2>6. Live \subseteq Live' /\ file' = file
    BY <1>1, <2>3 DEF Create
  <2> QED
    BY <2>5, <2>6, SamePlaces
<1>2. ASSUME NEW f \in Files, NEW place \in Place, MoveFile(f, place)
      PROVE  EverythingHasAPlace'
  <2>1. Live' = Live
    BY <1>2 DEF MoveFile, Live
  <2>2. \A g \in Files : file'[g] \in Live \cup {None} \/ file'[g] = file[g]
    BY <1>0, <1>2 DEF MoveFile
  <2> QED
    BY <1>2, <2>1, <2>2, SamePlaces DEF MoveFile
<1>3. ASSUME NEW d \in Dirs, Restore(d) PROVE EverythingHasAPlace'
  <2>1. dir[d] \in Row
    BY <1>0, <1>3 DEF Restore
  <2>2. \A e \in Dirs : dir'[e] = IF e = d THEN [dir[d] EXCEPT !.trashed = FALSE] ELSE dir[e]
    BY <1>0, <1>3 DEF Restore
  <2>3. dir'[d] \in Row /\ dir'[d].up = dir[d].up
    BY <2>1, <2>2 DEF Row
  <2>4. Live' = Live
    BY <1>0, <1>a, <2>1, <2>2, <2>3
  <2>5. \A e \in Live : dir'[e].up = dir[e].up
    BY <1>0, <2>2, <2>3
  <2> QED
    BY <1>3, <2>4, <2>5, SamePlaces DEF Restore
<1>4. ASSUME NEW p \in Requests, CommitMove(p) PROVE EverythingHasAPlace'
  <2>1. job[p] \in Move
    BY <1>4, JobKinds DEF CommitMove
  <2>2. \A e \in Dirs : dir'[e] = IF e \in job[p].dirs
                                  THEN [dir[e] EXCEPT !.up = job[p].target] ELSE dir[e]
    BY <1>4 DEF CommitMove
  <2>3. ASSUME NEW e \in job[p].dirs PROVE dir'[e] \in Row /\ dir'[e].up = job[p].target
    <3>1. dir[e] \in Row /\ e \in Dirs
      BY <1>0, <1>4 DEF CommitMove
    <3> QED
      BY <2>1, <2>2, <3>1 DEF Row, Move
  <2>4. Live' = Live
    BY <1>0, <1>a, <1>4, <2>2, <2>3 DEF CommitMove
  <2>5. \A e \in Live : dir'[e].up \in Live \cup {None} \/ dir'[e].up = dir[e].up
    BY <1>0, <1>4, <2>2, <2>3 DEF CommitMove
  <2>6. file' = file
    BY <1>4 DEF CommitMove
  <2>7. \A d \in Live' : dir'[d].up \in Live' \cup {None}
                         \/ (d \in Live /\ dir'[d].up = dir[d].up)
    <3> SUFFICES ASSUME NEW d \in Live'
                 PROVE  dir'[d].up \in Live' \cup {None} \/ (d \in Live /\ dir'[d].up = dir[d].up)
      OBVIOUS
    <3>1. d \in Live
      BY <2>4
    <3>2. dir'[d].up \in Live \cup {None} \/ dir'[d].up = dir[d].up
      BY <2>5, <3>1
    <3> QED
      BY <2>4, <3>1, <3>2
  <2> QED
    BY <2>4, <2>6, <2>7, SamePlaces
<1>5. ASSUME NEW p \in Requests, CommitUpdate(p) PROVE EverythingHasAPlace'
  <2> DEFINE d == job[p].dir
  <2>1. job[p] \in Update /\ d \in Dirs /\ dir[d] \in Row
    BY <1>0, <1>5, JobKinds DEF CommitUpdate
  <2>2. dir' = [dir EXCEPT ![d].keys = Survivors(p) \cup job[p].keys,
                           ![d].recursive = IF job[p].flips THEN job[p].recursive ELSE @]
    BY <1>5 DEF CommitUpdate
  <2>3. dir'[d] \in Row /\ dir'[d].up = dir[d].up
    <3>1. Survivors(p) \subseteq Keys /\ job[p].keys \subseteq Keys
      BY <2>1 DEF Survivors, Row, Update
    <3>2. dir'[d] = [dir[d] EXCEPT !.keys = Survivors(p) \cup job[p].keys,
                       !.recursive = IF job[p].flips THEN job[p].recursive ELSE @]
      BY <1>0, <2>1, <2>2
    <3> QED
      BY <2>1, <3>1, <3>2 DEF Row, Update
  <2>4. \A e \in Dirs \ {d} : dir'[e] = dir[e]
    BY <1>0, <2>2
  <2>5. Live' = Live
    BY <1>0, <1>a, <2>1, <2>3, <2>4
  <2>6. \A e \in Live : dir'[e].up = dir[e].up
    BY <1>0, <2>3, <2>4
  <2> QED
    BY <1>5, <2>5, <2>6, SamePlaces DEF CommitUpdate
<1>6. ASSUME NEW p \in Requests, CommitDelete(p) PROVE EverythingHasAPlace'
  <2> DEFINE d == job[p].dir
  <2>1. CASE job[p].hard
    <3>1. /\ RowMayGo(d)
          /\ dir' = [dir EXCEPT ![d] = Gone]
      BY <1>6, <2>1 DEF CommitDelete
    <3>2. Live' = Live \ {d} /\ \A e \in Live' : dir'[e] = dir[e]
      BY <1>0, <1>a, <3>1, MarksAreNoRows
    <3>3. /\ \A e \in Live : dir[e].up # d
          /\ \A f \in Files : file[f] # d
      BY <3>1 DEF RowMayGo, HasContent
    <3> QED
      BY <1>6, <3>2, <3>3 DEF CommitDelete, EverythingHasAPlace
  <2>2. CASE ~job[p].hard
    <3>1. /\ d \in Dirs /\ dir[d] \in Row
          /\ dir' = [dir EXCEPT ![d] = [dir[d] EXCEPT !.trashed = TRUE]]
      BY <1>0, <1>6, <2>2 DEF CommitDelete
    <3>2. dir'[d] \in Row /\ dir'[d].up = dir[d].up
      BY <1>0, <3>1 DEF Row
    <3>3. \A e \in Dirs \ {d} : dir'[e] = dir[e]
      BY <1>0, <3>1
    <3>4. Live' = Live /\ \A e \in Live : dir'[e].up = dir[e].up
      BY <1>0, <1>a, <3>1, <3>2, <3>3
    <3> QED
      BY <1>6, <3>4, SamePlaces DEF CommitDelete
  <2> QED
    BY <2>1, <2>2
<1>7. ASSUME NEW p \in Requests,
             \/ \E dirs \in SUBSET Dirs, place \in Place : StartMove(p, dirs, place)
             \/ \E d \in Dirs, keys \in Grants, recursive \in BOOLEAN :
                   StartUpdate(p, d, keys, recursive)
             \/ \E d \in Dirs : StartDelete(p, d) \/ StartPurge(p, d)
             \/ GiveUp(p)
      PROVE  EverythingHasAPlace'
  BY <1>7, <1>b DEF StartMove, StartUpdate, StartDelete, StartPurge, GiveUp, Begin
<1>8. CASE UNCHANGED vars
  BY <1>8, <1>b DEF vars
<1> QED
  BY <1>1, <1>2, <1>3, <1>4, <1>5, <1>6, <1>7, <1>8 DEF Next

(* However deletions, purges, moves and creations overlap, no directory    *)
(* and no file is left in a directory that is gone.                        *)
THEOREM PlacesStay == Spec => []EverythingHasAPlace
<1>1. Init => TypeOK /\ EverythingHasAPlace
  BY InitTypeOK DEF Init, EverythingHasAPlace
<1>2. TypeOK /\ EverythingHasAPlace /\ [Next]_vars => (TypeOK /\ EverythingHasAPlace)'
  BY NextTypeOK, PlacesStep
<1> QED
  BY <1>1, <1>2, PTL DEF Spec

-----------------------------------------------------------------------------
(* Walks over the tree. A function defined by recursion over the naturals  *)
(* exists and is what its equations say; what is shown about its values is *)
(* shown by looking for the least number for which it would fail.          *)

(* Some naturals have a least one.                                         *)
LEMMA Least ==
    ASSUME NEW B \in SUBSET Nat, B # {}
    PROVE  \E n \in B : \A m \in B : ~(m < n)
<1> DEFINE C == {0..n : n \in B}
<1>1. C \subseteq FiniteSubsetsOf(Nat) /\ C # {}
  <2>1. \A n \in B : 0..n \in FiniteSubsetsOf(Nat)
    BY FS_Interval DEF FiniteSubsetsOf
  <2> QED
    BY <2>1
<1>2. PICK s \in C : \A t \in C : ~(<<t, s>> \in StrictSubsetOrdering(Nat))
  <2> HIDE DEF C
  <2> QED
    BY <1>1, FS_StrictSubsetOrderingWellFounded, WFMin
<1>3. PICK n \in B : s = 0..n
  OBVIOUS
<1>4. ASSUME NEW m \in B, m < n PROVE FALSE
  <2>1. 0..m \subseteq 0..n /\ n \in 0..n /\ n \notin 0..m
    BY <1>4
  <2>2. <<0..m, 0..n>> \in StrictSubsetOrdering(Nat)
    BY <2>1 DEF StrictSubsetOrdering
  <2> QED
    BY <1>2, <1>3, <2>2
<1> QED
  BY <1>4

(* The first n steps of the iteration of F from s.                         *)
Tower(n, h, S, F, s) ==
    /\ h \in [0..n -> S] /\ h[0] = s
    /\ \A i \in Nat : i < n => h[i + 1] = F[h[i]]

(* Each finite iteration exists ...                                        *)
LEMMA TowersExist ==
    ASSUME NEW S, NEW F \in [S -> S], NEW s \in S
    PROVE  \A n \in Nat : \E h : Tower(n, h, S, F, s)
<1> DEFINE B == {n \in Nat : ~ \E h : Tower(n, h, S, F, s)}
<1>1. SUFFICES ASSUME B # {} PROVE FALSE
  OBVIOUS
<1>2. PICK n \in B : \A m \in B : ~(m < n)
  <2> B \in SUBSET Nat
    OBVIOUS
  <2> HIDE DEF B
  <2> QED
    BY <1>1, Least
<1>3. CASE n = 0
  <2>1. Tower(0, [i \in 0..0 |-> s], S, F, s)
    BY DEF Tower
  <2> QED
    BY <1>3, <2>1
<1>4. CASE n # 0
  <2>1. n - 1 \in Nat /\ n - 1 < n /\ n \in Nat
    BY <1>4
  <2>2. PICK h : Tower(n - 1, h, S, F, s)
    BY <1>2, <2>1
  <2> DEFINE k == [i \in 0..n |-> IF i = n THEN F[h[n - 1]] ELSE h[i]]
  <2>3. \A i \in 0..(n - 1) : h[i] \in S
    BY <2>2 DEF Tower
  <2>4. k \in [0..n -> S]
    <3>1. h[n - 1] \in S
      BY <2>1, <2>3
    <3>2. \A i \in 0..n : i # n => i \in 0..(n - 1)
      BY <2>1
    <3> QED
      BY <2>3, <3>1, <3>2
  <2>5. k[0] = s
    BY <1>4, <2>1, <2>2 DEF Tower
  <2>6. ASSUME NEW i \in Nat, i < n PROVE k[i + 1] = F[k[i]]
    <3>1. i \in 0..n /\ i + 1 \in 0..n /\ i # n /\ k[i] = h[i]
      BY <2>1, <2>6
    <3>2. CASE i = n - 1
      <4>1. i + 1 = n
        BY <3>2, <2>1
      <4> QED
        BY <3>1, <3>2, <4>1
    <3>3. CASE i # n - 1
      <4>1. i < n - 1 /\ i + 1 # n
        BY <3>3, <2>1, <2>6
      <4>2. h[i + 1] = F[h[i]]
        BY <2>2, <4>1 DEF Tower
      <4> QED
        BY <3>1, <4>1, <4>2
    <3> QED
      BY <3>2, <3>3
  <2> HIDE DEF k
  <2>7. Tower(n, k, S, F, s)
    BY <2>4, <2>5, <2>6 DEF Tower
  <2> QED
    BY <2>7
<1> QED
  BY <1>3, <1>4

(* ... two agree as far as both go ...                                     *)
LEMMA TowersAgree ==
    ASSUME NEW S, NEW F \in [S -> S], NEW s \in S,
           NEW m \in Nat, NEW n \in Nat, NEW h, NEW k, Tower(m, h, S, F, s), Tower(n, k, S, F, s),
           NEW i \in Nat, i <= m, i <= n
    PROVE  h[i] = k[i]
<1> DEFINE B == {j \in Nat : j <= m /\ j <= n /\ h[j] # k[j]}
<1>1. SUFFICES ASSUME B # {} PROVE FALSE
  OBVIOUS
<1>2. PICK j \in B : \A l \in B : ~(l < j)
  <2> B \in SUBSET Nat
    OBVIOUS
  <2> HIDE DEF B
  <2> QED
    BY <1>1, Least
<1>3. j # 0
  BY DEF Tower
<1>4. j - 1 \in Nat /\ j - 1 < j /\ j - 1 < m /\ j - 1 < n /\ (j - 1) + 1 = j
  BY <1>3
<1>5. h[j - 1] = k[j - 1]
  BY <1>2, <1>4
<1>6. h[j] = F[h[j - 1]] /\ k[j] = F[k[j - 1]]
  BY <1>4 DEF Tower
<1> QED
  BY <1>5, <1>6

(* All its steps.                                                          *)
Iteration(g, S, F, s) ==
    /\ g \in [Nat -> S] /\ g[0] = s
    /\ \A n \in Nat : g[n + 1] = F[g[n]]

(* ... and so the infinite one exists.                                     *)
LEMMA Iterates ==
    ASSUME NEW S, NEW F \in [S -> S], NEW s \in S
    PROVE  \E g : Iteration(g, S, F, s)
<1> DEFINE H(n) == CHOOSE h : Tower(n, h, S, F, s)
           g == [n \in Nat |-> H(n)[n]]
<1>1. \A n \in Nat : Tower(n, H(n), S, F, s)
  BY TowersExist
<1> HIDE DEF H
<1>2. \A n \in Nat : g[n] \in S
  BY <1>1 DEF Tower
<1>3. g[0] = s
  BY <1>1 DEF Tower
<1>4. ASSUME NEW n \in Nat PROVE g[n + 1] = F[g[n]]
  <2>1. n + 1 \in Nat /\ n <= n + 1 /\ n < n + 1 /\ n <= n
    OBVIOUS
  <2>2. H(n + 1)[n] = H(n)[n]
    BY <1>1, <2>1, TowersAgree
  <2>3. H(n + 1)[n + 1] = F[H(n + 1)[n]]
    BY <1>1, <2>1 DEF Tower
  <2> QED
    BY <2>1, <2>2, <2>3
<1>5. g \in [Nat -> S]
  BY <1>2
<1> HIDE DEF g
<1> QED
  BY <1>3, <1>4, <1>5 DEF Iteration

(* What every state of the system satisfies, as proved above.              *)
TreeOK == TypeOK /\ EverythingHasAPlace

Ups(S) == {dir[e].up : e \in S} \ {None}

(* The walk of Above from d.                                               *)
WalkOf(d, up) ==
    up = [n \in Nat |->
            IF n = 0 THEN {d}
            ELSE LET passed == up[n - 1]
                 IN passed \cup ({dir[e].up : e \in passed} \ {None})]

Walk(d) == CHOOSE up : WalkOf(d, up)

(* A walk from a directory passes directories only.                        *)
LEMMA LiveUps ==
    ASSUME TreeOK
    PROVE  /\ Live \subseteq Dirs /\ None \notin Live
           /\ \A d \in Live : dir[d].up \in Live \cup {None}
  BY MarksAreNoRows DEF TreeOK, EverythingHasAPlace, Live

(* The walk of Above does what it says.                                    *)
LEMMA Walks ==
    ASSUME TreeOK, NEW d \in Live
    PROVE  /\ Walk(d)[0] = {d}
           /\ \A n \in Nat : /\ Walk(d)[n] \in SUBSET Live
                             /\ Walk(d)[n + 1] = Walk(d)[n] \cup Ups(Walk(d)[n])
<1> DEFINE F == [S \in SUBSET Live |-> S \cup Ups(S)]
<1>1. F \in [SUBSET Live -> SUBSET Live]
  BY LiveUps DEF Ups
<1>2. PICK g \in [Nat -> SUBSET Live] : g[0] = {d} /\ \A n \in Nat : g[n + 1] = F[g[n]]
  <2> DEFINE Q == SUBSET Live
             start == {d}
  <2>1. start \in Q /\ F \in [Q -> Q]
    BY <1>1
  <2> HIDE DEF F, Q, start
  <2>2. \E g : Iteration(g, Q, F, start)
    BY <2>1, Iterates
  <2> QED
    BY <2>2 DEF Q, start, Iteration
<1>3. \A n \in Nat : g[n + 1] = g[n] \cup Ups(g[n])
  BY <1>2
<1>4. WalkOf(d, g)
  <2>1. \A n \in Nat : n # 0 => g[n] = g[n - 1] \cup ({dir[e].up : e \in g[n - 1]} \ {None})
    <3> SUFFICES ASSUME NEW n \in Nat, n # 0
                 PROVE  g[n] = g[n - 1] \cup Ups(g[n - 1])
      BY DEF Ups
    <3>1. n - 1 \in Nat /\ (n - 1) + 1 = n
      OBVIOUS
    <3> QED
      BY <1>3, <3>1
  <2> DEFINE w == [n \in Nat |-> IF n = 0 THEN {d}
                     ELSE g[n - 1] \cup ({dir[e].up : e \in g[n - 1]} \ {None})]
  <2>2. \A n \in Nat : g[n] = w[n]
    BY <1>2, <2>1
  <2>3. g = w
    <3> HIDE DEF w
    <3>1. w = [n \in Nat |-> w[n]]
      BY DEF w
    <3>2. g = [n \in Nat |-> g[n]]
      BY <1>2
    <3> QED
      BY <2>2, <3>1, <3>2, Zenon
  <2> QED
    BY <2>3 DEF WalkOf
<1> DEFINE k == Walk(d)
<1>5. WalkOf(d, k)
  BY <1>4 DEF Walk
<1> HIDE DEF k
<1>6. /\ k[0] = {d}
      /\ \A n \in Nat : n # 0 => k[n] = k[n - 1] \cup Ups(k[n - 1])
  BY <1>5 DEF WalkOf, Ups
<1>7. \A n \in Nat : k[n + 1] = k[n] \cup Ups(k[n])
  <2> SUFFICES ASSUME NEW n \in Nat PROVE k[n + 1] = k[n] \cup Ups(k[n])
    OBVIOUS
  <2>1. n + 1 \in Nat /\ n + 1 # 0 /\ (n + 1) - 1 = n
    OBVIOUS
  <2> QED
    BY <1>6, <2>1
<1>8. \A n \in Nat : k[n] = g[n]
  <2> DEFINE B == {n \in Nat : k[n] # g[n]}
  <2>1. SUFFICES ASSUME B # {} PROVE FALSE
    OBVIOUS
  <2>2. PICK n \in B : \A m \in B : ~(m < n)
    <3> B \in SUBSET Nat
      OBVIOUS
    <3> HIDE DEF B
    <3> QED
      BY <2>1, Least
  <2>3. n # 0
    BY <1>2, <1>6
  <2>4. n - 1 \in Nat /\ n - 1 < n /\ (n - 1) + 1 = n
    BY <2>3
  <2>5. k[n - 1] = g[n - 1]
    BY <2>2, <2>4
  <2>6. k[n] = k[n - 1] \cup Ups(k[n - 1]) /\ g[n] = g[n - 1] \cup Ups(g[n - 1])
    BY <1>3, <1>7, <2>4
  <2> QED
    BY <2>5, <2>6
<1>9. \A n \in Nat : k[n] \in SUBSET Live
  BY <1>2, <1>8
<1> QED
  BY <1>6, <1>7, <1>9 DEF k

(* After as many steps as there are directories nothing new is met.        *)
LEMMA WalkEnds ==
    ASSUME TreeOK, NEW d \in Live
    PROVE  /\ Cardinality(Dirs) \in Nat
           /\ Ups(Walk(d)[Cardinality(Dirs)]) \subseteq Walk(d)[Cardinality(Dirs)]
<1> DEFINE N == Cardinality(Dirs)
           w == Walk(d)
<1>1. N \in Nat
  BY FiniteDirs, FS_CardinalityType
<1>2. /\ w[0] = {d}
      /\ \A n \in Nat : w[n] \in SUBSET Live /\ w[n + 1] = w[n] \cup Ups(w[n])
  BY Walks
<1> HIDE DEF N, w
<1>3. \A n \in Nat : IsFiniteSet(w[n]) /\ Cardinality(w[n]) \in Nat /\ Cardinality(w[n]) <= N
  <2> SUFFICES ASSUME NEW n \in Nat
               PROVE  IsFiniteSet(w[n]) /\ Cardinality(w[n]) \in Nat /\ Cardinality(w[n]) <= N
    OBVIOUS
  <2>1. w[n] \in SUBSET Dirs
    BY <1>2, LiveUps
  <2>2. IsFiniteSet(w[n]) /\ Cardinality(w[n]) <= N
    BY <2>1, FiniteDirs, FS_Subset DEF N
  <2> QED
    BY <2>2, FS_CardinalityType
<1>4. \A n \in Nat : Ups(w[n]) \subseteq w[n] \/ n + 1 <= Cardinality(w[n])
  <2> DEFINE B == {n \in Nat : ~(Ups(w[n]) \subseteq w[n] \/ n + 1 <= Cardinality(w[n]))}
  <2>1. SUFFICES ASSUME B # {} PROVE FALSE
    OBVIOUS
  <2>2. PICK n \in B : \A m \in B : ~(m < n)
    <3> B \in SUBSET Nat
      OBVIOUS
    <3> HIDE DEF B
    <3> QED
      BY <2>1, Least
  <2>3. n # 0
    <3>1. Cardinality(w[0]) = 1
      BY <1>2, FS_Singleton
    <3> QED
      BY <3>1
  <2>4. n - 1 \in Nat /\ n - 1 < n /\ (n - 1) + 1 = n /\ n \in Nat
    BY <2>3
  <2> DEFINE v == w[n - 1]
  <2>5. w[n] = v \cup Ups(v)
    BY <1>2, <2>4
  <2>6. Ups(v) \subseteq v \/ n <= Cardinality(v)
    BY <2>2, <2>4
  <2>7. IsFiniteSet(v) /\ Cardinality(v) \in Nat /\ IsFiniteSet(w[n]) /\ Cardinality(w[n]) \in Nat
    BY <1>3, <2>4
  <2>8. ~(Ups(w[n]) \subseteq w[n]) /\ ~(n + 1 <= Cardinality(w[n]))
    OBVIOUS
  <2> HIDE DEF v, B
  <2>9. ~(Ups(v) \subseteq v)
    BY <2>5, <2>8
  <2>10. v \in SUBSET w[n] /\ v # w[n]
    BY <2>5, <2>9
  <2>11. Cardinality(v) <= Cardinality(w[n]) /\ Cardinality(v) # Cardinality(w[n])
    BY <2>7, <2>10, FS_Subset
  <2> QED
    BY <2>4, <2>6, <2>7, <2>8, <2>9, <2>11
<1>5. Ups(w[N]) \subseteq w[N]
  <2>1. Cardinality(w[N]) \in Nat /\ Cardinality(w[N]) <= N
    BY <1>1, <1>3
  <2>2. ~(N + 1 <= Cardinality(w[N]))
    BY <1>1, <2>1
  <2> QED
    BY <1>1, <1>4, <2>2
<1> QED
  BY <1>1, <1>5 DEF N, w

(* Above(d) is the least set that holds the place of d and with a          *)
(* directory the place of that.                                            *)
AboveLaws ==
    \A d \in Live :
        /\ Above(d) \subseteq Live
        /\ dir[d].up # None => dir[d].up \in Above(d)
        /\ \A e \in Above(d) : dir[e].up # None => dir[e].up \in Above(d)
        /\ \A T \in SUBSET Live :
              /\ dir[d].up # None => dir[d].up \in T
              /\ \A e \in T : dir[e].up # None => dir[e].up \in T
              => Above(d) \subseteq T

(* A walk has always passed where it began.                                *)
LEMMA WalkStarts == ASSUME TreeOK, NEW d \in Live PROVE \A n \in Nat : d \in Walk(d)[n]
<1> DEFINE w == Walk(d)
<1>1. w[0] = {d} /\ \A n \in Nat : w[n + 1] = w[n] \cup Ups(w[n])
  BY Walks
<1> HIDE DEF w
<1> DEFINE B == {n \in Nat : d \notin w[n]}
<1>2. SUFFICES ASSUME B # {} PROVE FALSE
  BY DEF w
<1>3. PICK n \in B : \A m \in B : ~(m < n)
  <2> B \in SUBSET Nat
    OBVIOUS
  <2> HIDE DEF B
  <2> QED
    BY <1>2, Least
<1>4. n # 0
  BY <1>1
<1>5. n - 1 \in Nat /\ n - 1 < n /\ (n - 1) + 1 = n
  BY <1>4
<1>6. d \in w[n - 1] /\ w[n] = w[n - 1] \cup Ups(w[n - 1])
  BY <1>1, <1>3, <1>5
<1> QED
  BY <1>6

(* What a walk meets lies in every set that is closed under going up.      *)
LEMMA WalkWithin ==
    ASSUME TreeOK, NEW d \in Live, NEW T \in SUBSET Live, d \in T,
           \A e \in T : dir[e].up # None => dir[e].up \in T
    PROVE  \A n \in Nat : Walk(d)[n] \subseteq T
<1> DEFINE w == Walk(d)
<1>1. w[0] = {d} /\ \A n \in Nat : w[n + 1] = w[n] \cup Ups(w[n])
  BY Walks
<1> HIDE DEF w
<1> DEFINE B == {n \in Nat : ~(w[n] \subseteq T)}
<1>2. SUFFICES ASSUME B # {} PROVE FALSE
  BY DEF w
<1>3. PICK n \in B : \A m \in B : ~(m < n)
  <2> B \in SUBSET Nat
    OBVIOUS
  <2> HIDE DEF B
  <2> QED
    BY <1>2, Least
<1>4. n # 0
  BY <1>1
<1>5. n - 1 \in Nat /\ n - 1 < n /\ (n - 1) + 1 = n
  BY <1>4
<1>6. w[n - 1] \subseteq T /\ w[n] = w[n - 1] \cup Ups(w[n - 1])
  BY <1>1, <1>3, <1>5
<1>7. Ups(w[n - 1]) \subseteq T
  BY <1>6 DEF Ups
<1> QED
  BY <1>6, <1>7

(* So Above is what it is meant to be: the pigeonhole ends the walk, and   *)
(* it meets d itself again only if d lies below itself.                    *)
LEMMA AboveIsLeast == TreeOK => AboveLaws
<1> SUFFICES ASSUME TreeOK, NEW d \in Live
             PROVE  /\ Above(d) \subseteq Live
                    /\ dir[d].up # None => dir[d].up \in Above(d)
                    /\ \A e \in Above(d) : dir[e].up # None => dir[e].up \in Above(d)
                    /\ \A T \in SUBSET Live :
                          /\ dir[d].up # None => dir[d].up \in T
                          /\ \A e \in T : dir[e].up # None => dir[e].up \in T
                          => Above(d) \subseteq T
  BY DEF AboveLaws
<1> DEFINE R == Walk(d)[Cardinality(Dirs)]
<1>1. Above(d) = {e \in R : e # d \/ \E b \in R : dir[b].up = d}
  BY DEF Above, Walk, WalkOf
<1>2. R \subseteq Live /\ Ups(R) \subseteq R
  BY WalkEnds, Walks
<1>3. d \in R
  BY WalkStarts, WalkEnds
<1>4. \A e \in R : dir[e].up # None => dir[e].up \in Above(d)
  <2> SUFFICES ASSUME NEW e \in R, dir[e].up # None PROVE dir[e].up \in Above(d)
    OBVIOUS
  <2>1. dir[e].up \in R
    BY <1>2 DEF Ups
  <2> QED
    BY <1>1, <2>1
<1>5. ASSUME NEW T \in SUBSET Live,
             dir[d].up # None => dir[d].up \in T,
             \A e \in T : dir[e].up # None => dir[e].up \in T
      PROVE  Above(d) \subseteq T
  <2> DEFINE U == T \cup {d}
  <2>1. U \in SUBSET Live /\ d \in U /\ \A e \in U : dir[e].up # None => dir[e].up \in U
    BY <1>5
  <2> HIDE DEF U
  <2>2. R \subseteq U
    BY <2>1, WalkWithin, WalkEnds
  <2>3. R \subseteq T \cup {d}
    BY <2>2 DEF U
  <2>4. ASSUME d \in Above(d) PROVE d \in T
    <3>1. PICK b \in R : dir[b].up = d
      BY <1>1, <2>4
    <3>2. d # None
      BY LiveUps
    <3> QED
      BY <1>5, <2>3, <3>1, <3>2
  <2> QED
    BY <1>1, <2>3, <2>4
<1> QED
  BY <1>1, <1>2, <1>3, <1>4, <1>5

(* Nothing above d is anything but its place and what is above that.       *)
LEMMA AboveStep ==
    ASSUME TreeOK, AboveLaws, NEW d \in Live
    PROVE  /\ dir[d].up = None => Above(d) = {}
           /\ dir[d].up # None => Above(d) = {dir[d].up} \cup Above(dir[d].up)
           /\ \A e \in Above(d) : Above(e) \subseteq Above(d)
<1>1. ASSUME dir[d].up = None PROVE Above(d) = {}
  <2>1. {} \in SUBSET Live
    OBVIOUS
  <2> QED
    BY <1>1, <2>1 DEF AboveLaws
<1>2. ASSUME NEW e \in Above(d) PROVE Above(e) \subseteq Above(d)
  <2>1. e \in Live /\ Above(d) \in SUBSET Live
    BY DEF AboveLaws
  <2> QED
    BY <2>1 DEF AboveLaws
<1>3. ASSUME dir[d].up # None PROVE Above(d) = {dir[d].up} \cup Above(dir[d].up)
  <2> DEFINE u == dir[d].up
             T == {u} \cup Above(u)
  <2>1. u \in Live /\ u \in Above(d)
    BY <1>3, LiveUps DEF AboveLaws
  <2>2. T \subseteq Above(d)
    BY <1>2, <2>1
  <2>3. T \in SUBSET Live /\ \A e \in T : dir[e].up # None => dir[e].up \in T
    BY <2>1 DEF AboveLaws
  <2>4. u \in T
    OBVIOUS
  <2> HIDE DEF T
  <2>5. Above(d) \subseteq T
    BY <2>3, <2>4 DEF AboveLaws
  <2> QED
    BY <2>2, <2>5 DEF T
<1> QED
  BY <1>1, <1>2, <1>3

(* Listing, opening, searching and reading agree: the trash of a directory *)
(* is the trash of its place, and one of its own.                          *)
LEMMA PathsAgree == TreeOK /\ AboveLaws => ReadPathsAgree
<1> SUFFICES ASSUME TreeOK, AboveLaws, NEW k \in Keys
             PROVE  LET open  == {d \in Live : Ends(d) /\ Opens(k, d)}
                        sound == {d \in Live : Ends(d)}
                        read  == {f \in Files : file[f] # None => file[f] \in sound}
                    IN /\ \A place \in open \cup {None} :
                            Listed(k, place) \cap sound \subseteq open
                       /\ FoundDirs(k) \cap sound = open
                       /\ \A d \in open : ListedFiles(k, d) \subseteq {f \in read : Reads(k, f)}
                       /\ FoundFiles(k) \cap read = {f \in read : Reads(k, f)}
  BY DEF ReadPathsAgree
<1> DEFINE open  == {d \in Live : Ends(d) /\ Opens(k, d)}
           sound == {d \in Live : Ends(d)}
           read  == {f \in Files : file[f] # None => file[f] \in sound}
<1>1. ASSUME NEW place \in open \cup {None}, NEW d \in Listed(k, place) \cap sound
      PROVE  d \in open
  <2>1. d \in Live /\ dir[d].up = place /\ ~dir[d].trashed /\ Insight(k, d) /\ Ends(d)
    BY DEF Listed
  <2>2. ~InTrash(d)
    <3>1. CASE place = None
      <4>1. Above(d) = {}
        BY <2>1, <3>1, AboveStep
      <4> QED
        BY <2>1, <4>1 DEF InTrash
    <3>2. CASE place # None
      <4>1. Above(d) = {place} \cup Above(place)
        BY <2>1, <3>2, AboveStep
      <4>2. ~InTrash(place)
        BY <3>2 DEF Opens
      <4> QED
        BY <2>1, <4>1, <4>2 DEF InTrash
    <3> QED
      BY <3>1, <3>2
  <2> QED
    BY <2>1, <2>2 DEF Opens
<1>2. FoundDirs(k) \cap sound = open
  <2>1. \A d \in Live : ~InTrash(d) => ~dir[d].trashed
    BY DEF InTrash
  <2> QED
    BY <2>1 DEF FoundDirs, Opens
<1>3. ASSUME NEW d \in open PROVE ListedFiles(k, d) \subseteq {f \in read : Reads(k, f)}
  <2>1. d # None
    BY LiveUps
  <2> QED
    BY <2>1 DEF ListedFiles, Reads, Opens
<1>4. FoundFiles(k) \cap read = {f \in read : Reads(k, f)}
  BY DEF FoundFiles, Reads
<1> QED
  BY <1>1, <1>2, <1>3, <1>4

(* In every reachable state the ways to a directory or a file agree, for   *)
(* every tree and every set of permissions.                                *)
THEOREM PathsAlwaysAgree == Spec => []ReadPathsAgree
<1>1. TypeOK /\ EverythingHasAPlace => ReadPathsAgree
  BY AboveIsLeast, PathsAgree DEF TreeOK
<1> QED
  BY <1>1, TypeCorrect, PlacesStay, PTL

-----------------------------------------------------------------------------
(* Inherited permissions                                                   *)

(* What a directory gives to those below it.                               *)
Gives(e) == IF dir[e].recursive THEN dir[e].keys ELSE {}

(* The recursion of Inherited.                                             *)
InheritedBy(inherited) ==
    inherited = [n \in Nat |-> [e \in Live |->
                   IF n = 0 \/ dir[e].up = None THEN {}
                   ELSE (IF dir[dir[e].up].recursive THEN dir[dir[e].up].keys ELSE {})
                        \cup inherited[n - 1][dir[e].up]]]

(* What n steps of it give.                                                *)
Steps == CHOOSE inherited : InheritedBy(inherited)

(* It asks one directory after the other.                                  *)
LEMMA InheritedStepwise ==
    ASSUME TreeOK
    PROVE  \A e \in Live :
             /\ Steps[0][e] = {}
             /\ \A n \in Nat :
                  Steps[n + 1][e] = IF dir[e].up = None THEN {}
                                    ELSE Gives(dir[e].up) \cup Steps[n][dir[e].up]
<1> DEFINE S == [Live -> SUBSET Keys]
           F == [v \in S |-> [e \in Live |-> IF dir[e].up = None THEN {}
                                             ELSE Gives(dir[e].up) \cup v[dir[e].up]]]
           start == [e \in Live |-> {}]
<1>0. \A e \in Live : Gives(e) \subseteq Keys
  BY LiveRows DEF TreeOK, Row, Gives
<1>1. start \in S /\ F \in [S -> S]
  BY <1>0, LiveUps
<1>2. PICK h : Iteration(h, S, F, start)
  <2> HIDE DEF S, F, start
  <2> QED
    BY <1>1, Iterates
<1>3. /\ h \in [Nat -> [Live -> SUBSET Keys]]
      /\ h[0] = start
      /\ \A n \in Nat : h[n + 1] = F[h[n]]
  BY <1>2 DEF Iteration
<1>4. ASSUME NEW n \in Nat
      PROVE  h[n] = [e \in Live |->
                       IF n = 0 \/ dir[e].up = None THEN {}
                       ELSE (IF dir[dir[e].up].recursive THEN dir[dir[e].up].keys ELSE {})
                            \cup h[n - 1][dir[e].up]]
  <2>1. CASE n = 0
    BY <1>3, <2>1
  <2>2. CASE n # 0
    <3>1. n - 1 \in Nat /\ (n - 1) + 1 = n
      BY <2>2
    <3>2. h[n] = F[h[n - 1]] /\ h[n - 1] \in S
      BY <1>3, <3>1
    <3>3. h[n] = [e \in Live |-> IF dir[e].up = None THEN {}
                                 ELSE Gives(dir[e].up) \cup h[n - 1][dir[e].up]]
      BY <3>2
    <3> QED
      BY <2>2, <3>3 DEF Gives
  <2> QED
    BY <2>1, <2>2
<1> HIDE DEF S, F, start
<1> DEFINE g == [n \in Nat |-> [e \in Live |->
                   IF n = 0 \/ dir[e].up = None THEN {}
                   ELSE (IF dir[dir[e].up].recursive THEN dir[dir[e].up].keys ELSE {})
                        \cup h[n - 1][dir[e].up]]]
<1>5. \A n \in Nat : g[n] = h[n]
  BY <1>4
<1>6. InheritedBy(h)
  <2>1. g = [n \in Nat |-> g[n]] /\ h = [n \in Nat |-> h[n]]
    BY <1>3
  <2> HIDE DEF g
  <2>2. h = g
    BY <1>5, <2>1, Zenon
  <2> QED
    BY <2>2 DEF InheritedBy, g
<1>7. InheritedBy(Steps)
  BY <1>6 DEF Steps
<1> QED
  <2> SUFFICES ASSUME NEW e \in Live
               PROVE  /\ Steps[0][e] = {}
                      /\ \A n \in Nat :
                           Steps[n + 1][e] = IF dir[e].up = None THEN {}
                                             ELSE Gives(dir[e].up) \cup Steps[n][dir[e].up]
    OBVIOUS
  <2>1. \A n \in Nat : Steps[n][e] =
                   IF n = 0 \/ dir[e].up = None THEN {}
                   ELSE (IF dir[dir[e].up].recursive THEN dir[dir[e].up].keys ELSE {})
                        \cup Steps[n - 1][dir[e].up]
    <3> SUFFICES ASSUME NEW n \in Nat
                 PROVE  Steps[n][e] =
                          IF n = 0 \/ dir[e].up = None THEN {}
                          ELSE (IF dir[dir[e].up].recursive THEN dir[dir[e].up].keys ELSE {})
                               \cup Steps[n - 1][dir[e].up]
      OBVIOUS
    <3>1. Steps[n] = [b \in Live |->
                   IF n = 0 \/ dir[b].up = None THEN {}
                   ELSE (IF dir[dir[b].up].recursive THEN dir[dir[b].up].keys ELSE {})
                        \cup Steps[n - 1][dir[b].up]]
      BY <1>7, Zenon DEF InheritedBy
    <3> QED
      BY <3>1, Zenon
  <2>2. Steps[0][e] = {}
    BY <2>1
  <2>3. ASSUME NEW n \in Nat
        PROVE  Steps[n + 1][e] = IF dir[e].up = None THEN {}
                                 ELSE Gives(dir[e].up) \cup Steps[n][dir[e].up]
    <3>1. n + 1 \in Nat /\ n + 1 # 0 /\ (n + 1) - 1 = n
      OBVIOUS
    <3> QED
      BY <2>1, <3>1 DEF Gives
  <2> QED
    BY <2>2, <2>3

(* A walk from e goes on as the walk from the place of e.                  *)
LEMMA WalkGoesOn ==
    ASSUME TreeOK, NEW e \in Live, dir[e].up # None
    PROVE  \A n \in Nat : Walk(e)[n + 1] \subseteq {e} \cup Walk(dir[e].up)[n]
<1> DEFINE u == dir[e].up
           v == Walk(e)
           w == Walk(u)
<1>1. u \in Live /\ u # None
  BY LiveUps
<1>2. /\ v[0] = {e} /\ \A n \in Nat : v[n + 1] = v[n] \cup Ups(v[n])
      /\ w[0] = {u} /\ \A n \in Nat : w[n + 1] = w[n] \cup Ups(w[n])
      /\ \A n \in Nat : u \in w[n]
  BY <1>1, Walks, WalkStarts
<1> HIDE DEF v, w
<1> DEFINE B == {n \in Nat : ~(v[n + 1] \subseteq {e} \cup w[n])}
<1>3. SUFFICES ASSUME B # {} PROVE FALSE
  BY DEF v, w
<1>4. PICK n \in B : \A m \in B : ~(m < n)
  <2> B \in SUBSET Nat
    OBVIOUS
  <2> HIDE DEF B
  <2> QED
    BY <1>3, Least
<1>5. CASE n = 0
  <2>1. v[n + 1] = v[n] \cup Ups(v[n]) /\ v[n] = {e} /\ u \in w[n]
    BY <1>2, <1>5
  <2>2. Ups({e}) \subseteq {u}
    BY DEF Ups
  <2>3. v[n + 1] \subseteq {e} \cup w[n]
    BY <2>1, <2>2
  <2> QED
    BY <2>3
<1>6. CASE n # 0
  <2>1. n - 1 \in Nat /\ n - 1 < n /\ (n - 1) + 1 = n /\ n \in Nat
    BY <1>6
  <2>2. v[n] \subseteq {e} \cup w[n - 1]
    BY <1>4, <2>1
  <2>3. v[n + 1] = v[n] \cup Ups(v[n]) /\ w[n] = w[n - 1] \cup Ups(w[n - 1]) /\ u \in w[n]
    BY <1>2, <2>1
  <2>4. Ups(v[n]) \subseteq {u} \cup Ups(w[n - 1])
    BY <2>2 DEF Ups
  <2>5. v[n + 1] \subseteq {e} \cup w[n]
    BY <2>2, <2>3, <2>4
  <2> QED
    BY <2>5
<1> QED
  BY <1>5, <1>6

(* Whatever a walk meets gives what it gives ...                           *)
LEMMA StepsGiveAll ==
    ASSUME TreeOK
    PROVE  \A n \in Nat : \A e \in Live : \A x \in Walk(e)[n] :
              x # e => Gives(x) \subseteq Steps[n][e]
<1> DEFINE P(n) == \A e \in Live : \A x \in Walk(e)[n] : x # e => Gives(x) \subseteq Steps[n][e]
           B == {n \in Nat : ~P(n)}
<1>1. SUFFICES ASSUME B # {} PROVE FALSE
  OBVIOUS
<1>2. PICK n \in B : \A m \in B : ~(m < n)
  <2> B \in SUBSET Nat
    OBVIOUS
  <2> HIDE DEF B
  <2> QED
    BY <1>1, Least
<1>a. PICK e \in Live : \E x \in Walk(e)[n] : x # e /\ ~(Gives(x) \subseteq Steps[n][e])
  OBVIOUS
<1>3. PICK x \in Walk(e)[n] : x # e /\ ~(Gives(x) \subseteq Steps[n][e])
  BY <1>a
<1>4. n # 0
  <2>1. Walk(e)[0] = {e}
    BY Walks
  <2> QED
    BY <1>3, <2>1
<1>5. n - 1 \in Nat /\ n - 1 < n /\ (n - 1) + 1 = n /\ n \in Nat
  BY <1>4
<1>6. dir[e].up # None
  <2> SUFFICES ASSUME dir[e].up = None PROVE FALSE
    OBVIOUS
  <2>1. {e} \in SUBSET Live /\ e \in {e} /\ \A d \in {e} : dir[d].up # None => dir[d].up \in {e}
    OBVIOUS
  <2>2. Walk(e)[n] \subseteq {e}
    BY <1>5, <2>1, WalkWithin
  <2> QED
    BY <1>3, <2>2
<1> DEFINE u == dir[e].up
<1>7. u \in Live
  BY <1>6, LiveUps
<1>8. x \in Walk(u)[n - 1]
  <2>1. Walk(e)[(n - 1) + 1] \subseteq {e} \cup Walk(u)[n - 1]
    BY <1>5, <1>6, WalkGoesOn
  <2> QED
    BY <1>3, <1>5, <2>1
<1>9. Steps[n][e] = Gives(u) \cup Steps[n - 1][u]
  <2>1. Steps[(n - 1) + 1][e] = Gives(u) \cup Steps[n - 1][u]
    BY <1>5, <1>6, InheritedStepwise
  <2> QED
    BY <1>5, <2>1
<1>10. x # u => Gives(x) \subseteq Steps[n - 1][u]
  <2>1. P(n - 1)
    BY <1>2, <1>5
  <2> QED
    BY <1>7, <1>8, <2>1
<1> QED
  BY <1>3, <1>9, <1>10

(* ... and nothing else does.                                              *)
LEMMA StepsGiveNoMore ==
    ASSUME TreeOK, AboveLaws
    PROVE  \A n \in Nat : \A e \in Live : \A k \in Steps[n][e] :
              \E x \in Above(e) : k \in Gives(x)
<1> DEFINE P(n) == \A e \in Live : \A k \in Steps[n][e] : \E x \in Above(e) : k \in Gives(x)
           B == {n \in Nat : ~P(n)}
<1>1. SUFFICES ASSUME B # {} PROVE FALSE
  OBVIOUS
<1>2. PICK n \in B : \A m \in B : ~(m < n)
  <2> B \in SUBSET Nat
    OBVIOUS
  <2> HIDE DEF B
  <2> QED
    BY <1>1, Least
<1>a. PICK e \in Live : \E k \in Steps[n][e] : ~ \E x \in Above(e) : k \in Gives(x)
  OBVIOUS
<1>3. PICK k \in Steps[n][e] : ~ \E x \in Above(e) : k \in Gives(x)
  BY <1>a
<1>4. n # 0
  BY <1>3, InheritedStepwise
<1>5. n - 1 \in Nat /\ n - 1 < n /\ (n - 1) + 1 = n /\ n \in Nat
  BY <1>4
<1> DEFINE u == dir[e].up
<1>6. Steps[n][e] = IF u = None THEN {} ELSE Gives(u) \cup Steps[n - 1][u]
  <2>1. Steps[(n - 1) + 1][e] = IF u = None THEN {} ELSE Gives(u) \cup Steps[n - 1][u]
    BY <1>5, InheritedStepwise
  <2> QED
    BY <1>5, <2>1
<1>7. u # None /\ (k \in Gives(u) \/ k \in Steps[n - 1][u])
  BY <1>3, <1>6
<1>8. u \in Live /\ Above(e) = {u} \cup Above(u)
  BY <1>7, LiveUps, AboveStep
<1>9. k \in Steps[n - 1][u] => \E x \in Above(u) : k \in Gives(x)
  <2>1. P(n - 1)
    BY <1>2, <1>5
  <2> QED
    BY <1>8, <2>1
<1> QED
  BY <1>3, <1>7, <1>8, <1>9

(* A directory that does not lie below itself inherits from all above it.  *)
LEMMA InheritsFromAll == TreeOK /\ AboveLaws => InheritsAcrossGaps
<1> SUFFICES ASSUME TreeOK, AboveLaws, NEW d \in Live, Ends(d)
             PROVE  Effective(d) = dir[d].keys \cup
                       UNION {dir[e].keys : e \in {e \in Above(d) : dir[e].recursive}}
  BY DEF InheritsAcrossGaps
<1> DEFINE N == Cardinality(Dirs)
<1>1. Inherited(d) = Steps[N][d]
  BY DEF Inherited, Steps, InheritedBy
<1>2. d \notin Above(d)
  BY DEF Ends
<1>3. N \in Nat
  BY WalkEnds
<1>4. Above(d) \subseteq Walk(d)[N]
  BY DEF Above, Walk, WalkOf
<1>5. \A x \in Above(d) : Gives(x) \subseteq Steps[N][d]
  <2> SUFFICES ASSUME NEW x \in Above(d) PROVE Gives(x) \subseteq Steps[N][d]
    OBVIOUS
  <2>1. x \in Walk(d)[N] /\ x # d
    BY <1>2, <1>4
  <2> HIDE DEF N
  <2> QED
    BY <1>3, <2>1, StepsGiveAll
<1>6. \A k \in Steps[N][d] : \E x \in Above(d) : k \in Gives(x)
  <2> HIDE DEF N
  <2> QED
    BY <1>3, StepsGiveNoMore
<1>7. Steps[N][d] = UNION {dir[e].keys : e \in {e \in Above(d) : dir[e].recursive}}
  <2> HIDE DEF N
  <2> QED
    BY <1>5, <1>6 DEF Gives
<1> QED
  BY <1>1, <1>7 DEF Effective

(* In every reachable state what _inherited_permissions gathers are the    *)
(* keys of all recursive directories above, however deep the tree is.      *)
THEOREM InheritanceReachesDown == Spec => []InheritsAcrossGaps
<1>1. TypeOK /\ EverythingHasAPlace => InheritsAcrossGaps
  BY AboveIsLeast, InheritsFromAll DEF TreeOK
<1> QED
  BY <1>1, TypeCorrect, PlacesStay, PTL

-----------------------------------------------------------------------------
(* Cycles                                                                  *)

(* A directory below itself lies below everything that lies above it.      *)
CycleLaws ==
    \A d \in Live : d \in Above(d) => \A y \in Above(d) : Above(y) = Above(d)

(* A way that comes back to d comes back from everywhere on it.            *)
LEMMA CyclesClose == TreeOK /\ AboveLaws => CycleLaws
<1> SUFFICES ASSUME TreeOK, AboveLaws, NEW d \in Live, d \in Above(d), NEW y \in Above(d)
             PROVE  Above(y) = Above(d)
  BY DEF CycleLaws
<1> DEFINE W == {x \in Above(d) : d \in Above(x)}
<1>1. Above(d) \subseteq Live
  BY DEF AboveLaws
<1>2. ASSUME NEW x \in Above(d), d \in Above(x) PROVE dir[x].up # None /\ dir[x].up \in W
  <2>1. x \in Live
    BY <1>1
  <2>2. dir[x].up # None
    BY <1>2, <2>1, AboveStep
  <2>3. Above(x) = {dir[x].up} \cup Above(dir[x].up)
    BY <2>1, <2>2, AboveStep
  <2>4. dir[x].up \in Above(d)
    BY <1>2, <2>2 DEF AboveLaws
  <2>5. d \in Above(dir[x].up)
    BY <1>2, <2>3
  <2> QED
    BY <2>2, <2>4, <2>5
<1>3. W \in SUBSET Live /\ dir[d].up \in W
  BY <1>1, <1>2
<1>4. \A x \in W : dir[x].up \in W
  BY <1>2
<1> HIDE DEF W
<1>5. Above(d) \subseteq W
  BY <1>3, <1>4 DEF AboveLaws
<1>6. d \in Above(y)
  BY <1>5 DEF W
<1>7. Above(y) \subseteq Above(d)
  BY AboveStep
<1>8. Above(d) \subseteq Above(y)
  BY <1>1, <1>6, AboveStep
<1> QED
  BY <1>7, <1>8

(* Where a step changes no place, it changes nothing about what is above.  *)
LEMMA SameAbove ==
    ASSUME AboveLaws, AboveLaws', NEW S, S \subseteq Live, S \subseteq Live',
           \A x \in S : dir'[x].up = dir[x].up /\ dir[x].up \in S \cup {None}
    PROVE  \A e \in S : Above(e)' = Above(e) /\ Above(e) \subseteq S
<1> SUFFICES ASSUME NEW e \in S PROVE Above(e)' = Above(e) /\ Above(e) \subseteq S
  OBVIOUS
<1>1. e \in Live /\ e \in Live' /\ S \in SUBSET Live /\ S \in SUBSET (Live')
  OBVIOUS
<1>2. Above(e) \subseteq S
  BY <1>1 DEF AboveLaws
<1>3. Above(e)' \subseteq S
  BY <1>1 DEF AboveLaws
<1>4. Above(e)' \subseteq Above(e)
  <2>1. Above(e) \in SUBSET (Live')
    BY <1>1, <1>2
  <2>2. /\ dir'[e].up # None => dir'[e].up \in Above(e)
        /\ \A x \in Above(e) : dir'[x].up # None => dir'[x].up \in Above(e)
    BY <1>1, <1>2 DEF AboveLaws
  <2> QED
    BY <1>1, <2>1, <2>2 DEF AboveLaws
<1>5. Above(e) \subseteq Above(e)'
  <2> DEFINE T == Above(e)'
  <2>1. T \in SUBSET Live
    BY <1>1, <1>3
  <2>2. /\ dir[e].up # None => dir[e].up \in T
        /\ \A x \in T : dir[x].up # None => dir[x].up \in T
    BY <1>1, <1>3 DEF AboveLaws
  <2> HIDE DEF T
  <2>3. Above(e) \subseteq T
    BY <1>1, <2>1, <2>2 DEF AboveLaws
  <2> QED
    BY <2>3 DEF T
<1> QED
  BY <1>2, <1>4, <1>5

(* The cycles there were have been accounted for.                          *)
LEMMA SameCycles ==
    ASSUME CyclesOnlyByOverlap, AboveLaws, AboveLaws', crossed \subseteq crossed',
           NEW S, S \subseteq Live, S \subseteq Live',
           \A x \in S : dir'[x].up = dir[x].up /\ dir[x].up \in S \cup {None},
           NEW d \in S, d \in Above(d)'
    PROVE  \E e, m \in Above(d)' : e \in Above(e)' /\ m \in Above(m)' /\ {e, m} \in crossed'
<1>1. \A e \in S : Above(e)' = Above(e) /\ Above(e) \subseteq S
  BY SameAbove
<1>2. d \in Live /\ d \in Above(d)
  BY <1>1
<1>3. PICK e \in Above(d), m \in Above(d) :
        e \in Above(e) /\ m \in Above(m) /\ {e, m} \in crossed
  BY <1>2 DEF CyclesOnlyByOverlap
<1>4. e \in S /\ m \in S
  BY <1>1, <1>3
<1>5. e \in Above(d)' /\ m \in Above(d)' /\ e \in Above(e)' /\ m \in Above(m)'
  BY <1>1, <1>3, <1>4
<1> QED
  BY <1>3, <1>5

(* T was passed on the way up from the target of p when p was checked:     *)
(* none of the directories to be moved is in it, and the way through it is *)
(* as it was but for the directories p has since met.                      *)
Passed(T, p) ==
    /\ job[p].target \in T /\ T \cap job[p].dirs = {}
    /\ \A x \in T : dir[x] # None
    /\ \A x \in T \ job[p].met : x \in Live => dir[x].up \in T \cup {None}

MoveInv ==
    \A p \in Requests : job[p].op = "move" /\ job[p].target # None =>
        \E T \in SUBSET Dirs : Passed(T, p)

CycleIInv == MoveInv /\ CyclesOnlyByOverlap

(* Steps that move no directory.                                           *)
Calm ==
    /\ Live' \subseteq Live
    /\ \A x \in Live' : dir'[x].up = dir[x].up
    /\ \A x \in Dirs : dir[x] # None => dir'[x] # None
    /\ \A p \in Requests : job'[p].op = "move" => job'[p] = job[p]
    /\ crossed' = crossed

(* All steps but a creation and the two ends of a move are such.           *)
LEMMA CalmSteps ==
    ASSUME TypeOK, [Next]_vars
    PROVE  \/ Calm
           \/ \E d \in Dirs, place \in Place, keys \in Grants, recursive \in BOOLEAN :
                 Create(d, place, keys, recursive)
           \/ \E p \in Requests, dirs \in SUBSET Dirs, place \in Place : StartMove(p, dirs, place)
           \/ \E p \in Requests : CommitMove(p)
<1>0. /\ dir \in [Dirs -> Row \cup {None, Gone}]
      /\ job \in [Requests -> {Idle} \cup Move \cup Update \cup Delete]
      /\ Live = {d \in Dirs : dir[d] \in Row}
  BY LiveRows DEF TypeOK
<1>a. Live' = {d \in Dirs : dir'[d] \in Row}
  <2>1. TypeOK'
    BY NextTypeOK
  <2> QED
    BY <2>1, MarksAreNoRows DEF TypeOK, Live
<1>b. ASSUME NEW p \in Requests, NEW what, what.op # "move", Begin(p, what) PROVE Calm
  <2>1. dir' = dir /\ crossed' = crossed
    BY <1>b DEF Begin
  <2>2. \A q \in Requests : job'[q].op = "move" => job'[q] = job[q]
    BY <1>0, <1>b DEF Begin
  <2> QED
    BY <2>1, <2>2 DEF Calm, Live
<1>2. ASSUME NEW f \in Files, NEW place \in Place, MoveFile(f, place) PROVE Calm
  BY <1>2 DEF MoveFile, Calm, Live
<1>c. ASSUME NEW d \in Dirs, dir[d] \in Row, NEW row \in Row, row.up = dir[d].up,
             \A e \in Dirs : dir'[e] = IF e = d THEN row ELSE dir[e]
      PROVE  /\ Live' = Live /\ \A x \in Live' : dir'[x].up = dir[x].up
             /\ \A x \in Dirs : dir[x] # None => dir'[x] # None
  BY <1>0, <1>a, <1>c, MarksAreNoRows
<1>3. ASSUME NEW d \in Dirs, Restore(d) PROVE Calm
  <2> DEFINE row == [dir[d] EXCEPT !.trashed = FALSE]
  <2>1. dir[d] \in Row /\ \A e \in Dirs : dir'[e] = IF e = d THEN row ELSE dir[e]
    BY <1>0, <1>3 DEF Restore
  <2>2. row \in Row /\ row.up = dir[d].up
    BY <2>1 DEF Row
  <2> HIDE DEF row
  <2>3. job' = job /\ crossed' = crossed
    BY <1>3 DEF Restore
  <2>4. /\ Live' = Live /\ \A x \in Live' : dir'[x].up = dir[x].up
        /\ \A x \in Dirs : dir[x] # None => dir'[x] # None
    BY <1>c, <2>1, <2>2
  <2> QED
    BY <2>3, <2>4 DEF Calm
<1>5. ASSUME NEW p \in Requests, CommitUpdate(p) PROVE Calm
  <2> DEFINE d == job[p].dir
             row == [dir[d] EXCEPT !.keys = Survivors(p) \cup job[p].keys,
                       !.recursive = IF job[p].flips THEN job[p].recursive ELSE @]
  <2>1. job[p] \in Update /\ d \in Dirs /\ dir[d] \in Row
    BY <1>0, <1>5, JobKinds DEF CommitUpdate
  <2>2. dir' = [dir EXCEPT ![d].keys = Survivors(p) \cup job[p].keys,
                           ![d].recursive = IF job[p].flips THEN job[p].recursive ELSE @]
    BY <1>5 DEF CommitUpdate
  <2>3. row \in Row /\ row.up = dir[d].up
    <3>1. Survivors(p) \subseteq Keys /\ job[p].keys \subseteq Keys
      BY <2>1 DEF Survivors, Row, Update
    <3> QED
      BY <2>1, <3>1 DEF Row, Update
  <2>4. \A e \in Dirs : dir'[e] = IF e = d THEN row ELSE dir[e]
    BY <1>0, <2>1, <2>2
  <2>5. crossed' = crossed /\ \A q \in Requests : job'[q].op = "move" => job'[q] = job[q]
    <3>1. job' = [q \in Requests |->
                    IF q = p THEN Idle
                    ELSE IF job[q].op = "update" /\ job[q].dir = d
                         THEN [job[q] EXCEPT !.gone = @ \ job[p].gone,
                                             !.met = @ \cup job[p].keys]
                         ELSE job[q]]
      BY <1>5 DEF CommitUpdate
    <3>2. ASSUME NEW q \in Requests, job'[q].op = "move" PROVE job'[q] = job[q]
      <4>1. q # p
        BY <3>1, <3>2 DEF Idle
      <4>2. ASSUME job[q].op = "update" /\ job[q].dir = d PROVE FALSE
        <5>1. job[q] \in Update
          BY <4>2, JobKinds
        <5>2. job'[q].op = "update"
          BY <3>1, <4>1, <4>2, <5>1 DEF Update
        <5> QED
          BY <3>2, <5>2
      <4> QED
        BY <3>1, <4>1, <4>2
    <3> QED
      BY <1>5, <3>2 DEF CommitUpdate
  <2> HIDE DEF row, d
  <2>6. /\ Live' = Live /\ \A x \in Live' : dir'[x].up = dir[x].up
        /\ \A x \in Dirs : dir[x] # None => dir'[x] # None
    BY <1>c, <2>1, <2>3, <2>4
  <2> QED
    BY <2>5, <2>6 DEF Calm
<1>6. ASSUME NEW p \in Requests, CommitDelete(p) PROVE Calm
  <2> DEFINE d == job[p].dir
  <2>0. crossed' = crossed /\ \A q \in Requests : job'[q].op = "move" => job'[q] = job[q]
    BY <1>0, <1>6 DEF CommitDelete, Idle
  <2>1. CASE job[p].hard
    <3>1. d \in Dirs /\ dir' = [dir EXCEPT ![d] = Gone]
      BY <1>6, <2>1 DEF CommitDelete, RowMayGo, Live
    <3>2. /\ Live' = Live \ {d} /\ \A e \in Live' : dir'[e] = dir[e]
          /\ \A x \in Dirs : dir[x] # None => dir'[x] # None
      BY <1>0, <1>a, <3>1, MarksAreNoRows
    <3> QED
      BY <2>0, <3>2 DEF Calm
  <2>2. CASE ~job[p].hard
    <3> DEFINE row == [dir[d] EXCEPT !.trashed = TRUE]
    <3>1. d \in Dirs /\ dir[d] \in Row /\ dir' = [dir EXCEPT ![d] = row]
      BY <1>0, <1>6, <2>2 DEF CommitDelete
    <3>2. row \in Row /\ row.up = dir[d].up
      BY <1>0, <3>1 DEF Row
    <3>3. \A e \in Dirs : dir'[e] = IF e = d THEN row ELSE dir[e]
      BY <1>0, <3>1
    <3> HIDE DEF row, d
    <3>4. /\ Live' = Live /\ \A x \in Live' : dir'[x].up = dir[x].up
          /\ \A x \in Dirs : dir[x] # None => dir'[x] # None
      BY <1>c, <3>1, <3>2, <3>3
    <3> QED
      BY <2>0, <3>4 DEF Calm
  <2> QED
    BY <2>1, <2>2
<1>7. ASSUME NEW p \in Requests,
             \/ \E d \in Dirs, keys \in Grants, recursive \in BOOLEAN :
                   StartUpdate(p, d, keys, recursive)
             \/ \E d \in Dirs : StartDelete(p, d) \/ StartPurge(p, d)
      PROVE  Calm
  BY <1>7, <1>b DEF StartUpdate, StartDelete, StartPurge
<1>8. ASSUME NEW p \in Requests, GiveUp(p) PROVE Calm
  BY <1>0, <1>8 DEF GiveUp, Calm, Live, Idle
<1>9. CASE UNCHANGED vars
  BY <1>9 DEF vars, Calm, Live
<1> QED
  BY <1>2, <1>3, <1>5, <1>6, <1>7, <1>8, <1>9 DEF Next

(* Where no directory moves, no cycle appears and no check grows stale.    *)
LEMMA CalmCycles ==
    ASSUME TreeOK, TreeOK', AboveLaws, AboveLaws', Calm, CycleIInv
    PROVE  CycleIInv'
<1>1. MoveInv'
  <2> SUFFICES ASSUME NEW p \in Requests, job'[p].op = "move", job'[p].target # None
               PROVE  \E T \in SUBSET Dirs : Passed(T, p)'
    BY DEF MoveInv
  <2>1. job'[p] = job[p]
    BY DEF Calm
  <2>2. PICK T \in SUBSET Dirs : Passed(T, p)
    BY <2>1 DEF CycleIInv, MoveInv
  <2>3. Passed(T, p)'
    BY <2>1, <2>2 DEF Passed, Calm
  <2> QED
    BY <2>3
<1>2. CyclesOnlyByOverlap'
  <2> SUFFICES ASSUME NEW d \in Live', d \in Above(d)'
               PROVE  \E e, m \in Above(d)' :
                         e \in Above(e)' /\ m \in Above(m)' /\ {e, m} \in crossed'
    BY DEF CyclesOnlyByOverlap
  <2>1. \A x \in Live' : dir'[x].up = dir[x].up /\ dir[x].up \in Live' \cup {None}
    BY DEF Calm, TreeOK, EverythingHasAPlace
  <2>2. Live' \subseteq Live /\ crossed \subseteq crossed'
    BY DEF Calm
  <2> DEFINE S == Live'
  <2>3. S \subseteq Live /\ S \subseteq Live' /\ d \in S
    BY <2>2
  <2>4. \A x \in S : dir'[x].up = dir[x].up /\ dir[x].up \in S \cup {None}
    BY <2>1
  <2> HIDE DEF S
  <2> QED
    BY <2>2, <2>3, <2>4, SameCycles DEF CycleIInv
<1> QED
  BY <1>1, <1>2 DEF CycleIInv

(* A new directory is the place of nothing.                                *)
LEMMA CreateCycles ==
    ASSUME TreeOK, TreeOK', AboveLaws, AboveLaws', CycleIInv,
           NEW d \in Dirs, NEW place \in Place, NEW keys \in Grants, NEW recursive \in BOOLEAN,
           Create(d, place, keys, recursive)
    PROVE  CycleIInv'
<1>1. /\ \A e \in Dirs \ {d} : dir'[e] = dir[e]
      /\ dir'[d] = NewRow(place, keys, recursive) /\ dir[d] = None
      /\ job' = job /\ crossed' = crossed /\ place \in Live \cup {None}
  BY DEF Create, TreeOK, TypeOK
<1>2. Live' \subseteq Live \cup {d} /\ Live \subseteq Live' /\ d \notin Live
  BY <1>1 DEF Live
<1>3. dir'[d].up \in Live \cup {None}
  BY <1>1 DEF NewRow
<1>4. \A x \in Live : dir'[x].up = dir[x].up /\ dir[x].up \in Live \cup {None}
  <2>1. \A x \in Live : dir'[x] = dir[x]
    BY <1>1, <1>2 DEF Live
  <2> QED
    BY <2>1, LiveUps
<1>5. MoveInv'
  <2> SUFFICES ASSUME NEW p \in Requests, job'[p].op = "move", job'[p].target # None
               PROVE  \E T \in SUBSET Dirs : Passed(T, p)'
    BY DEF MoveInv
  <2>1. PICK T \in SUBSET Dirs : Passed(T, p)
    BY <1>1 DEF CycleIInv, MoveInv
  <2>2. d \notin T
    BY <1>1, <2>1 DEF Passed
  <2>3. \A x \in T : dir'[x] = dir[x] /\ (x \in Live' => x \in Live)
    BY <1>1, <1>2, <2>2
  <2>4. Passed(T, p)'
    BY <1>1, <2>1, <2>3 DEF Passed
  <2> QED
    BY <2>4
<1>6. CyclesOnlyByOverlap'
  <2> SUFFICES ASSUME NEW e \in Live', e \in Above(e)'
               PROVE  \E x, m \in Above(e)' :
                         x \in Above(x)' /\ m \in Above(m)' /\ {x, m} \in crossed'
    BY DEF CyclesOnlyByOverlap
  <2>1. e \in Live
    <3>1. CASE e = d
      <4>1. Live \in SUBSET (Live')
        BY <1>2
      <4>2. Above(d)' \subseteq Live
        BY <1>3, <1>4, <3>1, <4>1 DEF AboveLaws
      <4> QED
        BY <3>1, <4>2
    <3>2. CASE e # d
      BY <1>2, <3>2
    <3> QED
      BY <3>1, <3>2
  <2>2. Live \subseteq Live /\ crossed \subseteq crossed'
    BY <1>1
  <2> QED
    BY <1>2, <1>4, <2>1, <2>2, SameCycles DEF CycleIInv
<1> QED
  BY <1>5, <1>6 DEF CycleIInv

(* A move that begins has just passed the way up from its target.          *)
LEMMA StartMoveCycles ==
    ASSUME TreeOK, TreeOK', AboveLaws, AboveLaws', CycleIInv,
           NEW p \in Requests, NEW dirs \in SUBSET Dirs, NEW place \in Place,
           StartMove(p, dirs, place)
    PROVE  CycleIInv'
<1> DEFINE away == {d \in dirs : dir[d].up # place}
<1>1. /\ dir' = dir /\ crossed' = crossed /\ Live' = Live
      /\ place \in Live \cup {None} /\ MayReceive(place, dirs)
      /\ job' = [job EXCEPT ![p] = [op |-> "move", dirs |-> away, target |-> place, met |-> {}]]
  BY DEF StartMove, Begin, Live
<1>2. /\ \A q \in Requests : q # p => job'[q] = job[q]
      /\ job'[p] = [op |-> "move", dirs |-> away, target |-> place, met |-> {}]
  BY <1>1 DEF TreeOK, TypeOK
<1>3. MoveInv'
  <2> SUFFICES ASSUME NEW q \in Requests, job'[q].op = "move", job'[q].target # None
               PROVE  \E T \in SUBSET Dirs : Passed(T, q)'
    BY DEF MoveInv
  <2>1. CASE q # p
    <3>1. job'[q] = job[q]
      BY <1>2, <2>1
    <3>2. PICK T \in SUBSET Dirs : Passed(T, q)
      BY <3>1 DEF CycleIInv, MoveInv
    <3>3. Passed(T, q)'
      BY <1>1, <3>1, <3>2 DEF Passed
    <3> QED
      BY <3>3
  <2>2. CASE q = p
    <3> DEFINE T == {place} \cup Above(place)
    <3>1. place \in Live /\ place # None
      BY <1>1, <1>2, <2>2
    <3>2. T \subseteq Live /\ \A x \in T : dir[x].up # None => dir[x].up \in T
      BY <3>1 DEF AboveLaws
    <3>3. T \cap dirs = {}
      BY <1>1, <3>1 DEF MayReceive
    <3>4. place \in T
      OBVIOUS
    <3>5. T \in SUBSET Dirs /\ \A x \in T : dir[x] # None
      BY <3>2 DEF Live
    <3> HIDE DEF T
    <3>6. /\ job'[q].target \in T /\ T \cap job'[q].dirs = {}
          /\ \A x \in T : dir'[x] # None
          /\ \A x \in T \ job'[q].met : x \in Live' => dir'[x].up \in T \cup {None}
      <4>1. /\ job'[q].target = place /\ job'[q].dirs \subseteq dirs /\ job'[q].met = {}
        BY <1>2, <2>2
      <4>2. \A x \in T : dir'[x] = dir[x] /\ dir'[x].up \in T \cup {None}
        BY <1>1, <3>2
      <4> QED
        BY <3>3, <3>4, <3>5, <4>1, <4>2
    <3>7. PICK U \in SUBSET Dirs : U = T
      BY <3>5
    <3>8. Passed(U, q)'
      BY <3>6, <3>7 DEF Passed
    <3> QED
      BY <3>8
  <2> QED
    BY <2>1, <2>2
<1>4. CyclesOnlyByOverlap'
  <2> SUFFICES ASSUME NEW d \in Live', d \in Above(d)'
               PROVE  \E e, m \in Above(d)' :
                         e \in Above(e)' /\ m \in Above(m)' /\ {e, m} \in crossed'
    BY DEF CyclesOnlyByOverlap
  <2>1. \A x \in Live : dir'[x].up = dir[x].up /\ dir[x].up \in Live \cup {None}
    BY <1>1, LiveUps
  <2>2. Live \subseteq Live /\ Live \subseteq Live' /\ d \in Live /\ crossed \subseteq crossed'
    BY <1>1
  <2> QED
    BY <2>1, <2>2, SameCycles DEF CycleIInv
<1> QED
  BY <1>3, <1>4 DEF CycleIInv

(* A move that ends makes a cycle only if it met a move of a directory of  *)
(* that cycle: otherwise the way up from its target, which it passed when  *)
(* it was checked, would be the same and lead to none of its directories.  *)
LEMMA CommitMoveCycles ==
    ASSUME TreeOK, TreeOK', AboveLaws, AboveLaws', CycleLaws', CycleIInv,
           NEW p \in Requests, CommitMove(p)
    PROVE  CycleIInv'
<1> DEFINE D == job[p].dirs
           t == job[p].target
<1>1. job[p] \in Move
  BY JobKinds DEF CommitMove, TreeOK
<1>2. /\ D \subseteq Live /\ t \in Live \cup {None}
      /\ \A e \in Dirs : dir'[e] = IF e \in D THEN [dir[e] EXCEPT !.up = t] ELSE dir[e]
      /\ crossed' = crossed \cup {{d, e} : d \in D, e \in job[p].met}
  BY DEF CommitMove
<1>3. \A e \in D : dir'[e] \in Row /\ dir'[e].up = t
  <2> SUFFICES ASSUME NEW e \in D PROVE dir'[e] \in Row /\ dir'[e].up = t
    OBVIOUS
  <2>1. dir[e] \in Row /\ e \in Dirs
    BY <1>2, LiveRows DEF TreeOK, Live
  <2>2. dir'[e] = [dir[e] EXCEPT !.up = t] /\ t \in Place
    BY <1>1, <1>2, <2>1 DEF Move
  <2> QED
    BY <2>1, <2>2 DEF Row
<1>4. Live' = Live
  BY <1>2, <1>3, MarksAreNoRows DEF Live
<1>5. \A x \in Live \ D : dir'[x] = dir[x]
  BY <1>2, LiveUps
<1>6. MoveInv'
  <2> SUFFICES ASSUME NEW q \in Requests, job'[q].op = "move", job'[q].target # None
               PROVE  \E T \in SUBSET Dirs : Passed(T, q)'
    BY DEF MoveInv
  <2>1. job' = [r \in Requests |->
                  IF r = p THEN Idle
                  ELSE IF job[r].op = "move"
                       THEN [job[r] EXCEPT !.met = @ \cup job[p].dirs]
                       ELSE job[r]]
    BY DEF CommitMove
  <2>2. q # p /\ job[q].op = "move" /\ job'[q] = [job[q] EXCEPT !.met = @ \cup D]
    BY <2>1 DEF Idle
  <2>3. job[q] \in Move
    BY <2>2, JobKinds DEF TreeOK
  <2>4. job'[q].target = job[q].target /\ job'[q].dirs = job[q].dirs
        /\ job'[q].met = job[q].met \cup D
    BY <2>2, <2>3 DEF Move
  <2>5. PICK T \in SUBSET Dirs : Passed(T, q)
    BY <2>2, <2>4 DEF CycleIInv, MoveInv
  <2>6. \A x \in T : dir'[x] # None
    BY <1>2, <1>3, <2>5, MarksAreNoRows DEF Passed
  <2>7. \A x \in T \ job'[q].met : x \in Live' => dir'[x].up \in T \cup {None}
    BY <1>4, <1>5, <2>4, <2>5 DEF Passed
  <2>8. Passed(T, q)'
    BY <2>4, <2>5, <2>6, <2>7 DEF Passed
  <2> QED
    BY <2>8
<1>7. CyclesOnlyByOverlap'
  <2> SUFFICES ASSUME NEW d \in Live', d \in Above(d)'
               PROVE  \E e, m \in Above(d)' :
                         e \in Above(e)' /\ m \in Above(m)' /\ {e, m} \in crossed'
    BY DEF CyclesOnlyByOverlap
  <2>0. /\ d \in Live
        /\ Above(d)' \subseteq Live
        /\ \A x \in Above(d)' : dir'[x].up # None => dir'[x].up \in Above(d)'
    BY <1>4 DEF AboveLaws
  <2>1. CASE Above(d)' \cap D = {}
    <3> DEFINE S == Above(d)'
    <3>1. S \subseteq Live /\ S \subseteq Live' /\ d \in S
      BY <1>4, <2>0
    <3>2. \A x \in S : dir'[x].up = dir[x].up /\ dir[x].up \in S \cup {None}
      BY <1>5, <2>0, <2>1
    <3>3. PICK U : U = S
      OBVIOUS
    <3> HIDE DEF S
    <3>4. crossed \subseteq crossed'
      BY <1>2
    <3>5. U \subseteq Live /\ U \subseteq Live' /\ d \in U
      BY <3>1, <3>3
    <3>6. \A x \in U : dir'[x].up = dir[x].up /\ dir[x].up \in U \cup {None}
      BY <3>2, <3>3
    <3> QED
      BY <3>4, <3>5, <3>6, SameCycles DEF CycleIInv
  <2>2. CASE Above(d)' \cap D # {}
    <3>1. PICK y \in D : y \in Above(d)'
      BY <2>2
    <3> DEFINE C == Above(d)'
    <3>2. \A x \in C : Above(x)' = C
      BY DEF CycleLaws
    <3>3. dir'[y].up = t /\ Above(y)' = C /\ y \in Live'
      BY <1>2, <1>3, <1>4, <3>1, <3>2
    <3>4. t # None
      <4> SUFFICES ASSUME t = None PROVE FALSE
        OBVIOUS
      <4>1. {} \in SUBSET (Live')
        OBVIOUS
      <4>2. Above(y)' \subseteq {}
        BY <3>3, <4>1 DEF AboveLaws
      <4> QED
        BY <3>1, <3>3, <4>2
    <3>5. t \in C
      BY <2>0, <3>1, <3>3, <3>4
    <3>6. PICK T \in SUBSET Dirs : Passed(T, p)
      BY <3>4 DEF CycleIInv, MoveInv, CommitMove
    <3>7. PICK m \in C : m \in job[p].met
      <4> SUFFICES ASSUME \A x \in C : x \notin job[p].met PROVE FALSE
        OBVIOUS
      <4> DEFINE Z == T \cap C
      <4>1. t \in Z
        BY <3>5, <3>6 DEF Passed
      <4>2. ASSUME NEW x \in Z PROVE dir'[x].up # None => dir'[x].up \in Z
        <5>1. x \in Live /\ x \notin D /\ x \notin job[p].met
          BY <2>0, <3>6 DEF Passed
        <5>2. dir'[x] = dir[x] /\ dir[x].up \in T \cup {None}
          BY <1>5, <3>6, <5>1 DEF Passed
        <5>3. dir'[x].up # None => dir'[x].up \in C
          BY <2>0
        <5> QED
          BY <5>2, <5>3
      <4>3. PICK U \in SUBSET (Live') : U = Z
        BY <1>4, <2>0
      <4> HIDE DEF Z
      <4>4. /\ dir'[y].up # None => dir'[y].up \in U
            /\ \A x \in U : dir'[x].up # None => dir'[x].up \in U
        BY <3>3, <4>1, <4>2, <4>3
      <4>5. Above(y)' \subseteq U
        BY <3>3, <4>4 DEF AboveLaws
      <4>6. y \in T
        BY <3>1, <3>3, <4>3, <4>5 DEF Z
      <4> QED
        BY <3>6, <4>6 DEF Passed
    <3>8. {y, m} \in crossed'
      BY <1>2, <3>7
    <3>9. y \in Above(y)' /\ m \in Above(m)'
      BY <3>1, <3>2, <3>7
    <3> QED
      BY <3>1, <3>7, <3>8, <3>9
  <2> QED
    BY <2>1, <2>2
<1> QED
  BY <1>6, <1>7 DEF CycleIInv

(* In every reachable state a directory lies below itself only after moves *)
(* that overlapped, of two directories of that cycle.                      *)
THEOREM CyclesNeedOverlap == Spec => []CyclesOnlyByOverlap
<1>1. Init => CycleIInv
  <2> SUFFICES ASSUME Init PROVE CycleIInv
    OBVIOUS
  <2>1. \A p \in Requests : job[p].op # "move"
    BY DEF Init, Idle
  <2>2. \A d \in Live : d \notin Above(d)
    BY DEF Init
  <2> QED
    BY <2>1, <2>2 DEF CycleIInv, MoveInv, CyclesOnlyByOverlap
<1>2. TreeOK /\ TreeOK' /\ AboveLaws /\ AboveLaws' /\ CycleLaws' /\ CycleIInv /\ [Next]_vars
        => CycleIInv'
  BY CalmSteps, CalmCycles, CreateCycles, StartMoveCycles, CommitMoveCycles DEF TreeOK
<1>3. TreeOK => AboveLaws /\ CycleLaws
  BY AboveIsLeast, CyclesClose
<1>4. TypeOK /\ EverythingHasAPlace <=> TreeOK
  BY DEF TreeOK
<1>5. CycleIInv => CyclesOnlyByOverlap
  BY DEF CycleIInv
<1> QED
  BY <1>1, <1>2, <1>3, <1>4, <1>5, TypeCorrect, PlacesStay, PTL DEF Spec
=============================================================================
