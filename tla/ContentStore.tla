---------------------------- MODULE ContentStore ----------------------------
(***************************************************************************)
(* What the archive promises about contents, with each operation in one    *)
(* step: a file is put once, with a content no other file holds then; a    *)
(* content is discarded only after its last file is deleted; and a content *)
(* a file holds can be fetched, unless it came back while it was being     *)
(* discarded. ArchiveStore, with its separate checks, transactions and S3  *)
(* calls, implements this.                                                 *)
(***************************************************************************)
CONSTANTS Files, Hashes, None

VARIABLES
    file,        \* file -> its state and, while it exists, its content
    available,   \* contents that can be fetched
    discarding,  \* contents that are being discarded
    disturbed    \* contents that came into use while being discarded

vars == <<file, available, discarding, disturbed>>

Exists(f) == file[f].st \in {"active", "trashed"}

(* Some file holds content h.                                              *)
Held(h) == \E f \in Files : Exists(f) /\ file[f].content = h

(* The data import: contents and their files, all of them available.       *)
Init ==
    /\ \A f \in Files : \/ file[f] = [st |-> "unborn", content |-> None]
                        \/ /\ file[f].st = "active"
                           /\ file[f].content \in available
    /\ available \subseteq Hashes
    /\ discarding = {}
    /\ disturbed = {}

(* A content is stored ahead of the file that is to hold it.               *)
Store(h) ==
    /\ available' = available \cup {h}
    /\ UNCHANGED <<file, discarding>>

Put(f, h) ==
    /\ file[f].st = "unborn"
    /\ ~Held(h)
    /\ h \in available \cup disturbed
    /\ file' = [file EXCEPT ![f] = [st |-> "active", content |-> h]]
    /\ UNCHANGED <<available, discarding>>

(* Into the trash, or back; the content stays.                             *)
Move(f, st) ==
    /\ Exists(f)
    /\ file' = [file EXCEPT ![f].st = st]
    /\ UNCHANGED <<available, discarding>>

Delete(f) ==
    /\ Exists(f)
    /\ file' = [file EXCEPT ![f] = [st |-> "gone", content |-> None]]
    /\ UNCHANGED <<available, discarding>>

(* Only a content without files is given up.                               *)
BeginDiscard(h) ==
    /\ ~Held(h)
    /\ discarding' = discarding \cup {h}
    /\ UNCHANGED <<file, available>>

(* It goes, unless a file has come to hold it undisturbed.                 *)
Discard(h) ==
    /\ h \in discarding
    /\ Held(h) => h \in disturbed
    /\ available' = available \ {h}
    /\ UNCHANGED <<file, discarding>>

(* Finished, or given up by a failure.                                     *)
EndDiscard(h) ==
    /\ discarding' = discarding \ {h}
    /\ UNCHANGED <<file, available>>

(* Only what is being discarded is disturbed, at any step.                 *)
Disturb ==
    /\ disturbed \subseteq disturbed'
    /\ disturbed' \subseteq disturbed \cup discarding'

Next ==
    /\ \/ \E h \in Hashes :
            \/ Store(h) \/ BeginDiscard(h) \/ Discard(h) \/ EndDiscard(h)
            \/ \E f \in Files : Put(f, h)
       \/ \E f \in Files :
            \/ Delete(f)
            \/ \E st \in {"active", "trashed"} : Move(f, st)
       \/ UNCHANGED <<file, available, discarding>>
    /\ Disturb

Spec == Init /\ [][Next]_vars

(* A file has its content, in the trash as well, until it is deleted.      *)
Kept == \A f \in Files : Exists(f) => file[f].content \in available \cup disturbed
=============================================================================
