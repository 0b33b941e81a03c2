---------------------------- MODULE MemberRecord ----------------------------
(***************************************************************************)
(* The directory entry of a member and the offices the member has held, as *)
(* administrators save them: standesdb_entry_service, standesdb_service    *)
(* and role_history_service. One organisation is modelled; parents and     *)
(* holders of an office are only compared within it.                       *)
(*                                                                         *)
(* A save is one transaction of four steps: the entry is loaded and        *)
(* checked, the row is flushed (which locks it until the end and fires the *)
(* trigger on parent_id), the offices are checked against those of others, *)
(* and everything is committed. No step sees what others have not          *)
(* committed. A password reset is a second writer of the same row.         *)
(***************************************************************************)
EXTENDS Naturals, FiniteSets

CONSTANTS
    Members,   \* ids of member rows
    Procs,     \* requests under way
    Roles,
    Emails,    \* addresses up to case
    Badges,    \* what the lists of badges and keys may be
    Names,
    LastDay,   \* offices begin and end on days 0..LastDay
    None,
    Open,      \* an office without an end date
    Forms      \* what an administrator may send

Days  == 0..LastDay
Entry == [role : Roles, start : Days, end : Days \cup {Open}]

(* The columns a save writes; leftOn and diedOn stand for entlassungsdatum *)
(* and sterbedatum with grabadresse, mailed for zustellungen and           *)
(* chroniclemail.                                                          *)
Form == [name : Names, left : BOOLEAN, leftOn : BOOLEAN, dead : BOOLEAN, diedOn : BOOLEAN,
         locked : BOOLEAN, mailed : BOOLEAN, email : Emails \cup {None},
         parent : Members \cup {None}, badges : Badges, offices : SUBSET Entry]

Columns == [name : Names, left : BOOLEAN, leftOn : BOOLEAN, dead : BOOLEAN, diedOn : BOOLEAN,
            locked : BOOLEAN, mailed : BOOLEAN, email : Emails \cup {None},
            parent : Members \cup {None}, verified : BOOLEAN]

ASSUME DayAssumption  == LastDay \in Nat /\ Open \notin Nat
ASSUME NoneAssumption == None \notin Members \cup Emails
ASSUME NameAssumption == Names # {}
ASSUME FormAssumption == Forms \subseteq Form

VARIABLES
    exists,   \* committed rows of members
    rec,      \* member -> the columns of its row
    badges,   \* member -> members_badges and members_keys
    offices,  \* member -> members_roles
    told,     \* member -> the offices role_assignment_events tells of, replayed
    proven,   \* history: member -> the address whose mailbox was proven last
    raced,    \* history: {a} or {a, b} for members whose writers overlapped
    pc, job   \* each request: its phase, what it is to save and what it has read

data == <<exists, rec, badges, offices, told, proven, raced>>
vars == <<data, pc, job>>

Blank == [name |-> CHOOSE n \in Names : TRUE, left |-> FALSE, leftOn |-> FALSE,
          dead |-> FALSE, diedOn |-> FALSE, locked |-> TRUE, mailed |-> FALSE,
          email |-> None, parent |-> None, verified |-> FALSE]

Phases == {"idle", "loaded", "flushed", "valid", "reset"}

Job == [member : Members \cup {None}, form : Form \cup {None},
        loaded : Columns, before : SUBSET Entry]
NoJob == [member |-> None, form |-> None, loaded |-> Blank, before |-> {}]

-----------------------------------------------------------------------------
(* Offices                                                                 *)

Within(day, end) == end = Open \/ day < end

Overlap(a, b) == a.role = b.role /\ Within(a.start, b.end) /\ Within(b.start, a.end)

SameKey(a, b) == a.role = b.role /\ a.start = b.start

(* validate_roles_history: each office begins before it ends, and the same *)
(* office is not held twice at a time ...                                  *)
Sound(list) ==
    /\ \A e \in list : Within(e.start, e.end)
    /\ \A e, f \in list : e # f => ~Overlap(e, f)

(* ... nor while another member holds it.                                  *)
Vacant(m, list) ==
    \A e \in list, n \in Members \ {m} : \A o \in offices[n] : ~Overlap(e, o)

(* Slip: the history is written from the form, grants only.                *)
GrantsOnly(before, after) ==
    {[act |-> "granted", entry |-> f] :
        f \in {f \in after : \A e \in before : ~SameKey(e, f)}}

(* diff_role_entries and record_role_changes: what turns one list into     *)
(* another. An office is known by its role and first day.                  *)
Changes(before, after) ==
    {[act |-> "revoked", entry |-> e] :
        e \in {e \in before : \A f \in after : ~SameKey(e, f)}}
    \cup
    {[act |-> "granted", entry |-> f] :
        f \in {f \in after : \A e \in before : ~SameKey(e, f)}}
    \cup
    {[act |-> "period_changed", entry |-> f] :
        f \in {f \in after : \E e \in before : SameKey(e, f) /\ e.end # f.end}}

(* What a reader of the history concludes from the entries of one save.    *)
Replay(list, changes) ==
    {e \in list : \A c \in changes : ~SameKey(e, c.entry)}
    \cup {c.entry : c \in {c \in changes : c.act # "revoked"}}

-----------------------------------------------------------------------------
(* Parents                                                                 *)

(* Walking up from start, one comes to target ...                          *)
Reaches(up, start, target) ==
    \A S \in SUBSET Members :
        start \in S /\ (\A m \in S : up[m] \in S \cup {None}) => target \in S

(* ... and to an end.                                                      *)
Ends(up, start) == \E m \in Members : Reaches(up, start, m) /\ up[m] = None

Parent == [m \in Members |-> rec[m].parent]

(* A group of members each of whom has a parent in it contains a cycle.    *)
Trapped(S) == S # {} /\ \A m \in S : rec[m].parent \in S

-----------------------------------------------------------------------------

TypeOK ==
    /\ exists \subseteq Members
    /\ rec \in [Members -> Columns]
    /\ badges \in [Members -> Badges]
    /\ offices \in [Members -> SUBSET Entry]
    /\ told \in [Members -> SUBSET Entry]
    /\ proven \in [Members -> Emails \cup {None}]
    /\ raced \subseteq SUBSET Members
    /\ pc \in [Procs -> Phases]
    /\ job \in [Procs -> Job]
    /\ \A p \in Procs : pc[p] # "idle" => job[p].member \in Members
    /\ \A p \in Procs : pc[p] \in {"loaded", "flushed", "valid"} => job[p].form \in Form

Init ==
    /\ exists \in SUBSET Members
    /\ rec \in [Members -> {[Blank EXCEPT !.email = e, !.locked = (e = None)] :
                              e \in Emails \cup {None}}]
    /\ \A m, n \in Members : rec[m].email = rec[n].email => m = n \/ rec[m].email = None
    /\ \A m \in Members \ exists : rec[m] = Blank
    /\ badges \in {[m \in Members |-> b] : b \in Badges}
    /\ offices = [m \in Members |-> {}]
    /\ told = [m \in Members |-> {}]
    /\ proven = [m \in Members |-> None]
    /\ raced = {}
    /\ pc = [p \in Procs |-> "idle"]
    /\ job = [p \in Procs |-> NoJob]

Goto(p, phase, j) ==
    /\ pc' = [pc EXCEPT ![p] = phase]
    /\ job' = [job EXCEPT ![p] = j]

Refuse(p) == Goto(p, "idle", NoJob) /\ UNCHANGED data

(* A request that has flushed holds its member's row.                      *)
Holder(q) == pc[q] \in {"flushed", "valid"}
RowFree(m) == \A q \in Procs : Holder(q) => job[q].member # m

(* Slip: only a member who has left is locked.                             *)
NormalLeftOnly(form) ==
    [form EXCEPT
        !.locked = @ \/ form.left \/ form.email = None,
        !.mailed = @ /\ ~form.left,
        !.leftOn = @ /\ form.left,
        !.diedOn = @ /\ form.dead]

(* apply_member_input: who has left or died is locked and gets no mail; so *)
(* is locked who has no address; dates go with the facts they date.        *)
Normal(form) ==
    [form EXCEPT
        !.locked = @ \/ form.left \/ form.dead \/ form.email = None,
        !.mailed = @ /\ ~form.left /\ ~form.dead,
        !.leftOn = @ /\ form.left,
        !.diedOn = @ /\ form.dead]

-----------------------------------------------------------------------------
(* create_member, update_member                                            *)

(* validate_member_uniqueness, validate_parent_id                          *)
Acceptable(m, form) ==
    /\ \A n \in exists \ {m} : rec[n].name # form.name
    /\ form.parent # None =>
         form.parent \in exists /\ (m \in exists => ~Reaches(Parent, form.parent, m))

(* The entry with its offices is loaded, the input is checked.             *)
Load(p, m, form) ==
    /\ pc[p] = "idle"
    /\ m \notin exists => \A q \in Procs : job[q].member # m
    /\ Acceptable(m, form)
    /\ Goto(p, "loaded", [member |-> m, form |-> form, loaded |-> rec[m],
                          before |-> offices[m]])
    /\ UNCHANGED data

(* The value a column gets: only what differs from the loaded row is in    *)
(* the UPDATE.                                                             *)
Saved(new, old, now) == IF new # old THEN new ELSE now

Writes(p, r) ==
    LET new == Normal(job[p].form)
        old == job[p].loaded
    IN [name   |-> Saved(new.name, old.name, r.name),
        left   |-> Saved(new.left, old.left, r.left),
        leftOn |-> Saved(new.leftOn, old.leftOn, r.leftOn),
        dead   |-> Saved(new.dead, old.dead, r.dead),
        diedOn |-> Saved(new.diedOn, old.diedOn, r.diedOn),
        locked |-> Saved(new.locked, old.locked, r.locked),
        mailed |-> Saved(new.mailed, old.mailed, r.mailed),
        email  |-> Saved(new.email, old.email, r.email),
        parent |-> Saved(new.parent, old.parent, r.parent),
        verified |-> Saved(old.verified /\ new.email = old.email, old.verified, r.verified)]

(* Slip: the CHECK stays, but the trigger does not walk up.                *)
TriggerSelfOnly(p) == job[p].form.parent # job[p].member

(* members_parent_cycle: the parent, if it is written, is walked up from   *)
(* in the committed rows; a walk without end is refused as well.           *)
TriggerAllows(p) ==
    LET m == job[p].member
        q == job[p].form.parent
    IN q # None /\ q # job[p].loaded.parent =>
         q # m /\ Ends(Parent, q) /\ ~Reaches(Parent, q, m)

(* members_email_lower_key                                                 *)
EmailFree(p) ==
    LET m == job[p].member
        e == job[p].form.email
    IN e # None /\ e # job[p].loaded.email => \A n \in exists \ {m} : rec[n].email # e

(* db.flush(): waits for the row, and for who is about to give or take the *)
(* same address.                                                           *)
Flush(p) ==
    /\ pc[p] = "loaded"
    /\ RowFree(job[p].member)
    /\ \A q \in Procs \ {p} : Holder(q) /\ job[p].form.email # None =>
         job[q].form.email # job[p].form.email
    /\ IF TriggerAllows(p) /\ EmailFree(p)
       THEN Goto(p, "flushed", job[p]) /\ UNCHANGED data
       ELSE Refuse(p)

(* Slip: an office is only compared with the member's own.                 *)
ValidateOwn(p) ==
    /\ pc[p] = "flushed"
    /\ IF Sound(job[p].form.offices)
       THEN Goto(p, "valid", job[p]) /\ UNCHANGED data
       ELSE Refuse(p)

(* validate_roles_history                                                  *)
Validate(p) ==
    /\ pc[p] = "flushed"
    /\ IF Sound(job[p].form.offices) /\ Vacant(job[p].member, job[p].form.offices)
       THEN Goto(p, "valid", job[p]) /\ UNCHANGED data
       ELSE Refuse(p)

(* Who else was writing the same row, or had looked before this commit.    *)
Overlapping(p) ==
    LET m == job[p].member
    IN {{m, job[q].member} : q \in {q \in Procs \ {p} :
            pc[q] # "idle" /\ (job[q].member = m \/ Holder(q))}}

(* _sync_badges, _sync_keys, _sync_roles and the commit: lists are deleted *)
(* and inserted anew, the history gets what differs from the loaded list.  *)
Commit(p) ==
    LET m == job[p].member
        after == job[p].form.offices
    IN
    /\ pc[p] = "valid"
    /\ exists' = exists \cup {m}
    /\ rec' = [rec EXCEPT ![m] = Writes(p, rec[m])]
    /\ badges' = [badges EXCEPT ![m] = job[p].form.badges]
    /\ offices' = [offices EXCEPT ![m] = after]
    /\ told' = [told EXCEPT ![m] = Replay(@, Changes(job[p].before, after))]
    /\ raced' = raced \cup Overlapping(p)
    /\ Goto(p, "idle", NoJob)
    /\ UNCHANGED proven

-----------------------------------------------------------------------------
(* execute_password_reset                                                  *)

(* The member is found by the address the token was mailed to.             *)
ResetLoad(p, m) ==
    /\ pc[p] = "idle"
    /\ m \in exists
    /\ rec[m].email # None
    /\ Goto(p, "reset", [NoJob EXCEPT !.member = m, !.loaded = rec[m]])
    /\ UNCHANGED data

(* The address that was loaded has proven its mailbox.                     *)
ResetCommit(p) ==
    LET m == job[p].member IN
    /\ pc[p] = "reset"
    /\ RowFree(m)
    /\ rec' = [rec EXCEPT ![m].verified = TRUE]
    /\ proven' = [proven EXCEPT ![m] = job[p].loaded.email]
    /\ raced' = raced \cup Overlapping(p)
    /\ Goto(p, "idle", NoJob)
    /\ UNCHANGED <<exists, badges, offices, told>>

-----------------------------------------------------------------------------

Step(p) ==
    \/ \E m \in Members, form \in Forms : Load(p, m, form)
    \/ Flush(p)
    \/ Validate(p)
    \/ Commit(p)
    \/ \E m \in Members : ResetLoad(p, m)
    \/ ResetCommit(p)

Next == \E p \in Procs : Step(p)

Spec == Init /\ [][Next]_vars

-----------------------------------------------------------------------------
(* Properties                                                              *)

RacedIn(S) == \E m, n \in S : m # n /\ {m, n} \in raced

(* "A trigger refuses any cycle" of parents (7a3e91c4d5f8). It cannot see  *)
(* a save that has not been committed: every cycle contains two members    *)
(* whose saves overlapped.                                                 *)
CyclesOnlyByOverlap == \A S \in SUBSET Members : Trapped(S) => RacedIn(S)

(* validate_roles_history: an office has one holder at a time, unless two  *)
(* members were given it by overlapping saves.                             *)
OneHolderUnlessRaced ==
    \A m, n \in Members : m # n /\ {m, n} \notin raced =>
        \A e \in offices[m], f \in offices[n] : ~Overlap(e, f)

(* role_assignment_events "is the history of who gave which role to whom": *)
(* replayed, it tells the offices a member has, unless two saves of that   *)
(* member overlapped.                                                      *)
HistoryTellsOffices ==
    \A m \in Members : {m} \notin raced => told[m] = offices[m]

(* entlassen "triggers automatic account locking" (schemas/standesdb.py);  *)
(* so do verstorben and a missing address. The address may then only count *)
(* as verified if a reset proved that very address ("every change of the   *)
(* address clears it"). Both unless two writers of the row overlapped.     *)
StatusRulesUnlessRaced ==
    \A m \in Members : {m} \notin raced =>
        /\ rec[m].left \/ rec[m].dead \/ rec[m].email = None => rec[m].locked
        /\ rec[m].verified => rec[m].email = proven[m]

(* "A trigger refuses any cycle", taken at its word. The code does not     *)
(* keep it.                                                                *)
ParentsAcyclic == \A S \in SUBSET Members : ~Trapped(S)

(* "Address-based rules must not trust an address that an administrator    *)
(* merely typed". The code does not keep it.                               *)
VerifiedIsProven == \A m \in Members : rec[m].verified => rec[m].email = proven[m]
=============================================================================
