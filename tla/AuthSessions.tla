---------------------------- MODULE AuthSessions ----------------------------
(***************************************************************************)
(* Sign-in sessions: app/services/auth_service.py (login, refresh with     *)
(* rotation of the refresh secret, the access check that stamps a session, *)
(* logout, forgotten password and its reset) and the session part of       *)
(* job_cleanup in app/core/scheduler.py.                                   *)
(*                                                                         *)
(* A request is a process. The session and member rows have locks, held    *)
(* from the first UPDATE, DELETE or SELECT FOR UPDATE of a transaction to  *)
(* its end; a step that needs a lock of somebody else waits. The ORM sends *)
(* pending UPDATEs at the commit, members before sessions, so handlers     *)
(* take the two locks in different orders; PostgreSQL ends a deadlock by   *)
(* rolling back one of the transactions. A bulk DELETE (READ COMMITTED)    *)
(* sees the rows committed when it starts and then takes them one by one,  *)
(* waiting for each in turn and holding those it has.                      *)
(* Time is a counter that advances at any moment.                          *)
(***************************************************************************)
EXTENDS Integers, FiniteSets

CONSTANTS
    Members,
    Sids,          \* session ids (jti), never reused
    Procs,         \* requests
    None,
    IdleTimeout,   \* SESSION_IDLE_TIMEOUT_MINUTES
    Lifetime,      \* REFRESH_TOKEN_LIFETIME_DAYS
    TokenTtl,      \* the 20 minutes of a reset token
    MaxTime,       \* bound on the clock
    MaxTokens,     \* bound on reset tokens issued per member
    MaxResets,     \* bound on password changes per member
    MaxRotations,  \* bound on refreshes per session
    MaxCrashes     \* bound on requests that die

ASSUME AuthAssumption ==
    /\ {IdleTimeout, Lifetime, TokenTtl, MaxTime, MaxTokens,
      MaxResets, MaxRotations, MaxCrashes} \subseteq Nat
    /\ None \notin Members \cup Sids \cup Procs

VARIABLES
    now,
    locked,    \* members with auth_locked
    pw,        \* member -> how often the password was reset
    token,     \* member -> its pending reset token (a number), or None
    tokenAt,   \* member -> when that token was created
    issued,    \* member -> how many tokens were mailed
    sess,      \* session rows
    slock,     \* session -> the transaction holding its row
    mlock,     \* member -> the transaction holding its row
    pc,        \* where each request stands
    arg,       \* what each request works on and has read
    late,      \* history: sessions a reset of their password did not see
    crashes

db      == <<locked, pw, token, tokenAt, issued, sess>>
locks   == <<slock, mlock>>
vars    == <<now, db, locks, pc, arg, late, crashes>>

Blank == [st |-> "unborn", owner |-> None, secret |-> 0, used |-> 0, created |-> 0, pw |-> 0]
Gone  == [Blank EXCEPT !.st = "gone"]

NoArg == [s |-> None, m |-> None, k |-> 0, t |-> 0, d |-> {}]

Phases == {"idle", "login", "refresh", "rotate", "touch", "touched", "end",
           "logout", "logouted", "reset", "delete", "expire", "sweep"}

(* A session row; pw is the password it was opened with.                   *)
SessionRow == [st : {"unborn", "live", "gone"}, owner : Members \cup {None}, secret : Nat,
               used : 0..MaxTime, created : 0..MaxTime, pw : Nat]

(* What a request works on: session, member, secret (or token or password, *)
(* as a number), the time it took, and the rows its bulk DELETE has still  *)
(* to take.                                                                *)
Reading == [s : Sids \cup {None}, m : Members \cup {None}, k : Nat, t : 0..MaxTime,
            d : SUBSET Sids]

TypeOK ==
    /\ now \in 0..MaxTime
    /\ locked \subseteq Members
    /\ pw \in [Members -> Nat]
    /\ token \in [Members -> 0..MaxTokens \cup {None}]
    /\ tokenAt \in [Members -> 0..MaxTime]
    /\ issued \in [Members -> 0..MaxTokens]
    /\ sess \in [Sids -> SessionRow]
    /\ slock \in [Sids -> Procs \cup {None}]
    /\ mlock \in [Members -> Procs \cup {None}]
    /\ pc \in [Procs -> Phases]
    /\ arg \in [Procs -> Reading]
    /\ late \subseteq Sids
    /\ crashes \in 0..MaxCrashes

-----------------------------------------------------------------------------

Live(s) == sess[s].st = "live"
Owner(s) == sess[s].owner

(* p may take the row: nobody else holds it.                               *)
FreeFor(p, lock, row) == lock[row] \in {None, p}

IsIdle(s, t) == t - sess[s].used > IdleTimeout
IsExpired(s, t) == t - sess[s].created > Lifetime

Init ==
    /\ now = 0
    /\ locked = {}
    /\ pw = [m \in Members |-> 0]
    /\ token = [m \in Members |-> None]
    /\ tokenAt = [m \in Members |-> 0]
    /\ issued = [m \in Members |-> 0]
    /\ sess = [s \in Sids |-> Blank]
    /\ slock = [s \in Sids |-> None]
    /\ mlock = [m \in Members |-> None]
    /\ pc = [p \in Procs |-> "idle"]
    /\ arg = [p \in Procs |-> NoArg]
    /\ late = {}
    /\ crashes = 0

(* The request starts, with what it read.                                  *)
Start(p, phase, a) ==
    /\ pc[p] = "idle"
    /\ pc' = [pc EXCEPT ![p] = phase]
    /\ arg' = [arg EXCEPT ![p] = a]

Goto(p, phase) ==
    /\ pc' = [pc EXCEPT ![p] = phase]
    /\ UNCHANGED arg

(* Commit or rollback: p's locks go, and the request is answered.          *)
Finish(p) ==
    /\ pc' = [pc EXCEPT ![p] = "idle"]
    /\ arg' = [arg EXCEPT ![p] = NoArg]
    /\ slock' = [s \in Sids |-> IF slock[s] = p THEN None ELSE slock[s]]
    /\ mlock' = [m \in Members |-> IF mlock[m] = p THEN None ELSE mlock[m]]

-----------------------------------------------------------------------------
(* Login (password, or a linked Google account)                            *)

(* Session ids left for logins to come (Sids bounds them).                 *)
RoomForLogin ==
    Cardinality({p \in Procs : pc[p] = "login"}) < Cardinality({s \in Sids : sess[s].st = "unborn"})

(* authenticate_user: password and lock are checked, outside any lock.     *)
LoginCheck(p, m) ==
    /\ m \notin locked
    /\ RoomForLogin
    /\ Start(p, "login", [NoArg EXCEPT !.m = m, !.k = pw[m]])
    /\ UNCHANGED <<now, db, locks, late, crashes>>

(* create_user_session: auth_lastlogin and the session row, one commit.    *)
LoginInsert(p, s) ==
    LET m == arg[p].m IN
    /\ pc[p] = "login"
    /\ sess[s].st = "unborn"
    /\ FreeFor(p, mlock, m)
    /\ sess' = [sess EXCEPT ![s] = [st |-> "live", owner |-> m, secret |-> 0, used |-> now,
                                    created |-> now, pw |-> arg[p].k]]
    /\ late' = IF \/ arg[p].k # pw[m]
                  \/ \E q \in Procs : pc[q] = "delete" /\ arg[q].m = m
               THEN late \cup {s} ELSE late
    /\ Finish(p)
    /\ UNCHANGED <<now, locked, pw, token, tokenAt, issued, crashes>>

-----------------------------------------------------------------------------
(* Refresh                                                                 *)

(* Slip: the session row is read without FOR UPDATE.                       *)
RefreshReadUnlocked(p, s, k) ==
    /\ Live(s) /\ slock[s] = None
    /\ k < sess[s].secret \/ (k = sess[s].secret /\ k < MaxRotations)
    /\ Start(p, "refresh", [NoArg EXCEPT !.s = s, !.m = Owner(s), !.k = k])
    /\ UNCHANGED <<now, db, locks, late, crashes>>

(* SELECT ... FOR UPDATE by any secret ever handed out for the session; a  *)
(* missing row is answered 401 and changes nothing.                        *)
RefreshRead(p, s, k) ==
    /\ Live(s) /\ slock[s] = None
    /\ k < sess[s].secret \/ (k = sess[s].secret /\ k < MaxRotations)
    /\ Start(p, "refresh", [NoArg EXCEPT !.s = s, !.m = Owner(s), !.k = k])
    /\ slock' = [slock EXCEPT ![s] = p]
    /\ UNCHANGED <<now, db, mlock, late, crashes>>

(* The checks of refresh_session that keep the session.                    *)
Acceptable(p) ==
    LET s == arg[p].s IN
    /\ arg[p].k = sess[s].secret
    /\ ~IsIdle(s, now)
    /\ ~IsExpired(s, now)
    /\ arg[p].m \notin locked

RefreshAccept(p) ==
    /\ pc[p] = "refresh"
    /\ Acceptable(p)
    /\ pc' = [pc EXCEPT ![p] = "rotate"]
    /\ arg' = [arg EXCEPT ![p].t = now]
    /\ UNCHANGED <<now, db, locks, late, crashes>>

(* Slip: a stale secret is refused but the session lives on.               *)
RefreshRejectKeeps(p) ==
    /\ pc[p] = "refresh"
    /\ ~Acceptable(p)
    /\ Finish(p)
    /\ UNCHANGED <<now, db, late, crashes>>

(* Slip: the rejection leaves its transaction open.                        *)
RefreshRejectHoldsLock(p) ==
    /\ pc[p] = "refresh"
    /\ ~Acceptable(p)
    /\ pc' = [pc EXCEPT ![p] = "idle"]
    /\ arg' = [arg EXCEPT ![p] = NoArg]
    /\ UNCHANGED <<now, db, locks, late, crashes>>

(* _invalidate_session: the row is deleted and the request refused.        *)
RefreshReject(p) ==
    /\ pc[p] = "refresh"
    /\ ~Acceptable(p)
    /\ sess' = [sess EXCEPT ![arg[p].s] = Gone]
    /\ Finish(p)
    /\ UNCHANGED <<now, locked, pw, token, tokenAt, issued, late, crashes>>

(* Commit: auth_lastsignal of the member, then the rotated secret.         *)
RefreshRotate(p) ==
    LET s == arg[p].s IN
    /\ pc[p] = "rotate"
    /\ FreeFor(p, mlock, arg[p].m)
    /\ sess' = [sess EXCEPT ![s].secret = @ + 1, ![s].used = arg[p].t]
    /\ Finish(p)
    /\ UNCHANGED <<now, locked, pw, token, tokenAt, issued, late, crashes>>

-----------------------------------------------------------------------------
(* Access check: authenticate_access_token                                 *)

(* The row is read without a lock: idle, due for a stamp, or neither.      *)
TouchRead(p, s) ==
    /\ Live(s)
    /\ \/ IsIdle(s, now) /\ Start(p, "end", [NoArg EXCEPT !.s = s])
       \/ ~IsIdle(s, now) /\ now > sess[s].used
            /\ Start(p, "touch", [NoArg EXCEPT !.s = s, !.m = Owner(s), !.t = now])
    /\ UNCHANGED <<now, db, locks, late, crashes>>

(* The member's auth_lastsignal is updated at once, ...                    *)
TouchMember(p) ==
    /\ pc[p] = "touch"
    /\ FreeFor(p, mlock, arg[p].m)
    /\ mlock' = [mlock EXCEPT ![arg[p].m] = p]
    /\ Goto(p, "touched")
    /\ UNCHANGED <<now, db, slock, late, crashes>>

(* Slip: the row is written back whole, as read.                           *)
TouchSessionMerge(p) ==
    LET s == arg[p].s IN
    /\ pc[p] = "touched"
    /\ FreeFor(p, slock, s)
    /\ sess' = [sess EXCEPT ![s].used = arg[p].t, ![s].st = "live", ![s].owner = arg[p].m]
    /\ Finish(p)
    /\ UNCHANGED <<now, locked, pw, token, tokenAt, issued, late, crashes>>

(* ... the session's last_used_at at the commit. A session that is gone by *)
(* then fails the UPDATE, and the request.                                 *)
TouchSession(p) ==
    LET s == arg[p].s IN
    /\ pc[p] = "touched"
    /\ FreeFor(p, slock, s)
    /\ sess' = IF Live(s) THEN [sess EXCEPT ![s].used = arg[p].t] ELSE sess
    /\ Finish(p)
    /\ UNCHANGED <<now, locked, pw, token, tokenAt, issued, late, crashes>>

(* An idle session is deleted (by a request that found it idle).           *)
EndIdle(p) ==
    /\ pc[p] = "end"
    /\ FreeFor(p, slock, arg[p].s)
    /\ sess' = [sess EXCEPT ![arg[p].s] = Gone]
    /\ Finish(p)
    /\ UNCHANGED <<now, locked, pw, token, tokenAt, issued, late, crashes>>

-----------------------------------------------------------------------------
(* Logout, with any access token of the session, expired or not            *)

(* Slip: the session row is locked first.                                  *)
LogoutReadLocked(p, s) ==
    /\ Live(s) /\ slock[s] = None
    /\ Start(p, "logout", [NoArg EXCEPT !.s = s, !.m = Owner(s)])
    /\ slock' = [slock EXCEPT ![s] = p]
    /\ UNCHANGED <<now, db, mlock, late, crashes>>

LogoutRead(p, s) ==
    /\ Live(s)
    /\ Start(p, "logout", [NoArg EXCEPT !.s = s, !.m = Owner(s)])
    /\ UNCHANGED <<now, db, locks, late, crashes>>

(* The commit sends the UPDATE of auth_lastlogout before the DELETE.       *)
LogoutMember(p) ==
    /\ pc[p] = "logout"
    /\ FreeFor(p, mlock, arg[p].m)
    /\ mlock' = [mlock EXCEPT ![arg[p].m] = p]
    /\ Goto(p, "logouted")
    /\ UNCHANGED <<now, db, slock, late, crashes>>

LogoutSession(p) ==
    /\ pc[p] = "logouted"
    /\ FreeFor(p, slock, arg[p].s)
    /\ sess' = [sess EXCEPT ![arg[p].s] = Gone]
    /\ Finish(p)
    /\ UNCHANGED <<now, locked, pw, token, tokenAt, issued, late, crashes>>

-----------------------------------------------------------------------------
(* Forgotten password                                                      *)

(* process_forgot_password: the old token goes, a new one is mailed. (Two  *)
(* such requests at once: UNIQUE member_id fails one, as if not sent.)     *)
ForgotPassword(m) ==
    /\ issued[m] < MaxTokens
    /\ issued' = [issued EXCEPT ![m] = @ + 1]
    /\ token' = [token EXCEPT ![m] = issued[m]]
    /\ tokenAt' = [tokenAt EXCEPT ![m] = now]
    /\ UNCHANGED <<now, locked, pw, sess, locks, pc, arg, late, crashes>>

(* The token rows of these members are deleted.                            *)
DropTokens(ms) ==
    /\ token' = [m \in Members |-> IF m \in ms THEN None ELSE token[m]]
    /\ tokenAt' = [m \in Members |-> IF m \in ms THEN 0 ELSE tokenAt[m]]

(* A bulk DELETE is under way: of a reset, or of the cleanup job.          *)
Deleting(p) == pc[p] \in {"delete", "expire", "sweep"}

(* The row as it is now still meets the condition of p's DELETE. (Only a   *)
(* stamp or a rotation can end that; owner and age never change.)          *)
StillWanted(p, s) == Live(s) /\ (pc[p] = "sweep" => IsIdle(s, arg[p].t))

Resetting(m) == {p \in Procs : pc[p] \in {"reset", "delete"} /\ arg[p].m = m}

(* execute_password_reset with the pending token; others change nothing.   *)
ResetExpired(m) ==
    /\ token[m] # None
    /\ now - tokenAt[m] > TokenTtl
    /\ DropTokens({m})
    /\ UNCHANGED <<now, locked, pw, issued, sess, locks, pc, arg, late, crashes>>

ResetCheck(p, m) ==
    /\ token[m] # None
    /\ now - tokenAt[m] <= TokenTtl
    /\ pw[m] + Cardinality(Resetting(m)) < MaxResets
    /\ Start(p, "reset", [NoArg EXCEPT !.m = m, !.k = token[m]])
    /\ UNCHANGED <<now, db, locks, late, crashes>>

(* The bulk DELETE of the member's sessions sees those committed by now: a *)
(* login that commits later, even while the DELETE waits, is not seen.     *)
ResetSessions(p) ==
    LET mine == {s \in Sids : Live(s) /\ Owner(s) = arg[p].m} IN
    /\ pc[p] = "reset"
    /\ pc' = [pc EXCEPT ![p] = "delete"]
    /\ arg' = [arg EXCEPT ![p].d = mine]
    /\ UNCHANGED <<now, db, locks, late, crashes>>

(* Slip: a row somebody else holds is passed over (SKIP LOCKED).           *)
DeleteTakeSkips(p, s) ==
    /\ Deleting(p)
    /\ s \in arg[p].d
    /\ slock' = IF FreeFor(p, slock, s) /\ StillWanted(p, s)
                THEN [slock EXCEPT ![s] = p] ELSE slock
    /\ arg' = [arg EXCEPT ![p].d = @ \ {s}]
    /\ UNCHANGED <<now, db, mlock, pc, late, crashes>>

(* It takes a row once nobody else holds it, in any order of the scan; one *)
(* that is gone or no longer meets the condition is passed over.           *)
DeleteTake(p, s) ==
    /\ Deleting(p)
    /\ s \in arg[p].d
    /\ FreeFor(p, slock, s)
    /\ slock' = IF StillWanted(p, s) THEN [slock EXCEPT ![s] = p] ELSE slock
    /\ arg' = [arg EXCEPT ![p].d = @ \ {s}]
    /\ UNCHANGED <<now, db, mlock, pc, late, crashes>>

(* The commit updates the member and deletes the token used.               *)
ResetCommit(p) ==
    LET m == arg[p].m IN
    /\ pc[p] = "delete"
    /\ arg[p].d = {}
    /\ FreeFor(p, mlock, m)
    /\ pw' = [pw EXCEPT ![m] = @ + 1]
    /\ sess' = [s \in Sids |-> IF slock[s] = p THEN Gone ELSE sess[s]]
    /\ DropTokens({m} \cap {n \in Members : token[n] = arg[p].k})
    /\ Finish(p)
    /\ UNCHANGED <<now, locked, issued, late, crashes>>

-----------------------------------------------------------------------------
(* Others                                                                  *)

(* An administrator locks or unlocks the account (update of the member).   *)
LockMember(m) ==
    /\ mlock[m] = None
    /\ locked' \in {locked \cup {m}, locked \ {m}}
    /\ UNCHANGED <<now, pw, token, tokenAt, issued, sess, locks, pc, arg, late, crashes>>

(* job_cleanup: three DELETEs with one reading of the clock, one commit.   *)
(* First the expired sessions; ...                                         *)
CleanupStart(p) ==
    LET expired == {s \in Sids : Live(s) /\ IsExpired(s, now)} IN
    /\ now > 0      \* before that nothing can be old
    /\ Start(p, "expire", [NoArg EXCEPT !.t = now, !.d = expired])
    /\ UNCHANGED <<now, db, locks, late, crashes>>

(* ... then, seeing what others committed meanwhile, the idle ones; ...    *)
CleanupIdle(p) ==
    LET idle == {s \in Sids : Live(s) /\ IsIdle(s, arg[p].t) /\ slock[s] # p} IN
    /\ pc[p] = "expire"
    /\ arg[p].d = {}
    /\ pc' = [pc EXCEPT ![p] = "sweep"]
    /\ arg' = [arg EXCEPT ![p].d = idle]
    /\ UNCHANGED <<now, db, locks, late, crashes>>

(* ... and old tokens.                                                     *)
CleanupCommit(p) ==
    /\ pc[p] = "sweep"
    /\ arg[p].d = {}
    /\ sess' = [s \in Sids |-> IF slock[s] = p THEN Gone ELSE sess[s]]
    /\ DropTokens({m \in Members : token[m] # None /\ arg[p].t - tokenAt[m] > TokenTtl})
    /\ Finish(p)
    /\ UNCHANGED <<now, locked, pw, issued, late, crashes>>

Tick ==
    /\ now < MaxTime
    /\ now' = now + 1
    /\ UNCHANGED <<db, locks, pc, arg, late, crashes>>

(* The request dies or loses its connection: its transaction rolls back.   *)
Crash(p) ==
    /\ pc[p] # "idle"
    /\ crashes < MaxCrashes
    /\ crashes' = crashes + 1
    /\ Finish(p)
    /\ UNCHANGED <<now, db, late>>

-----------------------------------------------------------------------------
(* Waiting and deadlock                                                    *)

(* The rows p needs for its next statement.                                *)
NeedsMember(p) ==
    IF \/ pc[p] \in {"login", "rotate", "touch", "logout"}
       \/ pc[p] = "delete" /\ arg[p].d = {}
    THEN {arg[p].m} ELSE {}
NeedsSessions(p) ==
    IF pc[p] \in {"touched", "end", "logouted"} THEN {arg[p].s}
    ELSE IF Deleting(p) THEN arg[p].d ELSE {}

WaitsFor(p, q) ==
    /\ p # q
    /\ \/ \E m \in NeedsMember(p) : mlock[m] = q
       \/ \E s \in NeedsSessions(p) : slock[s] = q

(* Everyone in S waits for somebody in S; a deadlock is a smallest such    *)
(* set, a circle of two or more requests.                                  *)
Closed(S)     == S # {} /\ \A p \in S : \E q \in S : WaitsFor(p, q)
Deadlocked(S) == Closed(S) /\ \A T \in SUBSET S : Closed(T) => T = S

(* PostgreSQL aborts one of the transactions that wait for each other.     *)
DeadlockAbort(p) ==
    /\ \E S \in SUBSET Procs : p \in S /\ Deadlocked(S)
    /\ Finish(p)
    /\ UNCHANGED <<now, db, late, crashes>>

-----------------------------------------------------------------------------

Begin(p) ==
    \/ \E m \in Members : LoginCheck(p, m) \/ ResetCheck(p, m)
    \/ \E s \in Sids : TouchRead(p, s) \/ LogoutRead(p, s)
    \/ \E s \in Sids : \E k \in 0..sess[s].secret : RefreshRead(p, s, k)
    \/ CleanupStart(p)

Proceed(p) ==
    \/ \E s \in Sids : LoginInsert(p, s)
    \/ RefreshAccept(p)
    \/ RefreshReject(p)
    \/ RefreshRotate(p)
    \/ TouchMember(p)
    \/ TouchSession(p)
    \/ EndIdle(p)
    \/ LogoutMember(p)
    \/ LogoutSession(p)
    \/ ResetSessions(p)
    \/ \E s \in Sids : DeleteTake(p, s)
    \/ ResetCommit(p)
    \/ CleanupIdle(p)
    \/ CleanupCommit(p)
    \/ DeadlockAbort(p)

Next ==
    \/ \E p \in Procs : Begin(p) \/ Proceed(p) \/ Crash(p)
    \/ \E m \in Members : ForgotPassword(m) \/ ResetExpired(m) \/ LockMember(m)
    \/ Tick

Spec == Init /\ [][Next]_vars

(* A request that has started runs on, and PostgreSQL detects deadlocks.   *)
(* Rows are granted in order of arrival, so waiting requests get theirs.   *)
FairSpec == Spec /\ \A p \in Procs : SF_vars(Proceed(p))

-----------------------------------------------------------------------------
(* Properties                                                              *)

(* "A refresh secret is single use even when two requests present it       *)
(* together": a refresh about to rotate still holds the secret that is     *)
(* current, of a session that exists, whatever the others did meanwhile.   *)
RotatesCurrentSecret ==
    \A p \in Procs : pc[p] = "rotate" =>
      Live(arg[p].s) /\ arg[p].k = sess[arg[p].s].secret

(* Deadlocks, of however many requests, have one of two shapes. Either a   *)
(* request that locks the member first (the stamp of the access check, a   *)
(* logout) meets one that locks sessions first (a refresh, a reset that    *)
(* has its rows); or it is bulk DELETEs alone, taking the same rows in     *)
(* different orders. Logins and requests that are only reading never are   *)
(* among the victims.                                                      *)
DeadlockShape ==
    \A S \in SUBSET Procs : Deadlocked(S) =>
      /\ \A p \in S : pc[p] \in {"touched", "logouted", "rotate"} \/ Deleting(p)
      /\ \/ /\ \E p \in S : pc[p] \in {"touched", "logouted"}
            /\ \E q \in S : pc[q] = "rotate" \/ (pc[q] = "delete" /\ arg[q].d = {})
         \/ \A p \in S : Deleting(p) /\ arg[p].d # {}

(* A password reset ends every session of the member: one that was opened  *)
(* with an earlier password exists only if its login committed after the   *)
(* DELETE of the reset had begun and so could not see it, with the reset   *)
(* still waiting for other rows, about to commit, or done.                 *)
OldPasswordOnlyByOverlap ==
    \A s \in Sids : Live(s) /\ sess[s].pw # pw[Owner(s)] => s \in late

(* A session that was ended (logout, reset, reuse, expiry) never comes     *)
(* back, whatever a request read of it before.                             *)
EndedStaysEnded ==
    [][\A s \in Sids : sess[s].st = "gone" => sess'[s].st = "gone"]_vars

(* What SignIn sees of a session row, and of a request that refreshes.     *)
Shown == [s \in Sids |-> [st |-> sess[s].st, owner |-> Owner(s), secret |-> sess[s].secret]]
Presented ==
    [p \in Procs |-> IF pc[p] \in {"refresh", "rotate"}
                     THEN [of |-> arg[p].s, secret |-> arg[p].k]
                     ELSE [of |-> None, secret |-> 0]]

Promise == INSTANCE SignIn WITH session <- Shown, presented <- Presented

(* The reads, locks and commits of the requests amount to the atomic       *)
(* operations of SignIn: a refresh is a compare-and-swap of the secret,    *)
(* and neither a stamp nor a refresh revives or renews a session that a    *)
(* logout, a reset, reuse or the cleanup ended after it was read.          *)
KeepsPromise == Promise!Spec

(* Every request is answered, deadlocks included.                          *)
EveryRequestAnswered == \A p \in Procs : pc[p] # "idle" ~> pc[p] = "idle"

(* A stale refresh secret ends the session it was issued for.              *)
ReuseEndsSession ==
    \A p \in Procs : \A s \in Sids :
      (pc[p] = "refresh" /\ arg[p].s = s /\ arg[p].k # sess[s].secret) ~> ~Live(s)
=============================================================================
