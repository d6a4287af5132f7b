------------------------------ MODULE Sessions ------------------------------
(***************************************************************************)
(* Administrator sessions: the tables admin and sessions, the in-memory    *)
(* SessionIndex that authenticates every request, and the requests that    *)
(* change them (internal/auth, internal/httpapi/auth_handlers.go) beside   *)
(* the cleanup of app.runMaintenance and the rebuild of internal/          *)
(* indexstate.                                                             *)
(*                                                                         *)
(* A request is a goroutine; pc names its next call on shared state.  Time *)
(* is counted in ticks: the database stores whole seconds, the index what  *)
(* time.Time holds.  The barrier is the sync.RWMutex of internal/          *)
(* indexbarrier: a writer announces itself, which keeps new readers out,   *)
(* and waits for the ones that are in.                                     *)
(***************************************************************************)
EXTENDS Naturals, FiniteSets

CONSTANTS Procs,           \* goroutines serving requests
          Tokens,          \* session tokens that can be drawn
          Profiles,        \* email and display name the administrator may have
          Lifetime,        \* sessionLifetime, in ticks
          TicksPerSecond,  \* resolution of time.Time against Unix()
          MaxTime,         \* bound on the clock
          MaxChanges,      \* bound on the changes of the password
          Faults,          \* what may go wrong around the program
          None

AllFaults == {"databaseError", "restart"}

Ops == {"login", "rotate", "undo", "logout", "password", "profile", "cleanup", "rebuild"}

\* auth.SessionIdentity: what the index keeps of a session.
Identity == [exp : Nat, profile : Profiles]

ASSUME SessionsAssumption ==
    /\ None \notin Procs \cup Tokens \cup Profiles \cup Ops
    /\ None \notin Nat /\ None \notin Identity
    /\ TicksPerSecond \in Nat \ {0}
    /\ Lifetime \in Nat \ {0}
    /\ Lifetime % TicksPerSecond = 0
    /\ MaxTime \in Nat /\ MaxChanges \in Nat
    /\ Faults \subseteq AllFaults
    /\ Profiles # {}

VARIABLES
    profile,      \* admin.email and admin.display_name
    password,     \* admin.password_hash: the number of changes made so far
    rows,         \* rows[t]: expires_at of the row of token t, in seconds, or None
    cookies,      \* tokens some browser was given
    index,        \* SessionIndex.sessions: [exp, profile], or None
    credentials,  \* who holds Service.credentialsMu, or None
    readers,      \* goroutines between BeginChange and its release
    writer,       \* the goroutine that announced BeginRebuild and has not released it, or None
    snapshot,     \* the sessions a rebuild has loaded
    clock,
    proof,        \* history: the last password the holder of a token has presented
    ended,        \* history: tokens whose logout or revocation was confirmed
    pc,
    job

vars == <<profile, password, rows, cookies, index, credentials, readers, writer,
          snapshot, clock, proof, ended, pc, job>>

db      == <<profile, password, rows>>
locks   == <<credentials, readers, writer>>
history == <<proof, ended>>

Seconds(t) == t \div TicksPerSecond

Steps == {"idle", "lockCredentials", "verify", "rlock", "db", "index", "runlock",
          "unlockCredentials", "lock", "drain", "load", "replace", "unlock"}

\* token: the session the request creates, keeps or ends; old: the cookie a
\* login replaces; claim: the password the client sent; profile: the one it sent or a login read; now: when the handler
\* called time.Now(); done: its statement was executed.
Job == [op : Ops \cup {None}, token : Tokens \cup {None}, old : Tokens \cup {None},
        claim : Nat, profile : Profiles \cup {None}, now : Nat, done : BOOLEAN]

NoJob == [op |-> None, token |-> None, old |-> None, claim |-> 0, profile |-> None,
          now |-> 0, done |-> FALSE]

NoSessions == [t \in Tokens |-> None]

TypeOK ==
    /\ profile \in Profiles
    /\ password \in Nat
    /\ rows \in [Tokens -> Nat \cup {None}]
    /\ cookies \in SUBSET Tokens
    /\ index \in [Tokens -> Identity \cup {None}]
    /\ credentials \in Procs \cup {None}
    /\ readers \in SUBSET Procs
    /\ writer \in Procs \cup {None}
    /\ snapshot \in [Tokens -> Identity \cup {None}]
    /\ clock \in Nat
    /\ proof \in [Tokens -> Nat \cup {None}]
    /\ ended \in SUBSET Tokens
    /\ pc \in [Procs -> Steps]
    /\ job \in [Procs -> Job]

Init ==
    /\ profile \in Profiles
    /\ password = 0
    /\ rows = NoSessions
    /\ cookies = {}
    /\ index = NoSessions
    /\ credentials = None
    /\ readers = {}
    /\ writer = None
    /\ snapshot = NoSessions
    /\ clock = 0
    /\ proof = NoSessions
    /\ ended = {}
    /\ pc = [p \in Procs |-> "idle"]
    /\ job = [p \in Procs |-> NoJob]

-----------------------------------------------------------------------------
(* The handlers up to the first lock.                                      *)

\* Service.Authenticate: SessionIndex.Get with no other lock.
Authenticates(t, now) == index[t] # None /\ index[t].exp > now

Begin(p, step, locals) ==
    /\ pc[p] = "idle"
    /\ pc' = [pc EXCEPT ![p] = step]
    /\ job' = [job EXCEPT ![p] = [locals EXCEPT !.now = clock]]
    /\ UNCHANGED <<db, cookies, index, locks, snapshot, clock, history>>

\* authHandler.login: a password the administrator has or had, and the session
\* cookie the browser still has, if any.
StartLogin(p) ==
    \E claim \in 0..password, old \in cookies \cup {None} :
        Begin(p, "lockCredentials",
              [NoJob EXCEPT !.op = "login", !.claim = claim, !.old = old])

\* authHandler.logout, changePassword and updateProfile ask for a session.
StartLogout(p) ==
    \E t \in cookies : /\ Authenticates(t, clock)
                    /\ Begin(p, "rlock", [NoJob EXCEPT !.op = "logout", !.token = t])

StartChangePassword(p) ==
    /\ password < MaxChanges
    /\ \E t \in cookies, claim \in 0..password :
          /\ Authenticates(t, clock)
          /\ Begin(p, "lockCredentials",
                   [NoJob EXCEPT !.op = "password", !.token = t, !.claim = claim])

\* BROKEN, for mutation: a change of the profile does not take the mutex.
StartUpdateProfileUnlocked(p) ==
    \E t \in cookies, new \in Profiles :
        /\ Authenticates(t, clock)
        /\ Begin(p, "rlock",
                 [NoJob EXCEPT !.op = "profile", !.token = t, !.profile = new])

StartUpdateProfile(p) ==
    \E t \in cookies, new \in Profiles :
        /\ Authenticates(t, clock)
        /\ Begin(p, "lockCredentials",
                 [NoJob EXCEPT !.op = "profile", !.token = t, !.profile = new])

\* The ticker of runMaintenance: one cleanup at a time.
StartCleanup(p) ==
    /\ \A q \in Procs : job[q].op # "cleanup"
    /\ Begin(p, "rlock", [NoJob EXCEPT !.op = "cleanup"])

StartRebuild(p) == Begin(p, "lock", [NoJob EXCEPT !.op = "rebuild"])

-----------------------------------------------------------------------------
(* Service.credentialsMu around login, change of password and of profile.  *)

\* BROKEN, for mutation: a login does not take the mutex.
CredentialsFreeForLogin(p) == credentials = None \/ job[p].op = "login"

CredentialsFree(p) == credentials = None

LockCredentials(p) ==
    /\ pc[p] = "lockCredentials"
    /\ CredentialsFree(p)
    /\ credentials' = p
    /\ pc' = [pc EXCEPT ![p] = IF job[p].op = "profile" THEN "rlock" ELSE "verify"]
    /\ UNCHANGED <<db, cookies, index, readers, writer, snapshot, clock, history, job>>

\* FindAdminByEmail or FindAdminByID, and VerifyPassword.
Verified(p) == job[p].claim = password

Drawn == {t \in Tokens : proof[t] # None}

\* A login draws its token here; the identity is built from the row just read.
VerifyLogin(p) ==
    /\ pc[p] = "verify" /\ job[p].op = "login"
    /\ Verified(p)
    /\ \E t \in Tokens \ Drawn :
          /\ job' = [job EXCEPT ![p] = [@ EXCEPT !.token = t, !.profile = profile]]
          /\ proof' = [proof EXCEPT ![t] = job[p].claim]
    /\ pc' = [pc EXCEPT ![p] = "rlock"]
    /\ UNCHANGED <<db, cookies, index, locks, snapshot, clock, ended>>

VerifyChange(p) ==
    /\ pc[p] = "verify" /\ job[p].op = "password"
    /\ Verified(p)
    /\ pc' = [pc EXCEPT ![p] = "rlock"]
    /\ UNCHANGED <<db, cookies, index, locks, snapshot, clock, history, job>>

\* BROKEN, for mutation: the mutex stays locked when the password is wrong.
RejectLocked(p) ==
    /\ pc[p] = "verify"
    /\ pc' = [pc EXCEPT ![p] = "idle"]
    /\ job' = [job EXCEPT ![p] = NoJob]
    /\ UNCHANGED <<db, cookies, index, locks, snapshot, clock, history>>

\* A wrong password; for a login also an email that is not the administrator's
\* or a token that cannot be drawn; a new password of the wrong length.
Reject(p) ==
    /\ pc[p] = "verify"
    /\ pc' = [pc EXCEPT ![p] = "unlockCredentials"]
    /\ UNCHANGED <<db, cookies, index, locks, snapshot, clock, history, job>>

RLock(p) ==
    /\ pc[p] = "rlock"
    /\ writer = None
    /\ readers' = readers \cup {p}
    /\ pc' = [pc EXCEPT ![p] = "db"]
    /\ UNCHANGED <<db, cookies, index, credentials, writer, snapshot, clock, history, job>>

-----------------------------------------------------------------------------
(* The statement of each request.                                          *)

Executed(p) == /\ pc' = [pc EXCEPT ![p] = "index"]
               /\ job' = [job EXCEPT ![p].done = TRUE]
               /\ UNCHANGED <<cookies, index, locks, snapshot, clock>>

CreateSession(p) ==
    /\ pc[p] = "db" /\ job[p].op = "login"
    /\ rows' = [rows EXCEPT ![job[p].token] = Seconds(job[p].now + Lifetime)]
    /\ Executed(p)
    /\ UNCHANGED <<profile, password, history>>

Ends == {"logout", "rotate", "undo"}

\* No row is no error.
DeleteSessionByHash(p) ==
    /\ pc[p] = "db" /\ job[p].op \in Ends
    /\ rows' = [rows EXCEPT ![job[p].token] = None]
    /\ Executed(p)
    /\ UNCHANGED <<profile, password, history>>

RowsExcept(t) == [u \in Tokens |-> IF u = t THEN rows[u] ELSE None]

\* The new password and the revocation of the other sessions in one transaction.
ChangePasswordAndRevokeOtherSessions(p) ==
    /\ pc[p] = "db" /\ job[p].op = "password"
    /\ password' = password + 1
    /\ rows' = RowsExcept(job[p].token)
    /\ proof' = [proof EXCEPT ![job[p].token] = password + 1]
    /\ Executed(p)
    /\ UNCHANGED <<profile, ended>>

UpdateProfile(p) ==
    /\ pc[p] = "db" /\ job[p].op = "profile"
    /\ profile' = job[p].profile
    /\ Executed(p)
    /\ UNCHANGED <<password, rows, history>>

RowExpired(t, now) == rows[t] # None /\ rows[t] <= Seconds(now)

UnexpiredRows(now) == [t \in Tokens |-> IF RowExpired(t, now) THEN None ELSE rows[t]]

DeleteExpiredSessions(p) ==
    /\ pc[p] = "db" /\ job[p].op = "cleanup"
    /\ rows' = UnexpiredRows(job[p].now)
    /\ Executed(p)
    /\ UNCHANGED <<profile, password, history>>

\* The statement fails and the service returns before it touches the index.
StatementFails(p) ==
    /\ pc[p] = "db"
    /\ "databaseError" \in Faults
    /\ pc' = [pc EXCEPT ![p] = "runlock"]
    /\ UNCHANGED <<db, cookies, index, locks, snapshot, clock, history, job>>

-----------------------------------------------------------------------------
(* SessionIndex, each method atomic under its mutex.                       *)

Indexed(p) == /\ pc' = [pc EXCEPT ![p] = "runlock"]
              /\ UNCHANGED <<db, cookies, locks, snapshot, clock, history, job>>

\* The profile is the one VerifyLogin has read.
Add(p) ==
    /\ pc[p] = "index" /\ job[p].op = "login"
    /\ index' = [index EXCEPT ![job[p].token] =
                    [exp |-> job[p].now + Lifetime, profile |-> job[p].profile]]
    /\ Indexed(p)

Remove(p) ==
    /\ pc[p] = "index" /\ job[p].op \in Ends
    /\ index' = [index EXCEPT ![job[p].token] = None]
    /\ Indexed(p)

RemoveAllExcept(p) ==
    /\ pc[p] = "index" /\ job[p].op = "password"
    /\ index' = [t \in Tokens |-> IF t = job[p].token THEN index[t] ELSE None]
    /\ Indexed(p)

UpdateAdmin(p) ==
    /\ pc[p] = "index" /\ job[p].op = "profile"
    /\ index' = [t \in Tokens |-> IF index[t] = None THEN None
                                  ELSE [index[t] EXCEPT !.profile = job[p].profile]]
    /\ Indexed(p)

\* BROKEN, for mutation: the index forgets a second early.
PurgedEarly(t, now) == index[t] # None /\ index[t].exp <= now + TicksPerSecond

PurgedAt(t, now) == index[t] # None /\ index[t].exp <= now

PurgeExpired(p) ==
    /\ pc[p] = "index" /\ job[p].op = "cleanup"
    /\ index' = [t \in Tokens |-> IF PurgedAt(t, job[p].now) THEN None ELSE index[t]]
    /\ Indexed(p)

-----------------------------------------------------------------------------
(* What the handler does with the result, and the deferred unlocks.        *)

Return(p) == /\ pc' = [pc EXCEPT ![p] = "idle"]
             /\ job' = [job EXCEPT ![p] = NoJob]

LogoutOf(p, op, token, other) ==
    /\ pc' = [pc EXCEPT ![p] = "rlock"]
    /\ job' = [job EXCEPT ![p] = [@ EXCEPT !.op = op, !.token = token, !.old = other,
                                           !.done = FALSE]]
    /\ UNCHANGED <<cookies, ended>>

\* A change of password has ended every session but the one that asked for it.
Revoked(p) == Drawn \ {job[p].token}

\* The result of Service.Logout, ChangePassword, UpdateProfile, CleanupExpired.
AnswerChange(p) ==
    /\ job[p].op \in {"logout", "password", "profile", "cleanup", "undo"}
    /\ Return(p)
    /\ ended' = CASE job[p].op = "logout" /\ job[p].done -> ended \cup {job[p].token}
                  [] job[p].op = "password" /\ job[p].done -> ended \cup Revoked(p)
                  [] OTHER -> ended
    /\ UNCHANGED cookies

\* authHandler.login with the result of Service.Login: the session of the cookie
\* the browser sent is ended before the new cookie is set.
AnswerLogin(p) ==
    /\ job[p].op = "login"
    /\ \/ /\ job[p].done /\ job[p].old # None
          /\ LogoutOf(p, "rotate", job[p].old, job[p].token)
       \/ /\ job[p].done /\ job[p].old = None
          /\ Return(p)
          /\ cookies' = cookies \cup {job[p].token}
          /\ UNCHANGED ended
       \/ /\ ~job[p].done
          /\ Return(p)
          /\ UNCHANGED <<cookies, ended>>

\* The same with the result of that Logout: if it failed, the new session goes.
AnswerRotate(p) ==
    /\ job[p].op = "rotate"
    /\ \/ /\ job[p].done
          /\ Return(p)
          /\ cookies' = cookies \cup {job[p].old}
          /\ ended' = ended \cup {job[p].token}
       \/ /\ ~job[p].done
          /\ LogoutOf(p, "undo", job[p].old, None)

Answer(p) == AnswerChange(p) \/ AnswerLogin(p) \/ AnswerRotate(p)


\* Login, ChangePassword and UpdateProfile release the barrier, then the mutex.
RUnlock(p) ==
    /\ pc[p] = "runlock"
    /\ readers' = readers \ {p}
    /\ \/ /\ credentials = p
          /\ pc' = [pc EXCEPT ![p] = "unlockCredentials"]
          /\ UNCHANGED <<cookies, ended, job>>
       \/ /\ credentials # p
          /\ Answer(p)
    /\ UNCHANGED <<db, index, credentials, writer, snapshot, clock, proof>>

UnlockCredentials(p) ==
    /\ pc[p] = "unlockCredentials"
    /\ credentials' = None
    /\ Answer(p)
    /\ UNCHANGED <<db, index, readers, writer, snapshot, clock, proof>>

-----------------------------------------------------------------------------
(* Rebuilder.Rebuild; app.Build does the same before the first request.    *)

\* BROKEN, for mutation: the fraction of the second is made up.
ActiveRoundedUp(now) ==
    [t \in Tokens |-> IF rows[t] # None /\ rows[t] > Seconds(now)
                         THEN [exp |-> (rows[t] + 1) * TicksPerSecond, profile |-> profile]
                         ELSE None]

\* ListActiveSessions: whole seconds, with the profile of the administrator.
Active(now) == [t \in Tokens |-> IF rows[t] # None /\ rows[t] > Seconds(now)
                                   THEN [exp |-> rows[t] * TicksPerSecond, profile |-> profile]
                                   ELSE None]

\* sync.RWMutex.Lock: keep new readers out, ...
Lock(p) ==
    /\ pc[p] = "lock"
    /\ writer = None
    /\ writer' = p
    /\ pc' = [pc EXCEPT ![p] = "drain"]
    /\ UNCHANGED <<db, cookies, index, credentials, readers, snapshot, clock, history, job>>

\* BROKEN, for mutation: a rebuild does not wait for the changes under way.
Unwaited == TRUE

Drained == readers = {}

\* ... and wait for those that are in.
Drain(p) ==
    /\ pc[p] = "drain"
    /\ Drained
    /\ pc' = [pc EXCEPT ![p] = "load"]
    /\ UNCHANGED <<db, cookies, index, locks, snapshot, clock, history, job>>

Load(p) ==
    /\ pc[p] = "load"
    /\ snapshot' = Active(job[p].now)
    /\ pc' = [pc EXCEPT ![p] = "replace"]
    /\ UNCHANGED <<db, cookies, index, locks, clock, history, job>>

LoadFails(p) ==
    /\ pc[p] = "load"
    /\ "databaseError" \in Faults
    /\ pc' = [pc EXCEPT ![p] = "unlock"]
    /\ UNCHANGED <<db, cookies, index, locks, snapshot, clock, history, job>>

Replace(p) ==
    /\ pc[p] = "replace"
    /\ index' = snapshot
    /\ snapshot' = NoSessions
    /\ pc' = [pc EXCEPT ![p] = "unlock"]
    /\ UNCHANGED <<db, cookies, locks, clock, history, job>>

Unlock(p) ==
    /\ pc[p] = "unlock"
    /\ writer' = None
    /\ Return(p)
    /\ UNCHANGED <<db, cookies, index, credentials, readers, snapshot, clock, history>>

\* The process dies and app.Build starts it again: cleanup, then load.
Restart ==
    /\ "restart" \in Faults
    /\ rows' = UnexpiredRows(clock)
    /\ index' = Active(clock)
    /\ credentials' = None
    /\ readers' = {}
    /\ writer' = None
    /\ snapshot' = NoSessions
    /\ pc' = [p \in Procs |-> "idle"]
    /\ job' = [p \in Procs |-> NoJob]
    /\ UNCHANGED <<profile, password, cookies, clock, history>>

Tick ==
    /\ clock < MaxTime
    /\ clock' = clock + 1
    /\ UNCHANGED <<db, cookies, index, locks, snapshot, history, pc, job>>

-----------------------------------------------------------------------------

Start(p) ==
    \/ StartLogin(p) \/ StartLogout(p) \/ StartChangePassword(p) \/ StartUpdateProfile(p)
    \/ StartCleanup(p) \/ StartRebuild(p)

Acquire(p) == LockCredentials(p) \/ RLock(p) \/ Lock(p)

Statement(p) ==
    \/ CreateSession(p) \/ DeleteSessionByHash(p) \/ ChangePasswordAndRevokeOtherSessions(p)
    \/ UpdateProfile(p) \/ DeleteExpiredSessions(p) \/ StatementFails(p)

IndexStep(p) ==
    Add(p) \/ Remove(p) \/ RemoveAllExcept(p) \/ UpdateAdmin(p) \/ PurgeExpired(p)

Proceed(p) ==
    \/ VerifyLogin(p) \/ VerifyChange(p) \/ Reject(p) \/ Statement(p) \/ IndexStep(p)
    \/ RUnlock(p) \/ UnlockCredentials(p)
    \/ Drain(p) \/ Load(p) \/ LoadFails(p) \/ Replace(p) \/ Unlock(p)

Next ==
    \/ \E p \in Procs : Start(p) \/ Acquire(p) \/ Proceed(p)
    \/ Restart
    \/ Tick

Spec == Init /\ [][Next]_vars

\* A goroutine that does not wait goes on; a mutex serves every waiter.
Fairness == \A p \in Procs : /\ WF_vars(Proceed(p))
                             /\ SF_vars(LockCredentials(p))
                             /\ SF_vars(RLock(p))
                             /\ SF_vars(Lock(p))

FairSpec == Spec /\ Fairness

-----------------------------------------------------------------------------

(***************************************************************************)
(* A session that was ended never authenticates again: neither a rebuild   *)
(* nor a login, logout or cleanup that overlaps brings it back             *)
(* (Service.Logout, ChangePassword, Rebuilder.Rebuild).                    *)
(***************************************************************************)
EndedStaysEnded == \A t \in ended : index[t] = None

\* A change of password that has been committed and not yet reached the index.
Revoking(p, t) == pc[p] = "index" /\ job[p].op = "password" /\ job[p].token # t

(***************************************************************************)
(* After a change of the password only sessions whose holder has shown the *)
(* new one authenticate, with the gap between transaction and index in     *)
(* Service.ChangePassword as the only exception.  A login that verified    *)
(* the old password cannot slip in behind the revocation.                  *)
(***************************************************************************)
OnlyCurrentPassword ==
    \A t \in Tokens : Authenticates(t, clock) =>
        proof[t] = password \/ \E p \in Procs : Revoking(p, t)

(***************************************************************************)
(* A session that authenticates has its row, unless a request is about to  *)
(* take it out of the index, or its last second has begun: the database    *)
(* counts whole seconds and forgets it first.                              *)
(***************************************************************************)
SessionHasRow ==
    \A t \in Tokens : Authenticates(t, clock) =>
        \/ rows[t] # None
        \/ Seconds(index[t].exp) <= Seconds(clock)
        \/ \E p \in Procs : \/ Revoking(p, t)
                            \/ pc[p] = "index" /\ job[p].op \in Ends /\ job[p].token = t

(***************************************************************************)
(* A live row authenticates, unless its login is about to publish it: no   *)
(* cleanup and no change by others loses the session of somebody who is    *)
(* logged in.                                                              *)
(***************************************************************************)
EveryRowAuthenticates ==
    \A t \in Tokens : (rows[t] # None /\ rows[t] > Seconds(clock)) =>
        \/ index[t] # None
        \/ \E p \in Procs : pc[p] = "index" /\ job[p].op = "login" /\ job[p].token = t

(***************************************************************************)
(* Every session shows the profile of the administrator as it is, unless   *)
(* the change is on its way to the index (Service.UpdateProfile): a login  *)
(* that read the former profile cannot publish it afterwards.              *)
(***************************************************************************)
ProfileIsCurrent ==
    \A t \in Tokens : index[t] # None =>
        \/ index[t].profile = profile
        \/ \E p \in Procs : pc[p] = "index" /\ job[p].op = "profile"

\* The session index agrees with the tables, sessions and administrator, up
\* to requests that are on their way from one to the other.
IndexIsCurrent == SessionHasRow /\ ProfileIsCurrent

(***************************************************************************)
(* The life of a session is never extended: what a rebuild reads back from *)
(* whole seconds may end a session earlier, not later, and nothing else    *)
(* touches its expiry (SessionIndex.Replace, ListActiveSessions).          *)
(***************************************************************************)
NeverExtended ==
    [][\A t \in Tokens : index[t] # None /\ index'[t] # None =>
            index'[t].exp <= index[t].exp]_vars

\* Every request returns, whichever of the two locks it waits for.
RequestsReturn == \A p \in Procs : (pc[p] # "idle") ~> (pc[p] = "idle")
=============================================================================
