--------------------------- MODULE SessionsProofs ---------------------------
(***************************************************************************)
(* Sessions for any goroutines, tokens, profiles, lifetime and clock: the  *)
(* session index agrees with the tables sessions and admin, a session that *)
(* was ended stays ended, and no session is extended.                      *)
(*                                                                         *)
(* The inductive invariant comes in layers, each proved from the ones      *)
(* before it: the shape of a request's locals at each step; who holds      *)
(* which lock; whose tokens are whose; what a request under way can rely   *)
(* on in the tables; the index.                                            *)
(***************************************************************************)
EXTENDS Sessions, TLAPS

CredentialOps == {"login", "password", "profile"}

\* Steps between credentialsMu.Lock and its Unlock; between BeginChange and its
\* release; and from BeginRebuild on.
CredentialSteps == {"verify", "rlock", "db", "index", "runlock", "unlockCredentials"}
ReaderSteps     == {"db", "index", "runlock"}
LoadSteps       == {"load", "replace", "unlock"}
WriterSteps     == {"drain"} \cup LoadSteps

HoldsCredentials(s, j) == j.op \in CredentialOps /\ s \in CredentialSteps

\* A login whose session has yet to reach the index.
Pending(s, j) == j.op = "login" /\ s \in {"rlock", "db", "index"}

\* The locals j of a request at step s.
WellFormed(s, j) ==
    /\ s = "idle" <=> j.op = None
    /\ s \in {"lock"} \cup WriterSteps <=> j.op = "rebuild"
    /\ s \in {"lockCredentials", "unlockCredentials"} => j.op \in CredentialOps
    /\ s = "verify" => j.op \in {"login", "password"}
    /\ j.op \in Ends \cup {"password", "profile"} => j.token \in Tokens
    /\ j.op = "rotate" => j.old \in Tokens
    /\ j.op = "profile" => j.profile \in Profiles
    /\ Pending(s, j) => j.token \in Tokens /\ j.profile \in Profiles
    /\ (j.op = "login" /\ j.done) => j.token \in Tokens
    /\ j.done => s \in {"index", "runlock", "unlockCredentials"}
    /\ s = "index" => j.done

JobShape == \A p \in Procs : WellFormed(pc[p], job[p])

NowIsPast == \A p \in Procs : job[p].now <= clock

\* A mutex is held exactly by the goroutine between its lock and its unlock.
LocksAreHeld ==
    /\ \A p \in Procs : credentials = p <=> HoldsCredentials(pc[p], job[p])
    /\ \A p \in Procs : p \in readers <=> pc[p] \in ReaderSteps
    /\ \A p \in Procs : writer = p <=> pc[p] \in WriterSteps
    /\ \A p \in Procs : pc[p] \in LoadSteps => readers = {}

Shape == TypeOK /\ JobShape /\ NowIsPast /\ LocksAreHeld

\* Whoever has a token has it from a login that has drawn it.
TokensAreDrawn ==
    /\ cookies \subseteq Drawn
    /\ ended \subseteq Drawn
    /\ \A t \in Tokens : (rows[t] # None \/ index[t] # None) => t \in Drawn
    /\ \A p \in Procs : {job[p].token, job[p].old} \subseteq Drawn \cup {None}

\* Nobody else knows the token of a login that has not published its session.
LoginsAreFresh ==
    \A p \in Procs : Pending(pc[p], job[p]) =>
        /\ job[p].token \notin cookies \cup ended
        /\ index[job[p].token] = None
        /\ pc[p] # "index" => rows[job[p].token] = None
        /\ \A q \in Procs \ {p} : job[p].token \notin {job[q].token, job[q].old}

TokenInv == TokensAreDrawn /\ LoginsAreFresh

\* What a request at step s with locals j relies on: a login, on the password
\* and the profile it has read; a request that has executed its statement, on
\* finding what it wrote when it comes to the index, and after.
Relies(s, j) ==
    /\ Pending(s, j) => proof[j.token] = password /\ profile = j.profile
    /\ (j.op = "login" /\ s = "index") =>
           \/ rows[j.token] = Seconds(j.now + Lifetime)
           \/ rows[j.token] = None /\ Seconds(j.now + Lifetime) <= Seconds(clock)
    /\ (j.op \in Ends /\ j.done) =>
           /\ rows[j.token] = None
           /\ s # "index" => index[j.token] = None
    /\ (j.op = "password" /\ j.done) =>
           \A t \in Tokens \ {j.token} : /\ rows[t] = None
                                         /\ s # "index" => index[t] = None
    /\ (j.op = "profile" /\ s = "index") => profile = j.profile

RequestsRely == \A p \in Procs : Relies(pc[p], job[p])

\* Behind the barrier the rows a rebuild has read do not change.
SnapshotIsCurrent ==
    \A p \in Procs : pc[p] = "replace" => snapshot = Active(job[p].now)

\* A session has a row only under the current password, and with the expiry of
\* the index cut to whole seconds.
RowsAreCurrent ==
    \A t \in Tokens : rows[t] # None =>
        /\ proof[t] = password
        /\ t \notin ended
        /\ index[t] # None => rows[t] = Seconds(index[t].exp)

RowInv == RequestsRely /\ SnapshotIsCurrent /\ RowsAreCurrent

\* A request about to take the session t out of the index.
Leaving(p, t) == \/ Revoking(p, t)
                 \/ pc[p] = "index" /\ job[p].op \in Ends /\ job[p].token = t

\* The properties, whether or not the session has expired.
IndexInv ==
    /\ \A t \in Tokens : index[t] # None =>
           /\ proof[t] = password \/ \E p \in Procs : Revoking(p, t)
           /\ \/ rows[t] # None
              \/ Seconds(index[t].exp) <= Seconds(clock)
              \/ \E p \in Procs : Leaving(p, t)
    /\ EndedStaysEnded
    /\ EveryRowAuthenticates
    /\ ProfileIsCurrent

SessionInv == Shape /\ TokenInv /\ RowInv /\ IndexInv

OwnStep(p) == Start(p) \/ Acquire(p) \/ Proceed(p)

-----------------------------------------------------------------------------
(* Whole seconds and time.Time.                                            *)

\* Cutting to seconds is monotone, loses less than a second, and is undone
\* by counting the seconds in ticks.
LEMMA SecondsTyped == ASSUME NEW a \in Nat PROVE Seconds(a) \in Nat
  BY SessionsAssumption DEF Seconds

LEMMA SecondsMonotone ==
    ASSUME NEW a \in Nat, NEW b \in Nat, a <= b PROVE Seconds(a) <= Seconds(b)
  BY SessionsAssumption DEF Seconds

LEMMA SecondsCut == ASSUME NEW a \in Nat PROVE Seconds(a) * TicksPerSecond <= a
  BY SessionsAssumption DEF Seconds

LEMMA SecondsExact == ASSUME NEW a \in Nat PROVE Seconds(a * TicksPerSecond) = a
  BY SessionsAssumption DEF Seconds

-----------------------------------------------------------------------------
(* Types and the shape of the locals.                                      *)

\* A request touches neither the step nor the locals of another one.
LEMMA OthersKeep ==
    ASSUME pc \in [Procs -> Steps], job \in [Procs -> Job], NEW p \in Procs, OwnStep(p)
    PROVE  \A q \in Procs \ {p} : pc'[q] = pc[q] /\ job'[q] = job[q]
<1>1. CASE Start(p)
  BY <1>1 DEF Start, Begin, StartLogin, StartLogout, StartChangePassword, StartUpdateProfile,
              StartCleanup, StartRebuild
<1>2. CASE Acquire(p)
  BY <1>2 DEF Acquire, LockCredentials, RLock, Lock
<1>3. CASE VerifyLogin(p) \/ VerifyChange(p) \/ Reject(p) \/ Statement(p)
  BY <1>3 DEF VerifyLogin, VerifyChange, Reject, Statement, CreateSession, DeleteSessionByHash,
              ChangePasswordAndRevokeOtherSessions, UpdateProfile, DeleteExpiredSessions,
              StatementFails, Executed
<1>4. CASE IndexStep(p)
  BY <1>4 DEF IndexStep, Add, Remove, RemoveAllExcept, UpdateAdmin, PurgeExpired, Indexed
<1>5. CASE RUnlock(p) \/ UnlockCredentials(p)
  BY <1>5 DEF RUnlock, UnlockCredentials, Answer, AnswerChange, AnswerLogin, AnswerRotate,
              LogoutOf, Return
<1>6. CASE Drain(p) \/ Load(p) \/ LoadFails(p) \/ Replace(p) \/ Unlock(p)
  BY <1>6 DEF Drain, Load, LoadFails, Replace, Unlock, Return
<1>. QED BY <1>1, <1>2, <1>3, <1>4, <1>5, <1>6 DEF OwnStep, Proceed

\* What a change of one goroutine's locals needs to keep their type.
LEMMA NoJobTyped == NoJob \in Job
  BY DEF NoJob, Job

\* A request starts with locals of the right type and shape.
LEMMA StartShape ==
    ASSUME TypeOK, JobShape, NEW p \in Procs, Start(p)
    PROVE  /\ pc' \in [Procs -> Steps] /\ job' \in [Procs -> Job]
           /\ WellFormed(pc'[p], job'[p])
           /\ job'[p].now = clock /\ ~job'[p].done
           /\ job'[p].token \in cookies \cup {None} /\ job'[p].old \in cookies \cup {None}
           /\ pc[p] = "idle" /\ job[p].op = None
           /\ pc'[p] \in {"lockCredentials", "rlock", "lock"}
           /\ pc'[p] = "rlock" => job'[p].op \in {"logout", "cleanup"}
           /\ UNCHANGED <<db, cookies, index, locks, snapshot, clock, history>>
<1>1. /\ pc \in [Procs -> Steps] /\ job \in [Procs -> Job] /\ password \in Nat /\ clock \in Nat
      /\ cookies \subseteq Tokens /\ WellFormed(pc[p], job[p])
  BY DEF TypeOK, JobShape
<1>2. PICK s \in {"lockCredentials", "rlock", "lock"}, j \in Job :
          /\ Begin(p, s, j)
          /\ ~j.done /\ j.token \in cookies \cup {None} /\ j.old \in cookies \cup {None}
          /\ s = "lockCredentials" => j.op \in CredentialOps
          /\ s = "rlock" => j.op \in {"logout", "cleanup"}
          /\ s = "lock" => j.op = "rebuild"
          /\ j.op \in {"logout", "password", "profile"} => j.token \in Tokens
          /\ j.op = "profile" => j.profile \in Profiles
  <2>. DEFINE Starts(s, j) ==
          /\ Begin(p, s, j)
          /\ ~j.done /\ j.token \in cookies \cup {None} /\ j.old \in cookies \cup {None}
          /\ s = "lockCredentials" => j.op \in CredentialOps
          /\ s = "rlock" => j.op \in {"logout", "cleanup"}
          /\ s = "lock" => j.op = "rebuild"
          /\ j.op \in {"logout", "password", "profile"} => j.token \in Tokens
          /\ j.op = "profile" => j.profile \in Profiles
  <2>. USE <1>1 DEF NoJob, Job, Ops, CredentialOps
  <2>1. CASE StartLogin(p)
    <3>1. PICK claim \in 0..password, old \in cookies \cup {None} :
              Begin(p, "lockCredentials", [NoJob EXCEPT !.op = "login", !.claim = claim, !.old = old])
      BY <2>1 DEF StartLogin
    <3>2. claim \in Nat
      OBVIOUS
    <3>3. [NoJob EXCEPT !.op = "login", !.claim = claim, !.old = old] \in Job
      BY <3>2
    <3>4. Starts("lockCredentials", [NoJob EXCEPT !.op = "login", !.claim = claim, !.old = old])
      BY <3>1
    <3>. QED BY <3>3, <3>4
  <2>2. CASE StartLogout(p)
    <3>1. PICK t \in cookies : Begin(p, "rlock", [NoJob EXCEPT !.op = "logout", !.token = t])
      BY <2>2 DEF StartLogout
    <3>2. [NoJob EXCEPT !.op = "logout", !.token = t] \in Job
      OBVIOUS
    <3>3. Starts("rlock", [NoJob EXCEPT !.op = "logout", !.token = t])
      BY <3>1
    <3>. QED BY <3>2, <3>3
  <2>3. CASE StartChangePassword(p)
    <3>1. PICK t \in cookies, claim \in 0..password :
              Begin(p, "lockCredentials",
                    [NoJob EXCEPT !.op = "password", !.token = t, !.claim = claim])
      BY <2>3 DEF StartChangePassword
    <3>2. claim \in Nat
      OBVIOUS
    <3>3. [NoJob EXCEPT !.op = "password", !.token = t, !.claim = claim] \in Job
      BY <3>2
    <3>4. Starts("lockCredentials", [NoJob EXCEPT !.op = "password", !.token = t, !.claim = claim])
      BY <3>1
    <3>. QED BY <3>3, <3>4
  <2>4. CASE StartUpdateProfile(p)
    <3>1. PICK t \in cookies, new \in Profiles :
              Begin(p, "lockCredentials",
                    [NoJob EXCEPT !.op = "profile", !.token = t, !.profile = new])
      BY <2>4 DEF StartUpdateProfile
    <3>2. [NoJob EXCEPT !.op = "profile", !.token = t, !.profile = new] \in Job
      OBVIOUS
    <3>3. Starts("lockCredentials", [NoJob EXCEPT !.op = "profile", !.token = t, !.profile = new])
      BY <3>1
    <3>. QED BY <3>2, <3>3
  <2>5. CASE StartCleanup(p)
    <3>1. [NoJob EXCEPT !.op = "cleanup"] \in Job
      OBVIOUS
    <3>2. Starts("rlock", [NoJob EXCEPT !.op = "cleanup"])
      BY <2>5 DEF StartCleanup
    <3>. QED BY <3>1, <3>2
  <2>6. CASE StartRebuild(p)
    <3>1. [NoJob EXCEPT !.op = "rebuild"] \in Job
      OBVIOUS
    <3>2. Starts("lock", [NoJob EXCEPT !.op = "rebuild"])
      BY <2>6 DEF StartRebuild
    <3>. QED BY <3>1, <3>2
  <2>. QED BY <2>1, <2>2, <2>3, <2>4, <2>5, <2>6 DEF Start
<1>3. /\ pc[p] = "idle" /\ pc'[p] = s /\ job'[p] = [j EXCEPT !.now = clock]
      /\ pc' \in [Procs -> Steps] /\ job' \in [Procs -> Job]
      /\ UNCHANGED <<db, cookies, index, locks, snapshot, clock, history>>
  BY <1>1, <1>2 DEF Begin, Job, Steps
<1>4. /\ job'[p].op = j.op /\ job'[p].token = j.token /\ job'[p].old = j.old
      /\ job'[p].profile = j.profile /\ job'[p].done = j.done /\ job'[p].now = clock
  BY <1>2, <1>3 DEF Job
<1>5. WellFormed(pc'[p], job'[p])
  BY <1>1, <1>2, <1>3, <1>4, SessionsAssumption
     DEF WellFormed, Pending, Ends, CredentialOps, WriterSteps, LoadSteps, Ops
<1>. QED BY <1>1, <1>2, <1>3, <1>4, <1>5 DEF WellFormed

\* What the types say of the values of a table or the index that are there.
LEMMA ValuesTyped ==
    ASSUME TypeOK
    PROVE  /\ \A t \in Tokens : rows[t] # None => rows[t] \in Nat
           /\ \A t \in Tokens : index[t] # None =>
                  index[t] \in Identity /\ index[t].exp \in Nat /\ index[t].profile \in Profiles
           /\ \A now \in Nat : Active(now) \in [Tokens -> Identity \cup {None}]
<1>1. \A t \in Tokens : rows[t] # None => rows[t] \in Nat
  BY DEF TypeOK
<1>2. \A t \in Tokens : index[t] # None =>
          index[t] \in Identity /\ index[t].exp \in Nat /\ index[t].profile \in Profiles
  BY DEF TypeOK, Identity
<1>3. ASSUME NEW now \in Nat PROVE Active(now) \in [Tokens -> Identity \cup {None}]
  <2>1. ASSUME NEW t \in Tokens, rows[t] # None
        PROVE  [exp |-> rows[t] * TicksPerSecond, profile |-> profile] \in Identity
    <3>1. rows[t] * TicksPerSecond \in Nat
      BY <1>1, <2>1, SessionsAssumption
    <3>. QED BY <3>1 DEF TypeOK, Identity
  <2>. QED BY <2>1 DEF Active
<1>. QED BY <1>1, <1>2, <1>3

\* The locals of a request up to its statement.
LEMMA VerifyShape ==
    ASSUME TypeOK, JobShape, NEW p \in Procs,
           Acquire(p) \/ VerifyLogin(p) \/ VerifyChange(p) \/ Reject(p)
    PROVE  TypeOK' /\ WellFormed(pc'[p], job'[p]) /\ job'[p].now = job[p].now
<1>. USE DEF db, locks, history, Pending, Ends, CredentialOps, WriterSteps, LoadSteps
<1>1. /\ TypeOK /\ WellFormed(pc[p], job[p]) /\ job[p] \in Job
  BY DEF TypeOK, JobShape
<1>2. CASE Acquire(p)
  BY <1>1, <1>2 DEF Acquire, LockCredentials, RLock, Lock, TypeOK, WellFormed, Steps
<1>3. CASE VerifyLogin(p)
  <2>1. PICK t \in Tokens :
            /\ job' = [job EXCEPT ![p] = [@ EXCEPT !.token = t, !.profile = profile]]
            /\ proof' = [proof EXCEPT ![t] = job[p].claim]
            /\ pc[p] = "verify" /\ job[p].op = "login" /\ pc' = [pc EXCEPT ![p] = "rlock"]
            /\ UNCHANGED <<db, cookies, index, locks, snapshot, clock, ended>>
    BY <1>3 DEF VerifyLogin
  <2>2. profile \in Profiles /\ job[p].claim \in Nat
    BY <1>1 DEF TypeOK, Job
  <2>3. [job[p] EXCEPT !.token = t, !.profile = profile] \in Job
    BY <1>1, <2>2 DEF Job
  <2>4. job' \in [Procs -> Job] /\ proof' \in [Tokens -> Nat \cup {None}] /\ pc' \in [Procs -> Steps]
    BY <1>1, <2>1, <2>2, <2>3 DEF TypeOK, Steps
  <2>5. /\ job'[p].op = "login" /\ job'[p].token = t /\ job'[p].profile = profile
        /\ job'[p].done = job[p].done /\ job'[p].now = job[p].now /\ pc'[p] = "rlock"
    BY <1>1, <2>1 DEF TypeOK, Job
  <2>. QED BY <1>1, <2>1, <2>2, <2>4, <2>5 DEF TypeOK, WellFormed
<1>4. CASE VerifyChange(p) \/ Reject(p)
  BY <1>1, <1>4 DEF VerifyChange, Reject, TypeOK, WellFormed, Steps
<1>. QED BY <1>2, <1>3, <1>4

\* The same for the statements and the index.
LEMMA StatementShape ==
    ASSUME TypeOK, JobShape, NEW p \in Procs, Statement(p) \/ IndexStep(p)
    PROVE  TypeOK' /\ WellFormed(pc'[p], job'[p]) /\ job'[p].now = job[p].now
<1>. USE DEF db, locks, history
<1>1. /\ TypeOK /\ WellFormed(pc[p], job[p]) /\ job[p] \in Job /\ job[p].now \in Nat
  BY DEF TypeOK, JobShape, Job
<1>2. ASSUME Executed(p), pc[p] = "db"
      PROVE  /\ pc' \in [Procs -> Steps] /\ job' \in [Procs -> Job]
             /\ WellFormed(pc'[p], job'[p]) /\ job'[p].now = job[p].now
  <2>1. /\ pc'[p] = "index" /\ job'[p] = [job[p] EXCEPT !.done = TRUE]
        /\ pc' \in [Procs -> Steps] /\ job' \in [Procs -> Job]
    BY <1>1, <1>2 DEF Executed, TypeOK, Job, Steps
  <2>2. /\ job'[p].op = job[p].op /\ job'[p].token = job[p].token /\ job'[p].old = job[p].old
        /\ job'[p].profile = job[p].profile /\ job'[p].now = job[p].now /\ job'[p].done
    BY <1>1, <2>1 DEF Job
  <2>. QED
    BY <1>1, <1>2, <2>1, <2>2 DEF WellFormed, Pending, CredentialOps, WriterSteps, LoadSteps
<1>3. CASE CreateSession(p)
  <2>1. Seconds(job[p].now + Lifetime) \in Nat
    BY <1>1, SecondsTyped, SessionsAssumption
  <2>. QED BY <1>1, <1>2, <1>3, <2>1 DEF CreateSession, Executed, TypeOK
<1>4. CASE DeleteSessionByHash(p)
  BY <1>1, <1>2, <1>4 DEF DeleteSessionByHash, Executed, TypeOK
<1>5. CASE ChangePasswordAndRevokeOtherSessions(p)
  <2>1. RowsExcept(job[p].token) \in [Tokens -> Nat \cup {None}]
    BY <1>1 DEF RowsExcept, TypeOK
  <2>2. password + 1 \in Nat
    BY <1>1 DEF TypeOK
  <2>3. /\ Executed(p) /\ pc[p] = "db" /\ UNCHANGED <<profile, ended>>
        /\ password' = password + 1 /\ rows' = RowsExcept(job[p].token)
        /\ proof' = [proof EXCEPT ![job[p].token] = password + 1]
    BY <1>5 DEF ChangePasswordAndRevokeOtherSessions
  <2>4. proof' \in [Tokens -> Nat \cup {None}]
    BY <1>1, <2>2, <2>3 DEF TypeOK
  <2>. QED BY <1>1, <1>2, <2>1, <2>2, <2>3, <2>4 DEF Executed, TypeOK
<1>6. CASE UpdateProfile(p)
  BY <1>1, <1>2, <1>6 DEF UpdateProfile, Executed, TypeOK, WellFormed
<1>7. CASE DeleteExpiredSessions(p)
  <2>1. UnexpiredRows(job[p].now) \in [Tokens -> Nat \cup {None}]
    BY <1>1 DEF UnexpiredRows, TypeOK
  <2>. QED BY <1>1, <1>2, <1>7, <2>1 DEF DeleteExpiredSessions, Executed, TypeOK
<1>8. CASE StatementFails(p)
  BY <1>1, <1>8 DEF StatementFails, TypeOK, WellFormed, Pending, CredentialOps, WriterSteps,
                    LoadSteps, Steps
<1>9. ASSUME Indexed(p), pc[p] = "index", index' \in [Tokens -> Identity \cup {None}]
      PROVE  TypeOK' /\ WellFormed(pc'[p], job'[p]) /\ job'[p].now = job[p].now
  BY <1>1, <1>9 DEF Indexed, TypeOK, WellFormed, Pending, CredentialOps, WriterSteps, LoadSteps,
                    Steps
<1>10. CASE Add(p)
  <2>1. job[p].profile \in Profiles /\ job[p].token \in Tokens /\ job[p].now + Lifetime \in Nat
    BY <1>1, <1>10, SessionsAssumption DEF Add, WellFormed, Pending
  <2>. QED BY <1>1, <1>9, <1>10, <2>1 DEF Add, TypeOK, Identity
<1>11. CASE Remove(p)
  BY <1>1, <1>9, <1>11 DEF Remove, TypeOK
<1>12. CASE RemoveAllExcept(p)
  BY <1>1, <1>9, <1>12 DEF RemoveAllExcept, TypeOK
<1>13. CASE UpdateAdmin(p)
  <2>1. job[p].profile \in Profiles
    BY <1>1, <1>13 DEF UpdateAdmin, WellFormed
  <2>2. \A t \in Tokens : index[t] # None => [index[t] EXCEPT !.profile = job[p].profile] \in Identity
    BY <1>1, <2>1, ValuesTyped DEF Identity
  <2>. QED BY <1>9, <1>13, <2>2 DEF UpdateAdmin
<1>14. CASE PurgeExpired(p)
  BY <1>1, <1>9, <1>14 DEF PurgeExpired, TypeOK
<1>. QED BY <1>3, <1>4, <1>5, <1>6, <1>7, <1>8, <1>10, <1>11, <1>12, <1>13, <1>14
         DEF Statement, IndexStep

\* The deferred unlocks, with what the handler makes of the result.
LEMMA AnswerShape ==
    ASSUME TypeOK, JobShape, LocksAreHeld, NEW p \in Procs, RUnlock(p) \/ UnlockCredentials(p)
    PROVE  /\ TypeOK' /\ WellFormed(pc'[p], job'[p])
           /\ job'[p].now = job[p].now \/ job'[p] = NoJob
<1>. USE DEF db, locks, history, Ends, CredentialOps, WriterSteps, LoadSteps
<1>1. /\ TypeOK /\ WellFormed(pc[p], job[p]) /\ job[p] \in Job
      /\ pc \in [Procs -> Steps] /\ job \in [Procs -> Job]
      /\ NoJob \in Job /\ NoJob.op = None /\ ~NoJob.done
      /\ pc[p] \in {"runlock", "unlockCredentials"}
  BY NoJobTyped DEF TypeOK, JobShape, NoJob, RUnlock, UnlockCredentials
<1>. DEFINE Shaped == /\ pc' \in [Procs -> Steps] /\ job' \in [Procs -> Job]
                      /\ WellFormed(pc'[p], job'[p])
                      /\ job'[p].now = job[p].now \/ job'[p] = NoJob
<1>2. ASSUME Return(p) PROVE Shaped
  <2>1. pc'[p] = "idle" /\ job'[p] = NoJob /\ pc' \in [Procs -> Steps] /\ job' \in [Procs -> Job]
    BY <1>1, <1>2 DEF Return, Steps
  <2>. QED BY <1>1, <2>1, SessionsAssumption DEF WellFormed, Pending, Ops
<1>3. ASSUME NEW op \in {"rotate", "undo"}, NEW token \in Tokens, NEW other \in Tokens \cup {None},
             op = "rotate" => other \in Tokens, LogoutOf(p, op, token, other)
      PROVE  Shaped
  <2>1. [job[p] EXCEPT !.op = op, !.token = token, !.old = other, !.done = FALSE] \in Job
    BY <1>1 DEF Job, Ops
  <2>2. /\ pc'[p] = "rlock" /\ pc' \in [Procs -> Steps] /\ job' \in [Procs -> Job]
        /\ job'[p] = [job[p] EXCEPT !.op = op, !.token = token, !.old = other, !.done = FALSE]
    BY <1>1, <1>3, <2>1 DEF LogoutOf, Steps
  <2>3. /\ job'[p].op = op /\ job'[p].token = token /\ job'[p].old = other /\ ~job'[p].done
        /\ job'[p].now = job[p].now
    BY <1>1, <2>2 DEF Job
  <2>. QED BY <1>3, <2>2, <2>3, SessionsAssumption DEF WellFormed, Pending, Ops
<1>4. ASSUME Answer(p) PROVE Shaped /\ cookies' \subseteq Tokens /\ ended' \subseteq Tokens
  <2>1. CASE AnswerChange(p)
    <3>1. job[p].op = "logout" => job[p].token \in Tokens
      BY <1>1 DEF WellFormed
    <3>2. ended' \subseteq Tokens /\ cookies' = cookies
      BY <1>1, <2>1, <3>1 DEF AnswerChange, Revoked, Drawn, TypeOK
    <3>. QED BY <1>1, <1>2, <2>1, <3>2 DEF AnswerChange, TypeOK
  <2>2. CASE AnswerLogin(p)
    <3>1. job[p].op = "login" /\ (job[p].done => job[p].token \in Tokens)
      BY <1>1, <2>2 DEF AnswerLogin, WellFormed
    <3>2. job[p].old # None => job[p].old \in Tokens
      BY <1>1 DEF Job
    <3>3. CASE job[p].done /\ job[p].old # None
      <4>1. LogoutOf(p, "rotate", job[p].old, job[p].token)
        BY <2>2, <3>3 DEF AnswerLogin
      <4>2. Shaped
        BY <1>3, <3>1, <3>2, <3>3, <4>1
      <4>. QED BY <1>1, <4>1, <4>2 DEF LogoutOf, TypeOK
    <3>4. CASE ~(job[p].done /\ job[p].old # None)
      BY <1>1, <1>2, <2>2, <3>1, <3>4 DEF AnswerLogin, TypeOK
    <3>. QED BY <3>3, <3>4
  <2>3. CASE AnswerRotate(p)
    <3>1. job[p].op = "rotate" /\ job[p].token \in Tokens /\ job[p].old \in Tokens
      BY <1>1, <2>3 DEF AnswerRotate, WellFormed
    <3>2. CASE job[p].done
      BY <1>1, <1>2, <2>3, <3>1, <3>2 DEF AnswerRotate, TypeOK
    <3>3. CASE ~job[p].done
      <4>1. LogoutOf(p, "undo", job[p].old, None)
        BY <2>3, <3>3 DEF AnswerRotate
      <4>2. Shaped
        BY <1>3, <3>1, <4>1
      <4>. QED BY <1>1, <4>1, <4>2 DEF LogoutOf, TypeOK
    <3>. QED BY <3>2, <3>3
  <2>. QED BY <1>4, <2>1, <2>2, <2>3 DEF Answer
<1>5. CASE RUnlock(p)
  <2>1. CASE Answer(p)
    BY <1>1, <1>4, <1>5, <2>1 DEF RUnlock, TypeOK
  <2>2. CASE credentials = p /\ pc' = [pc EXCEPT ![p] = "unlockCredentials"]
             /\ UNCHANGED <<cookies, ended, job>>
    <3>1. TypeOK'
      BY <1>1, <1>5, <2>2 DEF RUnlock, TypeOK, Steps
    <3>2. /\ pc[p] = "runlock" /\ pc'[p] = "unlockCredentials" /\ job'[p] = job[p]
          /\ job[p].op \in CredentialOps
      BY <1>1, <1>5, <2>2 DEF RUnlock, LocksAreHeld, HoldsCredentials
    <3>. QED BY <1>1, <3>1, <3>2 DEF WellFormed, Pending
  <2>. QED BY <1>5, <2>1, <2>2 DEF RUnlock
<1>6. CASE UnlockCredentials(p)
  BY <1>1, <1>4, <1>6 DEF UnlockCredentials, TypeOK
<1>. QED BY <1>5, <1>6

\* The rebuild.
LEMMA RebuildShape ==
    ASSUME TypeOK, JobShape, NEW p \in Procs,
           Drain(p) \/ Load(p) \/ LoadFails(p) \/ Replace(p) \/ Unlock(p)
    PROVE  /\ TypeOK' /\ WellFormed(pc'[p], job'[p])
           /\ job'[p].now = job[p].now \/ job'[p] = NoJob
<1>. USE DEF db, locks, history
<1>1. /\ TypeOK /\ WellFormed(pc[p], job[p]) /\ job[p] \in Job /\ job[p].now \in Nat
      /\ NoJob \in Job /\ NoJob.op = None /\ ~NoJob.done
      /\ NoSessions \in [Tokens -> Identity \cup {None}]
  BY NoJobTyped DEF TypeOK, JobShape, NoJob, NoSessions, Job
<1>2. CASE Load(p)
  <2>1. Active(job[p].now) \in [Tokens -> Identity \cup {None}]
    BY <1>1, ValuesTyped
  <2>. QED BY <1>1, <1>2, <2>1 DEF Load, TypeOK, Steps, WellFormed, Pending, Ends, CredentialOps,
                                   WriterSteps, LoadSteps
<1>3. CASE Unlock(p)
  BY <1>1, <1>3, SessionsAssumption
     DEF Unlock, Return, TypeOK, Steps, WellFormed, Pending, Ends, CredentialOps, WriterSteps,
         LoadSteps, Ops
<1>4. CASE Drain(p) \/ LoadFails(p) \/ Replace(p)
  BY <1>1, <1>4 DEF Drain, LoadFails, Replace, TypeOK, Steps, WellFormed, Pending, Ends,
                    CredentialOps, WriterSteps, LoadSteps
<1>. QED BY <1>2, <1>3, <1>4

\* What a step does to the three locks, for the goroutine that makes it.
LEMMA LockMoves ==
    ASSUME Shape, NEW p \in Procs, OwnStep(p)
    PROVE  /\ \/ credentials' = credentials
              \/ credentials = None /\ credentials' = p
              \/ credentials = p /\ credentials' = None
           /\ credentials' = p <=> HoldsCredentials(pc'[p], job'[p])
           /\ \/ readers' = readers
              \/ writer = None /\ readers' = readers \cup {p}
              \/ readers' = readers \ {p}
           /\ p \in readers' <=> pc'[p] \in ReaderSteps
           /\ \/ writer' = writer
              \/ writer = None /\ writer' = p
              \/ writer = p /\ writer' = None
           /\ writer' = p <=> pc'[p] \in WriterSteps
           /\ pc'[p] \in LoadSteps => readers' = {}
<1>1. /\ WellFormed(pc[p], job[p]) /\ job[p] \in Job /\ p # None
      /\ pc \in [Procs -> Steps] /\ job \in [Procs -> Job]
      /\ credentials = p <=> HoldsCredentials(pc[p], job[p])
      /\ p \in readers <=> pc[p] \in ReaderSteps
      /\ writer = p <=> pc[p] \in WriterSteps
      /\ pc[p] \in LoadSteps => readers = {}
      /\ readers \subseteq Procs
  BY SessionsAssumption DEF Shape, TypeOK, JobShape, LocksAreHeld
<1>2. CASE Start(p)
  <2>1. /\ pc[p] = "idle" /\ job[p].op = None /\ UNCHANGED locks
        /\ pc'[p] \in {"lockCredentials", "rlock", "lock"}
        /\ pc'[p] = "rlock" => job'[p].op \in {"logout", "cleanup"}
    BY <1>2, StartShape DEF Shape
  <2>. QED BY <1>1, <2>1, SessionsAssumption
           DEF locks, HoldsCredentials, CredentialSteps, CredentialOps, ReaderSteps, WriterSteps,
               LoadSteps, Ops
<1>. USE DEF HoldsCredentials, CredentialSteps, CredentialOps, ReaderSteps, WriterSteps, LoadSteps,
             locks
<1>3. CASE Acquire(p)
  BY <1>1, <1>3 DEF Acquire, LockCredentials, CredentialsFree, RLock, Lock, WellFormed
<1>4. CASE VerifyLogin(p) \/ VerifyChange(p) \/ Reject(p)
  <2>1. pc[p] = "verify" /\ pc'[p] \in {"rlock", "unlockCredentials"} /\ UNCHANGED locks
    BY <1>1, <1>4 DEF VerifyLogin, VerifyChange, Reject
  <2>2. job'[p].op = job[p].op
    <3>1. CASE VerifyLogin(p)
      <4>1. PICK t \in Tokens : job'[p] = [job[p] EXCEPT !.token = t, !.profile = profile]
        BY <1>1, <3>1 DEF VerifyLogin
      <4>. QED BY <1>1, <4>1 DEF Job
    <3>2. CASE VerifyChange(p) \/ Reject(p)
      BY <3>2 DEF VerifyChange, Reject
    <3>. QED BY <1>4, <3>1, <3>2
  <2>. QED BY <1>1, <2>1, <2>2 DEF WellFormed
<1>5. CASE Statement(p)
  <2>1. /\ pc[p] = "db" /\ pc'[p] \in {"index", "runlock"}
        /\ job'[p].op = job[p].op /\ UNCHANGED locks
    BY <1>1, <1>5 DEF Statement, CreateSession, DeleteSessionByHash,
        ChangePasswordAndRevokeOtherSessions, UpdateProfile, DeleteExpiredSessions,
        StatementFails, Executed, Job
  <2>. QED BY <1>1, <2>1
<1>6. CASE IndexStep(p)
  <2>1. pc[p] = "index" /\ pc'[p] = "runlock" /\ job'[p] = job[p] /\ UNCHANGED locks
    BY <1>1, <1>6 DEF IndexStep, Add, Remove, RemoveAllExcept, UpdateAdmin, PurgeExpired, Indexed
  <2>. QED BY <1>1, <2>1
<1>7. ASSUME Answer(p)
      PROVE  /\ pc'[p] \in {"idle", "rlock"}
             /\ ~HoldsCredentials(pc'[p], job'[p])
  <2>1. CASE Return(p)
    BY <1>1, <2>1 DEF Return, NoJob
  <2>2. ASSUME NEW op \in {"rotate", "undo"}, NEW token, NEW other, LogoutOf(p, op, token, other)
        PROVE  pc'[p] = "rlock" /\ job'[p].op = op
    BY <1>1, <2>2 DEF LogoutOf, Job
  <2>. QED BY <1>7, <2>1, <2>2 DEF Answer, AnswerChange, AnswerLogin, AnswerRotate
<1>8. CASE RUnlock(p)
  BY <1>1, <1>7, <1>8 DEF RUnlock
<1>9. CASE UnlockCredentials(p)
  BY <1>1, <1>7, <1>9 DEF UnlockCredentials, WellFormed
<1>10. CASE Drain(p) \/ Load(p) \/ LoadFails(p) \/ Replace(p)
  BY <1>1, <1>10 DEF Drain, Drained, Load, LoadFails, Replace
<1>11. CASE Unlock(p)
  BY <1>1, <1>11 DEF Unlock, Return, NoJob
<1>. QED BY <1>2, <1>3, <1>4, <1>5, <1>6, <1>8, <1>9, <1>10, <1>11 DEF OwnStep, Proceed

\* A step of Next: of one goroutine, of the clock, or the end of the process.
LEMMA StepKinds ==
    ASSUME [Next]_vars
    PROVE  (\E p \in Procs : OwnStep(p)) \/ Restart \/ Tick \/ UNCHANGED vars
  BY DEF Next, OwnStep

LEMMA ShapeStep == Shape /\ [Next]_vars => Shape'
<1>. SUFFICES ASSUME Shape, [Next]_vars PROVE Shape'
  OBVIOUS
<1>0. /\ TypeOK /\ JobShape /\ NowIsPast /\ LocksAreHeld
      /\ pc \in [Procs -> Steps] /\ job \in [Procs -> Job] /\ clock \in Nat
      /\ \A q \in Procs : job[q].now \in Nat
  BY DEF Shape, TypeOK, Job
<1>1. ASSUME NEW p \in Procs, OwnStep(p) PROVE Shape'
  <2>0. \A q \in Procs \ {p} : pc'[q] = pc[q] /\ job'[q] = job[q]
    BY <1>0, <1>1, OthersKeep
  <2>1. /\ TypeOK' /\ WellFormed(pc'[p], job'[p])
        /\ job'[p].now \in {job[p].now, clock} \/ job'[p] = NoJob
    <3>1. CASE Start(p)
      BY <1>0, <3>1, StartShape DEF TypeOK, db, locks, history
    <3>2. CASE ~Start(p)
      BY <1>0, <1>1, <3>2, VerifyShape, StatementShape, AnswerShape, RebuildShape
         DEF OwnStep, Proceed
    <3>. QED BY <3>1, <3>2
  <2>2. clock' = clock
    <3>1. CASE Start(p)
      BY <1>0, <3>1, StartShape
    <3>2. CASE ~Start(p)
      BY <1>1, <3>2
         DEF OwnStep, Acquire, LockCredentials, RLock, Lock, Proceed, VerifyLogin, VerifyChange,
             Reject, Statement, CreateSession, DeleteSessionByHash,
             ChangePasswordAndRevokeOtherSessions, UpdateProfile, DeleteExpiredSessions,
             StatementFails, Executed, IndexStep, Add, Remove, RemoveAllExcept, UpdateAdmin,
             PurgeExpired, Indexed, RUnlock, UnlockCredentials, Drain, Load, LoadFails, Replace,
             Unlock
    <3>. QED BY <3>1, <3>2
  <2>3. JobShape'
    BY <1>0, <2>0, <2>1 DEF JobShape
  <2>4. NowIsPast'
    <3>1. job'[p].now <= clock
      BY <1>0, <2>1 DEF NowIsPast, NoJob
    <3>. QED BY <1>0, <2>0, <2>2, <3>1 DEF NowIsPast
  <2>5. LocksAreHeld'
    <3>1. \A q \in Procs \ {p} :
              /\ credentials' = q <=> HoldsCredentials(pc'[q], job'[q])
              /\ q \in readers' <=> pc'[q] \in ReaderSteps
              /\ writer' = q <=> pc'[q] \in WriterSteps
              /\ pc'[q] \in LoadSteps => readers' = {}
      <4>1. ASSUME NEW q \in Procs \ {p}
            PROVE  /\ credentials' = q <=> HoldsCredentials(pc[q], job[q])
                   /\ q \in readers' <=> pc[q] \in ReaderSteps
                   /\ writer' = q <=> pc[q] \in WriterSteps
                   /\ pc[q] \in LoadSteps => readers' = {}
        <5>1. /\ credentials = q <=> HoldsCredentials(pc[q], job[q])
              /\ q \in readers <=> pc[q] \in ReaderSteps
              /\ writer = q <=> pc[q] \in WriterSteps
              /\ pc[q] \in LoadSteps => readers = {}
              /\ q # None
          BY <1>0, SessionsAssumption DEF LocksAreHeld
        <5>2. /\ credentials' = q <=> credentials = q
              /\ q \in readers' <=> q \in readers
              /\ writer' = q <=> writer = q
          BY <1>1, <5>1, LockMoves
        <5>3. pc[q] \in LoadSteps => readers' = {}
          BY <1>1, <5>1, LockMoves DEF WriterSteps
        <5>. QED BY <5>1, <5>2, <5>3
      <4>. QED BY <2>0, <4>1
    <3>. QED BY <1>1, <3>1, LockMoves DEF LocksAreHeld
  <2>. QED BY <2>1, <2>3, <2>4, <2>5 DEF Shape
<1>2. CASE Restart
  <2>1. /\ \A q \in Procs : pc'[q] = "idle" /\ job'[q] = NoJob
        /\ pc' \in [Procs -> Steps] /\ job' \in [Procs -> Job]
        /\ credentials' = None /\ readers' = {} /\ writer' = None /\ clock' = clock
    BY <1>2, NoJobTyped DEF Restart, Steps
  <2>2. UnexpiredRows(clock) \in [Tokens -> Nat \cup {None}]
    BY <1>0 DEF UnexpiredRows, TypeOK
  <2>3. Active(clock) \in [Tokens -> Identity \cup {None}]
    BY <1>0, ValuesTyped
  <2>4. TypeOK'
    BY <1>0, <1>2, <2>1, <2>2, <2>3 DEF Restart, TypeOK, NoSessions, history
  <2>5. JobShape'
    BY <2>1, SessionsAssumption DEF JobShape, WellFormed, NoJob, Pending, Ends, CredentialOps,
                                    WriterSteps, LoadSteps, Ops
  <2>6. NowIsPast' /\ LocksAreHeld'
    BY <1>0, <2>1, SessionsAssumption
       DEF NowIsPast, NoJob, LocksAreHeld, HoldsCredentials, CredentialSteps, ReaderSteps,
           WriterSteps, LoadSteps
  <2>. QED BY <2>4, <2>5, <2>6 DEF Shape
<1>3. CASE Tick
  <2>1. clock' = clock + 1 /\ UNCHANGED <<db, cookies, index, locks, snapshot, history, pc, job>>
    BY <1>3 DEF Tick
  <2>2. TypeOK'
    BY <1>0, <2>1 DEF TypeOK, db, locks, history
  <2>3. NowIsPast'
    BY <1>0, <2>1 DEF NowIsPast
  <2>. QED BY <1>0, <2>1, <2>2, <2>3 DEF Shape, JobShape, LocksAreHeld, locks
<1>4. CASE UNCHANGED vars
  BY <1>4 DEF vars, db, locks, history, Shape, TypeOK, JobShape, NowIsPast, LocksAreHeld
<1>. QED BY <1>1, <1>2, <1>3, <1>4, StepKinds

LEMMA InitShape == Init => Shape
<1>. SUFFICES ASSUME Init PROVE Shape
  OBVIOUS
<1>1. TypeOK
  BY NoJobTyped DEF Init, TypeOK, NoSessions, Steps
<1>2. JobShape
  BY SessionsAssumption DEF Init, JobShape, WellFormed, NoJob, Pending, Ends, CredentialOps,
                            WriterSteps, LoadSteps, Ops
<1>3. NowIsPast /\ LocksAreHeld
  BY SessionsAssumption DEF Init, NoJob, NowIsPast, LocksAreHeld, HoldsCredentials,
                            CredentialSteps, ReaderSteps, WriterSteps, LoadSteps
<1>. QED BY <1>1, <1>2, <1>3 DEF Shape

LEMMA ShapeHolds == Spec => []Shape
  BY InitShape, ShapeStep, PTL DEF Spec

(***************************************************************************)
(* The tables, the index, the locks and the locals of every request keep   *)
(* their types, whatever overlaps, fails or restarts.                      *)
(***************************************************************************)
THEOREM SessionTypes == Spec => []TypeOK
<1>1. Shape => TypeOK
  BY DEF Shape
<1>. QED BY <1>1, ShapeHolds, PTL

-----------------------------------------------------------------------------
(* Steps that leave the tables, the index and the snapshot alone.          *)

\* The steps that do not: they draw a token, execute a statement, read the
\* tables for a rebuild, or change the index.
DataStep(p) ==
    \/ VerifyLogin(p) \/ CreateSession(p) \/ DeleteSessionByHash(p)
    \/ ChangePasswordAndRevokeOtherSessions(p) \/ UpdateProfile(p) \/ DeleteExpiredSessions(p)
    \/ IndexStep(p) \/ Load(p) \/ Replace(p)

\* What the history of a confirmed logout or revocation adds.
Confirms(p, t) == /\ job[p].done /\ pc[p] \in {"runlock", "unlockCredentials"}
                  /\ \/ job[p].op \in Ends /\ t = job[p].token
                     \/ job[p].op = "password" /\ t \in Drawn \ {job[p].token}

\* Whatever a goroutine knows afterwards it, or some browser, has known before.
LEMMA QuietStep ==
    ASSUME Shape, NEW p \in Procs, OwnStep(p), ~DataStep(p)
    PROVE  /\ UNCHANGED <<profile, password, rows, index, snapshot, proof, clock>>
           /\ pc[p] # "index" /\ pc'[p] \notin {"index", "replace"}
           /\ Pending(pc'[p], job'[p]) =>
                  Pending(pc[p], job[p]) /\ job'[p] = job[p] /\ UNCHANGED <<cookies, ended>>
           /\ job'[p].done => job'[p] = job[p]
           /\ {job'[p].token, job'[p].old} \subseteq {job[p].token, job[p].old, None} \cup cookies
           /\ cookies' \subseteq cookies \cup {job[p].token, job[p].old}
           /\ \A t \in ended' \ ended : Confirms(p, t)
<1>1. /\ WellFormed(pc[p], job[p]) /\ job[p] \in Job
      /\ pc \in [Procs -> Steps] /\ job \in [Procs -> Job]
      /\ credentials = p <=> HoldsCredentials(pc[p], job[p])
      /\ ~NoJob.done /\ NoJob.token = None /\ NoJob.old = None
  BY DEF Shape, TypeOK, JobShape, LocksAreHeld, NoJob
<1>. USE DEF db, locks, history, Pending
<1>2. CASE Start(p)
  <2>1. /\ UNCHANGED <<profile, password, rows, index, snapshot, proof, clock, cookies, ended>>
        /\ pc[p] = "idle" /\ pc'[p] \in {"lockCredentials", "rlock", "lock"}
        /\ pc'[p] = "rlock" => job'[p].op \in {"logout", "cleanup"}
        /\ job'[p].token \in cookies \cup {None} /\ job'[p].old \in cookies \cup {None}
        /\ ~job'[p].done
    BY <1>2, StartShape DEF Shape
  <2>. QED BY <2>1
<1>3. CASE Acquire(p)
  BY <1>1, <1>3 DEF Acquire, LockCredentials, RLock, Lock
<1>4. CASE VerifyChange(p) \/ Reject(p) \/ StatementFails(p)
  BY <1>1, <1>4 DEF VerifyChange, Reject, StatementFails
<1>5. ASSUME Answer(p), pc[p] \in {"runlock", "unlockCredentials"}
      PROVE  /\ pc'[p] \in {"idle", "rlock"}
             /\ ~Pending(pc'[p], job'[p])
             /\ ~job'[p].done
             /\ {job'[p].token, job'[p].old} \subseteq {job[p].token, job[p].old, None}
             /\ cookies' \subseteq cookies \cup {job[p].token, job[p].old}
             /\ \A t \in ended' \ ended : Confirms(p, t)
  <2>1. ASSUME Return(p)
        PROVE  pc'[p] = "idle" /\ job'[p] = NoJob
    BY <1>1, <2>1 DEF Return
  <2>2. ASSUME NEW op \in {"rotate", "undo"}, NEW token, NEW other, LogoutOf(p, op, token, other)
        PROVE  /\ pc'[p] = "rlock" /\ job'[p].op = op /\ job'[p].token = token
               /\ job'[p].old = other /\ ~job'[p].done /\ UNCHANGED <<cookies, ended>>
    BY <1>1, <2>2 DEF LogoutOf, Job
  <2>3. CASE AnswerChange(p)
    <3>1. \A t \in ended' \ ended : Confirms(p, t)
      BY <1>5, <2>3 DEF AnswerChange, Confirms, Revoked, Ends
    <3>2. Return(p) /\ cookies' = cookies
      BY <2>3 DEF AnswerChange
    <3>. QED BY <1>1, <2>1, <3>1, <3>2
  <2>4. CASE AnswerLogin(p)
    <3>1. CASE job[p].done /\ job[p].old # None
      <4>1. LogoutOf(p, "rotate", job[p].old, job[p].token)
        BY <2>4, <3>1 DEF AnswerLogin
      <4>. QED BY <2>2, <4>1
    <3>2. CASE ~(job[p].done /\ job[p].old # None)
      <4>1. Return(p) /\ ended' = ended /\ cookies' \subseteq cookies \cup {job[p].token}
        BY <2>4, <3>2 DEF AnswerLogin
      <4>. QED BY <1>1, <2>1, <4>1
    <3>. QED BY <3>1, <3>2
  <2>5. CASE AnswerRotate(p)
    <3>1. CASE job[p].done
      <4>1. /\ Return(p) /\ cookies' = cookies \cup {job[p].old}
            /\ ended' = ended \cup {job[p].token} /\ job[p].op = "rotate"
        BY <2>5, <3>1 DEF AnswerRotate
      <4>. QED BY <1>1, <1>5, <2>1, <3>1, <4>1 DEF Confirms, Ends
    <3>2. CASE ~job[p].done
      <4>1. LogoutOf(p, "undo", job[p].old, None)
        BY <2>5, <3>2 DEF AnswerRotate
      <4>. QED BY <2>2, <4>1
    <3>. QED BY <3>1, <3>2
  <2>. QED BY <1>5, <2>3, <2>4, <2>5 DEF Answer
<1>6. CASE RUnlock(p)
  <2>1. CASE Answer(p)
    BY <1>5, <1>6, <2>1 DEF RUnlock
  <2>2. CASE ~Answer(p)
    BY <1>1, <1>6, <2>2 DEF RUnlock
  <2>. QED BY <2>1, <2>2
<1>7. CASE UnlockCredentials(p)
  BY <1>5, <1>7 DEF UnlockCredentials
<1>8. CASE Drain(p) \/ LoadFails(p)
  BY <1>1, <1>8 DEF Drain, LoadFails
<1>9. CASE Unlock(p)
  BY <1>1, <1>9 DEF Unlock, Return
<1>. QED BY <1>2, <1>3, <1>4, <1>6, <1>7, <1>8, <1>9 DEF OwnStep, Proceed, Statement, DataStep

-----------------------------------------------------------------------------
(* What a data step does to the locals, and who can be beside it.          *)

\* A data step only marks its locals, or draws the token of a login.
LEMMA DataMoves ==
    ASSUME Shape, NEW p \in Procs, DataStep(p), ~VerifyLogin(p)
    PROVE  /\ UNCHANGED <<cookies, ended, clock, locks>>
           /\ job'[p].op = job[p].op /\ job'[p].token = job[p].token /\ job'[p].old = job[p].old
           /\ job'[p].profile = job[p].profile /\ job'[p].now = job[p].now
           /\ \/ pc[p] = "db" /\ pc'[p] = "index" /\ job'[p].done
                 /\ job[p].op \notin {"rebuild", None} /\ UNCHANGED <<index, snapshot>>
              \/ pc[p] = "index" /\ pc'[p] = "runlock" /\ job'[p] = job[p]
                 /\ UNCHANGED <<profile, password, rows, snapshot, proof>>
              \/ pc[p] = "load" /\ pc'[p] = "replace" /\ job'[p] = job[p] /\ Load(p)
              \/ pc[p] = "replace" /\ pc'[p] = "unlock" /\ job'[p] = job[p] /\ Replace(p)
<1>1. /\ WellFormed(pc[p], job[p]) /\ job[p] \in Job
      /\ pc \in [Procs -> Steps] /\ job \in [Procs -> Job]
  BY DEF Shape, TypeOK, JobShape
<1>. USE DEF db, locks, history
<1>2. ASSUME Executed(p)
      PROVE  /\ pc'[p] = "index" /\ job'[p].done
             /\ job'[p].op = job[p].op /\ job'[p].token = job[p].token /\ job'[p].old = job[p].old
             /\ job'[p].profile = job[p].profile /\ job'[p].now = job[p].now
  BY <1>1, <1>2 DEF Executed, Job
<1>3. CASE \/ CreateSession(p) \/ DeleteSessionByHash(p) \/ UpdateProfile(p)
           \/ ChangePasswordAndRevokeOtherSessions(p) \/ DeleteExpiredSessions(p)
  <2>1. /\ Executed(p) /\ pc[p] = "db" /\ UNCHANGED ended
        /\ job[p].op \in {"login", "password", "profile", "cleanup"} \cup Ends
    BY <1>3 DEF CreateSession, DeleteSessionByHash, UpdateProfile, DeleteExpiredSessions,
                ChangePasswordAndRevokeOtherSessions
  <2>2. job[p].op \notin {"rebuild", None}
    BY <2>1, SessionsAssumption DEF Ends, Ops
  <2>. QED BY <1>2, <2>1, <2>2 DEF Executed
<1>4. CASE IndexStep(p)
  BY <1>1, <1>4 DEF IndexStep, Add, Remove, RemoveAllExcept, UpdateAdmin, PurgeExpired, Indexed
<1>5. CASE Load(p) \/ Replace(p)
  BY <1>1, <1>5 DEF Load, Replace
<1>. QED BY <1>3, <1>4, <1>5 DEF DataStep

\* Service.credentialsMu has one holder, and a login that has yet to reach the
\* index is that holder.
LEMMA OneHolder ==
    ASSUME Shape, NEW p \in Procs, NEW q \in Procs,
           HoldsCredentials(pc[p], job[p]), HoldsCredentials(pc[q], job[q])
    PROVE  p = q
  BY DEF Shape, LocksAreHeld

LEMMA PendingHolds ==
    ASSUME NEW s, NEW j, Pending(s, j) PROVE HoldsCredentials(s, j)
  BY DEF Pending, HoldsCredentials, CredentialOps, CredentialSteps

\* While a rebuild loads, nobody is between its statement and its release of
\* the barrier, and no other rebuild has the barrier.
LEMMA NobodyBesideRebuild ==
    ASSUME Shape, NEW p \in Procs, pc[p] \in LoadSteps, NEW q \in Procs
    PROVE  pc[q] \notin ReaderSteps /\ (pc[q] \in WriterSteps => q = p)
  BY DEF Shape, LocksAreHeld, WriterSteps

\* What a data step can put into the table and the index.
LEMMA DataWrites ==
    ASSUME Shape, SnapshotIsCurrent, NEW p \in Procs, DataStep(p), NEW t \in Tokens
    PROVE  /\ rows'[t] # None => rows[t] # None \/ (CreateSession(p) /\ t = job[p].token)
           /\ index'[t] # None => \/ index[t] # None
                                  \/ Add(p) /\ t = job[p].token
                                  \/ Replace(p) /\ rows[t] # None
           /\ proof[t] # None => proof'[t] # None
<1>1. /\ rows \in [Tokens -> Nat \cup {None}] /\ index \in [Tokens -> Identity \cup {None}]
      /\ proof \in [Tokens -> Nat \cup {None}] /\ password \in Nat /\ job[p].claim \in Nat
      /\ \A n \in Nat : n # None
  BY SessionsAssumption DEF Shape, TypeOK, Job
<1>. USE DEF db, locks, history
<1>2. CASE VerifyLogin(p)
  <2>1. PICK u \in Tokens : proof' = [proof EXCEPT ![u] = job[p].claim]
    BY <1>2 DEF VerifyLogin
  <2>. QED BY <1>1, <1>2, <2>1 DEF VerifyLogin
<1>3. CASE CreateSession(p)
  BY <1>1, <1>3 DEF CreateSession, Executed
<1>4. CASE DeleteSessionByHash(p) \/ UpdateProfile(p) \/ DeleteExpiredSessions(p)
  BY <1>1, <1>4 DEF DeleteSessionByHash, UpdateProfile, DeleteExpiredSessions, UnexpiredRows, Executed
<1>5. CASE ChangePasswordAndRevokeOtherSessions(p)
  <2>1. password + 1 \in Nat
    BY <1>1
  <2>2. /\ rows' = RowsExcept(job[p].token) /\ UNCHANGED index
        /\ proof' = [proof EXCEPT ![job[p].token] = password + 1]
    BY <1>5 DEF ChangePasswordAndRevokeOtherSessions, Executed
  <2>. QED BY <1>1, <2>1, <2>2 DEF RowsExcept
<1>6. CASE Add(p)
  BY <1>1, <1>6 DEF Add, Indexed
<1>7. CASE Remove(p) \/ RemoveAllExcept(p) \/ UpdateAdmin(p) \/ PurgeExpired(p)
  BY <1>1, <1>7 DEF Remove, RemoveAllExcept, UpdateAdmin, PurgeExpired, Indexed
<1>8. CASE Load(p)
  BY <1>8 DEF Load
<1>9. CASE Replace(p)
  BY <1>9 DEF Replace, SnapshotIsCurrent, Active
<1>. QED BY <1>2, <1>3, <1>4, <1>5, <1>6, <1>7, <1>8, <1>9 DEF DataStep, IndexStep

-----------------------------------------------------------------------------
(* Tokens.                                                                 *)

\* What a goroutine's own step leaves of TokenInv.
LEMMA TokensKept ==
    ASSUME Shape, Shape', TokenInv, RowInv, NEW p \in Procs, OwnStep(p)
    PROVE  TokenInv'
<1>0. /\ TypeOK /\ TokensAreDrawn /\ LoginsAreFresh /\ SnapshotIsCurrent
      /\ WellFormed(pc[p], job[p]) /\ None \notin Tokens
      /\ cookies' \subseteq Tokens /\ ended' \subseteq Tokens
      /\ \A q \in Procs : {job'[q].token, job'[q].old} \subseteq Tokens \cup {None}
      /\ \A q \in Procs : WellFormed(pc'[q], job'[q])
  BY SessionsAssumption DEF Shape, TypeOK, JobShape, TokenInv, RowInv, Job
<1>1. \A q \in Procs \ {p} : pc'[q] = pc[q] /\ job'[q] = job[q]
  BY <1>0, OthersKeep DEF TypeOK
<1>2. CASE ~DataStep(p)
  <2>1. /\ UNCHANGED <<rows, index, proof>>
        /\ Pending(pc'[p], job'[p]) =>
               /\ Pending(pc[p], job[p]) /\ job'[p] = job[p] /\ UNCHANGED <<cookies, ended>>
               /\ pc[p] # "index"
        /\ {job'[p].token, job'[p].old} \subseteq {job[p].token, job[p].old, None} \cup cookies
        /\ cookies' \subseteq cookies \cup {job[p].token, job[p].old}
        /\ \A t \in ended' \ ended : Confirms(p, t)
    BY <1>2, QuietStep
  <2>2. Drawn' = Drawn
    BY <2>1 DEF Drawn
  <2>3. \A t \in ended' \ ended : t \in Drawn
    BY <1>0, <2>1 DEF Confirms, TokensAreDrawn, WellFormed
  <2>4. TokensAreDrawn'
    BY <1>0, <1>1, <2>1, <2>2, <2>3 DEF TokensAreDrawn
  <2>5. ASSUME NEW q \in Procs, Pending(pc'[q], job'[q])
        PROVE  /\ job'[q].token \notin cookies' \cup ended'
               /\ index'[job'[q].token] = None
               /\ pc'[q] # "index" => rows'[job'[q].token] = None
               /\ \A r \in Procs \ {q} : job'[q].token \notin {job'[r].token, job'[r].old}
    <3>1. CASE q = p
      BY <1>0, <1>1, <2>1, <2>5, <3>1 DEF LoginsAreFresh
    <3>2. CASE q # p
      <4>1. /\ pc'[q] = pc[q] /\ job'[q] = job[q] /\ Pending(pc[q], job[q])
            /\ job[q].token \in Tokens
        BY <1>0, <1>1, <2>5, <3>2 DEF WellFormed
      <4>2. /\ job[q].token \notin cookies \cup ended
            /\ job[q].token \notin {job[p].token, job[p].old}
            /\ index[job[q].token] = None
            /\ pc[q] # "index" => rows[job[q].token] = None
            /\ \A r \in Procs \ {q} : job[q].token \notin {job[r].token, job[r].old}
        BY <1>0, <3>2, <4>1 DEF LoginsAreFresh
      <4>3. ~Confirms(p, job[q].token)
        <5>1. CASE job[p].op = "password"
          BY <3>2, <4>1, <5>1, OneHolder, PendingHolds
             DEF Confirms, HoldsCredentials, CredentialOps, CredentialSteps
        <5>. QED BY <4>2, <5>1 DEF Confirms
      <4>4. job[q].token \notin cookies' \cup ended'
        BY <2>1, <4>2, <4>3
      <4>5. job[q].token \notin {job'[p].token, job'[p].old}
        BY <1>0, <2>1, <4>1, <4>2
      <4>. QED BY <1>1, <2>1, <4>1, <4>2, <4>4, <4>5
    <3>. QED BY <3>1, <3>2
  <2>. QED BY <2>4, <2>5 DEF TokenInv, LoginsAreFresh
<1>3. CASE VerifyLogin(p)
  <2>1. PICK t \in Tokens \ Drawn :
            /\ job' = [job EXCEPT ![p] = [@ EXCEPT !.token = t, !.profile = profile]]
            /\ proof' = [proof EXCEPT ![t] = job[p].claim]
            /\ pc[p] = "verify" /\ job[p].op = "login" /\ pc' = [pc EXCEPT ![p] = "rlock"]
            /\ UNCHANGED <<db, cookies, index, locks, snapshot, clock, ended>>
    BY <1>3 DEF VerifyLogin
  <2>2. /\ job'[p].op = "login" /\ job'[p].token = t /\ job'[p].old = job[p].old
        /\ pc'[p] = "rlock" /\ job[p].claim # None
    BY <1>0, <2>1, SessionsAssumption DEF TypeOK, Job
  <2>3. Drawn' = Drawn \cup {t}
    BY <1>0, <2>1, <2>2 DEF Drawn, TypeOK
  <2>4. /\ t \notin cookies \cup ended /\ rows[t] = None /\ index[t] = None
        /\ \A q \in Procs : t \notin {job[q].token, job[q].old}
    BY <1>0, <2>1 DEF TokensAreDrawn
  <2>5. TokensAreDrawn'
    BY <1>0, <1>1, <2>1, <2>2, <2>3 DEF TokensAreDrawn, db
  <2>6. ASSUME NEW q \in Procs, Pending(pc'[q], job'[q])
        PROVE  q = p
    <3>1. HoldsCredentials(pc[p], job[p])
      BY <2>1 DEF HoldsCredentials, CredentialOps, CredentialSteps
    <3>. QED BY <1>1, <2>6, <3>1, OneHolder, PendingHolds
  <2>7. LoginsAreFresh'
    BY <1>1, <2>1, <2>2, <2>4, <2>6 DEF LoginsAreFresh, db
  <2>. QED BY <2>5, <2>7 DEF TokenInv
<1>4. CASE DataStep(p) /\ ~VerifyLogin(p)
  <2>1. /\ UNCHANGED <<cookies, ended>>
        /\ job'[p].op = job[p].op /\ job'[p].token = job[p].token /\ job'[p].old = job[p].old
        /\ \/ pc[p] = "db" /\ pc'[p] = "index" /\ UNCHANGED index
           \/ pc[p] = "index" /\ pc'[p] = "runlock"
           \/ pc[p] = "load" /\ pc'[p] = "replace"
           \/ pc[p] = "replace" /\ pc'[p] = "unlock" /\ Replace(p)
    BY <1>4, DataMoves
  <2>2. Drawn \subseteq Drawn'
    BY <1>0, <1>4, DataWrites DEF Drawn
  <2>3. (CreateSession(p) \/ Add(p)) => job[p].token \in Drawn /\ Pending(pc[p], job[p])
    BY <1>0 DEF CreateSession, Add, TokensAreDrawn, WellFormed, Pending
  <2>4. \A t \in Tokens : (rows'[t] # None \/ index'[t] # None) => t \in Drawn
    BY <1>0, <1>4, <2>3, DataWrites DEF TokensAreDrawn
  <2>5. TokensAreDrawn'
    BY <1>0, <1>1, <2>1, <2>2, <2>4 DEF TokensAreDrawn
  <2>6. ASSUME NEW q \in Procs, Pending(pc'[q], job'[q])
        PROVE  /\ job'[q].token \notin cookies' \cup ended'
               /\ index'[job'[q].token] = None
               /\ pc'[q] # "index" => rows'[job'[q].token] = None
               /\ \A r \in Procs \ {q} : job'[q].token \notin {job'[r].token, job'[r].old}
    <3>1. /\ Pending(pc[q], job[q]) /\ job'[q].token = job[q].token
          /\ q = p => pc[q] = "db" /\ pc'[q] = "index" /\ UNCHANGED index
          /\ q # p => pc'[q] = pc[q]
      BY <1>1, <2>1, <2>6 DEF Pending
    <3>2. /\ job[q].token \notin cookies \cup ended /\ job[q].token \in Tokens
          /\ index[job[q].token] = None
          /\ pc[q] # "index" => rows[job[q].token] = None
          /\ \A r \in Procs \ {q} : job[q].token \notin {job[r].token, job[r].old}
      BY <1>0, <3>1 DEF LoginsAreFresh, Shape, JobShape, WellFormed
    <3>3. \A r \in Procs \ {q} : job[q].token \notin {job'[r].token, job'[r].old}
      BY <1>1, <2>1, <3>2
    <3>4. CASE q = p
      BY <2>1, <3>1, <3>2, <3>3, <3>4
    <3>5. CASE q # p
      <4>1. job[q].token # job[p].token
        BY <3>2, <3>5
      <4>2. pc[q] # "index" => rows'[job[q].token] = None
        BY <1>0, <1>4, <3>2, <4>1, DataWrites
      <4>3. ~(Replace(p) /\ rows[job[q].token] # None)
        <5>1. Replace(p) => pc[q] # "index"
          BY NobodyBesideRebuild DEF Replace, LoadSteps, ReaderSteps
        <5>. QED BY <3>2, <5>1
      <4>4. index'[job[q].token] = None
        BY <1>0, <1>4, <3>2, <4>1, <4>3, DataWrites
      <4>. QED BY <2>1, <3>1, <3>2, <3>3, <3>5, <4>2, <4>4
    <3>. QED BY <3>4, <3>5
  <2>. QED BY <2>5, <2>6 DEF TokenInv, LoginsAreFresh
<1>. QED BY <1>2, <1>3, <1>4 DEF DataStep

LEMMA TokenStep == Shape /\ Shape' /\ TokenInv /\ RowInv /\ [Next]_vars => TokenInv'
<1>. SUFFICES ASSUME Shape, Shape', TokenInv, RowInv, [Next]_vars PROVE TokenInv'
  OBVIOUS
<1>1. CASE Restart
  <2>1. /\ \A q \in Procs : pc'[q] = "idle" /\ job'[q] = NoJob
        /\ UNCHANGED <<cookies, ended, proof>>
        /\ rows' = UnexpiredRows(clock) /\ index' = Active(clock)
    BY <1>1 DEF Restart, history
  <2>2. \A t \in Tokens : (rows'[t] # None \/ index'[t] # None) => rows[t] # None
    BY <2>1 DEF UnexpiredRows, Active
  <2>3. Drawn' = Drawn
    BY <2>1 DEF Drawn
  <2>. QED BY <2>1, <2>2, <2>3 DEF TokenInv, TokensAreDrawn, LoginsAreFresh, NoJob, Pending
<1>2. CASE Tick \/ UNCHANGED vars
  <2>1. UNCHANGED <<rows, index, cookies, ended, proof, pc, job>>
    BY <1>2 DEF Tick, vars, db, history
  <2>2. Drawn' = Drawn
    BY <2>1 DEF Drawn
  <2>. QED BY <2>1, <2>2 DEF TokenInv, TokensAreDrawn, LoginsAreFresh
<1>. QED BY <1>1, <1>2, TokensKept, StepKinds

-----------------------------------------------------------------------------
(* Rows, and what a request under way relies on.                           *)

\* The administrator does not change under a request that holds the mutex.
LEMMA CredentialsProtect ==
    ASSUME Shape, NEW p \in Procs, OwnStep(p), NEW q \in Procs \ {p},
           HoldsCredentials(pc[q], job[q])
    PROVE  UNCHANGED <<profile, password, proof>> /\ ~HoldsCredentials(pc[p], job[p])
<1>1. ~HoldsCredentials(pc[p], job[p])
  BY OneHolder
<1>2. ~VerifyLogin(p) /\ ~ChangePasswordAndRevokeOtherSessions(p) /\ ~UpdateProfile(p)
  BY <1>1 DEF HoldsCredentials, CredentialOps, CredentialSteps, VerifyLogin,
              ChangePasswordAndRevokeOtherSessions, UpdateProfile
<1>3. CASE ~DataStep(p)
  BY <1>1, <1>3, QuietStep
<1>4. CASE CreateSession(p) \/ DeleteSessionByHash(p) \/ DeleteExpiredSessions(p)
  BY <1>1, <1>4 DEF CreateSession, DeleteSessionByHash, DeleteExpiredSessions, history
<1>5. CASE IndexStep(p) \/ Load(p) \/ Replace(p)
  BY <1>1, <1>5 DEF IndexStep, Add, Remove, RemoveAllExcept, UpdateAdmin, PurgeExpired, Indexed,
                    Load, Replace, db, history
<1>. QED BY <1>2, <1>3, <1>4, <1>5 DEF DataStep

\* The steps of others leave a row alone or delete it: its session is ended,
\* revoked, or in its last second.
LEMMA RowsMove ==
    ASSUME Shape, NEW p \in Procs, DataStep(p), NEW t \in Tokens
    PROVE  \/ rows'[t] = rows[t]
           \/ CreateSession(p) /\ t = job[p].token
           \/ rows'[t] = None /\ DeleteSessionByHash(p) /\ t = job[p].token
           \/ rows'[t] = None /\ ChangePasswordAndRevokeOtherSessions(p) /\ t # job[p].token
           \/ rows'[t] = None /\ DeleteExpiredSessions(p) /\ rows[t] <= Seconds(clock)
<1>1. /\ rows \in [Tokens -> Nat \cup {None}] /\ job[p].now \in Nat /\ clock \in Nat
      /\ job[p].now <= clock
  BY DEF Shape, TypeOK, Job, NowIsPast
<1>2. CASE CreateSession(p)
  BY <1>1, <1>2 DEF CreateSession
<1>3. CASE DeleteSessionByHash(p)
  BY <1>1, <1>3 DEF DeleteSessionByHash
<1>4. CASE ChangePasswordAndRevokeOtherSessions(p)
  BY <1>1, <1>4 DEF ChangePasswordAndRevokeOtherSessions, RowsExcept
<1>5. CASE DeleteExpiredSessions(p)
  <2>1. Seconds(job[p].now) <= Seconds(clock) /\ Seconds(job[p].now) \in Nat /\ Seconds(clock) \in Nat
    BY <1>1, SecondsMonotone, SecondsTyped
  <2>2. rows'[t] = IF rows[t] # None /\ rows[t] <= Seconds(job[p].now) THEN None ELSE rows[t]
    BY <1>5 DEF DeleteExpiredSessions, UnexpiredRows, RowExpired
  <2>. QED BY <1>1, <1>5, <2>1, <2>2
<1>6. CASE VerifyLogin(p) \/ UpdateProfile(p) \/ IndexStep(p) \/ Load(p) \/ Replace(p)
  BY <1>6 DEF VerifyLogin, UpdateProfile, IndexStep, Add, Remove, RemoveAllExcept, UpdateAdmin,
              PurgeExpired, Indexed, Load, Replace, db
<1>. QED BY <1>2, <1>3, <1>4, <1>5, <1>6 DEF DataStep

\* What a request relies on, the steps of the others leave true.
LEMMA OthersRely ==
    ASSUME Shape, TokenInv, RowInv, NEW p \in Procs, OwnStep(p), NEW q \in Procs \ {p}
    PROVE  Relies(pc[q], job[q])'
<1>0. /\ WellFormed(pc[q], job[q]) /\ Relies(pc[q], job[q]) /\ SnapshotIsCurrent
      /\ WellFormed(pc[p], job[p]) /\ LoginsAreFresh /\ None \notin Tokens
      /\ pc'[q] = pc[q] /\ job'[q] = job[q] /\ clock \in Nat /\ job[q].now + Lifetime \in Nat
  BY OthersKeep, SessionsAssumption
     DEF Shape, TypeOK, JobShape, TokenInv, RowInv, RequestsRely, Job
<1>1. CASE ~DataStep(p)
  <2>1. UNCHANGED <<profile, password, rows, index, proof, clock>>
    BY <1>1, QuietStep
  <2>. QED BY <1>0, <2>1 DEF Relies
<1>2. CASE VerifyLogin(p)
  <2>1. UNCHANGED <<rows, index, clock, profile, password>>
    BY <1>2 DEF VerifyLogin, db
  <2>2. HoldsCredentials(pc[p], job[p])
    BY <1>2 DEF VerifyLogin, HoldsCredentials, CredentialOps, CredentialSteps
  <2>3. ~Pending(pc[q], job[q])
    BY <2>2, OneHolder, PendingHolds
  <2>. QED BY <1>0, <2>1, <2>3 DEF Relies
<1>3. CASE DataStep(p) /\ ~VerifyLogin(p)
  <2>1. clock' = clock
    BY <1>3, DataMoves
  <2>2. HoldsCredentials(pc[q], job[q]) => UNCHANGED <<profile, password, proof>>
    BY CredentialsProtect
  <2>3. Pending(pc[q], job[q]) => proof'[job[q].token] = password' /\ profile' = job[q].profile
    BY <1>0, <2>2, PendingHolds DEF Relies
  <2>4. (job[q].op = "login" /\ pc[q] = "index") =>
           \/ rows'[job[q].token] = Seconds(job[q].now + Lifetime)
           \/ rows'[job[q].token] = None /\ Seconds(job[q].now + Lifetime) <= Seconds(clock')
    <3>1. SUFFICES ASSUME job[q].op = "login", pc[q] = "index"
                   PROVE  \/ rows'[job[q].token] = Seconds(job[q].now + Lifetime)
                          \/ /\ rows'[job[q].token] = None
                             /\ Seconds(job[q].now + Lifetime) <= Seconds(clock)
      BY <2>1
    <3>2. /\ Pending(pc[q], job[q]) /\ HoldsCredentials(pc[q], job[q]) /\ job[q].token \in Tokens
          /\ job[q].token # job[p].token
      BY <1>0, <3>1, PendingHolds DEF Pending, WellFormed, LoginsAreFresh
    <3>3. ~ChangePasswordAndRevokeOtherSessions(p)
      BY <3>2, CredentialsProtect DEF ChangePasswordAndRevokeOtherSessions, HoldsCredentials,
                                      CredentialOps, CredentialSteps
    <3>4. \/ rows'[job[q].token] = rows[job[q].token]
          \/ rows'[job[q].token] = None /\ rows[job[q].token] <= Seconds(clock)
      BY <1>3, <3>2, <3>3, RowsMove
    <3>5. \/ rows[job[q].token] = Seconds(job[q].now + Lifetime)
          \/ rows[job[q].token] = None /\ Seconds(job[q].now + Lifetime) <= Seconds(clock)
      BY <1>0, <3>1 DEF Relies
    <3>6. Seconds(job[q].now + Lifetime) \in Nat
      BY <1>0, SecondsTyped
    <3>7. CASE rows[job[q].token] = Seconds(job[q].now + Lifetime)
      BY <3>4, <3>7
    <3>8. CASE /\ rows[job[q].token] = None
               /\ Seconds(job[q].now + Lifetime) <= Seconds(clock)
      BY <3>4, <3>8
    <3>. QED BY <3>5, <3>7, <3>8
  <2>5. ASSUME NEW t \in Tokens, rows[t] = None,
               CreateSession(p) \/ Add(p) => t # job[p].token
        PROVE  rows'[t] = None /\ (index[t] = None => index'[t] = None)
    BY <1>0, <1>3, <2>5, DataWrites
  <2>6. (job[q].op \in Ends /\ job[q].done) =>
           /\ rows'[job[q].token] = None
           /\ pc[q] # "index" => index'[job[q].token] = None
    <3>1. SUFFICES ASSUME job[q].op \in Ends, job[q].done
                   PROVE  /\ rows'[job[q].token] = None
                          /\ pc[q] # "index" => index'[job[q].token] = None
      OBVIOUS
    <3>2. CreateSession(p) \/ Add(p) => job[q].token # job[p].token
      BY <1>0 DEF CreateSession, Add, LoginsAreFresh, Pending
    <3>3. /\ job[q].token \in Tokens /\ rows[job[q].token] = None
          /\ pc[q] # "index" => index[job[q].token] = None
      BY <1>0, <3>1 DEF WellFormed, Relies
    <3>. QED BY <2>5, <3>2, <3>3
  <2>7. (job[q].op = "password" /\ job[q].done) =>
           \A t \in Tokens \ {job[q].token} : /\ rows'[t] = None
                                              /\ pc[q] # "index" => index'[t] = None
    <3>1. SUFFICES ASSUME job[q].op = "password", job[q].done, NEW t \in Tokens \ {job[q].token}
                   PROVE  rows'[t] = None /\ (pc[q] # "index" => index'[t] = None)
      OBVIOUS
    <3>2. HoldsCredentials(pc[q], job[q])
      BY <1>0, <3>1 DEF WellFormed, HoldsCredentials, CredentialOps, CredentialSteps
    <3>3. ~CreateSession(p) /\ ~Add(p)
      BY <3>2, CredentialsProtect DEF CreateSession, Add, HoldsCredentials, CredentialOps,
                                      CredentialSteps
    <3>4. rows[t] = None /\ (pc[q] # "index" => index[t] = None)
      BY <1>0, <3>1 DEF Relies
    <3>. QED BY <2>5, <3>3, <3>4
  <2>8. (job[q].op = "profile" /\ pc[q] = "index") => profile' = job[q].profile
    BY <1>0, <2>2 DEF Relies, HoldsCredentials, CredentialOps, CredentialSteps
  <2>. QED BY <1>0, <2>3, <2>4, <2>6, <2>7, <2>8 DEF Relies
<1>. QED BY <1>1, <1>2, <1>3

\* What a request relies on after a step of its own.
LEMMA OwnRelies ==
    ASSUME Shape, TokenInv, RowInv, NEW p \in Procs, OwnStep(p)
    PROVE  Relies(pc[p], job[p])'
<1>0. /\ WellFormed(pc[p], job[p]) /\ Relies(pc[p], job[p]) /\ job[p] \in Job
      /\ pc \in [Procs -> Steps] /\ job \in [Procs -> Job]
      /\ rows \in [Tokens -> Nat \cup {None}] /\ index \in [Tokens -> Identity \cup {None}]
      /\ proof \in [Tokens -> Nat \cup {None}] /\ profile \in Profiles /\ password \in Nat
      /\ None \notin Ops
  BY SessionsAssumption DEF Shape, TypeOK, JobShape, RowInv, RequestsRely
<1>1. CASE ~DataStep(p)
  <2>1. /\ UNCHANGED <<profile, password, rows, index, proof, clock>>
        /\ pc[p] # "index" /\ pc'[p] # "index"
        /\ Pending(pc'[p], job'[p]) => Pending(pc[p], job[p]) /\ job'[p] = job[p]
        /\ job'[p].done => job'[p] = job[p]
    BY <1>1, QuietStep
  <2>. QED BY <1>0, <2>1 DEF Relies
<1>2. CASE VerifyLogin(p)
  <2>1. PICK t \in Tokens \ Drawn :
            /\ job' = [job EXCEPT ![p] = [@ EXCEPT !.token = t, !.profile = profile]]
            /\ proof' = [proof EXCEPT ![t] = job[p].claim]
            /\ pc[p] = "verify" /\ job[p].op = "login" /\ pc' = [pc EXCEPT ![p] = "rlock"]
            /\ job[p].claim = password /\ UNCHANGED <<profile, password>>
    BY <1>2 DEF VerifyLogin, Verified, db
  <2>2. /\ job'[p].op = "login" /\ job'[p].token = t /\ job'[p].profile = profile
        /\ pc'[p] = "rlock" /\ proof'[t] = password
    BY <1>0, <2>1 DEF Job
  <2>. QED BY <2>1, <2>2 DEF Relies, Ends
<1>3. CASE DataStep(p) /\ ~VerifyLogin(p)
  <2>0. /\ job'[p].op = job[p].op /\ job'[p].token = job[p].token
        /\ job'[p].profile = job[p].profile /\ job'[p].now = job[p].now
        /\ clock' = clock /\ pc'[p] \notin {"rlock", "db"}
    BY <1>3, DataMoves
  <2>1. CASE CreateSession(p)
    <3>1. /\ pc[p] = "db" /\ job[p].op = "login" /\ UNCHANGED <<profile, password, proof>>
          /\ rows' = [rows EXCEPT ![job[p].token] = Seconds(job[p].now + Lifetime)]
      BY <2>1 DEF CreateSession, history
    <3>2. Pending(pc[p], job[p]) /\ job[p].token \in Tokens
      BY <1>0, <3>1 DEF Pending, WellFormed
    <3>3. rows'[job[p].token] = Seconds(job[p].now + Lifetime)
      BY <1>0, <3>1, <3>2
    <3>. QED BY <1>0, <2>0, <3>1, <3>2, <3>3 DEF Relies, Ends
  <2>2. CASE DeleteSessionByHash(p)
    <3>1. /\ pc'[p] = "index" /\ job[p].op \in Ends /\ rows' = [rows EXCEPT ![job[p].token] = None]
          /\ job[p].token \in Tokens
      BY <1>0, <1>3, <2>2, DataMoves DEF DeleteSessionByHash, WellFormed
    <3>. QED BY <1>0, <2>0, <3>1 DEF Relies, Ends, Pending
  <2>3. CASE ChangePasswordAndRevokeOtherSessions(p)
    <3>1. pc'[p] = "index" /\ job[p].op = "password" /\ rows' = RowsExcept(job[p].token)
      BY <1>3, <2>3, DataMoves DEF ChangePasswordAndRevokeOtherSessions
    <3>. QED BY <2>0, <3>1 DEF Relies, Ends, Pending, RowsExcept
  <2>4. CASE UpdateProfile(p)
    <3>1. job[p].op = "profile" /\ profile' = job[p].profile
      BY <2>4 DEF UpdateProfile
    <3>. QED BY <2>0, <3>1 DEF Relies, Ends, Pending
  <2>5. CASE DeleteExpiredSessions(p)
    <3>1. job[p].op = "cleanup"
      BY <2>5 DEF DeleteExpiredSessions
    <3>. QED BY <2>0, <3>1 DEF Relies, Ends, Pending
  <2>6. CASE IndexStep(p)
    <3>1. /\ pc[p] = "index" /\ pc'[p] = "runlock" /\ job'[p] = job[p] /\ job[p].done
          /\ UNCHANGED rows
      BY <1>0, <1>3, <2>6, DataMoves
         DEF IndexStep, Add, Remove, RemoveAllExcept, UpdateAdmin, PurgeExpired, WellFormed
    <3>2. job[p].op \in Ends => job[p].token \in Tokens /\ index'[job[p].token] = None
      BY <1>0, <2>6 DEF IndexStep, Add, Remove, RemoveAllExcept, UpdateAdmin, PurgeExpired, Ends,
                        WellFormed
    <3>3. job[p].op = "password" => index' = [t \in Tokens |-> IF t = job[p].token THEN index[t] ELSE None]
      BY <2>6 DEF IndexStep, Add, Remove, RemoveAllExcept, UpdateAdmin, PurgeExpired, Ends
    <3>. QED BY <1>0, <3>1, <3>2, <3>3 DEF Relies, Pending
  <2>7. CASE Load(p) \/ Replace(p)
    <3>1. job[p].op = "rebuild"
      BY <1>0, <2>7 DEF Load, Replace, WellFormed, WriterSteps, LoadSteps
    <3>. QED BY <2>0, <3>1 DEF Relies, Ends, Pending
  <2>. QED BY <1>3, <2>1, <2>2, <2>3, <2>4, <2>5, <2>6, <2>7 DEF DataStep
<1>. QED BY <1>1, <1>2, <1>3

\* Nothing changes beside a rebuild that has read its snapshot.
LEMMA SnapshotKept ==
    ASSUME Shape, RowInv, NEW p \in Procs, OwnStep(p)
    PROVE  SnapshotIsCurrent'
<1>. SUFFICES ASSUME NEW q \in Procs, pc'[q] = "replace"
              PROVE  snapshot' = Active(job[q].now)'
  BY DEF SnapshotIsCurrent
<1>1. ~DataStep(p) => /\ UNCHANGED <<profile, rows, snapshot>> /\ pc'[p] # "replace"
  BY QuietStep
<1>2. CASE Load(p) /\ q = p
  BY <1>2 DEF Load, Active, db, Shape, TypeOK
<1>3. CASE q = p /\ ~Load(p)
  <2>1. VerifyLogin(p) => pc'[p] = "rlock"
    BY DEF VerifyLogin, Shape, TypeOK
  <2>. QED BY <1>1, <1>3, <2>1, DataMoves
<1>4. CASE q # p
  <2>1. pc[q] = "replace" /\ job'[q] = job[q] /\ snapshot = Active(job[q].now)
    BY <1>4, OthersKeep DEF Shape, TypeOK, RowInv, SnapshotIsCurrent
  <2>2. pc[p] \notin ReaderSteps /\ pc[p] \notin WriterSteps
    BY <1>4, <2>1, NobodyBesideRebuild DEF LoadSteps
  <2>3. DataStep(p) => VerifyLogin(p)
    BY <2>2, DataMoves DEF ReaderSteps, WriterSteps, LoadSteps
  <2>4. UNCHANGED <<profile, rows, snapshot>>
    BY <1>1, <2>3 DEF VerifyLogin, db
  <2>. QED BY <2>1, <2>4 DEF Active
<1>. QED BY <1>2, <1>3, <1>4

\* A step of the index drops a session, publishes one that a login has created,
\* or keeps its expiry; a rebuild takes the expiry from the row.
LEMMA IndexMoves ==
    ASSUME Shape, SnapshotIsCurrent, NEW p \in Procs, DataStep(p), NEW t \in Tokens,
           index'[t] # None
    PROVE  \/ index[t] # None /\ index'[t].exp = index[t].exp /\ ~Replace(p) /\ ~Add(p)
           \/ /\ Add(p) /\ t # job[p].token /\ index'[t] = index[t]
           \/ /\ Add(p) /\ t = job[p].token
              /\ index'[t].exp = job[p].now + Lifetime /\ index'[t].profile = job[p].profile
           \/ /\ Replace(p) /\ rows[t] # None /\ rows[t] > Seconds(job[p].now)
              /\ index'[t].exp = rows[t] * TicksPerSecond /\ index'[t].profile = profile
<1>0. /\ index \in [Tokens -> Identity \cup {None}]
      /\ \A u \in Tokens : index[u] # None => index[u] \in Identity
  BY ValuesTyped DEF Shape, TypeOK
<1>1. CASE Add(p)
  <2>1. /\ index' = [index EXCEPT ![job[p].token] =
                        [exp |-> job[p].now + Lifetime, profile |-> job[p].profile]]
        /\ pc[p] = "index"
    BY <1>1 DEF Add
  <2>2. t = job[p].token =>
            index'[t] = [exp |-> job[p].now + Lifetime, profile |-> job[p].profile]
    BY <1>0, <2>1
  <2>3. t # job[p].token => index'[t] = index[t]
    BY <1>0, <2>1
  <2>. QED BY <1>1, <2>2, <2>3
<1>2. CASE Replace(p)
  <2>1. index'[t] = Active(job[p].now)[t]
    BY <1>2 DEF Replace, SnapshotIsCurrent
  <2>. QED BY <1>2, <2>1 DEF Active
<1>3. CASE ~Add(p) /\ ~Replace(p)
  <2>1. CASE UpdateAdmin(p)
    <3>1. index[t] # None /\ index'[t] = [index[t] EXCEPT !.profile = job[p].profile]
      BY <2>1 DEF UpdateAdmin
    <3>. QED BY <1>0, <1>3, <3>1 DEF Identity
  <2>2. CASE Remove(p) \/ RemoveAllExcept(p) \/ PurgeExpired(p)
    <3>1. index'[t] = index[t]
      BY <1>0, <2>2 DEF Remove, RemoveAllExcept, PurgeExpired
    <3>. QED BY <1>3, <3>1
  <2>3. CASE ~IndexStep(p)
    <3>1. index' = index
      BY <1>3, <2>3 DEF DataStep, VerifyLogin, CreateSession, DeleteSessionByHash, UpdateProfile,
          ChangePasswordAndRevokeOtherSessions, DeleteExpiredSessions, Executed, Load
    <3>. QED BY <1>3, <3>1
  <2>. QED BY <1>3, <2>1, <2>2, <2>3 DEF IndexStep
<1>. QED BY <1>1, <1>2, <1>3

\* A row keeps the current password, and its second is that of the index.
LEMMA RowsKept ==
    ASSUME Shape, TokenInv, RowInv, NEW p \in Procs, OwnStep(p)
    PROVE  RowsAreCurrent'
<1>0. /\ WellFormed(pc[p], job[p]) /\ Relies(pc[p], job[p]) /\ LoginsAreFresh /\ TokensAreDrawn
      /\ RowsAreCurrent /\ SnapshotIsCurrent
      /\ rows \in [Tokens -> Nat \cup {None}] /\ proof \in [Tokens -> Nat \cup {None}]
      /\ password \in Nat /\ job[p].now \in Nat
  BY DEF Shape, TypeOK, JobShape, TokenInv, RowInv, RequestsRely, Job
<1>. SUFFICES ASSUME NEW t \in Tokens, rows'[t] # None
              PROVE  /\ proof'[t] = password' /\ t \notin ended'
                     /\ index'[t] # None => rows'[t] = Seconds(index'[t].exp)
  BY DEF RowsAreCurrent
<1>1. CASE ~DataStep(p)
  <2>1. /\ UNCHANGED <<rows, index, proof, password>> /\ pc[p] # "index"
        /\ \A u \in ended' \ ended : Confirms(p, u)
    BY <1>1, QuietStep
  <2>2. ~Confirms(p, t)
    BY <1>0, <2>1 DEF Confirms, Relies
  <2>. QED BY <1>0, <2>1, <2>2 DEF RowsAreCurrent
<1>2. CASE VerifyLogin(p)
  <2>1. PICK u \in Tokens \ Drawn : proof' = [proof EXCEPT ![u] = job[p].claim]
    BY <1>2 DEF VerifyLogin
  <2>2. UNCHANGED <<rows, index, password, ended>>
    BY <1>2 DEF VerifyLogin, db
  <2>3. t # u
    BY <1>0, <2>2 DEF TokensAreDrawn
  <2>. QED BY <1>0, <2>1, <2>2, <2>3 DEF RowsAreCurrent
<1>3. CASE CreateSession(p)
  <2>1. /\ pc[p] = "db" /\ job[p].op = "login"
        /\ UNCHANGED <<password, proof, ended, index>>
        /\ rows' = [rows EXCEPT ![job[p].token] = Seconds(job[p].now + Lifetime)]
    BY <1>3 DEF CreateSession, Executed, history
  <2>2. CASE t = job[p].token
    <3>1. Pending(pc[p], job[p])
      BY <2>1 DEF Pending
    <3>2. proof[t] = password /\ t \notin ended /\ index[t] = None
      BY <1>0, <2>2, <3>1 DEF Relies, LoginsAreFresh
    <3>. QED BY <2>1, <3>2
  <2>3. CASE t # job[p].token
    BY <1>0, <2>1, <2>3 DEF RowsAreCurrent
  <2>. QED BY <2>2, <2>3
<1>4. CASE ChangePasswordAndRevokeOtherSessions(p)
  <2>1. /\ password' = password + 1 /\ rows' = RowsExcept(job[p].token)
        /\ proof' = [proof EXCEPT ![job[p].token] = password + 1]
        /\ UNCHANGED <<index, ended>>
    BY <1>4 DEF ChangePasswordAndRevokeOtherSessions, Executed
  <2>2. t = job[p].token /\ rows'[t] = rows[t]
    BY <2>1 DEF RowsExcept
  <2>3. proof'[t] = password'
    BY <1>0, <2>1, <2>2
  <2>. QED BY <1>0, <2>1, <2>2, <2>3 DEF RowsAreCurrent
<1>5. CASE DeleteSessionByHash(p) \/ UpdateProfile(p) \/ DeleteExpiredSessions(p)
  <2>1. UNCHANGED <<password, proof, ended, index>>
    BY <1>5 DEF DeleteSessionByHash, UpdateProfile, DeleteExpiredSessions, Executed, history
  <2>2. rows'[t] = rows[t]
    BY <1>0, <1>5 DEF DeleteSessionByHash, UpdateProfile, DeleteExpiredSessions, UnexpiredRows
  <2>. QED BY <1>0, <2>1, <2>2 DEF RowsAreCurrent
<1>6. CASE IndexStep(p) \/ Load(p) \/ Replace(p)
  <2>1. UNCHANGED <<rows, password, proof, ended>>
    BY <1>6 DEF IndexStep, Add, Remove, RemoveAllExcept, UpdateAdmin, PurgeExpired, Indexed, Load,
                Replace, db, history
  <2>2. DataStep(p)
    BY <1>6 DEF DataStep
  <2>3. ASSUME index'[t] # None PROVE rows[t] = Seconds(index'[t].exp)
    <3>1. CASE index[t] # None /\ index'[t].exp = index[t].exp
      BY <1>0, <2>1, <3>1 DEF RowsAreCurrent
    <3>2. CASE Add(p) /\ t = job[p].token /\ index'[t].exp = job[p].now + Lifetime
      BY <1>0, <2>1, <3>2 DEF Add, Relies
    <3>3. CASE Replace(p) /\ index'[t].exp = rows[t] * TicksPerSecond
      BY <1>0, <2>1, <3>3, SecondsExact
    <3>. QED BY <1>0, <2>2, <2>3, <3>1, <3>2, <3>3, IndexMoves
  <2>. QED BY <1>0, <2>1, <2>3 DEF RowsAreCurrent
<1>. QED BY <1>1, <1>2, <1>3, <1>4, <1>5, <1>6 DEF DataStep

LEMMA RowStep == Shape /\ TokenInv /\ RowInv /\ [Next]_vars => RowInv'
<1>. SUFFICES ASSUME Shape, TokenInv, RowInv, [Next]_vars PROVE RowInv'
  OBVIOUS
<1>0. /\ RequestsRely /\ SnapshotIsCurrent /\ RowsAreCurrent /\ JobShape
      /\ rows \in [Tokens -> Nat \cup {None}] /\ clock \in Nat
      /\ \A p \in Procs : job[p].now + Lifetime \in Nat
  BY SessionsAssumption DEF RowInv, Shape, TypeOK, Job
<1>1. ASSUME NEW p \in Procs, OwnStep(p) PROVE RowInv'
  <2>1. RequestsRely'
    BY <1>1, OthersRely, OwnRelies DEF RequestsRely
  <2>. QED BY <1>1, <2>1, SnapshotKept, RowsKept DEF RowInv
<1>2. CASE Restart
  <2>1. /\ \A q \in Procs : pc'[q] = "idle" /\ job'[q].op = None /\ ~job'[q].done
        /\ UNCHANGED <<password, ended, proof>>
        /\ rows' = UnexpiredRows(clock) /\ index' = Active(clock)
    BY <1>2 DEF Restart, history, NoJob
  <2>2. RequestsRely' /\ SnapshotIsCurrent'
    BY <2>1, SessionsAssumption DEF RequestsRely, Relies, Pending, SnapshotIsCurrent, Ops
  <2>3. ASSUME NEW t \in Tokens, rows'[t] # None
        PROVE  /\ proof'[t] = password' /\ t \notin ended'
               /\ index'[t] # None => rows'[t] = Seconds(index'[t].exp)
    <3>1. rows'[t] = rows[t]
      BY <2>1, <2>3 DEF UnexpiredRows
    <3>2. index'[t] # None => index'[t].exp = rows[t] * TicksPerSecond
      BY <2>1 DEF Active
    <3>. QED BY <1>0, <2>1, <2>3, <3>1, <3>2, SecondsExact DEF RowsAreCurrent
  <2>. QED BY <2>2, <2>3 DEF RowInv, RowsAreCurrent
<1>3. CASE Tick
  <2>1. /\ clock' = clock + 1
        /\ UNCHANGED <<profile, password, rows, index, snapshot, proof, ended, pc, job>>
    BY <1>3 DEF Tick, db, history
  <2>2. Seconds(clock) <= Seconds(clock + 1) /\ Seconds(clock) \in Nat /\ Seconds(clock + 1) \in Nat
    BY <1>0, SecondsMonotone, SecondsTyped
  <2>3. ASSUME NEW q \in Procs PROVE Relies(pc[q], job[q])'
    <3>1. Seconds(job[q].now + Lifetime) \in Nat
      BY <1>0, SecondsTyped
    <3>2. Seconds(job[q].now + Lifetime) <= Seconds(clock)
              => Seconds(job[q].now + Lifetime) <= Seconds(clock + 1)
      BY <2>2, <3>1
    <3>. QED BY <1>0, <2>1, <3>2 DEF RequestsRely, Relies
  <2>4. SnapshotIsCurrent' /\ RowsAreCurrent'
    BY <1>0, <2>1 DEF SnapshotIsCurrent, Active, RowsAreCurrent
  <2>. QED BY <2>3, <2>4 DEF RowInv, RequestsRely
<1>4. CASE UNCHANGED vars
  BY <1>0, <1>4 DEF vars, RowInv, RequestsRely, Relies, SnapshotIsCurrent, Active, RowsAreCurrent
<1>. QED BY <1>1, <1>2, <1>3, <1>4, StepKinds

-----------------------------------------------------------------------------
(* The index.                                                              *)

\* A request that is about to take a session out of the index stays about to,
\* or takes it out.
LEMMA ExcusesStay ==
    ASSUME Shape, NEW p \in Procs, OwnStep(p), NEW q \in Procs, NEW t \in Tokens, index'[t] # None
    PROVE  (Revoking(q, t) => Revoking(q, t)') /\ (Leaving(q, t) => Leaving(q, t)')
<1>1. CASE q # p
  <2>1. pc'[q] = pc[q] /\ job'[q] = job[q]
    BY <1>1, OthersKeep DEF Shape, TypeOK
  <2>. QED BY <2>1 DEF Revoking, Leaving
<1>2. CASE q = p
  <2>1. SUFFICES ASSUME Leaving(p, t) PROVE FALSE
    BY <1>2 DEF Leaving
  <2>2. pc[p] = "index"
    BY <2>1 DEF Leaving, Revoking
  <2>3. DataStep(p) /\ ~VerifyLogin(p)
    BY <2>2, QuietStep DEF VerifyLogin
  <2>4. IndexStep(p)
    BY <2>2, <2>3 DEF DataStep, CreateSession, DeleteSessionByHash, UpdateProfile, Load, Replace,
                      ChangePasswordAndRevokeOtherSessions, DeleteExpiredSessions
  <2>5. index \in [Tokens -> Identity \cup {None}]
    BY DEF Shape, TypeOK
  <2>6. CASE job[p].op = "password" /\ job[p].token # t
    <3>1. RemoveAllExcept(p)
      BY <2>4, <2>6 DEF IndexStep, Add, Remove, UpdateAdmin, PurgeExpired, Ends
    <3>. QED BY <2>6, <3>1 DEF RemoveAllExcept
  <2>7. CASE job[p].op \in Ends /\ job[p].token = t
    <3>1. Remove(p)
      BY <2>4, <2>7 DEF IndexStep, Add, RemoveAllExcept, UpdateAdmin, PurgeExpired, Ends
    <3>. QED BY <2>5, <2>7, <3>1 DEF Remove
  <2>. QED BY <2>1, <2>6, <2>7 DEF Leaving, Revoking
<1>. QED BY <1>1, <1>2

\* An indexed session is one of the current password, or being revoked.
LEMMA PasswordsKept ==
    ASSUME Shape, TokenInv, RowInv, IndexInv, NEW p \in Procs, OwnStep(p),
           NEW t \in Tokens, index'[t] # None
    PROVE  proof'[t] = password' \/ \E q \in Procs : Revoking(q, t)'
<1>0. /\ WellFormed(pc[p], job[p]) /\ Relies(pc[p], job[p]) /\ TokensAreDrawn /\ RowsAreCurrent
      /\ SnapshotIsCurrent /\ job \in [Procs -> Job] /\ pc \in [Procs -> Steps]
      /\ proof \in [Tokens -> Nat \cup {None}] /\ password \in Nat
  BY DEF Shape, TypeOK, JobShape, TokenInv, RowInv, RequestsRely
<1>1. CASE index[t] # None /\ proof'[t] = proof[t] /\ password' = password
  <2>1. proof[t] = password \/ \E q \in Procs : Revoking(q, t)
    BY <1>1 DEF IndexInv
  <2>. QED BY <1>1, <2>1, ExcusesStay
<1>2. CASE ~DataStep(p)
  BY <1>1, <1>2, QuietStep
<1>3. CASE VerifyLogin(p)
  <2>1. PICK u \in Tokens \ Drawn : proof' = [proof EXCEPT ![u] = job[p].claim]
    BY <1>3 DEF VerifyLogin
  <2>2. index[t] # None /\ password' = password
    BY <1>3 DEF VerifyLogin, db
  <2>3. t # u
    BY <1>0, <2>2 DEF TokensAreDrawn
  <2>. QED BY <1>0, <1>1, <2>1, <2>2, <2>3
<1>4. CASE CreateSession(p) \/ DeleteSessionByHash(p) \/ UpdateProfile(p) \/ DeleteExpiredSessions(p)
  BY <1>1, <1>4 DEF CreateSession, DeleteSessionByHash, UpdateProfile, DeleteExpiredSessions,
                    Executed, history
<1>5. CASE ChangePasswordAndRevokeOtherSessions(p)
  <2>1. /\ password' = password + 1 /\ job[p].op = "password"
        /\ proof' = [proof EXCEPT ![job[p].token] = password + 1]
        /\ pc' = [pc EXCEPT ![p] = "index"] /\ job' = [job EXCEPT ![p].done = TRUE]
    BY <1>5 DEF ChangePasswordAndRevokeOtherSessions, Executed
  <2>2. CASE t = job[p].token
    <3>1. proof'[t] = password + 1
      BY <1>0, <2>1, <2>2
    <3>. QED BY <2>1, <3>1
  <2>3. CASE t # job[p].token
    <3>1. pc'[p] = "index" /\ job'[p].op = "password" /\ job'[p].token = job[p].token
      BY <1>0, <2>1 DEF Job
    <3>. QED BY <2>3, <3>1 DEF Revoking
  <2>. QED BY <2>2, <2>3
<1>6. CASE IndexStep(p) \/ Load(p) \/ Replace(p)
  <2>1. DataStep(p) /\ UNCHANGED <<proof, password>>
    BY <1>6 DEF DataStep, IndexStep, Add, Remove, RemoveAllExcept, UpdateAdmin, PurgeExpired,
                Indexed, Load, Replace, db, history
  <2>2. CASE index[t] # None
    BY <1>1, <2>1, <2>2
  <2>3. CASE Add(p) /\ t = job[p].token
    BY <1>0, <2>1, <2>3 DEF Add, Relies, Pending
  <2>4. CASE Replace(p) /\ rows[t] # None
    BY <1>0, <2>1, <2>4 DEF RowsAreCurrent
  <2>. QED BY <1>0, <2>1, <2>2, <2>3, <2>4, IndexMoves
<1>. QED BY <1>2, <1>3, <1>4, <1>5, <1>6 DEF DataStep

\* An indexed session has its row, or its last second, or is being removed.
LEMMA SessionsKeepRows ==
    ASSUME Shape, TokenInv, RowInv, IndexInv, NEW p \in Procs, OwnStep(p),
           NEW t \in Tokens, index'[t] # None
    PROVE  \/ rows'[t] # None
           \/ Seconds(index'[t].exp) <= Seconds(clock')
           \/ \E q \in Procs : Leaving(q, t)'
<1>0. /\ Relies(pc[p], job[p]) /\ RowsAreCurrent /\ SnapshotIsCurrent
      /\ job \in [Procs -> Job] /\ pc \in [Procs -> Steps] /\ job[p].now + Lifetime \in Nat
      /\ \A n \in Nat : n # None
  BY SessionsAssumption DEF Shape, TypeOK, RowInv, RequestsRely, Job
<1>1. CASE index[t] # None /\ index'[t].exp = index[t].exp /\ rows'[t] = rows[t] /\ clock' = clock
  <2>1. \/ rows[t] # None
        \/ Seconds(index[t].exp) <= Seconds(clock)
        \/ \E q \in Procs : Leaving(q, t)
    BY <1>1 DEF IndexInv
  <2>. QED BY <1>1, <2>1, ExcusesStay
<1>2. CASE ~DataStep(p)
  BY <1>1, <1>2, QuietStep
<1>3. CASE DataStep(p) /\ ~IndexStep(p) /\ ~Replace(p)
  <2>1. index' = index /\ clock' = clock
    BY <1>3 DEF DataStep, VerifyLogin, CreateSession, DeleteSessionByHash, UpdateProfile,
        ChangePasswordAndRevokeOtherSessions, DeleteExpiredSessions, Executed, Load
  <2>2. CASE rows'[t] = rows[t]
    BY <1>1, <2>1, <2>2
  <2>3. CASE CreateSession(p) /\ t = job[p].token
    <3>1. rows' = [rows EXCEPT ![t] = Seconds(job[p].now + Lifetime)]
      BY <2>3 DEF CreateSession
    <3>2. rows'[t] = Seconds(job[p].now + Lifetime)
      BY <3>1 DEF Shape, TypeOK
    <3>. QED BY <1>0, <3>2, SecondsTyped
  <2>4. ASSUME DeleteSessionByHash(p) \/ ChangePasswordAndRevokeOtherSessions(p)
        PROVE  pc'[p] = "index" /\ job'[p].op = job[p].op /\ job'[p].token = job[p].token
    BY <1>0, <2>4 DEF DeleteSessionByHash, ChangePasswordAndRevokeOtherSessions, Executed, Job
  <2>5. CASE DeleteSessionByHash(p) /\ t = job[p].token
    BY <2>4, <2>5 DEF DeleteSessionByHash, Leaving
  <2>6. CASE ChangePasswordAndRevokeOtherSessions(p) /\ t # job[p].token
    BY <2>4, <2>6 DEF ChangePasswordAndRevokeOtherSessions, Leaving, Revoking
  <2>7. CASE rows[t] # None /\ rows[t] <= Seconds(clock)
    BY <1>0, <2>1, <2>7 DEF RowsAreCurrent
  <2>. QED BY <1>3, <2>2, <2>3, <2>5, <2>6, <2>7, RowsMove
<1>4. CASE IndexStep(p) \/ Replace(p)
  <2>1. DataStep(p) /\ UNCHANGED <<rows, clock>>
    BY <1>4 DEF DataStep, IndexStep, Add, Remove, RemoveAllExcept, UpdateAdmin, PurgeExpired,
                Indexed, Replace, db
  <2>2. CASE index[t] # None /\ index'[t].exp = index[t].exp
    BY <1>1, <2>1, <2>2
  <2>3. CASE Add(p) /\ t = job[p].token /\ index'[t].exp = job[p].now + Lifetime
    <3>1. \/ rows[t] = Seconds(job[p].now + Lifetime)
          \/ Seconds(job[p].now + Lifetime) <= Seconds(clock)
      BY <1>0, <2>3 DEF Relies, Add
    <3>. QED BY <1>0, <2>1, <2>3, <3>1, SecondsTyped
  <2>4. CASE Replace(p) /\ rows[t] # None
    BY <2>1, <2>4
  <2>. QED BY <1>0, <2>1, <2>2, <2>3, <2>4, IndexMoves
<1>. QED BY <1>2, <1>3, <1>4

\* What was ended is not in the index and does not get there.
LEMMA EndedKept ==
    ASSUME Shape, TokenInv, RowInv, IndexInv, NEW p \in Procs, OwnStep(p)
    PROVE  EndedStaysEnded'
<1>0. /\ Relies(pc[p], job[p]) /\ LoginsAreFresh /\ RowsAreCurrent /\ SnapshotIsCurrent
      /\ EndedStaysEnded /\ ended \subseteq Tokens
  BY DEF Shape, TypeOK, TokenInv, RowInv, RequestsRely, IndexInv
<1>. SUFFICES ASSUME NEW t \in ended', index'[t] # None PROVE FALSE
  BY DEF EndedStaysEnded
<1>1. CASE ~DataStep(p)
  <2>1. /\ index' = index /\ pc[p] # "index" /\ (t \in ended \/ Confirms(p, t))
    BY <1>1, QuietStep
  <2>2. CASE Confirms(p, t)
    <3>1. t \in Tokens \/ job[p].op \in Ends
      BY <2>2 DEF Confirms, Drawn
    <3>. QED BY <1>0, <2>1, <2>2, <3>1 DEF Confirms, Relies, Drawn
  <2>. QED BY <1>0, <2>1, <2>2 DEF EndedStaysEnded
<1>2. CASE DataStep(p)
  <2>1. t \in ended
    <3>1. CASE VerifyLogin(p)
      BY <3>1 DEF VerifyLogin
    <3>. QED BY <1>2, <3>1, DataMoves
  <2>2. t \in Tokens /\ index[t] = None
    BY <1>0, <2>1 DEF EndedStaysEnded
  <2>3. ~(Add(p) /\ t = job[p].token)
    BY <1>0, <2>1 DEF Add, LoginsAreFresh, Pending
  <2>4. ~(Replace(p) /\ rows[t] # None)
    BY <1>0, <2>1, <2>2 DEF RowsAreCurrent
  <2>. QED BY <1>0, <1>2, <2>2, <2>3, <2>4, DataWrites
<1>. QED BY <1>1, <1>2

\* A live row stays in the index, or is about to be published.
LEMMA LiveRowsKept ==
    ASSUME Shape, TokenInv, RowInv, IndexInv, NEW p \in Procs, OwnStep(p)
    PROVE  EveryRowAuthenticates'
<1>0. /\ Relies(pc[p], job[p]) /\ WellFormed(pc[p], job[p]) /\ RowsAreCurrent
      /\ SnapshotIsCurrent /\ EveryRowAuthenticates
      /\ job \in [Procs -> Job] /\ pc \in [Procs -> Steps] /\ clock \in Nat
      /\ index \in [Tokens -> Identity \cup {None}]
      /\ job[p].now \in Nat /\ job[p].now <= clock
      /\ \A q \in Procs \ {p} : pc'[q] = pc[q] /\ job'[q] = job[q]
  BY OthersKeep DEF Shape, TypeOK, JobShape, NowIsPast, RowInv, RequestsRely, IndexInv, Job
<1>. DEFINE Published(t) == \E q \in Procs : pc[q] = "index" /\ job[q].op = "login" /\ job[q].token = t
<1>. SUFFICES ASSUME NEW t \in Tokens, rows'[t] # None, rows'[t] > Seconds(clock')
              PROVE  index'[t] # None \/ Published(t)'
  BY DEF EveryRowAuthenticates
<1>1. CASE ~DataStep(p)
  BY <1>0, <1>1, QuietStep DEF EveryRowAuthenticates
<1>2. CASE DataStep(p) /\ ~IndexStep(p) /\ ~Replace(p)
  <2>1. index' = index /\ clock' = clock /\ pc[p] # "index"
    BY <1>2 DEF DataStep, VerifyLogin, CreateSession, DeleteSessionByHash, UpdateProfile,
        ChangePasswordAndRevokeOtherSessions, DeleteExpiredSessions, Executed, Load
  <2>2. CASE rows'[t] = rows[t]
    BY <1>0, <2>1, <2>2 DEF EveryRowAuthenticates
  <2>3. CASE CreateSession(p) /\ t = job[p].token
    <3>1. pc'[p] = "index" /\ job'[p].op = "login" /\ job'[p].token = t
      BY <1>0, <2>3 DEF CreateSession, Executed, Job
    <3>. QED BY <3>1
  <2>. QED BY <1>2, <2>2, <2>3, RowsMove
<1>3. CASE IndexStep(p)
  <2>1. UNCHANGED <<rows, clock>> /\ pc[p] = "index"
    BY <1>3 DEF IndexStep, Add, Remove, RemoveAllExcept, UpdateAdmin, PurgeExpired, Indexed, db
  <2>2. rows[t] # None /\ rows[t] > Seconds(clock) /\ (index[t] # None \/ Published(t))
    BY <1>0, <2>1 DEF EveryRowAuthenticates
  <2>3. CASE Add(p)
    <3>1. index' = [index EXCEPT ![job[p].token] =
                        [exp |-> job[p].now + Lifetime, profile |-> job[p].profile]]
      BY <2>3 DEF Add
    <3>2. [exp |-> job[p].now + Lifetime, profile |-> job[p].profile] # None
      <4>1. job[p].profile \in Profiles /\ job[p].now + Lifetime \in Nat
        BY <1>0, <2>3, SessionsAssumption DEF Add, WellFormed, Pending
      <4>2. [exp |-> job[p].now + Lifetime, profile |-> job[p].profile] \in Identity
        BY <4>1 DEF Identity
      <4>. QED BY <4>2, SessionsAssumption
    <3>3. t = job[p].token => index'[t] # None
      BY <1>0, <3>1, <3>2
    <3>4. t # job[p].token => index'[t] = index[t]
      BY <1>0, <3>1
    <3>. QED BY <1>0, <2>2, <3>3, <3>4
  <2>4. CASE ~Add(p)
    <3>1. job[p].op # "login"
      BY <1>3, <2>4 DEF IndexStep, Remove, RemoveAllExcept, UpdateAdmin, PurgeExpired, Ends
    <3>2. index[t] # None \/ Published(t)'
      BY <1>0, <2>2, <3>1
    <3>3. SUFFICES ASSUME index[t] # None PROVE index'[t] # None
      BY <3>2
    <3>4. rows[t] = Seconds(index[t].exp)
      BY <1>0, <2>2, <3>3 DEF RowsAreCurrent
    <3>5. CASE Remove(p)
      <4>1. job[p].token # t
        BY <1>0, <2>1, <2>2, <3>5 DEF Remove, Relies, WellFormed
      <4>. QED BY <1>0, <3>3, <3>5, <4>1 DEF Remove
    <3>6. CASE RemoveAllExcept(p)
      <4>1. job[p].token = t
        BY <1>0, <2>1, <2>2, <3>6 DEF RemoveAllExcept, Relies, WellFormed
      <4>. QED BY <3>3, <3>6, <4>1 DEF RemoveAllExcept
    <3>7. CASE UpdateAdmin(p)
      <4>1. index[t] \in Identity /\ index[t].exp \in Nat /\ job[p].profile \in Profiles
        BY <1>0, <3>3, <3>7, ValuesTyped DEF Shape, UpdateAdmin, WellFormed
      <4>2. [index[t] EXCEPT !.profile = job[p].profile] \in Identity
        BY <4>1 DEF Identity
      <4>. QED BY <3>3, <3>7, <4>2, SessionsAssumption DEF UpdateAdmin
    <3>8. CASE PurgeExpired(p)
      <4>1. index[t].exp \in Nat
        BY <3>3, ValuesTyped DEF Shape
      <4>2. ~(index[t].exp <= job[p].now)
        <5>1. SUFFICES ASSUME index[t].exp <= clock PROVE FALSE
          BY <1>0, <4>1
        <5>2. Seconds(index[t].exp) <= Seconds(clock)
          BY <1>0, <4>1, <5>1, SecondsMonotone
        <5>. QED BY <1>0, <2>2, <3>4, <4>1, <5>2, SecondsTyped
      <4>. QED BY <3>3, <3>8, <4>2 DEF PurgeExpired, PurgedAt
    <3>. QED BY <1>3, <2>4, <3>5, <3>6, <3>7, <3>8 DEF IndexStep
  <2>. QED BY <2>3, <2>4
<1>4. CASE Replace(p)
  <2>1. UNCHANGED <<rows, clock>> /\ index' = Active(job[p].now)
    BY <1>0, <1>4 DEF Replace, SnapshotIsCurrent, db
  <2>2. /\ Seconds(job[p].now) <= Seconds(clock)
        /\ Seconds(job[p].now) \in Nat /\ Seconds(clock) \in Nat
        /\ rows[t] \in Nat
    BY <1>0, <2>1, SecondsMonotone, SecondsTyped, ValuesTyped DEF Shape
  <2>3. index'[t] = [exp |-> rows[t] * TicksPerSecond, profile |-> profile]
    BY <2>1, <2>2 DEF Active
  <2>4. [exp |-> rows[t] * TicksPerSecond, profile |-> profile] \in Identity
    <3>1. rows[t] * TicksPerSecond \in Nat
      BY <2>2, SessionsAssumption
    <3>. QED BY <3>1 DEF Identity, Shape, TypeOK
  <2>. QED BY <2>3, <2>4, SessionsAssumption
<1>. QED BY <1>1, <1>2, <1>3, <1>4

\* Every indexed session shows the administrator, or is about to.
LEMMA ProfilesKept ==
    ASSUME Shape, TokenInv, RowInv, IndexInv, NEW p \in Procs, OwnStep(p)
    PROVE  ProfileIsCurrent'
<1>0. /\ Relies(pc[p], job[p]) /\ SnapshotIsCurrent /\ ProfileIsCurrent
      /\ job \in [Procs -> Job] /\ pc \in [Procs -> Steps]
      /\ index \in [Tokens -> Identity \cup {None}]
      /\ \A q \in Procs \ {p} : pc'[q] = pc[q] /\ job'[q] = job[q]
  BY OthersKeep DEF Shape, TypeOK, RowInv, RequestsRely, IndexInv
<1>. DEFINE Changing == \E q \in Procs : pc[q] = "index" /\ job[q].op = "profile"
<1>. SUFFICES ASSUME NEW t \in Tokens, index'[t] # None
              PROVE  index'[t].profile = profile' \/ Changing'
  BY DEF ProfileIsCurrent
<1>1. CASE ~DataStep(p)
  BY <1>0, <1>1, QuietStep DEF ProfileIsCurrent
<1>2. CASE UpdateProfile(p)
  BY <1>0, <1>2 DEF UpdateProfile, Executed, Job
<1>3. CASE DataStep(p) /\ ~UpdateProfile(p) /\ ~IndexStep(p) /\ ~Replace(p)
  <2>1. UNCHANGED <<profile, index>> /\ pc[p] # "index"
    BY <1>3 DEF DataStep, VerifyLogin, CreateSession, DeleteSessionByHash,
        ChangePasswordAndRevokeOtherSessions, DeleteExpiredSessions, Executed, Load, db
  <2>. QED BY <1>0, <2>1 DEF ProfileIsCurrent
<1>4. CASE IndexStep(p)
  <2>1. profile' = profile /\ pc[p] = "index"
    BY <1>4 DEF IndexStep, Add, Remove, RemoveAllExcept, UpdateAdmin, PurgeExpired, Indexed, db
  <2>2. CASE UpdateAdmin(p)
    <3>1. /\ index[t] # None /\ index'[t] = [index[t] EXCEPT !.profile = job[p].profile]
          /\ job[p].op = "profile"
      BY <2>2 DEF UpdateAdmin
    <3>2. index[t] \in Identity
      BY <3>1, ValuesTyped DEF Shape
    <3>3. index'[t].profile = job[p].profile
      BY <3>1, <3>2 DEF Identity
    <3>. QED BY <1>0, <2>1, <3>1, <3>3 DEF Relies
  <2>3. CASE Add(p) /\ t = job[p].token
    <3>1. index'[t].profile = job[p].profile
      BY <1>0, <2>3 DEF Add
    <3>. QED BY <1>0, <2>1, <2>3, <3>1 DEF Add, Relies, Pending
  <2>4. CASE ~UpdateAdmin(p) /\ ~(Add(p) /\ t = job[p].token)
    <3>1. index'[t] = index[t] /\ job[p].op # "profile"
      BY <1>0, <1>4, <2>4 DEF IndexStep, Add, Remove, RemoveAllExcept, PurgeExpired, Ends
    <3>. QED BY <1>0, <2>1, <3>1 DEF ProfileIsCurrent
  <2>. QED BY <2>2, <2>3, <2>4
<1>5. CASE Replace(p)
  <2>1. index' = Active(job[p].now) /\ profile' = profile
    BY <1>0, <1>5 DEF Replace, SnapshotIsCurrent, db
  <2>. QED BY <2>1 DEF Active
<1>. QED BY <1>1, <1>2, <1>3, <1>4, <1>5

LEMMA IndexKept == Shape /\ TokenInv /\ RowInv /\ IndexInv /\ [Next]_vars => IndexInv'
<1>. SUFFICES ASSUME Shape, TokenInv, RowInv, IndexInv, [Next]_vars PROVE IndexInv'
  OBVIOUS
<1>0. /\ rows \in [Tokens -> Nat \cup {None}] /\ clock \in Nat /\ RowsAreCurrent
      /\ EndedStaysEnded /\ EveryRowAuthenticates /\ ProfileIsCurrent /\ ended \subseteq Tokens
  BY DEF Shape, TypeOK, RowInv, IndexInv
<1>1. ASSUME NEW p \in Procs, OwnStep(p) PROVE IndexInv'
  <2>1. ASSUME NEW t \in Tokens, index'[t] # None
        PROVE  /\ proof'[t] = password' \/ \E q \in Procs : Revoking(q, t)'
               /\ \/ rows'[t] # None
                  \/ Seconds(index'[t].exp) <= Seconds(clock')
                  \/ \E q \in Procs : Leaving(q, t)'
    BY <1>1, <2>1, PasswordsKept, SessionsKeepRows
  <2>. QED BY <1>1, <2>1, EndedKept, LiveRowsKept, ProfilesKept DEF IndexInv
<1>2. CASE Restart
  <2>1. /\ UNCHANGED <<profile, password, ended, proof, clock>>
        /\ rows' = UnexpiredRows(clock) /\ index' = Active(clock)
    BY <1>2 DEF Restart, history
  <2>2. ASSUME NEW t \in Tokens, index'[t] # None
        PROVE  /\ rows[t] # None /\ rows'[t] = rows[t] /\ index'[t].profile = profile
               /\ proof[t] = password /\ t \notin ended
    <3>1. rows[t] # None /\ rows[t] > Seconds(clock) /\ index'[t].profile = profile
      BY <2>1, <2>2 DEF Active
    <3>2. Seconds(clock) \in Nat /\ rows[t] \in Nat
      BY <1>0, <3>1, SecondsTyped
    <3>. QED BY <1>0, <2>1, <3>1, <3>2 DEF UnexpiredRows, RowExpired, RowsAreCurrent
  <2>3. ASSUME NEW t \in Tokens, rows'[t] # None, rows'[t] > Seconds(clock')
        PROVE  index'[t] # None
    <3>1. rows'[t] = rows[t] /\ rows[t] \in Nat /\ rows[t] > Seconds(clock)
      BY <1>0, <2>1, <2>3 DEF UnexpiredRows
    <3>2. index'[t] = [exp |-> rows[t] * TicksPerSecond, profile |-> profile]
      BY <2>1, <2>3, <3>1 DEF Active
    <3>3. rows[t] * TicksPerSecond \in Nat
      BY <3>1, SessionsAssumption
    <3>4. [exp |-> rows[t] * TicksPerSecond, profile |-> profile] \in Identity
      BY <3>3 DEF Identity, Shape, TypeOK
    <3>. QED BY <3>2, <3>4, SessionsAssumption
  <2>4. EndedStaysEnded' /\ EveryRowAuthenticates' /\ ProfileIsCurrent'
    BY <1>0, <2>1, <2>2, <2>3 DEF EndedStaysEnded, EveryRowAuthenticates, ProfileIsCurrent
  <2>. QED BY <2>1, <2>2, <2>4 DEF IndexInv
<1>3. CASE Tick
  <2>1. /\ clock' = clock + 1
        /\ UNCHANGED <<profile, password, rows, index, proof, ended, pc, job>>
    BY <1>3 DEF Tick, db, history
  <2>2. Seconds(clock) <= Seconds(clock + 1) /\ Seconds(clock) \in Nat /\ Seconds(clock + 1) \in Nat
    BY <1>0, SecondsMonotone, SecondsTyped
  <2>3. ASSUME NEW t \in Tokens, index'[t] # None
        PROVE  /\ proof'[t] = password' \/ \E q \in Procs : Revoking(q, t)'
               /\ \/ rows'[t] # None
                  \/ Seconds(index'[t].exp) <= Seconds(clock')
                  \/ \E q \in Procs : Leaving(q, t)'
    <3>1. Seconds(index[t].exp) \in Nat
      BY <2>1, <2>3, SecondsTyped, ValuesTyped DEF Shape
    <3>2. /\ proof[t] = password \/ \E q \in Procs : Revoking(q, t)
          /\ \/ rows[t] # None
             \/ Seconds(index[t].exp) <= Seconds(clock)
             \/ \E q \in Procs : Leaving(q, t)
      BY <2>1, <2>3 DEF IndexInv
    <3>3. Seconds(index[t].exp) <= Seconds(clock) => Seconds(index[t].exp) <= Seconds(clock + 1)
      BY <2>2, <3>1
    <3>. QED BY <2>1, <3>2, <3>3 DEF Revoking, Leaving
  <2>4. EveryRowAuthenticates'
    <3>1. ASSUME NEW t \in Tokens, rows[t] # None, rows[t] > Seconds(clock + 1)
          PROVE  rows[t] > Seconds(clock)
      BY <1>0, <2>2, <3>1
    <3>. QED BY <1>0, <2>1, <3>1 DEF EveryRowAuthenticates
  <2>5. EndedStaysEnded' /\ ProfileIsCurrent'
    BY <1>0, <2>1 DEF EndedStaysEnded, ProfileIsCurrent
  <2>. QED BY <2>3, <2>4, <2>5 DEF IndexInv
<1>4. CASE UNCHANGED vars
  BY <1>4 DEF vars, db, history, IndexInv, EndedStaysEnded, EveryRowAuthenticates,
              ProfileIsCurrent, Revoking, Leaving
<1>. QED BY <1>1, <1>2, <1>3, <1>4, StepKinds

-----------------------------------------------------------------------------
(* The inductive invariant and what it gives.                              *)

LEMMA InitSessionInv == Init => SessionInv
<1>. SUFFICES ASSUME Init PROVE SessionInv
  OBVIOUS
<1>1. /\ \A t \in Tokens : rows[t] = None /\ index[t] = None
      /\ cookies = {} /\ ended = {}
      /\ \A p \in Procs : pc[p] = "idle" /\ job[p] = NoJob
  BY DEF Init, NoSessions
<1>2. TokenInv
  BY <1>1 DEF TokenInv, TokensAreDrawn, LoginsAreFresh, Pending, NoJob
<1>3. RowInv
  BY <1>1, SessionsAssumption DEF RowInv, RequestsRely, Relies, Pending, NoJob, SnapshotIsCurrent,
                                  RowsAreCurrent, Ops
<1>4. IndexInv
  BY <1>1 DEF IndexInv, EndedStaysEnded, EveryRowAuthenticates, ProfileIsCurrent
<1>. QED BY <1>2, <1>3, <1>4, InitShape DEF SessionInv

LEMMA SessionInvHolds == Spec => []SessionInv
<1>1. SessionInv /\ [Next]_vars => SessionInv'
  BY ShapeStep, TokenStep, RowStep, IndexKept DEF SessionInv
<1>. QED BY <1>1, InitSessionInv, PTL DEF Spec

(***************************************************************************)
(* A session whose logout or revocation was confirmed never authenticates  *)
(* again (Service.Logout, ChangePassword): not after a rebuild that was    *)
(* under way, a failed statement or a restart.                             *)
(***************************************************************************)
THEOREM EndedSessionsStayEnded == Spec => []EndedStaysEnded
<1>1. SessionInv => EndedStaysEnded
  BY DEF SessionInv, IndexInv
<1>. QED BY <1>1, SessionInvHolds, PTL

(***************************************************************************)
(* Only holders of a session who have shown the current password           *)
(* authenticate, up to the step from the transaction of                    *)
(* ChangePasswordAndRevokeOtherSessions to SessionIndex.RemoveAllExcept.   *)
(***************************************************************************)
THEOREM OnlyTheCurrentPassword == Spec => []OnlyCurrentPassword
<1>1. SessionInv => OnlyCurrentPassword
  BY DEF SessionInv, IndexInv, OnlyCurrentPassword, Authenticates
<1>. QED BY <1>1, SessionInvHolds, PTL

(***************************************************************************)
(* The session index agrees with sessions and admin: it has no session     *)
(* without a row and no profile but the current one, up to requests that   *)
(* are between their statement and the index, and the last second.         *)
(***************************************************************************)
THEOREM TheIndexIsCurrent == Spec => []IndexIsCurrent
<1>1. SessionInv => IndexIsCurrent
  BY DEF SessionInv, IndexInv, IndexIsCurrent, SessionHasRow, Authenticates, Leaving
<1>. QED BY <1>1, SessionInvHolds, PTL

(***************************************************************************)
(* A row that has not expired authenticates: cleanup, rebuild and changes  *)
(* of other sessions never lose it (PurgeExpired, Replace).                *)
(***************************************************************************)
THEOREM LiveRowsAuthenticate == Spec => []EveryRowAuthenticates
<1>1. SessionInv => EveryRowAuthenticates
  BY DEF SessionInv, IndexInv
<1>. QED BY <1>1, SessionInvHolds, PTL

\* A rebuild and a restart cut the expiry of a session to the second its row
\* has; a login publishes a token the index does not have.
LEMMA NoStepExtends ==
    ASSUME SessionInv, [Next]_vars, NEW t \in Tokens, index[t] # None, index'[t] # None
    PROVE  index'[t].exp <= index[t].exp
<1>0. /\ Shape /\ TokenInv /\ RowsAreCurrent /\ SnapshotIsCurrent /\ LoginsAreFresh
      /\ index[t].exp \in Nat
  BY ValuesTyped DEF SessionInv, Shape, TokenInv, RowInv
<1>1. ASSUME rows[t] # None, index'[t].exp = rows[t] * TicksPerSecond
      PROVE  index'[t].exp <= index[t].exp
  BY <1>0, <1>1, SecondsCut DEF RowsAreCurrent
<1>2. ASSUME NEW p \in Procs, OwnStep(p) PROVE index'[t].exp <= index[t].exp
  <2>1. CASE ~DataStep(p)
    BY <1>0, <1>2, <2>1, QuietStep
  <2>2. CASE DataStep(p)
    <3>1. ~(Add(p) /\ t = job[p].token)
      BY <1>0 DEF Add, LoginsAreFresh, Pending
    <3>. QED BY <1>0, <1>1, <2>2, <3>1, IndexMoves
  <2>. QED BY <2>1, <2>2
<1>3. CASE Restart
  BY <1>1, <1>3 DEF Restart, Active
<1>4. CASE Tick \/ UNCHANGED vars
  BY <1>0, <1>4 DEF Tick, vars
<1>. QED BY <1>2, <1>3, <1>4, StepKinds

(***************************************************************************)
(* No step gives a session a later expiry than it had: neither the seconds *)
(* that ListActiveSessions reads back nor a second login.                  *)
(***************************************************************************)
THEOREM SessionsAreNeverExtended == Spec => NeverExtended
<1>1. SessionInv /\ [Next]_vars =>
          [\A t \in Tokens : index[t] # None /\ index'[t] # None =>
               index'[t].exp <= index[t].exp]_vars
  BY NoStepExtends
<1>. QED BY <1>1, SessionInvHolds, PTL DEF Spec, NeverExtended
=============================================================================
