---------------------------- MODULE ClientProofs ----------------------------
(***************************************************************************)
(* Safety of SessionClient and UploadQueue, for any number of requests     *)
(* nobody waits for, any files and any number of workers.                  *)
(*                                                                         *)
(* Session.  The inductive invariant adds to SignedOutCachesNoQuery that a *)
(* signed-out client has no data request under way whose answer would be   *)
(* cached, and what a login may rely on while it refreshes the session.    *)
(*                                                                         *)
(* Upload page.  RequestsHaveAWorker is not inductive: a second run must   *)
(* not start while a worker of the first is busy, a row in the hands of a  *)
(* worker must not be handed out again, and the requests that are aborted  *)
(* on leaving must be all there are.  What the rows show needs, besides,   *)
(* what a worker has and what the run has left.                            *)
(***************************************************************************)
EXTENDS SessionClient, UploadQueue, FiniteSetTheorems, TLAPS

\* Signed out, nothing is cached and nothing is on its way into the cache.
SignedOutIsQuiet ==
    session # "admin" => ~private /\ pageFetch = "none"

\* A refresh that sent a request of its own still waits for it, and is told
\* that there is no session only if there is none: no other flow can have
\* begun one since.
RefreshIsFresh ==
    flow = "refreshing" /\ joined = FALSE =>
        /\ sessionFetch # "none"
        /\ sessionFetch = "dead" => ~alive

ClientInv == SignedOutIsQuiet /\ RefreshIsFresh

-----------------------------------------------------------------------------
\* When the session settles, a flow that waits for it goes on or ends.
LEMMA SessionSettled ==
    ASSUME NEW failed, FlowGoesOn(AfterSession, failed)
    PROVE  /\ flow' \in {flow, "idle", "refreshed", "enteringSetup", "entered"}
           /\ flow \in {"refreshing", "entering", "enteringSession"} => flow' # flow
           /\ flow' = "refreshed" /\ flow # "refreshed" => flow = "refreshing" /\ ~failed
           /\ flow' = "enteringSetup" /\ flow # "enteringSetup" => flow = "entering" /\ ~failed
           /\ flow' = "entered" /\ flow # "entered" => flow = "enteringSession" /\ ~failed
  BY DEF FlowGoesOn, AfterSession

\* So does one that waits for the setup status.
LEMMA SetupSettled ==
    ASSUME NEW failed, FlowGoesOn(AfterSetup, failed)
    PROVE  /\ flow' \in {flow, "idle", "enteringSession", "entered"}
           /\ flow' = "enteringSession" /\ flow # "enteringSession" => flow = "entering"
           /\ flow' = "entered" /\ flow # "entered" => flow = "enteringSetup"
  BY DEF FlowGoesOn, AfterSetup

\* A fresh client has asked for its session and for nothing else.
LEMMA ClientInitially == Init => ClientInv
  BY DEF Init, ClientInv, SignedOutIsQuiet, RefreshIsFresh

\* Every step keeps the data caches of a signed-out client empty: whatever
\* signs out gives up the data request too.
LEMMA QuietIsPreserved == SignedOutIsQuiet /\ [Next]_vars => SignedOutIsQuiet'
<1> SUFFICES ASSUME SignedOutIsQuiet, [Next]_vars PROVE SignedOutIsQuiet'
  OBVIOUS
<1> USE DEF SignedOutIsQuiet
<1>1. CASE SessionEnds \/ RefetchSession \/ SetupArrives \/ ServerAnswersSetup
  BY <1>1 DEF SessionEnds, RefetchSession, SetupArrives, ServerAnswersSetup, server, shown
<1>2. CASE ServerAnswers
  BY <1>2 DEF ServerAnswers, server, shown
<1>3. CASE SessionArrives
  BY <1>3 DEF SessionArrives, ClearAuthenticatedCache, GiveUp, server, shown
<1>4. CASE PageFetches
  BY <1>4 DEF PageFetches, PageShown, server, shown
<1>5. CASE PageArrives
  BY <1>5 DEF PageArrives, server, shown
<1>6. CASE StrayArrives \/ MutationStarts
  BY <1>6 DEF StrayArrives, MutationStarts, server, shown
<1>7. CASE SubmitLogin \/ LoginAnswered \/ LoginRefreshes \/ LoginNavigates
  BY <1>7 DEF SubmitLogin, LoginAnswered, LoginRefreshes, LoginNavigates, server, shown
<1>8. CASE SubmitSetup \/ SetupAnswered \/ SetupRefreshes \/ SetupNavigates
  BY <1>8 DEF SubmitSetup, SetupAnswered, SetupRefreshes, SetupNavigates, server, shown
<1>9. CASE SignOut \/ SignOutNavigates
  BY <1>9 DEF SignOut, SignOutNavigates, server, shown
<1>10. CASE LogoutAnswered
  BY <1>10 DEF LogoutAnswered, ClearAuthenticatedCache, GiveUp, server, shown
<1>11. CASE Redirect
  BY <1>11 DEF Redirect, GuardRedirects, LoginRedirects, SetupRedirects, GiveUp, server, shown
<1>12. CASE UNCHANGED vars
  BY <1>12 DEF vars
<1> QED
  BY <1>1, <1>2, <1>3, <1>4, <1>5, <1>6, <1>7, <1>8, <1>9, <1>10, <1>11, <1>12 DEF Next

\* Every step keeps what a refresh relies on: only the two flows that sign in
\* make the session alive, and there is one flow at a time.
LEMMA FreshIsPreserved == RefreshIsFresh /\ [Next]_vars => RefreshIsFresh'
<1> SUFFICES ASSUME RefreshIsFresh, [Next]_vars PROVE RefreshIsFresh'
  OBVIOUS
<1> USE DEF RefreshIsFresh
<1>1. CASE SessionEnds \/ RefetchSession \/ ServerAnswersSetup
  BY <1>1 DEF SessionEnds, RefetchSession, ServerAnswersSetup, server, shown
<1>2. CASE ServerAnswers
  BY <1>2 DEF ServerAnswers, Answers, server, shown
<1>3. CASE SessionArrives
  <2>1. flow' # "refreshing"
    BY <1>3, SessionSettled DEF SessionArrives
  <2>. QED
    BY <2>1
<1>4. CASE PageFetches \/ PageArrives \/ StrayArrives \/ MutationStarts
  BY <1>4 DEF PageFetches, PageArrives, StrayArrives, MutationStarts,
              server, shown
<1>5. CASE SubmitLogin \/ LoginAnswered \/ LoginNavigates
  BY <1>5 DEF SubmitLogin, LoginAnswered, LoginNavigates, server, shown
<1>6. CASE LoginRefreshes
  BY <1>6 DEF LoginRefreshes, Refresh, server, shown
<1>7. CASE SubmitSetup \/ SetupAnswered \/ SetupRefreshes \/ SetupNavigates
  BY <1>7 DEF SubmitSetup, SetupAnswered, SetupRefreshes, SetupNavigates, server, shown
<1>8. CASE SignOut \/ LogoutAnswered \/ SignOutNavigates
  BY <1>8 DEF SignOut, LogoutAnswered, SignOutNavigates, server, shown
<1>9. CASE Redirect
  BY <1>9 DEF Redirect, GuardRedirects, LoginRedirects, SetupRedirects, server, shown
<1>10. CASE SetupArrives
  <2>1. flow' = "refreshing" => flow = "refreshing"
    BY <1>10, SetupSettled DEF SetupArrives
  <2>2. UNCHANGED <<alive, joined, sessionFetch>>
    BY <1>10 DEF SetupArrives, server
  <2>. QED
    BY <2>1, <2>2
<1>11. CASE UNCHANGED vars
  BY <1>11 DEF vars
<1> QED
  BY <1>1, <1>2, <1>3, <1>4, <1>5, <1>6, <1>7, <1>8, <1>9, <1>10, <1>11 DEF Next

\* Both parts hold throughout.
LEMMA ClientInvHolds == Spec => []ClientInv
<1>1. ClientInv /\ [Next]_vars => ClientInv'
  BY QuietIsPreserved, FreshIsPreserved DEF ClientInv
<1> QED
  BY ClientInitially, <1>1, PTL DEF Spec

-----------------------------------------------------------------------------
\* The parts of the type invariant: what is true or false, what is counted,
\* and the rest.
Flags == alive \in BOOLEAN /\ initialized \in BOOLEAN /\ joined \in BOOLEAN /\ private \in BOOLEAN
Count == [sent : 0..Strays, dead : 0..Strays]
States ==
    /\ session \in {"unknown", "null", "admin"}
    /\ setupStatus \in {"unknown", "no", "yes"}
    /\ sessionFetch \in {"none", "sent", "alive", "dead", "failed"}
    /\ setupFetch \in {"none", "sent", "no", "yes", "failed"}
    /\ pageFetch \in {"none", "sent", "alive", "dead", "failed"}
    /\ flow \in Flows
    /\ route \in {"login", "setup"} \cup Guarded
    /\ from \in {"none", "page", "login"}

\* No more requests than Strays are under way besides the page's.
Fits(others) == others.sent + others.dead <= Strays

TypesInv == Flags /\ States /\ strays \in Count /\ Fits(strays)

\* Every step keeps the flags.
LEMMA FlagsKept == Flags /\ [Next]_vars => Flags'
<1> SUFFICES ASSUME Flags, [Next]_vars PROVE Flags'
  OBVIOUS
<1> USE DEF Flags, server, shown
<1>1. CASE SessionEnds \/ RefetchSession \/ SetupArrives \/ ServerAnswersSetup \/ ServerAnswers
  BY <1>1 DEF SessionEnds, RefetchSession, SetupArrives, ServerAnswersSetup, ServerAnswers
<1>2. CASE SessionArrives \/ LogoutAnswered
  BY <1>2 DEF SessionArrives, LogoutAnswered, ClearAuthenticatedCache
<1>3. CASE PageFetches \/ PageArrives \/ StrayArrives \/ MutationStarts
  BY <1>3 DEF PageFetches, PageArrives, StrayArrives, MutationStarts
<1>4. CASE SubmitLogin \/ LoginAnswered \/ LoginRefreshes \/ LoginNavigates
  BY <1>4 DEF SubmitLogin, LoginAnswered, LoginRefreshes, Refresh, LoginNavigates
<1>5. CASE SubmitSetup \/ SetupAnswered \/ SetupRefreshes \/ SetupNavigates
  BY <1>5 DEF SubmitSetup, SetupAnswered, SetupRefreshes, Refresh, SetupNavigates
<1>6. CASE SignOut \/ SignOutNavigates \/ Redirect
  BY <1>6 DEF SignOut, SignOutNavigates, Redirect, GuardRedirects, LoginRedirects, SetupRedirects
<1>7. CASE UNCHANGED vars
  BY <1>7 DEF vars
<1>. QED
  BY <1>1, <1>2, <1>3, <1>4, <1>5, <1>6, <1>7 DEF Next

\* Every step keeps the rest but the counts.
LEMMA StatesKept == States /\ [Next]_vars => States'
<1> SUFFICES ASSUME States, [Next]_vars PROVE States'
  OBVIOUS
<1> USE DEF States, Flows, Guarded, server, shown
<1>1. CASE SessionEnds \/ RefetchSession \/ ServerAnswersSetup
  BY <1>1 DEF SessionEnds, RefetchSession, ServerAnswersSetup
<1>2. CASE ServerAnswers
  <2>1. sessionFetch' \in {sessionFetch, "alive", "dead", "failed"}
        /\ pageFetch' \in {pageFetch, "alive", "dead", "failed"}
    BY <1>2 DEF ServerAnswers, Answers
  <2>. QED
    BY <1>2, <2>1 DEF ServerAnswers
<1>3. CASE SessionArrives
  <2>1. session' \in {session, "admin", "null"} /\ pageFetch' \in {pageFetch, "none"}
    BY <1>3 DEF SessionArrives, ClearAuthenticatedCache, GiveUp
  <2>2. sessionFetch' = "none" /\ flow' \in {flow, "idle", "refreshed", "enteringSetup", "entered"}
    BY <1>3, SessionSettled DEF SessionArrives
  <2>3. UNCHANGED <<setupStatus, setupFetch, route, from>>
    BY <1>3 DEF SessionArrives
  <2>. QED
    BY <2>1, <2>2, <2>3
<1>4. CASE PageFetches \/ PageArrives \/ StrayArrives \/ MutationStarts
  BY <1>4 DEF PageFetches, PageArrives, StrayArrives, MutationStarts
<1>5. CASE SubmitLogin \/ LoginAnswered \/ LoginRefreshes \/ LoginNavigates
  BY <1>5 DEF SubmitLogin, LoginAnswered, LoginRefreshes, Refresh, LoginNavigates,
              LoginDestination
<1>6. CASE SubmitSetup \/ SetupAnswered \/ SetupRefreshes \/ SetupNavigates
  BY <1>6 DEF SubmitSetup, SetupAnswered, SetupRefreshes, Refresh, SetupNavigates
<1>7. CASE SignOut \/ SignOutNavigates
  BY <1>7 DEF SignOut, SignOutNavigates
<1>8. CASE LogoutAnswered
  <2>1. flow' \in {"left", "idle"} /\ session' = "null" /\ pageFetch' = "none"
    BY <1>8 DEF LogoutAnswered, ClearAuthenticatedCache, GiveUp
  <2>2. UNCHANGED <<setupStatus, sessionFetch, setupFetch, route, from>>
    BY <1>8 DEF LogoutAnswered
  <2>. QED
    BY <2>1, <2>2
<1>9. CASE Redirect
  BY <1>9 DEF Redirect, GuardRedirects, LoginRedirects, SetupRedirects, LoginDestination, GiveUp
<1>10. CASE SetupArrives
  <2>1. flow' \in {flow, "idle", "enteringSession", "entered"}
    BY <1>10, SetupSettled DEF SetupArrives
  <2>2. setupFetch' = "none" /\ setupStatus' \in {setupStatus, "yes", "no"}
    BY <1>10 DEF SetupArrives
  <2>3. UNCHANGED <<session, sessionFetch, pageFetch, route, from>>
    BY <1>10 DEF SetupArrives
  <2>. QED
    BY <2>1, <2>2, <2>3
<1>11. CASE UNCHANGED vars
  BY <1>11 DEF vars
<1>. QED
  BY <1>1, <1>2, <1>3, <1>4, <1>5, <1>6, <1>7, <1>8, <1>9, <1>10, <1>11 DEF Next

\* Giving up the data request keeps the others within Strays.
LEMMA GivenUpFits ==
    ASSUME ClientAssumption, NEW others \in Count, Fits(others),
           pageFetch \in {"none", "sent", "alive", "dead", "failed"}
    PROVE  GivenUp(others) \in Count /\ Fits(GivenUp(others))
<1> USE DEF Count, Fits
<1>0. Strays \in Nat /\ others.sent \in 0..Strays /\ others.dead \in 0..Strays
  BY DEF ClientAssumption
<1>1. CASE others.sent + others.dead < Strays
  <2>1. others.sent + 1 \in 0..Strays /\ others.dead + 1 \in 0..Strays
    BY <1>0, <1>1
  <2>2. CASE pageFetch = "sent"
    <3>1. GivenUp(others) = [others EXCEPT !.sent = @ + 1]
      BY <1>1, <2>2 DEF GivenUp
    <3>. QED
      BY <1>0, <1>1, <2>1, <3>1
  <2>3. CASE pageFetch = "dead"
    <3>1. GivenUp(others) = [others EXCEPT !.dead = @ + 1]
      BY <1>1, <2>3 DEF GivenUp
    <3>. QED
      BY <1>0, <1>1, <2>1, <3>1
  <2>4. CASE pageFetch \notin {"sent", "dead"}
    BY <2>4 DEF GivenUp
  <2>. QED
    BY <2>2, <2>3, <2>4
<1>2. CASE ~(others.sent + others.dead < Strays)
  BY <1>2 DEF GivenUp
<1>. QED
  BY <1>1, <1>2

\* Every step keeps the others within Strays: a change waits for room, and a
\* request given up is counted only if there is room.
LEMMA CountsKept ==
    ClientAssumption /\ TypesInv /\ [Next]_vars => strays' \in Count /\ Fits(strays')
<1> SUFFICES ASSUME ClientAssumption, TypesInv, [Next]_vars
             PROVE  strays' \in Count /\ Fits(strays')
  OBVIOUS
<1>0. /\ strays \in Count /\ Fits(strays) /\ Strays \in Nat
      /\ strays.sent \in 0..Strays /\ strays.dead \in 0..Strays
      /\ strays.sent + strays.dead <= Strays
      /\ pageFetch \in {"none", "sent", "alive", "dead", "failed"}
  BY DEF TypesInv, ClientAssumption, Count, Fits, States
<1>1. GivenUp(strays) \in Count /\ Fits(GivenUp(strays))
  BY <1>0, GivenUpFits
<1>2. CASE ServerAnswers
  <2>1. CASE strays.sent > 0 /\ strays' = [strays EXCEPT !.sent = @ - 1]
    <3>1. strays.sent - 1 \in 0..Strays
      BY <1>0, <2>1
    <3>. QED
      BY <1>0, <2>1, <3>1 DEF Count, Fits
  <2>2. CASE /\ strays.sent > 0
             /\ strays' = [sent |-> strays.sent - 1, dead |-> strays.dead + 1]
    <3>1. strays.sent - 1 \in 0..Strays /\ strays.dead + 1 \in 0..Strays
      BY <1>0, <2>2
    <3>. QED
      BY <1>0, <2>2, <3>1 DEF Count, Fits
  <2>. QED
    BY <1>0, <1>2, <2>1, <2>2 DEF ServerAnswers
<1>3. CASE StrayArrives
  <2>1. [strays EXCEPT !.dead = @ - 1] \in Count /\ Fits([strays EXCEPT !.dead = @ - 1])
    <3>1. strays.dead - 1 \in 0..Strays
      BY <1>0, <1>3 DEF StrayArrives
    <3>. QED
      BY <1>0, <3>1 DEF Count, Fits
  <2>2. /\ GivenUp([strays EXCEPT !.dead = @ - 1]) \in Count
        /\ Fits(GivenUp([strays EXCEPT !.dead = @ - 1]))
    BY <1>0, <2>1, GivenUpFits
  <2>. QED
    BY <1>3, <2>2 DEF StrayArrives
<1>4. CASE MutationStarts
  <2>1. strays' = [strays EXCEPT !.sent = @ + 1] /\ strays.sent + strays.dead < Strays
    BY <1>4 DEF MutationStarts
  <2>2. strays.sent + 1 \in 0..Strays
    BY <1>0, <2>1
  <2>. QED
    BY <1>0, <2>1, <2>2 DEF Count, Fits
<1>5. CASE strays' \in {strays, GivenUp(strays)}
  BY <1>0, <1>1, <1>5
<1>6. CASE SessionArrives \/ LogoutAnswered \/ Redirect
  BY <1>5, <1>6 DEF SessionArrives, LogoutAnswered, ClearAuthenticatedCache, GiveUp,
     Redirect, GuardRedirects, LoginRedirects, SetupRedirects
<1>7. CASE SessionEnds \/ RefetchSession \/ SetupArrives \/ ServerAnswersSetup
             \/ PageFetches \/ PageArrives
  BY <1>5, <1>7 DEF SessionEnds, RefetchSession, SetupArrives, ServerAnswersSetup,
     PageFetches, PageArrives
<1>8. CASE SubmitLogin \/ LoginAnswered \/ LoginRefreshes \/ LoginNavigates
             \/ SubmitSetup \/ SetupAnswered \/ SetupRefreshes \/ SetupNavigates
             \/ SignOut \/ SignOutNavigates
  BY <1>5, <1>8 DEF SubmitLogin, LoginAnswered, LoginRefreshes, LoginNavigates,
     SubmitSetup, SetupAnswered, SetupRefreshes, SetupNavigates, SignOut, SignOutNavigates
<1>9. CASE UNCHANGED vars
  BY <1>5, <1>9 DEF vars
<1>. QED
  BY <1>2, <1>3, <1>4, <1>6, <1>7, <1>8, <1>9 DEF Next

\* All parts of the types hold throughout.
LEMMA TypesInvHolds ==
    ASSUME ClientAssumption
    PROVE  Spec => []TypesInv
<1>1. Init => TypesInv
  <2> SUFFICES ASSUME Init PROVE TypesInv
    OBVIOUS
  <2>1. Flags
    BY DEF Init, Flags
  <2>2. States
    BY DEF Init, States, Flows, Guarded
  <2>3. strays \in Count /\ Fits(strays)
    BY DEF ClientAssumption, Init, Count, Fits
  <2>. QED
    BY <2>1, <2>2, <2>3 DEF TypesInv
<1>2. TypesInv /\ [Next]_vars => TypesInv'
  <2> SUFFICES ASSUME TypesInv, [Next]_vars PROVE TypesInv'
    OBVIOUS
  <2>1. Flags' /\ States'
    BY FlagsKept, StatesKept DEF TypesInv
  <2>2. strays' \in Count /\ Fits(strays')
    BY CountsKept
  <2>. QED
    BY <2>1, <2>2 DEF TypesInv, Count, Fits
<1> QED
  BY <1>1, <1>2, PTL DEF Spec

\* The client keeps its types: whoever gives up a request or sends a change,
\* at most Strays of each kind are under way besides the page's (apiRequest).
THEOREM ClientTypes ==
    ASSUME ClientAssumption
    PROVE  Spec => []TypeOK
<1>1. TypesInv => TypeOK
  BY DEF TypesInv, Flags, States, Count, TypeOK
<1> QED
  BY <1>1, TypesInvHolds, PTL

\* A signed-out client has no data of the administrator in its query caches,
\* whichever requests were under way when the session ended: the answers of
\* clearAuthenticatedCache's victims are ignored (auth-provider.tsx).
THEOREM ClientCachesNothing == Spec => []SignedOutCachesNoQuery
<1>1. ClientInv => SignedOutCachesNoQuery
  BY DEF ClientInv, SignedOutIsQuiet, SignedOutCachesNoQuery
<1> QED
  BY <1>1, ClientInvHolds, PTL

\* When the refresh of a login returns, the session it has put into the cache
\* is the one the login made, unless the refresh joined an older request or
\* the session has ended meanwhile (refresh of auth-provider.tsx).
THEOREM ClientSeesLogin == Spec => LoginIsSeen
<1> DEFINE Seen == flow # "refreshed" /\ flow' = "refreshed" /\ ~joined' /\ alive
                     => session' = "admin"
<1>1. ClientInv /\ [Next]_vars => [Seen]_vars
  <2> SUFFICES ASSUME RefreshIsFresh, Next, flow # "refreshed", flow' = "refreshed",
                      ~joined', alive
               PROVE  session' = "admin"
    BY DEF ClientInv
  <2>1. LoginRefreshes \/ SessionArrives
    <3>1. ASSUME SessionEnds \/ RefetchSession \/ ServerAnswersSetup \/ ServerAnswers
          PROVE  FALSE
      BY <3>1 DEF SessionEnds, RefetchSession, ServerAnswersSetup, ServerAnswers
    <3>2. ASSUME PageFetches \/ PageArrives \/ StrayArrives \/ MutationStarts
          PROVE  FALSE
      BY <3>2 DEF PageFetches, PageArrives, StrayArrives, MutationStarts
    <3>3. ASSUME SubmitLogin \/ LoginAnswered \/ LoginNavigates \/ SubmitSetup \/ SetupAnswered
                   \/ SetupRefreshes \/ SetupNavigates
          PROVE  FALSE
      BY <3>3 DEF SubmitLogin, LoginAnswered, LoginNavigates, SubmitSetup, SetupAnswered,
                  SetupRefreshes, SetupNavigates
    <3>4. ASSUME SignOut \/ LogoutAnswered \/ SignOutNavigates \/ Redirect
          PROVE  FALSE
      BY <3>4 DEF SignOut, LogoutAnswered, SignOutNavigates, Redirect, GuardRedirects,
                  LoginRedirects, SetupRedirects
    <3>5. ASSUME SetupArrives PROVE FALSE
      BY <3>5, SetupSettled DEF SetupArrives
    <3> QED
      BY <3>1, <3>2, <3>3, <3>4, <3>5 DEF Next
  <2>2. ~LoginRefreshes
    BY DEF LoginRefreshes, Refresh
  <2>3. SessionArrives
    BY <2>1, <2>2
  <2>4. flow = "refreshing" /\ joined' = joined /\ sessionFetch # "failed"
    BY <2>3, SessionSettled DEF SessionArrives
  <2> QED
    BY <2>3, <2>4 DEF SessionArrives, RefreshIsFresh
<1> QED
  BY <1>1, ClientInvHolds, PTL DEF Spec, LoginIsSeen

-----------------------------------------------------------------------------
(* The setup.                                                               *)

Entering == flow \in {"entering", "enteringSession", "enteringSetup", "entered"}
SettingUp == flow = "setupOk" \/ Entering

\* Nobody has signed in before the setup, so nothing of a session is about.
NobodyBeforeSetup ==
    ~initialized => /\ ~alive /\ session # "admin" /\ sessionFetch # "alive"
                    /\ pageFetch = "none" /\ strays.sent = 0 /\ strays.dead = 0

\* That is why no 401 of an earlier session can reach the listener while the
\* setup waits.
SetupIsAlone == SettingUp /\ alive => pageFetch # "dead" /\ strays.dead = 0

\* A setup whose refresh sent its own request waits for it until it is told of
\* the session, and is not told that there is none.
SetupIsFresh ==
    Entering /\ ~joined =>
        /\ sessionFetch = "dead" => ~alive
        /\ flow \in {"entering", "enteringSession"} => sessionFetch # "none"
        /\ flow = "enteringSetup" /\ alive => session = "admin"

SetupInv == NobodyBeforeSetup /\ SetupIsAlone /\ SetupIsFresh

\* Giving up a data request adds a 401 to the strays only if it got one.
LEMMA GivenUpDead ==
    ASSUME NEW others \in Count, pageFetch # "dead"
    PROVE  GivenUp(others).dead = others.dead
<1>1. GivenUp(others) = others \/ GivenUp(others) = [others EXCEPT !.sent = @ + 1]
  BY DEF GivenUp
<1>. QED
  BY <1>1 DEF Count

\* Before the setup nobody can send anything that needs a session.
LEMMA NobodyIsPreserved ==
    NobodyBeforeSetup /\ [Next]_vars => NobodyBeforeSetup'
<1> SUFFICES ASSUME NobodyBeforeSetup, [Next]_vars, ~initialized'
             PROVE  /\ ~alive' /\ session' # "admin" /\ sessionFetch' # "alive"
                    /\ pageFetch' = "none" /\ strays'.sent = 0 /\ strays'.dead = 0
  BY DEF NobodyBeforeSetup
<1> USE DEF server, shown
<1>0. CASE initialized
  BY <1>0 DEF Next, vars, SessionEnds, RefetchSession, SetupArrives, ServerAnswersSetup,
     ServerAnswers, SessionArrives, PageFetches, PageArrives, StrayArrives, MutationStarts,
     SubmitLogin, LoginAnswered, LoginRefreshes, LoginNavigates, SubmitSetup, SetupAnswered,
     SetupRefreshes, SetupNavigates, SignOut, LogoutAnswered, SignOutNavigates,
     Redirect, GuardRedirects, LoginRedirects, SetupRedirects
<1>1. CASE ~initialized
  <2>0. /\ ~alive /\ session # "admin" /\ sessionFetch # "alive" /\ pageFetch = "none"
        /\ strays.sent = 0 /\ strays.dead = 0
    BY <1>1 DEF NobodyBeforeSetup
  <2>a. ~PageShown
    BY <2>0 DEF PageShown
  <2>b. GivenUp(strays) = strays
    BY <2>0 DEF GivenUp
  <2>1. CASE SessionEnds \/ RefetchSession \/ SetupArrives \/ ServerAnswersSetup
    BY <2>0, <2>1 DEF SessionEnds, RefetchSession, SetupArrives, ServerAnswersSetup
  <2>2. CASE ServerAnswers
    BY <2>0, <2>2 DEF ServerAnswers, Answers
  <2>3. CASE SessionArrives
    BY <2>0, <2>b, <2>3 DEF SessionArrives, ClearAuthenticatedCache, GiveUp
  <2>4. CASE PageFetches \/ PageArrives \/ StrayArrives \/ MutationStarts
    BY <2>0, <2>a, <2>4 DEF PageFetches, PageArrives, StrayArrives, MutationStarts
  <2>5. CASE SubmitLogin \/ LoginAnswered \/ LoginRefreshes \/ LoginNavigates
    BY <1>1, <2>0, <2>5 DEF SubmitLogin, LoginAnswered, LoginRefreshes, Refresh, LoginNavigates
  <2>6. CASE SubmitSetup \/ SetupAnswered \/ SetupRefreshes \/ SetupNavigates
    BY <2>0, <2>6 DEF SubmitSetup, SetupAnswered, SetupRefreshes, Refresh, SetupNavigates
  <2>7. CASE SignOut \/ SignOutNavigates
    BY <2>0, <2>7 DEF SignOut, SignOutNavigates
  <2>8. CASE LogoutAnswered
    <3>1. alive' = FALSE \/ alive' = alive
      BY <2>8 DEF LogoutAnswered
    <3>2. UNCHANGED <<sessionFetch, initialized>>
      BY <2>8 DEF LogoutAnswered
    <3>3. pageFetch' = "none" /\ strays' = strays /\ session' = "null"
      BY <2>b, <2>8 DEF LogoutAnswered, ClearAuthenticatedCache, GiveUp
    <3>. QED
      BY <2>0, <3>1, <3>2, <3>3
  <2>9. CASE Redirect
    BY <2>0, <2>b, <2>9 DEF Redirect, GuardRedirects, LoginRedirects, SetupRedirects, GiveUp
  <2>10. CASE UNCHANGED vars
    BY <2>0, <2>10 DEF vars
  <2>. QED
    BY <2>1, <2>2, <2>3, <2>4, <2>5, <2>6, <2>7, <2>8, <2>9, <2>10 DEF Next
<1>. QED
  BY <1>0, <1>1

\* While a setup waits, requests that are given up got no 401.
LEMMA AloneIsPreserved ==
    TypesInv /\ NobodyBeforeSetup /\ SetupIsAlone /\ [Next]_vars => SetupIsAlone'
<1> SUFFICES ASSUME TypesInv, NobodyBeforeSetup, SetupIsAlone, [Next]_vars, SettingUp', alive'
             PROVE  pageFetch' # "dead" /\ strays'.dead = 0
  BY DEF SetupIsAlone
<1> USE DEF server, shown, SettingUp, Entering
<1>0. strays \in Count
  BY DEF TypesInv
<1>1. CASE SetupAnswered
  BY <1>1 DEF SetupAnswered, NobodyBeforeSetup
<1>2. CASE ~SetupAnswered
  <2>1. SettingUp
    <3>1. CASE SessionArrives
      BY <3>1, SessionSettled DEF SessionArrives
    <3>2. CASE SetupArrives
      BY <3>2, SetupSettled DEF SetupArrives
    <3>. QED
      BY <1>2, <3>1, <3>2 DEF Next, vars, SessionEnds, RefetchSession, ServerAnswersSetup,
         ServerAnswers, PageFetches, PageArrives, StrayArrives, MutationStarts,
         SubmitLogin, LoginAnswered, LoginRefreshes, LoginNavigates, SubmitSetup,
         SetupRefreshes, SetupNavigates, SignOut, LogoutAnswered, SignOutNavigates,
         Redirect, GuardRedirects, LoginRedirects, SetupRedirects
  <2>2. alive
    BY <1>2, <2>1 DEF Next, vars, SessionEnds, RefetchSession, ServerAnswersSetup, SetupArrives,
         ServerAnswers, SessionArrives, PageFetches, PageArrives, StrayArrives, MutationStarts,
         SubmitLogin, LoginAnswered, LoginRefreshes, LoginNavigates, SubmitSetup,
         SetupRefreshes, SetupNavigates, SignOut, LogoutAnswered, SignOutNavigates,
         Redirect, GuardRedirects, LoginRedirects, SetupRedirects
  <2>3. pageFetch # "dead" /\ strays.dead = 0
    BY <2>1, <2>2 DEF SetupIsAlone
  <2>4. GivenUp(strays).dead = 0
    BY <1>0, <2>3, GivenUpDead
  <2>5. CASE ServerAnswers
    <3>1. [strays EXCEPT !.sent = @ - 1].dead = 0
      BY <1>0, <2>3 DEF Count
    <3>. QED
      BY <2>2, <2>3, <2>5, <3>1 DEF ServerAnswers, Answers
  <2>6. CASE SessionArrives \/ LogoutAnswered \/ Redirect
    BY <2>3, <2>4, <2>6 DEF SessionArrives, LogoutAnswered, ClearAuthenticatedCache, GiveUp,
       Redirect, GuardRedirects, LoginRedirects, SetupRedirects
  <2>7. CASE PageFetches \/ PageArrives \/ StrayArrives
    <3>1. ~StrayArrives
      BY <2>3 DEF StrayArrives
    <3>2. CASE PageFetches
      BY <2>3, <3>2 DEF PageFetches
    <3>3. CASE PageArrives
      BY <2>3, <3>3 DEF PageArrives
    <3>. QED
      BY <2>7, <3>1, <3>2, <3>3
  <2>8. CASE MutationStarts
    <3>1. [strays EXCEPT !.sent = @ + 1].dead = 0
      BY <1>0, <2>3 DEF Count
    <3>. QED
      BY <2>3, <2>8, <3>1 DEF MutationStarts
  <2>9. CASE SessionEnds \/ RefetchSession \/ ServerAnswersSetup \/ SetupArrives
               \/ SubmitLogin \/ LoginAnswered \/ LoginRefreshes \/ LoginNavigates
               \/ SubmitSetup \/ SetupRefreshes \/ SetupNavigates \/ SignOut \/ SignOutNavigates
    BY <2>3, <2>9 DEF SessionEnds, RefetchSession, ServerAnswersSetup, SetupArrives,
         SubmitLogin, LoginAnswered, LoginRefreshes, LoginNavigates, SubmitSetup,
         SetupRefreshes, SetupNavigates, SignOut, SignOutNavigates
  <2>10. CASE UNCHANGED vars
    BY <2>3, <2>10 DEF vars
  <2>. QED
    BY <1>2, <2>5, <2>6, <2>7, <2>8, <2>9, <2>10 DEF Next
<1>. QED
  BY <1>1, <1>2

\* What the setup was told of its session stays known until it enters.
LEMMA SetupFreshIsPreserved ==
    SetupIsAlone /\ SetupIsFresh /\ [Next]_vars => SetupIsFresh'
<1> SUFFICES ASSUME SetupIsAlone, SetupIsFresh, [Next]_vars, Entering', ~joined'
             PROVE  /\ sessionFetch' = "dead" => ~alive'
                    /\ flow' \in {"entering", "enteringSession"} => sessionFetch' # "none"
                    /\ flow' = "enteringSetup" /\ alive' => session' = "admin"
  BY DEF SetupIsFresh
<1> USE DEF server, shown, Entering
<1>1. CASE SetupRefreshes
  BY <1>1 DEF SetupRefreshes, Refresh
<1>2. CASE SessionArrives
  <2>1. Entering /\ ~joined
    BY <1>2, SessionSettled DEF SessionArrives
  <2>2. /\ sessionFetch' = "none" /\ alive' = alive
        /\ sessionFetch = "dead" => ~alive
    BY <1>2, <2>1 DEF SessionArrives, SetupIsFresh
  <2>3. flow' \notin {"entering", "enteringSession"}
    BY <1>2, SessionSettled DEF SessionArrives
  <2>4. ASSUME flow' = "enteringSetup", alive PROVE session' = "admin"
    <3>1. CASE sessionFetch = "failed"
      <4>1. flow = "enteringSetup" /\ session = "admin"
        BY <1>2, <2>1, <2>4, <3>1, SessionSettled DEF SessionArrives, SetupIsFresh
      <4>. QED
        BY <1>2, <3>1, <4>1 DEF SessionArrives
    <3>. QED
      BY <1>2, <2>2, <2>4, <3>1 DEF SessionArrives
  <2>. QED
    BY <2>2, <2>3, <2>4
<1>3. CASE SetupArrives
  <2>1. Entering /\ UNCHANGED <<alive, joined, session, sessionFetch>>
    BY <1>3, SetupSettled DEF SetupArrives
  <2>2. /\ flow' = "enteringSession" => flow \in {"entering", "enteringSession"}
        /\ flow' = "entering" => flow = "entering"
        /\ flow' = "enteringSetup" => flow = "enteringSetup"
    BY <1>3, SetupSettled DEF SetupArrives
  <2>. QED
    BY <2>1, <2>2 DEF SetupIsFresh
<1>4. CASE SessionEnds \/ RefetchSession \/ ServerAnswersSetup
  BY <1>4 DEF SessionEnds, RefetchSession, ServerAnswersSetup, SetupIsFresh
<1>5. CASE ServerAnswers
  BY <1>5 DEF ServerAnswers, Answers, SetupIsFresh
<1>6. CASE PageArrives \/ StrayArrives
  <2>1. Entering /\ ~joined /\ UNCHANGED <<alive, sessionFetch, flow>>
    BY <1>6 DEF PageArrives, StrayArrives
  <2>2. session' = session \/ ~alive
    <3>1. alive => pageFetch # "dead" /\ strays.dead = 0
      BY <2>1 DEF SetupIsAlone, SettingUp
    <3>2. ASSUME StrayArrives PROVE strays.dead # 0
      BY <3>2 DEF StrayArrives
    <3>. QED
      BY <1>6, <3>1, <3>2 DEF PageArrives
  <2>. QED
    BY <2>1, <2>2 DEF SetupIsFresh
<1>7. CASE PageFetches \/ MutationStarts
  BY <1>7 DEF PageFetches, MutationStarts, SetupIsFresh
<1>8. CASE SubmitLogin \/ LoginAnswered \/ LoginRefreshes \/ LoginNavigates
             \/ SubmitSetup \/ SetupAnswered \/ SetupNavigates
  BY <1>8 DEF SubmitLogin, LoginAnswered, LoginRefreshes, LoginNavigates, SubmitSetup,
     SetupAnswered, SetupNavigates, SetupIsFresh
<1>9. CASE SignOut \/ LogoutAnswered \/ SignOutNavigates
  BY <1>9 DEF SignOut, LogoutAnswered, SignOutNavigates, SetupIsFresh
<1>10. CASE Redirect
  BY <1>10 DEF Redirect, GuardRedirects, LoginRedirects, SetupRedirects, SetupIsFresh
<1>11. CASE UNCHANGED vars
  BY <1>11 DEF vars, SetupIsFresh
<1>. QED
  BY <1>1, <1>2, <1>3, <1>4, <1>5, <1>6, <1>7, <1>8, <1>9, <1>10, <1>11 DEF Next

\* The setup's invariant holds throughout.
LEMMA SetupInvHolds ==
    ASSUME ClientAssumption
    PROVE  Spec => []SetupInv
<1>1. Init => SetupInv
  <2> SUFFICES ASSUME Init PROVE SetupInv
    OBVIOUS
  <2>1. /\ flow = "idle" /\ pageFetch = "none" /\ strays = [sent |-> 0, dead |-> 0]
        /\ session = "unknown" /\ sessionFetch = "sent" /\ (~initialized => ~alive)
    BY DEF Init
  <2>. QED
    BY <2>1 DEF SetupInv, NobodyBeforeSetup, SetupIsAlone, SetupIsFresh, SettingUp, Entering
<1>2. TypesInv /\ SetupInv /\ [Next]_vars => SetupInv'
  BY NobodyIsPreserved, AloneIsPreserved, SetupFreshIsPreserved DEF SetupInv
<1> QED
  BY <1>1, <1>2, TypesInvHolds, PTL DEF Spec

\* A setup leaves its page for the interface only with the session it has
\* made, whichever of its two refreshes is answered first, and not when one of
\* them failed (submit of setup-page.tsx); unless the refresh joined an older
\* request or the session has ended meanwhile.
THEOREM ClientSeesSetup ==
    ASSUME ClientAssumption
    PROVE  Spec => SetupIsSeen
<1> DEFINE Seen == flow # "entered" /\ flow' = "entered" /\ ~joined' /\ alive
                     => session' = "admin"
<1>1. SetupInv /\ [Next]_vars => [Seen]_vars
  <2> SUFFICES ASSUME SetupIsFresh, Next, flow # "entered", flow' = "entered",
                      ~joined', alive
               PROVE  session' = "admin"
    BY DEF SetupInv
  <2>1. SessionArrives \/ SetupArrives
    BY DEF Next, SessionEnds, RefetchSession, ServerAnswersSetup,
         ServerAnswers, PageFetches, PageArrives, StrayArrives, MutationStarts,
         SubmitLogin, LoginAnswered, LoginRefreshes, LoginNavigates, SubmitSetup, SetupAnswered,
         SetupRefreshes, SetupNavigates, SignOut, LogoutAnswered, SignOutNavigates,
         Redirect, GuardRedirects, LoginRedirects, SetupRedirects
  <2>2. CASE SessionArrives
    <3>1. flow = "enteringSession" /\ sessionFetch # "failed" /\ ~joined
      BY <2>2, SessionSettled DEF SessionArrives
    <3>2. sessionFetch # "dead"
      BY <3>1 DEF SetupIsFresh, Entering
    <3>. QED
      BY <2>2, <3>1, <3>2 DEF SessionArrives
  <2>3. CASE SetupArrives
    <3>1. flow = "enteringSetup" /\ ~joined /\ session' = session
      BY <2>3, SetupSettled DEF SetupArrives
    <3>. QED
      BY <3>1 DEF SetupIsFresh, Entering
  <2>. QED
    BY <2>1, <2>2, <2>3
<1> QED
  BY <1>1, SetupInvHolds, PTL DEF Spec, SetupIsSeen

-----------------------------------------------------------------------------
(* The upload page.                                                         *)

Types ==
    /\ job \in [Workers -> Files \cup {None}]
    /\ request \in [Files -> [state : RequestState, visibility : Visibilities \cup {None}]]
    /\ active \in BOOLEAN /\ uploading \in BOOLEAN
    /\ visibility \in Visibilities /\ run.visibility \in Visibilities
    /\ run.left \subseteq Files

Busy(f) == \E w \in Workers : job[w] = f

\* Two workers never have the same row.
JobsDiffer == \A v, w \in Workers : job[v] = job[w] /\ job[v] # None => v = w

\* The shared index is past the rows in the workers' hands.
LeftIsFree == \A w \in Workers : job[w] \notin run.left

\* Between two runs every worker has returned.
RunHasWorkers == \A w \in Workers : job[w] # None => uploading

\* Every request has its worker.
RequestsAreKnown ==
    \A f \in Files : request[f].state # "none" => Busy(f)

\* A request in flight has its controller, and its page is active.
InFlightIsControlled ==
    \A f \in Files : request[f].state \in InFlight => active /\ f \in controllers

UploadInv ==
    Types /\ JobsDiffer /\ LeftIsFree /\ RunHasWorkers /\ RequestsAreKnown
    /\ InFlightIsControlled

-----------------------------------------------------------------------------
\* A page that was just opened has neither rows nor requests.
LEMMA UploadInitially == ASSUME UploadAssumption PROVE UploadInit => UploadInv
<1> SUFFICES ASSUME UploadInit PROVE UploadInv
  OBVIOUS
<1> USE DEF UploadInit, UploadAssumption
<1>1. Types
  BY DEF Types, NoRequest, RequestState
<1>2. JobsDiffer /\ LeftIsFree /\ RunHasWorkers
  BY DEF JobsDiffer, LeftIsFree, RunHasWorkers
<1>3. RequestsAreKnown /\ InFlightIsControlled
  BY DEF RequestsAreKnown, InFlightIsControlled, NoRequest, InFlight
<1> QED
  BY <1>1, <1>2, <1>3 DEF UploadInv

\* A step that leaves workers, requests, controllers and the run alone.
LEMMA FrameKeeps ==
    ASSUME UploadInv, UNCHANGED <<job, request, controllers, active>>,
           visibility' \in Visibilities, run'.visibility \in Visibilities,
           run'.left = run.left, uploading' \in BOOLEAN, uploading => uploading'
    PROVE  UploadInv'
BY DEF UploadInv, Types, JobsDiffer, LeftIsFree, RunHasWorkers, RequestsAreKnown, Busy,
       InFlightIsControlled

\* A run starts when no worker is busy.
LEMMA StartRunKeeps ==
    ASSUME UploadAssumption, UploadInv, ~uploading, NEW q \in SUBSET Files, NEW n, StartRun(q, n)
    PROVE  UploadInv'
<1>1. \A w \in Workers : job[w] = None
  BY DEF UploadInv, RunHasWorkers
<1>2. /\ UNCHANGED <<job, request, controllers, active, visibility>>
      /\ uploading' = TRUE /\ run'.left = q /\ run'.visibility = visibility
  BY DEF StartRun, netVars
<1> QED
  BY <1>1, <1>2 DEF UploadInv, Types, JobsDiffer, LeftIsFree, RunHasWorkers, RequestsAreKnown,
                    Busy, InFlightIsControlled, UploadAssumption

\* A free worker takes a row nobody has.
LEMMA UploadOneKeeps ==
    ASSUME UploadAssumption, UploadInv, NEW w \in Workers, NEW f \in Files, UploadOne(w, f)
    PROVE  UploadInv'
<1> USE DEF UploadInv, Types, UploadAssumption
<1>1. /\ uploading /\ active /\ job[w] = None /\ f \in run.left
      /\ job' = [job EXCEPT ![w] = f]
      /\ controllers' = controllers \cup {f}
      /\ request' = [request EXCEPT ![f] = [state |-> "sent", visibility |-> run.visibility]]
      /\ UNCHANGED <<uploading, active, visibility>>
      /\ run'.left = run.left \ {f} /\ run'.visibility = run.visibility
  BY DEF UploadOne, Send
<1>2. \A v \in Workers : job'[v] = IF v = w THEN f ELSE job[v]
  BY <1>1
<1>3. \A g \in Files : request'[g].state = IF g = f THEN "sent" ELSE request[g].state
  BY <1>1
<1>4. Types'
  BY <1>1 DEF RequestState, InFlight
<1>5. JobsDiffer' /\ LeftIsFree' /\ RunHasWorkers'
  BY <1>1, <1>2 DEF JobsDiffer, LeftIsFree, RunHasWorkers
<1>6. RequestsAreKnown'
  BY <1>1, <1>2, <1>3 DEF RequestsAreKnown, Busy
<1>7. InFlightIsControlled'
  BY <1>1, <1>3 DEF InFlightIsControlled
<1> QED
  BY <1>4, <1>5, <1>6, <1>7

\* The server answers, or a row is canceled: the request stays its worker's.
LEMMA RequestChangeKeeps ==
    ASSUME UploadInv, UNCHANGED <<uploading, run, job, visibility, active, controllers>>,
           request' \in [Files -> [state : RequestState, visibility : Visibilities \cup {None}]],
           \A g \in Files : /\ request[g].state = "none" => request'[g].state = "none"
                            /\ request'[g].state \in InFlight => request[g].state \in InFlight
    PROVE  UploadInv'
BY DEF UploadInv, Types, JobsDiffer, LeftIsFree, RunHasWorkers, RequestsAreKnown, Busy,
       InFlightIsControlled

\* abort leaves requests that are not in flight alone and none of fs in flight.
LEMMA AbortedIsAborted ==
    ASSUME Types, NEW fs
    PROVE  /\ Aborted(fs) \in [Files -> [state : RequestState,
                                         visibility : Visibilities \cup {None}]]
           /\ \A g \in Files :
                 /\ request[g].state = "none" => Aborted(fs)[g].state = "none"
                 /\ Aborted(fs)[g].state \in InFlight =>
                        request[g].state \in InFlight /\ g \notin fs
BY DEF Types, Aborted, RequestState, InFlight

\* A worker returns: its row's request and controller go with it, and the
\* requests that are left over, reqs, are those of the other workers.
LEMMA ReturnKeeps ==
    ASSUME UploadAssumption, UploadInv, NEW w \in Workers, NEW f \in Files, job[w] = f,
           NEW reqs \in [Files -> [state : RequestState, visibility : Visibilities \cup {None}]],
           job' = [job EXCEPT ![w] = None], controllers' = controllers \ {f},
           request' = [reqs EXCEPT ![f] = NoRequest], UNCHANGED <<uploading, visibility>>,
           run'.left = run.left, run'.visibility = run.visibility, active' \in BOOLEAN,
           \A g \in Files :
              /\ request[g].state = "none" => reqs[g].state = "none"
              /\ reqs[g].state \in InFlight => request[g].state \in InFlight /\ active'
    PROVE  UploadInv'
<1> USE DEF UploadInv, Types, UploadAssumption
<1>1. \A v \in Workers : job'[v] = IF v = w THEN None ELSE job[v]
  OBVIOUS
<1>2. \A g \in Files : request'[g].state = IF g = f THEN "none" ELSE reqs[g].state
  BY DEF NoRequest
<1>3. Types'
  BY DEF NoRequest, RequestState
<1>4. JobsDiffer' /\ LeftIsFree' /\ RunHasWorkers'
  BY <1>1 DEF JobsDiffer, LeftIsFree, RunHasWorkers
<1>5. RequestsAreKnown'
  BY <1>1, <1>2 DEF RequestsAreKnown, Busy
<1>6. InFlightIsControlled'
  BY <1>2 DEF InFlightIsControlled, InFlight
<1> QED
  BY <1>3, <1>4, <1>5, <1>6

\* Leaving aborts what the controllers know, which is all there is.
LEMMA LeavingKeeps ==
    ASSUME UploadInv, active' = FALSE, request' = Aborted(controllers),
           UNCHANGED <<uploading, run, job, visibility>>
    PROVE  UploadInv'
<1> USE DEF UploadInv
<1>1. \A g \in Files : request'[g].state \notin InFlight
  BY AbortedIsAborted DEF InFlightIsControlled
<1>2. Types'
  BY AbortedIsAborted DEF Types
<1>3. RequestsAreKnown'
  BY AbortedIsAborted DEF RequestsAreKnown, Busy
<1> QED
  BY <1>1, <1>2, <1>3 DEF JobsDiffer, LeftIsFree, RunHasWorkers, InFlightIsControlled

\* Every step keeps the invariant.
LEMMA UploadInvIsPreserved ==
    ASSUME UploadAssumption PROVE UploadInv /\ [UploadNext]_uploadVars => UploadInv'
<1> SUFFICES ASSUME UploadInv, [UploadNext]_uploadVars PROVE UploadInv'
  OBVIOUS
<1>1. ASSUME NEW fs \in SUBSET Files, AddFiles(fs) PROVE UploadInv'
  BY <1>1, FrameKeeps DEF AddFiles, QueueRows, netVars, UploadInv, Types
<1>2. ASSUME NEW v \in Visibilities, ChangeVisibility(v) PROVE UploadInv'
  BY <1>2, FrameKeeps DEF ChangeVisibility, netVars, UploadInv, Types
<1>3. ASSUME NEW f \in Files, Retry(f) PROVE UploadInv'
  <2>1. CASE active
    BY <1>3, <2>1, StartRunKeeps DEF Retry
  <2>2. CASE ~active
    BY <1>3, <2>2, FrameKeeps DEF Retry, netVars, UploadInv, Types
  <2> QED
    BY <2>1, <2>2
<1>4. ASSUME NEW f \in Files, CancelRow(f) PROVE UploadInv'
  BY <1>4, RequestChangeKeeps, AbortedIsAborted DEF CancelRow, UploadInv
<1>5. CASE ClearQueue
  <2>1. run'.left = run.left /\ run'.visibility = run.visibility
    BY <1>5 DEF ClearQueue
  <2> QED
    BY <1>5, <2>1, FrameKeeps DEF ClearQueue, netVars, UploadInv, Types
<1>6. CASE Submit
  BY <1>6, StartRunKeeps DEF Submit, Unfinished, Rows
<1>7. CASE Stay \/ SystemLoads
  BY <1>7, FrameKeeps DEF Stay, SystemLoads, netVars, UploadInv, Types
<1>8. ASSUME Unmount PROVE UploadInv'
  BY <1>8, LeavingKeeps DEF Unmount
<1>9. CASE Navigate
  <2>1. CASE UNCHANGED <<visibility, uploading, run, netVars, active>>
    BY <2>1, FrameKeeps DEF netVars, UploadInv, Types
  <2> QED
    BY <1>9, <2>1, <1>8 DEF Navigate
<1>10. CASE LeaveUpload
  BY <1>10, LeavingKeeps DEF LeaveUpload
<1>11. CASE RouterUnmounts \/ SessionLost
  BY <1>11, <1>8 DEF RouterUnmounts, SessionLost
<1>12. ASSUME NEW w \in Workers, NEW f \in Files, UploadOne(w, f) PROVE UploadInv'
  BY <1>12, UploadOneKeeps
<1>13. ASSUME NEW w \in Workers, NEW f \in Files, UploadSucceeds(w, f) PROVE UploadInv'
  <2>1. run'.left = run.left /\ run'.visibility = run.visibility
    BY <1>13 DEF UploadSucceeds
  <2>2. /\ job[w] = f /\ job' = [job EXCEPT ![w] = None] /\ controllers' = controllers \ {f}
        /\ request' = [request EXCEPT ![f] = NoRequest]
        /\ UNCHANGED <<uploading, visibility, active>>
    BY <1>13 DEF UploadSucceeds, Settle
  <2> QED
    BY <2>1, <2>2, ReturnKeeps DEF UploadInv, Types, InFlightIsControlled
<1>14. ASSUME NEW w \in Workers, NEW f \in Files, UploadFails(w, f) PROVE UploadInv'
  BY <1>14, ReturnKeeps DEF UploadFails, Settle, UploadInv, Types, InFlightIsControlled
<1>15. ASSUME NEW w \in Workers, NEW f \in Files, UploadUnauthorized(w, f) PROVE UploadInv'
  <2>1. \A g \in Files : Aborted(controllers)[g].state \notin InFlight
    BY AbortedIsAborted DEF UploadInv, InFlightIsControlled
  <2> DEFINE reqs == Aborted(controllers)
  <2>2. /\ reqs \in [Files -> [state : RequestState, visibility : Visibilities \cup {None}]]
        /\ \A g \in Files : request[g].state = "none" => reqs[g].state = "none"
    BY AbortedIsAborted DEF UploadInv
  <2>3. /\ job[w] = f /\ job' = [job EXCEPT ![w] = None] /\ controllers' = controllers \ {f}
        /\ request' = [reqs EXCEPT ![f] = NoRequest] /\ active' = FALSE
        /\ UNCHANGED <<uploading, visibility, run>>
    BY <1>15 DEF UploadUnauthorized, StopOn401
  <2> HIDE DEF reqs
  <2>4. \A g \in Files : reqs[g].state \notin InFlight
    BY <2>1 DEF reqs
  <2> QED
    BY <2>2, <2>3, <2>4, ReturnKeeps
<1>16. ASSUME NEW f \in Files, Server(f) PROVE UploadInv'
  <2> PICK o \in {"answered", "failed", "unauthorized"} : Answer(f, o)
    BY <1>16 DEF Server
  <2>1. /\ request[f].state = "sent"
        /\ request' = [request EXCEPT ![f].state = o]
        /\ UNCHANGED <<uploading, run, job, visibility, active, controllers>>
    BY DEF Answer
  <2>2. /\ request' \in [Files -> [state : RequestState, visibility : Visibilities \cup {None}]]
        /\ \A g \in Files : request'[g].state = IF g = f THEN o ELSE request[g].state
    BY <2>1 DEF UploadInv, Types, RequestState, InFlight
  <2> QED
    BY <2>1, <2>2, RequestChangeKeeps DEF InFlight
<1>17. CASE FinishRun
  BY <1>17 DEF FinishRun, netVars, UploadInv, Types, JobsDiffer, LeftIsFree, RunHasWorkers,
               RequestsAreKnown, Busy, InFlightIsControlled
<1>18. CASE UNCHANGED uploadVars
  BY <1>18, FrameKeeps DEF uploadVars, UploadInv, Types
<1> QED
  BY <1>1, <1>2, <1>3, <1>4, <1>5, <1>6, <1>7, <1>9, <1>10, <1>11, <1>12, <1>13, <1>14, <1>15,
     <1>16, <1>17, <1>18 DEF UploadNext, Worker

-----------------------------------------------------------------------------
(* The rows.  What the page shows of a batch follows from what its workers *)
(* and the rest of its queue are, as long as the page is active.           *)

\* The rest of a run's queue, which is empty between two runs, is unfinished.
LeftIsUnfinished ==
    /\ ~uploading => run.left = {}
    /\ run.queue \subseteq Rows
    /\ active => run.left \subseteq run.queue \cap Unfinished

\* A worker is one of the run's and has a row of its queue, which it sends
\* with the visibility the run closed over.
WorkersUpload ==
    active => \A w \in Workers : job[w] # None =>
        /\ w <= run.width
        /\ job[w] \in run.queue /\ status[job[w]] = "uploading"
        /\ request[job[w]].visibility = run.visibility

\* Rows that are neither left nor with a worker have been tried.
RestIsTried ==
    active => \A f \in run.queue :
        f \in run.left \/ Busy(f) \/ status[f] \notin {"queued", "uploading"}

WidthIsMeant == run.width <= Concurrency

\* A page that is being left is inactive.
LeftIsInactive == page \in {"leaving", "gone"} => ~active

RowInv ==
    /\ UploadTypeOK /\ LeftIsUnfinished /\ WorkersUpload /\ RestIsTried /\ WidthIsMeant
    /\ LeftIsInactive /\ BatchIsBounded /\ PreviewsAreThoseOfTheRows /\ BatchIsConsistent

\* There are finitely many rows, and a run may have at least one worker.
LEMMA RowsAreFinite ==
    ASSUME UploadAssumption, UploadTypeOK
    PROVE  /\ IsFiniteSet(Unfinished) /\ Cardinality(Unfinished) \in Nat
           /\ Concurrency \in 1..ProcessingConcurrency
           /\ \A S \in SUBSET Files : IsFiniteSet(S) /\ Cardinality(S) \in Nat
<1>1. Unfinished \subseteq Files
  BY DEF Unfinished, Rows
<1>2. \A S \in SUBSET Files : IsFiniteSet(S)
  BY FS_Subset DEF UploadAssumption
<1> QED
  BY <1>1, <1>2, FS_CardinalityType DEF UploadAssumption, Concurrency, UploadTypeOK

Runs == [queue : SUBSET Files, left : SUBSET Files, completed : Nat,
         width : 0..ProcessingConcurrency, visibility : Visibilities]
Net == [Files -> [state : RequestState, visibility : Visibilities \cup {None}]]

LEMMA UploadTypes ==
    ASSUME UploadAssumption, UploadTypeOK, [UploadNext]_uploadVars PROVE UploadTypeOK'
<1>0. run \in Runs /\ request \in Net /\ job \in [Workers -> Files \cup {None}]
  BY DEF UploadTypeOK, Runs, Net
<1>1. ASSUME NEW fs \in SUBSET Files, AddFiles(fs) PROVE UploadTypeOK'
  BY <1>1 DEF AddFiles, QueueRows, netVars, UploadTypeOK, UploadStatus
<1>2. CASE ClearQueue
  <2>1. run' \in Runs
    BY <1>0, <1>2 DEF ClearQueue, Runs
  <2>2. /\ status' = [f \in Files |-> "absent"] /\ result' = [f \in Files |-> None]
        /\ previews' = {}
        /\ UNCHANGED <<visibility, uploading, job, request, controllers, active, page,
                       systemLoaded>>
    BY <1>2 DEF ClearQueue, netVars
  <2>. QED
    BY <2>1, <2>2 DEF UploadTypeOK, Runs
<1>3. ASSUME NEW v \in Visibilities, ChangeVisibility(v) PROVE UploadTypeOK'
  BY <1>3 DEF ChangeVisibility, rowVars, netVars, UploadTypeOK
<1>4. CASE SystemLoads
  BY <1>4 DEF SystemLoads, rowVars, netVars, UploadTypeOK
<1>5. ASSUME NEW q \in SUBSET Files, NEW n \in 0..ProcessingConcurrency, StartRun(q, n)
      PROVE  UploadTypeOK'
  <2>1. run' \in Runs
    BY <1>5 DEF StartRun, Runs, UploadTypeOK
  <2>. QED
    BY <1>5, <2>1 DEF StartRun, rowVars, netVars, UploadTypeOK, Runs
<1>6. CASE Submit
  <2>1. Max(1, Min(Concurrency, Cardinality(Unfinished))) \in 0..ProcessingConcurrency
    BY RowsAreFinite DEF Max, Min, UploadAssumption
  <2>2. Unfinished \subseteq Files
    BY DEF Unfinished, Rows
  <2>. QED
    BY <1>5, <1>6, <2>1, <2>2 DEF Submit
<1>7. ASSUME NEW f \in Files, Retry(f) PROVE UploadTypeOK'
  <2>1. CASE active
    <3>1. StartRun({f}, 1) /\ 1 \in 0..ProcessingConcurrency
      BY <1>7, <2>1 DEF Retry, UploadAssumption
    <3>. QED
      BY <1>5, <3>1
  <2>2. CASE ~active
    BY <1>7, <2>2 DEF Retry, rowVars, netVars, UploadTypeOK
  <2>. QED
    BY <2>1, <2>2
<1>8. ASSUME NEW w \in Workers, NEW f \in Files, UploadOne(w, f) PROVE UploadTypeOK'
  <2>1. run' \in Runs
    BY <1>0, <1>8 DEF UploadOne, Runs
  <2>2. /\ job' = [job EXCEPT ![w] = f]
        /\ request' = [request EXCEPT ![f] = [state |-> "sent", visibility |-> run.visibility]]
        /\ status' = [status EXCEPT ![f] = "uploading"] /\ result' = [result EXCEPT ![f] = None]
        /\ controllers' = controllers \cup {f}
        /\ UNCHANGED <<previews, visibility, uploading, active, page, systemLoaded>>
    BY <1>8 DEF UploadOne, Send
  <2>3. request' \in Net /\ job' \in [Workers -> Files \cup {None}]
    BY <1>0, <2>2 DEF Net, Runs, RequestState, InFlight
  <2>. QED
    BY <2>1, <2>2, <2>3 DEF UploadTypeOK, Runs, Net, UploadStatus
<1>9. ASSUME NEW f \in Files, NEW o \in {"answered", "failed", "unauthorized"}, Answer(f, o)
      PROVE  UploadTypeOK'
  <2>1. request' \in Net
    BY <1>0, <1>9 DEF Answer, Net, RequestState, InFlight
  <2>. QED
    BY <1>9, <2>1 DEF Answer, rowVars, UploadTypeOK, Net
<1>10. \A fs : Aborted(fs) \in Net
  BY <1>0 DEF Aborted, Net, RequestState
<1>11. ASSUME NEW f \in Files, CancelRow(f) PROVE UploadTypeOK'
  BY <1>10, <1>11 DEF CancelRow, rowVars, UploadTypeOK, Net
<1>12. ASSUME NEW w \in Workers, NEW f \in Files, NEW s \in UploadStatus,
              NEW image \in Visibilities \cup {None}, Settle(w, f, s, image),
              run' \in Runs, previews' \subseteq Files
       PROVE  UploadTypeOK'
  <2>1. request' \in Net /\ job' \in [Workers -> Files \cup {None}]
    BY <1>0, <1>12 DEF Settle, Net, NoRequest, RequestState
  <2>2. /\ status' \in [Files -> UploadStatus \cup {"absent"}]
        /\ result' \in [Files -> Visibilities \cup {None}]
    BY <1>12 DEF Settle, UploadTypeOK
  <2>. QED
    BY <1>12, <2>1, <2>2 DEF Settle, UploadTypeOK, Runs, Net
<1>13. ASSUME NEW w \in Workers, NEW f \in Files, UploadSucceeds(w, f) PROVE UploadTypeOK'
  <2>1. run' \in Runs
    BY <1>0, <1>13 DEF UploadSucceeds, Runs
  <2>2. previews' \subseteq Files /\ request[f].visibility \in Visibilities \cup {None}
    BY <1>0, <1>13 DEF UploadSucceeds, ReleasePreviews, UploadTypeOK, Net
  <2>. QED
    BY <1>12, <1>13, <2>1, <2>2 DEF UploadSucceeds, UploadStatus
<1>14. ASSUME NEW w \in Workers, NEW f \in Files, UploadFails(w, f) PROVE UploadTypeOK'
  <2>1. run' \in Runs /\ previews' \subseteq Files
    BY <1>0, <1>14 DEF UploadFails, UploadTypeOK
  <2>2. (IF request[f].state = "aborted" THEN "canceled" ELSE "failed") \in UploadStatus
    BY DEF UploadStatus
  <2>. QED
    BY <1>12, <1>14, <2>1, <2>2 DEF UploadFails
<1>15. ASSUME NEW w \in Workers, NEW f \in Files, UploadUnauthorized(w, f) PROVE UploadTypeOK'
  <2>1. request' \in Net /\ job' \in [Workers -> Files \cup {None}]
    BY <1>0, <1>10, <1>15 DEF UploadUnauthorized, StopOn401, Net, NoRequest, RequestState
  <2>. QED
    BY <1>15, <2>1 DEF UploadUnauthorized, StopOn401, rowVars, UploadTypeOK, Net
<1>16. CASE FinishRun
  BY <1>16 DEF FinishRun, rowVars, netVars, UploadTypeOK
<1>17. ASSUME Unmount PROVE UploadTypeOK'
  BY <1>10, <1>17 DEF Unmount, UploadTypeOK, Net
<1>18. CASE Navigate \/ Stay
  BY <1>17, <1>18 DEF Navigate, Stay, rowVars, netVars, UploadTypeOK
<1>19. CASE LeaveUpload
  BY <1>10, <1>19 DEF LeaveUpload, rowVars, UploadTypeOK, Net
<1>20. CASE RouterUnmounts \/ SessionLost
  BY <1>17, <1>20 DEF RouterUnmounts, SessionLost
<1>21. CASE UNCHANGED uploadVars
  BY <1>21 DEF uploadVars, UploadTypeOK
<1> QED
  BY <1>1, <1>2, <1>3, <1>4, <1>6, <1>7, <1>8, <1>9, <1>11, <1>13, <1>14, <1>15, <1>16, <1>18,
     <1>19, <1>20, <1>21 DEF UploadNext, Worker, Server

\* A step that leaves the rows and the run alone, and the requests to the
\* same workers unless the page becomes inactive.
LEMMA RowsRest ==
    ASSUME UploadAssumption, RowInv, UploadTypeOK',
           UNCHANGED <<status, result, uploading>>,
           run' = run \/ (~active' /\ run' = [run EXCEPT !.completed = @ + 1]),
           active' => /\ active /\ UNCHANGED job
                      /\ \A g \in Files : request'[g].visibility = request[g].visibility,
           systemLoaded => systemLoaded', page' \in {"leaving", "gone"} => ~active',
           previews' = IF page' = "gone" THEN {} ELSE Unfinished
    PROVE  RowInv'
<1>1. Unfinished' = Unfinished /\ Rows' = Rows
  BY DEF Unfinished, Rows
<1>2. /\ run.width <= Concurrency /\ run.width \in Nat
      /\ run'.queue = run.queue /\ run'.left = run.left /\ run'.width = run.width
      /\ run'.visibility = run.visibility /\ (active' => run'.completed = run.completed)
  BY DEF RowInv, WidthIsMeant, UploadTypeOK
<1>3. WidthIsMeant'
  BY <1>2 DEF WidthIsMeant, Concurrency, UploadAssumption
<1>4. LeftIsUnfinished'
  BY <1>1, <1>2 DEF RowInv, LeftIsUnfinished
<1>5. WorkersUpload' /\ RestIsTried'
  BY <1>2 DEF RowInv, WorkersUpload, RestIsTried, Busy, UploadTypeOK
<1>6. BatchIsBounded'
  BY <1>1, RowsAreFinite DEF RowInv, BatchIsBounded, Max, UploadAssumption
<1>7. PreviewsAreThoseOfTheRows' /\ LeftIsInactive'
  BY <1>1 DEF PreviewsAreThoseOfTheRows, LeftIsInactive
<1>8. BatchIsConsistent'
  BY <1>1, <1>2 DEF RowInv, BatchIsConsistent, OneVisibilityPerBatch, EveryRowWasTried,
     CompletedIsExact
<1> QED
  BY <1>3, <1>4, <1>5, <1>6, <1>7, <1>8 DEF RowInv

\* New rows are beside those of the run, and within the limit.
LEMMA AddFilesRows ==
    ASSUME UploadAssumption, RowInv, UploadTypeOK', NEW fs \in SUBSET Files, AddFiles(fs)
    PROVE  RowInv'
<1>0. /\ status' = [f \in Files |-> IF f \in fs THEN "queued" ELSE status[f]]
      /\ previews' = previews \cup fs /\ fs \cap Rows = {} /\ page # "gone"
      /\ UNCHANGED <<result, run, uploading, job, request, active, page, systemLoaded>>
      /\ Cardinality(Unfinished) + Cardinality(fs) <= BatchLimit
  BY DEF AddFiles, QueueRows, netVars, Clickable
<1>1. /\ Unfinished' = Unfinished \cup fs /\ Rows' = Rows \cup fs
      /\ \A f \in Files \ fs : status'[f] = status[f]
  BY <1>0 DEF Unfinished, Rows
<1>2. LeftIsUnfinished' /\ WidthIsMeant' /\ LeftIsInactive'
  BY <1>0, <1>1 DEF RowInv, LeftIsUnfinished, WidthIsMeant, LeftIsInactive, Concurrency
<1>3. WorkersUpload' /\ RestIsTried'
  <2>1. run.queue \cap fs = {} /\ run.queue \subseteq Files
    BY <1>0 DEF RowInv, LeftIsUnfinished, UploadTypeOK
  <2>. QED
    BY <1>0, <1>1, <2>1 DEF RowInv, WorkersUpload, RestIsTried, Busy
<1>4. BatchIsBounded'
  <2>1. Cardinality(Unfinished') <= BatchLimit
    <3>1. IsFiniteSet(fs) /\ IsFiniteSet(Unfinished) /\ Unfinished \cap fs = {}
      BY <1>0, RowsAreFinite DEF RowInv, Unfinished
    <3>2. Cardinality(Unfinished \cup fs)
              = Cardinality(Unfinished) + Cardinality(fs) - Cardinality({})
      BY <3>1, FS_Union
    <3>3. Cardinality({}) = 0 /\ Cardinality(Unfinished) \in Nat /\ Cardinality(fs) \in Nat
      BY FS_EmptySet, RowsAreFinite DEF RowInv
    <3>. QED
      BY <1>0, <1>1, <3>2, <3>3
  <2>2. BatchLimit <= IF systemLoaded THEN Max(MaxBatchCount, DefaultBatchCount)
                                      ELSE DefaultBatchCount
    BY DEF BatchLimit, Max, UploadAssumption
  <2>3. Cardinality(Unfinished') \in Nat
    BY RowsAreFinite, <1>1, FS_Union, FS_CardinalityType DEF RowInv
  <2>. QED
    BY <1>0, <2>1, <2>2, <2>3 DEF BatchIsBounded, BatchLimit, Max, UploadAssumption
<1>5. PreviewsAreThoseOfTheRows'
  BY <1>0, <1>1 DEF RowInv, PreviewsAreThoseOfTheRows
<1>6. BatchIsConsistent'
  <2>1. run.queue \cap fs = {} /\ run.queue \subseteq Files
    BY <1>0 DEF RowInv, LeftIsUnfinished, UploadTypeOK
  <2>2. \A f \in run.queue : status'[f] = status[f]
    BY <1>1, <2>1
  <2>3. {f \in run.queue : status'[f] = "complete"} = {f \in run.queue : status[f] = "complete"}
    BY <2>2
  <2>4. OneVisibilityPerBatch' /\ EveryRowWasTried'
    BY <1>0, <1>1, <2>2 DEF RowInv, BatchIsConsistent, OneVisibilityPerBatch, EveryRowWasTried
  <2>5. CompletedIsExact'
    BY <1>0, <2>3 DEF RowInv, BatchIsConsistent, CompletedIsExact
  <2>. QED
    BY <2>4, <2>5 DEF BatchIsConsistent
<1> QED
  BY <1>2, <1>3, <1>4, <1>5, <1>6 DEF RowInv

\* Without rows there is no batch either.
LEMMA ClearQueueRows ==
    ASSUME UploadAssumption, UploadInv, RowInv, UploadTypeOK', ClearQueue
    PROVE  RowInv'
<1>0. /\ status' = [f \in Files |-> "absent"] /\ previews' = {} /\ ~uploading
      /\ run'.queue = {} /\ run'.left = run.left /\ run'.width = run.width
      /\ UNCHANGED <<uploading, job, request, active, page, systemLoaded>>
  BY DEF ClearQueue, netVars, RowInv, UploadTypeOK
<1>1. Unfinished' = {} /\ Rows' = {}
  BY <1>0 DEF Unfinished, Rows
<1>2. run.left = {} /\ \A w \in Workers : job[w] = None
  BY <1>0 DEF UploadInv, RunHasWorkers, RowInv, LeftIsUnfinished
<1>3. LeftIsUnfinished' /\ WidthIsMeant' /\ LeftIsInactive' /\ WorkersUpload' /\ RestIsTried'
  BY <1>0, <1>1, <1>2 DEF RowInv, LeftIsUnfinished, WidthIsMeant, LeftIsInactive, Concurrency,
     WorkersUpload, RestIsTried
<1>4. BatchIsBounded' /\ PreviewsAreThoseOfTheRows'
  BY <1>0, <1>1, FS_EmptySet DEF BatchIsBounded, PreviewsAreThoseOfTheRows, Max, UploadAssumption
<1>5. BatchIsConsistent'
  BY <1>0 DEF BatchIsConsistent, OneVisibilityPerBatch, EveryRowWasTried, CompletedIsExact
<1> QED
  BY <1>3, <1>4, <1>5 DEF RowInv

\* A run starts with rows that are not complete, none of them with a worker.
LEMMA StartRunRows ==
    ASSUME UploadAssumption, UploadInv, RowInv, UploadTypeOK', ~uploading,
           NEW q \in SUBSET Unfinished, NEW n \in 1..Concurrency, StartRun(q, n)
    PROVE  RowInv'
<1>0. /\ uploading' = TRUE /\ run'.queue = q /\ run'.left = q /\ run'.completed = 0
      /\ run'.width = n
      /\ UNCHANGED <<status, result, previews, job, request, active, page, systemLoaded>>
  BY DEF StartRun, rowVars, netVars
<1>1. /\ Unfinished' = Unfinished /\ Rows' = Rows /\ q \subseteq Rows
      /\ \A f \in q : status[f] # "complete"
  BY <1>0 DEF Unfinished, Rows
<1>2. \A w \in Workers : job[w] = None
  BY DEF UploadInv, RunHasWorkers
<1>3. WidthIsMeant'
  BY <1>0, RowsAreFinite DEF RowInv, WidthIsMeant, Concurrency
<1>4. LeftIsUnfinished' /\ LeftIsInactive' /\ WorkersUpload' /\ RestIsTried'
  BY <1>0, <1>1, <1>2 DEF RowInv, LeftIsUnfinished, LeftIsInactive, WorkersUpload, RestIsTried
<1>5. BatchIsBounded' /\ PreviewsAreThoseOfTheRows'
  BY <1>0, <1>1 DEF RowInv, BatchIsBounded, PreviewsAreThoseOfTheRows
<1>6. BatchIsConsistent'
  <2>1. {f \in q : status'[f] = "complete"} = {}
    BY <1>0, <1>1
  <2>. QED
    BY <1>0, <1>1, <2>1, FS_EmptySet
       DEF BatchIsConsistent, OneVisibilityPerBatch, EveryRowWasTried, CompletedIsExact
<1> QED
  BY <1>3, <1>4, <1>5, <1>6 DEF RowInv

\* A run ends, or a page that is being left takes a retry for one: nothing
\* is left, and nobody uploads.
LEMMA UploadingRows ==
    ASSUME UploadAssumption, UploadInv, RowInv, UploadTypeOK',
           FinishRun \/ \E f \in Files : Retry(f) /\ ~active
    PROVE  RowInv'
<1>0. UNCHANGED <<status, result, previews, run, job, request, active, page, systemLoaded>>
  BY DEF FinishRun, Retry, rowVars, netVars
<1>1. Unfinished' = Unfinished /\ Rows' = Rows
  BY <1>0 DEF Unfinished, Rows
<1>2. run.left = {} /\ (active => ~uploading' /\ \A w \in Workers : job[w] = None)
  BY DEF FinishRun, Retry, RowInv, LeftIsUnfinished
<1>3. WidthIsMeant' /\ LeftIsUnfinished' /\ LeftIsInactive'
  BY <1>0, <1>1, <1>2 DEF RowInv, WidthIsMeant, Concurrency, LeftIsUnfinished, LeftIsInactive
<1>4. WorkersUpload' /\ RestIsTried'
  BY <1>0 DEF RowInv, WorkersUpload, RestIsTried, Busy
<1>5. BatchIsBounded' /\ PreviewsAreThoseOfTheRows'
  BY <1>0, <1>1 DEF RowInv, BatchIsBounded, PreviewsAreThoseOfTheRows
<1>6. BatchIsConsistent'
  <2>1. active => \A f \in run.queue : status[f] \notin {"queued", "uploading"}
    BY <1>2 DEF RowInv, RestIsTried, Busy, UploadTypeOK, UploadAssumption
  <2>. QED
    BY <1>0, <1>1, <1>2, <2>1 DEF RowInv, BatchIsConsistent, OneVisibilityPerBatch,
       EveryRowWasTried, CompletedIsExact
<1> QED
  BY <1>3, <1>4, <1>5, <1>6 DEF RowInv

\* A worker takes a row that is left.
LEMMA UploadOneRows ==
    ASSUME UploadAssumption, UploadInv, RowInv, UploadTypeOK',
           NEW w \in Workers, NEW f \in Files, UploadOne(w, f)
    PROVE  RowInv'
<1>0. /\ uploading /\ active /\ f \in run.left /\ job[w] = None /\ w <= run.width
      /\ job' = [job EXCEPT ![w] = f]
      /\ request' = [request EXCEPT ![f] = [state |-> "sent", visibility |-> run.visibility]]
      /\ status' = [status EXCEPT ![f] = "uploading"] /\ result' = [result EXCEPT ![f] = None]
      /\ run'.left = run.left \ {f} /\ run'.queue = run.queue /\ run'.width = run.width
      /\ run'.completed = run.completed /\ run'.visibility = run.visibility
      /\ UNCHANGED <<previews, uploading, active, page, systemLoaded>>
  BY DEF UploadOne, Send, RowInv, UploadTypeOK
<1>1. /\ status[f] \notin {"absent", "complete"} /\ f \in run.queue /\ run.queue \subseteq Rows
      /\ run.left \subseteq run.queue \cap Unfinished
  BY <1>0 DEF RowInv, LeftIsUnfinished, Unfinished, Rows
<1>2. \A g \in Files : status'[g] = IF g = f THEN "uploading" ELSE status[g]
  BY <1>0 DEF RowInv, UploadTypeOK
<1>3. Unfinished' = Unfinished /\ Rows' = Rows
  BY <1>1, <1>2 DEF Unfinished, Rows
<1>4. LeftIsUnfinished' /\ WidthIsMeant' /\ LeftIsInactive'
  BY <1>0, <1>1, <1>3 DEF RowInv, LeftIsUnfinished, WidthIsMeant, LeftIsInactive, Concurrency
<1>5. \A v \in Workers : job'[v] = IF v = w THEN f ELSE job[v]
  BY <1>0 DEF UploadInv, Types
<1>6. WorkersUpload'
  <2>1. \A g \in Files :
           request'[g].visibility = IF g = f THEN run.visibility ELSE request[g].visibility
    BY <1>0 DEF RowInv, UploadTypeOK
  <2>2. \A v \in Workers : job[v] # None => job[v] \in Files
    BY DEF UploadInv, Types
  <2>3. ASSUME NEW v \in Workers, job'[v] # None
        PROVE  /\ v <= run.width /\ job'[v] \in run.queue /\ status'[job'[v]] = "uploading"
               /\ request'[job'[v]].visibility = run.visibility
    BY <1>0, <1>1, <1>2, <1>5, <2>1, <2>2, <2>3 DEF RowInv, WorkersUpload
  <2>. QED
    BY <1>0, <2>3 DEF WorkersUpload
<1>7. RestIsTried'
  <2>1. \A g \in Files \ {f} : Busy(g) => Busy(g)'
    BY <1>0, <1>5 DEF Busy, UploadAssumption
  <2>2. Busy(f)'
    BY <1>5 DEF Busy
  <2>3. run.queue \subseteq Files
    BY DEF RowInv, UploadTypeOK
  <2>. QED
    BY <1>0, <1>2, <2>1, <2>2, <2>3 DEF RowInv, RestIsTried
<1>8. BatchIsBounded' /\ PreviewsAreThoseOfTheRows'
  BY <1>0, <1>3 DEF RowInv, BatchIsBounded, PreviewsAreThoseOfTheRows
<1>9. BatchIsConsistent'
  <2>1. run.queue \subseteq Files /\ \A g \in Files : g # f => result'[g] = result[g]
    BY <1>0 DEF RowInv, UploadTypeOK
  <2>2. {g \in run.queue : status'[g] = "complete"} = {g \in run.queue : status[g] = "complete"}
    BY <1>1, <1>2, <2>1
  <2>3. OneVisibilityPerBatch'
    BY <1>0, <1>2, <1>3, <2>1 DEF RowInv, BatchIsConsistent, OneVisibilityPerBatch
  <2>4. EveryRowWasTried' /\ CompletedIsExact'
    BY <1>0, <2>2 DEF RowInv, BatchIsConsistent, EveryRowWasTried, CompletedIsExact
  <2>. QED
    BY <2>3, <2>4 DEF BatchIsConsistent
<1> QED
  BY <1>4, <1>6, <1>7, <1>8, <1>9 DEF RowInv

\* A worker returns with its row, complete or not, on a page that is active.
LEMMA SettleRows ==
    ASSUME UploadAssumption, UploadInv, RowInv, UploadTypeOK', active,
           NEW w \in Workers, NEW f \in Files, NEW s \in {"complete", "failed", "canceled"},
           NEW image \in Visibilities \cup {None}, Settle(w, f, s, image),
           run'.queue = run.queue, run'.left = run.left, run'.width = run.width,
           run'.visibility = run.visibility,
           run'.completed = IF s = "complete" THEN run.completed + 1 ELSE run.completed,
           s = "complete" => image = request[f].visibility,
           previews' = IF s = "complete"
                       THEN {g \in previews : status'[g] \notin {"absent", "complete"}}
                       ELSE previews
    PROVE  RowInv'
<1>0. /\ job[w] = f /\ job' = [job EXCEPT ![w] = None]
      /\ request' = [request EXCEPT ![f] = NoRequest]
      /\ status' = [status EXCEPT ![f] = s] /\ result' = [result EXCEPT ![f] = image]
      /\ UNCHANGED <<uploading, active, page, systemLoaded>>
  BY DEF Settle
<1>1. /\ status[f] = "uploading" /\ f \in run.queue /\ request[f].visibility = run.visibility
      /\ f \notin run.left /\ uploading /\ run.queue \subseteq Rows /\ run.queue \subseteq Files
  BY <1>0 DEF RowInv, WorkersUpload, UploadAssumption, UploadInv, LeftIsFree, RunHasWorkers,
     LeftIsUnfinished, UploadTypeOK
<1>2. \A g \in Files : /\ status'[g] = IF g = f THEN s ELSE status[g]
                       /\ result'[g] = IF g = f THEN image ELSE result[g]
  BY <1>0 DEF RowInv, UploadTypeOK
<1>3. /\ Unfinished' = IF s = "complete" THEN Unfinished \ {f} ELSE Unfinished
      /\ Rows' = Rows
  BY <1>1, <1>2 DEF Unfinished, Rows
<1>4. LeftIsUnfinished' /\ WidthIsMeant' /\ LeftIsInactive'
  BY <1>0, <1>1, <1>3 DEF RowInv, LeftIsUnfinished, WidthIsMeant, LeftIsInactive, Concurrency
<1>5. \A v \in Workers : job'[v] = IF v = w THEN None ELSE job[v]
  BY <1>0 DEF UploadInv, Types
<1>6. WorkersUpload'
  <2>1. \A v \in Workers : job'[v] # None =>
            /\ v <= run.width /\ job'[v] \in run.queue /\ job'[v] # f /\ job'[v] = job[v]
            /\ status[job[v]] = "uploading" /\ request[job[v]].visibility = run.visibility
    BY <1>0, <1>5 DEF RowInv, WorkersUpload, UploadInv, JobsDiffer
  <2>2. \A g \in Files \ {f} : request'[g] = request[g]
    BY <1>0 DEF RowInv, UploadTypeOK
  <2>. QED
    BY <1>1, <1>2, <2>1, <2>2 DEF WorkersUpload
<1>7. RestIsTried'
  <2>1. \A g \in Files \ {f} : Busy(g) => Busy(g)'
    BY <1>0, <1>5 DEF Busy
  <2>. QED
    BY <1>1, <1>2, <2>1 DEF RowInv, RestIsTried
<1>8. BatchIsBounded'
  <2>1. /\ IsFiniteSet(Unfinished) /\ Cardinality(Unfinished) \in Nat
        /\ Unfinished' \in SUBSET Unfinished
    BY <1>3, RowsAreFinite DEF RowInv
  <2>2. Cardinality(Unfinished') <= Cardinality(Unfinished) /\ Cardinality(Unfinished') \in Nat
    BY <2>1, FS_Subset, FS_CardinalityType
  <2>. QED
    BY <1>0, <2>1, <2>2 DEF RowInv, BatchIsBounded, Max, UploadAssumption
<1>9. PreviewsAreThoseOfTheRows'
  <2>1. page # "gone" /\ previews = Unfinished
    BY DEF RowInv, LeftIsInactive, PreviewsAreThoseOfTheRows
  <2>2. s = "complete" => {g \in Unfinished : status'[g] \notin {"absent", "complete"}}
                              = Unfinished \ {f}
    BY <1>2 DEF Unfinished, Rows
  <2>. QED
    BY <1>0, <1>3, <2>1, <2>2 DEF PreviewsAreThoseOfTheRows
<1>10. OneVisibilityPerBatch' /\ EveryRowWasTried'
  BY <1>0, <1>1, <1>2, <1>3 DEF RowInv, BatchIsConsistent, OneVisibilityPerBatch, EveryRowWasTried
<1>11. CompletedIsExact'
  <2>. DEFINE Done == {g \in run.queue : status[g] = "complete"}
  <2>1. run.completed = Cardinality(Done)
    BY <1>1 DEF RowInv, BatchIsConsistent, CompletedIsExact
  <2>2. {g \in run.queue : status'[g] = "complete"} = IF s = "complete" THEN Done \cup {f} ELSE Done
    BY <1>1, <1>2
  <2>3. f \notin Done /\ IsFiniteSet(Done)
    BY <1>1, RowsAreFinite DEF RowInv
  <2>. HIDE DEF Done
  <2>4. Cardinality(Done \cup {f}) = Cardinality(Done) + 1
    BY <2>3, FS_AddElement
  <2>. QED
    BY <2>1, <2>2, <2>4 DEF CompletedIsExact
<1> QED
  BY <1>4, <1>6, <1>7, <1>8, <1>9, <1>10, <1>11 DEF RowInv, BatchIsConsistent

\* Every step keeps what the rows show.
LEMMA RowInvIsPreserved ==
    ASSUME UploadAssumption PROVE UploadInv /\ RowInv /\ [UploadNext]_uploadVars => RowInv'
<1> SUFFICES ASSUME UploadInv, RowInv, [UploadNext]_uploadVars PROVE RowInv'
  OBVIOUS
<1>0. /\ UploadTypeOK /\ UploadTypeOK' /\ previews = IF page = "gone" THEN {} ELSE Unfinished
      /\ (page \in {"leaving", "gone"} => ~active)
  BY UploadTypes DEF RowInv, PreviewsAreThoseOfTheRows, LeftIsInactive
<1>1. ASSUME NEW fs \in SUBSET Files, AddFiles(fs) PROVE RowInv'
  BY <1>0, <1>1, AddFilesRows
<1>2. CASE ClearQueue
  BY <1>0, <1>2, ClearQueueRows
<1>3. ASSUME NEW v \in Visibilities, ChangeVisibility(v) PROVE RowInv'
  BY <1>0, <1>3, RowsRest DEF ChangeVisibility, rowVars, netVars
<1>4. CASE SystemLoads \/ Stay
  BY <1>0, <1>4, RowsRest DEF SystemLoads, Stay, rowVars, netVars
<1>5. CASE Submit
  <2>1. Max(1, Min(Concurrency, Cardinality(Unfinished))) \in 1..Concurrency
    BY <1>0, RowsAreFinite DEF Max, Min, UploadAssumption
  <2>. QED
    BY <1>0, <1>5, <2>1, StartRunRows DEF Submit
<1>6. ASSUME NEW f \in Files, Retry(f) PROVE RowInv'
  <2>1. CASE active
    <3>1. /\ StartRun({f}, 1) /\ ~uploading /\ {f} \in SUBSET Unfinished
          /\ 1 \in 1..Concurrency
      BY <1>0, <1>6, <2>1, RowsAreFinite DEF Retry, CanRetry, Unfinished, Rows, UploadAssumption
    <3>. QED
      BY <1>0, <3>1, StartRunRows
  <2>2. CASE ~active
    BY <1>0, <1>6, <2>2, UploadingRows
  <2>. QED
    BY <2>1, <2>2
<1>7. ASSUME NEW w \in Workers, NEW f \in Files, UploadOne(w, f) PROVE RowInv'
  BY <1>0, <1>7, UploadOneRows
<1>8. ASSUME NEW f \in Files, NEW o \in {"answered", "failed", "unauthorized"}, Answer(f, o)
      PROVE  RowInv'
  <2>1. \A g \in Files : request'[g].visibility = request[g].visibility
    BY <1>0, <1>8 DEF Answer, UploadTypeOK
  <2>. QED
    BY <1>0, <1>8, <2>1, RowsRest DEF Answer, rowVars
<1>9. ASSUME NEW f \in Files, CancelRow(f) PROVE RowInv'
  <2>1. \A g \in Files : request'[g].visibility = request[g].visibility
    BY <1>0, <1>9 DEF CancelRow, Aborted, UploadTypeOK
  <2>. QED
    BY <1>0, <1>9, <2>1, RowsRest DEF CancelRow, rowVars
<1>10. ASSUME NEW w \in Workers, NEW f \in Files, UploadSucceeds(w, f) PROVE RowInv'
  <2>1. CASE active
    <3>1. /\ Settle(w, f, "complete", request[f].visibility)
          /\ request[f].visibility \in Visibilities \cup {None}
          /\ run'.queue = run.queue /\ run'.left = run.left /\ run'.width = run.width
          /\ run'.visibility = run.visibility /\ run'.completed = run.completed + 1
          /\ previews' = {g \in previews : status'[g] \notin {"absent", "complete"}}
      BY <1>0, <1>10 DEF UploadSucceeds, ReleasePreviews, UploadTypeOK
    <3>. QED
      BY <1>0, <2>1, <3>1, SettleRows
  <2>2. CASE ~active
    <3>1. /\ UNCHANGED <<status, result, uploading, active, page, systemLoaded>>
          /\ run' = [run EXCEPT !.completed = @ + 1]
      BY <1>10, <2>2 DEF UploadSucceeds, Settle
    <3>2. previews' = previews
      BY <1>0, <1>10, <3>1 DEF UploadSucceeds, ReleasePreviews, Unfinished, Rows
    <3>. QED
      BY <1>0, <2>2, <3>1, <3>2, RowsRest
  <2>. QED
    BY <2>1, <2>2
<1>11. ASSUME NEW w \in Workers, NEW f \in Files, UploadFails(w, f) PROVE RowInv'
  <2>1. PICK s \in {"failed", "canceled"} : Settle(w, f, s, None)
    BY <1>11 DEF UploadFails
  <2>2. run' = run /\ previews' = previews
    BY <1>11 DEF UploadFails
  <2>3. CASE active
    BY <1>0, <2>1, <2>2, <2>3, SettleRows
  <2>4. CASE ~active
    <3>1. UNCHANGED <<status, result, uploading, active, page, systemLoaded>>
      BY <2>1, <2>4 DEF Settle
    <3>. QED
      BY <1>0, <2>2, <2>4, <3>1, RowsRest
  <2>. QED
    BY <2>3, <2>4
<1>12. ASSUME NEW w \in Workers, NEW f \in Files, UploadUnauthorized(w, f) PROVE RowInv'
  BY <1>0, <1>12, RowsRest DEF UploadUnauthorized, StopOn401, rowVars
<1>13. CASE FinishRun
  BY <1>0, <1>13, UploadingRows
<1>14. ASSUME Unmount PROVE RowInv'
  BY <1>0, <1>14, RowsRest DEF Unmount
<1>15. CASE Navigate
  <2>1. CASE UNCHANGED <<rowVars, visibility, uploading, run, netVars, active, systemLoaded>>
             /\ page' = "blocked" /\ page = "mounted"
    BY <1>0, <2>1, RowsRest DEF rowVars, netVars
  <2>. QED
    BY <1>14, <1>15, <2>1 DEF Navigate
<1>16. CASE LeaveUpload
  BY <1>0, <1>16, RowsRest DEF LeaveUpload, rowVars
<1>17. CASE RouterUnmounts \/ SessionLost
  BY <1>14, <1>17 DEF RouterUnmounts, SessionLost
<1>18. CASE UNCHANGED uploadVars
  BY <1>0, <1>18, RowsRest DEF uploadVars
<1> QED
  BY <1>1, <1>2, <1>3, <1>4, <1>5, <1>6, <1>7, <1>8, <1>9, <1>10, <1>11, <1>12, <1>13, <1>15,
     <1>16, <1>17, <1>18 DEF UploadNext, Worker, Server

LEMMA UploadInvariants ==
    ASSUME UploadAssumption PROVE UploadSpec => [](UploadInv /\ RowInv)
<1>1. UploadInit => RowInv
  <2> SUFFICES ASSUME UploadInit PROVE RowInv
    OBVIOUS
  <2>1. UploadTypeOK
    <3>1. request \in Net /\ run \in Runs
      BY DEF UploadInit, NoRequest, RequestState, Net, Runs, UploadAssumption
    <3>. QED
      BY <3>1 DEF UploadInit, UploadTypeOK, Net, Runs, UploadStatus
  <2>2. Rows = {} /\ Unfinished = {} /\ \A w \in Workers : job[w] = None
    BY DEF UploadInit, Rows, Unfinished
  <2>3. BatchIsBounded /\ PreviewsAreThoseOfTheRows
    BY <2>2, FS_EmptySet DEF UploadInit, BatchIsBounded, PreviewsAreThoseOfTheRows, UploadAssumption
  <2>4. WidthIsMeant
    BY DEF UploadInit, WidthIsMeant, Concurrency
  <2>. QED
    BY <2>1, <2>2, <2>3, <2>4 DEF UploadInit, RowInv, LeftIsUnfinished, WorkersUpload, RestIsTried,
       LeftIsInactive, BatchIsConsistent, OneVisibilityPerBatch, EveryRowWasTried, CompletedIsExact
<1> QED
  BY <1>1, UploadInitially, UploadInvIsPreserved, RowInvIsPreserved, PTL DEF UploadSpec

-----------------------------------------------------------------------------
(***************************************************************************)
(* The page keeps its types, and no run has more workers than the server   *)
(* said it serves at once (submit).                                        *)
(***************************************************************************)
THEOREM UploadKeepsTypes ==
    ASSUME UploadAssumption PROVE UploadSpec => []UploadTypeOK
<1>1. RowInv => UploadTypeOK
  BY DEF RowInv
<1> QED
  BY <1>1, UploadInvariants, PTL

\* The workers of a batch number as many as its width says.
LEMMA WidthIsCount ==
    ASSUME NEW n \in Nat PROVE IsFiniteSet(1..n) /\ Cardinality(1..n) = n
<1>1. 1 \in Int /\ n \in Int
  OBVIOUS
<1>2. /\ IsFiniteSet(1..n)
      /\ Cardinality(1..n) = IF 1 > n THEN 0 ELSE n - 1 + 1
  BY ONLY <1>1, FS_Interval
<1>3. (IF 1 > n THEN 0 ELSE n - 1 + 1) = n
  OBVIOUS
<1>. QED
  BY <1>2, <1>3

\* The requests the server has are fewer than the workers of the run: each
\* has one of its own.
LEMMA RequestsFitTheRun ==
    ASSUME UploadAssumption, UploadInv, RowInv PROVE ConcurrencyIsBounded
<1>. DEFINE Sent == {f \in Files : request[f].state = "sent"}
            T == 1..run.width
            by == [f \in Sent |-> CHOOSE w \in T : job[w] = f]
<1>1. run.width \in Nat /\ run.width <= Concurrency /\ T \subseteq Workers
  BY RowsAreFinite DEF RowInv, WidthIsMeant, UploadTypeOK, UploadAssumption, Workers
<1>2. ASSUME NEW f \in Sent PROVE \E w \in T : job[w] = f
  <2>1. active /\ \E w \in Workers : job[w] = f
    BY DEF UploadInv, InFlightIsControlled, InFlight, RequestsAreKnown, Busy
  <2>. QED
    BY <1>1, <2>1 DEF RowInv, WorkersUpload, UploadAssumption, Workers
<1>3. by \in [Sent -> T] /\ \A f \in Sent : job[by[f]] = f
  BY <1>2
<1>4. by \in Injection(Sent, T)
  BY <1>3 DEF Injection, IsInjective
<1>5. IsFiniteSet(T) /\ Cardinality(T) = run.width
  BY <1>1, WidthIsCount
<1>6. Cardinality(Sent) <= run.width
  BY <1>4, <1>5, FS_Injection
<1>7. Cardinality(Sent) \in Nat
  BY RowsAreFinite DEF RowInv
<1>. QED
  BY <1>1, <1>6, <1>7, RowsAreFinite DEF RowInv, ConcurrencyIsBounded, Concurrency, UploadAssumption

(***************************************************************************)
(* The page stays within the limits the server names, the ones it takes    *)
(* before it knows them included, for any limits, files and workers, and   *)
(* keeps an object URL for exactly its unfinished rows.                    *)
(***************************************************************************)
THEOREM UploadLimitsAreKept ==
    ASSUME UploadAssumption PROVE UploadSpec => []LimitsAreKept
<1>1. UploadInv /\ RowInv => LimitsAreKept
  BY RequestsFitTheRun DEF RowInv, LimitsAreKept
<1> QED
  BY <1>1, UploadInvariants, PTL

(***************************************************************************)
(* A batch has one visibility, leaves no row untried and counts what it    *)
(* completes, whatever is canceled, fails, retried or added meanwhile.     *)
(***************************************************************************)
THEOREM UploadBatchIsConsistent ==
    ASSUME UploadAssumption PROVE UploadSpec => []BatchIsConsistent
<1>1. RowInv => BatchIsConsistent
  BY DEF RowInv
<1> QED
  BY <1>1, UploadInvariants, PTL

\* Every request of the upload page has exactly one worker of the one run, and
\* none is in flight once the page was left or told of a 401, for any number
\* of files and workers (uploadOne, the workers of submit and the cleanup of
\* upload-page.tsx).
THEOREM UploadRequestsHaveAWorker ==
    ASSUME UploadAssumption PROVE UploadSpec => []RequestsHaveAWorker
<1>1. UploadInv => RequestsHaveAWorker
  <2> SUFFICES ASSUME UploadInv PROVE OneWorkerPerRow /\ InactiveIsSilent
    BY DEF RequestsHaveAWorker
  <2>1. OneWorkerPerRow
    BY DEF UploadAssumption, UploadInv, OneWorkerPerRow, JobsDiffer, RequestsAreKnown, Busy,
           RunHasWorkers
  <2>2. InactiveIsSilent
    BY DEF UploadInv, InactiveIsSilent, InFlightIsControlled
  <2> QED
    BY <2>1, <2>2
<1>2. UploadAssumption
  OBVIOUS
<1> QED
  BY <1>1, <1>2, UploadInitially, UploadInvIsPreserved, PTL DEF UploadSpec

=============================================================================
