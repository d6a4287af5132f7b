--------------------------- MODULE SessionClient ---------------------------
(***************************************************************************)
(* How the web interface knows whether the administrator is signed in:     *)
(* the session and setup queries of AuthProvider, the guard and the login  *)
(* and setup pages that redirect on them, sign-out, and the listener that  *)
(* any 401 answer reaches (web/src/features/auth, lib/api-client.ts,       *)
(* app/router.tsx, components/layout/admin-layout.tsx).                    *)
(*                                                                         *)
(* A request is sent, the server decides its answer, and the answer        *)
(* arrives: three moments that interleave with every other request.  The   *)
(* server side (alive, initialized) is only what the browser can observe.  *)
(***************************************************************************)
EXTENDS Naturals

CONSTANT
    Strays          \* how many requests may be under way besides the page's

\* What an instance must satisfy.
ClientAssumption == Strays \in Nat

VARIABLES
    alive,         \* the server knows the session of the cookie
    initialized,   \* the server has its administrator
    session,       \* cached session: "unknown", "null" or "admin"
    setupStatus,   \* cached setup status: "unknown", "no" or "yes"
    sessionFetch,  \* the session request: "none", "sent" or its answer
    setupFetch,    \* the setup status request, likewise
    pageFetch,     \* a data request of the page shown, likewise
    strays,        \* other requests: of a left page, or changes; sent ones,
                   \* and those whose 401 is on its way: [sent, dead]
    private,       \* the caches hold data that a query has brought
    flow,          \* where the submit of login, setup or sign-out waits
    joined,        \* refresh() joined a session request sent before it
    route,         \* "login", "setup", "upload" or "page"
    from           \* where the login returns to; "none": nowhere, or not to
                   \* a page behind the guard

vars == <<alive, initialized, session, setupStatus, sessionFetch, setupFetch, pageFetch,
          strays, private, flow, joined, route, from>>
server == <<alive, initialized>>
shown == <<route, from>>

Guarded == {"upload", "page"}
Flows == {"idle", "login", "loginOk", "refreshing", "refreshed", "setup", "setupOk",
          "entering", "enteringSession", "enteringSetup", "entered", "logout", "left"}

TypeOK ==
    /\ alive \in BOOLEAN /\ initialized \in BOOLEAN /\ joined \in BOOLEAN
    /\ session \in {"unknown", "null", "admin"}
    /\ setupStatus \in {"unknown", "no", "yes"}
    /\ sessionFetch \in {"none", "sent", "alive", "dead", "failed"}
    /\ setupFetch \in {"none", "sent", "no", "yes", "failed"}
    /\ pageFetch \in {"none", "sent", "alive", "dead", "failed"}
    /\ strays \in [sent : 0..Strays, dead : 0..Strays]
    /\ private \in BOOLEAN
    /\ flow \in Flows
    /\ route \in {"login", "setup"} \cup Guarded
    /\ from \in {"none", "page", "login"}

Init ==
    /\ initialized \in BOOLEAN
    /\ alive \in IF initialized THEN BOOLEAN ELSE {FALSE}
    /\ session = "unknown" /\ setupStatus = "unknown"
    /\ sessionFetch = "sent" /\ setupFetch = "sent"
    /\ pageFetch = "none" /\ strays = [sent |-> 0, dead |-> 0]
    /\ private = FALSE
    /\ flow = "idle" /\ joined = FALSE
    /\ route \in {"login", "setup", "page"}
    /\ from \in IF route = "login" THEN {"none", "page", "login"} ELSE {"none"}

-----------------------------------------------------------------------------
(* The session ends on the server by itself: expiry, another browser.      *)
SessionEnds ==
    /\ alive
    /\ alive' = FALSE
    /\ UNCHANGED <<initialized, session, setupStatus, sessionFetch, setupFetch, pageFetch,
                   strays, private, flow, joined, shown>>

\* Any request may fail without an answer of the server.
Answers == {IF alive THEN "alive" ELSE "dead", "failed"}

\* The server decides a request for the session, for data or for a change.
\* An answer other than a 401 to one of the strays has no effect here.
ServerAnswers ==
    /\ \/ sessionFetch = "sent" /\ sessionFetch' \in Answers
          /\ UNCHANGED <<pageFetch, strays>>
       \/ pageFetch = "sent" /\ pageFetch' \in Answers
          /\ UNCHANGED <<sessionFetch, strays>>
       \/ /\ strays.sent > 0
          /\ \/ strays' = [strays EXCEPT !.sent = @ - 1]
             \/ ~alive /\ strays' = [sent |-> strays.sent - 1, dead |-> strays.dead + 1]
          /\ UNCHANGED <<sessionFetch, pageFetch>>
    /\ UNCHANGED <<server, session, setupStatus, setupFetch, private, flow, joined, shown>>

ServerAnswersSetup ==
    /\ setupFetch = "sent"
    /\ setupFetch' \in {IF initialized THEN "yes" ELSE "no", "failed"}
    /\ UNCHANGED <<server, session, setupStatus, sessionFetch, pageFetch, strays,
                   private, flow, joined, shown>>

-----------------------------------------------------------------------------
(* AuthProvider.                                                           *)

\* The requests under way of queries that are given up: their answers are
\* ignored, but apiRequest still reports a 401 of theirs.
GivenUp(others) ==
    CASE pageFetch = "sent" /\ others.sent + others.dead < Strays ->
           [others EXCEPT !.sent = @ + 1]
      [] pageFetch = "dead" /\ others.sent + others.dead < Strays ->
           [others EXCEPT !.dead = @ + 1]
      [] OTHER -> others

GiveUp == pageFetch' = "none" /\ strays' = GivenUp(strays)

\* BROKEN, for mutation: only the session is reset, the data caches stay.
ClearSessionOnly ==
    /\ GiveUp
    /\ session' = "null"
    /\ UNCHANGED private

\* clearAuthenticatedCache: data queries are canceled and removed, and the
\* session is null; a session request under way goes on.
ClearAuthenticatedCache ==
    /\ GiveUp
    /\ private' = FALSE
    /\ session' = "null"

\* A session request starts: on focus, when the cached answer is old.
RefetchSession ==
    /\ sessionFetch = "none"
    /\ sessionFetch' = "sent"
    /\ UNCHANGED <<server, session, setupStatus, setupFetch, pageFetch, strays, private,
                   flow, joined, shown>>

\* The flows that wait for refresh() or refreshSetup(), and where they go on.
\* Promise.all of the setup waits for both, in either order.
AfterSession == [refreshing |-> "refreshed", entering |-> "enteringSetup",
                 enteringSession |-> "entered"]
AfterSetup == [entering |-> "enteringSession", enteringSetup |-> "entered"]

\* BROKEN, for mutation: what goes wrong while a page waits is not noticed.
FlowGoesOnAnyway(after, failed) ==
    flow' = IF flow \in DOMAIN after THEN after[flow] ELSE flow

\* A request settles: a flow that waits for it goes on, or ends with an error
\* on the page it began on.
FlowGoesOn(after, failed) ==
    flow' = IF flow \notin DOMAIN after THEN flow
            ELSE IF failed THEN "idle" ELSE after[flow]

\* loadSession: a 401 is no session, and was reported to the listener first;
\* another error leaves what was known.
SessionArrives ==
    /\ sessionFetch \in {"alive", "dead", "failed"}
    /\ sessionFetch' = "none"
    /\ \/ /\ sessionFetch = "alive"
          /\ session' = "admin"
          /\ UNCHANGED <<pageFetch, strays, private>>
       \/ /\ sessionFetch = "dead"
          /\ ClearAuthenticatedCache
       \/ /\ sessionFetch = "failed"
          /\ session' = IF session = "unknown" THEN "null" ELSE session
          /\ UNCHANGED <<pageFetch, strays, private>>
    /\ FlowGoesOn(AfterSession, sessionFetch = "failed")
    /\ UNCHANGED <<server, setupStatus, setupFetch, joined, shown>>

\* The setup status arrives; an error leaves what was known.
SetupArrives ==
    /\ setupFetch \in {"yes", "no", "failed"}
    /\ setupFetch' = "none"
    /\ setupStatus' = IF setupFetch = "failed" THEN setupStatus ELSE setupFetch
    /\ FlowGoesOn(AfterSetup, setupFetch = "failed")
    /\ UNCHANGED <<server, session, sessionFetch, pageFetch, strays, private, joined, shown>>

Loading == (session = "unknown" /\ sessionFetch # "none")
              \/ (setupStatus = "unknown" /\ setupFetch # "none")

PageShown == route \in Guarded /\ session = "admin" /\ ~Loading

-----------------------------------------------------------------------------
(* The pages behind the guard: queries and changes of any of them.         *)

\* A page asks for data when it is mounted and finds none, or on focus.
PageFetches ==
    /\ PageShown /\ pageFetch = "none"
    /\ pageFetch' = "sent"
    /\ UNCHANGED <<server, session, setupStatus, sessionFetch, setupFetch, strays,
                   private, flow, joined, shown>>

MustFetch == PageFetches /\ ~private

\* The answer to a data request; a 401 reaches the listener.
PageArrives ==
    /\ pageFetch \in {"alive", "dead", "failed"}
    /\ IF pageFetch = "dead"
       THEN /\ pageFetch' = "none" /\ private' = FALSE /\ session' = "null"
       ELSE /\ pageFetch' = "none"
            /\ private' = (private \/ pageFetch = "alive")
            /\ UNCHANGED session
    /\ UNCHANGED <<server, strays, setupStatus, sessionFetch, setupFetch, flow,
                   joined, shown>>

\* A change is sent; it goes on when its page is left.
MutationStarts ==
    /\ PageShown /\ strays.sent + strays.dead < Strays
    /\ strays' = [strays EXCEPT !.sent = @ + 1]
    /\ UNCHANGED <<server, session, setupStatus, sessionFetch, setupFetch, pageFetch,
                   private,
                   flow, joined, shown>>

\* A late 401 of a change or of a request nobody waits for reaches the
\* listener, whichever page is shown by now.
StrayArrives ==
    /\ strays.dead > 0
    /\ strays' = GivenUp([strays EXCEPT !.dead = @ - 1])
    /\ pageFetch' = "none" /\ private' = FALSE /\ session' = "null"
    /\ UNCHANGED <<server, setupStatus, sessionFetch, setupFetch, flow, joined, shown>>

-----------------------------------------------------------------------------
(* The login page.                                                         *)

SubmitLogin ==
    /\ route = "login" /\ session # "admin" /\ flow = "idle"
    /\ flow' = "login"
    /\ UNCHANGED <<server, session, setupStatus, sessionFetch, setupFetch, pageFetch,
                   strays,
                   private, joined, shown>>

\* The server signs the administrator in, or the attempt ends with an error;
\* the 401 of a login is not reported to the listener.
LoginAnswered ==
    /\ flow = "login"
    /\ \/ initialized /\ alive' = TRUE /\ flow' = "loginOk"
       \/ flow' = "idle" /\ UNCHANGED alive
    /\ UNCHANGED <<initialized, session, setupStatus, sessionFetch, setupFetch, pageFetch,
                   strays, private, joined, shown>>

\* BROKEN, for mutation: refresh() is content with what is cached.
RefreshCached ==
    IF session = "unknown"
    THEN joined' = (sessionFetch # "none") /\ sessionFetch' = "sent"
    ELSE joined' = FALSE /\ UNCHANGED sessionFetch

\* refresh(): fetchQuery with staleTime 0, which joins a request under way.
Refresh ==
    /\ joined' = (sessionFetch # "none")
    /\ sessionFetch' = IF sessionFetch = "none" THEN "sent" ELSE sessionFetch

LoginRefreshes ==
    /\ flow = "loginOk"
    /\ Refresh
    /\ flow' = IF sessionFetch' = "none" THEN "refreshed" ELSE "refreshing"
    /\ UNCHANGED <<server, session, setupStatus, setupFetch, pageFetch, strays, private,
                   shown>>

\* BROKEN, for mutation: whatever brought the user here is the destination.
LoginDestinationAny(f) == IF f \in {"page", "login"} THEN f ELSE "upload"

\* loginDestination: only a guarded page of this site is returned to.
LoginDestination(f) == IF f = "page" THEN "page" ELSE "upload"

LoginNavigates ==
    /\ flow = "refreshed"
    /\ flow' = "idle" /\ joined' = FALSE
    /\ route' = LoginDestination(from)
    /\ UNCHANGED <<server, session, setupStatus, sessionFetch, setupFetch, pageFetch,
                   strays,
                   private, from>>

-----------------------------------------------------------------------------
(* The setup page.                                                         *)

SubmitSetup ==
    /\ route = "setup" /\ session # "admin" /\ setupStatus # "yes" /\ flow = "idle"
    /\ flow' = "setup"
    /\ UNCHANGED <<server, session, setupStatus, sessionFetch, setupFetch, pageFetch,
                   strays,
                   private, joined, shown>>

SetupAnswered ==
    /\ flow = "setup"
    /\ \/ /\ ~initialized
          /\ initialized' = TRUE /\ alive' = TRUE /\ flow' = "setupOk"
       \/ flow' = "idle" /\ UNCHANGED server
    /\ UNCHANGED <<session, setupStatus, sessionFetch, setupFetch, pageFetch, strays,
                   private, joined, shown>>

\* Promise.all([refresh(), refreshSetup()]).
SetupRefreshes ==
    /\ flow = "setupOk"
    /\ Refresh
    /\ setupFetch' = IF setupFetch = "none" THEN "sent" ELSE setupFetch
    /\ flow' = "entering"
    /\ UNCHANGED <<server, session, setupStatus, pageFetch, strays, private, shown>>

SetupNavigates ==
    /\ flow = "entered"
    /\ flow' = "idle" /\ joined' = FALSE
    /\ route' = "upload"
    /\ UNCHANGED <<server, session, setupStatus, sessionFetch, setupFetch, pageFetch,
                   strays,
                   private, from>>

-----------------------------------------------------------------------------
(* Sign-out.                                                               *)

SignOut ==
    /\ PageShown /\ flow = "idle"
    /\ flow' = "logout"
    /\ UNCHANGED <<server, session, setupStatus, sessionFetch, setupFetch, pageFetch,
                   strays,
                   private, joined, shown>>

\* logout: whatever the answer, the caches are cleared; only an error other
\* than 401 is thrown on, and the page does not navigate itself then.
LogoutAnswered ==
    /\ flow = "logout"
    /\ \/ alive' = FALSE /\ flow' = "left"
       \/ alive' \in {alive, FALSE} /\ flow' = "idle"
    /\ ClearAuthenticatedCache
    /\ UNCHANGED <<initialized, setupStatus, sessionFetch, setupFetch, joined, shown>>

SignOutNavigates ==
    /\ flow = "left"
    /\ flow' = "idle"
    /\ route' = "login" /\ from' = "none"
    /\ UNCHANGED <<server, session, setupStatus, sessionFetch, setupFetch, pageFetch,
                   strays,
                   private, joined>>

-----------------------------------------------------------------------------
(* The redirects the pages render.                                         *)

GuardRedirects ==
    /\ route \in Guarded /\ ~Loading /\ session # "admin"
    /\ \/ setupStatus = "no" /\ route' = "setup" /\ UNCHANGED from
       \/ setupStatus # "no" /\ route' = "login" /\ from' = "page"
    /\ GiveUp
    /\ UNCHANGED <<server, session, setupStatus, sessionFetch, setupFetch, private, flow,
                   joined>>

LoginRedirects ==
    /\ route = "login"
    /\ \/ session = "admin" /\ route' = LoginDestination(from)
       \/ session # "admin" /\ setupStatus = "no" /\ route' = "setup"
    /\ UNCHANGED <<server, session, setupStatus, sessionFetch, setupFetch, pageFetch,
                   strays,
                   private, flow, joined, from>>

SetupRedirects ==
    /\ route = "setup"
    /\ \/ session = "admin" /\ route' = "upload" /\ UNCHANGED from
       \/ session # "admin" /\ setupStatus = "yes" /\ route' = "login" /\ from' = "none"
    /\ UNCHANGED <<server, session, setupStatus, sessionFetch, setupFetch, pageFetch,
                   strays,
                   private, flow, joined>>

Redirect == GuardRedirects \/ LoginRedirects \/ SetupRedirects

Next ==
    \/ SessionEnds
    \/ ServerAnswers
    \/ ServerAnswersSetup
    \/ RefetchSession
    \/ SessionArrives
    \/ SetupArrives
    \/ PageFetches
    \/ PageArrives
    \/ StrayArrives
    \/ MutationStarts
    \/ SubmitLogin
    \/ LoginAnswered
    \/ LoginRefreshes
    \/ LoginNavigates
    \/ SubmitSetup
    \/ SetupAnswered
    \/ SetupRefreshes
    \/ SetupNavigates
    \/ SignOut
    \/ LogoutAnswered
    \/ SignOutNavigates
    \/ Redirect

Spec == Init /\ [][Next]_vars

\* Each request is answered and its answer arrives, promises continue, React
\* renders the redirects, and a page that is mounted without data asks for it.
Fairness ==
    /\ WF_vars((ServerAnswers /\ sessionFetch' # sessionFetch) \/ SessionArrives)
    /\ WF_vars((ServerAnswers /\ pageFetch' # pageFetch) \/ PageArrives \/ MustFetch)
    /\ WF_vars(ServerAnswersSetup \/ SetupArrives)
    /\ WF_vars(SetupRefreshes \/ SetupNavigates \/ LoginRefreshes \/ LoginNavigates)
    /\ WF_vars(Redirect)

FairSpec == Spec /\ Fairness

-----------------------------------------------------------------------------
(* Properties.                                                             *)

\* Once signed out, no query brings data of the administrator back into the
\* caches: what was asked before is canceled, and its late answer is ignored.
\* Only the answer to a change that was under way may still be cached.
SignedOutCachesNoQuery == session # "admin" => ~private

\* A login that the server accepted is seen: refresh() does not return what
\* was cached before, unless it joined a session request sent before the
\* login was answered.
LoginIsSeen ==
    [][flow # "refreshed" /\ flow' = "refreshed" /\ ~joined' /\ alive => session' = "admin"]_vars

\* A setup leaves its page for the interface only with the session it has
\* made: not when one of its two refreshes failed, in whichever order they are
\* answered, unless refresh() joined a request sent before the setup.
SetupIsSeen ==
    [][flow # "entered" /\ flow' = "entered" /\ ~joined' /\ alive => session' = "admin"]_vars

\* The guard, the login page and the setup page agree on where the user
\* belongs: no chain of redirects goes on for ever.
RedirectsSettle == []<>(~ENABLED Redirect)

\* A session the server has ended is not shown for ever once the caches were
\* emptied: the page that is mounted asks for data, and the 401 signs out,
\* unless the network fails.
EndedSessionIsNoticed ==
    (PageShown /\ ~alive /\ ~private)
        ~> (~PageShown \/ alive \/ private \/ pageFetch = "failed")

\* A finished setup leads into the interface, whichever of the two queries is
\* answered first, unless the session is lost again or one of them fails: then
\* the setup page says so and stays until a redirect leaves it.
SetupEnters ==
    flow = "setupOk"
        ~> (PageShown \/ ~alive \/ joined \/ "failed" \in {sessionFetch, setupFetch})

\* What is known of the session leads to one page and stays there: redirects
\* end, an ended session is noticed, and a setup enters.
SessionSettles == RedirectsSettle /\ EndedSessionIsNoticed /\ SetupEnters

=============================================================================
