---------------------------- MODULE UploadQueue ----------------------------
(***************************************************************************)
(* The upload page of the web interface (web/src/features/upload/          *)
(* upload-page.tsx) with the XMLHttpRequest wrapper it uses                *)
(* (web/src/lib/api-client.ts, uploadForm).                                *)
(*                                                                         *)
(* JavaScript runs one handler at a time: an action is what runs between   *)
(* two awaits, with the effects React runs for the state it sets.  What    *)
(* interleaves is the user, the workers of a running batch, the server's   *)
(* answers, navigation, and the loss of the session.                       *)
(***************************************************************************)
EXTENDS Naturals, FiniteSets

CONSTANTS
    Files,                  \* the files the user may pick; one row each
    Visibilities,           \* the choices of the visibility select
    MaxBatchCount,          \* maxBatchCount of /api/v1/system
    DefaultBatchCount,      \* the limit used until that answer arrives
    ProcessingConcurrency,  \* processingConcurrency of /api/v1/system
    None                    \* no file, no visibility

\* What an instance must satisfy.
UploadAssumption ==
    /\ MaxBatchCount \in Nat /\ DefaultBatchCount \in Nat
    /\ ProcessingConcurrency \in Nat \ {0}
    /\ None \notin Files /\ None \notin Visibilities
    /\ IsFiniteSet(Files)

VARIABLES
    status,        \* file -> status of its row, "absent" without a row
    result,        \* file -> visibility of the image its row shows as result
    previews,      \* files whose object URL is alive (previewUrls)
    visibility,    \* the visibility select
    uploading,     \* the uploading state: a batch or a retry is running
    run,           \* what the running submit or retry closed over
    job,           \* worker -> the file it is uploading
    request,       \* file -> its XMLHttpRequest and the visibility it sends
    controllers,   \* files whose AbortController is registered
    active,        \* the active ref: the page may still act
    page,          \* "mounted", "blocked" (dialog open), "leaving" or "gone"
    systemLoaded   \* the answer of /api/v1/system is there

uploadVars == <<status, result, previews, visibility, uploading, run, job, request,
               controllers, active, page, systemLoaded>>
rowVars == <<status, result, previews>>
netVars == <<job, request, controllers>>

UploadStatus == {"queued", "uploading", "complete", "failed", "canceled"}
InFlight == {"sent", "answered"}
RequestState == {"none", "aborted", "failed", "unauthorized"} \cup InFlight
Workers == 1..ProcessingConcurrency

Max(a, b) == IF a > b THEN a ELSE b
Min(a, b) == IF a < b THEN a ELSE b

Rows == {f \in Files : status[f] # "absent"}
Unfinished == {f \in Rows : status[f] # "complete"}
BatchLimit == IF systemLoaded THEN MaxBatchCount ELSE DefaultBatchCount

\* The workers of a batch: one until the server has said how many it serves.
Concurrency == IF systemLoaded THEN ProcessingConcurrency ELSE 1
NoRequest == [state |-> "none", visibility |-> None]
Clickable == page \in {"mounted", "leaving"}
CanCancel(f) == status[f] = "uploading"
CanRetry(f) == status[f] \in {"failed", "canceled"}

UploadTypeOK ==
    /\ status \in [Files -> UploadStatus \cup {"absent"}]
    /\ result \in [Files -> Visibilities \cup {None}]
    /\ previews \subseteq Files
    /\ visibility \in Visibilities
    /\ uploading \in BOOLEAN /\ active \in BOOLEAN /\ systemLoaded \in BOOLEAN
    /\ run \in [queue : SUBSET Files, left : SUBSET Files, completed : Nat,
                width : 0..ProcessingConcurrency, visibility : Visibilities]
    /\ job \in [Workers -> Files \cup {None}]
    /\ request \in [Files -> [state : RequestState, visibility : Visibilities \cup {None}]]
    /\ controllers \subseteq Files
    /\ page \in {"mounted", "blocked", "leaving", "gone"}

UploadInit ==
    /\ status = [f \in Files |-> "absent"]
    /\ result = [f \in Files |-> None]
    /\ previews = {}
    /\ visibility \in Visibilities     \* storedVisibility: the remembered one
    /\ uploading = FALSE
    /\ run = [queue |-> {}, left |-> {}, completed |-> 0, width |-> 0,
              visibility |-> visibility]
    /\ job = [w \in Workers |-> None]
    /\ request = [f \in Files |-> NoRequest]
    /\ controllers = {}
    /\ active = TRUE
    /\ page = "mounted"
    /\ systemLoaded = FALSE

-----------------------------------------------------------------------------
(* The rows.                                                               *)

QueueRows(fs) ==
    /\ status' = [f \in Files |-> IF f \in fs THEN "queued" ELSE status[f]]
    /\ previews' = previews \cup fs
    /\ UNCHANGED <<result, visibility, uploading, run, netVars, active, page, systemLoaded>>

\* BROKEN, for mutation: the rows already queued are not counted.
AddFilesUncounted(fs) ==
    /\ Clickable /\ fs # {} /\ fs \cap Rows = {}
    /\ Cardinality(fs) <= BatchLimit
    /\ QueueRows(fs)

\* addFiles, from the file input, a drop or a paste: the supported files fs
\* become queued rows, each with an object URL, unless they exceed the limit
\* together with the unfinished rows.
AddFiles(fs) ==
    /\ Clickable /\ fs # {} /\ fs \cap Rows = {}
    /\ Cardinality(Unfinished) + Cardinality(fs) <= BatchLimit
    /\ QueueRows(fs)

\* clearQueue: every row goes, the last run's too, and its object URL is
\* revoked.
ClearQueue ==
    /\ Clickable /\ ~uploading /\ Rows # {}
    /\ status' = [f \in Files |-> "absent"]
    /\ result' = [f \in Files |-> None]
    /\ previews' = {}
    /\ run' = [run EXCEPT !.queue = {}]
    /\ UNCHANGED <<visibility, uploading, netVars, active, page, systemLoaded>>

ChangeVisibility(v) ==
    /\ Clickable /\ v # visibility
    /\ visibility' = v
    /\ UNCHANGED <<rowVars, uploading, run, netVars, active, page, systemLoaded>>

SystemLoads ==
    /\ ~systemLoaded /\ page # "gone"
    /\ systemLoaded' = TRUE
    /\ UNCHANGED <<rowVars, visibility, uploading, run, netVars, active, page>>

-----------------------------------------------------------------------------
(* A batch (submit) or a single retry.                                     *)

StartRun(queue, width) ==
    /\ uploading' = TRUE
    /\ run' = [queue |-> queue, left |-> queue, completed |-> 0,
               width |-> width, visibility |-> visibility]
    /\ UNCHANGED <<rowVars, visibility, netVars, active, page, systemLoaded>>

\* submit: the unfinished rows at this moment are the batch; files added
\* later wait for the next one.
Submit ==
    /\ Clickable /\ Unfinished # {} /\ ~uploading /\ active
    /\ StartRun(Unfinished, Max(1, Min(Concurrency, Cardinality(Unfinished))))

\* retry of a failed or canceled row.  On a page that is being left
\* uploadOne returns at once and uploading is never reset.
Retry(f) ==
    /\ Clickable /\ CanRetry(f) /\ ~uploading
    /\ IF active
       THEN StartRun({f}, 1)
       ELSE /\ uploading' = TRUE
            /\ UNCHANGED <<rowVars, visibility, run, netVars, active, page, systemLoaded>>

\* Worker w sends row f with visibility v.
Send(w, f, v) ==
    /\ w <= run.width /\ job[w] = None
    /\ f \in run.left
    /\ job' = [job EXCEPT ![w] = f]
    /\ controllers' = controllers \cup {f}
    /\ request' = [request EXCEPT ![f] = [state |-> "sent", visibility |-> v]]
    /\ status' = [status EXCEPT ![f] = "uploading"]
    /\ result' = [result EXCEPT ![f] = None]
    /\ UNCHANGED <<previews, visibility, uploading, active, page, systemLoaded>>

\* A worker of the run takes the next row and uploadOne sends it, with the
\* visibility the run closed over.
UploadOne(w, f) ==
    /\ uploading /\ active
    /\ Send(w, f, run.visibility)
    /\ run' = [run EXCEPT !.left = @ \ {f}]

\* The server stores the image, refuses it, or no longer knows the session;
\* or the network fails.  The browser has yet to deliver the event.
Answer(f, outcome) ==
    /\ request[f].state = "sent"
    /\ request' = [request EXCEPT ![f].state = outcome]
    /\ UNCHANGED <<rowVars, visibility, uploading, run, job, controllers, active, page,
                   systemLoaded>>

\* abort() of the controllers of fs; f's own request has been settled.
Aborted(fs) ==
    [f \in Files |-> IF f \in fs /\ request[f].state \in InFlight
                     THEN [request[f] EXCEPT !.state = "aborted"] ELSE request[f]]

\* The cancel button of a row in flight; an answer the browser has not
\* delivered is dropped.
CancelRow(f) ==
    /\ Clickable /\ CanCancel(f)
    /\ f \in controllers /\ request[f].state \in InFlight
    /\ request' = Aborted({f})
    /\ UNCHANGED <<rowVars, visibility, uploading, run, job, controllers, active, page,
                   systemLoaded>>

\* uploadForm settles for worker w: updateItem patches the row, if the page
\* is still active, and the finally block forgets the controller.
Settle(w, f, s, image) ==
    /\ job[w] = f
    /\ job' = [job EXCEPT ![w] = None]
    /\ controllers' = controllers \ {f}
    /\ request' = [request EXCEPT ![f] = NoRequest]
    /\ status' = IF active THEN [status EXCEPT ![f] = s] ELSE status
    /\ result' = IF active THEN [result EXCEPT ![f] = image] ELSE result
    /\ UNCHANGED <<visibility, uploading, active, page, systemLoaded>>

\* The effect on items: object URLs that no row shows any more are revoked;
\* an uploaded row shows the thumbnail of its image instead.
ReleasePreviews == previews' = {f \in previews : status'[f] \notin {"absent", "complete"}}

\* Success: the row shows the image and its thumbnail.
UploadSucceeds(w, f) ==
    /\ request[f].state = "answered"
    /\ Settle(w, f, "complete", request[f].visibility)
    /\ run' = [run EXCEPT !.completed = @ + 1]
    /\ ReleasePreviews

\* BROKEN, for mutation: a failure ends the batch.
UploadFailsEndsBatch(w, f) ==
    /\ request[f].state \in {"failed", "aborted"}
    /\ Settle(w, f, IF request[f].state = "aborted" THEN "canceled" ELSE "failed", None)
    /\ run' = [run EXCEPT !.left = {}]
    /\ UNCHANGED previews

\* A failure or a cancelation marks the row; the batch goes on.
UploadFails(w, f) ==
    /\ request[f].state \in {"failed", "aborted"}
    /\ Settle(w, f, IF request[f].state = "aborted" THEN "canceled" ELSE "failed", None)
    /\ UNCHANGED <<run, previews>>

\* What a 401 does to the page: it is inactive, reqs is left of the requests,
\* and the row is not touched.
StopOn401(w, f, reqs) ==
    /\ request[f].state = "unauthorized"
    /\ job[w] = f
    /\ job' = [job EXCEPT ![w] = None]
    /\ controllers' = controllers \ {f}
    /\ active' = FALSE
    /\ request' = [reqs EXCEPT ![f] = NoRequest]
    /\ UNCHANGED <<rowVars, visibility, uploading, run, page, systemLoaded>>

\* BROKEN, for mutation: the other requests go on after a 401.
UploadUnauthorizedAlone(w, f) == StopOn401(w, f, request)

\* 401: every worker stops and the other requests are aborted before the
\* redirect unmounts the page.
UploadUnauthorized(w, f) == StopOn401(w, f, Aborted(controllers))

\* BROKEN, for mutation: a batch with failures stays in the uploading state.
FinishRunComplete ==
    /\ uploading /\ active
    /\ run.left = {} /\ \A w \in Workers : job[w] = None
    /\ run.completed = Cardinality(run.queue)
    /\ uploading' = FALSE
    /\ UNCHANGED <<rowVars, visibility, run, netVars, active, page, systemLoaded>>

\* Every worker has returned and the caches were invalidated: the page is
\* ready for the next batch, unless it is being left.
FinishRun ==
    /\ uploading /\ active
    /\ run.left = {} /\ \A w \in Workers : job[w] = None
    /\ uploading' = FALSE
    /\ UNCHANGED <<rowVars, visibility, run, netVars, active, page, systemLoaded>>

-----------------------------------------------------------------------------
(* Leaving the page.                                                       *)

\* The effect's cleanup: no more work, requests aborted, URLs revoked.
Unmount ==
    /\ active' = FALSE
    /\ request' = Aborted(controllers)
    /\ controllers' = {}
    /\ previews' = {}
    /\ page' = "gone"
    /\ UNCHANGED <<status, result, visibility, uploading, run, job, systemLoaded>>

\* A navigation to another path: with unfinished rows the blocker asks.
Navigate ==
    /\ page = "mounted"
    /\ \/ /\ Unfinished # {}
          /\ page' = "blocked"
          /\ UNCHANGED <<rowVars, visibility, uploading, run, netVars, active, systemLoaded>>
       \/ Unfinished = {} /\ Unmount

Stay ==
    /\ page = "blocked"
    /\ page' = "mounted"
    /\ UNCHANGED <<rowVars, visibility, uploading, run, netVars, active, systemLoaded>>

\* leaveUpload: the dialog was confirmed, and the router goes on.
LeaveUpload ==
    /\ page = "blocked"
    /\ active' = FALSE
    /\ request' = Aborted(controllers)
    /\ controllers' = {}
    /\ page' = "leaving"
    /\ UNCHANGED <<rowVars, visibility, uploading, run, job, systemLoaded>>

RouterUnmounts == page = "leaving" /\ Unmount

\* The session is lost elsewhere: the guard removes the page unasked.
SessionLost == page \in {"mounted", "blocked"} /\ Unmount

-----------------------------------------------------------------------------
Worker(w) ==
    \E f \in Files :
       \/ UploadOne(w, f)
       \/ UploadSucceeds(w, f)
       \/ UploadFails(w, f)
       \/ UploadUnauthorized(w, f)

Server(f) == \E o \in {"answered", "failed", "unauthorized"} : Answer(f, o)

UploadNext ==
    \/ \E fs \in SUBSET Files : AddFiles(fs)
    \/ \E v \in Visibilities : ChangeVisibility(v)
    \/ \E f \in Files : Retry(f)
    \/ \E f \in Files : CancelRow(f)
    \/ ClearQueue
    \/ Submit
    \/ Navigate
    \/ Stay
    \/ LeaveUpload
    \/ RouterUnmounts
    \/ SessionLost
    \/ SystemLoads
    \/ \E w \in Workers : Worker(w)
    \/ \E f \in Files : Server(f)
    \/ FinishRun

UploadSpec == UploadInit /\ [][UploadNext]_uploadVars

\* The browser settles every request (an answer or a network error), and
\* the promises of the page are always continued.
UploadFairness ==
    /\ WF_uploadVars(\E f \in Files : Server(f))
    /\ WF_uploadVars((\E w \in Workers : Worker(w)) \/ FinishRun)

UploadFairSpec == UploadSpec /\ UploadFairness

-----------------------------------------------------------------------------
(* Properties.                                                             *)

\* Every request in flight belongs to exactly one worker of the running batch
\* or retry: the shared index never hands a row out twice, and no second run
\* starts beside the first.
OneWorkerPerRow ==
    /\ \A v, w \in Workers : job[v] = job[w] /\ job[v] # None => v = w
    /\ \A f \in Files : request[f].state # "none" =>
          uploading /\ \E w \in Workers : job[w] = f

\* Leaving the page, losing the session and a 401 abort every request: none
\* is in flight once the page is inactive, so none can be sent either.
InactiveIsSilent ==
    ~active => \A f \in Files : request[f].state \notin InFlight

\* The queue holds no more unfinished rows than a limit the page was given so
\* far; uploaded rows do not count, and retried ones are not counted twice.
BatchIsBounded ==
    Cardinality(Unfinished)
        <= IF systemLoaded THEN Max(MaxBatchCount, DefaultBatchCount) ELSE DefaultBatchCount

\* The server never handles more uploads of one page at once than it said,
\* and one before it said so.
ConcurrencyIsBounded ==
    Cardinality({f \in Files : request[f].state = "sent"})
        <= IF systemLoaded THEN ProcessingConcurrency ELSE 1

\* An object URL lives exactly as long as an unfinished row shows it.
PreviewsAreThoseOfTheRows ==
    previews = IF page = "gone" THEN {} ELSE Unfinished

\* The images of one batch all get the visibility the page showed when it
\* was submitted, whatever the user selects meanwhile.
OneVisibilityPerBatch ==
    \A f \in run.queue \cap Rows : status[f] = "complete" => result[f] = run.visibility

\* When a batch is over every row of it has been tried: one failing or
\* canceled row does not strand the others.
EveryRowWasTried ==
    active /\ ~uploading =>
        \A f \in run.queue : status[f] \notin {"queued", "uploading"}

\* The number the final toast compares with the length of the queue is the
\* number of its rows that are complete.
CompletedIsExact ==
    active /\ uploading =>
        run.completed = Cardinality({f \in run.queue : status[f] = "complete"})

\* A request in flight is known to the page that sent it: one worker of the
\* one run waits for it, and a page that is left, loses its session or is
\* told so by a 401 has none any more.
RequestsHaveAWorker == OneWorkerPerRow /\ InactiveIsSilent

\* The page stays within its limits: rows of a batch, uploads at once, and
\* object URLs, which live exactly as long as an unfinished row.
LimitsAreKept ==
    BatchIsBounded /\ ConcurrencyIsBounded /\ PreviewsAreThoseOfTheRows

\* A batch is dealt with as a whole, under one visibility, and its result is
\* counted right, whatever is canceled, fails or is selected meanwhile.
BatchIsConsistent == OneVisibilityPerBatch /\ EveryRowWasTried /\ CompletedIsExact

\* A batch or a retry ends, unless the page is left: the submit button does
\* not stay disabled.
RunEnds == uploading ~> (~uploading \/ ~active)

=============================================================================
