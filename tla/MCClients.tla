------------------------------ MODULE MCClients ------------------------------
(***************************************************************************)
(* Instances of the upload page and of the session of the web interface    *)
(* for TLC.  mounted says which of them a behaviour is about, so that they *)
(* are explored side by side and their states add up rather than multiply. *)
(* The upload page is explored in two parts, each of which leaves          *)
(* something out that the other one has.                                   *)
(***************************************************************************)
EXTENDS SessionClient, UploadQueue

CONSTANTS f1, f2, f3

VARIABLE mounted

ASSUME InstancesAreLegal == UploadAssumption /\ ClientAssumption

tabVars == <<mounted, uploadVars, vars>>

\* Two unfinished rows and both visibilities, or three rows and one visibility.
SelectNext == UploadNext /\ Cardinality(Unfinished') <= 2
BatchNext == UNCHANGED visibility /\ UploadNext

\* A client nobody has to serve, for behaviours about the upload page.
ClientRests ==
    /\ alive = FALSE /\ initialized = TRUE
    /\ session = "null" /\ setupStatus = "yes"
    /\ sessionFetch = "none" /\ setupFetch = "none" /\ pageFetch = "none"
    /\ strays = [sent |-> 0, dead |-> 0] /\ private = FALSE
    /\ flow = "idle" /\ joined = FALSE /\ route = "login" /\ from = "none"

TabInit ==
    /\ mounted \in {"select", "batch", "client"}
    /\ UploadInit
    /\ mounted = "select" \/ visibility = "default"
    /\ IF mounted = "client" THEN Init ELSE ClientRests

TabNext ==
    \/ mounted = "select" /\ SelectNext /\ UNCHANGED <<mounted, vars>>
    \/ mounted = "batch" /\ BatchNext /\ UNCHANGED <<mounted, vars>>
    \/ mounted = "client" /\ Next /\ UNCHANGED <<mounted, uploadVars>>

\* No action that is fair in one of them is enabled while it is not mounted,
\* and no fair action adds a row or selects a visibility.
TabSpec == TabInit /\ [][TabNext]_tabVars /\ UploadFairness /\ Fairness
=============================================================================
