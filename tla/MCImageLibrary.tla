--------------------------- MODULE MCImageLibrary ---------------------------
(***************************************************************************)
(* Instances of the modules of the image library for TLC.  The list with   *)
(* its detail pages, the filter form and the history are independent of one*)
(* another: mounted says which of them a behaviour is about, so that they  *)
(* are explored side by side and their states add up rather than multiply. *)
(* The list is explored in four parts, each of which leaves out something  *)
(* the user may do or an image, and has what the others leave out.         *)
(***************************************************************************)
EXTENDS ImageGallery, FilterForm, LibraryHistory

VARIABLE mounted

ASSUME InstancesAreLegal == GalleryAssumption /\ FormAssumption /\ HistoryAssumption

tabVars == <<mounted, galleryVars, formVars, historyVars>>

\* Each way back to UTC and two zones around it.
MCZones == {-8, 0, 9}

\* The second image was deleted long ago: nothing about it ever happens.
Alone == server[2] = "gone"

\* At most one change that was ever sent, or two.
Sent == Cardinality({s \in Slots : mutation[s] # NoMutation})

\* Two images on pages of one in one list, and one change.
PagesInit == GalleryInit /\ server[1] # "gone" /\ server[2] # "gone"
PagesNext == UNCHANGED filter /\ GalleryNext /\ Sent' <= 1

\* One image under two filters, and one change.
FilteredInit == GalleryInit /\ server[1] # "gone" /\ Alone
FilteredNext == GalleryNext /\ Sent' <= 1

\* One image in one list, and two changes of every kind that may overlap.
ChangedNext == UNCHANGED filter /\ GalleryNext

\* One image under two filters, and two single changes that may overlap.
OverlappingNext == GalleryNext /\ selected' = {}

\* What is not mounted has one state and keeps it.
TabInit ==
    /\ mounted \in {"pages", "filtered", "changed", "overlapping", "form", "history"}
    /\ IF mounted = "pages" THEN PagesInit ELSE FilteredInit
    /\ FormInit
    /\ HistoryInit
    /\ mounted \in {"form", "history"} => server[1] = "public"
    /\ mounted = "form" \/ zone = 0
    /\ mounted = "history" \/ committed.page = "list"

TabNext ==
    \/ mounted = "pages" /\ PagesNext /\ UNCHANGED <<mounted, formVars, historyVars>>
    \/ mounted = "filtered" /\ FilteredNext /\ UNCHANGED <<mounted, formVars, historyVars>>
    \/ mounted = "changed" /\ ChangedNext /\ UNCHANGED <<mounted, formVars, historyVars>>
    \/ mounted = "overlapping" /\ OverlappingNext /\ UNCHANGED <<mounted, formVars, historyVars>>
    \/ mounted = "form" /\ FormNext /\ UNCHANGED <<mounted, galleryVars, historyVars>>
    \/ mounted = "history" /\ HistoryNext /\ UNCHANGED <<mounted, galleryVars, formVars>>

TabSpec == TabInit /\ [][TabNext]_tabVars
=============================================================================
