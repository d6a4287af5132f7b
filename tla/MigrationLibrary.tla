-------------------------- MODULE MigrationLibrary --------------------------
(***************************************************************************)
(* The library of migration images: the page of the web interface          *)
(* (web/src/features/migrations/migration-image-page.tsx) and the service  *)
(* it talks to (internal/migrationimage/service.go), which answers from a  *)
(* cached snapshot of a directory and deletes files from that directory.   *)
(*                                                                         *)
(* A scan and a deletion exclude each other on the server (mutationMu); a  *)
(* fetch, a rescan and a deletion of the page may all be under way at      *)
(* once.  The page may lose the connection at any moment: then the request *)
(* has failed for the page, and the server goes on with it for a while.    *)
(* A list is one page long (ImageGallery models paging).                   *)
(***************************************************************************)
EXTENDS Naturals, FiniteSets, QueryCache

CONSTANTS
    Paths,            \* files the directory may hold
    Filters, Matches, \* Matches[f]: the paths a filter lets through
    SelectionLimit,   \* 100 in the code
    MutationsEnabled, \* the server allows deletions
    MaxAbandoned      \* bound: lost requests that may still delete one path

\* NoData is neither a path nor a filter nor a set of paths.
ASSUME LibraryAssumption ==
    /\ Matches \in [Filters -> SUBSET Paths]
    /\ SelectionLimit \in Nat /\ MutationsEnabled \in BOOLEAN /\ MaxAbandoned \in Nat
    /\ NoData \notin Paths /\ NoData \notin Filters
    /\ \A P \in SUBSET Paths : NoData # P

VARIABLES
    disk, snapshot, fresh,  \* the files; the cached list and whether it is fresh
    scan, scanFor,          \* what the scan under way found, and for whom
    leaving, leavingFor,    \* path removed from the disk, not yet from the cache,
                            \* and for whom
    abandoned,              \* path -> how many requests the page has lost may
                            \* still delete it
    filter, lists,           \* the filter in the address; filter -> its query
    selected, confirmOpen, deleteSnapshot,
    refresh, deletion,      \* the two mutations of the page
    gone, due,              \* ghosts: paths whose deletion was confirmed; files
                            \* a successful refresh has found
    outdated               \* ghost: filters where an older fetch outlived an
                            \* invalidation

libraryVars == <<disk, snapshot, fresh, scan, scanFor, leaving, leavingFor, abandoned, filter,
                lists, selected, confirmOpen, deleteSnapshot, refresh, deletion, gone, due,
                outdated>>
scanVars == <<scan, scanFor>>
leavingVars == <<leaving, leavingFor, abandoned>>
serverVars == <<disk, snapshot, fresh, scanVars, leavingVars>>
pageVars == <<filter, lists, selected, confirmOpen, deleteSnapshot>>
dialogVars == <<confirmOpen, deleteSnapshot>>
ghosts == <<gone, due, outdated>>

Refreshes == [state : {"idle", "sent", "answered", "refetching"},
              found : SUBSET Paths, filter : Filters \cup {NoData}]
NoRefresh == [state |-> "idle", found |-> {}, filter |-> NoData]
Deletions == [state : {"idle", "sent", "answered"}, paths : SUBSET Paths,
              todo : SUBSET Paths, done : SUBSET Paths]
NoDeletion == [state |-> "idle", paths |-> {}, todo |-> {}, done |-> {}]
Deleting == deletion.state # "idle"

\* images, and mutationsEnabled as the first page says it.
Shown == IF HasData(lists[filter]) THEN lists[filter].data ELSE {}
mutationsEnabled == HasData(lists[filter]) /\ MutationsEnabled

LibraryTypeOK ==
    /\ disk \in SUBSET Paths /\ snapshot \in SUBSET Paths /\ fresh \in BOOLEAN
    /\ scan = NoData \/ scan \in SUBSET Paths
    /\ scanFor \in {"nobody", "list", "refresh"}
    /\ leaving \in Paths \cup {NoData} /\ leavingFor \in {"nobody", "page"}
    /\ abandoned \in [Paths -> 0..MaxAbandoned]
    /\ filter \in Filters /\ lists \in [Filters -> Queries(SUBSET Paths)]
    /\ selected \in SUBSET Paths /\ Cardinality(selected) <= SelectionLimit
    /\ confirmOpen \in BOOLEAN /\ deleteSnapshot \in SUBSET Paths
    /\ refresh \in Refreshes /\ deletion \in Deletions
    /\ {gone, due} \subseteq SUBSET Paths /\ outdated \subseteq Filters

LibraryInit ==
    /\ disk \in SUBSET Paths /\ snapshot = {} /\ fresh = FALSE
    /\ scan = NoData /\ scanFor = "nobody" /\ leaving = NoData /\ leavingFor = "nobody"
    /\ abandoned = [p \in Paths |-> 0]
    /\ filter \in Filters
    /\ lists = [f \in Filters |-> IF f = filter THEN Request(EmptyQuery) ELSE EmptyQuery]
    /\ selected = {} /\ confirmOpen = FALSE /\ deleteSnapshot = {}
    /\ refresh = NoRefresh /\ deletion = NoDeletion
    /\ gone = {} /\ due = {} /\ outdated = {}

-----------------------------------------------------------------------------
(* The server.                                                             *)

\* Somebody copies a file into the directory; it is another file than the one
\* of this path that was deleted.
CopyFile(p) ==
    /\ p \notin disk
    /\ disk' = disk \cup {p}
    /\ gone' = gone \ {p} /\ deletion' = [deletion EXCEPT !.done = @ \ {p}]
    /\ UNCHANGED <<snapshot, fresh, scanVars, leavingVars, pageVars, refresh, due, outdated>>

\* The snapshot is older than snapshotTTL.
Expire ==
    /\ fresh /\ fresh' = FALSE
    /\ UNCHANGED <<disk, snapshot, scanVars, leavingVars, pageVars, refresh, deletion, ghosts>>

\* BROKEN, for mutation: a scan does not wait for a deletion, nor a deletion
\* for a scan.
MutationMuFreeNever == TRUE

\* mutationMu is free.
MutationMuFree == scan = NoData /\ leaving = NoData

\* loadSnapshot, up to the end of the directory walk: a refresh scans always,
\* a list only without a fresh snapshot, and a refresh that the page has lost,
\* or that of another tab, for nobody here.
ScanBegins(who) ==
    /\ MutationMuFree /\ scan = NoData   \* mutationMu and scanMu
    /\ who = "refresh" => refresh.state = "sent"
    /\ who = "list" => ~fresh /\ \E f \in Filters : lists[f].fetch.state = "sent"
    /\ scan' = disk /\ scanFor' = who
    /\ UNCHANGED <<disk, snapshot, fresh, leavingVars, pageVars, refresh, deletion, ghosts>>

\* The rest of it: the snapshot is published.
ScanEnds ==
    /\ scan # NoData
    /\ snapshot' = scan /\ fresh' = TRUE /\ scan' = NoData /\ scanFor' = "nobody"
    /\ refresh' = IF scanFor = "refresh"
                  THEN [refresh EXCEPT !.state = "answered", !.found = scan] ELSE refresh
    /\ UNCHANGED <<disk, leavingVars, pageVars, deletion, ghosts>>

\* The directory cannot be read, or its request was canceled.
ScanFails ==
    /\ scan # NoData
    /\ scan' = NoData /\ scanFor' = "nobody"
    /\ refresh' = IF scanFor = "refresh" THEN NoRefresh ELSE refresh
    /\ UNCHANGED <<disk, snapshot, fresh, leavingVars, pageVars, deletion, ghosts>>

\* Search: the answer is made from the snapshot and travels afterwards.
Search(f) ==
    /\ lists[f].fetch.state = "sent" /\ fresh
    /\ lists' = [lists EXCEPT ![f] = Answered(@, snapshot \cap Matches[f])]
    /\ UNCHANGED <<serverVars, filter, selected, dialogVars, refresh, deletion, ghosts>>

\* The paths that the request under way has not answered for.
Unanswered == IF deletion.state = "sent" THEN deletion.todo ELSE {}

\* Delete of one path, with mutationMu held: the file goes first, or was not
\* there.
RemoveFile(p, who) ==
    /\ MutationMuFree
    /\ leaving' = p /\ leavingFor' = who
    /\ disk' = disk \ {p}
    /\ due' = due \ {p} /\ refresh' = [refresh EXCEPT !.found = @ \ {p}]
    /\ UNCHANGED <<snapshot, fresh, scanVars, pageVars, deletion, gone, outdated>>

Delete(p) ==
    /\ p \in Unanswered
    /\ RemoveFile(p, "page")
    /\ UNCHANGED abandoned

\* The file cannot be removed: nothing changes.
DeleteRefused(p) ==
    /\ p \in Unanswered
    /\ MutationMuFree
    /\ deletion' = [deletion EXCEPT !.todo = @ \ {p}]
    /\ UNCHANGED <<serverVars, pageVars, refresh, ghosts>>

\* A request the page has lost reaches a path: it was past ctx.Err() when the
\* connection went, or its cancellation is not known yet.
DeleteAbandoned(p) ==
    /\ abandoned[p] > 0
    /\ abandoned' = [abandoned EXCEPT ![p] = @ - 1]
    /\ RemoveFile(p, "nobody")

\* ctx.Err(), or the file cannot be removed.
AbandonedStops(p) ==
    /\ abandoned[p] > 0
    /\ abandoned' = [abandoned EXCEPT ![p] = @ - 1]
    /\ UNCHANGED <<disk, snapshot, fresh, scanVars, leaving, leavingFor, pageVars, refresh,
                   deletion, ghosts>>

\* removeCachedPath.
removeCachedPath == snapshot' = snapshot \ {leaving}

DeleteEnds ==
    /\ leaving # NoData
    /\ removeCachedPath
    /\ leaving' = NoData /\ leavingFor' = "nobody"
    /\ deletion' = IF leavingFor = "page"
                   THEN [deletion EXCEPT !.todo = @ \ {leaving}, !.done = @ \cup ({leaving} \ disk)]
                   ELSE deletion
    /\ UNCHANGED <<disk, fresh, scanVars, abandoned, pageVars, refresh, ghosts>>

\* batchDelete answers when every path was tried.
BatchEnds ==
    /\ deletion.state = "sent" /\ deletion.todo = {}
    /\ deletion' = [deletion EXCEPT !.state = "answered"]
    /\ UNCHANGED <<serverVars, pageVars, refresh, ghosts>>

-----------------------------------------------------------------------------
(* The page.                                                               *)

ListArrives(f) ==
    /\ lists[f].fetch.state = "answered"
    /\ lists' = [lists EXCEPT ![f] = Applied(@)]
    /\ UNCHANGED <<serverVars, filter, selected, dialogVars, refresh, deletion, ghosts>>

ListFails(f) ==
    /\ Fetching(lists[f])
    /\ lists' = [lists EXCEPT ![f] = Failed(@)]
    /\ UNCHANGED <<serverVars, filter, selected, dialogVars, refresh, deletion, ghosts>>

\* applyFilters, resetFilters, and the history of the browser.
ChangeFilter(f) ==
    /\ f # filter
    /\ filter' = f /\ selected' = {}
    /\ lists' = [lists EXCEPT ![f] = Mounted(@)]
    /\ outdated' = IF lists' = lists THEN outdated ELSE outdated \ {f}
    /\ UNCHANGED <<serverVars, dialogVars, refresh, deletion, gone, due>>

\* toggleSelected; the cards are out of reach behind the dialog.
toggleSelected(p) ==
    /\ p \in Shown /\ ~Deleting /\ mutationsEnabled
    /\ ~confirmOpen
    /\ p \in selected \/ Cardinality(selected) < SelectionLimit
    /\ selected' = IF p \in selected THEN selected \ {p} ELSE selected \cup {p}
    /\ UNCHANGED <<serverVars, filter, lists, dialogVars, refresh, deletion, ghosts>>

ClearSelection ==
    /\ selected # {} /\ ~Deleting /\ ~confirmOpen
    /\ selected' = {}
    /\ UNCHANGED <<serverVars, filter, lists, dialogVars, refresh, deletion, ghosts>>

\* confirmDelete of one card or of the selection.
confirmDelete(ps) ==
    /\ ps # {} /\ (ps = selected \/ \E p \in Shown : ps = {p})
    /\ mutationsEnabled /\ ~Deleting /\ ~confirmOpen
    /\ deleteSnapshot' = ps /\ confirmOpen' = TRUE
    /\ UNCHANGED <<serverVars, filter, lists, selected, refresh, deletion, ghosts>>

CloseDialog ==
    /\ confirmOpen /\ ~Deleting
    /\ confirmOpen' = FALSE /\ deleteSnapshot' = {}
    /\ UNCHANGED <<serverVars, filter, lists, selected, refresh, deletion, ghosts>>

\* BROKEN, for mutation: the current selection is deleted.
ConfirmSelected ==
    /\ confirmOpen /\ ~Deleting
    /\ deletion' = [state |-> "sent", paths |-> selected, todo |-> selected, done |-> {}]
    /\ UNCHANGED <<serverVars, filter, lists, selected, dialogVars, refresh, ghosts>>

Confirm ==
    /\ confirmOpen /\ ~Deleting
    /\ deletion' = [state |-> "sent", paths |-> deleteSnapshot, todo |-> deleteSnapshot, done |-> {}]
    /\ UNCHANGED <<serverVars, filter, lists, selected, dialogVars, refresh, ghosts>>

Refresh ==
    /\ refresh.state = "idle" /\ ~confirmOpen
    /\ refresh' = [NoRefresh EXCEPT !.state = "sent"]
    /\ UNCHANGED <<serverVars, filter, lists, selected, dialogVars, deletion, ghosts>>

\* invalidateQueries(['migration-images']): the list shown is fetched again.
InvalidateLists ==
    /\ lists' = [f \in Filters |-> Invalidated(lists[f], f = filter)]
    /\ outdated' = {f \in Filters : Fetching(lists[f]) /\ (f # filter \/ Joins(lists[f]))}
                    \cup {f \in outdated : f # filter}

RefreshSucceeds ==
    /\ refresh.state = "answered"
    /\ selected' = {}
    /\ InvalidateLists
    /\ due' = refresh.found
    /\ refresh' = [NoRefresh EXCEPT !.state = "refetching", !.filter = filter]
    /\ UNCHANGED <<serverVars, filter, dialogVars, deletion, gone>>

\* The mutation stays pending until the list it invalidated was fetched.
RefreshSettles ==
    /\ refresh.state = "refetching" /\ ~Fetching(lists[refresh.filter])
    /\ refresh' = NoRefresh
    /\ UNCHANGED <<serverVars, filter, lists, selected, dialogVars, deletion, ghosts>>

\* The connection or the answer is lost; a scan under way goes on.
RefreshFails ==
    /\ refresh.state \in {"sent", "answered"}
    /\ refresh' = NoRefresh
    /\ scanFor' = IF scanFor = "refresh" THEN "nobody" ELSE scanFor
    /\ UNCHANGED <<disk, snapshot, fresh, scan, leavingVars, pageVars, deletion, ghosts>>

\* The dialog closes and the list is fetched again, which replaces a fetch
\* that the refresh may be waiting for.
DeletionSucceeds ==
    /\ deletion.state = "answered"
    /\ confirmOpen' = FALSE /\ deleteSnapshot' = {} /\ selected' = {}
    /\ InvalidateLists
    /\ gone' = gone \cup deletion.done
    /\ deletion' = NoDeletion
    /\ refresh' = IF refresh.filter = filter THEN NoRefresh ELSE refresh
    /\ UNCHANGED <<serverVars, filter, due>>

\* What a lost request may still do: all it has not answered for, except a
\* path that is just being deleted.
Remaining == Unanswered \ (IF leavingFor = "page" THEN {leaving} ELSE {})

\* The request is refused, or the connection or the answer is lost: the dialog
\* stays and can be closed, and the server may go on.
DeletionFails ==
    /\ Deleting
    /\ \A p \in Remaining : abandoned[p] < MaxAbandoned
    /\ abandoned' = [p \in Paths |-> IF p \in Remaining THEN abandoned[p] + 1 ELSE abandoned[p]]
    /\ leavingFor' = "nobody"
    /\ deletion' = NoDeletion
    /\ UNCHANGED <<disk, snapshot, fresh, scanVars, leaving, pageVars, refresh, ghosts>>

-----------------------------------------------------------------------------
LibraryNext ==
    \/ \E p \in Paths : CopyFile(p)
    \/ Expire
    \/ \E who \in {"nobody", "list", "refresh"} : ScanBegins(who)
    \/ ScanEnds
    \/ ScanFails
    \/ \E f \in Filters : Search(f) \/ ListArrives(f) \/ ListFails(f) \/ ChangeFilter(f)
    \/ \E p \in Paths : Delete(p) \/ DeleteRefused(p) \/ toggleSelected(p)
    \/ \E p \in Paths : DeleteAbandoned(p) \/ AbandonedStops(p)
    \/ DeleteEnds
    \/ BatchEnds
    \/ ClearSelection
    \/ \E ps \in SUBSET Paths : confirmDelete(ps)
    \/ CloseDialog
    \/ Confirm
    \/ Refresh
    \/ RefreshSucceeds
    \/ RefreshSettles
    \/ RefreshFails
    \/ DeletionSucceeds
    \/ DeletionFails

LibrarySpec == LibraryInit /\ [][LibraryNext]_libraryVars

-----------------------------------------------------------------------------
(* Properties.                                                             *)

\* The cached list names no file that the service has deleted, whatever scan
\* was under way when it was deleted.
SnapshotIsOnDisk == snapshot \ {leaving} \subseteq disk

\* While a deletion is under way the dialog is open and shows its paths.
DialogShowsWhatIsDeleted == Deleting => confirmOpen /\ deleteSnapshot = deletion.paths

\* The dialog of the request under way is open and names the path.
DialogNames(p) == Deleting /\ confirmOpen /\ p \in deleteSnapshot

\* A file leaves the directory only by a request that was sent for it: the one
\* under way, whose dialog is still open and names it, or one that the page has
\* lost, each of which removes it once; and what a lost request may still do was
\* named by its dialog when it was lost.  This is so whatever was selected,
\* filtered, refreshed or closed since the dialog asked.
OnlyConfirmedAreDeleted ==
    [][/\ \A p \in disk \ disk' : DialogNames(p) \/ abandoned'[p] = abandoned[p] - 1
       /\ \A p \in Paths : abandoned'[p] > abandoned[p] => DialogNames(p)]_libraryVars

\* The list shown, once fetched and not older than an invalidation.
Settled == /\ HasData(lists[filter]) /\ ~Fetching(lists[filter]) /\ ~lists[filter].stale
           /\ filter \notin outdated

\* A path whose deletion was confirmed to the page is not on the page once the
\* list has settled.
DeletedAreGone == Settled => Shown \cap gone = {}

\* A file that a refresh has found is on the page once the list has settled.
RefreshShowsItsFiles == Settled => due \cap Matches[filter] \subseteq Shown

\* The cached list of the service names no deleted file, and the page, once
\* settled, shows none and shows what a refresh has found.
MigrationListIsTrue == SnapshotIsOnDisk /\ DeletedAreGone /\ RefreshShowsItsFiles

=============================================================================
