--------------------------- MODULE LibraryHistory ---------------------------
(***************************************************************************)
(* The way back to the image library: the scroll positions the library     *)
(* remembers per history entry (web/src/features/images/                   *)
(* image-list-page.tsx) and the return of the detail page after its image  *)
(* was deleted (image-detail-page.tsx).                                    *)
(*                                                                         *)
(* The browser's history moves first and React commits the page later; an  *)
(* answer may arrive in between.  The layout effects of a commit or of new *)
(* list data are part of that step.                                        *)
(***************************************************************************)
EXTENDS Naturals, Sequences, SequencesExt

CONSTANTS
    MaxEntries,   \* bound: history entries made in one behaviour
    ScrollLimit,  \* remembered scroll positions (20 in the code)
    TotalImages,  \* images on the server at first; pages hold one image
    None          \* no history entry

\* What an instance must satisfy.
HistoryAssumption ==
    /\ MaxEntries \in Nat \ {0} /\ ScrollLimit \in Nat \ {0} /\ TotalImages \in Nat
    /\ None \notin 1..MaxEntries

VARIABLES
    history,          \* the entries, [key, page, fromImageList]
    index,            \* the current one, which the address bar shows
    keys,             \* keys given so far
    committed,        \* the entry whose page React has committed
    currentEntry,     \* the ref of the mounted detail page
    deletion,         \* key of a detail page's entry -> state of its deletion
    scrollPositions,  \* oldest first, [key, count]
    listQuery,        \* the list query: its status, the images loaded, whether
                      \* more follow, whether the next page is being fetched
    total,            \* images on the server
    popped            \* ghost: the browser has moved in the history since the
                      \* last commit

historyVars == <<history, index, keys, committed, currentEntry, deletion, scrollPositions,
                 listQuery, total, popped>>
navVars == <<history, index, keys, committed, currentEntry, popped>>

Keys == 1..MaxEntries
Entries == [key : Keys, page : {"list", "detail"}, fromImageList : BOOLEAN]
Here == history[index]
ShownPage == committed.page
Remembered == {p.key : p \in ToSet(scrollPositions)}
Least(m, n) == IF m < n THEN m ELSE n
Unloaded == [status |-> "pending", loaded |-> 0, next |-> FALSE, fetching |-> FALSE]

HistoryTypeOK ==
    /\ history \in Seq(Entries) /\ index \in 1..Len(history)
    /\ keys \in Keys
    /\ committed \in Entries
    /\ currentEntry \in Keys \cup {None}
    /\ deletion \in [Keys -> {"none", "sent", "refreshing", "done"}]
    /\ scrollPositions \in Seq([key : Keys, count : 0..TotalImages])
    /\ Len(scrollPositions) <= ScrollLimit
    /\ \A i, j \in 1..Len(scrollPositions) :
          scrollPositions[i].key = scrollPositions[j].key => i = j
    /\ listQuery \in [status : {"pending", "success", "error"}, loaded : 0..TotalImages,
                 next : BOOLEAN, fetching : BOOLEAN]
    /\ total \in 0..TotalImages
    /\ popped \in BOOLEAN

\* The application is opened on the library or on the address of an image.
HistoryInit ==
    /\ \E p \in {"list", "detail"} :
          /\ history = <<[key |-> 1, page |-> p, fromImageList |-> FALSE]>>
          /\ currentEntry = IF p = "detail" THEN 1 ELSE None
    /\ index = 1 /\ keys = 1
    /\ committed = history[1]
    /\ deletion = [k \in Keys |-> "none"]
    /\ scrollPositions = <<>>
    /\ listQuery = Unloaded
    /\ total = TotalImages
    /\ popped = FALSE

-----------------------------------------------------------------------------
(* Scroll positions.                                                       *)

PlaceOf(k) == CHOOSE n \in 1..Len(scrollPositions) : scrollPositions[n].key = k

\* delete of the map: the others keep their order.
Without(k) ==
    IF k \in Remembered THEN RemoveAt(scrollPositions, PlaceOf(k)) ELSE scrollPositions

\* rememberScroll: the newest position is last, and the oldest one goes.
rememberScroll(k, count) ==
    LET kept == Append(Without(k), [key |-> k, count |-> count])
    IN  scrollPositions' = IF Len(kept) > ScrollLimit THEN Tail(kept) ELSE kept

\* The layout effect of the library on entry e with list l: missing pages
\* are fetched one after the other while they succeed; then the window is
\* scrolled and the position is forgotten.
Restore(l, e) ==
    IF e.page # "list" \/ l.status # "success" \/ e.key \notin Remembered
    THEN listQuery' = l /\ UNCHANGED scrollPositions
    ELSE IF l.loaded < scrollPositions[PlaceOf(e.key)].count /\ l.next
    THEN listQuery' = [l EXCEPT !.fetching = TRUE] /\ UNCHANGED scrollPositions
    ELSE listQuery' = l /\ scrollPositions' = Without(e.key)

\* The list fetched again: as many pages as before, if so many are left.
ListRefetched ==
    LET n == Least(IF listQuery.loaded = 0 THEN 1 ELSE listQuery.loaded, total)
    IN  [status |-> "success", loaded |-> n, next |-> n < total, fetching |-> FALSE]

ListLoads ==
    /\ ShownPage = "list" /\ listQuery.status = "pending"
    /\ \/ Restore(ListRefetched, committed)
       \/ Restore([Unloaded EXCEPT !.status = "error"], committed)
    /\ UNCHANGED <<navVars, deletion, total>>

\* The retry button of a list that failed.
RetryLoad ==
    /\ ShownPage = "list" /\ listQuery.status = "error" /\ ~listQuery.fetching
    /\ Restore(ListRefetched, committed)
    /\ UNCHANGED <<navVars, deletion, total>>

\* fetchNextPage from the load more button.
fetchNextPage ==
    /\ ShownPage = "list" /\ listQuery.next /\ ~listQuery.fetching
    /\ listQuery' = [listQuery EXCEPT !.fetching = TRUE]
    /\ UNCHANGED <<navVars, deletion, scrollPositions, total>>

\* The next page arrives, or fails.  Images may have been deleted meanwhile.
PageArrives ==
    /\ listQuery.fetching
    /\ \/ Restore([status |-> "success", loaded |-> Least(listQuery.loaded + 1, TotalImages),
                    next |-> listQuery.loaded + 1 < total, fetching |-> FALSE], committed)
       \/ Restore([listQuery EXCEPT !.fetching = FALSE, !.status = "error"], committed)
    /\ UNCHANGED <<navVars, deletion, total>>

\* The cache drops a list no page has used for its garbage collection time.
ListCollected ==
    /\ ShownPage = "detail" /\ Here.page = "detail"
    /\ listQuery.status # "pending" /\ ~listQuery.fetching
    /\ listQuery' = Unloaded
    /\ UNCHANGED <<navVars, deletion, scrollPositions, total>>

-----------------------------------------------------------------------------
(* Navigation.                                                             *)

Push(page, fromList) ==
    /\ keys < MaxEntries
    /\ keys' = keys + 1
    /\ history' = Append(SubSeq(history, 1, index),
                         [key |-> keys + 1, page |-> page, fromImageList |-> fromList])
    /\ index' = index + 1
    /\ UNCHANGED <<committed, popped>>

\* A card's link: the library remembers where it is.
OpenImage ==
    /\ ShownPage = "list" /\ listQuery.loaded > 0 /\ Here = committed
    /\ rememberScroll(committed.key, listQuery.loaded)
    /\ Push("detail", TRUE)
    /\ UNCHANGED <<currentEntry, deletion, listQuery, total>>

\* The same click with a modifier opens another tab: this page stays.
OpenInNewTab ==
    /\ ShownPage = "list" /\ listQuery.loaded > 0
    /\ rememberScroll(committed.key, listQuery.loaded)
    /\ UNCHANGED <<navVars, deletion, listQuery, total>>

\* The search dialog, which a shortcut opens on any page, goes to the list.
SearchImages ==
    /\ Push("list", FALSE)
    /\ UNCHANGED <<currentEntry, deletion, scrollPositions, listQuery, total>>

\* The browser moves in the history; a mounted detail page hears popstate.
Pop(i) ==
    /\ i \in 1..Len(history) /\ i # index
    /\ index' = i
    /\ currentEntry' = None
    /\ popped' = TRUE
    /\ UNCHANGED <<history, keys, committed>>

\* BROKEN, for mutation: the detail page does not listen to popstate.
UserPopsUnheard ==
    /\ \E i \in {index - 1, index + 1} :
          i \in 1..Len(history) /\ index' = i
    /\ popped' = TRUE
    /\ UNCHANGED <<history, keys, committed, currentEntry, deletion, scrollPositions, listQuery, total>>

UserPops ==
    /\ \E i \in {index - 1, index + 1} : Pop(i)
    /\ UNCHANGED <<deletion, scrollPositions, listQuery, total>>

\* returnToList: the back button of the detail page.
returnToList ==
    /\ ShownPage = "detail" /\ Here = committed
    /\ IF committed.fromImageList THEN Pop(index - 1)
       ELSE Push("list", FALSE) /\ UNCHANGED currentEntry
    /\ UNCHANGED <<deletion, scrollPositions, listQuery, total>>

\* BROKEN, for mutation: a library that stays mounted does not look for the
\* position of its new entry.
CommitSameLibrary ==
    /\ Here # committed
    /\ committed' = Here
    /\ currentEntry' = IF Here.page = "detail" THEN Here.key ELSE None
    /\ popped' = FALSE
    /\ IF ShownPage = "list" THEN UNCHANGED <<listQuery, scrollPositions>>
       ELSE Restore(listQuery, Here)
    /\ UNCHANGED <<history, index, keys, deletion, total>>

\* React commits the page of the current entry: the effects of the old page
\* are cleaned up and those of the new one run.
Commit ==
    /\ Here # committed
    /\ committed' = Here
    /\ currentEntry' = IF Here.page = "detail" THEN Here.key ELSE None
    /\ popped' = FALSE
    /\ Restore(listQuery, Here)
    /\ UNCHANGED <<history, index, keys, deletion, total>>

-----------------------------------------------------------------------------
(* Deleting the image of a detail page.                                    *)

ConfirmDeletion ==
    /\ ShownPage = "detail"
    /\ deletion[committed.key] = "none"
    /\ deletion' = [deletion EXCEPT ![committed.key] = "sent"]
    /\ UNCHANGED <<navVars, scrollPositions, listQuery, total>>

\* The answer: the cached lists are invalidated and fetched again.
DeletionAnswered(k) ==
    /\ deletion[k] = "sent"
    /\ \/ /\ total > 0
          /\ deletion' = [deletion EXCEPT ![k] = "refreshing"]
          /\ total' = total - 1
       \/ deletion' = [deletion EXCEPT ![k] = "none"] /\ UNCHANGED total
    /\ UNCHANGED <<navVars, scrollPositions, listQuery>>

\* The refresh is done: the page returns to the list, unless the browser has
\* moved in the history or another page was committed.
DeletionReturns(k) ==
    /\ deletion[k] = "refreshing"
    /\ deletion' = [deletion EXCEPT ![k] = "done"]
    /\ IF listQuery.status = "pending" THEN UNCHANGED <<listQuery, scrollPositions>>
       ELSE \/ Restore(ListRefetched, committed)
            \/ Restore([listQuery EXCEPT !.status = "error", !.fetching = FALSE], committed)
    /\ IF currentEntry # k THEN UNCHANGED navVars
       ELSE IF committed.fromImageList THEN Pop(index - 1)
       ELSE /\ keys < MaxEntries
            /\ keys' = keys + 1
            /\ history' = [history EXCEPT ![index] =
                  [key |-> keys + 1, page |-> "list", fromImageList |-> FALSE]]
            /\ UNCHANGED <<index, committed, currentEntry, popped>>
    /\ UNCHANGED total

-----------------------------------------------------------------------------
HistoryNext ==
    \/ ListLoads
    \/ fetchNextPage
    \/ PageArrives
    \/ RetryLoad
    \/ ListCollected
    \/ OpenImage
    \/ OpenInNewTab
    \/ SearchImages
    \/ UserPops
    \/ returnToList
    \/ Commit
    \/ ConfirmDeletion
    \/ \E k \in Keys : DeletionAnswered(k) \/ DeletionReturns(k)

HistorySpec == HistoryInit /\ [][HistoryNext]_historyVars

-----------------------------------------------------------------------------
(* Properties.                                                             *)

\* The deletion of entry k ends and moves the user.
Returned(k) == /\ deletion[k] = "refreshing" /\ deletion'[k] = "done"
               /\ history' # history \/ index' # index

\* A deletion that ends late moves the user only from the page of its image
\* while that is shown, and then to the library (image-detail-page.tsx): not
\* after any move in the history, even one that React has not committed.  What
\* was pushed on top of the page and is not committed yet does not stop the
\* return, which undoes or replaces it.
DeletionReturnsToLibrary ==
    [][\A k \in Keys : Returned(k) =>
          /\ committed.key = k /\ ~popped
          /\ IF Here.key = k THEN history'[index'].page = "list"
             ELSE index = Len(history) /\ \E i \in 1..index : history[i].key = k]_historyVars

\* A library shown with a remembered position that lies further than what
\* is loaded is fetching the pages it lacks, however it was returned to and
\* whatever was deleted meanwhile (image-list-page.tsx).
RestorationProceeds ==
    \A p \in ToSet(scrollPositions) :
        p.key = committed.key /\ listQuery.status = "success" /\ p.count > listQuery.loaded /\ listQuery.next
        => listQuery.fetching

=============================================================================
