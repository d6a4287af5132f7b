---------------------------- MODULE ImageGallery ----------------------------
(***************************************************************************)
(* The image library of the web interface (web/src/features/images/        *)
(* image-list-page.tsx), with the visibility button of the detail page     *)
(* (image-detail-page.tsx), which changes the same caches.                 *)
(*                                                                         *)
(* A handler runs to its first await that waits for the network; what      *)
(* interleaves is the user, the requests of the page and their answers,    *)
(* and navigation, which unmounts a page while its requests go on.         *)
(***************************************************************************)
EXTENDS Naturals, FiniteSets, QueryCache

CONSTANTS
    Images,          \* a set of numbers: the order of the library
    Filters,         \* the visibility filters used; "all" shows every image
    PageSize,        \* images per page (24 in the code)
    SelectionLimit,  \* 100 in the code
    MaxMutations     \* bound: requests that change images

\* What an instance must satisfy.
GalleryAssumption ==
    /\ Images \subseteq Nat \ {0} /\ IsFiniteSet(Images)
    /\ "all" \in Filters /\ Filters \subseteq {"all", "public", "private"}
    /\ PageSize \in Nat \ {0} /\ SelectionLimit \in Nat /\ MaxMutations \in Nat
    /\ NoData \notin {"public", "private"}

VARIABLES
    server,     \* image -> its visibility on the server, or "gone"
    page,       \* ListPage, or the image whose detail page is mounted
    filter,     \* the filter in the address
    list,       \* filter -> the query ['images', filter]
    more,       \* filters whose fetch under way is fetchNextPage
    detail,     \* image -> the query ['image', id], its data the visibility
    selected, snapshot, confirmOpen,  \* selection; delete dialog and its images
    mutation,   \* slot -> a request that changes images, mine: this page's
    lastChange, \* ghost: was the last change of the image confirmed to the user
    overtaken,  \* ghost: filters where an older fetch outlived an invalidation
    outlived    \* ghost: images whose detail had such a fetch

galleryVars == <<server, page, filter, list, more, detail, selected, snapshot, confirmOpen,
          mutation, lastChange, overtaken, outlived>>
detailVars == <<detail, outlived>>
cacheVars == <<list, more, overtaken, detailVars>>
pageVars == <<page, filter, selected, snapshot, confirmOpen>>

ListPage == 0
Visibility == {"public", "private"}
Slots == 1..MaxMutations
NoMutation == [kind |-> "none", ids |-> {}, visibility |-> "public", state |-> "idle",
               done |-> {}, mine |-> FALSE]
Settled == [NoMutation EXCEPT !.state = "settled"]
Mutations == [kind : {"none", "visibility", "batch", "delete", "detail"},
              ids : SUBSET Images, visibility : Visibility,
              state : {"idle", "sent", "answered", "failed", "settled"},
              done : SUBSET Images, mine : BOOLEAN]
Lists == [items : [Images -> Visibility \cup {"absent"}], pages : Nat, next : BOOLEAN]

Opposite(v) == IF v = "public" THEN "private" ELSE "public"

\* images: what the cards of the current filter show.
Cards == IF HasData(list[filter]) THEN list[filter].data.items
         ELSE [i \in Images |-> "absent"]
Shown == {i \in Images : Cards[i] # "absent"}
busy == \E s \in Slots : mutation[s].mine
deleting == \E s \in Slots : mutation[s].mine /\ mutation[s].kind = "delete"

GalleryTypeOK ==
    /\ server \in [Images -> Visibility \cup {"gone"}]
    /\ page \in {ListPage} \cup Images
    /\ filter \in Filters
    /\ list \in [Filters -> Queries(Lists)] /\ more \subseteq Filters
    /\ detail \in [Images -> Queries(Visibility)]
    /\ selected \subseteq Images /\ snapshot \subseteq Images
    /\ Cardinality(selected) <= SelectionLimit
    /\ confirmOpen \in BOOLEAN
    /\ mutation \in [Slots -> Mutations]
    /\ lastChange \in [Images -> {"confirmed", "lost"}]
    /\ overtaken \subseteq Filters /\ outlived \subseteq Images

\* The list is opened; some images were deleted long ago.
GalleryInit ==
    /\ server \in [Images -> Visibility \cup {"gone"}]
    /\ page = ListPage /\ filter = "all"
    /\ list = [f \in Filters |-> IF f = "all" THEN Request(EmptyQuery) ELSE EmptyQuery]
    /\ more = {}
    /\ detail = [i \in Images |-> EmptyQuery]
    /\ selected = {} /\ snapshot = {} /\ confirmOpen = FALSE
    /\ mutation = [s \in Slots |-> NoMutation]
    /\ lastChange = [i \in Images |-> "confirmed"]
    /\ overtaken = {} /\ outlived = {}

-----------------------------------------------------------------------------
(* The list query.                                                         *)

\* What the server lists: the first n matching images after `after`.
Matching(f) == {i \in Images : server[i] \in Visibility /\ f \in {"all", server[i]}}
Page(f, after, n) ==
    LET rest == {i \in Matching(f) : i > after}
    IN  {i \in rest : Cardinality({j \in rest : j < i}) < n}
LastOf(items) ==
    LET loaded == {i \in Images : items[i] # "absent"}
    IN  IF loaded = {} THEN 0 ELSE CHOOSE i \in loaded : \A j \in loaded : j <= i

\* A fetch reads the pages loaded so far again; fetchNextPage adds one.
ListAnswer(f) ==
    LET old == list[f].data
        first == IF HasData(list[f]) THEN old.pages ELSE 1
        new == IF f \in more THEN Page(f, LastOf(old.items), PageSize)
               ELSE Page(f, 0, first * PageSize)
        items == [i \in Images |-> IF i \in new THEN server[i]
                                   ELSE IF f \in more THEN old.items[i] ELSE "absent"]
    IN  [items |-> items, pages |-> IF f \in more THEN old.pages + 1 ELSE first,
         next |-> Page(f, LastOf(items), 1) # {}]

\* The list of filter f is used by the mounted page again.
UseList(f) ==
    /\ list' = [list EXCEPT ![f] = Mounted(@)]
    /\ IF list[f].stale /\ ~Fetching(list[f])
       THEN more' = more \ {f} /\ overtaken' = overtaken \ {f}
       ELSE UNCHANGED <<more, overtaken>>

\* invalidateQueries(['images']): every list is stale, the one in use is
\* fetched again.
InvalidateLists(active) ==
    LET kept == {f \in Filters : Fetching(list[f]) /\ (f \notin active \/ Joins(list[f]))}
    IN  /\ list' = [f \in Filters |-> Invalidated(list[f], f \in active)]
        /\ more' = more \ (active \ kept)
        /\ overtaken' = (overtaken \ active) \cup kept

InUse == IF page = ListPage THEN {filter} ELSE {}

\* The effect on the address: another filter is shown and nothing is
\* selected.  The buttons and the form replace the address; the search
\* shortcut and the browser's history work while a dialog is open too.
ChangeFilter(f) ==
    /\ page = ListPage /\ f # filter
    /\ filter' = f
    /\ selected' = {}
    /\ UseList(f)
    /\ UNCHANGED <<server, page, detailVars, snapshot, confirmOpen, mutation, lastChange>>

\* The load more button, and the effect that restores a scroll position.
\* It replaces a fetch under way, even one after an invalidation.
LoadMore ==
    /\ page = ListPage /\ HasData(list[filter]) /\ list[filter].data.next
    /\ filter \notin more
    /\ list' = [list EXCEPT ![filter] = Request(@)]
    /\ more' = more \cup {filter}
    /\ overtaken' = IF list[filter].stale THEN overtaken \cup {filter} ELSE overtaken
    /\ UNCHANGED <<server, pageVars, detailVars, mutation, lastChange>>

\* The retry button, and the refetch when the window gets the focus.
Reload ==
    /\ page = ListPage /\ list[filter].stale /\ ~Fetching(list[filter])
    /\ UseList(filter)
    /\ UNCHANGED <<server, pageVars, detailVars, mutation, lastChange>>

ServeList(f) ==
    /\ list[f].fetch.state = "sent"
    /\ list' = [list EXCEPT ![f] = Answered(@, ListAnswer(f))]
    /\ UNCHANGED <<server, pageVars, more, detailVars, mutation, lastChange, overtaken>>

EndListFetch(f, q) ==
    /\ list' = [list EXCEPT ![f] = q]
    /\ more' = more \ {f}
    /\ UNCHANGED <<server, pageVars, detailVars, mutation, lastChange, overtaken>>

ListArrives(f) == list[f].fetch.state = "answered" /\ EndListFetch(f, Applied(list[f]))
ListFails(f) == list[f].fetch.state = "sent" /\ EndListFetch(f, Failed(list[f]))

-----------------------------------------------------------------------------
(* Selection and the delete dialog.                                        *)

Select(set) ==
    /\ selected' = set
    /\ UNCHANGED <<server, page, filter, snapshot, confirmOpen, cacheVars, mutation, lastChange>>

\* toggleSelected: the checkbox of a card.
toggleSelected(i) ==
    /\ page = ListPage /\ i \in Shown /\ ~busy /\ ~confirmOpen
    /\ IF i \in selected THEN Select(selected \ {i})
       ELSE Cardinality(selected) < SelectionLimit /\ Select(selected \cup {i})

ClearSelection == page = ListPage /\ selected # {} /\ ~busy /\ ~confirmOpen /\ Select({})

\* The delete button: the dialog asks about the images selected now.
OpenDelete ==
    /\ page = ListPage /\ selected # {} /\ ~busy /\ ~confirmOpen
    /\ snapshot' = selected /\ confirmOpen' = TRUE
    /\ UNCHANGED <<server, page, filter, selected, cacheVars, mutation, lastChange>>

\* The dialog is dismissed or canceled, which it refuses while deleting.
CloseDelete ==
    /\ page = ListPage /\ confirmOpen /\ ~deleting
    /\ confirmOpen' = FALSE /\ snapshot' = {}
    /\ UNCHANGED <<server, page, filter, selected, cacheVars, mutation, lastChange>>

-----------------------------------------------------------------------------
(* Requests that change images.                                            *)

Mutate(kind, ids, v) ==
    /\ \E s \in Slots :
          /\ mutation[s] = NoMutation
          /\ \A r \in Slots : r < s => mutation[r] # NoMutation
          /\ mutation' = [mutation EXCEPT ![s] =
                [NoMutation EXCEPT !.kind = kind, !.ids = ids, !.visibility = v,
                                   !.state = "sent", !.mine = TRUE]]
    /\ UNCHANGED <<server, pageVars, cacheVars, lastChange>>

\* The visibility button of a card changes what the card shows.
ChangeVisibility(i) ==
    /\ page = ListPage /\ i \in Shown /\ ~busy /\ ~confirmOpen
    /\ Mutate("visibility", {i}, Opposite(Cards[i]))

BatchVisibility(v) ==
    /\ page = ListPage /\ selected # {} /\ ~busy /\ ~confirmOpen
    /\ Mutate("batch", selected, v)

\* BROKEN, for mutation: the current selection is deleted.
ConfirmDeleteSelected ==
    /\ page = ListPage /\ confirmOpen /\ ~deleting
    /\ Mutate("delete", selected, "public")

\* The dialog was confirmed.
ConfirmDelete ==
    /\ page = ListPage /\ confirmOpen /\ ~deleting
    /\ Mutate("delete", snapshot, "public")

\* The visibility button of the detail page.
DetailVisibility ==
    /\ page \in Images /\ HasData(detail[page]) /\ ~busy
    /\ Mutate("detail", {page}, Opposite(detail[page].data))

\* The server handles request s.  A batch may succeed for some images only;
\* a request for one image fails when it is gone.  The answer may be lost.
ServeMutation(s, done, lost) ==
    LET m == mutation[s] IN
    /\ m.state = "sent"
    /\ done \subseteq {i \in m.ids : server[i] # "gone"}
    /\ m.kind \in {"visibility", "detail"} /\ done = {} => lost
    /\ server' = [i \in Images |-> IF i \notin done THEN server[i]
                                   ELSE IF m.kind = "delete" THEN "gone" ELSE m.visibility]
    /\ mutation' = [mutation EXCEPT ![s].state = IF lost THEN "failed" ELSE "answered",
                                    ![s].done = done]
    /\ UNCHANGED <<pageVars, cacheVars, lastChange>>

\* BROKEN, for mutation: a fetch of the detail under way is kept.
SyncDetailKeepsFetch(q, v, active) ==
    Invalidated(IF HasData(q) THEN WithData(q, v) ELSE q, active)

\* syncDetailVisibility: an older answer is discarded before the confirmed
\* visibility is written to the cached detail, which is then invalidated.
SyncDetail(q, v, active) ==
    LET c == Canceled(q)
    IN  Invalidated(IF HasData(c) THEN WithData(c, v) ELSE c, active)

\* The details of what m has changed: those the library has changed are
\* synchronised, one that its own page has changed is only invalidated.
RefreshDetails(m) ==
    LET synced == IF m.kind \in {"visibility", "batch"} THEN m.done ELSE {}
        marked == IF m.kind = "detail" THEN m.done ELSE {}
        kept == {i \in marked : Fetching(detail[i]) /\ (page # i \/ Joins(detail[i]))}
    IN  /\ detail' = [i \in Images |->
                         IF i \in synced THEN SyncDetail(detail[i], m.visibility, page = i)
                         ELSE IF i \in marked THEN Invalidated(detail[i], page = i) ELSE detail[i]]
        /\ outlived' = (outlived \ (synced \cup marked)) \cup kept

\* onSuccess: the details are refreshed, a batch ends the selection, a
\* deletion closes its dialog, and the lists are invalidated.  It runs also
\* when its page was left; the state it sets is then nobody's.
MutationSucceeds(s) ==
    LET m == mutation[s] IN
    /\ m.state = "answered"
    /\ mutation' = [mutation EXCEPT ![s] = Settled]
    /\ lastChange' = [i \in Images |-> IF i \in m.done THEN "confirmed" ELSE lastChange[i]]
    /\ RefreshDetails(m)
    /\ selected' = IF m.mine /\ m.kind \in {"batch", "delete"} THEN {} ELSE selected
    /\ snapshot' = IF m.mine /\ m.kind = "delete" THEN {} ELSE snapshot
    /\ confirmOpen' = (confirmOpen /\ ~(m.mine /\ m.kind = "delete"))
    /\ InvalidateLists(InUse)
    /\ UNCHANGED <<server, page, filter>>

\* onError: a message, and nothing else.
MutationFails(s) ==
    LET m == mutation[s] IN
    /\ m.state = "failed"
    /\ mutation' = [mutation EXCEPT ![s] = Settled]
    /\ lastChange' = [i \in Images |-> IF i \in m.done THEN "lost" ELSE lastChange[i]]
    /\ UNCHANGED <<server, pageVars, cacheVars>>

-----------------------------------------------------------------------------
(* The detail page and its query.                                          *)

\* A page is left: its state is gone, its requests go on.
Leave ==
    /\ mutation' = [s \in Slots |-> [mutation[s] EXCEPT !.mine = FALSE]]
    /\ selected' = {} /\ snapshot' = {} /\ confirmOpen' = FALSE

\* A card's link, or an entry of the browser's history.
OpenDetail(i) ==
    /\ page = ListPage
    /\ (i \in Shown /\ ~confirmOpen) \/ HasData(detail[i])
    /\ page' = i
    /\ detail' = [detail EXCEPT ![i] = Mounted(@)]
    /\ outlived' = IF detail[i].stale /\ ~Fetching(detail[i]) THEN outlived \ {i} ELSE outlived
    /\ Leave
    /\ UNCHANGED <<server, filter, list, more, overtaken, lastChange>>

ReturnToList ==
    /\ page \in Images
    /\ page' = ListPage
    /\ UseList(filter)
    /\ Leave
    /\ UNCHANGED <<server, filter, detailVars, lastChange>>

ServeDetail(i) ==
    /\ detail[i].fetch.state = "sent"
    /\ detail' = [detail EXCEPT ![i] = IF server[i] = "gone" THEN Failed(@)
                                       ELSE Answered(@, server[i])]
    /\ UNCHANGED <<server, pageVars, list, more, overtaken, outlived, mutation, lastChange>>

DetailArrives(i) ==
    /\ detail[i].fetch.state = "answered"
    /\ detail' = [detail EXCEPT ![i] = Applied(@)]
    /\ UNCHANGED <<server, pageVars, list, more, overtaken, outlived, mutation, lastChange>>

-----------------------------------------------------------------------------
GalleryNext ==
    \/ \E f \in Filters : ChangeFilter(f) \/ ServeList(f) \/ ListArrives(f) \/ ListFails(f)
    \/ LoadMore
    \/ Reload
    \/ \E i \in Images : toggleSelected(i) \/ ChangeVisibility(i)
    \/ ClearSelection
    \/ OpenDelete
    \/ CloseDelete
    \/ ConfirmDelete
    \/ \E v \in Visibility : BatchVisibility(v)
    \/ DetailVisibility
    \/ \E s \in Slots : MutationSucceeds(s) \/ MutationFails(s)
    \/ \E s \in Slots, done \in SUBSET Images, lost \in BOOLEAN : ServeMutation(s, done, lost)
    \/ \E i \in Images : OpenDetail(i) \/ ServeDetail(i) \/ DetailArrives(i)
    \/ ReturnToList

GallerySpec == GalleryInit /\ [][GalleryNext]_galleryVars

-----------------------------------------------------------------------------
(* Properties.                                                             *)

Changing(i) == \E s \in Slots : i \in mutation[s].ids

\* While a deletion is pending its dialog is open and names exactly the
\* images that were sent, whatever happens to the filter, the selection and
\* the list meanwhile.
DialogShowsWhatIsDeleted ==
    \A s \in Slots : mutation[s].mine /\ mutation[s].kind = "delete" =>
        confirmOpen /\ mutation[s].ids = snapshot

\* A page has at most one request that changes images pending: the buttons
\* are disabled while it is busy, and an open dialog hides them.
OneMutationPerPage ==
    \A r, s \in Slots : mutation[r].mine /\ mutation[s].mine => r = s

\* A cached detail that counts as fresh has the server's value once every
\* change of the image, by the library or by its detail page, was confirmed:
\* an older answer never overwrites it; unless an older fetch outlived the
\* invalidation by the detail page (which was left before its change was
\* confirmed).  A change of the library leaves no such fetch.
DetailKeepsConfirmedChange ==
    \A i \in Images \ outlived :
        lastChange[i] # "lost" /\ ~Changing(i) /\ server[i] # "gone"
        /\ HasData(detail[i]) /\ ~detail[i].stale => detail[i].data = server[i]

\* A list that counts as fresh shows no image otherwise than the server has
\* it, once the change was confirmed; unless an older fetch outlived the
\* invalidation (a first one, one of a list out of use, or load more).
ListShowsConfirmedChanges ==
    \A f \in Filters \ overtaken :
        HasData(list[f]) /\ ~list[f].stale =>
            \A i \in Images :
                lastChange[i] # "lost" /\ ~Changing(i) => list[f].data.items[i] \in {"absent", server[i]}

\* A list or a detail page that counts as fresh shows every change of an image
\* that was confirmed to the user, also when answers of older fetches arrive
\* after it (image-list-page.tsx, image-detail-page.tsx), unless an
\* invalidation has left such a fetch under way (overtaken, outlived).
ConfirmedChangesAreShown == ListShowsConfirmedChanges /\ DetailKeepsConfirmedChange

\* While a deletion is pending its dialog is open and names what was sent, and
\* no other change of the page is pending.
DeletionIsAsShown == DialogShowsWhatIsDeleted /\ OneMutationPerPage

=============================================================================
