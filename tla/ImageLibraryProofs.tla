------------------------- MODULE ImageLibraryProofs -------------------------
(***************************************************************************)
(* Safety of the image library: ImageGallery for any finite set of images, *)
(* any page size, limit and number of requests, FilterForm for any sizes,  *)
(* days and time zones, LibraryHistory for a history of any length.        *)
(*                                                                         *)
(* The list and the details: what counts as fresh, or is on its way, is    *)
(* what the server has, except where a change is not confirmed yet; every  *)
(* confirmation makes the caches stale and discards the older answers that *)
(* were on their way, unless a ghost, overtaken or outlived, says that one *)
(* was kept.                                                               *)
(*                                                                         *)
(* The form: a size rounded to bytes, and a day shifted to an instant, are *)
(* found again, so that the form of an address is the form it was made of. *)
(*                                                                         *)
(* The history: every entry has a key of its own, also one that is still   *)
(* shown after it was left, so that a position that is remembered for the  *)
(* library is never one of a detail page; and below an image that was      *)
(* opened from the library lies an entry of the library.                   *)
(***************************************************************************)
EXTENDS ImageGallery, FilterForm, LibraryHistory, FiniteSetTheorems, SequenceTheorems, TLAPS

-----------------------------------------------------------------------------
(* ImageGallery: the queries.                                              *)

\* What becomes of a query of the library.
LEMMA QueryIsAnswered ==
    ASSUME NEW D, NEW q \in Queries(D), NEW v \in D
    PROVE  /\ Answered(q, v) \in Queries(D) /\ Answered(q, v).data = q.data
           /\ Answered(q, v).stale = q.stale /\ Answered(q, v).fetch.state = "answered"
           /\ Answered(q, v).fetch.value = v
BY DEF Queries, FetchStates, Answered

LEMMA QueryIsCanceled ==
    ASSUME NEW D, NEW q \in Queries(D), NEW v \in D
    PROVE  /\ Canceled(q) \in Queries(D) /\ Canceled(q).data = q.data
           /\ Canceled(q).stale = q.stale /\ Canceled(q).fetch.state = "idle"
           /\ WithData(q, v) \in Queries(D) /\ WithData(q, v).data = v
           /\ WithData(q, v).fetch = q.fetch
BY DEF Queries, Idle, FetchStates, Canceled, WithData

LEMMA QueryIsRequested ==
    ASSUME NEW D, NEW q \in Queries(D)
    PROVE  /\ Request(q) \in Queries(D) /\ Request(q).data = q.data
           /\ Request(q).stale = q.stale /\ Request(q).fetch.state = "sent"
BY DEF Queries, FetchStates, Request

LEMMA QueryIsApplied ==
    ASSUME NEW D, NEW q \in Queries(D)
    PROVE  /\ Applied(q) \in Queries(D) /\ Applied(q).data = q.fetch.value
           /\ Applied(q).stale = FALSE /\ Applied(q).fetch.state = "idle"
           /\ Failed(q) \in Queries(D) /\ Failed(q).data = q.data
           /\ Failed(q).stale = TRUE /\ Failed(q).fetch.state = "idle"
BY DEF Queries, Idle, FetchStates, Applied, Failed

LEMMA QueryIsMounted ==
    ASSUME NEW D, NEW q \in Queries(D)
    PROVE  /\ Mounted(q) \in Queries(D)
           /\ Mounted(q).data = q.data /\ Mounted(q).stale = q.stale
           /\ Mounted(q).fetch = q.fetch \/ Mounted(q).fetch.state = "sent"
BY QueryIsRequested DEF Mounted

\* An invalidation replaces the fetch of a query in use, unless it joins it.
LEMMA QueryIsInvalidated ==
    ASSUME NEW D, NEW q \in Queries(D), NEW active \in BOOLEAN
    PROVE  /\ Invalidated(q, active) \in Queries(D)
           /\ Invalidated(q, active).data = q.data /\ Invalidated(q, active).stale = TRUE
           /\ Invalidated(q, active).fetch = IF active /\ ~Joins(q)
                                             THEN Request(q).fetch ELSE q.fetch
<1> DEFINE m == [q EXCEPT !.stale = TRUE]
<1>1. /\ m \in Queries(D) /\ m.data = q.data /\ m.stale = TRUE /\ m.fetch = q.fetch
      /\ Request(m).fetch = Request(q).fetch /\ Request(m) \in Queries(D)
      /\ Request(m).data = q.data /\ Request(m).stale = TRUE
  BY DEF Queries, Request, FetchStates
<1>2. Joins(m) <=> Joins(q)
  BY <1>1 DEF Joins, HasData, Fetching
<1>3. Invalidated(q, active) = IF active THEN (IF Joins(m) THEN m ELSE Request(m)) ELSE m
  BY DEF Invalidated, Refetched
<1> HIDE DEF m
<1>. QED
  BY <1>1, <1>2, <1>3

-----------------------------------------------------------------------------
(* The invariant.                                                          *)

\* A change the server has made, which the page has not been told of yet.
Unconfirmed(i) == \E s \in Slots : i \in mutation[s].done

\* What a list shows of images nobody is changing.
IsCurrent(items) ==
    \A i \in Images :
        lastChange[i] # "lost" /\ ~Unconfirmed(i) => items[i] \in {"absent", server[i]}

\* A query q of a list, whose fetch is fetchNextPage or not, is current or
\* will be fetched again.
ListIsCurrent(q, next) ==
    /\ HasData(q) /\ ~q.stale => IsCurrent(q.data.items)
    /\ q.fetch.state = "answered" => IsCurrent(q.fetch.value.items)
    /\ next => ~q.stale

\* The next page is fetched of a list that has one, and every answer is one.
FetchIsMeant(q, next) ==
    /\ q.fetch.state = "answered" => q.fetch.value \in Lists
    /\ next => HasData(q) /\ Fetching(q)

ListInv ==
    /\ list \in [Filters -> Queries(Lists)] /\ more \subseteq Filters /\ overtaken \subseteq Filters
    /\ \A f \in Filters : FetchIsMeant(list[f], f \in more)
    /\ \A f \in Filters \ overtaken : ListIsCurrent(list[f], f \in more)

\* Every change of the image was confirmed, and it is still there.
Confirmed(i) == lastChange[i] # "lost" /\ ~Unconfirmed(i) /\ server[i] # "gone"

DetailIsCurrent(q, i) ==
    /\ HasData(q) /\ ~q.stale => q.data = server[i]
    /\ q.fetch.state = "answered" => q.fetch.value = server[i]

DetailInv ==
    /\ detail \in [Images -> Queries(Visibility)] /\ outlived \subseteq Images
    /\ \A i \in Images \ outlived : Confirmed(i) => DetailIsCurrent(detail[i], i)

\* A request changes nothing before it is served, and what it deletes is gone.
ServedAs(m) ==
    /\ m.done \subseteq m.ids
    /\ m.state = "sent" => m.done = {} /\ m.kind # "none"
    /\ m.kind = "none" => m.done = {}
    /\ m.kind = "delete" => \A i \in m.done : server[i] = "gone"

WorldInv ==
    /\ server \in [Images -> Visibility \cup {"gone"}]
    /\ mutation \in [Slots -> Mutations]
    /\ lastChange \in [Images -> {"confirmed", "lost"}]
    /\ \A s \in Slots : ServedAs(mutation[s])

\* An open dialog is on the list page, and the only thing pending there may
\* be its own deletion.
DialogIsAlone ==
    confirmOpen => /\ page = ListPage
                   /\ \A s \in Slots : mutation[s].mine => mutation[s].kind = "delete"

PageInv ==
    /\ page \in {ListPage} \cup Images /\ filter \in Filters
    /\ selected \subseteq Images /\ snapshot \subseteq Images
    /\ Cardinality(selected) <= SelectionLimit
    /\ confirmOpen \in BOOLEAN
    /\ DialogIsAlone /\ DialogShowsWhatIsDeleted /\ OneMutationPerPage

GalleryInv == WorldInv /\ ListInv /\ DetailInv /\ PageInv

\* An unused slot and a settled one stand for no request.
LEMMA MutationsAreTyped ==
    /\ NoMutation \in Mutations /\ Settled \in Mutations
    /\ NoMutation.done = {} /\ NoMutation.mine = FALSE /\ NoMutation.ids = {}
    /\ Settled.done = {} /\ Settled.mine = FALSE /\ Settled.ids = {}
    /\ NoMutation.state = "idle" /\ Settled.state = "settled" /\ NoMutation.kind = "none" /\ Settled.kind = "none"
BY DEF NoMutation, Settled, Mutations, Visibility

-----------------------------------------------------------------------------
(* What steps leave as it is.                                              *)

\* Images nobody is changing afterwards were not changed by the step.
WorldStays ==
    \A i \in Images :
        lastChange'[i] # "lost" /\ ~Unconfirmed(i)' =>
            ~Unconfirmed(i) /\ lastChange'[i] = lastChange[i] /\ server'[i] = server[i]

\* Nothing was changed or confirmed.
SameChanges ==
    UNCHANGED <<server, lastChange>> /\ \A i : Unconfirmed(i)' <=> Unconfirmed(i)

LEMMA SameWorld ==
    ASSUME WorldInv, UNCHANGED <<server, mutation, lastChange>>
    PROVE  WorldInv' /\ WorldStays /\ SameChanges
BY DEF WorldInv, WorldStays, SameChanges, ServedAs, Unconfirmed

LEMMA SameLists ==
    ASSUME ListInv, WorldStays, UNCHANGED <<list, more, overtaken>>
    PROVE  ListInv'
<1>1. ASSUME NEW items, IsCurrent(items) PROVE IsCurrent(items)'
  BY <1>1 DEF IsCurrent, WorldStays
<1>2. ASSUME NEW f \in Filters \ overtaken
      PROVE  ListIsCurrent(list[f], f \in more)'
  <2>1. ListIsCurrent(list[f], f \in more)
    BY DEF ListInv
  <2>. QED
    BY <1>1, <2>1 DEF ListIsCurrent, HasData
<1>3. \A f \in Filters : FetchIsMeant(list[f], f \in more)'
  BY DEF ListInv, FetchIsMeant, HasData, Fetching
<1>. QED
  BY <1>2, <1>3 DEF ListInv

LEMMA SameDetails ==
    ASSUME DetailInv, WorldStays, UNCHANGED detailVars
    PROVE  DetailInv'
<1> USE DEF detailVars
<1>1. ASSUME NEW i \in Images \ outlived, Confirmed(i)' PROVE DetailIsCurrent(detail[i], i)'
  <2>1. Confirmed(i) /\ server'[i] = server[i]
    BY <1>1 DEF Confirmed, WorldStays
  <2>. QED
    BY <2>1 DEF DetailInv, DetailIsCurrent, HasData
<1>. QED
  BY <1>1 DEF DetailInv

\* One list becomes q.
LEMMA OneList ==
    ASSUME ListInv, SameChanges,
           NEW f \in Filters, NEW q \in Queries(Lists), list' = [list EXCEPT ![f] = q],
           more' \subseteq Filters, overtaken' \subseteq Filters,
           \A g \in Filters \ {f} : (g \in more' <=> g \in more)
                                    /\ (g \in overtaken' <=> g \in overtaken),
           FetchIsMeant(q, f \in more'), f \notin overtaken' => ListIsCurrent(q, f \in more')
    PROVE  ListInv'
<1>1. list' \in [Filters -> Queries(Lists)] /\ list'[f] = q
      /\ \A g \in Filters \ {f} : list'[g] = list[g]
  BY DEF ListInv
<1>2. ASSUME NEW items PROVE IsCurrent(items)' <=> IsCurrent(items)
  BY DEF IsCurrent, SameChanges
<1>3. ASSUME NEW g \in Filters \ overtaken' PROVE ListIsCurrent(list[g], g \in more)'
  <2>1. CASE g = f
    BY <1>1, <1>2, <2>1 DEF ListIsCurrent, HasData
  <2>2. CASE g # f
    <3>1. ListIsCurrent(list[g], g \in more) /\ (g \in more' <=> g \in more)
      BY <1>3, <2>2 DEF ListInv
    <3>. QED
      BY <1>1, <1>2, <2>2, <3>1 DEF ListIsCurrent, HasData
  <2>. QED
    BY <2>1, <2>2
<1>4. ASSUME NEW g \in Filters PROVE FetchIsMeant(list[g], g \in more)'
  BY <1>1 DEF ListInv, FetchIsMeant, HasData, Fetching
<1>. QED
  BY <1>1, <1>3, <1>4 DEF ListInv

\* One detail becomes q.
LEMMA OneDetail ==
    ASSUME DetailInv, SameChanges,
           NEW i \in Images, NEW q \in Queries(Visibility), detail' = [detail EXCEPT ![i] = q],
           outlived' \subseteq Images,
           \A j \in Images \ {i} : j \in outlived' <=> j \in outlived,
           i \notin outlived' /\ Confirmed(i) => DetailIsCurrent(q, i)
    PROVE  DetailInv'
<1>1. detail' \in [Images -> Queries(Visibility)] /\ detail'[i] = q
      /\ \A j \in Images \ {i} : detail'[j] = detail[j]
  BY DEF DetailInv
<1>2. \A j \in Images : Confirmed(j)' <=> Confirmed(j)
  BY DEF Confirmed, SameChanges
<1>3. ASSUME NEW j \in Images \ outlived', Confirmed(j)' PROVE DetailIsCurrent(detail[j], j)'
  <2>1. DetailIsCurrent(detail'[j], j)
    BY <1>1, <1>2, <1>3 DEF DetailInv
  <2>. QED
    BY <2>1 DEF SameChanges, DetailIsCurrent
<1>. QED
  BY <1>1, <1>3 DEF DetailInv

\* The page and its dialog.
SamePage == UNCHANGED <<page, filter, selected, snapshot, confirmOpen>>

LEMMA PageStays ==
    ASSUME PageInv, SamePage, DOMAIN mutation' = DOMAIN mutation,
           \A s \in Slots : mutation'[s].mine =>
               mutation[s].mine /\ mutation'[s].kind = mutation[s].kind
               /\ mutation'[s].ids = mutation[s].ids
    PROVE  PageInv'
BY DEF PageInv, SamePage, DialogIsAlone, DialogShowsWhatIsDeleted, OneMutationPerPage

-----------------------------------------------------------------------------
(* The lists.                                                              *)

\* The mounted page reads a list again.
LEMMA UseListStep ==
    ASSUME ListInv, SameChanges, WorldStays, NEW f \in Filters, UseList(f)
    PROVE  ListInv'
<1>1. list[f] \in Queries(Lists) /\ more \subseteq Filters /\ overtaken \subseteq Filters
      /\ list \in [Filters -> Queries(Lists)]
  BY DEF ListInv
<1>2. CASE list[f].stale /\ ~Fetching(list[f])
  <2> DEFINE q == Request(list[f])
  <2>1. list' = [list EXCEPT ![f] = q] /\ more' = more \ {f} /\ overtaken' = overtaken \ {f}
    BY <1>2 DEF UseList, Mounted
  <2>2. q \in Queries(Lists) /\ q.stale = list[f].stale /\ q.fetch.state = "sent"
    BY <1>1, QueryIsRequested
  <2> HIDE DEF q
  <2>3. FetchIsMeant(q, f \in more') /\ ListIsCurrent(q, f \in more')
    BY <1>2, <2>1, <2>2 DEF FetchIsMeant, ListIsCurrent
  <2>. QED
    BY <1>1, <2>1, <2>2, <2>3, OneList
<1>3. CASE ~(list[f].stale /\ ~Fetching(list[f]))
  <2>1. list' = list /\ UNCHANGED <<more, overtaken>>
    BY <1>1, <1>3 DEF UseList, Mounted
  <2>. QED
    BY <2>1, SameLists
<1>. QED
  BY <1>2, <1>3

LEMMA LoadMoreStep ==
    ASSUME WorldInv, ListInv, PageInv, LoadMore
    PROVE  ListInv'
<1> DEFINE f == filter
           q == Request(list[f])
<1>1. /\ f \in Filters /\ HasData(list[f]) /\ list' = [list EXCEPT ![f] = q]
      /\ more' = more \cup {f}
      /\ overtaken' = IF list[f].stale THEN overtaken \cup {f} ELSE overtaken
      /\ UNCHANGED <<server, mutation, lastChange>>
  BY DEF LoadMore, PageInv
<1>2. list[f] \in Queries(Lists) /\ more \subseteq Filters /\ overtaken \subseteq Filters
  BY <1>1 DEF ListInv
<1>3. q \in Queries(Lists) /\ q.data = list[f].data /\ q.stale = list[f].stale
      /\ q.fetch.state = "sent"
  BY <1>2, QueryIsRequested
<1> HIDE DEF q, f
<1>4. FetchIsMeant(q, f \in more')
  BY <1>1, <1>3 DEF FetchIsMeant, HasData, Fetching
<1>5. ASSUME f \notin overtaken' PROVE ListIsCurrent(q, f \in more')
  <2>1. f \notin overtaken /\ ~list[f].stale
    BY <1>1, <1>5
  <2>2. ListIsCurrent(list[f], f \in more)
    BY <1>1, <2>1 DEF ListInv
  <2>. QED
    BY <1>3, <2>1, <2>2 DEF ListIsCurrent, HasData
<1>. QED
  BY <1>1, <1>2, <1>3, <1>4, <1>5, SameWorld, OneList

\* What the server lists now is current, and so is what the list had already,
\* when only the next page was asked for.
LEMMA AnswerIsCurrent ==
    ASSUME WorldInv, ListInv, NEW f \in Filters
    PROVE  /\ ListAnswer(f) \in Lists
           /\ f \notin overtaken => IsCurrent(ListAnswer(f).items)
<1> DEFINE old == list[f].data
           first == IF HasData(list[f]) THEN old.pages ELSE 1
           new == IF f \in more THEN Page(f, LastOf(old.items), PageSize)
                  ELSE Page(f, 0, first * PageSize)
           items == [i \in Images |-> IF i \in new THEN server[i]
                                      ELSE IF f \in more THEN old.items[i] ELSE "absent"]
           pages == IF f \in more THEN old.pages + 1 ELSE first
           next == Page(f, LastOf(items), 1) # {}
<1>1. ListAnswer(f) = [items |-> items, pages |-> pages, next |-> next]
  BY DEF ListAnswer
<1>2. new \subseteq Matching(f)
  BY DEF Page
<1>3. \A i \in new : i \in Images /\ server[i] \in Visibility
  BY <1>2 DEF Matching
<1>4. HasData(list[f]) => old \in Lists
  BY DEF ListInv, Queries, HasData
<1>5. HasData(list[f]) => old.pages \in Nat /\ old.items \in [Images -> Visibility \cup {"absent"}]
  BY <1>4 DEF Lists
<1>6. f \in more => HasData(list[f])
  BY DEF ListInv, FetchIsMeant
<1>7. next \in BOOLEAN
  OBVIOUS
<1>8. f \notin overtaken /\ f \in more => IsCurrent(old.items)
  <2>1. SUFFICES ASSUME f \notin overtaken, f \in more PROVE IsCurrent(old.items)
    OBVIOUS
  <2>2. ListIsCurrent(list[f], TRUE)
    BY <2>1 DEF ListInv
  <2>. QED
    BY <1>6, <2>1, <2>2 DEF ListIsCurrent
<1> HIDE DEF old, new, next
<1>9. pages \in Nat
  BY <1>5, <1>6
<1>10. items \in [Images -> Visibility \cup {"absent"}]
  BY <1>3, <1>5, <1>6
<1>11. f \notin overtaken => IsCurrent(items)
  BY <1>8 DEF IsCurrent
<1> HIDE DEF items, pages
<1>. QED
  BY <1>1, <1>7, <1>9, <1>10, <1>11 DEF Lists

LEMMA ServeListStep ==
    ASSUME WorldInv, ListInv, NEW f \in Filters, ServeList(f)
    PROVE  ListInv'
<1> DEFINE q == Answered(list[f], ListAnswer(f))
<1>1. /\ list[f].fetch.state = "sent" /\ list' = [list EXCEPT ![f] = q]
      /\ UNCHANGED <<server, mutation, lastChange, more, overtaken>>
  BY DEF ServeList
<1>2. list[f] \in Queries(Lists) /\ more \subseteq Filters /\ overtaken \subseteq Filters
      /\ FetchIsMeant(list[f], f \in more)
  BY DEF ListInv
<1>3. ListAnswer(f) \in Lists /\ (f \notin overtaken => IsCurrent(ListAnswer(f).items))
  BY AnswerIsCurrent
<1>4. /\ q \in Queries(Lists) /\ q.data = list[f].data /\ q.stale = list[f].stale
      /\ q.fetch.state = "answered" /\ q.fetch.value = ListAnswer(f)
  BY <1>2, <1>3, QueryIsAnswered
<1> HIDE DEF q
<1>5. FetchIsMeant(q, f \in more')
  BY <1>1, <1>2, <1>3, <1>4 DEF FetchIsMeant, HasData, Fetching
<1>6. ASSUME f \notin overtaken' PROVE ListIsCurrent(q, f \in more')
  <2>1. ListIsCurrent(list[f], f \in more)
    BY <1>1, <1>6 DEF ListInv
  <2>. QED
    BY <1>1, <1>3, <1>4, <1>6, <2>1 DEF ListIsCurrent, HasData
<1>. QED
  BY <1>1, <1>2, <1>4, <1>5, <1>6, SameWorld, OneList

LEMMA ListFetchEnds ==
    ASSUME WorldInv, ListInv, NEW f \in Filters, ListArrives(f) \/ ListFails(f)
    PROVE  ListInv'
<1>1. list[f] \in Queries(Lists) /\ more \subseteq Filters /\ overtaken \subseteq Filters
  BY DEF ListInv
<1>2. \E q \in Queries(Lists) :
         /\ EndListFetch(f, q) /\ q.fetch.state = "idle"
         /\ q.stale \/ (q.data = list[f].fetch.value /\ list[f].fetch.state = "answered")
  BY <1>1, QueryIsApplied DEF ListArrives, ListFails
<1>3. PICK q \in Queries(Lists) :
         /\ EndListFetch(f, q) /\ q.fetch.state = "idle"
         /\ q.stale \/ (q.data = list[f].fetch.value /\ list[f].fetch.state = "answered")
  BY <1>2
<1>4. /\ list' = [list EXCEPT ![f] = q] /\ more' = more \ {f}
      /\ UNCHANGED <<server, mutation, lastChange, overtaken>>
  BY <1>3 DEF EndListFetch
<1>5. FetchIsMeant(q, f \in more')
  BY <1>3, <1>4 DEF FetchIsMeant
<1>6. ASSUME f \notin overtaken' PROVE ListIsCurrent(q, f \in more')
  <2>1. ListIsCurrent(list[f], f \in more)
    BY <1>4, <1>6 DEF ListInv
  <2>. QED
    BY <1>3, <1>4, <2>1 DEF ListIsCurrent
<1>. QED
  BY <1>1, <1>3, <1>4, <1>5, <1>6, SameWorld, OneList

-----------------------------------------------------------------------------
(* Requests that change images.                                            *)

\* One request becomes m.
LEMMA OneMutation ==
    ASSUME WorldInv, NEW s \in Slots, NEW m \in Mutations, mutation' = [mutation EXCEPT ![s] = m]
    PROVE  /\ mutation' \in [Slots -> Mutations] /\ mutation'[s] = m
           /\ \A r \in Slots \ {s} : mutation'[r] = mutation[r]
           /\ \A i : Unconfirmed(i)' <=> i \in m.done \/ \E r \in Slots \ {s} : i \in mutation[r].done
BY DEF WorldInv, Unconfirmed

\* Nothing is done by a new request.  It is the page's only one, and if it
\* deletes, the dialog shows what.
LEMMA MutateStep ==
    ASSUME GalleryInv, NEW kind \in {"visibility", "batch", "delete", "detail"},
           NEW ids \in SUBSET Images, NEW v \in Visibility, Mutate(kind, ids, v), ~busy,
           IF kind = "delete" THEN confirmOpen /\ ids = snapshot ELSE ~confirmOpen
    PROVE  GalleryInv'
<1>1. WorldInv /\ ListInv /\ DetailInv /\ PageInv
  BY DEF GalleryInv
<1> DEFINE m == [NoMutation EXCEPT !.kind = kind, !.ids = ids, !.visibility = v,
                                   !.state = "sent", !.mine = TRUE]
<1>2. /\ m \in Mutations /\ m.kind = kind /\ m.ids = ids /\ m.done = {} /\ m.mine /\ kind # "none"
  BY DEF NoMutation, Mutations, Visibility
<1>3. PICK s \in Slots : mutation[s] = NoMutation /\ mutation' = [mutation EXCEPT ![s] = m]
  BY DEF Mutate
<1>4. UNCHANGED <<server, lastChange>> /\ SamePage /\ UNCHANGED <<list, more, overtaken, detailVars>>
  BY DEF Mutate, pageVars, cacheVars, SamePage
<1> HIDE DEF m
<1>5. /\ mutation' \in [Slots -> Mutations] /\ mutation'[s] = m
      /\ \A r \in Slots \ {s} : mutation'[r] = mutation[r]
      /\ \A i : Unconfirmed(i)' <=> i \in m.done \/ \E r \in Slots \ {s} : i \in mutation[r].done
  BY <1>1, <1>2, <1>3, OneMutation
<1>6. WorldInv'
  <2>1. ASSUME NEW r \in Slots PROVE ServedAs(mutation[r])'
    <3>1. ServedAs(mutation[r])
      BY <1>1 DEF WorldInv
    <3>. QED
      BY <1>2, <1>4, <1>5, <3>1 DEF ServedAs
  <2>. QED
    BY <1>1, <1>4, <1>5, <2>1 DEF WorldInv
<1>7. WorldStays
  <2>1. \A i : Unconfirmed(i) => Unconfirmed(i)'
    BY <1>3, <1>5, MutationsAreTyped DEF Unconfirmed
  <2>. QED
    BY <1>4, <2>1 DEF WorldStays
<1>8. PageInv'
  <2>1. \A r \in Slots : mutation'[r].mine => r = s
    BY <1>5 DEF busy
  <2>2. OneMutationPerPage'
    BY <2>1 DEF OneMutationPerPage
  <2>3. DialogShowsWhatIsDeleted'
    BY <1>2, <1>4, <1>5, <2>1 DEF DialogShowsWhatIsDeleted, SamePage
  <2>4. DialogIsAlone'
    BY <1>1, <1>2, <1>4, <1>5, <2>1 DEF DialogIsAlone, PageInv, SamePage
  <2>. QED
    BY <1>1, <1>4, <2>2, <2>3, <2>4 DEF PageInv, SamePage
<1>. QED
  BY <1>1, <1>4, <1>6, <1>7, <1>8, SameLists, SameDetails DEF GalleryInv

\* What the server does to an image is unconfirmed from now on.
LEMMA ServeMutationStep ==
    ASSUME GalleryInv, NEW s \in Slots, NEW done \in SUBSET Images, NEW lost \in BOOLEAN,
           ServeMutation(s, done, lost)
    PROVE  GalleryInv'
<1>1. WorldInv /\ ListInv /\ DetailInv /\ PageInv
  BY DEF GalleryInv
<1> DEFINE old == mutation[s]
           m == [old EXCEPT !.state = IF lost THEN "failed" ELSE "answered", !.done = done]
<1>2. /\ old.state = "sent" /\ done \subseteq {i \in old.ids : server[i] # "gone"}
      /\ server' = [i \in Images |-> IF i \notin done THEN server[i]
                                     ELSE IF old.kind = "delete" THEN "gone" ELSE old.visibility]
      /\ UNCHANGED lastChange /\ SamePage /\ UNCHANGED <<list, more, overtaken, detailVars>>
  BY DEF ServeMutation, pageVars, cacheVars, SamePage
<1>3. old \in Mutations /\ old.visibility \in Visibility /\ old.done = {} /\ old.kind # "none"
  BY <1>1, <1>2 DEF WorldInv, ServedAs, Mutations
<1>4. mutation' = [mutation EXCEPT ![s] = m]
  BY <1>1 DEF ServeMutation, WorldInv, Mutations
<1>5. /\ m \in Mutations /\ m.kind = old.kind /\ m.ids = old.ids /\ m.done = done
      /\ m.mine = old.mine /\ m.state # "sent"
  BY <1>3 DEF Mutations
<1> HIDE DEF m
<1>6. /\ mutation' \in [Slots -> Mutations] /\ mutation'[s] = m
      /\ \A r \in Slots \ {s} : mutation'[r] = mutation[r]
      /\ \A i : Unconfirmed(i)' <=> i \in m.done \/ \E r \in Slots \ {s} : i \in mutation[r].done
  BY <1>1, <1>4, <1>5, OneMutation
<1>7. server' \in [Images -> Visibility \cup {"gone"}]
      /\ \A i \in Images : server[i] = "gone" => server'[i] = "gone"
  BY <1>1, <1>2, <1>3 DEF WorldInv
<1>8. ServedAs(mutation[s])'
  <2>1. old.kind = "delete" => \A i \in done : server'[i] = "gone"
    BY <1>2
  <2>2. mutation'[s] = m /\ done \subseteq old.ids
    BY <1>2, <1>6
  <2>. QED
    BY <1>3, <1>5, <2>1, <2>2 DEF ServedAs
<1>9. ASSUME NEW r \in Slots \ {s} PROVE ServedAs(mutation[r])'
  <2>1. ServedAs(mutation[r]) /\ mutation[r].done \subseteq Images
    BY <1>1 DEF WorldInv, Mutations
  <2>. QED
    BY <1>6, <1>7, <2>1 DEF ServedAs
<1>10. WorldInv'
  BY <1>1, <1>2, <1>6, <1>7, <1>8, <1>9 DEF WorldInv
<1>11. WorldStays
  <2>1. \A i : Unconfirmed(i) \/ i \in done => Unconfirmed(i)'
    BY <1>3, <1>5, <1>6 DEF Unconfirmed
  <2>. QED
    BY <1>2, <2>1 DEF WorldStays
<1>12. PageInv'
  <2>1. \A r \in Slots : mutation'[r].mine =>
           mutation[r].mine /\ mutation'[r].kind = mutation[r].kind /\ mutation'[r].ids = mutation[r].ids
    BY <1>5, <1>6
  <2>2. DOMAIN mutation' = DOMAIN mutation
    BY <1>1, <1>6 DEF WorldInv
  <2>. QED
    BY <1>1, <1>2, <2>1, <2>2, PageStays
<1>. QED
  BY <1>1, <1>2, <1>10, <1>11, <1>12, SameLists, SameDetails DEF GalleryInv

\* A request is over.
LEMMA Settles ==
    ASSUME WorldInv, NEW s \in Slots, mutation' = [mutation EXCEPT ![s] = Settled],
           UNCHANGED server, lastChange' \in [Images -> {"confirmed", "lost"}]
    PROVE  /\ WorldInv' /\ DOMAIN mutation' = DOMAIN mutation
           /\ mutation'[s] = Settled /\ \A r \in Slots \ {s} : mutation'[r] = mutation[r]
           /\ \A i : Unconfirmed(i)' => Unconfirmed(i)
           /\ \A i : Unconfirmed(i) /\ i \notin mutation[s].done => Unconfirmed(i)'
<1>1. /\ mutation' \in [Slots -> Mutations] /\ mutation'[s] = Settled
      /\ \A r \in Slots \ {s} : mutation'[r] = mutation[r]
      /\ \A i : Unconfirmed(i)' <=> i \in Settled.done \/ \E r \in Slots \ {s} : i \in mutation[r].done
  BY MutationsAreTyped, OneMutation
<1>2. \A i : Unconfirmed(i)' <=> \E r \in Slots \ {s} : i \in mutation[r].done
  BY <1>1, MutationsAreTyped
<1>3. ASSUME NEW r \in Slots PROVE ServedAs(mutation[r])'
  BY <1>1, MutationsAreTyped DEF WorldInv, ServedAs
<1>4. WorldInv' /\ DOMAIN mutation' = DOMAIN mutation
  BY <1>1, <1>3 DEF WorldInv
<1>. QED
  BY <1>1, <1>2, <1>4 DEF Unconfirmed

LEMMA MutationFailsStep ==
    ASSUME GalleryInv, NEW s \in Slots, MutationFails(s)
    PROVE  GalleryInv'
<1>1. WorldInv /\ ListInv /\ DetailInv /\ PageInv
  BY DEF GalleryInv
<1>2. /\ mutation' = [mutation EXCEPT ![s] = Settled]
      /\ lastChange' = [i \in Images |-> IF i \in mutation[s].done THEN "lost" ELSE lastChange[i]]
      /\ UNCHANGED server /\ SamePage /\ UNCHANGED <<list, more, overtaken, detailVars>>
  BY DEF MutationFails, pageVars, cacheVars, SamePage
<1>3. lastChange' \in [Images -> {"confirmed", "lost"}]
  BY <1>1, <1>2 DEF WorldInv
<1>4. /\ WorldInv' /\ DOMAIN mutation' = DOMAIN mutation
      /\ mutation'[s] = Settled /\ \A r \in Slots \ {s} : mutation'[r] = mutation[r]
      /\ \A i : Unconfirmed(i) /\ i \notin mutation[s].done => Unconfirmed(i)'
  BY <1>1, <1>2, <1>3, Settles
<1>5. WorldStays
  BY <1>2, <1>4 DEF WorldStays
<1>6. PageInv'
  BY <1>1, <1>2, <1>4, MutationsAreTyped, PageStays
<1>. QED
  BY <1>1, <1>2, <1>4, <1>5, <1>6, SameLists, SameDetails DEF GalleryInv

\* Invalidated lists are stale, and no answer from before is on its way,
\* unless it is known to be.
LEMMA InvalidateStep ==
    ASSUME ListInv, NEW active \in SUBSET Filters, InvalidateLists(active)
    PROVE  ListInv'
<1> DEFINE kept == {f \in Filters : Fetching(list[f]) /\ (f \notin active \/ Joins(list[f]))}
<1>1. /\ list' = [f \in Filters |-> Invalidated(list[f], f \in active)]
      /\ more' = more \ (active \ kept) /\ overtaken' = (overtaken \ active) \cup kept
  BY DEF InvalidateLists
<1>2. \A f \in Filters : f \in kept <=> Fetching(list[f]) /\ (f \notin active \/ Joins(list[f]))
  OBVIOUS
<1>3. kept \subseteq Filters
  OBVIOUS
<1> HIDE DEF kept
<1>4. more \subseteq Filters /\ overtaken \subseteq Filters
  BY DEF ListInv
<1>5. ASSUME NEW f \in Filters
      PROVE  /\ list'[f] \in Queries(Lists) /\ list'[f].data = list[f].data /\ list'[f].stale = TRUE
             /\ list'[f].fetch = IF f \in active /\ ~Joins(list[f])
                                 THEN Request(list[f]).fetch ELSE list[f].fetch
             /\ Request(list[f]).fetch.state = "sent"
  <2>1. list[f] \in Queries(Lists)
    BY DEF ListInv
  <2>2. Request(list[f]).fetch.state = "sent"
    BY <2>1, QueryIsRequested
  <2>3. list'[f] = Invalidated(list[f], f \in active)
    BY <1>1
  <2>4. \A a \in BOOLEAN :
           /\ Invalidated(list[f], a) \in Queries(Lists)
           /\ Invalidated(list[f], a).data = list[f].data /\ Invalidated(list[f], a).stale = TRUE
           /\ Invalidated(list[f], a).fetch = IF a /\ ~Joins(list[f])
                                              THEN Request(list[f]).fetch ELSE list[f].fetch
    BY <2>1, QueryIsInvalidated
  <2>5. CASE f \in active
    <3>1. list'[f] = Invalidated(list[f], TRUE)
      BY <2>3, <2>5 DEF Invalidated
    <3>. QED
      BY <2>2, <2>4, <2>5, <3>1
  <2>6. CASE f \notin active
    <3>1. list'[f] = Invalidated(list[f], FALSE)
      BY <2>3, <2>6 DEF Invalidated
    <3>. QED
      BY <2>2, <2>4, <2>6, <3>1
  <2>. QED
    BY <2>5, <2>6
<1>6. ASSUME NEW f \in Filters PROVE FetchIsMeant(list[f], f \in more)'
  <2>1. FetchIsMeant(list[f], f \in more)
    BY DEF ListInv
  <2>2. f \in more' => f \in more
    BY <1>1
  <2>. QED
    BY <1>5, <2>1, <2>2 DEF FetchIsMeant, HasData, Fetching
<1>7. ASSUME NEW f \in Filters \ overtaken' PROVE ListIsCurrent(list[f], f \in more)'
  <2>1. FetchIsMeant(list[f], f \in more)
    BY DEF ListInv
  <2>2. ~Fetching(list[f]) \/ (f \in active /\ ~Joins(list[f]))
    BY <1>1, <1>2, <1>7
  <2>3. list'[f].stale /\ list'[f].fetch.state # "answered"
    BY <1>5, <2>2 DEF Fetching
  <2>4. f \notin more'
    BY <1>1, <1>2, <1>7, <2>1, <2>2 DEF FetchIsMeant
  <2>. QED
    BY <2>3, <2>4 DEF ListIsCurrent
<1>8. list' \in [Filters -> Queries(Lists)]
  BY <1>1, <1>5
<1>. QED
  BY <1>1, <1>3, <1>4, <1>6, <1>7, <1>8 DEF ListInv

\* A synchronised detail is fetched again, and no older answer of it is on
\* its way.
LEMMA SyncedDetail ==
    ASSUME NEW q \in Queries(Visibility), NEW v \in Visibility, NEW active \in BOOLEAN
    PROVE  /\ SyncDetail(q, v, active) \in Queries(Visibility)
           /\ SyncDetail(q, v, active).stale
           /\ SyncDetail(q, v, active).fetch.state # "answered"
<1> DEFINE c == Canceled(q)
           d == IF HasData(c) THEN WithData(c, v) ELSE c
<1>1. c \in Queries(Visibility) /\ c.fetch.state = "idle"
  BY QueryIsCanceled
<1>2. d \in Queries(Visibility) /\ d.fetch.state = "idle"
  BY <1>1, QueryIsCanceled
<1>3. SyncDetail(q, v, active) = Invalidated(d, active)
  BY DEF SyncDetail
<1> HIDE DEF d
<1>4. Request(d).fetch.state = "sent"
  BY <1>2, QueryIsRequested
<1>5. /\ Invalidated(d, active) \in Queries(Visibility) /\ Invalidated(d, active).stale = TRUE
      /\ Invalidated(d, active).fetch \in {Request(d).fetch, d.fetch}
  BY <1>2, QueryIsInvalidated
<1>. QED
  BY <1>2, <1>3, <1>4, <1>5

\* A detail that was only invalidated is fetched again, unless an older
\* answer may still come.
LEMMA InvalidatedDetail ==
    ASSUME NEW q \in Queries(Visibility), NEW active \in BOOLEAN
    PROVE  /\ Invalidated(q, active) \in Queries(Visibility) /\ Invalidated(q, active).stale
           /\ ~Fetching(q) \/ (active /\ ~Joins(q)) =>
                 Invalidated(q, active).fetch.state # "answered"
<1>1. Request(q).fetch.state = "sent"
  BY QueryIsRequested
<1>2. /\ Invalidated(q, active) \in Queries(Visibility) /\ Invalidated(q, active).stale = TRUE
      /\ Invalidated(q, active).fetch = IF active /\ ~Joins(q) THEN Request(q).fetch ELSE q.fetch
  BY QueryIsInvalidated
<1>. QED
  BY <1>1, <1>2 DEF Fetching

\* What a confirmed change does to the details.
LEMMA RefreshDetailsStep ==
    ASSUME DetailInv, NEW m \in Mutations, m.done \subseteq Images, m.visibility \in Visibility,
           RefreshDetails(m),
           \A i \in m.done : Confirmed(i)' => m.kind \in {"visibility", "batch", "detail"},
           \A i \in Images \ m.done : Confirmed(i)' => Confirmed(i) /\ server' = server
    PROVE  DetailInv'
<1> DEFINE synced == IF m.kind \in {"visibility", "batch"} THEN m.done ELSE {}
           marked == IF m.kind = "detail" THEN m.done ELSE {}
           kept == {i \in marked : Fetching(detail[i]) /\ (page # i \/ Joins(detail[i]))}
<1>1. /\ detail' = [i \in Images |->
              IF i \in synced THEN SyncDetail(detail[i], m.visibility, page = i)
              ELSE IF i \in marked THEN Invalidated(detail[i], page = i) ELSE detail[i]]
      /\ outlived' = (outlived \ (synced \cup marked)) \cup kept
  BY DEF RefreshDetails
<1>2. synced \subseteq m.done /\ marked \subseteq m.done /\ kept \subseteq Images
  OBVIOUS
<1>3. \A i \in m.done : m.kind \in {"visibility", "batch", "detail"} => i \in synced \/ i \in marked
  OBVIOUS
<1>4. \A i \in marked \ kept : ~Fetching(detail[i]) \/ (page = i /\ ~Joins(detail[i]))
  OBVIOUS
<1> HIDE DEF synced, marked, kept
<1>5. \A i \in Images : detail[i] \in Queries(Visibility) /\ (page = i) \in BOOLEAN
  BY DEF DetailInv
<1>6. ASSUME NEW i \in synced
      PROVE  /\ detail'[i] \in Queries(Visibility) /\ detail'[i].stale
             /\ detail'[i].fetch.state # "answered"
  <2>1. i \in Images /\ detail'[i] = SyncDetail(detail[i], m.visibility, page = i)
    BY <1>1, <1>2
  <2> DEFINE active == page = i
  <2>2. active \in BOOLEAN /\ detail'[i] = SyncDetail(detail[i], m.visibility, active)
    BY <2>1
  <2> HIDE DEF active
  <2>. QED
    BY <1>5, <2>1, <2>2, SyncedDetail
<1>7. ASSUME NEW i \in marked, i \notin synced
      PROVE  /\ detail'[i] \in Queries(Visibility) /\ detail'[i].stale
             /\ i \notin kept => detail'[i].fetch.state # "answered"
  <2>1. i \in Images /\ detail'[i] = Invalidated(detail[i], page = i)
    BY <1>1, <1>2, <1>7
  <2> DEFINE active == page = i
  <2>2. /\ active \in BOOLEAN /\ detail'[i] = Invalidated(detail[i], active)
        /\ i \notin kept => ~Fetching(detail[i]) \/ (active /\ ~Joins(detail[i]))
    BY <1>4, <2>1
  <2> HIDE DEF active
  <2>. QED
    BY <1>5, <2>1, <2>2, InvalidatedDetail
<1>8. ASSUME NEW i \in Images, i \notin synced, i \notin marked PROVE detail'[i] = detail[i]
  BY <1>1, <1>8
<1>9. detail' \in [Images -> Queries(Visibility)]
  <2>1. \A i \in Images : detail'[i] \in Queries(Visibility)
    BY <1>5, <1>6, <1>7, <1>8
  <2>. QED
    BY <1>1, <2>1
<1>10. ASSUME NEW i \in Images \ outlived', Confirmed(i)' PROVE DetailIsCurrent(detail[i], i)'
  <2>1. CASE i \in m.done
    <3>1. i \in synced \/ i \in marked
      BY <1>3, <1>10, <2>1
    <3>2. detail'[i].stale /\ detail'[i].fetch.state # "answered"
      BY <1>1, <1>6, <1>7, <1>10, <3>1
    <3>. QED
      BY <3>2 DEF DetailIsCurrent
  <2>2. CASE i \notin m.done
    <3>1. i \notin outlived /\ detail'[i] = detail[i] /\ Confirmed(i) /\ server' = server
      BY <1>1, <1>2, <1>8, <1>10, <2>2
    <3>. QED
      BY <3>1 DEF DetailInv, DetailIsCurrent, HasData
  <2>. QED
    BY <2>1, <2>2
<1>. QED
  BY <1>1, <1>2, <1>9, <1>10 DEF DetailInv

LEMMA MutationSucceedsStep ==
    ASSUME GalleryInv, NEW s \in Slots, MutationSucceeds(s), GalleryAssumption
    PROVE  GalleryInv'
<1>1. WorldInv /\ ListInv /\ DetailInv /\ PageInv
  BY DEF GalleryInv
<1> DEFINE m == mutation[s]
<1>2. /\ m.state = "answered" /\ mutation' = [mutation EXCEPT ![s] = Settled]
      /\ lastChange' = [i \in Images |-> IF i \in m.done THEN "confirmed" ELSE lastChange[i]]
      /\ RefreshDetails(m)
      /\ selected' = IF m.mine /\ m.kind \in {"batch", "delete"} THEN {} ELSE selected
      /\ snapshot' = IF m.mine /\ m.kind = "delete" THEN {} ELSE snapshot
      /\ confirmOpen' = (confirmOpen /\ ~(m.mine /\ m.kind = "delete"))
      /\ InvalidateLists(InUse) /\ UNCHANGED <<server, page, filter>>
  BY DEF MutationSucceeds
<1>3. /\ m \in Mutations /\ m.visibility \in Visibility /\ ServedAs(m)
      /\ m.kind \in {"none", "visibility", "batch", "delete", "detail"}
      /\ m.done \subseteq m.ids
  BY <1>1 DEF WorldInv, Mutations, ServedAs
<1>4. lastChange' \in [Images -> {"confirmed", "lost"}]
  BY <1>1, <1>2 DEF WorldInv
<1>5. /\ WorldInv' /\ DOMAIN mutation' = DOMAIN mutation
      /\ mutation'[s] = Settled /\ \A r \in Slots \ {s} : mutation'[r] = mutation[r]
      /\ \A i : Unconfirmed(i)' => Unconfirmed(i)
      /\ \A i : Unconfirmed(i) /\ i \notin m.done => Unconfirmed(i)'
  BY <1>1, <1>2, <1>4, Settles
<1>6. ListInv'
  <2>1. InUse \in SUBSET Filters
    BY <1>1 DEF InUse, PageInv
  <2>. QED
    BY <1>1, <1>2, <2>1, InvalidateStep
<1>7. DetailInv'
  <2>1. m.done \subseteq Images /\ (page = page) \in BOOLEAN
    BY <1>3 DEF Mutations
  <2>2. ASSUME NEW i \in m.done, Confirmed(i)' PROVE m.kind \in {"visibility", "batch", "detail"}
    BY <1>2, <1>3, <2>1, <2>2 DEF ServedAs, Confirmed
  <2>3. ASSUME NEW i \in Images \ m.done, Confirmed(i)' PROVE Confirmed(i) /\ server' = server
    BY <1>2, <1>5, <2>3 DEF Confirmed
  <2>. QED
    BY <1>1, <1>2, <1>3, <2>1, <2>2, <2>3, RefreshDetailsStep
<1>8. PageInv'
  <2>1. /\ OneMutationPerPage'
        /\ m.mine => \A r \in Slots : ~mutation'[r].mine
        /\ \A r \in Slots : mutation'[r].mine => r # s /\ mutation'[r] = mutation[r]
    BY <1>1, <1>5, MutationsAreTyped DEF PageInv, OneMutationPerPage
  <2>2. DialogShowsWhatIsDeleted'
    BY <1>1, <1>2, <2>1 DEF PageInv, DialogShowsWhatIsDeleted
  <2>3. DialogIsAlone'
    BY <1>1, <1>2, <2>1 DEF PageInv, DialogIsAlone
  <2>4. selected' \subseteq Images /\ Cardinality(selected') <= SelectionLimit
        /\ snapshot' \subseteq Images /\ confirmOpen' \in BOOLEAN
    <3>1. Cardinality({}) = 0 /\ SelectionLimit \in Nat
      BY FS_EmptySet DEF GalleryAssumption
    <3>2. selected' \in {{}, selected} /\ snapshot' \in {{}, snapshot}
      BY <1>2
    <3>3. Cardinality(selected') <= SelectionLimit
      BY <1>1, <3>1, <3>2 DEF PageInv
    <3>4. confirmOpen' \in BOOLEAN
      BY <1>2
    <3>. QED
      BY <1>1, <3>2, <3>3, <3>4 DEF PageInv
  <2>. QED
    BY <1>1, <1>2, <2>1, <2>2, <2>3, <2>4 DEF PageInv
<1>. QED
  BY <1>5, <1>6, <1>7, <1>8 DEF GalleryInv

-----------------------------------------------------------------------------
(* Details and pages.                                                      *)

LEMMA LeaveStep ==
    ASSUME GalleryAssumption, WorldInv, PageInv, Leave, UNCHANGED <<server, lastChange, filter>>,
           page' \in {ListPage} \cup Images
    PROVE  WorldInv' /\ WorldStays /\ SameChanges /\ PageInv'
<1>1. /\ mutation' = [s \in Slots |-> [mutation[s] EXCEPT !.mine = FALSE]]
      /\ selected' = {} /\ snapshot' = {} /\ confirmOpen' = FALSE
  BY DEF Leave
<1>2. \A s \in Slots : /\ mutation'[s] \in Mutations /\ mutation'[s].mine = FALSE
                       /\ mutation'[s].done = mutation[s].done /\ mutation'[s].ids = mutation[s].ids
                       /\ mutation'[s].kind = mutation[s].kind /\ mutation'[s].state = mutation[s].state
  BY <1>1 DEF WorldInv, Mutations
<1>3. \A s \in Slots : ServedAs(mutation[s])'
  BY <1>2 DEF WorldInv, ServedAs
<1>4. mutation' \in [Slots -> Mutations]
  BY <1>1, <1>2
<1>5. WorldInv'
  BY <1>3, <1>4 DEF WorldInv
<1>6. WorldStays /\ SameChanges
  BY <1>2 DEF WorldStays, SameChanges, Unconfirmed
<1>7. PageInv'
  <2>1. Cardinality(selected') <= SelectionLimit
    BY <1>1, FS_EmptySet DEF GalleryAssumption
  <2>2. DialogIsAlone' /\ DialogShowsWhatIsDeleted' /\ OneMutationPerPage'
    BY <1>1, <1>2 DEF DialogIsAlone, DialogShowsWhatIsDeleted, OneMutationPerPage
  <2>. QED
    BY <1>1, <2>1, <2>2 DEF PageInv
<1>. QED
  BY <1>5, <1>6, <1>7

LEMMA OpenDetailStep ==
    ASSUME GalleryAssumption, GalleryInv, NEW i \in Images, OpenDetail(i)
    PROVE  GalleryInv'
<1>1. WorldInv /\ ListInv /\ DetailInv /\ PageInv
  BY DEF GalleryInv
<1>2. WorldInv' /\ WorldStays /\ PageInv'
  BY <1>1, LeaveStep DEF OpenDetail
<1>3. ListInv'
  BY <1>1, <1>2, SameLists DEF OpenDetail
<1>4. DetailInv'
  <2>1. detail' = [detail EXCEPT ![i] = Mounted(detail[i])]
    BY DEF OpenDetail
  <2>2. detail[i] \in Queries(Visibility) /\ detail \in [Images -> Queries(Visibility)]
    BY <1>1 DEF DetailInv
  <2>3. /\ Mounted(detail[i]) \in Queries(Visibility)
        /\ Mounted(detail[i]).data = detail[i].data /\ Mounted(detail[i]).stale = detail[i].stale
        /\ Mounted(detail[i]).fetch = detail[i].fetch \/ Mounted(detail[i]).fetch.state = "sent"
    BY <2>2, QueryIsMounted
  <2>4. detail' \in [Images -> Queries(Visibility)]
    BY <2>1, <2>2, <2>3
  <2>5. outlived' = IF detail[i].stale /\ ~Fetching(detail[i]) THEN outlived \ {i} ELSE outlived
    BY DEF OpenDetail
  <2>6. ASSUME NEW j \in Images \ outlived', Confirmed(j)' PROVE DetailIsCurrent(detail[j], j)'
    <3>1. Confirmed(j) /\ server'[j] = server[j]
      BY <1>2, <2>6 DEF Confirmed, WorldStays
    <3>2. /\ detail'[j].data = detail[j].data /\ detail'[j].stale = detail[j].stale
          /\ detail'[j].fetch = detail[j].fetch \/ detail'[j].fetch.state = "sent"
      BY <2>1, <2>2, <2>3
    <3>3. CASE j \notin outlived
      <4>1. DetailIsCurrent(detail[j], j)
        BY <1>1, <3>1, <3>3 DEF DetailInv
      <4>. QED
        BY <3>1, <3>2, <4>1 DEF DetailIsCurrent, HasData
    <3>4. CASE j \in outlived
      <4>1. j = i /\ detail[i].stale /\ ~Fetching(detail[i])
        BY <2>5, <2>6, <3>4
      <4>. QED
        BY <3>2, <4>1 DEF DetailIsCurrent, Fetching
    <3>. QED
      BY <3>3, <3>4
  <2>. QED
    BY <1>1, <2>4, <2>5, <2>6 DEF DetailInv
<1>. QED
  BY <1>2, <1>3, <1>4 DEF GalleryInv

LEMMA ReturnToListStep ==
    ASSUME GalleryAssumption, GalleryInv, ReturnToList
    PROVE  GalleryInv'
<1>1. WorldInv /\ ListInv /\ DetailInv /\ PageInv
  BY DEF GalleryInv
<1>2. WorldInv' /\ WorldStays /\ SameChanges /\ PageInv'
  BY <1>1, LeaveStep DEF ReturnToList
<1>3. ListInv'
  BY <1>1, <1>2, UseListStep DEF ReturnToList, PageInv
<1>4. DetailInv'
  BY <1>1, <1>2, SameDetails DEF ReturnToList
<1>. QED
  BY <1>2, <1>3, <1>4 DEF GalleryInv

\* Answers of the detail's query.
LEMMA DetailStep ==
    ASSUME GalleryInv, NEW i \in Images, ServeDetail(i) \/ DetailArrives(i)
    PROVE  GalleryInv'
<1>1. WorldInv /\ ListInv /\ DetailInv /\ PageInv
  BY DEF GalleryInv
<1>2. UNCHANGED <<server, mutation, lastChange>> /\ SamePage
      /\ UNCHANGED <<list, more, overtaken, outlived>>
  BY DEF ServeDetail, DetailArrives, pageVars, SamePage
<1>3. WorldInv' /\ WorldStays /\ SameChanges
  BY <1>1, <1>2, SameWorld
<1>4. ListInv' /\ PageInv'
  BY <1>1, <1>2, <1>3, SameLists, PageStays
<1>5. detail[i] \in Queries(Visibility) /\ server[i] \in Visibility \cup {"gone"}
      /\ outlived' = outlived /\ outlived \subseteq Images
  BY <1>1, <1>2 DEF DetailInv, WorldInv
<1>6. i \notin outlived /\ Confirmed(i) => DetailIsCurrent(detail[i], i)
  BY <1>1 DEF DetailInv
<1>7. CASE ServeDetail(i)
  <2>1. CASE server[i] = "gone"
    <3>1. detail' = [detail EXCEPT ![i] = Failed(detail[i])]
      BY <1>7, <2>1 DEF ServeDetail
    <3>2. ~Confirmed(i) /\ Failed(detail[i]) \in Queries(Visibility)
      BY <1>5, <2>1, QueryIsApplied DEF Confirmed
    <3>. QED
      BY <1>1, <1>3, <1>4, <1>5, <3>1, <3>2, OneDetail DEF GalleryInv
  <2>2. CASE server[i] # "gone"
    <3> DEFINE q == Answered(detail[i], server[i])
    <3>1. detail' = [detail EXCEPT ![i] = q]
      BY <1>7, <2>2 DEF ServeDetail
    <3>2. /\ q \in Queries(Visibility) /\ q.data = detail[i].data
          /\ q.stale = detail[i].stale /\ q.fetch.value = server[i]
      BY <1>5, <2>2, QueryIsAnswered
    <3> HIDE DEF q
    <3>3. i \notin outlived /\ Confirmed(i) => DetailIsCurrent(q, i)
      BY <1>6, <3>2 DEF DetailIsCurrent, HasData
    <3>. QED
      BY <1>1, <1>3, <1>4, <1>5, <3>1, <3>2, <3>3, OneDetail DEF GalleryInv
  <2>. QED
    BY <2>1, <2>2
<1>8. CASE DetailArrives(i)
  <2> DEFINE q == Applied(detail[i])
  <2>1. detail' = [detail EXCEPT ![i] = q] /\ detail[i].fetch.state = "answered"
    BY <1>8 DEF DetailArrives
  <2>2. /\ q \in Queries(Visibility) /\ q.data = detail[i].fetch.value /\ q.fetch.state = "idle"
    BY <1>5, QueryIsApplied
  <2> HIDE DEF q
  <2>3. i \notin outlived /\ Confirmed(i) => DetailIsCurrent(q, i)
    BY <1>6, <2>1, <2>2 DEF DetailIsCurrent
  <2>. QED
    BY <1>1, <1>3, <1>4, <1>5, <2>1, <2>2, <2>3, OneDetail DEF GalleryInv
<1>. QED
  BY <1>7, <1>8

-----------------------------------------------------------------------------
(* The steps of the list page.                                             *)

\* A step of the list's query.
LEMMA ListQueryStep ==
    ASSUME GalleryInv,
           \/ LoadMore \/ Reload
           \/ \E f \in Filters : ServeList(f) \/ ListArrives(f) \/ ListFails(f)
    PROVE  GalleryInv'
<1>1. WorldInv /\ ListInv /\ DetailInv /\ PageInv
  BY DEF GalleryInv
<1>2. UNCHANGED <<server, mutation, lastChange, detailVars>> /\ SamePage
  BY DEF LoadMore, Reload, ServeList, ListArrives, ListFails, EndListFetch, pageVars, SamePage
<1>3. WorldInv' /\ WorldStays /\ SameChanges
  BY <1>1, <1>2, SameWorld
<1>4. DetailInv' /\ PageInv'
  BY <1>1, <1>2, <1>3, SameDetails, PageStays
<1>5. ListInv'
  <2>1. CASE LoadMore
    BY <1>1, <2>1, LoadMoreStep
  <2>2. CASE Reload
    <3>1. filter \in Filters /\ UseList(filter)
      BY <1>1, <2>2 DEF Reload, PageInv
    <3>. QED
      BY <1>1, <1>3, <3>1, UseListStep
  <2>3. ASSUME NEW f \in Filters, ServeList(f) PROVE ListInv'
    BY <1>1, <2>3, ServeListStep
  <2>4. ASSUME NEW f \in Filters, ListArrives(f) \/ ListFails(f) PROVE ListInv'
    BY <1>1, <2>4, ListFetchEnds
  <2>. QED
    BY <2>1, <2>2, <2>3, <2>4
<1>. QED
  BY <1>3, <1>4, <1>5 DEF GalleryInv

\* Another filter: an open dialog keeps the images it asks about.
LEMMA ChangeFilterStep ==
    ASSUME GalleryAssumption, GalleryInv, NEW f \in Filters, ChangeFilter(f)
    PROVE  GalleryInv'
<1>1. WorldInv /\ ListInv /\ DetailInv /\ PageInv
  BY DEF GalleryInv
<1>2. /\ filter' = f /\ selected' = {} /\ UseList(f)
      /\ UNCHANGED <<server, page, detailVars, snapshot, confirmOpen, mutation, lastChange>>
  BY DEF ChangeFilter
<1>3. WorldInv' /\ WorldStays /\ SameChanges
  BY <1>1, <1>2, SameWorld
<1>4. ListInv' /\ DetailInv'
  BY <1>1, <1>2, <1>3, UseListStep, SameDetails
<1>5. Cardinality(selected') <= SelectionLimit
  BY <1>2, FS_EmptySet DEF GalleryAssumption
<1>6. DialogIsAlone' /\ DialogShowsWhatIsDeleted' /\ OneMutationPerPage'
  BY <1>1, <1>2 DEF PageInv, DialogIsAlone, DialogShowsWhatIsDeleted, OneMutationPerPage
<1>7. PageInv'
  BY <1>1, <1>2, <1>5, <1>6 DEF PageInv
<1>. QED
  BY <1>3, <1>4, <1>7 DEF GalleryInv

\* Selecting is refused beyond the limit.
LEMMA SelectStep ==
    ASSUME GalleryAssumption, GalleryInv,
           ClearSelection \/ \E i \in Images : toggleSelected(i)
    PROVE  GalleryInv'
<1>1. WorldInv /\ ListInv /\ DetailInv /\ PageInv
  BY DEF GalleryInv
<1>2. IsFiniteSet(selected) /\ Cardinality(selected) \in Nat /\ SelectionLimit \in Nat
  <2>1. IsFiniteSet(selected)
    BY <1>1, FS_Subset DEF PageInv, GalleryAssumption
  <2>. QED
    BY <2>1, FS_CardinalityType DEF GalleryAssumption
<1>3. \E set \in SUBSET Images : Select(set) /\ Cardinality(set) <= SelectionLimit
  <2>1. CASE ClearSelection
    <3>1. Select({})
      BY <2>1 DEF ClearSelection
    <3>2. Cardinality({}) <= SelectionLimit
      BY <1>2, FS_EmptySet
    <3>. QED
      BY <3>1, <3>2
  <2>2. ASSUME NEW i \in Images, toggleSelected(i)
        PROVE  \E set \in SUBSET Images : Select(set) /\ Cardinality(set) <= SelectionLimit
    <3>1. CASE i \in selected
      <4>1. Select(selected \ {i}) /\ selected \ {i} \subseteq Images
        BY <1>1, <2>2, <3>1 DEF toggleSelected, PageInv
      <4>2. Cardinality(selected \ {i}) = Cardinality(selected) - 1
        BY <1>2, <3>1, FS_RemoveElement
      <4>3. Cardinality(selected \ {i}) <= SelectionLimit
        BY <1>1, <1>2, <4>2 DEF PageInv
      <4>. QED
        BY <4>1, <4>3
    <3>2. CASE i \notin selected
      <4>1. /\ Select(selected \cup {i}) /\ selected \cup {i} \subseteq Images
            /\ Cardinality(selected) < SelectionLimit
        BY <1>1, <2>2, <3>2 DEF toggleSelected, PageInv
      <4>2. Cardinality(selected \cup {i}) = Cardinality(selected) + 1
        BY <1>2, <3>2, FS_AddElement
      <4>. QED
        BY <1>2, <4>1, <4>2
    <3>. QED
      BY <3>1, <3>2
  <2>. QED
    BY <2>1, <2>2
<1>4. PICK set \in SUBSET Images : Select(set) /\ Cardinality(set) <= SelectionLimit
  BY <1>3
<1>5. /\ selected' = set
      /\ UNCHANGED <<server, page, filter, snapshot, confirmOpen, mutation, lastChange>>
      /\ UNCHANGED <<list, more, overtaken, detailVars>>
  BY <1>4 DEF Select, cacheVars
<1>6. DialogIsAlone' /\ DialogShowsWhatIsDeleted' /\ OneMutationPerPage'
  BY <1>1, <1>5 DEF PageInv, DialogIsAlone, DialogShowsWhatIsDeleted, OneMutationPerPage
<1>7. PageInv'
  BY <1>1, <1>4, <1>5, <1>6 DEF PageInv
<1>. QED
  BY <1>1, <1>5, <1>7, SameWorld, SameLists, SameDetails DEF GalleryInv

\* The dialog opens when nothing is pending, and is not closed while its
\* deletion is.
LEMMA DialogStep ==
    ASSUME GalleryInv, OpenDelete \/ CloseDelete
    PROVE  GalleryInv'
<1>1. WorldInv /\ ListInv /\ DetailInv /\ PageInv
  BY DEF GalleryInv
<1>2. /\ UNCHANGED <<server, page, filter, selected, mutation, lastChange>>
      /\ UNCHANGED <<list, more, overtaken, detailVars>>
  BY DEF OpenDelete, CloseDelete, cacheVars
<1>3. snapshot' \subseteq Images /\ confirmOpen' \in BOOLEAN
  BY <1>1 DEF OpenDelete, CloseDelete, PageInv
<1>4. DialogIsAlone' /\ DialogShowsWhatIsDeleted'
  <2>1. CASE OpenDelete
    <3>1. page = ListPage /\ \A s \in Slots : ~mutation[s].mine
      BY <2>1 DEF OpenDelete, busy
    <3>. QED
      BY <1>2, <3>1 DEF DialogIsAlone, DialogShowsWhatIsDeleted
  <2>2. CASE CloseDelete
    <3>1. /\ confirmOpen' = FALSE
          /\ \A s \in Slots : ~(mutation[s].mine /\ mutation[s].kind = "delete")
      BY <2>2 DEF CloseDelete, deleting
    <3>. QED
      BY <1>2, <3>1 DEF DialogIsAlone, DialogShowsWhatIsDeleted
  <2>. QED
    BY <2>1, <2>2
<1>5. OneMutationPerPage'
  BY <1>1, <1>2 DEF PageInv, OneMutationPerPage
<1>6. PageInv'
  BY <1>1, <1>2, <1>3, <1>4, <1>5 DEF PageInv
<1>. QED
  BY <1>1, <1>2, <1>6, SameWorld, SameLists, SameDetails DEF GalleryInv

\* A request is made by a page that has none.
LEMMA RequestStep ==
    ASSUME GalleryAssumption, GalleryInv,
           \/ ConfirmDelete \/ DetailVisibility
           \/ \E v \in Visibility : BatchVisibility(v)
           \/ \E i \in Images : ChangeVisibility(i)
    PROVE  GalleryInv'
<1>1. WorldInv /\ ListInv /\ DetailInv /\ PageInv
  BY DEF GalleryInv
<1>2. \A v : Opposite(v) \in Visibility
  BY DEF Opposite, Visibility
<1>3. CASE ConfirmDelete
  <2>1. confirmOpen /\ ~deleting /\ Mutate("delete", snapshot, "public")
    BY <1>3 DEF ConfirmDelete
  <2>2. ~busy
    BY <1>1, <2>1 DEF PageInv, DialogIsAlone, deleting, busy
  <2>3. snapshot \in SUBSET Images /\ "public" \in Visibility
    BY <1>1 DEF PageInv, Visibility
  <2>. QED
    BY <2>1, <2>2, <2>3, MutateStep
<1>4. CASE DetailVisibility
  <2>1. /\ page \in Images /\ ~busy
        /\ Mutate("detail", {page}, Opposite(detail[page].data))
    BY <1>4 DEF DetailVisibility
  <2>2. ~confirmOpen
    BY <1>1, <2>1 DEF PageInv, DialogIsAlone, ListPage, GalleryAssumption
  <2>. QED
    BY <1>2, <2>1, <2>2, MutateStep
<1>5. ASSUME NEW v \in Visibility, BatchVisibility(v) PROVE GalleryInv'
  <2>1. ~busy /\ ~confirmOpen /\ Mutate("batch", selected, v) /\ selected \in SUBSET Images
    BY <1>1, <1>5 DEF BatchVisibility, PageInv
  <2>. QED
    BY <2>1, MutateStep
<1>6. ASSUME NEW i \in Images, ChangeVisibility(i) PROVE GalleryInv'
  <2>1. ~busy /\ ~confirmOpen /\ Mutate("visibility", {i}, Opposite(Cards[i]))
    BY <1>6 DEF ChangeVisibility
  <2>. QED
    BY <1>2, <2>1, MutateStep
<1>. QED
  BY <1>3, <1>4, <1>5, <1>6

-----------------------------------------------------------------------------
(* The theorems.                                                           *)

LEMMA GalleryInitially ==
    ASSUME GalleryAssumption, GalleryInit
    PROVE  GalleryInv
<1>1. \A s \in Slots : mutation[s] = NoMutation
  BY DEF GalleryInit
<1>2. \A i : ~Unconfirmed(i)
  BY <1>1, MutationsAreTyped DEF Unconfirmed
<1>3. WorldInv
  <2>1. mutation \in [Slots -> Mutations]
    BY <1>1, MutationsAreTyped DEF GalleryInit
  <2>2. \A s \in Slots : ServedAs(mutation[s])
    BY <1>1, MutationsAreTyped DEF ServedAs
  <2>3. server \in [Images -> Visibility \cup {"gone"}]
    BY DEF GalleryInit
  <2>4. lastChange \in [Images -> {"confirmed", "lost"}]
    BY DEF GalleryInit
  <2>. QED
    BY <2>1, <2>2, <2>3, <2>4 DEF WorldInv
<1>4. /\ EmptyQuery \in Queries(Lists) /\ EmptyQuery \in Queries(Visibility)
      /\ EmptyQuery.data = NoData /\ EmptyQuery.fetch.state = "idle"
  BY DEF EmptyQuery, Queries, Idle, FetchStates
<1>5. /\ Request(EmptyQuery) \in Queries(Lists) /\ Request(EmptyQuery).data = NoData
      /\ Request(EmptyQuery).fetch.state = "sent"
  BY <1>4, QueryIsRequested
<1>6. \A f \in Filters : /\ list[f] \in Queries(Lists) /\ list[f].data = NoData
                         /\ list[f].fetch.state # "answered"
  BY <1>4, <1>5 DEF GalleryInit
<1>7. list \in [Filters -> Queries(Lists)] /\ more = {} /\ overtaken = {}
  BY <1>4, <1>5 DEF GalleryInit
<1>8. ListInv
  BY <1>6, <1>7 DEF ListInv, FetchIsMeant, ListIsCurrent, HasData
<1>9. DetailInv
  BY <1>4 DEF GalleryInit, DetailInv, DetailIsCurrent, HasData
<1>10. PageInv
  <2>1. Cardinality(selected) <= SelectionLimit
    BY FS_EmptySet DEF GalleryInit, GalleryAssumption
  <2>2. DialogIsAlone /\ DialogShowsWhatIsDeleted /\ OneMutationPerPage
    BY <1>1, MutationsAreTyped
    DEF GalleryInit, DialogIsAlone, DialogShowsWhatIsDeleted, OneMutationPerPage
  <2>. QED
    BY <2>1, <2>2 DEF GalleryInit, GalleryAssumption, PageInv
<1>. QED
  BY <1>3, <1>8, <1>9, <1>10 DEF GalleryInv

LEMMA GalleryStep ==
    ASSUME GalleryAssumption, GalleryInv, [GalleryNext]_galleryVars
    PROVE  GalleryInv'
<1>1. CASE GalleryNext
  <2>1. CASE \E f \in Filters : ChangeFilter(f)
    BY <2>1, ChangeFilterStep
  <2>2. CASE \/ LoadMore \/ Reload
             \/ \E f \in Filters : ServeList(f) \/ ListArrives(f) \/ ListFails(f)
    BY <2>2, ListQueryStep
  <2>3. CASE ClearSelection \/ \E i \in Images : toggleSelected(i)
    BY <2>3, SelectStep
  <2>4. CASE OpenDelete \/ CloseDelete
    BY <2>4, DialogStep
  <2>5. CASE \/ ConfirmDelete \/ DetailVisibility
             \/ \E v \in Visibility : BatchVisibility(v)
             \/ \E i \in Images : ChangeVisibility(i)
    BY <2>5, RequestStep
  <2>6. CASE \E s \in Slots, done \in SUBSET Images, lost \in BOOLEAN : ServeMutation(s, done, lost)
    BY <2>6, ServeMutationStep
  <2>7. CASE \E s \in Slots : MutationSucceeds(s)
    BY <2>7, MutationSucceedsStep
  <2>8. CASE \E s \in Slots : MutationFails(s)
    BY <2>8, MutationFailsStep
  <2>9. CASE \E i \in Images : OpenDetail(i)
    BY <2>9, OpenDetailStep
  <2>10. CASE \E i \in Images : ServeDetail(i) \/ DetailArrives(i)
    BY <2>10, DetailStep
  <2>11. CASE ReturnToList
    BY <2>11, ReturnToListStep
  <2>. QED
    BY <1>1, <2>1, <2>2, <2>3, <2>4, <2>5, <2>6, <2>7, <2>8, <2>9, <2>10, <2>11 DEF GalleryNext
<1>2. CASE UNCHANGED galleryVars
  <2>1. /\ UNCHANGED <<server, mutation, lastChange>> /\ SamePage
        /\ UNCHANGED <<list, more, overtaken, detailVars>>
    BY <1>2 DEF galleryVars, detailVars, SamePage
  <2>2. WorldInv' /\ WorldStays
    BY <2>1, SameWorld DEF GalleryInv
  <2>3. PageInv'
    BY <2>1, PageStays DEF GalleryInv
  <2>. QED
    BY <2>1, <2>2, <2>3, SameLists, SameDetails DEF GalleryInv
<1>. QED
  BY <1>1, <1>2

LEMMA GalleryInvHolds ==
    ASSUME GalleryAssumption
    PROVE  GallerySpec => []GalleryInv
<1>1. GalleryInit => GalleryInv
  BY GalleryInitially
<1>2. GalleryInv /\ [GalleryNext]_galleryVars => GalleryInv'
  BY GalleryStep
<1>. QED
  BY <1>1, <1>2, PTL DEF GallerySpec

\* The list and the detail pages keep their types, and never more images are
\* selected than the limit (image-list-page.tsx).
THEOREM GalleryTypes ==
    ASSUME GalleryAssumption
    PROVE  GallerySpec => []GalleryTypeOK
<1>1. GalleryInv => GalleryTypeOK
  BY DEF GalleryInv, WorldInv, ListInv, DetailInv, PageInv, GalleryTypeOK
<1>. QED
  BY <1>1, GalleryInvHolds, PTL

\* Whatever requests, answers and invalidations overlap: a list or a detail
\* that counts as fresh shows each change that was confirmed to the user, by
\* the library or by a detail page, unless an invalidation has left an older
\* fetch under way (image-list-page.tsx, image-detail-page.tsx).
THEOREM ChangesAreShown ==
    ASSUME GalleryAssumption
    PROVE  GallerySpec => []ConfirmedChangesAreShown
<1>1. ASSUME GalleryInv PROVE ConfirmedChangesAreShown
  <2>1. \A i : Unconfirmed(i) => Changing(i)
    BY <1>1 DEF GalleryInv, WorldInv, ServedAs, Unconfirmed, Changing
  <2>2. ListShowsConfirmedChanges
    <3>1. ASSUME NEW f \in Filters \ overtaken, HasData(list[f]), ~list[f].stale
          PROVE  IsCurrent(list[f].data.items)
      BY <1>1, <3>1 DEF GalleryInv, ListInv, ListIsCurrent
    <3>. QED
      BY <2>1, <3>1 DEF ListShowsConfirmedChanges, IsCurrent
  <2>3. DetailKeepsConfirmedChange
    <3>1. \A i \in Images \ outlived : Confirmed(i) => DetailIsCurrent(detail[i], i)
      BY <1>1 DEF GalleryInv, DetailInv
    <3>. QED
      BY <2>1, <3>1 DEF DetailKeepsConfirmedChange, DetailIsCurrent, Confirmed
  <2>. QED
    BY <2>2, <2>3 DEF ConfirmedChangesAreShown
<1>. QED
  BY <1>1, GalleryInvHolds, PTL

\* However the filter and the selection change meanwhile: a pending deletion
\* is what its open dialog names, and the page's only request
\* (image-list-page.tsx).
THEOREM DeletionsAreAsShown ==
    ASSUME GalleryAssumption
    PROVE  GallerySpec => []DeletionIsAsShown
<1>1. GalleryInv => DeletionIsAsShown
  BY DEF GalleryInv, PageInv, DeletionIsAsShown
<1>. QED
  BY <1>1, GalleryInvHolds, PTL

-----------------------------------------------------------------------------
(* FilterForm.                                                             *)

\* What may be in an address and in the form.
Addresses == Filled((Nat \ {0}) \cup {Blank})
Forms == Filled(Nat \cup {Blank})

\* What the conversions need of the constants.
LEMMA FormNumbers ==
    ASSUME FormAssumption
    PROVE  /\ Zones \subseteq Int /\ Tenths \subseteq Nat /\ LocalDays \subseteq Int
           /\ Bytes \subseteq Nat \ {0}
           /\ Blank \notin Int /\ Blank # "word" /\ Blank # " word "
<1>1. -12..14 \subseteq Int
  OBVIOUS
<1>2. Zones \subseteq Int
  BY <1>1, Zenon DEF FormAssumption
<1>3. Tenths \subseteq Nat /\ LocalDays \subseteq Int /\ Bytes \subseteq Nat \ {0}
  <2>1. LocalDays \subseteq Nat /\ Tenths \subseteq Nat /\ Bytes \subseteq Nat \ {0}
    BY DEF FormAssumption
  <2>. QED
    BY <2>1
<1>4. Blank \notin Int /\ Blank # "word" /\ Blank # " word "
  BY DEF FormAssumption
<1>. QED
  BY <1>2, <1>3, <1>4

\* A moment of a local day is on that day.
LEMMA DayOfZone ==
    ASSUME FormAssumption, NEW d \in LocalDays, NEW z \in Zones
    PROVE  24 * d - z \in Int
<1>1. LocalDays \subseteq Int /\ Zones \subseteq Int
  BY FormNumbers
<1>2. d \in Int /\ z \in Int
  BY <1>1, Zenon
<1>. QED
  BY <1>2

\* A size typed in tenths of a MiB survives the way through bytes: half a
\* byte is much less than half a tenth.
LEMMA SizeComesBack ==
    ASSUME NEW t \in Nat \ {0}
    PROVE  /\ Round(t * MiB, 10) \in Nat \ {0}
           /\ Round(Round(t * MiB, 10) * 10, MiB) = t
<1> DEFINE b == Round(t * MiB, 10)
<1>1. b = (2 * t * 1048576 + 10) \div 20
  BY DEF Round, MiB
<1>2. b \in Nat /\ 20 * b <= 2097152 * t + 10 /\ 2097152 * t + 10 < 20 * b + 20
  BY <1>1
<1>3. b # 0
  BY <1>2
<1>4. Round(b * 10, MiB) = (20 * b + 1048576) \div 2097152
  BY <1>2 DEF Round, MiB
<1> HIDE DEF b
<1>5. 2097152 * t <= 20 * b + 1048576 /\ 20 * b + 1048576 < 2097152 * t + 2097152
  BY <1>2
<1>6. (20 * b + 1048576) \div 2097152 = t
  BY <1>2, <1>5
<1>. QED
  BY <1>2, <1>3, <1>4, <1>6 DEF b

\* A day survives the way through an instant in UTC, in any time zone.
LEMMA DayComesBack ==
    ASSUME NEW d \in Int, NEW z \in Int, NEW c \in {0, 23}
    PROVE  ((24 * d + c - z) + z) \div 24 = d
<1>1. (24 * d + c - z) + z = 24 * d + c
  OBVIOUS
<1>2. 24 * d <= 24 * d + c /\ 24 * d + c < 24 * d + 24
  OBVIOUS
<1>. QED
  BY <1>1, <1>2

\* The conversions of days are total.
LEMMA DaysAreTyped ==
    ASSUME FormAssumption, zone \in Zones, NEW x \in Int \cup {Blank}, NEW end \in BOOLEAN
    PROVE  appendDate(x, end) \in Int \cup {Blank} /\ dateParameterValue(x) \in Int \cup {Blank}
<1>1. zone \in Int
  BY FormNumbers, Zenon
<1>2. CASE x = Blank
  BY <1>2 DEF appendDate, dateParameterValue
<1>3. CASE x \in Int
  BY <1>1, <1>3 DEF appendDate, dateParameterValue
<1>. QED
  BY <1>2, <1>3

\* A field of an address or of a form is what it was made of.
LEMMA FormIsTyped ==
    ASSUME FormAssumption, zone \in Zones, NEW a \in Addresses
    PROVE  FormOf(a) \in Forms
<1>1. a.q \in Words /\ a.from \in Int \cup {Blank} /\ a.to \in Int \cup {Blank}
      /\ a.size \in (Nat \ {0}) \cup {Blank}
  BY DEF Addresses, Filled
<1>2. normalizedFilterQuery(a).q = append(a.q)
  BY DEF normalizedFilterQuery, Addresses, Filled
<1>3. append(a.q) \in Words
  BY <1>1 DEF append, Words
<1>4. dateParameterValue(a.from) \in Int \cup {Blank} /\ dateParameterValue(a.to) \in Int \cup {Blank}
  BY <1>1, DaysAreTyped
<1>5. bytesToMiB(a.size) \in Nat \cup {Blank}
  <2>1. CASE a.size = Blank
    BY <2>1 DEF bytesToMiB
  <2>2. CASE a.size \in Nat \ {0}
    <3>1. (2 * (a.size * 10) + 1048576) \div (2 * 1048576) \in Nat
      BY <2>2
    <3>. QED
      BY <3>1 DEF bytesToMiB, Round, MiB
  <2>. QED
    BY <1>1, <2>1, <2>2
<1>. QED
  BY <1>2, <1>3, <1>4, <1>5 DEF FormOf, Forms, Filled

\* A form is applied to a typed address.
LEMMA AddressIsTyped ==
    ASSUME FormAssumption, zone \in Zones, NEW f \in Forms
    PROVE  AddressOf(f) \in Addresses
<1>1. f.q \in Words /\ f.from \in Int \cup {Blank} /\ f.to \in Int \cup {Blank}
      /\ f.size \in Nat \cup {Blank}
  BY DEF Forms, Filled
<1>2. append(f.q) \in Words
  BY <1>1 DEF append, Words
<1>3. appendDate(f.from, FALSE) \in Int \cup {Blank} /\ appendDate(f.to, TRUE) \in Int \cup {Blank}
  BY <1>1, DaysAreTyped
<1>4. appendMiB(f.size) \in (Nat \ {0}) \cup {Blank}
  BY <1>1, SizeComesBack DEF appendMiB
<1>. QED
  BY <1>2, <1>3, <1>4 DEF AddressOf, Addresses, Filled

\* The way from a form to an address and back loses nothing the address has.
LEMMA AddressComesBack ==
    ASSUME FormAssumption, zone \in Zones, NEW f \in Forms
    PROVE  AddressOf(FormOf(AddressOf(f))) = AddressOf(f)
<1> DEFINE a == AddressOf(f)
           g == FormOf(a)
<1>1. f.q \in Words /\ f.from \in Int \cup {Blank} /\ f.to \in Int \cup {Blank}
      /\ f.size \in Nat \cup {Blank} /\ zone \in Int /\ Blank \notin Int
  BY FormNumbers DEF Forms, Filled
<1>2. a \in Addresses
  BY AddressIsTyped
<1>3. /\ a.q = append(f.q) /\ a.size = appendMiB(f.size)
      /\ a.from = appendDate(f.from, FALSE) /\ a.to = appendDate(f.to, TRUE)
  BY DEF AddressOf
<1> HIDE DEF a
<1>4. /\ g.q = append(a.q) /\ g.size = bytesToMiB(a.size)
      /\ g.from = dateParameterValue(a.from) /\ g.to = dateParameterValue(a.to)
  BY <1>2 DEF FormOf, normalizedFilterQuery, Addresses, Filled
<1> HIDE DEF g
<1>5. append(g.q) = a.q
  BY <1>3, <1>4 DEF append
<1>6. appendMiB(g.size) = a.size
  <2>1. CASE f.size = Blank \/ f.size = 0
    BY <1>3, <1>4, <2>1 DEF appendMiB, bytesToMiB
  <2>2. CASE f.size \in Nat \ {0}
    <3>1. a.size = Round(f.size * MiB, 10) /\ a.size \in Nat \ {0}
      BY <1>1, <1>3, <2>2, SizeComesBack DEF appendMiB
    <3>2. Round(a.size * 10, MiB) = f.size
      BY <2>2, <3>1, SizeComesBack
    <3>3. g.size = f.size
      BY <1>1, <1>4, <3>1, <3>2 DEF bytesToMiB
    <3>. QED
      BY <1>1, <2>2, <3>1, <3>3 DEF appendMiB
  <2>. QED
    BY <1>1, <2>1, <2>2
<1>7. appendDate(g.from, FALSE) = a.from
  <2>1. CASE f.from = Blank
    BY <1>3, <1>4, <2>1 DEF appendDate, dateParameterValue
  <2>2. CASE f.from \in Int
    <3>1. a.from = 24 * f.from + 0 - zone /\ a.from # Blank
      BY <1>1, <1>3, <2>2 DEF appendDate
    <3>2. g.from = f.from
      BY <1>1, <1>4, <2>2, <3>1, DayComesBack DEF dateParameterValue
    <3>. QED
      BY <1>3, <3>2
  <2>. QED
    BY <1>1, <2>1, <2>2
<1>8. appendDate(g.to, TRUE) = a.to
  <2>1. CASE f.to = Blank
    BY <1>3, <1>4, <2>1 DEF appendDate, dateParameterValue
  <2>2. CASE f.to \in Int
    <3>1. a.to = 24 * f.to + 23 - zone /\ a.to # Blank
      BY <1>1, <1>3, <2>2 DEF appendDate
    <3>2. g.to = f.to
      BY <1>1, <1>4, <2>2, <3>1, DayComesBack DEF dateParameterValue
    <3>. QED
      BY <1>3, <3>2
  <2>. QED
    BY <1>1, <2>1, <2>2
<1>9. a = [q |-> a.q, from |-> a.from, to |-> a.to, size |-> a.size]
  BY <1>2 DEF Addresses, Filled
<1>. QED
  BY <1>5, <1>6, <1>7, <1>8, <1>9 DEF AddressOf, a, g

\* The invariant.
FormInv == FormTypeOK /\ UneditedFormIsTheAddress

LEMMA FormInitially == ASSUME FormAssumption PROVE FormInit => FormInv
<1>1. SUFFICES ASSUME FormInit PROVE FormInv
  OBVIOUS
<1>2. Empty \in Forms /\ Empty \in Addresses
  BY DEF Empty, Words, Forms, Addresses, Filled
<1>3. FormTypeOK
  BY <1>1, <1>2 DEF FormInit, FormTypeOK, Forms, Addresses
<1>4. AddressOf(Empty) = Empty
  BY FormNumbers DEF AddressOf, Empty, append, appendDate, appendMiB
<1>. QED
  BY <1>1, <1>3, <1>4 DEF FormInit, FormInv, UneditedFormIsTheAddress

\* Every step keeps the types and, when it leaves the form as the address
\* made it, what the form stands for.
LEMMA FormStep ==
    ASSUME FormAssumption, FormInv, [FormNext]_formVars
    PROVE  FormInv'
<1> USE DEF FormInv, FormTypeOK, UneditedFormIsTheAddress
<1>1. zone' = zone
  BY DEF FormNext, Edit, applyFilters, resetFilters, FollowLink, ToggleAdvanced, formVars
<1>2. address \in Addresses /\ form \in Forms /\ zone \in Zones
  BY DEF Addresses, Forms
<1>3. /\ AddressOf(form') = AddressOf(form)'
      /\ \A a : hasAdvancedParameters(a) \in BOOLEAN
  BY <1>1 DEF AddressOf, appendDate, hasAdvancedParameters
<1>4. ASSUME NEW a \in Addresses, GoTo(a), AddressOf(FormOf(a)) = a \/ edited', edited' \in BOOLEAN,
             a = address => AddressOf(form) = a \/ edited'
      PROVE  FormInv'
  <2>1. CASE a = address
    BY <1>1, <1>2, <1>3, <1>4, <2>1 DEF GoTo, Addresses, Forms
  <2>2. CASE a # address
    <3>1. form' = FormOf(a) /\ address' = a /\ advancedOpen' \in BOOLEAN
      BY <1>3, <1>4, <2>2 DEF GoTo, UnfoldAdvanced
    <3>2. form' \in Forms
      BY <1>2, <3>1, FormIsTyped
    <3>. QED
      BY <1>1, <1>2, <1>3, <1>4, <3>1, <3>2 DEF Addresses, Forms
  <2>. QED
    BY <2>1, <2>2
<1>5. ASSUME NEW field \in {"q", "from", "to", "size"}, NEW x, Edit(field, x),
             [form EXCEPT ![field] = x] \in Forms
      PROVE  FormInv'
  BY <1>1, <1>2, <1>5 DEF Edit, Forms, Addresses
<1>6. CASE \E w \in Words : Edit("q", w)
  <2>1. PICK w \in Words : Edit("q", w)
    BY <1>6
  <2>2. [form EXCEPT !["q"] = w] \in Forms
    BY <1>2 DEF Forms, Filled
  <2>. QED
    BY <1>5, <2>1, <2>2
<1>7. CASE \E t \in Tenths : Edit("size", t)
  <2>1. PICK t \in Tenths : Edit("size", t)
    BY <1>7
  <2>2. [form EXCEPT !["size"] = t] \in Forms
    BY <1>2, FormNumbers DEF Forms, Filled
  <2>. QED
    BY <1>5, <2>1, <2>2
<1>8. CASE \E d \in LocalDays \cup {Blank} : Edit("from", d) \/ Edit("to", d)
  <2>1. PICK d \in LocalDays \cup {Blank} : Edit("from", d) \/ Edit("to", d)
    BY <1>8
  <2>2. d \in Int \cup {Blank}
    <3>1. LocalDays \subseteq Int
      BY FormNumbers
    <3>. QED
      BY <3>1, Zenon
  <2>3. [form EXCEPT !["from"] = d] \in Forms /\ [form EXCEPT !["to"] = d] \in Forms
    BY <1>2, <2>2 DEF Forms, Filled
  <2>. QED
    BY <1>5, <2>1, <2>3
<1>9. CASE applyFilters
  <2>1. AddressOf(form) \in Addresses /\ AddressOf(FormOf(AddressOf(form))) = AddressOf(form)
    BY <1>2, AddressIsTyped, AddressComesBack
  <2>. QED
    BY <1>4, <1>9, <2>1 DEF applyFilters
<1>10. CASE resetFilters
  <2>1. Empty \in Forms /\ Empty \in Addresses
    BY DEF Empty, Words, Forms, Addresses, Filled
  <2>2. AddressOf(Empty) = Empty
    BY FormNumbers DEF AddressOf, Empty, append, appendDate, appendMiB
  <2>. QED
    BY <1>1, <1>2, <1>3, <1>10, <2>1, <2>2 DEF resetFilters, Forms, Addresses
<1>11. CASE \E d \in LocalDays, b \in Bytes, z \in Zones :
              FollowLink([q |-> " word ", from |-> 24 * d - z, to |-> Blank, size |-> b])
  <2>1. PICK d \in LocalDays, b \in Bytes, z \in Zones :
              FollowLink([q |-> " word ", from |-> 24 * d - z, to |-> Blank, size |-> b])
    BY <1>11
  <2>2. [q |-> " word ", from |-> 24 * d - z, to |-> Blank, size |-> b] \in Addresses
    <3>1. 24 * d - z \in Int
      BY DayOfZone
    <3>2. b \in Nat \ {0}
      BY FormNumbers
    <3>. QED
      BY <3>1, <3>2 DEF Addresses, Filled, Words
  <2>. QED
    BY <1>4, <2>1, <2>2 DEF FollowLink
<1>12. CASE ToggleAdvanced
  BY <1>1, <1>2, <1>3, <1>12 DEF ToggleAdvanced
<1>13. CASE UNCHANGED formVars
  BY <1>1, <1>3, <1>13 DEF formVars
<1>. QED
  BY <1>6, <1>7, <1>8, <1>9, <1>10, <1>11, <1>12, <1>13 DEF FormNext

LEMMA FormInvHolds ==
    ASSUME FormAssumption
    PROVE  FormSpec => []FormInv
<1>1. FormInit => FormInv
  BY FormInitially
<1>2. FormInv /\ [FormNext]_formVars => FormInv'
  BY FormStep
<1>. QED
  BY <1>1, <1>2, PTL DEF FormSpec

\* The filter form and the address keep their types (image-list-page.tsx).
THEOREM FormTypes ==
    ASSUME FormAssumption
    PROVE  FormSpec => []FormTypeOK
<1>1. FormInv => FormTypeOK
  BY DEF FormInv
<1>. QED
  BY <1>1, FormInvHolds, PTL

\* In any time zone and for any size: unless somebody has edited it or made
\* the address by hand, the form stands for the address; and the form of any
\* address settles when it is applied (image-list-page.tsx).
THEOREM FormIsTheAddress ==
    ASSUME FormAssumption
    PROVE  FormSpec => []FormStandsForAddress
<1>1. FormInv => FormStandsForAddress
  <2>1. SUFFICES ASSUME FormInv PROVE ApplyingSettles
    BY DEF FormInv, FormStandsForAddress
  <2>2. FormOf(address) \in Forms
    BY <2>1, FormIsTyped DEF FormInv, FormTypeOK, Addresses
  <2>. QED
    BY <2>1, <2>2, AddressComesBack DEF FormInv, FormTypeOK, ApplyingSettles
<1>. QED
  BY <1>1, FormInvHolds, PTL

-----------------------------------------------------------------------------
(* LibraryHistory: sequences.                                              *)

\* The members of a sequence are its elements.
LEMMA MembersOf ==
    ASSUME NEW S, NEW s \in Seq(S)
    PROVE  /\ Len(s) \in Nat /\ DOMAIN s = 1..Len(s)
           /\ \A i \in 1..Len(s) : s[i] \in S
           /\ ToSet(s) = {s[i] : i \in 1..Len(s)} /\ ToSet(s) \subseteq S
<1>1. DOMAIN s = 1..Len(s) /\ Len(s) \in Nat /\ \A i \in 1..Len(s) : s[i] \in S
  BY LenProperties, ElementOfSeq
<1>. QED
  BY <1>1 DEF ToSet

\* RemoveAt takes one element out and leaves the others in their order.
LEMMA OneIsRemoved ==
    ASSUME NEW S, NEW s \in Seq(S), NEW k \in 1..Len(s), NEW t, t = RemoveAt(s, k)
    PROVE  /\ t \in Seq(S) /\ Len(t) = Len(s) - 1
           /\ \A i \in 1..Len(t) : t[i] = IF i < k THEN s[i] ELSE s[i + 1]
<1>1. Len(s) \in Nat \ {0} /\ k \in Nat /\ k - 1 \in Nat
  BY LenProperties
<1> DEFINE front == SubSeq(s, 1, k - 1)
           back == SubSeq(s, k + 1, Len(s))
<1>2. /\ front \in Seq(S) /\ Len(front) = k - 1
      /\ \A i \in 1..(k - 1) : front[i] = s[i]
  <2>1. CASE k = 1
    BY <1>1, <2>1, SubSeqEmpty, SubSeqProperties, EmptySeq
  <2>2. CASE k # 1
    BY <1>1, <2>2, SubSeqProperties
  <2>. QED
    BY <2>1, <2>2
<1>3. /\ back \in Seq(S) /\ Len(back) = Len(s) - k
      /\ \A i \in 1..(Len(s) - k) : back[i] = s[k + i]
  <2>1. CASE k = Len(s)
    BY <1>1, <2>1, SubSeqEmpty, SubSeqProperties, EmptySeq
  <2>2. CASE k # Len(s)
    BY <1>1, <2>2, SubSeqProperties
  <2>. QED
    BY <2>1, <2>2
<1> HIDE DEF front, back
<1>4. t = front \o back
  BY DEF RemoveAt, front, back
<1>5. /\ front \o back \in Seq(S) /\ Len(front \o back) = Len(front) + Len(back)
      /\ \A i \in 1..(Len(front) + Len(back)) :
            (front \o back)[i] = IF i <= Len(front) THEN front[i] ELSE back[i - Len(front)]
  <2>1. front \in Seq(S) /\ back \in Seq(S)
    BY <1>2, <1>3
  <2>. QED
    BY ONLY <2>1, ConcatProperties, Zenon
<1>6. /\ t \in Seq(S) /\ Len(t) = Len(s) - 1
      /\ \A i \in 1..(Len(s) - 1) : t[i] = IF i <= k - 1 THEN front[i] ELSE back[i - (k - 1)]
  <2>1. Len(front) + Len(back) = Len(s) - 1
    BY <1>1, <1>2, <1>3
  <2>2. Len(front) = k - 1
    BY <1>2
  <2>. QED
    BY <1>4, <1>5, <2>1, <2>2
<1>7. ASSUME NEW i \in 1..Len(t) PROVE t[i] = IF i < k THEN s[i] ELSE s[i + 1]
  <2>1. CASE i < k
    <3>1. i \in 1..(Len(s) - 1) /\ i <= k - 1 /\ i \in 1..(k - 1)
      BY <1>1, <1>6, <2>1
    <3>. QED
      BY <1>2, <1>6, <2>1, <3>1
  <2>2. CASE ~(i < k)
    <3>1. i - (k - 1) \in 1..(Len(s) - k) /\ k + (i - (k - 1)) = i + 1
      BY <1>1, <1>6, <2>2
    <3>2. i \in 1..(Len(s) - 1) /\ ~(i <= k - 1)
      BY <1>1, <1>6, <2>2
    <3>3. t[i] = back[i - (k - 1)]
      BY <1>6, <3>2
    <3>. QED
      BY <1>3, <2>2, <3>1, <3>3
  <2>. QED
    BY <2>1, <2>2
<1>. QED
  BY <1>6, <1>7

\* The remembered positions have one for each entry.
Positions == [key : Keys, count : 0..TotalImages]
OnePerKey(s) == s \in Seq(Positions) /\ \A i, j \in 1..Len(s) : s[i].key = s[j].key => i = j

\* PlaceOf finds the place of a remembered key.
LEMMA PlaceIsThere ==
    ASSUME OnePerKey(scrollPositions), NEW k, k \in Remembered
    PROVE  PlaceOf(k) \in 1..Len(scrollPositions) /\ scrollPositions[PlaceOf(k)].key = k
<1>1. PICK n \in 1..Len(scrollPositions) : scrollPositions[n].key = k
  BY MembersOf DEF Remembered, OnePerKey
<1>. QED
  BY <1>1 DEF PlaceOf

\* What is forgotten is gone, and nothing else.
LEMMA Forgets ==
    ASSUME OnePerKey(scrollPositions), NEW k, NEW t, t = Without(k)
    PROVE  /\ OnePerKey(t) /\ Len(t) \in Nat /\ Len(t) <= Len(scrollPositions)
           /\ ToSet(t) \subseteq {p \in ToSet(scrollPositions) : p.key # k}
<1> DEFINE s == scrollPositions
           n == PlaceOf(k)
<1>1. /\ s \in Seq(Positions) /\ Len(s) \in Nat /\ ToSet(s) = {s[i] : i \in 1..Len(s)}
      /\ \A i, j \in 1..Len(s) : s[i].key = s[j].key => i = j
  BY MembersOf DEF OnePerKey
<1>2. CASE k \notin Remembered
  BY <1>1, <1>2 DEF Without, Remembered
<1>3. CASE k \in Remembered
  <2>1. n \in 1..Len(s) /\ s[n].key = k /\ t = RemoveAt(s, n)
    BY <1>3, PlaceIsThere DEF Without
  <2> HIDE DEF s, n
  <2>2. /\ t \in Seq(Positions) /\ Len(t) = Len(s) - 1
        /\ \A i \in 1..Len(t) : t[i] = IF i < n THEN s[i] ELSE s[i + 1]
    <3>1. s \in Seq(Positions)
      BY <1>1
    <3>. QED
      BY ONLY <2>1, <3>1, OneIsRemoved, Zenon
  <2>3. ToSet(t) = {t[i] : i \in 1..Len(t)}
    BY <2>2, MembersOf
  <2>4. ASSUME NEW i \in 1..Len(t)
        PROVE  \E j \in 1..Len(s) : j = (IF i < n THEN i ELSE i + 1) /\ t[i] = s[j] /\ j # n
    BY <1>1, <2>1, <2>2
  <2>5. \A i, j \in 1..Len(t) : t[i].key = t[j].key => i = j
    <3>1. SUFFICES ASSUME NEW i \in 1..Len(t), NEW j \in 1..Len(t), t[i].key = t[j].key PROVE i = j
      OBVIOUS
    <3>2. i \in Nat /\ j \in Nat /\ n \in Nat
      BY <1>1, <2>1, <2>2
    <3>3. (IF i < n THEN i ELSE i + 1) = (IF j < n THEN j ELSE j + 1)
      BY <1>1, <2>4, <3>1
    <3>. QED
      BY <3>2, <3>3
  <2>6. ToSet(t) \subseteq {p \in ToSet(s) : p.key # k}
    BY <1>1, <2>1, <2>3, <2>4
  <2>. QED
    BY <1>1, <2>2, <2>5, <2>6 DEF OnePerKey, s
<1>. QED
  BY <1>2, <1>3

\* rememberScroll adds one position and forgets at most the oldest one.
LEMMA Remembers ==
    ASSUME HistoryAssumption, OnePerKey(scrollPositions), Len(scrollPositions) <= ScrollLimit,
           NEW k \in Keys, NEW c \in 0..TotalImages, rememberScroll(k, c)
    PROVE  /\ OnePerKey(scrollPositions') /\ Len(scrollPositions') <= ScrollLimit
           /\ ToSet(scrollPositions') \subseteq ToSet(scrollPositions) \cup {[key |-> k, count |-> c]}
<1> DEFINE w == Without(k)
           p == [key |-> k, count |-> c]
           kept == Append(w, p)
<1>1. /\ OnePerKey(w) /\ Len(w) \in Nat /\ Len(w) <= Len(scrollPositions)
      /\ ToSet(w) \subseteq {x \in ToSet(scrollPositions) : x.key # k}
  BY Forgets
<1>2. scrollPositions' = IF Len(kept) > ScrollLimit THEN Tail(kept) ELSE kept
  BY DEF rememberScroll
<1>3. p \in Positions /\ p.key = k /\ Len(scrollPositions) \in Nat /\ ScrollLimit \in Nat
  BY MembersOf DEF Positions, OnePerKey, HistoryAssumption
<1> HIDE DEF w, p
<1>4. /\ w \in Seq(Positions) /\ ToSet(w) = {w[i] : i \in 1..Len(w)}
      /\ \A i, j \in 1..Len(w) : w[i].key = w[j].key => i = j
      /\ \A i \in 1..Len(w) : w[i].key # k /\ w[i] \in ToSet(scrollPositions)
  BY <1>1, MembersOf DEF OnePerKey
<1>5. /\ kept \in Seq(Positions) /\ Len(kept) = Len(w) + 1 /\ kept # <<>>
      /\ kept[Len(w) + 1] = p /\ \A i \in 1..Len(w) : kept[i] = w[i]
  BY <1>3, <1>4, AppendProperties, EmptySeq
<1> HIDE DEF kept
<1>6. \A i, j \in 1..Len(kept) : kept[i].key = kept[j].key => i = j
  <2>1. SUFFICES ASSUME NEW i \in 1..Len(kept), NEW j \in 1..Len(kept), kept[i].key = kept[j].key
                 PROVE  i = j
    OBVIOUS
  <2>2. (i \in 1..Len(w) \/ i = Len(w) + 1) /\ (j \in 1..Len(w) \/ j = Len(w) + 1)
    BY <1>1, <1>5
  <2>. QED
    BY <1>3, <1>4, <1>5, <2>1, <2>2
<1>7. \A i \in 1..Len(kept) : kept[i] \in ToSet(scrollPositions) \cup {p}
  <2>1. \A i \in 1..Len(kept) : i \in 1..Len(w) \/ i = Len(w) + 1
    BY <1>1, <1>5
  <2>. QED
    BY <1>4, <1>5, <2>1
<1>8. CASE Len(kept) > ScrollLimit
  <2> DEFINE t == Tail(kept)
  <2>1. t \in Seq(Positions) /\ Len(t) = Len(w) /\ \A i \in 1..Len(t) : t[i] = kept[i + 1]
    BY <1>1, <1>5, HeadTailProperties
  <2> HIDE DEF t
  <2>2. \A i \in 1..Len(t) : i + 1 \in 1..Len(kept) /\ i \in Nat
    BY <1>1, <1>5, <2>1
  <2>3. ToSet(t) = {t[i] : i \in 1..Len(t)}
    BY <2>1, MembersOf
  <2>4. \A i, j \in 1..Len(t) : t[i].key = t[j].key => i = j
    <3>1. SUFFICES ASSUME NEW i \in 1..Len(t), NEW j \in 1..Len(t), t[i].key = t[j].key PROVE i = j
      OBVIOUS
    <3>2. i + 1 = j + 1
      BY <1>6, <2>1, <2>2, <3>1
    <3>. QED
      BY <2>2, <3>2
  <2>. QED
    BY <1>1, <1>2, <1>3, <1>7, <1>8, <2>1, <2>2, <2>3, <2>4 DEF OnePerKey, t, p
<1>9. CASE ~(Len(kept) > ScrollLimit)
  <2>1. ToSet(kept) = {kept[i] : i \in 1..Len(kept)}
    BY <1>5, MembersOf
  <2>. QED
    BY <1>1, <1>2, <1>3, <1>5, <1>6, <1>7, <1>9, <2>1 DEF OnePerKey, p
<1>. QED
  BY <1>8, <1>9

-----------------------------------------------------------------------------
(* The invariant.                                                          *)

\* What the list of the page may be.
ListStates == [status : {"pending", "success", "error"}, loaded : 0..TotalImages,
               next : BOOLEAN, fetching : BOOLEAN]

\* An entry that is in the history, or whose page is still shown, has its
\* key to itself.
Made == ToSet(history) \cup {committed}
EntriesDiffer ==
    /\ history \in Seq(Entries) /\ index \in 1..Len(history)
    /\ keys \in Keys /\ committed \in Entries /\ currentEntry \in Keys \cup {None}
    /\ \A e \in Made : e.key <= keys
    /\ \A d, e \in Made : d.key = e.key => d = e

\* Positions are remembered for entries of the library only.
PositionsAreOfLists ==
    /\ OnePerKey(scrollPositions) /\ Len(scrollPositions) <= ScrollLimit
    /\ \A p \in ToSet(scrollPositions) :
          p.key <= keys /\ \A e \in Made : e.page = "detail" => e.key # p.key

\* The types of the rest.
OthersAreTyped ==
    /\ deletion \in [Keys -> {"none", "sent", "refreshing", "done"}]
    /\ listQuery \in ListStates
    /\ total \in 0..TotalImages

\* A detail page that was opened from the library has it one entry below.
LibraryIsBelow ==
    \A i \in 1..Len(history) : history[i].fromImageList => i > 1 /\ history[i - 1].page = "list"

\* A detail page means to return only while it is shown and the browser has
\* not moved in the history; then its entry is the current one, or the last
\* one before pushes.
ReturnIsMeant ==
    /\ popped \in BOOLEAN
    /\ currentEntry # None =>
          /\ currentEntry = committed.key /\ ~popped
          /\ deletion[currentEntry] # "done" =>
                \E i \in 1..index : /\ history[i].key = currentEntry
                                    /\ i = index \/ index = Len(history)

\* The invariant of the history.
HistoryInv ==
    /\ EntriesDiffer
    /\ PositionsAreOfLists
    /\ OthersAreTyped
    /\ LibraryIsBelow
    /\ ReturnIsMeant
    /\ RestorationProceeds

-----------------------------------------------------------------------------
(* The ways the history moves.                                             *)

\* The current entry is replaced by one of the library.
Replaces ==
    /\ keys < MaxEntries
    /\ keys' = keys + 1
    /\ history' = [history EXCEPT ![index] =
          [key |-> keys + 1, page |-> "list", fromImageList |-> FALSE]]
    /\ UNCHANGED <<index, committed, currentEntry, popped>>

\* The entry that is shown is the one the history is at.
Commits ==
    /\ committed' = Here
    /\ currentEntry' = IF Here.page = "detail" THEN Here.key ELSE None
    /\ popped' = FALSE
    /\ UNCHANGED <<history, index, keys>>

\* An entry is added after the current one; what comes from the library is
\* added after an entry of it.
Pushes ==
    \E p \in {"list", "detail"}, b \in BOOLEAN :
        Push(p, b) /\ (b => Here.page = "list") /\ UNCHANGED currentEntry

\* What a move keeps: entries stay as they are, and a new one has a new key.
EntriesAreKept ==
    /\ keys' \in Nat /\ keys <= keys'
    /\ \A e \in Made' : e \in Made \/ (e.key > keys /\ e \in Entries)

\* The next key is nobody's.
LEMMA NewKey ==
    ASSUME HistoryAssumption, EntriesDiffer, keys < MaxEntries,
           NEW p \in {"list", "detail"}, NEW b \in BOOLEAN,
           NEW e, e = [key |-> keys + 1, page |-> p, fromImageList |-> b]
    PROVE  /\ e \in Entries /\ e.key = keys + 1 /\ e.key > keys /\ keys + 1 \in Keys
           /\ keys \in Nat /\ MaxEntries \in Nat
<1>1. MaxEntries \in Nat /\ keys \in 1..MaxEntries
  BY DEF HistoryAssumption, EntriesDiffer, Keys
<1>2. keys + 1 \in Keys
  BY <1>1 DEF Keys
<1>. QED
  BY <1>1, <1>2 DEF Entries

\* What was made are entries.
LEMMA MadeAreEntries ==
    ASSUME EntriesDiffer
    PROVE  Made \subseteq Entries /\ \A e \in Made : e.page \in {"list", "detail"} /\ e.key \in Keys
<1>1. Made \subseteq Entries
  BY MembersOf DEF EntriesDiffer, Made
<1>2. \A e \in Entries : e.page \in {"list", "detail"} /\ e.key \in Keys
  BY DEF Entries
<1>. QED
  BY <1>1, <1>2

\* An entry more, with a new key, leaves the entries distinct.
LEMMA OneMoreEntry ==
    ASSUME HistoryAssumption, EntriesDiffer, keys < MaxEntries, keys' = keys + 1,
           NEW e \in Entries, e.key = keys + 1, Made' \subseteq Made \cup {e},
           history' \in Seq(Entries), index' \in 1..Len(history'),
           committed' \in Entries, currentEntry' \in Keys \cup {None}
    PROVE  EntriesDiffer' /\ EntriesAreKept
<1>1. keys \in Nat /\ keys + 1 \in Keys
  BY NewKey
<1>2. \A d \in Made : d \in Entries /\ d.key \in Nat /\ d.key <= keys
  BY MadeAreEntries DEF EntriesDiffer, Keys
<1>3. \A d \in Made' : d.key <= keys + 1
  BY <1>1, <1>2
<1>4. \A c, d \in Made' : c.key = d.key => c = d
  BY <1>1, <1>2 DEF EntriesDiffer
<1>5. EntriesDiffer'
  BY <1>1, <1>3, <1>4 DEF EntriesDiffer
<1>6. EntriesAreKept
  BY <1>1, <1>2 DEF EntriesAreKept
<1>. QED
  BY <1>5, <1>6

\* A new entry differs from the others.
LEMMA PushStep ==
    ASSUME HistoryAssumption, EntriesDiffer, Pushes
    PROVE  /\ EntriesDiffer' /\ EntriesAreKept
           /\ index' = Len(history') /\ index \in 1..index'
           /\ \A i \in 1..index : history'[i] = history[i]
           /\ UNCHANGED <<committed, currentEntry, popped>>
           /\ LibraryIsBelow => LibraryIsBelow'
<1>1. PICK p \in {"list", "detail"}, b \in BOOLEAN :
         Push(p, b) /\ (b => Here.page = "list") /\ UNCHANGED currentEntry
  BY DEF Pushes
<1> DEFINE e == [key |-> keys + 1, page |-> p, fromImageList |-> b]
           front == SubSeq(history, 1, index)
<1>2. /\ keys < MaxEntries /\ keys' = keys + 1 /\ history' = Append(front, e)
      /\ index' = index + 1 /\ UNCHANGED <<committed, currentEntry, popped>>
  BY <1>1 DEF Push
<1>3. e \in Entries /\ e.key = keys + 1 /\ (e.fromImageList => Here.page = "list")
  BY <1>1, <1>2, NewKey
<1> HIDE DEF e
<1>4. history \in Seq(Entries) /\ Len(history) \in Nat /\ index \in 1..Len(history)
      /\ \A i \in 1..Len(history) : history[i] \in ToSet(history)
  BY MembersOf DEF EntriesDiffer
<1>5. /\ front \in Seq(Entries) /\ Len(front) = index
      /\ \A i \in 1..index : front[i] = history[i]
  BY <1>4, SubSeqProperties
<1> HIDE DEF front
<1>6. /\ history' \in Seq(Entries) /\ Len(history') = index + 1 /\ history'[index + 1] = e
      /\ \A i \in 1..index : history'[i] = history[i]
  BY <1>2, <1>3, <1>5, AppendProperties
<1>7. Made' \subseteq Made \cup {e}
  <2>1. ToSet(history') = {history'[i] : i \in 1..Len(history')}
    BY <1>6, MembersOf
  <2>2. \A i \in 1..Len(history') : i \in 1..index \/ i = index + 1
    BY <1>4, <1>6
  <2>3. \A i \in 1..index : i \in 1..Len(history)
    BY <1>4
  <2>4. ToSet(history') \subseteq ToSet(history) \cup {e}
    BY <1>4, <1>6, <2>1, <2>2, <2>3
  <2>. QED
    BY <1>2, <2>4 DEF Made
<1>8. /\ index' \in 1..Len(history') /\ index' = Len(history') /\ index \in 1..index'
      /\ committed' \in Entries /\ currentEntry' \in Keys \cup {None}
  BY <1>2, <1>4, <1>6 DEF EntriesDiffer
<1>9. EntriesDiffer' /\ EntriesAreKept
  BY <1>2, <1>3, <1>6, <1>7, <1>8, OneMoreEntry
<1>10. ASSUME LibraryIsBelow PROVE LibraryIsBelow'
  <2>1. SUFFICES ASSUME NEW i \in 1..Len(history'), history'[i].fromImageList
                 PROVE  i > 1 /\ history'[i - 1].page = "list"
    BY DEF LibraryIsBelow
  <2>2. CASE i \in 1..index
    <3>1. i > 1 /\ history[i - 1].page = "list"
      BY <1>4, <1>6, <1>10, <2>1, <2>2 DEF LibraryIsBelow
    <3>. QED
      BY <1>4, <1>6, <2>2, <3>1
  <2>3. CASE i = index + 1
    BY <1>3, <1>4, <1>6, <2>1, <2>3 DEF Here
  <2>. QED
    BY <1>4, <1>6, <2>2, <2>3
<1>. QED
  BY <1>2, <1>6, <1>8, <1>9, <1>10

\* So does one that replaces another.
LEMMA ReplaceStep ==
    ASSUME HistoryAssumption, EntriesDiffer, Replaces
    PROVE  EntriesDiffer' /\ EntriesAreKept /\ (LibraryIsBelow => LibraryIsBelow')
<1> DEFINE e == [key |-> keys + 1, page |-> "list", fromImageList |-> FALSE]
<1>1. /\ keys < MaxEntries /\ keys' = keys + 1 /\ history' = [history EXCEPT ![index] = e]
      /\ UNCHANGED <<index, committed, currentEntry>>
  BY DEF Replaces
<1>2. e \in Entries /\ e.key = keys + 1 /\ e.page = "list" /\ ~e.fromImageList
  BY <1>1, NewKey
<1> HIDE DEF e
<1>3. history \in Seq(Entries) /\ Len(history) \in Nat /\ index \in 1..Len(history)
      /\ DOMAIN history = 1..Len(history)
      /\ \A i \in 1..Len(history) : history[i] \in ToSet(history)
  BY MembersOf DEF EntriesDiffer
<1>4. /\ history' \in Seq(Entries) /\ Len(history') = Len(history)
      /\ \A i \in 1..Len(history) : history'[i] = IF i = index THEN e ELSE history[i]
  BY <1>1, <1>2, <1>3, ExceptSeq
<1>5. Made' \subseteq Made \cup {e}
  <2>1. ToSet(history') = {history'[i] : i \in 1..Len(history')}
    BY <1>4, MembersOf
  <2>2. ToSet(history') \subseteq ToSet(history) \cup {e}
    BY <1>3, <1>4, <2>1
  <2>. QED
    BY <1>1, <2>2 DEF Made
<1>6. /\ index' \in 1..Len(history')
      /\ committed' \in Entries /\ currentEntry' \in Keys \cup {None}
  BY <1>1, <1>3, <1>4 DEF EntriesDiffer
<1>7. LibraryIsBelow => LibraryIsBelow'
  BY <1>2, <1>3, <1>4 DEF LibraryIsBelow
<1>. QED
  BY <1>1, <1>2, <1>4, <1>5, <1>6, <1>7, OneMoreEntry

\* A move among the entries that are there.
LEMMA SameEntries ==
    ASSUME EntriesDiffer, UNCHANGED <<history, keys>>, Made' \subseteq Made,
           index' \in 1..Len(history'), committed' \in Entries,
           currentEntry' \in Keys \cup {None}, HistoryAssumption
    PROVE  EntriesDiffer' /\ EntriesAreKept
<1>1. keys \in Nat
  BY DEF EntriesDiffer, Keys, HistoryAssumption
<1>. QED
  BY <1>1 DEF EntriesDiffer, EntriesAreKept

\* The user goes back or forward.
LEMMA PopStep ==
    ASSUME HistoryAssumption, EntriesDiffer, NEW i, Pop(i)
    PROVE  EntriesDiffer' /\ EntriesAreKept /\ currentEntry' = None /\ UNCHANGED committed
<1>1. Made' = Made /\ UNCHANGED <<history, keys, committed>> /\ index' \in 1..Len(history')
      /\ currentEntry' = None
  BY DEF Pop, Made
<1>. QED
  BY <1>1, SameEntries DEF EntriesDiffer

\* The page of the entry is shown.
LEMMA CommitStep ==
    ASSUME HistoryAssumption, EntriesDiffer, Commits
    PROVE  EntriesDiffer' /\ EntriesAreKept /\ Here \in Made
<1>1. Here \in ToSet(history) /\ Here \in Entries
  BY MembersOf DEF EntriesDiffer, Here
<1>2. Here.key \in Keys
  BY <1>1 DEF Entries
<1>3. Made' \subseteq Made /\ UNCHANGED <<history, keys, index>>
  BY <1>1 DEF Commits, Made
<1>4. committed' \in Entries /\ currentEntry' \in Keys \cup {None}
  BY <1>1, <1>2 DEF Commits
<1>5. index' \in 1..Len(history')
  BY <1>3 DEF EntriesDiffer
<1>. QED
  BY <1>1, <1>3, <1>4, <1>5, SameEntries DEF Made

\* Nothing moves.
LEMMA StayStep ==
    ASSUME HistoryAssumption, EntriesDiffer, UNCHANGED navVars
    PROVE  EntriesDiffer' /\ EntriesAreKept
<1>1. Made' = Made /\ UNCHANGED <<history, keys, committed, currentEntry, index>>
  BY DEF navVars, Made
<1>. QED
  BY <1>1, SameEntries DEF EntriesDiffer

-----------------------------------------------------------------------------
(* The list and its remembered positions.                                  *)

\* No position is remembered anew.
PositionsStay == OnePerKey(scrollPositions') /\ Len(scrollPositions') <= ScrollLimit
                 /\ ToSet(scrollPositions') \subseteq ToSet(scrollPositions)

\* Restore ends with a position of entry e only if it fetches the pages that
\* are missing.
LEMMA RestoreStep ==
    ASSUME HistoryAssumption, PositionsAreOfLists, EntriesDiffer, NEW e \in Made,
           NEW l \in ListStates, Restore(l, e)
    PROVE  /\ listQuery' \in ListStates /\ PositionsStay
           /\ \A p \in ToSet(scrollPositions') :
                 p.key = e.key /\ listQuery'.status = "success"
                 /\ p.count > listQuery'.loaded /\ listQuery'.next => listQuery'.fetching
<1>1. /\ OnePerKey(scrollPositions) /\ Len(scrollPositions) <= ScrollLimit
      /\ Len(scrollPositions) \in Nat /\ ScrollLimit \in Nat
      /\ ToSet(scrollPositions) = {scrollPositions[i] : i \in 1..Len(scrollPositions)}
      /\ \A i, j \in 1..Len(scrollPositions) :
            scrollPositions[i].key = scrollPositions[j].key => i = j
  BY MembersOf DEF PositionsAreOfLists, OnePerKey, HistoryAssumption
<1>2. e.page = "list" \/ e.page = "detail"
  BY MadeAreEntries
<1>3. CASE e.page # "list" \/ l.status # "success" \/ e.key \notin Remembered
  <2>1. listQuery' = l /\ scrollPositions' = scrollPositions
    BY <1>3 DEF Restore
  <2>2. l.status # "success" \/ \A p \in ToSet(scrollPositions) : p.key # e.key
    BY <1>2, <1>3 DEF PositionsAreOfLists, Remembered
  <2>. QED
    BY <1>1, <2>1, <2>2 DEF PositionsStay
<1>4. CASE ~(e.page # "list" \/ l.status # "success" \/ e.key \notin Remembered)
  <2>1. CASE l.loaded < scrollPositions[PlaceOf(e.key)].count /\ l.next
    <3>1. listQuery' = [l EXCEPT !.fetching = TRUE] /\ scrollPositions' = scrollPositions
      BY <1>4, <2>1 DEF Restore
    <3>2. listQuery' \in ListStates /\ listQuery'.fetching = TRUE
      BY <3>1 DEF ListStates
    <3>. QED
      BY <1>1, <3>1, <3>2 DEF PositionsStay
  <2>2. CASE ~(l.loaded < scrollPositions[PlaceOf(e.key)].count /\ l.next)
    <3>1. listQuery' = l /\ scrollPositions' = Without(e.key)
      BY <1>4, <2>2 DEF Restore
    <3>2. /\ OnePerKey(scrollPositions') /\ Len(scrollPositions') \in Nat
          /\ Len(scrollPositions') <= Len(scrollPositions)
          /\ ToSet(scrollPositions') \subseteq {p \in ToSet(scrollPositions) : p.key # e.key}
      BY <1>1, <3>1, Forgets
    <3>. QED
      BY <1>1, <3>1, <3>2 DEF PositionsStay
  <2>. QED
    BY <2>1, <2>2
<1>. QED
  BY <1>3, <1>4

\* The list keeps its types.
LEMMA ListIsTyped ==
    ASSUME HistoryAssumption, OthersAreTyped
    PROVE  /\ ListRefetched \in ListStates /\ Unloaded \in ListStates
           /\ [Unloaded EXCEPT !.status = "error"] \in ListStates
           /\ [listQuery EXCEPT !.fetching = TRUE] \in ListStates
           /\ [listQuery EXCEPT !.fetching = FALSE, !.status = "error"] \in ListStates
           /\ [listQuery EXCEPT !.status = "error", !.fetching = FALSE] \in ListStates
           /\ [status |-> "success", loaded |-> Least(listQuery.loaded + 1, TotalImages),
               next |-> listQuery.loaded + 1 < total, fetching |-> FALSE] \in ListStates
<1>1. /\ TotalImages \in Nat /\ total \in 0..TotalImages /\ listQuery.loaded \in 0..TotalImages
      /\ listQuery \in ListStates
  BY DEF HistoryAssumption, OthersAreTyped, ListStates
<1>2. Least(listQuery.loaded + 1, TotalImages) \in 0..TotalImages
  BY <1>1 DEF Least
<1>3. ListRefetched \in ListStates
  <2> DEFINE n == Least(IF listQuery.loaded = 0 THEN 1 ELSE listQuery.loaded, total)
  <2>1. n \in 0..TotalImages
    BY <1>1 DEF Least
  <2>. QED
    BY <2>1 DEF ListRefetched, ListStates
<1>4. Unloaded \in ListStates /\ [Unloaded EXCEPT !.status = "error"] \in ListStates
  <2>1. 0 \in 0..TotalImages
    BY <1>1
  <2>. QED
    BY <2>1 DEF Unloaded, ListStates
<1>5. /\ [listQuery EXCEPT !.fetching = TRUE] \in ListStates
      /\ [listQuery EXCEPT !.fetching = FALSE, !.status = "error"] \in ListStates
      /\ [listQuery EXCEPT !.status = "error", !.fetching = FALSE] \in ListStates
  BY <1>1 DEF ListStates
<1>6. [status |-> "success", loaded |-> Least(listQuery.loaded + 1, TotalImages),
       next |-> listQuery.loaded + 1 < total, fetching |-> FALSE] \in ListStates
  BY <1>2 DEF ListStates
<1>. QED
  BY <1>3, <1>4, <1>5, <1>6

\* Positions stay those of lists when entries are kept and none is remembered
\* anew.
LEMMA PositionsStayOfLists ==
    ASSUME HistoryAssumption, EntriesDiffer, PositionsAreOfLists, EntriesAreKept, PositionsStay
    PROVE  PositionsAreOfLists'
<1>1. \A p \in ToSet(scrollPositions') : p \in ToSet(scrollPositions) /\ p.key \in Nat
  <2>1. \A p \in ToSet(scrollPositions) : p \in Positions
    BY MembersOf DEF PositionsAreOfLists, OnePerKey
  <2>2. \A p \in Positions : p.key \in Nat
    BY DEF Positions, Keys
  <2>. QED
    BY <2>1, <2>2 DEF PositionsStay
<1>2. keys \in Nat
  BY DEF EntriesDiffer, Keys, HistoryAssumption
<1>3. \A e \in Made' : e \in Made \/ (e.key > keys /\ e.key \in Nat)
  BY DEF EntriesAreKept, Entries, Keys
<1>4. ASSUME NEW p \in ToSet(scrollPositions') PROVE p.key <= keys'
  BY <1>1, <1>2 DEF EntriesAreKept, PositionsAreOfLists
<1>5. ASSUME NEW p \in ToSet(scrollPositions'), NEW e \in Made', e.page = "detail"
      PROVE  e.key # p.key
  BY <1>1, <1>2, <1>3, <1>5 DEF PositionsAreOfLists
<1>. QED
  BY <1>4, <1>5 DEF PositionsAreOfLists, PositionsStay

\* A library that is left or opened elsewhere remembers its position.
LEMMA RememberStep ==
    ASSUME HistoryAssumption, EntriesDiffer, PositionsAreOfLists, OthersAreTyped, EntriesAreKept,
           RestorationProceeds, committed.page = "list", committed' = committed,
           rememberScroll(committed.key, listQuery.loaded), listQuery' = listQuery
    PROVE  PositionsAreOfLists' /\ RestorationProceeds'
<1> DEFINE p0 == [key |-> committed.key, count |-> listQuery.loaded]
<1>1. committed.key \in Keys /\ listQuery.loaded \in 0..TotalImages /\ TotalImages \in Nat
  BY DEF EntriesDiffer, Entries, OthersAreTyped, ListStates, HistoryAssumption
<1>2. /\ OnePerKey(scrollPositions') /\ Len(scrollPositions') <= ScrollLimit
      /\ ToSet(scrollPositions') \subseteq ToSet(scrollPositions) \cup {p0}
  BY <1>1, Remembers DEF PositionsAreOfLists
<1>3. p0.key = committed.key /\ p0.count = listQuery.loaded
  OBVIOUS
<1> HIDE DEF p0
<1>4. \A p \in ToSet(scrollPositions) : p.key \in Nat
  <2>1. \A p \in ToSet(scrollPositions) : p \in Positions
    BY MembersOf DEF PositionsAreOfLists, OnePerKey
  <2>2. \A p \in Positions : p.key \in Nat
    BY DEF Positions, Keys
  <2>. QED
    BY <2>1, <2>2
<1>5. keys \in Nat /\ committed.key \in Nat /\ committed.key <= keys /\ committed \in Made
  BY <1>1 DEF EntriesDiffer, Keys, HistoryAssumption, Made
<1>6. \A e \in Made' : e \in Made \/ (e.key > keys /\ e.key \in Nat)
  BY DEF EntriesAreKept, Entries, Keys
<1>7. ASSUME NEW p \in ToSet(scrollPositions') PROVE p.key <= keys'
  BY <1>2, <1>3, <1>4, <1>5 DEF EntriesAreKept, PositionsAreOfLists
<1>8. ASSUME NEW p \in ToSet(scrollPositions'), NEW e \in Made', e.page = "detail"
      PROVE  e.key # p.key
  <2>1. CASE p = p0
    BY <1>3, <1>5, <1>6, <1>8, <2>1 DEF EntriesDiffer
  <2>2. CASE p \in ToSet(scrollPositions)
    BY <1>4, <1>5, <1>6, <1>8, <2>2 DEF PositionsAreOfLists
  <2>. QED
    BY <1>2, <2>1, <2>2
<1>9. PositionsAreOfLists'
  BY <1>2, <1>7, <1>8 DEF PositionsAreOfLists
<1>10. RestorationProceeds'
  BY <1>1, <1>2, <1>3 DEF RestorationProceeds
<1>. QED
  BY <1>9, <1>10

-----------------------------------------------------------------------------
(* The steps.                                                              *)

\* The moves, and what may be asked of the deletion besides.
Moves ==
    \/ UNCHANGED navVars
    \/ Pushes
    \/ \E i : Pop(i)
    \/ Commits
    \/ Replaces /\ currentEntry # None /\ deletion'[currentEntry] = "done"

\* What is done is never done again.
DeletionAdvances == \A k \in Keys : deletion[k] = "done" => deletion'[k] = "done"

\* A move keeps the entries apart and the library below its images, and
\* withdraws the return of a page that is no longer the current one.
LEMMA MoveStep ==
    ASSUME HistoryAssumption, HistoryInv, Moves, DeletionAdvances
    PROVE  EntriesDiffer' /\ EntriesAreKept /\ LibraryIsBelow' /\ ReturnIsMeant'
<1>1. EntriesDiffer /\ LibraryIsBelow /\ ReturnIsMeant
  BY DEF HistoryInv
<1>2. history \in Seq(Entries) /\ Len(history) \in Nat /\ index \in 1..Len(history)
      /\ currentEntry \in Keys \cup {None}
  BY <1>1, MembersOf DEF EntriesDiffer
<1>3. ASSUME currentEntry # None, deletion'[currentEntry] # "done"
      PROVE  \E i \in 1..index : /\ history[i].key = currentEntry
                                 /\ i = index \/ index = Len(history)
  BY <1>1, <1>2, <1>3 DEF DeletionAdvances, ReturnIsMeant
<1>4. ASSUME UNCHANGED history PROVE LibraryIsBelow'
  BY <1>1, <1>4 DEF LibraryIsBelow
<1>5. CASE UNCHANGED navVars
  <2>1. UNCHANGED <<history, index, committed, currentEntry, popped>>
    BY <1>5 DEF navVars
  <2>. QED
    BY <1>1, <1>3, <1>4, <1>5, <2>1, StayStep DEF ReturnIsMeant
<1>6. CASE Pushes
  <2>1. /\ EntriesDiffer' /\ EntriesAreKept /\ LibraryIsBelow'
        /\ index' = Len(history') /\ index \in 1..index'
        /\ \A i \in 1..index : history'[i] = history[i]
        /\ UNCHANGED <<committed, currentEntry, popped>>
    BY <1>1, <1>6, PushStep
  <2>2. ASSUME currentEntry # None, deletion'[currentEntry] # "done"
        PROVE  \E i \in 1..index' : history'[i].key = currentEntry
    <3>1. PICK i \in 1..index : history[i].key = currentEntry
      BY <1>3, <2>2
    <3>2. i \in 1..index'
      BY <1>2, <2>1
    <3>. QED
      BY <2>1, <3>1, <3>2
  <2>. QED
    BY <1>1, <2>1, <2>2 DEF ReturnIsMeant
<1>7. ASSUME NEW i, Pop(i)
      PROVE  EntriesDiffer' /\ EntriesAreKept /\ LibraryIsBelow' /\ ReturnIsMeant'
  BY <1>1, <1>4, <1>7, PopStep DEF Pop, ReturnIsMeant
<1>8. CASE Commits
  <2>1. /\ EntriesDiffer' /\ EntriesAreKept
        /\ committed' = history[index] /\ popped' = FALSE
        /\ currentEntry' = None \/ currentEntry' = history[index].key
        /\ history' = history /\ index' = index
    BY <1>1, <1>8, CommitStep DEF Commits, Here
  <2>2. index \in 1..index
    BY <1>2
  <2>. QED
    BY <1>4, <2>1, <2>2 DEF ReturnIsMeant
<1>9. CASE Replaces /\ currentEntry # None /\ deletion'[currentEntry] = "done"
  BY <1>1, <1>9, ReplaceStep DEF ReturnIsMeant, Replaces
<1>. QED
  BY <1>5, <1>6, <1>7, <1>8, <1>9 DEF Moves

\* How a step may change the list and its positions.
Listens ==
    \/ UNCHANGED <<listQuery, scrollPositions, committed>>
    \/ /\ listQuery' = [listQuery EXCEPT !.fetching = TRUE] \/ listQuery' = Unloaded
       /\ UNCHANGED <<scrollPositions, committed>>
    \/ committed.page = "list" /\ rememberScroll(committed.key, listQuery.loaded)
       /\ UNCHANGED <<listQuery, committed>>
    \/ \E l \in ListStates : Restore(l, committed') /\ committed' \in Made

\* A change of the list leaves the positions those of lists.
LEMMA ListStep ==
    ASSUME HistoryAssumption, HistoryInv, EntriesAreKept, Listens
    PROVE  PositionsAreOfLists' /\ RestorationProceeds' /\ listQuery' \in ListStates
<1>1. EntriesDiffer /\ PositionsAreOfLists /\ OthersAreTyped /\ RestorationProceeds
  BY DEF HistoryInv
<1>2. PositionsStay => PositionsAreOfLists'
  BY <1>1, PositionsStayOfLists
<1>3. ASSUME UNCHANGED scrollPositions PROVE PositionsAreOfLists'
  BY <1>1, <1>2, <1>3 DEF PositionsStay, PositionsAreOfLists
<1>4. CASE UNCHANGED <<listQuery, scrollPositions, committed>>
  BY <1>1, <1>3, <1>4 DEF RestorationProceeds, OthersAreTyped
<1>5. CASE /\ listQuery' = [listQuery EXCEPT !.fetching = TRUE] \/ listQuery' = Unloaded
           /\ UNCHANGED <<scrollPositions, committed>>
  <2>1. listQuery' \in ListStates
    BY <1>1, <1>5, ListIsTyped
  <2>2. listQuery'.fetching \/ listQuery'.status # "success"
    BY <1>1, <1>5 DEF Unloaded, OthersAreTyped, ListStates
  <2>. QED
    BY <1>3, <1>5, <2>1, <2>2 DEF RestorationProceeds
<1>6. CASE committed.page = "list" /\ rememberScroll(committed.key, listQuery.loaded)
           /\ UNCHANGED <<listQuery, committed>>
  BY <1>1, <1>6, RememberStep DEF OthersAreTyped
<1>7. CASE \E l \in ListStates : Restore(l, committed') /\ committed' \in Made
  <2>1. PICK l \in ListStates : Restore(l, committed') /\ committed' \in Made
    BY <1>7
  <2>2. /\ listQuery' \in ListStates /\ PositionsStay
        /\ \A p \in ToSet(scrollPositions') :
              p.key = committed'.key /\ listQuery'.status = "success"
              /\ p.count > listQuery'.loaded /\ listQuery'.next => listQuery'.fetching
    BY <1>1, <2>1, RestoreStep
  <2>. QED
    BY <1>2, <2>2 DEF RestorationProceeds
<1>. QED
  BY <1>4, <1>5, <1>6, <1>7 DEF Listens

\* A step is a move and a change of the list, and the deletions advance.
LEMMA PartsOfStep ==
    ASSUME HistoryAssumption, HistoryInv, Moves, Listens, DeletionAdvances,
           deletion' \in [Keys -> {"none", "sent", "refreshing", "done"}],
           total' \in 0..TotalImages
    PROVE  HistoryInv'
<1>1. EntriesDiffer' /\ EntriesAreKept /\ LibraryIsBelow' /\ ReturnIsMeant'
  BY MoveStep
<1>2. PositionsAreOfLists' /\ RestorationProceeds' /\ listQuery' \in ListStates
  BY <1>1, ListStep
<1>. QED
  BY <1>1, <1>2 DEF HistoryInv, OthersAreTyped

\* The user starts at the library.
LEMMA HistoryInitially == ASSUME HistoryAssumption PROVE HistoryInit => HistoryInv
<1>1. SUFFICES ASSUME HistoryInit PROVE HistoryInv
  OBVIOUS
<1>2. PICK p \in {"list", "detail"} :
         /\ history = <<[key |-> 1, page |-> p, fromImageList |-> FALSE]>>
         /\ currentEntry = IF p = "detail" THEN 1 ELSE None
  BY <1>1 DEF HistoryInit
<1> DEFINE e == [key |-> 1, page |-> p, fromImageList |-> FALSE]
<1>3. 1 \in Keys /\ TotalImages \in Nat /\ ScrollLimit \in Nat \ {0}
  BY DEF HistoryAssumption, Keys
<1>4. e \in Entries /\ e.key = 1
  BY <1>3 DEF Entries
<1> HIDE DEF e
<1>5. history = <<e>> /\ history \in Seq(Entries) /\ Len(history) = 1 /\ history[1] = e
  BY <1>2, <1>4 DEF e
<1>6. committed = e /\ index = 1 /\ keys = 1 /\ scrollPositions = <<>>
      /\ deletion = [k \in Keys |-> "none"] /\ listQuery = Unloaded /\ total = TotalImages
  BY <1>1, <1>5 DEF HistoryInit
<1>7. ToSet(history) = {e} /\ Made = {e}
  <2>1. ToSet(history) = {history[i] : i \in 1..Len(history)}
    <3>1. history \in Seq(Entries)
      BY <1>5
    <3>. QED
      BY <3>1, MembersOf, Zenon
  <2>2. 1..Len(history) = {1}
    BY <1>5
  <2>. QED
    BY <1>5, <1>6, <2>1, <2>2 DEF Made
<1>8. EntriesDiffer
  BY <1>2, <1>3, <1>4, <1>5, <1>6, <1>7 DEF EntriesDiffer
<1>9. OnePerKey(<<>>) /\ Len(<<>>) = 0 /\ ToSet(<<>>) = {}
  <2>1. <<>> \in Seq(Positions) /\ Len(<<>>) = 0
    BY EmptySeq
  <2>2. ToSet(<<>>) = {<<>>[i] : i \in 1..0}
    BY <2>1, MembersOf
  <2>. QED
    BY <2>1, <2>2 DEF OnePerKey
<1>10. PositionsAreOfLists /\ RestorationProceeds
  BY <1>3, <1>6, <1>9 DEF PositionsAreOfLists, RestorationProceeds
<1>11. OthersAreTyped
  <2>1. Unloaded \in ListStates
    BY <1>3 DEF Unloaded, ListStates
  <2>. QED
    BY <1>3, <1>6, <2>1 DEF OthersAreTyped
<1>12. LibraryIsBelow /\ ReturnIsMeant
  <2>1. ~history[1].fromImageList /\ popped = FALSE
    BY <1>1, <1>2 DEF HistoryInit
  <2>2. LibraryIsBelow
    BY <1>5, <2>1 DEF LibraryIsBelow
  <2>3. /\ history[1].key = 1 /\ 1 \in 1..index /\ index = 1 /\ committed.key = 1
        /\ currentEntry # None => currentEntry = 1
    BY <1>2, <1>4, <1>5, <1>6
  <2>4. ReturnIsMeant
    BY <2>1, <2>3 DEF ReturnIsMeant
  <2>. QED
    BY <2>2, <2>4
<1>. QED
  BY <1>8, <1>10, <1>11, <1>12 DEF HistoryInv

\* Every step keeps the invariant of the history.
LEMMA HistoryStep ==
    ASSUME HistoryAssumption, HistoryInv, [HistoryNext]_historyVars
    PROVE  HistoryInv'
<1>1. /\ deletion \in [Keys -> {"none", "sent", "refreshing", "done"}]
      /\ total \in 0..TotalImages /\ TotalImages \in Nat
      /\ committed \in Made /\ committed \in Entries /\ committed.key \in Keys
      /\ EntriesDiffer /\ OthersAreTyped
  BY MadeAreEntries DEF HistoryInv, OthersAreTyped, HistoryAssumption, Made
<1>2. ASSUME UNCHANGED <<deletion, total>>, Moves, Listens PROVE HistoryInv'
  BY <1>1, <1>2, PartsOfStep DEF DeletionAdvances
<1>3. CASE ListLoads
  <2>1. \E l \in ListStates : Restore(l, committed)
    BY <1>1, <1>3, ListIsTyped DEF ListLoads
  <2>. QED
    BY <1>1, <1>2, <1>3, <2>1 DEF ListLoads, Moves, Listens, navVars
<1>4. CASE fetchNextPage
  BY <1>2, <1>4 DEF fetchNextPage, Moves, Listens, navVars
<1>5. CASE PageArrives
  <2>1. \E l \in ListStates : Restore(l, committed)
    BY <1>1, <1>5, ListIsTyped DEF PageArrives
  <2>. QED
    BY <1>1, <1>2, <1>5, <2>1 DEF PageArrives, Moves, Listens, navVars
<1>6. CASE RetryLoad
  <2>1. \E l \in ListStates : Restore(l, committed)
    BY <1>1, <1>6, ListIsTyped DEF RetryLoad
  <2>. QED
    BY <1>1, <1>2, <1>6, <2>1 DEF RetryLoad, Moves, Listens, navVars
<1>7. CASE ListCollected
  BY <1>2, <1>7 DEF ListCollected, Moves, Listens, navVars
<1>8. CASE OpenImage
  <2>1. Pushes /\ UNCHANGED committed
    BY <1>8 DEF OpenImage, ShownPage, Pushes, Push
  <2>. QED
    BY <1>2, <1>8, <2>1 DEF OpenImage, ShownPage, Moves, Listens
<1>9. CASE OpenInNewTab
  BY <1>2, <1>9 DEF OpenInNewTab, ShownPage, Moves, Listens, navVars
<1>10. CASE SearchImages
  <2>1. Pushes /\ UNCHANGED committed
    BY <1>10 DEF SearchImages, Pushes, Push
  <2>. QED
    BY <1>2, <1>10, <2>1 DEF SearchImages, Moves, Listens
<1>11. CASE UserPops
  BY <1>2, <1>11 DEF UserPops, Pop, Moves, Listens
<1>12. CASE returnToList
  <2>1. (Pushes \/ \E i : Pop(i)) /\ UNCHANGED committed
    BY <1>12 DEF returnToList, Pushes, Push, Pop
  <2>. QED
    BY <1>2, <1>12, <2>1 DEF returnToList, Moves, Listens
<1>13. CASE Commit
  <2>1. Commits /\ committed' \in Made /\ Restore(listQuery, committed')
    BY <1>1, <1>13, CommitStep DEF Commit, Commits
  <2>. QED
    BY <1>1, <1>2, <1>13, <2>1 DEF Commit, OthersAreTyped, Moves, Listens
<1>14. CASE ConfirmDeletion
  BY <1>1, <1>14, PartsOfStep DEF ConfirmDeletion, DeletionAdvances, Moves, Listens, navVars
<1>15. CASE \E k \in Keys : DeletionAnswered(k)
  <2>1. PICK k \in Keys : DeletionAnswered(k)
    BY <1>15
  <2>2. total' \in 0..TotalImages
    BY <1>1, <2>1 DEF DeletionAnswered
  <2>3. /\ deletion' \in [Keys -> {"none", "sent", "refreshing", "done"}]
        /\ DeletionAdvances
    BY <1>1, <2>1 DEF DeletionAnswered, DeletionAdvances
  <2>4. Moves /\ Listens
    BY <2>1 DEF DeletionAnswered, Moves, Listens, navVars
  <2>. QED
    BY <2>2, <2>3, <2>4, PartsOfStep
<1>16. CASE \E k \in Keys : DeletionReturns(k)
  <2>1. PICK k \in Keys : DeletionReturns(k)
    BY <1>16
  <2>2. /\ deletion' = [deletion EXCEPT ![k] = "done"] /\ deletion'[k] = "done"
        /\ deletion' \in [Keys -> {"none", "sent", "refreshing", "done"}]
        /\ DeletionAdvances /\ total' \in 0..TotalImages
    BY <1>1, <2>1 DEF DeletionReturns, DeletionAdvances
  <2>3. Moves /\ UNCHANGED committed
    <3>1. CASE currentEntry # k
      BY <2>1, <3>1 DEF DeletionReturns, Moves, navVars
    <3>2. CASE currentEntry = k /\ committed.fromImageList
      BY <2>1, <3>2 DEF DeletionReturns, Pop, Moves
    <3>3. CASE currentEntry = k /\ ~committed.fromImageList
      <4>1. k # None
        BY DEF HistoryAssumption, Keys
      <4>2. Replaces
        BY <2>1, <3>3 DEF DeletionReturns, Replaces
      <4>. QED
        BY <2>2, <3>3, <4>1, <4>2 DEF Moves, Replaces
    <3>. QED
      BY <3>1, <3>2, <3>3
  <2>4. Listens
    <3>1. CASE UNCHANGED <<listQuery, scrollPositions>>
      BY <2>3, <3>1 DEF Listens
    <3>2. CASE ~UNCHANGED <<listQuery, scrollPositions>>
      <4>1. \E l \in ListStates : Restore(l, committed)
        BY <1>1, <2>1, <3>2, ListIsTyped DEF DeletionReturns
      <4>. QED
        BY <1>1, <2>3, <4>1 DEF Listens
    <3>. QED
      BY <3>1, <3>2
  <2>. QED
    BY <2>2, <2>3, <2>4, PartsOfStep
<1>17. CASE UNCHANGED historyVars
  BY <1>2, <1>17 DEF historyVars, Moves, Listens, navVars
<1>. QED
  BY <1>3, <1>4, <1>5, <1>6, <1>7, <1>8, <1>9, <1>10, <1>11, <1>12, <1>13, <1>14, <1>15,
     <1>16, <1>17 DEF HistoryNext

LEMMA HistoryInvHolds ==
    ASSUME HistoryAssumption
    PROVE  HistorySpec => []HistoryInv
<1>1. HistoryInit => HistoryInv
  BY HistoryInitially
<1>2. HistoryInv /\ [HistoryNext]_historyVars => HistoryInv'
  BY HistoryStep
<1>. QED
  BY <1>1, <1>2, PTL DEF HistorySpec

\* The history, the remembered positions and the list keep their types: never
\* more positions are remembered than the limit (image-library-scroll.ts).
THEOREM HistoryTypes ==
    ASSUME HistoryAssumption
    PROVE  HistorySpec => []HistoryTypeOK
<1>1. HistoryInv => HistoryTypeOK
  BY DEF HistoryInv, EntriesDiffer, PositionsAreOfLists, OthersAreTyped, ReturnIsMeant, OnePerKey,
         Positions, ListStates, HistoryTypeOK
<1>. QED
  BY <1>1, HistoryInvHolds, PTL

\* Only the end of its deletion moves the user from an image.
LEMMA OnlyDeletionReturns ==
    ASSUME HistoryAssumption, HistoryInv, HistoryNext, NEW k \in Keys, Returned(k)
    PROVE  DeletionReturns(k)
<1>1. deletion \in [Keys -> {"none", "sent", "refreshing", "done"}]
      /\ deletion[k] = "refreshing" /\ deletion'[k] = "done"
  BY DEF HistoryInv, OthersAreTyped, Returned
<1>2. committed.key \in Keys
  BY MadeAreEntries DEF HistoryInv, EntriesDiffer, Made
<1>3. ~ConfirmDeletion
  BY <1>1, <1>2 DEF ConfirmDeletion
<1>4. ASSUME NEW j \in Keys, DeletionAnswered(j) PROVE FALSE
  BY <1>1, <1>4 DEF DeletionAnswered
<1>5. ASSUME NEW j \in Keys, DeletionReturns(j) PROVE j = k
  BY <1>1, <1>5 DEF DeletionReturns
<1>6. ASSUME UNCHANGED deletion PROVE FALSE
  BY <1>1, <1>6
<1>. QED
  BY <1>3, <1>4, <1>5, <1>6
  DEF HistoryNext, ListLoads, fetchNextPage, PageArrives, RetryLoad, ListCollected, OpenImage,
      OpenInNewTab, SearchImages, UserPops, returnToList, Commit

\* A late end of a deletion moves the user only from the page of its image,
\* to the library, never after a move in the history, however long that is
\* (image-detail-page.tsx).
THEOREM DeletionReturnsHolds ==
    ASSUME HistoryAssumption
    PROVE  HistorySpec => DeletionReturnsToLibrary
<1> DEFINE R(k) == /\ committed.key = k /\ ~popped
                   /\ IF Here.key = k THEN history'[index'].page = "list"
                      ELSE index = Len(history) /\ \E i \in 1..index : history[i].key = k
<1>1. ASSUME HistoryInv, HistoryNext, NEW k \in Keys, Returned(k) PROVE R(k)
  <2>1. DeletionReturns(k)
    BY <1>1, OnlyDeletionReturns
  <2>2. currentEntry = k /\ deletion[k] # "done" /\ k # None
    BY <1>1, <2>1 DEF DeletionReturns, Returned, navVars, HistoryAssumption, Keys
  <2>3. /\ committed.key = k /\ ~popped
        /\ \E i \in 1..index : /\ history[i].key = k
                               /\ i = index \/ index = Len(history)
    BY <1>1, <2>2 DEF HistoryInv, ReturnIsMeant
  <2>4. history \in Seq(Entries) /\ Len(history) \in Nat /\ index \in 1..Len(history)
        /\ EntriesDiffer /\ Here \in Made /\ committed \in Made
    BY <1>1, MembersOf DEF HistoryInv, EntriesDiffer, Here, Made
  <2>5. ASSUME Here.key = k PROVE history'[index'].page = "list"
    <3>1. Here = committed
      BY <2>3, <2>4, <2>5 DEF EntriesDiffer
    <3>2. CASE committed.fromImageList
      <4>1. index' = index - 1 /\ history' = history
        BY <2>1, <2>2, <3>2 DEF DeletionReturns, Pop
      <4>2. history[index - 1].page = "list"
        BY <1>1, <2>4, <3>1, <3>2 DEF HistoryInv, LibraryIsBelow, Here
      <4>. QED
        BY <4>1, <4>2
    <3>3. CASE ~committed.fromImageList
      <4>1. /\ index' = index
            /\ history' = [history EXCEPT ![index] =
                  [key |-> keys + 1, page |-> "list", fromImageList |-> FALSE]]
        BY <2>1, <2>2, <3>3 DEF DeletionReturns
      <4>2. index \in DOMAIN history
        BY <2>4
      <4>. QED
        BY <4>1, <4>2
    <3>. QED
      BY <3>2, <3>3
  <2>6. ASSUME Here.key # k PROVE index = Len(history) /\ \E i \in 1..index : history[i].key = k
    BY <2>3, <2>6 DEF Here
  <2>. QED
    BY <2>3, <2>5, <2>6
<1>2. HistoryInv /\ [HistoryNext]_historyVars => [\A k \in Keys : Returned(k) => R(k)]_historyVars
  BY <1>1
<1>. QED
  BY <1>2, HistoryInvHolds, PTL DEF HistorySpec, DeletionReturnsToLibrary

\* What is remembered of the library is worked towards, however long the
\* history and whatever is deleted meanwhile (image-list-page.tsx).
THEOREM RestorationHolds ==
    ASSUME HistoryAssumption
    PROVE  HistorySpec => []RestorationProceeds
<1>1. HistoryInv => RestorationProceeds
  BY DEF HistoryInv
<1>. QED
  BY <1>1, HistoryInvHolds, PTL
=============================================================================
