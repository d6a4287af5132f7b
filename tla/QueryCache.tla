---------------------------- MODULE QueryCache ----------------------------
(***************************************************************************)
(* One cached query of TanStack Query 5, the library that holds what the   *)
(* pages of the web interface show, as far as those pages rely on it.  The *)
(* library is not part of the repository: these operators are external.    *)
(*                                                                         *)
(* A query has data, or none yet; it is stale when it was invalidated or   *)
(* its stale time is over; and at most one fetch of it is in flight, which *)
(* the server has answered or not.                                         *)
(***************************************************************************)

CONSTANT NoData    \* the query has no data

Idle == [state |-> "idle", value |-> NoData]
FetchStates == {"idle", "sent", "answered"}
EmptyQuery == [data |-> NoData, stale |-> TRUE, fetch |-> Idle]
Queries(Data) ==
    [data : Data \cup {NoData}, stale : BOOLEAN,
     fetch : [state : FetchStates, value : Data \cup {NoData}]]

Fetching(q) == q.fetch.state # "idle"
HasData(q) == q.data # NoData

\* A new request; the answer of an earlier one is ignored from now on.
Request(q) == [q EXCEPT !.fetch = [state |-> "sent", value |-> NoData]]

\* A mounted component reads the query: stale data is fetched again, unless
\* a fetch is under way.
Mounted(q) == IF q.stale /\ ~Fetching(q) THEN Request(q) ELSE q

\* refetch, and what invalidateQueries does to a query in use: it replaces a
\* fetch under way, except a first one, which is joined.
Joins(q) == ~HasData(q) /\ Fetching(q)
Refetched(q) == IF Joins(q) THEN q ELSE Request(q)

\* invalidateQueries; active says that a mounted component uses the query.
Invalidated(q, active) ==
    LET marked == [q EXCEPT !.stale = TRUE]
    IN  IF active THEN Refetched(marked) ELSE marked

\* cancelQueries: the fetch under way is dropped, the data stays.
Canceled(q) == [q EXCEPT !.fetch = Idle]

\* setQueryData: fresh data; a fetch under way goes on.
WithData(q, value) == [q EXCEPT !.data = value, !.stale = FALSE]

\* The server answers a fetch; its answer is applied; the fetch fails.
Answered(q, value) == [q EXCEPT !.fetch = [state |-> "answered", value |-> value]]
Applied(q) == [q EXCEPT !.data = q.fetch.value, !.stale = FALSE, !.fetch = Idle]
Failed(q) == [q EXCEPT !.stale = TRUE, !.fetch = Idle]

=============================================================================
