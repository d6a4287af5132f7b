----------------------------- MODULE RecordPage -----------------------------
(***************************************************************************)
(* The pages of the web interface for aliases and for API tokens           *)
(* (web/src/features/aliases/alias-page.tsx, features/api-tokens/          *)
(* api-token-page.tsx): a list of records, a form that creates one, a      *)
(* dialog that removes one and, for aliases, a form that resolves a path.  *)
(*                                                                         *)
(* A record has an identifier, given by the server and never used again,   *)
(* and a label: the path of an alias, which is unique, or the name of a    *)
(* token.  A removed token is a revoked one, which the page still lists    *)
(* but not as active.  The two pages differ in whether a mutation waits    *)
(* for the list it has invalidated.  A list is one page long.              *)
(***************************************************************************)
EXTENDS Naturals, QueryCache

CONSTANTS
    Labels,
    MaxRecords  \* bound: records ever created

\* What an instance must satisfy.
RecordAssumption ==
    /\ MaxRecords \in Nat /\ NoData \notin Labels

VARIABLES
    kind,              \* "alias" or "token": the page that is shown
    server, used,      \* the records; the number of identifiers used
    list,              \* the query of the page, its data a set of records
    form, created,     \* what the form has; the record shown as created
    creating,          \* [state, label, answer] of the creation
    target, removing,  \* record in the dialog; [state, record] of the removal
    resolving,         \* [state, label, answer] of the resolution
    resolved,          \* the answer shown
    madeKnown, goneKnown, \* ghosts: records confirmed as created, as removed
    overtaken          \* ghost: an older fetch outlived an invalidation

recordVars == <<kind, server, used, list, form, created, creating, target, removing,
               resolving, resolved, madeKnown, goneKnown, overtaken>>
createVars == <<form, created, creating>>
removeVars == <<target, removing>>
resolveVars == <<resolving, resolved>>
listVars == <<list, overtaken>>
knownVars == <<madeKnown, goneKnown>>

Records == [id : 1..MaxRecords, label : Labels]
NoRecord == [id |-> 0, label |-> NoData]
NoRequest == [state |-> "idle", label |-> NoData, record |-> NoRecord]
Awaits == kind = "token"

RecordTypeOK ==
    /\ kind \in {"alias", "token"}
    /\ server \subseteq Records /\ used \in 0..MaxRecords
    /\ list \in Queries(SUBSET Records)
    /\ form \in Labels \cup {NoData}
    /\ {created, target, resolved} \subseteq Records \cup {NoRecord}
    /\ \A m \in {creating, removing, resolving} :
          /\ m.state \in {"idle", "sent", "answered", "refetching"}
          /\ m.label \in Labels \cup {NoData} /\ m.record \in Records \cup {NoRecord}
    /\ overtaken \in BOOLEAN
    /\ madeKnown \subseteq Records /\ goneKnown \subseteq Records
    /\ \A r, s \in server : r.id = s.id \/ (kind = "alias" /\ r.label = s.label) => r = s

RecordInit ==
    /\ kind \in {"alias", "token"}
    /\ server = {} /\ used = 0
    /\ list = Request(EmptyQuery)
    /\ form = NoData /\ created = NoRecord /\ creating = NoRequest
    /\ target = NoRecord /\ removing = NoRequest
    /\ resolving = NoRequest /\ resolved = NoRecord
    /\ madeKnown = {} /\ goneKnown = {} /\ overtaken = FALSE

-----------------------------------------------------------------------------
(* The list.                                                               *)

ServeList ==
    /\ list.fetch.state = "sent"
    /\ list' = Answered(list, server)
    /\ UNCHANGED <<kind, server, used, overtaken, createVars, removeVars, resolveVars, knownVars>>

RecordsArrive ==
    /\ list.fetch.state = "answered"
    /\ list' = Applied(list)
    /\ UNCHANGED <<kind, server, used, overtaken, createVars, removeVars, resolveVars, knownVars>>

RecordsFail ==
    /\ Fetching(list)
    /\ list' = Failed(list)
    /\ UNCHANGED <<kind, server, used, overtaken, createVars, removeVars, resolveVars, knownVars>>

\* The window gets the focus after the stale time.
RefocusList ==
    /\ ~Fetching(list)
    /\ list' = Request(list) /\ overtaken' = FALSE
    /\ UNCHANGED <<kind, server, used, createVars, removeVars, resolveVars, knownVars>>

\* BROKEN, for mutation: the list is not fetched again.
InvalidateListNot == UNCHANGED listVars

\* invalidateQueries: a first fetch under way is joined, which may be older.
InvalidateList ==
    /\ list' = Invalidated(list, TRUE)
    /\ overtaken' = Joins(list)

-----------------------------------------------------------------------------
(* Creation.                                                               *)

Edit(label) ==
    /\ form' = label
    /\ UNCHANGED <<kind, server, used, listVars, created, creating, removeVars, resolveVars,
                   knownVars>>

\* createAlias, submit: what was created before is taken from the page.
SubmitForm ==
    /\ form # NoData /\ creating.state = "idle"
    /\ created' = NoRecord
    /\ creating' = [NoRequest EXCEPT !.state = "sent", !.label = form]
    /\ UNCHANGED <<kind, server, used, listVars, form, removeVars, resolveVars, knownVars>>

ServeCreate ==
    /\ creating.state = "sent" /\ used < MaxRecords
    /\ ~(kind = "alias" /\ \E r \in server : r.label = creating.label)
    /\ LET r == [id |-> used + 1, label |-> creating.label]
       IN  /\ server' = server \cup {r}
           /\ creating' = [creating EXCEPT !.state = "answered", !.record = r]
    /\ used' = used + 1
    /\ UNCHANGED <<kind, listVars, form, created, removeVars, resolveVars, knownVars>>

\* onSuccess: the form is emptied, whatever was typed meanwhile.
Created ==
    /\ creating.state = "answered"
    /\ created' = creating.record
    /\ form' = NoData
    /\ InvalidateList
    /\ creating' = IF Awaits THEN [creating EXCEPT !.state = "refetching"] ELSE NoRequest
    /\ madeKnown' = madeKnown \cup {creating.record}
    /\ UNCHANGED <<kind, server, used, removeVars, resolveVars, goneKnown>>

\* The request is refused, or its answer is lost.
CreateFails ==
    /\ creating.state \in {"sent", "answered"}
    /\ creating' = NoRequest
    /\ UNCHANGED <<kind, server, used, listVars, form, created, removeVars, resolveVars, knownVars>>

\* The list the mutations have waited for is there.
ListRefetched ==
    /\ ~Fetching(list) /\ "refetching" \in {creating.state, removing.state}
    /\ creating' = IF creating.state = "refetching" THEN NoRequest ELSE creating
    /\ removing' = IF removing.state = "refetching" THEN NoRequest ELSE removing
    /\ UNCHANGED <<kind, server, used, listVars, form, created, target, resolveVars, knownVars>>

-----------------------------------------------------------------------------
(* Removal.                                                                *)

\* The button of a row, out of reach behind the dialog.
ChooseTarget(r) ==
    /\ HasData(list) /\ r \in list.data
    /\ target = NoRecord /\ removing.state = "idle"
    /\ target' = r
    /\ UNCHANGED <<kind, server, used, listVars, createVars, removing, resolveVars, knownVars>>

DropTarget ==
    /\ target # NoRecord /\ removing.state = "idle"
    /\ target' = NoRecord
    /\ UNCHANGED <<kind, server, used, listVars, createVars, removing, resolveVars, knownVars>>

ConfirmRemoval ==
    /\ target # NoRecord /\ removing.state = "idle"
    /\ removing' = [NoRequest EXCEPT !.state = "sent", !.record = target]
    /\ UNCHANGED <<kind, server, used, listVars, createVars, target, resolveVars, knownVars>>

ServeRemove ==
    /\ removing.state = "sent" /\ removing.record \in server
    /\ server' = server \ {removing.record}
    /\ removing' = [removing EXCEPT !.state = "answered"]
    /\ UNCHANGED <<kind, used, listVars, createVars, target, resolveVars, knownVars>>

Removed ==
    /\ removing.state = "answered"
    /\ target' = NoRecord
    /\ InvalidateList
    /\ removing' = IF Awaits THEN [removing EXCEPT !.state = "refetching"] ELSE NoRequest
    /\ goneKnown' = goneKnown \cup {removing.record}
    /\ UNCHANGED <<kind, server, used, createVars, resolveVars, madeKnown>>

\* The record is not there, or the request or its answer is lost: the dialog
\* stays.
RemoveFails ==
    /\ removing.state \in {"sent", "answered"}
    /\ removing' = NoRequest
    /\ UNCHANGED <<kind, server, used, listVars, createVars, target, resolveVars, knownVars>>

-----------------------------------------------------------------------------
(* Resolution of a path (aliases).                                         *)

\* resolveAlias: the button is out of reach while one is under way.
resolveAlias(label) ==
    /\ kind = "alias" /\ resolving.state = "idle"
    /\ resolving' = [NoRequest EXCEPT !.state = "sent", !.label = label]
    /\ resolved' = NoRecord
    /\ UNCHANGED <<kind, server, used, listVars, createVars, removeVars, knownVars>>

ServeResolve(r) ==
    /\ resolving.state = "sent" /\ r \in server /\ r.label = resolving.label
    /\ resolving' = [resolving EXCEPT !.state = "answered", !.record = r]
    /\ UNCHANGED <<kind, server, used, listVars, createVars, removeVars, resolved, knownVars>>

Resolved ==
    /\ resolving.state = "answered"
    /\ resolved' = resolving.record
    /\ resolving' = NoRequest
    /\ UNCHANGED <<kind, server, used, listVars, createVars, removeVars, knownVars>>

\* There is no such alias, or the request or its answer is lost.
ResolveFails ==
    /\ resolving.state \in {"sent", "answered"}
    /\ resolving' = NoRequest
    /\ UNCHANGED <<kind, server, used, listVars, createVars, removeVars, resolved, knownVars>>

-----------------------------------------------------------------------------
RecordNext ==
    \/ ServeList
    \/ RecordsArrive
    \/ RecordsFail
    \/ RefocusList
    \/ \E l \in Labels \cup {NoData} : Edit(l)
    \/ SubmitForm
    \/ ServeCreate
    \/ Created
    \/ CreateFails
    \/ ListRefetched
    \/ \E r \in Records : ChooseTarget(r)
    \/ DropTarget
    \/ ConfirmRemoval
    \/ ServeRemove
    \/ Removed
    \/ RemoveFails
    \/ \E l \in Labels : resolveAlias(l)
    \/ \E r \in Records : ServeResolve(r)
    \/ Resolved
    \/ ResolveFails

RecordSpec == RecordInit /\ [][RecordNext]_recordVars

-----------------------------------------------------------------------------
(* Properties.                                                             *)

\* Once the list has settled it has every record confirmed as created, none
\* confirmed as removed.
ListShowsWhatIsConfirmed ==
    HasData(list) /\ ~Fetching(list) /\ ~list.stale /\ ~overtaken
        => madeKnown \ goneKnown \subseteq list.data \cup (madeKnown \ server)
           /\ list.data \cap goneKnown = {}

=============================================================================
