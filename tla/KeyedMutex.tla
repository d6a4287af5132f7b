----------------------------- MODULE KeyedMutex -----------------------------
(***************************************************************************)
(* What indexbarrier.KeyedLocker promises its callers: one mutex per key.  *)
(* A caller asks for a key, is granted it when nobody owns it, and gives   *)
(* it back.  How lock entries are allocated, counted and reclaimed is the  *)
(* business of module KeyedLocker, which is shown to implement this one.   *)
(***************************************************************************)
CONSTANTS Procs,   \* goroutines that call Lock
          Keys,    \* image ids, or alias paths
          NoProc,  \* "nobody owns the key"
          NoKey    \* "the goroutine is not waiting"

VARIABLES owner,   \* owner[k]: the goroutine that holds key k, or NoProc
          wants    \* wants[p]: the key p is blocked on, or NoKey

vars == <<owner, wants>>

Init == /\ owner = [k \in Keys |-> NoProc]
        /\ wants = [p \in Procs |-> NoKey]

\* p calls Lock(k).  A goroutine holds at most one key of a locker.
Ask(p, k) == /\ wants[p] = NoKey
             /\ \A j \in Keys : owner[j] # p
             /\ wants' = [wants EXCEPT ![p] = k]
             /\ UNCHANGED owner

\* Lock(k) returns to p.
Grant(p, k) == /\ wants[p] = k
               /\ owner[k] = NoProc
               /\ owner' = [owner EXCEPT ![k] = p]
               /\ wants' = [wants EXCEPT ![p] = NoKey]

\* p calls the function Lock(k) returned.
Release(p, k) == /\ owner[k] = p
                 /\ owner' = [owner EXCEPT ![k] = NoProc]
                 /\ UNCHANGED wants

Next == \E p \in Procs, k \in Keys : Ask(p, k) \/ Grant(p, k) \/ Release(p, k)

Spec == Init /\ [][Next]_vars
=============================================================================
