---------------------------- MODULE KeyedLocker ----------------------------
(***************************************************************************)
(* internal/indexbarrier/keyed_lock.go: a map from key to a reference      *)
(* counted mutex, guarded by l.mu.  The barrier has two of these lockers,  *)
(* one for image ids and one for alias paths (barrier.go, type Barrier).   *)
(*                                                                         *)
(* The two sections of Lock and of the returned function that run under    *)
(* l.mu never block, so each is one action; the lock and unlock of         *)
(* entry.mu are actions of their own.                                      *)
(***************************************************************************)
EXTENDS Naturals, FiniteSets

CONSTANTS Procs,    \* goroutines that call Lock
          Keys,     \* keys they lock
          Entries,  \* addresses a keyedLockEntry can be allocated at
          NoProc, NoKey, NoEntry

ASSUME LockerAssumption ==
    /\ IsFiniteSet(Procs)
    /\ NoProc \notin Procs
    /\ NoKey \notin Keys
    /\ NoEntry \notin Entries

VARIABLES entries,  \* l.entries: the entry a key is mapped to, or NoEntry
          refs,     \* refs[e]: e.refs
          holder,   \* holder[e]: the goroutine that holds e.mu, or NoProc
          pc,       \* where a goroutine is in Lock and its unlock function
          key,      \* the argument of its current call of Lock
          entry     \* the local variable `entry' of that call

vars == <<entries, refs, holder, pc, key, entry>>

TypeOK ==
    /\ entries \in [Keys -> Entries \cup {NoEntry}]
    /\ refs \in [Entries -> Nat]
    /\ holder \in [Entries -> Procs \cup {NoProc}]
    /\ pc \in [Procs -> {"idle", "waiting", "held", "unlocked"}]
    /\ key \in [Procs -> Keys \cup {NoKey}]
    /\ entry \in [Procs -> Entries \cup {NoEntry}]

Init ==
    /\ entries = [k \in Keys |-> NoEntry]
    /\ refs = [e \in Entries |-> 0]
    /\ holder = [e \in Entries |-> NoProc]
    /\ pc = [p \in Procs |-> "idle"]
    /\ key = [p \in Procs |-> NoKey]
    /\ entry = [p \in Procs |-> NoEntry]

-----------------------------------------------------------------------------

\* Memory the garbage collector may hand out again: no reference is left to it.
Unreachable(e) == /\ \A k \in Keys : entries[k] # e
                  /\ \A p \in Procs : entry[p] # e

\* BROKEN JoinEntry, for mutation: entry.refs++ only when the entry is new.
JoinEntryUncounted(p, k) ==
    /\ pc[p] = "idle"
    /\ entries[k] # NoEntry
    /\ entry' = [entry EXCEPT ![p] = entries[k]]
    /\ key' = [key EXCEPT ![p] = k]
    /\ pc' = [pc EXCEPT ![p] = "waiting"]
    /\ UNCHANGED <<entries, holder, refs>>

\* The section of Lock under l.mu when the key has an entry already.
JoinEntry(p, k) ==
    /\ pc[p] = "idle"
    /\ entries[k] # NoEntry
    /\ refs' = [refs EXCEPT ![entries[k]] = @ + 1]
    /\ entry' = [entry EXCEPT ![p] = entries[k]]
    /\ key' = [key EXCEPT ![p] = k]
    /\ pc' = [pc EXCEPT ![p] = "waiting"]
    /\ UNCHANGED <<entries, holder>>

\* The same section when it allocates the entry: a new mutex, refs = 1.
CreateEntry(p, k) ==
    /\ pc[p] = "idle"
    /\ entries[k] = NoEntry
    /\ \E e \in Entries :
          /\ Unreachable(e)
          /\ entries' = [entries EXCEPT ![k] = e]
          /\ refs' = [refs EXCEPT ![e] = 1]
          /\ holder' = [holder EXCEPT ![e] = NoProc]
          /\ entry' = [entry EXCEPT ![p] = e]
    /\ key' = [key EXCEPT ![p] = k]
    /\ pc' = [pc EXCEPT ![p] = "waiting"]

\* entry.mu.Lock() returns; the caller of Lock now runs its critical section.
Acquire(p) ==
    /\ pc[p] = "waiting"
    /\ holder[entry[p]] = NoProc
    /\ holder' = [holder EXCEPT ![entry[p]] = p]
    /\ pc' = [pc EXCEPT ![p] = "held"]
    /\ UNCHANGED <<entries, refs, key, entry>>

\* BROKEN Unlock, for mutation: entry.mu is left locked when others wait.
UnlockOnlyWhenAlone(p) ==
    /\ pc[p] = "held"
    /\ holder' = IF refs[entry[p]] = 1
                   THEN [holder EXCEPT ![entry[p]] = NoProc]
                   ELSE holder
    /\ pc' = [pc EXCEPT ![p] = "unlocked"]
    /\ UNCHANGED <<entries, refs, key, entry>>

\* entry.mu.Unlock() in the returned function.
Unlock(p) ==
    /\ pc[p] = "held"
    /\ holder' = [holder EXCEPT ![entry[p]] = NoProc]
    /\ pc' = [pc EXCEPT ![p] = "unlocked"]
    /\ UNCHANGED <<entries, refs, key, entry>>

\* BROKEN DropReference, for mutation: deletes the entry whatever the count.
DropReferenceAlwaysDeletes(p) ==
    /\ pc[p] = "unlocked"
    /\ refs' = [refs EXCEPT ![entry[p]] = @ - 1]
    /\ entries' = [entries EXCEPT ![key[p]] = NoEntry]
    /\ entry' = [entry EXCEPT ![p] = NoEntry]
    /\ key' = [key EXCEPT ![p] = NoKey]
    /\ pc' = [pc EXCEPT ![p] = "idle"]
    /\ UNCHANGED holder

\* BROKEN DropReference, for mutation: tests the count before decrementing it.
DropReferenceTestsFirst(p) ==
    /\ pc[p] = "unlocked"
    /\ refs' = [refs EXCEPT ![entry[p]] = @ - 1]
    /\ entries' = IF refs[entry[p]] = 0
                    THEN [entries EXCEPT ![key[p]] = NoEntry]
                    ELSE entries
    /\ entry' = [entry EXCEPT ![p] = NoEntry]
    /\ key' = [key EXCEPT ![p] = NoKey]
    /\ pc' = [pc EXCEPT ![p] = "idle"]
    /\ UNCHANGED holder

\* The section of the returned function under l.mu.
DropReference(p) ==
    /\ pc[p] = "unlocked"
    /\ refs' = [refs EXCEPT ![entry[p]] = @ - 1]
    /\ entries' = IF refs[entry[p]] = 1
                    THEN [entries EXCEPT ![key[p]] = NoEntry]
                    ELSE entries
    /\ entry' = [entry EXCEPT ![p] = NoEntry]
    /\ key' = [key EXCEPT ![p] = NoKey]
    /\ pc' = [pc EXCEPT ![p] = "idle"]
    /\ UNCHANGED holder

Next == \E p \in Procs :
            \/ \E k \in Keys : JoinEntry(p, k) \/ CreateEntry(p, k)
            \/ Acquire(p)
            \/ Unlock(p)
            \/ DropReference(p)

Spec == Init /\ [][Next]_vars

(***************************************************************************)
(* A caller's critical section ends and a runnable goroutine runs; sync's  *)
(* Mutex goes into starvation mode and then serves its waiters first come, *)
(* first served, so a waiter that could get the lock again and again gets  *)
(* it.  Nobody has to call Lock.                                           *)
(***************************************************************************)
Fairness == \A p \in Procs : /\ SF_vars(Acquire(p))
                             /\ WF_vars(Unlock(p))
                             /\ WF_vars(DropReference(p))

FairSpec == Spec /\ Fairness

-----------------------------------------------------------------------------

(***************************************************************************)
(* KeyedLocker.Lock "serializes mutations per key" (keyed_lock.go:10): two *)
(* goroutines never hold one key together, although an entry is deleted    *)
(* and allocated again while goroutines come and go.                       *)
(***************************************************************************)
MutualExclusion ==
    \A p, q \in Procs :
        (pc[p] = "held" /\ pc[q] = "held" /\ key[p] = key[q]) => p = q

(***************************************************************************)
(* "... and removes idle lock entries" (keyed_lock.go:10): a key is in     *)
(* l.entries exactly while some goroutine is between the two sections      *)
(* under l.mu for that key, so the map neither leaks an entry nor forgets  *)
(* one that somebody still uses.                                           *)
(***************************************************************************)
EntriesAreInUse ==
    \A k \in Keys :
        (entries[k] # NoEntry) <=> (\E p \in Procs : key[p] = k)

(***************************************************************************)
(* A goroutine blocked in Lock gets the key: nobody keeps waiting on an    *)
(* entry that l.entries has dropped.                                       *)
(***************************************************************************)
LockIsGranted == \A p \in Procs : (pc[p] = "waiting") ~> (pc[p] = "held")

\* KeyedLocker as an implementation of a mutex per key.
Holders(k) == {p \in Procs : pc[p] = "held" /\ key[p] = k}

Owner == [k \in Keys |-> IF Holders(k) = {} THEN NoProc ELSE CHOOSE p \in Holders(k) : TRUE]

Wants == [p \in Procs |-> IF pc[p] = "waiting" THEN key[p] ELSE NoKey]

Mutex == INSTANCE KeyedMutex WITH owner <- Owner, wants <- Wants

(***************************************************************************)
(* Every behaviour of the reference counted map is a behaviour of one      *)
(* mutex per key, which is what the barrier's callers rely on.             *)
(***************************************************************************)
ImplementsKeyedMutex == Mutex!Spec

=============================================================================
