------------------------- MODULE KeyedLockerProofs -------------------------
(***************************************************************************)
(* KeyedLocker for any finite number of goroutines and any keys: mutual    *)
(* exclusion per key, no leaked and no forgotten entry, and the            *)
(* implementation of KeyedMutex.                                           *)
(***************************************************************************)
EXTENDS KeyedLocker, FiniteSetTheorems, TLAPS

\* The goroutines that have counted themselves in e.refs.
Users(e) == {p \in Procs : entry[p] = e}

\* A goroutine in a call of Lock or its unlock function has the entry that the
\* map has for its key, and an idle one has none.
EntryIsMapped ==
    \A p \in Procs :
        /\ pc[p] = "idle" => key[p] = NoKey /\ entry[p] = NoEntry
        /\ pc[p] # "idle" => /\ key[p] \in Keys
                             /\ entry[p] \in Entries
                             /\ entries[key[p]] = entry[p]

\* Two keys never share an entry.
EntriesAreDistinct ==
    \A k, j \in Keys : entries[k] # NoEntry /\ entries[k] = entries[j] => k = j

\* The count is the number of users, and no mapped entry is unused.
RefsCountUsers ==
    \A k \in Keys : entries[k] # NoEntry =>
        /\ refs[entries[k]] = Cardinality(Users(entries[k]))
        /\ refs[entries[k]] # 0

\* A goroutine in its critical section holds the mutex of its entry.
HeldIsLocked == \A p \in Procs : pc[p] = "held" => holder[entry[p]] = p

IInv == /\ TypeOK
        /\ EntryIsMapped
        /\ EntriesAreDistinct
        /\ RefsCountUsers
        /\ HeldIsLocked

-----------------------------------------------------------------------------

\* Counting a set of goroutines: it is finite, and adding or removing one
\* member moves its cardinality by one.
LEMMA CountProcs ==
    ASSUME NEW S \in SUBSET Procs
    PROVE  /\ IsFiniteSet(S)
           /\ Cardinality(S) \in Nat
           /\ Cardinality(S) = 0 <=> S = {}
           /\ \A p \in Procs \ S : Cardinality(S \cup {p}) = Cardinality(S) + 1
           /\ \A p \in S : Cardinality(S \ {p}) = Cardinality(S) - 1
<1>1. IsFiniteSet(S)
  BY LockerAssumption, FS_Subset
<1>2. Cardinality(S) \in Nat
  BY <1>1, FS_CardinalityType
<1>3. Cardinality(S) = 0 <=> S = {}
  BY <1>1, FS_EmptySet
<1>4. \A p \in Procs \ S : Cardinality(S \cup {p}) = Cardinality(S) + 1
  BY <1>1, FS_AddElement
<1>5. \A p \in S : Cardinality(S \ {p}) = Cardinality(S) - 1
  BY <1>1, FS_RemoveElement
<1>. QED BY <1>1, <1>2, <1>3, <1>4, <1>5

\* The locker starts without entries and without references.
LEMMA InitInv == Init => IInv
  BY LockerAssumption
     DEF Init, IInv, TypeOK, EntryIsMapped, EntriesAreDistinct, RefsCountUsers, HeldIsLocked

\* Taking a reference to an entry the map has.
LEMMA JoinInv ==
    ASSUME IInv, NEW p \in Procs, NEW k \in Keys, JoinEntry(p, k)
    PROVE  IInv'
<1>. USE LockerAssumption
<1>0. PICK e \in Entries : e = entries[k]
  BY DEF IInv, TypeOK, JoinEntry
<1>1. TypeOK'
  BY <1>0 DEF IInv, TypeOK, JoinEntry
<1>2. EntryIsMapped' /\ EntriesAreDistinct' /\ HeldIsLocked'
  BY <1>0 DEF IInv, TypeOK, JoinEntry, EntryIsMapped, EntriesAreDistinct, HeldIsLocked
<1>3. RefsCountUsers'
  <2>1. p \notin Users(e)
    BY <1>0 DEF IInv, TypeOK, JoinEntry, EntryIsMapped, Users
  <2>2. Users(e)' = Users(e) \cup {p}
    BY <1>0 DEF IInv, TypeOK, JoinEntry, Users
  <2>3. Cardinality(Users(e)') = refs[e] + 1
    <3>1. Users(e) \in SUBSET Procs
      BY DEF Users
    <3>2. Cardinality(Users(e) \cup {p}) = Cardinality(Users(e)) + 1
      BY <2>1, <3>1, CountProcs
    <3>3. refs[e] = Cardinality(Users(e))
      BY <1>0 DEF IInv, RefsCountUsers, JoinEntry
    <3>. QED BY <2>2, <3>2, <3>3
  <2>4. \A f \in Entries \ {e} : Users(f)' = Users(f)
    BY <1>0 DEF IInv, TypeOK, JoinEntry, EntryIsMapped, Users
  <2>. QED
    BY <1>0, <2>3, <2>4 DEF IInv, TypeOK, JoinEntry, RefsCountUsers, EntriesAreDistinct
<1>. QED BY <1>1, <1>2, <1>3 DEF IInv

\* Allocating an entry that nothing refers to.
LEMMA CreateInv ==
    ASSUME IInv, NEW p \in Procs, NEW k \in Keys, CreateEntry(p, k)
    PROVE  IInv'
<1>. USE LockerAssumption
<1>1. PICK e \in Entries :
          /\ Unreachable(e)
          /\ entries' = [entries EXCEPT ![k] = e]
          /\ refs' = [refs EXCEPT ![e] = 1]
          /\ holder' = [holder EXCEPT ![e] = NoProc]
          /\ entry' = [entry EXCEPT ![p] = e]
  BY DEF CreateEntry
<1>2. TypeOK'
  BY <1>1 DEF IInv, TypeOK, CreateEntry
<1>3. EntryIsMapped'
  BY <1>1 DEF IInv, TypeOK, CreateEntry, EntryIsMapped
<1>4. EntriesAreDistinct' /\ HeldIsLocked'
  BY <1>1 DEF IInv, TypeOK, CreateEntry, EntryIsMapped, EntriesAreDistinct, HeldIsLocked, Unreachable
<1>5. RefsCountUsers'
  <2>1. Users(e)' = {} \cup {p}
    BY <1>1 DEF IInv, TypeOK, Unreachable, Users
  <2>2. Cardinality(Users(e)') = 1
    <3>1. Cardinality({}) = 0 /\ Cardinality({} \cup {p}) = Cardinality({}) + 1
      BY CountProcs
    <3>. QED BY <2>1, <3>1
  <2>3. \A f \in Entries \ {e} : Users(f)' = Users(f)
    BY <1>1 DEF IInv, TypeOK, CreateEntry, EntryIsMapped, Users
  <2>. QED
    BY <1>1, <2>2, <2>3 DEF IInv, TypeOK, RefsCountUsers, Unreachable
<1>. QED BY <1>2, <1>3, <1>4, <1>5 DEF IInv

\* Dropping a reference, and the entry with the last one.
LEMMA DropInv ==
    ASSUME IInv, NEW p \in Procs, DropReference(p)
    PROVE  IInv'
<1>. USE LockerAssumption
<1>0. PICK e \in Entries, k \in Keys :
          e = entry[p] /\ k = key[p] /\ entries[k] = e
  BY DEF IInv, DropReference, EntryIsMapped
<1>1. /\ Users(e)' = Users(e) \ {p}
      /\ p \in Users(e)
      /\ refs[e] = Cardinality(Users(e))
  BY <1>0 DEF IInv, TypeOK, DropReference, Users, RefsCountUsers
<1>2. Cardinality(Users(e)') = refs[e] - 1 /\ refs[e] # 0 /\ refs[e] \in Nat
  <2>1. Users(e) \in SUBSET Procs
    BY DEF Users
  <2>2. Cardinality(Users(e) \ {p}) = Cardinality(Users(e)) - 1
    BY <1>1, <2>1, CountProcs
  <2>3. refs[e] # 0 /\ refs[e] \in Nat
    BY <1>0 DEF IInv, TypeOK, RefsCountUsers
  <2>. QED BY <1>1, <2>2, <2>3
<1>3. \A f \in Entries \ {e} : Users(f)' = Users(f)
  BY <1>0 DEF IInv, TypeOK, DropReference, Users
<1>4. TypeOK'
  BY <1>0, <1>2 DEF IInv, TypeOK, DropReference
<1>5. EntryIsMapped'
  <2>1. CASE refs[e] = 1
    <3>1. Users(e)' = {}
      <4>1. Users(e) \ {p} \in SUBSET Procs /\ Cardinality(Users(e) \ {p}) = 0
        BY <2>1, <1>1, <1>2 DEF Users
      <4>. QED BY <4>1, <1>1, CountProcs
    <3>2. \A q \in Procs \ {p} : key[q] # k
      BY <1>0, <3>1 DEF IInv, TypeOK, DropReference, EntryIsMapped, Users
    <3>. QED
      BY <2>1, <1>0, <3>2 DEF IInv, TypeOK, DropReference, EntryIsMapped
  <2>2. CASE refs[e] # 1
    BY <2>2, <1>0 DEF IInv, TypeOK, DropReference, EntryIsMapped
  <2>. QED BY <2>1, <2>2
<1>6. EntriesAreDistinct' /\ HeldIsLocked'
  BY <1>0 DEF IInv, TypeOK, DropReference, EntriesAreDistinct, HeldIsLocked
<1>7. RefsCountUsers'
  <2>1. \A j \in Keys \ {k} : entries[j] # NoEntry => entries[j] # e
    BY <1>0 DEF IInv, EntriesAreDistinct
  <2>2. CASE refs[e] = 1
    BY <2>2, <2>1, <1>0, <1>3 DEF IInv, TypeOK, DropReference, RefsCountUsers
  <2>3. CASE refs[e] # 1
    BY <2>3, <2>1, <1>0, <1>2, <1>3 DEF IInv, TypeOK, DropReference, RefsCountUsers
  <2>. QED BY <2>2, <2>3
<1>. QED BY <1>4, <1>5, <1>6, <1>7 DEF IInv

\* Every step keeps the inductive invariant.
LEMMA NextInv == IInv /\ [Next]_vars => IInv'
<1>. SUFFICES ASSUME IInv, [Next]_vars PROVE IInv'
  OBVIOUS
<1>. USE LockerAssumption
<1>1. ASSUME NEW p \in Procs, Acquire(p) PROVE IInv'
  <2>1. TypeOK' /\ EntryIsMapped' /\ EntriesAreDistinct'
    BY <1>1 DEF IInv, TypeOK, Acquire, EntryIsMapped, EntriesAreDistinct
  <2>2. RefsCountUsers'
    BY <1>1 DEF IInv, TypeOK, Acquire, RefsCountUsers, Users
  <2>3. HeldIsLocked'
    BY <1>1 DEF IInv, TypeOK, Acquire, EntryIsMapped, HeldIsLocked
  <2>. QED BY <2>1, <2>2, <2>3 DEF IInv
<1>2. ASSUME NEW p \in Procs, Unlock(p) PROVE IInv'
  <2>1. TypeOK' /\ EntryIsMapped' /\ EntriesAreDistinct'
    BY <1>2 DEF IInv, TypeOK, Unlock, EntryIsMapped, EntriesAreDistinct
  <2>2. RefsCountUsers'
    BY <1>2 DEF IInv, TypeOK, Unlock, RefsCountUsers, Users
  <2>3. HeldIsLocked'
    BY <1>2 DEF IInv, TypeOK, Unlock, EntryIsMapped, HeldIsLocked
  <2>. QED BY <2>1, <2>2, <2>3 DEF IInv
<1>3. CASE UNCHANGED vars
  BY <1>3 DEF vars, IInv, TypeOK, EntryIsMapped, EntriesAreDistinct, RefsCountUsers,
              Users, HeldIsLocked
<1>. QED
  BY <1>1, <1>2, <1>3, JoinInv, CreateInv, DropInv DEF Next

\* Every reachable state satisfies the inductive invariant.
LEMMA Invariance == Spec => []IInv
  BY InitInv, NextInv, PTL DEF Spec

(***************************************************************************)
(* The variables of the locker keep their types, the reference count its   *)
(* sign included: refs-- never takes it below zero.                        *)
(***************************************************************************)
THEOREM TypeCorrect == Spec => []TypeOK
<1>1. IInv => TypeOK
  BY DEF IInv
<1>. QED BY <1>1, Invariance, PTL

(***************************************************************************)
(* keyed_lock.go serializes per key, for any number of goroutines and any  *)
(* keys: no two goroutines are in their critical sections for one key.     *)
(***************************************************************************)
THEOREM LockExcludes == Spec => []MutualExclusion
<1>1. IInv => MutualExclusion
  BY DEF IInv, EntryIsMapped, HeldIsLocked, MutualExclusion
<1>. QED BY <1>1, Invariance, PTL

(***************************************************************************)
(* keyed_lock.go removes idle entries and only idle entries: a key is      *)
(* mapped exactly while a goroutine is using it.                           *)
(***************************************************************************)
THEOREM EntriesInUse == Spec => []EntriesAreInUse
<1>1. ASSUME IInv PROVE EntriesAreInUse
  <2>1. ASSUME NEW k \in Keys, entries[k] # NoEntry
        PROVE  \E p \in Procs : key[p] = k
    <3>1. Users(entries[k]) # {}
      BY <1>1, <2>1, CountProcs DEF IInv, RefsCountUsers, Users
    <3>2. PICK p \in Procs : entry[p] = entries[k]
      BY <3>1 DEF Users
    <3>. QED
      BY <1>1, <2>1, <3>2, LockerAssumption
         DEF IInv, TypeOK, EntryIsMapped, EntriesAreDistinct
  <2>2. ASSUME NEW k \in Keys, NEW p \in Procs, key[p] = k
        PROVE  entries[k] # NoEntry
    BY <1>1, <2>2, LockerAssumption DEF IInv, TypeOK, EntryIsMapped
  <2>. QED BY <2>1, <2>2 DEF EntriesAreInUse
<1>. QED BY <1>1, Invariance, PTL

-----------------------------------------------------------------------------

\* What the refinement mapping computes in a reachable state: the one holder
\* of a key, if there is one.
LEMMA OwnerIsHolder ==
    ASSUME IInv, NEW k \in Keys
    PROVE  /\ \A p \in Procs : Owner[k] = p <=> p \in Holders(k)
           /\ Owner[k] = NoProc <=> Holders(k) = {}
<1>1. \A p, q \in Holders(k) : p = q
  BY DEF IInv, EntryIsMapped, HeldIsLocked, Holders
<1>2. Holders(k) # {} => Owner[k] \in Holders(k)
  BY DEF Owner
<1>3. Holders(k) \subseteq Procs
  BY DEF Holders
<1>. QED
  BY <1>1, <1>2, <1>3, LockerAssumption DEF Owner

\* A step that changes nobody's membership leaves the abstract owner alone.
LEMMA OwnerUnchanged ==
    ASSUME \A k \in Keys : Holders(k)' = Holders(k)
    PROVE  Owner' = Owner
<1>1. \A k \in Keys : Owner'[k] = Owner[k]
  <2>. TAKE k \in Keys
  <2>1. Holders(k)' = Holders(k)
    OBVIOUS
  <2>. QED BY <2>1 DEF Owner
<1>2. Owner = [k \in Keys |-> Owner[k]] /\ Owner' = [k \in Keys |-> Owner'[k]]
  BY DEF Owner
<1>. QED BY <1>1, <1>2

\* Every step of the locker is a step of the mutex, or none.
LEMMA StepRefines == IInv /\ IInv' /\ [Next]_vars => [Mutex!Next]_(Mutex!vars)
<1>. SUFFICES ASSUME IInv, IInv', [Next]_vars
              PROVE  [Mutex!Next]_(Mutex!vars)
  OBVIOUS
<1>. USE LockerAssumption
<1>1. ASSUME NEW p \in Procs, NEW k \in Keys, JoinEntry(p, k) \/ CreateEntry(p, k)
      PROVE  Mutex!Ask(p, k)
  <2>1. /\ pc[p] = "idle"
        /\ key' = [key EXCEPT ![p] = k]
        /\ pc' = [pc EXCEPT ![p] = "waiting"]
    BY <1>1 DEF JoinEntry, CreateEntry
  <2>2. \A j \in Keys : Holders(j)' = Holders(j)
    BY <2>1 DEF IInv, TypeOK, Holders
  <2>3. Owner' = Owner
    BY <2>2, OwnerUnchanged
  <2>4. \A j \in Keys : Owner[j] # p
    BY <2>1, OwnerIsHolder DEF Holders
  <2>5. Wants[p] = NoKey /\ Wants' = [Wants EXCEPT ![p] = k]
    BY <2>1 DEF IInv, TypeOK, Wants
  <2>. QED BY <2>3, <2>4, <2>5 DEF Mutex!Ask
<1>2. ASSUME NEW p \in Procs, Acquire(p)
      PROVE  \E k \in Keys : Mutex!Grant(p, k)
  <2>1. PICK k \in Keys : key[p] = k
    BY <1>2 DEF IInv, EntryIsMapped, Acquire
  <2>2. Holders(k) = {}
    BY <1>2, <2>1 DEF IInv, TypeOK, Acquire, EntryIsMapped, HeldIsLocked, Holders
  <2>3. p \in Holders(k)' /\ \A j \in Keys \ {k} : Holders(j)' = Holders(j)
    BY <1>2, <2>1 DEF IInv, TypeOK, Acquire, Holders
  <2>4. Owner[k] = NoProc /\ Owner'[k] = p
    <3>1. Owner[k] = NoProc
      BY <2>2, OwnerIsHolder
    <3>2. \A q, r \in Holders(k)' : q = r
      BY DEF IInv, EntryIsMapped, HeldIsLocked, Holders
    <3>3. Owner'[k] \in Holders(k)'
      BY <2>3 DEF Owner
    <3>. QED BY <2>3, <3>1, <3>2, <3>3
  <2>5. \A j \in Keys \ {k} : Owner'[j] = Owner[j]
    <3>. TAKE j \in Keys \ {k}
    <3>1. Holders(j)' = Holders(j)
      BY <2>3
    <3>. QED BY <3>1 DEF Owner
  <2>6. Owner' = [Owner EXCEPT ![k] = p]
    <3>1. Owner = [j \in Keys |-> Owner[j]] /\ Owner' = [j \in Keys |-> Owner'[j]]
      BY DEF Owner
    <3>. QED BY <2>4, <2>5, <3>1
  <2>7. Wants[p] = k /\ Wants' = [Wants EXCEPT ![p] = NoKey]
    BY <1>2, <2>1 DEF IInv, TypeOK, Acquire, Wants
  <2>. QED BY <2>4, <2>6, <2>7 DEF Mutex!Grant
<1>3. ASSUME NEW p \in Procs, Unlock(p)
      PROVE  \E k \in Keys : Mutex!Release(p, k)
  <2>1. PICK k \in Keys : key[p] = k
    BY <1>3 DEF IInv, EntryIsMapped, Unlock
  <2>2. p \in Holders(k) /\ Owner[k] = p
    BY <1>3, <2>1, OwnerIsHolder DEF Unlock, Holders
  <2>3. \A q \in Holders(k) : q = p
    BY <2>2 DEF IInv, EntryIsMapped, HeldIsLocked, Holders
  <2>4. Holders(k)' = {} /\ \A j \in Keys \ {k} : Holders(j)' = Holders(j)
    BY <1>3, <2>1, <2>3 DEF IInv, TypeOK, Unlock, Holders
  <2>5. Owner' = [Owner EXCEPT ![k] = NoProc]
    <3>1. \A j \in Keys \ {k} : Owner'[j] = Owner[j]
      <4>. TAKE j \in Keys \ {k}
      <4>1. Holders(j)' = Holders(j)
        BY <2>4
      <4>. QED BY <4>1 DEF Owner
    <3>2. Owner'[k] = NoProc
      BY <2>4 DEF Owner
    <3>3. Owner = [j \in Keys |-> Owner[j]] /\ Owner' = [j \in Keys |-> Owner'[j]]
      BY DEF Owner
    <3>. QED BY <3>1, <3>2, <3>3
  <2>6. Wants' = Wants
    BY <1>3 DEF IInv, TypeOK, Unlock, Wants
  <2>. QED BY <2>2, <2>5, <2>6 DEF Mutex!Release
<1>4. ASSUME NEW p \in Procs, DropReference(p)
      PROVE  UNCHANGED Mutex!vars
  <2>1. \A j \in Keys : Holders(j)' = Holders(j)
    BY <1>4 DEF IInv, TypeOK, DropReference, Holders
  <2>2. Owner' = Owner
    BY <2>1, OwnerUnchanged
  <2>3. Wants' = Wants
    BY <1>4 DEF IInv, TypeOK, DropReference, Wants
  <2>. QED BY <2>2, <2>3 DEF Mutex!vars
<1>5. CASE UNCHANGED vars
  <2>1. \A j \in Keys : Holders(j)' = Holders(j)
    BY <1>5 DEF vars, Holders
  <2>2. Owner' = Owner
    BY <2>1, OwnerUnchanged
  <2>. QED BY <1>5, <2>2 DEF vars, Wants, Mutex!vars
<1>. QED
  BY <1>1, <1>2, <1>3, <1>4, <1>5 DEF Next, Mutex!Next

(***************************************************************************)
(* For any number of goroutines and any keys, the reference counted map of *)
(* keyed_lock.go behaves as one mutex per key: allocating, sharing and     *)
(* deleting entries is invisible to the callers of Lock.                   *)
(***************************************************************************)
THEOREM LockerImplementsMutex == Spec => ImplementsKeyedMutex
<1>1. Init => Mutex!Init
  BY DEF Init, Mutex!Init, Owner, Wants, Holders
<1>. QED
  BY <1>1, StepRefines, Invariance, PTL DEF Spec, Mutex!Spec, ImplementsKeyedMutex
=============================================================================
