---------------------------- MODULE ModalProofs ----------------------------
(***************************************************************************)
(* Safety of ModalStack, for any finite set of dialogs and any triggers.   *)
(* The inductive invariant says that the stack alone determines the rest:  *)
(* a dialog has locked the page and the dialogs below it, so an element    *)
(* has as many locks as dialogs above it, the first of which has noted     *)
(* whether it was inert by itself.  A dialog that leaves the middle of the *)
(* stack shifts those above it, and every count follows.                   *)
(***************************************************************************)
EXTENDS ModalStack, FiniteSetTheorems, SequenceTheorems, TLAPS

\* A stack has each dialog once.
OnceEach(s) == s \in Seq(Dialogs) /\ \A i, j \in 1..Len(s) : s[i] = s[j] => i = j

LEMMA SetOfSequence ==
    ASSUME NEW s \in Seq(Dialogs)
    PROVE  ToSet(s) = {s[i] : i \in 1..Len(s)} /\ ToSet(s) \subseteq Dialogs
<1>1. DOMAIN s = 1..Len(s) /\ \A i \in 1..Len(s) : s[i] \in Dialogs
  BY LenProperties, ElementOfSeq
<1>. QED
  BY <1>1 DEF ToSet

\* A dialog that mounts comes on top of the others.
OnTop(s, d, t) ==
    /\ OnceEach(t) /\ t # <<>>
    /\ Len(s) \in Nat /\ Len(t) = Len(s) + 1
    /\ t[Len(t)] = d /\ \A i \in 1..Len(s) : t[i] = s[i]
    /\ ToSet(t) = ToSet(s) \cup {d} /\ ToSet(s) \subseteq Dialogs
    /\ ToSet(s) = {s[i] : i \in 1..Len(s)}

LEMMA OneOnTop ==
    ASSUME NEW s, OnceEach(s), NEW d \in Dialogs, d \notin ToSet(s),
           NEW t, t = Append(s, d)
    PROVE  OnTop(s, d, t)
<1>1. s \in Seq(Dialogs) /\ Len(s) \in Nat /\ \A i \in 1..Len(s) : s[i] \in Dialogs /\ s[i] # d
  BY SetOfSequence, LenProperties, ElementOfSeq DEF OnceEach
<1>2. /\ t \in Seq(Dialogs) /\ Len(t) = Len(s) + 1 /\ t # <<>>
      /\ t[Len(s) + 1] = d /\ \A i \in 1..Len(s) : t[i] = s[i]
  BY <1>1, AppendProperties, EmptySeq
<1>3. OnceEach(t)
  <2>1. SUFFICES ASSUME NEW i \in 1..Len(t), NEW j \in 1..Len(t), t[i] = t[j] PROVE i = j
    BY <1>2 DEF OnceEach
  <2>2. /\ i \in 1..Len(s) \/ i = Len(s) + 1
        /\ j \in 1..Len(s) \/ j = Len(s) + 1
    BY <1>1, <1>2
  <2>. QED
    BY <1>1, <1>2, <2>1, <2>2 DEF OnceEach
<1>4. 1..Len(t) = 1..Len(s) \cup {Len(s) + 1}
  BY <1>1, <1>2
<1>5. ToSet(t) = ToSet(s) \cup {d}
  BY <1>1, <1>2, <1>4, SetOfSequence
<1>6. ToSet(s) \subseteq Dialogs /\ ToSet(s) = {s[i] : i \in 1..Len(s)}
  BY <1>1, SetOfSequence
<1>. QED
  BY <1>1, <1>2, <1>3, <1>5, <1>6 DEF OnTop

\* A dialog that leaves, wherever it is, leaves the others in their order.
Leaves(s, k, t) ==
    /\ OnceEach(t)
    /\ Len(s) \in Nat \ {0} /\ Len(t) = Len(s) - 1
    /\ \A i \in 1..Len(t) : t[i] = IF i < k THEN s[i] ELSE s[i + 1]
    /\ ToSet(t) = ToSet(s) \ {s[k]} /\ ToSet(s) \subseteq Dialogs
    /\ ToSet(s) = {s[i] : i \in 1..Len(s)}

LEMMA OneLeaves ==
    ASSUME NEW s, OnceEach(s), NEW k \in 1..Len(s), NEW t, t = RemoveAt(s, k)
    PROVE  Leaves(s, k, t)
<1>1. s \in Seq(Dialogs) /\ Len(s) \in Nat \ {0} /\ k \in Nat /\ k - 1 \in Nat
  BY LenProperties DEF OnceEach
<1> DEFINE front == SubSeq(s, 1, k - 1)
           back == SubSeq(s, k + 1, Len(s))
<1>2. /\ front \in Seq(Dialogs) /\ Len(front) = k - 1
      /\ \A i \in 1..(k - 1) : front[i] = s[i]
  <2>1. CASE k = 1
    BY <1>1, <2>1, SubSeqEmpty, SubSeqProperties, EmptySeq
  <2>2. CASE k # 1
    BY <1>1, <2>2, SubSeqProperties
  <2>. QED
    BY <2>1, <2>2
<1>3. /\ back \in Seq(Dialogs) /\ Len(back) = Len(s) - k
      /\ \A i \in 1..(Len(s) - k) : back[i] = s[k + i]
  <2>1. CASE k = Len(s)
    BY <1>1, <2>1, SubSeqEmpty, SubSeqProperties, EmptySeq
  <2>2. CASE k # Len(s)
    BY <1>1, <2>2, SubSeqProperties
  <2>. QED
    BY <2>1, <2>2
<1> HIDE DEF front, back
<1>4. t = front \o back
  BY DEF RemoveAt, front, back
<1>5. /\ t \in Seq(Dialogs) /\ Len(t) = Len(s) - 1
      /\ \A i \in 1..(Len(s) - 1) : t[i] = IF i <= k - 1 THEN front[i] ELSE back[i - (k - 1)]
  <2>1. (k - 1) + (Len(s) - k) = Len(s) - 1
    BY <1>1
  <2>2. /\ t \in Seq(Dialogs) /\ Len(t) = Len(front) + Len(back)
        /\ \A i \in 1..(Len(front) + Len(back)) :
              t[i] = IF i <= Len(front) THEN front[i] ELSE back[i - Len(front)]
    <3>1. front \in Seq(Dialogs) /\ back \in Seq(Dialogs)
      BY <1>2, <1>3
    <3>2. /\ front \o back \in Seq(Dialogs) /\ Len(front \o back) = Len(front) + Len(back)
          /\ \A i \in 1..(Len(front) + Len(back)) :
                (front \o back)[i] = IF i <= Len(front) THEN front[i] ELSE back[i - Len(front)]
      BY ONLY <3>1, ConcatProperties, Zenon
    <3>. QED
      BY ONLY <1>4, <3>2, Zenon
  <2>3. Len(front) = k - 1 /\ Len(front) + Len(back) = Len(s) - 1
    BY <1>2, <1>3, <2>1
  <2>. QED
    BY <2>2, <2>3
<1>6. ASSUME NEW i \in 1..Len(t) PROVE t[i] = IF i < k THEN s[i] ELSE s[i + 1]
  <2>1. CASE i < k
    <3>1. i \in 1..(Len(s) - 1) /\ i <= k - 1 /\ i \in 1..(k - 1)
      BY <1>1, <1>5, <2>1
    <3>. QED
      BY <1>2, <1>5, <2>1, <3>1
  <2>2. CASE ~(i < k)
    <3>1. i - (k - 1) \in 1..(Len(s) - k) /\ k + (i - (k - 1)) = i + 1
      BY <1>1, <1>5, <2>2
    <3>2. t[i] = back[i - (k - 1)]
      BY <1>1, <1>5, <2>2
    <3>. QED
      BY <1>3, <2>2, <3>1, <3>2
  <2>. QED
    BY <2>1, <2>2
<1>7. OnceEach(t)
  <2>1. SUFFICES ASSUME NEW i \in 1..Len(t), NEW j \in 1..Len(t), t[i] = t[j] PROVE i = j
    BY <1>5 DEF OnceEach
  <2>2. /\ i \in 1..Len(s) /\ i + 1 \in 1..Len(s) /\ j \in 1..Len(s) /\ j + 1 \in 1..Len(s)
        /\ i \in Nat /\ j \in Nat
    BY <1>1, <1>5
  <2>. QED
    BY <1>1, <1>6, <2>1, <2>2 DEF OnceEach
<1>8. ToSet(t) = ToSet(s) \ {s[k]}
  <2>1. ToSet(t) = {t[i] : i \in 1..Len(t)} /\ ToSet(s) = {s[i] : i \in 1..Len(s)}
    BY <1>1, <1>5, SetOfSequence
  <2>2. ASSUME NEW i \in 1..Len(t) PROVE t[i] \in ToSet(s) \ {s[k]}
    <3>1. i \in 1..Len(s) /\ i + 1 \in 1..Len(s) /\ i \in Nat
      BY <1>1, <1>5
    <3>. QED
      BY <1>1, <1>6, <2>1, <3>1 DEF OnceEach
  <2>3. ASSUME NEW j \in 1..Len(s), j # k PROVE s[j] \in ToSet(t)
    <3>1. CASE j < k
      <4>1. j \in 1..Len(t)
        BY <1>1, <1>5, <3>1
      <4>. QED
        BY <1>6, <2>1, <3>1, <4>1
    <3>2. CASE j > k
      <4>1. j - 1 \in 1..Len(t) /\ ~(j - 1 < k) /\ (j - 1) + 1 = j
        BY <1>1, <1>5, <3>2
      <4>. QED
        BY <1>6, <2>1, <4>1
    <3>. QED
      BY <1>1, <2>3, <3>1, <3>2
  <2>. QED
    BY <2>1, <2>2, <2>3
<1>9. ToSet(s) \subseteq Dialogs /\ ToSet(s) = {s[i] : i \in 1..Len(s)}
  BY <1>1, SetOfSequence
<1>. QED
  BY <1>1, <1>5, <1>6, <1>7, <1>8, <1>9 DEF Leaves

\* The elements that are below the dialog at place i of a stack.
Below(s, i) == PageElements \cup {s[j] : j \in 1..(i - 1)}

\* Each dialog on the stack has locked what is below it.
BackgroundOf(s, b) ==
    /\ b \in [Dialogs -> SUBSET Elements]
    /\ \A i \in 1..Len(s) : b[s[i]] = Below(s, i)
    /\ \A d \in Dialogs \ ToSet(s) : b[d] = {}

\* An element has the locks of the dialogs above it, and its entry remembers
\* how it was before the first of them.
LocksOf(s, locks) ==
    /\ locks \in [Elements -> [count : Nat, inert : BOOLEAN]]
    /\ \A e \in PageElements : locks[e].count = Len(s)
    /\ \A i \in 1..Len(s) : locks[s[i]].count = Len(s) - i
    /\ \A d \in Dialogs \ ToSet(s) : locks[d].count = 0
    /\ \A e \in Elements : locks[e].count > 0 => (locks[e].inert <=> e \in InertByItself)

\* What is inert: by itself, or since something is above it.
InertOf(s, inerts) ==
    /\ inerts \subseteq Elements
    /\ \A e \in PageElements : e \in inerts <=> e \in InertByItself \/ Len(s) > 0
    /\ \A i \in 1..Len(s) : s[i] \in inerts <=> i < Len(s)
    /\ \A d \in Dialogs \ ToSet(s) : d \notin inerts

LEMMA ElementsApart ==
    ASSUME ModalAssumption
    PROVE  PageElements \cap Dialogs = {} /\ InertByItself \subseteq PageElements
  BY DEF ModalAssumption, PageElements, InertByItself

LEMMA MountBackground ==
    ASSUME NEW s, OnceEach(s), NEW d \in Dialogs, d \notin ToSet(s), NEW t, t = Append(s, d),
           NEW b, BackgroundOf(s, b), NEW b2,
           b2 = [b EXCEPT ![d] = PageElements \cup ToSet(s)]
    PROVE  BackgroundOf(t, b2)
<1>1. /\ Len(s) \in Nat /\ Len(t) = Len(s) + 1
      /\ t[Len(t)] = d /\ \A i \in 1..Len(s) : t[i] = s[i]
      /\ ToSet(t) = ToSet(s) \cup {d} /\ ToSet(s) \subseteq Dialogs
      /\ ToSet(s) = {s[i] : i \in 1..Len(s)}
  <2>1. OnTop(s, d, t)
    BY OneOnTop
  <2>. QED
    BY ONLY <2>1 DEF OnTop
<1>2. b2 \in [Dialogs -> SUBSET Elements]
  BY <1>1 DEF BackgroundOf, Elements
<1>3. ASSUME NEW i \in 1..Len(t) PROVE b2[t[i]] = Below(t, i)
  <2>1. \A j \in 1..(i - 1) : j \in 1..Len(s) /\ t[j] = s[j]
    BY <1>1
  <2>2. Below(t, i) = Below(s, i)
    BY <2>1 DEF Below
  <2>3. CASE i \in 1..Len(s)
    <3>1. t[i] = s[i] /\ s[i] # d /\ s[i] \in Dialogs
      BY <1>1, <2>3
    <3>. QED
      BY <2>2, <2>3, <3>1 DEF BackgroundOf
  <2>4. CASE i = Len(s) + 1
    <3>1. t[i] = d /\ i - 1 = Len(s)
      BY <1>1, <2>4
    <3>2. Below(s, i) = PageElements \cup ToSet(s)
      BY <1>1, <3>1 DEF Below
    <3>. QED
      BY <2>2, <3>1, <3>2 DEF BackgroundOf
  <2>. QED
    BY <1>1, <2>3, <2>4
<1>. QED
  BY <1>1, <1>2, <1>3 DEF BackgroundOf

LEMMA MountLocks ==
    ASSUME ModalAssumption,
           NEW s, OnceEach(s), NEW d \in Dialogs, d \notin ToSet(s), NEW t, t = Append(s, d),
           NEW locks, LocksOf(s, locks), NEW inerts, InertOf(s, inerts), NEW locks2,
           locks2 = [e \in Elements |->
              IF e \notin PageElements \cup ToSet(s) THEN locks[e]
              ELSE IF locks[e].count = 0 THEN [count |-> 1, inert |-> e \in inerts]
              ELSE [locks[e] EXCEPT !.count = @ + 1]]
    PROVE  LocksOf(t, locks2)
<1>1. /\ Len(s) \in Nat /\ Len(t) = Len(s) + 1
      /\ t[Len(t)] = d /\ \A i \in 1..Len(s) : t[i] = s[i]
      /\ ToSet(t) = ToSet(s) \cup {d} /\ ToSet(s) \subseteq Dialogs
      /\ ToSet(s) = {s[i] : i \in 1..Len(s)}
  <2>1. OnTop(s, d, t)
    BY OneOnTop
  <2>. QED
    BY ONLY <2>1 DEF OnTop
<1>2. PageElements \cap Dialogs = {} /\ InertByItself \subseteq PageElements
  BY ElementsApart
<1>3. ASSUME NEW e \in Elements
      PROVE  /\ locks[e] \in [count : Nat, inert : BOOLEAN]
             /\ e \notin PageElements \cup ToSet(s) => locks2[e] = locks[e]
             /\ e \in PageElements \cup ToSet(s) /\ locks[e].count = 0
                  => locks2[e] = [count |-> 1, inert |-> e \in inerts]
             /\ e \in PageElements \cup ToSet(s) /\ locks[e].count # 0
                  => locks2[e] = [locks[e] EXCEPT !.count = @ + 1]
  BY DEF LocksOf
<1>4. ASSUME NEW e \in Elements
      PROVE  /\ locks2[e] \in [count : Nat, inert : BOOLEAN]
             /\ locks2[e].count = IF e \in PageElements \cup ToSet(s) THEN locks[e].count + 1
                                  ELSE locks[e].count
  <2>1. CASE e \notin PageElements \cup ToSet(s)
    BY <1>3, <2>1
  <2>2. CASE e \in PageElements \cup ToSet(s) /\ locks[e].count = 0
    BY <1>3, <2>2
  <2>3. CASE e \in PageElements \cup ToSet(s) /\ locks[e].count # 0
    <3>1. locks[e] \in [count : Nat, inert : BOOLEAN]
          /\ locks2[e] = [locks[e] EXCEPT !.count = @ + 1]
      BY <1>3, <2>3
    <3>. QED
      BY <2>3, <3>1
  <2>. QED
    BY <2>1, <2>2, <2>3
<1>5. locks2 \in [Elements -> [count : Nat, inert : BOOLEAN]]
  BY <1>4
<1>6. \A e \in PageElements : locks2[e].count = Len(t)
  BY <1>1, <1>4 DEF Elements, LocksOf
<1>7. ASSUME NEW i \in 1..Len(t) PROVE locks2[t[i]].count = Len(t) - i
  <2>1. CASE i \in 1..Len(s)
    <3>1. t[i] = s[i] /\ s[i] \in ToSet(s) /\ s[i] \in Elements
      BY <1>1, <2>1 DEF Elements
    <3>2. locks[s[i]].count = Len(s) - i
      BY <2>1 DEF LocksOf
    <3>3. locks2[t[i]].count = (Len(s) - i) + 1
      BY <1>4, <3>1, <3>2
    <3>. QED
      BY <1>1, <3>3
  <2>2. CASE i = Len(s) + 1
    <3>1. t[i] = d /\ d \in Elements /\ d \notin PageElements \cup ToSet(s)
      BY <1>1, <1>2, <2>2 DEF Elements
    <3>2. locks2[d].count = 0
      BY <1>4, <3>1 DEF LocksOf
    <3>. QED
      BY <1>1, <2>2, <3>1, <3>2
  <2>. QED
    BY <1>1, <2>1, <2>2
<1>8. ASSUME NEW x \in Dialogs \ ToSet(t) PROVE locks2[x].count = 0
  BY <1>1, <1>2, <1>4 DEF LocksOf, Elements
<1>9. ASSUME NEW e \in Elements, locks2[e].count > 0
      PROVE  locks2[e].inert <=> e \in InertByItself
  <2>1. CASE e \notin PageElements \cup ToSet(s)
    BY <1>3, <1>9, <2>1 DEF LocksOf
  <2>2. CASE e \in PageElements \cup ToSet(s) /\ locks[e].count # 0
    <3>1. locks[e] \in [count : Nat, inert : BOOLEAN]
          /\ locks2[e] = [locks[e] EXCEPT !.count = @ + 1]
      BY <1>3, <2>2
    <3>2. locks[e].count > 0 /\ locks2[e].inert = locks[e].inert
      BY <2>2, <3>1
    <3>. QED
      BY <3>2 DEF LocksOf
  <2>3. CASE e \in PageElements \cup ToSet(s) /\ locks[e].count = 0
    <3>1. locks2[e].inert <=> e \in inerts
      BY <1>3, <2>3
    <3>2. CASE e \in PageElements
      <4>1. Len(s) = 0
        BY <2>3, <3>2 DEF LocksOf
      <4>2. e \in inerts <=> e \in InertByItself
        BY <3>2, <4>1 DEF InertOf
      <4>. QED
        BY <3>1, <4>2
    <3>3. CASE e \in ToSet(s)
      <4>1. PICK i \in 1..Len(s) : e = s[i]
        BY <1>1, <3>3
      <4>2. Len(s) - i = 0
        BY <2>3, <4>1 DEF LocksOf
      <4>3. e \notin inerts
        BY <1>1, <4>1, <4>2 DEF InertOf
      <4>. QED
        BY <1>1, <1>2, <3>1, <3>3, <4>3
    <3>. QED
      BY <2>3, <3>2, <3>3
  <2>. QED
    BY <2>1, <2>2, <2>3
<1>. QED
  BY <1>5, <1>6, <1>7, <1>8, <1>9 DEF LocksOf

LEMMA MountInert ==
    ASSUME ModalAssumption,
           NEW s, OnceEach(s), NEW d \in Dialogs, d \notin ToSet(s), NEW t, t = Append(s, d),
           NEW inerts, InertOf(s, inerts)
    PROVE  InertOf(t, inerts \cup PageElements \cup ToSet(s))
<1>1. /\ Len(s) \in Nat /\ Len(t) = Len(s) + 1
      /\ t[Len(t)] = d /\ \A i \in 1..Len(s) : t[i] = s[i]
      /\ ToSet(t) = ToSet(s) \cup {d} /\ ToSet(s) \subseteq Dialogs
      /\ ToSet(s) = {s[i] : i \in 1..Len(s)}
  <2>1. OnTop(s, d, t)
    BY OneOnTop
  <2>. QED
    BY ONLY <2>1 DEF OnTop
<1>2. PageElements \cap Dialogs = {} /\ InertByItself \subseteq PageElements
  BY ElementsApart
<1> DEFINE all == inerts \cup PageElements \cup ToSet(s)
<1>3. all \subseteq Elements
  BY <1>1 DEF InertOf, Elements
<1>4. ASSUME NEW i \in 1..Len(t) PROVE t[i] \in all <=> i < Len(t)
  <2>1. CASE i \in 1..Len(s)
    BY <1>1, <2>1
  <2>2. CASE i = Len(s) + 1
    BY <1>1, <1>2, <2>2 DEF InertOf
  <2>. QED
    BY <1>1, <2>1, <2>2
<1>5. \A e \in PageElements : e \in all /\ Len(t) > 0
  BY <1>1
<1>6. \A x \in Dialogs \ ToSet(t) : x \notin all
  BY <1>1, <1>2 DEF InertOf
<1>. QED
  BY <1>3, <1>4, <1>5, <1>6 DEF InertOf

\* What the dialog at place k has locked: the page and the dialogs below.
LEMMA LockedByOne ==
    ASSUME ModalAssumption, NEW s, OnceEach(s), NEW k \in 1..Len(s),
           NEW b, BackgroundOf(s, b)
    PROVE  /\ PageElements \subseteq b[s[k]]
           /\ \A i \in 1..Len(s) : s[i] \in b[s[k]] <=> i < k
           /\ \A x \in Dialogs \ ToSet(s) : x \notin b[s[k]]
<1>1. s \in Seq(Dialogs) /\ Len(s) \in Nat /\ \A i \in 1..Len(s) : s[i] \in Dialogs
  BY LenProperties, ElementOfSeq DEF OnceEach
<1>2. ToSet(s) = {s[i] : i \in 1..Len(s)}
  BY <1>1, SetOfSequence
<1>3. b[s[k]] = PageElements \cup {s[j] : j \in 1..(k - 1)}
  BY DEF BackgroundOf, Below
<1>4. PageElements \cap Dialogs = {}
  BY ElementsApart
<1>5. ASSUME NEW i \in 1..Len(s) PROVE s[i] \in b[s[k]] <=> i < k
  <2>1. CASE i < k
    <3>1. i \in 1..(k - 1)
      BY <1>1, <2>1
    <3>. QED
      BY <1>3, <2>1, <3>1
  <2>2. ASSUME s[i] \in b[s[k]] PROVE i < k
    <3>1. PICK j \in 1..(k - 1) : s[i] = s[j]
      BY <1>1, <1>3, <1>4, <2>2
    <3>2. j \in 1..Len(s)
      BY <1>1
    <3>3. i = j
      BY <3>1, <3>2 DEF OnceEach
    <3>. QED
      BY <1>1, <3>3
  <2>. QED
    BY <2>1, <2>2
<1>6. ASSUME NEW x \in Dialogs \ ToSet(s) PROVE x \notin b[s[k]]
  <2>1. \A j \in 1..(k - 1) : j \in 1..Len(s)
    BY <1>1
  <2>. QED
    BY <1>2, <1>3, <1>4, <2>1
<1>. QED
  BY <1>3, <1>5, <1>6

LEMMA CleanupBackground ==
    ASSUME ModalAssumption, NEW s, OnceEach(s), NEW k \in 1..Len(s),
           NEW t, t = RemoveAt(s, k), NEW b, BackgroundOf(s, b), NEW b2,
           b2 = [x \in Dialogs |-> IF x = s[k] THEN {} ELSE b[x] \ {s[k]}]
    PROVE  BackgroundOf(t, b2)
<1>1. /\ Len(s) \in Nat \ {0} /\ Len(t) = Len(s) - 1
      /\ \A i \in 1..Len(t) : t[i] = IF i < k THEN s[i] ELSE s[i + 1]
      /\ ToSet(t) = ToSet(s) \ {s[k]} /\ ToSet(s) \subseteq Dialogs
      /\ ToSet(s) = {s[i] : i \in 1..Len(s)}
  <2>1. Leaves(s, k, t)
    BY OneLeaves
  <2>. QED
    BY ONLY <2>1 DEF Leaves
<1>2. \A i \in 1..Len(s) : s[i] \in Dialogs /\ (s[i] = s[k] => i = k)
  BY <1>1 DEF OnceEach
<1>3. b2 \in [Dialogs -> SUBSET Elements]
  BY DEF BackgroundOf
<1>4. PageElements \cap Dialogs = {}
  BY ElementsApart
<1>5. ASSUME NEW i \in 1..Len(t) PROVE b2[t[i]] = Below(t, i)
  <2>1. CASE i < k
    <3>1. i \in 1..Len(s) /\ t[i] = s[i] /\ s[i] \in Dialogs /\ s[i] # s[k]
      BY <1>1, <1>2, <2>1
    <3>2. ASSUME NEW j \in 1..(i - 1) PROVE t[j] = s[j] /\ s[j] # s[k]
      <4>1. j \in 1..Len(t) /\ j \in 1..Len(s) /\ j < k
        BY <1>1, <2>1
      <4>. QED
        BY <1>1, <1>2, <4>1
    <3>3. b2[t[i]] = Below(s, i) \ {s[k]}
      BY <3>1 DEF BackgroundOf
    <3>4. Below(s, i) \ {s[k]} = PageElements \cup {s[j] : j \in 1..(i - 1)}
      BY <1>2, <1>4, <3>2 DEF Below
    <3>5. {s[j] : j \in 1..(i - 1)} = {t[j] : j \in 1..(i - 1)}
      BY <3>2
    <3>. QED
      BY <3>3, <3>4, <3>5 DEF Below
  <2>2. CASE ~(i < k)
    <3>1. i + 1 \in 1..Len(s) /\ t[i] = s[i + 1] /\ s[i + 1] \in Dialogs /\ s[i + 1] # s[k]
      BY <1>1, <1>2, <2>2
    <3>2. b2[t[i]] = Below(s, i + 1) \ {s[k]}
      BY <3>1 DEF BackgroundOf
    <3>3. Below(s, i + 1) = PageElements \cup {s[j] : j \in 1..i}
      <4>1. (i + 1) - 1 = i
        BY <1>1
      <4>. QED
        BY <4>1 DEF Below
    <3>4. ASSUME NEW j \in 1..i, j # k
          PROVE  s[j] \in {t[m] : m \in 1..(i - 1)}
      <4>1. CASE j < k
        <5>1. j \in 1..(i - 1) /\ j \in 1..Len(t)
          BY <1>1, <2>2, <3>4, <4>1
        <5>2. t[j] = s[j]
          BY <1>1, <4>1, <5>1
        <5>. QED
          BY <5>1, <5>2
      <4>2. CASE j > k
        <5>1. j - 1 \in 1..(i - 1) /\ j - 1 \in 1..Len(t) /\ ~(j - 1 < k) /\ (j - 1) + 1 = j
          BY <1>1, <2>2, <3>4, <4>2
        <5>2. t[j - 1] = s[j]
          BY <1>1, <5>1
        <5>. QED
          BY <5>1, <5>2
      <4>. QED
        BY <1>1, <3>4, <4>1, <4>2
    <3>5. ASSUME NEW m \in 1..(i - 1)
          PROVE  t[m] \in {s[j] : j \in 1..i} \ {s[k]}
      <4>1. m \in 1..Len(t) /\ m \in 1..i /\ m + 1 \in 1..i /\ m \in 1..Len(s)
            /\ m + 1 \in 1..Len(s)
        BY <1>1
      <4>2. CASE m < k
        BY <1>1, <1>2, <4>1, <4>2
      <4>3. CASE ~(m < k)
        <5>1. t[m] = s[m + 1] /\ m + 1 # k
          BY <1>1, <4>1, <4>3
        <5>. QED
          BY <1>2, <4>1, <5>1
      <4>. QED
        BY <4>2, <4>3
    <3>6. {s[j] : j \in 1..i} \ {s[k]} = {t[m] : m \in 1..(i - 1)}
      BY <3>4, <3>5
    <3>7. s[k] \notin PageElements
      BY <1>2, <1>4
    <3>. QED
      BY <3>2, <3>3, <3>6, <3>7 DEF Below
  <2>. QED
    BY <2>1, <2>2
<1>6. ASSUME NEW x \in Dialogs \ ToSet(t) PROVE b2[x] = {}
  BY <1>1 DEF BackgroundOf
<1>. QED
  BY <1>3, <1>5, <1>6 DEF BackgroundOf

\* One entry of the locks, when the dialog that holds es leaves.
Unlocked(e, d, es, locks) ==
    IF e = d \/ (e \in es /\ locks[e].count = 1) THEN NoLock
    ELSE IF e \in es THEN [locks[e] EXCEPT !.count = @ - 1]
    ELSE locks[e]

LEMMA CleanupLocks ==
    ASSUME ModalAssumption, NEW s, OnceEach(s), NEW k \in 1..Len(s),
           NEW t, t = RemoveAt(s, k), NEW b, BackgroundOf(s, b),
           NEW locks, LocksOf(s, locks), NEW locks2,
           locks2 = [e \in Elements |-> Unlocked(e, s[k], b[s[k]], locks)]
    PROVE  LocksOf(t, locks2)
<1>1. /\ Len(s) \in Nat \ {0} /\ Len(t) = Len(s) - 1
      /\ \A i \in 1..Len(t) : t[i] = IF i < k THEN s[i] ELSE s[i + 1]
      /\ ToSet(t) = ToSet(s) \ {s[k]} /\ ToSet(s) \subseteq Dialogs
      /\ ToSet(s) = {s[i] : i \in 1..Len(s)}
  <2>1. Leaves(s, k, t)
    BY OneLeaves
  <2>. QED
    BY ONLY <2>1 DEF Leaves
<1>2. \A i \in 1..Len(s) : s[i] \in Dialogs /\ s[i] \in Elements /\ (s[i] = s[k] => i = k)
  BY <1>1 DEF OnceEach, Elements
<1>3. PageElements \cap Dialogs = {}
  BY ElementsApart
<1>4. /\ PageElements \subseteq b[s[k]]
      /\ \A i \in 1..Len(s) : s[i] \in b[s[k]] <=> i < k
      /\ \A x \in Dialogs \ ToSet(s) : x \notin b[s[k]]
  BY LockedByOne
<1>5. ASSUME NEW e \in Elements
      PROVE  /\ locks[e] \in [count : Nat, inert : BOOLEAN]
             /\ e = s[k] \/ (e \in b[s[k]] /\ locks[e].count = 1) => locks2[e] = NoLock
             /\ e # s[k] /\ e \in b[s[k]] /\ locks[e].count # 1
                  => locks2[e] = [locks[e] EXCEPT !.count = @ - 1]
             /\ e # s[k] /\ e \notin b[s[k]] => locks2[e] = locks[e]
  BY DEF LocksOf, Unlocked
<1>6. ASSUME NEW e \in Elements, e \in b[s[k]] => locks[e].count > 0
      PROVE  /\ locks2[e] \in [count : Nat, inert : BOOLEAN]
             /\ locks2[e].count = IF e = s[k] THEN 0
                                  ELSE IF e \in b[s[k]] THEN locks[e].count - 1
                                  ELSE locks[e].count
             /\ locks2[e].count > 0 => locks2[e].inert = locks[e].inert /\ locks[e].count > 0
  <2>0. locks[e] \in [count : Nat, inert : BOOLEAN] /\ locks[e].count \in Nat
    BY <1>5
  <2>1. CASE e = s[k]
    <3>1. locks2[e] = NoLock
      BY <1>5, <2>1
    <3>. QED
      BY ONLY <2>1, <3>1 DEF NoLock
  <2>2. CASE e # s[k] /\ e \in b[s[k]] /\ locks[e].count = 1
    <3>1. locks2[e] = NoLock
      BY <1>5, <2>2
    <3>2. locks2[e] \in [count : Nat, inert : BOOLEAN] /\ locks2[e].count = 0
      BY ONLY <3>1 DEF NoLock
    <3>. QED
      BY <2>2, <3>2
  <2>3. CASE e # s[k] /\ e \in b[s[k]] /\ locks[e].count # 1
    <3>1. locks2[e] = [locks[e] EXCEPT !.count = @ - 1] /\ locks[e].count > 0
      BY <1>5, <1>6, <2>3
    <3>. QED
      BY <2>0, <2>3, <3>1
  <2>4. CASE e # s[k] /\ e \notin b[s[k]]
    BY <1>5, <2>4
  <2>. QED
    BY <2>1, <2>2, <2>3, <2>4
<1>7. ASSUME NEW e \in PageElements PROVE e \in Elements /\ e \in b[s[k]] /\ e # s[k]
                                          /\ locks[e].count = Len(s)
  BY <1>2, <1>3, <1>4 DEF Elements, LocksOf
<1>8. ASSUME NEW e \in Elements, e \in b[s[k]] PROVE locks[e].count > 0
  <2>1. CASE e \in PageElements
    BY <1>1, <1>7, <2>1
  <2>2. CASE e \in Dialogs
    <3>1. PICK i \in 1..Len(s) : e = s[i]
      BY <1>1, <1>4, <1>8, <2>2
    <3>2. i < k /\ locks[e].count = Len(s) - i
      BY <1>4, <1>8, <3>1 DEF LocksOf
    <3>. QED
      BY <1>1, <3>2
  <2>. QED
    BY <2>1, <2>2 DEF Elements
<1>9. locks2 \in [Elements -> [count : Nat, inert : BOOLEAN]]
  BY <1>6, <1>8
<1>10. ASSUME NEW e \in PageElements PROVE locks2[e].count = Len(t)
  <2>1. e \in Elements /\ e \in b[s[k]] /\ e # s[k] /\ locks[e].count = Len(s)
    BY <1>7
  <2>2. locks2[e].count = Len(s) - 1
    BY <1>1, <1>6, <2>1
  <2>. QED
    BY <1>1, <2>2
<1>11. ASSUME NEW i \in 1..Len(t) PROVE locks2[t[i]].count = Len(t) - i
  <2>1. CASE i < k
    <3>1. i \in 1..Len(s) /\ t[i] = s[i] /\ s[i] \in Elements /\ s[i] # s[k] /\ s[i] \in b[s[k]]
      BY <1>1, <1>2, <1>4, <2>1
    <3>2. locks[s[i]].count = Len(s) - i
      BY <3>1 DEF LocksOf
    <3>3. locks2[t[i]].count = (Len(s) - i) - 1
      BY <1>6, <1>8, <3>1, <3>2
    <3>. QED
      BY <1>1, <3>3
  <2>2. CASE ~(i < k)
    <3>1. i + 1 \in 1..Len(s) /\ t[i] = s[i + 1] /\ s[i + 1] \in Elements /\ s[i + 1] # s[k]
          /\ s[i + 1] \notin b[s[k]]
      BY <1>1, <1>2, <1>4, <2>2
    <3>2. locks[s[i + 1]].count = Len(s) - (i + 1)
      BY <3>1 DEF LocksOf
    <3>3. locks2[t[i]].count = Len(s) - (i + 1)
      BY <1>6, <1>8, <3>1, <3>2
    <3>. QED
      BY <1>1, <3>3
  <2>. QED
    BY <2>1, <2>2
<1>12. ASSUME NEW x \in Dialogs \ ToSet(t) PROVE locks2[x].count = 0
  <2>1. x \in Elements
    BY DEF Elements
  <2>2. CASE x = s[k]
    BY <1>6, <1>8, <2>1, <2>2
  <2>3. CASE x # s[k]
    <3>1. x \in Dialogs \ ToSet(s) /\ x \notin b[s[k]] /\ locks[x].count = 0
      BY <1>1, <1>4, <2>3 DEF LocksOf
    <3>. QED
      BY <1>6, <2>1, <2>3, <3>1
  <2>. QED
    BY <2>2, <2>3
<1>13. ASSUME NEW e \in Elements, locks2[e].count > 0
       PROVE  locks2[e].inert <=> e \in InertByItself
  <2>1. locks2[e].inert = locks[e].inert /\ locks[e].count > 0
    BY <1>6, <1>8, <1>13
  <2>. QED
    BY <2>1 DEF LocksOf
<1>. QED
  BY <1>9, <1>10, <1>11, <1>12, <1>13 DEF LocksOf

LEMMA CleanupInert ==
    ASSUME ModalAssumption, NEW s, OnceEach(s), NEW k \in 1..Len(s),
           NEW t, t = RemoveAt(s, k), NEW b, BackgroundOf(s, b),
           NEW locks, LocksOf(s, locks), NEW inerts, InertOf(s, inerts), NEW inerts2,
           inerts2 = {e \in inerts : e # s[k] /\ (e \in b[s[k]] /\ locks[e].count = 1
                                                    => locks[e].inert)}
    PROVE  InertOf(t, inerts2)
<1>1. /\ Len(s) \in Nat \ {0} /\ Len(t) = Len(s) - 1
      /\ \A i \in 1..Len(t) : t[i] = IF i < k THEN s[i] ELSE s[i + 1]
      /\ ToSet(t) = ToSet(s) \ {s[k]} /\ ToSet(s) \subseteq Dialogs
      /\ ToSet(s) = {s[i] : i \in 1..Len(s)}
  <2>1. Leaves(s, k, t)
    BY OneLeaves
  <2>. QED
    BY ONLY <2>1 DEF Leaves
<1>2. \A i \in 1..Len(s) : s[i] \in Dialogs /\ s[i] \in Elements /\ (s[i] = s[k] => i = k)
  BY <1>1 DEF OnceEach, Elements
<1>3. PageElements \cap Dialogs = {} /\ InertByItself \subseteq PageElements
  BY ElementsApart
<1>4. /\ PageElements \subseteq b[s[k]]
      /\ \A i \in 1..Len(s) : s[i] \in b[s[k]] <=> i < k
      /\ \A x \in Dialogs \ ToSet(s) : x \notin b[s[k]]
  BY LockedByOne
<1>5. ASSUME NEW e \in PageElements PROVE e \in inerts2 <=> e \in InertByItself \/ Len(t) > 0
  <2>1. e \in Elements /\ e # s[k] /\ e \in inerts /\ e \in b[s[k]]
    BY <1>1, <1>2, <1>3, <1>4 DEF Elements, InertOf
  <2>2. locks[e].count = Len(s) /\ (locks[e].inert <=> e \in InertByItself)
    BY <1>1, <2>1 DEF LocksOf
  <2>3. CASE Len(s) = 1
    BY <1>1, <2>1, <2>2, <2>3
  <2>4. CASE Len(s) # 1
    BY <1>1, <2>1, <2>2, <2>4
  <2>. QED
    BY <2>3, <2>4
<1>6. ASSUME NEW i \in 1..Len(t) PROVE t[i] \in inerts2 <=> i < Len(t)
  <2>1. CASE i < k
    <3>1. i \in 1..Len(s) /\ t[i] = s[i] /\ s[i] \in Elements /\ s[i] # s[k] /\ s[i] \in b[s[k]]
      BY <1>1, <1>2, <1>4, <2>1
    <3>2. s[i] \in inerts /\ locks[s[i]].count = Len(s) - i
      BY <1>1, <2>1, <3>1 DEF InertOf, LocksOf
    <3>3. ~locks[s[i]].inert
      <4>1. locks[s[i]].count > 0 /\ s[i] \notin InertByItself
        BY <1>1, <1>2, <1>3, <2>1, <3>1, <3>2
      <4>. QED
        BY <3>1, <4>1 DEF LocksOf
    <3>4. s[i] \in inerts2 <=> Len(s) - i # 1
      BY <3>1, <3>2, <3>3
    <3>. QED
      BY <1>1, <2>1, <3>1, <3>4
  <2>2. CASE ~(i < k)
    <3>1. i + 1 \in 1..Len(s) /\ t[i] = s[i + 1] /\ s[i + 1] # s[k] /\ s[i + 1] \notin b[s[k]]
      BY <1>1, <1>2, <1>4, <2>2
    <3>2. s[i + 1] \in inerts2 <=> i + 1 < Len(s)
      BY <3>1 DEF InertOf
    <3>. QED
      BY <1>1, <3>1, <3>2
  <2>. QED
    BY <2>1, <2>2
<1>7. inerts2 \subseteq Elements /\ \A x \in Dialogs \ ToSet(t) : x \notin inerts2
  BY <1>1 DEF InertOf
<1>. QED
  BY <1>5, <1>6, <1>7 DEF InertOf

-----------------------------------------------------------------------------
\* The invariant: what is mounted is open or on its way out; the stack
\* determines what each dialog has locked, how often each element is locked
\* and what is inert; the page scrolls if nothing is mounted.
MountedIs ==
    /\ OnceEach(modalStack)
    /\ open \cap exitTimer = {} /\ open \cup exitTimer = Stacked
    /\ focusTimer \subseteq Stacked

LayersAre ==
    /\ BackgroundOf(modalStack, background)
    /\ LocksOf(modalStack, backgroundLocks)
    /\ InertOf(modalStack, inert)

BodyIs ==
    /\ overflow = IF modalStack = <<>> THEN "scroll" ELSE "hidden"
    /\ originalOverflow \in {"scroll", "hidden"}
    /\ modalStack # <<>> => originalOverflow = "scroll"
    /\ owner = Top

\* Over a dialog the focus is in one, and the one kept for later is the
\* page's, unless the trigger that had it is gone.
FocusIs ==
    /\ connected \subseteq Triggers
    /\ pageFocus \in connected \cup {"body"}
    /\ previousFocus \in [Dialogs -> Focusable]
    /\ originalFocus \in Focusable
    /\ modalStack = <<>> => focus \in {pageFocus, "notifications"}
    /\ modalStack # <<>> =>
          /\ focus \in Stacked \cup {"body", "notifications"}
          /\ \/ originalFocus \in {pageFocus, "notifications"}
             \/ pageFocus = "body" /\ originalFocus \in Triggers \ connected

ModalInv == MountedIs /\ LayersAre /\ BodyIs /\ FocusIs

LEMMA NoneStacked ==
    ASSUME NEW s \in Seq(Dialogs)
    PROVE  (s = <<>> <=> Len(s) = 0) /\ (s = <<>> <=> ToSet(s) = {})
<1>1. Len(s) \in Nat /\ (s = <<>> <=> Len(s) = 0) /\ ToSet(s) = {s[i] : i \in 1..Len(s)}
  BY SetOfSequence, LenProperties, EmptySeq
<1>2. Len(s) # 0 => 1 \in 1..Len(s)
  BY <1>1
<1>. QED
  BY <1>1, <1>2

\* The top of a stack is on it.
LEMMA TopIsStacked ==
    ASSUME ModalInv, modalStack # <<>>
    PROVE  /\ Top \in Stacked /\ Top \in Dialogs /\ Top = modalStack[Len(modalStack)]
           /\ Len(modalStack) \in Nat \ {0}
<1>1. modalStack \in Seq(Dialogs) /\ Len(modalStack) \in Nat /\ Len(modalStack) # 0
  BY NoneStacked, LenProperties DEF ModalInv, MountedIs, OnceEach
<1>2. Stacked = {modalStack[i] : i \in 1..Len(modalStack)} /\ Stacked \subseteq Dialogs
  BY <1>1, SetOfSequence DEF Stacked
<1>3. Len(modalStack) \in 1..Len(modalStack)
  BY <1>1
<1>4. Top = modalStack[Len(modalStack)]
  BY DEF Top, Last
<1>. QED
  BY <1>1, <1>2, <1>3, <1>4

LEMMA FocusApart ==
    ASSUME ModalAssumption
    PROVE  /\ Dialogs \cap Triggers = {}
           /\ "body" \notin Dialogs \cup Triggers /\ "notifications" \notin Dialogs \cup Triggers
           /\ "app" \in PageElements /\ "app" \notin InertByItself
  BY DEF ModalAssumption, PageElements, InertByItself

LEMMA ModalInitially == ModalAssumption /\ ModalInit => ModalInv
<1> SUFFICES ASSUME ModalAssumption, ModalInit PROVE ModalInv
  OBVIOUS
<1>1. modalStack = <<>> /\ modalStack \in Seq(Dialogs) /\ Len(modalStack) = 0 /\ Stacked = {}
      /\ ToSet(modalStack) = {}
  BY NoneStacked, EmptySeq DEF ModalInit, Stacked
<1>2. 1..Len(modalStack) = {}
  BY <1>1
<1>3. MountedIs
  BY <1>1, <1>2 DEF ModalInit, MountedIs, OnceEach
<1>4. BackgroundOf(modalStack, background)
  BY <1>1, <1>2 DEF ModalInit, BackgroundOf
<1>5. LocksOf(modalStack, backgroundLocks)
  <2>1. NoLock \in [count : Nat, inert : BOOLEAN] /\ NoLock.count = 0
    BY DEF NoLock
  <2>2. backgroundLocks = [e \in Elements |-> NoLock]
    BY DEF ModalInit
  <2>3. \A e \in Elements : backgroundLocks[e].count = 0
    BY <2>1, <2>2
  <2>4. backgroundLocks \in [Elements -> [count : Nat, inert : BOOLEAN]]
    BY <2>1, <2>2
  <2>. QED
    BY <1>1, <1>2, <2>3, <2>4 DEF LocksOf, Elements
<1>6. InertOf(modalStack, inert)
  BY <1>1, <1>2, ElementsApart DEF ModalInit, InertOf, Elements
<1>7. BodyIs
  BY <1>1 DEF ModalInit, BodyIs, Top
<1>8. FocusIs
  BY <1>1 DEF ModalInit, FocusIs, Focusable
<1>. QED
  BY <1>3, <1>4, <1>5, <1>6, <1>7, <1>8 DEF ModalInv, LayersAre

\* A dialog mounts.
LEMMA MountKeeps ==
    ASSUME ModalAssumption, ModalInv, NEW d \in Dialogs, d \notin Stacked, Mount(d),
           UNCHANGED <<connected, pageFocus>>
    PROVE  /\ OnceEach(modalStack)' /\ Stacked' = Stacked \cup {d}
           /\ focusTimer' \subseteq Stacked'
           /\ LayersAre' /\ BodyIs' /\ FocusIs'
<1> DEFINE s == modalStack
           t == modalStack'
<1>1. OnceEach(s) /\ d \notin ToSet(s) /\ t = Append(s, d) /\ s \in Seq(Dialogs)
      /\ Stacked = ToSet(s) /\ Stacked' = ToSet(t)
  BY DEF ModalInv, MountedIs, Mount, Stacked, OnceEach
<1>2. OnTop(s, d, t)
  BY <1>1, OneOnTop
<1>3. /\ OnceEach(t) /\ t # <<>> /\ t[Len(t)] = d
      /\ ToSet(t) = ToSet(s) \cup {d} /\ ToSet(s) \subseteq Dialogs
  BY ONLY <1>2 DEF OnTop
<1>4. (PageElements \cup Stacked) \ {d} = PageElements \cup ToSet(s)
  BY <1>1, ElementsApart
<1>5. BackgroundOf(t, background')
  <2>1. background' = [background EXCEPT ![d] = PageElements \cup ToSet(s)]
    BY <1>4 DEF Mount
  <2>2. BackgroundOf(s, background)
    BY DEF ModalInv, LayersAre
  <2>. QED
    BY <1>1, <2>1, <2>2, MountBackground
<1>6. Lock(PageElements \cup ToSet(s))
  BY <1>4 DEF Mount
<1>7. LocksOf(s, backgroundLocks) /\ InertOf(s, inert)
  BY DEF ModalInv, LayersAre
<1>8. LocksOf(t, backgroundLocks')
  <2>1. backgroundLocks' = [e \in Elements |->
              IF e \notin PageElements \cup ToSet(s) THEN backgroundLocks[e]
              ELSE IF backgroundLocks[e].count = 0 THEN [count |-> 1, inert |-> e \in inert]
              ELSE [backgroundLocks[e] EXCEPT !.count = @ + 1]]
    BY <1>6 DEF Lock
  <2>. QED
    BY ONLY ModalAssumption, d \in Dialogs, <1>1, <1>7, <2>1, MountLocks
<1>9. InertOf(t, inert')
  <2>1. inert' = inert \cup PageElements \cup ToSet(s)
    BY <1>6 DEF Lock
  <2>2. InertOf(t, inert \cup PageElements \cup ToSet(s))
    BY <1>1, <1>7, MountInert
  <2>. QED
    BY <2>1, <2>2
<1>10. LayersAre'
  BY <1>5, <1>8, <1>9 DEF LayersAre
<1>11. BodyIs'
  <2>1. Top' = d
    BY <1>3 DEF Top, Last
  <2>2. originalOverflow' = "scroll"
    BY DEF ModalInv, BodyIs, Mount, SavePage
  <2>. QED
    BY <1>3, <2>1, <2>2 DEF BodyIs, Mount
<1>12. FocusIs'
  <2>1. focus \in Focusable
    BY <1>1, <1>3 DEF ModalInv, FocusIs, Focusable
  <2>2. previousFocus' \in [Dialogs -> Focusable]
    BY <2>1 DEF ModalInv, FocusIs, Mount
  <2>3. focus' \in {"body", "notifications"}
    BY DEF Mount
  <2>4. originalFocus' = IF s = <<>> THEN focus ELSE originalFocus
    BY DEF Mount, SavePage
  <2>5. originalFocus' \in Focusable
    BY <2>1, <2>4 DEF ModalInv, FocusIs
  <2>6. \/ originalFocus' \in {pageFocus, "notifications"}
        \/ pageFocus = "body" /\ originalFocus' \in Triggers \ connected
    <3>1. s = <<>> => focus \in {pageFocus, "notifications"} /\ originalFocus' = focus
      BY <2>4 DEF ModalInv, FocusIs
    <3>2. s # <<>> =>
            /\ originalFocus' = originalFocus
            /\ \/ originalFocus \in {pageFocus, "notifications"}
               \/ pageFocus = "body" /\ originalFocus \in Triggers \ connected
      BY <2>4 DEF ModalInv, FocusIs
    <3>. QED
      BY <3>1, <3>2
  <2>. QED
    BY <1>3, <2>2, <2>3, <2>5, <2>6 DEF ModalInv, FocusIs
<1>13. focusTimer' \subseteq Stacked'
  BY <1>1, <1>3 DEF ModalInv, MountedIs, Mount
<1>. QED
  BY <1>1, <1>3, <1>10, <1>11, <1>12, <1>13

\* A dialog leaves.
LEMMA CleanupKeeps ==
    ASSUME ModalAssumption, ModalInv, NEW d \in Stacked, Cleanup(d),
           UNCHANGED <<connected, pageFocus>>
    PROVE  /\ OnceEach(modalStack)' /\ Stacked' = Stacked \ {d}
           /\ focusTimer' \subseteq Stacked'
           /\ LayersAre' /\ BodyIs' /\ FocusIs'
<1> DEFINE s == modalStack
           t == modalStack'
           k == stackIndex(d)
<1>1. OnceEach(s) /\ s \in Seq(Dialogs) /\ Stacked = ToSet(s) /\ Stacked' = ToSet(t)
      /\ Stacked = {s[i] : i \in 1..Len(s)} /\ DOMAIN s = 1..Len(s) /\ Stacked \subseteq Dialogs
  BY SetOfSequence, LenProperties DEF ModalInv, MountedIs, Stacked, OnceEach
<1>2. k \in 1..Len(s) /\ s[k] = d
  <2>1. \E i \in DOMAIN modalStack : modalStack[i] = d
    BY <1>1
  <2>. QED
    BY <1>1, <2>1 DEF stackIndex
<1>3. t = RemoveAt(s, k)
  BY DEF Cleanup
<1> HIDE DEF k
<1>4. Leaves(s, k, t)
  BY <1>1, <1>2, <1>3, OneLeaves
<1>5. /\ OnceEach(t) /\ Len(s) \in Nat \ {0} /\ Len(t) = Len(s) - 1
      /\ \A i \in 1..Len(t) : t[i] = IF i < k THEN s[i] ELSE s[i + 1]
      /\ ToSet(t) = ToSet(s) \ {s[k]}
  BY ONLY <1>4 DEF Leaves
<1>6. BackgroundOf(s, background) /\ LocksOf(s, backgroundLocks) /\ InertOf(s, inert)
  BY DEF ModalInv, LayersAre
<1>7. BackgroundOf(t, background')
  <2>1. background' = [x \in Dialogs |-> IF x = s[k] THEN {} ELSE background[x] \ {s[k]}]
    BY <1>2 DEF Cleanup
  <2>. QED
    BY <1>1, <1>2, <1>3, <1>6, <2>1, CleanupBackground
<1>8. Unlock(s[k])
  BY <1>2 DEF Cleanup
<1>9. LocksOf(t, backgroundLocks')
  <2>1. backgroundLocks'
          = [e \in Elements |-> Unlocked(e, s[k], background[s[k]], backgroundLocks)]
    BY <1>8 DEF Unlock, Unlocked
  <2>. QED
    BY <1>1, <1>2, <1>3, <1>6, <2>1, CleanupLocks
<1>10. InertOf(t, inert')
  <2>1. inert' = {e \in inert : e # s[k] /\ (e \in background[s[k]]
                     /\ backgroundLocks[e].count = 1 => backgroundLocks[e].inert)}
    BY <1>8 DEF Unlock
  <2>. QED
    BY <1>1, <1>2, <1>3, <1>6, <2>1, CleanupInert
<1>11. LayersAre'
  BY <1>7, <1>9, <1>10 DEF LayersAre
<1>12. /\ t \in Seq(Dialogs) /\ s # <<>> /\ (t = <<>> <=> Len(t) = 0)
       /\ (t = <<>> <=> ToSet(t) = {})
  BY <1>1, <1>5, NoneStacked DEF OnceEach
<1>13. BodyIs'
  <2>1. owner = Top /\ overflow = "hidden" /\ originalOverflow = "scroll"
    BY <1>12 DEF ModalInv, BodyIs
  <2>2. overflow' = IF t = <<>> THEN "scroll" ELSE "hidden"
    BY <1>3, <2>1 DEF Cleanup, k
  <2>3. owner' = OwnerAfter(d, t)
    BY <1>3 DEF Cleanup, k
  <2>4. ASSUME Top = d PROVE owner' = Top'
    <3>1. Top' = IF t = <<>> THEN "body" ELSE Last(t)
      BY DEF Top
    <3>. QED
      BY <2>3, <2>4, <3>1 DEF OwnerAfter
  <2>5. ASSUME Top # d PROVE owner' = Top'
    <3>1. owner' = Top
      BY <2>1, <2>3, <2>5 DEF OwnerAfter
    <3>2. Top = s[Len(s)]
      BY TopIsStacked, <1>12
    <3>3. k # Len(s)
      BY <1>2, <2>5, <3>2
    <3>4. Len(t) \in 1..Len(t) /\ ~(Len(t) < k) /\ Len(t) + 1 = Len(s)
      BY <1>2, <1>5, <3>3
    <3>5. t # <<>> /\ t[Len(t)] = s[Len(s)]
      BY <1>5, <1>12, <3>4
    <3>6. Top' = t[Len(t)]
      BY <3>5 DEF Top, Last
    <3>. QED
      BY <3>1, <3>2, <3>5, <3>6
  <2>6. owner' = Top'
    BY <2>4, <2>5
  <2>. QED
    BY <2>1, <2>2, <2>6 DEF BodyIs, Cleanup
<1>14. FocusIs'
  <2> DEFINE lost == IF focus = d THEN "body" ELSE focus
             back == IF t = <<>> THEN originalFocus
                     ELSE IF Top = d THEN previousFocus[d] ELSE lost
  <2>1. focus' = IF CanFocus(back, ToSet(t), inert') THEN back ELSE lost
    BY <1>3 DEF Cleanup, k
  <2>2. /\ "body" \notin Dialogs \cup Triggers /\ "notifications" \notin Dialogs \cup Triggers
        /\ "app" \in PageElements /\ "app" \notin InertByItself /\ Dialogs \cap Triggers = {}
    BY FocusApart
  <2>3. "app" \in inert' <=> t # <<>>
    <3>1. "app" \in inert' <=> Len(t) > 0
      BY <1>10, <2>2 DEF InertOf
    <3>2. Len(t) \in Nat
      BY <1>5
    <3>. QED
      BY <1>12, <3>1, <3>2
  <2>4. lost \in (Stacked \ {d}) \cup {"body", "notifications"}
    BY <1>12 DEF ModalInv, FocusIs
  <2>5. ToSet(t) = Stacked \ {d} /\ Stacked \subseteq Dialogs
    BY <1>1, <1>2, <1>5
  <2>6. /\ connected \subseteq Triggers /\ pageFocus \in connected \cup {"body"}
        /\ \/ originalFocus \in {pageFocus, "notifications"}
           \/ pageFocus = "body" /\ originalFocus \in Triggers \ connected
    BY <1>12 DEF ModalInv, FocusIs
  <2>7. CASE t = <<>>
    <3>1. lost \in {"body", "notifications"} /\ ToSet(t) = {} /\ "app" \notin inert'
      BY <1>12, <2>3, <2>4, <2>5, <2>7
    <3>2. focus' = IF originalFocus \in connected \/ originalFocus = "notifications"
                   THEN originalFocus ELSE lost
      BY <2>1, <2>7, <3>1 DEF CanFocus
    <3>3. focus' \in {pageFocus, "notifications"}
      BY <2>2, <2>6, <3>1, <3>2
    <3>4. originalFocus' = "body"
      BY <1>3, <2>7 DEF Cleanup, k
    <3>5. previousFocus' \in [Dialogs -> Focusable]
      BY DEF Cleanup, ModalInv, FocusIs, Focusable
    <3>. QED
      BY <2>6, <2>7, <3>3, <3>4, <3>5 DEF FocusIs, Focusable
  <2>8. CASE t # <<>>
    <3>1. focus' \in ToSet(t) \cup {"body", "notifications"}
      BY <2>1, <2>3, <2>4, <2>5, <2>8 DEF CanFocus
    <3>2. originalFocus' = originalFocus
      BY <1>3, <2>8 DEF Cleanup, k
    <3>3. previousFocus' \in [Dialogs -> Focusable]
      BY DEF Cleanup, ModalInv, FocusIs, Focusable
    <3>. QED
      BY <1>1, <2>6, <2>8, <3>1, <3>2, <3>3 DEF ModalInv, FocusIs
  <2>. QED
    BY <2>7, <2>8
<1>15. focusTimer' \subseteq Stacked'
  BY <1>1, <1>2, <1>5 DEF ModalInv, MountedIs, Cleanup
<1>. QED
  BY <1>1, <1>2, <1>5, <1>11, <1>13, <1>14, <1>15

-----------------------------------------------------------------------------
\* The owner of a dialog opens it: a new one mounts, one on its way out stays.
LEMMA OpenKeeps ==
    ASSUME ModalAssumption, ModalInv, NEW d \in Dialogs, Open(d)
    PROVE  ModalInv'
<1>1. CASE d \in Stacked
  <2>1. UNCHANGED <<lockVars, focusTimer, focus, connected, pageFocus>>
    BY <1>1 DEF Open
  <2>2. Stacked' = Stacked /\ Top' = Top
    BY <2>1 DEF Stacked, Top, lockVars
  <2>3. MountedIs'
    BY <1>1, <2>1, <2>2 DEF ModalInv, MountedIs, Open, lockVars
  <2>4. LayersAre' /\ BodyIs' /\ FocusIs'
    BY <2>1, <2>2 DEF ModalInv, LayersAre, BodyIs, FocusIs, lockVars
  <2>. QED
    BY <2>3, <2>4 DEF ModalInv
<1>2. CASE d \notin Stacked
  <2>1. /\ OnceEach(modalStack)' /\ Stacked' = Stacked \cup {d}
        /\ focusTimer' \subseteq Stacked'
        /\ LayersAre' /\ BodyIs' /\ FocusIs'
    BY <1>2, MountKeeps DEF Open
  <2>2. MountedIs'
    BY <2>1 DEF ModalInv, MountedIs, Open
  <2>. QED
    BY <2>1, <2>2 DEF ModalInv
<1>. QED
  BY <1>1, <1>2

\* A dialog that is closed is mounted for its exit animation.
LEMMA CloseKeeps ==
    ASSUME ModalInv, NEW d \in Dialogs, Close(d)
    PROVE  ModalInv'
<1>1. UNCHANGED <<lockVars, focusTimer, focus, connected, pageFocus>>
  BY DEF Close
<1>2. Stacked' = Stacked /\ Top' = Top
  BY <1>1 DEF Stacked, Top, lockVars
<1>3. MountedIs'
  BY <1>1, <1>2 DEF ModalInv, MountedIs, Close, lockVars
<1>4. LayersAre' /\ BodyIs' /\ FocusIs'
  BY <1>1, <1>2 DEF ModalInv, LayersAre, BodyIs, FocusIs, lockVars
<1>. QED
  BY <1>3, <1>4 DEF ModalInv

\* A dialog leaves when its exit timer fires, or with its page.
LEMMA LeavingKeeps ==
    ASSUME ModalAssumption, ModalInv, NEW d \in Dialogs, Exit(d) \/ Unmount(d)
    PROVE  ModalInv'
<1>1. d \in Stacked /\ Cleanup(d) /\ UNCHANGED <<connected, pageFocus>>
  BY DEF Exit, Unmount, ModalInv, MountedIs
<1>2. /\ OnceEach(modalStack)' /\ Stacked' = Stacked \ {d}
      /\ focusTimer' \subseteq Stacked'
      /\ LayersAre' /\ BodyIs' /\ FocusIs'
  BY <1>1, CleanupKeeps
<1>3. MountedIs'
  BY <1>2 DEF ModalInv, MountedIs, Exit, Unmount
<1>. QED
  BY <1>2, <1>3 DEF ModalInv

\* The focus moves: to the dialog that has mounted, from element to element
\* of the one on top, or on the page.
LEMMA FocusKeeps ==
    ASSUME ModalAssumption, ModalInv,
           (\E d \in Dialogs : TakeFocus(d)) \/ Tab
             \/ (\E x \in Triggers : FocusPage(x) \/ Disconnect(x))
    PROVE  ModalInv'
<1>1. UNCHANGED <<lockVars, open, exitTimer>> /\ focusTimer' \subseteq focusTimer
  BY DEF TakeFocus, Tab, FocusPage, Disconnect
<1>2. Stacked' = Stacked /\ Top' = Top
  BY <1>1 DEF Stacked, Top, lockVars
<1>3. MountedIs' /\ LayersAre' /\ BodyIs'
  BY <1>1, <1>2 DEF ModalInv, MountedIs, LayersAre, BodyIs, lockVars
<1>4. modalStack \in Seq(Dialogs) /\ (modalStack = <<>> <=> Stacked = {})
  BY NoneStacked DEF ModalInv, MountedIs, OnceEach, Stacked
<1>5. /\ "body" \notin Dialogs \cup Triggers /\ "notifications" \notin Dialogs \cup Triggers
      /\ Dialogs \cap Triggers = {} /\ Stacked \subseteq Dialogs
  BY <1>4, FocusApart, SetOfSequence DEF Stacked
<1>6. ASSUME NEW d \in Dialogs, TakeFocus(d) PROVE FocusIs'
  <2>1. d \in Stacked /\ focus' \in {d, focus} /\ UNCHANGED <<connected, pageFocus>>
    BY <1>6 DEF TakeFocus, ModalInv, MountedIs
  <2>. QED
    BY <1>1, <1>2, <1>4, <2>1 DEF ModalInv, FocusIs, lockVars
<1>7. ASSUME Tab PROVE FocusIs'
  <2>1. /\ modalStack # <<>> /\ Top \in Stacked /\ focus' \in {Top, "notifications"}
        /\ UNCHANGED <<connected, pageFocus>>
    BY <1>7, TopIsStacked DEF Tab
  <2>. QED
    BY <1>1, <1>2, <2>1 DEF ModalInv, FocusIs, lockVars
<1>8. ASSUME NEW x \in Triggers, FocusPage(x) PROVE FocusIs'
  <2>1. modalStack = <<>>
    <3>1. "app" \notin inert /\ InertOf(modalStack, inert) /\ "app" \in PageElements
      BY <1>8, FocusApart DEF FocusPage, ModalInv, LayersAre
    <3>2. ~(Len(modalStack) > 0) /\ Len(modalStack) \in Nat
      BY <1>4, <3>1, LenProperties DEF InertOf
    <3>. QED
      BY <1>4, <3>2, NoneStacked
  <2>2. /\ x \in connected /\ focus' = x /\ pageFocus' = x /\ connected' = connected
    BY <1>8 DEF FocusPage
  <2>. QED
    BY <1>1, <2>1, <2>2 DEF ModalInv, FocusIs, lockVars
<1>9. ASSUME NEW x \in Triggers, Disconnect(x) PROVE FocusIs'
  <2>1. /\ connected' = connected \ {x}
        /\ focus' = IF focus = x THEN "body" ELSE focus
        /\ pageFocus' = IF pageFocus = x THEN "body" ELSE pageFocus
    BY <1>9 DEF Disconnect
  <2>2. /\ previousFocus' = previousFocus /\ originalFocus' = originalFocus
        /\ modalStack' = modalStack
    BY <1>1 DEF lockVars
  <2>3. connected' \subseteq Triggers /\ pageFocus' \in connected' \cup {"body"}
    BY <2>1 DEF ModalInv, FocusIs
  <2>4. modalStack = <<>> => focus' \in {pageFocus', "notifications"}
    BY <1>5, <2>1 DEF ModalInv, FocusIs
  <2>5. modalStack # <<>> => focus' \in Stacked \cup {"body", "notifications"}
    BY <1>5, <2>1 DEF ModalInv, FocusIs
  <2>6. modalStack # <<>> =>
          \/ originalFocus \in {pageFocus', "notifications"}
          \/ pageFocus' = "body" /\ originalFocus \in Triggers \ connected'
    BY <1>5, <2>1 DEF ModalInv, FocusIs
  <2>. QED
    BY <1>2, <2>2, <2>3, <2>4, <2>5, <2>6 DEF ModalInv, FocusIs
<1>. QED
  BY <1>3, <1>6, <1>7, <1>8, <1>9 DEF ModalInv

\* The invariant holds throughout.
LEMMA ModalInvHolds ==
    ASSUME ModalAssumption
    PROVE  ModalSpec => []ModalInv
<1>1. ModalInit => ModalInv
  BY ModalInitially
<1>2. ModalInv /\ [ModalNext]_modalVars => ModalInv'
  <2> SUFFICES ASSUME ModalInv, [ModalNext]_modalVars PROVE ModalInv'
    OBVIOUS
  <2>1. CASE UNCHANGED modalVars
    BY <2>1 DEF modalVars, ModalInv, MountedIs, LayersAre, BodyIs, FocusIs, Stacked, Top
  <2>2. CASE \E d \in Dialogs : Open(d)
    BY <2>2, OpenKeeps
  <2>3. CASE \E d \in Dialogs : Close(d) \/ Dismiss(d)
    BY <2>3, CloseKeeps DEF Dismiss
  <2>4. CASE \E d \in Dialogs : Exit(d) \/ Unmount(d)
    BY <2>4, LeavingKeeps
  <2>5. CASE (\E d \in Dialogs : TakeFocus(d)) \/ Tab
               \/ (\E x \in Triggers : FocusPage(x) \/ Disconnect(x))
    BY <2>5, FocusKeeps
  <2>. QED
    BY <2>1, <2>2, <2>3, <2>4, <2>5 DEF ModalNext
<1>. QED
  BY <1>1, <1>2, PTL DEF ModalSpec

-----------------------------------------------------------------------------
\* How many dialogs are above a place of a stack.
LEMMA CountAbove ==
    ASSUME NEW s, OnceEach(s), NEW i \in 0..Len(s)
    PROVE  /\ IsFiniteSet({s[j] : j \in (i + 1)..Len(s)})
           /\ Cardinality({s[j] : j \in (i + 1)..Len(s)}) = Len(s) - i
<1> DEFINE places == (i + 1)..Len(s)
           dialogs == {s[j] : j \in places}
           f == [j \in places |-> s[j]]
<1>1. Len(s) \in Nat /\ i \in Nat /\ places \subseteq 1..Len(s)
  BY LenProperties DEF OnceEach
<1>2. f \in Bijection(places, dialogs)
  <2>1. f \in Injection(places, dialogs)
    <3>1. \A a, b \in places : f[a] = f[b] => a = b
      BY <1>1 DEF OnceEach
    <3>. QED
      BY <3>1 DEF Injection, IsInjective
  <2>2. f \in Surjection(places, dialogs)
    BY DEF Surjection
  <2>. QED
    BY <2>1, <2>2 DEF Bijection
<1>3. IsFiniteSet(places) /\ Cardinality(places) = Len(s) - i
  <2>1. i + 1 \in Int /\ Len(s) \in Int
    BY <1>1
  <2>2. IsFiniteSet(places)
        /\ Cardinality(places) = IF i + 1 > Len(s) THEN 0 ELSE Len(s) - (i + 1) + 1
    BY <2>1, FS_Interval
  <2>. QED
    BY <1>1, <2>2
<1> HIDE DEF places, dialogs, f
<1>4. IsFiniteSet(dialogs) /\ Cardinality(dialogs) = Cardinality(places)
  BY <1>2, <1>3, FS_Bijection DEF ExistsBijection
<1>. QED
  BY <1>3, <1>4 DEF dialogs, places

\* The invariant counts the locks of an element: it has one for each dialog
\* that has it in its background.
LEMMA LocksCounted ==
    ASSUME ModalAssumption, ModalInv
    PROVE  LocksAreCounted
<1> DEFINE s == modalStack
<1>1. /\ OnceEach(s) /\ s \in Seq(Dialogs) /\ Len(s) \in Nat
      /\ Stacked = {s[j] : j \in 1..Len(s)} /\ Stacked = ToSet(s) /\ Stacked \subseteq Dialogs
  BY SetOfSequence, LenProperties DEF ModalInv, MountedIs, OnceEach, Stacked
<1>2. BackgroundOf(s, background) /\ LocksOf(s, backgroundLocks)
  BY DEF ModalInv, LayersAre
<1>3. ASSUME NEW j \in 1..Len(s)
      PROVE  /\ PageElements \subseteq background[s[j]]
             /\ \A i \in 1..Len(s) : s[i] \in background[s[j]] <=> i < j
             /\ \A x \in Dialogs \ ToSet(s) : x \notin background[s[j]]
  BY <1>1, <1>2, LockedByOne
<1>4. SUFFICES ASSUME NEW e \in Elements
               PROVE  backgroundLocks[e].count
                        = Cardinality({d \in Stacked : e \in background[d]})
  BY DEF LocksAreCounted
<1>5. CASE e \in PageElements
  <2>1. {d \in Stacked : e \in background[d]} = {s[j] : j \in (0 + 1)..Len(s)}
    BY <1>1, <1>3, <1>5
  <2>2. 0 \in 0..Len(s)
    BY <1>1
  <2>3. Cardinality({s[j] : j \in (0 + 1)..Len(s)}) = Len(s) - 0
    BY <1>1, <2>2, CountAbove
  <2>4. backgroundLocks[e].count = Len(s) - 0
    BY <1>1, <1>2, <1>5 DEF LocksOf
  <2>. QED
    BY ONLY <2>1, <2>3, <2>4
<1>6. CASE e \in Stacked
  <2>1. PICK i \in 1..Len(s) : e = s[i]
    BY <1>1, <1>6
  <2>2. {d \in Stacked : e \in background[d]} = {s[j] : j \in (i + 1)..Len(s)}
    <3>1. ASSUME NEW j \in 1..Len(s) PROVE e \in background[s[j]] <=> j \in (i + 1)..Len(s)
      BY <1>1, <1>3, <2>1
    <3>2. (i + 1)..Len(s) \subseteq 1..Len(s)
      BY <1>1
    <3>. QED
      BY <1>1, <3>1, <3>2
  <2>3. i \in 0..Len(s)
    BY <1>1
  <2>4. Cardinality({s[j] : j \in (i + 1)..Len(s)}) = Len(s) - i
    BY <1>1, <2>3, CountAbove
  <2>. QED
    BY <1>2, <2>1, <2>2, <2>4 DEF LocksOf
<1>7. CASE e \in Dialogs \ Stacked
  <2>1. {d \in Stacked : e \in background[d]} = {}
    BY <1>1, <1>3, <1>7
  <2>. QED
    BY <1>1, <1>2, <1>7, <2>1, FS_EmptySet DEF LocksOf
<1>. QED
  BY <1>5, <1>6, <1>7 DEF Elements

\* What the invariant says of the page and of the dialog on top.
LEMMA ModalInvIsSound ==
    ASSUME ModalAssumption, ModalInv
    PROVE  ModalsAreSound
<1> DEFINE s == modalStack
<1>1. /\ OnceEach(s) /\ s \in Seq(Dialogs) /\ Len(s) \in Nat /\ (s = <<>> <=> Len(s) = 0)
      /\ Stacked = {s[j] : j \in 1..Len(s)} /\ Stacked = ToSet(s) /\ Stacked \subseteq Dialogs
      /\ (s = <<>> <=> Stacked = {})
  BY SetOfSequence, LenProperties, NoneStacked DEF ModalInv, MountedIs, OnceEach, Stacked
<1>2. LocksOf(s, backgroundLocks) /\ InertOf(s, inert)
  BY DEF ModalInv, LayersAre
<1>3. PageElements \cap Dialogs = {} /\ InertByItself \subseteq PageElements
  BY ElementsApart
<1>4. PageIsRestored
  <2> SUFFICES ASSUME s = <<>>
               PROVE  /\ inert = InertByItself
                      /\ \A e \in Elements : backgroundLocks[e].count = 0
                      /\ overflow = "scroll"
    BY DEF PageIsRestored
  <2>1. inert = InertByItself
    <3>1. \A e \in PageElements : e \in inert <=> e \in InertByItself
      BY <1>1, <1>2 DEF InertOf
    <3>2. inert \subseteq PageElements
      BY <1>1, <1>2 DEF InertOf, Elements
    <3>. QED
      BY <1>3, <3>1, <3>2
  <2>2. \A e \in Elements : backgroundLocks[e].count = 0
    BY <1>1, <1>2 DEF LocksOf, Elements
  <2>3. overflow = "scroll"
    BY DEF ModalInv, BodyIs
  <2>. QED
    BY <2>1, <2>2, <2>3
<1>5. OnlyTopIsReachable
  <2> SUFFICES ASSUME s # <<>>
               PROVE  /\ PageElements \cup (Stacked \ {Top}) \subseteq inert
                      /\ Top \notin inert
                      /\ overflow = "hidden"
    BY DEF OnlyTopIsReachable
  <2>1. Top = s[Len(s)] /\ Len(s) \in 1..Len(s)
    BY <1>1, TopIsStacked
  <2>2. PageElements \subseteq inert
    BY <1>1, <1>2 DEF InertOf
  <2>3. ASSUME NEW d \in Stacked, d # Top PROVE d \in inert
    <3>1. PICK i \in 1..Len(s) : d = s[i]
      BY <1>1
    <3>2. i < Len(s)
      BY <1>1, <2>1, <2>3, <3>1
    <3>. QED
      BY <1>2, <3>1, <3>2 DEF InertOf
  <2>4. Top \notin inert
    BY <1>1, <1>2, <2>1 DEF InertOf
  <2>5. overflow = "hidden"
    BY DEF ModalInv, BodyIs
  <2>. QED
    BY <2>2, <2>3, <2>4, <2>5
<1>6. TopOwnsNotifications /\ FocusReturnsToThePage
  BY DEF ModalInv, BodyIs, FocusIs, TopOwnsNotifications, FocusReturnsToThePage
<1>7. OpenIsShown
  BY DEF ModalInv, MountedIs, OpenIsShown
<1>. QED
  BY <1>4, <1>5, <1>6, <1>7, LocksCounted DEF ModalsAreSound

\* The invariant implies the types: no more dialogs are mounted than there are.
LEMMA ModalInvIsTyped ==
    ASSUME ModalAssumption, ModalInv
    PROVE  ModalTypeOK
<1> DEFINE s == modalStack
           N == Cardinality(Dialogs)
<1>1. /\ OnceEach(s) /\ s \in Seq(Dialogs) /\ Len(s) \in Nat /\ DOMAIN s = 1..Len(s)
      /\ Stacked = {s[j] : j \in 1..Len(s)} /\ Stacked = ToSet(s) /\ Stacked \subseteq Dialogs
  BY SetOfSequence, LenProperties DEF ModalInv, MountedIs, OnceEach, Stacked
<1>2. IsInjective(s)
  BY <1>1 DEF IsInjective, OnceEach
<1>3. N \in Nat /\ Len(s) <= N
  <2>1. IsFiniteSet(Dialogs) /\ 0 \in 0..Len(s)
    BY <1>1 DEF ModalAssumption
  <2>2. Cardinality({s[j] : j \in (0 + 1)..Len(s)}) = Len(s) - 0
    BY <1>1, <2>1, CountAbove
  <2>3. {s[j] : j \in (0 + 1)..Len(s)} = Stacked
    BY <1>1
  <2>4. Cardinality(Stacked) = Len(s)
    <3>1. Cardinality(Stacked) = Len(s) - 0
      BY ONLY <2>2, <2>3
    <3>2. Len(s) \in Nat
      BY <1>1
    <3>. QED
      BY ONLY <3>1, <3>2
  <2>5. Stacked \in SUBSET Dialogs
    BY <1>1
  <2>6. Cardinality(Stacked) <= N
    BY <2>1, <2>5, FS_Subset
  <2>7. N \in Nat
    BY <2>1, FS_CardinalityType
  <2>. QED
    BY ONLY <2>4, <2>6, <2>7
<1> HIDE DEF N
<1>4. backgroundLocks \in [Elements -> [count : 0..N, inert : BOOLEAN]]
  <2>1. LocksOf(s, backgroundLocks)
    BY DEF ModalInv, LayersAre
  <2>2. ASSUME NEW e \in Elements PROVE backgroundLocks[e] \in [count : 0..N, inert : BOOLEAN]
    <3>1. backgroundLocks[e] \in [count : Nat, inert : BOOLEAN]
      BY <2>1 DEF LocksOf
    <3>2. backgroundLocks[e].count \in 0..N
      <4>1. CASE e \in PageElements
        BY <1>1, <1>3, <2>1, <4>1 DEF LocksOf
      <4>2. CASE e \in Stacked
        <5>1. PICK i \in 1..Len(s) : e = s[i]
          BY <1>1, <4>2
        <5>2. backgroundLocks[e].count = Len(s) - i
          BY <2>1, <5>1 DEF LocksOf
        <5>. QED
          BY <1>1, <1>3, <5>2
      <4>3. CASE e \in Dialogs \ Stacked
        BY <1>1, <1>3, <2>1, <4>3 DEF LocksOf
      <4>. QED
        BY <4>1, <4>2, <4>3 DEF Elements
    <3>. QED
      BY <3>1, <3>2
  <2>. QED
    BY <2>1, <2>2 DEF LocksOf
<1>5. /\ open \subseteq Dialogs /\ exitTimer \subseteq Dialogs /\ focusTimer \subseteq Dialogs
      /\ background \in [Dialogs -> SUBSET Elements] /\ inert \subseteq Elements
  BY <1>1 DEF ModalInv, MountedIs, LayersAre, BackgroundOf, InertOf
<1>6. {overflow, originalOverflow} \subseteq {"scroll", "hidden"}
  BY DEF ModalInv, BodyIs
<1>7. owner \in Dialogs \cup {"body"}
  BY TopIsStacked DEF ModalInv, BodyIs, Top
<1>8. /\ {focus, originalFocus, pageFocus} \subseteq Focusable
      /\ previousFocus \in [Dialogs -> Focusable] /\ connected \subseteq Triggers
  BY <1>1 DEF ModalInv, FocusIs, Focusable
<1>. QED
  BY <1>1, <1>2, <1>4, <1>5, <1>6, <1>7, <1>8 DEF ModalTypeOK, N

(***************************************************************************)
(* The dialogs keep their types: each is on the stack once, and nothing is *)
(* locked more often than there are dialogs (modal.tsx).                   *)
(***************************************************************************)
THEOREM ModalTypesHold ==
    ASSUME ModalAssumption
    PROVE  ModalSpec => []ModalTypeOK
<1>1. ModalInv => ModalTypeOK
  BY ModalInvIsTyped
<1>. QED
  BY <1>1, ModalInvHolds, PTL

(***************************************************************************)
(* However many dialogs open, close and leave in whatever order: the one   *)
(* on top is all the user can reach, each lock stands for a dialog above,  *)
(* and the last to leave restores the page and its focus (modal.tsx).      *)
(***************************************************************************)
THEOREM ModalPageIsSound ==
    ASSUME ModalAssumption
    PROVE  ModalSpec => []ModalsAreSound
<1>1. ModalInv => ModalsAreSound
  BY ModalInvIsSound
<1>. QED
  BY <1>1, ModalInvHolds, PTL
=============================================================================
