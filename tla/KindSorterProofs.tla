-------------------------- MODULE KindSorterProofs --------------------------
(***************************************************************************)
(* Proofs about KindSorter, for all kinds, names and numbers of objects.   *)
(***************************************************************************)
EXTENDS KindSorter, TLAPS

\* All that the proofs need of the two orders: positions start at 1.
LEMMA OrderPositions ==
    ASSUME NEW ord \in {InstallOrder, UninstallOrder}, NEW k
    PROVE  /\ Ordering(ord, k) \in Nat
           /\ IsKnown(ord, k) /\ k # ord[1] => Ordering(ord, k) # 0
<1>1. \A n \in DOMAIN ord : n \in Nat \ {0}
  BY DEF InstallOrder, UninstallOrder
<1>2. CASE IsKnown(ord, k)
  <2> DEFINE p == CHOOSE n \in DOMAIN ord : ord[n] = k
  <2>1. p \in DOMAIN ord /\ ord[p] = k
    BY <1>2 DEF IsKnown
  <2>2. Ordering(ord, k) = p - 1
    BY <1>2 DEF Ordering
  <2> HIDE DEF p
  <2> QED
    BY <1>1, <2>1, <2>2
<1>3. CASE ~IsKnown(ord, k)
  BY <1>3 DEF Ordering
<1> QED
  BY <1>2, <1>3

\* Among tame objects the comparison of the code is the documented order.
LEMMA LessIsPrecedes ==
    ASSUME NEW ord \in {InstallOrder, UninstallOrder},
           NEW S \in SUBSET Object, IsTame(ord, S),
           NEW a \in S, NEW b \in S
    PROVE  Less(ord, a, b) <=> Precedes(ord, a, b)
<1>1. /\ Ordering(ord, a.kind) \in Nat /\ Ordering(ord, b.kind) \in Nat
      /\ IsKnown(ord, a.kind) /\ a.kind # ord[1] => Ordering(ord, a.kind) # 0
      /\ IsKnown(ord, b.kind) /\ b.kind # ord[1] => Ordering(ord, b.kind) # 0
  BY OrderPositions
<1>2. /\ a.kind \in Kinds /\ b.kind \in Kinds /\ a.name \in Nat /\ b.name \in Nat
      /\ KindRank[a.kind] \in Nat /\ KindRank[b.kind] \in Nat
      /\ KindRank[a.kind] = KindRank[b.kind] => a.kind = b.kind
  BY SorterAssumption DEF Object
<1>3. CASE IsKnown(ord, a.kind) /\ IsKnown(ord, b.kind)
  BY <1>1, <1>2, <1>3 DEF Less, Precedes, Group, Place
<1>4. CASE ~(IsKnown(ord, a.kind) /\ IsKnown(ord, b.kind))
  <2>1. a.kind # ord[1] /\ b.kind # ord[1]
    BY <1>4 DEF IsTame
  <2>2. ~IsKnown(ord, a.kind) => Ordering(ord, a.kind) = 0
    BY DEF Ordering
  <2>3. ~IsKnown(ord, b.kind) => Ordering(ord, b.kind) = 0
    BY DEF Ordering
  <2> QED
    BY <1>1, <1>2, <1>4, <2>1, <2>2, <2>3 DEF Less, Precedes, Group, Place
<1> QED
  BY <1>3, <1>4

\* The documented order is a strict weak order on objects, tame or not.
LEMMA PrecedesIsWeakOrder ==
    ASSUME NEW ord \in {InstallOrder, UninstallOrder},
           NEW a \in Object, NEW b \in Object, NEW c \in Object
    PROVE  /\ Precedes(ord, a, b) => ~Precedes(ord, b, a)
           /\ ~Precedes(ord, a, b) /\ ~Precedes(ord, b, c)
                => ~Precedes(ord, a, c)
<1> DEFINE IsKeyed(o) == Group(ord, o) \in Nat /\ Place(ord, o) \in Nat
                           /\ o.name \in Nat
<1>1. ASSUME NEW o \in Object PROVE IsKeyed(o)
  <2>1. Ordering(ord, o.kind) \in Nat
    BY OrderPositions
  <2> QED
    BY <2>1, SorterAssumption DEF Group, Place, Object
<1>2. IsKeyed(a) /\ IsKeyed(b) /\ IsKeyed(c)
  BY <1>1
<1> QED
  BY <1>2 DEF Precedes

-----------------------------------------------------------------------------

\* Swapping two objects of a slice keeps its length and brings in no object.
LEMMA SwapSlice ==
    ASSUME NEW s \in Seq(Object), NEW m \in DOMAIN s, NEW n \in DOMAIN s,
           NEW t, t = Swap(s, m, n)
    PROVE  /\ t \in Seq(Object)
           /\ DOMAIN t = DOMAIN s /\ Len(t) = Len(s)
           /\ \A x \in DOMAIN t : \E y \in DOMAIN s : t[x] = s[y]
<1>1. t \in Seq(Object) /\ DOMAIN t = DOMAIN s /\ Len(t) = Len(s)
  BY DEF Swap
<1>2. \A x \in DOMAIN s : t[x] = IF x = n THEN s[m]
                                 ELSE IF x = m THEN s[n] ELSE s[x]
  BY DEF Swap
<1>3. \A x \in DOMAIN t : \E y \in DOMAIN s : t[x] = s[y]
  BY <1>1, <1>2
<1> QED
  BY <1>1, <1>3

\* A sort starts with a slice of objects and with both indices at 2.
LEMMA TypeInit == SorterInit => SorterTypeOK
<1> SUFFICES ASSUME SorterInit PROVE SorterTypeOK
  OBVIOUS
<1>1. PICK n \in 0 .. MaxObjects : objects \in [1 .. n -> Object]
  BY DEF SorterInit, Slices
<1>2. objects \in Seq(Object)
  BY <1>1, SorterAssumption
<1> QED
  BY <1>2 DEF SorterInit, SorterTypeOK

\* Neither loop leaves the slice.
LEMMA TypeStep == SorterTypeOK /\ [SorterNext]_sorterVars => SorterTypeOK'
<1> SUFFICES ASSUME SorterTypeOK, [SorterNext]_sorterVars PROVE SorterTypeOK'
  OBVIOUS
<1>1. CASE MoveForward
  <2>1. j \in DOMAIN objects /\ j - 1 \in DOMAIN objects /\ j - 1 \in 1 .. i
    BY <1>1 DEF MoveForward, Running, SorterTypeOK
  <2>2. objects' \in Seq(Object)
    BY <1>1, <2>1, SwapSlice DEF MoveForward, SorterTypeOK
  <2> QED
    BY <1>1, <2>1, <2>2 DEF MoveForward, SorterTypeOK
<1>2. CASE NextElement
  BY <1>2 DEF NextElement, SorterTypeOK
<1>3. CASE UNCHANGED sorterVars
  BY <1>3 DEF sorterVars, SorterTypeOK
<1> QED
  BY <1>1, <1>2, <1>3 DEF SorterNext

\* The indices stay in the slice and the slice stays one of objects.
THEOREM TypeCorrect == SorterSpec => []SorterTypeOK
  BY TypeInit, TypeStep, PTL DEF SorterSpec

\* Before index i the objects are sorted, except that the one at j may still
\* have to move forward.
SortedBehind ==
    \A m, n \in DOMAIN objects :
      m < n /\ n <= i /\ n # j => ~Precedes(order, objects[n], objects[m])

SortIInv ==
    /\ ~Running => j = i
    /\ IsTame(order, Elements) => SortedBehind

\* The first object alone is sorted.
LEMMA SortInit == SorterInit => SortIInv
<1> SUFFICES ASSUME SorterInit PROVE SortIInv
  OBVIOUS
<1>1. objects \in Seq(Object) /\ i = 2 /\ j = 2
  BY TypeInit DEF SorterTypeOK, SorterInit
<1>2. SortedBehind
  BY <1>1 DEF SortedBehind
<1> QED
  BY <1>1, <1>2 DEF SortIInv

\* Each swap moves the one object that is out of place, and the inner loop is
\* only left when it is in place.
LEMMA SortStep == SorterTypeOK /\ SortIInv /\ [SorterNext]_sorterVars => SortIInv'
<1> SUFFICES ASSUME SorterTypeOK, SortIInv, [SorterNext]_sorterVars PROVE SortIInv'
  OBVIOUS
<1>0. /\ objects \in Seq(Object) /\ DOMAIN objects = 1 .. Len(objects)
      /\ Len(objects) \in Nat /\ i \in Nat /\ j \in 1 .. i
      /\ order \in {InstallOrder, UninstallOrder}
      /\ \A n \in DOMAIN objects : objects[n] \in Object
      /\ Elements \in SUBSET Object
  BY DEF SorterTypeOK, Elements
<1>1. CASE MoveForward
  <2>1. /\ j \in DOMAIN objects /\ j - 1 \in DOMAIN objects
        /\ i' = i /\ order' = order /\ j' = j - 1
        /\ objects' = Swap(objects, j, j - 1)
    BY <1>0, <1>1 DEF MoveForward, Running
  <2>2. /\ DOMAIN objects' = DOMAIN objects /\ Len(objects') = Len(objects)
        /\ Elements' = Elements
    <3>1. /\ DOMAIN objects' = DOMAIN objects
          /\ Len(objects') = Len(objects)
      BY <2>1, SwapSlice DEF SorterTypeOK
    <3>2. \A x \in DOMAIN objects : \E y \in DOMAIN objects' :
            objects[x] = objects'[y]
      <4>1. /\ objects'[j] = objects[j - 1] /\ objects'[j - 1] = objects[j]
            /\ \A x \in DOMAIN objects \ {j, j - 1} : objects'[x] = objects[x]
        BY <2>1 DEF Swap, SorterTypeOK
      <4> QED
        BY <2>1, <3>1, <4>1
    <3>3. \A x \in DOMAIN objects' : \E y \in DOMAIN objects :
            objects'[x] = objects[y]
      BY <2>1, SwapSlice DEF SorterTypeOK
    <3> QED
      BY <3>1, <3>2, <3>3 DEF Elements
  <2>3. Running'
    BY <1>1, <2>1, <2>2 DEF MoveForward, Running
  <2>4. ASSUME IsTame(order, Elements) PROVE SortedBehind'
    <3> SUFFICES ASSUME NEW m \in DOMAIN objects, NEW n \in DOMAIN objects,
                        m < n, n <= i, n # j - 1
                 PROVE  ~Precedes(order, objects'[n], objects'[m])
      BY <2>1, <2>2 DEF SortedBehind
    <3>1. \A x \in DOMAIN objects :
            objects'[x] = IF x = j THEN objects[j - 1]
                          ELSE IF x = j - 1 THEN objects[j] ELSE objects[x]
      BY <1>0, <2>1 DEF Swap
    <3>2. \A x, y \in DOMAIN objects :
            x < y /\ y <= i /\ y # j => ~Precedes(order, objects[y], objects[x])
      BY <2>4 DEF SortIInv, SortedBehind
    <3>3. CASE n = j /\ m = j - 1
      <4>1. objects[j] \in Elements /\ objects[j - 1] \in Elements
        BY <2>1 DEF Elements
      <4>2. Precedes(order, objects[j], objects[j - 1])
        BY <1>0, <1>1, <2>4, <4>1, LessIsPrecedes DEF MoveForward
      <4>3. ~Precedes(order, objects[j - 1], objects[j])
        BY <1>0, <2>1, <4>2, PrecedesIsWeakOrder
      <4> QED
        BY <2>1, <3>1, <3>3, <4>3, <1>0
    <3>4. CASE ~(n = j /\ m = j - 1)
      <4>1. \E x, y \in DOMAIN objects :
              /\ x < y /\ y <= i /\ y # j
              /\ objects'[m] = objects[x] /\ objects'[n] = objects[y]
        <5>1. CASE n = j
          <6>1. objects'[m] = objects[m] /\ objects'[n] = objects[j - 1]
            BY <1>0, <2>1, <3>1, <3>4, <5>1
          <6>2. m < j - 1 /\ j - 1 <= i /\ j - 1 # j
            BY <1>0, <2>1, <3>4, <5>1
          <6> QED
            BY <2>1, <6>1, <6>2
        <5>2. CASE n # j
          <6>1. objects'[n] = objects[n]
            BY <3>1, <5>2
          <6>2. CASE m = j
            BY <1>0, <2>1, <3>1, <5>2, <6>1, <6>2
          <6>3. CASE m = j - 1
            <7>1. objects'[m] = objects[j] /\ j < n
              BY <1>0, <2>1, <3>1, <5>2, <6>3
            <7> QED
              BY <2>1, <5>2, <6>1, <7>1
          <6>4. CASE m # j /\ m # j - 1
            BY <3>1, <5>2, <6>1, <6>4
          <6> QED
            BY <6>2, <6>3, <6>4
        <5> QED
          BY <5>1, <5>2
      <4> QED
        BY <3>2, <4>1
    <3> QED
      BY <3>3, <3>4
  <2> QED
    BY <2>1, <2>2, <2>3, <2>4 DEF SortIInv
<1>2. CASE NextElement
  <2>1. /\ i' = i + 1 /\ j' = i + 1 /\ objects' = objects /\ order' = order
        /\ Elements' = Elements /\ i <= Len(objects) /\ j \in DOMAIN objects
    BY <1>0, <1>2 DEF NextElement, Running, Elements
  <2>2. ASSUME IsTame(order, Elements) PROVE SortedBehind'
    <3> SUFFICES ASSUME NEW m \in DOMAIN objects, NEW n \in DOMAIN objects,
                        m < n, n <= i
                 PROVE  ~Precedes(order, objects[n], objects[m])
      BY <1>0, <2>1 DEF SortedBehind
    <3>1. \A x, y \in DOMAIN objects :
            x < y /\ y <= i /\ y # j => ~Precedes(order, objects[y], objects[x])
      BY <2>2 DEF SortIInv, SortedBehind
    <3>2. CASE n # j
      BY <3>1, <3>2
    <3>3. CASE n = j
      <4>1. j - 1 \in DOMAIN objects /\ j > 1
        BY <1>0, <2>1, <3>3
      <4>2. objects[j] \in Elements /\ objects[j - 1] \in Elements
        BY <2>1, <4>1 DEF Elements
      <4>3. ~Precedes(order, objects[j], objects[j - 1])
        BY <1>0, <1>2, <2>2, <4>1, <4>2, LessIsPrecedes DEF NextElement
      <4>4. CASE m = j - 1
        BY <3>3, <4>3, <4>4
      <4>5. CASE m # j - 1
        <5>1. m < j - 1 /\ j - 1 <= i /\ j - 1 # j
          BY <1>0, <2>1, <3>3, <4>5
        <5>2. ~Precedes(order, objects[j - 1], objects[m])
          BY <3>1, <4>1, <5>1
        <5> QED
          BY <1>0, <2>1, <3>3, <4>1, <4>3, <5>2, PrecedesIsWeakOrder
      <4> QED
        BY <4>4, <4>5
    <3> QED
      BY <3>2, <3>3
  <2> QED
    BY <2>1, <2>2 DEF SortIInv
<1>3. CASE UNCHANGED sorterVars
  BY <1>3 DEF sorterVars, SortIInv, SortedBehind, Running, Elements
<1> QED
  BY <1>1, <1>2, <1>3 DEF SorterNext

\* Addons without a missing kind, or without the first kind of the order, are
\* put in the documented order, from whatever order the map yields.
THEOREM SortCorrect == SorterSpec => []SortedWhenTame
<1>1. SorterTypeOK /\ SortIInv => SortedWhenTame
  <2> SUFFICES ASSUME SorterTypeOK, SortIInv, Sorted, IsTame(order, Elements),
                      NEW m \in DOMAIN objects, NEW n \in DOMAIN objects, m < n
               PROVE  ~Precedes(order, objects[n], objects[m])
    BY DEF SortedWhenTame
  <2>1. n < i /\ j = i
    BY DEF Sorted, Running, SortIInv, SorterTypeOK
  <2>2. SortedBehind
    BY DEF SortIInv
  <2> QED
    BY <2>1, <2>2 DEF SortedBehind, SorterTypeOK
<1> QED
  BY TypeCorrect, SortInit, SortStep, <1>1, PTL DEF SorterSpec
=============================================================================
