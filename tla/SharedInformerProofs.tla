------------------------ MODULE SharedInformerProofs ------------------------
(***************************************************************************)
(* What the informer promises its listers and handlers, whatever its watch *)
(* loses and whenever it lists, resyncs or reconnects; for any keys, any   *)
(* number of writes and breaks, also when a relist finds deltas that the   *)
(* loop has not read (Hasty).                                              *)
(*                                                                         *)
(* The deltas that wait for a key are a chain: versions the object had,    *)
(* oldest first, none older than the cache has nor newer than what the     *)
(* reflector has seen.  That makes the cache follow the log object by      *)
(* object, and the handlers the cache.                                     *)
(***************************************************************************)
EXTENDS SharedInformer, FunctionTheorems, FiniteSetTheorems, SequenceTheorems,
        WellFoundedInduction, TLAPS

-----------------------------------------------------------------------------
(* Versions.                                                               *)

VersionIn(l, k, r) == Feed!VersionIn(l, k, r)

\* The order of the natural numbers is a well-founded relation.
LEMMA NatOrder ==
    \E R : IsWellFoundedOn(R, Nat) /\ \A a, b \in Nat : <<a, b>> \in R <=> a < b
<1> DEFINE R == OpToRel(<, Nat)
<1>1. IsWellFoundedOn(R, Nat)
  BY NatLessThanWellFounded
<1>2. \A a, b \in Nat : <<a, b>> \in R <=> a < b
  BY DEF OpToRel
<1> HIDE DEF R
<1> QED BY <1>1, <1>2, Zenon

\* Of some of the first r numbers one is the last.
LEMMA LastExists ==
    ASSUME NEW r \in Nat, NEW S \in SUBSET (1..r), S # {}
    PROVE  \E i \in S : \A j \in S : j <= i
<1> DEFINE Rest == {r - i : i \in S}
<1>1. PICK R : IsWellFoundedOn(R, Nat) /\ \A a, b \in Nat : <<a, b>> \in R <=> a < b
  BY NatOrder
<1>2. Rest \subseteq Nat /\ Rest # {}
  <2>1. \A i \in S : r - i \in Nat
    OBVIOUS
  <2>2. PICK i \in S : TRUE
    OBVIOUS
  <2>3. r - i \in Rest
    OBVIOUS
  <2> QED BY <2>1, <2>3
<1>3. PICK m \in Rest : \A x \in Rest : ~(<<x, m>> \in R)
  <2>1. IsWellFoundedOn(R, Nat)
    BY <1>1
  <2> HIDE DEF Rest
  <2> QED BY <2>1, <1>2, WFMin
<1>4. PICK i \in S : m = r - i
  OBVIOUS
<1>5. ASSUME NEW j \in S PROVE j <= i
  <2>1. r - j \in Rest /\ r - j \in Nat /\ m \in Nat
    BY <1>2
  <2>2. ~(r - j < m)
    BY <2>1, <1>1, <1>3
  <2> QED BY <2>1, <2>2, <1>4
<1> QED BY <1>5

\* What the version of an object is: the number of the last write about it.
LEMMA VersionIs ==
    ASSUME NEW l, NEW k, NEW r \in Nat, NEW i \in 1..r,
           l[i].key = k, \A j \in 1..r : l[j].key = k => j <= i
    PROVE  VersionIn(l, k, r) = IF l[i].live THEN i ELSE 0
<1> DEFINE about == {j \in 1..r : l[j].key = k}
           last == CHOOSE j \in about : \A h \in about : h <= j
<1>1. i \in about /\ \A j \in about : j <= i
  OBVIOUS
<1>2. last \in about /\ \A j \in about : j <= last
  BY <1>1
<1>3. last = i
  BY <1>1, <1>2
<1> QED BY <1>1, <1>3 DEF VersionIn, Feed!VersionIn

\* An object nobody has written does not exist.
LEMMA VersionOfNone ==
    ASSUME NEW l, NEW k, NEW r \in Nat, \A j \in 1..r : l[j].key # k
    PROVE  VersionIn(l, k, r) = 0
BY DEF VersionIn, Feed!VersionIn

\* Either there is a last write about an object or none.
LEMMA LastAbout ==
    ASSUME NEW l, NEW k, NEW r \in Nat
    PROVE  \/ \A j \in 1..r : l[j].key # k
           \/ \E i \in 1..r : l[i].key = k /\ \A j \in 1..r : l[j].key = k => j <= i
<1> DEFINE about == {j \in 1..r : l[j].key = k}
<1>1. CASE about = {}
  BY <1>1
<1>2. CASE about # {}
  <2>1. about \in SUBSET (1..r)
    OBVIOUS
  <2>2. PICK i \in about : \A j \in about : j <= i
    <3> HIDE DEF about
    <3> QED BY <1>2, <2>1, LastExists
  <2> QED BY <2>2
<1> QED BY <1>1, <1>2

\* A version is the number of a write.
LEMMA VersionType ==
    ASSUME NEW l, NEW k, NEW r \in Nat
    PROVE  VersionIn(l, k, r) \in 0..r
<1>1. CASE \A j \in 1..r : l[j].key # k
  BY <1>1, VersionOfNone
<1>2. ASSUME NEW i \in 1..r, l[i].key = k, \A j \in 1..r : l[j].key = k => j <= i
      PROVE  VersionIn(l, k, r) \in 0..r
  BY <1>2, VersionIs
<1> QED BY <1>1, <1>2, LastAbout

\* Later writes do not change what an object was.
LEMMA VersionKept ==
    ASSUME NEW l, NEW m, NEW k, NEW r \in Nat, \A j \in 1..r : m[j] = l[j]
    PROVE  VersionIn(m, k, r) = VersionIn(l, k, r)
<1>1. CASE \A j \in 1..r : l[j].key # k
  BY <1>1, VersionOfNone
<1>2. ASSUME NEW i \in 1..r, l[i].key = k, \A j \in 1..r : l[j].key = k => j <= i
      PROVE  VersionIn(m, k, r) = VersionIn(l, k, r)
  <2>1. VersionIn(l, k, r) = IF l[i].live THEN i ELSE 0
    BY <1>2, VersionIs
  <2>2. m[i].key = k /\ \A j \in 1..r : m[j].key = k => j <= i
    BY <1>2
  <2>3. VersionIn(m, k, r) = IF m[i].live THEN i ELSE 0
    BY <2>2, VersionIs
  <2> QED BY <2>1, <2>3
<1> QED BY <1>1, <1>2, LastAbout

\* The next write is the version of the object that it is about.
LEMMA VersionNext ==
    ASSUME NEW l, NEW r \in Nat
    PROVE  VersionIn(l, l[r + 1].key, r + 1) = IF l[r + 1].live THEN r + 1 ELSE 0
BY VersionIs

-----------------------------------------------------------------------------
(* The deltas of a key.                                                    *)

\* p is what is on its way to the cache for object k, in order: versions that
\* k had, neither older than what the cache has of it (from) or the first list
\* (since) nor newer than what the reflector has seen (to); and a deletion only
\* follows a version, be it the one shown by the cache.
Chain(l, k, p, from, since, to, shown) ==
    /\ p \in Seq(Delta)
    /\ \A i \in 1..Len(p) : /\ from <= p[i].at /\ since <= p[i].at /\ p[i].at <= to
                            /\ p[i].ver = VersionIn(l, k, p[i].at)
                            /\ p[i].type = "Deleted" <=> p[i].ver = 0
    /\ \A i, j \in 1..Len(p) : i <= j => p[i].at <= p[j].at
    /\ \A i \in 1..Len(p) :
         p[i].type = "Deleted" => IF i = 1 THEN shown # 0 ELSE p[i - 1].type # "Deleted"

\* A delta that is not older than the others goes to the end.
LEMMA ChainAppend ==
    ASSUME NEW l, NEW k \in Keys, NEW p, NEW from \in Nat, NEW since \in Nat,
           NEW to \in Nat, NEW shown \in Nat,
           Chain(l, k, p, from, since, to, shown),
           NEW d \in Delta, NEW upper \in Nat, to <= upper,
           from <= d.at, since <= d.at, d.at <= upper,
           \A i \in 1..Len(p) : p[i].at <= d.at,
           d.ver = VersionIn(l, k, d.at), d.type = "Deleted" <=> d.ver = 0,
           d.type = "Deleted" => IF p = <<>> THEN shown # 0 ELSE p[Len(p)].type # "Deleted"
    PROVE  Chain(l, k, Append(p, d), from, since, upper, shown)
<1> DEFINE q == Append(p, d)
<1>1. p \in Seq(Delta) /\ q \in Seq(Delta) /\ Len(p) \in Nat /\ Len(q) = Len(p) + 1
  BY DEF Chain
<1>2. q[Len(p) + 1] = d /\ \A i \in 1..Len(p) : q[i] = p[i]
  BY <1>1
<1>3. d.at \in Nat /\ \A i \in 1..Len(p) : p[i].at \in Nat
  <2>1. \A i \in 1..Len(p) : p[i] \in Delta
    BY <1>1
  <2> QED BY <2>1 DEF Delta
<1>4. p = <<>> <=> Len(p) = 0
  BY <1>1
<1>5. \A i \in 1..Len(q) : i \in 1..Len(p) \/ i = Len(p) + 1
  BY <1>1
<1> HIDE DEF q
<1>6. \A i \in 1..Len(q) : /\ from <= q[i].at /\ since <= q[i].at /\ q[i].at <= upper
                           /\ q[i].ver = VersionIn(l, k, q[i].at)
                           /\ q[i].type = "Deleted" <=> q[i].ver = 0
  <2>1. ASSUME NEW i \in 1..Len(p)
        PROVE  /\ from <= p[i].at /\ since <= p[i].at /\ p[i].at <= upper
               /\ p[i].ver = VersionIn(l, k, p[i].at)
               /\ p[i].type = "Deleted" <=> p[i].ver = 0
    <3>1. p[i].at <= to
      BY DEF Chain
    <3>2. p[i].at <= upper
      BY <3>1, <1>3
    <3> QED BY <3>2 DEF Chain
  <2> QED BY <2>1, <1>2, <1>5
<1>7. ASSUME NEW i \in 1..Len(q), NEW j \in 1..Len(q), i <= j
      PROVE  q[i].at <= q[j].at
  <2>1. CASE j = Len(p) + 1
    BY <2>1, <1>2, <1>3, <1>5
  <2>2. CASE j \in 1..Len(p)
    <3>1. i \in 1..Len(p)
      BY <2>2, <1>1, <1>7
    <3> QED BY <2>2, <3>1, <1>2, <1>7 DEF Chain
  <2> QED BY <2>1, <2>2, <1>5
<1>8. ASSUME NEW i \in 1..Len(q), q[i].type = "Deleted"
      PROVE  IF i = 1 THEN shown # 0 ELSE q[i - 1].type # "Deleted"
  <2>1. CASE i \in 1..Len(p)
    <3>1. i # 1 => i - 1 \in 1..Len(p)
      BY <2>1, <1>1
    <3> QED BY <2>1, <3>1, <1>2, <1>8 DEF Chain
  <2>2. CASE i = Len(p) + 1
    <3>1. CASE p = <<>>
      BY <2>2, <3>1, <1>2, <1>4, <1>8
    <3>2. CASE p # <<>>
      <4>1. i # 1 /\ i - 1 = Len(p) /\ i - 1 \in 1..Len(p)
        BY <2>2, <3>2, <1>1, <1>4
      <4> QED BY <4>1, <2>2, <3>2, <1>2, <1>8
    <3> QED BY <3>1, <3>2
  <2> QED BY <2>1, <2>2, <1>5
<1> QED BY <1>1, <1>6, <1>7, <1>8 DEF Chain, q

\* Once the first delta is applied the others follow it.
LEMMA ChainTail ==
    ASSUME NEW l, NEW k \in Keys, NEW p, NEW from \in Nat, NEW since \in Nat,
           NEW to \in Nat, NEW shown \in Nat,
           Chain(l, k, p, from, since, to, shown), p # <<>>
    PROVE  Chain(l, k, Tail(p), Head(p).at, since, to, Head(p).ver)
<1> DEFINE q == Tail(p)
<1>1. p \in Seq(Delta) /\ q \in Seq(Delta) /\ Len(p) \in Nat /\ Len(q) = Len(p) - 1
      /\ Head(p) = p[1] /\ 1 \in 1..Len(p)
  BY DEF Chain
<1>2. \A i \in 1..Len(q) : i \in Int /\ i + 1 \in 1..Len(p) /\ q[i] = p[i + 1]
  BY <1>1
<1> HIDE DEF q
<1>6. \A i \in 1..Len(q) : /\ p[1].at <= q[i].at /\ since <= q[i].at /\ q[i].at <= to
                           /\ q[i].ver = VersionIn(l, k, q[i].at)
                           /\ q[i].type = "Deleted" <=> q[i].ver = 0
  <2>1. ASSUME NEW i \in 1..Len(p)
        PROVE  /\ p[1].at <= p[i].at /\ since <= p[i].at /\ p[i].at <= to
               /\ p[i].ver = VersionIn(l, k, p[i].at)
               /\ p[i].type = "Deleted" <=> p[i].ver = 0
    <3>1. 1 <= i
      OBVIOUS
    <3> QED BY <3>1, <1>1 DEF Chain
  <2> QED BY <2>1, <1>2
<1>7. ASSUME NEW i \in 1..Len(q), NEW j \in 1..Len(q), i <= j
      PROVE  q[i].at <= q[j].at
  <2>1. i + 1 <= j + 1
    BY <1>2, <1>7
  <2>2. p[i + 1].at <= p[j + 1].at
    BY <2>1, <1>2 DEF Chain
  <2> QED BY <2>2, <1>2
<1>8. ASSUME NEW i \in 1..Len(q), q[i].type = "Deleted"
      PROVE  IF i = 1 THEN p[1].ver # 0 ELSE q[i - 1].type # "Deleted"
  <2>1. p[i + 1].type = "Deleted" /\ i + 1 \in 1..Len(p) /\ i + 1 # 1 /\ (i + 1) - 1 = i
    BY <1>2, <1>8
  <2>2. p[i].type # "Deleted"
    BY <2>1 DEF Chain
  <2>3. CASE i = 1
    BY <2>2, <2>3, <1>1 DEF Chain
  <2>4. CASE i # 1
    <3>1. i - 1 \in 1..Len(q) /\ (i - 1) + 1 = i
      BY <2>4, <1>1
    <3> QED BY <3>1, <2>2, <2>4, <1>2
  <2> QED BY <2>3, <2>4
<1> QED BY <1>1, <1>6, <1>7, <1>8 DEF Chain, q

\* Nothing waits for an object.
LEMMA ChainEmpty ==
    ASSUME NEW l, NEW k, NEW from, NEW since, NEW to, NEW shown
    PROVE  Chain(l, k, <<>>, from, since, to, shown)
BY DEF Chain

\* Neither a later write nor what else the reflector sees disturbs what waits.
LEMMA ChainKept ==
    ASSUME NEW l, NEW m, NEW k \in Keys, NEW p, NEW from \in Nat, NEW since \in Nat,
           NEW to \in Nat, NEW shown \in Nat, NEW upper \in Nat, to <= upper,
           Chain(l, k, p, from, since, to, shown), \A j \in 1..to : m[j] = l[j]
    PROVE  Chain(m, k, p, from, since, upper, shown)
<1>1. ASSUME NEW i \in 1..Len(p)
      PROVE  p[i].at \in Nat /\ p[i].at <= to /\ p[i].at <= upper
  <2>1. p[i] \in Delta
    BY DEF Chain
  <2>2. p[i].at \in Nat
    BY <2>1 DEF Delta
  <2>3. p[i].at <= to
    BY DEF Chain
  <2> QED BY <2>2, <2>3
<1>2. ASSUME NEW i \in 1..Len(p)
      PROVE  VersionIn(m, k, p[i].at) = VersionIn(l, k, p[i].at)
  <2>1. \A j \in 1..(p[i].at) : m[j] = l[j]
    BY <1>1
  <2> QED BY <1>1, <2>1, VersionKept
<1>3. ASSUME NEW i \in 1..Len(p)
      PROVE  /\ from <= p[i].at /\ since <= p[i].at /\ p[i].at <= upper
             /\ p[i].ver = VersionIn(m, k, p[i].at)
             /\ p[i].type = "Deleted" <=> p[i].ver = 0
  BY <1>1, <1>2 DEF Chain
<1> QED BY <1>3 DEF Chain

-----------------------------------------------------------------------------
(* The inductive invariant.                                                *)

\* What waits for an object: what the loop has in hand or what is queued.
Pending(k) == IF hand.key = k /\ hand.deltas # <<>> THEN hand.deltas ELSE items[k]

\* The reflector goes forward, and nothing has happened before its first list.
ReflectorState ==
    /\ stage = "replace" => rv <= listed
    /\ firstList <= rv
    /\ ~populated =>
         /\ stage # "watch" /\ rv = 0 /\ queue = <<>> /\ LockFree
         /\ \A k \in Keys : items[k] = <<>> /\ cache[k] = 0

\* While the loop applies the deltas of a key no more of it are queued.
HandState == ~LockFree => items[hand.key] = <<>>

\* The cache shows an object as it was.
Shown(k) ==
    /\ cache[k] = VersionIn(log, k, upTo[k]) /\ upTo[k] <= rv
    /\ cache[k] # 0 => firstList <= upTo[k]

\* What was in the first list is in the cache, or was; or the loop has it in
\* hand; or it is one of the keys that are still counted.
Counted ==
    populated =>
      \A k \in Keys : VersionIn(log, k, firstList) # 0 =>
        \/ firstList <= upTo[k]
        \/ ~LockFree /\ hand.key = k
        \/ \E i \in 1..Len(queue) : i <= initialCount /\ queue[i] = k

InformerIInv ==
    /\ TypeOK
    /\ ReflectorState /\ HandState /\ FifoConsistent /\ Counted
    /\ \A k \in Keys : Shown(k) /\ Chain(log, k, Pending(k), upTo[k], firstList, rv, cache[k])
    /\ \A i \in 1..Len(notes) : notes[i].ver <= rv

\* Nothing has happened.
LEMMA InformerInit == Init => InformerIInv
<1> SUFFICES ASSUME Init PROVE InformerIInv
  OBVIOUS
<1>1. TypeOK
  <2>1. hand \in [key : Keys, deltas : Seq(Delta)]
    BY DEF Init
  <2>2. Len(log) = 0 /\ 0 \in 0..Len(log) /\ 0 \in 0..MaxBreaks
    BY InformerAssumption DEF Init
  <2>3. log \in Seq([key : Keys, live : BOOLEAN]) /\ queue \in Seq(Keys) /\ notes \in Seq(Note)
    BY DEF Init
  <2>4. items \in [Keys -> Seq(Delta)]
    BY DEF Init
  <2>5. cache \in [Keys -> 0..Len(log)] /\ upTo \in [Keys -> 0..Len(log)]
        /\ seen \in [Keys -> 0..Len(log)]
    BY <2>2 DEF Init
  <2>6. stage = "list" /\ rv = 0 /\ listed = 0 /\ firstList = 0 /\ breaks = 0
        /\ populated = FALSE /\ initialCount = 0
    BY DEF Init
  <2> QED BY <2>1, <2>2, <2>3, <2>4, <2>5, <2>6 DEF TypeOK
<1>2. ReflectorState /\ HandState /\ FifoConsistent /\ Counted
  BY <1>1 DEF Init, ReflectorState, HandState, FifoConsistent, Counted, LockFree
<1>3. ASSUME NEW k \in Keys
      PROVE  Shown(k) /\ Chain(log, k, Pending(k), upTo[k], firstList, rv, cache[k])
  <2>1. Pending(k) = <<>> /\ upTo[k] = 0 /\ cache[k] = 0
    BY DEF Init, Pending
  <2>2. VersionIn(log, k, 0) = 0
    BY VersionType
  <2> QED BY <2>1, <2>2, ChainEmpty DEF Init, Shown
<1> QED BY <1>1, <1>2, <1>3 DEF InformerIInv, Init

\* A write only adds to the log.
LEMMA WriteKeeps ==
    ASSUME InformerIInv, NEW key \in Keys, Write(key)
    PROVE  InformerIInv'
<1>1. PICK live \in BOOLEAN : log' = Append(log, [key |-> key, live |-> live])
  BY DEF Write, Feed!Write
<1>2. UNCHANGED <<reflectorVars, fifoVars, hand, indexVars, firstList, handlerVars>>
  BY DEF Write, Feed!Write, indexVars
<1>3. /\ log' \in Seq([key : Keys, live : BOOLEAN]) /\ Len(log') = Len(log) + 1
      /\ Len(log) \in Nat /\ \A j \in 1..Len(log) : log'[j] = log[j]
  BY <1>1 DEF InformerIInv, TypeOK
<1>4. TypeOK'
  <2>1. \A x \in 0..Len(log) : x \in 0..Len(log')
    BY <1>3
  <2>2. cache \in [Keys -> 0..Len(log')] /\ upTo \in [Keys -> 0..Len(log')]
        /\ seen \in [Keys -> 0..Len(log')]
    BY <2>1 DEF InformerIInv, TypeOK
  <2> QED BY <1>2, <1>3, <2>1, <2>2 DEF InformerIInv, TypeOK, reflectorVars, fifoVars,
             indexVars, handlerVars
<1>5. rv \in Nat /\ firstList \in Nat /\ rv <= Len(log) /\ firstList <= rv
  BY DEF InformerIInv, TypeOK, ReflectorState
<1>6. ReflectorState' /\ HandState' /\ FifoConsistent'
  BY <1>2 DEF InformerIInv, ReflectorState, HandState, FifoConsistent, LockFree,
     reflectorVars, fifoVars, indexVars
<1>7. ASSUME NEW k \in Keys, NEW r \in Nat, r <= rv
      PROVE  VersionIn(log', k, r) = VersionIn(log, k, r)
  <2>1. \A j \in 1..r : log'[j] = log[j]
    BY <1>3, <1>5, <1>7
  <2> QED BY <2>1, VersionKept
<1>8. Counted'
  <2>1. \A k \in Keys : VersionIn(log', k, firstList) = VersionIn(log, k, firstList)
    BY <1>5, <1>7
  <2> QED BY <2>1, <1>2 DEF InformerIInv, Counted, LockFree, fifoVars, indexVars
<1>9. ASSUME NEW k \in Keys
      PROVE  (Shown(k) /\ Chain(log, k, Pending(k), upTo[k], firstList, rv, cache[k]))'
  <2>1. Pending(k)' = Pending(k)
    BY <1>2 DEF Pending, fifoVars
  <2>2. upTo[k] \in Nat /\ cache[k] \in Nat /\ upTo[k] <= rv
    BY DEF InformerIInv, TypeOK, Shown
  <2>3. Shown(k)'
    BY <2>2, <1>2, <1>7 DEF InformerIInv, Shown, indexVars, reflectorVars
  <2>4. \A j \in 1..rv : log'[j] = log[j]
    BY <1>3, <1>5
  <2>5. Chain(log', k, Pending(k), upTo[k], firstList, rv, cache[k])
    BY <2>2, <2>4, <1>5, ChainKept DEF InformerIInv
  <2> QED BY <2>1, <2>3, <2>5, <1>2 DEF indexVars, reflectorVars
<1>10. (\A i \in 1..Len(notes) : notes[i].ver <= rv)'
  BY <1>2 DEF InformerIInv, handlerVars, reflectorVars
<1> QED BY <1>4, <1>6, <1>8, <1>9, <1>10 DEF InformerIInv

\* As long as the FIFO, the loop, the indexer and what the reflector has seen
\* stay, so does what is known of them.
LEMMA StillKeeps ==
    ASSUME InformerIInv, TypeOK', ReflectorState',
           UNCHANGED <<log, rv, fifoVars, hand, indexVars, firstList>>,
           \A i \in 1..Len(notes') : notes'[i].ver <= rv
    PROVE  InformerIInv'
<1>1. HandState' /\ FifoConsistent' /\ Counted'
  BY DEF InformerIInv, HandState, FifoConsistent, Counted, LockFree, fifoVars, indexVars
<1>2. ASSUME NEW k \in Keys
      PROVE  (Shown(k) /\ Chain(log, k, Pending(k), upTo[k], firstList, rv, cache[k]))'
  <2>1. Pending(k)' = Pending(k)
    BY DEF Pending, fifoVars
  <2> QED BY <2>1 DEF InformerIInv, Shown, indexVars
<1> QED BY <1>1, <1>2 DEF InformerIInv

\* The reflector lists, or its watch breaks.
LEMMA ListKeeps ==
    ASSUME InformerIInv, List \/ Break
    PROVE  InformerIInv'
<1>1. UNCHANGED <<log, rv, fifoVars, hand, indexVars, firstList, handlerVars>>
  BY DEF List, Break
<1>2. TypeOK'
  <2>1. /\ stage' \in {"list", "replace", "watch"}
        /\ listed' \in 0..Len(log) /\ breaks' \in 0..MaxBreaks
    <3>1. rv \in Nat /\ Len(log) \in Nat /\ listed \in 0..Len(log) /\ breaks \in 0..MaxBreaks
      BY DEF InformerIInv, TypeOK
    <3>2. CASE List
      BY <3>1, <3>2 DEF List
    <3>3. CASE Break
      BY <3>1, <3>3, InformerAssumption DEF Break
    <3> QED BY <3>2, <3>3
  <2> QED BY <1>1, <2>1 DEF InformerIInv, TypeOK, fifoVars, indexVars, handlerVars
<1>3. ReflectorState'
  BY <1>1 DEF List, Break, InformerIInv, TypeOK, ReflectorState, LockFree, fifoVars, indexVars
<1> QED BY <1>1, <1>2, <1>3, StillKeeps DEF InformerIInv, handlerVars

\* A handler is called.
LEMMA CallKeeps ==
    ASSUME InformerIInv, CallHandler
    PROVE  InformerIInv'
<1>1. UNCHANGED <<log, reflectorVars, fifoVars, hand, indexVars, firstList>>
  BY DEF CallHandler
<1>2. /\ notes' \in Seq(Note) /\ Len(notes) \in Nat /\ Len(notes') = Len(notes) - 1
      /\ Head(notes) = notes[1] /\ notes[1] \in Note /\ 1 \in 1..Len(notes)
      /\ \A i \in 1..Len(notes') : i + 1 \in 1..Len(notes) /\ notes'[i] = notes[i + 1]
  BY DEF CallHandler, InformerIInv, TypeOK
<1>3. notes[1].key \in Keys /\ notes[1].ver \in 0..Len(log)
  <2>1. notes[1].ver \in Nat
    BY <1>2 DEF Note
  <2>2. rv \in 0..Len(log) /\ Len(log) \in Nat
    BY DEF InformerIInv, TypeOK
  <2>3. \A i \in 1..Len(notes) : notes[i].ver <= rv
    BY DEF InformerIInv
  <2>4. notes[1].ver <= rv
    BY <1>2, <2>3
  <2> QED BY <2>1, <2>2, <2>4, <1>2 DEF Note
<1>4. TypeOK'
  <2>1. seen' \in [Keys -> 0..Len(log)]
    BY <1>2, <1>3 DEF CallHandler, InformerIInv, TypeOK
  <2> QED BY <1>1, <1>2, <2>1 DEF InformerIInv, TypeOK, reflectorVars, fifoVars, indexVars
<1>5. ReflectorState'
  BY <1>1 DEF InformerIInv, ReflectorState, LockFree, reflectorVars, fifoVars, indexVars
<1>6. \A i \in 1..Len(notes') : notes'[i].ver <= rv
  BY <1>2 DEF InformerIInv
<1> QED BY <1>1, <1>4, <1>5, <1>6, StillKeeps DEF reflectorVars

-----------------------------------------------------------------------------
(* The FIFO gets more.                                                     *)

\* The keys that had no deltas go to the end of the queue, each once.
LEMMA PutAllQueues ==
    ASSUME InformerIInv, NEW new \in [Keys -> Seq(Delta)], PutAll(new),
           \A k \in Keys : items[k] # <<>> => new[k] # <<>>
    PROVE  /\ queue' \in Seq(Keys) /\ FifoConsistent'
           /\ Len(queue) <= Len(queue') /\ \A i \in 1..Len(queue) : queue'[i] = queue[i]
           /\ queue = <<>> =>
                Len(queue') = Cardinality({k \in Keys : items[k] = <<>> /\ new[k] # <<>>})
<1> DEFINE S == {k \in Keys : items[k] = <<>> /\ new[k] # <<>>}
           n == Cardinality(S)
<1>1. PICK arrival \in Orders(S) : queue' = queue \o arrival
  BY DEF PutAll
<1>2. n \in Nat
  <2>1. IsFiniteSet(S)
    BY InformerAssumption, FS_Subset
  <2> HIDE DEF S
  <2> QED BY <2>1, FS_CardinalityType
<1> HIDE DEF n
<1>3. /\ arrival \in [1..n -> S] /\ \A a, b \in 1..n : arrival[a] = arrival[b] => a = b
      /\ \A k \in S : \E a \in 1..n : arrival[a] = k
  BY <1>1 DEF Orders, Bijection, Injection, Surjection, IsInjective, n
<1>4. arrival \in Seq(Keys) /\ Len(arrival) = n
  BY <1>2, <1>3
<1>5. queue \in Seq(Keys) /\ Len(queue) \in Nat
  BY DEF InformerIInv, TypeOK
<1>6. /\ queue' \in Seq(Keys) /\ Len(queue') = Len(queue) + n
      /\ \A i \in 1..Len(queue) : queue'[i] = queue[i]
      /\ \A i \in 1..n : queue'[Len(queue) + i] = arrival[i]
  <2>1. /\ queue' \in Seq(Keys) /\ Len(queue') = Len(queue) + Len(arrival)
        /\ \A i \in 1..(Len(queue) + Len(arrival)) :
             queue'[i] = IF i <= Len(queue) THEN queue[i] ELSE arrival[i - Len(queue)]
    BY <1>1, <1>4, <1>5, ConcatProperties
  <2>2. ASSUME NEW i \in 1..n PROVE queue'[Len(queue) + i] = arrival[i]
    <3>1. Len(queue) + i \in 1..(Len(queue) + Len(arrival)) /\ ~(Len(queue) + i <= Len(queue))
          /\ (Len(queue) + i) - Len(queue) = i
      BY <1>2, <1>4, <1>5
    <3> QED BY <2>1, <3>1
  <2>3. ASSUME NEW i \in 1..Len(queue) PROVE queue'[i] = queue[i]
    <3>1. i \in 1..(Len(queue) + Len(arrival)) /\ i <= Len(queue)
      BY <1>2, <1>4, <1>5
    <3> QED BY <2>1, <3>1
  <2> QED BY <2>1, <2>2, <2>3, <1>4
<1>7. \A i \in 1..Len(queue') :
         i \in 1..Len(queue) \/ \E a \in 1..n : i = Len(queue) + a
  <2> TAKE i \in 1..Len(queue')
  <2>1. CASE i > Len(queue)
    <3>1. i - Len(queue) \in 1..n /\ i = Len(queue) + (i - Len(queue))
      BY <2>1, <1>2, <1>5, <1>6
    <3> QED BY <3>1
  <2> QED BY <2>1, <1>5, <1>6
<1>8. items' = new
  BY DEF PutAll
<1>9. ASSUME NEW i \in 1..Len(queue), NEW a \in 1..n PROVE queue[i] # arrival[a]
  <2>1. queue[i] \in Keys /\ items[queue[i]] # <<>>
    BY <1>5 DEF InformerIInv, FifoConsistent
  <2> QED BY <2>1, <1>3
<1>10. ASSUME NEW i \in 1..Len(queue'), NEW j \in 1..Len(queue'), queue'[i] = queue'[j]
       PROVE  i = j
  <2>1. CASE i \in 1..Len(queue) /\ j \in 1..Len(queue)
    BY <2>1, <1>6, <1>10 DEF InformerIInv, FifoConsistent
  <2>2. ASSUME NEW a \in 1..n, i = Len(queue) + a, j \in 1..Len(queue) PROVE FALSE
    BY <2>2, <1>6, <1>9, <1>10
  <2>3. ASSUME NEW a \in 1..n, j = Len(queue) + a, i \in 1..Len(queue) PROVE FALSE
    BY <2>3, <1>6, <1>9, <1>10
  <2>4. ASSUME NEW a \in 1..n, i = Len(queue) + a, NEW b \in 1..n, j = Len(queue) + b
        PROVE  i = j
    BY <2>4, <1>3, <1>6, <1>10
  <2> QED BY <2>1, <2>2, <2>3, <2>4, <1>7
<1>11. ASSUME NEW k \in Keys
       PROVE  new[k] # <<>> <=> \E i \in 1..Len(queue') : queue'[i] = k
  <2>1. ASSUME items[k] # <<>> PROVE \E i \in 1..Len(queue') : queue'[i] = k
    <3>1. PICK i \in 1..Len(queue) : queue[i] = k
      BY <2>1 DEF InformerIInv, FifoConsistent
    <3>2. i \in 1..Len(queue')
      BY <1>2, <1>5, <1>6
    <3> QED BY <3>1, <3>2, <1>6
  <2>2. ASSUME k \in S PROVE \E i \in 1..Len(queue') : queue'[i] = k
    <3>1. PICK a \in 1..n : arrival[a] = k
      BY <2>2, <1>3
    <3>2. Len(queue) + a \in 1..Len(queue')
      BY <1>2, <1>5, <1>6
    <3> QED BY <3>1, <3>2, <1>6
  <2>3. ASSUME NEW i \in 1..Len(queue), queue'[i] = k PROVE new[k] # <<>>
    <3>1. queue[i] = k
      BY <2>3, <1>6
    <3>2. items[k] # <<>>
      BY <3>1 DEF InformerIInv, FifoConsistent
    <3> QED BY <3>2
  <2>4. ASSUME NEW a \in 1..n, queue'[Len(queue) + a] = k PROVE new[k] # <<>>
    <3>1. arrival[a] = k
      BY <2>4, <1>6
    <3>2. k \in S
      BY <3>1, <1>3
    <3> QED BY <3>2
  <2> QED BY <2>1, <2>2, <2>3, <2>4, <1>7
<1>12. FifoConsistent'
  BY <1>8, <1>10, <1>11 DEF FifoConsistent
<1>13. queue = <<>> => Len(queue') = n
  BY <1>2, <1>6
<1> QED BY <1>2, <1>5, <1>6, <1>12, <1>13 DEF n

\* What is put into the FIFO is in order if the deltas of each key are.
LEMMA PutAllKeeps ==
    ASSUME InformerIInv, LockFree, NEW new \in [Keys -> Seq(Delta)], items' = new,
           queue' \in Seq(Keys), FifoConsistent',
           UNCHANGED <<log, hand, indexVars, handlerVars>>,
           stage' \in {"list", "replace", "watch"}, rv' \in 0..Len(log), rv <= rv',
           listed' \in 0..Len(log), breaks' \in 0..MaxBreaks, populated' \in BOOLEAN,
           initialCount' \in Nat, firstList' \in 0..Len(log),
           ReflectorState', Counted',
           \A k \in Keys : /\ cache[k] # 0 => firstList' <= upTo[k]
                           /\ Chain(log, k, new[k], upTo[k], firstList', rv', cache[k])
    PROVE  InformerIInv'
<1>2. TypeOK'
  BY DEF InformerIInv, TypeOK, indexVars, handlerVars
<1>3. HandState'
  BY DEF LockFree, HandState
<1>4. rv \in Nat /\ rv' \in Nat
  BY DEF InformerIInv, TypeOK
<1>5. ASSUME NEW k \in Keys
      PROVE  (Shown(k) /\ Chain(log, k, Pending(k), upTo[k], firstList, rv, cache[k]))'
  <2>1. Pending(k)' = new[k]
    BY DEF Pending, LockFree
  <2>2. upTo[k] \in Nat /\ upTo[k] <= rv
    BY DEF InformerIInv, TypeOK, Shown
  <2>3. upTo[k] <= rv'
    BY <2>2, <1>4
  <2> QED BY <2>1, <2>3 DEF InformerIInv, Shown, indexVars
<1>6. ASSUME NEW i \in 1..Len(notes') PROVE notes'[i].ver <= rv'
  <2>0. notes' = notes /\ i \in 1..Len(notes)
    BY DEF handlerVars
  <2>1. notes[i] \in Note /\ notes[i].ver <= rv
    <3>1. notes \in Seq(Note) /\ \A h \in 1..Len(notes) : notes[h].ver <= rv
      BY DEF InformerIInv, TypeOK
    <3> QED BY <2>0, <3>1
  <2>2. notes[i].ver \in Nat
    BY <2>1 DEF Note
  <2> QED BY <2>0, <2>1, <2>2, <1>4
<1> QED BY <1>2, <1>3, <1>5, <1>6 DEF InformerIInv

\* A delta is queued behind the others, unless it is of no use.
LEMMA ChainQueued ==
    ASSUME NEW l, NEW k \in Keys, NEW p, NEW from \in Nat, NEW since \in Nat,
           NEW to \in Nat, NEW shown \in Nat,
           Chain(l, k, p, from, since, to, shown),
           NEW d \in Delta, NEW upper \in Nat, to <= d.at, d.at <= upper,
           from <= d.at, since <= d.at,
           d.ver = VersionIn(l, k, d.at), d.type = "Deleted" <=> d.ver = 0,
           p = <<>> /\ d.type = "Deleted" => shown # 0
    PROVE  /\ Queued(p, d) \in Seq(Delta) /\ Queued(p, d) # <<>>
           /\ Chain(l, k, Queued(p, d), from, since, upper, shown)
<1>1. p \in Seq(Delta) /\ d.at \in Nat /\ to <= upper
  BY DEF Chain, Delta
<1>2. CASE p # <<>> /\ Last(p).type = "Deleted" /\ d.type \in {"Sync", "Deleted"}
  <2>1. Queued(p, d) = p
    BY <1>2 DEF Queued
  <2>2. Chain(l, k, p, from, since, upper, shown)
    BY <1>1, ChainKept
  <2> QED BY <1>1, <1>2, <2>1, <2>2
<1>3. CASE ~(p # <<>> /\ Last(p).type = "Deleted" /\ d.type \in {"Sync", "Deleted"})
  <2>1. Queued(p, d) = Append(p, d)
    BY <1>3 DEF Queued
  <2>2. ASSUME NEW i \in 1..Len(p) PROVE p[i].at <= d.at
    <3>1. p[i] \in Delta /\ p[i].at <= to
      BY <1>1 DEF Chain
    <3>2. p[i].at \in Nat
      BY <3>1 DEF Delta
    <3> QED BY <3>1, <3>2, <1>1
  <2>3. d.type = "Deleted" => IF p = <<>> THEN shown # 0 ELSE p[Len(p)].type # "Deleted"
    BY <1>3 DEF Last
  <2>4. Chain(l, k, Append(p, d), from, since, upper, shown)
    BY <1>1, <2>2, <2>3, ChainAppend
  <2>5. Append(p, d) \in Seq(Delta) /\ Append(p, d) # <<>>
    BY <1>1
  <2> QED BY <2>1, <2>4, <2>5
<1> QED BY <1>2, <1>3

\* What is known of the variables, for each object.
LEMMA Known ==
    ASSUME InformerIInv
    PROVE  /\ rv \in Nat /\ firstList \in Nat /\ Len(log) \in Nat /\ rv <= Len(log)
           /\ firstList <= rv /\ listed \in 0..Len(log) /\ initialCount \in Nat
           /\ \A k \in Keys : /\ upTo[k] \in Nat /\ cache[k] \in Nat /\ upTo[k] <= rv
                              /\ items[k] \in Seq(Delta) /\ Shown(k)
                              /\ Chain(log, k, Pending(k), upTo[k], firstList, rv, cache[k])
                              /\ LockFree => Pending(k) = items[k]
<1>1. TypeOK /\ ReflectorState
  BY DEF InformerIInv
<1>2. ASSUME NEW k \in Keys
      PROVE  /\ upTo[k] \in Nat /\ cache[k] \in Nat /\ upTo[k] <= rv
             /\ items[k] \in Seq(Delta) /\ Shown(k)
             /\ Chain(log, k, Pending(k), upTo[k], firstList, rv, cache[k])
             /\ LockFree => Pending(k) = items[k]
  BY <1>1 DEF InformerIInv, TypeOK, Shown, Pending, LockFree
<1> QED BY <1>1, <1>2 DEF TypeOK, ReflectorState

\* What was counted is still counted when more is queued.
LEMMA CountedKept ==
    ASSUME InformerIInv, populated, populated',
           UNCHANGED <<log, hand, indexVars, firstList, initialCount>>,
           Len(queue) \in Nat, Len(queue') \in Nat,
           Len(queue) <= Len(queue'), \A i \in 1..Len(queue) : queue'[i] = queue[i]
    PROVE  Counted'
<1>1. \A i \in 1..Len(queue) : i \in 1..Len(queue')
  OBVIOUS
<1> QED BY <1>1 DEF InformerIInv, Counted, LockFree, indexVars

\* A resync puts in again what the cache has and nothing waits for.
LEMMA ResyncKeeps ==
    ASSUME InformerIInv, Resync
    PROVE  InformerIInv'
<1> DEFINE new == [k \in Keys |->
                     IF cache[k] # 0 /\ items[k] = <<>>
                       THEN <<[type |-> "Sync", ver |-> cache[k], at |-> upTo[k]]>>
                     ELSE items[k]]
<1>1. /\ LockFree /\ populated /\ PutAll(new)
      /\ UNCHANGED <<log, reflectorVars, populated, initialCount, hand, indexVars,
                     firstList, handlerVars>>
  BY DEF Resync
<1>2. ASSUME NEW k \in Keys
      PROVE  /\ new[k] \in Seq(Delta) /\ (items[k] # <<>> => new[k] # <<>>)
             /\ Chain(log, k, new[k], upTo[k], firstList, rv, cache[k])
  <2>1. CASE cache[k] # 0 /\ items[k] = <<>>
    <3> DEFINE d == [type |-> "Sync", ver |-> cache[k], at |-> upTo[k]]
    <3>1. d \in Delta /\ new[k] = Append(<<>>, d)
      BY <2>1, Known DEF Delta, DeltaTypes
    <3>2. /\ d.at = upTo[k] /\ d.ver = VersionIn(log, k, d.at)
          /\ d.type # "Deleted" /\ d.ver # 0 /\ firstList <= d.at
      BY <2>1, Known DEF Shown
    <3> HIDE DEF d
    <3>3. Chain(log, k, Append(<<>>, d), upTo[k], firstList, rv, cache[k])
      <4>1. Chain(log, k, <<>>, upTo[k], firstList, rv, cache[k])
        BY ChainEmpty
      <4>2. \A i \in 1..Len(<<>>) : <<>>[i].at <= d.at
        OBVIOUS
      <4>3. /\ upTo[k] \in Nat /\ cache[k] \in Nat /\ rv \in Nat /\ firstList \in Nat
            /\ upTo[k] <= d.at /\ d.at <= rv /\ rv <= rv
        BY <3>2, Known
      <4> QED BY <3>1, <3>2, <4>1, <4>2, <4>3, ChainAppend
    <3> QED BY <3>1, <3>3, <2>1
  <2>2. CASE ~(cache[k] # 0 /\ items[k] = <<>>)
    BY <2>2, <1>1, Known
  <2> QED BY <2>1, <2>2
<1>3. new \in [Keys -> Seq(Delta)]
  BY <1>2
<1> HIDE DEF new
<1>4. /\ queue' \in Seq(Keys) /\ FifoConsistent' /\ Len(queue) <= Len(queue')
      /\ \A i \in 1..Len(queue) : queue'[i] = queue[i]
  BY <1>1, <1>2, <1>3, PutAllQueues
<1>5. Counted'
  <2>1. Len(queue) \in Nat /\ Len(queue') \in Nat
    BY <1>4 DEF InformerIInv, TypeOK
  <2> QED BY <1>1, <1>4, <2>1, CountedKept
<1>6. ReflectorState'
  BY <1>1 DEF InformerIInv, ReflectorState, reflectorVars
<1>7. \A k \in Keys : cache[k] # 0 => firstList <= upTo[k]
  BY Known DEF Shown
<1>8. UNCHANGED <<log, hand, indexVars, handlerVars, stage, rv, listed, breaks, populated,
                  initialCount, firstList>>
  BY <1>1 DEF reflectorVars
<1>9. TypeOK /\ rv <= rv
  BY Known DEF InformerIInv
<1>10. items' = new
  BY <1>1 DEF PutAll
<1> QED BY <1>1, <1>2, <1>3, <1>4, <1>5, <1>6, <1>7, <1>8, <1>9, <1>10, PutAllKeeps DEF TypeOK

\* A list brings a Sync for each object it has and a deletion for each other
\* one of the cache; the keys of the first one are counted.
LEMMA ReplaceKeeps ==
    ASSUME InformerIInv, Replace
    PROVE  InformerIInv'
<1> DEFINE new == Replaced(listed)
           S == {k \in Keys : items[k] = <<>> /\ new[k] # <<>>}
           T == {k \in Keys : k \in Listing(listed) \/ cache[k] # 0}
<1>1. /\ LockFree /\ stage = "replace" /\ PutAll(new)
      /\ populated' = TRUE /\ stage' = "watch" /\ rv' = listed
      /\ initialCount' = IF populated THEN initialCount ELSE Cardinality(T)
      /\ firstList' = IF populated THEN firstList ELSE listed
      /\ UNCHANGED <<log, listed, breaks, hand, indexVars, handlerVars>>
  BY DEF Replace
<1>2. /\ rv \in Nat /\ listed \in Nat /\ listed <= Len(log) /\ rv <= listed
      /\ firstList' \in Nat /\ firstList' <= listed
  BY <1>1, Known DEF InformerIInv, ReflectorState
<1>3. \A k \in Keys : Stored(k, listed) = VersionIn(log, k, listed)
  BY DEF Stored, Feed!Stored, VersionIn
<1>4. ASSUME NEW k \in Keys
      PROVE  Chain(log, k, items[k], upTo[k], firstList', rv, cache[k])
  <2>1. CASE populated
    BY <2>1, <1>1, Known
  <2>2. CASE ~populated
    <3>1. items[k] = <<>>
      BY <2>2 DEF InformerIInv, ReflectorState
    <3> QED BY <3>1, ChainEmpty
  <2> QED BY <2>1, <2>2
<1>5. ASSUME NEW k \in Keys
      PROVE  /\ new[k] \in Seq(Delta) /\ (items[k] # <<>> => new[k] # <<>>)
             /\ k \in T => new[k] # <<>>
             /\ k \notin T => new[k] = items[k]
             /\ Chain(log, k, new[k], upTo[k], firstList', listed, cache[k])
  <2>0. /\ upTo[k] \in Nat /\ cache[k] \in Nat /\ upTo[k] <= listed /\ listed <= listed
        /\ items[k] \in Seq(Delta)
    BY <1>2, Known
  <2>1. CASE k \in Listing(listed)
    <3> DEFINE d == [type |-> "Sync", ver |-> Stored(k, listed), at |-> listed]
    <3>1. d \in Delta /\ d.at = listed /\ d.ver = VersionIn(log, k, d.at)
      BY <1>2, <1>3, VersionType DEF Delta, DeltaTypes
    <3>2. d.type # "Deleted" /\ d.ver # 0
      BY <2>1 DEF Listing
    <3>3. new[k] = Queued(items[k], d) /\ k \in T
      BY <2>1 DEF Replaced
    <3> HIDE DEF d, new, T
    <3>4. /\ Queued(items[k], d) \in Seq(Delta) /\ Queued(items[k], d) # <<>>
          /\ Chain(log, k, Queued(items[k], d), upTo[k], firstList', listed, cache[k])
      BY <2>0, <3>1, <3>2, <1>2, <1>4, ChainQueued
    <3> QED BY <3>3, <3>4
  <2>2. CASE k \notin Listing(listed) /\ cache[k] # 0
    <3> DEFINE d == [type |-> "Deleted", ver |-> 0, at |-> listed]
    <3>1. d \in Delta /\ d.at = listed /\ d.type = "Deleted" /\ d.ver = 0
      BY <1>2 DEF Delta, DeltaTypes
    <3>2. d.ver = VersionIn(log, k, d.at)
      BY <2>2, <3>1, <1>3 DEF Listing
    <3>3. new[k] = Queued(items[k], d) /\ k \in T
      BY <2>2 DEF Replaced
    <3> HIDE DEF d, new, T
    <3>4. /\ Queued(items[k], d) \in Seq(Delta) /\ Queued(items[k], d) # <<>>
          /\ Chain(log, k, Queued(items[k], d), upTo[k], firstList', listed, cache[k])
      <4>1. /\ d.type = "Deleted" <=> d.ver = 0
            /\ items[k] = <<>> /\ d.type = "Deleted" => cache[k] # 0
            /\ rv <= d.at /\ d.at <= listed /\ upTo[k] <= d.at /\ firstList' <= d.at
        BY <2>0, <2>2, <3>1, <1>2
      <4>2. Chain(log, k, items[k], upTo[k], firstList', rv, cache[k])
        BY <1>4
      <4>3. d \in Delta /\ rv \in Nat /\ listed \in Nat /\ firstList' \in Nat
            /\ upTo[k] \in Nat /\ cache[k] \in Nat
        BY <2>0, <3>1, <1>2
      <4> QED BY <3>2, <4>1, <4>2, <4>3, ChainQueued
    <3> QED BY <3>3, <3>4
  <2>3. CASE k \notin Listing(listed) /\ cache[k] = 0
    <3>1. new[k] = items[k] /\ k \notin T
      BY <2>3 DEF Replaced
    <3>2. Chain(log, k, items[k], upTo[k], firstList', listed, cache[k])
      BY <2>0, <1>2, <1>4, ChainKept
    <3> QED BY <2>0, <3>1, <3>2
  <2> QED BY <2>0, <2>1, <2>2, <2>3
<1>6. new \in [Keys -> Seq(Delta)]
  BY <1>5 DEF Replaced
<1>7. T \subseteq Keys /\ Cardinality(T) \in Nat
  BY InformerAssumption, FS_Subset, FS_CardinalityType
<1>8. ~populated => S = T
  BY <1>5 DEF InformerIInv, ReflectorState
<1>9. /\ queue' \in Seq(Keys) /\ FifoConsistent' /\ Len(queue) <= Len(queue')
      /\ \A i \in 1..Len(queue) : queue'[i] = queue[i]
      /\ queue = <<>> => Len(queue') = Cardinality(S)
  <2> HIDE DEF new
  <2> QED BY <1>1, <1>5, <1>6, PutAllQueues
<1>10. items' = new
  BY <1>1 DEF PutAll
<1>11. \A k \in Keys : VersionIn(log, k, listed) # 0 => k \in T
  BY <1>3 DEF Listing
<1> HIDE DEF new, S, T
<1>12. Counted'
  <2>1. CASE populated
    <3>1. Len(queue) \in Nat /\ Len(queue') \in Nat
      <4>1. queue \in Seq(Keys)
        BY DEF InformerIInv, TypeOK
      <4> QED BY <4>1, <1>9
    <3> QED BY <2>1, <3>1, <1>1, <1>9, CountedKept
  <2>2. CASE ~populated
    <3>1. Len(queue') = initialCount' /\ firstList' = listed
      BY <2>2, <1>1, <1>8, <1>9 DEF InformerIInv, ReflectorState
    <3>2. ASSUME NEW k \in Keys, VersionIn(log, k, listed) # 0
          PROVE  \E i \in 1..Len(queue') : i <= initialCount' /\ queue'[i] = k
      <4>1. items'[k] # <<>>
        BY <3>2, <1>5, <1>10, <1>11
      <4>2. PICK i \in 1..Len(queue') : queue'[i] = k
        BY <4>1, <1>9 DEF FifoConsistent
      <4> QED BY <4>2, <3>1, <1>9
    <3> QED BY <3>1, <3>2, <1>1 DEF Counted
  <2> QED BY <2>1, <2>2
<1>13. ReflectorState'
  BY <1>1, <1>2 DEF ReflectorState
<1>14. \A k \in Keys : cache[k] # 0 => firstList' <= upTo[k]
  BY <1>1, Known DEF InformerIInv, ReflectorState, Shown
<1>15. /\ stage' \in {"list", "replace", "watch"} /\ rv' \in 0..Len(log) /\ listed' \in 0..Len(log)
       /\ breaks' \in 0..MaxBreaks /\ populated' \in BOOLEAN /\ initialCount' \in Nat
       /\ firstList' \in 0..Len(log) /\ rv <= rv'
  BY <1>1, <1>2, <1>7, Known DEF InformerIInv, TypeOK
<1>16. \A k \in Keys : Chain(log, k, new[k], upTo[k], firstList', rv', cache[k])
  BY <1>1, <1>5
<1> QED BY <1>1, <1>6, <1>9, <1>10, <1>12, <1>13, <1>14, <1>15, <1>16, PutAllKeeps

\* An event of the watch goes behind what waits for its object, or is skipped.
LEMMA WatchKeeps ==
    ASSUME InformerIInv, WatchEvent
    PROVE  InformerIInv'
<1> DEFINE key == log[rv + 1].key
           e == EventAfter(rv)
           d == e.delta
           skipped == d.type = "Deleted" /\ cache[key] = 0 /\ items[key] = <<>>
           new == [items EXCEPT ![key] = Queued(@, d)]
<1>1. /\ stage = "watch" /\ rv < Len(log) /\ LockFree /\ rv' = rv + 1
      /\ UNCHANGED <<log, stage, listed, breaks, populated, initialCount, hand,
                     indexVars, firstList, handlerVars>>
      /\ e.key = key
      /\ IF skipped THEN UNCHANGED <<items, queue>> ELSE PutAll(new)
  BY DEF WatchEvent, EventAfter
<1>2. populated
  BY <1>1 DEF InformerIInv, ReflectorState
<1>3. /\ rv \in Nat /\ rv + 1 \in Nat /\ rv + 1 <= Len(log) /\ firstList \in Nat
      /\ firstList <= rv /\ rv <= rv + 1
  BY <1>1, Known
<1>4. key \in Keys /\ log[rv + 1].live \in BOOLEAN
  <2>1. log \in Seq([key : Keys, live : BOOLEAN]) /\ rv + 1 \in 1..Len(log)
    BY <1>3 DEF InformerIInv, TypeOK
  <2>2. log[rv + 1] \in [key : Keys, live : BOOLEAN]
    BY <2>1, ElementOfSeq
  <2> QED BY <2>2
<1>5. /\ d \in Delta /\ d.at = rv + 1 /\ d.ver = VersionIn(log, key, rv + 1)
      /\ d.type = "Deleted" <=> d.ver = 0
  <2>1. VersionIn(log, key, rv + 1) = IF log[rv + 1].live THEN rv + 1 ELSE 0
    BY <1>3, VersionNext
  <2>2. Stored(key, rv + 1) = VersionIn(log, key, rv + 1)
    BY DEF Stored, Feed!Stored, VersionIn
  <2>3. d.ver = VersionIn(log, key, rv + 1) /\ d.at = rv + 1
        /\ d.type \in DeltaTypes /\ (d.type = "Deleted" <=> ~log[rv + 1].live)
        /\ d = [type |-> d.type, ver |-> d.ver, at |-> d.at]
    BY <2>2 DEF EventAfter, DeltaTypes
  <2> QED BY <2>1, <2>3, <1>3, <1>4 DEF Delta
<1> HIDE DEF d, e, key
<1>6. \A k \in Keys : /\ Chain(log, k, items[k], upTo[k], firstList, rv, cache[k])
                      /\ Chain(log, k, items[k], upTo[k], firstList, rv + 1, cache[k])
                      /\ upTo[k] \in Nat /\ cache[k] \in Nat /\ upTo[k] <= rv
                      /\ items[k] \in Seq(Delta)
                      /\ cache[k] # 0 => firstList <= upTo[k]
  BY <1>1, <1>3, Known, ChainKept DEF Shown
<1>7. ReflectorState'
  BY <1>1, <1>2, <1>3 DEF ReflectorState
<1>8. /\ stage' \in {"list", "replace", "watch"} /\ rv' \in 0..Len(log) /\ listed' \in 0..Len(log)
      /\ breaks' \in 0..MaxBreaks /\ populated' \in BOOLEAN /\ initialCount' \in Nat
      /\ firstList' \in 0..Len(log) /\ rv <= rv' /\ queue \in Seq(Keys)
  BY <1>1, <1>3 DEF InformerIInv, TypeOK
<1>9. CASE skipped
  <2>1. items' = items /\ queue' = queue
    BY <1>1, <1>9
  <2>2. FifoConsistent'
    BY <2>1 DEF InformerIInv, FifoConsistent
  <2>3. Counted'
    BY <1>1, <1>2, <1>8, <2>1, CountedKept
  <2>4. items \in [Keys -> Seq(Delta)]
    BY DEF InformerIInv, TypeOK
  <2> QED BY <1>1, <1>6, <1>7, <1>8, <2>1, <2>2, <2>3, <2>4, PutAllKeeps
<1>10. CASE ~skipped
  <2>1. PutAll(new)
    BY <1>1, <1>10
  <2>2. /\ Queued(items[key], d) \in Seq(Delta) /\ Queued(items[key], d) # <<>>
        /\ Chain(log, key, Queued(items[key], d), upTo[key], firstList, rv + 1, cache[key])
    <3>1. /\ items[key] = <<>> /\ d.type = "Deleted" => cache[key] # 0
          /\ rv <= d.at /\ d.at <= rv + 1 /\ upTo[key] <= d.at /\ firstList <= d.at
          /\ d.ver = VersionIn(log, key, d.at)
      BY <1>3, <1>4, <1>5, <1>6, <1>10
    <3> QED BY <3>1, <1>3, <1>4, <1>5, <1>6, ChainQueued
  <2>3. new \in [Keys -> Seq(Delta)] /\ new[key] = Queued(items[key], d)
        /\ \A k \in Keys \ {key} : new[k] = items[k]
    BY <2>2, <1>4 DEF InformerIInv, TypeOK
  <2> HIDE DEF new
  <2>4. \A k \in Keys : /\ items[k] # <<>> => new[k] # <<>>
                        /\ Chain(log, k, new[k], upTo[k], firstList, rv + 1, cache[k])
    BY <2>2, <2>3, <1>6
  <2>5. /\ queue' \in Seq(Keys) /\ FifoConsistent' /\ Len(queue) <= Len(queue')
        /\ \A i \in 1..Len(queue) : queue'[i] = queue[i]
    BY <2>1, <2>3, <2>4, PutAllQueues
  <2>6. Counted'
    BY <1>1, <1>2, <1>8, <2>5, CountedKept
  <2>7. items' = new
    BY <2>1 DEF PutAll
  <2> QED BY <1>1, <1>6, <1>7, <1>8, <2>3, <2>4, <2>5, <2>6, <2>7, PutAllKeeps
<1> QED BY <1>9, <1>10

-----------------------------------------------------------------------------
(* The loop takes from the FIFO.                                           *)

\* The first key goes, with its deltas, from the queue into the loop's hand.
LEMMA PopKeeps ==
    ASSUME InformerIInv, Pop
    PROVE  InformerIInv'
<1> DEFINE key == Head(queue)
<1>1. /\ LockFree /\ queue # <<>>
      /\ hand' = [key |-> key, deltas |-> items[key]]
      /\ items' = [items EXCEPT ![key] = <<>>] /\ queue' = Tail(queue)
      /\ initialCount' = IF initialCount > 0 THEN initialCount - 1 ELSE 0
      /\ UNCHANGED <<log, reflectorVars, populated, indexVars, firstList, handlerVars>>
  BY DEF Pop
<1>2. /\ queue \in Seq(Keys) /\ items \in [Keys -> Seq(Delta)] /\ initialCount \in Nat
  BY DEF InformerIInv, TypeOK
<1>3. /\ Len(queue) \in Nat /\ queue' \in Seq(Keys) /\ Len(queue') = Len(queue) - 1
      /\ key = queue[1] /\ 1 \in 1..Len(queue) /\ key \in Keys
      /\ \A i \in 1..Len(queue') : i + 1 \in 1..Len(queue) /\ queue'[i] = queue[i + 1]
  BY <1>1, <1>2
<1> HIDE DEF key
<1>4. /\ items[key] # <<>> /\ items[key] \in Seq(Delta) /\ items'[key] = <<>>
      /\ items' \in [Keys -> Seq(Delta)] /\ \A k \in Keys \ {key} : items'[k] = items[k]
  <2>1. \E i \in 1..Len(queue) : queue[i] = key
    BY <1>3
  <2>2. items[key] # <<>>
    BY <2>1, <1>3 DEF InformerIInv, FifoConsistent
  <2> QED BY <2>2, <1>1, <1>2, <1>3
<1>5. TypeOK'
  <2>1. hand' \in [key : Keys, deltas : Seq(Delta)] /\ initialCount' \in Nat
    BY <1>1, <1>2, <1>3, <1>4
  <2> QED BY <2>1, <1>1, <1>3, <1>4 DEF InformerIInv, TypeOK, reflectorVars, indexVars, handlerVars
<1>6. populated
  BY <1>1 DEF InformerIInv, ReflectorState
<1>7. ReflectorState' /\ HandState'
  BY <1>1, <1>4, <1>6 DEF InformerIInv, ReflectorState, HandState, reflectorVars
<1>8. FifoConsistent'
  <2>1. ASSUME NEW i \in 1..Len(queue'), NEW j \in 1..Len(queue'), queue'[i] = queue'[j]
        PROVE  i = j
    <3>1. i + 1 \in 1..Len(queue) /\ j + 1 \in 1..Len(queue) /\ queue[i + 1] = queue[j + 1]
      BY <2>1, <1>3
    <3>2. i + 1 = j + 1
      BY <3>1 DEF InformerIInv, FifoConsistent
    <3> QED BY <3>2, <1>3
  <2>2. ASSUME NEW i \in 1..Len(queue') PROVE items'[queue'[i]] # <<>>
    <3>1. i + 1 \in 1..Len(queue) /\ queue'[i] = queue[i + 1] /\ queue[i + 1] \in Keys
      BY <1>2, <1>3
    <3>2. queue[i + 1] # key
      <4>1. i + 1 # 1
        BY <1>3
      <4> QED BY <4>1, <3>1, <1>3 DEF InformerIInv, FifoConsistent
    <3>3. items[queue[i + 1]] # <<>>
      BY <3>1 DEF InformerIInv, FifoConsistent
    <3> QED BY <3>1, <3>2, <3>3, <1>4
  <2>3. ASSUME NEW k \in Keys, items'[k] # <<>> PROVE \E i \in 1..Len(queue') : queue'[i] = k
    <3>1. k # key /\ items[k] # <<>>
      BY <2>3, <1>4
    <3>2. PICK i \in 1..Len(queue) : queue[i] = k
      BY <3>1 DEF InformerIInv, FifoConsistent
    <3>3. i # 1 /\ i - 1 \in 1..Len(queue') /\ (i - 1) + 1 = i
      BY <3>1, <3>2, <1>3
    <3>4. queue'[i - 1] = queue[i]
      BY <3>3, <1>3
    <3> QED BY <3>2, <3>3, <3>4
  <2> QED BY <2>1, <2>2, <2>3 DEF FifoConsistent
<1>9. Counted'
  <2>1. SUFFICES ASSUME NEW k \in Keys, VersionIn(log, k, firstList) # 0
                 PROVE  \/ firstList <= upTo[k]
                        \/ k = key
                        \/ \E i \in 1..Len(queue') : i <= initialCount' /\ queue'[i] = k
    BY <1>1, <1>4 DEF Counted, LockFree, indexVars
  <2>2. CASE firstList <= upTo[k]
    BY <2>2
  <2>3. ASSUME NEW i \in 1..Len(queue), i <= initialCount, queue[i] = k, k # key
        PROVE  \E h \in 1..Len(queue') : h <= initialCount' /\ queue'[h] = k
    <3>1. i # 1 /\ i - 1 \in 1..Len(queue') /\ (i - 1) + 1 = i /\ i - 1 <= initialCount'
      BY <2>3, <1>1, <1>2, <1>3
    <3>2. queue'[i - 1] = k
      BY <2>3, <3>1, <1>3
    <3> QED BY <3>1, <3>2
  <2> QED BY <2>1, <2>2, <2>3, <1>1, <1>6 DEF InformerIInv, Counted
<1>10. ASSUME NEW k \in Keys
       PROVE  (Shown(k) /\ Chain(log, k, Pending(k), upTo[k], firstList, rv, cache[k]))'
  <2>1. Pending(k)' = Pending(k)
    <3>1. Pending(k) = items[k]
      BY <1>1 DEF Pending, LockFree
    <3>2. Pending(k)' = IF k = key THEN items[key] ELSE items'[k]
      BY <1>1, <1>4 DEF Pending
    <3> QED BY <3>1, <3>2, <1>4
  <2> QED BY <2>1, <1>1 DEF InformerIInv, Shown, indexVars, reflectorVars
<1>11. (\A i \in 1..Len(notes) : notes[i].ver <= rv)'
  BY <1>1 DEF InformerIInv, handlerVars, reflectorVars
<1> QED BY <1>5, <1>7, <1>8, <1>9, <1>10, <1>11 DEF InformerIInv

\* What the loop applies is the next of the deltas that wait for the key.
LEMMA NextDelta ==
    ASSUME InformerIInv, HandleDelta
    PROVE  LET k == hand.key
               d == Head(hand.deltas)
           IN /\ k \in Keys /\ d \in Delta /\ ~LockFree /\ hand.deltas \in Seq(Delta)
              /\ hand.deltas # <<>>
              /\ Chain(log, k, hand.deltas, upTo[k], firstList, rv, cache[k])
              /\ d.at \in Nat /\ upTo[k] <= d.at /\ firstList <= d.at /\ d.at <= rv
              /\ d.ver = VersionIn(log, k, d.at) /\ d.ver \in 0..d.at
              /\ d.type = "Deleted" <=> d.ver = 0
              /\ d.type = "Deleted" => cache[k] # 0
              /\ cache' = [cache EXCEPT ![k] = d.ver] /\ upTo' = [upTo EXCEPT ![k] = d.at]
              /\ hand' = [hand EXCEPT !.deltas = Tail(@)]
              /\ UNCHANGED <<log, reflectorVars, fifoVars, firstList, seen>>
<1> DEFINE k == hand.key
           p == hand.deltas
           d == Head(p)
<1>1. k \in Keys /\ p \in Seq(Delta) /\ p # <<>> /\ ~LockFree
  BY DEF InformerIInv, TypeOK, HandleDelta, LockFree
<1>2. d = p[1] /\ 1 \in 1..Len(p) /\ d \in Delta
  BY <1>1
<1>3. Chain(log, k, p, upTo[k], firstList, rv, cache[k])
  BY <1>1 DEF InformerIInv, Pending
<1>4. d.at \in Nat
  BY <1>2 DEF Delta
<1>5. /\ upTo[k] <= d.at /\ firstList <= d.at /\ d.at <= rv /\ d.ver = VersionIn(log, k, d.at)
      /\ d.type = "Deleted" <=> d.ver = 0
      /\ d.type = "Deleted" => cache[k] # 0
  BY <1>2, <1>3 DEF Chain
<1>6. d.ver \in 0..d.at
  BY <1>4, <1>5, VersionType
<1>7. /\ cache' = [cache EXCEPT ![k] = d.ver] /\ upTo' = [upTo EXCEPT ![k] = d.at]
      /\ hand' = [hand EXCEPT !.deltas = Tail(@)]
      /\ UNCHANGED <<log, reflectorVars, fifoVars, firstList, seen>>
  BY DEF HandleDelta
<1> QED BY <1>1, <1>2, <1>3, <1>4, <1>5, <1>6, <1>7

\* A delta is applied.
LEMMA HandleKeeps ==
    ASSUME InformerIInv, HandleDelta
    PROVE  InformerIInv'
<1>0. PICK k \in Keys : k = hand.key
  BY NextDelta
<1> DEFINE p == hand.deltas
           d == Head(p)
<1>1. /\ k \in Keys /\ d \in Delta /\ ~LockFree /\ p \in Seq(Delta) /\ p # <<>>
      /\ Chain(log, k, p, upTo[k], firstList, rv, cache[k])
      /\ d.at \in Nat /\ upTo[k] <= d.at /\ firstList <= d.at /\ d.at <= rv
      /\ d.ver = VersionIn(log, k, d.at) /\ d.ver \in 0..d.at
      /\ cache' = [cache EXCEPT ![k] = d.ver] /\ upTo' = [upTo EXCEPT ![k] = d.at]
      /\ hand' = [hand EXCEPT !.deltas = Tail(@)]
      /\ UNCHANGED <<log, reflectorVars, fifoVars, firstList, seen>>
  BY <1>0, NextDelta
<1>2. hand'.key = k /\ hand'.deltas = Tail(p) /\ Tail(p) \in Seq(Delta)
      /\ hand' \in [key : Keys, deltas : Seq(Delta)]
  <2>1. hand \in [key : Keys, deltas : Seq(Delta)]
    BY DEF InformerIInv, TypeOK
  <2>2. Tail(p) \in Seq(Delta)
    BY <1>1
  <2> QED BY <2>1, <2>2, <1>0, <1>1
<1>3. /\ cache'[k] = d.ver /\ upTo'[k] = d.at
      /\ \A j \in Keys \ {k} : cache'[j] = cache[j] /\ upTo'[j] = upTo[j]
  BY <1>1 DEF InformerIInv, TypeOK
<1>4. PICK t \in {"add", "update", "delete"} :
        notes' = Append(notes, [type |-> t, key |-> k, ver |-> d.ver])
  BY <1>0 DEF HandleDelta
<1> DEFINE note == [type |-> t, key |-> k, ver |-> d.ver]
<1>5. note \in Note /\ note.ver = d.ver /\ d.ver \in Nat /\ d.ver <= rv /\ rv \in Nat
  BY <1>1, Known DEF Note
<1> HIDE DEF d, p, note
<1>6. /\ notes' \in Seq(Note) /\ Len(notes') = Len(notes) + 1 /\ Len(notes) \in Nat
      /\ notes'[Len(notes) + 1] = note /\ \A i \in 1..Len(notes) : notes'[i] = notes[i]
  <2>1. notes \in Seq(Note) /\ notes' = Append(notes, note)
    BY <1>4 DEF InformerIInv, TypeOK, note
  <2> QED BY ONLY <2>1, <1>5
<1>7. TypeOK'
  <2>1. d.ver \in 0..Len(log) /\ d.at \in 0..Len(log)
    BY <1>1, Known
  <2>2. cache' \in [Keys -> 0..Len(log)] /\ upTo' \in [Keys -> 0..Len(log)]
    BY <2>1, <1>1 DEF InformerIInv, TypeOK
  <2> QED BY <2>2, <1>1, <1>2, <1>6 DEF InformerIInv, TypeOK, reflectorVars, fifoVars
<1>8. populated
  BY <1>1 DEF InformerIInv, ReflectorState
<1>9. ReflectorState' /\ HandState' /\ FifoConsistent'
  BY <1>0, <1>1, <1>2, <1>8 DEF InformerIInv, ReflectorState, HandState, FifoConsistent,
     reflectorVars, fifoVars
<1>10. Counted'
  <2>1. SUFFICES ASSUME NEW j \in Keys, VersionIn(log, j, firstList) # 0
                 PROVE  \/ firstList <= upTo'[j]
                        \/ \E i \in 1..Len(queue) : i <= initialCount /\ queue[i] = j
    BY <1>1 DEF Counted, fifoVars
  <2>2. CASE j = k
    BY <2>2, <1>1, <1>3
  <2>3. CASE j # k
    BY <2>1, <2>3, <1>0, <1>3, <1>8 DEF InformerIInv, Counted
  <2> QED BY <2>2, <2>3
<1>11. ASSUME NEW j \in Keys
       PROVE  (Shown(j) /\ Chain(log, j, Pending(j), upTo[j], firstList, rv, cache[j]))'
  <2>1. CASE j = k
    <3>1. Pending(k)' = Tail(p)
      <4>1. items'[k] = <<>>
        BY <1>0, <1>1 DEF InformerIInv, HandState, fifoVars
      <4> QED BY <4>1, <1>2 DEF Pending
    <3>2. Chain(log, k, Tail(p), d.at, firstList, rv, d.ver)
      <4>1. upTo[k] \in Nat /\ cache[k] \in Nat /\ firstList \in Nat /\ rv \in Nat
        BY <1>1, Known
      <4> QED BY <4>1, <1>1, ChainTail DEF d
    <3> QED BY <2>1, <3>1, <3>2, <1>1, <1>3 DEF Shown, reflectorVars
  <2>2. CASE j # k
    <3>1. Pending(j)' = Pending(j)
      BY <2>2, <1>0, <1>1, <1>2 DEF Pending, fifoVars
    <3> QED BY <2>2, <3>1, <1>1, <1>3 DEF InformerIInv, Shown, reflectorVars
  <2> QED BY <2>1, <2>2
<1>12. ASSUME NEW i \in 1..Len(notes') PROVE notes'[i].ver <= rv'
  <2>1. i \in 1..Len(notes) \/ i = Len(notes) + 1
    BY <1>6
  <2> QED BY <2>1, <1>1, <1>5, <1>6 DEF InformerIInv, reflectorVars
<1> QED BY <1>7, <1>9, <1>10, <1>11, <1>12 DEF InformerIInv

-----------------------------------------------------------------------------
(* The theorems.                                                           *)

\* Every step keeps the invariant.
LEMMA InformerStep == InformerIInv /\ [Next]_vars => InformerIInv'
<1> SUFFICES ASSUME InformerIInv, [Next]_vars PROVE InformerIInv'
  OBVIOUS
<1>1. ASSUME NEW k \in Keys, Write(k) PROVE InformerIInv'
  BY <1>1, WriteKeeps
<1>2. CASE List \/ Break
  BY <1>2, ListKeeps
<1>3. CASE Replace
  BY <1>3, ReplaceKeeps
<1>4. CASE WatchEvent
  BY <1>4, WatchKeeps
<1>5. CASE Resync
  BY <1>5, ResyncKeeps
<1>6. CASE Pop
  BY <1>6, PopKeeps
<1>7. CASE HandleDelta
  BY <1>7, HandleKeeps
<1>8. CASE CallHandler
  BY <1>8, CallKeeps
<1>9. CASE UNCHANGED vars
  <2>1. UNCHANGED <<log, reflectorVars, fifoVars, hand, indexVars, firstList, handlerVars>>
    BY <1>9 DEF vars
  <2>2. TypeOK' /\ ReflectorState'
    BY <2>1 DEF InformerIInv, TypeOK, ReflectorState, LockFree, reflectorVars, fifoVars,
       indexVars, handlerVars
  <2>3. \A i \in 1..Len(notes') : notes'[i].ver <= rv
    BY <2>1 DEF InformerIInv, handlerVars
  <2> QED BY <2>1, <2>2, <2>3, StillKeeps DEF reflectorVars
<1> QED BY <1>1, <1>2, <1>3, <1>4, <1>5, <1>6, <1>7, <1>8, <1>9 DEF Next

\* The invariant of the informer holds in every state.
THEOREM InformerInvariant == Spec => []InformerIInv
  BY InformerInit, InformerStep, PTL DEF Spec

\* Every variable stays in its type; above all the count of the first list never
\* becomes negative.
THEOREM InformerTypeCorrect == Spec => []TypeOK
<1>1. InformerIInv => TypeOK
  BY DEF InformerIInv
<1> QED BY <1>1, InformerInvariant, PTL

\* The keys of the FIFO are those that have deltas, each once.
THEOREM FifoCorrect == Spec => []FifoConsistent
<1>1. InformerIInv => FifoConsistent
  BY DEF InformerIInv
<1> QED BY <1>1, InformerInvariant, PTL

\* Whoever waits for HasSynced finds in the cache what the first list held, or
\* something later.
THEOREM SyncedCorrect == Spec => []SyncedMeansListed
<1>1. InformerIInv => SyncedMeansListed
  <2> SUFFICES ASSUME InformerIInv, HasSynced, NEW k \in Listing(firstList)
               PROVE  upTo[k] > firstList \/ k \in ListerList(NamespaceOf[k])
    BY DEF SyncedMeansListed
  <2>1. k \in Keys /\ VersionIn(log, k, firstList) # 0
    BY DEF Listing, Stored, Feed!Stored, VersionIn
  <2>2. firstList <= upTo[k]
    <3>1. \A i \in 1..Len(queue) : ~(i <= initialCount)
      BY DEF HasSynced
    <3> QED BY <2>1, <3>1 DEF InformerIInv, Counted, HasSynced
  <2>3. upTo[k] \in Nat /\ firstList \in Nat /\ cache[k] = VersionIn(log, k, upTo[k])
    BY <2>1, Known DEF Shown
  <2>4. CASE upTo[k] = firstList
    BY <2>1, <2>3, <2>4 DEF ListerList
  <2> QED BY <2>2, <2>3, <2>4
<1> QED BY <1>1, InformerInvariant, PTL

\* The informer implements CacheFeed but for its fairness: a lister finds what
\* was once stored, and nothing older than it found before.
THEOREM InformerFeeds == Spec => Feed!Init /\ [][Feed!Next]_(Feed!vars)
<1>1. Init => Feed!Init
  BY DEF Init, Feed!Init
<1>2. InformerIInv /\ [Next]_vars => [Feed!Next]_(Feed!vars)
  <2> SUFFICES ASSUME InformerIInv, [Next]_vars PROVE [Feed!Next]_(Feed!vars)
    OBVIOUS
  <2>1. ASSUME NEW k \in Keys, Write(k) PROVE Feed!Next
    BY <2>1 DEF Write, Feed!Next
  <2>2. CASE HandleDelta
    <3> DEFINE k == hand.key
               d == Head(hand.deltas)
    <3>1. /\ k \in Keys /\ d.at \in Nat /\ upTo[k] <= d.at /\ d.at <= rv
          /\ d.ver = VersionIn(log, k, d.at)
          /\ cache' = [cache EXCEPT ![k] = d.ver] /\ upTo' = [upTo EXCEPT ![k] = d.at]
          /\ log' = log
      BY <2>2, NextDelta
    <3>2. d.at \in upTo[k]..Len(log)
      BY <3>1, Known
    <3>3. Feed!Stored(k, d.at) = d.ver
      BY <3>1 DEF Feed!Stored, VersionIn
    <3> HIDE DEF d, k
    <3>4. Feed!Refresh(k)
      BY <3>1, <3>2, <3>3 DEF Feed!Refresh
    <3> QED BY <3>1, <3>4 DEF Feed!Next
  <2>3. CASE \/ List \/ Replace \/ WatchEvent \/ Break \/ Resync
             \/ Pop \/ CallHandler \/ UNCHANGED vars
    BY <2>3 DEF List, Replace, WatchEvent, Break, Resync, Pop, CallHandler, vars, indexVars,
       Feed!vars
  <2> QED BY <2>1, <2>2, <2>3 DEF Next
<1> QED BY <1>1, <1>2, InformerInvariant, PTL DEF Spec

-----------------------------------------------------------------------------
(* The handlers.                                                           *)

\* What the first n of the notifications ns say of object k to whom knows sn.
ToldOf(ns, sn, n, k) ==
    LET about == {i \in 1..n : ns[i].key = k}
    IN IF about = {} THEN sn[k] ELSE ns[CHOOSE i \in about : \A j \in about : j <= i].ver

\* The last one about the object counts.
LEMMA ToldLast ==
    ASSUME NEW ns, NEW sn, NEW k, NEW n \in Nat, NEW i \in 1..n,
           ns[i].key = k, \A j \in 1..n : ns[j].key = k => j <= i
    PROVE  ToldOf(ns, sn, n, k) = ns[i].ver
<1> DEFINE about == {j \in 1..n : ns[j].key = k}
           last == CHOOSE j \in about : \A h \in about : h <= j
<1>1. i \in about /\ \A j \in about : j <= i
  OBVIOUS
<1>2. last \in about /\ \A j \in about : j <= last
  BY <1>1
<1>3. last = i
  BY <1>1, <1>2
<1> QED BY <1>1, <1>3 DEF ToldOf

\* If there is none nothing changes.
LEMMA ToldNothing ==
    ASSUME NEW ns, NEW sn, NEW k, NEW n \in Nat, \A j \in 1..n : ns[j].key # k
    PROVE  ToldOf(ns, sn, n, k) = sn[k]
BY DEF ToldOf

\* One more notification.
LEMMA ToldNext ==
    ASSUME NEW ns, NEW sn, NEW k, NEW n \in Nat
    PROVE  ToldOf(ns, sn, n + 1, k) =
             IF ns[n + 1].key = k THEN ns[n + 1].ver ELSE ToldOf(ns, sn, n, k)
<1>1. CASE ns[n + 1].key = k
  <2>1. n + 1 \in 1..(n + 1) /\ n + 1 \in Nat /\ \A j \in 1..(n + 1) : ns[j].key = k => j <= n + 1
    OBVIOUS
  <2>2. ToldOf(ns, sn, n + 1, k) = ns[n + 1].ver
    BY <1>1, <2>1, ToldLast
  <2> QED BY <1>1, <2>2
<1>2. CASE ns[n + 1].key # k
  <2>1. ASSUME \A j \in 1..n : ns[j].key # k
        PROVE  ToldOf(ns, sn, n + 1, k) = ToldOf(ns, sn, n, k)
    <3>1. \A j \in 1..(n + 1) : ns[j].key # k
      BY <2>1, <1>2
    <3>2. ToldOf(ns, sn, n + 1, k) = sn[k]
      BY <3>1, ToldNothing
    <3>3. ToldOf(ns, sn, n, k) = sn[k]
      BY <2>1, ToldNothing
    <3> QED BY <3>2, <3>3
  <2>2. ASSUME NEW i \in 1..n, ns[i].key = k, \A j \in 1..n : ns[j].key = k => j <= i
        PROVE  ToldOf(ns, sn, n + 1, k) = ToldOf(ns, sn, n, k)
    <3>1. i \in 1..(n + 1) /\ \A j \in 1..(n + 1) : ns[j].key = k => j <= i
      BY <2>2, <1>2
    <3>2. ToldOf(ns, sn, n + 1, k) = ns[i].ver
      BY <2>2, <3>1, ToldLast
    <3> QED BY <2>2, <3>2, ToldLast
  <2>3. \/ \A j \in 1..n : ns[j].key # k
        \/ \E i \in 1..n : ns[i].key = k /\ \A j \in 1..n : ns[j].key = k => j <= i
    BY LastAbout
  <2>4. ToldOf(ns, sn, n + 1, k) = ToldOf(ns, sn, n, k)
    BY <2>1, <2>2, <2>3
  <2> QED BY <2>4, <1>2
<1> QED BY <1>1, <1>2

\* Notifications that agree say the same.
LEMMA ToldKept ==
    ASSUME NEW ns, NEW ms, NEW sn, NEW k, NEW n \in Nat, \A j \in 1..n : ms[j] = ns[j]
    PROVE  ToldOf(ms, sn, n, k) = ToldOf(ns, sn, n, k)
<1>1. CASE \A j \in 1..n : ns[j].key # k
  BY <1>1, ToldNothing
<1>2. ASSUME NEW i \in 1..n, ns[i].key = k, \A j \in 1..n : ns[j].key = k => j <= i
      PROVE  ToldOf(ms, sn, n, k) = ToldOf(ns, sn, n, k)
  <2>1. ms[i].key = k /\ \A j \in 1..n : ms[j].key = k => j <= i
    BY <1>2
  <2>2. ToldOf(ms, sn, n, k) = ms[i].ver
    BY <2>1, ToldLast
  <2> QED BY <1>2, <2>2, ToldLast
<1> QED BY <1>1, <1>2, LastAbout

\* Of a handler called with the first of ns, ms is what is left of the first n
\* after it, and tn what is then known of k.
Called(ns, sn, ms, tn, n, k) ==
    /\ \A j \in 1..n : ms[j] = ns[j + 1]
    /\ tn[k] = IF ns[1].key = k THEN ns[1].ver ELSE sn[k]

\* It makes no difference whether a handler has been called already or will be.
LEMMA ToldShift ==
    ASSUME NEW ns, NEW ms, NEW sn, NEW tn, NEW k \in Keys, NEW n \in Nat,
           NEW l, l = n + 1, Called(ns, sn, ms, tn, n, k)
    PROVE  ToldOf(ms, tn, n, k) = ToldOf(ns, sn, l, k)
<1>0. /\ \A j \in 1..n : ms[j] = ns[j + 1]
      /\ tn[k] = IF ns[1].key = k THEN ns[1].ver ELSE sn[k]
  BY DEF Called
<1>1. CASE \A j \in 1..n : ms[j].key # k
  <2>1. ToldOf(ms, tn, n, k) = tn[k]
    BY <1>1 DEF ToldOf
  <2>2. \A j \in 1..(n + 1) : ns[j].key = k => j = 1
    <3> SUFFICES ASSUME NEW j \in 1..(n + 1), ns[j].key = k, j # 1 PROVE FALSE
      OBVIOUS
    <3>1. j - 1 \in 1..n /\ (j - 1) + 1 = j
      OBVIOUS
    <3> QED BY <3>1, <1>0, <1>1
  <2>3. CASE ns[1].key = k
    <3>1. 1 \in 1..(n + 1) /\ \A j \in 1..(n + 1) : ns[j].key = k => j <= 1
      BY <2>2
    <3>2. ToldOf(ns, sn, n + 1, k) = ns[1].ver
      BY <2>3, <3>1, ToldLast
    <3> QED BY <1>0, <2>1, <2>3, <3>2
  <2>4. CASE ns[1].key # k
    <3>1. \A j \in 1..(n + 1) : ns[j].key # k
      BY <2>2, <2>4
    <3>2. ToldOf(ns, sn, n + 1, k) = sn[k]
      BY <3>1, ToldNothing
    <3> QED BY <1>0, <2>1, <2>4, <3>2
  <2> QED BY <2>3, <2>4
<1>2. ASSUME NEW i \in 1..n, ms[i].key = k, \A j \in 1..n : ms[j].key = k => j <= i
      PROVE  ToldOf(ms, tn, n, k) = ToldOf(ns, sn, l, k)
  <2>1. i + 1 \in 1..(n + 1) /\ ns[i + 1].key = k
    BY <1>0, <1>2
  <2>2. ASSUME NEW j \in 1..(n + 1), ns[j].key = k PROVE j <= i + 1
    <3>1. CASE j = 1
      BY <3>1
    <3>2. CASE j # 1
      <4>1. j - 1 \in 1..n /\ (j - 1) + 1 = j
        BY <3>2
      <4>2. j - 1 <= i
        BY <4>1, <2>2, <1>0, <1>2
      <4> QED BY <4>2
    <3> QED BY <3>1, <3>2
  <2>3. ToldOf(ns, sn, n + 1, k) = ns[i + 1].ver
    BY <2>1, <2>2, ToldLast
  <2>4. ToldOf(ms, tn, n, k) = ms[i].ver
    BY <1>2, ToldLast
  <2> QED BY <1>0, <2>3, <2>4
<1>3. \/ \A j \in 1..n : ms[j].key # k
      \/ \E i \in 1..n : ms[i].key = k /\ \A j \in 1..n : ms[j].key = k => j <= i
  BY ONLY n \in Nat, LastAbout
<1> QED BY <1>1, <1>2, <1>3

\* HandlersFollowCache, object by object.
HandlersKnow ==
    /\ \A k \in Keys : ToldOf(notes, seen, Len(notes), k) = cache[k]
    /\ \A n \in 1..Len(notes) :
         notes[n].type = "add" <=> ToldOf(notes, seen, n - 1, notes[n].key) = 0

\* What is known of each object tells what is known of all of them.
LEMMA HandlersKnowEnough == InformerIInv /\ HandlersKnow => HandlersFollowCache
<1> SUFFICES ASSUME InformerIInv, HandlersKnow PROVE HandlersFollowCache
  OBVIOUS
<1>1. Told(Len(notes)) = [k \in Keys |-> ListerGet(k)]
  <2>1. \A k \in Keys : Told(Len(notes))[k] = ToldOf(notes, seen, Len(notes), k)
    BY DEF Told, ToldOf
  <2>2. Told(Len(notes)) = [k \in Keys |-> Told(Len(notes))[k]]
    BY DEF Told
  <2> QED BY <2>1, <2>2 DEF HandlersKnow, ListerGet
<1>2. ASSUME NEW n \in 1..Len(notes)
      PROVE  LET known == Told(n - 1)[notes[n].key] # 0
             IN  notes[n].type = "add" <=> ~known
  <2>1. notes[n].key \in Keys
    <3>1. notes \in Seq(Note)
      BY DEF InformerIInv, TypeOK
    <3>2. notes[n] \in Note
      BY <3>1
    <3> QED BY <3>2 DEF Note
  <2>2. Told(n - 1)[notes[n].key] = ToldOf(notes, seen, n - 1, notes[n].key)
    BY <2>1 DEF Told, ToldOf
  <2> QED BY <2>2 DEF HandlersKnow
<1> QED BY <1>1, <1>2 DEF HandlersFollowCache

\* At first nobody knows anything.
LEMMA HandlersInit == Init => HandlersKnow
<1> SUFFICES ASSUME Init PROVE HandlersKnow
  OBVIOUS
<1>1. Len(notes) = 0
  BY DEF Init
<1>2. \A k \in Keys : ToldOf(notes, seen, 0, k) = seen[k]
  BY ToldNothing
<1> QED BY <1>1, <1>2 DEF Init, HandlersKnow

\* A delta that is applied goes to the handlers as what it is.
LEMMA HandlersHandle ==
    ASSUME InformerIInv, HandlersKnow, HandleDelta
    PROVE  HandlersKnow'
<1>0. PICK k \in Keys : k = hand.key
  BY NextDelta
<1> DEFINE d == Head(hand.deltas)
           t == IF d.type = "Deleted" THEN "delete" ELSE IF cache[k] # 0 THEN "update" ELSE "add"
           note == [type |-> t, key |-> k, ver |-> d.ver]
           n == Len(notes)
<1>1. /\ d.type = "Deleted" => cache[k] # 0
      /\ cache' = [cache EXCEPT ![k] = d.ver] /\ seen' = seen
      /\ notes' = Append(notes, note) /\ note \in Note
  BY <1>0, NextDelta DEF HandleDelta, Note
<1>2. note.type = "add" <=> cache[k] = 0
  BY <1>1
<1>3. note.key = k /\ note.ver = d.ver
  OBVIOUS
<1> HIDE DEF d, note
<1>4. notes \in Seq(Note) /\ cache \in [Keys -> Nat]
  BY DEF InformerIInv, TypeOK
<1>5. /\ n \in Nat /\ Len(notes') = n + 1 /\ notes'[n + 1] = note
      /\ \A i \in 1..n : notes'[i] = notes[i]
  BY <1>1, <1>4
<1>6. ASSUME NEW j \in Keys, NEW m \in 0..n
      PROVE  ToldOf(notes', seen', m, j) = ToldOf(notes, seen, m, j)
  <2>1. m \in Nat /\ \A i \in 1..m : notes'[i] = notes[i]
    BY <1>5
  <2>2. ToldOf(notes', seen, m, j) = ToldOf(notes, seen, m, j)
    BY <2>1, ToldKept
  <2> QED BY <2>2, <1>1
<1>7. \A j \in Keys : ToldOf(notes', seen', n, j) = cache[j]
  BY <1>5, <1>6 DEF HandlersKnow
<1>8. ASSUME NEW j \in Keys PROVE ToldOf(notes', seen', n + 1, j) = cache'[j]
  <2>1. ToldOf(notes', seen', n + 1, j) =
          IF notes'[n + 1].key = j THEN notes'[n + 1].ver ELSE ToldOf(notes', seen', n, j)
    BY <1>5, ToldNext
  <2>2. cache'[j] = IF j = k THEN d.ver ELSE cache[j]
    BY <1>1, <1>4
  <2> QED BY <2>1, <2>2, <1>3, <1>5, <1>7
<1>9. ASSUME NEW i \in 1..(n + 1)
      PROVE  notes'[i].type = "add" <=> ToldOf(notes', seen', i - 1, notes'[i].key) = 0
  <2>1. CASE i \in 1..n
    <3>1. notes[i] \in Note /\ i - 1 \in 0..n
      BY <2>1, <1>4, <1>5
    <3>2. notes[i].key \in Keys
      BY <3>1 DEF Note
    <3>3. notes'[i] = notes[i]
      BY <2>1, <1>5
    <3> QED BY <2>1, <3>1, <3>2, <3>3, <1>6 DEF HandlersKnow
  <2>2. CASE i = n + 1
    <3>1. i - 1 = n
      BY <2>2, <1>5
    <3> QED BY <2>2, <3>1, <1>2, <1>3, <1>5, <1>7
  <2> QED BY <2>1, <2>2, <1>5
<1> QED BY <1>5, <1>8, <1>9 DEF HandlersKnow

\* What a handler is told it knows afterwards.
LEMMA HandlersCall ==
    ASSUME InformerIInv, HandlersKnow, CallHandler
    PROVE  HandlersKnow'
<1> DEFINE n == Len(notes')
<1>1. notes \in Seq(Note) /\ seen \in [Keys -> 0..Len(log)]
  BY DEF InformerIInv, TypeOK
<1>2. notes # <<>> /\ notes' = Tail(notes) /\ cache' = cache
      /\ seen' = [seen EXCEPT ![notes[1].key] = notes[1].ver]
  <2>1. notes # <<>> => Head(notes) = notes[1]
    BY <1>1
  <2> QED BY <2>1 DEF CallHandler, indexVars
<1>3. /\ n \in Nat /\ Len(notes) = n + 1
      /\ \A i \in 1..n : notes'[i] = notes[i + 1] /\ notes[i + 1] \in Note
  BY <1>1, <1>2
<1> HIDE DEF n
<1>4. ASSUME NEW k \in Keys, NEW m \in 0..n, NEW l, l = m + 1
      PROVE  ToldOf(notes', seen', m, k) = ToldOf(notes, seen, l, k)
  <2>1. m \in Nat /\ \A i \in 1..m : notes'[i] = notes[i + 1]
    BY <1>3
  <2>2. seen'[k] = IF notes[1].key = k THEN notes[1].ver ELSE seen[k]
    BY <1>1, <1>2
  <2>3. Called(notes, seen, notes', seen', m, k)
    BY ONLY <2>1, <2>2 DEF Called
  <2> QED BY <1>4, <2>1, <2>3, ToldShift
<1>5. ASSUME NEW k \in Keys PROVE ToldOf(notes', seen', n, k) = cache'[k]
  <2>1. ToldOf(notes', seen', n, k) = ToldOf(notes, seen, n + 1, k)
    BY <1>3, <1>4
  <2>2. ToldOf(notes, seen, n + 1, k) = cache[k]
    BY <1>3 DEF HandlersKnow
  <2> QED BY <2>1, <2>2, <1>2
<1>6. ASSUME NEW i \in 1..n
      PROVE  notes'[i].type = "add" <=> ToldOf(notes', seen', i - 1, notes'[i].key) = 0
  <2>1. i - 1 \in 0..n /\ i + 1 \in 1..Len(notes) /\ (i - 1) + 1 = i /\ (i + 1) - 1 = i
    BY <1>3
  <2>2. notes'[i] = notes[i + 1] /\ notes[i + 1].key \in Keys
    BY <1>3 DEF Note
  <2>3. ToldOf(notes', seen', i - 1, notes'[i].key) = ToldOf(notes, seen, i, notes[i + 1].key)
    BY <2>1, <2>2, <1>4
  <2>4. notes[i + 1].type = "add" <=> ToldOf(notes, seen, i, notes[i + 1].key) = 0
    BY <2>1 DEF HandlersKnow
  <2> QED BY <2>2, <2>3, <2>4
<1> QED BY <1>5, <1>6 DEF HandlersKnow, n

\* No change of the cache is kept from the handlers, and each is reported as
\* what it is: an object they do not know is added, one they know is updated or
\* deleted.
THEOREM HandlersTold == Spec => []HandlersFollowCache
<1>1. InformerIInv /\ HandlersKnow /\ [Next]_vars => HandlersKnow'
  <2> SUFFICES ASSUME InformerIInv, HandlersKnow, [Next]_vars PROVE HandlersKnow'
    OBVIOUS
  <2>1. CASE HandleDelta
    BY <2>1, HandlersHandle
  <2>2. CASE CallHandler
    BY <2>2, HandlersCall
  <2>3. CASE (\E k \in Keys : Write(k)) \/ List \/ Replace \/ WatchEvent \/ Break \/ Resync \/ Pop
             \/ UNCHANGED vars
    <3>1. UNCHANGED <<notes, seen, cache>>
      BY <2>3 DEF Write, Feed!Write, List, Replace, WatchEvent, Break, Resync, Pop, vars,
         indexVars, handlerVars
    <3> QED BY <3>1 DEF HandlersKnow
  <2> QED BY <2>1, <2>2, <2>3 DEF Next
<1> QED BY <1>1, HandlersInit, HandlersKnowEnough, InformerInvariant, PTL DEF Spec
=============================================================================
