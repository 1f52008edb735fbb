------------------------ MODULE ControllerLoopProofs ------------------------
(***************************************************************************)
(* Proofs about ControllerLoop, for every set of keys and workers, every   *)
(* retry limit and every channel capacity: first what holds of the queue,  *)
(* the counts and the limits, then what becomes of the keys that were      *)
(* added.                                                                  *)
(***************************************************************************)
EXTENDS ControllerLoop, FiniteSetTheorems, TLAPS

USE DEF queueVars, delayVars, stopVars, workerVars

-----------------------------------------------------------------------------
(* Facts about sequences of keys.                                          *)

\* Append adds one element, and a new one makes no duplicate.
LEMMA AppendKey ==
    ASSUME NEW s \in Seq(Keys), NEW k \in Keys
    PROVE  /\ Append(s, k) \in Seq(Keys)
           /\ ElementsOf(Append(s, k)) = ElementsOf(s) \cup {k}
           /\ NoDuplicates(s) /\ k \notin ElementsOf(s)
                => NoDuplicates(Append(s, k))
<1>1. /\ Append(s, k) \in Seq(Keys)
      /\ DOMAIN s = 1 .. Len(s) /\ Len(s) \in Nat
      /\ DOMAIN Append(s, k) = 1 .. Len(s) + 1
      /\ \A n \in 1 .. Len(s) : Append(s, k)[n] = s[n]
      /\ Append(s, k)[Len(s) + 1] = k
  OBVIOUS
<1>2. ElementsOf(Append(s, k)) = ElementsOf(s) \cup {k}
  BY <1>1 DEF ElementsOf
<1>3. ASSUME NoDuplicates(s), k \notin ElementsOf(s)
      PROVE  NoDuplicates(Append(s, k))
  BY <1>1, <1>3 DEF ElementsOf, NoDuplicates
<1> QED
  BY <1>1, <1>2, <1>3

\* Taking the head of a sequence without duplicates removes just that key.
LEMMA TakeHead ==
    ASSUME NEW s \in Seq(Keys), s # <<>>
    PROVE  /\ Head(s) \in Keys /\ Tail(s) \in Seq(Keys)
           /\ Head(s) \in ElementsOf(s)
           /\ ElementsOf(s) = ElementsOf(Tail(s)) \cup {Head(s)}
           /\ NoDuplicates(s)
                => /\ NoDuplicates(Tail(s))
                   /\ ElementsOf(Tail(s)) = ElementsOf(s) \ {Head(s)}
<1>1. /\ Head(s) \in Keys /\ Tail(s) \in Seq(Keys)
      /\ Len(s) \in Nat \ {0} /\ DOMAIN s = 1 .. Len(s)
      /\ DOMAIN Tail(s) = 1 .. Len(s) - 1
      /\ \A n \in 1 .. Len(s) - 1 : Tail(s)[n] = s[n + 1]
      /\ Head(s) = s[1]
  OBVIOUS
<1> DEFINE t == Tail(s)
           h == Head(s)
<1>2. \A n \in DOMAIN t : t[n] \in ElementsOf(s)
  BY <1>1 DEF ElementsOf
<1>3. h \in ElementsOf(s)
  BY <1>1 DEF ElementsOf
<1>4. \A n \in DOMAIN s : s[n] = h \/ s[n] \in ElementsOf(t)
  <2> TAKE n \in DOMAIN s
  <2>1. CASE n = 1
    BY <1>1, <2>1
  <2>2. CASE n # 1
    <3>1. n - 1 \in DOMAIN t /\ s[n] = t[n - 1]
      BY <1>1, <2>2
    <3> QED
      BY <3>1 DEF ElementsOf
  <2> QED
    BY <2>1, <2>2
<1>5. ElementsOf(s) = ElementsOf(t) \cup {h}
  BY <1>2, <1>3, <1>4 DEF ElementsOf
<1>6. ASSUME NoDuplicates(s)
      PROVE  NoDuplicates(t) /\ h \notin ElementsOf(t)
  <2>1. \A m, n \in DOMAIN t : t[m] = t[n] => m = n
    BY <1>1, <1>6 DEF NoDuplicates
  <2>2. \A n \in DOMAIN t : t[n] # h
    BY <1>1, <1>6 DEF NoDuplicates
  <2> QED
    BY <2>1, <2>2 DEF ElementsOf, NoDuplicates
<1> QED
  BY <1>1, <1>3, <1>5, <1>6
-----------------------------------------------------------------------------
(* Types.                                                                  *)

\* Add keeps the types of what it changes.
LEMMA AddType ==
    ASSUME NEW k \in Keys, LoopTypeOK, Add(k)
    PROVE  queue' \in Seq(Keys) /\ dirty' \subseteq Keys
                                /\ processing' \subseteq Keys
<1>1. queue \in Seq(Keys) /\ Append(queue, k) \in Seq(Keys)
  BY AppendKey DEF LoopTypeOK
<1>2. queue' = queue \/ queue' = Append(queue, k)
  BY DEF Add
<1>3. dirty' \subseteq Keys /\ processing' \subseteq Keys
  BY DEF Add, LoopTypeOK
<1> QED
  BY <1>1, <1>2, <1>3

\* A worker that is inside processNextWorkItem has a key.
LEMMA HasKey ==
    ASSUME NEW w \in Workers, LoopTypeOK, pc[w] \notin Keyless
    PROVE  cur[w] \in Keys
  BY DEF LoopTypeOK

\* The initial values have their types.
LEMMA LoopTypeInit == LoopInit => LoopTypeOK
<1> SUFFICES ASSUME LoopInit PROVE LoopTypeOK
  OBVIOUS
<1>1. queue \in Seq(Keys) /\ waitingForAddCh \in Seq(Keys)
  BY DEF LoopInit
<1>2. failures \in [Keys -> Nat]
  BY DEF LoopInit
<1>3. pc \in [Workers -> Labels] /\ cur \in [Workers -> Keys \cup {NoKey}]
  BY DEF LoopInit, Labels
<1>4. \A w \in Workers : cur[w] = NoKey <=> pc[w] \in Keyless
  BY DEF LoopInit, Keyless
<1> QED
  BY <1>1, <1>2, <1>3, <1>4 DEF LoopInit, LoopTypeOK

\* The values of all variables stay in their types, under every action.
LEMMA LoopTypeStep ==
    ASSUME LoopTypeOK, [LoopNext]_loopVars
    PROVE  LoopTypeOK'
<1>1. ASSUME NEW k \in Keys, Enqueue(k) PROVE LoopTypeOK'
  BY <1>1, AddType DEF Enqueue, LoopTypeOK
<1>2. ASSUME NEW k \in Keys, Fire(k) PROVE LoopTypeOK'
  BY <1>2, AddType DEF Fire, LoopTypeOK
<1>3. ASSUME NEW w \in Workers, Start(w) PROVE LoopTypeOK'
  BY <1>3 DEF Start, Goto, LoopTypeOK, Labels, Keyless
<1>4. ASSUME NEW w \in Workers, TakeKey(w) PROVE LoopTypeOK'
  <2>1. Head(queue) \in Keys /\ Tail(queue) \in Seq(Keys)
    BY <1>4, TakeHead DEF TakeKey, LoopTypeOK
  <2> QED
    BY <1>4, <2>1, LoopAssumption
    DEF TakeKey, Goto, LoopTypeOK, Labels, Keyless
<1>5. ASSUME NEW w \in Workers, Stop(w) PROVE LoopTypeOK'
  BY <1>5 DEF Stop, Goto, LoopTypeOK, Labels, Keyless
<1>6. ASSUME NEW w \in Workers, Forget(w) PROVE LoopTypeOK'
  BY <1>6 DEF Forget, Goto, LoopTypeOK, Labels, Keyless
<1>7. ASSUME NEW w \in Workers, Done(w) PROVE LoopTypeOK'
  <2>1. cur[w] \in Keys
    BY <1>7, HasKey DEF Done, Goto, Keyless
  <2>2. queue' \in Seq(Keys)
    BY <1>7, <2>1, AppendKey DEF Done, LoopTypeOK
  <2> QED
    BY <1>7, <2>1, <2>2, LoopAssumption
    DEF Done, Goto, LoopTypeOK, Labels, Keyless
<1>8. ASSUME NEW w \in Workers, CheckRequeues(w) PROVE LoopTypeOK'
  BY <1>8, LoopAssumption
  DEF CheckRequeues, Goto, LoopTypeOK, Labels, Keyless
<1>9. ASSUME NEW w \in Workers, When(w) PROVE LoopTypeOK'
  <2>1. cur[w] \in Keys
    BY <1>9, HasKey DEF When, Goto, Keyless
  <2>2. failures \in [Keys -> Nat]
    BY DEF LoopTypeOK
  <2>3. failures' = [failures EXCEPT ![cur[w]] = @ + 1]
    BY <1>9 DEF When
  <2>4. failures' \in [Keys -> Nat]
    BY <2>1, <2>2, <2>3
  <2> QED
    BY <1>9, <2>4 DEF When, Goto, LoopTypeOK, Labels, Keyless
<1>10. ASSUME NEW w \in Workers, AddAfter(w) PROVE LoopTypeOK'
  <2>1. cur[w] \in Keys
    BY <1>10, HasKey DEF AddAfter, Goto, Keyless
  <2>2. \/ waitingForAddCh' = waitingForAddCh
        \/ waitingForAddCh' = Append(waitingForAddCh, cur[w])
    BY <1>10 DEF AddAfter
  <2>3. /\ waitingForAddCh \in Seq(Keys)
        /\ Append(waitingForAddCh, cur[w]) \in Seq(Keys)
    BY <2>1, AppendKey DEF LoopTypeOK
  <2>4. waitingForAddCh' \in Seq(Keys)
    BY <2>2, <2>3
  <2> QED
    BY <1>10, <2>4, LoopAssumption
    DEF AddAfter, Goto, LoopTypeOK, Labels, Keyless
<1>11. ASSUME NEW w \in Workers, SyncOK(w) PROVE LoopTypeOK'
  BY <1>11 DEF SyncOK, Goto, LoopTypeOK, Labels, Keyless
<1>12. ASSUME NEW w \in Workers, SyncErr(w) PROVE LoopTypeOK'
  BY <1>12 DEF SyncErr, Goto, LoopTypeOK, Labels, Keyless
<1>13. ASSUME Receive PROVE LoopTypeOK'
  <2> DEFINE k == Head(waitingForAddCh)
  <2>1. k \in Keys /\ Tail(waitingForAddCh) \in Seq(Keys)
    BY <1>13, TakeHead DEF Receive, LoopTypeOK
  <2>2. CASE waiting' = waiting \cup {k} /\ UNCHANGED queueVars
    BY <1>13, <2>1, <2>2 DEF Receive, LoopTypeOK
  <2>3. CASE Add(k) /\ UNCHANGED waiting
    BY <1>13, <2>1, <2>3, AddType DEF Receive, LoopTypeOK
  <2> QED
    BY <1>13, <2>2, <2>3 DEF Receive
<1>14. ASSUME CloseStopCh \/ ShutDown PROVE LoopTypeOK'
  BY <1>14 DEF CloseStopCh, ShutDown, LoopTypeOK
<1>15. ASSUME Restart PROVE LoopTypeOK'
  <2>1. queue' \in Seq(Keys) /\ waitingForAddCh' \in Seq(Keys)
    BY <1>15 DEF Restart
  <2>2. failures' \in [Keys -> Nat]
    BY <1>15 DEF Restart
  <2>3. pc' \in [Workers -> Labels] /\ cur' \in [Workers -> Keys \cup {NoKey}]
    BY <1>15 DEF Restart, Labels
  <2>4. \A w \in Workers : cur'[w] = NoKey <=> pc'[w] \in Keyless
    BY <1>15 DEF Restart, Keyless
  <2> QED
    BY <1>15, <2>1, <2>2, <2>3, <2>4 DEF Restart, LoopTypeOK
<1>16. ASSUME UNCHANGED loopVars PROVE LoopTypeOK'
  BY <1>16 DEF loopVars, LoopTypeOK
<1> QED
  BY <1>1, <1>2, <1>3, <1>4, <1>5, <1>6, <1>7, <1>8, <1>9, <1>10, <1>11,
     <1>12, <1>13, <1>14, <1>15, <1>16
  DEF LoopNext, WorkerStep

\* Type correctness of the queue, the rate limiter and the workers.
THEOREM LoopTypeCorrect == LoopSpec => []LoopTypeOK
<1>1. LoopTypeOK /\ [LoopNext]_loopVars => LoopTypeOK'
  BY LoopTypeStep
<1> QED
  BY LoopTypeInit, <1>1, PTL DEF LoopSpec

-----------------------------------------------------------------------------
(* The queue and who holds a key.                                          *)

\* Add keeps the queue consistent: it queues a key that is neither dirty, so
\* not in the queue, nor held.
LEMMA AddQueue ==
    ASSUME NEW k \in Keys, LoopTypeOK, QueueInv, Add(k)
    PROVE  QueueInv'
<1> queue \in Seq(Keys)
  BY DEF LoopTypeOK
<1>1. CASE shuttingDown \/ k \in dirty
  BY <1>1 DEF Add, QueueInv
<1>2. CASE ~(shuttingDown \/ k \in dirty) /\ k \in processing
  <2>1. queue' = queue /\ dirty' = dirty \cup {k} /\ processing' = processing
    BY <1>2 DEF Add
  <2> QED
    BY <1>2, <2>1 DEF QueueInv
<1>3. CASE ~(shuttingDown \/ k \in dirty) /\ k \notin processing
  <2>1. /\ queue' = Append(queue, k)
        /\ dirty' = dirty \cup {k} /\ processing' = processing
    BY <1>3 DEF Add
  <2>2. k \notin ElementsOf(queue)
    BY <1>3 DEF QueueInv
  <2>3. NoDuplicates(queue')
    BY <2>1, <2>2, AppendKey DEF QueueInv
  <2>4. ElementsOf(queue') = ElementsOf(queue) \cup {k}
    BY <2>1, AppendKey
  <2> QED
    BY <1>3, <2>1, <2>3, <2>4 DEF QueueInv
<1> QED
  BY <1>1, <1>2, <1>3

\* A step that leaves the holders and their keys alone.
LEMMA SameHolders ==
    ASSUME OneWorkerPerKey, processing' = processing,
           \A w \in Workers : /\ pc'[w] \in Holding <=> pc[w] \in Holding
                              /\ pc[w] \in Holding => cur'[w] = cur[w]
    PROVE  OneWorkerPerKey'
<1>1. \A v, w \in Workers :
        pc'[v] \in Holding /\ pc'[w] \in Holding /\ cur'[v] = cur'[w] => v = w
  BY DEF OneWorkerPerKey
<1>2. {v \in Workers : pc'[v] \in Holding} = {v \in Workers : pc[v] \in Holding}
  OBVIOUS
<1>3. {cur'[w] : w \in {v \in Workers : pc'[v] \in Holding}}
        = {cur[w] : w \in {v \in Workers : pc[v] \in Holding}}
  BY <1>2
<1> QED
  BY <1>1, <1>3 DEF OneWorkerPerKey

\* QueueInv and OneWorkerPerKey are inductive together: a key in the queue is
\* not held, so the worker that takes it is its only holder.
LEMMA QueueStep ==
    ASSUME LoopTypeOK, QueueInv, OneWorkerPerKey, [LoopNext]_loopVars
    PROVE  QueueInv' /\ OneWorkerPerKey'
<1> USE DEF LoopTypeOK
<1>1. ASSUME NEW k \in Keys, Enqueue(k) PROVE QueueInv' /\ OneWorkerPerKey'
  <2>1. Add(k) /\ UNCHANGED <<pc, cur, processing>>
    BY <1>1 DEF Enqueue, Add
  <2> QED
    BY <2>1, AddQueue, SameHolders
<1>2. ASSUME NEW k \in Keys, Fire(k) PROVE QueueInv' /\ OneWorkerPerKey'
  <2>1. Add(k) /\ UNCHANGED <<pc, cur, processing>>
    BY <1>2 DEF Fire, Add
  <2> QED
    BY <2>1, AddQueue, SameHolders
<1>3. ASSUME NEW w \in Workers, TakeKey(w) PROVE QueueInv' /\ OneWorkerPerKey'
  <2> DEFINE h == Head(queue)
  <2>1. /\ queue # <<>> /\ queue' = Tail(queue)
        /\ dirty' = dirty \ {h} /\ processing' = processing \cup {h}
        /\ pc[w] = "get" /\ pc' = [pc EXCEPT ![w] = "sync"]
        /\ cur' = [cur EXCEPT ![w] = h]
    BY <1>3 DEF TakeKey, Goto
  <2>2. /\ h \in ElementsOf(queue)
        /\ NoDuplicates(queue')
        /\ ElementsOf(queue') = ElementsOf(queue) \ {h}
    BY <2>1, TakeHead DEF QueueInv
  <2>3. h \in dirty /\ h \notin processing
    BY <2>2 DEF QueueInv
  <2>4. QueueInv'
    BY <2>1, <2>2, <2>3 DEF QueueInv
  <2>5. \A v \in Workers \ {w} : pc'[v] = pc[v] /\ cur'[v] = cur[v]
    BY <2>1
  <2>6. pc[w] \notin Holding /\ pc'[w] \in Holding /\ cur'[w] = h
    BY <2>1 DEF Holding
  <2>7. \A v \in Workers : pc[v] \in Holding => cur[v] # h
    BY <2>3 DEF OneWorkerPerKey
  <2>8. OneWorkerPerKey'
    BY <2>1, <2>5, <2>6, <2>7 DEF OneWorkerPerKey
  <2> QED
    BY <2>4, <2>8
<1>4. ASSUME NEW w \in Workers, Done(w) PROVE QueueInv' /\ OneWorkerPerKey'
  <2> DEFINE k == cur[w]
  <2>1. /\ pc[w] \in {"synced", "failed"} /\ k \in Keys
        /\ pc' = [pc EXCEPT ![w] = IF pc[w] = "synced" THEN "get" ELSE "check"]
        /\ \A v \in Workers \ {w} : cur'[v] = cur[v]
        /\ processing' = processing \ {k} /\ dirty' = dirty
        /\ queue' = IF k \in dirty THEN Append(queue, k) ELSE queue
    BY <1>4, HasKey DEF Done, Goto, Keyless
  <2>2. k \in processing
    BY <2>1 DEF OneWorkerPerKey, Holding
  <2>3. QueueInv'
    <3>1. CASE k \notin dirty
      BY <2>1, <3>1 DEF QueueInv
    <3>2. CASE k \in dirty
      <4>1. k \notin ElementsOf(queue)
        BY <2>2 DEF QueueInv
      <4>2. NoDuplicates(queue')
        BY <2>1, <3>2, <4>1, AppendKey DEF QueueInv
      <4>3. ElementsOf(queue') = ElementsOf(queue) \cup {k}
        BY <2>1, <3>2, AppendKey
      <4> QED
        BY <2>1, <3>2, <4>2, <4>3 DEF QueueInv
    <3> QED
      BY <3>1, <3>2
  <2>4. \A v \in Workers \ {w} : pc'[v] = pc[v]
    BY <2>1
  <2>5. pc[w] \in Holding /\ pc'[w] \notin Holding
    BY <2>1 DEF Holding
  <2>6. \A u, v \in Workers :
          pc'[u] \in Holding /\ pc'[v] \in Holding /\ cur'[u] = cur'[v] => u = v
    BY <2>1, <2>4, <2>5 DEF OneWorkerPerKey
  <2>7. \A v \in Workers \ {w} : pc[v] \in Holding => cur[v] # k
    BY <2>5 DEF OneWorkerPerKey
  <2>8. processing' = {cur'[v] : v \in {u \in Workers : pc'[u] \in Holding}}
    <3> DEFINE H == {v \in Workers : pc[v] \in Holding}
    <3>1. {u \in Workers : pc'[u] \in Holding} = H \ {w}
      BY <2>4, <2>5
    <3>2. {cur'[v] : v \in H \ {w}} = {cur[v] : v \in H \ {w}}
      BY <2>1
    <3>3. {cur[v] : v \in H \ {w}} = {cur[v] : v \in H} \ {k}
      BY <2>5, <2>7
    <3> QED
      BY <2>1, <3>1, <3>2, <3>3 DEF OneWorkerPerKey
  <2>9. OneWorkerPerKey'
    BY <2>6, <2>8 DEF OneWorkerPerKey
  <2> QED
    BY <2>3, <2>9
<1>5. ASSUME NEW w \in Workers, Start(w) PROVE QueueInv' /\ OneWorkerPerKey'
  <2>1. UNCHANGED queueVars
    BY <1>5 DEF Start
  <2>2. \A v \in Workers : /\ pc'[v] \in Holding <=> pc[v] \in Holding
                           /\ pc[v] \in Holding => cur'[v] = cur[v]
    BY <1>5 DEF Start, Goto, Holding
  <2> QED
    BY <2>1, <2>2, SameHolders DEF QueueInv
<1>6. ASSUME NEW w \in Workers, Stop(w) PROVE QueueInv' /\ OneWorkerPerKey'
  <2>1. UNCHANGED queueVars
    BY <1>6 DEF Stop
  <2>2. \A v \in Workers : /\ pc'[v] \in Holding <=> pc[v] \in Holding
                           /\ pc[v] \in Holding => cur'[v] = cur[v]
    BY <1>6 DEF Stop, Goto, Holding
  <2> QED
    BY <2>1, <2>2, SameHolders DEF QueueInv
<1>7. ASSUME NEW w \in Workers, SyncOK(w) PROVE QueueInv' /\ OneWorkerPerKey'
  <2>1. UNCHANGED queueVars
    BY <1>7 DEF SyncOK
  <2>2. \A v \in Workers : /\ pc'[v] \in Holding <=> pc[v] \in Holding
                           /\ pc[v] \in Holding => cur'[v] = cur[v]
    BY <1>7 DEF SyncOK, Goto, Holding
  <2> QED
    BY <2>1, <2>2, SameHolders DEF QueueInv
<1>8. ASSUME NEW w \in Workers, SyncErr(w) PROVE QueueInv' /\ OneWorkerPerKey'
  <2>1. UNCHANGED queueVars
    BY <1>8 DEF SyncErr
  <2>2. \A v \in Workers : /\ pc'[v] \in Holding <=> pc[v] \in Holding
                           /\ pc[v] \in Holding => cur'[v] = cur[v]
    BY <1>8 DEF SyncErr, Goto, Holding
  <2> QED
    BY <2>1, <2>2, SameHolders DEF QueueInv
<1>9. ASSUME NEW w \in Workers, Forget(w) PROVE QueueInv' /\ OneWorkerPerKey'
  <2>1. UNCHANGED queueVars
    BY <1>9 DEF Forget
  <2>2. \A v \in Workers : /\ pc'[v] \in Holding <=> pc[v] \in Holding
                           /\ pc[v] \in Holding => cur'[v] = cur[v]
    BY <1>9 DEF Forget, Goto, Holding
  <2> QED
    BY <2>1, <2>2, SameHolders DEF QueueInv
<1>10. ASSUME NEW w \in Workers, CheckRequeues(w) PROVE QueueInv' /\ OneWorkerPerKey'
  <2>1. UNCHANGED queueVars
    BY <1>10 DEF CheckRequeues
  <2>2. \A v \in Workers : /\ pc'[v] \in Holding <=> pc[v] \in Holding
                           /\ pc[v] \in Holding => cur'[v] = cur[v]
    BY <1>10 DEF CheckRequeues, Goto, Holding
  <2> QED
    BY <2>1, <2>2, SameHolders DEF QueueInv
<1>11. ASSUME NEW w \in Workers, When(w) PROVE QueueInv' /\ OneWorkerPerKey'
  <2>1. UNCHANGED queueVars
    BY <1>11 DEF When
  <2>2. \A v \in Workers : /\ pc'[v] \in Holding <=> pc[v] \in Holding
                           /\ pc[v] \in Holding => cur'[v] = cur[v]
    BY <1>11 DEF When, Goto, Holding
  <2> QED
    BY <2>1, <2>2, SameHolders DEF QueueInv
<1>12. ASSUME NEW w \in Workers, AddAfter(w) PROVE QueueInv' /\ OneWorkerPerKey'
  <2>1. UNCHANGED queueVars
    BY <1>12 DEF AddAfter
  <2>2. \A v \in Workers : /\ pc'[v] \in Holding <=> pc[v] \in Holding
                           /\ pc[v] \in Holding => cur'[v] = cur[v]
    BY <1>12 DEF AddAfter, Goto, Holding
  <2> QED
    BY <2>1, <2>2, SameHolders DEF QueueInv
<1>13. ASSUME Receive PROVE QueueInv' /\ OneWorkerPerKey'
  <2> DEFINE k == Head(waitingForAddCh)
  <2>1. k \in Keys
    BY <1>13, TakeHead DEF Receive
  <2>2. UNCHANGED <<pc, cur, processing>> /\ (UNCHANGED queueVars \/ Add(k))
    BY <1>13 DEF Receive, Add
  <2> QED
    BY <2>1, <2>2, AddQueue, SameHolders DEF QueueInv
<1>14. ASSUME CloseStopCh \/ ShutDown \/ UNCHANGED loopVars
       PROVE  QueueInv' /\ OneWorkerPerKey'
  BY <1>14, SameHolders DEF CloseStopCh, ShutDown, loopVars, QueueInv
<1>15. ASSUME Restart PROVE QueueInv' /\ OneWorkerPerKey'
  BY <1>15
  DEF Restart, QueueInv, OneWorkerPerKey, Holding, NoDuplicates, ElementsOf
<1> QED
  BY <1>1, <1>2, <1>3, <1>4, <1>5, <1>6, <1>7, <1>8, <1>9, <1>10, <1>11,
     <1>12, <1>13, <1>14, <1>15
  DEF LoopNext, WorkerStep

\* The queue holds just the keys that wait for a worker, each once, and no key
\* has two workers, under every interleaving of events, retries and shutdown.
THEOREM QueueCorrect == LoopSpec => [](QueueInv /\ OneWorkerPerKey)
<1>1. LoopInit => QueueInv /\ OneWorkerPerKey
  BY DEF LoopInit, QueueInv, OneWorkerPerKey, Holding, NoDuplicates, ElementsOf
<1>2. LoopTypeOK /\ QueueInv /\ OneWorkerPerKey /\ [LoopNext]_loopVars
        => QueueInv' /\ OneWorkerPerKey'
  BY QueueStep
<1> QED
  BY LoopTypeCorrect, <1>1, <1>2, PTL DEF LoopSpec

-----------------------------------------------------------------------------
(* The bound on retries.                                                   *)

\* The workers that passed the check against maxRetries for k and have not yet
\* counted the failure.
Pending(k) == {w \in Workers : cur[w] = k /\ pc[w] = "requeue"}

\* What RetryBound lacks to be inductive: whoever passed the check will count.
RetryIInv ==
    \A k \in Keys : failures[k] + Cardinality(Pending(k))
                      <= MaxRetries + Cardinality(Workers) - 1

\* Cardinalities of sets of workers are numbers, at most that of all.
LEMMA WorkerCount ==
    ASSUME NEW W \in SUBSET Workers, NEW V \in SUBSET W
    PROVE  /\ Cardinality(V) \in Nat /\ Cardinality(W) \in Nat
           /\ Cardinality(Workers) \in Nat \ {0}
           /\ Cardinality(V) <= Cardinality(W)
           /\ Cardinality(W) <= Cardinality(Workers)
           /\ \A w \in W : Cardinality(W \ {w}) = Cardinality(W) - 1
<1>1. IsFiniteSet(Workers) /\ Workers # {}
  BY LoopAssumption
<1>2. IsFiniteSet(W) /\ Cardinality(W) <= Cardinality(Workers)
  BY <1>1, FS_Subset
<1>3. IsFiniteSet(V) /\ Cardinality(V) <= Cardinality(W)
  BY <1>2, FS_Subset
<1>4. \A w \in W : Cardinality(W \ {w}) = Cardinality(W) - 1
  BY <1>2, FS_RemoveElement
<1>5. Cardinality(Workers) # 0
  BY <1>1, FS_EmptySet
<1> QED
  BY <1>1, <1>2, <1>3, <1>4, <1>5, FS_CardinalityType

\* A step that neither counts a failure nor lets a worker pass the check.
LEMMA RetryKept ==
    ASSUME LoopTypeOK, RetryIInv, failures' = failures,
           \A w \in Workers :
             pc'[w] = "requeue" => pc[w] = "requeue" /\ cur'[w] = cur[w]
    PROVE  RetryIInv'
<1> SUFFICES ASSUME NEW k \in Keys
             PROVE  failures[k] + Cardinality(Pending(k)')
                      <= MaxRetries + Cardinality(Workers) - 1
  BY DEF RetryIInv
<1>1. Pending(k)' \subseteq Pending(k) /\ Pending(k) \subseteq Workers
  BY DEF Pending
<1>2. /\ Cardinality(Pending(k)') <= Cardinality(Pending(k))
      /\ Cardinality(Pending(k)') \in Nat /\ Cardinality(Pending(k)) \in Nat
      /\ Cardinality(Workers) \in Nat
  BY <1>1, WorkerCount
<1>3. failures[k] \in Nat /\ MaxRetries \in Nat
  BY LoopAssumption DEF LoopTypeOK
<1>4. failures[k] + Cardinality(Pending(k))
        <= MaxRetries + Cardinality(Workers) - 1
  BY DEF RetryIInv
<1> QED
  BY <1>2, <1>3, <1>4

\* RetryIInv is kept by every step.
LEMMA RetryStep ==
    ASSUME LoopTypeOK, RetryIInv, [LoopNext]_loopVars
    PROVE  RetryIInv'
<1>0. /\ failures \in [Keys -> Nat] /\ MaxRetries \in Nat \ {0}
      /\ \A k \in Keys : Pending(k) \subseteq Workers /\ Pending(k)' \subseteq Workers
  BY LoopAssumption DEF LoopTypeOK, Pending
<1>1. ASSUME NEW w \in Workers, CheckRequeues(w) PROVE RetryIInv'
  <2> SUFFICES ASSUME NEW k \in Keys
               PROVE  failures'[k] + Cardinality(Pending(k)')
                        <= MaxRetries + Cardinality(Workers) - 1
    BY DEF RetryIInv
  <2>1. /\ failures' = failures
        /\ \A v \in Workers \ {w} : pc'[v] = pc[v] /\ cur'[v] = cur[v]
    BY <1>1 DEF CheckRequeues, Goto, LoopTypeOK
  <2>2. CASE cur[w] = k /\ pc'[w] = "requeue"
    <3>1. failures[k] < MaxRetries
      BY <1>1, <2>2 DEF CheckRequeues, Goto, LoopTypeOK
    <3>2. /\ Cardinality(Pending(k)') <= Cardinality(Workers)
          /\ Cardinality(Pending(k)') \in Nat /\ Cardinality(Workers) \in Nat
      BY <1>0, WorkerCount
    <3>3. failures[k] \in Nat
      BY <1>0
    <3> QED
      BY <1>0, <2>1, <3>1, <3>2, <3>3
  <2>3. CASE ~(cur[w] = k /\ pc'[w] = "requeue")
    <3>1. pc'[w] = "requeue" => cur'[w] = cur[w]
      BY <1>1 DEF CheckRequeues, Goto, LoopTypeOK
    <3>2. Pending(k)' \subseteq Pending(k)
      BY <2>1, <2>3, <3>1 DEF Pending
    <3>3. /\ Cardinality(Pending(k)') <= Cardinality(Pending(k))
          /\ Cardinality(Pending(k)') \in Nat /\ Cardinality(Pending(k)) \in Nat
          /\ Cardinality(Workers) \in Nat
      BY <1>0, <3>2, WorkerCount
    <3>4. failures[k] \in Nat /\ failures[k] + Cardinality(Pending(k))
                                  <= MaxRetries + Cardinality(Workers) - 1
      BY <1>0 DEF RetryIInv
    <3> QED
      BY <1>0, <2>1, <3>3, <3>4
  <2> QED
    BY <2>2, <2>3
<1>2. ASSUME NEW w \in Workers, When(w) PROVE RetryIInv'
  <2> SUFFICES ASSUME NEW k \in Keys
               PROVE  failures'[k] + Cardinality(Pending(k)')
                        <= MaxRetries + Cardinality(Workers) - 1
    BY DEF RetryIInv
  <2>1. /\ failures' = [failures EXCEPT ![cur[w]] = @ + 1]
        /\ pc[w] = "requeue" /\ pc' = [pc EXCEPT ![w] = "add"] /\ cur' = cur
    BY <1>2 DEF When, Goto
  <2>2. /\ failures[k] \in Nat /\ Cardinality(Pending(k)) \in Nat
        /\ Cardinality(Workers) \in Nat
        /\ failures[k] + Cardinality(Pending(k))
              <= MaxRetries + Cardinality(Workers) - 1
    BY <1>0, WorkerCount DEF RetryIInv
  <2>3. CASE cur[w] = k
    <3>1. w \in Pending(k) /\ Pending(k)' = Pending(k) \ {w}
      BY <2>1, <2>3 DEF Pending, LoopTypeOK
    <3>2. Cardinality(Pending(k)') = Cardinality(Pending(k)) - 1
      BY <1>0, <3>1, WorkerCount
    <3>3. failures'[k] = failures[k] + 1
      BY <1>0, <2>1, <2>3
    <3> QED
      BY <1>0, <2>2, <3>2, <3>3
  <2>4. CASE cur[w] # k
    <3>1. Pending(k)' = Pending(k) /\ failures'[k] = failures[k]
      BY <1>0, <2>1, <2>4 DEF Pending, LoopTypeOK
    <3> QED
      BY <2>2, <3>1
  <2> QED
    BY <2>3, <2>4
<1>3. ASSUME NEW w \in Workers, Forget(w) PROVE RetryIInv'
  <2> SUFFICES ASSUME NEW k \in Keys
               PROVE  failures'[k] + Cardinality(Pending(k)')
                        <= MaxRetries + Cardinality(Workers) - 1
    BY DEF RetryIInv
  <2>1. /\ failures' = [failures EXCEPT ![cur[w]] = 0]
        /\ pc[w] = "forget" /\ pc' = [pc EXCEPT ![w] = "synced"] /\ cur' = cur
    BY <1>3 DEF Forget, Goto
  <2>2. Pending(k)' = Pending(k)
    BY <2>1 DEF Pending, LoopTypeOK
  <2>3. /\ failures[k] \in Nat /\ Cardinality(Pending(k)) \in Nat
        /\ Cardinality(Workers) \in Nat
        /\ Cardinality(Pending(k)) <= Cardinality(Workers)
        /\ failures[k] + Cardinality(Pending(k))
              <= MaxRetries + Cardinality(Workers) - 1
    BY <1>0, WorkerCount DEF RetryIInv
  <2>4. failures'[k] = 0 \/ failures'[k] = failures[k]
    BY <1>0, <2>1
  <2> QED
    BY <1>0, <2>2, <2>3, <2>4
<1>4. ASSUME Restart PROVE RetryIInv'
  <2> SUFFICES ASSUME NEW k \in Keys
               PROVE  failures'[k] + Cardinality(Pending(k)')
                        <= MaxRetries + Cardinality(Workers) - 1
    BY DEF RetryIInv
  <2>1. failures'[k] = 0
    BY <1>4 DEF Restart
  <2>2. /\ Cardinality(Pending(k)') <= Cardinality(Workers)
        /\ Cardinality(Pending(k)') \in Nat /\ Cardinality(Workers) \in Nat
    BY <1>0, WorkerCount
  <2> QED
    BY <1>0, <2>1, <2>2
<1>5. ASSUME NEW w \in Workers, TakeKey(w) PROVE RetryIInv'
  <2>1. failures' = failures
    BY <1>5 DEF TakeKey
  <2>2. \A v \in Workers :
          pc'[v] = "requeue" => pc[v] = "requeue" /\ cur'[v] = cur[v]
    BY <1>5 DEF TakeKey, Goto, LoopTypeOK
  <2> QED
    BY <2>1, <2>2, RetryKept
<1>6. ASSUME NEW w \in Workers, Done(w) PROVE RetryIInv'
  <2>1. failures' = failures
    BY <1>6 DEF Done
  <2>2. \A v \in Workers :
          pc'[v] = "requeue" => pc[v] = "requeue" /\ cur'[v] = cur[v]
    BY <1>6 DEF Done, Goto, LoopTypeOK
  <2> QED
    BY <2>1, <2>2, RetryKept
<1>7. ASSUME NEW w \in Workers, Start(w) PROVE RetryIInv'
  <2>1. failures' = failures
    BY <1>7 DEF Start
  <2>2. \A v \in Workers :
          pc'[v] = "requeue" => pc[v] = "requeue" /\ cur'[v] = cur[v]
    BY <1>7 DEF Start, Goto, LoopTypeOK
  <2> QED
    BY <2>1, <2>2, RetryKept
<1>8. ASSUME NEW w \in Workers, Stop(w) PROVE RetryIInv'
  <2>1. failures' = failures
    BY <1>8 DEF Stop
  <2>2. \A v \in Workers :
          pc'[v] = "requeue" => pc[v] = "requeue" /\ cur'[v] = cur[v]
    BY <1>8 DEF Stop, Goto, LoopTypeOK
  <2> QED
    BY <2>1, <2>2, RetryKept
<1>9. ASSUME NEW w \in Workers, SyncOK(w) PROVE RetryIInv'
  <2>1. failures' = failures
    BY <1>9 DEF SyncOK
  <2>2. \A v \in Workers :
          pc'[v] = "requeue" => pc[v] = "requeue" /\ cur'[v] = cur[v]
    BY <1>9 DEF SyncOK, Goto, LoopTypeOK
  <2> QED
    BY <2>1, <2>2, RetryKept
<1>10. ASSUME NEW w \in Workers, SyncErr(w) PROVE RetryIInv'
  <2>1. failures' = failures
    BY <1>10 DEF SyncErr
  <2>2. \A v \in Workers :
          pc'[v] = "requeue" => pc[v] = "requeue" /\ cur'[v] = cur[v]
    BY <1>10 DEF SyncErr, Goto, LoopTypeOK
  <2> QED
    BY <2>1, <2>2, RetryKept
<1>11. ASSUME NEW w \in Workers, AddAfter(w) PROVE RetryIInv'
  <2>1. failures' = failures
    BY <1>11 DEF AddAfter
  <2>2. \A v \in Workers :
          pc'[v] = "requeue" => pc[v] = "requeue" /\ cur'[v] = cur[v]
    BY <1>11 DEF AddAfter, Goto, LoopTypeOK
  <2> QED
    BY <2>1, <2>2, RetryKept
<1>12. ASSUME \/ \E k \in Keys : Enqueue(k) \/ Fire(k)
              \/ Receive \/ CloseStopCh \/ ShutDown \/ UNCHANGED loopVars
       PROVE  RetryIInv'
  <2>1. UNCHANGED <<failures, pc, cur>>
    BY <1>12 DEF Enqueue, Fire, Receive, CloseStopCh, ShutDown, loopVars
  <2> QED
    BY <2>1, RetryKept
<1> QED
  BY <1>1, <1>2, <1>3, <1>4, <1>5, <1>6, <1>7, <1>8, <1>9, <1>10, <1>11, <1>12
  DEF LoopNext, WorkerStep

\* A key is requeued at most maxRetries times plus once for every further
\* worker, although the check and the count are not one step.
THEOREM RetryBounded == LoopSpec => []RetryBound
<1>1. LoopInit => RetryIInv
  <2> SUFFICES ASSUME LoopInit, NEW k \in Keys
               PROVE  failures[k] + Cardinality(Pending(k))
                        <= MaxRetries + Cardinality(Workers) - 1
    BY DEF RetryIInv
  <2>1. failures[k] = 0 /\ Pending(k) \subseteq Workers
    BY DEF LoopInit, Pending
  <2>2. /\ Cardinality(Pending(k)) <= Cardinality(Workers)
        /\ Cardinality(Pending(k)) \in Nat /\ Cardinality(Workers) \in Nat
    BY <2>1, WorkerCount
  <2> QED
    BY <2>1, <2>2, LoopAssumption
<1>2. LoopTypeOK /\ RetryIInv /\ [LoopNext]_loopVars => RetryIInv'
  BY RetryStep
<1>3. LoopTypeOK /\ RetryIInv => RetryBound
  <2> SUFFICES ASSUME LoopTypeOK, RetryIInv, NEW k \in Keys
               PROVE  failures[k] <= MaxRetries + Cardinality(Workers) - 1
    BY DEF RetryBound
  <2>1. Pending(k) \subseteq Workers
    BY DEF Pending
  <2>2. Cardinality(Pending(k)) \in Nat /\ Cardinality(Workers) \in Nat
    BY <2>1, WorkerCount
  <2>3. failures[k] \in Nat /\ MaxRetries \in Nat
    BY LoopAssumption DEF LoopTypeOK
  <2> QED
    BY <2>2, <2>3 DEF RetryIInv
<1> QED
  BY LoopTypeCorrect, <1>1, <1>2, <1>3, PTL DEF LoopSpec

-----------------------------------------------------------------------------
(* No retry is lost.                                                       *)

\* A worker in whose hands a key is not at its end.
Carrying(w, k) == cur[w] = k /\ pc[w] \notin {"synced", "get"}

\* A step that takes a key from nowhere it can be leaves it on its way.
LEMMA StaysOnItsWay ==
    ASSUME NEW k \in Keys, OnItsWay(k),
           dirty \subseteq dirty', waiting \subseteq waiting',
           ElementsOf(waitingForAddCh) \subseteq ElementsOf(waitingForAddCh'),
           \A w \in Workers : Carrying(w, k) => Carrying(w, k)'
    PROVE  OnItsWay(k)'
  BY DEF OnItsWay, Carrying

\* Such a step, of a worker or of an event, keeps the invariant as long as it
\* counts no failure.
LEMMA QuietStep ==
    ASSUME LoopTypeOK, NoRetryLost, shuttingDown' = shuttingDown,
           dirty \subseteq dirty', waiting \subseteq waiting',
           waitingForAddCh' = waitingForAddCh,
           \A k \in Keys : failures'[k] = failures[k] \/ failures'[k] = 0,
           \A w \in Workers, k \in Keys :
             Carrying(w, k) /\ failures'[k] # 0 /\ failures'[k] < MaxRetries
               => Carrying(w, k)'
    PROVE  NoRetryLost'
<1> SUFFICES ASSUME ~shuttingDown, NEW k \in Keys,
                    failures'[k] \in 1 .. MaxRetries - 1
             PROVE  OnItsWay(k)'
  BY DEF NoRetryLost
<1>1. failures'[k] # 0 /\ failures'[k] < MaxRetries
  BY LoopAssumption
<1>2. failures[k] \in 1 .. MaxRetries - 1
  BY <1>1
<1>3. OnItsWay(k)
  BY <1>2 DEF NoRetryLost
<1> QED
  BY <1>1, <1>3, StaysOnItsWay

\* Add takes nothing away, and unless the queue is shut down the key is dirty
\* afterwards.
LEMMA AddDelivers ==
    ASSUME NEW k \in Keys, Add(k)
    PROVE  dirty \subseteq dirty' /\ (~shuttingDown => k \in dirty')
  BY DEF Add

\* NoRetryLost is inductive, given the queue invariant: what Get takes out of
\* the dirty set is the key its worker then holds.
LEMMA DeliveryStep ==
    ASSUME LoopTypeOK, QueueInv, NoRetryLost, [LoopNext]_loopVars
    PROVE  NoRetryLost'
<1>1. ASSUME NEW k \in Keys, Enqueue(k) PROVE NoRetryLost'
  <2>1. /\ UNCHANGED <<failures, waiting, waitingForAddCh, shuttingDown, pc, cur>>
        /\ Add(k)
    BY <1>1 DEF Enqueue
  <2> QED
    BY <2>1, AddDelivers, QuietStep DEF Carrying
<1>2. ASSUME NEW f \in Keys, Fire(f) PROVE NoRetryLost'
  <2>1. /\ UNCHANGED <<failures, waitingForAddCh, shuttingDown, pc, cur>>
        /\ Add(f) /\ ~shuttingDown /\ waiting' = waiting \ {f}
    BY <1>2 DEF Fire
  <2>2. dirty \subseteq dirty' /\ f \in dirty'
    BY <2>1, AddDelivers
  <2> QED
    BY <2>1, <2>2 DEF NoRetryLost, OnItsWay
<1>3. ASSUME Receive PROVE NoRetryLost'
  <2> DEFINE h == Head(waitingForAddCh)
  <2>1. /\ UNCHANGED <<failures, shuttingDown, pc, cur>>
        /\ ~shuttingDown /\ waitingForAddCh # <<>>
        /\ waitingForAddCh' = Tail(waitingForAddCh)
    BY <1>3 DEF Receive
  <2>2. /\ h \in Keys
        /\ ElementsOf(waitingForAddCh) = ElementsOf(waitingForAddCh') \cup {h}
    BY <2>1, TakeHead DEF LoopTypeOK
  <2>3. /\ dirty \subseteq dirty' /\ waiting \subseteq waiting'
        /\ h \in dirty' \cup waiting'
    <3>1. CASE waiting' = waiting \cup {h} /\ UNCHANGED queueVars
      BY <3>1
    <3>2. CASE Add(h) /\ UNCHANGED waiting
      BY <2>1, <2>2, <3>2, AddDelivers
    <3> QED
      BY <1>3, <3>1, <3>2 DEF Receive
  <2> QED
    BY <2>1, <2>2, <2>3 DEF NoRetryLost, OnItsWay
<1>4. ASSUME NEW w \in Workers, TakeKey(w) PROVE NoRetryLost'
  <2> DEFINE h == Head(queue)
  <2>1. /\ UNCHANGED <<failures, waiting, waitingForAddCh, shuttingDown>>
        /\ dirty' = dirty \ {h} /\ pc[w] = "get"
        /\ pc' = [pc EXCEPT ![w] = "sync"] /\ cur' = [cur EXCEPT ![w] = h]
    BY <1>4 DEF TakeKey, Goto
  <2>2. /\ pc'[w] = "sync" /\ cur'[w] = h
        /\ \A v \in Workers \ {w} : pc'[v] = pc[v] /\ cur'[v] = cur[v]
    BY <2>1 DEF LoopTypeOK
  <2> QED
    BY <2>1, <2>2 DEF NoRetryLost, OnItsWay
<1>5. ASSUME NEW w \in Workers, Start(w) \/ Stop(w) PROVE NoRetryLost'
  <2>1. UNCHANGED <<failures, dirty, waiting, waitingForAddCh, shuttingDown, cur>>
    BY <1>5 DEF Start, Stop
  <2>2. cur[w] = NoKey /\ \A v \in Workers \ {w} : pc'[v] = pc[v]
    BY <1>5 DEF Start, Stop, Goto, LoopTypeOK, Keyless
  <2>3. \A v \in Workers, k \in Keys : Carrying(v, k) => Carrying(v, k)'
    BY <2>1, <2>2, LoopAssumption DEF Carrying
  <2> QED
    BY <2>1, <2>3, QuietStep
<1>6. ASSUME NEW w \in Workers, SyncOK(w) \/ SyncErr(w) PROVE NoRetryLost'
  <2>1. UNCHANGED <<failures, dirty, waiting, waitingForAddCh, shuttingDown, cur>>
    BY <1>6 DEF SyncOK, SyncErr
  <2>2. \A v \in Workers, k \in Keys : Carrying(v, k) => Carrying(v, k)'
    BY <1>6, <2>1 DEF SyncOK, SyncErr, Goto, Carrying, LoopTypeOK
  <2> QED
    BY <2>1, <2>2, QuietStep
<1>7. ASSUME NEW w \in Workers, Forget(w) PROVE NoRetryLost'
  <2>1. /\ UNCHANGED <<dirty, waiting, waitingForAddCh, shuttingDown, cur>>
        /\ failures' = [failures EXCEPT ![cur[w]] = 0]
        /\ pc' = [pc EXCEPT ![w] = "synced"]
    BY <1>7 DEF Forget, Goto
  <2>2. \A k \in Keys : failures'[k] = IF k = cur[w] THEN 0 ELSE failures[k]
    BY <2>1 DEF LoopTypeOK
  <2>3. \A v \in Workers, k \in Keys :
          Carrying(v, k) /\ failures'[k] # 0 => Carrying(v, k)'
    BY <2>1, <2>2 DEF Carrying, LoopTypeOK
  <2> QED
    BY <2>1, <2>2, <2>3, QuietStep
<1>8. ASSUME NEW w \in Workers, Done(w) PROVE NoRetryLost'
  <2>1. UNCHANGED <<failures, dirty, waiting, waitingForAddCh, shuttingDown>>
    BY <1>8 DEF Done
  <2>2. \A v \in Workers, k \in Keys : Carrying(v, k) => Carrying(v, k)'
    BY <1>8 DEF Done, Goto, Carrying, LoopTypeOK
  <2> QED
    BY <2>1, <2>2, QuietStep
<1>9. ASSUME NEW w \in Workers, CheckRequeues(w) PROVE NoRetryLost'
  <2>1. UNCHANGED <<failures, dirty, waiting, waitingForAddCh, shuttingDown>>
    BY <1>9 DEF CheckRequeues
  <2>2. \/ pc' = [pc EXCEPT ![w] = "requeue"] /\ cur' = cur
        \/ /\ failures[cur[w]] >= MaxRetries
           /\ \A v \in Workers \ {w} : pc'[v] = pc[v] /\ cur'[v] = cur[v]
    BY <1>9 DEF CheckRequeues, Goto, LoopTypeOK
  <2>3. \A k \in Keys : failures[k] \in Nat /\ MaxRetries \in Nat
    BY LoopAssumption DEF LoopTypeOK
  <2>4. \A v \in Workers, k \in Keys :
          Carrying(v, k) /\ failures[k] < MaxRetries => Carrying(v, k)'
    BY <2>2, <2>3 DEF Carrying, LoopTypeOK
  <2> QED
    BY <2>1, <2>4, QuietStep
<1>10. ASSUME NEW w \in Workers, When(w) PROVE NoRetryLost'
  <2>1. /\ UNCHANGED <<dirty, waiting, waitingForAddCh, shuttingDown, cur>>
        /\ failures' = [failures EXCEPT ![cur[w]] = @ + 1]
        /\ pc' = [pc EXCEPT ![w] = "add"]
    BY <1>10 DEF When, Goto
  <2>2. \A k \in Keys : k # cur[w] => failures'[k] = failures[k]
    BY <2>1 DEF LoopTypeOK
  <2>3. \A v \in Workers, k \in Keys : Carrying(v, k) => Carrying(v, k)'
    BY <2>1 DEF Carrying, LoopTypeOK
  <2>4. \A k \in Keys : k = cur[w] => Carrying(w, k)'
    BY <2>1 DEF Carrying, LoopTypeOK
  <2> SUFFICES ASSUME ~shuttingDown, NEW k \in Keys,
                      failures'[k] \in 1 .. MaxRetries - 1
               PROVE  OnItsWay(k)'
    BY <2>1 DEF NoRetryLost
  <2>5. CASE k = cur[w]
    BY <2>4, <2>5 DEF OnItsWay, Carrying
  <2>6. CASE k # cur[w]
    <3>1. OnItsWay(k)
      BY <2>2, <2>6 DEF NoRetryLost
    <3> QED
      BY <2>1, <2>3, <3>1, StaysOnItsWay
  <2> QED
    BY <2>5, <2>6
<1>11. ASSUME NEW w \in Workers, AddAfter(w) PROVE NoRetryLost'
  <2>1. /\ UNCHANGED <<failures, dirty, waiting, shuttingDown>>
        /\ pc[w] = "add"
        /\ \A v \in Workers \ {w} : pc'[v] = pc[v] /\ cur'[v] = cur[v]
    BY <1>11 DEF AddAfter, Goto, LoopTypeOK
  <2>2. cur[w] \in Keys
    BY <2>1, HasKey DEF Keyless
  <2>3. ~shuttingDown => waitingForAddCh' = Append(waitingForAddCh, cur[w])
    BY <1>11 DEF AddAfter
  <2>4. ~shuttingDown => ElementsOf(waitingForAddCh')
                           = ElementsOf(waitingForAddCh) \cup {cur[w]}
    BY <2>2, <2>3, AppendKey DEF LoopTypeOK
  <2> QED
    BY <2>1, <2>4 DEF NoRetryLost, OnItsWay
<1>12. ASSUME CloseStopCh \/ UNCHANGED loopVars PROVE NoRetryLost'
  <2>1. UNCHANGED <<failures, dirty, waiting, waitingForAddCh, shuttingDown,
                    pc, cur>>
    BY <1>12 DEF CloseStopCh, loopVars
  <2> QED
    BY <2>1, QuietStep DEF Carrying
<1>13. ASSUME ShutDown PROVE NoRetryLost'
  BY <1>13 DEF ShutDown, NoRetryLost
<1>14. ASSUME Restart PROVE NoRetryLost'
  BY <1>14 DEF Restart, NoRetryLost
<1> QED
  BY <1>1, <1>2, <1>3, <1>4, <1>5, <1>6, <1>7, <1>8, <1>9, <1>10, <1>11, <1>12,
     <1>13, <1>14
  DEF LoopNext, WorkerStep

\* A key whose failures are counted and not used up is on its way to another
\* sync, however many keys fail at once and however full the channel is.
THEOREM RetriesKept == LoopSpec => []NoRetryLost
<1>1. LoopInit => NoRetryLost
  BY DEF LoopInit, NoRetryLost
<1>2. LoopTypeOK /\ QueueInv /\ NoRetryLost /\ [LoopNext]_loopVars => NoRetryLost'
  BY DeliveryStep
<1> QED
  BY LoopTypeCorrect, QueueCorrect, <1>1, <1>2, PTL DEF LoopSpec

-----------------------------------------------------------------------------
(* A shutdown drains the queue.                                            *)

\* Whoever is neither waiting for a key nor busy with one.
Idle == {"start", "stopped", "skipped"}

\* What DrainedBeforeExit lacks to be inductive: a worker stops only after the
\* shutdown, so that nothing is added any more, and a worker that has not
\* entered its loop by then has nothing to do with the keys.
DrainIInv ==
    (\E w \in Workers : pc[w] = "stopped")
      => /\ shuttingDown
         /\ (\A w \in Workers : pc[w] \in Idle) => dirty = {}

\* While one worker is not idle, a step that keeps the shutdown keeps DrainIInv.
LEMMA BusyStep ==
    ASSUME DrainIInv, shuttingDown => shuttingDown',
           NEW w \in Workers, pc'[w] \notin Idle,
           \A v \in Workers : pc'[v] = "stopped" => pc[v] = "stopped"
    PROVE  DrainIInv'
  BY DEF DrainIInv

\* The worker that stops last finds the queue empty and no key held; after that
\* nothing is added.
LEMMA DrainStep ==
    ASSUME LoopTypeOK, QueueInv, OneWorkerPerKey, DrainIInv,
           [LoopNext]_loopVars
    PROVE  DrainIInv'
<1>1. ASSUME NEW w \in Workers,
             \/ TakeKey(w) \/ SyncOK(w) \/ SyncErr(w) \/ Forget(w) \/ Done(w)
             \/ CheckRequeues(w) \/ When(w) \/ AddAfter(w)
      PROVE  DrainIInv'
  <2>1. shuttingDown' = shuttingDown
    BY <1>1
    DEF TakeKey, SyncOK, SyncErr, Forget, Done, CheckRequeues, When, AddAfter
  <2>2. \E to \in {"sync", "forget", "failed", "synced", "get", "check",
                   "requeue", "add"} : pc' = [pc EXCEPT ![w] = to]
    BY <1>1
    DEF TakeKey, SyncOK, SyncErr, Forget, Done, CheckRequeues, When, AddAfter,
        Goto
  <2>3. pc'[w] \notin Idle
    BY <2>2 DEF Idle, LoopTypeOK
  <2>4. \A v \in Workers : pc'[v] = "stopped" => pc[v] = "stopped"
    BY <2>2 DEF LoopTypeOK
  <2> QED
    BY <2>1, <2>3, <2>4, BusyStep
<1>2. ASSUME NEW w \in Workers, Start(w) PROVE DrainIInv'
  <2>1. /\ UNCHANGED <<shuttingDown, dirty>> /\ pc[w] = "start"
        /\ pc' = [pc EXCEPT ![w] = IF stopCh THEN "skipped" ELSE "get"]
    BY <1>2 DEF Start, Goto
  <2>2. \A v \in Workers : /\ pc'[v] = "stopped" => pc[v] = "stopped"
                           /\ pc'[v] \in Idle => pc[v] \in Idle
    BY <2>1 DEF LoopTypeOK, Idle
  <2> QED
    BY <2>1, <2>2 DEF DrainIInv
<1>3. ASSUME NEW w \in Workers, Stop(w) PROVE DrainIInv'
  <2>1. /\ UNCHANGED <<shuttingDown, dirty, processing>> /\ shuttingDown
        /\ queue = <<>> /\ pc[w] = "get"
        /\ pc' = [pc EXCEPT ![w] = "stopped"]
    BY <1>3 DEF Stop, Goto
  <2>2. ASSUME \A v \in Workers : pc'[v] \in Idle
        PROVE  dirty = {}
    <3>1. \A v \in Workers : pc[v] \notin Holding
      BY <2>1, <2>2 DEF LoopTypeOK, Idle, Holding
    <3>2. processing = {}
      BY <3>1 DEF OneWorkerPerKey
    <3>3. dirty \ processing = {}
      BY <2>1 DEF QueueInv, ElementsOf
    <3> QED
      BY <3>2, <3>3
  <2> QED
    BY <2>1, <2>2 DEF DrainIInv
<1>4. ASSUME NEW k \in Keys, Enqueue(k) \/ Fire(k) PROVE DrainIInv'
  <2>1. UNCHANGED <<shuttingDown, pc>> /\ (shuttingDown => dirty' = dirty)
    BY <1>4 DEF Enqueue, Fire, Add
  <2> QED
    BY <2>1 DEF DrainIInv
<1>5. ASSUME Receive PROVE DrainIInv'
  BY <1>5 DEF Receive, DrainIInv
<1>6. ASSUME CloseStopCh \/ ShutDown \/ UNCHANGED loopVars PROVE DrainIInv'
  BY <1>6 DEF CloseStopCh, ShutDown, loopVars, DrainIInv
<1>7. ASSUME Restart PROVE DrainIInv'
  BY <1>7 DEF Restart, DrainIInv
<1> QED
  BY <1>1, <1>2, <1>3, <1>4, <1>5, <1>6, <1>7 DEF LoopNext, WorkerStep

\* When the last worker has returned after a shutdown, no key is left behind.
THEOREM ShutdownDrains == LoopSpec => []DrainedBeforeExit
<1>1. LoopInit => DrainIInv
  BY DEF LoopInit, DrainIInv
<1>2. LoopTypeOK /\ QueueInv /\ OneWorkerPerKey /\ DrainIInv
        /\ [LoopNext]_loopVars => DrainIInv'
  BY DrainStep
<1>3. OneWorkerPerKey /\ DrainIInv => DrainedBeforeExit
  <2> SUFFICES ASSUME OneWorkerPerKey, DrainIInv,
                      \E w \in Workers : pc[w] = "stopped",
                      \A w \in Workers : pc[w] \in {"stopped", "skipped"}
               PROVE  dirty = {} /\ processing = {}
    BY DEF DrainedBeforeExit
  <2>1. dirty = {}
    BY DEF DrainIInv, Idle
  <2>2. processing = {}
    BY DEF OneWorkerPerKey, Holding
  <2> QED
    BY <2>1, <2>2
<1> QED
  BY LoopTypeCorrect, QueueCorrect, <1>1, <1>2, <1>3, PTL DEF LoopSpec

-----------------------------------------------------------------------------
(* ControllerLoop implements KeyedTasks, but for fairness.                 *)

\* Add is a request, or changes nothing the clients see.
LEMMA AddIsRequest ==
    ASSUME NEW k \in Keys, Add(k), shuttingDown' = shuttingDown
    PROVE  [Tasks!Next]_(Tasks!vars)
<1>1. CASE shuttingDown \/ k \in dirty
  BY <1>1 DEF Add, Tasks!vars
<1>2. CASE ~(shuttingDown \/ k \in dirty)
  <2>1. Tasks!Request(k)
    BY <1>2 DEF Add, Tasks!Request
  <2> QED
    BY <2>1 DEF Tasks!Next
<1> QED
  BY <1>1, <1>2

\* Every step of the queue and its workers is one of the keyed tasks, or none
\* their clients can see: Get begins a task nobody is working on, Done ends one.
LEMMA TaskStep ==
    ASSUME LoopTypeOK, QueueInv, OneWorkerPerKey, [LoopNext]_loopVars
    PROVE  [Tasks!Next]_(Tasks!vars)
<1>1. ASSUME NEW k \in Keys, Enqueue(k) \/ Fire(k)
      PROVE  [Tasks!Next]_(Tasks!vars)
  <2>1. Add(k) /\ shuttingDown' = shuttingDown
    BY <1>1 DEF Enqueue, Fire
  <2> QED
    BY <2>1, AddIsRequest
<1>2. ASSUME Receive PROVE [Tasks!Next]_(Tasks!vars)
  <2> DEFINE h == Head(waitingForAddCh)
  <2>1. h \in Keys /\ shuttingDown' = shuttingDown
    BY <1>2, TakeHead DEF Receive, LoopTypeOK
  <2>2. UNCHANGED queueVars \/ Add(h)
    BY <1>2 DEF Receive
  <2>3. CASE UNCHANGED queueVars
    BY <2>1, <2>3 DEF Tasks!vars
  <2>4. CASE Add(h)
    BY <2>1, <2>4, AddIsRequest
  <2> QED
    BY <2>2, <2>3, <2>4
<1>3. ASSUME NEW w \in Workers, TakeKey(w) PROVE [Tasks!Next]_(Tasks!vars)
  <2> DEFINE h == Head(queue)
  <2>1. /\ queue # <<>> /\ dirty' = dirty \ {h}
        /\ processing' = processing \cup {h} /\ shuttingDown' = shuttingDown
    BY <1>3 DEF TakeKey
  <2>2. h \in Keys /\ h \in ElementsOf(queue)
    BY <2>1, TakeHead DEF LoopTypeOK
  <2>3. Tasks!Begin(h)
    BY <2>1, <2>2 DEF Tasks!Begin, QueueInv
  <2> QED
    BY <2>2, <2>3 DEF Tasks!Next
<1>4. ASSUME NEW w \in Workers, Done(w) PROVE [Tasks!Next]_(Tasks!vars)
  <2>1. /\ pc[w] \in {"synced", "failed"} /\ processing' = processing \ {cur[w]}
        /\ dirty' = dirty /\ shuttingDown' = shuttingDown
    BY <1>4 DEF Done, Goto
  <2>2. cur[w] \in Keys /\ cur[w] \in processing
    BY <2>1, HasKey DEF Keyless, OneWorkerPerKey, Holding
  <2>3. Tasks!End(cur[w])
    BY <2>1, <2>2 DEF Tasks!End
  <2> QED
    BY <2>2, <2>3 DEF Tasks!Next
<1>5. ASSUME NEW w \in Workers,
             \/ Start(w) \/ Stop(w) \/ SyncOK(w) \/ SyncErr(w) \/ Forget(w)
             \/ CheckRequeues(w) \/ When(w) \/ AddAfter(w)
      PROVE  [Tasks!Next]_(Tasks!vars)
  BY <1>5
  DEF Start, Stop, SyncOK, SyncErr, Forget, CheckRequeues, When, AddAfter,
      Tasks!vars
<1>6. ASSUME CloseStopCh \/ UNCHANGED loopVars PROVE [Tasks!Next]_(Tasks!vars)
  BY <1>6 DEF CloseStopCh, loopVars, Tasks!vars
<1>7. ASSUME ShutDown PROVE [Tasks!Next]_(Tasks!vars)
  BY <1>7 DEF ShutDown, Tasks!Next, Tasks!Halt
<1>8. ASSUME Restart PROVE [Tasks!Next]_(Tasks!vars)
  BY <1>8 DEF Restart, Tasks!Next, Tasks!Restart
<1> QED
  BY <1>1, <1>2, <1>3, <1>4, <1>5, <1>6, <1>7, <1>8 DEF LoopNext, WorkerStep

\* What the clients of the queue see is a behaviour of KeyedTasks, with any
\* number of keys and workers; that requested keys are begun needs fairness and
\* is left to TLC.
THEOREM LoopStepsAreTasks == LoopSpec => Tasks!Init /\ [][Tasks!Next]_(Tasks!vars)
<1>1. LoopInit => Tasks!Init
  BY DEF LoopInit, Tasks!Init
<1>2. LoopTypeOK /\ QueueInv /\ OneWorkerPerKey /\ [LoopNext]_loopVars
        => [Tasks!Next]_(Tasks!vars)
  BY TaskStep
<1> QED
  BY LoopTypeCorrect, QueueCorrect, <1>1, <1>2, PTL DEF LoopSpec
=============================================================================
