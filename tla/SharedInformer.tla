--------------------------- MODULE SharedInformer ---------------------------
(***************************************************************************)
(* A shared informer as both controllers use them for Shoots,              *)
(* AddonInstances and AddonManifests (pkg/client/informers, with           *)
(* client-go's tools/cache under it): a reflector lists the objects of a   *)
(* resource and watches them from there on, a DeltaFIFO collects what      *)
(* happened to each key, a loop takes the deltas of one key at a time and  *)
(* applies them to the indexer the listers read, and every application is  *)
(* passed on to the event handlers through a buffer of its own.            *)
(*                                                                         *)
(* The actions are the critical sections of the FIFO's lock, which Pop     *)
(* holds while it applies the deltas of a key; one delta is applied at a   *)
(* time, as listers and handlers run in between.                           *)
(*                                                                         *)
(* The API server is a log of writes; a resourceVersion is a length of it. *)
(* Lists and watches are served by one API server, whose watch cache may   *)
(* lag but does not go back: a list is no older than what was seen before. *)
(***************************************************************************)
EXTENDS Naturals, Sequences, SequencesExt

CONSTANTS Keys,
          NamespaceOf,  \* the namespace of each key
          MaxWrites,    \* bound on the writes to the API server
          MaxBreaks,    \* bound on the watches that end
          MaxNotes,     \* bound on the handler calls a resync may add to
          Hasty         \* may a relist find the last watch's deltas unread?

ASSUME InformerAssumption ==
    /\ IsFiniteSet(Keys)
    /\ DOMAIN NamespaceOf = Keys
    /\ MaxWrites \in Nat /\ MaxBreaks \in Nat /\ MaxNotes \in Nat
    /\ Hasty \in BOOLEAN

VARIABLES log,          \* the writes the API server has taken
          stage,        \* what the reflector does
          rv,           \* its resourceVersion
          listed,       \* the resourceVersion of its last list
          breaks,       \* how often the watch has ended
          items,        \* DeltaFIFO: the deltas of each key
          queue,        \* DeltaFIFO: the keys in the order of arrival
          populated,    \* DeltaFIFO: has Replace been called?
          initialCount, \* DeltaFIFO: initialPopulationCount
          hand,         \* what Pop took out and has not applied yet
          cache,        \* the indexer: the version of each object, or 0
          upTo,         \* history: the point of the log cache[k] is from
          firstList,    \* history: the resourceVersion of the first list
          notes,        \* notifications on their way to the handlers
          seen          \* history: what the handlers were told last

reflectorVars == <<stage, rv, listed, breaks>>
fifoVars == <<items, queue, populated, initialCount>>
indexVars == <<cache, upTo>>
handlerVars == <<notes, seen>>
vars == <<log, reflectorVars, fifoVars, hand, indexVars, firstList, handlerVars>>

Feed == INSTANCE CacheFeed
Stored(k, r) == Feed!Stored(k, r)

DeltaTypes == {"Added", "Updated", "Deleted", "Sync"}
\* ver is the version of the object, 0 if it is gone, and at the point of the
\* log at which that was so.
Delta == [type : DeltaTypes, ver : Nat, at : Nat]
Note == [type : {"add", "update", "delete"}, key : Keys, ver : Nat]

TypeOK ==
    /\ log \in Seq([key : Keys, live : BOOLEAN])
    /\ stage \in {"list", "replace", "watch"}
    /\ rv \in 0..Len(log) /\ listed \in 0..Len(log) /\ firstList \in 0..Len(log)
    /\ breaks \in 0..MaxBreaks
    /\ items \in [Keys -> Seq(Delta)]
    /\ queue \in Seq(Keys)
    /\ populated \in BOOLEAN /\ initialCount \in Nat
    /\ hand \in [key : Keys, deltas : Seq(Delta)]
    /\ cache \in [Keys -> 0..Len(log)]
    /\ upTo \in [Keys -> 0..Len(log)]
    /\ notes \in Seq(Note)
    /\ seen \in [Keys -> 0..Len(log)]

Init ==
    /\ log = <<>>
    /\ stage = "list" /\ rv = 0 /\ listed = 0 /\ breaks = 0
    /\ items = [k \in Keys |-> <<>>] /\ queue = <<>>
    /\ populated = FALSE /\ initialCount = 0
    /\ \E k \in Keys : hand = [key |-> k, deltas |-> <<>>]
    /\ cache = [k \in Keys |-> 0] /\ upTo = [k \in Keys |-> 0]
    /\ firstList = 0
    /\ notes = <<>> /\ seen = [k \in Keys |-> 0]

-----------------------------------------------------------------------------
(* The listers.                                                            *)

\* Get of a namespace lister: 0 for NotFound.
ListerGet(k) == cache[k]

\* List of a namespace lister.
ListerList(ns) == {k \in Keys : NamespaceOf[k] = ns /\ cache[k] # 0}

-----------------------------------------------------------------------------
(* The API server and its client.                                          *)

Write(k) == Len(log) < MaxWrites /\ Feed!Write(k)
                /\ UNCHANGED <<reflectorVars, fifoVars, hand, firstList, handlerVars>>

\* What the client's List finds in a server that is at resourceVersion r.
Listing(r) == {k \in Keys : Stored(k, r) # 0}

\* The event the client's Watch delivers after resourceVersion r.
EventAfter(r) ==
    LET k == log[r + 1].key
    IN [key |-> k,
        delta |-> [type |-> IF ~log[r + 1].live THEN "Deleted"
                            ELSE IF Stored(k, r) = 0 THEN "Added" ELSE "Updated",
                   ver |-> Stored(k, r + 1), at |-> r + 1]]

-----------------------------------------------------------------------------
(* The DeltaFIFO.                                                          *)

LockFree == hand.deltas = <<>>

\* Deltas are kept in order; of two deletions in a row the first is kept, and
\* a Sync does not bring back what is to be deleted.
Queued(deltas, d) ==
    IF deltas # <<>> /\ Last(deltas).type = "Deleted" /\ d.type \in {"Sync", "Deleted"}
      THEN deltas ELSE Append(deltas, d)

Orders(S) == Bijection(1..Cardinality(S), S)

\* Mutant: a key is queued for every delta.
PutAllAgain(new) ==
    /\ items' = new
    /\ \E arrival \in Orders({k \in Keys : items[k] # new[k]}) :
         queue' = queue \o arrival

\* The deltas become those of new, and the keys that had none are queued, in
\* the order of a list or a map.
PutAll(new) ==
    /\ items' = new
    /\ \E arrival \in Orders({k \in Keys : items[k] = <<>> /\ new[k] # <<>>}) :
         queue' = queue \o arrival

\* Mutant: HasSynced reads the count without the lock.
HasSyncedUnlocked == populated /\ initialCount = 0

\* HasSynced waits for the lock, so it does not see Pop half-way.
HasSynced == LockFree /\ populated /\ initialCount = 0

\* Mutant: what is missing from the list is not looked for.
ReplacedWithoutDeletions(r) ==
    [k \in Keys |->
       IF k \in Listing(r)
         THEN Queued(items[k], [type |-> "Sync", ver |-> Stored(k, r), at |-> r])
       ELSE items[k]]

\* Replace: a Sync for every object listed, and a deletion for every object
\* the indexer still has.
Replaced(r) ==
    [k \in Keys |->
       IF k \in Listing(r)
         THEN Queued(items[k], [type |-> "Sync", ver |-> Stored(k, r), at |-> r])
       ELSE IF cache[k] # 0
         THEN Queued(items[k], [type |-> "Deleted", ver |-> 0, at |-> r])
       ELSE items[k]]

-----------------------------------------------------------------------------
(* The reflector.                                                          *)

\* The list is asked for with resourceVersion 0: the server may answer from
\* its watch cache, which may lag.
List ==
    /\ stage = "list"
    /\ \E r \in rv .. Len(log) : listed' = r
    /\ stage' = "replace"
    /\ UNCHANGED <<log, rv, breaks, fifoVars, hand, indexVars, firstList, handlerVars>>

\* The list is put into the FIFO, of which the loop has, in the second that the
\* reflector waits between two lists, worked off what the last watch left.
Replace ==
    /\ stage = "replace" /\ LockFree
    /\ queue = <<>> \/ Hasty
    /\ PutAll(Replaced(listed))
    /\ populated' = TRUE
    /\ initialCount' = IF populated THEN initialCount
                       ELSE Cardinality({k \in Keys : k \in Listing(listed) \/ cache[k] # 0})
    /\ firstList' = IF populated THEN firstList ELSE listed
    /\ stage' = "watch" /\ rv' = listed
    /\ UNCHANGED <<log, listed, breaks, hand, indexVars, handlerVars>>

\* An event of the watch.  A deletion of what is neither queued nor in the
\* indexer is skipped.
WatchEvent ==
    /\ stage = "watch" /\ rv < Len(log) /\ LockFree
    /\ LET e == EventAfter(rv)
           skipped == e.delta.type = "Deleted" /\ cache[e.key] = 0 /\ items[e.key] = <<>>
       IN IF skipped THEN UNCHANGED <<items, queue>>
          ELSE PutAll([items EXCEPT ![e.key] = Queued(@, e.delta)])
    /\ rv' = rv + 1
    /\ UNCHANGED <<log, stage, listed, breaks, populated, initialCount, hand,
                   indexVars, firstList, handlerVars>>

\* The watch is closed, fails, or is too old: ListAndWatch starts again.
Break ==
    /\ stage = "watch" /\ breaks < MaxBreaks
    /\ breaks' = breaks + 1
    /\ stage' = "list"
    /\ UNCHANGED <<log, rv, listed, fifoVars, hand, indexVars, firstList, handlerVars>>

\* Mutant: what is queued for an object does not stop its Sync.
ResyncAlways ==
    /\ populated /\ LockFree /\ Len(notes) <= MaxNotes
    /\ \A k \in Keys : items[k] # <<>> => Last(items[k]).type # "Sync"
    /\ PutAll([k \in Keys |->
                 IF cache[k] # 0
                   THEN Queued(items[k], [type |-> "Sync", ver |-> cache[k], at |-> upTo[k]])
                   ELSE items[k]])
    /\ UNCHANGED <<log, reflectorVars, populated, initialCount, hand, indexVars,
                   firstList, handlerVars>>

\* Every 30 s, of a goroutine of its own, which may outlive its watch: a Sync
\* of what is in the indexer, unless there is something queued for it.  The
\* last one has been worked off by then.
Resync ==
    /\ populated /\ LockFree /\ Len(notes) <= MaxNotes
    /\ \A k \in Keys : items[k] # <<>> => Last(items[k]).type # "Sync"
    /\ PutAll([k \in Keys |->
                 IF cache[k] # 0 /\ items[k] = <<>>
                   THEN <<[type |-> "Sync", ver |-> cache[k], at |-> upTo[k]]>>
                   ELSE items[k]])
    /\ UNCHANGED <<log, reflectorVars, populated, initialCount, hand, indexVars,
                   firstList, handlerVars>>

-----------------------------------------------------------------------------
(* The controller's loop, the indexer and the processor.                   *)

\* Mutant: the count goes on down after the first list.
PopCountsDown ==
    /\ queue # <<>> /\ LockFree
    /\ hand' = [key |-> Head(queue), deltas |-> items[Head(queue)]]
    /\ items' = [items EXCEPT ![Head(queue)] = <<>>]
    /\ queue' = Tail(queue)
    /\ initialCount' = initialCount - 1
    /\ UNCHANGED <<log, reflectorVars, populated, indexVars, firstList, handlerVars>>

\* The lock is taken, and a key with all its deltas.
Pop ==
    /\ queue # <<>> /\ LockFree
    /\ hand' = [key |-> Head(queue), deltas |-> items[Head(queue)]]
    /\ items' = [items EXCEPT ![Head(queue)] = <<>>]
    /\ queue' = Tail(queue)
    /\ initialCount' = IF initialCount > 0 THEN initialCount - 1 ELSE 0
    /\ UNCHANGED <<log, reflectorVars, populated, indexVars, firstList, handlerVars>>

\* Mutant: no listener is due for a resync, so none is told of a Sync.
HandleDeltaQuietly ==
    /\ ~LockFree
    /\ LET d == Head(hand.deltas)
           k == hand.key
           type == IF d.type = "Deleted" THEN "delete"
                   ELSE IF cache[k] # 0 THEN "update" ELSE "add"
       IN /\ cache' = [cache EXCEPT ![k] = d.ver]
          /\ upTo' = [upTo EXCEPT ![k] = d.at]
          /\ notes' = IF d.type = "Sync" THEN notes
                      ELSE Append(notes, [type |-> type, key |-> k, ver |-> d.ver])
    /\ hand' = [hand EXCEPT !.deltas = Tail(@)]
    /\ UNCHANGED <<log, reflectorVars, fifoVars, firstList, seen>>

\* One turn of HandleDeltas: the indexer is changed, the handlers are told.
HandleDelta ==
    /\ ~LockFree
    /\ LET d == Head(hand.deltas)
           k == hand.key
           type == IF d.type = "Deleted" THEN "delete"
                   ELSE IF cache[k] # 0 THEN "update" ELSE "add"
       IN /\ cache' = [cache EXCEPT ![k] = d.ver]
          /\ upTo' = [upTo EXCEPT ![k] = d.at]
          /\ notes' = Append(notes, [type |-> type, key |-> k, ver |-> d.ver])
    /\ hand' = [hand EXCEPT !.deltas = Tail(@)]
    /\ UNCHANGED <<log, reflectorVars, fifoVars, firstList, seen>>

\* OnAdd, OnUpdate or OnDelete of the handler.
CallHandler ==
    /\ notes # <<>>
    /\ seen' = [seen EXCEPT ![Head(notes).key] = Head(notes).ver]
    /\ notes' = Tail(notes)
    /\ UNCHANGED <<log, reflectorVars, fifoVars, hand, indexVars, firstList>>

Next ==
    \/ \E k \in Keys : Write(k)
    \/ List \/ Replace \/ WatchEvent \/ Break \/ Resync
    \/ Pop \/ HandleDelta \/ CallHandler

\* The reflector, the loop and the processor each go on when they can; the API
\* server answers.  The reflector gets the FIFO's lock although resyncs and the
\* loop ask for it again and again: a resync is due only every 30 s, and Go's
\* mutex is not unfair for ever.  Nothing forces a write, a broken watch or a
\* resync.
Fairness ==
    /\ WF_vars(List) /\ SF_vars(Replace) /\ SF_vars(WatchEvent)
    /\ WF_vars(Pop) /\ WF_vars(HandleDelta) /\ WF_vars(CallHandler)

Spec == Init /\ [][Next]_vars /\ Fairness

-----------------------------------------------------------------------------
(* Properties.                                                             *)

\* delta_fifo.go: "items in the set are in the queue and vice versa", each
\* once: a key queued twice, or not at all, would be applied out of order or
\* never.
FifoConsistent ==
    /\ \A i, j \in 1..Len(queue) : queue[i] = queue[j] => i = j
    /\ \A k \in Keys : items[k] # <<>> <=> \E i \in 1..Len(queue) : queue[i] = k

\* What the handlers know when they have been told the first n notifications:
\* of each object what the last of them about it says.
Told(n) ==
    [k \in Keys |->
       LET about == {i \in 1..n : notes[i].key = k}
       IN IF about = {} THEN seen[k]
          ELSE notes[CHOOSE i \in about : \A j \in about : j <= i].ver]

\* No change of the cache is kept from the handlers: what they were told, with
\* what is on its way to them, is the cache; and they are told of additions,
\* updates and deletions as such, whatever lists, watches and resyncs the
\* change came by.
HandlersFollowCache ==
    /\ Told(Len(notes)) = [k \in Keys |-> ListerGet(k)]
    /\ \A n \in 1..Len(notes) :
         LET known == Told(n - 1)[notes[n].key] # 0
         IN notes[n].type = "add" <=> ~known

\* Once HasSynced answers yes, on which the controllers start their workers,
\* what the first list held is in the cache, or something later is.
SyncedMeansListed ==
    HasSynced =>
      \A k \in Listing(firstList) :
         upTo[k] > firstList \/ k \in ListerList(NamespaceOf[k])

\* What a lister finds is what was once stored, it never goes back, and it
\* catches up with the API server.
ImplementsCacheFeed == Feed!Spec

\* When the writes have ceased, the handlers have been told the final state of
\* every object, also of one whose deletion no watch reported.
HandlersInformed ==
    \A k \in Keys : <>[](seen[k] = Stored(k, Len(log)))
=============================================================================
