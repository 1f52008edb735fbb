------------------------------ MODULE CacheFeed ------------------------------
(***************************************************************************)
(* What an informer's cache promises those who read it through a lister:   *)
(* each object is shown as it was at some moment of the API server's       *)
(* history, never as it was earlier than shown before, and as it is once   *)
(* the writes to it have ceased.  There is no list, no watch, no queue and *)
(* no relist here; SharedInformer is shown to implement this module.       *)
(***************************************************************************)
EXTENDS Naturals, Sequences

CONSTANT Keys

VARIABLES log,    \* the writes the API server has taken, in order
          cache,  \* the version of each object a lister finds, or 0 for none
          upTo    \* the point of the log that is an object's version of

vars == <<log, cache, upTo>>

\* The version of an object after the first r writes of l: the number of the
\* last of them that is about it, and 0 if it does not exist.
VersionIn(l, k, r) ==
    LET about == {i \in 1..r : l[i].key = k}
        last == CHOOSE i \in about : \A j \in about : j <= i
    IN IF about # {} /\ l[last].live THEN last ELSE 0

Stored(k, r) == VersionIn(log, k, r)

Init ==
    /\ log = <<>>
    /\ cache = [k \in Keys |-> 0]
    /\ upTo = [k \in Keys |-> 0]

\* An object is created, changed, or deleted if it exists.
Write(k) ==
    /\ \E live \in BOOLEAN :
         /\ live \/ Stored(k, Len(log)) # 0
         /\ log' = Append(log, [key |-> k, live |-> live])
    /\ UNCHANGED <<cache, upTo>>

\* The cache moves forward, over any number of writes at a time.
Refresh(k) ==
    \E r \in upTo[k] .. Len(log) :
       /\ upTo' = [upTo EXCEPT ![k] = r]
       /\ cache' = [cache EXCEPT ![k] = Stored(k, r)]
       /\ UNCHANGED log

Next == \E k \in Keys : Write(k) \/ Refresh(k)

\* What it must do in the end.
CatchUp(k) ==
    /\ cache[k] # Stored(k, Len(log))
    /\ Refresh(k)
    /\ cache'[k] = Stored(k, Len(log))

Spec == Init /\ [][Next]_vars /\ \A k \in Keys : WF_vars(CatchUp(k))
=============================================================================
