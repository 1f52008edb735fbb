----------------------------- MODULE KeyedTasks -----------------------------
(***************************************************************************)
(* What a work queue promises the controller that uses it, without queue,  *)
(* channel, heap or worker: keys are requested, a requested key that is    *)
(* not being worked on is begun, and a key is worked on by one worker at a *)
(* time (vendor/k8s.io/client-go/util/workqueue/doc.go: Fair, Stingy,      *)
(* multiple consumers and producers, shutdown notifications).              *)
(***************************************************************************)
CONSTANT Keys

VARIABLES pending,  \* requested and not begun since
          active,   \* being worked on
          down      \* no further request is accepted

vars == <<pending, active, down>>

Init == pending = {} /\ active = {} /\ down = FALSE

Request(k) ==
    /\ ~down
    /\ pending' = pending \cup {k}
    /\ UNCHANGED <<active, down>>

Begin(k) ==
    /\ k \in pending \ active
    /\ pending' = pending \ {k}
    /\ active' = active \cup {k}
    /\ UNCHANGED down

End(k) ==
    /\ k \in active
    /\ active' = active \ {k}
    /\ UNCHANGED <<pending, down>>

Halt == down' = TRUE /\ UNCHANGED <<pending, active>>

Restart == pending' = {} /\ active' = {} /\ down' = FALSE

Next ==
    \/ \E k \in Keys : Request(k) \/ Begin(k) \/ End(k)
    \/ Halt
    \/ Restart

\* Until the queue is halted a requested key is begun, whatever else is asked.
Fairness == \A k \in Keys : WF_vars(~down /\ Begin(k))

Spec == Init /\ [][Next]_vars /\ Fairness
=============================================================================
