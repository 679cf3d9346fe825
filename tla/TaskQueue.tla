----------------------------- MODULE TaskQueue -----------------------------
(* What worker_service promises its callers, without threads, mutex or       *)
(* condition variable: a dispatched task waits in a queue, is started by at  *)
(* most one runner in dispatch order, and completes at most once.            *)
EXTENDS Sequences, Functions

CONSTANT Tasks      \* one member per call of dispatch

VARIABLES pending,  \* dispatched and not yet started, oldest first
          running,  \* started and not completed
          done      \* completed

vars == <<pending, running, done>>

Init == pending = << >> /\ running = {} /\ done = {}

Submit(t) == /\ t \notin Range(pending) \cup running \cup done
             /\ pending' = Append(pending, t)
             /\ UNCHANGED <<running, done>>

Start == /\ pending # << >>
         /\ running' = running \cup {Head(pending)}
         /\ pending' = Tail(pending)
         /\ UNCHANGED done

Complete(t) == /\ t \in running
               /\ running' = running \ {t}
               /\ done' = done \cup {t}
               /\ UNCHANGED pending

Next == Start \/ \E t \in Tasks : Submit(t) \/ Complete(t)

Spec == Init /\ [][Next]_vars
=============================================================================
