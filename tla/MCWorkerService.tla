-------------------------- MODULE MCWorkerService --------------------------
(* WorkerService with two run_loop threads, one run_one thread and two tasks: *)
(* one looper can sleep while the other works, and both can wait for the      *)
(* mutex while a third thread drains the queue.                               *)
EXTENDS WorkerService

CONSTANTS nobody, noTask, l1, l2, o1, t1, t2

TwoLoopers == {l1, l2}
OneShot == {o1}
TwoTasks == {t1, t2}
=============================================================================
