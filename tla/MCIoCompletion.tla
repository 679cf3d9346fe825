--------------------------- MODULE MCIoCompletion ---------------------------
(* IoCompletion with two port threads, two tasks and one operation: a thread   *)
(* can drain both tasks while the other serves the packet of the second.       *)
EXTENDS IoCompletion

CONSTANTS nobody, noTask, noHandler, r1, r2, t1, t2, c1

NoThreads == {}
TwoThreads == {r1, r2}
TwoTasks == {t1, t2}
OneContext == {c1}
=============================================================================
