----------------------------- MODULE MCLogging -----------------------------
(* Logging with two threads that log; one of them and a third release the log  *)
(* manager.                                                                    *)
EXTENDS Logging

CONSTANTS l1, l2, r, a1, a2

TwoLoggers == {l1, l2}
TwoReleasers == {r, l1}
TwoAddresses == {a1, a2}
AllThreads == {l1, l2, r}
=============================================================================
