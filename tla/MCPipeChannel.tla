--------------------------- MODULE MCPipeChannel ---------------------------
(* PipeChannel on three messages: a header of two cells, so that a read can   *)
(* cut a header and a body.                                                   *)
EXTENDS PipeChannel

Bodies == <<1, 0, 2>>

\* every write pends on a pipe of one message; every write completes at once
Uniform == {[modes |-> {"pending"}, cells |-> 4], [modes |-> {"sync"}, cells |-> 20]}

\* a write completes at once when it fits
Mixed == {[modes |-> {"sync"}, cells |-> 4]}
=============================================================================
