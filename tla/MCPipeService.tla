--------------------------- MODULE MCPipeService ---------------------------
(* PipeService: a server talks on two channels, a client on its only one.     *)
EXTENDS PipeService

Talk == [create |-> 2, open |-> 5]
=============================================================================
