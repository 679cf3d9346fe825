--------------------------- MODULE MessageStream ---------------------------
(* What a pipe_message_channel promises for one direction: the messages that  *)
(* send_message accepted come out of receive_message whole, once, in order.   *)
EXTENDS Integers, Sequences

CONSTANT Messages

VARIABLES sent,      \* accepted by send_message, in order
          delivered  \* ready for or returned by receive_message, in order

vars == <<sent, delivered>>

Init == sent = << >> /\ delivered = << >>

Send(m) == sent' = Append(sent, m) /\ UNCHANGED delivered

\* one chunk of the stream may complete several messages
Deliver == /\ Len(delivered) < Len(sent)
           /\ delivered' = Append(delivered, sent[Len(delivered) + 1])
           /\ UNCHANGED sent

Next == Deliver \/ \E m \in Messages : Send(m)

Spec == Init /\ [][Next]_vars
=============================================================================
