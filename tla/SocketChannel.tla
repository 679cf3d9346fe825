--------------------------- MODULE SocketChannel ---------------------------
(* A socket_channel over the overlapped operations of socket: connect or       *)
(* accept, send_buffer/send/send_completed, recv/recv_completed, and what       *)
(* happens when the connection fails, is reset or is shut down by the peer.     *)
(* One thread is in run_loop and runs every completion and the user's handler;  *)
(* the main thread opens the channel and may send as well, and send() runs on   *)
(* whichever thread called it, one access at a time.                            *)
EXTENDS Integers, Sequences, SequencesExt

CONSTANTS Roles,         \* subset of {"connect", "accept"}
          Systems,       \* how WSASend returns: a set of subsets of {"sync", "pending"}
          MaxSends,      \* bound on the send_buffer calls
          PeerSends      \* bound on the chunks the peer sends

ASSUME BoundsAssumption == /\ Roles \subseteq {"connect", "accept"}
                           /\ \A s \in Systems : s \subseteq {"sync", "pending"} /\ s # {}
                           /\ MaxSends \in Nat /\ PeerSends \in Nat

Thread == {"main", "io"}

VARIABLES
  role, modes,  \* the members of Roles and Systems this behaviour has
  link,         \* "closed", "opening", "up", "failed", "reset", "shut"
  connected,    \* connected_flag_
  send_buffer,  \* send_buffer_
  context,      \* send_context_.buffer
  s_pending,    \* send_context_.is_pending
  pc,           \* per thread, where it is in send(), or in the call that opens
  sending,      \* the system: pending sends, what each was given
  wire,         \* what was sent
  arrived,      \* received by the system, not read
  receiving,    \* the system: a recv is pending
  packets,      \* the port: <<kind, data>>
  recv_buffer,  \* recv_buffer_
  r_pending, r_type,  \* recv_context_.is_pending and .type
  todo,         \* what the I/O thread has left to call for the packet at hand
  accepted,     \* history: chunks given to send_buffer
  incoming,     \* history: chunks the peer sent
  taken,        \* history: chunks recv_buffer() returned
  told,         \* history: what get_type() was when the handler last ran
  raced,        \* history: both threads used the send context: both were in send(), or
                \* the I/O thread handled a completion of it while the main thread was
                \* starting an operation with it
  overtaken     \* history: the completion of accept() was handled before the main thread
                \* had noted that accept() pends

sendVars == <<send_buffer, context, s_pending, pc, sending, wire, accepted>>
recvVars == <<arrived, receiving, recv_buffer, r_pending, r_type, incoming, taken>>
fixed == <<role, modes>>
races == <<raced, overtaken>>
vars == <<fixed, link, connected, sendVars, recvVars, packets, todo, told, races>>

Init == /\ role \in Roles /\ modes \in Systems
        /\ link = "closed" /\ connected = FALSE
        /\ send_buffer = << >> /\ context = << >> /\ s_pending = FALSE
        /\ pc = [t \in Thread |-> "idle"] /\ sending = << >> /\ wire = << >>
        /\ arrived = << >> /\ receiving = FALSE /\ packets = << >>
        /\ recv_buffer = << >> /\ r_pending = FALSE /\ r_type = "unknown"
        /\ todo = << >>
        /\ accepted = << >> /\ incoming = << >> /\ taken = << >>
        /\ told = "nothing" /\ raced = FALSE /\ overtaken = FALSE

Dead == link \in {"failed", "reset"}

-----------------------------------------------------------------------------
(* Opening. *)

\* send_buffer before connect() or accept(): send() finds no connection
SendEarly == /\ link = "closed" /\ Len(accepted) < MaxSends
             /\ accepted' = Append(accepted, Len(accepted) + 1)
             /\ send_buffer' = Append(send_buffer, Len(accepted) + 1)
             /\ UNCHANGED <<fixed, link, connected, context, s_pending, pc, sending, wire,
                            recvVars, packets, todo, told, races>>

\* connect(): what was sent early goes along; both calls pend
Open == /\ link = "closed" /\ link' = "opening"
        /\ pc' = [pc EXCEPT !["main"] = "opening"]
        /\ \/ /\ role = "connect"
              /\ context' = send_buffer /\ send_buffer' = << >>
              /\ UNCHANGED r_type
           \/ /\ role = "accept" /\ r_type' = "create"
              /\ UNCHANGED <<context, send_buffer>>
        /\ UNCHANGED <<fixed, connected, s_pending, sending, wire, arrived, receiving,
                       recv_buffer, r_pending, incoming, taken, accepted, packets, todo,
                       told, races>>

\* the main thread learns that the call pends, and notes it in its context
MarkOpening == /\ pc["main"] = "opening" /\ pc' = [pc EXCEPT !["main"] = "idle"]
               /\ \/ /\ role = "connect" /\ s_pending' = TRUE /\ UNCHANGED r_pending
                  \/ /\ role = "accept" /\ r_pending' = TRUE /\ UNCHANGED s_pending
               /\ UNCHANGED <<fixed, link, connected, send_buffer, context, sending, wire,
                              accepted, arrived, receiving, recv_buffer, r_type, incoming,
                              taken, packets, todo, told, races>>

\* the peer is there: ConnectEx sends the buffer, AcceptEx waits for a first chunk
SystemOpens == /\ link = "opening" /\ link' = "up"
               /\ wire' = context
               /\ \/ /\ role = "connect" /\ packets' = Append(packets, <<"opened", << >> >>)
                     /\ UNCHANGED incoming
                  \/ /\ role = "accept" /\ PeerSends > 0 /\ incoming' = <<1>>
                     /\ packets' = Append(packets, <<"opened", <<1>> >>)
               /\ UNCHANGED <<fixed, connected, send_buffer, context, s_pending, pc, sending,
                              accepted, arrived, receiving, recv_buffer, r_pending, r_type,
                              taken, todo, told, races>>

\* AcceptEx leaves its buffer at full size
SystemRefuses == /\ link = "opening" /\ link' = "failed"
                 /\ packets' = Append(packets, <<"refused", IF role = "accept" THEN <<0>> ELSE << >> >>)
                 /\ UNCHANGED <<fixed, connected, sendVars, recvVars, todo, told, races>>

-----------------------------------------------------------------------------
(* send_buffer and send, on either thread. *)

InSend(t) == pc[t] \in {"send", "swap", "start", "mark"}

EntersSend(t) == /\ pc' = [pc EXCEPT ![t] = "send"]
                 /\ raced' = (raced \/ \E other \in Thread \ {t} : InSend(other))
                 /\ UNCHANGED overtaken

\* append under send_mutex_, then send()
Accepts(t) == /\ Len(accepted) < MaxSends
              /\ accepted' = Append(accepted, Len(accepted) + 1)
              /\ send_buffer' = Append(send_buffer, Len(accepted) + 1)
              /\ EntersSend(t)

SendBuffer == /\ link # "closed" /\ pc["main"] = "idle"
              /\ Accepts("main")
              /\ UNCHANGED <<fixed, link, connected, context, s_pending, sending, wire,
                             recvVars, packets, todo, told>>

TestPending(t) ==
  /\ pc[t] = "send"
  /\ pc' = [pc EXCEPT ![t] = IF s_pending \/ ~connected THEN "idle" ELSE "swap"]
  /\ UNCHANGED <<fixed, link, connected, send_buffer, context, s_pending, sending, wire,
                 accepted, recvVars, packets, todo, told, races>>

\* (mutant) the swapped-in old contents stay
NotCleared == context

\* after the swap: send_buffer_.clear()
Cleared == << >>

\* (mutant) an empty buffer is sent as well
SwapEmpty(t) ==
  /\ pc[t] = "swap" /\ pc' = [pc EXCEPT ![t] = "start"]
  /\ context' = send_buffer /\ send_buffer' = Cleared
  /\ UNCHANGED <<fixed, link, connected, s_pending, sending, wire, accepted,
                 recvVars, packets, todo, told, races>>

\* under send_mutex_
Swap(t) == /\ pc[t] = "swap"
           /\ \/ /\ send_buffer = << >> /\ pc' = [pc EXCEPT ![t] = "idle"]
                 /\ UNCHANGED <<send_buffer, context>>
              \/ /\ send_buffer # << >> /\ pc' = [pc EXCEPT ![t] = "start"]
                 /\ context' = send_buffer /\ send_buffer' = Cleared
           /\ UNCHANGED <<fixed, link, connected, s_pending, sending, wire, accepted,
                          recvVars, packets, todo, told, races>>

\* socket::send: WSASend finishes at once (its packet comes all the same), pends,
\* or fails, which calls the handler from here
WSASend(t) ==
  /\ pc[t] = "start"
  /\ \/ /\ ~Dead /\ "sync" \in modes /\ sending = << >>
        /\ wire' = wire \o context
        /\ packets' = Append(packets, <<"written", context>>)
        /\ pc' = [pc EXCEPT ![t] = "idle"]
        /\ UNCHANGED <<sending, todo, told>>
     \/ /\ ~Dead /\ ("pending" \in modes \/ sending # << >>)
        /\ sending' = Append(sending, context)
        /\ pc' = [pc EXCEPT ![t] = "mark"]
        /\ UNCHANGED <<wire, packets, todo, told>>
     \/ /\ Dead
        /\ pc' = [pc EXCEPT ![t] = "idle"]
        /\ todo' = IF t = "io" THEN << "handler" >> \o todo ELSE todo
        /\ told' = IF t = "main" THEN r_type ELSE told
        /\ UNCHANGED <<sending, wire, packets>>
  /\ UNCHANGED <<fixed, link, connected, send_buffer, context, s_pending, accepted,
                 recvVars, races>>

\* after WSASend: is_pending = true
MarkSend(t) == /\ pc[t] = "mark" /\ pc' = [pc EXCEPT ![t] = "idle"]
               /\ s_pending' = TRUE
               /\ UNCHANGED <<fixed, link, connected, send_buffer, context, sending, wire,
                              accepted, recvVars, packets, todo, told, races>>

Resized(buffer, n) == [i \in 1 .. n |-> IF i <= Len(buffer) THEN buffer[i] ELSE 0]

\* the system sends what the buffer it was given holds by now
SystemSends == /\ sending # << >> /\ ~Dead
               /\ wire' \in {wire \o Head(sending),
                             wire \o Resized(context, Len(Head(sending)))}
               /\ sending' = Tail(sending)
               /\ packets' = Append(packets, <<"written", Head(sending)>>)
               /\ UNCHANGED <<fixed, link, connected, send_buffer, context, s_pending, pc,
                              accepted, recvVars, todo, told, races>>

-----------------------------------------------------------------------------
(* The peer. *)

PeerSendsChunk ==
  /\ link = "up" /\ Len(incoming) < PeerSends
  /\ incoming' = Append(incoming, Len(incoming) + 1)
  /\ \/ /\ receiving /\ receiving' = FALSE
        /\ packets' = Append(packets, <<"read", <<Len(incoming) + 1>> >>)
        /\ UNCHANGED arrived
     \/ /\ ~receiving /\ arrived' = Append(arrived, Len(incoming) + 1)
        /\ UNCHANGED <<receiving, packets>>
  /\ UNCHANGED <<fixed, link, connected, sendVars, recv_buffer, r_pending, r_type, taken,
                 todo, told, races>>

\* the peer has nothing more to send: a pending recv ends with no bytes
PeerShuts == /\ link = "up" /\ link' = "shut"
             /\ receiving' = FALSE
             /\ packets' = IF receiving THEN Append(packets, <<"read", << >> >>) ELSE packets
             /\ UNCHANGED <<fixed, connected, sendVars, arrived, recv_buffer, r_pending,
                            r_type, incoming, taken, todo, told, races>>

PeerResets == /\ link \in {"up", "shut"} /\ link' = "reset"
              /\ arrived' = << >>
              /\ UNCHANGED <<fixed, connected, sendVars, receiving, recv_buffer, r_pending,
                             r_type, incoming, taken, packets, todo, told, races>>

\* the pending operations of a reset connection fail one by one
SystemBreaks == /\ link = "reset"
                /\ \/ /\ sending # << >> /\ sending' = Tail(sending)
                      /\ packets' = Append(packets, <<"broken write", << >> >>)
                      /\ UNCHANGED receiving
                   \/ /\ receiving /\ receiving' = FALSE
                      /\ packets' = Append(packets, <<"broken read", << >> >>)
                      /\ UNCHANGED sending
                /\ UNCHANGED <<fixed, link, connected, send_buffer, context, s_pending, pc,
                               wire, accepted, arrived, recv_buffer, r_pending, r_type,
                               incoming, taken, todo, told, races>>

-----------------------------------------------------------------------------
(* The I/O thread. *)

Packet(kind) == /\ todo = << >> /\ pc["io"] = "idle"
                /\ packets # << >> /\ Head(packets)[1] = kind

Data == Head(packets)[2]

\* a completion of the send context is handled while the main thread starts a send
HandledInSend == /\ raced' = (raced \/ pc["main"] \in {"start", "mark"})
                 /\ UNCHANGED overtaken

\* io_completed or io_broken of the opening call, then connect_completed, which
\* does not look at the type: a refused connection counts as connected
Opened(kind) ==
  /\ Packet(kind) /\ packets' = Tail(packets)
  /\ connected' = TRUE
  /\ raced' = (raced \/ (role = "connect" /\ pc["main"] = "opening"))
  /\ overtaken' = (overtaken \/ (role = "accept" /\ pc["main"] = "opening"))
  /\ s_pending' = (s_pending /\ role = "accept")
  /\ r_pending' = (r_pending /\ role = "connect")
  /\ r_type' = IF kind = "refused" /\ role = "accept" THEN "broken" ELSE r_type
  /\ recv_buffer' = Data
  /\ todo' = << "handler", "send", "recv" >>
  /\ UNCHANGED <<fixed, link, send_buffer, context, pc, sending, wire, accepted, arrived,
                 receiving, incoming, taken, told>>

\* (mutant) is_pending is not reset
SendCompletedPending ==
  /\ Packet("written") /\ packets' = Tail(packets)
  /\ context' = Resized(context, Len(Data)) /\ HandledInSend
  /\ todo' = << "send" >>
  /\ UNCHANGED <<fixed, link, connected, send_buffer, s_pending, pc, sending, wire, accepted,
                 recvVars, told>>

\* io_completed cuts the buffer to what was sent, then send_completed
SendCompleted ==
  /\ Packet("written") /\ packets' = Tail(packets)
  /\ s_pending' = FALSE /\ HandledInSend
  /\ context' = Resized(context, Len(Data))
  /\ todo' = << "send" >>
  /\ UNCHANGED <<fixed, link, connected, send_buffer, pc, sending, wire, accepted, recvVars,
                 told>>

\* (mutant) the chunk replaces what recv_buffer() has not returned yet
Replaced(data) == data

\* appended under recv_mutex_
Joined(data) == recv_buffer \o data

\* (mutant) the next recv is not started
RecvCompletedOnce ==
  /\ Packet("read") /\ packets' = Tail(packets)
  /\ r_pending' = FALSE
  /\ recv_buffer' = Joined(Data)
  /\ todo' = << "handler" >>
  /\ UNCHANGED <<fixed, link, connected, sendVars, arrived, receiving, r_type, incoming,
                 taken, told, races>>

\* io_completed, then recv_completed: keep the bytes, handler, recv
RecvCompleted ==
  /\ Packet("read") /\ packets' = Tail(packets)
  /\ r_pending' = FALSE
  /\ recv_buffer' = Joined(Data)
  /\ todo' = << "handler", "recv" >>
  /\ UNCHANGED <<fixed, link, connected, sendVars, arrived, receiving, r_type, incoming,
                 taken, told, races>>

\* (mutant) io_broken is not passed on
BrokenQuietly(kind) ==
  /\ Packet(kind) /\ packets' = Tail(packets)
  /\ UNCHANGED <<fixed, link, connected, sendVars, recvVars, todo, told, races>>

\* io_broken, then closed()
Broken(kind) ==
  /\ Packet(kind) /\ packets' = Tail(packets)
  /\ \/ /\ kind = "broken write" /\ s_pending' = FALSE /\ HandledInSend
        /\ UNCHANGED <<r_pending, r_type>>
     \/ /\ kind = "broken read" /\ r_pending' = FALSE /\ r_type' = "broken"
        /\ UNCHANGED <<s_pending, races>>
  /\ todo' = << "handler" >>
  /\ UNCHANGED <<fixed, link, connected, send_buffer, context, pc, sending, wire, accepted,
                 arrived, receiving, recv_buffer, incoming, taken, told>>

Calls(call) == todo # << >> /\ Head(todo) = call /\ pc["io"] = "idle"

\* the user's handler may take what was received and may send a chunk
Handler == /\ Calls("handler") /\ todo' = Tail(todo)
           /\ told' = r_type
           /\ \/ UNCHANGED <<taken, recv_buffer>>
              \/ taken' = taken \o recv_buffer /\ recv_buffer' = << >>
           /\ \/ UNCHANGED <<accepted, send_buffer, pc, races>>
              \/ Accepts("io")
           /\ UNCHANGED <<fixed, link, connected, context, s_pending, sending, wire, arrived,
                          receiving, r_pending, r_type, incoming, packets>>

CallSend == /\ Calls("send") /\ todo' = Tail(todo)
            /\ EntersSend("io")
            /\ UNCHANGED <<fixed, link, connected, send_buffer, context, s_pending, sending,
                           wire, accepted, recvVars, packets, told>>

\* recv(): WSARecv finishes at once, pends, or fails, which calls the handler
CallRecv ==
  /\ Calls("recv")
  /\ \/ /\ r_pending \/ ~connected
        /\ todo' = Tail(todo)
        /\ UNCHANGED <<arrived, receiving, r_pending, r_type, packets>>
     \/ /\ ~r_pending /\ connected /\ ~Dead /\ (arrived # << >> \/ link = "shut")
        /\ todo' = Tail(todo) /\ r_type' = "read"
        /\ packets' = Append(packets, <<"read", arrived>>) /\ arrived' = << >>
        /\ UNCHANGED <<receiving, r_pending>>
     \/ /\ ~r_pending /\ connected /\ link = "up" /\ arrived = << >>
        /\ todo' = Tail(todo) /\ r_type' = "read"
        /\ receiving' = TRUE /\ r_pending' = TRUE
        /\ UNCHANGED <<arrived, packets>>
     \/ /\ ~r_pending /\ connected /\ Dead
        /\ todo' = << "handler" >> \o Tail(todo) /\ r_type' = "broken"
        /\ UNCHANGED <<arrived, receiving, r_pending, packets>>
  /\ UNCHANGED <<fixed, link, connected, sendVars, recv_buffer, incoming, taken, told, races>>

Send(t) == TestPending(t) \/ Swap(t) \/ WSASend(t) \/ MarkSend(t)

IoThread == \/ Opened("opened") \/ Opened("refused") \/ SendCompleted \/ RecvCompleted
            \/ Broken("broken write") \/ Broken("broken read")
            \/ Handler \/ CallSend \/ CallRecv \/ Send("io")

Main == MarkOpening \/ Send("main")

System == SystemOpens \/ SystemRefuses \/ SystemSends \/ SystemBreaks

Next == \/ SendEarly \/ Open \/ SendBuffer \/ Main \/ IoThread
        \/ System \/ PeerSendsChunk \/ PeerShuts \/ PeerResets

Spec == Init /\ [][Next]_vars

\* ConnectEx ends, with the peer or without; AcceptEx may wait for ever
ConnectEnds == role = "connect" /\ (SystemOpens \/ SystemRefuses)

\* started calls go on, a connect ends, and a pending send ends as long as the peer's system
\* takes what is sent; peer and user may do nothing
FairSpec == /\ Spec /\ WF_vars(IoThread) /\ WF_vars(Main)
            /\ WF_vars(ConnectEnds)
            /\ WF_vars(SystemSends) /\ WF_vars(SystemBreaks)

-----------------------------------------------------------------------------
(* Properties. *)

Chunk == 0 .. MaxSends + PeerSends   \* 0 is junk

\* The type invariant of the channel, its socket and the threads.
TypeOK == /\ link \in {"closed", "opening", "up", "failed", "reset", "shut"}
          /\ connected \in BOOLEAN /\ s_pending \in BOOLEAN /\ r_pending \in BOOLEAN
          /\ receiving \in BOOLEAN /\ raced \in BOOLEAN /\ overtaken \in BOOLEAN
          /\ pc \in [Thread -> {"idle", "opening", "send", "swap", "start", "mark"}]
          /\ \A s \in {send_buffer, context, wire, arrived, recv_buffer, accepted,
                       incoming, taken} : s \in Seq(Chunk)
          /\ sending \in Seq(Seq(Chunk) \ {<< >>})
          /\ packets \in Seq({"opened", "refused", "written", "broken write", "read",
                              "broken read"} \X Seq(Chunk))
          /\ r_type \in {"unknown", "create", "read", "broken"}
          /\ told \in {"nothing", "unknown", "create", "read", "broken"}
          /\ todo \in Seq({"handler", "send", "recv"})

\* send() swaps the buffer of its context only when no send is under way: the
\* system reads the buffer it was given until the send has finished.
SwapIsEnough == sending # << >> => sending = <<context>>

Unstarted == IF \E t \in Thread : pc[t] = "start" THEN context ELSE << >>

Early == IF link = "opening" THEN context ELSE << >>

\* What send_buffer accepted is sent in that order, once: it is on the wire, with
\* the system, swapped into the context, or in send_buffer_, until the connection
\* breaks, and as long as the two threads do not use the send context together.
SentInOrder == ~Dead /\ ~raced =>
                 accepted = wire \o Early \o FlattenSeq(sending) \o Unstarted \o send_buffer

InPackets == FlattenSeq([i \in DOMAIN packets |-> IF packets[i][1] \in {"opened", "read"}
                                                   THEN packets[i][2] ELSE << >>])

\* What the peer sent comes out of recv_buffer() in order, once, until the
\* connection breaks.
ReceivedInOrder == ~Dead => incoming = taken \o recv_buffer \o InPackets \o arrived

\* A connected channel always has a recv under way, or is about to call recv(),
\* until the handler is to learn that the connection broke, whatever the threads do with
\* the send context.  The one exception: the completion of accept() was handled before
\* the thread that called it set is_pending, which recv() then finds set.
RecvGoesOn == connected /\ r_type # "broken" /\ ~overtaken =>
                \/ receiving \/ "recv" \in Range(todo)
                \/ \E i \in DOMAIN packets : packets[i][1] \in {"read", "broken read"}

\* the peer is there, or its absence will be noticed
Underway == link \notin {"closed", "opening"} \/ (link = "opening" /\ role = "connect")

\* Everything accepted by send_buffer is sent once the channel has a peer, unless the
\* connection breaks or the threads used the send context together: a completion that
\* overtakes the thread that is to note that its operation pends leaves is_pending set.
\* A connect always comes to an end, and an accept waits for a peer.
EventuallySent == \A m \in Chunk : Len(accepted) >= m /\ Underway
                                      ~> Len(wire) >= m \/ Dead \/ raced

\* A connection that failed or was reset is reported to the handler as broken,
\* unless the completion of accept() overtook the call, as above.
ResetReported == Dead ~> told = "broken" \/ overtaken
=============================================================================
