---------------------------- MODULE PipeChannel ----------------------------
(* One direction of a pair of pipe_message_channel objects, from the connect   *)
(* of each end on: the sender's send_message/send/send_completed, a byte-mode  *)
(* named pipe, and the receiver's receive/receive_completed/receive_message.   *)
(* Either end is the server, which created the pipe; the client opened it.     *)
(* Each end has one thread in io_completion_service::run_loop, which runs      *)
(* every handler and every task of its io_completion_worker; user threads push *)
(* and pop messages.  The stream is cut into cells; a message is HeadCells     *)
(* cells of header (pipe_message_head) and the cells of its body.              *)
EXTENDS Integers, Sequences, SequencesExt

CONSTANTS HeadCells,   \* sizeof(pipe_message_head), in cells
          BodyCells,   \* body length of each message, in cells
          ReadCells,   \* file::default_buffer_size, in cells
          Systems      \* how the system may behave: records [modes, cells], where modes
                       \* says how WriteFile returns and cells what the pipe can hold

Messages == DOMAIN BodyCells

ASSUME SizesAssumption == /\ HeadCells \in Nat \ {0} /\ ReadCells \in Nat \ {0}
                          /\ \A m \in Messages : BodyCells[m] \in Nat
ASSUME SystemsAssumption ==
  \A s \in Systems : /\ s.modes \subseteq {"sync", "pending"} /\ s.modes # {}
                     /\ s.cells \in Nat
                     /\ \A m \in Messages : s.cells >= HeadCells + BodyCells[m]

VARIABLES
  \* both ends
  server,         \* the end that created the pipe
  link,           \* per end, its connect(): "none" (not opened yet), "new" (its task is
                  \* queued), "waiting" (ConnectNamedPipe pends), "packet", "up"
  \* the sender
  sent,           \* history: messages accepted by send_message
  send_queue,     \* send_queue_
  unposted,       \* send_message calls between the push and the dispatch
  send_tasks,     \* send() tasks in the worker's queue
  w_pending,      \* write_context_.is_pending
  w_buffer,       \* the message whose bytes write_context_.buffer holds, or 0
  \* the system
  system,         \* the member of Systems this behaviour runs on
  writes,         \* pending writes, oldest first
  w_packets,      \* completed writes whose packet has not been handled
  pipe,           \* cells written and not read
  \* the receiver
  read,           \* the read in flight: "none", "system" (pending), "packet"
  r_pending,      \* read_context_.is_pending
  read_data,      \* the cells it got
  r_buffer,       \* read_context_.buffer
  offset,         \* receive_completed's local offset
  parsing,        \* the I/O thread is in the loop of receive_completed
  receive_queue,  \* receive_queue_
  received        \* history: what receive_message returned

senderVars == <<sent, send_queue, unposted, send_tasks, w_pending, w_buffer, writes, w_packets>>
receiverVars == <<read, r_pending, read_data, r_buffer, offset, parsing, receive_queue, received>>
vars == <<server, link, senderVars, system, pipe, receiverVars>>

End == {"sender", "receiver"}

\* the end that opens the pipe
Client == CHOOSE end \in End : end # server

Init == /\ sent = << >> /\ send_queue = << >> /\ unposted = 0 /\ send_tasks = 0
        /\ server \in End /\ link = [end \in End |-> IF end = server THEN "new" ELSE "none"]
        /\ w_pending = FALSE /\ w_buffer = 0
        /\ system \in Systems
        /\ writes = << >> /\ w_packets = 0 /\ pipe = << >>
        /\ read = "none" /\ r_pending = FALSE /\ read_data = << >> /\ r_buffer = << >>
        /\ offset = 0 /\ parsing = FALSE
        /\ receive_queue = << >> /\ received = << >>

-----------------------------------------------------------------------------
(* Bytes. *)

Junk == <<0, 0>>     \* memory outside any message

Size(m) == HeadCells + BodyCells[m]

Cells(m) == [i \in 1 .. Size(m) |-> <<m, i>>]

\* what a write of message m may find in a buffer that now holds message b
BytesAt(m, b) == [i \in 1 .. Size(m) |-> IF i <= Size(b) THEN <<b, i>> ELSE Junk]

-----------------------------------------------------------------------------
(* Sending. *)

\* user thread: push under send_mutex_, then dispatch send()
SendMessage(m) == /\ m = Len(sent) + 1 /\ link["sender"] # "none"
                  /\ sent' = Append(sent, m)
                  /\ send_queue' = Append(send_queue, m)
                  /\ unposted' = unposted + 1
                  /\ UNCHANGED <<send_tasks, server, link, system, w_pending, w_buffer, writes,
                                 w_packets, pipe, receiverVars>>

DispatchSend == /\ unposted > 0
                /\ unposted' = unposted - 1 /\ send_tasks' = send_tasks + 1
                /\ UNCHANGED <<sent, send_queue, server, link, system, w_pending, w_buffer, writes,
                               w_packets, pipe, receiverVars>>

Fits(m) == Len(pipe) + Size(m) <= system.cells

\* file::write.  WriteFile finishes at once, which queues a packet and leaves
\* is_pending alone, or it pends; it cannot overtake a pending write.
Write(m, pending, packets) ==
  /\ w_buffer' = m
  /\ \/ /\ "sync" \in system.modes /\ Fits(m) /\ writes = << >>
        /\ pipe' = pipe \o Cells(m) /\ w_packets' = packets + 1
        /\ w_pending' = pending /\ UNCHANGED writes
     \/ /\ "pending" \in system.modes \/ ~Fits(m) \/ writes # << >>
        /\ writes' = Append(writes, m) /\ w_pending' = TRUE
        /\ w_packets' = packets /\ UNCHANGED pipe

\* (mutant) send() does not look at is_pending
SendAnyway(pending, up, packets) ==
  \/ /\ ~up \/ send_queue = << >>
     /\ w_pending' = pending /\ w_packets' = packets
     /\ UNCHANGED <<send_queue, w_buffer, writes, pipe>>
  \/ /\ up /\ send_queue # << >>
     /\ send_queue' = Tail(send_queue)
     /\ Write(Head(send_queue), pending, packets)

\* send(), entered with the given is_pending, connected_flag_ and packet count
Send(pending, up, packets) ==
  \/ /\ pending \/ ~up \/ send_queue = << >>
     /\ w_pending' = pending /\ w_packets' = packets
     /\ UNCHANGED <<send_queue, w_buffer, writes, pipe>>
  \/ /\ ~pending /\ up /\ send_queue # << >>
     /\ send_queue' = Tail(send_queue)
     /\ Write(Head(send_queue), pending, packets)

\* connected_flag_: opening the pipe sets it, or connect
Connected(end) == end # server \/ link[end] = "up"

\* a send() task of the worker: the connect task was queued before it
RunSend == /\ send_tasks > 0 /\ send_tasks' = send_tasks - 1
           /\ link["sender"] # "new"
           /\ Send(w_pending, Connected("sender"), w_packets)
           /\ UNCHANGED <<sent, unposted, server, link, system, receiverVars>>

\* (mutant) a completion without a packet
WriteCompletedUnasked == /\ Send(FALSE, Connected("sender"), w_packets - 1)
                         /\ UNCHANGED <<sent, unposted, send_tasks, server, link, system,
                                        receiverVars>>

\* (mutant) send_completed does not go on with the queue
WriteCompletedQuietly == /\ w_packets > 0 /\ w_packets' = w_packets - 1
                         /\ w_pending' = FALSE
                         /\ UNCHANGED <<sent, send_queue, unposted, send_tasks, server, link,
                                        system, w_buffer, writes, pipe, receiverVars>>

\* io_completed for a write clears is_pending, then send_completed calls send
WriteCompleted == /\ w_packets > 0
                  /\ Send(FALSE, Connected("sender"), w_packets - 1)
                  /\ UNCHANGED <<server, link, sent, unposted, send_tasks, system, receiverVars>>

\* the system finishes the oldest pending write; the bytes it takes are the
\* message's only if its buffer still holds them
SystemWrite == /\ writes # << >> /\ Fits(Head(writes))
               /\ \E bytes \in {Cells(Head(writes)), BytesAt(Head(writes), w_buffer)} :
                    pipe' = pipe \o bytes
               /\ writes' = Tail(writes) /\ w_packets' = w_packets + 1
               /\ UNCHANGED <<sent, send_queue, unposted, send_tasks, server, link, system,
                              w_pending, w_buffer, receiverVars>>

-----------------------------------------------------------------------------
(* Receiving. *)

Chunks(available) == 1 .. (IF Len(available) < ReadCells THEN Len(available) ELSE ReadCells)

\* receive() and file::read, with the given is_pending and connected_flag_
Receive(pending, up) ==
  \/ /\ pending \/ ~up
     /\ r_pending' = pending
     /\ UNCHANGED <<read, read_data, pipe>>
  \/ /\ ~pending /\ up /\ pipe # << >>
     /\ \E n \in Chunks(pipe) : /\ read_data' = SubSeq(pipe, 1, n)
                               /\ pipe' = SubSeq(pipe, n + 1, Len(pipe))
     /\ read' = "packet" /\ r_pending' = pending
  \/ /\ ~pending /\ up /\ pipe = << >>
     /\ read' = "system" /\ r_pending' = TRUE
     /\ UNCHANGED <<read_data, pipe>>

\* data arrives for the pending read
SystemRead == /\ read = "system" /\ pipe # << >>
              /\ \E n \in Chunks(pipe) : /\ read_data' = SubSeq(pipe, 1, n)
                                        /\ pipe' = SubSeq(pipe, n + 1, Len(pipe))
              /\ read' = "packet"
              /\ UNCHANGED <<senderVars, server, link, system, r_pending, r_buffer, offset, parsing,
                             receive_queue, received>>

\* (mutant) the bytes replace those of the incomplete message
ReadReplaces == /\ read = "packet" /\ ~parsing
                /\ r_buffer' = read_data /\ read_data' = << >>
                /\ read' = "none" /\ r_pending' = FALSE
                /\ parsing' = TRUE /\ offset' = 0
                /\ UNCHANGED <<senderVars, server, link, system, pipe, receive_queue, received>>

\* (mutant) is_pending is not reset
ReadKeepsPending == /\ read = "packet" /\ ~parsing
                    /\ r_buffer' = r_buffer \o read_data /\ read_data' = << >>
                    /\ read' = "none" /\ parsing' = TRUE /\ offset' = 0
                    /\ UNCHANGED <<senderVars, server, link, system, pipe, r_pending, receive_queue,
                                   received>>

\* io_completed for a read: the bytes join the buffer, receive_completed starts
ReadCompleted == /\ read = "packet" /\ ~parsing
                 /\ r_buffer' = r_buffer \o read_data /\ read_data' = << >>
                 /\ read' = "none" /\ r_pending' = FALSE
                 /\ parsing' = TRUE /\ offset' = 0
                 /\ UNCHANGED <<senderVars, server, link, system, pipe, receive_queue, received>>

Unparsed == Len(r_buffer) - offset

\* head->size at the current offset, whatever the bytes there are
MessageSize == LET head == r_buffer[offset + 1] IN
               HeadCells + (IF head[1] \in Messages THEN BodyCells[head[1]] ELSE 0)

WholeMessage == Unparsed >= HeadCells /\ Unparsed >= MessageSize

\* one iteration of the loop in receive_completed
ParseOne == /\ parsing /\ WholeMessage
            /\ receive_queue' = Append(receive_queue,
                                      SubSeq(r_buffer, offset + 1, offset + MessageSize))
            /\ offset' = offset + MessageSize
            /\ UNCHANGED <<senderVars, server, link, system, pipe, read, r_pending, read_data,
                           r_buffer, parsing, received>>

\* (mutant) the incomplete message is cleared with the rest
NoLeftover == << >>

\* what receive_completed keeps in the buffer for the next read
Leftover == SubSeq(r_buffer, offset + 1, Len(r_buffer))

\* keep the incomplete message, call the handler, start the next read
ParseEnd == /\ parsing /\ ~WholeMessage
            /\ r_buffer' = Leftover /\ offset' = 0 /\ parsing' = FALSE
            /\ Receive(r_pending, Connected("receiver"))
            /\ UNCHANGED <<senderVars, server, link, system, receive_queue, received>>

\* receive_message, on any thread
ReceiveMessage == /\ receive_queue # << >>
                  /\ received' = Append(received, Head(receive_queue))
                  /\ receive_queue' = Tail(receive_queue)
                  /\ UNCHANGED <<senderVars, server, link, system, pipe, read, r_pending, read_data,
                                 r_buffer, offset, parsing>>

-----------------------------------------------------------------------------
(* Connecting. *)

\* the other process opens the pipe, and a pending ConnectNamedPipe is over
ClientOpens == /\ link[Client] = "none"
               /\ link' = [link EXCEPT ![Client] = "new",
                                      ![server] = IF @ = "waiting" THEN "packet" ELSE @]
               /\ UNCHANGED <<server, senderVars, system, pipe, receiverVars>>

\* connect_completed: send() and receive(), each in its own direction
ConnectCompleted(end, pending) ==
  /\ link' = [link EXCEPT ![end] = "up"]
  /\ \/ /\ end = "sender"
        /\ Send(w_pending, TRUE, w_packets)
        /\ UNCHANGED <<read, r_pending, read_data>>
     \/ /\ end = "receiver"
        /\ Receive(pending, TRUE)
        /\ UNCHANGED <<w_pending, w_packets, send_queue, w_buffer, writes>>
  /\ UNCHANGED <<server, sent, unposted, send_tasks, system, r_buffer, offset, parsing,
                 receive_queue, received>>

\* the connect task, where the pipe was opened already: at the client, or at a server
\* whose ConnectNamedPipe finds the client there
ConnectAtOnce(end) == /\ link[end] = "new" /\ link[Client] # "none"
                      /\ ConnectCompleted(end, r_pending)

\* ConnectNamedPipe pends, and so says is_pending of the read context
ConnectPends == /\ link[server] = "new" /\ link[Client] = "none"
                /\ link' = [link EXCEPT ![server] = "waiting"]
                /\ r_pending' = (r_pending \/ server = "receiver")
                /\ UNCHANGED <<server, senderVars, system, pipe, read, read_data, r_buffer, offset,
                               parsing, receive_queue, received>>

\* io_completed for a connection clears it
ConnectPacket == /\ link[server] = "packet"
                 /\ ConnectCompleted(server, FALSE)

Connect == ConnectPends \/ ConnectPacket \/ \E end \in End : ConnectAtOnce(end)

SenderStep == DispatchSend \/ RunSend \/ WriteCompleted
ReceiverStep == ReadCompleted \/ ParseOne \/ ParseEnd

Next == \/ \E m \in Messages : SendMessage(m)
        \/ ClientOpens \/ Connect \/ SenderStep \/ ReceiverStep
        \/ SystemWrite \/ SystemRead \/ ReceiveMessage

Spec == Init /\ [][Next]_vars

\* the I/O threads and the system make progress; nobody has to open the pipe, to send or
\* to call receive_message
Fairness == /\ WF_vars(Connect) /\ WF_vars(SystemWrite) /\ WF_vars(SystemRead)
            /\ WF_vars(DispatchSend) /\ WF_vars(RunSend) /\ WF_vars(WriteCompleted)
            /\ WF_vars(ReceiverStep)

FairSpec == Spec /\ Fairness

-----------------------------------------------------------------------------
(* Properties. *)

\* The type invariant of the two ends and of the pipe between them.
TypeOK == LET AllCells == (Messages \cup {0}) \X Nat IN
          /\ sent \in Seq(Messages) /\ send_queue \in Seq(Messages)
          /\ unposted \in Nat /\ send_tasks \in Nat /\ w_packets \in Nat
          /\ system \in Systems
          /\ server \in End /\ link \in [End -> {"none", "new", "waiting", "packet", "up"}]
          /\ w_pending \in BOOLEAN /\ r_pending \in BOOLEAN
          /\ parsing \in BOOLEAN
          /\ w_buffer \in Messages \cup {0} /\ writes \in Seq(Messages)
          /\ pipe \in Seq(AllCells) /\ read_data \in Seq(AllCells)
          /\ r_buffer \in Seq(AllCells)
          /\ read \in {"none", "system", "packet"}
          /\ offset \in 0 .. Len(r_buffer)
          /\ receive_queue \in Seq(Seq(AllCells)) /\ received \in Seq(Seq(AllCells))

AllCellsOf(queue) == FlattenSeq([i \in DOMAIN queue |-> Cells(queue[i])])

\* No byte is lost, duplicated or reordered on its way through the sender's
\* queue, the write in flight, the pipe, the read in flight, the half-parsed
\* buffer and the receiver's queue.
NothingLost == AllCellsOf(sent) = FlattenSeq(received \o receive_queue)
                                    \o SubSeq(r_buffer, offset + 1, Len(r_buffer))
                                    \o read_data \o pipe \o AllCellsOf(writes)
                                    \o AllCellsOf(send_queue)

\* write_context_.buffer is not replaced while the system may still read it.
BufferStable == writes # << >> => writes = <<w_buffer>>

\* receive_completed keeps the chain of reads going: once connected, exactly one
\* read is in flight, or its data is being parsed.  Where neither is the case, is_pending
\* is set only while ConnectNamedPipe, which shares the context, is under way.
ReadChain == /\ link["receiver"] = "up" => (read = "none" <=> parsing)
             /\ r_pending => \/ read # "none"
                             \/ link["receiver"] \in {"waiting", "packet"}

\* Every message queued for the user is one that was sent, complete.
MessageWhole == \A i \in DOMAIN receive_queue :
                  \E m \in Messages : receive_queue[i] = Cells(m)

\* a message that is not whole maps to no message
MessageOf(cells) == IF \E m \in Messages : cells = Cells(m)
                      THEN CHOOSE m \in Messages : cells = Cells(m) ELSE 0

Delivered == [i \in DOMAIN (received \o receive_queue) |->
                MessageOf((received \o receive_queue)[i])]

\* The channel implements the abstract stream of messages.
Stream == INSTANCE MessageStream WITH delivered <- Delivered
ImplementsMessageStream == Stream!Spec

\* Every message that send_message accepted reaches the receiver's queue, on a pipe that
\* has been opened.
EventuallyDelivered ==
  \A m \in Messages : Len(sent) >= m /\ link[Client] # "none"
                          ~> Len(received \o receive_queue) >= m
=============================================================================
