---------------------------- MODULE PipeService ----------------------------
(* pipe_message_service: the life of its channels, from create_channel through *)
(* connect, reads and writes to close_channel.  One thread is in run(): it     *)
(* handles the packets of the port in order and, on a packet of the worker,    *)
(* runs the worker's tasks until there are none.  What the messages are is     *)
(* PipeChannel's subject: here a read or a write just succeeds or breaks.      *)
EXTENDS Integers, Sequences, FiniteSets, SequencesExt

CONSTANTS Modes,        \* the modes to check: "create" (server), "open" (client)
          MaxChannels,  \* bound on the channels the service creates
          MaxSends,     \* bound on the messages sent on a channel
          MaxReads,     \* bound on the messages the peer sends on a channel
          MaxMessages   \* per mode, bound on the messages sent on all channels

Channel == 1 .. MaxChannels

ASSUME ServiceAssumption == /\ Modes \subseteq {"create", "open"}
                            /\ MaxChannels \in Nat \ {0}
                            /\ MaxSends \in Nat /\ MaxReads \in Nat
                            /\ \A m \in Modes : MaxMessages[m] \in Nat

VARIABLES
  mode,        \* mode_
  channels,    \* channels_: the channels that exist
  created,     \* how many channels have been created
  connected,   \* per channel, connected_flag_
  type,        \* per channel, read_context_.type
  w_pending,   \* per channel, write_context_.is_pending
  queued,      \* per channel, messages in send_queue_
  tasks,       \* the worker's queue: <<kind, channel>>
  packets,     \* the port: <<kind, channel>>
  draining,    \* the I/O thread is inside run_one
  ops,         \* the system: pending connections and reads, <<kind, channel>>
  writing,     \* per channel, the system: how many writes are pending
  peer,        \* per channel, the other end: "none", "open", "closed"
  calling,     \* per channel, how far a user's send_message is: "no", "called", "pushed"
  sends, reads,  \* per channel, how much both ends have sent
  told,        \* history: per channel, what the user's handler was called for last
  overtaken    \* history: the channels whose user was told that they broke before a
               \* send_message that was under way dispatched its task

vars == <<mode, channels, created, connected, type, w_pending, queued, tasks, packets, draining,
          ops, writing, peer, calling, sends, reads, told, overtaken>>

user == <<calling, sends, overtaken>>   \* what only send_message changes

NoChannel == 0
Worker == <<"worker", NoChannel>>

\* the first create_channel
Init == /\ mode \in Modes
        /\ channels = {1} /\ created = 1
        /\ connected = [c \in Channel |-> mode = "open"]
        /\ type = [c \in Channel |-> "unknown"]
        /\ w_pending = [c \in Channel |-> FALSE]
        /\ queued = [c \in Channel |-> 0]
        /\ tasks = << <<"connect", 1>> >> /\ packets = << Worker >>
        /\ draining = FALSE /\ ops = {} /\ writing = [c \in Channel |-> 0]
        /\ peer = [c \in Channel |-> IF mode = "open" THEN "open" ELSE "none"]
        /\ sends = [c \in Channel |-> 0] /\ reads = [c \in Channel |-> 0]
        /\ calling = [c \in Channel |-> "no"]
        /\ told = [c \in Channel |-> "nothing"] /\ overtaken = {}

-----------------------------------------------------------------------------
(* The peer and the system. *)

\* a client opens an instance of the server's pipe
PeerConnect(c) == /\ mode = "create" /\ c \in channels /\ peer[c] = "none"
                  /\ peer' = [peer EXCEPT ![c] = "open"]
                  /\ ops' = ops \ {<<"connect", c>>}
                  /\ packets' = IF <<"connect", c>> \in ops
                                  THEN Append(packets, <<"connected", c>>) ELSE packets
                  /\ UNCHANGED <<mode, channels, created, connected, type, w_pending, queued,
                                 tasks, draining, writing, reads, told, user>>

\* there may be one more message
MayTalk == SumFunction(sends) + SumFunction(reads) < MaxMessages[mode]

\* a message arrives for the pending read
PeerSend(c) == /\ peer[c] = "open" /\ <<"read", c>> \in ops /\ reads[c] < MaxReads /\ MayTalk
               /\ reads' = [reads EXCEPT ![c] = @ + 1]
               /\ ops' = ops \ {<<"read", c>>}
               /\ packets' = Append(packets, <<"read", c>>)
               /\ UNCHANGED <<mode, channels, created, connected, type, w_pending, queued,
                              tasks, draining, writing, peer, told, user>>

\* the peer reads, and a pending write finishes
PeerReceive(c) == /\ peer[c] = "open" /\ writing[c] > 0
                  /\ writing' = [writing EXCEPT ![c] = @ - 1]
                  /\ packets' = Append(packets, <<"written", c>>)
                  /\ UNCHANGED <<mode, channels, created, connected, type, w_pending, queued,
                                 tasks, draining, ops, peer, reads, told, user>>

PeerClose(c) == /\ peer[c] = "open"
                /\ peer' = [peer EXCEPT ![c] = "closed"]
                /\ UNCHANGED <<mode, channels, created, connected, type, w_pending, queued, tasks,
                               packets, draining, ops, writing, reads, told, user>>

\* the system fails the pending operations of a pipe whose other end is closed,
\* or whose own handle is, one by one
ReadFails(c) == /\ peer[c] = "closed" /\ <<"read", c>> \in ops
                /\ ops' = ops \ {<<"read", c>>}
                /\ packets' = Append(packets, <<"broken read", c>>)
                /\ UNCHANGED <<mode, channels, created, connected, type, w_pending, queued,
                               tasks, draining, writing, peer, reads, told, user>>

WriteFails(c) == /\ peer[c] = "closed" /\ writing[c] > 0
                 /\ writing' = [writing EXCEPT ![c] = @ - 1]
                 /\ packets' = Append(packets, <<"broken write", c>>)
                 /\ UNCHANGED <<mode, channels, created, connected, type, w_pending, queued,
                                tasks, draining, ops, peer, reads, told, user>>

-----------------------------------------------------------------------------
(* What a handler does, as the tasks it dispatches and the operations it starts. *)

\* receive(): a read on a pipe whose other end is closed fails at once, which
\* file::read logs and nothing more
ReadStarts(c) == IF peer[c] = "open" THEN {<<"read", c>>} ELSE {}

\* (mutant) send() does not look whether its queue is empty
WriteOfNothing(c, up, pending) == IF ~up \/ pending THEN {"nothing"} ELSE {"pends", "finishes"}

\* send() writes the message at the front of its queue, if it may: WriteFile leaves
\* the write pending or finishes it at once, or fails and the message is lost
Outcomes(c, up, pending) == IF ~up \/ pending \/ queued[c] = 0 THEN {"nothing"}
                            ELSE IF peer[c] = "open" THEN {"pends", "finishes"} ELSE {"fails"}

\* send(), when the port has the packets rest: also a write that finishes at once has
\* its packet, but is_pending is set only for one that does not
Send(c, up, pending, rest) ==
  \E outcome \in Outcomes(c, up, pending) :
    /\ queued' = [queued EXCEPT ![c] = @ - (IF outcome = "nothing" THEN 0 ELSE 1)]
    /\ writing' = [writing EXCEPT ![c] = @ + (IF outcome = "pends" THEN 1 ELSE 0)]
    /\ w_pending' = [w_pending EXCEPT ![c] = pending \/ outcome = "pends"]
    /\ packets' = IF outcome = "finishes" THEN Append(rest, <<"written", c>>) ELSE rest

Server == mode = "create"

Successor == created + 1

\* (mutant) a new connection closes the channel
CloseOnCreate(c, readType) ==
  /\ told' = [told EXCEPT ![c] = readType]
  /\ tasks' = (IF draining THEN Tail(tasks) ELSE tasks) \o
                (IF readType \in {"broken", "create"} THEN << <<"close", c>> >> ELSE << >>)
  /\ UNCHANGED <<mode, channels, created>>

\* (mutant) the next channel is created but not connected
CreateUnconnected(c, readType) ==
  /\ told' = [told EXCEPT ![c] = readType]
  /\ LET more == Server /\ readType = "create" /\ created < MaxChannels IN
     /\ channels' = IF more THEN channels \cup {Successor} ELSE channels
     /\ created' = IF more THEN Successor ELSE created
     /\ tasks' = (IF draining THEN Tail(tasks) ELSE tasks) \o
                 (IF readType = "broken" THEN << <<"close", c>> >> ELSE << >>)

\* message_handler, called for a channel whose read context has the given type:
\* the user's handler, then close_channel or, on a server, the next create_channel
MessageHandler(c, readType) ==
  /\ told' = [told EXCEPT ![c] = readType]
  /\ LET more == Server /\ readType = "create" /\ created < MaxChannels IN
     /\ channels' = IF more THEN channels \cup {Successor} ELSE channels
     /\ created' = IF more THEN Successor ELSE created
     /\ tasks' = (IF draining THEN Tail(tasks) ELSE tasks) \o
                 (IF readType = "broken" THEN << <<"close", c>> >>
                  ELSE IF more THEN << <<"connect", Successor>> >> ELSE << >>)

\* (mutant) the packet is forgotten
PostsNothing(c, readType) == << >>

\* a packet of the worker for each task a handler dispatches
Posts(c, readType) == IF readType = "broken" \/ (Server /\ readType = "create" /\ created < MaxChannels)
                        THEN << Worker >> ELSE << >>

-----------------------------------------------------------------------------
(* The I/O thread. *)

Idle == ~draining /\ packets # << >>

Packet(kind, c) == Idle /\ Head(packets) = <<kind, c>> /\ c \in channels

\* a packet of a channel that no longer exists: the handler it names is gone
DropPacket == /\ Idle /\ Head(packets)[2] \notin channels \cup {NoChannel}
              /\ packets' = Tail(packets)
              /\ UNCHANGED <<mode, channels, created, connected, type, w_pending, queued, tasks,
                             draining, ops, writing, peer, reads, told, user>>

\* connect_completed: handler, send(), receive()
ConnectCompleted(c, rest) ==
  /\ connected' = [connected EXCEPT ![c] = TRUE]
  /\ MessageHandler(c, "create")
  /\ Send(c, TRUE, w_pending[c], rest \o Posts(c, "create"))
  /\ ops' = ops \cup ReadStarts(c)
  /\ type' = [type EXCEPT ![c] = "read"]

Connected(c) == /\ Packet("connected", c)
                /\ ConnectCompleted(c, Tail(packets))
                /\ UNCHANGED <<mode, draining, peer, reads, user>>

\* receive_completed: handler, receive()
ReadCompleted(c) == /\ Packet("read", c)
                    /\ MessageHandler(c, "read")
                    /\ packets' = Tail(packets)
                    /\ ops' = ops \cup ReadStarts(c)
                    /\ UNCHANGED <<mode, connected, type, w_pending, queued, draining, writing,
                                   peer, reads, user>>

\* send_completed: send().  It clears is_pending, whichever write the packet is of.
WriteCompleted(c) == /\ Packet("written", c)
                     /\ Send(c, connected[c], FALSE, Tail(packets))
                     /\ UNCHANGED <<mode, channels, created, connected, type, tasks, draining, ops,
                                    peer, reads, told, user>>

\* io_broken marks its own context and calls closed(); message_handler looks at
\* the type of the read context.  CancelIo hits operations that fail anyway.
IoBroken(c, kind) ==
  /\ Packet(kind, c)
  /\ type' = [type EXCEPT ![c] = IF kind = "broken read" THEN "broken" ELSE @]
  /\ MessageHandler(c, type'[c])
  /\ packets' = Tail(packets) \o Posts(c, type'[c])
  /\ UNCHANGED <<mode, connected, w_pending, queued, draining, ops, writing, peer, reads, user>>

\* a packet of the worker: run_one, until the queue is empty
EnterRunOne == /\ Idle /\ Head(packets) = Worker
               /\ packets' = Tail(packets) /\ draining' = TRUE
               /\ UNCHANGED <<mode, channels, created, connected, type, w_pending, queued, tasks,
                              ops, writing, peer, reads, told, user>>

LeaveRunOne == /\ draining /\ tasks = << >> /\ draining' = FALSE
               /\ UNCHANGED <<mode, channels, created, connected, type, w_pending, queued, tasks,
                              packets, ops, writing, peer, reads, told, user>>

Task(kind, c) == draining /\ tasks # << >> /\ Head(tasks) = <<kind, c>>

\* the connect task.  A client is connected already and the handler runs at once;
\* for a server ConnectNamedPipe pends, or finds the client there, or finds that
\* it came and went, which is logged and nothing more
ConnectTask(c) ==
  /\ Task("connect", c) /\ c \in channels
  /\ \/ /\ connected[c] \/ peer[c] = "open"
        /\ ConnectCompleted(c, packets)
     \/ /\ ~connected[c] /\ peer[c] # "open"
        /\ tasks' = Tail(tasks)
        /\ ops' = IF peer[c] = "none" THEN ops \cup {<<"connect", c>>} ELSE ops
        /\ type' = [type EXCEPT ![c] = "create"]
        /\ UNCHANGED <<channels, created, connected, w_pending, queued, packets, writing, told>>
  /\ UNCHANGED <<mode, draining, peer, reads, user>>

SendTask(c) == /\ Task("send", c) /\ c \in channels
               /\ tasks' = Tail(tasks)
               /\ Send(c, connected[c], w_pending[c], packets)
               /\ UNCHANGED <<mode, channels, created, connected, type, draining, ops, peer, reads,
                              told, user>>

\* the send task of a channel that no longer exists: send() reads what is left of it,
\* and the model goes on without it
StaleSend(c) == /\ Task("send", c) /\ c \notin channels
                /\ tasks' = Tail(tasks)
                /\ UNCHANGED <<mode, channels, created, connected, type, w_pending, queued, packets,
                               draining, ops, writing, peer, reads, told, user>>

\* close_channel: the channel and its handle go
CloseTask(c) == /\ Task("close", c)
                /\ tasks' = Tail(tasks)
                /\ channels' = channels \ {c}
                /\ peer' = [peer EXCEPT ![c] = "closed"]
                /\ UNCHANGED <<mode, created, connected, type, w_pending, queued, packets, draining,
                               ops, writing, reads, told, user>>

-----------------------------------------------------------------------------
(* A user's thread in send_message. *)

\* it is called for a channel whose handler has not been told that the pipe broke
CallSend(c) == /\ c \in channels /\ calling[c] = "no" /\ told[c] # "broken"
               /\ sends[c] < MaxSends /\ MayTalk
               /\ calling' = [calling EXCEPT ![c] = "called"]
               /\ sends' = [sends EXCEPT ![c] = @ + 1]
               /\ UNCHANGED <<mode, channels, created, connected, type, w_pending, queued, tasks,
                              packets, draining, ops, writing, peer, reads, told, overtaken>>

\* the message is queued; from here on the channel may be gone, and the call goes on
\* with what is left of it
PushMessage(c) == /\ calling[c] = "called"
                  /\ calling' = [calling EXCEPT ![c] = "pushed"]
                  /\ queued' = [queued EXCEPT ![c] = @ + 1]
                  /\ UNCHANGED <<mode, channels, created, connected, type, w_pending, tasks, packets,
                                 draining, ops, writing, peer, sends, reads, told, overtaken>>

\* send() is dispatched to the worker
DispatchSend(c) == /\ calling[c] = "pushed"
                   /\ calling' = [calling EXCEPT ![c] = "no"]
                   /\ tasks' = Append(tasks, <<"send", c>>)
                   /\ packets' = Append(packets, Worker)
                   /\ overtaken' = IF told[c] = "broken" THEN overtaken \cup {c} ELSE overtaken
                   /\ UNCHANGED <<mode, channels, created, connected, type, w_pending, queued,
                                  draining, ops, writing, peer, sends, reads, told>>

\* or the call on a destroyed channel does nothing
CallLost(c) == /\ calling[c] # "no" /\ c \notin channels
               /\ calling' = [calling EXCEPT ![c] = "no"]
               /\ UNCHANGED <<mode, channels, created, connected, type, w_pending, queued, tasks,
                              packets, draining, ops, writing, peer, sends, reads, told, overtaken>>

User(c) == CallSend(c) \/ PushMessage(c) \/ DispatchSend(c) \/ CallLost(c)

IoThread == \/ EnterRunOne \/ LeaveRunOne \/ DropPacket
            \/ \E c \in Channel : \/ Connected(c) \/ ReadCompleted(c) \/ WriteCompleted(c)
                                  \/ IoBroken(c, "broken read") \/ IoBroken(c, "broken write")
                                  \/ ConnectTask(c) \/ SendTask(c) \/ StaleSend(c) \/ CloseTask(c)

Next == \/ IoThread
        \/ \E c \in Channel : \/ PeerConnect(c) \/ PeerSend(c) \/ PeerReceive(c) \/ PeerClose(c)
                              \/ ReadFails(c) \/ WriteFails(c) \/ User(c)

Spec == Init /\ [][Next]_vars

\* the I/O thread runs and broken operations fail; peers and users may do nothing
FairSpec == /\ Spec /\ WF_vars(IoThread)
            /\ \A c \in Channel : WF_vars(ReadFails(c) \/ WriteFails(c))

-----------------------------------------------------------------------------
(* Properties. *)

Kinds == {"connected", "read", "written", "broken read", "broken write"}

\* The type invariant of the service, its channels, the worker and the port.
TypeOK == /\ mode \in Modes
          /\ channels \subseteq Channel /\ created \in Channel
          /\ connected \in [Channel -> BOOLEAN] /\ w_pending \in [Channel -> BOOLEAN]
          /\ type \in [Channel -> {"unknown", "create", "read", "broken"}]
          /\ queued \in [Channel -> 0 .. MaxSends]
          /\ tasks \in Seq({"connect", "send", "close"} \X Channel)
          /\ packets \in Seq((Kinds \X Channel) \cup {Worker})
          /\ draining \in BOOLEAN
          /\ ops \subseteq {"connect", "read"} \X Channel
          /\ writing \in [Channel -> 0 .. MaxSends]
          /\ calling \in [Channel -> {"no", "called", "pushed"}] /\ overtaken \subseteq Channel
          /\ peer \in [Channel -> {"none", "open", "closed"}]
          /\ sends \in [Channel -> 0 .. MaxSends] /\ reads \in [Channel -> 0 .. MaxReads]
          /\ told \in [Channel -> {"nothing", "create", "read", "broken"}]

\* close_channel leaves nothing behind: no task, packet or pending operation names
\* a channel that has been destroyed.
NoDanglingWork == /\ \A i \in DOMAIN tasks : tasks[i][2] \in channels
                  /\ \A i \in DOMAIN packets : packets[i][2] \in channels \cup {NoChannel}
                  /\ \A op \in ops : op[2] \in channels
                  /\ \A c \in Channel : writing[c] > 0 => c \in channels

\* Besides its pending writes a destroyed channel can leave behind only the packets of
\* writes that failed, a second close task if anything was sent, and the send() task of
\* a send_message that was overtaken.  No read and no connection names it, no packet of
\* a write that succeeded, and no send() task of a call that returned before the user
\* was told that the pipe broke.
OnlyWritesDangle ==
  /\ \A i \in DOMAIN tasks : \/ tasks[i][2] \in channels
                              \/ (tasks[i][1] = "close" /\ sends[tasks[i][2]] > 0)
                              \/ (tasks[i][1] = "send" /\ tasks[i][2] \in overtaken)
  /\ \A i \in DOMAIN packets : \/ packets[i][2] \in channels \cup {NoChannel}
                                \/ packets[i][1] = "broken write"
  /\ \A op \in ops : op[2] \in channels

\* the channel is on its way to a connection
Awaiting(c) == \/ <<"connect", c>> \in Range(tasks) \cup ops
               \/ <<"connected", c>> \in Range(packets)

\* its client closed the pipe before ConnectNamedPipe was called
Missed(c) == type[c] = "create" /\ ~connected[c] /\ peer[c] = "closed"

\* A server always has exactly one instance for the next client, the newest,
\* unless a client came and went before that instance was waiting for it (or the
\* model's bound on channels stops the service from creating another).
ListenerKept == Server => /\ \/ Awaiting(created) \/ Missed(created)
                             \/ created = MaxChannels /\ connected[created]
                          /\ \A c \in 1 .. created - 1 : ~Awaiting(c)

\* The read after a handled message found the pipe closed, failed at once and was only
\* logged: no read, no packet of one and no close task is left.
Unnoticed(c) == /\ connected[c] /\ peer[c] = "closed" /\ <<"read", c>> \notin ops
                /\ \A i \in DOMAIN packets :
                     packets[i] \notin {"connected", "read", "broken read"} \X {c}
                /\ <<"close", c>> \notin Range(tasks)

\* A channel whose user was told that it broke is destroyed.  A connected channel
\* whose other end closes is destroyed too, unless the service did not notice.
BrokenIsClosed == \A c \in Channel :
                    /\ told[c] = "broken" ~> c \notin channels
                    /\ connected[c] /\ peer[c] = "closed" ~> c \notin channels \/ Unnoticed(c)
=============================================================================
