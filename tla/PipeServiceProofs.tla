------------------------- MODULE PipeServiceProofs -------------------------
(* Proofs about PipeService: what can outlive a channel, and that a server      *)
(* keeps an instance for the next client.                                       *)
EXTENDS PipeService, SequenceTheorems, TLAPS

-----------------------------------------------------------------------------
(* Queues.  A task or a packet is known by its kind and its channel. *)

\* some <<k, c>> is in q
In(k, c, q) == \E i \in 1 .. Len(q) : q[i] = <<k, c>>

\* at most one is
Once(k, c, q) == \A i, j \in 1 .. Len(q) : q[i] = <<k, c>> /\ q[j] = <<k, c>> => i = j

\* no <<l, c>> is behind a <<k, c>>
Clear(k, l, c, q) == \A i, j \in 1 .. Len(q) : i < j /\ q[i] = <<k, c>> => q[j] # <<l, c>>

\* r is q with a <<k, c>> at its end
Grew(q, r, k, c) ==
  \A j, d : /\ In(j, d, r) <=> In(j, d, q) \/ (j = k /\ d = c)
            /\ Once(j, d, q) /\ ~(j = k /\ d = c /\ In(j, d, q)) => Once(j, d, r)
            /\ \A i : Clear(i, j, d, q) /\ ~(j = k /\ d = c /\ In(i, d, q)) => Clear(i, j, d, r)

\* r is q without the <<k, c>> at its head
Shrank(q, r, k, c) ==
  /\ In(k, c, q)
  /\ \A j, d : /\ In(j, d, r) => In(j, d, q)
               /\ In(j, d, q) => In(j, d, r) \/ (j = k /\ d = c)
               /\ Once(j, d, q) => Once(j, d, r) /\ ~(j = k /\ d = c /\ In(j, d, r))
               /\ \A i : Clear(i, j, d, q) => /\ Clear(i, j, d, r)
                                              /\ ~(i = k /\ d = c /\ In(j, d, r))

\* what Append does to a queue
LEMMA Appended ==
  ASSUME NEW S, NEW q \in Seq(S), NEW k, NEW c, <<k, c>> \in S
  PROVE  /\ Append(q, <<k, c>>) \in Seq(S)
         /\ Grew(q, Append(q, <<k, c>>), k, c)
         /\ q # << >> => Append(q, <<k, c>>) # << >> /\ Head(Append(q, <<k, c>>)) = Head(q)
<1> DEFINE r == Append(q, <<k, c>>)
           n == Len(q)
<1>1. /\ r \in Seq(S) /\ n \in Nat /\ Len(r) = n + 1 /\ r[n + 1] = <<k, c>>
      /\ \A i \in 1 .. n : r[i] = q[i]
  OBVIOUS
<1>2. q # << >> => r # << >> /\ Head(r) = Head(q)
  OBVIOUS
<1> HIDE DEF r
<1>3. ASSUME NEW i \in 1 .. Len(r)
      PROVE  \/ i \in 1 .. n /\ r[i] = q[i]
             \/ i = n + 1 /\ r[i] = <<k, c>>
  <2>1. i \in 1 .. n \/ i = n + 1
    BY <1>1
  <2>2. QED
    BY <1>1, <2>1
<1>4. \A i \in 1 .. n : i \in 1 .. Len(r) /\ r[i] = q[i] /\ i < n + 1
  BY <1>1
<1>5. n + 1 \in 1 .. Len(r)
  BY <1>1
<1>6. ASSUME NEW j, NEW d PROVE In(j, d, r) <=> In(j, d, q) \/ (j = k /\ d = c)
  BY <1>1, <1>3, <1>4, <1>5 DEF In
<1>7. ASSUME NEW j, NEW d, Once(j, d, q), ~(j = k /\ d = c /\ In(j, d, q)) PROVE Once(j, d, r)
  <2> SUFFICES ASSUME NEW a \in 1 .. Len(r), NEW b \in 1 .. Len(r), r[a] = <<j, d>>,
                      r[b] = <<j, d>>
               PROVE  a = b
    BY DEF Once
  <2>1. CASE j = k /\ d = c
    BY <1>3, <1>7, <2>1 DEF In
  <2>2. CASE ~(j = k /\ d = c)
    BY <1>3, <1>7, <2>2 DEF Once
  <2>3. QED
    BY <2>1, <2>2
<1>8. ASSUME NEW i, NEW j, NEW d, Clear(i, j, d, q), ~(j = k /\ d = c /\ In(i, d, q))
      PROVE  Clear(i, j, d, r)
  <2> SUFFICES ASSUME NEW a \in 1 .. Len(r), NEW b \in 1 .. Len(r), a < b, r[a] = <<i, d>>,
                      r[b] = <<j, d>>
               PROVE  FALSE
    BY DEF Clear
  <2>1. a \in 1 .. n /\ q[a] = <<i, d>>
    BY <1>1, <1>3
  <2>2. In(i, d, q)
    BY <2>1 DEF In
  <2>3. b \in 1 .. n /\ q[b] = <<j, d>>
    BY <1>8, <2>2, <1>3
  <2>4. QED
    BY <1>8, <2>1, <2>3 DEF Clear
<1>9. Grew(q, r, k, c)
  BY <1>6, <1>7, <1>8 DEF Grew
<1>10. QED
  BY <1>1, <1>2, <1>9 DEF r

\* what Tail does to a queue
LEMMA Popped ==
  ASSUME NEW S, NEW q \in Seq(S), q # << >>, NEW k, NEW c, Head(q) = <<k, c>>
  PROVE  Tail(q) \in Seq(S) /\ Shrank(q, Tail(q), k, c)
<1> DEFINE r == Tail(q)
           n == Len(q)
<1>1. /\ r \in Seq(S) /\ n \in Nat /\ n >= 1 /\ Len(r) = n - 1 /\ q[1] = <<k, c>>
      /\ \A i \in 1 .. n - 1 : r[i] = q[i + 1]
  OBVIOUS
<1> HIDE DEF r
<1>2. \A i \in 1 .. Len(r) : i + 1 \in 1 .. n /\ r[i] = q[i + 1] /\ i + 1 # 1 /\ i \in Int
  BY <1>1
<1>3. \A i \in 1 .. n : i = 1 \/ (i - 1 \in 1 .. Len(r) /\ r[i - 1] = q[i])
  BY <1>1
<1>4. 1 \in 1 .. n
  BY <1>1
<1>5. In(k, c, q)
  BY <1>1, <1>4 DEF In
<1>6. ASSUME NEW j, NEW d, In(j, d, r) PROVE In(j, d, q)
  BY <1>2, <1>6 DEF In
<1>7. ASSUME NEW j, NEW d, In(j, d, q) PROVE In(j, d, r) \/ (j = k /\ d = c)
  BY <1>1, <1>3, <1>7 DEF In
<1>8. ASSUME NEW j, NEW d, Once(j, d, q) PROVE Once(j, d, r) /\ ~(j = k /\ d = c /\ In(j, d, r))
  <2>1. Once(j, d, r)
    <3> SUFFICES ASSUME NEW a \in 1 .. Len(r), NEW b \in 1 .. Len(r), r[a] = <<j, d>>,
                        r[b] = <<j, d>>
                 PROVE  a = b
      BY DEF Once
    <3>1. a + 1 = b + 1 /\ a \in Int /\ b \in Int
      BY <1>2, <1>8 DEF Once
    <3>2. QED
      BY <3>1
  <2>2. ASSUME j = k, d = c, NEW b \in 1 .. Len(r), r[b] = <<j, d>> PROVE FALSE
    <3>1. b + 1 \in 1 .. n /\ q[b + 1] = <<j, d>> /\ b + 1 # 1
      BY <1>2, <2>2
    <3>2. QED
      BY <1>1, <1>4, <1>8, <2>2, <3>1 DEF Once
  <2>3. QED
    BY <2>1, <2>2 DEF In
<1>9. ASSUME NEW i, NEW j, NEW d, Clear(i, j, d, q)
      PROVE  Clear(i, j, d, r) /\ ~(i = k /\ d = c /\ In(j, d, r))
  <2>1. Clear(i, j, d, r)
    <3> SUFFICES ASSUME NEW a \in 1 .. Len(r), NEW b \in 1 .. Len(r), a < b, r[a] = <<i, d>>,
                        r[b] = <<j, d>>
                 PROVE  FALSE
      BY DEF Clear
    <3>1. a + 1 < b + 1
      BY <1>2
    <3>2. QED
      BY <1>2, <1>9, <3>1 DEF Clear
  <2>2. ASSUME NEW b \in 1 .. Len(r), i = k, d = c, r[b] = <<j, d>> PROVE FALSE
    <3>1. 1 < b + 1 /\ q[b + 1] = <<j, d>> /\ b + 1 \in 1 .. n
      BY <1>2, <2>2
    <3>2. QED
      BY <1>1, <1>4, <1>9, <2>2, <3>1 DEF Clear
  <2>3. QED
    BY <2>1, <2>2 DEF In
<1>10. Shrank(q, r, k, c)
  BY <1>5, <1>6, <1>7, <1>8, <1>9 DEF Shrank
<1>11. QED
  BY <1>1, <1>10 DEF r

-----------------------------------------------------------------------------
(* Types. *)

\* tasks and packets
TaskSet == {"connect", "send", "close"} \X Channel
PacketSet == (Kinds \X Channel) \cup {Worker}

\* the types of the two queues
QueueTypes == tasks \in Seq(TaskSet) /\ packets \in Seq(PacketSet)

\* TypeOK, as far as it can be told without knowing how far a channel has come
StateTypes ==
  /\ mode \in Modes
  /\ channels \subseteq Channel /\ created \in Channel
  /\ connected \in [Channel -> BOOLEAN] /\ w_pending \in [Channel -> BOOLEAN]
  /\ type \in [Channel -> {"unknown", "create", "read", "broken"}]
  /\ queued \in [Channel -> Nat]
  /\ draining \in BOOLEAN
  /\ ops \subseteq {"connect", "read"} \X Channel
  /\ writing \in [Channel -> Nat]
  /\ calling \in [Channel -> {"no", "called", "pushed"}] /\ overtaken \subseteq Channel
  /\ peer \in [Channel -> {"none", "open", "closed"}]
  /\ sends \in [Channel -> 0 .. MaxSends] /\ reads \in [Channel -> 0 .. MaxReads]
  /\ told \in [Channel -> {"nothing", "unknown", "create", "read", "broken"}]

Types == StateTypes /\ QueueTypes

\* what message_handler's tasks are appended to
Base == IF draining THEN Tail(tasks) ELSE tasks

\* it creates the next channel
More(t) == Server /\ t = "create" /\ created < MaxChannels

\* the channels are numbers, and there is one
LEMMA ChannelType == Channel \subseteq Nat \ {0} /\ 1 \in Channel /\ MaxChannels \in Channel
  BY ServiceAssumption DEF Channel

\* a server that may create another channel has a name for it
LEMMA SuccessorType ==
  ASSUME created \in Channel, created < MaxChannels
  PROVE  Successor \in Channel /\ Successor = created + 1
  BY ServiceAssumption DEF Channel, Successor

\* message_handler appends one task or none
LEMMA AppendOne ==
  ASSUME NEW S, NEW q \in Seq(S), NEW y \in S
  PROVE  q \o <<y>> = Append(q, y) /\ q \o << >> = q /\ Append(q, y) \in Seq(S)
  BY ConcatEmptySeq

\* what message_handler does, with its branches named
LEMMA HandlerEffect ==
  ASSUME tasks \in Seq(TaskSet), draining => tasks # << >>, created \in Channel,
         NEW c \in Channel, NEW t, MessageHandler(c, t)
  PROVE  /\ Base \in Seq(TaskSet)
         /\ told' = [told EXCEPT ![c] = t]
         /\ channels' = IF More(t) THEN channels \cup {Successor} ELSE channels
         /\ created' = IF More(t) THEN Successor ELSE created
         /\ t = "broken" => tasks' = Append(Base, <<"close", c>>)
         /\ More(t) => tasks' = Append(Base, <<"connect", Successor>>) /\ Successor \in Channel
         /\ t # "broken" /\ ~More(t) => tasks' = Base
<1>1. Base \in Seq(TaskSet)
  BY DEF Base
<1>2. <<"close", c>> \in TaskSet
  BY DEF TaskSet
<1>3. /\ Base \o << <<"close", c>> >> = Append(Base, <<"close", c>>)
      /\ Base \o << >> = Base
  BY <1>1, <1>2, AppendOne
<1>4. More(t) => Successor \in Channel
  BY SuccessorType DEF More
<1>5. More(t) => Base \o << <<"connect", Successor>> >> = Append(Base, <<"connect", Successor>>)
  <2> SUFFICES ASSUME More(t) PROVE <<"connect", Successor>> \in TaskSet
    BY <1>1, AppendOne
  <2>1. QED
    BY <1>4 DEF TaskSet
<1>6. t = "broken" => ~More(t)
  BY DEF More
<1>7. tasks' = Base \o (IF t = "broken" THEN << <<"close", c>> >>
                        ELSE IF More(t) THEN << <<"connect", Successor>> >> ELSE << >>)
  BY DEF MessageHandler, Base, More
<1>8. /\ told' = [told EXCEPT ![c] = t]
      /\ channels' = IF More(t) THEN channels \cup {Successor} ELSE channels
      /\ created' = IF More(t) THEN Successor ELSE created
  BY DEF MessageHandler, More
<1>9. QED
  BY <1>1, <1>3, <1>4, <1>5, <1>6, <1>7, <1>8

\* it wakes the worker at most once
LEMMA PostsEffect ==
  ASSUME NEW q \in Seq(PacketSet), NEW c, NEW t
  PROVE  /\ q \o Posts(c, t) \in {q, Append(q, Worker)}
         /\ q \o Posts(c, t) \in Seq(PacketSet)
<1>1. Worker \in PacketSet
  BY DEF PacketSet
<1>2. QED
  BY <1>1, AppendOne DEF Posts

\* types of the head and the tail of a queue
LEMMA PoppedType ==
  ASSUME NEW S, NEW q \in Seq(S), q # << >>
  PROVE  Head(q) \in S /\ Tail(q) \in Seq(S)
  OBVIOUS

\* send() starts at most one write
LEMMA SendTypes ==
  ASSUME Types, NEW c \in Channel, NEW up, NEW pending \in BOOLEAN, NEW q \in Seq(PacketSet),
         Send(c, up, pending, q)
  PROVE  /\ packets' \in Seq(PacketSet)
         /\ queued' \in [Channel -> Nat] /\ writing' \in [Channel -> Nat]
         /\ w_pending' \in [Channel -> BOOLEAN]
<1>1. PICK outcome \in Outcomes(c, up, pending) :
        /\ queued' = [queued EXCEPT ![c] = @ - (IF outcome = "nothing" THEN 0 ELSE 1)]
        /\ writing' = [writing EXCEPT ![c] = @ + (IF outcome = "pends" THEN 1 ELSE 0)]
        /\ w_pending' = [w_pending EXCEPT ![c] = pending \/ outcome = "pends"]
        /\ packets' = IF outcome = "finishes" THEN Append(q, <<"written", c>>) ELSE q
  BY DEF Send
<1>2. /\ queued \in [Channel -> Nat] /\ writing \in [Channel -> Nat]
      /\ w_pending \in [Channel -> BOOLEAN]
  BY DEF Types, StateTypes
<1>3. outcome # "nothing" => queued[c] # 0
  BY DEF Outcomes
<1>4. queued[c] - (IF outcome = "nothing" THEN 0 ELSE 1) \in Nat
  BY <1>2, <1>3
<1>5. queued' \in [Channel -> Nat]
  BY <1>1, <1>2, <1>4
<1>6. writing[c] + (IF outcome = "pends" THEN 1 ELSE 0) \in Nat
  BY <1>2
<1>7. writing' \in [Channel -> Nat]
  BY <1>1, <1>2, <1>6
<1>8. w_pending' \in [Channel -> BOOLEAN]
  BY <1>1, <1>2
<1>9. <<"written", c>> \in PacketSet
  BY DEF PacketSet, Kinds
<1>10. packets' \in Seq(PacketSet)
  BY <1>1, <1>9, AppendOne
<1>11. QED
  BY <1>5, <1>7, <1>8, <1>10

\* the queues keep their types
LEMMA QueueTypesStep == Types /\ [Next]_vars => QueueTypes'
<1> SUFFICES ASSUME Types, [Next]_vars PROVE QueueTypes'
  OBVIOUS
<1>1. /\ tasks \in Seq(TaskSet) /\ packets \in Seq(PacketSet) /\ created \in Channel
      /\ draining \in BOOLEAN /\ w_pending \in [Channel -> BOOLEAN]
  BY DEF Types, StateTypes, QueueTypes
<1>2. ASSUME NEW kind \in Kinds, NEW c \in Channel
      PROVE  Append(packets, <<kind, c>>) \in Seq(PacketSet)
  BY <1>1, AppendOne DEF PacketSet
<1>3. packets # << >> => Tail(packets) \in Seq(PacketSet)
  BY <1>1, PoppedType
<1>4. tasks # << >> => Tail(tasks) \in Seq(TaskSet)
  BY <1>1, PoppedType
<1>5. Append(packets, Worker) \in Seq(PacketSet)
  BY <1>1, AppendOne DEF PacketSet
<1>6. ASSUME NEW c \in Channel PROVE Append(tasks, <<"send", c>>) \in Seq(TaskSet)
  BY <1>1, AppendOne DEF TaskSet
<1>7. ASSUME NEW c \in Channel, NEW t, MessageHandler(c, t), draining => tasks # << >>
      PROVE  tasks' \in Seq(TaskSet)
  <2>1. /\ Base \in Seq(TaskSet)
        /\ t = "broken" => tasks' = Append(Base, <<"close", c>>)
        /\ More(t) => tasks' = Append(Base, <<"connect", Successor>>) /\ Successor \in Channel
        /\ t # "broken" /\ ~More(t) => tasks' = Base
    BY <1>1, <1>7, HandlerEffect
  <2>2. \A k \in {"connect", "close"}, d \in Channel : Append(Base, <<k, d>>) \in Seq(TaskSet)
    BY <2>1, AppendOne DEF TaskSet
  <2>3. QED
    BY <2>1, <2>2
<1> DEFINE T1 == tasks' \in Seq(TaskSet)
           P1 == packets' \in Seq(PacketSet)
<1>8. QueueTypes' <=> T1 /\ P1
  BY DEF QueueTypes, TaskSet, PacketSet, Channel, Kinds, Worker, NoChannel
<1> SUFFICES T1 /\ P1
  BY <1>8
<1> HIDE DEF T1, P1
<1>9. ASSUME UNCHANGED <<tasks, packets>> PROVE T1 /\ P1
  BY <1>1, <1>9 DEF T1, P1
<1>10. ASSUME NEW c \in Channel, PeerConnect(c) PROVE T1 /\ P1
  BY <1>1, <1>2, <1>10 DEF PeerConnect, Kinds, T1, P1
<1>11. ASSUME NEW c \in Channel, PeerSend(c) \/ PeerReceive(c) PROVE T1 /\ P1
  BY <1>1, <1>2, <1>11 DEF PeerSend, PeerReceive, Kinds, T1, P1
<1>12. ASSUME NEW c \in Channel, PeerClose(c) PROVE T1 /\ P1
  BY <1>9, <1>12 DEF PeerClose
<1>13. ASSUME NEW c \in Channel, ReadFails(c) \/ WriteFails(c) PROVE T1 /\ P1
  BY <1>1, <1>2, <1>13 DEF ReadFails, WriteFails, Kinds, T1, P1
<1>14. CASE DropPacket \/ EnterRunOne
  BY <1>1, <1>3, <1>14 DEF DropPacket, EnterRunOne, Idle, T1, P1
<1>15. CASE LeaveRunOne
  BY <1>9, <1>15 DEF LeaveRunOne
<1>16. ASSUME NEW c \in Channel, NEW q \in Seq(PacketSet), ConnectCompleted(c, q),
              draining => tasks # << >>
       PROVE  T1 /\ P1
  <2>1. T1
    BY <1>7, <1>16 DEF ConnectCompleted, T1
  <2>2. Send(c, TRUE, w_pending[c], q \o Posts(c, "create")) /\ w_pending[c] \in BOOLEAN
    BY <1>1, <1>16 DEF ConnectCompleted
  <2>3. q \o Posts(c, "create") \in Seq(PacketSet)
    BY <1>16, PostsEffect
  <2>4. P1
    BY <2>2, <2>3, SendTypes DEF P1
  <2>5. QED
    BY <2>1, <2>4
<1>17. ASSUME NEW c \in Channel, Connected(c) PROVE T1 /\ P1
  BY <1>3, <1>16, <1>17 DEF Connected, Packet, Idle
<1>18. ASSUME NEW c \in Channel, ReadCompleted(c) PROVE T1 /\ P1
  BY <1>3, <1>7, <1>18 DEF ReadCompleted, Packet, Idle, T1, P1
<1>19. ASSUME NEW c \in Channel, WriteCompleted(c) PROVE T1 /\ P1
  <2>1. Send(c, connected[c], FALSE, Tail(packets)) /\ tasks' = tasks /\ packets # << >>
    BY <1>19 DEF WriteCompleted, Packet, Idle
  <2>2. QED
    BY <1>1, <1>3, <2>1, SendTypes DEF T1, P1
<1>20. ASSUME NEW c \in Channel, NEW kind, IoBroken(c, kind) PROVE T1 /\ P1
  <2>1. T1
    BY <1>7, <1>20 DEF IoBroken, Packet, Idle, T1
  <2>2. packets' = Tail(packets) \o Posts(c, type'[c])
    BY <1>20 DEF IoBroken
  <2>3. Tail(packets) \in Seq(PacketSet)
    BY <1>3, <1>20 DEF IoBroken, Packet, Idle
  <2>4. P1
    BY <2>2, <2>3, PostsEffect DEF P1
  <2>5. QED
    BY <2>1, <2>4
<1>21. ASSUME NEW c \in Channel, ConnectTask(c) PROVE T1 /\ P1
  <2>1. tasks # << >>
    BY <1>21 DEF ConnectTask, Task
  <2>2. CASE ConnectCompleted(c, packets)
    BY <1>1, <1>16, <2>1, <2>2
  <2>3. CASE tasks' = Tail(tasks) /\ UNCHANGED packets
    BY <1>1, <1>4, <2>1, <2>3 DEF T1, P1
  <2>4. QED
    BY <1>21, <2>2, <2>3 DEF ConnectTask
<1>22. ASSUME NEW c \in Channel, SendTask(c) PROVE T1 /\ P1
  <2>1. /\ Send(c, connected[c], w_pending[c], packets) /\ tasks # << >> /\ tasks' = Tail(tasks)
        /\ w_pending[c] \in BOOLEAN
    BY <1>1, <1>22 DEF SendTask, Task
  <2>2. QED
    BY <1>1, <1>4, <2>1, SendTypes DEF T1, P1
<1>23. ASSUME NEW c \in Channel, StaleSend(c) \/ CloseTask(c) PROVE T1 /\ P1
  BY <1>1, <1>4, <1>23 DEF StaleSend, CloseTask, Task, T1, P1
<1>24. ASSUME NEW c \in Channel, CallSend(c) \/ PushMessage(c) \/ CallLost(c) PROVE T1 /\ P1
  BY <1>9, <1>24 DEF CallSend, PushMessage, CallLost
<1>25. ASSUME NEW c \in Channel, DispatchSend(c) PROVE T1 /\ P1
  BY <1>1, <1>5, <1>6, <1>25 DEF DispatchSend, T1, P1
<1>26. QED
  BY <1>9, <1>10, <1>11, <1>12, <1>13, <1>14, <1>15, <1>17, <1>18, <1>19, <1>20, <1>21,
     <1>22, <1>23, <1>24, <1>25 DEF Next, IoThread, User, vars

\* and so do the other variables
LEMMA StateTypesStep == Types /\ [Next]_vars => StateTypes'
<1> SUFFICES ASSUME Types, [Next]_vars PROVE StateTypes'
  OBVIOUS
<1> USE DEF user
<1>1. StateTypes /\ tasks \in Seq(TaskSet) /\ packets \in Seq(PacketSet)
  BY DEF Types, QueueTypes
<1>2. ASSUME UNCHANGED <<mode, channels, created, connected, type, w_pending, queued,
                         draining, ops, writing, peer, reads, told, user>>
      PROVE  StateTypes'
  BY <1>1, <1>2 DEF StateTypes, Channel
<1>3. ASSUME NEW c \in Channel,
             \/ PeerConnect(c) \/ PeerSend(c) \/ PeerReceive(c) \/ PeerClose(c)
             \/ ReadFails(c) \/ WriteFails(c)
      PROVE  StateTypes'
  <2>1. CASE PeerConnect(c)
    BY <1>1, <2>1 DEF StateTypes, PeerConnect, Channel
  <2>2. CASE PeerSend(c)
    <3>1. reads' \in [Channel -> 0 .. MaxReads] /\ ops' \subseteq ops
      BY <1>1, <2>2, ServiceAssumption DEF StateTypes, PeerSend
    <3>2. QED
      BY <1>1, <2>2, <3>1 DEF StateTypes, PeerSend, Channel
  <2>3. CASE PeerReceive(c) \/ WriteFails(c)
    <3>1. writing' = [writing EXCEPT ![c] = @ - 1] /\ writing[c] > 0
      BY <2>3 DEF PeerReceive, WriteFails
    <3>2. writing' \in [Channel -> Nat]
      BY <1>1, <3>1 DEF StateTypes
    <3>3. UNCHANGED <<mode, channels, created, connected, type, w_pending, queued,
                      draining, ops, peer, reads, told, user>>
      BY <2>3 DEF PeerReceive, WriteFails
    <3>4. QED
      BY <1>1, <3>2, <3>3 DEF StateTypes, Channel
  <2>4. CASE PeerClose(c)
    BY <1>1, <2>4 DEF StateTypes, PeerClose, Channel
  <2>5. CASE ReadFails(c)
    BY <1>1, <2>5 DEF StateTypes, ReadFails, Channel
  <2>6. QED
    BY <1>3, <2>1, <2>2, <2>3, <2>4, <2>5
<1>4. CASE DropPacket \/ EnterRunOne \/ LeaveRunOne
  BY <1>1, <1>4 DEF StateTypes, DropPacket, EnterRunOne, LeaveRunOne, Channel
<1>5. ASSUME NEW c \in Channel, NEW t \in {"unknown", "create", "read", "broken"},
             MessageHandler(c, t), draining => tasks # << >>
      PROVE  /\ channels' \subseteq Channel /\ created' \in Channel
             /\ told' \in [Channel -> {"nothing", "unknown", "create", "read", "broken"}]
  <2>1. /\ told' = [told EXCEPT ![c] = t]
        /\ channels' = IF More(t) THEN channels \cup {Successor} ELSE channels
        /\ created' = IF More(t) THEN Successor ELSE created
        /\ More(t) => Successor \in Channel
    BY <1>1, <1>5, HandlerEffect DEF StateTypes
  <2>2. QED
    BY <1>1, <2>1 DEF StateTypes
<1>6. ASSUME NEW c \in Channel
      PROVE  ops \cup ReadStarts(c) \subseteq {"connect", "read"} \X Channel
  BY <1>1 DEF StateTypes, ReadStarts
<1>7. ASSUME NEW c \in Channel, NEW up, NEW pending \in BOOLEAN, NEW q \in Seq(PacketSet),
             Send(c, up, pending, q)
      PROVE  /\ queued' \in [Channel -> Nat] /\ writing' \in [Channel -> Nat]
             /\ w_pending' \in [Channel -> BOOLEAN]
  BY <1>7, SendTypes
<1>8. ASSUME NEW c \in Channel, NEW q \in Seq(PacketSet), ConnectCompleted(c, q),
             draining => tasks # << >>, UNCHANGED <<mode, draining, peer, reads, user>>
      PROVE  StateTypes'
  <2>1. /\ channels' \subseteq Channel /\ created' \in Channel
        /\ told' \in [Channel -> {"nothing", "unknown", "create", "read", "broken"}]
    BY <1>5, <1>8 DEF ConnectCompleted
  <2>2. connected' = [connected EXCEPT ![c] = TRUE] /\ type' = [type EXCEPT ![c] = "read"]
    BY <1>8 DEF ConnectCompleted
  <2>3. ops' = ops \cup ReadStarts(c) /\ Send(c, TRUE, w_pending[c], q \o Posts(c, "create"))
    BY <1>8 DEF ConnectCompleted
  <2>4. q \o Posts(c, "create") \in Seq(PacketSet) /\ w_pending[c] \in BOOLEAN
    BY <1>1, <1>8, PostsEffect DEF StateTypes
  <2>5. /\ queued' \in [Channel -> Nat] /\ writing' \in [Channel -> Nat]
        /\ w_pending' \in [Channel -> BOOLEAN]
    BY <1>7, <2>3, <2>4
  <2>6. ops' \subseteq {"connect", "read"} \X Channel
    BY <1>6, <2>3
  <2>7. /\ connected' \in [Channel -> BOOLEAN]
        /\ type' \in [Channel -> {"unknown", "create", "read", "broken"}]
    BY <1>1, <2>2 DEF StateTypes
  <2>8. QED
    BY <1>1, <1>8, <2>1, <2>5, <2>6, <2>7 DEF StateTypes, Channel
<1>9. ASSUME NEW c \in Channel, Connected(c) PROVE StateTypes'
  BY <1>1, <1>8, <1>9, PoppedType DEF Connected, Packet, Idle
<1>10. ASSUME NEW c \in Channel, ReadCompleted(c) PROVE StateTypes'
  <2>1. MessageHandler(c, "read") /\ ~draining
    BY <1>10 DEF ReadCompleted, Packet, Idle
  <2>2. /\ channels' \subseteq Channel /\ created' \in Channel
        /\ told' \in [Channel -> {"nothing", "unknown", "create", "read", "broken"}]
    BY <1>5, <2>1
  <2>3. ops' \subseteq {"connect", "read"} \X Channel
    BY <1>6, <1>10 DEF ReadCompleted
  <2>4. QED
    BY <1>1, <1>10, <2>2, <2>3 DEF StateTypes, Channel, ReadCompleted
<1>11. ASSUME NEW c \in Channel, WriteCompleted(c) PROVE StateTypes'
  <2>1. Send(c, connected[c], FALSE, Tail(packets)) /\ packets # << >>
    BY <1>11 DEF WriteCompleted, Packet, Idle
  <2>2. /\ queued' \in [Channel -> Nat] /\ writing' \in [Channel -> Nat]
        /\ w_pending' \in [Channel -> BOOLEAN]
    BY <1>1, <1>7, <2>1, PoppedType
  <2>3. QED
    BY <1>1, <1>11, <2>2 DEF StateTypes, Channel, WriteCompleted
<1>12. ASSUME NEW c \in Channel, NEW kind, IoBroken(c, kind) PROVE StateTypes'
  <2>1. type' \in [Channel -> {"unknown", "create", "read", "broken"}]
    BY <1>1, <1>12 DEF IoBroken, StateTypes
  <2>2. MessageHandler(c, type'[c]) /\ ~draining
    BY <1>12 DEF IoBroken, Packet, Idle
  <2>3. /\ channels' \subseteq Channel /\ created' \in Channel
        /\ told' \in [Channel -> {"nothing", "unknown", "create", "read", "broken"}]
    BY <1>5, <2>1, <2>2
  <2>4. QED
    BY <1>1, <1>12, <2>1, <2>3 DEF StateTypes, Channel, IoBroken
<1>13. ASSUME NEW c \in Channel, ConnectTask(c) PROVE StateTypes'
  <2>1. UNCHANGED <<mode, draining, peer, reads, user>> /\ tasks # << >>
    BY <1>13 DEF ConnectTask, Task
  <2>2. CASE ConnectCompleted(c, packets)
    BY <1>1, <1>8, <2>1, <2>2
  <2>3. CASE /\ ops' = IF peer[c] = "none" THEN ops \cup {<<"connect", c>>} ELSE ops
             /\ type' = [type EXCEPT ![c] = "create"]
             /\ UNCHANGED <<channels, created, connected, w_pending, queued, writing, told>>
    BY <1>1, <2>1, <2>3 DEF StateTypes, Channel
  <2>4. QED
    BY <1>13, <2>2, <2>3 DEF ConnectTask
<1>14. ASSUME NEW c \in Channel, SendTask(c) PROVE StateTypes'
  <2>1. Send(c, connected[c], w_pending[c], packets) /\ w_pending[c] \in BOOLEAN
    BY <1>1, <1>14 DEF SendTask, StateTypes
  <2>2. /\ queued' \in [Channel -> Nat] /\ writing' \in [Channel -> Nat]
        /\ w_pending' \in [Channel -> BOOLEAN]
    BY <1>1, <1>7, <2>1
  <2>3. QED
    BY <1>1, <1>14, <2>2 DEF StateTypes, Channel, SendTask
<1>15. ASSUME NEW c \in Channel, StaleSend(c) \/ CloseTask(c) PROVE StateTypes'
  BY <1>1, <1>15 DEF StateTypes, Channel, CloseTask, StaleSend
<1>16. ASSUME NEW c \in Channel, CallSend(c) PROVE StateTypes'
  <2>1. sends \in [Channel -> 0 .. MaxSends] /\ calling \in [Channel -> {"no", "called", "pushed"}]
    BY <1>1 DEF StateTypes
  <2>2. /\ sends[c] < MaxSends /\ sends' = [sends EXCEPT ![c] = @ + 1]
        /\ calling' = [calling EXCEPT ![c] = "called"]
    BY <1>16 DEF CallSend
  <2>3. sends[c] + 1 \in 0 .. MaxSends
    BY <2>1, <2>2, ServiceAssumption
  <2>4. sends' \in [Channel -> 0 .. MaxSends]
    BY <2>1, <2>2, <2>3
  <2>5. calling' \in [Channel -> {"no", "called", "pushed"}]
    BY <2>1, <2>2
  <2>6. UNCHANGED <<mode, channels, created, connected, type, w_pending, queued, draining, ops,
                    writing, peer, reads, told, overtaken>>
    BY <1>16 DEF CallSend
  <2>7. QED
    BY <1>1, <2>4, <2>5, <2>6 DEF StateTypes
<1>17. ASSUME NEW c \in Channel, PushMessage(c) PROVE StateTypes'
  <2>1. queued' \in [Channel -> Nat] /\ calling' \in [Channel -> {"no", "called", "pushed"}]
    BY <1>1, <1>17 DEF StateTypes, PushMessage
  <2>2. UNCHANGED <<mode, channels, created, connected, type, w_pending, draining, ops,
                    writing, peer, sends, reads, told, overtaken>>
    BY <1>17 DEF PushMessage
  <2>3. QED
    BY <1>1, <2>1, <2>2 DEF StateTypes
<1>18. ASSUME NEW c \in Channel, DispatchSend(c) \/ CallLost(c) PROVE StateTypes'
  <2>1. calling' = [calling EXCEPT ![c] = "no"]
    BY <1>18 DEF DispatchSend, CallLost
  <2>2. overtaken' \in {overtaken, overtaken \cup {c}}
    BY <1>18 DEF DispatchSend, CallLost
  <2>3. UNCHANGED <<mode, channels, created, connected, type, w_pending, queued, draining, ops,
                    writing, peer, sends, reads, told>>
    BY <1>18 DEF DispatchSend, CallLost
  <2>4. calling' \in [Channel -> {"no", "called", "pushed"}]
    BY <1>1, <2>1 DEF StateTypes
  <2>5. overtaken' \subseteq Channel
    BY <1>1, <1>18, <2>2 DEF StateTypes
  <2>6. QED
    BY <1>1, <2>3, <2>4, <2>5 DEF StateTypes
<1>19. QED
  BY <1>2, <1>3, <1>4, <1>9, <1>10, <1>11, <1>12, <1>13, <1>14, <1>15, <1>16, <1>17, <1>18
     DEF Next, IoThread, User, vars

\* Types is inductive
LEMMA TypesStep == Types /\ [Next]_vars => Types'
  BY QueueTypesStep, StateTypesStep DEF Types

LEMMA TypesInit == Init => Types
<1> SUFFICES ASSUME Init PROVE Types
  OBVIOUS
<1>1. <<"connect", 1>> \in TaskSet /\ Worker \in PacketSet
  BY ChannelType DEF TaskSet, PacketSet
<1>2. QueueTypes
  BY <1>1 DEF Init, QueueTypes
<1>3. StateTypes
  <2>1. mode \in Modes /\ mode \in {"create", "open"} /\ 1 \in Channel
    BY ChannelType, ServiceAssumption DEF Init
  <2>2. 0 \in 0 .. MaxSends /\ 0 \in 0 .. MaxReads
    BY ServiceAssumption
  <2>3. QED
    BY <2>1, <2>2 DEF Init, StateTypes
<1>4. QED
  BY <1>2, <1>3 DEF Types

-----------------------------------------------------------------------------
(* How far a channel has come. *)

\* operations and packets of a channel: of its connection, its reads, its writes
Connecting(c) == <<"connect", c>> \in ops \/ In("connected", c, packets)
Reading(c) == <<"read", c>> \in ops \/ In("read", c, packets) \/ In("broken read", c, packets)
Writing(c) == writing[c] > 0 \/ In("written", c, packets) \/ In("broken write", c, packets)

\* the messages of a channel that are still to be written
Left(c) == queued[c] + writing[c] + (IF calling[c] = "called" THEN 1 ELSE 0)

\* what is under way for a channel tells the type of its read context
Stage(c) == /\ In("connect", c, tasks) => type[c] = "unknown" /\ (Server => ~connected[c])
            /\ Connecting(c) => type[c] = "create" /\ ~connected[c]
            /\ Reading(c) => type[c] = "read"
            /\ Writing(c) => type[c] \in {"read", "broken"} /\ sends[c] > 0
            /\ type[c] = "create" => Server
            /\ type[c] \in {"read", "broken"} \/ ~Server => connected[c]
            /\ Server /\ connected[c] => type[c] \in {"read", "broken"}
            /\ Left(c) <= sends[c]

\* of connecting, and of reading, there is one at a time
Single(c) == /\ ~(<<"connect", c>> \in ops /\ In("connected", c, packets))
             /\ ~(<<"read", c>> \in ops /\ In("read", c, packets))
             /\ ~(<<"read", c>> \in ops /\ In("broken read", c, packets))
             /\ ~(In("read", c, packets) /\ In("broken read", c, packets))
             /\ Once("connect", c, tasks) /\ Once("connected", c, packets)
             /\ Once("read", c, packets) /\ Once("broken read", c, packets)

\* A channel whose user was told that it broke is past its reads, and its sends are in
\* front of the task that closes it, unless one of them was overtaken.
Ending(c) == /\ type[c] = "broken" <=> told[c] = "broken"
             /\ told[c] # "unknown"
             /\ type[c] = "broken" \/ In("broken read", c, packets) => peer[c] = "closed"
             /\ type[c] = "broken" => ~In("written", c, packets)
             /\ In("close", c, tasks) => type[c] = "broken"
             /\ c \notin channels /\ c <= created => type[c] = "broken"
             /\ c \in overtaken \/ (/\ c \notin channels => ~In("send", c, tasks)
                                   /\ Clear("close", "send", c, tasks))
             /\ Clear("broken read", "written", c, packets)

\* a channel nobody wrote to is closed once
Unwritten(c) == sends[c] = 0 => /\ In("close", c, tasks) => c \in channels
                                /\ Once("close", c, tasks)

\* a channel that has not been created
Fresh(c) == c > created => /\ c \notin channels /\ type[c] = "unknown" /\ sends[c] = 0
                           /\ ~In("connect", c, tasks) /\ calling[c] = "no"

\* all of it
Chan(c) == Stage(c) /\ Single(c) /\ Ending(c) /\ Unwritten(c) /\ Fresh(c)

-----------------------------------------------------------------------------
(* A step that does nothing for a channel but take away. *)

\* what is left of the tasks or packets of d was there before
Fewer(q, r, d) == \A j : /\ In(j, d, r) => In(j, d, q)
                         /\ Once(j, d, q) => Once(j, d, r)
                         /\ \A i : Clear(i, j, d, q) => Clear(i, j, d, r)

\* the step gives d nothing, and leaves its state alone
Quiet(d) == /\ Fewer(tasks, tasks', d) /\ Fewer(packets, packets', d)
            /\ \A k : <<k, d>> \in ops' => <<k, d>> \in ops
            /\ mode' = mode /\ type'[d] = type[d] /\ told'[d] = told[d] /\ sends'[d] = sends[d]
            /\ connected'[d] = connected[d]
            /\ Left(d)' <= Left(d) /\ Left(d)' \in Int /\ (writing'[d] > 0 => writing[d] > 0)
            /\ (calling[d] = "no" => calling'[d] = "no") /\ (d \in overtaken => d \in overtaken')
            /\ peer'[d] = peer[d] \/ peer'[d] = "closed"
            /\ d \in channels' <=> d \in channels
            /\ d > created' <=> d > created
            /\ d <= created' <=> d <= created

\* Fewer follows from each way a queue changes
LEMMA FewerSame == ASSUME NEW q, NEW d PROVE Fewer(q, q, d)
  BY DEF Fewer

LEMMA FewerGrew ==
  ASSUME NEW q, NEW r, NEW k, NEW c, NEW d, Grew(q, r, k, c), d # c
  PROVE  Fewer(q, r, d)
  BY DEF Fewer, Grew

LEMMA FewerShrank ==
  ASSUME NEW q, NEW r, NEW k, NEW c, NEW d, Shrank(q, r, k, c)
  PROVE  Fewer(q, r, d)
  BY DEF Fewer, Shrank

LEMMA FewerTwice ==
  ASSUME NEW q, NEW r, NEW s, NEW d, Fewer(q, r, d), Fewer(r, s, d)
  PROVE  Fewer(q, s, d)
  BY DEF Fewer

\* of numbers
LEMMA AtMost == ASSUME NEW i \in Int, NEW j \in Int, NEW k \in Int, i <= j, j <= k PROVE i <= k
  OBVIOUS

\* Left counts
LEMMA LeftType ==
  ASSUME Types, NEW d \in Channel
  PROVE  /\ Left(d) \in Nat /\ queued[d] \in Nat /\ writing[d] \in Nat /\ sends[d] \in Nat
         /\ queued[d] + writing[d] <= Left(d)
         /\ calling[d] = "called" => Left(d) > 0
<1>1. queued[d] \in Nat /\ writing[d] \in Nat /\ sends[d] \in Nat
  BY ServiceAssumption DEF Types, StateTypes
<1>2. QED
  BY <1>1 DEF Left

\* such a step keeps what is known of d
LEMMA QuietChannel ==
  ASSUME Types, NEW d \in Channel, Chan(d), Quiet(d)
  PROVE  Chan(d)'
<1>1. /\ \A j : In(j, d, tasks') => In(j, d, tasks)
      /\ \A j : In(j, d, packets') => In(j, d, packets)
      /\ \A j : Once(j, d, tasks) => Once(j, d, tasks')
      /\ \A j : Once(j, d, packets) => Once(j, d, packets')
      /\ \A i, j : Clear(i, j, d, tasks) => Clear(i, j, d, tasks')
      /\ \A i, j : Clear(i, j, d, packets) => Clear(i, j, d, packets')
      /\ \A k : <<k, d>> \in ops' => <<k, d>> \in ops
      /\ mode' = mode /\ type'[d] = type[d] /\ told'[d] = told[d] /\ sends'[d] = sends[d]
      /\ connected'[d] = connected[d] /\ (writing'[d] > 0 => writing[d] > 0)
      /\ (calling[d] = "no" => calling'[d] = "no") /\ (d \in overtaken => d \in overtaken')
      /\ peer'[d] = peer[d] \/ peer'[d] = "closed"
      /\ d \in channels' <=> d \in channels
      /\ d > created' <=> d > created
      /\ d <= created' <=> d <= created
  BY DEF Quiet, Fewer
<1>2. Stage(d)'
  <2>1. Left(d)' <= sends'[d]
    <3>1. Left(d) <= sends[d] /\ Left(d) \in Int /\ sends[d] \in Int
      BY LeftType, ServiceAssumption DEF Chan, Stage, Types, StateTypes
    <3>2. QED
      BY <3>1 DEF Quiet
  <2>2. QED
    BY <1>1, <2>1 DEF Chan, Stage, Connecting, Reading, Writing, Server
<1>3. Single(d)'
  BY <1>1 DEF Chan, Single
<1>4. Ending(d)'
  BY <1>1 DEF Chan, Ending
<1>5. Unwritten(d)'
  BY <1>1 DEF Chan, Unwritten
<1>6. Fresh(d)'
  BY <1>1 DEF Chan, Fresh
<1>7. QED
  BY <1>2, <1>3, <1>4, <1>5, <1>6 DEF Chan

\* the types of the queues, for the lemmas
LEMMA TasksNow == ASSUME Types PROVE tasks \in Seq(TaskSet) /\ packets \in Seq(PacketSet)
  BY DEF Types, QueueTypes

\* what the usual changes of a queue do
LEMMA PacketAdded ==
  ASSUME Types, NEW k \in Kinds, NEW c \in Channel, packets' = Append(packets, <<k, c>>)
  PROVE  Grew(packets, packets', k, c)
<1>1. <<k, c>> \in PacketSet
  BY DEF PacketSet
<1>2. QED
  BY <1>1, TasksNow, Appended

LEMMA PacketHandled ==
  ASSUME Types, NEW k, NEW c, packets # << >>, Head(packets) = <<k, c>>
  PROVE  Shrank(packets, Tail(packets), k, c) /\ Tail(packets) \in Seq(PacketSet)
  BY TasksNow, Popped

LEMMA TaskHandled ==
  ASSUME Types, NEW k, NEW c, tasks # << >>, Head(tasks) = <<k, c>>
  PROVE  Shrank(tasks, Tail(tasks), k, c) /\ Tail(tasks) \in Seq(TaskSet)
  BY TasksNow, Popped

LEMMA WorkerWoken ==
  ASSUME NEW q \in Seq(PacketSet)
  PROVE  Grew(q, Append(q, Worker), "worker", NoChannel)
  BY Appended DEF Worker, PacketSet

\* the worker's packet is nothing to a channel
LEMMA WorkerQuiet ==
  ASSUME NEW q \in Seq(PacketSet), NEW r \in {q, Append(q, Worker)}, NEW d \in Channel
  PROVE  Fewer(q, r, d) /\ \A j : In(j, d, r) <=> In(j, d, q)
<1>1. CASE r = q
  BY <1>1, FewerSame
<1>2. CASE r = Append(q, Worker)
  <2>1. Grew(q, r, "worker", NoChannel) /\ d # NoChannel
    BY <1>2, WorkerWoken, ChannelType DEF NoChannel
  <2>2. QED
    BY <2>1, FewerGrew DEF Grew
<1>3. QED
  BY <1>1, <1>2

-----------------------------------------------------------------------------
(* The steps, one by one. *)

\* of every channel
Chans == \A c \in Channel : Chan(c)

\* what a step leaves alone, for Quiet
LEMMA Unchanged ==
  ASSUME Types, NEW d \in Channel
  PROVE  /\ Fewer(tasks, tasks, d) /\ Fewer(packets, packets, d)
         /\ Left(d) <= Left(d) /\ Left(d) \in Int
         /\ UNCHANGED <<queued, writing, calling>> => Left(d)' = Left(d)
<1>1. Left(d) \in Nat
  BY LeftType
<1>2. UNCHANGED <<queued, writing, calling>> => Left(d)' = Left(d)
  BY DEF Left
<1>3. Left(d) <= Left(d) /\ Left(d) \in Int
  BY <1>1
<1>4. QED
  BY <1>2, <1>3, FewerSame

\* a step that at most takes packets
LEMMA StutterChan ==
  ASSUME Types, Chans,
         UNCHANGED <<mode, channels, created, connected, type, queued, told, ops, writing, peer,
                     user>>,
         NEW d \in Channel, Fewer(tasks, tasks', d), Fewer(packets, packets', d)
  PROVE  Chan(d)'
  BY QuietChannel, Unchanged DEF Chans, Quiet, user

\* a client connects: the pending ConnectNamedPipe is over
LEMMA PeerConnectChan ==
  ASSUME Types, Chans, NEW c \in Channel, PeerConnect(c), NEW d \in Channel
  PROVE  Chan(d)'
<1> USE DEF PeerConnect, user
<1>1. Chan(c) /\ Chan(d) /\ Left(d)' = Left(d)
  BY Unchanged DEF Chans
<1>2. CASE <<"connect", c>> \in ops
  <2>1. Grew(packets, packets', "connected", c)
    BY <1>2, PacketAdded DEF Kinds
  <2>2. CASE d # c
    <3>1. Fewer(packets, packets', d)
      BY <2>1, <2>2, FewerGrew
    <3>2. peer'[d] = peer[d]
      BY <2>2 DEF Types, StateTypes
    <3>3. Quiet(d)
      BY <1>1, <3>1, <3>2, Unchanged DEF Quiet
    <3>4. QED
      BY <1>1, <3>3, QuietChannel
  <2>3. CASE d = c
    <3>1. peer'[c] = "open" /\ peer[c] = "none"
      BY DEF Types, StateTypes
    <3>2. /\ \A j : In(j, c, packets') <=> In(j, c, packets) \/ j = "connected"
          /\ \A j : Once(j, c, packets) /\ ~(j = "connected" /\ In(j, c, packets))
                      => Once(j, c, packets')
          /\ \A i, j : Clear(i, j, c, packets) /\ j # "connected" => Clear(i, j, c, packets')
      BY <2>1 DEF Grew
    <3>3. ~In("connected", c, packets)
      BY <1>1, <1>2 DEF Chan, Single
    <3>4. ops' = ops \ {<<"connect", c>>}
      OBVIOUS
    <3>5. Stage(c)'
      BY <1>1, <1>2, <2>3, <3>2, <3>4 DEF Chan, Stage, Connecting, Reading, Writing, Server
    <3>6. Single(c)'
      BY <1>1, <1>2, <3>2, <3>3, <3>4 DEF Chan, Single
    <3>7. Ending(c)'
      BY <1>1, <3>1, <3>2 DEF Chan, Ending
    <3>8. Unwritten(c)' /\ Fresh(c)'
      BY <1>1 DEF Chan, Unwritten, Fresh
    <3>9. QED
      BY <2>3, <3>5, <3>6, <3>7, <3>8 DEF Chan
  <2>4. QED
    BY <2>2, <2>3
<1>3. CASE <<"connect", c>> \notin ops
  <2>1. packets' = packets /\ \A k : <<k, d>> \in ops' => <<k, d>> \in ops
    BY <1>3
  <2>2. CASE d # c
    <3>1. peer'[d] = peer[d]
      BY <2>2 DEF Types, StateTypes
    <3>2. Quiet(d)
      BY <1>1, <2>1, <3>1, Unchanged DEF Quiet
    <3>3. QED
      BY <1>1, <3>2, QuietChannel
  <2>3. CASE d = c
    <3>1. peer'[c] = "open" /\ peer[c] = "none"
      BY DEF Types, StateTypes
    <3>2. QED
      BY <1>1, <2>1, <2>3, <3>1
         DEF Chan, Stage, Connecting, Reading, Writing, Server, Single, Ending, Unwritten, Fresh
  <2>4. QED
    BY <2>2, <2>3
<1>4. QED
  BY <1>2, <1>3

\* a pending write ends, or none does
LEMMA WriteEnds ==
  ASSUME Types, NEW c \in Channel, NEW d \in Channel,
         \/ writing' = writing
         \/ writing[c] > 0 /\ writing' = [writing EXCEPT ![c] = @ - 1]
  PROVE  /\ d # c => writing'[d] = writing[d]
         /\ writing'[d] <= writing[d] /\ writing'[d] \in Nat
<1>1. writing \in [Channel -> Nat]
  BY DEF Types, StateTypes
<1>2. QED
  BY <1>1

LEMMA LeftShrinks ==
  ASSUME Types, NEW d \in Channel, queued' = queued, calling' = calling,
         writing'[d] <= writing[d], writing'[d] \in Nat
  PROVE  Left(d)' <= Left(d) /\ Left(d)' \in Int
<1>1. queued[d] \in Nat /\ writing[d] \in Nat
  BY LeftType
<1>2. QED
  BY <1>1 DEF Left

\* a packet of c is put in the port by the system, and its operation is over
LEMMA OperationEnds ==
  ASSUME Types, Chans, NEW c \in Channel, NEW k \in Kinds, packets' = Append(packets, <<k, c>>),
         UNCHANGED <<mode, channels, created, connected, type, queued, tasks, peer, told, user>>,
         \/ /\ <<"read", c>> \in ops /\ ops' = ops \ {<<"read", c>>} /\ writing' = writing
            /\ k = "read" \/ (k = "broken read" /\ peer[c] = "closed")
         \/ /\ writing[c] > 0 /\ writing' = [writing EXCEPT ![c] = @ - 1] /\ ops' = ops
            /\ (k = "written" /\ peer[c] = "open") \/ k = "broken write",
         NEW d \in Channel
  PROVE  Chan(d)'
<1> USE DEF user
<1>1. Chan(c) /\ Chan(d)
  BY DEF Chans
<1>2. Grew(packets, packets', k, c)
  BY PacketAdded
<1>3. /\ \A e \in Channel : e # c => writing'[e] = writing[e]
      /\ \A e \in Channel : writing'[e] <= writing[e] /\ writing'[e] \in Nat
  BY WriteEnds
<1>4. Left(d)' <= Left(d) /\ Left(d)' \in Int
  BY <1>3, LeftShrinks
<1>5. CASE d # c
  <2>1. Fewer(packets, packets', d)
    BY <1>2, <1>5, FewerGrew
  <2>2. \A j : <<j, d>> \in ops' => <<j, d>> \in ops
    OBVIOUS
  <2>3. Quiet(d)
    BY <1>3, <1>4, <1>5, <2>1, <2>2, Unchanged DEF Quiet
  <2>4. QED
    BY <1>1, <2>3, QuietChannel
<1>6. CASE d = c
  <2>1. /\ \A j : In(j, c, packets') <=> In(j, c, packets) \/ j = k
        /\ \A j : Once(j, c, packets) /\ ~(j = k /\ In(j, c, packets)) => Once(j, c, packets')
        /\ \A i, j : Clear(i, j, c, packets) /\ ~(j = k /\ In(i, c, packets))
                       => Clear(i, j, c, packets')
    BY <1>2 DEF Grew
  <2>2. k # "connected" /\ (\A j : <<j, c>> \in ops' => <<j, c>> \in ops)
    OBVIOUS
  <2>3. k \in {"read", "broken read"}
          => type[c] = "read" /\ ~In("read", c, packets) /\ ~In("broken read", c, packets)
    BY <1>1 DEF Chan, Stage, Single, Reading
  <2>4. k \in {"written", "broken write"} => Writing(c)
    BY DEF Writing
  <2>5. /\ Reading(c)' => Reading(c)
        /\ Connecting(c)' => Connecting(c)
    BY <2>1, <2>2 DEF Reading, Connecting
  <2>6. writing'[c] > 0 => writing[c] > 0
    BY <1>3, LeftType
  <2>7. Writing(c)' => Writing(c)
    BY <2>1, <2>4, <2>6 DEF Writing
  <2>8. Stage(c)'
    <3>1. Left(c)' <= sends'[c]
      <4>1. Left(c) <= sends[c] /\ Left(c)' <= Left(c) /\ Left(c)' \in Int
        BY <1>1, <1>4, <1>6 DEF Chan, Stage
      <4>2. sends'[c] = sends[c] /\ sends[c] \in Nat /\ Left(c) \in Nat
        BY LeftType
      <4>3. QED
        BY ONLY <4>1, <4>2, AtMost
    <3>2. QED
      BY <1>1, <2>1, <2>5, <2>7, <3>1 DEF Chan, Stage, Server
  <2>9. Single(c)'
    BY <1>1, <2>1, <2>2, <2>3 DEF Chan, Single
  <2>10. Ending(c)'
    <3>1. k = "written" => ~In("broken read", c, packets) /\ type[c] # "broken"
      BY <1>1 DEF Chan, Ending
    <3>2. Clear("broken read", "written", c, packets')
      BY <1>1, <2>1, <3>1 DEF Chan, Ending
    <3>3. type'[c] = "broken" => ~In("written", c, packets')
      BY <1>1, <2>1, <3>1 DEF Chan, Ending
    <3>4. type'[c] = "broken" \/ In("broken read", c, packets') => peer'[c] = "closed"
      BY <1>1, <2>1 DEF Chan, Ending
    <3>5. QED
      BY <1>1, <3>2, <3>3, <3>4 DEF Chan, Ending
  <2>11. Unwritten(c)' /\ Fresh(c)'
    BY <1>1 DEF Chan, Unwritten, Fresh
  <2>12. QED
    BY <1>6, <2>8, <2>9, <2>10, <2>11 DEF Chan
<1>7. QED
  BY <1>5, <1>6

\* what the peer and the system do with the pending operations
LEMMA SystemChan ==
  ASSUME Types, Chans, NEW c \in Channel,
         PeerSend(c) \/ PeerReceive(c) \/ ReadFails(c) \/ WriteFails(c),
         NEW d \in Channel
  PROVE  Chan(d)'
<1>1. CASE PeerSend(c)
  BY <1>1, OperationEnds DEF PeerSend, Kinds
<1>2. CASE PeerReceive(c)
  BY <1>2, OperationEnds DEF PeerReceive, Kinds
<1>3. CASE ReadFails(c)
  BY <1>3, OperationEnds DEF ReadFails, Kinds
<1>4. CASE WriteFails(c)
  BY <1>4, OperationEnds DEF WriteFails, Kinds
<1>5. QED
  BY <1>1, <1>2, <1>3, <1>4

\* the peer closes its end
LEMMA PeerCloseChan ==
  ASSUME Types, Chans, NEW c \in Channel, PeerClose(c), NEW d \in Channel
  PROVE  Chan(d)'
<1>1. peer'[d] = peer[d] \/ peer'[d] = "closed"
  BY DEF PeerClose, Types, StateTypes
<1>2. Quiet(d)
  BY <1>1, Unchanged DEF PeerClose, Quiet, user
<1>3. QED
  BY <1>2, QuietChannel DEF Chans

\* taking any packet leaves fewer
LEMMA PacketDropped ==
  ASSUME Types, packets # << >>
  PROVE  \A d : Fewer(packets, Tail(packets), d)
<1>1. Head(packets) \in PacketSet
  BY TasksNow, PoppedType
<1>2. PICK k, c : Head(packets) = <<k, c>>
  BY <1>1 DEF PacketSet, Worker
<1>3. QED
  BY <1>2, PacketHandled, FewerShrank

\* the worker, and packets that name nobody
LEMMA WorkerChan ==
  ASSUME Types, Chans, DropPacket \/ EnterRunOne \/ LeaveRunOne, NEW d \in Channel
  PROVE  Chan(d)'
<1>1. UNCHANGED <<mode, channels, created, connected, type, queued, told, ops, writing, peer,
                  user, tasks>>
  BY DEF DropPacket, EnterRunOne, LeaveRunOne
<1>2. Fewer(packets, packets', d)
  BY PacketDropped, FewerSame DEF DropPacket, EnterRunOne, LeaveRunOne, Idle
<1>3. QED
  BY <1>1, <1>2, StutterChan, Unchanged

\* what send() does: at most one message leaves the queue of c, and its packet is in the
\* port if the write finished at once
LEMMA SendEffect ==
  ASSUME Types, NEW c \in Channel, NEW up, NEW pending, NEW q \in Seq(PacketSet),
         Send(c, up, pending, q), UNCHANGED calling
  PROVE  /\ \A d \in Channel : d # c => /\ Left(d)' = Left(d) /\ writing'[d] = writing[d]
                                       /\ Fewer(q, packets', d)
         /\ Left(c)' <= Left(c) /\ Left(c)' \in Nat
         /\ \/ packets' = q /\ writing' = writing
            \/ /\ up /\ queued[c] > 0 /\ peer[c] = "open"
               /\ packets' = q \/ Grew(q, packets', "written", c)
<1>1. PICK outcome \in Outcomes(c, up, pending) :
        /\ queued' = [queued EXCEPT ![c] = @ - (IF outcome = "nothing" THEN 0 ELSE 1)]
        /\ writing' = [writing EXCEPT ![c] = @ + (IF outcome = "pends" THEN 1 ELSE 0)]
        /\ packets' = IF outcome = "finishes" THEN Append(q, <<"written", c>>) ELSE q
  BY DEF Send
<1>2. /\ queued \in [Channel -> Nat] /\ writing \in [Channel -> Nat]
  BY DEF Types, StateTypes
<1>3. /\ outcome \in {"nothing", "pends", "finishes", "fails"}
      /\ outcome # "nothing" => up /\ queued[c] # 0
      /\ outcome \in {"pends", "finishes"} => peer[c] = "open"
  BY DEF Outcomes
<1>4. queued[c] \in Nat /\ (queued[c] # 0 => queued[c] > 0)
  BY <1>2
<1>5. <<"written", c>> \in PacketSet
  BY DEF PacketSet, Kinds
<1>6. outcome = "finishes" => Grew(q, packets', "written", c)
  BY <1>1, <1>5, Appended
<1>7. ASSUME NEW d \in Channel, d # c
      PROVE  Left(d)' = Left(d) /\ writing'[d] = writing[d] /\ Fewer(q, packets', d)
  <2>1. queued'[d] = queued[d] /\ writing'[d] = writing[d] /\ calling' = calling
    BY <1>1, <1>2, <1>7
  <2>2. Fewer(q, packets', d)
    BY <1>1, <1>6, <1>7, FewerSame, FewerGrew
  <2>3. QED
    BY <2>1, <2>2 DEF Left
<1>8. Left(c)' <= Left(c) /\ Left(c)' \in Nat
  <2>1. /\ queued'[c] = queued[c] - (IF outcome = "nothing" THEN 0 ELSE 1)
        /\ writing'[c] = writing[c] + (IF outcome = "pends" THEN 1 ELSE 0)
        /\ calling' = calling /\ writing[c] \in Nat
    BY <1>1, <1>2
  <2>2. /\ queued'[c] + writing'[c] <= queued[c] + writing[c]
        /\ queued'[c] \in Nat /\ writing'[c] \in Nat
    BY <1>3, <1>4, <2>1
  <2>3. QED
    BY <1>4, <2>1, <2>2 DEF Left
<1>9. outcome \in {"nothing", "fails"} => packets' = q /\ writing' = writing
  BY <1>1, <1>2
<1>10. QED
  BY <1>1, <1>3, <1>4, <1>6, <1>7, <1>8, <1>9

\* send(), after a task or a packet was taken: it may start a write
LEMMA SendingChan ==
  ASSUME Types, Chans, NEW c \in Channel, NEW p, NEW q \in Seq(PacketSet), NEW d \in Channel,
         \A e \in Channel : Fewer(tasks, tasks', e) /\ Fewer(packets, q, e),
         Send(c, connected[c], p, q),
         connected[c] => type[c] \in {"read", "broken"},
         UNCHANGED <<mode, channels, created, connected, type, ops, peer, told, user>>
  PROVE  Chan(d)'
<1> USE DEF user
<1>1. Chan(c) /\ Chan(d)
  BY DEF Chans
<1>2. /\ \A e \in Channel : e # c => /\ Left(e)' = Left(e) /\ writing'[e] = writing[e]
                                    /\ Fewer(q, packets', e)
      /\ Left(c)' <= Left(c) /\ Left(c)' \in Nat
      /\ \/ packets' = q /\ writing' = writing
         \/ /\ connected[c] /\ queued[c] > 0 /\ peer[c] = "open"
            /\ packets' = q \/ Grew(q, packets', "written", c)
  BY SendEffect
<1>3. Left(d)' <= Left(d) /\ Left(d)' \in Int
  BY <1>2, Unchanged
<1>4. CASE d # c \/ (packets' = q /\ writing' = writing)
  <2>1. Fewer(packets, packets', d) /\ writing'[d] = writing[d]
    BY <1>2, <1>4, FewerTwice
  <2>2. Quiet(d)
    BY <1>3, <2>1, Unchanged DEF Quiet
  <2>3. QED
    BY <1>1, <2>2, QuietChannel
<1>5. CASE d = c /\ ~(packets' = q /\ writing' = writing)
  <2>1. connected[c] /\ queued[c] > 0 /\ peer[c] = "open" /\ type[c] = "read"
    BY <1>1, <1>2, <1>5 DEF Chan, Ending
  <2>2. /\ \A j : In(j, c, q) => In(j, c, packets)
        /\ \A j : Once(j, c, packets) => Once(j, c, q)
        /\ \A i, j : Clear(i, j, c, packets) => Clear(i, j, c, q)
        /\ \A j : In(j, c, tasks') => In(j, c, tasks)
        /\ \A j : Once(j, c, tasks) => Once(j, c, tasks')
        /\ \A i, j : Clear(i, j, c, tasks) => Clear(i, j, c, tasks')
    BY DEF Fewer
  <2>3. ~In("broken read", c, packets)
    BY <1>1, <2>1 DEF Chan, Ending
  <2>4. /\ \A j : In(j, c, packets') => In(j, c, q) \/ j = "written"
        /\ \A j : Once(j, c, q) /\ j # "written" => Once(j, c, packets')
        /\ \A i, j : Clear(i, j, c, q) /\ ~(j = "written" /\ In(i, c, q))
                       => Clear(i, j, c, packets')
    <3>1. CASE packets' = q
      BY <3>1
    <3>2. CASE Grew(q, packets', "written", c)
      BY <3>2 DEF Grew
    <3>3. QED
      BY <1>2, <1>5, <3>1, <3>2
  <2>5. /\ \A j : In(j, c, packets') => In(j, c, packets) \/ j = "written"
        /\ \A j : Once(j, c, packets) /\ j # "written" => Once(j, c, packets')
        /\ Clear("broken read", "written", c, packets')
    BY <1>1, <2>2, <2>3, <2>4 DEF Chan, Ending
  <2>6. Left(c)' <= sends'[c] /\ sends[c] > 0
    <3>1. /\ queued[c] + writing[c] <= Left(c) /\ Left(c) \in Nat /\ queued[c] \in Nat
          /\ writing[c] \in Nat /\ sends[c] \in Nat
      BY LeftType
    <3>2. Left(c) <= sends[c] /\ sends' = sends
      BY <1>1 DEF Chan, Stage
    <3>3. QED
      BY <1>2, <2>1, <3>1, <3>2
  <2>7. Stage(c)'
    <3>1. (Reading(c)' => Reading(c)) /\ (Connecting(c)' => Connecting(c))
      BY <2>5 DEF Reading, Connecting
    <3>2. QED
      BY <1>1, <2>1, <2>2, <2>6, <3>1 DEF Chan, Stage, Server
  <2>8. Single(c)'
    BY <1>1, <2>2, <2>5 DEF Chan, Single
  <2>9. Ending(c)'
    BY <1>1, <2>1, <2>2, <2>5 DEF Chan, Ending
  <2>10. Unwritten(c)' /\ Fresh(c)'
    BY <1>1, <2>2 DEF Chan, Unwritten, Fresh
  <2>11. QED
    BY <1>5, <2>7, <2>8, <2>9, <2>10 DEF Chan
<1>6. QED
  BY <1>4, <1>5

\* send_completed
LEMMA WriteCompletedChan ==
  ASSUME Types, Chans, NEW c \in Channel, WriteCompleted(c), NEW d \in Channel
  PROVE  Chan(d)'
<1> USE DEF WriteCompleted, Packet, Idle
<1>1. Shrank(packets, Tail(packets), "written", c) /\ Tail(packets) \in Seq(PacketSet)
  BY PacketHandled
<1>2. \A e \in Channel : Fewer(packets, Tail(packets), e) /\ Fewer(tasks, tasks', e)
  BY <1>1, FewerShrank, FewerSame
<1>3. In("written", c, packets)
  BY <1>1 DEF Shrank
<1>4. type[c] \in {"read", "broken"}
  BY <1>3 DEF Chans, Chan, Stage, Writing
<1>5. /\ Send(c, connected[c], FALSE, Tail(packets))
      /\ UNCHANGED <<mode, channels, created, connected, type, ops, peer, told, user>>
  OBVIOUS
<1>6. QED
  BY <1>1, <1>2, <1>4, <1>5, SendingChan

\* On a pipe that was opened the connect task comes first.
First == mode = "open" /\ type[1] = "unknown" => tasks # << >> /\ Head(tasks) = <<"connect", 1>>

\* such a pipe has one channel
OneClient == mode = "open" => created = 1

LEMMA TwoModes == ASSUME Types PROVE mode = "open" <=> ~Server
  BY ServiceAssumption DEF Types, StateTypes, Server

\* the send task: by First its channel has been through its connect task
LEMMA SendTaskChan ==
  ASSUME Types, Chans, First, OneClient, NEW c \in Channel, SendTask(c), NEW d \in Channel
  PROVE  Chan(d)'
<1> USE DEF SendTask, Task
<1>1. Shrank(tasks, Tail(tasks), "send", c)
  BY TaskHandled
<1>2. \A e \in Channel : Fewer(packets, packets, e) /\ Fewer(tasks, tasks', e)
  BY <1>1, FewerShrank, FewerSame
<1>3. c \in channels
  OBVIOUS
<1>4. /\ Send(c, connected[c], w_pending[c], packets) /\ packets \in Seq(PacketSet)
      /\ UNCHANGED <<mode, channels, created, connected, type, ops, peer, told, user>>
  BY TasksNow
<1>5. connected[c] => type[c] \in {"read", "broken"}
  <2>1. CASE Server
    BY <2>1 DEF Chans, Chan, Stage
  <2>2. CASE ~Server
    <3>1. created = 1 /\ c \in Nat \ {0} /\ ~(c > created)
      BY <1>3, <2>2, TwoModes, ChannelType DEF OneClient, Chans, Chan, Fresh
    <3>2. c = 1
      BY <3>1
    <3>3. type[c] # "unknown"
      BY <2>2, <3>2, TwoModes DEF First
    <3>4. type[c] # "create"
      BY <2>2 DEF Chans, Chan, Stage
    <3>5. QED
      BY <3>3, <3>4 DEF Types, StateTypes
  <2>3. QED
    BY <2>1, <2>2
<1>6. QED
  BY <1>2, <1>4, <1>5, SendingChan

\* the send task of a channel that is gone
LEMMA StaleSendChan ==
  ASSUME Types, Chans, NEW c \in Channel, StaleSend(c), NEW d \in Channel
  PROVE  Chan(d)'
<1> USE DEF StaleSend, Task
<1>1. Shrank(tasks, Tail(tasks), "send", c)
  BY TaskHandled
<1>2. Fewer(packets, packets', d) /\ Fewer(tasks, tasks', d)
  BY <1>1, FewerShrank, FewerSame
<1>3. QED
  BY <1>2, StutterChan

\* send_message
LEMMA CallSendChan ==
  ASSUME Types, Chans, NEW c \in Channel, CallSend(c), NEW d \in Channel
  PROVE  Chan(d)'
<1> USE DEF CallSend
<1>1. Chan(c) /\ Chan(d)
  BY DEF Chans
<1>2. d # c => calling'[d] = calling[d] /\ sends'[d] = sends[d]
  BY DEF Types, StateTypes
<1>3. CASE d # c
  <2>1. Left(d)' = Left(d)
    BY <1>2, <1>3 DEF Left
  <2>2. Quiet(d)
    BY <1>2, <1>3, <2>1, Unchanged DEF Quiet
  <2>3. QED
    BY <1>1, <2>2, QuietChannel
<1>4. CASE d = c
  <2>1. /\ queued[c] \in Nat /\ writing[c] \in Nat /\ sends[c] \in Nat /\ calling[c] = "no"
        /\ sends'[c] = sends[c] + 1 /\ calling'[c] = "called"
    BY LeftType DEF Types, StateTypes
  <2>2. Left(c) <= sends[c]
    BY <1>1 DEF Chan, Stage
  <2>3. Left(c)' = Left(c) + 1
    BY <2>1 DEF Left
  <2>4. Left(c)' <= sends'[c] /\ sends'[c] > 0 /\ sends'[c] # 0
    BY <2>1, <2>2, <2>3, LeftType
  <2>5. Stage(c)'
    BY <1>1, <2>4 DEF Chan, Stage, Connecting, Reading, Writing, Server
  <2>6. Single(c)' /\ Ending(c)'
    BY <1>1 DEF Chan, Single, Ending
  <2>7. Unwritten(c)'
    BY <2>4 DEF Unwritten
  <2>8. Fresh(c)'
    BY <1>1 DEF Chan, Fresh
  <2>9. QED
    BY <1>4, <2>5, <2>6, <2>7, <2>8 DEF Chan
<1>5. QED
  BY <1>3, <1>4

LEMMA PushMessageChan ==
  ASSUME Types, Chans, NEW c \in Channel, PushMessage(c), NEW d \in Channel
  PROVE  Chan(d)'
<1> USE DEF PushMessage
<1>1. Chan(c) /\ Chan(d)
  BY DEF Chans
<1>2. Left(d)' = Left(d)
  <2>1. CASE d # c
    BY <2>1 DEF Left, Types, StateTypes
  <2>2. CASE d = c
    <3>1. /\ queued[c] \in Nat /\ writing[c] \in Nat /\ calling[c] = "called"
          /\ queued'[c] = queued[c] + 1 /\ calling'[c] = "pushed" /\ writing'[c] = writing[c]
      BY LeftType DEF Types, StateTypes
    <3>2. QED
      BY <2>2, <3>1 DEF Left
  <2>3. QED
    BY <2>1, <2>2
<1>3. calling[d] = "no" => calling'[d] = "no"
  BY DEF Types, StateTypes
<1>4. Quiet(d)
  BY <1>2, <1>3, Unchanged DEF Quiet
<1>5. QED
  BY <1>1, <1>4, QuietChannel

LEMMA CallLostChan ==
  ASSUME Types, Chans, NEW c \in Channel, CallLost(c), NEW d \in Channel
  PROVE  Chan(d)'
<1> USE DEF CallLost
<1>1. Chan(c) /\ Chan(d)
  BY DEF Chans
<1>2. calling'[d] = calling[d] \/ calling'[d] = "no"
  BY DEF Types, StateTypes
<1>3. Left(d)' <= Left(d) /\ Left(d)' \in Int
  <2>1. queued[d] \in Nat /\ writing[d] \in Nat /\ queued'[d] = queued[d] /\ writing'[d] = writing[d]
    BY LeftType
  <2>2. QED
    BY <1>2, <2>1 DEF Left
<1>4. Quiet(d)
  BY <1>2, <1>3, Unchanged DEF Quiet
<1>5. QED
  BY <1>1, <1>4, QuietChannel

LEMMA DispatchSendChan ==
  ASSUME Types, Chans, NEW c \in Channel, DispatchSend(c), NEW d \in Channel
  PROVE  Chan(d)'
<1> USE DEF DispatchSend
<1>1. Chan(c) /\ Chan(d)
  BY DEF Chans
<1>2. Grew(tasks, tasks', "send", c)
  <2>1. <<"send", c>> \in TaskSet
    BY DEF TaskSet
  <2>2. QED
    BY <2>1, TasksNow, Appended
<1>3. \A e \in Channel : /\ Fewer(packets, packets', e)
                         /\ \A j : In(j, e, packets') <=> In(j, e, packets)
  BY TasksNow, WorkerQuiet
<1>4. /\ calling[c] = "pushed" /\ calling'[c] = "no"
      /\ d # c => calling'[d] = calling[d]
  BY DEF Types, StateTypes
<1>5. Left(d)' = Left(d)
  BY <1>4 DEF Left
<1>6. CASE d # c
  <2>1. Fewer(tasks, tasks', d)
    BY <1>2, <1>6, FewerGrew
  <2>2. Quiet(d)
    BY <1>3, <1>4, <1>5, <1>6, <2>1, Unchanged DEF Quiet
  <2>3. QED
    BY <1>1, <2>2, QuietChannel
<1>7. CASE d = c
  <2>1. /\ \A j : In(j, c, tasks') <=> In(j, c, tasks) \/ j = "send"
        /\ \A j : Once(j, c, tasks) /\ j # "send" => Once(j, c, tasks')
        /\ \A i, j : Clear(i, j, c, tasks) /\ ~(j = "send" /\ In(i, c, tasks))
                       => Clear(i, j, c, tasks')
    BY <1>2 DEF Grew
  <2>2. /\ \A j : In(j, c, packets') => In(j, c, packets)
        /\ \A j : Once(j, c, packets) => Once(j, c, packets')
        /\ \A i, j : Clear(i, j, c, packets) => Clear(i, j, c, packets')
    BY <1>3 DEF Fewer
  <2>3. ~(c > created) /\ c <= created
    <3>1. ~(c > created)
      BY <1>1, <1>4 DEF Chan, Fresh
    <3>2. c \in Nat /\ created \in Nat
      BY ChannelType DEF Types, StateTypes
    <3>3. QED
      BY <3>1, <3>2
  <2>4. c \in overtaken' \/ (c \in channels /\ ~In("close", c, tasks) /\ overtaken' = overtaken)
    BY <1>1, <2>3 DEF Chan, Ending
  <2>5. c \in overtaken => c \in overtaken'
    OBVIOUS
  <2>6. Stage(c)'
    BY <1>1, <1>5, <1>7, <2>1, <2>2 DEF Chan, Stage, Connecting, Reading, Writing, Server
  <2>7. Single(c)'
    BY <1>1, <2>1, <2>2 DEF Chan, Single
  <2>8. Ending(c)'
    <3>1. c \in overtaken' \/ (c \in channels' /\ Clear("close", "send", c, tasks'))
      BY <1>1, <2>1, <2>4, <2>5 DEF Chan, Ending
    <3>2. QED
      BY <1>1, <2>1, <2>2, <3>1 DEF Chan, Ending
  <2>9. Unwritten(c)'
    BY <1>1, <2>1 DEF Chan, Unwritten
  <2>10. Fresh(c)'
    BY <2>3 DEF Fresh
  <2>11. QED
    BY <1>7, <2>6, <2>7, <2>8, <2>9, <2>10 DEF Chan
<1>8. QED
  BY <1>6, <1>7

\* close_channel: by Clear no send task is behind it, unless its call was overtaken
LEMMA CloseTaskChan ==
  ASSUME Types, Chans, NEW c \in Channel, CloseTask(c), NEW d \in Channel
  PROVE  Chan(d)'
<1> USE DEF CloseTask, Task, user
<1>1. Chan(c) /\ Chan(d) /\ Left(d)' = Left(d)
  BY Unchanged DEF Chans
<1>2. Shrank(tasks, tasks', "close", c)
  BY TaskHandled
<1>3. Fewer(tasks, tasks', d) /\ Fewer(packets, packets', d)
  BY <1>2, FewerShrank, FewerSame
<1>4. peer'[d] = peer[d] \/ peer'[d] = "closed"
  BY DEF Types, StateTypes
<1>5. CASE d # c
  <2>1. Quiet(d)
    BY <1>1, <1>3, <1>4, <1>5, Unchanged DEF Quiet
  <2>2. QED
    BY <1>1, <2>1, QuietChannel
<1>6. CASE d = c
  <2>1. /\ \A j : In(j, c, tasks') => In(j, c, tasks)
        /\ \A j : Once(j, c, tasks) => Once(j, c, tasks')
        /\ \A i, j : Clear(i, j, c, tasks) => Clear(i, j, c, tasks')
        /\ In("close", c, tasks)
        /\ Once("close", c, tasks) => ~In("close", c, tasks')
        /\ Clear("close", "send", c, tasks) => ~In("send", c, tasks')
    BY <1>2 DEF Shrank
  <2>2. type[c] = "broken"
    BY <1>1, <2>1 DEF Chan, Ending
  <2>3. Stage(c)'
    BY <1>1, <1>6, <2>1 DEF Chan, Stage, Connecting, Reading, Writing, Server
  <2>4. Single(c)'
    BY <1>1, <2>1 DEF Chan, Single
  <2>5. Ending(c)'
    <3>1. c \in overtaken' \/ (~In("send", c, tasks') /\ Clear("close", "send", c, tasks'))
      BY <1>1, <2>1 DEF Chan, Ending
    <3>2. QED
      BY <1>1, <1>4, <1>6, <2>1, <2>2, <3>1 DEF Chan, Ending
  <2>6. Unwritten(c)' /\ Fresh(c)'
    BY <1>1, <2>1, <2>2 DEF Chan, Unwritten, Fresh
  <2>7. QED
    BY <1>6, <2>3, <2>4, <2>5, <2>6 DEF Chan
<1>7. QED
  BY <1>5, <1>6

\* what is left of the port's queue when a packet of c was handled
LEMMA PacketGone ==
  ASSUME Types, NEW k, NEW c \in Channel, NEW t, packets # << >>, Head(packets) = <<k, c>>,
         packets' \in {Tail(packets), Tail(packets) \o Posts(c, t)}
  PROVE  /\ \A d \in Channel : Fewer(packets, packets', d)
         /\ In(k, c, packets)
         /\ Once(k, c, packets) => ~In(k, c, packets')
         /\ \A j : Clear(k, j, c, packets) => ~In(j, c, packets')
         /\ \A j, d : d \in Channel /\ In(j, d, packets) => In(j, d, packets') \/ (j = k /\ d = c)
<1> DEFINE rest == Tail(packets)
<1>1. Shrank(packets, rest, k, c) /\ rest \in Seq(PacketSet)
  BY PacketHandled
<1> HIDE DEF rest
<1>2. packets' \in {rest, Append(rest, Worker)}
  BY <1>1, PostsEffect DEF rest
<1>3. \A d \in Channel : Fewer(rest, packets', d) /\ \A j : In(j, d, packets') <=> In(j, d, rest)
  BY <1>1, <1>2, WorkerQuiet
<1>4. \A d \in Channel : Fewer(packets, packets', d)
  BY <1>1, <1>3, FewerShrank, FewerTwice
<1>5. /\ In(k, c, packets)
      /\ \A j, d : In(j, d, packets) => In(j, d, rest) \/ (j = k /\ d = c)
      /\ Once(k, c, packets) => ~In(k, c, rest)
      /\ \A j : Clear(k, j, c, packets) => ~In(j, c, rest)
  BY <1>1 DEF Shrank
<1>6. QED
  BY <1>3, <1>4, <1>5

\* receive_completed
LEMMA ReadCompletedChan ==
  ASSUME Types, Chans, NEW c \in Channel, ReadCompleted(c), NEW d \in Channel
  PROVE  Chan(d)'
<1> USE DEF ReadCompleted, Packet, Idle, user
<1>1. Chan(c) /\ Chan(d) /\ Left(d)' = Left(d)
  BY Unchanged DEF Chans
<1>2. /\ \A e \in Channel : Fewer(packets, packets', e)
      /\ In("read", c, packets)
      /\ Once("read", c, packets) => ~In("read", c, packets')
  BY PacketGone
<1>3. type[c] = "read" /\ ~In("broken read", c, packets) /\ ~In("read", c, packets')
  BY <1>1, <1>2 DEF Chan, Stage, Reading, Single
<1>4. /\ tasks' = tasks /\ told' = [told EXCEPT ![c] = "read"]
      /\ channels' = channels /\ created' = created
  <2>1. ~More("read") /\ "read" # "broken" /\ Base = tasks
    BY DEF More, Base
  <2>2. QED
    BY <2>1, HandlerEffect DEF Types, QueueTypes, StateTypes
<1>5. ReadStarts(c) \subseteq {<<"read", c>>}
  BY DEF ReadStarts
<1>6. CASE d # c
  <2>1. \A k : <<k, d>> \in ops' => <<k, d>> \in ops
    BY <1>5, <1>6
  <2>2. told'[d] = told[d]
    BY <1>4, <1>6 DEF Types, StateTypes
  <2>3. Quiet(d)
    BY <1>1, <1>2, <1>4, <2>1, <2>2, Unchanged DEF Quiet
  <2>4. QED
    BY <1>1, <2>3, QuietChannel
<1>7. CASE d = c
  <2>1. /\ \A j : In(j, c, packets') => In(j, c, packets)
        /\ \A j : Once(j, c, packets) => Once(j, c, packets')
        /\ \A i, j : Clear(i, j, c, packets) => Clear(i, j, c, packets')
    BY <1>2 DEF Fewer
  <2>2. \A k : <<k, c>> \in ops' => <<k, c>> \in ops \/ k = "read"
    BY <1>5
  <2>3. told'[c] = "read" /\ type' = type
    BY <1>4 DEF Types, StateTypes
  <2>4. Stage(c)'
    BY <1>1, <1>3, <1>4, <1>7, <2>1, <2>2, <2>3
       DEF Chan, Stage, Connecting, Reading, Writing, Server
  <2>5. Single(c)'
    BY <1>1, <1>3, <1>4, <2>1, <2>2 DEF Chan, Single
  <2>6. Ending(c)'
    BY <1>1, <1>3, <1>4, <2>1, <2>3 DEF Chan, Ending
  <2>7. Unwritten(c)' /\ Fresh(c)'
    BY <1>1, <1>4 DEF Chan, Unwritten, Fresh
  <2>8. QED
    BY <1>7, <2>4, <2>5, <2>6, <2>7 DEF Chan
<1>8. QED
  BY <1>6, <1>7

\* who has a write under way has sent something
LEMMA WritersWrite ==
  ASSUME Types, NEW c \in Channel, Chan(c), Writing(c)
  PROVE  sends[c] # 0
<1>1. sends[c] > 0 /\ sends[c] \in Nat
  BY ServiceAssumption DEF Chan, Stage, Types, StateTypes
<1>2. QED
  BY <1>1

\* both kinds: the read context says broken afterwards, and the channel will be
\* closed, or it does not and nothing more happens
LEMMA IoBrokenChan ==
  ASSUME Types, Chans, NEW c \in Channel, NEW kind \in {"broken read", "broken write"},
         IoBroken(c, kind), NEW d \in Channel
  PROVE  Chan(d)'
<1> USE DEF user
<1> DEFINE now == type'[c]
<1>1. Chan(c) /\ Chan(d)
  BY DEF Chans
<1>2. /\ packets # << >> /\ Head(packets) = <<kind, c>> /\ c \in channels /\ ~draining
      /\ type' = [type EXCEPT ![c] = IF kind = "broken read" THEN "broken" ELSE type[c]]
      /\ MessageHandler(c, now)
      /\ packets' = Tail(packets) \o Posts(c, now)
      /\ UNCHANGED <<mode, connected, queued, ops, writing, peer, user>> /\ Left(d)' = Left(d)
  BY Unchanged DEF IoBroken, Packet, Idle
<1>3. /\ \A e \in Channel : Fewer(packets, packets', e)
      /\ In(kind, c, packets)
      /\ Once(kind, c, packets) => ~In(kind, c, packets')
      /\ \A j : Clear(kind, j, c, packets) => ~In(j, c, packets')
  BY <1>2, PacketGone
<1>4. type[c] \in {"read", "broken"} /\ (kind = "broken read" => type[c] = "read")
  BY <1>1, <1>3 DEF Chan, Stage, Reading, Writing
<1>5. /\ now = IF kind = "broken read" THEN "broken" ELSE type[c]
      /\ d # c => type'[d] = type[d]
  BY <1>2 DEF Types, StateTypes
<1>6. now \in {"read", "broken"}
  BY <1>4, <1>5
<1> HIDE DEF now
<1>7. /\ told' = [told EXCEPT ![c] = now]
      /\ channels' = channels /\ created' = created
      /\ now = "broken" => tasks' = Append(tasks, <<"close", c>>)
      /\ now = "read" => tasks' = tasks
  <2>1. ~More(now) /\ Base = tasks
    BY <1>2, <1>6 DEF More, Base
  <2>2. QED
    BY <1>2, <1>6, <2>1, HandlerEffect DEF Types, QueueTypes, StateTypes
<1>8. now = "broken" => Grew(tasks, tasks', "close", c)
  <2>1. <<"close", c>> \in TaskSet
    BY DEF TaskSet
  <2>2. QED
    BY <1>7, <2>1, TasksNow, Appended
<1>9. CASE d # c
  <2>1. Fewer(tasks, tasks', d)
    BY <1>6, <1>7, <1>8, <1>9, FewerGrew, FewerSame
  <2>2. told'[d] = told[d]
    BY <1>7, <1>9 DEF Types, StateTypes
  <2>3. Quiet(d)
    BY <1>2, <1>3, <1>5, <1>7, <1>9, <2>1, <2>2, Unchanged DEF Quiet
  <2>4. QED
    BY <1>1, <2>3, QuietChannel
<1>10. CASE d = c
  <2>1. /\ \A j : In(j, c, packets') => In(j, c, packets)
        /\ \A j : Once(j, c, packets) => Once(j, c, packets')
        /\ \A i, j : Clear(i, j, c, packets) => Clear(i, j, c, packets')
    BY <1>3 DEF Fewer
  <2>2. told'[c] = now /\ type'[c] = now
    BY <1>7 DEF Types, StateTypes, now
  <2>3. CASE now = "read"
    <3>1. type[c] = "read" /\ tasks' = tasks
      BY <1>4, <1>5, <1>7, <2>3
    <3>2. Stage(c)'
      BY <1>1, <1>2, <1>10, <2>1, <2>2, <2>3, <3>1
         DEF Chan, Stage, Connecting, Reading, Writing, Server
    <3>3. Single(c)'
      BY <1>1, <1>2, <2>1, <3>1 DEF Chan, Single
    <3>4. Ending(c)'
      BY <1>1, <1>2, <1>7, <2>1, <2>2, <2>3, <3>1 DEF Chan, Ending
    <3>5. Unwritten(c)' /\ Fresh(c)'
      BY <1>1, <1>2, <1>7, <3>1 DEF Chan, Unwritten, Fresh
    <3>6. QED
      BY <1>10, <3>2, <3>3, <3>4, <3>5 DEF Chan
  <2>4. CASE now = "broken"
    <3>1. /\ \A j : In(j, c, tasks') <=> In(j, c, tasks) \/ j = "close"
          /\ \A j : Once(j, c, tasks) /\ ~(j = "close" /\ In(j, c, tasks)) => Once(j, c, tasks')
          /\ \A i, j : Clear(i, j, c, tasks) /\ j # "close" => Clear(i, j, c, tasks')
      BY <1>8, <2>4 DEF Grew
    <3>2. ~Reading(c)'
      <4>1. CASE kind = "broken read"
        BY <1>1, <1>2, <1>3, <2>1, <4>1 DEF Chan, Single, Reading
      <4>2. CASE kind = "broken write"
        BY <1>1, <1>2, <1>5, <2>1, <2>4, <4>2 DEF Chan, Stage, Reading
      <4>3. QED
        BY <4>1, <4>2
    <3>3. peer[c] = "closed" /\ ~In("written", c, packets')
      <4>1. CASE kind = "broken read"
        BY <1>1, <1>3, <4>1 DEF Chan, Ending
      <4>2. CASE kind = "broken write"
        BY <1>1, <1>5, <2>1, <2>4, <4>2 DEF Chan, Ending
      <4>3. QED
        BY <4>1, <4>2
    <3>4. sends[c] = 0 => ~In("close", c, tasks)
      <4>1. CASE kind = "broken read"
        BY <1>1, <1>4, <4>1 DEF Chan, Ending
      <4>2. CASE kind = "broken write"
        BY <1>1, <1>3, <4>2, WritersWrite DEF Writing
      <4>3. QED
        BY <4>1, <4>2
    <3>5. Stage(c)'
      <4>1. (Connecting(c) => FALSE) /\ ~In("connect", c, tasks)
        BY <1>1, <1>4 DEF Chan, Stage
      <4>2. ~Connecting(c)' /\ ~In("connect", c, tasks') /\ (Writing(c)' => Writing(c))
        BY <1>2, <2>1, <3>1, <4>1 DEF Connecting, Writing
      <4>3. connected'[c] /\ Left(c)' <= sends'[c] /\ (Writing(c) => sends'[c] > 0)
        BY <1>1, <1>2, <1>4, <1>10 DEF Chan, Stage
      <4>4. QED
        BY <2>2, <2>4, <3>2, <4>2, <4>3 DEF Stage
    <3>6. Single(c)'
      BY <1>1, <1>2, <2>1, <3>1 DEF Chan, Single
    <3>7. Ending(c)'
      BY <1>1, <1>2, <1>7, <2>1, <2>2, <2>4, <3>1, <3>3 DEF Chan, Ending
    <3>8. Unwritten(c)'
      BY <1>1, <1>2, <1>7, <3>1, <3>4 DEF Chan, Unwritten
    <3>9. Fresh(c)'
      BY <1>1, <1>2, <1>4, <1>7 DEF Chan, Fresh
    <3>10. QED
      BY <1>10, <3>5, <3>6, <3>7, <3>8, <3>9 DEF Chan
  <2>5. QED
    BY <1>6, <2>3, <2>4
<1>11. QED
  BY <1>9, <1>10

\* The tasks of message_handler when it is told of a new connection: those it found,
\* and on a server the connect task of the next channel.
LEMMA ConnectedTasks ==
  ASSUME Types, NEW c \in Channel, MessageHandler(c, "create"), draining => tasks # << >>
  PROVE  /\ told' = [told EXCEPT ![c] = "create"]
         /\ ~More("create") => tasks' = Base /\ channels' = channels /\ created' = created
         /\ More("create") => /\ Grew(Base, tasks', "connect", Successor)
                              /\ channels' = channels \cup {Successor} /\ created' = Successor
                              /\ Successor \in Channel /\ Successor = created + 1
<1>1. /\ Base \in Seq(TaskSet)
      /\ told' = [told EXCEPT ![c] = "create"]
      /\ channels' = IF More("create") THEN channels \cup {Successor} ELSE channels
      /\ created' = IF More("create") THEN Successor ELSE created
      /\ More("create") => tasks' = Append(Base, <<"connect", Successor>>) /\ Successor \in Channel
      /\ ~More("create") => tasks' = Base
  BY HandlerEffect DEF Types, QueueTypes, StateTypes
<1>2. More("create") => Grew(Base, tasks', "connect", Successor)
  <2> SUFFICES ASSUME More("create") PROVE Grew(Base, tasks', "connect", Successor)
    OBVIOUS
  <2>1. <<"connect", Successor>> \in TaskSet
    BY <1>1 DEF TaskSet
  <2>2. QED
    BY <1>1, <2>1, Appended
<1>3. QED
  BY <1>1, <1>2 DEF Successor

\* a channel whose packet or task of the connection has just been taken
Arriving(c, rest) ==
  /\ c \in channels /\ ConnectCompleted(c, rest) /\ rest \in Seq(PacketSet)
  /\ draining => tasks # << >>
  /\ UNCHANGED <<mode, draining, peer, reads, user>>
  /\ type[c] \in {"unknown", "create"}
  /\ ~In("connect", c, Base) /\ ~In("connected", c, rest) /\ <<"connect", c>> \notin ops
  /\ \A d \in Channel : Fewer(tasks, Base, d) /\ Fewer(packets, rest, d)

\* connect_completed, also for the channel it creates
LEMMA ArrivingChan ==
  ASSUME Types, Chans, NEW c \in Channel, NEW rest, Arriving(c, rest), NEW d \in Channel
  PROVE  Chan(d)'
<1>1. Chan(c) /\ Chan(d)
  BY DEF Chans
<1> DEFINE q == rest \o Posts(c, "create")
<1>2. /\ connected' = [connected EXCEPT ![c] = TRUE] /\ type' = [type EXCEPT ![c] = "read"]
      /\ ops' = ops \cup ReadStarts(c)
      /\ Send(c, TRUE, w_pending[c], q) /\ rest \in Seq(PacketSet)
      /\ UNCHANGED <<mode, peer, calling, sends, overtaken>>
  BY DEF Arriving, ConnectCompleted, user
<1>3. /\ queued[c] \in Nat /\ sends[c] \in Nat /\ Left(c) \in Nat /\ Left(d) \in Nat
      /\ queued[c] + writing[c] <= Left(c) /\ writing[c] \in Nat
      /\ created \in Nat /\ d \in Nat /\ c \in Nat
  BY LeftType, ChannelType DEF Types, StateTypes
<1>4. q \in {rest, Append(rest, Worker)} /\ q \in Seq(PacketSet)
  BY <1>2, PostsEffect
<1> HIDE DEF q
<1>5. MessageHandler(c, "create") /\ (draining => tasks # << >>)
  BY DEF Arriving, ConnectCompleted
<1>6. /\ told' = [told EXCEPT ![c] = "create"]
      /\ ~More("create") => tasks' = Base /\ channels' = channels /\ created' = created
      /\ More("create") => /\ Grew(Base, tasks', "connect", Successor)
                           /\ channels' = channels \cup {Successor} /\ created' = Successor
                           /\ Successor \in Channel /\ Successor = created + 1
  BY <1>5, ConnectedTasks
<1>7. /\ Fewer(rest, q, d) /\ Fewer(rest, q, c)
      /\ \A j : In(j, c, q) <=> In(j, c, rest)
  BY <1>2, <1>4, WorkerQuiet
<1>8. /\ Fewer(packets, q, d) /\ Fewer(packets, q, c) /\ ReadStarts(c) \subseteq {<<"read", c>>}
      /\ \A e \in Channel : e # c => /\ Left(e)' = Left(e) /\ writing'[e] = writing[e]
                                     /\ Fewer(q, packets', e)
      /\ Left(c)' <= Left(c) /\ Left(c)' \in Nat
      /\ \/ packets' = q /\ writing' = writing
         \/ queued[c] > 0 /\ (packets' = q \/ Grew(q, packets', "written", c))
  <2>1. Fewer(packets, q, d) /\ Fewer(packets, q, c)
    BY <1>7, FewerTwice DEF Arriving
  <2>2. ReadStarts(c) \subseteq {<<"read", c>>}
    BY DEF ReadStarts
  <2>3. QED
    BY <1>2, <1>4, <2>1, <2>2, SendEffect
<1>9. Fewer(tasks, Base, d) /\ Fewer(tasks, Base, c)
  BY DEF Arriving
<1>10. c <= created /\ ~(c > created)
  <2>1. ~(c > created)
    BY <1>1 DEF Chan, Fresh, Arriving
  <2>2. QED
    BY <1>3, <2>1
<1>11. CASE d # c /\ ~(More("create") /\ d = Successor)
  <2>1. Fewer(Base, tasks', d)
    BY <1>6, <1>11, FewerSame, FewerGrew
  <2>2. Fewer(tasks, tasks', d) /\ Fewer(packets, packets', d)
    BY <1>8, <1>9, <1>11, <2>1, FewerTwice
  <2>3. \A k : <<k, d>> \in ops' => <<k, d>> \in ops
    BY <1>2, <1>8, <1>11
  <2>4. /\ type'[d] = type[d] /\ told'[d] = told[d] /\ connected'[d] = connected[d]
        /\ Left(d)' = Left(d) /\ writing'[d] = writing[d]
    BY <1>2, <1>6, <1>8, <1>11 DEF Types, StateTypes
  <2>5. /\ d \in channels' <=> d \in channels
        /\ d > created' <=> d > created
        /\ d <= created' <=> d <= created
    BY <1>3, <1>6, <1>11
  <2>6. Quiet(d)
    BY <1>2, <2>2, <2>3, <2>4, <2>5, Unchanged DEF Quiet
  <2>7. QED
    BY <1>1, <2>6, QuietChannel
<1>12. CASE d = c
  <2>1. ~(More("create") /\ c = Successor)
    BY <1>3, <1>6, <1>10
  <2>2. Fewer(Base, tasks', c)
    BY <1>6, <2>1, FewerSame, FewerGrew
  <2>3. Fewer(tasks, tasks', c) /\ ~In("connect", c, tasks')
    BY <1>9, <2>2, FewerTwice DEF Arriving, Fewer
  <2>4. /\ \A j : In(j, c, tasks') => In(j, c, tasks)
        /\ \A j : Once(j, c, tasks) => Once(j, c, tasks')
        /\ \A i, j : Clear(i, j, c, tasks) => Clear(i, j, c, tasks')
        /\ \A j : In(j, c, q) => In(j, c, packets)
        /\ \A j : Once(j, c, packets) => Once(j, c, q)
        /\ \A i, j : Clear(i, j, c, packets) => Clear(i, j, c, q)
    BY <1>8, <2>3 DEF Fewer
  <2>5. /\ \A j : In(j, c, packets') => In(j, c, q) \/ j = "written"
        /\ In("written", c, packets') => In("written", c, q) \/ queued[c] > 0
        /\ \A j : Once(j, c, q) /\ j # "written" => Once(j, c, packets')
        /\ \A i, j : Clear(i, j, c, q) /\ ~(j = "written" /\ In(i, c, q))
                       => Clear(i, j, c, packets')
    <3>1. CASE packets' = q
      BY <3>1
    <3>2. CASE Grew(q, packets', "written", c) /\ queued[c] > 0
      BY <3>2 DEF Grew
    <3>3. QED
      BY <1>8, <3>1, <3>2
  <2>6. type[c] \in {"unknown", "create"} /\ c \in channels /\ <<"connect", c>> \notin ops
    BY DEF Arriving
  <2>7. ~Reading(c) /\ ~Writing(c) /\ ~In("close", c, tasks)
    BY <1>1, <2>6 DEF Chan, Stage, Ending
  <2>8. ~In("connected", c, q) /\ ~In("connected", c, packets')
    BY <1>7, <2>5 DEF Arriving
  <2>9. /\ ~In("read", c, q) /\ ~In("broken read", c, q) /\ ~In("broken write", c, q)
        /\ ~In("written", c, q)
    BY <2>4, <2>7 DEF Reading, Writing
  <2>10. type'[c] = "read" /\ told'[c] = "create" /\ connected'[c] = TRUE
    BY <1>2, <1>6 DEF Types, StateTypes
  <2>11. Left(c)' <= sends'[c] /\ (queued[c] > 0 => sends[c] > 0)
    <3>1. Left(c) <= sends[c]
      BY <1>1 DEF Chan, Stage
    <3>2. Left(c)' <= Left(c) /\ Left(c)' \in Nat /\ sends' = sends
      BY <1>2, <1>8
    <3>3. QED
      BY <1>3, <3>1, <3>2
  <2>12. Stage(c)'
    <3>1. ~Connecting(c)'
      BY <1>2, <1>8, <2>6, <2>8 DEF Connecting
    <3>2. Writing(c)' => sends'[c] > 0
      <4>1. In("written", c, packets') => queued[c] > 0
        BY <2>5, <2>9
      <4>2. ~In("broken write", c, packets')
        BY <2>5, <2>9
      <4>3. writing'[c] > 0 => queued[c] > 0
        BY <1>8, <2>7 DEF Writing
      <4>4. QED
        BY <1>2, <2>11, <4>1, <4>2, <4>3 DEF Writing
    <3>3. QED
      BY <2>3, <2>10, <2>11, <3>1, <3>2 DEF Stage
  <2>13. Single(c)'
    BY <1>1, <2>4, <2>5, <2>7, <2>8, <2>9 DEF Chan, Single, Reading
  <2>14. Ending(c)'
    <3>1. c \in channels'
      BY <1>6, <2>6
    <3>2. ~In("broken read", c, packets')
      BY <2>5, <2>9
    <3>3. Clear("broken read", "written", c, packets')
      BY <1>1, <2>4, <2>5, <2>9 DEF Chan, Ending
    <3>4. overtaken' = overtaken /\ (c \in overtaken \/ Clear("close", "send", c, tasks'))
      BY <1>1, <1>2, <2>4 DEF Chan, Ending
    <3>5. ~In("close", c, tasks')
      BY <2>4, <2>7
    <3>6. QED
      BY <2>10, <3>1, <3>2, <3>3, <3>4, <3>5 DEF Ending
  <2>15. Unwritten(c)'
    BY <1>1, <1>2, <2>4, <2>7 DEF Chan, Unwritten
  <2>16. Fresh(c)'
    BY <1>3, <1>6, <1>10 DEF Fresh
  <2>17. QED
    BY <1>12, <2>12, <2>13, <2>14, <2>15, <2>16 DEF Chan
<1>13. CASE d # c /\ More("create") /\ d = Successor
  <2>1. /\ Grew(Base, tasks', "connect", d) /\ channels' = channels \cup {d} /\ created' = d
        /\ d > created
    BY <1>3, <1>6, <1>13
  <2>2. d \notin channels /\ type[d] = "unknown" /\ sends[d] = 0 /\ ~In("connect", d, tasks)
    BY <1>1, <2>1 DEF Chan, Fresh
  <2>3. ~Reading(d) /\ ~Writing(d) /\ ~Connecting(d) /\ ~In("close", d, tasks)
    BY <1>1, <2>2 DEF Chan, Stage, Ending
  <2>4. Server /\ ~connected[d]
    BY <1>1, <1>13, <2>2 DEF Chan, Stage, More
  <2>5. \A j : In(j, d, tasks') <=> In(j, d, Base) \/ j = "connect"
    BY <2>1 DEF Grew
  <2>6. ~In("connect", d, Base) /\ ~In("close", d, Base)
    BY <1>9, <2>2, <2>3 DEF Fewer
  <2>7. /\ \A j : Once(j, d, Base) /\ ~(j = "connect" /\ In(j, d, Base)) => Once(j, d, tasks')
        /\ \A i, j : Clear(i, j, d, Base) /\ j # "connect" => Clear(i, j, d, tasks')
    BY <2>1 DEF Grew
  <2>8. /\ \A j : Once(j, d, tasks) => Once(j, d, Base)
        /\ \A i, j : Clear(i, j, d, tasks) => Clear(i, j, d, Base)
        /\ \A j : In(j, d, packets') => In(j, d, packets)
        /\ \A j : Once(j, d, packets) => Once(j, d, packets')
        /\ \A i, j : Clear(i, j, d, packets) => Clear(i, j, d, packets')
    <3>1. Fewer(packets, packets', d) /\ Fewer(tasks, Base, d)
      BY <1>8, <1>9, <1>13, FewerTwice
    <3>2. QED
      BY <3>1 DEF Fewer
  <2>9. \A k : <<k, d>> \in ops' => <<k, d>> \in ops
    BY <1>2, <1>8, <1>13
  <2>10. /\ type'[d] = type[d] /\ told'[d] = told[d] /\ connected'[d] = connected[d]
         /\ Left(d)' = Left(d) /\ mode' = mode /\ sends'[d] = sends[d]
         /\ writing'[d] = writing[d] /\ overtaken' = overtaken
    BY <1>2, <1>6, <1>8, <1>13 DEF Types, StateTypes
  <2>11. ~Reading(d)' /\ ~Writing(d)' /\ ~Connecting(d)'
    BY <2>3, <2>8, <2>9, <2>10 DEF Reading, Writing, Connecting
  <2>12. Stage(d)'
    <3>1. Left(d)' <= sends'[d]
      BY <1>1, <2>10 DEF Chan, Stage
    <3>2. QED
      BY <2>2, <2>4, <2>10, <2>11, <3>1 DEF Stage, Server
  <2>13. Single(d)'
    BY <1>1, <2>6, <2>7, <2>8, <2>11 DEF Chan, Single, Reading, Connecting
  <2>14. Ending(d)'
    BY <1>1, <2>1, <2>2, <2>5, <2>6, <2>7, <2>8, <2>10, <2>11 DEF Chan, Ending, Reading
  <2>15. Unwritten(d)'
    BY <1>1, <2>5, <2>6, <2>7, <2>8, <2>10 DEF Chan, Unwritten
  <2>16. Fresh(d)'
    <3>1. ~(d > created')
      BY <1>3, <2>1
    <3>2. QED
      BY <3>1 DEF Fresh
  <2>17. QED
    BY <2>12, <2>13, <2>14, <2>15, <2>16 DEF Chan
<1>14. QED
  BY <1>11, <1>12, <1>13

\* both ways to connect_completed start there
LEMMA ConnectedArrives ==
  ASSUME Types, Chans, NEW c \in Channel, Connected(c)
  PROVE  Arriving(c, Tail(packets))
<1>1. /\ packets # << >> /\ Head(packets) = <<"connected", c>> /\ c \in channels /\ ~draining
      /\ ConnectCompleted(c, Tail(packets))
      /\ UNCHANGED <<mode, draining, peer, reads, user>>
  BY DEF Connected, Packet, Idle
<1>2. Shrank(packets, Tail(packets), "connected", c) /\ Tail(packets) \in Seq(PacketSet)
  BY <1>1, PacketHandled
<1>3. Chan(c) /\ In("connected", c, packets)
  BY <1>2 DEF Chans, Shrank
<1>4. type[c] = "create" /\ <<"connect", c>> \notin ops /\ ~In("connect", c, tasks)
  BY <1>3 DEF Chan, Stage, Single, Connecting
<1>5. ~In("connected", c, Tail(packets))
  BY <1>2, <1>3 DEF Shrank, Chan, Single
<1>6. Base = tasks
  BY <1>1 DEF Base
<1>7. \A d \in Channel : Fewer(tasks, Base, d) /\ Fewer(packets, Tail(packets), d)
  BY <1>2, <1>6, FewerShrank, FewerSame
<1>8. QED
  BY <1>1, <1>2, <1>4, <1>5, <1>6, <1>7 DEF Arriving

LEMMA TaskArrives ==
  ASSUME Types, Chans, NEW c \in Channel, ConnectTask(c), ConnectCompleted(c, packets)
  PROVE  Arriving(c, packets)
<1>1. /\ tasks # << >> /\ Head(tasks) = <<"connect", c>> /\ c \in channels /\ draining
      /\ UNCHANGED <<mode, draining, peer, reads, user>>
  BY DEF ConnectTask, Task
<1>2. Base = Tail(tasks)
  BY <1>1 DEF Base
<1>3. Shrank(tasks, Base, "connect", c)
  BY <1>1, <1>2, TaskHandled
<1>4. Chan(c) /\ In("connect", c, tasks)
  BY <1>3 DEF Chans, Shrank
<1>5. type[c] = "unknown" /\ ~Connecting(c)
  BY <1>4 DEF Chan, Stage
<1>6. ~In("connect", c, Base)
  BY <1>3, <1>4 DEF Shrank, Chan, Single
<1>7. \A d \in Channel : Fewer(tasks, Base, d) /\ Fewer(packets, packets, d)
  BY <1>3, FewerShrank, FewerSame
<1>8. QED
  BY <1>1, <1>5, <1>6, <1>7, TasksNow DEF Arriving, Connecting

\* ConnectNamedPipe is called and does not finish at once
LEMMA WaitingChan ==
  ASSUME Types, Chans, NEW c \in Channel, ConnectTask(c),
         ~connected[c] /\ peer[c] # "open", tasks' = Tail(tasks),
         ops' = IF peer[c] = "none" THEN ops \cup {<<"connect", c>>} ELSE ops,
         type' = [type EXCEPT ![c] = "create"],
         UNCHANGED <<mode, channels, created, connected, queued, packets, writing, told, peer,
                     user>>,
         NEW d \in Channel
  PROVE  Chan(d)'
<1> USE DEF user
<1>1. tasks # << >> /\ Head(tasks) = <<"connect", c>> /\ c \in channels
  BY DEF ConnectTask, Task
<1>2. Shrank(tasks, tasks', "connect", c)
  BY <1>1, TaskHandled
<1>3. Chan(c) /\ Chan(d) /\ In("connect", c, tasks)
  BY <1>2 DEF Chans, Shrank
<1>4. Fewer(tasks, tasks', d) /\ Fewer(packets, packets', d)
  BY <1>2, FewerShrank, FewerSame
<1>5. CASE d # c
  <2>1. type'[d] = type[d] /\ \A k : <<k, d>> \in ops' => <<k, d>> \in ops
    BY <1>5 DEF Types, StateTypes
  <2>2. Quiet(d)
    BY <1>4, <2>1, Unchanged DEF Quiet
  <2>3. QED
    BY <1>3, <2>2, QuietChannel
<1>6. CASE d = c
  <2>1. type[c] = "unknown" /\ ~Connecting(c) /\ ~Reading(c) /\ ~Writing(c) /\ Server
    BY <1>3 DEF Chan, Stage
  <2>2. ~In("connect", c, tasks')
    BY <1>2, <1>3 DEF Shrank, Chan, Single
  <2>3. type'[c] = "create" /\ \A k : <<k, c>> \in ops' => <<k, c>> \in ops \/ k = "connect"
    BY DEF Types, StateTypes
  <2>4. /\ \A j : In(j, c, tasks') => In(j, c, tasks)
        /\ \A j : Once(j, c, tasks) => Once(j, c, tasks')
        /\ \A i, j : Clear(i, j, c, tasks) => Clear(i, j, c, tasks')
    BY <1>4, <1>6 DEF Fewer
  <2>5. ~Reading(c)' /\ ~Writing(c)' /\ Left(c)' = Left(c)
    BY <2>1, <2>3, Unchanged DEF Reading, Writing
  <2>6. Stage(c)'
    BY <1>3, <2>1, <2>2, <2>3, <2>5 DEF Chan, Stage, Connecting, Server
  <2>7. Single(c)'
    BY <1>3, <2>1, <2>4, <2>5 DEF Chan, Single, Reading, Connecting
  <2>8. Ending(c)'
    BY <1>3, <2>1, <2>3, <2>4 DEF Chan, Ending, Reading
  <2>9. Unwritten(c)' /\ Fresh(c)'
    BY <1>1, <1>3, <2>4 DEF Chan, Unwritten, Fresh
  <2>10. QED
    BY <1>6, <2>6, <2>7, <2>8, <2>9 DEF Chan
<1>7. QED
  BY <1>5, <1>6

\* the two outcomes of the connect task
LEMMA ConnectTaskCases ==
  ASSUME NEW c, ConnectTask(c)
  PROVE  \/ ConnectCompleted(c, packets)
         \/ /\ ~connected[c] /\ peer[c] # "open" /\ tasks' = Tail(tasks)
            /\ ops' = IF peer[c] = "none" THEN ops \cup {<<"connect", c>>} ELSE ops
            /\ type' = [type EXCEPT ![c] = "create"]
            /\ UNCHANGED <<mode, channels, created, connected, queued, packets, writing, told, peer,
                           user>>
  BY DEF ConnectTask

\* Chans is inductive, given First
LEMMA ChanStep == Types /\ Chans /\ First /\ OneClient /\ [Next]_vars => Chans'
<1> SUFFICES ASSUME Types, Chans, First, OneClient, [Next]_vars, NEW d \in Channel
             PROVE  Chan(d)'
  BY DEF Chans, Channel
<1>1. CASE UNCHANGED vars
  BY <1>1, StutterChan, Unchanged DEF vars, user
<1>2. CASE DropPacket \/ EnterRunOne \/ LeaveRunOne
  BY <1>2, WorkerChan
<1>3. ASSUME NEW c \in Channel, Connected(c) PROVE Chan(d)'
  BY <1>3, ConnectedArrives, ArrivingChan
<1>4. ASSUME NEW c \in Channel, ReadCompleted(c) \/ WriteCompleted(c) PROVE Chan(d)'
  BY <1>4, ReadCompletedChan, WriteCompletedChan
<1>5. ASSUME NEW c \in Channel, IoBroken(c, "broken read") \/ IoBroken(c, "broken write")
      PROVE  Chan(d)'
  BY <1>5, IoBrokenChan
<1>6. ASSUME NEW c \in Channel, ConnectTask(c) PROVE Chan(d)'
  BY <1>6, ConnectTaskCases, TaskArrives, ArrivingChan, WaitingChan
<1>7. ASSUME NEW c \in Channel, SendTask(c) \/ StaleSend(c) \/ CloseTask(c) PROVE Chan(d)'
  BY <1>7, SendTaskChan, StaleSendChan, CloseTaskChan
<1>8. ASSUME NEW c \in Channel, PeerConnect(c) \/ PeerClose(c) PROVE Chan(d)'
  BY <1>8, PeerConnectChan, PeerCloseChan
<1>9. ASSUME NEW c \in Channel, PeerSend(c) \/ PeerReceive(c) \/ ReadFails(c) \/ WriteFails(c)
      PROVE  Chan(d)'
  BY <1>9, SystemChan
<1>10. ASSUME NEW c \in Channel, User(c) PROVE Chan(d)'
  BY <1>10, CallSendChan, PushMessageChan, DispatchSendChan, CallLostChan DEF User
<1>11. QED
  BY <1>1, <1>2, <1>3, <1>4, <1>5, <1>6, <1>7, <1>8, <1>9, <1>10 DEF Next, IoThread

LEMMA ChanInit == Init => Chans
<1> SUFFICES ASSUME Init, NEW d \in Channel PROVE Chan(d)
  BY DEF Chans
<1>1. /\ tasks = << <<"connect", 1>> >> /\ packets = << <<"worker", 0>> >>
      /\ Len(tasks) = 1 /\ Len(packets) = 1 /\ tasks[1] = <<"connect", 1>>
      /\ packets[1] = <<"worker", 0>>
  BY DEF Init, Worker, NoChannel
<1>2. /\ \A j : In(j, d, tasks) <=> j = "connect" /\ d = 1
      /\ \A j : ~In(j, d, packets)
  BY <1>1, ChannelType DEF In
<1>3. /\ \A j : Once(j, d, tasks) /\ Once(j, d, packets)
      /\ \A i, j : Clear(i, j, d, tasks) /\ Clear(i, j, d, packets)
  <2>1. \A i, j \in 1 .. 1 : i = j /\ ~(i < j)
    OBVIOUS
  <2>2. QED
    BY <1>1, <2>1 DEF Once, Clear
<1>4. /\ type[d] = "unknown" /\ told[d] = "nothing" /\ sends[d] = 0 /\ queued[d] = 0 /\ ops = {}
      /\ writing[d] = 0 /\ calling[d] = "no"
      /\ connected[d] <=> mode = "open"
      /\ channels = {1} /\ created = 1
      /\ Server <=> mode # "open"
  BY ServiceAssumption DEF Init, Server
<1>5. Stage(d)
  <2>1. ~Connecting(d) /\ ~Reading(d) /\ ~Writing(d)
    <3>1. ~(writing[d] > 0)
      BY <1>4
    <3>2. QED
      BY <1>2, <1>4, <3>1 DEF Connecting, Reading, Writing
  <2>2. Left(d) <= sends[d]
    BY <1>4 DEF Left
  <2>3. Server => ~connected[d]
    BY <1>4
  <2>4. ~Server => connected[d]
    BY <1>4
  <2>5. type[d] \notin {"create", "read", "broken"}
    BY <1>4
  <2>6. QED
    BY <1>4, <2>1, <2>2, <2>3, <2>4, <2>5 DEF Stage
<1>6. Single(d) /\ Unwritten(d)
  BY <1>2, <1>3, <1>4 DEF Single, Unwritten
<1>7. Ending(d) /\ Fresh(d)
  <2>1. d \in Nat \ {0} /\ 1 > 0
    BY ChannelType
  <2>2. d # 1 => ~(d <= 1)
    BY <2>1
  <2>3. d > 1 => d # 1
    BY <2>1
  <2>4. Ending(d)
    <3>1. d \notin channels => ~(d <= created)
      BY <1>4, <2>2
    <3>2. ~In("close", d, tasks) /\ ~In("send", d, tasks)
      BY <1>2
    <3>3. QED
      BY <1>2, <1>3, <1>4, <3>1, <3>2 DEF Ending
  <2>5. Fresh(d)
    BY <1>2, <1>4, <2>3 DEF Fresh
  <2>6. QED
    BY <2>4, <2>5
<1>8. QED
  BY <1>5, <1>6, <1>7 DEF Chan

\* nobody changes mode_
LEMMA ModeStays == [Next]_vars => mode' = mode
BY DEF Next, vars, IoThread, EnterRunOne, LeaveRunOne, DropPacket, Connected, ReadCompleted,
       WriteCompleted, IoBroken, ConnectTask, SendTask, StaleSend, CloseTask, PeerConnect,
       PeerSend, PeerReceive, PeerClose, ReadFails, WriteFails, User, CallSend, PushMessage,
       DispatchSend, CallLost

\* what message_handler does to a queue that keeps its head
LEMMA HandlerKeepsHead ==
  ASSUME Types, NEW c \in Channel, NEW t, MessageHandler(c, t), ~draining, tasks # << >>
  PROVE  tasks' # << >> /\ Head(tasks') = Head(tasks)
<1>1. Base = tasks
  BY DEF Base
<1>2. /\ t = "broken" => tasks' = Append(tasks, <<"close", c>>)
      /\ More(t) => tasks' = Append(tasks, <<"connect", Successor>>) /\ Successor \in Channel
      /\ t # "broken" /\ ~More(t) => tasks' = tasks
  BY <1>1, HandlerEffect DEF Types, QueueTypes, StateTypes
<1>3. ASSUME NEW k \in {"connect", "close"}, NEW d \in Channel, tasks' = Append(tasks, <<k, d>>)
      PROVE  tasks' # << >> /\ Head(tasks') = Head(tasks)
  <2>1. <<k, d>> \in TaskSet
    BY DEF TaskSet
  <2>2. QED
    BY <1>3, <2>1, TasksNow, Appended
<1>4. QED
  BY <1>2, <1>3

\* First and OneClient are inductive
LEMMA FirstStep == Types /\ Chans /\ First /\ OneClient /\ [Next]_vars => First' /\ OneClient'
<1> SUFFICES ASSUME Types, Chans, First, OneClient, [Next]_vars PROVE First' /\ OneClient'
  OBVIOUS
<1>1. mode' = mode /\ 1 \in Channel
  BY ModeStays, ChannelType
<1> SUFFICES ASSUME mode = "open" PROVE First' /\ created' = 1
  BY <1>1 DEF First, OneClient
<1>2. created = 1 /\ ~Server
  BY TwoModes DEF OneClient
<1>3. /\ type[1] = "unknown" => tasks # << >> /\ Head(tasks) = <<"connect", 1>>
      /\ type \in [Channel -> {"unknown", "create", "read", "broken"}]
  BY DEF First, Types, StateTypes
<1> DEFINE Goal == First' /\ created' = 1
           Kept == tasks # << >> => tasks' # << >> /\ Head(tasks') = Head(tasks)
<1>4. ASSUME created' = created, type'[1] = "unknown" => type[1] = "unknown" /\ Kept PROVE Goal
  BY <1>2, <1>3, <1>4 DEF First
<1> HIDE DEF Goal
<1> SUFFICES Goal
  BY DEF Goal
<1>5. ASSUME UNCHANGED <<tasks, type, created>> PROVE Goal
  BY <1>4, <1>5
<1>6. ASSUME NEW c \in Channel,
             \/ PeerConnect(c) \/ PeerSend(c) \/ PeerReceive(c) \/ PeerClose(c)
             \/ WriteCompleted(c) \/ ReadFails(c) \/ WriteFails(c)
             \/ CallSend(c) \/ PushMessage(c) \/ CallLost(c)
      PROVE  Goal
  <2>1. UNCHANGED <<tasks, type, created>>
    BY <1>6 DEF PeerConnect, PeerSend, PeerReceive, PeerClose, WriteCompleted, ReadFails,
                WriteFails, CallSend, PushMessage, CallLost
  <2>2. QED
    BY <1>5, <2>1
<1>7. CASE DropPacket \/ EnterRunOne \/ LeaveRunOne
  <2>1. UNCHANGED <<tasks, type, created>>
    BY <1>7 DEF DropPacket, EnterRunOne, LeaveRunOne
  <2>2. QED
    BY <1>5, <2>1
<1>8. ASSUME NEW c \in Channel, Connected(c) PROVE Goal
  <2>1. packets # << >> /\ Head(packets) = <<"connected", c>>
    BY <1>8 DEF Connected, Packet, Idle
  <2>2. In("connected", c, packets)
    BY <2>1, PacketHandled DEF Shrank
  <2>3. Server
    BY <2>2 DEF Chans, Chan, Stage, Connecting
  <2>4. QED
    BY <1>2, <2>3
<1>9. ASSUME NEW c \in Channel, NEW t, MessageHandler(c, t), ~draining,
             type'[1] = "unknown" => type[1] = "unknown"
      PROVE  Goal
  <2>1. created' = created
    BY <1>2, <1>9 DEF MessageHandler
  <2>2. Kept
    BY <1>9, HandlerKeepsHead
  <2>3. QED
    BY <1>4, <1>9, <2>1, <2>2
<1>10. ASSUME NEW c \in Channel, ReadCompleted(c) PROVE Goal
  BY <1>9, <1>10 DEF ReadCompleted, Packet, Idle
<1>11. ASSUME NEW c \in Channel, NEW kind, IoBroken(c, kind) PROVE Goal
  <2>1. /\ MessageHandler(c, type'[c]) /\ ~draining
        /\ type' = [type EXCEPT ![c] = IF kind = "broken read" THEN "broken" ELSE type[c]]
    BY <1>11 DEF IoBroken, Packet, Idle
  <2>2. type'[1] = "unknown" => type[1] = "unknown"
    BY <1>1, <1>3, <2>1
  <2>3. QED
    BY <1>9, <2>1, <2>2
<1>12. ASSUME NEW c \in Channel, ConnectTask(c) PROVE Goal
  <2>1. c \in channels /\ Chan(c)
    BY <1>12 DEF ConnectTask, Chans
  <2>2. ~(c > created) /\ c \in Nat \ {0}
    BY <2>1, ChannelType DEF Chan, Fresh
  <2>3. c = 1
    BY <1>2, <2>2
  <2>4. ASSUME ConnectCompleted(c, packets) PROVE type'[1] # "unknown" /\ created' = created
    BY <1>2, <1>3, <2>3, <2>4 DEF ConnectCompleted, MessageHandler
  <2>5. ASSUME type' = [type EXCEPT ![c] = "create"], created' = created
        PROVE  type'[1] # "unknown"
    BY <1>3, <2>3, <2>5
  <2>6. QED
    BY <1>4, <1>12, <2>4, <2>5, ConnectTaskCases
<1>13. ASSUME NEW c \in Channel, SendTask(c) \/ StaleSend(c) \/ CloseTask(c) PROVE Goal
  <2>1. Head(tasks) \in {<<"send", c>>, <<"close", c>>} /\ UNCHANGED <<type, created>>
    BY <1>13 DEF SendTask, StaleSend, CloseTask, Task
  <2>2. type[1] # "unknown"
    BY <1>3, <2>1
  <2>3. QED
    BY <1>4, <2>1, <2>2
<1>14. ASSUME NEW c \in Channel, DispatchSend(c) PROVE Goal
  <2>1. <<"send", c>> \in TaskSet
    BY DEF TaskSet
  <2>2. tasks' = Append(tasks, <<"send", c>>) /\ UNCHANGED <<type, created>>
    BY <1>14 DEF DispatchSend
  <2>3. Kept
    BY <2>1, <2>2, TasksNow, Appended
  <2>4. QED
    BY <1>4, <2>2, <2>3
<1>15. QED
  BY <1>5, <1>6, <1>7, <1>8, <1>10, <1>11, <1>12, <1>13, <1>14
     DEF Next, IoThread, User, vars

-----------------------------------------------------------------------------
(* The instance that waits for the next client. *)

\* Awaiting, by kind and channel
Waits(c) == In("connect", c, tasks) \/ Connecting(c)

\* the channels in front of the newest are connected, the newest is not while
\* there is room for another
Listener == Server => /\ \A c \in Channel : c < created => connected[c]
                      /\ connected[created] => created = MaxChannels
                      /\ connected[created] \/ Waits(created) \/ Missed(created)

\* a step that leaves the newest channel waiting, or its client missed
LEMMA ListenerQuiet ==
  ASSUME Listener, mode' = mode, created' = created, connected' = connected,
         Waits(created) => Waits(created)' \/ Missed(created)',
         Missed(created) => Missed(created)'
  PROVE  Listener'
  BY DEF Listener, Server, Channel

\* a step that adds to the queues
LEMMA ListenerMore ==
  ASSUME Listener, mode' = mode, created' = created, connected' = connected,
         type'[created] = type[created], peer[created] = "closed" => peer'[created] = "closed",
         In("connect", created, tasks) => In("connect", created, tasks'),
         In("connected", created, packets) => In("connected", created, packets'),
         <<"connect", created>> \in ops => <<"connect", created>> \in ops'
                                             \/ In("connected", created, packets')
  PROVE  Listener'
<1>1. Waits(created) => Waits(created)'
  BY DEF Waits, Connecting
<1>2. Missed(created) => Missed(created)'
  BY DEF Missed
<1>3. QED
  BY <1>1, <1>2, ListenerQuiet

\* the newest channel connects: the next one waits
LEMMA ListenerArrives ==
  ASSUME Types, Chans, Listener, NEW c \in Channel, NEW rest, Arriving(c, rest)
  PROVE  Listener'
<1>1. /\ c \in channels /\ type[c] \in {"unknown", "create"} /\ mode' = mode
      /\ connected' = [connected EXCEPT ![c] = TRUE]
      /\ MessageHandler(c, "create") /\ (draining => tasks # << >>)
  BY DEF Arriving, ConnectCompleted
<1> SUFFICES ASSUME Server PROVE Listener'
  BY <1>1 DEF Listener, Server
<1>2. /\ created \in Nat /\ c \in Nat /\ created \in Channel
      /\ created <= MaxChannels /\ MaxChannels \in Nat
  BY ServiceAssumption, ChannelType DEF Types, StateTypes, Channel
<1>3. ~connected[c] /\ ~(c > created)
  BY <1>1 DEF Chans, Chan, Stage, Fresh
<1>4. c = created
  BY <1>2, <1>3 DEF Listener
<1>5. /\ ~More("create") => created' = created
      /\ More("create") => /\ Grew(Base, tasks', "connect", Successor)
                           /\ created' = Successor
                           /\ Successor \in Channel /\ Successor = created + 1
  BY <1>1, ConnectedTasks
<1>6. \A d \in Channel : d # c => connected'[d] = connected[d]
  BY <1>1 DEF Types, StateTypes
<1>7. connected'[c]
  BY <1>1 DEF Types, StateTypes
<1>8. CASE More("create")
  <2>1. Waits(created)'
    BY <1>5, <1>8 DEF Waits, Grew
  <2>2. ~connected'[Successor]
    <3>1. Successor > created /\ Successor # c
      BY <1>2, <1>4, <1>5, <1>8
    <3>2. ~connected[Successor]
      BY <1>5, <1>8, <3>1 DEF Chans, Chan, Fresh, Stage
    <3>3. QED
      BY <1>5, <1>6, <1>8, <3>1, <3>2
  <2>3. \A d \in Channel : d < created' => d < created \/ d = c
    BY <1>2, <1>4, <1>5, <1>8, ChannelType
  <2>4. \A d \in Channel : d < created' => connected'[d]
    BY <1>6, <1>7, <2>3 DEF Listener
  <2>5. QED
    BY <1>5, <1>8, <2>1, <2>2, <2>4 DEF Listener, Channel
<1>9. CASE ~More("create")
  <2>1. created = MaxChannels
    BY <1>2, <1>9 DEF More
  <2>2. \A d \in Channel : d < created' => connected'[d]
    BY <1>5, <1>6, <1>7, <1>9 DEF Listener
  <2>3. QED
    BY <1>4, <1>5, <1>7, <1>9, <2>1, <2>2 DEF Listener, Channel
<1>10. QED
  BY <1>8, <1>9

\* Listener is inductive
LEMMA ListenerStep == Types /\ Chans /\ Listener /\ [Next]_vars => Listener'
<1> SUFFICES ASSUME Types, Chans, Listener, [Next]_vars PROVE Listener'
  OBVIOUS
<1> DEFINE e == created
<1>1. /\ mode' = mode /\ e \in Channel /\ Chan(e)
      /\ tasks \in Seq(TaskSet) /\ packets \in Seq(PacketSet)
  BY ModeStays, TasksNow DEF Types, StateTypes, Chans
<1>2. CASE UNCHANGED vars
  BY <1>2, ListenerMore DEF vars
<1>3. ASSUME NEW k \in Kinds, NEW c \in Channel, packets' = Append(packets, <<k, c>>)
      PROVE  \A j : In(j, e, packets') <=> In(j, e, packets) \/ (j = k /\ e = c)
  BY <1>3, PacketAdded DEF Grew
<1>4. ASSUME NEW c \in Channel, PeerConnect(c) PROVE Listener'
  <2>1. UNCHANGED <<mode, created, connected, type, tasks>> /\ peer[c] = "none"
    BY <1>4 DEF PeerConnect
  <2>2. peer[e] = "closed" => peer'[e] = "closed"
    BY <1>4, <2>1 DEF PeerConnect, Types, StateTypes
  <2>3. In("connected", e, packets) => In("connected", e, packets')
    BY <1>3, <1>4 DEF PeerConnect, Kinds
  <2>4. <<"connect", e>> \in ops => <<"connect", e>> \in ops' \/ In("connected", e, packets')
    <3>1. CASE e = c /\ <<"connect", c>> \in ops
      BY <1>3, <1>4, <3>1 DEF PeerConnect, Kinds
    <3>2. CASE e # c
      BY <1>4, <3>2 DEF PeerConnect
    <3>3. QED
      BY <3>1, <3>2
  <2>5. QED
    BY <2>1, <2>2, <2>3, <2>4, ListenerMore
<1>5. ASSUME NEW c \in Channel, PeerSend(c) \/ PeerReceive(c) PROVE Listener'
  <2>1. UNCHANGED <<mode, created, connected, type, tasks, peer>>
    BY <1>5 DEF PeerSend, PeerReceive
  <2>2. In("connected", e, packets) => In("connected", e, packets')
    BY <1>3, <1>5 DEF PeerSend, PeerReceive, Kinds
  <2>3. <<"connect", e>> \in ops => <<"connect", e>> \in ops'
    BY <1>5 DEF PeerSend, PeerReceive
  <2>4. QED
    BY <2>1, <2>2, <2>3, ListenerMore
<1>6. ASSUME NEW c \in Channel, ReadFails(c) \/ WriteFails(c) PROVE Listener'
  <2>1. UNCHANGED <<mode, created, connected, type, tasks, peer>>
    BY <1>6 DEF ReadFails, WriteFails
  <2>2. In("connected", e, packets) => In("connected", e, packets')
    BY <1>3, <1>6 DEF ReadFails, WriteFails, Kinds
  <2>3. <<"connect", e>> \in ops => <<"connect", e>> \in ops'
    BY <1>6 DEF ReadFails, WriteFails
  <2>4. QED
    BY <2>1, <2>2, <2>3, ListenerMore
<1>7. ASSUME NEW c \in Channel, PeerClose(c) PROVE Listener'
  <2>1. UNCHANGED <<mode, created, connected, type, tasks, packets, ops>>
    BY <1>7 DEF PeerClose
  <2>2. peer[e] = "closed" => peer'[e] = "closed"
    BY <1>7 DEF PeerClose, Types, StateTypes
  <2>3. QED
    BY <2>1, <2>2, ListenerMore
<1>8. CASE DropPacket
  <2>1. UNCHANGED <<mode, created, connected, type, tasks, ops, peer>>
    BY <1>8 DEF DropPacket
  <2>2. In("connected", e, packets) => In("connected", e, packets')
    <3> SUFFICES ASSUME In("connected", e, packets) PROVE In("connected", e, packets')
      OBVIOUS
    <3>1. e \in channels
      <4>1. type[e] = "create" /\ e <= created
        BY <1>1, ChannelType DEF Chan, Stage, Connecting
      <4>2. QED
        BY <1>1, <4>1 DEF Chan, Ending
    <3>2. packets # << >> /\ Head(packets)[2] \notin channels /\ packets' = Tail(packets)
      BY <1>8 DEF DropPacket, Idle
    <3>3. Head(packets) \in PacketSet
      BY <1>1, <3>2, PoppedType
    <3>4. PICK k, c : Head(packets) = <<k, c>>
      BY <3>3 DEF PacketSet, Worker
    <3>5. c # e
      BY <3>1, <3>2, <3>4
    <3>6. QED
      BY <3>2, <3>4, <3>5, PacketHandled DEF Shrank
  <2>3. QED
    BY <2>1, <2>2, ListenerMore
<1>9. CASE EnterRunOne \/ LeaveRunOne
  <2>1. UNCHANGED <<mode, created, connected, type, tasks, ops, peer>>
    BY <1>9 DEF EnterRunOne, LeaveRunOne
  <2>2. In("connected", e, packets) => In("connected", e, packets')
    <3>1. CASE EnterRunOne
      <4>1. packets # << >> /\ Head(packets) = <<"worker", 0>> /\ packets' = Tail(packets)
        BY <3>1 DEF EnterRunOne, Idle, Worker, NoChannel
      <4>2. QED
        BY <4>1, PacketHandled DEF Shrank
    <3>2. CASE LeaveRunOne
      BY <3>2 DEF LeaveRunOne
    <3>3. QED
      BY <1>9, <3>1, <3>2
  <2>3. QED
    BY <2>1, <2>2, ListenerMore
<1>10. ASSUME NEW c \in Channel, Connected(c) PROVE Listener'
  BY <1>10, ConnectedArrives, ListenerArrives
<1>11. ASSUME NEW c \in Channel, NEW t,
              NEW k \in {"read", "written", "broken read", "broken write"},
              packets # << >>, Head(packets) = <<k, c>>,
              packets' \in {Tail(packets), Tail(packets) \o Posts(c, t)}
       PROVE  In("connected", e, packets) => In("connected", e, packets')
  <2>1. \A j, d : d \in Channel /\ In(j, d, packets) => In(j, d, packets') \/ (j = k /\ d = c)
    BY <1>11, PacketGone
  <2>2. "connected" # k
    OBVIOUS
  <2>3. QED
    BY <1>1, <2>1, <2>2
<1>12. ASSUME NEW c \in Channel, NEW t \in {"read", "broken"}, MessageHandler(c, t), ~draining
       PROVE  created' = created /\ (In("connect", e, tasks) => In("connect", e, tasks'))
  <2>1. Base = tasks /\ ~More(t)
    BY <1>12 DEF Base, More
  <2>2. /\ created' = created
        /\ t = "broken" => tasks' = Append(tasks, <<"close", c>>)
        /\ t # "broken" => tasks' = tasks
    BY <1>12, <2>1, HandlerEffect DEF Types, QueueTypes, StateTypes
  <2>3. <<"close", c>> \in TaskSet
    BY DEF TaskSet
  <2>4. t = "broken" => Grew(tasks, tasks', "close", c)
    BY <1>1, <2>2, <2>3, Appended
  <2>5. QED
    BY <2>2, <2>4 DEF Grew
<1>13. ASSUME NEW c \in Channel, ReadCompleted(c) PROVE Listener'
  <2>1. /\ MessageHandler(c, "read") /\ ~draining /\ packets # << >>
        /\ Head(packets) = <<"read", c>> /\ packets' = Tail(packets)
        /\ UNCHANGED <<mode, connected, type, peer>> /\ ops' = ops \cup ReadStarts(c)
    BY <1>13 DEF ReadCompleted, Packet, Idle
  <2>2. In("connected", e, packets) => In("connected", e, packets')
    BY <1>11, <2>1
  <2>3. created' = created /\ (In("connect", e, tasks) => In("connect", e, tasks'))
    BY <1>12, <2>1
  <2>4. QED
    BY <2>1, <2>2, <2>3, ListenerMore
<1>14. ASSUME NEW c \in Channel, NEW up, NEW pending, NEW q \in Seq(PacketSet),
              Send(c, up, pending, q)
       PROVE  In("connected", e, q) => In("connected", e, packets')
  <2>1. packets' = q \/ packets' = Append(q, <<"written", c>>)
    BY <1>14 DEF Send
  <2>2. <<"written", c>> \in PacketSet
    BY DEF PacketSet, Kinds
  <2>3. packets' = Append(q, <<"written", c>>) => Grew(q, packets', "written", c)
    BY <2>2, Appended
  <2>4. QED
    BY <2>1, <2>3 DEF Grew
<1>15. ASSUME NEW c \in Channel, WriteCompleted(c) PROVE Listener'
  <2>1. /\ packets # << >> /\ Head(packets) = <<"written", c>>
        /\ Send(c, connected[c], FALSE, Tail(packets))
        /\ UNCHANGED <<mode, created, connected, type, peer, tasks, ops>>
    BY <1>15 DEF WriteCompleted, Packet, Idle
  <2>2. Shrank(packets, Tail(packets), "written", c) /\ Tail(packets) \in Seq(PacketSet)
    BY <2>1, PacketHandled
  <2>3. In("connected", e, packets) => In("connected", e, Tail(packets))
    BY <2>2 DEF Shrank
  <2>4. In("connected", e, packets) => In("connected", e, packets')
    BY <1>14, <2>1, <2>2, <2>3
  <2>5. QED
    BY <2>1, <2>4, ListenerMore
<1>16. ASSUME NEW c \in Channel, NEW kind \in {"broken read", "broken write"}, IoBroken(c, kind)
       PROVE  Listener'
  <2>1. /\ MessageHandler(c, type'[c]) /\ ~draining /\ packets # << >>
        /\ Head(packets) = <<kind, c>> /\ packets' = Tail(packets) \o Posts(c, type'[c])
        /\ UNCHANGED <<mode, connected, peer, ops>>
        /\ type' = [type EXCEPT ![c] = IF kind = "broken read" THEN "broken" ELSE type[c]]
    BY <1>16 DEF IoBroken, Packet, Idle
  <2>2. In(kind, c, packets)
    BY <2>1, PacketHandled DEF Shrank
  <2>3. type[c] \in {"read", "broken"}
    BY <2>2 DEF Chans, Chan, Stage, Reading, Writing
  <2>4. type'[c] \in {"read", "broken"}
    BY <2>1, <2>3 DEF Types, StateTypes
  <2>5. In("connected", e, packets) => In("connected", e, packets')
    BY <1>11, <2>1
  <2>6. created' = created /\ (In("connect", e, tasks) => In("connect", e, tasks'))
    BY <1>12, <2>1, <2>4
  <2>7. Waits(e) => Waits(e)'
    BY <2>1, <2>5, <2>6 DEF Waits, Connecting
  <2>8. Missed(e) => Missed(e)'
    <3> SUFFICES ASSUME Missed(e) PROVE type'[e] = type[e] /\ e' = e
      BY <2>1 DEF Missed
    <3>1. e # c
      BY <2>3 DEF Missed
    <3>2. QED
      BY <1>1, <2>1, <2>6, <3>1 DEF Types, StateTypes
  <2>9. QED
    BY <1>1, <2>1, <2>6, <2>7, <2>8, ListenerQuiet
<1>17. ASSUME NEW c \in Channel, ConnectTask(c) PROVE Listener'
  <2>1. CASE ConnectCompleted(c, packets)
    BY <1>17, <2>1, TaskArrives, ListenerArrives
  <2>2. CASE /\ ~connected[c] /\ peer[c] # "open" /\ tasks' = Tail(tasks)
             /\ ops' = IF peer[c] = "none" THEN ops \cup {<<"connect", c>>} ELSE ops
             /\ type' = [type EXCEPT ![c] = "create"]
             /\ UNCHANGED <<mode, channels, created, connected, queued, packets, writing, told,
                            peer, user>>
    <3>1. tasks # << >> /\ Head(tasks) = <<"connect", c>>
      BY <1>17 DEF ConnectTask, Task
    <3>2. Shrank(tasks, tasks', "connect", c)
      BY <2>2, <3>1, TaskHandled
    <3>3. CASE e # c
      <4>1. In("connect", e, tasks) => In("connect", e, tasks')
        BY <3>2, <3>3 DEF Shrank
      <4>2. type'[e] = type[e] /\ (<<"connect", e>> \in ops => <<"connect", e>> \in ops')
        BY <1>1, <2>2, <3>3 DEF Types, StateTypes
      <4>3. QED
        BY <2>2, <4>1, <4>2, ListenerMore
    <3>4. CASE e = c
      <4>1. type'[c] = "create"
        BY <2>2 DEF Types, StateTypes
      <4>2. CASE peer[c] = "none"
        <5>1. Waits(e)'
          BY <2>2, <3>4, <4>2 DEF Waits, Connecting
        <5>2. ~Missed(e)
          BY <3>4, <4>2 DEF Missed
        <5>3. QED
          BY <2>2, <5>1, <5>2, ListenerQuiet
      <4>3. CASE peer[c] # "none"
        <5>1. peer[c] = "closed"
          BY <2>2, <4>3 DEF Types, StateTypes
        <5>2. Missed(e)'
          BY <2>2, <3>4, <4>1, <5>1 DEF Missed
        <5>3. QED
          BY <2>2, <5>2, ListenerQuiet
      <4>4. QED
        BY <4>2, <4>3
    <3>5. QED
      BY <3>3, <3>4
  <2>3. QED
    BY <1>17, <2>1, <2>2, ConnectTaskCases
<1>18. ASSUME NEW c \in Channel, SendTask(c) \/ StaleSend(c) \/ CloseTask(c) PROVE Listener'
  <2>1. PICK k \in {"send", "close"} : /\ tasks # << >> /\ Head(tasks) = <<k, c>>
                                       /\ tasks' = Tail(tasks)
    BY <1>18 DEF SendTask, StaleSend, CloseTask, Task
  <2>2. In("connect", e, tasks) => In("connect", e, tasks')
    BY <2>1, TaskHandled DEF Shrank
  <2>3. UNCHANGED <<mode, created, connected, type, ops>>
    BY <1>18 DEF SendTask, StaleSend, CloseTask
  <2>4. peer[e] = "closed" => peer'[e] = "closed"
    BY <1>18 DEF SendTask, StaleSend, CloseTask, Types, StateTypes
  <2>5. In("connected", e, packets) => In("connected", e, packets')
    <3>1. CASE SendTask(c)
      BY <1>1, <1>14, <3>1 DEF SendTask
    <3>2. CASE StaleSend(c) \/ CloseTask(c)
      BY <3>2 DEF StaleSend, CloseTask
    <3>3. QED
      BY <1>18, <3>1, <3>2
  <2>6. QED
    BY <2>2, <2>3, <2>4, <2>5, ListenerMore
<1>19. ASSUME NEW c \in Channel, DispatchSend(c) PROVE Listener'
  <2>1. /\ tasks' = Append(tasks, <<"send", c>>) /\ packets' = Append(packets, Worker)
        /\ UNCHANGED <<mode, created, connected, type, ops, peer>>
    BY <1>19 DEF DispatchSend
  <2>2. <<"send", c>> \in TaskSet
    BY DEF TaskSet
  <2>3. In("connect", e, tasks) => In("connect", e, tasks')
    BY <1>1, <2>1, <2>2, Appended DEF Grew
  <2>4. In("connected", e, packets) => In("connected", e, packets')
    BY <1>1, <2>1, WorkerQuiet
  <2>5. QED
    BY <2>1, <2>3, <2>4, ListenerMore
<1>20. ASSUME NEW c \in Channel, CallSend(c) \/ PushMessage(c) \/ CallLost(c) PROVE Listener'
  BY <1>20, ListenerMore DEF CallSend, PushMessage, CallLost
<1>21. QED
  BY <1>2, <1>4, <1>5, <1>6, <1>7, <1>8, <1>9, <1>10, <1>13, <1>16, <1>17, <1>18, <1>19, <1>15,
     <1>20 DEF Next, IoThread, User

\* the inductive invariant
Inv == Types /\ Chans /\ First /\ OneClient /\ Listener

LEMMA InitInv == Init => Inv
<1> SUFFICES ASSUME Init PROVE Inv
  OBVIOUS
<1>1. Types /\ Chans
  BY TypesInit, ChanInit
<1>2. First /\ OneClient
  BY DEF Init, First, OneClient
<1>3. Listener
  <2>1. created = 1 /\ tasks = << <<"connect", 1>> >>
    BY DEF Init
  <2>2. Len(tasks) = 1 /\ tasks[1] = <<"connect", 1>>
    BY <2>1
  <2>3. Waits(created)
    BY <2>1, <2>2 DEF Waits, In
  <2>4. \A c \in Channel : ~(c < created)
    BY <2>1, ChannelType
  <2>5. Server => ~connected[created]
    BY <2>1, ChannelType DEF Init, Server
  <2>6. QED
    BY <2>3, <2>4, <2>5 DEF Listener
<1>4. QED
  BY <1>1, <1>2, <1>3 DEF Inv

LEMMA StepInv == Inv /\ [Next]_vars => Inv'
BY TypesStep, ChanStep, FirstStep, ListenerStep DEF Inv

LEMMA Invariance == Spec => []Inv
BY InitInv, StepInv, PTL DEF Spec

\* The service, its channels, the worker and the port always have the types of TypeOK.
THEOREM TypeCorrect == Spec => []TypeOK
<1>1. Inv => TypeOK
  <2> SUFFICES ASSUME Inv PROVE TypeOK
    OBVIOUS
  <2>1. Types /\ Chans
    BY DEF Inv
  <2>2. \A c \in Channel : queued[c] \in 0 .. MaxSends /\ writing[c] \in 0 .. MaxSends
    <3> SUFFICES ASSUME NEW c \in Channel
                 PROVE  queued[c] \in 0 .. MaxSends /\ writing[c] \in 0 .. MaxSends
      OBVIOUS
    <3>1. /\ queued[c] \in Nat /\ writing[c] \in Nat /\ Left(c) \in Nat
          /\ queued[c] + writing[c] <= Left(c)
      BY <2>1, LeftType
    <3>2. sends[c] \in 0 .. MaxSends /\ MaxSends \in Nat
      BY <2>1, ServiceAssumption DEF Types, StateTypes
    <3>3. Left(c) <= sends[c]
      BY <2>1 DEF Chans, Chan, Stage
    <3>4. QED
      BY <3>1, <3>2, <3>3
  <2>3. \A c \in Channel : told[c] \in {"nothing", "create", "read", "broken"}
    BY <2>1 DEF Types, StateTypes, Chans, Chan, Ending
  <2>4. /\ queued \in [Channel -> 0 .. MaxSends] /\ writing \in [Channel -> 0 .. MaxSends]
        /\ told \in [Channel -> {"nothing", "create", "read", "broken"}]
    BY <2>1, <2>2, <2>3 DEF Types, StateTypes
  <2>5. /\ tasks \in Seq({"connect", "send", "close"} \X Channel)
        /\ packets \in Seq((Kinds \X Channel) \cup {Worker})
    BY <2>1 DEF Types, QueueTypes, TaskSet, PacketSet
  <2>6. QED
    BY <2>1, <2>4, <2>5 DEF Types, StateTypes, TypeOK
<1>2. QED
  BY <1>1, Invariance, PTL

\* what Chan says of a channel that is gone
LEMMA OnlyWrites == Inv => OnlyWritesDangle
<1> SUFFICES ASSUME Inv PROVE OnlyWritesDangle
  OBVIOUS
<1>1. Types /\ Chans /\ tasks \in Seq(TaskSet) /\ packets \in Seq(PacketSet)
  BY TasksNow DEF Inv
<1>2. ASSUME NEW c \in Channel, c \notin channels
      PROVE  /\ ~In("connect", c, tasks) /\ (In("send", c, tasks) => c \in overtaken)
             /\ In("close", c, tasks) => sends[c] > 0
             /\ ~Connecting(c) /\ ~Reading(c) /\ ~In("written", c, packets)
  <2>1. Chan(c) /\ c \in Nat /\ created \in Nat /\ sends[c] \in Nat
    <3>1. Chan(c)
      BY <1>1 DEF Chans
    <3>2. created \in Channel /\ sends \in [Channel -> 0 .. MaxSends]
      BY <1>1 DEF Types, StateTypes
    <3>3. sends[c] \in 0 .. MaxSends
      BY <3>2
    <3>4. c \in Nat /\ created \in Nat
      BY <3>2, ChannelType
    <3>5. QED
      BY <3>1, <3>3, <3>4
  <2>2. CASE c > created
    BY <1>2, <2>1, <2>2 DEF Chan, Fresh, Stage, Ending, Writing
  <2>3. CASE c <= created
    <3>1. type[c] = "broken"
      BY <1>2, <2>1, <2>3 DEF Chan, Ending
    <3>2. In("close", c, tasks) => sends[c] # 0
      BY <1>2, <2>1 DEF Chan, Unwritten
    <3>3. sends[c] # 0 => sends[c] > 0
      BY <2>1
    <3>4. QED
      BY <1>2, <2>1, <3>1, <3>2, <3>3 DEF Chan, Stage, Ending
  <2>4. QED
    BY <2>1, <2>2, <2>3
<1>3. ASSUME NEW i \in DOMAIN tasks
      PROVE  \/ tasks[i][2] \in channels
             \/ tasks[i][1] = "close" /\ sends[tasks[i][2]] > 0
             \/ tasks[i][1] = "send" /\ tasks[i][2] \in overtaken
  <2>1. tasks[i] \in TaskSet /\ i \in 1 .. Len(tasks)
    BY <1>1
  <2>2. PICK k \in {"connect", "send", "close"}, c \in Channel : tasks[i] = <<k, c>>
    BY <2>1 DEF TaskSet
  <2>3. In(k, c, tasks)
    BY <2>1, <2>2 DEF In
  <2>4. QED
    BY <1>2, <2>2, <2>3
<1>4. ASSUME NEW i \in DOMAIN packets
      PROVE  \/ packets[i][2] \in channels \cup {NoChannel}
             \/ packets[i][1] = "broken write"
  <2>1. packets[i] \in PacketSet /\ i \in 1 .. Len(packets)
    BY <1>1
  <2>2. CASE packets[i] = Worker
    BY <2>2 DEF Worker
  <2>3. CASE packets[i] \in Kinds \X Channel
    <3>1. PICK k \in Kinds, c \in Channel : packets[i] = <<k, c>>
      BY <2>3
    <3>2. In(k, c, packets)
      BY <2>1, <3>1 DEF In
    <3>3. c \in channels \/ k = "broken write"
      <4> SUFFICES ASSUME c \notin channels PROVE k = "broken write"
        OBVIOUS
      <4>1. /\ ~In("connected", c, packets) /\ ~In("read", c, packets)
            /\ ~In("broken read", c, packets) /\ ~In("written", c, packets)
        BY <1>2 DEF Connecting, Reading
      <4>2. k \notin {"connected", "read", "broken read", "written"}
        BY <3>2, <4>1
      <4>3. QED
        BY <4>2 DEF Kinds
    <3>4. packets[i][1] = k /\ packets[i][2] = c
      BY <3>1
    <3>5. QED
      BY <3>3, <3>4
  <2>4. QED
    BY <2>1, <2>2, <2>3 DEF PacketSet
<1>5. ASSUME NEW op \in ops PROVE op[2] \in channels
  <2>1. PICK k \in {"connect", "read"}, c \in Channel : op = <<k, c>>
    BY <1>1 DEF Types, StateTypes
  <2>2. QED
    BY <1>2, <2>1 DEF Connecting, Reading
<1>6. QED
  BY <1>3, <1>4, <1>5 DEF OnlyWritesDangle

\* Of a channel that close_channel destroyed, only its pending and failed writes can be
\* left, a second close task if anything was sent, and the send() task of a send_message
\* that dispatched it after the user had been told that the pipe broke.
THEOREM OnlyWritesOutlive == Spec => []OnlyWritesDangle
BY Invariance, OnlyWrites, PTL

LEMMA WaitsMeansAwaiting ==
  ASSUME tasks \in Seq(TaskSet), packets \in Seq(PacketSet), NEW c
  PROVE  Waits(c) <=> Awaiting(c)
<1>1. DOMAIN tasks = 1 .. Len(tasks) /\ DOMAIN packets = 1 .. Len(packets)
  OBVIOUS
<1>2. In("connect", c, tasks) <=> <<"connect", c>> \in Range(tasks)
  BY <1>1 DEF In, Range
<1>3. In("connected", c, packets) <=> <<"connected", c>> \in Range(packets)
  BY <1>1 DEF In, Range
<1>4. QED
  BY <1>2, <1>3 DEF Waits, Connecting, Awaiting

LEMMA ListenerIsKept == Inv => ListenerKept
<1> SUFFICES ASSUME Inv, Server PROVE /\ \/ Awaiting(created) \/ Missed(created)
                                         \/ created = MaxChannels /\ connected[created]
                                      /\ \A c \in 1 .. created - 1 : ~Awaiting(c)
  BY DEF ListenerKept
<1>1. Types /\ Chans /\ Listener /\ tasks \in Seq(TaskSet) /\ packets \in Seq(PacketSet)
  BY TasksNow DEF Inv
<1>2. Awaiting(created) \/ Missed(created) \/ (created = MaxChannels /\ connected[created])
  BY <1>1, WaitsMeansAwaiting DEF Listener
<1>3. ASSUME NEW c \in 1 .. created - 1 PROVE ~Awaiting(c)
  <2>1. c \in Channel /\ c < created
    <3>1. created \in Nat /\ created <= MaxChannels /\ MaxChannels \in Nat
      BY <1>1, ServiceAssumption DEF Types, StateTypes, Channel
    <3>2. QED
      BY <3>1 DEF Channel
  <2>2. connected[c]
    BY <1>1, <2>1 DEF Listener
  <2>3. ~Waits(c)
    BY <1>1, <2>1, <2>2 DEF Chans, Chan, Stage, Waits
  <2>4. QED
    BY <1>1, <2>3, WaitsMeansAwaiting
<1>4. QED
  BY <1>2, <1>3

\* A server always has one instance for the next client, the newest, or missed the
\* client of it; the channels before it wait for no one.
THEOREM ListenerStays == Spec => []ListenerKept
BY Invariance, ListenerIsKept, PTL
=============================================================================
