------------------------ MODULE SocketChannelProofs ------------------------
(* Proofs about SocketChannel: types, the order of what is received and of     *)
(* what is sent, and that a connected channel goes on receiving.               *)
EXTENDS SocketChannel, FoldLemmas

-----------------------------------------------------------------------------
(* Type correctness. *)

\* the types of TypeOK, by name
Chunks == Seq(Chunk)
Sendable == Seq(Chunk) \ {<< >>}
Kinds == {"opened", "refused", "written", "broken write", "read", "broken read"}
PacketSet == Kinds \X Chunks
Calls3 == {"handler", "send", "recv"}

ScalarType == /\ role \in Roles /\ modes \in Systems
              /\ link \in {"closed", "opening", "up", "failed", "reset", "shut"}
              /\ connected \in BOOLEAN /\ s_pending \in BOOLEAN /\ r_pending \in BOOLEAN
              /\ receiving \in BOOLEAN /\ raced \in BOOLEAN /\ overtaken \in BOOLEAN
              /\ pc \in [Thread -> {"idle", "opening", "send", "swap", "start", "mark"}]
              /\ r_type \in {"unknown", "create", "read", "broken"}
              /\ told \in {"nothing", "unknown", "create", "read", "broken"}

SendType == /\ send_buffer \in Chunks /\ context \in Chunks /\ wire \in Chunks
            /\ accepted \in Chunks /\ sending \in Seq(Sendable)

RecvType == /\ arrived \in Chunks /\ recv_buffer \in Chunks /\ incoming \in Chunks
            /\ taken \in Chunks

PortType == packets \in Seq(PacketSet) /\ todo \in Seq(Calls3)

\* what is about to be sent and what was sent is not empty
NotEmpty == /\ \A t \in Thread : pc[t] = "start" => context # << >>
            /\ \A i \in 1 .. Len(packets) :
                 packets[i][1] = "written" => packets[i][2] # << >>

\* the queue holds a packet of one of these kinds
HasKind(K, queue) == \E i \in 1 .. Len(queue) : queue[i][1] \in K

\* the system has not opened the connection
Unopened == link \in {"closed", "opening"}

\* how far the opening of the channel has come: before its completion is handled
\* nothing is under way, and the port holds that completion alone
Phase ==
  /\ link = "closed" => context = << >> /\ pc["main"] = "idle"
  /\ Unopened => /\ ~connected /\ packets = << >> /\ arrived = << >> /\ incoming = << >>
                 /\ wire = << >>
  /\ ~connected => /\ ~receiving /\ sending = << >> /\ todo = << >> /\ recv_buffer = << >>
                   /\ taken = << >> /\ pc["io"] = "idle"
                   /\ pc["main"] \in {"idle", "opening", "send"}
  /\ ~connected /\ ~Unopened => /\ packets # << >> /\ Tail(packets) = << >>
                               /\ Head(packets)[1] \in {"opened", "refused"}
  /\ connected => ~HasKind({"opened", "refused"}, packets)
  /\ HasKind({"refused", "broken write"}, packets) => Dead

TypeInv == ScalarType /\ SendType /\ RecvType /\ PortType /\ Phase /\ NotEmpty

\* what the proofs use of the types gives the type invariant
LEMMA TypeInvTypeOK == TypeInv => TypeOK
  BY DEF TypeInv, ScalarType, SendType, RecvType, PortType, TypeOK, Chunks, Sendable, Kinds,
         PacketSet, Calls3

\* the two threads
LEMMA ThreadNames == Thread = {"main", "io"}
  BY DEF Thread

\* every step keeps the types of the flags, the link and the threads
LEMMA ScalarStep == TypeInv /\ [Next]_vars => ScalarType'
<1> SUFFICES ASSUME TypeInv, [Next]_vars PROVE ScalarType'
  OBVIOUS
<1> USE DEF TypeInv, ScalarType, fixed, sendVars, recvVars, races, Thread
<1>1. CASE UNCHANGED vars
  BY <1>1 DEF vars
<1>2. CASE SendEarly
  BY <1>2 DEF SendEarly
<1>3. CASE Open
  BY <1>3 DEF Open
<1>4. CASE SendBuffer
  BY <1>4 DEF SendBuffer, Accepts, EntersSend, InSend
<1>5. CASE MarkOpening
  <2>1. pc' \in [Thread -> {"idle", "opening", "send", "swap", "start", "mark"}]
    BY <1>5 DEF MarkOpening
  <2>2. s_pending' \in BOOLEAN /\ r_pending' \in BOOLEAN
    BY <1>5 DEF MarkOpening
  <2>3. UNCHANGED <<role, modes, link, connected, receiving, r_type, told, raced, overtaken>>
    BY <1>5 DEF MarkOpening
  <2>4. QED
    BY <2>1, <2>2, <2>3
<1>6. ASSUME NEW t \in Thread, Send(t) PROVE ScalarType'
  <2>1. CASE TestPending(t)
    BY <2>1 DEF TestPending
  <2>2. CASE Swap(t)
    BY <2>2 DEF Swap
  <2>3. CASE WSASend(t)
    BY <2>3 DEF WSASend
  <2>4. CASE MarkSend(t)
    BY <2>4 DEF MarkSend
  <2>5. QED
    BY <1>6, <2>1, <2>2, <2>3, <2>4 DEF Send
<1>7. ASSUME NEW kind, Opened(kind) PROVE ScalarType'
  BY <1>7 DEF Opened, Packet
<1>8. CASE SendCompleted
  BY <1>8 DEF SendCompleted, HandledInSend
<1>9. CASE RecvCompleted
  BY <1>9 DEF RecvCompleted
<1>10. ASSUME NEW kind, Broken(kind) PROVE ScalarType'
  BY <1>10 DEF Broken, HandledInSend
<1>11. CASE Handler
  BY <1>11 DEF Handler, Accepts, EntersSend, InSend
<1>12. CASE CallSend
  BY <1>12 DEF CallSend, EntersSend, InSend
<1>13. CASE CallRecv
  <2>1. UNCHANGED <<role, modes, link, connected, s_pending, pc, told, raced, overtaken>>
    BY <1>13 DEF CallRecv
  <2>2. r_pending' \in {r_pending, TRUE} /\ receiving' \in {receiving, TRUE}
    BY <1>13 DEF CallRecv
  <2>3. r_type' \in {r_type, "read", "broken"}
    BY <1>13 DEF CallRecv
  <2>4. r_pending' \in BOOLEAN /\ receiving' \in BOOLEAN
    BY <2>2 DEF TypeInv, ScalarType
  <2>5. r_type' \in {"unknown", "create", "read", "broken"}
    BY <2>3 DEF TypeInv, ScalarType
  <2>6. QED
    BY <2>1, <2>4, <2>5
<1>14. CASE System
  <2>1. CASE SystemOpens
    BY <2>1 DEF SystemOpens
  <2>2. CASE SystemRefuses
    BY <2>2 DEF SystemRefuses
  <2>3. CASE SystemSends
    BY <2>3 DEF SystemSends
  <2>4. CASE SystemBreaks
    BY <2>4 DEF SystemBreaks
  <2>5. QED
    BY <1>14, <2>1, <2>2, <2>3, <2>4 DEF System
<1>15. CASE PeerSendsChunk \/ PeerShuts \/ PeerResets
  <2>1. CASE PeerSendsChunk
    BY <2>1 DEF PeerSendsChunk
  <2>2. CASE PeerShuts
    BY <2>2 DEF PeerShuts
  <2>3. CASE PeerResets
    BY <2>3 DEF PeerResets
  <2>4. QED
    BY <1>15, <2>1, <2>2, <2>3
<1>16. QED
  BY <1>1, <1>2, <1>3, <1>4, <1>5, <1>6, <1>7, <1>8, <1>9, <1>10, <1>11, <1>12, <1>13,
     <1>14, <1>15 DEF Next, Main, IoThread

\* members of the port's queue
LEMMA PacketMembers ==
  /\ << >> \in Chunks /\ << >> \in Seq(Calls3)
  /\ \A kind \in Kinds, data \in Chunks : <<kind, data>> \in PacketSet
  /\ \A p \in PacketSet : p[1] \in Kinds /\ p[2] \in Chunks
  BY EmptySeq DEF Chunks, PacketSet

\* posting and taking keep the types of the queues
LEMMA PacketsChange ==
  ASSUME PortType
  PROVE  /\ \A p \in PacketSet : Append(packets, p) \in Seq(PacketSet)
         /\ packets # << >> => Head(packets) \in PacketSet /\ Tail(packets) \in Seq(PacketSet)
         /\ todo # << >> => Tail(todo) \in Seq(Calls3)
  BY AppendProperties, HeadTailProperties DEF PortType

\* every step keeps the types of the port's queue and of what is left to call
LEMMA PortStep == TypeInv /\ [Next]_vars => PortType'
<1> SUFFICES ASSUME TypeInv, [Next]_vars PROVE PortType'
  OBVIOUS
<1>1. /\ PortType /\ SendType /\ RecvType /\ packets \in Seq(PacketSet) /\ todo \in Seq(Calls3)
  BY DEF TypeInv, PortType
<1> USE PacketsChange, <1>1 DEF fixed, sendVars, recvVars, races
<1>2. CASE UNCHANGED <<packets, todo>>
  BY <1>2 DEF PortType
<1>3. ASSUME NEW t \in Thread, WSASend(t) PROVE PortType'
  <2>1. packets' \in Seq(PacketSet)
    <3>1. <<"written", context>> \in PacketSet
      BY PacketMembers DEF SendType, Kinds
    <3>2. QED
      BY <1>3, <3>1 DEF WSASend
  <2>2. todo' \in Seq(Calls3)
    <3>1. <<"handler">> \in Seq(Calls3)
      BY DEF Calls3
    <3>2. <<"handler">> \o todo \in Seq(Calls3)
      BY <3>1, ConcatProperties
    <3>3. QED
      BY <1>3, <3>2 DEF WSASend
  <2>3. QED
    BY <2>1, <2>2 DEF PortType
<1>4. ASSUME NEW kind, Opened(kind) PROVE PortType'
  <2>1. <<"handler", "send", "recv">> \in Seq(Calls3)
    BY DEF Calls3
  <2>2. QED
    BY <1>4, <2>1 DEF Opened, Packet, PortType
<1>5. CASE SendCompleted
  <2>1. <<"send">> \in Seq(Calls3)
    BY DEF Calls3
  <2>2. QED
    BY <1>5, <2>1 DEF SendCompleted, Packet, PortType
<1>6. CASE RecvCompleted
  <2>1. <<"handler", "recv">> \in Seq(Calls3)
    BY DEF Calls3
  <2>2. QED
    BY <1>6, <2>1 DEF RecvCompleted, Packet, PortType
<1>7. ASSUME NEW kind, Broken(kind) PROVE PortType'
  <2>1. <<"handler">> \in Seq(Calls3)
    BY DEF Calls3
  <2>2. QED
    BY <1>7, <2>1 DEF Broken, Packet, PortType
<1>8. CASE Handler
  BY <1>8 DEF Handler, Calls, PortType
<1>9. CASE CallSend
  BY <1>9 DEF CallSend, Calls, PortType
<1>10. CASE CallRecv
  <2>1. packets' \in Seq(PacketSet)
    <3>1. <<"read", arrived>> \in PacketSet
      BY PacketMembers DEF RecvType, Kinds
    <3>2. QED
      BY <1>10, <3>1 DEF CallRecv
  <2>2. todo' \in Seq(Calls3)
    <3>1. todo # << >> /\ Tail(todo) \in Seq(Calls3)
      BY <1>10 DEF CallRecv, Calls
    <3>2. <<"handler">> \in Seq(Calls3)
      BY DEF Calls3
    <3>3. <<"handler">> \o Tail(todo) \in Seq(Calls3)
      BY <3>1, <3>2, ConcatProperties
    <3>4. QED
      BY <1>10, <3>1, <3>3 DEF CallRecv
  <2>3. QED
    BY <2>1, <2>2 DEF PortType
<1>11. CASE SystemOpens
  <2>1. << >> \in Chunks /\ "opened" \in Kinds
    BY PacketMembers DEF Kinds
  <2>2. role = "accept" /\ PeerSends > 0 => <<1>> \in Chunks
    BY BoundsAssumption DEF Chunks, Chunk
  <2>3. QED
    BY <1>11, <2>1, <2>2, PacketMembers DEF SystemOpens, PortType
<1>12. CASE SystemRefuses
  <2>1. << >> \in Chunks /\ "refused" \in Kinds
    BY PacketMembers DEF Kinds
  <2>2. <<0>> \in Chunks
    BY BoundsAssumption DEF Chunks, Chunk
  <2>3. QED
    BY <1>12, <2>1, <2>2, PacketMembers DEF SystemRefuses, PortType
<1>13. CASE SystemSends
  <2>1. Head(sending) \in Chunks /\ "written" \in Kinds
    BY <1>13, HeadTailProperties DEF SystemSends, SendType, Sendable, Chunks, Kinds
  <2>2. QED
    BY <1>13, <2>1, PacketMembers DEF SystemSends, PortType
<1>14. CASE SystemBreaks
  <2>1. << >> \in Chunks /\ "broken write" \in Kinds /\ "broken read" \in Kinds
    BY PacketMembers DEF Kinds
  <2>2. QED
    BY <1>14, <2>1, PacketMembers DEF SystemBreaks, PortType
<1>15. CASE PeerSendsChunk
  <2>1. <<Len(incoming) + 1>> \in Chunks /\ "read" \in Kinds
    <3>1. Len(incoming) \in Nat
      BY LenProperties DEF RecvType, Chunks
    <3>2. Len(incoming) + 1 \in Chunk
      BY <1>15, <3>1, BoundsAssumption DEF PeerSendsChunk, Chunk
    <3>3. QED
      BY <3>2 DEF Chunks, Kinds
  <2>2. QED
    BY <1>15, <2>1, PacketMembers DEF PeerSendsChunk, PortType
<1>16. CASE PeerShuts
  <2>1. << >> \in Chunks /\ "read" \in Kinds
    BY PacketMembers DEF Kinds
  <2>2. QED
    BY <1>16, <2>1, PacketMembers DEF PeerShuts, PortType
<1>17. CASE SendEarly \/ Open \/ SendBuffer \/ MarkOpening \/ PeerResets
  BY <1>2, <1>17 DEF SendEarly, Open, SendBuffer, MarkOpening, PeerResets
<1>18. ASSUME NEW t \in Thread, TestPending(t) \/ Swap(t) \/ MarkSend(t) PROVE PortType'
  BY <1>2, <1>18 DEF TestPending, Swap, MarkSend
<1>19. QED
  BY <1>2, <1>3, <1>4, <1>5, <1>6, <1>7, <1>8, <1>9, <1>10, <1>11, <1>12, <1>13, <1>14,
     <1>15, <1>16, <1>17, <1>18 DEF Next, vars, Main, IoThread, System, Send, Thread

\* how a packet posted or taken changes the queue
LEMMA PacketValues ==
  ASSUME PortType
  PROVE  /\ Len(packets) \in Nat
         /\ \A p \in PacketSet :
              /\ Len(Append(packets, p)) = Len(packets) + 1
              /\ Append(packets, p)[Len(packets) + 1] = p
              /\ \A i \in 1 .. Len(packets) : Append(packets, p)[i] = packets[i]
         /\ packets # << >> =>
              /\ Len(packets) # 0 /\ Len(Tail(packets)) = Len(packets) - 1
              /\ \A i \in 1 .. Len(packets) - 1 : Tail(packets)[i] = packets[i + 1]
<1>1. packets \in Seq(PacketSet)
  BY DEF PortType
<1>2. Len(packets) \in Nat
  BY <1>1, LenProperties
<1>3. \A p \in PacketSet : /\ Len(Append(packets, p)) = Len(packets) + 1
                           /\ Append(packets, p)[Len(packets) + 1] = p
                           /\ \A i \in 1 .. Len(packets) : Append(packets, p)[i] = packets[i]
  BY <1>1, AppendProperties
<1>4. ASSUME packets # << >>
      PROVE  /\ Len(packets) # 0 /\ Len(Tail(packets)) = Len(packets) - 1
             /\ \A i \in 1 .. Len(packets) - 1 : Tail(packets)[i] = packets[i + 1]
  <2>1. Len(packets) # 0 /\ Len(Tail(packets)) = Len(packets) - 1
    BY <1>1, <1>4, EmptySeq, HeadTailProperties
  <2>2. \A i \in 1 .. Len(Tail(packets)) : Tail(packets)[i] = packets[i + 1]
    BY <1>1, <1>4, HeadTailProperties
  <2>3. QED
    BY <2>1, <2>2
<1>5. QED
  BY <1>2, <1>3, <1>4

\* the kinds in the queue, and how they change
LEMMA KindOps ==
  ASSUME PortType, NEW K
  PROVE  /\ \A p \in PacketSet :
               HasKind(K, Append(packets, p)) <=> HasKind(K, packets) \/ p[1] \in K
         /\ packets # << >> =>
              (HasKind(K, packets) <=> Head(packets)[1] \in K \/ HasKind(K, Tail(packets)))
         /\ ~HasKind(K, << >>)
<1>1. ASSUME NEW p \in PacketSet
      PROVE  HasKind(K, Append(packets, p)) <=> HasKind(K, packets) \/ p[1] \in K
  <2>1. ASSUME NEW i \in 1 .. Len(Append(packets, p))
        PROVE  \/ i \in 1 .. Len(packets) /\ Append(packets, p)[i] = packets[i]
               \/ Append(packets, p)[i] = p
    BY PacketValues
  <2>2. HasKind(K, Append(packets, p)) => HasKind(K, packets) \/ p[1] \in K
    BY <2>1 DEF HasKind
  <2>3. \A i \in 1 .. Len(packets) : /\ i \in 1 .. Len(Append(packets, p))
                                     /\ Append(packets, p)[i] = packets[i]
    BY PacketValues
  <2>4. /\ Len(packets) + 1 \in 1 .. Len(Append(packets, p))
        /\ Append(packets, p)[Len(packets) + 1] = p
    BY PacketValues
  <2>5. HasKind(K, packets) \/ p[1] \in K => HasKind(K, Append(packets, p))
    BY <2>3, <2>4 DEF HasKind
  <2>6. QED
    BY <2>2, <2>5
<1>2. ASSUME packets # << >>
      PROVE  HasKind(K, packets) <=> Head(packets)[1] \in K \/ HasKind(K, Tail(packets))
  <2>1. Head(packets) = packets[1] /\ 1 \in 1 .. Len(packets)
    BY <1>2, PacketValues DEF PortType
  <2>2. ASSUME NEW i \in 1 .. Len(packets), i # 1
        PROVE  i - 1 \in 1 .. Len(Tail(packets)) /\ Tail(packets)[i - 1] = packets[i]
    <3>1. i - 1 \in 1 .. Len(packets) - 1 /\ (i - 1) + 1 = i
      BY <2>2, PacketValues
    <3>2. QED
      BY <1>2, <3>1, PacketValues
  <2>3. ASSUME NEW i \in 1 .. Len(Tail(packets))
        PROVE  i + 1 \in 1 .. Len(packets) /\ Tail(packets)[i] = packets[i + 1]
    BY <1>2, PacketValues
  <2>4. HasKind(K, packets) => Head(packets)[1] \in K \/ HasKind(K, Tail(packets))
    BY <2>1, <2>2 DEF HasKind
  <2>5. Head(packets)[1] \in K \/ HasKind(K, Tail(packets)) => HasKind(K, packets)
    BY <2>1, <2>3 DEF HasKind
  <2>6. QED
    BY <2>4, <2>5
<1>3. ~HasKind(K, << >>)
  BY EmptySeq DEF HasKind
<1>4. QED
  BY <1>1, <1>2, <1>3

\* operations on chunks, with the concatenation under its own name
LEMMA ChunkOps ==
  /\ << >> \in Chunks /\ Len(<< >>) = 0
  /\ \A s \in Chunks : Len(s) \in Nat /\ (s # << >> => Len(s) # 0)
  /\ \A s, t \in Chunks : s \o t \in Chunks /\ Cat(s, t) \in Chunks
  /\ \A s \in Chunks, x \in Chunk : Append(s, x) \in Chunks
<1>1. << >> \in Chunks /\ Len(<< >>) = 0
  BY EmptySeq DEF Chunks
<1>2. \A s \in Chunks : Len(s) \in Nat /\ (s # << >> => Len(s) # 0)
  BY EmptySeq, LenProperties DEF Chunks
<1>3. \A s, t \in Chunks : s \o t \in Chunks /\ Cat(s, t) \in Chunks
  BY ConcatProperties DEF Chunks, Cat
<1>4. \A s \in Chunks, x \in Chunk : Append(s, x) \in Chunks
  BY AppendProperties DEF Chunks
<1>5. QED
  BY <1>1, <1>2, <1>3, <1>4

\* the chunks that send_buffer and the peer number are in range
LEMMA NextChunks ==
  /\ accepted \in Chunks /\ Len(accepted) < MaxSends => Len(accepted) + 1 \in Chunk
  /\ incoming \in Chunks /\ Len(incoming) < PeerSends => Len(incoming) + 1 \in Chunk
  /\ PeerSends > 0 => <<1>> \in Chunks
<1>1. MaxSends \in Nat /\ PeerSends \in Nat
  BY BoundsAssumption
<1>2. accepted \in Chunks /\ Len(accepted) < MaxSends => Len(accepted) + 1 \in Chunk
  <2>1. accepted \in Chunks => Len(accepted) \in Nat
    BY ChunkOps
  <2>2. QED
    BY <1>1, <2>1 DEF Chunk
<1>3. incoming \in Chunks /\ Len(incoming) < PeerSends => Len(incoming) + 1 \in Chunk
  <2>1. incoming \in Chunks => Len(incoming) \in Nat
    BY ChunkOps
  <2>2. QED
    BY <1>1, <2>1 DEF Chunk
<1>4. PeerSends > 0 => 1 \in Chunk
  BY <1>1 DEF Chunk
<1>5. QED
  BY <1>2, <1>3, <1>4 DEF Chunks


\* a queue of one packet
LEMMA OnePacket ==
  ASSUME NEW p
  PROVE  /\ Append(<< >>, p) # << >> /\ Head(Append(<< >>, p)) = p
         /\ Tail(Append(<< >>, p)) = << >>
  OBVIOUS

\* every step keeps the phase of the opening
LEMMA PhaseStep == TypeInv /\ [Next]_vars => Phase'
<1> SUFFICES ASSUME TypeInv, [Next]_vars PROVE Phase'
  OBVIOUS
<1> DEFINE Openers == {"opened", "refused"}
           Failures == {"refused", "broken write"}
           Steady == /\ link' = "closed" => context' = << >> /\ pc'["main"] = "idle"
                     /\ Unopened' => /\ ~connected' /\ packets' = << >> /\ arrived' = << >>
                                     /\ incoming' = << >> /\ wire' = << >>
                     /\ ~connected' => /\ ~receiving' /\ sending' = << >> /\ todo' = << >>
                                       /\ recv_buffer' = << >> /\ taken' = << >>
                                       /\ pc'["io"] = "idle"
                                       /\ pc'["main"] \in {"idle", "opening", "send"}
           Port == /\ ~connected' /\ ~Unopened' => /\ packets' # << >> /\ Tail(packets') = << >>
                                                   /\ Head(packets')[1] \in Openers
                   /\ connected' => ~HasKind(Openers, packets')
                   /\ HasKind(Failures, packets') => Dead'
<1>1. ScalarType /\ SendType /\ RecvType /\ PortType /\ Phase
  BY DEF TypeInv
<1>2. Steady /\ Port => Phase'
  BY DEF Phase
<1>3. Steady
  <2>1. /\ link = "closed" => context = << >> /\ pc["main"] = "idle"
        /\ Unopened => /\ ~connected /\ packets = << >> /\ arrived = << >> /\ incoming = << >>
                       /\ wire = << >>
        /\ ~connected => /\ ~receiving /\ sending = << >> /\ todo = << >> /\ recv_buffer = << >>
                         /\ taken = << >> /\ pc["io"] = "idle"
                         /\ pc["main"] \in {"idle", "opening", "send"}
        /\ pc \in [Thread -> {"idle", "opening", "send", "swap", "start", "mark"}]
        /\ link \in {"closed", "opening", "up", "failed", "reset", "shut"}
        /\ connected \in BOOLEAN /\ receiving \in BOOLEAN
    BY <1>1 DEF Phase, ScalarType
  <2>2. connected => ~HasKind(Openers, packets)
    BY <1>1 DEF Phase
  <2>3. ~connected /\ packets # << >> => Head(packets)[1] \in Openers
    BY <1>1 DEF Phase
  <2> USE <2>1 DEF Unopened, fixed, sendVars, recvVars, races, Thread
  <2>4. CASE UNCHANGED vars
    BY <2>4 DEF vars
  <2>5. CASE SendEarly
    BY <2>5 DEF SendEarly
  <2>6. CASE Open
    BY <2>6 DEF Open
  <2>7. CASE SendBuffer
    BY <2>7 DEF SendBuffer, Accepts, EntersSend
  <2>8. CASE MarkOpening
    BY <2>8 DEF MarkOpening
  <2>9. ASSUME NEW t \in Thread, TestPending(t) PROVE Steady
    BY <2>9 DEF TestPending
  <2>10. ASSUME NEW t \in Thread, Swap(t) PROVE Steady
    BY <2>10 DEF Swap
  <2>11. ASSUME NEW t \in Thread, WSASend(t) PROVE Steady
    BY <2>11 DEF WSASend
  <2>12. ASSUME NEW t \in Thread, MarkSend(t) PROVE Steady
    BY <2>12 DEF MarkSend
  <2>13. ASSUME NEW kind, Opened(kind) PROVE Steady
    BY <2>13 DEF Opened, Packet
  <2>14. CASE SendCompleted
    BY <2>3, <2>14 DEF SendCompleted, Packet
  <2>15. CASE RecvCompleted
    BY <2>3, <2>15 DEF RecvCompleted, Packet
  <2>16. ASSUME NEW kind \in {"broken write", "broken read"}, Broken(kind) PROVE Steady
    BY <2>3, <2>16 DEF Broken, Packet
  <2>17. CASE Handler
    BY <2>17 DEF Handler, Calls, Accepts, EntersSend
  <2>18. CASE CallSend
    BY <2>18 DEF CallSend, Calls, EntersSend
  <2>19. CASE CallRecv
    BY <2>19 DEF CallRecv, Calls
  <2>20. CASE SystemOpens \/ SystemRefuses
    BY <2>20 DEF SystemOpens, SystemRefuses
  <2>21. CASE SystemSends \/ SystemBreaks
    BY <2>21 DEF SystemSends, SystemBreaks
  <2>22. CASE PeerSendsChunk \/ PeerShuts \/ PeerResets
    BY <2>22 DEF PeerSendsChunk, PeerShuts, PeerResets
  <2>23. QED
    BY <2>4, <2>5, <2>6, <2>7, <2>8, <2>9, <2>10, <2>11, <2>12, <2>13, <2>14, <2>15, <2>16,
       <2>17, <2>18, <2>19, <2>20, <2>21, <2>22 DEF Next, Main, IoThread, System, Send
<1>4. Port
  <2>1. /\ Unopened => ~connected /\ packets = << >>
        /\ ~connected => ~receiving /\ sending = << >> /\ todo = << >> /\ pc["io"] = "idle"
                         /\ pc["main"] \in {"idle", "opening", "send"}
        /\ ~connected /\ ~Unopened => /\ packets # << >> /\ Tail(packets) = << >>
                                      /\ Head(packets)[1] \in Openers
        /\ connected => ~HasKind(Openers, packets)
        /\ HasKind(Failures, packets) => Dead
        /\ connected \in BOOLEAN
        /\ link \in {"closed", "opening", "up", "failed", "reset", "shut"}
    BY <1>1 DEF Phase, ScalarType
  <2>2. /\ packets # << >> => /\ HasKind(Openers, packets) <=> Head(packets)[1] \in Openers
                                                               \/ HasKind(Openers, Tail(packets))
                              /\ HasKind(Failures, packets) <=> Head(packets)[1] \in Failures
                                                                \/ HasKind(Failures, Tail(packets))
        /\ ~HasKind(Openers, << >>) /\ ~HasKind(Failures, << >>)
    BY <1>1, KindOps
  <2>3. Unopened = (link \in {"closed", "opening"}) /\ Unopened' = (link' \in {"closed", "opening"})
    BY DEF Unopened
  <2>4. Dead = (link \in {"failed", "reset"}) /\ Dead' = (link' \in {"failed", "reset"})
    BY DEF Dead
  <2>5. ASSUME NEW kind \in Kinds, NEW data \in Chunks, packets' = Append(packets, <<kind, data>>)
        PROVE  /\ HasKind(Openers, packets') <=> HasKind(Openers, packets) \/ kind \in Openers
               /\ HasKind(Failures, packets') <=> HasKind(Failures, packets) \/ kind \in Failures
    <3> DEFINE p == <<kind, data>>
    <3>1. p \in PacketSet /\ p[1] = kind
      BY PacketMembers
    <3> HIDE DEF p
    <3>2. /\ HasKind(Openers, Append(packets, p)) <=> HasKind(Openers, packets) \/ p[1] \in Openers
          /\ HasKind(Failures, Append(packets, p)) <=> HasKind(Failures, packets) \/ p[1] \in Failures
      BY <1>1, <3>1, KindOps
    <3>3. QED
      BY <2>5, <3>1, <3>2 DEF p
  <2>6. << >> \in Chunks /\ Kinds = {"opened", "refused", "written", "broken write", "read",
                                     "broken read"}
    BY PacketMembers DEF Kinds
  <2>7. \A t \in Thread : pc[t] \in {"start", "swap", "mark"} => connected
    BY <2>1, ThreadNames
  <2>8. context \in Chunks /\ arrived \in Chunks
    BY <1>1 DEF SendType, RecvType
  <2>9. sending # << >> => Head(sending) \in Chunks
    BY <1>1, HeadTailProperties DEF SendType, Sendable, Chunks
  <2>10. Len(incoming) < PeerSends => <<Len(incoming) + 1>> \in Chunks
    <3>1. Len(incoming) < PeerSends => Len(incoming) + 1 \in Chunk
      BY <1>1, NextChunks DEF RecvType
    <3>2. QED
      BY <3>1 DEF Chunks
  <2>11. PeerSends > 0 => <<1>> \in Chunks
    BY NextChunks
  <2> USE <2>1, <2>2, <2>3, <2>4 DEF fixed, sendVars, recvVars, races
  <2>12. CASE UNCHANGED <<packets, connected, link>>
    BY <2>12
  <2>13. CASE Open
    BY <2>13 DEF Open
  <2>14. ASSUME NEW kind \in {"opened", "refused"}, Opened(kind) PROVE Port
    BY <2>14 DEF Opened, Packet
  <2>15. ASSUME packets # << >>, Head(packets)[1] \notin Openers, packets' = Tail(packets),
                UNCHANGED <<connected, link>>
         PROVE  Port
    BY <2>15
  <2>16. CASE SendCompleted \/ RecvCompleted
    BY <2>15, <2>16 DEF SendCompleted, RecvCompleted, Packet
  <2>17. ASSUME NEW kind \in {"broken write", "broken read"}, Broken(kind) PROVE Port
    BY <2>15, <2>17 DEF Broken, Packet
  <2>18. CASE SystemOpens
    <3>1. PICK data \in Chunks : packets' = Append(packets, <<"opened", data>>)
      BY <2>6, <2>18, <2>11 DEF SystemOpens
    <3>2. packets = << >>
      BY <2>18 DEF SystemOpens
    <3> DEFINE p == <<"opened", data>>
    <3>3. packets' = Append(<< >>, p) /\ p[1] = "opened"
      BY <3>1, <3>2
    <3> HIDE DEF p
    <3>4. packets' # << >> /\ Tail(packets') = << >> /\ Head(packets')[1] = "opened"
      BY <3>3, OnePacket
    <3>5. ~HasKind(Failures, packets')
      BY <2>5, <2>6, <2>18, <3>1 DEF SystemOpens
    <3>6. QED
      BY <2>18, <3>4, <3>5 DEF SystemOpens
  <2>19. CASE SystemRefuses
    <3>1. PICK data : packets' = Append(packets, <<"refused", data>>)
      BY <2>19 DEF SystemRefuses
    <3>2. packets = << >>
      BY <2>19 DEF SystemRefuses
    <3> DEFINE p == <<"refused", data>>
    <3>3. packets' = Append(<< >>, p) /\ p[1] = "refused"
      BY <3>1, <3>2
    <3> HIDE DEF p
    <3>4. packets' # << >> /\ Tail(packets') = << >> /\ Head(packets')[1] = "refused"
      BY <3>3, OnePacket
    <3>5. QED
      BY <2>19, <3>4 DEF SystemRefuses
  <2>20. ASSUME NEW kind \in Kinds \ {"opened", "refused"}, NEW data \in Chunks,
                packets' = Append(packets, <<kind, data>>), connected, connected',
                link' = link, kind = "broken write" => Dead
         PROVE  Port
    BY <2>5, <2>6, <2>20
  <2> HIDE <2>2, <2>3, <2>4
  <2>21. ASSUME NEW t \in Thread, WSASend(t) PROVE Port
    <3>1. connected
      BY <2>21, <2>7 DEF WSASend
    <3>2. CASE packets' = packets
      BY <2>12, <2>21, <3>2 DEF WSASend
    <3>3. CASE packets' = Append(packets, <<"written", context>>)
      BY <2>6, <2>20, <2>21, <2>8, <3>1, <3>3 DEF WSASend
    <3>4. QED
      BY <2>21, <3>2, <3>3 DEF WSASend
  <2>22. CASE SystemSends
    <3>1. connected
      BY <2>22 DEF SystemSends
    <3>2. PICK data \in Chunks : packets' = Append(packets, <<"written", data>>)
      BY <2>22, <2>9 DEF SystemSends
    <3>3. connected' = connected /\ link' = link
      BY <2>22 DEF SystemSends
    <3>4. QED
      BY <2>6, <2>20, <3>1, <3>2, <3>3
  <2>23. CASE SystemBreaks
    BY <2>4, <2>6, <2>20, <2>23 DEF SystemBreaks
  <2>24. CASE PeerSendsChunk
    <3>1. ~receiving => Port
      BY <2>12, <2>24 DEF PeerSendsChunk
    <3>2. ASSUME receiving PROVE Port
      <4>1. /\ packets' = Append(packets, <<"read", <<Len(incoming) + 1>> >>)
            /\ <<Len(incoming) + 1>> \in Chunks
        BY <2>24, <2>10, <3>2 DEF PeerSendsChunk
      <4>2. QED
        BY <2>6, <2>20, <2>24, <3>2, <4>1 DEF PeerSendsChunk
    <3>3. QED
      BY <3>1, <3>2
  <2>25. CASE PeerShuts
    <3>1. ~receiving => Port
      BY <2>2, <2>3, <2>4, <2>25 DEF PeerShuts
    <3>2. ASSUME receiving PROVE Port
      <4>1. HasKind(Failures, packets') <=> HasKind(Failures, packets)
        BY <2>5, <2>6, <2>25, <3>2 DEF PeerShuts
      <4>2. HasKind(Openers, packets') <=> HasKind(Openers, packets)
        BY <2>5, <2>6, <2>25, <3>2 DEF PeerShuts
      <4>3. QED
        BY <2>2, <2>3, <2>4, <2>25, <3>2, <4>1, <4>2 DEF PeerShuts
    <3>3. QED
      BY <3>1, <3>2
  <2>26. CASE PeerResets
    BY <2>2, <2>3, <2>4, <2>26 DEF PeerResets
  <2>27. CASE CallRecv
    <3>1. connected /\ arrived \in Chunks
      BY <1>1, <2>27 DEF CallRecv, Calls, RecvType
    <3>2. QED
      BY <2>6, <2>12, <2>20, <2>27, <3>1 DEF CallRecv
  <2>28. CASE SendEarly \/ SendBuffer \/ MarkOpening \/ Handler \/ CallSend
    BY <2>12, <2>28 DEF SendEarly, SendBuffer, MarkOpening, Handler, CallSend
  <2>29. ASSUME NEW t \in Thread, TestPending(t) \/ Swap(t) \/ MarkSend(t) PROVE Port
    BY <2>12, <2>29 DEF TestPending, Swap, MarkSend
  <2>30. QED
    BY <2>12, <2>13, <2>14, <2>16, <2>17, <2>18, <2>19, <2>21, <2>22, <2>23, <2>24, <2>25, <2>26,
       <2>27, <2>28, <2>29 DEF Next, vars, Main, IoThread, System, Send, Thread
<1>5. QED
  BY <1>2, <1>3, <1>4


\* io_completed's resize: a cut to the buffer's own length changes nothing
LEMMA ResizedType ==
  ASSUME NEW s \in Chunks, NEW n \in Nat
  PROVE  /\ Resized(s, n) \in Chunks /\ Len(Resized(s, n)) = n
         /\ n # 0 => Resized(s, n) # << >>
         /\ n = Len(s) => Resized(s, n) = s
<1>1. s \in Seq(Chunk) /\ Len(s) \in Nat /\ \A i \in 1 .. Len(s) : s[i] \in Chunk
  BY ElementOfSeq, LenProperties DEF Chunks
<1>2. 0 \in Chunk
  BY BoundsAssumption DEF Chunk
<1>3. Resized(s, n) \in [1 .. n -> Chunk]
  BY <1>1, <1>2 DEF Resized
<1>4. Resized(s, n) \in Chunks /\ Len(Resized(s, n)) = n
  BY <1>3 DEF Chunks
<1>5. ASSUME n = Len(s) PROVE Resized(s, n) = s
  <2>1. \A i \in 1 .. n : Resized(s, n)[i] = s[i]
    BY <1>5 DEF Resized
  <2>2. QED
    BY <1>1, <1>4, <1>5, <2>1, SeqEqual DEF Chunks
<1>6. n # 0 => Resized(s, n) # << >>
  BY <1>4, ChunkOps
<1>7. QED
  BY <1>4, <1>5, <1>6

\* the packet that the I/O thread takes
LEMMA HeadPacket ==
  ASSUME PortType, packets # << >>
  PROVE  /\ Head(packets) \in PacketSet /\ Data \in Chunks /\ Len(Data) \in Nat
         /\ Len(packets) \in Nat \ {0} /\ Head(packets) = packets[1]
<1>1. Head(packets) \in PacketSet
  BY HeadTailProperties DEF PortType
<1>2. Data \in Chunks
  BY <1>1, PacketMembers DEF Data
<1>3. Len(packets) \in Nat \ {0} /\ Head(packets) = packets[1]
  BY EmptySeq DEF PortType
<1>4. QED
  BY <1>1, <1>2, <1>3, ChunkOps

\* every step keeps the types of the sending side
LEMMA SendTypeStep == TypeInv /\ [Next]_vars => SendType'
<1> SUFFICES ASSUME TypeInv, [Next]_vars PROVE SendType'
  OBVIOUS
<1>1. SendType /\ PortType /\ RecvType
  BY DEF TypeInv
<1>2. CASE UNCHANGED <<send_buffer, context, wire, accepted, sending>>
  BY <1>1, <1>2 DEF SendType
<1>3. Len(accepted) < MaxSends => /\ Append(accepted, Len(accepted) + 1) \in Chunks
                                  /\ Append(send_buffer, Len(accepted) + 1) \in Chunks
  BY <1>1, NextChunks, ChunkOps DEF SendType
<1>4. CASE SendEarly
  BY <1>1, <1>3, <1>4 DEF SendEarly, SendType
<1>5. CASE Open
  BY <1>1, <1>5, ChunkOps DEF Open, SendType
<1>6. CASE SystemOpens
  BY <1>1, <1>6 DEF SystemOpens, SendType
<1>7. CASE SendBuffer
  BY <1>1, <1>3, <1>7 DEF SendBuffer, Accepts, SendType
<1>8. CASE Handler
  BY <1>1, <1>3, <1>8 DEF Handler, Accepts, SendType
<1>9. ASSUME NEW t \in Thread, Swap(t) PROVE SendType'
  BY <1>1, <1>9, ChunkOps DEF Swap, Cleared, SendType
<1>10. ASSUME NEW t \in Thread, WSASend(t) PROVE SendType'
  <2>1. wire' \in Chunks
    BY <1>1, <1>10, ChunkOps DEF WSASend, SendType
  <2>2. sending' \in Seq(Sendable)
    <3>1. context \in Sendable
      BY <1>1, <1>10 DEF WSASend, TypeInv, NotEmpty, SendType, Sendable, Chunks
    <3>2. Append(sending, context) \in Seq(Sendable)
      BY <1>1, <3>1, AppendProperties DEF SendType
    <3>3. QED
      BY <1>1, <1>10, <3>2 DEF WSASend, SendType
  <2>3. QED
    BY <1>1, <1>10, <2>1, <2>2 DEF WSASend, SendType
<1>11. CASE SystemSends
  <2>1. Head(sending) \in Chunks /\ Tail(sending) \in Seq(Sendable)
    BY <1>1, <1>11, HeadTailProperties DEF SystemSends, SendType, Sendable, Chunks
  <2>2. Resized(context, Len(Head(sending))) \in Chunks
    BY <1>1, <2>1, ResizedType, ChunkOps DEF SendType
  <2>3. wire' \in Chunks
    BY <1>1, <1>11, <2>1, <2>2, ChunkOps DEF SystemSends, SendType
  <2>4. QED
    BY <1>1, <1>11, <2>1, <2>3 DEF SystemSends, SendType
<1>12. CASE SystemBreaks
  <2>1. sending # << >> => Tail(sending) \in Seq(Sendable)
    BY <1>1, HeadTailProperties DEF SendType
  <2>2. QED
    BY <1>1, <1>12, <2>1 DEF SystemBreaks, SendType
<1>13. CASE SendCompleted
  <2>1. Resized(context, Len(Data)) \in Chunks
    BY <1>1, <1>13, HeadPacket, ResizedType DEF SendCompleted, Packet, SendType
  <2>2. QED
    BY <1>1, <1>13, <2>1 DEF SendCompleted, SendType
<1>14. CASE MarkOpening \/ SystemRefuses \/ PeerSendsChunk \/ PeerShuts \/ PeerResets
             \/ RecvCompleted \/ CallSend \/ CallRecv
  BY <1>2, <1>14 DEF MarkOpening, SystemRefuses, PeerSendsChunk, PeerShuts, PeerResets,
                     RecvCompleted, CallSend, CallRecv, sendVars
<1>15. ASSUME NEW t \in Thread, TestPending(t) \/ MarkSend(t) PROVE SendType'
  BY <1>2, <1>15 DEF TestPending, MarkSend
<1>16. ASSUME NEW kind, Opened(kind) \/ Broken(kind) PROVE SendType'
  BY <1>2, <1>16 DEF Opened, Broken
<1>17. QED
  BY <1>2, <1>4, <1>5, <1>6, <1>7, <1>8, <1>9, <1>10, <1>11, <1>12, <1>13, <1>14, <1>15,
     <1>16 DEF Next, vars, sendVars, Main, IoThread, System, Send, Thread

\* every step keeps the types of the receiving side
LEMMA RecvTypeStep == TypeInv /\ [Next]_vars => RecvType'
<1> SUFFICES ASSUME TypeInv, [Next]_vars PROVE RecvType'
  OBVIOUS
<1>1. SendType /\ PortType /\ RecvType
  BY DEF TypeInv
<1>2. CASE UNCHANGED <<arrived, recv_buffer, incoming, taken>>
  BY <1>1, <1>2 DEF RecvType
<1>3. CASE SystemOpens
  BY <1>1, <1>3, NextChunks DEF SystemOpens, RecvType
<1>4. ASSUME NEW kind, Opened(kind) PROVE RecvType'
  <2>1. Data \in Chunks
    BY <1>1, <1>4, HeadPacket DEF Opened, Packet
  <2>2. QED
    BY <1>1, <1>4, <2>1 DEF Opened, RecvType
<1>5. CASE RecvCompleted
  <2>1. Data \in Chunks
    BY <1>1, <1>5, HeadPacket DEF RecvCompleted, Packet
  <2>2. recv_buffer' \in Chunks
    BY <1>1, <1>5, <2>1, ChunkOps DEF RecvCompleted, Joined, RecvType
  <2>3. QED
    BY <1>1, <1>5, <2>2 DEF RecvCompleted, RecvType
<1>6. CASE Handler
  BY <1>1, <1>6, ChunkOps DEF Handler, RecvType
<1>7. CASE CallRecv
  BY <1>1, <1>7, ChunkOps DEF CallRecv, RecvType
<1>8. CASE PeerSendsChunk
  <2>1. /\ Append(incoming, Len(incoming) + 1) \in Chunks
        /\ Append(arrived, Len(incoming) + 1) \in Chunks
    BY <1>1, <1>8, NextChunks, ChunkOps DEF PeerSendsChunk, RecvType
  <2>2. QED
    BY <1>1, <1>8, <2>1 DEF PeerSendsChunk, RecvType
<1>9. CASE PeerResets
  BY <1>1, <1>9, ChunkOps DEF PeerResets, RecvType
<1>10. CASE SendEarly \/ Open \/ MarkOpening \/ SystemRefuses \/ SendBuffer \/ SystemSends
             \/ SystemBreaks \/ PeerShuts \/ SendCompleted \/ CallSend
  BY <1>2, <1>10 DEF SendEarly, Open, MarkOpening, SystemRefuses, SendBuffer, SystemSends,
                     SystemBreaks, PeerShuts, SendCompleted, CallSend, recvVars
<1>11. ASSUME NEW t \in Thread, Send(t) PROVE RecvType'
  BY <1>2, <1>11 DEF Send, TestPending, Swap, WSASend, MarkSend, recvVars
<1>12. ASSUME NEW kind, Broken(kind) PROVE RecvType'
  BY <1>2, <1>12 DEF Broken
<1>13. QED
  BY <1>2, <1>3, <1>4, <1>5, <1>6, <1>7, <1>8, <1>9, <1>10, <1>11, <1>12
     DEF Next, vars, recvVars, Main, IoThread, System, Thread


\* no packet reports an empty send
WrittenFull(queue) ==
  \A i \in 1 .. Len(queue) : queue[i][1] = "written" => queue[i][2] # << >>

\* posting a send that was not empty, and taking a packet
LEMMA WrittenKept ==
  ASSUME PortType, WrittenFull(packets)
  PROVE  /\ \A p \in PacketSet : (p[1] = "written" => p[2] # << >>)
                                   => WrittenFull(Append(packets, p))
         /\ packets # << >> => WrittenFull(Tail(packets))
<1>1. \A p \in PacketSet : (p[1] = "written" => p[2] # << >>) => WrittenFull(Append(packets, p))
  <2> SUFFICES ASSUME NEW p \in PacketSet, p[1] = "written" => p[2] # << >>,
                      NEW i \in 1 .. Len(Append(packets, p)),
                      Append(packets, p)[i][1] = "written"
               PROVE  Append(packets, p)[i][2] # << >>
    BY DEF WrittenFull
  <2>1. i \in 1 .. Len(packets) \/ i = Len(packets) + 1
    BY PacketValues
  <2>2. QED
    BY <2>1, PacketValues DEF WrittenFull
<1>2. ASSUME packets # << >> PROVE WrittenFull(Tail(packets))
  <2> SUFFICES ASSUME NEW i \in 1 .. Len(Tail(packets)), Tail(packets)[i][1] = "written"
               PROVE  Tail(packets)[i][2] # << >>
    BY DEF WrittenFull
  <2>1. /\ i \in 1 .. Len(packets) - 1 /\ i + 1 \in 1 .. Len(packets)
        /\ Tail(packets)[i] = packets[i + 1]
    BY <1>2, PacketValues
  <2>2. QED
    BY <2>1 DEF WrittenFull
<1>3. QED
  BY <1>1, <1>2

\* nothing empty is handed to WSASend or reported as sent
LEMMA NotEmptyStep == TypeInv /\ [Next]_vars => NotEmpty'
<1> SUFFICES ASSUME TypeInv, [Next]_vars PROVE NotEmpty'
  OBVIOUS
<1> DEFINE Starts == \A t \in Thread : pc[t] = "start" => context # << >>
<1>1. /\ SendType /\ PortType /\ RecvType /\ ScalarType
      /\ Starts /\ WrittenFull(packets)
      /\ ~connected => \A t \in Thread : pc[t] # "start"
      /\ link = "closed" => ~connected
  BY ThreadNames DEF TypeInv, NotEmpty, WrittenFull, Phase, Unopened
<1>2. Starts' /\ WrittenFull(packets)' => NotEmpty'
  BY DEF NotEmpty, WrittenFull
<1>3. Starts'
  <2>1. ASSUME pc' = pc, context' = context PROVE Starts'
    BY <1>1, <2>1
  <2> USE <1>1 DEF ScalarType, fixed, sendVars, Thread
  <2>2. CASE Open
    BY <2>2 DEF Open
  <2>3. CASE MarkOpening
    BY <2>3 DEF MarkOpening
  <2>4. CASE SendBuffer
    BY <2>4 DEF SendBuffer, Accepts, EntersSend
  <2>5. CASE Handler
    BY <2>5 DEF Handler, Accepts, EntersSend
  <2>6. CASE CallSend
    BY <2>6 DEF CallSend, EntersSend
  <2>7. ASSUME NEW t \in Thread, TestPending(t) \/ WSASend(t) \/ MarkSend(t) PROVE Starts'
    BY <2>7 DEF TestPending, WSASend, MarkSend
  <2>8. ASSUME NEW t \in Thread, Swap(t) PROVE Starts'
    BY <2>8 DEF Swap
  <2>9. CASE SendCompleted
    <3>1. packets # << >> /\ Head(packets)[1] = "written"
      BY <2>9 DEF SendCompleted, Packet
    <3>2. Data # << >>
      <4>1. 1 \in 1 .. Len(packets) /\ packets[1][1] = "written" /\ Data = packets[1][2]
        BY <3>1, HeadPacket DEF Data
      <4>2. QED
        BY <4>1 DEF WrittenFull
    <3>3. Len(Data) \in Nat /\ Len(Data) # 0
      BY <3>1, <3>2, HeadPacket, ChunkOps
    <3>4. Resized(context, Len(Data)) # << >>
      BY <3>3, ResizedType DEF SendType
    <3>5. QED
      BY <2>9, <3>4 DEF SendCompleted
  <2>10. ASSUME NEW kind, Opened(kind) \/ Broken(kind) PROVE Starts'
    BY <2>1, <2>10 DEF Opened, Broken
  <2>11. CASE SendEarly \/ System \/ PeerSendsChunk \/ PeerShuts \/ PeerResets \/ RecvCompleted
              \/ CallRecv
    BY <2>1, <2>11 DEF SendEarly, System, SystemOpens, SystemRefuses, SystemSends,
       SystemBreaks, PeerSendsChunk, PeerShuts, PeerResets, RecvCompleted, CallRecv
  <2>12. QED
    BY <2>1, <2>2, <2>3, <2>4, <2>5, <2>6, <2>7, <2>8, <2>9, <2>10, <2>11
       DEF Next, vars, Main, IoThread, Send
<1>4. WrittenFull(packets)'
  <2>1. PortType'
    BY PortStep
  <2>2. CASE packets' = packets
    BY <1>1, <2>2
  <2>3. CASE packets # << >> /\ packets' = Tail(packets)
    BY <1>1, <2>3, WrittenKept
  <2>4. ASSUME NEW p \in PacketSet, p[1] = "written" => p[2] # << >>,
               packets' = Append(packets, p)
        PROVE  WrittenFull(packets)'
    BY <1>1, <2>4, WrittenKept
  <2>5. ASSUME NEW kind \in Kinds, NEW data \in Chunks, kind # "written" \/ data # << >>,
               packets' = Append(packets, <<kind, data>>)
        PROVE  WrittenFull(packets)'
    <3> DEFINE p == <<kind, data>>
    <3>1. p \in PacketSet /\ (p[1] = "written" => p[2] # << >>)
      BY <2>5, PacketMembers
    <3>2. QED
      BY <2>4, <2>5, <3>1
  <2>6. << >> \in Chunks /\ Kinds = {"opened", "refused", "written", "broken write", "read",
                                     "broken read"}
    BY PacketMembers DEF Kinds
  <2> USE DEF fixed, sendVars, recvVars, races
  <2>7. CASE SystemOpens
    <3>1. PeerSends > 0 => <<1>> \in Chunks
      BY NextChunks
    <3>2. QED
      BY <2>5, <2>6, <2>7, <3>1 DEF SystemOpens
  <2>8. CASE SystemRefuses
    <3>1. <<0>> \in Chunks
      BY BoundsAssumption DEF Chunks, Chunk
    <3>2. QED
      BY <2>5, <2>6, <2>8, <3>1 DEF SystemRefuses
  <2>9. ASSUME NEW t \in Thread, WSASend(t) PROVE WrittenFull(packets)'
    <3>1. context \in Chunks /\ context # << >>
      BY <1>1, <2>9 DEF WSASend, SendType
    <3>2. QED
      BY <2>2, <2>5, <2>6, <2>9, <3>1 DEF WSASend
  <2>10. CASE SystemSends
    <3>1. Head(sending) \in Chunks /\ Head(sending) # << >>
      BY <1>1, <2>10, HeadTailProperties DEF SystemSends, SendType, Sendable, Chunks
    <3>2. QED
      BY <2>5, <2>6, <2>10, <3>1 DEF SystemSends
  <2>11. CASE SystemBreaks
    BY <2>5, <2>6, <2>11 DEF SystemBreaks
  <2>12. CASE PeerSendsChunk
    <3>1. Len(incoming) + 1 \in Chunk
      BY <1>1, <2>12, NextChunks DEF PeerSendsChunk, RecvType
    <3>2. <<Len(incoming) + 1>> \in Chunks
      BY <3>1 DEF Chunks
    <3>3. QED
      BY <2>2, <2>5, <2>6, <2>12, <3>2 DEF PeerSendsChunk
  <2>13. CASE PeerShuts
    BY <2>2, <2>5, <2>6, <2>13 DEF PeerShuts
  <2>14. CASE CallRecv
    BY <1>1, <2>2, <2>5, <2>6, <2>14 DEF CallRecv, RecvType
  <2>15. CASE SendCompleted \/ RecvCompleted
    BY <2>3, <2>15 DEF SendCompleted, RecvCompleted, Packet
  <2>16. ASSUME NEW kind, Opened(kind) \/ Broken(kind) PROVE WrittenFull(packets)'
    BY <2>3, <2>16 DEF Opened, Broken, Packet
  <2>17. CASE SendEarly \/ Open \/ SendBuffer \/ MarkOpening \/ PeerResets \/ Handler \/ CallSend
    BY <2>2, <2>17 DEF SendEarly, Open, SendBuffer, MarkOpening, PeerResets, Handler, CallSend
  <2>18. ASSUME NEW t \in Thread, TestPending(t) \/ Swap(t) \/ MarkSend(t)
         PROVE  WrittenFull(packets)'
    BY <2>2, <2>18 DEF TestPending, Swap, MarkSend
  <2>19. QED
    BY <2>2, <2>7, <2>8, <2>9, <2>10, <2>11, <2>12, <2>13, <2>14, <2>15, <2>16, <2>17, <2>18
       DEF Next, vars, Main, IoThread, System, Send, Thread
<1>5. QED
  BY <1>2, <1>3, <1>4

\* TypeInv is inductive
LEMMA TypeStep == TypeInv /\ [Next]_vars => TypeInv'
  BY ScalarStep, SendTypeStep, RecvTypeStep, PortStep, PhaseStep, NotEmptyStep DEF TypeInv

\* TypeInv holds at first
LEMMA TypeInit == Init => TypeInv
<1> SUFFICES ASSUME Init PROVE TypeInv
  OBVIOUS
<1>1. /\ << >> \in Chunks /\ << >> \in Seq(Sendable) /\ << >> \in Seq(PacketSet)
      /\ << >> \in Seq(Calls3) /\ Len(<< >>) = 0
  BY EmptySeq DEF Chunks
<1>2. ScalarType /\ SendType /\ RecvType /\ PortType
  BY <1>1 DEF Init, ScalarType, SendType, RecvType, PortType
<1>3. NotEmpty
  BY <1>1 DEF Init, NotEmpty
<1>4. Phase
  <2>1. ~HasKind({"opened", "refused"}, << >>) /\ ~HasKind({"refused", "broken write"}, << >>)
    BY <1>1 DEF HasKind
  <2>2. QED
    BY <2>1 DEF Init, Phase, Unopened, Thread
<1>5. QED
  BY <1>2, <1>3, <1>4 DEF TypeInv

\* The channel, its socket and the threads keep their types; in particular an
\* empty buffer is never handed to WSASend.
THEOREM TypeCorrect == Spec => []TypeOK
  BY TypeInit, TypeStep, TypeInvTypeOK, PTL DEF Spec

-----------------------------------------------------------------------------
(* What the peer sent arrives in order. *)

\* what a packet brings of the received chunks
Brings == [p \in PacketSet |-> IF p[1] \in {"opened", "read"} THEN p[2] ELSE << >>]
Coming(queue) == JoinMap(Brings, queue)

\* Brings gives a sequence of chunks for every packet
LEMMA BringsMaps ==
  /\ Maps(Brings, PacketSet, Chunks, Chunk)
  /\ \A kind \in Kinds, data \in Chunks :
       Brings[<<kind, data>>] = IF kind \in {"opened", "read"} THEN data ELSE << >>
<1>1. Brings \in [PacketSet -> Chunks]
  BY PacketMembers DEF Brings
<1>2. Maps(Brings, PacketSet, Chunks, Chunk)
  BY <1>1 DEF Maps, Chunks
<1>3. \A kind \in Kinds, data \in Chunks :
        Brings[<<kind, data>>] = IF kind \in {"opened", "read"} THEN data ELSE << >>
  BY PacketMembers DEF Brings
<1>4. QED
  BY <1>2, <1>3

\* Coming is InPackets
LEMMA InPacketsComing == PortType => InPackets = Coming(packets)
<1> SUFFICES ASSUME PortType PROVE InPackets = Coming(packets)
  OBVIOUS
<1>1. \A i \in DOMAIN packets : packets[i] \in PacketSet
  BY ElementOfSeq, LenProperties DEF PortType
<1>2. [i \in DOMAIN packets |-> IF packets[i][1] \in {"opened", "read"} THEN packets[i][2] ELSE << >>]
        = Mapped(Brings, packets)
  BY <1>1 DEF Mapped, Brings
<1>3. QED
  BY <1>2 DEF InPackets, Coming, JoinMap

\* what posting and taking a packet does to what is coming
LEMMA ComingOps ==
  ASSUME PortType
  PROVE  /\ Coming(packets) \in Chunks /\ Coming(<< >>) = << >>
         /\ \A p \in PacketSet : Coming(Append(packets, p)) = Cat(Coming(packets), Brings[p])
         /\ packets # << >> => /\ Coming(Tail(packets)) \in Chunks
                               /\ Coming(packets) = Cat(Brings[Head(packets)], Coming(Tail(packets)))
<1>1. Maps(Brings, PacketSet, Chunks, Chunk) /\ packets \in Seq(PacketSet)
  BY BringsMaps DEF PortType
<1>2. Coming(packets) \in Chunks /\ Coming(<< >>) = << >>
  BY <1>1, JoinMapType, JoinMapEmpty DEF Coming, Chunks
<1>3. \A p \in PacketSet : Coming(Append(packets, p)) = Cat(Coming(packets), Brings[p])
  BY <1>1, JoinMapAppend DEF Coming
<1>4. ASSUME packets # << >>
      PROVE  /\ Coming(Tail(packets)) \in Chunks
             /\ Coming(packets) = Cat(Brings[Head(packets)], Coming(Tail(packets)))
  <2>1. Tail(packets) \in Seq(PacketSet)
    BY <1>1, <1>4, HeadTailProperties
  <2>2. Coming(Tail(packets)) \in Chunks
    BY <1>1, <2>1, JoinMapType DEF Coming, Chunks
  <2>3. Coming(packets) = Cat(Brings[Head(packets)], Coming(Tail(packets)))
    BY <1>1, <1>4, JoinMapHead DEF Coming
  <2>4. QED
    BY <2>2, <2>3
<1>5. QED
  BY <1>2, <1>3, <1>4

\* four pieces in a row
Pieces(r, s, t, u) == r \in Chunks /\ s \in Chunks /\ t \in Chunks /\ u \in Chunks
Row(r, s, t, u) == Cat(r, Cat(s, Cat(t, u)))

\* the row is a sequence of chunks
LEMMA RowType ==
  ASSUME NEW r, NEW s, NEW t, NEW u, Pieces(r, s, t, u)
  PROVE  Row(r, s, t, u) \in Chunks
  BY ChunkOps DEF Pieces, Row

\* the laws of concatenation, for chunks
LEMMA ChunkLaws ==
  /\ \A s \in Chunks : Cat(s, << >>) = s /\ Cat(<< >>, s) = s
  /\ \A r, s, t \in Chunks : Cat(Cat(r, s), t) = Cat(r, Cat(s, t))
  /\ \A s \in Chunks, x \in Chunk : <<x>> \in Chunks /\ Cat(s, <<x>>) = Append(s, x)
  /\ \A r, s \in Chunks, x \in Chunk : Cat(r, Append(s, x)) = Append(Cat(r, s), x)
<1>1. \A s \in Chunks : Cat(s, << >>) = s /\ Cat(<< >>, s) = s
  BY CatEmpty DEF Chunks
<1>2. \A r, s, t \in Chunks : Cat(Cat(r, s), t) = Cat(r, Cat(s, t))
  BY CatAssociative DEF Chunks
<1>3. \A s \in Chunks, x \in Chunk : <<x>> \in Chunks /\ Cat(s, <<x>>) = Append(s, x)
  BY CatOne DEF Chunks
<1>4. \A r, s \in Chunks, x \in Chunk : Cat(r, Append(s, x)) = Append(Cat(r, s), x)
  BY CatAppend DEF Chunks
<1>5. QED
  BY <1>1, <1>2, <1>3, <1>4

\* what is read moves on: from a packet to the buffer, from the buffer to the
\* reader, from the system into a packet, and from the peer to the system
LEMMA RowMoves ==
  ASSUME NEW r, NEW s, NEW t, NEW u, Pieces(r, s, t, u)
  PROVE  /\ \A d \in Chunks : Row(r, Cat(s, d), t, u) = Row(r, s, Cat(d, t), u)
         /\ Row(Cat(r, s), << >>, t, u) = Row(r, s, t, u)
         /\ Row(r, s, Cat(t, u), << >>) = Row(r, s, t, u)
         /\ \A x \in Chunk : Row(r, s, t, Append(u, x)) = Append(Row(r, s, t, u), x)
<1>1. r \in Chunks /\ s \in Chunks /\ t \in Chunks /\ u \in Chunks
  BY DEF Pieces
<1>2. ASSUME NEW d \in Chunks PROVE Row(r, Cat(s, d), t, u) = Row(r, s, Cat(d, t), u)
  <2>1. Cat(t, u) \in Chunks
    BY <1>1, ChunkOps
  <2>2. Cat(Cat(s, d), Cat(t, u)) = Cat(s, Cat(d, Cat(t, u)))
    BY <1>1, <2>1, ChunkLaws
  <2>3. Cat(Cat(d, t), u) = Cat(d, Cat(t, u))
    BY <1>1, ChunkLaws
  <2>4. QED
    BY <2>2, <2>3 DEF Row
<1>3. Row(Cat(r, s), << >>, t, u) = Row(r, s, t, u)
  <2>1. Cat(t, u) \in Chunks /\ Cat(<< >>, Cat(t, u)) = Cat(t, u)
    BY <1>1, ChunkOps, ChunkLaws
  <2>2. Cat(Cat(r, s), Cat(t, u)) = Cat(r, Cat(s, Cat(t, u)))
    BY <1>1, <2>1, ChunkLaws
  <2>3. QED
    BY <2>1, <2>2 DEF Row
<1>4. Row(r, s, Cat(t, u), << >>) = Row(r, s, t, u)
  <2>1. Cat(Cat(t, u), << >>) = Cat(t, u)
    BY <1>1, ChunkOps, ChunkLaws
  <2>2. QED
    BY <2>1 DEF Row
<1>5. ASSUME NEW x \in Chunk PROVE Row(r, s, t, Append(u, x)) = Append(Row(r, s, t, u), x)
  <2> DEFINE tu == Cat(t, u)
             stu == Cat(s, tu)
  <2>1. tu \in Chunks /\ stu \in Chunks
    BY <1>1, ChunkOps
  <2>2. Cat(t, Append(u, x)) = Append(tu, x)
    BY <1>1, ChunkLaws
  <2> HIDE DEF tu
  <2>3. Cat(s, Append(tu, x)) = Append(stu, x)
    BY <1>1, <2>1, ChunkLaws
  <2> HIDE DEF stu
  <2>4. Cat(r, Append(stu, x)) = Append(Cat(r, stu), x)
    BY <1>1, <2>1, ChunkLaws
  <2>5. QED
    BY <2>2, <2>3, <2>4 DEF Row, tu, stu
<1>6. QED
  BY <1>2, <1>3, <1>4, <1>5

\* ReceivedInOrder, and a pending recv leaves nothing unread with the system
RecvOrder == ~Dead => /\ incoming = Row(taken, recv_buffer, Coming(packets), arrived)
                      /\ receiving => arrived = << >>

\* RecvOrder is ReceivedInOrder, bracketed to the right, and more
LEMMA RecvOrderReceived == TypeInv /\ RecvOrder => ReceivedInOrder
<1> SUFFICES ASSUME TypeInv, RecvOrder, ~Dead
             PROVE  incoming = taken \o recv_buffer \o InPackets \o arrived
  BY DEF ReceivedInOrder
<1> DEFINE came == Coming(packets)
<1>1. /\ taken \in Chunks /\ recv_buffer \in Chunks /\ arrived \in Chunks
      /\ came \in Chunks /\ InPackets = came
  BY InPacketsComing, ComingOps DEF TypeInv, RecvType
<1>2. incoming = Row(taken, recv_buffer, came, arrived)
  BY DEF RecvOrder
<1> HIDE DEF came
<1>3. Row(taken, recv_buffer, came, arrived) = Cat(Cat(Cat(taken, recv_buffer), came), arrived)
  <2>1. Cat(taken, recv_buffer) \in Chunks /\ Cat(came, arrived) \in Chunks
    BY <1>1, ChunkOps
  <2>2. Cat(taken, Cat(recv_buffer, Cat(came, arrived)))
          = Cat(Cat(taken, recv_buffer), Cat(came, arrived))
    BY <1>1, <2>1, ChunkLaws
  <2>3. Cat(Cat(taken, recv_buffer), Cat(came, arrived))
          = Cat(Cat(Cat(taken, recv_buffer), came), arrived)
    BY <1>1, <2>1, ChunkLaws
  <2>4. QED
    BY <2>2, <2>3 DEF Row
<1>4. Cat(Cat(Cat(taken, recv_buffer), came), arrived)
        = taken \o recv_buffer \o came \o arrived
  BY DEF Cat
<1>5. QED
  BY <1>1, <1>2, <1>3, <1>4

\* a broken connection stays broken, and an overlap stays noted
LEMMA StepsBack == [Next]_vars => (Dead => Dead') /\ (raced => raced')
<1> SUFFICES ASSUME [Next]_vars
             PROVE  (link' = link \/ link \notin {"failed", "reset"}) /\ (raced => raced')
  BY DEF Dead
<1> DEFINE Goal == (link' = link \/ link \notin {"failed", "reset"}) /\ (raced => raced')
<1> USE DEF fixed, sendVars, recvVars, races
<1>1. CASE UNCHANGED vars
  BY <1>1 DEF vars
<1>2. CASE System \/ PeerSendsChunk \/ PeerShuts \/ PeerResets
  <2>1. link' = link \/ link \notin {"failed", "reset"}
    BY <1>2 DEF System, SystemOpens, SystemRefuses, SystemSends, SystemBreaks, PeerSendsChunk,
                PeerShuts, PeerResets
  <2>2. raced' = raced
    BY <1>2 DEF System, SystemOpens, SystemRefuses, SystemSends, SystemBreaks, PeerSendsChunk,
                PeerShuts, PeerResets
  <2>3. QED
    BY <2>1, <2>2
<1>3. CASE SendEarly \/ Open \/ SendBuffer \/ MarkOpening \/ Handler \/ CallSend \/ CallRecv
  <2>1. link' = link \/ link \notin {"failed", "reset"}
    BY <1>3 DEF SendEarly, Open, SendBuffer, MarkOpening, Handler, CallSend, CallRecv
  <2>2. raced => raced'
    BY <1>3 DEF SendEarly, Open, SendBuffer, MarkOpening, Handler, CallSend, CallRecv, Accepts,
                EntersSend
  <2>3. QED
    BY <2>1, <2>2
<1>4. ASSUME NEW t, Send(t) PROVE Goal
  BY <1>4 DEF Send, TestPending, Swap, WSASend, MarkSend
<1>5. ASSUME NEW kind, Opened(kind) \/ Broken(kind) \/ SendCompleted \/ RecvCompleted
      PROVE  Goal
  <2>1. link' = link
    BY <1>5 DEF Opened, Broken, SendCompleted, RecvCompleted
  <2>2. CASE Opened(kind)
    BY <2>1, <2>2 DEF Opened
  <2>3. CASE Broken(kind)
    <3>1. HandledInSend \/ UNCHANGED races
      BY <2>3 DEF Broken
    <3>2. raced => raced'
      BY <3>1 DEF HandledInSend
    <3>3. QED
      BY <2>1, <3>2
  <2>4. CASE SendCompleted
    BY <2>1, <2>4 DEF SendCompleted, HandledInSend
  <2>5. CASE RecvCompleted
    BY <2>1, <2>5 DEF RecvCompleted
  <2>6. QED
    BY <1>5, <2>2, <2>3, <2>4, <2>5
<1>6. QED
  BY <1>1, <1>2, <1>3, <1>4, <1>5 DEF Next, Main, IoThread

\* every step keeps the order of what is received
LEMMA RecvOrderStep == TypeInv /\ RecvOrder /\ [Next]_vars => RecvOrder'
<1> SUFFICES ASSUME TypeInv, RecvOrder, [Next]_vars, ~Dead'
             PROVE  /\ incoming' = Row(taken', recv_buffer', Coming(packets'), arrived')
                    /\ receiving' => arrived' = << >>
  BY DEF RecvOrder
<1> DEFINE came == Coming(packets)
           Goal == /\ incoming' = Row(taken', recv_buffer', Coming(packets'), arrived')
                   /\ receiving' => arrived' = << >>
<1>1. ScalarType /\ SendType /\ RecvType /\ PortType /\ Phase
  BY DEF TypeInv
<1>2. ~Dead
  BY StepsBack
<1>3. incoming = Row(taken, recv_buffer, came, arrived) /\ (receiving => arrived = << >>)
  BY <1>2 DEF RecvOrder
<1>4. Pieces(taken, recv_buffer, came, arrived) /\ came \in Chunks
  BY <1>1, ComingOps DEF RecvType, Pieces
<1>5. /\ \A d \in Chunks : Row(taken, Cat(recv_buffer, d), came, arrived)
                             = Row(taken, recv_buffer, Cat(d, came), arrived)
      /\ Row(Cat(taken, recv_buffer), << >>, came, arrived) = incoming
      /\ Row(taken, recv_buffer, Cat(came, arrived), << >>) = incoming
      /\ \A x \in Chunk : Row(taken, recv_buffer, came, Append(arrived, x)) = Append(incoming, x)
  BY <1>3, <1>4, RowMoves
<1>6. \A kind \in Kinds, data \in Chunks : packets' = Append(packets, <<kind, data>>) =>
        Coming(packets') = IF kind \in {"opened", "read"} THEN Cat(came, data) ELSE came
  <2> SUFFICES ASSUME NEW kind \in Kinds, NEW data \in Chunks,
                      packets' = Append(packets, <<kind, data>>)
               PROVE  Coming(packets') = IF kind \in {"opened", "read"} THEN Cat(came, data) ELSE came
    OBVIOUS
  <2>1. <<kind, data>> \in PacketSet
    BY PacketMembers
  <2>2. Coming(packets') = Cat(came, Brings[<<kind, data>>])
    BY <1>1, <2>1, ComingOps
  <2>3. Brings[<<kind, data>>] = IF kind \in {"opened", "read"} THEN data ELSE << >>
    BY BringsMaps
  <2>4. QED
    BY <1>4, <2>2, <2>3, ChunkLaws
<1>7. packets # << >> /\ packets' = Tail(packets) =>
        /\ Coming(packets') \in Chunks
        /\ came = IF Head(packets)[1] \in {"opened", "read"} THEN Cat(Data, Coming(packets'))
                  ELSE Coming(packets')
  <2> SUFFICES ASSUME packets # << >>, packets' = Tail(packets)
               PROVE  /\ Coming(packets') \in Chunks
                      /\ came = IF Head(packets)[1] \in {"opened", "read"}
                                THEN Cat(Data, Coming(packets')) ELSE Coming(packets')
    OBVIOUS
  <2>1. Coming(packets') \in Chunks /\ came = Cat(Brings[Head(packets)], Coming(packets'))
    BY <1>1, ComingOps
  <2>2. Brings[Head(packets)] = IF Head(packets)[1] \in {"opened", "read"} THEN Data ELSE << >>
    BY <1>1, HeadPacket DEF Brings, Data
  <2>3. QED
    BY <2>1, <2>2, ChunkLaws
<1> HIDE DEF came
<1> DEFINE Still == UNCHANGED <<incoming, taken, recv_buffer, arrived, receiving>>
<1>8. ASSUME Still, packets' = packets PROVE Goal
  BY <1>3, <1>8 DEF came
<1>9. ASSUME Still, NEW kind \in Kinds \ {"opened", "read"}, NEW data \in Chunks,
             packets' = Append(packets, <<kind, data>>)
      PROVE  Goal
  BY <1>3, <1>6, <1>9
<1>10. ASSUME Still, packets # << >>, Head(packets)[1] \notin {"opened", "read"},
              packets' = Tail(packets)
       PROVE  Goal
  BY <1>3, <1>7, <1>10
<1>11. Kinds = {"opened", "refused", "written", "broken write", "read", "broken read"}
  BY DEF Kinds
<1> USE DEF fixed, sendVars, recvVars, races
<1>12. CASE SystemOpens
  <2>1. /\ packets = << >> /\ taken = << >> /\ recv_buffer = << >> /\ arrived = << >>
        /\ incoming = << >>
    BY <1>1, <1>12 DEF SystemOpens, Phase, Unopened
  <2>2. came = << >>
    BY <1>1, <2>1, ComingOps DEF came
  <2>3. PICK data \in Chunks : /\ packets' = Append(packets, <<"opened", data>>) /\ incoming' = data
                               /\ UNCHANGED <<taken, recv_buffer, arrived>>
    <3>1. (PeerSends > 0 => <<1>> \in Chunks) /\ << >> \in Chunks
      BY NextChunks, PacketMembers
    <3>2. QED
      BY <1>12, <2>1, <3>1 DEF SystemOpens
  <2>4. Coming(packets') = data
    BY <1>6, <1>11, <2>2, <2>3, ChunkLaws
  <2>5. Row(<< >>, << >>, data, << >>) = data
    BY ChunkLaws DEF Row
  <2>6. QED
    BY <2>1, <2>3, <2>4, <2>5
<1>13. CASE SystemRefuses
  BY <1>13 DEF SystemRefuses, Dead
<1>14. ASSUME NEW t \in Thread, Send(t) PROVE Goal
  <2>1. context \in Chunks /\ "written" \in Kinds \ {"opened", "read"}
    BY <1>1, <1>11 DEF SendType
  <2>2. CASE TestPending(t) \/ Swap(t) \/ MarkSend(t)
    BY <1>8, <2>2 DEF TestPending, Swap, MarkSend
  <2>3. CASE WSASend(t)
    BY <1>8, <1>9, <2>1, <2>3 DEF WSASend
  <2>4. QED
    BY <1>14, <2>2, <2>3 DEF Send
<1>15. CASE SystemSends
  <2>1. Head(sending) \in Chunks /\ "written" \in Kinds \ {"opened", "read"}
    BY <1>1, <1>11, <1>15, HeadTailProperties DEF SystemSends, SendType, Sendable, Chunks
  <2>2. PICK data \in Chunks : packets' = Append(packets, <<"written", data>>)
    BY <1>15, <2>1 DEF SystemSends
  <2>3. QED
    BY <1>9, <1>15, <2>1, <2>2 DEF SystemSends
<1>16. CASE SystemBreaks
  BY <1>2, <1>16 DEF SystemBreaks, Dead
<1>17. CASE PeerSendsChunk
  <2>1. Len(incoming) + 1 \in Chunk
    BY <1>1, <1>17, NextChunks DEF PeerSendsChunk, RecvType
  <2> DEFINE x == Len(incoming) + 1
             one == <<x>>
  <2>2. x \in Chunk /\ one \in Chunks /\ Cat(came, one) = Append(came, x)
    BY <1>4, <2>1, ChunkLaws
  <2>3. /\ incoming' = Append(incoming, x) /\ UNCHANGED <<taken, recv_buffer>>
        /\ \/ receiving /\ ~receiving' /\ packets' = Append(packets, <<"read", one>>) /\ arrived' = arrived
           \/ ~receiving /\ ~receiving' /\ arrived' = Append(arrived, x) /\ packets' = packets
    BY <1>17 DEF PeerSendsChunk
  <2> HIDE DEF x, one
  <2>4. CASE arrived' = Append(arrived, x) /\ packets' = packets /\ ~receiving'
    BY <1>5, <2>2, <2>3, <2>4 DEF came
  <2>5. CASE receiving /\ ~receiving' /\ packets' = Append(packets, <<"read", one>>) /\ arrived' = arrived
    <3>1. Coming(packets') = Cat(came, one) /\ arrived = << >>
      BY <1>3, <1>6, <1>11, <2>2, <2>5
    <3>2. Append(arrived, x) = one
      BY <3>1 DEF one
    <3>3. Row(taken, recv_buffer, came, one) = Append(incoming, x)
      BY <1>5, <2>2, <3>2
    <3>4. Row(taken, recv_buffer, Cat(came, one), << >>) = Row(taken, recv_buffer, came, one)
      <4>1. Pieces(taken, recv_buffer, came, one)
        BY <1>4, <2>2 DEF Pieces
      <4>2. QED
        BY <4>1, RowMoves
    <3>5. QED
      BY <2>3, <2>5, <3>1, <3>3, <3>4
  <2>6. QED
    BY <2>3, <2>4, <2>5
<1>18. CASE PeerShuts
  <2>1. CASE ~receiving
    BY <1>1, <1>8, <1>18, <2>1 DEF PeerShuts, ScalarType
  <2>2. CASE receiving
    <3>1. packets' = Append(packets, <<"read", << >> >>) /\ << >> \in Chunks /\ ~receiving'
          /\ UNCHANGED <<incoming, taken, recv_buffer, arrived>>
      BY <1>18, <2>2, PacketMembers DEF PeerShuts
    <3>2. Coming(packets') = Cat(came, << >>)
      BY <1>6, <1>11, <3>1
    <3>3. Coming(packets') = came
      BY <1>4, <3>2, ChunkLaws
    <3>4. QED
      BY <1>3, <3>1, <3>3
  <2>3. QED
    BY <1>1, <2>1, <2>2 DEF ScalarType
<1>19. CASE PeerResets
  BY <1>19 DEF PeerResets, Dead
<1>20. ASSUME NEW kind \in {"opened", "refused"}, Opened(kind) PROVE Goal
  <2>1. ~connected /\ packets # << >> /\ Head(packets)[1] = kind /\ packets' = Tail(packets)
    <3>1. /\ HasKind({"opened", "refused"}, packets) <=>
               \/ Head(packets)[1] \in {"opened", "refused"}
               \/ HasKind({"opened", "refused"}, Tail(packets))
      BY <1>1, <1>20, KindOps DEF Opened, Packet
    <3>2. connected => ~HasKind({"opened", "refused"}, packets)
      BY <1>1 DEF Phase
    <3>3. QED
      BY <1>20, <3>1, <3>2 DEF Opened, Packet
  <2>2. kind = "opened"
    <3>1. HasKind({"refused", "broken write"}, packets) <=>
               \/ Head(packets)[1] \in {"refused", "broken write"}
               \/ HasKind({"refused", "broken write"}, Tail(packets))
      BY <1>1, <2>1, KindOps
    <3>2. ~HasKind({"refused", "broken write"}, packets)
      BY <1>1, <1>2 DEF Phase
    <3>3. QED
      BY <2>1, <3>1, <3>2
  <2>3. recv_buffer = << >> /\ taken = << >>
    BY <1>1, <2>1 DEF Phase
  <2>4. /\ recv_buffer' = Data /\ UNCHANGED <<incoming, taken, arrived, receiving>>
        /\ Data \in Chunks
    BY <1>1, <1>20, <2>1, HeadPacket DEF Opened
  <2>5. came = Cat(Data, Coming(packets')) /\ Coming(packets') \in Chunks
    BY <1>7, <2>1, <2>2
  <2>6. Pieces(taken, << >>, Coming(packets'), arrived)
    BY <1>4, <2>5, PacketMembers DEF Pieces
  <2>7. Row(taken, Cat(<< >>, Data), Coming(packets'), arrived)
          = Row(taken, << >>, Cat(Data, Coming(packets')), arrived)
    BY <2>4, <2>6, RowMoves
  <2>8. Cat(<< >>, Data) = Data
    BY <2>4, ChunkLaws
  <2>9. QED
    BY <1>3, <2>3, <2>4, <2>5, <2>7, <2>8
<1>21. CASE SendCompleted
  BY <1>10, <1>21 DEF SendCompleted, Packet
<1>22. CASE RecvCompleted
  <2>1. packets # << >> /\ Head(packets)[1] = "read" /\ packets' = Tail(packets)
    BY <1>22 DEF RecvCompleted, Packet
  <2>2. /\ recv_buffer' = Cat(recv_buffer, Data)
        /\ UNCHANGED <<incoming, taken, arrived, receiving>>
        /\ Data \in Chunks
    BY <1>1, <1>22, <2>1, HeadPacket DEF RecvCompleted, Joined, Cat
  <2>3. came = Cat(Data, Coming(packets')) /\ Coming(packets') \in Chunks
    BY <1>7, <2>1
  <2>4. Pieces(taken, recv_buffer, Coming(packets'), arrived)
    BY <1>4, <2>3 DEF Pieces
  <2>5. Row(taken, Cat(recv_buffer, Data), Coming(packets'), arrived)
          = Row(taken, recv_buffer, Cat(Data, Coming(packets')), arrived)
    BY <2>2, <2>4, RowMoves
  <2>6. QED
    BY <1>3, <2>2, <2>3, <2>5
<1>23. ASSUME NEW kind \in {"broken write", "broken read"}, Broken(kind) PROVE Goal
  BY <1>10, <1>23 DEF Broken, Packet
<1>24. CASE Handler
  <2>1. CASE UNCHANGED <<taken, recv_buffer>>
    BY <1>8, <1>24, <2>1 DEF Handler
  <2>2. CASE taken' = taken \o recv_buffer /\ recv_buffer' = << >>
    <3>1. taken' = Cat(taken, recv_buffer) /\ UNCHANGED <<incoming, packets, arrived, receiving>>
      BY <1>24, <2>2 DEF Handler, Cat
    <3>2. QED
      BY <1>3, <1>5, <2>2, <3>1 DEF came
  <2>3. QED
    BY <1>24, <2>1, <2>2 DEF Handler
<1>25. CASE CallRecv
  <2>1. arrived \in Chunks
    BY <1>1 DEF RecvType
  <2>2. CASE UNCHANGED <<packets, arrived>> /\ (receiving' = receiving \/ arrived = << >>)
    BY <1>3, <1>25, <2>2 DEF CallRecv, came
  <2>3. CASE packets' = Append(packets, <<"read", arrived>>) /\ arrived' = << >>
    <3>1. Coming(packets') = Cat(came, arrived)
      BY <1>6, <1>11, <2>1, <2>3
    <3>2. UNCHANGED <<incoming, taken, recv_buffer>>
      BY <1>25 DEF CallRecv
    <3>3. QED
      BY <1>5, <2>3, <3>1, <3>2
  <2>4. QED
    BY <1>25, <2>2, <2>3 DEF CallRecv
<1>26. CASE UNCHANGED vars
  BY <1>8, <1>26 DEF vars
<1>27. CASE SendEarly \/ Open \/ SendBuffer \/ MarkOpening \/ CallSend
  BY <1>8, <1>27 DEF SendEarly, Open, SendBuffer, MarkOpening, CallSend
<1>28. QED
  BY <1>12, <1>13, <1>14, <1>15, <1>16, <1>17, <1>18, <1>19, <1>20, <1>21, <1>22, <1>23,
     <1>24, <1>25, <1>26, <1>27 DEF Next, Main, IoThread, System, Thread

\* nothing is received at first
LEMMA RecvOrderInit == Init => RecvOrder
<1>1. Init => PortType
  BY TypeInit DEF TypeInv
<1>2. ASSUME Init PROVE Coming(packets) = << >>
  BY <1>1, <1>2, ComingOps DEF Init
<1>3. Row(<< >>, << >>, << >>, << >>) = << >>
  BY PacketMembers, ChunkLaws DEF Row
<1>4. QED
  BY <1>2, <1>3 DEF Init, RecvOrder

\* Until the connection breaks, what recv_buffer() returned, what it would
\* return, what completed recvs hold and what the system has not handed over are
\* together what the peer sent, in order and once.
THEOREM ReceivesInOrder == Spec => []ReceivedInOrder
<1>1. Init => TypeInv /\ RecvOrder
  BY TypeInit, RecvOrderInit
<1>2. TypeInv /\ RecvOrder /\ [Next]_vars => (TypeInv /\ RecvOrder)'
  BY TypeStep, RecvOrderStep
<1>3. TypeInv /\ RecvOrder => ReceivedInOrder
  BY RecvOrderReceived
<1>4. QED
  BY <1>1, <1>2, <1>3, PTL DEF Spec

-----------------------------------------------------------------------------
(* A connected channel goes on receiving. *)

Reads == {"read", "broken read"}

\* a recv is under way, or its result waits in the port
Reading == receiving \/ HasKind(Reads, packets)

\* the inductive invariant of the receiving side
RecvOn == /\ pc["main"] = "opening" /\ connected /\ role = "connect" => raced
          /\ pc["main"] = "opening" /\ connected /\ role = "accept" => overtaken
          /\ ~connected /\ role = "connect" => ~r_pending
          /\ connected /\ ~overtaken =>
               /\ r_pending => Reading
               /\ r_type # "broken" => Reading \/ "recv" \in Range(todo)

\* RecvOn implies RecvGoesOn
LEMMA RecvOnGoesOn == TypeInv /\ RecvOn => RecvGoesOn
<1>1. PortType => DOMAIN packets = 1 .. Len(packets)
  BY LenProperties DEF PortType
<1>2. QED
  BY <1>1 DEF TypeInv, RecvOn, RecvGoesOn, Reading, HasKind, Reads

\* what is left to call
LEMMA TodoOps ==
  ASSUME PortType
  PROVE  /\ "recv" \in Range(<<"handler", "send", "recv">>)
         /\ "recv" \in Range(<<"handler", "recv">>)
         /\ "recv" \notin Range(<< >>)
         /\ "recv" \in Range(todo) => "recv" \in Range(<<"handler">> \o todo)
         /\ todo # << >> /\ "recv" \in Range(todo) => Head(todo) = "recv" \/ "recv" \in Range(Tail(todo))
<1>1. \A s, i : i \in DOMAIN s => s[i] \in Range(s)
  BY DEF Range
<1>2. "recv" \in Range(<<"handler", "send", "recv">>)
  <2> DEFINE s == <<"handler", "send", "recv">>
  <2>1. 3 \in DOMAIN s /\ s[3] = "recv"
    OBVIOUS
  <2>2. QED
    BY <1>1, <2>1
<1>3. "recv" \in Range(<<"handler", "recv">>)
  <2> DEFINE s == <<"handler", "recv">>
  <2>1. 2 \in DOMAIN s /\ s[2] = "recv"
    OBVIOUS
  <2>2. QED
    BY <1>1, <2>1
<1>4. "recv" \notin Range(<< >>)
  BY EmptySeq DEF Range
<1>5. todo \in Seq(Calls3) /\ Len(todo) \in Nat
  BY LenProperties DEF PortType
<1>6. ASSUME NEW i \in DOMAIN todo, todo[i] = "recv" PROVE "recv" \in Range(<<"handler">> \o todo)
  <2> DEFINE s == <<"handler">> \o todo
  <2>1. i \in 1 .. Len(todo) /\ Len(s) = 1 + Len(todo) /\ DOMAIN s = 1 .. Len(s)
    BY <1>5
  <2>2. i + 1 \in DOMAIN s /\ s[i + 1] = todo[i]
    BY <1>5, <2>1
  <2>3. QED
    BY <1>1, <1>6, <2>2
<1>7. ASSUME todo # << >>, NEW i \in DOMAIN todo, todo[i] = "recv", Head(todo) # "recv"
      PROVE  "recv" \in Range(Tail(todo))
  <2>1. Tail(todo) \in Seq(Calls3) /\ Len(Tail(todo)) = Len(todo) - 1 /\ Head(todo) = todo[1]
    BY <1>5, <1>7, HeadTailProperties
  <2>2. i \in 2 .. Len(todo)
    BY <1>5, <1>7, <2>1
  <2>3. i - 1 \in 1 .. Len(Tail(todo)) /\ (i - 1) + 1 = i
    BY <1>5, <2>1, <2>2
  <2>4. i - 1 \in DOMAIN Tail(todo)
    BY <2>1, <2>3
  <2>5. Tail(todo)[i - 1] = todo[i]
    BY <1>5, <1>7, <2>3, HeadTailProperties
  <2>6. QED
    BY <1>1, <1>7, <2>4, <2>5
<1>8. "recv" \in Range(todo) => \E i \in DOMAIN todo : todo[i] = "recv"
  BY DEF Range
<1>9. QED
  BY <1>2, <1>3, <1>4, <1>6, <1>7, <1>8

\* every step keeps a recv under way
LEMMA RecvOnStep == TypeInv /\ RecvOn /\ [Next]_vars => RecvOn'
<1> SUFFICES ASSUME TypeInv, RecvOn, [Next]_vars PROVE RecvOn'
  OBVIOUS
<1>1. ScalarType /\ SendType /\ RecvType /\ PortType /\ Phase
  BY DEF TypeInv
<1> DEFINE Main1 == /\ pc'["main"] = "opening" /\ connected' /\ role' = "connect" => raced'
                    /\ pc'["main"] = "opening" /\ connected' /\ role' = "accept" => overtaken'
           Early1 == ~connected' /\ role' = "connect" => ~r_pending'
           Left == "recv" \in Range(todo)
           Left1 == "recv" \in Range(todo')
           Port == HasKind(Reads, packets)
           Port1 == HasKind(Reads, packets')
           Under == /\ r_pending' => receiving' \/ Port1
                    /\ r_type' # "broken" => receiving' \/ Port1 \/ Left1
<1>2. Main1 /\ Early1 /\ (connected' /\ ~overtaken' => Under) => RecvOn'
  BY DEF RecvOn, Reading
<1>3. Main1 /\ Early1
  <2>1. /\ pc["main"] = "opening" /\ connected /\ role = "connect" => raced
        /\ pc["main"] = "opening" /\ connected /\ role = "accept" => overtaken
        /\ ~connected /\ role = "connect" => ~r_pending
        /\ link = "closed" => ~connected
        /\ ~connected => /\ todo = << >> /\ pc["io"] = "idle"
                         /\ packets # << >> => Head(packets)[1] \in {"opened", "refused"}
        /\ pc \in [Thread -> {"idle", "opening", "send", "swap", "start", "mark"}]
        /\ r_pending \in BOOLEAN /\ connected \in BOOLEAN /\ raced \in BOOLEAN
        /\ overtaken \in BOOLEAN
    BY <1>1 DEF RecvOn, Phase, Unopened, ScalarType
  <2> USE <2>1 DEF fixed, sendVars, recvVars, races, Thread
  <2>2. ASSUME pc' = pc, connected' = connected, role' = role, raced => raced',
                overtaken => overtaken', r_pending' => r_pending
         PROVE  Main1 /\ Early1
    <3>1. Main1
      BY <2>2
    <3>2. Early1
      BY <2>2
    <3>3. QED
      BY <3>1, <3>2
  <2>3. CASE UNCHANGED vars
    BY <2>3 DEF vars
  <2>4. CASE SendEarly \/ Open \/ SendBuffer
    BY <2>4 DEF SendEarly, Open, SendBuffer, Accepts, EntersSend
  <2>5. CASE MarkOpening
    BY <2>5 DEF MarkOpening
  <2>6. ASSUME NEW t \in Thread, Send(t) PROVE Main1 /\ Early1
    <3>1. CASE TestPending(t)
      BY <3>1 DEF TestPending
    <3>2. CASE Swap(t)
      BY <3>2 DEF Swap
    <3>3. CASE WSASend(t)
      BY <3>3 DEF WSASend
    <3>4. CASE MarkSend(t)
      BY <3>4 DEF MarkSend
    <3>5. QED
      BY <2>6, <3>1, <3>2, <3>3, <3>4 DEF Send
  <2>7. ASSUME NEW kind, Opened(kind) PROVE Main1 /\ Early1
    BY <2>7 DEF Opened
  <2>8. CASE SendCompleted \/ RecvCompleted
    <3>1. (raced => raced') /\ UNCHANGED <<pc, connected, role, overtaken>>
      BY <2>8 DEF SendCompleted, RecvCompleted, HandledInSend
    <3>2. r_pending' => r_pending
      BY <2>8 DEF SendCompleted, RecvCompleted
    <3>3. QED
      BY <2>2, <3>1, <3>2
  <2>9. ASSUME NEW kind \in {"broken write", "broken read"}, Broken(kind) PROVE Main1 /\ Early1
    <3>1. (raced => raced') /\ UNCHANGED <<pc, connected, role, overtaken>>
      <4>1. UNCHANGED <<pc, connected, role>>
        BY <2>9 DEF Broken
      <4>2. HandledInSend \/ UNCHANGED races
        BY <2>9 DEF Broken
      <4>3. (raced => raced') /\ overtaken' = overtaken
        BY <4>2 DEF HandledInSend
      <4>4. QED
        BY <4>1, <4>3
    <3>2. r_pending' => r_pending
      BY <2>9 DEF Broken
    <3>3. QED
      BY <2>2, <3>1, <3>2
  <2>10. CASE Handler \/ CallSend
    BY <2>10 DEF Handler, CallSend, Calls, Accepts, EntersSend
  <2>11. CASE CallRecv
    <3>1. UNCHANGED <<pc, connected, role, raced, overtaken>>
      BY <2>11 DEF CallRecv
    <3>2. ~connected => r_pending' = r_pending
      BY <2>11 DEF CallRecv
    <3>3. QED
      BY <3>1, <3>2
  <2>12. CASE System
    <3>1. UNCHANGED <<pc, connected, role, raced, overtaken, r_pending>>
      BY <2>12 DEF System, SystemOpens, SystemRefuses, SystemSends, SystemBreaks
    <3>2. QED
      BY <3>1
  <2>13. CASE PeerSendsChunk \/ PeerShuts \/ PeerResets
    BY <2>13 DEF PeerSendsChunk, PeerShuts, PeerResets
  <2>14. QED
    BY <2>3, <2>4, <2>5, <2>6, <2>7, <2>8, <2>9, <2>10, <2>11, <2>12, <2>13
       DEF Next, Main, IoThread
<1>4. ASSUME connected', ~overtaken' PROVE Under
  <2>1. /\ connected /\ ~overtaken => /\ r_pending => receiving \/ Port
                                      /\ r_type # "broken" => receiving \/ Port \/ Left
        /\ ~connected /\ role = "connect" => ~r_pending
        /\ r_pending \in BOOLEAN /\ receiving \in BOOLEAN /\ connected \in BOOLEAN
    BY <1>1 DEF RecvOn, Reading, ScalarType
  <2>2. packets # << >> => (Port <=> Head(packets)[1] \in Reads \/ HasKind(Reads, Tail(packets)))
    BY <1>1, KindOps
  <2>3. \A kind \in Kinds, data \in Chunks :
          packets' = Append(packets, <<kind, data>>) => (Port1 <=> Port \/ kind \in Reads)
    <3> SUFFICES ASSUME NEW kind \in Kinds, NEW data \in Chunks,
                        packets' = Append(packets, <<kind, data>>)
                 PROVE  Port1 <=> Port \/ kind \in Reads
      OBVIOUS
    <3> DEFINE p == <<kind, data>>
    <3>1. p \in PacketSet /\ p[1] = kind
      BY PacketMembers
    <3> HIDE DEF p
    <3>2. HasKind(Reads, Append(packets, p)) <=> HasKind(Reads, packets) \/ p[1] \in Reads
      BY <1>1, <3>1, KindOps
    <3>3. QED
      BY <3>1, <3>2 DEF p
  <2>4. Kinds = {"opened", "refused", "written", "broken write", "read", "broken read"}
    BY DEF Kinds
  <2>5. /\ "recv" \in Range(<<"handler", "send", "recv">>)
        /\ "recv" \in Range(<<"handler", "recv">>)
        /\ todo = << >> => ~Left
        /\ Left => "recv" \in Range(<<"handler">> \o todo)
        /\ todo # << >> /\ Left => Head(todo) = "recv" \/ "recv" \in Range(Tail(todo))
    BY <1>1, TodoOps
  <2>6. /\ << >> \in Chunks /\ context \in Chunks /\ arrived \in Chunks
        /\ sending # << >> => Head(sending) \in Chunks
        /\ Len(incoming) < PeerSends => <<Len(incoming) + 1>> \in Chunks
    <3>1. Len(incoming) < PeerSends => Len(incoming) + 1 \in Chunk
      BY <1>1, NextChunks DEF RecvType
    <3>2. Len(incoming) < PeerSends => <<Len(incoming) + 1>> \in Chunks
      BY <3>1 DEF Chunks
    <3>3. sending # << >> => Head(sending) \in Chunks
      BY <1>1, HeadTailProperties DEF SendType, Sendable, Chunks
    <3>4. QED
      BY <1>1, <3>2, <3>3, PacketMembers DEF SendType, RecvType
  <2>7. Reads = {"read", "broken read"}
    BY DEF Reads
  <2> HIDE DEF Port
  <2> DEFINE Kept == /\ connected' = connected /\ (~overtaken' => ~overtaken)
                     /\ UNCHANGED <<r_pending, r_type>>
  <2>8. ASSUME Kept, UNCHANGED <<receiving, packets>>, Left => Left1 PROVE Under
    BY <1>4, <2>1, <2>8 DEF Port
  <2>9. ASSUME Kept, UNCHANGED <<receiving, todo>>, NEW kind \in Kinds, NEW data \in Chunks,
               packets' = Append(packets, <<kind, data>>)
        PROVE  Under
    <3>1. Port => Port1
      BY <2>3, <2>9
    <3> HIDE DEF Port1
    <3>2. QED
      BY <1>4, <2>1, <2>9, <3>1
  <2> USE DEF fixed, sendVars, recvVars, races
  <2>10. CASE UNCHANGED vars
    BY <2>8, <2>10 DEF vars
  <2>11. CASE SendEarly \/ SendBuffer \/ PeerResets
    BY <2>8, <2>11 DEF SendEarly, SendBuffer, Accepts, EntersSend, PeerResets
  <2>12. CASE Open
    BY <1>1, <1>4, <2>12 DEF Open, Phase, Unopened
  <2>13. CASE MarkOpening
    <3>1. ~(role = "accept")
      BY <1>1, <1>4, <2>13 DEF MarkOpening, RecvOn
    <3>2. Kept /\ UNCHANGED <<receiving, packets, todo>>
      BY <2>13, <3>1 DEF MarkOpening
    <3>3. QED
      BY <2>8, <3>2
  <2>14. ASSUME NEW t \in Thread, TestPending(t) \/ Swap(t) \/ MarkSend(t) PROVE Under
    BY <2>8, <2>14 DEF TestPending, Swap, MarkSend
  <2>15. ASSUME NEW t \in Thread, WSASend(t) PROVE Under
    <3>1. CASE packets' = packets
      <4>1. Left => Left1
        BY <2>5, <2>15 DEF WSASend
      <4>2. QED
        BY <2>8, <2>15, <3>1, <4>1 DEF WSASend
    <3>2. CASE packets' = Append(packets, <<"written", context>>) /\ todo' = todo
      BY <2>4, <2>6, <2>9, <2>15, <3>2 DEF WSASend
    <3>3. QED
      BY <2>15, <3>1, <3>2 DEF WSASend
  <2>16. ASSUME NEW kind \in {"opened", "refused"}, Opened(kind) PROVE Under
    <3>1. todo' = <<"handler", "send", "recv">> /\ r_pending' = (r_pending /\ role = "connect")
      BY <2>16 DEF Opened
    <3>2. ~connected
      <4>1. HasKind({"opened", "refused"}, packets)
        BY <1>1, <2>16, KindOps DEF Opened, Packet
      <4>2. QED
        BY <1>1, <4>1 DEF Phase
    <3>3. QED
      BY <2>1, <2>5, <3>1, <3>2
  <2>17. CASE SendCompleted
    BY <1>4, <2>1, <2>2, <2>5, <2>7, <2>17 DEF SendCompleted, Packet, HandledInSend
  <2>18. CASE RecvCompleted
    <3>1. todo' = <<"handler", "recv">> /\ ~r_pending'
      BY <2>18 DEF RecvCompleted
    <3>2. Left1
      BY <2>5, <3>1
    <3>3. QED
      BY <3>1, <3>2
  <2>19. ASSUME NEW kind \in {"broken write", "broken read"}, Broken(kind) PROVE Under
    <3>1. /\ todo = << >> /\ packets # << >> /\ Head(packets)[1] = kind /\ packets' = Tail(packets)
          /\ connected' = connected /\ overtaken' = overtaken /\ receiving' = receiving
      BY <2>19 DEF Broken, Packet, HandledInSend
    <3>2. CASE kind = "broken read"
      BY <2>19, <3>2 DEF Broken
    <3>3. CASE kind = "broken write"
      <4>1. Port => Port1
        BY <2>2, <2>7, <3>1, <3>3
      <4>2. UNCHANGED <<r_pending, r_type>>
        BY <2>19, <3>3 DEF Broken
      <4> HIDE DEF Port1
      <4>3. QED
        BY <1>4, <2>1, <2>5, <3>1, <4>1, <4>2
    <3>4. QED
      BY <3>2, <3>3
  <2>20. CASE Handler \/ CallSend
    <3>1. Left => Left1
      BY <2>5, <2>20 DEF Handler, CallSend, Calls
    <3>2. ~overtaken' => ~overtaken
      BY <2>20 DEF Handler, CallSend, Accepts, EntersSend
    <3>3. QED
      BY <2>8, <2>20, <3>1, <3>2 DEF Handler, CallSend
  <2>21. CASE CallRecv
    <3>1. CASE r_pending \/ ~connected
      BY <1>4, <2>1, <2>21, <3>1 DEF CallRecv, Port
    <3>2. CASE packets' = Append(packets, <<"read", arrived>>)
      <4>1. Port1
        BY <2>3, <2>4, <2>6, <2>7, <3>2
      <4>2. QED
        BY <4>1
    <3>3. CASE receiving'
      BY <3>3
    <3>4. CASE r_type' = "broken" /\ ~r_pending /\ r_pending' = r_pending
      BY <3>4
    <3>5. QED
      BY <2>21, <3>1, <3>2, <3>3, <3>4 DEF CallRecv
  <2>22. CASE SystemOpens \/ SystemRefuses
    BY <1>1, <1>4, <2>22 DEF SystemOpens, SystemRefuses, Phase, Unopened
  <2>23. CASE SystemSends
    <3>1. PICK data \in Chunks : packets' = Append(packets, <<"written", data>>)
      BY <2>6, <2>23 DEF SystemSends
    <3>2. QED
      BY <2>4, <2>9, <2>23, <3>1 DEF SystemSends
  <2>24. CASE SystemBreaks
    <3>1. CASE UNCHANGED receiving /\ packets' = Append(packets, <<"broken write", << >> >>)
      BY <2>4, <2>6, <2>9, <2>24, <3>1 DEF SystemBreaks
    <3>2. CASE packets' = Append(packets, <<"broken read", << >> >>)
      <4>1. Port1
        BY <2>3, <2>4, <2>6, <2>7, <3>2
      <4>2. QED
        BY <4>1
    <3>3. QED
      BY <2>24, <3>1, <3>2 DEF SystemBreaks
  <2>25. CASE PeerSendsChunk
    <3>1. CASE packets' = Append(packets, <<"read", <<Len(incoming) + 1>> >>)
      <4>1. PICK data \in Chunks : packets' = Append(packets, <<"read", data>>)
        BY <2>6, <2>25, <3>1 DEF PeerSendsChunk
      <4>2. Port1
        BY <2>3, <2>4, <2>7, <4>1
      <4>3. QED
        BY <4>2
    <3>2. CASE UNCHANGED <<receiving, packets>>
      BY <2>8, <2>25, <3>2 DEF PeerSendsChunk
    <3>3. QED
      BY <2>25, <3>1, <3>2 DEF PeerSendsChunk
  <2>26. CASE PeerShuts
    <3>1. CASE receiving
      <4>1. Port1
        BY <2>3, <2>4, <2>6, <2>7, <2>26, <3>1 DEF PeerShuts
      <4>2. QED
        BY <4>1
    <3>2. CASE ~receiving
      BY <2>1, <2>8, <2>26, <3>2 DEF PeerShuts
    <3>3. QED
      BY <3>1, <3>2
  <2>27. QED
    BY <2>10, <2>11, <2>12, <2>13, <2>14, <2>15, <2>16, <2>17, <2>18, <2>19, <2>20, <2>21,
       <2>22, <2>23, <2>24, <2>25, <2>26 DEF Next, Main, IoThread, System, Send, Thread
<1>5. QED
  BY <1>2, <1>3, <1>4

\* the channel is not connected at first
LEMMA RecvOnInit == Init => RecvOn
  BY DEF Init, RecvOn, Thread

\* A connected channel always has a recv under way, its result in the port or a call of
\* recv() ahead, until the handler is to learn that the connection broke.  Only the
\* completion of accept(), handled before the call has set is_pending, is excepted: the
\* threads may overlap in any other way.
THEOREM RecvStaysUnderWay == Spec => []RecvGoesOn
<1>1. Init => TypeInv /\ RecvOn
  BY TypeInit, RecvOnInit
<1>2. TypeInv /\ RecvOn /\ [Next]_vars => (TypeInv /\ RecvOn)'
  BY TypeStep, RecvOnStep
<1>3. TypeInv /\ RecvOn => RecvGoesOn
  BY RecvOnGoesOn
<1>4. QED
  BY <1>1, <1>2, <1>3, PTL DEF Spec

-----------------------------------------------------------------------------
(* What send_buffer accepted is sent in order. *)

\* every WSASend of this system returns in the same way
Uniform == modes \in {{"sync"}, {"pending"}}

\* a thread is at one of these places
At(places) == \E t \in Thread : pc[t] \in places

\* the completion of a send waits in the port
Written == HasKind({"written"}, packets)

\* a send is under way as far as the threads can tell
Busy == s_pending \/ At({"mark"})

\* the queue holds at most one packet of these kinds
OneOf(K, queue) ==
  \A i, j \in 1 .. Len(queue) : queue[i][1] \in K /\ queue[j][1] \in K => i = j

\* where the sends of a uniform system are
PendingSends == /\ sending # << >> => sending = <<context>> /\ ~Written
                /\ OneOf({"written"}, packets)
                /\ sending # << >> \/ Written => Busy
                /\ Busy => ~At({"swap", "start"})

\* only one thread is in send(); a system that finishes at once holds no send
SendControl == /\ ~(InSend("main") /\ InSend("io"))
               /\ modes = {"sync"} => sending = << >>
               /\ modes = {"pending"} => PendingSends

\* posting and taking a packet of a kind that the queue holds at most once
LEMMA OneOfOps ==
  ASSUME PortType, NEW K
  PROVE  /\ \A p \in PacketSet : OneOf(K, packets) /\ (p[1] \in K => ~HasKind(K, packets))
                                   => OneOf(K, Append(packets, p))
         /\ packets # << >> /\ OneOf(K, packets) =>
              /\ OneOf(K, Tail(packets))
              /\ Head(packets)[1] \in K => ~HasKind(K, Tail(packets))
<1>1. ASSUME NEW p \in PacketSet, OneOf(K, packets), p[1] \in K => ~HasKind(K, packets)
      PROVE  OneOf(K, Append(packets, p))
  <2> DEFINE longer == Append(packets, p)
             n == Len(packets)
  <2>1. /\ n \in Nat /\ Len(longer) = n + 1 /\ longer[n + 1] = p
        /\ \A i \in 1 .. n : longer[i] = packets[i]
    BY PacketValues
  <2>2. \A i \in 1 .. n : p[1] \in K => packets[i][1] \notin K
    BY <1>1 DEF HasKind
  <2>3. \A i, j \in 1 .. n : packets[i][1] \in K /\ packets[j][1] \in K => i = j
    BY <1>1 DEF OneOf
  <2> HIDE DEF longer, n
  <2>4. ASSUME NEW i \in 1 .. Len(longer), NEW j \in 1 .. Len(longer),
               longer[i][1] \in K, longer[j][1] \in K
        PROVE  i = j
    <3>1. i \in 1 .. n \/ i = n + 1
      BY <2>1
    <3>2. j \in 1 .. n \/ j = n + 1
      BY <2>1
    <3>3. QED
      BY <2>1, <2>2, <2>3, <2>4, <3>1, <3>2
  <2>5. QED
    BY <2>4 DEF OneOf, longer
<1>2. ASSUME packets # << >>, OneOf(K, packets)
      PROVE  /\ OneOf(K, Tail(packets))
             /\ Head(packets)[1] \in K => ~HasKind(K, Tail(packets))
  <2> DEFINE rest == Tail(packets)
  <2>1. \A i \in 1 .. Len(rest) : i + 1 \in 1 .. Len(packets) /\ rest[i] = packets[i + 1] /\ i \in Int
    BY <1>2, PacketValues
  <2>2. Head(packets) = packets[1] /\ 1 \in 1 .. Len(packets)
    BY <1>2, HeadPacket
  <2> HIDE DEF rest
  <2>3. \A i, j \in 1 .. Len(packets) : packets[i][1] \in K /\ packets[j][1] \in K => i = j
    BY <1>2 DEF OneOf
  <2>4. OneOf(K, rest)
    <3> SUFFICES ASSUME NEW i \in 1 .. Len(rest), NEW j \in 1 .. Len(rest),
                        rest[i][1] \in K, rest[j][1] \in K
                 PROVE  i = j
      BY DEF OneOf
    <3>1. i + 1 = j + 1
      BY <2>1, <2>3
    <3>2. QED
      BY <2>1, <3>1
  <2>5. ASSUME Head(packets)[1] \in K, NEW i \in 1 .. Len(rest), rest[i][1] \in K PROVE FALSE
    <3>1. i + 1 = 1
      BY <2>1, <2>2, <2>3, <2>5
    <3>2. i \in 1 .. Len(rest) => i # 0
      OBVIOUS
    <3>3. QED
      BY <2>1, <3>1, <3>2
  <2>6. QED
    BY <2>4, <2>5 DEF HasKind, rest
<1>3. QED
  BY <1>1, <1>2

\* no step changes the kinds of packet of the system
LEMMA ModesStay == [Next]_vars => modes' = modes
<1> SUFFICES ASSUME [Next]_vars PROVE modes' = modes
  OBVIOUS
<1> USE DEF fixed, sendVars, recvVars, races
<1>1. CASE UNCHANGED vars
  BY <1>1 DEF vars
<1>2. CASE System \/ PeerSendsChunk \/ PeerShuts \/ PeerResets
  BY <1>2 DEF System, SystemOpens, SystemRefuses, SystemSends, SystemBreaks, PeerSendsChunk,
              PeerShuts, PeerResets
<1>3. CASE SendEarly \/ Open \/ SendBuffer \/ MarkOpening \/ Handler \/ CallSend \/ CallRecv
  BY <1>3 DEF SendEarly, Open, SendBuffer, MarkOpening, Handler, CallSend, CallRecv
<1>4. ASSUME NEW t, Send(t) PROVE modes' = modes
  BY <1>4 DEF Send, TestPending, Swap, WSASend, MarkSend
<1>5. ASSUME NEW kind, Opened(kind) \/ Broken(kind) \/ SendCompleted \/ RecvCompleted
      PROVE  modes' = modes
  BY <1>5 DEF Opened, Broken, SendCompleted, RecvCompleted
<1>6. QED
  BY <1>1, <1>2, <1>3, <1>4, <1>5 DEF Next, Main, IoThread

\* every step of a uniform system keeps the sends apart
LEMMA SendControlStep ==
  ASSUME TypeInv, RecvOn, SendControl, [Next]_vars, ~Dead, ~raced, ~Dead', ~raced', Uniform
  PROVE  SendControl'
<1>1. ScalarType /\ SendType /\ RecvType /\ PortType /\ Phase
  BY DEF TypeInv
<1>2. modes' = modes
  BY ModesStay
<1> DEFINE main == pc["main"]
           io == pc["io"]
           Sends3 == {"send", "swap", "start", "mark"}
           Alone == ~(main \in Sends3 /\ io \in Sends3)
           Alone1 == ~(pc'["main"] \in Sends3 /\ pc'["io"] \in Sends3)
<1>3. Alone /\ pc \in [Thread -> {"idle", "opening", "send", "swap", "start", "mark"}]
  BY <1>1 DEF SendControl, InSend, ScalarType
<1>4. Alone1
  <2> USE <1>3 DEF fixed, sendVars, recvVars, races, Thread
  <2>1. CASE UNCHANGED pc
    BY <2>1
  <2>2. ASSUME NEW t \in Thread, EntersSend(t) PROVE Alone1
    BY <2>2 DEF EntersSend, InSend
  <2>3. CASE SendBuffer \/ CallSend
    BY <2>2, <2>3 DEF SendBuffer, Accepts, CallSend
  <2>4. CASE Handler
    BY <2>1, <2>2, <2>4 DEF Handler, Accepts
  <2>5. CASE Open
    BY <2>5 DEF Open
  <2>6. CASE MarkOpening
    BY <2>6 DEF MarkOpening
  <2>7. ASSUME NEW t \in Thread, TestPending(t) PROVE Alone1
    BY <2>7 DEF TestPending
  <2>8. ASSUME NEW t \in Thread, Swap(t) PROVE Alone1
    BY <2>8 DEF Swap
  <2>9. ASSUME NEW t \in Thread, WSASend(t) PROVE Alone1
    BY <2>9 DEF WSASend
  <2>10. ASSUME NEW t \in Thread, MarkSend(t) PROVE Alone1
    BY <2>10 DEF MarkSend
  <2>11. CASE System \/ PeerSendsChunk \/ PeerShuts \/ PeerResets \/ SendEarly
    BY <2>1, <2>11 DEF System, SystemOpens, SystemRefuses, SystemSends, SystemBreaks,
       PeerSendsChunk, PeerShuts, PeerResets, SendEarly
  <2>12. ASSUME NEW kind, Opened(kind) \/ Broken(kind) \/ SendCompleted \/ RecvCompleted \/ CallRecv
         PROVE  Alone1
    BY <2>1, <2>12 DEF Opened, Broken, SendCompleted, RecvCompleted, CallRecv
  <2>13. QED
    BY <2>1, <2>3, <2>4, <2>5, <2>6, <2>7, <2>8, <2>9, <2>10, <2>11, <2>12
       DEF Next, vars, Main, IoThread, Send
<1>5. modes = {"sync"} => sending' = << >>
  <2> SUFFICES ASSUME modes = {"sync"}, sending = << >> PROVE sending' = << >>
    BY DEF SendControl
  <2>1. "pending" \notin modes
    OBVIOUS
  <2> HIDE DEF Sends3
  <2> USE DEF fixed, sendVars, recvVars, races
  <2>2. ASSUME NEW t, WSASend(t) PROVE sending' = << >>
    BY <2>1, <2>2 DEF WSASend
  <2>3. CASE SystemSends \/ SystemBreaks
    BY <2>3 DEF SystemSends, SystemBreaks, Dead
  <2>4. CASE UNCHANGED vars \/ SystemOpens \/ SystemRefuses \/ PeerSendsChunk \/ PeerShuts
             \/ PeerResets
    BY <2>4 DEF vars, SystemOpens, SystemRefuses, PeerSendsChunk, PeerShuts, PeerResets
  <2>5. CASE SendEarly \/ Open \/ SendBuffer \/ MarkOpening \/ Handler \/ CallSend \/ CallRecv
    BY <2>5 DEF SendEarly, Open, SendBuffer, MarkOpening, Handler, CallSend, CallRecv
  <2>6. ASSUME NEW t, TestPending(t) \/ Swap(t) \/ MarkSend(t) PROVE sending' = << >>
    BY <2>6 DEF TestPending, Swap, MarkSend
  <2>7. ASSUME NEW kind, Opened(kind) \/ Broken(kind) \/ SendCompleted \/ RecvCompleted
        PROVE  sending' = << >>
    BY <2>7 DEF Opened, Broken, SendCompleted, RecvCompleted
  <2>8. QED
    BY <2>2, <2>3, <2>4, <2>5, <2>6, <2>7 DEF Next, Main, IoThread, System, Send
<1>6. ASSUME modes = {"pending"} PROVE PendingSends'
  <2> DEFINE K == {"written"}
             Written1 == HasKind(K, packets')
             Once1 == OneOf(K, packets')
             Busy1 == s_pending' \/ pc'["main"] = "mark" \/ pc'["io"] = "mark"
             Ready1 == pc'["main"] \in {"swap", "start"} \/ pc'["io"] \in {"swap", "start"}
             Goal == /\ sending' # << >> => sending' = <<context'>> /\ ~Written1
                     /\ Once1
                     /\ sending' # << >> \/ Written1 => Busy1
                     /\ Busy1 => ~Ready1
             BusyNow == s_pending \/ main = "mark" \/ io = "mark"
             Ready == main \in {"swap", "start"} \/ io \in {"swap", "start"}
             Once == OneOf(K, packets)
  <2> SUFFICES Goal
    BY ThreadNames DEF PendingSends, Written, Busy, At, Thread
  <2>1. /\ sending # << >> => sending = <<context>> /\ ~Written
        /\ Once
        /\ sending # << >> \/ Written => BusyNow
        /\ BusyNow => ~Ready
        /\ "sync" \notin modes
    BY <1>6, ThreadNames DEF SendControl, PendingSends, Busy, At, Thread
  <2>2. /\ link = "closed" => ~connected
        /\ ~connected => sending = << >> /\ io = "idle" /\ main \in {"idle", "opening", "send"}
        /\ main = "opening" /\ connected => role = "accept"
        /\ ~connected /\ packets # << >> => Head(packets)[1] \in {"opened", "refused"}
        /\ Unopened => packets = << >>
    BY <1>1, BoundsAssumption DEF Phase, Unopened, RecvOn, ScalarType
  <2>3. ~HasKind(K, << >>) /\ (packets # << >> =>
          /\ Written <=> Head(packets)[1] \in K \/ HasKind(K, Tail(packets))
          /\ OneOf(K, Tail(packets))
          /\ Head(packets)[1] \in K => ~HasKind(K, Tail(packets)))
    BY <1>1, <2>1, KindOps, OneOfOps DEF Written
  <2>4. ASSUME NEW kind \in Kinds, NEW data \in Chunks, packets' = Append(packets, <<kind, data>>)
        PROVE  /\ Written1 <=> Written \/ kind = "written"
               /\ kind # "written" \/ ~Written => Once1
    <3> DEFINE p == <<kind, data>>
    <3>1. p \in PacketSet /\ p[1] = kind
      BY PacketMembers
    <3> HIDE DEF p
    <3>2. HasKind(K, Append(packets, p)) <=> HasKind(K, packets) \/ p[1] \in K
      BY <1>1, <3>1, KindOps
    <3>3. (p[1] \in K => ~HasKind(K, packets)) => OneOf(K, Append(packets, p))
      BY <1>1, <2>1, <3>1, OneOfOps
    <3>4. QED
      BY <2>4, <3>1, <3>2, <3>3 DEF p, Written
  <2>5. Kinds = {"opened", "refused", "written", "broken write", "read", "broken read"}
    BY DEF Kinds
  <2>6. packets' = packets => (Written1 <=> Written) /\ Once1
    BY <2>1 DEF Written
  <2>7. /\ << >> \in Chunks /\ context \in Chunks /\ arrived \in Chunks
        /\ sending # << >> => Head(sending) \in Chunks
        /\ Len(incoming) < PeerSends => <<Len(incoming) + 1>> \in Chunks
        /\ PeerSends > 0 => <<1>> \in Chunks
    <3>1. Len(incoming) < PeerSends => Len(incoming) + 1 \in Chunk
      BY <1>1, NextChunks DEF RecvType
    <3>2. Len(incoming) < PeerSends => <<Len(incoming) + 1>> \in Chunks
      BY <3>1 DEF Chunks
    <3>3. sending # << >> => Head(sending) \in Chunks
      BY <1>1, HeadTailProperties DEF SendType, Sendable, Chunks
    <3>4. QED
      BY <1>1, <3>2, <3>3, PacketMembers, NextChunks DEF SendType, RecvType
  <2> HIDE DEF Once, Once1, Written1, K
  \* the four kinds of step that do not touch a send
  <2> DEFINE Apart == /\ sending' = sending /\ context' = context /\ s_pending' = s_pending
                      /\ pc' = pc
  <2>8. Apart /\ packets' = packets => Goal
    BY <2>1, <2>6
  <2>9. ASSUME Apart, NEW kind \in Kinds \ {"written"}, NEW data \in Chunks,
                packets' = Append(packets, <<kind, data>>)
         PROVE  Goal
    <3>1. (Written1 <=> Written) /\ Once1
      BY <2>4, <2>9
    <3>2. QED
      BY <2>1, <2>9, <3>1
  <2>10. Apart /\ packets # << >> /\ Head(packets)[1] # "written" /\ packets' = Tail(packets)
           => Goal
    <3> SUFFICES ASSUME Apart, packets # << >>, Head(packets)[1] # "written",
                        packets' = Tail(packets)
                 PROVE  Goal
      OBVIOUS
    <3>1. (Written1 <=> Written) /\ Once1
      BY <2>3 DEF K, Written1, Once1
    <3>2. QED
      BY <2>1, <3>1
  <2>11. ASSUME sending' = sending, context' = context, s_pending' = s_pending,
                packets' = packets, NEW t \in Thread, pc[t] = "idle",
                pc' = [pc EXCEPT ![t] = "send"]
         PROVE  Goal
    <3>1. Busy1 <=> BusyNow
      BY <1>3, <2>11 DEF Thread
    <3>2. Ready1 <=> Ready
      BY <1>3, <2>11 DEF Thread
    <3> HIDE DEF Busy1, BusyNow, Ready1, Ready
    <3>3. QED
      BY <2>1, <2>6, <2>11, <3>1, <3>2
  <2>12. "main" \in Thread /\ "io" \in Thread /\ \A t \in Thread : t = "main" \/ t = "io"
    BY ThreadNames
  <2> HIDE DEF Goal
  <2> USE DEF fixed, sendVars, recvVars, races
  <2>13. CASE UNCHANGED vars
    BY <2>8, <2>13 DEF vars
  <2>14. CASE SendEarly \/ PeerResets
    BY <2>8, <2>14 DEF SendEarly, PeerResets
  <2>15. CASE Open
    <3>1. sending' = << >> /\ packets' = packets /\ packets = << >>
      BY <2>2, <2>15 DEF Open, Unopened
    <3>2. ~Written1 /\ Once1
      BY <2>3, <2>6, <3>1 DEF Written, K
    <3>3. ~Ready1
      <4>1. io = "idle" /\ pc' = [pc EXCEPT !["main"] = "opening"]
        BY <2>2, <2>15 DEF Open
      <4>2. QED
        BY <1>3, <2>12, <4>1
    <3>4. QED
      BY <3>1, <3>2, <3>3 DEF Goal
  <2>16. CASE SendBuffer
    <3>1. /\ pc' = [pc EXCEPT !["main"] = "send"] /\ main = "idle"
          /\ UNCHANGED <<sending, context, s_pending, packets>>
      BY <2>16 DEF SendBuffer, Accepts, EntersSend
    <3>2. QED
      BY <2>11, <2>12, <3>1
  <2>17. CASE MarkOpening
    <3> SUFFICES ASSUME ~connected PROVE Goal
      <4>1. CASE connected
        <5>1. role = "accept" /\ main = "opening" /\ pc' = [pc EXCEPT !["main"] = "idle"]
          BY <2>2, <2>17, <4>1 DEF MarkOpening
        <5>2. UNCHANGED <<sending, context, s_pending, packets>>
          BY <2>17, <5>1 DEF MarkOpening
        <5>3. (Busy1 <=> BusyNow) /\ (Ready1 <=> Ready)
          BY <1>3, <2>12, <5>1, <5>2
        <5> HIDE DEF Busy1, BusyNow, Ready1, Ready
        <5>4. QED
          BY <2>1, <2>6, <5>2, <5>3 DEF Goal
      <4>2. QED
        BY <4>1
    <3>1. ~connected
      OBVIOUS
    <3>2. sending' = << >> /\ packets' = packets
      BY <2>2, <2>17, <3>1 DEF MarkOpening
    <3>3. ~Ready1
      <4>1. io = "idle" /\ pc' = [pc EXCEPT !["main"] = "idle"]
        BY <2>2, <2>17, <3>1 DEF MarkOpening
      <4>2. QED
        BY <1>3, <2>12, <4>1
    <3>4. ~Written
      <4>1. CASE packets = << >>
        BY <2>3, <4>1 DEF Written, K
      <4>2. CASE packets # << >>
        <5>1. Head(packets)[1] # "written" /\ Tail(packets) = << >>
          BY <1>1, <2>2, <3>1, <4>2 DEF Phase
        <5>2. QED
          BY <2>3, <4>2, <5>1 DEF K
      <4>3. QED
        BY <4>1, <4>2
    <3>5. QED
      BY <2>6, <3>2, <3>3, <3>4 DEF Goal
  <2>18. ASSUME NEW t \in Thread, TestPending(t) PROVE Goal
    <3>1. /\ sending' = sending /\ context' = context /\ s_pending' = s_pending
          /\ packets' = packets /\ pc[t] = "send"
      BY <2>18 DEF TestPending
    <3>2. CASE pc' = [pc EXCEPT ![t] = "idle"]
      <4>1. (Busy1 <=> BusyNow) /\ (Ready1 <=> Ready)
        BY <1>3, <2>12, <3>1, <3>2
      <4>2. QED
        BY <2>1, <2>6, <3>1, <4>1 DEF Goal
    <3>3. CASE pc' = [pc EXCEPT ![t] = "swap"] /\ ~s_pending
      <4>1. ~Busy1 /\ ~BusyNow
        BY <1>3, <2>12, <3>1, <3>3
      <4>2. QED
        BY <2>1, <2>6, <3>1, <4>1 DEF Goal
    <3>4. QED
      BY <2>18, <3>2, <3>3 DEF TestPending
  <2>19. ASSUME NEW t \in Thread, Swap(t) PROVE Goal
    <3>1. sending' = sending /\ s_pending' = s_pending /\ packets' = packets /\ pc[t] = "swap"
      BY <2>19 DEF Swap
    <3>2. ~BusyNow /\ sending = << >> /\ ~Written
      BY <2>1, <2>12, <3>1
    <3>3. PICK place \in {"idle", "start"} : pc' = [pc EXCEPT ![t] = place]
      BY <2>19 DEF Swap
    <3>4. ~Busy1
      BY <1>3, <2>12, <3>1, <3>2, <3>3
    <3>5. QED
      BY <2>6, <3>1, <3>2, <3>4 DEF Goal
  <2>20. ASSUME NEW t \in Thread, WSASend(t) PROVE Goal
    <3>1. /\ context' = context /\ s_pending' = s_pending /\ packets' = packets
          /\ pc[t] = "start" /\ sending' = Append(sending, context)
          /\ pc' = [pc EXCEPT ![t] = "mark"]
      BY <2>1, <2>20 DEF WSASend
    <3>2. ~BusyNow /\ sending = << >> /\ ~Written
      BY <2>1, <2>12, <3>1
    <3>3. Busy1 /\ ~Ready1
      BY <1>3, <2>12, <3>1
    <3>4. sending' = <<context'>>
      BY <3>1, <3>2
    <3>5. QED
      BY <2>6, <3>1, <3>2, <3>3, <3>4 DEF Goal
  <2>21. ASSUME NEW t \in Thread, MarkSend(t) PROVE Goal
    <3>1. /\ sending' = sending /\ context' = context /\ packets' = packets /\ pc[t] = "mark"
          /\ s_pending' = TRUE /\ pc' = [pc EXCEPT ![t] = "idle"]
      BY <2>21 DEF MarkSend
    <3>2. ~Ready1
      BY <1>3, <2>12, <3>1
    <3>3. QED
      BY <2>1, <2>6, <3>1, <3>2 DEF Goal
  <2>22. ASSUME NEW kind \in {"opened", "refused"}, Opened(kind) PROVE Goal
    <3>1. packets # << >> /\ Head(packets)[1] = kind /\ packets' = Tail(packets)
      BY <2>22 DEF Opened, Packet
    <3>2. ~connected /\ packets' = << >>
      <4>1. HasKind({"opened", "refused"}, packets)
        BY <1>1, <3>1, KindOps
      <4>2. ~connected
        BY <1>1, <4>1 DEF Phase
      <4>3. QED
        BY <1>1, <2>2, <3>1, <4>2 DEF Phase
    <3>3. ~Written1 /\ Once1
      BY <2>3, <3>1, <3>2 DEF Written1, Once1
    <3>4. sending' = << >> /\ pc' = pc
      BY <2>2, <2>22, <3>2 DEF Opened
    <3>5. ~Ready1
      BY <2>2, <3>2, <3>4
    <3>6. QED
      BY <3>3, <3>4, <3>5 DEF Goal
  <2>23. CASE SendCompleted
    <3>1. /\ packets # << >> /\ Head(packets)[1] = "written" /\ packets' = Tail(packets)
          /\ sending' = sending /\ pc' = pc /\ s_pending' = FALSE
          /\ main \notin {"start", "mark"} /\ io = "idle"
      BY <2>23 DEF SendCompleted, Packet, HandledInSend
    <3>2. Written /\ ~Written1 /\ Once1
      BY <2>3, <3>1 DEF K, Written1, Once1
    <3>3. sending = << >>
      BY <2>1, <3>2
    <3>4. ~Busy1
      <4>1. s_pending' = FALSE /\ pc'["main"] # "mark" /\ pc'["io"] # "mark"
        BY <3>1
      <4>2. QED
        BY <4>1
    <3>5. QED
      BY <3>1, <3>2, <3>3, <3>4 DEF Goal
  <2>24. CASE RecvCompleted
    <3>1. Apart /\ packets # << >> /\ Head(packets)[1] = "read" /\ packets' = Tail(packets)
      BY <2>24 DEF RecvCompleted, Packet
    <3>2. QED
      BY <2>10, <3>1
  <2>25. CASE Broken("broken read")
    <3>1. Apart /\ packets # << >> /\ Head(packets)[1] = "broken read" /\ packets' = Tail(packets)
      BY <2>25 DEF Broken, Packet
    <3>2. QED
      BY <2>10, <3>1
  <2>26. CASE Broken("broken write")
    <3>1. HasKind({"refused", "broken write"}, packets)
      BY <1>1, <2>26, KindOps DEF Broken, Packet
    <3>2. QED
      BY <1>1, <3>1 DEF Phase
  <2>27. CASE Handler
    <3>1. UNCHANGED <<sending, context, s_pending, packets>> /\ io = "idle"
      BY <2>27 DEF Handler, Calls
    <3>2. CASE pc' = pc
      BY <2>8, <3>1, <3>2
    <3>3. CASE pc' = [pc EXCEPT !["io"] = "send"]
      BY <2>11, <2>12, <3>1, <3>3
    <3>4. QED
      BY <2>27, <3>2, <3>3 DEF Handler, Accepts, EntersSend
  <2>28. CASE CallSend
    <3>1. /\ UNCHANGED <<sending, context, s_pending, packets>> /\ io = "idle"
          /\ pc' = [pc EXCEPT !["io"] = "send"]
      BY <2>28 DEF CallSend, EntersSend, Calls
    <3>2. QED
      BY <2>11, <2>12, <3>1
  <2>29. CASE CallRecv
    <3>1. Apart
      BY <2>29 DEF CallRecv
    <3>2. CASE packets' = packets
      BY <2>8, <3>1, <3>2
    <3>3. CASE packets' = Append(packets, <<"read", arrived>>)
      BY <2>5, <2>7, <2>9, <3>1, <3>3
    <3>4. QED
      BY <2>29, <3>2, <3>3 DEF CallRecv
  <2>30. CASE SystemOpens
    <3>1. PICK data \in Chunks : packets' = Append(packets, <<"opened", data>>)
      BY <2>7, <2>30 DEF SystemOpens
    <3>2. Apart
      BY <2>30 DEF SystemOpens
    <3>3. QED
      BY <2>5, <2>9, <3>1, <3>2
  <2>31. CASE SystemRefuses
    BY <2>31 DEF SystemRefuses, Dead
  <2>32. CASE SystemSends
    <3>1. PICK data \in Chunks : packets' = Append(packets, <<"written", data>>)
      BY <2>7, <2>32 DEF SystemSends
    <3>2. s_pending' = s_pending /\ pc' = pc /\ sending' = Tail(sending) /\ sending # << >>
      BY <2>32 DEF SystemSends
    <3>3. sending = <<context>> /\ ~Written /\ BusyNow
      BY <2>1, <3>2
    <3>4. sending' = << >>
      BY <3>2, <3>3
    <3>5. Once1
      BY <2>4, <2>5, <3>1, <3>3
    <3>6. (Busy1 <=> BusyNow) /\ (Ready1 <=> Ready)
      BY <3>2
    <3>7. QED
      BY <2>1, <3>3, <3>4, <3>5, <3>6 DEF Goal
  <2>33. CASE SystemBreaks
    BY <2>33 DEF SystemBreaks, Dead
  <2>34. CASE PeerSendsChunk
    <3>1. Apart
      BY <2>34 DEF PeerSendsChunk
    <3>2. CASE packets' = packets
      BY <2>8, <3>1, <3>2
    <3>3. CASE packets' = Append(packets, <<"read", <<Len(incoming) + 1>> >>)
      <4>1. PICK data \in Chunks : packets' = Append(packets, <<"read", data>>)
        BY <2>7, <2>34, <3>3 DEF PeerSendsChunk
      <4>2. QED
        BY <2>5, <2>9, <3>1, <4>1
    <3>4. QED
      BY <2>34, <3>2, <3>3 DEF PeerSendsChunk
  <2>35. CASE PeerShuts
    <3>1. Apart
      BY <2>35 DEF PeerShuts
    <3>2. CASE packets' = packets
      BY <2>8, <3>1, <3>2
    <3>3. CASE packets' = Append(packets, <<"read", << >> >>)
      BY <2>5, <2>7, <2>9, <3>1, <3>3
    <3>4. QED
      BY <2>35, <3>2, <3>3 DEF PeerShuts
  <2>36. QED
    BY <2>13, <2>14, <2>15, <2>16, <2>17, <2>18, <2>19, <2>20, <2>21, <2>22, <2>23, <2>24,
       <2>25, <2>26, <2>27, <2>28, <2>29, <2>30, <2>31, <2>32, <2>33, <2>34, <2>35
       DEF Next, Main, IoThread, System, Send, Thread
<1>7. QED
  BY <1>2, <1>4, <1>5, <1>6 DEF SendControl, InSend


\* what was taken out of send_buffer_ and is not on the wire yet
InHand == IF link = "opening" \/ sending # << >> \/ At({"start"}) THEN context ELSE << >>

\* SentInOrder with what is in hand as one piece
SendOrder == accepted = Cat(wire, Cat(InHand, send_buffer))

\* the inductive invariant of the sending side
SendInv == Uniform /\ ~Dead /\ ~raced => SendControl /\ SendOrder

\* three pieces in a row: what is accepted moves from the buffer into the hand,
\* and from there to the wire
LEMMA SendMoves ==
  ASSUME NEW r \in Chunks, NEW s \in Chunks, NEW t \in Chunks
  PROVE  /\ Cat(Cat(r, s), Cat(<< >>, t)) = Cat(r, Cat(s, t))
         /\ Cat(r, Cat(t, << >>)) = Cat(r, Cat(<< >>, t))
<1>1. Cat(Cat(r, s), Cat(<< >>, t)) = Cat(r, Cat(s, t))
  BY ChunkLaws
<1>2. Cat(r, Cat(t, << >>)) = Cat(r, Cat(<< >>, t))
  BY ChunkLaws
<1>3. QED
  BY <1>1, <1>2

\* every step of a uniform system keeps the order of what is sent
LEMMA SendOrderStep ==
  ASSUME TypeInv, RecvOn, SendControl, SendOrder, [Next]_vars, ~Dead, ~raced, ~Dead', ~raced',
         Uniform
  PROVE  SendOrder'
<1>1. ScalarType /\ SendType /\ RecvType /\ PortType /\ Phase
  BY DEF TypeInv
<1> DEFINE main == pc["main"]
           io == pc["io"]
           Start == main = "start" \/ io = "start"
           Start1 == pc'["main"] = "start" \/ pc'["io"] = "start"
           hand == IF link = "opening" \/ sending # << >> \/ Start THEN context ELSE << >>
           hand1 == IF link' = "opening" \/ sending' # << >> \/ Start1 THEN context' ELSE << >>
           Goal == accepted' = Cat(wire', Cat(hand1, send_buffer'))
<1>2. hand = InHand /\ hand1 = InHand'
  BY ThreadNames DEF InHand, At
<1> SUFFICES Goal
  BY <1>2 DEF SendOrder
<1>3. accepted = Cat(wire, Cat(hand, send_buffer))
  BY <1>2 DEF SendOrder
<1>4. /\ wire \in Chunks /\ send_buffer \in Chunks /\ context \in Chunks /\ accepted \in Chunks
      /\ << >> \in Chunks /\ hand \in Chunks
  BY <1>1, PacketMembers DEF SendType
<1>5. pc \in [Thread -> {"idle", "opening", "send", "swap", "start", "mark"}]
  BY <1>1 DEF ScalarType
<1>6. /\ link = "closed" => ~connected /\ context = << >>
      /\ link = "opening" => ~connected /\ packets = << >> /\ wire = << >>
      /\ ~connected => sending = << >> /\ io = "idle" /\ main \in {"idle", "opening", "send"}
      /\ packets # << >> => link # "opening"
  BY <1>1 DEF Phase, Unopened
<1>7. ~(main \in {"send", "swap", "start", "mark"} /\ io \in {"send", "swap", "start", "mark"})
  BY DEF SendControl, InSend
<1>8. /\ modes \in {{"sync"}, {"pending"}}
      /\ modes = {"sync"} => sending = << >>
      /\ modes = {"pending"} =>
           /\ sending # << >> => sending = <<context>> /\ ~Written
           /\ sending # << >> => main \notin {"swap", "start"} /\ io \notin {"swap", "start"}
  BY ThreadNames DEF Uniform, SendControl, PendingSends, Busy, At
<1>9. "main" \in Thread /\ "io" \in Thread /\ \A t \in Thread : t = "main" \/ t = "io"
  BY ThreadNames
\* the steps that accept a chunk, take the buffer in hand, and put it on the wire
<1> DEFINE x == Len(accepted) + 1
<1>10. Len(accepted) < MaxSends => x \in Chunk
  BY <1>4, NextChunks
<1>11. ASSUME Len(accepted) < MaxSends, accepted' = Append(accepted, x),
              send_buffer' = Append(send_buffer, x), wire' = wire, hand1 = hand
       PROVE  Goal
  <2>1. x \in Chunk
    BY <1>10, <1>11
  <2> HIDE DEF x, hand, hand1
  <2> DEFINE rest == Cat(hand, send_buffer)
  <2>2. rest \in Chunks
    BY <1>4, ChunkOps
  <2>3. Cat(hand, Append(send_buffer, x)) = Append(rest, x)
    BY <1>4, <2>1, ChunkLaws
  <2> HIDE DEF rest
  <2>4. Cat(wire, Append(rest, x)) = Append(Cat(wire, rest), x)
    BY <1>4, <2>1, <2>2, ChunkLaws
  <2>5. accepted = Cat(wire, rest)
    BY <1>3 DEF rest
  <2>6. accepted' = Cat(wire, Cat(hand, Append(send_buffer, x)))
    BY <1>11, <2>3, <2>4, <2>5
  <2>7. QED
    BY <1>11, <2>6
<1>12. ASSUME hand = << >>, hand1 = send_buffer, send_buffer' = << >>, wire' = wire,
              accepted' = accepted
       PROVE  Goal
  <2> HIDE DEF hand, hand1
  <2>1. Cat(wire, Cat(send_buffer, << >>)) = Cat(wire, Cat(<< >>, send_buffer))
    BY <1>4, SendMoves
  <2>2. QED
    BY <1>3, <1>12, <2>1
<1>13. ASSUME hand = context, hand1 = << >>, wire' = Cat(wire, context),
              send_buffer' = send_buffer, accepted' = accepted
       PROVE  Goal
  <2> HIDE DEF hand, hand1
  <2>1. Cat(Cat(wire, context), Cat(<< >>, send_buffer)) = Cat(wire, Cat(context, send_buffer))
    BY <1>4, SendMoves
  <2>2. QED
    BY <1>3, <1>13, <2>1
<1>14. ASSUME hand1 = hand, wire' = wire, send_buffer' = send_buffer, accepted' = accepted
       PROVE  Goal
  BY <1>3, <1>14
<1> HIDE DEF Goal, x
<1> USE DEF fixed, sendVars, recvVars, races
<1> DEFINE Apart == /\ wire' = wire /\ send_buffer' = send_buffer /\ accepted' = accepted
                    /\ sending' = sending /\ context' = context
           Opening == link' = "opening" <=> link = "opening"
<1>15. ASSUME Apart, Opening, Start1 <=> Start PROVE Goal
  <2>1. hand1 = hand
    BY <1>15
  <2>2. QED
    BY <1>14, <1>15, <2>1
<1>16. CASE UNCHANGED vars
  BY <1>15, <1>16 DEF vars
<1>17. ASSUME NEW t \in Thread, EntersSend(t), pc[t] = "idle" PROVE Start1 <=> Start
  BY <1>5, <1>9, <1>17 DEF EntersSend
<1>18. CASE SendEarly
  <2>1. hand1 = hand
    BY <1>18 DEF SendEarly
  <2>2. QED
    BY <1>11, <1>18, <2>1 DEF SendEarly, x
<1>19. CASE Open
  <2>1. hand = << >> /\ wire' = wire /\ accepted' = accepted /\ hand1 = context'
    BY <1>6, <1>19 DEF Open
  <2>2. CASE context' = send_buffer /\ send_buffer' = << >>
    BY <1>12, <2>1, <2>2
  <2>3. CASE context' = context /\ send_buffer' = send_buffer
    BY <1>6, <1>14, <1>19, <2>1, <2>3 DEF Open
  <2>4. QED
    BY <1>19, <2>2, <2>3 DEF Open
<1>20. CASE SendBuffer
  <2>1. Start1 <=> Start
    BY <1>9, <1>17, <1>20 DEF SendBuffer, Accepts
  <2>2. hand1 = hand
    BY <1>20, <2>1 DEF SendBuffer
  <2>3. QED
    BY <1>11, <1>20, <2>2 DEF SendBuffer, Accepts, x
<1>21. CASE MarkOpening
  <2>1. Start1 <=> Start
    BY <1>5, <1>9, <1>21 DEF MarkOpening
  <2>2. QED
    BY <1>15, <1>21, <2>1 DEF MarkOpening
<1>22. ASSUME NEW t \in Thread, TestPending(t) PROVE Goal
  <2>1. Start1 <=> Start
    <3>1. PICK place \in {"idle", "swap"} : pc' = [pc EXCEPT ![t] = place] /\ pc[t] = "send"
      BY <1>22 DEF TestPending
    <3>2. QED
      BY <1>5, <1>9, <3>1
  <2>2. QED
    BY <1>15, <1>22, <2>1 DEF TestPending
<1>23. ASSUME NEW t \in Thread, Swap(t) PROVE Goal
  <2>1. pc[t] = "swap" /\ link' = link /\ sending' = sending /\ accepted' = accepted /\ wire' = wire
    BY <1>23 DEF Swap
  <2>2. sending = << >> /\ ~Start /\ link # "opening"
    BY <1>6, <1>7, <1>8, <1>9, <2>1
  <2>3. CASE pc' = [pc EXCEPT ![t] = "idle"] /\ UNCHANGED <<send_buffer, context>>
    <3>1. ~Start1
      BY <1>5, <1>9, <2>2, <2>3
    <3>2. QED
      BY <1>15, <2>1, <2>2, <2>3, <3>1
  <2>4. CASE pc' = [pc EXCEPT ![t] = "start"] /\ context' = send_buffer /\ send_buffer' = << >>
    <3>1. Start1
      BY <1>5, <1>9, <2>4
    <3>2. hand = << >> /\ hand1 = send_buffer
      BY <2>2, <2>4, <3>1
    <3>3. QED
      BY <1>12, <2>1, <2>4, <3>2
  <2>5. QED
    BY <1>23, <2>3, <2>4 DEF Swap, Cleared
<1>24. ASSUME NEW t \in Thread, WSASend(t) PROVE Goal
  <2>1. /\ pc[t] = "start" /\ link' = link /\ accepted' = accepted /\ send_buffer' = send_buffer
        /\ context' = context
    BY <1>24 DEF WSASend
  <2>2. sending = << >> /\ Start /\ link # "opening"
    BY <1>6, <1>8, <1>9, <2>1
  <2>3. CASE /\ wire' = wire \o context /\ sending' = sending /\ pc' = [pc EXCEPT ![t] = "idle"]
    <3>1. ~Start1
      BY <1>5, <1>7, <1>9, <2>1, <2>3
    <3>2. hand = context /\ hand1 = << >>
      BY <2>1, <2>2, <2>3, <3>1
    <3>3. wire' = Cat(wire, context)
      BY <2>3 DEF Cat
    <3>4. QED
      BY <1>13, <2>1, <3>2, <3>3
  <2>4. CASE wire' = wire /\ sending' = Append(sending, context)
    <3>1. sending' # << >>
      BY <2>2, <2>4
    <3>2. hand = context /\ hand1 = context
      BY <2>1, <2>2, <3>1
    <3>3. QED
      BY <1>14, <2>1, <2>4, <3>2
  <2>5. QED
    BY <1>24, <2>3, <2>4 DEF WSASend
<1>25. ASSUME NEW t \in Thread, MarkSend(t) PROVE Goal
  <2>1. Start1 <=> Start
    BY <1>5, <1>9, <1>25 DEF MarkSend
  <2>2. QED
    BY <1>15, <1>25, <2>1 DEF MarkSend
<1>26. CASE SystemOpens
  <2>1. /\ link = "opening" /\ link' = "up" /\ wire' = context /\ wire = << >>
        /\ UNCHANGED <<sending, pc, accepted, send_buffer>> /\ sending = << >> /\ ~Start
    BY <1>6, <1>26 DEF SystemOpens
  <2>2. hand = context /\ hand1 = << >>
    BY <2>1
  <2>3. Cat(wire, context) = context
    BY <1>4, <2>1, ChunkLaws
  <2>4. QED
    BY <1>13, <2>1, <2>2, <2>3
<1>27. CASE SystemSends
  <2>1. /\ sending # << >> /\ sending' = Tail(sending)
        /\ UNCHANGED <<link, pc, accepted, send_buffer, context>>
        /\ wire' \in {wire \o Head(sending), wire \o Resized(context, Len(Head(sending)))}
    BY <1>27 DEF SystemSends
  <2>2. sending = <<context>> /\ ~Start
    BY <1>8, <2>1
  <2>3. sending' = << >> /\ Head(sending) = context
    BY <2>1, <2>2
  <2>4. Resized(context, Len(context)) = context
    BY <1>4, ChunkOps, ResizedType
  <2>5. wire' = Cat(wire, context)
    BY <2>1, <2>3, <2>4 DEF Cat
  <2>6. link # "opening"
    BY <1>6, <2>1
  <2>7. hand = context /\ hand1 = << >>
    BY <2>1, <2>2, <2>3, <2>6
  <2>8. QED
    BY <1>13, <2>1, <2>5, <2>7
<1>28. CASE SystemRefuses \/ SystemBreaks \/ PeerResets
  BY <1>28 DEF SystemRefuses, SystemBreaks, PeerResets, Dead
<1>29. CASE PeerSendsChunk \/ PeerShuts
  BY <1>15, <1>29 DEF PeerSendsChunk, PeerShuts
<1>30. ASSUME NEW kind, Opened(kind) \/ Broken(kind) PROVE Goal
  BY <1>15, <1>30 DEF Opened, Broken
<1>31. CASE SendCompleted
  <2>1. /\ packets # << >> /\ Head(packets)[1] = "written" /\ main # "start" /\ io = "idle"
        /\ UNCHANGED <<link, pc, sending, wire, accepted, send_buffer>>
    BY <1>31 DEF SendCompleted, Packet, HandledInSend
  <2>2. Written
    BY <1>1, <2>1, KindOps DEF Written
  <2>3. sending = << >> /\ link # "opening" /\ ~Start /\ ~Start1
    BY <1>6, <1>8, <2>1, <2>2
  <2>4. hand1 = hand
    BY <2>1, <2>3
  <2>5. QED
    BY <1>14, <2>1, <2>4
<1>32. CASE RecvCompleted \/ CallRecv
  BY <1>15, <1>32 DEF RecvCompleted, CallRecv
<1>33. CASE Handler
  <2>1. UNCHANGED <<link, sending, wire, context>> /\ io = "idle"
    BY <1>33 DEF Handler, Calls
  <2>2. CASE UNCHANGED <<accepted, send_buffer, pc>>
    BY <1>15, <2>1, <2>2
  <2>3. CASE Accepts("io")
    <3>1. Start1 <=> Start
      BY <1>9, <1>17, <2>1, <2>3 DEF Accepts
    <3>2. hand1 = hand
      BY <2>1, <3>1
    <3>3. QED
      BY <1>11, <2>1, <2>3, <3>2 DEF Accepts, x
  <2>4. QED
    BY <1>33, <2>2, <2>3 DEF Handler
<1>34. CASE CallSend
  <2>1. Start1 <=> Start
    BY <1>9, <1>17, <1>34 DEF CallSend, Calls
  <2>2. QED
    BY <1>15, <1>34, <2>1 DEF CallSend
<1>35. QED
  BY <1>16, <1>18, <1>19, <1>20, <1>21, <1>22, <1>23, <1>24, <1>25, <1>26, <1>27, <1>28, <1>29,
     <1>30, <1>31, <1>32, <1>33, <1>34 DEF Next, Main, IoThread, System, Send, Thread

\* SendInv implies SentInOrder: one piece at most is in hand
LEMMA SendOrderSent == TypeInv /\ SendInv => (Uniform => SentInOrder)
<1> SUFFICES ASSUME TypeInv, SendControl, SendOrder, Uniform
             PROVE  accepted = wire \o Early \o FlattenSeq(sending) \o Unstarted \o send_buffer
  BY DEF SendInv, SentInOrder
<1>1. /\ wire \in Chunks /\ send_buffer \in Chunks /\ context \in Chunks /\ << >> \in Chunks
  BY PacketMembers DEF TypeInv, SendType
<1>2. InHand \in Chunks
  BY <1>1 DEF InHand
<1>3. ~(sending # << >> /\ At({"start"})) /\ (sending # << >> => sending = <<context>>)
  BY DEF Uniform, SendControl, PendingSends, Busy, At
<1>4. link = "opening" => sending = << >> /\ ~At({"start"})
  BY ThreadNames DEF TypeInv, Phase, Unopened, At
<1>5. Unstarted = IF At({"start"}) THEN context ELSE << >>
  BY DEF Unstarted, At
<1> DEFINE flat == FlattenSeq(sending)
<1>6. flat = IF sending = << >> THEN << >> ELSE context
  <2>1. << >> \o context = context
    BY <1>1, ConcatEmptySeq DEF Chunks
  <2>2. FlattenSeq(<<context>>) = context
    BY <2>1, FlattenOne
  <2>3. QED
    BY <1>3, <2>2, FlattenEmpty
<1> DEFINE early == Early
           unstarted == Unstarted
<1>7. early \in Chunks /\ flat \in Chunks /\ unstarted \in Chunks
  BY <1>1, <1>5, <1>6 DEF Early
<1>8. \/ early = InHand /\ flat = << >> /\ unstarted = << >>
      \/ early = << >> /\ flat = InHand /\ unstarted = << >>
      \/ early = << >> /\ flat = << >> /\ unstarted = InHand
  BY <1>3, <1>4, <1>5, <1>6 DEF Early, InHand
<1> HIDE DEF early, flat, unstarted
<1>9. Cat(Cat(Cat(wire, early), flat), unstarted) = Cat(wire, InHand)
  <2>1. Cat(wire, InHand) \in Chunks /\ Cat(wire, << >>) = wire
    BY <1>1, <1>2, ChunkOps, ChunkLaws
  <2>2. Cat(Cat(wire, InHand), << >>) = Cat(wire, InHand)
    BY <2>1, ChunkLaws
  <2>3. QED
    BY <1>8, <2>1, <2>2
<1>10. Cat(Cat(wire, InHand), send_buffer) = Cat(wire, Cat(InHand, send_buffer))
  BY <1>1, <1>2, ChunkLaws
<1>11. Cat(Cat(Cat(Cat(wire, early), flat), unstarted), send_buffer)
         = wire \o early \o flat \o unstarted \o send_buffer
  BY DEF Cat
<1>12. QED
  BY <1>9, <1>10, <1>11 DEF SendOrder, early, flat, unstarted

\* SendInv is inductive, with the two invariants before it
LEMMA SendInvStep == TypeInv /\ RecvOn /\ SendInv /\ [Next]_vars => SendInv'
<1> SUFFICES ASSUME TypeInv, RecvOn, SendInv, [Next]_vars, Uniform', ~Dead', ~raced'
             PROVE  SendControl' /\ SendOrder'
  BY DEF SendInv
<1>1. ~Dead /\ ~raced /\ Uniform
  BY StepsBack, ModesStay DEF Uniform
<1>2. SendControl /\ SendOrder
  BY <1>1 DEF SendInv
<1>3. QED
  BY <1>1, <1>2, SendControlStep, SendOrderStep

\* nothing is sent at first
LEMMA SendInvInit == Init => SendInv
<1> SUFFICES ASSUME Init PROVE SendControl /\ SendOrder
  BY DEF SendInv
<1>1. ~HasKind({"written"}, << >>) /\ OneOf({"written"}, << >>)
  BY EmptySeq DEF HasKind, OneOf
<1>2. SendControl
  BY <1>1 DEF Init, SendControl, PendingSends, Written, Busy, At, InSend, Thread
<1>3. InHand = << >>
  BY DEF Init, InHand, At
<1>4. Cat(<< >>, Cat(<< >>, << >>)) = << >>
  BY PacketMembers, ChunkLaws
<1>5. SendOrder
  BY <1>3, <1>4 DEF Init, SendOrder
<1>6. QED
  BY <1>2, <1>5

\* Where WSASend always finishes at once or always pends, what send_buffer accepted
\* is, until the connection breaks and as long as the threads do not overlap, in
\* that order and once: on the wire, with the system, in the context or in
\* send_buffer_.
THEOREM SendsInOrder == Spec => [](Uniform => SentInOrder)
<1>1. Init => TypeInv /\ RecvOn /\ SendInv
  BY TypeInit, RecvOnInit, SendInvInit
<1>2. TypeInv /\ RecvOn /\ SendInv /\ [Next]_vars => (TypeInv /\ RecvOn /\ SendInv)'
  BY TypeStep, RecvOnStep, SendInvStep
<1>3. TypeInv /\ RecvOn /\ SendInv => (Uniform => SentInOrder)
  BY SendOrderSent
<1>4. QED
  BY <1>1, <1>2, <1>3, PTL DEF Spec
=============================================================================
