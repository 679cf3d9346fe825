------------------------- MODULE PipeChannelProofs -------------------------
(* TLAPS proofs about PipeChannel, for messages, reads and pipes of any size:  *)
(* types, the chain of reads, the stability of the write buffer, and that the  *)
(* channel loses nothing and implements MessageStream where the buffer is      *)
(* stable.                                                                     *)
EXTENDS PipeChannel, FoldLemmas

-----------------------------------------------------------------------------
(* The cells of messages. *)

CellSet == (Messages \cup {0}) \X Nat

\* the messages as they look in the pipe
Strings == {Cells(m) : m \in Messages}

CellsFn == [m \in Messages |-> Cells(m)]

LEMMA CellsType ==
  ASSUME NEW m \in Messages
  PROVE  /\ Size(m) \in Nat /\ Size(m) >= HeadCells /\ HeadCells \in Nat \ {0}
         /\ Cells(m) \in Seq(CellSet) /\ Len(Cells(m)) = Size(m) /\ Cells(m)[1] = <<m, 1>>
         /\ Cells(m) \in Strings
<1>1. Size(m) \in Nat /\ Size(m) >= HeadCells /\ HeadCells \in Nat \ {0}
  BY SizesAssumption DEF Size
<1>2. \A i \in 1 .. Size(m) : <<m, i>> \in CellSet
  BY <1>1 DEF CellSet
<1>3. Cells(m) \in [1 .. Size(m) -> CellSet]
  BY <1>2 DEF Cells
<1>4. Cells(m) \in Seq(CellSet) /\ Len(Cells(m)) = Size(m)
  BY <1>1, <1>3
<1>5. Cells(m)[1] = <<m, 1>>
  BY <1>1 DEF Cells
<1>6. QED
  BY <1>1, <1>4, <1>5 DEF Strings

\* different messages look different
LEMMA CellsDiffer ==
  ASSUME NEW m \in Messages, NEW n \in Messages, Cells(m) = Cells(n)
  PROVE  m = n
<1>1. Cells(m)[1] = <<m, 1>> /\ Cells(n)[1] = <<n, 1>>
  BY CellsType
<1>2. QED
  BY <1>1

LEMMA StringsType == Strings \in SUBSET Seq(CellSet)
  BY CellsType DEF Strings

LEMMA CellsFnMaps == Maps(CellsFn, Messages, Strings, CellSet)
  BY StringsType DEF Maps, CellsFn, Strings

LEMMA AllCellsJoined ==
  ASSUME NEW q \in Seq(Messages)
  PROVE  AllCellsOf(q) = JoinMap(CellsFn, q)
<1>1. DOMAIN q = 1 .. Len(q) /\ \A i \in 1 .. Len(q) : q[i] \in Messages
  BY LenProperties, ElementOfSeq
<1>2. Mapped(CellsFn, q) = [i \in DOMAIN q |-> Cells(q[i])]
  BY <1>1 DEF Mapped, CellsFn
<1>3. QED
  BY <1>2 DEF AllCellsOf, JoinMap

\* AllCellsOf is well typed and distributes.
LEMMA AllCellsType ==
  ASSUME NEW q \in Seq(Messages)
  PROVE  AllCellsOf(q) \in Seq(CellSet)
  BY AllCellsJoined, CellsFnMaps, JoinMapType

LEMMA AllCellsCat ==
  ASSUME NEW p \in Seq(Messages), NEW q \in Seq(Messages)
  PROVE  AllCellsOf(Cat(p, q)) = Cat(AllCellsOf(p), AllCellsOf(q))
<1>1. Cat(p, q) \in Seq(Messages)
  BY CatType
<1>2. JoinMap(CellsFn, Cat(p, q)) = Cat(JoinMap(CellsFn, p), JoinMap(CellsFn, q))
  BY CellsFnMaps, JoinMapCat
<1>3. QED
  BY <1>1, <1>2, AllCellsJoined

LEMMA AllCellsEmpty == AllCellsOf(<< >>) = << >>
<1>1. << >> \in Seq(Messages)
  BY EmptySeq
<1>2. QED
  BY <1>1, AllCellsJoined, JoinMapEmpty

LEMMA AllCellsAppend ==
  ASSUME NEW q \in Seq(Messages), NEW m \in Messages
  PROVE  AllCellsOf(Append(q, m)) = Cat(AllCellsOf(q), Cells(m))
<1>1. JoinMap(CellsFn, Append(q, m)) = Cat(JoinMap(CellsFn, q), CellsFn[m])
  BY CellsFnMaps, JoinMapAppend
<1>2. Append(q, m) \in Seq(Messages)
  BY AppendProperties
<1>3. QED
  BY <1>1, <1>2, AllCellsJoined DEF CellsFn

LEMMA AllCellsHead ==
  ASSUME NEW q \in Seq(Messages), q # << >>
  PROVE  AllCellsOf(q) = Cat(Cells(Head(q)), AllCellsOf(Tail(q)))
<1>1. JoinMap(CellsFn, q) = Cat(CellsFn[Head(q)], JoinMap(CellsFn, Tail(q)))
  BY CellsFnMaps, JoinMapHead
<1>2. Head(q) \in Messages /\ Tail(q) \in Seq(Messages)
  BY HeadTailProperties
<1>3. QED
  BY <1>1, <1>2, AllCellsJoined DEF CellsFn

-----------------------------------------------------------------------------
(* Type correctness. *)

CellSeqs == Seq(CellSet)

Links == {"none", "new", "waiting", "packet", "up"}

SenderType == /\ sent \in Seq(Messages) /\ send_queue \in Seq(Messages)
              /\ unposted \in Nat /\ send_tasks \in Nat /\ w_packets \in Nat
              /\ server \in End /\ link \in [End -> Links] /\ w_pending \in BOOLEAN
              /\ w_buffer \in Messages \cup {0} /\ writes \in Seq(Messages)
              /\ writes # << >> => w_buffer \in Messages
              /\ system \in Systems

ReceiverType == /\ read \in {"none", "system", "packet"}
                /\ r_pending \in BOOLEAN /\ parsing \in BOOLEAN
                /\ read_data \in Seq(CellSet) /\ r_buffer \in Seq(CellSet)
                /\ offset \in 0 .. Len(r_buffer)
                /\ receive_queue \in Seq(CellSeqs) /\ received \in Seq(CellSeqs)

TypeInv == SenderType /\ pipe \in Seq(CellSet) /\ ReceiverType

LEMMA TypeInvTypeOK == TypeInv => TypeOK
  BY DEF TypeInv, SenderType, ReceiverType, TypeOK, CellSet, CellSeqs, Links

\* the end that opens the pipe is the other one
LEMMA ClientType ==
  ASSUME server \in End
  PROVE  Client \in End /\ Client # server
<1>1. \E end \in End : end # server
  BY DEF End
<1>2. QED
  BY <1>1 DEF Client

LEMMA ConnectedType ==
  ASSUME server \in End, link \in [End -> Links], NEW end \in End
  PROVE  Connected(end) \in BOOLEAN
  BY DEF Connected

\* a connect that does not pend ends in connect_completed, at one end
LEMMA ConnectSplit ==
  ASSUME server \in End, r_pending \in BOOLEAN, Connect
  PROVE  \/ ConnectPends
         \/ \E end \in End, pending \in BOOLEAN : ConnectCompleted(end, pending)
<1>1. ASSUME NEW end \in End, ConnectAtOnce(end)
      PROVE  \E pending \in BOOLEAN : ConnectCompleted(end, pending)
  BY <1>1 DEF ConnectAtOnce
<1>2. CASE ConnectPacket
  BY <1>2 DEF ConnectPacket
<1>3. QED
  BY <1>1, <1>2 DEF Connect

\* what send() leaves behind has its type
LEMMA SendTypes ==
  ASSUME SenderType, pipe \in Seq(CellSet), NEW pending \in BOOLEAN, NEW up,
         NEW packets \in Nat, Send(pending, up, packets)
  PROVE  /\ send_queue' \in Seq(Messages) /\ w_packets' \in Nat /\ w_pending' \in BOOLEAN
         /\ w_buffer' \in Messages \cup {0} /\ writes' \in Seq(Messages)
         /\ writes' # << >> => w_buffer' \in Messages
         /\ pipe' \in Seq(CellSet)
<1>1. CASE UNCHANGED <<send_queue, w_buffer, writes, pipe>> /\ w_pending' = pending
           /\ w_packets' = packets
  BY <1>1 DEF SenderType
<1>2. CASE send_queue # << >> /\ send_queue' = Tail(send_queue)
           /\ Write(Head(send_queue), pending, packets)
  <2>1. Head(send_queue) \in Messages /\ Tail(send_queue) \in Seq(Messages)
    BY <1>2, HeadTailProperties DEF SenderType
  <2> DEFINE m == Head(send_queue)
  <2>2. m \in Messages /\ w_buffer' = m
    BY <1>2, <2>1 DEF Write
  <2>3. CASE pipe' = pipe \o Cells(m) /\ w_packets' = packets + 1 /\ w_pending' = pending
             /\ writes' = writes
    <3>1. pipe' = Cat(pipe, Cells(m))
      BY <2>3 DEF Cat
    <3>2. pipe' \in Seq(CellSet)
      BY <2>2, <3>1, CellsType, CatType
    <3>3. QED
      BY <1>2, <2>1, <2>2, <2>3, <3>2 DEF SenderType
  <2>4. CASE writes' = Append(writes, m) /\ w_pending' = TRUE /\ w_packets' = packets
             /\ pipe' = pipe
    <3>1. writes' \in Seq(Messages)
      BY <2>2, <2>4, AppendProperties DEF SenderType
    <3>2. QED
      BY <1>2, <2>1, <2>2, <2>4, <3>1
  <2>5. QED
    BY <1>2, <2>3, <2>4 DEF Write
<1>3. QED
  BY <1>1, <1>2 DEF Send

\* a read takes cells from the front of the pipe
Takes == \E n \in Chunks(pipe) : /\ read_data' = SubSeq(pipe, 1, n)
                                 /\ pipe' = SubSeq(pipe, n + 1, Len(pipe))

LEMMA TakeTypes ==
  ASSUME pipe \in Seq(CellSet), Takes
  PROVE  /\ read_data' \in Seq(CellSet) /\ pipe' \in Seq(CellSet)
         /\ Cat(read_data', pipe') = pipe
<1>1. Len(pipe) \in Nat /\ ReadCells \in Nat
  BY LenProperties, SizesAssumption
<1>2. PICK n \in Chunks(pipe) : /\ read_data' = SubSeq(pipe, 1, n)
                                /\ pipe' = SubSeq(pipe, n + 1, Len(pipe))
  BY DEF Takes
<1>3. n \in 0 .. Len(pipe)
  BY <1>1 DEF Chunks
<1>4. QED
  BY <1>2, <1>3, CatCut

LEMMA ReceiveTypes ==
  ASSUME TypeInv, NEW pending \in BOOLEAN, NEW up, Receive(pending, up)
  PROVE  /\ read' \in {"none", "system", "packet"} /\ r_pending' \in BOOLEAN
         /\ read_data' \in Seq(CellSet) /\ pipe' \in Seq(CellSet)
<1> USE DEF TypeInv, ReceiverType
<1>1. CASE UNCHANGED <<read, read_data, pipe>> /\ r_pending' = pending
  BY <1>1
<1>2. CASE Takes /\ read' = "packet" /\ r_pending' = pending
  BY <1>2, TakeTypes
<1>3. CASE read' = "system" /\ r_pending' = TRUE /\ UNCHANGED <<read_data, pipe>>
  BY <1>3
<1>4. QED
  BY <1>1, <1>2, <1>3 DEF Receive, Takes

\* what is left of the buffer, and a piece cut off at the front of it
LEMMA LeftoverType ==
  ASSUME ReceiverType
  PROVE  Leftover \in Seq(CellSet) /\ Len(Leftover) = Unparsed
<1>1. r_buffer \in Seq(CellSet) /\ offset \in 0 .. Len(r_buffer)
  BY DEF ReceiverType
<1>2. SubSeq(r_buffer, offset + 1, Len(r_buffer)) \in Seq(CellSet)
      /\ Len(SubSeq(r_buffer, offset + 1, Len(r_buffer))) = Len(r_buffer) - offset
  BY <1>1, CatCut
<1>3. QED
  BY <1>2 DEF Leftover, Unparsed

LEMMA MessageSizeType ==
  ASSUME ReceiverType
  PROVE  MessageSize \in Nat /\ MessageSize >= HeadCells /\ HeadCells \in Nat \ {0}
  BY SizesAssumption DEF MessageSize

LEMMA ParseTypes ==
  ASSUME ReceiverType, WholeMessage
  PROVE  /\ SubSeq(r_buffer, offset + 1, offset + MessageSize) \in Seq(CellSet)
         /\ Len(SubSeq(r_buffer, offset + 1, offset + MessageSize)) = MessageSize
         /\ offset + MessageSize \in 0 .. Len(r_buffer)
<1>1. /\ r_buffer \in Seq(CellSet) /\ offset \in 0 .. Len(r_buffer) /\ Len(r_buffer) \in Nat
      /\ \A i \in 1 .. Len(r_buffer) : r_buffer[i] \in CellSet
  BY LenProperties, ElementOfSeq DEF ReceiverType
<1>2. MessageSize \in Nat /\ Len(r_buffer) - offset >= MessageSize
  BY MessageSizeType DEF WholeMessage, Unparsed
<1>3. \A i \in offset + 1 .. offset + MessageSize : r_buffer[i] \in CellSet
  BY <1>1, <1>2
<1>4. QED
  BY <1>1, <1>2, <1>3, SubSeqProperties

LEMMA TypeStep == TypeInv /\ [Next]_vars => TypeInv'
<1> SUFFICES ASSUME TypeInv, [Next]_vars PROVE TypeInv'
  OBVIOUS
<1> USE DEF senderVars, receiverVars
<1>1. CASE UNCHANGED vars
  BY <1>1 DEF vars, TypeInv, SenderType, ReceiverType
<1>2. ASSUME NEW m \in Messages, SendMessage(m) PROVE TypeInv'
  <2>1. sent' \in Seq(Messages) /\ send_queue' \in Seq(Messages)
    BY <1>2, AppendProperties DEF SendMessage, TypeInv, SenderType
  <2>2. QED
    BY <1>2, <2>1 DEF SendMessage, TypeInv, SenderType, ReceiverType
<1>3. CASE Connect
  <2>1. server \in End /\ link \in [End -> Links] /\ r_pending \in BOOLEAN
    BY DEF TypeInv, SenderType, ReceiverType
  <2>2. ASSUME ConnectPends PROVE TypeInv'
    <3>1. link' \in [End -> Links] /\ server' = server
      BY <2>1, <2>2 DEF ConnectPends, Links
    <3>2. SenderType'
      BY <2>1, <2>2, <3>1 DEF ConnectPends, TypeInv, SenderType
    <3>3. ReceiverType'
      BY <2>1, <2>2 DEF ConnectPends, TypeInv, ReceiverType
    <3>4. QED
      BY <2>2, <3>2, <3>3 DEF ConnectPends, TypeInv
  <2>3. ASSUME NEW end \in End, NEW pending \in BOOLEAN, ConnectCompleted(end, pending)
        PROVE  TypeInv'
    <3>1. link' \in [End -> Links] /\ server' = server
      BY <2>1, <2>3 DEF ConnectCompleted, Links
    <3>2. CASE Send(w_pending, TRUE, w_packets) /\ UNCHANGED <<read, r_pending, read_data>>
      <4>1. w_pending \in BOOLEAN /\ w_packets \in Nat
        BY DEF TypeInv, SenderType
      <4>2. SenderType' /\ pipe' \in Seq(CellSet)
        BY <2>1, <2>3, <3>1, <3>2, <4>1, SendTypes DEF ConnectCompleted, TypeInv, SenderType
      <4>3. ReceiverType'
        BY <2>3, <3>2 DEF ConnectCompleted, TypeInv, ReceiverType
      <4>4. QED
        BY <4>2, <4>3 DEF TypeInv
    <3>3. CASE /\ Receive(pending, TRUE)
               /\ UNCHANGED <<w_pending, w_packets, send_queue, w_buffer, writes>>
      <4>1. /\ read' \in {"none", "system", "packet"} /\ r_pending' \in BOOLEAN
            /\ read_data' \in Seq(CellSet) /\ pipe' \in Seq(CellSet)
        BY <2>3, <3>3, ReceiveTypes
      <4>2. ReceiverType'
        BY <2>3, <4>1 DEF ConnectCompleted, TypeInv, ReceiverType
      <4>3. SenderType'
        BY <2>1, <2>3, <3>1, <3>3 DEF ConnectCompleted, TypeInv, SenderType
      <4>4. QED
        BY <4>1, <4>2, <4>3 DEF TypeInv
    <3>4. QED
      BY <2>3, <3>2, <3>3 DEF ConnectCompleted
  <2>4. QED
    BY <1>3, <2>1, <2>2, <2>3, ConnectSplit
<1>4. CASE ClientOpens
  <2>1. server \in End /\ link \in [End -> Links] /\ server' = server
    BY <1>4 DEF ClientOpens, TypeInv, SenderType
  <2>2. link' \in [End -> Links]
    BY <1>4, <2>1, ClientType DEF ClientOpens, Links
  <2>3. QED
    BY <1>4, <2>1, <2>2 DEF ClientOpens, TypeInv, SenderType, ReceiverType
<1>5. CASE DispatchSend
  BY <1>5 DEF DispatchSend, TypeInv, SenderType, ReceiverType
<1>6. CASE RunSend
  <2>1. w_pending \in BOOLEAN /\ w_packets \in Nat
        /\ Send(w_pending, Connected("sender"), w_packets)
    BY <1>6 DEF RunSend, TypeInv, SenderType
  <2>2. SenderType' /\ pipe' \in Seq(CellSet)
    BY <1>6, <2>1, SendTypes DEF RunSend, TypeInv, SenderType
  <2>3. ReceiverType'
    BY <1>6 DEF RunSend, TypeInv, ReceiverType
  <2>4. QED
    BY <2>2, <2>3 DEF TypeInv
<1>7. CASE WriteCompleted
  <2>1. w_packets - 1 \in Nat
    BY <1>7 DEF WriteCompleted, TypeInv, SenderType
  <2>2. Send(FALSE, Connected("sender"), w_packets - 1)
    BY <1>7 DEF WriteCompleted
  <2>3. SenderType' /\ pipe' \in Seq(CellSet)
    BY <1>7, <2>1, <2>2, SendTypes DEF WriteCompleted, TypeInv, SenderType
  <2>4. ReceiverType'
    BY <1>7 DEF WriteCompleted, TypeInv, ReceiverType
  <2>5. QED
    BY <2>3, <2>4 DEF TypeInv
<1>8. CASE ReadCompleted
  <2>1. r_buffer' = Cat(r_buffer, read_data) /\ read_data' = << >> /\ offset' = 0
    BY <1>8 DEF ReadCompleted, Cat
  <2>2. r_buffer' \in Seq(CellSet) /\ Len(r_buffer') \in Nat
    BY <2>1, CatType, LenProperties DEF TypeInv, ReceiverType
  <2>3. read_data' \in Seq(CellSet)
    BY <2>1, EmptySeq
  <2>4. offset' \in 0 .. Len(r_buffer')
    BY <2>1, <2>2
  <2>5. ReceiverType'
    BY <1>8, <2>2, <2>3, <2>4 DEF ReadCompleted, TypeInv, ReceiverType
  <2>6. QED
    BY <1>8, <2>5 DEF ReadCompleted, TypeInv, SenderType
<1>9. CASE ParseOne
  <2>1. ReceiverType
    BY DEF TypeInv
  <2>2. /\ SubSeq(r_buffer, offset + 1, offset + MessageSize) \in CellSeqs
        /\ offset' \in 0 .. Len(r_buffer)
    BY <1>9, <2>1, ParseTypes DEF ParseOne, CellSeqs
  <2>3. receive_queue' \in Seq(CellSeqs)
    BY <1>9, <2>1, <2>2, AppendProperties DEF ParseOne, ReceiverType
  <2>4. ReceiverType'
    BY <1>9, <2>1, <2>2, <2>3 DEF ParseOne, ReceiverType
  <2>5. QED
    BY <1>9, <2>4 DEF ParseOne, TypeInv, SenderType
<1>10. CASE ParseEnd
  <2>1. ReceiverType
    BY DEF TypeInv
  <2>2. r_buffer' \in Seq(CellSet) /\ offset' = 0 /\ Len(r_buffer') \in Nat
    BY <1>10, <2>1, LeftoverType, LenProperties DEF ParseEnd
  <2>3. /\ read' \in {"none", "system", "packet"} /\ r_pending' \in BOOLEAN
        /\ read_data' \in Seq(CellSet) /\ pipe' \in Seq(CellSet)
    <3>1. r_pending \in BOOLEAN /\ Receive(r_pending, Connected("receiver"))
      BY <1>10, <2>1 DEF ParseEnd, ReceiverType
    <3>2. QED
      BY <3>1, ReceiveTypes
  <2>4. offset' \in 0 .. Len(r_buffer')
    BY <2>2
  <2>5. ReceiverType'
    BY <1>10, <2>1, <2>2, <2>3, <2>4 DEF ParseEnd, ReceiverType
  <2>6. QED
    BY <1>10, <2>3, <2>5 DEF ParseEnd, TypeInv, SenderType
<1>11. CASE SystemWrite
  <2> DEFINE m == Head(writes)
  <2>1. m \in Messages /\ writes' \in Seq(Messages) /\ w_buffer \in Messages
    BY <1>11, HeadTailProperties DEF SystemWrite, TypeInv, SenderType
  <2>2. PICK bytes \in {Cells(m), BytesAt(m, w_buffer)} : pipe' = pipe \o bytes
    BY <1>11 DEF SystemWrite
  <2> HIDE DEF m
  <2>3. bytes \in Seq(CellSet)
    <3>1. Size(m) \in Nat /\ Size(w_buffer) \in Nat /\ Cells(m) \in Seq(CellSet)
      BY <2>1, CellsType
    <3>2. \A i \in 1 .. Size(m) : <<w_buffer, i>> \in CellSet /\ Junk \in CellSet
      BY <2>1, <3>1 DEF CellSet, Junk
    <3>3. BytesAt(m, w_buffer) \in [1 .. Size(m) -> CellSet]
      BY <3>2 DEF BytesAt
    <3>4. BytesAt(m, w_buffer) \in Seq(CellSet)
      BY <3>1, <3>3
    <3>5. QED
      BY <2>2, <3>1, <3>4
  <2>4. pipe' \in Seq(CellSet)
    <3>1. pipe' = Cat(pipe, bytes)
      BY <2>2 DEF Cat
    <3>2. QED
      BY <2>3, <3>1, CatType DEF TypeInv
  <2>5. QED
    BY <1>11, <2>1, <2>4 DEF SystemWrite, TypeInv, SenderType, ReceiverType
<1>12. CASE SystemRead
  <2>1. read_data' \in Seq(CellSet) /\ pipe' \in Seq(CellSet)
    BY <1>12, TakeTypes DEF SystemRead, Takes, TypeInv
  <2>2. QED
    BY <1>12, <2>1 DEF SystemRead, TypeInv, SenderType, ReceiverType
<1>13. CASE ReceiveMessage
  <2>1. Head(receive_queue) \in CellSeqs /\ Tail(receive_queue) \in Seq(CellSeqs)
    BY <1>13, HeadTailProperties DEF ReceiveMessage, TypeInv, ReceiverType
  <2>2. received' \in Seq(CellSeqs) /\ receive_queue' \in Seq(CellSeqs)
    BY <1>13, <2>1, AppendProperties DEF ReceiveMessage, TypeInv, ReceiverType
  <2>3. QED
    BY <1>13, <2>2 DEF ReceiveMessage, TypeInv, SenderType, ReceiverType
<1>14. QED
  BY <1>1, <1>2, <1>3, <1>5, <1>6, <1>7, <1>8, <1>9, <1>10, <1>11, <1>12, <1>13, <1>4
     DEF Next, SenderStep, ReceiverStep

LEMMA TypeInit == Init => TypeInv
<1> SUFFICES ASSUME Init PROVE TypeInv
  OBVIOUS
<1>1. /\ << >> \in Seq(Messages) /\ << >> \in Seq(CellSet) /\ << >> \in Seq(CellSeqs)
      /\ Len(<< >>) = 0
  BY EmptySeq
<1>2. SenderType /\ pipe \in Seq(CellSet)
  BY <1>1 DEF Init, SenderType, Links
<1>3. /\ read_data \in Seq(CellSet) /\ r_buffer \in Seq(CellSet)
      /\ receive_queue \in Seq(CellSeqs) /\ received \in Seq(CellSeqs)
  BY <1>1 DEF Init
<1>4. offset \in 0 .. Len(r_buffer)
  BY <1>1 DEF Init
<1>5. read = "none" /\ r_pending = FALSE /\ parsing = FALSE
  BY DEF Init
<1>6. QED
  BY <1>2, <1>3, <1>4, <1>5 DEF TypeInv, ReceiverType

\* Every variable of the two ends and of the pipe keeps its type, on any system.
THEOREM TypeCorrect == Spec => []TypeOK
  BY TypeInit, TypeStep, TypeInvTypeOK, PTL DEF Spec

-----------------------------------------------------------------------------
(* The chain of reads and the writes in flight. *)

\* The part of the state that keeps the chain of reads going.
ReadInv == /\ server \in End /\ link \in [End -> Links]
           /\ read \in {"none", "system", "packet"}
           /\ parsing \in BOOLEAN /\ r_pending \in BOOLEAN
           /\ link["receiver"] # "up" => read = "none" /\ ~parsing
           /\ link["receiver"] = "up" => (read = "none" <=> parsing)
           /\ r_pending => \/ read # "none"
                           \/ link["receiver"] \in {"waiting", "packet"}

LEMMA ReadStep == ReadInv /\ [Next]_vars => ReadInv'
<1> SUFFICES ASSUME ReadInv, [Next]_vars PROVE ReadInv'
  OBVIOUS
<1> USE DEF ReadInv, senderVars, receiverVars
<1>1. CASE UNCHANGED vars
  BY <1>1 DEF vars
<1>2. ASSUME NEW m \in Messages, SendMessage(m) PROVE ReadInv'
  BY <1>2 DEF SendMessage
<1>3. CASE Connect
  <2>1. ASSUME ConnectPends PROVE ReadInv'
    BY <2>1 DEF ConnectPends, Links, End
  <2>2. ASSUME NEW end \in End, NEW pending, ConnectCompleted(end, pending),
               link[end] # "up", end = "receiver" => pending = FALSE
        PROVE  ReadInv'
    <3>1. link' = [link EXCEPT ![end] = "up"] /\ link' \in [End -> Links]
      BY <2>2 DEF ConnectCompleted, Links
    <3>2. CASE end = "sender"
      <4>1. link'["receiver"] = link["receiver"]
        BY <3>1, <3>2 DEF End
      <4>2. QED
        BY <2>2, <3>1, <3>2, <4>1 DEF ConnectCompleted
    <3>3. CASE end = "receiver"
      <4>1. link'["receiver"] = "up" /\ read = "none" /\ ~parsing
        BY <2>2, <3>1, <3>3 DEF End
      <4>2. Receive(FALSE, TRUE) /\ server' = server /\ parsing' = parsing
        BY <2>2, <3>3 DEF ConnectCompleted
      <4>3. read' \in {"packet", "system"} /\ r_pending' \in BOOLEAN
        BY <4>2 DEF Receive
      <4>4. QED
        BY <3>1, <4>1, <4>2, <4>3
    <3>4. QED
      BY <3>2, <3>3 DEF End
  <2>3. ASSUME NEW end \in End, ConnectAtOnce(end) PROVE ReadInv'
    <3>1. link[end] = "new" /\ ConnectCompleted(end, r_pending)
      BY <2>3 DEF ConnectAtOnce
    <3>2. end = "receiver" => r_pending = FALSE
      BY <3>1
    <3>3. QED
      BY <2>2, <3>1, <3>2
  <2>4. CASE ConnectPacket
    <3>1. link[server] = "packet" /\ ConnectCompleted(server, FALSE)
      BY <2>4 DEF ConnectPacket
    <3>2. QED
      BY <2>2, <3>1
  <2>5. QED
    BY <1>3, <2>1, <2>3, <2>4 DEF Connect
<1>4. CASE ClientOpens
  <2>1. Client \in End /\ Client # server /\ server' = server
    BY <1>4, ClientType DEF ClientOpens
  <2>2. /\ link' \in [End -> Links] /\ (link'["receiver"] = "up" <=> link["receiver"] = "up")
        /\ link["receiver"] \in {"waiting", "packet"} =>
             link'["receiver"] \in {"waiting", "packet"}
    BY <1>4, <2>1 DEF ClientOpens, Links, End
  <2>3. QED
    BY <1>4, <2>1, <2>2 DEF ClientOpens
<1>5. CASE SenderStep
  BY <1>5 DEF SenderStep, DispatchSend, RunSend, WriteCompleted, Send, Write
<1>6. CASE ReadCompleted
  BY <1>6 DEF ReadCompleted
<1>7. CASE ParseOne
  BY <1>7 DEF ParseOne
<1>8. CASE ParseEnd
  <2>1. Connected("receiver") /\ r_pending = FALSE
    BY <1>8 DEF ParseEnd, Connected
  <2>2. QED
    BY <1>8, <2>1 DEF ParseEnd, Receive
<1>9. CASE SystemWrite
  BY <1>9 DEF SystemWrite
<1>10. CASE SystemRead
  BY <1>10 DEF SystemRead
<1>11. CASE ReceiveMessage
  BY <1>11 DEF ReceiveMessage
<1>12. QED
  BY <1>1, <1>2, <1>3, <1>5, <1>6, <1>7, <1>8, <1>9, <1>10, <1>11, <1>4 DEF Next, ReceiverStep

\* Once the pipe is connected there is always exactly one read in flight or being
\* parsed: receive() is never skipped because of a stale is_pending, not even the one
\* ConnectNamedPipe left in the context it shares with the reads, and never starts a
\* second read.
THEOREM ReadsGoOn == Spec => []ReadChain
<1>1. Init => ReadInv
  BY DEF Init, ReadInv, Links, End
<1>2. ReadInv => ReadChain
  BY DEF ReadInv, ReadChain
<1>3. QED
  BY <1>1, <1>2, ReadStep, PTL DEF Spec

-----------------------------------------------------------------------------
\* With every write pending, one write is in flight at most: is_pending is set
\* from WriteFile until its packet has been handled.
WriteInv == /\ w_pending \in BOOLEAN /\ w_packets \in Nat
            /\ server \in End /\ link \in [End -> Links]
            /\ send_queue \in Seq(Messages)
            /\ writes = << >> \/ (writes = <<w_buffer>> /\ w_packets = 0 /\ w_pending)
            /\ w_packets = 0 \/ (w_packets = 1 /\ w_pending)

AlwaysPends == system.modes = {"pending"}

LEMMA SendStep ==
  ASSUME AlwaysPends, send_queue \in Seq(Messages), writes = << >>,
         NEW pending \in BOOLEAN, NEW up \in BOOLEAN,
         NEW packets \in Nat, packets = 0 \/ (packets = 1 /\ pending),
         Send(pending, up, packets), server' \in End, link' \in [End -> Links]
  PROVE  WriteInv'
<1>1. CASE pending \/ ~up \/ send_queue = << >>
  BY <1>1 DEF Send, WriteInv
<1>2. CASE ~pending /\ up /\ send_queue # << >>
  <2>1. /\ send_queue' = Tail(send_queue)
        /\ Write(Head(send_queue), pending, packets)
    BY <1>2 DEF Send
  <2>2. /\ writes' = Append(writes, Head(send_queue)) /\ w_buffer' = Head(send_queue)
        /\ w_pending' = TRUE /\ w_packets' = packets /\ packets = 0
    BY <1>2, <2>1 DEF Write, AlwaysPends
  <2>3. writes' = <<w_buffer'>>
    BY <2>2
  <2>4. send_queue' \in Seq(Messages)
    BY <1>2, <2>1, HeadTailProperties
  <2>5. QED
    BY <2>2, <2>3, <2>4 DEF WriteInv
<1>3. QED
  BY <1>1, <1>2

LEMMA WriteStep == AlwaysPends /\ WriteInv /\ [Next]_vars => WriteInv'
<1> SUFFICES ASSUME AlwaysPends, WriteInv, [Next]_vars PROVE WriteInv'
  OBVIOUS
<1> USE DEF senderVars, receiverVars
<1>1. CASE UNCHANGED vars
  BY <1>1 DEF vars, WriteInv
<1>2. ASSUME NEW m \in Messages, SendMessage(m) PROVE WriteInv'
  BY <1>2, AppendProperties DEF SendMessage, WriteInv
<1>3. ASSUME NEW pending \in BOOLEAN, NEW up \in BOOLEAN, pending = w_pending,
              Send(pending, up, w_packets), server' \in End, link' \in [End -> Links]
       PROVE  WriteInv'
  <2>1. CASE writes = << >>
    BY <1>3, <2>1, SendStep DEF WriteInv
  <2>2. CASE writes # << >>
    BY <1>3, <2>2 DEF Send, WriteInv
  <2>3. QED
    BY <2>1, <2>2
<1>4. CASE Connect
  <2>1. ASSUME ConnectPends PROVE WriteInv'
    BY <2>1 DEF ConnectPends, WriteInv, Links
  <2>2. ASSUME NEW end \in End, NEW pending, ConnectCompleted(end, pending)
        PROVE  WriteInv'
    <3>1. link' \in [End -> Links] /\ server' \in End
      BY <2>2 DEF ConnectCompleted, WriteInv, Links
    <3>2. CASE Send(w_pending, TRUE, w_packets)
      BY <1>3, <3>1, <3>2 DEF WriteInv
    <3>3. CASE UNCHANGED <<w_pending, w_packets, send_queue, w_buffer, writes>>
      BY <3>1, <3>3 DEF WriteInv
    <3>4. QED
      BY <2>2, <3>2, <3>3 DEF ConnectCompleted
  <2>3. QED
    BY <1>4, <2>1, <2>2 DEF Connect, ConnectAtOnce, ConnectPacket, WriteInv
<1>5. CASE ClientOpens
  <2>1. link' \in [End -> Links]
    BY <1>5, ClientType DEF ClientOpens, WriteInv, Links
  <2>2. QED
    BY <1>5, <2>1 DEF ClientOpens, WriteInv
<1>6. CASE DispatchSend
  BY <1>6 DEF DispatchSend, WriteInv
<1>7. CASE RunSend
  <2>1. /\ Send(w_pending, Connected("sender"), w_packets) /\ Connected("sender") \in BOOLEAN
        /\ UNCHANGED <<server, link>>
    BY <1>7, ConnectedType DEF RunSend, WriteInv, End
  <2>2. QED
    BY <1>3, <2>1 DEF WriteInv
<1>8. CASE WriteCompleted
  <2>1. writes = << >> /\ w_packets - 1 = 0
    BY <1>8 DEF WriteCompleted, WriteInv
  <2>2. /\ Send(FALSE, Connected("sender"), 0) /\ Connected("sender") \in BOOLEAN
        /\ UNCHANGED <<server, link>>
    BY <1>8, <2>1, ConnectedType DEF WriteCompleted, WriteInv, End
  <2>3. QED
    BY <2>1, <2>2, SendStep DEF WriteInv
<1>9. CASE ReceiverStep
  BY <1>9 DEF ReceiverStep, ReadCompleted, ParseOne, ParseEnd, WriteInv
<1>10. CASE SystemWrite
  <2>1. writes = <<w_buffer>> /\ w_packets = 0 /\ w_pending
    BY <1>10 DEF SystemWrite, WriteInv
  <2>2. writes' = Tail(<<w_buffer>>)
    BY <1>10, <2>1 DEF SystemWrite
  <2>3. writes' = << >>
    BY <2>2
  <2>4. QED
    BY <1>10, <2>1, <2>3 DEF SystemWrite, WriteInv
<1>11. CASE SystemRead
  BY <1>11 DEF SystemRead, WriteInv
<1>12. CASE ReceiveMessage
  BY <1>12 DEF ReceiveMessage, WriteInv
<1>13. QED
  BY <1>1, <1>2, <1>4, <1>6, <1>7, <1>8, <1>9, <1>10, <1>11, <1>12, <1>5
     DEF Next, SenderStep

LEMMA SystemStays == [Next]_vars => AlwaysPends' = AlwaysPends
<1>1. [Next]_vars => system' = system
  BY DEF Next, vars, SendMessage, ClientOpens, Connect, ConnectAtOnce, ConnectPends,
         ConnectPacket, ConnectCompleted, SenderStep, DispatchSend, RunSend, WriteCompleted,
         ReceiverStep, ReadCompleted, ParseOne, ParseEnd, SystemWrite, SystemRead, ReceiveMessage
<1>2. QED
  BY <1>1 DEF AlwaysPends

\* On a system where every WriteFile pends, the buffer of a pending write is never
\* replaced, whatever the interleaving of send() tasks and completions.
THEOREM PendingBufferStable == Spec => [](system.modes = {"pending"} => BufferStable)
<1>1. ASSUME Init PROVE WriteInv
  <2>1. << >> \in Seq(Messages)
    BY EmptySeq
  <2>2. /\ send_queue = << >> /\ writes = << >> /\ w_packets = 0
        /\ w_pending = FALSE /\ server \in End /\ link \in [End -> Links]
    BY <1>1 DEF Init, Links
  <2>3. QED
    BY <2>1, <2>2 DEF WriteInv
<1>2. (AlwaysPends => WriteInv) => (system.modes = {"pending"} => BufferStable)
  BY DEF WriteInv, BufferStable, AlwaysPends
<1>3. (AlwaysPends => WriteInv) /\ [Next]_vars => (AlwaysPends => WriteInv)'
  BY WriteStep, SystemStays
<1>4. QED
  BY <1>1, <1>2, <1>3, PTL DEF Spec

-----------------------------------------------------------------------------
(* What is in the channel. *)

\* the messages parsed so far, and those accepted and not parsed yet
Parsed == Cat(received, receive_queue)
Unseen == SubSeq(sent, Len(Parsed) + 1, Len(sent))

\* the cells on their way: at the sender and in the pipe, and all of them
Sending == Cat(pipe, Cat(AllCellsOf(writes), AllCellsOf(send_queue)))
Rest == Cat(Leftover, Cat(read_data, Sending))

LEMMA SendingType ==
  ASSUME SenderType, pipe \in Seq(CellSet)
  PROVE  /\ AllCellsOf(writes) \in Seq(CellSet) /\ AllCellsOf(send_queue) \in Seq(CellSet)
         /\ Cat(AllCellsOf(writes), AllCellsOf(send_queue)) \in Seq(CellSet)
         /\ Sending \in Seq(CellSet)
<1>1. AllCellsOf(writes) \in Seq(CellSet) /\ AllCellsOf(send_queue) \in Seq(CellSet)
  BY AllCellsType DEF SenderType
<1>2. Cat(AllCellsOf(writes), AllCellsOf(send_queue)) \in Seq(CellSet)
  BY <1>1, CatType
<1>3. QED
  BY <1>1, <1>2, CatType DEF Sending

LEMMA CellsRegroup ==
  \A r, s, t \in Seq(CellSet) : Cat(Cat(r, s), t) = Cat(r, Cat(s, t))
  BY CatAssociative

\* send() only moves cells along
LEMMA SendKeeps ==
  ASSUME SenderType, pipe \in Seq(CellSet), NEW pending, NEW up, NEW packets,
         Send(pending, up, packets)
  PROVE  Sending' = Sending
<1>1. CASE UNCHANGED <<send_queue, w_buffer, writes, pipe>>
  BY <1>1 DEF Sending
<1>2. CASE send_queue # << >> /\ send_queue' = Tail(send_queue)
           /\ Write(Head(send_queue), pending, packets)
  <2> DEFINE m == Head(send_queue)
             q == AllCellsOf(Tail(send_queue))
             w == AllCellsOf(writes)
             c == Cells(m)
  <2>1. m \in Messages /\ Tail(send_queue) \in Seq(Messages) /\ writes \in Seq(Messages)
    BY <1>2, HeadTailProperties DEF SenderType
  <2>2. AllCellsOf(send_queue) = Cat(c, q)
    BY <1>2, AllCellsHead DEF SenderType
  <2>3. c \in Seq(CellSet) /\ q \in Seq(CellSet) /\ w \in Seq(CellSet)
    BY <2>1, CellsType, AllCellsType
  <2>4. AllCellsOf(send_queue') = q
    BY <1>2
  <2>5. Write(m, pending, packets)
    BY <1>2
  <2>6. Sending = Cat(pipe, Cat(w, Cat(c, q)))
    BY <2>2 DEF Sending
  <2>7. Sending' = Cat(pipe', Cat(AllCellsOf(writes'), q))
    BY <2>4 DEF Sending
  <2> HIDE DEF c, q, w, m
  <2>8. CASE writes = << >> /\ pipe' = pipe \o c /\ writes' = writes
    <3>1. pipe' = Cat(pipe, c)
      BY <2>8 DEF Cat
    <3>2. w = << >> /\ AllCellsOf(writes') = << >>
      BY <2>8, AllCellsEmpty DEF w
    <3>3. Cat(w, Cat(c, q)) = Cat(c, q) /\ Cat(AllCellsOf(writes'), q) = q
      BY <2>3, <3>2, CatType, CatEmpty
    <3>4. Cat(Cat(pipe, c), q) = Cat(pipe, Cat(c, q))
      BY <2>3, CellsRegroup
    <3>5. QED
      BY <2>6, <2>7, <3>1, <3>3, <3>4
  <2>9. CASE writes' = Append(writes, m) /\ pipe' = pipe
    <3>1. AllCellsOf(writes') = Cat(w, c)
      BY <2>1, <2>9, AllCellsAppend DEF w, c
    <3>2. Cat(Cat(w, c), q) = Cat(w, Cat(c, q))
      BY <2>3, CellsRegroup
    <3>3. QED
      BY <2>6, <2>7, <2>9, <3>1, <3>2
  <2>10. QED
    BY <2>5, <2>8, <2>9 DEF Write, c
<1>3. QED
  BY <1>1, <1>2 DEF Send

\* the system takes the bytes of the oldest pending write, if they are still there
LEMMA SystemWriteKeeps ==
  ASSUME SenderType, pipe \in Seq(CellSet), BufferStable, SystemWrite
  PROVE  Sending' = Sending
<1> DEFINE m == Head(writes)
           q == AllCellsOf(send_queue)
           w == AllCellsOf(Tail(writes))
           c == Cells(m)
<1>1. m \in Messages /\ Tail(writes) \in Seq(Messages) /\ send_queue \in Seq(Messages)
  BY HeadTailProperties DEF SenderType, SystemWrite
<1>2. AllCellsOf(writes) = Cat(c, w)
  BY AllCellsHead DEF SenderType, SystemWrite
<1>3. c \in Seq(CellSet) /\ q \in Seq(CellSet) /\ w \in Seq(CellSet)
  BY <1>1, CellsType, AllCellsType
<1>4. writes = <<w_buffer>>
  BY DEF BufferStable, SystemWrite
<1>5. m = w_buffer
  BY <1>4
<1>6. BytesAt(m, w_buffer) = c
  <2>1. BytesAt(m, m) = Cells(m)
    BY DEF BytesAt, Cells
  <2>2. QED
    BY <1>5, <2>1
<1>7. pipe' = Cat(pipe, c) /\ writes' = Tail(writes) /\ send_queue' = send_queue
  BY <1>6 DEF SystemWrite, Cat
<1>8. Sending = Cat(pipe, Cat(Cat(c, w), q)) /\ Sending' = Cat(Cat(pipe, c), Cat(w, q))
  BY <1>2, <1>7 DEF Sending
<1> HIDE DEF m, q, w, c
<1>9. Cat(Cat(c, w), q) = Cat(c, Cat(w, q)) /\ Cat(w, q) \in Seq(CellSet)
  BY <1>3, CellsRegroup, CatType
<1>10. Cat(Cat(pipe, c), Cat(w, q)) = Cat(pipe, Cat(c, Cat(w, q)))
  BY <1>3, <1>9, CellsRegroup
<1>11. QED
  BY <1>8, <1>9, <1>10

\* a read moves cells from the front of the pipe
LEMMA TakeKeeps ==
  ASSUME SenderType, pipe \in Seq(CellSet), Takes, read_data = << >>,
         UNCHANGED <<writes, send_queue>>
  PROVE  Cat(read_data', Sending') = Cat(read_data, Sending)
<1> DEFINE x == Cat(AllCellsOf(writes), AllCellsOf(send_queue))
<1>1. x \in Seq(CellSet) /\ Sending \in Seq(CellSet)
  BY SendingType
<1>2. read_data' \in Seq(CellSet) /\ pipe' \in Seq(CellSet) /\ Cat(read_data', pipe') = pipe
  BY TakeTypes
<1>3. Sending = Cat(pipe, x) /\ Sending' = Cat(pipe', x)
  BY DEF Sending
<1> HIDE DEF x
<1>4. Cat(Cat(read_data', pipe'), x) = Cat(read_data', Cat(pipe', x))
  BY <1>1, <1>2, CellsRegroup
<1>5. Cat(<< >>, Sending) = Sending
  BY <1>1, CatEmpty
<1>6. QED
  BY <1>2, <1>3, <1>4, <1>5

-----------------------------------------------------------------------------
(* The stream: the cells on their way are those of the messages not parsed. *)

\* messages are sent in order, and those parsed are the first ones, whole
OrderInv == /\ Len(Parsed) <= Len(sent)
            /\ \A i \in 1 .. Len(sent) : sent[i] = i
            /\ \A i \in 1 .. Len(Parsed) : Parsed[i] = Cells(sent[i])

RestInv == Rest = AllCellsOf(Unseen)

BufferInv == /\ read # "packet" => read_data = << >>
             /\ ~parsing => offset = 0

StreamInv == OrderInv /\ RestInv /\ BufferInv

LEMMA BufferStep == ReadInv /\ BufferInv /\ [Next]_vars => BufferInv'
<1> SUFFICES ASSUME ReadInv, BufferInv, [Next]_vars PROVE BufferInv'
  OBVIOUS
<1> USE DEF BufferInv, senderVars, receiverVars
<1>1. CASE UNCHANGED vars
  BY <1>1 DEF vars
<1>2. ASSUME NEW m \in Messages, SendMessage(m) PROVE BufferInv'
  BY <1>2 DEF SendMessage
<1>3. CASE Connect
  <2>1. ASSUME ConnectPends PROVE BufferInv'
    BY <2>1 DEF ConnectPends
  <2>2. ASSUME NEW end \in End, NEW pending, ConnectCompleted(end, pending), link[end] # "up"
        PROVE  BufferInv'
    <3>1. CASE end = "sender"
      BY <2>2, <3>1 DEF ConnectCompleted
    <3>2. CASE end = "receiver"
      <4>1. read_data = << >> /\ Receive(pending, TRUE) /\ UNCHANGED <<offset, parsing>>
        BY <2>2, <3>2 DEF ConnectCompleted, ReadInv
      <4>2. QED
        BY <4>1 DEF Receive
    <3>3. QED
      BY <3>1, <3>2 DEF End
  <2>3. QED
    BY <1>3, <2>1, <2>2 DEF Connect, ConnectAtOnce, ConnectPacket, ReadInv
<1>4. CASE ClientOpens
  BY <1>4 DEF ClientOpens
<1>5. CASE SenderStep
  BY <1>5 DEF SenderStep, DispatchSend, RunSend, WriteCompleted
<1>6. CASE ReadCompleted
  BY <1>6 DEF ReadCompleted
<1>7. CASE ParseOne
  BY <1>7 DEF ParseOne
<1>8. CASE ParseEnd
  BY <1>8 DEF ParseEnd, Receive, ReadInv
<1>9. CASE SystemWrite
  BY <1>9 DEF SystemWrite
<1>10. CASE SystemRead
  BY <1>10 DEF SystemRead
<1>11. CASE ReceiveMessage
  BY <1>11 DEF ReceiveMessage
<1>12. QED
  BY <1>1, <1>2, <1>3, <1>5, <1>6, <1>7, <1>8, <1>9, <1>10, <1>11, <1>4 DEF Next, ReceiverStep

LEMMA ParsedType ==
  ASSUME ReceiverType
  PROVE  Parsed \in Seq(CellSeqs) /\ Len(Parsed) \in Nat
<1>1. received \in Seq(CellSeqs) /\ receive_queue \in Seq(CellSeqs)
  BY DEF ReceiverType
<1>2. Parsed \in Seq(CellSeqs)
  BY <1>1, CatType DEF Parsed
<1>3. QED
  BY <1>2, LenProperties

LEMMA UnseenType ==
  ASSUME TypeInv, OrderInv
  PROVE  /\ Unseen \in Seq(Messages) /\ Len(Unseen) = Len(sent) - Len(Parsed)
         /\ Len(Parsed) \in 0 .. Len(sent) /\ Len(sent) \in Nat
<1>1. sent \in Seq(Messages) /\ Len(sent) \in Nat /\ Len(Parsed) \in Nat
  BY ParsedType, LenProperties DEF TypeInv, SenderType
<1>2. Len(Parsed) \in 0 .. Len(sent)
  BY <1>1 DEF OrderInv
<1>3. QED
  BY <1>1, <1>2, CatCut DEF Unseen

LEMMA RestType ==
  ASSUME TypeInv
  PROVE  /\ Leftover \in Seq(CellSet) /\ Sending \in Seq(CellSet) /\ read_data \in Seq(CellSet)
         /\ Cat(read_data, Sending) \in Seq(CellSet)
         /\ Rest \in Seq(CellSet)
<1>1. Leftover \in Seq(CellSet) /\ Sending \in Seq(CellSet) /\ read_data \in Seq(CellSet)
  BY LeftoverType, SendingType DEF TypeInv, ReceiverType
<1>2. Cat(read_data, Sending) \in Seq(CellSet)
  BY <1>1, CatType
<1>3. QED
  BY <1>1, <1>2, CatType DEF Rest

\* with nothing parsed, what is left of the buffer is the buffer
LEMMA LeftoverAtZero ==
  ASSUME NEW b \in Seq(CellSet)
  PROVE  SubSeq(b, 0 + 1, Len(b)) = b
<1>1. SubSeq(b, 1, Len(b)) = b
  BY SubSeqFull
<1>2. QED
  BY <1>1

-----------------------------------------------------------------------------
(* The steps that move cells along and those that parse or accept a message. *)

Moves == Rest' = Rest /\ Parsed' = Parsed /\ sent' = sent

LEMMA MovesKeep == OrderInv /\ RestInv /\ Moves => OrderInv' /\ RestInv'
  BY DEF Moves, OrderInv, RestInv, Unseen

LEMMA SenderMoves ==
  ASSUME TypeInv, BufferStable, SenderStep \/ SystemWrite
  PROVE  Moves
<1> USE DEF senderVars, receiverVars
<1>1. SenderType /\ pipe \in Seq(CellSet)
  BY DEF TypeInv
<1>2. Sending' = Sending
  <2>1. CASE DispatchSend
    BY <2>1 DEF DispatchSend, Sending
  <2>2. CASE RunSend
    <3>1. Send(w_pending, Connected("sender"), w_packets)
      BY <2>2 DEF RunSend
    <3>2. QED
      BY <1>1, <3>1, SendKeeps
  <2>3. CASE WriteCompleted
    <3>1. Send(FALSE, Connected("sender"), w_packets - 1)
      BY <2>3 DEF WriteCompleted
    <3>2. QED
      BY <1>1, <3>1, SendKeeps
  <2>4. CASE SystemWrite
    BY <1>1, <2>4, SystemWriteKeeps
  <2>5. QED
    BY <2>1, <2>2, <2>3, <2>4 DEF SenderStep
<1>3. UNCHANGED <<sent, read_data, r_buffer, offset, receive_queue, received>>
  BY DEF SenderStep, DispatchSend, RunSend, WriteCompleted, SystemWrite
<1>4. QED
  BY <1>2, <1>3 DEF Moves, Rest, Parsed, Leftover

LEMMA ConnectMoves ==
  ASSUME TypeInv, ReadInv, BufferInv, Connect \/ ClientOpens
  PROVE  Moves
<1> USE DEF senderVars, receiverVars
<1>1. SenderType /\ pipe \in Seq(CellSet) /\ server \in End
  BY DEF TypeInv, SenderType
<1>2. CASE ConnectPends \/ ClientOpens
  <2>1. /\ UNCHANGED <<sent, read_data, r_buffer, offset, receive_queue, received>>
        /\ UNCHANGED <<pipe, writes, send_queue>>
    BY <1>2 DEF ConnectPends, ClientOpens
  <2>2. QED
    BY <2>1 DEF Moves, Rest, Sending, Parsed, Leftover
<1>3. ASSUME NEW end \in End, NEW pending, ConnectCompleted(end, pending), link[end] # "up"
      PROVE  Moves
  <2>1. UNCHANGED <<sent, r_buffer, offset, receive_queue, received>>
    BY <1>3 DEF ConnectCompleted
  <2>2. Cat(read_data', Sending') = Cat(read_data, Sending)
    <3>1. CASE end = "sender"
      <4>1. Send(w_pending, TRUE, w_packets) /\ read_data' = read_data
        BY <1>3, <3>1 DEF ConnectCompleted
      <4>2. QED
        BY <1>1, <4>1, SendKeeps
    <3>2. CASE end = "receiver"
      <4>1. read_data = << >> /\ UNCHANGED <<writes, send_queue>> /\ Receive(pending, TRUE)
        BY <1>3, <3>2 DEF ConnectCompleted, ReadInv, BufferInv
      <4>2. CASE UNCHANGED <<read_data, pipe>>
        BY <4>1, <4>2 DEF Sending
      <4>3. CASE Takes
        BY <1>1, <4>1, <4>3, TakeKeeps
      <4>4. QED
        BY <4>1, <4>2, <4>3 DEF Receive, Takes
    <3>3. QED
      BY <3>1, <3>2 DEF End
  <2>3. QED
    BY <2>1, <2>2 DEF Moves, Rest, Parsed, Leftover
<1>4. QED
  BY <1>1, <1>2, <1>3 DEF Connect, ConnectAtOnce, ConnectPacket

LEMMA ReadMoves ==
  ASSUME TypeInv, BufferInv, ReadCompleted
  PROVE  Moves
<1> USE DEF receiverVars, senderVars
<1>1. r_buffer \in Seq(CellSet) /\ read_data \in Seq(CellSet) /\ Sending \in Seq(CellSet)
  BY SendingType DEF TypeInv, ReceiverType
<1>2. /\ offset = 0 /\ offset' = 0 /\ read_data' = << >>
      /\ r_buffer' = Cat(r_buffer, read_data)
  BY DEF ReadCompleted, BufferInv, Cat
<1>3. r_buffer' \in Seq(CellSet)
  BY <1>1, <1>2, CatType
<1>4. Leftover = r_buffer /\ Leftover' = r_buffer'
  BY <1>1, <1>2, <1>3, LeftoverAtZero DEF Leftover
<1>5. Sending' = Sending /\ Parsed' = Parsed /\ sent' = sent
  BY DEF ReadCompleted, Sending, Parsed
<1>6. Rest' = Cat(Cat(r_buffer, read_data), Cat(<< >>, Sending))
  BY <1>2, <1>4, <1>5 DEF Rest
<1>7. Cat(<< >>, Sending) = Sending
  BY <1>1, CatEmpty
<1>8. Cat(Cat(r_buffer, read_data), Sending) = Cat(r_buffer, Cat(read_data, Sending))
  BY <1>1, CellsRegroup
<1>9. QED
  BY <1>4, <1>5, <1>6, <1>7, <1>8 DEF Moves, Rest

LEMMA SystemReadMoves ==
  ASSUME TypeInv, BufferInv, SystemRead
  PROVE  Moves
<1> USE DEF receiverVars, senderVars
<1>1. Takes /\ read_data = << >> /\ UNCHANGED <<writes, send_queue>>
  BY DEF SystemRead, Takes, BufferInv
<1>2. Cat(read_data', Sending') = Cat(read_data, Sending)
  BY <1>1, TakeKeeps DEF TypeInv
<1>3. UNCHANGED <<r_buffer, offset, receive_queue, received, sent>>
  BY DEF SystemRead
<1>4. QED
  BY <1>2, <1>3 DEF Moves, Rest, Parsed, Leftover

LEMMA ParseEndMoves ==
  ASSUME TypeInv, ReadInv, BufferInv, ParseEnd
  PROVE  Moves
<1> USE DEF receiverVars, senderVars
<1>1. r_buffer' = Leftover /\ offset' = 0 /\ Leftover \in Seq(CellSet)
  BY LeftoverType DEF ParseEnd, TypeInv
<1>2. Leftover' = Leftover
  BY <1>1, LeftoverAtZero DEF Leftover
<1>3. read_data = << >> /\ UNCHANGED <<writes, send_queue>>
  BY DEF ParseEnd, BufferInv, ReadInv
<1>4. Cat(read_data', Sending') = Cat(read_data, Sending)
  <2>1. CASE UNCHANGED <<read_data, pipe>>
    BY <1>3, <2>1 DEF Sending
  <2>2. CASE Takes
    BY <1>3, <2>2, TakeKeeps DEF TypeInv
  <2>3. QED
    BY <2>1, <2>2 DEF ParseEnd, Receive, Takes
<1>5. UNCHANGED <<receive_queue, received, sent>>
  BY DEF ParseEnd
<1>6. QED
  BY <1>2, <1>4, <1>5 DEF Moves, Rest, Parsed

LEMMA ReceiveMessageMoves ==
  ASSUME TypeInv, ReceiveMessage
  PROVE  Moves
<1> USE DEF receiverVars, senderVars
<1>1. received \in Seq(CellSeqs) /\ receive_queue \in Seq(CellSeqs) /\ receive_queue # << >>
  BY DEF ReceiveMessage, TypeInv, ReceiverType
<1> DEFINE first == <<Head(receive_queue)>>
           others == Tail(receive_queue)
<1>2. first \in Seq(CellSeqs) /\ others \in Seq(CellSeqs)
  BY <1>1, HeadCatTail
<1>3. receive_queue = Cat(first, others)
  BY <1>1, HeadCatTail
<1>4. received' = Cat(received, first) /\ receive_queue' = others
  BY <1>1, HeadTailProperties, CatOne DEF ReceiveMessage
<1> HIDE DEF first, others
<1>5. Cat(Cat(received, first), others) = Cat(received, Cat(first, others))
  BY <1>1, <1>2, CatAssociative
<1>6. Parsed' = Parsed
  BY <1>3, <1>4, <1>5 DEF Parsed
<1>7. UNCHANGED <<sent, read_data, r_buffer, offset, pipe, writes, send_queue>>
  BY DEF ReceiveMessage
<1>8. QED
  BY <1>7, <1>6 DEF Moves, Rest, Sending, Leftover

LEMMA AcceptStep ==
  ASSUME TypeInv, OrderInv, RestInv, NEW m \in Messages, SendMessage(m)
  PROVE  OrderInv' /\ RestInv' /\ Parsed' = Parsed /\ sent' = Append(sent, m)
<1> USE DEF senderVars, receiverVars
<1>1. m = Len(sent) + 1 /\ sent' = Append(sent, m) /\ send_queue' = Append(send_queue, m)
  BY DEF SendMessage
<1>2. Parsed' = Parsed /\ Leftover' = Leftover
  BY DEF SendMessage, Parsed, Leftover
<1>3. sent \in Seq(Messages) /\ send_queue \in Seq(Messages) /\ Len(Parsed) \in Nat
  BY ParsedType DEF TypeInv, SenderType
<1>4. /\ sent' \in Seq(Messages) /\ Len(sent') = Len(sent) + 1
      /\ sent'[Len(sent) + 1] = m /\ \A i \in 1 .. Len(sent) : sent'[i] = sent[i]
  BY <1>1, <1>3, AppendProperties
<1>5. OrderInv'
  <2>1. Len(sent) \in Nat
    BY <1>3, LenProperties
  <2>2. Len(Parsed') <= Len(sent')
    BY <1>2, <1>3, <1>4, <2>1 DEF OrderInv
  <2>3. ASSUME NEW i \in 1 .. Len(sent') PROVE sent'[i] = i
    BY <1>1, <1>4, <2>1 DEF OrderInv
  <2>4. ASSUME NEW i \in 1 .. Len(Parsed') PROVE Parsed'[i] = Cells(sent'[i])
    BY <1>2, <1>3, <1>4, <2>1 DEF OrderInv
  <2>5. QED
    BY <2>2, <2>3, <2>4 DEF OrderInv
<1>6. Unseen' = Append(Unseen, m)
  <2>1. Len(sent) \in Nat /\ Len(Parsed) <= Len(sent)
    BY <1>3, LenProperties DEF OrderInv
  <2> DEFINE k == Len(Parsed) + 1
  <2>2. k \in 1 .. Len(sent') /\ Len(sent') \in k .. Len(sent')
    BY <1>3, <1>4, <2>1
  <2>3. SubSeq(sent', k, Len(sent')) =
          SubSeq(sent', k, Len(sent') - 1) \o <<sent'[Len(sent')]>>
    BY <1>4, <2>2, SubSeqRecursiveSecond
  <2>4. SubSeq(sent', k, Len(sent') - 1) = SubSeq(sent, k, Len(sent))
    <3>1. Len(sent') - 1 = Len(sent)
      BY <1>4, <2>1
    <3>2. \A i \in k .. Len(sent) : sent'[i] = sent[i]
      BY <1>3, <1>4
    <3>3. QED
      BY <3>1, <3>2
  <2>5. Unseen' = SubSeq(sent', k, Len(sent'))
    BY <1>2 DEF Unseen
  <2>6. sent'[Len(sent')] = m
    BY <1>4
  <2>7. Unseen \in Seq(Messages) /\ Unseen = SubSeq(sent, k, Len(sent))
    BY UnseenType DEF Unseen
  <2> HIDE DEF k
  <2>8. Unseen' = Unseen \o <<m>>
    BY <2>3, <2>4, <2>5, <2>6, <2>7
  <2>9. QED
    BY <2>7, <2>8, AppendIsConcat
<1>7. AllCellsOf(Unseen') = Cat(AllCellsOf(Unseen), Cells(m))
  BY <1>6, UnseenType, AllCellsAppend
<1>8. AllCellsOf(send_queue') = Cat(AllCellsOf(send_queue), Cells(m))
  BY <1>1, <1>3, AllCellsAppend
<1> DEFINE c == Cells(m)
           w == AllCellsOf(writes)
           q == AllCellsOf(send_queue)
<1>9. /\ c \in Seq(CellSet) /\ w \in Seq(CellSet) /\ q \in Seq(CellSet)
      /\ pipe \in Seq(CellSet) /\ Leftover \in Seq(CellSet) /\ read_data \in Seq(CellSet)
      /\ Cat(w, q) \in Seq(CellSet) /\ Sending \in Seq(CellSet)
      /\ Cat(read_data, Sending) \in Seq(CellSet)
  BY CellsType, SendingType, RestType DEF TypeInv
<1>10. UNCHANGED <<pipe, writes, read_data>>
  BY DEF SendMessage
<1>11. Sending = Cat(pipe, Cat(w, q)) /\ Sending' = Cat(pipe, Cat(w, Cat(q, c)))
  BY <1>8, <1>10 DEF Sending
<1>12. Rest = Cat(Leftover, Cat(read_data, Sending))
       /\ Rest' = Cat(Leftover, Cat(read_data, Sending'))
  BY <1>2, <1>10 DEF Rest
<1> HIDE DEF c, w, q
<1>13. Cat(w, Cat(q, c)) = Cat(Cat(w, q), c)
  BY <1>9, CellsRegroup
<1>14. Cat(pipe, Cat(Cat(w, q), c)) = Cat(Cat(pipe, Cat(w, q)), c)
  BY <1>9, CellsRegroup
<1>15. Sending' = Cat(Sending, c)
  BY <1>11, <1>13, <1>14
<1>16. Cat(read_data, Cat(Sending, c)) = Cat(Cat(read_data, Sending), c)
  BY <1>9, CellsRegroup
<1>17. Cat(Leftover, Cat(Cat(read_data, Sending), c))
         = Cat(Cat(Leftover, Cat(read_data, Sending)), c)
  BY <1>9, CellsRegroup
<1>18. Rest' = Cat(Rest, c)
  BY <1>12, <1>15, <1>16, <1>17
<1>19. RestInv'
  BY <1>7, <1>18 DEF RestInv, c
<1>20. QED
  BY <1>1, <1>2, <1>5, <1>19

-----------------------------------------------------------------------------
(* Parsing. *)

Piece == SubSeq(r_buffer, offset + 1, offset + MessageSize)

\* the message to parse is the first of those not seen yet
FirstUnseen == Head(Unseen)

\* one iteration of the loop cuts the piece off the front of what is on its way
LEMMA PieceCut ==
  ASSUME TypeInv, ParseOne
  PROVE  /\ Piece \in Seq(CellSet) /\ Len(Piece) = MessageSize
         /\ Rest' \in Seq(CellSet) /\ Rest = Cat(Piece, Rest')
         /\ sent' = sent /\ Parsed' = Append(Parsed, Piece)
<1> USE DEF senderVars, receiverVars
<1>1. ReceiverType /\ WholeMessage
  BY DEF TypeInv, ParseOne
<1>2. /\ Piece \in Seq(CellSet) /\ Len(Piece) = MessageSize
      /\ offset + MessageSize \in 0 .. Len(r_buffer)
  BY <1>1, ParseTypes DEF Piece
<1>3. Leftover = Cat(Piece, Leftover') /\ Leftover' \in Seq(CellSet)
  <2>1. r_buffer \in Seq(CellSet) /\ offset \in 0 .. Len(r_buffer) /\ Len(r_buffer) \in Nat
    BY <1>1, LenProperties DEF ReceiverType
  <2>2. MessageSize \in Nat
    BY <1>1, MessageSizeType
  <2>3. /\ offset + 1 \in 1 .. Len(r_buffer) + 1
        /\ offset + MessageSize \in (offset + 1) - 1 .. Len(r_buffer)
        /\ Len(r_buffer) \in offset + MessageSize .. Len(r_buffer)
    BY <1>2, <2>1, <2>2
  <2>4. SubSeq(r_buffer, offset + 1, offset + MessageSize)
          \o SubSeq(r_buffer, offset + MessageSize + 1, Len(r_buffer))
          = SubSeq(r_buffer, offset + 1, Len(r_buffer))
    BY <2>1, <2>3, ConcatAdjacentSubSeq
  <2>5. Leftover' = SubSeq(r_buffer, offset + MessageSize + 1, Len(r_buffer))
    BY DEF ParseOne, Leftover
  <2>6. SubSeq(r_buffer, offset + MessageSize + 1, Len(r_buffer)) \in Seq(CellSet)
    BY <1>2, <2>1, CatCut
  <2>7. QED
    BY <2>4, <2>5, <2>6 DEF Piece, Leftover, Cat
<1>4. Cat(read_data, Sending)' = Cat(read_data, Sending)
  BY DEF ParseOne, Sending
<1>5. Rest' = Cat(Leftover', Cat(read_data, Sending))
  BY <1>4 DEF Rest
<1>6. Cat(read_data, Sending) \in Seq(CellSet)
  BY RestType
<1>7. Leftover' \in Seq(CellSet) /\ Rest' \in Seq(CellSet)
  BY <1>3, <1>5, <1>6, CatType
<1>8. Cat(Cat(Piece, Leftover'), Cat(read_data, Sending)) = Cat(Piece, Rest')
  <2> DEFINE x == Cat(read_data, Sending)
             l == Leftover'
  <2>1. x \in Seq(CellSet) /\ l \in Seq(CellSet) /\ Rest' = Cat(l, x)
    BY <1>5, <1>7, <1>6
  <2> HIDE DEF x, l
  <2>2. Cat(Cat(Piece, l), x) = Cat(Piece, Cat(l, x))
    BY <1>2, <2>1, CellsRegroup
  <2>3. QED
    BY <2>1, <2>2 DEF x, l
<1>9. Rest = Cat(Piece, Rest')
  BY <1>3, <1>8 DEF Rest
<1>10. Parsed' = Append(Parsed, Piece) /\ sent' = sent
  <2>1. received' = received /\ receive_queue' = Append(receive_queue, Piece) /\ sent' = sent
    BY DEF ParseOne, Piece
  <2>2. Piece \in CellSeqs /\ received \in Seq(CellSeqs) /\ receive_queue \in Seq(CellSeqs)
    BY <1>1, <1>2 DEF ReceiverType, CellSeqs
  <2>3. Cat(received, Append(receive_queue, Piece)) = Append(Cat(received, receive_queue), Piece)
    BY <2>2, CatAppend
  <2>4. QED
    BY <2>1, <2>3 DEF Parsed
<1>11. QED
  BY <1>2, <1>7, <1>9, <1>10

\* that piece is the first message not seen yet, whole
LEMMA PieceWhole ==
  ASSUME TypeInv, OrderInv, RestInv, ParseOne
  PROVE  /\ Unseen # << >> /\ FirstUnseen \in Messages /\ Piece = Cells(FirstUnseen)
         /\ Rest' = AllCellsOf(Tail(Unseen))
<1>1. ReceiverType /\ Unparsed >= HeadCells
  BY DEF TypeInv, ParseOne, WholeMessage
<1>2. /\ Leftover \in Seq(CellSet) /\ Len(Leftover) \in Nat /\ Len(Leftover) >= 1
      /\ HeadCells \in Nat \ {0}
  BY <1>1, LeftoverType, LenProperties, SizesAssumption
<1>3. /\ Cat(read_data, Sending) \in Seq(CellSet) /\ Rest \in Seq(CellSet)
      /\ Rest = Cat(Leftover, Cat(read_data, Sending))
  BY RestType DEF Rest
<1>4. Rest[1] = Leftover[1] /\ Rest # << >>
  <2>1. Len(Cat(read_data, Sending)) \in Nat
    BY <1>3, LenProperties
  <2> DEFINE x == Cat(read_data, Sending)
  <2> HIDE DEF x
  <2>2. x \in Seq(CellSet) /\ Rest = Cat(Leftover, x) /\ Len(x) \in Nat
    BY <1>3, <2>1 DEF x
  <2>3. 1 \in 1 .. Len(Leftover) + Len(x)
    BY <1>2, <2>2
  <2>4. Cat(Leftover, x)[1] = Leftover[1]
    BY <1>2, <2>2, <2>3, CatValue
  <2>5. Len(Rest) = Len(Leftover) + Len(x)
    BY <1>2, <2>2, CatType
  <2>6. Len(Rest) # 0
    BY <1>2, <2>2, <2>5
  <2>7. QED
    BY <2>2, <2>4, <2>6, EmptySeq
<1>5. Unseen \in Seq(Messages) /\ Unseen # << >>
  BY <1>4, UnseenType, AllCellsEmpty DEF RestInv
<1>6. FirstUnseen \in Messages /\ Tail(Unseen) \in Seq(Messages)
  BY <1>5, HeadTailProperties DEF FirstUnseen
<1> DEFINE h == FirstUnseen
           c == Cells(h)
           others == AllCellsOf(Tail(Unseen))
<1>7. /\ c \in Seq(CellSet) /\ others \in Seq(CellSet) /\ c[1] = <<h, 1>>
      /\ Len(c) = Size(h) /\ Size(h) \in Nat \ {0}
  <2>1. /\ Size(h) \in Nat /\ Size(h) >= HeadCells /\ HeadCells \in Nat \ {0}
        /\ c \in Seq(CellSet) /\ Len(c) = Size(h) /\ c[1] = <<h, 1>>
    BY <1>6, CellsType
  <2>2. others \in Seq(CellSet)
    BY <1>6, AllCellsType
  <2> HIDE DEF h, c, others
  <2>3. QED
    BY <2>1, <2>2
<1>8. Rest = Cat(c, others)
  BY <1>5, AllCellsHead DEF RestInv, FirstUnseen
<1> HIDE DEF h, c, others
<1>9. Rest[1] = <<h, 1>>
  <2>1. Len(others) \in Nat
    BY <1>7, LenProperties
  <2>2. 1 \in 1 .. Len(c) + Len(others)
    BY <1>7, <2>1
  <2>3. Cat(c, others)[1] = c[1]
    BY <1>7, <2>2, CatValue
  <2>4. QED
    BY <1>7, <1>8, <2>3
<1>10. r_buffer[offset + 1] = <<h, 1>>
  <2>1. /\ offset \in Nat /\ Len(r_buffer) \in Nat /\ offset + 1 <= Len(r_buffer)
        /\ r_buffer \in Seq(CellSet)
    BY <1>1, LenProperties, SizesAssumption DEF ReceiverType, Unparsed
  <2>2. \A i \in offset + 1 .. Len(r_buffer) : r_buffer[i] \in CellSet
    BY <2>1, ElementOfSeq
  <2>3. SubSeq(r_buffer, offset + 1, Len(r_buffer))[1] = r_buffer[offset + 1 + 1 - 1]
    BY <2>1, <2>2, SubSeqProperties
  <2>4. Leftover[1] = r_buffer[offset + 1]
    BY <2>1, <2>3 DEF Leftover
  <2>5. QED
    BY <1>4, <1>9, <2>4
<1>11. MessageSize = Size(h)
  BY <1>6, <1>10 DEF MessageSize, Size, h
<1>12. /\ Piece \in Seq(CellSet) /\ Len(Piece) = MessageSize
       /\ Rest' \in Seq(CellSet) /\ Rest = Cat(Piece, Rest')
  BY PieceCut
<1>13. Cat(Piece, Rest') = Cat(c, others) /\ Len(Piece) = Len(c)
  BY <1>7, <1>8, <1>11, <1>12
<1>14. Piece = c /\ Rest' = others
  BY <1>7, <1>12, <1>13, CatCancel
<1>15. QED
  BY <1>5, <1>6, <1>14 DEF h, c, others

LEMMA ParseStep ==
  ASSUME TypeInv, OrderInv, RestInv, ParseOne
  PROVE  /\ OrderInv' /\ RestInv' /\ sent' = sent
         /\ Len(Parsed) + 1 \in 1 .. Len(sent)
         /\ Parsed' = Append(Parsed, Cells(sent[Len(Parsed) + 1]))
<1>1. /\ Unseen # << >> /\ FirstUnseen \in Messages /\ Piece = Cells(FirstUnseen)
      /\ Rest' = AllCellsOf(Tail(Unseen))
  BY PieceWhole
<1>2. Piece \in CellSeqs /\ Parsed' = Append(Parsed, Piece) /\ sent' = sent
  BY PieceCut DEF CellSeqs
<1>3. /\ Unseen \in Seq(Messages) /\ Len(Unseen) = Len(sent) - Len(Parsed)
      /\ Len(Parsed) \in 0 .. Len(sent) /\ Len(sent) \in Nat
  BY UnseenType
<1>4. Parsed \in Seq(CellSeqs)
  BY ParsedType DEF TypeInv
<1>5. Len(Parsed) + 1 \in 1 .. Len(sent)
  <2>1. Len(Unseen) # 0
    BY <1>1, <1>3, EmptySeq
  <2>2. QED
    BY <1>3, <2>1
<1>6. Len(sent) \in Len(Parsed) + 1 .. Len(sent) /\ sent \in Seq(Messages)
  BY <1>5 DEF TypeInv, SenderType
<1>7. /\ FirstUnseen = sent[Len(Parsed) + 1]
      /\ Tail(Unseen) = SubSeq(sent, (Len(Parsed) + 1) + 1, Len(sent))
  BY <1>5, <1>6, HeadTailOfSubSeq DEF Unseen, FirstUnseen
<1>8. /\ Len(Parsed') = Len(Parsed) + 1 /\ Parsed'[Len(Parsed) + 1] = Piece
      /\ \A i \in 1 .. Len(Parsed) : Parsed'[i] = Parsed[i]
  BY <1>2, <1>4, AppendProperties
<1>9. Unseen' = Tail(Unseen)
  BY <1>2, <1>7, <1>8 DEF Unseen
<1>10. RestInv'
  BY <1>1, <1>9 DEF RestInv
<1>11. OrderInv'
  <2>1. Len(Parsed') <= Len(sent')
    BY <1>2, <1>5, <1>8
  <2>2. ASSUME NEW i \in 1 .. Len(Parsed') PROVE Parsed'[i] = Cells(sent'[i])
    <3>1. CASE i \in 1 .. Len(Parsed)
      BY <1>2, <1>8, <3>1 DEF OrderInv
    <3>2. CASE i = Len(Parsed) + 1
      BY <1>1, <1>2, <1>7, <1>8, <3>2
    <3>3. QED
      BY <1>3, <1>8, <3>1, <3>2
  <2>3. \A i \in 1 .. Len(sent') : sent'[i] = i
    BY <1>2 DEF OrderInv
  <2>4. QED
    BY <2>1, <2>2, <2>3 DEF OrderInv
<1>12. QED
  BY <1>1, <1>2, <1>5, <1>7, <1>10, <1>11

-----------------------------------------------------------------------------
(* The inductive invariant and what follows from it. *)

ChannelInv == TypeInv /\ ReadInv /\ StreamInv

LEMMA ChannelInit == Init => ChannelInv
<1> SUFFICES ASSUME Init PROVE ChannelInv
  OBVIOUS
<1>1. TypeInv
  BY TypeInit
<1>2. /\ sent = << >> /\ received = << >> /\ receive_queue = << >> /\ pipe = << >>
      /\ writes = << >> /\ send_queue = << >> /\ read_data = << >> /\ r_buffer = << >>
      /\ offset = 0
  BY DEF Init
<1>3. << >> \in Seq(CellSet) /\ << >> \in Seq(CellSeqs) /\ Len(<< >>) = 0
      /\ Cat(<< >>, << >>) = << >>
  BY EmptySeq, CatEmpty
<1>4. Parsed = << >>
  BY <1>2, <1>3 DEF Parsed
<1>5. SubSeq(<< >>, 0 + 1, Len(<< >>)) = << >>
  BY <1>3, LeftoverAtZero
<1>6. Leftover = << >>
  BY <1>2, <1>5 DEF Leftover
<1>7. Unseen = << >>
  BY <1>2, <1>3, <1>4, <1>5 DEF Unseen
<1>8. Rest = << >>
  BY <1>2, <1>3, <1>6, AllCellsEmpty DEF Rest, Sending
<1>9. RestInv
  BY <1>7, <1>8, AllCellsEmpty DEF RestInv
<1>10. OrderInv
  BY <1>2, <1>3, <1>4 DEF OrderInv
<1>11. BufferInv /\ ReadInv
  BY DEF Init, BufferInv, ReadInv, Links, End
<1>12. QED
  BY <1>1, <1>9, <1>10, <1>11 DEF ChannelInv, StreamInv

\* every step moves cells along, accepts a message or parses one
LEMMA ChannelStep ==
  ASSUME ChannelInv, BufferStable, [Next]_vars
  PROVE  /\ OrderInv' /\ RestInv'
         /\ \/ Moves
            \/ \E m \in Messages : Parsed' = Parsed /\ sent' = Append(sent, m)
            \/ /\ ParseOne /\ sent' = sent /\ Len(Parsed) + 1 \in 1 .. Len(sent)
               /\ Parsed' = Append(Parsed, Cells(sent[Len(Parsed) + 1]))
<1> USE DEF ChannelInv, StreamInv
<1>1. CASE UNCHANGED vars
  <2>1. Moves
    BY <1>1 DEF vars, senderVars, receiverVars, Moves, Rest, Sending, Leftover, Parsed
  <2>2. QED
    BY <2>1, MovesKeep
<1>2. ASSUME NEW m \in Messages, SendMessage(m)
      PROVE  OrderInv' /\ RestInv' /\ Parsed' = Parsed /\ sent' = Append(sent, m)
  BY <1>2, AcceptStep
<1>3. CASE SenderStep \/ SystemWrite
  BY <1>3, SenderMoves, MovesKeep
<1>4. CASE Connect \/ ClientOpens
  BY <1>4, ConnectMoves, MovesKeep
<1>5. CASE ReadCompleted
  BY <1>5, ReadMoves, MovesKeep
<1>6. CASE ParseOne
  BY <1>6, ParseStep
<1>7. CASE ParseEnd
  BY <1>7, ParseEndMoves, MovesKeep
<1>8. CASE SystemRead
  BY <1>8, SystemReadMoves, MovesKeep
<1>9. CASE ReceiveMessage
  BY <1>9, ReceiveMessageMoves, MovesKeep
<1>10. QED
  BY <1>1, <1>2, <1>3, <1>5, <1>6, <1>7, <1>8, <1>9, <1>4 DEF Next, ReceiverStep

LEMMA ChannelInvStep == ChannelInv /\ BufferStable /\ [Next]_vars => ChannelInv'
<1> SUFFICES ASSUME ChannelInv, BufferStable, [Next]_vars PROVE ChannelInv'
  OBVIOUS
<1>1. TypeInv' /\ ReadInv' /\ BufferInv'
  BY TypeStep, ReadStep, BufferStep DEF ChannelInv, StreamInv
<1>2. OrderInv' /\ RestInv'
  BY ChannelStep
<1>3. QED
  BY <1>1, <1>2 DEF ChannelInv, StreamInv

\* six sequences joined from the right and from the left
LEMMA CatSix ==
  ASSUME NEW a \in Seq(CellSet), NEW b \in Seq(CellSet), NEW c \in Seq(CellSet),
         NEW d \in Seq(CellSet), NEW e \in Seq(CellSet), NEW f \in Seq(CellSet)
  PROVE  Cat(a, Cat(b, Cat(c, Cat(d, Cat(e, f)))))
           = Cat(Cat(Cat(Cat(Cat(a, b), c), d), e), f)
<1>1. /\ Cat(a, b) \in Seq(CellSet) /\ Cat(e, f) \in Seq(CellSet)
      /\ Cat(d, Cat(e, f)) \in Seq(CellSet) /\ Cat(c, Cat(d, Cat(e, f))) \in Seq(CellSet)
      /\ Cat(Cat(a, b), c) \in Seq(CellSet) /\ Cat(Cat(Cat(a, b), c), d) \in Seq(CellSet)
  BY CatType
<1>2. Cat(a, Cat(b, Cat(c, Cat(d, Cat(e, f))))) = Cat(Cat(a, b), Cat(c, Cat(d, Cat(e, f))))
  BY <1>1, CellsRegroup
<1>3. Cat(Cat(a, b), Cat(c, Cat(d, Cat(e, f)))) = Cat(Cat(Cat(a, b), c), Cat(d, Cat(e, f)))
  BY <1>1, CellsRegroup
<1>4. Cat(Cat(Cat(a, b), c), Cat(d, Cat(e, f))) = Cat(Cat(Cat(Cat(a, b), c), d), Cat(e, f))
  BY <1>1, CellsRegroup
<1>5. Cat(Cat(Cat(Cat(a, b), c), d), Cat(e, f)) = Cat(Cat(Cat(Cat(Cat(a, b), c), d), e), f)
  BY <1>1, CellsRegroup
<1>6. QED
  BY <1>2, <1>3, <1>4, <1>5

\* what was parsed and what is on its way make up what was accepted
LEMMA NothingLostInv == ChannelInv => NothingLost
<1> SUFFICES ASSUME ChannelInv PROVE NothingLost
  OBVIOUS
<1> USE DEF ChannelInv, StreamInv
<1>1. /\ sent \in Seq(Messages) /\ Len(Parsed) \in 0 .. Len(sent) /\ Len(sent) \in Nat
      /\ Parsed \in Seq(CellSeqs) /\ Unseen \in Seq(Messages)
  BY UnseenType, ParsedType DEF TypeInv, SenderType
<1> DEFINE seen == SubSeq(sent, 1, Len(Parsed))
<1>2. seen \in Seq(Messages) /\ Len(seen) = Len(Parsed) /\ Cat(seen, Unseen) = sent
  BY <1>1, CatCut DEF Unseen
<1>3. \A i \in 1 .. Len(Parsed) : seen[i] = sent[i]
  BY <1>1
<1> HIDE DEF seen
<1>4. Mapped(CellsFn, seen) = Parsed
  <2>1. \A m \in Messages : CellsFn[m] = Cells(m) /\ Cells(m) \in CellSeqs
    BY CellsType DEF CellsFn, CellSeqs
  <2>2. IntoSet(CellsFn, Messages, CellSeqs)
    BY <2>1 DEF IntoSet, CellsFn
  <2>3. /\ Mapped(CellsFn, seen) \in Seq(CellSeqs)
        /\ Len(Mapped(CellsFn, seen)) = Len(Parsed)
        /\ \A i \in 1 .. Len(Parsed) : Mapped(CellsFn, seen)[i] = CellsFn[seen[i]]
    BY <1>2, <2>2, MappedType
  <2>4. \A i \in 1 .. Len(Parsed) : seen[i] \in Messages
    BY <1>2, ElementOfSeq
  <2>5. \A i \in 1 .. Len(Parsed) : Mapped(CellsFn, seen)[i] = Parsed[i]
    BY <1>3, <2>1, <2>3, <2>4 DEF OrderInv
  <2>6. QED
    BY <1>1, <2>3, <2>5, SeqEqual
<1>5. AllCellsOf(seen) = FlattenSeq(Parsed) /\ AllCellsOf(seen) \in Seq(CellSet)
  BY <1>2, <1>4, AllCellsJoined, AllCellsType DEF JoinMap
<1>6. AllCellsOf(sent) = Cat(FlattenSeq(Parsed), Rest)
  <2>1. AllCellsOf(Cat(seen, Unseen)) = Cat(AllCellsOf(seen), AllCellsOf(Unseen))
    BY <1>1, <1>2, AllCellsCat
  <2>2. QED
    BY <1>2, <1>5, <2>1 DEF RestInv
<1>7. /\ Leftover \in Seq(CellSet) /\ read_data \in Seq(CellSet) /\ pipe \in Seq(CellSet)
      /\ AllCellsOf(writes) \in Seq(CellSet) /\ AllCellsOf(send_queue) \in Seq(CellSet)
  BY RestType, SendingType DEF TypeInv
<1>8. AllCellsOf(sent) =
        Cat(Cat(Cat(Cat(Cat(FlattenSeq(Parsed), Leftover), read_data), pipe),
                AllCellsOf(writes)), AllCellsOf(send_queue))
  <2>1. FlattenSeq(Parsed) \in Seq(CellSet)
    BY <1>5
  <2> DEFINE w == AllCellsOf(writes)
             q == AllCellsOf(send_queue)
             f == FlattenSeq(Parsed)
  <2>2. AllCellsOf(sent) = Cat(f, Cat(Leftover, Cat(read_data, Cat(pipe, Cat(w, q)))))
    BY <1>6 DEF Rest, Sending
  <2>3. f \in Seq(CellSet) /\ w \in Seq(CellSet) /\ q \in Seq(CellSet)
    BY <1>7, <2>1
  <2> HIDE DEF f, w, q
  <2>4. Leftover \in Seq(CellSet) /\ read_data \in Seq(CellSet) /\ pipe \in Seq(CellSet)
    BY <1>7
  <2>5. Cat(f, Cat(Leftover, Cat(read_data, Cat(pipe, Cat(w, q)))))
          = Cat(Cat(Cat(Cat(Cat(f, Leftover), read_data), pipe), w), q)
    BY <2>3, <2>4, CatSix
  <2>6. QED
    BY <2>2, <2>5 DEF f, w, q
<1>9. QED
  BY <1>8 DEF NothingLost, Cat, Parsed, Leftover

LEMMA MessageWholeInv == ChannelInv => MessageWhole
<1> SUFFICES ASSUME ChannelInv PROVE MessageWhole
  OBVIOUS
<1> USE DEF ChannelInv, StreamInv
<1>1. /\ received \in Seq(CellSeqs) /\ receive_queue \in Seq(CellSeqs)
      /\ Len(received) \in Nat /\ Len(receive_queue) \in Nat
      /\ DOMAIN receive_queue = 1 .. Len(receive_queue)
  BY LenProperties DEF TypeInv, ReceiverType
<1>2. /\ sent \in Seq(Messages) /\ Len(Parsed) <= Len(sent) /\ Len(sent) \in Nat
      /\ Len(Parsed) = Len(received) + Len(receive_queue)
  BY <1>1, CatType, LenProperties DEF TypeInv, SenderType, OrderInv, Parsed
<1>3. ASSUME NEW i \in DOMAIN receive_queue
      PROVE  \E m \in Messages : receive_queue[i] = Cells(m)
  <2>1. Len(received) + i \in 1 .. Len(received) + Len(receive_queue)
        /\ ~(Len(received) + i <= Len(received)) /\ (Len(received) + i) - Len(received) = i
    BY <1>1
  <2>2. Parsed[Len(received) + i] = receive_queue[i]
    BY <1>1, <2>1, CatValue DEF Parsed
  <2>3. Len(received) + i \in 1 .. Len(Parsed) /\ Len(received) + i \in 1 .. Len(sent)
    BY <1>1, <1>2, <2>1
  <2>4. sent[Len(received) + i] \in Messages
    BY <1>2, <2>3, ElementOfSeq
  <2>5. QED
    BY <2>2, <2>3, <2>4 DEF OrderInv
<1>4. QED
  BY <1>3 DEF MessageWhole

-----------------------------------------------------------------------------
(* The refinement. *)

LEMMA MessageOfCells ==
  ASSUME NEW m \in Messages
  PROVE  MessageOf(Cells(m)) = m
<1>1. \E n \in Messages : Cells(m) = Cells(n)
  OBVIOUS
<1>2. \A n \in Messages : Cells(m) = Cells(n) => n = m
  BY CellsDiffer
<1>3. QED
  BY <1>1, <1>2 DEF MessageOf

\* the messages delivered are the first ones sent
LEMMA DeliveredValue ==
  ASSUME ReceiverType
  PROVE  Delivered = [i \in 1 .. Len(Parsed) |-> MessageOf(Parsed[i])]
<1>1. DOMAIN Parsed = 1 .. Len(Parsed)
  BY ParsedType, LenProperties
<1>2. QED
  BY <1>1 DEF Delivered, Parsed, Cat

LEMMA StreamStep ==
  ASSUME ChannelInv, BufferStable, [Next]_vars
  PROVE  [Stream!Next]_(Stream!vars)
<1> USE DEF ChannelInv, StreamInv
<1>1. CASE Moves
  <2>1. Delivered' = Delivered /\ sent' = sent
    BY <1>1 DEF Moves, Delivered, Parsed, Cat
  <2>2. QED
    BY <2>1 DEF Stream!vars
<1>2. ASSUME NEW m \in Messages, Parsed' = Parsed, sent' = Append(sent, m)
      PROVE  Stream!Send(m)
  BY <1>2 DEF Stream!Send, Delivered, Parsed, Cat
<1>3. CASE /\ sent' = sent /\ Len(Parsed) + 1 \in 1 .. Len(sent)
           /\ Parsed' = Append(Parsed, Cells(sent[Len(Parsed) + 1]))
  <2> DEFINE k == Len(Parsed)
             m == sent[k + 1]
             d == [i \in 1 .. k |-> MessageOf(Parsed[i])]
  <2>1. k \in Nat /\ Parsed \in Seq(CellSeqs) /\ sent \in Seq(Messages)
    BY ParsedType DEF TypeInv, SenderType
  <2>2. m \in Messages /\ Cells(m) \in CellSeqs
    BY <1>3, <2>1, ElementOfSeq, CellsType DEF CellSeqs
  <2>3. /\ Len(Parsed') = k + 1 /\ Parsed'[k + 1] = Cells(m)
        /\ \A i \in 1 .. k : Parsed'[i] = Parsed[i]
    BY <1>3, <2>1, <2>2, AppendProperties
  <2>4. Delivered = d
    BY DeliveredValue DEF TypeInv
  <2>5. ReceiverType'
    BY TypeStep DEF TypeInv
  <2>6. Delivered' = [i \in 1 .. Len(Parsed') |-> MessageOf(Parsed'[i])]
    <3>1. Len(Parsed') \in Nat /\ Parsed' \in Seq(CellSeqs)
      BY <1>3, <2>1, <2>2, AppendProperties
    <3>2. DOMAIN Parsed' = 1 .. Len(Parsed')
      BY <3>1, LenProperties
    <3>3. QED
      BY <3>2 DEF Delivered, Parsed, Cat
  <2>7. Delivered' = Append(d, m)
    <3>1. MessageOf(Parsed'[k + 1]) = m
      BY <2>2, <2>3, MessageOfCells
    <3>2. Delivered' = [i \in 1 .. k + 1 |-> IF i = k + 1 THEN m ELSE MessageOf(Parsed[i])]
      BY <2>1, <2>3, <2>6, <3>1
    <3>3. Len(d) = k /\ DOMAIN d = 1 .. k /\ \A i \in 1 .. k : d[i] = MessageOf(Parsed[i])
      BY <2>1
    <3> HIDE DEF d
    <3>4. Append(d, m) = [i \in 1 .. k + 1 |-> IF i = k + 1 THEN m ELSE d[i]]
      BY <2>1, <3>3
    <3>5. QED
      BY <2>1, <3>2, <3>3, <3>4
  <2>8. Len(d) = k /\ k < Len(sent)
    BY <1>3, <2>1
  <2>9. Stream!Deliver
    BY <1>3, <2>4, <2>7, <2>8 DEF Stream!Deliver
  <2>10. QED
    BY <2>9 DEF Stream!Next
<1>4. QED
  BY <1>1, <1>2, <1>3, ChannelStep DEF Stream!Next

LEMMA StreamInit == Init => Stream!Init
<1> SUFFICES ASSUME Init PROVE Stream!Init
  OBVIOUS
<1>1. ChannelInv /\ sent = << >>
  BY ChannelInit DEF Init
<1>2. Parsed = << >>
  <2>1. Len(Parsed) = 0
    BY <1>1, UnseenType DEF ChannelInv, StreamInv
  <2>2. QED
    BY <1>1, <2>1, ParsedType, EmptySeq DEF ChannelInv, TypeInv
<1>3. Delivered = << >>
  BY <1>2 DEF Delivered, Parsed, Cat
<1>4. QED
  BY <1>1, <1>3 DEF Stream!Init

\* As long as no write loses its buffer, no byte is lost, duplicated or reordered
\* between send_message and receive_message, whatever the sizes of the messages,
\* of the reads and of the pipe.
THEOREM StableNothingLost == Spec /\ []BufferStable => []NothingLost
  BY ChannelInit, ChannelInvStep, NothingLostInv, PTL DEF Spec

\* As long as no write loses its buffer, every message in the receiver's queue is
\* one that was sent, complete.
THEOREM StableMessageWhole == Spec /\ []BufferStable => []MessageWhole
  BY ChannelInit, ChannelInvStep, MessageWholeInv, PTL DEF Spec

\* As long as no write loses its buffer, the channel implements the abstract
\* stream: each message comes out once, whole, in the order of send_message.
THEOREM StableStream == Spec /\ []BufferStable => ImplementsMessageStream
<1>1. Spec /\ []BufferStable => []ChannelInv
  BY ChannelInit, ChannelInvStep, PTL DEF Spec
<1>2. ChannelInv /\ BufferStable /\ [Next]_vars => [Stream!Next]_(Stream!vars)
  BY StreamStep
<1>3. QED
  BY <1>1, <1>2, StreamInit, PTL DEF Spec, ImplementsMessageStream, Stream!Spec

LEMMA PendingStable == Spec /\ AlwaysPends => []BufferStable
<1>1. AlwaysPends /\ [Next]_vars => AlwaysPends'
  BY SystemStays
<1>2. Spec /\ AlwaysPends => []AlwaysPends
  BY <1>1, PTL DEF Spec
<1>3. Spec => [](AlwaysPends => BufferStable)
  BY PendingBufferStable DEF AlwaysPends
<1>4. QED
  BY <1>2, <1>3, PTL

\* On a system where every WriteFile pends the buffer is stable, so no byte is
\* lost, duplicated or reordered.
THEOREM PendingNothingLost == Spec /\ system.modes = {"pending"} => []NothingLost
  BY PendingStable, StableNothingLost DEF AlwaysPends

\* On a system where every WriteFile pends the channel implements the abstract
\* stream: whatever the interleaving of send_message, send() tasks, completions,
\* reads and receive_message, messages come out whole, once, in order.
THEOREM PendingStream == Spec /\ system.modes = {"pending"} => ImplementsMessageStream
  BY PendingStable, StableStream DEF AlwaysPends
=============================================================================
