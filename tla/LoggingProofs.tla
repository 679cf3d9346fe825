----------------------------- MODULE LoggingProofs ----------------------------
(* TLAPS proofs about Singleton, for any threads and any memory, and about       *)
(* Logging: what Singleton guarantees also holds for the log manager, and        *)
(* file_channel keeps the lines, for any threads and lines.                      *)
EXTENDS Logging, FiniteSetTheorems, SequenceTheorems, TLAPS

(* The singleton alone. *)

Held == {"recheck", "new", "construct", "store", "exchange", "delete"}
Making == {"construct", "store"}

\* The mutex is owned by the one thread between locking and unlocking; while a
\* thread makes or deletes an object nothing is published; what exists is what is
\* published, and what the owner is making or deleting.
LockInv == /\ mutex \in Thread \cup {Null}
           /\ pc = [t \in Thread |-> pc[t]]
           /\ pt \in [Thread -> Address \cup {Null}]
           /\ \A t \in Thread : pc[t] \in Held <=> mutex = t

MemoryInv == /\ instance \in Address \cup {Null} /\ alive \subseteq Address
             /\ built \subseteq alive
             /\ instance # Null => instance \in built /\ alive = {instance}
             /\ \A t \in Thread :
                  /\ pc[t] \in Making \cup {"delete"} => instance = Null /\ alive = {pt[t]}
                  /\ pc[t] = "new" => instance = Null /\ alive = {}
                  /\ pc[t] \in {"store", "delete"} => pt[t] \in built
                  /\ pc[t] = "lock release" => pt[t] # Null
                  /\ pc[t] = "exchange" => pt[t] # Null
             /\ instance = Null /\ alive # {} =>
                  \E t \in Thread : pc[t] \in Making \cup {"delete"}

\* As long as nothing was deleted, the pointers handed out stay good.
UseInv == ~released => \A t \in Thread : pc[t] = "use" => pt[t] \in built

SInv == LockInv /\ MemoryInv /\ UseInv

LEMMA SInit == Init => SInv
  BY NullAssumption DEF Init, SInv, LockInv, MemoryInv, UseInv, Held, Making, memory

\* No step of any thread breaks the invariant.
LEMMA SStep == SInv /\ [Next]_singletonVars => SInv'
<1> SUFFICES ASSUME SInv, [Next]_singletonVars PROVE SInv'
  OBVIOUS
<1> USE NullAssumption DEF SInv, Held, Making, memory
<1>1. CASE UNCHANGED singletonVars
  BY <1>1 DEF singletonVars, LockInv, MemoryInv, UseInv
<1>2. ASSUME NEW t \in Thread, FirstCheck(t) PROVE SInv'
  <2>1. LockInv'
    BY <1>2 DEF FirstCheck, Goes, LockInv, MemoryInv
  <2>2. MemoryInv'
    BY <1>2 DEF FirstCheck, Goes, LockInv, MemoryInv
  <2>3. UseInv'
    BY <1>2 DEF FirstCheck, Goes, LockInv, MemoryInv, UseInv
  <2>4. QED
    BY <2>1, <2>2, <2>3
<1>3. ASSUME NEW t \in Thread, LockInstance(t) PROVE SInv'
  <2>1. LockInv'
    BY <1>3 DEF LockInstance, Lock, Goes, LockInv, MemoryInv
  <2>2. MemoryInv'
    BY <1>3 DEF LockInstance, Lock, Goes, LockInv, MemoryInv
  <2>3. UseInv'
    BY <1>3 DEF LockInstance, Lock, Goes, LockInv, MemoryInv, UseInv
  <2>4. QED
    BY <2>1, <2>2, <2>3
<1>4. ASSUME NEW t \in Thread, SecondCheck(t) PROVE SInv'
  <2>1. LockInv'
    BY <1>4 DEF SecondCheck, Goes, LockInv, MemoryInv
  <2>2. MemoryInv'
    BY <1>4 DEF SecondCheck, Goes, LockInv, MemoryInv
  <2>3. UseInv'
    BY <1>4 DEF SecondCheck, Goes, LockInv, MemoryInv, UseInv
  <2>4. QED
    BY <2>1, <2>2, <2>3
<1>5. ASSUME NEW t \in Thread, Allocate(t) PROVE SInv'
  <2>1. LockInv'
    BY <1>5 DEF Allocate, Goes, LockInv, MemoryInv
  <2>2. MemoryInv'
    BY <1>5 DEF Allocate, Goes, LockInv, MemoryInv
  <2>3. UseInv'
    BY <1>5 DEF Allocate, Goes, LockInv, MemoryInv, UseInv
  <2>4. QED
    BY <2>1, <2>2, <2>3
<1>6. ASSUME NEW t \in Thread, Construct(t) PROVE SInv'
  <2>1. LockInv'
    BY <1>6 DEF Construct, Goes, LockInv, MemoryInv
  <2>2. MemoryInv'
    BY <1>6 DEF Construct, Goes, LockInv, MemoryInv
  <2>3. UseInv'
    BY <1>6 DEF Construct, Goes, LockInv, MemoryInv, UseInv
  <2>4. QED
    BY <2>1, <2>2, <2>3
<1>7. ASSUME NEW t \in Thread, Store(t) PROVE SInv'
  <2>1. LockInv'
    BY <1>7 DEF Store, Goes, LockInv, MemoryInv
  <2>2. MemoryInv'
    BY <1>7 DEF Store, Goes, LockInv, MemoryInv
  <2>3. UseInv'
    BY <1>7 DEF Store, Goes, LockInv, MemoryInv, UseInv
  <2>4. QED
    BY <2>1, <2>2, <2>3
<1>8. ASSUME NEW t \in Thread, LoadToRelease(t) PROVE SInv'
  <2>1. LockInv'
    BY <1>8 DEF LoadToRelease, Goes, LockInv, MemoryInv
  <2>2. MemoryInv'
    BY <1>8 DEF LoadToRelease, Goes, LockInv, MemoryInv
  <2>3. UseInv'
    BY <1>8 DEF LoadToRelease, Goes, LockInv, MemoryInv, UseInv
  <2>4. QED
    BY <2>1, <2>2, <2>3
<1>9. ASSUME NEW t \in Thread, LockRelease(t) PROVE SInv'
  <2>1. LockInv'
    BY <1>9 DEF LockRelease, Lock, Goes, LockInv, MemoryInv
  <2>2. MemoryInv'
    BY <1>9 DEF LockRelease, Lock, Goes, LockInv, MemoryInv
  <2>3. UseInv'
    BY <1>9 DEF LockRelease, Lock, Goes, LockInv, MemoryInv, UseInv
  <2>4. QED
    BY <2>1, <2>2, <2>3
<1>10. ASSUME NEW t \in Thread, CompareExchange(t) PROVE SInv'
  <2>1. LockInv'
    BY <1>10 DEF CompareExchange, Goes, LockInv, MemoryInv
  <2>2. MemoryInv'
    BY <1>10 DEF CompareExchange, Goes, LockInv, MemoryInv
  <2>3. UseInv'
    BY <1>10 DEF CompareExchange, Goes, LockInv, MemoryInv, UseInv
  <2>4. QED
    BY <2>1, <2>2, <2>3
<1>11. ASSUME NEW t \in Thread, Delete(t) PROVE SInv'
  <2>1. LockInv'
    BY <1>11 DEF Delete, Goes, LockInv, MemoryInv
  <2>2. MemoryInv'
    BY <1>11 DEF Delete, Goes, LockInv, MemoryInv
  <2>3. UseInv'
    BY <1>11 DEF Delete, Goes, LockInv, MemoryInv, UseInv
  <2>4. QED
    BY <2>1, <2>2, <2>3
<1>12. ASSUME NEW t \in Thread, Leave(t) PROVE SInv'
  <2>1. LockInv'
    BY <1>12 DEF Leave, Goes, LockInv, MemoryInv
  <2>2. MemoryInv'
    BY <1>12 DEF Leave, Goes, LockInv, MemoryInv
  <2>3. UseInv'
    BY <1>12 DEF Leave, Goes, LockInv, MemoryInv, UseInv
  <2>4. QED
    BY <2>1, <2>2, <2>3
<1>13. QED
  BY <1>1, <1>2, <1>3, <1>4, <1>5, <1>6, <1>7, <1>8, <1>9, <1>10, <1>11, <1>12 DEF Next, Calls, Inside, Between

LEMMA SInvariant == Spec => []SInv
<1>1. QED
  BY SInit, SStep, PTL DEF Spec

LEMMA SInvMeansOne == SInv => OneObject
<1> SUFFICES ASSUME SInv, NEW a \in alive, NEW b \in alive PROVE a = b
  BY DEF OneObject
<1>1. CASE instance # Null
  <2>1. alive = {instance}
    BY <1>1 DEF SInv, MemoryInv
  <2>2. QED
    BY <2>1
<1>2. CASE instance = Null
  <2>1. PICK t \in Thread : pc[t] \in Making \cup {"delete"}
    BY <1>2 DEF SInv, MemoryInv
  <2>2. alive = {pt[t]}
    BY <2>1 DEF SInv, MemoryInv
  <2>3. QED
    BY <2>2
<1>3. QED
  BY <1>1, <1>2

\* However many threads call instance() and release(), at most one object exists.
THEOREM AtMostOneObject == Spec => []OneObject
<1>1. QED
  BY SInvMeansOne, SInvariant, PTL

\* A pointer loaded without the lock is null or points to a finished object.
THEOREM PublicationIsSafe == Spec => []PublishedIsBuilt
<1>1. SInv => PublishedIsBuilt
  BY DEF SInv, MemoryInv, PublishedIsBuilt
<1>2. QED
  BY <1>1, SInvariant, PTL

\* No object is deleted twice, also when its address is used again.
THEOREM DeletesAreGood == Spec => []DeletesLive
<1>1. SInv => DeletesLive
  BY DEF SInv, MemoryInv, DeletesLive
<1>2. QED
  BY <1>1, SInvariant, PTL

\* Until release() is called, every pointer that instance() returned is good.
THEOREM PointersStayGood == Spec => []UsersLive
<1>1. SInv => UsersLive
  BY DEF SInv, UseInv, UsersLive
<1>2. QED
  BY <1>1, SInvariant, PTL

\* Every pointer that is loaded, deleted or, until release() is called, used is good.
THEOREM NoPointerDangles == Spec => []NothingDangles
<1>1. QED
  BY PublicationIsSafe, DeletesAreGood, PointersStayGood, PTL DEF NothingDangles

-----------------------------------------------------------------------------
(* The log manager and its targets. *)

Outer == {"use", "assign", "stream", "swap", "write"}

\* A thread that is outside instance() and release() does not disturb them.
LEMMA OuterMove ==
  ASSUME SInv, NEW t \in Thread, pc[t] \in Outer,
         NEW to \in {"idle", "gone", "assign", "stream", "swap", "write"},
         Goes(t, pc[t], to),
         UNCHANGED singletonRest
  PROVE  SInv'
<1> USE NullAssumption DEF SInv, Held, Making, memory, Outer, singletonRest, Goes
<1>1. LockInv'
  BY DEF LockInv
<1>2. MemoryInv'
  BY DEF LockInv, MemoryInv
<1>3. UseInv'
  BY DEF LockInv, UseInv
<1>4. QED
  BY <1>1, <1>2, <1>3

LEMMA LoggingStep == SInv /\ [LoggingNext]_vars => SInv'
<1> SUFFICES ASSUME SInv, [LoggingNext]_vars PROVE SInv'
  OBVIOUS
<1>1. CASE UNCHANGED vars
  BY <1>1, SStep DEF vars
<1>2. ASSUME NEW t \in Thread, AddTarget(t) \/ SetDefaultTarget(t) PROVE SInv'
  <2>1. Goes(t, "use", "idle") \/ Goes(t, "use", "assign") \/ Goes(t, "assign", "idle")
    BY <1>2 DEF AddTarget, SetDefaultTarget
  <2>2. UNCHANGED singletonRest
    BY <1>2 DEF AddTarget, SetDefaultTarget, singletonRest
  <2>3. QED
    BY <2>1, <2>2, OuterMove DEF Goes, Outer
<1>3. ASSUME NEW t \in Loggers, Log(t) PROVE SInv'
  BY <1>3, SStep, ThreadsAssumption DEF Log, Next, Calls
<1>4. ASSUME NEW t \in Releasers, LoadToRelease(t) PROVE SInv'
  BY <1>4, SStep, ThreadsAssumption DEF Next, Calls
<1>5. ASSUME NEW t \in Thread, Calls(t) \/ UNCHANGED singletonVars PROVE SInv'
  BY <1>5, SStep DEF Next
<1>6. ASSUME NEW t \in Thread, ConstructManager(t) \/ DeleteManager(t) PROVE SInv'
  <2>1. Calls(t) \/ UNCHANGED singletonVars
    BY <1>6 DEF ConstructManager, DeleteManager, Calls, Inside
  <2>2. QED
    BY <2>1, <1>5
<1>7. ASSUME NEW t \in Thread, GetTarget(t) \/ Dangles(t) PROVE SInv'
  <2>1. PICK from \in Outer, to \in {"stream", "gone"} : Goes(t, from, to)
    BY <1>7 DEF GetTarget, Dangles, Outer
  <2>2. UNCHANGED singletonRest
    BY <1>7 DEF GetTarget, Dangles, singletonRest
  <2>3. QED
    BY <2>1, <2>2, OuterMove DEF Goes, Outer
<1>8. ASSUME NEW t \in Thread, OutputElsewhere(t) \/ Output(t) PROVE SInv'
  <2>1. Goes(t, "stream", "idle") \/ Goes(t, "stream", "swap")
    BY <1>8 DEF OutputElsewhere, Output
  <2>2. UNCHANGED singletonRest
    BY <1>8 DEF OutputElsewhere, Output, singletonRest
  <2>3. QED
    BY <2>1, <2>2, OuterMove DEF Goes, Outer
<1>9. ASSUME NEW t \in Thread, Swap(t) \/ WriteFile(t) PROVE SInv'
  <2>1. Goes(t, "swap", "idle") \/ Goes(t, "swap", "write") \/ Goes(t, "write", "idle")
    BY <1>9 DEF Swap, WriteFile
  <2>2. UNCHANGED singletonRest
    BY <1>9 DEF Swap, WriteFile, singletonRest
  <2>3. QED
    BY <2>1, <2>2, OuterMove DEF Goes, Outer
<1>10. QED
  BY <1>1, <1>2, <1>3, <1>4, <1>5, <1>7, <1>8, <1>9, <1>6
     DEF LoggingNext, Begins, Proceeds, Locks, Calls, Inside

LEMMA LoggingSInv == LoggingSpec => []SInv
<1>1. LoggingInit => SInv
  BY SInit DEF LoggingInit
<1>2. QED
  BY <1>1, LoggingStep, PTL DEF LoggingSpec

\* Whatever the threads log and release, at most one log manager exists.
THEOREM OneLogManager == LoggingSpec => []OneObject
<1>1. QED
  BY LoggingSInv, SInvMeansOne, PTL

\* The log manager a logger finds, uses or deletes is there, until it is released.
THEOREM ManagerOutlivesLoggers == LoggingSpec => []NothingDangles
<1>1. SInv => NothingDangles
  BY DEF SInv, MemoryInv, UseInv, NothingDangles, PublishedIsBuilt, DeletesLive, UsersLive
<1>2. QED
  BY <1>1, LoggingSInv, PTL
-----------------------------------------------------------------------------
(* file_channel: the lines are where they should be unless threads crowd. *)

ChannelTypes == /\ \A s \in {write_buffer, context, output, written} : s \in Seq(Nat)
                /\ lines \in Nat /\ line \in [Thread -> Nat]

OneWriter == \A t, u \in Thread : pc[t] = "write" /\ pc[u] = "write" => t = u

LinesInv == ChannelTypes /\ (~crowded => OneWriter) /\ LinesKept

\* What leaves the channel and its writers alone keeps the invariant.
LEMMA ChannelQuiet ==
  ASSUME LinesInv, UNCHANGED <<channelVars, lines, line>>,
         \A t \in Thread : pc'[t] = "write" <=> pc[t] = "write",
         write_buffer # << >> => \A t \in Thread : pc[t] = "swap" => pc'[t] = "swap"
  PROVE  LinesInv'
<1>1. Unwritten' = Unwritten
  BY DEF Unwritten, channelVars
<1>2. QED
  BY <1>1 DEF LinesInv, ChannelTypes, OneWriter, LinesKept, channelVars

\* A step that leaves the channel alone and moves one thread to or from neither
\* place of a writer keeps it, too.
LEMMA ElsewhereKeeps ==
  ASSUME SInv, LinesInv, NEW t \in Thread, NEW from, NEW to, Goes(t, from, to),
         from \notin {"swap", "write"}, to # "write", UNCHANGED <<channelVars, lines, line>>
  PROVE  LinesInv'
<1>1. /\ \A u \in Thread : pc'[u] = "write" <=> pc[u] = "write"
      /\ \A u \in Thread : pc[u] = "swap" => pc'[u] = "swap"
  BY DEF SInv, LockInv, Goes
<1>2. QED
  BY <1>1, ChannelQuiet

LEMMA SingletonQuiet ==
  ASSUME SInv, LinesInv, NEW t \in Thread, Calls(t), UNCHANGED <<channelVars, lines, line>>
  PROVE  LinesInv'
<1>1. PICK from, to : /\ Goes(t, from, to)
                      /\ from \notin {"swap", "write"} /\ to # "write"
  <2>1. CASE FirstCheck(t)
    BY <2>1 DEF FirstCheck, Goes
  <2>2. CASE ~FirstCheck(t)
    BY <2>2 DEF Calls, Inside, Between, LoadToRelease, LockInstance, LockRelease, Lock,
                SecondCheck, Allocate, Construct, Store, CompareExchange, Delete
  <2>3. QED
    BY <2>1, <2>2
<1>2. QED
  BY <1>1, ElsewhereKeeps

LEMMA Regroup ==
  ASSUME NEW s \in Seq(Nat), NEW t \in Seq(Nat), NEW u \in Seq(Nat)
  PROVE  (s \o t) \o u = s \o (t \o u)
BY ConcatAssociative, SMT

LEMMA OutputKeeps ==
  ASSUME SInv, LinesInv, NEW t \in Thread, Output(t) PROVE LinesInv'
<1>1. /\ \A u \in Thread : pc'[u] = "write" <=> pc[u] = "write"
      /\ pc'[t] = "swap"
  BY DEF SInv, LockInv, Output, Goes
<1>2. line[t] \in Nat /\ write_buffer \in Seq(Nat) /\ output \in Seq(Nat)
  BY DEF LinesInv, ChannelTypes
<1>3. written \in Seq(Nat) /\ Unwritten \in Seq(Nat) /\ Unwritten' = Unwritten
  BY <1>1, EmptySeq DEF LinesInv, ChannelTypes, Unwritten, Output
<1>4. ChannelTypes'
  BY <1>2 DEF LinesInv, ChannelTypes, Output, loggerVars
<1>5. LinesKept'
  <2> DEFINE front == written \o Unwritten
             new == <<line[t]>>
  <2>1. front \in Seq(Nat) /\ new \in Seq(Nat)
    BY <1>2, <1>3, ConcatProperties
  <2>2. write_buffer' = write_buffer \o new /\ output' = output \o new
    BY <1>2, AppendIsConcat DEF Output
  <2>3. (front \o write_buffer) \o new = front \o (write_buffer \o new)
    <3> HIDE DEF front, new
    <3>1. QED
      BY <1>2, <2>1, Regroup
  <2>4. QED
    BY <1>1, <1>3, <2>2, <2>3 DEF LinesInv, LinesKept, Output
<1>6. QED
  BY <1>1, <1>4, <1>5 DEF LinesInv, OneWriter, Output

LEMMA SwapKeeps ==
  ASSUME SInv, LinesInv, NEW t \in Thread, Swap(t) PROVE LinesInv'
<1>1. CASE /\ Goes(t, "swap", "idle") /\ write_buffer = << >>
           /\ UNCHANGED <<write_buffer, context, crowded>>
  <2>1. \A u \in Thread : pc'[u] = "write" <=> pc[u] = "write"
    BY <1>1 DEF SInv, LockInv, Goes
  <2>2. QED
    BY <1>1, <2>1, ChannelQuiet DEF Swap, channelVars, loggerVars
<1>2. CASE Goes(t, "swap", "write") /\ context' = write_buffer /\ write_buffer' = << >>
           /\ crowded' = (crowded \/ \E other \in Thread : pc[other] = "write")
  <2>1. \A u \in Thread : pc'[u] = "write" <=> u = t \/ pc[u] = "write"
    BY <1>2 DEF SInv, LockInv, Goes
  <2>2. ChannelTypes'
    BY <1>2, EmptySeq DEF LinesInv, ChannelTypes, Swap, loggerVars
  <2>3. ASSUME ~crowded'
        PROVE  OneWriter' /\ (output = written \o Unwritten \o write_buffer)'
    <3>1. ~crowded /\ \A u \in Thread : pc[u] # "write"
      BY <1>2, <2>3
    <3>2. Unwritten = << >> /\ Unwritten' = write_buffer
      BY <1>2, <2>1, <3>1 DEF Unwritten
    <3>3. written \in Seq(Nat) /\ write_buffer \in Seq(Nat)
      BY DEF LinesInv, ChannelTypes
    <3>4. written \o << >> = written
      BY <3>3, ConcatEmptySeq
    <3>5. (written \o write_buffer) \o << >> = written \o write_buffer
      BY <3>3, ConcatEmptySeq, ConcatProperties
    <3>6. QED
      BY <1>2, <2>1, <3>1, <3>2, <3>4, <3>5 DEF OneWriter, LinesInv, LinesKept, Swap
  <2>4. QED
    BY <1>2, <2>2, <2>3 DEF LinesInv, LinesKept
<1>3. QED
  BY <1>1, <1>2 DEF Swap, Cleared

LEMMA WriteFileKeeps ==
  ASSUME SInv, LinesInv, NEW t \in Thread, WriteFile(t) PROVE LinesInv'
<1>1. /\ \A u \in Thread : pc'[u] = "write" <=> u # t /\ pc[u] = "write"
      /\ \A u \in Thread : pc[u] = "swap" => pc'[u] = "swap"
  BY DEF SInv, LockInv, WriteFile, Goes
<1>2. written \in Seq(Nat) /\ context \in Seq(Nat) /\ write_buffer \in Seq(Nat)
  BY DEF LinesInv, ChannelTypes
<1>3. written' \in Seq(Nat) /\ written' = written \o context
  BY <1>2, ConcatProperties DEF WriteFile
<1>4. ChannelTypes'
  BY <1>3 DEF LinesInv, ChannelTypes, WriteFile, loggerVars
<1>5. ASSUME ~crowded
      PROVE  OneWriter' /\ (output = written \o Unwritten \o write_buffer)'
  <2>1. \A u \in Thread : pc'[u] # "write"
    BY <1>1, <1>5 DEF LinesInv, OneWriter, WriteFile, Goes
  <2>2. Unwritten = context /\ Unwritten' = << >>
    BY <2>1 DEF Unwritten, WriteFile, Goes
  <2>3. written' \o << >> = written'
    BY <1>3, ConcatEmptySeq
  <2>4. QED
    BY <1>3, <1>5, <2>1, <2>2, <2>3 DEF OneWriter, LinesInv, LinesKept, WriteFile
<1>6. QED
  BY <1>1, <1>4, <1>5 DEF LinesInv, LinesKept, WriteFile

LEMMA LinesStep == SInv /\ LinesInv /\ [LoggingNext]_vars => LinesInv'
<1> SUFFICES ASSUME SInv, LinesInv, [LoggingNext]_vars PROVE LinesInv'
  OBVIOUS
<1> USE DEF loggerVars, loggingVars
<1>1. CASE UNCHANGED vars
  BY <1>1, ChannelQuiet DEF vars, singletonVars
<1>2. ASSUME NEW t \in Thread, Calls(t), UNCHANGED loggingVars PROVE LinesInv'
  BY <1>2, SingletonQuiet
<1>3. ASSUME NEW t \in Thread, ConstructManager(t) PROVE LinesInv'
  BY <1>3, SingletonQuiet DEF ConstructManager, Calls, Inside
<1>4. ASSUME NEW t \in Thread, DeleteManager(t) PROVE LinesInv'
  <2>1. CASE Delete(t)
    BY <1>4, <2>1, SingletonQuiet DEF DeleteManager, Calls, Inside
  <2>2. CASE UNCHANGED singletonVars
    BY <1>4, <2>2, ChannelQuiet DEF DeleteManager, singletonVars
  <2>3. QED
    BY <1>4, <2>1, <2>2 DEF DeleteManager
<1>5. ASSUME NEW t \in Thread, AddTarget(t) \/ SetDefaultTarget(t) PROVE LinesInv'
  <2>1. Goes(t, "use", "idle") \/ Goes(t, "use", "assign") \/ Goes(t, "assign", "idle")
    BY <1>5 DEF AddTarget, SetDefaultTarget
  <2>2. UNCHANGED <<channelVars, lines, line>>
    BY <1>5 DEF AddTarget, SetDefaultTarget
  <2>3. QED
    BY <2>1, <2>2, ElsewhereKeeps
<1>6. ASSUME NEW t \in Thread, GetTarget(t) PROVE LinesInv'
  <2>1. /\ \A u \in Thread : pc'[u] = "write" <=> pc[u] = "write"
        /\ \A u \in Thread : pc[u] = "swap" => pc'[u] = "swap"
    BY <1>6 DEF SInv, LockInv, GetTarget, Goes
  <2>2. ChannelTypes'
    BY <1>6 DEF LinesInv, ChannelTypes, GetTarget, channelVars
  <2>3. QED
    BY <1>6, <2>1, <2>2 DEF LinesInv, OneWriter, LinesKept, Unwritten, GetTarget, channelVars
<1>7. ASSUME NEW t \in Thread, Dangles(t) \/ OutputElsewhere(t) PROVE LinesInv'
  <2>1. PICK from \in Outer, to \in {"gone", "idle"} : /\ Goes(t, from, to)
                                                      /\ from \notin {"swap", "write"}
    BY <1>7 DEF Dangles, OutputElsewhere, Outer
  <2>2. UNCHANGED <<channelVars, lines, line>>
    BY <1>7 DEF Dangles, OutputElsewhere
  <2>3. QED
    BY <2>1, <2>2, ElsewhereKeeps
<1>8. QED
  BY <1>1, <1>2, <1>3, <1>4, <1>5, <1>6, <1>7, OutputKeeps, SwapKeeps, WriteFileKeeps,
     ThreadsAssumption DEF LoggingNext, Begins, Proceeds, Locks, Log, Calls, Inside

\* Whatever the threads log, set up and release, every line given to the file target
\* goes to WriteFile once and in order, as long as no two threads are in write() at
\* once, and none stays in the buffer with no thread about to swap it.
THEOREM LinesAreKept == LoggingSpec => []LinesKept
<1>1. LoggingInit => LinesInv
  <2> SUFFICES ASSUME LoggingInit PROVE LinesInv
    OBVIOUS
  <2>1. ChannelTypes /\ OneWriter
    BY DEF LoggingInit, ChannelTypes, OneWriter, Init
  <2>2. Unwritten = << >>
    BY DEF LoggingInit, Init, Unwritten
  <2>3. << >> \o << >> = << >>
    BY ConcatEmptySeq, EmptySeq
  <2>4. QED
    BY <2>1, <2>2, <2>3 DEF LoggingInit, LinesInv, LinesKept
<1>2. LinesInv => LinesKept
  BY DEF LinesInv
<1>3. QED
  BY <1>1, <1>2, LoggingSInv, LinesStep, PTL DEF LoggingSpec

-----------------------------------------------------------------------------
(* The types.  The lines logged stay under their bound because the threads that *)
(* will still log one are counted before another begins.                       *)

\* what a thread does between CALF_LOG and the line it logs
Coming == {"lock", "recheck", "new", "construct", "store", "use"}
Comers == {t \in Loggers : pc[t] \in Coming}

Threads == /\ pc \in [Thread -> {"idle", "lock", "recheck", "new", "lock release", "exchange",
                                 "use", "assign", "gone", "stream", "swap", "write"}
                                \cup Holding]
           /\ \A t \in Thread : pc[t] \in Coming => t \in Loggers

Counted == lines \in Nat /\ lines + Cardinality(Comers) <= MaxLines

Lines == /\ line \in [Thread -> 0 .. MaxLines]
         /\ \A t \in Thread : pc[t] = "stream" => line[t] \in Line
         /\ write_buffer \in Seq(Line) /\ context \in Seq(Line) /\ file \in Seq(Line)
         /\ output \in Seq(Line) /\ written \in Seq(Line) /\ elsewhere \subseteq Line

Manager == /\ default \in Names /\ targets \subseteq Names /\ terminated \in BOOLEAN
           /\ target \in [Thread -> Names \cup {"none", "dangling"}]

TInv == Threads /\ Counted /\ Lines /\ Manager

LEMMA ComersFinite == IsFiniteSet(Comers) /\ Cardinality(Comers) \in Nat
<1>1. IsFiniteSet(Comers)
  BY ThreadsAssumption, FS_Subset DEF Comers
<1>2. QED
  BY <1>1, FS_CardinalityType

LEMMA TInit == LoggingInit => TInv
<1> SUFFICES ASSUME LoggingInit PROVE TInv
  OBVIOUS
<1> USE DEF LoggingInit, Init
<1>1. Threads
  BY DEF Threads, Coming
<1>2. Counted
  <2>1. Comers = {}
    BY ThreadsAssumption DEF Comers, Coming
  <2>2. Cardinality(Comers) = 0
    BY <2>1, FS_EmptySet
  <2>3. QED
    BY <2>2, ThreadsAssumption DEF Counted
<1>3. Lines
  BY ThreadsAssumption DEF Lines
<1>4. Manager
  BY DEF Manager, Names, Standard
<1>5. QED
  BY <1>1, <1>2, <1>3, <1>4 DEF TInv

\* What the count says when no thread begins to come, and when one stops.
LEMMA CountKept ==
  ASSUME Counted, lines' = lines, Comers' \subseteq Comers PROVE Counted'
<1>1. Cardinality(Comers') <= Cardinality(Comers) /\ Cardinality(Comers') \in Nat
  BY ComersFinite, FS_Subset, FS_CardinalityType
<1>2. QED
  BY <1>1, ComersFinite, ThreadsAssumption DEF Counted

LEMMA CountMoved ==
  ASSUME Counted, NEW t \in Comers, lines' = lines + 1, Comers' = Comers \ {t} PROVE Counted'
<1>1. Cardinality(Comers') = Cardinality(Comers) - 1
  BY ComersFinite, FS_RemoveElement
<1>2. QED
  BY <1>1, ComersFinite, ThreadsAssumption DEF Counted

LEMMA CountBegun ==
  ASSUME Counted, NEW t \in Loggers, pc[t] = "idle", lines' = lines,
         lines + Cardinality(Arriving) < MaxLines, Comers' \subseteq Comers \cup {t}
  PROVE  Counted'
<1>1. Comers \subseteq Arriving /\ t \notin Comers
  BY DEF Comers, Arriving, Coming
<1>2. IsFiniteSet(Arriving)
  BY ThreadsAssumption, FS_Subset DEF Arriving
<1>3. Cardinality(Comers) <= Cardinality(Arriving) /\ Cardinality(Arriving) \in Nat
  BY <1>1, <1>2, FS_Subset, FS_CardinalityType
<1>4. IsFiniteSet(Comers \cup {t}) /\ Cardinality(Comers \cup {t}) = Cardinality(Comers) + 1
  BY <1>1, ComersFinite, FS_AddElement
<1>5. Cardinality(Comers') <= Cardinality(Comers \cup {t}) /\ Cardinality(Comers') \in Nat
  BY <1>4, FS_Subset, FS_CardinalityType
<1>6. QED
  BY <1>3, <1>4, <1>5, ComersFinite, ThreadsAssumption DEF Counted

\* A step of instance() or release(), locks included, by any thread.
LEMMA TCalls ==
  ASSUME TInv, NEW t \in Thread, Calls(t), UNCHANGED <<lines, line, elsewhere, channelVars>>,
         Manager',
         FirstCheck(t) => t \in Loggers /\ lines + Cardinality(Arriving) < MaxLines
  PROVE  TInv'
<1>1. PICK from, to : /\ Goes(t, from, to)
                      /\ \/ from = "idle" /\ FirstCheck(t)
                         \/ from = "idle" /\ to = "lock release"
                         \/ from \in Coming /\ to \in Coming
                         \/ from \in {"lock release", "exchange", "delete"}
                            /\ to \in {"exchange", "delete", "idle"}
  <2>1. CASE FirstCheck(t)
    BY <2>1 DEF FirstCheck, Goes
  <2>2. CASE LoadToRelease(t)
    BY <2>2 DEF LoadToRelease
  <2>3. CASE LockInstance(t) \/ LockRelease(t)
    BY <2>3 DEF LockInstance, LockRelease, Lock, Coming
  <2>4. CASE SecondCheck(t)
    BY <2>4 DEF SecondCheck, Coming
  <2>5. CASE Allocate(t) \/ Construct(t) \/ Store(t)
    BY <2>5 DEF Allocate, Construct, Store, Coming
  <2>6. CASE CompareExchange(t) \/ Delete(t)
    BY <2>6 DEF CompareExchange, Delete
  <2>7. QED
    BY <2>1, <2>2, <2>3, <2>4, <2>5, <2>6 DEF Calls, Inside, Between
<1>2. /\ pc[t] = from /\ pc' = [pc EXCEPT ![t] = pc'[t]]
      /\ FirstCheck(t) => pc'[t] \in {"lock", "use"}
      /\ from # "idle" => pc'[t] = to
      /\ ~FirstCheck(t) => pc'[t] = to
      /\ \A u \in Thread : u # t => pc'[u] = pc[u]
  BY <1>1 DEF TInv, Threads, Goes, FirstCheck
<1>3. Threads'
  BY <1>1, <1>2 DEF TInv, Threads, Coming, Holding
<1>4. Lines'
  <2>1. \A u \in Thread : pc'[u] = "stream" => pc[u] = "stream"
    BY <1>1, <1>2 DEF Coming
  <2>2. QED
    BY <2>1 DEF TInv, Lines, channelVars
<1>5. lines' = lines
  OBVIOUS
<1>6. Counted'
  <2>1. CASE FirstCheck(t)
    <3>1. pc[t] = "idle" /\ Comers' \subseteq Comers \cup {t}
      BY <1>2, <2>1, ThreadsAssumption DEF Comers, FirstCheck, Goes
    <3>2. QED
      BY <1>5, <2>1, <3>1, CountBegun DEF TInv
  <2>2. CASE ~FirstCheck(t)
    <3>1. Comers' \subseteq Comers
      BY <1>1, <1>2, <2>2, ThreadsAssumption DEF Comers, Coming
    <3>2. QED
      BY <1>5, <3>1, CountKept DEF TInv
  <2>3. QED
    BY <2>1, <2>2
<1>7. QED
  BY <1>3, <1>4, <1>6 DEF TInv

LEMMA TGetTarget == ASSUME TInv, NEW t \in Thread, GetTarget(t) PROVE TInv'
<1>1. /\ pc[t] = "use" /\ pc' = [pc EXCEPT ![t] = "stream"]
      /\ lines' = lines + 1 /\ line' = [line EXCEPT ![t] = lines + 1]
      /\ UNCHANGED <<managerVars, channelVars, elsewhere, terminated>>
  BY DEF GetTarget, Goes
<1>2. pc'[t] = "stream" /\ \A u \in Thread : u # t => pc'[u] = pc[u]
  BY <1>1 DEF TInv, Threads
<1>3. Threads'
  BY <1>1, <1>2 DEF TInv, Threads, Coming
<1>4. t \in Comers /\ Comers' = Comers \ {t}
  BY <1>1, <1>2, ThreadsAssumption DEF TInv, Threads, Comers, Coming
<1>5. Counted'
  BY <1>1, <1>4, CountMoved DEF TInv
<1>6. lines + 1 \in Line
  <2>1. Cardinality(Comers') \in Nat
    BY <1>4, ComersFinite, FS_Subset, FS_CardinalityType
  <2>2. QED
    BY <1>1, <1>5, <2>1, ThreadsAssumption DEF TInv, Counted, Line
<1>7. Lines'
  <2>1. line' \in [Thread -> 0 .. MaxLines]
    BY <1>1, <1>6 DEF TInv, Lines, Line
  <2>2. \A u \in Thread : pc'[u] = "stream" => line'[u] \in Line
    BY <1>1, <1>2, <1>6 DEF TInv, Lines
  <2>3. QED
    BY <1>1, <2>1, <2>2 DEF TInv, Lines, channelVars
<1>8. Manager'
  <2>1. target' \in [Thread -> Names \cup {"none", "dangling"}]
    BY DEF TInv, Manager, GetTarget
  <2>2. QED
    BY <1>1, <2>1 DEF TInv, Manager, managerVars
<1>9. QED
  BY <1>3, <1>5, <1>7, <1>8 DEF TInv

\* the steps after that, and a use of a log manager that is gone
LEMMA TLater ==
  ASSUME TInv, NEW t \in Thread,
         NEW from \in Outer, NEW to \in {"gone", "idle", "assign", "swap", "write"},
         Goes(t, from, to), UNCHANGED <<line, lines>>, Manager',
         write_buffer' \in Seq(Line), context' \in Seq(Line), file' \in Seq(Line),
         output' \in Seq(Line), written' \in Seq(Line), elsewhere' \subseteq Line
  PROVE  TInv'
<1>1. /\ pc[t] = from /\ pc'[t] = to /\ pc' = [pc EXCEPT ![t] = to]
      /\ \A u \in Thread : u # t => pc'[u] = pc[u]
  BY DEF TInv, Threads, Goes
<1>2. Threads'
  BY <1>1 DEF TInv, Threads, Coming
<1>3. Comers' \subseteq Comers
  BY <1>1, ThreadsAssumption DEF Comers, Coming
<1>4. Counted'
  BY <1>3, CountKept DEF TInv
<1>5. Lines'
  BY <1>1 DEF TInv, Lines
<1>6. QED
  BY <1>2, <1>4, <1>5 DEF TInv

\* what set-up and release do to the manager
LEMMA ManagerKept ==
  ASSUME Manager, NEW t \in Thread,
         \/ ConstructManager(t) \/ DeleteManager(t) \/ AddTarget(t) \/ SetDefaultTarget(t)
         \/ UNCHANGED <<managerVars, target, terminated>>
  PROVE  Manager'
<1> USE DEF Manager, Names, Standard
<1>1. CASE ConstructManager(t)
  BY <1>1 DEF ConstructManager, loggerVars
<1>2. CASE DeleteManager(t)
  BY <1>2 DEF DeleteManager
<1>3. CASE AddTarget(t)
  BY <1>3 DEF AddTarget, loggerVars
<1>4. CASE SetDefaultTarget(t)
  BY <1>4 DEF SetDefaultTarget, loggerVars
<1>5. CASE UNCHANGED <<managerVars, target, terminated>>
  BY <1>5 DEF managerVars
<1>6. QED
  BY <1>1, <1>2, <1>3, <1>4, <1>5

LEMMA TManager ==
  ASSUME TInv, NEW t \in Thread, AddTarget(t) \/ SetDefaultTarget(t) PROVE TInv'
<1>1. PICK from \in Outer, to \in {"idle", "assign"} : Goes(t, from, to)
  BY DEF AddTarget, SetDefaultTarget, Outer
<1>2. UNCHANGED <<line, lines, elsewhere, channelVars>>
  BY DEF AddTarget, SetDefaultTarget, loggerVars
<1>3. Manager'
  BY ManagerKept DEF TInv
<1>4. QED
  BY <1>1, <1>2, <1>3, TLater DEF TInv, Lines, channelVars

LEMMA TOutput ==
  ASSUME TInv, NEW t \in Thread, Dangles(t) \/ OutputElsewhere(t) \/ Output(t) PROVE TInv'
<1>1. /\ write_buffer \in Seq(Line) /\ context \in Seq(Line) /\ file \in Seq(Line)
      /\ output \in Seq(Line) /\ written \in Seq(Line) /\ elsewhere \subseteq Line
  BY DEF TInv, Lines
<1>2. Manager'
  <2>1. UNCHANGED <<managerVars, target, terminated>>
    BY DEF Dangles, OutputElsewhere, Output, loggerVars
  <2>2. QED
    BY <2>1, ManagerKept DEF TInv
<1>3. CASE Dangles(t)
  <2>1. PICK from \in Outer : Goes(t, from, "gone")
    BY <1>3 DEF Dangles, Outer
  <2>2. UNCHANGED <<loggerVars, channelVars>>
    BY <1>3 DEF Dangles
  <2>3. QED
    BY <1>1, <1>2, <2>1, <2>2, TLater DEF channelVars, loggerVars
<1>4. CASE OutputElsewhere(t)
  <2>1. line[t] \in Line
    BY <1>4 DEF TInv, Lines, OutputElsewhere, Goes
  <2>2. QED
    BY <1>1, <1>4, <1>2, <2>1, TLater DEF OutputElsewhere, channelVars, Outer
<1>5. CASE Output(t)
  <2>1. line[t] \in Line
    BY <1>5 DEF TInv, Lines, Output, Goes
  <2>2. Append(write_buffer, line[t]) \in Seq(Line) /\ Append(output, line[t]) \in Seq(Line)
    BY <1>1, <2>1
  <2>3. QED
    BY <1>1, <1>5, <1>2, <2>2, TLater DEF Output, loggerVars, Outer
<1>6. QED
  BY <1>3, <1>4, <1>5

LEMMA TWrites ==
  ASSUME TInv, NEW t \in Thread, Swap(t) \/ WriteFile(t) PROVE TInv'
<1>1. /\ write_buffer \in Seq(Line) /\ context \in Seq(Line) /\ file \in Seq(Line)
      /\ output \in Seq(Line) /\ written \in Seq(Line) /\ elsewhere \subseteq Line
      /\ << >> \in Seq(Line)
  BY DEF TInv, Lines
<1>2. Manager'
  <2>1. UNCHANGED <<managerVars, target, terminated>>
    BY DEF Swap, WriteFile, loggerVars
  <2>2. QED
    BY <2>1, ManagerKept DEF TInv
<1>3. CASE Swap(t)
  <2>1. write_buffer' \in Seq(Line) /\ context' \in Seq(Line)
    BY <1>1, <1>3 DEF Swap, Cleared
  <2>2. Goes(t, "swap", "idle") \/ Goes(t, "swap", "write")
    BY <1>3 DEF Swap
  <2>3. QED
    BY <1>1, <1>3, <1>2, <2>1, <2>2, TLater DEF Swap, loggerVars, Outer
<1>4. CASE WriteFile(t)
  <2>1. SubSeq(file, Len(context) + 1, Len(file)) \in Seq(Line)
    BY <1>1
  <2>2. file' \in Seq(Line) /\ written' \in Seq(Line)
    BY <1>1, <1>4, <2>1, ConcatProperties DEF WriteFile
  <2>3. QED
    BY <1>1, <1>4, <1>2, <2>2, TLater DEF WriteFile, loggerVars, Outer
<1>5. QED
  BY <1>3, <1>4

LEMMA TStep == TInv /\ [LoggingNext]_vars => TInv'
<1> SUFFICES ASSUME TInv, [LoggingNext]_vars PROVE TInv'
  OBVIOUS
<1>1. ASSUME UNCHANGED <<singletonVars, lines, line, elsewhere, channelVars>>, Manager'
      PROVE  TInv'
  <2>1. Threads' /\ Lines'
    BY <1>1 DEF TInv, Threads, Lines, channelVars, singletonVars
  <2>2. Comers' = Comers
    BY <1>1 DEF Comers, singletonVars
  <2>3. Counted'
    BY <1>1, <2>2, CountKept DEF TInv
  <2>4. QED
    BY <1>1, <2>1, <2>3 DEF TInv
<1>2. CASE UNCHANGED vars
  BY <1>1, <1>2 DEF vars, managerVars, loggerVars, TInv, Manager
<1>3. ASSUME NEW t \in Loggers, Log(t), UNCHANGED loggingVars PROVE TInv'
  <2>1. Manager'
    BY <1>3 DEF TInv, Manager, loggingVars, managerVars, loggerVars
  <2>2. QED
    BY <1>3, <2>1, TCalls, ThreadsAssumption DEF Log, Calls, loggingVars, loggerVars
<1>4. ASSUME NEW t \in Thread,
             LoadToRelease(t) \/ LockInstance(t) \/ LockRelease(t) \/ Inside(t)
      PROVE  ~FirstCheck(t)
  <2>1. LoadToRelease(t) => pc' = [pc EXCEPT ![t] = "lock release"]
    BY DEF LoadToRelease, Goes
  <2>2. ~LoadToRelease(t) => pc[t] # "idle"
    BY <1>4 DEF LockInstance, LockRelease, Lock, Inside, Between, SecondCheck, Allocate,
                Construct, Store, CompareExchange, Delete, Goes
  <2>3. FirstCheck(t) => pc[t] = "idle" /\ pc'[t] # "lock release"
    BY DEF FirstCheck, Goes, TInv, Threads
  <2>4. QED
    BY <2>1, <2>2, <2>3 DEF TInv, Threads
<1>5. ASSUME NEW t \in Thread, UNCHANGED loggingVars,
             LoadToRelease(t) \/ LockInstance(t) \/ LockRelease(t) \/ Between(t)
      PROVE  TInv'
  <2>1. Manager'
    BY <1>5 DEF TInv, Manager, loggingVars, managerVars, loggerVars
  <2>2. QED
    BY <1>4, <1>5, <2>1, TCalls DEF Calls, Inside, loggingVars, loggerVars
<1>6. ASSUME NEW t \in Thread, ConstructManager(t) \/ DeleteManager(t) PROVE TInv'
  <2>1. Manager'
    BY <1>6, ManagerKept DEF TInv
  <2>2. UNCHANGED <<lines, line, elsewhere, channelVars>>
    BY <1>6 DEF ConstructManager, DeleteManager, loggerVars
  <2>3. CASE Construct(t) \/ Delete(t)
    BY <1>4, <2>1, <2>2, <2>3, TCalls DEF Calls, Inside
  <2>4. CASE UNCHANGED singletonVars
    BY <1>1, <2>1, <2>2, <2>4
  <2>5. QED
    BY <1>6, <2>3, <2>4 DEF ConstructManager, DeleteManager
<1>7. ASSUME NEW t \in Thread, Proceeds(t) \/ Locks(t) PROVE TInv'
  BY <1>5, <1>6, <1>7, TManager, TGetTarget, TOutput, TWrites DEF Proceeds, Locks
<1>8. QED
  BY <1>2, <1>3, <1>5, <1>7, ThreadsAssumption DEF LoggingNext, Begins

\* The singleton, the log manager, the loggers and the file channel have their types; the
\* lines in the buffers and in the file are lines that somebody logged.
THEOREM TypeCorrect == LoggingSpec => []TypeOK
<1>1. TInv /\ SInv => TypeOK
  <2> SUFFICES ASSUME TInv, SInv PROVE TypeOK
    OBVIOUS
  <2>1. /\ instance \in Address \cup {Null} /\ mutex \in Thread \cup {Null}
        /\ alive \subseteq Address /\ built \subseteq alive
        /\ pt \in [Thread -> Address \cup {Null}]
    BY DEF SInv, LockInv, MemoryInv
  <2>2. \A t \in Thread : pc[t] \in Holding => pt[t] \in Address
    BY DEF SInv, MemoryInv, Holding, Making
  <2>3. lines \in 0 .. MaxLines
    BY ComersFinite, ThreadsAssumption DEF TInv, Counted
  <2>4. QED
    BY <2>1, <2>2, <2>3 DEF TInv, Threads, Lines, Manager, TypeOK
<1>2. QED
  BY <1>1, TInit, TStep, LoggingSInv, PTL DEF LoggingSpec
=============================================================================
