-------------------------- MODULE IoCompletionProofs --------------------------
(* TLAPS proofs about WorkerService, for any finite set of run_loop threads, any *)
(* set of run_one threads and any set of tasks, and about IoCompletion, for any  *)
(* finite set of port threads and any sets of tasks and contexts.  The worker    *)
(* inside the port keeps the invariant that is proved of it alone.               *)
EXTENDS IoCompletion, FiniteSetTheorems, SequenceTheorems, TLAPS

(* The worker alone. *)

\* the labels at which a thread owns the mutex
Inside == {"pred", "window", "work", "take"}

MutexInv == \A r \in Threads : mutex_ = r <=> pc[r] \in Inside

\* what the mutex protects: a thread that read the queue knows its content
QueueInv == \A r \in Threads : /\ pc[r] = "window" => task_queue = << >>
                               /\ pc[r] = "take" => task_queue # << >>

\* a thread has a task exactly while it runs it
TaskInv == \A r \in Threads : IF pc[r] = "run" THEN task[r] \in Tasks
                                               ELSE task[r] = NoTask

Inv == TypeOK /\ MutexInv /\ QueueInv /\ TaskInv

-----------------------------------------------------------------------------
LEMMA InitInv == Init => Inv
<1> SUFFICES ASSUME Init PROVE Inv
  OBVIOUS
<1> USE DEF Init
<1>1. TypeOK
  <2>1. task_queue \in Seq(Tasks)
    BY EmptySeq
  <2>2. QED
    BY <2>1 DEF TypeOK, Labels
<1>2. MutexInv /\ QueueInv /\ TaskInv
  BY ThreadsAssumption DEF MutexInv, QueueInv, TaskInv, Inside
<1>3. QED
  BY <1>1, <1>2 DEF Inv

LEMMA StepInv == Inv /\ [Next]_vars => Inv'
<1> SUFFICES ASSUME Inv, [Next]_vars PROVE Inv'
  OBVIOUS
<1> USE ThreadsAssumption DEF Inv, TypeOK, MutexInv, QueueInv, TaskInv, Labels, Inside
<1>1. CASE UNCHANGED vars
  BY <1>1 DEF vars
<1>2. CASE QuitStore
  BY <1>2 DEF QuitStore
<1>3. CASE QuitNotify
  BY <1>3 DEF QuitNotify, NotifyAll, Asleep, Threads
<1>4. ASSUME NEW t \in Tasks, Dispatch(t) PROVE Inv'
  <2>1. task_queue' \in Seq(Tasks) /\ task_queue' # << >>
    BY <1>4, AppendProperties DEF Dispatch
  <2>2. /\ pc' \in [Threads -> Labels]
        /\ \A r \in Threads : pc'[r] = pc[r] \/ (pc[r] = "asleep" /\ pc'[r] = "lock")
    BY <1>4 DEF Dispatch, NotifyOne, Asleep, Threads
  <2>3. \A r \in Threads : pc[r] \notin Inside
    BY <1>4 DEF Dispatch
  <2>4. QED
    BY <1>4, <2>1, <2>2, <2>3 DEF Dispatch
<1>5. ASSUME NEW r \in OneShots, CallRunOne(r) PROVE Inv'
  BY <1>5 DEF CallRunOne, Goto, Threads
<1>6. ASSUME NEW r \in Loopers, SpuriousWakeup(r) PROVE Inv'
  BY <1>6 DEF SpuriousWakeup, Goto, Threads
<1>7. ASSUME NEW r \in Threads, ThreadStep(r) PROVE Inv'
  <2>1. CASE TestQuit(r)
    BY <2>1 DEF TestQuit, Goto
  <2>2. CASE Lock(r)
    BY <2>2 DEF Lock, Goto
  <2>3. CASE EvalPredicate(r)
    BY <2>3 DEF EvalPredicate, WaitOver, Goto
  <2>4. CASE Block(r)
    BY <2>4 DEF Block, Goto
  <2>5. CASE LeaveWork(r)
    BY <2>5 DEF LeaveWork, Goto
  <2>6. CASE EnterWork(r)
    BY <2>6 DEF EnterWork, WorkLeft, Goto
  <2>7. CASE Take(r)
    <3>1. Head(task_queue) \in Tasks /\ Tail(task_queue) \in Seq(Tasks)
      BY <2>7, HeadTailProperties DEF Take
    <3>2. late'[r] \in Nat /\ late' \in [Threads -> Nat]
      BY <2>7 DEF Take
    <3>3. \A s \in Threads \ {r} : pc[s] \notin Inside
      BY <2>7 DEF Take
    <3>4. QED
      BY <2>7, <3>1, <3>2, <3>3, TasksAssumption DEF Take, Goto
  <2>8. CASE Finish(r)
    BY <2>8 DEF Finish, Goto
  <2>9. CASE Relock(r)
    BY <2>9 DEF Relock, Goto
  <2>10. QED
    BY <1>7, <2>1, <2>2, <2>3, <2>4, <2>5, <2>6, <2>7, <2>8, <2>9 DEF ThreadStep
<1>8. QED
  BY <1>1, <1>2, <1>3, <1>4, <1>5, <1>6, <1>7 DEF Next

LEMMA Invariance == Spec => []Inv
BY InitInv, StepInv, PTL DEF Spec

\* The service's fields keep their types in every reachable state.
THEOREM TypeCorrect == Spec => []TypeOK
<1>1. Inv => TypeOK
  BY DEF Inv
<1>2. QED
  BY Invariance, <1>1, PTL

-----------------------------------------------------------------------------
(* quit() against do_work and against cv_.wait.                              *)

LateInv == \A r \in Threads : /\ late[r] <= 1
                              /\ pc[r] = "take" => late[r] = 0
                              /\ late[r] > 0 => quit_flag

LEMMA LateStep == Inv /\ LateInv /\ [Next]_vars => LateInv'
<1> SUFFICES ASSUME Inv, LateInv, [Next]_vars PROVE LateInv'
  OBVIOUS
<1> USE DEF Inv, TypeOK, LateInv, Labels
<1>1. CASE UNCHANGED vars
  BY <1>1 DEF vars
<1>2. CASE QuitStore
  BY <1>2 DEF QuitStore
<1>3. CASE QuitNotify
  BY <1>3 DEF QuitNotify, NotifyAll, Asleep
<1>4. ASSUME NEW t \in Tasks, Dispatch(t) PROVE LateInv'
  BY <1>4 DEF Dispatch, NotifyOne, Asleep
<1>5. ASSUME NEW r \in OneShots, CallRunOne(r) PROVE LateInv'
  BY <1>5 DEF CallRunOne, Goto, Threads
<1>6. ASSUME NEW r \in Loopers, SpuriousWakeup(r) PROVE LateInv'
  BY <1>6 DEF SpuriousWakeup, Goto, Threads
<1>7. ASSUME NEW r \in Threads, ThreadStep(r) PROVE LateInv'
  <2>1. CASE Take(r)
    <3>1. late[r] = 0 /\ quit_flag' = quit_flag
      BY <2>1 DEF Take
    <3>2. late' = [late EXCEPT ![r] = IF quit_flag THEN 1 ELSE 0]
      BY <2>1, <3>1 DEF Take
    <3>3. pc' = [pc EXCEPT ![r] = "run"]
      BY <2>1 DEF Take, Goto
    <3>4. QED
      BY <3>1, <3>2, <3>3
  <2>2. CASE EnterWork(r)
    <3>1. late[r] = 0
      BY <2>2 DEF EnterWork, WorkLeft
    <3>2. QED
      BY <2>2, <3>1 DEF EnterWork, Goto
  <2>3. CASE ~Take(r) /\ ~EnterWork(r)
    BY <1>7, <2>3 DEF ThreadStep, TestQuit, Lock, EvalPredicate, Block, LeaveWork,
                      Finish, Relock, Goto
  <2>4. QED
    BY <2>1, <2>2, <2>3
<1>8. QED
  BY <1>1, <1>2, <1>3, <1>4, <1>5, <1>6, <1>7 DEF Next

\* do_work tests quit_flag_ before every pop, so each thread pops at most one
\* task after quit() stored the flag.
THEOREM AtMostOne == Spec => []AtMostOneAfterQuit
<1>1. Init => LateInv
  BY DEF Init, LateInv
<1>2. LateInv => AtMostOneAfterQuit
  BY DEF LateInv, AtMostOneAfterQuit
<1>3. QED
  BY <1>1, <1>2, Invariance, LateStep, PTL DEF Spec

\* a looper in the window when notify_all ran is recorded, and none joins it later
StrandInv == quit_flag /\ quit_pc = "idle" =>
               \A r \in Loopers : pc[r] \in {"window", "asleep"} => r \in missed

LEMMA StrandStep == Inv /\ StrandInv /\ [Next]_vars => StrandInv'
<1> SUFFICES ASSUME Inv, StrandInv, [Next]_vars PROVE StrandInv'
  OBVIOUS
<1> USE DEF Inv, TypeOK, StrandInv, Labels, Threads
<1>1. CASE UNCHANGED vars
  BY <1>1 DEF vars
<1>2. CASE QuitStore
  BY <1>2 DEF QuitStore
<1>3. CASE QuitNotify
  BY <1>3 DEF QuitNotify, NotifyAll, Asleep
<1>4. ASSUME NEW t \in Tasks, Dispatch(t) PROVE StrandInv'
  BY <1>4 DEF Dispatch, NotifyOne, Asleep
<1>5. ASSUME NEW r \in OneShots, CallRunOne(r) PROVE StrandInv'
  BY <1>5 DEF CallRunOne, Goto
<1>6. ASSUME NEW r \in Loopers, SpuriousWakeup(r) PROVE StrandInv'
  BY <1>6 DEF SpuriousWakeup, Goto
<1>7. ASSUME NEW r \in Threads, ThreadStep(r) PROVE StrandInv'
  <2>1. CASE EvalPredicate(r)
    BY <2>1 DEF EvalPredicate, WaitOver, Goto
  <2>2. CASE ~EvalPredicate(r)
    BY <1>7, <2>2 DEF ThreadStep, TestQuit, Lock, Block, LeaveWork, EnterWork, Take,
                      Finish, Relock, Goto
  <2>3. QED
    BY <2>1, <2>2
<1>8. QED
  BY <1>1, <1>2, <1>3, <1>4, <1>5, <1>6, <1>7 DEF Next

\* Once quit() has returned, a blocked looper is one that had evaluated the
\* predicate of cv_.wait and not blocked when notify_all ran.
THEOREM OnlyTheWindowStrands == Spec => []OnlyWindowStrands
<1>1. Init => StrandInv
  BY DEF Init, StrandInv
<1>2. StrandInv => OnlyWindowStrands
  BY DEF StrandInv, OnlyWindowStrands, Asleep
<1>3. QED
  BY <1>1, <1>2, Invariance, StrandStep, PTL DEF Spec

-----------------------------------------------------------------------------
(* notify_one against run_loop: no lost wakeup.                              *)

LEMMA ActiveCard ==
  ASSUME NEW S \in SUBSET Loopers
  PROVE  /\ IsFiniteSet(S) /\ Cardinality(S) \in Nat
         /\ \A r \in Loopers \ S : Cardinality(S \cup {r}) = Cardinality(S) + 1
         /\ \A r \in S : Cardinality(S \ {r}) = Cardinality(S) - 1
<1>1. IsFiniteSet(S)
  BY ThreadsAssumption, FS_Subset
<1>2. Cardinality(S) \in Nat
  BY <1>1, FS_CardinalityType
<1>3. QED
  BY <1>1, <1>2, FS_AddElement, FS_RemoveElement

LEMMA WakeStep == Inv /\ WakeupPerTask /\ [Next]_vars => WakeupPerTask'
<1> SUFFICES ASSUME Inv, WakeupPerTask, [Next]_vars, ~quit_flag', Asleep' # {}
             PROVE  Len(task_queue') <= Cardinality(Active')
  BY DEF WakeupPerTask
<1> USE ThreadsAssumption DEF Inv, TypeOK, Labels, Threads
<1>0. /\ Len(task_queue) \in Nat
      /\ Active \subseteq Loopers /\ Cardinality(Active) \in Nat
      /\ Active' \subseteq Loopers /\ Cardinality(Active') \in Nat
  BY ActiveCard, LenProperties DEF Active
<1>1. CASE UNCHANGED vars
  BY <1>1 DEF vars, WakeupPerTask, Asleep, Active
<1>2. CASE QuitStore
  BY <1>2 DEF QuitStore
<1>3. CASE QuitNotify
  BY <1>3 DEF QuitNotify, NotifyAll, Asleep
<1>4. ASSUME NEW t \in Tasks, Dispatch(t)
      PROVE  Len(task_queue') <= Cardinality(Active')
  <2>1. Len(task_queue') = Len(task_queue) + 1
    BY <1>4, AppendProperties DEF Dispatch
  <2>2. PICK r \in Asleep : pc' = [pc EXCEPT ![r] = "lock"]
    BY <1>4 DEF Dispatch, NotifyOne, Asleep
  <2>3. r \in Loopers \ Active /\ Active' = Active \cup {r}
    BY <2>2 DEF Active, Asleep
  <2>4. Cardinality(Active') = Cardinality(Active) + 1
    BY <1>0, <2>3, ActiveCard
  <2>5. Len(task_queue) <= Cardinality(Active)
    BY <1>4, <2>2 DEF Dispatch, WakeupPerTask
  <2>6. QED
    BY <1>0, <2>1, <2>4, <2>5
<1>5. ASSUME NEW r \in OneShots, CallRunOne(r)
      PROVE  Len(task_queue') <= Cardinality(Active')
  <2>1. Active' = Active /\ Asleep' = Asleep
    BY <1>5 DEF CallRunOne, Goto, Active, Asleep
  <2>2. QED
    BY <1>5, <2>1 DEF CallRunOne, WakeupPerTask
<1>6. ASSUME NEW r \in Loopers, SpuriousWakeup(r)
      PROVE  Len(task_queue') <= Cardinality(Active')
  <2>1. r \in Loopers \ Active /\ Active' = Active \cup {r} /\ Asleep # {}
    BY <1>6 DEF SpuriousWakeup, Goto, Active, Asleep
  <2>2. Cardinality(Active') = Cardinality(Active) + 1
    BY <1>0, <2>1, ActiveCard
  <2>3. QED
    BY <1>0, <1>6, <2>1, <2>2 DEF SpuriousWakeup, WakeupPerTask
<1>7. ASSUME NEW r \in Threads, ThreadStep(r)
      PROVE  Len(task_queue') <= Cardinality(Active')
  <2>1. CASE EvalPredicate(r) /\ ~WaitOver
    <3>1. task_queue' = << >>
      BY <2>1 DEF EvalPredicate, WaitOver
    <3>2. QED
      BY <1>0, <3>1
  <2>2. CASE Block(r)
    <3>1. task_queue' = << >>
      BY <2>2 DEF Block, QueueInv
    <3>2. QED
      BY <1>0, <3>1
  <2>3. CASE Take(r)
    <3>1. Len(task_queue') = Len(task_queue) - 1
      BY <2>3, HeadTailProperties DEF Take, QueueInv
    <3>2. Asleep' = Asleep /\ quit_flag' = quit_flag
      BY <2>3 DEF Take, Goto, Asleep
    <3>3. CASE r \in Loopers
      <4>1. r \in Active /\ Active' = Active \ {r}
        BY <2>3, <3>3 DEF Take, Goto, Active
      <4>2. Cardinality(Active') = Cardinality(Active) - 1
        BY <1>0, <4>1, ActiveCard
      <4>3. QED
        BY <1>0, <3>1, <3>2, <4>2 DEF WakeupPerTask
    <3>4. CASE r \notin Loopers
      <4>1. Active' = Active
        BY <2>3, <3>4 DEF Take, Goto, Active
      <4>2. QED
        BY <1>0, <3>1, <3>2, <4>1 DEF WakeupPerTask
    <3>5. QED
      BY <3>3, <3>4
  <2>4. CASE Finish(r)
    <3>1. Asleep' = Asleep /\ task_queue' = task_queue /\ quit_flag' = quit_flag
      BY <2>4 DEF Finish, Goto, Asleep
    <3>2. \/ r \in Loopers \ Active /\ Active' = Active \cup {r}
          \/ Active' = Active
      BY <2>4 DEF Finish, Goto, Active
    <3>3. \/ Cardinality(Active') = Cardinality(Active) + 1
          \/ Cardinality(Active') = Cardinality(Active)
      BY <1>0, <3>2, ActiveCard
    <3>4. QED
      BY <1>0, <3>1, <3>3 DEF WakeupPerTask
  <2>5. CASE TestQuit(r) \/ Lock(r) \/ (EvalPredicate(r) /\ WaitOver) \/ EnterWork(r)
             \/ LeaveWork(r) \/ Relock(r)
    <3>1. task_queue' = task_queue /\ quit_flag' = quit_flag
      BY <2>5 DEF TestQuit, Lock, EvalPredicate, EnterWork, LeaveWork, Relock
    <3>2. Asleep' = Asleep
      BY <2>5 DEF TestQuit, Lock, EvalPredicate, EnterWork, LeaveWork, Relock, Goto, Asleep
    <3>3. Active' = Active
      BY <2>5, <3>1 DEF TestQuit, Lock, EvalPredicate, EnterWork, LeaveWork, Relock, Goto,
                        Active
    <3>4. QED
      BY <3>1, <3>2, <3>3 DEF WakeupPerTask
  <2>6. QED
    BY <1>7, <2>1, <2>2, <2>3, <2>4, <2>5 DEF ThreadStep
<1>8. QED
  BY <1>1, <1>2, <1>3, <1>4, <1>5, <1>6, <1>7 DEF Next

\* No wakeup is lost: while a looper is blocked, the queue is no longer than the
\* number of loopers on their way to it, for any number of threads and tasks.
THEOREM NoLostWakeup == Spec => []WakeupPerTask
<1>1. Init => WakeupPerTask
  BY DEF Init, WakeupPerTask, Asleep, Threads
<1>2. QED
  BY <1>1, Invariance, WakeStep, PTL DEF Spec

-----------------------------------------------------------------------------
(* The service implements the abstract queue.                                *)

\* every task is in one place only
PlaceInv == /\ \A i, j \in 1 .. Len(task_queue) :
                 i # j => task_queue[i] # task_queue[j]
            /\ \A r \in Running : task[r] \notin Range(task_queue)
            /\ \A r, s \in Running : r # s => task[r] # task[s]

LEMMA RangeAppend ==
  ASSUME NEW q \in Seq(Tasks), NEW t \in Tasks
  PROVE  Range(Append(q, t)) = Range(q) \cup {t}
BY AppendProperties DEF Range

LEMMA RangeTail ==
  ASSUME NEW q \in Seq(Tasks), q # << >>
  PROVE  /\ Range(Tail(q)) \subseteq Range(q) /\ Head(q) \in Range(q)
         /\ (\A i, j \in 1 .. Len(q) : i # j => q[i] # q[j]) =>
              /\ Head(q) \notin Range(Tail(q))
              /\ \A i, j \in 1 .. Len(Tail(q)) : i # j => Tail(q)[i] # Tail(q)[j]
<1>1. /\ Tail(q) \in Seq(Tasks) /\ Len(Tail(q)) = Len(q) - 1 /\ Head(q) = q[1]
      /\ \A i \in 1 .. Len(Tail(q)) : Tail(q)[i] = q[i + 1]
      /\ Len(q) \in Nat \ {0}
  BY HeadTailProperties, EmptySeq, LenProperties
<1>2. /\ DOMAIN q = 1 .. Len(q) /\ DOMAIN Tail(q) = 1 .. Len(Tail(q))
  BY <1>1, LenProperties
<1>3. QED
  BY <1>1, <1>2 DEF Range

LEMMA PlaceStep == Inv /\ PlaceInv /\ [Next]_vars => PlaceInv'
<1> SUFFICES ASSUME Inv, PlaceInv, [Next]_vars PROVE PlaceInv'
  OBVIOUS
<1> USE DEF Inv, TypeOK, Labels, Threads
<1>1. CASE UNCHANGED vars
  BY <1>1 DEF vars, PlaceInv, Running, Range
<1>2. CASE QuitStore
  BY <1>2 DEF QuitStore, PlaceInv, Running, Range
<1>3. CASE QuitNotify
  BY <1>3 DEF QuitNotify, NotifyAll, Asleep, PlaceInv, Running, Range
<1>4. ASSUME NEW t \in Tasks, Dispatch(t) PROVE PlaceInv'
  <2>1. Running' = Running
    BY <1>4 DEF Dispatch, NotifyOne, Asleep, Running
  <2>2. /\ t \notin Range(task_queue) /\ \A r \in Threads : task[r] # t
        /\ task' = task /\ task_queue' = Append(task_queue, t)
    BY <1>4 DEF Dispatch, Fresh
  <2>3. Range(task_queue') = Range(task_queue) \cup {t}
    BY <2>2, RangeAppend
  <2>4. \A i, j \in 1 .. Len(task_queue') : i # j => task_queue'[i] # task_queue'[j]
    BY <2>2, AppendProperties DEF PlaceInv, Range
  <2>5. QED
    BY <2>1, <2>2, <2>3, <2>4 DEF PlaceInv, Running
<1>5. ASSUME NEW r \in OneShots, CallRunOne(r) PROVE PlaceInv'
  BY <1>5 DEF CallRunOne, Goto, PlaceInv, Running, Range
<1>6. ASSUME NEW r \in Loopers, SpuriousWakeup(r) PROVE PlaceInv'
  BY <1>6 DEF SpuriousWakeup, Goto, PlaceInv, Running, Range
<1>7. ASSUME NEW r \in Threads, ThreadStep(r) PROVE PlaceInv'
  <2>1. CASE Take(r)
    <3>1. task_queue # << >>
      BY <2>1 DEF Take, QueueInv
    <3>2. Running' = Running \cup {r}
      BY <2>1 DEF Take, Goto, Running
    <3>3. task' = [task EXCEPT ![r] = Head(task_queue)]
          /\ task_queue' = Tail(task_queue) /\ r \notin Running
      BY <2>1 DEF Take, Running
    <3>4. QED
      BY <3>1, <3>2, <3>3, RangeTail DEF PlaceInv, Running
  <2>2. CASE Finish(r)
    <3>1. Running' = Running \ {r} /\ task_queue' = task_queue
      BY <2>2 DEF Finish, Goto, Running
    <3>2. \A s \in Running' : s \in Running /\ task'[s] = task[s]
      BY <2>2, <3>1 DEF Finish, Running
    <3>3. QED
      BY <3>1, <3>2 DEF PlaceInv
  <2>3. CASE ~Take(r) /\ ~Finish(r)
    <3>1. task_queue' = task_queue /\ task' = task
      BY <1>7, <2>3 DEF ThreadStep, TestQuit, Lock, EvalPredicate, Block, LeaveWork,
                        EnterWork, Relock
    <3>2. Running' = Running
      BY <1>7, <2>3 DEF ThreadStep, TestQuit, Lock, EvalPredicate, Block, LeaveWork,
                        EnterWork, Relock, Goto, Running
    <3>3. QED
      BY <3>1, <3>2 DEF PlaceInv
  <2>4. QED
    BY <2>1, <2>2, <2>3
<1>8. QED
  BY <1>1, <1>2, <1>3, <1>4, <1>5, <1>6, <1>7 DEF Next

LEMMA RefinementStep == Inv /\ PlaceInv /\ [Next]_vars => [TQ!Next]_TQ!vars
<1> DEFINE running == {task[r] : r \in Running}
<1> SUFFICES ASSUME Inv, PlaceInv, [Next]_vars PROVE TQ!Next \/ UNCHANGED TQ!vars
  OBVIOUS
<1> USE DEF Inv, TypeOK, Labels, Threads
<1>0. ASSUME UNCHANGED <<task_queue, task, finished>>, Running' = Running
      PROVE  UNCHANGED TQ!vars
  BY <1>0 DEF TQ!vars
<1>1. CASE UNCHANGED vars
  BY <1>0, <1>1 DEF vars, Running
<1>2. CASE QuitStore
  BY <1>0, <1>2 DEF QuitStore, Running
<1>3. CASE QuitNotify
  <2>1. Running' = Running
    BY <1>3 DEF QuitNotify, NotifyAll, Asleep, Running
  <2>2. QED
    BY <1>0, <1>3, <2>1 DEF QuitNotify
<1>4. ASSUME NEW t \in Tasks, Dispatch(t) PROVE TQ!Next
  <2>1. Running' = Running
    BY <1>4 DEF Dispatch, NotifyOne, Asleep, Running
  <2>2. /\ t \notin Range(task_queue) \cup finished /\ t \notin running
        /\ task_queue' = Append(task_queue, t)
    BY <1>4 DEF Dispatch, Fresh, Running
  <2>3. running' = running /\ finished' = finished
    BY <1>4, <2>1 DEF Dispatch
  <2>4. TQ!Submit(t)
    BY <2>2, <2>3 DEF TQ!Submit, TQ!Range, Range
  <2>5. QED
    BY <2>4 DEF TQ!Next
<1>5. ASSUME NEW r \in OneShots, CallRunOne(r) PROVE UNCHANGED TQ!vars
  <2>1. Running' = Running
    BY <1>5 DEF CallRunOne, Goto, Running
  <2>2. QED
    BY <1>0, <1>5, <2>1 DEF CallRunOne
<1>6. ASSUME NEW r \in Loopers, SpuriousWakeup(r) PROVE UNCHANGED TQ!vars
  <2>1. Running' = Running
    BY <1>6 DEF SpuriousWakeup, Goto, Running
  <2>2. QED
    BY <1>0, <1>6, <2>1 DEF SpuriousWakeup
<1>7. ASSUME NEW r \in Threads, ThreadStep(r) PROVE TQ!Next \/ UNCHANGED TQ!vars
  <2>1. CASE Take(r)
    <3>1. task_queue # << >>
      BY <2>1 DEF Take, QueueInv
    <3>2. Running' = Running \cup {r} /\ r \notin Running
      BY <2>1 DEF Take, Goto, Running
    <3>3. /\ task' = [task EXCEPT ![r] = Head(task_queue)]
          /\ task_queue' = Tail(task_queue) /\ finished' = finished
      BY <2>1 DEF Take
    <3>4. running' = running \cup {Head(task_queue)}
      BY <3>2, <3>3 DEF Running
    <3>5. TQ!Start
      BY <3>1, <3>3, <3>4 DEF TQ!Start
    <3>6. QED
      BY <3>5 DEF TQ!Next
  <2>2. CASE Finish(r)
    <3>1. r \in Running /\ task[r] \in Tasks
      BY <2>2 DEF Finish, Running, TaskInv
    <3>2. Running' = Running \ {r} /\ \A s \in Running \ {r} : task'[s] = task[s]
      BY <2>2 DEF Finish, Goto, Running
    <3>3. running' = running \ {task[r]}
      BY <3>1, <3>2 DEF PlaceInv
    <3>4. PICK t \in Tasks : t = task[r]
      BY <3>1
    <3>5. TQ!Complete(t)
      BY <2>2, <3>1, <3>3, <3>4 DEF Finish, TQ!Complete
    <3>6. QED
      BY <3>5 DEF TQ!Next
  <2>3. CASE ~Take(r) /\ ~Finish(r)
    <3>1. UNCHANGED <<task_queue, task, finished>>
      BY <1>7, <2>3 DEF ThreadStep, TestQuit, Lock, EvalPredicate, Block, LeaveWork,
                        EnterWork, Relock
    <3>2. Running' = Running
      BY <1>7, <2>3 DEF ThreadStep, TestQuit, Lock, EvalPredicate, Block, LeaveWork,
                        EnterWork, Relock, Goto, Running
    <3>3. QED
      BY <1>0, <3>1, <3>2
  <2>4. QED
    BY <2>1, <2>2, <2>3
<1>8. QED
  BY <1>1, <1>2, <1>3, <1>4, <1>5, <1>6, <1>7 DEF Next

\* Whatever the threads do, tasks start in dispatch order, each by one runner,
\* and complete once: worker_service implements TaskQueue.
THEOREM Refinement == Spec => ImplementsTaskQueue
<1>1. Init => TQ!Init
  BY DEF Init, TQ!Init, Running, Threads
<1>2. Init => PlaceInv
  BY DEF Init, PlaceInv, Running, Threads, Range
<1>3. QED
  BY <1>1, <1>2, Invariance, PlaceStep, RefinementStep, PTL
     DEF Spec, ImplementsTaskQueue, TQ!Spec

-----------------------------------------------------------------------------
(* The worker on a port. *)

\* every step of the composition is a step of the worker, or leaves it alone
LEMMA WorkerStep == IoNext => [Next]_vars
BY DEF IoNext, IoStep, DispatchTask, PostPacket, SetQuit, ClosePort, Complete, TestFlag,
       ServeWorker, ServeContext, WaitFails, InWorker, Next, Threads, IoThreads

\* Whatever the packets of the port do, and however often its threads call run_one,
\* an io_completion_worker starts every task it accepted at most once, in the order of
\* dispatch: it is the queue that a worker_service promises to be.
THEOREM PortRefinement == IoSpec => ImplementsTaskQueue
<1>1. [IoNext]_ioVars => [Next]_vars
  BY WorkerStep DEF ioVars
<1>2. IoInit => Init
  BY DEF IoInit
<1>3. IoSpec => Spec
  BY <1>1, <1>2, PTL DEF IoSpec, Spec
<1>4. QED
  BY <1>3, Refinement, PTL

PortInv == /\ posting \in Nat /\ packets \in Nat
           /\ ctx \in [Contexts -> {"pending", "done", "failed", "served"}]
           /\ port_open \in BOOLEAN /\ svc_quit \in BOOLEAN /\ closing \in BOOLEAN
           /\ io_pc \in [IoThreads -> {"test", "wait", "exited"}]
           /\ key \in [IoThreads -> Contexts \cup {WorkerKey, NoHandler}]
           /\ stray \in [IoThreads -> Nat]

\* a thread that was told of a closed port is not waiting any more
StrayInv == /\ closing => svc_quit
            /\ ~port_open => svc_quit
            /\ \A r \in IoThreads : /\ stray[r] <= 1
                                    /\ stray[r] > 0 => io_pc[r] # "wait" /\ ~port_open

\* the threads only call run_one, and nobody quits the worker itself
RunOneInv == /\ quit_flag = FALSE
             /\ \A r \in IoThreads : pc[r] \in {"idle", "lock", "work", "take", "run", "relock"}

IoInv == Inv /\ PortInv /\ StrayInv /\ RunOneInv

LEMMA IoInitInv == IoInit => IoInv
<1> SUFFICES ASSUME IoInit PROVE IoInv
  OBVIOUS
<1>1. Inv
  BY InitInv DEF IoInit
<1>2. PortInv
  BY DEF IoInit, PortInv
<1>3. StrayInv
  BY DEF IoInit, StrayInv
<1>4. RunOneInv
  BY IoAssumption DEF IoInit, Init, RunOneInv, Threads, IoThreads
<1>5. QED
  BY <1>1, <1>2, <1>3, <1>4 DEF IoInv

LEMMA RunOneStep == IoInv /\ [IoNext]_ioVars => RunOneInv'
<1> SUFFICES ASSUME IoInv, [IoNext]_ioVars PROVE RunOneInv'
  OBVIOUS
<1> USE IoAssumption DEF IoInv, RunOneInv, Inv, TypeOK, Threads, IoThreads
<1>1. ASSUME NEW t \in Tasks, DispatchTask(t) PROVE RunOneInv'
  BY <1>1 DEF DispatchTask, Dispatch, NotifyOne, Asleep
<1>2. ASSUME NEW r \in IoThreads, InWorker(r) PROVE RunOneInv'
  BY <1>2 DEF InWorker, ThreadStep, TestQuit, Lock, EvalPredicate, Block, LeaveWork,
              EnterWork, Take, Finish, Relock, Goto
<1>3. ASSUME NEW r \in IoThreads, ServeWorker(r) PROVE RunOneInv'
  BY <1>3 DEF ServeWorker, CallRunOne, Goto
<1>4. CASE UNCHANGED vars
  BY <1>4 DEF vars
<1>5. QED
  BY <1>1, <1>2, <1>3, <1>4 DEF IoNext, IoStep, PostPacket, SetQuit, ClosePort, Complete,
       TestFlag, ServeContext, WaitFails, ioVars

LEMMA IoStepInv == IoInv /\ [IoNext]_ioVars => IoInv'
<1> SUFFICES ASSUME IoInv, [IoNext]_ioVars PROVE IoInv'
  OBVIOUS
<1>0. Inv'
  BY WorkerStep, StepInv DEF IoInv, ioVars
<1> SUFFICES PortInv' /\ StrayInv'
  BY <1>0, RunOneStep DEF IoInv
<1> USE DEF IoInv, PortInv, StrayInv
<1>1. CASE UNCHANGED ioVars
  BY <1>1 DEF ioVars, ioOnly
<1>2. ASSUME NEW t \in Tasks, DispatchTask(t) PROVE PortInv' /\ StrayInv'
  BY <1>2 DEF DispatchTask
<1>3. CASE PostPacket
  BY <1>3 DEF PostPacket, Notify
<1>4. CASE SetQuit
  BY <1>4 DEF SetQuit
<1>5. CASE ClosePort
  BY <1>5 DEF ClosePort
<1>6. ASSUME NEW c \in Contexts, Complete(c) PROVE PortInv' /\ StrayInv'
  BY <1>6 DEF Complete
<1>7. ASSUME NEW r \in IoThreads, IoStep(r) PROVE PortInv' /\ StrayInv'
  <2>1. CASE TestFlag(r)
    BY <2>1 DEF TestFlag
  <2>2. CASE ServeWorker(r)
    BY <2>2 DEF ServeWorker, Dequeued
  <2>3. CASE WaitFails(r)
    <3>1. stray[r] = 0
      BY <2>3 DEF WaitFails
    <3>2. QED
      BY <2>3, <3>1 DEF WaitFails
  <2>4. CASE InWorker(r)
    BY <2>4 DEF InWorker, ioOnly
  <2>5. ASSUME NEW c \in Contexts, ServeContext(r, c) PROVE PortInv' /\ StrayInv'
    BY <2>5 DEF ServeContext, Dequeued
  <2>6. QED
    BY <1>7, <2>1, <2>2, <2>3, <2>4, <2>5 DEF IoStep
<1>8. QED
  BY <1>1, <1>2, <1>3, <1>4, <1>5, <1>6, <1>7 DEF IoNext

LEMMA IoInvariance == IoSpec => []IoInv
BY IoInitInv, IoStepInv, PTL DEF IoSpec

\* The port's state and the run_loop locals keep their types.
THEOREM IoTypeCorrect == IoSpec => []IoTypeOK
<1>1. IoInv => IoTypeOK
  BY DEF IoInv, Inv, PortInv, IoTypeOK
<1>2. QED
  BY IoInvariance, <1>1, PTL

\* The flag is stored before the port is closed, so a thread makes at most one
\* call with a stale handler, and only after quit().
THEOREM StrayCalls == IoSpec => []StrayOnlyAtQuit
<1>1. IoInv => StrayOnlyAtQuit
  BY DEF IoInv, StrayInv, StrayOnlyAtQuit, PortInv
<1>2. QED
  BY IoInvariance, <1>1, PTL

-----------------------------------------------------------------------------
LEMMA HeadingCard ==
  ASSUME NEW S \in SUBSET IoThreads
  PROVE  /\ Cardinality(S) \in Nat
         /\ \A r \in IoThreads \ S : Cardinality(S \cup {r}) = Cardinality(S) + 1
         /\ \A r \in S : Cardinality(S \ {r}) = Cardinality(S) - 1
<1>1. IsFiniteSet(S)
  BY IoAssumption, FS_Subset DEF IoThreads
<1>2. QED
  BY <1>1, FS_CardinalityType, FS_AddElement, FS_RemoveElement

LEMMA PacketStep == IoInv /\ PacketPerTask /\ [IoNext]_ioVars => PacketPerTask'
<1> SUFFICES ASSUME IoInv, PacketPerTask, [IoNext]_ioVars, port_open'
             PROVE  Len(task_queue') <= packets' + posting' + Cardinality(Heading')
  BY DEF PacketPerTask
<1> USE IoAssumption DEF IoInv, Inv, TypeOK, PortInv, RunOneInv, Labels, Threads, IoThreads
<1>0. /\ Len(task_queue) \in Nat
      /\ Heading \subseteq IoThreads /\ Cardinality(Heading) \in Nat
      /\ Heading' \subseteq IoThreads /\ Cardinality(Heading') \in Nat
  BY HeadingCard, LenProperties DEF Heading
<1>a. ASSUME UNCHANGED <<vars, packets, posting, port_open>>
      PROVE  Len(task_queue') <= packets' + posting' + Cardinality(Heading')
  BY <1>a DEF vars, PacketPerTask, Heading
<1>1. CASE UNCHANGED ioVars
  BY <1>a, <1>1 DEF ioVars, ioOnly
<1>2. ASSUME NEW t \in Tasks, DispatchTask(t)
      PROVE  Len(task_queue') <= packets' + posting' + Cardinality(Heading')
  <2>1. Len(task_queue') = Len(task_queue) + 1
    BY <1>2, AppendProperties DEF DispatchTask, Dispatch
  <2>2. Heading' = Heading
    BY <1>2 DEF DispatchTask, Dispatch, NotifyOne, Asleep, Heading
  <2>3. posting' = posting + 1 /\ packets' = packets /\ port_open' = port_open
    BY <1>2 DEF DispatchTask
  <2>4. QED
    BY <1>0, <2>1, <2>2, <2>3 DEF PacketPerTask
<1>3. CASE PostPacket
  <2>1. /\ posting' = posting - 1 /\ packets' = packets + 1 /\ port_open' = port_open
        /\ UNCHANGED vars
    BY <1>3 DEF PostPacket, Notify
  <2>2. task_queue' = task_queue /\ Heading' = Heading
    BY <2>1 DEF vars, Heading
  <2>3. QED
    BY <1>0, <2>1, <2>2 DEF PacketPerTask
<1>4. CASE SetQuit
  BY <1>a, <1>4 DEF SetQuit
<1>5. CASE ClosePort
  BY <1>5 DEF ClosePort
<1>6. ASSUME NEW c \in Contexts, Complete(c)
      PROVE  Len(task_queue') <= packets' + posting' + Cardinality(Heading')
  BY <1>a, <1>6 DEF Complete
<1>7. ASSUME NEW r \in IoThreads, IoStep(r)
      PROVE  Len(task_queue') <= packets' + posting' + Cardinality(Heading')
  <2>1. CASE TestFlag(r)
    BY <1>a, <2>1 DEF TestFlag
  <2>2. CASE ServeWorker(r)
    <3>1. r \notin Heading /\ Heading' = Heading \cup {r} /\ task_queue' = task_queue
      BY <2>2 DEF ServeWorker, CallRunOne, Goto, Heading
    <3>2. packets' = packets - 1 /\ posting' = posting /\ port_open' = port_open
      BY <2>2 DEF ServeWorker, Dequeued
    <3>3. Cardinality(Heading') = Cardinality(Heading) + 1
      BY <1>0, <3>1, HeadingCard
    <3>4. QED
      BY <1>0, <3>1, <3>2, <3>3 DEF PacketPerTask
  <2>3. CASE WaitFails(r)
    BY <1>a, <2>3 DEF WaitFails
  <2>4. CASE InWorker(r)
    <3>0. UNCHANGED <<packets, posting, port_open>>
      BY <2>4 DEF InWorker, ioOnly
    <3>1. CASE Take(r)
      <4>1. Len(task_queue') = Len(task_queue) - 1
        BY <3>1, HeadTailProperties DEF Take, QueueInv
      <4>2. r \in Heading /\ Heading' = Heading \ {r}
        BY <3>1 DEF Take, Goto, Heading
      <4>3. Cardinality(Heading') = Cardinality(Heading) - 1
        BY <1>0, <4>2, HeadingCard
      <4>4. QED
        BY <1>0, <3>0, <4>1, <4>3 DEF PacketPerTask
    <3>2. CASE Finish(r)
      <4>1. r \notin Heading /\ Heading' = Heading \cup {r} /\ task_queue' = task_queue
        BY <3>2 DEF Finish, Goto, Heading
      <4>2. Cardinality(Heading') = Cardinality(Heading) + 1
        BY <1>0, <4>1, HeadingCard
      <4>3. QED
        BY <1>0, <3>0, <4>1, <4>2 DEF PacketPerTask
    <3>3. CASE ~Take(r) /\ ~Finish(r) /\ ~LeaveWork(r)
      <4>1. task_queue' = task_queue
        BY <2>4, <3>3 DEF InWorker, ThreadStep, TestQuit, Lock, EvalPredicate, Block,
                          EnterWork, Relock
      <4>2. Heading' = Heading
        BY <2>4, <3>3 DEF InWorker, ThreadStep, TestQuit, Lock, EvalPredicate, Block,
                          EnterWork, Relock, Goto, Heading
      <4>3. QED
        BY <1>0, <3>0, <4>1, <4>2 DEF PacketPerTask
    <3>4. CASE LeaveWork(r)
      <4>1. task_queue' = << >>
        BY <3>4 DEF LeaveWork, WorkLeft
      <4>2. QED
        BY <1>0, <3>0, <4>1
    <3>5. QED
      BY <3>1, <3>2, <3>3, <3>4
  <2>5. ASSUME NEW c \in Contexts, ServeContext(r, c)
        PROVE  Len(task_queue') <= packets' + posting' + Cardinality(Heading')
    BY <1>a, <2>5 DEF ServeContext, Dequeued
  <2>6. QED
    BY <1>7, <2>1, <2>2, <2>3, <2>4, <2>5 DEF IoStep
<1>8. QED
  BY <1>1, <1>2, <1>3, <1>4, <1>5, <1>6, <1>7 DEF IoNext

\* Until the port closes no queued task is left without a packet, a dispatch or a
\* thread that will find it, for any number of threads and tasks.
THEOREM NoTaskLeftBehind == IoSpec => []PacketPerTask
<1>1. ASSUME IoInit PROVE PacketPerTask
  <2>1. Cardinality(Heading) \in Nat
    BY HeadingCard DEF Heading
  <2>2. task_queue = << >> /\ packets = 0 /\ posting = 0
    BY <1>1 DEF IoInit, Init
  <2>3. QED
    BY <2>1, <2>2 DEF PacketPerTask
<1>2. QED
  BY <1>1, IoInvariance, PacketStep, PTL DEF IoSpec
=============================================================================
