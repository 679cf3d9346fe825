--------------------------- MODULE WorkerService ---------------------------
(* calf::worker_service: a deque of tasks, one mutex, one condition variable  *)
(* and an atomic quit flag.  Threads in Loopers execute run_loop(), threads   *)
(* in OneShots call run_one() whenever they like, any thread dispatches, and  *)
(* any thread calls quit(), which takes no lock.                              *)
EXTENDS Integers, Sequences, FiniteSets, Functions

CONSTANTS Loopers,   \* threads inside run_loop
          OneShots,  \* threads that call run_one
          Tasks,     \* one member per call of dispatch
          NoTask,    \* no task in a thread's local variable
          Nobody     \* the mutex is free

Threads == Loopers \cup OneShots

ASSUME ThreadsAssumption == /\ Loopers \cap OneShots = {}
                            /\ IsFiniteSet(Loopers)
                            /\ Nobody \notin Threads
ASSUME TasksAssumption == NoTask \notin Tasks

VARIABLES task_queue,  \* the deque
          mutex_,      \* owner of the mutex, or Nobody
          quit_flag,   \* the atomic flag
          pc,          \* where each thread is (see TypeOK)
          task,        \* the task each thread has popped
          finished,    \* tasks that have returned
          quit_pc,     \* "stored": between the two statements of quit()
          missed,      \* history: loopers not yet asleep at the last notify_all
          late         \* history: tasks a thread popped after the flag was set

vars == <<task_queue, mutex_, quit_flag, pc, task, finished, quit_pc, missed, late>>

Init == /\ task_queue = << >> /\ mutex_ = Nobody /\ quit_flag = FALSE
        /\ pc = [r \in Threads |-> IF r \in Loopers THEN "test" ELSE "idle"]
        /\ task = [r \in Threads |-> NoTask]
        /\ finished = {} /\ quit_pc = "idle" /\ missed = {}
        /\ late = [r \in Threads |-> 0]

-----------------------------------------------------------------------------
(* The condition variable. *)

Asleep == {r \in Loopers : pc[r] = "asleep"}

\* the argument of cv_.wait
WaitOver == task_queue # << >> \/ quit_flag

\* (mutant) the notification is left out
NotifyNobody == UNCHANGED pc

\* notify_one: some blocked thread wakes up and competes for the mutex
NotifyOne == \/ /\ Asleep = {}
                /\ UNCHANGED pc
             \/ \E r \in Asleep : pc' = [pc EXCEPT ![r] = "lock"]

\* (mutant) quit() uses notify_one
NotifyOneOfAll == NotifyOne

\* notify_all wakes the threads that are blocked now, and no other
NotifyAll == pc' = [r \in Threads |-> IF r \in Asleep THEN "lock" ELSE pc[r]]

-----------------------------------------------------------------------------
(* The callers' side. *)

\* every dispatch is of a task of its own
Fresh(t) == /\ t \notin Range(task_queue) \cup finished
            /\ \A r \in Threads : task[r] # t

\* dispatch, packaged_dispatch: push and notify inside one critical section,
\* so the section is one step taken when the mutex is free
Dispatch(t) == /\ mutex_ = Nobody /\ Fresh(t)
               /\ task_queue' = Append(task_queue, t)
               /\ NotifyOne
               /\ UNCHANGED <<mutex_, quit_flag, task, finished, quit_pc, missed, late>>

\* quit() is two statements, neither under the mutex
QuitStore == /\ quit_pc = "idle"
             /\ quit_flag' = TRUE /\ quit_pc' = "stored"
             /\ UNCHANGED <<task_queue, mutex_, pc, task, finished, missed, late>>

QuitNotify == /\ quit_pc = "stored"
              /\ NotifyAll
              /\ missed' = {r \in Loopers : pc[r] = "window"}
              /\ quit_pc' = "idle"
              /\ UNCHANGED <<task_queue, mutex_, quit_flag, task, finished, late>>

-----------------------------------------------------------------------------
(* A thread inside run_loop, run_one and do_work. *)

Goto(r, label) == pc' = [pc EXCEPT ![r] = label]

\* while (!quit_flag_)
TestQuit(r) == /\ pc[r] = "test"
               /\ Goto(r, IF quit_flag THEN "exited" ELSE "lock")
               /\ UNCHANGED <<task_queue, mutex_, quit_flag, task, finished,
                              quit_pc, missed, late>>

\* a caller enters run_one
CallRunOne(r) == /\ pc[r] = "idle"
                 /\ Goto(r, "lock")
                 /\ UNCHANGED <<task_queue, mutex_, quit_flag, task, finished,
                                quit_pc, missed, late>>

\* take the mutex: on entry, and inside cv_.wait after waking up
Lock(r) == /\ pc[r] = "lock" /\ mutex_ = Nobody
           /\ mutex_' = r
           /\ Goto(r, IF r \in Loopers THEN "pred" ELSE "work")
           /\ UNCHANGED <<task_queue, quit_flag, task, finished, quit_pc, missed, late>>

\* evaluate the predicate of cv_.wait; if it fails, the thread is about to block
\* and still holds the mutex
EvalPredicate(r) == /\ pc[r] = "pred"
                    /\ Goto(r, IF WaitOver THEN "work" ELSE "window")
                    /\ UNCHANGED <<task_queue, mutex_, quit_flag, task, finished,
                                   quit_pc, missed, late>>

\* release the mutex and block, in one step for everyone else
Block(r) == /\ pc[r] = "window"
            /\ mutex_' = Nobody
            /\ Goto(r, "asleep")
            /\ UNCHANGED <<task_queue, quit_flag, task, finished, quit_pc, missed, late>>

\* the standard allows cv_.wait to wake up for no reason
SpuriousWakeup(r) == /\ pc[r] = "asleep"
                     /\ Goto(r, "lock")
                     /\ UNCHANGED <<task_queue, mutex_, quit_flag, task, finished,
                                    quit_pc, missed, late>>

\* (mutant) do_work looks at the queue only
QueueLeft == task_queue # << >>

\* the loop condition of do_work, evaluated under the mutex
WorkLeft == task_queue # << >> /\ ~quit_flag

\* do_work finds nothing to do: it returns and the lock object is destroyed
LeaveWork(r) == /\ pc[r] = "work" /\ ~WorkLeft
                /\ mutex_' = Nobody
                /\ Goto(r, IF r \in Loopers THEN "test" ELSE "idle")
                /\ UNCHANGED <<task_queue, quit_flag, task, finished, quit_pc, missed, late>>

EnterWork(r) == /\ pc[r] = "work" /\ WorkLeft
                /\ Goto(r, "take")
                /\ UNCHANGED <<task_queue, mutex_, quit_flag, task, finished,
                               quit_pc, missed, late>>

\* (mutant) the task is copied but not popped
TakeWithoutPop(r) == /\ pc[r] = "take"
                     /\ task' = [task EXCEPT ![r] = Head(task_queue)]
                     /\ mutex_' = Nobody
                     /\ Goto(r, "run")
                     /\ UNCHANGED <<task_queue, quit_flag, finished, quit_pc, missed, late>>

\* front, pop_front, unlock: quit() may have run since the condition was read
Take(r) == /\ pc[r] = "take"
           /\ task' = [task EXCEPT ![r] = Head(task_queue)]
           /\ task_queue' = Tail(task_queue)
           /\ mutex_' = Nobody
           /\ Goto(r, "run")
           /\ late' = [late EXCEPT ![r] = IF quit_flag THEN @ + 1 ELSE @]
           /\ UNCHANGED <<quit_flag, finished, quit_pc, missed>>

\* the task returns
Finish(r) == /\ pc[r] = "run"
             /\ finished' = finished \cup {task[r]}
             /\ task' = [task EXCEPT ![r] = NoTask]
             /\ Goto(r, "relock")
             /\ UNCHANGED <<task_queue, mutex_, quit_flag, quit_pc, missed, late>>

\* lock.lock() at the end of the loop body
Relock(r) == /\ pc[r] = "relock" /\ mutex_ = Nobody
             /\ mutex_' = r
             /\ Goto(r, "work")
             /\ UNCHANGED <<task_queue, quit_flag, task, finished, quit_pc, missed, late>>

\* the steps a thread takes by itself once it runs
ThreadStep(r) == \/ TestQuit(r) \/ Lock(r) \/ EvalPredicate(r) \/ Block(r)
                 \/ LeaveWork(r) \/ EnterWork(r) \/ Take(r) \/ Finish(r) \/ Relock(r)

Next == \/ QuitStore \/ QuitNotify
        \/ \E t \in Tasks : Dispatch(t)
        \/ \E r \in OneShots : CallRunOne(r)
        \/ \E r \in Loopers : SpuriousWakeup(r)
        \/ \E r \in Threads : ThreadStep(r)

Spec == Init /\ [][Next]_vars

\* the scheduler runs every runnable thread, tasks return, and a thread that
\* finds the mutex free again and again gets it at last; nobody has to dispatch,
\* to call run_one or to quit, and no spurious wakeup has to happen
Fairness == /\ \A r \in Threads : WF_vars(ThreadStep(r)) /\ SF_vars(Lock(r) \/ Relock(r))
            /\ WF_vars(QuitNotify)

FairSpec == Spec /\ Fairness

-----------------------------------------------------------------------------
(* Properties. *)

Labels == {"idle", "test", "lock", "pred", "window", "asleep", "work", "take",
           "run", "relock", "exited"}

\* The type invariant of the service's fields and of its threads' positions.
TypeOK == /\ task_queue \in Seq(Tasks)
          /\ mutex_ \in Threads \cup {Nobody}
          /\ quit_flag \in BOOLEAN
          /\ pc \in [Threads -> Labels]
          /\ task \in [Threads -> Tasks \cup {NoTask}]
          /\ finished \subseteq Tasks
          /\ quit_pc \in {"idle", "stored"}
          /\ missed \subseteq Loopers
          /\ late \in [Threads -> Nat]

Running == {r \in Threads : pc[r] = "run"}

\* loopers that will look at the queue again before they can block or run a task
Active == {r \in Loopers : pc[r] \in {"test", "lock", "pred", "work", "take", "relock"}}

\* Work conservation of dispatch/notify_one against run_loop: while a looper is
\* blocked, every queued task has a looper of its own on its way to the queue,
\* so no task waits behind a running one while a thread sleeps.
WakeupPerTask == ~quit_flag /\ Asleep # {} => Len(task_queue) <= Cardinality(Active)

\* do_work reads quit_flag_ before it pops: a thread starts at most one task
\* after quit() has stored the flag.
AtMostOneAfterQuit == \A r \in Threads : late[r] <= 1

\* quit() takes no lock, so it can be missed, but only by a looper that had
\* evaluated the predicate and not blocked when notify_all ran: any other
\* looper is awake once quit() has returned.
OnlyWindowStrands == quit_flag /\ quit_pc = "idle" => Asleep \subseteq missed

\* worker_service implements the abstract queue: FIFO start, exactly one runner.
TQ == INSTANCE TaskQueue WITH pending <- task_queue,
                              running <- {task[r] : r \in Running},
                              done <- finished
ImplementsTaskQueue == TQ!Spec

\* Every dispatched task completes, unless the service is told to quit.
EventuallyRun == \A t \in Tasks :
                   t \in Range(task_queue) ~> (t \in finished \/ quit_flag)

\* After quit() every looper leaves run_loop, or sleeps for good because it was
\* the one that missed the notification.
QuitStops == \A r \in Loopers :
               quit_flag ~> (pc[r] = "exited" \/ (pc[r] = "asleep" /\ r \in missed))
=============================================================================
