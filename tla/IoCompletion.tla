---------------------------- MODULE IoCompletion ----------------------------
(* io_completion_service::run_loop on an I/O completion port, with an          *)
(* io_completion_worker: a worker_service whose tasks are run by the threads   *)
(* of the port, each woken by a packet that dispatch posts after the push.     *)
(* The worker's threads are the port's threads, which only call run_one.       *)
EXTENDS WorkerService

CONSTANTS Contexts,     \* overlapped operations outstanding on the port, one call each
          NoHandler     \* a null completion key

ASSUME IoAssumption == Loopers = {} /\ IsFiniteSet(OneShots)
ASSUME ContextsAssumption == NoHandler \notin Contexts

IoThreads == OneShots

VARIABLES posting,    \* dispatch calls between worker_.dispatch and service_.dispatch
          packets,    \* packets of the worker in the port; they are all alike
          ctx,        \* per context: "pending", "done" or "failed" in the port, "served"
          port_open,  \* iocp_.handle_ is not NULL
          svc_quit,   \* the service's quit_flag_
          closing,    \* between the two statements of io_completion_service::quit
          io_pc,      \* run_loop: "test", "wait", "exited"
          key,        \* run_loop's local key: the handler of the last packet
          stray       \* history: io_broken(nullptr) calls made by each thread

ioOnly == <<posting, packets, ctx, port_open, svc_quit, closing, io_pc, key, stray>>
ioVars == <<vars, ioOnly>>

\* the completion key of the worker; a context stands for its file, pipe or socket
WorkerKey == "worker"

IoInit == /\ Init
          /\ posting = 0 /\ packets = 0
          /\ ctx = [c \in Contexts |-> "pending"]
          /\ port_open = TRUE /\ svc_quit = FALSE /\ closing = FALSE
          /\ io_pc = [r \in IoThreads |-> "test"]
          /\ key = [r \in IoThreads |-> NoHandler]
          /\ stray = [r \in IoThreads |-> 0]

-----------------------------------------------------------------------------
(* io_completion_worker::dispatch: the push, then the packet. *)

\* (mutant) the packet is forgotten
DispatchQuietly(t) == Dispatch(t) /\ UNCHANGED ioOnly

DispatchTask(t) == /\ Dispatch(t)
                   /\ posting' = posting + 1
                   /\ UNCHANGED <<packets, ctx, port_open, svc_quit, closing, io_pc, key, stray>>

\* a packet posted to a closed port is lost; the failure is only logged
Notify == packets' = IF port_open THEN packets + 1 ELSE packets

PostPacket == /\ posting > 0 /\ posting' = posting - 1
              /\ Notify
              /\ UNCHANGED <<vars, ctx, port_open, svc_quit, closing, io_pc, key, stray>>

-----------------------------------------------------------------------------
(* The system completes an operation, with success or with an error. *)

Complete(c) == /\ ctx[c] = "pending" /\ port_open
               /\ \E outcome \in {"done", "failed"} : ctx' = [ctx EXCEPT ![c] = outcome]
               /\ UNCHANGED <<vars, posting, packets, port_open, svc_quit, closing,
                              io_pc, key, stray>>

-----------------------------------------------------------------------------
(* io_completion_service::quit: set the flag, close the port.  What is queued  *)
(* in the port goes with it.                                                   *)

SetQuit == /\ ~svc_quit
           /\ svc_quit' = TRUE /\ closing' = TRUE
           /\ UNCHANGED <<vars, posting, packets, ctx, port_open, io_pc, key, stray>>

\* (mutant) the port is closed first
CloseEarly == /\ port_open /\ port_open' = FALSE /\ packets' = 0
              /\ UNCHANGED <<vars, posting, ctx, svc_quit, closing, io_pc, key, stray>>

ClosePort == /\ closing /\ closing' = FALSE
             /\ port_open' = FALSE /\ packets' = 0
             /\ UNCHANGED <<vars, posting, ctx, svc_quit, io_pc, key, stray>>

-----------------------------------------------------------------------------
(* io_completion_service::run_loop.  A thread is back from a handler when it   *)
(* is no longer inside run_one.                                                *)

Returned(r) == pc[r] = "idle"

TestFlag(r) == /\ io_pc[r] = "test" /\ Returned(r)
               /\ io_pc' = [io_pc EXCEPT ![r] = IF svc_quit THEN "exited" ELSE "wait"]
               /\ UNCHANGED <<vars, posting, packets, ctx, port_open, svc_quit, closing,
                              key, stray>>

Dequeued(r, handler) == /\ io_pc[r] = "wait" /\ port_open
                        /\ io_pc' = [io_pc EXCEPT ![r] = "test"]
                        /\ key' = [key EXCEPT ![r] = handler]
                        /\ UNCHANGED <<posting, port_open, svc_quit, closing, stray>>

\* (mutant) run_one is called without a packet
ServeUnasked(r) == /\ packets' = packets - 1
                   /\ Dequeued(r, WorkerKey)
                   /\ CallRunOne(r)
                   /\ UNCHANGED ctx

\* a packet of the worker: io_completed calls run_one
ServeWorker(r) == /\ packets > 0 /\ packets' = packets - 1
                  /\ Dequeued(r, WorkerKey)
                  /\ CallRunOne(r)
                  /\ UNCHANGED ctx

\* (mutant) packets of failed operations are not looked at
ServeSuccess(r, c) == /\ ctx[c] = "done"
                      /\ Dequeued(r, c)
                      /\ ctx' = [ctx EXCEPT ![c] = "served"]
                      /\ UNCHANGED <<vars, packets>>

\* a packet of an operation: io_completed or io_broken of its own handler
ServeContext(r, c) == /\ ctx[c] \in {"done", "failed"}
                      /\ Dequeued(r, c)
                      /\ ctx' = [ctx EXCEPT ![c] = "served"]
                      /\ UNCHANGED <<vars, packets>>

\* (mutant) the thread waits again
WaitAgain(r) == io_pc[r] = "wait" /\ ~port_open /\ UNCHANGED ioVars

\* the wait fails without a packet: the key is left as it was, and the handler
\* it names is told that its null context broke
WaitFails(r) == /\ io_pc[r] = "wait" /\ ~port_open
                /\ io_pc' = [io_pc EXCEPT ![r] = "test"]
                /\ stray' = [stray EXCEPT ![r] = IF key[r] = NoHandler THEN @ ELSE @ + 1]
                /\ UNCHANGED <<vars, posting, packets, ctx, port_open, svc_quit, closing, key>>

\* the thread is inside run_one
InWorker(r) == ThreadStep(r) /\ UNCHANGED ioOnly

IoStep(r) == \/ TestFlag(r) \/ ServeWorker(r) \/ WaitFails(r) \/ InWorker(r)
             \/ \E c \in Contexts : ServeContext(r, c)

IoNext == \/ \E t \in Tasks : DispatchTask(t)
          \/ PostPacket \/ SetQuit \/ ClosePort
          \/ \E c \in Contexts : Complete(c)
          \/ \E r \in IoThreads : IoStep(r)

IoSpec == IoInit /\ [][IoNext]_ioVars

\* threads run, callers finish what they began, and run_one returns once its
\* tasks have; the device may never complete, and nobody has to dispatch or quit
IoFairness == /\ \A r \in IoThreads : WF_ioVars(IoStep(r))
              /\ WF_ioVars(PostPacket) /\ WF_ioVars(ClosePort)

IoFairSpec == IoSpec /\ IoFairness

-----------------------------------------------------------------------------
(* Properties. *)

\* The type invariant of the port, the service and the run_loop locals.
IoTypeOK == /\ TypeOK
            /\ posting \in Nat /\ packets \in Nat
            /\ ctx \in [Contexts -> {"pending", "done", "failed", "served"}]
            /\ port_open \in BOOLEAN /\ svc_quit \in BOOLEAN /\ closing \in BOOLEAN
            /\ io_pc \in [IoThreads -> {"test", "wait", "exited"}]
            /\ key \in [IoThreads -> Contexts \cup {WorkerKey, NoHandler}]
            /\ stray \in [IoThreads -> Nat]

\* threads inside run_one that will look at the queue before they run a task
Heading == {r \in IoThreads : pc[r] \in {"lock", "work", "take", "relock"}}

\* The worker's queue is never left behind by the port: until the port closes,
\* every queued task has a packet in the port, a dispatch about to post one, or
\* a thread on its way to the queue, although a single run_one drains many
\* tasks and later packets find nothing.
PacketPerTask == port_open =>
                   Len(task_queue) <= packets + posting + Cardinality(Heading)

\* A thread reports a failed wait to the handler of its previous packet at most
\* once, and only after quit(), because the flag is set before the port closes.
StrayOnlyAtQuit == \A r \in IoThreads : stray[r] <= 1 /\ (stray[r] > 0 => svc_quit)

\* A completed operation reaches its handler, whatever tasks the threads run,
\* unless the service quits.
CompletionServed == \A c \in Contexts :
                      ctx[c] \in {"done", "failed"} ~> (ctx[c] = "served" \/ svc_quit)

\* quit() stops every thread of the port, also one that was waiting.
ServiceStops == \A r \in IoThreads : svc_quit ~> io_pc[r] = "exited"
=============================================================================
