# Verification of calf

calf (`src/include/calf`) is a header-only C++ library: a task queue, singletons and
logging for any platform, and wrappers of Windows (and a few Linux) system services:
completion ports, pipes, sockets, files, windows, graphics.  This directory holds TLA+
models of its concurrent and stateful parts, TLC configurations that check them on small
instances, and TLAPS proofs of the results that matter most for every value of the
constants.

File names below are relative to `src/include/calf`; `windows/` stands for
`platform/windows/`.

## Inventory

| Component | State it keeps | Operations | What is hard |
|---|---|---|---|
| `worker_service` (`worker_service.hpp`) | deque of tasks, mutex, condition variable, atomic quit flag | `run_loop`, `run_one`, `dispatch`, `packaged_dispatch`, `quit` | wakeups; the mutex is released around each task; `quit` takes no lock |
| completion port and worker (`windows/file_io.hpp` 60-171, 335-371) | port handle, quit flag, each thread's last key, a `worker_service` | `run_loop`, `dispatch`, `quit`, `io_completed`, `io_broken` | task and packet are posted in two steps; the port is closed under waiting threads; a failed wait leaves a stale key |
| `pipe_message_channel` (`windows/system_services.hpp` 181-390) | send and receive queues, two overlapped contexts with `is_pending`, `connected_flag_` | `send_message`, `send`, `receive`, completions, `receive_message` | reads cut the stream anywhere; one flag guards a context and is cleared by any packet |
| `pipe_message_service` (392-460) | list of channels, completion service, worker | `create_channel`, `close_channel`, `message_handler` | channels die while operations, packets and tasks still name them |
| `socket`, `socket_channel` (`windows/networking.hpp`) | send and receive buffers, two contexts, `connected_flag_` | `connect`, `accept`, `send_buffer`, `send`, `recv`, `recv_buffer`, completions | `send` runs on two threads at once; a completion can overtake the call that started it |
| `singleton` (`singleton.hpp`) | atomic pointer, mutex | `instance`, `release` | double-checked locking; release under users; reused addresses |
| `log_manager`, `logger` (`logging.hpp`) | targets by name, default name, mutex | `get_target`, `add_target`, `set_default_target`, `~logger` | the default name is read and written without the mutex; the targets, which loggers hold by reference, die with the manager |
| `file_channel`, `file_io_service`, `log_file_target` (`windows/file_io.hpp` 373-495) | write buffer, write context, mutex | `write`, `output` | swap and `WriteFile` are two steps; the file offset; a target's thread is never joined |
| Linux epoll service (`platform/linux/file_io.hpp`) | descriptor, event slots, quit flag | `run_loop`, `quit`, `register_fd` | stale slots; nothing wakes a waiting loop |
| windows and messages (`windows/window.hpp`, `thread_message.hpp`) | `hwnd_`, the pointer in the window's user data, lists of listeners, `class_name_` | constructors and destructors, `attach`, `detach`, `listen`, `WndProc`, `process`, `register_class`, `run`, `quit` | messages are calls into objects that may be half destroyed; listeners create and destroy windows; handles and class names outlive their objects |
| Direct3D device, swap chains, textures, layers (`graphics/directx/d3d11.hpp`) | the render target view and size of a chain, image and view of a texture, the context's target, viewport and pipeline | makers, `bind`, `resize`, `present`, `reset`, `render` | a step of a resize fails and leaves half a swap chain; state on the context is shared by the chains |
| dxgi, dcomp, d2d1, dwrite (`graphics/directx`) | COM pointers | creation and drawing calls | ownership |
| the rest: process, gdi, input, com, string, kernel_object, debugging, `system_event` | a handle or nothing | one system call each | ownership of the handle |
| `non_blocking_queue`, `message_queue` | | | the first does not compile, the second is empty |

How they interact.  `io_completion_worker` contains a `worker_service` whose tasks are run
by the port's threads: `dispatch` pushes the task and posts a packet, and the thread that
gets the packet calls `run_one`, which drains the queue.  Pipe channels, sockets and files
start overlapped operations on a context; the port's thread gets the packet with the object
as key and calls `io_completed` or `io_broken`, which calls the context's handler, which
calls the user's handler.  The pipe channel runs `send()` only as a task of the worker; the
socket channel runs it on the thread that calls `send_buffer`.  The pipe service creates,
connects and destroys channels with tasks of its own.  Every failed check logs, through
`log_manager::instance()`.  The window system calls `WndProc` on the thread that runs the
message loop or that calls into the system, and `WndProc` calls the object that the window
names; a swap chain, its textures and layers share the device's immediate context.

What makes each correct:

* the task queue loses no wakeup, runs every task exactly once in order, stops after `quit`;
* the port leaves no task behind, calls stale handlers only while quitting, stops;
* a pipe delivers whole messages, once, in order; a buffer the system reads is not replaced;
* a service keeps one listening instance, destroys broken channels, and leaves no reference;
* a socket sends and receives everything in order and reports failures;
* a singleton is one finished object; nobody deletes it twice;
* lines logged to a file are written once, in order, and stay in the file;
* a window calls only objects that live, an object destroys only its own window, and the
  window class stays while it is needed;
* drawing lands in the buffers that are presented and fills them, the buffers have the size
  asked for, and a layer shows the image its texture holds.

## Modules

| Module | Models | State and actions |
|---|---|---|
| `TaskQueue` | abstract: what `worker_service` promises | pending, running, done; `Submit`, `Start`, `Complete` |
| `WorkerService` | `worker_service` | each thread has a label for where it is in `run_loop`/`run_one`; one action per access to the queue, mutex, flag or condition variable; `QuitStore` and `QuitNotify` are the two statements of `quit` |
| `IoCompletion` | EXTENDS `WorkerService`: completion service and worker over it | `DispatchTask`/`PostPacket` are the two steps of `dispatch`, `SetQuit`/`ClosePort` those of `quit`; `ServeWorker`, `ServeContext`, `WaitFails` are what a wait may return |
| `MessageStream` | abstract: what a pipe channel promises | sent, delivered |
| `PipeChannel` | a sending and a receiving `pipe_message_channel` and the pipe between them | either end is the server; `link` says how far the `connect()` of each end is, and `ConnectNamedPipe` uses the read's context and its `is_pending`; messages are sequences of cells, so a read can cut header and body; `Send`, `ParseOne`, `ParseEnd` follow `send()` and the loop of `receive_completed` |
| `PipeService` | `pipe_message_service`, its channels' lives | the tasks of the worker, the packets of the port and the pending operations name the channels; actions are the tasks, the packets, the peer and the user.  A user's `send_message` is three steps: the call (for a channel whose user was not told that it broke), the push, the dispatch.  A write may pend, finish at once, or fail.  A dispatch's task and packet are one step |
| `SocketChannel` | `socket` and `socket_channel` | `send()` is four steps (test, swap, start, mark) on the main and on the I/O thread; `todo` is what a handler still has to call |
| `Singleton` | `instance()` and `release()` | one action per atomic access, lock, construction and deletion; addresses are reused |
| `Logging` | EXTENDS `Singleton`: the `log_manager` and CALF_LOG to `log_file_target` | the manager is made with its two targets and destroyed with all of them (`ConstructManager`, `DeleteManager`); `AddTarget` and the two steps of `SetDefaultTarget` are set-up calls of any logger; destroying a file target is `std::terminate` and ends the process (`terminated`); the steps of `file_channel::write`: append, swap under the mutex, `WriteFile` |
| `Graphics` | device, swap chains, textures, layers and their composition, one thread | buffers, images and views are numbers; a chain may be made with a zero dimension, and its buffers then take the window's (`BuffersFor`); each maker and each outcome of `resize` is an action (`ResizeIgnored`, `ResizeUnbound`, `ResizeRefused`, `BufferLost`, `ViewLost`, `ResizeDone`; `TextureResized`, `ImageLost`, `TextureViewLost`); `loop` is what a composition's loop has still to visit |
| `Window` | window objects, windows, the class, the message loop, one thread | `stack` holds the calls under way: the loop over listeners, `DestroyWindow` with its two messages, destructors and `attach` that wait for it; the user's code acts when the stack is empty or in a listener |
| `MC*` | the instances TLC checks | model values and small sets |
| `FoldLemmas`, `*Proofs` | lemmas and theorems | see "Proofs" |

Operators named in a comment with `(mutant)` are not part of the model: each is a plausible
mistake (a dropped guard, a missing notification, a swapped order), used to see that a
property can fail.

## Runs

| Run | Question | Bounds and why they are enough |
|---|---|---|
| `worker` | Wakeups, exactly-once FIFO (refinement of `TaskQueue`), one task at most per thread after `quit`, liveness | two loopers, one `run_one` thread, two tasks: one thread sleeps while another works and a third drains; `quit` and its repetition at any time |
| `io` | No task without a packet, stale keys, liveness of tasks, completions and `quit` | two port threads, two tasks, one operation: one thread drains both tasks while the other gets the second packet |
| `pipe_channel` | No byte lost, buffers stable, the chain of reads, refinement of `MessageStream`, delivery | three messages of different sizes (one without a body), reads of three cells with headers of two: reads cut headers, bodies and join messages; either end is the server and the client opens the pipe at any time; once with writes that all pend (pipe of four cells) and once with none that does |
| `pipe_mixed` | violated: a queued message is whole | a write completes at once if it fits in the pipe, else it pends |
| `pipe_service` | A server keeps one listener, broken channels are destroyed, a closed pipe goes unnoticed only in one way, what can outlive a channel | a server with two channels and two messages in all, so that one channel breaks while the next listens, and a `send_message` is overtaken by the close; a client with three calls and two messages from the peer on its channel: writes that pend and writes that finish at once share the context, and several are under way when the pipe breaks |
| `pipe_dangling` | violated: nothing names a destroyed channel | a server with two channels, one message on each |
| `socket` | Order and completeness both ways, chain of recvs, failures reported | both roles, two sends, two chunks from the peer, reset and shutdown at any time; sends that all pend or all finish at once |
| `socket_swap` | violated: swapping the buffers is enough | sends that pend |
| `logging` | One finished manager, good deletes, lines written once and in order, calls return | two loggers, one of them and a third thread release, two addresses so that a pointer can be stale and its address taken again, two lines so that two threads are in `write()`; any logger may set up the manager instead of logging, whose calls are not bounded, and a release with a file target, or a second one of the name, ends the process |
| `logging_file` | violated: a written line stays in the file | two lines |
| `graphics` | Drawing lands in the present buffers, buffers follow the size, a layer shows its image | two chains that take each other's place on the context; sizes that differ in none, one or both dimensions and one without area, which chains are made with too; three buffers, images or layers, so that a chain is resized twice or two textures trade images under a layer; one layer in the composition, whose visits are independent.  Chains and layers share no variable that either's steps read, so a behaviour has either (`Apart`), and chains, textures and layers are interchangeable (symmetry) |
| `window` | Windows call objects that live, objects own their windows, the class stays | two objects in a run, of either kind, and two handles, so that a closed window's handle is used again while its object lives; two listeners and listeners that act while two calls are under way (a listener of a window that a destructor or `attach` destroys); the static class object and another of the same name; window objects and handles are interchangeable |

Sequences, histories and counters are bounded by the constants named `Max...`, `PeerSends`,
by the finite sets of tasks and messages, and by nothing else.  Deadlock checking is off
where the system may rest (everything sent, or `quit`) and the models do not stutter
explicitly; liveness properties cover what must not stop.

Several properties hold only outside a race or a failure, which a history variable records.
Each exception is a statement about the code: without it TLC finds a counterexample.  (What
contradicts a comment or document of the source has a run of its own: `socket_swap`,
`pipe_mixed`, `pipe_dangling`, `logging_file`.)  An exception covers what it names and no
more:

* `overtaken` in `PipeService`, a set of channels: a `send_message` called before the user was
  told that the pipe broke dispatched its task afterwards.  Such a `send()` task, and no
  other, may name a destroyed channel (`OnlyWritesDangle`).
* `raced` in `SocketChannel`: both threads used the send context together; they were both in
  `send()`, or the I/O thread handled a completion of the context while the main thread was
  starting an operation with it.  It excuses only what is sent (`SentInOrder`,
  `EventuallySent`); what is received does not use that context.
* `overtaken` in `SocketChannel`: the completion of `accept()` was handled before the main
  thread had set `is_pending` of the recv context, which then stays set.  It alone excuses
  `RecvGoesOn` and `ResetReported`.
* `crowded` in `Logging`: a thread swapped the file's buffer before another had called
  `WriteFile`.  It excuses that a line is lost or written twice (`LinesKept`), not that one
  is left behind in `write_buffer_`.
* `terminated` in `Logging`: the process has ended (`CallsReturn`).
* `released` in `Singleton`: a user of an object that was released meanwhile
  (`PointersStayGood`, `CallsReturn` through "gone").  `LinesKept` needs no such exception,
  because a release that would destroy the file target ends the process.
* `missed` in `WorkerService`: a looper between predicate and sleep when `notify_all` ran.
* `Missed`, `Unnoticed` in `PipeService`: a client that came and went before the instance
  waited for it; a read that failed at once.
* `lost`, `refused`, `stale`, and sizes without area in `Graphics`; `released`, `closed` in
  `Window`: see below.

### What the runs found

* `windows/networking.hpp:591` and 587: two threads pass the test of `is_pending` and swap
  the buffer of a send under way (`socket_swap`).
* `windows/system_services.hpp:343`: the packet of a write that completed at once clears
  `is_pending` of the next, pending one, whose buffer is then replaced (`pipe_mixed`).
* `windows/system_services.hpp:446`: a pending write outlives its channel, or
  `close_channel` is dispatched twice (`pipe_dangling`).  Line 244: between the push of
  `send_message` and its dispatch the I/O thread can tell the user and dispatch
  `close_channel`; the `send()` task is then run for a destroyed channel (`overtaken` in
  `OnlyWritesDangle`).
* `windows/file_io.hpp:232`: a read that fails at once is only logged, and the channel
  stays for ever.  `BrokenIsClosed` names the exception (`Unnoticed`): the other end is
  closed, and neither a read, a packet nor a close task is left.
* `windows/file_io.hpp:262`: every write of a `file_channel` starts at offset zero
  (`logging_file`).  Line 494, with `singleton.hpp:33`: a file target's thread is not joined,
  so `release()` of a manager that has one, or adding a second of the name, calls
  `std::terminate`.
* `windows/networking.hpp:167`, 202 and 231: a completion that is handled before the thread
  that started the operation has set `is_pending` leaves it set for ever; no recv (167) or
  send is started again (`overtaken`, `raced`).
* `graphics/directx/d3d11.hpp:85`: `resize()` takes a new width with the old height for no
  change; line 88 keeps a size that `ResizeBuffers` then refuses (the exceptions of
  `SizeFollows`).  Line 105: after a `GetBuffer` that failed, `bind()` draws into buffers
  that are gone (`lost` in `TargetFits`).  Line 69: `bind()` leaves the viewport of another
  chain.  Line 607: a chain made with a zero dimension has buffers of the window's extent,
  and a viewport and an idea of its size without area.  Lines 248 and 284: a texture goes on showing an image it no longer holds
  (`stale` in `DrawsItsTexture`).
* `windows/window.hpp:557`: a detached window names its object for ever (`released` in
  `HandlerLives`).  Line 396: an object whose window was closed keeps the handle, and
  destroys the window that gets it next (`closed` in `OneOwner`).  Line 443: a class object
  that the system refused unregisters the class of another (`ClassStays`).  No comment or
  document says otherwise in these places, so they are exceptions of properties that hold
  and not violations.

### Fairness

A thread inside a call of the library goes on (weak fairness of its steps) because the
scheduler runs every runnable thread; a thread that waits for a `std::mutex` which becomes
free again and again gets it at last (strong fairness of the acquiring step: the standard
does not promise it, the platforms' mutexes do in practice, and without it nothing can be
said of any mutex-based program).  The system completes the overlapped operations it must
complete: those of a broken connection, a `ConnectEx`, which succeeds or times out, and in
the pipe and socket models the writes for which there is room, as long as the peer's system
takes them.  An `AcceptEx` or a `ConnectNamedPipe` may wait for ever, for nobody is obliged
to connect: `EventuallySent` counts a chunk once the channel has a peer (`Underway`), and
`EventuallyDelivered` a message once the client has opened the pipe.  Tasks return.  Nobody is obliged to dispatch, send, log, connect or quit;
spurious wakeups never have to happen.

## Proofs

Each proof module extends the module it is about; theorems hold for any number of threads,
tasks, messages, channels, windows and addresses, under the `ASSUME`s of the modules
(disjoint sets of threads, finitely many of them and of window objects, sizes that are
natural numbers), which TLC evaluates in the runs.  They are about the specifications
without fairness.  Every safety property that a passing run checks is the conclusion of a
theorem, under hypotheses only where this section names them.

| Module | About | Theorems |
|---|---|---|
| `FoldLemmas` | `FlattenSeq` and `SumFunction` of the community modules | lemmas only |
| `IoCompletionProofs` | `WorkerService`, `IoCompletion` | `TypeCorrect`, `AtMostOne`, `OnlyTheWindowStrands`, `NoLostWakeup`, `Refinement`; `IoTypeCorrect`, `StrayCalls`, `NoTaskLeftBehind`, `PortRefinement` |
| `PipeChannelProofs` | `PipeChannel` | `TypeCorrect`, `ReadsGoOn`, `PendingBufferStable`, `StableNothingLost`, `StableMessageWhole`, `StableStream`, `PendingNothingLost`, `PendingStream` |
| `PipeServiceProofs` | `PipeService` | `TypeCorrect`, `OnlyWritesOutlive`, `ListenerStays` |
| `SocketChannelProofs` | `SocketChannel` | `TypeCorrect`, `ReceivesInOrder`, `RecvStaysUnderWay`, `SendsInOrder` |
| `LoggingProofs` | `Singleton`, `Logging` | `AtMostOneObject`, `NoPointerDangles`; `OneLogManager`, `ManagerOutlivesLoggers`, `LinesAreKept`, `TypeCorrect` |
| `GraphicsProofs` | `Graphics` | `TargetsFit`, `SizesFollow`, `LayersDrawTheirTexture`, `TypeCorrect` |
| `WindowProofs` | `Window` | `ClassesStay`, `HandlersLive`, `OwnersDiffer`, `TypeCorrect` |

The arguments:

* Folds.  `FlattenSeq` and `SumFunction` are recursive functions of the library, so their
  values follow by induction, and the induction theorems of the library take an operator.
  `SetInduction` states the induction for the set of the numbers that have the property, from
  the well-foundedness of the order.  With it `FoldLemmas` shows what `FlattenSeq` makes of a
  sequence that is appended to, joined or cut, and that no number of a finite family exceeds
  their sum (`SumAbove`).  `Cat`, `Row` and the like bracket concatenations in one way and
  are kept folded, so that a step is an equation between a few names.
* `WorkerService`.  `Inv` strengthens the types with who holds the mutex (`MutexInv`: exactly
  the threads at the labels inside the lock), what such a thread knows (`QueueInv`: an empty
  queue at "window", a nonempty one at "take") and which thread has a task.  `NoLostWakeup`
  needs it because the count of threads on their way drops when one takes a task or falls
  asleep, and only the lock holder can do either.  `Refinement` adds `PlaceInv`: a task is in
  one place only.
* `IoCompletion`.  Every step of the port is a step of the worker or leaves it alone
  (`WorkerStep`), so `Inv` carries over, and so does the refinement: a worker on a port is
  the same queue, whatever its packets do (`PortRefinement`).  `NoTaskLeftBehind` is again a
  count: packets plus dispatches plus threads on their way; `StrayCalls` rests on the order
  flag, then close.
* `PipeChannel`, reads and writes.  `ReadsGoOn`: once the receiver is connected, one read is
  in flight or being parsed, and otherwise `is_pending` of the shared context is set only
  while `ConnectNamedPipe` is under way.
  `PendingBufferStable`: where every `WriteFile` pends, the guard on `is_pending` suffices;
  `WriteInv` says that the flag, the pending write and its packet go together, which the
  mixed system of `pipe_mixed` breaks.
* `PipeChannel`, the stream.  `StreamInv`: the messages parsed are the first ones sent, whole
  and in order (`OrderInv`), and the cells still on their way, from the half-parsed buffer
  back to the sender's queue, are those of the messages not parsed (`RestInv`).  A step of
  the parser therefore finds a header of the next message at `offset`, or less than one.
  This gives `NothingLost`, `MessageWhole` and each step of the refinement of
  `MessageStream`, in any behaviour in which `BufferStable` holds throughout.  That
  hypothesis is what the code does not ensure in general (`pipe_mixed`); where every
  `WriteFile` pends it is a theorem, and the results hold without it (`PendingNothingLost`,
  `PendingStream`).  Where none ever pends it holds because `writes` stays empty.
* `PipeService`.  What is under way for a channel is what its flags allow (`Stage`): a
  connect task or operation means a channel that has not connected, a read means type "read",
  a write means a channel that has sent.  Connections and reads are one at a time (`Single`).
  A channel whose user was told that it broke is past its reads, and its `send()` tasks are in
  front of the task that closes it unless one was overtaken (`Ending`, on positions in the
  queues: `Clear`), the messages not yet written, the one of a call before its push included,
  are at most those sent (`Left`), so that a channel nobody wrote to has no write, a
  channel nobody wrote to is closed once (`Unwritten`), and one not yet created has nothing
  (`Fresh`).  These hold of each channel by itself: a step is `Quiet` for all channels but
  one.  `OnlyWritesOutlive` reads them for a channel that is gone: a write, a
  second close and an overtaken `send()` task are all that can name it.  `ListenerStays` adds `Listener`:
  the channels before the newest are connected, and the newest waits or was missed.
* `SocketChannel`.  `ReceivesInOrder`: what was taken, `recv_buffer_`, the packets that bring
  chunks and what has arrived make one row (`RecvOrder`), and a pending recv leaves nothing
  unread.  `RecvStaysUnderWay`: `is_pending` of the recv context is never set without a recv
  or its packet, unless a completion of `accept()` overtook the call (`RecvOn`); it holds
  whatever the threads do with the send context.  `SendsInOrder` is for systems in which every `WSASend` returns in
  the same way, as in the run: `SendControl` says that one thread at a time is in `send()`
  unless they raced, and that with pending sends the flag, the send and its packet go
  together, so that the context holds one chunk sequence at a time.  On a mixed system the
  packet of a send that finished at once clears `is_pending` of a pending one, as in the pipe.
* `Singleton`.  `NoPointerDangles` joins `PublicationIsSafe`, `DeletesAreGood` and
  `PointersStayGood`.  `SInv` says that the mutex is held by exactly the threads at the
  labels inside it, that every object alive is the published one or in the hands of the lock
  holder, and that a pointer kept from before is not relied on.
* `Logging`.  `OneLogManager` and `ManagerOutlivesLoggers` carry `SInv` to the loggers.
  `LinesAreKept`: `LinesInv` adds to `LinesKept` that without crowding at most one thread is
  between the swap and `WriteFile`; the steps are then equations of concatenations.  A
  release does not disturb them: while the process lives a file target is never destroyed,
  and a logger whose target is gone never comes to write.  A line left in `write_buffer_`
  has a thread that is about to swap, because every append is followed by that thread's swap.
  `TypeCorrect` bounds the lines by counting the loggers that are still to log one (`Counted`).
* `Graphics`.  `TargetFits` alone is not inductive: `bind()` makes a target of whatever
  `rtv_` is, so the invariant says of every chain that `rtv_` is null or views the present
  buffers unless `GetBuffer` failed, and that a viewport set by a chain has its extent, or
  no area over the first buffers (`Targets`).  For `SizeFollows` it says that a chain's idea of its size is that of its
  buffers unless `ResizeBuffers` refused it or it has no area (`Believes`).  `LayersDrawTheirTexture`: `VInv`
  says that a view shows its texture's image or the texture is stale, and that the layers of
  the composition and of a loop under way have been made; while a loop has layers to visit,
  the visit is the only step (`OnlyVisits`).  `TypeCorrect` needs that only numbers that were
  given out are in use (`Given`).
* `Window`, classes and handlers.  `ClassesStay`: `CInv` adds to `ClassStays` that two living
  objects can both have registered the name only if one of them was robbed of it before.
  `HandlersLive`: `HInv` says where each window stands (`Owned`: given away, being
  destroyed, or held by a living object that is not in the middle of `attach`), that nothing
  knows an object not yet constructed (`Fresh`) and that an object with a destructor under
  way is not alive (`Doomed`).  Only the set of calls on the stack matters there, so the
  lemmas are about ranges of sequences; most steps are calm (`HCalm`).
* `Window`, handles.  `OwnersDiffer`: here the order of the calls matters.  `Tower` says that
  a call above one that will hand a window to an object neither destroys that window nor
  hands it to another, and that no `attach` to an object stands above its destructor.  With
  it, and as long as no call destroyed a window of another's object: a window in the hands of an
  `attach` is there and nobody's (`Handed`), so is a detached one (`Adrift`), and an object's
  handle names a window that exists, until the very call that takes the handle from it
  (`Backed`); a new window, whose handle was free, is then nobody else's.
* `Window`, types.  A listener may add listeners while the loop over them is under way;
  `Loops` says that a loop is past the end by at most the one step that ends it, which holds
  because listeners are never removed.  That their number stays in its bound uses `SumAbove`.

Model-checked only: the properties under fairness (`EventuallyRun`, `QuitStops`,
`CompletionServed`, `ServiceStops`, `EventuallyDelivered`, `BrokenIsClosed`,
`EventuallySent`, `ResetReported`, `CallsReturn`), because liveness and `ENABLED` are out of
the prover's reach.  On systems that mix writes that pend with writes that do not, the stream (`pipe_mixed`) and `SentInOrder` (TLC finds the
counterexample with `Systems = {{"sync", "pending"}}` and three sends) are false.

## What the models leave out

* Destroying an object while its threads still run, tasks that throw, and allocation
  failures: undefined or fatal in the code.
* Relaxed memory: atomics are sequentially consistent.  The acquire/release pairs of
  `singleton` give what the properties need; `quit_flag_` is one independent flag.
* The order of packets in `IoCompletion` (the port is a bag), and in `PipeService` and the
  channel models a second `run_loop` thread: the library's own services and samples start
  one.
* `PipeService` treats a message as one read or write (framing is in `PipeChannel`) and the
  two steps of the worker's `dispatch`, the task and then its packet, as one (`IoCompletion`
  has both).  They do not include the push of `send_message`, which is a step of its own.
* Calls on an object that was destroyed are undefined; the models say that they happen and go
  on as if they did nothing (`DropPacket`, `StaleSend`, `CallLost` in `PipeService`), or end
  the thread ("gone" in `Singleton` and `Logging`).  A new channel is never taken for a
  destroyed one whose memory it reuses.
* `Logging`: `CALF_LOG_TARGET`, which names its target and so reads no default, and two
  assignments of the default name at once.
* The sizes that are only checked in order to log (`max_buffer_size`), the text of log
  lines, the conversion of paths and addresses, `bind` and `listen`.
* A log file that cannot be opened, a `WriteFile` that fails, and checks that log while
  logging.  Their hazards are listed in PROJECT.json.
* `Graphics`: reference counts (the makers count one too many and nothing is freed), pixels,
  `clear`, `copy_from`, and the sampler and blend states, which are set with the target.  A
  call through a null pointer ends the behaviour (`crashed`).
* `Window`: menus, child windows, windows of other threads, and the contents of messages.
  `WM_CREATE` reaches an object without listeners and is not sent.  What a router's handlers
  answer is any answer.
* The components marked `not_modelled` in PROJECT.json, with the reason for each.

## Plan

Done, in this order: `TaskQueue`, `WorkerService`, `IoCompletion`, `MessageStream`,
`PipeChannel`, `PipeService`, `SocketChannel`, `Singleton`, `Logging`, `Graphics`, `Window`
and the proofs above.

Next:

1. Proofs: an abstract specification of a channel's life in `PipeService` and of the two
   byte streams of `SocketChannel`, with refinements on top of `Chan`, `RecvOrder` and
   `SendOrder`.
2. `EpollService`: the event slots, `epoll_wait` and `quit`; a context is dispatched once
   per event, `run_loop` ends after `quit`.
3. `Logging` with failing writes and nested loggers (the mutex of `file_channel` taken
   twice); `PipeService` with `close_channel` called by the user and with the destruction of
   the service; menus in `Window`.
