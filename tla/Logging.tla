------------------------------ MODULE Logging ------------------------------
(* CALF_LOG from several threads: log_manager::instance(), get_target, and in   *)
(* the logger's destructor the output, which for log_file_target is             *)
(* file_channel::write.  The file is opened for synchronous access and is not   *)
(* registered with the port: WriteFile returns when it has written, nothing     *)
(* pends and no completion comes.                                               *)
EXTENDS Singleton, Integers, Sequences

CONSTANTS Loggers,    \* threads that log
          Releasers,  \* threads that call log_manager::release()
          MaxLines    \* bound on the lines logged

ASSUME ThreadsAssumption == /\ Loggers \cup Releasers = Thread /\ IsFiniteSet(Loggers)
                            /\ MaxLines \in Nat

Standard == {"stdout", "stderr"}
Names == Standard \cup {"file"}

VARIABLES
  default,       \* default_target_
  targets,       \* targets_, the names in it; none when there is no manager
  target,        \* per thread, the logger's target_
  line,          \* per thread, its stream_
  lines,         \* history: how many lines have been logged
  write_buffer, context,  \* write_buffer_ and write_context_.buffer
  file,          \* the file, a line per cell
  output,        \* history: lines given to the file target
  written,       \* history: lines given to WriteFile
  elsewhere,     \* history: lines that went to stdout or nowhere
  crowded,       \* history: a thread swapped before another had called WriteFile
  terminated     \* std::terminate has ended the process

channelVars == <<write_buffer, context, file, output, written, crowded>>
managerVars == <<default, targets>>
loggerVars == <<target, line, lines, elsewhere>>
vars == <<singletonVars, managerVars, loggerVars, channelVars, terminated>>

LoggingInit ==
  /\ Init /\ default = "stdout" /\ targets = {}
  /\ target = [t \in Thread |-> "none"] /\ line = [t \in Thread |-> 0] /\ lines = 0
  /\ write_buffer = << >> /\ context = << >> /\ file = << >>
  /\ output = << >> /\ written = << >> /\ elsewhere = {} /\ crowded = FALSE
  /\ terminated = FALSE

-----------------------------------------------------------------------------
(* log_manager.  A log_file_target has a std::thread that nobody joins: to      *)
(* destroy one is to call std::terminate.                                       *)

ConstructManager(t) == /\ Construct(t)
                       /\ default' = "stdout" /\ targets' = Standard
                       /\ UNCHANGED <<loggerVars, channelVars, terminated>>

\* the targets die with the manager, under the loggers that still have one
DeleteManager(t) ==
  /\ UNCHANGED <<default, line, lines, elsewhere, channelVars>>
  /\ \/ /\ "file" \notin targets /\ Delete(t) /\ targets' = {}
        /\ target' = [u \in Thread |-> IF target[u] = "none" THEN "none" ELSE "dangling"]
        /\ UNCHANGED terminated
     \/ /\ "file" \in targets /\ pc[t] = "delete" /\ terminated' = TRUE
        /\ UNCHANGED <<singletonVars, targets, target>>

\* what a thread does with the manager that instance() returned: CALF_LOG asks it for
\* a target, the program's set-up adds a target or changes the default
HasManager(t) == pt[t] \in built

singletonRest == <<instance, mutex, memory, pt, released>>

\* where there is one of the name, the new target is destroyed
AddTarget(t) == /\ HasManager(t) /\ Goes(t, "use", "idle")
                /\ targets' = targets \cup {"file"}
                /\ terminated' = ("file" \in targets)
                /\ UNCHANGED <<singletonRest, default, loggerVars, channelVars>>

Assigning == \E t \in Thread : pc[t] = "assign"

\* The assignment of a string takes its time, and no mutex; the program does not
\* make two at once.
SetDefaultTarget(t) ==
  /\ HasManager(t)
  /\ \/ ~Assigning /\ Goes(t, "use", "assign") /\ UNCHANGED default
     \/ Goes(t, "assign", "idle") /\ default' \in Names
  /\ UNCHANGED <<singletonRest, targets, loggerVars, channelVars, terminated>>

\* what a reader of default_target_ may see
Readable == IF Assigning THEN Names \cup {"garbled"} ELSE {default}

\* get_target(nullptr): by the default name, read without the mutex; when there is
\* no such target the default name is read again
GetTarget(t) ==
  /\ HasManager(t) /\ Goes(t, "use", "stream")
  /\ \E first, second \in Readable :
       target' = [target EXCEPT ![t] = IF first \in targets THEN first
                                       ELSE IF second \in targets THEN second ELSE "none"]
  /\ lines' = lines + 1 /\ line' = [line EXCEPT ![t] = lines + 1]
  /\ UNCHANGED <<singletonRest, managerVars, elsewhere, channelVars, terminated>>

\* the manager or the target was released under the caller; what follows is undefined
Dangles(t) == /\ \/ ~HasManager(t) /\ (Goes(t, "use", "gone") \/ Goes(t, "assign", "gone"))
                 \/ target[t] = "dangling" /\ Goes(t, "stream", "gone")
              /\ UNCHANGED <<singletonRest, managerVars, loggerVars, channelVars, terminated>>

-----------------------------------------------------------------------------
(* ~logger and file_channel::write *)

OutputElsewhere(t) == /\ target[t] \in Standard \cup {"none"} /\ Goes(t, "stream", "idle")
                      /\ elsewhere' = elsewhere \cup {line[t]}
                      /\ UNCHANGED <<singletonRest, managerVars, target, line, lines,
                                     channelVars, terminated>>

\* write(data, size), up to the unlock; write() finds that nothing pends
Output(t) == /\ target[t] = "file" /\ Goes(t, "stream", "swap")
             /\ write_buffer' = Append(write_buffer, line[t])
             /\ output' = Append(output, line[t])
             /\ UNCHANGED <<singletonRest, managerVars, loggerVars, context, file, written,
                            crowded, terminated>>

\* (mutant) the swapped-in old contents stay
NotCleared == context

\* after the swap: write_buffer_.clear()
Cleared == << >>

\* under write_mutex_
Swap(t) == /\ \/ write_buffer = << >> /\ Goes(t, "swap", "idle")
                 /\ UNCHANGED <<write_buffer, context, crowded>>
              \/ /\ write_buffer # << >> /\ Goes(t, "swap", "write")
                 /\ context' = write_buffer /\ write_buffer' = Cleared
                 /\ crowded' = (crowded \/ \E other \in Thread : pc[other] = "write")
           /\ UNCHANGED <<singletonRest, managerVars, loggerVars, file, output, written,
                          terminated>>

\* WriteFile at the offset of the OVERLAPPED, which is never anything but zero
WriteFile(t) == /\ Goes(t, "write", "idle")
                /\ file' = context \o SubSeq(file, Len(context) + 1, Len(file))
                /\ written' = written \o context
                /\ UNCHANGED <<singletonRest, managerVars, loggerVars, write_buffer, context,
                               output, crowded, terminated>>

-----------------------------------------------------------------------------
loggingVars == <<managerVars, loggerVars, channelVars, terminated>>

\* threads that may be going to log a line
Arriving == {t \in Loggers : pc[t] \notin {"idle", "gone", "assign", "stream", "swap", "write"}}

\* a thread calls instance(); bounded as if all of them logged
Log(t) == FirstCheck(t) /\ lines + Cardinality(Arriving) < MaxLines

\* inside CALF_LOG, a call to the manager or release(), locks apart
Proceeds(t) == ~terminated /\ \/ Between(t) /\ UNCHANGED loggingVars
                              \/ ConstructManager(t) \/ DeleteManager(t)
                              \/ AddTarget(t) \/ SetDefaultTarget(t)
                              \/ GetTarget(t) \/ Dangles(t)
                              \/ OutputElsewhere(t) \/ Output(t) \/ Swap(t) \/ WriteFile(t)

Locks(t) == ~terminated /\ (LockInstance(t) \/ LockRelease(t)) /\ UNCHANGED loggingVars

Begins == /\ ~terminated /\ UNCHANGED loggingVars
          /\ \/ \E t \in Loggers : Log(t)
             \/ \E t \in Releasers : LoadToRelease(t)

LoggingNext == Begins \/ \E t \in Thread : Proceeds(t) \/ Locks(t)

LoggingSpec == LoggingInit /\ [][LoggingNext]_vars

\* a thread inside a call goes on, and gets the mutex it waits for if it is free
\* again and again; nobody has to log
FairSpec == /\ LoggingSpec
            /\ \A t \in Thread : WF_vars(Proceeds(t)) /\ SF_vars(Locks(t))

-----------------------------------------------------------------------------
(* Properties. *)

Line == 1 .. MaxLines
Holding == {"construct", "store", "delete"}

\* The type invariant of the singleton, the manager, the loggers and the channel.
TypeOK == /\ instance \in Address \cup {Null} /\ mutex \in Thread \cup {Null}
          /\ alive \subseteq Address /\ built \subseteq alive
          /\ pc \in [Thread -> {"idle", "lock", "recheck", "new", "lock release", "exchange",
                             "use", "assign", "gone", "stream", "swap", "write"} \cup Holding]
          /\ pt \in [Thread -> Address \cup {Null}]
          /\ \A t \in Thread : pc[t] \in Holding => pt[t] \in Address
          /\ default \in Names /\ targets \subseteq Names
          /\ target \in [Thread -> Names \cup {"none", "dangling"}] /\ terminated \in BOOLEAN
          /\ lines \in 0 .. MaxLines /\ line \in [Thread -> 0 .. MaxLines]
          /\ \A s \in {write_buffer, context, file, output, written} : s \in Seq(Line)
          /\ elsewhere \subseteq Line

Unwritten == IF \E t \in Thread : pc[t] = "write" THEN context ELSE << >>

\* Whatever is released, every line given to the file target is handed to WriteFile
\* once and in order, unless a thread swaps its buffer in before another has called
\* WriteFile; and none is left in write_buffer_ with no thread about to swap it.
LinesKept == /\ ~crowded => output = written \o Unwritten \o write_buffer
             /\ write_buffer # << >> => \E t \in Thread : pc[t] = "swap"

\* What is called returns, unless the process has ended or its object was released:
\* the mutex of the singleton is never left locked.
CallsReturn == \A t \in Thread : pc[t] # "idle" ~> pc[t] \in {"idle", "gone"} \/ terminated

\* A line that was written to the file is in the file.
FileKeepsLines == \A i \in DOMAIN written : \E j \in DOMAIN file : file[j] = written[i]
=============================================================================
