----------------------------- MODULE Singleton -----------------------------
(* singleton<T>: instance() with double-checked locking and release(), called  *)
(* by any thread at any time.  Memory is a set of addresses; one that was       *)
(* deleted may be allocated again.                                             *)
EXTENDS FiniteSets

CONSTANTS Thread, Address, Null

ASSUME NullAssumption == Null \notin Address /\ Null \notin Thread

VARIABLES
  instance,   \* instance_
  mutex,      \* the owner of mutex_, or Null
  alive,      \* addresses allocated and not deleted
  built,      \* those whose constructor has finished
  pc,         \* per thread, where it is in instance() or release()
  pt,         \* per thread, the local pointer
  released    \* history: release() deleted an object

memory == <<alive, built>>
singletonVars == <<instance, mutex, memory, pc, pt, released>>

Init == /\ instance = Null /\ mutex = Null /\ alive = {} /\ built = {}
        /\ pc = [t \in Thread |-> "idle"] /\ pt = [t \in Thread |-> Null]
        /\ released = FALSE

Goes(t, from, to) == pc[t] = from /\ pc' = [pc EXCEPT ![t] = to]

-----------------------------------------------------------------------------
(* instance() *)

\* the load before the lock
FirstCheck(t) == /\ Goes(t, "idle", IF instance = Null THEN "lock" ELSE "use")
                 /\ pt' = [pt EXCEPT ![t] = instance]
                 /\ UNCHANGED <<instance, mutex, memory, released>>

Lock(t, from, to) == /\ mutex = Null /\ mutex' = t /\ Goes(t, from, to)
                     /\ UNCHANGED <<instance, memory, pt, released>>

\* (mutant) the pointer is not loaded again under the lock
NoSecondCheck(t) == /\ Goes(t, "recheck", "new")
                    /\ UNCHANGED <<instance, mutex, memory, pt, released>>

\* the load under the lock
SecondCheck(t) ==
  /\ pt' = [pt EXCEPT ![t] = instance]
  /\ \/ instance = Null /\ Goes(t, "recheck", "new") /\ UNCHANGED mutex
     \/ instance # Null /\ Goes(t, "recheck", "use") /\ mutex' = Null
  /\ UNCHANGED <<instance, memory, released>>

Allocate(t) == /\ Goes(t, "new", "construct")
               /\ \E a \in Address \ alive : /\ alive' = alive \cup {a}
                                             /\ pt' = [pt EXCEPT ![t] = a]
               /\ UNCHANGED <<instance, mutex, built, released>>

Construct(t) == /\ Goes(t, "construct", "store")
                /\ built' = built \cup {pt[t]}
                /\ UNCHANGED <<instance, mutex, alive, pt, released>>

\* (mutant) the mutex is not unlocked
StoreLocked(t) == /\ Goes(t, "store", "use") /\ instance' = pt[t]
                  /\ UNCHANGED <<mutex, memory, pt, released>>

\* publish and unlock
Store(t) == /\ Goes(t, "store", "use") /\ instance' = pt[t] /\ mutex' = Null
            /\ UNCHANGED <<memory, pt, released>>

-----------------------------------------------------------------------------
(* release() *)

\* (mutant) a null pointer is not looked at
LoadAnything(t) == /\ Goes(t, "idle", "lock release")
                   /\ pt' = [pt EXCEPT ![t] = instance]
                   /\ UNCHANGED <<instance, mutex, memory, released>>

LoadToRelease(t) == /\ instance # Null /\ Goes(t, "idle", "lock release")
                    /\ pt' = [pt EXCEPT ![t] = instance]
                    /\ UNCHANGED <<instance, mutex, memory, released>>

\* (mutant) the outcome of the exchange is not looked at
DeleteAnyway(t) ==
  /\ Goes(t, "exchange", "delete") /\ instance' = Null
  /\ UNCHANGED <<mutex, memory, pt, released>>

\* a failed exchange loads the pointer instead
CompareExchange(t) ==
  /\ \/ /\ instance = pt[t] /\ instance' = Null /\ Goes(t, "exchange", "delete")
        /\ UNCHANGED <<mutex, pt>>
     \/ /\ instance # pt[t] /\ mutex' = Null /\ Goes(t, "exchange", "idle")
        /\ pt' = [pt EXCEPT ![t] = instance] /\ UNCHANGED instance
  /\ UNCHANGED <<memory, released>>

\* delete and unlock
Delete(t) == /\ Goes(t, "delete", "idle")
             /\ alive' = alive \ {pt[t]} /\ built' = built \ {pt[t]}
             /\ pt' = [pt EXCEPT ![t] = Null] /\ mutex' = Null /\ released' = TRUE
             /\ UNCHANGED instance

-----------------------------------------------------------------------------
\* the caller of instance() has finished with the pointer
Leave(t) == /\ Goes(t, "use", "idle")
            /\ UNCHANGED <<instance, mutex, memory, pt, released>>

LockInstance(t) == Lock(t, "lock", "recheck")
LockRelease(t) == Lock(t, "lock release", "exchange")

\* what a thread inside a call does next, but for taking the mutex and for running
\* the constructor or the destructor
Between(t) == SecondCheck(t) \/ Allocate(t) \/ Store(t) \/ CompareExchange(t)

\* what a thread inside a call does next, locks apart
Inside(t) == Between(t) \/ Construct(t) \/ Delete(t)

Calls(t) == \/ FirstCheck(t) \/ LoadToRelease(t)
            \/ LockInstance(t) \/ LockRelease(t) \/ Inside(t)

Next == \E t \in Thread : Calls(t) \/ Leave(t)

Spec == Init /\ [][Next]_singletonVars

-----------------------------------------------------------------------------
(* Properties. *)

\* Two threads never construct an object each: at any time at most one exists.
OneObject == \A a, b \in alive : a = b

\* A thread that loads the pointer without the lock finds a finished object.
PublishedIsBuilt == instance # Null => instance \in built

\* release() deletes an object that exists, however many threads release at once
\* and whatever address the next object gets.
DeletesLive == \A t \in Thread : pc[t] = "delete" => pt[t] \in built

\* The pointer a caller of instance() holds is good until somebody calls release().
UsersLive == ~released => \A t \in Thread : pc[t] = "use" => pt[t] \in built

\* No pointer to a missing or unfinished object is loaded, deleted or used, but for
\* the use of one that somebody has released.
NothingDangles == PublishedIsBuilt /\ DeletesLive /\ UsersLive
=============================================================================
