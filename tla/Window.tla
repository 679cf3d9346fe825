------------------------------- MODULE Window -------------------------------
(* window.hpp and thread_message.hpp: window objects, their windows, the class *)
(* the windows belong to and the message loop, all on one thread.  A message is *)
(* a call: WndProc calls the handler of the window, the handler calls listeners, *)
(* and a listener may create, destroy or detach windows while the calls above  *)
(* it are under way.  The calls under way are `stack`.                         *)
EXTENDS Integers, Sequences, FiniteSets, Functions

CONSTANTS Own,            \* objects of class window, which handle their messages
          Routed,         \* basic_window objects, whose handler is a router
          ClassObject,    \* application_window_class objects with the same name
          Static,         \* the one in window's constructor
          Handle,         \* window handles, which the system uses again
          None,           \* no handle
          MaxObjects,     \* bound on the objects constructed
          MaxListeners,   \* bound on the listeners
          MaxDepth        \* bound on the calls under a listener that acts

ASSUME WindowAssumption ==
  /\ Static \in ClassObject /\ None \notin Handle \cup Own \cup Routed
  /\ Own \cap Routed = {} /\ IsFiniteSet(Own)
  /\ {MaxObjects, MaxListeners, MaxDepth} \subseteq Nat

VARIABLES
  life,        \* per object: "none", "alive", "dying" in its destructor, "dead"
  hwnd,        \* hwnd_
  userdata,    \* per handle: the object that its GWLP_USERDATA names, None when no window
  listeners,   \* window_handler_map_: per window object and name, how many
  claimed,     \* window objects whose message_state.result is set
  stack,       \* the calls under way, the innermost first
  running,     \* thread_message_service::run is under way
  quit,        \* WM_QUIT is posted
  class,       \* per class object: "unnamed", "named" when class_name_ is set, "gone"
  registered,  \* the system knows the class name
  loose,       \* handles of windows that detach() returned
  (* histories: *)
  registrar,   \* class objects that registered the name
  closed,      \* objects whose window another call destroyed
  released     \* handles of windows that an object gave up with detach()

objectVars == <<life, hwnd, userdata, loose, closed, released>>
listenVars == <<listeners, claimed>>
loopVars == <<running, quit>>
classVars == <<class, registered, registrar>>
vars == <<objectVars, listenVars, stack, loopVars, classVars>>

Object == Own \cup Routed
Name == {"destroy", "unknown"}

Init == /\ life = [o \in Object |-> "none"] /\ hwnd = [o \in Object |-> None]
        /\ userdata = [h \in Handle |-> None]
        /\ listeners = [o \in Own |-> [n \in Name |-> 0]] /\ claimed = {}
        /\ stack = << >> /\ running = FALSE /\ quit = FALSE
        /\ class = [k \in ClassObject |-> "unnamed"] /\ registered = FALSE
        /\ registrar = {} /\ loose = {} /\ closed = {} /\ released = {}

Exists(h) == h \in Handle /\ userdata[h] # None

\* The name under which window::process looks for listeners.  WM_CREATE comes
\* while the window is constructed, when it has no listener yet.
NameOf(msg) == IF msg = "destroy" THEN "destroy" ELSE "unknown"

Loop(o, name, next) ==
  [call |-> "loop", object |-> o, name |-> name, next |-> next, inside |-> FALSE]
Default(h) == [call |-> "default", handle |-> h]
Destroy(h, step) == [call |-> "destroy", handle |-> h, step |-> step]
Destruct(o) == [call |-> "destruct", object |-> o]
Take(o, h) == [call |-> "attach", object |-> o, handle |-> h]

Innermost(call) == stack # << >> /\ Head(stack).call = call
InListener == Innermost("loop") /\ Head(stack).inside

\* the program's own code runs: before or after run(), or in a listener
Acts == IF stack = << >> THEN ~running ELSE InListener /\ Len(stack) <= MaxDepth

\* a window is being destroyed by a call under way
Leaving(h) == \E i \in DOMAIN stack : stack[i].call = "destroy" /\ stack[i].handle = h

-----------------------------------------------------------------------------
(* Messages. *)

\* window_message_router::process: whether its handlers, whatever they are, take
\* the message
RouterTakes == BOOLEAN

\* WndProc calls the handler with a message.  What follows, `rest`, begins with
\* what the system does if the handler does not take it; a handler that is gone
\* hears nothing, if it does anything at all.
Sends(h, msg, default, rest) ==
  LET o == userdata[h]
  IN IF o \in Own
       THEN stack' = (IF life[o] = "alive" THEN <<Loop(o, NameOf(msg), 1)>> ELSE << >>)
                       \o default \o rest
       ELSE \E taken \in RouterTakes : stack' = (IF taken THEN << >> ELSE default) \o rest

\* run() waits for messages
Run == /\ stack = << >> /\ ~running /\ running' = TRUE
       /\ UNCHANGED <<objectVars, listenVars, stack, quit, classVars>>

Quit == /\ Acts /\ ~quit /\ quit' = TRUE
        /\ UNCHANGED <<objectVars, listenVars, stack, running, classVars>>

RunReturns == /\ stack = << >> /\ running /\ quit
              /\ running' = FALSE /\ quit' = FALSE
              /\ UNCHANGED <<objectVars, listenVars, stack, classVars>>

\* run() dispatches a message of the user's; the system closes the window
\* if the handler does not take its WM_CLOSE
Dispatch(h, msg) == /\ running /\ stack = << >> /\ Exists(h)
                    /\ Sends(h, msg, IF msg = "close" THEN <<Default(h)>> ELSE << >>, << >>)
                    /\ UNCHANGED <<objectVars, listenVars, loopVars, classVars>>

\* DefWindowProc destroys the window
DefaultCloses == /\ Innermost("default")
                 /\ LET h == Head(stack).handle
                    IN stack' = (IF Exists(h) THEN <<Destroy(h, 1)>> ELSE << >>) \o Tail(stack)
                 /\ UNCHANGED <<objectVars, listenVars, loopVars, classVars>>

\* DestroyWindow sends two messages before the window is gone
DestroySends == /\ Innermost("destroy")
                /\ LET h == Head(stack).handle
                       step == Head(stack).step
                   IN /\ step <= 2
                      /\ Sends(h, <<"destroy", "ncdestroy">>[step], << >>,
                               <<Destroy(h, step + 1)>> \o Tail(stack))
                /\ UNCHANGED <<objectVars, listenVars, loopVars, classVars>>

\* the object whose call destroys its window, if it is not the system's
Destroyer == {o \in Object : /\ Len(stack) > 1 /\ stack[2].call \in {"destruct", "attach"}
                             /\ stack[2].object = o}

DestroyEnds == /\ Innermost("destroy") /\ Head(stack).step = 3
               /\ LET h == Head(stack).handle
                  IN /\ userdata' = [userdata EXCEPT ![h] = None]
                     /\ closed' = closed \cup ({o \in Object : hwnd[o] = h} \ Destroyer)
                     /\ loose' = loose \ {h} /\ released' = released \ {h}
               /\ stack' = Tail(stack)
               /\ UNCHANGED <<life, hwnd, listenVars, loopVars, classVars>>

\* (mutant) the end of the list is not looked for
CallAnyway == /\ Innermost("loop") /\ ~Head(stack).inside
              /\ stack' = [stack EXCEPT ![1].inside = TRUE]
              /\ UNCHANGED <<objectVars, listenVars, loopVars, classVars>>

\* one turn of the loop in window::process
CallListener == /\ Innermost("loop") /\ ~Head(stack).inside
                /\ Head(stack).next <= listeners[Head(stack).object][Head(stack).name]
                /\ stack' = [stack EXCEPT ![1].inside = TRUE]
                /\ UNCHANGED <<objectVars, listenVars, loopVars, classVars>>

\* The loop is left when a listener has set the result, which nobody resets, or
\* when it destroyed the window object: nothing is defined after that.
ListenerReturns == /\ InListener
                   /\ stack' = IF \/ Head(stack).object \in claimed
                                  \/ life[Head(stack).object] # "alive"
                                 THEN Tail(stack)
                                 ELSE [stack EXCEPT ![1] = Loop(@.object, @.name, @.next + 1)]
                   /\ UNCHANGED <<objectVars, listenVars, loopVars, classVars>>

LoopEnds == /\ Innermost("loop") /\ ~Head(stack).inside
            /\ Head(stack).next > listeners[Head(stack).object][Head(stack).name]
            /\ stack' = Tail(stack)
            /\ UNCHANGED <<objectVars, listenVars, loopVars, classVars>>

\* a listener sets message_state.result
Claim == /\ InListener /\ life[Head(stack).object] = "alive"
         /\ claimed' = claimed \cup {Head(stack).object}
         /\ UNCHANGED <<objectVars, listeners, stack, loopVars, classVars>>

\* the listeners of all window objects
Total == SumFunction([x \in Own \X Name |-> listeners[x[1]][x[2]]])

Listen(o, name) == /\ Acts /\ life[o] = "alive" /\ Total < MaxListeners
                   /\ listeners' = [listeners EXCEPT ![o][name] = @ + 1]
                   /\ UNCHANGED <<objectVars, claimed, stack, loopVars, classVars>>

-----------------------------------------------------------------------------
(* The window class. *)

Unregister == /\ registered /\ \A h \in Handle : ~Exists(h)
              /\ registered' = FALSE

\* (mutant) a class object that is refused cleans up
CleansUp(k) == /\ class[k] = "unnamed" /\ class' = [class EXCEPT ![k] = "named"]
               /\ \/ ~registered /\ registered' = TRUE /\ registrar' = registrar \cup {k}
                  \/ Unregister /\ UNCHANGED registrar

\* register_class keeps the name, and the system refuses a second class of the name
RegisterClass(k) == /\ class[k] = "unnamed" /\ class' = [class EXCEPT ![k] = "named"]
                    /\ registered' = TRUE
                    /\ registrar' = IF registered THEN registrar ELSE registrar \cup {k}

Register(k) == /\ stack = << >> /\ ~running /\ k # Static /\ RegisterClass(k)
               /\ UNCHANGED <<objectVars, listenVars, stack, loopVars>>

\* the destructor unregisters the name, whoever registered it; the system refuses
\* while there are windows of the class
UnregisterClass(k) ==
  /\ stack = << >> /\ ~running /\ k # Static /\ class[k] # "gone"
  /\ class' = [class EXCEPT ![k] = "gone"]
  /\ IF class[k] = "named" /\ (\A h \in Handle : ~Exists(h))
       THEN registered' = FALSE ELSE UNCHANGED registered
  /\ UNCHANGED <<objectVars, listenVars, stack, loopVars, registrar>>

-----------------------------------------------------------------------------
(* Window objects. *)

\* create_window: the handle is null if the system has no such class or fails
Creates(o) == /\ life' = [life EXCEPT ![o] = "alive"]
              /\ \/ /\ registered'
                    /\ \E h \in Handle : /\ ~Exists(h) /\ hwnd' = [hwnd EXCEPT ![o] = h]
                                         /\ userdata' = [userdata EXCEPT ![h] = o]
                 \/ UNCHANGED <<hwnd, userdata>>
              /\ UNCHANGED <<listenVars, stack, loopVars, loose, closed, released>>

New(o) == life[o] = "none" /\ Cardinality({p \in Object : life[p] # "none"}) < MaxObjects

\* window::window: the first one registers the class
ConstructWindow(o) == /\ Acts /\ New(o)
                      /\ IF class[Static] = "unnamed" THEN RegisterClass(Static)
                                                      ELSE UNCHANGED classVars
                      /\ Creates(o)

ConstructRouted(o) == /\ Acts /\ New(o)
                      /\ UNCHANGED classVars /\ Creates(o)

\* destroy_window: what valid() finds at the handle is destroyed, unless that is
\* under way
DestroyWindow(o) == IF Exists(hwnd[o]) /\ ~Leaving(hwnd[o])
                      THEN <<Destroy(hwnd[o], 1)>> ELSE << >>

\* ~basic_window, which runs when the handler part of a window object is gone
DestructStarts(o) == /\ Acts /\ life[o] = "alive"
                     /\ life' = [life EXCEPT ![o] = "dying"]
                     /\ stack' = DestroyWindow(o) \o <<Destruct(o)>> \o stack
                     /\ UNCHANGED <<hwnd, userdata, loose, closed, released, listenVars,
                                    loopVars, classVars>>

DestructEnds == /\ Innermost("destruct") /\ stack' = Tail(stack)
                /\ life' = [life EXCEPT ![Head(stack).object] = "dead"]
                /\ hwnd' = [hwnd EXCEPT ![Head(stack).object] = None]
                /\ UNCHANGED <<userdata, loose, closed, released, listenVars, loopVars,
                               classVars>>

Windows(h) == {g \in {h} : Exists(g)}

\* (mutant) the object keeps the handle
DetachKeeps(o) == /\ Acts /\ life[o] = "alive" /\ hwnd[o] # None
                  /\ loose' = loose \cup Windows(hwnd[o])
                  /\ released' = released \cup Windows(hwnd[o])
                  /\ UNCHANGED <<life, hwnd, userdata, closed, listenVars, stack, loopVars,
                                 classVars>>

Detach(o) == /\ Acts /\ life[o] = "alive" /\ hwnd[o] # None
             /\ loose' = loose \cup Windows(hwnd[o])
             /\ released' = released \cup Windows(hwnd[o])
             /\ hwnd' = [hwnd EXCEPT ![o] = None]
             /\ UNCHANGED <<life, userdata, closed, listenVars, stack, loopVars, classVars>>

\* (mutant) the window that the object had is left alone
TakesOver(o, h) == /\ Acts /\ life[o] = "alive" /\ h \in loose
                   /\ loose' = loose \ {h} /\ stack' = <<Take(o, h)>> \o stack
                   /\ UNCHANGED <<life, hwnd, userdata, closed, released, listenVars, loopVars,
                                  classVars>>

\* attach takes the handle of a window that a detach returned, and destroys its own
\* window first
AttachStarts(o, h) == /\ Acts /\ life[o] = "alive" /\ h \in loose
                      /\ loose' = loose \ {h}
                      /\ stack' = DestroyWindow(o) \o <<Take(o, h)>> \o stack
                      /\ UNCHANGED <<life, hwnd, userdata, closed, released, listenVars,
                                     loopVars, classVars>>

AttachEnds == /\ Innermost("attach") /\ stack' = Tail(stack)
              /\ hwnd' = IF life[Head(stack).object] = "alive"
                           THEN [hwnd EXCEPT ![Head(stack).object] = Head(stack).handle]
                           ELSE hwnd
              /\ UNCHANGED <<life, userdata, loose, closed, released, listenVars, loopVars,
                             classVars>>

-----------------------------------------------------------------------------
Next == \/ Run \/ Quit \/ RunReturns
        \/ \E h \in Handle, msg \in {"close", "other"} : Dispatch(h, msg)
        \/ DefaultCloses \/ DestroySends \/ DestroyEnds
        \/ CallListener \/ ListenerReturns \/ LoopEnds \/ Claim
        \/ \E o \in Own, name \in Name : Listen(o, name)
        \/ \E k \in ClassObject : Register(k) \/ UnregisterClass(k)
        \/ \E o \in Own : ConstructWindow(o)
        \/ \E o \in Routed : ConstructRouted(o)
        \/ \E o \in Object : \/ DestructStarts(o) \/ Detach(o)
                             \/ \E h \in Handle : AttachStarts(o, h)
        \/ DestructEnds \/ AttachEnds

Spec == Init /\ [][Next]_vars

-----------------------------------------------------------------------------
(* Properties. *)

Call == [call : {"loop"}, object : Own, name : Name, next : 1 .. MaxListeners + 1,
         inside : BOOLEAN]
        \cup [call : {"default"}, handle : Handle]
        \cup [call : {"destroy"}, handle : Handle, step : 1 .. 3]
        \cup [call : {"destruct"}, object : Object]
        \cup [call : {"attach"}, object : Object, handle : Handle]

\* The type invariant; a loop over listeners never goes past their end.
TypeOK == /\ life \in [Object -> {"none", "alive", "dying", "dead"}]
          /\ hwnd \in [Object -> Handle \cup {None}]
          /\ userdata \in [Handle -> Object \cup {None}]
          /\ listeners \in [Own -> [Name -> 0 .. MaxListeners]] /\ claimed \subseteq Own
          /\ stack \in Seq(Call) /\ running \in BOOLEAN /\ quit \in BOOLEAN
          /\ class \in [ClassObject -> {"unnamed", "named", "gone"}]
          /\ registered \in BOOLEAN /\ registrar \subseteq ClassObject
          /\ loose \subseteq Handle /\ closed \subseteq Object /\ released \subseteq Handle

\* The handler that a window names is there, but while a destructor or another
\* call destroys the window, and for a window that was detached from its object.
HandlerLives == \A h \in Handle : userdata[h] \in Own =>
                  life[userdata[h]] = "alive" \/ Leaving(h) \/ h \in released

\* Two objects hold the same handle only after the window of an object was destroyed
\* by another call: hwnd_ is not cleared then, and the system gives the handle to
\* the next window.
OneOwner == \A o, p \in Object : o # p /\ hwnd[o] = hwnd[p] =>
              hwnd[o] = None \/ closed # {}

\* The class stays while an object that registered it lives, unless one that the
\* system had refused, and that never registered it, was destroyed at any time before.
ClassStays == ~registered /\ (\E k \in registrar : class[k] = "named") =>
                \E k \in ClassObject \ registrar : class[k] = "gone"
=============================================================================
