---------------------------- MODULE WindowProofs ----------------------------
(* The window class, and the handlers of the windows, for any number of       *)
(* objects, handles, listeners and nested calls.                              *)
EXTENDS Window, FoldLemmas

-----------------------------------------------------------------------------
(* The class. *)

\* a class object that the system refused has been destroyed
RefusedGone == \E k \in ClassObject \ registrar : class[k] = "gone"

\* two living objects registered the name only if one of them was robbed of it
OneRegistrar == \A j, k \in registrar :
                  j # k /\ class[j] = "named" /\ class[k] = "named" => RefusedGone

CInv == /\ class \in [ClassObject -> {"unnamed", "named", "gone"}]
        /\ registrar \subseteq {k \in ClassObject : class[k] # "unnamed"}
        /\ ClassStays /\ OneRegistrar

LEMMA CInit == Init => CInv
  BY DEF Init, CInv, ClassStays, OneRegistrar

LEMMA CRegister == ASSUME CInv, NEW k \in ClassObject, RegisterClass(k) PROVE CInv'
<1>1. /\ class' \in [ClassObject -> {"unnamed", "named", "gone"}]
      /\ registrar' \subseteq {j \in ClassObject : class'[j] # "unnamed"}
  BY DEF CInv, RegisterClass
<1>2. RefusedGone => RefusedGone'
  BY DEF CInv, RegisterClass, RefusedGone
<1>3. ClassStays'
  BY DEF RegisterClass, ClassStays
<1>4. OneRegistrar'
  <2>1. CASE registered
    BY <1>2, <2>1 DEF CInv, OneRegistrar, RegisterClass
  <2>2. CASE ~registered
    BY <1>2, <2>2 DEF CInv, OneRegistrar, ClassStays, RegisterClass, RefusedGone
  <2>3. QED
    BY <2>1, <2>2
<1>5. QED
  BY <1>1, <1>3, <1>4 DEF CInv

LEMMA CUnregister == ASSUME CInv, NEW k \in ClassObject, UnregisterClass(k) PROVE CInv'
<1>1. /\ class' = [class EXCEPT ![k] = "gone"] /\ registrar' = registrar
      /\ registered' \in {registered, FALSE} /\ (registered' # registered => class[k] = "named")
  BY DEF UnregisterClass
<1>2. RefusedGone => RefusedGone'
  BY <1>1 DEF CInv, RefusedGone
<1>3. OneRegistrar'
  BY <1>1, <1>2 DEF CInv, OneRegistrar
<1>4. ClassStays'
  <2> SUFFICES ASSUME ~registered', NEW j \in registrar, class'[j] = "named" PROVE RefusedGone'
    BY <1>1 DEF ClassStays, RefusedGone
  <2>1. j # k /\ class[j] = "named"
    BY <1>1 DEF CInv
  <2>2. CASE ~registered
    BY <1>2, <2>1, <2>2 DEF CInv, ClassStays, RefusedGone
  <2>3. CASE registered /\ k \in registrar
    BY <1>1, <1>2, <2>1, <2>3 DEF CInv, OneRegistrar
  <2>4. CASE k \notin registrar
    BY <1>1, <2>4 DEF CInv, RefusedGone
  <2>5. QED
    BY <2>2, <2>3, <2>4
<1>5. QED
  BY <1>1, <1>3, <1>4 DEF CInv

LEMMA CStutter == CInv /\ UNCHANGED classVars => CInv'
  BY DEF CInv, ClassStays, OneRegistrar, RefusedGone, classVars

LEMMA CStep == CInv /\ [Next]_vars => CInv'
<1> SUFFICES ASSUME CInv, [Next]_vars PROVE CInv'
  OBVIOUS
<1>1. ASSUME NEW k \in ClassObject, Register(k) PROVE CInv'
  BY <1>1, CRegister DEF Register
<1>2. ASSUME NEW k \in ClassObject, UnregisterClass(k) PROVE CInv'
  BY <1>2, CUnregister
<1>3. ASSUME NEW o \in Own, ConstructWindow(o) PROVE CInv'
  BY <1>3, CRegister, CStutter, WindowAssumption DEF ConstructWindow
<1>4. CASE Run \/ Quit \/ RunReturns \/ DefaultCloses \/ DestroySends \/ DestroyEnds
  BY <1>4, CStutter
     DEF Run, Quit, RunReturns, DefaultCloses, DestroySends, DestroyEnds
<1>5. CASE CallListener \/ ListenerReturns \/ LoopEnds \/ Claim \/ DestructEnds \/ AttachEnds
  BY <1>5, CStutter
     DEF CallListener, ListenerReturns, LoopEnds, Claim, DestructEnds, AttachEnds
<1>6. ASSUME NEW h \in Handle, NEW msg \in {"close", "other"}, Dispatch(h, msg) PROVE CInv'
  BY <1>6, CStutter DEF Dispatch
<1>7. ASSUME NEW o \in Own, NEW name \in Name, Listen(o, name) PROVE CInv'
  BY <1>7, CStutter DEF Listen
<1>8. ASSUME NEW o \in Routed, ConstructRouted(o) PROVE CInv'
  BY <1>8, CStutter DEF ConstructRouted
<1>9. ASSUME NEW o \in Object, DestructStarts(o) \/ Detach(o) PROVE CInv'
  BY <1>9, CStutter DEF DestructStarts, Detach
<1>10. ASSUME NEW o \in Object, NEW h \in Handle, AttachStarts(o, h) PROVE CInv'
  BY <1>10, CStutter DEF AttachStarts
<1>11. CASE UNCHANGED vars
  BY <1>11, CStutter DEF vars
<1>12. QED
  BY <1>1, <1>2, <1>3, <1>4, <1>5, <1>6, <1>7, <1>8, <1>9, <1>10, <1>11 DEF Next

\* The class stays while an object that registered it lives, unless one that the
\* system refused has been destroyed.
THEOREM ClassesStay == Spec => []ClassStays
<1>1. CInv => ClassStays
  BY DEF CInv
<1>2. QED
  BY <1>1, CInit, CStep, PTL DEF Spec

-----------------------------------------------------------------------------
(* The handlers.  What matters of the stack is which calls are on it. *)

LEMMA TailRange ==
  ASSUME NEW S, NEW s \in Seq(S), s # << >>
  PROVE  /\ Tail(s) \in Seq(S) /\ Head(s) \in S /\ Head(s) = s[1] /\ Head(s) \in Range(s)
         /\ Range(Tail(s)) \subseteq Range(s)
         /\ Range(s) \subseteq Range(Tail(s)) \cup {Head(s)}
<1>1. /\ Tail(s) \in Seq(S) /\ Head(s) \in S /\ Head(s) = s[1]
      /\ Len(Tail(s)) = Len(s) - 1 /\ \A i \in 1 .. Len(s) - 1 : Tail(s)[i] = s[i + 1]
  OBVIOUS
<1>2. Range(Tail(s)) \subseteq Range(s)
  BY <1>1 DEF Range
<1>3. ASSUME NEW i \in 1 .. Len(s) PROVE s[i] \in Range(Tail(s)) \cup {Head(s)}
  <2>1. CASE i = 1
    BY <1>1, <2>1
  <2>2. CASE i > 1
    <3>1. i - 1 \in 1 .. Len(s) - 1 /\ (i - 1) + 1 = i
      BY <2>2
    <3>2. Tail(s)[i - 1] = s[i]
      BY <1>1, <3>1
    <3>3. i - 1 \in DOMAIN Tail(s)
      BY <1>1, <3>1
    <3>4. QED
      BY <3>2, <3>3 DEF Range
  <2>3. QED
    BY <2>1, <2>2
<1>4. Head(s) \in Range(s)
  BY <1>1 DEF Range
<1>5. QED
  BY <1>1, <1>2, <1>3, <1>4 DEF Range

LEMMA ConcatRange ==
  ASSUME NEW S, NEW s \in Seq(S), NEW t \in Seq(S)
  PROVE  s \o t \in Seq(S) /\ Range(s \o t) = Range(s) \cup Range(t)
<1>1. /\ s \o t \in Seq(S) /\ Len(s \o t) = Len(s) + Len(t)
      /\ \A i \in 1 .. Len(s) : (s \o t)[i] = s[i]
      /\ \A i \in 1 .. Len(t) : (s \o t)[Len(s) + i] = t[i]
  OBVIOUS
<1>2. Range(s \o t) \subseteq Range(s) \cup Range(t)
  <2> SUFFICES ASSUME NEW i \in 1 .. Len(s) + Len(t)
               PROVE  (s \o t)[i] \in Range(s) \cup Range(t)
    BY <1>1 DEF Range
  <2>1. CASE i <= Len(s)
    BY <1>1, <2>1 DEF Range
  <2>2. CASE i > Len(s)
    <3>1. i - Len(s) \in 1 .. Len(t) /\ (s \o t)[i] = t[i - Len(s)]
      BY <1>1, <2>2
    <3>2. QED
      BY <3>1 DEF Range
  <2>3. QED
    BY <2>1, <2>2
<1>3. Range(s) \subseteq Range(s \o t)
  BY <1>1 DEF Range
<1>4. ASSUME NEW i \in 1 .. Len(t) PROVE t[i] \in Range(s \o t)
  <2>1. Len(s) + i \in 1 .. Len(s \o t)
    BY <1>1
  <2>2. QED
    BY <1>1, <2>1 DEF Range
<1>5. Range(t) \subseteq Range(s \o t)
  BY <1>4 DEF Range
<1>6. QED
  BY <1>1, <1>2, <1>3, <1>5

LEMMA ShortRange ==
  ASSUME NEW S, NEW x \in S
  PROVE  /\ <<x>> \in Seq(S) /\ Range(<<x>>) = {x}
         /\ << >> \in Seq(S) /\ Range(<< >>) = {}
<1>1. <<x>> \in Seq(S) /\ Len(<<x>>) = 1 /\ <<x>>[1] = x /\ << >> \in Seq(S) /\ Len(<< >>) = 0
  OBVIOUS
<1>2. QED
  BY <1>1 DEF Range

\* Call, with no bound on the listeners
Frame == [call : {"loop"}, object : Own, name : Name, next : Nat, inside : BOOLEAN]
         \cup [call : {"default"}, handle : Handle]
         \cup [call : {"destroy"}, handle : Handle, step : 1 .. 3]
         \cup [call : {"destruct"}, object : Object]
         \cup [call : {"attach"}, object : Object, handle : Handle]

Attaching(o) == \E f \in Range(stack) : f.call = "attach" /\ f.object = o
Destructing(o) == \E f \in Range(stack) : f.call = "destruct" /\ f.object = o

HType == /\ life \in [Object -> {"none", "alive", "dying", "dead"}]
         /\ hwnd \in [Object -> Handle \cup {None}]
         /\ userdata \in [Handle -> Object \cup {None}]
         /\ stack \in Seq(Frame)

\* A window that names a window object and was neither detached from it nor is being
\* destroyed is the one the object holds, and is about to lose to no other.
Owned == \A h \in Handle, o \in Own : userdata[h] = o =>
           \/ h \in released \/ Leaving(h)
           \/ life[o] = "alive" /\ hwnd[o] = h /\ ~Attaching(o)

\* nothing knows an object that has not been constructed
Fresh == \A o \in Object : life[o] = "none" =>
           (\A h \in Handle : userdata[h] # o) /\ ~Attaching(o) /\ ~Destructing(o)

Doomed == \A o \in Object : Destructing(o) => life[o] # "alive"

HInv == HType /\ Owned /\ Fresh /\ Doomed

LEMMA LeavingRange ==
  ASSUME NEW h PROVE Leaving(h) <=> \E f \in Range(stack) : f.call = "destroy" /\ f.handle = h
  BY DEF Leaving, Range

LEMMA LeavingRangeNext ==
  ASSUME NEW h PROVE Leaving(h)' <=> \E f \in Range(stack') : f.call = "destroy" /\ f.handle = h
  BY DEF Leaving, Range

LEMMA HInit == Init => HInv
<1> SUFFICES ASSUME Init PROVE HInv
  OBVIOUS
<1>1. stack = << >> /\ Range(stack) = {} /\ stack \in Seq(Frame)
  BY DEF Init, Range
<1>2. HType
  BY <1>1 DEF Init, HType
<1>3. \A h \in Handle : userdata[h] = None
  BY DEF Init
<1>4. Owned /\ Fresh /\ Doomed
  BY <1>1, <1>3, WindowAssumption DEF Owned, Fresh, Doomed, Attaching, Destructing, Object
<1>5. QED
  BY <1>2, <1>4 DEF HInv

\* what a step may do to the stack: calls of DestroyWindow stay, and no destructor
\* or attach begins
Calm(s, t) ==
  /\ \A f \in Range(s) : f.call = "destroy" =>
       \E g \in Range(t) : g.call = "destroy" /\ g.handle = f.handle
  /\ \A f \in Range(t) : f.call \in {"attach", "destruct"} => f \in Range(s)

\* A step that is calm and leaves the objects alone keeps the invariant.
LEMMA HCalm ==
  ASSUME HInv, stack' \in Seq(Frame), Calm(stack, stack'),
         UNCHANGED <<life, hwnd, userdata, released>>
  PROVE  HInv'
<1>1. \A h \in Handle : Leaving(h) => Leaving(h)'
  BY LeavingRange, LeavingRangeNext DEF Calm
<1>2. \A o \in Object : /\ Attaching(o)' => Attaching(o)
                        /\ Destructing(o)' => Destructing(o)
  BY DEF Calm, Attaching, Destructing
<1>3. HType'
  BY DEF HInv, HType
<1>4. Owned'
  BY <1>1, <1>2 DEF HInv, Owned, Object
<1>5. Fresh' /\ Doomed'
  BY <1>2 DEF HInv, Fresh, Doomed
<1>6. QED
  BY <1>3, <1>4, <1>5 DEF HInv

LEMMA PushRange ==
  ASSUME NEW x \in Frame, NEW t \in Seq(Frame)
  PROVE  <<x>> \o t \in Seq(Frame) /\ Range(<<x>> \o t) = {x} \cup Range(t)
<1>1. <<x>> \in Seq(Frame) /\ Range(<<x>>) = {x}
  BY ShortRange
<1>2. ASSUME NEW s \in Seq(Frame), Range(s) = {x}
      PROVE  s \o t \in Seq(Frame) /\ Range(s \o t) = {x} \cup Range(t)
  BY <1>2, ConcatRange
<1>3. QED
  BY <1>1, <1>2

LEMMA NoPush == ASSUME NEW t \in Seq(Frame) PROVE << >> \o t = t
  OBVIOUS

\* What a message puts above the calls that go on, `rest`.
LEMMA SendsRange ==
  ASSUME HType, NEW h \in Handle, NEW msg, Exists(h),
         NEW default \in Seq(Frame), NEW rest \in Seq(Frame), Sends(h, msg, default, rest)
  PROVE  /\ stack' \in Seq(Frame) /\ Range(rest) \subseteq Range(stack')
         /\ \A f \in Range(stack') :
              f.call = "loop" \/ f \in Range(default) \/ f \in Range(rest)
<1>1. ASSUME NEW pre \in Seq(Frame), stack' = pre \o rest,
             \A f \in Range(pre) : f.call = "loop" \/ f \in Range(default)
      PROVE  /\ stack' \in Seq(Frame) /\ Range(rest) \subseteq Range(stack')
             /\ \A f \in Range(stack') :
                  f.call = "loop" \/ f \in Range(default) \/ f \in Range(rest)
  BY <1>1, ConcatRange
<1>2. << >> \in Seq(Frame) /\ Range(<< >>) = {}
  BY DEF Range
<1>3. << >> \o default \in Seq(Frame) /\ Range(<< >> \o default) = Range(default)
  BY <1>2, ConcatRange
<1>4. CASE \/ stack' = << >> \o rest \/ stack' = default \o rest
           \/ stack' = (<< >> \o default) \o rest
  <2>1. CASE stack' = << >> \o rest
    BY <1>1, <1>2, <2>1
  <2>2. CASE stack' = default \o rest
    BY <1>1, <2>2
  <2>3. CASE stack' = (<< >> \o default) \o rest
    BY <1>1, <1>3, <2>3
  <2>4. QED
    BY <1>4, <2>1, <2>2, <2>3
<1>5. ASSUME userdata[h] \in Own, NEW loop, loop = Loop(userdata[h], NameOf(msg), 1),
             stack' = (<<loop>> \o default) \o rest
      PROVE  \E pre \in Seq(Frame) :
               /\ stack' = pre \o rest
               /\ \A f \in Range(pre) : f.call = "loop" \/ f \in Range(default)
  <2>1. loop \in Frame /\ loop.call = "loop"
    BY <1>5 DEF Frame, Loop, NameOf, Name
  <2>2. <<loop>> \o default \in Seq(Frame)
        /\ Range(<<loop>> \o default) = {loop} \cup Range(default)
    BY <2>1, PushRange
  <2>3. QED
    BY <2>1, <2>2, <1>5
<1>6. CASE userdata[h] \in Own
  <2>1. stack' = (<<Loop(userdata[h], NameOf(msg), 1)>> \o default) \o rest
        \/ stack' = (<< >> \o default) \o rest
    BY <1>6 DEF Sends
  <2>2. QED
    BY <1>1, <1>4, <1>5, <1>6, <2>1
<1>7. CASE userdata[h] \notin Own
  <2>1. stack' = << >> \o rest \/ stack' = default \o rest
    BY <1>7 DEF Sends
  <2>2. QED
    BY <1>4, <2>1
<1>8. QED
  BY <1>6, <1>7

LEMMA HSends ==
  ASSUME HInv, NEW h \in Handle, NEW msg, Exists(h),
         NEW default \in Seq(Frame), NEW rest \in Seq(Frame), Sends(h, msg, default, rest),
         \A f \in Range(default) : f.call = "default", Calm(stack, rest),
         UNCHANGED <<life, hwnd, userdata, released>>
  PROVE  HInv'
<1>1. /\ stack' \in Seq(Frame) /\ Range(rest) \subseteq Range(stack')
      /\ \A f \in Range(stack') : f.call = "loop" \/ f \in Range(default) \/ f \in Range(rest)
  BY SendsRange DEF HInv
<1>2. Calm(stack, stack')
  BY <1>1 DEF Calm
<1>3. QED
  BY <1>1, <1>2, HCalm

\* The innermost call returns, with nothing left of it but `f`.
LEMMA HReplaced ==
  ASSUME HInv, stack # << >>, NEW pre \in Seq(Frame), stack' = pre \o Tail(stack),
         \A f \in Range(pre) : f.call \notin {"attach", "destruct"},
         Head(stack).call = "destroy" =>
           \E g \in Range(pre) : g.call = "destroy" /\ g.handle = Head(stack).handle,
         UNCHANGED <<life, hwnd, userdata, released>>
  PROVE  HInv'
<1>1. stack \in Seq(Frame)
  BY DEF HInv, HType
<1>2. /\ Tail(stack) \in Seq(Frame) /\ Range(Tail(stack)) \subseteq Range(stack)
      /\ Range(stack) \subseteq Range(Tail(stack)) \cup {Head(stack)}
  BY <1>1, TailRange
<1>3. stack' \in Seq(Frame) /\ Range(stack') = Range(pre) \cup Range(Tail(stack))
  <2>1. ASSUME NEW t \in Seq(Frame), t = Tail(stack)
        PROVE  pre \o t \in Seq(Frame) /\ Range(pre \o t) = Range(pre) \cup Range(t)
    BY ConcatRange
  <2>2. QED
    BY <1>2, <2>1
<1>4. Calm(stack, stack')
  BY <1>2, <1>3 DEF Calm
<1>5. QED
  BY <1>3, <1>4, HCalm

LEMMA HReturns ==
  ASSUME HInv, stack # << >>, stack' = Tail(stack), Head(stack).call # "destroy",
         UNCHANGED <<life, hwnd, userdata, released>>
  PROVE  HInv'
<1>1. << >> \in Seq(Frame) /\ Range(<< >>) = {} /\ Tail(stack) \in Seq(Frame)
  BY ShortRange, TailRange DEF HInv, HType, Range
<1>2. stack' = << >> \o Tail(stack)
  BY <1>1, NoPush
<1>3. QED
  BY <1>1, <1>2, HReplaced

LEMMA HDispatch ==
  ASSUME HInv, NEW h \in Handle, NEW msg \in {"close", "other"}, Dispatch(h, msg) PROVE HInv'
<1>1. /\ << >> \in Seq(Frame) /\ Range(<< >>) = {} /\ stack = << >>
  BY DEF Dispatch, Range
<1>2. Calm(stack, << >>)
  BY <1>1 DEF Calm
<1>3. Default(h) \in Frame /\ Default(h).call = "default"
  BY DEF Default, Frame
<1>4. <<Default(h)>> \in Seq(Frame) /\ Range(<<Default(h)>>) = {Default(h)}
  BY <1>3, ShortRange
<1>5. UNCHANGED <<life, hwnd, userdata, released>> /\ Exists(h)
  BY DEF Dispatch, objectVars
<1>6. CASE Sends(h, msg, << >>, << >>)
  BY <1>1, <1>2, <1>5, <1>6, HSends
<1>7. CASE Sends(h, msg, <<Default(h)>>, << >>)
  <2>1. ASSUME NEW default \in Seq(Frame), default = <<Default(h)>> PROVE HInv'
    BY <1>1, <1>2, <1>3, <1>4, <1>5, <1>7, <2>1, HSends
  <2>2. QED
    BY <1>4, <2>1
<1>8. QED
  BY <1>6, <1>7 DEF Dispatch

LEMMA HDefault == ASSUME HInv, DefaultCloses PROVE HInv'
<1> DEFINE h == Head(stack).handle
<1>1. stack # << >> /\ Head(stack).call = "default"
      /\ UNCHANGED <<life, hwnd, userdata, released>>
  BY DEF DefaultCloses, Innermost, objectVars
<1>2. << >> \in Seq(Frame) /\ Range(<< >>) = {}
  BY DEF Range
<1>3. CASE Exists(h) /\ stack' = <<Destroy(h, 1)>> \o Tail(stack)
  <2>1. Destroy(h, 1) \in Frame /\ Destroy(h, 1).call = "destroy"
    BY <1>3 DEF Destroy, Frame, Exists
  <2>2. <<Destroy(h, 1)>> \in Seq(Frame) /\ Range(<<Destroy(h, 1)>>) = {Destroy(h, 1)}
    BY <2>1, ShortRange
  <2>3. ASSUME NEW pre \in Seq(Frame), pre = <<Destroy(h, 1)>> PROVE HInv'
    BY <1>1, <1>3, <2>1, <2>2, <2>3, HReplaced
  <2>4. QED
    BY <2>2, <2>3
<1>4. CASE stack' = << >> \o Tail(stack)
  BY <1>1, <1>2, <1>4, HReplaced
<1>5. QED
  BY <1>3, <1>4 DEF DefaultCloses

LEMMA HDestroySends == ASSUME HInv, DestroySends PROVE HInv'
<1> DEFINE h == Head(stack).handle
           step == Head(stack).step
           rest == <<Destroy(h, step + 1)>> \o Tail(stack)
           msg == <<"destroy", "ncdestroy">>[step]
<1>1. /\ stack # << >> /\ Head(stack).call = "destroy" /\ step <= 2
      /\ Sends(h, msg, << >>, rest) /\ UNCHANGED <<life, hwnd, userdata, released>>
  BY DEF DestroySends, Innermost, objectVars
<1>2. /\ stack \in Seq(Frame) /\ Tail(stack) \in Seq(Frame) /\ Head(stack) \in Frame
      /\ Range(Tail(stack)) \subseteq Range(stack)
      /\ Range(stack) \subseteq Range(Tail(stack)) \cup {Head(stack)}
  BY <1>1, TailRange DEF HInv, HType
<1>3. h \in Handle /\ step \in 1 .. 3
  BY <1>1, <1>2 DEF Frame
<1>4. Destroy(h, step + 1) \in Frame
  BY <1>1, <1>3 DEF Frame, Destroy
<1>5. rest \in Seq(Frame) /\ Range(rest) = {Destroy(h, step + 1)} \cup Range(Tail(stack))
  BY <1>2, <1>4, PushRange
<1>6. Calm(stack, rest)
  BY <1>1, <1>2, <1>5 DEF Calm, Destroy
<1>7. << >> \in Seq(Frame) /\ Range(<< >>) = {}
  BY DEF Range
<1>8. CASE userdata[h] # None
  <2>1. Exists(h)
    BY <1>3, <1>8 DEF Exists
  <2>2. ASSUME NEW m, NEW r \in Seq(Frame), Sends(h, m, << >>, r), Calm(stack, r) PROVE HInv'
    BY <1>1, <1>3, <1>7, <2>1, <2>2, HSends
  <2>3. QED
    BY <1>1, <1>5, <1>6, <2>2
<1>9. CASE userdata[h] = None
  <2>1. stack' = << >> \o rest
    BY <1>1, <1>9, WindowAssumption DEF Sends
  <2>2. stack' = rest
    BY <1>5, <2>1, NoPush
  <2>3. QED
    BY <1>1, <1>5, <1>6, <2>2, HCalm
<1>10. QED
  BY <1>8, <1>9

\* The window is gone: nothing names its handle any more.
LEMMA HDestroyEnds == ASSUME HInv, DestroyEnds PROVE HInv'
<1> DEFINE h == Head(stack).handle
<1>1. /\ stack # << >> /\ Head(stack).call = "destroy" /\ stack' = Tail(stack)
      /\ userdata' = [userdata EXCEPT ![h] = None] /\ released' = released \ {h}
      /\ UNCHANGED <<life, hwnd>>
  BY DEF DestroyEnds, Innermost
<1>2. /\ stack \in Seq(Frame) /\ stack' \in Seq(Frame)
      /\ Range(stack') \subseteq Range(stack)
      /\ Range(stack) \subseteq Range(stack') \cup {Head(stack)}
  BY <1>1, TailRange DEF HInv, HType
<1>3. HType'
  BY <1>1, <1>2 DEF HInv, HType
<1>4. \A g \in Handle : g # h /\ Leaving(g) => Leaving(g)'
  BY <1>1, <1>2, LeavingRange, LeavingRangeNext
<1>5. \A o \in Object : /\ Attaching(o)' => Attaching(o)
                        /\ Destructing(o)' => Destructing(o)
  BY <1>2 DEF Attaching, Destructing
<1>6. \A g \in Handle : /\ userdata'[g] \in {userdata[g], None}
                        /\ g = h => userdata'[g] = None
  BY <1>1 DEF HInv, HType
<1>7. Owned'
  BY <1>1, <1>4, <1>5, <1>6, WindowAssumption DEF HInv, Owned, Object
<1>8. Fresh' /\ Doomed'
  BY <1>1, <1>5, <1>6, WindowAssumption DEF HInv, Fresh, Doomed, Object
<1>9. QED
  BY <1>3, <1>7, <1>8 DEF HInv

LEMMA HCreates == ASSUME HInv, NEW o \in Object, New(o), Creates(o) PROVE HInv'
<1>1. /\ life' = [life EXCEPT ![o] = "alive"] /\ stack' = stack /\ released' = released
      /\ life[o] = "none"
  BY DEF Creates, New
<1>2. /\ \A p \in Object : (Attaching(p)' <=> Attaching(p)) /\ (Destructing(p)' <=> Destructing(p))
      /\ \A g \in Handle : Leaving(g)' <=> Leaving(g)
  BY <1>1 DEF Attaching, Destructing, Leaving
<1>3. (\A g \in Handle : userdata[g] # o) /\ ~Attaching(o) /\ ~Destructing(o)
  BY <1>1 DEF HInv, Fresh
<1>4. CASE UNCHANGED <<hwnd, userdata>>
  <2>1. HType' /\ Owned'
    BY <1>1, <1>2, <1>3, <1>4 DEF HInv, HType, Owned, Object
  <2>2. Fresh' /\ Doomed'
    BY <1>1, <1>2, <1>3, <1>4 DEF HInv, HType, Fresh, Doomed
  <2>3. QED
    BY <2>1, <2>2 DEF HInv
<1>5. ASSUME NEW h \in Handle, ~Exists(h), hwnd' = [hwnd EXCEPT ![o] = h],
             userdata' = [userdata EXCEPT ![h] = o]
      PROVE  HInv'
  <2>1. HType'
    BY <1>1, <1>5 DEF HInv, HType
  <2>2. \A g \in Handle : g # h => userdata'[g] = userdata[g]
    BY <1>5 DEF HInv, HType
  <2>3. userdata'[h] = o /\ hwnd'[o] = h /\ life'[o] = "alive"
    BY <1>1, <1>5 DEF HInv, HType
  <2>4. \A p \in Object : p # o => hwnd'[p] = hwnd[p] /\ life'[p] = life[p]
    BY <1>1, <1>5 DEF HInv, HType
  <2>5. Owned'
    <3> SUFFICES ASSUME NEW g \in Handle, NEW p \in Own, userdata'[g] = p
                 PROVE  \/ g \in released' \/ Leaving(g)'
                        \/ life'[p] = "alive" /\ hwnd'[p] = g /\ ~Attaching(p)'
      BY DEF Owned
    <3>1. CASE g = h
      BY <1>2, <1>3, <2>3, <3>1
    <3>2. CASE g # h
      BY <1>1, <1>2, <1>3, <2>2, <2>4, <3>2 DEF HInv, Owned, Object
    <3>3. QED
      BY <3>1, <3>2
  <2>6. Fresh' /\ Doomed'
    BY <1>2, <1>3, <2>2, <2>3, <2>4 DEF HInv, Fresh, Doomed
  <2>7. QED
    BY <2>1, <2>5, <2>6 DEF HInv
<1>6. QED
  BY <1>4, <1>5 DEF Creates

\* The calls with which an object gives up its window: `call`, and above it the one that
\* destroys the window.
LEMMA GiveUpRange ==
  ASSUME HType, NEW o \in Object, NEW h, h = hwnd[o], NEW call \in Frame,
         stack' = (DestroyWindow(o) \o <<call>>) \o stack
  PROVE  /\ stack' \in Seq(Frame) /\ call \in Range(stack')
         /\ Range(stack) \subseteq Range(stack')
         /\ \A f \in Range(stack') : f \in Range(stack) \/ f = call \/ f.call = "destroy"
         /\ Exists(h) => Leaving(h)'
<1>1. stack \in Seq(Frame)
  BY DEF HType
<1>2. <<call>> \in Seq(Frame) /\ Range(<<call>>) = {call}
  BY ShortRange
<1>3. ASSUME NEW pre \in Seq(Frame), DestroyWindow(o) = pre
      PROVE  stack' \in Seq(Frame) /\ Range(stack') = (Range(pre) \cup {call}) \cup Range(stack)
  <2>1. ASSUME NEW c \in Seq(Frame), c = <<call>>
        PROVE  pre \o c \in Seq(Frame) /\ Range(pre \o c) = Range(pre) \cup Range(c)
    BY ConcatRange
  <2>2. pre \o <<call>> \in Seq(Frame) /\ Range(pre \o <<call>>) = Range(pre) \cup {call}
    BY <1>2, <2>1
  <2>3. ASSUME NEW s \in Seq(Frame)
        PROVE  s \o stack \in Seq(Frame) /\ Range(s \o stack) = Range(s) \cup Range(stack)
    BY <1>1, ConcatRange
  <2>4. QED
    BY <1>3, <2>2, <2>3
<1>4. CASE Exists(h) /\ ~Leaving(h)
  <2>1. DestroyWindow(o) = <<Destroy(h, 1)>>
    BY <1>4 DEF DestroyWindow
  <2>2. Destroy(h, 1) \in Frame /\ Destroy(h, 1).call = "destroy" /\ Destroy(h, 1).handle = h
    BY <1>4 DEF Frame, Destroy, Exists
  <2>3. <<Destroy(h, 1)>> \in Seq(Frame) /\ Range(<<Destroy(h, 1)>>) = {Destroy(h, 1)}
    BY <2>2, ShortRange
  <2>4. stack' \in Seq(Frame)
        /\ Range(stack') = ({Destroy(h, 1)} \cup {call}) \cup Range(stack)
    BY <1>3, <2>1, <2>3
  <2>5. Leaving(h)'
    BY <2>2, <2>4, LeavingRangeNext
  <2>6. QED
    BY <2>2, <2>4, <2>5
<1>5. CASE ~(Exists(h) /\ ~Leaving(h))
  <2>1. DestroyWindow(o) = << >>
    BY <1>5 DEF DestroyWindow
  <2>2. << >> \in Seq(Frame) /\ Range(<< >>) = {}
    BY DEF Range
  <2>3. stack' \in Seq(Frame) /\ Range(stack') = {call} \cup Range(stack)
    BY <1>3, <2>1, <2>2
  <2>4. Leaving(h) => Leaving(h)'
    BY <2>3, LeavingRange, LeavingRangeNext
  <2>5. QED
    BY <1>5, <2>3, <2>4
<1>6. QED
  BY <1>4, <1>5

LEMMA HDestructStarts == ASSUME HInv, NEW o \in Object, DestructStarts(o) PROVE HInv'
<1> DEFINE call == Destruct(o)
<1>1. /\ life' = [life EXCEPT ![o] = "dying"] /\ life[o] = "alive"
      /\ stack' = (DestroyWindow(o) \o <<call>>) \o stack
      /\ UNCHANGED <<hwnd, userdata, released>>
  BY DEF DestructStarts
<1>2. call \in Frame /\ call.call = "destruct" /\ call.object = o
  BY DEF Frame, Destruct
<1>3. ASSUME NEW h, h = hwnd[o]
      PROVE  /\ stack' \in Seq(Frame) /\ Range(stack) \subseteq Range(stack')
             /\ \A f \in Range(stack') : f \in Range(stack) \/ f = call \/ f.call = "destroy"
             /\ Exists(h) => Leaving(h)'
  BY <1>1, <1>2, <1>3, GiveUpRange DEF HInv
<1>4. /\ stack' \in Seq(Frame) /\ Range(stack) \subseteq Range(stack')
      /\ \A f \in Range(stack') : f \in Range(stack) \/ f = call \/ f.call = "destroy"
      /\ \A h \in Handle : h = hwnd[o] /\ Exists(h) => Leaving(h)'
  BY <1>3
<1>5. /\ \A h \in Handle : Leaving(h) => Leaving(h)'
      /\ \A p \in Object : Attaching(p)' => Attaching(p)
      /\ \A p \in Object : Destructing(p)' => Destructing(p) \/ p = o
  BY <1>2, <1>4, LeavingRange, LeavingRangeNext DEF Attaching, Destructing
<1>6. HType'
  BY <1>1, <1>4 DEF HInv, HType
<1>7. /\ life'[o] = "dying"
      /\ \A p \in Object : p # o => life'[p] = life[p]
  BY <1>1 DEF HInv, HType
<1>8. Owned'
  BY <1>1, <1>4, <1>5, <1>7, WindowAssumption DEF HInv, Owned, Exists, Object
<1>9. Fresh' /\ Doomed'
  BY <1>1, <1>5, <1>7 DEF HInv, Fresh, Doomed
<1>10. QED
  BY <1>6, <1>8, <1>9 DEF HInv

LEMMA HAttachStarts ==
  ASSUME HInv, NEW o \in Object, NEW g \in Handle, AttachStarts(o, g) PROVE HInv'
<1> DEFINE call == Take(o, g)
<1>1. /\ life[o] = "alive" /\ stack' = (DestroyWindow(o) \o <<call>>) \o stack
      /\ UNCHANGED <<life, hwnd, userdata, released>>
  BY DEF AttachStarts
<1>2. call \in Frame /\ call.call = "attach" /\ call.object = o
  BY DEF Frame, Take
<1>3. ASSUME NEW h, h = hwnd[o]
      PROVE  /\ stack' \in Seq(Frame) /\ Range(stack) \subseteq Range(stack')
             /\ \A f \in Range(stack') : f \in Range(stack) \/ f = call \/ f.call = "destroy"
             /\ Exists(h) => Leaving(h)'
  BY <1>1, <1>2, <1>3, GiveUpRange DEF HInv
<1>4. /\ stack' \in Seq(Frame) /\ Range(stack) \subseteq Range(stack')
      /\ \A f \in Range(stack') : f \in Range(stack) \/ f = call \/ f.call = "destroy"
      /\ \A h \in Handle : h = hwnd[o] /\ Exists(h) => Leaving(h)'
  BY <1>3
<1>5. /\ \A h \in Handle : Leaving(h) => Leaving(h)'
      /\ \A p \in Object : Attaching(p)' => Attaching(p) \/ p = o
      /\ \A p \in Object : Destructing(p)' => Destructing(p)
  BY <1>2, <1>4, LeavingRange, LeavingRangeNext DEF Attaching, Destructing
<1>6. HType'
  BY <1>1, <1>4 DEF HInv, HType
<1>7. Owned'
  <2> SUFFICES ASSUME NEW h \in Handle, NEW p \in Own, userdata[h] = p
               PROVE  \/ h \in released \/ Leaving(h)'
                      \/ life[p] = "alive" /\ hwnd[p] = h /\ ~Attaching(p)'
    BY <1>1 DEF Owned
  <2>1. \/ h \in released \/ Leaving(h)
        \/ life[p] = "alive" /\ hwnd[p] = h /\ ~Attaching(p)
    BY DEF HInv, Owned
  <2>2. Exists(h)
    BY WindowAssumption DEF Exists
  <2>3. QED
    BY <1>4, <1>5, <2>1, <2>2 DEF Object
<1>8. Fresh' /\ Doomed'
  BY <1>1, <1>5 DEF HInv, Fresh, Doomed
<1>9. QED
  BY <1>6, <1>7, <1>8 DEF HInv

\* The object of a destructor or an attach that ends has lost the window it held.
LEMMA HDestructEnds == ASSUME HInv, DestructEnds PROVE HInv'
<1> DEFINE o == Head(stack).object
<1>1. /\ stack # << >> /\ Head(stack).call = "destruct" /\ stack' = Tail(stack)
      /\ life' = [life EXCEPT ![o] = "dead"] /\ hwnd' = [hwnd EXCEPT ![o] = None]
      /\ UNCHANGED <<userdata, released>>
  BY DEF DestructEnds, Innermost
<1>2. /\ stack \in Seq(Frame) /\ stack' \in Seq(Frame) /\ Head(stack) \in Range(stack)
      /\ Head(stack) \in Frame /\ Range(stack') \subseteq Range(stack)
      /\ Range(stack) \subseteq Range(stack') \cup {Head(stack)}
  BY <1>1, TailRange DEF HInv, HType
<1>3. o \in Object
  BY <1>1, <1>2 DEF Frame
<1>4. HType'
  BY <1>1, <1>2 DEF HInv, HType
<1>5. /\ \A h \in Handle : Leaving(h) => Leaving(h)'
      /\ \A p \in Object : /\ Attaching(p)' => Attaching(p)
                           /\ Destructing(p)' => Destructing(p)
  BY <1>1, <1>2, LeavingRange, LeavingRangeNext DEF Attaching, Destructing
<1>6. life[o] # "alive"
  BY <1>1, <1>2, <1>3 DEF HInv, Doomed, Destructing
<1>7. /\ life'[o] = "dead"
      /\ \A p \in Object : p # o => life'[p] = life[p] /\ hwnd'[p] = hwnd[p]
  BY <1>1, <1>3 DEF HInv, HType
<1>8. Owned'
  BY <1>1, <1>5, <1>6, <1>7 DEF HInv, Owned, Object
<1>9. Fresh' /\ Doomed'
  BY <1>1, <1>3, <1>5, <1>7 DEF HInv, Fresh, Doomed
<1>10. QED
  BY <1>4, <1>8, <1>9 DEF HInv

LEMMA HAttachEnds == ASSUME HInv, AttachEnds PROVE HInv'
<1> DEFINE o == Head(stack).object
<1>1. /\ stack # << >> /\ Head(stack).call = "attach" /\ stack' = Tail(stack)
      /\ hwnd' \in {hwnd, [hwnd EXCEPT ![o] = Head(stack).handle]}
      /\ UNCHANGED <<life, userdata, released>>
  BY DEF AttachEnds, Innermost
<1>2. /\ stack \in Seq(Frame) /\ stack' \in Seq(Frame) /\ Head(stack) \in Range(stack)
      /\ Head(stack) \in Frame /\ Range(stack') \subseteq Range(stack)
      /\ Range(stack) \subseteq Range(stack') \cup {Head(stack)}
  BY <1>1, TailRange DEF HInv, HType
<1>3. o \in Object /\ Head(stack).handle \in Handle
  BY <1>1, <1>2 DEF Frame
<1>4. HType'
  BY <1>1, <1>2, <1>3 DEF HInv, HType
<1>5. /\ \A h \in Handle : Leaving(h) => Leaving(h)'
      /\ \A p \in Object : /\ Attaching(p)' => Attaching(p)
                           /\ Destructing(p)' => Destructing(p)
  BY <1>1, <1>2, LeavingRange, LeavingRangeNext DEF Attaching, Destructing
<1>6. Attaching(o)
  BY <1>1, <1>2 DEF Attaching
<1>7. \A p \in Object : p # o => hwnd'[p] = hwnd[p]
  BY <1>1, <1>3 DEF HInv, HType
<1>8. Owned'
  BY <1>1, <1>5, <1>6, <1>7 DEF HInv, Owned, Object
<1>9. Fresh' /\ Doomed'
  BY <1>1, <1>5 DEF HInv, Fresh, Doomed
<1>10. QED
  BY <1>4, <1>8, <1>9 DEF HInv

LEMMA HDetach == ASSUME HInv, NEW o \in Object, Detach(o) PROVE HInv'
<1>1. /\ hwnd' = [hwnd EXCEPT ![o] = None]
      /\ released' = released \cup Windows(hwnd[o])
      /\ UNCHANGED <<life, userdata, stack>>
  BY DEF Detach
<1>2. /\ \A h \in Handle : Leaving(h)' <=> Leaving(h)
      /\ \A p \in Object : (Attaching(p)' <=> Attaching(p)) /\ (Destructing(p)' <=> Destructing(p))
  BY <1>1 DEF Leaving, Attaching, Destructing
<1>3. \A h \in Handle : userdata[h] \in Own /\ h = hwnd[o] => h \in released'
  BY <1>1, WindowAssumption DEF Windows, Exists
<1>4. \A p \in Object : p # o => hwnd'[p] = hwnd[p]
  BY <1>1 DEF HInv, HType
<1>5. HType'
  BY <1>1 DEF HInv, HType
<1>6. Owned'
  BY <1>1, <1>2, <1>3, <1>4 DEF HInv, Owned, Object
<1>7. Fresh' /\ Doomed'
  BY <1>1, <1>2 DEF HInv, Fresh, Doomed
<1>8. QED
  BY <1>5, <1>6, <1>7 DEF HInv

\* The steps that leave objects and calls alone, and those that only turn a loop.
LEMMA HSame ==
  ASSUME HInv, UNCHANGED <<life, hwnd, userdata, released, stack>> PROVE HInv'
<1>1. stack' \in Seq(Frame) /\ Calm(stack, stack')
  BY DEF HInv, HType, Calm
<1>2. QED
  BY <1>1, HCalm

LEMMA HTurns ==
  ASSUME HInv, Innermost("loop"), NEW f \in Frame, f.call = "loop",
         stack' = [stack EXCEPT ![1] = f], UNCHANGED <<life, hwnd, userdata, released>>
  PROVE  HInv'
<1>1. /\ stack \in Seq(Frame) /\ stack # << >> /\ stack[1].call = "loop"
      /\ Len(stack) \in Nat \ {0}
  BY DEF HInv, HType, Innermost
<1>2. /\ stack' \in Seq(Frame) /\ Len(stack') = Len(stack) /\ stack'[1] = f
      /\ \A i \in 1 .. Len(stack) : i # 1 => stack'[i] = stack[i]
  BY <1>1
<1>3. Calm(stack, stack')
  <2>1. \A i \in 1 .. Len(stack) : stack[i].call = "destroy" => stack'[i] = stack[i]
    BY <1>1, <1>2
  <2>2. \A i \in 1 .. Len(stack) : stack'[i].call \in {"attach", "destruct"} =>
          stack'[i] = stack[i]
    BY <1>1, <1>2
  <2>3. QED
    BY <1>1, <1>2, <2>1, <2>2 DEF Calm, Range
<1>4. QED
  BY <1>2, <1>3, HCalm

LEMMA HCallListener == ASSUME HInv, CallListener PROVE HInv'
<1> DEFINE f == [stack[1] EXCEPT !.inside = TRUE]
<1>1. /\ Innermost("loop") /\ stack' = [stack EXCEPT ![1] = f]
      /\ UNCHANGED <<life, hwnd, userdata, released>>
  BY DEF CallListener, objectVars
<1>2. stack[1] \in Frame /\ stack[1].call = "loop"
  BY <1>1 DEF HInv, HType, Innermost
<1>3. f \in Frame /\ f.call = "loop"
  BY <1>2 DEF Frame
<1>4. QED
  BY <1>1, <1>3, HTurns

LEMMA HListenerReturns == ASSUME HInv, ListenerReturns PROVE HInv'
<1> DEFINE f == Loop(stack[1].object, stack[1].name, stack[1].next + 1)
<1>1. Innermost("loop") /\ stack # << >> /\ UNCHANGED <<life, hwnd, userdata, released>>
  BY DEF ListenerReturns, InListener, Innermost, objectVars
<1>2. CASE stack' = Tail(stack)
  BY <1>1, <1>2, HReturns DEF Innermost
<1>3. CASE stack' = [stack EXCEPT ![1] = f]
  <2>1. stack[1] \in Frame /\ stack[1].call = "loop"
    BY <1>1 DEF HInv, HType, Innermost
  <2>2. stack[1] \in [call : {"loop"}, object : Own, name : Name, next : Nat, inside : BOOLEAN]
    BY <2>1 DEF Frame
  <2>3. f \in Frame /\ f.call = "loop"
    BY <2>2 DEF Frame, Loop
  <2>4. QED
    BY <1>1, <1>3, <2>3, HTurns
<1>4. stack' = Tail(stack) \/ stack' = [stack EXCEPT ![1] = f]
  BY DEF ListenerReturns
<1>5. QED
  BY <1>2, <1>3, <1>4

LEMMA HStep == HInv /\ [Next]_vars => HInv'
<1> SUFFICES ASSUME HInv, [Next]_vars PROVE HInv'
  OBVIOUS
<1>1. CASE Run \/ Quit \/ RunReturns \/ Claim
  BY <1>1, HSame DEF Run, Quit, RunReturns, Claim, objectVars
<1>2. ASSUME NEW h \in Handle, NEW msg \in {"close", "other"}, Dispatch(h, msg) PROVE HInv'
  BY <1>2, HDispatch
<1>3. CASE DefaultCloses \/ DestroySends \/ DestroyEnds
  BY <1>3, HDefault, HDestroySends, HDestroyEnds
<1>4. CASE CallListener \/ ListenerReturns
  BY <1>4, HCallListener, HListenerReturns
<1>5. CASE LoopEnds
  BY <1>5, HReturns DEF LoopEnds, Innermost, objectVars
<1>6. ASSUME NEW o \in Own, NEW name \in Name, Listen(o, name) PROVE HInv'
  BY <1>6, HSame DEF Listen, objectVars
<1>7. ASSUME NEW k \in ClassObject, Register(k) \/ UnregisterClass(k) PROVE HInv'
  BY <1>7, HSame DEF Register, UnregisterClass, objectVars
<1>8. ASSUME NEW o \in Own, ConstructWindow(o) PROVE HInv'
  BY <1>8, HCreates DEF ConstructWindow, Object
<1>9. ASSUME NEW o \in Routed, ConstructRouted(o) PROVE HInv'
  BY <1>9, HCreates DEF ConstructRouted, Object
<1>10. ASSUME NEW o \in Object, DestructStarts(o) \/ Detach(o) PROVE HInv'
  BY <1>10, HDestructStarts, HDetach
<1>11. ASSUME NEW o \in Object, NEW h \in Handle, AttachStarts(o, h) PROVE HInv'
  BY <1>11, HAttachStarts
<1>12. CASE DestructEnds \/ AttachEnds
  BY <1>12, HDestructEnds, HAttachEnds
<1>13. CASE UNCHANGED vars
  BY <1>13, HSame DEF vars, objectVars
<1>14. QED
  BY <1>1, <1>2, <1>3, <1>4, <1>5, <1>6, <1>7, <1>8, <1>9, <1>10, <1>11, <1>12, <1>13 DEF Next

\* The handler that a window names is there, but while a destructor or another call
\* destroys the window, and for a window that was detached from its object.
THEOREM HandlersLive == Spec => []HandlerLives
<1>1. HInv => HandlerLives
  BY DEF HInv, Owned, HandlerLives
<1>2. QED
  BY <1>1, HInit, HStep, PTL DEF Spec

-----------------------------------------------------------------------------
(* The handles.  As long as no call destroyed the window of another's object,  *)
(* no two objects hold one handle.                                             *)

\* A call f above a call g that will hand a window to an object does not destroy that
\* window nor hand it to another, and no object is attached to above its destructor.
Apart(f, g) ==
  /\ g.call = "attach" /\ f.call \in {"default", "destroy", "attach"} => f.handle # g.handle
  /\ g.call = "destruct" /\ f.call = "attach" => f.object # g.object

Tower(s) == \A i, j \in 1 .. Len(s) : i < j => Apart(s[i], s[j])

\* the innermost call is about to take its handle from an object
Busy == stack # << >> /\ Head(stack).call \in {"destruct", "attach"}
Losing(o) == Busy /\ Head(stack).object = o

\* a handle belongs to an object that lives, or whose destructor is under way
Bound == \A o \in Object : /\ hwnd[o] \in Handle => life[o] \in {"alive", "dying"}
                           /\ life[o] = "dying" => Destructing(o)

\* no two objects hold the same handle
Distinct == \A o, p \in Object : o # p /\ hwnd[o] = hwnd[p] => hwnd[o] = None

\* a window that a call will hand to an object is there, and is nobody's
Handed == \A f \in Range(stack) : f.call = "attach" =>
            /\ Exists(f.handle) /\ f.handle \notin loose
            /\ \A o \in Object : hwnd[o] # f.handle

\* a window that was detached is there, and is nobody's
Adrift == \A h \in loose : Exists(h) /\ \A o \in Object : hwnd[o] # h

\* an object's window is there until the object gives up the handle
Backed == \A o \in Object : hwnd[o] \in Handle => Exists(hwnd[o]) \/ Losing(o)

Owners == Tower(stack) /\ Distinct /\ Handed /\ Adrift /\ Backed

OInv == Bound /\ (closed = {} => Owners)

LEMMA OInit == Init => OInv
<1> SUFFICES ASSUME Init PROVE OInv
  OBVIOUS
<1>1. stack = << >> /\ Range(stack) = {} /\ Len(stack) = 0 /\ loose = {}
  BY DEF Init, Range
<1>2. \A o \in Object : hwnd[o] = None /\ life[o] = "none" /\ hwnd[o] \notin Handle
  BY WindowAssumption DEF Init
<1>3. Bound /\ Distinct /\ Handed /\ Adrift /\ Backed
  BY <1>1, <1>2 DEF Bound, Distinct, Handed, Adrift, Backed
<1>4. Tower(stack)
  BY <1>1 DEF Tower
<1>5. QED
  BY <1>3, <1>4 DEF OInv, Owners

LEMMA TowerConcat ==
  ASSUME NEW s \in Seq(Frame), NEW t \in Seq(Frame), Tower(s), Tower(t),
         \A f \in Range(s), g \in Range(t) : Apart(f, g)
  PROVE  Tower(s \o t)
<1> DEFINE u == s \o t
<1>1. /\ Len(u) = Len(s) + Len(t) /\ Len(s) \in Nat /\ Len(t) \in Nat
      /\ \A i \in 1 .. Len(s) : u[i] = s[i]
      /\ \A i \in Len(s) + 1 .. Len(s) + Len(t) : u[i] = t[i - Len(s)]
  OBVIOUS
<1> HIDE DEF u
<1> SUFFICES ASSUME NEW i \in 1 .. Len(u), NEW j \in 1 .. Len(u), i < j
             PROVE  Apart(u[i], u[j])
  BY DEF Tower, u
<1>2. CASE j <= Len(s)
  <2>1. u[i] = s[i] /\ u[j] = s[j] /\ i \in 1 .. Len(s) /\ j \in 1 .. Len(s)
    BY <1>1, <1>2
  <2>2. QED
    BY <2>1 DEF Tower
<1>3. CASE i > Len(s)
  <2>1. /\ u[i] = t[i - Len(s)] /\ u[j] = t[j - Len(s)] /\ i - Len(s) < j - Len(s)
        /\ i - Len(s) \in 1 .. Len(t) /\ j - Len(s) \in 1 .. Len(t)
    BY <1>1, <1>3
  <2>2. QED
    BY <2>1 DEF Tower
<1>4. CASE i <= Len(s) /\ j > Len(s)
  <2>1. /\ u[i] = s[i] /\ u[j] = t[j - Len(s)]
        /\ i \in 1 .. Len(s) /\ j - Len(s) \in 1 .. Len(t)
    BY <1>1, <1>4
  <2>2. u[i] \in Range(s) /\ u[j] \in Range(t)
    BY <2>1 DEF Range
  <2>3. QED
    BY <2>2
<1>5. QED
  BY <1>1, <1>2, <1>3, <1>4

\* Calls that hand over nothing may stand in any order.
LEMMA TowerPlain ==
  ASSUME NEW s \in Seq(Frame), \A f \in Range(s) : f.call \notin {"attach", "destruct"}
  PROVE  Tower(s)
  BY DEF Tower, Apart, Range

LEMMA TowerOne == ASSUME NEW f PROVE Tower(<<f>>)
  BY DEF Tower

LEMMA TowerPop ==
  ASSUME NEW s \in Seq(Frame), s # << >>, Tower(s)
  PROVE  Tower(Tail(s)) /\ \A g \in Range(Tail(s)) : Apart(Head(s), g)
<1> DEFINE t == Tail(s)
<1>1. /\ Len(s) \in Nat \ {0} /\ Head(s) = s[1] /\ t \in Seq(Frame) /\ Len(t) = Len(s) - 1
      /\ \A i \in 1 .. Len(s) - 1 : t[i] = s[i + 1]
  OBVIOUS
<1> HIDE DEF t
<1>2. Tower(t)
  BY <1>1 DEF Tower
<1>3. ASSUME NEW i \in 1 .. Len(t) PROVE Apart(Head(s), t[i])
  BY <1>1 DEF Tower
<1>4. \A g \in Range(t) : Apart(Head(s), g)
  BY <1>1, <1>3 DEF Range
<1>5. QED
  BY <1>2, <1>4 DEF t

\* what a step does to the stack that begins no attach and ends no destructor
Quiet(s, t) == /\ \A f \in Range(t) : f.call = "attach" => f \in Range(s)
               /\ \A f \in Range(s) : f.call = "destruct" => f \in Range(t)

LEMMA OCalm ==
  ASSUME OInv, Quiet(stack, stack'), Tower(stack) => Tower(stack'), ~Busy,
         UNCHANGED <<life, hwnd, userdata, loose, closed>>
  PROVE  OInv'
<1>1. Bound'
  BY DEF OInv, Bound, Quiet, Destructing
<1>2. ASSUME Owners PROVE Owners'
  <2>1. Distinct' /\ Adrift' /\ Backed'
    BY <1>2 DEF Owners, Distinct, Adrift, Backed, Losing, Exists
  <2>2. Handed'
    BY <1>2 DEF Owners, Handed, Quiet, Exists
  <2>3. QED
    BY <1>2, <2>1, <2>2 DEF Owners
<1>3. QED
  BY <1>1, <1>2 DEF OInv

LEMMA OSame ==
  ASSUME OInv, UNCHANGED <<life, hwnd, userdata, loose, closed, stack>> PROVE OInv'
<1>1. Bound'
  BY DEF OInv, Bound, Destructing
<1>2. Owners => Owners'
  BY DEF Owners, Tower, Distinct, Handed, Adrift, Backed, Losing, Busy, Exists
<1>3. QED
  BY <1>1, <1>2 DEF OInv

\* a loop over listeners that has just begun
Begins(f) == f.call = "loop" /\ f.next = 1 /\ f.inside = FALSE

\* What a message puts above the calls that go on is calls that hand over nothing.
LEMMA SendsShape ==
  ASSUME NEW h \in Handle, NEW msg, NEW default \in Seq(Frame), NEW rest \in Seq(Frame),
         Sends(h, msg, default, rest)
  PROVE  \E pre \in Seq(Frame) :
           /\ stack' = pre \o rest
           /\ \A f \in Range(pre) : Begins(f) \/ f \in Range(default)
<1>1. << >> \in Seq(Frame) /\ Range(<< >>) = {}
  BY DEF Range
<1>2. << >> \o default = default
  BY NoPush
<1>3. CASE userdata[h] \in Own
  <2> DEFINE loop == Loop(userdata[h], NameOf(msg), 1)
  <2>1. loop \in Frame /\ Begins(loop)
    BY <1>3 DEF Frame, Loop, NameOf, Name, Begins
  <2>2. <<loop>> \o default \in Seq(Frame)
        /\ Range(<<loop>> \o default) = {loop} \cup Range(default)
    BY <2>1, PushRange
  <2>3. CASE stack' = (<<loop>> \o default) \o rest
    BY <2>1, <2>2, <2>3
  <2>4. CASE stack' = (<< >> \o default) \o rest
    BY <1>2, <2>4
  <2>5. QED
    BY <1>3, <2>3, <2>4 DEF Sends
<1>4. CASE userdata[h] \notin Own
  <2>1. stack' = << >> \o rest \/ stack' = default \o rest
    BY <1>4 DEF Sends
  <2>2. QED
    BY <1>1, <2>1
<1>5. QED
  BY <1>3, <1>4

\* Calls put above others, none of which hands over anything.
LEMMA TowerPut ==
  ASSUME NEW pre \in Seq(Frame), NEW rest \in Seq(Frame), Tower(rest),
         \A f \in Range(pre) : f.call \notin {"attach", "destruct"},
         \A f \in Range(pre), g \in Range(rest) : Apart(f, g)
  PROVE  Tower(pre \o rest)
<1>1. Tower(pre)
  BY TowerPlain
<1>2. QED
  BY <1>1, TowerConcat

\* A message sent from `rest`, or default processing of it: `default` is nothing or a
\* call that is apart from those below.
LEMMA OSends ==
  ASSUME HInv, OInv, ~Busy, NEW h \in Handle, NEW msg,
         NEW default \in Seq(Frame), NEW rest \in Seq(Frame), Sends(h, msg, default, rest),
         \A f \in Range(default) : f.call = "default", rest = << >> \/ default = << >>,
         Quiet(stack, rest), Tower(stack) => Tower(rest),
         UNCHANGED <<life, hwnd, userdata, loose, closed>>
  PROVE  OInv'
<1>1. PICK pre \in Seq(Frame) : /\ stack' = pre \o rest
                                /\ \A f \in Range(pre) : Begins(f) \/ f \in Range(default)
  BY SendsShape
<1>2. \A f \in Range(pre) : f.call \in {"loop", "default"}
  BY <1>1 DEF Begins
<1>3. Range(<< >>) = {}
  BY DEF Range
<1>4. \A f \in Range(pre), g \in Range(rest) : Apart(f, g)
  <2>1. CASE rest = << >>
    BY <1>3, <2>1
  <2>2. CASE default = << >>
    <3>1. \A f \in Range(pre) : f.call = "loop"
      BY <1>1, <1>3, <2>2 DEF Begins
    <3>2. QED
      BY <3>1 DEF Apart
  <2>3. QED
    BY <2>1, <2>2
<1>5. Tower(stack) => Tower(stack')
  BY <1>1, <1>2, <1>4, TowerPut
<1>6. Range(stack') = Range(pre) \cup Range(rest)
  BY <1>1, ConcatRange
<1>7. Quiet(stack, stack')
  BY <1>2, <1>6 DEF Quiet
<1>8. QED
  BY <1>5, <1>7, OCalm

LEMMA ODispatch ==
  ASSUME HInv, OInv, NEW h \in Handle, NEW msg \in {"close", "other"}, Dispatch(h, msg)
  PROVE  OInv'
<1>1. /\ << >> \in Seq(Frame) /\ Range(<< >>) = {} /\ stack = << >> /\ ~Busy
      /\ UNCHANGED <<life, hwnd, userdata, loose, closed>>
  BY DEF Dispatch, Range, Busy, objectVars
<1>2. Quiet(stack, << >>)
  BY <1>1 DEF Quiet
<1>3. Default(h) \in Frame /\ Default(h).call = "default"
  BY DEF Default, Frame
<1>4. <<Default(h)>> \in Seq(Frame) /\ Range(<<Default(h)>>) = {Default(h)}
  BY <1>3, ShortRange
<1>5. ASSUME NEW default \in Seq(Frame), \A f \in Range(default) : f.call = "default",
             Sends(h, msg, default, << >>)
      PROVE  OInv'
  BY <1>1, <1>2, <1>5, OSends
<1>6. CASE Sends(h, msg, << >>, << >>)
  BY <1>1, <1>5, <1>6
<1>7. CASE Sends(h, msg, <<Default(h)>>, << >>)
  <2>1. ASSUME NEW default \in Seq(Frame), default = <<Default(h)>> PROVE OInv'
    BY <1>3, <1>4, <1>5, <1>7, <2>1
  <2>2. QED
    BY <1>4, <2>1
<1>8. QED
  BY <1>6, <1>7 DEF Dispatch

\* The innermost call returns, or goes on as a destruction of the same window.
LEMMA OReplaced ==
  ASSUME HInv, OInv, stack # << >>, ~Busy, NEW pre \in Seq(Frame),
         stack' = pre \o Tail(stack), \A f \in Range(pre) :
           /\ f.call = "destroy" /\ f.handle = Head(stack).handle
           /\ Head(stack).call \in {"default", "destroy"},
         UNCHANGED <<life, hwnd, userdata, loose, closed>>
  PROVE  OInv'
<1>1. /\ stack \in Seq(Frame) /\ Tail(stack) \in Seq(Frame)
      /\ Range(Tail(stack)) \subseteq Range(stack)
      /\ Range(stack) \subseteq Range(Tail(stack)) \cup {Head(stack)}
  BY TailRange DEF HInv, HType
<1>2. Head(stack).call \notin {"destruct", "attach"}
  BY DEF Busy
<1>3. Range(stack') = Range(pre) \cup Range(Tail(stack))
  BY <1>1, ConcatRange
<1>4. Quiet(stack, stack')
  BY <1>1, <1>2, <1>3 DEF Quiet
<1>5. ASSUME Tower(stack) PROVE Tower(stack')
  <2>1. Tower(Tail(stack)) /\ \A g \in Range(Tail(stack)) : Apart(Head(stack), g)
    BY <1>1, <1>5, TowerPop
  <2>2. \A f \in Range(pre), g \in Range(Tail(stack)) : Apart(f, g)
    BY <2>1 DEF Apart
  <2>3. QED
    BY <1>1, <2>1, <2>2, TowerPut
<1>6. QED
  BY <1>4, <1>5, OCalm

LEMMA OReturns ==
  ASSUME HInv, OInv, stack # << >>, ~Busy, stack' = Tail(stack),
         UNCHANGED <<life, hwnd, userdata, loose, closed>>
  PROVE  OInv'
<1>1. << >> \in Seq(Frame) /\ Range(<< >>) = {} /\ Tail(stack) \in Seq(Frame)
  BY TailRange DEF HInv, HType, Range
<1>2. stack' = << >> \o Tail(stack)
  BY <1>1, NoPush
<1>3. QED
  BY <1>1, <1>2, OReplaced

LEMMA ODefault == ASSUME HInv, OInv, DefaultCloses PROVE OInv'
<1> DEFINE h == Head(stack).handle
<1>1. /\ stack # << >> /\ Head(stack).call = "default" /\ ~Busy
      /\ UNCHANGED <<life, hwnd, userdata, loose, closed>>
  BY DEF DefaultCloses, Innermost, objectVars, Busy
<1>2. << >> \in Seq(Frame) /\ Range(<< >>) = {}
  BY DEF Range
<1>3. CASE Exists(h) /\ stack' = <<Destroy(h, 1)>> \o Tail(stack)
  <2>1. Destroy(h, 1) \in Frame /\ Destroy(h, 1).call = "destroy" /\ Destroy(h, 1).handle = h
    BY <1>3 DEF Destroy, Frame, Exists
  <2>2. <<Destroy(h, 1)>> \in Seq(Frame) /\ Range(<<Destroy(h, 1)>>) = {Destroy(h, 1)}
    BY <2>1, ShortRange
  <2>3. ASSUME NEW pre \in Seq(Frame), pre = <<Destroy(h, 1)>> PROVE OInv'
    BY <1>1, <1>3, <2>1, <2>2, <2>3, OReplaced
  <2>4. QED
    BY <2>2, <2>3
<1>4. CASE stack' = << >> \o Tail(stack)
  BY <1>1, <1>2, <1>4, OReplaced
<1>5. QED
  BY <1>3, <1>4 DEF DefaultCloses

LEMMA ODestroySends == ASSUME HInv, OInv, DestroySends PROVE OInv'
<1> DEFINE h == Head(stack).handle
           step == Head(stack).step
           rest == <<Destroy(h, step + 1)>> \o Tail(stack)
           msg == <<"destroy", "ncdestroy">>[step]
<1>1. /\ stack # << >> /\ Head(stack).call = "destroy" /\ step <= 2 /\ ~Busy
      /\ Sends(h, msg, << >>, rest) /\ UNCHANGED <<life, hwnd, userdata, loose, closed>>
  BY DEF DestroySends, Innermost, objectVars, Busy
<1>2. /\ stack \in Seq(Frame) /\ Tail(stack) \in Seq(Frame) /\ Head(stack) \in Frame
      /\ Range(Tail(stack)) \subseteq Range(stack)
      /\ Range(stack) \subseteq Range(Tail(stack)) \cup {Head(stack)}
  BY <1>1, TailRange DEF HInv, HType
<1>3. h \in Handle /\ step \in 1 .. 3
  BY <1>1, <1>2 DEF Frame
<1>4. /\ Destroy(h, step + 1) \in Frame /\ Destroy(h, step + 1).call = "destroy"
      /\ Destroy(h, step + 1).handle = h
  BY <1>1, <1>3 DEF Frame, Destroy
<1>5. rest \in Seq(Frame) /\ Range(rest) = {Destroy(h, step + 1)} \cup Range(Tail(stack))
  BY <1>2, <1>4, PushRange
<1>6. Quiet(stack, rest)
  BY <1>1, <1>2, <1>4, <1>5 DEF Quiet
<1>7. ASSUME Tower(stack) PROVE Tower(rest)
  <2>1. Tower(Tail(stack)) /\ \A g \in Range(Tail(stack)) : Apart(Head(stack), g)
    BY <1>1, <1>2, <1>7, TowerPop
  <2>2. \A g \in Range(Tail(stack)) : Apart(Destroy(h, step + 1), g)
    BY <1>1, <1>4, <2>1 DEF Apart
  <2>3. <<Destroy(h, step + 1)>> \in Seq(Frame)
        /\ Range(<<Destroy(h, step + 1)>>) = {Destroy(h, step + 1)}
    BY <1>4, ShortRange
  <2>4. QED
    BY <1>2, <1>4, <2>1, <2>2, <2>3, TowerPut
<1>8. << >> \in Seq(Frame) /\ Range(<< >>) = {}
  BY DEF Range
<1>9. ASSUME NEW m, NEW r \in Seq(Frame), Sends(h, m, << >>, r), Quiet(stack, r),
             Tower(stack) => Tower(r)
      PROVE  OInv'
  BY <1>1, <1>3, <1>8, <1>9, OSends
<1>10. QED
  BY <1>1, <1>5, <1>6, <1>7, <1>9

LEMMA NextCall ==
  ASSUME NEW s \in Seq(Frame), Len(s) > 1 PROVE Tail(s) # << >> /\ Head(Tail(s)) = s[2]
<1>1. Tail(s) \in Seq(Frame) /\ Len(Tail(s)) = Len(s) - 1 /\ Tail(s)[1] = s[2] /\ Len(s) \in Nat
  OBVIOUS
<1>2. ASSUME NEW t \in Seq(Frame), Len(t) > 0 PROVE t # << >> /\ Head(t) = t[1]
  BY <1>2
<1>3. ASSUME NEW t \in Seq(Frame), t = Tail(s) PROVE t # << >> /\ Head(t) = s[2]
  BY <1>1, <1>2, <1>3
<1>4. QED
  BY <1>1, <1>3

\* The window is gone.  Nobody is left with its handle but the object that is about to
\* give it up.
LEMMA ODestroyEnds == ASSUME HInv, OInv, DestroyEnds PROVE OInv'
<1> DEFINE h == Head(stack).handle
<1>1. /\ stack # << >> /\ Head(stack).call = "destroy" /\ ~Busy /\ stack' = Tail(stack)
      /\ userdata' = [userdata EXCEPT ![h] = None] /\ loose' = loose \ {h}
      /\ closed' = closed \cup ({o \in Object : hwnd[o] = h} \ Destroyer)
      /\ UNCHANGED <<life, hwnd>>
  BY DEF DestroyEnds, Innermost, Busy
<1>2. /\ stack \in Seq(Frame) /\ stack' \in Seq(Frame) /\ Head(stack) \in Frame
      /\ Range(stack') \subseteq Range(stack)
      /\ Range(stack) \subseteq Range(stack') \cup {Head(stack)}
  BY <1>1, TailRange DEF HInv, HType
<1>3. h \in Handle
  BY <1>1, <1>2 DEF Frame
<1>4. \A g \in Handle : g # h => userdata'[g] = userdata[g]
  BY <1>1 DEF HInv, HType
<1>5. \A g : g # h /\ Exists(g) => Exists(g)'
  BY <1>4 DEF Exists
<1>6. Bound'
  BY <1>1, <1>2 DEF OInv, Bound, Destructing
<1>7. ASSUME Owners, closed' = {} PROVE Owners'
  <2>1. Tower(stack') /\ \A g \in Range(stack') : Apart(Head(stack), g)
    BY <1>1, <1>2, <1>7, TowerPop DEF Owners
  <2>2. Distinct'
    BY <1>1, <1>7 DEF Owners, Distinct
  <2>3. Handed'
    <3> SUFFICES ASSUME NEW f \in Range(stack'), f.call = "attach"
                 PROVE  /\ Exists(f.handle)' /\ f.handle \notin loose'
                        /\ \A o \in Object : hwnd'[o] # f.handle
      BY DEF Handed
    <3>1. f.handle # h
      BY <1>1, <2>1 DEF Apart
    <3>2. QED
      BY <1>1, <1>2, <1>5, <1>7, <3>1 DEF Owners, Handed
  <2>4. Adrift'
    BY <1>1, <1>5, <1>7 DEF Owners, Adrift
  <2>5. Backed'
    <3> SUFFICES ASSUME NEW o \in Object, hwnd[o] \in Handle
                 PROVE  Exists(hwnd[o])' \/ Losing(o)'
      BY <1>1 DEF Backed
    <3>1. Exists(hwnd[o])
      BY <1>1, <1>7 DEF Owners, Backed, Losing
    <3>2. CASE hwnd[o] = h
      <4>1. o \in Destroyer
        BY <1>1, <1>7, <3>2
      <4>2. Len(stack) > 1 /\ stack[2].call \in {"destruct", "attach"} /\ stack[2].object = o
        BY <4>1 DEF Destroyer
      <4>3. stack' # << >> /\ Head(stack') = stack[2]
        BY <1>1, <1>2, <4>2, NextCall
      <4>4. QED
        BY <1>1, <4>2, <4>3 DEF Losing, Busy
    <3>3. CASE hwnd[o] # h
      BY <1>1, <1>4, <3>1, <3>3 DEF Exists
    <3>4. QED
      BY <3>2, <3>3
  <2>6. QED
    BY <1>1, <2>1, <2>2, <2>3, <2>4, <2>5 DEF Owners
<1>8. closed' = {} => closed = {}
  BY <1>1
<1>9. QED
  BY <1>6, <1>7, <1>8 DEF OInv

LEMMA ActsIdle == ASSUME Acts PROVE ~Busy
  BY DEF Acts, InListener, Innermost, Busy

LEMMA OCreates ==
  ASSUME HInv, OInv, Acts, NEW o \in Object, New(o), Creates(o) PROVE OInv'
<1>1. /\ life[o] = "none" /\ life' = [life EXCEPT ![o] = "alive"] /\ ~Busy
      /\ UNCHANGED <<stack, loose, closed>>
      /\ life \in [Object -> {"none", "alive", "dying", "dead"}]
      /\ hwnd \in [Object -> Handle \cup {None}]
      /\ userdata \in [Handle -> Object \cup {None}]
  BY ActsIdle DEF New, Creates, HInv, HType
<1>2. /\ life'[o] = "alive" /\ hwnd[o] \notin Handle
      /\ \A p \in Object : p # o => life'[p] = life[p]
      /\ \A p \in Object : Destructing(p)' <=> Destructing(p)
  BY <1>1 DEF OInv, Bound, Destructing
<1>3. CASE UNCHANGED <<hwnd, userdata>>
  <2>1. Bound'
    BY <1>1, <1>2, <1>3 DEF OInv, Bound
  <2>2. Owners => Owners'
    BY <1>1, <1>3 DEF Owners, Tower, Distinct, Handed, Adrift, Backed, Losing, Busy, Exists
  <2>3. QED
    BY <1>1, <2>1, <2>2 DEF OInv
<1>4. ASSUME NEW h \in Handle, ~Exists(h), hwnd' = [hwnd EXCEPT ![o] = h],
             userdata' = [userdata EXCEPT ![h] = o]
      PROVE  OInv'
  <2>1. hwnd'[o] = h /\ \A p \in Object : p # o => hwnd'[p] = hwnd[p]
    BY <1>1, <1>4
  <2>2. Exists(h)' /\ \A g : Exists(g) => Exists(g)'
    <3>1. userdata'[h] = o /\ o # None
      BY <1>1, <1>4, WindowAssumption DEF Object
    <3>2. \A g \in Handle : g # h => userdata'[g] = userdata[g]
      BY <1>1, <1>4
    <3>3. QED
      BY <3>1, <3>2 DEF Exists
  <2>3. Bound'
    BY <1>1, <1>2, <2>1 DEF OInv, Bound
  <2>4. ASSUME Owners PROVE Owners'
    <3>1. \A p \in Object : hwnd[p] # h
      BY <1>1, <1>4, <2>4 DEF Owners, Backed, Losing
    <3>2. Distinct'
      BY <2>1, <2>4, <3>1 DEF Owners, Distinct
    <3>3. Handed'
      BY <1>1, <1>4, <2>1, <2>2, <2>4 DEF Owners, Handed
    <3>4. Adrift'
      BY <1>1, <1>4, <2>1, <2>2, <2>4 DEF Owners, Adrift
    <3>5. Backed'
      BY <1>1, <2>1, <2>2, <2>4 DEF Owners, Backed, Losing
    <3>6. Tower(stack')
      BY <1>1, <2>4 DEF Owners
    <3>7. QED
      BY <3>2, <3>3, <3>4, <3>5, <3>6 DEF Owners
  <2>5. QED
    BY <1>1, <2>3, <2>4 DEF OInv
<1>5. QED
  BY <1>3, <1>4 DEF Creates

\* What an object's giving up its window adds to the stack, and that it stays a tower.
LEMMA GiveUpTower ==
  ASSUME HInv, OInv, Owners, NEW o \in Object, NEW call \in Frame,
         \A f \in Range(stack) : Apart(call, f),
         call.call = "attach" => hwnd[o] # call.handle,
         stack' = (DestroyWindow(o) \o <<call>>) \o stack
  PROVE  Tower(stack')
<1>1. stack \in Seq(Frame)
  BY DEF HInv, HType
<1>2. <<call>> \in Seq(Frame) /\ Range(<<call>>) = {call} /\ Tower(<<call>>)
  BY ShortRange, TowerOne
<1>3. ASSUME NEW one \in Seq(Frame), one = <<call>>, NEW pre \in Seq(Frame),
             DestroyWindow(o) = pre, \A f \in Range(pre) : f.call = "destroy" /\ f.handle = hwnd[o]
      PROVE  Tower(stack')
  <2>1. Range(one) = {call} /\ Tower(one)
    BY <1>2, <1>3
  <2>2. Tower(pre \o one)
    <3>1. \A f \in Range(pre), g \in Range(one) : Apart(f, g)
      BY <1>3, <2>1 DEF Apart
    <3>2. \A f \in Range(pre) : f.call \notin {"attach", "destruct"}
      BY <1>3
    <3>3. QED
      BY <2>1, <3>1, <3>2, TowerPut
  <2>3. pre \o one \in Seq(Frame) /\ Range(pre \o one) = Range(pre) \cup {call}
    BY <2>1, ConcatRange
  <2>4. \A f \in Range(pre), g \in Range(stack) : Apart(f, g)
    BY <1>3 DEF Owners, Handed, Apart
  <2>5. \A f \in Range(pre \o one), g \in Range(stack) : Apart(f, g)
    BY <2>3, <2>4
  <2>6. Tower((pre \o one) \o stack)
    BY <1>1, <2>2, <2>3, <2>5, TowerConcat DEF Owners
  <2>7. QED
    BY <1>3, <2>6
<1>4. CASE DestroyWindow(o) = <<Destroy(hwnd[o], 1)>> /\ Exists(hwnd[o])
  <2>1. Destroy(hwnd[o], 1) \in Frame /\ Destroy(hwnd[o], 1).call = "destroy"
        /\ Destroy(hwnd[o], 1).handle = hwnd[o]
    BY <1>4 DEF Frame, Destroy, Exists
  <2>2. <<Destroy(hwnd[o], 1)>> \in Seq(Frame)
        /\ Range(<<Destroy(hwnd[o], 1)>>) = {Destroy(hwnd[o], 1)}
    BY <2>1, ShortRange
  <2>3. QED
    BY <1>2, <1>3, <1>4, <2>1, <2>2
<1>5. CASE DestroyWindow(o) = << >>
  <2>1. << >> \in Seq(Frame) /\ Range(<< >>) = {}
    BY DEF Range
  <2>2. QED
    BY <1>2, <1>3, <1>5, <2>1
<1>6. QED
  BY <1>4, <1>5 DEF DestroyWindow

LEMMA ODestructStarts == ASSUME HInv, OInv, NEW o \in Object, DestructStarts(o) PROVE OInv'
<1> DEFINE call == Destruct(o)
<1>1. /\ life[o] = "alive" /\ life' = [life EXCEPT ![o] = "dying"] /\ ~Busy
      /\ stack' = (DestroyWindow(o) \o <<call>>) \o stack
      /\ UNCHANGED <<hwnd, userdata, loose, closed>>
  BY ActsIdle DEF DestructStarts
<1>2. call \in Frame /\ call.call = "destruct" /\ call.object = o
  BY DEF Frame, Destruct
<1>3. ASSUME NEW h, h = hwnd[o]
      PROVE  /\ call \in Range(stack') /\ Range(stack) \subseteq Range(stack')
             /\ \A f \in Range(stack') : f \in Range(stack) \/ f = call \/ f.call = "destroy"
  BY <1>1, <1>2, <1>3, GiveUpRange DEF HInv
<1>4. /\ call \in Range(stack') /\ Range(stack) \subseteq Range(stack')
      /\ \A f \in Range(stack') : f \in Range(stack) \/ f = call \/ f.call = "destroy"
  BY <1>3
<1> HIDE DEF call
<1>5. life'[o] = "dying" /\ \A p \in Object : p # o => life'[p] = life[p]
  BY <1>1 DEF HInv, HType
<1>6. Destructing(o)' /\ \A p \in Object : Destructing(p) => Destructing(p)'
  BY <1>2, <1>4 DEF Destructing
<1>7. Bound'
  BY <1>1, <1>5, <1>6 DEF OInv, Bound
<1>8. ASSUME Owners PROVE Owners'
  <2>1. \A f \in Range(stack) : Apart(call, f)
    BY <1>2 DEF Apart
  <2>2. Tower(stack')
    BY <1>1, <1>2, <1>8, <2>1, GiveUpTower
  <2>3. Distinct' /\ Adrift'
    BY <1>1, <1>8 DEF Owners, Distinct, Adrift, Exists
  <2>4. Handed'
    BY <1>1, <1>2, <1>4, <1>8 DEF Owners, Handed, Exists
  <2>5. Backed'
    BY <1>1, <1>8 DEF Owners, Backed, Losing, Exists
  <2>6. QED
    BY <2>2, <2>3, <2>4, <2>5 DEF Owners
<1>9. QED
  BY <1>1, <1>7, <1>8 DEF OInv

LEMMA OAttachStarts ==
  ASSUME HInv, OInv, NEW o \in Object, NEW g \in Handle, AttachStarts(o, g) PROVE OInv'
<1> DEFINE call == Take(o, g)
<1>1. /\ life[o] = "alive" /\ g \in loose /\ loose' = loose \ {g} /\ ~Busy
      /\ stack' = (DestroyWindow(o) \o <<call>>) \o stack
      /\ UNCHANGED <<life, hwnd, userdata, closed>>
  BY ActsIdle DEF AttachStarts
<1>2. call \in Frame /\ call.call = "attach" /\ call.object = o /\ call.handle = g
  BY DEF Frame, Take
<1>3. ASSUME NEW h, h = hwnd[o]
      PROVE  /\ Range(stack) \subseteq Range(stack')
             /\ \A f \in Range(stack') : f \in Range(stack) \/ f = call \/ f.call = "destroy"
  BY <1>1, <1>2, <1>3, GiveUpRange DEF HInv
<1>4. /\ Range(stack) \subseteq Range(stack')
      /\ \A f \in Range(stack') : f \in Range(stack) \/ f = call \/ f.call = "destroy"
  BY <1>3
<1> HIDE DEF call
<1>5. Bound'
  BY <1>1, <1>4 DEF OInv, Bound, Destructing
<1>6. ASSUME Owners PROVE Owners'
  <2>1. Exists(g) /\ \A p \in Object : hwnd[p] # g
    BY <1>1, <1>6 DEF Owners, Adrift
  <2>2. ~Destructing(o)
    BY <1>1 DEF HInv, Doomed
  <2>3. ASSUME NEW f \in Range(stack) PROVE Apart(call, f)
    <3>1. f.call = "attach" => f.handle # g
      BY <1>1, <1>6, <2>3 DEF Owners, Handed
    <3>2. f.call = "destruct" => f.object # o
      BY <2>2, <2>3 DEF Destructing
    <3>3. QED
      BY <1>2, <3>1, <3>2 DEF Apart
  <2>4. Tower(stack')
    BY <1>1, <1>2, <1>6, <2>1, <2>3, GiveUpTower
  <2>5. Distinct' /\ Adrift'
    BY <1>1, <1>6 DEF Owners, Distinct, Adrift, Exists
  <2>6. Handed'
    BY <1>1, <1>2, <1>4, <1>6, <2>1 DEF Owners, Handed, Exists
  <2>7. Backed'
    BY <1>1, <1>6 DEF Owners, Backed, Losing, Exists
  <2>8. QED
    BY <2>4, <2>5, <2>6, <2>7 DEF Owners
<1>7. QED
  BY <1>1, <1>5, <1>6 DEF OInv

LEMMA ODestructEnds == ASSUME HInv, OInv, DestructEnds PROVE OInv'
<1> DEFINE o == Head(stack).object
<1>1. /\ stack # << >> /\ Head(stack).call = "destruct" /\ stack' = Tail(stack)
      /\ life' = [life EXCEPT ![o] = "dead"] /\ hwnd' = [hwnd EXCEPT ![o] = None]
      /\ UNCHANGED <<userdata, loose, closed>>
  BY DEF DestructEnds, Innermost
<1>2. /\ stack \in Seq(Frame) /\ stack' \in Seq(Frame) /\ Head(stack) \in Frame
      /\ Range(stack') \subseteq Range(stack)
      /\ Range(stack) \subseteq Range(stack') \cup {Head(stack)}
  BY <1>1, TailRange DEF HInv, HType
<1>3. o \in Object
  BY <1>1, <1>2 DEF Frame
<1>4. /\ life'[o] = "dead" /\ hwnd'[o] = None
      /\ \A p \in Object : p # o => life'[p] = life[p] /\ hwnd'[p] = hwnd[p]
  BY <1>1, <1>3 DEF HInv, HType
<1>5. \A p \in Object : p # o /\ Destructing(p) => Destructing(p)'
  BY <1>1, <1>2 DEF Destructing
<1>6. \A p \in Object : Losing(p) => p = o
  BY DEF Losing
<1> HIDE DEF o
<1>7. Bound'
  BY <1>4, <1>5, WindowAssumption DEF OInv, Bound
<1>8. ASSUME Owners PROVE Owners'
  <2>1. Tower(stack')
    BY <1>1, <1>2, <1>8, TowerPop DEF Owners
  <2>2. Distinct'
    BY <1>4, <1>8 DEF Owners, Distinct
  <2>3. Handed'
    <3> SUFFICES ASSUME NEW f \in Range(stack'), f.call = "attach"
                 PROVE  /\ Exists(f.handle)' /\ f.handle \notin loose'
                        /\ \A p \in Object : hwnd'[p] # f.handle
      BY DEF Handed
    <3>1. /\ Exists(f.handle) /\ f.handle \notin loose
          /\ \A p \in Object : hwnd[p] # f.handle
      BY <1>2, <1>8 DEF Owners, Handed
    <3>2. f.handle # None
      BY <3>1, WindowAssumption DEF Exists
    <3>3. QED
      BY <1>1, <1>4, <3>1, <3>2 DEF Exists
  <2>4. Adrift'
    BY <1>1, <1>4, <1>8, WindowAssumption DEF Owners, Adrift, Exists
  <2>5. Backed'
    BY <1>1, <1>4, <1>6, <1>8, WindowAssumption DEF Owners, Backed, Exists
  <2>6. QED
    BY <2>1, <2>2, <2>3, <2>4, <2>5 DEF Owners
<1>9. QED
  BY <1>1, <1>7, <1>8 DEF OInv

\* The object takes the window, or it died meanwhile and holds none.
LEMMA OAttachEnds == ASSUME HInv, OInv, AttachEnds PROVE OInv'
<1> DEFINE o == Head(stack).object
           g == Head(stack).handle
<1>1. /\ stack # << >> /\ Head(stack).call = "attach" /\ stack' = Tail(stack)
      /\ hwnd' = IF life[o] = "alive" THEN [hwnd EXCEPT ![o] = g] ELSE hwnd
      /\ UNCHANGED <<life, userdata, loose, closed>>
  BY DEF AttachEnds, Innermost
<1>2. /\ stack \in Seq(Frame) /\ stack' \in Seq(Frame) /\ Head(stack) \in Range(stack)
      /\ Head(stack) \in Frame /\ Range(stack') \subseteq Range(stack)
      /\ Range(stack) \subseteq Range(stack') \cup {Head(stack)}
  BY <1>1, TailRange DEF HInv, HType
<1>3. o \in Object /\ g \in Handle
  BY <1>1, <1>2 DEF Frame
<1>4. \A p \in Object : Destructing(p) => Destructing(p)'
  BY <1>1, <1>2 DEF Destructing
<1>5. \A p \in Object : Losing(p) => p = o
  BY DEF Losing
<1>6. ASSUME Owners
      PROVE  /\ Exists(g) /\ g \notin loose /\ \A p \in Object : hwnd[p] # g
             /\ \A f \in Range(stack') :
                  /\ f.call = "attach" => f.handle # g
                  /\ f.call = "destruct" => f.object # o
             /\ Tower(stack')
  <2>1. Exists(g) /\ g \notin loose /\ \A p \in Object : hwnd[p] # g
    BY <1>1, <1>2, <1>6 DEF Owners, Handed
  <2>2. Tower(stack') /\ \A f \in Range(stack') : Apart(Head(stack), f)
    BY <1>1, <1>2, <1>6, TowerPop DEF Owners
  <2>3. QED
    BY <1>1, <2>1, <2>2 DEF Apart
<1>7. hwnd \in [Object -> Handle \cup {None}]
  BY DEF HInv, HType
<1> HIDE DEF o, g
<1>8. CASE life[o] = "alive"
  <2>1. hwnd'[o] = g /\ \A p \in Object : p # o => hwnd'[p] = hwnd[p]
    BY <1>1, <1>3, <1>7, <1>8
  <2>2. Bound'
    BY <1>1, <1>4, <1>8, <2>1 DEF OInv, Bound
  <2>3. ASSUME Owners PROVE Owners'
    <3>1. Distinct'
      BY <1>6, <2>1, <2>3 DEF Owners, Distinct
    <3>2. Handed'
      BY <1>1, <1>2, <1>6, <2>1, <2>3 DEF Owners, Handed, Exists
    <3>3. Adrift'
      BY <1>1, <1>6, <2>1, <2>3 DEF Owners, Adrift, Exists
    <3>4. Backed'
      BY <1>1, <1>5, <1>6, <2>1, <2>3 DEF Owners, Backed, Exists
    <3>5. QED
      BY <1>6, <2>3, <3>1, <3>2, <3>3, <3>4 DEF Owners
  <2>4. QED
    BY <1>1, <2>2, <2>3 DEF OInv
<1>9. CASE life[o] # "alive"
  <2>1. hwnd' = hwnd
    BY <1>1, <1>9
  <2>2. Bound'
    BY <1>1, <1>4, <2>1 DEF OInv, Bound
  <2>3. ASSUME Owners PROVE Owners'
    <3>1. hwnd[o] \notin Handle
      <4>1. ~Destructing(o)
        <5> SUFFICES ASSUME NEW f \in Range(stack), f.call = "destruct" PROVE f.object # o
          BY DEF Destructing
        <5>1. f \in Range(stack')
          BY <1>1, <1>2
        <5>2. QED
          BY <1>6, <2>3, <5>1
      <4>2. QED
        BY <1>3, <1>9, <4>1 DEF OInv, Bound
    <3>2. Distinct' /\ Adrift'
      BY <1>1, <2>1, <2>3 DEF Owners, Distinct, Adrift, Exists
    <3>3. Handed'
      BY <1>1, <1>2, <2>1, <2>3 DEF Owners, Handed, Exists
    <3>4. Backed'
      BY <1>1, <1>5, <2>1, <2>3, <3>1 DEF Owners, Backed, Exists
    <3>5. QED
      BY <1>6, <2>3, <3>2, <3>3, <3>4 DEF Owners
  <2>4. QED
    BY <1>1, <2>2, <2>3 DEF OInv
<1>10. QED
  BY <1>8, <1>9

LEMMA ODetach == ASSUME HInv, OInv, NEW o \in Object, Detach(o) PROVE OInv'
<1>1. /\ hwnd' = [hwnd EXCEPT ![o] = None] /\ loose' = loose \cup Windows(hwnd[o]) /\ ~Busy
      /\ hwnd[o] # None /\ UNCHANGED <<life, userdata, stack, closed>>
  BY ActsIdle DEF Detach
<1>2. hwnd'[o] = None /\ \A p \in Object : p # o => hwnd'[p] = hwnd[p]
  BY <1>1 DEF HInv, HType
<1>3. Bound'
  BY <1>1, <1>2, WindowAssumption DEF OInv, Bound, Destructing
<1>4. ASSUME Owners PROVE Owners'
  <2>1. Distinct'
    BY <1>2, <1>4 DEF Owners, Distinct
  <2>2. Handed'
    <3> SUFFICES ASSUME NEW f \in Range(stack), f.call = "attach"
                 PROVE  /\ Exists(f.handle)' /\ f.handle \notin loose'
                        /\ \A p \in Object : hwnd'[p] # f.handle
      BY <1>1 DEF Handed
    <3>1. /\ Exists(f.handle) /\ f.handle \notin loose
          /\ \A p \in Object : hwnd[p] # f.handle
      BY <1>4 DEF Owners, Handed
    <3>2. f.handle # None
      BY <3>1, WindowAssumption DEF Exists
    <3>3. f.handle \notin loose'
      BY <1>1, <3>1 DEF Windows
    <3>4. QED
      BY <1>1, <1>2, <3>1, <3>2, <3>3 DEF Exists
  <2>3. Adrift'
    <3> SUFFICES ASSUME NEW h \in loose'
                 PROVE  Exists(h)' /\ \A p \in Object : hwnd'[p] # h
      BY DEF Adrift
    <3>1. CASE h \in loose
      BY <1>1, <1>2, <1>4, <3>1, WindowAssumption DEF Owners, Adrift, Exists
    <3>2. CASE h = hwnd[o] /\ Exists(h)
      BY <1>1, <1>2, <1>4, <3>2, WindowAssumption DEF Owners, Distinct, Exists
    <3>3. QED
      BY <1>1, <3>1, <3>2 DEF Windows
  <2>4. Backed'
    BY <1>1, <1>2, <1>4, WindowAssumption DEF Owners, Backed, Losing, Exists
  <2>5. Tower(stack')
    BY <1>1, <1>4 DEF Owners
  <2>6. QED
    BY <2>1, <2>2, <2>3, <2>4, <2>5 DEF Owners
<1>5. QED
  BY <1>1, <1>3, <1>4 DEF OInv

\* One turn of the innermost loop.
LEMMA OTurns ==
  ASSUME HInv, OInv, Innermost("loop"), NEW f \in Frame, f.call = "loop",
         stack' = [stack EXCEPT ![1] = f],
         UNCHANGED <<life, hwnd, userdata, loose, closed>>
  PROVE  OInv'
<1>1. /\ stack \in Seq(Frame) /\ stack # << >> /\ stack[1].call = "loop" /\ ~Busy
      /\ Len(stack) \in Nat \ {0}
  BY DEF HInv, HType, Innermost, Busy
<1>2. /\ stack' \in Seq(Frame) /\ Len(stack') = Len(stack) /\ stack'[1] = f
      /\ \A i \in 1 .. Len(stack) : i # 1 => stack'[i] = stack[i]
  BY <1>1
<1>3. Quiet(stack, stack')
  <2>1. \A i \in 1 .. Len(stack) : stack'[i].call = "attach" => stack'[i] = stack[i]
    BY <1>1, <1>2
  <2>2. \A i \in 1 .. Len(stack) : stack[i].call = "destruct" => stack'[i] = stack[i]
    BY <1>1, <1>2
  <2>3. QED
    BY <1>1, <1>2, <2>1, <2>2 DEF Quiet, Range
<1>4. Tower(stack) => Tower(stack')
  BY <1>1, <1>2 DEF Tower, Apart
<1>5. QED
  BY <1>1, <1>3, <1>4, OCalm

LEMMA OCallListener == ASSUME HInv, OInv, CallListener PROVE OInv'
<1> DEFINE f == [stack[1] EXCEPT !.inside = TRUE]
<1>1. /\ Innermost("loop") /\ stack' = [stack EXCEPT ![1] = f]
      /\ UNCHANGED <<life, hwnd, userdata, loose, closed>>
  BY DEF CallListener, objectVars
<1>2. stack[1] \in Frame /\ stack[1].call = "loop"
  BY <1>1 DEF HInv, HType, Innermost
<1>3. f \in Frame /\ f.call = "loop"
  BY <1>2 DEF Frame
<1>4. QED
  BY <1>1, <1>3, OTurns

LEMMA OListenerReturns == ASSUME HInv, OInv, ListenerReturns PROVE OInv'
<1> DEFINE f == Loop(stack[1].object, stack[1].name, stack[1].next + 1)
<1>1. Innermost("loop") /\ stack # << >> /\ UNCHANGED <<life, hwnd, userdata, loose, closed>>
  BY DEF ListenerReturns, InListener, Innermost, objectVars
<1>2. CASE stack' = Tail(stack)
  BY <1>1, <1>2, OReturns DEF Innermost, Busy
<1>3. CASE stack' = [stack EXCEPT ![1] = f]
  <2>1. stack[1] \in Frame /\ stack[1].call = "loop"
    BY <1>1 DEF HInv, HType, Innermost
  <2>2. stack[1] \in [call : {"loop"}, object : Own, name : Name, next : Nat, inside : BOOLEAN]
    BY <2>1 DEF Frame
  <2>3. f \in Frame /\ f.call = "loop"
    BY <2>2 DEF Frame, Loop
  <2>4. QED
    BY <1>1, <1>3, <2>3, OTurns
<1>4. stack' = Tail(stack) \/ stack' = [stack EXCEPT ![1] = f]
  BY DEF ListenerReturns
<1>5. QED
  BY <1>2, <1>3, <1>4

LEMMA OStep == HInv /\ OInv /\ [Next]_vars => OInv'
<1> SUFFICES ASSUME HInv, OInv, [Next]_vars PROVE OInv'
  OBVIOUS
<1>1. CASE Run \/ Quit \/ RunReturns \/ Claim
  BY <1>1, OSame DEF Run, Quit, RunReturns, Claim, objectVars
<1>2. ASSUME NEW h \in Handle, NEW msg \in {"close", "other"}, Dispatch(h, msg) PROVE OInv'
  BY <1>2, ODispatch
<1>3. CASE DefaultCloses \/ DestroySends \/ DestroyEnds
  BY <1>3, ODefault, ODestroySends, ODestroyEnds
<1>4. CASE CallListener \/ ListenerReturns
  BY <1>4, OCallListener, OListenerReturns
<1>5. CASE LoopEnds
  BY <1>5, OReturns DEF LoopEnds, Innermost, Busy, objectVars
<1>6. ASSUME NEW o \in Own, NEW name \in Name, Listen(o, name) PROVE OInv'
  BY <1>6, OSame DEF Listen, objectVars
<1>7. ASSUME NEW k \in ClassObject, Register(k) \/ UnregisterClass(k) PROVE OInv'
  BY <1>7, OSame DEF Register, UnregisterClass, objectVars
<1>8. ASSUME NEW o \in Own, ConstructWindow(o) PROVE OInv'
  BY <1>8, OCreates DEF ConstructWindow, Object
<1>9. ASSUME NEW o \in Routed, ConstructRouted(o) PROVE OInv'
  BY <1>9, OCreates DEF ConstructRouted, Object
<1>10. ASSUME NEW o \in Object, DestructStarts(o) \/ Detach(o) PROVE OInv'
  BY <1>10, ODestructStarts, ODetach
<1>11. ASSUME NEW o \in Object, NEW h \in Handle, AttachStarts(o, h) PROVE OInv'
  BY <1>11, OAttachStarts
<1>12. CASE DestructEnds \/ AttachEnds
  BY <1>12, ODestructEnds, OAttachEnds
<1>13. CASE UNCHANGED vars
  BY <1>13, OSame DEF vars, objectVars
<1>14. QED
  BY <1>1, <1>2, <1>3, <1>4, <1>5, <1>6, <1>7, <1>8, <1>9, <1>10, <1>11, <1>12, <1>13 DEF Next

\* Two objects hold the same handle only after the window of an object was destroyed by
\* another call: while nobody's window was, the handle that the system gives to a new
\* window, or that an attach hands over, is in no object's hwnd_.
THEOREM OwnersDiffer == Spec => []OneOwner
<1>1. OInv => OneOwner
  BY DEF OInv, Owners, Distinct, OneOwner
<1>2. Init => HInv /\ OInv
  BY HInit, OInit
<1>3. HInv /\ OInv /\ [Next]_vars => HInv' /\ OInv'
  BY HStep, OStep
<1>4. QED
  BY <1>1, <1>2, <1>3, PTL DEF Spec

-----------------------------------------------------------------------------
(* The types.  A loop is never past the end of its listeners by more than the   *)
(* step that ends it, since listeners are only added.                           *)

Counts == /\ listeners \in [Own -> [Name -> Nat]] /\ claimed \subseteq Own
          /\ \A o \in Own, name \in Name : listeners[o][name] <= MaxListeners

Loops == \A f \in Range(stack) : f.call = "loop" =>
           /\ f.next \in 1 .. listeners[f.object][f.name] + 1
           /\ f.inside => f.next <= listeners[f.object][f.name]

Others == /\ running \in BOOLEAN /\ quit \in BOOLEAN
          /\ class \in [ClassObject -> {"unnamed", "named", "gone"}]
          /\ registered \in BOOLEAN /\ registrar \subseteq ClassObject
          /\ loose \subseteq Handle /\ closed \subseteq Object /\ released \subseteq Handle

TInv == Counts /\ Loops /\ Others

LEMMA TInit == Init => TInv
<1> SUFFICES ASSUME Init PROVE TInv
  OBVIOUS
<1>1. Range(stack) = {}
  BY DEF Init, Range
<1>2. Counts
  BY WindowAssumption DEF Init, Counts
<1>3. Loops
  BY <1>1 DEF Loops
<1>4. Others
  BY DEF Init, Others
<1>5. QED
  BY <1>2, <1>3, <1>4 DEF TInv

LEMMA LoopFrame ==
  ASSUME NEW f \in Frame, f.call = "loop" PROVE f.object \in Own /\ f.name \in Name /\ f.next \in Nat
  BY DEF Frame

\* Loops that go on, and loops that begin.
LEMMA LoopsGoOn ==
  ASSUME TInv, HInv, HInv', UNCHANGED listenVars,
         \A f \in Range(stack') : f.call = "loop" => f \in Range(stack) \/ Begins(f)
  PROVE  Counts' /\ Loops'
<1>1. listeners' = listeners /\ Counts'
  BY DEF TInv, Counts, listenVars
<1>2. ASSUME NEW f \in Range(stack'), f.call = "loop"
      PROVE  /\ f.next \in 1 .. listeners[f.object][f.name] + 1
             /\ f.inside => f.next <= listeners[f.object][f.name]
  <2>1. CASE f \in Range(stack)
    BY <1>2, <2>1 DEF TInv, Loops
  <2>2. CASE Begins(f)
    <3>1. f \in Frame
      BY <1>2 DEF HInv, HType, Range
    <3>2. f.object \in Own /\ f.name \in Name
      BY <1>2, <3>1, LoopFrame
    <3>3. listeners[f.object][f.name] \in Nat
      BY <3>2 DEF TInv, Counts
    <3>4. QED
      BY <2>2, <3>3 DEF Begins
  <2>3. QED
    BY <1>2, <2>1, <2>2
<1>3. QED
  BY <1>1, <1>2 DEF Loops

\* the steps that leave the loops and their listeners alone
LEMMA TSame ==
  ASSUME TInv, UNCHANGED <<listeners, stack>>, claimed' \subseteq Own, Others' PROVE TInv'
  BY DEF TInv, Counts, Loops

LEMMA TReturns ==
  ASSUME TInv, HInv, HInv', stack # << >>, stack' = Tail(stack), UNCHANGED listenVars
  PROVE  Counts' /\ Loops'
<1>1. Range(stack') \subseteq Range(stack)
  BY TailRange DEF HInv, HType
<1>2. QED
  BY <1>1, LoopsGoOn

LEMMA TSends ==
  ASSUME TInv, HInv, HInv', NEW h \in Handle, NEW msg,
         NEW default \in Seq(Frame), NEW rest \in Seq(Frame), Sends(h, msg, default, rest),
         \A f \in Range(default) : f.call # "loop",
         \A f \in Range(rest) : f.call = "loop" => f \in Range(stack), UNCHANGED listenVars
  PROVE  Counts' /\ Loops'
<1>1. PICK pre \in Seq(Frame) : /\ stack' = pre \o rest
                                /\ \A f \in Range(pre) : Begins(f) \/ f \in Range(default)
  BY SendsShape
<1>2. Range(stack') = Range(pre) \cup Range(rest)
  BY <1>1, ConcatRange
<1>3. QED
  BY <1>1, <1>2, LoopsGoOn

LEMMA TDispatch ==
  ASSUME TInv, HInv, HInv', NEW h \in Handle, NEW msg \in {"close", "other"}, Dispatch(h, msg)
  PROVE  Counts' /\ Loops'
<1>1. << >> \in Seq(Frame) /\ Range(<< >>) = {} /\ UNCHANGED listenVars
  BY DEF Range, Dispatch
<1>2. Default(h) \in Frame /\ Default(h).call = "default"
  BY DEF Default, Frame
<1>3. <<Default(h)>> \in Seq(Frame) /\ Range(<<Default(h)>>) = {Default(h)}
  BY <1>2, ShortRange
<1>4. ASSUME NEW default \in Seq(Frame), \A f \in Range(default) : f.call # "loop",
             Sends(h, msg, default, << >>)
      PROVE  Counts' /\ Loops'
  BY <1>1, <1>4, TSends
<1>5. CASE Sends(h, msg, << >>, << >>)
  BY <1>1, <1>4, <1>5
<1>6. CASE Sends(h, msg, <<Default(h)>>, << >>)
  <2>1. ASSUME NEW default \in Seq(Frame), default = <<Default(h)>> PROVE Counts' /\ Loops'
    BY <1>2, <1>3, <1>4, <1>6, <2>1
  <2>2. QED
    BY <1>3, <2>1
<1>7. QED
  BY <1>5, <1>6 DEF Dispatch

LEMMA TDefault ==
  ASSUME TInv, HInv, HInv', DefaultCloses PROVE Counts' /\ Loops'
<1> DEFINE h == Head(stack).handle
<1>1. stack # << >> /\ UNCHANGED listenVars
  BY DEF DefaultCloses, Innermost
<1>2. Tail(stack) \in Seq(Frame) /\ Range(Tail(stack)) \subseteq Range(stack)
  BY <1>1, TailRange DEF HInv, HType
<1>3. CASE Exists(h) /\ stack' = <<Destroy(h, 1)>> \o Tail(stack)
  <2>1. Destroy(h, 1) \in Frame /\ Destroy(h, 1).call = "destroy"
    BY <1>3 DEF Destroy, Frame, Exists
  <2>2. Range(stack') = {Destroy(h, 1)} \cup Range(Tail(stack))
    BY <1>2, <1>3, <2>1, PushRange
  <2>3. QED
    BY <1>1, <1>2, <2>1, <2>2, LoopsGoOn
<1>4. CASE stack' = << >> \o Tail(stack)
  <2>1. stack' = Tail(stack)
    BY <1>2, <1>4, NoPush
  <2>2. QED
    BY <1>1, <2>1, TReturns
<1>5. QED
  BY <1>3, <1>4 DEF DefaultCloses

LEMMA TDestroySends ==
  ASSUME TInv, HInv, HInv', DestroySends PROVE Counts' /\ Loops'
<1> DEFINE h == Head(stack).handle
           step == Head(stack).step
           rest == <<Destroy(h, step + 1)>> \o Tail(stack)
           msg == <<"destroy", "ncdestroy">>[step]
<1>1. /\ stack # << >> /\ Head(stack).call = "destroy" /\ step <= 2
      /\ Sends(h, msg, << >>, rest) /\ UNCHANGED listenVars
  BY DEF DestroySends, Innermost
<1>2. /\ Tail(stack) \in Seq(Frame) /\ Head(stack) \in Frame
      /\ Range(Tail(stack)) \subseteq Range(stack)
  BY <1>1, TailRange DEF HInv, HType
<1>3. h \in Handle /\ step \in 1 .. 3
  BY <1>1, <1>2 DEF Frame
<1>4. Destroy(h, step + 1) \in Frame /\ Destroy(h, step + 1).call = "destroy"
  BY <1>1, <1>3 DEF Frame, Destroy
<1>5. rest \in Seq(Frame) /\ Range(rest) = {Destroy(h, step + 1)} \cup Range(Tail(stack))
  BY <1>2, <1>4, PushRange
<1>6. \A f \in Range(rest) : f.call = "loop" => f \in Range(stack)
  BY <1>2, <1>4, <1>5
<1>7. << >> \in Seq(Frame) /\ Range(<< >>) = {}
  BY DEF Range
<1>8. ASSUME NEW m, NEW r \in Seq(Frame), Sends(h, m, << >>, r),
             \A f \in Range(r) : f.call = "loop" => f \in Range(stack)
      PROVE  Counts' /\ Loops'
  BY <1>1, <1>3, <1>7, <1>8, TSends
<1>9. QED
  BY <1>1, <1>5, <1>6, <1>8

\* One turn of the innermost loop, which becomes f.
LEMMA TTurns ==
  ASSUME TInv, HInv, HInv', stack # << >>, NEW f \in Frame, stack' = [stack EXCEPT ![1] = f],
         f.next \in 1 .. listeners[f.object][f.name] + 1,
         f.inside => f.next <= listeners[f.object][f.name], UNCHANGED listenVars
  PROVE  Counts' /\ Loops'
<1>1. listeners' = listeners /\ Counts'
  BY DEF TInv, Counts, listenVars
<1>2. \A g \in Range(stack') : g = f \/ g \in Range(stack)
  BY DEF Range
<1>3. QED
  BY <1>1, <1>2 DEF TInv, Loops

LEMMA TLoops ==
  ASSUME TInv, HInv, HInv', CallListener \/ ListenerReturns PROVE Counts' /\ Loops'
<1>1. Innermost("loop") /\ stack # << >> /\ UNCHANGED listenVars
  BY DEF CallListener, ListenerReturns, InListener, Innermost
<1> DEFINE g == stack[1]
<1>2. g = Head(stack) /\ g \in Frame /\ g \in Range(stack) /\ g.call = "loop"
  BY <1>1, TailRange DEF HInv, HType, Innermost
<1>3. g \in [call : {"loop"}, object : Own, name : Name, next : Nat, inside : BOOLEAN]
  BY <1>2 DEF Frame
<1>4. listeners[g.object][g.name] \in Nat
  BY <1>3 DEF TInv, Counts
<1>5. /\ g.next \in 1 .. listeners[g.object][g.name] + 1
      /\ g.inside => g.next <= listeners[g.object][g.name]
  BY <1>2 DEF TInv, Loops
<1>6. CASE CallListener
  <2> DEFINE f == [g EXCEPT !.inside = TRUE]
  <2>1. /\ f \in Frame /\ f.next = g.next /\ f.object = g.object /\ f.name = g.name
    BY <1>3 DEF Frame
  <2>2. stack' = [stack EXCEPT ![1] = f] /\ g.next <= listeners[g.object][g.name]
    BY <1>2, <1>6 DEF CallListener
  <2> HIDE DEF f, g
  <2>3. QED
    BY <1>1, <1>5, <2>1, <2>2, TTurns
<1>7. CASE stack' = Tail(stack)
  BY <1>1, <1>7, TReturns
<1>8. CASE ListenerReturns /\ stack' = [stack EXCEPT ![1] = Loop(g.object, g.name, g.next + 1)]
  <2> DEFINE f == Loop(g.object, g.name, g.next + 1)
  <2>1. /\ f \in Frame /\ f.next = g.next + 1 /\ f.object = g.object /\ f.name = g.name
        /\ f.inside = FALSE
    BY <1>3 DEF Frame, Loop
  <2>2. g.inside
    BY <1>2, <1>8 DEF ListenerReturns, InListener
  <2>3. f.next \in 1 .. listeners[f.object][f.name] + 1
    BY <1>3, <1>4, <1>5, <2>1, <2>2
  <2>4. stack' = [stack EXCEPT ![1] = f]
    BY <1>8
  <2> HIDE DEF f, g
  <2>5. QED
    BY <1>1, <2>1, <2>3, <2>4, TTurns
<1>9. QED
  BY <1>6, <1>7, <1>8 DEF ListenerReturns

LEMMA TGivesUp ==
  ASSUME TInv, HInv, HInv', NEW o \in Object,
         DestructStarts(o) \/ \E g \in Handle : AttachStarts(o, g)
  PROVE  Counts' /\ Loops'
<1>1. ASSUME NEW call \in Frame, call.call # "loop",
             stack' = (DestroyWindow(o) \o <<call>>) \o stack, UNCHANGED listenVars
      PROVE  Counts' /\ Loops'
  <2>1. ASSUME NEW h, h = hwnd[o]
        PROVE  \A f \in Range(stack') : f \in Range(stack) \/ f = call \/ f.call = "destroy"
    BY <1>1, <2>1, GiveUpRange DEF HInv
  <2>2. \A f \in Range(stack') : f \in Range(stack) \/ f = call \/ f.call = "destroy"
    BY <2>1
  <2>3. QED
    BY <1>1, <2>2, LoopsGoOn
<1>2. CASE DestructStarts(o)
  <2> DEFINE call == Destruct(o)
  <2>1. call \in Frame /\ call.call # "loop"
    BY DEF Frame, Destruct
  <2>2. stack' = (DestroyWindow(o) \o <<call>>) \o stack /\ UNCHANGED listenVars
    BY <1>2 DEF DestructStarts
  <2> HIDE DEF call
  <2>3. QED
    BY <1>1, <2>1, <2>2
<1>3. ASSUME NEW g \in Handle, AttachStarts(o, g) PROVE Counts' /\ Loops'
  <2> DEFINE call == Take(o, g)
  <2>1. call \in Frame /\ call.call # "loop"
    BY DEF Frame, Take
  <2>2. stack' = (DestroyWindow(o) \o <<call>>) \o stack /\ UNCHANGED listenVars
    BY <1>3 DEF AttachStarts
  <2> HIDE DEF call
  <2>3. QED
    BY <1>1, <2>1, <2>2
<1>4. QED
  BY <1>2, <1>3

\* The listeners of one object and name are at most all listeners.
LEMMA TListen ==
  ASSUME TInv, HInv, NEW o \in Own, NEW name \in Name, Listen(o, name)
  PROVE  TInv'
<1> DEFINE D == Own \X Name
           all == [x \in D |-> listeners[x[1]][x[2]]]
<1>1. Total < MaxListeners /\ listeners' = [listeners EXCEPT ![o][name] = @ + 1]
      /\ UNCHANGED <<objectVars, claimed, stack, loopVars, classVars>>
  BY DEF Listen
<1>2. IsFiniteSet(D)
  <2>1. IsFiniteSet({"destroy"})
    BY FS_Singleton
  <2>2. IsFiniteSet({"destroy"} \cup {"unknown"})
    BY <2>1, FS_AddElement
  <2>3. Name = {"destroy"} \cup {"unknown"}
    BY DEF Name
  <2>4. QED
    BY <2>2, <2>3, WindowAssumption, FS_Product
<1>3. all \in [D -> Nat]
  BY DEF TInv, Counts
<1>4. all[<<o, name>>] = listeners[o][name] /\ <<o, name>> \in D
  OBVIOUS
<1>5. Total = SumFunction(all)
  BY DEF Total
<1> HIDE DEF D, all
<1>6. listeners[o][name] <= Total /\ Total \in Nat
  BY <1>2, <1>3, <1>4, <1>5, SumAbove
<1>7. /\ listeners' \in [Own -> [Name -> Nat]] /\ listeners'[o][name] = listeners[o][name] + 1
      /\ \A p \in Own, n \in Name :
           <<p, n>> # <<o, name>> => listeners'[p][n] = listeners[p][n]
  BY <1>1 DEF TInv, Counts
<1>8. \A p \in Own, n \in Name : listeners[p][n] <= listeners'[p][n] /\ listeners[p][n] \in Nat
  BY <1>7 DEF TInv, Counts
<1>9. Counts'
  <2>1. listeners[o][name] \in Nat /\ MaxListeners \in Nat
    BY WindowAssumption DEF TInv, Counts
  <2>2. listeners'[o][name] <= MaxListeners
    BY <1>1, <1>6, <1>7, <2>1
  <2>3. \A p \in Own, n \in Name : listeners'[p][n] <= MaxListeners
    BY <1>7, <2>2 DEF TInv, Counts
  <2>4. QED
    BY <1>1, <1>7, <2>3 DEF TInv, Counts
<1>10. Loops'
  <2> SUFFICES ASSUME NEW f \in Range(stack), f.call = "loop"
               PROVE  /\ f.next \in 1 .. listeners'[f.object][f.name] + 1
                      /\ f.inside => f.next <= listeners'[f.object][f.name]
    BY <1>1 DEF Loops
  <2>1. f \in Frame
    BY DEF HInv, HType, Range
  <2>2. f.object \in Own /\ f.name \in Name /\ f.next \in Nat
    BY <2>1, LoopFrame
  <2>3. /\ listeners[f.object][f.name] <= listeners'[f.object][f.name]
        /\ listeners[f.object][f.name] \in Nat /\ listeners'[f.object][f.name] \in Nat
    BY <1>7, <1>8, <2>2
  <2>4. /\ f.next \in 1 .. listeners[f.object][f.name] + 1
        /\ f.inside => f.next <= listeners[f.object][f.name]
    BY DEF TInv, Loops
  <2>5. QED
    BY <2>2, <2>3, <2>4
<1>11. Others'
  BY <1>1 DEF TInv, Others, objectVars, loopVars, classVars
<1>12. QED
  BY <1>9, <1>10, <1>11 DEF TInv

LEMMA TRegister ==
  ASSUME TInv, NEW k \in ClassObject, RegisterClass(k),
         UNCHANGED <<running, quit, loose, closed, released>>
  PROVE  Others'
  BY DEF TInv, Others, RegisterClass

LEMMA TStays ==
  ASSUME TInv, UNCHANGED <<loopVars, classVars, loose, closed, released>> PROVE Others'
  BY DEF TInv, Others, loopVars, classVars

LEMMA OthersStep == TInv /\ HInv /\ [Next]_vars => Others'
<1> SUFFICES ASSUME TInv, HInv, [Next]_vars PROVE Others'
  OBVIOUS
<1>1. CASE Run \/ Quit \/ RunReturns
  BY <1>1 DEF TInv, Others, Run, Quit, RunReturns, objectVars, classVars
<1>2. ASSUME NEW h \in Handle, NEW msg \in {"close", "other"}, Dispatch(h, msg) PROVE Others'
  BY <1>2, TStays DEF Dispatch, objectVars
<1>3. CASE DefaultCloses \/ DestroySends
  BY <1>3, TStays DEF DefaultCloses, DestroySends, objectVars
<1>4. CASE DestroyEnds
  <2>1. /\ loose' \subseteq loose /\ released' \subseteq released
        /\ closed' \subseteq closed \cup Object /\ UNCHANGED <<loopVars, classVars>>
    BY <1>4 DEF DestroyEnds
  <2>2. QED
    BY <2>1 DEF TInv, Others, loopVars, classVars
<1>5. CASE CallListener \/ ListenerReturns \/ LoopEnds \/ Claim
  BY <1>5, TStays DEF CallListener, ListenerReturns, LoopEnds, Claim, objectVars
<1>6. ASSUME NEW o \in Own, NEW name \in Name, Listen(o, name) PROVE Others'
  BY <1>6, TStays DEF Listen, objectVars
<1>7. ASSUME NEW k \in ClassObject, Register(k) PROVE Others'
  BY <1>7, TRegister DEF Register, objectVars, loopVars
<1>8. ASSUME NEW k \in ClassObject, UnregisterClass(k) PROVE Others'
  BY <1>8 DEF TInv, Others, UnregisterClass, objectVars, loopVars
<1>9. ASSUME NEW o \in Own, ConstructWindow(o) PROVE Others'
  <2>1. UNCHANGED <<loopVars, loose, closed, released>>
    BY <1>9 DEF ConstructWindow, Creates
  <2>2. CASE RegisterClass(Static)
    BY <2>1, <2>2, TRegister, WindowAssumption DEF loopVars
  <2>3. CASE UNCHANGED classVars
    BY <2>1, <2>3, TStays
  <2>4. QED
    BY <1>9, <2>2, <2>3 DEF ConstructWindow
<1>10. ASSUME NEW o \in Routed, ConstructRouted(o) PROVE Others'
  BY <1>10, TStays DEF ConstructRouted, Creates
<1>11. ASSUME NEW o \in Object, DestructStarts(o) PROVE Others'
  BY <1>11, TStays DEF DestructStarts
<1>12. ASSUME NEW o \in Object, Detach(o) PROVE Others'
  <2>1. Windows(hwnd[o]) \subseteq Handle
    BY DEF Windows, Exists
  <2>2. /\ loose' = loose \cup Windows(hwnd[o]) /\ released' = released \cup Windows(hwnd[o])
        /\ UNCHANGED <<loopVars, classVars, closed>>
    BY <1>12 DEF Detach
  <2>3. QED
    BY <2>1, <2>2 DEF TInv, Others, loopVars, classVars
<1>13. ASSUME NEW o \in Object, NEW h \in Handle, AttachStarts(o, h) PROVE Others'
  <2>1. loose' \subseteq loose /\ UNCHANGED <<loopVars, classVars, closed, released>>
    BY <1>13 DEF AttachStarts
  <2>2. QED
    BY <2>1 DEF TInv, Others, loopVars, classVars
<1>14. CASE DestructEnds \/ AttachEnds
  BY <1>14, TStays DEF DestructEnds, AttachEnds
<1>15. CASE UNCHANGED vars
  BY <1>15, TStays DEF vars, objectVars
<1>16. QED
  BY <1>1, <1>2, <1>3, <1>4, <1>5, <1>6, <1>7, <1>8, <1>9, <1>10, <1>11, <1>12, <1>13, <1>14,
     <1>15 DEF Next

LEMMA TStep == TInv /\ HInv /\ HInv' /\ [Next]_vars => TInv'
<1> SUFFICES ASSUME TInv, HInv, HInv', [Next]_vars PROVE TInv'
  OBVIOUS
<1>1. Others'
  BY OthersStep
<1>2. Counts' /\ Loops' => TInv'
  BY <1>1 DEF TInv
<1>3. UNCHANGED <<listenVars, stack>> => TInv'
  BY <1>1, TSame DEF TInv, Counts, listenVars
<1>4. CASE Run \/ Quit \/ RunReturns
  BY <1>3, <1>4 DEF Run, Quit, RunReturns
<1>5. ASSUME NEW h \in Handle, NEW msg \in {"close", "other"}, Dispatch(h, msg) PROVE TInv'
  BY <1>2, <1>5, TDispatch
<1>6. CASE DefaultCloses \/ DestroySends
  BY <1>2, <1>6, TDefault, TDestroySends
<1>7. CASE DestroyEnds \/ LoopEnds \/ DestructEnds \/ AttachEnds
  <2>1. stack # << >> /\ stack' = Tail(stack) /\ UNCHANGED listenVars
    BY <1>7 DEF DestroyEnds, LoopEnds, DestructEnds, AttachEnds, Innermost
  <2>2. QED
    BY <1>2, <2>1, TReturns
<1>8. CASE CallListener \/ ListenerReturns
  BY <1>2, <1>8, TLoops
<1>9. CASE Claim
  <2>1. /\ stack # << >> /\ Head(stack).call = "loop" /\ UNCHANGED <<listeners, stack>>
        /\ claimed' = claimed \cup {Head(stack).object}
    BY <1>9 DEF Claim, InListener, Innermost
  <2>2. Head(stack) \in Frame
    BY <2>1, TailRange DEF HInv, HType
  <2>3. Head(stack).object \in Own
    BY <2>1, <2>2, LoopFrame
  <2>4. claimed' \subseteq Own
    BY <2>1, <2>3 DEF TInv, Counts
  <2>5. QED
    BY <1>1, <2>1, <2>4, TSame
<1>10. ASSUME NEW o \in Own, NEW name \in Name, Listen(o, name) PROVE TInv'
  BY <1>10, TListen
<1>11. ASSUME NEW k \in ClassObject, Register(k) \/ UnregisterClass(k) PROVE TInv'
  BY <1>3, <1>11 DEF Register, UnregisterClass
<1>12. ASSUME NEW o \in Own, ConstructWindow(o) PROVE TInv'
  BY <1>3, <1>12 DEF ConstructWindow, Creates
<1>13. ASSUME NEW o \in Routed, ConstructRouted(o) PROVE TInv'
  BY <1>3, <1>13 DEF ConstructRouted, Creates
<1>14. ASSUME NEW o \in Object, DestructStarts(o) PROVE TInv'
  BY <1>2, <1>14, TGivesUp
<1>15. ASSUME NEW o \in Object, Detach(o) PROVE TInv'
  BY <1>3, <1>15 DEF Detach
<1>16. ASSUME NEW o \in Object, NEW h \in Handle, AttachStarts(o, h) PROVE TInv'
  BY <1>2, <1>16, TGivesUp
<1>17. CASE UNCHANGED vars
  BY <1>3, <1>17 DEF vars
<1>18. QED
  BY <1>4, <1>5, <1>6, <1>7, <1>8, <1>9, <1>10, <1>11, <1>12, <1>13, <1>14, <1>15, <1>16,
     <1>17 DEF Next

LEMMA CountedFrame ==
  ASSUME NEW f \in Frame, f.call = "loop" => f.next \in 1 .. MaxListeners + 1
  PROVE  f \in Call
<1>1. CASE f \in [call : {"loop"}, object : Own, name : Name, next : Nat, inside : BOOLEAN]
  BY <1>1 DEF Call
<1>2. CASE f \notin [call : {"loop"}, object : Own, name : Name, next : Nat, inside : BOOLEAN]
  BY <1>2 DEF Call, Frame
<1>3. QED
  BY <1>1, <1>2

\* The variables of the windows and of the message loop stay in their types, and the
\* loop over the listeners of a message never looks beyond the end of the list that
\* the listeners themselves extend: it is past it by the one step that ends it.
THEOREM TypeCorrect == Spec => []TypeOK
<1>1. TInv /\ HInv => TypeOK
  <2> SUFFICES ASSUME TInv, HInv PROVE TypeOK
    OBVIOUS
  <2>1. \A f \in Range(stack) : f \in Call
    <3> SUFFICES ASSUME NEW f \in Range(stack) PROVE f \in Call
      OBVIOUS
    <3>1. f \in Frame
      BY DEF HInv, HType, Range
    <3>2. ASSUME f.call = "loop" PROVE f.next \in 1 .. MaxListeners + 1
      <4>1. f.object \in Own /\ f.name \in Name
        BY <3>1, <3>2, LoopFrame
      <4>2. /\ listeners[f.object][f.name] \in Nat /\ MaxListeners \in Nat
            /\ listeners[f.object][f.name] <= MaxListeners
        BY <4>1, WindowAssumption DEF TInv, Counts
      <4>3. f.next \in 1 .. listeners[f.object][f.name] + 1
        BY <3>2 DEF TInv, Loops
      <4>4. QED
        BY <4>2, <4>3
    <3>3. QED
      BY <3>1, <3>2, CountedFrame
  <2>2. stack \in Seq(Call)
    <3>1. stack \in [1 .. Len(stack) -> Frame] /\ Len(stack) \in Nat
      BY DEF HInv, HType
    <3>2. \A i \in 1 .. Len(stack) : stack[i] \in Call
      BY <2>1, <3>1 DEF Range
    <3>3. stack \in [1 .. Len(stack) -> Call]
      BY <3>1, <3>2
    <3>4. QED
      BY <3>1, <3>3
  <2>3. listeners \in [Own -> [Name -> 0 .. MaxListeners]]
    BY WindowAssumption DEF TInv, Counts
  <2>4. QED
    BY <2>2, <2>3 DEF TInv, Counts, Others, HInv, HType, TypeOK
<1>2. Init => TInv /\ HInv
  BY TInit, HInit
<1>3. TInv /\ HInv /\ [Next]_vars => (TInv /\ HInv)'
  BY TStep, HStep
<1>4. QED
  BY <1>1, <1>2, <1>3, PTL DEF Spec
=============================================================================
