----------------------------- MODULE ProxyCore ------------------------------
(***************************************************************************)
(* The proxy objects of Pwrs.Runtime/ProxyCore.cs: threads that call into, *)
(* borrow and release Rust values, each behind its own gate, while the     *)
(* module they belong to is reloaded.                                      *)
(*                                                                         *)
(* A gate is used here as the abstract lock of GateLock, which Gate is     *)
(* proved to implement: an entry or a leave is one step.  What a thread is *)
(* doing is its stack of frames, because native code, an event handler and *)
(* the value's own Drop may all come back into these objects.              *)
(***************************************************************************)
EXTENDS Naturals, Sequences, FiniteSets

CONSTANTS
  Threads,
  Objects,       \* the objects, each named by its _order
  Open,          \* nobody owns the gate
  NestElsewhere, \* whether a running call may enter another object
  MaxFrames,     \* bound: calls one thread nests
  MaxQueue,      \* bound: raises queued on one object
  MaxBytes,      \* bound: what native_bytes reports
  MaxGeneration  \* bound: the reloads

ASSUME ProxyCoreAssumption ==
  /\ Objects \subseteq Nat
  /\ Open \notin Threads
  /\ NestElsewhere \in BOOLEAN
  /\ {MaxFrames, MaxQueue, MaxBytes, MaxGeneration} \subseteq Nat

VARIABLES
  gate,        \* each object's _gate: owner, depth, exclusive
  live,        \* _instance is not null
  pending,     \* _releasePending
  queue,       \* how many raises _raised holds
  pressure,    \* _pressure
  bytes,       \* what the Rust value's native_bytes would report now
  drops,       \* ProxyDrop calls made for the value
  generation,  \* the module's load (NativeModule._b)
  made,        \* _generation: the load that made the value
  stack        \* each thread's frames, the innermost last

vars == <<gate, live, pending, queue, pressure, bytes, drops, generation,
          made, stack>>

\* A frame is one run of Get, Call, CallWith, a borrow or ReleaseInstance:
\* the entries it has yet to make (todo) and is inside (held, the last one
\* first), each with its object, how it is entered and the changed argument
\* its Leave gets, the load whose export it called (image), and the raises it
\* has taken to deliver, each named by its object.
OpenGate == [owner |-> Open, depth |-> 0, exclusive |-> FALSE]

Init ==
  /\ gate = [o \in Objects |-> OpenGate]
  /\ live = [o \in Objects |-> FALSE]
  /\ pending = [o \in Objects |-> FALSE]
  /\ queue = [o \in Objects |-> 0]
  /\ pressure = [o \in Objects |-> 0]
  /\ bytes = [o \in Objects |-> 0]
  /\ drops = [o \in Objects |-> 0]
  /\ generation = 1
  /\ made = [o \in Objects |-> 0]
  /\ stack = [t \in Threads |-> <<>>]

-----------------------------------------------------------------------------
(* The gate of one object, as its callers see it (GateLock) *)

AdmitsAnyNesting(t, e) ==
  LET g == gate[e.obj] IN g.owner = Open \/ (g.owner = t /\ ~e.exclusive)
Admits(t, e) ==
  LET g == gate[e.obj]
  IN  g.owner = Open \/ (g.owner = t /\ ~g.exclusive /\ ~e.exclusive)

Refuses(t, e) ==
  gate[e.obj].owner = t /\ (gate[e.obj].exclusive \/ e.exclusive)

Entered(g, t, x) ==
  IF g.owner = t THEN [g EXCEPT !.depth = @ + 1]
                 ELSE [owner |-> t, depth |-> 1, exclusive |-> x]

LeftLate(g) == IF g.depth > 0 THEN [g EXCEPT !.depth = @ - 1] ELSE OpenGate
Left(g) == IF g.depth > 1 THEN [g EXCEPT !.depth = @ - 1] ELSE OpenGate

Last(g) == g.depth = 1

-----------------------------------------------------------------------------
(* Frames *)

Depth(t) == Len(stack[t])
Top(t) == stack[t][Depth(t)]
At(t, pc) == stack[t] # <<>> /\ Top(t).pc = pc
Becomes(t, f) == stack' = [stack EXCEPT ![t][Depth(t)] = f]
Returns(t) == stack' = [stack EXCEPT ![t] = SubSeq(@, 1, Depth(t) - 1)]
Push(t, f) == stack' = [stack EXCEPT ![t] = Append(@, f)]
Starting(kind, todo) ==
  [kind |-> kind, pc |-> "enter", todo |-> todo, held |-> <<>>, image |-> 0,
   raises |-> <<>>]

\* The thread runs code that is not this class's: a script, native code, or
\* an event's handler.
InUserCode(t) == stack[t] # <<>> => Top(t).pc \in {"running", "handler"}

MayStart(t, objs) ==
  /\ InUserCode(t)
  /\ Depth(t) < MaxFrames
  /\ \A o \in objs : made[o] > 0
  /\ \/ NestElsewhere
     \/ \A o \in Objects : gate[o].owner # t
     \/ \A o \in objs : gate[o].owner = t

-----------------------------------------------------------------------------
(* Making an object: the constructor runs before the object is shared *)

Make(t, o) ==
  /\ InUserCode(t)
  /\ made[o] = 0
  /\ made' = [made EXCEPT ![o] = generation]
  /\ live' = [live EXCEPT ![o] = TRUE]
  /\ \E b \in 0 .. MaxBytes : /\ bytes' = [bytes EXCEPT ![o] = b]
                              /\ pressure' = [pressure EXCEPT ![o] = b]
  /\ UNCHANGED <<gate, pending, queue, drops, generation, stack>>

-----------------------------------------------------------------------------
(* Starting a call, a borrow or a release *)

\* Get is shared and changes nothing; Call is either and has its bytes read
\* again.  CallWith on one object twice is the shared call.
StartCall(t, o) ==
  /\ MayStart(t, {o})
  /\ \E e \in [obj : {o}, exclusive : BOOLEAN, changed : BOOLEAN] :
       /\ e.exclusive => e.changed
       /\ Push(t, Starting("call", <<e>>))
  /\ UNCHANGED <<gate, live, pending, queue, pressure, bytes, drops, generation, made>>

\* CallWith: this object as the method takes it and its peer as shared,
\* entered in the order of _order.
InOrder(d, e) == IF d.obj < e.obj THEN <<d, e>> ELSE <<e, d>>

StartCallWith(t, o, peer) ==
  /\ o # peer
  /\ MayStart(t, {o, peer})
  /\ \E x \in BOOLEAN :
       Push(t, Starting("call",
         InOrder([obj |-> o, exclusive |-> x, changed |-> TRUE],
                 [obj |-> peer, exclusive |-> FALSE, changed |-> FALSE])))
  /\ UNCHANGED <<gate, live, pending, queue, pressure, bytes, drops, generation, made>>

StartBorrow(t, o) ==
  /\ MayStart(t, {o})
  /\ \E x \in BOOLEAN :
       Push(t, Starting("borrow", <<[obj |-> o, exclusive |-> x, changed |-> x]>>))
  /\ UNCHANGED <<gate, live, pending, queue, pressure, bytes, drops, generation, made>>

\* Dispose or the finalizer.  On the thread inside, the free waits for the
\* last entry's end.
StartRelease(t, o) ==
  /\ IF gate[o].owner = t
       THEN /\ InUserCode(t)
            /\ pending' = [pending EXCEPT ![o] = TRUE]
            /\ UNCHANGED stack
       ELSE /\ MayStart(t, {o})
            /\ Push(t, Starting("release",
                 <<[obj |-> o, exclusive |-> FALSE, changed |-> FALSE]>>))
            /\ UNCHANGED pending
  /\ UNCHANGED <<gate, live, queue, pressure, bytes, drops, generation, made>>

-----------------------------------------------------------------------------
(* Enter *)

Usable(o) == live[o] /\ generation = made[o]

EnterNext(t) ==
  /\ At(t, "enter")
  /\ LET f == Top(t)
         e == Head(f.todo)
     IN  /\ Admits(t, e)
         /\ f.kind = "release" \/ Usable(e.obj)
         /\ gate' = [gate EXCEPT ![e.obj] = Entered(@, t, e.exclusive)]
         /\ Becomes(t, [f EXCEPT
              !.todo = Tail(@),
              !.held = <<e>> \o @,
              !.pc = IF Tail(f.todo) # <<>> THEN "enter"
                     ELSE IF f.kind = "release" THEN "free" ELSE "entered"])
  /\ UNCHANGED <<live, pending, queue, pressure, bytes, drops, generation, made>>

\* The object is in use on this thread, freed, or of an earlier load: Enter
\* throws, and CallWith leaves the object it had entered.
EnterFails(t) ==
  /\ At(t, "enter")
  /\ LET f == Top(t)
         e == Head(f.todo)
     IN  /\ f.kind # "release"
         /\ Refuses(t, e) \/ (Admits(t, e) /\ ~Usable(e.obj))
         /\ IF f.held = <<>>
              THEN Returns(t)
              ELSE Becomes(t, [f EXCEPT !.kind = "failed", !.pc = "leave",
                     !.todo = <<>>, !.held = <<[Head(@) EXCEPT !.changed = FALSE]>>])
  /\ UNCHANGED <<gate, live, pending, queue, pressure, bytes, drops, generation, made>>

-----------------------------------------------------------------------------
(* The call itself.  The export called is the one of the bindings the module *)
(* has now, read again after Enter's check.                                  *)

Invoke(t) ==
  /\ At(t, "entered")
  /\ Becomes(t, [Top(t) EXCEPT !.pc = "running", !.image = generation])
  /\ UNCHANGED <<gate, live, pending, queue, pressure, bytes, drops, generation, made>>

\* A method taking &mut self, or a with_mut borrow, changes what the value
\* owns.
Change(t) ==
  /\ At(t, "running")
  /\ \E e \in {Top(t).held[i] : i \in DOMAIN Top(t).held}, b \in 0 .. MaxBytes :
       /\ e.exclusive
       /\ b # bytes[e.obj]
       /\ bytes' = [bytes EXCEPT ![e.obj] = b]
  /\ UNCHANGED <<gate, live, pending, queue, pressure, drops, generation, made, stack>>

\* ObjectEvents.Raise: queued on the thread inside, and otherwise delivered
\* here before it returns.
RaiseQueued(t, o) ==
  /\ InUserCode(t)
  /\ gate[o].owner = t
  /\ queue[o] < MaxQueue
  /\ queue' = [queue EXCEPT ![o] = @ + 1]
  /\ UNCHANGED <<gate, live, pending, pressure, bytes, drops, generation, made, stack>>

RaiseNow(t, o) ==
  /\ MayStart(t, {o})
  /\ gate[o].owner # t
  /\ Push(t, [Starting("call", <<>>) EXCEPT !.pc = "deliver", !.raises = <<o>>])
  /\ UNCHANGED <<gate, live, pending, queue, pressure, bytes, drops, generation, made>>

\* Native code returns; a borrow's may unwind, which delivers nothing.
Exit(t) ==
  /\ At(t, "running")
  /\ \E k \in {Top(t).kind} \cup (IF Top(t).kind = "borrow" THEN {"unwound"} ELSE {}) :
       Becomes(t, [Top(t) EXCEPT !.pc = "leave", !.kind = k])
  /\ UNCHANGED <<gate, live, pending, queue, pressure, bytes, drops, generation, made>>

-----------------------------------------------------------------------------
(* Leave and Free *)

FreeDueAtAnyDepth(f) ==
  \/ f.pc = "free"
  \/ f.pc = "leave" /\ pending[Head(f.held).obj]
FreeDue(f) ==
  \/ f.pc = "free"
  \/ f.pc = "leave" /\ pending[Head(f.held).obj] /\ Last(gate[Head(f.held).obj])

\* Free as far as its reading of the module's generation.
FreeValue(t) ==
  /\ stack[t] # <<>>
  /\ FreeDue(Top(t))
  /\ LET o == Head(Top(t).held).obj
     IN  /\ pending' = [pending EXCEPT ![o] = FALSE]
         /\ live' = [live EXCEPT ![o] = FALSE]
         /\ pressure' = [pressure EXCEPT ![o] = 0]
         /\ Becomes(t, [Top(t) EXCEPT !.pc = IF Usable(o) THEN "drop" ELSE "leave"])
  /\ UNCHANGED <<gate, queue, bytes, drops, generation, made>>

\* ProxyDrop, through the bindings the module has now.  The value's Drop runs
\* inside the gate, and may raise an event of its object.  A Drop that calls
\* into objects is not modelled.
DropValue(t) ==
  /\ At(t, "drop")
  /\ LET o == Head(Top(t).held).obj
     IN  /\ drops' = [drops EXCEPT ![o] = @ + 1]
         /\ \E n \in {queue[o], MaxQueue} : queue' = [queue EXCEPT ![o] = n]
  /\ Becomes(t, [Top(t) EXCEPT !.pc = "leave"])
  /\ UNCHANGED <<gate, live, pending, pressure, bytes, generation, made>>

\* What reads the bytes again, takes the raises when this entry is the
\* thread's last, and opens the gate.  ReleaseInstance leaves the gate alone.
TakenAtAnyDepth(f, o) == IF f.kind # "release" THEN queue[o] ELSE 0
TakenByCalls(f, o) == IF f.kind = "call" /\ Last(gate[o]) THEN queue[o] ELSE 0
Taken(f, o) == IF f.kind # "release" /\ Last(gate[o]) THEN queue[o] ELSE 0

\* UpdatePressure moves the figure to what the value reports.
ReportedGrowth(o) == IF bytes[o] > pressure[o] THEN bytes[o] ELSE pressure[o]
Reported(o) == bytes[o]

LeaveEntry(t) ==
  /\ At(t, "leave")
  /\ ~FreeDue(Top(t))
  /\ LET f == Top(t)
         e == Head(f.held)
         o == e.obj
         delivers == f.kind \in {"call", "borrow"}
         raises == [i \in 1 .. Taken(f, o) |-> o] \o f.raises
     IN  /\ pressure' = IF e.changed /\ Usable(o)
                          THEN [pressure EXCEPT ![o] = Reported(o)] ELSE pressure
         /\ queue' = [queue EXCEPT ![o] = @ - Taken(f, o)]
         /\ gate' = [gate EXCEPT ![o] = Left(@)]
         /\ IF Tail(f.held) = <<>> /\ ~delivers
              THEN Returns(t)
              ELSE Becomes(t, [f EXCEPT !.held = Tail(@), !.raises = raises,
                     !.pc = IF Tail(f.held) = <<>> THEN "deliver" ELSE "leave"])
  /\ UNCHANGED <<live, pending, bytes, drops, generation, made>>

-----------------------------------------------------------------------------
(* DeliverAll, outside the gates this frame held *)

Deliver(t) ==
  /\ At(t, "deliver")
  /\ IF Top(t).raises = <<>> THEN Returns(t)
       ELSE Becomes(t, [Top(t) EXCEPT !.pc = "handler"])
  /\ UNCHANGED <<gate, live, pending, queue, pressure, bytes, drops, generation, made>>

\* A handler returns, or throws and the rest of the raises are not delivered.
HandlerEnds(t) ==
  /\ At(t, "handler")
  /\ \/ Becomes(t, [Top(t) EXCEPT !.pc = "deliver", !.raises = Tail(@)])
     \/ Returns(t)
  /\ UNCHANGED <<gate, live, pending, queue, pressure, bytes, drops, generation, made>>

-----------------------------------------------------------------------------

\* NativeModule.Reload on some thread: the module has new bindings.  It
\* enters no object's gate.
Reload ==
  /\ generation < MaxGeneration
  /\ generation' = generation + 1
  /\ UNCHANGED <<gate, live, pending, queue, pressure, bytes, drops, made, stack>>

\* What user code chooses to do.
UserStep(t) ==
  \E o \in Objects :
    \/ Make(t, o) \/ StartCall(t, o) \/ StartBorrow(t, o) \/ StartRelease(t, o)
    \/ RaiseQueued(t, o) \/ RaiseNow(t, o)
    \/ \E peer \in Objects : StartCallWith(t, o, peer)

\* What a call does on its way to its end.
CallStep(t) ==
  \/ EnterNext(t) \/ EnterFails(t) \/ Invoke(t) \/ Exit(t)
  \/ FreeValue(t) \/ DropValue(t) \/ LeaveEntry(t)
  \/ Deliver(t) \/ HandlerEnds(t)

Next == Reload \/ \E t \in Threads : UserStep(t) \/ CallStep(t) \/ Change(t)

Spec == Init /\ [][Next]_vars

\* A call into native code and a handler return; a thread that can run runs.
FairSpec == Spec /\ \A t \in Threads : WF_vars(CallStep(t))

-----------------------------------------------------------------------------
(* Properties *)

\* The entries whose native code may be using the value, each with the frame
\* it is in.
UsingIn(t, i) ==
  IF stack[t][i].pc \in {"entered", "running"}
    THEN {[thread |-> t, frame |-> i, entry |-> stack[t][i].held[j]] :
            j \in DOMAIN stack[t][i].held}
    ELSE {}
Using == UNION {UNION {UsingIn(t, i) : i \in DOMAIN stack[t]} : t \in Threads}

\* A value lent exclusively has one user, whatever the thread and however
\* deep the nesting (ProxyCore.cs:17-19).
OneExclusiveUser ==
  \A a, b \in Using :
    a # b /\ a.entry.obj = b.entry.obj => ~a.entry.exclusive

\* No value is freed under a call into it, and none twice
\* (ProxyCore.cs:19-21, 379).
NoFreeUnderCall ==
  /\ \A a \in Using : live[a.entry.obj]
  /\ \A o \in Objects : drops[o] <= IF live[o] THEN 0 ELSE 1

\* With nobody inside, the collector has been told what the value owns, and
\* nothing for a freed one (ProxyCore.cs:25-30).
PressureFollows ==
  \A o \in Objects :
    gate[o].owner = Open /\ made[o] = generation =>
      pressure[o] = IF live[o] THEN bytes[o] ELSE 0

\* A handler runs with its thread outside the gate of the object that raised,
\* so it can reach the object (ProxyCore.cs:21-23).
HandlersOutsideGate ==
  \A t \in Threads : At(t, "handler") => gate[Head(Top(t).raises)].owner # t

\* A raise made inside waits no longer than the thread's last entry
\* (ProxyCore.cs:21-23, ObjectEvents.cs:23-28).  Only what a freed value's
\* Drop raised may stay queued, as ReleaseInstance takes no raises.
RaisesTaken ==
  \A o \in Objects : gate[o].owner = Open /\ drops[o] = 0 => queue[o] = 0

\* A native call gets a value of the load whose export it is
\* (ProxyCore.cs:81-88).
CallsReachOwnLoad ==
  \A t \in Threads : \A i \in DOMAIN stack[t] :
    stack[t][i].pc = "running" =>
      \A j \in DOMAIN stack[t][i].held : made[stack[t][i].held[j].obj] = stack[t][i].image

\* When user code starts nothing new, every call ends, and no release asked for
\* during a call is still due.
NoNewCalls == <>[][\A t \in Threads : ~UserStep(t)]_vars

CallsEnd ==
  NoNewCalls => <>[](/\ \A t \in Threads : stack[t] = <<>>
                     /\ \A o \in Objects : ~pending[o])
=============================================================================
