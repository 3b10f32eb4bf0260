-------------------------------- MODULE Gate --------------------------------
(***************************************************************************)
(* The gate of Pwrs.Runtime/Gate.cs: entered and opened by compare-and-    *)
(* exchange on the id of the thread inside, with waiters that spin and     *)
(* then park on one lazily made AutoResetEvent.                            *)
(*                                                                         *)
(* A step is one access to a field another thread may touch (_owner,       *)
(* _waiters, _parker, the event); what a thread does to the fields only    *)
(* the thread inside uses (_depth, _exclusive) joins the step next to it.  *)
(***************************************************************************)
EXTENDS Naturals, FiniteSets

CONSTANTS
  Threads,   \* the managed threads that use the gate
  Open,      \* the owner id 0: nobody is inside
  NoEvent,   \* the null _parker
  MaxDepth   \* bound: entries a thread nests before it leaves one

ASSUME ThreadsAssumption ==
  IsFiniteSet(Threads) /\ Open \notin Threads /\ NoEvent \notin Threads
ASSUME MaxDepthAssumption == MaxDepth \in Nat \ {0}

VARIABLES
  owner,      \* _owner
  depth,      \* _depth
  exclusive,  \* _exclusive
  waiters,    \* _waiters
  parker,     \* _parker, an event being named by the thread that made it
  signaled,   \* the events that are set
  pc,         \* where each thread is in Enter, Wait, Parker or Leave
  want,       \* the exclusive argument of each thread's Enter
  ev,         \* the event each thread's Parker() call returned
  sharedIn,   \* entries each caller was given and has not left:
  exclIn      \*   the true returns of Enter, by their argument

gateVars == <<owner, depth, exclusive>>
wakeVars == <<waiters, parker, signaled, ev>>
callerVars == <<sharedIn, exclIn>>
vars == <<gateVars, wakeVars, pc, want, callerVars>>

Entering == {"cas", "spin", "parker", "publish", "count", "attempt", "park",
             "uncount", "admit"}
Leaving == {"open", "wake", "setParker", "set"}

Inside(t) == sharedIn[t] > 0 \/ exclIn[t] > 0

Init ==
  /\ owner = Open
  /\ depth = 0
  /\ exclusive = FALSE
  /\ waiters = 0
  /\ parker = NoEvent
  /\ signaled = {}
  /\ pc = [t \in Threads |-> "idle"]
  /\ want = [t \in Threads |-> FALSE]
  /\ ev = [t \in Threads |-> NoEvent]
  /\ sharedIn = [t \in Threads |-> 0]
  /\ exclIn = [t \in Threads |-> 0]

Goto(t, from, to) == pc[t] = from /\ pc' = [pc EXCEPT ![t] = to]

Credit(t, x) ==
  IF x THEN exclIn' = [exclIn EXCEPT ![t] = @ + 1] /\ UNCHANGED sharedIn
       ELSE sharedIn' = [sharedIn EXCEPT ![t] = @ + 1] /\ UNCHANGED exclIn

-----------------------------------------------------------------------------
(* Enter *)

\* The thread is not inside: Enter goes on to take the gate.
Enter(t, x) ==
  /\ owner # t
  /\ Goto(t, "idle", "cas")
  /\ want' = [want EXCEPT ![t] = x]
  /\ UNCHANGED <<gateVars, wakeVars, callerVars>>

\* The thread is inside and its entry nests.  The other outcome, false
\* returned because an entry here or the new one is exclusive, changes
\* nothing.
CanNestAnything(x) == ~x
CanNest(x) == ~exclusive /\ ~x

Nest(t, x) ==
  /\ pc[t] = "idle"
  /\ owner = t
  /\ CanNest(x)
  /\ depth < MaxDepth
  /\ depth' = depth + 1
  /\ Credit(t, x)
  /\ UNCHANGED <<owner, exclusive, wakeVars, pc, want>>

Take(t) == owner = Open /\ owner' = t

CompareExchange(t) ==
  /\ \/ Take(t) /\ Goto(t, "cas", "admit")
     \/ owner # Open /\ UNCHANGED owner /\ Goto(t, "cas", "spin")
  /\ UNCHANGED <<depth, exclusive, wakeVars, want, callerVars>>

\* SpinWait yields at once on a machine with one processor, so giving up
\* asks nothing of the owner.
Spin(t) ==
  /\ \/ Take(t) /\ Goto(t, "spin", "admit")
     \/ UNCHANGED owner /\ Goto(t, "spin", "parker")
  /\ UNCHANGED <<depth, exclusive, wakeVars, want, callerVars>>

\* The end of Enter: _depth, _exclusive, and true returned.
Admit(t) ==
  /\ Goto(t, "admit", "idle")
  /\ depth' = 1
  /\ exclusive' = want[t]
  /\ Credit(t, want[t])
  /\ UNCHANGED <<owner, wakeVars, want>>

-----------------------------------------------------------------------------
(* Wait, from its call of Parker on *)

WaitParker(t) ==
  /\ IF parker = NoEvent
       THEN Goto(t, "parker", "publish") /\ UNCHANGED ev
       ELSE Goto(t, "parker", "count") /\ ev' = [ev EXCEPT ![t] = parker]
  /\ UNCHANGED <<gateVars, waiters, parker, signaled, want, callerVars>>

\* Parker() made an event; the compare-exchange keeps it only when no other
\* thread has published one since.
PublishOwn(t) ==
  /\ parker' = t
  /\ ev' = [ev EXCEPT ![t] = t]
Publish(t) ==
  /\ parker' = IF parker = NoEvent THEN t ELSE parker
  /\ ev' = [ev EXCEPT ![t] = parker']

WaitPublish(t) ==
  /\ Goto(t, "publish", "count")
  /\ Publish(t)
  /\ UNCHANGED <<gateVars, waiters, signaled, want, callerVars>>
Count(t) ==
  /\ Goto(t, "count", "attempt")
  /\ waiters' = waiters + 1
  /\ UNCHANGED <<gateVars, parker, signaled, ev, want, callerVars>>

Attempt(t) ==
  /\ \/ Take(t) /\ Goto(t, "attempt", "uncount")
     \/ owner # Open /\ UNCHANGED owner /\ Goto(t, "attempt", "park")
  /\ UNCHANGED <<depth, exclusive, wakeVars, want, callerVars>>

\* WaitOne returns and resets the event it waited on.
Park(t) ==
  /\ ev[t] \in signaled
  /\ Goto(t, "park", "attempt")
  /\ signaled' = signaled \ {ev[t]}
  /\ UNCHANGED <<gateVars, waiters, parker, ev, want, callerVars>>

\* WaitOne throws (Thread.Interrupt): the finally block still runs, and the
\* exception leaves Enter.
Interrupt(t) ==
  /\ Goto(t, "park", "idle")
  /\ waiters' = waiters - 1
  /\ UNCHANGED <<gateVars, parker, signaled, ev, want, callerVars>>

UncountAll(t) ==
  /\ Goto(t, "uncount", "admit")
  /\ waiters' = 0
  /\ UNCHANGED <<gateVars, parker, signaled, ev, want, callerVars>>
Uncount(t) ==
  /\ Goto(t, "uncount", "admit")
  /\ waiters' = waiters - 1
  /\ UNCHANGED <<gateVars, parker, signaled, ev, want, callerVars>>

-----------------------------------------------------------------------------
(* Leave: one call for each true return of Enter, on the same thread *)

Debit(t) ==
  \/ /\ sharedIn[t] > 0
     /\ sharedIn' = [sharedIn EXCEPT ![t] = @ - 1]
     /\ UNCHANGED exclIn
  \/ /\ exclIn[t] > 0
     /\ exclIn' = [exclIn EXCEPT ![t] = @ - 1]
     /\ UNCHANGED sharedIn

LeaveInner(t) ==
  /\ pc[t] = "idle"
  /\ depth > 1
  /\ Debit(t)
  /\ depth' = depth - 1
  /\ UNCHANGED <<owner, exclusive, wakeVars, pc, want>>

LeaveOuter(t) ==
  /\ depth <= 1
  /\ Goto(t, "idle", "open")
  /\ Debit(t)
  /\ depth' = depth - 1
  /\ exclusive' = FALSE
  /\ UNCHANGED <<owner, wakeVars, want>>

OpenGate(t) ==
  /\ Goto(t, "open", "wake")
  /\ owner' = Open
  /\ UNCHANGED <<depth, exclusive, wakeVars, want, callerVars>>

Waiting == waiters > 0

ReadWaiters(t) ==
  /\ Goto(t, "wake", IF Waiting THEN "setParker" ELSE "idle")
  /\ UNCHANGED <<gateVars, wakeVars, want, callerVars>>

\* A waiter was counted, and it counts itself after its Parker() call, so
\* this one finds the event made (OneEvent).
SetParker(t) ==
  /\ Goto(t, "setParker", "set")
  /\ ev' = [ev EXCEPT ![t] = parker]
  /\ UNCHANGED <<gateVars, waiters, parker, signaled, want, callerVars>>

Set(t) ==
  /\ Goto(t, "set", "idle")
  /\ signaled' = signaled \cup {ev[t]}
  /\ UNCHANGED <<gateVars, waiters, parker, ev, want, callerVars>>

-----------------------------------------------------------------------------

Call(t) == \E x \in BOOLEAN : Enter(t, x) \/ Nest(t, x)

Leave(t) == LeaveInner(t) \/ LeaveOuter(t)

\* The steps a running thread takes without its caller's choice.
Run(t) ==
  \/ CompareExchange(t) \/ Spin(t) \/ Admit(t)
  \/ WaitParker(t) \/ WaitPublish(t) \/ Count(t) \/ Attempt(t) \/ Park(t)
  \/ Uncount(t)
  \/ OpenGate(t) \/ ReadWaiters(t) \/ SetParker(t) \/ Set(t)

Next == \E t \in Threads : Call(t) \/ Run(t) \/ Leave(t) \/ Interrupt(t)

Spec == Init /\ [][Next]_vars

\* The scheduler runs every thread that can run, and every entry is paired
\* with a Leave, so an entered thread leaves.  Nothing makes a caller call
\* and nothing interrupts.
Fairness == \A t \in Threads : WF_vars(Run(t)) /\ WF_vars(LeaveOuter(t))
                               /\ WF_vars(LeaveInner(t))

FairSpec == Spec /\ Fairness

-----------------------------------------------------------------------------
(* Properties *)

TypeOK ==
  /\ owner \in Threads \cup {Open}
  /\ depth \in Nat
  /\ exclusive \in BOOLEAN
  /\ waiters \in Nat
  /\ parker \in Threads \cup {NoEvent}
  /\ signaled \subseteq Threads
  /\ pc \in [Threads -> {"idle"} \cup Entering \cup Leaving]
  /\ want \in [Threads -> BOOLEAN]
  /\ ev \in [Threads -> Threads \cup {NoEvent}]
  /\ sharedIn \in [Threads -> Nat]
  /\ exclIn \in [Threads -> Nat]

\* Two callers Enter returned true to are never both inside (Gate.cs:7).
MutualExclusion ==
  \A t, u \in Threads : Inside(t) /\ Inside(u) => t = u

\* An exclusive entry is the only entry: it nests in nothing and nothing
\* nests in it (Gate.cs:10-11).
ExclusiveAlone ==
  \A t \in Threads : exclIn[t] > 0 => exclIn[t] = 1 /\ sharedIn[t] = 0

\* The count of waiters is the number of threads between their increment
\* and the finally block that takes it back, however they leave.
Counted == {t \in Threads : pc[t] \in {"attempt", "park", "uncount"}}

WaitersCounted == waiters = Cardinality(Counted)

\* Every thread parks on, and every leaving thread sets, one event
\* (Gate.cs:99-103).
OneEvent ==
  \A t \in Threads :
    /\ pc[t] \in {"count", "attempt", "park", "set"} => ev[t] = parker
    /\ pc[t] \in {"count", "attempt", "park", "uncount", "setParker", "set"}
         => parker # NoEvent

\* The gate is never open with a thread parked and nobody to wake it: the
\* event is set, or a thread is on its way to trying the gate, or the thread
\* that opened it has yet to look for waiters or to set the event
\* (Gate.cs:71-78).
WillWake == {"attempt", "wake", "setParker", "set"}

NoLostWakeup ==
  owner = Open /\ (\E t \in Threads : pc[t] = "park")
    => parker \in signaled \/ \E u \in Threads : pc[u] \in WillWake

\* The strengthening the proofs need: who owns the gate, and what its depth
\* and flag say of the entries of the thread inside.
OwnerInv ==
  \A t \in Threads :
    /\ pc[t] \in {"admit", "uncount", "open"} => owner = t
    /\ pc[t] \notin {"idle", "admit", "uncount", "open"} => owner # t
    /\ Inside(t) <=> owner = t /\ pc[t] = "idle"

DepthInv ==
  \A t \in Threads :
    Inside(t) => /\ depth = sharedIn[t] + exclIn[t]
                 /\ exclusive <=> exclIn[t] > 0
                 /\ exclIn[t] > 0 => exclIn[t] = 1 /\ sharedIn[t] = 0

\* Once callers stop making new calls, every thread inside Enter comes out
\* of it.
NoMoreCalls == <>[][\A t \in Threads : ~Call(t)]_vars

EveryWaiterEnters ==
  NoMoreCalls => \A t \in Threads : pc[t] \in Entering ~> pc[t] \notin Entering

\* The gate implements the abstract lock, whose variables are the callers'.
Lock == INSTANCE GateLock

ImplementsLock == Lock!Spec
=============================================================================
