---------------------------- MODULE Subscription ----------------------------
(***************************************************************************)
(* A Rust callback subscribed to a .NET event (class Subscription of       *)
(* Pwrs.Runtime/ObjectEvents.cs): threads that raise the event run the     *)
(* callback, and threads that unsubscribe release its context when the     *)
(* handler is off and no call is left.  A COM object's handler is also in  *)
(* the module's ComHooks (ComEvents.cs), whose sweep removes it when the   *)
(* module unloads or its runspace closes.                                  *)
(*                                                                         *)
(* A step is one access to _calls, _removed, _released or the hooks, the   *)
(* change of the event's handler list, or a run of native code.            *)
(***************************************************************************)
EXTENDS Naturals

CONSTANTS
  Raisers,   \* threads that raise the event, one for each raise that overlaps another
  Removers,  \* threads that unsubscribe, a raiser from its callback included
  Sweeper    \* the thread that detaches the module's COM handlers

Threads == Raisers \cup Removers \cup {Sweeper}

VARIABLES
  com,       \* the event is a COM object's
  making,    \* where the constructor is
  attached,  \* the handler is in the event's list
  calls,     \* _calls
  removed,   \* _removed
  hooked,    \* the handler is in the module's ComHooks
  sweep,     \* where ComHooks.DetachAll is
  early,     \* history: the sweep began once the handler was made
  released,  \* _released
  context,   \* the native context: "held" or "freed"
  call,      \* where each raiser is in Called
  remove,    \* where each thread is in Remove
  overlapped \* history: one raise has started before another's call ended

vars == <<com, making, attached, calls, removed, hooked, sweep, early, released,
          context, call, remove, overlapped>>
hooks == <<com, making, hooked, sweep, early>>

Init ==
  /\ com \in BOOLEAN
  /\ making = "attaching"
  /\ attached = FALSE
  /\ hooked = FALSE
  /\ sweep = "no"
  /\ early = FALSE
  /\ calls = 0
  /\ removed = FALSE
  /\ released = FALSE
  /\ context = "held"
  /\ call = [t \in Raisers |-> "idle"]
  /\ remove = [t \in Threads |-> "idle"]
  /\ overlapped = FALSE

CallGoes(t, from, to) ==
  /\ remove[t] = "idle"
  /\ call[t] = from
  /\ call' = [call EXCEPT ![t] = to]

RemoveGoes(t, from, to) ==
  remove[t] = from /\ remove' = [remove EXCEPT ![t] = to]

-----------------------------------------------------------------------------
(* The constructor *)

\* The source takes the handler, or throws, and the caller drops the context.
Attach ==
  /\ making = "attaching"
  /\ \/ making' = (IF com THEN "recording" ELSE "made") /\ attached' = TRUE
        /\ UNCHANGED context
     \/ making' = "refused" /\ context' = "freed" /\ UNCHANGED attached
  /\ UNCHANGED <<com, calls, removed, hooked, sweep, early, released, call,
                 remove, overlapped>>

NotHooked == UNCHANGED hooked
Hooked == hooked' = TRUE

Record ==
  /\ making = "recording"
  /\ making' = "made"
  /\ Hooked
  /\ UNCHANGED <<com, attached, calls, removed, sweep, early, released, context,
                 call, remove, overlapped>>

-----------------------------------------------------------------------------
(* Called, on the raising thread *)

\* The raise read the handler list while the handler was in it.
Raise(t) ==
  /\ attached
  /\ CallGoes(t, "idle", "increment")
  /\ overlapped' = (overlapped \/ \E u \in Raisers : call[u] # "idle")
  /\ UNCHANGED <<hooks, attached, calls, removed, released, context, remove>>

Counted == calls' = calls + 1

Increment(t) ==
  /\ CallGoes(t, "increment", "check")
  /\ Counted
  /\ UNCHANGED <<hooks, attached, removed, released, context, remove, overlapped>>

CheckNothing(t) == CallGoes(t, "check", "callback")
CheckRemoved(t) == CallGoes(t, "check", IF removed THEN "decrement" ELSE "callback")

Check(t) ==
  /\ CheckRemoved(t)
  /\ UNCHANGED <<hooks, attached, calls, removed, released, context, remove, overlapped>>

\* The callback returns, fails or panics; the finally block runs.
Return(t) ==
  /\ CallGoes(t, "callback", "decrement")
  /\ UNCHANGED <<hooks, attached, calls, removed, released, context, remove, overlapped>>

DecrementUnread(t) == CallGoes(t, "decrement", "idle")
DecrementRead(t) == CallGoes(t, "decrement", IF calls = 1 THEN "last" ELSE "idle")

Decrement(t) ==
  /\ DecrementRead(t)
  /\ calls' = calls - 1
  /\ UNCHANGED <<hooks, attached, removed, released, context, remove, overlapped>>

LastReads(t) ==
  /\ CallGoes(t, "last", IF removed THEN "release" ELSE "idle")
  /\ UNCHANGED <<hooks, attached, calls, removed, released, context, remove, overlapped>>

-----------------------------------------------------------------------------
(* Remove, from the subscription's drop, from the callback, or from ComHooks *)

\* The sweep reads the handlers the hooks have as it begins.
SweepBegins ==
  /\ com /\ sweep = "no"
  /\ sweep' = IF hooked THEN "detach" ELSE "done"
  /\ early' = (making = "made")
  /\ UNCHANGED <<com, making, attached, calls, removed, hooked, released, context,
                 call, remove, overlapped>>

SweepEnds ==
  /\ sweep = "detaching"
  /\ remove[Sweeper] = "idle"
  /\ sweep' = "done"
  /\ UNCHANGED <<com, making, attached, calls, removed, hooked, early, released,
                 context, call, remove, overlapped>>

\* Nobody has the subscription before its constructor returns, save the hooks.
MayRemove(t) ==
  IF t = Sweeper THEN sweep = "detach"
  ELSE making = "made" /\ (t \in Raisers => call[t] \in {"idle", "callback"})

Exchange(t) ==
  /\ MayRemove(t)
  /\ removed' = TRUE
  /\ IF removed THEN UNCHANGED remove ELSE RemoveGoes(t, "idle", "detach")
  /\ sweep' = IF t = Sweeper THEN "detaching" ELSE sweep
  /\ UNCHANGED <<com, making, attached, calls, hooked, early, released, context,
                 call, overlapped>>

\* The event's remove accessor takes the handler out, or throws first; the
\* finally blocks run either way, and a COM handler's first forgets it.
Detach(t) ==
  /\ RemoveGoes(t, "detach", IF com THEN "forget" ELSE "readCalls")
  /\ attached' \in {FALSE, attached}
  /\ UNCHANGED <<hooks, calls, removed, released, context, call, overlapped>>

Forget(t) ==
  /\ RemoveGoes(t, "forget", "readCalls")
  /\ hooked' = FALSE
  /\ UNCHANGED <<com, making, attached, calls, removed, sweep, early, released,
                 context, call, overlapped>>

ReadCalls(t) ==
  /\ RemoveGoes(t, "readCalls", IF calls = 0 THEN "release" ELSE "idle")
  /\ UNCHANGED <<hooks, attached, calls, removed, released, context, call, overlapped>>

-----------------------------------------------------------------------------

FreeAgain == context' = IF context = "held" THEN "freed" ELSE "freed twice"
FreeOnce == IF released THEN UNCHANGED context ELSE FreeAgain

Release(t) ==
  /\ \/ t \in Raisers /\ CallGoes(t, "release", "idle") /\ UNCHANGED remove
     \/ RemoveGoes(t, "release", "idle") /\ UNCHANGED call
  /\ released' = TRUE
  /\ FreeOnce
  /\ UNCHANGED <<hooks, attached, calls, removed, overlapped>>

CallStep(t) ==
  Increment(t) \/ Check(t) \/ Return(t) \/ Decrement(t) \/ LastReads(t)

RemoveStep(t) == Detach(t) \/ Forget(t) \/ ReadCalls(t) \/ Release(t)
SweepStep == Exchange(Sweeper) \/ SweepEnds

Next ==
  \/ Attach \/ Record \/ SweepBegins \/ SweepStep
  \/ \E t \in Raisers : Raise(t) \/ CallStep(t)
  \/ \E t \in Removers : Exchange(t)
  \/ \E t \in Threads : RemoveStep(t)

Spec == Init /\ [][Next]_vars

\* A callback returns, and a thread inside Called, Remove or the sweep runs on.
Fairness ==
  /\ WF_vars(SweepStep)
  /\ \A t \in Raisers : WF_vars(CallStep(t))
  /\ \A t \in Threads : WF_vars(RemoveStep(t))

FairSpec == Spec /\ Fairness

-----------------------------------------------------------------------------
(* Properties *)

\* No call into the callback outlives the context, and a call running when
\* the handler is removed finishes (ObjectEvents.cs:249-252).
NoCallOutlivesContext ==
  \A t \in Raisers : call[t] = "callback" => context = "held"

\* It holds at least while the event's raises come one after another.
SerialCallsKeepContext == ~overlapped => NoCallOutlivesContext

\* A sweep leaves no COM handler that was made before it began: it removes it,
\* or another thread has taken its removal on (ComEvents.cs:128-132).  One the
\* source has taken and the hooks do not have yet stays.
SweepRemoves == sweep = "done" /\ early => removed

\* The context outlives neither the removal nor the calls for good, and is
\* released once: whichever of the last call and the removal comes second
\* frees it (ObjectEvents.cs:249-252).  Raises that overlap for ever, after a
\* remove accessor that threw, keep it.
NoMoreRaises == <>[][\A t \in Raisers : ~Raise(t)]_vars
RemovedIsFreed == NoMoreRaises => (removed ~> [](context = "freed"))
=============================================================================
