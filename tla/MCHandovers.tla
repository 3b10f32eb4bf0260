----------------------------- MODULE MCHandovers -----------------------------
(* Six modules about one question: what one side hands to another, Rust to   *)
(* .NET or one process to another, arrives whole, is given back once, and is  *)
(* not taken from under its user.  They share nothing, so a behaviour is one  *)
(* of theirs: "kind" says whose, and the others stay as they began.           *)
EXTENDS Naturals

CONSTANTS
  Raisers, Removers, Sweeper, Resources, Readers, Tools, Hashes, Gone, Processes, MaxBuilds

VARIABLES
  kind,
  com, making, attached, calls, removed, hooked, sweep, early, released, context,
  call, remove, overlapped,
  method, home, task, settling, want, settled, outcome, token, callback, byte, read,
  tx, maker, manager, reply, resource,
  view, flag, clone, armed, disposed, disposing, owner, reading, touched, overtaken,
  lock, cut, earlier, folder, at, fetched, stray,
  shipped, copies, where, mark, pending, torn

\* A hash is none of the marks of no folder and of a line cut short, and there
\* is a build.
ASSUME HandoversAssumption ==
  /\ Gone \notin Hashes
  /\ "torn" \notin Hashes \cup {Gone}
  /\ MaxBuilds \in Nat \ {0}

Event == INSTANCE Subscription
Task == INSTANCE TaskSource
Tx == INSTANCE Transactions
View == INSTANCE MemoryView
Fetch == INSTANCE Toolchain
Helper == INSTANCE HelperStaging

event == <<com, making, attached, calls, removed, hooked, sweep, early, released,
           context, call, remove, overlapped>>
tasked == <<method, home, task, settling, want, settled, outcome, token, callback,
            byte, read>>
enlist == <<tx, maker, manager, reply, resource>>
viewed == <<view, flag, clone, armed, disposed, disposing, owner, reading,
            touched, overtaken>>
fetch == <<lock, cut, earlier, folder, at, fetched, stray>>
helper == <<shipped, copies, where, mark, pending, torn>>
vars == <<kind, event, tasked, enlist, viewed, fetch, helper>>

Init ==
  /\ kind \in {"event", "task", "tx", "view", "fetch", "helper"}
  /\ Event!Init /\ Task!Init /\ Tx!Init /\ View!Init /\ Fetch!Init /\ Helper!Init
  /\ kind # "event" => com = FALSE
  /\ kind # "fetch" => earlier = Gone /\ folder = Gone

EventNext ==
  kind = "event" /\ Event!Next /\ UNCHANGED <<kind, tasked, enlist, viewed, fetch, helper>>
TaskNext ==
  kind = "task" /\ Task!Next /\ UNCHANGED <<kind, event, enlist, viewed, fetch, helper>>
TxNext ==
  kind = "tx" /\ Tx!Next /\ UNCHANGED <<kind, event, tasked, viewed, fetch, helper>>
ViewNext ==
  kind = "view" /\ View!Next /\ UNCHANGED <<kind, event, tasked, enlist, fetch, helper>>
FetchNext ==
  kind = "fetch" /\ Fetch!Next /\ UNCHANGED <<kind, event, tasked, enlist, viewed, helper>>
HelperNext ==
  kind = "helper" /\ Helper!Next /\ UNCHANGED <<kind, event, tasked, enlist, viewed, fetch>>

\* Each module's own fairness, in the behaviours that are its own.
FairSpec ==
  /\ Init
  /\ [][EventNext \/ TaskNext \/ TxNext \/ ViewNext \/ FetchNext \/ HelperNext]_vars
  /\ WF_event(kind = "event" /\ Event!SweepStep)
  /\ \A t \in Raisers : WF_event(kind = "event" /\ Event!CallStep(t))
  /\ \A t \in Event!Threads : WF_event(kind = "event" /\ Event!RemoveStep(t))
  /\ WF_tasked(kind = "task" /\ Task!MethodStep) /\ WF_tasked(kind = "task" /\ Task!TaskEnd)
  /\ WF_tasked(kind = "task" /\ Task!MarkCancelled)
  /\ \A h \in Task!Halves : WF_tasked(kind = "task" /\ Task!Settle(h))
  /\ WF_enlist(kind = "tx" /\ Tx!ManagerStep)
  /\ \A r \in Resources : WF_enlist(kind = "tx" /\ Tx!EnlistStep(r)) /\ WF_enlist(kind = "tx" /\ Tx!PrepareStep(r))

\* A removed handler's context is freed, once (ObjectEvents.cs:249-252).
RemovedIsFreed == Event!RemovedIsFreed
\* No call into a callback outlives its context while raises do not overlap.
SerialCallsKeepContext == Event!SerialCallsKeepContext
\* A sweep leaves no COM handler made before it (ComEvents.cs:128-132).
SweepRemoves == Event!SweepRemoves

\* The task's byte lives at least while its method has not thrown.
ByteLivesWithCall == Task!ByteLivesWithCall
\* A task ends, whatever the module does with it, and its byte is freed once
\* and not written after that (task.rs:18-21, TaskSource.cs:13-16, 43-46).
TaskEnds == kind = "task" => Task!TaskEnds

\* All of a transaction's resources commit, or none (transaction.rs:45-55).
AllOrNothing == Tx!AllOrNothing
\* Every resource of a completed or undone transaction is given back, once.
EachEndsOnce == Tx!EachEndsOnce

\* A view's owner is dropped once, and no later GetSpan reads its memory
\* (RustMemoryManager.cs:9-15, 49-57).
OwnerOutlivesUse == View!OwnerOutlivesUse

\* Tools that fetch one package agree on it (toolchain.rs:34-41, 502-508).
FetchesAgree == Fetch!FetchesAgree
\* A tool fails for a cause of its own (toolchain.rs:34-41, 469-472).
FailsForCause == Fetch!FailsForCause

\* A staged helper's name stands for its bytes (NativeModule.cs:333-337).
NameHoldsBytes == Helper!NameHoldsBytes
\* Processes of one build start their helper (NativeModule.cs:348-352).
OneBuildStarts == Helper!OneBuildStarts
=============================================================================
