----------------------------- MODULE TaskSource -----------------------------
(***************************************************************************)
(* The task a generated method returns to .NET: TaskSource of              *)
(* Pwrs.Runtime/TaskSource.cs, PsTask of crates/pwrs/src/task.rs and the   *)
(* try block cargo pwrs generates around the call.  The method's thread,   *)
(* the thread the task is moved to, and the thread that cancels the token  *)
(* share a byte of native memory.                                          *)
(***************************************************************************)

VARIABLES
  method,      \* where the generated method is
  home,        \* the thread the Rust half of the task is on
  task,        \* the Rust half: "unmade", "held" or "gone"
  settling,    \* where each half is in SetValue, SetFault or SetCancel
  want,        \* the outcome each half sets
  settled,     \* _settled
  outcome,     \* the Task's state
  token,       \* the caller canceled the token
  callback,    \* MarkCancelled: "listening", "running", "ran" or "disposed"
  byte,        \* _cancelled: "clear", "set" or "freed"
  read         \* what is_cancelled last read

vars == <<method, home, task, settling, want, settled, outcome, token, callback,
          byte, read>>

Halves == {"method", "rust"}
Outcomes == {"value", "fault", "canceled"}

Init ==
  /\ method = "packing"
  /\ home = "method"
  /\ task = "unmade"
  /\ settling = [h \in Halves |-> "no"]
  /\ want = [h \in Halves |-> "fault"]
  /\ settled = FALSE
  /\ outcome = "pending"
  /\ token = FALSE
  /\ callback = "listening"
  /\ byte = "clear"
  /\ read = "clear"

source == <<settled, outcome, callback, byte>>

-----------------------------------------------------------------------------
(* The generated method *)

\* The arguments are packed, or one does not convert.
Pack ==
  /\ method = "packing"
  /\ \/ method' = "running" /\ task' = "held"
     \/ method' = "failing" /\ UNCHANGED task
  /\ UNCHANGED <<home, settling, want, source, token, read>>

\* The native call is back, any task left on this thread dropped with it.
\* It failed, a handler of an event it raised threw, or it succeeded.
Return ==
  /\ method = "running"
  /\ home = "method" => task = "gone" /\ settling["rust"] \in {"no", "done"}
  /\ method' \in {"returned", "failing"}
  /\ UNCHANGED <<home, task, settling, want, source, token, read>>

Discard ==
  /\ method = "failing"
  /\ method' = "thrown"
  /\ settling' = [settling EXCEPT !["method"] = "begin"]
  /\ UNCHANGED <<home, task, want, source, token, read>>

-----------------------------------------------------------------------------
(* PsTask, on the method's thread or the one it was moved to *)

Move ==
  /\ method = "running" /\ task = "held" /\ home = "method"
  /\ home' = "worker"
  /\ UNCHANGED <<method, task, settling, want, source, token, read>>

IsCancelled ==
  /\ task = "held"
  /\ read' = byte
  /\ UNCHANGED <<method, home, task, settling, want, source, token>>

StillHeld == UNCHANGED task
Consumed == task' = "gone"

Finish(o) ==
  /\ task = "held"
  /\ Consumed
  /\ want' = [want EXCEPT !["rust"] = o]
  /\ settling' = [settling EXCEPT !["rust"] = "begin"]
  /\ UNCHANGED <<method, home, source, token, read>>

\* A task dropped unfinished faults with PwrsTaskDropped.
DropSilently == task' = "gone" /\ UNCHANGED <<settling, want>>
DropFaults ==
  /\ task' = "gone"
  /\ want' = [want EXCEPT !["rust"] = "fault"]
  /\ settling' = [settling EXCEPT !["rust"] = "begin"]

Drop ==
  /\ task = "held"
  /\ DropFaults
  /\ UNCHANGED <<method, home, source, token, read>>

-----------------------------------------------------------------------------
(* SetValue, SetFault, SetCancel *)

Goes(h, from, to) == settling[h] = from /\ settling' = [settling EXCEPT ![h] = to]

FirstBegin(h) == Goes(h, "begin", IF settled THEN "done" ELSE "set")

BeginSet(h) ==
  /\ FirstBegin(h)
  /\ settled' = TRUE
  /\ UNCHANGED <<method, home, task, want, outcome, token, callback, byte, read>>

\* A value that does not convert faults the task.  TrySet leaves a task that
\* has ended as it is.
SetOutcome(h) ==
  /\ Goes(h, "set", "dispose")
  /\ \E o \in {want[h]} \cup (IF want[h] = "value" THEN {"fault"} ELSE {}) :
       outcome' = IF outcome = "pending" THEN o ELSE outcome
  /\ UNCHANGED <<method, home, task, want, settled, token, callback, byte, read>>

\* Dispose waits for a callback that is running and stops any later one.
DisposeAtOnce == callback' = IF callback = "listening" THEN "disposed" ELSE callback
DisposeWaits == callback # "running" /\ DisposeAtOnce

Dispose(h) ==
  /\ Goes(h, "dispose", "free")
  /\ DisposeWaits
  /\ UNCHANGED <<method, home, task, want, settled, outcome, token, byte, read>>

FreeByte(h) ==
  /\ Goes(h, "free", "done")
  /\ byte' = IF byte = "freed" THEN "freed twice" ELSE "freed"
  /\ UNCHANGED <<method, home, task, want, settled, outcome, token, callback, read>>

-----------------------------------------------------------------------------
(* The caller's CancellationTokenSource *)

CancelToken ==
  /\ ~token
  /\ token' = TRUE
  /\ callback' = IF callback = "listening" THEN "running" ELSE callback
  /\ UNCHANGED <<method, home, task, settling, want, settled, outcome, byte, read>>

MarkCancelled ==
  /\ callback = "running"
  /\ callback' = "ran"
  /\ byte' = IF byte = "clear" THEN "set" ELSE "written freed"
  /\ UNCHANGED <<method, home, task, settling, want, settled, outcome, token, read>>

-----------------------------------------------------------------------------

MethodStep == Pack \/ Return \/ Discard
TaskEnd == Drop \/ \E o \in Outcomes : Finish(o)
Settle(h) == BeginSet(h) \/ SetOutcome(h) \/ Dispose(h) \/ FreeByte(h)

Next ==
  \/ MethodStep \/ Move \/ IsCancelled \/ TaskEnd
  \/ \E h \in Halves : Settle(h)
  \/ CancelToken \/ MarkCancelled

Spec == Init /\ [][Next]_vars

\* The threads run, and the module finishes or drops every task it holds.
Fairness ==
  /\ WF_vars(MethodStep) /\ WF_vars(TaskEnd) /\ WF_vars(MarkCancelled)
  /\ \A h \in Halves : WF_vars(Settle(h))

FairSpec == Spec /\ Fairness

-----------------------------------------------------------------------------
(* Properties *)

\* A task Rust reads the cancellation byte of has one to read (task.rs:33-35,
\* 56-57).
ReadsLiveByte == read \in {"clear", "set"}

\* It has one at least until its method throws.
ByteLivesWithCall == method # "thrown" => ReadsLiveByte

\* A task ends whatever the module does with it, and its byte is freed: its
\* caller is never left waiting (task.rs:18-21).  The byte is freed once,
\* whichever halves end the task, and never written by the token's callback
\* after that (TaskSource.cs:13-16, 43-46).
TaskEnds == <>(outcome # "pending") /\ <>[](byte = "freed")
=============================================================================
