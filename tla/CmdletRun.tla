----------------------------- MODULE CmdletRun ------------------------------
(***************************************************************************)
(* One run of a generated cmdlet (RustCmdlet.cs, cmdlet.rs, runtime.rs):   *)
(* the Rust instance made on first use, the phases, what their writes and  *)
(* returns end as, and the release, against StopProcessing calls on other  *)
(* threads.  The instance's stop flag and waker slot are StopWaker's, its  *)
(* owner the pipeline's thread.  A step is one access to the instance      *)
(* pointer, one step of StopWaker or one thing the phase's body does.      *)
(***************************************************************************)
EXTENDS StopWaker

CONSTANT Records   \* bound: records piped to the cmdlet

ASSUME RecordsAssumption == Records \in Nat

VARIABLES
  at,         \* where the pipeline's thread is
  phase,      \* the phase it runs or runs next
  piped,      \* records processed
  needs,      \* _phases: those not known to be empty
  pointer,    \* _instance is not zero
  instance,   \* the memory it points at: "none", "live" or "freed"
  signals,    \* _stopped and _passedThrough, as this phase has set them
  blockedOn,  \* the waker whose run a blocked body waits for
  ended,      \* what the last phase's Invoke ended as
  told,       \* where each stopping thread is in StopProcessing
  heard       \* history: a StopProcessing found the instance

runVars == <<at, phase, piped, needs, pointer, instance, signals, blockedOn, ended, told, heard>>
allVars == <<vars, runVars>>

RunInit ==
  /\ Init
  /\ at = "between" /\ phase = "begin" /\ piped = 0
  /\ needs \in {{"process"} \cup p : p \in SUBSET {"begin", "end"}}
  /\ pointer = FALSE /\ instance = "none"
  /\ signals = {} /\ blockedOn = Empty /\ ended = "ok"
  /\ told = [s \in Stoppers |-> "no"] /\ heard = FALSE

-----------------------------------------------------------------------------
(* The phases, on the pipeline's thread *)

\* The engine's order: begin, a process for each record, end.
Advance ==
  IF phase = "end" THEN at' = "over" /\ UNCHANGED <<phase, piped>>
  ELSE /\ at' = "between"
       /\ \/ piped < Records /\ phase' = "process" /\ piped' = piped + 1
          \/ phase' = "end" /\ UNCHANGED piped

\* The Instance getter, on the first NeedsPhase or Invoke.
Create ==
  /\ at = "between" /\ ~pointer
  /\ \/ pointer' = TRUE /\ instance' = "live" /\ UNCHANGED <<at, ended>>
     \/ at' = "over" /\ ended' = "failed" /\ UNCHANGED <<pointer, instance>>
  /\ UNCHANGED <<vars, phase, piped, needs, signals, blockedOn, told, heard>>

EnterPhase ==
  /\ at = "between" /\ pointer
  /\ IF phase \in needs THEN at' = "body" /\ UNCHANGED <<phase, piped>> ELSE Advance
  /\ signals' = {}
  /\ UNCHANGED <<vars, needs, pointer, instance, blockedOn, ended, told, heard>>

\* A write: the engine stops it, a later command's exception comes back through
\* it, or it goes out.  After the second the phase's writes are refused.
Write ==
  /\ at = "body" /\ "passed" \notin signals
  /\ signals' \in {signals \cup {"passed"}}
                  \cup {signals \cup {"stopped"} : s \in {u \in Stoppers : told[u] # "no"}}
  /\ UNCHANGED <<vars, at, phase, piped, needs, pointer, instance, blockedOn, ended, told, heard>>

OnStop ==
  /\ at = "body"
  /\ OwnerStep \/ \E w \in Wakers : Register(w)
  /\ UNCHANGED runVars

\* A guard drops on this thread or on a scoped one the body has started, but
\* not under the body that waits for its waker.
Unregister ==
  /\ at \in {"body", "blocked"}
  /\ \E w \in guards \ {blockedOn} : DropGuard(w)
  /\ UNCHANGED runVars

\* while !ps.stopping() && !done() { park(); } (pipeline.rs:156-158)
Block ==
  /\ at = "body" /\ owner = InUser /\ ~stopping
  /\ \E w \in guards : blockedOn' = w
  /\ at' = "blocked"
  /\ UNCHANGED <<vars, phase, piped, needs, pointer, instance, signals, ended, told, heard>>

Unblock ==
  /\ at' = "body" /\ blockedOn' = Empty
  /\ UNCHANGED <<vars, phase, piped, needs, pointer, instance, signals, ended, told, heard>>
Wake == at = "blocked" /\ runs[blockedOn] = 1 /\ Unblock
Done == at = "blocked" /\ Unblock

\* Invoke, once the native call is back: a stop before an exception that passed
\* through, before the body's own terminating error, panic or bad status.
Outcome(failed) ==
  CASE "stopped" \in signals -> "stopped"
    [] "passed" \in signals -> "passed"
    [] OTHER -> IF failed THEN "failed" ELSE "ok"

Return ==
  /\ at = "body" /\ owner = InUser /\ guards = {}
  /\ \E failed \in BOOLEAN : ended' = Outcome(failed)
  /\ IF ended' = "ok" THEN Advance ELSE at' = "over" /\ UNCHANGED <<phase, piped>>
  /\ UNCHANGED <<vars, needs, pointer, instance, signals, blockedOn, told, heard>>

\* The engine disposes a cmdlet that has ended, or that a later command cut
\* short, and none that it is still stopping (RustCmdlet.cs:264-266).
MayDispose ==
  /\ at \in {"between", "over"}
  /\ \A s \in Stoppers : told[s] # "reading" /\ stopper[s] = Idle

\* drop_instance frees what the slot holds.
ReleaseInstance ==
  /\ instance' = IF pointer THEN "freed" ELSE instance
  /\ slot' = Empty
  /\ freed' = IF slot = Empty THEN freed ELSE [freed EXCEPT ![slot] = @ + 1]
  /\ UNCHANGED <<stopping, runs, guards, owner, stopper, strayed>>

ReleaseOnly ==
  /\ MayDispose /\ ReleaseInstance
  /\ at' = "gone"
  /\ UNCHANGED <<pointer, phase, piped, needs, signals, blockedOn, ended, told, heard>>

Dispose ==
  /\ MayDispose /\ ReleaseInstance
  /\ pointer' = FALSE
  /\ at' = "gone"
  /\ UNCHANGED <<phase, piped, needs, signals, blockedOn, ended, told, heard>>

-----------------------------------------------------------------------------
(* StopProcessing, on any thread *)

StopProcessing(s) ==
  /\ told[s] = "no"
  /\ told' = [told EXCEPT ![s] = "reading"]
  /\ UNCHANGED <<vars, at, phase, piped, needs, pointer, instance, signals, blockedOn, ended, heard>>

ReadInstance(s) ==
  /\ told[s] = "reading"
  /\ told' = [told EXCEPT ![s] = "done"]
  /\ IF pointer THEN Stop(s) /\ heard' = TRUE ELSE UNCHANGED <<vars, heard>>
  /\ UNCHANGED <<at, phase, piped, needs, pointer, instance, signals, blockedOn, ended>>

CmdletStop(s) == StopperStep(s) /\ UNCHANGED runVars

-----------------------------------------------------------------------------

PipelineStep == Create \/ EnterPhase \/ Write \/ OnStop \/ Unregister \/ Block \/ Wake \/ Return \/ Dispose

RunNext ==
  \/ PipelineStep \/ Done
  \/ \E s \in Stoppers : StopProcessing(s) \/ ReadInstance(s) \/ CmdletStop(s)

\* A blocked body is not promised the event of its own it waits for.
RunSpec == /\ RunInit /\ [][RunNext]_allVars
           /\ WF_allVars(PipelineStep)
           /\ \A s \in Stoppers : WF_allVars(ReadInstance(s) \/ CmdletStop(s))

-----------------------------------------------------------------------------
(* Properties; RunsOnce and EveryGuardWoken are StopWaker's *)

\* A stop runs on a live instance or on none (runtime.rs:578-584).
StopOnLiveInstance ==
  \A s \in Stoppers : told[s] = "done" /\ stopper[s] # Idle => instance = "live"

\* Once a stop has found the instance the cmdlet ends, blocked or not, however
\* its wakers and guards fall (pipeline.rs:145-151).
HeardStopEnds == heard ~> at = "gone"

\* What pipeline.rs:147-149 says of on_stop: the waker has run once the stop
\* has come, on the stop's thread or at the registration.
StopReachesWaker ==
  (\A s \in Stoppers : told[s] = "done" /\ stopper[s] = Idle) => \A w \in guards : runs[w] = 1
=============================================================================
