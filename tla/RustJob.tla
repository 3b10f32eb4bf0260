------------------------------ MODULE RustJob -------------------------------
(***************************************************************************)
(* A job whose work is Rust code on a thread of its own: RustJob of        *)
(* Pwrs.Runtime/Jobs.cs and crates/pwrs/src/job.rs.  The cmdlet's thread   *)
(* makes the job and feeds it records, the job's thread works and ends the *)
(* job, and other threads call StopJob.  The stop's waker is StopWaker's,  *)
(* whose owner is the job's thread.                                        *)
(***************************************************************************)
EXTENDS StopWaker, FiniteSets

CONSTANT MaxRecords   \* bound: the records the cmdlet sends

ASSUME RustJobAssumption ==
  Empty \notin Stoppers /\ MaxRecords \in Nat

VARIABLES
  state,      \* JobStateInfo.State
  released,   \* _released: the native context is gone
  stopAsked,  \* _stopAsked
  finished,   \* _finished is set
  lock,       \* the StopJob holding _gate, or Empty
  stopped,    \* what Finish read of _stopAsked
  maker,      \* where the cmdlet's thread is
  sender,     \* the cmdlet's end of the channel is open
  sent,       \* records sent
  queue,      \* records in the channel
  work,       \* where the job's thread is
  failed,     \* the work ended in a terminating error or a panic
  asks,       \* the work asks stopping() before it blocks
  blocked,    \* the waker the work waits for, or Empty
  stopJob     \* where each stopper is in StopJob

ending == <<state, released, stopAsked, finished, lock, stopped>>
feeding == <<maker, sender, sent, queue>>
working == <<work, failed, asks, blocked>>
jobVars == <<ending, feeding, working, stopJob>>

Final == {"Stopped", "Failed", "Completed"}
Phases == {"run", "begin", "process", "end"}

JobInit ==
  /\ Init
  /\ state = "NotStarted"
  /\ released = FALSE /\ stopAsked = FALSE /\ finished = FALSE /\ stopped = FALSE
  /\ lock = Empty
  /\ maker = "new"
  /\ sender = FALSE
  /\ sent = 0 /\ queue = 0
  /\ work = "none"
  /\ failed = FALSE /\ asks \in BOOLEAN
  /\ blocked = Empty
  /\ stopJob = [s \in Stoppers |-> "out"]

-----------------------------------------------------------------------------
(* The cmdlet's thread *)

\* JobNew as far as the job manager's list; a job refused before that leaves
\* nothing behind.
JobNew ==
  /\ maker = "new"
  /\ maker' \in {"registered", "over"}
  /\ UNCHANGED <<vars, ending, sender, sent, queue, working, stopJob>>

Begin ==
  /\ maker = "registered"
  /\ maker' = "begun"
  /\ state' = "Running"
  /\ UNCHANGED <<vars, released, stopAsked, finished, lock, stopped, sender, sent,
                 queue, working, stopJob>>

\* The job's thread starts on a closure, or on an invocation the cmdlet then
\* feeds.  A thread that does not start ends the job here, as Failed.
Spawn ==
  /\ maker = "begun"
  /\ work' \in {"run", "begin", "finish"}
  /\ maker' = IF work' = "begin" THEN "feeding" ELSE "over"
  /\ sender' = (work' = "begin")
  /\ failed' = (work' = "finish")
  /\ UNCHANGED <<vars, ending, sent, queue, asks, blocked, stopJob>>

\* The body is over and its receiver dropped.
Deaf == work \in {"finish", "settle", "signal", "gone"}

\* A process phase of the cmdlet; a job that takes no more is sent no more.
Send ==
  /\ maker = "feeding" /\ sender
  /\ sent < MaxRecords
  /\ IF Deaf THEN sender' = FALSE /\ UNCHANGED <<sent, queue>>
       ELSE sent' = sent + 1 /\ queue' = queue + 1 /\ UNCHANGED sender
  /\ UNCHANGED <<vars, ending, maker, working, stopJob>>

\* The end phase, or the cmdlet's instance released without one.
CloseInput ==
  /\ maker = "feeding"
  /\ maker' = "over"
  /\ sender' = FALSE
  /\ UNCHANGED <<vars, ending, sent, queue, working, stopJob>>

-----------------------------------------------------------------------------
(* The job's thread *)

InPhase == work \in Phases /\ blocked = Empty

\* JobContext::on_stop
JobOnStop ==
  /\ InPhase
  /\ OwnerStep \/ \E w \in Wakers : Register(w)
  /\ UNCHANGED jobVars

\* A guard drops on this thread or on a scoped one the work has started, while
\* the work registers or is blocked too, but not under the work that waits for
\* its waker.
JobUnregister ==
  /\ work \in Phases
  /\ \E w \in Wakers \ {blocked} : DropGuard(w)
  /\ UNCHANGED jobVars

\* As the loop of pipeline.rs:156-158, or without asking stopping(), as on a
\* channel the waker closes.
JobBlock ==
  /\ InPhase /\ owner = InUser
  /\ asks => ~stopping
  /\ blocked' \in {w \in guards : runs[w] = 0}
  /\ UNCHANGED <<vars, ending, feeding, work, failed, asks, stopJob>>

JobUnblock ==
  /\ blocked # Empty /\ blocked' = Empty
  /\ UNCHANGED <<vars, ending, feeding, work, failed, asks, stopJob>>
JobWake == JobUnblock /\ runs[blocked] > 0
JobDone == JobUnblock

\* A phase returns, its guards dropped with it.  An error that is not
\* terminating is a record and the job goes on.
PhaseEnds ==
  /\ InPhase /\ owner = InUser /\ guards = {}
  /\ failed' \in BOOLEAN
  /\ work' = IF failed' \/ work \in {"run", "end"} THEN "finish" ELSE "poll"
  /\ UNCHANGED <<vars, ending, feeding, asks, blocked, stopJob>>

Poll ==
  /\ work = "poll"
  /\ work' = IF stopping THEN "finish" ELSE "receive"
  /\ UNCHANGED <<vars, ending, feeding, failed, asks, blocked, stopJob>>

\* recv_timeout: disconnected only once the channel is empty.
InputOverOnClose == ~sender
InputOver == queue = 0 /\ ~sender

Pending == queue > 0

Receive ==
  /\ work = "receive"
  /\ IF InputOver THEN work' = "ending" /\ UNCHANGED queue
     ELSE IF Pending THEN work' = "process" /\ queue' = queue - 1
     ELSE work' = "poll" /\ UNCHANGED queue
  /\ UNCHANGED <<vars, ending, maker, sender, sent, failed, asks, blocked, stopJob>>

LastPoll ==
  /\ work = "ending"
  /\ work' = IF stopping THEN "finish" ELSE "end"
  /\ UNCHANGED <<vars, ending, feeding, failed, asks, blocked, stopJob>>

-----------------------------------------------------------------------------
(* RustJob.Finish *)

Unlocked == TRUE
LockFree == lock = Empty

FinishLocked ==
  /\ work = "finish" /\ LockFree
  /\ stopped' = stopAsked
  /\ released' = TRUE
  /\ work' = "settle"
  /\ UNCHANGED <<vars, state, stopAsked, finished, lock, feeding, failed, asks, blocked,
                 stopJob>>

FailureFirst == IF failed THEN "Failed" ELSE IF stopped THEN "Stopped" ELSE "Completed"
JobOutcome == IF stopped THEN "Stopped" ELSE IF failed THEN "Failed" ELSE "Completed"

SetJobState ==
  /\ work = "settle"
  /\ state' = JobOutcome
  /\ work' = "signal"
  /\ UNCHANGED <<vars, released, stopAsked, finished, lock, stopped, feeding, failed,
                 asks, blocked, stopJob>>

SetFinished ==
  /\ work = "signal"
  /\ finished' = TRUE
  /\ work' = "gone"
  /\ UNCHANGED <<vars, state, released, stopAsked, lock, stopped, feeding, failed, asks,
                 blocked, stopJob>>

-----------------------------------------------------------------------------
(* RustJob.StopJob.  Stop-Job passes over a job that has ended. *)

Refused == maker = "over" /\ state = "NotStarted"

StopJob(s) ==
  /\ stopJob[s] = "out"
  /\ maker # "new" /\ ~Refused
  /\ state \notin Final
  /\ stopJob' = [stopJob EXCEPT ![s] = "lock"]
  /\ UNCHANGED <<vars, ending, feeding, working>>

AskQuietly(s) == UNCHANGED vars
Ask(s) == Stop(s)

StopLocked(s) ==
  /\ stopJob[s] = "lock" /\ lock = Empty
  /\ IF released \/ stopAsked
       THEN /\ stopJob' = [stopJob EXCEPT ![s] = "wait"]
            /\ UNCHANGED <<vars, stopAsked, lock>>
       ELSE /\ stopJob' = [stopJob EXCEPT ![s] = "stop"]
            /\ stopAsked' = TRUE
            /\ lock' = s
            /\ Ask(s)
  /\ UNCHANGED <<state, released, finished, stopped, feeding, working>>

StopCallback(s) ==
  /\ StopperStep(s)
  /\ UNCHANGED <<ending, feeding, working, stopJob>>

StopUnlocks(s) ==
  /\ stopJob[s] = "stop" /\ stopper[s] = Idle
  /\ lock' = Empty
  /\ stopJob' = [stopJob EXCEPT ![s] = "wait"]
  /\ UNCHANGED <<vars, state, released, stopAsked, finished, stopped, feeding, working>>

StopReturns(s) ==
  /\ stopJob[s] = "wait" /\ finished
  /\ stopJob' = [stopJob EXCEPT ![s] = "returned"]
  /\ UNCHANGED <<vars, ending, feeding, working>>

-----------------------------------------------------------------------------

MakerStep == Begin \/ Spawn \/ CloseInput

WorkStep ==
  \/ JobOnStop \/ JobUnregister \/ JobWake \/ PhaseEnds \/ Poll \/ Receive \/ LastPoll
  \/ FinishLocked \/ SetJobState \/ SetFinished

StopStep(s) ==
  StopLocked(s) \/ StopCallback(s) \/ StopUnlocks(s) \/ StopReturns(s)

JobNext ==
  \/ JobNew \/ MakerStep \/ Send
  \/ JobBlock \/ JobDone \/ WorkStep
  \/ \E s \in Stoppers : StopJob(s) \/ StopStep(s)

JobSpec == JobInit /\ [][JobNext]_<<vars, jobVars>>

\* The threads run, a phase that is not blocked returns, its guards dropped,
\* and a waker returns.  Blocked work is not promised the event of its own it
\* waits for.
JobFairness ==
  /\ WF_<<vars, jobVars>>(MakerStep)
  /\ WF_<<vars, jobVars>>(WorkStep)
  /\ \A s \in Stoppers : WF_<<vars, jobVars>>(StopStep(s))

-----------------------------------------------------------------------------
(* Properties *)

JobTypeOK ==
  /\ TypeOK
  /\ state \in {"NotStarted", "Running"} \cup Final
  /\ {released, stopAsked, finished, stopped, sender, failed, asks} \subseteq BOOLEAN
  /\ lock \in Stoppers \cup {Empty}
  /\ maker \in {"new", "registered", "begun", "feeding", "over"}
  /\ {sent, queue} \subseteq 0 .. MaxRecords
  /\ work \in Phases \cup {"none", "poll", "receive", "ending", "finish",
                           "settle", "signal", "gone"}
  /\ blocked \in Wakers \cup {Empty}
  /\ stopJob \in [Stoppers -> {"out", "lock", "stop", "wait", "returned"}]

\* The job ends Stopped exactly when a stop was asked for, whatever the work
\* returned (job.rs:195-197), and nothing asks after it has ended.
StoppedWhenAsked == state \in Final => (state = "Stopped" <=> stopAsked)

\* The stop callback runs, its waker included, only on a context that has not
\* been released (Jobs.cs:21-22).
StopOnLiveContext ==
  \A s \in Stoppers : stopper[s] # Idle => ~released

\* end_job runs once the input has ended and every record sent has had its
\* process_job (job.rs:212-216).
EndAfterRecords == work = "end" => queue = 0 /\ ~sender

\* Every StopJob returns, even when the work is blocked on something only its
\* waker ends (Jobs.cs:139).  Work that blocks without asking stopping() is
\* not woken once a guard's drop has freed its waker (stop.rs:75).
StopsEnd ==
  \A s \in Stoppers :
    stopJob[s] = "lock" ~> stopJob[s] = "returned" \/ (strayed /\ ~asks)
=============================================================================
