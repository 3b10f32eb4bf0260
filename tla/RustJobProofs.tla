---------------------------- MODULE RustJobProofs ----------------------------
(***************************************************************************)
(* RustJob for any number of Stop-Job callers, wakers and records: the     *)
(* job's use of its waker implements StopWaker, so what is proved of the   *)
(* slot holds of it, and the job ends as it was asked to, on a context     *)
(* that no stop still uses.                                                *)
(***************************************************************************)
EXTENDS RustJob, CmdletRunProofs

USE RustJobAssumption

allJobVars == <<vars, jobVars>>

-----------------------------------------------------------------------------
(* The waker *)

\* Every step of the job is a step of the waker's slot or leaves it alone.
LEMMA WakerStep == [JobNext]_allJobVars => [Next]_vars
<1> SUFFICES ASSUME [JobNext]_allJobVars PROVE Next \/ UNCHANGED vars
  OBVIOUS
<1>1. CASE UNCHANGED allJobVars
  BY <1>1 DEF allJobVars
<1>2. CASE JobNew \/ MakerStep \/ Send
  BY <1>2 DEF JobNew, MakerStep, Begin, Spawn, CloseInput, Send
<1>3. CASE JobBlock \/ JobDone
  BY <1>3 DEF JobBlock, JobDone, JobUnblock
<1>4. CASE WorkStep
  <2>1. CASE JobOnStop \/ JobUnregister
    <3>1. \/ OwnerStep
          \/ \E w \in Wakers : Register(w) \/ DropGuard(w)
      BY <2>1 DEF JobOnStop, JobUnregister
    <3> QED
      BY <3>1 DEF Next
  <2>2. CASE ~(JobOnStop \/ JobUnregister)
    BY <1>4, <2>2 DEF WorkStep, JobWake, JobUnblock, PhaseEnds, Poll, Receive, LastPoll,
                      FinishLocked, SetJobState, SetFinished
  <2> QED
    BY <2>1, <2>2
<1>5. ASSUME NEW s \in Stoppers, StopJob(s) \/ StopStep(s) PROVE Next \/ UNCHANGED vars
  BY <1>5 DEF StopJob, StopStep, StopLocked, StopCallback, StopUnlocks, StopReturns, Ask, Next
<1> QED
  BY <1>1, <1>2, <1>3, <1>4, <1>5 DEF JobNext

\* A job's waker behaves as stop.rs's slot does, whatever the job goes through
\* around it (job.rs:138-144, 364-369).
THEOREM WakerRefinement == JobSpec => Spec
<1>1. JobInit => Init
  BY DEF JobInit
<1>2. [JobNext]_<<vars, jobVars>> => [Next]_vars
  BY WakerStep DEF allJobVars
<1> QED
  BY <1>1, <1>2, PTL DEF JobSpec, Spec

\* What a job's work and its stoppers do to a waker runs and frees it at most
\* once, and wakes every live guard, as long as no guard's drop took a later
\* registration's waker (stop.rs:5-10).
THEOREM JobWakers == JobSpec => [](TypeOK /\ RunsOnce /\ EveryGuardWoken)
<1>1. Spec => [](TypeOK /\ RunsOnce)
  <2>1. IInv => TypeOK /\ RunsOnce
    BY DEF IInv
  <2> QED
    BY <2>1, Invariance, PTL
<1> QED
  BY <1>1, WakerRefinement, GuardsWoken, PTL

-----------------------------------------------------------------------------
(* The job *)

\* The order of the job's end: it is released before it is settled, settled
\* as what it read says, and only then final.
Ending ==
  /\ maker \in {"new", "registered", "begun"} => work = "none" /\ state \notin Final
  /\ work \in {"settle", "signal", "gone"} => released /\ stopped = stopAsked
  /\ state \in Final => /\ work \in {"signal", "gone"}
                        /\ state = "Stopped" <=> stopped

\* A stopper that uses the context holds the lock, and nobody holds it once
\* the context is released.
Holding ==
  /\ \A s \in Stoppers : /\ stopper[s] # Idle => stopJob[s] = "stop"
                         /\ stopJob[s] = "stop" => lock = s
  /\ lock # Empty => ~released

\* The records of the channel are among those sent, and the end of the input
\* is read only of an empty channel that is closed.
Draining ==
  /\ queue <= sent
  /\ work \in {"ending", "end"} => queue = 0 /\ ~sender

JobInv == JobTypeOK /\ Ending /\ Holding /\ Draining

\* The initial states are in the invariant.
LEMMA JobInitInv == JobInit /\ TypeOK => JobInv
<1> SUFFICES ASSUME JobInit, TypeOK PROVE JobInv
  OBVIOUS
<1>1. JobTypeOK
  <2>1. {sent, queue} \subseteq 0 .. MaxRecords
    BY DEF JobInit
  <2>2. stopJob \in [Stoppers -> {"out", "lock", "stop", "wait", "returned"}]
    BY DEF JobInit
  <2> QED
    BY <2>1, <2>2 DEF JobInit, JobTypeOK, Phases
<1>2. Ending /\ Draining
  BY DEF JobInit, Ending, Draining, Final
<1>3. Holding
  BY DEF JobInit, Holding, Init
<1> QED
  BY <1>1, <1>2, <1>3 DEF JobInv

\* The steps of the cmdlet's thread keep the invariant.
LEMMA MakerInv ==
  JobInv /\ TypeOK' /\ (JobNew \/ MakerStep \/ Send) => JobInv'
<1> USE DEF JobInv, JobTypeOK, Ending, Holding, Draining, jobVars, working, vars, ending, Final, Phases
<1>1. ASSUME JobInv, TypeOK', JobNew PROVE JobInv'
  BY <1>1 DEF JobNew
<1>2. ASSUME JobInv, TypeOK', Begin PROVE JobInv'
  BY <1>2 DEF Begin
<1>3. ASSUME JobInv, TypeOK', Spawn PROVE JobInv'
  BY <1>3 DEF Spawn
<1>4. ASSUME JobInv, TypeOK', CloseInput PROVE JobInv'
  BY <1>4 DEF CloseInput
<1>5. ASSUME JobInv, TypeOK', Send PROVE JobInv'
  <2> USE <1>5 DEF Send, Deaf
  <2>1. CASE Deaf
    BY <2>1
  <2>2. CASE ~Deaf
    <3>1. sent' = sent + 1 /\ queue' = queue + 1 /\ sent < MaxRecords /\ queue <= sent
      BY <2>2
    <3>2. sent \in 0 .. MaxRecords /\ queue \in 0 .. MaxRecords
      OBVIOUS
    <3>3. {sent', queue'} \subseteq 0 .. MaxRecords /\ queue' <= sent'
      BY <3>1, <3>2
    <3>4. sender /\ UNCHANGED <<vars, ending, maker, sender, work, failed, asks, blocked, stopJob>>
      BY <2>2
    <3> QED
      BY <3>1, <3>3, <3>4
  <2> QED
    BY <2>1, <2>2
<1> QED
  BY <1>1, <1>2, <1>3, <1>4, <1>5 DEF MakerStep

\* A step of the slot by the job's thread disturbs no stopper's place.
LEMMA OwnerKeepsStoppers ==
  (\E w \in Wakers : Register(w) \/ DropGuard(w)) \/ OwnerStep => UNCHANGED stopper
  BY DEF Register, DropGuard, OwnerStep, ReadStopping, TakeOwn, RunOwn

\* The steps of the job's thread keep the invariant.
LEMMA WorkInv ==
  JobInv /\ TypeOK' /\ (JobBlock \/ JobDone \/ WorkStep) => JobInv'
<1> USE DEF JobInv, JobTypeOK, Ending, Holding, Draining, jobVars, working, vars, ending, feeding, Final, Phases
<1>1. ASSUME JobInv, TypeOK', JobOnStop \/ JobUnregister PROVE JobInv'
  <2>1. UNCHANGED stopper
    BY <1>1, OwnerKeepsStoppers DEF JobOnStop, JobUnregister
  <2>2. UNCHANGED <<ending, feeding, work, failed, asks, blocked, stopJob>>
    BY <1>1 DEF JobOnStop, JobUnregister, jobVars, working
  <2> QED
    BY <1>1, <2>1, <2>2
<1>2. ASSUME JobInv, TypeOK', JobBlock PROVE JobInv'
  BY <1>2 DEF JobBlock, TypeOK
<1>3. ASSUME JobInv, TypeOK', JobWake \/ JobDone PROVE JobInv'
  BY <1>3 DEF JobWake, JobDone, JobUnblock
<1>4. ASSUME JobInv, TypeOK', PhaseEnds PROVE JobInv'
  BY <1>4 DEF PhaseEnds, InPhase
<1>5. ASSUME JobInv, TypeOK', Poll PROVE JobInv'
  BY <1>5 DEF Poll
<1>6. ASSUME JobInv, TypeOK', Receive PROVE JobInv'
  BY <1>6 DEF Receive, InputOver, Pending
<1>7. ASSUME JobInv, TypeOK', LastPoll PROVE JobInv'
  BY <1>7 DEF LastPoll
<1>8. ASSUME JobInv, TypeOK', FinishLocked PROVE JobInv'
  BY <1>8 DEF FinishLocked, LockFree
<1>9. ASSUME JobInv, TypeOK', SetJobState PROVE JobInv'
  BY <1>9 DEF SetJobState, JobOutcome
<1>10. ASSUME JobInv, TypeOK', SetFinished PROVE JobInv'
  BY <1>10 DEF SetFinished
<1> QED
  BY <1>1, <1>2, <1>3, <1>4, <1>5, <1>6, <1>7, <1>8, <1>9, <1>10 DEF WorkStep

\* A stopper's step of the slot moves no other stopper, and one that is idle
\* has none.
LEMMA StopperMoves ==
  ASSUME NEW s \in Stoppers, TypeOK, Stop(s) \/ StopperStep(s)
  PROVE  /\ \A r \in Stoppers : r # s => stopper'[r] = stopper[r]
         /\ StopperStep(s) => stopper[s] # Idle
  BY DEF Stop, StopperStep, Store, TakeForStop, RunForStop, RunTaken, Idle,
         TypeOK

\* The steps of a StopJob keep the invariant.
LEMMA StopInv ==
  ASSUME NEW s \in Stoppers
  PROVE  JobInv /\ TypeOK' /\ (StopJob(s) \/ StopStep(s)) => JobInv'
<1> USE DEF JobInv, JobTypeOK, Ending, Holding, Draining, jobVars, working, vars, ending, feeding, Final, Phases
<1>1. ASSUME JobInv, TypeOK', StopJob(s) PROVE JobInv'
  BY <1>1 DEF StopJob
<1>2. ASSUME JobInv, TypeOK', StopLocked(s) PROVE JobInv'
  <2> USE <1>2
  <2>0. /\ stopJob[s] = "lock" /\ lock = Empty
        /\ UNCHANGED <<state, released, finished, stopped, feeding, work, failed, asks, blocked>>
    BY DEF StopLocked
  <2>1. CASE released \/ stopAsked
    <3>1. /\ stopJob' = [stopJob EXCEPT ![s] = "wait"]
          /\ UNCHANGED <<vars, stopAsked, lock>>
      BY <2>1 DEF StopLocked
    <3> QED
      BY <2>0, <3>1
  <2>2. CASE ~(released \/ stopAsked)
    <3>1. /\ stopJob' = [stopJob EXCEPT ![s] = "stop"]
          /\ stopAsked' = TRUE /\ lock' = s /\ Stop(s)
      BY <2>2 DEF StopLocked, Ask
    <3>2. JobTypeOK'
      BY <2>0, <3>1
    <3>3. Ending' /\ Draining'
      BY <2>0, <2>2, <3>1
    <3>4. \A r \in Stoppers : r # s => stopper'[r] = stopper[r]
      BY <3>1, StopperMoves
    <3>5. Holding'
      BY <2>0, <2>2, <3>1, <3>4
    <3> QED
      BY <3>2, <3>3, <3>5
  <2> QED
    BY <2>1, <2>2
<1>3. ASSUME JobInv, TypeOK', StopCallback(s) PROVE JobInv'
  BY <1>3, StopperMoves DEF StopCallback
<1>4. ASSUME JobInv, TypeOK', StopUnlocks(s) PROVE JobInv'
  BY <1>4 DEF StopUnlocks
<1>5. ASSUME JobInv, TypeOK', StopReturns(s) PROVE JobInv'
  BY <1>5 DEF StopReturns
<1> QED
  BY <1>1, <1>2, <1>3, <1>4, <1>5 DEF StopStep

\* The inductive invariant holds of every job.
THEOREM JobInvariance == JobSpec => []JobInv
<1>1. JobInit /\ TypeOK => JobInv
  BY JobInitInv
<1>2. JobInv /\ TypeOK' /\ [JobNext]_allJobVars => JobInv'
  <2>1. JobInv /\ UNCHANGED allJobVars => JobInv'
    BY DEF JobInv, JobTypeOK, Ending, Holding, Draining, vars, jobVars, working, ending, feeding, allJobVars,
           TypeOK
  <2> QED
    BY <2>1, MakerInv, WorkInv, StopInv DEF JobNext
<1>3. JobSpec => []TypeOK
  BY JobWakers, PTL
<1> QED
  BY <1>1, <1>2, <1>3, PTL DEF JobSpec, allJobVars

\* The job ends Stopped exactly when a stop was asked for (job.rs:195-197).
THEOREM Stopping == JobSpec => []StoppedWhenAsked
<1>1. JobInv => StoppedWhenAsked
  BY DEF JobInv, Ending, StoppedWhenAsked
<1> QED
  BY <1>1, JobInvariance, PTL

\* The stop callback runs only on a context that is not released
\* (Jobs.cs:21-22).
THEOREM LiveContext == JobSpec => []StopOnLiveContext
<1>1. JobInv => StopOnLiveContext
  BY DEF JobInv, Holding, StopOnLiveContext
<1> QED
  BY <1>1, JobInvariance, PTL

\* end_job runs once every record sent has had its process_job
\* (job.rs:212-216).
THEOREM EndIsLast == JobSpec => []EndAfterRecords
<1>1. JobInv => EndAfterRecords
  BY DEF JobInv, Draining, EndAfterRecords
<1> QED
  BY <1>1, JobInvariance, PTL
=============================================================================
