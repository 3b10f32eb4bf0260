--------------------------- MODULE CmdletRunProofs ---------------------------
(***************************************************************************)
(* StopWaker's safety for any number of stopping threads and of wakers,    *)
(* alone and in a cmdlet's run, and the run's own.  What a waker owes is   *)
(* settled in two places: a live guard's waker is in the slot or has run   *)
(* (Owed), and once a stop has nothing left to take the slot holds nothing *)
(* but what the owner itself is about to take (Settled).  The run adds one *)
(* step to the slot's, the release that frees what it holds, and takes it  *)
(* where no registration is under way and no stop is (PhaseOver, OnLive).  *)
(***************************************************************************)
EXTENDS CmdletRun, TLAPS

\* The owner's registration is a waker that has no guard yet, and until the
\* owner has taken the slot, the slot holds it or nothing.
Registering ==
  /\ owner.pc # "user" => owner.waker \in Wakers \ guards
  /\ owner.pc \in {"check", "take"} => slot \in {Empty, owner.waker}
  /\ owner.pc = "run" => slot = Empty

\* A waker with a guard, or on its way to one, is in the slot or has run.
Owed ==
  ~strayed => /\ \A w \in guards : slot = w \/ runs[w] = 1
              /\ owner.pc # "user" => slot = owner.waker \/ runs[owner.waker] = 1

\* Once no stop is still to take it, only the owner's own registration is in
\* the slot.
Settled ==
  stopping /\ (\A s \in Stoppers : stopper[s].pc # "take") =>
    slot = Empty \/ owner.pc \in {"check", "take"}

IInv == TypeOK /\ RunsOnce /\ Registering /\ Owed /\ Settled

USE StopWakerAssumption

\* The initial states are in the invariant.
LEMMA InitInv == Init => IInv
<1> SUFFICES ASSUME Init PROVE IInv
  OBVIOUS
<1>1. TypeOK
  <2>1. stopper \in [Stoppers -> [pc : {"idle", "store", "take"}, waker : {Empty}]
                                \cup [pc : {"run"}, waker : Wakers]]
    BY DEF Init, Idle
  <2>2. runs \in [Wakers -> Nat] /\ freed \in [Wakers -> Nat]
    BY DEF Init
  <2> QED
    BY <2>1, <2>2 DEF Init, TypeOK, InUser
<1>2. RunsOnce
  BY DEF Init, RunsOnce
<1> QED
  BY <1>1, <1>2 DEF Init, IInv, Registering, Owed, Settled, InUser

\* Every step keeps the invariant.
LEMMA StepInv == IInv /\ [Next]_vars => IInv'
<1> SUFFICES ASSUME IInv, [Next]_vars PROVE IInv'
  OBVIOUS
<1> USE DEF IInv, TypeOK, RunsOnce, Registering, Owed, Settled
<1>1. ASSUME NEW w \in Wakers, Register(w) PROVE IInv'
  <2> USE <1>1 DEF Register
  <2>1. /\ w # slot /\ w \notin guards /\ freed[w] = 0
        /\ owner.pc = "user" /\ UNCHANGED <<stopping, runs, guards, stopper, strayed>>
    BY DEF Fresh
  <2>2. CASE slot = Empty
    <3>1. slot' = w /\ owner' = [pc |-> "check", waker |-> w] /\ freed' = freed
      BY <2>2
    <3> QED
      BY <2>1, <3>1
  <2>3. CASE slot # Empty
    <3>1. freed' = [freed EXCEPT ![w] = @ + 1] /\ UNCHANGED <<slot, owner>>
      BY <2>3
    <3> QED
      BY <2>1, <3>1
  <2> QED
    BY <2>2, <2>3
<1>2. ASSUME NEW w \in Wakers, DropGuard(w) PROVE IInv'
  <2> USE <1>2 DEF DropGuard, Swap
  <2>1. /\ w \in guards /\ guards' = guards \ {w} /\ slot' = Empty
        /\ strayed' = (strayed \/ slot \notin {w, Empty})
        /\ UNCHANGED <<stopping, runs, owner, stopper>>
    OBVIOUS
  <2>2. TypeOK' /\ RunsOnce'
    <3>1. CASE slot = Empty
      BY <2>1, <3>1
    <3>2. CASE slot # Empty
      <4>1. slot \in Wakers /\ freed' = [freed EXCEPT ![slot] = @ + 1] /\ freed[slot] = 0
        BY <3>2
      <4> QED
        BY <2>1, <4>1
    <3> QED
      BY <3>1, <3>2
  <2>3. Registering' /\ Settled'
    BY <2>1
  <2>4. Owed'
    BY <2>1
  <2> QED
    BY <2>2, <2>3, <2>4
<1>3. CASE ReadStopping
  BY <1>3 DEF ReadStopping, ReadFlag, GuardReturned, InUser
<1>4. CASE TakeOwn
  BY <1>4 DEF TakeOwn, Swap, Runs, GuardReturned, InUser
<1>5. CASE RunOwn
  BY <1>5 DEF RunOwn, GuardReturned, InUser
<1>6. ASSUME NEW s \in Stoppers, Stop(s) PROVE IInv'
  BY <1>6 DEF Stop
<1>7. ASSUME NEW s \in Stoppers, Store(s) PROVE IInv'
  BY <1>7 DEF Store
<1>8. ASSUME NEW s \in Stoppers, TakeForStop(s) PROVE IInv'
  BY <1>8 DEF TakeForStop, Swap, RunTaken, Runs, Idle
<1>9. ASSUME NEW s \in Stoppers, RunForStop(s) PROVE IInv'
  BY <1>9 DEF RunForStop, Idle
<1>10. CASE UNCHANGED vars
  BY <1>10 DEF vars
<1> QED
  BY <1>1, <1>2, <1>3, <1>4, <1>5, <1>6, <1>7, <1>8, <1>9, <1>10
     DEF Next, OwnerStep, StopperStep

\* The inductive invariant holds of every behaviour of the slot.
THEOREM Invariance == Spec => []IInv
  BY InitInv, StepInv, PTL DEF Spec

\* A waker runs at most once and is freed at most once (stop.rs:5-7).
THEOREM OneRun == Spec => []RunsOnce
<1>1. IInv => RunsOnce
  BY DEF IInv
<1> QED
  BY <1>1, Invariance, PTL

\* A waker registered as the stop arrives is run by one side or the other
\* (stop.rs:8-10).
THEOREM GuardsWoken == Spec => []EveryGuardWoken
<1>1. IInv => EveryGuardWoken
  BY DEF IInv, TypeOK, Registering, Owed, Settled, EveryGuardWoken
<1> QED
  BY <1>1, Invariance, PTL

-----------------------------------------------------------------------------
(* A cmdlet's run *)

\* Outside a phase's body no guard is alive and nothing is being registered.
PhaseOver == at \notin {"body", "blocked"} => guards = {} /\ owner = InUser

\* What the pointer leads to is live, and so is what a stop has found.
OnLive == /\ pointer => instance = "live"
          /\ \A s \in Stoppers : stopper[s] # Idle => instance = "live"

RunInv == IInv /\ PhaseOver /\ OnLive

\* The run's first state is in the invariant.
LEMMA RunInitInv == RunInit => RunInv
  BY InitInv DEF RunInit, Init, RunInv, PhaseOver, OnLive

\* A step of the slot's that is not a new stop leaves no more stops under way.
LEMMA NoNewStop ==
  ASSUME IInv,
         OwnerStep \/ (\E w \in Wakers : Register(w) \/ DropGuard(w))
           \/ (\E s \in Stoppers : StopperStep(s))
  PROVE  \A s \in Stoppers : stopper[s] = Idle => stopper'[s] = Idle
<1> USE DEF IInv, TypeOK
<1>1. CASE OwnerStep
  BY <1>1 DEF OwnerStep, ReadStopping, TakeOwn, RunOwn
<1>2. ASSUME NEW w \in Wakers, Register(w) \/ DropGuard(w) PROVE stopper' = stopper
  BY <1>2 DEF Register, DropGuard
<1>3. ASSUME NEW t \in Stoppers, StopperStep(t)
      PROVE  /\ stopper[t] # Idle
             /\ \A s \in Stoppers : s # t => stopper'[s] = stopper[s]
  BY <1>3 DEF StopperStep, Store, TakeForStop, RunTaken, RunForStop, Idle
<1> QED
  BY <1>1, <1>2, <1>3

\* The release keeps what the slot owes: it comes between the phases or after
\* them, when no guard is alive.
LEMMA ReleaseKeeps ==
  ASSUME IInv, PhaseOver, MayDispose, ReleaseInstance
  PROVE  IInv'
<1> USE DEF IInv, TypeOK, RunsOnce, Registering, Owed, Settled
<1>1. guards = {} /\ owner = InUser
  BY DEF PhaseOver, MayDispose
<1>2. slot' = Empty /\ UNCHANGED <<stopping, runs, guards, owner, stopper, strayed>>
  BY DEF ReleaseInstance
<1>3. /\ freed' \in [Wakers -> Nat]
      /\ \A w \in Wakers : freed'[w] = IF w = slot THEN 1 ELSE freed[w]
  <2>1. CASE slot = Empty
    BY <2>1 DEF ReleaseInstance
  <2>2. CASE slot # Empty
    BY <2>2 DEF ReleaseInstance
  <2> QED
    BY <2>1, <2>2
<1>4. TypeOK' /\ RunsOnce'
  BY <1>2, <1>3
<1> QED
  BY <1>1, <1>2, <1>4 DEF InUser

\* Every step of a run keeps the invariant.
LEMMA RunStepInv == RunInv /\ [RunNext]_allVars => RunInv'
<1> SUFFICES ASSUME RunInv, [RunNext]_allVars PROVE RunInv'
  OBVIOUS
<1> USE DEF RunInv, PhaseOver, OnLive
<1>1. CASE Create \/ EnterPhase \/ Write \/ Block \/ Wake \/ Return \/ Done
  <2>1. UNCHANGED vars
    BY <1>1 DEF Create, EnterPhase, Write, Block, Wake, Return, Done, Unblock
  <2>2. IInv'
    BY <2>1, StepInv
  <2>3. PhaseOver'
    BY <1>1, <2>1 DEF Create, EnterPhase, Write, Block, Wake, Return, Done, Unblock, vars
  <2>4. OnLive'
    <3>1. CASE Create
      BY <3>1, <2>1 DEF Create, vars
    <3>2. CASE ~Create
      BY <3>2, <1>1, <2>1 DEF EnterPhase, Write, Block, Wake, Return, Done, Unblock, vars
    <3> QED
      BY <3>1, <3>2
  <2> QED
    BY <2>2, <2>3, <2>4
<1>2. CASE OnStop \/ Unregister
  <2>1. /\ OwnerStep \/ \E w \in Wakers : Register(w) \/ DropGuard(w)
        /\ at \in {"body", "blocked"} /\ UNCHANGED runVars
    BY <1>2 DEF OnStop, Unregister, IInv, TypeOK
  <2>2. IInv'
    BY <2>1, StepInv DEF Next
  <2>3. \A s \in Stoppers : stopper[s] = Idle => stopper'[s] = Idle
    BY <2>1, NoNewStop
  <2> QED
    BY <2>1, <2>2, <2>3 DEF runVars
<1>3. CASE Dispose
  <2>1. MayDispose /\ ReleaseInstance /\ pointer' = FALSE
    BY <1>3 DEF Dispose
  <2>2. IInv'
    BY <2>1, ReleaseKeeps
  <2>3. /\ guards' = {} /\ owner' = InUser
        /\ \A s \in Stoppers : stopper'[s] = Idle
    BY <2>1 DEF MayDispose, ReleaseInstance
  <2> QED
    BY <2>1, <2>2, <2>3
<1>4. ASSUME NEW s \in Stoppers, StopProcessing(s) PROVE RunInv'
  <2>1. UNCHANGED <<vars, at, pointer, instance>>
    BY <1>4 DEF StopProcessing
  <2>2. IInv'
    BY <2>1, StepInv
  <2> QED
    BY <2>1, <2>2 DEF vars
<1>5. ASSUME NEW s \in Stoppers, ReadInstance(s) PROVE RunInv'
  <2>1. UNCHANGED <<at, pointer, instance>> /\ ((pointer /\ Stop(s)) \/ UNCHANGED vars)
    BY <1>5 DEF ReadInstance
  <2>2. IInv'
    BY <2>1, StepInv DEF Next
  <2>3. CASE pointer /\ Stop(s)
    BY <2>1, <2>2, <2>3 DEF Stop
  <2>4. CASE UNCHANGED vars
    BY <2>1, <2>2, <2>4 DEF vars
  <2> QED
    BY <2>1, <2>3, <2>4
<1>6. ASSUME NEW s \in Stoppers, CmdletStop(s) PROVE RunInv'
  <2>1. StopperStep(s) /\ UNCHANGED runVars
    BY <1>6 DEF CmdletStop
  <2>2. IInv'
    BY <2>1, StepInv DEF Next
  <2>3. \A t \in Stoppers : stopper[t] = Idle => stopper'[t] = Idle
    BY <2>1, NoNewStop
  <2>4. guards' = guards /\ owner' = owner
    BY <2>1 DEF StopperStep, Store, TakeForStop, RunForStop
  <2> QED
    BY <2>1, <2>2, <2>3, <2>4 DEF runVars
<1>7. CASE UNCHANGED allVars
  <2>1. UNCHANGED vars /\ UNCHANGED runVars
    BY <1>7 DEF allVars
  <2>2. IInv'
    BY <2>1, StepInv
  <2> QED
    BY <2>1, <2>2 DEF vars, runVars
<1> QED
  BY <1>1, <1>2, <1>3, <1>4, <1>5, <1>6, <1>7 DEF RunNext, PipelineStep

\* The inductive invariant holds of every run of a cmdlet.
THEOREM RunInvariance == RunSpec => []RunInv
  BY RunInitInv, RunStepInv, PTL DEF RunSpec

\* In a run too a waker runs once at most and is freed once at most, by its
\* run, a guard's drop or the instance's release (stop.rs:5-7).
THEOREM RunOneRun == RunSpec => []RunsOnce
<1>1. RunInv => RunsOnce
  BY DEF RunInv, IInv
<1> QED
  BY <1>1, RunInvariance, PTL

\* In a run too a live guard's waker has run once the stops have taken what
\* the slot held (stop.rs:8-10).
THEOREM RunGuardsWoken == RunSpec => []EveryGuardWoken
<1>1. RunInv => EveryGuardWoken
  BY DEF RunInv, IInv, TypeOK, Registering, Owed, Settled, EveryGuardWoken
<1> QED
  BY <1>1, RunInvariance, PTL

\* A stop runs on a live instance or on none, whenever the engine disposes the
\* cmdlet (runtime.rs:578-584).
THEOREM StopsOnLive == RunSpec => []StopOnLiveInstance
<1>1. RunInv => StopOnLiveInstance
  BY DEF RunInv, OnLive, StopOnLiveInstance
<1> QED
  BY <1>1, RunInvariance, PTL
=============================================================================
