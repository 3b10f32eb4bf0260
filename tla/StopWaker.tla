----------------------------- MODULE StopWaker ------------------------------
(***************************************************************************)
(* The slot a stop's waker is registered in (crates/pwrs/src/stop.rs).     *)
(* One thread, the owner, runs the cmdlet's phase or the job's work and    *)
(* registers wakers; other threads stop it.  Every step is one access to   *)
(* the flag or the slot, all sequentially consistent, or a waker's run.    *)
(***************************************************************************)
EXTENDS Naturals

CONSTANTS
  Stoppers,    \* threads that may stop the owner
  Wakers,      \* the closures the owner registers, each once
  Empty        \* an empty slot

ASSUME StopWakerAssumption == Empty \notin Wakers

VARIABLES
  stopping,  \* the flag
  slot,      \* StopWakerSlot: a waker or Empty
  runs,      \* times each waker has been run
  freed,     \* times each waker has been freed, by its run or by a drop
  guards,    \* the wakers whose StopWaker guard is alive
  owner,     \* where the owner is in on_stop, and the waker it has there
  stopper,   \* where each stopper is in stop, and the waker it took
  strayed    \* history: a guard's drop freed a waker that was not its own

vars == <<stopping, slot, runs, freed, guards, owner, stopper, strayed>>

InUser == [pc |-> "user", waker |-> Empty]
Idle == [pc |-> "idle", waker |-> Empty]

Init ==
  /\ stopping = FALSE
  /\ slot = Empty
  /\ runs = [w \in Wakers |-> 0]
  /\ freed = [w \in Wakers |-> 0]
  /\ guards = {}
  /\ owner = InUser
  /\ stopper = [s \in Stoppers |-> Idle]
  /\ strayed = FALSE

\* The closures the owner has not offered yet.
Fresh == {w \in Wakers : freed[w] = 0 /\ w # slot /\ w \notin guards
                         /\ owner.waker # w /\ \A s \in Stoppers : stopper[s].waker # w}

\* take: the swap leaves the slot empty and gives the caller what it held.
TakeAndLeave == UNCHANGED slot
Swap == slot' = Empty

\* A waker is a FnOnce: its run frees it.
Runs(w) == /\ runs' = [runs EXCEPT ![w] = @ + 1]
           /\ freed' = [freed EXCEPT ![w] = @ + 1]

-----------------------------------------------------------------------------
(* on_stop, and the guard it returns *)

\* register's compare-exchange; a refused waker is freed and on_stop fails.
Register(w) ==
  /\ owner.pc = "user"
  /\ w \in Fresh
  /\ IF slot = Empty
       THEN /\ slot' = w
            /\ owner' = [pc |-> "check", waker |-> w]
            /\ UNCHANGED freed
       ELSE freed' = [freed EXCEPT ![w] = @ + 1] /\ UNCHANGED <<slot, owner>>
  /\ UNCHANGED <<stopping, runs, guards, stopper, strayed>>

GuardReturned == owner' = InUser /\ guards' = guards \cup {owner.waker}

ReadNothing == GuardReturned
ReadFlag ==
  IF stopping THEN owner' = [owner EXCEPT !.pc = "take"] /\ UNCHANGED guards
              ELSE GuardReturned

ReadStopping ==
  /\ owner.pc = "check"
  /\ ReadFlag
  /\ UNCHANGED <<stopping, slot, runs, freed, stopper, strayed>>

\* Whatever the slot holds, the owner runs.
TakeOwn ==
  /\ owner.pc = "take"
  /\ Swap
  /\ IF slot = Empty THEN GuardReturned /\ UNCHANGED <<runs, freed>>
       ELSE owner' = [owner EXCEPT !.pc = "run"] /\ Runs(slot) /\ UNCHANGED guards
  /\ UNCHANGED <<stopping, stopper, strayed>>

RunOwn ==
  /\ owner.pc = "run"
  /\ GuardReturned
  /\ UNCHANGED <<stopping, slot, runs, freed, stopper, strayed>>

\* The drop of a guard frees whatever waker the slot holds.  A guard is Send:
\* it may drop on another thread, while the owner registers the next waker.
DropGuard(w) ==
  /\ w \in guards
  /\ guards' = guards \ {w}
  /\ Swap
  /\ freed' = IF slot = Empty THEN freed ELSE [freed EXCEPT ![slot] = @ + 1]
  /\ strayed' = (strayed \/ slot \notin {w, Empty})
  /\ UNCHANGED <<stopping, runs, owner, stopper>>

-----------------------------------------------------------------------------
(* stop *)

Stop(s) ==
  /\ stopper[s].pc = "idle"
  /\ stopper' = [stopper EXCEPT ![s].pc = "store"]
  /\ UNCHANGED <<stopping, slot, runs, freed, guards, owner, strayed>>

Store(s) ==
  /\ stopper[s].pc = "store"
  /\ stopping' = TRUE
  /\ stopper' = [stopper EXCEPT ![s].pc = "take"]
  /\ UNCHANGED <<slot, runs, freed, guards, owner, strayed>>

DropTaken(s) ==
  /\ stopper' = [stopper EXCEPT ![s] = Idle]
  /\ freed' = IF slot = Empty THEN freed ELSE [freed EXCEPT ![slot] = @ + 1]
  /\ UNCHANGED runs

RunTaken(s) ==
  IF slot = Empty
    THEN stopper' = [stopper EXCEPT ![s] = Idle] /\ UNCHANGED <<runs, freed>>
    ELSE stopper' = [stopper EXCEPT ![s] = [pc |-> "run", waker |-> slot]] /\ Runs(slot)

TakeForStop(s) ==
  /\ stopper[s].pc = "take"
  /\ Swap
  /\ RunTaken(s)
  /\ UNCHANGED <<stopping, guards, owner, strayed>>

RunForStop(s) ==
  /\ stopper[s].pc = "run"
  /\ stopper' = [stopper EXCEPT ![s] = Idle]
  /\ UNCHANGED <<stopping, slot, runs, freed, guards, owner, strayed>>

-----------------------------------------------------------------------------

OwnerStep == ReadStopping \/ TakeOwn \/ RunOwn
StopperStep(s) == Store(s) \/ TakeForStop(s) \/ RunForStop(s)

Next ==
  \/ \E w \in Wakers : Register(w) \/ DropGuard(w)
  \/ OwnerStep
  \/ \E s \in Stoppers : Stop(s) \/ StopperStep(s)

Spec == Init /\ [][Next]_vars

-----------------------------------------------------------------------------
(* Properties *)

TypeOK ==
  /\ stopping \in BOOLEAN
  /\ slot \in Wakers \cup {Empty}
  /\ {runs, freed} \subseteq [Wakers -> Nat]
  /\ guards \subseteq Wakers
  /\ strayed \in BOOLEAN
  /\ owner \in [pc : {"user", "check", "take", "run"}, waker : Wakers \cup {Empty}]
  /\ stopper \in [Stoppers -> [pc : {"idle", "store", "take"}, waker : {Empty}]
                              \cup [pc : {"run"}, waker : Wakers]]

\* A waker runs at most once and is freed at most once, and the slot never
\* holds one that was (stop.rs:5-7).
RunsOnce ==
  /\ \A w \in Wakers : runs[w] <= freed[w] /\ freed[w] <= 1
  /\ slot # Empty => freed[slot] = 0

\* A waker registered as the stop arrives is run by one side or the other:
\* once no stop is still to take it, the waker of every live guard has run
\* (stop.rs:8-10), as long as no guard's drop took a later registration's
\* waker (stop.rs:75).
EveryGuardWoken ==
  stopping /\ ~strayed /\ (\A s \in Stoppers : stopper[s].pc # "take") =>
    \A w \in guards : runs[w] = 1
=============================================================================
