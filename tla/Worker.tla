------------------------------- MODULE Worker -------------------------------
(***************************************************************************)
(* The parallel helpers of a pipeline (crates/pwrs/src/worker.rs):         *)
(* par_map and par_for_each over the std pool.  Threads claim items off    *)
(* one cursor and send results and other records down a channel; the       *)
(* cmdlet's thread drains it and makes every write.  A step is one access  *)
(* to the channel, the cursor, the halt flag, the pipeline's stop flag or  *)
(* a thread's end, or one write.                                           *)
(***************************************************************************)
EXTENDS Naturals, Sequences

CONSTANTS
  Threads,    \* the pool's threads
  N,          \* the items are 1..N
  StraySends  \* bound: records of a kept handle waiting at a time

\* A pool has a thread at least (NonZeroUsize, min(len)), and a call without items
\* starts none.
ASSUME WorkerAssumption == /\ Threads # {}
                           /\ N \in Nat \ {0} /\ StraySends \in Nat

VARIABLES
  order,      \* the call's Order, or "none" for par_for_each
  cursor,     \* Claim's: items claimed, and claims that found none
  halt,       \* the call's StopSignal, which is also the pool's halt
  worker,     \* each thread's place in claim_loop, and the item it has
  panicked,   \* items that panicked
  coord,      \* the coordinator: "running", "dropped" its senders, "finished"
  stray,      \* a clone of the Worker handle is kept by another thread
  chan,       \* the channel: a record is its kind and an item or a number
  rxOpen,     \* the receiver has not been dropped
  main,       \* the cmdlet thread's place
  batch,      \* drain's batch, what is left of it
  pending,    \* par_map's early results
  result,     \* drain's result
  stopping,   \* the pipeline's stop flag
  written,    \* history: results written
  late,       \* history: results written after the stop
  outcome     \* what the call returned

vars == <<order, cursor, halt, worker, panicked, coord, stray, chan, rxOpen,
          main, batch, pending, result, stopping, written, late, outcome>>
pool == <<cursor, worker, panicked, coord, stray>>
drain == <<main, batch, pending, result, written, late, outcome>>

Init ==
  /\ order \in {"ready", "input", "none"}
  /\ cursor = 0 /\ halt = FALSE /\ panicked = {}
  /\ worker = [t \in Threads |-> [pc |-> "halt", item |-> 0]]
  /\ coord = "running" /\ stray = FALSE
  /\ chan = <<>> /\ rxOpen = TRUE
  /\ main = "loop" /\ batch = <<>> /\ pending = {} /\ result = "ok"
  /\ stopping = FALSE
  /\ written = <<>> /\ late = 0
  /\ outcome = "none"

Send(record) == chan' = IF rxOpen THEN Append(chan, record) ELSE chan

-----------------------------------------------------------------------------
(* A thread of the pool *)

Goto(t, pc) == worker' = [worker EXCEPT ![t] = [pc |-> pc, item |-> 0]]

ReadHalt(t) ==
  /\ worker[t].pc = "halt"
  /\ Goto(t, IF halt THEN "done" ELSE "next")
  /\ UNCHANGED <<order, cursor, halt, panicked, coord, stray, chan, rxOpen, drain, stopping>>

\* fetch_add gives each index to one thread.
Claim(t) ==
  /\ worker[t].pc = "next"
  /\ cursor' = cursor + 1
  /\ worker' = [worker EXCEPT ![t] = IF cursor < N THEN [pc |-> "run", item |-> cursor + 1]
                                                  ELSE [pc |-> "done", item |-> 0]]
  /\ UNCHANGED <<order, halt, panicked, coord, stray, chan, rxOpen, drain, stopping>>

\* f writes to another stream through its Worker, once (a bound); Worker.send
\* drops what comes after the halt.
SendSide(t) ==
  /\ worker[t].pc = "run" /\ ~halt
  /\ \E k \in {"progress", "terminating"} : Send([kind |-> k, item |-> 0])
  /\ worker' = [worker EXCEPT ![t].pc = "sent"]
  /\ UNCHANGED <<order, cursor, halt, panicked, coord, stray, rxOpen, drain, stopping>>

\* f may clone its handle into a thread of its own.
KeepHandle(t) ==
  /\ worker[t].pc = "run" /\ ~stray
  /\ stray' = TRUE
  /\ UNCHANGED <<order, cursor, halt, worker, panicked, coord, chan, rxOpen, drain, stopping>>

\* f panics: HaltOnPanic.
Panic(t) ==
  /\ worker[t].pc \in {"run", "sent"}
  /\ panicked' = panicked \cup {worker[t].item}
  /\ halt' = TRUE
  /\ Goto(t, "done")
  /\ UNCHANGED <<order, cursor, coord, stray, chan, rxOpen, drain, stopping>>

\* f returns, and par_map's job sends its value.
Finish(t) ==
  /\ worker[t].pc \in {"run", "sent"}
  /\ IF order = "none" THEN UNCHANGED <<chan, halt>>
       ELSE /\ Send([kind |-> "output", item |-> worker[t].item])
            /\ halt' = (halt \/ ~rxOpen)
  /\ Goto(t, "halt")
  /\ UNCHANGED <<order, cursor, panicked, coord, stray, rxOpen, drain, stopping>>

\* The scope has joined every thread; the closure's senders go, then the thread.
CoordinatorEnds ==
  /\ \/ coord = "running" /\ (\A t \in Threads : worker[t].pc = "done") /\ coord' = "dropped"
     \/ coord = "dropped" /\ coord' = "finished"
  /\ UNCHANGED <<order, cursor, halt, worker, panicked, stray, chan, rxOpen, drain, stopping>>

\* A kept handle sends for as long as the call has not halted.
Waiting == SelectSeq(batch \o chan, LAMBDA record : record.kind = "text")
StraySend ==
  /\ stray /\ ~halt
  /\ Len(Waiting) < StraySends
  /\ Send([kind |-> "text", item |-> 0])
  /\ UNCHANGED <<order, cursor, halt, worker, panicked, coord, stray, rxOpen, drain, stopping>>

StrayDrop ==
  /\ stray
  /\ stray' = FALSE
  /\ UNCHANGED <<order, cursor, halt, worker, panicked, coord, chan, rxOpen, drain, stopping>>

-----------------------------------------------------------------------------
(* The cmdlet's thread: drain, write_sent, and the end of the call *)

Disconnected == coord # "running" /\ ~stray

\* What recv_timeout and try_recv take starts a batch.
First == /\ batch' = <<Head(chan)>>
         /\ chan' = Tail(chan)
         /\ main' = "collect"

RecvTimeout ==
  /\ main = "loop"
  /\ IF ~stopping /\ chan # <<>> THEN First
       ELSE /\ main' = IF stopping \/ Disconnected THEN "halt" ELSE "late"
            /\ UNCHANGED <<batch, chan>>
  /\ UNCHANGED <<order, pool, halt, rxOpen, pending, result, stopping, written, late, outcome>>

\* The wait timed out: the end of the work is read off its thread, and then
\* what it sent last is taken.
NeverFinished ==
  /\ main = "late"
  /\ main' = "loop"
  /\ UNCHANGED <<order, pool, halt, chan, rxOpen, batch, pending, result, stopping, written, late, outcome>>

TrustTimeout ==
  /\ main = "late"
  /\ main' = IF coord = "finished" THEN "halt" ELSE "loop"
  /\ UNCHANGED <<order, pool, halt, chan, rxOpen, batch, pending, result, stopping, written, late, outcome>>

ReadFinished ==
  /\ main = "late"
  /\ IF coord = "finished" /\ chan # <<>> THEN First
       ELSE main' = (IF coord = "finished" THEN "halt" ELSE "loop") /\ UNCHANGED <<batch, chan>>
  /\ UNCHANGED <<order, pool, halt, rxOpen, pending, result, stopping, written, late, outcome>>

Collect ==
  /\ main = "collect"
  /\ IF chan # <<>> /\ ~stopping
       THEN batch' = Append(batch, Head(chan)) /\ chan' = Tail(chan) /\ UNCHANGED main
       ELSE main' = "write" /\ UNCHANGED <<batch, chan>>
  /\ UNCHANGED <<order, pool, halt, rxOpen, pending, result, stopping, written, late, outcome>>

\* write_sent reads the stop before each record.
WriteSent ==
  /\ main = "write"
  /\ main' = IF batch = <<>> \/ stopping THEN "loop" ELSE "emit"
  /\ batch' = IF stopping THEN <<>> ELSE batch
  /\ UNCHANGED <<order, pool, halt, chan, rxOpen, pending, result, stopping, written, late, outcome>>

\* Whether a later progress record of the batch replaces its first record.
Replaced == \E k \in 2..Len(batch) : batch[k].kind = "progress"

\* `?`: any write may fail, and ends the drain.
Fails == main' = "halt" /\ result' = "error" /\ UNCHANGED <<batch, written, late, pending>>
Wrote(i) ==
  /\ written' = Append(written, i)
  /\ late' = IF stopping THEN late + 1 ELSE late

EmitOutput ==
  \/ /\ order = "ready" /\ Wrote(Head(batch).item)
     /\ main' = "write" /\ batch' = Tail(batch)
     /\ UNCHANGED <<pending, result>>
  \/ order = "ready" /\ Fails
  \/ /\ order = "input"
     /\ pending' = pending \cup {Head(batch).item}
     /\ main' = "flush" /\ batch' = Tail(batch)
     /\ UNCHANGED <<result, written, late>>

Emit ==
  /\ main = "emit"
  /\ CASE Head(batch).kind = "output" -> EmitOutput
       [] Head(batch).kind = "terminating" -> Fails
       [] Head(batch).kind = "text" ->
            \/ /\ main' = "write" /\ batch' = Tail(batch)
               /\ UNCHANGED <<pending, result, written, late>>
            \/ Fails
       [] Head(batch).kind = "progress" ->
            \/ /\ main' = "write" /\ batch' = Tail(batch)
               /\ UNCHANGED <<pending, result, written, late>>
            \/ ~Replaced /\ Fails
  /\ UNCHANGED <<order, pool, halt, chan, rxOpen, stopping, outcome>>

\* Order::Input: what is ready in turn is taken, and written unless stopping.
Flush ==
  /\ main = "flush"
  /\ IF Len(written) + 1 \in pending
       THEN /\ pending' = pending \ {Len(written) + 1}
            /\ main' = IF stopping THEN "write" ELSE "put"
       ELSE main' = "write" /\ UNCHANGED pending
  /\ UNCHANGED <<order, pool, halt, chan, rxOpen, batch, result, stopping, written, late, outcome>>

Put ==
  /\ main = "put"
  /\ \/ /\ Wrote(Len(written) + 1)
        /\ main' = "flush"
        /\ UNCHANGED <<batch, pending, result>>
     \/ Fails
  /\ UNCHANGED <<order, pool, halt, chan, rxOpen, stopping, outcome>>

\* stop.set(), then the receiver goes with what it holds.
Halt ==
  /\ main = "halt"
  /\ halt' = TRUE
  /\ rxOpen' = FALSE
  /\ chan' = <<>> /\ batch' = <<>>
  /\ main' = "join"
  /\ UNCHANGED <<order, pool, pending, result, stopping, written, late, outcome>>

Join ==
  /\ main = "join" /\ coord = "finished"
  /\ outcome' = IF panicked # {} THEN "panic" ELSE result
  /\ main' = "returned"
  /\ UNCHANGED <<order, pool, halt, chan, rxOpen, batch, pending, result, stopping, written, late>>

-----------------------------------------------------------------------------

\* StopProcessing, at any time.
Stop ==
  /\ ~stopping /\ main # "returned"
  /\ stopping' = TRUE
  /\ UNCHANGED <<order, pool, halt, chan, rxOpen, drain>>

Advance(t) == ReadHalt(t) \/ Claim(t) \/ SendSide(t) \/ Panic(t) \/ Finish(t)
WorkerStep(t) == Advance(t) \/ KeepHandle(t)
MainStep ==
  \/ RecvTimeout \/ ReadFinished \/ Collect
  \/ WriteSent \/ Emit \/ Flush \/ Put
  \/ Halt \/ Join

Next ==
  \/ \E t \in Threads : WorkerStep(t)
  \/ CoordinatorEnds \/ StraySend \/ StrayDrop
  \/ MainStep
  \/ Stop

\* Threads run and items end; nobody promises that a kept handle is dropped or
\* that it stops sending.
Spec == /\ Init /\ [][Next]_vars
        /\ \A t \in Threads : WF_vars(Advance(t))
        /\ WF_vars(CoordinatorEnds) /\ WF_vars(MainStep)

-----------------------------------------------------------------------------
(* Properties *)

InF == {worker[t].item : t \in {u \in Threads : worker[u].pc \in {"run", "sent"}}}

Map == INSTANCE ParallelMap WITH
         started <- {i \in 1..N : i <= cursor},
         running <- InF,
         asked <- stopping,
         failed <- (result = "error")

\* The pool, the channel and the drain together are the map ParallelMap
\* describes: each result written once and in the order asked for, at most one
\* after a stop, no success reported for lost work, and nothing running once
\* the call has returned (worker.rs:464-481, 491-495, 507-509, 620-625).
ImplementsMap == Map!Spec

\* A clone of the Worker that is kept for ever does not make the call wait
\* (worker.rs:635-637): the call returns unless that clone sends for ever too,
\* and once it is stopped it returns in any case.
CallReturns ==
  <>stopping \/ <>[][~StraySend]_vars => <>(outcome # "none")

\* "a clone that lives on after the work returns does not make the call wait"
\* (worker.rs:97-98), whatever the clone does.
KeptHandleReturns == <>(outcome # "none")
=============================================================================
