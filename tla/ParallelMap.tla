---------------------------- MODULE ParallelMap -----------------------------
(***************************************************************************)
(* What a parallel helper of the pipeline promises its caller, whatever    *)
(* pool and channel carry it out (the comments at worker.rs:464-481,       *)
(* 491-495 and 507-509): an item runs at most once, a result is written    *)
(* once and, where asked, in input order, nothing runs once the call has   *)
(* returned, and it does not report success for work it has not done.      *)
(***************************************************************************)
EXTENDS Naturals, Sequences

CONSTANT N    \* the items are 1..N

Items == 1..N

VARIABLES
  order,     \* "ready", "input", or "none" when there is no result to write
  started,   \* the items that have been given to f
  running,   \* those in f now
  panicked,  \* those whose f panicked
  written,   \* the results written, in the order of the writes
  asked,     \* the pipeline has been asked to stop
  late,      \* results written after that
  failed,    \* a write failed, or a worker sent a terminating error
  outcome    \* "none" until the call returns

vars == <<order, started, running, panicked, written, asked, late, failed, outcome>>

Init ==
  /\ order \in {"ready", "input", "none"}
  /\ started = {} /\ running = {} /\ panicked = {}
  /\ written = <<>>
  /\ asked = FALSE /\ late = 0
  /\ failed = FALSE
  /\ outcome = "none"

Start(i) ==
  /\ i \in Items \ started
  /\ started' = started \cup {i}
  /\ running' = running \cup {i}
  /\ UNCHANGED <<order, panicked, written, asked, late, failed, outcome>>

\* f returns, or panics.
End(i) ==
  /\ i \in running
  /\ running' = running \ {i}
  /\ panicked' \in {panicked, panicked \cup {i}}
  /\ UNCHANGED <<order, started, written, asked, late, failed, outcome>>

Write(i) ==
  /\ order # "none" /\ ~failed
  /\ i \in started \ (running \cup panicked)
  /\ \A k \in DOMAIN written : written[k] # i
  /\ order = "input" => i = Len(written) + 1
  /\ asked => late = 0
  /\ written' = Append(written, i)
  /\ late' = IF asked THEN 1 ELSE 0
  /\ UNCHANGED <<order, started, running, panicked, asked, failed, outcome>>

Fail ==
  /\ failed' = TRUE
  /\ UNCHANGED <<order, started, running, panicked, written, asked, late, outcome>>

Stop ==
  /\ asked' = TRUE
  /\ UNCHANGED <<order, started, running, panicked, written, late, failed, outcome>>

AllDone == started = Items /\ (order # "none" => Len(written) = N)

Return ==
  /\ running = {}
  /\ outcome' = IF panicked # {} THEN "panic" ELSE IF failed THEN "error" ELSE "ok"
  /\ outcome' = "ok" => asked \/ AllDone
  /\ UNCHANGED <<order, started, running, panicked, written, asked, late, failed>>

Next ==
  /\ outcome = "none"
  /\ \/ \E i \in Items : Start(i) \/ End(i) \/ Write(i)
     \/ Fail \/ Stop \/ Return

Spec == Init /\ [][Next]_vars
=============================================================================
