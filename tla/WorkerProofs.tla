---------------------------- MODULE WorkerProofs ----------------------------
(***************************************************************************)
(* The parallel helpers implement ParallelMap for any number of items and  *)
(* of threads.  The argument follows an item: once claimed it is in one    *)
(* place, with f, panicked, in the channel, in the drain's batch, waiting  *)
(* its turn, about to be written or written, and a step moves one item     *)
(* from a place to the next (Moves).  So none is written twice, and when   *)
(* the threads have ended and the channel and the batch are empty, every   *)
(* item is written.                                                        *)
(***************************************************************************)
EXTENDS Worker, FiniteSetTheorems, TLAPS

\* What is sent: a result carries its item.
Record == [kind : {"output"}, item : 1..N]
          \cup [kind : {"progress", "terminating", "text"}, item : {0}]
Ended == {"halt", "join", "returned"}

\* The items claimed, those whose results a sequence of records carries, the
\* one a put is about to write, and those written.
Claimed == {i \in 1..N : i <= cursor}
Outs(s) == {s[k].item : k \in {j \in DOMAIN s : s[j].kind = "output"}}
Held == IF main = "put" THEN {Len(written) + 1} ELSE {}
Done == {written[k] : k \in DOMAIN written}
InJob(t) == worker[t].pc \in {"run", "sent"}

TypeOK ==
  /\ order \in {"ready", "input", "none"}
  /\ cursor \in Nat
  /\ {halt, stray, rxOpen, stopping} \subseteq BOOLEAN
  /\ worker \in [Threads -> [pc : {"halt", "next", "done"}, item : {0}]
                            \cup [pc : {"run", "sent"}, item : 1..N]]
  /\ panicked \subseteq 1..N /\ pending \subseteq 1..N
  /\ coord \in {"running", "dropped", "finished"}
  /\ chan \in Seq(Record) /\ batch \in Seq(Record)
  /\ main \in {"loop", "late", "collect", "write", "emit", "flush", "put", "halt", "join", "returned"}
  /\ result \in {"ok", "error"}
  /\ written \in Seq(1..N)
  /\ late \in {0, 1}
  /\ outcome \in {"none", "ok", "error", "panic"}

Somewhere == InF \cup panicked \cup Outs(chan) \cup Outs(batch) \cup pending \cup Held \cup Done

\* An item is in one place at most ...
Apart(i) ==
  /\ i \in InF => i \notin panicked \cup Outs(chan) \cup Outs(batch) \cup pending \cup Held \cup Done
  /\ i \in panicked => i \notin Outs(chan) \cup Outs(batch) \cup pending \cup Held \cup Done
  /\ i \in Outs(chan) => i \notin Outs(batch) \cup pending \cup Held \cup Done
  /\ i \in Outs(batch) => i \notin pending \cup Held \cup Done
  /\ i \in pending => i \notin Held \cup Done
  /\ i \in Held => i \notin Done
Spread == Somewhere \subseteq Claimed /\ \A i \in 1..N : Apart(i)

\* ... and there once.
Once(s) == \A j, k \in DOMAIN s :
             s[j].kind = "output" /\ s[k].kind = "output" /\ s[j].item = s[k].item => j = k
OneEach ==
  /\ Once(chan) /\ Once(batch)
  /\ \A t, u \in Threads : InJob(t) /\ InJob(u) /\ worker[t].item = worker[u].item => t = u
  /\ \A j, k \in DOMAIN written : written[j] = written[k] => j = k

\* Until the drain has ended or the stop has come, a claimed item whose result
\* is to be written is somewhere.
NoneLost == order # "none" /\ main \notin Ended /\ ~stopping => Claimed \subseteq Somewhere

\* In input order the results written are the first ones, and between two
\* records none that is due waits.
InTurn ==
  /\ order = "input" => \A k \in DOMAIN written : written[k] = k
  /\ main \in {"flush", "put"} \/ pending # {} => order = "input"
Flushed == order = "input" /\ main \notin Ended \cup {"flush", "put"} /\ ~stopping
             => Len(written) + 1 \notin pending

\* The drain receives with an empty batch and emits from one that is not.
Batched == /\ main \in {"loop", "late"} => batch = <<>>
           /\ main = "emit" => batch # <<>>

\* A thread ends for the halt or because nothing is left to claim, the halt
\* comes of a panic or of the call's end, and the coordinator waits for all.
Halted ==
  /\ ~rxOpen => main \in {"join", "returned"}
  /\ halt => panicked # {} \/ main \in {"join", "returned"}
  /\ \A t \in Threads : worker[t].pc = "done" => halt \/ cursor >= N
  /\ coord # "running" => \A t \in Threads : worker[t].pc = "done"

\* After the one write a stop may let through comes no other.
OneLate == late = 1 => stopping /\ main \notin {"emit", "put"}

Returned ==
  /\ result = "error" => main \in Ended
  /\ outcome = "none" <=> main # "returned"
  /\ main = "returned" => coord = "finished"

\* A drain that ended well, with no stop and no panic, has nothing left.
Complete == main \in Ended /\ result = "ok" /\ ~stopping /\ panicked = {} =>
              cursor >= N /\ (order # "none" => Len(written) = N)

IInv == /\ TypeOK /\ Spread /\ OneEach /\ InTurn /\ NoneLost /\ Flushed /\ Batched
        /\ Halted /\ OneLate /\ Returned /\ Complete

USE WorkerAssumption

-----------------------------------------------------------------------------
(* The results in a sequence of records *)

\* The items a sequence carries, one by one.
LEMMA OutsIn ==
  ASSUME NEW s \in Seq(Record), NEW i
  PROVE  i \in Outs(s) <=> \E k \in 1..Len(s) : s[k].kind = "output" /\ s[k].item = i
  BY DEF Outs

\* An empty sequence carries none.
LEMMA OutsNone == Outs(<<>>) = {} /\ Once(<<>>) /\ <<>> \in Seq(Record)
  BY DEF Outs, Once

\* A record carries an item of the call, or none.
LEMMA RecordOuts ==
  ASSUME NEW r \in Record
  PROVE  /\ r.kind = "output" => r.item \in 1..N
         /\ r.kind \in {"output", "progress", "terminating", "text"}
  BY DEF Record

\* What is appended adds its item.
LEMMA OutsAppend ==
  ASSUME NEW s \in Seq(Record), NEW r \in Record
  PROVE  /\ Append(s, r) \in Seq(Record)
         /\ Outs(Append(s, r)) = Outs(s) \cup (IF r.kind = "output" THEN {r.item} ELSE {})
         /\ Once(s) /\ (r.kind = "output" => r.item \notin Outs(s)) => Once(Append(s, r))
<1> DEFINE a == Append(s, r)
<1>1. /\ a \in Seq(Record) /\ Len(a) = Len(s) + 1 /\ a[Len(s) + 1] = r
      /\ \A k \in 1..Len(s) : a[k] = s[k]
      /\ DOMAIN a = 1..(Len(s) + 1) /\ DOMAIN s = 1..Len(s) /\ Len(s) \in Nat
  OBVIOUS
<1> HIDE DEF a
<1>2. \A i : i \in Outs(a) <=> i \in Outs(s) \/ (r.kind = "output" /\ r.item = i)
  <2> TAKE i
  <2>1. i \in Outs(a) <=> \E k \in 1..Len(a) : a[k].kind = "output" /\ a[k].item = i
    BY <1>1, OutsIn
  <2>2. i \in Outs(s) <=> \E k \in 1..Len(s) : s[k].kind = "output" /\ s[k].item = i
    BY OutsIn
  <2>3. \A k \in 1..Len(a) : k \in 1..Len(s) \/ k = Len(s) + 1
    BY <1>1
  <2>4. 1..Len(s) \subseteq 1..Len(a) /\ Len(s) + 1 \in 1..Len(a)
    BY <1>1
  <2> QED
    BY <1>1, <2>1, <2>2, <2>3, <2>4
<1>3. Outs(a) = Outs(s) \cup (IF r.kind = "output" THEN {r.item} ELSE {})
  BY <1>2
<1>4. Once(s) /\ (r.kind = "output" => r.item \notin Outs(s)) => Once(a)
  <2> SUFFICES ASSUME Once(s), r.kind = "output" => r.item \notin Outs(s) PROVE Once(a)
    OBVIOUS
  <2>1. \A k \in 1..Len(s) : s[k].kind = "output" => s[k].item \in Outs(s)
    BY OutsIn
  <2> QED
    BY <1>1, <2>1 DEF Once
<1> QED
  BY <1>1, <1>3, <1>4 DEF a

\* The head goes with its item.
LEMMA OutsTail ==
  ASSUME NEW s \in Seq(Record), s # <<>>, Once(s)
  PROVE  /\ Tail(s) \in Seq(Record) /\ Head(s) \in Record
         /\ Outs(Tail(s)) = Outs(s) \ (IF Head(s).kind = "output" THEN {Head(s).item} ELSE {})
         /\ Head(s).kind = "output" => Head(s).item \in Outs(s)
         /\ Once(Tail(s))
<1> DEFINE a == Tail(s)
           h == Head(s)
<1>1. /\ a \in Seq(Record) /\ Len(a) = Len(s) - 1 /\ h = s[1] /\ h \in Record
      /\ \A k \in 1..Len(a) : a[k] = s[k + 1]
      /\ DOMAIN a = 1..Len(a) /\ DOMAIN s = 1..Len(s) /\ Len(s) \in Nat /\ Len(s) > 0 /\ Len(a) \in Nat
  OBVIOUS
<1> HIDE DEF a, h
<1>0. \A k \in 1..Len(a) : k + 1 \in 1..Len(s) /\ k + 1 # 1
  BY <1>1
<1>00. \A k \in 1..Len(s) : k # 1 => k - 1 \in 1..Len(a) /\ (k - 1) + 1 = k
  BY <1>1
<1>2. \A i : i \in Outs(a) <=> i \in Outs(s) /\ ~(h.kind = "output" /\ h.item = i)
  <2> TAKE i
  <2>1. i \in Outs(a) <=> \E k \in 1..Len(a) : a[k].kind = "output" /\ a[k].item = i
    BY <1>1, OutsIn
  <2>2. i \in Outs(s) <=> \E k \in 1..Len(s) : s[k].kind = "output" /\ s[k].item = i
    BY OutsIn
  <2>3. ASSUME i \in Outs(a) PROVE i \in Outs(s) /\ ~(h.kind = "output" /\ h.item = i)
    <3>1. PICK k \in 1..Len(a) : a[k].kind = "output" /\ a[k].item = i
      BY <2>1, <2>3
    <3>2. s[k + 1].kind = "output" /\ s[k + 1].item = i /\ k + 1 \in 1..Len(s) /\ k + 1 # 1
      BY <1>1, <1>0, <3>1
    <3>3. 1 \in 1..Len(s)
      BY <1>1
    <3>4. ~(s[1].kind = "output" /\ s[1].item = i)
      BY <3>2, <3>3, <1>1 DEF Once
    <3> QED
      BY <2>2, <3>2, <3>4, <1>1
  <2>4. ASSUME i \in Outs(s), ~(h.kind = "output" /\ h.item = i) PROVE i \in Outs(a)
    <3>1. PICK k \in 1..Len(s) : s[k].kind = "output" /\ s[k].item = i
      BY <2>2, <2>4
    <3>2. k # 1
      BY <3>1, <2>4, <1>1
    <3>3. a[k - 1] = s[k] /\ k - 1 \in 1..Len(a)
      BY <3>2, <1>00, <1>1
    <3> QED
      BY <3>1, <3>3, <2>1
  <2> QED
    BY <2>3, <2>4
<1>3. Outs(a) = Outs(s) \ (IF h.kind = "output" THEN {h.item} ELSE {})
  BY <1>2
<1>4. h.kind = "output" => h.item \in Outs(s)
  <2>1. 1 \in 1..Len(s)
    BY <1>1
  <2> QED
    BY <2>1, <1>1, OutsIn
<1>5. Once(a)
  <2> SUFFICES ASSUME NEW j \in 1..Len(a), NEW k \in 1..Len(a),
                      a[j].kind = "output", a[k].kind = "output", a[j].item = a[k].item
               PROVE  j = k
    BY <1>1 DEF Once
  <2>1. j + 1 = k + 1
    BY <1>0, <1>1 DEF Once
  <2> QED
    BY <2>1
<1> QED
  BY <1>1, <1>3, <1>4, <1>5 DEF a, h

\* A single record.
LEMMA OutsOne ==
  ASSUME NEW r \in Record
  PROVE  /\ <<r>> \in Seq(Record) /\ Once(<<r>>)
         /\ Outs(<<r>>) = IF r.kind = "output" THEN {r.item} ELSE {}
<1> DEFINE a == <<r>>
<1>1. a \in Seq(Record) /\ Len(a) = 1 /\ a[1] = r /\ DOMAIN a = {1} /\ 1..1 = {1}
  OBVIOUS
<1> HIDE DEF a
<1>2. \A i : i \in Outs(a) <=> r.kind = "output" /\ r.item = i
  <2> TAKE i
  <2>1. i \in Outs(a) <=> \E k \in 1..Len(a) : a[k].kind = "output" /\ a[k].item = i
    BY <1>1, OutsIn
  <2>2. 1..Len(a) = {1}
    BY <1>1
  <2> QED
    BY <1>1, <2>1, <2>2
<1>3. Outs(a) = IF r.kind = "output" THEN {r.item} ELSE {}
  BY <1>2
<1>4. Once(a)
  BY <1>1 DEF Once
<1> QED
  BY <1>1, <1>3, <1>4 DEF a

-----------------------------------------------------------------------------
(* The items that are with f *)

LEMMA InFIn ==
  ASSUME NEW i
  PROVE  i \in InF <=> \E t \in Threads : InJob(t) /\ worker[t].item = i
  BY DEF InF, InJob

\* A thread that leaves f takes its item out of it, and no other.
LEMMA LeavesF ==
  ASSUME TypeOK, OneEach, NEW t \in Threads, InJob(t), NEW pc \in {"halt", "done"}, Goto(t, pc)
  PROVE  worker[t].item \in InF /\ InF' = InF \ {worker[t].item}
<1> DEFINE x == worker[t].item
<1>1. /\ worker'[t].pc = pc /\ ~InJob(t)'
      /\ \A u \in Threads : u # t => worker'[u] = worker[u] /\ (InJob(u)' <=> InJob(u))
  BY DEF Goto, TypeOK, InJob
<1>2. \A u \in Threads : InJob(u) /\ worker[u].item = x => u = t
  BY DEF OneEach
<1>3. \A i : i \in InF' <=> \E u \in Threads : InJob(u)' /\ worker'[u].item = i
  BY DEF InF, InJob
<1>4. \A i : i \in InF <=> \E u \in Threads : InJob(u) /\ worker[u].item = i
  BY InFIn
<1>5. \A i : i \in InF' <=> i \in InF /\ i # x
  <2> TAKE i
  <2>1. ASSUME i \in InF' PROVE i \in InF /\ i # x
    <3>1. PICK u \in Threads : InJob(u)' /\ worker'[u].item = i
      BY <1>3, <2>1
    <3>2. u # t /\ InJob(u) /\ worker[u].item = i
      BY <1>1, <3>1
    <3> QED
      BY <3>2, <1>2, <1>4
  <2>2. ASSUME i \in InF, i # x PROVE i \in InF'
    <3>1. PICK u \in Threads : InJob(u) /\ worker[u].item = i
      BY <1>4, <2>2
    <3>2. u # t
      BY <3>1, <2>2
    <3> QED
      BY <3>1, <3>2, <1>1, <1>3
  <2> QED
    BY <2>1, <2>2
<1>6. x \in InF
  BY <1>4
<1> QED
  BY <1>5, <1>6

\* A thread that is not in f and does not enter it moves nothing.
LEMMA PassesF ==
  ASSUME TypeOK, NEW t \in Threads,
         \A u \in Threads : (InJob(u)' <=> InJob(u)) /\ (InJob(u) => worker'[u].item = worker[u].item)
  PROVE  InF' = InF
<1>1. \A i : i \in InF' <=> \E u \in Threads : InJob(u)' /\ worker'[u].item = i
  BY DEF InF, InJob
<1>2. \A i : i \in InF <=> \E u \in Threads : InJob(u) /\ worker[u].item = i
  BY InFIn
<1> QED
  BY <1>1, <1>2

\* A claim gives its item to f.
LEMMA EntersF ==
  ASSUME TypeOK, NEW t \in Threads, ~InJob(t), NEW i,
         worker' = [worker EXCEPT ![t] = [pc |-> "run", item |-> i]]
  PROVE  InF' = InF \cup {i}
<1>1. \A j : j \in InF' <=> \E u \in Threads : InJob(u)' /\ worker'[u].item = j
  BY DEF InF, InJob
<1>2. \A j : j \in InF <=> \E u \in Threads : InJob(u) /\ worker[u].item = j
  BY InFIn
<1>3. /\ InJob(t)' /\ worker'[t].item = i
      /\ \A u \in Threads : u # t => worker'[u] = worker[u] /\ (InJob(u)' <=> InJob(u))
  BY DEF TypeOK, InJob
<1>4. \A j : j \in InF' <=> j \in InF \/ j = i
  BY <1>1, <1>2, <1>3
<1> QED
  BY <1>4

-----------------------------------------------------------------------------
(* What a step does to the items: an item is unclaimed, with f, panicked,   *)
(* in the channel, in the batch, waiting its turn, held by a put, written,  *)
(* or lost.                                                                 *)

Still == UNCHANGED <<Claimed, InF, panicked, Outs(chan), Outs(batch), pending, Held, Done>>
Claims == \E i \in 1..N :
  /\ i \notin Claimed /\ Claimed' = Claimed \cup {i} /\ InF' = InF \cup {i}
  /\ UNCHANGED <<panicked, Outs(chan), Outs(batch), pending, Held, Done>>
Panics == \E i \in InF :
  /\ InF' = InF \ {i} /\ panicked' = panicked \cup {i}
  /\ UNCHANGED <<Claimed, Outs(chan), Outs(batch), pending, Held, Done>>
Sends == \E i \in InF :
  /\ InF' = InF \ {i} /\ Outs(chan)' = Outs(chan) \cup {i}
  /\ UNCHANGED <<Claimed, panicked, Outs(batch), pending, Held, Done>>
Takes == \E i \in Outs(chan) :
  /\ Outs(chan)' = Outs(chan) \ {i} /\ Outs(batch)' = Outs(batch) \cup {i}
  /\ UNCHANGED <<Claimed, InF, panicked, pending, Held, Done>>
Waits == \E i \in Outs(batch) :
  /\ Outs(batch)' = Outs(batch) \ {i} /\ pending' = pending \cup {i}
  /\ UNCHANGED <<Claimed, InF, panicked, Outs(chan), Held, Done>>
ComesUp == \E i \in pending :
  /\ pending' = pending \ {i} /\ Held = {} /\ Held' = {i}
  /\ UNCHANGED <<Claimed, InF, panicked, Outs(chan), Outs(batch), Done>>
Writes == \E i \in Outs(batch) :
  /\ Outs(batch)' = Outs(batch) \ {i} /\ Done' = Done \cup {i}
  /\ UNCHANGED <<Claimed, InF, panicked, Outs(chan), pending, Held>>
Puts == \E i \in Held :
  /\ Held' = Held \ {i} /\ Done' = Done \cup {i}
  /\ UNCHANGED <<Claimed, InF, panicked, Outs(chan), Outs(batch), pending>>
\* Results are given up only when none is to be written, or no more will be.
Loses ==
  /\ order' = "none" \/ main' \in Ended \/ stopping'
  /\ InF' \subseteq InF /\ Outs(chan)' \subseteq Outs(chan) /\ Outs(batch)' \subseteq Outs(batch)
  /\ pending' \subseteq pending /\ Held' \subseteq Held
  /\ UNCHANGED <<Claimed, panicked, Done>>

Moves == \/ Still \/ Claims \/ Panics \/ Sends \/ Takes \/ Waits \/ ComesUp
         \/ Writes \/ Puts \/ Loses

\* An end of the drain and a stop are for good.
Onward == /\ order' = order /\ (stopping => stopping')
          /\ main \in Ended => main' \in Ended

\* However an item moves it is in one place after it, and none is lost while
\* it is to be written.
LEMMA MovesKeep ==
  ASSUME Spread, NoneLost, Moves, Onward
  PROVE  Spread' /\ NoneLost'
<1>0. /\ Somewhere \subseteq Claimed /\ Claimed \subseteq 1..N
      /\ \A i \in 1..N : Apart(i)
  BY DEF Spread, Claimed
<1>1. Somewhere' \subseteq Claimed' /\ (Claimed \subseteq Somewhere /\ ~Loses => Claimed' \subseteq Somewhere')
  <2> USE <1>0 DEF Somewhere
  <2>1. CASE Still
    BY <2>1 DEF Still
  <2>2. CASE Claims
    BY <2>2 DEF Claims
  <2>3. CASE Panics
    BY <2>3 DEF Panics
  <2>4. CASE Sends
    BY <2>4 DEF Sends
  <2>5. CASE Takes
    BY <2>5 DEF Takes
  <2>6. CASE Waits
    BY <2>6 DEF Waits
  <2>7. CASE ComesUp
    BY <2>7 DEF ComesUp
  <2>8. CASE Writes
    BY <2>8 DEF Writes
  <2>9. CASE Puts
    BY <2>9 DEF Puts
  <2>10. CASE Loses
    BY <2>10 DEF Loses
  <2> QED
    BY <2>1, <2>2, <2>3, <2>4, <2>5, <2>6, <2>7, <2>8, <2>9, <2>10 DEF Moves
<1>2. ASSUME NEW i \in 1..N PROVE Apart(i)'
  <2>0. Apart(i) /\ (i \in Somewhere => i \in Claimed)
    BY <1>0
  <2> USE <2>0 DEF Apart, Somewhere
  <2>1. CASE Still
    BY <2>1 DEF Still
  <2>2. CASE Claims
    BY <2>2 DEF Claims
  <2>3. CASE Panics
    BY <2>3 DEF Panics
  <2>4. CASE Sends
    BY <2>4 DEF Sends
  <2>5. CASE Takes
    BY <2>5 DEF Takes
  <2>6. CASE Waits
    BY <2>6 DEF Waits
  <2>7. CASE ComesUp
    BY <2>7 DEF ComesUp
  <2>8. CASE Writes
    BY <2>8 DEF Writes
  <2>9. CASE Puts
    BY <2>9 DEF Puts
  <2>10. CASE Loses
    BY <2>10 DEF Loses
  <2> QED
    BY <2>1, <2>2, <2>3, <2>4, <2>5, <2>6, <2>7, <2>8, <2>9, <2>10 DEF Moves
<1>3. NoneLost'
  <2> SUFFICES ASSUME order' # "none", main' \notin Ended, ~stopping'
               PROVE  Claimed' \subseteq Somewhere'
    BY DEF NoneLost, Ended
  <2>1. ~Loses
    BY DEF Loses
  <2>2. Claimed \subseteq Somewhere
    BY DEF NoneLost, Onward
  <2> QED
    BY <1>1, <2>1, <2>2
<1> QED
  BY <1>1, <1>2, <1>3 DEF Spread

-----------------------------------------------------------------------------
(* The pool's steps *)

Shaped == TypeOK /\ OneEach

\* Nothing of the channel's receiving end moves.
MainStays == UNCHANGED <<drain, order, stopping>>

LEMMA MainStaysStill ==
  ASSUME MainStays
  PROVE  UNCHANGED <<batch, pending, written, main, late, result, outcome, order, stopping,
                     Outs(batch), Held, Done>> /\ Onward
<1>1. UNCHANGED <<batch, pending, written, main, late, result, outcome, order, stopping>>
  BY DEF MainStays, drain
<1>2. Held' = Held /\ Done' = Done
  BY <1>1 DEF Held, Done
<1> QED
  BY <1>1, <1>2 DEF Onward

\* A record sent is at the end of the channel or, without a receiver, nowhere.
LEMMA SendDoes ==
  ASSUME TypeOK, OneEach, NEW r \in Record, Send(r),
         r.kind = "output" => r.item \notin Outs(chan)
  PROVE  /\ chan' \in Seq(Record) /\ Once(chan)'
         /\ Outs(chan)' = Outs(chan) \cup (IF r.kind = "output" /\ rxOpen THEN {r.item} ELSE {})
<1>1. CASE rxOpen
  BY <1>1, OutsAppend DEF Send, TypeOK, OneEach
<1>2. CASE ~rxOpen
  BY <1>2 DEF Send, TypeOK, OneEach
<1> QED
  BY <1>1, <1>2 DEF TypeOK

LEMMA ReadHaltDoes ==
  ASSUME IInv, NEW t \in Threads, ReadHalt(t)
  PROVE  Shaped' /\ Still /\ MainStays
<1> USE DEF IInv
<1>1. /\ UNCHANGED <<cursor, halt, panicked, coord, stray, chan, rxOpen>> /\ MainStays
      /\ worker' = [worker EXCEPT ![t] = [pc |-> IF halt THEN "done" ELSE "next", item |-> 0]]
      /\ worker[t].pc = "halt"
  BY DEF ReadHalt, MainStays, Goto
<1>2. /\ \A u \in Threads : (InJob(u)' <=> InJob(u)) /\ (InJob(u) => worker'[u].item = worker[u].item)
      /\ TypeOK'
  <2>0. UNCHANGED <<batch, pending, written, main, late, result, outcome, order, stopping>>
    BY <1>1, MainStaysStill
  <2>1. worker' \in [Threads -> [pc : {"halt", "next", "done"}, item : {0}]
                            \cup [pc : {"run", "sent"}, item : 1..N]]
    BY <1>1 DEF TypeOK
  <2>2. TypeOK'
    BY <1>1, <2>0, <2>1 DEF TypeOK
  <2> QED
    BY <1>1, <2>2 DEF TypeOK, InJob
<1>3. InF' = InF
  BY <1>2, PassesF
<1>4. OneEach'
  BY <1>1, <1>2, MainStaysStill DEF OneEach
<1> QED
  BY <1>1, <1>2, <1>3, <1>4, MainStaysStill DEF Still, Shaped, Claimed

LEMMA ClaimDoes ==
  ASSUME IInv, NEW t \in Threads, Claim(t)
  PROVE  Shaped' /\ (Still \/ Claims) /\ MainStays
<1> USE DEF IInv
<1>1. /\ UNCHANGED <<halt, panicked, coord, stray, chan, rxOpen>> /\ MainStays
      /\ cursor' = cursor + 1 /\ worker[t].pc = "next" /\ ~InJob(t)
      /\ worker' = [worker EXCEPT ![t] = IF cursor < N THEN [pc |-> "run", item |-> cursor + 1]
                                                      ELSE [pc |-> "done", item |-> 0]]
  BY DEF Claim, MainStays, InJob
<1>0. UNCHANGED <<batch, pending, written, main, late, result, outcome, order, stopping,
                  Outs(batch), Held, Done>>
  BY <1>1, MainStaysStill
<1>2. TypeOK'
  BY <1>1, <1>0 DEF TypeOK
<1>3. CASE cursor < N
  <2>1. worker' = [worker EXCEPT ![t] = [pc |-> "run", item |-> cursor + 1]] /\ cursor + 1 \in 1..N
    BY <1>1, <1>3 DEF TypeOK
  <2>2. InF' = InF \cup {cursor + 1}
    BY <1>1, <2>1, EntersF
  <2>3. cursor + 1 \notin Claimed /\ Claimed' = Claimed \cup {cursor + 1}
    BY <1>1, <2>1 DEF Claimed, TypeOK
  <2>4. cursor + 1 \notin InF
    BY <2>3 DEF Spread, Somewhere
  <2>5. \A u, v \in Threads : InJob(u)' /\ InJob(v)' /\ worker'[u].item = worker'[v].item => u = v
    <3>1. \A u \in Threads : InJob(u) => worker[u].item # cursor + 1
      BY <2>4, InFIn
    <3>2. \A u \in Threads : u # t => worker'[u] = worker[u] /\ (InJob(u)' <=> InJob(u))
      BY <2>1 DEF TypeOK, InJob
    <3>3. worker'[t].item = cursor + 1
      BY <2>1 DEF TypeOK
    <3> QED
      BY <3>1, <3>2, <3>3 DEF OneEach
  <2>6. OneEach'
    BY <1>1, <1>0, <2>5 DEF OneEach
  <2>7. Claims
    BY <1>1, <1>0, <2>1, <2>2, <2>3 DEF Claims
  <2> QED
    BY <1>1, <1>2, <2>6, <2>7 DEF Shaped
<1>4. CASE ~(cursor < N)
  <2>1. worker' = [worker EXCEPT ![t] = [pc |-> "done", item |-> 0]]
    BY <1>1, <1>4
  <2>2. \A u \in Threads : (InJob(u)' <=> InJob(u)) /\ (InJob(u) => worker'[u].item = worker[u].item)
    BY <1>1, <2>1 DEF InJob, TypeOK
  <2>3. InF' = InF
    BY <2>2, PassesF
  <2>4. Claimed' = Claimed
    BY <1>1, <1>4 DEF Claimed, TypeOK
  <2>5. OneEach'
    BY <1>1, <1>0, <2>2 DEF OneEach
  <2> QED
    BY <1>1, <1>0, <1>2, <2>3, <2>4, <2>5 DEF Shaped, Still
<1> QED
  BY <1>3, <1>4

LEMMA SendSideDoes ==
  ASSUME IInv, NEW t \in Threads, SendSide(t)
  PROVE  Shaped' /\ Still /\ MainStays
<1> USE DEF IInv
<1>1. /\ UNCHANGED <<cursor, halt, panicked, coord, stray, rxOpen>> /\ MainStays
      /\ worker' = [worker EXCEPT ![t].pc = "sent"] /\ worker[t].pc = "run"
  BY DEF SendSide, MainStays
<1>0. UNCHANGED <<batch, pending, written, main, late, result, outcome, order, stopping,
                  Outs(batch), Held, Done>>
  BY <1>1, MainStaysStill
<1>2. PICK k \in {"progress", "terminating"} : Send([kind |-> k, item |-> 0])
  BY DEF SendSide
<1>3. [kind |-> k, item |-> 0] \in Record /\ [kind |-> k, item |-> 0].kind # "output"
  BY DEF Record
<1>4. chan' \in Seq(Record) /\ Once(chan)' /\ Outs(chan)' = Outs(chan)
  BY <1>2, <1>3, SendDoes
<1>5. \A u \in Threads : (InJob(u)' <=> InJob(u)) /\ (InJob(u) => worker'[u].item = worker[u].item)
  BY <1>1 DEF InJob, TypeOK
<1>6. InF' = InF
  BY <1>5, PassesF
<1>7. TypeOK'
  <2>1. worker' \in [Threads -> [pc : {"halt", "next", "done"}, item : {0}]
                            \cup [pc : {"run", "sent"}, item : 1..N]]
    BY <1>1 DEF TypeOK
  <2> QED
    BY <1>1, <1>0, <1>4, <2>1 DEF TypeOK
<1>8. OneEach'
  BY <1>0, <1>4, <1>5 DEF OneEach
<1> QED
  BY <1>1, <1>0, <1>4, <1>6, <1>7, <1>8 DEF Shaped, Still, Claimed

LEMMA PanicDoes ==
  ASSUME IInv, NEW t \in Threads, Panic(t)
  PROVE  Shaped' /\ Panics /\ MainStays
<1> USE DEF IInv
<1>1. /\ UNCHANGED <<cursor, coord, stray, chan, rxOpen>> /\ MainStays
      /\ Goto(t, "done") /\ InJob(t) /\ panicked' = panicked \cup {worker[t].item} /\ halt' = TRUE
  BY DEF Panic, MainStays, InJob
<1>0. UNCHANGED <<batch, pending, written, main, late, result, outcome, order, stopping,
                  Outs(batch), Held, Done>>
  BY <1>1, MainStaysStill
<1>2. worker[t].item \in InF /\ InF' = InF \ {worker[t].item}
  BY <1>1, LeavesF
<1>3. \A u \in Threads : InJob(u)' => InJob(u) /\ worker'[u].item = worker[u].item
  BY <1>1 DEF Goto, InJob, TypeOK
<1>4. TypeOK'
  <2>1. worker[t].item \in 1..N
    BY <1>1 DEF InJob, TypeOK
  <2>2. worker' \in [Threads -> [pc : {"halt", "next", "done"}, item : {0}]
                            \cup [pc : {"run", "sent"}, item : 1..N]]
    BY <1>1 DEF TypeOK, Goto
  <2>3. panicked' \subseteq 1..N /\ halt' \in BOOLEAN
    BY <1>1, <2>1 DEF TypeOK
  <2> QED
    BY <1>1, <1>0, <2>2, <2>3 DEF TypeOK
<1>5. OneEach'
  BY <1>1, <1>0, <1>3 DEF OneEach
<1> QED
  BY <1>1, <1>0, <1>2, <1>4, <1>5 DEF Shaped, Panics, Claimed

LEMMA FinishDoes ==
  ASSUME IInv, NEW t \in Threads, Finish(t)
  PROVE  /\ Shaped' /\ (Sends \/ Loses) /\ MainStays /\ panicked' = panicked
         /\ \E i \in InF : InF' = InF \ {i}
<1> USE DEF IInv
<1>1. /\ UNCHANGED <<cursor, panicked, coord, stray, rxOpen>> /\ MainStays
      /\ Goto(t, "halt") /\ InJob(t)
      /\ IF order = "none" THEN UNCHANGED <<chan, halt>>
           ELSE Send([kind |-> "output", item |-> worker[t].item]) /\ halt' = (halt \/ ~rxOpen)
  BY DEF Finish, MainStays, InJob
<1>0. UNCHANGED <<batch, pending, written, main, late, result, outcome, order, stopping,
                  Outs(batch), Held, Done>>
  BY <1>1, MainStaysStill
<1>2. worker[t].item \in InF /\ InF' = InF \ {worker[t].item} /\ Claimed' = Claimed
  BY <1>1, LeavesF DEF Claimed
<1>3. \A u \in Threads : InJob(u)' => InJob(u) /\ worker'[u].item = worker[u].item
  BY <1>1 DEF Goto, InJob, TypeOK
<1>4. /\ chan' \in Seq(Record) /\ Once(chan)'
      /\ \/ Outs(chan)' = Outs(chan) \cup {worker[t].item}
         \/ Outs(chan)' = Outs(chan) /\ (order = "none" \/ ~rxOpen)
  <2>1. CASE order = "none"
    BY <1>1, <2>1 DEF TypeOK, OneEach
  <2>2. CASE order # "none"
    <3> DEFINE r == [kind |-> "output", item |-> worker[t].item]
    <3>1. worker[t].item \in 1..N
      BY <1>1 DEF InJob, TypeOK
    <3>2. r \in Record /\ r.kind = "output" /\ r.item = worker[t].item
      BY <3>1 DEF Record
    <3>3. r.item \notin Outs(chan)
      BY <1>2, <3>1, <3>2 DEF Spread, Apart
    <3>4. Send(r)
      BY <1>1, <2>2
    <3> HIDE DEF r
    <3>5. /\ chan' \in Seq(Record) /\ Once(chan)'
          /\ Outs(chan)' = Outs(chan) \cup (IF r.kind = "output" /\ rxOpen THEN {r.item} ELSE {})
      BY <3>2, <3>3, <3>4, SendDoes
    <3> QED
      BY <3>2, <3>5 DEF TypeOK
  <2> QED
    BY <2>1, <2>2
<1>5. TypeOK'
  <2>1. halt' \in BOOLEAN
    BY <1>1 DEF TypeOK
  <2>2. worker' \in [Threads -> [pc : {"halt", "next", "done"}, item : {0}]
                            \cup [pc : {"run", "sent"}, item : 1..N]]
    BY <1>1 DEF TypeOK, Goto
  <2> QED
    BY <1>1, <1>0, <1>4, <2>1, <2>2 DEF TypeOK
<1>6. OneEach'
  BY <1>0, <1>3, <1>4 DEF OneEach
<1>7. Sends \/ Loses
  <2>1. ~rxOpen => main' \in Ended
    BY <1>0 DEF Halted, Ended
  <2> QED
    BY <1>1, <1>0, <1>2, <1>4, <2>1 DEF Sends, Loses
<1> QED
  BY <1>1, <1>2, <1>5, <1>6, <1>7 DEF Shaped

\* What else happens off the cmdlet's thread moves no item.
LEMMA AsideDoes ==
  ASSUME IInv, (\E t \in Threads : KeepHandle(t)) \/ CoordinatorEnds \/ StraySend \/ StrayDrop
  PROVE  Shaped' /\ Still /\ MainStays
<1> USE DEF IInv
<1>1. UNCHANGED <<cursor, halt, worker, panicked, rxOpen>> /\ MainStays
  BY DEF KeepHandle, CoordinatorEnds, StraySend, StrayDrop, MainStays
<1>0. UNCHANGED <<batch, pending, written, main, late, result, outcome, order, stopping,
                  Outs(batch), Held, Done>>
  BY <1>1, MainStaysStill
<1>2. chan' \in Seq(Record) /\ Once(chan)' /\ Outs(chan)' = Outs(chan)
  <2>1. CASE StraySend
    <3>1. [kind |-> "text", item |-> 0] \in Record /\ [kind |-> "text", item |-> 0].kind # "output"
      BY DEF Record
    <3> QED
      BY <2>1, <3>1, SendDoes DEF StraySend
  <2>2. CASE ~StraySend
    BY <2>2 DEF KeepHandle, CoordinatorEnds, StrayDrop, TypeOK, OneEach
  <2> QED
    BY <2>1, <2>2
<1>3. InF' = InF /\ \A u \in Threads : InJob(u)' <=> InJob(u)
  BY <1>1 DEF InF, InJob
<1>4. coord' \in {"running", "dropped", "finished"} /\ stray' \in BOOLEAN
  <2>1. ASSUME NEW t \in Threads, KeepHandle(t)
        PROVE  coord' = coord /\ stray' = TRUE
    BY <2>1 DEF KeepHandle
  <2>2. CASE CoordinatorEnds
    BY <2>2 DEF CoordinatorEnds, TypeOK
  <2>3. CASE StraySend
    BY <2>3 DEF StraySend, TypeOK
  <2>4. CASE StrayDrop
    BY <2>4 DEF StrayDrop, TypeOK
  <2> QED
    BY <2>1, <2>2, <2>3, <2>4 DEF TypeOK
<1>5. TypeOK' /\ OneEach'
  BY <1>1, <1>0, <1>2, <1>3, <1>4 DEF TypeOK, OneEach
<1> QED
  BY <1>1, <1>0, <1>2, <1>3, <1>5 DEF Shaped, Still, Claimed

-----------------------------------------------------------------------------
(* The steps of the cmdlet's thread *)

\* Nothing moves but what that thread moves.
PoolStays == UNCHANGED <<pool, order, stopping>>

LEMMA PoolStaysStill ==
  ASSUME PoolStays
  PROVE  /\ UNCHANGED <<cursor, worker, panicked, coord, stray, order, stopping, InF, Claimed>>
         /\ \A u \in Threads : InJob(u)' <=> InJob(u)
<1>1. UNCHANGED <<cursor, worker, panicked, coord, stray, order, stopping>>
  BY DEF PoolStays, pool
<1> QED
  BY <1>1 DEF InF, Claimed, InJob

\* A result written is the last one, and was not written before.
LEMMA WroteDoes ==
  ASSUME TypeOK, OneEach, NEW i \in 1..N, Wrote(i)
  PROVE  /\ written' \in Seq(1..N) /\ Done' = Done \cup {i} /\ Len(written') = Len(written) + 1
         /\ written'[Len(written) + 1] = i
         /\ \A k \in DOMAIN written : k \in DOMAIN written' /\ written'[k] = written[k]
         /\ \A k \in DOMAIN written' : k \in DOMAIN written \/ k = Len(written) + 1
         /\ i \notin Done =>
              \A j, k \in DOMAIN written' : written'[j] = written'[k] => j = k
<1>1. /\ written' = Append(written, i) /\ written' \in Seq(1..N)
      /\ written \in Seq(1..N) /\ Len(written) \in Nat
      /\ Len(written') = Len(written) + 1 /\ written'[Len(written) + 1] = i
      /\ DOMAIN written = 1..Len(written) /\ DOMAIN written' = 1..(Len(written) + 1)
      /\ \A k \in 1..Len(written) : written'[k] = written[k]
  BY DEF Wrote, TypeOK
<1>2. /\ \A k \in DOMAIN written : k \in DOMAIN written' /\ written'[k] = written[k]
      /\ \A k \in DOMAIN written' : k \in DOMAIN written \/ k = Len(written) + 1
      /\ Len(written) + 1 \in DOMAIN written'
  BY <1>1
<1>3. Done' = {written'[k] : k \in DOMAIN written'} /\ \A k \in DOMAIN written : written[k] \in Done
  BY DEF Done
<1>4. Done' = Done \cup {i}
  BY <1>1, <1>2, <1>3 DEF Done
<1>5. ASSUME i \notin Done, NEW j \in DOMAIN written', NEW k \in DOMAIN written',
             written'[j] = written'[k]
      PROVE  j = k
  BY <1>1, <1>2, <1>3, <1>5 DEF OneEach
<1> QED
  BY <1>1, <1>2, <1>4, <1>5

LEMMA HeldIs == (main # "put" => Held = {}) /\ (main' # "put" => Held' = {})
  BY DEF Held

\* The first record of a batch.
LEMMA FirstDoes ==
  ASSUME IInv, First, chan # <<>>, main \in {"loop", "late"}, PoolStays,
         UNCHANGED <<halt, rxOpen, pending, result, written, late, outcome>>
  PROVE  Shaped' /\ (Still \/ Takes)
<1> USE DEF IInv
<1>1. batch = <<>> /\ batch' = <<Head(chan)>> /\ chan' = Tail(chan) /\ main' = "collect"
  BY DEF First, Batched
<1>2. /\ chan' \in Seq(Record) /\ Head(chan) \in Record /\ Once(chan)'
      /\ Outs(chan)' = Outs(chan) \ (IF Head(chan).kind = "output" THEN {Head(chan).item} ELSE {})
      /\ Head(chan).kind = "output" => Head(chan).item \in Outs(chan)
  BY <1>1, OutsTail DEF TypeOK, OneEach
<1>3. /\ batch' \in Seq(Record) /\ Once(batch)' /\ Outs(batch) = {}
      /\ Outs(batch)' = IF Head(chan).kind = "output" THEN {Head(chan).item} ELSE {}
  BY <1>1, <1>2, OutsOne, OutsNone
<1>4. Done' = Done /\ Held = {} /\ Held' = {}
  BY <1>1, HeldIs DEF Done
<1>5. Shaped'
  BY <1>1, <1>2, <1>3, PoolStaysStill DEF Shaped, TypeOK, OneEach
<1>6. CASE Head(chan).kind = "output"
  BY <1>2, <1>3, <1>4, <1>5, <1>6, PoolStaysStill DEF Takes
<1>7. CASE Head(chan).kind # "output"
  BY <1>2, <1>3, <1>4, <1>5, <1>7, PoolStaysStill DEF Still
<1> QED
  BY <1>6, <1>7

LEMMA ReceiveDoes ==
  ASSUME IInv, RecvTimeout \/ ReadFinished
  PROVE  Shaped' /\ (Still \/ Takes) /\ PoolStays /\ Onward
<1> USE DEF IInv
<1>1. /\ PoolStays /\ main \in {"loop", "late"}
      /\ UNCHANGED <<halt, rxOpen, pending, result, written, late, outcome>>
      /\ \/ First /\ chan # <<>>
         \/ UNCHANGED <<batch, chan>> /\ main' \in {"halt", "late", "loop"}
  BY DEF RecvTimeout, ReadFinished, PoolStays
<1>2. Onward
  BY <1>1, PoolStaysStill DEF Onward, Ended
<1>3. CASE First /\ chan # <<>>
  BY <1>1, <1>2, <1>3, FirstDoes
<1>4. CASE UNCHANGED <<batch, chan>> /\ main' \in {"halt", "late", "loop"}
  <2>1. Done' = Done /\ Held = {} /\ Held' = {} /\ Outs(chan)' = Outs(chan) /\ Outs(batch)' = Outs(batch)
    BY <1>1, <1>4, HeldIs DEF Done
  <2>2. Shaped'
    BY <1>1, <1>4, PoolStaysStill DEF Shaped, TypeOK, OneEach
  <2> QED
    BY <1>1, <1>2, <2>1, <2>2, PoolStaysStill DEF Still
<1> QED
  BY <1>1, <1>3, <1>4

LEMMA CollectDoes ==
  ASSUME IInv, Collect
  PROVE  Shaped' /\ (Still \/ Takes) /\ PoolStays /\ Onward
<1> USE DEF IInv
<1>1. /\ PoolStays /\ main = "collect" /\ main' \in {"collect", "write"}
      /\ UNCHANGED <<halt, rxOpen, pending, result, written, late, outcome>>
      /\ \/ chan # <<>> /\ batch' = Append(batch, Head(chan)) /\ chan' = Tail(chan)
         \/ UNCHANGED <<batch, chan>>
  BY DEF Collect, PoolStays
<1>2. Onward
  BY <1>1, PoolStaysStill DEF Onward, Ended
<1>3. Done' = Done /\ Held = {} /\ Held' = {}
  BY <1>1, HeldIs DEF Done
<1>4. CASE chan # <<>> /\ batch' = Append(batch, Head(chan)) /\ chan' = Tail(chan)
  <2>1. /\ chan' \in Seq(Record) /\ Head(chan) \in Record /\ Once(chan)'
        /\ Outs(chan)' = Outs(chan) \ (IF Head(chan).kind = "output" THEN {Head(chan).item} ELSE {})
        /\ Head(chan).kind = "output" => Head(chan).item \in Outs(chan)
    BY <1>4, OutsTail DEF TypeOK, OneEach
  <2>2. Head(chan).kind = "output" => Head(chan).item \notin Outs(batch)
    BY <2>1, RecordOuts DEF Spread, Apart
  <2>3. /\ batch' \in Seq(Record) /\ Once(batch)'
        /\ Outs(batch)' = Outs(batch)
                          \cup (IF Head(chan).kind = "output" THEN {Head(chan).item} ELSE {})
    BY <1>4, <2>1, <2>2, OutsAppend DEF TypeOK, OneEach
  <2>4. Shaped'
    BY <1>1, <2>1, <2>3, PoolStaysStill DEF Shaped, TypeOK, OneEach
  <2>5. CASE Head(chan).kind = "output"
    BY <1>1, <1>2, <1>3, <2>1, <2>3, <2>4, <2>5, PoolStaysStill DEF Takes
  <2>6. CASE Head(chan).kind # "output"
    BY <1>1, <1>2, <1>3, <2>1, <2>3, <2>4, <2>6, PoolStaysStill DEF Still
  <2> QED
    BY <2>5, <2>6
<1>5. CASE UNCHANGED <<batch, chan>>
  <2>1. Shaped'
    BY <1>1, <1>5, PoolStaysStill DEF Shaped, TypeOK, OneEach
  <2> QED
    BY <1>1, <1>2, <1>3, <1>5, <2>1, PoolStaysStill DEF Still
<1> QED
  BY <1>1, <1>4, <1>5

LEMMA WriteSentDoes ==
  ASSUME IInv, WriteSent
  PROVE  Shaped' /\ (Still \/ Loses) /\ PoolStays /\ Onward
<1> USE DEF IInv
<1>1. /\ PoolStays /\ main = "write" /\ main' \in {"loop", "emit"}
      /\ UNCHANGED <<halt, chan, rxOpen, pending, result, written, late, outcome>>
      /\ batch' = IF stopping THEN <<>> ELSE batch
  BY DEF WriteSent, PoolStays
<1>2. Onward
  BY <1>1, PoolStaysStill DEF Onward, Ended
<1>3. Done' = Done /\ Held = {} /\ Held' = {} /\ Outs(chan)' = Outs(chan)
  BY <1>1, HeldIs DEF Done
<1>4. CASE stopping
  <2>1. batch' = <<>>
    BY <1>1, <1>4
  <2>2. Outs(batch)' = {} /\ Once(batch)' /\ batch' \in Seq(Record)
    BY <2>1, OutsNone
  <2>3. Shaped'
    BY <1>1, <2>2, PoolStaysStill DEF Shaped, TypeOK, OneEach
  <2>4. Loses
    BY <1>1, <1>3, <1>4, <2>2, PoolStaysStill DEF Loses
  <2> QED
    BY <1>1, <1>2, <2>3, <2>4
<1>5. CASE ~stopping
  <2>1. batch' = batch
    BY <1>1, <1>5
  <2>2. Shaped'
    BY <1>1, <2>1, PoolStaysStill DEF Shaped, TypeOK, OneEach
  <2>3. Still
    BY <1>1, <1>3, <2>1, PoolStaysStill DEF Still
  <2> QED
    BY <1>1, <1>2, <2>2, <2>3
<1> QED
  BY <1>4, <1>5

\* A failed write, at a record or at a result that is due.
LEMMA FailsDoes ==
  ASSUME IInv, Fails, PoolStays, main \notin Ended, UNCHANGED <<halt, chan, rxOpen, outcome>>
  PROVE  Shaped' /\ Loses /\ Onward
<1> USE DEF IInv
<1>1. main' = "halt" /\ result' = "error" /\ UNCHANGED <<batch, written, late, pending>>
  BY DEF Fails
<1>2. Done' = Done /\ Held' = {} /\ Outs(chan)' = Outs(chan) /\ Outs(batch)' = Outs(batch)
  BY <1>1, HeldIs DEF Done
<1>3. Shaped'
  BY <1>1, PoolStaysStill DEF Shaped, TypeOK, OneEach
<1> QED
  BY <1>1, <1>2, <1>3, PoolStaysStill DEF Loses, Onward, Ended

\* What a record's turn comes to: a write that fails, a result written, one
\* kept until it is due, or a record without a result.
EmitWrites(i) ==
  /\ order = "ready" /\ i \in Outs(batch) /\ Wrote(i) /\ main' = "write"
  /\ UNCHANGED <<pending, result>>
EmitWaits == order = "input" /\ main' = "flush" /\ UNCHANGED <<result, written, late>> /\ Waits
EmitPasses == main' = "write" /\ UNCHANGED <<result, written, late, pending>> /\ Still

LEMMA EmitDoes ==
  ASSUME IInv, Emit
  PROVE  /\ Shaped' /\ PoolStays /\ Onward /\ UNCHANGED <<halt, chan, rxOpen, outcome>>
         /\ \/ Fails /\ Loses
            \/ EmitWaits
            \/ EmitPasses
            \/ (\E i \in 1..N : EmitWrites(i)) /\ Writes
<1> USE DEF IInv
<1> DEFINE h == Head(batch)
<1>1. /\ PoolStays /\ main = "emit" /\ UNCHANGED <<halt, chan, rxOpen, outcome>>
      /\ batch # <<>> /\ batch \in Seq(Record)
  BY DEF Emit, PoolStays, Batched, TypeOK
<1>2. /\ batch' = Tail(batch) =>
           /\ batch' \in Seq(Record) /\ Once(batch)'
           /\ Outs(batch)' = Outs(batch) \ (IF h.kind = "output" THEN {h.item} ELSE {})
      /\ h \in Record
      /\ h.kind = "output" => h.item \in Outs(batch) /\ h.item \in 1..N
      /\ h.kind \in {"output", "progress", "terminating", "text"}
  BY <1>1, OutsTail, RecordOuts DEF OneEach
<1> HIDE DEF h
<1>3. \/ Fails
      \/ /\ h.kind = "output" /\ order = "ready" /\ Wrote(h.item)
         /\ main' = "write" /\ batch' = Tail(batch) /\ UNCHANGED <<pending, result>>
      \/ /\ h.kind = "output" /\ order = "input" /\ pending' = pending \cup {h.item}
         /\ main' = "flush" /\ batch' = Tail(batch) /\ UNCHANGED <<result, written, late>>
      \/ /\ h.kind # "output" /\ main' = "write" /\ batch' = Tail(batch)
         /\ UNCHANGED <<pending, result, written, late>>
  <2>1. CASE h.kind = "output"
    BY <2>1 DEF Emit, EmitOutput, h
  <2>2. CASE h.kind = "terminating"
    BY <2>2 DEF Emit, h
  <2>3. CASE h.kind = "text"
    BY <2>3 DEF Emit, h
  <2>4. CASE h.kind = "progress"
    BY <2>4 DEF Emit, h
  <2> QED
    BY <1>2, <2>1, <2>2, <2>3, <2>4
<1>4. Held = {} /\ (main' \in {"write", "flush", "halt"} => Held' = {}) /\ Outs(chan)' = Outs(chan)
  BY <1>1, HeldIs
<1>5. main' \in {"write", "flush", "halt"} => Onward
  BY <1>1, PoolStaysStill DEF Onward, Ended
<1>6. CASE Fails
  <2>1. main \notin Ended
    BY <1>1 DEF Ended
  <2> QED
    BY <1>1, <1>6, <2>1, FailsDoes
<1>7. CASE /\ h.kind = "output" /\ order = "ready" /\ Wrote(h.item)
           /\ main' = "write" /\ batch' = Tail(batch) /\ UNCHANGED <<pending, result>>
  <2>1. h.item \in Outs(batch) /\ h.item \in 1..N /\ h.item \notin Done
    BY <1>2, <1>7 DEF Spread, Apart
  <2>2. /\ written' \in Seq(1..N) /\ Done' = Done \cup {h.item}
        /\ \A j, k \in DOMAIN written' : written'[j] = written'[k] => j = k
    BY <1>7, <2>1, WroteDoes
  <2>3. late' \in {0, 1}
    BY <1>1, <1>7 DEF Wrote, OneLate, TypeOK
  <2>4. Shaped'
    BY <1>1, <1>2, <1>7, <2>2, <2>3, PoolStaysStill DEF Shaped, TypeOK, OneEach
  <2>5. Writes
    BY <1>2, <1>4, <1>7, <2>1, <2>2, <1>1, PoolStaysStill DEF Writes
  <2>6. EmitWrites(h.item)
    BY <1>7, <2>1 DEF EmitWrites
  <2> QED
    BY <1>1, <1>5, <1>7, <2>1, <2>4, <2>5, <2>6
<1>8. CASE /\ h.kind = "output" /\ order = "input" /\ pending' = pending \cup {h.item}
           /\ main' = "flush" /\ batch' = Tail(batch) /\ UNCHANGED <<result, written, late>>
  <2>1. h.item \in Outs(batch) /\ h.item \in 1..N /\ Done' = Done
    BY <1>2, <1>8 DEF Done
  <2>2. Shaped'
    BY <1>1, <1>2, <1>8, <2>1, PoolStaysStill DEF Shaped, TypeOK, OneEach
  <2>3. Waits
    BY <1>2, <1>4, <1>8, <2>1, <1>1, PoolStaysStill DEF Waits
  <2> QED
    BY <1>1, <1>5, <1>8, <2>2, <2>3 DEF EmitWaits
<1>9. CASE /\ h.kind # "output" /\ main' = "write" /\ batch' = Tail(batch)
           /\ UNCHANGED <<pending, result, written, late>>
  <2>1. Done' = Done /\ Outs(batch)' = Outs(batch)
    BY <1>2, <1>9 DEF Done
  <2>2. Shaped'
    BY <1>1, <1>2, <1>9, <2>1, PoolStaysStill DEF Shaped, TypeOK, OneEach
  <2>3. Still
    BY <1>2, <1>4, <1>9, <2>1, <1>1, PoolStaysStill DEF Still
  <2> QED
    BY <1>1, <1>5, <1>9, <2>2, <2>3 DEF EmitPasses
<1> QED
  BY <1>3, <1>6, <1>7, <1>8, <1>9

LEMMA FlushDoes ==
  ASSUME IInv, Flush
  PROVE  Shaped' /\ (Still \/ ComesUp \/ Loses) /\ PoolStays /\ Onward
<1> USE DEF IInv
<1>1. /\ PoolStays /\ main = "flush" /\ main' \in {"write", "put"}
      /\ UNCHANGED <<halt, chan, rxOpen, batch, result, written, late, outcome>>
  BY DEF Flush, PoolStays
<1>2. Onward
  BY <1>1, PoolStaysStill DEF Onward, Ended
<1>3. Done' = Done /\ Held = {} /\ Outs(chan)' = Outs(chan) /\ Outs(batch)' = Outs(batch)
  BY <1>1, HeldIs DEF Done
<1>4. pending' \subseteq pending
  BY DEF Flush
<1>5. Shaped'
  BY <1>1, <1>4, PoolStaysStill DEF Shaped, TypeOK, OneEach
<1>6. CASE Len(written) + 1 \notin pending
  <2>1. pending' = pending /\ main' = "write"
    BY <1>6 DEF Flush
  <2>2. Held' = {}
    BY <2>1, HeldIs
  <2> QED
    BY <1>1, <1>2, <1>3, <1>5, <2>1, <2>2, PoolStaysStill DEF Still
<1>7. CASE Len(written) + 1 \in pending /\ stopping
  <2>1. main' = "write"
    BY <1>7 DEF Flush
  <2>2. Held' = {}
    BY <2>1, HeldIs
  <2>3. Loses
    BY <1>1, <1>3, <1>4, <1>7, <2>2, PoolStaysStill DEF Loses
  <2> QED
    BY <1>1, <1>2, <1>5, <2>3
<1>8. CASE Len(written) + 1 \in pending /\ ~stopping
  <2>1. main' = "put" /\ pending' = pending \ {Len(written) + 1}
    BY <1>8 DEF Flush
  <2>2. Held' = {Len(written) + 1}
    BY <1>1, <2>1 DEF Held
  <2>3. ComesUp
    BY <1>1, <1>3, <1>8, <2>1, <2>2, PoolStaysStill DEF ComesUp
  <2> QED
    BY <1>1, <1>2, <1>5, <2>3
<1> QED
  BY <1>6, <1>7, <1>8

PutWrites(i) == /\ i = Len(written) + 1 /\ i \in Held /\ i \in 1..N
                /\ Wrote(i) /\ main' = "flush" /\ UNCHANGED <<pending, result>>

LEMMA PutDoes ==
  ASSUME IInv, Put
  PROVE  /\ Shaped' /\ PoolStays /\ Onward /\ UNCHANGED <<halt, chan, rxOpen, batch, outcome>>
         /\ \/ Fails /\ Loses
            \/ PutWrites(Len(written) + 1) /\ Puts
<1> USE DEF IInv
<1> DEFINE i == Len(written) + 1
<1>1. /\ PoolStays /\ main = "put" /\ UNCHANGED <<halt, chan, rxOpen, batch, outcome>>
      /\ \/ Wrote(i) /\ main' = "flush" /\ UNCHANGED <<pending, result>>
         \/ Fails
  BY DEF Put, PoolStays, Fails
<1>2. Held = {i} /\ i \in 1..N /\ i \notin Done
  <2>1. Held = {i}
    BY <1>1 DEF Held
  <2>2. i \in Claimed
    BY <2>1 DEF Spread, Somewhere
  <2>3. i \in 1..N
    BY <2>2 DEF Claimed
  <2> QED
    BY <2>1, <2>3 DEF Spread, Apart
<1> HIDE DEF i
<1>3. CASE Fails
  <2>1. main \notin Ended
    BY <1>1 DEF Ended
  <2> QED
    BY <1>1, <1>3, <2>1, FailsDoes
<1>4. CASE Wrote(i) /\ main' = "flush" /\ UNCHANGED <<pending, result>>
  <2>1. /\ written' \in Seq(1..N) /\ Done' = Done \cup {i}
        /\ \A j, k \in DOMAIN written' : written'[j] = written'[k] => j = k
    BY <1>2, <1>4, WroteDoes
  <2>2. late' \in {0, 1}
    BY <1>1, <1>4 DEF Wrote, OneLate, TypeOK
  <2>3. Shaped'
    BY <1>1, <1>4, <2>1, <2>2, PoolStaysStill DEF Shaped, TypeOK, OneEach
  <2>4. Held' = {}
    BY <1>4, HeldIs
  <2>5. Puts
    BY <1>1, <1>2, <1>4, <2>1, <2>4, PoolStaysStill DEF Puts
  <2>6. Onward
    BY <1>1, <1>4, PoolStaysStill DEF Onward, Ended
  <2> QED
    BY <1>1, <1>2, <1>4, <2>3, <2>5, <2>6 DEF PutWrites, i
<1> QED
  BY <1>1, <1>3, <1>4

LEMMA HaltDoes ==
  ASSUME IInv, Halt
  PROVE  Shaped' /\ Loses /\ PoolStays /\ Onward
<1> USE DEF IInv
<1>1. /\ PoolStays /\ main = "halt" /\ main' = "join" /\ halt' = TRUE /\ rxOpen' = FALSE
      /\ chan' = <<>> /\ batch' = <<>>
      /\ UNCHANGED <<pending, result, written, late, outcome>>
  BY DEF Halt, PoolStays
<1>2. /\ Outs(chan)' = {} /\ Once(chan)' /\ chan' \in Seq(Record)
      /\ Outs(batch)' = {} /\ Once(batch)' /\ batch' \in Seq(Record)
  BY <1>1, OutsNone
<1>3. Done' = Done /\ Held' = {}
  BY <1>1, HeldIs DEF Done
<1>4. Shaped'
  BY <1>1, <1>2, PoolStaysStill DEF Shaped, TypeOK, OneEach
<1> QED
  BY <1>1, <1>2, <1>3, <1>4, PoolStaysStill DEF Loses, Onward, Ended

LEMMA JoinDoes ==
  ASSUME IInv, Join
  PROVE  Shaped' /\ Still /\ PoolStays /\ Onward
<1> USE DEF IInv
<1>1. /\ PoolStays /\ main = "join" /\ main' = "returned"
      /\ outcome' \in {"ok", "error", "panic"}
      /\ UNCHANGED <<halt, chan, rxOpen, batch, pending, result, written, late>>
  BY DEF Join, PoolStays, TypeOK
<1>2. Done' = Done /\ Held' = {} /\ Held = {} /\ Outs(chan)' = Outs(chan) /\ Outs(batch)' = Outs(batch)
  BY <1>1, HeldIs DEF Done
<1>3. Shaped'
  BY <1>1, PoolStaysStill DEF Shaped, TypeOK, OneEach
<1> QED
  BY <1>1, <1>2, <1>3, PoolStaysStill DEF Still, Onward, Ended

\* A stop, or no step at all, moves no item.
LEMMA StopDoes ==
  ASSUME IInv, Stop \/ UNCHANGED vars
  PROVE  /\ Shaped' /\ Still /\ Onward
         /\ UNCHANGED <<cursor, halt, worker, panicked, coord, rxOpen, chan, batch, pending, result,
                        written, late, main, outcome, order>>
<1> USE DEF IInv
<1>1. /\ UNCHANGED <<cursor, halt, worker, panicked, coord, stray, rxOpen, chan, batch,
                     pending, result, written, late, main, outcome, order>>
      /\ stopping' \in BOOLEAN /\ (stopping => stopping')
  <2>1. CASE Stop
    BY <2>1 DEF Stop, pool, drain
  <2>2. CASE UNCHANGED vars
    BY <2>2 DEF vars, TypeOK
  <2> QED
    BY <2>1, <2>2
<1>2. Shaped' /\ Still
  BY <1>1 DEF Shaped, TypeOK, OneEach, InJob, Still, Claimed, InF, Done, Held
<1> QED
  BY <1>1, <1>2 DEF Onward

-----------------------------------------------------------------------------
(* The invariant *)

\* A call begins with nothing claimed, sent or written.
LEMMA InitInv == Init => IInv
<1> SUFFICES ASSUME Init PROVE IInv
  OBVIOUS
<1>1. /\ cursor = 0 /\ halt = FALSE /\ panicked = {} /\ coord = "running" /\ stray = FALSE
      /\ chan = <<>> /\ rxOpen = TRUE /\ main = "loop" /\ batch = <<>>
      /\ pending = {} /\ result = "ok" /\ stopping = FALSE /\ written = <<>> /\ late = 0
      /\ outcome = "none" /\ order \in {"ready", "input", "none"}
      /\ \A t \in Threads : worker[t] = [pc |-> "halt", item |-> 0]
  BY DEF Init
<1>2. worker \in [Threads -> [pc : {"halt", "next", "done"}, item : {0}]
                            \cup [pc : {"run", "sent"}, item : 1..N]]
  BY DEF Init
<1>3. chan \in Seq(Record) /\ batch \in Seq(Record) /\ written \in Seq(1..N)
  BY <1>1
<1>4. TypeOK
  BY <1>1, <1>2, <1>3 DEF TypeOK
<1>5. /\ InF = {} /\ Outs(chan) = {} /\ Outs(batch) = {} /\ Done = {} /\ Held = {} /\ Claimed = {}
      /\ Once(chan) /\ Once(batch) /\ DOMAIN written = {}
  <2>0. \A t \in Threads : worker[t].pc = "halt"
    BY DEF Init
  <2>1. \A t \in Threads : ~InJob(t)
    BY <2>0 DEF InJob
  <2>2. InF = {}
    BY <2>1, InFIn
  <2>3. DOMAIN written = {}
    BY <1>1
  <2>4. Claimed = {}
    BY <1>1 DEF Claimed
  <2> QED
    BY <1>1, <2>2, <2>3, <2>4, OutsNone DEF Done, Held
<1>6. Spread /\ OneEach /\ NoneLost
  BY <1>1, <1>5 DEF Spread, Somewhere, Apart, OneEach, InJob, NoneLost
<1>7. InTurn /\ Flushed /\ Batched
  BY <1>1, <1>5 DEF InTurn, Flushed, Batched, Ended
<1>8. Halted /\ OneLate /\ Returned /\ Complete
  BY <1>1 DEF Halted, OneLate, Returned, Complete, Ended
<1> QED
  BY <1>4, <1>6, <1>7, <1>8 DEF IInv

\* A sequence that has each item once is as long as they are many.
LEMMA AllWritten ==
  ASSUME TypeOK, OneEach, 1..N \subseteq Done
  PROVE  Len(written) = N
<1>1. written \in [1..Len(written) -> 1..N] /\ Len(written) \in Nat
  BY DEF TypeOK
<1>2. written \in Injection(1..Len(written), 1..N)
  BY <1>1 DEF OneEach, Injection, IsInjective
<1>3. \A i \in 1..N : \E k \in 1..Len(written) : written[k] = i
  BY <1>1 DEF Done
<1>4. written \in Surjection(1..Len(written), 1..N)
  BY <1>1, <1>3 DEF Surjection
<1>5. IsFiniteSet(1..N) /\ Cardinality(1..N) = N /\ Cardinality(1..Len(written)) = Len(written)
  <2>1. IsFiniteSet(1..N) /\ Cardinality(1..N) = IF 1 > N THEN 0 ELSE N - 1 + 1
    BY FS_Interval
  <2>2. Cardinality(1..Len(written)) = IF 1 > Len(written) THEN 0 ELSE Len(written) - 1 + 1
    BY <1>1, FS_Interval
  <2> QED
    BY <1>1, <2>1, <2>2
<1>6. Cardinality(1..Len(written)) = Cardinality(1..N)
  BY <1>2, <1>4, <1>5, FS_Injection
<1> QED
  BY <1>5, <1>6

\* Once the work has ended and what it sent is used up, every item has run and
\* every result is written.
LEMMA EndOfWork ==
  ASSUME IInv, coord # "running", chan = <<>>, main \in {"loop", "late"}, ~stopping, panicked = {}
  PROVE  cursor >= N /\ (order # "none" => Len(written) = N)
<1> USE DEF IInv
<1>1. ~halt
  BY DEF Halted
<1>2. PICK t \in Threads : worker[t].pc = "done"
  BY DEF Halted
<1>3. cursor >= N
  BY <1>1, <1>2 DEF Halted
<1>4. ASSUME order # "none" PROVE Len(written) = N
  <2>1. \A u \in Threads : ~InJob(u)
    BY DEF Halted, InJob
  <2>2. InF = {}
    BY <2>1, InFIn
  <2>3. Outs(chan) = {} /\ Outs(batch) = {} /\ Held = {}
    BY OutsNone, HeldIs DEF Batched
  <2>4. Claimed = 1..N
    BY <1>3 DEF Claimed, TypeOK
  <2>5. 1..N \subseteq pending \cup Done
    BY <1>4, <2>2, <2>3, <2>4 DEF NoneLost, Ended, Somewhere
  <2>6. CASE pending = {}
    BY <2>5, <2>6, AllWritten
  <2>7. CASE pending # {}
    <3>1. order = "input" /\ Len(written) + 1 \notin pending
      BY <2>7 DEF InTurn, Flushed, Ended
    <3>2. Len(written) \in Nat /\ written \in Seq(1..N)
      BY DEF TypeOK
    <3>3. \A k \in 1..Len(written) : written[k] = k
      BY <3>1, <3>2 DEF InTurn
    <3>4. Len(written) + 1 \notin Done
      BY <3>2, <3>3 DEF Done
    <3>5. Len(written) + 1 \notin 1..N
      BY <2>5, <3>1, <3>4
    <3>6. ~(Len(written) > N)
      <4>1. SUFFICES ASSUME Len(written) > N PROVE FALSE
        OBVIOUS
      <4>2. N + 1 \in 1..Len(written)
        BY <3>2, <4>1
      <4>3. written[N + 1] = N + 1 /\ written[N + 1] \in 1..N
        BY <3>2, <3>3, <4>2
      <4> QED
        BY <4>3
    <3> QED
      BY <3>2, <3>5, <3>6
  <2> QED
    BY <2>6, <2>7
<1> QED
  BY <1>3, <1>4

Rest == InTurn /\ Flushed /\ Batched /\ OneLate /\ Returned /\ Complete

\* What the other threads do leaves the cmdlet's thread its part.
LEMMA PoolRest ==
  ASSUME IInv, MainStays, Shaped', coord' = coord \/ coord # "finished",
         panicked \subseteq panicked', cursor' >= cursor
  PROVE  Rest'
<1> USE DEF IInv
<1>1. UNCHANGED <<batch, pending, written, main, late, result, outcome, order, stopping>>
  BY MainStaysStill
<1>2. InTurn' /\ Flushed' /\ Batched' /\ OneLate'
  BY <1>1 DEF InTurn, Flushed, Batched, OneLate
<1>3. Returned'
  BY <1>1 DEF Returned
<1>4. Complete'
  BY <1>1 DEF Complete, TypeOK, Shaped
<1> QED
  BY <1>2, <1>3, <1>4 DEF Rest

LEMMA PoolKeeps ==
  ASSUME IInv, \/ \E t \in Threads : WorkerStep(t)
               \/ CoordinatorEnds \/ StraySend \/ StrayDrop
  PROVE  Shaped' /\ Moves /\ Onward /\ Halted' /\ Rest'
<1>0. TypeOK /\ Halted
  BY DEF IInv
<1>1. ASSUME NEW t \in Threads, ReadHalt(t) PROVE Shaped' /\ Moves /\ Onward /\ Halted' /\ Rest'
  <2>1. Shaped' /\ Still /\ MainStays
    BY <1>1, ReadHaltDoes
  <2>2. UNCHANGED <<cursor, coord, panicked, halt, rxOpen>> /\ main' = main
    BY <1>1, <2>1, MainStaysStill DEF ReadHalt
  <2>3. Halted'
    BY <1>1, <2>2, <1>0 DEF ReadHalt, Goto, Halted, TypeOK
  <2>4. Rest'
    BY <1>0, <2>1, <2>2, PoolRest DEF TypeOK
  <2> QED
    BY <2>1, <2>3, <2>4, MainStaysStill DEF Moves
<1>2. ASSUME NEW t \in Threads, Claim(t) PROVE Shaped' /\ Moves /\ Onward /\ Halted' /\ Rest'
  <2>1. Shaped' /\ (Still \/ Claims) /\ MainStays
    BY <1>2, ClaimDoes
  <2>2. UNCHANGED <<coord, panicked, halt, rxOpen>> /\ main' = main /\ cursor' = cursor + 1
    BY <1>2, <2>1, MainStaysStill DEF Claim
  <2>3. Halted'
    BY <1>2, <2>2, <1>0 DEF Claim, Halted, TypeOK
  <2>4. Rest'
    BY <1>0, <2>1, <2>2, PoolRest DEF TypeOK
  <2> QED
    BY <2>1, <2>3, <2>4, MainStaysStill DEF Moves
<1>3. ASSUME NEW t \in Threads, SendSide(t) PROVE Shaped' /\ Moves /\ Onward /\ Halted' /\ Rest'
  <2>1. Shaped' /\ Still /\ MainStays
    BY <1>3, SendSideDoes
  <2>2. UNCHANGED <<cursor, coord, panicked, halt, rxOpen>> /\ main' = main
    BY <1>3, <2>1, MainStaysStill DEF SendSide
  <2>3. Halted'
    BY <1>3, <2>2, <1>0 DEF SendSide, Halted, TypeOK
  <2>4. Rest'
    BY <1>0, <2>1, <2>2, PoolRest DEF TypeOK
  <2> QED
    BY <2>1, <2>3, <2>4, MainStaysStill DEF Moves
<1>4. ASSUME NEW t \in Threads, Panic(t) PROVE Shaped' /\ Moves /\ Onward /\ Halted' /\ Rest'
  <2>1. Shaped' /\ Panics /\ MainStays
    BY <1>4, PanicDoes
  <2>2. /\ UNCHANGED <<cursor, coord, rxOpen>> /\ main' = main /\ halt' = TRUE
        /\ panicked' = panicked \cup {worker[t].item}
    BY <1>4, <2>1, MainStaysStill DEF Panic
  <2>3. Halted'
    BY <1>4, <2>2, <1>0 DEF Panic, Goto, Halted, TypeOK
  <2>4. Rest'
    BY <1>0, <2>1, <2>2, PoolRest DEF TypeOK
  <2> QED
    BY <2>1, <2>3, <2>4, MainStaysStill DEF Moves
<1>5. ASSUME NEW t \in Threads, Finish(t) PROVE Shaped' /\ Moves /\ Onward /\ Halted' /\ Rest'
  <2>1. Shaped' /\ (Sends \/ Loses) /\ MainStays
    BY <1>5, FinishDoes
  <2>2. /\ UNCHANGED <<cursor, coord, panicked, rxOpen>> /\ main' = main
        /\ halt' \in {halt, halt \/ ~rxOpen}
    BY <1>5, <2>1, MainStaysStill DEF Finish
  <2>3. Halted'
    BY <1>5, <2>2, <1>0 DEF Finish, Goto, Halted, TypeOK
  <2>4. Rest'
    BY <1>0, <2>1, <2>2, PoolRest DEF TypeOK
  <2> QED
    BY <2>1, <2>3, <2>4, MainStaysStill DEF Moves
<1>6. CASE (\E t \in Threads : KeepHandle(t)) \/ CoordinatorEnds \/ StraySend \/ StrayDrop
  <2>1. Shaped' /\ Still /\ MainStays
    BY <1>6, AsideDoes
  <2>2. /\ UNCHANGED <<cursor, worker, panicked, halt, rxOpen>> /\ main' = main
        /\ coord' = coord \/ (coord # "finished" /\ coord' # "running"
                              /\ \A t \in Threads : worker[t].pc = "done")
    <3>1. main' = main
      BY <2>1, MainStaysStill
    <3>2. CASE CoordinatorEnds
      BY <3>1, <3>2, <1>0 DEF CoordinatorEnds, Halted
    <3>3. CASE (\E t \in Threads : KeepHandle(t)) \/ StraySend \/ StrayDrop
      BY <3>1, <3>3 DEF KeepHandle, StraySend, StrayDrop
    <3> QED
      BY <1>6, <3>2, <3>3
  <2>3. Halted'
    BY <2>2, <1>0 DEF Halted
  <2>4. Rest'
    BY <1>0, <2>1, <2>2, PoolRest DEF TypeOK
  <2> QED
    BY <2>1, <2>3, <2>4, MainStaysStill DEF Moves
<1> QED
  BY <1>1, <1>2, <1>3, <1>4, <1>5, <1>6 DEF WorkerStep, Advance

\* The pool's part is kept by a step of the cmdlet's thread.
LEMMA MainHalted ==
  ASSUME IInv, PoolStays, main \notin {"join", "returned"}, UNCHANGED <<halt, rxOpen>>
  PROVE  Halted'
<1>1. UNCHANGED <<cursor, worker, panicked, coord>>
  BY PoolStaysStill
<1> QED
  BY <1>1 DEF IInv, Halted

LEMMA DrainKeeps ==
  ASSUME IInv, RecvTimeout \/ ReadFinished \/ Collect \/ WriteSent
  PROVE  Halted' /\ Rest'
<1> USE DEF IInv
<1>1. /\ PoolStays /\ main \in {"loop", "late", "collect", "write"}
      /\ UNCHANGED <<halt, rxOpen, pending, result, written, late, outcome>>
  BY DEF RecvTimeout, ReadFinished, Collect, WriteSent, PoolStays
<1>2. UNCHANGED <<order, cursor, panicked, coord, stopping>>
  BY <1>1, PoolStaysStill
<1>3. Halted'
  BY <1>1, MainHalted
<1>4. main' \in {"loop", "late", "collect", "write", "emit", "halt"}
  BY DEF RecvTimeout, ReadFinished, Collect, WriteSent, First
<1>5. InTurn' /\ Flushed'
  BY <1>1, <1>2, <1>4 DEF InTurn, Flushed, Ended
<1>6. Batched'
  <2>1. CASE RecvTimeout \/ ReadFinished
    BY <2>1 DEF RecvTimeout, ReadFinished, First, Batched
  <2>2. CASE Collect
    BY <2>2 DEF Collect, Batched
  <2>3. CASE WriteSent
    BY <2>3 DEF WriteSent, Batched
  <2> QED
    BY <2>1, <2>2, <2>3
<1>7. OneLate'
  <2>1. main' = "emit" => ~stopping
    BY DEF RecvTimeout, ReadFinished, Collect, WriteSent, First
  <2> QED
    BY <1>1, <1>2, <1>4, <2>1 DEF OneLate
<1>8. Returned'
  BY <1>1, <1>2, <1>4 DEF Returned, Ended
<1>9. Complete'
  <2>1. SUFFICES ASSUME main' = "halt", ~stopping, panicked = {}
                 PROVE  cursor >= N /\ (order # "none" => Len(written) = N)
    BY <1>1, <1>2, <1>4 DEF Complete, Ended
  <2>2. coord # "running" /\ chan = <<>> /\ main \in {"loop", "late"}
    <3>1. CASE RecvTimeout
      BY <2>1, <3>1 DEF RecvTimeout, First, Disconnected
    <3>2. CASE ReadFinished
      BY <2>1, <3>2 DEF ReadFinished, First
    <3>3. CASE Collect \/ WriteSent
      BY <2>1, <3>3 DEF Collect, WriteSent
    <3> QED
      BY <3>1, <3>2, <3>3
  <2> QED
    BY <2>1, <2>2, EndOfWork
<1> QED
  BY <1>3, <1>5, <1>6, <1>7, <1>8, <1>9 DEF Rest

\* A failed write ends the drain.
LEMMA FailsRest ==
  ASSUME IInv, Fails, PoolStays, main \notin Ended, UNCHANGED <<halt, rxOpen, outcome>>
  PROVE  Halted' /\ Rest'
<1> USE DEF IInv
<1>1. main' = "halt" /\ result' = "error" /\ UNCHANGED <<batch, written, late, pending>>
  BY DEF Fails
<1>2. UNCHANGED <<order, cursor, panicked, coord, stopping>>
  BY PoolStaysStill
<1>3. Halted'
  BY MainHalted DEF Ended
<1>4. InTurn' /\ Flushed' /\ Batched' /\ OneLate' /\ Returned' /\ Complete'
  BY <1>1, <1>2 DEF InTurn, Flushed, Batched, OneLate, Returned, Complete, Ended
<1> QED
  BY <1>3, <1>4 DEF Rest

LEMMA EmitKeeps ==
  ASSUME IInv, Emit
  PROVE  Halted' /\ Rest'
<1> USE DEF IInv
<1>1. /\ PoolStays /\ UNCHANGED <<halt, rxOpen, outcome>>
      /\ main = "emit" /\ main \notin Ended
      /\ \/ Fails
         \/ EmitWaits
         \/ EmitPasses
         \/ \E i \in 1..N : EmitWrites(i)
  BY EmitDoes DEF Emit, Ended
<1>2. UNCHANGED <<order, cursor, panicked, coord, stopping>>
  BY <1>1, PoolStaysStill
<1>3. Halted'
  BY <1>1, MainHalted
<1>4. CASE Fails
  BY <1>1, <1>4, FailsRest
<1>5. CASE EmitWaits
  BY <1>1, <1>2, <1>3, <1>5
     DEF EmitWaits, Rest, InTurn, Flushed, Batched, OneLate, Returned, Complete, Ended
<1>6. CASE EmitPasses
  BY <1>1, <1>2, <1>3, <1>6
     DEF EmitPasses, Rest, InTurn, Flushed, Batched, OneLate, Returned, Complete, Ended
<1>7. ASSUME NEW i \in 1..N, EmitWrites(i) PROVE Halted' /\ Rest'
  <2>1. /\ order = "ready" /\ main' = "write" /\ result' = result /\ order' = "ready"
        /\ late' = IF stopping THEN late + 1 ELSE late
    BY <1>2, <1>7 DEF EmitWrites, Wrote
  <2>2. pending' = {}
    BY <1>7, <2>1 DEF EmitWrites, InTurn
  <2>3. InTurn' /\ Flushed' /\ Batched' /\ Returned' /\ Complete'
    BY <1>1, <1>2, <2>1, <2>2 DEF InTurn, Flushed, Batched, Returned, Complete, Ended
  <2>4. OneLate'
    BY <1>1, <1>2, <2>1 DEF OneLate, TypeOK
  <2> QED
    BY <1>3, <2>3, <2>4 DEF Rest
<1> QED
  BY <1>1, <1>4, <1>5, <1>6, <1>7

LEMMA FlushKeeps ==
  ASSUME IInv, Flush
  PROVE  Halted' /\ Rest'
<1> USE DEF IInv
<1>1. /\ PoolStays /\ UNCHANGED <<halt, rxOpen, outcome, batch, result, written, late>>
      /\ main = "flush" /\ main' \in {"write", "put"} /\ order = "input"
  BY DEF Flush, PoolStays, InTurn
<1>2. UNCHANGED <<order, cursor, panicked, coord, stopping>>
  BY <1>1, PoolStaysStill
<1>3. Halted'
  BY <1>1, MainHalted
<1>4. Flushed'
  BY <1>1, <1>2 DEF Flush, Flushed
<1>5. OneLate'
  BY <1>1, <1>2 DEF Flush, OneLate
<1>6. InTurn' /\ Batched' /\ Returned' /\ Complete'
  BY <1>1, <1>2 DEF InTurn, Batched, Returned, Complete, Ended
<1> QED
  BY <1>3, <1>4, <1>5, <1>6 DEF Rest

LEMMA PutKeeps ==
  ASSUME IInv, Put
  PROVE  Halted' /\ Rest'
<1> USE DEF IInv
<1>1. /\ PoolStays /\ UNCHANGED <<halt, rxOpen, outcome, batch>>
      /\ main = "put" /\ main \notin Ended /\ order = "input"
      /\ Fails \/ PutWrites(Len(written) + 1)
  BY PutDoes DEF Put, Ended, InTurn
<1>2. UNCHANGED <<order, cursor, panicked, coord, stopping>>
  BY <1>1, PoolStaysStill
<1>3. Halted'
  BY <1>1, MainHalted
<1>4. CASE Fails
  BY <1>1, <1>4, FailsRest
<1>5. CASE PutWrites(Len(written) + 1)
  <2>1. /\ main' = "flush" /\ UNCHANGED <<pending, result>>
        /\ Len(written) + 1 \in 1..N /\ Wrote(Len(written) + 1)
        /\ late' = IF stopping THEN late + 1 ELSE late
    BY <1>5 DEF PutWrites, Wrote
  <2>2. \A k \in DOMAIN written' : written'[k] = k
    <3>1. /\ written'[Len(written) + 1] = Len(written) + 1
          /\ \A k \in DOMAIN written : written'[k] = written[k]
          /\ \A k \in DOMAIN written' : k \in DOMAIN written \/ k = Len(written) + 1
      BY <2>1, WroteDoes
    <3> QED
      BY <1>1, <3>1 DEF InTurn
  <2>3. InTurn' /\ Flushed' /\ Batched' /\ Returned' /\ Complete'
    BY <1>1, <1>2, <2>1, <2>2 DEF InTurn, Flushed, Batched, Returned, Complete, Ended
  <2>4. OneLate'
    BY <1>1, <1>2, <2>1 DEF OneLate, TypeOK
  <2> QED
    BY <1>3, <2>3, <2>4 DEF Rest
<1> QED
  BY <1>1, <1>4, <1>5

LEMMA EndKeeps ==
  ASSUME IInv, Halt \/ Join
  PROVE  Halted' /\ Rest'
<1> USE DEF IInv
<1>1. /\ PoolStays /\ UNCHANGED <<pending, result, written, late>>
      /\ main \in {"halt", "join"} /\ main' \in {"join", "returned"}
      /\ main' = "returned" => coord = "finished" /\ outcome' # "none" 
      /\ main' = "join" => outcome' = outcome
      /\ halt' = halt \/ halt' = TRUE
  <2>1. CASE Halt
    BY <2>1 DEF Halt, PoolStays
  <2>2. CASE Join
    BY <2>2 DEF Join, PoolStays, TypeOK
  <2> QED
    BY <2>1, <2>2
<1>2. UNCHANGED <<order, cursor, panicked, coord, stopping, worker>>
  BY <1>1, PoolStaysStill
<1>3. Halted'
  BY <1>1, <1>2 DEF Halted
<1>4. InTurn' /\ Flushed' /\ Batched' /\ OneLate' /\ Returned' /\ Complete'
  BY <1>1, <1>2 DEF InTurn, Flushed, Batched, OneLate, Returned, Complete, Ended
<1> QED
  BY <1>3, <1>4 DEF Rest

LEMMA StopKeeps ==
  ASSUME IInv, Stop \/ UNCHANGED vars
  PROVE  Halted' /\ Rest'
<1>1. /\ UNCHANGED <<cursor, halt, worker, panicked, coord, rxOpen, chan, batch, pending, result,
                     written, late, main, outcome, order>>
      /\ stopping => stopping'
  BY StopDoes DEF Onward
<1> QED
  BY <1>1 DEF IInv, Halted, Rest, InTurn, Flushed, Batched, OneLate, Returned, Complete

\* Every step keeps the invariant.
LEMMA StepInv == IInv /\ [Next]_vars => IInv'
<1> SUFFICES ASSUME IInv, [Next]_vars PROVE IInv'
  OBVIOUS
<1>1. Shaped' /\ Moves /\ Onward /\ Halted' /\ Rest'
  <2>1. CASE (\E t \in Threads : WorkerStep(t)) \/ CoordinatorEnds \/ StraySend \/ StrayDrop
    BY <2>1, PoolKeeps
  <2>2. CASE RecvTimeout \/ ReadFinished
    BY <2>2, ReceiveDoes, DrainKeeps DEF Moves
  <2>3. CASE Collect
    BY <2>3, CollectDoes, DrainKeeps DEF Moves
  <2>4. CASE WriteSent
    BY <2>4, WriteSentDoes, DrainKeeps DEF Moves
  <2>5. CASE Emit
    BY <2>5, EmitDoes, EmitKeeps DEF Moves, EmitWaits, EmitPasses
  <2>6. CASE Flush
    BY <2>6, FlushDoes, FlushKeeps DEF Moves
  <2>7. CASE Put
    BY <2>7, PutDoes, PutKeeps DEF Moves
  <2>8. CASE Halt
    BY <2>8, HaltDoes, EndKeeps DEF Moves
  <2>9. CASE Join
    BY <2>9, JoinDoes, EndKeeps DEF Moves
  <2>10. CASE Stop \/ UNCHANGED vars
    BY <2>10, StopDoes, StopKeeps DEF Moves
  <2> QED
    BY <2>1, <2>2, <2>3, <2>4, <2>5, <2>6, <2>7, <2>8, <2>9, <2>10 DEF Next, MainStep
<1>2. Spread' /\ NoneLost'
  BY <1>1, MovesKeep DEF IInv
<1> QED
  BY <1>1, <1>2 DEF IInv, Shaped, Rest

\* The inductive invariant holds of every call, of any number of items on any
\* number of threads.
THEOREM Invariance == Spec => []IInv
  BY InitInv, StepInv, PTL DEF Spec

-----------------------------------------------------------------------------
(* The call is the map of ParallelMap *)

\* What the map sees of a state, and a step it does not see.
Unseen == UNCHANGED <<order, Claimed, InF, panicked, written, stopping, late, result, outcome>>

LEMMA UnseenStutters == Unseen => UNCHANGED Map!vars
  BY DEF Unseen, Map!vars, Claimed

LEMMA InitMaps == Init => Map!Init
<1> SUFFICES ASSUME Init PROVE Map!Init
  OBVIOUS
<1>1. IInv
  BY InitInv
<1>2. InF = {}
  <2>1. \A t \in Threads : ~InJob(t)
    <3>1. \A t \in Threads : worker[t].pc = "halt"
      BY DEF Init
    <3> QED
      BY <3>1 DEF InJob
  <2> QED
    BY <2>1, InFIn
<1>3. {i \in 1..N : i <= cursor} = {}
  BY DEF Init
<1> QED
  BY <1>2, <1>3 DEF Init, Map!Init

\* While a thread has not ended the call has not returned.
LEMMA NotReturned ==
  ASSUME IInv, NEW t \in Threads, worker[t].pc # "done"
  PROVE  outcome = "none"
  BY DEF IInv, Halted, Returned

\* A claim starts its item, and what ends with f ends the item.
LEMMA PoolMaps ==
  ASSUME IInv, \/ \E t \in Threads : WorkerStep(t)
               \/ CoordinatorEnds \/ StraySend \/ StrayDrop
  PROVE  Unseen \/ Map!Next
<1>1. ASSUME NEW t \in Threads, ReadHalt(t) \/ SendSide(t) PROVE Unseen
  <2>1. Still /\ MainStays
    BY <1>1, ReadHaltDoes, SendSideDoes
  <2> QED
    BY <2>1, MainStaysStill DEF Still, Unseen
<1>2. ASSUME NEW t \in Threads, Claim(t) PROVE Unseen \/ Map!Next
  <2>1. (Still \/ Claims) /\ MainStays
    BY <1>2, ClaimDoes
  <2>2. UNCHANGED <<order, written, stopping, late, result, outcome>>
    BY <2>1, MainStaysStill
  <2>3. CASE Still
    BY <2>2, <2>3 DEF Still, Unseen
  <2>4. CASE Claims
    <3>1. outcome = "none"
      BY <1>2, NotReturned DEF Claim
    <3>2. PICK i \in 1..N :
            /\ i \notin Claimed /\ Claimed' = Claimed \cup {i} /\ InF' = InF \cup {i}
            /\ panicked' = panicked
      BY <2>4 DEF Claims
    <3>3. Map!Start(i)
      BY <2>2, <3>2 DEF Map!Start, Map!Items, Claimed
    <3> QED
      BY <3>1, <3>2, <3>3 DEF Map!Next, Map!Items
  <2> QED
    BY <2>1, <2>3, <2>4
<1>3. ASSUME NEW t \in Threads, Panic(t) \/ Finish(t) PROVE Map!Next
  <2>1. MainStays /\ Claimed' = Claimed
    BY <1>3, PanicDoes, FinishDoes DEF Panic, Finish, Claimed
  <2>2. UNCHANGED <<order, written, stopping, late, result, outcome>>
    BY <2>1, MainStaysStill
  <2>3. \E i \in InF : InF' = InF \ {i} /\ panicked' \in {panicked, panicked \cup {i}}
    <3>1. CASE Panic(t)
      BY <3>1, PanicDoes DEF Panics
    <3>2. CASE Finish(t)
      BY <3>2, FinishDoes
    <3> QED
      BY <1>3, <3>1, <3>2
  <2>4. PICK i \in InF : InF' = InF \ {i} /\ panicked' \in {panicked, panicked \cup {i}}
    BY <2>3
  <2>5. i \in 1..N
    BY <2>4 DEF IInv, Spread, Somewhere, Claimed
  <2>6. outcome = "none"
    BY <1>3, NotReturned DEF Panic, Finish
  <2>7. Map!End(i)
    BY <2>1, <2>2, <2>4 DEF Map!End, Claimed
  <2> QED
    BY <2>5, <2>6, <2>7 DEF Map!Next, Map!Items
<1>4. CASE (\E t \in Threads : KeepHandle(t)) \/ CoordinatorEnds \/ StraySend \/ StrayDrop
  <2>1. Still /\ MainStays
    BY <1>4, AsideDoes
  <2> QED
    BY <2>1, MainStaysStill DEF Still, Unseen
<1> QED
  BY <1>1, <1>2, <1>3, <1>4 DEF WorkerStep, Advance

\* A result written is one that has come back, is not written yet and is due,
\* and at most one is after the stop.
LEMMA WriteMaps ==
  ASSUME IInv, PoolStays, NEW i \in 1..N, Wrote(i), UNCHANGED <<result, outcome>>,
         main \in {"emit", "put"}, order # "none", order = "input" => i = Len(written) + 1,
         i \in Outs(batch) \cup Held
  PROVE  Map!Next
<1> USE DEF IInv
<1>1. UNCHANGED <<order, panicked, stopping, InF, Claimed>>
  BY PoolStaysStill
<1>2. outcome = "none" /\ result # "error" /\ late = 0
  BY DEF Returned, OneLate, Ended, TypeOK
<1>3. i \in Claimed /\ i \notin InF /\ i \notin panicked /\ i \notin Done
  BY DEF Spread, Apart, Somewhere
<1>4. \A k \in DOMAIN written : written[k] # i
  BY <1>3 DEF Done
<1>5. written' = Append(written, i) /\ late' = IF stopping THEN 1 ELSE 0
  BY <1>2 DEF Wrote
<1>6. Map!Write(i)
  BY <1>1, <1>2, <1>3, <1>4, <1>5 DEF Map!Write, Claimed
<1> QED
  BY <1>2, <1>6 DEF Map!Next, Map!Items

\* A write that fails.
LEMMA FailMaps ==
  ASSUME IInv, PoolStays, Fails, outcome' = outcome, main # "returned"
  PROVE  Map!Next
<1>1. UNCHANGED <<order, panicked, stopping, InF, Claimed>>
  BY PoolStaysStill
<1>2. outcome = "none"
  BY DEF IInv, Returned
<1>3. Map!Fail
  BY <1>1 DEF Fails, Map!Fail, Claimed
<1> QED
  BY <1>2, <1>3 DEF Map!Next

\* The join is the return: nothing runs, and success means that all was done,
\* or that the call was stopped.
LEMMA JoinMaps ==
  ASSUME IInv, Join
  PROVE  Map!Next
<1> USE DEF IInv
<1>1. /\ PoolStays /\ main = "join" /\ coord = "finished"
      /\ UNCHANGED <<result, written, late>>
      /\ outcome' = IF panicked # {} THEN "panic" ELSE result
  BY DEF Join, PoolStays
<1>2. UNCHANGED <<order, panicked, stopping, InF, Claimed>>
  BY <1>1, PoolStaysStill
<1>3. InF = {}
  <2>1. \A t \in Threads : ~InJob(t)
    BY <1>1 DEF Halted, InJob
  <2> QED
    BY <2>1, InFIn
<1>4. outcome = "none"
  BY <1>1 DEF Returned
<1>5. outcome' = IF panicked # {} THEN "panic" ELSE IF result = "error" THEN "error" ELSE "ok"
  BY <1>1 DEF TypeOK
<1>6. outcome' = "ok" => stopping \/ Map!AllDone
  <2>1. SUFFICES ASSUME outcome' = "ok", ~stopping PROVE Map!AllDone
    OBVIOUS
  <2>2. panicked = {} /\ result = "ok"
    BY <1>1, <1>5, <2>1 DEF TypeOK
  <2>3. cursor >= N /\ (order # "none" => Len(written) = N)
    BY <1>1, <2>1, <2>2 DEF Complete, Ended
  <2>4. {i \in 1..N : i <= cursor} = 1..N
    BY <2>3 DEF TypeOK
  <2> QED
    BY <2>3, <2>4 DEF Map!AllDone, Map!Items
<1>7. Map!Return
  BY <1>1, <1>2, <1>3, <1>5, <1>6 DEF Map!Return, Claimed
<1> QED
  BY <1>4, <1>7 DEF Map!Next

\* A step of a call is a step of the map or one the map does not see.
LEMMA StepMaps == IInv /\ [Next]_vars => [Map!Next]_Map!vars
<1> SUFFICES ASSUME IInv, [Next]_vars PROVE Unseen \/ Map!Next
  BY UnseenStutters
<1>1. CASE (\E t \in Threads : WorkerStep(t)) \/ CoordinatorEnds \/ StraySend \/ StrayDrop
  BY <1>1, PoolMaps
<1>2. CASE RecvTimeout \/ ReadFinished \/ Collect \/ WriteSent \/ Flush \/ Halt
  <2>1. PoolStays /\ UNCHANGED <<result, written, late, outcome>>
    BY <1>2 DEF RecvTimeout, ReadFinished, Collect, WriteSent, Flush, Halt, PoolStays
  <2> QED
    BY <2>1, PoolStaysStill DEF Unseen
<1>3. CASE Emit
  <2>1. /\ PoolStays /\ outcome' = outcome /\ main = "emit"
        /\ Fails \/ EmitWaits \/ EmitPasses \/ \E i \in 1..N : EmitWrites(i)
    BY <1>3, EmitDoes DEF Emit
  <2>2. CASE Fails
    BY <2>1, <2>2, FailMaps
  <2>3. CASE EmitWaits \/ EmitPasses
    BY <2>1, <2>3, PoolStaysStill DEF EmitWaits, EmitPasses, Unseen
  <2>4. ASSUME NEW i \in 1..N, EmitWrites(i) PROVE Map!Next
    BY <2>1, <2>4, WriteMaps DEF EmitWrites
  <2> QED
    BY <2>1, <2>2, <2>3, <2>4
<1>4. CASE Put
  <2>1. /\ PoolStays /\ outcome' = outcome /\ main = "put" /\ order = "input"
        /\ Fails \/ PutWrites(Len(written) + 1)
    BY <1>4, PutDoes DEF Put, IInv, InTurn
  <2>2. CASE Fails
    BY <2>1, <2>2, FailMaps
  <2>3. CASE PutWrites(Len(written) + 1)
    BY <2>1, <2>3, WriteMaps DEF PutWrites
  <2> QED
    BY <2>1, <2>2, <2>3
<1>5. CASE Join
  BY <1>5, JoinMaps
<1>6. CASE Stop
  <2>1. Still /\ UNCHANGED <<order, panicked, written, late, result, outcome>>
    BY <1>6, StopDoes
  <2>2. outcome = "none" /\ stopping' = TRUE
    BY <1>6 DEF Stop, IInv, Returned
  <2>3. Map!Stop
    BY <2>1, <2>2 DEF Map!Stop, Still, Claimed
  <2> QED
    BY <2>2, <2>3 DEF Map!Next
<1>7. CASE UNCHANGED vars
  <2>1. Still /\ UNCHANGED <<order, panicked, written, late, result, outcome>>
    BY <1>7, StopDoes
  <2> QED
    BY <1>7, <2>1 DEF Unseen, Still, vars
<1> QED
  BY <1>1, <1>2, <1>3, <1>4, <1>5, <1>6, <1>7 DEF Next, MainStep

\* The pool, the channel and the drain together are the map ParallelMap
\* describes, for any number of items and threads (worker.rs:464-481, 491-495,
\* 507-509, 620-625).
THEOREM Implements == Spec => ImplementsMap
<1>1. Init /\ [][Next]_vars /\ []IInv => Map!Init /\ [][Map!Next]_Map!vars
  BY InitMaps, StepMaps, PTL
<1>2. Spec => Init /\ [][Next]_vars
  BY PTL DEF Spec
<1> QED
  BY <1>1, <1>2, Invariance, PTL DEF ImplementsMap, Map!Spec
=============================================================================
