--------------------------- MODULE HandoversProofs ---------------------------
(***************************************************************************)
(* What is handed over arrives whole and is given back once, for any       *)
(* number of threads, enlistments, readers, tools and processes.  Each of  *)
(* the six modules has an inductive invariant of its own, a conjunction of *)
(* named parts with a lemma for each; a step of one module leaves the      *)
(* others' variables alone.                                                *)
(***************************************************************************)
EXTENDS MCHandovers, Integers, Sequences, TLAPS

-----------------------------------------------------------------------------
(* An event subscription: for any number of raising and removing threads *)

EventTypeOK ==
  /\ com \in BOOLEAN /\ attached \in BOOLEAN /\ removed \in BOOLEAN /\ hooked \in BOOLEAN
  /\ early \in BOOLEAN /\ released \in BOOLEAN /\ overlapped \in BOOLEAN
  /\ making \in {"attaching", "recording", "made", "refused"}
  /\ sweep \in {"no", "detach", "detaching", "done"}
  /\ calls \in Int
  /\ context \in {"held", "freed"}
  /\ call \in [Raisers -> {"idle", "increment", "check", "callback", "decrement", "last", "release"}]
  /\ remove \in [Event!Threads -> {"idle", "detach", "forget", "readCalls", "release"}]

\* Nothing is attached, called or removed of a subscription that was not made,
\* and nothing released before it is removed.
Made ==
  /\ making \in {"attaching", "refused"} =>
       ~attached /\ ~removed /\ \A t \in Raisers : call[t] = "idle"
  /\ making # "made" => ~hooked /\ sweep # "detach"
  /\ ~removed => /\ ~released
                 /\ \A t \in Event!Threads : remove[t] = "idle"
                 /\ \A t \in Raisers : call[t] # "release"
  /\ making = "attaching" => context = "held"
  /\ context = "freed" => released \/ making = "refused"

\* Raises that do not overlap leave one call at most, and _calls says whether
\* there is one.
Serial ==
  ~overlapped =>
    /\ \A t, u \in Raisers : call[t] # "idle" /\ call[u] # "idle" => t = u
    /\ calls = IF \E t \in Raisers : call[t] \in {"check", "callback", "decrement"} THEN 1 ELSE 0

\* Whoever is about to release, or has, found no call in the callback, and none
\* enters it again.
Releasing ==
  \/ released
  \/ \E t \in Event!Threads : remove[t] = "release"
  \/ \E t \in Raisers : call[t] = "release"

Quiet ==
  ~overlapped /\ Releasing => removed /\ \A t \in Raisers : call[t] # "callback"

\* A handler made is in the hooks until somebody removes it.
InHooks ==
  /\ com /\ making = "made" => hooked \/ removed
  /\ sweep = "detaching" \/ (sweep = "done" /\ early) => removed

EventIInv == EventTypeOK /\ Made /\ Serial /\ Quiet /\ InHooks

LEMMA EventInit == Event!Init => EventIInv
<1> SUFFICES ASSUME Event!Init PROVE EventIInv
  OBVIOUS
<1> USE DEF Event!Init
<1>1. EventTypeOK
  <2>1. call \in [Raisers -> {"idle"}] /\ remove \in [Event!Threads -> {"idle"}]
    OBVIOUS
  <2>2. calls \in Int
    OBVIOUS
  <2> QED
    BY <2>1, <2>2 DEF EventTypeOK
<1>2. Made /\ Serial
  BY DEF Made, Serial
<1>3. Quiet /\ InHooks
  BY DEF Quiet, Releasing, InHooks
<1> QED
  BY <1>1, <1>2, <1>3 DEF EventIInv

LEMMA EventTypes == EventTypeOK /\ Made /\ [Event!Next]_(Event!vars) => EventTypeOK'
<1> SUFFICES ASSUME EventTypeOK, Made, [Event!Next]_(Event!vars) PROVE EventTypeOK'
  OBVIOUS
<1>1. CASE UNCHANGED <<com, making, attached, calls, removed, hooked, sweep, early, released,
       context, call, remove, overlapped>>
  BY <1>1 DEF EventTypeOK, Made
<1>2. CASE Event!Attach
  BY <1>2 DEF Event!Attach, EventTypeOK, Made
<1>3. CASE Event!Record
  BY <1>3 DEF Event!Record, Event!Hooked, EventTypeOK, Made
<1>4. CASE Event!SweepBegins
  BY <1>4 DEF Event!SweepBegins, EventTypeOK, Made
<1>5. CASE Event!SweepEnds
  BY <1>5 DEF Event!SweepEnds, EventTypeOK, Made
<1>6. ASSUME NEW t \in Raisers, Event!Raise(t) PROVE EventTypeOK'
  BY <1>6 DEF Event!Raise, Event!CallGoes, Event!hooks, EventTypeOK, Made
<1>7. ASSUME NEW t \in Raisers, Event!Increment(t) PROVE EventTypeOK'
  BY <1>7 DEF Event!Increment, Event!CallGoes, Event!Counted, Event!hooks, EventTypeOK, Made
<1>8. ASSUME NEW t \in Raisers, Event!Check(t) PROVE EventTypeOK'
  BY <1>8 DEF Event!Check, Event!CheckRemoved, Event!CallGoes, Event!hooks, EventTypeOK, Made
<1>9. ASSUME NEW t \in Raisers, Event!Return(t) PROVE EventTypeOK'
  BY <1>9 DEF Event!Return, Event!CallGoes, Event!hooks, EventTypeOK, Made
<1>10. ASSUME NEW t \in Raisers, Event!Decrement(t) PROVE EventTypeOK'
  BY <1>10 DEF Event!Decrement, Event!DecrementRead, Event!CallGoes, Event!hooks, EventTypeOK,
     Made
<1>11. ASSUME NEW t \in Raisers, Event!LastReads(t) PROVE EventTypeOK'
  BY <1>11 DEF Event!LastReads, Event!CallGoes, Event!hooks, EventTypeOK, Made
<1>12. ASSUME NEW t \in Event!Threads, Event!Exchange(t) PROVE EventTypeOK'
  BY <1>12 DEF Event!Exchange, Event!MayRemove, Event!RemoveGoes, EventTypeOK, Made
<1>13. ASSUME NEW t \in Event!Threads, Event!Detach(t) PROVE EventTypeOK'
  BY <1>13 DEF Event!Detach, Event!RemoveGoes, Event!hooks, EventTypeOK, Made
<1>14. ASSUME NEW t \in Event!Threads, Event!Forget(t) PROVE EventTypeOK'
  BY <1>14 DEF Event!Forget, Event!RemoveGoes, EventTypeOK, Made
<1>15. ASSUME NEW t \in Event!Threads, Event!ReadCalls(t) PROVE EventTypeOK'
  BY <1>15 DEF Event!ReadCalls, Event!RemoveGoes, Event!hooks, EventTypeOK, Made
<1>16. ASSUME NEW t \in Event!Threads, Event!Release(t) PROVE EventTypeOK'
  BY <1>16 DEF Event!Release, Event!RemoveGoes, Event!CallGoes, Event!FreeOnce,
     Event!FreeAgain, Event!hooks, EventTypeOK, Made
<1> QED
  BY <1>1, <1>2, <1>3, <1>4, <1>5, <1>6, <1>7, <1>8, <1>9, <1>10, <1>11, <1>12, <1>13, <1>14,
     <1>15, <1>16 DEF Event!Next, Event!SweepStep, Event!CallStep, Event!RemoveStep, Event!Threads, Event!vars

LEMMA MadeStays == EventTypeOK /\ Made /\ [Event!Next]_(Event!vars) => Made'
<1> SUFFICES ASSUME EventTypeOK, Made, [Event!Next]_(Event!vars) PROVE Made'
  OBVIOUS
<1>1. CASE UNCHANGED <<making, attached, removed, hooked, sweep, released, context, call,
       remove>>
  BY <1>1 DEF Made
<1>2. CASE Event!Attach
  BY <1>2 DEF Event!Attach, EventTypeOK, Made, Event!Threads
<1>3. CASE Event!Record
  BY <1>3 DEF Event!Record, Event!Hooked, EventTypeOK, Made, Event!Threads
<1>4. CASE Event!SweepBegins
  BY <1>4 DEF Event!SweepBegins, EventTypeOK, Made, Event!Threads
<1>5. CASE Event!SweepEnds
  BY <1>5 DEF Event!SweepEnds, EventTypeOK, Made, Event!Threads
<1>6. ASSUME NEW t \in Raisers, Event!Raise(t) PROVE Made'
  BY <1>6 DEF Event!Raise, Event!CallGoes, Event!hooks, EventTypeOK, Made, Event!Threads
<1>7. ASSUME NEW t \in Raisers, Event!Increment(t) PROVE Made'
  BY <1>7 DEF Event!Increment, Event!CallGoes, Event!Counted, Event!hooks, EventTypeOK, Made,
     Event!Threads
<1>8. ASSUME NEW t \in Raisers, Event!Check(t) PROVE Made'
  BY <1>8 DEF Event!Check, Event!CheckRemoved, Event!CallGoes, Event!hooks, EventTypeOK, Made,
     Event!Threads
<1>9. ASSUME NEW t \in Raisers, Event!Return(t) PROVE Made'
  BY <1>9 DEF Event!Return, Event!CallGoes, Event!hooks, EventTypeOK, Made, Event!Threads
<1>10. ASSUME NEW t \in Raisers, Event!Decrement(t) PROVE Made'
  BY <1>10 DEF Event!Decrement, Event!DecrementRead, Event!CallGoes, Event!hooks, EventTypeOK,
     Made, Event!Threads
<1>11. ASSUME NEW t \in Raisers, Event!LastReads(t) PROVE Made'
  BY <1>11 DEF Event!LastReads, Event!CallGoes, Event!hooks, EventTypeOK, Made, Event!Threads
<1>12. ASSUME NEW t \in Event!Threads, Event!Exchange(t) PROVE Made'
  BY <1>12 DEF Event!Exchange, Event!MayRemove, Event!RemoveGoes, EventTypeOK, Made,
     Event!Threads
<1>13. ASSUME NEW t \in Event!Threads, Event!Detach(t) PROVE Made'
  BY <1>13 DEF Event!Detach, Event!RemoveGoes, Event!hooks, EventTypeOK, Made, Event!Threads
<1>14. ASSUME NEW t \in Event!Threads, Event!Forget(t) PROVE Made'
  BY <1>14 DEF Event!Forget, Event!RemoveGoes, EventTypeOK, Made, Event!Threads
<1>15. ASSUME NEW t \in Event!Threads, Event!ReadCalls(t) PROVE Made'
  BY <1>15 DEF Event!ReadCalls, Event!RemoveGoes, Event!hooks, EventTypeOK, Made,
     Event!Threads
<1>16. ASSUME NEW t \in Event!Threads, Event!Release(t) PROVE Made'
  BY <1>16 DEF Event!Release, Event!RemoveGoes, Event!CallGoes, Event!FreeOnce,
     Event!FreeAgain, Event!hooks, EventTypeOK, Made, Event!Threads
<1> QED
  BY <1>1, <1>2, <1>3, <1>4, <1>5, <1>6, <1>7, <1>8, <1>9, <1>10, <1>11, <1>12, <1>13, <1>14,
     <1>15, <1>16 DEF Event!Next, Event!SweepStep, Event!CallStep, Event!RemoveStep, Event!Threads, Event!vars

LEMMA SerialStays == EventTypeOK /\ Serial /\ [Event!Next]_(Event!vars) => Serial'
<1> SUFFICES ASSUME EventTypeOK, Serial, [Event!Next]_(Event!vars) PROVE Serial'
  OBVIOUS
<1>1. CASE UNCHANGED <<call, calls, overlapped>>
  BY <1>1 DEF Serial
<1>2. ASSUME NEW t \in Raisers, Event!Raise(t) PROVE Serial'
  BY <1>2 DEF Event!Raise, Event!CallGoes, Event!hooks, EventTypeOK, Serial
<1>3. ASSUME NEW t \in Raisers, Event!Increment(t) PROVE Serial'
  BY <1>3 DEF Event!Increment, Event!CallGoes, Event!Counted, Event!hooks, EventTypeOK, Serial
<1>4. ASSUME NEW t \in Raisers, Event!Check(t) PROVE Serial'
  BY <1>4 DEF Event!Check, Event!CheckRemoved, Event!CallGoes, Event!hooks, EventTypeOK,
     Serial
<1>5. ASSUME NEW t \in Raisers, Event!Return(t) PROVE Serial'
  BY <1>5 DEF Event!Return, Event!CallGoes, Event!hooks, EventTypeOK, Serial
<1>6. ASSUME NEW t \in Raisers, Event!Decrement(t) PROVE Serial'
  BY <1>6 DEF Event!Decrement, Event!DecrementRead, Event!CallGoes, Event!hooks, EventTypeOK,
     Serial
<1>7. ASSUME NEW t \in Raisers, Event!LastReads(t) PROVE Serial'
  BY <1>7 DEF Event!LastReads, Event!CallGoes, Event!hooks, EventTypeOK, Serial
<1>8. ASSUME NEW t \in Event!Threads, Event!Release(t) PROVE Serial'
  <2>1. CASE UNCHANGED call
    BY <1>8, <2>1 DEF Event!Release, Serial
  <2>2. CASE t \in Raisers /\ Event!CallGoes(t, "release", "idle")
    <3>1. /\ call[t] = "release" /\ call' = [call EXCEPT ![t] = "idle"]
          /\ UNCHANGED <<calls, overlapped>>
      BY <1>8, <2>2 DEF Event!Release, Event!CallGoes
    <3> QED
      BY <2>2, <3>1 DEF EventTypeOK, Serial
  <2> QED
    BY <1>8, <2>1, <2>2 DEF Event!Release
<1> QED
  BY <1>1, <1>2, <1>3, <1>4, <1>5, <1>6, <1>7, <1>8 DEF Event!Next, Event!SweepStep,
     Event!CallStep, Event!RemoveStep, Event!Threads, Event!vars, Event!Attach, Event!Record,
     Event!SweepBegins, Event!SweepEnds, Event!Exchange, Event!Detach, Event!hooks,
     Event!Forget, Event!ReadCalls

LEMMA QuietStays == EventTypeOK /\ Made /\ Serial /\ Quiet /\ [Event!Next]_(Event!vars) => Quiet'
<1> SUFFICES ASSUME EventTypeOK, Made, Serial, Quiet, [Event!Next]_(Event!vars) PROVE Quiet'
  OBVIOUS
<1>1. CASE UNCHANGED <<overlapped, released, removed, call, remove>>
  BY <1>1 DEF Quiet, Releasing
<1>2. ASSUME NEW t \in Raisers, Event!Raise(t) PROVE Quiet'
  BY <1>2 DEF Event!Raise, Event!CallGoes, Event!hooks, EventTypeOK, Made, Serial, Quiet,
     Releasing, Event!Threads
<1>3. ASSUME NEW t \in Raisers, Event!Increment(t) PROVE Quiet'
  BY <1>3 DEF Event!Increment, Event!CallGoes, Event!Counted, Event!hooks, EventTypeOK, Made,
     Serial, Quiet, Releasing, Event!Threads
<1>4. ASSUME NEW t \in Raisers, Event!Check(t) PROVE Quiet'
  BY <1>4 DEF Event!Check, Event!CheckRemoved, Event!CallGoes, Event!hooks, EventTypeOK, Made,
     Serial, Quiet, Releasing, Event!Threads
<1>5. ASSUME NEW t \in Raisers, Event!Return(t) PROVE Quiet'
  BY <1>5 DEF Event!Return, Event!CallGoes, Event!hooks, EventTypeOK, Made, Serial, Quiet,
     Releasing, Event!Threads
<1>6. ASSUME NEW t \in Raisers, Event!Decrement(t) PROVE Quiet'
  BY <1>6 DEF Event!Decrement, Event!DecrementRead, Event!CallGoes, Event!hooks, EventTypeOK,
     Made, Serial, Quiet, Releasing, Event!Threads
<1>7. ASSUME NEW t \in Raisers, Event!LastReads(t) PROVE Quiet'
  BY <1>7 DEF Event!LastReads, Event!CallGoes, Event!hooks, EventTypeOK, Made, Serial, Quiet,
     Releasing, Event!Threads
<1>8. ASSUME NEW t \in Event!Threads, Event!Exchange(t) PROVE Quiet'
  BY <1>8 DEF Event!Exchange, Event!MayRemove, Event!RemoveGoes, EventTypeOK, Made, Serial,
     Quiet, Releasing, Event!Threads
<1>9. ASSUME NEW t \in Event!Threads, Event!Detach(t) PROVE Quiet'
  BY <1>9 DEF Event!Detach, Event!RemoveGoes, Event!hooks, EventTypeOK, Made, Serial, Quiet,
     Releasing, Event!Threads
<1>10. ASSUME NEW t \in Event!Threads, Event!Forget(t) PROVE Quiet'
  BY <1>10 DEF Event!Forget, Event!RemoveGoes, EventTypeOK, Made, Serial, Quiet, Releasing,
     Event!Threads
<1>11. ASSUME NEW t \in Event!Threads, Event!ReadCalls(t) PROVE Quiet'
  BY <1>11 DEF Event!ReadCalls, Event!RemoveGoes, Event!hooks, EventTypeOK, Made, Serial,
     Quiet, Releasing, Event!Threads
<1>12. ASSUME NEW t \in Event!Threads, Event!Release(t) PROVE Quiet'
  BY <1>12 DEF Event!Release, Event!RemoveGoes, Event!CallGoes, Event!FreeOnce,
     Event!FreeAgain, Event!hooks, EventTypeOK, Made, Serial, Quiet, Releasing, Event!Threads
<1> QED
  BY <1>1, <1>2, <1>3, <1>4, <1>5, <1>6, <1>7, <1>8, <1>9, <1>10, <1>11, <1>12 DEF Event!Next,
     Event!SweepStep, Event!CallStep, Event!RemoveStep, Event!Threads, Event!vars,
     Event!Attach, Event!Record, Event!SweepBegins, Event!SweepEnds

LEMMA HooksStay == EventTypeOK /\ Made /\ InHooks /\ [Event!Next]_(Event!vars) => InHooks'
<1> SUFFICES ASSUME EventTypeOK, Made, InHooks, [Event!Next]_(Event!vars) PROVE InHooks'
  OBVIOUS
<1>1. CASE UNCHANGED <<com, making, hooked, removed, sweep, early>>
  BY <1>1 DEF InHooks
<1>2. CASE Event!Attach
  BY <1>2 DEF Event!Attach, EventTypeOK, Made, InHooks, Event!Threads
<1>3. CASE Event!Record
  BY <1>3 DEF Event!Record, Event!Hooked, EventTypeOK, Made, InHooks, Event!Threads
<1>4. CASE Event!SweepBegins
  BY <1>4 DEF Event!SweepBegins, EventTypeOK, Made, InHooks, Event!Threads
<1>5. CASE Event!SweepEnds
  BY <1>5 DEF Event!SweepEnds, EventTypeOK, Made, InHooks, Event!Threads
<1>6. ASSUME NEW t \in Event!Threads, Event!Exchange(t) PROVE InHooks'
  BY <1>6 DEF Event!Exchange, Event!MayRemove, Event!RemoveGoes, EventTypeOK, Made, InHooks,
     Event!Threads
<1>7. ASSUME NEW t \in Event!Threads, Event!Forget(t) PROVE InHooks'
  BY <1>7 DEF Event!Forget, Event!RemoveGoes, EventTypeOK, Made, InHooks, Event!Threads
<1> QED
  BY <1>1, <1>2, <1>3, <1>4, <1>5, <1>6, <1>7 DEF Event!Next, Event!SweepStep, Event!CallStep,
     Event!RemoveStep, Event!Threads, Event!vars, Event!Raise, Event!hooks, Event!Increment,
     Event!Check, Event!Return, Event!Decrement, Event!LastReads, Event!Detach,
     Event!ReadCalls, Event!Release

LEMMA EventStep == EventIInv /\ [Event!Next]_(Event!vars) => EventIInv'
  BY EventTypes, MadeStays, SerialStays, QuietStays, HooksStay DEF EventIInv

LEMMA EventSafe == EventIInv => Event!SerialCallsKeepContext /\ Event!SweepRemoves
<1> SUFFICES ASSUME EventIInv PROVE Event!SerialCallsKeepContext /\ Event!SweepRemoves
  OBVIOUS
<1>1. Event!SerialCallsKeepContext
  <2>1. ASSUME NEW t \in Raisers, call[t] = "callback", ~overlapped PROVE context = "held"
    BY <2>1 DEF EventIInv, EventTypeOK, Made, Quiet, Releasing
  <2> QED
    BY <2>1 DEF Event!SerialCallsKeepContext, Event!NoCallOutlivesContext
<1>2. Event!SweepRemoves
  BY DEF EventIInv, InHooks, Event!SweepRemoves
<1> QED
  BY <1>1, <1>2

-----------------------------------------------------------------------------
(* A task Rust gives .NET *)

\* The byte is freed once, and not written after that.
TaskTypeOK ==
  /\ method \in {"packing", "running", "returned", "failing", "thrown"}
  /\ home \in {"method", "worker"}
  /\ task \in {"unmade", "held", "gone"}
  /\ settling \in [Task!Halves -> {"no", "begin", "set", "dispose", "free", "done"}]
  /\ want \in [Task!Halves -> Task!Outcomes]
  /\ settled \in BOOLEAN
  /\ token \in BOOLEAN
  /\ callback \in {"listening", "running", "ran", "disposed"}
  /\ byte \in {"clear", "set", "freed"}

\* One half at most is past the exchange, and it has the byte to itself once
\* the callback is over.
Settling(h) == settling[h] \in {"set", "dispose", "free"}

OneSettles ==
  /\ ~(Settling("method") /\ Settling("rust"))
  /\ \A h \in Task!Halves :
       /\ Settling(h) => settled /\ byte # "freed"
       /\ settling[h] = "free" => callback \in {"ran", "disposed"}
  /\ byte = "freed" => settled /\ (settling["method"] # "no" \/ settling["rust"] # "no")
  /\ byte # "clear" => callback \in {"ran", "disposed"}

\* The Rust half settles once the task is finished or dropped, the method's
\* when it throws.
SettlesLast ==
  /\ method = "packing" => task = "unmade"
  /\ settling["rust"] # "no" => task = "gone"
  /\ settling["method"] # "no" => method = "thrown"

\* What is_cancelled has read was there, or the method's catch had freed it.
ReadLive == read \in {"clear", "set"} \/ method = "thrown"

TaskIInv == TaskTypeOK /\ OneSettles /\ SettlesLast /\ ReadLive

LEMMA TaskInit == Task!Init => TaskIInv
<1> SUFFICES ASSUME Task!Init PROVE TaskIInv
  OBVIOUS
<1> USE DEF Task!Init, Task!Halves, Task!Outcomes
<1>1. TaskTypeOK
  BY DEF TaskTypeOK
<1>2. OneSettles
  BY DEF OneSettles, Settling
<1>3. SettlesLast /\ ReadLive
  BY DEF SettlesLast, ReadLive
<1> QED
  BY <1>1, <1>2, <1>3 DEF TaskIInv

LEMMA TaskTypes == TaskTypeOK /\ OneSettles /\ [Task!Next]_(Task!vars) => TaskTypeOK'
<1> SUFFICES ASSUME TaskTypeOK, OneSettles, [Task!Next]_(Task!vars) PROVE TaskTypeOK'
  OBVIOUS
<1>1. CASE UNCHANGED <<method, home, task, settling, want, settled, token, callback, byte>>
  BY <1>1 DEF TaskTypeOK
<1>2. CASE Task!Pack
  BY <1>2 DEF Task!Pack, Task!source, TaskTypeOK, OneSettles, Settling, Task!Outcomes,
     Task!Halves
<1>3. CASE Task!Return
  BY <1>3 DEF Task!Return, Task!source, TaskTypeOK, OneSettles, Settling, Task!Outcomes,
     Task!Halves
<1>4. CASE Task!Discard
  BY <1>4 DEF Task!Discard, Task!source, TaskTypeOK, OneSettles, Settling, Task!Outcomes,
     Task!Halves
<1>5. CASE Task!Move
  BY <1>5 DEF Task!Move, Task!source, TaskTypeOK, OneSettles, Settling, Task!Outcomes,
     Task!Halves
<1>6. ASSUME NEW o \in Task!Outcomes, Task!Finish(o) PROVE TaskTypeOK'
  BY <1>6 DEF Task!Finish, Task!Consumed, Task!source, TaskTypeOK, OneSettles, Settling,
     Task!Outcomes, Task!Halves
<1>7. CASE Task!Drop
  BY <1>7 DEF Task!Drop, Task!DropFaults, Task!source, TaskTypeOK, OneSettles, Settling,
     Task!Outcomes, Task!Halves
<1>8. ASSUME NEW h \in Task!Halves, Task!BeginSet(h) PROVE TaskTypeOK'
  BY <1>8 DEF Task!BeginSet, Task!FirstBegin, Task!Goes, TaskTypeOK, OneSettles, Settling,
     Task!Outcomes, Task!Halves
<1>9. ASSUME NEW h \in Task!Halves, Task!SetOutcome(h) PROVE TaskTypeOK'
  BY <1>9 DEF Task!SetOutcome, Task!Goes, TaskTypeOK, OneSettles, Settling, Task!Outcomes,
     Task!Halves
<1>10. ASSUME NEW h \in Task!Halves, Task!Dispose(h) PROVE TaskTypeOK'
  BY <1>10 DEF Task!Dispose, Task!Goes, Task!DisposeWaits, Task!DisposeAtOnce, TaskTypeOK,
     OneSettles, Settling, Task!Outcomes, Task!Halves
<1>11. ASSUME NEW h \in Task!Halves, Task!FreeByte(h) PROVE TaskTypeOK'
  BY <1>11 DEF Task!FreeByte, Task!Goes, TaskTypeOK, OneSettles, Settling, Task!Outcomes,
     Task!Halves
<1>12. CASE Task!CancelToken
  BY <1>12 DEF Task!CancelToken, TaskTypeOK, OneSettles, Settling, Task!Outcomes, Task!Halves
<1>13. CASE Task!MarkCancelled
  BY <1>13 DEF Task!MarkCancelled, TaskTypeOK, OneSettles, Settling, Task!Outcomes,
     Task!Halves
<1> QED
  BY <1>1, <1>2, <1>3, <1>4, <1>5, <1>6, <1>7, <1>8, <1>9, <1>10, <1>11, <1>12, <1>13 DEF
     Task!Next, Task!MethodStep, Task!TaskEnd, Task!Settle, Task!vars, Task!IsCancelled,
     Task!source

LEMMA OneStillSettles == TaskTypeOK /\ OneSettles /\ [Task!Next]_(Task!vars) => OneSettles'
<1> SUFFICES ASSUME TaskTypeOK, OneSettles, [Task!Next]_(Task!vars) PROVE OneSettles'
  OBVIOUS
<1>1. CASE UNCHANGED <<settling, settled, byte, callback>>
  BY <1>1 DEF OneSettles, Settling
<1>2. CASE Task!Discard
  BY <1>2 DEF Task!Discard, Task!source, TaskTypeOK, OneSettles, Settling, Task!Halves
<1>3. ASSUME NEW o \in Task!Outcomes, Task!Finish(o) PROVE OneSettles'
  BY <1>3 DEF Task!Finish, Task!Consumed, Task!source, TaskTypeOK, OneSettles, Settling,
     Task!Halves
<1>4. CASE Task!Drop
  BY <1>4 DEF Task!Drop, Task!DropFaults, Task!source, TaskTypeOK, OneSettles, Settling,
     Task!Halves
<1>5. ASSUME NEW h \in Task!Halves, Task!BeginSet(h) PROVE OneSettles'
  BY <1>5 DEF Task!BeginSet, Task!FirstBegin, Task!Goes, TaskTypeOK, OneSettles, Settling,
     Task!Halves
<1>6. ASSUME NEW h \in Task!Halves, Task!SetOutcome(h) PROVE OneSettles'
  BY <1>6 DEF Task!SetOutcome, Task!Goes, TaskTypeOK, OneSettles, Settling, Task!Halves
<1>7. ASSUME NEW h \in Task!Halves, Task!Dispose(h) PROVE OneSettles'
  BY <1>7 DEF Task!Dispose, Task!Goes, Task!DisposeWaits, Task!DisposeAtOnce, TaskTypeOK,
     OneSettles, Settling, Task!Halves
<1>8. ASSUME NEW h \in Task!Halves, Task!FreeByte(h) PROVE OneSettles'
  BY <1>8 DEF Task!FreeByte, Task!Goes, TaskTypeOK, OneSettles, Settling, Task!Halves
<1>9. CASE Task!CancelToken
  BY <1>9 DEF Task!CancelToken, TaskTypeOK, OneSettles, Settling, Task!Halves
<1>10. CASE Task!MarkCancelled
  BY <1>10 DEF Task!MarkCancelled, TaskTypeOK, OneSettles, Settling, Task!Halves
<1> QED
  BY <1>1, <1>2, <1>3, <1>4, <1>5, <1>6, <1>7, <1>8, <1>9, <1>10 DEF Task!Next,
     Task!MethodStep, Task!TaskEnd, Task!Settle, Task!vars, Task!Pack, Task!source,
     Task!Return, Task!Move, Task!IsCancelled

LEMMA LastStillSettles == TaskTypeOK /\ SettlesLast /\ [Task!Next]_(Task!vars) => SettlesLast'
<1> SUFFICES ASSUME TaskTypeOK, SettlesLast, [Task!Next]_(Task!vars) PROVE SettlesLast'
  OBVIOUS
<1>1. CASE UNCHANGED <<method, task, settling>>
  BY <1>1 DEF SettlesLast
<1>2. CASE Task!Pack
  BY <1>2 DEF Task!Pack, Task!source, TaskTypeOK, SettlesLast, Task!Halves
<1>3. CASE Task!Return
  BY <1>3 DEF Task!Return, Task!source, TaskTypeOK, SettlesLast, Task!Halves
<1>4. CASE Task!Discard
  BY <1>4 DEF Task!Discard, Task!source, TaskTypeOK, SettlesLast, Task!Halves
<1>5. ASSUME NEW o \in Task!Outcomes, Task!Finish(o) PROVE SettlesLast'
  BY <1>5 DEF Task!Finish, Task!Consumed, Task!source, TaskTypeOK, SettlesLast, Task!Halves
<1>6. CASE Task!Drop
  BY <1>6 DEF Task!Drop, Task!DropFaults, Task!source, TaskTypeOK, SettlesLast, Task!Halves
<1>7. ASSUME NEW h \in Task!Halves, Task!BeginSet(h) PROVE SettlesLast'
  BY <1>7 DEF Task!BeginSet, Task!FirstBegin, Task!Goes, TaskTypeOK, SettlesLast, Task!Halves
<1>8. ASSUME NEW h \in Task!Halves, Task!SetOutcome(h) PROVE SettlesLast'
  BY <1>8 DEF Task!SetOutcome, Task!Goes, TaskTypeOK, SettlesLast, Task!Halves
<1>9. ASSUME NEW h \in Task!Halves, Task!Dispose(h) PROVE SettlesLast'
  BY <1>9 DEF Task!Dispose, Task!Goes, Task!DisposeWaits, Task!DisposeAtOnce, TaskTypeOK,
     SettlesLast, Task!Halves
<1>10. ASSUME NEW h \in Task!Halves, Task!FreeByte(h) PROVE SettlesLast'
  BY <1>10 DEF Task!FreeByte, Task!Goes, TaskTypeOK, SettlesLast, Task!Halves
<1> QED
  BY <1>1, <1>2, <1>3, <1>4, <1>5, <1>6, <1>7, <1>8, <1>9, <1>10 DEF Task!Next,
     Task!MethodStep, Task!TaskEnd, Task!Settle, Task!vars, Task!Move, Task!source,
     Task!IsCancelled, Task!CancelToken, Task!MarkCancelled

LEMMA ReadStaysLive == TaskTypeOK /\ OneSettles /\ SettlesLast /\ ReadLive /\ [Task!Next]_(Task!vars) => ReadLive'
<1> SUFFICES ASSUME TaskTypeOK, OneSettles, SettlesLast, ReadLive, [Task!Next]_(Task!vars) PROVE ReadLive'
  OBVIOUS
<1>1. CASE UNCHANGED <<method, read>>
  BY <1>1 DEF ReadLive
<1>2. CASE Task!Pack
  BY <1>2 DEF Task!Pack, Task!source, TaskTypeOK, OneSettles, SettlesLast, ReadLive
<1>3. CASE Task!Return
  BY <1>3 DEF Task!Return, Task!source, TaskTypeOK, OneSettles, SettlesLast, ReadLive
<1>4. CASE Task!Discard
  BY <1>4 DEF Task!Discard, Task!source, TaskTypeOK, OneSettles, SettlesLast, ReadLive
<1>5. CASE Task!IsCancelled
  BY <1>5 DEF Task!IsCancelled, Task!source, TaskTypeOK, OneSettles, SettlesLast, ReadLive
<1> QED
  BY <1>1, <1>2, <1>3, <1>4, <1>5 DEF Task!Next, Task!MethodStep, Task!TaskEnd, Task!Settle,
     Task!vars, Task!Move, Task!source, Task!Finish, Task!Drop, Task!BeginSet,
     Task!SetOutcome, Task!Dispose, Task!FreeByte, Task!CancelToken, Task!MarkCancelled

LEMMA TaskStep == TaskIInv /\ [Task!Next]_(Task!vars) => TaskIInv'
  BY TaskTypes, OneStillSettles, LastStillSettles, ReadStaysLive DEF TaskIInv

LEMMA TaskSafe == TaskIInv => Task!ByteLivesWithCall
  BY DEF TaskIInv, ReadLive, Task!ByteLivesWithCall, Task!ReadsLiveByte

-----------------------------------------------------------------------------
(* A transaction: for any number of enlistments *)

\* No step uses a resource that has been given back.
TxTypeOK ==
  /\ tx \in {"active", "preparing", "committing", "aborting"}
  /\ maker \in [Resources -> {"before", "enlisting", "enlisted", "refused", "returned"}]
  /\ manager \in [Resources -> {"nothing", "enlisted", "preparing", "prepared", "gone"}]
  /\ reply \in [Resources -> {"none", "native", "ok", "refused", "force", "done"}]
  /\ resource \in [Resources -> {"none", "live", "committed", "rolled back", "dropped"}]

\* An enlistment the manager may still call has its resource; the one that has
\* refused has ended it.
Alive ==
  \A r \in Resources :
    /\ manager[r] \in {"enlisted", "prepared"} => resource[r] = "live" /\ reply[r] \in {"none", "done"}
    /\ manager[r] = "preparing" =>
         \/ reply[r] \in {"native", "ok", "refused"} /\ resource[r] = "live"
         \/ reply[r] = "force" /\ resource[r] = "rolled back"
    /\ reply[r] \in {"native", "ok", "refused", "force"} => manager[r] = "preparing"
    /\ manager[r] = "nothing" => reply[r] = "none"

\* The enlist call has the resource to itself until the manager takes it.
Offered ==
  \A r \in Resources :
    /\ maker[r] \in {"before", "enlisting", "refused"} => manager[r] = "nothing"
    /\ maker[r] = "before" => resource[r] = "none"
    /\ maker[r] \in {"enlisting", "refused"} => resource[r] = "live"
    /\ manager[r] = "nothing" => resource[r] \in {"none", "live", "dropped"}

\* Commits are sent once every enlistment has prepared, and to these alone.
Decided ==
  /\ (\E r \in Resources : resource[r] = "committed") => tx = "committing"
  /\ tx = "committing" =>
       \A r \in Resources :
         /\ manager[r] \in {"nothing", "prepared", "gone"}
         /\ manager[r] = "gone" => resource[r] = "committed"
  /\ tx = "active" => \A r \in Resources : manager[r] \in {"nothing", "enlisted"}

TxIInv == TxTypeOK /\ Alive /\ Offered /\ Decided

LEMMA TxInit == Tx!Init => TxIInv
<1> SUFFICES ASSUME Tx!Init PROVE TxIInv
  OBVIOUS
<1> USE DEF Tx!Init
<1>1. TxTypeOK
  BY DEF TxTypeOK
<1>2. Alive /\ Offered /\ Decided
  BY DEF Alive, Offered, Decided
<1> QED
  BY <1>1, <1>2 DEF TxIInv

\* What the manager answers an enlist call, and what the call does with it.
Accepted(r) ==
  /\ tx = "active"
  /\ manager[r] = "nothing" /\ resource[r] = "live" /\ reply[r] = "none"
  /\ maker' = [maker EXCEPT ![r] = "enlisted"]
  /\ manager' = [manager EXCEPT ![r] = "enlisted"]
  /\ UNCHANGED <<tx, reply, resource>>

Refused(r) ==
  /\ manager[r] = "nothing" /\ resource[r] = "live"
  /\ maker' = [maker EXCEPT ![r] = "refused"]
  /\ UNCHANGED <<tx, manager, reply, resource>>

Taken(r) ==
  /\ maker' = [maker EXCEPT ![r] = "returned"]
  /\ UNCHANGED <<tx, manager, reply, resource>>

Dropped(r) ==
  /\ resource[r] = "live" /\ manager[r] = "nothing"
  /\ maker' = [maker EXCEPT ![r] = "returned"]
  /\ resource' = [resource EXCEPT ![r] = "dropped"]
  /\ UNCHANGED <<tx, manager, reply>>

LEMMA Enlisting ==
  ASSUME TxTypeOK, Alive, Offered, NEW r \in Resources, Tx!EnlistStep(r)
  PROVE  Accepted(r) \/ Refused(r) \/ Taken(r) \/ Dropped(r)
<1>1. CASE Tx!EnlistVolatile(r)
  <2>1. /\ maker[r] = "enlisting"
        /\ UNCHANGED <<tx, reply, resource>>
    BY <1>1 DEF Tx!EnlistVolatile
  <2>2. manager[r] = "nothing" /\ resource[r] = "live" /\ reply[r] = "none"
    BY <2>1 DEF Alive, Offered
  <2> QED
    BY <1>1, <2>1, <2>2 DEF Tx!EnlistVolatile, Accepted, Refused
<1>2. CASE Tx!EnlistReturns(r)
  <2>1. /\ maker[r] \in {"enlisted", "refused"}
        /\ maker' = [maker EXCEPT ![r] = "returned"]
        /\ UNCHANGED <<tx, manager, reply>>
        /\ Tx!DropRefused(r)
    BY <1>2 DEF Tx!EnlistReturns
  <2>2. CASE maker[r] = "refused"
    <3>1. resource[r] = "live" /\ manager[r] = "nothing"
      BY <2>2 DEF Offered
    <3>2. resource' = [resource EXCEPT ![r] = IF @ = "live" THEN "dropped" ELSE "used freed"]
      BY <2>1, <2>2 DEF Tx!DropRefused
    <3> QED
      BY <2>1, <3>1, <3>2 DEF Dropped
  <2>3. CASE maker[r] = "enlisted"
    BY <2>1, <2>3 DEF Tx!DropRefused, Taken
  <2> QED
    BY <2>1, <2>2, <2>3
<1> QED
  BY <1>1, <1>2 DEF Tx!EnlistStep

LEMMA TxTypes == TxTypeOK /\ Alive /\ Offered /\ [Tx!Next]_(Tx!vars) => TxTypeOK'
<1> SUFFICES ASSUME TxTypeOK, Alive, Offered, [Tx!Next]_(Tx!vars) PROVE TxTypeOK'
  OBVIOUS
<1>1. CASE UNCHANGED <<tx, maker, manager, reply, resource>>
  BY <1>1 DEF TxTypeOK
<1>2. CASE Tx!Complete
  BY <1>2 DEF Tx!Complete, TxTypeOK, Alive, Offered
<1>3. CASE Tx!Abort
  BY <1>3 DEF Tx!Abort, TxTypeOK, Alive, Offered
<1>4. CASE Tx!Decide
  BY <1>4 DEF Tx!Decide, TxTypeOK, Alive, Offered
<1>5. ASSUME NEW r \in Resources, Tx!Box(r) PROVE TxTypeOK'
  BY <1>5 DEF Tx!Box, TxTypeOK, Alive, Offered
<1>6. ASSUME NEW r \in Resources, Accepted(r) PROVE TxTypeOK'
  BY <1>6 DEF Accepted, TxTypeOK, Alive, Offered
<1>7. ASSUME NEW r \in Resources, Refused(r) PROVE TxTypeOK'
  BY <1>7 DEF Refused, TxTypeOK, Alive, Offered
<1>8. ASSUME NEW r \in Resources, Taken(r) PROVE TxTypeOK'
  BY <1>8 DEF Taken, TxTypeOK, Alive, Offered
<1>9. ASSUME NEW r \in Resources, Dropped(r) PROVE TxTypeOK'
  BY <1>9 DEF Dropped, TxTypeOK, Alive, Offered
<1>10. ASSUME NEW r \in Resources, Tx!SendPrepare(r) PROVE TxTypeOK'
  BY <1>10 DEF Tx!SendPrepare, TxTypeOK, Alive, Offered
<1>11. ASSUME NEW r \in Resources, Tx!Commit(r) PROVE TxTypeOK'
  BY <1>11 DEF Tx!Commit, Tx!End, TxTypeOK, Alive, Offered
<1>12. ASSUME NEW r \in Resources, Tx!Rollback(r) PROVE TxTypeOK'
  BY <1>12 DEF Tx!Rollback, Tx!End, TxTypeOK, Alive, Offered
<1>13. ASSUME NEW r \in Resources, Tx!Prepare(r) PROVE TxTypeOK'
  BY <1>13 DEF Tx!Prepare, TxTypeOK, Alive, Offered
<1>14. ASSUME NEW r \in Resources, Tx!PrepareRefused(r) PROVE TxTypeOK'
  BY <1>14 DEF Tx!PrepareRefused, TxTypeOK, Alive, Offered
<1>15. ASSUME NEW r \in Resources, Tx!Prepared(r) PROVE TxTypeOK'
  BY <1>15 DEF Tx!Prepared, TxTypeOK, Alive, Offered
<1>16. ASSUME NEW r \in Resources, Tx!EndsItself(r) PROVE TxTypeOK'
  BY <1>16 DEF Tx!EndsItself, Tx!EndRefused, Tx!End, TxTypeOK, Alive, Offered
<1>17. ASSUME NEW r \in Resources, Tx!ForceRollback(r) PROVE TxTypeOK'
  BY <1>17 DEF Tx!ForceRollback, Tx!AnsweredForceRollback, TxTypeOK, Alive, Offered
<1> QED
  BY <1>1, <1>2, <1>3, <1>4, <1>5, <1>6, <1>7, <1>8, <1>9, <1>10, <1>11, <1>12, <1>13, <1>14,
     <1>15, <1>16, <1>17, Enlisting DEF Tx!Next, Tx!ManagerStep, Tx!PrepareStep, Tx!vars

LEMMA AliveStays == TxTypeOK /\ Alive /\ Offered /\ [Tx!Next]_(Tx!vars) => Alive'
<1> SUFFICES ASSUME TxTypeOK, Alive, Offered, [Tx!Next]_(Tx!vars) PROVE Alive'
  OBVIOUS
<1>1. CASE UNCHANGED <<manager, reply, resource>>
  BY <1>1 DEF Alive
<1>2. ASSUME NEW r \in Resources, Tx!Box(r) PROVE Alive'
  BY <1>2 DEF Tx!Box, TxTypeOK, Alive, Offered
<1>3. ASSUME NEW r \in Resources, Accepted(r) PROVE Alive'
  BY <1>3 DEF Accepted, TxTypeOK, Alive, Offered
<1>4. ASSUME NEW r \in Resources, Refused(r) PROVE Alive'
  BY <1>4 DEF Refused, TxTypeOK, Alive, Offered
<1>5. ASSUME NEW r \in Resources, Taken(r) PROVE Alive'
  BY <1>5 DEF Taken, TxTypeOK, Alive, Offered
<1>6. ASSUME NEW r \in Resources, Dropped(r) PROVE Alive'
  BY <1>6 DEF Dropped, TxTypeOK, Alive, Offered
<1>7. ASSUME NEW r \in Resources, Tx!SendPrepare(r) PROVE Alive'
  BY <1>7 DEF Tx!SendPrepare, TxTypeOK, Alive, Offered
<1>8. ASSUME NEW r \in Resources, Tx!Commit(r) PROVE Alive'
  BY <1>8 DEF Tx!Commit, Tx!End, TxTypeOK, Alive, Offered
<1>9. ASSUME NEW r \in Resources, Tx!Rollback(r) PROVE Alive'
  BY <1>9 DEF Tx!Rollback, Tx!End, TxTypeOK, Alive, Offered
<1>10. ASSUME NEW r \in Resources, Tx!Prepare(r) PROVE Alive'
  BY <1>10 DEF Tx!Prepare, TxTypeOK, Alive, Offered
<1>11. ASSUME NEW r \in Resources, Tx!PrepareRefused(r) PROVE Alive'
  BY <1>11 DEF Tx!PrepareRefused, TxTypeOK, Alive, Offered
<1>12. ASSUME NEW r \in Resources, Tx!Prepared(r) PROVE Alive'
  BY <1>12 DEF Tx!Prepared, TxTypeOK, Alive, Offered
<1>13. ASSUME NEW r \in Resources, Tx!EndsItself(r) PROVE Alive'
  BY <1>13 DEF Tx!EndsItself, Tx!EndRefused, Tx!End, TxTypeOK, Alive, Offered
<1>14. ASSUME NEW r \in Resources, Tx!ForceRollback(r) PROVE Alive'
  BY <1>14 DEF Tx!ForceRollback, Tx!AnsweredForceRollback, TxTypeOK, Alive, Offered
<1> QED
  BY <1>1, <1>2, <1>3, <1>4, <1>5, <1>6, <1>7, <1>8, <1>9, <1>10, <1>11, <1>12, <1>13, <1>14,
     Enlisting DEF Tx!Next, Tx!ManagerStep, Tx!PrepareStep, Tx!vars, Tx!Complete, Tx!Abort,
     Tx!Decide

LEMMA OfferedStays == TxTypeOK /\ Alive /\ Offered /\ [Tx!Next]_(Tx!vars) => Offered'
<1> SUFFICES ASSUME TxTypeOK, Alive, Offered, [Tx!Next]_(Tx!vars) PROVE Offered'
  OBVIOUS
<1>1. CASE UNCHANGED <<maker, manager, resource>>
  BY <1>1 DEF Offered
<1>2. ASSUME NEW r \in Resources, Tx!Box(r) PROVE Offered'
  BY <1>2 DEF Tx!Box, TxTypeOK, Alive, Offered
<1>3. ASSUME NEW r \in Resources, Accepted(r) PROVE Offered'
  BY <1>3 DEF Accepted, TxTypeOK, Alive, Offered
<1>4. ASSUME NEW r \in Resources, Refused(r) PROVE Offered'
  BY <1>4 DEF Refused, TxTypeOK, Alive, Offered
<1>5. ASSUME NEW r \in Resources, Taken(r) PROVE Offered'
  BY <1>5 DEF Taken, TxTypeOK, Alive, Offered
<1>6. ASSUME NEW r \in Resources, Dropped(r) PROVE Offered'
  BY <1>6 DEF Dropped, TxTypeOK, Alive, Offered
<1>7. ASSUME NEW r \in Resources, Tx!SendPrepare(r) PROVE Offered'
  BY <1>7 DEF Tx!SendPrepare, TxTypeOK, Alive, Offered
<1>8. ASSUME NEW r \in Resources, Tx!Prepared(r) PROVE Offered'
  BY <1>8 DEF Tx!Prepared, TxTypeOK, Alive, Offered
<1>9. ASSUME NEW r \in Resources, Tx!EndsItself(r) PROVE Offered'
  BY <1>9 DEF Tx!EndsItself, Tx!EndRefused, Tx!End, TxTypeOK, Alive, Offered
<1>10. ASSUME NEW r \in Resources, Tx!ForceRollback(r) PROVE Offered'
  BY <1>10 DEF Tx!ForceRollback, Tx!AnsweredForceRollback, TxTypeOK, Alive, Offered
<1>11. ASSUME NEW r \in Resources, Tx!Commit(r) PROVE Offered'
  BY <1>11 DEF Tx!Commit, Tx!End, TxTypeOK, Alive, Offered
<1>12. ASSUME NEW r \in Resources, Tx!Rollback(r) PROVE Offered'
  BY <1>12 DEF Tx!Rollback, Tx!End, TxTypeOK, Alive, Offered
<1> QED
  BY <1>1, <1>2, <1>3, <1>4, <1>5, <1>6, <1>7, <1>8, <1>9, <1>10, <1>11, <1>12, Enlisting DEF
     Tx!Next, Tx!ManagerStep, Tx!PrepareStep, Tx!vars, Tx!Complete, Tx!Abort, Tx!Decide,
     Tx!Prepare, Tx!PrepareRefused

LEMMA DecidedStays == TxTypeOK /\ Alive /\ Offered /\ Decided /\ [Tx!Next]_(Tx!vars) => Decided'
<1> SUFFICES ASSUME TxTypeOK, Alive, Offered, Decided, [Tx!Next]_(Tx!vars) PROVE Decided'
  OBVIOUS
<1>1. CASE UNCHANGED <<tx, manager, resource>>
  BY <1>1 DEF Decided
<1>2. CASE Tx!Complete
  BY <1>2 DEF Tx!Complete, TxTypeOK, Alive, Offered, Decided
<1>3. CASE Tx!Abort
  BY <1>3 DEF Tx!Abort, TxTypeOK, Alive, Offered, Decided
<1>4. CASE Tx!Decide
  BY <1>4 DEF Tx!Decide, TxTypeOK, Alive, Offered, Decided
<1>5. ASSUME NEW r \in Resources, Tx!Box(r) PROVE Decided'
  BY <1>5 DEF Tx!Box, TxTypeOK, Alive, Offered, Decided
<1>6. ASSUME NEW r \in Resources, Accepted(r) PROVE Decided'
  BY <1>6 DEF Accepted, TxTypeOK, Alive, Offered, Decided
<1>7. ASSUME NEW r \in Resources, Refused(r) PROVE Decided'
  BY <1>7 DEF Refused, TxTypeOK, Alive, Offered, Decided
<1>8. ASSUME NEW r \in Resources, Taken(r) PROVE Decided'
  BY <1>8 DEF Taken, TxTypeOK, Alive, Offered, Decided
<1>9. ASSUME NEW r \in Resources, Dropped(r) PROVE Decided'
  BY <1>9 DEF Dropped, TxTypeOK, Alive, Offered, Decided
<1>10. ASSUME NEW r \in Resources, Tx!SendPrepare(r) PROVE Decided'
  BY <1>10 DEF Tx!SendPrepare, TxTypeOK, Alive, Offered, Decided
<1>11. ASSUME NEW r \in Resources, Tx!Commit(r) PROVE Decided'
  BY <1>11 DEF Tx!Commit, Tx!End, TxTypeOK, Alive, Offered, Decided
<1>12. ASSUME NEW r \in Resources, Tx!Rollback(r) PROVE Decided'
  BY <1>12 DEF Tx!Rollback, Tx!End, TxTypeOK, Alive, Offered, Decided
<1>13. ASSUME NEW r \in Resources, Tx!Prepared(r) PROVE Decided'
  BY <1>13 DEF Tx!Prepared, TxTypeOK, Alive, Offered, Decided
<1>14. ASSUME NEW r \in Resources, Tx!EndsItself(r) PROVE Decided'
  BY <1>14 DEF Tx!EndsItself, Tx!EndRefused, Tx!End, TxTypeOK, Alive, Offered, Decided
<1>15. ASSUME NEW r \in Resources, Tx!ForceRollback(r) PROVE Decided'
  BY <1>15 DEF Tx!ForceRollback, Tx!AnsweredForceRollback, TxTypeOK, Alive, Offered, Decided
<1> QED
  BY <1>1, <1>2, <1>3, <1>4, <1>5, <1>6, <1>7, <1>8, <1>9, <1>10, <1>11, <1>12, <1>13, <1>14,
     <1>15, Enlisting DEF Tx!Next, Tx!ManagerStep, Tx!PrepareStep, Tx!vars, Tx!Prepare, Tx!PrepareRefused

LEMMA TxStep == TxIInv /\ [Tx!Next]_(Tx!vars) => TxIInv'
  BY TxTypes, AliveStays, OfferedStays, DecidedStays DEF TxIInv

LEMMA TxSafe == TxIInv => Tx!AllOrNothing
  BY DEF TxIInv, TxTypeOK, Alive, Offered, Decided, Tx!AllOrNothing

-----------------------------------------------------------------------------
(* A view of a module's memory: for any number of readers *)

ViewTypeOK ==
  /\ view \in {"borrowing", "throwing", "held", "refused"}
  /\ flag \in BOOLEAN /\ clone \in BOOLEAN /\ armed \in BOOLEAN /\ disposed \in BOOLEAN
  /\ disposing \in [View!Disposers -> {"no", "release", "done"}]
  /\ owner \in {"alive", "freed", "freed twice"}
  /\ reading \in [Readers -> {"no", "released?", "revoked?", "span"}]
  /\ touched \subseteq Readers /\ overtaken \subseteq Readers

\* A manager exists, to be disposed of or read through, only of a held view.
OfHeldView ==
  /\ armed \/ disposed => view = "held"
  /\ view # "held" => \A t \in Readers : reading[t] = "no"

\* One call has the release of the owner: the borrow's caller while there is
\* no manager, then the first Dispose.
OneReleaser ==
  /\ owner # "freed twice"
  /\ view \in {"borrowing", "throwing"} => owner = "alive"
  /\ owner # "alive" => view = "refused" \/ disposed
  /\ \A d \in View!Disposers :
       /\ disposing[d] # "no" => disposed
       /\ disposing[d] = "release" => owner = "alive"
       /\ \A e \in View!Disposers : disposing[d] = "release" /\ disposing[e] = "release" => d = e

\* A reader is past the check of _released of a manager disposed of only when
\* the dispose found it there.
ReadersHeld ==
  /\ touched \subseteq overtaken
  /\ ~disposed => touched = {}
  /\ disposed => \A t \in Readers : reading[t] \in {"revoked?", "span"} => t \in overtaken

ViewIInv == ViewTypeOK /\ OfHeldView /\ OneReleaser /\ ReadersHeld

LEMMA ViewInit == View!Init => ViewIInv
  BY DEF View!Init, ViewIInv, ViewTypeOK, OfHeldView, OneReleaser, ReadersHeld

LEMMA ViewStep == ViewIInv /\ [View!Next]_(View!vars) => ViewIInv'
<1> SUFFICES ASSUME ViewIInv, [View!Next]_(View!vars) PROVE ViewIInv'
  OBVIOUS
<1> USE DEF ViewIInv, ViewTypeOK, OfHeldView, OneReleaser, ReadersHeld
<1>1. CASE UNCHANGED View!vars
  BY <1>1 DEF View!vars
<1>2. CASE View!Refuse
  BY <1>2 DEF View!Refuse
<1>3. CASE View!Borrow
  BY <1>3 DEF View!Borrow
<1>4. CASE View!AllocFails
  BY <1>4 DEF View!AllocFails, View!Suppressed
<1>5. CASE View!DropRefused
  BY <1>5 DEF View!DropRefused, View!Free
<1>6. CASE View!Revoke \/ View!DropClone
  <2>1. CASE View!Revoke
    BY <2>1 DEF View!Revoke
  <2>2. CASE View!DropClone
    BY <2>2 DEF View!DropClone
  <2> QED
    BY <1>6, <2>1, <2>2
<1>7. ASSUME NEW t \in Readers, View!GetSpan(t) \/ View!ReadStep(t) PROVE ViewIInv'
  <2>1. CASE View!GetSpan(t)
    BY <2>1 DEF View!GetSpan, View!Reachable, View!ReadGoes
  <2>2. CASE View!CheckReleased(t)
    BY <2>2 DEF View!CheckReleased, View!ReadReleased, View!ReadGoes
  <2>3. CASE View!CheckRevoked(t)
    <3>1. PICK to \in {"no", "span"} :
            reading[t] = "revoked?" /\ reading' = [reading EXCEPT ![t] = to]
      BY <2>3 DEF View!CheckRevoked, View!ReadGoes
    <3>2. /\ UNCHANGED <<view, flag, clone, armed, disposed, disposing, owner, overtaken>>
          /\ touched' = touched \/ (touched' = touched \cup {t} /\ owner # "alive")
      BY <2>3 DEF View!CheckRevoked, View!Touches, View!ByteThere
    <3> QED
      BY <3>1, <3>2
  <2>4. CASE View!UseSpan(t)
    BY <2>4 DEF View!UseSpan, View!ReadGoes, View!Touches
  <2> QED
    BY <1>7, <2>1, <2>2, <2>3, <2>4 DEF View!ReadStep
<1>8. ASSUME NEW d \in View!Disposers, View!Exchange(d) PROVE ViewIInv'
  <2>1. view = "held" /\ disposing[d] = "no" /\ disposed'
    BY <1>8 DEF View!Exchange, View!MayDispose, View!Reachable
  <2> QED
    BY <1>8, <2>1 DEF View!Exchange, View!DisposeOnce
<1>9. ASSUME NEW d \in View!Disposers, View!ReleaseView(d) PROVE ViewIInv'
  BY <1>9 DEF View!ReleaseView, View!Free
<1> QED
  BY <1>1, <1>2, <1>3, <1>4, <1>5, <1>6, <1>7, <1>8, <1>9 DEF View!Next

LEMMA OwnerSafe == ViewIInv => View!OwnerOutlivesUse
  BY DEF ViewIInv, OneReleaser, ReadersHeld, View!OwnerOutlivesUse

-----------------------------------------------------------------------------
(* Tools that fetch one package: for any number of tools *)

LEMMA TornIsNone == Gone \notin Hashes /\ Fetch!Torn \notin Hashes \cup {Gone}
  BY HandoversAssumption DEF Fetch!Torn

Working == {"look", "fetch", "check", "verify", "append", "recheck", "mark", "remove", "rename"}

FetchTypeOK ==
  /\ lock \in Seq(Hashes \cup {Fetch!Torn})
  /\ cut \in BOOLEAN
  /\ earlier \in Hashes \cup {Gone}
  /\ folder \in Hashes \cup {Gone, Fetch!Torn}
  /\ at \in [Tools -> Working \cup Fetch!Failed \cup {"ok", "crashed"}]
  /\ fetched \in [Tools -> Hashes \cup {Gone}]
  /\ stray \in BOOLEAN

\* A tool goes on with what it fetched once the earlier layout's record, and
\* then the lock's first, agrees with it.
Checked ==
  \A t \in Tools :
    /\ at[t] \in {"check", "verify", "append", "recheck", "mark", "remove", "rename"} =>
         fetched[t] \in Hashes
    /\ at[t] \in {"verify", "append", "recheck", "mark", "remove", "rename"} =>
         earlier \in {Gone, fetched[t]}
    /\ at[t] \in {"mark", "remove", "rename"} => Fetch!Recorded(fetched[t])

\* What has the package's name has what the records say, and stays, unless a
\* folder with no marker was there to be removed.
Published ==
  /\ folder \in Hashes => Fetch!Recorded(folder) /\ earlier \in {Gone, folder}
  /\ ~stray => /\ folder # Fetch!Torn
               /\ \A t \in Tools : /\ at[t] # "remove"
                                   /\ at[t] = "ok" => folder \in Hashes

\* A lock a tool cannot read was cut by one that says so.
CutByShort ==
  cut \/ Fetch!Malformed \/ (lock = <<>> /\ \E t \in Tools : at[t] = "recheck") =>
    \E u \in Tools : at[u] = "short"

\* The lock that refused a tool had another's record.
RefusedByRecord ==
  \A t \in Tools : at[t] = "refused" /\ earlier \in {Gone, fetched[t]} => lock # <<>>

FetchIInv == FetchTypeOK /\ Checked /\ Published /\ CutByShort /\ RefusedByRecord /\ Fetch!FailsForCause

LEMMA FetchInit == Fetch!Init => FetchIInv
<1> SUFFICES ASSUME Fetch!Init PROVE FetchIInv
  OBVIOUS
<1> USE TornIsNone DEF Fetch!Init
<1>1. FetchTypeOK
  <2>1. at \in [Tools -> Working] /\ lock \in Seq(Hashes \cup {Fetch!Torn})
    BY DEF Working
  <2> QED
    BY <2>1 DEF FetchTypeOK
<1>2. Checked /\ RefusedByRecord /\ Fetch!FailsForCause
  BY DEF Checked, RefusedByRecord, Fetch!FailsForCause
<1>3. Published
  BY DEF Published
<1>4. CutByShort
  BY DEF CutByShort, Fetch!Malformed
<1> QED
  BY <1>1, <1>2, <1>3, <1>4 DEF FetchIInv

\* A whole append keeps the lock's first record the first, and makes no line
\* that is none of its own.
LockGrows ==
  /\ lock' \in Seq(Hashes \cup {Fetch!Torn})
  /\ lock # <<>> => lock' # <<>> /\ lock'[1] = lock[1]
  /\ ~cut => lock' # <<>> /\ (Fetch!Malformed' => Fetch!Malformed)

LEMMA FirstStays ==
  ASSUME FetchTypeOK, NEW t \in Tools, Fetch!AppendWhole(t), fetched[t] \in Hashes
  PROVE  LockGrows
<1> USE DEF FetchTypeOK, Fetch!AppendWhole, LockGrows
<1>1. CASE lock' = lock \o <<>>
  <2>1. lock' = lock
    BY <1>1
  <2>2. cut
    <3>1. SUFFICES ASSUME ~cut PROVE FALSE
      OBVIOUS
    <3>2. lock' = lock \o <<fetched[t]>>
      BY <3>1
    <3> QED
      BY <3>2, <2>1
  <2> QED
    BY <2>1, <2>2
<1>2. ASSUME NEW h \in Hashes \cup {Fetch!Torn}, lock' = lock \o <<h>>, ~cut => h = fetched[t]
      PROVE  LockGrows
  <2>1. /\ lock' \in Seq(Hashes \cup {Fetch!Torn})
        /\ Len(lock') = Len(lock) + 1
        /\ lock'[Len(lock) + 1] = h
        /\ \A i \in 1 .. Len(lock) : lock'[i] = lock[i]
    BY <1>2
  <2>2. lock # <<>> => lock' # <<>> /\ lock'[1] = lock[1]
    BY <2>1
  <2>3. ASSUME ~cut, Fetch!Malformed' PROVE Fetch!Malformed
    <3>1. PICK i \in 1 .. Len(lock) + 1 : lock'[i] = Fetch!Torn
      BY <2>1, <2>3 DEF Fetch!Malformed
    <3>2. i # Len(lock) + 1
      BY <3>1, <2>1, <2>3, <1>2, TornIsNone
    <3> QED
      BY <3>1, <3>2, <2>1 DEF Fetch!Malformed
  <2> QED
    BY <2>1, <2>2, <2>3
<1> QED
  BY <1>1, <1>2

\* A step other than an append leaves the lock alone.
LEMMA FetchStep == FetchIInv /\ [Fetch!Next]_(Fetch!vars) => FetchIInv'
<1> SUFFICES ASSUME FetchIInv, [Fetch!Next]_(Fetch!vars) PROVE FetchIInv'
  OBVIOUS
<1> USE TornIsNone DEF FetchIInv
<1> USE DEF RefusedByRecord
<1>1. CASE UNCHANGED Fetch!vars
  BY <1>1 DEF Fetch!vars, FetchTypeOK, Checked, Published, CutByShort, Fetch!FailsForCause,
     Fetch!Malformed, Fetch!Recorded
<1>2. ASSUME NEW t \in Tools, Fetch!AppendWhole(t) PROVE FetchIInv'
  <2>1. /\ at[t] = "append" /\ at' = [at EXCEPT ![t] = "recheck"]
        /\ cut' = FALSE /\ UNCHANGED <<earlier, folder, fetched, stray>>
    BY <1>2 DEF Fetch!AppendWhole, Fetch!Goes
  <2>2. LockGrows
    BY <1>2, <2>1, FirstStays DEF Checked
  <2>3. \A h \in Hashes : Fetch!Recorded(h) => Fetch!Recorded(h)'
    BY <2>2 DEF LockGrows, Fetch!Recorded
  <2>4. FetchTypeOK'
    BY <2>1, <2>2 DEF FetchTypeOK, LockGrows, Working
  <2>5. Checked'
    BY <2>1, <2>3 DEF Checked, FetchTypeOK
  <2>6. Published'
    BY <2>1, <2>3 DEF Published, FetchTypeOK
  <2>7. \A u \in Tools : at[u] = "short" => at'[u] = "short"
    BY <2>1 DEF FetchTypeOK
  <2>8. CutByShort'
    BY <2>1, <2>2, <2>7 DEF CutByShort, LockGrows
  <2>9. RefusedByRecord'
    BY <2>1, <2>2 DEF RefusedByRecord, LockGrows, FetchTypeOK
  <2>10. Fetch!FailsForCause'
    <3>1. \A u \in Tools : at[u] = "refused" /\ earlier \in {Gone, fetched[u]} => ~Fetch!Recorded(fetched[u])'
      BY <2>1, <2>2 DEF RefusedByRecord, Fetch!FailsForCause, Fetch!Recorded, LockGrows
    <3> QED
      BY <2>1, <2>7, <3>1 DEF Fetch!FailsForCause, FetchTypeOK
  <2> QED
    BY <2>4, <2>5, <2>6, <2>8, <2>9, <2>10
<1>3. ASSUME NEW t \in Tools, Fetch!AppendShort(t) PROVE FetchIInv'
  <2>1. /\ at[t] = "append" /\ at' = [at EXCEPT ![t] = "short"] /\ cut'
        /\ UNCHANGED <<lock, earlier, folder, fetched, stray>>
    BY <1>3 DEF Fetch!AppendShort, Fetch!Goes
  <2> QED
    BY <2>1 DEF FetchTypeOK, Fetch!Failed, Checked, Published, CutByShort,
       Fetch!FailsForCause, Fetch!Malformed, Fetch!Recorded
<1>4. ASSUME NEW t \in Tools, Fetch!Look(t) PROVE FetchIInv'
  BY <1>4 DEF Fetch!Look, Fetch!Goes, Fetch!Whole, FetchTypeOK, Working, Fetch!Failed,
     Checked, Published, CutByShort, Fetch!FailsForCause, Fetch!Malformed, Fetch!Recorded
<1>5. ASSUME NEW t \in Tools, Fetch!Fetch(t) PROVE FetchIInv'
  <2>1. FetchTypeOK'
    BY <1>5 DEF Fetch!Fetch, Fetch!Goes, Fetch!Whole, FetchTypeOK, Working, Fetch!Failed
  <2>2. Checked'
    BY <1>5 DEF Fetch!Fetch, Fetch!Goes, Fetch!Whole, FetchTypeOK, Checked, Fetch!Recorded
  <2>3. Published'
    BY <1>5 DEF Fetch!Fetch, Fetch!Goes, Fetch!Whole, FetchTypeOK, Checked, Published,
       Fetch!Recorded
  <2>4. CutByShort' /\ RefusedByRecord'
    BY <1>5 DEF Fetch!Fetch, Fetch!Goes, Fetch!Whole, FetchTypeOK, CutByShort,
       Fetch!Malformed, Fetch!Recorded
  <2>5. Fetch!FailsForCause'
    BY <1>5 DEF Fetch!Fetch, Fetch!Goes, Fetch!Whole, FetchTypeOK, CutByShort, Published,
       Fetch!FailsForCause, Fetch!Malformed, Fetch!Recorded
  <2> QED
    BY <2>1, <2>2, <2>3, <2>4, <2>5
<1>6. ASSUME NEW t \in Tools, Fetch!CheckEarlier(t) PROVE FetchIInv'
  BY <1>6 DEF Fetch!CheckEarlier, Fetch!Goes, Fetch!Whole, FetchTypeOK, Working, Fetch!Failed,
     Checked, Published, CutByShort, Fetch!FailsForCause, Fetch!Malformed, Fetch!Recorded
<1>7. ASSUME NEW t \in Tools, Fetch!LoadLock(t) PROVE FetchIInv'
  <2>1. FetchTypeOK'
    BY <1>7 DEF Fetch!LoadLock, Fetch!Goes, Fetch!Whole, Fetch!Verify, FetchTypeOK, Working,
       Fetch!Failed
  <2>2. Checked'
    BY <1>7 DEF Fetch!LoadLock, Fetch!Goes, Fetch!Whole, Fetch!Verify, FetchTypeOK, Checked,
       Fetch!Recorded
  <2>3. Published'
    BY <1>7 DEF Fetch!LoadLock, Fetch!Goes, Fetch!Whole, Fetch!Verify, FetchTypeOK, Checked,
       Published, Fetch!Recorded
  <2>4. CutByShort' /\ RefusedByRecord'
    BY <1>7 DEF Fetch!LoadLock, Fetch!Goes, Fetch!Whole, Fetch!Verify, FetchTypeOK,
       CutByShort, Fetch!Malformed, Fetch!Recorded
  <2>5. Fetch!FailsForCause'
    BY <1>7 DEF Fetch!LoadLock, Fetch!Goes, Fetch!Whole, Fetch!Verify, FetchTypeOK,
       CutByShort, Published, Fetch!FailsForCause, Fetch!Malformed, Fetch!Recorded
  <2> QED
    BY <2>1, <2>2, <2>3, <2>4, <2>5
<1>8. ASSUME NEW t \in Tools, Fetch!Recheck(t) PROVE FetchIInv'
  <2>1. FetchTypeOK'
    BY <1>8 DEF Fetch!Recheck, Fetch!Goes, Fetch!Whole, Fetch!Verify, Fetch!VerifyAgain,
       FetchTypeOK, Working, Fetch!Failed
  <2>2. Checked'
    BY <1>8 DEF Fetch!Recheck, Fetch!Goes, Fetch!Whole, Fetch!Verify, Fetch!VerifyAgain,
       FetchTypeOK, Checked, Fetch!Recorded
  <2>3. Published'
    BY <1>8 DEF Fetch!Recheck, Fetch!Goes, Fetch!Whole, Fetch!Verify, Fetch!VerifyAgain,
       FetchTypeOK, Checked, Published, Fetch!Recorded
  <2>4. CutByShort' /\ RefusedByRecord'
    BY <1>8 DEF Fetch!Recheck, Fetch!Goes, Fetch!Whole, Fetch!Verify, Fetch!VerifyAgain,
       FetchTypeOK, CutByShort, Fetch!Malformed, Fetch!Recorded
  <2>5. Fetch!FailsForCause'
    BY <1>8 DEF Fetch!Recheck, Fetch!Goes, Fetch!Whole, Fetch!Verify, Fetch!VerifyAgain,
       FetchTypeOK, CutByShort, Published, Fetch!FailsForCause, Fetch!Malformed,
       Fetch!Recorded
  <2> QED
    BY <2>1, <2>2, <2>3, <2>4, <2>5
<1>9. ASSUME NEW t \in Tools, Fetch!LookAtDest(t) PROVE FetchIInv'
  BY <1>9 DEF Fetch!LookAtDest, Fetch!Goes, Fetch!Whole, FetchTypeOK, Working, Fetch!Failed,
     Checked, Published, CutByShort, Fetch!FailsForCause, Fetch!Malformed, Fetch!Recorded
<1>10. ASSUME NEW t \in Tools, Fetch!RemoveDest(t) PROVE FetchIInv'
  BY <1>10 DEF Fetch!RemoveDest, Fetch!Goes, Fetch!Whole, FetchTypeOK, Working, Fetch!Failed,
     Checked, Published, CutByShort, Fetch!FailsForCause, Fetch!Malformed, Fetch!Recorded
<1>11. ASSUME NEW t \in Tools, Fetch!Rename(t) PROVE FetchIInv'
  <2>1. FetchTypeOK'
    BY <1>11 DEF Fetch!Rename, Fetch!Goes, Fetch!Whole, Fetch!RenamedSecond, FetchTypeOK,
       Working, Fetch!Failed
  <2>2. Checked'
    BY <1>11 DEF Fetch!Rename, Fetch!Goes, Fetch!Whole, Fetch!RenamedSecond, FetchTypeOK,
       Checked, Fetch!Recorded
  <2>3. Published'
    <3>1. CASE at' = [at EXCEPT ![t] = "ok"] /\ folder' = fetched[t]
      BY <1>11, <3>1 DEF Fetch!Rename, Fetch!Goes, FetchTypeOK, Checked, Published,
         Fetch!Recorded
    <3>2. CASE at' = [at EXCEPT ![t] = Fetch!RenamedSecond] /\ UNCHANGED folder
      BY <1>11, <3>2 DEF Fetch!Rename, Fetch!Goes, Fetch!Whole, Fetch!RenamedSecond,
         FetchTypeOK, Published, Fetch!Recorded
    <3> QED
      BY <1>11, <3>1, <3>2 DEF Fetch!Rename, Fetch!Goes
  <2>4. CutByShort' /\ RefusedByRecord'
    BY <1>11 DEF Fetch!Rename, Fetch!Goes, Fetch!Whole, Fetch!RenamedSecond, FetchTypeOK,
       CutByShort, Fetch!Malformed, Fetch!Recorded
  <2>5. Fetch!FailsForCause'
    BY <1>11 DEF Fetch!Rename, Fetch!Goes, Fetch!Whole, Fetch!RenamedSecond, FetchTypeOK,
       CutByShort, Published, Fetch!FailsForCause, Fetch!Malformed, Fetch!Recorded
  <2> QED
    BY <2>1, <2>2, <2>3, <2>4, <2>5
<1>12. ASSUME NEW t \in Tools, Fetch!Crash(t) PROVE FetchIInv'
  BY <1>12 DEF Fetch!Crash, Fetch!Goes, Fetch!Whole, FetchTypeOK, Working, Fetch!Failed,
     Checked, Published, CutByShort, Fetch!FailsForCause, Fetch!Malformed, Fetch!Recorded
<1> QED
  BY <1>1, <1>2, <1>3, <1>4, <1>5, <1>6, <1>7, <1>8, <1>9, <1>10, <1>11, <1>12 DEF Fetch!Next,
     Fetch!Step

LEMMA FetchSafe == FetchIInv => Fetch!FetchesAgree /\ Fetch!FailsForCause
<1> SUFFICES ASSUME FetchIInv PROVE Fetch!FetchesAgree
  BY DEF FetchIInv
<1> QED
  BY DEF FetchIInv, FetchTypeOK, Checked, Published, Fetch!FetchesAgree

-----------------------------------------------------------------------------
(* Processes that stage one helper: for any number of processes and builds *)

Places == {"mark", "look", "folder", "pdb", "copy", "move", "sweep", "start", "threw",
           "missing", "started", "dead"}

Copies == [there : BOOLEAN, pdb : BOOLEAN, copy : Helper!Builds \cup {Helper!Nothing}]

HelperTypeOK ==
  /\ shipped \in Helper!Builds
  /\ copies \in [Helper!Builds -> Copies]
  /\ where \in [Processes -> Places]
  /\ mark \in [Processes -> Helper!Builds]
  /\ pending \in [Processes -> Helper!Builds \cup {Helper!Nothing}]
  /\ torn \in BOOLEAN

\* Until a build lands between a mark and its copy, what a name has, or is
\* about to get, is that build.
Named ==
  ~torn => /\ \A b \in Helper!Builds : copies[b].copy \in {Helper!Nothing, b}
           /\ \A p \in Processes : pending[p] \in {Helper!Nothing, mark[p]}

\* The processes that have read a mark have read one mark.
Agree == \A p, q \in Processes : where[p] # "mark" /\ where[q] # "mark" => mark[p] = mark[q]

\* A process finds what it has made, or what another has made for it.
Kept ==
  Agree =>
    /\ \A b \in Helper!Builds : copies[b].copy # Helper!Nothing => copies[b].there /\ copies[b].pdb
    /\ \A p \in Processes :
         /\ where[p] \notin {"threw", "missing"}
         /\ where[p] \in {"pdb", "copy", "move"} => Helper!Mine(p).there
         /\ where[p] \in {"copy", "move"} => Helper!Mine(p).pdb
         /\ where[p] = "move" => pending[p] # Helper!Nothing
         /\ where[p] \in {"sweep", "start", "started"} => Helper!Mine(p).copy # Helper!Nothing

NotYet == \A p \in Processes : where[p] = "mark" => pending[p] = Helper!Nothing

\* A folder is there for a process that has read its mark.
Founded ==
  \A b \in Helper!Builds :
    copies[b].there => \E p \in Processes : where[p] # "mark" /\ mark[p] = b

HelperIInv == HelperTypeOK /\ Named /\ NotYet /\ Kept /\ Founded

LEMMA BuildsAreSome == Helper!Nothing \notin Helper!Builds /\ 1 \in Helper!Builds
  BY HandoversAssumption DEF Helper!Nothing, Helper!Builds

LEMMA HelperInit == Helper!Init => HelperIInv
<1> SUFFICES ASSUME Helper!Init PROVE HelperIInv
  OBVIOUS
<1> USE BuildsAreSome DEF Helper!Init
<1>1. HelperTypeOK
  <2>1. Helper!NoFolder \in Copies
    BY DEF Helper!NoFolder, Copies
  <2> QED
    BY <2>1 DEF HelperTypeOK, Places
<1>2. Named /\ NotYet /\ Kept /\ Founded
  BY DEF Named, NotYet, Kept, Founded, Helper!NoFolder
<1> QED
  BY <1>1, <1>2 DEF HelperIInv

\* Processes that disagree do so for good.
LEMMA AgreeBack == HelperTypeOK /\ [Helper!Next]_(Helper!vars) /\ Agree' => Agree
<1> SUFFICES ASSUME HelperTypeOK, [Helper!Next]_(Helper!vars), Agree' PROVE Agree
  OBVIOUS
<1>1. \A p \in Processes : where[p] # "mark" => where'[p] # "mark" /\ mark'[p] = mark[p]
  BY DEF HelperTypeOK, Helper!Next, Helper!vars, Helper!Rebuild, Helper!Step, Helper!Crash,
     Helper!ReadMark, Helper!LookForCopy, Helper!CreateDirectory, Helper!PlacePdb,
     Helper!Copy, Helper!Move, Helper!MovedSecond, Helper!Sweep, Helper!Start, Helper!Goes
<1> QED
  BY <1>1 DEF Agree

\* A process keeps the mark it has read, and makes no other folder.
LEMMA FoundedStays == HelperTypeOK /\ Founded /\ [Helper!Next]_(Helper!vars) => Founded'
<1> SUFFICES ASSUME HelperTypeOK, Founded, [Helper!Next]_(Helper!vars) PROVE Founded'
  OBVIOUS
<1>1. \A p \in Processes : where[p] # "mark" => where'[p] # "mark" /\ mark'[p] = mark[p]
  BY DEF HelperTypeOK, Helper!Next, Helper!vars, Helper!Rebuild, Helper!Step, Helper!Crash,
     Helper!ReadMark, Helper!LookForCopy, Helper!CreateDirectory, Helper!PlacePdb,
     Helper!Copy, Helper!Move, Helper!MovedSecond, Helper!Sweep, Helper!Start, Helper!Goes
<1>2. ASSUME NEW b \in Helper!Builds, copies'[b].there
      PROVE  copies[b].there \/ \E p \in Processes : where[p] = "folder" /\ mark[p] = b
  <2> USE <1>2 DEF HelperTypeOK, Copies, Helper!Goes
  <2>1. ASSUME NEW p \in Processes, Helper!CreateDirectory(p)
        PROVE  copies[b].there \/ (where[p] = "folder" /\ mark[p] = b)
    BY <2>1 DEF Helper!CreateDirectory
  <2>2. ASSUME NEW p \in Processes, Helper!PlacePdb(p) \/ Helper!Move(p) \/ Helper!Sweep(p)
        PROVE  copies[b].there
    BY <2>2 DEF Helper!PlacePdb, Helper!Move, Helper!Sweep
  <2>3. ASSUME NEW p \in Processes,
               \/ Helper!ReadMark(p) \/ Helper!LookForCopy(p) \/ Helper!Copy(p)
               \/ Helper!Start(p) \/ Helper!Crash(p)
        PROVE  copies' = copies
    BY <2>3 DEF Helper!ReadMark, Helper!LookForCopy, Helper!Copy, Helper!Start, Helper!Crash
  <2>4. CASE Helper!Rebuild \/ UNCHANGED Helper!vars
    BY <2>4 DEF Helper!Rebuild, Helper!vars
  <2> QED
    BY <2>1, <2>2, <2>3, <2>4 DEF Helper!Next, Helper!Step
<1> QED
  BY <1>1, <1>2 DEF Founded

LEMMA HelperTypes == HelperTypeOK /\ [Helper!Next]_(Helper!vars) => HelperTypeOK'
<1> SUFFICES ASSUME HelperTypeOK, [Helper!Next]_(Helper!vars) PROVE HelperTypeOK'
  OBVIOUS
<1> USE DEF HelperTypeOK
<1>1. CASE UNCHANGED Helper!vars
  BY <1>1 DEF Helper!vars
<1>2. CASE Helper!Rebuild
  BY <1>2, HandoversAssumption DEF Helper!Rebuild, Helper!Builds
<1>3. ASSUME NEW p \in Processes, Helper!ReadMark(p) PROVE HelperTypeOK'
  BY <1>3 DEF Helper!ReadMark, Helper!Goes, Helper!Mine, Places, Copies
<1>4. ASSUME NEW p \in Processes, Helper!LookForCopy(p) PROVE HelperTypeOK'
  BY <1>4 DEF Helper!LookForCopy, Helper!Goes, Helper!Mine, Places, Copies
<1>5. ASSUME NEW p \in Processes, Helper!CreateDirectory(p) PROVE HelperTypeOK'
  BY <1>5 DEF Helper!CreateDirectory, Helper!Goes, Helper!Mine, Places, Copies
<1>6. ASSUME NEW p \in Processes, Helper!PlacePdb(p) PROVE HelperTypeOK'
  BY <1>6 DEF Helper!PlacePdb, Helper!Goes, Helper!Mine, Places, Copies
<1>7. ASSUME NEW p \in Processes, Helper!Copy(p) PROVE HelperTypeOK'
  BY <1>7 DEF Helper!Copy, Helper!Goes, Helper!Mine, Places, Copies
<1>8. ASSUME NEW p \in Processes, Helper!Move(p) PROVE HelperTypeOK'
  BY <1>8 DEF Helper!Move, Helper!Goes, Helper!Mine, Helper!MovedSecond, Places, Copies
<1>9. ASSUME NEW p \in Processes, Helper!Sweep(p) PROVE HelperTypeOK'
  BY <1>9 DEF Helper!Sweep, Helper!Goes, Helper!Mine, Helper!Others, Helper!NoFolder, Places,
     Copies
<1>10. ASSUME NEW p \in Processes, Helper!Start(p) PROVE HelperTypeOK'
  BY <1>10 DEF Helper!Start, Helper!Goes, Helper!Mine, Places, Copies
<1>11. ASSUME NEW p \in Processes, Helper!Crash(p) PROVE HelperTypeOK'
  BY <1>11 DEF Helper!Crash, Helper!Goes, Helper!Mine, Places, Copies
<1> QED
  BY <1>1, <1>2, <1>3, <1>4, <1>5, <1>6, <1>7, <1>8, <1>9, <1>10, <1>11 DEF Helper!Next,
     Helper!Step

\* The parts of the invariant that a step keeps, beside its types.
LEMMA HelperStep == HelperIInv /\ [Helper!Next]_(Helper!vars) => HelperIInv'
<1> SUFFICES ASSUME HelperIInv, [Helper!Next]_(Helper!vars) PROVE HelperIInv'
  OBVIOUS
<1>1. HelperTypeOK
  BY DEF HelperIInv
<1>2. Named /\ NotYet
  BY DEF HelperIInv
<1>3. Agree' => Agree /\ Kept
  BY <1>1, AgreeBack DEF HelperIInv
<1>4. HelperTypeOK' /\ Founded'
  BY <1>1, HandoversAssumption, HelperTypes, FoundedStays DEF HelperIInv
<1>5. CASE UNCHANGED Helper!vars
  <2>1. Named' /\ NotYet'
    BY <1>2, <1>5 DEF Helper!vars, Named, NotYet
  <2>2. Kept'
    BY <1>3, <1>5 DEF Helper!vars, Kept, Agree, Helper!Mine
  <2> QED
    BY <1>4, <2>1, <2>2 DEF HelperIInv
<1>6. CASE Helper!Rebuild
  <2>1. Named' /\ NotYet'
    BY <1>6, <1>1, <1>2, BuildsAreSome DEF Helper!Rebuild, Helper!Goes, Helper!Mine,
       HelperTypeOK, Named, NotYet, Copies
  <2>2. Kept'
    BY <1>6, <1>1, <1>3, BuildsAreSome DEF Helper!Rebuild, Helper!Goes, Helper!Mine,
       HelperTypeOK, Kept, Agree, Copies
  <2> QED
    BY <1>4, <2>1, <2>2 DEF HelperIInv
<1>7. ASSUME NEW p \in Processes, Helper!ReadMark(p) PROVE HelperIInv'
  <2>1. Named' /\ NotYet'
    BY <1>7, <1>1, <1>2, BuildsAreSome DEF Helper!ReadMark, Helper!Goes, Helper!Mine,
       HelperTypeOK, Named, NotYet, Copies
  <2>2. Kept'
    BY <1>7, <1>1, <1>3, BuildsAreSome DEF Helper!ReadMark, Helper!Goes, Helper!Mine,
       HelperTypeOK, Kept, Agree, Copies
  <2> QED
    BY <1>4, <2>1, <2>2 DEF HelperIInv
<1>8. ASSUME NEW p \in Processes, Helper!LookForCopy(p) PROVE HelperIInv'
  <2>1. Named' /\ NotYet'
    BY <1>8, <1>1, <1>2, BuildsAreSome DEF Helper!LookForCopy, Helper!Goes, Helper!Mine,
       HelperTypeOK, Named, NotYet, Copies
  <2>2. Kept'
    BY <1>8, <1>1, <1>3, BuildsAreSome DEF Helper!LookForCopy, Helper!Goes, Helper!Mine,
       HelperTypeOK, Kept, Agree, Copies
  <2> QED
    BY <1>4, <2>1, <2>2 DEF HelperIInv
<1>9. ASSUME NEW p \in Processes, Helper!CreateDirectory(p) PROVE HelperIInv'
  <2>1. Named' /\ NotYet'
    BY <1>9, <1>1, <1>2, BuildsAreSome DEF Helper!CreateDirectory, Helper!Goes, Helper!Mine,
       HelperTypeOK, Named, NotYet, Copies
  <2>2. Kept'
    BY <1>9, <1>1, <1>3, BuildsAreSome DEF Helper!CreateDirectory, Helper!Goes, Helper!Mine,
       HelperTypeOK, Kept, Agree, Copies
  <2> QED
    BY <1>4, <2>1, <2>2 DEF HelperIInv
<1>10. ASSUME NEW p \in Processes, Helper!PlacePdb(p) PROVE HelperIInv'
  <2>1. Named' /\ NotYet'
    BY <1>10, <1>1, <1>2, BuildsAreSome DEF Helper!PlacePdb, Helper!Goes, Helper!Mine,
       HelperTypeOK, Named, NotYet, Copies
  <2>2. Kept'
    BY <1>10, <1>1, <1>3, BuildsAreSome DEF Helper!PlacePdb, Helper!Goes, Helper!Mine,
       HelperTypeOK, Kept, Agree, Copies
  <2> QED
    BY <1>4, <2>1, <2>2 DEF HelperIInv
<1>11. ASSUME NEW p \in Processes, Helper!Copy(p) PROVE HelperIInv'
  <2>1. Named' /\ NotYet'
    BY <1>11, <1>1, <1>2, BuildsAreSome DEF Helper!Copy, Helper!Goes, Helper!Mine,
       HelperTypeOK, Named, NotYet, Copies
  <2>2. Kept'
    BY <1>11, <1>1, <1>3, BuildsAreSome DEF Helper!Copy, Helper!Goes, Helper!Mine,
       HelperTypeOK, Kept, Agree, Copies
  <2> QED
    BY <1>4, <2>1, <2>2 DEF HelperIInv
<1>12. ASSUME NEW p \in Processes, Helper!Move(p) PROVE HelperIInv'
  <2>1. Named' /\ NotYet'
    <3>1. NotYet'
      BY <1>12, <1>1, <1>2 DEF Helper!Move, Helper!Goes, Helper!MovedSecond, HelperTypeOK,
         NotYet
    <3>2. CASE pending[p] # Helper!Nothing /\ Helper!Mine(p).copy = Helper!Nothing
      BY <1>12, <1>1, <1>2, <3>1, <3>2 DEF Helper!Move, Helper!Goes, HelperTypeOK, Named,
         Helper!Mine, Copies
    <3>3. CASE ~(pending[p] # Helper!Nothing /\ Helper!Mine(p).copy = Helper!Nothing)
      BY <1>12, <1>1, <1>2, <3>1, <3>3 DEF Helper!Move, HelperTypeOK, Named
    <3> QED
      BY <3>2, <3>3
  <2>2. Kept'
    BY <1>12, <1>1, <1>3, BuildsAreSome DEF Helper!Move, Helper!Goes, Helper!Mine,
       Helper!MovedSecond, HelperTypeOK, Kept, Agree, Copies
  <2> QED
    BY <1>4, <2>1, <2>2 DEF HelperIInv
<1>13. ASSUME NEW p \in Processes, Helper!Sweep(p) PROVE HelperIInv'
  <2>1. Named' /\ NotYet'
    BY <1>13, <1>1, <1>2, BuildsAreSome DEF Helper!Sweep, Helper!Goes, Helper!Mine,
       Helper!Others, Helper!NoFolder, HelperTypeOK, Named, NotYet, Copies
  <2>2. Agree /\ Founded => copies' = copies /\ pending' = pending
    <3> SUFFICES ASSUME Agree, Founded PROVE copies' = copies /\ pending' = pending
      OBVIOUS
    <3>1. Helper!Others(p) = {}
      BY <1>13 DEF Helper!Others, Helper!Sweep, Helper!Goes, Agree, Founded
    <3> QED
      BY <1>13, <1>1, <3>1 DEF Helper!Sweep, HelperTypeOK, Copies
  <2>3. Kept'
    BY <1>13, <1>1, <1>3, <2>2, BuildsAreSome DEF Helper!Sweep, Helper!Goes, Helper!Mine,
       HelperTypeOK, Kept, Agree, Copies, HelperIInv
  <2> QED
    BY <1>4, <2>1, <2>3 DEF HelperIInv
<1>14. ASSUME NEW p \in Processes, Helper!Start(p) PROVE HelperIInv'
  <2>1. Named' /\ NotYet'
    BY <1>14, <1>1, <1>2, BuildsAreSome DEF Helper!Start, Helper!Goes, Helper!Mine,
       HelperTypeOK, Named, NotYet, Copies
  <2>2. Kept'
    BY <1>14, <1>1, <1>3, BuildsAreSome DEF Helper!Start, Helper!Goes, Helper!Mine,
       HelperTypeOK, Kept, Agree, Copies
  <2> QED
    BY <1>4, <2>1, <2>2 DEF HelperIInv
<1>15. ASSUME NEW p \in Processes, Helper!Crash(p) PROVE HelperIInv'
  <2>1. Named' /\ NotYet'
    BY <1>15, <1>1, <1>2, BuildsAreSome DEF Helper!Crash, Helper!Goes, Helper!Mine,
       HelperTypeOK, Named, NotYet, Copies
  <2>2. Kept'
    BY <1>15, <1>1, <1>3, BuildsAreSome DEF Helper!Crash, Helper!Goes, Helper!Mine,
       HelperTypeOK, Kept, Agree, Copies
  <2> QED
    BY <1>4, <2>1, <2>2 DEF HelperIInv
<1> QED
  BY <1>5, <1>6, <1>7, <1>8, <1>9, <1>10, <1>11, <1>12, <1>13, <1>14, <1>15 DEF Helper!Next,
     Helper!Step

LEMMA HelperSafe == HelperIInv => Helper!NameHoldsBytes /\ Helper!OneBuildStarts
<1> SUFFICES ASSUME HelperIInv PROVE Helper!NameHoldsBytes /\ Helper!OneBuildStarts
  OBVIOUS
<1>1. Helper!OneBuild => Agree
  BY DEF Helper!OneBuild, Agree
<1> QED
  BY <1>1 DEF HelperIInv, HelperTypeOK, Named, Kept, Helper!NameHoldsBytes,
     Helper!OneBuildStarts

-----------------------------------------------------------------------------
(* The six together *)

HandoverNext == EventNext \/ TaskNext \/ TxNext \/ ViewNext \/ FetchNext \/ HelperNext

\* A step is one of a module's own, and leaves the others' variables alone.
LEMMA Apart ==
  [HandoverNext]_vars =>
    /\ [Event!Next]_(Event!vars) /\ [Task!Next]_(Task!vars) /\ [Tx!Next]_(Tx!vars)
    /\ [View!Next]_(View!vars) /\ [Fetch!Next]_(Fetch!vars) /\ [Helper!Next]_(Helper!vars)
  BY DEF HandoverNext, EventNext, TaskNext, TxNext, ViewNext, FetchNext, HelperNext, vars,
     event, tasked, enlist, viewed, fetch, helper, Event!vars, Task!vars, Tx!vars, View!vars,
     Fetch!vars, Helper!vars

IInv == EventIInv /\ TaskIInv /\ TxIInv /\ ViewIInv /\ FetchIInv /\ HelperIInv

THEOREM Invariance == FairSpec => []IInv
<1>1. Init => IInv
  BY EventInit, TaskInit, TxInit, ViewInit, FetchInit, HelperInit DEF Init, IInv
<1>2. IInv /\ [HandoverNext]_vars => IInv'
  BY Apart, EventStep, TaskStep, TxStep, ViewStep, FetchStep, HelperStep DEF IInv
<1> QED
  BY <1>1, <1>2, PTL DEF FairSpec, HandoverNext

\* While raises come one after another, no callback runs on a context that
\* has been freed, whichever of the calls, the removal and the sweep comes
\* last (ObjectEvents.cs:249-252).
THEOREM CallsKeepContext == FairSpec => []SerialCallsKeepContext
<1>1. IInv => SerialCallsKeepContext
  BY EventSafe DEF IInv, SerialCallsKeepContext
<1> QED
  BY <1>1, Invariance, PTL

\* A native context is freed once, even when raises overlap: the exchange of
\* _released leaves it to one of the last call and the removal
\* (ObjectEvents.cs:249-252).
THEOREM ContextFreedOnce == FairSpec => [](context # "freed twice")
<1>1. IInv => (context # "freed twice")
  BY DEF IInv, EventIInv, EventTypeOK
<1> QED
  BY <1>1, Invariance, PTL

\* A sweep of the hooks leaves no COM handler that was made before it began,
\* for any number of threads that remove the handler at once
\* (ComEvents.cs:128-132).
THEOREM SweepFinds == FairSpec => []SweepRemoves
<1>1. IInv => SweepRemoves
  BY EventSafe DEF IInv, SweepRemoves
<1> QED
  BY <1>1, Invariance, PTL

\* is_cancelled reads a byte that is there, in whatever order the method, the
\* Rust task and the token end, until the method has thrown (task.rs:33-35,
\* 56-57).
THEOREM ByteLives == FairSpec => []ByteLivesWithCall
<1>1. IInv => ByteLivesWithCall
  BY TaskSafe DEF IInv, ByteLivesWithCall
<1> QED
  BY <1>1, Invariance, PTL

\* The byte is freed once, whichever halves end the task, and the token's
\* callback never writes it after that (TaskSource.cs:13-16, 43-46).
THEOREM ByteFreedOnce == FairSpec => [](byte \in {"clear", "set", "freed"})
<1>1. IInv => (byte \in {"clear", "set", "freed"})
  BY DEF IInv, TaskIInv, TaskTypeOK
<1> QED
  BY <1>1, Invariance, PTL

\* All of a transaction's resources commit or none does, whenever a timeout
\* comes (transaction.rs:45-55).
THEOREM Atomicity == FairSpec => []AllOrNothing
<1>1. IInv => AllOrNothing
  BY TxSafe DEF IInv, AllOrNothing
<1> QED
  BY <1>1, Invariance, PTL

\* Neither a prepare nor the drop of a refused enlistment finds its resource
\* gone (transaction.rs:55-67).
THEOREM NoUseAfterEnd == FairSpec => [](\A r \in Resources : resource[r] # "used freed" /\ reply[r] # "freed")
<1>1. IInv => (\A r \in Resources : resource[r] # "used freed" /\ reply[r] # "freed")
  BY DEF IInv, TxIInv, TxTypeOK
<1> QED
  BY <1>1, Invariance, PTL

\* A view's owner is dropped once, and no reader touches what was freed with it
\* but one the dispose overtook past its check, for any number of readers
\* (RustMemoryManager.cs:9-15, 49-57).
THEOREM ViewOutlived == FairSpec => []OwnerOutlivesUse
<1>1. IInv => OwnerOutlivesUse
  BY OwnerSafe DEF IInv, OwnerOutlivesUse
<1> QED
  BY <1>1, Invariance, PTL

\* Tools that fetch one package find what the lock's first record and the
\* earlier layout's say, for any number of tools, deaths and cut records
\* (toolchain.rs:34-41, 502-508).
THEOREM ToolsAgree == FairSpec => []FetchesAgree
<1>1. IInv => FetchesAgree
  BY FetchSafe DEF IInv, FetchesAgree
<1> QED
  BY <1>1, Invariance, PTL

\* A tool fails for a cause of its own, a record another one cut short, or a
\* server that gave two packages: no other tool's death makes it fail, and no
\* lost race, unless something else had left a folder with no marker for them
\* to remove (toolchain.rs:34-41, 469-472).
THEOREM FailuresHaveCauses == FairSpec => []FailsForCause
<1>1. IInv => FailsForCause
  BY FetchSafe DEF IInv, FailsForCause
<1> QED
  BY <1>1, Invariance, PTL

\* Until a rebuild lands between a mark and its copy, a staged helper's name
\* stands for its bytes, for any number of processes and builds
\* (NativeModule.cs:333-337).
THEOREM NamesHoldBytes == FairSpec => []NameHoldsBytes
<1>1. IInv => NameHoldsBytes
  BY HelperSafe DEF IInv, NameHoldsBytes
<1> QED
  BY <1>1, Invariance, PTL

\* Processes of one build all start their helper: none removes or replaces
\* what another needs (NativeModule.cs:348-352).
THEOREM BuildStarts == FairSpec => []OneBuildStarts
<1>1. IInv => OneBuildStarts
  BY HelperSafe DEF IInv, OneBuildStarts
<1> QED
  BY <1>1, Invariance, PTL
=============================================================================
