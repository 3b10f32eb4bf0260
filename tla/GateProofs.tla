----------------------------- MODULE GateProofs -----------------------------
(***************************************************************************)
(* Proofs about Gate.tla for any finite set of threads and any nesting     *)
(* bound: mutual exclusion, the exclusive entry, no lost wakeup, and that  *)
(* the gate implements the abstract lock.                                  *)
(***************************************************************************)
EXTENDS Gate, FiniteSetTheorems, TLAPS

USE ThreadsAssumption, MaxDepthAssumption

\* The inductive invariant.
IInv ==
  TypeOK /\ WaitersCounted /\ OwnerInv /\ DepthInv /\ OneEvent /\ NoLostWakeup

\* A thread joining or leaving the counted set moves its cardinality by one.
LEMMA CountedMoves ==
  ASSUME TypeOK, NEW t \in Threads
  PROVE  /\ IsFiniteSet(Counted)
         /\ Cardinality(Counted) \in Nat
         /\ t \notin Counted
              => Cardinality(Counted \cup {t}) = Cardinality(Counted) + 1
         /\ t \in Counted
              => /\ Cardinality(Counted \ {t}) = Cardinality(Counted) - 1
                 /\ Cardinality(Counted) > 0
<1>1. IsFiniteSet(Counted)
  BY FS_Subset DEF Counted
<1>2. Cardinality(Counted) \in Nat
  BY <1>1, FS_CardinalityType
<1>3. t \notin Counted => Cardinality(Counted \cup {t}) = Cardinality(Counted) + 1
  BY <1>1, FS_AddElement
<1>4. ASSUME t \in Counted
      PROVE  /\ Cardinality(Counted \ {t}) = Cardinality(Counted) - 1
             /\ Cardinality(Counted) > 0
  <2>1. Cardinality(Counted \ {t}) = Cardinality(Counted) - 1
    BY <1>1, <1>4, FS_RemoveElement
  <2>2. Cardinality(Counted \ {t}) \in Nat
    BY <1>1, FS_RemoveElement, FS_CardinalityType
  <2>3. QED
    BY <2>1, <2>2, <1>2
<1>5. QED
  BY <1>1, <1>2, <1>3, <1>4

LEMMA InitInv == Init => IInv
<1> SUFFICES ASSUME Init PROVE IInv
  OBVIOUS
<1> USE DEF Init
<1>1. TypeOK
  BY DEF TypeOK, Entering, Leaving
<1>2. WaitersCounted
  <2>1. Counted = {}
    BY DEF Counted
  <2>2. QED
    BY <2>1, FS_EmptySet DEF WaitersCounted
<1>3. OwnerInv /\ DepthInv /\ OneEvent /\ NoLostWakeup
  BY DEF OwnerInv, DepthInv, OneEvent, NoLostWakeup, Inside
<1>4. QED
  BY <1>1, <1>2, <1>3 DEF IInv

\* The types survive a step; the counter does because what takes it back
\* counted itself before.
LEMMA TypeStep ==
  ASSUME IInv, NEW t \in Threads,
         Call(t) \/ Run(t) \/ Leave(t) \/ Interrupt(t)
  PROVE  TypeOK'
<1>0. TypeOK /\ WaitersCounted /\ DepthInv /\ OneEvent
  BY DEF IInv
<1>a. t \in Counted => waiters - 1 \in Nat
  <2> SUFFICES ASSUME t \in Counted PROVE waiters - 1 \in Nat
    OBVIOUS
  <2>1. Cardinality(Counted) \in Nat /\ Cardinality(Counted) > 0
    BY <1>0, CountedMoves
  <2>2. QED
    BY <1>0, <2>1 DEF WaitersCounted
<1> USE <1>0 DEF TypeOK, Entering, Leaving, Goto, gateVars, wakeVars, callerVars
<1>1. ASSUME NEW x \in BOOLEAN, Enter(t, x) PROVE TypeOK'
  BY <1>1 DEF Enter
<1>2. ASSUME NEW x \in BOOLEAN, Nest(t, x) PROVE TypeOK'
  BY <1>2 DEF Nest, CanNest, Credit
<1>3. CASE CompareExchange(t) \/ Spin(t) \/ Attempt(t)
  BY <1>3 DEF CompareExchange, Spin, Attempt, Take
<1>4. CASE Admit(t)
  BY <1>4 DEF Admit, Credit
<1>5. CASE WaitParker(t)
  BY <1>5 DEF WaitParker
<1>6. CASE WaitPublish(t)
  BY <1>6 DEF WaitPublish, Publish
<1>7. CASE Count(t)
  BY <1>7 DEF Count
<1>8. CASE Park(t)
  BY <1>8 DEF Park
<1>9. CASE Uncount(t) \/ Interrupt(t)
  <2>1. t \in Counted
    BY <1>9 DEF Uncount, Interrupt, Counted
  <2>2. QED
    BY <1>9, <1>a, <2>1 DEF Uncount, Interrupt
<1>10. CASE OpenGate(t) \/ ReadWaiters(t)
  BY <1>10 DEF OpenGate, ReadWaiters, Waiting
<1>11. CASE SetParker(t)
  BY <1>11 DEF SetParker
<1>12. CASE Set(t)
  <2>1. ev[t] \in Threads
    BY <1>12 DEF Set, OneEvent
  <2>2. QED
    BY <1>12, <2>1 DEF Set
<1>13. CASE LeaveInner(t) \/ LeaveOuter(t)
  <2>1. Inside(t)
    BY <1>13 DEF LeaveInner, LeaveOuter, Debit, Inside
  <2>2. depth - 1 \in Nat
    BY <2>1 DEF DepthInv, Inside
  <2>3. sharedIn' \in [Threads -> Nat] /\ exclIn' \in [Threads -> Nat]
    BY <1>13 DEF LeaveInner, LeaveOuter, Debit
  <2>4. QED
    BY <1>13, <2>2, <2>3 DEF LeaveInner, LeaveOuter
<1>14. QED
  BY <1>1, <1>2, <1>3, <1>4, <1>5, <1>6, <1>7, <1>8, <1>9, <1>10, <1>11,
     <1>12, <1>13 DEF Call, Run, Leave

\* The counter follows the counted set: the steps that enter it or leave it
\* are the two that move the counter by one.
LEMMA CountedStep ==
  ASSUME IInv, NEW t \in Threads,
         Call(t) \/ Run(t) \/ Leave(t) \/ Interrupt(t)
  PROVE  WaitersCounted'
<1>0. TypeOK /\ WaitersCounted
  BY DEF IInv
<1> USE <1>0 DEF Goto, gateVars, wakeVars, callerVars
<1>a. /\ t \notin Counted => Cardinality(Counted \cup {t}) = Cardinality(Counted) + 1
      /\ t \in Counted => Cardinality(Counted \ {t}) = Cardinality(Counted) - 1
  BY CountedMoves
<1>1. CASE Count(t)
  <2>1. t \notin Counted /\ Counted' = Counted \cup {t}
    BY <1>1 DEF Count, Counted, TypeOK
  <2>2. QED
    BY <1>1, <1>a, <2>1 DEF Count, WaitersCounted
<1>2. CASE Uncount(t) \/ Interrupt(t)
  <2>1. t \in Counted /\ Counted' = Counted \ {t}
    BY <1>2 DEF Uncount, Interrupt, Counted, TypeOK
  <2>2. QED
    BY <1>2, <1>a, <2>1 DEF Uncount, Interrupt, WaitersCounted
<1>3. ASSUME UNCHANGED waiters, Counted' = Counted
      PROVE  WaitersCounted'
  BY <1>3 DEF WaitersCounted
<1>4. CASE Call(t) \/ Leave(t)
  <2>1. UNCHANGED waiters /\ Counted' = Counted
    BY <1>4 DEF Call, Enter, Nest, Leave, LeaveInner, LeaveOuter, Counted, TypeOK
  <2>2. QED
    BY <1>3, <2>1
<1>5. CASE \/ CompareExchange(t) \/ Spin(t) \/ Admit(t) \/ WaitParker(t)
           \/ WaitPublish(t) \/ Attempt(t)
  <2>1. UNCHANGED waiters /\ Counted' = Counted
    BY <1>5 DEF CompareExchange, Spin, Admit, WaitParker, WaitPublish, Attempt,
                Counted, TypeOK
  <2>2. QED
    BY <1>3, <2>1
<1>6. CASE \/ Park(t) \/ OpenGate(t) \/ ReadWaiters(t) \/ SetParker(t) \/ Set(t)
  <2>1. UNCHANGED waiters /\ Counted' = Counted
    BY <1>6 DEF Park, OpenGate, ReadWaiters, SetParker, Set, Counted, TypeOK
  <2>2. QED
    BY <1>3, <2>1
<1>7. QED
  BY <1>1, <1>2, <1>4, <1>5, <1>6 DEF Run

\* Who owns the gate: a step of one thread gives it to that thread when it
\* was open, or takes it from that thread alone.
LEMMA OwnerStep ==
  ASSUME IInv, NEW t \in Threads,
         Call(t) \/ Run(t) \/ Leave(t) \/ Interrupt(t)
  PROVE  OwnerInv'
<1>0. TypeOK /\ OwnerInv /\ DepthInv
  BY DEF IInv
<1> USE <1>0 DEF TypeOK, OwnerInv, Inside, Goto, gateVars, wakeVars, callerVars
<1>1. CASE Call(t)
  BY <1>1 DEF Call, Enter, Nest, CanNest, Credit
<1>2. CASE CompareExchange(t) \/ Spin(t) \/ Attempt(t)
  BY <1>2 DEF CompareExchange, Spin, Attempt, Take
<1>3. CASE Admit(t)
  BY <1>3 DEF Admit, Credit
<1>4. CASE WaitParker(t) \/ WaitPublish(t) \/ Count(t) \/ Park(t)
  BY <1>4 DEF WaitParker, WaitPublish, Count, Park
<1>5. CASE Uncount(t) \/ Interrupt(t)
  BY <1>5 DEF Uncount, Interrupt
<1>6. CASE LeaveInner(t)
  <2>1. Inside(t) /\ depth = sharedIn[t] + exclIn[t] /\ depth > 1
    BY <1>6 DEF LeaveInner, Debit, DepthInv
  <2>2. Inside(t)'
    BY <1>6, <2>1 DEF LeaveInner, Debit
  <2>3. QED
    BY <1>6, <2>1, <2>2 DEF LeaveInner, Debit
<1>7. CASE LeaveOuter(t)
  <2>1. Inside(t) /\ depth = sharedIn[t] + exclIn[t] /\ depth <= 1
    BY <1>7 DEF LeaveOuter, Debit, DepthInv
  <2>2. ~Inside(t)'
    BY <1>7, <2>1 DEF LeaveOuter, Debit
  <2>3. QED
    BY <1>7, <2>1, <2>2 DEF LeaveOuter, Debit
<1>8. CASE OpenGate(t)
  BY <1>8 DEF OpenGate
<1>9. CASE ReadWaiters(t) \/ SetParker(t) \/ Set(t)
  BY <1>9 DEF ReadWaiters, Waiting, SetParker, Set
<1>10. QED
  BY <1>1, <1>2, <1>3, <1>4, <1>5, <1>6, <1>7, <1>8, <1>9 DEF Run, Leave

\* The depth is the entries of the thread inside, and the flag its kind.
LEMMA DepthStep ==
  ASSUME IInv, NEW t \in Threads,
         Call(t) \/ Run(t) \/ Leave(t) \/ Interrupt(t)
  PROVE  DepthInv'
<1>0. TypeOK /\ OwnerInv /\ DepthInv
  BY DEF IInv
<1> USE <1>0 DEF TypeOK, DepthInv, Inside, Goto, gateVars, wakeVars, callerVars
<1>1. CASE UNCHANGED <<depth, exclusive, callerVars>>
  BY <1>1
<1>2. ASSUME NEW x \in BOOLEAN, Nest(t, x) PROVE DepthInv'
  BY <1>2 DEF Nest, CanNest, Credit, OwnerInv
<1>3. CASE Admit(t)
  <2>1. sharedIn[t] = 0 /\ exclIn[t] = 0
    BY <1>3 DEF Admit, OwnerInv
  <2>2. \A u \in Threads \ {t} : ~Inside(u) /\ ~Inside(u)'
    BY <1>3 DEF Admit, OwnerInv, Credit
  <2>3. QED
    BY <1>3, <2>1, <2>2 DEF Admit, Credit
<1>4. CASE LeaveInner(t) \/ LeaveOuter(t)
  <2>1. Inside(t)
    BY <1>4 DEF LeaveInner, LeaveOuter, Debit
  <2>2. \A u \in Threads \ {t} : ~Inside(u) /\ ~Inside(u)'
    BY <1>4, <2>1 DEF LeaveInner, LeaveOuter, Debit, OwnerInv
  <2>3. QED
    BY <1>4, <2>1, <2>2 DEF LeaveInner, LeaveOuter, Debit
<1>5. QED
  BY <1>1, <1>2, <1>3, <1>4
  DEF Call, Enter, Run, CompareExchange, Spin, WaitParker, WaitPublish, Count,
      Attempt, Park, Uncount, OpenGate, ReadWaiters, SetParker, Set, Leave,
      Interrupt

\* Every thread past its Parker() call has the published event.
LEMMA OneEventStep ==
  ASSUME IInv, NEW t \in Threads,
         Call(t) \/ Run(t) \/ Leave(t) \/ Interrupt(t)
  PROVE  OneEvent'
<1>0. TypeOK /\ OneEvent /\ WaitersCounted
  BY DEF IInv
<1> USE <1>0 DEF TypeOK, OneEvent, Goto, gateVars, wakeVars, callerVars
<1>1. CASE Call(t) \/ Leave(t)
  BY <1>1 DEF Call, Enter, Nest, Leave, LeaveInner, LeaveOuter
<1>2. CASE WaitParker(t)
  BY <1>2 DEF WaitParker
<1>3. CASE WaitPublish(t)
  BY <1>3 DEF WaitPublish, Publish
<1>4. CASE ReadWaiters(t)
  <2>1. ASSUME waiters > 0 PROVE \E u \in Threads : u \in Counted
    <3>1. Counted # {}
      BY <2>1, FS_EmptySet DEF WaitersCounted
    <3>2. QED
      BY <3>1 DEF Counted
  <2>2. waiters > 0 => parker # NoEvent
    BY <2>1 DEF Counted
  <2>3. QED
    BY <1>4, <2>2 DEF ReadWaiters, Waiting
<1>5. CASE SetParker(t) \/ Set(t) \/ OpenGate(t)
  BY <1>5 DEF SetParker, Set, OpenGate
<1>6. CASE \/ CompareExchange(t) \/ Spin(t) \/ Admit(t) \/ Count(t)
  BY <1>6 DEF CompareExchange, Spin, Admit, Count
<1>7. CASE Attempt(t) \/ Park(t) \/ Uncount(t) \/ Interrupt(t)
  BY <1>7 DEF Attempt, Park, Uncount, Interrupt
<1>8. QED
  BY <1>1, <1>2, <1>3, <1>4, <1>5, <1>6, <1>7 DEF Run

\* No wakeup is lost.  The witness of the invariant moves: a thread that
\* parks was counted, so the thread that opens the gate next finds the count
\* positive, sets the one event, and the thread the event releases attempts.
LEMMA WakeupStep ==
  ASSUME IInv, NEW t \in Threads,
         Call(t) \/ Run(t) \/ Leave(t) \/ Interrupt(t)
  PROVE  NoLostWakeup'
<1>0. TypeOK /\ OwnerInv /\ OneEvent /\ WaitersCounted /\ NoLostWakeup
  BY DEF IInv
<1>a. ASSUME NEW u \in Threads, pc[u] = "park" PROVE waiters > 0
  <2>1. u \in Counted
    BY <1>a DEF Counted
  <2>2. QED
    BY <1>0, <2>1, CountedMoves DEF WaitersCounted
<1> USE <1>0 DEF TypeOK, NoLostWakeup, WillWake, Goto, gateVars, wakeVars, callerVars
<1>1. CASE Call(t)
  BY <1>1 DEF Call, Enter, Nest
<1>2. CASE CompareExchange(t) \/ Spin(t) \/ Attempt(t)
  BY <1>2 DEF CompareExchange, Spin, Attempt, Take
<1>3. CASE Admit(t) \/ Uncount(t)
  \* The thread owns the gate.
  BY <1>3 DEF Admit, Uncount, OwnerInv
<1>4. CASE WaitParker(t) \/ Count(t)
  BY <1>4 DEF WaitParker, Count
<1>5. CASE WaitPublish(t)
  <2>1. ASSUME NEW u \in Threads, pc[u] = "park" PROVE UNCHANGED parker
    BY <1>5, <2>1 DEF WaitPublish, Publish, OneEvent
  <2>2. QED
    BY <1>5, <2>1 DEF WaitPublish
<1>6. CASE Park(t)
  <2>1. pc'[t] = "attempt"
    BY <1>6 DEF Park
  <2>2. QED
    BY <2>1
<1>7. CASE Interrupt(t)
  BY <1>7 DEF Interrupt
<1>8. CASE OpenGate(t)
  <2>1. pc'[t] = "wake"
    BY <1>8 DEF OpenGate
  <2>2. QED
    BY <2>1
<1>9. CASE ReadWaiters(t)
  <2>1. ASSUME NEW u \in Threads, pc'[u] = "park" PROVE pc'[t] = "setParker"
    <3>1. pc[u] = "park"
      BY <1>9, <2>1 DEF ReadWaiters
    <3>2. QED
      BY <1>9, <1>a, <3>1 DEF ReadWaiters, Waiting
  <2>2. QED
    BY <2>1
<1>10. CASE SetParker(t)
  <2>1. pc'[t] = "set"
    BY <1>10 DEF SetParker
  <2>2. QED
    BY <2>1
<1>11. CASE Set(t)
  <2>1. parker' \in signaled'
    BY <1>11 DEF Set, OneEvent
  <2>2. QED
    BY <2>1
<1>12. CASE Leave(t)
  BY <1>12 DEF Leave, LeaveInner, LeaveOuter, Debit, OwnerInv, Inside
<1>13. QED
  BY <1>1, <1>2, <1>3, <1>4, <1>5, <1>6, <1>7, <1>8, <1>9, <1>10, <1>11, <1>12
  DEF Run

\* The invariant holds in every reachable state.
THEOREM Invariance == Spec => []IInv
<1>1. IInv /\ [Next]_vars => IInv'
  <2> SUFFICES ASSUME IInv, [Next]_vars PROVE IInv'
    OBVIOUS
  <2>1. CASE UNCHANGED vars
    <3>1. Counted' = Counted
      BY <2>1 DEF vars, Counted
    <3>2. TypeOK' /\ WaitersCounted' /\ OneEvent' /\ NoLostWakeup'
      BY <2>1, <3>1 DEF IInv, TypeOK, WaitersCounted, OneEvent, NoLostWakeup,
                        vars, gateVars, wakeVars, callerVars
    <3>3. OwnerInv' /\ DepthInv'
      BY <2>1 DEF IInv, OwnerInv, DepthInv, Inside, vars, gateVars, callerVars
    <3>4. QED
      BY <3>2, <3>3 DEF IInv
  <2>2. ASSUME NEW t \in Threads,
               Call(t) \/ Run(t) \/ Leave(t) \/ Interrupt(t)
        PROVE  IInv'
    BY <2>2, TypeStep, CountedStep, OwnerStep, DepthStep, OneEventStep,
       WakeupStep DEF IInv
  <2>3. QED
    BY <2>1, <2>2 DEF Next
<1>2. QED
  BY InitInv, <1>1, PTL DEF Spec

\* No opening of the gate leaves a parked thread asleep (Gate.cs:71-78).
THEOREM WakeupSafety == Spec => []NoLostWakeup
<1>1. IInv => NoLostWakeup
  BY DEF IInv
<1>2. QED
  BY <1>1, Invariance, PTL

\* The count of waiters is right whichever way they leave (Gate.cs:88-96).
THEOREM CountSafety == Spec => [](WaitersCounted /\ OneEvent)
<1>1. IInv => WaitersCounted /\ OneEvent
  BY DEF IInv
<1>2. QED
  BY <1>1, Invariance, PTL

\* One thread inside at a time (Gate.cs:7).
THEOREM Exclusion == Spec => []MutualExclusion
<1>1. IInv => MutualExclusion
  BY DEF IInv, OwnerInv, MutualExclusion
<1>2. QED
  BY <1>1, Invariance, PTL

\* An exclusive entry is alone (Gate.cs:10-11).
THEOREM Exclusivity == Spec => []ExclusiveAlone
<1>1. IInv => ExclusiveAlone
  BY DEF IInv, DepthInv, ExclusiveAlone, Inside
<1>2. QED
  BY <1>1, Invariance, PTL

\* Every step of the gate is a step of the abstract lock or a stutter.
THEOREM Refinement == Spec => ImplementsLock
<1>1. Init => Lock!Init
  BY DEF Init, Lock!Init
<1>2. IInv /\ [Next]_vars => [Lock!Next]_<<sharedIn, exclIn>>
  <2> SUFFICES ASSUME IInv, [Next]_vars
               PROVE  [Lock!Next]_<<sharedIn, exclIn>>
    OBVIOUS
  <2>0. TypeOK /\ OwnerInv /\ DepthInv
    BY DEF IInv
  <2> USE <2>0 DEF Goto, Lock!Inside, Inside
  <2>1. CASE UNCHANGED callerVars
    BY <2>1 DEF callerVars
  <2>2. ASSUME NEW t \in Threads, NEW x \in BOOLEAN, Nest(t, x)
        PROVE  Lock!AdmitShared(t)
    <3>1. exclIn[t] = 0
      BY <2>2 DEF Nest, CanNest, OwnerInv, DepthInv, TypeOK
    <3>2. QED
      BY <2>2, <3>1 DEF Nest, CanNest, Credit, OwnerInv, Lock!AdmitShared
  <2>3. ASSUME NEW t \in Threads, Admit(t)
        PROVE  Lock!AdmitShared(t) \/ Lock!AdmitExclusive(t)
    <3>1. \A u \in Threads : ~Inside(u)
      BY <2>3 DEF Admit, OwnerInv
    <3>2. exclIn[t] = 0
      BY <3>1 DEF TypeOK
    <3>3. QED
      BY <2>3, <3>1, <3>2 DEF Admit, Credit, Lock!AdmitShared, Lock!AdmitExclusive
  <2>4. ASSUME NEW t \in Threads, Leave(t)
        PROVE  Lock!Depart(t)
    BY <2>4 DEF Leave, LeaveInner, LeaveOuter, Debit, Lock!Depart
  <2>5. ASSUME NEW t \in Threads, Run(t), ~Admit(t)
        PROVE  UNCHANGED callerVars
    BY <2>5 DEF Run, CompareExchange, Spin, WaitParker, WaitPublish, Count,
                Attempt, Park, Uncount, OpenGate, ReadWaiters, SetParker, Set
  <2>6. ASSUME NEW t \in Threads, Interrupt(t) \/ \E x \in BOOLEAN : Enter(t, x)
        PROVE  UNCHANGED callerVars
    BY <2>6 DEF Interrupt, Enter
  <2>7. QED
    BY <2>1, <2>2, <2>3, <2>4, <2>5, <2>6 DEF Next, Call, Lock!Next, vars
<1>3. QED
  BY <1>1, <1>2, Invariance, PTL DEF Spec, Lock!Spec, ImplementsLock
=============================================================================
