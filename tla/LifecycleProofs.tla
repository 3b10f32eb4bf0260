-------------------------- MODULE LifecycleProofs --------------------------
(***************************************************************************)
(* Lifecycle's removal, load and copy invariants, for every set of         *)
(* runspaces and every number of imports and rebuilds.  A step is followed *)
(* from the gate: where its holder is, what its locals are, and what it    *)
(* does to the counts and the copies.                                      *)
(***************************************************************************)
EXTENDS Lifecycle, Integers, FiniteSetTheorems, TLAPS

Outside == {"idle", "importing", "removing", "reloading", "queued"}
Within == {"reload", "stage", "old unload", "load", "import", "undo", "find", "remove", "unload"}
\* Where the thread in the gate is.
place == IF holder = Free THEN "free" ELSE pc[holder]

Frames == [op : {"import", "reload"}, key : Callers, left : Nat, stamp : Nat, copy : Nat]

TypeOK ==
  /\ frame \in Frames
  /\ imports \in [Callers -> Nat]
  /\ owed \in [Callers -> Int]
  /\ loaded \in BOOLEAN /\ torn \in BOOLEAN
  /\ copy \in Nat /\ stamp \in Nat /\ generation \in Nat /\ file \in Nat \ {0}

\* Only the thread in the gate is where the gate is held, and it finds its
\* locals fresh.
Alone ==
  /\ holder \in Threads \cup {Free}
  /\ pc \in [Threads -> Outside \cup Within]
  /\ \A t \in Threads : pc[t] \in Within <=> holder = t
  /\ holder = Free => frame = NoFrame

\* The thread of a close has nothing to do before the close.
NotClosing == \A r \in Runspaces : r \notin closed => pc[Close(r)] = "idle"

\* _total is the number of imports of all the callers.
Taking(k, S) == {<<k, i>> : i \in S}
Imported == UNION {Taking(k, 1 .. imports[k]) : k \in Callers}
TotalCounts == IsFiniteSet(Imported) /\ total = Cardinality(Imported)

\* The hooks that have run lag the counts by the one that is running: an
\* import is counted before its hook, and a removal after its last.
HooksLag ==
  /\ place \notin {"import", "remove"} => owed = imports
  /\ place = "import" =>
       /\ imports[holder[2]] > 0
       /\ owed = [imports EXCEPT ![holder[2]] = @ - 1]
  /\ place = "remove" =>
       /\ frame.left > 0
       /\ Taken(holder) > 0 /\ Taken(holder) <= imports[frame.key]
       /\ owed = [imports EXCEPT ![frame.key] = @ - Taken(holder) + frame.left]

\* Nothing is imported, and nobody is at the gate, before the first load.
FirstLoad ==
  /\ copy = 0 => stamp = 0
  /\ stamp = 0 =>
       /\ ~loaded /\ generation = 0
       /\ \A k \in Callers : imports[k] = 0
       /\ \A t \in Threads : pc[t] = "idle"

\* The copy in use is the one loaded, while something imports it or its unload
\* hook is due.
OneLive ==
  /\ live = IF loaded THEN {copy} ELSE {}
  /\ loaded => total > 0 \/ place \in {"undo", "unload"}
  /\ place = "load" => ~loaded /\ (frame.op = "reload" => total > 0)

\* A write time is never newer than what it stands for, save that of the first
\* load, which is read after the copy is staged.
Ordered ==
  /\ stamp <= file /\ copy <= file
  /\ generation > 0 => stamp <= copy
  /\ ~torn /\ stamp # 0 => copy <= stamp
Staged == stamp < frame.stamp /\ frame.stamp <= file /\ (~torn => frame.stamp = file)
Rebound ==
  /\ stamp < frame.stamp /\ frame.stamp <= frame.copy /\ frame.copy <= file
  /\ ~torn => frame.stamp = frame.copy
Versions == Ordered /\ (place = "stage" => Staged) /\ (place = "old unload" => Rebound)

IInv == TypeOK /\ Alone /\ NotClosing /\ TotalCounts /\ HooksLag /\ FirstLoad /\ OneLive /\ Versions

-----------------------------------------------------------------------------
(* The imports of all the callers, one by one *)

LEMMA ImportedAre ==
  \A x : x \in Imported <=> \E k \in Callers : \E i \in 1 .. imports[k] : x = <<k, i>>
  BY DEF Imported, Taking

\* n imports of one caller are n.
LEMMA TakingCounts ==
  ASSUME NEW k, NEW a \in Nat, NEW b \in Nat, a <= b
  PROVE  /\ IsFiniteSet(Taking(k, a + 1 .. b))
         /\ Cardinality(Taking(k, a + 1 .. b)) = b - a
<1> DEFINE S == a + 1 .. b
           T == Taking(k, S)
           f == [i \in S |-> <<k, i>>]
<1>1. IsFiniteSet(S) /\ Cardinality(S) = b - a
  <2>1. a + 1 \in Int /\ b \in Int
    OBVIOUS
  <2>2. IsFiniteSet(S) /\ Cardinality(S) = IF a + 1 > b THEN 0 ELSE b - (a + 1) + 1
    BY <2>1, FS_Interval
  <2>3. (IF a + 1 > b THEN 0 ELSE b - (a + 1) + 1) = b - a
    OBVIOUS
  <2> QED
    BY <2>2, <2>3
<1>2. f \in [S -> T] /\ \A i, j \in S : f[i] = f[j] => i = j
  BY DEF Taking
<1>3. \A t \in T : \E i \in S : f[i] = t
  BY DEF Taking
<1>4. f \in Bijection(S, T)
  BY <1>2, <1>3 DEF Bijection, Injection, Surjection, IsInjective
<1>5. ExistsBijection(S, T)
  BY <1>4 DEF ExistsBijection
<1> QED
  BY <1>1, <1>5, FS_Bijection

LEMMA CountsUp ==
  ASSUME TypeOK, TotalCounts, NEW k \in Callers, CountUp(k)
  PROVE  TotalCounts' /\ total \in Nat
<1> DEFINE x == <<k, imports[k] + 1>>
<1>1. total \in Nat
  BY FS_CardinalityType DEF TotalCounts
<1>2. \A j \in Callers : imports[j] \in Nat
  BY DEF TypeOK
<1>3. /\ \A j \in Callers : imports'[j] = IF j = k THEN imports[k] + 1 ELSE imports[j]
      /\ total' = total + 1
  BY DEF TypeOK, CountUp
<1>4. \A y : y \in Imported' <=> \E j \in Callers : \E i \in 1 .. imports'[j] : y = <<j, i>>
  BY ImportedAre DEF Imported, Taking
<1>5. Imported' = Imported \cup {x}
  <2>1. ASSUME NEW y, y \in Imported' PROVE y \in Imported \cup {x}
    <3>1. PICK j \in Callers : \E i \in 1 .. imports'[j] : y = <<j, i>>
      BY <2>1, <1>4
    <3>2. PICK i \in 1 .. imports'[j] : y = <<j, i>>
      BY <3>1
    <3>3. i \in 1 .. imports[j] \/ (j = k /\ i = imports[k] + 1)
      BY <1>2, <1>3, <3>2
    <3> QED
      BY <3>2, <3>3, ImportedAre
  <2>2. ASSUME NEW y, y \in Imported \cup {x} PROVE y \in Imported'
    <3>1. CASE y = x
      <4>1. imports[k] + 1 \in 1 .. imports'[k]
        BY <1>2, <1>3
      <4> QED
        BY <3>1, <4>1, <1>4
    <3>2. CASE y \in Imported
      <4>1. PICK j \in Callers : \E i \in 1 .. imports[j] : y = <<j, i>>
        BY <3>2, ImportedAre
      <4>2. PICK i \in 1 .. imports[j] : y = <<j, i>>
        BY <4>1
      <4>3. i \in 1 .. imports'[j]
        BY <1>2, <1>3, <4>2
      <4> QED
        BY <4>2, <4>3, <1>4
    <3> QED
      BY <2>2, <3>1, <3>2
  <2> QED
    BY <2>1, <2>2
<1>6. x \notin Imported
  <2>1. SUFFICES ASSUME x \in Imported PROVE FALSE
    OBVIOUS
  <2>2. PICK j \in Callers : \E i \in 1 .. imports[j] : x = <<j, i>>
    BY <2>1, ImportedAre
  <2>3. j = k /\ imports[k] + 1 \in 1 .. imports[j]
    BY <2>2
  <2> QED
    BY <1>2, <2>3
<1> QED
  BY <1>1, <1>3, <1>5, <1>6, FS_AddElement DEF TotalCounts

\* A caller's own imports are among all of them.
LEMMA CountsDown ==
  ASSUME TypeOK, TotalCounts, NEW k \in Callers, NEW n \in Nat, n <= imports[k], CountDown(k, n)
  PROVE  TotalCounts' /\ total \in Nat /\ n <= total
<1> DEFINE S == Taking(k, imports[k] - n + 1 .. imports[k])
<1>1. \A j \in Callers : imports[j] \in Nat
  BY DEF TypeOK
<1>2. IsFiniteSet(S) /\ Cardinality(S) = n
  <2>1. imports[k] - n \in Nat /\ imports[k] - n <= imports[k] /\ imports[k] - (imports[k] - n) = n
    BY <1>1
  <2> QED
    BY <1>1, <2>1, TakingCounts
<1>3. S \subseteq Imported
  BY <1>1, ImportedAre DEF Taking
<1>4. total \in Nat /\ n <= total
  BY <1>2, <1>3, FS_Subset, FS_CardinalityType DEF TotalCounts
<1>5. /\ \A j \in Callers : imports'[j] = IF j = k THEN imports[k] - n ELSE imports[j]
      /\ total' = total - n
  BY DEF TypeOK, CountDown
<1>6. \A y : y \in Imported' <=> \E j \in Callers : \E i \in 1 .. imports'[j] : y = <<j, i>>
  BY ImportedAre DEF Imported, Taking
<1>7. Imported' = Imported \ S
  <2>1. ASSUME NEW j \in Callers, NEW i \in Int
        PROVE  i \in 1 .. imports'[j] <=> i \in 1 .. imports[j] /\ <<j, i>> \notin S
    BY <1>1, <1>5 DEF Taking
  <2> QED
    BY <1>6, <2>1, ImportedAre
<1>8. Imported \cap S = S
  BY <1>3
<1>9. IsFiniteSet(Imported \ S) /\ Cardinality(Imported \ S) = total - n
  <2>1. IsFiniteSet(Imported) /\ total = Cardinality(Imported)
    BY DEF TotalCounts
  <2> HIDE DEF S
  <2>2. /\ IsFiniteSet(Imported \ S)
        /\ Cardinality(Imported \ S) = Cardinality(Imported) - Cardinality(Imported \cap S)
    BY <2>1, FS_Difference
  <2> QED
    BY <1>2, <1>8, <2>1, <2>2
<1> QED
  BY <1>4, <1>5, <1>7, <1>9 DEF TotalCounts

-----------------------------------------------------------------------------
(* Where a step takes the thread in the gate *)

LEMMA ThreadParts ==
  /\ \A t \in Threads : t[2] \in Callers /\ t[1] \in {"command", "close"}
  /\ \A k \in Callers : Command(k) \in Threads
  /\ \A r \in Runspaces : Close(r) \in Threads
  BY DEF Threads, Callers, Command, Close

\* A step of the thread in the gate, seen from the gate.
LEMMA Inner ==
  ASSUME Alone, NEW t \in Threads, NEW from, In(t, from)
  PROVE  holder = t /\ place = from /\ pc[t] = from
  BY FreeAssumption DEF In, place

LEMMA Going ==
  ASSUME Alone, NEW t \in Threads, holder = t, NEW to, NEW f, GoesWith(t, to, f)
  PROVE  holder' = t /\ place' = to /\ frame' = f
  BY FreeAssumption DEF GoesWith, place, Alone

LEMMA Leaving ==
  ASSUME NEW t, Leaves(t)
  PROVE  holder' = Free /\ place' = "free" /\ frame' = NoFrame
  BY DEF Leaves, place

LEMMA InnerGoes ==
  ASSUME NEW t \in Threads, Inside(t)
  PROVE  /\ holder = t
         /\ Leaves(t) \/ \E to \in Within : \E f : GoesWith(t, to, f)
<1> USE DEF In, Within
<1>1. CASE Reload(t)
  BY <1>1 DEF Reload, GoesOn, Goes
<1>2. CASE Stage(t)
  BY <1>2 DEF Stage, LoadDue
<1>3. CASE OldUnloaded(t)
  BY <1>3 DEF OldUnloaded, LoadDue
<1>4. CASE LoadEnds(t)
  BY <1>4 DEF LoadEnds, GoesOn, Goes
<1>5. CASE ImportEnds(t)
  BY <1>5 DEF ImportEnds, Goes
<1>6. CASE Find(t)
  BY <1>6 DEF Find
<1>7. CASE RemovalEnds(t)
  BY <1>7 DEF RemovalEnds, Goes
<1>8. CASE UnloadEnds(t)
  BY <1>8 DEF UnloadEnds
<1> QED
  BY <1>1, <1>2, <1>3, <1>4, <1>5, <1>6, <1>7, <1>8 DEF Inside

\* A step outside the gate moves at most one thread, which stays outside.
Outer ==
  \/ FirstStage \/ FirstStamp \/ Calls \/ Rebuild
  \/ \E r \in Runspaces : RunspaceCloses(r) \/ PoolRuns(r)

LEMMA OuterGoes ==
  ASSUME NotClosing, Outer
  PROVE  /\ UNCHANGED <<holder, frame>>
         /\ \/ UNCHANGED pc
            \/ \E t \in Threads, to \in Outside :
                 pc[t] \in Outside /\ pc' = [pc EXCEPT ![t] = to]
<1> USE ThreadParts DEF Outside
<1>1. CASE FirstStage \/ FirstStamp \/ Rebuild
  BY <1>1 DEF FirstStage, FirstStamp, Rebuild
<1>2. ASSUME NEW k \in Callers, Import(k) \/ Remove(k) \/ ReloadNative(k)
      PROVE  /\ UNCHANGED <<holder, frame>>
             /\ pc[Command(k)] \in Outside
             /\ \E to \in Outside : pc' = [pc EXCEPT ![Command(k)] = to]
  BY <1>2 DEF Import, Remove, ReloadNative
<1>3. ASSUME NEW r \in Runspaces, PoolRuns(r)
      PROVE  /\ UNCHANGED <<holder, frame>>
             /\ pc[Close(r)] \in Outside
             /\ \E to \in Outside : pc' = [pc EXCEPT ![Close(r)] = to]
  BY <1>3 DEF PoolRuns
<1>4. ASSUME NEW r \in Runspaces, RunspaceCloses(r)
      PROVE  /\ UNCHANGED <<holder, frame>>
             /\ \/ UNCHANGED pc
                \/ /\ pc[Close(r)] \in Outside
                   /\ \E to \in Outside : pc' = [pc EXCEPT ![Close(r)] = to]
  <2>1. pc[Close(r)] = "idle"
    BY <1>4 DEF RunspaceCloses, NotClosing
  <2> QED
    BY <1>4, <2>1 DEF RunspaceCloses, Queued
<1>5. CASE Calls
  <2>1. PICK k \in Callers : Import(k) \/ Remove(k) \/ ReloadNative(k)
    BY <1>5 DEF Calls
  <2> QED
    BY <1>2, <2>1
<1>6. CASE \E r \in Runspaces : RunspaceCloses(r) \/ PoolRuns(r)
  <2>1. PICK r \in Runspaces : RunspaceCloses(r) \/ PoolRuns(r)
    BY <1>6
  <2>2. CASE RunspaceCloses(r)
    BY <1>4, <2>2
  <2>3. CASE PoolRuns(r)
    BY <1>3, <2>3
  <2> QED
    BY <2>1, <2>2, <2>3
<1> QED
  BY <1>1, <1>5, <1>6 DEF Outer

LEMMA AloneStays ==
  ASSUME Alone, NotClosing, [Next]_vars
  PROVE  Alone'
<1> USE FreeAssumption, ThreadParts DEF Alone
<1>1. CASE UNCHANGED vars
  BY <1>1 DEF vars
<1>2. CASE Outer
  <2>1. UNCHANGED <<holder, frame>>
    BY <1>2, OuterGoes
  <2>2. CASE UNCHANGED pc
    BY <2>1, <2>2
  <2>3. CASE \E t \in Threads, to \in Outside :
               pc[t] \in Outside /\ pc' = [pc EXCEPT ![t] = to]
    <3>1. PICK t \in Threads, to \in Outside :
                 pc[t] \in Outside /\ pc' = [pc EXCEPT ![t] = to]
      BY <2>3
    <3>2. pc[t] \notin Within /\ to \notin Within
      BY <3>1 DEF Outside, Within
    <3>3. \A u \in Threads : pc'[u] \in Within <=> pc[u] \in Within
      BY <3>1, <3>2
    <3> QED
      BY <2>1, <3>1, <3>3
  <2> QED
    BY <1>2, <2>2, <2>3, OuterGoes
<1>3. ASSUME NEW t \in Threads, Enter(t) PROVE Alone'
  <2>1. holder = Free /\ holder' = t
    BY <1>3 DEF Enter, Admits
  <2>2. \E to \in {"reload", "find"} : pc' = [pc EXCEPT ![t] = to]
    BY <1>3 DEF Enter
  <2> QED
    BY <2>1, <2>2 DEF Within
<1>4. ASSUME NEW t \in Threads, Inside(t) PROVE Alone'
  <2>1. holder = t
    BY <1>4, InnerGoes
  <2>2. CASE Leaves(t)
    <3>1. "idle" \in Outside /\ "idle" \notin Within
      BY DEF Outside, Within
    <3> QED
      BY <2>1, <2>2, <3>1 DEF Leaves
  <2>3. CASE \E to \in Within : \E f : GoesWith(t, to, f)
    BY <2>1, <2>3 DEF GoesWith
  <2> QED
    BY <1>4, <2>2, <2>3, InnerGoes
<1> QED
  BY <1>1, <1>2, <1>3, <1>4 DEF Next, Outer

LEMMA NotClosingStays ==
  ASSUME Alone, NotClosing, [Next]_vars
  PROVE  NotClosing'
<1> SUFFICES ASSUME NEW r \in Runspaces, r \notin closed' PROVE pc'[Close(r)] = "idle"
  BY DEF NotClosing
<1> DEFINE c == Close(r)
<1>1. pc \in [Threads -> Outside \cup Within] /\ c \in Threads
  BY ThreadParts DEF Alone
<1>2. closed \subseteq closed'
  BY DEF Next, vars, counts, copies, bindings, FirstStage, FirstStamp, Calls, Import, Remove,
     ReloadNative, Rebuild, RunspaceCloses, PoolRuns, Enter, Inside, Reload, Stage,
     OldUnloaded, LoadEnds, ImportEnds, Find, RemovalEnds, UnloadEnds
<1>3. pc[c] = "idle"
  BY <1>2 DEF NotClosing
<1>4. SUFFICES ASSUME pc'[c] # pc[c] PROVE FALSE
  BY <1>3
<1> HIDE DEF c
<1>5. ASSUME NEW t \in Threads, NEW to, pc' = [pc EXCEPT ![t] = to] PROVE t = c
  BY <1>1, <1>4, <1>5
<1>6. \A k \in Callers : Command(k) \in Threads /\ Command(k) # c
  BY ThreadParts DEF Command, Close, c
<1>7. CASE UNCHANGED vars \/ FirstStage \/ FirstStamp \/ Rebuild
  BY <1>4, <1>7 DEF vars, FirstStage, FirstStamp, Rebuild
<1>8. CASE Calls
  BY <1>5, <1>6, <1>8 DEF Calls, Import, Remove, ReloadNative
<1>9. ASSUME NEW s \in Runspaces, PoolRuns(s) PROVE FALSE
  BY <1>3, <1>5, <1>9, ThreadParts DEF PoolRuns
<1>10. ASSUME NEW s \in Runspaces, RunspaceCloses(s) PROVE FALSE
  <2>1. Close(s) = c
    BY <1>4, <1>5, <1>10, ThreadParts DEF RunspaceCloses, Queued
  <2>2. s = r
    BY <2>1 DEF Close, c
  <2> QED
    BY <1>10, <2>2 DEF RunspaceCloses
<1>11. ASSUME NEW t \in Threads, Enter(t) PROVE FALSE
  BY <1>3, <1>5, <1>11 DEF Enter
<1>12. ASSUME NEW t \in Threads, Inside(t) PROVE FALSE
  <2>1. pc[t] \in Within /\ t = c
    BY <1>5, <1>12, InnerGoes DEF Alone, Leaves, GoesWith
  <2> QED
    BY <1>3, <2>1 DEF Within
<1> QED
  BY <1>7, <1>8, <1>9, <1>10, <1>11, <1>12 DEF Next

-----------------------------------------------------------------------------
(* The types, and the count of the imports *)

LEMMA FrameTypes ==
  ASSUME TypeOK
  PROVE  /\ frame.op \in {"import", "reload"} /\ frame.key \in Callers
         /\ frame.left \in Nat /\ frame.stamp \in Nat /\ frame.copy \in Nat
         /\ [frame EXCEPT !.op = "reload"] \in Frames
         /\ [NoFrame EXCEPT !.op = frame.op] \in Frames
         /\ NoFrame \in Frames
         /\ \A n \in Nat : /\ [frame EXCEPT !.stamp = n] \in Frames
                           /\ [frame EXCEPT !.copy = n] \in Frames
                           /\ [frame EXCEPT !.left = n] \in Frames
                           /\ \A k \in Callers : [NoFrame EXCEPT !.key = k, !.left = n] \in Frames
  BY DEF TypeOK, Frames, NoFrame, Callers

\* What the actions in the gate take from a caller's imports is there.
LEMMA TakenIsThere ==
  ASSUME TypeOK, Alone, HooksLag, NEW t \in Threads
  PROVE  /\ In(t, "import") => t[2] \in Callers /\ imports[t[2]] \in Nat /\ 1 <= imports[t[2]]
         /\ In(t, "remove") => /\ frame.key \in Callers /\ imports[frame.key] \in Nat
                               /\ Taken(t) \in Nat /\ Taken(t) <= imports[frame.key]
<1>1. ASSUME In(t, "import")
      PROVE  t[2] \in Callers /\ imports[t[2]] \in Nat /\ 1 <= imports[t[2]]
  <2>1. holder = t /\ place = "import"
    BY <1>1, Inner
  <2>2. t[2] \in Callers /\ imports[t[2]] \in Nat
    BY ThreadParts DEF TypeOK
  <2>3. imports[t[2]] > 0
    BY <2>1 DEF HooksLag
  <2> QED
    BY <2>2, <2>3
<1>2. ASSUME In(t, "remove")
      PROVE  /\ frame.key \in Callers /\ imports[frame.key] \in Nat
             /\ Taken(t) \in Nat /\ Taken(t) <= imports[frame.key]
  <2>1. holder = t /\ place = "remove"
    BY <1>2, Inner
  <2>2. frame.key \in Callers /\ imports[frame.key] \in Nat
    BY FrameTypes DEF TypeOK
  <2>3. Taken(t) <= imports[frame.key]
    BY <2>1 DEF HooksLag
  <2>4. Taken(t) \in Nat
    BY <2>2 DEF Taken
  <2> QED
    BY <2>2, <2>3, <2>4
<1> QED
  BY <1>1, <1>2

\* A step counts an import, takes some away that are there, or counts nothing.
LEMMA CountsChange ==
  ASSUME TypeOK, Alone, HooksLag, [Next]_vars
  PROVE  \/ UNCHANGED counts
         \/ \E k \in Callers : CountUp(k)
         \/ \E k \in Callers : \E n \in Nat : n <= imports[k] /\ CountDown(k, n)
<1>1. ASSUME NEW t \in Threads, Reload(t)
      PROVE  UNCHANGED counts \/ \E k \in Callers : CountUp(k)
  BY <1>1, ThreadParts DEF Reload, GoesOn
<1>2. ASSUME NEW t \in Threads, LoadEnds(t)
      PROVE  UNCHANGED counts \/ \E k \in Callers : CountUp(k)
  BY <1>2, ThreadParts DEF LoadEnds, GoesOn
<1>3. ASSUME NEW t \in Threads, ImportEnds(t)
      PROVE  \/ UNCHANGED counts
             \/ \E k \in Callers : \E n \in Nat : n <= imports[k] /\ CountDown(k, n)
  <2>1. In(t, "import")
    BY <1>3 DEF ImportEnds
  <2>2. UNCHANGED counts \/ CountDown(t[2], 1)
    BY <1>3 DEF ImportEnds
  <2> QED
    BY <2>1, <2>2, TakenIsThere
<1>4. ASSUME NEW t \in Threads, RemovalEnds(t)
      PROVE  \/ UNCHANGED counts
             \/ \E k \in Callers : \E n \in Nat : n <= imports[k] /\ CountDown(k, n)
  <2>1. In(t, "remove")
    BY <1>4 DEF RemovalEnds
  <2>2. UNCHANGED counts \/ CountDown(frame.key, Taken(t))
    BY <1>4 DEF RemovalEnds
  <2> QED
    BY <2>1, <2>2, TakenIsThere
<1> QED
  BY <1>1, <1>2, <1>3, <1>4 DEF Next, vars, FirstStage, FirstStamp, Calls, Import, Remove,
     ReloadNative, Rebuild, RunspaceCloses, PoolRuns, Enter, Inside, Stage, OldUnloaded, Find,
     UnloadEnds

LEMMA TotalCountsStays ==
  ASSUME TypeOK, Alone, HooksLag, TotalCounts, [Next]_vars
  PROVE  TotalCounts'
<1>1. CASE UNCHANGED counts
  BY <1>1 DEF counts, TotalCounts, Imported
<1> QED
  BY <1>1, CountsChange, CountsUp, CountsDown

LEMMA ImportsTyped ==
  ASSUME TypeOK, Alone, HooksLag, [Next]_vars
  PROVE  imports' \in [Callers -> Nat]
<1>1. imports \in [Callers -> Nat]
  BY DEF TypeOK
<1>2. ASSUME NEW k \in Callers, CountUp(k) PROVE imports' \in [Callers -> Nat]
  BY <1>1, <1>2 DEF CountUp
<1>3. ASSUME NEW k \in Callers, NEW n \in Nat, n <= imports[k], CountDown(k, n)
      PROVE  imports' \in [Callers -> Nat]
  <2>1. imports[k] - n \in Nat
    BY <1>1, <1>3
  <2> QED
    BY <1>1, <1>3, <2>1 DEF CountDown
<1> QED
  BY <1>1, <1>2, <1>3, CountsChange DEF counts

LEMMA LeftTyped ==
  ASSUME TypeOK, LeftToRun > 0
  PROVE  LeftToRun \in Nat
<1>1. frame.left \in Nat
  BY FrameTypes
<1>2. \A n \in Nat : n - 1 > 0 => n - 1 \in Nat
  OBVIOUS
<1> QED
  BY <1>1, <1>2 DEF LeftToRun

LEMMA FrameTyped ==
  ASSUME TypeOK, Alone, HooksLag, [Next]_vars
  PROVE  frame' \in Frames
<1> USE FrameTypes
<1>1. frame \in Frames /\ file \in Nat
  BY DEF TypeOK
<1>2. CASE Outer \/ UNCHANGED vars
  BY <1>1, <1>2 DEF Outer, vars, FirstStage, FirstStamp, Calls, Import, Remove, ReloadNative,
     Rebuild, RunspaceCloses, PoolRuns
<1>3. ASSUME NEW t \in Threads, Enter(t) PROVE frame' \in Frames
  BY <1>1, <1>3 DEF Enter
<1>4. ASSUME NEW t \in Threads, Inside(t) PROVE frame' \in Frames
  <2>1. CASE Reload(t)
    BY <1>1, <2>1 DEF Reload, GoesOn, GoesWith, Goes, Leaves
  <2>2. CASE Stage(t)
    BY <1>1, <2>2 DEF Stage, LoadDue, GoesWith, Leaves
  <2>3. CASE OldUnloaded(t)
    BY <2>3 DEF OldUnloaded, LoadDue, GoesWith, Leaves
  <2>4. CASE LoadEnds(t)
    BY <2>4 DEF LoadEnds, GoesOn, GoesWith, Goes, Leaves
  <2>5. CASE ImportEnds(t)
    BY <2>5 DEF ImportEnds, GoesWith, Goes, Leaves
  <2>6. CASE Find(t)
    <3> DEFINE k == IF imports[t[2]] > 0 THEN t[2] ELSE NoRunspace
               n == IF t[1] = "close" THEN imports[t[2]]
                                      ELSE IF imports[k] > 0 THEN 1 ELSE 0
    <3>1. k \in Callers /\ n \in Nat
      BY ThreadParts DEF TypeOK, Callers
    <3>2. Leaves(t) \/ GoesWith(t, "remove", [NoFrame EXCEPT !.key = k, !.left = n])
      BY <2>6 DEF Find
    <3> HIDE DEF k, n
    <3> QED
      BY <3>1, <3>2 DEF GoesWith, Leaves
  <2>7. CASE RemovalEnds(t)
    <3>1. LeftToRun > 0 => LeftToRun \in Nat
      BY LeftTyped
    <3> QED
      BY <2>7, <3>1 DEF RemovalEnds, GoesWith, Goes, Leaves
  <2>8. CASE UnloadEnds(t)
    BY <2>8 DEF UnloadEnds, Leaves
  <2> QED
    BY <1>4, <2>1, <2>2, <2>3, <2>4, <2>5, <2>6, <2>7, <2>8 DEF Inside
<1> QED
  BY <1>2, <1>3, <1>4 DEF Next, Outer

\* A step changes the bindings in the first load or by a reload's copy.
LEMMA BindingsChange ==
  ASSUME [Next]_vars
  PROVE  \/ UNCHANGED bindings
         \/ FirstStage
         \/ FirstStamp
         \/ \E t \in Threads : Stage(t) /\ Bound(file)
         \/ \E t \in Threads : OldUnloaded(t) /\ Bound(frame.copy)
  BY DEF Next, vars, copies, FirstStage, FirstStamp, Calls, Import, Remove, ReloadNative,
     Rebuild, RunspaceCloses, PoolRuns, Enter, Inside, Reload, Stage, OldUnloaded, LoadEnds,
     ImportEnds, Find, RemovalEnds, UnloadEnds

LEMMA TypeStays ==
  ASSUME TypeOK, Alone, HooksLag, [Next]_vars
  PROVE  TypeOK'
<1>1. owed' \in [Callers -> Int]
  <2>1. owed \in [Callers -> Int]
    BY DEF TypeOK
  <2>2. UNCHANGED owed \/ \E k \in Callers : \/ owed' = [owed EXCEPT ![k] = @ + 1]
                                             \/ owed' = [owed EXCEPT ![k] = @ - 1]
    BY FrameTypes, ThreadParts DEF Next, vars, FirstStage, FirstStamp, Calls, Import, Remove,
       ReloadNative, Rebuild, RunspaceCloses, PoolRuns, Enter, Inside, Reload, Stage,
       OldUnloaded, LoadEnds, ImportEnds, Find, RemovalEnds, UnloadEnds
  <2> QED
    BY <2>1, <2>2
<1>2. loaded' \in BOOLEAN
  BY DEF TypeOK, Next, vars, copies, FirstStage, FirstStamp, Calls, Import, Remove,
     ReloadNative, Rebuild, RunspaceCloses, PoolRuns, Enter, Inside, Reload, Stage,
     OldUnloaded, LoadEnds, ImportEnds, Find, RemovalEnds, UnloadEnds, Unloaded, NotLoaded
<1>3. file' \in Nat \ {0} /\ torn' \in BOOLEAN
  <2>1. CASE Rebuild
    BY <2>1 DEF TypeOK, Rebuild
  <2> QED
    BY <2>1 DEF TypeOK, Next, vars, FirstStage, FirstStamp, Calls, Import, Remove,
       ReloadNative, RunspaceCloses, PoolRuns, Enter, Inside, Reload, Stage, OldUnloaded,
       LoadEnds, ImportEnds, Find, RemovalEnds, UnloadEnds
<1>4. copy' \in Nat /\ stamp' \in Nat /\ generation' \in Nat
  <2>1. /\ copy \in Nat /\ stamp \in Nat /\ generation \in Nat /\ file \in Nat
        /\ frame.stamp \in Nat /\ frame.copy \in Nat
    BY FrameTypes DEF TypeOK
  <2>2. CASE UNCHANGED bindings
    BY <2>1, <2>2 DEF bindings
  <2>3. CASE FirstStage
    BY <2>1, <2>3 DEF FirstStage
  <2>4. CASE FirstStamp
    BY <2>1, <2>4 DEF FirstStamp
  <2>5. CASE Bound(file) \/ Bound(frame.copy)
    BY <2>1, <2>5 DEF Bound, Bindings
  <2> QED
    BY <2>2, <2>3, <2>4, <2>5, BindingsChange
<1> QED
  BY <1>1, <1>2, <1>3, <1>4, FrameTyped, ImportsTyped DEF TypeOK

-----------------------------------------------------------------------------
(* The hooks that have run *)

LEMMA OuterPlace ==
  ASSUME Alone, NotClosing, Outer
  PROVE  UNCHANGED <<holder, frame, place>>
<1>1. UNCHANGED <<holder, frame>>
  BY OuterGoes
<1>2. CASE holder = Free
  BY <1>1, <1>2 DEF place
<1>3. CASE holder \in Threads
  <2>1. pc[holder] \in Within
    BY <1>3 DEF Alone
  <2>2. pc[holder] \notin Outside
    BY <2>1 DEF Within, Outside
  <2>3. pc'[holder] = pc[holder]
    BY <1>3, <2>2, OuterGoes DEF Alone
  <2> QED
    BY <1>1, <1>3, <2>3, FreeAssumption DEF place
<1> QED
  BY <1>2, <1>3 DEF Alone

LEMMA Entering ==
  ASSUME Alone, NEW t \in Threads, Enter(t)
  PROVE  place = "free" /\ place' \in {"reload", "find"} /\ holder' = t
  BY FreeAssumption DEF Enter, Admits, place, Alone

\* Counting an import and then running its hook.
LEMMA GoesOnLags ==
  ASSUME TypeOK, Alone, HooksLag, place \notin {"import", "remove"},
         NEW t \in Threads, holder = t, CountUp(t[2]), Goes(t, "import"), UNCHANGED owed
  PROVE  HooksLag'
<1>1. t[2] \in Callers
  BY ThreadParts
<1>2. holder' = t /\ place' = "import"
  BY Going DEF Goes
<1>3. owed' = imports /\ imports' = [imports EXCEPT ![t[2]] = @ + 1] /\ imports \in [Callers -> Nat]
  BY DEF HooksLag, CountUp, TypeOK
<1>4. imports'[t[2]] > 0
  BY <1>1, <1>3
<1>5. owed' = [imports' EXCEPT ![t[2]] = @ - 1]
  <2>1. imports'[t[2]] - 1 = imports[t[2]]
    BY <1>1, <1>3
  <2>2. \A k \in Callers : k # t[2] => imports'[k] = imports[k]
    BY <1>3
  <2> QED
    BY <1>1, <1>3, <2>1, <2>2
<1> QED
  BY <1>2, <1>4, <1>5 DEF HooksLag

\* Steps that run no hook.
LEMMA QuietLags ==
  ASSUME HooksLag, UNCHANGED <<imports, owed>>,
         place \notin {"import", "remove"}, place' \notin {"import", "remove"}
  PROVE  HooksLag'
  BY DEF HooksLag

LEMMA FindLags ==
  ASSUME TypeOK, Alone, HooksLag, NEW t \in Threads, Find(t)
  PROVE  HooksLag'
<1> DEFINE k == IF imports[t[2]] > 0 THEN t[2] ELSE NoRunspace
           n == IF t[1] = "close" THEN imports[t[2]] ELSE IF imports[k] > 0 THEN 1 ELSE 0
<1>1. k \in Callers /\ n \in Nat /\ imports \in [Callers -> Nat] /\ t[2] \in Callers
  BY ThreadParts DEF TypeOK, Callers
<1>2. holder = t /\ place = "find" /\ UNCHANGED <<imports, owed>>
  BY Inner DEF Find, counts
<1>3. owed = imports
  BY <1>2 DEF HooksLag
<1>4. n = 0 => Leaves(t)
  BY DEF Find
<1>5. n # 0 => GoesWith(t, "remove", [NoFrame EXCEPT !.key = k, !.left = n])
  BY DEF Find
<1>6. CASE n = 0
  <2>1. place' = "free"
    BY <1>4, <1>6, Leaving
  <2> QED
    BY <1>2, <2>1, QuietLags
<1>7. CASE n # 0
  <2> DEFINE f == [NoFrame EXCEPT !.key = k, !.left = n]
  <2>1. f.key = k /\ f.left = n
    BY DEF NoFrame
  <2>2. holder' = t /\ place' = "remove" /\ frame' = f
    BY <1>2, <1>5, <1>7, Going
  <2>3. frame'.key = k /\ frame'.left = n
    BY <2>1, <2>2
  <2>4. IF t[1] = "close" THEN n = imports[k] ELSE n = 1 /\ n <= imports[k]
    BY <1>1, <1>7
  <2> HIDE DEF k, n, f
  <2>5. Taken(t)' = n
    BY <1>2, <2>3, <2>4 DEF Taken
  <2>6. n <= imports'[k] /\ n > 0
    BY <1>1, <1>2, <1>7, <2>4
  <2>7. owed' = [imports' EXCEPT ![k] = @ - n + n]
    <3>1. imports[k] - n + n = imports[k]
      BY <1>1
    <3> QED
      BY <1>1, <1>2, <1>3, <3>1
  <2> QED
    BY <2>2, <2>3, <2>5, <2>6, <2>7 DEF HooksLag, Taken
<1> QED
  BY <1>6, <1>7

LEMMA ImportLags ==
  ASSUME TypeOK, Alone, HooksLag, NEW t \in Threads, ImportEnds(t)
  PROVE  HooksLag'
<1>1. holder = t /\ place = "import" /\ t[2] \in Callers
  BY Inner, ThreadParts DEF ImportEnds
<1>2. /\ imports \in [Callers -> Nat] /\ owed = [imports EXCEPT ![t[2]] = @ - 1]
  BY <1>1 DEF HooksLag, TypeOK
<1>3. owed' = imports'
  <2>1. CASE owed' = [owed EXCEPT ![t[2]] = @ + 1] /\ UNCHANGED counts
    <3>1. owed[t[2]] + 1 = imports[t[2]]
      BY <1>1, <1>2
    <3>2. \A j \in Callers : j # t[2] => owed[j] = imports[j]
      BY <1>2
    <3> QED
      BY <1>1, <1>2, <2>1, <3>1, <3>2 DEF counts
  <2>2. CASE CountDown(t[2], 1) /\ UNCHANGED owed
    BY <1>2, <2>2 DEF CountDown
  <2> QED
    BY <2>1, <2>2 DEF ImportEnds
<1>4. place' \in {"undo", "free"}
  BY <1>1, Going, Leaving DEF ImportEnds, Goes
<1> QED
  BY <1>3, <1>4 DEF HooksLag

LEMMA RemovalLags ==
  ASSUME TypeOK, Alone, HooksLag, NEW t \in Threads, RemovalEnds(t)
  PROVE  HooksLag'
<1> DEFINE k == frame.key
           n == Taken(t)
           l == frame.left
<1>1. holder = t /\ place = "remove" /\ k \in Callers /\ l \in Nat
  BY Inner, FrameTypes DEF RemovalEnds
<1>2. /\ imports \in [Callers -> Nat] /\ owed = [imports EXCEPT ![k] = @ - n + l]
      /\ l > 0 /\ n > 0 /\ n <= imports[k]
  BY <1>1 DEF HooksLag, TypeOK
<1>3. n \in Nat
  BY <1>1, <1>2 DEF Taken
<1>4. owed' = [owed EXCEPT ![k] = @ - 1]
  BY DEF RemovalEnds
<1>5. CASE l - 1 > 0
  <2> DEFINE f == [frame EXCEPT !.left = l - 1]
  <2>1. GoesWith(t, "remove", f) /\ UNCHANGED counts
    BY <1>5 DEF RemovalEnds, LeftToRun
  <2>2. frame \in Frames
    BY DEF TypeOK
  <2>3. f.key = k /\ f.left = l - 1
    BY <2>2 DEF Frames
  <2>4. holder' = t /\ place' = "remove" /\ frame'.key = k /\ frame'.left = l - 1
    BY <1>1, <2>1, <2>3, Going
  <2>5. Taken(t)' = n /\ imports' = imports
    BY <2>1, <2>4 DEF Taken, counts
  <2> HIDE DEF n, l, k, f
  <2>6. owed' = [imports EXCEPT ![k] = @ - n + (l - 1)]
    <3>1. owed[k] - 1 = imports[k] - n + (l - 1)
      BY <1>1, <1>2, <1>3
    <3>2. \A j \in Callers : j # k => owed[j] = imports[j]
      BY <1>2
    <3> QED
      BY <1>1, <1>2, <1>4, <3>1, <3>2
  <2> QED
    BY <1>2, <1>5, <2>4, <2>5, <2>6 DEF HooksLag, Taken
<1>6. CASE ~(l - 1 > 0)
  <2>1. CountDown(k, n) /\ (Goes(t, "unload") \/ Leaves(t))
    BY <1>6 DEF RemovalEnds, LeftToRun
  <2>2. place' \in {"unload", "free"}
    BY <1>1, <2>1, Going, Leaving DEF Goes
  <2> HIDE DEF n, l, k
  <2>3. l = 1
    BY <1>1, <1>2, <1>6
  <2>4. owed' = imports'
    <3>1. imports' = [imports EXCEPT ![k] = @ - n]
      BY <2>1 DEF CountDown
    <3>2. owed[k] - 1 = imports[k] - n
      BY <1>1, <1>2, <1>3, <2>3
    <3>3. \A j \in Callers : j # k => owed[j] = imports[j]
      BY <1>2
    <3> QED
      BY <1>1, <1>2, <1>4, <3>1, <3>2, <3>3
  <2> QED
    BY <2>2, <2>4 DEF HooksLag
<1> QED
  BY <1>5, <1>6

LEMMA HooksLagStays ==
  ASSUME TypeOK, Alone, NotClosing, HooksLag, [Next]_vars
  PROVE  HooksLag'
<1>1. CASE UNCHANGED vars
  BY <1>1 DEF HooksLag, vars, counts, place, Taken
<1>2. CASE Outer
  <2>1. UNCHANGED <<holder, frame, place>>
    BY <1>2, OuterPlace
  <2>2. UNCHANGED <<imports, owed>>
    BY <1>2 DEF Outer, counts, FirstStage, FirstStamp, Calls, Import, Remove, ReloadNative,
       Rebuild, RunspaceCloses, PoolRuns
  <2> QED
    BY <2>1, <2>2 DEF HooksLag, Taken
<1>3. ASSUME NEW t \in Threads, Enter(t) PROVE HooksLag'
  <2>1. UNCHANGED <<imports, owed>>
    BY <1>3 DEF Enter, counts
  <2> QED
    BY <1>3, <2>1, Entering, QuietLags
<1>4. ASSUME NEW t \in Threads, Inside(t) PROVE HooksLag'
  <2>1. CASE Reload(t)
    <3>1. holder = t /\ place = "reload"
      BY <2>1, Inner DEF Reload
    <3>2. UNCHANGED owed
      BY <2>1 DEF Reload
    <3>3. CASE CountUp(t[2]) /\ Goes(t, "import")
      BY <3>1, <3>2, <3>3, GoesOnLags
    <3>4. CASE /\ UNCHANGED counts
               /\ Leaves(t) \/ \E to \in {"stage", "load"} : \E f : GoesWith(t, to, f)
      <4>1. place' \in {"free", "stage", "load"}
        BY <3>1, <3>4, Going, Leaving
      <4> QED
        BY <3>1, <3>2, <3>4, <4>1, QuietLags DEF counts
    <3> QED
      BY <2>1, <3>3, <3>4 DEF Reload, GoesOn, Goes
  <2>2. CASE Stage(t) \/ OldUnloaded(t) \/ UnloadEnds(t)
    <3>1. holder = t /\ place \in {"stage", "old unload", "undo", "unload"}
      BY <2>2, Inner DEF Stage, OldUnloaded, UnloadEnds
    <3>2. UNCHANGED <<imports, owed>>
      BY <2>2 DEF Stage, OldUnloaded, UnloadEnds, counts
    <3>3. Leaves(t) \/ \E to \in {"old unload", "load"} : \E f : GoesWith(t, to, f)
      BY <2>2 DEF Stage, OldUnloaded, UnloadEnds, LoadDue
    <3>4. place' \in {"free", "old unload", "load"}
      BY <3>1, <3>3, Going, Leaving
    <3> QED
      BY <3>1, <3>2, <3>4, QuietLags
  <2>3. CASE LoadEnds(t)
    <3>1. holder = t /\ place = "load"
      BY <2>3, Inner DEF LoadEnds
    <3>2. UNCHANGED owed
      BY <2>3 DEF LoadEnds
    <3>3. CASE CountUp(t[2]) /\ Goes(t, "import")
      BY <3>1, <3>2, <3>3, GoesOnLags
    <3>4. CASE UNCHANGED counts /\ Leaves(t)
      BY <3>1, <3>2, <3>4, Leaving, QuietLags DEF counts
    <3> QED
      BY <2>3, <3>3, <3>4 DEF LoadEnds, GoesOn
  <2> QED
    BY <1>4, <2>1, <2>2, <2>3, ImportLags, FindLags, RemovalLags DEF Inside
<1> QED
  BY <1>1, <1>2, <1>3, <1>4 DEF Next, Outer

-----------------------------------------------------------------------------
(* The first load *)

LEMMA NothingYet ==
  ASSUME FirstLoad, stamp = 0, NEW t \in Threads
  PROVE  ~Enter(t) /\ ~Inside(t)
<1>1. \A u \in Threads : pc[u] = "idle"
  BY DEF FirstLoad
<1>2. ~Enter(t)
  BY <1>1 DEF Enter
<1>3. ~Inside(t)
  BY <1>1 DEF Inside, In, Reload, Stage, OldUnloaded, LoadEnds, ImportEnds, Find, RemovalEnds,
     UnloadEnds
<1> QED
  BY <1>2, <1>3

LEMMA NothingYetPlace ==
  ASSUME Alone, FirstLoad, stamp = 0
  PROVE  place \notin {"stage", "old unload"}
<1>1. \A u \in Threads : pc[u] = "idle"
  BY DEF FirstLoad
<1> QED
  BY <1>1 DEF place, Alone

\* A reload's bindings are those of a later version than the ones in use.
Later(c) ==
  /\ copy' = c /\ stamp' = frame.stamp /\ generation' = generation + 1
  /\ stamp < stamp' /\ stamp' <= copy' /\ copy' <= file /\ (~torn => stamp' = copy')

LEMMA BoundLater ==
  ASSUME TypeOK, Alone, Versions, NEW t \in Threads
  PROVE  /\ Stage(t) /\ Bound(file) => Later(file)
         /\ OldUnloaded(t) => Later(frame.copy)
<1>1. ASSUME Stage(t), Bound(file) PROVE Later(file)
  <2>1. Staged
    BY <1>1, Inner DEF Stage, Versions
  <2>2. file \in Nat
    BY DEF TypeOK
  <2> QED
    BY <1>1, <2>1, <2>2 DEF Staged, Bound, Bindings, Later
<1>2. ASSUME OldUnloaded(t) PROVE Later(frame.copy)
  <2>1. Rebound
    BY <1>2, Inner DEF OldUnloaded, Versions
  <2>2. Bound(frame.copy)
    BY <1>2 DEF OldUnloaded
  <2> QED
    BY <2>1, <2>2 DEF Rebound, Bound, Bindings, Later
<1> QED
  BY <1>1, <1>2

LEMMA FirstLoadStays ==
  ASSUME TypeOK, Alone, FirstLoad, Versions, [Next]_vars
  PROVE  FirstLoad'
<1>1. copy \in Nat /\ stamp \in Nat /\ file \in Nat \ {0} /\ frame.stamp \in Nat /\ frame.copy \in Nat
  BY FrameTypes DEF TypeOK
<1>2. copy' = 0 => stamp' = 0
  <2>1. CASE UNCHANGED bindings
    BY <2>1 DEF bindings, FirstLoad
  <2>2. CASE FirstStage
    BY <1>1, <2>2 DEF FirstStage
  <2>3. CASE FirstStamp
    BY <2>3 DEF FirstStamp
  <2>4. ASSUME NEW t \in Threads, Stage(t) /\ Bound(file) PROVE copy' = 0 => stamp' = 0
    BY <1>1, <2>4, BoundLater DEF Later
  <2>5. ASSUME NEW t \in Threads, OldUnloaded(t) PROVE copy' = 0 => stamp' = 0
    BY <1>1, <2>5, BoundLater DEF Later
  <2> QED
    BY <2>1, <2>2, <2>3, <2>4, <2>5, BindingsChange
<1>3. stamp' = 0 => stamp = 0
  <2>1. CASE UNCHANGED bindings \/ FirstStage
    BY <2>1 DEF bindings, FirstStage
  <2>2. CASE FirstStamp
    BY <2>2 DEF FirstStamp
  <2>3. ASSUME NEW t \in Threads, Stage(t) /\ Bound(file) PROVE stamp' # 0
    BY <1>1, <2>3, BoundLater DEF Later
  <2>4. ASSUME NEW t \in Threads, OldUnloaded(t) PROVE stamp' # 0
    BY <1>1, <2>4, BoundLater DEF Later
  <2> QED
    BY <2>1, <2>2, <2>3, <2>4, BindingsChange
<1>4. ASSUME stamp = 0
      PROVE  UNCHANGED <<loaded, generation, imports, pc>>
  <2>1. \A t \in Threads : ~Enter(t) /\ ~Inside(t) /\ pc[t] = "idle"
    BY <1>4, NothingYet DEF FirstLoad
  <2>2. \A k \in Callers : imports[k] = 0
    BY <1>4 DEF FirstLoad
  <2>3. CASE UNCHANGED vars \/ FirstStage \/ FirstStamp \/ Rebuild
    BY <2>3 DEF vars, counts, copies, bindings, FirstStage, FirstStamp, Rebuild
  <2>4. ASSUME NEW k \in Callers PROVE ~Import(k) /\ ~Remove(k) /\ ~ReloadNative(k)
    <3>1. imports[k] + imports[NoRunspace] = 0
      BY <2>2 DEF Callers
    <3> QED
      BY <1>4, <3>1 DEF Import, Remove, ReloadNative
  <2>5. ASSUME NEW r \in Runspaces
        PROVE  /\ ~PoolRuns(r)
               /\ RunspaceCloses(r) => UNCHANGED <<loaded, generation, imports, pc>>
    <3>1. imports[r] = 0 /\ pc[Close(r)] = "idle"
      BY <2>1, <2>2, ThreadParts DEF Callers
    <3> QED
      BY <3>1 DEF PoolRuns, RunspaceCloses, counts, copies, bindings
  <2> QED
    BY <2>1, <2>3, <2>4, <2>5 DEF Next, Calls
<1> QED
  BY <1>2, <1>3, <1>4 DEF FirstLoad

-----------------------------------------------------------------------------
(* The versions of the file, of the copy and of its write time *)

LEMMA LoadDueGoes ==
  ASSUME Alone, NEW t \in Threads, holder = t, LoadDue(t)
  PROVE  place' \in {"load", "free"}
<1>1. Leaves(t) \/ GoesWith(t, "load", [NoFrame EXCEPT !.op = frame.op])
  BY DEF LoadDue
<1>2. CASE Leaves(t)
  BY <1>2, Leaving
<1>3. CASE GoesWith(t, "load", [NoFrame EXCEPT !.op = frame.op])
  BY <1>3, Going
<1> QED
  BY <1>1, <1>2, <1>3

\* Steps that bind nothing, and after which no reload has staged or unloaded.
LEMMA SameVersions ==
  ASSUME Versions, UNCHANGED <<bindings, file, torn>>, place' \notin {"stage", "old unload"}
  PROVE  Versions'
<1>1. Ordered'
  BY DEF Versions, Ordered, bindings
<1> QED
  BY <1>1 DEF Versions

LEMMA LaterOrdered ==
  ASSUME TypeOK, NEW c \in Nat, Later(c), UNCHANGED <<file, torn>>
  PROVE  Ordered'
<1>1. stamp \in Nat /\ file \in Nat /\ stamp' \in Nat
  BY FrameTypes DEF TypeOK, Later
<1> QED
  BY <1>1 DEF Later, Ordered

LEMMA VersionsStay ==
  ASSUME TypeOK, Alone, NotClosing, FirstLoad, Versions, [Next]_vars
  PROVE  Versions'
<1>1. /\ copy \in Nat /\ stamp \in Nat /\ file \in Nat /\ generation \in Nat
      /\ frame.stamp \in Nat /\ frame.copy \in Nat
  BY FrameTypes DEF TypeOK
<1>2. CASE UNCHANGED vars
  BY <1>2 DEF Versions, Ordered, Staged, Rebound, vars, copies, bindings, place
<1>3. CASE FirstStage \/ FirstStamp
  <2>1. place' = place
    BY <1>3, OuterPlace DEF Outer
  <2>2. stamp = 0
    BY <1>3 DEF FirstLoad, FirstStage, FirstStamp
  <2>3. generation = 0 /\ place \notin {"stage", "old unload"}
    BY <2>2, NothingYetPlace DEF FirstLoad
  <2>4. Ordered /\ generation = 0
    BY <2>3 DEF Versions
  <2>5. Ordered'
    BY <1>1, <1>3, <2>2, <2>4 DEF Ordered, FirstStage, FirstStamp
  <2> QED
    BY <2>1, <2>3, <2>5 DEF Versions
<1>4. CASE Rebuild
  <2>1. UNCHANGED <<frame, place>>
    BY <1>4, OuterPlace DEF Outer
  <2>2. UNCHANGED bindings /\ file' = file + 1 /\ (torn => torn')
    BY <1>4 DEF Rebuild, copies
  <2>3. place = "stage" => torn'
    BY <1>4 DEF Rebuild, place, Alone
  <2>4. Ordered'
    <3>1. Ordered
      BY DEF Versions
    <3> QED
      BY <1>1, <2>2, <3>1 DEF Ordered, bindings
  <2>5. place = "stage" => Staged'
    <3>1. SUFFICES ASSUME place = "stage" PROVE Staged'
      OBVIOUS
    <3>2. Staged /\ torn'
      BY <2>3, <3>1 DEF Versions
    <3> QED
      BY <1>1, <2>1, <2>2, <3>2 DEF Staged, bindings
  <2>6. Rebound => Rebound'
    BY <1>1, <2>1, <2>2 DEF Rebound, bindings
  <2> QED
    BY <2>1, <2>4, <2>5, <2>6 DEF Versions
<1>5. CASE Calls \/ \E r \in Runspaces : RunspaceCloses(r) \/ PoolRuns(r)
  <2>1. UNCHANGED <<frame, place>>
    BY <1>5, OuterPlace DEF Outer
  <2>2. UNCHANGED <<bindings, file, torn>>
    BY <1>5 DEF Calls, Import, Remove, ReloadNative, RunspaceCloses, PoolRuns, copies
  <2> QED
    BY <2>1, <2>2 DEF Versions, Ordered, Staged, Rebound, bindings
<1>6. ASSUME NEW t \in Threads, Enter(t) PROVE Versions'
  <2>1. UNCHANGED <<bindings, file, torn>>
    BY <1>6 DEF Enter, copies
  <2>2. place' \notin {"stage", "old unload"}
    BY <1>6, Entering
  <2> QED
    BY <2>1, <2>2, SameVersions
<1>7. ASSUME NEW t \in Threads, Reload(t) PROVE Versions'
  <2>1. holder = t /\ UNCHANGED <<bindings, file, torn>>
    BY <1>7, Inner DEF Reload, copies
  <2>2. CASE file # stamp /\ GoesWith(t, "stage", [frame EXCEPT !.stamp = file])
    <3>1. [frame EXCEPT !.stamp = file].stamp = file
      BY DEF TypeOK, Frames
    <3>2. place' = "stage" /\ frame'.stamp = file
      BY <2>1, <2>2, <3>1, Going
    <3>3. Ordered
      BY DEF Versions
    <3>4. stamp < file
      BY <1>1, <2>2, <3>3 DEF Ordered
    <3>5. Ordered' /\ Staged'
      BY <1>1, <2>1, <3>2, <3>3, <3>4 DEF Ordered, Staged, bindings
    <3> QED
      BY <3>2, <3>5 DEF Versions
  <2>3. CASE Leaves(t) \/ \E to \in {"import", "load"} : \E f : GoesWith(t, to, f)
    <3>1. place' \notin {"stage", "old unload"}
      BY <2>1, <2>3, Going, Leaving
    <3> QED
      BY <2>1, <3>1, SameVersions
  <2> QED
    BY <1>7, <2>2, <2>3 DEF Reload, SameFile, GoesOn, Goes
<1>8. ASSUME NEW t \in Threads, Stage(t) PROVE Versions'
  <2>1. holder = t /\ place = "stage" /\ UNCHANGED <<file, torn>>
    BY <1>8, Inner DEF Stage
  <2>2. CASE UNCHANGED bindings /\ Leaves(t)
    <3>1. place' \notin {"stage", "old unload"}
      BY <2>2, Leaving
    <3> QED
      BY <2>1, <2>2, <3>1, SameVersions
  <2>3. CASE UNCHANGED bindings /\ GoesWith(t, "old unload", [frame EXCEPT !.copy = file])
    <3>1. /\ [frame EXCEPT !.copy = file].copy = file
          /\ [frame EXCEPT !.copy = file].stamp = frame.stamp
      BY DEF TypeOK, Frames
    <3>2. place' = "old unload" /\ frame'.copy = file /\ frame'.stamp = frame.stamp
      BY <2>1, <2>3, <3>1, Going
    <3>3. Ordered /\ Staged
      BY <2>1 DEF Versions
    <3>4. Ordered'
      BY <2>1, <2>3, <3>3 DEF Ordered, bindings
    <3>5. frame'.copy = file /\ frame'.stamp = frame.stamp
      BY <3>2
    <3>6. UNCHANGED <<bindings, file, torn>>
      BY <2>1, <2>3
    <3>7. Rebound'
      BY <1>1, <3>3, <3>5, <3>6 DEF Staged, Rebound, bindings
    <3> QED
      BY <3>2, <3>4, <3>7 DEF Versions
  <2>4. CASE LoadDue(t) /\ Bound(file)
    <3>1. place' \notin {"stage", "old unload"}
      BY <2>1, <2>4, LoadDueGoes
    <3>2. Ordered'
      BY <1>1, <1>8, <2>1, <2>4, BoundLater, LaterOrdered
    <3> QED
      BY <3>1, <3>2 DEF Versions
  <2> QED
    BY <1>8, <2>2, <2>3, <2>4 DEF Stage
<1>9. ASSUME NEW t \in Threads, OldUnloaded(t) PROVE Versions'
  <2>1. holder = t /\ UNCHANGED <<file, torn>> /\ LoadDue(t)
    BY <1>9, Inner DEF OldUnloaded
  <2>2. place' \notin {"stage", "old unload"}
    BY <2>1, LoadDueGoes
  <2>3. Ordered'
    BY <1>1, <1>9, <2>1, BoundLater, LaterOrdered
  <2> QED
    BY <2>2, <2>3 DEF Versions
<1>10. ASSUME NEW t \in Threads,
              LoadEnds(t) \/ ImportEnds(t) \/ Find(t) \/ RemovalEnds(t) \/ UnloadEnds(t)
       PROVE  Versions'
  <2>1. holder = t
    BY <1>10, InnerGoes DEF Inside
  <2>2. UNCHANGED <<bindings, file, torn>>
    BY <1>10 DEF LoadEnds, ImportEnds, Find, RemovalEnds, UnloadEnds, copies
  <2>3. \/ Leaves(t)
        \/ \E to \in {"import", "undo", "remove", "unload"} : \E f : GoesWith(t, to, f)
    BY <1>10 DEF LoadEnds, ImportEnds, Find, RemovalEnds, UnloadEnds, GoesOn, Goes
  <2>4. place' \notin {"stage", "old unload"}
    BY <2>1, <2>3, Going, Leaving
  <2> QED
    BY <2>2, <2>4, SameVersions
<1> QED
  BY <1>2, <1>3, <1>4, <1>5, <1>6, <1>7, <1>8, <1>9, <1>10 DEF Next, Inside

-----------------------------------------------------------------------------
(* The copy that is loaded *)

\* Steps that change neither which copy is loaded nor the count.
LEMMA SameLive ==
  ASSUME OneLive, UNCHANGED <<loaded, live, copy, total>>,
         place \notin {"undo", "unload"}, place' # "load"
  PROVE  OneLive'
  BY DEF OneLive

\* Steps after which nothing is loaded.
LEMMA NoneLive ==
  ASSUME ~loaded', live' = {}, place' # "load"
  PROVE  OneLive'
  BY DEF OneLive

LEMMA OuterLive ==
  ASSUME Alone, NotClosing, FirstLoad, OneLive, Outer
  PROVE  OneLive'
<1>1. UNCHANGED <<frame, place>>
  BY OuterPlace
<1>2. UNCHANGED <<loaded, live, total>>
  BY DEF Outer, FirstStage, FirstStamp, Calls, Import, Remove, ReloadNative, Rebuild,
     RunspaceCloses, PoolRuns, counts, copies
<1>3. UNCHANGED copy \/ ~loaded
  BY DEF Outer, FirstLoad, FirstStage, FirstStamp, Calls, Import, Remove, ReloadNative,
     Rebuild, RunspaceCloses, PoolRuns, copies, bindings
<1> QED
  BY <1>1, <1>2, <1>3 DEF OneLive

\* An import counted is there while its hook runs.
LEMMA CountedLive ==
  ASSUME TypeOK, TotalCounts, Alone, NEW t \in Threads, holder = t, loaded', live' = {copy'},
         CountUp(t[2]), Goes(t, "import")
  PROVE  OneLive'
<1>1. total \in Nat /\ total' = total + 1
  BY CountsUp, ThreadParts DEF CountUp
<1>2. place' = "import"
  BY Going DEF Goes
<1>3. total' > 0
  BY <1>1
<1> QED
  BY <1>2, <1>3 DEF OneLive

\* The load hook is next, when it is for an import or something is imported.
LEMMA LoadDueLive ==
  ASSUME TypeOK, Alone, NEW t \in Threads, holder = t, ~loaded', live' = {}, UNCHANGED total,
         LoadDue(t)
  PROVE  OneLive'
<1>1. CASE Leaves(t)
  BY <1>1, Leaving, NoneLive
<1>2. CASE /\ frame.op = "import" \/ total > 0
           /\ GoesWith(t, "load", [NoFrame EXCEPT !.op = frame.op])
  <2>1. place' = "load" /\ frame' = [NoFrame EXCEPT !.op = frame.op]
    BY <1>2, Going
  <2>2. frame'.op = frame.op
    BY <2>1 DEF NoFrame
  <2>3. frame'.op = "reload" => total' > 0
    BY <1>2, <2>2
  <2> QED
    BY <2>1, <2>3 DEF OneLive
<1> QED
  BY <1>1, <1>2 DEF LoadDue

LEMMA ReloadLive ==
  ASSUME TypeOK, TotalCounts, Alone, OneLive, NEW t \in Threads, Reload(t)
  PROVE  OneLive'
<1>1. holder = t /\ place = "reload" /\ UNCHANGED <<loaded, live, copy>>
  BY Inner DEF Reload, copies, bindings
<1>2. CASE loaded /\ Goes(t, "import") /\ CountUp(t[2])
  BY <1>1, <1>2, CountedLive DEF OneLive
<1>3. CASE ~loaded /\ Goes(t, "load") /\ UNCHANGED counts
  <2>1. place' = "load" /\ frame' = NoFrame
    BY <1>1, <1>3, Going DEF Goes
  <2>2. frame'.op # "reload"
    BY <2>1 DEF NoFrame
  <2>3. live = {}
    BY <1>3 DEF OneLive
  <2> QED
    BY <1>1, <1>3, <2>1, <2>2, <2>3 DEF OneLive
<1>4. CASE (Leaves(t) \/ \E f : GoesWith(t, "stage", f)) /\ UNCHANGED counts
  <2>1. place' \in {"free", "stage"}
    BY <1>1, <1>4, Going, Leaving
  <2> QED
    BY <1>1, <1>4, <2>1, SameLive DEF counts
<1> QED
  BY <1>2, <1>3, <1>4 DEF Reload, GoesOn

LEMMA StageLive ==
  ASSUME TypeOK, Alone, OneLive, NEW t \in Threads, Stage(t)
  PROVE  OneLive'
<1>1. holder = t /\ place = "stage" /\ UNCHANGED <<loaded, live, total>>
  BY Inner DEF Stage, counts
<1>2. CASE UNCHANGED bindings /\ (Leaves(t) \/ \E f : GoesWith(t, "old unload", f))
  <2>1. place' \in {"free", "old unload"}
    BY <1>1, <1>2, Going, Leaving
  <2>2. place' # "load"
    BY <2>1
  <2>3. UNCHANGED copy
    BY <1>2 DEF bindings
  <2> QED
    BY <1>1, <2>2, <2>3, SameLive
<1>3. CASE ~loaded /\ LoadDue(t)
  BY <1>1, <1>3, LoadDueLive DEF OneLive
<1> QED
  BY <1>2, <1>3 DEF Stage

\* The unload hook leaves nothing loaded.
LEMMA UnloadedLive ==
  ASSUME OneLive, Unloaded
  PROVE  ~loaded' /\ live' = {}
  BY DEF OneLive, Unloaded, NotLoaded

LEMMA LoadLive ==
  ASSUME TypeOK, TotalCounts, Alone, OneLive, NEW t \in Threads, LoadEnds(t)
  PROVE  OneLive'
<1>1. holder = t /\ place = "load" /\ UNCHANGED copy
  BY Inner DEF LoadEnds, bindings
<1>2. ~loaded /\ live = {} /\ (frame.op = "reload" => total > 0)
  BY <1>1 DEF OneLive
<1>3. CASE Leaves(t) /\ UNCHANGED <<loaded, live>>
  BY <1>2, <1>3, Leaving, NoneLive
<1>4. CASE loaded' = TRUE /\ live' = live \cup {copy} /\ GoesOn(t, TRUE)
  BY <1>1, <1>2, <1>4, CountedLive DEF GoesOn
<1>5. CASE loaded' = TRUE /\ live' = live \cup {copy} /\ frame.op = "reload" /\ Leaves(t)
             /\ UNCHANGED counts
  <2>1. place' = "free" /\ total' > 0
    BY <1>2, <1>5, Leaving DEF counts
  <2> QED
    BY <1>1, <1>2, <1>5, <2>1 DEF OneLive
<1> QED
  BY <1>3, <1>4, <1>5 DEF LoadEnds

\* Steps that count fewer imports: the copy stays loaded while any is left, or
\* until the unload hook that is next.
LEMMA FewerLive ==
  ASSUME OneLive, UNCHANGED <<loaded, live, copy>>, place' # "load",
         loaded => total' > 0 \/ place' \in {"undo", "unload"}
  PROVE  OneLive'
  BY DEF OneLive

LEMMA ImportLive ==
  ASSUME TypeOK, TotalCounts, Alone, HooksLag, OneLive, NEW t \in Threads, ImportEnds(t)
  PROVE  OneLive'
<1>1. holder = t /\ place = "import" /\ UNCHANGED <<loaded, live, copy>>
  BY Inner DEF ImportEnds, copies, bindings
<1>2. CASE Leaves(t) /\ UNCHANGED counts
  BY <1>1, <1>2, Leaving, SameLive DEF counts
<1>3. CASE CountDown(t[2], 1) /\ (IF total = 1 THEN Goes(t, "undo") ELSE Leaves(t))
  <2>1. t[2] \in Callers /\ 1 \in Nat /\ 1 <= imports[t[2]]
    BY TakenIsThere DEF ImportEnds
  <2>2. total \in Nat /\ 1 <= total
    BY <1>3, <2>1, CountsDown
  <2>3. total' = total - 1
    BY <1>3 DEF CountDown
  <2>4. CASE total = 1 /\ Goes(t, "undo")
    <3>1. place' = "undo"
      BY <1>1, <2>4, Going DEF Goes
    <3> QED
      BY <1>1, <3>1, FewerLive
  <2>5. CASE total # 1 /\ Leaves(t)
    <3>1. place' = "free"
      BY <2>5, Leaving
    <3>2. total' > 0
      BY <2>2, <2>3, <2>5
    <3> QED
      BY <1>1, <3>1, <3>2, FewerLive
  <2> QED
    BY <1>3, <2>4, <2>5
<1> QED
  BY <1>2, <1>3 DEF ImportEnds

LEMMA RemovalLive ==
  ASSUME TypeOK, TotalCounts, Alone, HooksLag, OneLive, NEW t \in Threads, RemovalEnds(t)
  PROVE  OneLive'
<1>1. holder = t /\ place = "remove" /\ UNCHANGED <<loaded, live, copy>>
  BY Inner DEF RemovalEnds, copies, bindings
<1>2. CASE UNCHANGED counts /\ (\E f : GoesWith(t, "remove", f))
  <2>1. place' = "remove"
    BY <1>1, <1>2, Going
  <2> QED
    BY <1>1, <1>2, <2>1, SameLive DEF counts
<1>3. CASE CountDown(frame.key, Taken(t)) /\ (IF UnloadDue(t) THEN Goes(t, "unload") ELSE Leaves(t))
  <2>1. frame.key \in Callers /\ Taken(t) \in Nat /\ Taken(t) <= imports[frame.key]
    BY TakenIsThere DEF RemovalEnds
  <2>2. total \in Nat /\ Taken(t) <= total
    BY <1>3, <2>1, CountsDown
  <2>3. total' = total - Taken(t)
    BY <1>3 DEF CountDown
  <2>4. CASE UnloadDue(t) /\ Goes(t, "unload")
    <3>1. place' = "unload"
      BY <1>1, <2>4, Going DEF Goes
    <3> QED
      BY <1>1, <3>1, FewerLive
  <2>5. CASE ~UnloadDue(t) /\ Leaves(t)
    <3>1. place' = "free"
      BY <2>5, Leaving
    <3>2. loaded => total # Taken(t)
      BY <2>5 DEF UnloadDue
    <3>3. loaded => total' > 0
      BY <2>1, <2>2, <2>3, <3>2
    <3> QED
      BY <1>1, <3>1, <3>3, FewerLive
  <2> QED
    BY <1>3, <2>4, <2>5
<1> QED
  BY <1>2, <1>3 DEF RemovalEnds

LEMMA OneLiveStays ==
  ASSUME TypeOK, TotalCounts, Alone, NotClosing, HooksLag, FirstLoad, OneLive, [Next]_vars
  PROVE  OneLive'
<1>1. CASE UNCHANGED vars
  BY <1>1 DEF OneLive, vars, counts, copies, bindings, place
<1>2. ASSUME NEW t \in Threads, Enter(t) PROVE OneLive'
  <2>1. UNCHANGED <<loaded, live, copy, total>>
    BY <1>2 DEF Enter, counts, copies, bindings
  <2> QED
    BY <1>2, <2>1, Entering, SameLive
<1>3. ASSUME NEW t \in Threads, OldUnloaded(t) PROVE OneLive'
  <2>1. holder = t
    BY <1>3, Inner DEF OldUnloaded
  <2>2. Unloaded /\ LoadDue(t) /\ UNCHANGED total
    BY <1>3 DEF OldUnloaded, counts
  <2> QED
    BY <2>1, <2>2, UnloadedLive, LoadDueLive
<1>4. ASSUME NEW t \in Threads, UnloadEnds(t) PROVE OneLive'
  <2>1. Unloaded /\ Leaves(t)
    BY <1>4 DEF UnloadEnds
  <2> QED
    BY <2>1, UnloadedLive, Leaving, NoneLive
<1>5. ASSUME NEW t \in Threads, Find(t) PROVE OneLive'
  <2>1. holder = t /\ place = "find" /\ UNCHANGED <<loaded, live, copy, total>>
    BY <1>5, Inner DEF Find, counts, copies, bindings
  <2>2. Leaves(t) \/ \E f : GoesWith(t, "remove", f)
    BY <1>5 DEF Find
  <2>3. place' \in {"free", "remove"}
    BY <2>1, <2>2, Going, Leaving
  <2> QED
    BY <2>1, <2>3, SameLive
<1> QED
  BY <1>1, <1>2, <1>3, <1>4, <1>5, OuterLive, ReloadLive, StageLive, LoadLive, ImportLive,
     RemovalLive DEF Next, Outer, Inside

-----------------------------------------------------------------------------
(* The invariant *)

LEMMA Initially == Init => IInv
<1> SUFFICES ASSUME Init PROVE IInv
  OBVIOUS
<1> USE DEF Init
<1>1. pc = [t \in Threads |-> "idle"] /\ holder = Free /\ frame = NoFrame
      /\ imports = [k \in Callers |-> 0] /\ owed = [k \in Callers |-> 0]
  OBVIOUS
<1>2. place = "free"
  BY DEF place
<1>3. TypeOK
  <2>1. frame \in Frames
    BY <1>1 DEF NoFrame, Frames, Callers
  <2>2. imports \in [Callers -> Nat] /\ owed \in [Callers -> Int]
    BY <1>1
  <2>3. loaded \in BOOLEAN /\ torn \in BOOLEAN
    OBVIOUS
  <2>4. copy \in Nat /\ stamp \in Nat /\ generation \in Nat /\ file \in Nat \ {0}
    OBVIOUS
  <2> HIDE DEF Init
  <2> QED
    BY <2>1, <2>2, <2>3, <2>4 DEF TypeOK
<1>4. Alone
  <2>1. "idle" \in Outside /\ "idle" \notin Within
    BY DEF Outside, Within
  <2> QED
    BY <1>1, <2>1, FreeAssumption DEF Alone
<1>5. NotClosing
  BY ThreadParts DEF NotClosing
<1>6. TotalCounts
  <2>1. \A k \in Callers : 1 .. imports[k] = {}
    BY <1>1
  <2>2. Imported = {}
    BY <2>1 DEF Imported, Taking
  <2> QED
    BY <2>2, FS_EmptySet DEF TotalCounts
<1>7. HooksLag
  BY <1>1, <1>2 DEF HooksLag
<1>8. FirstLoad
  BY <1>1 DEF FirstLoad
<1>9. OneLive
  BY <1>2 DEF OneLive
<1>10. Versions
  BY <1>2 DEF Versions, Ordered
<1> QED
  BY <1>3, <1>4, <1>5, <1>6, <1>7, <1>8, <1>9, <1>10 DEF IInv

\* The module's counts, copies and hooks are as IInv says in every state, for
\* every set of runspaces and every number of imports and rebuilds.
THEOREM Invariance == Spec => []IInv
<1>1. IInv /\ [Next]_vars => IInv'
  <2> SUFFICES ASSUME IInv, [Next]_vars PROVE IInv'
    OBVIOUS
  <2> USE DEF IInv
  <2> QED
    BY TypeStays, AloneStays, NotClosingStays, TotalCountsStays, HooksLagStays,
       FirstLoadStays, OneLiveStays, VersionsStay
<1> QED
  BY Initially, <1>1, PTL DEF Spec

\* The removal hook has run once for each import that succeeded and is gone,
\* whichever runspace removed, closed or failed.
THEOREM RemovalsMatch == Spec => []RemovalsMatchImports
<1>1. IInv => RemovalsMatchImports
  BY DEF IInv, HooksLag, RemovalsMatchImports, place
<1> QED
  BY <1>1, Invariance, PTL

\* Out of the gate no copy is loaded but the one in use, and that one only
\* while some runspace imports it.
THEOREM LoadedOnlyWhileImported == Spec => []LoadedWhileImported
<1>1. IInv => LoadedWhileImported
  BY DEF IInv, OneLive, LoadedWhileImported, place
<1> QED
  BY <1>1, Invariance, PTL

\* Once reloaded, a module that takes its file for unchanged runs that file.
THEOREM UpToDateWhenReloaded == Spec => []UpToDateOnceReloaded
<1>1. IInv => UpToDateOnceReloaded
  <2> SUFFICES ASSUME IInv, generation > 0, stamp = file PROVE copy = file
    BY DEF UpToDateOnceReloaded, UpToDate
  <2>1. Ordered
    BY DEF IInv, Versions
  <2>2. copy \in Nat /\ stamp \in Nat /\ file \in Nat
    BY DEF IInv, TypeOK
  <2> QED
    BY <2>1, <2>2 DEF Ordered
<1> QED
  BY <1>1, Invariance, PTL

\* _total counts the imports of all the runspaces and of the threads that have
\* none, so the unload hook's condition is that nobody is left.
THEOREM TotalIsImports == Spec => [](IsFiniteSet(Imported) /\ total = Cardinality(Imported))
<1>1. IInv => IsFiniteSet(Imported) /\ total = Cardinality(Imported)
  BY DEF IInv, TotalCounts
<1> QED
  BY <1>1, Invariance, PTL

\* A new generation is another copy than the one before it, when no rebuild
\* lands between a reload's two reads of the file.
THEOREM CopiesDiffer == Spec => EachCopyOnce
<1>1. IInv /\ [Next]_vars => [generation' # generation /\ ~torn => copy' # copy]_vars
  <2> SUFFICES ASSUME IInv, Next, generation' # generation, ~torn PROVE copy' # copy
    BY DEF vars
  <2>1. TypeOK /\ Alone /\ FirstLoad /\ Versions /\ Ordered
    BY DEF IInv, Versions
  <2>2. copy \in Nat /\ stamp \in Nat /\ file \in Nat /\ frame.copy \in Nat
    BY <2>1, FrameTypes DEF TypeOK
  <2>3. PICK t \in Threads : (Stage(t) /\ Bound(file)) \/ OldUnloaded(t)
    BY BindingsChange DEF bindings, FirstStage, FirstStamp
  <2>4. stamp # 0
    BY <2>1, <2>3, NothingYet DEF Inside
  <2>5. \E c \in Nat : Later(c)
    BY <2>1, <2>2, <2>3, BoundLater
  <2>6. copy <= stamp
    BY <2>1, <2>4 DEF Ordered
  <2> QED
    BY <2>2, <2>5, <2>6 DEF Later
<1> QED
  BY <1>1, Invariance, PTL DEF Spec, EachCopyOnce
=============================================================================
