----------------------------- MODULE Lifecycle ------------------------------
(***************************************************************************)
(* The import, removal, load and unload hooks of one module in one process *)
(* (Pwrs.Runtime/NativeModule.cs): runspaces import the module, remove it  *)
(* and close, and the library's file is rebuilt, in any order.             *)
(*                                                                         *)
(* Everything but the wait for the gate happens inside it, entered         *)
(* exclusively, so a step here is one hook, or what the code does between  *)
(* two of them.  A hook that imports, removes or reloads its own module is *)
(* refused and changes nothing.  A copy of the library is named by the version of  *)
(* the file it was staged from.                                            *)
(***************************************************************************)
EXTENDS Naturals

CONSTANTS
  Runspaces,
  NoRunspace,  \* where a thread with no default runspace counts its imports
  Free,        \* nobody is inside the gate
  MaxImports,  \* bound: the imports one runspace has at once
  MaxCopies    \* bound: the versions of the library's file

ASSUME LifecycleAssumption ==
  /\ NoRunspace \notin Runspaces
  /\ {MaxImports, MaxCopies} \subseteq Nat \ {0}

Callers == Runspaces \cup {NoRunspace}

\* A runspace's own thread, which imports and removes, and the thread its
\* close is handled on.
Command(k) == <<"command", k>>
Close(r) == <<"close", r>>
Threads == ({"command"} \X Callers) \cup ({"close"} \X Runspaces)

ASSUME FreeAssumption == Free \notin Threads

VARIABLES
  holder,   \* the thread inside _gate, or Free
  pc,       \* where each thread is
  frame,    \* the locals of the thread in the gate: whether it reloads for an
            \* import or for its own sake, whose import a removal is for,
            \* the removal hooks it has left to run, and the write time and
            \* copy of the bindings a reload is making
  imports,  \* _imports, and _unattributed at NoRunspace
  total,    \* _total
  loaded,   \* _loaded
  copy,     \* the copy in use (_b), or 0 before the first
  stamp,    \* _b.SourceStamp: the version whose write time it has, or 0
  generation, \* _b.Generation
  file,     \* the version of the library's file
  closed,   \* the runspaces that have closed or broken
  owed,     \* history: import hooks that succeeded less removal hooks run
  live,     \* history: copies whose load hook succeeded, less those unloaded
  torn      \* history: the file was rebuilt within a reload's two reads of it

counts == <<imports, total>>
bindings == <<copy, stamp, generation>>
copies == <<loaded, bindings, live>>
NoFrame == [op |-> "import", key |-> NoRunspace, left |-> 0, stamp |-> 0, copy |-> 0]
vars == <<holder, pc, frame, counts, copies, file, closed, owed, torn>>

Init ==
  /\ holder = Free
  /\ pc = [t \in Threads |-> "idle"]
  /\ frame = NoFrame
  /\ imports = [k \in Callers |-> 0]
  /\ total = 0
  /\ loaded = FALSE
  /\ copy = 0 /\ stamp = 0 /\ generation = 0
  /\ file = 1
  /\ torn = FALSE
  /\ closed = {}
  /\ owed = [k \in Callers |-> 0]
  /\ live = {}

-----------------------------------------------------------------------------
(* The first load, in the shell's type initializer *)

\* The library is staged, and then its file's write time is read.
FirstStage ==
  /\ copy = 0
  /\ copy' = file
  /\ UNCHANGED <<holder, pc, frame, counts, loaded, stamp, generation, live,
                 file, closed, owed, torn>>

FirstStamp ==
  /\ copy # 0 /\ stamp = 0
  /\ stamp' = file
  /\ UNCHANGED <<holder, pc, frame, counts, loaded, copy, generation, live,
                 file, closed, owed, torn>>

-----------------------------------------------------------------------------
(* Callers *)

Import(k) ==
  /\ stamp # 0
  /\ k \notin closed /\ pc[Command(k)] = "idle"
  /\ imports[k] < MaxImports
  /\ pc' = [pc EXCEPT ![Command(k)] = "importing"]
  /\ UNCHANGED <<holder, frame, counts, copies, file, closed, owed, torn>>

\* Remove-Module, in a runspace that has the module.
Remove(k) ==
  /\ k \notin closed /\ pc[Command(k)] = "idle"
  /\ imports[k] + imports[NoRunspace] > 0
  /\ pc' = [pc EXCEPT ![Command(k)] = "removing"]
  /\ UNCHANGED <<holder, frame, counts, copies, file, closed, owed, torn>>

\* ReloadIfChanged, called by a script: nothing when the file is unchanged.
ReloadNative(k) ==
  /\ stamp # 0 /\ file # stamp
  /\ k \notin closed /\ pc[Command(k)] = "idle"
  /\ pc' = [pc EXCEPT ![Command(k)] = "reloading"]
  /\ UNCHANGED <<holder, frame, counts, copies, file, closed, owed, torn>>

Rebuild ==
  /\ file < MaxCopies
  /\ file' = file + 1
  /\ torn' = (torn \/ \E t \in Threads : pc[t] = "stage")
  /\ UNCHANGED <<holder, pc, frame, counts, copies, closed, owed>>

Hooks == {"old unload", "load", "import", "undo", "remove", "unload"}
RunningHook(t) == holder = t /\ pc[t] \in Hooks

\* A close on the thread inside the gate is refused, and goes to the pool.
Dropped(r) == UNCHANGED pc
Queued(r) == pc' = [pc EXCEPT ![Close(r)] = "queued"]

\* A runspace closes once its commands have ended, on a thread outside the
\* gate or in a hook.  Its imports are what it is listened to for.
RunspaceCloses(r) ==
  /\ r \notin closed /\ pc[Command(r)] = "idle"
  /\ closed' = closed \cup {r}
  /\ \/ imports[r] = 0 /\ UNCHANGED pc
     \/ imports[r] > 0 /\ pc' = [pc EXCEPT ![Close(r)] = "removing"]
     \/ imports[r] > 0 /\ (\E t \in Threads : RunningHook(t)) /\ Queued(r)
  /\ UNCHANGED <<holder, frame, counts, copies, file, owed, torn>>

PoolRuns(r) ==
  /\ pc[Close(r)] = "queued"
  /\ pc' = [pc EXCEPT ![Close(r)] = "removing"]
  /\ UNCHANGED <<holder, frame, counts, copies, file, closed, owed, torn>>

-----------------------------------------------------------------------------
(* Inside the gate *)

Admits == holder = Free

Enter(t) ==
  /\ Admits
  /\ holder' = t
  /\ \/ pc[t] = "importing" /\ pc' = [pc EXCEPT ![t] = "reload"] /\ UNCHANGED frame
     \/ /\ pc[t] = "reloading"
        /\ pc' = [pc EXCEPT ![t] = "reload"]
        /\ frame' = [frame EXCEPT !.op = "reload"]
     \/ pc[t] = "removing" /\ pc' = [pc EXCEPT ![t] = "find"] /\ UNCHANGED frame
  /\ UNCHANGED <<counts, copies, file, closed, owed, torn>>

In(t, from) == holder = t /\ pc[t] = from
GoesWith(t, to, f) == pc' = [pc EXCEPT ![t] = to] /\ frame' = f /\ UNCHANGED holder
Goes(t, to) == GoesWith(t, to, NoFrame)
Leaves(t) == pc' = [pc EXCEPT ![t] = "idle"] /\ frame' = NoFrame /\ holder' = Free

\* Count, by n imports more or n fewer.
CountUp(k) ==
  imports' = [imports EXCEPT ![k] = @ + 1] /\ total' = total + 1
CountDown(k, n) ==
  imports' = [imports EXCEPT ![k] = @ - n] /\ total' = total - n

\* The load hook when the copy has not loaded, else the import hook, which
\* runs with the import counted.
GoesOn(t, isLoaded) ==
  IF isLoaded THEN Goes(t, "import") /\ CountUp(t[2])
              ELSE Goes(t, "load") /\ UNCHANGED counts

\* Reload: the file's write time is read, and then the file is staged.  A
\* rebuilt library that does not load fails the import or the reload.  A
\* reload for its own sake runs the new copy's load hook only when something
\* imports the module.
NeverSame == FALSE
SameFile == file = stamp

Reload(t) ==
  /\ In(t, "reload")
  /\ IF ~SameFile
       THEN GoesWith(t, "stage", [frame EXCEPT !.stamp = file]) /\ UNCHANGED counts
       ELSE \/ frame.op = "import" /\ GoesOn(t, loaded)
            \/ frame.op = "reload" /\ Leaves(t) /\ UNCHANGED counts
  /\ UNCHANGED <<copies, file, closed, owed, torn>>

Bindings(s, c) == stamp' = s /\ copy' = c /\ generation' = generation + 1
StampedLate(c) == Bindings(file, c)
Bound(c) == Bindings(frame.stamp, c)

LoadDue(t) ==
  IF frame.op = "import" \/ total > 0
    THEN GoesWith(t, "load", [NoFrame EXCEPT !.op = frame.op])
    ELSE Leaves(t)

Stage(t) ==
  /\ In(t, "stage")
  /\ \/ Leaves(t) /\ UNCHANGED bindings
     \/ /\ loaded
        /\ GoesWith(t, "old unload", [frame EXCEPT !.copy = file])
        /\ UNCHANGED bindings
     \/ ~loaded /\ LoadDue(t) /\ Bound(file)
  /\ UNCHANGED <<counts, loaded, live, file, closed, owed, torn>>

\* A copy counts as not loaded after its unload hook, whether it failed or
\* not.
LoadedIfFailed == loaded' \in BOOLEAN
NotLoaded == loaded' = FALSE
Unloaded == NotLoaded /\ live' = live \ {copy}

OldUnloaded(t) ==
  /\ In(t, "old unload")
  /\ Unloaded
  /\ Bound(frame.copy)
  /\ LoadDue(t)
  /\ UNCHANGED <<counts, file, closed, owed, torn>>

LoadEnds(t) ==
  /\ In(t, "load")
  /\ \/ Leaves(t) /\ UNCHANGED <<loaded, live, counts>>
     \/ /\ loaded' = TRUE /\ live' = live \cup {copy}
        /\ \/ frame.op = "import" /\ GoesOn(t, TRUE)
           \/ frame.op = "reload" /\ Leaves(t) /\ UNCHANGED counts
  /\ UNCHANGED <<bindings, file, closed, owed, torn>>

\* An import whose hook fails counts for nothing.
ImportEnds(t) ==
  /\ In(t, "import")
  /\ \/ /\ owed' = [owed EXCEPT ![t[2]] = @ + 1]
        /\ Leaves(t)
        /\ UNCHANGED counts
     \/ /\ CountDown(t[2], 1)
        /\ IF total = 1 THEN Goes(t, "undo") ELSE Leaves(t)
        /\ UNCHANGED owed
  /\ UNCHANGED <<copies, file, closed, torn>>

\* Removed takes one import, of the thread's runspace or else one that is
\* nobody's; Closed takes all its runspace has left.
Find(t) ==
  LET k == IF imports[t[2]] > 0 THEN t[2] ELSE NoRunspace
      n == IF t[1] = "close" THEN imports[t[2]] ELSE IF imports[k] > 0 THEN 1 ELSE 0
  IN  /\ In(t, "find")
      /\ IF n = 0 THEN Leaves(t)
                  ELSE GoesWith(t, "remove", [NoFrame EXCEPT !.key = k, !.left = n])
      /\ UNCHANGED <<counts, copies, file, closed, owed, torn>>

NoneToRun == 0
LeftToRun == frame.left - 1

Taken(t) == IF t[1] = "close" THEN imports[frame.key] ELSE 1

UnloadDue(t) == total = Taken(t) /\ loaded

\* The imports are counted until the last of their removal hooks has run.
RemovalEnds(t) ==
  /\ In(t, "remove")
  /\ owed' = [owed EXCEPT ![frame.key] = @ - 1]
  /\ IF LeftToRun > 0
       THEN GoesWith(t, "remove", [frame EXCEPT !.left = LeftToRun]) /\ UNCHANGED counts
       ELSE /\ CountDown(frame.key, Taken(t))
            /\ IF UnloadDue(t) THEN Goes(t, "unload") ELSE Leaves(t)
  /\ UNCHANGED <<copies, file, closed, torn>>

UnloadEnds(t) ==
  /\ In(t, "undo") \/ In(t, "unload")
  /\ Unloaded
  /\ Leaves(t)
  /\ UNCHANGED <<counts, bindings, file, closed, owed, torn>>

-----------------------------------------------------------------------------

Inside(t) ==
  Reload(t) \/ Stage(t) \/ OldUnloaded(t) \/ LoadEnds(t) \/ ImportEnds(t) \/ Find(t)
  \/ RemovalEnds(t) \/ UnloadEnds(t)

Calls == \E k \in Callers : Import(k) \/ Remove(k) \/ ReloadNative(k)

Next ==
  \/ FirstStage \/ FirstStamp
  \/ Calls \/ Rebuild
  \/ \E r \in Runspaces : RunspaceCloses(r) \/ PoolRuns(r)
  \/ \E t \in Threads : Enter(t) \/ Inside(t)

Spec == Init /\ [][Next]_vars

\* Hooks return, the pool runs what is queued, and a gate that stays free is
\* entered.
FairSpec ==
  /\ Spec
  /\ \A r \in Runspaces : WF_vars(PoolRuns(r))
  /\ \A t \in Threads : WF_vars(Enter(t)) /\ WF_vars(Inside(t))

-----------------------------------------------------------------------------
(* Properties *)

\* The removal hook has run once for each import whose hook succeeded and
\* that is no longer there, runspace by runspace (lifecycle.rs:5-6).
RemovalsMatchImports == holder = Free => owed = imports

\* Out of the gate, the copy in use is loaded only while something imports
\* it, and no other copy is (lifecycle.rs:8-18).
LoadedWhileImported ==
  holder = Free => /\ loaded => total > 0
                   /\ live = IF loaded THEN {copy} ELSE {}

\* A reload points the exports at another copy than the one in use, so a
\* rebuilt file is loaded under one generation (NativeModule.cs:724-728), when
\* no rebuild lands between a reload's read of the write time and its copy.
EachCopyOnce ==
  [][generation' # generation /\ ~torn => copy' # copy]_vars

\* A module that takes its file for unchanged runs that file
\* (NativeModule.cs:701-702).
UpToDate == stamp = file => copy = file

\* It does at least once it has been reloaded.
UpToDateOnceReloaded == generation > 0 => UpToDate

\* A runspace that closes has every import it made removed, even when a hook
\* of the module closed it (NativeModule.cs:1087-1095).
NoMoreCalls == <>[][~Calls]_vars
ClosedIsRemoved ==
  NoMoreCalls => \A r \in Runspaces : r \in closed ~> owed[r] = 0
=============================================================================
