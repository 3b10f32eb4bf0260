---------------------------- MODULE HelperStaging ----------------------------
(***************************************************************************)
(* The copies of a module's helper executable that every process of a user *)
(* stages in one folder: StageHelper, StageCopy and RemoveSuperseded of    *)
(* Pwrs.Runtime/NativeModule.cs.  The processes take no lock, may die at   *)
(* any step, and the helper may be rebuilt between two of them.            *)
(*                                                                         *)
(* A step is one access to the file system.  A build stands for its bytes, *)
(* and a folder's mark for the build it is named after.                    *)
(***************************************************************************)
EXTENDS Naturals

CONSTANTS
  Processes,
  MaxBuilds \* bound: builds of the helper

Builds == 1 .. MaxBuilds
Nothing == 0

VARIABLES
  shipped, \* the build in the module folder
  copies,  \* by mark: whether it is there, its .pdb, and the copy's build
  where,   \* where each process is
  mark,    \* the mark each process read
  pending, \* the build in each process's .partial file
  torn     \* history: a build landed between a process's mark and its copy

vars == <<shipped, copies, where, mark, pending, torn>>

NoFolder == [there |-> FALSE, pdb |-> FALSE, copy |-> Nothing]

Init ==
  /\ shipped = 1
  /\ copies = [b \in Builds |-> NoFolder]
  /\ where = [p \in Processes |-> "mark"]
  /\ mark = [p \in Processes |-> 1]
  /\ pending = [p \in Processes |-> Nothing]
  /\ torn = FALSE

Mine(p) == copies[mark[p]]

Goes(p, from, to) == where[p] = from /\ where' = [where EXCEPT ![p] = to]

\* cargo pwrs build writes another build of the helper.
Rebuild ==
  /\ shipped < MaxBuilds
  /\ shipped' = shipped + 1
  /\ UNCHANGED <<copies, where, mark, pending, torn>>

-----------------------------------------------------------------------------
(* StageHelper and StageCopy *)

ReadMark(p) ==
  /\ Goes(p, "mark", "look")
  /\ mark' = [mark EXCEPT ![p] = shipped]
  /\ UNCHANGED <<shipped, copies, pending, torn>>

LookForCopy(p) ==
  /\ Goes(p, "look", IF Mine(p).copy = Nothing THEN "folder" ELSE "sweep")
  /\ UNCHANGED <<shipped, copies, mark, pending, torn>>

CreateDirectory(p) ==
  /\ Goes(p, "folder", "pdb")
  /\ copies' = [copies EXCEPT ![mark[p]].there = TRUE]
  /\ UNCHANGED <<shipped, mark, pending, torn>>

\* A folder another process removed meanwhile makes the copy throw.
PlacePdb(p) ==
  /\ Goes(p, "pdb", IF Mine(p).there THEN "copy" ELSE "threw")
  /\ copies' = IF Mine(p).there THEN [copies EXCEPT ![mark[p]].pdb = TRUE] ELSE copies
  /\ UNCHANGED <<shipped, mark, pending, torn>>

Copy(p) ==
  /\ Goes(p, "copy", IF Mine(p).there THEN "move" ELSE "threw")
  /\ pending' = [pending EXCEPT ![p] = IF Mine(p).there THEN shipped ELSE Nothing]
  /\ torn' = (torn \/ (Mine(p).there /\ shipped # mark[p]))
  /\ UNCHANGED <<shipped, copies, mark>>

MovedFirst(p) == "threw"
MovedSecond(p) == IF Mine(p).copy # Nothing THEN "sweep" ELSE "threw"

\* The .partial goes with its folder, and a copy there keeps its place.
Move(p) ==
  /\ IF pending[p] # Nothing /\ Mine(p).copy = Nothing
     THEN /\ Goes(p, "move", "sweep")
          /\ copies' = [copies EXCEPT ![mark[p]].copy = pending[p]]
     ELSE /\ Goes(p, "move", MovedSecond(p))
          /\ UNCHANGED copies
  /\ pending' = [pending EXCEPT ![p] = Nothing]
  /\ UNCHANGED <<shipped, mark, torn>>

-----------------------------------------------------------------------------
(* RemoveSuperseded, and the helper's start *)

OthersAndOwn(p) == {b \in Builds : copies[b].there}
Others(p) == {b \in Builds : copies[b].there /\ b # mark[p]}

\* A delete that fails half way, as on Windows over a copy that runs, leaves
\* any part of the folder.
Sweep(p) ==
  /\ Goes(p, "sweep", "start")
  /\ \E gone, pdbs, exes \in SUBSET Others(p),
        partials \in SUBSET {q \in Processes : mark[q] \in Others(p)} :
       /\ gone \subseteq pdbs \cap exes
       /\ \A q \in Processes : mark[q] \in gone => q \in partials
       /\ copies' = [b \in Builds |->
            [there |-> copies[b].there /\ b \notin gone,
             pdb   |-> copies[b].pdb /\ b \notin pdbs,
             copy  |-> IF b \in exes THEN Nothing ELSE copies[b].copy]]
       /\ pending' = [q \in Processes |-> IF q \in partials THEN Nothing ELSE pending[q]]
  /\ UNCHANGED <<shipped, mark, torn>>

Start(p) ==
  /\ Goes(p, "start", IF Mine(p).copy = Nothing THEN "missing" ELSE "started")
  /\ UNCHANGED <<shipped, copies, mark, pending, torn>>

-----------------------------------------------------------------------------

\* The process dies, and leaves its .partial behind.
Crash(p) ==
  /\ where[p] \notin {"threw", "missing", "started", "dead"}
  /\ where' = [where EXCEPT ![p] = "dead"]
  /\ pending' = [pending EXCEPT ![p] = Nothing]
  /\ UNCHANGED <<shipped, copies, mark, torn>>

Step(p) ==
  \/ ReadMark(p) \/ LookForCopy(p) \/ CreateDirectory(p) \/ PlacePdb(p) \/ Copy(p)
  \/ Move(p) \/ Sweep(p) \/ Start(p)

Next == Rebuild \/ \E p \in Processes : Step(p) \/ Crash(p)

Spec == Init /\ [][Next]_vars

-----------------------------------------------------------------------------
(* Properties *)

OneBuild == \A p, q \in Processes : mark[p] = mark[q]

\* A copy's name stands for its bytes, while no build lands between a
\* process's reading of the mark and its copying, and its .pdb is beside it,
\* while no process of another build sweeps (NativeModule.cs:333-337, 265-267).
NameHoldsBytes ==
  \A b \in Builds : copies[b].copy # Nothing =>
    /\ ~torn => copies[b].copy = b
    /\ OneBuild => copies[b].pdb

\* Processes of one build never break each other's start, wherever one of
\* them dies; only one of another build can (NativeModule.cs:348-352, 632-640).
OneBuildStarts == OneBuild => \A p \in Processes : where[p] \notin {"threw", "missing"}
=============================================================================
