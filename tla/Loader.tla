------------------------------- MODULE Loader -------------------------------
(***************************************************************************)
(* The bootstrap loader of a module (Pwrs.Bootstrap/Loader.cs) on .NET:    *)
(* StageRoot clears the process's staging folder once, ContextFor makes    *)
(* one load context for a shell, and both have the other loads wait for    *)
(* the one that does the work.  A step is one access to a published map, a *)
(* Flight's mark or its event, or the work itself.                         *)
(***************************************************************************)
EXTENDS Naturals

CONSTANTS
  Loads,     \* the calls of Load for one module, each on a thread of its own
  Shells,    \* names a shell assembly has had, one for each source built
  Root,      \* the Flight of the staging root; a load is its own claim's
  None,      \* no entry
  Rebuilds   \* bound: builds of the module

ASSUME LoaderAssumption == Root \notin Loads /\ None \notin Loads /\ Root # None

VARIABLES
  current,   \* the shell in the module's folder
  builds,    \* builds so far
  map,       \* s_contexts: which map it is, and its entry for the module
  claim,     \* what each load's Loaded holds
  flight,    \* each Flight's _landed and _landing
  cleared,   \* the root: "never" cleared, being "cleared", or "clear"
  staged,    \* what generation folders hold: generation and shell
  load       \* each load's place and what it has read

vars == <<current, builds, map, claim, flight, cleared, staged, load>>

NoMap == [id |-> 0, entry |-> None]
NoClaim(s) == [shell |-> s, generation |-> 0, replaced |-> None, context |-> FALSE]

Init ==
  /\ current \in Shells /\ builds = 0
  /\ map = NoMap
  /\ claim = [l \in Loads |-> NoClaim(current)]
  /\ flight = [f \in Loads \cup {Root} |-> [landed |-> FALSE, landing |-> "none"]]
  /\ cleared = "never" /\ staged = {}
  /\ load = [l \in Loads |-> [pc |-> "idle", shell |-> current, seen |-> map, on |-> Root]]

GotoOn(l, pc, f) == load' = [load EXCEPT ![l].pc = pc, ![l].on = f, ![l].seen = NoMap]
Goto(l, pc) == GotoOn(l, pc, load[l].on)

-----------------------------------------------------------------------------
(* Flight *)

LandedAnyway(l) == IF load[l].on = Root THEN GotoOn(l, "context", Root) ELSE Goto(l, "stage")

\* Whoever waited goes on: from the root to ContextFor, or with the claim's
\* context, or, where making that failed, for another turn.
Landed(l) ==
  LET f == load[l].on IN
  IF f # Root /\ claim[f].context THEN Goto(l, "stage") ELSE GotoOn(l, "context", Root)

ReadMark(l) ==
  /\ load[l].pc = "wait"
  /\ IF flight[load[l].on].landed THEN Landed(l) ELSE Goto(l, "landing")
  /\ UNCHANGED <<current, builds, map, claim, flight, cleared, staged>>

\* Landing: the event, made by the first waiter that needs one.
Landing(l) ==
  /\ load[l].pc = "landing"
  /\ flight' = [flight EXCEPT ![load[l].on].landing = IF @ = "none" THEN "unset" ELSE @]
  /\ Goto(l, "recheck")
  /\ UNCHANGED <<current, builds, map, claim, cleared, staged>>

SkipRecheck(l) ==
  /\ load[l].pc = "recheck"
  /\ Goto(l, "parked")
  /\ UNCHANGED <<current, builds, map, claim, flight, cleared, staged>>

Recheck(l) ==
  /\ load[l].pc = "recheck"
  /\ IF flight[load[l].on].landed THEN Landed(l) ELSE Goto(l, "parked")
  /\ UNCHANGED <<current, builds, map, claim, flight, cleared, staged>>

WaitOne(l) ==
  /\ load[l].pc = "parked" /\ flight[load[l].on].landing = "set"
  /\ Landed(l)
  /\ UNCHANGED <<current, builds, map, claim, flight, cleared, staged>>

Land(l) ==
  /\ load[l].pc = "land"
  /\ flight' = [flight EXCEPT ![load[l].on].landed = TRUE]
  /\ Goto(l, "wake")
  /\ UNCHANGED <<current, builds, map, claim, cleared, staged>>

SetLanding(l) ==
  /\ load[l].pc = "wake"
  /\ flight' = [flight EXCEPT ![load[l].on].landing = IF @ = "none" THEN @ ELSE "set"]
  /\ Goto(l, IF load[l].on = Root THEN "context" ELSE IF claim[l].context THEN "stage" ELSE "threw")
  /\ UNCHANGED <<current, builds, map, claim, cleared, staged>>

-----------------------------------------------------------------------------
(* Load: FindShell, then StageRoot *)

FindShell(l) ==
  /\ load[l].pc = "idle"
  /\ load' = [load EXCEPT ![l].pc = "root", ![l].shell = current]
  /\ UNCHANGED <<current, builds, map, claim, flight, cleared, staged>>

\* s_fresh: the load that publishes the root's Flight clears the root.  A
\* TryPublish that fails has changed nothing and reads again.
FreshWithoutWait(l) ==
  /\ load[l].pc = "root"
  /\ IF cleared = "never" THEN cleared' = "clearing" /\ GotoOn(l, "empty", Root)
                          ELSE Goto(l, "context") /\ UNCHANGED cleared
  /\ UNCHANGED <<current, builds, map, claim, flight, staged>>

Fresh(l) ==
  /\ load[l].pc = "root"
  /\ IF cleared = "never" THEN cleared' = "clearing" /\ GotoOn(l, "empty", Root)
                          ELSE GotoOn(l, "wait", Root) /\ UNCHANGED cleared
  /\ UNCHANGED <<current, builds, map, claim, flight, staged>>

\* Empty swallows a delete that fails, and then some of what was there stays.
Empty(l) ==
  /\ load[l].pc = "empty"
  /\ cleared' = "clear" /\ staged' \in SUBSET staged
  /\ Goto(l, "land")
  /\ UNCHANGED <<current, builds, map, claim, flight>>

-----------------------------------------------------------------------------
(* ContextFor *)

Publish(entry) == map' = [id |-> map.id + 1, entry |-> entry]

\* TryPublish swaps in a copy of the map it was given, if that is still the one.
PublishOver(seen, entry) == Publish(entry)
TryPublish(seen, entry) == IF map = seen THEN Publish(entry) ELSE UNCHANGED map

ReadMap(l) ==
  /\ load[l].pc = "context"
  /\ IF map.entry # None /\ claim[map.entry].shell = load[l].shell
       THEN GotoOn(l, "wait", map.entry)
       ELSE load' = [load EXCEPT ![l].pc = "publish", ![l].seen = map]
  /\ UNCHANGED <<current, builds, map, claim, flight, cleared, staged>>

NextGeneration(e) == IF e = None THEN 0 ELSE claim[e].generation + 1

PublishClaim(l) ==
  LET seen == load[l].seen IN
  /\ load[l].pc = "publish"
  /\ TryPublish(seen, l)
  /\ IF map' = map THEN Goto(l, "context") /\ UNCHANGED claim
       ELSE /\ claim' = [claim EXCEPT ![l] = [shell |-> load[l].shell, context |-> FALSE,
                                              generation |-> NextGeneration(seen.entry), replaced |-> seen.entry]]
            /\ GotoOn(l, "make", l)
  /\ UNCHANGED <<current, builds, flight, cleared, staged>>

MakeContext(l) ==
  /\ load[l].pc = "make"
  /\ \/ claim' = [claim EXCEPT ![l].context = TRUE] /\ Goto(l, "land")
     \/ Goto(l, "putBack") /\ UNCHANGED claim
  /\ UNCHANGED <<current, builds, map, flight, cleared, staged>>

\* PutBack: read, then swap unless the entry is no longer the claim.
ReadBack(l) ==
  /\ load[l].pc = "putBack"
  /\ load' = [load EXCEPT ![l].pc = IF map.entry = l THEN "swapBack" ELSE "land", ![l].seen = map]
  /\ UNCHANGED <<current, builds, map, claim, flight, cleared, staged>>

SwapBack(l) ==
  /\ load[l].pc = "swapBack"
  /\ TryPublish(load[l].seen, claim[l].replaced)
  /\ Goto(l, IF map' = map THEN "putBack" ELSE "land")
  /\ UNCHANGED <<current, builds, claim, flight, cleared, staged>>

\* Stage: the shell goes into its generation's folder and is loaded.
Stage(l) ==
  /\ load[l].pc = "stage"
  /\ staged' = staged \cup {[generation |-> claim[load[l].on].generation, shell |-> load[l].shell]}
  /\ Goto(l, "loaded")
  /\ UNCHANGED <<current, builds, map, claim, flight, cleared>>

-----------------------------------------------------------------------------
(* What happens around a load *)

Rebuild ==
  /\ builds < Rebuilds
  /\ builds' = builds + 1
  /\ current' \in Shells \ {current}
  /\ UNCHANGED <<map, claim, flight, cleared, staged, load>>

LoadStep(l) ==
  \/ ReadMark(l) \/ Landing(l) \/ Recheck(l) \/ WaitOne(l) \/ Land(l) \/ SetLanding(l)
  \/ Fresh(l) \/ Empty(l)
  \/ ReadMap(l) \/ PublishClaim(l) \/ MakeContext(l) \/ ReadBack(l) \/ SwapBack(l)
  \/ Stage(l)

Next ==
  \/ \E l \in Loads : FindShell(l) \/ LoadStep(l)
  \/ Rebuild

Spec == Init /\ [][Next]_vars /\ \A l \in Loads : WF_vars(LoadStep(l))

-----------------------------------------------------------------------------
(* Properties *)

\* A load ends with a context that has been made, and for the shell it found
\* (Loader.cs:317-326).
LoadsOwnShell ==
  \A l \in Loads : load[l].pc \in {"stage", "loaded"} =>
    LET c == claim[load[l].on] IN c.context /\ c.shell = load[l].shell

\* Shells built from different source never share a generation's folder, even
\* after a context that could not be made gave its generation back
\* (Loader.cs:360-364).
FolderOfOneShell ==
  \A a, b \in staged : a.generation = b.generation => a = b

\* The root is cleared once and while nothing in it is this process's: what a
\* load has staged stays (Loader.cs:401-406).
StagedStays ==
  \A l \in Loads : load[l].pc = "loaded" =>
    [generation |-> claim[load[l].on].generation, shell |-> load[l].shell] \in staged

\* The published entry is that of a making that failed.
DeadEntry == map.entry # None /\ flight[map.entry].landed /\ ~claim[map.entry].context

\* Every load ends, a waiter woken by the landing (Loader.cs:90-95), unless a
\* failed entry was put back.
LoadsEnd ==
  []~DeadEntry => <>[](\A l \in Loads : load[l].pc \in {"idle", "loaded", "threw"})
=============================================================================
