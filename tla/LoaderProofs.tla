---------------------------- MODULE LoaderProofs ----------------------------
(***************************************************************************)
(* Loader's invariants, for any number of loads, shells and builds.        *)
(***************************************************************************)
EXTENDS Loader, TLAPS

Waiting == {"wait", "landing", "recheck", "parked"}
\* Where a load is that has published a claim, and before it has a Flight to
\* wait for or one of its own.
Mine == {"make", "putBack", "swapBack", "land", "wake", "stage", "loaded", "threw"}
Before == {"idle", "root", "empty", "context", "publish"}
Maps == [id : Nat, entry : Loads \cup {None}]
Flights == [landed : BOOLEAN, landing : {"none", "unset", "set"}]
Claims == [shell : Shells, generation : Nat, replaced : Loads \cup {None}, context : BOOLEAN]
Folders == [generation : Nat, shell : Shells]
States == [pc : Before \cup Waiting \cup Mine, shell : Shells, seen : Maps,
           on : Loads \cup {Root}]

TypeOK ==
  /\ current \in Shells /\ builds \in Nat
  /\ map \in Maps
  /\ claim \in [Loads -> Claims]
  /\ flight \in [Loads \cup {Root} -> Flights]
  /\ cleared \in {"never", "clearing", "clear"} /\ staged \subseteq Folders
  /\ load \in [Loads -> States]

\* A load that has published its claim is on it for good.
Published(l) == load[l].on = l

Places ==
  \A l \in Loads :
    /\ Published(l) => load[l].pc \in Mine
    /\ load[l].pc \in {"make", "putBack", "swapBack"} => Published(l)
    /\ load[l].pc \in Before => load[l].on = Root
    /\ load[l].pc \in {"land", "wake"} => load[l].on \in {Root, l}
    /\ load[l].pc = "swapBack" => load[l].seen.entry = l

\* Whatever has an entry, an entry read or an entry replaced, that entry's
\* load has published it.
Entries ==
  /\ map.entry # None => Published(map.entry)
  /\ \A l \in Loads :
       /\ load[l].seen.entry # None => Published(load[l].seen.entry)
       /\ claim[l].replaced # None => Published(claim[l].replaced)

\* A claim is for the shell of every load that has it.
SameShell ==
  \A l \in Loads : load[l].on # Root =>
    /\ Published(load[l].on)
    /\ claim[load[l].on].shell = load[l].shell

\* A context is made by its claim's load, and the load goes on with it.
ContextMade ==
  \A l \in Loads :
    /\ load[l].pc \in {"stage", "loaded"} => load[l].on # Root /\ claim[load[l].on].context
    /\ claim[l].context => Published(l)
    /\ load[l].pc \in {"make", "putBack", "swapBack"} => ~claim[l].context

\* The entry, what it replaced, what that replaced, and so on down to a claim
\* that replaced nothing.
Stacked(S) ==
  /\ map.entry = None \/ map.entry \in S
  /\ \A a \in S :
       /\ Published(a)
       /\ claim[a].replaced = None \/ claim[a].replaced \in S
       /\ claim[a].generation = NextGeneration(claim[a].replaced)
       /\ claim[a].generation < NextGeneration(map.entry)
  /\ \A a, b \in S : claim[a].generation = claim[b].generation => a = b

\* A claim whose context is made, or may be, is one of those.
Live(l) == claim[l].context \/ load[l].pc = "make"
Chain == \E S \in SUBSET Loads : Stacked(S) /\ \A l \in Loads : Live(l) => l \in S

\* What is in a folder was staged there by a claim's context.
FoldersClaimed ==
  \A f \in staged : \E l \in Loads :
    claim[l].context /\ f = [generation |-> claim[l].generation, shell |-> claim[l].shell]

\* Until the root is clear, nobody is past it, and one load is clearing it.
RootFirst ==
  /\ \A l \in Loads : /\ load[l].pc \in {"context", "publish"} \cup Mine => cleared = "clear"
                      /\ load[l].pc = "empty" => cleared = "clearing"
                      /\ load[l].on # Root => cleared = "clear"
  /\ \A l, k \in Loads : load[l].pc = "empty" /\ load[k].pc = "empty" => l = k
RootLanded == flight[Root].landed \/ flight[Root].landing = "set" => cleared = "clear"

IInv ==
  /\ TypeOK /\ Places /\ Entries /\ SameShell /\ ContextMade /\ Chain /\ FoldersClaimed
  /\ RootFirst /\ RootLanded /\ StagedStays

-----------------------------------------------------------------------------
(* What a step does to its load, and through it *)

\* The step of l takes it to p, on f, with no map read.
Now(l, p, f) ==
  /\ \A k \in Loads : k # l => load'[k] = load[k]
  /\ load'[l].pc = p /\ load'[l].on = f
  /\ load'[l].shell = load[l].shell /\ load'[l].seen.entry = None

LEMMA Typed ==
  ASSUME TypeOK
  PROVE  /\ map.id \in Nat /\ map.entry \in Loads \cup {None}
         /\ \A l \in Loads :
              /\ load[l].pc \in Before \cup Waiting \cup Mine
              /\ load[l].shell \in Shells /\ load[l].seen \in Maps
              /\ load[l].seen.entry \in Loads \cup {None}
              /\ load[l].on \in Loads \cup {Root}
              /\ claim[l].shell \in Shells /\ claim[l].generation \in Nat
              /\ claim[l].replaced \in Loads \cup {None} /\ claim[l].context \in BOOLEAN
  BY DEF TypeOK, Maps, Claims, States

LEMMA GoesTo ==
  ASSUME TypeOK, NEW l \in Loads, NEW p, NEW f, GotoOn(l, p, f)
  PROVE  Now(l, p, f)
<1>1. load' = [load EXCEPT ![l].pc = p, ![l].on = f, ![l].seen = NoMap]
  BY DEF GotoOn
<1>2. load \in [Loads -> States]
  BY DEF TypeOK
<1>3. \A k \in Loads : k # l => load'[k] = load[k]
  BY <1>1, <1>2
<1>4. load'[l] = [[[load[l] EXCEPT !.pc = p] EXCEPT !.on = f] EXCEPT !.seen = NoMap]
  BY <1>1, <1>2
<1>5. load[l] = [pc |-> load[l].pc, shell |-> load[l].shell, seen |-> load[l].seen, on |-> load[l].on]
  BY <1>2 DEF States
<1>6. load'[l] = [pc |-> p, shell |-> load[l].shell, seen |-> NoMap, on |-> f]
  BY <1>4, <1>5
<1> QED
  BY <1>3, <1>6 DEF Now, NoMap

LEMMA StaysOn ==
  ASSUME TypeOK, NEW l \in Loads, NEW p, Goto(l, p)
  PROVE  Now(l, p, load[l].on)
  BY GoesTo DEF Goto

\* The steps of Flight: a wait that goes on, a wait that ends on a context or
\* back before one, and a landing.
Turns(l) ==
  \/ \E p \in Waiting : load[l].pc \in Waiting /\ Now(l, p, load[l].on)
  \/ /\ load[l].pc \in Waiting /\ load[l].on # Root /\ claim[load[l].on].context
     /\ Now(l, "stage", load[l].on)
  \/ /\ load[l].pc \in Waiting \/ (load[l].pc = "wake" /\ load[l].on = Root)
     /\ cleared = "clear"
     /\ Now(l, "context", Root)
  \/ load[l].pc = "land" /\ Now(l, "wake", load[l].on)
  \/ /\ load[l].pc = "wake" /\ load[l].on = l
     /\ \/ claim[l].context /\ Now(l, "stage", l)
        \/ Now(l, "threw", l)

LEMMA LandedTurns ==
  ASSUME TypeOK, RootFirst, RootLanded, NEW l \in Loads, load[l].pc \in Waiting, Landed(l),
         flight[load[l].on].landed \/ flight[load[l].on].landing = "set"
  PROVE  Turns(l)
<1>1. cleared = "clear"
  BY DEF RootFirst, RootLanded
<1>2. CASE load[l].on # Root /\ claim[load[l].on].context
  <2>1. Now(l, "stage", load[l].on)
    BY <1>2, StaysOn DEF Landed
  <2> QED
    BY <1>2, <2>1 DEF Turns
<1>3. CASE ~(load[l].on # Root /\ claim[load[l].on].context)
  <2>1. Now(l, "context", Root)
    BY <1>3, GoesTo DEF Landed
  <2> QED
    BY <1>1, <2>1 DEF Turns
<1> QED
  BY <1>2, <1>3

LEMMA FlightTurns ==
  ASSUME TypeOK, Places, RootFirst, RootLanded, NEW l \in Loads,
         ReadMark(l) \/ Landing(l) \/ Recheck(l) \/ WaitOne(l) \/ Land(l) \/ SetLanding(l)
  PROVE  Turns(l) /\ UNCHANGED <<map, claim, cleared, staged>>
<1>1. UNCHANGED <<map, claim, cleared, staged>>
  BY DEF ReadMark, Landing, Recheck, WaitOne, Land, SetLanding
<1> SUFFICES Turns(l)
  BY <1>1
<1>2. CASE ReadMark(l) \/ Recheck(l)
  <2>1. load[l].pc \in Waiting
    BY <1>2 DEF ReadMark, Recheck, Waiting
  <2>2. CASE flight[load[l].on].landed
    BY <1>2, <2>1, <2>2, LandedTurns DEF ReadMark, Recheck
  <2>3. CASE ~flight[load[l].on].landed
    <3>1. \E p \in Waiting : Goto(l, p)
      BY <1>2, <2>3 DEF ReadMark, Recheck, Waiting
    <3> QED
      BY <2>1, <3>1, StaysOn DEF Turns
  <2> QED
    BY <2>2, <2>3
<1>3. CASE Landing(l)
  <2>1. load[l].pc \in Waiting /\ Goto(l, "recheck") /\ "recheck" \in Waiting
    BY <1>3 DEF Landing, Waiting
  <2> QED
    BY <2>1, StaysOn DEF Turns
<1>4. CASE WaitOne(l)
  <2>1. load[l].pc \in Waiting /\ flight[load[l].on].landing = "set" /\ Landed(l)
    BY <1>4 DEF WaitOne, Waiting
  <2> QED
    BY <2>1, LandedTurns
<1>5. CASE Land(l)
  BY <1>5, StaysOn DEF Land, Turns
<1>6. CASE SetLanding(l)
  <2>1. load[l].pc = "wake" /\ load[l].on \in {Root, l} /\ cleared = "clear"
    BY <1>6 DEF SetLanding, Places, RootFirst, Mine
  <2>2. CASE load[l].on = Root
    <3>1. Now(l, "context", Root)
      BY <1>6, <2>2, StaysOn DEF SetLanding
    <3> QED
      BY <2>1, <2>2, <3>1 DEF Turns
  <2>3. CASE load[l].on # Root
    <3>1. load[l].on = l
      BY <2>1, <2>3
    <3>2. (claim[l].context /\ Now(l, "stage", l)) \/ Now(l, "threw", l)
      BY <1>6, <2>3, <3>1, StaysOn DEF SetLanding
    <3> QED
      BY <2>1, <3>1, <3>2 DEF Turns
  <2> QED
    BY <2>2, <2>3
<1> QED
  BY <1>1, <1>2, <1>3, <1>4, <1>5, <1>6

Finds(l) ==
  /\ load[l].pc = "idle" /\ load[l].on = Root
  /\ UNCHANGED <<map, claim, cleared, staged>>
  /\ \A k \in Loads : k # l => load'[k] = load[k]
  /\ load'[l].pc = "root" /\ load'[l].on = Root /\ load'[l].seen = load[l].seen

LEMMA Finding ==
  ASSUME TypeOK, Places, NEW l \in Loads, FindShell(l)
  PROVE  Finds(l)
<1>1. load[l].pc = "idle" /\ load' = [load EXCEPT ![l].pc = "root", ![l].shell = current]
  BY DEF FindShell
<1>2. load[l].on = Root
  BY <1>1 DEF Places, Before
<1>3. load \in [Loads -> States]
  BY DEF TypeOK
<1>4. \A k \in Loads : k # l => load'[k] = load[k]
  BY <1>1, <1>3
<1>5. load'[l] = [[load[l] EXCEPT !.pc = "root"] EXCEPT !.shell = current]
  BY <1>1, <1>3
<1>6. load[l] = [pc |-> load[l].pc, shell |-> load[l].shell, seen |-> load[l].seen, on |-> load[l].on]
  BY <1>3 DEF States
<1>7. load'[l].pc = "root" /\ load'[l].on = load[l].on /\ load'[l].seen = load[l].seen
  BY <1>5, <1>6
<1> QED
  BY <1>1, <1>2, <1>4, <1>7 DEF FindShell, Finds

Freshens(l) ==
  /\ load[l].pc = "root" /\ load[l].on = Root /\ UNCHANGED <<map, claim, staged>>
  /\ \/ cleared = "never" /\ cleared' = "clearing" /\ Now(l, "empty", Root)
     \/ cleared # "never" /\ cleared' = cleared /\ Now(l, "wait", Root)
Empties(l) ==
  /\ load[l].pc = "empty" /\ load[l].on = Root /\ UNCHANGED <<map, claim>>
  /\ cleared' = "clear" /\ staged' \subseteq staged /\ Now(l, "land", Root)

LEMMA Clearing ==
  ASSUME TypeOK, Places, NEW l \in Loads
  PROVE  (Fresh(l) => Freshens(l)) /\ (Empty(l) => Empties(l))
<1>1. load[l].pc \in {"root", "empty"} => load[l].on = Root
  BY DEF Places, Before
<1>2. ASSUME Fresh(l)
      PROVE  \/ cleared = "never" /\ cleared' = "clearing" /\ Now(l, "empty", Root)
             \/ cleared # "never" /\ cleared' = cleared /\ Now(l, "wait", Root)
  BY <1>2, GoesTo DEF Fresh
<1>3. ASSUME Empty(l) PROVE Now(l, "land", load[l].on)
  BY <1>3, StaysOn DEF Empty
<1> QED
  BY <1>1, <1>2, <1>3 DEF Fresh, Empty, Freshens, Empties

Reads(l) ==
  /\ load[l].pc = "context" /\ load[l].on = Root
  /\ UNCHANGED <<map, claim, cleared, staged>>
  /\ \/ /\ map.entry # None /\ claim[map.entry].shell = load[l].shell
        /\ Now(l, "wait", map.entry)
     \/ /\ \A k \in Loads : k # l => load'[k] = load[k]
        /\ load'[l].pc = "publish" /\ load'[l].on = Root
        /\ load'[l].shell = load[l].shell /\ load'[l].seen.entry = map.entry

LEMMA Reading ==
  ASSUME TypeOK, Places, NEW l \in Loads, ReadMap(l)
  PROVE  Reads(l)
<1>1. load[l].pc = "context" /\ load[l].on = Root
  BY DEF ReadMap, Places, Before
<1>2. CASE map.entry # None /\ claim[map.entry].shell = load[l].shell
  BY <1>1, <1>2, GoesTo DEF ReadMap, Reads
<1>3. CASE load' = [load EXCEPT ![l].pc = "publish", ![l].seen = map]
  <2>1. load \in [Loads -> States]
    BY DEF TypeOK
  <2>2. \A k \in Loads : k # l => load'[k] = load[k]
    BY <1>3, <2>1
  <2>3. load'[l] = [[load[l] EXCEPT !.pc = "publish"] EXCEPT !.seen = map]
    BY <1>3, <2>1
  <2>4. load[l] = [pc |-> load[l].pc, shell |-> load[l].shell, seen |-> load[l].seen, on |-> load[l].on]
    BY <2>1 DEF States
  <2>5. load'[l] = [pc |-> "publish", shell |-> load[l].shell, seen |-> map, on |-> load[l].on]
    BY <2>3, <2>4
  <2> QED
    BY <1>1, <2>2, <2>5 DEF ReadMap, Reads
<1> QED
  BY <1>2, <1>3 DEF ReadMap

\* A new claim, over the entry there is.
Claimed(l) ==
  [shell |-> load[l].shell, context |-> FALSE, generation |-> NextGeneration(map.entry),
   replaced |-> map.entry]

Publishes(l) ==
  /\ load[l].pc = "publish" /\ load[l].on = Root /\ UNCHANGED <<cleared, staged>>
  /\ \/ UNCHANGED <<map, claim>> /\ Now(l, "context", Root)
     \/ /\ map'.entry = l /\ Now(l, "make", l)
        /\ claim' = [claim EXCEPT ![l] = Claimed(l)]

LEMMA Publishing ==
  ASSUME TypeOK, Places, NEW l \in Loads, PublishClaim(l)
  PROVE  Publishes(l)
<1>1. load[l].pc = "publish" /\ load[l].on = Root /\ UNCHANGED <<cleared, staged>>
  BY DEF PublishClaim, Places, Before
<1>2. CASE map' = map
  BY <1>1, <1>2, StaysOn DEF PublishClaim, Publishes
<1>3. CASE map' # map
  <2>1. map = load[l].seen /\ map' = [id |-> map.id + 1, entry |-> l]
    BY <1>3 DEF PublishClaim, TryPublish, Publish
  <2>2. claim' = [claim EXCEPT ![l] = Claimed(l)] /\ GotoOn(l, "make", l)
    BY <1>3, <2>1 DEF PublishClaim, Claimed
  <2> QED
    BY <1>1, <2>1, <2>2, GoesTo DEF Publishes
<1> QED
  BY <1>2, <1>3

Makes(l) ==
  /\ load[l].pc = "make" /\ load[l].on = l /\ UNCHANGED <<map, cleared, staged>>
  /\ \/ claim' = [claim EXCEPT ![l].context = TRUE] /\ Now(l, "land", l)
     \/ UNCHANGED claim /\ Now(l, "putBack", l)

LEMMA Making ==
  ASSUME TypeOK, Places, NEW l \in Loads, MakeContext(l)
  PROVE  Makes(l)
<1>1. load[l].pc = "make" /\ load[l].on = l
  BY DEF MakeContext, Places, Published
<1> QED
  BY <1>1, StaysOn DEF MakeContext, Published, Makes

ReadsBack(l) ==
  /\ load[l].pc = "putBack" /\ load[l].on = l /\ UNCHANGED <<map, claim, cleared, staged>>
  /\ \A k \in Loads : k # l => load'[k] = load[k]
  /\ load'[l].pc \in {"swapBack", "land"} /\ load'[l].on = l
  /\ load'[l].shell = load[l].shell /\ load'[l].seen = map
  /\ load'[l].pc = "swapBack" => map.entry = l
SwapsBack(l) ==
  /\ load[l].pc = "swapBack" /\ load[l].on = l /\ UNCHANGED <<claim, cleared, staged>>
  /\ \/ UNCHANGED map /\ Now(l, "putBack", l)
     \/ map.entry = l /\ map'.entry = claim[l].replaced /\ Now(l, "land", l)

LEMMA PuttingBack ==
  ASSUME TypeOK, Places, NEW l \in Loads
  PROVE  (ReadBack(l) => ReadsBack(l)) /\ (SwapBack(l) => SwapsBack(l))
<1>1. ASSUME ReadBack(l) PROVE ReadsBack(l)
  <2> DEFINE p == IF map.entry = l THEN "swapBack" ELSE "land"
  <2>1. load[l].pc = "putBack" /\ load[l].on = l
    BY <1>1 DEF ReadBack, Places, Published
  <2>2. load' = [load EXCEPT ![l].pc = p, ![l].seen = map]
    BY <1>1 DEF ReadBack
  <2>3. load \in [Loads -> States]
    BY DEF TypeOK
  <2> HIDE DEF p
  <2>4. \A k \in Loads : k # l => load'[k] = load[k]
    BY <2>2, <2>3
  <2>5. load'[l] = [[load[l] EXCEPT !.pc = p] EXCEPT !.seen = map]
    BY <2>2, <2>3
  <2>6. p \in {"swapBack", "land"} /\ (p = "swapBack" => map.entry = l)
    BY DEF p
  <2>7. load[l] = [pc |-> load[l].pc, shell |-> load[l].shell, seen |-> load[l].seen, on |-> load[l].on]
    BY <2>3 DEF States
  <2>8. load'[l].pc = p /\ load'[l].on = l /\ load'[l].shell = load[l].shell /\ load'[l].seen = map
    BY <2>1, <2>5, <2>7
  <2> QED
    BY <1>1, <2>1, <2>4, <2>6, <2>8 DEF ReadBack, ReadsBack
<1>2. ASSUME SwapBack(l) PROVE SwapsBack(l)
  <2>1. load[l].pc = "swapBack" /\ load[l].on = l /\ load[l].seen.entry = l
    BY <1>2 DEF SwapBack, Places, Published
  <2>2. CASE map' = map
    BY <1>2, <2>1, <2>2, StaysOn DEF SwapBack, SwapsBack
  <2>3. CASE map' # map
    <3>1. map = load[l].seen /\ map'.entry = claim[l].replaced
      BY <1>2, <2>3 DEF SwapBack, TryPublish, Publish
    <3>2. Now(l, "land", l)
      BY <1>2, <2>1, <2>3, StaysOn DEF SwapBack
    <3> QED
      BY <1>2, <2>1, <3>1, <3>2 DEF SwapBack, SwapsBack
  <2> QED
    BY <2>2, <2>3
<1> QED
  BY <1>1, <1>2

Stages(l) ==
  /\ load[l].pc = "stage" /\ Now(l, "loaded", load[l].on) /\ UNCHANGED <<map, claim, cleared>>
  /\ staged' = staged \cup {[generation |-> claim[load[l].on].generation,
                             shell |-> load[l].shell]}

LEMMA Staging ==
  ASSUME TypeOK, NEW l \in Loads, Stage(l)
  PROVE  Stages(l)
  BY StaysOn DEF Stage, Stages

\* Every step is one of those, or builds the module, or does nothing.
Steps(l) ==
  \/ Turns(l) /\ UNCHANGED <<map, claim, cleared, staged>>
  \/ Finds(l) \/ Freshens(l) \/ Empties(l) \/ Reads(l) \/ Publishes(l) \/ Makes(l)
  \/ ReadsBack(l) \/ SwapsBack(l) \/ Stages(l)

LEMMA StepIs ==
  ASSUME TypeOK, Places, RootFirst, RootLanded, [Next]_vars
  PROVE  UNCHANGED <<map, claim, cleared, staged, load>> \/ \E l \in Loads : Steps(l)
<1>1. CASE UNCHANGED vars \/ Rebuild
  BY <1>1 DEF vars, Rebuild
<1>2. ASSUME NEW l \in Loads, FindShell(l) \/ LoadStep(l) PROVE Steps(l)
  BY <1>2, FlightTurns, Finding, Clearing, Reading, Publishing, Making, PuttingBack, Staging
     DEF LoadStep, Steps
<1> QED
  BY <1>1, <1>2 DEF Next
-----------------------------------------------------------------------------
(* Each invariant, over a step *)

LEMMA PublishedStays ==
  ASSUME TypeOK, Places, NEW l \in Loads, Steps(l)
  PROVE  \A k \in Loads : Published(k) => Published(k)'
<1>0. Published(l) => load[l].pc \in Mine
  BY DEF Places
<1>1. CASE Turns(l) /\ UNCHANGED <<map, claim, cleared, staged>>
  BY <1>1, <1>0 DEF Turns, Now, Published, Waiting, Mine, Before
<1>2. CASE Finds(l)
  BY <1>2, <1>0 DEF Finds, Now, Published, Waiting, Mine, Before
<1>3. CASE Freshens(l)
  BY <1>3, <1>0 DEF Freshens, Now, Published, Waiting, Mine, Before
<1>4. CASE Empties(l)
  BY <1>4, <1>0 DEF Empties, Now, Published, Waiting, Mine, Before
<1>5. CASE Reads(l)
  BY <1>5, <1>0 DEF Reads, Now, Published, Waiting, Mine, Before
<1>6. CASE Publishes(l)
  BY <1>6, <1>0 DEF Publishes, Now, Published, Waiting, Mine, Before
<1>7. CASE Makes(l)
  BY <1>7, <1>0 DEF Makes, Now, Published
<1>8. CASE ReadsBack(l)
  BY <1>8, <1>0 DEF ReadsBack, Now, Published
<1>9. CASE SwapsBack(l)
  BY <1>9, <1>0 DEF SwapsBack, Now, Published
<1>10. CASE Stages(l)
  BY <1>10, <1>0 DEF Stages, Now, Published
<1> QED
  BY <1>1, <1>2, <1>3, <1>4, <1>5, <1>6, <1>7, <1>8, <1>9, <1>10 DEF Steps

LEMMA PlacesStay ==
  ASSUME TypeOK, Places, Entries, NEW l \in Loads, Steps(l)
  PROVE  Places'
<1>0. Root \notin Loads /\ None \notin Loads
  BY LoaderAssumption
<1>1. CASE Turns(l) /\ UNCHANGED <<map, claim, cleared, staged>>
  BY <1>1, <1>0 DEF Turns, Now, Published, Places, Waiting, Mine, Before
<1>2. CASE Finds(l)
  BY <1>2, <1>0 DEF Finds, Now, Published, Places, Waiting, Mine, Before
<1>3. CASE Freshens(l)
  BY <1>3, <1>0 DEF Freshens, Now, Published, Places, Waiting, Mine, Before
<1>4. CASE Empties(l)
  BY <1>4, <1>0 DEF Empties, Now, Published, Places, Waiting, Mine, Before
<1>5. CASE Reads(l)
  <2>1. load[l].pc = "context" /\ load[l].on = Root
    BY <1>5 DEF Reads
  <2>2. map.entry # None => map.entry # l
    BY <1>0, <2>1 DEF Entries, Published
  <2> QED
    BY <1>5, <1>0, <2>2 DEF Reads, Now, Published, Places, Waiting, Mine, Before
<1>6. CASE Publishes(l)
  BY <1>6, <1>0 DEF Publishes, Now, Published, Places, Waiting, Mine, Before
<1>7. CASE Makes(l)
  BY <1>7, <1>0 DEF Makes, Now, Published, Places, Waiting, Mine, Before
<1>8. CASE ReadsBack(l)
  BY <1>8, <1>0 DEF ReadsBack, Now, Published, Places, Waiting, Mine, Before
<1>9. CASE SwapsBack(l)
  BY <1>9, <1>0 DEF SwapsBack, Now, Published, Places, Waiting, Mine, Before
<1>10. CASE Stages(l)
  BY <1>10, <1>0 DEF Stages, Now, Published, Places, Waiting, Mine, Before
<1> QED
  BY <1>1, <1>2, <1>3, <1>4, <1>5, <1>6, <1>7, <1>8, <1>9, <1>10 DEF Steps

LEMMA EntriesStay ==
  ASSUME TypeOK, Places, Entries, NEW l \in Loads, Steps(l)
  PROVE  Entries'
<1>0. \A k \in Loads : Published(k) => Published(k)'
  BY PublishedStays
<1>a. /\ map.entry \in Loads \cup {None}
      /\ \A k \in Loads : /\ load[k].seen.entry \in Loads \cup {None}
                          /\ load[k].on \in Loads \cup {Root}
                          /\ claim[k].replaced \in Loads \cup {None}
  BY Typed
<1>b. claim \in [Loads -> Claims]
  BY DEF TypeOK
<1>1. CASE Turns(l) /\ UNCHANGED <<map, claim, cleared, staged>>
  BY <1>1, <1>0, <1>a DEF Turns, Now, Entries
<1>2. CASE Finds(l)
  BY <1>2, <1>0, <1>a DEF Finds, Now, Entries
<1>3. CASE Freshens(l)
  BY <1>3, <1>0, <1>a DEF Freshens, Now, Entries
<1>4. CASE Empties(l)
  BY <1>4, <1>0, <1>a DEF Empties, Now, Entries
<1>5. CASE Reads(l)
  BY <1>5, <1>0, <1>a DEF Reads, Now, Entries
<1>6. CASE Publishes(l)
  BY <1>6, <1>0, <1>a, <1>b DEF Publishes, Now, Entries, Claimed, Published
<1>7. CASE Makes(l)
  BY <1>7, <1>0, <1>a, <1>b DEF Makes, Now, Entries, Claims
<1>8. CASE ReadsBack(l)
  BY <1>8, <1>0, <1>a DEF ReadsBack, Now, Entries
<1>9. CASE SwapsBack(l)
  BY <1>9, <1>0, <1>a DEF SwapsBack, Now, Entries
<1>10. CASE Stages(l)
  BY <1>10, <1>0, <1>a DEF Stages, Now, Entries
<1> QED
  BY <1>1, <1>2, <1>3, <1>4, <1>5, <1>6, <1>7, <1>8, <1>9, <1>10 DEF Steps

LEMMA SameShellStays ==
  ASSUME TypeOK, Places, Entries, SameShell, NEW l \in Loads, Steps(l)
  PROVE  SameShell'
<1>0. \A k \in Loads : Published(k) => Published(k)'
  BY PublishedStays
<1>a. /\ map.entry \in Loads \cup {None}
      /\ \A k \in Loads : load[k].on \in Loads \cup {Root}
  BY Typed
<1>b. claim \in [Loads -> Claims]
  BY DEF TypeOK
<1>c. Root \notin Loads /\ None \notin Loads
  BY LoaderAssumption
<1>1. CASE Turns(l) /\ UNCHANGED <<map, claim, cleared, staged>>
  BY <1>1, <1>0, <1>a DEF Turns, Now, SameShell
<1>2. CASE Finds(l)
  BY <1>2, <1>0, <1>a DEF Finds, Now, SameShell
<1>3. CASE Freshens(l)
  BY <1>3, <1>0, <1>a DEF Freshens, Now, SameShell
<1>4. CASE Empties(l)
  BY <1>4, <1>0, <1>a DEF Empties, Now, SameShell
<1>5. CASE Reads(l)
  BY <1>5, <1>0, <1>a DEF Reads, Now, SameShell, Entries
<1>6. CASE Publishes(l)
  BY <1>6, <1>0, <1>a, <1>b, <1>c DEF Publishes, Now, SameShell, Claimed, Published
<1>7. CASE Makes(l)
  BY <1>7, <1>0, <1>a, <1>b DEF Makes, Now, SameShell, Claims, Published
<1>8. CASE ReadsBack(l)
  BY <1>8, <1>0, <1>a DEF ReadsBack, Now, SameShell
<1>9. CASE SwapsBack(l)
  BY <1>9, <1>0, <1>a DEF SwapsBack, Now, SameShell
<1>10. CASE Stages(l)
  BY <1>10, <1>0, <1>a DEF Stages, Now, SameShell
<1> QED
  BY <1>1, <1>2, <1>3, <1>4, <1>5, <1>6, <1>7, <1>8, <1>9, <1>10 DEF Steps

LEMMA ContextMadeStays ==
  ASSUME TypeOK, Places, SameShell, ContextMade, NEW l \in Loads, Steps(l)
  PROVE  ContextMade'
<1>0. \A k \in Loads : Published(k) => Published(k)'
  BY PublishedStays
<1>a. /\ map.entry \in Loads \cup {None}
      /\ \A k \in Loads : load[k].on \in Loads \cup {Root}
  BY Typed
<1>b. claim \in [Loads -> Claims]
  BY DEF TypeOK
<1>c. Root \notin Loads /\ None \notin Loads
  BY LoaderAssumption
<1>1. CASE Turns(l) /\ UNCHANGED <<map, claim, cleared, staged>>
  BY <1>1, <1>0, <1>a, <1>c DEF Turns, Now, ContextMade, Waiting, Published
<1>2. CASE Finds(l)
  BY <1>2, <1>0, <1>a, <1>c DEF Finds, Now, ContextMade
<1>3. CASE Freshens(l)
  BY <1>3, <1>0, <1>a, <1>c DEF Freshens, Now, ContextMade
<1>4. CASE Empties(l)
  BY <1>4, <1>0, <1>a, <1>c DEF Empties, Now, ContextMade
<1>5. CASE Reads(l)
  BY <1>5, <1>0, <1>a, <1>c DEF Reads, Now, ContextMade
<1>6. CASE Publishes(l)
  BY <1>6, <1>0, <1>a, <1>b, <1>c DEF Publishes, Now, ContextMade, Claimed, Published,
     SameShell
<1>7. CASE Makes(l)
  BY <1>7, <1>0, <1>a, <1>b, <1>c DEF Makes, Now, ContextMade, Claims, Published
<1>8. CASE ReadsBack(l)
  BY <1>8, <1>0, <1>a, <1>c DEF ReadsBack, Now, ContextMade
<1>9. CASE SwapsBack(l)
  BY <1>9, <1>0, <1>a, <1>c DEF SwapsBack, Now, ContextMade
<1>10. CASE Stages(l)
  BY <1>10, <1>0, <1>a, <1>c DEF Stages, Now, ContextMade
<1> QED
  BY <1>1, <1>2, <1>3, <1>4, <1>5, <1>6, <1>7, <1>8, <1>9, <1>10 DEF Steps

LEMMA RootFirstStays ==
  ASSUME TypeOK, Places, RootFirst, NEW l \in Loads, Steps(l)
  PROVE  RootFirst'
<1>a. /\ map.entry \in Loads \cup {None}
      /\ \A k \in Loads : load[k].on \in Loads \cup {Root}
  BY Typed
<1>1. CASE Turns(l) /\ UNCHANGED <<map, claim, cleared, staged>>
  BY <1>1, <1>a DEF Turns, Now, RootFirst, Waiting, Mine, Before
<1>2. CASE Finds(l)
  BY <1>2, <1>a DEF Finds, Now, RootFirst, Waiting, Mine, Before
<1>3. CASE Freshens(l)
  BY <1>3, <1>a DEF Freshens, Now, RootFirst, Waiting, Mine, Before
<1>4. CASE Empties(l)
  BY <1>4, <1>a DEF Empties, Now, RootFirst, Waiting, Mine, Before
<1>5. CASE Reads(l)
  BY <1>5, <1>a DEF Reads, Now, RootFirst, Waiting, Mine, Before
<1>6. CASE Publishes(l)
  BY <1>6, <1>a DEF Publishes, Now, RootFirst, Waiting, Mine, Before
<1>7. CASE Makes(l)
  BY <1>7, <1>a DEF Makes, Now, RootFirst, Waiting, Mine, Before
<1>8. CASE ReadsBack(l)
  BY <1>8, <1>a DEF ReadsBack, Now, RootFirst, Waiting, Mine, Before
<1>9. CASE SwapsBack(l)
  BY <1>9, <1>a DEF SwapsBack, Now, RootFirst, Waiting, Mine, Before
<1>10. CASE Stages(l)
  BY <1>10, <1>a DEF Stages, Now, RootFirst, Waiting, Mine, Before
<1> QED
  BY <1>1, <1>2, <1>3, <1>4, <1>5, <1>6, <1>7, <1>8, <1>9, <1>10 DEF Steps

\* The root's Flight lands after the root is cleared.
LEMMA RootLandedStays ==
  ASSUME TypeOK, Places, RootFirst, RootLanded, [Next]_vars
  PROVE  RootLanded'
<1>1. cleared = "clear" => cleared' = "clear"
  <2>1. ASSUME NEW l \in Loads, Steps(l), cleared = "clear" PROVE cleared' = "clear"
    <3>1. ~Empties(l) \/ cleared' = "clear"
      BY DEF Empties
    <3> QED
      BY <2>1, <3>1 DEF Steps, Finds, Freshens, Reads, Publishes, Makes, ReadsBack, SwapsBack,
         Stages
  <2> QED
    BY <2>1, StepIs
<1>2. flight \in [Loads \cup {Root} -> Flights]
  BY DEF TypeOK
<1>3. CASE UNCHANGED flight
  BY <1>1, <1>3 DEF RootLanded
<1>4. ASSUME NEW l \in Loads, Land(l) \/ SetLanding(l) PROVE RootLanded'
  <2>1. cleared = "clear"
    BY <1>4 DEF Land, SetLanding, RootFirst, Mine
  <2> QED
    BY <1>1, <2>1 DEF RootLanded
<1>5. ASSUME NEW l \in Loads, Landing(l) PROVE RootLanded'
  <2>1. load[l].on \in Loads \cup {Root}
    BY Typed
  <2>2. /\ flight'[Root].landed = flight[Root].landed
        /\ flight'[Root].landing = "set" => flight[Root].landing = "set"
    BY <1>2, <1>5, <2>1 DEF Landing, Flights
  <2> QED
    BY <1>1, <2>2 DEF RootLanded
<1> QED
  BY <1>3, <1>4, <1>5 DEF Next, LoadStep, vars, FindShell, ReadMark, Recheck, WaitOne, Fresh,
     Empty, ReadMap, PublishClaim, MakeContext, ReadBack, SwapBack, Stage, Rebuild

-----------------------------------------------------------------------------
(* The entry and what it replaced *)

\* A step that leaves the entry, the generations and what they replaced as
\* they are, and makes no new claim live.
LEMMA SameChain ==
  ASSUME Chain, map'.entry = map.entry, \A k \in Loads : Published(k) => Published(k)',
         \A k \in Loads : /\ claim'[k].generation = claim[k].generation
                          /\ claim'[k].replaced = claim[k].replaced
                          /\ Live(k)' => Live(k)
  PROVE  Chain'
<1>1. PICK S \in SUBSET Loads : Stacked(S) /\ \A k \in Loads : Live(k) => k \in S
  BY DEF Chain
<1>2. \A a \in S : a \in Loads
  OBVIOUS
<1>3. NextGeneration(map.entry)' = NextGeneration(map.entry)
  BY <1>1, <1>2 DEF NextGeneration, Stacked
<1>4. \A a \in S : NextGeneration(claim[a].replaced)' = NextGeneration(claim[a].replaced)
  BY <1>1, <1>2 DEF NextGeneration, Stacked
<1>5. Stacked(S)'
  BY <1>1, <1>2, <1>3, <1>4 DEF Stacked
<1>6. \A k \in Loads : Live(k)' => k \in S
  BY <1>1
<1> QED
  BY <1>5, <1>6 DEF Chain

LEMMA ChainPublishes ==
  ASSUME TypeOK, Places, Chain, \A k \in Loads : Published(k) => Published(k)',
         NEW l \in Loads, Published(l)', load[l].on = Root, map'.entry = l,
         claim' = [claim EXCEPT ![l] = Claimed(l)],
         \A k \in Loads : k # l => load'[k] = load[k]
  PROVE  Chain'
<1>1. PICK S \in SUBSET Loads : Stacked(S) /\ \A k \in Loads : Live(k) => k \in S
  BY DEF Chain
<1>2. l \notin S /\ None \notin Loads
  BY <1>1, LoaderAssumption DEF Stacked, Published
<1>3. /\ \A k \in Loads : k # l => claim'[k] = claim[k]
      /\ claim'[l] = Claimed(l)
  BY DEF TypeOK
<1>4. \A k \in Loads : claim[k].generation \in Nat
  BY Typed
<1>5. \A e \in S \cup {None} : NextGeneration(e)' = NextGeneration(e) /\ NextGeneration(e) \in Nat
  BY <1>2, <1>3, <1>4 DEF NextGeneration
<1>6. map.entry \in S \cup {None}
  BY <1>1 DEF Stacked
<1>7. claim'[l].generation = NextGeneration(map.entry) /\ claim'[l].replaced = map.entry
  BY <1>3 DEF Claimed
<1>8. NextGeneration(map.entry)' = NextGeneration(map.entry) + 1
  <2>1. l # None
    BY <1>2
  <2> QED
    BY <1>7, <2>1 DEF NextGeneration
<1> DEFINE R == S \cup {l}
           g == NextGeneration(map.entry)
<1>9. \A a \in S : claim'[a] = claim[a] /\ claim[a].generation \in Nat /\ claim[a].generation < g
  BY <1>1, <1>2, <1>3, <1>4 DEF Stacked
<1>10. g \in Nat
  BY <1>5, <1>6
<1>11. \A a \in R : Published(a)'
  BY <1>1 DEF Stacked
<1>12. \A a \in R : claim'[a].replaced = None \/ claim'[a].replaced \in R
  BY <1>1, <1>6, <1>7, <1>9 DEF Stacked
<1>13. \A a \in R : claim'[a].generation = NextGeneration(claim[a].replaced)'
  <2>1. ASSUME NEW a \in S PROVE claim'[a].generation = NextGeneration(claim[a].replaced)'
    <3>1. claim[a].replaced \in S \cup {None}
      BY <1>1 DEF Stacked
    <3>2. claim[a].generation = NextGeneration(claim[a].replaced)
      BY <1>1 DEF Stacked
    <3>3. NextGeneration(claim[a].replaced)' = NextGeneration(claim[a].replaced)
      BY <1>2, <1>3, <1>9, <3>1 DEF NextGeneration
    <3> QED
      BY <1>9, <3>2, <3>3
  <2>2. claim'[l].generation = NextGeneration(claim[l].replaced)'
    BY <1>2, <1>3, <1>6, <1>7 DEF NextGeneration
  <2> QED
    BY <2>1, <2>2
<1>14. \A a \in R : claim'[a].generation < NextGeneration(map.entry)'
  <2> HIDE DEF g
  <2>1. NextGeneration(map.entry)' = g + 1 /\ claim'[l].generation = g
    BY <1>7, <1>8 DEF g
  <2> QED
    BY <1>9, <1>10, <2>1
<1>15. \A a, b \in R : claim'[a].generation = claim'[b].generation => a = b
  <2> HIDE DEF g
  <2>1. claim'[l].generation = g
    BY <1>7 DEF g
  <2>2. \A a \in S : claim'[a].generation # g
    BY <1>9, <1>10
  <2> QED
    BY <1>1, <1>9, <2>1, <2>2 DEF Stacked
<1>16. Stacked(R)'
  BY <1>11, <1>12, <1>13, <1>14, <1>15 DEF Stacked
<1>17. \A k \in Loads : Live(k)' => k \in R
  BY <1>1, <1>3 DEF Live
<1> QED
  BY <1>16, <1>17 DEF Chain

LEMMA ChainPutsBack ==
  ASSUME TypeOK, Chain, \A k \in Loads : Published(k) => Published(k)',
         NEW l \in Loads, ~Live(l)', map.entry = l, map'.entry = claim[l].replaced,
         UNCHANGED claim, \A k \in Loads : k # l => load'[k] = load[k]
  PROVE  Chain'
<1>1. PICK S \in SUBSET Loads : Stacked(S) /\ \A k \in Loads : Live(k) => k \in S
  BY DEF Chain
<1> DEFINE R == S \ {l}
           g == claim[l].generation
<1>2. l # None /\ l \in S
  BY <1>1, LoaderAssumption DEF Stacked
<1>3. \A k \in Loads : claim[k].generation \in Nat
  BY Typed
<1>4. NextGeneration(map.entry) = g + 1 /\ g \in Nat
  BY <1>2, <1>3 DEF NextGeneration
<1>5. g = NextGeneration(claim[l].replaced)
  BY <1>1, <1>2 DEF Stacked
<1>6. NextGeneration(map.entry)' = g
  BY <1>5 DEF NextGeneration
<1>7. \A a \in R : claim[a].generation \in Nat /\ claim[a].generation < g
  <2>1. \A a \in R : claim[a].generation < g + 1 /\ claim[a].generation # g
    BY <1>1, <1>2, <1>4 DEF Stacked
  <2> HIDE DEF g
  <2> QED
    BY <1>3, <1>4, <2>1
<1>8. \A a \in S : claim[a].replaced # l
  <2> SUFFICES ASSUME NEW a \in S, claim[a].replaced = l PROVE FALSE
    OBVIOUS
  <2>1. claim[a].generation = g + 1
    BY <1>1, <1>2 DEF Stacked, NextGeneration
  <2>2. claim[a].generation < g + 1
    BY <1>1, <1>4 DEF Stacked
  <2> QED
    BY <1>4, <2>1, <2>2
<1>9. map'.entry = None \/ map'.entry \in R
  BY <1>1, <1>2, <1>8 DEF Stacked
<1>10. \A a \in R : NextGeneration(claim[a].replaced)' = NextGeneration(claim[a].replaced)
  BY DEF NextGeneration
<1>11. Stacked(R)'
  BY <1>1, <1>6, <1>7, <1>8, <1>9, <1>10 DEF Stacked
<1>12. \A k \in Loads : Live(k)' => k \in R
  <2>1. \A k \in Loads : k # l => (Live(k)' => Live(k))
    BY DEF Live
  <2> QED
    BY <1>1, <2>1
<1> QED
  BY <1>11, <1>12 DEF Chain

LEMMA ChainStays ==
  ASSUME TypeOK, Places, ContextMade, Chain, NEW l \in Loads, Steps(l)
  PROVE  Chain'
<1>1. \A k \in Loads : Published(k) => Published(k)'
  BY PublishedStays
<1>2. CASE Makes(l)
  <2>1. claim \in [Loads -> Claims]
    BY DEF TypeOK
  <2>2. UNCHANGED map /\ load[l].pc = "make"
    BY <1>2 DEF Makes
  <2>3. \A k \in Loads : /\ claim'[k].generation = claim[k].generation
                         /\ claim'[k].replaced = claim[k].replaced
                         /\ k # l => claim'[k] = claim[k]
    BY <1>2, <2>1 DEF Makes, Claims
  <2>4. \A k \in Loads : k # l => load'[k] = load[k]
    BY <1>2 DEF Makes, Now
  <2>5. \A k \in Loads : Live(k)' => Live(k)
    BY <2>2, <2>3, <2>4 DEF Live
  <2> QED
    BY <1>1, <2>2, <2>3, <2>5, SameChain
<1>3. CASE Publishes(l) /\ map'.entry = l /\ Now(l, "make", l)
             /\ claim' = [claim EXCEPT ![l] = Claimed(l)]
  <2>1. load[l].on = Root /\ Published(l)' /\ \A k \in Loads : k # l => load'[k] = load[k]
    BY <1>3 DEF Publishes, Now, Published
  <2> QED
    BY <1>1, <1>3, <2>1, ChainPublishes
<1>4. CASE SwapsBack(l) /\ map.entry = l /\ map'.entry = claim[l].replaced /\ Now(l, "land", l)
  <2>1. UNCHANGED claim /\ ~claim[l].context /\ \A k \in Loads : k # l => load'[k] = load[k]
    BY <1>4 DEF SwapsBack, Now, ContextMade
  <2>2. ~Live(l)'
    BY <1>4, <2>1 DEF Live, Now
  <2> QED
    BY <1>1, <1>4, <2>1, <2>2, ChainPutsBack
<1>5. ASSUME UNCHANGED <<map, claim>>, \A k \in Loads : load'[k].pc = "make" => load[k].pc = "make"
      PROVE  Chain'
  <2>1. \A k \in Loads : Live(k)' => Live(k)
    BY <1>5 DEF Live
  <2> QED
    BY <1>1, <1>5, <2>1, SameChain
<1>6. CASE Turns(l) /\ UNCHANGED <<map, claim>>
  <2>1. \A k \in Loads : load'[k].pc = "make" => load[k].pc = "make"
    BY <1>6 DEF Turns, Now, Waiting
  <2> QED
    BY <1>5, <1>6, <2>1
<1>7. CASE \/ Finds(l) \/ Freshens(l) \/ Empties(l) \/ Reads(l) \/ ReadsBack(l) \/ Stages(l)
           \/ (Publishes(l) /\ UNCHANGED <<map, claim>> /\ Now(l, "context", Root))
           \/ (SwapsBack(l) /\ UNCHANGED <<map, claim>> /\ Now(l, "putBack", l))
  <2>1. UNCHANGED <<map, claim>>
    BY <1>7 DEF Finds, Freshens, Empties, Reads, ReadsBack, Stages
  <2>2. \A k \in Loads : k # l => load'[k] = load[k]
    BY <1>7 DEF Finds, Freshens, Empties, Reads, ReadsBack, Stages, Now
  <2>3. load'[l].pc # "make"
    BY <1>7 DEF Finds, Freshens, Empties, Reads, ReadsBack, Stages, Now
  <2> QED
    BY <1>5, <2>1, <2>2, <2>3
<1>8. Publishes(l) => \/ UNCHANGED <<map, claim>> /\ Now(l, "context", Root)
                      \/ /\ map'.entry = l /\ Now(l, "make", l)
                         /\ claim' = [claim EXCEPT ![l] = Claimed(l)]
  BY DEF Publishes
<1>9. SwapsBack(l) => \/ UNCHANGED <<map, claim>> /\ Now(l, "putBack", l)
                      \/ map.entry = l /\ map'.entry = claim[l].replaced /\ Now(l, "land", l)
  BY DEF SwapsBack
<1> QED
  BY <1>2, <1>3, <1>4, <1>6, <1>7, <1>8, <1>9 DEF Steps

-----------------------------------------------------------------------------
(* The generations' folders *)

\* A claim whose context is made stays as it is.
LEMMA MadeStays ==
  ASSUME TypeOK, ContextMade, NEW l \in Loads, Steps(l), NEW k \in Loads, claim[k].context
  PROVE  claim'[k] = claim[k]
<1>1. claim \in [Loads -> Claims]
  BY DEF TypeOK
<1>2. CASE Publishes(l)
  <2>1. load[l].on = Root
    BY <1>2 DEF Publishes
  <2>2. k # l
    BY <2>1, LoaderAssumption DEF ContextMade, Published
  <2> QED
    BY <1>1, <1>2, <2>2 DEF Publishes
<1>3. CASE Makes(l)
  <2>1. k # l
    BY <1>3 DEF Makes, ContextMade
  <2> QED
    BY <1>1, <1>3, <2>1 DEF Makes
<1>4. CASE ~Publishes(l) /\ ~Makes(l)
  BY <1>4 DEF Steps, Finds, Freshens, Empties, Reads, ReadsBack, SwapsBack, Stages
<1> QED
  BY <1>2, <1>3, <1>4

LEMMA FoldersClaimedStays ==
  ASSUME TypeOK, SameShell, ContextMade, FoldersClaimed, NEW l \in Loads, Steps(l)
  PROVE  FoldersClaimed'
<1> DEFINE Folder(k) == [generation |-> claim[k].generation, shell |-> claim[k].shell]
<1>1. \A k \in Loads : claim[k].context => claim'[k] = claim[k]
  BY MadeStays
<1>2. CASE Stages(l)
  <2> DEFINE k == load[l].on
  <2>1. k \in Loads /\ claim[k].context /\ claim[k].shell = load[l].shell
    BY <1>2, Typed DEF Stages, ContextMade, SameShell
  <2>2. staged' = staged \cup {Folder(k)}
    BY <1>2, <2>1 DEF Stages
  <2> HIDE DEF k
  <2> QED
    BY <1>1, <2>1, <2>2 DEF FoldersClaimed
<1>3. CASE ~Stages(l)
  <2>1. staged' \subseteq staged
    BY <1>3 DEF Steps, Finds, Freshens, Empties, Reads, Publishes, Makes, ReadsBack, SwapsBack
  <2> QED
    BY <1>1, <2>1 DEF FoldersClaimed
<1> QED
  BY <1>2, <1>3

LEMMA StagedStaysStays ==
  ASSUME TypeOK, Places, RootFirst, ContextMade, StagedStays, NEW l \in Loads, Steps(l)
  PROVE  StagedStays'
<1> SUFFICES ASSUME NEW k \in Loads, load'[k].pc = "loaded"
             PROVE  [generation |-> claim'[load'[k].on].generation, shell |-> load'[k].shell]
                      \in staged'
  BY DEF StagedStays
<1>1. CASE k = l
  <2>1. Stages(l)
    BY <1>1 DEF Steps, Turns, Waiting, Finds, Freshens, Empties, Reads, Publishes, Makes,
       ReadsBack, SwapsBack, Now
  <2>2. load'[l].on = load[l].on /\ load'[l].shell = load[l].shell /\ UNCHANGED claim
    BY <2>1 DEF Stages, Now
  <2> QED
    BY <1>1, <2>1, <2>2 DEF Stages
<1>2. CASE k # l
  <2>1. load'[k] = load[k]
    BY <1>2 DEF Steps, Turns, Finds, Freshens, Empties, Reads, Publishes, Makes, ReadsBack,
       SwapsBack, Stages, Now
  <2>2. load[k].pc = "loaded"
    BY <2>1
  <2>3. load[k].on \in Loads /\ claim[load[k].on].context
    BY <2>2, Typed DEF ContextMade
  <2>4. claim'[load[k].on] = claim[load[k].on]
    BY <2>3, MadeStays
  <2>5. ~Empties(l)
    BY <2>2 DEF Empties, RootFirst, Mine
  <2>6. staged \subseteq staged'
    BY <2>5 DEF Steps, Finds, Freshens, Reads, Publishes, Makes, ReadsBack, SwapsBack, Stages
  <2>7. [generation |-> claim[load[k].on].generation, shell |-> load[k].shell] \in staged
    BY <2>2 DEF StagedStays
  <2> QED
    BY <2>1, <2>4, <2>6, <2>7
<1> QED
  BY <1>1, <1>2

-----------------------------------------------------------------------------
(* The types *)

LEMMA GotoTyped ==
  ASSUME load \in [Loads -> States], NEW l \in Loads, NEW p \in Before \cup Waiting \cup Mine,
         NEW f \in Loads \cup {Root}, GotoOn(l, p, f)
  PROVE  load' \in [Loads -> States]
<1>1. NoMap \in Maps
  BY DEF NoMap, Maps
<1>2. [load[l] EXCEPT !.pc = p, !.on = f, !.seen = NoMap] \in States
  BY <1>1 DEF States
<1>3. load' = [load EXCEPT ![l] = [load[l] EXCEPT !.pc = p, !.on = f, !.seen = NoMap]]
  BY DEF GotoOn
<1> QED
  BY <1>2, <1>3

LEMMA LoadTyped ==
  ASSUME TypeOK, [Next]_vars
  PROVE  load' \in [Loads -> States]
<1> USE DEF Before, Waiting, Mine
<1>1. /\ load \in [Loads -> States] /\ current \in Shells /\ map \in Maps
      /\ map.entry \in Loads \cup {None}
      /\ \A l \in Loads : load[l].on \in Loads \cup {Root}
  BY Typed DEF TypeOK
<1>2. ASSUME NEW l \in Loads, NEW p \in Before \cup Waiting \cup Mine, Goto(l, p)
      PROVE  load' \in [Loads -> States]
  <2>1. GotoOn(l, p, load[l].on)
    BY <1>2 DEF Goto
  <2> HIDE DEF Before, Waiting, Mine
  <2> QED
    BY <1>1, <2>1, GotoTyped
<1>3. ASSUME NEW l \in Loads, NEW p \in Before \cup Waiting \cup Mine, GotoOn(l, p, Root)
      PROVE  load' \in [Loads -> States]
  <2> HIDE DEF Before, Waiting, Mine
  <2> QED
    BY <1>1, <1>3, GotoTyped
<1>4. ASSUME NEW l \in Loads, Landed(l) PROVE load' \in [Loads -> States]
  BY <1>2, <1>3, <1>4 DEF Landed
<1>5. CASE UNCHANGED vars \/ Rebuild
  BY <1>1, <1>5 DEF vars, Rebuild
<1>6. ASSUME NEW l \in Loads, FindShell(l) PROVE load' \in [Loads -> States]
  <2>1. [load[l] EXCEPT !.pc = "root", !.shell = current] \in States
    BY <1>1 DEF States
  <2>2. load' = [load EXCEPT ![l] = [load[l] EXCEPT !.pc = "root", !.shell = current]]
    BY <1>6 DEF FindShell
  <2> QED
    BY <1>1, <2>1, <2>2
<1>7. ASSUME NEW l \in Loads, ReadMark(l) \/ Landing(l) \/ Recheck(l) \/ WaitOne(l) \/ Land(l)
      PROVE  load' \in [Loads -> States]
  BY <1>2, <1>4, <1>7 DEF ReadMark, Landing, Recheck, WaitOne, Land
<1>8. ASSUME NEW l \in Loads, SetLanding(l) PROVE load' \in [Loads -> States]
  <2>1. \E p \in {"context", "stage", "threw"} : Goto(l, p)
    BY <1>8 DEF SetLanding
  <2> QED
    BY <1>2, <2>1
<1>9. ASSUME NEW l \in Loads, Fresh(l) \/ Empty(l) PROVE load' \in [Loads -> States]
  BY <1>2, <1>3, <1>9 DEF Fresh, Empty
<1>10. ASSUME NEW l \in Loads, ReadMap(l) PROVE load' \in [Loads -> States]
  <2>1. CASE map.entry # None /\ GotoOn(l, "wait", map.entry)
    <3>1. map.entry \in Loads \cup {Root} /\ "wait" \in Before \cup Waiting \cup Mine
      BY <1>1, <2>1
    <3> HIDE DEF Before, Waiting, Mine
    <3> QED
      BY <1>1, <2>1, <3>1, GotoTyped
  <2>2. CASE load' = [load EXCEPT ![l].pc = "publish", ![l].seen = map]
    <3>1. [load[l] EXCEPT !.pc = "publish", !.seen = map] \in States
      BY <1>1 DEF States
    <3>2. load' = [load EXCEPT ![l] = [load[l] EXCEPT !.pc = "publish", !.seen = map]]
      BY <2>2
    <3> QED
      BY <1>1, <3>1, <3>2
  <2> QED
    BY <1>10, <2>1, <2>2 DEF ReadMap
<1>11. ASSUME NEW l \in Loads, PublishClaim(l) PROVE load' \in [Loads -> States]
  <2>1. Goto(l, "context") \/ GotoOn(l, "make", l)
    BY <1>11 DEF PublishClaim
  <2>2. CASE GotoOn(l, "make", l)
    <3>1. l \in Loads \cup {Root} /\ "make" \in Before \cup Waiting \cup Mine
      OBVIOUS
    <3> HIDE DEF Before, Waiting, Mine
    <3> QED
      BY <1>1, <2>2, <3>1, GotoTyped
  <2> QED
    BY <1>2, <2>1, <2>2
<1>12. ASSUME NEW l \in Loads, ReadBack(l) PROVE load' \in [Loads -> States]
  <2> DEFINE p == IF map.entry = l THEN "swapBack" ELSE "land"
  <2>1. [load[l] EXCEPT !.pc = p, !.seen = map] \in States
    BY <1>1 DEF States
  <2>2. load' = [load EXCEPT ![l] = [load[l] EXCEPT !.pc = p, !.seen = map]]
    BY <1>12 DEF ReadBack
  <2> HIDE DEF p
  <2> QED
    BY <1>1, <2>1, <2>2
<1>13. ASSUME NEW l \in Loads, MakeContext(l) \/ SwapBack(l) \/ Stage(l)
       PROVE  load' \in [Loads -> States]
  <2>1. \E p \in {"land", "putBack", "loaded"} : Goto(l, p)
    BY <1>13 DEF MakeContext, SwapBack, Stage
  <2> QED
    BY <1>2, <2>1
<1> QED
  BY <1>5, <1>6, <1>7, <1>8, <1>9, <1>10, <1>11, <1>12, <1>13 DEF Next, LoadStep

LEMMA ClaimTyped ==
  ASSUME TypeOK, NEW l \in Loads, Steps(l)
  PROVE  claim' \in [Loads -> Claims]
<1>1. claim \in [Loads -> Claims]
  BY DEF TypeOK
<1>2. CASE Publishes(l)
  <2>1. Claimed(l) \in Claims
    <3>1. /\ load[l].shell \in Shells /\ map.entry \in Loads \cup {None}
          /\ \A k \in Loads : claim[k].generation \in Nat
      BY Typed
    <3>2. NextGeneration(map.entry) \in Nat
      BY <3>1 DEF NextGeneration
    <3> QED
      BY <3>1, <3>2 DEF Claimed, Claims
  <2> QED
    BY <1>1, <1>2, <2>1 DEF Publishes
<1>3. CASE Makes(l)
  <2>1. [claim[l] EXCEPT !.context = TRUE] \in Claims
    BY <1>1 DEF Claims
  <2>2. claim' = claim \/ claim' = [claim EXCEPT ![l] = [claim[l] EXCEPT !.context = TRUE]]
    BY <1>3 DEF Makes
  <2> QED
    BY <1>1, <2>1, <2>2
<1>4. CASE ~Publishes(l) /\ ~Makes(l)
  BY <1>1, <1>4 DEF Steps, Finds, Freshens, Empties, Reads, ReadsBack, SwapsBack, Stages
<1> QED
  BY <1>2, <1>3, <1>4

LEMMA MapTyped ==
  ASSUME TypeOK, [Next]_vars
  PROVE  map' \in Maps
<1>1. map \in Maps
  BY DEF TypeOK
<1>2. ASSUME NEW e \in Loads \cup {None}, Publish(e) PROVE map' \in Maps
  BY <1>1, <1>2 DEF Publish, Maps
<1>3. ASSUME NEW l \in Loads, PublishClaim(l) PROVE map' \in Maps
  BY <1>1, <1>2, <1>3 DEF PublishClaim, TryPublish
<1>4. ASSUME NEW l \in Loads, SwapBack(l) PROVE map' \in Maps
  <2>1. claim[l].replaced \in Loads \cup {None}
    BY Typed
  <2> QED
    BY <1>1, <1>2, <1>4, <2>1 DEF SwapBack, TryPublish
<1> QED
  BY <1>1, <1>3, <1>4 DEF Next, LoadStep, vars, FindShell, ReadMark, Landing, Recheck,
     WaitOne, Land, SetLanding, Fresh, Empty, ReadMap, MakeContext, ReadBack, Stage, Rebuild

LEMMA FlightTyped ==
  ASSUME TypeOK, [Next]_vars
  PROVE  flight' \in [Loads \cup {Root} -> Flights]
<1>1. flight \in [Loads \cup {Root} -> Flights]
  BY DEF TypeOK
<1>2. ASSUME NEW l \in Loads, Land(l) \/ Landing(l) \/ SetLanding(l)
      PROVE  flight' \in [Loads \cup {Root} -> Flights]
  <2> DEFINE f == load[l].on
  <2>1. flight[f] \in Flights
    BY <1>1, Typed
  <2>2. [flight[f] EXCEPT !.landed = TRUE] \in Flights
    BY <2>1 DEF Flights
  <2>3. \A x \in {"none", "unset", "set"} : [flight[f] EXCEPT !.landing = x] \in Flights
    BY <2>1 DEF Flights
  <2>4. flight[f].landing \in {"none", "unset", "set"}
    BY <2>1 DEF Flights
  <2>5. \/ flight' = [flight EXCEPT ![f] = [flight[f] EXCEPT !.landed = TRUE]]
        \/ flight' = [flight EXCEPT ![f] = [flight[f] EXCEPT !.landing =
                        IF flight[f].landing = "none" THEN "unset" ELSE flight[f].landing]]
        \/ flight' = [flight EXCEPT ![f] = [flight[f] EXCEPT !.landing =
                        IF flight[f].landing = "none" THEN flight[f].landing ELSE "set"]]
    BY <1>2 DEF Land, Landing, SetLanding
  <2> HIDE DEF f
  <2> QED
    BY <1>1, <2>2, <2>3, <2>4, <2>5
<1> QED
  BY <1>1, <1>2 DEF Next, LoadStep, vars, FindShell, ReadMark, Recheck, WaitOne, Fresh, Empty,
     ReadMap, PublishClaim, MakeContext, ReadBack, SwapBack, Stage, Rebuild

LEMMA TypeStays ==
  ASSUME TypeOK, Places, RootFirst, RootLanded, ContextMade, [Next]_vars
  PROVE  TypeOK'
<1>1. current' \in Shells /\ builds' \in Nat
  <2>1. current \in Shells /\ builds \in Nat
    BY DEF TypeOK
  <2>2. CASE Rebuild
    BY <2>1, <2>2 DEF Rebuild
  <2>3. UNCHANGED <<current, builds>> \/ Rebuild
    BY DEF Next, LoadStep, vars, FindShell, ReadMark, Landing, Recheck, WaitOne, Land,
       SetLanding, Fresh, Empty, ReadMap, PublishClaim, MakeContext, ReadBack, SwapBack, Stage
  <2> QED
    BY <2>1, <2>2, <2>3
<1>2. claim' \in [Loads -> Claims]
  <2>1. claim \in [Loads -> Claims]
    BY DEF TypeOK
  <2> QED
    BY <2>1, ClaimTyped, StepIs
<1>3. cleared' \in {"never", "clearing", "clear"}
  <2>1. cleared \in {"never", "clearing", "clear"}
    BY DEF TypeOK
  <2> QED
    BY <2>1 DEF Next, LoadStep, vars, FindShell, ReadMark, Landing, Recheck, WaitOne, Land,
       SetLanding, Fresh, Empty, ReadMap, PublishClaim, MakeContext, ReadBack, SwapBack,
       Stage, Rebuild
<1>4. staged' \subseteq Folders
  <2>1. staged \subseteq Folders
    BY DEF TypeOK
  <2>2. ASSUME NEW l \in Loads, Stages(l) PROVE staged' \subseteq Folders
    <3>1. load[l].shell \in Shells
      BY Typed
    <3>2. claim[load[l].on].generation \in Nat
      BY <2>2, Typed DEF Stages, ContextMade
    <3> QED
      BY <2>1, <2>2, <3>1, <3>2 DEF Stages, Folders
  <2> QED
    BY <2>1, <2>2, StepIs DEF Steps, Finds, Freshens, Empties, Reads, Publishes, Makes,
       ReadsBack, SwapsBack
<1> QED
  BY <1>1, <1>2, <1>3, <1>4, LoadTyped, MapTyped, FlightTyped DEF TypeOK

-----------------------------------------------------------------------------
(* The invariant *)

LEMMA Initially == Init => IInv
<1> SUFFICES ASSUME Init PROVE IInv
  OBVIOUS
<1>1. /\ map = NoMap /\ claim = [l \in Loads |-> NoClaim(current)] /\ current \in Shells
      /\ flight = [f \in Loads \cup {Root} |-> [landed |-> FALSE, landing |-> "none"]]
      /\ cleared = "never" /\ staged = {} /\ builds = 0
      /\ load = [l \in Loads |-> [pc |-> "idle", shell |-> current, seen |-> NoMap, on |-> Root]]
  BY DEF Init
<1>2. \A l \in Loads : /\ load[l].pc = "idle" /\ load[l].on = Root
                       /\ load[l].seen = NoMap /\ load[l].seen.entry = None
                       /\ ~claim[l].context /\ claim[l].replaced = None
  BY <1>1 DEF NoMap, NoClaim
<1>3. map.entry = None /\ Root \notin Loads
  BY <1>1, LoaderAssumption DEF NoMap
<1>4. TypeOK
  <2>1. NoMap \in Maps
    BY DEF NoMap, Maps
  <2>2. NoClaim(current) \in Claims
    BY <1>1 DEF NoClaim, Claims
  <2>3. [landed |-> FALSE, landing |-> "none"] \in Flights
    BY DEF Flights
  <2>4. [pc |-> "idle", shell |-> current, seen |-> NoMap, on |-> Root] \in States
    BY <1>1, <2>1 DEF States, Before
  <2>5. claim \in [Loads -> Claims] /\ flight \in [Loads \cup {Root} -> Flights]
        /\ load \in [Loads -> States]
    BY <1>1, <2>2, <2>3, <2>4
  <2> QED
    BY <1>1, <2>1, <2>5 DEF TypeOK
<1>5. Places
  BY <1>2, <1>3 DEF Places, Published, Mine
<1>6. Entries
  BY <1>2, <1>3 DEF Entries
<1>7. SameShell
  BY <1>2 DEF SameShell
<1>8. ContextMade
  BY <1>2 DEF ContextMade
<1>9. Chain
  <2>1. Stacked({})
    BY <1>3 DEF Stacked
  <2>2. \A l \in Loads : ~Live(l)
    BY <1>2 DEF Live
  <2> QED
    BY <2>1, <2>2 DEF Chain
<1>10. FoldersClaimed /\ StagedStays
  BY <1>1, <1>2 DEF FoldersClaimed, StagedStays
<1>11. RootFirst
  BY <1>2 DEF RootFirst, Mine
<1>12. RootLanded
  BY <1>1 DEF RootLanded
<1> QED
  BY <1>4, <1>5, <1>6, <1>7, <1>8, <1>9, <1>10, <1>11, <1>12 DEF IInv

LEMMA Stutters ==
  ASSUME IInv, UNCHANGED <<map, claim, cleared, staged, load>>
  PROVE  /\ Places' /\ Entries' /\ SameShell' /\ ContextMade' /\ FoldersClaimed' /\ RootFirst'
         /\ StagedStays' /\ Chain'
<1> USE DEF IInv
<1>1. \A k \in Loads : (Published(k)' <=> Published(k)) /\ (Live(k)' <=> Live(k))
  BY DEF Published, Live
<1>2. Places' /\ Entries' /\ SameShell' /\ ContextMade'
  <2>1. Places'
    BY DEF Places, Published
  <2>2. Entries'
    BY DEF Entries, Published
  <2>3. SameShell'
    BY DEF SameShell, Published
  <2>4. ContextMade'
    BY DEF ContextMade, Published
  <2> QED
    BY <2>1, <2>2, <2>3, <2>4
<1>3. FoldersClaimed' /\ RootFirst' /\ StagedStays'
  BY DEF FoldersClaimed, RootFirst, StagedStays
<1>4. Chain'
  BY <1>1, SameChain
<1> QED
  BY <1>2, <1>3, <1>4

\* The loader's map, flights and folders are as IInv says in every state, for
\* any number of loads, shells and builds.
THEOREM Invariance == Spec => []IInv
<1>1. IInv /\ [Next]_vars => IInv'
  <2> SUFFICES ASSUME IInv, [Next]_vars PROVE IInv'
    OBVIOUS
  <2> USE DEF IInv
  <2>1. TypeOK' /\ RootLanded'
    BY TypeStays, RootLandedStays
  <2>2. CASE UNCHANGED <<map, claim, cleared, staged, load>>
    BY <2>1, <2>2, Stutters
  <2>3. ASSUME NEW l \in Loads, Steps(l) PROVE IInv'
    BY <2>1, <2>3, PlacesStay, EntriesStay, SameShellStays, ContextMadeStays, ChainStays,
       FoldersClaimedStays, RootFirstStays, StagedStaysStays
  <2> QED
    BY <2>2, <2>3, StepIs
<1> QED
  BY Initially, <1>1, PTL DEF Spec

\* A load goes on only with a context that has been made, and for the shell it
\* found, whoever made it.
THEOREM OwnShell == Spec => []LoadsOwnShell
<1>1. IInv => LoadsOwnShell
  BY DEF IInv, ContextMade, SameShell, LoadsOwnShell
<1> QED
  BY <1>1, Invariance, PTL

\* What is staged in a generation's folder is one shell, though a generation
\* whose context could not be made is given out again.
THEOREM OneShell == Spec => []FolderOfOneShell
<1>1. IInv => FolderOfOneShell
  <2> SUFFICES ASSUME IInv, NEW a \in staged, NEW b \in staged, a.generation = b.generation
               PROVE  a = b
    BY DEF FolderOfOneShell
  <2>1. PICK k \in Loads :
          claim[k].context /\ a = [generation |-> claim[k].generation, shell |-> claim[k].shell]
    BY DEF IInv, FoldersClaimed
  <2>2. PICK j \in Loads :
          claim[j].context /\ b = [generation |-> claim[j].generation, shell |-> claim[j].shell]
    BY DEF IInv, FoldersClaimed
  <2>3. claim[k].generation = claim[j].generation
    BY <2>1, <2>2
  <2>4. PICK S \in SUBSET Loads : Stacked(S) /\ \A l \in Loads : Live(l) => l \in S
    BY DEF IInv, Chain
  <2>5. k = j
    BY <2>1, <2>2, <2>3, <2>4 DEF Live, Stacked
  <2> QED
    BY <2>1, <2>2, <2>5
<1> QED
  BY <1>1, Invariance, PTL

\* What a load has staged is there when it has loaded, and stays: the root is
\* cleared once, before anything of this process is in it.
THEOREM StagedShellStays == Spec => []StagedStays
<1>1. IInv => StagedStays
  BY DEF IInv
<1> QED
  BY <1>1, Invariance, PTL
=============================================================================
