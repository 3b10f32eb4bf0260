------------------------------ MODULE Toolchain ------------------------------
(***************************************************************************)
(* Tools that fetch one package of the toolchain side by side, with no     *)
(* lock between them: fetch_package_from, publish_package and record_hash  *)
(* of crates/pwrs-build/src/toolchain.rs.  A tool may be killed at any     *)
(* step, an append may be cut short by a full disk, and the server may     *)
(* give different bytes than it gave another tool.                         *)
(*                                                                         *)
(* A step is one access to the store or to toolchain.lock.                 *)
(***************************************************************************)
EXTENDS Naturals, Sequences

CONSTANTS
  Tools,  \* processes that fetch the package
  Hashes, \* what the server may give, by hash
  Gone    \* no folder

VARIABLES
  lock,    \* the lines of toolchain.lock about the package; Torn for one that is none
  cut,     \* the lock ends in a record cut short
  earlier, \* the hash the earlier layout recorded, or Gone
  folder,  \* the package folder: Gone, Torn for one with no marker, or its hash
  at,      \* where each tool is
  fetched, \* the hash of what each tool fetched
  stray    \* history: a folder with no marker was there before the first tool

vars == <<lock, cut, earlier, folder, at, fetched, stray>>

Torn == "torn"

Init ==
  /\ lock = <<>> /\ cut = FALSE
  /\ earlier \in Hashes \cup {Gone}
  /\ folder \in {Gone, Torn}
  /\ at = [t \in Tools |-> "look"]
  /\ fetched = [t \in Tools |-> Gone]
  /\ stray = (folder = Torn)

Whole == folder \in Hashes

Goes(t, from, to) == at[t] = from /\ at' = [at EXCEPT ![t] = to]

-----------------------------------------------------------------------------
(* fetch_package_from *)

Look(t) ==
  /\ Goes(t, "look", IF Whole THEN "ok" ELSE "fetch")
  /\ UNCHANGED <<lock, cut, earlier, folder, fetched, stray>>

\* Into a folder of the tool's own, or the download fails.
Fetch(t) ==
  /\ \/ Goes(t, "fetch", "check") /\ \E h \in Hashes : fetched' = [fetched EXCEPT ![t] = h]
     \/ Goes(t, "fetch", "no package") /\ UNCHANGED fetched
  /\ UNCHANGED <<lock, cut, earlier, folder, stray>>

-----------------------------------------------------------------------------
(* record_hash *)

\* The earlier layout's record is checked first; it does not change.
CheckEarlier(t) ==
  /\ Goes(t, "check", IF earlier \in {Gone, fetched[t]} THEN "verify" ELSE "refused")
  /\ UNCHANGED <<lock, cut, earlier, folder, fetched, stray>>

Malformed == \E i \in DOMAIN lock : lock[i] = Torn
Recorded(h) == lock # <<>> /\ lock[1] = h

\* Lock::load and verify: the first record counts, a line that is none fails
\* them, and a last line with no line break is not read.
Verify(t, from, absent) ==
  Goes(t, from, IF Malformed THEN "malformed"
                ELSE IF lock = <<>> THEN absent
                ELSE IF Recorded(fetched[t]) THEN "mark" ELSE "refused")

LoadLock(t) ==
  /\ Verify(t, "verify", "append")
  /\ UNCHANGED <<lock, cut, earlier, folder, fetched, stray>>

\* The line is appended in one write, after whatever the file ends in: a cut
\* record turns it into a line that is none, or one about another package.
AppendWhole(t) ==
  /\ Goes(t, "append", "recheck")
  /\ \E line \in IF cut THEN {<<Torn>>, <<>>} ELSE {<<fetched[t]>>} : lock' = lock \o line
  /\ cut' = FALSE
  /\ UNCHANGED <<earlier, folder, fetched, stray>>

AppendShort(t) ==
  /\ Goes(t, "append", "short")
  /\ cut' = TRUE
  /\ UNCHANGED <<lock, earlier, folder, fetched, stray>>

TrustAppend(t) == Goes(t, "recheck", "mark")
VerifyAgain(t) == Verify(t, "recheck", "no record")

Recheck(t) ==
  /\ VerifyAgain(t)
  /\ UNCHANGED <<lock, cut, earlier, folder, fetched, stray>>

-----------------------------------------------------------------------------
(* publish_package, once the tool's own folder has its marker *)

LookAtDest(t) ==
  /\ Goes(t, "mark", IF folder = Torn THEN "remove" ELSE "rename")
  /\ UNCHANGED <<lock, cut, earlier, folder, fetched, stray>>

\* remove_dir_all takes whatever is there by now, part by part, a marker before
\* the folder.  It fails, and the tool with it, when another tool removes the
\* same folder or something holds a file of it.
RemoveDest(t) ==
  /\ at[t] = "remove"
  /\ \/ Goes(t, "remove", "rename") /\ folder # Gone /\ folder' = Gone
     \/ Whole /\ folder' = Torn /\ UNCHANGED at
     \/ Goes(t, "remove", "not removed") /\ UNCHANGED folder
  /\ UNCHANGED <<lock, cut, earlier, fetched, stray>>

RenamedFirst == "not moved"
RenamedSecond == IF Whole THEN "ok" ELSE "not moved"

\* Unix also renames over a folder that has been emptied.
Rename(t) ==
  /\ \/ folder \in {Gone, Torn} /\ Goes(t, "rename", "ok") /\ folder' = fetched[t]
     \/ folder # Gone /\ Goes(t, "rename", RenamedSecond) /\ UNCHANGED folder
  /\ UNCHANGED <<lock, cut, earlier, fetched, stray>>

-----------------------------------------------------------------------------

Failed == {"no package", "refused", "malformed", "short", "no record",
           "not removed", "not moved"}

\* The tool is killed; its own folder stays behind under its own name.
Crash(t) ==
  /\ at[t] \notin Failed \cup {"ok", "crashed"}
  /\ at' = [at EXCEPT ![t] = "crashed"]
  /\ UNCHANGED <<lock, cut, earlier, folder, fetched, stray>>

Step(t) ==
  \/ Look(t) \/ Fetch(t)
  \/ CheckEarlier(t) \/ LoadLock(t) \/ AppendWhole(t) \/ AppendShort(t) \/ Recheck(t)
  \/ LookAtDest(t) \/ RemoveDest(t) \/ Rename(t)

Next == \E t \in Tools : Step(t) \/ Crash(t)

Spec == Init /\ [][Next]_vars

-----------------------------------------------------------------------------
(* Properties *)

\* Whoever is told the package is there finds it whole, with the bytes the
\* lock's first record and the earlier layout's have (toolchain.rs:34-41,
\* 502-508).  A folder left with no marker by something else may be removed
\* by a tool that saw it after another has replaced it.
FetchesAgree ==
  ~stray => \A t \in Tools :
    at[t] = "ok" => Recorded(folder) /\ earlier \in {Gone, folder}

\* A tool fails for a reason of its own or a server that gave two packages:
\* no other tool's death or lost race makes it fail, unless one cut a record
\* short (toolchain.rs:34-41, 469-472).  Where something else had left a folder
\* with no marker, tools that both remove it may make each other fail.
FailsForCause ==
  \A t \in Tools :
    /\ at[t] \in {"no record", "malformed"} =>
         \E u \in Tools : at[u] = "short"
    /\ at[t] = "refused" =>
         earlier \notin {Gone, fetched[t]} \/ ~Recorded(fetched[t])
    /\ at[t] \in {"not removed", "not moved"} => stray
=============================================================================
