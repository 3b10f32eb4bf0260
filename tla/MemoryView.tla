----------------------------- MODULE MemoryView -----------------------------
(***************************************************************************)
(* Native memory passed to .NET as a Memory<T> that a PsRevocation can     *)
(* refuse: hand_over and PsRevocation of crates/pwrs/src/pinned.rs,        *)
(* MemoryViewBorrow of HostVTable.cs and RustMemoryManager.  Readers take  *)
(* spans on their threads while the module revokes the view and others     *)
(* dispose of its manager, or drop the last reference to it.               *)
(***************************************************************************)

CONSTANT Readers \* threads that read through the view

\* The manager is disposed by whoever has it, or collected.
Disposers == {"user", "another", "finalizer"}

VARIABLES
  view,      \* the hand over: "borrowing", "throwing", "held" or "refused"
  flag,      \* the refusal byte's value
  clone,     \* the module keeps the PsRevocation
  armed,     \* the manager's finalizer may run
  disposed,  \* _released
  disposing, \* where each Dispose is
  owner,     \* the memory's owner, with the view's clone: "alive" or "freed"
  reading,   \* where each reader is in GetSpan, or in its use of the span
  touched,   \* history: the readers that read freed memory
  overtaken  \* history: the readers the dispose found past the check of _released

vars == <<view, flag, clone, armed, disposed, disposing, owner, reading,
          touched, overtaken>>

Init ==
  /\ view = "borrowing"
  /\ flag = FALSE
  /\ clone = TRUE
  /\ armed = FALSE
  /\ disposed = FALSE
  /\ disposing = [d \in Disposers |-> "no"]
  /\ owner = "alive"
  /\ reading = [t \in Readers |-> "no"]
  /\ touched = {}
  /\ overtaken = {}

Free == owner' = IF owner = "alive" THEN "freed" ELSE "freed twice"

-----------------------------------------------------------------------------
(* hand_over, with MemoryViewBorrow and View *)

\* A view whose byte is set is refused before it has a manager.
Refuse ==
  /\ view = "borrowing" /\ flag
  /\ view' = "throwing"
  /\ UNCHANGED <<flag, clone, armed, disposed, disposing, owner, reading, touched, overtaken>>

Borrow ==
  /\ view = "borrowing" /\ ~flag
  /\ view' = "held"
  /\ armed' = TRUE
  /\ UNCHANGED <<flag, clone, disposed, disposing, owner, reading, touched, overtaken>>

Suppressed == armed' = FALSE

\* The handle cannot be made: the manager is taken off the finalizer's queue.
AllocFails ==
  /\ view = "borrowing" /\ ~flag
  /\ view' = "throwing"
  /\ Suppressed
  /\ UNCHANGED <<flag, clone, disposed, disposing, owner, reading, touched, overtaken>>

\* The caller of a refused borrow drops the context itself.
DropRefused ==
  /\ view = "throwing"
  /\ view' = "refused"
  /\ Free
  /\ UNCHANGED <<flag, clone, armed, disposed, disposing, reading, touched, overtaken>>

-----------------------------------------------------------------------------
(* The module *)

Revoke ==
  /\ clone
  /\ flag' = TRUE
  /\ UNCHANGED <<view, clone, armed, disposed, disposing, owner, reading, touched, overtaken>>

DropClone ==
  /\ clone
  /\ clone' = FALSE
  /\ UNCHANGED <<view, flag, armed, disposed, disposing, owner, reading, touched, overtaken>>

-----------------------------------------------------------------------------
(* RustMemoryManager *)

ReadGoes(t, from, to) == reading[t] = from /\ reading' = [reading EXCEPT ![t] = to]

\* Who calls the manager has a reference to it: it has not been collected.
Reachable == view = "held" /\ disposing["finalizer"] = "no"

GetSpan(t) ==
  /\ Reachable
  /\ ReadGoes(t, "no", "released?")
  /\ UNCHANGED <<view, flag, clone, armed, disposed, disposing, owner, touched, overtaken>>

ReadAnyway(t) == ReadGoes(t, "released?", "revoked?")
ReadReleased(t) == ReadGoes(t, "released?", IF disposed THEN "no" ELSE "revoked?")

CheckReleased(t) ==
  /\ ReadReleased(t)
  /\ UNCHANGED <<view, flag, clone, armed, disposed, disposing, owner, touched, overtaken>>

Touches(t, there) == touched' = IF there THEN touched ELSE touched \cup {t}

\* The byte is in the PsRevocation's allocation; freed memory reads as anything.
ByteThere == owner = "alive" \/ clone

CheckRevoked(t) ==
  /\ \E refused \in IF ByteThere THEN {flag} ELSE BOOLEAN :
       ReadGoes(t, "revoked?", IF refused THEN "no" ELSE "span")
  /\ Touches(t, ByteThere)
  /\ UNCHANGED <<view, flag, clone, armed, disposed, disposing, owner, overtaken>>

UseSpan(t) ==
  /\ ReadGoes(t, "span", "no")
  /\ Touches(t, owner = "alive")
  /\ UNCHANGED <<view, flag, clone, armed, disposed, disposing, owner, overtaken>>

\* The finalizer comes once no thread is in a method of the manager and nobody
\* has it.  A span or a pin is a pointer into the memory and keeps nothing alive.
InMethod == (\E t \in Readers : reading[t] \in {"released?", "revoked?"})
            \/ \E d \in Disposers : disposing[d] = "release"
MayDispose(d) == IF d = "finalizer" THEN armed /\ ~InMethod ELSE Reachable

DisposeOnce(d) ==
  disposing' = [disposing EXCEPT ![d] = IF disposed THEN "done" ELSE "release"]

Exchange(d) ==
  /\ disposing[d] = "no"
  /\ MayDispose(d)
  /\ disposed' = TRUE
  /\ DisposeOnce(d)
  /\ overtaken' = IF disposed THEN overtaken
                  ELSE {t \in Readers : reading[t] \in {"revoked?", "span"}}
  /\ UNCHANGED <<view, flag, clone, armed, owner, reading, touched>>

ReleaseView(d) ==
  /\ disposing[d] = "release"
  /\ disposing' = [disposing EXCEPT ![d] = "done"]
  /\ Free
  /\ UNCHANGED <<view, flag, clone, armed, disposed, reading, touched, overtaken>>

-----------------------------------------------------------------------------

ReadStep(t) == CheckReleased(t) \/ CheckRevoked(t) \/ UseSpan(t)

Next ==
  \/ Refuse \/ Borrow \/ AllocFails \/ DropRefused \/ Revoke \/ DropClone
  \/ \E t \in Readers : GetSpan(t) \/ ReadStep(t)
  \/ \E d \in Disposers : Exchange(d) \/ ReleaseView(d)

Spec == Init /\ [][Next]_vars

-----------------------------------------------------------------------------
(* Properties *)

\* The owner is dropped once, by whichever Dispose is first, the finalizer or,
\* when the borrow failed, the caller; and a GetSpan that comes after that reads
\* neither the memory nor the refusal byte.  Only a reader that was past its
\* check of _released when the manager was disposed of or collected may
\* (RustMemoryManager.cs:9-15, 49-57).
OwnerOutlivesUse == owner # "freed twice" /\ touched \subseteq overtaken

\* What the comment on ThrowIfUnusable says: the refusal byte is read only
\* while it is there (RustMemoryManager.cs:49-52).
RefusalByteThere ==
  \A t \in Readers : reading[t] = "revoked?" => ByteThere
=============================================================================
