---------------------------- MODULE Transactions ----------------------------
(***************************************************************************)
(* Rust resources enlisted in a PowerShell transaction: PsTransaction of   *)
(* crates/pwrs/src/transaction.rs and RustEnlistment of                    *)
(* Pwrs.Runtime/Transactions.cs.  Commands enlist, Complete-Transaction    *)
(* prepares and commits, and Undo-Transaction or a timeout rolls back,     *)
(* each on a thread of its own.                                            *)
(*                                                                         *)
(* The transaction manager is .NET's.  It prepares one enlistment after    *)
(* another, sends an enlistment its outcome once that one is not           *)
(* preparing, and sends nothing more to one that forced the rollback.      *)
(***************************************************************************)

CONSTANT Resources \* the enlistments commands make

VARIABLES
  tx,       \* "active", "preparing", "committing" or "aborting"
  maker,    \* where each enlist call is
  manager,  \* what the manager has of each enlistment
  reply,    \* where each Prepare is
  resource  \* the Rust value behind each context

vars == <<tx, maker, manager, reply, resource>>

Init ==
  /\ tx = "active"
  /\ maker = [r \in Resources |-> "before"]
  /\ manager = [r \in Resources |-> "nothing"]
  /\ reply = [r \in Resources |-> "none"]
  /\ resource = [r \in Resources |-> "none"]

\* End: the exchange of _context leaves the native end to the first caller.
End(r, how) ==
  resource' = [resource EXCEPT ![r] = IF @ = "live" THEN how ELSE @]

-----------------------------------------------------------------------------
(* PsTransaction::enlist and transaction_enlist *)

Box(r) ==
  /\ maker[r] = "before"
  /\ maker' = [maker EXCEPT ![r] = "enlisting"]
  /\ resource' = [resource EXCEPT ![r] = "live"]
  /\ UNCHANGED <<tx, manager, reply>>

\* A transaction that has ended refuses the enlistment.
EnlistVolatile(r) ==
  /\ maker[r] = "enlisting"
  /\ IF tx = "active"
     THEN /\ maker' = [maker EXCEPT ![r] = "enlisted"]
          /\ manager' = [manager EXCEPT ![r] = "enlisted"]
     ELSE /\ maker' = [maker EXCEPT ![r] = "refused"]
          /\ UNCHANGED manager
  /\ UNCHANGED <<tx, reply, resource>>

\* The box goes without a look at what the enlistment has done with it.
DropRefused(r) ==
  IF maker[r] = "refused"
  THEN resource' = [resource EXCEPT ![r] = IF @ = "live" THEN "dropped" ELSE "used freed"]
  ELSE UNCHANGED resource

EnlistReturns(r) ==
  /\ maker[r] \in {"enlisted", "refused"}
  /\ maker' = [maker EXCEPT ![r] = "returned"]
  /\ DropRefused(r)
  /\ UNCHANGED <<tx, manager, reply>>

-----------------------------------------------------------------------------
(* The transaction manager *)

Complete ==
  /\ tx = "active"
  /\ tx' = "preparing"
  /\ UNCHANGED <<maker, manager, reply, resource>>

\* Undo-Transaction, or a timeout, which also comes while it prepares.
Abort ==
  /\ tx \in {"active", "preparing"}
  /\ tx' = "aborting"
  /\ UNCHANGED <<maker, manager, reply, resource>>

SendPrepare(r) ==
  /\ tx = "preparing"
  /\ manager[r] = "enlisted"
  /\ \A s \in Resources : manager[s] # "preparing"
  /\ manager' = [manager EXCEPT ![r] = "preparing"]
  /\ reply' = [reply EXCEPT ![r] = "native"]
  /\ UNCHANGED <<tx, maker, resource>>

Decide ==
  /\ tx = "preparing"
  /\ \A r \in Resources : manager[r] \in {"nothing", "prepared"}
  /\ tx' = "committing"
  /\ UNCHANGED <<maker, manager, reply, resource>>

-----------------------------------------------------------------------------
(* RustEnlistment *)

\* The native prepare lets the resource commit, fails, or panics.
Prepare(r) ==
  /\ reply[r] = "native"
  /\ reply' = [reply EXCEPT ![r] = IF resource[r] = "live" THEN "ok" ELSE "freed"]
  /\ UNCHANGED <<tx, maker, manager, resource>>

PrepareRefused(r) ==
  /\ reply[r] = "native"
  /\ reply' = [reply EXCEPT ![r] = "refused"]
  /\ UNCHANGED <<tx, maker, manager, resource>>

Prepared(r) ==
  /\ reply[r] = "ok"
  /\ reply' = [reply EXCEPT ![r] = "done"]
  /\ manager' = [manager EXCEPT ![r] = "prepared"]
  /\ UNCHANGED <<tx, maker, resource>>

LeaveToManager(r) == UNCHANGED resource
EndRefused(r) == End(r, "rolled back")

\* The enlistment that refuses ends its resource itself, before the manager
\* hears of the refusal.
EndsItself(r) ==
  /\ reply[r] = "refused"
  /\ reply' = [reply EXCEPT ![r] = "force"]
  /\ EndRefused(r)
  /\ UNCHANGED <<tx, maker, manager>>

AnsweredPrepared(r) ==
  /\ manager' = [manager EXCEPT ![r] = "prepared"]
  /\ UNCHANGED tx
AnsweredForceRollback(r) ==
  /\ manager' = [manager EXCEPT ![r] = "gone"]
  /\ tx' = "aborting"

ForceRollback(r) ==
  /\ reply[r] = "force"
  /\ reply' = [reply EXCEPT ![r] = "done"]
  /\ AnsweredForceRollback(r)
  /\ UNCHANGED <<maker, resource>>

Commit(r) ==
  /\ tx = "committing"
  /\ manager[r] = "prepared"
  /\ manager' = [manager EXCEPT ![r] = "gone"]
  /\ End(r, "committed")
  /\ UNCHANGED <<tx, maker, reply>>

Rollback(r) ==
  /\ tx = "aborting"
  /\ manager[r] \in {"enlisted", "prepared"}
  /\ manager' = [manager EXCEPT ![r] = "gone"]
  /\ End(r, "rolled back")
  /\ UNCHANGED <<tx, maker, reply>>

-----------------------------------------------------------------------------

EnlistStep(r) == EnlistVolatile(r) \/ EnlistReturns(r)
ManagerStep == Decide \/ \E r \in Resources : SendPrepare(r) \/ Commit(r) \/ Rollback(r)
PrepareStep(r) ==
  Prepare(r) \/ PrepareRefused(r) \/ Prepared(r) \/ EndsItself(r) \/ ForceRollback(r)

Next ==
  \/ Complete \/ Abort \/ ManagerStep
  \/ \E r \in Resources : Box(r) \/ EnlistStep(r) \/ PrepareStep(r)

\* A call goes on to its end, a prepare returns, and the manager sends what it
\* has to send.  Nothing makes anyone enlist, or complete or undo the transaction.
Fairness ==
  /\ WF_vars(ManagerStep)
  /\ \A r \in Resources : WF_vars(EnlistStep(r)) /\ WF_vars(PrepareStep(r))

FairSpec == Init /\ [][Next]_vars /\ Fairness

-----------------------------------------------------------------------------
(* Properties *)

\* No resource commits in a transaction that another one rolled back, refused
\* to prepare for, or was not prepared in (transaction.rs:45-55).
AllOrNothing ==
  (\E r \in Resources : resource[r] = "committed") =>
    \A r \in Resources : manager[r] # "nothing" => resource[r] \in {"live", "committed"}

\* Once the transaction is completed or undone, every resource some command
\* offered it is given back, once: by the end the manager sends, by the refusal
\* or by the enlist call.  Nothing calls into it after that, a timeout that
\* comes in the middle of a prepare included (Transactions.cs:73-80,
\* transaction.rs:54-55).
EachEndsOnce ==
  tx # "active" ~>
    [](\A r \in Resources : resource[r] \notin {"live", "used freed"} /\ reply[r] # "freed")
=============================================================================
