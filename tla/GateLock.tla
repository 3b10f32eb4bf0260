------------------------------ MODULE GateLock ------------------------------
(***************************************************************************)
(* What Gate.cs promises its callers, with none of its mechanism: a lock   *)
(* one thread at a time is inside, whose entries are shared or exclusive.  *)
(* The thread inside may nest shared entries; an exclusive entry is the    *)
(* only entry there is.  Gate.tla is shown to implement this.              *)
(***************************************************************************)
EXTENDS Naturals

CONSTANT Threads

VARIABLES
  sharedIn,  \* shared entries each thread is inside
  exclIn     \* exclusive entries each thread is inside

Inside(t) == sharedIn[t] > 0 \/ exclIn[t] > 0

Init ==
  /\ sharedIn = [t \in Threads |-> 0]
  /\ exclIn = [t \in Threads |-> 0]

\* A shared entry, the first of its thread or nested in shared ones.
AdmitShared(t) ==
  /\ \A u \in Threads \ {t} : ~Inside(u)
  /\ exclIn[t] = 0
  /\ sharedIn' = [sharedIn EXCEPT ![t] = @ + 1]
  /\ UNCHANGED exclIn

\* An exclusive entry, given only while the gate is empty.
AdmitExclusive(t) ==
  /\ \A u \in Threads : ~Inside(u)
  /\ exclIn' = [exclIn EXCEPT ![t] = @ + 1]
  /\ UNCHANGED sharedIn

Depart(t) ==
  \/ /\ sharedIn[t] > 0
     /\ sharedIn' = [sharedIn EXCEPT ![t] = @ - 1]
     /\ UNCHANGED exclIn
  \/ /\ exclIn[t] > 0
     /\ exclIn' = [exclIn EXCEPT ![t] = @ - 1]
     /\ UNCHANGED sharedIn

Next ==
  \E t \in Threads : AdmitShared(t) \/ AdmitExclusive(t) \/ Depart(t)

Spec == Init /\ [][Next]_<<sharedIn, exclIn>>
=============================================================================
