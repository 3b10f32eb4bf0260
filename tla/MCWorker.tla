------------------------------ MODULE MCWorker ------------------------------
(* Worker with two threads and two items. *)
EXTENDS Worker
=============================================================================
