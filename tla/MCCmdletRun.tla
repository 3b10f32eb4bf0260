---------------------------- MODULE MCCmdletRun -----------------------------
(* CmdletRun with two stopping threads, three wakers and one record. *)
EXTENDS CmdletRun
=============================================================================
