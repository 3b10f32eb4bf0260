------------------------------- MODULE MCGate -------------------------------
(* Gate on three threads for safety, two for liveness. *)
EXTENDS Gate, TLC

Symmetry == Permutations(Threads)
=============================================================================
