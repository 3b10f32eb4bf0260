------------------------------ MODULE MCLoader ------------------------------
(* Loader with three loads over two shells. *)
EXTENDS Loader
=============================================================================
