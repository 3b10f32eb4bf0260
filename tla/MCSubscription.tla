--------------------------- MODULE MCSubscription ---------------------------
(* Subscription with two raises that may overlap. *)
EXTENDS Subscription
=============================================================================
