---------------------------- MODULE MCProxyCore -----------------------------
(* ProxyCore in two shapes: two objects whose calls do not nest, and one      *)
(* object whose calls nest and whose module is reloaded.                      *)
EXTENDS ProxyCore

VARIABLE shape

Flat == /\ \A t \in Threads : Len(stack[t]) <= 1
        /\ \A o \in Objects : bytes[o] = 0
        /\ generation = 1
OneObject == \A o \in Objects : made[o] > 0 => \A p \in Objects : o <= p
Bound == IF shape = "flat" THEN Flat ELSE OneObject

ShapedInit == Init /\ shape \in {"flat", "nested"}
ShapedNext == Next /\ UNCHANGED shape /\ Bound'

ShapedSpec ==
  /\ ShapedInit
  /\ [][ShapedNext]_<<vars, shape>>
  /\ \A t \in Threads : WF_vars(CallStep(t))
=============================================================================
