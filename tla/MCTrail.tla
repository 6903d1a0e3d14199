------------------------------- MODULE MCTrail ------------------------------
(* Trail on three variables, with one reason of each shape. *)
EXTENDS Trail

MCReasons == {NoReason, [size |-> 2, lit |-> 1, ptr |-> 0]}

=============================================================================
