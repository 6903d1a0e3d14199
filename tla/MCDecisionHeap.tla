--------------------------- MODULE MCDecisionHeap ----------------------------
(* Instances of the decision heap: the constants are in the configurations. *)
EXTENDS DecisionHeap

=============================================================================
