------------------------------ MODULE VarQueue -------------------------------
(***************************************************************************)
(* What the decision heap promises (src/src/heap.h): a set of elements     *)
(* with scores, of which the one with the highest score is served first.   *)
(* The promise about the order ends when scores have been rescaled.        *)
(***************************************************************************)
EXTENDS Naturals

CONSTANT NumElems

Elems == 1..NumElems

VARIABLES
    members,  \* the elements waiting to be served
    score,    \* their scores, which members keep when they leave
    rescaled, \* scores have been rescaled
    served    \* the element being served, 0 for none

vars == <<members, score, rescaled, served>>

Init ==
    /\ members = Elems
    /\ score = [e \in Elems |-> 0]
    /\ rescaled = FALSE
    /\ served = 0

\* No other member has a higher score.
IsHighest(e) == \A f \in members : score[f] <= score[e]

Serve(e) ==
    /\ e \in members
    /\ rescaled \/ IsHighest(e)
    /\ served' = e
    /\ members' = members \ {e}
    /\ UNCHANGED <<score, rescaled>>

HandOver ==
    /\ served' = 0
    /\ UNCHANGED <<members, score, rescaled>>

Insert(e) ==
    /\ members' = members \cup {e}
    /\ UNCHANGED <<score, rescaled, served>>

Raise(e) ==
    /\ score' \in [Elems -> Nat]
    /\ \A f \in Elems \ {e} : score'[f] = score[f]
    /\ score'[e] > score[e]
    /\ UNCHANGED <<members, rescaled, served>>

\* Scores are brought down, and whatever they were, the order is up in the air.
Rescale ==
    /\ rescaled' = TRUE
    /\ score' \in [Elems -> Nat]
    /\ UNCHANGED <<members, served>>

Next == (\E e \in Elems : Serve(e) \/ Insert(e) \/ Raise(e)) \/ HandOver \/ Rescale

Spec == Init /\ [][Next]_vars

=============================================================================
