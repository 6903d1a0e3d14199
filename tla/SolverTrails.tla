----------------------------- MODULE SolverTrails -----------------------------
(***************************************************************************)
(* The model of every worker seen as the trail of module Trail.            *)
(***************************************************************************)
EXTENDS SolverProperties

\* The worker pops: it analyses a conflict, or jumps back to a level it has not reached.
Popping(w) ==
    \/ ad[w].pc \in {"mark", "pop", "lemma", "shorten"}
    \/ Unwinding(w) /\ ad[w].model.decisionLvl > Target(ad[w])

\* The reasons propagation gives; of tDB and of thcdb, the first MaxEntry places.
MaxEntry == 5 * N
GivenReasons ==
    {NoReason} \cup [size : {2}, lit : Lits, ptr : {0}]
    \cup [size : 3..N, lit : {ZeroLit}, ptr : 1..MaxEntry]

TrailOf(w) ==
    INSTANCE Trail WITH
       m <- ad[w].model,
       unwinding <- Popping(w),
       handed <- [k \in Kinds |-> {ad[w].model.stack[i] :
                                     i \in 1..Min({ad[w].model.last[k] + 1,
                                                Len(ad[w].model.stack)})}
                                  \ {DlMarker}],
       Reasons <- GivenReasons

\* Every worker uses its model as module Trail says: nothing is set that is not
\* undefined, no decision taken before propagation is complete, and popping never
\* stops within a level.  What is proved of Trail then holds of every worker.
FollowsTrail ==
    /\ \A w \in Workers : TrailOf(w)!Init
    /\ [][\A w \in Workers : [TrailOf(w)!Next]_(TrailOf(w)!vars)]_vars

=============================================================================
