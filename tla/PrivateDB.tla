------------------------------ MODULE PrivateDB ------------------------------
(***************************************************************************)
(* What the shared clause database promises to workers that bring the same *)
(* lemmas in the same order: each sees the input clauses and its own       *)
(* lemmas, in the order in which it brought them, as if the database were  *)
(* its own.  This is what azuDICI_propagate relies on.                     *)
(***************************************************************************)
EXTENDS ClauseDB

CONSTANTS
    Inputs, \* the clauses the parser has inserted, each a set of literals
    Lemmas  \* the clauses every worker brings, each a sequence of literals

VARIABLES
    done, \* how many lemmas each worker has brought
    seen  \* what each worker sees of the database

vars == <<done, seen>>

\* The clauses propagation reaches: the units, the binaries of a literal, the
\* ternaries of a literal, and the longer clauses.
ViewType == [units : Seq(Lits), bins : [Lits -> Seq(Lits)],
             ternaries : [Lits -> Seq(Clause)], naries : Seq(Clause)]

\* A database nobody shares, all of it in sight.
WholeView(db) ==
    [units |-> db.uDB, bins |-> db.bDB,
     ternaries |-> [l \in Lits |-> [i \in DOMAIN db.ternaryWatches[l] |->
                                       db.tDB[db.ternaryWatches[l][i]].lits]],
     naries |-> [i \in DOMAIN db.nDB |-> db.nDB[i].lits]]

WithLemma(view, c) ==
    CASE Len(c) = 1 -> [view EXCEPT !.units = Append(@, c[1])]
      [] Len(c) = 2 -> [view EXCEPT !.bins[-c[1]] = Append(@, c[2]),
                                    !.bins[-c[2]] = Append(@, c[1])]
      [] Len(c) = 3 -> [view EXCEPT !.ternaries = [l \in Lits |->
                            IF l \in ToSet(c) THEN Append(@[l], ToSet(c)) ELSE @[l]]]
      [] Len(c) > 3 -> [view EXCEPT !.naries = Append(@, ToSet(c))]

Init ==
    /\ done = [w \in Workers |-> 0]
    /\ seen = [w \in Workers |-> WholeView(InputDB(Inputs))]

Bring(w) ==
    /\ done[w] < Len(Lemmas)
    /\ done' = [done EXCEPT ![w] = @ + 1]
    /\ seen' = [seen EXCEPT ![w] = WithLemma(@, Lemmas[done[w] + 1])]

Next == \E w \in Workers : Bring(w)

Spec == Init /\ [][Next]_vars

=============================================================================
