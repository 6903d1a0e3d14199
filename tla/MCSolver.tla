------------------------------- MODULE MCSolver -------------------------------
(* Formulas and choices with which the solver is model-checked. *)
EXTENDS SolverTrails

\* The clauses of a formula in some order; the order is that of insertion.
InOrder(clauses) == FoldSet(LAMBDA c, s : Append(s, c), <<>>, clauses)

\* Every clause over 1, 2 and 3: unsatisfiable; and the same without {1, 2, 3}.
AllTernaries == {{1 * i, 2 * j, 3 * k} : i, j, k \in {-1, 1}}
AlmostAllTernaries == AllTernaries \ {{1, 2, 3}}

AllBinaries == {{1 * i, 2 * j} : i, j \in {-1, 1}}

\* Units that propagate through every kind of clause, and contradict in the second.
Chain == {{1}, {-1, 2}, {-1, -2, 3}, {-1, -2, -3, 4}}
BrokenChain == Chain \cup {{-4, -1}}

SmallFormulas == {InOrder(AllTernaries), InOrder(AlmostAllTernaries),
                  InOrder(AllBinaries), InOrder(Chain), InOrder(BrokenChain)}

\* Two units are learned, and the next cleanup shortens long clauses to ternaries and
\* binaries and drops those the units satisfy.
Shrinking == {{5, 6}, {5, -6}, {4, 6}, {4, -6}, {-5, 1, 2, 3}, {-5, -4, 1, 2},
              {-5, -4, -1, -2}, {-5, 1, -2, -3}, {5, 1, 2, 3}, {-4, -1, 2, 3, 6}}

\* Lemmas of four and five literals.
LongLemmas == {{1, 2, 3, 4, 5, 6}, {1, 2, 3, 4, 5, -6}, {1, 2, 3, 4, -5, 6},
               {1, 2, 3, 4, -5, -6}, {1, 2, 3, -4}, {1, 2, -3}, {1, -2}, {-1, 2, 3, 4, 5}}

LongFormulas == {InOrder(Shrinking), InOrder(LongLemmas)}

\* No unit to learn: lemmas of four, three, two and three literals, then a model.
NoUnits == UNION {{{1, 2, 3, 4, 5 * i}, {1, 2, -4, 5 * i}, {1, 2, 5, 6 * i},
                   {1, 2, -5, 6 * i}} : i \in {-1, 1}}
NoUnitsFormula == {InOrder(NoUnits)}

TernariesFormula == {InOrder(AllTernaries)}

\* The answer depends on a clause without literals.
EmptyClauseFormula == {<<{}, {1, 2}>>}

\* Workers that first try false learn {1, 2, 3}; those that first try true, the
\* clause of the three negations.
PhaseDependent == {{1, 2, 3, 4 * i} : i \in {-1, 1}}
                  \cup {{-1, -2, -3, 4 * i} : i \in {-1, 1}}
PhaseDependentFormula == {InOrder(PhaseDependent)}

\* What malloc may leave in the phases, and orders in which the heap may serve.
AllPhases == [Vars -> BOOLEAN]
Negative == {[v \in Vars |-> FALSE]}
PhaseExtremes == {[v \in Vars |-> FALSE], [v \in Vars |-> TRUE]}
AllOrders == {o \in [Vars -> Vars] : \A u, v \in Vars : u # v => o[u] # o[v]}
OneOrder == {[v \in Vars |-> N - v]}
Rotations == {[v \in Vars |-> (v + k) % N] : k \in {0, 3}}
             \cup {[v \in Vars |-> (N - v + 1) % N]}

OneWorker == {0}
TwoWorkers == {0, 1}

=============================================================================
