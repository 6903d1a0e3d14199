------------------------------ MODULE Literals ------------------------------
(***************************************************************************)
(* Literals and their numbering (src/src/literal.c, src/src/var.c).  A     *)
(* literal is a non-zero integer, positive for the variable, negative for  *)
(* its negation; 0 is the end-of-clause mark of the parser, the answer     *)
(* "no literal" of the search and the decision-level marker of the trail.  *)
(***************************************************************************)
EXTENDS Integers

CONSTANT N \* cdb->numVars, read from the header of the input

\* The header announces at least one variable.
ASSUME NumVarsAssumption == N \in Nat \ {0}

Vars == 1..N
Lits == (-N..N) \ {0}
ZeroLit == 0

var(l) == IF l < 0 THEN -l ELSE l

LitIsPositive(l) == l >= 0

\* Index of a literal in every per-literal array (assignment, bDB, ternaryWatches,
\* watches, lastBinariesAdded).
LitAsUint(l) == IF l < 0 THEN -l * 2 ELSE l * 2 + 1

=============================================================================
