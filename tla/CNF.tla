-------------------------------- MODULE CNF ---------------------------------
(***************************************************************************)
(* What a formula means.  Nothing here models code: it is the reference    *)
(* the answers and the lemmas of the solver are measured against.          *)
(***************************************************************************)
EXTENDS Literals

Clause == SUBSET Lits

\* An assignment is the set of the literals it makes true, one of each variable.
LitsOf(f) == {IF f[v] THEN v ELSE -v : v \in Vars}
Assignments == {LitsOf(f) : f \in [Vars -> BOOLEAN]}

Satisfies(A, c) == A \cap c # {}

ModelsOf(F) == {A \in Assignments : \A c \in F : Satisfies(A, c)}

\* Every model of F makes a literal of c true.
Follows(F, c) == \A A \in ModelsOf(F) : Satisfies(A, c)

=============================================================================
