------------------------------- MODULE Search --------------------------------
(***************************************************************************)
(* What the solver promises, with nothing of how it searches: workers that *)
(* share a growing set of clauses, fix literals for good, and answer once. *)
(* Nothing is learned or fixed that does not follow from the problem, and  *)
(* an answer is final and right.                                           *)
(***************************************************************************)
EXTENDS CNF

CONSTANT Workers

VARIABLES
    problem, \* the clauses of the input
    known,   \* the clauses somebody has read or learned
    fixed,   \* the literals each worker will never give up
    answer,  \* 0, or what a worker answers: 10 satisfiable, 20 unsatisfiable
    shown    \* the model that comes with the answer 10

vars == <<problem, known, fixed, answer, shown>>

Init ==
    /\ problem \subseteq Clause
    /\ known = {}
    /\ fixed = [w \in Workers |-> {}]
    /\ answer = [w \in Workers |-> 0]
    /\ shown = [w \in Workers |-> {}]

Entailed(c) == \A A \in ModelsOf(problem) : Satisfies(A, c)

Read ==
    /\ \E c \in problem : known' = known \cup {c}
    /\ UNCHANGED <<problem, fixed, answer, shown>>

\* A worker learns clauses, fixes literals, or both.
Infer(w) ==
    /\ answer[w] = 0
    /\ known \subseteq known'
    /\ \A c \in known' \ known : Entailed(c)
    /\ fixed[w] \subseteq fixed'[w]
    /\ \A l \in fixed'[w] \ fixed[w] : Entailed({l})
    /\ fixed' = [fixed EXCEPT ![w] = fixed'[w]]
    /\ UNCHANGED <<problem, answer, shown>>

AnswerSat(w) ==
    /\ answer[w] = 0
    /\ answer' = [answer EXCEPT ![w] = 10]
    /\ \E A \in ModelsOf(problem) : /\ fixed[w] \subseteq A
                                    /\ shown' = [shown EXCEPT ![w] = A]
    /\ UNCHANGED <<problem, known, fixed>>

AnswerUnsat(w) ==
    /\ answer[w] = 0
    /\ ModelsOf(problem) = {}
    /\ answer' = [answer EXCEPT ![w] = 20]
    /\ UNCHANGED <<problem, known, fixed, shown>>

Next == Read \/ \E w \in Workers : Infer(w) \/ AnswerSat(w) \/ AnswerUnsat(w)

Spec == Init /\ [][Next]_vars

=============================================================================
