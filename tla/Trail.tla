------------------------------- MODULE Trail --------------------------------
(***************************************************************************)
(* The model of one worker, driven by the calls src/src/azudici.c makes of *)
(* src/src/model.c and in the order it can make them: literals are set     *)
(* true and handed out for propagation, binary clauses first; a decision   *)
(* only when all three cursors are at the top; and popping, once begun,    *)
(* ends only when a marker has been popped (conflict analysis pops part of *)
(* the last level, backjumping the rest and perhaps whole levels below).   *)
(***************************************************************************)
EXTENDS Model

CONSTANT Reasons \* the reasons propagation gives, and NoReason

ASSUME ReasonsAssumption == Reasons \subseteq Reason /\ NoReason \in Reasons

VARIABLES
    m,         \* the model
    unwinding, \* TRUE while the worker pops, or is to
    handed     \* history: for each kind, the literals of the stack handed out

vars == <<m, unwinding, handed>>

Init ==
    /\ \E phase \in [Vars -> BOOLEAN] : m = ModelInit(phase)
    /\ unwinding = FALSE
    /\ handed = [k \in Kinds |-> {}]

\* set_true_units and the level-0 lemmas use a reason of size 1, at level 0 only.
SetTrue(l, r) ==
    /\ ~unwinding
    /\ IsUndef(m, l)
    /\ r.size = 1 => m.decisionLvl = 0
    /\ m' = SetTrueWithReason(m, l, r)
    /\ UNCHANGED <<unwinding, handed>>

\* Mutant: decides with literals left for the longer clauses.
Decide_TooEarly(l) ==
    /\ ~unwinding
    /\ ~HasNext(m, "binary")
    /\ IsUndef(m, l)
    /\ m' = SetTrueDecision(m, l)
    /\ UNCHANGED <<unwinding, handed>>

Decide(l) ==
    /\ ~unwinding
    /\ FullyPropagated(m)
    /\ IsUndef(m, l)
    /\ m' = SetTrueDecision(m, l)
    /\ UNCHANGED <<unwinding, handed>>

\* The kinds propagation serves before kind k.
Before(k) == CASE k = "binary" -> {}
               [] k = "ternary" -> {"binary"}
               [] k = "nary" -> {"binary", "ternary"}

HandOut(k) ==
    /\ ~unwinding
    /\ \A j \in Before(k) : ~HasNext(m, j)
    /\ HasNext(m, k)
    /\ m' = Advance(m, k)
    /\ handed' = [handed EXCEPT ![k] = @ \cup {NextLit(m, k)}]
    /\ UNCHANGED unwinding

\* A conflict, or a restart or a cleanup above level 0.
StartUnwinding ==
    /\ ~unwinding
    /\ m.decisionLvl > 0
    /\ unwinding' = TRUE
    /\ UNCHANGED <<m, handed>>

\* Mutant: the loops go on to the bottom of the stack.
Pop_LevelZero ==
    /\ unwinding
    /\ m.stack # <<>>
    /\ m' = PopAndSetUndef(m)
    /\ unwinding' \in {TRUE, Top(m) # DlMarker}
    /\ handed' = [k \in Kinds |-> handed[k] \ {Top(m)}]

\* azuDICI_conflict_analysis and azuDICI_backjump_to_dl, which may stop when a marker
\* has been popped.
Pop ==
    /\ unwinding
    /\ m.decisionLvl > 0
    /\ m' = PopAndSetUndef(m)
    /\ unwinding' \in {TRUE, Top(m) # DlMarker}
    /\ handed' = [k \in Kinds |-> handed[k] \ {Top(m)}]

Next ==
    \/ \E l \in Lits, r \in Reasons : SetTrue(l, r)
    \/ \E l \in Lits : Decide(l)
    \/ \E k \in Kinds : HandOut(k)
    \/ StartUnwinding \/ Pop

Spec == Init /\ [][Next]_vars
-----------------------------------------------------------------------------
TypeOK ==
    /\ m \in ModelType
    /\ unwinding \in BOOLEAN
    /\ handed \in [Kinds -> SUBSET (Lits \cup {DlMarker})]

\* The stack, the values, the levels and the decision test of model.c agree
\* after any sequence of calls.
Consistent == TrailConsistent(m)

\* Moving the cursors to the top when a marker is popped skips nothing: whenever
\* the worker propagates or decides, every literal at or under a cursor has been
\* handed out for that kind of clause since it was last set true.
NothingSkipped ==
    ~unwinding =>
       \A k \in Kinds :
          /\ m.last[k] \in -1..(Len(m.stack) - 1)
          /\ \A i \in 1..(m.last[k] + 1) :
                m.stack[i] # DlMarker => m.stack[i] \in handed[k]

\* A marker always carries the literal decided on it, the cursors of a worker that
\* propagates have passed every marker, and what is under a marker has been handed
\* out for every kind: only the last level is ever partly propagated.
NoBareMarker ==
    /\ \A i \in 1..(Len(m.stack) - 1) :
          m.stack[i] = DlMarker => m.stack[i + 1] # DlMarker
    /\ ~unwinding /\ Len(m.stack) > 0 => Top(m) # DlMarker
MarkersPassed ==
    ~unwinding => \A k \in Kinds, i \in 1..Len(m.stack) :
                     m.stack[i] = DlMarker => i <= m.last[k] + 1
UnderMarkersHanded ==
    \A k \in Kinds, i \in 1..Len(m.stack) :
       m.stack[i] = DlMarker =>
          \A j \in 1..(i - 1) : m.stack[j] # DlMarker => m.stack[j] \in handed[k]
LowerLevelsPropagated == NoBareMarker /\ MarkersPassed /\ UnderMarkersHanded

\* The literals handed out are literals: propagation is never called with the
\* marker of a decision level.
OnlyLiteralsHandedOut == \A k \in Kinds : DlMarker \notin handed[k]

\* Literals set at level 0 are consequences of the formula and are never
\* unassigned again, however the levels above are undone.
LevelZeroKept ==
    [][\A l \in Lits : IsTrue(m, l) /\ LitDl(m, l) = 0
          => m'.value[l] = "true" /\ m'.level[var(l)] = 0]_vars

=============================================================================
