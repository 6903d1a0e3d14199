------------------------------- MODULE Model --------------------------------
(***************************************************************************)
(* The partial model a worker searches with (src/src/model.c): a stack of  *)
(* literals cut into decision levels by markers, the value of every        *)
(* literal, what is remembered of every variable (vinfo), and one cursor   *)
(* per kind of clause that says how far propagation has gone.              *)
(*                                                                         *)
(* A model is a record, each function of model.c an operator on it; the    *)
(* state machines that use them are Trail and AzuDICI.  Heights and        *)
(* cursors keep the C numbering, where the bottom of the stack is 0: the   *)
(* literal at height h is m.stack[h + 1].                                  *)
(***************************************************************************)
EXTENDS Literals, Sequences, FiniteSets

DlMarker == ZeroLit

\* The three cursors last2propagated, last3propagated and lastNpropagated.
Kinds == {"binary", "ternary", "nary"}

Values == {"true", "false", "undef"}

\* Reason: a clause of size 1 is no clause at all (a decision, or a literal set
\* at level 0); lit is binLit; ptr stands for tClPtr (an index of tDB) when size
\* is 3 and for thNClPtr (an index of thcdb) when it is larger; 0 is NULL.
Reason == [size : Nat, lit : Lits \cup {ZeroLit}, ptr : Nat]
NoReason == [size |-> 1, lit |-> ZeroLit, ptr |-> 0]

ModelType ==
    [stack : Seq(Lits \cup {DlMarker}), value : [Lits -> Values],
     reason : [Vars -> Reason], level : [Vars -> Nat], height : [Vars -> Nat],
     phase : [Vars -> BOOLEAN], decisionLvl : Nat, last : [Kinds -> Nat \cup {-1}]]

\* vinfo is malloc'ed and not written: the only part of it that is read before a
\* variable is first assigned is last_phase, whose initial value is the argument.
ModelInit(phase) ==
    [stack |-> <<>>, value |-> [l \in Lits |-> "undef"],
     reason |-> [v \in Vars |-> NoReason], level |-> [v \in Vars |-> 0],
     height |-> [v \in Vars |-> 0], phase |-> phase,
     decisionLvl |-> 0, last |-> [k \in Kinds |-> -1]]
-----------------------------------------------------------------------------
IsTrue(m, l) == m.value[l] = "true"
IsFalse(m, l) == m.value[l] = "false"
IsUndef(m, l) == m.value[l] = "undef"
IsUndefVar(m, v) == m.value[v] = "undef"
LitDl(m, l) == m.level[var(l)]
LitHeight(m, l) == m.height[var(l)]
LitIsOfCurrentDl(m, l) == m.level[var(l)] = m.decisionLvl
ReasonOfLit(m, l) == m.reason[var(l)]
LitIsDecision(m, l) == ReasonOfLit(m, l).size = 1 /\ LitDl(m, l) > 0

SetTrueWithReason(m, l, r) ==
    [m EXCEPT !.stack = Append(@, l),
              !.value = [@ EXCEPT ![l] = "true", ![-l] = "false"],
              !.reason[var(l)] = r,
              !.level[var(l)] = m.decisionLvl,
              !.height[var(l)] = Len(m.stack),
              !.phase[var(l)] = LitIsPositive(l)]

\* Mutant: the cursors stay under the marker.
SetTrueDecision_CursorsKept(m, l) ==
    SetTrueWithReason([m EXCEPT !.decisionLvl = @ + 1, !.stack = Append(@, DlMarker)],
                      l, NoReason)

\* Each cursor moves by one, over the marker: it must have been on the top.
SetTrueDecision(m, l) ==
    SetTrueWithReason([m EXCEPT !.decisionLvl = @ + 1,
                                !.last = [k \in Kinds |-> m.last[k] + 1],
                                !.stack = Append(@, DlMarker)],
                      l, NoReason)

Top(m) == m.stack[Len(m.stack)]

\* Mutants of PopAndSetUndef: the cursors reset to one below the top, or not reset
\* at all; the negation of the popped literal left false.
PopAndSetUndef_BelowTop(m) ==
    LET popped == [m EXCEPT !.stack = SubSeq(@, 1, Len(@) - 1)]
    IN  IF Top(m) = DlMarker
        THEN [popped EXCEPT !.decisionLvl = @ - 1,
                            !.last = [k \in Kinds |-> Len(m.stack) - 3]]
        ELSE [popped EXCEPT !.value = [@ EXCEPT ![Top(m)] = "undef",
                                                ![-Top(m)] = "undef"]]

PopAndSetUndef_CursorsKept(m) ==
    LET popped == [m EXCEPT !.stack = SubSeq(@, 1, Len(@) - 1)]
    IN  IF Top(m) = DlMarker
        THEN [popped EXCEPT !.decisionLvl = @ - 1]
        ELSE [popped EXCEPT !.value = [@ EXCEPT ![Top(m)] = "undef",
                                                ![-Top(m)] = "undef"]]

PopAndSetUndef_NegationKept(m) ==
    LET popped == [m EXCEPT !.stack = SubSeq(@, 1, Len(@) - 1)]
    IN  IF Top(m) = DlMarker
        THEN [popped EXCEPT !.decisionLvl = @ - 1,
                            !.last = [k \in Kinds |-> Len(m.stack) - 2]]
        ELSE [popped EXCEPT !.value[Top(m)] = "undef"]

\* Popping a literal leaves the cursors alone, even above the new top; only
\* popping a marker moves them, to the top.
PopAndSetUndef(m) ==
    LET popped == [m EXCEPT !.stack = SubSeq(@, 1, Len(@) - 1)]
    IN  IF Top(m) = DlMarker
        THEN [popped EXCEPT !.decisionLvl = @ - 1,
                            !.last = [k \in Kinds |-> Len(m.stack) - 2]]
        ELSE [popped EXCEPT !.value = [@ EXCEPT ![Top(m)] = "undef",
                                                ![-Top(m)] = "undef"]]

HasNext(m, k) == m.last[k] # Len(m.stack) - 1
NextLit(m, k) == m.stack[m.last[k] + 2]
Advance(m, k) == [m EXCEPT !.last[k] = @ + 1]
FullyPropagated(m) == \A k \in Kinds : ~HasNext(m, k)
-----------------------------------------------------------------------------
(* What the operators maintain, stated once for the machines that use them. *)

\* The stack and the values say the same: a literal of the stack is true, its
\* negation false, and its variable remembers where it is; nothing else is assigned.
StackMatchesValues(m) ==
    /\ \A l \in Lits : IsTrue(m, l) <=> IsFalse(m, -l)
    /\ \A i \in 1..Len(m.stack) :
          m.stack[i] # DlMarker => /\ IsTrue(m, m.stack[i])
                                   /\ LitHeight(m, m.stack[i]) = i - 1
    /\ \A l \in Lits : IsTrue(m, l) => /\ LitHeight(m, l) < Len(m.stack)
                                       /\ m.stack[LitHeight(m, l) + 1] = l

MarkersBelow(m, i) == {j \in 1..(i - 1) : m.stack[j] = DlMarker}

\* The remembered level of a literal is the number of markers under it, and
\* decision_lvl is their number.
LevelsCountMarkers(m) ==
    /\ m.decisionLvl = Cardinality(MarkersBelow(m, Len(m.stack) + 1))
    /\ \A i \in 1..Len(m.stack) :
          m.stack[i] # DlMarker
             => LitDl(m, m.stack[i]) = Cardinality(MarkersBelow(m, i))

\* model_lit_is_decision, which looks only at the reason and the level, finds
\* exactly the literals that stand on a marker.
DecisionsStandOnMarkers(m) ==
    \A i \in 1..Len(m.stack) :
       m.stack[i] # DlMarker
          => (LitIsDecision(m, m.stack[i]) <=> i > 1 /\ m.stack[i - 1] = DlMarker)

TrailConsistent(m) ==
    StackMatchesValues(m) /\ LevelsCountMarkers(m) /\ DecisionsStandOnMarkers(m)

=============================================================================
