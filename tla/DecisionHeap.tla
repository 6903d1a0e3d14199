---------------------------- MODULE DecisionHeap -----------------------------
(***************************************************************************)
(* The heap from which a worker takes its decisions (src/src/heap.c), with *)
(* the calls src/src/azudici.c makes: the highest element is removed for a *)
(* decision, an element comes back when its variable is unassigned, and    *)
(* conflict analysis raises scores by a bonus that each conflict inflates. *)
(*                                                                         *)
(* A turn of a loop is a step.  While an element is on its way up or down  *)
(* its place (pos) is a hole that still holds a stale entry.  Scores are   *)
(* doubles: here they are integers with MaxScore for DBL_MAX, MaxScore + 1 *)
(* for infinity and Scale for DBL_MAX/20.                                  *)
(***************************************************************************)
EXTENDS Naturals

CONSTANTS
    NumElems,      \* the number of elements
    InitialBonus,  \* initialScoreBonus
    Inflation,     \* scoreBonusInflationFactor
    MaxScore,      \* the highest finite score
    Scale,         \* what scores are divided by when one overflows
    MaxBonus,      \* bound of a run: the bonus is not inflated further
    MaxRescales    \* bound of a run: nor are scores rescaled more often

ASSUME HeapAssumption ==
    /\ NumElems \in Nat \ {0}
    /\ InitialBonus \in Nat \ {0} /\ Inflation \in Nat \ {0}
    /\ MaxScore \in Nat /\ Scale \in Nat \ {0}
    /\ MaxBonus \in Nat /\ MaxRescales \in Nat

VARIABLES
    maxHeap,       \* the elements, from position 1
    heapPositions, \* the position of each element, 0 when it is not in the heap
    act,           \* the score of each element
    maxHeapLast,   \* the last position in use
    nTimes,        \* how often scores have been rescaled
    scoreBonus,    \* what the next score is raised by
    pc,            \* "ready", or the loop that is under way
    node,          \* the element on its way, 1 when there is none
    pos,           \* its place, 0 when there is none
    result         \* what remove_max is about to return, 0 when it is not running

vars == <<maxHeap, heapPositions, act, maxHeapLast, nTimes, scoreBonus, pc, node, pos, result>>

Elems == 1..NumElems
Infinity == MaxScore + 1

\* maxHeap_init: everything is in the heap, with score 0.
Init ==
    /\ maxHeap = [e \in Elems |-> e]
    /\ heapPositions = [e \in Elems |-> e]
    /\ act = [e \in Elems |-> 0]
    /\ maxHeapLast = NumElems
    /\ nTimes = 0
    /\ scoreBonus = InitialBonus
    /\ pc = "ready" /\ node = 1 /\ pos = 0 /\ result = 0

heap_nodeIsGreater(n1, n2) == act[n1] > act[n2]

heap_placeNode(n, p) ==
    /\ maxHeap' = [maxHeap EXCEPT ![p] = n]
    /\ heapPositions' = [heapPositions EXCEPT ![n] = p]

\* The element e sets out from place p.
SetOut(loop, e, p) ==
    /\ pc' = loop
    /\ node' = e
    /\ pos' = p

\* The loop is over: the element stays at p, if the heap is not empty.
Settle(p) ==
    /\ IF p <= maxHeapLast THEN heap_placeNode(node, p)
                           ELSE UNCHANGED <<maxHeap, heapPositions>>
    /\ pc' = "ready" /\ node' = 1 /\ pos' = 0 /\ result' = 0
-----------------------------------------------------------------------------
(* heap_percolateUp *)

\* Mutant: an element stops one level too early.
PercolateUp_NotToTop ==
    /\ pc = "up"
    /\ IF pos > 3 /\ ~heap_nodeIsGreater(maxHeap[pos \div 2], node)
       THEN /\ heap_placeNode(maxHeap[pos \div 2], pos)
            /\ pos' = pos \div 2
            /\ UNCHANGED <<pc, node, result>>
       ELSE Settle(pos)
    /\ UNCHANGED <<act, maxHeapLast, nTimes, scoreBonus>>

PercolateUp ==
    /\ pc = "up"
    /\ IF pos > 1 /\ ~heap_nodeIsGreater(maxHeap[pos \div 2], node)
       THEN /\ heap_placeNode(maxHeap[pos \div 2], pos)
            /\ pos' = pos \div 2
            /\ UNCHANGED <<pc, node, result>>
       ELSE Settle(pos)
    /\ UNCHANGED <<act, maxHeapLast, nTimes, scoreBonus>>
-----------------------------------------------------------------------------
(* maxHeap_remove_max *)

\* 0 for an empty heap: the worker has a model.
RemoveMaxEmpty ==
    /\ pc = "ready"
    /\ maxHeapLast = 0
    /\ UNCHANGED vars

\* The last element takes the first place and is to sink from there.
RemoveMax ==
    /\ pc = "ready"
    /\ maxHeapLast > 0
    /\ result' = maxHeap[1]
    /\ heapPositions' = [heapPositions EXCEPT ![maxHeap[1]] = 0]
    /\ maxHeapLast' = maxHeapLast - 1
    /\ SetOut("down", maxHeap[maxHeapLast], 1)
    /\ UNCHANGED <<maxHeap, act, nTimes, scoreBonus>>

\* Mutant: the right child is not looked at.
GreaterChild_Left(p) == 2 * p

\* The place of the greater child.
GreaterChild(p) ==
    IF 2 * p < maxHeapLast /\ heap_nodeIsGreater(maxHeap[2 * p + 1], maxHeap[2 * p])
    THEN 2 * p + 1
    ELSE 2 * p

Sink ==
    LET child == GreaterChild(pos)
    IN  /\ pc = "down"
        /\ IF 2 * pos <= maxHeapLast /\ ~heap_nodeIsGreater(node, maxHeap[child])
           THEN /\ heap_placeNode(maxHeap[child], pos)
                /\ pos' = child
                /\ UNCHANGED <<pc, node, result>>
           ELSE Settle(pos)
        /\ UNCHANGED <<act, maxHeapLast, nTimes, scoreBonus>>
-----------------------------------------------------------------------------
(* maxHeap_insert_element, called for every variable that is unassigned; for one
   that is in the heap it returns at once. *)

\* Mutant: without the look whether it is there.
InsertElement_Again(elem) ==
    /\ pc = "ready"
    /\ maxHeapLast < NumElems
    /\ maxHeapLast' = maxHeapLast + 1
    /\ maxHeap' = [maxHeap EXCEPT ![maxHeapLast + 1] = elem]
    /\ SetOut("up", elem, maxHeapLast + 1)
    /\ UNCHANGED <<heapPositions, act, nTimes, scoreBonus, result>>

InsertElement(elem) ==
    /\ pc = "ready"
    /\ heapPositions[elem] = 0
    /\ maxHeapLast' = maxHeapLast + 1
    /\ maxHeap' = [maxHeap EXCEPT ![maxHeapLast + 1] = elem]
    /\ SetOut("up", elem, maxHeapLast + 1)
    /\ UNCHANGED <<heapPositions, act, nTimes, scoreBonus, result>>
-----------------------------------------------------------------------------
(* azuDICI_increaseScore *)

\* heap_normalizeScores: every element but the last; infinity stays what it is.
Normalized(a) ==
    [e \in Elems |-> IF e < NumElems /\ a[e] # Infinity THEN a[e] \div Scale ELSE a[e]]

\* A sum of doubles.
Sum(x, y) == IF x + y > MaxScore THEN Infinity ELSE x + y

\* The score is added to after the rescaling, with the bonus that overflowed; only
\* then is the bonus reset.
IncreaseScore(elem) ==
    LET overflow == act[elem] + scoreBonus > MaxScore
        scores == IF overflow THEN Normalized(act) ELSE act
    IN  /\ pc = "ready"
        /\ overflow => nTimes < MaxRescales
        /\ act' = [scores EXCEPT ![elem] = Sum(@, scoreBonus)]
        /\ nTimes' = IF overflow THEN nTimes + 1 ELSE nTimes
        /\ scoreBonus' = IF overflow THEN InitialBonus ELSE scoreBonus
        /\ IF heapPositions[elem] # 0 THEN SetOut("up", elem, heapPositions[elem])
                                      ELSE UNCHANGED <<pc, node, pos>>
        /\ UNCHANGED <<maxHeap, heapPositions, maxHeapLast, result>>

\* The first line of azuDICI_conflict_analysis.
InflateBonus ==
    /\ pc = "ready"
    /\ scoreBonus * Inflation <= MaxBonus
    /\ scoreBonus' = scoreBonus * Inflation
    /\ UNCHANGED <<maxHeap, heapPositions, act, maxHeapLast, nTimes, pc, node, pos, result>>

Next ==
    \/ PercolateUp \/ Sink
    \/ RemoveMaxEmpty \/ RemoveMax
    \/ \E elem \in Elems : InsertElement(elem) \/ IncreaseScore(elem)
    \/ InflateBonus

Spec == Init /\ [][Next]_vars
-----------------------------------------------------------------------------
(* The heap with the element under way at its place. *)

Heap == IF pc = "ready" THEN maxHeap ELSE [maxHeap EXCEPT ![pos] = node]
Position == IF pc = "ready" \/ pos > maxHeapLast THEN heapPositions
                                               ELSE [heapPositions EXCEPT ![node] = pos]
Score(p) == act[Heap[p]]

\* The entries of the heap and the positions of the elements agree, also while an
\* element is under way: no element is lost or twice in the heap.
PositionsMatch ==
    /\ maxHeapLast \in 0..NumElems
    /\ \A p \in 1..maxHeapLast : Position[Heap[p]] = p
    /\ \A e \in Elems : Position[e] # 0 => /\ Position[e] <= maxHeapLast
                                          /\ Heap[Position[e]] = e

\* The heap order, between calls, until scores are rescaled for the first time.
HeapOrdered ==
    pc = "ready" /\ nTimes = 0 =>
       \A p \in 2..maxHeapLast : Score(p) <= Score(p \div 2)

\* heap_isCorrect, a check the program has and does not call.
heap_isCorrect ==
    \A p \in 1..maxHeapLast :
       /\ 2 * p <= maxHeapLast => act[maxHeap[p]] >= act[maxHeap[2 * p]]
       /\ 2 * p + 1 < maxHeapLast => act[maxHeap[p]] >= act[maxHeap[2 * p + 1]]

\* The heap passes the program's own check between calls: it does not once scores
\* have been rescaled.
AlwaysCorrect == pc = "ready" => heap_isCorrect

\* The heap serves as VarQueue says: the highest element first as long as no score
\* has been rescaled, and at any time a member, each as often as it was put in.
Queue == INSTANCE VarQueue WITH members <- {e \in Elems : Position[e] # 0},
                                score <- act, rescaled <- nTimes > 0,
                                served <- result
ServesHighest == Queue!Spec

=============================================================================
