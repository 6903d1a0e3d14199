------------------------------ MODULE ListWalks ------------------------------
(***************************************************************************)
(* The lists of watched clauses as the solver's reader thinks of them, and *)
(* as module AzuDICI has them: a sequence of clauses for each literal.  A  *)
(* walk through the list of a literal visits each clause that was in it,   *)
(* once and in order, although some of them are moved to other lists.      *)
(***************************************************************************)
EXTENDS Literals, SequencesExt

VARIABLES
    watched,  \* the two watched literals of each clause, a set
    lists,    \* the list of each literal
    visiting, \* the literal whose list is walked through, or ZeroLit
    todo      \* the clauses the walk has still to visit

vars == <<watched, lists, visiting, todo>>

\* Clauses are linked in one by one, each at the head.
Listed(pairs) ==
    [l \in Lits |-> SelectSeq([i \in DOMAIN pairs |-> Len(pairs) + 1 - i],
                              LAMBDA i : l \in pairs[i])]

Init ==
    /\ lists = Listed(watched)
    /\ visiting = ZeroLit
    /\ todo = <<>>

Start(l) ==
    /\ visiting = ZeroLit
    /\ visiting' = l
    /\ todo' = lists[l]
    /\ UNCHANGED <<watched, lists>>

\* The next clause stays where it is ...
Keep ==
    /\ todo # <<>>
    /\ todo' = Tail(todo)
    /\ UNCHANGED <<watched, lists, visiting>>

\* ... or goes to the head of another list.
Move(k) ==
    /\ todo # <<>>
    /\ k \notin watched[Head(todo)]
    /\ watched' = [watched EXCEPT ![Head(todo)] = (@ \ {visiting}) \cup {k}]
    /\ lists' = [lists EXCEPT ![visiting] = SelectSeq(@, LAMBDA i : i # Head(todo)),
                              ![k] = Cons(Head(todo), @)]
    /\ todo' = Tail(todo)
    /\ UNCHANGED visiting

\* The end of the list, or a conflict.
Stop ==
    /\ visiting # ZeroLit
    /\ visiting' = ZeroLit
    /\ todo' = <<>>
    /\ UNCHANGED <<watched, lists>>

Insert(l1, l2) ==
    /\ visiting = ZeroLit
    /\ watched' = Append(watched, {l1, l2})
    /\ lists' = [l \in Lits |-> IF l \in {l1, l2} THEN Cons(Len(watched) + 1, lists[l])
                                                  ELSE lists[l]]
    /\ UNCHANGED <<visiting, todo>>

\* The kept clauses move up, in their order, and are listed anew.
Compact(kept) ==
    /\ visiting = ZeroLit
    /\ \A i, j \in DOMAIN kept : i < j => kept[i] < kept[j]
    /\ watched' = [i \in DOMAIN kept |-> watched[kept[i]]]
    /\ lists' = Listed(watched')
    /\ UNCHANGED <<visiting, todo>>

Next ==
    \/ \E l \in Lits : Start(l)
    \/ Keep
    \/ \E k \in Lits : Move(k)
    \/ Stop
    \/ \E l1, l2 \in Lits : Insert(l1, l2)
    \/ \E n \in 0..Len(watched) : \E kept \in [1..n -> DOMAIN watched] : Compact(kept)

Spec == Init /\ [][Next]_vars

=============================================================================
