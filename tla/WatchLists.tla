----------------------------- MODULE WatchLists ------------------------------
(***************************************************************************)
(* The linked lists of watched clauses in a worker's thcdb                 *)
(* (src/src/azudici.c).  A clause is in two lists and has a pointer for    *)
(* each, nextWatched1 and nextWatched2; propagation walks through the list *)
(* of a false literal with the address of the link that led it to the      *)
(* current clause, overwrites that link to take the clause out, and links  *)
(* the clause in at the head of another list.                              *)
(*                                                                         *)
(* A clause is known by its place in thcdb, and 0 is NULL.  Which literals *)
(* are true is not in this module: a visit has any of its outcomes.        *)
(***************************************************************************)
EXTENDS Literals, Sequences

CONSTANTS
    InputClauses, \* the long clauses of the input, sequences of literals
    Lemmas,       \* the long clauses that may be learned, sets of literals
    MaxThClauses  \* bound of a run: the clauses of thcdb

ASSUME ClausesAssumption ==
    /\ InputClauses \in Seq(Seq(Lits))
    /\ \A i \in DOMAIN InputClauses :
          Len(InputClauses[i]) > 3 /\ InputClauses[i][1] # InputClauses[i][2]
    /\ Lemmas \subseteq SUBSET Lits
    /\ MaxThClauses \in Nat

VARIABLES
    thcdb,   \* the worker's long clauses
    watches, \* the first clause of the list of each literal
    walk     \* the false literal whose list is walked through, or ZeroLit; the
             \* current clause; and where the link to it is stored

vars == <<thcdb, watches, walk>>

Slots == {1, 2}
Ids == DOMAIN thcdb

\* nextWatched is what lwatch1 and nextWatched1, lwatch2 and nextWatched2 are.
ThClause == [lits : SUBSET Lits, lwatch : [Slots -> Lits], nextWatched : [Slots -> Nat]]

Watched(t) == {t.lwatch[s] : s \in Slots}

\* &watches[lit], the address every walk begins with.
HeadLink == [id |-> 0, slot |-> 0]
NoWalk == [lit |-> ZeroLit, cur |-> 0, link |-> HeadLink]

\* The clauses of `unlinked`, linked in one after the other, each at the head of both
\* lists: the next clause of a list is the last one before that watches the literal.
LastBefore(unlinked, i, l) ==
    LET before == {j \in 1..(i - 1) : l \in Watched(unlinked[j])}
    IN  CHOOSE j \in before \cup {0} : \A k \in before : k <= j
Linked(unlinked) ==
    [i \in DOMAIN unlinked |->
       [lits |-> unlinked[i].lits, lwatch |-> unlinked[i].lwatch,
        nextWatched |-> [s \in Slots |->
                           LastBefore(unlinked, i, unlinked[i].lwatch[s])]]]
Heads(unlinked) == [l \in Lits |-> LastBefore(unlinked, Len(unlinked) + 1, l)]

\* azuDICI_init_thcdb: the first two literals of each clause are watched.
Init ==
    LET unlinked == [i \in DOMAIN InputClauses |->
                       [lits |-> {InputClauses[i][j] : j \in DOMAIN InputClauses[i]},
                        lwatch |-> [s \in Slots |-> InputClauses[i][s]]]]
    IN  /\ thcdb = Linked(unlinked)
        /\ watches = Heads(unlinked)
        /\ walk = NoWalk
-----------------------------------------------------------------------------
(* azuDICI_propagate_w_n_clauses *)

\* The slot of clause id for the literal l.
Slot(id, l) == IF thcdb[id].lwatch[1] = l THEN 1 ELSE 2

Idle == walk.lit = ZeroLit
AtClause == walk.lit # ZeroLit /\ walk.cur # 0

StartWalk(l) ==
    /\ Idle
    /\ walk' = [lit |-> l, cur |-> watches[l], link |-> HeadLink]
    /\ UNCHANGED <<thcdb, watches>>

\* The other watched literal is true, or is set true: on to the next clause.
Pass ==
    LET s == Slot(walk.cur, walk.lit)
    IN  /\ AtClause
        /\ walk' = [walk EXCEPT !.cur = thcdb[walk.cur].nextWatched[s],
                                !.link = [id |-> walk.cur, slot |-> s]]
        /\ UNCHANGED <<thcdb, watches>>

\* Mutant: the walk goes on through the clause, which is in another list by now.
Reselect_FollowClause(k) ==
    LET id == walk.cur
        s == Slot(id, walk.lit)
        next == thcdb[id].nextWatched[s]
        from == walk.link
        moved == [thcdb EXCEPT ![id].lwatch[s] = k, ![id].nextWatched[s] = watches[k]]
    IN  /\ AtClause
        /\ k \in thcdb[id].lits \ Watched(thcdb[id])
        /\ IF from = HeadLink
           THEN /\ thcdb' = moved
                /\ watches' = [watches EXCEPT ![walk.lit] = next, ![k] = id]
           ELSE /\ thcdb' = [moved EXCEPT ![from.id].nextWatched[from.slot] = next]
                /\ watches' = [watches EXCEPT ![k] = id]
        /\ walk' = [walk EXCEPT !.cur = thcdb'[id].nextWatched[s]]

\* Mutant: the link that led to the clause is left.
Reselect_NotUnlinked(k) ==
    LET id == walk.cur
        s == Slot(id, walk.lit)
    IN  /\ AtClause
        /\ k \in thcdb[id].lits \ Watched(thcdb[id])
        /\ thcdb' = [thcdb EXCEPT ![id].lwatch[s] = k, ![id].nextWatched[s] = watches[k]]
        /\ watches' = [watches EXCEPT ![k] = id]
        /\ walk' = [walk EXCEPT !.cur = thcdb[id].nextWatched[s]]

\* The clause watches k, which is not false, from now on.  The link that led to it
\* skips it, and is where the link to the next clause is stored.
Reselect(k) ==
    LET id == walk.cur
        s == Slot(id, walk.lit)
        next == thcdb[id].nextWatched[s]
        from == walk.link
        moved == [thcdb EXCEPT ![id].lwatch[s] = k, ![id].nextWatched[s] = watches[k]]
    IN  /\ AtClause
        /\ k \in thcdb[id].lits \ Watched(thcdb[id])
        /\ IF from = HeadLink
           THEN /\ thcdb' = moved
                /\ watches' = [watches EXCEPT ![walk.lit] = next, ![k] = id]
           ELSE /\ thcdb' = [moved EXCEPT ![from.id].nextWatched[from.slot] = next]
                /\ watches' = [watches EXCEPT ![k] = id]
        /\ walk' = [walk EXCEPT !.cur = next]

\* The end of the list, or a conflict in the current clause.
EndWalk ==
    /\ ~Idle
    /\ walk' = NoWalk
    /\ UNCHANGED <<thcdb, watches>>
-----------------------------------------------------------------------------
\* azuDICI_insert_th_clause: in at the head of both lists.
InsertThClause(c, l1, l2) ==
    LET id == Len(thcdb) + 1
    IN  /\ Idle
        /\ Len(thcdb) < MaxThClauses
        /\ thcdb' = Append(thcdb, [lits |-> c,
                                   lwatch |-> [s \in Slots |-> IF s = 1 THEN l1 ELSE l2],
                                   nextWatched |-> [s \in Slots |->
                                      watches[IF s = 1 THEN l1 ELSE l2]]])
        /\ watches' = [watches EXCEPT ![l1] = id, ![l2] = id]
        /\ UNCHANGED walk

\* azuDICI_clause_cleanup_if_adequate empties the lists, and azuDICI_compact_and_watch
\* moves the kept clauses up in their order, linking them in anew.
CompactAndWatch(kept) ==
    LET unlinked == [i \in DOMAIN kept |-> thcdb[kept[i]]]
    IN  /\ Idle
        /\ \A i, j \in DOMAIN kept : i < j => kept[i] < kept[j]
        /\ thcdb' = Linked(unlinked)
        /\ watches' = Heads(unlinked)
        /\ UNCHANGED walk

Next ==
    \/ \E l \in Lits : StartWalk(l) \/ Reselect(l)
    \/ Pass \/ EndWalk
    \/ \E c \in Lemmas : \E l1, l2 \in c : l1 # l2 /\ InsertThClause(c, l1, l2)
    \/ \E n \in 0..Len(thcdb) : \E kept \in [1..n -> Ids] : CompactAndWatch(kept)

Spec == Init /\ [][Next]_vars
-----------------------------------------------------------------------------
Watching(l) == {id \in Ids : l \in Watched(thcdb[id])}
NextOf(id, l) == thcdb[id].nextWatched[Slot(id, l)]
Nexts(l) == [id \in Watching(l) |-> NextOf(id, l)]

\* From `head` on, `next` leads to each of `members` by one link only, and to nothing
\* else; and never back: the members can be ranked so that it leads to lower ones.
Ranks(ids) == {r \in [ids -> ids] : \A i, j \in ids : i # j => r[i] # r[j]}
IsList(ids, members, head, next) ==
    /\ head \in members \cup {0}
    /\ \A i \in members : next[i] \in members \cup {0}
    /\ \A i \in members : head # i => \E j \in members : next[j] = i
    /\ \A i \in members : next[i] # head \/ head = 0
    /\ \A i, j \in members : next[i] = next[j] => i = j \/ next[i] = 0
    /\ \E rank \in Ranks(ids) : \A i \in members : next[i] # 0 => rank[next[i]] < rank[i]

\* The pointers are lists: each clause is in the lists of the two literals it watches
\* and in no other, through all the relinking of propagation, learning and cleanup.
ListsIntact == \A l \in Lits : IsList(Ids, Watching(l), watches[l], Nexts(l))

\* The clauses that are reached from `first` by links of l.
Reached(l, first) ==
    LET place[n \in 0..Len(thcdb)] ==
          IF n = 0 THEN first
          ELSE IF place[n - 1] = 0 THEN 0 ELSE NextOf(place[n - 1], l)
    IN  SelectSeq([n \in Ids |-> place[n - 1]], LAMBDA i : i # 0)

\* A walk that takes clauses out of the list under its feet visits what a walk through
\* the sequence of clauses as it was at the start visits, and leaves what is left of it.
Walks == INSTANCE ListWalks WITH
    watched <- [i \in Ids |-> Watched(thcdb[i])],
    lists <- [l \in Lits |-> Reached(l, watches[l])],
    visiting <- walk.lit,
    todo <- Reached(walk.lit, walk.cur)
VisitsAll == Walks!Spec

=============================================================================
