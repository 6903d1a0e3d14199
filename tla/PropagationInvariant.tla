------------------------- MODULE PropagationInvariant -------------------------
(***************************************************************************)
(* The inductive invariant behind the completeness of propagation: what    *)
(* the cursors have passed needs no second visit, at any step of any loop, *)
(* as long as the workers make the same search.  With SolverInvariant it   *)
(* shows that a worker with nothing left to hand out has missed nothing,   *)
(* and that no input clause is lost on the way.  FInv, at the end, is the  *)
(* invariant that keeps a worker's clauses and its flags in nDB in step.   *)
(***************************************************************************)
EXTENDS SolverInvariant
-----------------------------------------------------------------------------
(* The database *)

\* A ternary has three literals and is in the list of each.
TernariesListed(d) ==
    \A i \in DOMAIN d.tDB :
       /\ Cardinality(d.tDB[i].lits) = 3
       /\ \A l \in d.tDB[i].lits :
             \E p \in DOMAIN d.ternaryWatches[l] : d.ternaryWatches[l][p] = i

\* Of the first size[l] entries of every list of binaries, each is in the list of
\* its other literal too.
Twins(d, size) ==
    \A l \in Lits : \A i \in 1..size[l] :
       LET other == d.bDB[l][i]
       IN  /\ other # -l
           /\ \E j \in 1..size[-other] : d.bDB[-other][j] = -l

\* Until the workers start there are only input clauses, for everybody.
OnlyInput(d) ==
    /\ \A i \in DOMAIN d.tDB : \A u \in Workers : d.tDB[i].flags[u]
    /\ \A i \in DOMAIN d.nDB : d.nDB[i].original
    /\ Twins(d, [l \in Lits |-> Len(d.bDB[l])])

\* An input clause is where its size puts it.
Stored(d, c) ==
    \/ \E i \in DOMAIN d.uDB : c = {d.uDB[i]}
    \/ \E l \in Lits : \E i \in DOMAIN d.bDB[l] : c = {-l, d.bDB[l][i]}
    \/ \E i \in DOMAIN d.tDB : c = d.tDB[i].lits
    \/ \E i \in DOMAIN d.nDB : c = d.nDB[i].lits

Reading(d, P) == OnlyInput(d) /\ \A c \in P \ {{}} : Stored(d, c)
-----------------------------------------------------------------------------
(* What has been passed *)

\* Literals of the last level are not to be relied on in a conflict, nor while it
\* is being popped.
Falling(a) == a.pc \in {"conflict", "done"} \/ PoppingNow(a)
Limit(a) == IF Falling(a) THEN a.model.decisionLvl - 1 ELSE a.model.decisionLvl

\* The false literal l has been handed out to the clauses of kind k.
Passed(a, k, l) ==
    /\ IsFalse(a.model, l)
    /\ LitHeight(a.model, l) <= a.model.last[k]
    /\ LitDl(a.model, l) <= Limit(a)

\* j is true, and will be as long as l is false.
Rescued(m, l, j) == IsTrue(m, j) /\ LitDl(m, j) <= LitDl(m, l)

\* The clause that has been learned and not yet been used.
IsNews(a, size, ptr) == a.pc = "backjump" /\ a.rUIP.size = size /\ a.rUIP.ptr = ptr

\* Entry i is still to come in a list that is being visited.
Ahead(list, pos, i) == \E p \in DOMAIN list : p >= pos /\ list[p] = i

\* What is still to be done: the rest of the list being visited, and the new lemma.
BinaryOpen(a, d, l, i) ==
    \/ a.pc = "binary" /\ a.cursor.lit = l /\ i >= a.cursor.pos
    \/ IsNews(a, 2, 0) /\ {-l, d.bDB[l][i]} = {a.uip, a.rUIP.lit}

TernaryOpen(a, d, i, x, y) ==
    \/ /\ a.pc = "ternary"
       /\ -a.cursor.lit \in {x, y}
       /\ Ahead(d.ternaryWatches[-a.cursor.lit], a.cursor.pos, i)
    \/ IsNews(a, 3, i)

NaryOpen(a, i, x) ==
    \/ a.pc = "nary" /\ x = -a.cursor.lit /\ Ahead(a.watches[x], a.cursor.pos, i)
    \/ a.rUIP.size > 3 /\ IsNews(a, a.rUIP.size, i)

UnitOpen(a, d, i) ==
    \/ a.pc \in {"solve", "done"}
    \/ a.pc = "units" /\ i >= a.cursor.pos
    \/ a.pc = "backjump" /\ a.rUIP = NoReason /\ d.uDB[i] = a.uip

BinaryDone(a, d) ==
    \A l \in Lits : \A i \in 1..a.lastBins[l] :
       Passed(a, "binary", -l) =>
          BinaryOpen(a, d, l, i) \/ Rescued(a.model, -l, d.bDB[l][i])

TernaryDone(a, d, w) ==
    \A i \in DOMAIN d.tDB : d.tDB[i].flags[w] =>
       \A x, y \in d.tDB[i].lits :
          x # y /\ Passed(a, "ternary", x) /\ Passed(a, "ternary", y) =>
             \/ TernaryOpen(a, d, i, x, y)
             \/ \E z \in d.tDB[i].lits : Rescued(a.model, x, z) \/ Rescued(a.model, y, z)

Guarded(a, i, x, y) ==
    Passed(a, "nary", x) => NaryOpen(a, i, x) \/ Rescued(a.model, x, y)

NaryDone(a) ==
    \A i \in DOMAIN a.thcdb : a.thcdb[i].pos # 0 =>
       /\ Guarded(a, i, a.thcdb[i].w1, a.thcdb[i].w2)
       /\ Guarded(a, i, a.thcdb[i].w2, a.thcdb[i].w1)

Fixed(m, l) == IsTrue(m, l) /\ LitDl(m, l) = 0

UnitsFixed(a, d) ==
    \A i \in 1..a.lastUnit : UnitOpen(a, d, i) \/ Fixed(a.model, d.uDB[i])
-----------------------------------------------------------------------------
(* The lists, the cursors and the counters *)

\* Every kind of clause has been given what lies under a marker.
MarkersPassed(m) ==
    \A k \in Kinds : \A i \in 1..Len(m.stack) :
       m.stack[i] = DlMarker => i <= m.last[k] + 1

\* The visit ends where what the worker uses ends.
SizeGood(a, d) ==
    /\ a.pc = "binary" => a.cursor.size = a.lastBins[a.cursor.lit]
    /\ a.pc = "ternary" =>
          \A p \in DOMAIN d.ternaryWatches[-a.cursor.lit] :
             p > a.cursor.size => d.ternaryWatches[-a.cursor.lit][p] > a.lastTernary
    /\ a.pc = "units" => a.cursor.size >= a.lastUnit

\* A worker uses as many ternaries as it has counted: the first ones.
FlagsCount(a, d, w) ==
    \A i \in DOMAIN d.tDB : d.tDB[i].flags[w] <=> i <= a.lastTernary

\* The new lemma is watched where it will be true and where it was false last.
NewsWatched(a) ==
    a.pc = "backjump" /\ a.rUIP.size > 3 =>
       /\ a.thcdb[a.rUIP.ptr].w1 = a.uip
       /\ LitDl(a.model, a.thcdb[a.rUIP.ptr].w2) = a.dlToBackjump
-----------------------------------------------------------------------------
(* The input clauses *)

\* Clause c is true for good, or something at most as long that stays for good is
\* among the clauses of the worker, or c itself is.
InForce(a, d, w, c) ==
    \/ \E l \in c : Fixed(a.model, l)
    \/ \E i \in 1..a.lastUnit : d.uDB[i] \in c
    \/ \E l \in Lits : \E i \in 1..a.lastBins[l] : {-l, d.bDB[l][i]} \subseteq c
    \/ \E i \in DOMAIN d.tDB : d.tDB[i].flags[w] /\ d.tDB[i].lits \subseteq c
    \/ \E i \in DOMAIN a.thcdb : /\ a.thcdb[i].pos # 0
                                 /\ d.nDB[a.thcdb[i].pos].original
                                 /\ d.nDB[a.thcdb[i].pos].lits = c

InputKept(a, d, w, P) ==
    \A c \in P \ {{}} : InForce(a, d, w, c)

ModelFound(a, P) ==
    a.result = 10 => \A c \in P \ {{}} : \E l \in c : IsTrue(a.model, l)
-----------------------------------------------------------------------------
Done(a, d, w) ==
    /\ BinaryDone(a, d) /\ TernaryDone(a, d, w) /\ NaryDone(a) /\ UnitsFixed(a, d)

Lists(a, d, w) ==
    /\ MarkersPassed(a.model) /\ SizeGood(a, d)
    /\ a.pc = "clean" => FullyPropagated(a.model)
    /\ Twins(d, a.lastBins) /\ FlagsCount(a, d, w) /\ NewsWatched(a)

Input(a, d, w, P) == InputKept(a, d, w, P) /\ ModelFound(a, P)

PWorker(a, d, w, P) == Done(a, d, w) /\ Lists(a, d, w) /\ Input(a, d, w, P)

PInv ==
    /\ TernariesListed(db)
    /\ mainPc = "read" => Reading(db, Read)
    /\ \A w \in Workers : ad[w].pc # "allocated" => PWorker(ad[w], db, w, Read)
-----------------------------------------------------------------------------
(* The flags of the longer clauses.  A worker's thcdb holds a place for each of its
   clauses; a place that is 0 is that of a clause a cleanup has dropped. *)

Held(th) == {i \in DOMAIN th : th[i].pos # 0}

\* The places held are entries that the worker has counted.
HeldGood(th, last, d) ==
    \A i \in Held(th) : th[i].pos \in DOMAIN d.nDB /\ th[i].pos <= last

FlagsShow(th, d, w) ==
    \A p \in DOMAIN d.nDB : d.nDB[p].flags[w] <=> \E i \in Held(th) : th[i].pos = p

HeldOnce(th) == \A i, j \in Held(th) : th[i].pos = th[j].pos => i = j

FlagsHeld(th, last, d, w) ==
    HeldGood(th, last, d) /\ FlagsShow(th, d, w) /\ HeldOnce(th)

\* While the input is read every flag is set: each worker will hold each input clause.
FInv ==
    /\ mainPc = "read" => \A p \in DOMAIN db.nDB : \A w \in Workers : db.nDB[p].flags[w]
    /\ \A w \in Workers : ad[w].pc # "allocated" =>
          FlagsHeld(ad[w].thcdb, ad[w].lastNary, db, w)

=============================================================================
