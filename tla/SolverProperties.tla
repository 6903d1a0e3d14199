--------------------------- MODULE SolverProperties ---------------------------
(***************************************************************************)
(* What makes the solver of module AzuDICI correct.                        *)
(***************************************************************************)
EXTENDS AzuDICI

F == {formula[i] : i \in 1..Len(formula)}
Read == {formula[i] : i \in 1..nread}

SolverType ==
    [pc : Locations, model : ModelType, thcdb : Seq(ThClause),
     watches : [Lits -> Seq(Nat)], lastUnit : Nat, lastBins : [Lits -> Nat],
     lastTernary : Nat, lastNary : Nat, heap : SUBSET Vars, marks : SUBSET Vars,
     cursor : [lit : Lits \cup {ZeroLit}, pos : Nat, size : Nat],
     cleaning : BOOLEAN, clause : Clause, poppedLit : Lits \cup {ZeroLit},
     pending : Nat, lemma : Clause, uip : Lits \cup {ZeroLit},
     lemmaToLearn : Clause, dlToBackjump : Nat, rUIP : Reason,
     sinceRestart : Nat, restartLimit : Nat, sinceCleanup : Nat, cleanupLimit : Nat,
     decisions : Nat, result : {0, 10, 20}]

TypeOK ==
    /\ formula \in Formulas
    /\ nread \in 0..Len(formula)
    /\ mainPc \in {"read", "join", "exit"}
    /\ db \in ClauseDBType
    /\ ad \in [Workers -> SolverType]
-----------------------------------------------------------------------------
(* The answers *)

\* Every lemma that ends up in the shared database, whichever worker put it there
\* and however a cleanup shortened it, follows from the formula.
LemmasEntailed ==
    LET models == ModelsOf(Read)
    IN  \A c \in AllClauses(db) : \A A \in models : Satisfies(A, c)

\* A worker that answers 10 holds an assignment of every variable that satisfies
\* the whole formula, and one that answers 20 has none to find.
AnswersSound ==
    \A w \in Workers :
       /\ ad[w].result = 10 =>
             /\ \A v \in Vars : ~IsUndefVar(ad[w].model, v)
             /\ \A c \in F : \E l \in c : IsTrue(ad[w].model, l)
       /\ ad[w].result = 20 => ModelsOf(F) = {}

\* The whole program is a search as module Search promises: clauses are added and never
\* lost, a literal that stands at level 0 follows from the formula and stays, and an
\* answer is given once, with a model that still stands when it is 10.
Promise == INSTANCE Search WITH
    problem <- F,
    known <- AllClauses(db),
    fixed <- [w \in Workers |-> {l \in Lits : /\ IsTrue(ad[w].model, l)
                                              /\ LitDl(ad[w].model, l) = 0}],
    answer <- [w \in Workers |-> ad[w].result],
    shown <- [w \in Workers |-> IF ad[w].result = 10
                                THEN {l \in Lits : IsTrue(ad[w].model, l)} ELSE {}]
KeepsPromise == Promise!Spec

\* Every run ends: each worker comes to an answer and main joins it.
Terminates == <>(mainPc = "exit")
-----------------------------------------------------------------------------
(* The trail and the reasons *)

\* The stack, the values and the levels of every worker's model agree at every
\* step, in the middle of an analysis or of a backjump too.
TrailsConsistent == \A w \in Workers : TrailConsistent(ad[w].model)

\* The reason of a propagated literal above level 0 is a clause that contains it
\* and whose other literals were false before it: the pointers into tDB and thcdb
\* are still good when the reason is used, after the backjumps, the cleanups and
\* the reuse of thcdb places in between.  (At level 0 they may be stale.)
ReasonsJustify ==
    \A w \in Workers :
       LET a == ad[w]
       IN  \A l \in Lits :
              IsTrue(a.model, l) /\ LitDl(a.model, l) > 0
                 /\ ~LitIsDecision(a.model, l)
              => LET c == ClauseOfReason(a, ReasonOfLit(a.model, l), l)
                 IN  /\ l \in c
                     /\ \A k \in c \ {l} :
                           /\ IsFalse(a.model, k)
                           /\ LitHeight(a.model, k) < LitHeight(a.model, l)

\* Literals set at level 0 stay: no conflict, restart or cleanup unassigns them.
LevelZeroKept ==
    [][\A w \in Workers : \A l \in Lits :
          ad[w].pc # "allocated" /\ IsTrue(ad[w].model, l) /\ LitDl(ad[w].model, l) = 0
          => IsTrue(ad[w].model, l)' /\ LitDl(ad[w].model, l)' = 0]_vars
-----------------------------------------------------------------------------
(* Propagation *)

Started(w) == ad[w].pc \notin {"allocated", "solve", "units"}

\* The clauses worker w may propagate with.
OwnUnits(a) == {{db.uDB[i]} : i \in 1..a.lastUnit}
OwnBinaries(a) == UNION {{{-l, db.bDB[l][i]} : i \in 1..a.lastBins[l]} : l \in Lits}
OwnTernaries(w) == {db.tDB[i].lits : i \in {j \in DOMAIN db.tDB : db.tDB[j].flags[w]}}
HeldClauses(a) == {ThLits(a.thcdb[i]) : i \in {j \in DOMAIN a.thcdb : a.thcdb[j].pos # 0}}

ActiveClauses(w) ==
    OwnUnits(ad[w]) \cup OwnBinaries(ad[w]) \cup OwnTernaries(w) \cup HeldClauses(ad[w])

\* When propagate has returned true, and while the clauses are cleaned at level 0, no
\* clause of the worker is false and none has one undefined literal and no true one:
\* one visit per literal, the watches and the reset cursors have missed nothing.
PropagationComplete ==
    \A w \in Workers :
       LET m == ad[w].model
       IN  ad[w].pc \in {"restart", "cleanup", "clean", "decide"} =>
              \A c \in ActiveClauses(w) :
                 \/ \E l \in c : IsTrue(m, l)
                 \/ Cardinality({l \in c : IsUndef(m, l)}) > 1

\* A clause of thcdb is linked exactly once into the lists of its two watched
\* literals and into no other list, through all the relinking of propagation.
WatchesLinked ==
    \A w \in Workers : ad[w].pc \notin {"allocated", "clean"} =>
       LET a == ad[w]
       IN  /\ \A i \in DOMAIN a.thcdb : LET t == a.thcdb[i]
                                       IN  t.w1 # t.w2 /\ {t.w1, t.w2} \subseteq ThLits(t)
           /\ \A l \in Lits, i \in DOMAIN a.thcdb :
                 Cardinality({p \in DOMAIN a.watches[l] : a.watches[l][p] = i})
                   = (IF l \in {a.thcdb[i].w1, a.thcdb[i].w2} THEN 1 ELSE 0)

\* Once a false watched literal has been handed out, the other watched literal is
\* true, and will stay so at least as long: why backjumping leaves watches alone.
WatchesSafe ==
    \A w \in Workers :
       LET a == ad[w]
           Safe(x, y) == IsFalse(a.model, x) /\ LitHeight(a.model, x) <= a.model.last["nary"]
                            => IsTrue(a.model, y) /\ LitDl(a.model, y) <= LitDl(a.model, x)
       IN  a.pc \in {"propagate", "binary", "ternary", "restart", "cleanup", "decide"} =>
              \A i \in DOMAIN a.thcdb : /\ Safe(a.thcdb[i].w1, a.thcdb[i].w2)
                                       /\ Safe(a.thcdb[i].w2, a.thcdb[i].w1)

\* Every undefined variable can be decided: it is back in the heap as soon as it is
\* unassigned, so that an empty heap means a complete model.
HeapComplete ==
    \A w \in Workers : {v \in Vars : IsUndefVar(ad[w].model, v)} \subseteq ad[w].heap
-----------------------------------------------------------------------------
(* Conflict analysis and learning *)

\* During the analysis the marks are the literals of the lemma and the pending ones
\* of the last level, whose number is right; outside it no mark is left behind.
MarksExact ==
    \A w \in Workers :
       LET a == ad[w]
           thisDl == {v \in a.marks : a.model.level[v] = a.model.decisionLvl}
       IN  IF a.pc \in {"mark", "pop"}
           THEN /\ a.marks \ thisDl = {var(l) : l \in a.lemma}
                /\ a.pending = Cardinality(thisDl)
                /\ a.pc = "pop" => a.pending > 0
           ELSE a.pc # "shorten" => a.marks = {}

\* When the uip is set true it is undefined, the rest of the lemma is false, and no
\* earlier level would have done: the highest of the rest is of the level reached.
LemmaAsserts ==
    \A w \in Workers :
       LET a == ad[w]
           rest == ClauseOfReason(a, a.rUIP, a.uip) \ {a.uip}
       IN  a.pc = "backjump" /\ a.model.decisionLvl <= a.dlToBackjump =>
              /\ a.uip \in ClauseOfReason(a, a.rUIP, a.uip)
              /\ IsUndef(a.model, a.uip)
              /\ \A l \in rest : IsFalse(a.model, l)
              /\ IF rest = {} THEN a.model.decisionLvl = 0
                 ELSE \E l \in rest : LitDl(a.model, l) = a.model.decisionLvl

\* No lemma is learned that a clause of the worker already contains: each conflict
\* brings something new, which is why the search ends although it restarts.
LemmaIsNew ==
    \A w \in Workers :
       ReadyToLearn(w) => \A c \in ActiveClauses(w) : ~(c \subseteq Learned(ad[w]))
-----------------------------------------------------------------------------
(* Cleanup and sharing *)

\* Every input clause stays in force for every worker: it is true at level 0, or a
\* clause the worker propagates with is part of it.  A cleanup may shorten an input
\* clause but never lose it.
InputInForce ==
    \A w \in Workers : Started(w) /\ ad[w].result = 0 =>
       \A c \in F :
          \/ \E l \in c : IsTrue(ad[w].model, l) /\ LitDl(ad[w].model, l) = 0
          \/ \E d \in ActiveClauses(w) : d \subseteq c

\* The flags of nDB say which worker holds which clause.
FlagsMatch ==
    \A w \in Workers : ad[w].pc # "allocated" =>
       LET held == {i \in DOMAIN ad[w].thcdb : ad[w].thcdb[i].pos # 0}
       IN  /\ {ad[w].thcdb[i].pos : i \in held} = {p \in DOMAIN db.nDB : db.nDB[p].flags[w]}
           /\ \A i, j \in held : i # j => ad[w].thcdb[i].pos # ad[w].thcdb[j].pos

\* The other literal of a clause of two.
Partner(c, l) == CHOOSE k \in c : k # l

\* "We assume each thread learns the next ternary in the same order"
\* (clausedb.c:172, 228, 323, 397): an entry found at the worker's next position is
\* the very clause the worker brings.
SameAt(w, c) ==
    LET a == ad[w]
        size == Cardinality(c)
        ahead == {l \in c : Len(db.bDB[-l]) > a.lastBins[-l]}
    IN  /\ size = 1 /\ Len(db.uDB) > a.lastUnit => c = {db.uDB[a.lastUnit + 1]}
        /\ size = 2 => /\ ahead \in {{}, c}
                       /\ \A l \in ahead :
                             db.bDB[-l][a.lastBins[-l] + 1] = Partner(c, l)
        /\ size = 3 /\ Len(db.tDB) > a.lastTernary => c = db.tDB[a.lastTernary + 1].lits
        /\ size > 3 /\ Len(db.nDB) > a.lastNary => c = db.nDB[a.lastNary + 1].lits

SameSearch ==
    \A w \in Workers :
       /\ ReadyToLearn(w) => SameAt(w, Learned(ad[w]))
       /\ LET a == ad[w]
              t == a.thcdb[a.cursor.pos]
          IN  /\ a.pc = "clean" /\ a.cursor.pos <= Len(a.thcdb)
              /\ IsKept(t) /\ ~IsSatisfied(a, t) /\ Cardinality(Undefined(a, t)) \in 1..3
              => SameAt(w, Undefined(a, t))

=============================================================================
