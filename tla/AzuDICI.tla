------------------------------ MODULE AzuDICI -------------------------------
(***************************************************************************)
(* The solver: main reads the formula into the shared clause database,     *)
(* makes one AzuDICI per worker and starts the threads; each thread runs   *)
(* azuDICI_solve (src/src/azudici.c, src/src/main.c).                      *)
(*                                                                         *)
(* ad[w] is the struct of worker w.  A step of a worker is one turn of an  *)
(* innermost loop of the code, or one call that has no loop; its only      *)
(* contact with other workers is the database db.  dassert is compiled out *)
(* (DEBUG is 0 in common.h), so no assertion stops a worker.               *)
(***************************************************************************)
EXTENDS Model, ClauseDB, Strategy, SequencesExt

CONSTANTS
    Formulas,        \* the inputs: sequences of clauses
    InitPhases,      \* what malloc leaves in the last_phase fields
    DecisionOrders,  \* the orders in which the activity heap may serve variables
    RandomVars,      \* the variables the table randomNumbers yields
    RandomTries,     \* how far a random decision looks for an undefined variable
    FractionRandomDecisions,      \* every how many decisions one is random
    DLBelowWhichRandomDecisions,  \* and under which level
    InitialCleanupLimit,          \* conflicts before the first cleanup
    ActivityThreshold             \* activity that saves a long lemma

ASSUME ParametersAssumption ==
    /\ Formulas \subseteq Seq(Clause)
    /\ InitPhases \subseteq [Vars -> BOOLEAN]
    /\ DecisionOrders \subseteq [Vars -> Nat] /\ DecisionOrders # {}
    /\ \A o \in DecisionOrders : \A u, v \in Vars : u # v => o[u] # o[v]
    /\ RandomVars \subseteq Vars /\ RandomVars # {}
    /\ RandomTries \in Nat
    /\ FractionRandomDecisions \in Nat \ {0}
    /\ DLBelowWhichRandomDecisions \in Nat
    /\ InitialCleanupLimit \in Nat \ {0}
    /\ ActivityThreshold \in Nat

VARIABLES
    formula, \* the clauses of the input file
    nread,   \* how many of them the parser has inserted
    mainPc,  \* where main is
    db,      \* the shared clause database
    ad       \* the solver of each worker

vars == <<formula, nread, mainPc, db, ad>>

\* Where a worker is, named after the function or the loop it is in.
Locations ==
    {"allocated", "solve", "units", "propagate", "binary", "ternary", "nary",
     "conflict", "mark", "pop", "lemma", "shorten", "backjump", "restart",
     "restartJump", "cleanup", "cleanupJump", "clean", "decide", "done"}

\* A clause of more than three literals as a worker sees it: the entry of nDB, its
\* two watched literals, its activity.  During a cleanup pos = 0 marks it deleted.
ThClause == [pos : Nat, w1 : Lits, w2 : Lits, activity : Nat]
ThLits(t) == db.nDB[t.pos].lits

NoCursor == [lit |-> ZeroLit, pos |-> 0, size |-> 0]

\* The numbers of a finite set in increasing order.
Rank(S, i) == Cardinality({j \in S : j <= i})
InOrderOf(S) == [n \in 1..Cardinality(S) |-> CHOOSE i \in S : Rank(S, i) = n]

\* The lists of watched clauses: clauses are linked in at the head, in the order
\* of thcdb, so a list runs from the last clause to the first.
WatchLists(thcdb) ==
    [l \in Lits |->
       Reverse(InOrderOf({i \in DOMAIN thcdb : l \in {thcdb[i].w1, thcdb[i].w2}}))]

\* azuDICI_init_thcdb: the first two literals of each stored clause are watched.
Second(c) == Min(c \ {Min(c)})
InitThcdb ==
    [i \in DOMAIN db.nDB |-> [pos |-> i, w1 |-> Min(db.nDB[i].lits),
                              w2 |-> Second(db.nDB[i].lits), activity |-> 0]]

\* azuDICI_init.  The counters last*Added are read when only input clauses have
\* been inserted, so that they are the sizes of the lists.
InitSolver(phase) ==
    [pc |-> "solve", model |-> ModelInit(phase),
     thcdb |-> InitThcdb, watches |-> WatchLists(InitThcdb),
     lastUnit |-> Len(db.uDB), lastBins |-> [l \in Lits |-> Len(db.bDB[l])],
     lastTernary |-> Len(db.tDB), lastNary |-> Len(db.nDB),
     heap |-> Vars, marks |-> {}, cursor |-> NoCursor, cleaning |-> FALSE,
     clause |-> {}, poppedLit |-> ZeroLit, pending |-> 0, lemma |-> {},
     uip |-> ZeroLit, lemmaToLearn |-> {}, dlToBackjump |-> 0, rUIP |-> NoReason,
     sinceRestart |-> 0, restartLimit |-> initialRestartLimit,
     sinceCleanup |-> 0, cleanupLimit |-> InitialCleanupLimit,
     decisions |-> 0, result |-> 0]

Init ==
    /\ formula \in Formulas
    /\ nread = 0
    /\ mainPc = "read"
    /\ db = EmptyDB
    /\ \E phases \in [Workers -> InitPhases] :
          ad = [w \in Workers |-> [InitSolver(phases[w]) EXCEPT !.pc = "allocated"]]
-----------------------------------------------------------------------------
(* main *)

ReadClause ==
    /\ mainPc = "read"
    /\ nread < Len(formula)
    /\ nread' = nread + 1
    /\ db' = InsertInput(db, formula[nread + 1])
    /\ UNCHANGED <<formula, mainPc, ad>>

\* azuDICI_init for each worker, then pthread_create for each.  A thread that has
\* been created need not have run yet, so creating all of them at once loses nothing.
StartWorkers ==
    /\ mainPc = "read"
    /\ nread = Len(formula)
    /\ mainPc' = "join"
    /\ ad' = [w \in Workers |-> InitSolver(ad[w].model.phase)]
    /\ UNCHANGED <<formula, nread, db>>

JoinWorkers ==
    /\ mainPc = "join"
    /\ \A w \in Workers : ad[w].pc = "done"
    /\ mainPc' = "exit"
    /\ UNCHANGED <<formula, nread, db, ad>>

Main == ReadClause \/ StartWorkers \/ JoinWorkers
-----------------------------------------------------------------------------
(* A worker: helpers *)

At(w, loc) == ad[w].pc = loc

\* A step of worker w that leaves the database alone.
Local(w, a) ==
    /\ ad' = [ad EXCEPT ![w] = a]
    /\ UNCHANGED <<formula, nread, mainPc, db>>

\* A step of worker w that inserts into the database.
Sharing(w, a, newDB) ==
    /\ ad' = [ad EXCEPT ![w] = a]
    /\ db' = newDB
    /\ UNCHANGED <<formula, nread, mainPc>>

Finish(w, answer) == Local(w, [ad[w] EXCEPT !.pc = "done", !.result = answer])

\* Mutants of PopOne: the variable is not offered again; the marker is taken for one.
PopOne_NotNotified(a) == [a EXCEPT !.model = PopAndSetUndef(@)]
PopOne_MarkerToo(a) ==
    [a EXCEPT !.model = PopAndSetUndef(@), !.heap = @ \cup {var(Top(a.model))}]

\* azuDICI_notify_unassigned_lit; a marker popped by conflict analysis is no variable.
PopOne(a) ==
    [a EXCEPT !.model = PopAndSetUndef(@),
              !.heap = @ \cup ({var(Top(a.model))} \cap Vars)]

\* azuDICI_get_clause_from_reason
ClauseOfReason(a, r, l) ==
    CASE r.size = 1 -> {l}
      [] r.size = 2 -> {l, r.lit}
      [] r.size = 3 -> db.tDB[r.ptr].lits
      [] r.size > 3 -> ThLits(a.thcdb[r.ptr])

\* azuDICI_increase_activity
IncreaseActivity(thcdb, r) ==
    IF r.size > 3 THEN [thcdb EXCEPT ![r.ptr].activity = @ + 1] ELSE thcdb
-----------------------------------------------------------------------------
(* azuDICI_set_true_units: a unit is set true at level 0, with no reason. *)

\* The size of uDB is read when the thread gets there; the units themselves are
\* read later, one by one, but uDB only grows.
StartSolve(w) ==
    /\ At(w, "solve")
    /\ Local(w, [ad[w] EXCEPT !.pc = "units",
                              !.cursor = [NoCursor EXCEPT !.pos = 1,
                                                          !.size = Len(db.uDB)]])

SetTrueUnit(w) ==
    LET a == ad[w]
        l == db.uDB[a.cursor.pos]
    IN  /\ At(w, "units")
        /\ a.cursor.pos <= a.cursor.size
        /\ IF IsFalse(a.model, l)
           THEN Finish(w, 20)
           ELSE Local(w, [a EXCEPT
                   !.cursor.pos = @ + 1,
                   !.model = IF IsUndef(@, l) THEN SetTrueWithReason(@, l, NoReason)
                                              ELSE @])

UnitsDone(w) ==
    /\ At(w, "units")
    /\ ad[w].cursor.pos > ad[w].cursor.size
    /\ Local(w, [ad[w] EXCEPT !.pc = "propagate", !.cursor = NoCursor])
-----------------------------------------------------------------------------
(* azuDICI_propagate *)

\* The kinds tried before kind k.
Before(k) == CASE k = "binary" -> {}
               [] k = "ternary" -> {"binary"}
               [] k = "nary" -> {"binary", "ternary"}

\* Mutants: the last ternary, or the last binary, is not visited.
ListSize_TernaryShort(a, k, l) ==
    CASE k = "binary" -> a.lastBins[l]
      [] k = "ternary" -> Len(db.ternaryWatches[-l]) - 1
      [] k = "nary" -> 0

ListSize_BinaryShort(a, k, l) ==
    CASE k = "binary" -> a.lastBins[l] - 1
      [] k = "ternary" -> Len(db.ternaryWatches[-l])
      [] k = "nary" -> 0

\* How much of the list of l is visited: of the binaries what the worker has
\* inserted or was there before it, of the ternaries what is there now.
ListSize(a, k, l) ==
    CASE k = "binary" -> a.lastBins[l]
      [] k = "ternary" -> Len(db.ternaryWatches[-l])
      [] k = "nary" -> 0

HandOutLiteral(w, k) ==
    LET a == ad[w]
        l == NextLit(a.model, k)
    IN  /\ At(w, "propagate")
        /\ \A j \in Before(k) : ~HasNext(a.model, j)
        /\ HasNext(a.model, k)
        /\ Local(w, [a EXCEPT !.pc = k,
                              !.model = Advance(@, k),
                              !.cursor = [lit |-> l, pos |-> 1,
                                          size |-> ListSize(a, k, l)]])

\* Mutant: does not wait for the longer clauses.
PropagationDone_Early(w) ==
    /\ At(w, "propagate")
    /\ ~HasNext(ad[w].model, "binary") /\ ~HasNext(ad[w].model, "ternary")
    /\ Local(w, [ad[w] EXCEPT !.pc = IF ad[w].cleaning THEN "decide" ELSE "restart",
                              !.cleaning = FALSE])

\* propagate returned true, to azuDICI_solve or to the end of a cleanup.
PropagationDone(w) ==
    /\ At(w, "propagate")
    /\ FullyPropagated(ad[w].model)
    /\ Local(w, [ad[w] EXCEPT !.pc = IF ad[w].cleaning THEN "decide" ELSE "restart",
                              !.cleaning = FALSE])

\* The list of the cursor's literal has been visited to its end.
ListDone(w) ==
    LET a == ad[w]
    IN  /\ \/ At(w, "binary") /\ a.cursor.pos > a.cursor.size
           \/ At(w, "ternary") /\ a.cursor.pos > a.cursor.size
           \/ At(w, "nary") /\ a.cursor.pos > Len(a.watches[-a.cursor.lit])
        /\ Local(w, [a EXCEPT !.pc = "propagate", !.cursor = NoCursor])

SkipEntry(a) == [a EXCEPT !.cursor.pos = @ + 1]

Propagate(a, l, r) ==
    [a EXCEPT !.cursor.pos = @ + 1, !.model = SetTrueWithReason(@, l, r)]

InConflict(a, c) == [a EXCEPT !.pc = "conflict", !.clause = c, !.cursor = NoCursor]

\* A read past the end of a list returns whatever the memory holds.
ReadBinary(l, i) ==
    IF i \in DOMAIN db.bDB[l] THEN {db.bDB[l][i]} ELSE Lits

VisitBinary(w) ==
    LET a == ad[w]
        l == a.cursor.lit
    IN  /\ At(w, "binary")
        /\ a.cursor.pos <= a.cursor.size
        /\ \E implied \in ReadBinary(l, a.cursor.pos) :
              \/ /\ IsTrue(a.model, implied)
                 /\ Local(w, SkipEntry(a))
              \/ /\ IsUndef(a.model, implied)
                 /\ Local(w, Propagate(a, implied,
                                       [size |-> 2, lit |-> -l, ptr |-> 0]))
              \/ /\ IsFalse(a.model, implied)
                 /\ Local(w, InConflict(a, {-l, implied}))

\* Only ternaries whose flag is set for the worker are looked at.
VisitTernary(w) ==
    LET a == ad[w]
        entry == db.ternaryWatches[-a.cursor.lit][a.cursor.pos]
        notFalse == {l \in db.tDB[entry].lits : ~IsFalse(a.model, l)}
    IN  /\ At(w, "ternary")
        /\ a.cursor.pos <= a.cursor.size
        /\ \/ /\ \/ ~db.tDB[entry].flags[w]
                 \/ Cardinality(notFalse) > 1
                 \/ \E l \in notFalse : IsTrue(a.model, l)
              /\ Local(w, SkipEntry(a))
           \/ /\ db.tDB[entry].flags[w]
              /\ \E l \in Lits :
                    /\ notFalse = {l}
                    /\ IsUndef(a.model, l)
                    /\ Local(w, Propagate(a, l, [size |-> 3, lit |-> ZeroLit,
                                                 ptr |-> entry]))
           \/ /\ db.tDB[entry].flags[w]
              /\ notFalse = {}
              /\ Local(w, InConflict(a, db.tDB[entry].lits))

\* Mutant: linked in at the new list only.
Rewatch_NotUnlinked(a, id, old, new) ==
    [a EXCEPT !.thcdb[id] = IF @.w1 = old THEN [@ EXCEPT !.w1 = new]
                                          ELSE [@ EXCEPT !.w2 = new],
              !.cursor.pos = @ + 1,
              !.watches[new] = Cons(id, @)]

\* Clause id gives up the watch on `old` for one on `new`: out of the list being
\* visited, in at the head of the other.
Rewatch(a, id, old, new) ==
    [a EXCEPT !.thcdb[id] = IF @.w1 = old THEN [@ EXCEPT !.w1 = new]
                                          ELSE [@ EXCEPT !.w2 = new],
              !.watches[old] = RemoveAt(@, a.cursor.pos),
              !.watches[new] = Cons(id, @)]

VisitNary(w) ==
    LET a == ad[w]
        falseLit == -a.cursor.lit
        id == a.watches[falseLit][a.cursor.pos]
        t == a.thcdb[id]
        other == IF t.w1 = falseLit THEN t.w2 ELSE t.w1
        toReselect == {l \in ThLits(t) \ {falseLit, other} : ~IsFalse(a.model, l)}
    IN  /\ At(w, "nary")
        /\ a.cursor.pos <= Len(a.watches[falseLit])
        /\ \/ /\ IsTrue(a.model, other)
              /\ Local(w, SkipEntry(a))
           \/ /\ ~IsTrue(a.model, other)
              /\ toReselect # {}
              /\ Local(w, Rewatch(a, id, falseLit, Min(toReselect)))
           \/ /\ IsUndef(a.model, other)
              /\ toReselect = {}
              /\ Local(w, Propagate(a, other, [size |-> Cardinality(ThLits(t)),
                                               lit |-> ZeroLit, ptr |-> id]))
           \/ /\ IsFalse(a.model, other)
              /\ toReselect = {}
              /\ Local(w, InConflict([a EXCEPT !.thcdb[id].activity = @ + 1],
                                     ThLits(t)))
-----------------------------------------------------------------------------
(* azuDICI_conflict_analysis *)

\* A conflict at level 0, during the search or at the end of a cleanup.
ConflictAtLevelZero(w) ==
    /\ At(w, "conflict")
    /\ ad[w].model.decisionLvl = 0
    /\ Finish(w, 20)

StartAnalysis(w) ==
    /\ At(w, "conflict")
    /\ ad[w].model.decisionLvl > 0
    /\ Local(w, [ad[w] EXCEPT !.pc = "mark", !.poppedLit = ZeroLit, !.pending = 0,
                              !.lemma = {}, !.sinceRestart = @ + 1,
                              !.sinceCleanup = @ + 1])

\* The inner loop over the conflicting clause or the reason: variables of this
\* level are counted, literals of lower levels go to the lemma, and those of
\* level 0 are ignored.  The scores it raises are part of DecisionOrders.
MarkClause(w) ==
    LET a == ad[w]
        new == {l \in a.clause \ {a.poppedLit} : var(l) \notin a.marks}
        thisDl == {l \in new : LitIsOfCurrentDl(a.model, l)}
        lower == {l \in new \ thisDl : LitDl(a.model, l) > 0}
    IN  /\ At(w, "mark")
        /\ Local(w, [a EXCEPT !.pc = "pop", !.clause = {},
                              !.marks = @ \cup {var(l) : l \in thisDl \cup lower},
                              !.pending = @ + Cardinality({var(l) : l \in thisDl}),
                              !.lemma = @ \cup lower])

\* One pop.  At a marked literal the loop ends: it is the first unique implication
\* point if it is the last pending one, and otherwise its reason is marked next.
PopLiteral(w) ==
    LET a == ad[w]
        l == Top(a.model)
        r == ReasonOfLit(a.model, l)
        unmarked == [PopOne(a) EXCEPT !.poppedLit = l, !.marks = @ \ {var(l)},
                                      !.thcdb = IncreaseActivity(@, r)]
    IN  /\ At(w, "pop")
        /\ \/ /\ var(l) \notin a.marks
              /\ Local(w, PopOne(a))
           \/ /\ var(l) \in a.marks
              /\ a.pending # 1
              /\ Local(w, [unmarked EXCEPT !.pc = "mark", !.pending = @ - 1,
                                           !.clause = ClauseOfReason(a, r, l)])
           \/ /\ var(l) \in a.marks
              /\ a.pending = 1
              /\ Local(w, [unmarked EXCEPT
                              !.pc = "lemma", !.poppedLit = ZeroLit, !.pending = 0,
                              !.uip = -l,
                              !.marks = @ \ {var(k) : k \in a.lemma}])
-----------------------------------------------------------------------------
(* azuDICI_lemma_shortening *)

StartShortening(w) ==
    LET a == ad[w]
    IN  /\ At(w, "lemma")
        /\ Local(w, [a EXCEPT !.pc = "shorten", !.lemmaToLearn = {},
                              !.marks = @ \cup {var(l) : l \in a.lemma \cup {a.uip}}])

Highest(md, c) == CHOOSE l \in c : \A k \in c : LitHeight(md, k) <= LitHeight(md, l)
Lowest(md, c) == CHOOSE l \in c : \A k \in c : LitHeight(md, k) >= LitHeight(md, l)

\* The unmarked variables in the reason of v.
UnmarkedBehind(a, v) ==
    LET l == IF IsTrue(a.model, v) THEN v ELSE -v
    IN  {var(k) : k \in ClauseOfReason(a, a.model.reason[v], l)} \ a.marks

\* Mutant: the search does not stop at decisions.
Redundant_ThroughDecisions(a, l, lowestDL) ==
    \E S \in SUBSET Vars :
       /\ UnmarkedBehind(a, var(l)) \subseteq S
       /\ \A v \in S : /\ a.model.level[v] >= lowestDL
                        /\ UnmarkedBehind(a, v) \subseteq S

\* The search from l back through the reasons comes to an end without meeting an
\* unmarked decision or an unmarked variable below lowestDL: some set of variables
\* free of both is closed under it.
Redundant(a, l, lowestDL) ==
    /\ ~LitIsDecision(a.model, l)
    /\ \E S \in SUBSET Vars :
          /\ UnmarkedBehind(a, var(l)) \subseteq S
          /\ \A v \in S : /\ a.model.level[v] >= lowestDL
                           /\ ~LitIsDecision(a.model, v)
                           /\ UnmarkedBehind(a, v) \subseteq S

\* The literals of the lemma are tested from the highest to the lowest, against
\* the marks of those that have not been dropped.
ShortenLiteral(w) ==
    LET a == ad[w]
        l == Highest(a.model, a.lemma)
        lowestDL == LitDl(a.model, Lowest(a.model, a.lemma))
    IN  /\ At(w, "shorten")
        /\ a.lemma # {}
        /\ \/ /\ Redundant(a, l, lowestDL)
              /\ Local(w, [a EXCEPT !.lemma = @ \ {l}, !.marks = @ \ {var(l)}])
           \/ /\ ~Redundant(a, l, lowestDL)
              /\ Local(w, [a EXCEPT !.lemma = @ \ {l},
                                    !.lemmaToLearn = @ \cup {l}])
-----------------------------------------------------------------------------
(* azuDICI_learn_lemma: the shortened lemma goes to the database as a clause of  *)
(* its size, and becomes the reason of the uip.                                 *)

ReadyToLearn(w) == At(w, "shorten") /\ ad[w].lemma = {}

Learned(a) == a.lemmaToLearn \cup {a.uip}

\* Mutants of AfterLearning: the uip stays marked; the lowest level instead of the
\* highest.
AfterLearning_UipMarked(a, reason) ==
    [a EXCEPT !.pc = "backjump", !.rUIP = reason,
              !.marks = @ \ {var(l) : l \in a.lemmaToLearn},
              !.lemmaToLearn = {},
              !.dlToBackjump =
                 IF a.lemmaToLearn = {} THEN 0
                 ELSE LitDl(a.model, Highest(a.model, a.lemmaToLearn))]

AfterLearning_Lowest(a, reason) ==
    [a EXCEPT !.pc = "backjump", !.rUIP = reason,
              !.marks = @ \ {var(l) : l \in Learned(a)},
              !.lemmaToLearn = {},
              !.dlToBackjump =
                 IF a.lemmaToLearn = {} THEN 0
                 ELSE LitDl(a.model, Lowest(a.model, a.lemmaToLearn))]

\* The worker goes on to backjump to the highest level in the rest of the lemma.
AfterLearning(a, reason) ==
    [a EXCEPT !.pc = "backjump", !.rUIP = reason,
              !.marks = @ \ {var(l) : l \in Learned(a)},
              !.lemmaToLearn = {},
              !.dlToBackjump =
                 IF a.lemmaToLearn = {} THEN 0
                 ELSE LitDl(a.model, Highest(a.model, a.lemmaToLearn))]

LearnUnit(w) ==
    LET a == ad[w]
    IN  /\ ReadyToLearn(w)
        /\ a.lemmaToLearn = {}
        /\ Sharing(w, AfterLearning([a EXCEPT !.lastUnit = @ + 1], NoReason),
                      InsertUnit(db, a.uip, FALSE, a.lastUnit))

\* One more binary in the list of each negated literal.
CountBinary(a, l1, l2) ==
    [a EXCEPT !.lastBins[-l1] = @ + 1, !.lastBins[-l2] = @ + 1]

LearnBinary(w) ==
    LET a == ad[w]
    IN  /\ ReadyToLearn(w)
        /\ \E l \in Lits :
              /\ a.lemmaToLearn = {l}
              /\ Sharing(w, AfterLearning(CountBinary(a, a.uip, l),
                                          [size |-> 2, lit |-> l, ptr |-> 0]),
                            InsertBinary(db, a.uip, l, FALSE, a.lastBins[-a.uip]))

LearnTernary(w) ==
    LET a == ad[w]
    IN  /\ ReadyToLearn(w)
        /\ Cardinality(a.lemmaToLearn) = 2
        /\ Sharing(w, AfterLearning([a EXCEPT !.lastTernary = @ + 1],
                                    [size |-> 3, lit |-> ZeroLit,
                                     ptr |-> EntryFor(db.tDB, FALSE, a.lastTernary)]),
                      InsertTernary(db, Learned(a), FALSE, w, a.lastTernary))

\* Mutant: only the first watch is linked in.
InsertThClause_OneWatch(a, t) ==
    [a EXCEPT !.thcdb = Append(@, t),
              !.watches[t.w1] = Cons(Len(a.thcdb) + 1, @)]

\* azuDICI_insert_th_clause: the clause is linked in at the head of two lists.
InsertThClause(a, t) ==
    [a EXCEPT !.thcdb = Append(@, t),
              !.watches = [l \in Lits |-> IF l \in {t.w1, t.w2}
                                          THEN Cons(Len(a.thcdb) + 1, @[l])
                                          ELSE @[l]]]

\* The two literals watched are the uip and the highest of the others.
OtherWatch_Lowest(a) == Lowest(a.model, a.lemmaToLearn)
OtherWatch(a) == Highest(a.model, a.lemmaToLearn)

LearnNary(w) ==
    LET a == ad[w]
        lemma == Learned(a)
        t == [pos |-> a.lastNary + 1, w1 |-> a.uip,
              w2 |-> OtherWatch(a), activity |-> 0]
    IN  /\ ReadyToLearn(w)
        /\ Cardinality(a.lemmaToLearn) > 2
        /\ Sharing(w, AfterLearning(InsertThClause([a EXCEPT !.lastNary = @ + 1], t),
                                    [size |-> Cardinality(lemma), lit |-> ZeroLit,
                                     ptr |-> Len(a.thcdb) + 1]),
                      InsertNary(db, lemma, FALSE, w, a.lastNary))
-----------------------------------------------------------------------------
(* azuDICI_backjump_to_dl, called after learning, to restart and to clean up. *)

Target_Zero(a) == 0 \* mutant: every jump is a restart
Target(a) == IF a.pc = "backjump" THEN a.dlToBackjump ELSE 0

Unwinding(w) == ad[w].pc \in {"backjump", "restartJump", "cleanupJump"}

\* Mutant: a restart empties the stack.
Unwind_LevelZero(w) ==
    /\ Unwinding(w)
    /\ \/ ad[w].model.decisionLvl > Target(ad[w])
       \/ At(w, "restartJump") /\ ad[w].model.stack # <<>>
    /\ Local(w, PopOne(ad[w]))

Unwind(w) ==
    /\ Unwinding(w)
    /\ ad[w].model.decisionLvl > Target(ad[w])
    /\ Local(w, PopOne(ad[w]))

\* azuDICI_set_true_uip ends the conflict.
SetTrueUip(w) ==
    LET a == ad[w]
    IN  /\ At(w, "backjump")
        /\ a.model.decisionLvl <= Target(a)
        /\ Local(w, [a EXCEPT !.pc = "propagate", !.uip = ZeroLit, !.rUIP = NoReason,
                              !.model = SetTrueWithReason(@, a.uip, a.rUIP)])

\* Mutant: the conflicts counted are not reset.
RestartIfAdequate_NotReset(w) ==
    LET a == ad[w]
    IN  /\ At(w, "restart")
        /\ \/ /\ a.sinceRestart >= a.restartLimit
              /\ Local(w, [a EXCEPT !.pc = "restartJump",
                                    !.restartLimit = nextRestartLimit[@]])
           \/ /\ a.sinceRestart < a.restartLimit
              /\ Local(w, [a EXCEPT !.pc = "cleanup"])

\* azuDICI_restart_if_adequate
RestartIfAdequate(w) ==
    LET a == ad[w]
    IN  /\ At(w, "restart")
        /\ \/ /\ a.sinceRestart >= a.restartLimit
              /\ Local(w, [a EXCEPT !.pc = "restartJump", !.sinceRestart = 0,
                                    !.restartLimit = nextRestartLimit[@]])
           \/ /\ a.sinceRestart < a.restartLimit
              /\ Local(w, [a EXCEPT !.pc = "cleanup"])

RestartDone(w) ==
    /\ At(w, "restartJump")
    /\ ad[w].model.decisionLvl = 0
    /\ Local(w, [ad[w] EXCEPT !.pc = "cleanup"])
-----------------------------------------------------------------------------
(* azuDICI_clause_cleanup_if_adequate *)

\* Mutant: the conflicts counted are not reset.
CleanupIfAdequate_NotReset(w) ==
    LET a == ad[w]
    IN  /\ At(w, "cleanup")
        /\ \/ /\ a.sinceCleanup >= a.cleanupLimit
              /\ Local(w, [a EXCEPT !.pc = "cleanupJump",
                                    !.cleanupLimit = (@ * 105) \div 100])
           \/ /\ a.sinceCleanup < a.cleanupLimit
              /\ Local(w, [a EXCEPT !.pc = "decide"])

\* currentCleanupLimit *= 1.05, truncated.
CleanupIfAdequate(w) ==
    LET a == ad[w]
    IN  /\ At(w, "cleanup")
        /\ \/ /\ a.sinceCleanup >= a.cleanupLimit
              /\ Local(w, [a EXCEPT !.pc = "cleanupJump", !.sinceCleanup = 0,
                                    !.cleanupLimit = (@ * 105) \div 100])
           \/ /\ a.sinceCleanup < a.cleanupLimit
              /\ Local(w, [a EXCEPT !.pc = "decide"])

StartCleaning(w) ==
    /\ At(w, "cleanupJump")
    /\ ad[w].model.decisionLvl = 0
    /\ Local(w, [ad[w] EXCEPT !.pc = "clean", !.watches = [l \in Lits |-> <<>>],
                              !.cursor = [NoCursor EXCEPT !.pos = 1]])

\* The literals of clause t not yet assigned at level 0.
Undefined(a, t) == {l \in ThLits(t) : IsUndef(a.model, l)}

\* Mutant: input clauses are treated like lemmas.
IsKept_LemmasOnly(t) ==
    t.activity >= ActivityThreshold \/ Cardinality(ThLits(t)) <= 4

\* Input clauses, lemmas used in a conflict since their activity was last low, and
\* lemmas of four literals are kept.
IsKept(t) ==
    \/ db.nDB[t.pos].original
    \/ t.activity >= ActivityThreshold
    \/ Cardinality(ThLits(t)) <= 4

\* Mutant: a literal that is not false is enough.
IsSatisfied_NotFalse(a, t) == \E l \in ThLits(t) : ~IsFalse(a.model, l)
IsSatisfied(a, t) == \E l \in ThLits(t) : IsTrue(a.model, l)

\* The worker's side and the database's side of storing what is left of a clause,
\* as a lemma of one, two or three literals.
ShrunkSolver(a, rest) ==
    LET first == CHOOSE l \in rest : TRUE
    IN  CASE Cardinality(rest) = 1 ->
                [a EXCEPT !.lastUnit = @ + 1,
                          !.model = SetTrueWithReason(@, first, NoReason)]
          [] Cardinality(rest) = 2 ->
                CountBinary(a, first, CHOOSE l \in rest : l # first)
          [] Cardinality(rest) = 3 -> [a EXCEPT !.lastTernary = @ + 1]

ShrunkDB(w, a, rest) ==
    CASE Cardinality(rest) = 1 ->
            InsertUnit(db, Min(rest), FALSE, a.lastUnit)
      [] Cardinality(rest) = 2 ->
            InsertBinary(db, Min(rest), Second(rest), FALSE, a.lastBins[-Min(rest)])
      [] Cardinality(rest) = 3 ->
            InsertTernary(db, rest, FALSE, w, a.lastTernary)

\* A clause of thcdb leaves the worker: its flag in nDB goes down, its pos becomes
\* -1 in the code.
Deleted(a, i) == [a EXCEPT !.thcdb[i].pos = 0]
FlagCleared_NotCleared(d, pos, w) == d \* mutant
FlagCleared(d, pos, w) == [d EXCEPT !.nDB[pos].flags[w] = FALSE]

\* One clause of the loop.  A rest of one literal is undefined when it is inserted, so that
\* the code does not return at azudici.c:638-640.  An empty rest, which the code would
\* store as if it were a ternary, does not occur once level 0 is propagated: here the
\* worker would stop.
CleanClause(w) ==
    LET a == ad[w]
        i == a.cursor.pos
        t == a.thcdb[i]
        rest == Undefined(a, t)
        next == [a EXCEPT !.cursor.pos = @ + 1]
    IN  /\ At(w, "clean")
        /\ i <= Len(a.thcdb)
        /\ \/ /\ ~IsKept(t) \/ IsSatisfied(a, t)
              /\ Sharing(w, Deleted(next, i), FlagCleared(db, t.pos, w))
           \/ /\ IsKept(t) /\ ~IsSatisfied(a, t)
              /\ Cardinality(rest) > 3
              /\ Local(w, next)
           \/ /\ IsKept(t) /\ ~IsSatisfied(a, t)
              /\ Cardinality(rest) \in 1..3
              /\ Sharing(w, Deleted(ShrunkSolver(next, rest), i),
                            FlagCleared(ShrunkDB(w, a, rest), t.pos, w))

\* azuDICI_compact_and_watch_thdb, and on to the propagation that ends the cleanup.
\* Reasons keep pointing at the old places, but only those of level 0 are left.
CompactAndWatch(w) ==
    LET a == ad[w]
        kept == InOrderOf({i \in DOMAIN a.thcdb : a.thcdb[i].pos # 0})
        aged == [n \in DOMAIN kept |-> [a.thcdb[kept[n]] EXCEPT !.activity = @ \div 2]]
    IN  /\ At(w, "clean")
        /\ a.cursor.pos > Len(a.thcdb)
        /\ Local(w, [a EXCEPT !.pc = "propagate", !.cursor = NoCursor,
                              !.cleaning = TRUE, !.thcdb = aged,
                              !.watches = WatchLists(aged)])
-----------------------------------------------------------------------------
(* azuDICI_decide *)

\* The random start r and every second variable after it, wrapping around.
RandomTry(r, k) == ((r - 1 + 2 * k) % N) + 1

\* The first undefined one, or 0.
RandomDecision(md, r) ==
    LET found == {k \in 0..RandomTries : IsUndefVar(md, RandomTry(r, k))}
    IN  IF found = {} THEN 0 ELSE RandomTry(r, Min(found))

RandomTurn(a) ==
    /\ a.model.decisionLvl < DLBelowWhichRandomDecisions
    /\ a.decisions = 0

\* Mutant: the first variable is not looked at.
HeapDecision_Assigned(md, heap, order) ==
    CHOOSE v \in heap : \A u \in heap : order[u] <= order[v]

\* The undefined variable the heap serves first.  Those served before it are
\* assigned, and leave the heap as it does.
HeapDecision(md, heap, order) ==
    CHOOSE v \in heap : /\ IsUndefVar(md, v)
                        /\ \A u \in heap : IsUndefVar(md, u) => order[u] <= order[v]

\* phaseSelectionLastPhase
DecisionLit(md, v) == IF md.phase[v] THEN v ELSE -v

\* numDecisions counts modulo fractionRandomDecisions.
Decided(a, v) ==
    [a EXCEPT !.pc = "propagate",
              !.model = SetTrueDecision(@, DecisionLit(@, v)),
              !.decisions = (@ + 1) % FractionRandomDecisions]

\* A variable decided at random stays in the heap.
DecideAtRandom(w) ==
    LET a == ad[w]
    IN  /\ At(w, "decide")
        /\ RandomTurn(a)
        /\ \E r \in RandomVars :
              /\ RandomDecision(a.model, r) # 0
              /\ Local(w, Decided(a, RandomDecision(a.model, r)))

\* The heap is asked when it is not the turn of chance or chance finds nothing.
HeapTurn(a) ==
    RandomTurn(a) => \E r \in RandomVars : RandomDecision(a.model, r) = 0

DecideFromHeap(w) ==
    LET a == ad[w]
    IN  /\ At(w, "decide")
        /\ HeapTurn(a)
        /\ \E v \in a.heap : IsUndefVar(a.model, v)
        /\ \E order \in DecisionOrders :
              LET v == HeapDecision(a.model, a.heap, order)
              IN  Local(w, [Decided(a, v) EXCEPT
                              !.heap = {u \in a.heap : order[u] < order[v]}])

\* The heap runs empty: the model is taken for complete.
ReportSat(w) ==
    LET a == ad[w]
    IN  /\ At(w, "decide")
        /\ HeapTurn(a)
        /\ \A v \in a.heap : ~IsUndefVar(a.model, v)
        /\ Local(w, [a EXCEPT !.heap = {}, !.pc = "done", !.result = 10])
-----------------------------------------------------------------------------
Units(w) == StartSolve(w) \/ SetTrueUnit(w) \/ UnitsDone(w)

Propagation(w) ==
    \/ \E k \in Kinds : HandOutLiteral(w, k)
    \/ VisitBinary(w) \/ VisitTernary(w) \/ VisitNary(w)
    \/ ListDone(w) \/ PropagationDone(w)

Analysis(w) ==
    \/ ConflictAtLevelZero(w) \/ StartAnalysis(w) \/ MarkClause(w) \/ PopLiteral(w)
    \/ StartShortening(w) \/ ShortenLiteral(w)

Learning(w) ==
    \/ LearnUnit(w) \/ LearnBinary(w) \/ LearnTernary(w) \/ LearnNary(w)
    \/ Unwind(w) \/ SetTrueUip(w)

Upkeep(w) ==
    \/ RestartIfAdequate(w) \/ RestartDone(w)
    \/ CleanupIfAdequate(w) \/ StartCleaning(w) \/ CleanClause(w)
    \/ CompactAndWatch(w)

Decision(w) == DecideAtRandom(w) \/ DecideFromHeap(w) \/ ReportSat(w)

Worker(w) ==
    \/ Units(w) \/ Propagation(w) \/ Analysis(w)
    \/ Learning(w) \/ Upkeep(w) \/ Decision(w)

\* main has returned; without this step TLC would call the end a deadlock.
Exited == mainPc = "exit" /\ UNCHANGED vars

Next == Main \/ (\E w \in Workers : Worker(w)) \/ Exited

\* main and every thread are scheduled again and again by the operating system.
Fairness == WF_vars(Main) /\ \A w \in Workers : WF_vars(Worker(w))

SafeSpec == Init /\ [][Next]_vars
Spec == SafeSpec /\ Fairness

=============================================================================
