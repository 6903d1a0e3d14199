--------------------------- MODULE PropagationProofs ---------------------------
(***************************************************************************)
(* Proofs about propagation in the solver: PInv is inductive beside IInv,  *)
(* so that propagation is complete, no watch is left unsafe, every lemma   *)
(* is new, no input clause is lost, and the answers are right.             *)
(***************************************************************************)
EXTENDS SolverProofs

-----------------------------------------------------------------------------
(* What is done stays done *)

LEMMA InForceStays ==
    ASSUME NEW a, NEW b, NEW d, NEW e, NEW w, NEW P, NEW c \in Clause,
           FixedKept(a.model, b.model), CountersGrow(a, b), Counted(a, d), ThHeld(a, d),
           HeldKept(a, b), d \in ClauseDBType, Extends(d, e), FlagsKept(d, e, w),
           InForce(a, d, w, c)
    PROVE  InForce(b, e, w, c)
<1>1. CASE \E l \in c : Fixed(a.model, l)
  <2>1. PICK l \in c : Fixed(a.model, l)
    BY <1>1
  <2>2. l \in Lits /\ Fixed(b.model, l)
    BY <2>1 DEF FixedKept, Fixed, Clause
  <2> QED BY <2>2, Zenon DEF InForce
<1>2. CASE \E i \in 1..a.lastUnit : d.uDB[i] \in c
  <2>1. PICK i \in 1..a.lastUnit : d.uDB[i] \in c
    BY <1>2
  <2>2. i \in 1..b.lastUnit
    BY DEF CountersGrow
  <2>3. i \in DOMAIN d.uDB
    BY DbFields DEF Counted, CountersGrow
  <2>4. e.uDB[i] = d.uDB[i]
    BY <2>3 DEF Extends, Continues
  <2> QED BY <2>1, <2>2, <2>4 DEF InForce
<1>3. CASE \E l \in Lits : \E i \in 1..a.lastBins[l] : {-l, d.bDB[l][i]} \subseteq c
  <2>1. PICK l \in Lits : \E i \in 1..a.lastBins[l] : {-l, d.bDB[l][i]} \subseteq c
    BY <1>3
  <2>2. PICK i \in 1..a.lastBins[l] : {-l, d.bDB[l][i]} \subseteq c
    BY <2>1
  <2>3. i \in 1..b.lastBins[l]
    BY DEF CountersGrow
  <2>4. i \in DOMAIN d.bDB[l]
    BY DbFields DEF Counted, CountersGrow
  <2>5. e.bDB[l][i] = d.bDB[l][i]
    BY <2>4 DEF Extends, Continues
  <2>6. \E k \in Lits : \E j \in 1..b.lastBins[k] : {-k, e.bDB[k][j]} \subseteq c
    BY <2>2, <2>3, <2>5
  <2> QED BY <2>6 DEF InForce
<1>4. CASE \E i \in DOMAIN d.tDB : d.tDB[i].flags[w] /\ d.tDB[i].lits \subseteq c
  <2>1. PICK i \in DOMAIN d.tDB : d.tDB[i].flags[w] /\ d.tDB[i].lits \subseteq c
    BY <1>4
  <2>2. i \in DOMAIN e.tDB /\ e.tDB[i].flags[w] /\ e.tDB[i].lits = d.tDB[i].lits
    BY <2>1 DEF Extends, FlagsKept
  <2> QED BY <2>1, <2>2 DEF InForce
<1>5. CASE \E i \in DOMAIN a.thcdb : /\ a.thcdb[i].pos # 0
                                 /\ d.nDB[a.thcdb[i].pos].original
                                 /\ d.nDB[a.thcdb[i].pos].lits = c
  <2>1. PICK i \in DOMAIN a.thcdb : /\ a.thcdb[i].pos # 0
                                    /\ d.nDB[a.thcdb[i].pos].original
                                    /\ d.nDB[a.thcdb[i].pos].lits = c
    BY <1>5
  <2>2. PICK j \in DOMAIN b.thcdb : b.thcdb[j].pos = a.thcdb[i].pos
    BY <2>1 DEF HeldKept
  <2>3. a.thcdb[i].pos \in DOMAIN d.nDB
    BY <2>1 DEF ThHeld, ThGood
  <2>4. e.nDB[a.thcdb[i].pos].original /\ e.nDB[a.thcdb[i].pos].lits = c
    BY <2>1, <2>3 DEF Extends, FlagsKept
  <2> QED BY <2>1, <2>2, <2>4 DEF InForce
<1> QED BY <1>1, <1>2, <1>3, <1>4, <1>5, Zenon DEF InForce

LEMMA InputStays ==
    ASSUME NEW a, NEW b, NEW d, NEW e, NEW w, NEW P, P \subseteq Clause,
           FixedKept(a.model, b.model), CountersGrow(a, b), Counted(a, d), ThHeld(a, d),
           HeldKept(a, b), d \in ClauseDBType, Extends(d, e), FlagsKept(d, e, w),
           InputKept(a, d, w, P)
    PROVE  InputKept(b, e, w, P)
<1> SUFFICES ASSUME NEW c \in P \ {{}} PROVE InForce(b, e, w, c)
  BY DEF InputKept
<1>1. InForce(a, d, w, c)
  BY DEF InputKept
<1> QED BY <1>1, InForceStays

LEMMA CountersSame ==
    ASSUME NEW a, NEW b, Typed(a), SameCounters(a, b)
    PROVE  CountersGrow(a, b)
<1>1. a.lastUnit \in Nat /\ a.lastBins \in [Lits -> Nat]
  BY DEF Typed
<1>2. b.lastUnit = a.lastUnit /\ b.lastBins = a.lastBins
  BY DEF SameCounters
<1>3. \A l \in Lits : a.lastBins[l] \in Nat /\ b.lastBins[l] = a.lastBins[l]
  BY <1>1, <1>2
<1>4. a.lastUnit <= b.lastUnit /\ \A l \in Lits : a.lastBins[l] <= b.lastBins[l]
  BY <1>1, <1>2, <1>3
<1> QED BY <1>1, <1>2, <1>3, <1>4 DEF CountersGrow

\* A step of a worker that leaves the database, the counters and the clauses alone.
QuietStep(a, b, d, w) ==
    /\ SameCounters(a, b) /\ SameClauses(a.thcdb, b.thcdb)
    /\ Retains(a, b) /\ FixedKept(a.model, b.model) /\ AllCarried(a, b, d, w)
    /\ MarkersPassed(b.model)

LEMMA QuietKeeps ==
    ASSUME NEW a, NEW b, NEW d \in ClauseDBType, NEW w, NEW P, P \subseteq Clause,
           WorkerInv(a, d, P), PWorker(a, d, w, P), QuietStep(a, b, d, w),
           UnitsFixed(b, d), SizeGood(b, d), NewsWatched(b), ModelFound(b, P),
           b.pc = "clean" => FullyPropagated(b.model)
    PROVE  PWorker(b, d, w, P)
<1>1. Typed(a) /\ a.thcdb \in Seq(ThClause) /\ a.lastBins \in [Lits -> Nat]
  BY WorkerParts DEF Typed
<1>2. Counted(a, d) /\ ThHeld(a, d)
  BY DEF WorkerInv, Core
<1>3. /\ SameCounters(a, b) /\ SameClauses(a.thcdb, b.thcdb)
      /\ Retains(a, b) /\ FixedKept(a.model, b.model)
      /\ BinaryCarried(a, b, d) /\ TernaryCarried(a, b, d, w) /\ NaryCarried(a, b)
      /\ MarkersPassed(b.model)
  BY DEF QuietStep, AllCarried
<1>4. /\ BinaryDone(a, d) /\ TernaryDone(a, d, w) /\ NaryDone(a)
      /\ Twins(d, a.lastBins) /\ FlagsCount(a, d, w) /\ InputKept(a, d, w, P)
  BY DEF PWorker, Done, Lists, Input
<1>5. BinaryDone(b, d)
  BY <1>1, <1>2, <1>3, <1>4, BinaryStays DEF Counted, SameCounters
<1>6. TernaryDone(b, d, w)
  BY <1>3, <1>4, TernaryStays
<1>7. NaryDone(b)
  BY <1>1, <1>2, <1>3, <1>4, NaryStays
<1>8. Twins(d, b.lastBins) /\ FlagsCount(b, d, w)
  BY <1>3, <1>4 DEF SameCounters, FlagsCount
<1>9. InputKept(b, d, w, P)
  BY <1>1, <1>2, <1>3, <1>4, InputStays, CountersSame, HeldSame, FlagsSame, ExtendsSame
<1> QED BY <1>3, <1>5, <1>6, <1>7, <1>8, <1>9 DEF PWorker, Done, Lists, Input

\* Units that were all fixed stay so.
LEMMA UnitsStay ==
    ASSUME NEW a, NEW b, NEW d \in ClauseDBType, UnitsFixed(a, d), Counted(a, d),
           a.lastUnit \in Nat,
           a.pc \notin {"solve", "units", "backjump", "done"},
           FixedKept(a.model, b.model), b.lastUnit = a.lastUnit
    PROVE  UnitsFixed(b, d)
<1> SUFFICES ASSUME NEW i \in 1..a.lastUnit PROVE Fixed(b.model, d.uDB[i])
  BY DEF UnitsFixed
<1>1. Fixed(a.model, d.uDB[i])
  BY DEF UnitsFixed, UnitOpen
<1>2. d.uDB[i] \in Lits
  <2>1. i \in 1..Len(d.uDB) /\ d.uDB \in Seq(Lits)
    BY DbFields DEF Counted
  <2> QED BY <2>1
<1> QED BY <1>1, <1>2 DEF FixedKept, Fixed

\* Steps between loops: nothing is open, before or after.
CalmStep(a, b) ==
    /\ NothingOpen(a) /\ b.pc \notin {"binary", "ternary", "units", "backjump", "clean"}
    /\ SameCounters(a, b) /\ SameClauses(a.thcdb, b.thcdb)
    /\ Retains(a, b) /\ FixedKept(a.model, b.model) /\ MarkersPassed(b.model)

LEMMA CalmKeeps ==
    ASSUME NEW a, NEW b, NEW d \in ClauseDBType, NEW w, NEW P, P \subseteq Clause,
           WorkerInv(a, d, P), PWorker(a, d, w, P), CalmStep(a, b), ModelFound(b, P)
    PROVE  PWorker(b, d, w, P)
<1>1. Typed(a) /\ Counted(a, d) /\ a.lastUnit \in Nat
  BY WorkerParts DEF Core, Typed
<1>2. QuietStep(a, b, d, w)
  BY NothingToCarry DEF CalmStep, QuietStep, NothingOpen
<1>3. UnitsFixed(b, d)
  BY <1>1, UnitsStay DEF CalmStep, NothingOpen, PWorker, Done, SameCounters
<1>4. /\ SizeGood(b, d) /\ NewsWatched(b)
      /\ b.pc = "clean" => FullyPropagated(b.model)
  BY DEF CalmStep, SizeGood, NewsWatched
<1> QED BY <1>2, <1>3, <1>4, QuietKeeps

LEMMA FixedSame == ASSUME NEW m PROVE FixedKept(m, m)
BY DEF FixedKept

\* Such a step that leaves the model alone.
StillStep(a, b) ==
    /\ NothingOpen(a) /\ b.pc \notin {"binary", "ternary", "units", "backjump", "clean"}
    /\ SameCounters(a, b) /\ SameClauses(a.thcdb, b.thcdb)
    /\ b.model = a.model
    /\ Falling(a) => Falling(b)

LEMMA StillIsCalm ==
    ASSUME NEW a, NEW b, NEW d \in ClauseDBType, NEW w, NEW P, P \subseteq Clause,
           WorkerInv(a, d, P), PWorker(a, d, w, P), StillStep(a, b), ModelFound(b, P)
    PROVE  PWorker(b, d, w, P)
<1>1. a.model \in ModelType /\ TrailConsistent(a.model)
  BY WorkerParts
<1>2. Limit(b) <= Limit(a)
  BY <1>1, LimitFalls DEF StillStep
<1>3. Retains(a, b)
  BY <1>1, <1>2, RetainsSame DEF StillStep
<1>4. FixedKept(a.model, b.model) /\ MarkersPassed(b.model)
  BY FixedSame DEF StillStep, PWorker, Lists
<1>5. CalmStep(a, b)
  BY <1>3, <1>4 DEF StillStep, CalmStep
<1> QED BY <1>5, CalmKeeps

-----------------------------------------------------------------------------
(* From the struct of a worker to the program *)

LEMMA OthersKeep ==
    ASSUME NEW a, NEW d \in ClauseDBType, NEW e \in ClauseDBType, NEW P, P \subseteq Clause,
           NEW w, NEW u \in Workers \ {w}, Grows(d, e, w),
           WorkerInv(a, d, P), PWorker(a, d, u, P)
    PROVE  PWorker(a, e, u, P)
<1>1. /\ Typed(a) /\ Counted(a, d) /\ ThHeld(a, d)
      /\ a.pc = "ternary" => a.cursor.lit \in Lits
  BY WorkerParts DEF Core, Visiting
<1>2. /\ a.lastBins \in [Lits -> Nat] /\ a.lastTernary \in Nat /\ a.lastUnit \in Nat
      /\ a.cursor.size \in Nat
  BY <1>1 DEF Typed, Cursor
<1>3. /\ BinaryDone(a, d) /\ TernaryDone(a, d, u) /\ NaryDone(a) /\ UnitsFixed(a, d)
      /\ MarkersPassed(a.model) /\ SizeGood(a, d)
      /\ a.pc = "clean" => FullyPropagated(a.model)
      /\ Twins(d, a.lastBins) /\ FlagsCount(a, d, u) /\ NewsWatched(a)
      /\ InputKept(a, d, u, P) /\ ModelFound(a, P)
  BY DEF PWorker, Done, Lists, Input
<1>4. BinaryDone(a, e) /\ Twins(e, a.lastBins)
  BY <1>1, <1>2, <1>3, BinaryOfOthers
<1>5. TernaryDone(a, e, u) /\ FlagsCount(a, e, u)
  BY <1>1, <1>2, <1>3, TernaryOfOthers
<1>6. SizeGood(a, e)
  BY <1>1, <1>2, <1>3, SizesOfOthers
<1>7. UnitsFixed(a, e)
  <2>1. ASSUME NEW i \in 1..a.lastUnit PROVE e.uDB[i] = d.uDB[i]
    <3>1. i \in DOMAIN d.uDB
      BY <1>1, <1>2, DbFields DEF Counted
    <3> QED BY <3>1 DEF Grows, Extends, Continues
  <2> QED BY <1>3, <2>1 DEF UnitsFixed, UnitOpen
<1>8. FlagsKept(d, e, u) /\ Extends(d, e)
  <2>1. ASSUME NEW i \in DOMAIN d.tDB, d.tDB[i].flags[u] PROVE e.tDB[i].flags[u]
    BY <2>1 DEF Grows, Extends
  <2> QED BY <2>1 DEF Grows, FlagsKept
<1>9. InputKept(a, e, u, P)
  <2>1. SameCounters(a, a) /\ SameClauses(a.thcdb, a.thcdb)
    BY SameClausesSame DEF SameCounters
  <2> QED BY <1>1, <1>3, <1>8, <2>1, InputStays, FixedSame, CountersSame, HeldSame
<1> QED BY <1>3, <1>4, <1>5, <1>6, <1>7, <1>9 DEF PWorker, Done, Lists, Input

\* It is enough to look at the worker that makes the step, and at the database.
LEMMA SharingPInv ==
    ASSUME IInv, PInv, NEW w \in Workers, NEW b, NEW e, Sharing(w, b, e),
           ad[w].pc # "allocated", e \in ClauseDBType, Grows(db, e, w),
           TernariesListed(e), PWorker(b, e, w, Read)
    PROVE  PInv'
<1>1. Read' = Read /\ mainPc' = mainPc
  BY DEF Sharing, Read
<1>2. /\ ad'[w] = b /\ db' = e
      /\ \A u \in Workers \ {w} : ad'[u] = ad[u]
  BY SharingIs
<1>3. mainPc # "read" /\ db \in ClauseDBType /\ Read \subseteq Clause
  <2>1. formula \in Seq(Clause) /\ nread \in 0..Len(formula)
    BY DEF IInv, MainInv
  <2>2. Read \subseteq Clause
    BY <2>1 DEF Read
  <2> QED BY <2>2 DEF IInv, MainInv, DbInv
<1>4. ASSUME NEW u \in Workers, ad'[u].pc # "allocated"
      PROVE  PWorker(ad'[u], e, u, Read)
  <2>1. CASE u = w
    BY <1>2, <2>1
  <2>2. CASE u # w
    <3>1. u \in Workers \ {w} /\ ad'[u] = ad[u] /\ WorkerInv(ad[u], db, Read)
      BY <1>2, <2>2 DEF IInv
    <3>2. PWorker(ad[u], db, u, Read)
      BY <1>4, <3>1 DEF PInv
    <3>3. PWorker(ad[u], e, u, Read)
      BY <1>3, <3>1, <3>2, OthersKeep
    <3> QED BY <3>1, <3>3
  <2> QED BY <2>1, <2>2
<1> QED BY <1>1, <1>2, <1>3, <1>4 DEF PInv

LEMMA LocalPInv ==
    ASSUME IInv, PInv, NEW w \in Workers, NEW b, Local(w, b),
           ad[w].pc # "allocated", PWorker(b, db, w, Read)
    PROVE  PInv'
<1>1. Sharing(w, b, db) /\ db \in ClauseDBType
  BY DEF Local, Sharing, IInv, DbInv
<1>2. Grows(db, db, w) /\ TernariesListed(db)
  BY <1>1, GrowsSame DEF PInv
<1> QED BY <1>1, <1>2, SharingPInv

-----------------------------------------------------------------------------
(* The steps between the loops *)

LEMMA CalmStepsPInv ==
    ASSUME IInv, PInv, NEW w \in Workers,
           \/ PropagationDone(w) \/ ConflictAtLevelZero(w) \/ StartAnalysis(w)
           \/ MarkClause(w) \/ StartShortening(w) \/ ShortenLiteral(w)
           \/ RestartIfAdequate(w) \/ RestartDone(w) \/ CleanupIfAdequate(w)
    PROVE  PInv'
<1>1. BetweenLoops(w) /\ Still(w)
  BY CalmSteps, StillSteps
<1>2. PICK b : Local(w, b)
  BY <1>1 DEF BetweenLoops
<1>3. b = ad'[w]
  BY <1>2, LocalIs
<1>4. ad[w].pc # "allocated"
  BY RunningWorker DEF Worker, Propagation, Analysis, Upkeep
<1>5. PICK a : a = ad[w]
  OBVIOUS
<1>6. /\ WorkerInv(a, db, Read) /\ PWorker(a, db, w, Read)
      /\ db \in ClauseDBType /\ Read \subseteq Clause
  BY <1>4, <1>5, StepFacts
<1>7. /\ NothingOpen(a) /\ b.pc \notin {"binary", "ternary", "units", "backjump", "clean"}
      /\ Falling(a) => Falling(b)
      /\ b.model = a.model /\ SameCounters(a, b) /\ b.thcdb = a.thcdb
      /\ b.result \in {a.result, 20}
  BY <1>1, <1>3, <1>5 DEF BetweenLoops, Still
<1>8. StillStep(a, b)
  BY <1>7, SameClausesSame DEF StillStep
<1>9. ModelFound(b, Read)
  <2>1. a.pc # "done"
    BY <1>7 DEF NothingOpen
  <2>2. a.result = 0
    BY <1>6, <2>1, NoAnswerYet
  <2> QED BY <1>7, <2>2 DEF ModelFound
<1>10. PWorker(b, db, w, Read)
  BY <1>6, <1>8, <1>9, StillIsCalm
<1> QED BY <1>2, <1>4, <1>10, LocalPInv

-----------------------------------------------------------------------------
(* Popping *)

\* What a pop leaves of a worker, as far as PInv is concerned.
LEMMA PopLeaves ==
    ASSUME NEW a, NEW b, NEW d, NEW w, NEW P,
           WorkerInv(a, d, P), PWorker(a, d, w, P), a.model.decisionLvl > 0,
           b.model = PopAndSetUndef(a.model), Falling(a),
           b.model.decisionLvl = a.model.decisionLvl => Falling(b)
    PROVE  Retains(a, b) /\ MarkersPassed(b.model) /\ FixedKept(a.model, b.model)
<1>1. a.model \in ModelType /\ TrailConsistent(a.model) /\ MarkersPassed(a.model)
  BY WorkerParts DEF PWorker, Lists
<1>2. Retains(a, b)
  BY <1>1, PopLimit, RetainsPop
<1>3. MarkersPassed(b.model)
  BY <1>1, MarkersPop
<1>4. FixedKept(a.model, b.model)
  <2> SUFFICES ASSUME NEW l \in Lits, IsTrue(a.model, l), LitDl(a.model, l) = 0
               PROVE  IsTrue(b.model, l) /\ LitDl(b.model, l) = 0
    BY DEF FixedKept
  <2> QED BY <1>1, PopKeepsLevelZero DEF IsTrue, LitDl
<1> QED BY <1>2, <1>3, <1>4

LEMMA PopLiteralPInv ==
    ASSUME IInv, PInv, NEW w \in Workers, PopLiteral(w)
    PROVE  PInv'
<1>1. PICK a, l, r, x : /\ a = ad[w] /\ l = Top(a.model) /\ r = ReasonOfLit(a.model, l)
                        /\ x = [PopOne(a) EXCEPT !.poppedLit = l, !.marks = @ \ {var(l)},
                                                 !.thcdb = IncreaseActivity(@, r)]
  OBVIOUS
<1>2. a.pc = "pop" /\ ad[w].pc # "allocated"
  BY <1>1 DEF PopLiteral, At
<1>3. /\ WorkerInv(a, db, Read) /\ PWorker(a, db, w, Read) /\ Typed(a)
      /\ db \in ClauseDBType /\ Read \subseteq Clause /\ a.thcdb \in Seq(ThClause)
      /\ a.model \in ModelType /\ TrailConsistent(a.model)
      /\ ReasonsInv(a.model, a.thcdb, db, Read)
  BY <1>1, <1>2, StepFacts, WorkerParts
<1>4. /\ a.marks \in SUBSET Vars /\ a.lemma \in Clause /\ a.pending \in Nat
      /\ InAnalysis(a.model, a.marks, a.lemma, a.pending) /\ a.pending > 0
  BY <1>2, <1>3, WorkerParts DEF Place, Popped, Typed
<1>5. a.model.decisionLvl > 0
  BY <1>4 DEF InAnalysis
<1>6. \/ Local(w, PopOne(a))
      \/ /\ var(l) \in a.marks
         /\ \/ /\ a.pending # 1
               /\ Local(w, [x EXCEPT !.pc = "mark", !.pending = @ - 1,
                            !.clause = ClauseOfReason(a, r, l)])
            \/ Local(w, [x EXCEPT !.pc = "lemma", !.poppedLit = ZeroLit, !.pending = 0,
                            !.uip = -l, !.marks = @ \ {var(k) : k \in a.lemma}])
  BY <1>1 DEF PopLiteral
<1>7. ASSUME NEW b, Local(w, b), b.pc \in {"pop", "mark", "lemma"},
             b.model = PopAndSetUndef(a.model), SameCounters(a, b), b.result = a.result,
             SameClauses(a.thcdb, b.thcdb)
      PROVE  PInv'
  <2>1. Falling(a) /\ Falling(b)
    BY <1>2, <1>7 DEF Falling, PoppingNow
  <2>2. Retains(a, b) /\ MarkersPassed(b.model) /\ FixedKept(a.model, b.model)
    BY <1>3, <1>5, <1>7, <2>1, PopLeaves
  <2>3. CalmStep(a, b)
    BY <1>2, <1>7, <2>2 DEF CalmStep, NothingOpen
  <2>4. ModelFound(b, Read)
    <3>1. a.result = 0
      BY <1>2, <1>3, NoAnswerYet
    <3> QED BY <1>7, <3>1 DEF ModelFound
  <2>5. PWorker(b, db, w, Read)
    BY <1>3, <2>3, <2>4, CalmKeeps
  <2> QED BY <1>2, <1>7, <2>5, LocalPInv
<1>8. CASE Local(w, PopOne(a))
  <2>1. PICK b : b = PopOne(a)
    OBVIOUS
  <2>2. /\ b.pc = "pop" /\ b.model = PopAndSetUndef(a.model) /\ SameCounters(a, b)
        /\ b.result = a.result /\ b.thcdb = a.thcdb
    BY <1>2, <1>3, <2>1 DEF PopOne, Typed, Fields, SameCounters
  <2>3. Local(w, b)
    BY <1>8, <2>1
  <2> QED BY <1>7, <2>2, <2>3, SameClausesSame
<1>9. ASSUME var(l) \in a.marks
      PROVE  SameClauses(a.thcdb, IncreaseActivity(a.thcdb, r))
  <2>1. /\ ~IsUndefVar(a.model, var(l)) /\ l \in Lits /\ IsTrue(a.model, l)
        /\ LitDl(a.model, l) = a.model.decisionLvl
    <3>1. PICK n, marks2 : n = PopAndSetUndef(a.model) /\ marks2 = a.marks \ {var(l)}
      OBVIOUS
    <3>2. Unmarks(a.model, l, n, a.marks, marks2)
      BY <1>1, <3>1 DEF Unmarks
    <3>3. TopPopped(a.model, a.marks, a.lemma, l, n, marks2)
      BY <1>3, <1>4, <3>2, PoppedTop
    <3> QED BY <1>4, <1>9, <3>3 DEF TopPopped, InAnalysis
  <2>2. r \in Reason
    BY <1>1, <1>3, <2>1, LitFacts DEF ReasonOfLit, ModelType
  <2>3. r.size > 3 => r.ptr \in DOMAIN a.thcdb
    <3>1. SUFFICES ASSUME r.size > 3 PROVE r.ptr \in DOMAIN a.thcdb
      OBVIOUS
    <3>2. Implied(a.model, l)
      <4>1. r.size # 1
        BY <2>2, <3>1 DEF Reason
      <4> QED BY <1>1, <1>5, <2>1, <4>1 DEF Implied, LitIsDecision
    <3>3. Refers(a.thcdb, db, r)
      BY <1>1, <1>3, <2>1, <3>2 DEF ReasonsInv, Backs
    <3> QED BY <3>1, <3>3 DEF Refers
  <2> QED BY <1>3, <2>2, <2>3, ActivityMayRise
<1>10. /\ x.model = PopAndSetUndef(a.model) /\ SameCounters(a, x) /\ DOMAIN x = Fields
       /\ x.result = a.result /\ x.thcdb = IncreaseActivity(a.thcdb, r)
  BY <1>1, <1>3 DEF PopOne, Typed, Fields, SameCounters
<1>11. ASSUME var(l) \in a.marks,
              Local(w, [x EXCEPT !.pc = "mark", !.pending = @ - 1,
                                 !.clause = ClauseOfReason(a, r, l)])
       PROVE  PInv'
  <2>1. PICK b : b = [x EXCEPT !.pc = "mark", !.pending = @ - 1,
                               !.clause = ClauseOfReason(a, r, l)]
    OBVIOUS
  <2>2. b.pc = "mark" /\ b.model = x.model /\ SameCounters(a, b) /\ b.result = x.result
        /\ b.thcdb = x.thcdb
    BY <1>10, <2>1 DEF Fields, SameCounters
  <2>3. Local(w, b)
    BY <1>11, <2>1
  <2> QED BY <1>7, <1>9, <1>10, <1>11, <2>2, <2>3
<1>12. ASSUME var(l) \in a.marks,
              Local(w, [x EXCEPT !.pc = "lemma", !.poppedLit = ZeroLit, !.pending = 0,
                                 !.uip = -l, !.marks = @ \ {var(k) : k \in a.lemma}])
       PROVE  PInv'
  <2>1. PICK b : b = [x EXCEPT !.pc = "lemma", !.poppedLit = ZeroLit, !.pending = 0,
                               !.uip = -l, !.marks = @ \ {var(k) : k \in a.lemma}]
    OBVIOUS
  <2>2. b.pc = "lemma" /\ b.model = x.model /\ SameCounters(a, b) /\ b.result = x.result
        /\ b.thcdb = x.thcdb
    BY <1>10, <2>1 DEF Fields, SameCounters
  <2>3. Local(w, b)
    BY <1>12, <2>1
  <2> QED BY <1>7, <1>9, <1>10, <1>12, <2>2, <2>3
<1> QED BY <1>6, <1>8, <1>11, <1>12

\* While it backjumps, a worker keeps the lemma it has not yet used.
LEMMA BackjumpLeaves ==
    ASSUME NEW a, NEW b, NEW d \in ClauseDBType, NEW w, NEW P, P \subseteq Clause,
           WorkerInv(a, d, P), PWorker(a, d, w, P), a.pc = "backjump", b.pc = "backjump",
           a.model.decisionLvl > a.dlToBackjump, a.dlToBackjump \in Nat,
           b.model = PopAndSetUndef(a.model), SameCounters(a, b), b.thcdb = a.thcdb,
           b.uip = a.uip, b.rUIP = a.rUIP, b.dlToBackjump = a.dlToBackjump,
           b.result = a.result
    PROVE  PWorker(b, d, w, P)
<1>1. a.model \in ModelType /\ TrailConsistent(a.model)
  BY WorkerParts
<1>2. a.model.decisionLvl \in Nat /\ a.model.decisionLvl > 0
  BY <1>1 DEF ModelType
<1>3. Falling(a)
  BY DEF Falling, PoppingNow, Target
<1>4. b.model.decisionLvl = a.model.decisionLvl => Falling(b)
  BY DEF Falling, PoppingNow, Target
<1>5. Retains(a, b) /\ MarkersPassed(b.model) /\ FixedKept(a.model, b.model)
  BY <1>2, <1>3, <1>4, PopLeaves
<1>6. AllCarried(a, b, d, w)
  <2>1. \A l, i : BinaryOpen(a, d, l, i) => BinaryOpen(b, d, l, i)
    BY DEF BinaryOpen, IsNews
  <2>2. \A i, x, y : TernaryOpen(a, d, i, x, y) => TernaryOpen(b, d, i, x, y)
    BY DEF TernaryOpen, IsNews
  <2>3. \A i, x : NaryOpen(a, i, x) => NaryOpen(b, i, x)
    BY DEF NaryOpen, IsNews
  <2> QED BY <2>1, <2>2, <2>3 DEF AllCarried, BinaryCarried, TernaryCarried, NaryCarried
<1>7. QuietStep(a, b, d, w)
  BY <1>5, <1>6, SameClausesSame DEF QuietStep
<1>8. UnitsFixed(b, d)
  <2> SUFFICES ASSUME NEW i \in 1..a.lastUnit
               PROVE  UnitOpen(b, d, i) \/ Fixed(b.model, d.uDB[i])
    BY DEF UnitsFixed, SameCounters
  <2>1. UnitOpen(a, d, i) \/ Fixed(a.model, d.uDB[i])
    BY DEF PWorker, Done, UnitsFixed
  <2>2. UnitOpen(a, d, i) => UnitOpen(b, d, i)
    BY DEF UnitOpen
  <2>3. d.uDB[i] \in Lits
    <3>1. i \in 1..Len(d.uDB) /\ d.uDB \in Seq(Lits)
      BY WorkerParts, DbFields DEF Core, Counted, Typed
    <3> QED BY <3>1
  <2> QED BY <1>5, <2>1, <2>2, <2>3 DEF FixedKept, Fixed
<1>9. SizeGood(b, d)
  BY DEF SizeGood
<1>10. NewsWatched(b)
  <2>1. b.model.level = a.model.level
    BY <1>1, <1>2, PopKeeps
  <2> QED BY <2>1 DEF NewsWatched, PWorker, Lists, LitDl
<1>11. ModelFound(b, P)
  BY NoModelYet
<1> QED BY <1>7, <1>8, <1>9, <1>10, <1>11, QuietKeeps

LEMMA JumpToZeroLeaves ==
    ASSUME NEW a, NEW b, NEW d \in ClauseDBType, NEW w, NEW P, P \subseteq Clause,
           WorkerInv(a, d, P), PWorker(a, d, w, P),
           a.pc \in {"restartJump", "cleanupJump"}, b.pc = a.pc,
           a.model.decisionLvl > 0,
           b.model = PopAndSetUndef(a.model), SameCounters(a, b), b.thcdb = a.thcdb,
           b.result = a.result
    PROVE  PWorker(b, d, w, P)
<1>1. Falling(a)
  BY DEF Falling, PoppingNow, Target
<1>2. b.model.decisionLvl = a.model.decisionLvl => Falling(b)
  BY DEF Falling, PoppingNow, Target
<1>3. Retains(a, b) /\ MarkersPassed(b.model) /\ FixedKept(a.model, b.model)
  BY <1>1, <1>2, PopLeaves
<1>4. CalmStep(a, b)
  BY <1>3, SameClausesSame DEF CalmStep, NothingOpen
<1>5. ModelFound(b, P)
  BY NoModelYet
<1> QED BY <1>4, <1>5, CalmKeeps

LEMMA UnwindPInv == ASSUME IInv, PInv, NEW w \in Workers, Unwind(w) PROVE PInv'
<1>1. PICK a, b : a = ad[w] /\ b = PopOne(a)
  OBVIOUS
<1>2. /\ a.pc \in {"backjump", "restartJump", "cleanupJump"}
      /\ a.model.decisionLvl > Target(a) /\ Local(w, b) /\ ad[w].pc # "allocated"
  BY <1>1 DEF Unwind, Unwinding
<1>3. /\ WorkerInv(a, db, Read) /\ PWorker(a, db, w, Read) /\ Typed(a)
      /\ db \in ClauseDBType /\ Read \subseteq Clause
  BY <1>1, <1>2, StepFacts
<1>4. /\ b.pc = a.pc /\ b.model = PopAndSetUndef(a.model) /\ SameCounters(a, b)
      /\ b.thcdb = a.thcdb /\ b.uip = a.uip /\ b.rUIP = a.rUIP
      /\ b.dlToBackjump = a.dlToBackjump /\ b.result = a.result
  BY <1>1, <1>3 DEF PopOne, Typed, Fields, SameCounters
<1>5. PWorker(b, db, w, Read)
  <2>1. CASE a.pc = "backjump"
    <3>1. a.model.decisionLvl > a.dlToBackjump /\ a.dlToBackjump \in Nat
      BY <1>2, <1>3, <2>1 DEF Target, Typed
    <3> QED BY <1>3, <1>4, <2>1, <3>1, BackjumpLeaves
  <2>2. CASE a.pc \in {"restartJump", "cleanupJump"}
    <3>1. a.model.decisionLvl > 0
      BY <1>2, <2>2 DEF Target
    <3> QED BY <1>3, <1>4, <2>2, <3>1, JumpToZeroLeaves
  <2> QED BY <1>2, <2>1, <2>2
<1> QED BY <1>2, <1>5, LocalPInv

LEMMA StartCleaningPInv ==
    ASSUME IInv, PInv, NEW w \in Workers, StartCleaning(w)
    PROVE  PInv'
<1>1. PICK a, b : /\ a = ad[w]
                  /\ b = [a EXCEPT !.pc = "clean", !.watches = [l \in Lits |-> <<>>],
                                   !.cursor = [NoCursor EXCEPT !.pos = 1]]
  OBVIOUS
<1>2. /\ a.pc = "cleanupJump" /\ a.model.decisionLvl = 0 /\ Local(w, b)
      /\ ad[w].pc # "allocated"
  BY <1>1 DEF StartCleaning, At
<1>3. /\ WorkerInv(a, db, Read) /\ PWorker(a, db, w, Read) /\ Typed(a)
      /\ db \in ClauseDBType /\ Read \subseteq Clause
      /\ a.model \in ModelType /\ TrailConsistent(a.model)
      /\ Counted(a, db) /\ a.lastUnit \in Nat
  BY <1>1, <1>2, StepFacts DEF WorkerInv, Core, Typed
<1>4. /\ b.pc = "clean" /\ b.model = a.model /\ SameCounters(a, b)
      /\ b.thcdb = a.thcdb /\ b.result = a.result
  BY <1>1, <1>3 DEF Typed, Fields, SameCounters
<1>5. ~PoppingNow(a) /\ ~Falling(a)
  BY <1>2 DEF PoppingNow, Falling, Target
<1>6. Retains(a, b)
  <2>1. Limit(b) <= Limit(a)
    BY <1>3, <1>4, <1>5, LimitFalls
  <2> QED BY <1>3, <1>4, <2>1, RetainsSame
<1>7. FixedKept(a.model, b.model) /\ MarkersPassed(b.model)
  BY <1>3, <1>4, FixedSame DEF PWorker, Lists
<1>8. QuietStep(a, b, db, w)
  <2>1. AllCarried(a, b, db, w)
    BY <1>2, NothingToCarry
  <2> QED BY <1>4, <1>6, <1>7, <2>1, SameClausesSame DEF QuietStep
<1>9. UnitsFixed(b, db)
  BY <1>2, <1>3, <1>4, <1>7, UnitsStay DEF PWorker, Done, SameCounters
<1>10. SizeGood(b, db) /\ NewsWatched(b)
  BY <1>4 DEF SizeGood, NewsWatched
<1>11. FullyPropagated(b.model)
  BY <1>2, <1>3, <1>4, <1>5 DEF WorkerInv, Place, CursorInv
<1>12. ModelFound(b, Read)
  BY <1>2, <1>3, <1>4, NoModelYet
<1>13. PWorker(b, db, w, Read)
  BY <1>3, <1>8, <1>9, <1>10, <1>11, <1>12, QuietKeeps
<1> QED BY <1>2, <1>13, LocalPInv

-----------------------------------------------------------------------------
(* Deciding *)

LEMMA DecidedLeaves ==
    ASSUME NEW a, NEW b, NEW d \in ClauseDBType, NEW w, NEW P, P \subseteq Clause,
           WorkerInv(a, d, P), PWorker(a, d, w, P), a.pc = "decide", b.pc = "propagate",
           NEW v \in Vars, IsUndefVar(a.model, v), DbInv(d, P),
           b.model = SetTrueDecision(a.model, DecisionLit(a.model, v)),
           SameCounters(a, b), b.thcdb = a.thcdb, b.result = a.result
    PROVE  PWorker(b, d, w, P)
<1>1. /\ a.model \in ModelType /\ TrailConsistent(a.model)
      /\ ModelInv(a.model, a.thcdb, d, P) /\ a.thcdb \in Seq(ThClause) /\ Typed(a)
  BY WorkerParts
<1>2. CursorsGood(a.model) /\ FullyPropagated(a.model)
  BY NotPopping
<1>3. PICK l : l = DecisionLit(a.model, v)
  OBVIOUS
<1>4. l \in Lits /\ IsUndef(a.model, l) /\ b.model = SetTrueDecision(a.model, l)
  BY <1>1, <1>3, DecisionLitUndef
<1>5. /\ b.model \in ModelType /\ ModelInv(b.model, a.thcdb, d, P)
      /\ CursorsGood(b.model) /\ KeepsAssigned(a.model, b.model)
  BY <1>1, <1>2, <1>4, DecisionModelInv
<1>6. TrailConsistent(b.model)
  BY <1>5 DEF ModelInv
<1>7. Limit(a) = a.model.decisionLvl
  <2>1. ~Falling(a)
    BY DEF Falling, PoppingNow
  <2> QED BY <1>1, <2>1, LimitIs
<1>8. Retains(a, b)
  BY <1>1, <1>2, <1>4, <1>5, <1>6, <1>7, RetainsDecision
<1>9. FixedKept(a.model, b.model)
  <2>1. Moves(a.model, b.model)
    BY <1>2, <1>4 DEF Moves
  <2> QED BY <1>1, <2>1, MovesKeepFixed
<1>10. CalmStep(a, b)
  BY <1>5, <1>8, <1>9, MarkersOf, SameClausesSame DEF CalmStep, NothingOpen
<1>11. ModelFound(b, P)
  BY NoModelYet
<1> QED BY <1>10, <1>11, CalmKeeps

LEMMA DecideAtRandomPInv ==
    ASSUME IInv, PInv, NEW w \in Workers, DecideAtRandom(w)
    PROVE  PInv'
<1>1. PICK a : a = ad[w]
  OBVIOUS
<1>2. a.pc = "decide" /\ ad[w].pc # "allocated"
  BY <1>1 DEF DecideAtRandom, At
<1>3. /\ WorkerInv(a, db, Read) /\ PWorker(a, db, w, Read) /\ Typed(a)
      /\ db \in ClauseDBType /\ Read \subseteq Clause /\ DbInv(db, Read)
  BY <1>1, <1>2, StepFacts
<1>4. PICK r \in RandomVars : /\ RandomDecision(a.model, r) # 0
                              /\ Local(w, Decided(a, RandomDecision(a.model, r)))
  BY <1>1 DEF DecideAtRandom
<1>5. PICK v, b : v = RandomDecision(a.model, r) /\ b = Decided(a, v)
  OBVIOUS
<1>6. v \in Vars /\ IsUndefVar(a.model, v)
  BY <1>4, <1>5, RandomDecisionIs
<1>7. /\ Differs(a, b, {"pc", "model", "decisions"}) /\ b.pc = "propagate"
      /\ b.model = SetTrueDecision(a.model, DecisionLit(a.model, v))
  BY <1>3, <1>5, DecidedFields
<1>8. SameCounters(a, b) /\ b.thcdb = a.thcdb /\ b.result = a.result
  BY <1>7 DEF Differs, Fields, SameCounters
<1>9. PWorker(b, db, w, Read)
  BY <1>2, <1>3, <1>6, <1>7, <1>8, DecidedLeaves
<1> QED BY <1>2, <1>4, <1>5, <1>9, LocalPInv

LEMMA DecideFromHeapPInv ==
    ASSUME IInv, PInv, NEW w \in Workers, DecideFromHeap(w)
    PROVE  PInv'
<1>1. PICK a : a = ad[w]
  OBVIOUS
<1>2. /\ a.pc = "decide" /\ ad[w].pc # "allocated"
      /\ \E u \in a.heap : IsUndefVar(a.model, u)
  BY <1>1 DEF DecideFromHeap, At
<1>3. /\ WorkerInv(a, db, Read) /\ PWorker(a, db, w, Read) /\ Typed(a)
      /\ db \in ClauseDBType /\ Read \subseteq Clause /\ DbInv(db, Read)
      /\ a.heap \in SUBSET Vars
  BY <1>1, <1>2, StepFacts DEF Typed
<1>4. PICK order \in DecisionOrders :
         LET v == HeapDecision(a.model, a.heap, order)
         IN  Local(w, [Decided(a, v) EXCEPT
                         !.heap = {u \in a.heap : order[u] < order[v]}])
  BY <1>1 DEF DecideFromHeap
<1>5. PICK v, c, b : /\ v = HeapDecision(a.model, a.heap, order)
                     /\ c = Decided(a, v)
                     /\ b = [c EXCEPT !.heap = {u \in a.heap : order[u] < order[v]}]
  OBVIOUS
<1>6. Local(w, b)
  BY <1>4, <1>5
<1>7. v \in Vars /\ IsUndefVar(a.model, v)
  BY <1>2, <1>3, <1>5, HeapDecisionIs
<1>8. /\ Differs(a, c, {"pc", "model", "decisions"}) /\ c.pc = "propagate"
      /\ c.model = SetTrueDecision(a.model, DecisionLit(a.model, v))
  BY <1>3, <1>5, DecidedFields
<1>9. /\ b.pc = c.pc /\ b.model = c.model /\ SameCounters(c, b)
      /\ b.thcdb = c.thcdb /\ b.result = c.result
  BY <1>5, <1>8 DEF Differs, Fields, SameCounters
<1>10. SameCounters(a, b) /\ b.thcdb = a.thcdb /\ b.result = a.result
  BY <1>8, <1>9 DEF Differs, Fields, SameCounters
<1>11. PWorker(b, db, w, Read)
  BY <1>2, <1>3, <1>7, <1>8, <1>9, <1>10, DecidedLeaves
<1> QED BY <1>2, <1>6, <1>11, LocalPInv

-----------------------------------------------------------------------------
(* Setting literals true *)

LEMMA AfterStep ==
    ASSUME IInv, IInv', NEW w \in Workers, NEW b, NEW e, Sharing(w, b, e)
    PROVE  /\ WorkerInv(b, e, Read) /\ DbInv(e, Read) /\ e \in ClauseDBType
           /\ b.model \in ModelType /\ TrailConsistent(b.model)
<1>1. Read' = Read
  BY DEF Sharing, Read
<1>2. ad'[w] = b /\ db' = e
  BY SharingIs
<1>3. WorkerInv(b, e, Read) /\ DbInv(e, Read)
  BY <1>1, <1>2 DEF IInv
<1> QED BY <1>3, WorkerParts DEF DbInv

LEMMA AfterLocal ==
    ASSUME IInv, IInv', NEW w \in Workers, NEW b, Local(w, b)
    PROVE  /\ WorkerInv(b, db, Read)
           /\ b.model \in ModelType /\ TrailConsistent(b.model)
<1>1. Sharing(w, b, db)
  BY DEF Local, Sharing
<1> QED BY <1>1, AfterStep

LEMMA SetLeaves ==
    ASSUME NEW a, NEW b, NEW d \in ClauseDBType, NEW w, NEW P,
           WorkerInv(a, d, P), WorkerInv(b, d, P), ~PoppingNow(a), ~PoppingNow(b),
           NEW l \in Lits, IsUndef(a.model, l), NEW r \in Reason,
           b.model = SetTrueWithReason(a.model, l, r), Falling(a) => Falling(b)
    PROVE  Retains(a, b) /\ MarkersPassed(b.model) /\ FixedKept(a.model, b.model)
<1>1. /\ a.model \in ModelType /\ TrailConsistent(a.model) /\ CursorsGood(a.model)
      /\ b.model \in ModelType /\ TrailConsistent(b.model) /\ CursorsGood(b.model)
      /\ a.thcdb \in Seq(ThClause) /\ ModelInv(a.model, a.thcdb, d, P)
  BY WorkerParts DEF CursorInv
<1>2. Limit(b) <= Limit(a)
  <2>1. b.model.decisionLvl = a.model.decisionLvl
    BY <1>1, SetTrueFields
  <2> QED BY <1>1, <2>1, LimitFalls
<1>3. Retains(a, b)
  BY <1>1, <1>2, RetainsSet
<1>4. FixedKept(a.model, b.model)
  <2>1. Moves(a.model, b.model)
    BY DEF Moves
  <2> QED BY <1>1, <2>1, MovesKeepFixed
<1> QED BY <1>1, <1>3, <1>4, MarkersOf

\* A step that sets nothing leaves as much.
LEMMA SameLeaves ==
    ASSUME NEW a, NEW b, NEW d \in ClauseDBType, NEW w, NEW P,
           WorkerInv(a, d, P), PWorker(a, d, w, P),
           b.model = a.model, Falling(a) => Falling(b)
    PROVE  Retains(a, b) /\ MarkersPassed(b.model) /\ FixedKept(a.model, b.model)
<1>1. a.model \in ModelType /\ TrailConsistent(a.model)
  BY WorkerParts
<1>2. Limit(b) <= Limit(a)
  BY <1>1, LimitFalls
<1>3. Retains(a, b)
  BY <1>1, <1>2, RetainsSame
<1> QED BY <1>3, FixedSame DEF PWorker, Lists

-----------------------------------------------------------------------------
(* The units *)

\* A step through the units.
UnitStep(a, b, d, w) ==
    /\ SameCounters(a, b) /\ b.thcdb = a.thcdb
    /\ Retains(a, b) /\ FixedKept(a.model, b.model) /\ MarkersPassed(b.model)
    /\ a.pc \in {"solve", "units"} /\ b.pc \in {"units", "propagate", "done"}
    /\ b.result = IF b.pc = "done" THEN 20 ELSE a.result
    /\ b.pc = "units" => b.cursor.size >= b.lastUnit
    /\ UnitsFixed(b, d)

LEMMA UnitStepKeeps ==
    ASSUME NEW a, NEW b, NEW d \in ClauseDBType, NEW w, NEW P, P \subseteq Clause,
           WorkerInv(a, d, P), PWorker(a, d, w, P), UnitStep(a, b, d, w)
    PROVE  PWorker(b, d, w, P)
<1>1. QuietStep(a, b, d, w)
  BY NothingToCarry, SameClausesSame DEF UnitStep, QuietStep
<1>2. SizeGood(b, d) /\ NewsWatched(b) /\ (b.pc = "clean" => FullyPropagated(b.model))
  BY DEF UnitStep, SizeGood, NewsWatched
<1>3. ModelFound(b, P)
  <2>1. a.result = 0
    BY NoAnswerYet DEF UnitStep
  <2> QED BY <2>1 DEF ModelFound, UnitStep
<1>4. UnitsFixed(b, d)
  BY DEF UnitStep
<1> QED BY <1>1, <1>2, <1>3, <1>4, QuietKeeps

LEMMA StartSolvePInv ==
    ASSUME IInv, PInv, NEW w \in Workers, StartSolve(w)
    PROVE  PInv'
<1>1. PICK a, c, b : /\ a = ad[w]
                     /\ c = [NoCursor EXCEPT !.pos = 1, !.size = Len(db.uDB)]
                     /\ b = [a EXCEPT !.pc = "units", !.cursor = c]
  OBVIOUS
<1>2. a.pc = "solve" /\ Local(w, b) /\ ad[w].pc # "allocated"
  BY <1>1 DEF StartSolve, At
<1>3. /\ WorkerInv(a, db, Read) /\ PWorker(a, db, w, Read) /\ Typed(a)
      /\ db \in ClauseDBType /\ Read \subseteq Clause
  BY <1>1, <1>2, StepFacts
<1>4. c.pos = 1 /\ c.size = Len(db.uDB)
  BY <1>1 DEF NoCursor
<1>5. /\ b.pc = "units" /\ b.model = a.model /\ SameCounters(a, b) /\ b.thcdb = a.thcdb
      /\ b.result = a.result /\ b.cursor.pos = 1 /\ b.cursor.size = Len(db.uDB)
  BY <1>1, <1>3, <1>4 DEF Typed, Fields, SameCounters
<1>6. Retains(a, b) /\ MarkersPassed(b.model) /\ FixedKept(a.model, b.model)
  <2>1. ~Falling(a)
    BY <1>2 DEF Falling, PoppingNow
  <2> QED BY <1>3, <1>5, <2>1, SameLeaves
<1>7. a.lastUnit \in Nat /\ Len(db.uDB) \in Nat /\ a.lastUnit <= Len(db.uDB)
  BY <1>3, DbFields DEF WorkerInv, Core, Counted, Typed
<1>8. UnitsFixed(b, db)
  BY <1>5, <1>7 DEF UnitsFixed, UnitOpen, SameCounters
<1>9. UnitStep(a, b, db, w)
  BY <1>2, <1>5, <1>6, <1>7, <1>8 DEF UnitStep, SameCounters
<1> QED BY <1>2, <1>3, <1>9, UnitStepKeeps, LocalPInv

LEMMA UnitsDonePInv ==
    ASSUME IInv, PInv, NEW w \in Workers, UnitsDone(w)
    PROVE  PInv'
<1>1. PICK a, b : a = ad[w] /\ b = [a EXCEPT !.pc = "propagate", !.cursor = NoCursor]
  OBVIOUS
<1>2. a.pc = "units" /\ a.cursor.pos > a.cursor.size /\ Local(w, b) /\ ad[w].pc # "allocated"
  BY <1>1 DEF UnitsDone, At
<1>3. /\ WorkerInv(a, db, Read) /\ PWorker(a, db, w, Read) /\ Typed(a)
      /\ db \in ClauseDBType /\ Read \subseteq Clause
  BY <1>1, <1>2, StepFacts
<1>4. /\ b.pc = "propagate" /\ b.model = a.model /\ SameCounters(a, b) /\ b.thcdb = a.thcdb
      /\ b.result = a.result
  BY <1>1, <1>3 DEF Typed, Fields, SameCounters
<1>5. Retains(a, b) /\ MarkersPassed(b.model) /\ FixedKept(a.model, b.model)
  <2>1. ~Falling(a)
    BY <1>2 DEF Falling, PoppingNow
  <2> QED BY <1>3, <1>4, <2>1, SameLeaves
<1>6. UnitsFixed(b, db)
  <2> SUFFICES ASSUME NEW i \in 1..a.lastUnit PROVE Fixed(a.model, db.uDB[i])
    BY <1>4 DEF UnitsFixed, SameCounters
  <2>1. UnitOpen(a, db, i) \/ Fixed(a.model, db.uDB[i])
    BY <1>3 DEF PWorker, Done, UnitsFixed
  <2>2. a.cursor.size >= a.lastUnit
    BY <1>2, <1>3 DEF PWorker, Lists, SizeGood
  <2>3. a.cursor.size \in Nat /\ a.cursor.pos \in Nat /\ a.lastUnit \in Nat
    BY <1>3 DEF Typed, Cursor
  <2>4. ~(i >= a.cursor.pos)
    BY <1>2, <2>2, <2>3
  <2> QED BY <1>2, <2>1, <2>4 DEF UnitOpen
<1>7. UnitStep(a, b, db, w)
  BY <1>2, <1>4, <1>5, <1>6 DEF UnitStep
<1> QED BY <1>2, <1>3, <1>7, UnitStepKeeps, LocalPInv

LEMMA SetTrueUnitPInv ==
    ASSUME IInv, IInv', PInv, NEW w \in Workers, SetTrueUnit(w)
    PROVE  PInv'
<1>1. PICK a, l : a = ad[w] /\ l = db.uDB[a.cursor.pos]
  OBVIOUS
<1>2. a.pc = "units" /\ a.cursor.pos <= a.cursor.size /\ ad[w].pc # "allocated"
  BY <1>1 DEF SetTrueUnit, At
<1>3. /\ WorkerInv(a, db, Read) /\ PWorker(a, db, w, Read) /\ Typed(a)
      /\ db \in ClauseDBType /\ Read \subseteq Clause
      /\ a.model \in ModelType /\ TrailConsistent(a.model)
  BY <1>1, <1>2, StepFacts
<1>4. a.cursor.pos > 0 /\ a.cursor.size <= Len(db.uDB) /\ a.model.decisionLvl = 0
  BY <1>2, <1>3, WorkerParts DEF Visiting
<1>5. a.cursor.pos \in Nat /\ a.cursor.size \in Nat /\ a.lastUnit \in Nat
  BY <1>3 DEF Typed, Cursor
<1>6. l \in Lits
  <2>1. a.cursor.pos \in 1..Len(db.uDB) /\ db.uDB \in Seq(Lits)
    BY <1>2, <1>3, <1>4, <1>5, DbFields
  <2> QED BY <1>1, <2>1
<1>7. ~PoppingNow(a) /\ ~Falling(a)
  BY <1>2 DEF PoppingNow, Falling
<1>8. CASE IsFalse(a.model, l)
  <2>1. PICK b : b = [a EXCEPT !.pc = "done", !.result = 20]
    OBVIOUS
  <2>2. Local(w, b)
    BY <1>1, <1>8, <2>1 DEF SetTrueUnit, Finish
  <2>3. /\ b.pc = "done" /\ b.result = 20 /\ b.model = a.model /\ b.thcdb = a.thcdb
        /\ SameCounters(a, b)
    BY <1>3, <2>1 DEF Typed, Fields, SameCounters
  <2>4. Retains(a, b) /\ MarkersPassed(b.model) /\ FixedKept(a.model, b.model)
    BY <1>3, <1>7, <2>3, SameLeaves
  <2>5. UnitStep(a, b, db, w)
    BY <1>2, <2>3, <2>4 DEF UnitStep, UnitsFixed, UnitOpen
  <2> QED BY <1>2, <1>3, <2>2, <2>5, UnitStepKeeps, LocalPInv
<1>9. ASSUME NEW b, Local(w, b), b.pc = "units", b.result = a.result,
             b.thcdb = a.thcdb, SameCounters(a, b), b.cursor = [a.cursor EXCEPT !.pos = @ + 1],
             Fixed(b.model, l),
             Retains(a, b), MarkersPassed(b.model), FixedKept(a.model, b.model)
      PROVE  PInv'
  <2>1. b.cursor.pos = a.cursor.pos + 1 /\ b.cursor.size = a.cursor.size
    BY <1>3, <1>9 DEF Typed, Cursor
  <2>2. UnitsFixed(b, db)
    <3> SUFFICES ASSUME NEW i \in 1..a.lastUnit
                 PROVE  i >= b.cursor.pos \/ Fixed(b.model, db.uDB[i])
      BY <1>9 DEF UnitsFixed, UnitOpen, SameCounters
    <3>1. UnitOpen(a, db, i) \/ Fixed(a.model, db.uDB[i])
      BY <1>3 DEF PWorker, Done, UnitsFixed
    <3>2. CASE i > a.cursor.pos
      BY <1>5, <2>1, <3>2
    <3>3. CASE i = a.cursor.pos
      BY <1>1, <1>9, <3>3
    <3>4. CASE i < a.cursor.pos
      <4>1. Fixed(a.model, db.uDB[i])
        BY <1>2, <1>5, <3>1, <3>4 DEF UnitOpen
      <4>2. db.uDB[i] \in Lits
        <5>1. i \in 1..Len(db.uDB) /\ db.uDB \in Seq(Lits)
          BY <1>3, DbFields DEF WorkerInv, Core, Counted, Typed
        <5> QED BY <5>1
      <4> QED BY <1>9, <4>1, <4>2 DEF FixedKept, Fixed
    <3> QED BY <1>5, <3>2, <3>3, <3>4
  <2>3. b.cursor.size >= b.lastUnit
    BY <1>2, <1>3, <1>9, <2>1 DEF PWorker, Lists, SizeGood, SameCounters
  <2>4. UnitStep(a, b, db, w)
    BY <1>2, <1>9, <2>2, <2>3 DEF UnitStep
  <2> QED BY <1>2, <1>3, <1>9, <2>4, UnitStepKeeps, LocalPInv
<1>10. CASE IsUndef(a.model, l)
  <2>1. PICK b : b = Propagate(a, l, NoReason)
    OBVIOUS
  <2>2. Local(w, b)
    BY <1>1, <1>10, <2>1 DEF SetTrueUnit, Propagate, IsFalse, IsUndef
  <2>3. /\ b.pc = "units" /\ b.result = a.result /\ b.thcdb = a.thcdb /\ SameCounters(a, b)
        /\ b.cursor = [a.cursor EXCEPT !.pos = @ + 1]
        /\ b.model = SetTrueWithReason(a.model, l, NoReason)
    BY <1>2, <1>3, <2>1 DEF Typed, Fields, SameCounters, Propagate
  <2>4. NoReason \in Reason
    BY DEF NoReason, Reason, ZeroLit
  <2>5. WorkerInv(b, db, Read) /\ ~PoppingNow(b)
    BY <2>2, <2>3, AfterLocal DEF PoppingNow
  <2>6. Retains(a, b) /\ MarkersPassed(b.model) /\ FixedKept(a.model, b.model)
    BY <1>3, <1>6, <1>7, <1>10, <2>3, <2>4, <2>5, SetLeaves
  <2>7. Fixed(b.model, l)
    BY <1>3, <1>4, <1>6, <1>10, <2>3, <2>4, SetTrueKeeps DEF Fixed
  <2> QED BY <1>9, <2>2, <2>3, <2>6, <2>7
<1>11. CASE ~IsFalse(a.model, l) /\ ~IsUndef(a.model, l)
  <2>1. PICK b : b = SkipEntry(a)
    OBVIOUS
  <2>2. [a EXCEPT !.cursor.pos = @ + 1, !.model = a.model] = b
    BY <1>3, <2>1 DEF Typed, Fields, SkipEntry
  <2>3. Local(w, b)
    BY <1>1, <1>11, <2>2 DEF SetTrueUnit
  <2>4. /\ b.pc = "units" /\ b.result = a.result /\ b.thcdb = a.thcdb /\ SameCounters(a, b)
        /\ b.cursor = [a.cursor EXCEPT !.pos = @ + 1] /\ b.model = a.model
    BY <1>2, <1>3, <2>1 DEF Typed, Fields, SameCounters, SkipEntry
  <2>5. Retains(a, b) /\ MarkersPassed(b.model) /\ FixedKept(a.model, b.model)
    BY <1>3, <1>7, <2>4, SameLeaves
  <2>6. Fixed(b.model, l)
    <3>1. IsTrue(a.model, l)
      BY <1>3, <1>6, <1>11, ValueOfLit
    <3>2. LitDl(a.model, l) \in Nat /\ LitDl(a.model, l) <= 0
      BY <1>3, <1>4, <1>6, <3>1, TrueLits
    <3> QED BY <2>4, <3>1, <3>2 DEF Fixed
  <2> QED BY <1>9, <2>3, <2>4, <2>5, <2>6
<1> QED BY <1>8, <1>10, <1>11

-----------------------------------------------------------------------------
(* Handing out a literal *)

LEMMA HandedOutDone ==
    ASSUME NEW a, NEW b, NEW d \in ClauseDBType, NEW w, NEW P, P \subseteq Clause,
           WorkerInv(a, d, P), WorkerInv(b, d, P), PWorker(a, d, w, P),
           TernariesListed(d), NEW k \in Kinds, NEW l \in Lits, HandedOut(a, b, k, l),
           SameCounters(a, b), b.thcdb = a.thcdb
    PROVE  BinaryDone(b, d) /\ TernaryDone(b, d, w) /\ NaryDone(b)
<1>1. /\ a.lastBins \in [Lits -> Nat] /\ Counted(a, d) /\ b.lastBins = a.lastBins
      /\ ThHeld(a, d) /\ a.thcdb \in Seq(ThClause) /\ -l \in Lits
  BY WorkerParts, LitFacts DEF Core, Typed, SameCounters
<1>2. BinaryDone(a, d) /\ TernaryDone(a, d, w) /\ NaryDone(a)
  BY DEF PWorker, Done
<1>3. a.pc = "propagate" /\ b.pc = k /\ b.cursor.lit = l /\ b.cursor.pos = 1
  BY DEF HandedOut
<1>4. BinaryDone(b, d)
  <2> SUFFICES ASSUME NEW x \in Lits, NEW i \in 1..a.lastBins[x], Passed(b, "binary", -x)
               PROVE  BinaryOpen(b, d, x, i) \/ Rescued(b.model, -x, d.bDB[x][i])
    BY <1>1 DEF BinaryDone
  <2>1. -x \in Lits /\ d.bDB[x][i] \in Lits
    <3>1. i \in 1..Len(d.bDB[x]) /\ d.bDB[x] \in Seq(Lits)
      BY <1>1, DbFields DEF Counted
    <3> QED BY <3>1, LitFacts
  <2>2. CASE Passed(a, "binary", -x)
    <3>1. BinaryOpen(a, d, x, i) \/ Rescued(a.model, -x, d.bDB[x][i])
      BY <1>2, <2>2 DEF BinaryDone
    <3>2. ~BinaryOpen(a, d, x, i)
      BY <1>3 DEF BinaryOpen, IsNews
    <3> QED BY <2>1, <3>1, <3>2 DEF HandedOut
  <2>3. CASE "binary" = k /\ -x = -l
    <3>1. x = l
      BY <2>3, LitFacts
    <3> QED BY <1>3, <2>3, <3>1 DEF BinaryOpen
  <2> QED BY <2>1, <2>2, <2>3 DEF HandedOut, Kinds
<1>5. TernaryDone(b, d, w)
  <2> SUFFICES ASSUME NEW i \in DOMAIN d.tDB, d.tDB[i].flags[w],
                      NEW x \in d.tDB[i].lits, NEW y \in d.tDB[i].lits, x # y,
                      Passed(b, "ternary", x), Passed(b, "ternary", y)
               PROVE  \/ TernaryOpen(b, d, i, x, y)
                      \/ \E z \in d.tDB[i].lits :
                            Rescued(b.model, x, z) \/ Rescued(b.model, y, z)
    BY DEF TernaryDone
  <2>1. d.tDB[i].lits \subseteq Lits /\ "ternary" \in Kinds
    BY DbFields DEF Clause, Kinds
  <2>2. CASE Passed(a, "ternary", x) /\ Passed(a, "ternary", y)
    <3>1. \/ TernaryOpen(a, d, i, x, y)
          \/ \E z \in d.tDB[i].lits : Rescued(a.model, x, z) \/ Rescued(a.model, y, z)
      BY <1>2, <2>2 DEF TernaryDone
    <3>2. ~TernaryOpen(a, d, i, x, y)
      BY <1>3 DEF TernaryOpen, IsNews
    <3> QED BY <2>1, <3>1, <3>2 DEF HandedOut
  <2>3. CASE k = "ternary" /\ -l \in {x, y}
    <3>1. \E p \in DOMAIN d.ternaryWatches[-l] : d.ternaryWatches[-l][p] = i
      BY <2>3 DEF TernariesListed
    <3>2. \A p \in DOMAIN d.ternaryWatches[-l] : p >= 1
      BY <1>1, DbFields
    <3>3. Ahead(d.ternaryWatches[-l], 1, i)
      BY <3>1, <3>2 DEF Ahead
    <3> QED BY <1>3, <2>3, <3>3 DEF TernaryOpen
  <2> QED BY <2>1, <2>2, <2>3 DEF HandedOut
<1>6. NaryDone(b)
  <2> SUFFICES ASSUME NEW i \in DOMAIN a.thcdb, a.thcdb[i].pos # 0, NEW x, NEW y,
                      \/ x = a.thcdb[i].w1 /\ y = a.thcdb[i].w2
                      \/ x = a.thcdb[i].w2 /\ y = a.thcdb[i].w1,
                      Passed(b, "nary", x)
               PROVE  NaryOpen(b, i, x) \/ Rescued(b.model, x, y)
    BY DEF NaryDone, Guarded
  <2>1. x \in Lits /\ y \in Lits /\ "nary" \in Kinds
    <3>1. a.thcdb[i] \in ThClause
      BY <1>1
    <3> QED BY <3>1 DEF ThClause, Kinds
  <2>2. CASE Passed(a, "nary", x)
    <3>1. NaryOpen(a, i, x) \/ Rescued(a.model, x, y)
      BY <1>2, <2>2 DEF NaryDone, Guarded
    <3>2. ~NaryOpen(a, i, x)
      BY <1>3 DEF NaryOpen, IsNews
    <3> QED BY <2>1, <3>1, <3>2 DEF HandedOut
  <2>3. CASE k = "nary" /\ x = -l
    <3>1. Linked(b.thcdb, b.watches) /\ b.watches \in [Lits -> Seq(Nat)]
      BY <1>3, <2>3, WorkerParts DEF Core, WatchInv, Typed
    <3>2. x \in Watched(b.thcdb[i]) /\ i \in DOMAIN b.thcdb
      BY DEF Watched
    <3>3. i \in Range(b.watches[x])
      BY <2>1, <3>1, <3>2 DEF Linked
    <3>4. PICK p \in DOMAIN b.watches[x] : b.watches[x][p] = i
      BY <3>3 DEF Range
    <3>5. p >= 1
      BY <2>1, <3>1
    <3> QED BY <1>3, <2>3, <3>4, <3>5 DEF NaryOpen, Ahead
  <2> QED BY <2>1, <2>2, <2>3 DEF HandedOut
<1> QED BY <1>4, <1>5, <1>6

LEMMA HandOutPInv ==
    ASSUME IInv, IInv', PInv, NEW w \in Workers, NEW k \in Kinds, HandOutLiteral(w, k)
    PROVE  PInv'
<1>1. PICK a, l, n, c : /\ a = ad[w] /\ l = NextLit(a.model, k) /\ n = Advance(a.model, k)
                        /\ c = [lit |-> l, pos |-> 1, size |-> ListSize(a, k, l)]
  OBVIOUS
<1>2. PICK b : b = [a EXCEPT !.pc = k, !.model = n, !.cursor = c]
  OBVIOUS
<1>3. /\ a.pc = "propagate" /\ HasNext(a.model, k) /\ Local(w, b) /\ ad[w].pc # "allocated"
  BY <1>1, <1>2 DEF HandOutLiteral, At
<1>4. /\ WorkerInv(a, db, Read) /\ PWorker(a, db, w, Read) /\ Typed(a)
      /\ db \in ClauseDBType /\ Read \subseteq Clause
      /\ a.model \in ModelType /\ TrailConsistent(a.model) /\ CursorsGood(a.model)
  BY <1>1, <1>3, StepFacts, NotPopping
<1>5. /\ b.pc = k /\ b.model = n /\ b.cursor = c /\ SameCounters(a, b)
      /\ b.thcdb = a.thcdb /\ b.result = a.result
  BY <1>2, <1>4 DEF Typed, Fields, SameCounters
<1>6. WorkerInv(b, db, Read) /\ k \in {"binary", "ternary", "nary"}
  BY <1>3, AfterLocal DEF Kinds
<1>7. l \in Lits /\ IsTrue(a.model, l)
  <2>1. ModelInv(a.model, a.thcdb, db, Read)
    BY <1>4, WorkerParts
  <2> QED BY <1>1, <1>3, <1>4, <2>1, AdvanceModelInv
<1>8. AdvanceTo(a.model, k, n, l)
  BY <1>1, <1>3 DEF AdvanceTo
<1>9. /\ n.value = a.model.value /\ n.level = a.model.level /\ n.height = a.model.height
      /\ n.decisionLvl = a.model.decisionLvl
      /\ \A j \in Kinds : \A x \in Lits :
            IsFalse(n, x) /\ LitHeight(n, x) <= n.last[j] =>
               LitHeight(a.model, x) <= a.model.last[j] \/ (j = k /\ x = -l)
  BY <1>4, <1>7, <1>8, AdvancePassed
<1>10. Limit(b) = Limit(a)
  BY <1>3, <1>5, <1>6, <1>9 DEF Limit, Falling, PoppingNow
<1>11. HandedOut(a, b, k, l)
  <2>1. ASSUME NEW j \in Kinds, NEW x \in Lits, Passed(b, j, x)
        PROVE  Passed(a, j, x) \/ (j = k /\ x = -l)
    <3>1. /\ IsFalse(n, x) /\ LitHeight(n, x) <= n.last[j] /\ LitDl(n, x) <= Limit(a)
      BY <1>5, <1>10, <2>1 DEF Passed
    <3>2. IsFalse(a.model, x) /\ LitDl(a.model, x) <= Limit(a)
      BY <1>9, <3>1 DEF IsFalse, LitDl
    <3> QED BY <1>9, <3>1, <3>2 DEF Passed
  <2>2. ASSUME NEW x \in Lits, NEW z \in Lits, Rescued(a.model, x, z)
        PROVE  Rescued(b.model, x, z)
    BY <1>5, <1>9, <2>2 DEF Rescued, IsTrue, LitDl
  <2>3. c.lit = l /\ c.pos = 1
    BY <1>1
  <2> QED BY <1>3, <1>5, <2>1, <2>2, <2>3 DEF HandedOut
<1>12. BinaryDone(b, db) /\ TernaryDone(b, db, w) /\ NaryDone(b)
  <2>1. TernariesListed(db)
    BY DEF PInv
  <2> QED BY <1>4, <1>5, <1>6, <1>7, <1>11, <2>1, HandedOutDone
<1>13. FixedKept(a.model, b.model)
  BY <1>5, <1>9 DEF FixedKept, IsTrue, LitDl
<1>14. UnitsFixed(b, db)
  <2>1. Counted(a, db) /\ a.lastUnit \in Nat
    BY <1>4 DEF WorkerInv, Core, Typed
  <2> QED BY <1>3, <1>4, <1>5, <1>13, <2>1, UnitsStay DEF PWorker, Done, SameCounters
<1>15. SizeGood(b, db)
  <2>1. c.lit = l /\ c.size = ListSize(a, k, l)
    BY <1>1
  <2>2. k = "binary" => c.size = b.lastBins[l]
    BY <1>5, <2>1 DEF ListSize, SameCounters
  <2>3. k = "ternary" => \A p \in DOMAIN db.ternaryWatches[-l] : ~(p > c.size)
    <3>1. -l \in Lits
      BY <1>7, LitFacts
    <3>2. DOMAIN db.ternaryWatches[-l] = 1..Len(db.ternaryWatches[-l])
          /\ Len(db.ternaryWatches[-l]) \in Nat
      BY <1>4, <3>1, DbFields
    <3> QED BY <2>1, <3>2 DEF ListSize
  <2> QED BY <1>5, <1>6, <2>1, <2>2, <2>3 DEF SizeGood
<1>16. /\ MarkersPassed(b.model) /\ NewsWatched(b)
       /\ b.pc = "clean" => FullyPropagated(b.model)
  <2>1. CursorsGood(b.model)
    BY <1>5, <1>6, NotPopping
  <2> QED BY <1>5, <1>6, <2>1, MarkersOf DEF NewsWatched
<1>17. Twins(db, b.lastBins) /\ FlagsCount(b, db, w)
  BY <1>4, <1>5 DEF PWorker, Lists, SameCounters, FlagsCount
<1>18. InputKept(b, db, w, Read)
  <2>1. Counted(a, db) /\ ThHeld(a, db) /\ InputKept(a, db, w, Read)
    BY <1>4 DEF WorkerInv, Core, PWorker, Input
  <2> QED BY <1>4, <1>5, <1>13, <2>1, InputStays, CountersSame, HeldSame, FlagsSame,
             ExtendsSame, SameClausesSame
<1>19. ModelFound(b, Read)
  BY <1>3, <1>4, <1>5, NoModelYet
<1>20. PWorker(b, db, w, Read)
  BY <1>12, <1>14, <1>15, <1>16, <1>17, <1>18, <1>19 DEF PWorker, Done, Lists, Input
<1> QED BY <1>3, <1>20, LocalPInv

-----------------------------------------------------------------------------
(* Visiting a list *)

\* A step of a loop over a list, but for what it settles.
VisitStep(a, b) ==
    /\ a.pc \in {"binary", "ternary", "nary"} /\ b.pc \in {a.pc, "propagate", "conflict"}
    /\ SameCounters(a, b) /\ SameClauses(a.thcdb, b.thcdb) /\ b.result = a.result
    /\ b.pc = a.pc => b.cursor.lit = a.cursor.lit /\ b.cursor.size = a.cursor.size

\* A step of a loop over a list keeps the invariant if it settles the entry.
LEMMA VisitKeeps ==
    ASSUME NEW a, NEW b, NEW d \in ClauseDBType, NEW w, NEW P, P \subseteq Clause,
           WorkerInv(a, d, P), PWorker(a, d, w, P), VisitStep(a, b), AllCarried(a, b, d, w),
           Retains(a, b) /\ MarkersPassed(b.model) /\ FixedKept(a.model, b.model)
    PROVE  PWorker(b, d, w, P)
<1>1. /\ a.pc \in {"binary", "ternary", "nary"} /\ b.pc \in {a.pc, "propagate", "conflict"}
      /\ SameCounters(a, b) /\ SameClauses(a.thcdb, b.thcdb) /\ b.result = a.result
      /\ b.pc = a.pc => b.cursor.lit = a.cursor.lit /\ b.cursor.size = a.cursor.size
  BY DEF VisitStep
<1>2. QuietStep(a, b, d, w)
  BY <1>1 DEF QuietStep
<1>3. UnitsFixed(b, d)
  <2>1. UnitsFixed(a, d) /\ Counted(a, d) /\ a.lastUnit \in Nat
    BY WorkerParts DEF PWorker, Done, Core, Typed
  <2> QED BY <1>1, <2>1, UnitsStay DEF SameCounters
<1>4. SizeGood(b, d)
  <2>1. SizeGood(a, d)
    BY DEF PWorker, Lists
  <2>2. b.pc = "binary" => b.cursor.size = b.lastBins[b.cursor.lit]
    BY <1>1, <2>1 DEF SizeGood, SameCounters
  <2>3. b.pc = "ternary" =>
          \A p \in DOMAIN d.ternaryWatches[-b.cursor.lit] :
             p > b.cursor.size => d.ternaryWatches[-b.cursor.lit][p] > b.lastTernary
    BY <1>1, <2>1 DEF SizeGood, SameCounters
  <2>4. b.pc # "units"
    BY <1>1
  <2> QED BY <2>2, <2>3, <2>4 DEF SizeGood
<1>5. NewsWatched(b)
  BY <1>1 DEF NewsWatched
<1>6. ModelFound(b, P)
  BY <1>1, NoModelYet
<1>7. b.pc # "clean"
  BY <1>1
<1> QED BY <1>2, <1>3, <1>4, <1>5, <1>6, <1>7, QuietKeeps

LEMMA ListDonePInv == ASSUME IInv, PInv, NEW w \in Workers, ListDone(w) PROVE PInv'
<1>1. PICK a, b : a = ad[w] /\ b = [a EXCEPT !.pc = "propagate", !.cursor = NoCursor]
  OBVIOUS
<1>2. AtEnd(a) /\ Local(w, b)
  BY <1>1 DEF ListDone, At, AtEnd
<1>3. a.pc \in {"binary", "ternary", "nary"} /\ ad[w].pc # "allocated"
  BY <1>1, <1>2 DEF AtEnd
<1>4. /\ WorkerInv(a, db, Read) /\ PWorker(a, db, w, Read) /\ Typed(a)
      /\ db \in ClauseDBType /\ Read \subseteq Clause
  BY <1>1, <1>3, StepFacts
<1>5. /\ b.pc = "propagate" /\ b.model = a.model /\ SameCounters(a, b)
      /\ b.thcdb = a.thcdb /\ b.result = a.result
  BY <1>1, <1>4 DEF Typed, Fields, SameCounters
<1>6. ~Falling(a)
  BY <1>3 DEF Falling, PoppingNow
<1>7. Retains(a, b) /\ MarkersPassed(b.model) /\ FixedKept(a.model, b.model)
  BY <1>4, <1>5, <1>6, SameLeaves
<1>8. VisitStep(a, b)
  BY <1>3, <1>5, SameClausesSame DEF VisitStep
<1>9. PWorker(b, db, w, Read)
  BY <1>2, <1>4, <1>7, <1>8, EndCarries, VisitKeeps
<1> QED BY <1>2, <1>3, <1>9, LocalPInv

\* A settled entry may be left behind.
LEMMA NextKeeps ==
    ASSUME NEW a, NEW b, NEW d \in ClauseDBType, NEW w, NEW P, P \subseteq Clause,
           WorkerInv(a, d, P), PWorker(a, d, w, P), TernariesListed(d),
           NextEntry(a, b), Settled(a, d, w, b.model),
           b.cursor.size = a.cursor.size,
           SameCounters(a, b), b.thcdb = a.thcdb, b.result = a.result,
           Retains(a, b) /\ MarkersPassed(b.model) /\ FixedKept(a.model, b.model)
    PROVE  PWorker(b, d, w, P)
<1>1. a.pc \in {"binary", "ternary", "nary"} /\ b.pc = a.pc
  BY DEF NextEntry
<1>2. /\ a.cursor.pos \in Nat /\ a.lastBins \in [Lits -> Nat]
      /\ a.watches \in [Lits -> Seq(Nat)] /\ a.cursor.lit \in Lits
  <2>1. Typed(a) /\ Visiting(a, d)
    BY WorkerParts
  <2> QED BY <1>1, <2>1 DEF Typed, Cursor, Visiting
<1>3. AllCarried(a, b, d, w)
  BY <1>2, BinaryNext, TernaryNext, NaryNext DEF AllCarried
<1>4. VisitStep(a, b)
  BY <1>1, SameClausesSame DEF VisitStep, NextEntry
<1> QED BY <1>3, <1>4, VisitKeeps

LEMMA SkipPInv ==
    ASSUME IInv, PInv, NEW w \in Workers, NEW a, a = ad[w],
           a.pc \in {"binary", "ternary", "nary"}, Local(w, SkipEntry(a)),
           Settled(a, db, w, a.model)
    PROVE  PInv'
<1>1. PICK b : b = SkipEntry(a)
  OBVIOUS
<1>2. /\ WorkerInv(a, db, Read) /\ PWorker(a, db, w, Read) /\ Typed(a)
      /\ db \in ClauseDBType /\ Read \subseteq Clause
  BY StepFacts
<1>3. /\ b.pc = a.pc /\ b.model = a.model /\ SameCounters(a, b) /\ b.watches = a.watches
      /\ b.thcdb = a.thcdb /\ b.result = a.result
      /\ b.cursor.lit = a.cursor.lit /\ b.cursor.size = a.cursor.size
      /\ b.cursor.pos = a.cursor.pos + 1
  BY <1>1, <1>2 DEF Typed, Fields, SameCounters, SkipEntry, Cursor
<1>4. Retains(a, b) /\ MarkersPassed(b.model) /\ FixedKept(a.model, b.model)
  <2>1. Falling(a) => Falling(b)
    BY <1>3 DEF Falling, PoppingNow
  <2> QED BY <1>2, <1>3, <2>1, SameLeaves
<1>5. NextEntry(a, b)
  BY <1>3 DEF NextEntry
<1>6. PWorker(b, db, w, Read)
  <2>1. TernariesListed(db)
    BY DEF PInv
  <2> QED BY <1>2, <1>3, <1>4, <1>5, <2>1, NextKeeps
<1> QED BY <1>1, <1>6, LocalPInv

LEMMA PropagatePInv ==
    ASSUME IInv, IInv', PInv, NEW w \in Workers, NEW a, a = ad[w],
           a.pc \in {"binary", "ternary", "nary"},
           NEW l \in Lits, IsUndef(a.model, l), NEW r \in Reason,
           Local(w, Propagate(a, l, r)),
           NEW n, n = SetTrueWithReason(a.model, l, r), Settled(a, db, w, n)
    PROVE  PInv'
<1>1. PICK b : b = Propagate(a, l, r)
  OBVIOUS
<1>2. /\ WorkerInv(a, db, Read) /\ PWorker(a, db, w, Read) /\ Typed(a)
      /\ db \in ClauseDBType /\ Read \subseteq Clause
  BY StepFacts
<1>3. /\ b.pc = a.pc /\ b.model = n /\ SameCounters(a, b) /\ b.watches = a.watches
      /\ b.thcdb = a.thcdb /\ b.result = a.result
      /\ b.cursor.lit = a.cursor.lit /\ b.cursor.size = a.cursor.size
      /\ b.cursor.pos = a.cursor.pos + 1
  BY <1>1, <1>2 DEF Typed, Fields, SameCounters, Propagate, Cursor
<1>4. Retains(a, b) /\ MarkersPassed(b.model) /\ FixedKept(a.model, b.model)
  <2>1. Falling(a) => Falling(b)
    BY <1>3 DEF Falling, PoppingNow
  <2>2. WorkerInv(b, db, Read)
    BY <1>1, AfterLocal
  <2>3. ~PoppingNow(a) /\ ~PoppingNow(b)
    BY <1>3 DEF PoppingNow
  <2> QED BY <1>2, <1>3, <2>1, <2>2, <2>3, SetLeaves
<1>5. NextEntry(a, b)
  BY <1>3 DEF NextEntry
<1>6. PWorker(b, db, w, Read)
  <2>1. TernariesListed(db)
    BY DEF PInv
  <2> QED BY <1>2, <1>3, <1>4, <1>5, <2>1, NextKeeps
<1> QED BY <1>1, <1>6, LocalPInv

\* What the struct is that is left in a conflict: but for an activity, what it was.
ConflictFrom(a, b) ==
    /\ a.pc \in {"binary", "ternary", "nary"} /\ b.pc = "conflict" /\ b.model = a.model
    /\ SameCounters(a, b) /\ SameClauses(a.thcdb, b.thcdb) /\ b.result = a.result

LEMMA InConflictPInv ==
    ASSUME IInv, PInv, NEW w \in Workers, NEW a, a = ad[w], NEW b, ConflictFrom(a, b),
           Local(w, b)
    PROVE  PInv'
<1>1. /\ a.pc \in {"binary", "ternary", "nary"} /\ b.pc = "conflict" /\ b.model = a.model
      /\ SameCounters(a, b) /\ SameClauses(a.thcdb, b.thcdb) /\ b.result = a.result
  BY DEF ConflictFrom
<1>2. /\ WorkerInv(a, db, Read) /\ PWorker(a, db, w, Read)
      /\ db \in ClauseDBType /\ Read \subseteq Clause
  BY <1>1, StepFacts
<1>3. Retains(a, b) /\ MarkersPassed(b.model) /\ FixedKept(a.model, b.model)
  <2>1. Falling(b)
    BY <1>1 DEF Falling
  <2> QED BY <1>1, <1>2, <2>1, SameLeaves
<1>4. AllCarried(a, b, db, w)
  BY <1>1, <1>2, ConflictCarries
<1>5. VisitStep(a, b)
  BY <1>1 DEF VisitStep
<1>6. PWorker(b, db, w, Read)
  BY <1>2, <1>3, <1>4, <1>5, VisitKeeps
<1> QED BY <1>1, <1>6, LocalPInv

LEMMA ConflictOf ==
    ASSUME NEW a, Typed(a), a.pc \in {"binary", "ternary", "nary"}, NEW c,
           NEW b, b = InConflict(a, c)
    PROVE  ConflictFrom(a, b)
<1>1. /\ b.pc = "conflict" /\ b.model = a.model /\ SameCounters(a, b)
      /\ b.thcdb = a.thcdb /\ b.result = a.result
  BY DEF Typed, Fields, InConflict, SameCounters
<1> QED BY <1>1, SameClausesSame DEF ConflictFrom

LEMMA VisitBinaryPInv ==
    ASSUME IInv, IInv', PInv, NEW w \in Workers, VisitBinary(w)
    PROVE  PInv'
<1>1. PICK a, l, i : a = ad[w] /\ l = a.cursor.lit /\ i = a.cursor.pos
  OBVIOUS
<1>2. a.pc = "binary" /\ i <= a.cursor.size
  BY <1>1 DEF VisitBinary, At
<1>3. /\ WorkerInv(a, db, Read) /\ Typed(a) /\ TrailConsistent(a.model)
      /\ db \in ClauseDBType /\ a.model \in ModelType
      /\ l \in Lits /\ -l \in Lits
      /\ IsFalse(a.model, -l) /\ LitIsOfCurrentDl(a.model, -l)
      /\ i \in Nat /\ i > 0 /\ a.cursor.size \in Nat
  BY <1>1, <1>2, VisitFacts
<1>4. i \in DOMAIN db.bDB[l]
  <2>1. a.cursor.size <= a.lastBins[l] /\ a.lastBins[l] <= Len(db.bDB[l])
    BY <1>1, <1>2, <1>3, WorkerParts DEF Visiting, Core, Counted
  <2>2. a.lastBins[l] \in Nat
    BY <1>3 DEF Typed
  <2>3. Len(db.bDB[l]) \in Nat /\ DOMAIN db.bDB[l] = 1..Len(db.bDB[l])
    BY <1>3, DbFields
  <2> QED BY <1>2, <1>3, <2>1, <2>2, <2>3
<1>5. PICK k \in ReadBinary(l, i) :
         \/ IsTrue(a.model, k) /\ Local(w, SkipEntry(a))
         \/ /\ IsUndef(a.model, k)
            /\ Local(w, Propagate(a, k, [size |-> 2, lit |-> -l, ptr |-> 0]))
         \/ IsFalse(a.model, k) /\ Local(w, InConflict(a, {-l, k}))
  BY <1>1 DEF VisitBinary
<1>6. k = db.bDB[l][i]
  BY <1>4, <1>5 DEF ReadBinary
<1>7. k \in Lits
  <2>1. db.bDB[l] \in Seq(Lits)
    BY <1>3, DbFields
  <2> QED BY <1>4, <1>6, <2>1
<1>8. ASSUME NEW n, Rescued(n, -l, k) PROVE Settled(a, db, w, n)
  BY <1>1, <1>2, <1>6, <1>8 DEF Settled, BinarySettled
<1>9. CASE IsTrue(a.model, k) /\ Local(w, SkipEntry(a))
  <2>1. Settled(a, db, w, a.model)
    BY <1>3, <1>7, <1>8, <1>9, TrueRescues
  <2> QED BY <1>1, <1>2, <1>9, <2>1, SkipPInv
<1>10. CASE /\ IsUndef(a.model, k)
            /\ Local(w, Propagate(a, k, [size |-> 2, lit |-> -l, ptr |-> 0]))
  <2>1. PICK r, n : /\ r = [size |-> 2, lit |-> -l, ptr |-> 0]
                    /\ n = SetTrueWithReason(a.model, k, r)
    OBVIOUS
  <2>2. r \in Reason
    BY <1>3, <2>1 DEF Reason
  <2>3. Settled(a, db, w, n)
    BY <1>3, <1>7, <1>8, <1>10, <2>1, <2>2, SetRescues
  <2>4. Local(w, Propagate(a, k, r))
    BY <1>10, <2>1
  <2> QED BY <1>1, <1>2, <1>7, <1>10, <2>1, <2>2, <2>3, <2>4, PropagatePInv
<1>11. CASE IsFalse(a.model, k) /\ Local(w, InConflict(a, {-l, k}))
  <2>1. PICK b : b = InConflict(a, {-l, k})
    OBVIOUS
  <2>2. ConflictFrom(a, b)
    BY <1>2, <1>3, <2>1, ConflictOf
  <2> QED BY <1>1, <1>11, <2>1, <2>2, InConflictPInv
<1> QED BY <1>5, <1>9, <1>10, <1>11

LEMMA VisitTernaryPInv ==
    ASSUME IInv, IInv', PInv, NEW w \in Workers, VisitTernary(w)
    PROVE  PInv'
<1>1. PICK a, l, e, c, notFalse :
         /\ a = ad[w] /\ l = a.cursor.lit
         /\ e = db.ternaryWatches[-l][a.cursor.pos] /\ c = db.tDB[e].lits
         /\ notFalse = {k \in c : ~IsFalse(a.model, k)}
  BY Zenon
<1>2. a.pc = "ternary" /\ a.cursor.pos <= a.cursor.size
  BY <1>1, Zenon DEF VisitTernary, At
<1>3. /\ WorkerInv(a, db, Read) /\ DbInv(db, Read) /\ Typed(a)
      /\ db \in ClauseDBType /\ a.model \in ModelType /\ TrailConsistent(a.model)
      /\ l \in Lits /\ -l \in Lits
      /\ IsFalse(a.model, -l) /\ LitIsOfCurrentDl(a.model, -l)
      /\ a.cursor.pos \in Nat /\ a.cursor.pos > 0 /\ a.cursor.size \in Nat
  BY <1>1, <1>2, VisitFacts, Zenon
<1>4. a.cursor.pos \in DOMAIN db.ternaryWatches[-l]
  <2>1. a.cursor.size <= Len(db.ternaryWatches[-l])
    BY <1>1, <1>2, <1>3, WorkerParts, Zenon DEF Visiting
  <2>2. /\ Len(db.ternaryWatches[-l]) \in Nat
        /\ DOMAIN db.ternaryWatches[-l] = 1..Len(db.ternaryWatches[-l])
    BY <1>3, DbFields
  <2> QED BY <1>2, <1>3, <2>1, <2>2
<1>5. e \in DOMAIN db.tDB /\ -l \in c /\ e \in Nat /\ c \in Clause
  <2>1. e \in DOMAIN db.tDB /\ -l \in c
    BY <1>1, <1>3, <1>4, Zenon DEF DbInv, DbLinked
  <2>2. e \in Nat
    BY <1>3, <2>1, DbFields
  <2>3. c \in Clause
    BY <1>1, <1>3, <2>1, DbFields, Zenon
  <2> QED BY <2>1, <2>2, <2>3
<1>6. \/ /\ \/ ~db.tDB[e].flags[w]
            \/ Cardinality(notFalse) > 1
            \/ \E k \in notFalse : IsTrue(a.model, k)
         /\ Local(w, SkipEntry(a))
      \/ \E k \in Lits : /\ notFalse = {k} /\ IsUndef(a.model, k)
                         /\ Local(w, Propagate(a, k, [size |-> 3, lit |-> ZeroLit,
                                                      ptr |-> e]))
      \/ Local(w, InConflict(a, c))
  BY <1>1, Zenon DEF VisitTernary
<1>7. ASSUME NEW n, NEW k \in c, Rescued(n, -l, k) PROVE Settled(a, db, w, n)
  BY <1>1, <1>2, <1>7, Zenon DEF Settled, TernarySettled
<1>8. CASE /\ \/ ~db.tDB[e].flags[w]
              \/ Cardinality(notFalse) > 1
              \/ \E k \in notFalse : IsTrue(a.model, k)
           /\ Local(w, SkipEntry(a))
  <2>1. CASE ~db.tDB[e].flags[w] \/ Cardinality(notFalse) > 1
    <3>1. Settled(a, db, w, a.model)
      BY <1>1, <1>2, <2>1, Zenon DEF Settled, TernarySettled
    <3> QED BY <1>1, <1>2, <1>8, <3>1, SkipPInv, Zenon
  <2>2. ASSUME NEW k \in notFalse, IsTrue(a.model, k) PROVE PInv'
    <3>1. k \in c /\ k \in Lits
      BY <1>1, <1>5, Zenon DEF Clause
    <3>2. Rescued(a.model, -l, k)
      BY <1>3, <2>2, <3>1, TrueRescues
    <3>3. Settled(a, db, w, a.model)
      BY <1>7, <3>1, <3>2
    <3> QED BY <1>1, <1>2, <1>8, <3>3, SkipPInv, Zenon
  <2> QED BY <1>8, <2>1, <2>2
<1>9. ASSUME NEW k \in Lits, notFalse = {k}, IsUndef(a.model, k),
             Local(w, Propagate(a, k, [size |-> 3, lit |-> ZeroLit, ptr |-> e]))
      PROVE  PInv'
  <2>1. PICK r, n : /\ r = [size |-> 3, lit |-> ZeroLit, ptr |-> e]
                    /\ n = SetTrueWithReason(a.model, k, r)
    OBVIOUS
  <2>2. r \in Reason
    BY <1>5, <2>1 DEF Reason
  <2>3. k \in c
    BY <1>1, <1>9, Zenon
  <2>4. Rescued(n, -l, k)
    BY <1>3, <1>9, <2>1, <2>2, SetRescues
  <2>5. Settled(a, db, w, n)
    BY <1>7, <2>3, <2>4
  <2>6. Local(w, Propagate(a, k, r))
    BY <1>9, <2>1
  <2> QED BY <1>1, <1>2, <1>9, <2>1, <2>2, <2>5, <2>6, PropagatePInv, Zenon
<1>10. CASE Local(w, InConflict(a, c))
  <2>1. PICK b : b = InConflict(a, c)
    OBVIOUS
  <2>2. ConflictFrom(a, b)
    BY <1>2, <1>3, <2>1, ConflictOf
  <2> QED BY <1>1, <1>10, <2>1, <2>2, InConflictPInv, Zenon
<1> QED BY <1>6, <1>8, <1>9, <1>10

LEMMA MovedKeeps ==
    ASSUME NEW a, NEW b, NEW d \in ClauseDBType, NEW w, NEW P, P \subseteq Clause,
           WorkerInv(a, d, P), PWorker(a, d, w, P),
           NEW id, NEW f, NEW new \in Lits, WatchMoved(a, b, id, f, new),
           a.cursor.pos \in DOMAIN a.watches[f], f \in Watched(a.thcdb[id]),
           ~IsFalse(a.model, new), SameCounters(a, b), b.result = a.result
    PROVE  PWorker(b, d, w, P)
<1>1. a.pc = "nary" /\ b.pc = "nary" /\ b.model = a.model
  BY DEF WatchMoved
<1>2. /\ Typed(a) /\ Counted(a, d) /\ ThHeld(a, d) /\ a.lastUnit \in Nat
      /\ a.lastBins \in [Lits -> Nat]
  BY WorkerParts DEF Core, Typed
<1>3. /\ BinaryDone(a, d) /\ TernaryDone(a, d, w) /\ NaryDone(a) /\ UnitsFixed(a, d)
      /\ Twins(d, a.lastBins) /\ FlagsCount(a, d, w) /\ InputKept(a, d, w, P)
  BY DEF PWorker, Done, Lists, Input
<1>4. Retains(a, b) /\ MarkersPassed(b.model) /\ FixedKept(a.model, b.model)
  <2>1. ~Falling(a)
    BY <1>1 DEF Falling, PoppingNow
  <2> QED BY <1>1, <2>1, SameLeaves
<1>5. BinaryCarried(a, b, d) /\ TernaryCarried(a, b, d, w)
  BY <1>1, OpenInLoop DEF BinaryCarried, TernaryCarried
<1>6. BinaryDone(b, d)
  BY <1>2, <1>3, <1>4, <1>5, BinaryStays DEF Counted, SameCounters
<1>7. TernaryDone(b, d, w)
  BY <1>3, <1>4, <1>5, TernaryStays
<1>8. NaryDone(b)
  BY <1>3, MovedNaryDone
<1>9. UnitsFixed(b, d)
  BY <1>1, <1>2, <1>3, <1>4, UnitsStay DEF SameCounters
<1>10. SizeGood(b, d) /\ NewsWatched(b) /\ b.pc # "clean"
  BY <1>1 DEF SizeGood, NewsWatched
<1>11. Twins(d, b.lastBins) /\ FlagsCount(b, d, w)
  BY <1>3 DEF SameCounters, FlagsCount
<1>12. InputKept(b, d, w, P)
  <2>1. HeldKept(a, b)
    BY Zenon DEF WatchMoved, Moved, HeldKept
  <2> QED BY <1>2, <1>3, <1>4, <2>1, InputStays, CountersSame, FlagsSame, ExtendsSame
<1>13. ModelFound(b, P)
  BY <1>1, NoModelYet
<1> QED BY <1>4, <1>6, <1>7, <1>8, <1>9, <1>10, <1>11, <1>12, <1>13
        DEF PWorker, Done, Lists, Input

LEMMA RewatchMoves ==
    ASSUME NEW a, NEW d, NEW P, WorkerInv(a, d, P), a.pc = "nary",
           NEW f, f = -a.cursor.lit, NEW new, NEW id, MayRewatch(a, d, f, new, id),
           NEW b, b = Rewatch(a, id, f, new)
    PROVE  WatchMoved(a, b, id, f, new) /\ SameCounters(a, b) /\ b.result = a.result
<1>1. /\ f \in Lits /\ new \in Lits /\ a.cursor.pos \in DOMAIN a.watches[f]
      /\ id = a.watches[f][a.cursor.pos] /\ new \notin Watched(a.thcdb[id])
  BY Zenon DEF MayRewatch
<1>2. Typed(a) /\ Core(a, d, P)
  BY DEF WorkerInv
<1>3. PICK p, th, W, th2, W2 :
         /\ p = a.cursor.pos /\ th = a.thcdb /\ W = a.watches
         /\ Rewatched(th2, th, id, f, new) /\ Relinked(W2, W, p, id, f, new)
  BY DEF Rewatched, Relinked
<1>4. th \in Seq(ThClause) /\ W \in [Lits -> Seq(Nat)] /\ Linked(th, W)
  BY <1>2, <1>3 DEF Typed, Core, WatchInv
<1>5. id \in DOMAIN th /\ f \in Watched(th[id])
  <2>1. id \in Range(W[f])
    BY <1>1, <1>3, Zenon DEF Range
  <2> QED BY <1>1, <1>4, <2>1, Zenon DEF Linked
<1>6. th[id].w1 # th[id].w2
  <2>1. ThGood(th[id], d)
    BY <1>2, <1>3, <1>5 DEF Core, ThHeld
  <2> QED BY <2>1 DEF ThGood
<1>7. Moved(th, f, new, id, th2, W2)
  <2>1. Rewatched(th2, th, id, f, new) /\ Relinked(W2, W, p, id, f, new)
    BY <1>3
  <2>2. WatchAt(th, W, f, new, p, id)
    BY <1>1, <1>3, <1>4, <1>6, Zenon DEF WatchAt
  <2> QED BY <2>1, <2>2, RewatchLinks
<1>8. f # new
  BY <1>1, <1>3, <1>5, Zenon
<1>9. W2[f] = RemoveAt(W[f], p)
  BY <1>1, <1>3, <1>4, <1>8, Zenon DEF Relinked
<1>10. b.thcdb = th2
  BY <1>2, <1>3 DEF Typed, Fields, Rewatch, Rewatched
<1>11. b.watches = W2
  BY <1>2, <1>3, <1>5, <1>8 DEF Typed, Fields, Rewatch, Relinked
<1>12. /\ b.pc = "nary" /\ b.model = a.model /\ b.cursor = a.cursor
       /\ SameCounters(a, b) /\ b.result = a.result
  BY <1>2 DEF Typed, Fields, Rewatch, SameCounters
<1>13. WatchMoved(a, b, id, f, new)
  <2>1. Moved(a.thcdb, f, new, id, b.thcdb, b.watches)
    BY <1>3, <1>7, <1>10, <1>11
  <2>2. b.watches[f] = RemoveAt(a.watches[f], a.cursor.pos)
    BY <1>3, <1>9, <1>11
  <2> QED BY <1>1, <1>12, <2>1, <2>2, Zenon DEF WatchMoved
<1> QED BY <1>12, <1>13

LEMMA VisitNaryPInv ==
    ASSUME IInv, IInv', PInv, NEW w \in Workers, VisitNary(w)
    PROVE  PInv'
<1>1. PICK a, l, f, id, t, other, c, free :
         /\ a = ad[w] /\ l = a.cursor.lit /\ f = -l
         /\ id = a.watches[f][a.cursor.pos] /\ t = a.thcdb[id]
         /\ other = IF t.w1 = f THEN t.w2 ELSE t.w1
         /\ c = ThLits(t) /\ free = {k \in c \ {f, other} : ~IsFalse(a.model, k)}
  BY Zenon
<1>2. a.pc = "nary" /\ a.cursor.pos <= Len(a.watches[f])
  BY <1>1, Zenon DEF VisitNary, At
<1>3. /\ WorkerInv(a, db, Read) /\ DbInv(db, Read) /\ Typed(a)
      /\ db \in ClauseDBType /\ a.model \in ModelType /\ TrailConsistent(a.model)
      /\ l \in Lits /\ f \in Lits
      /\ IsFalse(a.model, f) /\ LitIsOfCurrentDl(a.model, f)
  BY <1>1, <1>2, VisitFacts, Zenon
<1>4. /\ a.cursor.pos \in DOMAIN a.watches[f] /\ id \in DOMAIN a.thcdb
      /\ f # other /\ Watched(t) = {f, other} /\ {f, other} \subseteq c
      /\ c \in Clause /\ other \in Lits /\ ThGood(t, db)
  <2>1. WatchedEntry(a, db, f, id, t, other, c)
    BY <1>1, <1>2, Zenon DEF WatchedEntry, ThLits
  <2> QED BY <1>2, <1>3, <2>1, WatchedEntryIs
<1>5. ASSUME NEW n, Rescued(n, f, other) PROVE Settled(a, db, w, n)
  <2>1. \A y \in Watched(t) \ {f} : y = other
    BY <1>4
  <2>2. NarySettled(a, n)
    BY <1>1, <1>5, <2>1, Zenon DEF NarySettled
  <2> QED BY <1>2, <2>2 DEF Settled
<1>6. \/ IsTrue(a.model, other) /\ Local(w, SkipEntry(a))
      \/ free # {} /\ Local(w, Rewatch(a, id, f, Min(free)))
      \/ /\ IsUndef(a.model, other)
         /\ Local(w, Propagate(a, other, [size |-> Cardinality(c), lit |-> ZeroLit,
                                          ptr |-> id]))
      \/ Local(w, InConflict([a EXCEPT !.thcdb[id].activity = @ + 1], c))
  BY <1>1, Zenon DEF VisitNary
<1>7. CASE IsTrue(a.model, other) /\ Local(w, SkipEntry(a))
  <2>1. Settled(a, db, w, a.model)
    BY <1>3, <1>4, <1>5, <1>7, TrueRescues
  <2> QED BY <1>1, <1>2, <1>7, <2>1, SkipPInv, Zenon
<1>8. CASE free # {} /\ Local(w, Rewatch(a, id, f, Min(free)))
  <2>1. free \in Clause /\ free \subseteq c \ {f, other}
    BY <1>1, <1>4, Zenon DEF Clause
  <2>2. PICK new, b : new = Min(free) /\ b = Rewatch(a, id, f, new)
    OBVIOUS
  <2>3. new \in free /\ new \in Lits
    BY <1>8, <2>1, <2>2, LeastLiteral DEF Clause
  <2>4. new \notin Watched(a.thcdb[id]) /\ new \in db.nDB[a.thcdb[id].pos].lits
    BY <1>1, <1>4, <2>1, <2>3, ZenonT(40) DEF ThLits
  <2>5. MayRewatch(a, db, f, new, id)
    BY <1>1, <1>3, <1>4, <2>3, <2>4, Zenon DEF MayRewatch
  <2>6. WatchMoved(a, b, id, f, new) /\ SameCounters(a, b) /\ b.result = a.result
    <3>1. f = -a.cursor.lit /\ a.pc = "nary" /\ WorkerInv(a, db, Read)
      BY <1>1, <1>2, <1>3, Zenon
    <3>2. b = Rewatch(a, id, f, new)
      BY <2>2
    <3> QED BY <2>5, <3>1, <3>2, RewatchMoves
  <2>7. PWorker(a, db, w, Read) /\ Read \subseteq Clause
    BY <1>1, <1>2, StepFacts, Zenon
  <2>8. ~IsFalse(a.model, new) /\ f \in Watched(a.thcdb[id])
    BY <1>1, <1>4, <2>3, Zenon
  <2>9. PWorker(b, db, w, Read)
    BY <1>3, <1>4, <2>3, <2>6, <2>7, <2>8, MovedKeeps
  <2> QED BY <1>1, <1>2, <1>8, <2>2, <2>9, LocalPInv, Zenon
<1>9. CASE /\ IsUndef(a.model, other)
           /\ Local(w, Propagate(a, other, [size |-> Cardinality(c), lit |-> ZeroLit,
                                            ptr |-> id]))
  <2>1. PICK r, n : /\ r = [size |-> Cardinality(c), lit |-> ZeroLit, ptr |-> id]
                    /\ n = SetTrueWithReason(a.model, other, r)
    OBVIOUS
  <2>2. r \in Reason
    <3>1. Cardinality(c) \in Nat
      BY <1>4, ClauseSize
    <3>2. a.thcdb \in Seq(ThClause)
      BY <1>3 DEF Typed
    <3>3. id \in Nat
      BY <1>4, <3>2
    <3> QED BY <2>1, <3>1, <3>3 DEF Reason
  <2>3. Settled(a, db, w, n)
    BY <1>3, <1>4, <1>5, <1>9, <2>1, <2>2, SetRescues
  <2>4. Local(w, Propagate(a, other, r))
    BY <1>9, <2>1
  <2> QED BY <1>1, <1>2, <1>4, <1>9, <2>1, <2>2, <2>3, <2>4, PropagatePInv, Zenon
<1>10. CASE Local(w, InConflict([a EXCEPT !.thcdb[id].activity = @ + 1], c))
  <2>1. PICK b, th2 : /\ b = InConflict([a EXCEPT !.thcdb[id].activity = @ + 1], c)
                      /\ th2 = [a.thcdb EXCEPT ![id].activity = @ + 1]
    OBVIOUS
  <2>2. /\ b.pc = "conflict" /\ b.model = a.model /\ SameCounters(a, b)
        /\ b.thcdb = th2 /\ b.result = a.result
    BY <1>3, <2>1 DEF Typed, Fields, InConflict, SameCounters
  <2>3. SameClauses(a.thcdb, th2)
    BY <1>3, <1>4, <2>1, ActivityRaised DEF Typed
  <2>4. ConflictFrom(a, b)
    BY <1>2, <2>2, <2>3 DEF ConflictFrom
  <2> QED BY <1>1, <1>10, <2>1, <2>4, InConflictPInv, Zenon
<1> QED BY <1>6, <1>7, <1>8, <1>9, <1>10

-----------------------------------------------------------------------------
(* The new lemma is used: the literal that was false last is false at the level of *)
(* the uip, which rescues whatever was open.                                      *)

UsesUip(a, b) ==
    /\ a.pc = "backjump" /\ b.pc = "propagate"
    /\ a.model.decisionLvl <= a.dlToBackjump
    /\ b.model = SetTrueWithReason(a.model, a.uip, a.rUIP)
    /\ SameCounters(a, b) /\ b.thcdb = a.thcdb /\ b.result = a.result

LEMMA UipFacts ==
    ASSUME NEW a, NEW b, NEW d, NEW P, WorkerInv(a, d, P), UsesUip(a, b)
    PROVE  /\ a.uip \in Lits /\ IsUndef(a.model, a.uip) /\ a.rUIP \in Reason
           /\ ~PoppingNow(a) /\ ~Falling(a)
           /\ b.model \in ModelType /\ ~IsFalse(b.model, a.uip)
           /\ IsTrue(b.model, a.uip) /\ LitDl(b.model, a.uip) = a.dlToBackjump
           /\ \A x \in Lits : LitDl(a.model, x) = a.dlToBackjump /\ IsFalse(a.model, x)
                                 => Rescued(b.model, x, a.uip)
<1>1. /\ a.model \in ModelType /\ TrailConsistent(a.model) /\ Backjumping(a, d, P)
      /\ a.dlToBackjump \in Nat /\ a.model.decisionLvl \in Nat /\ a.rUIP \in Reason
  BY WorkerParts DEF Place, Typed
<1>2. a.pc = "backjump" /\ a.model.decisionLvl <= a.dlToBackjump
  BY DEF UsesUip
<1>3. /\ a.uip \in Lits /\ IsUndef(a.model, a.uip)
      /\ a.dlToBackjump = a.model.decisionLvl
  BY <1>1, <1>2 DEF Backjumping, UipGood
<1>4. ~PoppingNow(a) /\ ~Falling(a)
  BY <1>2, <1>3, <1>1 DEF PoppingNow, Falling, Target
<1>5. /\ b.model \in ModelType /\ KeepsAssigned(a.model, b.model)
      /\ IsTrue(b.model, a.uip) /\ LitDl(b.model, a.uip) = a.model.decisionLvl
  BY <1>1, <1>3, SetTrueKeeps DEF UsesUip
<1>6. ~IsFalse(b.model, a.uip)
  BY <1>3, <1>5, ValueOfLit
<1>7. ASSUME NEW x \in Lits, LitDl(a.model, x) = a.dlToBackjump, IsFalse(a.model, x)
      PROVE  Rescued(b.model, x, a.uip)
  <2>1. ~IsUndef(a.model, x)
    BY <1>1, <1>7, ValueOfLit
  <2>2. LitDl(b.model, x) = LitDl(a.model, x)
    BY <1>5, <2>1 DEF KeepsAssigned, KeptLit
  <2> QED BY <1>1, <1>3, <1>5, <1>7, <2>2 DEF Rescued
<1> QED BY <1>1, <1>3, <1>4, <1>5, <1>6, <1>7

\* In the new lemma, the literal that was false last.
LEMMA LastFalse ==
    ASSUME NEW a, NEW b, NEW d, NEW P, WorkerInv(a, d, P), UsesUip(a, b),
           a.rUIP.size > 1
    PROVE  \E l \in ReasonClause(a.thcdb, d, a.rUIP, a.uip) \ {a.uip} :
              LitDl(a.model, l) = a.dlToBackjump /\ IsFalse(a.model, l)
<1>1. Backjumping(a, d, P) /\ a.pc = "backjump"
  BY DEF WorkerInv, Place, UsesUip
<1>2. a.rUIP # NoReason
  BY DEF NoReason
<1> QED BY <1>1, <1>2 DEF Backjumping, Backs

LEMMA BinaryOfUip ==
    ASSUME NEW a, NEW b, NEW d \in ClauseDBType, NEW P, WorkerInv(a, d, P),
           UsesUip(a, b), Counted(a, d), a.lastBins \in [Lits -> Nat]
    PROVE  BinaryCarried(a, b, d)
<1> SUFFICES ASSUME NEW l \in Lits, NEW i \in 1..a.lastBins[l], BinaryOpen(a, d, l, i),
                    Passed(b, "binary", -l)
             PROVE  Rescued(b.model, -l, d.bDB[l][i])
  BY DEF BinaryCarried
<1>1. IsNews(a, 2, 0) /\ {-l, d.bDB[l][i]} = {a.uip, a.rUIP.lit}
  BY DEF BinaryOpen, UsesUip
<1>2. a.rUIP.size = 2
  BY <1>1 DEF IsNews
<1>3. IsFalse(b.model, -l) /\ -l \in Lits
  BY LitFacts DEF Passed
<1>4. ~IsFalse(b.model, a.uip)
  BY UipFacts
<1>5. -l = a.rUIP.lit /\ d.bDB[l][i] = a.uip
  <2>1. -l # a.uip
    BY <1>3, <1>4
  <2> QED BY <1>1, <2>1
<1>6. PICK k \in ReasonClause(a.thcdb, d, a.rUIP, a.uip) \ {a.uip} :
         LitDl(a.model, k) = a.dlToBackjump /\ IsFalse(a.model, k)
  BY <1>2, LastFalse
<1>7. ReasonClause(a.thcdb, d, a.rUIP, a.uip) = {a.uip, a.rUIP.lit}
  BY <1>2 DEF ReasonClause
<1>8. k = -l
  BY <1>5, <1>6, <1>7
<1> QED BY <1>3, <1>5, <1>6, <1>8, UipFacts

LEMMA TernaryOfUip ==
    ASSUME NEW a, NEW b, NEW d \in ClauseDBType, NEW w, NEW P, WorkerInv(a, d, P),
           UsesUip(a, b), TernariesListed(d)
    PROVE  TernaryCarried(a, b, d, w)
<1> SUFFICES ASSUME NEW i \in DOMAIN d.tDB, NEW x \in d.tDB[i].lits,
                    NEW y \in d.tDB[i].lits, x # y, Passed(b, "ternary", x),
                    Passed(b, "ternary", y), TernaryOpen(a, d, i, x, y)
             PROVE  \E z \in d.tDB[i].lits : Rescued(b.model, x, z)
                                             \/ Rescued(b.model, y, z)
  BY DEF TernaryCarried
<1>1. a.rUIP.size = 3 /\ a.rUIP.ptr = i
  BY DEF TernaryOpen, UsesUip, IsNews
<1>2. /\ d.tDB[i].lits \in Clause /\ Cardinality(d.tDB[i].lits) = 3
      /\ d.tDB[i].lits \subseteq Lits
  BY DbFields DEF TernariesListed, Clause
<1>3. ReasonClause(a.thcdb, d, a.rUIP, a.uip) = d.tDB[i].lits
  BY <1>1 DEF ReasonClause
<1>4. PICK k \in d.tDB[i].lits \ {a.uip} :
         LitDl(a.model, k) = a.dlToBackjump /\ IsFalse(a.model, k)
  BY <1>1, <1>3, LastFalse
<1>5. a.uip \in d.tDB[i].lits
  <2>1. Backjumping(a, d, P) /\ a.pc = "backjump" /\ a.rUIP # NoReason
    BY <1>1 DEF WorkerInv, Place, UsesUip, NoReason
  <2> QED BY <1>3, <2>1 DEF Backjumping, Backs
<1>6. x # a.uip /\ y # a.uip
  BY UipFacts DEF Passed
<1>7. k \in {x, y}
  <2>1. ASSUME k \notin {x, y} PROVE FALSE
    <3>1. PICK S : S = {k, a.uip}
      OBVIOUS
    <3>2. S \in SUBSET d.tDB[i].lits /\ x \notin S /\ y \notin S
      BY <1>4, <1>5, <1>6, <2>1, <3>1
    <3>3. Cardinality(S) <= 1
      BY <1>2, <3>2, OneLeft
    <3>4. S \in Clause /\ k \in S /\ a.uip \in S \ {k}
      BY <1>2, <1>4, <1>5, <3>1, <3>2 DEF Clause
    <3>5. S \ {k} \in Clause /\ S \ {k} # {}
      BY <3>4 DEF Clause
    <3>6. /\ Cardinality(S \ {k}) = Cardinality(S) - 1 /\ Cardinality(S) \in Nat
          /\ Cardinality(S \ {k}) \in Nat /\ Cardinality(S \ {k}) # 0
      BY <3>4, <3>5, ClauseSize
    <3> QED BY <3>3, <3>6
  <2> QED BY <2>1
<1>8. Rescued(b.model, k, a.uip)
  BY <1>2, <1>4, UipFacts
<1> QED BY <1>5, <1>7, <1>8

LEMMA NaryOfUip ==
    ASSUME NEW a, NEW b, NEW d \in ClauseDBType, NEW P, WorkerInv(a, d, P),
           UsesUip(a, b), NewsWatched(a)
    PROVE  NaryCarried(a, b)
<1> SUFFICES ASSUME NEW i \in DOMAIN a.thcdb, NEW x \in Watched(a.thcdb[i]),
                    NEW y \in Watched(a.thcdb[i]), x # y, NaryOpen(a, i, x),
                    Passed(b, "nary", x)
             PROVE  Rescued(b.model, x, y)
  BY DEF NaryCarried
<1>1. a.pc = "backjump" /\ a.rUIP.size > 3 /\ a.rUIP.ptr = i
  BY DEF NaryOpen, UsesUip, IsNews
<1>2. a.thcdb[i].w1 = a.uip /\ LitDl(a.model, a.thcdb[i].w2) = a.dlToBackjump
  BY <1>1 DEF NewsWatched
<1>3. x # a.uip
  BY UipFacts DEF Passed
<1>4. x = a.thcdb[i].w2 /\ y = a.uip
  BY <1>2, <1>3 DEF Watched
<1>5. a.thcdb[i] \in ThClause /\ ThGood(a.thcdb[i], d)
  <2>1. a.thcdb \in Seq(ThClause) /\ ThHeld(a, d)
    BY WorkerParts DEF Core
  <2> QED BY <1>1, <2>1, ElementOfSeq DEF ThHeld
<1>6. x \in Lits
  BY <1>4, <1>5 DEF ThClause
<1>7. IsFalse(a.model, x)
  <2>1. Backjumping(a, d, P) /\ a.rUIP # NoReason
    BY <1>1 DEF WorkerInv, Place, NoReason
  <2>2. ReasonClause(a.thcdb, d, a.rUIP, a.uip) = d.nDB[a.thcdb[i].pos].lits
    BY <1>1, <2>1 DEF ReasonClause, Reason
  <2>3. x \in d.nDB[a.thcdb[i].pos].lits \ {a.uip}
    BY <1>3, <1>4, <1>5 DEF ThGood
  <2> QED BY <1>1, <2>1, <2>2, <2>3 DEF Backjumping, Backs
<1> QED BY <1>2, <1>4, <1>6, <1>7, UipFacts

LEMMA UipKeeps ==
    ASSUME NEW a, NEW b, NEW d \in ClauseDBType, NEW w, NEW P, P \subseteq Clause,
           WorkerInv(a, d, P), WorkerInv(b, d, P), PWorker(a, d, w, P),
           TernariesListed(d), UsesUip(a, b)
    PROVE  PWorker(b, d, w, P)
<1>1. /\ a.pc = "backjump" /\ b.pc = "propagate" /\ b.thcdb = a.thcdb
      /\ SameCounters(a, b) /\ b.result = a.result
      /\ b.model = SetTrueWithReason(a.model, a.uip, a.rUIP)
  BY DEF UsesUip
<1>2. Counted(a, d) /\ a.lastBins \in [Lits -> Nat] /\ a.lastUnit \in Nat
  BY DEF WorkerInv, Core, Typed
<1>3. NewsWatched(a) /\ UnitsFixed(a, d)
  BY DEF PWorker, Lists, Done
<1>4. Retains(a, b) /\ MarkersPassed(b.model) /\ FixedKept(a.model, b.model)
  <2>1. ~PoppingNow(b) /\ ~PoppingNow(a) /\ ~Falling(a)
    BY <1>1, UipFacts DEF PoppingNow
  <2>2. a.uip \in Lits /\ IsUndef(a.model, a.uip) /\ a.rUIP \in Reason
    BY UipFacts
  <2> QED BY <1>1, <2>1, <2>2, SetLeaves
<1>5. AllCarried(a, b, d, w)
  BY <1>2, <1>3, BinaryOfUip, TernaryOfUip, NaryOfUip DEF AllCarried
<1>6. QuietStep(a, b, d, w)
  BY <1>1, <1>4, <1>5, SameClausesSame DEF QuietStep
<1>7. UnitsFixed(b, d)
  <2> SUFFICES ASSUME NEW i \in 1..a.lastUnit PROVE Fixed(b.model, d.uDB[i])
    BY <1>1 DEF UnitsFixed, SameCounters
  <2>1. d.uDB[i] \in Lits
    BY <1>2, DbFields, ElementOfSeq DEF Counted
  <2>2. CASE UnitOpen(a, d, i)
    <3>1. a.rUIP = NoReason /\ d.uDB[i] = a.uip
      BY <1>1, <2>2 DEF UnitOpen
    <3>2. a.dlToBackjump = 0
      <4>1. Backjumping(a, d, P)
        BY DEF WorkerInv, Place
      <4> QED BY <1>1, <3>1, <4>1 DEF Backjumping, Backs, Refers, NoReason
    <3> QED BY <3>1, <3>2, UipFacts DEF Fixed
  <2>3. CASE Fixed(a.model, d.uDB[i])
    BY <1>4, <2>1, <2>3 DEF Fixed, FixedKept
  <2> QED BY <1>3, <2>2, <2>3 DEF UnitsFixed
<1>8. SizeGood(b, d) /\ NewsWatched(b) /\ b.pc # "clean"
  BY <1>1 DEF SizeGood, NewsWatched
<1>9. ModelFound(b, P)
  BY <1>1, NoModelYet
<1> QED BY <1>6, <1>7, <1>8, <1>9, QuietKeeps

LEMMA SetTrueUipPInv ==
    ASSUME IInv, IInv', PInv, NEW w \in Workers, SetTrueUip(w)
    PROVE  PInv'
<1>1. PICK a, b : /\ a = ad[w]
                  /\ b = [a EXCEPT !.pc = "propagate", !.uip = ZeroLit,
                                   !.rUIP = NoReason,
                                   !.model = SetTrueWithReason(@, a.uip, a.rUIP)]
  OBVIOUS
<1>2. /\ a.pc = "backjump" /\ a.model.decisionLvl <= Target(a) /\ Local(w, b)
      /\ ad[w].pc # "allocated"
  BY <1>1 DEF SetTrueUip, At
<1>3. /\ WorkerInv(a, db, Read) /\ PWorker(a, db, w, Read) /\ Typed(a)
      /\ db \in ClauseDBType /\ Read \subseteq Clause
  BY <1>1, <1>2, StepFacts
<1>4. UsesUip(a, b)
  <2>1. /\ b.pc = "propagate" /\ b.model = SetTrueWithReason(a.model, a.uip, a.rUIP)
        /\ SameCounters(a, b) /\ b.thcdb = a.thcdb /\ b.result = a.result
    BY <1>1, <1>3 DEF Typed, Fields, SameCounters
  <2> QED BY <1>2, <2>1 DEF UsesUip, Target
<1>5. WorkerInv(b, db, Read) /\ TernariesListed(db)
  BY <1>2, AfterLocal DEF PInv
<1>6. PWorker(b, db, w, Read)
  BY <1>3, <1>4, <1>5, UipKeeps
<1> QED BY <1>2, <1>6, LocalPInv

-----------------------------------------------------------------------------
(* What an insertion adds to the database. *)

LEMMA TernaryFlags ==
    ASSUME NEW d \in ClauseDBType, NEW c \in Clause, NEW w \in Workers, NEW last \in Nat,
           last <= Len(d.tDB), NEW p, NEW e, TernaryOf(d, c, w, last, e, p)
    PROVE  /\ TernaryGrown(d, e, w, last) /\ TernaryEntered(d, e, c)
           /\ p = last + 1
           /\ e.uDB = d.uDB /\ e.bDB = d.bDB /\ e.nDB = d.nDB
           /\ Len(e.tDB) > Len(d.tDB) => e.tDB[Len(d.tDB) + 1].lits = c
           /\ Len(e.tDB) \in {Len(d.tDB), Len(d.tDB) + 1}
<1>1. PICK T : T = d.tDB
  OBVIOUS
<1>2. /\ T \in Seq(TernaryEntry) /\ Len(T) \in Nat /\ DOMAIN T = 1..Len(T)
      /\ last <= Len(T) /\ p = EntryFor(T, FALSE, last)
      /\ e = InsertTernary(d, c, FALSE, w, last)
  BY <1>1, DbFields DEF TernaryOf
<1>5. Len(d.tDB) \in Nat /\ Len(T) \in Nat /\ last <= Len(T) /\ Len(T) = Len(d.tDB)
  BY <1>1, <1>2
<1>3. CASE AlreadyInList(T, FALSE, last)
  <2>1. last + 1 \in DOMAIN T /\ p = last + 1
    BY <1>2, <1>3 DEF AlreadyInList, EntryFor
  <2>2. PICK T2 : T2 = [T EXCEPT ![last + 1].flags[w] = TRUE]
    OBVIOUS
  <2>3. /\ Len(T2) = Len(T) /\ DOMAIN T2 = DOMAIN T
        /\ \A k \in DOMAIN T : \A u \in Workers :
              T2[k].flags[u] <=> T[k].flags[u] \/ (u = w /\ k = last + 1)
    <3>1. PICK i : i = last + 1
      OBVIOUS
    <3>2. i \in DOMAIN T /\ Flagged(T2, T, i, w, TRUE)
      BY <2>1, <2>2, <3>1 DEF Flagged
    <3>3. /\ Len(T2) = Len(T) /\ DOMAIN T2 = DOMAIN T
          /\ \A k \in DOMAIN T : \A u \in Workers :
                T2[k].flags[u] <=> T[k].flags[u] \/ (u = w /\ k = i)
      BY <1>2, <3>2, TernaryFlagChanged, FlagRaised, ZenonT(40)
    <3> QED BY <3>1, <3>3
  <2>4. /\ e.tDB = T2 /\ e.ternaryWatches = d.ternaryWatches
        /\ e.uDB = d.uDB /\ e.bDB = d.bDB /\ e.nDB = d.nDB
    <3>1. e = [d EXCEPT !.tDB[last + 1].flags[w] = TRUE]
      BY <1>1, <1>2, <1>3 DEF InsertTernary
    <3> QED BY <1>1, <2>2, <3>1 DEF ClauseDBType
  <2>5. TernaryGrown(d, e, w, last)
    BY <1>1, <2>3, <2>4 DEF TernaryGrown
  <2>6. TernaryEntered(d, e, c)
    <3>1. Len(e.tDB) = Len(d.tDB)
      BY <1>1, <2>3, <2>4
    <3>2. ~(Len(e.tDB) > Len(d.tDB))
      BY <1>5, <3>1
    <3> QED BY <2>4, <3>2 DEF TernaryEntered
  <2>7. /\ Len(e.tDB) > Len(d.tDB) => e.tDB[Len(d.tDB) + 1].lits = c
        /\ Len(e.tDB) \in {Len(d.tDB), Len(d.tDB) + 1}
    <3>1. Len(e.tDB) = Len(d.tDB)
      BY <1>1, <2>3, <2>4
    <3> QED BY <1>5, <3>1
  <2> QED BY <2>1, <2>4, <2>5, <2>6, <2>7
<1>4. CASE ~AlreadyInList(T, FALSE, last)
  <2>1. last = Len(T) /\ p = last + 1
    <3>1. ~(Len(T) > last)
      BY <1>4 DEF AlreadyInList
    <3>2. p = Len(T) + 1
      BY <1>2, <1>4 DEF EntryFor
    <3> QED BY <1>5, <3>1, <3>2
  <2>2. PICK x, T2 : x = [lits |-> c, flags |-> Flags(FALSE, w)] /\ T2 = Append(T, x)
    OBVIOUS
  <2>3. /\ x \in TernaryEntry /\ x.lits = c
        /\ \A u \in Workers : x.flags[u] <=> u = w
    BY <2>2 DEF TernaryEntry, Flags
  <2>4. /\ Len(T2) = Len(T) + 1 /\ T2[Len(T) + 1] = x
        /\ DOMAIN T2 = DOMAIN T \cup {Len(T) + 1} /\ Continues(T, T2)
    <3>1. T \in Seq(TernaryEntry) /\ x \in TernaryEntry /\ Appends(T2, T, x)
      BY <1>2, <2>2, <2>3 DEF Appends
    <3> QED BY <3>1, AppendContinues
  <2>5. /\ e.tDB = T2
        /\ e.ternaryWatches = [l \in Lits |-> IF l \in c
                                              THEN Append(d.ternaryWatches[l], Len(T) + 1)
                                              ELSE d.ternaryWatches[l]]
        /\ e.uDB = d.uDB /\ e.bDB = d.bDB /\ e.nDB = d.nDB
    <3>1. e = [d EXCEPT !.tDB = Append(T, x),
                        !.ternaryWatches =
                          [l \in Lits |-> IF l \in c
                                          THEN Append(d.ternaryWatches[l], Len(T) + 1)
                                          ELSE d.ternaryWatches[l]]]
      BY <1>1, <1>2, <1>4, <2>2 DEF InsertTernary
    <3> QED BY <2>2, <3>1 DEF ClauseDBType
  <2>6. TernaryGrown(d, e, w, last)
    <3> SUFFICES ASSUME NEW i \in DOMAIN T2, NEW u \in Workers
                 PROVE  T2[i].flags[u] <=> \/ i \in DOMAIN T /\ T[i].flags[u]
                                           \/ u = w /\ i = last + 1
      BY <1>1, <2>5 DEF TernaryGrown
    <3>1. CASE i \in DOMAIN T
      <4>1. T2[i] = T[i] /\ i # last + 1
        BY <1>2, <2>1, <2>4, <3>1 DEF Continues
      <4> QED BY <3>1, <4>1
    <3>2. CASE i = Len(T) + 1
      <4>1. T2[i] = x /\ i \notin DOMAIN T /\ i = last + 1
        BY <1>2, <2>1, <2>4, <3>2
      <4> QED BY <2>3, <4>1
    <3> QED BY <2>4, <3>1, <3>2
  <2>7. TernaryEntered(d, e, c)
    <3> SUFFICES ASSUME NEW l \in Lits, l \in c
                 PROVE  /\ Len(e.ternaryWatches[l]) = Len(d.ternaryWatches[l]) + 1
                        /\ e.ternaryWatches[l][Len(d.ternaryWatches[l]) + 1] = Len(T) + 1
      BY <1>1, <2>4, <2>5 DEF TernaryEntered
    <3>1. e.ternaryWatches[l] = Append(d.ternaryWatches[l], Len(T) + 1)
      BY <2>5
    <3>2. d.ternaryWatches[l] \in Seq(Nat) /\ Len(T) + 1 \in Nat
      BY <1>2, DbFields
    <3> QED BY <3>1, <3>2
  <2> QED BY <1>1, <2>1, <2>3, <2>4, <2>5, <2>6, <2>7
<1> QED BY <1>3, <1>4

LEMMA TernaryGrows ==
    ASSUME NEW d \in ClauseDBType, NEW e \in ClauseDBType, Extends(d, e),
           NEW c \in Clause, Cardinality(c) = 3, NEW w \in Workers,
           NEW last \in Nat, last <= Len(d.tDB), NEW p, TernaryOf(d, c, w, last, e, p),
           TernariesListed(d)
    PROVE  /\ Grows(d, e, w) /\ TernariesListed(e) /\ TernaryGrown(d, e, w, last)
           /\ e.uDB = d.uDB /\ e.bDB = d.bDB /\ e.nDB = d.nDB
<1>1. /\ TernaryGrown(d, e, w, last) /\ TernaryEntered(d, e, c)
      /\ e.uDB = d.uDB /\ e.bDB = d.bDB /\ e.nDB = d.nDB
      /\ Len(e.tDB) > Len(d.tDB) => e.tDB[Len(d.tDB) + 1].lits = c
      /\ Len(e.tDB) \in {Len(d.tDB), Len(d.tDB) + 1}
  BY TernaryFlags
<1>2. /\ Len(d.tDB) \in Nat /\ DOMAIN d.tDB = 1..Len(d.tDB) /\ DOMAIN e.tDB = 1..Len(e.tDB)
      /\ \A l \in Lits : /\ DOMAIN d.ternaryWatches[l] = 1..Len(d.ternaryWatches[l])
                         /\ DOMAIN e.ternaryWatches[l] = 1..Len(e.ternaryWatches[l])
                         /\ Len(d.ternaryWatches[l]) \in Nat
  BY DbFields
<1>3. Grows(d, e, w)
  <2>1. \A i \in DOMAIN e.tDB : \A u \in Workers \ {w} :
           e.tDB[i].flags[u] <=> i \in DOMAIN d.tDB /\ d.tDB[i].flags[u]
    BY <1>1 DEF TernaryGrown
  <2>2. ASSUME NEW l \in Lits, NEW q \in DOMAIN e.ternaryWatches[l],
               q \notin DOMAIN d.ternaryWatches[l]
        PROVE  e.ternaryWatches[l][q] > Len(d.tDB)
    <3>1. /\ Len(e.ternaryWatches[l]) = Len(d.ternaryWatches[l]) + 1
          /\ e.ternaryWatches[l][Len(d.ternaryWatches[l]) + 1] = Len(d.tDB) + 1
      BY <1>1, <2>2 DEF TernaryEntered
    <3>2. q = Len(d.ternaryWatches[l]) + 1
      BY <1>2, <2>2, <3>1
    <3> QED BY <1>2, <3>1, <3>2
  <2>3. \A i \in DOMAIN d.nDB : e.nDB[i].original = d.nDB[i].original
    BY <1>1
  <2> QED BY <2>1, <2>2, <2>3 DEF Grows
<1>4. TernariesListed(e)
  <2> SUFFICES ASSUME NEW i \in DOMAIN e.tDB
               PROVE  /\ Cardinality(e.tDB[i].lits) = 3
                      /\ \A l \in e.tDB[i].lits :
                            \E q \in DOMAIN e.ternaryWatches[l] : e.ternaryWatches[l][q] = i
    BY DEF TernariesListed
  <2>1. CASE i \in DOMAIN d.tDB
    <3>1. e.tDB[i].lits = d.tDB[i].lits /\ d.tDB[i].lits \subseteq Lits
      BY <2>1, DbFields DEF Extends, Clause
    <3>2. ASSUME NEW l \in d.tDB[i].lits
          PROVE  \E q \in DOMAIN e.ternaryWatches[l] : e.ternaryWatches[l][q] = i
      <4>1. PICK q \in DOMAIN d.ternaryWatches[l] : d.ternaryWatches[l][q] = i
        BY <2>1 DEF TernariesListed
      <4>2. Continues(d.ternaryWatches[l], e.ternaryWatches[l])
        BY <3>1 DEF Extends
      <4> QED BY <4>1, <4>2 DEF Continues
    <3> QED BY <2>1, <3>1, <3>2 DEF TernariesListed
  <2>2. CASE i \notin DOMAIN d.tDB
    <3>1. i = Len(d.tDB) + 1 /\ Len(e.tDB) > Len(d.tDB)
      BY <1>1, <1>2, <2>2
    <3>2. e.tDB[i].lits = c
      BY <1>1, <3>1
    <3>3. ASSUME NEW l \in c
          PROVE  \E q \in DOMAIN e.ternaryWatches[l] : e.ternaryWatches[l][q] = i
      <4>1. l \in Lits
        BY DEF Clause
      <4>2. /\ Len(e.ternaryWatches[l]) = Len(d.ternaryWatches[l]) + 1
            /\ e.ternaryWatches[l][Len(d.ternaryWatches[l]) + 1] = Len(d.tDB) + 1
        BY <1>1, <3>1, <4>1 DEF TernaryEntered
      <4>3. Len(d.ternaryWatches[l]) + 1 \in DOMAIN e.ternaryWatches[l]
        BY <1>2, <4>1, <4>2
      <4> QED BY <3>1, <4>2, <4>3
    <3> QED BY <3>2, <3>3
  <2> QED BY <2>1, <2>2
<1> QED BY <1>1, <1>3, <1>4

LEMMA NaryGrows ==
    ASSUME NEW d \in ClauseDBType, NEW c \in Clause, NEW w, NEW last \in Nat,
           NEW p, NEW e, NaryOf(d, c, w, last, e, p)
    PROVE  /\ OriginalsKept(d, e) /\ e.tDB = d.tDB
           /\ e.ternaryWatches = d.ternaryWatches /\ e.uDB = d.uDB /\ e.bDB = d.bDB
<1>1. PICK T : T = d.nDB
  OBVIOUS
<1>2. T \in Seq(NaryEntry) /\ Len(T) \in Nat /\ DOMAIN T = 1..Len(T)
  BY <1>1, DbFields
<1>3. e = InsertNary(d, c, FALSE, w, last)
  BY DEF NaryOf
<1>4. CASE AlreadyInList(T, FALSE, last)
  <2>1. last + 1 \in DOMAIN T
    BY <1>2, <1>4 DEF AlreadyInList
  <2>2. PICK i, T2, v : i = last + 1 /\ v = TRUE /\ T2 = [T EXCEPT ![i].flags[w] = v]
    OBVIOUS
  <2>3. \A k \in DOMAIN T : T2[k].original = T[k].original
    <3>1. T \in Seq(NaryEntry) /\ i \in DOMAIN T /\ Flagged(T2, T, i, w, v)
      BY <1>2, <2>1, <2>2 DEF Flagged
    <3> QED BY <3>1, OriginalsFlagged
  <2>4. e = [d EXCEPT !.nDB[last + 1].flags[w] = TRUE]
    BY <1>1, <1>3, <1>4 DEF InsertNary
  <2>5. /\ e.nDB = T2 /\ e.tDB = d.tDB
        /\ e.ternaryWatches = d.ternaryWatches /\ e.uDB = d.uDB /\ e.bDB = d.bDB
    BY <1>1, <2>2, <2>4 DEF ClauseDBType
  <2> QED BY <1>1, <2>3, <2>5 DEF OriginalsKept
<1>5. CASE ~AlreadyInList(T, FALSE, last)
  <2>1. PICK x : x = [lits |-> c, flags |-> Flags(FALSE, w), original |-> FALSE]
    OBVIOUS
  <2>2. e = [d EXCEPT !.nDB = Append(T, x)]
    BY <1>1, <1>3, <1>5, <2>1 DEF InsertNary
  <2>3. /\ e.nDB = Append(T, x) /\ e.tDB = d.tDB
        /\ e.ternaryWatches = d.ternaryWatches /\ e.uDB = d.uDB /\ e.bDB = d.bDB
    BY <2>2 DEF ClauseDBType
  <2>4. \A k \in DOMAIN T : Append(T, x)[k] = T[k]
    BY <1>2
  <2> QED BY <1>1, <2>3, <2>4 DEF OriginalsKept
<1> QED BY <1>4, <1>5

-----------------------------------------------------------------------------
(* A worker that stores a clause: what it had is done as before, and the new entry *)
(* is to come, or has not been passed.                                            *)

\* Worker a has nothing open, and b has what a had and perhaps one clause more.
StoreStep(a, b, d, e) ==
    /\ a.pc \notin {"binary", "ternary", "nary", "units", "solve", "backjump", "done"}
    /\ Retains(a, b) /\ FixedKept(a.model, b.model) /\ Extends(d, e)
    /\ b.result = a.result

LEMMA StoredBinaries ==
    ASSUME NEW a, NEW b, NEW d \in ClauseDBType, NEW e \in ClauseDBType,
           StoreStep(a, b, d, e), NewBinaries(a, b, e), BinaryDone(a, d), Counted(a, d),
           a.lastBins \in [Lits -> Nat]
    PROVE  BinaryDone(b, e)
<1> SUFFICES ASSUME NEW l \in Lits, NEW i \in 1..b.lastBins[l], Passed(b, "binary", -l)
             PROVE  BinaryOpen(b, e, l, i) \/ Rescued(b.model, -l, e.bDB[l][i])
  BY DEF BinaryDone
<1>1. CASE i \in 1..a.lastBins[l]
  <2>1. /\ -l \in Lits /\ d.bDB[l][i] \in Lits /\ "binary" \in Kinds
        /\ i \in DOMAIN d.bDB[l]
    <3>1. i \in 1..Len(d.bDB[l]) /\ d.bDB[l] \in Seq(Lits)
      BY <1>1, DbFields DEF Counted
    <3> QED BY <3>1, LitFacts DEF Kinds
  <2>2. /\ Passed(a, "binary", -l)
        /\ Rescued(a.model, -l, d.bDB[l][i]) => Rescued(b.model, -l, d.bDB[l][i])
    BY <2>1 DEF StoreStep, Retains
  <2>3. ~BinaryOpen(a, d, l, i)
    BY DEF BinaryOpen, IsNews, StoreStep
  <2>4. Rescued(a.model, -l, d.bDB[l][i])
    BY <1>1, <2>2, <2>3 DEF BinaryDone
  <2>5. e.bDB[l][i] = d.bDB[l][i]
    BY <2>1 DEF StoreStep, Extends, Continues
  <2> QED BY <2>2, <2>4, <2>5
<1>2. CASE i \notin 1..a.lastBins[l]
  BY <1>2 DEF NewBinaries
<1> QED BY <1>1, <1>2

LEMMA StoredTernaries ==
    ASSUME NEW a, NEW b, NEW d \in ClauseDBType, NEW e \in ClauseDBType, NEW w,
           StoreStep(a, b, d, e), NewTernaries(a, b, d, e, w), TernaryDone(a, d, w)
    PROVE  TernaryDone(b, e, w)
<1> SUFFICES ASSUME NEW i \in DOMAIN e.tDB, e.tDB[i].flags[w],
                    NEW x \in e.tDB[i].lits, NEW y \in e.tDB[i].lits, x # y,
                    Passed(b, "ternary", x), Passed(b, "ternary", y)
             PROVE  \/ TernaryOpen(b, e, i, x, y)
                    \/ \E z \in e.tDB[i].lits :
                          Rescued(b.model, x, z) \/ Rescued(b.model, y, z)
  BY DEF TernaryDone
<1>1. CASE Taken(a, b, i)
  BY <1>1 DEF NewTernaries, TernaryIsNew, TernaryOpen
<1>2. CASE i \in DOMAIN d.tDB /\ d.tDB[i].flags[w]
  <2>1. e.tDB[i].lits = d.tDB[i].lits
    BY <1>2 DEF StoreStep, Extends
  <2>2. d.tDB[i].lits \subseteq Lits /\ "ternary" \in Kinds
    BY <1>2, DbFields DEF Clause, Kinds
  <2>3. /\ Passed(a, "ternary", x) /\ Passed(a, "ternary", y)
        /\ \A z \in Lits : /\ Rescued(a.model, x, z) => Rescued(b.model, x, z)
                           /\ Rescued(a.model, y, z) => Rescued(b.model, y, z)
    BY <2>1, <2>2 DEF StoreStep, Retains
  <2>4. ~TernaryOpen(a, d, i, x, y)
    BY DEF TernaryOpen, IsNews, StoreStep
  <2>5. \E z \in d.tDB[i].lits : Rescued(a.model, x, z) \/ Rescued(a.model, y, z)
    BY <1>2, <2>1, <2>3, <2>4 DEF TernaryDone
  <2> QED BY <2>1, <2>2, <2>3, <2>5
<1> QED BY <1>1, <1>2 DEF NewTernaries

LEMMA StoredNaries ==
    ASSUME NEW a, NEW b, NEW d, NEW e, StoreStep(a, b, d, e), NewNaries(a, b),
           NaryDone(a), a.thcdb \in Seq(ThClause)
    PROVE  NaryDone(b)
<1> SUFFICES ASSUME NEW i \in DOMAIN b.thcdb, b.thcdb[i].pos # 0,
                    NEW x, NEW y,
                    \/ x = b.thcdb[i].w1 /\ y = b.thcdb[i].w2
                    \/ x = b.thcdb[i].w2 /\ y = b.thcdb[i].w1
             PROVE  Guarded(b, i, x, y)
  BY DEF NaryDone
<1>1. CASE i \in DOMAIN a.thcdb /\ b.thcdb[i] = a.thcdb[i]
  <2>1. x \in Lits /\ y \in Lits /\ "nary" \in Kinds
    <3>1. a.thcdb[i] \in ThClause
      BY <1>1
    <3> QED BY <1>1, <3>1 DEF ThClause, Kinds
  <2>2. Guarded(a, i, x, y)
    BY <1>1 DEF NaryDone
  <2>3. ~NaryOpen(a, i, x)
    BY DEF NaryOpen, IsNews, StoreStep
  <2> QED BY <2>1, <2>2, <2>3 DEF Guarded, StoreStep, Retains
<1>2. CASE b.rUIP.size > 3 /\ IsNews(b, b.rUIP.size, i)
  BY <1>2 DEF Guarded, NaryOpen
<1> QED BY <1>1, <1>2 DEF NewNaries

LEMMA StoredUnits ==
    ASSUME NEW a, NEW b, NEW d \in ClauseDBType, NEW e, StoreStep(a, b, d, e),
           NewUnits(a, b, e), UnitsFixed(a, d), Counted(a, d), a.lastUnit \in Nat
    PROVE  UnitsFixed(b, e)
<1> SUFFICES ASSUME NEW i \in 1..b.lastUnit
             PROVE  UnitOpen(b, e, i) \/ Fixed(b.model, e.uDB[i])
  BY DEF UnitsFixed
<1>1. CASE i \in 1..a.lastUnit
  <2>1. Fixed(a.model, d.uDB[i])
    BY <1>1 DEF UnitsFixed, UnitOpen, StoreStep
  <2>2. i \in DOMAIN d.uDB /\ d.uDB[i] \in Lits
    <3>1. i \in 1..Len(d.uDB) /\ d.uDB \in Seq(Lits)
      BY <1>1, DbFields DEF Counted
    <3> QED BY <3>1
  <2>3. e.uDB[i] = d.uDB[i]
    BY <2>2 DEF StoreStep, Extends, Continues
  <2> QED BY <2>1, <2>2, <2>3 DEF FixedKept, Fixed, StoreStep
<1>2. CASE i \notin 1..a.lastUnit
  BY <1>2 DEF NewUnits
<1> QED BY <1>1, <1>2

LEMMA StoreKeeps ==
    ASSUME NEW a, NEW b, NEW d \in ClauseDBType, NEW e \in ClauseDBType, NEW w, NEW P,
           WorkerInv(a, d, P), PWorker(a, d, w, P), StoreStep(a, b, d, e),
           NewDone(a, b, d, e, w), Lists(b, e, w), InputKept(b, e, w, P)
    PROVE  PWorker(b, e, w, P)
<1>1. /\ Typed(a) /\ Counted(a, d) /\ a.lastUnit \in Nat
      /\ a.lastBins \in [Lits -> Nat] /\ a.thcdb \in Seq(ThClause)
  BY WorkerParts DEF Core, Typed
<1>2. /\ BinaryDone(a, d) /\ TernaryDone(a, d, w) /\ NaryDone(a) /\ UnitsFixed(a, d)
  BY DEF PWorker, Done
<1>3. BinaryDone(b, e)
  BY <1>1, <1>2, StoredBinaries DEF NewDone
<1>4. TernaryDone(b, e, w)
  BY <1>2, StoredTernaries DEF NewDone
<1>5. NaryDone(b)
  BY <1>1, <1>2, StoredNaries DEF NewDone
<1>6. UnitsFixed(b, e)
  BY <1>1, <1>2, StoredUnits DEF NewDone
<1>7. ModelFound(b, P)
  BY NoModelYet DEF StoreStep
<1> QED BY <1>3, <1>4, <1>5, <1>6, <1>7 DEF PWorker, Done, Input

-----------------------------------------------------------------------------
(* Learning: the lemma is open until it is used. *)

Learns(a, b, d, e, r) ==
    /\ a.pc = "shorten" /\ a.lemma = {} /\ Jumps(a, b, r)
    /\ Differs(a, b, Jumped \cup {"lastUnit", "lastBins", "lastTernary", "lastNary",
                                  "thcdb", "watches"})
    /\ Extends(d, e)

LEMMA LearnLeaves ==
    ASSUME NEW a, NEW b, NEW d \in ClauseDBType, NEW e, NEW w, NEW P,
           WorkerInv(a, d, P), PWorker(a, d, w, P), NEW r, Learns(a, b, d, e, r)
    PROVE  /\ StoreStep(a, b, d, e) /\ MarkersPassed(b.model) /\ b.model = a.model
           /\ b.pc = "backjump" /\ b.rUIP = r /\ b.uip = a.uip
           /\ IsTarget(a.model, a.lemmaToLearn, b.dlToBackjump)
<1>1. /\ b.model = a.model /\ b.result = a.result /\ b.uip = a.uip
      /\ b.pc = "backjump" /\ b.rUIP = r
      /\ IsTarget(a.model, a.lemmaToLearn, b.dlToBackjump)
  BY DEF Learns, Differs, Fields, Jumped, Jumps, IsTarget
<1>2. /\ a.model \in ModelType /\ TrailConsistent(a.model) /\ a.model.decisionLvl > 0
      /\ AllLower(a.model, a.lemmaToLearn) /\ a.lemmaToLearn \in Clause
  <2>1. a.lemma \cup a.lemmaToLearn = a.lemmaToLearn
    BY DEF Learns
  <2>2. Shortening(a, P) /\ a.lemmaToLearn \in Clause
    BY WorkerParts DEF Place, Typed
  <2> QED BY <2>1, <2>2, WorkerParts DEF Shortening, Learns
<1>3. b.dlToBackjump \in Nat /\ b.dlToBackjump < a.model.decisionLvl
  <2>1. PICK c, dl : c = a.lemmaToLearn /\ dl = b.dlToBackjump
    OBVIOUS
  <2>2. dl \in Nat /\ dl < a.model.decisionLvl
    BY <1>1, <1>2, <2>1, JumpLevel
  <2> QED BY <2>1, <2>2
<1>4. Falling(b)
  <2>1. b.model.decisionLvl > Target(b)
    BY <1>1, <1>2, <1>3 DEF Target, ModelType
  <2> QED BY <1>1, <2>1 DEF Falling, PoppingNow
<1>5. Retains(a, b) /\ MarkersPassed(b.model) /\ FixedKept(a.model, b.model)
  BY <1>1, <1>4, SameLeaves
<1> QED BY <1>1, <1>5 DEF StoreStep, Learns

LEMMA LearnKeeps ==
    ASSUME NEW a, NEW b, NEW d \in ClauseDBType, NEW e \in ClauseDBType,
           NEW w, NEW P, P \subseteq Clause,
           WorkerInv(a, d, P), PWorker(a, d, w, P), NEW r, Learns(a, b, d, e, r),
           NewDone(a, b, d, e, w), Twins(e, b.lastBins), FlagsCount(b, e, w),
           NewsWatched(b), HeldKept(a, b), FlagsKept(d, e, w), CountersGrow(a, b)
    PROVE  PWorker(b, e, w, P)
<1>1. /\ StoreStep(a, b, d, e) /\ MarkersPassed(b.model) /\ b.pc = "backjump"
  BY LearnLeaves
<1>2. Lists(b, e, w)
  <2>1. SizeGood(b, e)
    BY <1>1 DEF SizeGood
  <2> QED BY <1>1, <2>1 DEF Lists
<1>3. InputKept(b, e, w, P)
  <2>1. Counted(a, d) /\ ThHeld(a, d)
    BY WorkerParts DEF Core
  <2>2. InputKept(a, d, w, P)
    BY DEF PWorker, Input
  <2> QED BY <1>1, <2>1, <2>2, InputStays DEF StoreStep
<1> QED BY <1>1, <1>2, <1>3, StoreKeeps

LEMMA LearnUnitPInv ==
    ASSUME IInv, IInv', PInv, SameSearch, NEW w \in Workers, LearnUnit(w)
    PROVE  PInv'
<1>1. PICK a, c, r, b, e :
         /\ a = ad[w] /\ c = [a EXCEPT !.lastUnit = @ + 1] /\ r = NoReason
         /\ b = AfterLearning(c, r)
         /\ e = InsertUnit(db, a.uip, FALSE, a.lastUnit)
  OBVIOUS
<1>2. ReadyToLearn(w) /\ a.lemmaToLearn = {} /\ Sharing(w, b, e)
  BY <1>1 DEF LearnUnit
<1>3. /\ WorkerInv(a, db, Read) /\ DbInv(db, Read) /\ Typed(a)
      /\ db \in ClauseDBType /\ a.pc = "shorten" /\ a.lemma = {}
      /\ a.uip \in Lits /\ Follows(Read, Learned(a)) /\ Counted(a, db)
      /\ SameAt(w, Learned(a))
      /\ a.lastUnit \in Nat /\ a.lastBins \in [Lits -> Nat] /\ a.lastTernary \in Nat
  BY <1>1, <1>2, LearnFacts
<1>4. PWorker(a, db, w, Read) /\ Read \subseteq Clause /\ ad[w].pc # "allocated"
  BY <1>1, <1>3, StepFacts
<1>5. Learned(a) = {a.uip} /\ a.lastUnit <= Len(db.uDB)
  BY <1>2, <1>3 DEF Learned, Counted
<1>6. Extends(db, e) /\ e \in ClauseDBType
  <2>1. PICK l, last, d : l = a.uip /\ last = a.lastUnit /\ d = db
    OBVIOUS
  <2>2. /\ DbInv(d, Read) /\ l \in Lits /\ Follows(Read, {l}) /\ last \in Nat
        /\ last <= Len(d.uDB) /\ FALSE \in BOOLEAN
        /\ e = InsertUnit(d, l, FALSE, last)
    BY <1>1, <1>3, <1>5, <2>1
  <2>3. DbInv(e, Read) /\ Extends(d, e)
    BY <2>2, UnitInserted
  <2> QED BY <2>1, <2>3 DEF DbInv
<1>7. /\ DOMAIN c = Fields /\ c = [f \in Fields |-> c[f]]
      /\ \A f \in Fields \ {"lastUnit"} : c[f] = a[f]
      /\ c.lastUnit = a.lastUnit + 1
  BY <1>1, <1>3 DEF Typed, Fields
<1>8. /\ c.marks = a.marks /\ c.lemmaToLearn = a.lemmaToLearn /\ c.uip = a.uip
      /\ c.model = a.model
  BY <1>7 DEF Fields
<1>9. Jumps(a, b, r) /\ Differs(c, b, Jumped)
  <2>1. b = AfterLearning(c, r)
    BY <1>1
  <2> QED BY <1>7, <1>8, <2>1, AfterLearningFields
<1>10. Learns(a, b, db, e, r)
  BY <1>3, <1>6, <1>7, <1>9 DEF Differs, Learns
<1>11. /\ b.lastUnit = a.lastUnit + 1 /\ b.lastBins = a.lastBins
       /\ b.lastTernary = a.lastTernary /\ b.thcdb = a.thcdb
  BY <1>7, <1>9 DEF Differs, Jumped, Fields
<1>12. /\ e.tDB = db.tDB /\ e.ternaryWatches = db.ternaryWatches /\ e.nDB = db.nDB
       /\ e.uDB[a.lastUnit + 1] = a.uip
  <2>1. PICK l, last, d : l = a.uip /\ last = a.lastUnit /\ d = db
    OBVIOUS
  <2>2. d \in ClauseDBType /\ UnitOf(d, l, last, e) /\ l \in Lits
    BY <1>1, <1>3, <2>1 DEF UnitOf
  <2>3. last \in Nat /\ last <= Len(d.uDB)
    BY <1>3, <1>5, <2>1
  <2>4. Len(d.uDB) > last => d.uDB[last + 1] = l
    <3>1. Cardinality({l}) = 1
      BY FS_Singleton
    <3>2. PICK x : x = Learned(a)
      OBVIOUS
    <3>3. SameAt(w, x) /\ Cardinality(x) = 1 /\ x = {l}
      BY <1>3, <1>5, <2>1, <3>1, <3>2
    <3>4. Len(db.uDB) > ad[w].lastUnit => x = {db.uDB[ad[w].lastUnit + 1]}
      BY <3>3 DEF SameAt
    <3> QED BY <1>1, <2>1, <3>3, <3>4
  <2>5. /\ e.uDB[last + 1] = l
        /\ e.tDB = d.tDB /\ e.ternaryWatches = d.ternaryWatches /\ e.nDB = d.nDB
    BY <2>2, <2>3, <2>4, UnitEntered
  <2> QED BY <2>1, <2>5
<1>13. Grows(db, e, w) /\ TernariesListed(e)
  BY <1>3, <1>6, <1>12, ShortGrows DEF PInv
<1>14. b.pc = "backjump" /\ b.rUIP = NoReason /\ b.uip = a.uip
  BY <1>1, <1>7, <1>9 DEF Jumps, Differs, Jumped, Fields
<1>15. NewDone(a, b, db, e, w)
  <2>1. NewUnits(a, b, e)
    <3>1. \A i \in 1..b.lastUnit : i \in 1..a.lastUnit \/ i = a.lastUnit + 1
      BY <1>3, <1>11
    <3>2. UnitOpen(b, e, a.lastUnit + 1)
      BY <1>12, <1>14 DEF UnitOpen
    <3> QED BY <3>1, <3>2 DEF NewUnits
  <2>2. NewBinaries(a, b, e) /\ NewTernaries(a, b, db, e, w) /\ NewNaries(a, b)
    BY <1>11, <1>12, NoNewBinaries, NoNewTernaries, NoNewNaries
  <2> QED BY <2>1, <2>2 DEF NewDone
<1>16. Twins(e, b.lastBins)
  BY <1>3, <1>4, <1>6, <1>11, <1>13, TwinsKept
<1>17. FlagsCount(b, e, w) /\ HeldKept(a, b)
  <2>1. FlagsCount(a, db, w)
    BY <1>4 DEF PWorker, Lists
  <2> QED BY <1>11, <1>12, <2>1, NoNewTernaries, NoNewNaries
<1>18. NewsWatched(b)
  BY <1>14 DEF NewsWatched, NoReason
<1>19. FlagsKept(db, e, w) /\ CountersGrow(a, b)
  BY <1>3, <1>11, <1>12 DEF FlagsKept, CountersGrow
<1>20. PWorker(b, e, w, Read)
  BY <1>3, <1>4, <1>6, <1>10, <1>15, <1>16, <1>17, <1>18, <1>19, LearnKeeps
<1> QED BY <1>2, <1>4, <1>6, <1>13, <1>20, SharingPInv

\* The lists of a and the new binary are each in two lists again.
LEMMA TwinsMore ==
    ASSUME NEW d \in ClauseDBType, NEW e \in ClauseDBType, Extends(d, e),
           NEW u \in Lits, NEW l \in Lits, u # l,
           NEW B \in [Lits -> Nat], Twins(d, B), WithinLists(d, B),
           NEW x, x = -u, NEW y, y = -l, NEW B2, TwoCounted(B, x, y, B2),
           BinaryAt(e, B, u, l)
    PROVE  Twins(e, B2) /\ MoreBinaries(e, B, B2, u, l)
<1>1. x \in Lits /\ y \in Lits /\ x # y /\ -x = u /\ -y = l
  BY LitFacts DEF Lits
<1>2. /\ B2 \in [Lits -> Nat] /\ B2[x] = B[x] + 1 /\ B2[y] = B[y] + 1
      /\ \A k \in Lits \ {x, y} : B2[k] = B[k]
  BY <1>1, TwoMore
<1>3. \A k \in Lits : B[k] <= B2[k] /\ B2[k] \in Nat /\ B[k] \in Nat
  BY <1>2
<1>4. e.bDB[x][B2[x]] = l /\ e.bDB[y][B2[y]] = u
  BY <1>2 DEF BinaryAt
<1>5. ASSUME NEW k \in Lits, NEW i \in 1..B2[k]
      PROVE  \/ i \in 1..B[k]
             \/ k = x /\ i = B2[x]
             \/ k = y /\ i = B2[y]
  BY <1>2, <1>3
<1>6. \A k \in Lits : \A i \in 1..B2[k] : i \in 1..B[k] \/ {-k, e.bDB[k][i]} = {u, l}
  <2> SUFFICES ASSUME NEW k \in Lits, NEW i \in 1..B2[k], i \notin 1..B[k]
               PROVE  {-k, e.bDB[k][i]} = {u, l}
    OBVIOUS
  <2>1. CASE k = x /\ i = B2[x]
    <3>1. -k = u /\ e.bDB[k][i] = l
      BY <1>1, <1>4, <2>1
    <3> QED BY <3>1
  <2>2. CASE k = y /\ i = B2[y]
    <3>1. -k = l /\ e.bDB[k][i] = u
      BY <1>1, <1>4, <2>2
    <3> QED BY <3>1
  <2> QED BY <1>5, <2>1, <2>2
<1>7. ASSUME NEW k \in Lits, NEW i \in 1..B2[k], NEW other, other = e.bDB[k][i]
      PROVE  other # -k /\ \E j \in 1..B2[-other] : e.bDB[-other][j] = -k
  <2>1. CASE i \in 1..B[k]
    <3>1. i \in DOMAIN d.bDB[k]
      BY <2>1, DbFields DEF WithinLists
    <3>2. other = d.bDB[k][i] /\ other \in Lits
      <4>1. d.bDB[k] \in Seq(Lits)
        BY DbFields
      <4> QED BY <1>7, <3>1, <4>1, SMTT(30) DEF Extends, Continues
    <3>3. PICK o, j : o = -other /\ j \in 1..B[o] /\ d.bDB[o][j] = -k /\ other # -k
      BY <2>1, <3>2 DEF Twins
    <3>4. o \in Lits /\ j \in 1..B2[o]
      <4>1. o \in Lits
        BY <3>2, <3>3, LitFacts
      <4> QED BY <1>3, <3>3, <4>1
    <3>5. j \in DOMAIN d.bDB[o]
      BY <3>3, <3>4, DbFields, SMTT(30) DEF WithinLists
    <3>6. e.bDB[o][j] = -k
      BY <3>3, <3>4, <3>5 DEF Extends, Continues
    <3> QED BY <3>3, <3>4, <3>6
  <2>2. CASE k = x /\ i = B2[x]
    <3>1. other = l /\ -other = y /\ -k = u
      BY <1>1, <1>4, <1>7, <2>2
    <3>2. B2[y] \in 1..B2[y]
      BY <1>1, <1>2, <1>3
    <3> QED BY <1>4, <3>1, <3>2
  <2>3. CASE k = y /\ i = B2[y]
    <3>1. other = u /\ -other = x /\ -k = l
      BY <1>1, <1>4, <1>7, <2>3
    <3>2. B2[x] \in 1..B2[x]
      BY <1>1, <1>2, <1>3
    <3> QED BY <1>4, <3>1, <3>2
  <2> QED BY <1>5, <2>1, <2>2, <2>3
<1>8. Twins(e, B2)
  <2> SUFFICES ASSUME NEW k \in Lits, NEW i \in 1..B2[k]
               PROVE  /\ e.bDB[k][i] # -k
                      /\ \E j \in 1..B2[-e.bDB[k][i]] : e.bDB[-e.bDB[k][i]][j] = -k
    BY DEF Twins
  <2>1. PICK other : other = e.bDB[k][i]
    OBVIOUS
  <2>2. other # -k /\ \E j \in 1..B2[-other] : e.bDB[-other][j] = -k
    BY <1>7, <2>1
  <2> QED BY <2>1, <2>2
<1> QED BY <1>3, <1>6, <1>8 DEF MoreBinaries

\* A worker that has counted the entries it has used finds the binary next.
LEMMA BinaryIsNext ==
    ASSUME NEW w, NEW a, a = ad[w], NEW u \in Lits, NEW l \in Lits, u # l,
           Counted(a, db), SameAt(w, {u, l}), NEW d, d = db, NEW B, B = a.lastBins
    PROVE  BinaryNextOf(d, B, u, l)
<1>1. PICK c : c = {u, l}
  OBVIOUS
<1>2. Cardinality(c) = 2 /\ SameAt(w, c)
  <2>1. Cardinality({u, l}) = 2
    <3>1. IsFiniteSet({u}) /\ Cardinality({u}) = 1 /\ {u, l} = {u} \cup {l}
      BY FS_Singleton
    <3> QED BY <3>1, FS_AddElement
  <2> QED BY <1>1, <2>1
<1>3. /\ Len(db.bDB[-u]) > a.lastBins[-u] <=> Len(db.bDB[-l]) > a.lastBins[-l]
      /\ Len(db.bDB[-u]) > a.lastBins[-u] =>
            /\ db.bDB[-u][a.lastBins[-u] + 1] = l
            /\ db.bDB[-l][a.lastBins[-l] + 1] = u
  BY <1>1, <1>2, SameBinary
<1>4. a.lastBins[-u] <= Len(db.bDB[-u]) /\ a.lastBins[-l] <= Len(db.bDB[-l])
  BY LitFacts DEF Counted
<1> QED BY <1>3, <1>4 DEF BinaryNextOf, BinaryAt

LEMMA LearnBinaryPInv ==
    ASSUME IInv, IInv', PInv, SameSearch, NEW w \in Workers, LearnBinary(w)
    PROVE  PInv'
<1>1. PICK l \in Lits :
         /\ ad[w].lemmaToLearn = {l}
         /\ Sharing(w, AfterLearning(CountBinary(ad[w], ad[w].uip, l),
                                     [size |-> 2, lit |-> l, ptr |-> 0]),
                       InsertBinary(db, ad[w].uip, l, FALSE, ad[w].lastBins[-ad[w].uip]))
  BY DEF LearnBinary
<1>2. PICK a, u, x, y, c, r, b, e, d, B :
         /\ a = ad[w] /\ u = a.uip /\ x = -u /\ y = -l /\ c = CountBinary(a, u, l)
         /\ r = [size |-> 2, lit |-> l, ptr |-> 0] /\ b = AfterLearning(c, r)
         /\ d = db /\ B = a.lastBins
         /\ e = InsertBinary(db, u, l, FALSE, B[x])
  OBVIOUS
<1>3. ReadyToLearn(w) /\ a.lemmaToLearn = {l} /\ Sharing(w, b, e)
  BY <1>1, <1>2 DEF LearnBinary
<1>4. /\ WorkerInv(a, d, Read) /\ DbInv(d, Read) /\ Typed(a)
      /\ d \in ClauseDBType /\ a.pc = "shorten" /\ a.lemma = {}
      /\ u \in Lits /\ u # l /\ Follows(Read, Learned(a))
      /\ SameAt(w, Learned(a)) /\ Counted(a, d)
      /\ a.lastUnit \in Nat /\ B \in [Lits -> Nat] /\ a.lastTernary \in Nat
  BY <1>2, <1>3, LearnFacts
<1>5. Learned(a) = {u, l}
  BY <1>2, <1>3 DEF Learned
<1>6. PWorker(a, d, w, Read) /\ Read \subseteq Clause /\ ad[w].pc # "allocated"
  BY <1>2, <1>4, StepFacts
<1>7. BinaryNextOf(d, B, u, l)
  BY <1>2, <1>4, <1>5, BinaryIsNext
<1>8. /\ BinaryAt(e, B, u, l)
      /\ e.tDB = d.tDB /\ e.ternaryWatches = d.ternaryWatches /\ e.nDB = d.nDB
      /\ e.uDB = d.uDB
  <2>1. PICK last : last = B[-u] /\ BinaryOf(d, u, l, last, e)
    BY <1>2 DEF BinaryOf
  <2> QED BY <1>4, <1>7, <2>1, BinaryEntered
<1>9. Extends(d, e) /\ e \in ClauseDBType
  <2>1. PICK last1, last2 : last1 = B[-u] /\ last2 = B[-l]
    OBVIOUS
  <2>2. /\ last1 \in Nat /\ last2 \in Nat
        /\ last1 <= Len(d.bDB[-u]) /\ last2 <= Len(d.bDB[-l])
        /\ AlreadyInList(d.bDB[-u], FALSE, last1) => Len(d.bDB[-l]) > last2
    BY <1>4, <1>7, <2>1, LitFacts DEF BinaryNextOf, AlreadyInList
  <2>3. /\ DbInv(d, Read) /\ Follows(Read, {u, l}) /\ FALSE \in BOOLEAN
        /\ e = InsertBinary(d, u, l, FALSE, last1)
    BY <1>2, <1>4, <1>5, <2>1
  <2>4. DbInv(e, Read) /\ Extends(d, e)
    BY <1>4, <2>2, <2>3, BinaryInserted, Zenon
  <2> QED BY <2>4 DEF DbInv
<1>10. /\ DOMAIN c = Fields /\ c = [f \in Fields |-> c[f]]
       /\ \A f \in Fields \ {"lastBins"} : c[f] = a[f]
       /\ c.lastBins = [a.lastBins EXCEPT ![-u] = @ + 1, ![-l] = @ + 1]
  BY <1>2, <1>4, Zenon DEF Typed, Fields, CountBinary
<1>11. /\ c.marks = a.marks /\ c.lemmaToLearn = a.lemmaToLearn /\ c.uip = a.uip
       /\ c.model = a.model
  BY <1>10 DEF Fields
<1>12. Jumps(a, b, r) /\ Differs(c, b, Jumped)
  BY <1>2, <1>10, <1>11, AfterLearningFields
<1>13. Learns(a, b, d, e, r)
  BY <1>4, <1>9, <1>10, <1>12 DEF Differs, Learns
<1>14. /\ b.lastUnit = a.lastUnit /\ TwoCounted(B, x, y, b.lastBins)
       /\ b.lastTernary = a.lastTernary /\ b.thcdb = a.thcdb
       /\ b.pc = "backjump" /\ b.rUIP = r /\ b.uip = u
  <2>1. /\ b.lastUnit = a.lastUnit /\ b.lastBins = c.lastBins
        /\ b.lastTernary = a.lastTernary /\ b.thcdb = a.thcdb
    BY <1>10, <1>12 DEF Differs, Jumped, Fields
  <2>4. b.pc = "backjump" /\ b.rUIP = r
    BY <1>12 DEF Jumps
  <2>5. b.uip = a.uip
    BY <1>10, <1>12 DEF Differs, Jumped, Fields
  <2>2. b.pc = "backjump" /\ b.rUIP = r /\ b.uip = u
    BY <1>2, <2>4, <2>5
  <2>3. b.lastBins = [B EXCEPT ![x] = @ + 1, ![y] = @ + 1]
    BY <1>2, <1>10, <2>1
  <2> QED BY <2>1, <2>2, <2>3 DEF TwoCounted
<1>15. Twins(e, b.lastBins) /\ MoreBinaries(e, B, b.lastBins, u, l)
  <2>1. Twins(d, B) /\ WithinLists(d, B)
    BY <1>2, <1>4, <1>6 DEF PWorker, Lists, Counted, WithinLists
  <2>2. PICK B2 : B2 = b.lastBins
    OBVIOUS
  <2>3. TwoCounted(B, x, y, B2) /\ x = -u /\ y = -l
    BY <1>2, <1>14, <2>2
  <2>4. Twins(e, B2) /\ MoreBinaries(e, B, B2, u, l)
    BY <1>4, <1>8, <1>9, <2>1, <2>3, TwinsMore
  <2> QED BY <2>2, <2>4
<1>16. Grows(d, e, w) /\ TernariesListed(e)
  <2>1. TernariesListed(d)
    BY <1>2 DEF PInv
  <2> QED BY <1>4, <1>8, <1>9, <2>1, ShortGrows
<1>17. r.size = 2 /\ r.lit = l /\ r.ptr = 0
  BY <1>2
<1>18. NewDone(a, b, d, e, w)
  <2>1. NewBinaries(a, b, e)
    <3>1. ASSUME NEW k \in Lits, NEW i \in 1..b.lastBins[k], i \notin 1..B[k]
          PROVE  BinaryOpen(b, e, k, i)
      <4>1. {-k, e.bDB[k][i]} = {b.uip, b.rUIP.lit}
        BY <1>14, <1>15, <1>17, <3>1 DEF MoreBinaries
      <4> QED BY <1>14, <1>17, <4>1 DEF BinaryOpen, IsNews
    <3> QED BY <1>2, <3>1 DEF NewBinaries
  <2>2. NewUnits(a, b, e) /\ NewTernaries(a, b, d, e, w) /\ NewNaries(a, b)
    BY <1>8, <1>14, NoNewUnits, NoNewTernaries, NoNewNaries
  <2> QED BY <2>1, <2>2 DEF NewDone
<1>19. FlagsCount(b, e, w) /\ HeldKept(a, b)
  <2>1. FlagsCount(a, d, w)
    BY <1>6 DEF PWorker, Lists
  <2> QED BY <1>8, <1>14, <2>1, NoNewTernaries, NoNewNaries
<1>20. NewsWatched(b)
  BY <1>14, <1>17 DEF NewsWatched
<1>21. FlagsKept(d, e, w) /\ CountersGrow(a, b)
  <2>1. FlagsKept(d, e, w)
    BY <1>8 DEF FlagsKept
  <2>2. \A k \in Lits : a.lastBins[k] \in Nat
    BY <1>2, <1>4
  <2>4. \A k \in Lits : a.lastBins[k] <= b.lastBins[k] /\ b.lastBins[k] \in Nat
    BY <1>2, <1>15 DEF MoreBinaries
  <2>5. b.lastUnit \in Nat /\ a.lastUnit <= b.lastUnit
    BY <1>4, <1>14
  <2>3. CountersGrow(a, b)
    BY <1>4, <2>2, <2>4, <2>5 DEF CountersGrow
  <2> QED BY <2>1, <2>3
<1>22. PWorker(b, e, w, Read)
  BY <1>4, <1>6, <1>9, <1>13, <1>15, <1>18, <1>19, <1>20, <1>21, LearnKeeps
<1> QED BY <1>2, <1>3, <1>6, <1>9, <1>16, <1>22, SharingPInv

LEMMA LearnTernaryPInv ==
    ASSUME IInv, IInv', PInv, SameSearch, NEW w \in Workers, LearnTernary(w)
    PROVE  PInv'
<1>1. PICK a, d, p, c, r, b, last, lits, e :
         /\ a = ad[w] /\ d = db
         /\ last = a.lastTernary /\ p = EntryFor(d.tDB, FALSE, last)
         /\ c = [a EXCEPT !.lastTernary = @ + 1] /\ lits = Learned(a)
         /\ r = [size |-> 3, lit |-> ZeroLit, ptr |-> p] /\ b = AfterLearning(c, r)
         /\ e = InsertTernary(d, lits, FALSE, w, last)
  OBVIOUS
<1>2. ReadyToLearn(w) /\ Cardinality(a.lemmaToLearn) = 2 /\ Sharing(w, b, e)
  BY <1>1 DEF LearnTernary
<1>3. /\ WorkerInv(a, d, Read) /\ DbInv(d, Read) /\ Typed(a)
      /\ d \in ClauseDBType /\ a.pc = "shorten" /\ a.lemma = {}
      /\ lits \in Clause /\ Follows(Read, lits)
      /\ SameAt(w, lits) /\ Counted(a, d)
      /\ Cardinality(a.lemmaToLearn) = Cardinality(lits) - 1
      /\ Cardinality(lits) \in Nat
      /\ a.lastUnit \in Nat /\ a.lastBins \in [Lits -> Nat] /\ last \in Nat
  BY <1>1, <1>2, LearnFacts
<1>4. Cardinality(lits) = 3 /\ last <= Len(d.tDB)
  BY <1>1, <1>2, <1>3 DEF Counted
<1>5. PWorker(a, d, w, Read) /\ Read \subseteq Clause /\ ad[w].pc # "allocated"
  BY <1>1, <1>3, StepFacts
<1>6. SameNext(d.tDB, last, lits) /\ TernaryOf(d, lits, w, last, e, p)
  BY <1>1, <1>3, <1>4 DEF SameAt, AlreadyInList, SameNext, TernaryOf
<1>7. Extends(d, e) /\ e \in ClauseDBType
  <2>1. DbInv(e, Read) /\ Extends(d, e)
    BY <1>3, <1>4, <1>6, TernaryLearned
  <2> QED BY <2>1 DEF DbInv
<1>8. /\ Grows(d, e, w) /\ TernariesListed(e) /\ TernaryGrown(d, e, w, last)
      /\ e.uDB = d.uDB /\ e.bDB = d.bDB /\ e.nDB = d.nDB
  <2>1. TernariesListed(d)
    BY <1>1 DEF PInv
  <2> QED BY <1>3, <1>4, <1>6, <1>7, <2>1, TernaryGrows
<1>9. p = last + 1
  BY <1>3, <1>4, <1>6, TernaryFlags
<1>10. /\ DOMAIN c = Fields /\ c = [f \in Fields |-> c[f]]
       /\ \A f \in Fields \ {"lastTernary"} : c[f] = a[f]
       /\ c.lastTernary = last + 1
  BY <1>1, <1>3 DEF Typed, Fields
<1>11. /\ c.marks = a.marks /\ c.lemmaToLearn = a.lemmaToLearn /\ c.uip = a.uip
       /\ c.model = a.model
  BY <1>10 DEF Fields
<1>12. Jumps(a, b, r) /\ Differs(c, b, Jumped)
  <2>1. b = AfterLearning(c, r)
    BY <1>1
  <2> QED BY <1>10, <1>11, <2>1, AfterLearningFields
<1>13. Learns(a, b, d, e, r)
  BY <1>3, <1>7, <1>10, <1>12 DEF Differs, Learns
<1>14. /\ b.lastUnit = a.lastUnit /\ b.lastBins = a.lastBins
       /\ b.lastTernary = last + 1 /\ b.thcdb = a.thcdb
  BY <1>10, <1>12 DEF Differs, Jumped, Fields
<1>15. b.pc = "backjump" /\ b.rUIP.size = 3 /\ b.rUIP.ptr = last + 1
  <2>1. b.pc = "backjump" /\ b.rUIP = r
    BY <1>12 DEF Jumps
  <2>2. r.size = 3 /\ r.ptr = p
    BY <1>1
  <2> QED BY <1>9, <2>1, <2>2
<1>16. NewTernaries(a, b, d, e, w) /\ FlagsCount(b, e, w)
  <2>1. TernaryIsNew(b, e, p)
    BY <1>9, <1>15 DEF TernaryIsNew, IsNews
  <2>2. FlagsCount(a, d, w)
    BY <1>5 DEF PWorker, Lists
  <2>3. TernaryTaken(a, b, d, last, p)
    BY <1>1, <1>3, <1>4, <1>9, <1>14 DEF TernaryTaken
  <2> QED BY <1>3, <1>7, <1>8, <2>1, <2>2, <2>3, OneMoreTernary
<1>17. NewDone(a, b, d, e, w) /\ HeldKept(a, b)
  BY <1>14, <1>16, NoNewUnits, NoNewBinaries, NoNewNaries DEF NewDone
<1>18. Twins(e, b.lastBins)
  BY <1>3, <1>5, <1>7, <1>8, <1>14, TwinsKept
<1>19. NewsWatched(b)
  BY <1>15 DEF NewsWatched
<1>20. FlagsKept(d, e, w) /\ CountersGrow(a, b)
  <2>1. FlagsKept(d, e, w)
    BY <1>7, <1>8 DEF FlagsKept, TernaryGrown, Extends
  <2>2. CountersGrow(a, b)
    BY <1>3, <1>14 DEF CountersGrow
  <2> QED BY <2>1, <2>2
<1>21. PWorker(b, e, w, Read)
  BY <1>3, <1>5, <1>7, <1>13, <1>16, <1>17, <1>18, <1>19, <1>20, LearnKeeps
<1> QED BY <1>1, <1>2, <1>5, <1>7, <1>8, <1>21, SharingPInv

LEMMA LearnNaryPInv ==
    ASSUME IInv, IInv', PInv, SameSearch, NEW w \in Workers, LearnNary(w)
    PROVE  PInv'
<1>1. PICK a, d, n, pos, other, t, c, r, b, last, lits, e :
         /\ a = ad[w] /\ d = db /\ last = a.lastNary /\ n = Len(a.thcdb) + 1
         /\ pos = last + 1 /\ lits = Learned(a) /\ other = OtherWatch(a)
         /\ t = [pos |-> pos, w1 |-> a.uip, w2 |-> other, activity |-> 0]
         /\ c = InsertThClause([a EXCEPT !.lastNary = @ + 1], t)
         /\ r = [size |-> Cardinality(lits), lit |-> ZeroLit, ptr |-> n]
         /\ b = AfterLearning(c, r)
         /\ e = InsertNary(d, lits, FALSE, w, last)
  OBVIOUS
<1>2. ReadyToLearn(w) /\ Cardinality(a.lemmaToLearn) > 2 /\ Sharing(w, b, e)
  BY <1>1 DEF LearnNary
<1>3. /\ WorkerInv(a, d, Read) /\ DbInv(d, Read) /\ Typed(a)
      /\ d \in ClauseDBType /\ a.pc = "shorten" /\ a.lemma = {}
      /\ a.uip \in Lits /\ lits \in Clause /\ a.lemmaToLearn \in Clause
      /\ a.uip \notin a.lemmaToLearn /\ Follows(Read, lits)
      /\ SameAt(w, lits) /\ Counted(a, d)
      /\ Cardinality(a.lemmaToLearn) = Cardinality(lits) - 1
      /\ Cardinality(lits) \in Nat
      /\ a.lastUnit \in Nat /\ a.lastBins \in [Lits -> Nat] /\ a.lastTernary \in Nat
      /\ last \in Nat /\ a.thcdb \in Seq(ThClause)
  BY <1>1, <1>2, LearnFacts
<1>4. Cardinality(lits) > 3 /\ a.lemmaToLearn # {} /\ last <= Len(d.nDB)
  <2>1. Cardinality(lits) > 3 /\ last <= Len(d.nDB)
    BY <1>1, <1>2, <1>3 DEF Counted
  <2>2. Cardinality(a.lemmaToLearn) # 0
    BY <1>2
  <2> QED BY <1>3, <2>1, <2>2, ClauseSize
<1>5. PWorker(a, d, w, Read) /\ Read \subseteq Clause /\ ad[w].pc # "allocated"
  BY <1>1, <1>3, StepFacts
<1>6. SameNext(d.nDB, last, lits) /\ NaryOf(d, lits, w, last, e, pos)
  BY <1>1, <1>3, <1>4 DEF SameAt, AlreadyInList, SameNext, NaryOf
<1>7. Extends(d, e) /\ e \in ClauseDBType
  <2>1. DbInv(e, Read) /\ Extends(d, e)
    BY <1>3, <1>4, <1>6, NaryLearned
  <2> QED BY <2>1 DEF DbInv
<1>8. /\ OriginalsKept(d, e) /\ e.tDB = d.tDB
      /\ e.ternaryWatches = d.ternaryWatches /\ e.uDB = d.uDB /\ e.bDB = d.bDB
  BY <1>3, <1>6, NaryGrows
<1>9. Grows(d, e, w) /\ TernariesListed(e)
  <2>1. TernariesListed(d)
    BY <1>1 DEF PInv
  <2> QED BY <1>3, <1>7, <1>8, <2>1, LongGrows
<1>10. other \in a.lemmaToLearn /\ other \in Lits
  <2>1. /\ a.model \in ModelType /\ TrailConsistent(a.model)
        /\ AllFalse(a.model, a.lemmaToLearn)
    <3>1. Shortening(a, Read)
      BY <1>3, WorkerParts DEF Place
    <3> QED BY <1>3, <3>1, WorkerParts DEF Shortening, AllLower, AllFalse
  <2>2. other \in a.lemmaToLearn
    BY <1>1, <1>3, <1>4, <2>1, HighestIs DEF OtherWatch
  <2> QED BY <1>3, <2>2 DEF Clause
<1>11. t.pos = pos /\ t.w1 = a.uip /\ t.w2 = other /\ t \in ThClause
  <2>1. pos \in Nat
    BY <1>1, <1>3
  <2>2. t = [pos |-> pos, w1 |-> a.uip, w2 |-> other, activity |-> 0]
    BY <1>1
  <2> QED BY <1>3, <1>10, <2>1, <2>2 DEF ThClause
<1>12. /\ DOMAIN c = Fields /\ c = [f \in Fields |-> c[f]]
       /\ \A f \in Fields \ {"lastNary", "thcdb", "watches"} : c[f] = a[f]
       /\ c.thcdb = Append(a.thcdb, t)
  <2>1. StoredIn(a, c, t)
    BY <1>1 DEF StoredIn
  <2> QED BY <1>3, <2>1, ClauseStored
<1>13. /\ c.marks = a.marks /\ c.lemmaToLearn = a.lemmaToLearn /\ c.uip = a.uip
       /\ c.model = a.model
  BY <1>12 DEF Fields
<1>14. Jumps(a, b, r) /\ Differs(c, b, Jumped)
  <2>1. b = AfterLearning(c, r)
    BY <1>1
  <2> QED BY <1>12, <1>13, <2>1, AfterLearningFields
<1>15. Learns(a, b, d, e, r)
  BY <1>3, <1>7, <1>12, <1>14 DEF Differs, Learns
<1>16. /\ b.lastUnit = a.lastUnit /\ b.lastBins = a.lastBins
       /\ b.lastTernary = a.lastTernary /\ b.thcdb = Append(a.thcdb, t)
       /\ b.model = a.model /\ b.uip = a.uip
  BY <1>12, <1>14 DEF Differs, Jumped, Fields
<1>17. b.pc = "backjump" /\ b.rUIP.size > 3 /\ b.rUIP.ptr = n
  <2>1. b.pc = "backjump" /\ b.rUIP = r
    BY <1>14 DEF Jumps
  <2>2. r.size = Cardinality(lits) /\ r.ptr = n
    BY <1>1
  <2> QED BY <1>4, <2>1, <2>2
<1>18. NewNaries(a, b) /\ HeldKept(a, b) /\ b.thcdb[b.rUIP.ptr] = t
  <2>1. NaryStored(a, b, t)
    BY <1>1, <1>3, <1>11, <1>16, <1>17 DEF NaryStored
  <2> QED BY <2>1, OneMoreNary
<1>19. NewTernaries(a, b, d, e, w) /\ FlagsCount(b, e, w)
  <2>1. FlagsCount(a, d, w)
    BY <1>5 DEF PWorker, Lists
  <2> QED BY <1>8, <1>16, <2>1, NoNewTernaries
<1>20. NewDone(a, b, d, e, w)
  BY <1>16, <1>18, <1>19, NoNewUnits, NoNewBinaries DEF NewDone
<1>21. Twins(e, b.lastBins)
  BY <1>3, <1>5, <1>7, <1>9, <1>16, TwinsKept
<1>22. NewsWatched(b)
  <2>1. b.dlToBackjump = LitDl(a.model, Highest(a.model, a.lemmaToLearn))
    BY <1>4, <1>14 DEF Jumps
  <2>2. b.dlToBackjump = LitDl(b.model, other)
    BY <1>1, <1>16, <2>1 DEF OtherWatch
  <2> QED BY <1>11, <1>16, <1>18, <2>2 DEF NewsWatched
<1>23. FlagsKept(d, e, w) /\ CountersGrow(a, b)
  <2>1. FlagsKept(d, e, w)
    BY <1>7, <1>8 DEF FlagsKept, OriginalsKept
  <2>2. CountersGrow(a, b)
    BY <1>3, <1>16 DEF CountersGrow
  <2> QED BY <2>1, <2>2
<1>24. PWorker(b, e, w, Read)
  BY <1>3, <1>5, <1>7, <1>15, <1>18, <1>19, <1>20, <1>21, <1>22, <1>23, LearnKeeps
<1> QED BY <1>1, <1>2, <1>5, <1>7, <1>9, <1>24, SharingPInv

-----------------------------------------------------------------------------
(* The cleanup: a clause is left alone, or leaves thcdb *)

LEMMA CleanedInput ==
    ASSUME NEW a, NEW b, NEW d \in ClauseDBType, NEW e, NEW i, NEW w,
           NEW P, P \subseteq Clause, WorkerInv(a, d, P), InputKept(a, d, w, P),
           DeletingStep(a, b, d, e, i), CountersGrow(a, b), FlagsKept(d, e, w),
           Covered(a, b, d, e, w, i)
    PROVE  InputKept(b, e, w, P)
<1> SUFFICES ASSUME NEW c \in P \ {{}} PROVE InForce(b, e, w, c)
  BY DEF InputKept
<1>1. PICK x : x = [model |-> b.model, lastUnit |-> b.lastUnit, lastBins |-> b.lastBins,
                    thcdb |-> a.thcdb]
  OBVIOUS
<1>2. /\ x.model = b.model /\ x.lastUnit = b.lastUnit /\ x.lastBins = b.lastBins
      /\ x.thcdb = a.thcdb
  BY <1>1
<1>3. /\ b.model = a.model /\ i \in DOMAIN a.thcdb /\ Extends(d, e)
      /\ b.thcdb = [a.thcdb EXCEPT ![i].pos = 0]
  BY DEF DeletingStep
<1>4. Counted(a, d) /\ ThHeld(a, d) /\ a.thcdb \in Seq(ThClause)
  BY WorkerParts DEF Core
<1>5. InForce(x, e, w, c)
  <2>1. FixedKept(a.model, x.model)
    BY <1>2, <1>3, FixedSame
  <2>2. CountersGrow(a, x)
    BY <1>2 DEF CountersGrow
  <2>3. HeldKept(a, x)
    BY <1>2 DEF HeldKept
  <2>4. InForce(a, d, w, c) /\ c \in Clause
    BY DEF InputKept
  <2> QED BY <1>3, <1>4, <2>1, <2>2, <2>3, <2>4, InForceStays
<1>6. CASE \E j \in DOMAIN x.thcdb : /\ x.thcdb[j].pos # 0
                                     /\ e.nDB[x.thcdb[j].pos].original
                                     /\ e.nDB[x.thcdb[j].pos].lits = c
  <2>1. PICK j \in DOMAIN a.thcdb : /\ a.thcdb[j].pos # 0
                                    /\ e.nDB[a.thcdb[j].pos].original
                                    /\ e.nDB[a.thcdb[j].pos].lits = c
    BY <1>2, <1>6
  <2>2. CASE j # i
    <3>1. DOMAIN b.thcdb = DOMAIN a.thcdb /\ b.thcdb[j] = a.thcdb[j]
      BY <1>3, <1>4, <2>2, CleanedThcdb
    <3> QED BY <2>1, <3>1 DEF InForce
  <2>3. CASE j = i
    <3>1. PICK p : p = a.thcdb[i].pos
      OBVIOUS
    <3>2. p \in DOMAIN d.nDB
      BY <1>4, <2>1, <2>3, <3>1 DEF ThHeld, ThGood
    <3>3. d.nDB[p].original /\ d.nDB[p].lits = c /\ p # 0
      BY <1>3, <2>1, <2>3, <3>1, <3>2 DEF Extends, FlagsKept
    <3> QED BY <3>1, <3>3 DEF Covered
  <2> QED BY <2>2, <2>3
<1>7. CASE ~\E j \in DOMAIN x.thcdb : /\ x.thcdb[j].pos # 0
                                      /\ e.nDB[x.thcdb[j].pos].original
                                      /\ e.nDB[x.thcdb[j].pos].lits = c
  BY <1>2, <1>5, <1>7, Zenon DEF InForce
<1> QED BY <1>6, <1>7

LEMMA CleanKeeps ==
    ASSUME NEW a, NEW b, NEW d \in ClauseDBType, NEW e \in ClauseDBType, NEW i, NEW w,
           NEW P, P \subseteq Clause, WorkerInv(a, d, P), PWorker(a, d, w, P),
           DeletingStep(a, b, d, e, i), CountersGrow(a, b), FlagsKept(d, e, w),
           Covered(a, b, d, e, w, i),
           NewUnits(a, b, e), NewBinaries(a, b, e), NewTernaries(a, b, d, e, w),
           Twins(e, b.lastBins), FlagsCount(b, e, w)
    PROVE  PWorker(b, e, w, P)
<1>1. /\ b.model = a.model /\ i \in DOMAIN a.thcdb /\ Extends(d, e)
      /\ b.thcdb = [a.thcdb EXCEPT ![i].pos = 0] /\ b.result = a.result
      /\ a.pc = "clean" /\ b.pc = "clean"
  BY DEF DeletingStep
<1>2. a.model \in ModelType /\ TrailConsistent(a.model) /\ a.thcdb \in Seq(ThClause)
  BY WorkerParts
<1>3. StoreStep(a, b, d, e)
  <2>1. ~Falling(a) /\ ~Falling(b)
    BY <1>1 DEF Falling, PoppingNow
  <2>2. Limit(b) <= Limit(a)
    BY <1>1, <1>2, <2>1, LimitIs
  <2>3. Retains(a, b)
    BY <1>1, <1>2, <2>2, RetainsSame
  <2>4. FixedKept(a.model, b.model)
    BY <1>1, FixedSame
  <2> QED BY <1>1, <2>3, <2>4 DEF StoreStep
<1>4. NewNaries(a, b)
  BY <1>1, <1>2, CleanedThcdb DEF NewNaries
<1>5. NewDone(a, b, d, e, w)
  BY <1>4 DEF NewDone
<1>6. Lists(b, e, w)
  <2>1. MarkersPassed(a.model) /\ FullyPropagated(a.model)
    BY <1>1 DEF PWorker, Lists
  <2>2. SizeGood(b, e) /\ NewsWatched(b)
    BY <1>1 DEF SizeGood, NewsWatched
  <2> QED BY <1>1, <2>1, <2>2 DEF Lists
<1>7. InputKept(b, e, w, P)
  <2>1. InputKept(a, d, w, P)
    BY DEF PWorker, Input
  <2> QED BY <2>1, CleanedInput
<1> QED BY <1>3, <1>5, <1>6, <1>7, StoreKeeps

LEMMA DeletedPInv ==
    ASSUME IInv, IInv', PInv, NEW w \in Workers, NEW a, a = ad[w], NEW t, AtClause(a, t),
           NEW x, NextClause(a, x), NEW c, NEW d, ShrunkTo(x, c, d), ShrinksTo(a, c, d, w, t),
           NEW b, b = Deleted(c, a.cursor.pos), NEW e, e = FlagCleared(d, t.pos, w),
           Sharing(w, b, e)
    PROVE  PInv'
<1>1. /\ WorkerInv(a, db, Read) /\ db \in ClauseDBType /\ a.thcdb \in Seq(ThClause)
      /\ a.cursor.pos \in DOMAIN a.thcdb /\ t.pos \in DOMAIN db.nDB
      /\ t = a.thcdb[a.cursor.pos] /\ a.pc = "clean"
  BY CleanFacts, WorkerParts DEF AtClause
<1>2. /\ PWorker(a, db, w, Read) /\ Read \subseteq Clause /\ ad[w].pc # "allocated"
  BY <1>1, StepFacts
<1>3. Differs(a, x, {"cursor"})
  BY CleanNext DEF AtClause, NextClause
<1>4. /\ Differs(x, c, {"model", "lastUnit", "lastBins", "lastTernary"})
      /\ Extends(db, d) /\ DbInv(d, Read)
  BY DEF ShrunkTo
<1>5. PICK i, pos : i = a.cursor.pos /\ pos = t.pos
  OBVIOUS
<1>6. Differs(c, b, {"thcdb"}) /\ b.thcdb = [c.thcdb EXCEPT ![i].pos = 0]
  <2>1. DOMAIN c = Fields /\ c = [f \in Fields |-> c[f]] /\ b = Deleted(c, i)
    BY <1>4, <1>5 DEF Differs
  <2> QED BY <2>1, DeletedFields
<1>7. c.thcdb = a.thcdb /\ c.result = a.result
  BY <1>3, <1>4 DEF Differs, Fields
<1>8. c.pc = "clean" /\ c.model = a.model
  BY DEF ShrinksTo
<1>9. /\ b.model = c.model /\ b.lastUnit = c.lastUnit /\ b.lastBins = c.lastBins
      /\ b.lastTernary = c.lastTernary /\ b.pc = c.pc /\ b.result = c.result
  BY <1>6 DEF Differs, Fields
<1>10. d \in ClauseDBType /\ pos \in DOMAIN d.nDB /\ d.nDB[pos].lits = db.nDB[pos].lits
  BY <1>1, <1>4, <1>5, Zenon DEF DbInv, Extends
<1>11. /\ OriginalsKept(d, e) /\ e.tDB = d.tDB /\ e.ternaryWatches = d.ternaryWatches
       /\ e.uDB = d.uDB /\ e.bDB = d.bDB
  BY <1>5, <1>10, ClearedGrows
<1>12. Extends(db, e) /\ e \in ClauseDBType
  <2>1. DbInv(e, Read) /\ Extends(d, e)
    <3>1. e = FlagCleared(d, pos, w)
      BY <1>5
    <3> QED BY <1>4, <1>10, <3>1, FlagClearedKeeps
  <2>2. e \in ClauseDBType
    BY <2>1 DEF DbInv
  <2> QED BY <1>1, <1>4, <1>10, <2>1, <2>2, ExtendsFurther, Zenon
<1>13. DeletingStep(a, b, db, e, i)
  BY <1>1, <1>5, <1>6, <1>7, <1>8, <1>9, <1>12, Zenon DEF DeletingStep
<1>14. /\ NewUnits(a, b, e) /\ NewBinaries(a, b, e) /\ NewTernaries(a, b, db, e, w)
       /\ Twins(e, b.lastBins) /\ FlagsCount(b, e, w) /\ CountersGrow(a, b)
       /\ TernariesListed(e)
  BY <1>8, <1>9, <1>11, DeletedStays
<1>15. FlagsKept(db, e, w) /\ Grows(db, e, w)
  <2>1. FlagsKept(db, d, w) /\ Grows(db, d, w)
    BY DEF ShrinksTo
  <2>2. \A k \in DOMAIN db.nDB : e.nDB[k].original = db.nDB[k].original
    BY <1>4, <1>11, <2>1 DEF OriginalsKept, FlagsKept, Extends
  <2> QED BY <1>11, <1>12, <2>1, <2>2 DEF FlagsKept, Grows
<1>16. Covered(a, b, db, e, w, i)
  <2>1. SUFFICES ASSUME db.nDB[pos].original
                 PROVE  InForce(b, e, w, db.nDB[pos].lits)
    BY <1>1, <1>5 DEF Covered
  <2>2. Covering(a, c, d, w, db.nDB[pos].lits)
    BY <1>5, <2>1 DEF ShrinksTo, ThLits
  <2>3. PICK lits : lits = db.nDB[pos].lits
    OBVIOUS
  <2>4. Covering(b, b, e, w, lits)
    BY <1>8, <1>9, <1>11, <2>2, <2>3 DEF Covering
  <2>5. InForce(b, e, w, lits)
    BY <2>4, Zenon DEF Covering, InForce
  <2> QED BY <2>3, <2>5
<1>17. PWorker(b, e, w, Read)
  BY <1>1, <1>2, <1>12, <1>13, <1>14, <1>15, <1>16, CleanKeeps, Zenon
<1> QED BY <1>2, <1>12, <1>14, <1>15, <1>17, SharingPInv

\* Nothing is stored: the clause is no input clause, or has a true literal.
LEMMA NothingShrinks ==
    ASSUME IInv, PInv, NEW w \in Workers, NEW a, a = ad[w], NEW t, AtClause(a, t),
           NEW x, NextClause(a, x), ~IsKept(t) \/ IsSatisfied(a, t)
    PROVE  ShrinksTo(a, x, db, w, t)
<1>1. /\ WorkerInv(a, db, Read) /\ db \in ClauseDBType /\ Typed(a) /\ a.pc = "clean"
      /\ a.model \in ModelType /\ TrailConsistent(a.model) /\ a.model.decisionLvl = 0
      /\ ThLits(t) \in Clause
  BY CleanFacts DEF AtClause
<1>2. PWorker(a, db, w, Read)
  BY <1>1, StepFacts
<1>3. Differs(a, x, {"cursor"})
  BY CleanNext DEF AtClause, NextClause
<1>4. /\ x.pc = "clean" /\ x.model = a.model /\ x.lastUnit = a.lastUnit
      /\ x.lastBins = a.lastBins /\ x.lastTernary = a.lastTernary
  BY <1>1, <1>3 DEF Differs, Fields
<1>5. NewUnits(a, x, db) /\ NewBinaries(a, x, db) /\ NewTernaries(a, x, db, db, w)
  BY <1>4, NoNewUnits, NoNewBinaries, NoNewTernaries
<1>6. Twins(db, x.lastBins) /\ FlagsCount(x, db, w)
  BY <1>2, <1>4 DEF PWorker, Lists, FlagsCount
<1>7. CountersGrow(a, x)
  <2>1. a.lastUnit \in Nat /\ a.lastBins \in [Lits -> Nat]
    BY <1>1 DEF Typed
  <2> QED BY <1>4, <2>1 DEF CountersGrow
<1>8. FlagsKept(db, db, w) /\ Grows(db, db, w)
  BY <1>1, FlagsSame, GrowsSame
<1>9. TernariesListed(db)
  BY DEF PInv
<1>10. db.nDB[t.pos].original => Covering(a, x, db, w, ThLits(t))
  <2> SUFFICES ASSUME db.nDB[t.pos].original PROVE Covering(a, x, db, w, ThLits(t))
    OBVIOUS
  <2>1. PICK l \in ThLits(t) : IsTrue(a.model, l)
    BY DEF IsKept, IsSatisfied
  <2>2. l \in Lits
    BY <1>1 DEF Clause
  <2>3. LitDl(a.model, l) = 0
    <3>1. LitDl(a.model, l) \in Nat /\ LitDl(a.model, l) <= a.model.decisionLvl
      BY <1>1, <2>1, <2>2, TrueLits
    <3> QED BY <1>1, <3>1
  <2> QED BY <2>1, <2>3 DEF Covering, Fixed
<1> QED BY <1>4, <1>5, <1>6, <1>7, <1>8, <1>9, <1>10 DEF ShrinksTo

\* What is left of t, of two literals or three.
ShrinkOf(w, a, x, rest, t) ==
    /\ AtClause(a, t) /\ NextClause(a, x)
    /\ rest = Undefined(a, t) /\ rest \subseteq ThLits(t)

LEMMA TernaryShrinks ==
    ASSUME IInv, PInv, NEW w \in Workers, NEW a, a = ad[w], NEW t, NEW x, NEW rest,
           ShrinkOf(w, a, x, rest, t), NEW c, NEW d, ShrunkFrom(w, a, x, rest, c, d),
           ShrunkTo(x, c, d), Cardinality(rest) = 3
    PROVE  ShrinksTo(a, c, d, w, t)
<1>1. PWorker(a, db, w, Read) /\ a.pc = "clean" /\ TernariesListed(db)
  <2>1. a.pc = "clean"
    BY DEF ShrunkFrom
  <2> QED BY <2>1, StepFacts DEF PInv
<1>2. /\ Typed(x) /\ db \in ClauseDBType /\ Counted(x, db)
      /\ x.lastUnit = a.lastUnit /\ x.lastBins = a.lastBins
      /\ x.lastTernary = a.lastTernary
      /\ x.lastUnit \in Nat /\ x.lastBins \in [Lits -> Nat] /\ x.lastTernary \in Nat
  BY ShrunkFacts
<1>3. /\ rest \in Clause /\ SameAt(w, rest) /\ Differs(a, x, {"cursor"})
      /\ c = ShrunkSolver(x, rest) /\ d = ShrunkDB(w, a, rest)
      /\ \A l \in rest : IsUndef(x.model, l)
  BY DEF ShrunkFrom
<1>4. Extends(db, d) /\ d \in ClauseDBType
  BY DEF ShrunkTo, DbInv
<1>5. PICK last, D, p :
         last = x.lastTernary /\ D = db /\ p = EntryFor(D.tDB, FALSE, last)
  OBVIOUS
<1>6. TernaryOf(D, rest, w, last, d, p) /\ last \in Nat /\ last <= Len(D.tDB)
  <2>1. d = InsertTernary(db, rest, FALSE, w, a.lastTernary)
    BY <1>3 DEF ShrunkDB
  <2>2. TernaryOf(D, rest, w, last, d, p)
    BY <1>2, <1>5, <2>1 DEF TernaryOf
  <2> QED BY <1>2, <1>5, <2>2 DEF Counted
<1>7. /\ Grows(D, d, w) /\ TernariesListed(d) /\ TernaryGrown(D, d, w, last)
      /\ d.uDB = D.uDB /\ d.bDB = D.bDB /\ d.nDB = D.nDB /\ p = last + 1
  <2>1. D \in ClauseDBType /\ Extends(D, d) /\ TernariesListed(D)
    BY <1>1, <1>2, <1>4, <1>5
  <2> QED BY <1>3, <1>4, <1>6, <2>1, TernaryGrows, TernaryFlags
<1>8. c = [x EXCEPT !.lastTernary = @ + 1]
  BY <1>3 DEF ShrunkSolver
<1>9. /\ c.lastUnit = a.lastUnit /\ c.lastBins = a.lastBins /\ c.lastTernary = p
      /\ c.model = x.model /\ c.pc = x.pc /\ x.pc = "clean" /\ x.model = a.model
  <2>1. x.pc = "clean" /\ x.model = a.model
    BY <1>1, <1>3 DEF Differs, Fields
  <2> QED BY <1>2, <1>5, <1>7, <1>8, <2>1 DEF Typed, Fields
<1>10. p \in DOMAIN d.tDB /\ d.tDB[p].lits = rest /\ d.tDB[p].flags[w]
  <2>1. p \in DOMAIN d.tDB
    <3>1. Counted(c, d) /\ c.lastTernary \in Nat
      BY DEF ShrunkTo
    <3>2. p <= Len(d.tDB) /\ p \in Nat
      BY <1>9, <3>1 DEF Counted
    <3> QED BY <1>4, <1>6, <1>7, <3>2, DbFields
  <2>2. d.tDB[p].flags[w]
    BY <1>7, <2>1 DEF TernaryGrown
  <2>3. d.tDB[p].lits = rest
    <3>1. CASE Len(D.tDB) > last
      <4>3. Len(db.tDB) > a.lastTernary => rest = db.tDB[a.lastTernary + 1].lits
        BY <1>3 DEF SameAt
      <4>4. last = a.lastTernary
        BY <1>2, <1>5
      <4>1. rest = D.tDB[p].lits
        BY <1>5, <1>7, <3>1, <4>3, <4>4
      <4>5. DOMAIN D.tDB = 1..Len(D.tDB) /\ Len(D.tDB) \in Nat
        BY <1>2, <1>5, DbFields
      <4>2. p \in DOMAIN D.tDB
        BY <1>6, <1>7, <3>1, <4>5
      <4> QED BY <1>4, <1>5, <4>1, <4>2 DEF Extends
    <3>2. CASE ~(Len(D.tDB) > last)
      <4>1. Len(D.tDB) = last /\ Len(D.tDB) \in Nat
        BY <1>2, <1>5, <1>6, <3>2, DbFields
      <4>2. p <= Len(d.tDB)
        BY <1>4, <2>1, DbFields
      <4>3. Len(d.tDB) > Len(D.tDB)
        BY <1>4, <1>7, <4>1, <4>2, DbFields
      <4>4. D \in ClauseDBType
        BY <1>2, <1>5
      <4>5. d.tDB[Len(D.tDB) + 1].lits = rest
        BY <1>3, <1>6, <4>3, <4>4, TernaryFlags
      <4> QED BY <1>7, <4>1, <4>5
    <3> QED BY <3>1, <3>2
  <2> QED BY <2>1, <2>2, <2>3
<1>11. NewTernaries(a, c, D, d, w) /\ FlagsCount(c, d, w)
  <2>1. TernaryIsNew(c, d, p)
    BY <1>3, <1>9, <1>10, UndefNotPassed DEF TernaryIsNew
  <2>2. TernaryTaken(a, c, D, last, p)
    BY <1>2, <1>5, <1>6, <1>7, <1>9 DEF TernaryTaken
  <2>3. FlagsCount(a, D, w) /\ D \in ClauseDBType
    BY <1>1, <1>2, <1>5 DEF PWorker, Lists
  <2> QED BY <1>4, <1>7, <2>1, <2>2, <2>3, OneMoreTernary
<1>12. NewUnits(a, c, d) /\ NewBinaries(a, c, d)
  BY <1>9, NoNewUnits, NoNewBinaries
<1>13. Twins(d, c.lastBins)
  BY <1>1, <1>5, <1>7, <1>9 DEF PWorker, Lists, Twins
<1>14. CountersGrow(a, c)
  BY <1>2, <1>9 DEF CountersGrow
<1>15. FlagsKept(D, d, w)
  <2>1. \A k \in DOMAIN D.tDB : D.tDB[k].flags[w] => d.tDB[k].flags[w]
    BY <1>4, <1>5, <1>7 DEF TernaryGrown, Extends
  <2>2. \A k \in DOMAIN D.nDB : d.nDB[k].original = D.nDB[k].original
    BY <1>7
  <2> QED BY <2>1, <2>2 DEF FlagsKept
<1>16. Covering(a, c, d, w, ThLits(t))
  BY <1>10 DEF Covering, ShrinkOf
<1> QED BY <1>5, <1>7, <1>9, <1>11, <1>12, <1>13, <1>14, <1>15, <1>16 DEF ShrinksTo

LEMMA BinaryShrinks ==
    ASSUME IInv, PInv, NEW w \in Workers, NEW a, a = ad[w], NEW t, NEW x, NEW rest,
           ShrinkOf(w, a, x, rest, t), NEW c, NEW d, ShrunkFrom(w, a, x, rest, c, d),
           ShrunkTo(x, c, d), Cardinality(rest) = 2
    PROVE  ShrinksTo(a, c, d, w, t)
<1>1. PWorker(a, db, w, Read) /\ a.pc = "clean" /\ TernariesListed(db)
  <2>1. a.pc = "clean"
    BY DEF ShrunkFrom
  <2> QED BY <2>1, StepFacts DEF PInv
<1>2. /\ Typed(x) /\ db \in ClauseDBType /\ Counted(x, db)
      /\ x.lastUnit = a.lastUnit /\ x.lastBins = a.lastBins
      /\ x.lastTernary = a.lastTernary
      /\ x.lastUnit \in Nat /\ x.lastBins \in [Lits -> Nat] /\ x.lastTernary \in Nat
  BY ShrunkFacts
<1>3. /\ rest \in Clause /\ SameAt(w, rest) /\ Differs(a, x, {"cursor"})
      /\ c = ShrunkSolver(x, rest) /\ d = ShrunkDB(w, a, rest)
      /\ \A l \in rest : IsUndef(x.model, l)
  BY DEF ShrunkFrom
<1>4. Extends(db, d) /\ d \in ClauseDBType
  BY DEF ShrunkTo, DbInv
<1>5. PICK u, l, first, other :
         /\ u = Min(rest) /\ l = Second(rest)
         /\ first = (CHOOSE k \in rest : TRUE) /\ other = (CHOOSE k \in rest : k # first)
  OBVIOUS
<1>6. u \in rest /\ l \in rest /\ u # l /\ rest = {u, l} /\ u \in Lits /\ l \in Lits
  <2>1. u \in rest /\ l \in rest /\ u # l
    BY <1>3, <1>5, FirstTwo
  <2> QED BY <1>3, <2>1, ClauseOfTwo DEF Clause
<1>7. first \in rest /\ other \in rest /\ first # other
  <2>1. first \in rest
    BY <1>5, <1>6
  <2>2. \E k \in rest : k # first
    BY <1>3, <2>1, ClauseOfTwo
  <2> QED BY <1>5, <2>1, <2>2
<1>8. PICK D, B : D = db /\ B = a.lastBins
  OBVIOUS
<1>9. /\ D \in ClauseDBType /\ B \in [Lits -> Nat] /\ Extends(D, d)
      /\ Twins(D, B) /\ WithinLists(D, B)
  <2>1. WithinLists(D, B)
    BY <1>2, <1>8 DEF WithinLists, Counted
  <2> QED BY <1>1, <1>2, <1>4, <1>8, <2>1 DEF PWorker, Lists
<1>10. BinaryNextOf(D, B, u, l)
  <2>1. Counted(a, db)
    BY <1>1, CleanFacts DEF ShrinkOf, AtClause
  <2> QED BY <1>3, <1>6, <1>8, <2>1, BinaryIsNext
<1>11. /\ BinaryAt(d, B, u, l)
       /\ d.tDB = D.tDB /\ d.ternaryWatches = D.ternaryWatches /\ d.nDB = D.nDB
       /\ d.uDB = D.uDB
  <2>1. d = InsertBinary(db, Min(rest), Second(rest), FALSE, a.lastBins[-Min(rest)])
    BY <1>3 DEF ShrunkDB
  <2>2. PICK last : last = B[-u]
    OBVIOUS
  <2>3. BinaryOf(D, u, l, last, d)
    BY <1>5, <1>8, <2>1, <2>2 DEF BinaryOf
  <2> QED BY <1>6, <1>9, <1>10, <2>2, <2>3, BinaryEntered
<1>12. BinaryAt(d, B, first, other) /\ {first, other} = rest
       /\ first \in Lits /\ other \in Lits
  <2>1. (first = u /\ other = l) \/ (first = l /\ other = u)
    BY <1>6, <1>7
  <2> QED BY <1>6, <1>11, <2>1 DEF BinaryAt
<1>13. c = [x EXCEPT !.lastBins[-first] = @ + 1, !.lastBins[-other] = @ + 1]
  <2>1. c = CountBinary(x, CHOOSE k \in rest : TRUE,
                        CHOOSE k \in rest : k # CHOOSE j \in rest : TRUE)
    BY <1>3 DEF ShrunkSolver
  <2>2. c = CountBinary(x, first, other)
    BY <1>5, <2>1
  <2> QED BY <2>2 DEF CountBinary
<1>14. /\ c.lastUnit = a.lastUnit /\ c.lastTernary = a.lastTernary
       /\ c.model = x.model /\ c.pc = x.pc /\ x.pc = "clean" /\ x.model = a.model
       /\ c.lastBins = [B EXCEPT ![-first] = @ + 1, ![-other] = @ + 1]
  <2>1. x.pc = "clean" /\ x.model = a.model
    BY <1>1, <1>3 DEF Differs, Fields
  <2> QED BY <1>2, <1>8, <1>13, <2>1 DEF Typed, Fields
<1>15. PICK B2, y, z : B2 = c.lastBins /\ y = -first /\ z = -other
  OBVIOUS
<1>16. TwoCounted(B, y, z, B2)
  BY <1>14, <1>15 DEF TwoCounted
<1>17. Twins(d, B2) /\ MoreBinaries(d, B, B2, first, other)
  BY <1>4, <1>7, <1>9, <1>12, <1>15, <1>16, TwinsMore
<1>18. /\ y \in Lits /\ -y = first /\ B2[y] \in 1..B2[y] /\ d.bDB[y][B2[y]] = other
  <2>1. y \in Lits /\ z \in Lits /\ y # z /\ -y = first
    BY <1>7, <1>12, <1>15, LitFacts DEF Lits
  <2>2. B2[y] = B[y] + 1 /\ B[y] \in Nat
    BY <1>9, <1>16, <2>1, TwoMore
  <2> QED BY <1>12, <1>15, <2>1, <2>2 DEF BinaryAt
<1>19. NewBinaries(a, c, d)
  <2>1. ASSUME NEW k \in Lits, NEW i \in 1..c.lastBins[k], i \notin 1..a.lastBins[k]
        PROVE  ~Passed(c, "binary", -k)
    <3>1. {-k, d.bDB[k][i]} = rest
      BY <1>8, <1>12, <1>15, <1>17, <2>1 DEF MoreBinaries
    <3>2. IsUndef(c.model, -k)
      BY <1>3, <1>14, <3>1
    <3> QED BY <3>2, UndefNotPassed
  <2> QED BY <2>1 DEF NewBinaries
<1>20. NewUnits(a, c, d) /\ NewTernaries(a, c, D, d, w)
  BY <1>11, <1>14, NoNewUnits, NoNewTernaries
<1>21. FlagsCount(c, d, w)
  BY <1>1, <1>8, <1>11, <1>14 DEF PWorker, Lists, FlagsCount
<1>22. CountersGrow(a, c)
  <2>1. a.lastUnit \in Nat /\ c.lastUnit = a.lastUnit
    BY <1>2, <1>14
  <2>2. \A k \in Lits : a.lastBins[k] \in Nat
    BY <1>8, <1>9
  <2>3. \A k \in Lits : a.lastBins[k] <= c.lastBins[k] /\ c.lastBins[k] \in Nat
    BY <1>8, <1>15, <1>17 DEF MoreBinaries
  <2> QED BY <2>1, <2>2, <2>3 DEF CountersGrow
<1>23. Grows(D, d, w) /\ TernariesListed(d)
  <2>1. TernariesListed(D)
    BY <1>1, <1>8
  <2> QED BY <1>9, <1>11, <2>1, ShortGrows
<1>24. FlagsKept(D, d, w)
  BY <1>11 DEF FlagsKept
<1>25. Covering(a, c, d, w, ThLits(t))
  <2>1. PICK i : i = B2[y]
    OBVIOUS
  <2>2. {-y, d.bDB[y][i]} = rest /\ i \in 1..c.lastBins[y]
    BY <1>12, <1>15, <1>18, <2>1
  <2>3. {-y, d.bDB[y][i]} \subseteq ThLits(t)
    BY <2>2 DEF ShrinkOf
  <2>4. \E k \in Lits : \E j \in 1..c.lastBins[k] : {-k, d.bDB[k][j]} \subseteq ThLits(t)
    BY <1>18, <2>2, <2>3
  <2> QED BY <2>4 DEF Covering
<1> QED BY <1>8, <1>14, <1>15, <1>17, <1>19, <1>20, <1>21, <1>22, <1>23, <1>24, <1>25
        DEF ShrinksTo

\* At least two literals are left: those that are watched are undefined.
LEMMA TwoAreLeft ==
    ASSUME IInv, PInv, NEW w \in Workers, NEW a, a = ad[w], NEW t, AtClause(a, t),
           ~IsSatisfied(a, t), NEW rest, rest = Undefined(a, t), rest \in Clause
    PROVE  Cardinality(rest) # 1
<1>1. /\ WorkerInv(a, db, Read) /\ db \in ClauseDBType /\ a.cursor.pos \in DOMAIN a.thcdb
      /\ t.pos \in DOMAIN db.nDB /\ a.pc = "clean" /\ t = a.thcdb[a.cursor.pos]
  BY CleanFacts DEF AtClause
<1>2. PWorker(a, db, w, Read)
  BY <1>1, StepFacts
<1>3. t.pos # 0
  BY <1>1, DbFields
<1>4. Served(a.model, ThLits(t))
  BY <1>1, <1>2, <1>3, NaryServed, Zenon DEF AtRest, ThLits
<1>5. PICK x, y \in ThLits(t) : x # y /\ IsUndef(a.model, x) /\ IsUndef(a.model, y)
  BY <1>4 DEF Served, IsSatisfied
<1>6. x \in rest /\ y \in rest
  BY <1>5 DEF Undefined
<1>7. Cardinality(rest) = 1 => rest = {x}
  BY <1>6, ClauseSize
<1> QED BY <1>5, <1>6, <1>7

LEMMA CleanClausePInv ==
    ASSUME IInv, IInv', PInv, SameSearch, NEW w \in Workers, CleanClause(w)
    PROVE  PInv'
<1>1. PICK a, i, t, rest, x :
         /\ a = ad[w] /\ i = a.cursor.pos /\ t = a.thcdb[i] /\ rest = Undefined(a, t)
         /\ x = [a EXCEPT !.cursor.pos = @ + 1]
  OBVIOUS
<1>2. a.pc = "clean" /\ i <= Len(a.thcdb)
  BY <1>1 DEF CleanClause, At
<1>3. AtClause(a, t) /\ NextClause(a, x)
  BY <1>1, <1>2 DEF AtClause, NextClause
<1>4. /\ WorkerInv(x, db, Read) /\ x.pc = "clean" /\ Differs(a, x, {"cursor"})
      /\ WorkerInv(a, db, Read)
  BY <1>1, <1>2, CleanNext, CleanFacts
<1>5. DbInv(db, Read) /\ db \in ClauseDBType
  BY DEF IInv, DbInv
<1>6. CASE /\ ~IsKept(t) \/ IsSatisfied(a, t)
           /\ Sharing(w, Deleted(x, i), FlagCleared(db, t.pos, w))
  <2>1. PICK b, d, e : b = Deleted(x, i) /\ d = db /\ e = FlagCleared(d, t.pos, w)
    OBVIOUS
  <2>2. Sharing(w, b, e)
    BY <1>6, <2>1
  <2>3. ShrunkTo(x, x, d)
    <3>1. /\ Typed(x) /\ Counted(x, db) /\ x.model.decisionLvl = 0
          /\ x.model \in ModelType /\ ModelInv(x.model, x.thcdb, db, Read)
          /\ CursorsGood(x.model) /\ Free(x.model) \subseteq x.heap
      BY <1>4, WorkerParts, NotPopping DEF Core, Visiting
    <3>2. Extends(db, db)
      BY <1>5, ExtendsSame
    <3>3. Differs(x, x, {"model", "lastUnit", "lastBins", "lastTernary"})
      BY <3>1 DEF Typed, Differs
    <3>4. x.lastUnit \in Nat /\ x.lastBins \in [Lits -> Nat] /\ x.lastTernary \in Nat
      BY <3>1 DEF Typed
    <3> QED BY <1>4, <1>5, <2>1, <3>1, <3>2, <3>3, <3>4 DEF ShrunkTo
  <2>4. ShrinksTo(a, x, d, w, t)
    BY <1>1, <1>3, <1>6, <2>1, NothingShrinks
  <2> QED BY <1>1, <1>3, <2>1, <2>2, <2>3, <2>4, DeletedPInv, Zenon
<1>7. CASE Local(w, x)
  <2>1. /\ x.model = a.model /\ SameCounters(a, x) /\ x.thcdb = a.thcdb
        /\ x.result = a.result
    BY <1>4 DEF Differs, Fields, SameCounters
  <2>2. PWorker(a, db, w, Read) /\ Read \subseteq Clause /\ ad[w].pc # "allocated"
    BY <1>1, <1>2, StepFacts
  <2>3. PWorker(x, db, w, Read)
    <3>1. QuietStep(a, x, db, w)
      <4>1. a.model \in ModelType /\ TrailConsistent(a.model) /\ a.thcdb \in Seq(ThClause)
        BY <1>4, WorkerParts
      <4>2. ~Falling(a) /\ ~Falling(x)
        BY <1>2, <1>4 DEF Falling, PoppingNow
      <4>3. Limit(x) <= Limit(a)
        BY <2>1, <4>1, <4>2, LimitIs
      <4>4. Retains(a, x) /\ FixedKept(a.model, x.model) /\ AllCarried(a, x, db, w)
        BY <1>2, <2>1, <4>1, <4>3, RetainsSame, FixedSame, NothingToCarry
      <4>5. SameClauses(a.thcdb, x.thcdb)
        BY <2>1, <4>1, SameClausesSame
      <4>6. MarkersPassed(x.model)
        BY <2>1, <2>2 DEF PWorker, Lists
      <4> QED BY <2>1, <4>4, <4>5, <4>6 DEF QuietStep
    <3>2. UnitsFixed(x, db)
      <4>1. UnitsFixed(a, db)
        BY <2>2 DEF PWorker, Done
      <4> QED BY <1>2, <2>1, <4>1 DEF UnitsFixed, UnitOpen, SameCounters
    <3>3. SizeGood(x, db) /\ NewsWatched(x)
      BY <1>4 DEF SizeGood, NewsWatched
    <3>4. ModelFound(x, Read)
      BY <1>2, <1>4, <2>1, NoModelYet
    <3>5. FullyPropagated(x.model)
      BY <1>2, <2>1, <2>2 DEF PWorker, Lists
    <3> QED BY <1>4, <1>5, <2>2, <3>1, <3>2, <3>3, <3>4, <3>5, QuietKeeps
  <2> QED BY <1>7, <2>2, <2>3, LocalPInv
<1>8. CASE /\ IsKept(t) /\ ~IsSatisfied(a, t) /\ Cardinality(rest) \in 1..3
           /\ Sharing(w, Deleted(ShrunkSolver(x, rest), i),
                         FlagCleared(ShrunkDB(w, a, rest), t.pos, w))
  <2>1. PICK c, d, b, e :
           /\ c = ShrunkSolver(x, rest) /\ d = ShrunkDB(w, a, rest)
           /\ b = Deleted(c, i) /\ e = FlagCleared(d, t.pos, w)
    OBVIOUS
  <2>2. Sharing(w, b, e)
    BY <1>8, <2>1
  <2>3. rest \in Clause /\ Follows(Read, rest) /\ \A l \in rest : IsUndef(a.model, l)
    BY <1>1, <1>2, <1>8, UndefinedFollows
  <2>4. SameAt(w, rest)
    BY <1>1, <1>2, <1>8, Zenon DEF SameSearch
  <2>5. ShrunkFrom(w, a, x, rest, c, d)
    <3>1. x.model = a.model
      BY <1>4 DEF Differs, Fields
    <3> QED BY <1>1, <1>2, <1>4, <1>5, <2>1, <2>3, <2>4, <3>1, Zenon DEF ShrunkFrom
  <2>6. Cardinality(rest) = 2 \/ Cardinality(rest) = 3
    <3>1. Cardinality(rest) \in Nat
      BY <2>3, ClauseSize
    <3>2. Cardinality(rest) # 1
      BY <1>1, <1>3, <1>8, <2>3, TwoAreLeft, Zenon
    <3> QED BY <1>8, <3>1, <3>2
  <2>7. ShrunkTo(x, c, d)
    BY <2>5, <2>6, ShrunkBinary, ShrunkTernary
  <2>8. ShrinksTo(a, c, d, w, t)
    <3>1. ShrinkOf(w, a, x, rest, t)
      BY <1>1, <1>3 DEF ShrinkOf, Undefined
    <3> QED BY <1>1, <2>5, <2>6, <2>7, <3>1, BinaryShrinks, TernaryShrinks
  <2> QED BY <1>1, <1>3, <2>1, <2>2, <2>7, <2>8, DeletedPInv, Zenon
<1> QED BY <1>1, <1>6, <1>7, <1>8 DEF CleanClause

LEMMA CompactKeeps ==
    ASSUME NEW a, NEW b, NEW d \in ClauseDBType, NEW w, NEW P, P \subseteq Clause,
           WorkerInv(a, d, P), PWorker(a, d, w, P), a.pc = "clean", b.pc = "propagate",
           b.model = a.model, SameCounters(a, b), b.result = a.result,
           Compacted(a.thcdb, b.thcdb)
    PROVE  PWorker(b, d, w, P)
<1>1. /\ a.model \in ModelType /\ TrailConsistent(a.model) /\ Typed(a)
      /\ Counted(a, d) /\ ThHeld(a, d)
  BY WorkerParts DEF Core
<1>2. ~Falling(a) /\ ~Falling(b)
  BY DEF Falling, PoppingNow
<1>3. Retains(a, b) /\ AllCarried(a, b, d, w)
  <2>1. Limit(b) <= Limit(a)
    BY <1>1, <1>2, LimitIs
  <2> QED BY <1>1, <2>1, RetainsSame, NothingToCarry
<1>4. FixedKept(a.model, b.model)
  BY FixedSame
<1>5. Done(a, d, w) /\ Lists(a, d, w) /\ Input(a, d, w, P)
  BY DEF PWorker
<1>6. /\ b.lastBins = a.lastBins /\ b.lastUnit = a.lastUnit
      /\ b.lastTernary = a.lastTernary
      /\ a.lastBins \in [Lits -> Nat] /\ a.lastUnit \in Nat
      /\ \A l \in Lits : a.lastBins[l] <= Len(d.bDB[l])
  BY <1>1 DEF SameCounters, Typed, Counted
<1>7. BinaryDone(b, d)
  BY <1>3, <1>5, <1>6, BinaryStays DEF AllCarried, Done
<1>8. TernaryDone(b, d, w)
  BY <1>3, <1>5, TernaryStays DEF AllCarried, Done
<1>9. UnitsFixed(b, d)
  BY <1>1, <1>4, <1>5, <1>6, UnitsStay DEF Done
<1>10. NaryDone(b)
  <2>1. ASSUME NEW n \in DOMAIN b.thcdb
        PROVE  /\ Guarded(b, n, b.thcdb[n].w1, b.thcdb[n].w2)
               /\ Guarded(b, n, b.thcdb[n].w2, b.thcdb[n].w1)
    <3>1. PICK j \in DOMAIN a.thcdb :
             /\ a.thcdb[j].pos # 0
             /\ b.thcdb[n].w1 = a.thcdb[j].w1 /\ b.thcdb[n].w2 = a.thcdb[j].w2
      BY DEF Compacted
    <3>2. /\ Guarded(a, j, a.thcdb[j].w1, a.thcdb[j].w2)
          /\ Guarded(a, j, a.thcdb[j].w2, a.thcdb[j].w1)
      BY <1>5, <3>1 DEF Done, NaryDone
    <3>3. \A x : ~NaryOpen(a, j, x)
      BY DEF NaryOpen, IsNews
    <3>4. a.thcdb[j].w1 \in Lits /\ a.thcdb[j].w2 \in Lits
      <4>1. a.thcdb[j] \in ThClause
        BY <1>1, ElementOfSeq DEF Typed
      <4> QED BY <4>1 DEF ThClause
    <3>5. \A x \in Lits : Passed(b, "nary", x) => Passed(a, "nary", x)
      BY <1>3 DEF Retains, Kinds
    <3> QED BY <3>1, <3>2, <3>3, <3>4, <3>5 DEF Guarded, Rescued
  <2> QED BY <2>1 DEF NaryDone
<1>11. Lists(b, d, w)
  BY <1>5, <1>6 DEF Lists, SizeGood, NewsWatched, FlagsCount
<1>12. InputKept(b, d, w, P)
  <2>1. HeldKept(a, b)
    BY DEF Compacted, HeldKept
  <2>2. CountersGrow(a, b)
    BY <1>1, CountersSame
  <2>3. Extends(d, d) /\ FlagsKept(d, d, w)
    BY ExtendsSame, FlagsSame
  <2>4. InputKept(a, d, w, P)
    BY <1>5 DEF Input
  <2> QED BY <1>1, <1>4, <2>1, <2>2, <2>3, <2>4, InputStays
<1>13. ModelFound(b, P)
  BY NoModelYet
<1> QED BY <1>7, <1>8, <1>9, <1>10, <1>11, <1>12, <1>13 DEF PWorker, Done, Input

LEMMA CompactAndWatchPInv ==
    ASSUME IInv, PInv, NEW w \in Workers, CompactAndWatch(w)
    PROVE  PInv'
<1>1. PICK a, th, S, kept, aged, watches, b :
         /\ a = ad[w] /\ th = a.thcdb /\ S = {i \in DOMAIN th : th[i].pos # 0}
         /\ kept = InOrderOf(S)
         /\ aged = [n \in DOMAIN kept |-> [th[kept[n]] EXCEPT !.activity = @ \div 2]]
         /\ watches = WatchLists(aged)
         /\ b = [a EXCEPT !.pc = "propagate", !.cursor = NoCursor, !.cleaning = TRUE,
                          !.thcdb = aged, !.watches = watches]
  OBVIOUS
<1>2. a.pc = "clean" /\ Local(w, b)
  BY <1>1, Zenon DEF CompactAndWatch, At
<1>3. /\ WorkerInv(a, db, Read) /\ PWorker(a, db, w, Read) /\ Typed(a)
      /\ db \in ClauseDBType /\ Read \subseteq Clause /\ ad[w].pc # "allocated"
  BY <1>1, <1>2, StepFacts, Zenon
<1>4. th \in Seq(ThClause) /\ Len(th) \in Nat /\ DOMAIN th = 1..Len(th)
  <2>1. th \in Seq(ThClause)
    BY <1>1, <1>3, Zenon DEF Typed
  <2> QED BY <2>1
<1>5. Range(kept) = S
  <2>1. S \subseteq 1..Len(th)
    BY <1>1, <1>4, Zenon
  <2>2. S \in SUBSET Nat
    BY <1>4, <2>1
  <2>3. IsFiniteSet(1..Len(th))
    BY <1>4, FS_Interval
  <2>4. IsFiniteSet(S)
    BY <2>1, <2>3, FS_Subset, Zenon
  <2>5. kept = InOrderOf(S)
    BY <1>1, Zenon
  <2> QED BY <2>2, <2>4, <2>5, InOrderOfLists
<1>6. DOMAIN aged = DOMAIN kept
  BY <1>1, Zenon
<1>7. ASSUME NEW n \in DOMAIN kept
      PROVE  /\ kept[n] \in S /\ kept[n] \in DOMAIN th /\ th[kept[n]].pos # 0
             /\ aged[n].pos = th[kept[n]].pos
             /\ aged[n].w1 = th[kept[n]].w1 /\ aged[n].w2 = th[kept[n]].w2
  <2>1. PICK j, t, u : j = kept[n] /\ t = th[j] /\ u = aged[n]
    OBVIOUS
  <2>2. j \in S /\ j \in DOMAIN th /\ t.pos # 0
    <3>1. j \in S
      BY <1>5, <1>7, <2>1 DEF Range
    <3> QED BY <1>1, <2>1, <3>1, Zenon
  <2>3. t \in ThClause
    BY <1>4, <2>1, <2>2
  <2>4. u = [t EXCEPT !.activity = @ \div 2]
    BY <1>1, <1>7, <2>1, Zenon
  <2>5. u.pos = t.pos /\ u.w1 = t.w1 /\ u.w2 = t.w2
    BY <2>3, <2>4 DEF ThClause
  <2> QED BY <2>1, <2>2, <2>5
<1>8. ASSUME NEW j \in DOMAIN th, th[j].pos # 0
      PROVE  \E n \in DOMAIN kept : kept[n] = j
  <2>1. j \in S
    BY <1>1, <1>8, Zenon
  <2> QED BY <1>5, <2>1 DEF Range
<1>9. Compacted(th, aged)
  <2>1. \A n \in DOMAIN aged : \E j \in DOMAIN th :
          /\ th[j].pos # 0 /\ aged[n].pos = th[j].pos
          /\ aged[n].w1 = th[j].w1 /\ aged[n].w2 = th[j].w2
    BY <1>6, <1>7
  <2>2. \A j \in DOMAIN th : th[j].pos # 0 => \E n \in DOMAIN aged : aged[n].pos = th[j].pos
    BY <1>6, <1>7, <1>8
  <2> QED BY <2>1, <2>2 DEF Compacted
<1>10. b.pc = "propagate" /\ b.thcdb = aged
  BY <1>1, <1>3, Zenon DEF Typed, Fields
<1>11. b.model = a.model /\ SameCounters(a, b) /\ b.result = a.result
  BY <1>1, <1>3, Zenon DEF Typed, Fields, SameCounters
<1>12. PWorker(b, db, w, Read)
  <2>1. Compacted(a.thcdb, b.thcdb)
    BY <1>1, <1>9, <1>10, Zenon
  <2> QED BY <1>2, <1>3, <1>10, <1>11, <2>1, CompactKeeps
<1> QED BY <1>2, <1>3, <1>12, LocalPInv

-----------------------------------------------------------------------------
(* The answer 10: the model is complete, and leaves no input clause unsatisfied. *)

LEMMA ReportSatPInv ==
    ASSUME IInv, PInv, NEW w \in Workers, ReportSat(w)
    PROVE  PInv'
<1>1. PICK a, b : a = ad[w] /\ b = [a EXCEPT !.heap = {}, !.pc = "done", !.result = 10]
  OBVIOUS
<1>2. a.pc = "decide" /\ Local(w, b) /\ \A v \in a.heap : ~IsUndefVar(a.model, v)
  BY <1>1 DEF ReportSat, At
<1>3. /\ WorkerInv(a, db, Read) /\ PWorker(a, db, w, Read) /\ Typed(a)
      /\ db \in ClauseDBType /\ Read \subseteq Clause /\ ad[w].pc # "allocated"
  BY <1>1, <1>2, StepFacts
<1>4. Free(a.model) = {}
  BY <1>2, <1>3, WorkerParts DEF Free
<1>5. b.pc = "done" /\ b.model = a.model /\ b.thcdb = a.thcdb /\ SameCounters(a, b)
  BY <1>1, <1>3 DEF Typed, Fields, SameCounters
<1>6. ASSUME NEW c \in Read \ {{}} PROVE \E l \in c : IsTrue(a.model, l)
  <2>1. InForce(a, db, w, c)
    BY <1>3 DEF PWorker, Input, InputKept
  <2>2. AtRest(a)
    BY <1>2 DEF AtRest
  <2>3. TernariesListed(db) /\ c \in Clause
    BY <1>3 DEF PInv
  <2> QED BY <1>3, <1>4, <2>1, <2>2, <2>3, ForcedTrue
<1>7. ModelFound(b, Read)
  BY <1>5, <1>6 DEF ModelFound
<1>8. StillStep(a, b)
  <2>1. SameClauses(a.thcdb, b.thcdb)
    BY <1>3, <1>5, SameClausesSame, WorkerParts
  <2> QED BY <1>2, <1>5, <2>1 DEF StillStep, NothingOpen, Falling
<1>9. PWorker(b, db, w, Read)
  BY <1>3, <1>7, <1>8, StillIsCalm
<1> QED BY <1>2, <1>3, <1>9, LocalPInv

-----------------------------------------------------------------------------
(* main: reading and starting *)

LEMMA EmptyPInv == TernariesListed(EmptyDB) /\ OnlyInput(EmptyDB)
<1>1. PICK d : d = EmptyDB
  OBVIOUS
<1>2. /\ d.bDB = [l \in Lits |-> <<>>] /\ d.tDB = <<>> /\ d.nDB = <<>>
  BY <1>1 DEF EmptyDB
<1>3. TernariesListed(d)
  BY <1>2 DEF TernariesListed
<1>4. Twins(d, [l \in Lits |-> Len(d.bDB[l])])
  BY <1>2 DEF Twins
<1>5. OnlyInput(d)
  BY <1>2, <1>4 DEF OnlyInput
<1> QED BY <1>1, <1>3, <1>5

LEMMA StoredFurther ==
    ASSUME NEW d \in ClauseDBType, NEW e \in ClauseDBType, Extends(d, e), NEW c, Stored(d, c)
    PROVE  Stored(e, c)
<1>1. CASE \E i \in DOMAIN d.uDB : c = {d.uDB[i]}
  BY <1>1 DEF Extends, Continues, Stored
<1>2. CASE \E l \in Lits : \E i \in DOMAIN d.bDB[l] : c = {-l, d.bDB[l][i]}
  <2>1. PICK l \in Lits : \E i \in DOMAIN d.bDB[l] : c = {-l, d.bDB[l][i]}
    BY <1>2
  <2>2. Continues(d.bDB[l], e.bDB[l])
    BY DEF Extends
  <2>3. \E i \in DOMAIN e.bDB[l] : c = {-l, e.bDB[l][i]}
    BY <2>1, <2>2 DEF Continues
  <2> QED BY <2>3 DEF Stored
<1>3. CASE \E i \in DOMAIN d.tDB : c = d.tDB[i].lits
  BY <1>3 DEF Extends, Stored
<1>4. CASE \E i \in DOMAIN d.nDB : c = d.nDB[i].lits
  BY <1>4 DEF Extends, Stored
<1> QED BY <1>1, <1>2, <1>3, <1>4 DEF Stored

\* add_input_literal, at the end of a clause: what the database looks like.
LongTwins(D) ==
    \A l \in Lits : \A i \in DOMAIN D[l] :
       /\ D[l][i] # -l
       /\ \E j \in DOMAIN D[-D[l][i]] : D[-D[l][i]][j] = -l

LEMMA LongTwinsAre ==
    ASSUME NEW d \in ClauseDBType
    PROVE  Twins(d, [l \in Lits |-> Len(d.bDB[l])]) <=> LongTwins(d.bDB)
<1>1. PICK size : size = [l \in Lits |-> Len(d.bDB[l])]
  OBVIOUS
<1>2. \A l \in Lits : DOMAIN d.bDB[l] = 1..Len(d.bDB[l]) /\ d.bDB[l] \in Seq(Lits)
  BY DbFields
<1>3. ASSUME NEW l \in Lits
      PROVE  DOMAIN d.bDB[l] = 1..size[l] /\ \A i \in DOMAIN d.bDB[l] : -d.bDB[l][i] \in Lits
  BY <1>1, <1>2, LitFacts
<1>4. ASSUME NEW l \in Lits, NEW i \in DOMAIN d.bDB[l]
      PROVE  1..size[-d.bDB[l][i]] = DOMAIN d.bDB[-d.bDB[l][i]]
  BY <1>3
<1>5. Twins(d, size) => LongTwins(d.bDB)
  BY <1>3, <1>4 DEF Twins, LongTwins
<1>6. LongTwins(d.bDB) => Twins(d, size)
  BY <1>3, <1>4 DEF Twins, LongTwins
<1> QED BY <1>1, <1>5, <1>6

BothLonger(D, E, u, l) == E = [D EXCEPT ![-u] = Append(@, l), ![-l] = Append(@, u)]

LEMMA TwinsEntered ==
    ASSUME NEW D \in [Lits -> Seq(Lits)], NEW u \in Lits, NEW l \in Lits, u # l,
           NEW E, BothLonger(D, E, u, l), LongTwins(D)
    PROVE  LongTwins(E) /\ \E i \in DOMAIN E[-u] : E[-u][i] = l
<1>1. PICK x, y : x = -u /\ y = -l
  OBVIOUS
<1>2. /\ x \in Lits /\ y \in Lits /\ x # y /\ u = -x /\ l = -y
      /\ D[x] \in Seq(Lits) /\ D[y] \in Seq(Lits)
  BY <1>1, LitFacts
<1>3. /\ E[x] = Append(D[x], l) /\ E[y] = Append(D[y], u)
      /\ \A k \in Lits \ {x, y} : E[k] = D[k]
  BY <1>1, <1>2 DEF BothLonger
<1>4. PICK n, m : n = Len(D[x]) + 1 /\ m = Len(D[y]) + 1
  OBVIOUS
<1>5. /\ n \in DOMAIN E[x] /\ E[x][n] = l /\ m \in DOMAIN E[y] /\ E[y][m] = u
  BY <1>2, <1>3, <1>4
<1>6. ASSUME NEW k \in Lits, NEW i \in DOMAIN D[k]
      PROVE  i \in DOMAIN E[k] /\ E[k][i] = D[k][i] /\ D[k][i] \in Lits
  <2>1. D[k] \in Seq(Lits)
    OBVIOUS
  <2>2. CASE k \in {x, y}
    <3>1. PICK s, z : s = D[k] /\ z \in Lits /\ E[k] = Append(s, z)
      BY <1>3, <2>2
    <3>2. s \in Seq(Lits) /\ i \in DOMAIN s
      BY <2>1, <3>1
    <3> QED BY <3>1, <3>2
  <2> QED BY <1>3, <2>1, <2>2
<1>7. ASSUME NEW k \in Lits, NEW i \in DOMAIN E[k], i \notin DOMAIN D[k]
      PROVE  (k = x /\ i = n) \/ (k = y /\ i = m)
  <2>1. D[k] \in Seq(Lits) /\ k \in {x, y}
    BY <1>3, <1>7
  <2> QED BY <1>2, <1>3, <1>4, <1>7, <2>1
<1>8. ASSUME NEW k \in Lits, NEW i \in DOMAIN E[k], NEW o, o = E[k][i]
      PROVE  o # -k /\ \E j \in DOMAIN E[-o] : E[-o][j] = -k
  <2>1. CASE i \in DOMAIN D[k]
    <3>1. o = D[k][i] /\ -o \in Lits
      BY <1>6, <1>8, <2>1, LitFacts
    <3>2. o # -k /\ \E j \in DOMAIN D[-o] : D[-o][j] = -k
      BY <2>1, <3>1 DEF LongTwins
    <3> QED BY <1>6, <3>1, <3>2
  <2>2. CASE k = x /\ i = n
    <3>1. o = l /\ -o = y /\ -k = u
      BY <1>1, <1>2, <1>5, <1>8, <2>2
    <3> QED BY <1>5, <3>1
  <2>3. CASE k = y /\ i = m
    <3>1. o = u /\ -o = x /\ -k = l
      BY <1>1, <1>2, <1>5, <1>8, <2>3
    <3> QED BY <1>5, <3>1
  <2> QED BY <1>7, <2>1, <2>2, <2>3
<1>9. LongTwins(E)
  <2>1. ASSUME NEW k \in Lits, NEW i \in DOMAIN E[k]
        PROVE  E[k][i] # -k /\ \E j \in DOMAIN E[-E[k][i]] : E[-E[k][i]][j] = -k
    <3>1. PICK o : o = E[k][i]
      OBVIOUS
    <3>2. o # -k /\ \E j \in DOMAIN E[-o] : E[-o][j] = -k
      BY <1>8, <3>1
    <3> QED BY <3>1, <3>2
  <2> QED BY <2>1 DEF LongTwins
<1> QED BY <1>1, <1>5, <1>9

NothingElse(d, e, c) == \A x : Stored(e, x) => Stored(d, x) \/ x = c

EntersDB(d, e, c) ==
    /\ TernariesListed(d) /\ OnlyInput(d) => TernariesListed(e) /\ OnlyInput(e)
    /\ Stored(e, c) /\ NothingElse(d, e, c)

LEMMA UnitRead ==
    ASSUME NEW d \in ClauseDBType, NEW e \in ClauseDBType, NEW l \in Lits,
           e = [d EXCEPT !.uDB = Append(@, l)]
    PROVE  EntersDB(d, e, {l})
<1>1. d.uDB \in Seq(Lits)
  BY DbFields
<1>2. /\ e.uDB = Append(d.uDB, l) /\ e.bDB = d.bDB /\ e.tDB = d.tDB /\ e.nDB = d.nDB
      /\ e.ternaryWatches = d.ternaryWatches
  BY DEF ClauseDBType
<1>3. Len(d.uDB) + 1 \in DOMAIN e.uDB /\ e.uDB[Len(d.uDB) + 1] = l
  BY <1>1, <1>2
<1>4. Stored(e, {l})
  BY <1>3 DEF Stored
<1>5. OnlyInput(d) => OnlyInput(e)
  BY <1>2, LongTwinsAre DEF OnlyInput
<1>6. TernariesListed(d) => TernariesListed(e)
  BY <1>2 DEF TernariesListed
<1>7. \A i \in DOMAIN e.uDB : (i \in DOMAIN d.uDB /\ e.uDB[i] = d.uDB[i]) \/ e.uDB[i] = l
  BY <1>1, <1>2
<1>8. NothingElse(d, e, {l})
  BY <1>2, <1>7, Zenon DEF NothingElse, Stored
<1> QED BY <1>4, <1>5, <1>6, <1>8 DEF EntersDB

\* An entry of a list of binaries was there, or is one of the clause c.
OldOrNew(D, E, k, i, c) ==
    (i \in DOMAIN D[k] /\ E[k][i] = D[k][i]) \/ {-k, E[k][i]} = c

LEMMA BinariesEntered ==
    ASSUME NEW D \in [Lits -> Seq(Lits)], NEW u \in Lits, NEW l \in Lits, u # l,
           NEW E, BothLonger(D, E, u, l), NEW k \in Lits, NEW i, i \in DOMAIN E[k],
           NEW c, c = {u, l}
    PROVE  OldOrNew(D, E, k, i, c)
<1>1. -u \in Lits /\ -l \in Lits /\ -u # -l /\ -(-u) = u /\ -(-l) = l
  BY LitFacts
<1>2. PICK s : s = D[k] /\ s \in Seq(Lits)
  OBVIOUS
<1> DEFINE Said == (i \in DOMAIN D[k] /\ E[k][i] = D[k][i]) \/ {-k, E[k][i]} = {u, l}
<1>3. ASSUME NEW z \in Lits, E[k] = Append(s, z)
      PROVE  (i \in DOMAIN s /\ E[k][i] = s[i]) \/ E[k][i] = z
  <2>1. i \in DOMAIN Append(s, z)
    BY <1>3
  <2>2. (i \in DOMAIN s /\ Append(s, z)[i] = s[i]) \/ Append(s, z)[i] = z
    BY <1>2, <2>1
  <2> QED BY <1>3, <2>2
<1>4. ASSUME k = -u PROVE Said
  <2>1. E[k] = Append(s, l)
    BY <1>1, <1>2, <1>4 DEF BothLonger
  <2> QED BY <1>1, <1>2, <1>3, <1>4, <2>1
<1>5. ASSUME k = -l PROVE Said
  <2>1. E[k] = Append(s, u)
    BY <1>1, <1>2, <1>5 DEF BothLonger
  <2> QED BY <1>1, <1>2, <1>3, <1>5, <2>1
<1>6. ASSUME k # -u, k # -l PROVE Said
  BY <1>1, <1>6 DEF BothLonger
<1>7. Said
  BY <1>4, <1>5, <1>6
<1> QED BY <1>7 DEF OldOrNew

LEMMA BinaryRead ==
    ASSUME NEW d \in ClauseDBType, NEW e \in ClauseDBType, NEW u \in Lits, NEW l \in Lits,
           u # l, e = [d EXCEPT !.bDB[-u] = Append(@, l), !.bDB[-l] = Append(@, u)]
    PROVE  EntersDB(d, e, {u, l})
<1>1. d.bDB \in [Lits -> Seq(Lits)] /\ -u \in Lits /\ -(-u) = u
  BY DbFields, LitFacts
<1>2. /\ e.bDB = [d.bDB EXCEPT ![-u] = Append(@, l), ![-l] = Append(@, u)]
      /\ e.tDB = d.tDB /\ e.nDB = d.nDB /\ e.ternaryWatches = d.ternaryWatches
  BY DEF ClauseDBType
<1>3. ASSUME LongTwins(d.bDB)
      PROVE  LongTwins(e.bDB) /\ \E i \in DOMAIN e.bDB[-u] : e.bDB[-u][i] = l
  <2>1. PICK D, E : D = d.bDB /\ E = e.bDB
    OBVIOUS
  <2>2. D \in [Lits -> Seq(Lits)] /\ BothLonger(D, E, u, l) /\ LongTwins(D)
    BY <1>1, <1>2, <1>3, <2>1 DEF BothLonger
  <2>3. LongTwins(E) /\ \E i \in DOMAIN E[-u] : E[-u][i] = l
    BY <2>2, TwinsEntered
  <2> QED BY <2>1, <2>3
<1>4. OnlyInput(d) => LongTwins(d.bDB)
  BY LongTwinsAre DEF OnlyInput
<1>5. OnlyInput(d) => OnlyInput(e)
  BY <1>2, <1>3, <1>4, LongTwinsAre DEF OnlyInput
<1>6. Stored(e, {u, l})
  <2>1. PICK s, i : s = d.bDB[-u] /\ i = Len(s) + 1
    OBVIOUS
  <2>2. e.bDB[-u] = Append(s, l) /\ s \in Seq(Lits)
    BY <1>1, <1>2, <2>1, LitFacts
  <2>3. i \in DOMAIN e.bDB[-u] /\ e.bDB[-u][i] = l
    BY <2>1, <2>2
  <2>4. {u, l} = {-(-u), e.bDB[-u][i]}
    BY <1>1, <2>3
  <2> QED BY <1>1, <2>3, <2>4 DEF Stored
<1>7. TernariesListed(d) => TernariesListed(e)
  BY <1>2 DEF TernariesListed
<1>8. ASSUME NEW k \in Lits, NEW i \in DOMAIN e.bDB[k]
      PROVE  (i \in DOMAIN d.bDB[k] /\ e.bDB[k][i] = d.bDB[k][i]) \/ {-k, e.bDB[k][i]} = {u, l}
  <2>1. PICK D, E : D = d.bDB /\ E = e.bDB
    OBVIOUS
  <2>2. D \in [Lits -> Seq(Lits)] /\ BothLonger(D, E, u, l) /\ i \in DOMAIN E[k]
    BY <1>1, <1>2, <2>1 DEF BothLonger
  <2>3. PICK c : c = {u, l}
    OBVIOUS
  <2>4. OldOrNew(D, E, k, i, c)
    BY <2>2, <2>3, BinariesEntered
  <2> QED BY <2>1, <2>3, <2>4 DEF OldOrNew
<1>9. e.uDB = d.uDB
  BY DEF ClauseDBType
<1>10. NothingElse(d, e, {u, l})
  <2>1. ASSUME NEW x, NEW k \in Lits, NEW i \in DOMAIN e.bDB[k], x = {-k, e.bDB[k][i]}
        PROVE  Stored(d, x) \/ x = {u, l}
    BY <1>8, <2>1 DEF Stored
  <2> QED BY <1>2, <1>9, <2>1, Zenon DEF NothingElse, Stored
<1> QED BY <1>5, <1>6, <1>7, <1>10 DEF EntersDB

LEMMA TernaryRead ==
    ASSUME NEW d \in ClauseDBType, NEW e \in ClauseDBType, NEW c \in Clause,
           Cardinality(c) = 3, NEW x, x = [lits |-> c, flags |-> Flags(TRUE, 0)],
           e = [d EXCEPT
                  !.tDB = Append(@, x),
                  !.ternaryWatches =
                     [l \in Lits |-> IF l \in c THEN Append(@[l], Len(d.tDB) + 1)
                                                ELSE @[l]]]
    PROVE  EntersDB(d, e, c)
<1>1. PICK T, W, n : T = d.tDB /\ W = d.ternaryWatches /\ n = Len(T) + 1
  OBVIOUS
<1>2. T \in Seq(TernaryEntry) /\ W \in [Lits -> Seq(Nat)] /\ Len(T) \in Nat
  BY <1>1, DbFields
<1>3. /\ e.tDB = Append(T, x) /\ e.nDB = d.nDB /\ e.bDB = d.bDB
      /\ e.ternaryWatches = [l \in Lits |-> IF l \in c THEN Append(W[l], n) ELSE W[l]]
  BY <1>1 DEF ClauseDBType
<1>4. x.lits = c /\ \A u \in Workers : x.flags[u]
  BY DEF Flags
<1>5. /\ DOMAIN e.tDB = DOMAIN T \cup {n} /\ e.tDB[n] = x
      /\ \A i \in DOMAIN T : e.tDB[i] = T[i]
  BY <1>1, <1>2, <1>3
<1>6. ASSUME NEW l \in Lits
      PROVE  /\ \A p \in DOMAIN W[l] : /\ p \in DOMAIN e.ternaryWatches[l]
                                       /\ e.ternaryWatches[l][p] = W[l][p]
             /\ l \in c => \E p \in DOMAIN e.ternaryWatches[l] : e.ternaryWatches[l][p] = n
  <2>1. PICK s, k : s = W[l] /\ k = Len(s) + 1
    OBVIOUS
  <2>2. s \in Seq(Nat) /\ Len(s) \in Nat
    BY <1>2, <2>1
  <2>3. CASE l \in c
    <3>1. e.ternaryWatches[l] = Append(s, n)
      BY <1>3, <2>1, <2>3
    <3>2. k \in DOMAIN Append(s, n) /\ Append(s, n)[k] = n
      BY <2>1, <2>2
    <3>3. \A p \in DOMAIN s : p \in DOMAIN Append(s, n) /\ Append(s, n)[p] = s[p]
      BY <2>2
    <3> QED BY <2>1, <3>1, <3>2, <3>3
  <2>4. CASE l \notin c
    <3>1. e.ternaryWatches[l] = W[l]
      BY <1>3, <2>4
    <3> QED BY <2>4, <3>1
  <2> QED BY <2>3, <2>4
<1>7. ASSUME TernariesListed(d) PROVE TernariesListed(e)
  <2> SUFFICES ASSUME NEW i \in DOMAIN e.tDB
               PROVE  /\ Cardinality(e.tDB[i].lits) = 3
                      /\ \A l \in e.tDB[i].lits :
                            \E p \in DOMAIN e.ternaryWatches[l] : e.ternaryWatches[l][p] = i
    BY DEF TernariesListed
  <2>1. CASE i \in DOMAIN T
    <3>1. e.tDB[i] = T[i] /\ T[i].lits \subseteq Lits
      BY <1>1, <1>5, <2>1, DbFields DEF Clause
    <3>2. /\ Cardinality(T[i].lits) = 3
          /\ \A l \in T[i].lits : \E p \in DOMAIN W[l] : W[l][p] = i
      BY <1>1, <1>7, <2>1 DEF TernariesListed
    <3> QED BY <1>6, <3>1, <3>2
  <2>2. CASE i = n
    BY <1>4, <1>5, <1>6, <2>2 DEF Clause
  <2> QED BY <1>5, <2>1, <2>2
<1>8. ASSUME OnlyInput(d) PROVE OnlyInput(e)
  <2>1. \A i \in DOMAIN e.tDB : \A u \in Workers : e.tDB[i].flags[u]
    <3>1. ASSUME NEW i \in DOMAIN T, NEW u \in Workers PROVE e.tDB[i].flags[u]
      <4>1. T[i].flags[u]
        BY <1>1, <1>8 DEF OnlyInput
      <4>2. e.tDB[i] = T[i]
        BY <1>5
      <4> QED BY <4>1, <4>2
    <3>2. \A u \in Workers : e.tDB[n].flags[u]
      <4>1. e.tDB[n] = x
        BY <1>5
      <4> QED BY <1>4, <4>1
    <3> QED BY <1>5, <3>1, <3>2
  <2> QED BY <1>3, <1>8, <2>1, LongTwinsAre DEF OnlyInput
<1>9. Stored(e, c)
  BY <1>4, <1>5 DEF Stored
<1>10. e.uDB = d.uDB
  BY DEF ClauseDBType
<1>11. \A i \in DOMAIN e.tDB : (i \in DOMAIN T /\ e.tDB[i] = T[i]) \/ e.tDB[i].lits = c
  BY <1>4, <1>5
<1>12. NothingElse(d, e, c)
  <2>1. e.uDB = d.uDB /\ e.bDB = d.bDB /\ e.nDB = d.nDB
    BY <1>3, <1>10
  <2>2. \A i \in DOMAIN e.tDB : \/ i \in DOMAIN d.tDB /\ e.tDB[i] = d.tDB[i]
                                \/ e.tDB[i].lits = c
    BY <1>1, <1>11
  <2> QED BY <2>1, <2>2, Zenon DEF NothingElse, Stored
<1> QED BY <1>7, <1>8, <1>9, <1>12 DEF EntersDB

LEMMA NaryRead ==
    ASSUME NEW d \in ClauseDBType, NEW e \in ClauseDBType, NEW c \in Clause,
           NEW x, x = [lits |-> c, flags |-> Flags(TRUE, 0), original |-> TRUE],
           e = [d EXCEPT !.nDB = Append(@, x)]
    PROVE  EntersDB(d, e, c)
<1>1. PICK T, n : T = d.nDB /\ n = Len(T) + 1
  OBVIOUS
<1>2. T \in Seq(NaryEntry) /\ Len(T) \in Nat
  BY <1>1, DbFields
<1>3. /\ e.nDB = Append(T, x) /\ e.tDB = d.tDB /\ e.bDB = d.bDB
      /\ e.ternaryWatches = d.ternaryWatches
  BY <1>1 DEF ClauseDBType
<1>4. x.lits = c /\ x.original
  OBVIOUS
<1>5. /\ DOMAIN e.nDB = DOMAIN T \cup {n} /\ e.nDB[n] = x
      /\ \A i \in DOMAIN T : e.nDB[i] = T[i]
  BY <1>1, <1>2, <1>3
<1>6. Stored(e, c)
  BY <1>4, <1>5 DEF Stored
<1>7. TernariesListed(d) => TernariesListed(e)
  BY <1>3 DEF TernariesListed
<1>8. ASSUME OnlyInput(d) PROVE OnlyInput(e)
  <2>1. \A i \in DOMAIN e.nDB : e.nDB[i].original
    BY <1>1, <1>4, <1>5, <1>8 DEF OnlyInput
  <2> QED BY <1>3, <1>8, <2>1, LongTwinsAre DEF OnlyInput
<1>9. e.uDB = d.uDB
  BY DEF ClauseDBType
<1>10. \A i \in DOMAIN e.nDB : (i \in DOMAIN T /\ e.nDB[i] = T[i]) \/ e.nDB[i].lits = c
  BY <1>4, <1>5
<1>11. NothingElse(d, e, c)
  BY <1>1, <1>3, <1>9, <1>10, Zenon DEF NothingElse, Stored
<1> QED BY <1>6, <1>7, <1>8, <1>11 DEF EntersDB

\* Whatever its size, a clause that is not empty is stored, and for everybody.
LEMMA InputRead ==
    ASSUME NEW d \in ClauseDBType, NEW c \in Clause, c # {},
           NEW e \in ClauseDBType, e = InsertInput(d, c)
    PROVE  EntersDB(d, e, c)
<1>1. Cardinality(c) \in Nat /\ Cardinality(c) # 0
  BY ClauseSize
<1>2. \A list, last : ~AlreadyInList(list, TRUE, last)
  BY DEF AlreadyInList
<1>3. CASE Cardinality(c) = 1
  <2>1. PICK x : x = CHOOSE l \in c : TRUE
    OBVIOUS
  <2>2. x \in c /\ c = {x} /\ x \in Lits
    BY <1>3, <2>1, ClauseSize DEF Clause
  <2>3. e = InsertUnit(d, x, TRUE, 0)
    BY <1>3, <2>1 DEF InsertInput
  <2>4. e = [d EXCEPT !.uDB = Append(@, x)]
    BY <1>2, <2>3 DEF InsertUnit
  <2> QED BY <2>2, <2>4, UnitRead
<1>4. CASE Cardinality(c) = 2
  <2>1. PICK x, y : x = (CHOOSE l \in c : TRUE) /\ y = CHOOSE l \in c : l # x
    OBVIOUS
  <2>2. x \in c
    BY <2>1
  <2>3. x # y /\ c = {x, y} /\ x \in Lits /\ y \in Lits
    <3>1. \E l \in c : l # x
      BY <1>4, <2>2, ClauseOfTwo
    <3>2. y \in c /\ y # x
      BY <2>1, <3>1
    <3> QED BY <1>4, <2>2, <3>2, ClauseOfTwo DEF Clause
  <2>4. e = InsertBinary(d, x, y, TRUE, 0)
    BY <1>4, <2>1 DEF InsertInput
  <2>5. e = [d EXCEPT !.bDB[-x] = Append(@, y), !.bDB[-y] = Append(@, x)]
    BY <1>2, <2>4 DEF InsertBinary
  <2> QED BY <2>3, <2>5, BinaryRead
<1>5. CASE Cardinality(c) = 3
  <2>1. e = InsertTernary(d, c, TRUE, 0, 0)
    BY <1>5 DEF InsertInput
  <2>2. PICK x : x = [lits |-> c, flags |-> Flags(TRUE, 0)]
    OBVIOUS
  <2>3. e = [d EXCEPT
               !.tDB = Append(@, x),
               !.ternaryWatches =
                  [l \in Lits |-> IF l \in c THEN Append(@[l], Len(d.tDB) + 1)
                                             ELSE @[l]]]
    BY <1>2, <2>1, <2>2 DEF InsertTernary
  <2> QED BY <1>5, <2>2, <2>3, TernaryRead
<1>6. CASE Cardinality(c) > 3
  <2>1. e = InsertNary(d, c, TRUE, 0, 0)
    BY <1>6 DEF InsertInput
  <2>2. PICK x : x = [lits |-> c, flags |-> Flags(TRUE, 0), original |-> TRUE]
    OBVIOUS
  <2>3. e = [d EXCEPT !.nDB = Append(@, x)]
    BY <1>2, <2>1, <2>2 DEF InsertNary
  <2> QED BY <2>2, <2>3, NaryRead
<1> QED BY <1>1, <1>3, <1>4, <1>5, <1>6

\* A new worker has nothing behind it, and every input clause before it.
LEMMA InitSolverDone ==
    ASSUME NEW P, DbInv(db, P), Reading(db, P), NEW phase \in [Vars -> BOOLEAN],
           NEW b, b = InitSolver(phase), NEW w \in Workers
    PROVE  PWorker(b, db, w, P)
<1>1. PICK d : d = db
  OBVIOUS
<1>2. /\ b.pc = "solve" /\ b.model = ModelInit(phase) /\ b.thcdb = InitThcdb
      /\ b.lastUnit = Len(d.uDB) /\ b.lastBins = [l \in Lits |-> Len(d.bDB[l])]
      /\ b.lastTernary = Len(d.tDB) /\ b.result = 0
  BY <1>1 DEF InitSolver
<1>3. \A l \in Lits : ~IsTrue(b.model, l) /\ ~IsFalse(b.model, l)
  <2>1. b.model.value = [l \in Lits |-> "undef"]
    BY <1>2 DEF ModelInit
  <2> QED BY <2>1 DEF IsTrue, IsFalse
<1>4. /\ d \in ClauseDBType /\ OnlyInput(d) /\ \A c \in P \ {{}} : Stored(d, c)
  BY <1>1 DEF DbInv, Reading
<1>5. /\ DOMAIN d.uDB = 1..Len(d.uDB) /\ DOMAIN d.tDB = 1..Len(d.tDB)
      /\ DOMAIN d.nDB = 1..Len(d.nDB)
      /\ \A l \in Lits : DOMAIN d.bDB[l] = 1..Len(d.bDB[l])
  BY <1>4, DbFields
<1>6. \A k : \A l \in Lits : ~Passed(b, k, l)
  BY <1>3 DEF Passed
<1>7. BinaryDone(b, d)
  BY <1>6, LitFacts DEF BinaryDone
<1>8. TernaryDone(b, d, w)
  <2>1. ASSUME NEW i \in DOMAIN d.tDB PROVE d.tDB[i].lits \subseteq Lits
    BY <1>4, <2>1, DbFields DEF Clause
  <2> QED BY <1>6, <2>1 DEF TernaryDone
<1>9. NaryDone(b)
  <2>1. InitThcdb \in Seq(ThClause)
    BY InitThcdbGood
  <2>2. \A i \in DOMAIN b.thcdb : b.thcdb[i].w1 \in Lits /\ b.thcdb[i].w2 \in Lits
    <3>1. \A i \in DOMAIN b.thcdb : b.thcdb[i] \in ThClause
      BY <1>2, <2>1, ElementOfSeq
    <3> QED BY <3>1 DEF ThClause
  <2> QED BY <1>6, <2>2 DEF NaryDone, Guarded
<1>10. UnitsFixed(b, d)
  BY <1>2 DEF UnitsFixed, UnitOpen
<1>11. Lists(b, d, w)
  <2>1. MarkersPassed(b.model)
    <3>1. b.model.stack = <<>>
      BY <1>2 DEF ModelInit
    <3>2. \A k \in Kinds : \A i \in 1..0 : b.model.stack[i] = DlMarker => i <= b.model.last[k] + 1
      OBVIOUS
    <3>3. Len(b.model.stack) = 0
      BY <3>1
    <3> QED BY <3>2, <3>3 DEF MarkersPassed
  <2>2. SizeGood(b, d) /\ NewsWatched(b) /\ b.pc # "clean"
    BY <1>2 DEF SizeGood, NewsWatched
  <2>3. Twins(d, b.lastBins)
    BY <1>2, <1>4 DEF OnlyInput
  <2>4. FlagsCount(b, d, w)
    <3>1. ASSUME NEW i \in DOMAIN d.tDB PROVE d.tDB[i].flags[w] /\ i <= b.lastTernary
      BY <1>2, <1>4, <1>5 DEF OnlyInput
    <3> QED BY <3>1 DEF FlagsCount
  <2> QED BY <2>1, <2>2, <2>3, <2>4 DEF Lists
<1>12. ASSUME NEW c \in P \ {{}} PROVE InForce(b, d, w, c)
  <2>1. CASE \E i \in DOMAIN d.uDB : c = {d.uDB[i]}
    <3>1. \E i \in 1..b.lastUnit : d.uDB[i] \in c
      BY <1>2, <1>5, <2>1
    <3> QED BY <3>1 DEF InForce
  <2>2. CASE \E l \in Lits : \E i \in DOMAIN d.bDB[l] : c = {-l, d.bDB[l][i]}
    <3>1. PICK l \in Lits : \E i \in DOMAIN d.bDB[l] : c = {-l, d.bDB[l][i]}
      BY <2>2
    <3>3. PICK i \in DOMAIN d.bDB[l] : c = {-l, d.bDB[l][i]}
      BY <3>1
    <3>2. i \in 1..b.lastBins[l] /\ {-l, d.bDB[l][i]} \subseteq c
      BY <1>2, <1>5, <3>3
    <3> QED BY <3>2 DEF InForce
  <2>3. CASE \E i \in DOMAIN d.tDB : c = d.tDB[i].lits
    <3>1. \E i \in DOMAIN d.tDB : d.tDB[i].flags[w] /\ d.tDB[i].lits \subseteq c
      BY <1>4, <2>3 DEF OnlyInput
    <3> QED BY <3>1 DEF InForce
  <2>4. CASE \E i \in DOMAIN d.nDB : c = d.nDB[i].lits
    <3>1. PICK i \in DOMAIN d.nDB : c = d.nDB[i].lits
      BY <2>4
    <3>2. i \in DOMAIN b.thcdb /\ b.thcdb[i].pos = i
      BY <1>1, <1>2 DEF InitThcdb
    <3>3. i # 0 /\ d.nDB[i].original
      BY <1>4, <1>5 DEF OnlyInput
    <3> QED BY <3>1, <3>2, <3>3 DEF InForce
  <2> QED BY <1>4, <2>1, <2>2, <2>3, <2>4 DEF Stored
<1>13. InputKept(b, d, w, P) /\ ModelFound(b, P)
  BY <1>2, <1>12 DEF InputKept, ModelFound
<1> QED BY <1>1, <1>7, <1>8, <1>9, <1>10, <1>11, <1>13 DEF PWorker, Done, Input

LEMMA InitPInv == ASSUME Init PROVE PInv
<1>1. nread = 0 /\ db = EmptyDB
  BY DEF Init
<1>2. IInv
  BY InitIInv
<1>3. mainPc = "read"
  BY DEF Init
<1>4. \A w \in Workers : ad[w].pc = "allocated"
  BY <1>2, <1>3 DEF IInv, MainInv
<1>5. Read = {}
  BY <1>1 DEF Read
<1>6. TernariesListed(db) /\ Reading(db, Read)
  BY <1>1, <1>5, EmptyPInv DEF Reading
<1> QED BY <1>4, <1>6 DEF PInv

LEMMA ReadClausePInv == ASSUME IInv, IInv', PInv, ReadClause PROVE PInv'
<1>1. /\ mainPc = "read" /\ nread < Len(formula) /\ nread' = nread + 1
      /\ formula' = formula /\ mainPc' = mainPc /\ ad' = ad
      /\ db' = InsertInput(db, formula[nread + 1])
  BY DEF ReadClause
<1>2. /\ formula \in Seq(Clause) /\ nread \in 0..Len(formula) /\ Len(formula) \in Nat
      /\ \A w \in Workers : ad[w].pc = "allocated" <=> mainPc = "read"
      /\ DbInv(db, Read)
  BY DEF IInv, MainInv
<1>3. PICK n, c, P, Q, d, e : /\ n = nread + 1 /\ c = formula[n] /\ P = Read /\ Q = Read'
                              /\ d = db /\ e = InsertInput(db, c)
  OBVIOUS
<1>4. n \in 1..Len(formula) /\ c \in Clause /\ nread' = n
  <2>1. n \in 1..Len(formula) /\ nread' = n
    BY <1>1, <1>2, <1>3
  <2> QED BY <1>2, <1>3, <2>1
<1>5. Q \subseteq P \cup {c} /\ c \in Q
  <2>1. P = {formula[i] : i \in 1..nread} /\ Q = {formula[i] : i \in 1..n}
    BY <1>1, <1>3, <1>4 DEF Read
  <2>2. 1..n \subseteq (1..nread) \cup {n} /\ n \in 1..n
    BY <1>2, <1>3, <1>4
  <2> QED BY <1>3, <2>1, <2>2
<1>6. P \subseteq Q
  <2>1. P = {formula[i] : i \in 1..nread} /\ Q = {formula[i] : i \in 1..n}
    BY <1>1, <1>3, <1>4 DEF Read
  <2>2. 1..nread \subseteq 1..n
    BY <1>2, <1>3, <1>4
  <2> QED BY <2>1, <2>2
<1>7. d \in ClauseDBType /\ e \in ClauseDBType /\ Extends(d, e) /\ e = InsertInput(d, c)
  <2>1. DbInv(d, Q)
    <3>1. DbInv(d, P)
      BY <1>2, <1>3
    <3> QED BY <1>6, <3>1, FollowsFromMore DEF DbInv, DbFollows
  <2>2. Follows(Q, c)
    BY <1>5, FollowsMember
  <2>3. DbInv(e, Q) /\ Extends(d, e)
    BY <1>3, <1>4, <2>1, <2>2, InputInserted
  <2> QED BY <1>3, <2>1, <2>3 DEF DbInv
<1>8. TernariesListed(d) /\ OnlyInput(d) /\ \A x \in P \ {{}} : Stored(d, x)
  BY <1>1, <1>3 DEF PInv, Reading
<1>9. /\ TernariesListed(e) /\ OnlyInput(e) /\ \A x \in P \ {{}} : Stored(e, x)
      /\ c # {} => Stored(e, c)
  <2>1. CASE c = {}
    <3>1. Cardinality(c) = 0
      BY <2>1, FS_EmptySet
    <3>2. e = d
      BY <1>7, <3>1 DEF InsertInput
    <3> QED BY <1>8, <2>1, <3>2
  <2>2. CASE c # {}
    <3>1. EntersDB(d, e, c)
      BY <1>4, <1>7, <2>2, InputRead
    <3> QED BY <1>7, <1>8, <3>1, StoredFurther DEF EntersDB
  <2> QED BY <2>1, <2>2
<1>10. Reading(e, Q)
  BY <1>5, <1>9 DEF Reading
<1>11. (TernariesListed(db) /\ Reading(db, Read))'
  BY <1>1, <1>3, <1>9, <1>10
<1>12. \A w \in Workers : ad'[w].pc = "allocated"
  BY <1>1, <1>2
<1> QED BY <1>11, <1>12 DEF PInv

LEMMA StartWorkersPInv == ASSUME IInv, PInv, StartWorkers PROVE PInv'
<1>1. /\ mainPc = "read" /\ mainPc' = "join"
      /\ nread' = nread /\ formula' = formula /\ db' = db
      /\ ad' = [w \in Workers |-> InitSolver(ad[w].model.phase)]
  BY DEF StartWorkers
<1>2. /\ DbInv(db, Read) /\ \A w \in Workers : WorkerInv(ad[w], db, Read)
  BY DEF IInv
<1>3. TernariesListed(db) /\ Reading(db, Read)
  BY <1>1 DEF PInv
<1>4. Read' = Read
  BY <1>1 DEF Read
<1>5. ASSUME NEW w \in Workers PROVE PWorker(ad'[w], db, w, Read)
  <2>1. PICK phase : phase = ad[w].model.phase
    OBVIOUS
  <2>2. phase \in [Vars -> BOOLEAN]
    <3>1. ad[w].model \in ModelType
      BY <1>2, WorkerParts
    <3> QED BY <2>1, <3>1 DEF ModelType
  <2>3. ad'[w] = InitSolver(phase)
    BY <1>1, <2>1
  <2> QED BY <1>2, <1>3, <2>2, <2>3, InitSolverDone
<1>6. TernariesListed(db') /\ mainPc' # "read"
  BY <1>1, <1>3
<1>7. (\A w \in Workers : PWorker(ad[w], db, w, Read))'
  BY <1>1, <1>4, <1>5
<1> QED BY <1>6, <1>7 DEF PInv

LEMMA SamePInv ==
    ASSUME PInv, UNCHANGED <<formula, nread, db, ad>>,
           mainPc' = mainPc \/ (mainPc = "join" /\ mainPc' = "exit")
    PROVE  PInv'
<1>1. Read' = Read
  BY DEF Read
<1>2. (\A w \in Workers : ad[w].pc # "allocated" => PWorker(ad[w], db, w, Read))'
  BY <1>1 DEF PInv
<1>3. TernariesListed(db)'
  BY DEF PInv
<1>4. (mainPc = "read" => Reading(db, Read))'
  BY <1>1 DEF PInv
<1> QED BY <1>2, <1>3, <1>4 DEF PInv

-----------------------------------------------------------------------------
(* Every step keeps the invariant. *)

LEMMA UnitsPInv == ASSUME IInv, IInv', PInv, NEW w \in Workers, Units(w) PROVE PInv'
BY StartSolvePInv, SetTrueUnitPInv, UnitsDonePInv DEF Units

LEMMA PropagationPInv ==
    ASSUME IInv, IInv', PInv, NEW w \in Workers, Propagation(w)
    PROVE  PInv'
BY HandOutPInv, VisitBinaryPInv, VisitTernaryPInv, VisitNaryPInv, ListDonePInv,
   CalmStepsPInv DEF Propagation

LEMMA AnalysisPInv == ASSUME IInv, PInv, NEW w \in Workers, Analysis(w) PROVE PInv'
BY CalmStepsPInv, PopLiteralPInv DEF Analysis

LEMMA LearningPInv ==
    ASSUME IInv, IInv', PInv, SameSearch, NEW w \in Workers, Learning(w)
    PROVE  PInv'
BY LearnUnitPInv, LearnBinaryPInv, LearnTernaryPInv, LearnNaryPInv, UnwindPInv,
   SetTrueUipPInv DEF Learning

LEMMA UpkeepPInv ==
    ASSUME IInv, IInv', PInv, SameSearch, NEW w \in Workers, Upkeep(w)
    PROVE  PInv'
BY CalmStepsPInv, StartCleaningPInv, CleanClausePInv, CompactAndWatchPInv DEF Upkeep

LEMMA DecisionPInv == ASSUME IInv, PInv, NEW w \in Workers, Decision(w) PROVE PInv'
BY DecideAtRandomPInv, DecideFromHeapPInv, ReportSatPInv DEF Decision

LEMMA NextPInv == IInv /\ PInv /\ SameSearch /\ [Next]_vars => PInv'
<1> SUFFICES ASSUME IInv, PInv, SameSearch, [Next]_vars PROVE PInv'
  OBVIOUS
<1>1. IInv'
  BY NextIInv
<1>2. CASE Main
  <2>1. CASE JoinWorkers
    BY <2>1, SamePInv DEF JoinWorkers
  <2> QED BY <1>1, <1>2, <2>1, ReadClausePInv, StartWorkersPInv DEF Main
<1>3. CASE \E w \in Workers : Worker(w)
  BY <1>1, <1>3, UnitsPInv, PropagationPInv, AnalysisPInv, LearningPInv, UpkeepPInv,
     DecisionPInv DEF Worker
<1>4. CASE UNCHANGED vars
  BY <1>4, SamePInv DEF vars
<1> QED BY <1>2, <1>3, <1>4 DEF Next, Exited

\* As long as the workers make the same search, what the cursors have passed needs no
\* second visit.
THEOREM PropagationInvariant == SafeSpec /\ []SameSearch => [](IInv /\ PInv)
<1>1. Init => PInv
  BY InitPInv
<1>2. IInv /\ PInv /\ SameSearch /\ [Next]_vars => PInv'
  BY NextPInv
<1> QED BY <1>1, <1>2, SolverInvariant, PTL DEF SafeSpec

-----------------------------------------------------------------------------
(* What the invariant implies. *)

LEMMA ServedCounts ==
    ASSUME NEW m, NEW c \in Clause, Served(m, c)
    PROVE  \/ \E l \in c : IsTrue(m, l)
           \/ Cardinality({l \in c : IsUndef(m, l)}) > 1
<1>1. ASSUME NEW x \in c, NEW y \in c, x # y, IsUndef(m, x), IsUndef(m, y)
      PROVE  Cardinality({l \in c : IsUndef(m, l)}) > 1
  <2>1. PICK S : S = {l \in c : IsUndef(m, l)}
    OBVIOUS
  <2>2. S \in Clause /\ S \ {x} \in Clause /\ x \in S /\ y \in S \ {x}
    BY <1>1, <2>1 DEF Clause
  <2>3. /\ Cardinality(S) \in Nat /\ Cardinality(S \ {x}) = Cardinality(S) - 1
        /\ Cardinality(S \ {x}) \in Nat /\ Cardinality(S \ {x}) # 0
    BY <2>2, ClauseSize
  <2> QED BY <2>1, <2>3
<1> QED BY <1>1 DEF Served

\* The clauses a worker may propagate with are of four kinds.
IsActive(a, d, w, c) ==
    \/ \E i \in 1..a.lastUnit : c = {d.uDB[i]}
    \/ \E l \in Lits : \E i \in 1..a.lastBins[l] : c = {-l, d.bDB[l][i]}
    \/ \E i \in DOMAIN d.tDB : d.tDB[i].flags[w] /\ c = d.tDB[i].lits
    \/ \E i \in DOMAIN a.thcdb : a.thcdb[i].pos # 0 /\ c = d.nDB[a.thcdb[i].pos].lits

LEMMA ActiveAre ==
    ASSUME NEW w \in Workers, NEW c
    PROVE  c \in ActiveClauses(w) <=> IsActive(ad[w], db, w, c)
<1>1. PICK a : a = ad[w]
  OBVIOUS
<1>2. c \in OwnUnits(a) <=> \E i \in 1..a.lastUnit : c = {db.uDB[i]}
  BY DEF OwnUnits
<1>3. c \in OwnBinaries(a) <=>
         \E l \in Lits : \E i \in 1..a.lastBins[l] : c = {-l, db.bDB[l][i]}
  BY DEF OwnBinaries
<1>4. c \in OwnTernaries(w) <=>
         \E i \in DOMAIN db.tDB : db.tDB[i].flags[w] /\ c = db.tDB[i].lits
  BY DEF OwnTernaries
<1>5. c \in HeldClauses(a) <=>
         \E i \in DOMAIN a.thcdb : a.thcdb[i].pos # 0 /\ c = db.nDB[a.thcdb[i].pos].lits
  BY DEF HeldClauses, ThLits
<1>6. c \in ActiveClauses(w) <=> \/ c \in OwnUnits(a) \/ c \in OwnBinaries(a)
                                 \/ c \in OwnTernaries(w) \/ c \in HeldClauses(a)
  BY <1>1 DEF ActiveClauses
<1> QED BY <1>1, <1>2, <1>3, <1>4, <1>5, <1>6 DEF IsActive

\* When propagate has returned true, no clause of the worker is false and none has one
\* undefined literal and no true one.
THEOREM PropagationIsComplete == SafeSpec /\ []SameSearch => []PropagationComplete
<1>1. ASSUME IInv, PInv, NEW w \in Workers, NEW a, a = ad[w], AtRest(a),
             NEW d, d = db, NEW c, IsActive(a, d, w, c)
      PROVE  c \in Clause /\ Served(a.model, c)
  <2>1. /\ WorkerInv(a, d, Read) /\ d \in ClauseDBType /\ TernariesListed(d)
        /\ Typed(a)
    BY <1>1, WorkerParts DEF IInv, DbInv, PInv
  <2>2. PWorker(a, d, w, Read)
    BY <1>1 DEF AtRest, PInv
  <2>3. Counted(a, d) /\ ThHeld(a, d)
    BY <2>1, WorkerParts DEF Core
  <2>4. CASE \E i \in 1..a.lastUnit : c = {d.uDB[i]}
    <3>1. PICK i \in 1..a.lastUnit : c = {d.uDB[i]}
      BY <2>4
    <3>2. d.uDB[i] \in Lits
      BY <2>1, <2>3, DbFields DEF Counted, Typed
    <3>3. IsTrue(a.model, d.uDB[i])
      BY <1>1, <2>1, <2>2, UnitServed
    <3> QED BY <3>1, <3>2, <3>3 DEF Clause, Served
  <2>5. CASE \E l \in Lits : \E i \in 1..a.lastBins[l] : c = {-l, d.bDB[l][i]}
    <3>1. PICK l \in Lits : \E i \in 1..a.lastBins[l] : c = {-l, d.bDB[l][i]}
      BY <2>5
    <3>2. PICK i \in 1..a.lastBins[l] : c = {-l, d.bDB[l][i]}
      BY <3>1
    <3>3. Served(a.model, c)
      BY <1>1, <2>1, <2>2, <3>2, BinaryServed
    <3>4. d.bDB[l][i] \in Lits /\ -l \in Lits
      <4>1. a.lastBins[l] \in Nat /\ a.lastBins[l] <= Len(d.bDB[l])
        BY <2>1, <2>3 DEF Counted, Typed
      <4>2. Len(d.bDB[l]) \in Nat /\ d.bDB[l] \in Seq(Lits)
        BY <2>1, DbFields
      <4> QED BY <4>1, <4>2, LitFacts
    <3> QED BY <3>2, <3>3, <3>4 DEF Clause
  <2>6. CASE \E i \in DOMAIN d.tDB : d.tDB[i].flags[w] /\ c = d.tDB[i].lits
    <3>1. PICK i \in DOMAIN d.tDB : d.tDB[i].flags[w] /\ c = d.tDB[i].lits
      BY <2>6
    <3>2. Served(a.model, c)
      BY <1>1, <2>1, <2>2, <3>1, TernaryServed
    <3>3. c \in Clause
      BY <2>1, <3>1, DbFields
    <3> QED BY <3>2, <3>3
  <2>7. CASE \E i \in DOMAIN a.thcdb : /\ a.thcdb[i].pos # 0
                                      /\ c = d.nDB[a.thcdb[i].pos].lits
    <3>1. PICK i \in DOMAIN a.thcdb : a.thcdb[i].pos # 0 /\ c = d.nDB[a.thcdb[i].pos].lits
      BY <2>7
    <3>2. PICK t : t = a.thcdb[i]
      OBVIOUS
    <3>3. c = d.nDB[t.pos].lits
      BY <3>1, <3>2
    <3>4. Served(a.model, d.nDB[t.pos].lits)
      BY <1>1, <2>1, <2>2, <3>1, <3>2, NaryServed
    <3>5. t.pos \in DOMAIN d.nDB
      BY <2>3, <3>1, <3>2 DEF ThHeld, ThGood
    <3> QED BY <2>1, <3>3, <3>4, <3>5, DbFields
  <2> QED BY <1>1, <2>4, <2>5, <2>6, <2>7, Zenon DEF IsActive
<1>2. ASSUME IInv, PInv PROVE PropagationComplete
  <2> SUFFICES ASSUME NEW w \in Workers,
                      ad[w].pc \in {"restart", "cleanup", "clean", "decide"},
                      NEW c \in ActiveClauses(w)
               PROVE  \/ \E l \in c : IsTrue(ad[w].model, l)
                      \/ Cardinality({l \in c : IsUndef(ad[w].model, l)}) > 1
    BY DEF PropagationComplete
  <2>1. PICK a : a = ad[w]
    OBVIOUS
  <2>2. AtRest(a)
    BY <2>1 DEF AtRest
  <2>3. c \in Clause /\ Served(a.model, c)
    BY <1>1, <1>2, <2>1, <2>2, ActiveAre
  <2> QED BY <2>1, <2>3, ServedCounts
<1> QED BY <1>2, PropagationInvariant, PTL

\* Once a false watched literal has been handed out, the other watched literal is true,
\* and will stay so at least as long.
THEOREM WatchesAreSafe == SafeSpec /\ []SameSearch => []WatchesSafe
<1>1. ASSUME IInv, PInv, NEW w \in Workers, NEW a, a = ad[w],
             a.pc \in {"propagate", "binary", "ternary", "restart", "cleanup", "decide"},
             NEW i \in DOMAIN a.thcdb,
             NEW x, NEW y, NEW t, t = a.thcdb[i], <<x, y>> \in {<<t.w1, t.w2>>, <<t.w2, t.w1>>},
             IsFalse(a.model, x), LitHeight(a.model, x) <= a.model.last["nary"]
      PROVE  IsTrue(a.model, y) /\ LitDl(a.model, y) <= LitDl(a.model, x)
  <2>1. /\ WorkerInv(a, db, Read) /\ Typed(a) /\ ThHeld(a, db) /\ db \in ClauseDBType
        /\ a.model \in ModelType /\ TrailConsistent(a.model)
    BY <1>1, WorkerParts DEF IInv, DbInv, Core
  <2>2. NaryDone(a)
    BY <1>1 DEF PInv, PWorker, Done
  <2>3. t.pos # 0 /\ t.w1 \in Lits /\ t.w2 \in Lits
    <3>1. t.pos \in DOMAIN db.nDB
      BY <1>1, <2>1 DEF ThHeld, ThGood
    <3>2. t \in ThClause
      <4>1. a.thcdb \in Seq(ThClause)
        BY <2>1, WorkerParts
      <4> QED BY <1>1, <4>1
    <3> QED BY <2>1, <3>1, <3>2, DbFields DEF ThClause
  <2>4. Guarded(a, i, x, y) /\ x \in Lits
    BY <1>1, <2>2, <2>3 DEF NaryDone
  <2>5. ~Falling(a)
    BY <1>1 DEF Falling, PoppingNow
  <2>6. LitDl(a.model, x) <= Limit(a)
    BY <2>1, <2>4, <2>5, <1>1, FalseLits DEF Limit
  <2>7. Passed(a, "nary", x)
    BY <1>1, <2>6 DEF Passed
  <2>8. ~NaryOpen(a, i, x)
    BY <1>1 DEF NaryOpen, IsNews
  <2> QED BY <2>4, <2>7, <2>8 DEF Guarded, Rescued
<1>2. ASSUME IInv, PInv PROVE WatchesSafe
  <2>1. ASSUME NEW w \in Workers, NEW a, a = ad[w],
               a.pc \in {"propagate", "binary", "ternary", "restart", "cleanup", "decide"},
               NEW i \in DOMAIN a.thcdb, NEW t, t = a.thcdb[i],
               NEW x, NEW y, <<x, y>> \in {<<t.w1, t.w2>>, <<t.w2, t.w1>>}
        PROVE  IsFalse(a.model, x) /\ LitHeight(a.model, x) <= a.model.last["nary"]
                  => IsTrue(a.model, y) /\ LitDl(a.model, y) <= LitDl(a.model, x)
    BY <1>1, <1>2, <2>1
  <2> SUFFICES ASSUME NEW w \in Workers,
                      ad[w].pc \in {"propagate", "binary", "ternary", "restart", "cleanup",
                                    "decide"},
                      NEW i \in DOMAIN ad[w].thcdb
               PROVE  LET a == ad[w]
                          Safe(x, y) ==
                             IsFalse(a.model, x) /\ LitHeight(a.model, x) <= a.model.last["nary"]
                             => IsTrue(a.model, y) /\ LitDl(a.model, y) <= LitDl(a.model, x)
                      IN  /\ Safe(a.thcdb[i].w1, a.thcdb[i].w2)
                          /\ Safe(a.thcdb[i].w2, a.thcdb[i].w1)
    BY DEF WatchesSafe
  <2>2. PICK a, t : a = ad[w] /\ t = a.thcdb[i]
    OBVIOUS
  <2>3. /\ IsFalse(a.model, t.w1) /\ LitHeight(a.model, t.w1) <= a.model.last["nary"]
             => IsTrue(a.model, t.w2) /\ LitDl(a.model, t.w2) <= LitDl(a.model, t.w1)
        /\ IsFalse(a.model, t.w2) /\ LitHeight(a.model, t.w2) <= a.model.last["nary"]
             => IsTrue(a.model, t.w1) /\ LitDl(a.model, t.w1) <= LitDl(a.model, t.w2)
    BY <2>1, <2>2
  <2> QED BY <2>2, <2>3
<1> QED BY <1>2, PropagationInvariant, PTL

\* No lemma is learned that a clause of the worker already contains: the worker would
\* have propagated with it.
THEOREM LemmasAreNew == SafeSpec /\ []SameSearch => []LemmaIsNew
<1>1. ASSUME IInv, PInv, NEW w \in Workers, NEW a, a = ad[w], ReadyToLearn(w),
             NEW d, d = db, NEW c, IsActive(a, d, w, c), c \subseteq Learned(a)
      PROVE  FALSE
  <2>1. /\ WorkerInv(a, d, Read) /\ Typed(a) /\ Counted(a, d) /\ ThHeld(a, d)
        /\ d \in ClauseDBType /\ TernariesListed(d) /\ a.pc = "shorten"
        /\ a.model \in ModelType /\ TrailConsistent(a.model) /\ Shortening(a, Read)
    BY <1>1, WorkerParts DEF IInv, DbInv, Core, PInv, ReadyToLearn, At, Place
  <2>2. /\ MarkersPassed(a.model) /\ BinaryDone(a, d) /\ TernaryDone(a, d, w)
        /\ NaryDone(a) /\ UnitsFixed(a, d) /\ Twins(d, a.lastBins)
    BY <1>1, <2>1 DEF PInv, PWorker, Done, Lists
  <2>3. /\ a.uip \in Lits /\ IsUndef(a.model, a.uip)
        /\ AllLower(a.model, a.lemmaToLearn) /\ a.lemmaToLearn \in Clause
    BY <2>1 DEF Shortening, UipGood, AllLower, Typed
  <2>4. ASSUME NEW l \in c
        PROVE  /\ l \in Lits /\ ~IsTrue(a.model, l)
               /\ l # a.uip => \A k \in Kinds : Passed(a, k, l)
    <3>1. CASE l = a.uip
      BY <2>3, <3>1 DEF IsUndef, IsTrue
    <3>2. CASE l # a.uip
      <4>1. l \in a.lemmaToLearn
        BY <1>1, <3>2 DEF Learned
      <4>2. l \in Lits /\ IsFalse(a.model, l) /\ LitDl(a.model, l) < a.model.decisionLvl
        BY <2>3, <4>1 DEF AllLower, Clause
      <4>3. LitDl(a.model, l) <= Limit(a)
        <5>1. Falling(a)
          BY <2>1 DEF Falling, PoppingNow
        <5>2. LitDl(a.model, l) \in Nat /\ a.model.decisionLvl \in Nat
          BY <2>1, <4>2, FalseLits DEF ModelType
        <5> QED BY <4>2, <5>1, <5>2 DEF Limit
      <4>4. \A k \in Kinds : LitHeight(a.model, l) <= a.model.last[k]
        BY <2>1, <2>2, <4>2, BelowMarker
      <4>5. \A k \in Kinds : Passed(a, k, l)
        BY <4>2, <4>3, <4>4 DEF Passed
      <4> QED BY <4>2, <4>5 DEF IsFalse, IsTrue
    <3> QED BY <3>1, <3>2
  <2>5. ASSUME NEW i \in 1..a.lastUnit, c = {d.uDB[i]} PROVE FALSE
    <3>1. Fixed(a.model, d.uDB[i])
      BY <2>1, <2>2 DEF UnitsFixed, UnitOpen
    <3> QED BY <2>4, <2>5, <3>1 DEF Fixed
  <2>6. ASSUME NEW l \in Lits, NEW i \in 1..a.lastBins[l], NEW o, o = d.bDB[l][i],
               c = {-l, o}
        PROVE  FALSE
    <3>1. o # -l /\ -l \in c /\ o \in c /\ "binary" \in Kinds
      BY <2>2, <2>6 DEF Twins, Kinds
    <3>2. CASE -l # a.uip
      <4>1. Passed(a, "binary", -l)
        BY <2>4, <3>1, <3>2
      <4>2. ~BinaryOpen(a, d, l, i)
        BY <2>1 DEF BinaryOpen, IsNews
      <4>3. Rescued(a.model, -l, o)
        BY <2>2, <2>6, <4>1, <4>2 DEF BinaryDone
      <4> QED BY <2>4, <3>1, <4>3 DEF Rescued
    <3>3. CASE -l = a.uip
      <4>1. Passed(a, "binary", o) /\ -o \in Lits /\ -(-o) = o
        BY <2>4, <3>1, <3>3, LitFacts
      <4>2. PICK k : k = -o
        OBVIOUS
      <4>3. PICK j \in 1..a.lastBins[k] : d.bDB[k][j] = -l
        BY <2>2, <2>6, <4>2 DEF Twins
      <4>4. ~BinaryOpen(a, d, k, j)
        BY <2>1 DEF BinaryOpen, IsNews
      <4>5. k \in Lits /\ Passed(a, "binary", -k)
        BY <4>1, <4>2
      <4>6. Rescued(a.model, -k, -l)
        BY <2>2, <4>3, <4>4, <4>5 DEF BinaryDone
      <4> QED BY <2>4, <3>1, <4>6 DEF Rescued
    <3> QED BY <3>2, <3>3
  <2>7. ASSUME NEW i \in DOMAIN d.tDB, d.tDB[i].flags[w], c = d.tDB[i].lits PROVE FALSE
    <3>1. c \in Clause /\ Cardinality(c) = 3
      BY <2>1, <2>7, DbFields DEF TernariesListed
    <3>2. PICK x, y \in c : x # y /\ x # a.uip /\ y # a.uip
      <4>1. PICK r : r = c \ {a.uip}
        OBVIOUS
      <4>2. r \in Clause /\ Cardinality(r) > 1
        <5>1. CASE a.uip \in c
          BY <3>1, <4>1, <5>1, ClauseSize DEF Clause
        <5>2. CASE a.uip \notin c
          <6>1. r = c
            BY <4>1, <5>2
          <6> QED BY <3>1, <6>1
        <5> QED BY <5>1, <5>2
      <4> QED BY <4>1, <4>2, TwoOf
    <3>3. Passed(a, "ternary", x) /\ Passed(a, "ternary", y)
      BY <2>4, <3>2 DEF Kinds
    <3>4. ~TernaryOpen(a, d, i, x, y)
      BY <2>1 DEF TernaryOpen, IsNews
    <3>5. PICK z \in c : Rescued(a.model, x, z) \/ Rescued(a.model, y, z)
      BY <2>2, <2>7, <3>2, <3>3, <3>4 DEF TernaryDone
    <3> QED BY <2>4, <3>5 DEF Rescued
  <2>8. ASSUME NEW i \in DOMAIN a.thcdb, NEW t, t = a.thcdb[i], t.pos # 0,
               c = d.nDB[t.pos].lits
        PROVE  FALSE
    <3>1. t.w1 # t.w2 /\ t.w1 \in c /\ t.w2 \in c
      BY <2>1, <2>8 DEF ThHeld, ThGood
    <3>2. Guarded(a, i, t.w1, t.w2) /\ Guarded(a, i, t.w2, t.w1)
      BY <2>2, <2>8 DEF NaryDone
    <3>3. \A x : ~NaryOpen(a, i, x)
      BY <2>1 DEF NaryOpen, IsNews
    <3>4. Passed(a, "nary", t.w1) \/ Passed(a, "nary", t.w2)
      BY <2>4, <3>1 DEF Kinds
    <3>5. IsTrue(a.model, t.w1) \/ IsTrue(a.model, t.w2)
      BY <3>2, <3>3, <3>4 DEF Guarded, Rescued
    <3> QED BY <2>4, <3>1, <3>5
  <2> QED BY <1>1, <2>5, <2>6, <2>7, <2>8 DEF IsActive
<1>2. ASSUME IInv, PInv PROVE LemmaIsNew
  <2> SUFFICES ASSUME NEW w \in Workers, ReadyToLearn(w), NEW c \in ActiveClauses(w),
                      c \subseteq Learned(ad[w])
               PROVE  FALSE
    BY DEF LemmaIsNew
  <2>1. IsActive(ad[w], db, w, c)
    BY ActiveAre
  <2> QED BY <1>1, <1>2, <2>1
<1> QED BY <1>2, PropagationInvariant, PTL

\* The formula does not change, and nobody runs before it has been read.
LEMMA FormulaStays == ASSUME [Next]_vars PROVE formula' = formula
<1>1. ASSUME NEW w \in Workers, Worker(w) PROVE formula' = formula
  <2>1. CASE Units(w) \/ Propagation(w)
    BY <2>1, Zenon DEF Units, StartSolve, SetTrueUnit, UnitsDone, Propagation, HandOutLiteral,
       VisitBinary, VisitTernary, VisitNary, ListDone, PropagationDone, Local, Sharing,
       Finish
  <2>2. CASE Analysis(w)
    BY <2>2 DEF Analysis, ConflictAtLevelZero, StartAnalysis, MarkClause, PopLiteral,
       StartShortening, ShortenLiteral, Local, Sharing, Finish
  <2>3. CASE Learning(w)
    BY <2>3, Zenon DEF Learning, LearnUnit, LearnBinary, LearnTernary, LearnNary, Unwind,
       SetTrueUip, Local, Sharing, Finish
  <2>4. CASE Upkeep(w)
    BY <2>4, Zenon DEF Upkeep, RestartIfAdequate, RestartDone, CleanupIfAdequate, StartCleaning,
       CleanClause, CompactAndWatch, Local, Sharing, Finish
  <2>5. CASE Decision(w)
    BY <2>5 DEF Decision, DecideAtRandom, DecideFromHeap, ReportSat, Local, Sharing, Finish
  <2> QED BY <1>1, <2>1, <2>2, <2>3, <2>4, <2>5 DEF Worker
<1>2. Main \/ Exited \/ UNCHANGED vars => formula' = formula
  BY DEF Main, ReadClause, StartWorkers, JoinWorkers, Exited, vars
<1> QED BY <1>1, <1>2 DEF Next

\* The parser's contract that this program does not check: no clause is empty.
NoEmptyClause == \A f \in Formulas : \A i \in DOMAIN f : f[i] # {}

LEMMA ReadAll ==
    ASSUME IInv, formula \in Formulas, NoEmptyClause, NEW w \in Workers,
           ad[w].pc # "allocated"
    PROVE  F = Read /\ F \ {{}} = F
<1>1. nread = Len(formula) /\ formula \in Seq(Clause)
  BY DEF IInv, MainInv
<1>2. F = Read
  BY <1>1 DEF F, Read
<1>3. \A i \in 1..Len(formula) : formula[i] # {}
  BY <1>1 DEF NoEmptyClause
<1>4. {} \notin F
  BY <1>3 DEF F
<1> QED BY <1>2, <1>4

\* Every input clause that is not empty stays in force for every worker: it is true at
\* level 0, or a clause the worker propagates with is part of it.
THEOREM InputStaysInForce ==
    ASSUME NoEmptyClause
    PROVE  SafeSpec /\ []SameSearch => []InputInForce
<1>1. ASSUME IInv, PInv, formula \in Formulas, NEW w \in Workers, ad[w].pc # "allocated",
             NEW c \in F
      PROVE  \/ \E l \in c : IsTrue(ad[w].model, l) /\ LitDl(ad[w].model, l) = 0
             \/ \E k \in ActiveClauses(w) : k \subseteq c
  <2>1. PICK a, d : a = ad[w] /\ d = db
    OBVIOUS
  <2>2. c \in Read \ {{}}
    BY <1>1, ReadAll
  <2>3. PWorker(a, d, w, Read)
    BY <1>1, <2>1 DEF PInv
  <2>4. InForce(a, d, w, c)
    BY <2>2, <2>3 DEF PWorker, Input, InputKept
  <2>5. ASSUME NEW k, IsActive(a, d, w, k), k \subseteq c
        PROVE  \E x \in ActiveClauses(w) : x \subseteq c
    BY <2>1, <2>5, ActiveAre
  <2>6. CASE \E l \in c : Fixed(a.model, l)
    BY <2>1, <2>6 DEF Fixed
  <2>7. CASE \E i \in 1..a.lastUnit : d.uDB[i] \in c
    <3>1. PICK i \in 1..a.lastUnit : d.uDB[i] \in c
      BY <2>7
    <3>2. IsActive(a, d, w, {d.uDB[i]}) /\ {d.uDB[i]} \subseteq c
      BY <3>1 DEF IsActive
    <3> QED BY <2>5, <3>2
  <2>8. CASE \E l \in Lits : \E i \in 1..a.lastBins[l] : {-l, d.bDB[l][i]} \subseteq c
    <3>1. PICK l \in Lits : \E i \in 1..a.lastBins[l] : {-l, d.bDB[l][i]} \subseteq c
      BY <2>8
    <3>2. PICK i \in 1..a.lastBins[l] : {-l, d.bDB[l][i]} \subseteq c
      BY <3>1
    <3>3. IsActive(a, d, w, {-l, d.bDB[l][i]})
      BY <3>2 DEF IsActive
    <3> QED BY <2>5, <3>2, <3>3
  <2>9. CASE \E i \in DOMAIN d.tDB : d.tDB[i].flags[w] /\ d.tDB[i].lits \subseteq c
    <3>1. PICK i \in DOMAIN d.tDB : d.tDB[i].flags[w] /\ d.tDB[i].lits \subseteq c
      BY <2>9
    <3>2. IsActive(a, d, w, d.tDB[i].lits)
      BY <3>1 DEF IsActive
    <3> QED BY <2>5, <3>1, <3>2
  <2>10. CASE \E i \in DOMAIN a.thcdb : /\ a.thcdb[i].pos # 0
                                       /\ d.nDB[a.thcdb[i].pos].lits = c
    <3>1. IsActive(a, d, w, c)
      BY <2>10 DEF IsActive
    <3> QED BY <2>5, <3>1
  <2> QED BY <2>4, <2>6, <2>7, <2>8, <2>9, <2>10, Zenon DEF InForce
<1>2. IInv /\ PInv /\ formula \in Formulas => InputInForce
  BY <1>1 DEF InputInForce, Started
<1>3. Init => formula \in Formulas
  BY DEF Init
<1>4. formula \in Formulas /\ [Next]_vars => (formula \in Formulas)'
  BY FormulaStays
<1> QED BY <1>2, <1>3, <1>4, PropagationInvariant, PTL DEF SafeSpec

\* A worker that answers 10 holds an assignment of every variable that satisfies the
\* whole formula, and one that answers 20 has none to find.
THEOREM AnswersAreSound ==
    ASSUME NoEmptyClause
    PROVE  SafeSpec /\ []SameSearch => []AnswersSound
<1>1. ASSUME IInv, PInv, formula \in Formulas, NEW w \in Workers, NEW a, a = ad[w],
             a.result # 0
      PROVE  /\ a.result = 10 => /\ \A v \in Vars : ~IsUndefVar(a.model, v)
                                 /\ \A c \in F : \E l \in c : IsTrue(a.model, l)
             /\ a.result = 20 => ModelsOf(F) = {}
  <2>1. Answered(a, Read)
    BY <1>1, WorkerParts DEF IInv, Place
  <2>2. a.pc # "allocated"
    BY <1>1, <2>1 DEF Answered
  <2>3. F = Read /\ F \ {{}} = F
    BY <1>1, <2>2, ReadAll
  <2>4. ModelFound(a, Read)
    BY <1>1, <2>2 DEF PInv, PWorker, Input
  <2>5. a.result = 10 => \A v \in Vars : ~IsUndefVar(a.model, v)
    BY <2>1 DEF Answered, Free
  <2>6. a.result = 10 => \A c \in F : \E l \in c : IsTrue(a.model, l)
    BY <2>3, <2>4 DEF ModelFound
  <2>7. a.result = 20 => ModelsOf(F) = {}
    BY <2>1, <2>3 DEF Answered
  <2> QED BY <2>5, <2>6, <2>7
<1>2. IInv /\ PInv /\ formula \in Formulas => AnswersSound
  BY <1>1 DEF AnswersSound
<1>3. Init => formula \in Formulas
  BY DEF Init
<1>4. formula \in Formulas /\ [Next]_vars => (formula \in Formulas)'
  BY FormulaStays
<1> QED BY <1>2, <1>3, <1>4, PropagationInvariant, PTL DEF SafeSpec

\* A solver with one worker, to which SameSearch is no condition, has all of it.
THEOREM LoneWorkerIsComplete ==
    ASSUME NEW x, Workers = {x}, NoEmptyClause
    PROVE  SafeSpec => /\ []PropagationComplete /\ []WatchesSafe /\ []LemmaIsNew
                       /\ []InputInForce /\ []AnswersSound
<1>1. SafeSpec => []SameSearch
  BY LoneWorkerAgrees
<1>2. /\ SafeSpec /\ []SameSearch => []InputInForce
      /\ SafeSpec /\ []SameSearch => []AnswersSound
  BY InputStaysInForce, AnswersAreSound
<1> QED BY <1>1, <1>2, PropagationIsComplete, WatchesAreSafe, LemmasAreNew, PTL

-----------------------------------------------------------------------------
(* The program is a search as module Search promises. *)

LEMMA PromiseTerms ==
    /\ Promise!Clause = Clause
    /\ \A P : Promise!ModelsOf(P) = ModelsOf(P)
    /\ \A c : Promise!Entailed(c) <=> Follows(F, c)
<1>1. Promise!Vars = Vars /\ Promise!Lits = Lits
  BY DEF Promise!Vars, Promise!Lits, Vars, Lits
<1>2. Promise!Clause = Clause
  BY <1>1 DEF Promise!Clause, Clause
<1>3. \A f : Promise!LitsOf(f) = LitsOf(f)
  BY <1>1 DEF Promise!LitsOf, LitsOf
<1>4. Promise!Assignments = Assignments
  BY <1>1, <1>3 DEF Promise!Assignments, Assignments
<1>5. \A A, c : Promise!Satisfies(A, c) <=> Satisfies(A, c)
  BY DEF Promise!Satisfies, Satisfies
<1>6. \A P : Promise!ModelsOf(P) = ModelsOf(P)
  BY <1>4, <1>5 DEF Promise!ModelsOf, ModelsOf
<1> QED BY <1>2, <1>5, <1>6 DEF Promise!Entailed, Follows

\* The clauses of the database are those stored in one of its lists.
LEMMA ClausesStored ==
    ASSUME NEW d \in ClauseDBType
    PROVE  \A c : c \in AllClauses(d) <=> Stored(d, c)
<1>1. /\ DOMAIN d.uDB = 1..Len(d.uDB) /\ DOMAIN d.tDB = 1..Len(d.tDB)
      /\ DOMAIN d.nDB = 1..Len(d.nDB)
      /\ \A l \in Lits : DOMAIN d.bDB[l] = 1..Len(d.bDB[l])
  BY DbFields
<1>2. ASSUME NEW c
      PROVE  c \in BinaryClauses(d) <=> \E l \in Lits : \E i \in DOMAIN d.bDB[l] :
                                           c = {-l, d.bDB[l][i]}
  <2>1. ASSUME NEW l \in Lits
        PROVE  c \in {{-l, d.bDB[l][i]} : i \in 1..Len(d.bDB[l])}
                 <=> \E i \in DOMAIN d.bDB[l] : c = {-l, d.bDB[l][i]}
    BY <1>1
  <2> QED BY <2>1 DEF BinaryClauses
<1>3. ASSUME NEW c
      PROVE  /\ c \in {{d.uDB[i]} : i \in 1..Len(d.uDB)}
                  <=> \E i \in DOMAIN d.uDB : c = {d.uDB[i]}
             /\ c \in {d.tDB[i].lits : i \in 1..Len(d.tDB)}
                  <=> \E i \in DOMAIN d.tDB : c = d.tDB[i].lits
             /\ c \in {d.nDB[i].lits : i \in 1..Len(d.nDB)}
                  <=> \E i \in DOMAIN d.nDB : c = d.nDB[i].lits
  BY <1>1
<1> QED BY <1>2, <1>3 DEF AllClauses, Stored

TrueOf(m) == {l \in Lits : IsTrue(m, l)}
FixedOf(m) == {l \in Lits : Fixed(m, l)}

\* A model without an undefined variable is an assignment.
LEMMA CompleteIsAssignment ==
    ASSUME NEW m \in ModelType, TrailConsistent(m), Free(m) = {}
    PROVE  TrueOf(m) \in Assignments
<1>1. \A l \in Lits : /\ m.value[l] \in Values /\ -l \in Lits /\ -(-l) = l
                      /\ m.value[l] = "true" <=> m.value[-l] = "false"
  BY LitFacts DEF ModelType, TrailConsistent, StackMatchesValues, IsTrue, IsFalse
<1>2. \A v \in Vars : v \in Lits /\ -v \in Lits /\ v # -v /\ m.value[v] # "undef"
  BY NumVarsAssumption DEF Vars, Lits, Free, IsUndefVar
<1>3. PICK f : f = [v \in Vars |-> m.value[v] = "true"]
  OBVIOUS
<1>4. f \in [Vars -> BOOLEAN] /\ \A v \in Vars : f[v] <=> m.value[v] = "true"
  BY <1>3
<1>5. ASSUME NEW v \in Vars
      PROVE  /\ f[v] => v \in TrueOf(m) /\ -v \notin TrueOf(m)
             /\ ~f[v] => -v \in TrueOf(m) /\ v \notin TrueOf(m)
  <2>1. m.value[v] \in {"true", "false"} /\ v \in Lits /\ -v \in Lits
    BY <1>1, <1>2 DEF Values
  <2>2. m.value[v] = "true" => m.value[-v] = "false"
    BY <1>1, <2>1
  <2>3. m.value[v] = "false" => m.value[-v] = "true"
    BY <1>1, <2>1
  <2> QED BY <1>4, <2>1, <2>2, <2>3 DEF TrueOf, IsTrue
<1>6. LitsOf(f) \subseteq TrueOf(m)
  BY <1>5 DEF LitsOf
<1>7. ASSUME NEW l \in TrueOf(m) PROVE l \in LitsOf(f)
  <2>1. l \in Lits /\ (l \in Vars \/ -l \in Vars)
    BY NumVarsAssumption DEF TrueOf, Lits, Vars
  <2>2. CASE l \in Vars
    <3>1. f[l]
      BY <1>5, <1>7, <2>2
    <3> QED BY <2>2, <3>1 DEF LitsOf
  <2>3. CASE -l \in Vars
    <3>1. PICK v \in Vars : v = -l
      BY <2>3
    <3>2. l = -v
      BY <2>1, <3>1, LitFacts
    <3>3. ~f[v]
      BY <1>5, <1>7, <3>2
    <3> QED BY <3>2, <3>3 DEF LitsOf
  <2> QED BY <2>1, <2>2, <2>3
<1> QED BY <1>4, <1>6, <1>7 DEF Assignments

\* What a step that gives an answer does: it leaves everything else as it was.
Answers(w, answer) ==
    /\ db' = db /\ ad'[w].result = answer /\ ad'[w].model = ad[w].model
    /\ \A u \in Workers \ {w} : ad'[u] = ad[u]

NoAnswer(w) == ad'[w].result = ad[w].result

LEMMA FinishAnswers ==
    ASSUME IInv, NEW w \in Workers, NEW answer, Finish(w, answer)
    PROVE  Answers(w, answer)
<1>1. PICK b : b = [ad[w] EXCEPT !.pc = "done", !.result = answer]
  OBVIOUS
<1>2. Local(w, b)
  BY <1>1 DEF Finish
<1>3. DOMAIN ad[w] = Fields
  BY WorkerParts DEF IInv, Typed
<1>4. b.result = answer /\ b.model = ad[w].model
  BY <1>1, <1>3 DEF Fields
<1> QED BY <1>2, <1>4, LocalIs DEF Answers

LEMMA LocalNoAnswer ==
    ASSUME IInv, NEW w \in Workers, NEW b, Local(w, b), b.result = ad[w].result
    PROVE  NoAnswer(w)
BY LocalIs DEF NoAnswer

LEMMA SharingNoAnswer ==
    ASSUME IInv, NEW w \in Workers, NEW b, NEW e, Sharing(w, b, e), b.result = ad[w].result
    PROVE  NoAnswer(w)
BY SharingIs DEF NoAnswer

LEMMA UnitsAnswers ==
    ASSUME IInv, NEW w \in Workers, Units(w)
    PROVE  NoAnswer(w) \/ Answers(w, 20)
<1>1. PICK a : a = ad[w] /\ DOMAIN a = Fields
  BY WorkerParts DEF IInv, Typed
<1>2. CASE StartSolve(w)
  BY <1>1, <1>2, LocalNoAnswer DEF StartSolve, Fields
<1>3. CASE SetTrueUnit(w)
  BY <1>1, <1>3, LocalNoAnswer, FinishAnswers DEF SetTrueUnit, Fields
<1>4. CASE UnitsDone(w)
  BY <1>1, <1>4, LocalNoAnswer DEF UnitsDone, Fields
<1> QED BY <1>2, <1>3, <1>4 DEF Units

LEMMA PropagationAnswers ==
    ASSUME IInv, NEW w \in Workers, Propagation(w)
    PROVE  NoAnswer(w)
<1>1. PICK a : a = ad[w] /\ DOMAIN a = Fields
  BY WorkerParts DEF IInv, Typed
<1>2. CASE \E k \in Kinds : HandOutLiteral(w, k)
  BY <1>1, <1>2, LocalNoAnswer DEF HandOutLiteral, Fields
<1>3. CASE VisitBinary(w)
  BY <1>1, <1>3, LocalNoAnswer DEF VisitBinary, SkipEntry, Propagate, InConflict, Fields
<1>4. CASE VisitTernary(w)
  BY <1>1, <1>4, LocalNoAnswer DEF VisitTernary, SkipEntry, Propagate, InConflict, Fields
<1>5. CASE VisitNary(w)
  BY <1>1, <1>5, LocalNoAnswer DEF VisitNary, SkipEntry, Rewatch, Propagate, InConflict, Fields
<1>6. CASE ListDone(w) \/ PropagationDone(w)
  BY <1>1, <1>6, LocalNoAnswer DEF ListDone, PropagationDone, Fields
<1> QED BY <1>2, <1>3, <1>4, <1>5, <1>6 DEF Propagation

LEMMA AnalysisAnswers ==
    ASSUME IInv, NEW w \in Workers, Analysis(w)
    PROVE  NoAnswer(w) \/ Answers(w, 20)
<1>1. PICK a : a = ad[w] /\ DOMAIN a = Fields
  BY WorkerParts DEF IInv, Typed
<1>2. CASE ConflictAtLevelZero(w)
  BY <1>2, FinishAnswers DEF ConflictAtLevelZero
<1>3. CASE StartAnalysis(w) \/ MarkClause(w)
  BY <1>1, <1>3, LocalNoAnswer DEF StartAnalysis, MarkClause, Fields
<1>4. CASE PopLiteral(w)
  BY <1>1, <1>4, LocalNoAnswer DEF PopLiteral, PopOne, Fields
<1>5. CASE StartShortening(w) \/ ShortenLiteral(w)
  BY <1>1, <1>5, LocalNoAnswer DEF StartShortening, ShortenLiteral, Fields
<1> QED BY <1>2, <1>3, <1>4, <1>5 DEF Analysis

LEMMA LearntNoAnswer ==
    ASSUME IInv, NEW w \in Workers, NEW c, NEW r, NEW e, DOMAIN c = Fields,
           Sharing(w, AfterLearning(c, r), e), c.result = ad[w].result
    PROVE  NoAnswer(w)
<1>1. PICK b : b = AfterLearning(c, r)
  OBVIOUS
<1>2. b.result = c.result
  BY <1>1 DEF AfterLearning, Fields
<1> QED BY <1>1, <1>2, SharingNoAnswer

LEMMA LearningAnswers ==
    ASSUME IInv, NEW w \in Workers, Learning(w)
    PROVE  NoAnswer(w)
<1>1. PICK a : a = ad[w] /\ DOMAIN a = Fields
  BY WorkerParts DEF IInv, Typed
<1>3. CASE LearnUnit(w)
  <2>1. PICK c : c = [a EXCEPT !.lastUnit = @ + 1]
    OBVIOUS
  <2>2. DOMAIN c = Fields /\ c.result = a.result
    BY <1>1, <2>1 DEF Fields
  <2>3. \E e : Sharing(w, AfterLearning(c, NoReason), e)
    BY <1>1, <1>3, <2>1 DEF LearnUnit
  <2> QED BY <1>1, <2>2, <2>3, LearntNoAnswer
<1>4. CASE LearnBinary(w)
  <2>1. PICK l, c, r :
             /\ l \in Lits
             /\ c = CountBinary(a, a.uip, l) /\ r = [size |-> 2, lit |-> l, ptr |-> 0]
             /\ Sharing(w, AfterLearning(c, r),
                        InsertBinary(db, a.uip, l, FALSE, a.lastBins[-a.uip]))
    BY <1>1, <1>4 DEF LearnBinary
  <2>2. DOMAIN c = Fields /\ c.result = a.result
    BY <1>1, <2>1 DEF CountBinary, Fields
  <2> QED BY <1>1, <2>1, <2>2, LearntNoAnswer
<1>5. CASE LearnTernary(w)
  <2>1. PICK c : c = [a EXCEPT !.lastTernary = @ + 1]
    OBVIOUS
  <2>2. DOMAIN c = Fields /\ c.result = a.result
    BY <1>1, <2>1 DEF Fields
  <2>3. \E r, e : Sharing(w, AfterLearning(c, r), e)
    BY <1>1, <1>5, <2>1 DEF LearnTernary
  <2> QED BY <1>1, <2>2, <2>3, LearntNoAnswer
<1>6. CASE LearnNary(w)
  <2>1. PICK c, t, x : /\ c = [a EXCEPT !.lastNary = @ + 1] /\ x = InsertThClause(c, t)
                       /\ t = [pos |-> a.lastNary + 1, w1 |-> a.uip,
                               w2 |-> OtherWatch(a), activity |-> 0]
    OBVIOUS
  <2>2. DOMAIN c = Fields /\ c.result = a.result
    BY <1>1, <2>1 DEF Fields
  <2>3. DOMAIN x = Fields /\ x.result = a.result
    BY <2>1, <2>2 DEF InsertThClause, Fields
  <2>4. \E r, e : Sharing(w, AfterLearning(x, r), e)
    BY <1>1, <1>6, <2>1 DEF LearnNary
  <2> QED BY <1>1, <2>3, <2>4, LearntNoAnswer
<1>7. CASE Unwind(w) \/ SetTrueUip(w)
  BY <1>1, <1>7, LocalNoAnswer DEF Unwind, SetTrueUip, PopOne, Fields
<1> QED BY <1>3, <1>4, <1>5, <1>6, <1>7 DEF Learning

LEMMA UpkeepAnswers ==
    ASSUME IInv, NEW w \in Workers, Upkeep(w)
    PROVE  NoAnswer(w)
<1>1. PICK a : a = ad[w] /\ DOMAIN a = Fields
  BY WorkerParts DEF IInv, Typed
<1>2. CASE RestartIfAdequate(w) \/ RestartDone(w) \/ CleanupIfAdequate(w)
  BY <1>1, <1>2, LocalNoAnswer DEF RestartIfAdequate, RestartDone, CleanupIfAdequate, Fields
<1>3. CASE StartCleaning(w) \/ CompactAndWatch(w)
  BY <1>1, <1>3, LocalNoAnswer DEF StartCleaning, CompactAndWatch, Fields
<1>4. CASE CleanClause(w)
  <2>1. PICK i, c : i = a.cursor.pos /\ c = [a EXCEPT !.cursor.pos = @ + 1]
    OBVIOUS
  <2>2. DOMAIN c = Fields /\ c.result = a.result
    BY <1>1, <2>1 DEF Fields
  <2>3. ASSUME NEW x, DOMAIN x = Fields PROVE Deleted(x, i).result = x.result
    BY <2>3 DEF Deleted, Fields
  <2>4. ASSUME NEW rest, Cardinality(rest) \in 1..3
        PROVE  /\ DOMAIN ShrunkSolver(c, rest) = Fields
               /\ ShrunkSolver(c, rest).result = c.result
    <3>1. Cardinality(rest) \in {1, 2, 3}
      BY <2>4
    <3> QED BY <2>2, <3>1 DEF ShrunkSolver, CountBinary, Fields
  <2>5. \/ \E e : Sharing(w, Deleted(c, i), e)
        \/ Local(w, c)
        \/ \E rest, e : /\ Cardinality(rest) \in 1..3
                         /\ Sharing(w, Deleted(ShrunkSolver(c, rest), i), e)
    BY <1>1, <1>4, <2>1, Zenon DEF CleanClause
  <2>6. ASSUME NEW x, NEW e, DOMAIN x = Fields, x.result = a.result, Sharing(w, Deleted(x, i), e)
        PROVE  NoAnswer(w)
    <3>1. PICK b : b = Deleted(x, i)
      OBVIOUS
    <3>2. b.result = a.result
      BY <2>3, <2>6, <3>1
    <3> QED BY <1>1, <2>6, <3>1, <3>2, SharingNoAnswer
  <2>7. ASSUME NEW rest, NEW e, Cardinality(rest) \in 1..3,
               Sharing(w, Deleted(ShrunkSolver(c, rest), i), e)
        PROVE  NoAnswer(w)
    <3>1. PICK x : x = ShrunkSolver(c, rest)
      OBVIOUS
    <3>2. DOMAIN x = Fields /\ x.result = a.result
      BY <2>2, <2>4, <2>7, <3>1
    <3> QED BY <2>6, <2>7, <3>1, <3>2
  <2> QED BY <1>1, <2>2, <2>5, <2>6, <2>7, LocalNoAnswer
<1> QED BY <1>2, <1>3, <1>4 DEF Upkeep

LEMMA DecisionAnswers ==
    ASSUME IInv, NEW w \in Workers, Decision(w)
    PROVE  NoAnswer(w) \/ Answers(w, 10)
<1>1. PICK a : a = ad[w] /\ DOMAIN a = Fields
  BY WorkerParts DEF IInv, Typed
<1>2. CASE DecideAtRandom(w) \/ DecideFromHeap(w)
  BY <1>1, <1>2, LocalNoAnswer DEF DecideAtRandom, DecideFromHeap, Decided, Fields
<1>3. CASE ReportSat(w)
  <2>1. PICK b : b = [a EXCEPT !.heap = {}, !.pc = "done", !.result = 10]
    OBVIOUS
  <2>2. Local(w, b)
    BY <1>1, <1>3, <2>1 DEF ReportSat
  <2>3. b.result = 10 /\ b.model = a.model
    BY <1>1, <2>1 DEF Fields
  <2> QED BY <1>1, <2>2, <2>3, LocalIs DEF Answers
<1> QED BY <1>2, <1>3 DEF Decision

LEMMA WorkerAnswers ==
    ASSUME IInv, NEW w \in Workers, Worker(w)
    PROVE  NoAnswer(w) \/ Answers(w, 10) \/ Answers(w, 20)
BY UnitsAnswers, PropagationAnswers, AnalysisAnswers, LearningAnswers, UpkeepAnswers,
   DecisionAnswers DEF Worker
\* The state of the search that the program stands for.
ShownOf(a) == IF a.result = 10 THEN TrueOf(a.model) ELSE {}
FixedNow == [w \in Workers |-> FixedOf(ad[w].model)]
AnswerNow == [w \in Workers |-> ad[w].result]
ShownNow == [w \in Workers |-> ShownOf(ad[w])]
PromiseState == <<F, AllClauses(db), FixedNow, AnswerNow, ShownNow>>

LEMMA PromiseVars ==
    /\ FixedNow = [w \in Workers |-> {l \in Lits : /\ IsTrue(ad[w].model, l)
                                                   /\ LitDl(ad[w].model, l) = 0}]
    /\ ShownNow = [w \in Workers |-> IF ad[w].result = 10
                                     THEN {l \in Lits : IsTrue(ad[w].model, l)} ELSE {}]
BY Zenon DEF FixedNow, FixedOf, Fixed, ShownNow, ShownOf, TrueOf

\* The same, of the state after a step.
LEMMA PromiseVarsThen ==
    /\ FixedNow' = [w \in Workers |-> {l \in Lits : /\ IsTrue(ad[w].model, l)
                                                    /\ LitDl(ad[w].model, l) = 0}]'
    /\ ShownNow' = [w \in Workers |-> IF ad[w].result = 10
                                      THEN {l \in Lits : IsTrue(ad[w].model, l)} ELSE {}]'
    /\ AnswerNow' = [w \in Workers |-> ad[w].result]'
BY Zenon DEF FixedNow, FixedOf, Fixed, ShownNow, ShownOf, TrueOf, AnswerNow

\* What module Search asks of a step, of these terms.
Infers(w) ==
    /\ F' = F /\ AnswerNow' = AnswerNow /\ ShownNow' = ShownNow /\ AnswerNow[w] = 0
    /\ AllClauses(db) \subseteq AllClauses(db')
    /\ \A c \in AllClauses(db') \ AllClauses(db) : Follows(F, c)
    /\ FixedNow[w] \subseteq FixedNow'[w]
    /\ \A l \in FixedNow'[w] \ FixedNow[w] : Follows(F, {l})
    /\ FixedNow' = [FixedNow EXCEPT ![w] = FixedNow'[w]]

LEMMA InfersIs == ASSUME NEW w \in Workers, Infers(w) PROVE Promise!Infer(w)
BY PromiseTerms, PromiseVars, PromiseVarsThen, Zenon DEF Infers, Promise!Infer, AnswerNow

Reads ==
    /\ F' = F /\ AnswerNow' = AnswerNow /\ ShownNow' = ShownNow /\ FixedNow' = FixedNow
    /\ \E c \in F : AllClauses(db') = AllClauses(db) \cup {c}

LEMMA ReadsIs == ASSUME Reads PROVE Promise!Read
BY PromiseVars, PromiseVarsThen, Zenon DEF Reads, Promise!Read, AnswerNow

AnswersSat(w) ==
    /\ F' = F /\ AllClauses(db') = AllClauses(db) /\ FixedNow' = FixedNow
    /\ AnswerNow[w] = 0 /\ AnswerNow' = [AnswerNow EXCEPT ![w] = 10]
    /\ \E A \in ModelsOf(F) : /\ FixedNow[w] \subseteq A
                              /\ ShownNow' = [ShownNow EXCEPT ![w] = A]

LEMMA AnswersSatIs == ASSUME NEW w \in Workers, AnswersSat(w) PROVE Promise!AnswerSat(w)
BY PromiseTerms, PromiseVars, PromiseVarsThen, Zenon DEF AnswersSat, Promise!AnswerSat, AnswerNow

AnswersUnsat(w) ==
    /\ F' = F /\ AllClauses(db') = AllClauses(db) /\ FixedNow' = FixedNow
    /\ ShownNow' = ShownNow /\ AnswerNow[w] = 0 /\ ModelsOf(F) = {}
    /\ AnswerNow' = [AnswerNow EXCEPT ![w] = 20]

LEMMA AnswersUnsatIs == ASSUME NEW w \in Workers, AnswersUnsat(w) PROVE Promise!AnswerUnsat(w)
BY PromiseTerms, PromiseVars, PromiseVarsThen, Zenon DEF AnswersUnsat, Promise!AnswerUnsat, AnswerNow

PromiseStep ==
    \/ Reads \/ UNCHANGED PromiseState
    \/ \E w \in Workers : Infers(w) \/ AnswersSat(w) \/ AnswersUnsat(w)

LEMMA PromiseStepIs == ASSUME PromiseStep PROVE [Promise!Next]_(Promise!vars)
<1>1. UNCHANGED PromiseState => UNCHANGED Promise!vars
  BY PromiseVars, PromiseVarsThen, Zenon DEF PromiseState, AnswerNow, Promise!vars
<1> QED BY <1>1, InfersIs, ReadsIs, AnswersSatIs, AnswersUnsatIs DEF PromiseStep, Promise!Next
\* A worker that steps is neither waiting nor done, and main is left alone.
LEMMA WorkerRuns ==
    ASSUME NEW w \in Workers, Worker(w)
    PROVE  /\ ad[w].pc \notin {"allocated", "done"}
           /\ UNCHANGED <<formula, nread, mainPc>>
<1>1. CASE Units(w)
  BY <1>1, Zenon DEF Units, StartSolve, SetTrueUnit, UnitsDone, At, Local, Finish
<1>2. CASE Propagation(w)
  <2>1. CASE VisitBinary(w) \/ VisitTernary(w) \/ VisitNary(w)
    BY <2>1, Zenon DEF VisitBinary, VisitTernary, VisitNary, At, Local
  <2>2. CASE (\E k \in Kinds : HandOutLiteral(w, k)) \/ ListDone(w) \/ PropagationDone(w)
    BY <2>2, Zenon DEF HandOutLiteral, ListDone, PropagationDone, At, Local
  <2> QED BY <1>2, <2>1, <2>2 DEF Propagation
<1>3. CASE Analysis(w)
  BY <1>3, Zenon DEF Analysis, ConflictAtLevelZero, StartAnalysis, MarkClause, PopLiteral,
     StartShortening, ShortenLiteral, At, Local, Finish
<1>4. CASE Learning(w)
  <2>1. CASE LearnUnit(w) \/ LearnBinary(w) \/ LearnTernary(w) \/ LearnNary(w)
    BY <2>1, Zenon DEF LearnUnit, LearnBinary, LearnTernary, LearnNary, ReadyToLearn, At,
       Sharing
  <2>2. CASE Unwind(w) \/ SetTrueUip(w)
    BY <2>2 DEF Unwind, SetTrueUip, Unwinding, At, Local
  <2> QED BY <1>4, <2>1, <2>2 DEF Learning
<1>5. CASE Upkeep(w)
  BY <1>5, Zenon DEF Upkeep, RestartIfAdequate, RestartDone, CleanupIfAdequate, StartCleaning,
     CleanClause, CompactAndWatch, At, Local, Sharing
<1>6. CASE Decision(w)
  BY <1>6, Zenon DEF Decision, DecideAtRandom, DecideFromHeap, ReportSat, At, Local
<1> QED BY <1>1, <1>2, <1>3, <1>4, <1>5, <1>6 DEF Worker

\* The database only grows.
LEMMA WorkerExtends ==
    ASSUME IInv, SameSearch, NEW w \in Workers, Worker(w)
    PROVE  Extends(db, db')
<1>1. db' = db => Extends(db, db')
  BY ExtendsSame DEF IInv, DbInv
<1>2. CASE Units(w) \/ Propagation(w)
  BY <1>1, <1>2, Zenon DEF Units, StartSolve, SetTrueUnit, UnitsDone, Propagation,
     HandOutLiteral, VisitBinary, VisitTernary, VisitNary, ListDone, PropagationDone,
     Local, Finish
<1>3. CASE Analysis(w)
  BY <1>1, <1>3, Zenon DEF Analysis, ConflictAtLevelZero, StartAnalysis, MarkClause,
     PopLiteral, StartShortening, ShortenLiteral, Local, Finish
<1>4. CASE Learning(w)
  <2>1. CASE Unwind(w) \/ SetTrueUip(w)
    BY <1>1, <2>1, Zenon DEF Unwind, SetTrueUip, Local
  <2> QED BY <1>4, <2>1, LearnUnitIInv, LearnBinaryIInv, LearnTernaryIInv, LearnNaryIInv
          DEF Learning
<1>5. CASE Upkeep(w)
  <2>1. CASE CleanClause(w)
    BY <2>1, CleanClauseIInv
  <2>2. CASE ~CleanClause(w)
    BY <1>1, <1>5, <2>2, Zenon DEF Upkeep, RestartIfAdequate, RestartDone,
       CleanupIfAdequate, StartCleaning, CompactAndWatch, Local
  <2> QED BY <2>1, <2>2
<1>6. CASE Decision(w)
  BY <1>1, <1>6, Zenon DEF Decision, DecideAtRandom, DecideFromHeap, ReportSat, Local
<1> QED BY <1>2, <1>3, <1>4, <1>5, <1>6 DEF Worker

\* What is in the database follows from the clauses read.
LEMMA KnownFollow ==
    ASSUME NEW d, NEW P, DbInv(d, P)
    PROVE  \A c \in AllClauses(d) : Follows(P, c)
<1>1. d \in ClauseDBType /\ DbFollows(d, P)
  BY DEF DbInv
<1>2. ASSUME NEW c \in AllClauses(d) PROVE Follows(P, c)
  <2>1. Stored(d, c)
    BY <1>1, <1>2, ClausesStored
  <2> QED BY <1>1, <2>1, Zenon DEF DbFollows, Stored
<1> QED BY <1>2

\* Before the workers run, nothing is true in their models.
Untouched == \A w \in Workers : ad[w].pc = "allocated" => FixedOf(ad[w].model) = {}

LEMMA NothingFixed == ASSUME NEW phase PROVE FixedOf(ModelInit(phase)) = {}
BY DEF FixedOf, Fixed, IsTrue, ModelInit

LEMMA InitUntouched == ASSUME Init PROVE Untouched
<1>1. PICK phases \in [Workers -> InitPhases] :
         ad = [w \in Workers |-> [InitSolver(phases[w]) EXCEPT !.pc = "allocated"]]
  BY DEF Init
<1>2. ASSUME NEW w \in Workers PROVE FixedOf(ad[w].model) = {}
  <2>1. ad[w].model = ModelInit(phases[w])
    BY <1>1 DEF InitSolver
  <2> QED BY <2>1, NothingFixed
<1> QED BY <1>2 DEF Untouched
\* The clauses of the program have all been read when a worker steps.
LEMMA WorkerKnows ==
    ASSUME IInv, IInv', formula \in Formulas, NoEmptyClause, NEW w \in Workers, Worker(w)
    PROVE  /\ F' = F /\ F = Read /\ Read' = Read /\ F \ {{}} = F
<1>1. ad[w].pc # "allocated" /\ formula' = formula /\ nread' = nread
  BY WorkerRuns
<1>2. F = Read /\ F \ {{}} = F
  BY <1>1, ReadAll
<1>3. Read' = Read
  BY <1>1 DEF Read
<1>4. F' = F
  BY <1>1 DEF F
<1> QED BY <1>2, <1>3, <1>4

\* A worker that gives no answer learns and fixes only what follows.
LEMMA WorkerInfers ==
    ASSUME IInv, IInv', SameSearch, formula \in Formulas, NoEmptyClause,
           NEW w \in Workers, Worker(w), NoAnswer(w)
    PROVE  Infers(w)
<1>1. F' = F /\ F = Read /\ Read' = Read
  BY WorkerKnows
<1>2. /\ db \in ClauseDBType /\ DbInv(db', F) /\ db' \in ClauseDBType
      /\ Extends(db, db')
  BY <1>1, WorkerExtends DEF IInv, DbInv
<1>3. AllClauses(db) \subseteq AllClauses(db')
  <2>1. ASSUME NEW c \in AllClauses(db) PROVE c \in AllClauses(db')
    <3>1. Stored(db, c)
      BY <1>2, <2>1, ClausesStored
    <3>2. Stored(db', c)
      BY <1>2, <3>1, StoredFurther
    <3> QED BY <1>2, <3>2, ClausesStored
  <2> QED BY <2>1
<1>4. \A c \in AllClauses(db') : Follows(F, c)
  BY <1>2, KnownFollow
<1>5. /\ ad[w].result = 0 /\ ad[w].pc # "allocated"
      /\ \A u \in Workers \ {w} : ad'[u] = ad[u]
  <2>1. ad[w].pc \notin {"allocated", "done"}
    BY WorkerRuns
  <2>2. ad[w].result = 0
    BY <2>1, NoAnswerYet DEF IInv
  <2> QED BY <2>1, <2>2, WorkerSteady DEF Steady
<1>6. ad'[w].result = 0
  BY <1>5 DEF NoAnswer
<1>7. FixedOf(ad[w].model) \subseteq FixedOf(ad'[w].model)
  <2>1. FixedKept(ad[w].model, ad'[w].model)
    BY <1>5, StepKeepsFixed DEF Next
  <2> QED BY <2>1 DEF FixedOf, Fixed, FixedKept
<1>8. \A l \in FixedOf(ad'[w].model) : Follows(F, {l})
  <2>1. WorkerInv(ad'[w], db', F)
    BY <1>1 DEF IInv
  <2>2. FixedFollow(ad'[w].model, F)
    BY <2>1 DEF WorkerInv, Core, ModelInv
  <2> QED BY <2>2 DEF FixedFollow, FixedOf, Fixed
<1>9. AnswerNow' = AnswerNow /\ ShownNow' = ShownNow /\ AnswerNow[w] = 0
  <2>1. \A u \in Workers : ad'[u].result = ad[u].result
    BY <1>5, <1>6
  <2>2. \A u \in Workers : ShownOf(ad'[u]) = ShownOf(ad[u])
    <3>1. ShownOf(ad'[w]) = {} /\ ShownOf(ad[w]) = {}
      BY <1>5, <1>6 DEF ShownOf
    <3> QED BY <1>5, <3>1
  <2> QED BY <1>5, <2>1, <2>2 DEF AnswerNow, ShownNow
<1>10. FixedNow' = [FixedNow EXCEPT ![w] = FixedNow'[w]]
  <2>1. \A u \in Workers \ {w} : FixedOf(ad'[u].model) = FixedOf(ad[u].model)
    BY <1>5
  <2> QED BY <2>1 DEF FixedNow
<1>11. FixedNow[w] = FixedOf(ad[w].model) /\ FixedNow'[w] = FixedOf(ad'[w].model)
  BY DEF FixedNow
<1> QED BY <1>1, <1>3, <1>4, <1>7, <1>8, <1>9, <1>10, <1>11 DEF Infers

\* A worker that answers is right.
LEMMA WorkerConcludes ==
    ASSUME IInv, IInv', PInv', formula \in Formulas, NoEmptyClause,
           NEW w \in Workers, Worker(w), NEW answer \in {10, 20}, Answers(w, answer)
    PROVE  AnswersSat(w) \/ AnswersUnsat(w)
<1>1. F' = F /\ F = Read /\ Read' = Read /\ F \ {{}} = F
  BY WorkerKnows
<1>2. /\ ad[w].result = 0 /\ ad'[w].result = answer /\ ad'[w].model = ad[w].model
      /\ db' = db /\ \A u \in Workers \ {w} : ad'[u] = ad[u]
  <2>1. ad[w].pc \notin {"allocated", "done"}
    BY WorkerRuns
  <2>2. ad[w].result = 0
    BY <2>1, NoAnswerYet DEF IInv
  <2> QED BY <2>2 DEF Answers
<1>3. /\ FixedNow' = FixedNow /\ AnswerNow[w] = 0
      /\ AnswerNow' = [AnswerNow EXCEPT ![w] = answer]
  <2>1. \A u \in Workers : FixedOf(ad'[u].model) = FixedOf(ad[u].model)
    BY <1>2
  <2> QED BY <1>2, <2>1 DEF FixedNow, AnswerNow
<1>4. AllClauses(db') = AllClauses(db)
  BY <1>2
<1>5. PICK a, d : a = ad'[w] /\ d = db'
  OBVIOUS
<1>6. WorkerInv(a, d, F)
  BY <1>1, <1>5 DEF IInv
<1>7. /\ Answered(a, F) /\ a.model \in ModelType /\ TrailConsistent(a.model)
      /\ a.result = answer /\ a.pc = "done"
  <2>1. Answered(a, F) /\ a.model \in ModelType /\ TrailConsistent(a.model)
    BY <1>6 DEF WorkerInv, Place, Core, ModelInv, Typed
  <2> QED BY <1>2, <1>5, <2>1 DEF Answered
<1>8. ASSUME answer = 10 PROVE AnswersSat(w)
  <2>1. PWorker(a, d, w, F)
    BY <1>1, <1>5, <1>7 DEF PInv
  <2>2. \A c \in F : \E l \in c : IsTrue(a.model, l)
    BY <1>1, <1>7, <1>8, <2>1 DEF PWorker, Input, ModelFound
  <2>3. TrueOf(a.model) \in Assignments
    BY <1>7, <1>8, CompleteIsAssignment DEF Answered
  <2>4. F \subseteq Clause
    <3>1. formula \in Seq(Clause)
      BY DEF IInv, MainInv
    <3> QED BY <3>1 DEF F
  <2>5. \A c \in F : Satisfies(TrueOf(a.model), c)
    BY <2>2, <2>4 DEF Satisfies, TrueOf, Clause
  <2>6. TrueOf(a.model) \in ModelsOf(F)
    BY <2>3, <2>5 DEF ModelsOf
  <2>7. FixedNow[w] \subseteq TrueOf(a.model)
    BY <1>2, <1>5 DEF FixedNow, FixedOf, Fixed, TrueOf
  <2>8. ShownNow' = [ShownNow EXCEPT ![w] = TrueOf(a.model)]
    <3>1. ShownOf(ad'[w]) = TrueOf(a.model)
      BY <1>2, <1>5, <1>8 DEF ShownOf
    <3>2. \A u \in Workers \ {w} : ShownOf(ad'[u]) = ShownOf(ad[u])
      BY <1>2
    <3> QED BY <3>1, <3>2 DEF ShownNow
  <2> QED BY <1>1, <1>3, <1>4, <1>8, <2>6, <2>7, <2>8 DEF AnswersSat
<1>9. ASSUME answer = 20 PROVE AnswersUnsat(w)
  <2>1. ModelsOf(F) = {}
    BY <1>7, <1>9 DEF Answered
  <2>2. \A u \in Workers : ShownOf(ad'[u]) = ShownOf(ad[u])
    <3>1. ShownOf(ad'[w]) = {} /\ ShownOf(ad[w]) = {}
      BY <1>2, <1>9 DEF ShownOf
    <3> QED BY <1>2, <3>1
  <2>3. ShownNow' = ShownNow
    BY <2>2 DEF ShownNow
  <2> QED BY <1>1, <1>3, <1>4, <1>9, <2>1, <2>3 DEF AnswersUnsat
<1> QED BY <1>8, <1>9
LEMMA ReadClauseReads ==
    ASSUME IInv, IInv', formula \in Formulas, NoEmptyClause, ReadClause
    PROVE  Reads
<1>1. /\ nread < Len(formula) /\ nread' = nread + 1 /\ formula' = formula /\ ad' = ad
      /\ db' = InsertInput(db, formula[nread + 1])
  BY DEF ReadClause
<1>2. formula \in Seq(Clause) /\ nread \in 0..Len(formula) /\ Len(formula) \in Nat
  BY DEF IInv, MainInv
<1>3. PICK n, c, d, e, Q : /\ n = nread + 1 /\ c = formula[n] /\ d = db
                           /\ e = InsertInput(db, c) /\ Q = Read'
  OBVIOUS
<1>4. n \in 1..Len(formula) /\ c \in Clause /\ c # {} /\ c \in F
  <2>1. n \in 1..Len(formula)
    BY <1>1, <1>2, <1>3
  <2>2. c \in Clause /\ c # {}
    BY <1>2, <1>3, <2>1 DEF NoEmptyClause
  <2> QED BY <1>3, <2>1, <2>2 DEF F
<1>5. c \in Q /\ Read \subseteq Q
  <2>1. Read = {formula[i] : i \in 1..nread} /\ Q = {formula[i] : i \in 1..n}
    BY <1>1, <1>3 DEF Read
  <2>2. 1..nread \subseteq 1..n /\ n \in 1..n
    BY <1>2, <1>3, <1>4
  <2> QED BY <1>3, <2>1, <2>2
<1>6. DbInv(d, Q) /\ Follows(Q, c)
  <2>1. DbInv(d, Read)
    BY <1>3 DEF IInv
  <2>2. DbInv(d, Q)
    BY <1>5, <2>1, FollowsFromMore DEF DbInv, DbFollows
  <2> QED BY <1>5, <2>2, FollowsMember
<1>7. d \in ClauseDBType /\ e \in ClauseDBType /\ Extends(d, e) /\ e = InsertInput(d, c)
  <2>1. DbInv(e, Q) /\ Extends(d, e)
    BY <1>3, <1>4, <1>6, InputInserted
  <2> QED BY <1>3, <1>6, <2>1 DEF DbInv
<1>8. Stored(e, c) /\ NothingElse(d, e, c)
  BY <1>4, <1>7, InputRead DEF EntersDB
<1>9. ASSUME NEW x PROVE x \in AllClauses(e) <=> x \in AllClauses(d) \cup {c}
  <2>1. Stored(e, x) => Stored(d, x) \/ x = c
    BY <1>8 DEF NothingElse
  <2>2. Stored(d, x) => Stored(e, x)
    BY <1>7, StoredFurther
  <2>3. /\ x \in AllClauses(e) <=> Stored(e, x)
        /\ x \in AllClauses(d) <=> Stored(d, x)
    BY <1>7, ClausesStored
  <2> QED BY <1>8, <2>1, <2>2, <2>3
<1>10. AllClauses(db') = AllClauses(db) \cup {c}
  <2>1. AllClauses(e) = AllClauses(d) \cup {c}
    BY <1>9
  <2> QED BY <1>1, <1>3, <2>1
<1>11. F' = F
  BY <1>1 DEF F
<1>12. FixedNow' = FixedNow /\ AnswerNow' = AnswerNow /\ ShownNow' = ShownNow
  BY <1>1 DEF FixedNow, AnswerNow, ShownNow
<1> QED BY <1>4, <1>10, <1>11, <1>12 DEF Reads

LEMMA StartShowsNothing ==
    ASSUME IInv, Untouched, StartWorkers
    PROVE  UNCHANGED PromiseState
<1>1. /\ mainPc = "read" /\ formula' = formula /\ db' = db
      /\ ad' = [w \in Workers |-> InitSolver(ad[w].model.phase)]
  BY DEF StartWorkers
<1>2. ASSUME NEW w \in Workers
      PROVE  /\ FixedOf(ad'[w].model) = FixedOf(ad[w].model)
             /\ ad'[w].result = ad[w].result /\ ShownOf(ad'[w]) = ShownOf(ad[w])
  <2>1. ad[w].pc = "allocated" /\ WorkerInv(ad[w], db, Read)
    BY <1>1 DEF IInv, MainInv
  <2>2. ad[w].result = 0 /\ FixedOf(ad[w].model) = {}
    BY <2>1, NoAnswerYet DEF Untouched
  <2>3. PICK phase : phase = ad[w].model.phase
    OBVIOUS
  <2>4. ad'[w] = InitSolver(phase)
    BY <1>1, <2>3
  <2>5. ad'[w].result = 0 /\ ad'[w].model = ModelInit(phase)
    BY <2>4 DEF InitSolver
  <2> QED BY <2>2, <2>5, NothingFixed DEF ShownOf
<1>3. FixedNow' = FixedNow /\ AnswerNow' = AnswerNow /\ ShownNow' = ShownNow
  BY <1>2 DEF FixedNow, AnswerNow, ShownNow
<1>4. F' = F /\ AllClauses(db') = AllClauses(db)
  BY <1>1 DEF F
<1> QED BY <1>3, <1>4 DEF PromiseState

LEMMA SameShown ==
    ASSUME UNCHANGED <<formula, db, ad>>
    PROVE  UNCHANGED PromiseState
<1>1. FixedNow' = FixedNow /\ AnswerNow' = AnswerNow /\ ShownNow' = ShownNow
  BY DEF FixedNow, AnswerNow, ShownNow
<1>2. F' = F /\ AllClauses(db') = AllClauses(db)
  BY DEF F
<1> QED BY <1>1, <1>2 DEF PromiseState

LEMMA StepIsPromised ==
    ASSUME IInv, IInv', PInv', SameSearch, Untouched, formula \in Formulas, NoEmptyClause,
           [Next]_vars
    PROVE  PromiseStep
<1>1. CASE \E w \in Workers : Worker(w)
  <2>1. PICK w \in Workers : Worker(w)
    BY <1>1
  <2>2. CASE NoAnswer(w)
    BY <2>1, <2>2, WorkerInfers DEF PromiseStep
  <2>3. ASSUME NEW answer \in {10, 20}, Answers(w, answer) PROVE PromiseStep
    BY <2>1, <2>3, WorkerConcludes DEF PromiseStep
  <2> QED BY <2>1, <2>2, <2>3, WorkerAnswers
<1>2. CASE ReadClause
  BY <1>2, ReadClauseReads DEF PromiseStep
<1>3. CASE StartWorkers
  BY <1>3, StartShowsNothing DEF PromiseStep
<1>4. CASE JoinWorkers \/ Exited \/ UNCHANGED vars
  <2>1. UNCHANGED <<formula, db, ad>>
    BY <1>4 DEF JoinWorkers, Exited, vars
  <2> QED BY <2>1, SameShown DEF PromiseStep
<1> QED BY <1>1, <1>2, <1>3, <1>4 DEF Next, Main

LEMMA UntouchedStays ==
    ASSUME IInv, IInv', Untouched, [Next]_vars
    PROVE  Untouched'
<1>1. CASE ad' = ad
  BY <1>1 DEF Untouched
<1>2. CASE mainPc' # "read"
  BY <1>2 DEF IInv, MainInv, Untouched
<1>3. CASE \E w \in Workers : Worker(w)
  <2>1. PICK w \in Workers : ad[w].pc # "allocated" /\ mainPc' = mainPc
    BY <1>3, WorkerRuns
  <2>2. mainPc # "read"
    BY <2>1 DEF IInv, MainInv
  <2> QED BY <1>2, <2>1, <2>2
<1> QED BY <1>1, <1>2, <1>3
        DEF Next, Main, ReadClause, StartWorkers, JoinWorkers, Exited, vars

LEMMA PromiseInit == ASSUME Init PROVE Promise!Init
<1>1. /\ formula \in Seq(Clause) /\ db = EmptyDB
      /\ \E phases \in [Workers -> InitPhases] :
            ad = [w \in Workers |-> [InitSolver(phases[w]) EXCEPT !.pc = "allocated"]]
  BY ParametersAssumption DEF Init
<1>2. F \subseteq Clause
  BY <1>1 DEF F
<1>3. AllClauses(db) = {}
  <2>1. PICK e : e = EmptyDB
    OBVIOUS
  <2>2. /\ Len(e.uDB) = 0 /\ Len(e.tDB) = 0 /\ Len(e.nDB) = 0
        /\ \A l \in Lits : Len(e.bDB[l]) = 0
    BY <2>1 DEF EmptyDB
  <2>3. BinaryClauses(e) = {}
    BY <2>2 DEF BinaryClauses
  <2>4. AllClauses(e) = {}
    BY <2>2, <2>3 DEF AllClauses
  <2> QED BY <1>1, <2>1, <2>4
<1>4. ASSUME NEW w \in Workers PROVE FixedOf(ad[w].model) = {} /\ ad[w].result = 0
  <2>1. ad[w].pc = "allocated" /\ ad[w].result = 0
    <3>1. PICK phases : ad = [u \in Workers |->
                                [InitSolver(phases[u]) EXCEPT !.pc = "allocated"]]
      BY <1>1
    <3>2. ad[w] = [InitSolver(phases[w]) EXCEPT !.pc = "allocated"]
      BY <3>1
    <3> QED BY <3>2 DEF InitSolver
  <2> QED BY <2>1, InitUntouched DEF Untouched
<1>5. /\ FixedNow = [w \in Workers |-> {}] /\ AnswerNow = [w \in Workers |-> 0]
      /\ ShownNow = [w \in Workers |-> {}]
  BY <1>4 DEF FixedNow, AnswerNow, ShownNow, ShownOf
<1> QED BY <1>2, <1>3, <1>5, PromiseTerms, PromiseVars, Zenon DEF Promise!Init, AnswerNow

\* The program is a search: as long as the workers make the same one, every step of it is
\* a step that module Search allows, or none at all to those who only look at the clauses,
\* the literals fixed and the answers.
THEOREM PromiseIsKept ==
    ASSUME NoEmptyClause
    PROVE  SafeSpec /\ []SameSearch => KeepsPromise
<1>1. Init => Promise!Init /\ formula \in Formulas /\ Untouched
  BY PromiseInit, InitUntouched DEF Init
<1>2. IInv /\ IInv' /\ Untouched /\ formula \in Formulas /\ [Next]_vars
         => (Untouched /\ formula \in Formulas)'
  BY UntouchedStays, FormulaStays
<1>3. IInv /\ IInv' /\ PInv' /\ SameSearch /\ Untouched /\ formula \in Formulas /\ [Next]_vars
         => [Promise!Next]_(Promise!vars)
  <2> SUFFICES ASSUME IInv, IInv', PInv', SameSearch, Untouched, formula \in Formulas,
                      [Next]_vars
               PROVE  [Promise!Next]_(Promise!vars)
    OBVIOUS
  <2>1. PromiseStep
    BY StepIsPromised
  <2> QED BY <2>1, PromiseStepIs
<1> QED BY <1>1, <1>2, <1>3, PropagationInvariant, PTL
        DEF SafeSpec, KeepsPromise, Promise!Spec

\* A solver with one worker keeps the promise without a condition on its search.
THEOREM LoneWorkerKeepsPromise ==
    ASSUME NEW x, Workers = {x}, NoEmptyClause
    PROVE  SafeSpec => KeepsPromise
<1>1. SafeSpec => []SameSearch
  BY LoneWorkerAgrees
<1>2. SafeSpec /\ []SameSearch => KeepsPromise
  BY PromiseIsKept
<1> QED BY <1>1, <1>2, PTL

=============================================================================
