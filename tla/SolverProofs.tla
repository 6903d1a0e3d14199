---------------------------- MODULE SolverProofs ----------------------------
(***************************************************************************)
(* The solver is sound: the invariant of module SolverInvariant, kept by   *)
(* every step of main and of every worker while the workers make the same  *)
(* search, and what follows from it.  FInv, the invariant of the flags, is *)
(* proved beside it.                                                       *)
(***************************************************************************)
EXTENDS WorkerProofs

(* azuDICI_lemma_shortening *)

LEMMA ShortenStep ==
    ASSUME NEW a, NEW b, NEW d, NEW P, WorkerInv(a, d, P), DbInv(d, P),
           a.pc \in {"lemma", "shorten"}, b.pc = "shorten",
           Differs(a, b, {"pc", "lemma", "lemmaToLearn", "marks"}),
           b.lemma \in Clause, b.lemmaToLearn \in Clause, b.marks \in SUBSET Vars,
           Shortening(b, P)
    PROVE  WorkerInv(b, d, P)
<1>1. Differs(a, b, Analysed)
  BY DEF Differs, Analysed
<1>2. /\ b.model = a.model /\ b.heap = a.heap /\ b.thcdb = a.thcdb
      /\ b.clause = a.clause /\ b.poppedLit = a.poppedLit /\ b.pending = a.pending
      /\ b.uip = a.uip /\ b.sinceRestart = a.sinceRestart
      /\ b.sinceCleanup = a.sinceCleanup
  BY DEF Differs, Fields
<1>3. /\ b.model \in ModelType /\ b.heap \in SUBSET Vars /\ b.thcdb \in Seq(ThClause)
      /\ ModelInv(b.model, a.thcdb, d, P) /\ Free(b.model) \subseteq b.heap
      /\ SameClauses(a.thcdb, b.thcdb) /\ Typed(a)
  BY <1>2, WorkerParts, SameClausesSame
<1>4. /\ b.clause \in Clause /\ b.poppedLit \in Lits \cup {ZeroLit} /\ b.pending \in Nat
      /\ b.uip \in Lits \cup {ZeroLit}
      /\ b.sinceRestart \in Nat /\ b.sinceCleanup \in Nat
  BY <1>2, <1>3 DEF Typed
<1>5. Marking(b, P) /\ Popped(b, P) /\ Lemma(b, P) /\ Unmarked(b)
  BY DEF Marking, Popped, Lemma, Unmarked
<1> QED BY <1>1, <1>3, <1>4, <1>5, AnalysisStep

LEMMA StartShorteningIInv ==
    ASSUME IInv, NEW w \in Workers, StartShortening(w)
    PROVE  IInv'
<1>1. PICK a, marks2, b :
         /\ a = ad[w]
         /\ marks2 = a.marks \cup {var(l) : l \in a.lemma \cup {a.uip}}
         /\ b = [a EXCEPT !.pc = "shorten", !.lemmaToLearn = {}, !.marks = marks2]
  OBVIOUS
<1>2. /\ WorkerInv(a, db, Read) /\ DbInv(db, Read) /\ Typed(a) /\ a.pc = "lemma"
      /\ Local(w, b)
  <2>1. Local(w, [a EXCEPT !.pc = "shorten", !.lemmaToLearn = {},
                           !.marks = @ \cup {var(l) : l \in a.lemma \cup {a.uip}}])
    BY <1>1 DEF StartShortening
  <2>2. WorkerInv(a, db, Read) /\ DbInv(db, Read) /\ Typed(a) /\ a.pc = "lemma"
    BY <1>1 DEF IInv, StartShortening, At, WorkerInv
  <2> QED BY <1>1, <2>1, <2>2
<1>3. Differs(a, b, {"pc", "lemma", "lemmaToLearn", "marks"})
  <2>1. DOMAIN b = Fields /\ b = [f \in Fields |-> b[f]]
    BY <1>1, <1>2 DEF Typed
  <2>2. \A f \in Fields \ {"pc", "lemmaToLearn", "marks"} : b[f] = a[f]
    BY <1>1, <1>2 DEF Typed
  <2> QED BY <2>1, <2>2 DEF Differs
<1>4. /\ b.pc = "shorten" /\ b.lemmaToLearn = {} /\ b.marks = marks2
      /\ b.lemma = a.lemma /\ b.uip = a.uip /\ b.model = a.model
  BY <1>1, <1>2 DEF Typed, Fields
<1>5. /\ a.model.decisionLvl > 0 /\ UipGood(a) /\ AllLower(a.model, a.lemma)
      /\ Follows(Read, a.lemma \cup {a.uip}) /\ a.marks = {}
  BY <1>2, WorkerParts DEF Place, Lemma, Unmarked
<1>6. b.lemma \in Clause /\ b.lemmaToLearn \in Clause
  BY <1>2, <1>4 DEF Typed, Clause
<1>7. b.marks \in SUBSET Vars
  <2>1. a.uip \in Lits /\ a.lemma \subseteq Lits
    BY <1>4, <1>5, <1>6 DEF UipGood, Clause
  <2> QED BY <1>1, <1>4, <1>5, <2>1, LitFacts
<1>8. Shortening(b, Read)
  <2>1. b.lemma \cup b.lemmaToLearn = a.lemma /\ b.lemma \cap b.lemmaToLearn = {}
    BY <1>4
  <2>2. b.marks = {var(l) : l \in a.lemma \cup {a.uip}}
    BY <1>1, <1>4, <1>5
  <2> QED BY <1>4, <1>5, <2>1, <2>2 DEF Shortening, UipGood
<1>9. WorkerInv(b, db, Read)
  BY <1>2, <1>3, <1>4, <1>6, <1>7, <1>8, ShortenStep
<1> QED BY <1>1, <1>2, <1>4, <1>9, LocalKeeps

\* The unmarked variables of the reason of a true literal.
Behind(th, d, m, marks, k) ==
    {var(j) : j \in ReasonClause(th, d, ReasonOfLit(m, k), k)} \ marks

\* S is closed under them, has nothing at level 0 and no decision.
ClosedBehind(th, d, m, marks, l, S) ==
    /\ IsTrue(m, -l) /\ ~LitIsDecision(m, -l)
    /\ Behind(th, d, m, marks, -l) \subseteq S
    /\ \A k \in Lits : Implied(m, k) /\ var(k) \in S => Behind(th, d, m, marks, k) \subseteq S
    /\ \A k \in Lits : IsTrue(m, k) /\ var(k) \in S => Implied(m, k)

MarksOf(lits, uip) == {var(k) : k \in lits \cup {uip}}

\* A lemma follows without a literal that a closed set of implied ones stands behind.
LEMMA RedundantDropped ==
    ASSUME NEW th \in Seq(ThClause), NEW d \in ClauseDBType, NEW P,
           NEW m \in ModelType, TrailConsistent(m), ReasonsInv(m, th, d, P),
           NEW lits \in Clause, NEW uip \in Lits, IsUndef(m, uip), AllLower(m, lits),
           Follows(P, lits \cup {uip}), NEW marks, marks = MarksOf(lits, uip),
           NEW l \in lits, NEW S, ClosedBehind(th, d, m, marks, l, S)
    PROVE  Follows(P, (lits \ {l}) \cup {uip})
<1> SUFFICES ASSUME NEW A \in ModelsOf(P), A \cap ((lits \ {l}) \cup {uip}) = {}
      PROVE  FALSE
  BY DEF Follows, Satisfies
<1>1. l \in Lits /\ -l \in Lits /\ IsTrue(m, -l) /\ -(-l) = l
  <2>1. l \in Lits /\ IsFalse(m, l)
    BY DEF Clause, AllLower
  <2> QED BY <2>1, FalseLits, LitFacts
<1>2. l \in A
  BY DEF Follows, Satisfies
<1> DEFINE Lied == {k \in Lits : /\ Implied(m, k) /\ k \notin A
                                 /\ Behind(th, d, m, marks, k) \subseteq S}
<1>3. -l \in Lied
  <2>1. -l \notin A
    BY <1>1, <1>2, ModelLits
  <2>2. LitDl(m, -l) > 0
    BY <1>1, FalseLits DEF AllLower
  <2> QED BY <1>1, <2>1, <2>2 DEF ClosedBehind, Implied
<1>4. PICK k \in Lied : \A j \in Lied : LitHeight(m, k) <= LitHeight(m, j)
  <2> DEFINE H == {LitHeight(m, j) : j \in Lied}
  <2>1. H \in SUBSET Nat /\ H # {}
    BY <1>3, TrueLits DEF Implied
  <2>2. PICK h \in H : \A i \in H : h <= i
    BY <2>1, HasSmallest
  <2> QED BY <2>2
<1>5. PICK r \in Reason : r = ReasonOfLit(m, k)
  BY LitFacts DEF ModelType, ReasonOfLit
<1>6. /\ Backs(m, th, d, P, r, k)
      /\ \A j \in ReasonClause(th, d, r, k) \ {k} : LitHeight(m, j) < LitHeight(m, k)
  BY <1>5 DEF ReasonsInv
<1>7. PICK j \in ReasonClause(th, d, r, k) : j \in A
  BY <1>6 DEF Backs, Follows, Satisfies
<1>8. /\ j \in Lits /\ IsFalse(m, j) /\ LitHeight(m, j) < LitHeight(m, k)
      /\ j # k
  BY <1>6, <1>7, ReasonLits DEF Backs, Clause
<1>9. /\ -j \in Lits /\ IsTrue(m, -j) /\ -j \notin A /\ var(-j) = var(j)
      /\ LitHeight(m, -j) = LitHeight(m, j) /\ LitHeight(m, j) \in Nat
  BY <1>7, <1>8, FalseLits, ModelLits
<1>10. -j \notin Lied
  <2>1. LitHeight(m, k) \in Nat
    BY TrueLits DEF Implied
  <2>2. ~(LitHeight(m, k) <= LitHeight(m, -j))
    BY <1>8, <1>9, <2>1
  <2> QED BY <1>4, <2>2
<1>11. CASE var(j) \in marks
  <2>1. PICK x \in lits \cup {uip} : var(x) = var(j)
    BY <1>11 DEF MarksOf
  <2>2. x # uip
    BY <1>8, <2>1, UndefVar, ValueOfLit
  <2>3. x \in Lits /\ IsFalse(m, x)
    BY <2>1, <2>2 DEF Clause, AllLower
  <2>4. x = j
    BY <1>8, <2>1, <2>3, FalseOfVar
  <2>5. j = l
    BY <1>7, <2>1, <2>2, <2>4
  <2> QED BY <1>3, <1>10, <2>5
<1>12. CASE var(j) \notin marks
  <2>1. var(j) \in Behind(th, d, m, marks, k)
    BY <1>5, <1>7, <1>12 DEF Behind
  <2>2. var(-j) \in S
    BY <1>9, <2>1
  <2>3. Implied(m, -j) /\ Behind(th, d, m, marks, -j) \subseteq S
    BY <1>9, <2>2 DEF ClosedBehind
  <2> QED BY <1>9, <1>10, <2>3
<1> QED BY <1>11, <1>12

LEMMA HighestIs ==
    ASSUME NEW m \in ModelType, TrailConsistent(m),
           NEW c \in Clause, c # {}, AllFalse(m, c), NEW l, l = Highest(m, c)
    PROVE  l \in c /\ \A k \in c : LitHeight(m, k) <= LitHeight(m, l)
<1>1. ASSUME NEW k \in c
      PROVE  LitHeight(m, k) \in Nat /\ LitHeight(m, k) < Len(m.stack)
  BY FalseLits DEF Clause, AllFalse
<1>2. PICK n : n = Len(m.stack)
  OBVIOUS
<1>3. n \in Nat
  BY <1>2 DEF ModelType
<1> DEFINE H == {LitHeight(m, k) : k \in c}
<1>4. H \in SUBSET (0..n) /\ H # {}
  BY <1>1, <1>2, <1>3
<1>5. PICK h \in H : \A i \in H : i <= h
  BY <1>3, <1>4, HasLargest
<1>6. \E k \in c : \A j \in c : LitHeight(m, j) <= LitHeight(m, k)
  BY <1>5
<1> QED BY <1>6 DEF Highest

LEMMA LowestIs ==
    ASSUME NEW m \in ModelType, TrailConsistent(m),
           NEW c \in Clause, c # {}, AllFalse(m, c), NEW l, l = Lowest(m, c)
    PROVE  l \in c
<1>1. ASSUME NEW k \in c PROVE LitHeight(m, k) \in Nat
  BY FalseLits DEF Clause, AllFalse
<1> DEFINE H == {LitHeight(m, k) : k \in c}
<1>2. H \in SUBSET Nat /\ H # {}
  BY <1>1
<1>3. PICK h \in H : \A i \in H : h <= i
  BY <1>2, HasSmallest
<1>4. \A i \in H : i >= h
  BY <1>1, <1>2, <1>3
<1>5. \E k \in c : \A j \in c : LitHeight(m, j) >= LitHeight(m, k)
  BY <1>4
<1> QED BY <1>5 DEF Lowest

\* What the code finds behind a variable.
LEMMA BehindIs ==
    ASSUME NEW a, a.model \in ModelType, TrailConsistent(a.model), NEW P,
           ReasonsInv(a.model, a.thcdb, db, P), NEW k \in Lits, Implied(a.model, k)
    PROVE  UnmarkedBehind(a, var(k)) = Behind(a.thcdb, db, a.model, a.marks, k)
<1>1. PICK r \in Reason : r = ReasonOfLit(a.model, k)
  BY LitFacts DEF ModelType, ReasonOfLit
<1>2. Refers(a.thcdb, db, r)
  BY <1>1 DEF ReasonsInv, Backs
<1>3. r.size > 0
  BY <1>1, <1>2 DEF Refers, Reason
<1>4. ClauseOfReason(a, r, k) = ReasonClause(a.thcdb, db, r, k)
  BY <1>1, <1>3, ClauseOfReasonIs
<1>5. (IF IsTrue(a.model, var(k)) THEN var(k) ELSE -var(k)) = k
  <2>1. IsTrue(a.model, k) /\ ~IsTrue(a.model, -k)
    BY TrueLits, LitFacts, ValueOfLit DEF Implied
  <2>2. CASE var(k) = k
    BY <2>1, <2>2
  <2>3. CASE var(k) # k
    <3>1. var(k) = -k /\ -var(k) = k
      BY <2>3, LitFacts DEF var
    <3> QED BY <2>1, <3>1
  <2> QED BY <2>2, <2>3
<1>6. UnmarkedBehind(a, var(k)) = {var(j) : j \in ClauseOfReason(a, r, k)} \ a.marks
  BY <1>1, <1>5 DEF UnmarkedBehind, ReasonOfLit
<1> QED BY <1>1, <1>4, <1>6 DEF Behind

LEMMA RedundantIsClosed ==
    ASSUME NEW a, a.model \in ModelType, TrailConsistent(a.model), NEW P,
           ReasonsInv(a.model, a.thcdb, db, P),
           NEW l \in Lits, IsFalse(a.model, l), LitDl(a.model, l) > 0,
           NEW low \in Nat, low > 0, Redundant(a, l, low)
    PROVE  \E S : ClosedBehind(a.thcdb, db, a.model, a.marks, l, S)
<1>1. PICK S \in SUBSET Vars :
         /\ UnmarkedBehind(a, var(l)) \subseteq S
         /\ \A v \in S : /\ a.model.level[v] >= low
                         /\ ~LitIsDecision(a.model, v)
                         /\ UnmarkedBehind(a, v) \subseteq S
  BY DEF Redundant
<1>2. /\ -l \in Lits /\ IsTrue(a.model, -l) /\ var(-l) = var(l)
      /\ LitDl(a.model, -l) = LitDl(a.model, l)
  BY FalseLits
<1>3. ~LitIsDecision(a.model, -l)
  BY <1>2 DEF Redundant, LitIsDecision, ReasonOfLit
<1>4. Implied(a.model, -l)
  BY <1>2, <1>3 DEF Implied
<1>5. Behind(a.thcdb, db, a.model, a.marks, -l) \subseteq S
  BY <1>1, <1>2, <1>4, BehindIs
<1>6. ASSUME NEW k \in Lits, IsTrue(a.model, k), var(k) \in S
      PROVE  Implied(a.model, k)
  <2>1. var(k) \in Vars /\ var(var(k)) = var(k)
    BY <1>6, LitFacts, NumVarsAssumption DEF Vars, var
  <2>2. a.model.level[var(k)] >= low /\ ~LitIsDecision(a.model, var(k))
    BY <1>1, <1>6
  <2>3. LitDl(a.model, k) > 0
    BY <2>1, <2>2 DEF LitDl, ModelType
  <2>4. ~LitIsDecision(a.model, k)
    BY <2>1, <2>2 DEF LitIsDecision, ReasonOfLit, LitDl
  <2> QED BY <1>6, <2>3, <2>4 DEF Implied
<1>7. ASSUME NEW k \in Lits, Implied(a.model, k), var(k) \in S
      PROVE  Behind(a.thcdb, db, a.model, a.marks, k) \subseteq S
  BY <1>1, <1>7, BehindIs
<1> QED BY <1>2, <1>3, <1>5, <1>6, <1>7 DEF ClosedBehind

\* The literal's mark goes with it, and no other.
LEMMA MarkRemoved ==
    ASSUME NEW m \in ModelType, TrailConsistent(m),
           NEW lits \in Clause, NEW uip \in Lits, IsUndef(m, uip), AllFalse(m, lits),
           NEW l \in lits
    PROVE  MarksOf(lits, uip) \ {var(l)} = MarksOf(lits \ {l}, uip)
<1>1. ASSUME NEW k \in lits \cup {uip}
      PROVE  var(k) = var(l) <=> k = l
  <2>1. l \in Lits /\ IsFalse(m, l) /\ k \in Lits
    BY DEF Clause, AllFalse
  <2>2. CASE k = uip
    BY <2>1, <2>2, UndefVar, ValueOfLit
  <2>3. CASE k # uip
    <3>1. IsFalse(m, k)
      BY <2>3 DEF AllFalse
    <3> QED BY <2>1, <3>1, FalseOfVar
  <2> QED BY <2>2, <2>3
<1>2. l # uip
  BY ValueOfLit DEF AllFalse
<1>3. (lits \ {l}) \cup {uip} = (lits \cup {uip}) \ {l}
  BY <1>2
<1> QED BY <1>1, <1>3 DEF MarksOf

LEMMA ShortenLiteralIInv == ASSUME IInv, NEW w \in Workers, ShortenLiteral(w) PROVE IInv'
<1>1. PICK a, l, low, lits : /\ a = ad[w] /\ l = Highest(a.model, a.lemma)
                             /\ low = LitDl(a.model, Lowest(a.model, a.lemma))
                             /\ lits = a.lemma \cup a.lemmaToLearn
  OBVIOUS
<1>2. /\ WorkerInv(a, db, Read) /\ DbInv(db, Read) /\ Typed(a) /\ a.pc = "shorten"
      /\ a.lemma # {} /\ db \in ClauseDBType
  BY <1>1 DEF IInv, ShortenLiteral, At, WorkerInv, DbInv
<1>3. /\ a.model \in ModelType /\ TrailConsistent(a.model)
      /\ ReasonsInv(a.model, a.thcdb, db, Read) /\ a.thcdb \in Seq(ThClause)
  BY <1>2, WorkerParts
<1>4. /\ a.lemma \in Clause /\ a.lemmaToLearn \in Clause /\ a.marks \in SUBSET Vars
      /\ lits \in Clause
  BY <1>1, <1>2 DEF Typed, Clause
<1>5. /\ a.model.decisionLvl > 0 /\ UipGood(a) /\ AllLower(a.model, lits)
      /\ a.lemma \cap a.lemmaToLearn = {}
      /\ a.marks = MarksOf(lits, a.uip) /\ Follows(Read, lits \cup {a.uip})
  BY <1>1, <1>2, WorkerParts DEF Place, Shortening, MarksOf
<1>6. AllFalse(a.model, a.lemma) /\ AllFalse(a.model, lits)
  BY <1>1, <1>5 DEF AllFalse, AllLower
<1>7. l \in a.lemma /\ l \in lits
  BY <1>1, <1>2, <1>3, <1>4, <1>6, HighestIs
<1>8. CASE Redundant(a, l, low) /\ Local(w, [a EXCEPT !.lemma = @ \ {l},
                                                      !.marks = @ \ {var(l)}])
  <2>1. PICK b : b = [a EXCEPT !.lemma = @ \ {l}, !.marks = @ \ {var(l)}]
    OBVIOUS
  <2>2. Differs(a, b, {"pc", "lemma", "lemmaToLearn", "marks"})
    <3>1. DOMAIN b = Fields /\ b = [f \in Fields |-> b[f]]
      BY <1>2, <2>1 DEF Typed
    <3>2. \A f \in Fields \ {"lemma", "marks"} : b[f] = a[f]
      BY <1>2, <2>1 DEF Typed
    <3> QED BY <3>1, <3>2 DEF Differs
  <2>3. /\ b.pc = "shorten" /\ b.lemma = a.lemma \ {l}
        /\ b.marks = a.marks \ {var(l)} /\ b.lemmaToLearn = a.lemmaToLearn
        /\ b.uip = a.uip /\ b.model = a.model
    BY <1>2, <2>1 DEF Typed, Fields
  <2>4. b.lemma \cup b.lemmaToLearn = lits \ {l}
    BY <1>1, <1>5, <1>7, <2>3
  <2>5. Follows(Read, (lits \ {l}) \cup {a.uip})
    <3>1. l \in Lits /\ IsFalse(a.model, l) /\ LitDl(a.model, l) > 0
      BY <1>4, <1>5, <1>7 DEF AllLower, Clause
    <3>2. low \in Nat /\ low > 0
      <4>1. PICK x : x = Lowest(a.model, a.lemma)
        OBVIOUS
      <4>2. x \in lits
        BY <1>1, <1>2, <1>3, <1>4, <1>6, <4>1, LowestIs
      <4>3. x \in Lits /\ IsFalse(a.model, x) /\ LitDl(a.model, x) > 0
        BY <1>4, <1>5, <4>2 DEF AllLower, Clause
      <4> QED BY <1>1, <1>3, <4>1, <4>3, FalseLits
    <3>3. PICK S : ClosedBehind(a.thcdb, db, a.model, a.marks, l, S)
      BY <1>3, <1>8, <3>1, <3>2, RedundantIsClosed
    <3>4. PICK th, d, P, m, uip, marks :
             /\ th = a.thcdb /\ d = db /\ P = Read /\ m = a.model
             /\ uip = a.uip /\ marks = a.marks
      OBVIOUS
    <3>5. /\ th \in Seq(ThClause) /\ d \in ClauseDBType /\ m \in ModelType
          /\ TrailConsistent(m) /\ ReasonsInv(m, th, d, P)
          /\ uip \in Lits /\ IsUndef(m, uip) /\ AllLower(m, lits)
          /\ Follows(P, lits \cup {uip}) /\ marks = MarksOf(lits, uip)
          /\ ClosedBehind(th, d, m, marks, l, S)
      BY <1>2, <1>3, <1>5, <3>3, <3>4 DEF UipGood
    <3>6. Follows(P, (lits \ {l}) \cup {uip})
      BY <1>4, <1>7, <3>5, RedundantDropped
    <3> QED BY <3>4, <3>6
  <2>6. b.marks = MarksOf(lits \ {l}, a.uip)
    BY <1>3, <1>4, <1>5, <1>6, <1>7, <2>3, MarkRemoved DEF UipGood
  <2>7. Shortening(b, Read)
    <3>1. AllLower(b.model, lits \ {l}) /\ b.lemma \cap b.lemmaToLearn = {}
      BY <1>5, <2>3 DEF AllLower
    <3>2. UipGood(b)
      BY <1>5, <2>3 DEF UipGood
    <3>3. b.marks = {var(k) : k \in (lits \ {l}) \cup {b.uip}}
      BY <2>3, <2>6 DEF MarksOf
    <3> QED BY <1>5, <2>3, <2>4, <2>5, <3>1, <3>2, <3>3 DEF Shortening
  <2>8. b.lemma \in Clause /\ b.lemmaToLearn \in Clause /\ b.marks \in SUBSET Vars
    BY <1>4, <2>3 DEF Clause
  <2>9. WorkerInv(b, db, Read)
    BY <1>2, <2>2, <2>3, <2>7, <2>8, ShortenStep
  <2> QED BY <1>1, <1>2, <1>8, <2>1, <2>3, <2>9, LocalKeeps
<1>9. CASE Local(w, [a EXCEPT !.lemma = @ \ {l}, !.lemmaToLearn = @ \cup {l}])
  <2>1. PICK b : b = [a EXCEPT !.lemma = @ \ {l}, !.lemmaToLearn = @ \cup {l}]
    OBVIOUS
  <2>2. Differs(a, b, {"pc", "lemma", "lemmaToLearn", "marks"})
    <3>1. DOMAIN b = Fields /\ b = [f \in Fields |-> b[f]]
      BY <1>2, <2>1 DEF Typed
    <3>2. \A f \in Fields \ {"lemma", "lemmaToLearn"} : b[f] = a[f]
      BY <1>2, <2>1 DEF Typed
    <3> QED BY <3>1, <3>2 DEF Differs
  <2>3. /\ b.pc = "shorten" /\ b.lemma = a.lemma \ {l}
        /\ b.marks = a.marks /\ b.lemmaToLearn = a.lemmaToLearn \cup {l}
        /\ b.uip = a.uip /\ b.model = a.model
    BY <1>2, <2>1 DEF Typed, Fields
  <2>4. b.lemma \cup b.lemmaToLearn = lits /\ b.lemma \cap b.lemmaToLearn = {}
    BY <1>1, <1>5, <1>7, <2>3
  <2>5. Shortening(b, Read)
    <3>1. UipGood(b)
      BY <1>5, <2>3 DEF UipGood
    <3>2. b.marks = {var(k) : k \in lits \cup {b.uip}}
      BY <1>5, <2>3 DEF MarksOf
    <3> QED BY <1>5, <2>3, <2>4, <3>1, <3>2 DEF Shortening
  <2>6. b.lemma \in Clause /\ b.lemmaToLearn \in Clause /\ b.marks \in SUBSET Vars
    BY <1>4, <1>7, <2>3 DEF Clause
  <2>7. WorkerInv(b, db, Read)
    BY <1>2, <2>2, <2>3, <2>5, <2>6, ShortenStep
  <2> QED BY <1>1, <1>2, <1>9, <2>1, <2>3, <2>7, LocalKeeps
<1>10. \/ Redundant(a, l, low) /\ Local(w, [a EXCEPT !.lemma = @ \ {l},
                                                     !.marks = @ \ {var(l)}])
       \/ Local(w, [a EXCEPT !.lemma = @ \ {l}, !.lemmaToLearn = @ \cup {l}])
  BY <1>1 DEF ShortenLiteral
<1> QED BY <1>8, <1>9, <1>10

LEMMA AnalysisIInv == ASSUME IInv, NEW w \in Workers, Analysis(w) PROVE IInv'
BY ConflictAtLevelZeroIInv, StartAnalysisIInv, MarkClauseIInv, PopLiteralIInv,
   StartShorteningIInv, ShortenLiteralIInv DEF Analysis

-----------------------------------------------------------------------------
(* azuDICI_learn_lemma *)

\* What AfterLearning leaves to the backjump.
Jumps(a, b, r) ==
    /\ b.pc = "backjump" /\ b.rUIP = r /\ b.lemmaToLearn = {}
    /\ b.marks = a.marks \ {var(l) : l \in Learned(a)}
    /\ b.dlToBackjump = IF a.lemmaToLearn = {} THEN 0
                        ELSE LitDl(a.model, Highest(a.model, a.lemmaToLearn))

Jumped == {"pc", "rUIP", "marks", "lemmaToLearn", "dlToBackjump"}

LEMMA AfterLearningFields ==
    ASSUME NEW a, NEW c, DOMAIN c = Fields, c = [f \in Fields |-> c[f]],
           c.marks = a.marks, c.lemmaToLearn = a.lemmaToLearn, c.uip = a.uip,
           c.model = a.model, NEW r, NEW b, b = AfterLearning(c, r)
    PROVE  Jumps(a, b, r) /\ Differs(c, b, Jumped)
<1>1. DOMAIN b = Fields /\ b = [f \in Fields |-> b[f]]
  BY DEF AfterLearning
<1>2. \A f \in Fields \ Jumped : b[f] = c[f]
  BY DEF AfterLearning, Jumped
<1>3. Learned(c) = Learned(a)
  BY DEF Learned
<1>4. /\ b.pc = "backjump" /\ b.rUIP = r /\ b.lemmaToLearn = {}
      /\ b.marks = c.marks \ {var(l) : l \in Learned(c)}
      /\ b.dlToBackjump = IF c.lemmaToLearn = {} THEN 0
                          ELSE LitDl(c.model, Highest(c.model, c.lemmaToLearn))
  BY DEF AfterLearning, Fields
<1> QED BY <1>1, <1>2, <1>3, <1>4 DEF Jumps, Differs

IsTarget(m, c, dl) == dl = IF c = {} THEN 0 ELSE LitDl(m, Highest(m, c))

\* The level jumped to is the highest of the rest of the lemma.
LEMMA JumpLevel ==
    ASSUME NEW m \in ModelType, TrailConsistent(m), m.decisionLvl > 0,
           NEW c \in Clause, AllLower(m, c), NEW dl, IsTarget(m, c, dl)
    PROVE  /\ dl \in Nat /\ dl < m.decisionLvl
           /\ \A l \in c : LitDl(m, l) <= dl
           /\ c # {} => \E l \in c : LitDl(m, l) = dl
<1>1. CASE c = {}
  BY <1>1 DEF ModelType, IsTarget
<1>2. CASE c # {}
  <2>1. PICK h : h = Highest(m, c)
    OBVIOUS
  <2>2. AllFalse(m, c)
    BY DEF AllFalse, AllLower
  <2>3. h \in c /\ \A l \in c : LitHeight(m, l) <= LitHeight(m, h)
    BY <1>2, <2>1, <2>2, HighestIs
  <2>4. ASSUME NEW l \in c
        PROVE  /\ l \in Lits /\ -l \in Lits /\ IsTrue(m, -l)
               /\ LitHeight(m, -l) = LitHeight(m, l) /\ LitDl(m, -l) = LitDl(m, l)
               /\ LitDl(m, l) \in Nat
    BY <2>2, FalseLits DEF Clause, AllFalse
  <2>5. ASSUME NEW l \in c PROVE LitDl(m, l) <= LitDl(m, h)
    <3>1. LitHeight(m, -l) <= LitHeight(m, -h)
      BY <2>3, <2>4
    <3>2. LitDl(m, -l) <= LitDl(m, -h)
      BY <2>3, <2>4, <3>1, LevelsRise
    <3> QED BY <2>3, <2>4, <3>2
  <2> QED BY <1>2, <2>1, <2>3, <2>4, <2>5 DEF AllLower, IsTarget
<1> QED BY <1>1, <1>2

\* The lemma is in place, as the reason of the uip.
LEMMA LearnedKeeps ==
    ASSUME NEW a, NEW b, NEW e, NEW P, WorkerInv(a, e, P), DbInv(e, P),
           a.pc = "shorten", a.lemma = {},
           Differs(a, b, Jumped \cup {"lastUnit", "lastBins", "lastTernary", "lastNary",
                                      "thcdb", "watches"}),
           NEW r \in Reason, Jumps(a, b, r),
           b.lastUnit \in Nat, b.lastBins \in [Lits -> Nat], b.lastTernary \in Nat,
           b.lastNary \in Nat, Counted(b, e),
           b.thcdb \in Seq(ThClause), b.watches \in [Lits -> Seq(Nat)],
           PlacesKept(a.thcdb, b.thcdb), ThHeld(b, e), Linked(b.thcdb, b.watches),
           \/ r = NoReason /\ a.lemmaToLearn = {}
           \/ /\ Refers(b.thcdb, e, r) /\ a.lemmaToLearn # {}
              /\ ReasonClause(b.thcdb, e, r, a.uip) = Learned(a)
    PROVE  WorkerInv(b, e, P)
<1>1. /\ b.model = a.model /\ b.heap = a.heap /\ b.clause = a.clause
      /\ b.poppedLit = a.poppedLit /\ b.pending = a.pending /\ b.lemma = a.lemma
      /\ b.uip = a.uip /\ b.cursor = a.cursor /\ b.cleaning = a.cleaning
      /\ b.result = a.result /\ b.sinceRestart = a.sinceRestart
      /\ b.sinceCleanup = a.sinceCleanup /\ b.cleanupLimit = a.cleanupLimit
      /\ b.decisions = a.decisions
  BY DEF Differs, Fields, Jumped
<1>2. Typed(a) /\ Core(a, e, P) /\ Place(a, e, P) /\ e \in ClauseDBType
  BY DEF WorkerInv, DbInv
<1>3. /\ a.model \in ModelType /\ TrailConsistent(a.model)
      /\ ModelInv(a.model, a.thcdb, e, P) /\ Free(a.model) \subseteq a.heap
  BY WorkerParts
<1>4. /\ a.model.decisionLvl > 0 /\ UipGood(a) /\ AllLower(a.model, a.lemmaToLearn)
      /\ a.marks = {var(l) : l \in Learned(a)} /\ Follows(P, Learned(a))
  <2>1. a.lemma \cup a.lemmaToLearn = a.lemmaToLearn
    OBVIOUS
  <2> QED BY <1>2, <2>1 DEF Place, Shortening, Learned
<1>5. PICK dl : dl = b.dlToBackjump
  OBVIOUS
<1>6. /\ dl \in Nat /\ dl < a.model.decisionLvl
      /\ \A l \in a.lemmaToLearn : LitDl(a.model, l) <= dl
      /\ a.lemmaToLearn # {} => \E l \in a.lemmaToLearn : LitDl(a.model, l) = dl
  <2>1. a.lemmaToLearn \in Clause
    BY <1>2 DEF Typed
  <2>2. dl = IF a.lemmaToLearn = {} THEN 0
             ELSE LitDl(a.model, Highest(a.model, a.lemmaToLearn))
    BY <1>5 DEF Jumps
  <2>3. PICK m, c : m = a.model /\ c = a.lemmaToLearn
    OBVIOUS
  <2>4. IsTarget(m, c, dl)
    BY <2>2, <2>3 DEF IsTarget
  <2>5. /\ m \in ModelType /\ TrailConsistent(m) /\ m.decisionLvl > 0
        /\ c \in Clause /\ AllLower(m, c)
    BY <1>3, <1>4, <2>1, <2>3
  <2> QED BY <2>3, <2>4, <2>5, JumpLevel
<1>7. b.pc = "backjump" /\ b.rUIP = r /\ b.lemmaToLearn = {} /\ b.marks = {}
  BY <1>4 DEF Jumps
<1>8. Typed(b)
  <2>1. b.pc \in Locations /\ b.lemmaToLearn \in Clause /\ b.marks \in SUBSET Vars
    BY <1>7 DEF Locations, Clause
  <2> QED BY <1>1, <1>2, <1>5, <1>6, <1>7, <2>1 DEF Typed, Differs
<1>9. Core(b, e, P)
  <2>1. ModelInv(b.model, b.thcdb, e, P)
    BY <1>1, <1>2, <1>3, ExtendsSame, ModelInvStays
  <2> QED BY <1>1, <1>3, <1>7, <2>1 DEF Core, WatchInv
<1>10. CursorInv(b)
  <2>1. PoppingNow(b)
    BY <1>1, <1>3, <1>5, <1>6, <1>7 DEF PoppingNow, Target, ModelType
  <2> QED BY <1>7, <2>1 DEF CursorInv
<1>11. Backjumping(b, e, P)
  <2>1. UipGood(b)
    BY <1>1, <1>4 DEF UipGood
  <2>2. b.dlToBackjump <= b.model.decisionLvl
    BY <1>1, <1>3, <1>5, <1>6 DEF ModelType
  <2>3. CASE r = NoReason /\ a.lemmaToLearn = {}
    <3>1. Learned(a) = {a.uip}
      BY <2>3 DEF Learned
    <3> QED BY <1>1, <1>4, <1>7, <2>1, <2>2, <2>3, <3>1 DEF Backjumping, Jumps
  <2>4. CASE /\ Refers(b.thcdb, e, r) /\ a.lemmaToLearn # {}
             /\ ReasonClause(b.thcdb, e, r, a.uip) = Learned(a)
    <3>1. a.uip \notin a.lemmaToLearn
      BY <1>2, <1>3, <1>4, ValueOfLit DEF AllLower, UipGood
    <3>2. ReasonClause(b.thcdb, e, r, b.uip) \ {b.uip} = a.lemmaToLearn
      BY <1>1, <2>4, <3>1 DEF Learned
    <3>3. Backs(b.model, b.thcdb, e, P, r, b.uip)
      BY <1>1, <1>4, <2>4, <3>2 DEF Backs, Learned, AllLower
    <3> QED BY <1>1, <1>5, <1>6, <1>7, <2>1, <2>2, <2>4, <3>2, <3>3 DEF Backjumping
  <2> QED BY <2>3, <2>4
<1>12. Visiting(b, e) /\ Conflict(b, P) /\ Marking(b, P) /\ Popped(b, P)
       /\ Lemma(b, P) /\ Shortening(b, P) /\ Unmarked(b)
  BY <1>7 DEF Visiting, Conflict, Marking, Popped, Lemma, Shortening, Unmarked
<1>13. Answered(b, P)
  BY <1>1, <1>2 DEF Place, Answered
<1> QED BY <1>8, <1>9, <1>10, <1>11, <1>12, <1>13 DEF WorkerInv, Place

\* A worker about to learn.
LEMMA LearnFacts ==
    ASSUME IInv, SameSearch, NEW w \in Workers, NEW a, a = ad[w], ReadyToLearn(w)
    PROVE  /\ WorkerInv(a, db, Read) /\ DbInv(db, Read) /\ Typed(a)
           /\ db \in ClauseDBType /\ a.pc = "shorten" /\ a.lemma = {}
           /\ a.uip \in Lits /\ a.lemmaToLearn \in Clause /\ a.uip \notin a.lemmaToLearn
           /\ Learned(a) \in Clause /\ Follows(Read, Learned(a)) /\ a.uip \in Learned(a)
           /\ Cardinality(a.lemmaToLearn) = Cardinality(Learned(a)) - 1
           /\ Cardinality(a.lemmaToLearn) \in Nat /\ Cardinality(Learned(a)) \in Nat
           /\ Counted(a, db) /\ SameAt(w, Learned(a))
           /\ a.lastUnit \in Nat /\ a.lastBins \in [Lits -> Nat]
           /\ a.lastTernary \in Nat /\ a.lastNary \in Nat
           /\ a.thcdb \in Seq(ThClause) /\ a.watches \in [Lits -> Seq(Nat)]
<1>1. /\ WorkerInv(a, db, Read) /\ DbInv(db, Read) /\ Typed(a)
      /\ db \in ClauseDBType /\ a.pc = "shorten" /\ a.lemma = {}
  BY DEF IInv, DbInv, WorkerInv, ReadyToLearn, At
<1>2. /\ a.uip \in Lits /\ IsUndef(a.model, a.uip) /\ a.lemmaToLearn \in Clause
      /\ AllLower(a.model, a.lemmaToLearn) /\ Follows(Read, Learned(a))
  <2>1. a.lemma \cup a.lemmaToLearn = a.lemmaToLearn
    BY <1>1
  <2>2. Shortening(a, Read) /\ a.lemmaToLearn \in Clause
    BY <1>1, WorkerParts DEF Place, Typed
  <2>3. UipGood(a)
    BY <1>1, <2>2 DEF Shortening
  <2> QED BY <1>1, <2>1, <2>2, <2>3 DEF Shortening, UipGood, Learned
<1>3. a.uip \notin a.lemmaToLearn
  BY <1>1, <1>2, WorkerParts, ValueOfLit DEF AllLower
<1>4. Learned(a) \in Clause /\ a.uip \in Learned(a)
  BY <1>2 DEF Learned, Clause
<1>5. /\ Cardinality(a.lemmaToLearn) = Cardinality(Learned(a)) - 1
      /\ Cardinality(a.lemmaToLearn) \in Nat /\ Cardinality(Learned(a)) \in Nat
  <2>1. Learned(a) \ {a.uip} = a.lemmaToLearn
    BY <1>3 DEF Learned
  <2>2. Cardinality(Learned(a) \ {a.uip}) = Cardinality(Learned(a)) - 1
    BY <1>4, ClauseSize
  <2> QED BY <1>2, <1>4, <2>1, <2>2, ClauseSize
<1>6. Counted(a, db)
  BY <1>1, WorkerParts DEF Core
<1>7. SameAt(w, Learned(a))
  BY DEF SameSearch
<1>8. /\ a.lastUnit \in Nat /\ a.lastBins \in [Lits -> Nat]
      /\ a.lastTernary \in Nat /\ a.lastNary \in Nat
      /\ a.thcdb \in Seq(ThClause) /\ a.watches \in [Lits -> Seq(Nat)]
  BY <1>1 DEF Typed
<1> QED BY <1>1, <1>2, <1>3, <1>4, <1>5, <1>6, <1>7, <1>8

\* A lemma of one, two or three literals leaves thcdb alone.
LEMMA LearnedShort ==
    ASSUME NEW a, NEW b, NEW e, NEW P, WorkerInv(a, e, P), DbInv(e, P),
           a.pc = "shorten", a.lemma = {},
           Differs(a, b, Jumped \cup {"lastUnit", "lastBins", "lastTernary"}),
           NEW r \in Reason, Jumps(a, b, r),
           b.lastUnit \in Nat, b.lastBins \in [Lits -> Nat], b.lastTernary \in Nat,
           Counted(b, e),
           \/ r = NoReason /\ a.lemmaToLearn = {}
           \/ /\ Refers(a.thcdb, e, r) /\ a.lemmaToLearn # {}
              /\ ReasonClause(a.thcdb, e, r, a.uip) = Learned(a)
    PROVE  WorkerInv(b, e, P)
<1>1. b.thcdb = a.thcdb /\ b.watches = a.watches /\ b.lastNary = a.lastNary
  BY DEF Differs, Fields, Jumped
<1>2. Typed(a) /\ ThHeld(a, e) /\ WatchInv(a)
  BY DEF WorkerInv, Core
<1>3. Differs(a, b, Jumped \cup {"lastUnit", "lastBins", "lastTernary", "lastNary",
                                 "thcdb", "watches"})
  BY DEF Differs
<1>4. /\ b.thcdb \in Seq(ThClause) /\ b.watches \in [Lits -> Seq(Nat)]
      /\ b.lastNary \in Nat
  BY <1>1, <1>2 DEF Typed
<1>5. PlacesKept(a.thcdb, b.thcdb)
  BY <1>1 DEF PlacesKept
<1>6. ThHeld(b, e) /\ Linked(b.thcdb, b.watches)
  BY <1>1, <1>2 DEF ThHeld, WatchInv
<1> QED BY <1>1, <1>3, <1>4, <1>5, <1>6, LearnedKeeps

LEMMA LearnUnitIInv ==
    ASSUME IInv, SameSearch, NEW w \in Workers, LearnUnit(w)
    PROVE  IInv' /\ Extends(db, db')
<1>1. PICK a, c, b, e :
         /\ a = ad[w] /\ c = [a EXCEPT !.lastUnit = @ + 1]
         /\ b = AfterLearning(c, NoReason)
         /\ e = InsertUnit(db, a.uip, FALSE, a.lastUnit)
  OBVIOUS
<1>2. ReadyToLearn(w) /\ a.lemmaToLearn = {} /\ Sharing(w, b, e)
  BY <1>1 DEF LearnUnit
<1>3. /\ WorkerInv(a, db, Read) /\ DbInv(db, Read) /\ Typed(a)
      /\ db \in ClauseDBType /\ a.pc = "shorten" /\ a.lemma = {}
      /\ a.uip \in Lits /\ Follows(Read, Learned(a)) /\ Counted(a, db)
      /\ a.lastUnit \in Nat /\ a.lastBins \in [Lits -> Nat] /\ a.lastTernary \in Nat
  BY <1>1, <1>2, LearnFacts
<1>4. Follows(Read, {a.uip}) /\ a.lastUnit <= Len(db.uDB)
  BY <1>2, <1>3 DEF Learned, Counted
<1>5. DbInv(e, Read) /\ Extends(db, e) /\ a.lastUnit + 1 <= Len(e.uDB)
  <2>1. PICK l, last, d : l = a.uip /\ last = a.lastUnit /\ d = db
    OBVIOUS
  <2>2. /\ DbInv(d, Read) /\ l \in Lits /\ Follows(Read, {l}) /\ last \in Nat
        /\ last <= Len(d.uDB) /\ FALSE \in BOOLEAN
        /\ e = InsertUnit(d, l, FALSE, last)
    BY <1>1, <1>3, <1>4, <2>1
  <2>3. DbInv(e, Read) /\ Extends(d, e) /\ last + 1 <= Len(e.uDB)
    BY <2>2, UnitInserted
  <2> QED BY <2>1, <2>3
<1>6. WorkerInv(a, e, Read) /\ Counted(a, e)
  <2>1. e \in ClauseDBType
    BY <1>5 DEF DbInv
  <2>2. WorkerInv(a, e, Read)
    BY <1>3, <1>5, <2>1, WorkerInvStays
  <2> QED BY <2>2, WorkerParts DEF Core
<1>7. /\ DOMAIN c = Fields /\ c = [f \in Fields |-> c[f]]
      /\ \A f \in Fields \ {"lastUnit"} : c[f] = a[f]
      /\ c.lastUnit = a.lastUnit + 1
  BY <1>1, <1>3 DEF Typed, Fields
<1>8. /\ c.marks = a.marks /\ c.lemmaToLearn = a.lemmaToLearn /\ c.uip = a.uip
      /\ c.model = a.model
  BY <1>7 DEF Fields
<1>9. Jumps(a, b, NoReason) /\ Differs(c, b, Jumped)
  <2>1. PICK r : r = NoReason
    OBVIOUS
  <2>2. b = AfterLearning(c, r)
    BY <1>1, <2>1
  <2>3. Jumps(a, b, r) /\ Differs(c, b, Jumped)
    BY <1>7, <1>8, <2>2, AfterLearningFields
  <2> QED BY <2>1, <2>3
<1>10. Differs(a, b, Jumped \cup {"lastUnit", "lastBins", "lastTernary"})
  BY <1>7, <1>9 DEF Differs
<1>11. /\ b.lastUnit = a.lastUnit + 1 /\ b.lastBins = a.lastBins
       /\ b.lastTernary = a.lastTernary /\ b.lastNary = a.lastNary
  BY <1>7, <1>9 DEF Differs, Jumped, Fields
<1>12. Counted(b, e)
  BY <1>5, <1>6, <1>11 DEF Counted
<1>13. NoReason \in Reason
  BY DEF NoReason, Reason, ZeroLit
<1>14. b.lastUnit \in Nat /\ b.lastBins \in [Lits -> Nat] /\ b.lastTernary \in Nat
  BY <1>3, <1>11
<1>15. WorkerInv(b, e, Read)
  BY <1>2, <1>3, <1>5, <1>6, <1>9, <1>10, <1>12, <1>13, <1>14, LearnedShort
<1>16. b.pc = "backjump"
  BY <1>9 DEF Jumps
<1> QED BY <1>1, <1>2, <1>3, <1>5, <1>15, <1>16, SharingKeeps

\* Two workers agree on both lists of a binary.
LEMMA SameBinary ==
    ASSUME NEW w, NEW a, a = ad[w], NEW u, NEW l, u # l, NEW c, c = {u, l},
           Cardinality(c) = 2, SameAt(w, c)
    PROVE  /\ Len(db.bDB[-u]) > a.lastBins[-u] <=> Len(db.bDB[-l]) > a.lastBins[-l]
           /\ Len(db.bDB[-u]) > a.lastBins[-u] =>
                 /\ db.bDB[-u][a.lastBins[-u] + 1] = l
                 /\ db.bDB[-l][a.lastBins[-l] + 1] = u
<1>1. PICK ahead : ahead = {k \in c : Len(db.bDB[-k]) > a.lastBins[-k]}
  OBVIOUS
<1>2. /\ ahead \in {{}, c}
      /\ \A k \in ahead : db.bDB[-k][a.lastBins[-k] + 1] = Partner(c, k)
  BY <1>1 DEF SameAt
<1>3. Partner(c, u) = l /\ Partner(c, l) = u
  BY DEF Partner
<1>4. u \in ahead <=> Len(db.bDB[-u]) > a.lastBins[-u]
  BY <1>1
<1>5. l \in ahead <=> Len(db.bDB[-l]) > a.lastBins[-l]
  BY <1>1
<1>6. u \in ahead <=> l \in ahead
  BY <1>2
<1> QED BY <1>2, <1>3, <1>4, <1>5, <1>6

LEMMA LearnBinaryIInv ==
    ASSUME IInv, SameSearch, NEW w \in Workers, LearnBinary(w)
    PROVE  IInv' /\ Extends(db, db')
<1>1. PICK l \in Lits :
         /\ ad[w].lemmaToLearn = {l}
         /\ Sharing(w, AfterLearning(CountBinary(ad[w], ad[w].uip, l),
                                     [size |-> 2, lit |-> l, ptr |-> 0]),
                       InsertBinary(db, ad[w].uip, l, FALSE, ad[w].lastBins[-ad[w].uip]))
  BY DEF LearnBinary
<1>2. PICK a, u, c, r, b, last1, last2, e :
         /\ a = ad[w] /\ u = a.uip /\ c = CountBinary(a, u, l)
         /\ r = [size |-> 2, lit |-> l, ptr |-> 0] /\ b = AfterLearning(c, r)
         /\ last1 = a.lastBins[-u] /\ last2 = a.lastBins[-l]
         /\ e = InsertBinary(db, u, l, FALSE, last1)
  OBVIOUS
<1>3. ReadyToLearn(w) /\ a.lemmaToLearn = {l} /\ Sharing(w, b, e)
  BY <1>1, <1>2 DEF LearnBinary
<1>4. /\ WorkerInv(a, db, Read) /\ DbInv(db, Read) /\ Typed(a)
      /\ db \in ClauseDBType /\ a.pc = "shorten" /\ a.lemma = {}
      /\ u \in Lits /\ u # l /\ Follows(Read, Learned(a)) /\ Learned(a) \in Clause
      /\ SameAt(w, Learned(a)) /\ Counted(a, db)
      /\ Cardinality(a.lemmaToLearn) = Cardinality(Learned(a)) - 1
      /\ Cardinality(Learned(a)) \in Nat
      /\ a.lastUnit \in Nat /\ a.lastBins \in [Lits -> Nat] /\ a.lastTernary \in Nat
  BY <1>2, <1>3, LearnFacts
<1>5. Learned(a) = {u, l}
  BY <1>2, <1>3 DEF Learned
<1>6. -u \in Lits /\ -l \in Lits /\ -u # -l
  BY <1>4, LitFacts DEF Lits
<1>7. /\ last1 \in Nat /\ last2 \in Nat
      /\ last1 <= Len(db.bDB[-u]) /\ last2 <= Len(db.bDB[-l])
  BY <1>2, <1>4, <1>6 DEF Counted
<1>8. AlreadyInList(db.bDB[-u], FALSE, last1) => Len(db.bDB[-l]) > last2
  <2>1. Cardinality(Learned(a)) = 2
    <3>1. Cardinality({l}) = 1
      BY FS_Singleton
    <3> QED BY <1>3, <1>4, <3>1
  <2>2. Len(db.bDB[-u]) > a.lastBins[-u] => Len(db.bDB[-l]) > a.lastBins[-l]
    <3>1. PICK c2 : c2 = Learned(a)
      OBVIOUS
    <3>2. c2 = {u, l}
      BY <1>5, <3>1
    <3>3. Cardinality(c2) = 2 /\ SameAt(w, c2)
      BY <1>4, <2>1, <3>1
    <3> QED BY <1>2, <1>4, <3>2, <3>3, SameBinary, SMTT(30)
  <2> QED BY <1>2, <2>2 DEF AlreadyInList
<1>9. /\ DbInv(e, Read) /\ Extends(db, e)
      /\ last1 + 1 <= Len(e.bDB[-u]) /\ last2 + 1 <= Len(e.bDB[-l])
  <2>1. PICK d : d = db
    OBVIOUS
  <2>2. /\ DbInv(d, Read) /\ Follows(Read, {u, l}) /\ FALSE \in BOOLEAN
        /\ last1 <= Len(d.bDB[-u]) /\ last2 <= Len(d.bDB[-l])
        /\ AlreadyInList(d.bDB[-u], FALSE, last1) => Len(d.bDB[-l]) > last2
        /\ e = InsertBinary(d, u, l, FALSE, last1)
    BY <1>2, <1>4, <1>5, <1>7, <1>8, <2>1
  <2>3. /\ DbInv(e, Read) /\ Extends(d, e)
        /\ last1 + 1 <= Len(e.bDB[-u]) /\ last2 + 1 <= Len(e.bDB[-l])
    BY <1>4, <1>7, <2>2, BinaryInserted
  <2> QED BY <2>1, <2>3
<1>10. WorkerInv(a, e, Read) /\ Counted(a, e)
  <2>1. e \in ClauseDBType
    BY <1>9 DEF DbInv
  <2>2. WorkerInv(a, e, Read)
    BY <1>4, <1>9, <2>1, WorkerInvStays
  <2> QED BY <2>2, WorkerParts DEF Core
<1>11. /\ DOMAIN c = Fields /\ c = [f \in Fields |-> c[f]]
       /\ \A f \in Fields \ {"lastBins"} : c[f] = a[f]
       /\ c.lastBins = [a.lastBins EXCEPT ![-u] = @ + 1, ![-l] = @ + 1]
  BY <1>2, <1>4, Zenon DEF Typed, Fields, CountBinary
<1>12. /\ c.marks = a.marks /\ c.lemmaToLearn = a.lemmaToLearn /\ c.uip = a.uip
       /\ c.model = a.model
  BY <1>11 DEF Fields
<1>13. Jumps(a, b, r) /\ Differs(c, b, Jumped)
  BY <1>2, <1>11, <1>12, AfterLearningFields
<1>14. Differs(a, b, Jumped \cup {"lastUnit", "lastBins", "lastTernary"})
  BY <1>11, <1>13 DEF Differs
<1>15. /\ b.lastUnit = a.lastUnit /\ b.lastBins = c.lastBins
       /\ b.lastTernary = a.lastTernary /\ b.lastNary = a.lastNary
  BY <1>11, <1>13 DEF Differs, Jumped, Fields
<1>16. /\ b.lastBins \in [Lits -> Nat]
       /\ b.lastBins[-u] = last1 + 1 /\ b.lastBins[-l] = last2 + 1
       /\ \A k \in Lits \ {-u, -l} : b.lastBins[k] = a.lastBins[k]
  <2>1. PICK B : B = a.lastBins
    OBVIOUS
  <2>2. B \in [Lits -> Nat] /\ B[-u] = last1 /\ B[-l] = last2
    BY <1>2, <1>4, <2>1
  <2>3. b.lastBins = [B EXCEPT ![-u] = @ + 1, ![-l] = @ + 1]
    BY <1>11, <1>15, <2>1
  <2>4. /\ b.lastBins[-u] = last1 + 1 /\ b.lastBins[-l] = last2 + 1
        /\ \A k \in Lits \ {-u, -l} : b.lastBins[k] = B[k]
    BY <1>6, <2>2, <2>3
  <2>5. b.lastBins \in [Lits -> Nat]
    BY <1>6, <1>7, <2>2, <2>3
  <2> QED BY <2>1, <2>4, <2>5
<1>17. Counted(b, e)
  <2>1. \A k \in Lits : b.lastBins[k] <= Len(e.bDB[k])
    BY <1>6, <1>9, <1>10, <1>16 DEF Counted
  <2> QED BY <1>10, <1>15, <2>1 DEF Counted
<1>18. r \in Reason /\ Refers(a.thcdb, e, r) /\ ReasonClause(a.thcdb, e, r, u) = {u, l}
  BY <1>2 DEF Reason, Refers, ReasonClause
<1>19. WorkerInv(b, e, Read)
  <2>1. b.lastUnit \in Nat /\ b.lastTernary \in Nat
    BY <1>4, <1>15
  <2>2. ReasonClause(a.thcdb, e, r, a.uip) = Learned(a) /\ a.lemmaToLearn # {}
    BY <1>2, <1>3, <1>5, <1>18
  <2> QED BY <1>4, <1>9, <1>10, <1>13, <1>14, <1>16, <1>17, <1>18, <2>1, <2>2,
             LearnedShort
<1>20. b.pc = "backjump"
  BY <1>13 DEF Jumps
<1> QED BY <1>2, <1>3, <1>4, <1>9, <1>19, <1>20, SharingKeeps

\* The next entry of the list is the clause c.
SameNext(list, last, c) == AlreadyInList(list, FALSE, last) => c = list[last + 1].lits

TernaryOf(d, c, w, last, e, p) ==
    e = InsertTernary(d, c, FALSE, w, last) /\ p = EntryFor(d.tDB, FALSE, last)

LEMMA TernaryLearned ==
    ASSUME NEW d, NEW P, DbInv(d, P), NEW c \in Clause, Follows(P, c),
           NEW last \in Nat, NEW w \in Workers, last <= Len(d.tDB),
           SameNext(d.tDB, last, c), NEW e, NEW p, TernaryOf(d, c, w, last, e, p)
    PROVE  /\ DbInv(e, P) /\ Extends(d, e) /\ p \in DOMAIN e.tDB
           /\ e.tDB[p].lits = c /\ last + 1 <= Len(e.tDB)
<1>1. PICK original : original = FALSE
  OBVIOUS
<1>2. /\ original \in BOOLEAN
      /\ AlreadyInList(d.tDB, original, last) => w \in Workers /\ c = d.tDB[last + 1].lits
      /\ e = InsertTernary(d, c, original, w, last)
      /\ p = EntryFor(d.tDB, original, last) /\ ~original
  BY <1>1 DEF SameNext, TernaryOf
<1>3. PICK q : q = EntryFor(d.tDB, original, last)
  OBVIOUS
<1>4. /\ DbInv(e, P) /\ Extends(d, e) /\ q \in DOMAIN e.tDB
      /\ e.tDB[q].lits = c /\ last + 1 <= Len(e.tDB)
  BY <1>2, <1>3, TernaryInserted
<1> QED BY <1>2, <1>3, <1>4

NaryOf(d, c, w, last, e, p) == e = InsertNary(d, c, FALSE, w, last) /\ p = last + 1

LEMMA NaryLearned ==
    ASSUME NEW d, NEW P, DbInv(d, P), NEW c \in Clause, Follows(P, c), Cardinality(c) > 3,
           NEW last \in Nat, NEW w \in Workers, last <= Len(d.nDB),
           SameNext(d.nDB, last, c), NEW e, NEW p, NaryOf(d, c, w, last, e, p)
    PROVE  /\ DbInv(e, P) /\ Extends(d, e) /\ p \in DOMAIN e.nDB
           /\ e.nDB[p].lits = c /\ last + 1 <= Len(e.nDB)
<1>1. PICK original : original = FALSE
  OBVIOUS
<1>2. /\ original \in BOOLEAN
      /\ AlreadyInList(d.nDB, original, last) => w \in Workers /\ c = d.nDB[last + 1].lits
      /\ e = InsertNary(d, c, original, w, last) /\ ~original
  BY <1>1 DEF SameNext, NaryOf
<1>3. /\ DbInv(e, P) /\ Extends(d, e) /\ last + 1 \in DOMAIN e.nDB
      /\ e.nDB[last + 1].lits = c /\ last + 1 <= Len(e.nDB)
  BY <1>2, NaryInserted
<1> QED BY <1>3 DEF NaryOf

LEMMA LearnTernaryIInv ==
    ASSUME IInv, SameSearch, NEW w \in Workers, LearnTernary(w)
    PROVE  IInv' /\ Extends(db, db')
<1>1. PICK a, p, c, r, b, last, lits, e :
         /\ a = ad[w] /\ last = a.lastTernary /\ p = EntryFor(db.tDB, FALSE, last)
         /\ c = [a EXCEPT !.lastTernary = @ + 1] /\ lits = Learned(a)
         /\ r = [size |-> 3, lit |-> ZeroLit, ptr |-> p] /\ b = AfterLearning(c, r)
         /\ e = InsertTernary(db, lits, FALSE, w, last)
  OBVIOUS
<1>2. ReadyToLearn(w) /\ Cardinality(a.lemmaToLearn) = 2 /\ Sharing(w, b, e)
  BY <1>1 DEF LearnTernary
<1>3. /\ WorkerInv(a, db, Read) /\ DbInv(db, Read) /\ Typed(a)
      /\ db \in ClauseDBType /\ a.pc = "shorten" /\ a.lemma = {}
      /\ a.uip \in Lits /\ lits \in Clause /\ a.lemmaToLearn \in Clause
      /\ Follows(Read, lits) /\ a.uip \in lits
      /\ SameAt(w, lits) /\ Counted(a, db)
      /\ Cardinality(a.lemmaToLearn) = Cardinality(lits) - 1
      /\ Cardinality(lits) \in Nat
      /\ a.lastUnit \in Nat /\ a.lastBins \in [Lits -> Nat] /\ last \in Nat
  BY <1>1, <1>2, LearnFacts
<1>4. Cardinality(lits) = 3 /\ a.lemmaToLearn # {} /\ last <= Len(db.tDB)
  <2>1. Cardinality(lits) = 3 /\ last <= Len(db.tDB)
    BY <1>1, <1>2, <1>3 DEF Counted
  <2> QED BY <1>2, <1>3, <2>1, ClauseSize
<1>5. SameNext(db.tDB, last, lits)
  BY <1>1, <1>3, <1>4 DEF SameAt, AlreadyInList, SameNext
<1>6. /\ DbInv(e, Read) /\ Extends(db, e) /\ last + 1 <= Len(e.tDB)
      /\ p \in DOMAIN e.tDB /\ e.tDB[p].lits = lits
  <2>1. PICK d : d = db
    OBVIOUS
  <2>2. /\ DbInv(d, Read) /\ last <= Len(d.tDB) /\ SameNext(d.tDB, last, lits)
        /\ TernaryOf(d, lits, w, last, e, p)
    BY <1>1, <1>3, <1>4, <1>5, <2>1 DEF TernaryOf
  <2>3. /\ DbInv(e, Read) /\ Extends(d, e) /\ last + 1 <= Len(e.tDB)
        /\ p \in DOMAIN e.tDB /\ e.tDB[p].lits = lits
    BY <1>3, <2>2, TernaryLearned
  <2> QED BY <1>1, <2>1, <2>3
<1>7. WorkerInv(a, e, Read) /\ Counted(a, e) /\ e \in ClauseDBType
  <2>1. e \in ClauseDBType
    BY <1>6 DEF DbInv
  <2>2. WorkerInv(a, e, Read)
    BY <1>3, <1>6, <2>1, WorkerInvStays
  <2> QED BY <2>1, <2>2, WorkerParts DEF Core
<1>8. /\ DOMAIN c = Fields /\ c = [f \in Fields |-> c[f]]
      /\ \A f \in Fields \ {"lastTernary"} : c[f] = a[f]
      /\ c.lastTernary = last + 1
  BY <1>1, <1>3 DEF Typed, Fields
<1>9. /\ c.marks = a.marks /\ c.lemmaToLearn = a.lemmaToLearn /\ c.uip = a.uip
      /\ c.model = a.model
  BY <1>8 DEF Fields
<1>10. Jumps(a, b, r) /\ Differs(c, b, Jumped)
  <2>1. b = AfterLearning(c, r)
    BY <1>1
  <2> QED BY <1>8, <1>9, <2>1, AfterLearningFields
<1>11. Differs(a, b, Jumped \cup {"lastUnit", "lastBins", "lastTernary"})
  BY <1>8, <1>10 DEF Differs
<1>12. /\ b.lastUnit = a.lastUnit /\ b.lastBins = a.lastBins
       /\ b.lastTernary = last + 1 /\ b.lastNary = a.lastNary
  BY <1>8, <1>10 DEF Differs, Jumped, Fields
<1>13. Counted(b, e)
  BY <1>6, <1>7, <1>12 DEF Counted
<1>14. r \in Reason /\ Refers(a.thcdb, e, r) /\ ReasonClause(a.thcdb, e, r, a.uip) = lits
  <2>1. p \in Nat
    BY <1>6, <1>7, DbFields
  <2>2. r \in Reason
    BY <1>1, <2>1 DEF Reason
  <2>3. r.size = 3 /\ r.ptr = p
    BY <1>1
  <2> QED BY <1>6, <2>2, <2>3 DEF Refers, ReasonClause
<1>15. b.lastUnit \in Nat /\ b.lastBins \in [Lits -> Nat] /\ b.lastTernary \in Nat
  BY <1>3, <1>12
<1>16. WorkerInv(b, e, Read)
  <2>1. ReasonClause(a.thcdb, e, r, a.uip) = Learned(a)
    BY <1>1, <1>14
  <2> QED BY <1>3, <1>4, <1>6, <1>7, <1>10, <1>11, <1>13, <1>14, <1>15, <2>1,
             LearnedShort
<1>17. b.pc = "backjump"
  BY <1>10 DEF Jumps
<1> QED BY <1>1, <1>2, <1>3, <1>6, <1>16, <1>17, SharingKeeps

LEMMA LearnNaryIInv ==
    ASSUME IInv, SameSearch, NEW w \in Workers, LearnNary(w)
    PROVE  IInv' /\ Extends(db, db')
<1>1. PICK a, n, pos, other, t, c1, c, r, b, last, lits, e :
         /\ a = ad[w] /\ last = a.lastNary /\ n = Len(a.thcdb) + 1
         /\ pos = last + 1 /\ lits = Learned(a) /\ other = OtherWatch(a)
         /\ t = [pos |-> pos, w1 |-> a.uip, w2 |-> other, activity |-> 0]
         /\ c1 = [a EXCEPT !.lastNary = @ + 1] /\ c = InsertThClause(c1, t)
         /\ r = [size |-> Cardinality(lits), lit |-> ZeroLit, ptr |-> n]
         /\ b = AfterLearning(c, r)
         /\ e = InsertNary(db, lits, FALSE, w, last)
  OBVIOUS
<1>2. ReadyToLearn(w) /\ Cardinality(a.lemmaToLearn) > 2 /\ Sharing(w, b, e)
  BY <1>1 DEF LearnNary
<1>3. /\ WorkerInv(a, db, Read) /\ DbInv(db, Read) /\ Typed(a)
      /\ db \in ClauseDBType /\ a.pc = "shorten" /\ a.lemma = {}
      /\ a.uip \in Lits /\ lits \in Clause /\ a.lemmaToLearn \in Clause
      /\ a.uip \notin a.lemmaToLearn /\ Follows(Read, lits) /\ a.uip \in lits
      /\ SameAt(w, lits) /\ Counted(a, db)
      /\ Cardinality(a.lemmaToLearn) = Cardinality(lits) - 1
      /\ Cardinality(lits) \in Nat
      /\ a.lastUnit \in Nat /\ a.lastBins \in [Lits -> Nat] /\ a.lastTernary \in Nat
      /\ last \in Nat /\ a.thcdb \in Seq(ThClause) /\ a.watches \in [Lits -> Seq(Nat)]
  BY <1>1, <1>2, LearnFacts
<1>4. Cardinality(lits) > 3 /\ a.lemmaToLearn # {} /\ last <= Len(db.nDB)
  <2>1. Cardinality(lits) > 3 /\ last <= Len(db.nDB)
    BY <1>1, <1>2, <1>3 DEF Counted
  <2>2. Cardinality(a.lemmaToLearn) # 0
    BY <1>2
  <2> QED BY <1>3, <2>1, <2>2, ClauseSize
<1>5. SameNext(db.nDB, last, lits)
  BY <1>1, <1>3, <1>4 DEF SameAt, AlreadyInList, SameNext
<1>6. /\ DbInv(e, Read) /\ Extends(db, e) /\ last + 1 <= Len(e.nDB)
      /\ pos \in DOMAIN e.nDB /\ e.nDB[pos].lits = lits
  <2>1. PICK d : d = db
    OBVIOUS
  <2>2. /\ DbInv(d, Read) /\ last <= Len(d.nDB) /\ SameNext(d.nDB, last, lits)
        /\ NaryOf(d, lits, w, last, e, pos)
    BY <1>1, <1>3, <1>4, <1>5, <2>1 DEF NaryOf
  <2>3. /\ DbInv(e, Read) /\ Extends(d, e) /\ last + 1 <= Len(e.nDB)
        /\ pos \in DOMAIN e.nDB /\ e.nDB[pos].lits = lits
    BY <1>3, <1>4, <2>2, NaryLearned
  <2> QED BY <2>1, <2>3
<1>7. /\ WorkerInv(a, e, Read) /\ Counted(a, e) /\ e \in ClauseDBType
      /\ ThHeld(a, e) /\ WatchInv(a)
  <2>1. e \in ClauseDBType
    BY <1>6 DEF DbInv
  <2>2. WorkerInv(a, e, Read)
    BY <1>3, <1>6, <2>1, WorkerInvStays
  <2> QED BY <2>1, <2>2, WorkerParts DEF Core
<1>8. other \in a.lemmaToLearn
  <2>1. /\ a.model \in ModelType /\ TrailConsistent(a.model)
        /\ AllFalse(a.model, a.lemmaToLearn)
    <3>1. Shortening(a, Read)
      BY <1>3, WorkerParts DEF Place
    <3> QED BY <1>3, <3>1, WorkerParts DEF Shortening, AllLower, AllFalse
  <2> QED BY <1>1, <1>3, <1>4, <2>1, HighestIs DEF OtherWatch
<1>9. other \in lits /\ other # a.uip /\ other \in Lits
  BY <1>1, <1>3, <1>8 DEF Learned, Clause
<1>31. t.pos = pos /\ t.w1 = a.uip /\ t.w2 = other /\ t \in ThClause
  <2>1. pos \in Nat
    BY <1>1, <1>3
  <2>2. t = [pos |-> pos, w1 |-> a.uip, w2 |-> other, activity |-> 0]
    BY <1>1
  <2> QED BY <1>3, <1>9, <2>1, <2>2 DEF ThClause
<1>10. PICK th2, W2 :
          /\ th2 = Append(a.thcdb, t)
          /\ W2 = [l \in Lits |-> IF l \in {t.w1, t.w2}
                                  THEN Cons(Len(a.thcdb) + 1, a.watches[l])
                                  ELSE a.watches[l]]
  OBVIOUS
<1>11. /\ th2 \in Seq(ThClause) /\ W2 \in [Lits -> Seq(Nat)] /\ Linked(th2, W2)
       /\ DOMAIN th2 = DOMAIN a.thcdb \cup {n} /\ th2[n] = t /\ n \in Nat
       /\ \A i \in DOMAIN a.thcdb : th2[i] = a.thcdb[i]
  <2>1. PICK th, W : th = a.thcdb /\ W = a.watches
    OBVIOUS
  <2>2. th \in Seq(ThClause) /\ W \in [Lits -> Seq(Nat)] /\ Linked(th, W)
    BY <1>3, <1>7, <2>1 DEF WatchInv
  <2>3. Inserted(th, W, t, n, th2, W2)
    BY <1>1, <1>10, <1>31, <2>1, <2>2 DEF Inserted
  <2>4. /\ th2 \in Seq(ThClause) /\ W2 \in [Lits -> Seq(Nat)] /\ Linked(th2, W2)
        /\ DOMAIN th2 = DOMAIN th \cup {n} /\ th2[n] = t /\ n \in Nat
        /\ \A i \in DOMAIN th : th2[i] = th[i]
    <3>1. OneMore(th, t, n, th2, W2)
      BY <2>3, InsertLinks
    <3> QED BY <3>1 DEF OneMore
  <2> QED BY <2>1, <2>4
<1>12. /\ DOMAIN c = Fields /\ c = [f \in Fields |-> c[f]]
       /\ \A f \in Fields \ {"lastNary", "thcdb", "watches"} : c[f] = a[f]
       /\ c.lastNary = last + 1 /\ c.thcdb = th2 /\ c.watches = W2
  <2>1. /\ DOMAIN c1 = Fields /\ c1 = [f \in Fields |-> c1[f]]
        /\ \A f \in Fields \ {"lastNary"} : c1[f] = a[f]
        /\ c1.lastNary = last + 1
    <3>1. c1 = [a EXCEPT !.lastNary = @ + 1] /\ last = a.lastNary
      BY <1>1
    <3> QED BY <1>3, <3>1, Zenon DEF Typed, Fields
  <2>2. c1.thcdb = a.thcdb /\ c1.watches = a.watches
    BY <2>1 DEF Fields
  <2>7. c = InsertThClause(c1, t)
    BY <1>1
  <2>3. /\ DOMAIN c = Fields /\ c = [f \in Fields |-> c[f]]
        /\ \A f \in Fields \ {"thcdb", "watches"} : c[f] = c1[f]
    BY <2>1, <2>7 DEF InsertThClause
  <2>4. c.thcdb = Append(c1.thcdb, t)
    BY <2>1, <2>7 DEF InsertThClause, Fields
  <2>5. c.watches = [l \in Lits |-> IF l \in {t.w1, t.w2}
                                    THEN Cons(Len(c1.thcdb) + 1, c1.watches[l])
                                    ELSE c1.watches[l]]
    BY <2>1, <2>7 DEF InsertThClause, Fields
  <2>6. c.thcdb = th2 /\ c.watches = W2
    BY <1>10, <2>2, <2>4, <2>5
  <2> QED BY <2>1, <2>3, <2>6 DEF Fields
<1>13. /\ c.marks = a.marks /\ c.lemmaToLearn = a.lemmaToLearn /\ c.uip = a.uip
       /\ c.model = a.model
  BY <1>12 DEF Fields
<1>14. Jumps(a, b, r) /\ Differs(c, b, Jumped)
  <2>1. b = AfterLearning(c, r)
    BY <1>1
  <2> QED BY <1>12, <1>13, <2>1, AfterLearningFields
<1>15. Differs(a, b, Jumped \cup {"lastUnit", "lastBins", "lastTernary", "lastNary",
                                  "thcdb", "watches"})
  BY <1>12, <1>14 DEF Differs
<1>16. /\ b.lastUnit = a.lastUnit /\ b.lastBins = a.lastBins
       /\ b.lastTernary = a.lastTernary /\ b.lastNary = last + 1
       /\ b.thcdb = th2 /\ b.watches = W2 /\ b.pc = "backjump"
  BY <1>12, <1>14 DEF Differs, Jumped, Fields, Jumps
<1>17. Counted(b, e)
  BY <1>6, <1>7, <1>16 DEF Counted
<1>18. PlacesKept(a.thcdb, b.thcdb)
  BY <1>11, <1>16 DEF PlacesKept
<1>19. ThGood(t, e)
  BY <1>3, <1>6, <1>9, <1>31 DEF ThGood
<1>20. ThHeld(b, e)
  <2>1. ASSUME NEW i \in DOMAIN a.thcdb PROVE ThGood(a.thcdb[i], e)
    BY <1>3, <1>7, <2>1 DEF ThHeld
  <2> QED BY <1>11, <1>16, <1>19, <2>1 DEF ThHeld
<1>21. r \in Reason /\ Refers(b.thcdb, e, r) /\ ReasonClause(b.thcdb, e, r, a.uip) = lits
  <2>1. n \in Nat /\ n \in DOMAIN th2
    BY <1>11
  <2>2. r \in Reason
    BY <1>1, <1>3, <2>1 DEF Reason
  <2>3. r.size > 3 /\ r.size \in Nat /\ r.ptr = n /\ th2[r.ptr].pos = pos
    BY <1>1, <1>3, <1>4, <1>11, <1>31
  <2>4. Refers(th2, e, r)
    BY <1>6, <2>1, <2>3 DEF Refers
  <2>5. ReasonClause(th2, e, r, a.uip) = e.nDB[th2[r.ptr].pos].lits
    BY <2>3 DEF ReasonClause
  <2> QED BY <1>6, <1>16, <2>2, <2>3, <2>4, <2>5
<1>22. WorkerInv(b, e, Read)
  <2>1. ReasonClause(b.thcdb, e, r, a.uip) = Learned(a)
    BY <1>1, <1>21
  <2>2. /\ b.lastUnit \in Nat /\ b.lastBins \in [Lits -> Nat] /\ b.lastTernary \in Nat
        /\ b.lastNary \in Nat /\ b.thcdb \in Seq(ThClause)
        /\ b.watches \in [Lits -> Seq(Nat)] /\ Linked(b.thcdb, b.watches)
    BY <1>3, <1>11, <1>16
  <2> QED BY <1>3, <1>4, <1>6, <1>7, <1>14, <1>15, <1>17, <1>18, <1>20, <1>21, <2>1, <2>2,
             LearnedKeeps
<1> QED BY <1>1, <1>2, <1>3, <1>6, <1>16, <1>22, SharingKeeps

-----------------------------------------------------------------------------
(* azuDICI_backjump_to_dl *)

\* A worker that goes back pops one element more.
LEMMA PopOneFields ==
    ASSUME NEW a, Typed(a), NEW b, b = PopOne(a)
    PROVE  /\ Differs(a, b, {"model", "heap"}) /\ PoppedTo(a, b.model, b.heap)
           /\ b.pc = a.pc /\ b.cursor = a.cursor /\ b.cleaning = a.cleaning
           /\ b.sinceRestart = a.sinceRestart /\ b.sinceCleanup = a.sinceCleanup
           /\ b.cleanupLimit = a.cleanupLimit /\ b.decisions = a.decisions
           /\ b.dlToBackjump = a.dlToBackjump
<1>1. DOMAIN b = Fields /\ b = [f \in Fields |-> b[f]]
  BY DEF Typed, PopOne
<1>2. \A f \in Fields \ {"model", "heap"} : b[f] = a[f]
  BY DEF Typed, PopOne
<1>3. /\ b.model = PopAndSetUndef(a.model)
      /\ b.heap = a.heap \cup ({var(Top(a.model))} \cap Vars)
  BY DEF Typed, PopOne, Fields
<1> QED BY <1>1, <1>2, <1>3 DEF Differs, PoppedTo, Fields

LEMMA BackjumpKeeps ==
    ASSUME NEW a, NEW d, NEW P, WorkerInv(a, d, P), DbInv(d, P), a.pc = "backjump",
           a.model.decisionLvl > a.dlToBackjump, NEW b, b = PopOne(a)
    PROVE  WorkerInv(b, d, P)
<1>1. Typed(a) /\ Core(a, d, P) /\ Place(a, d, P) /\ d \in ClauseDBType
  BY DEF WorkerInv, DbInv
<1>2. PICK m, n, dl : m = a.model /\ n = b.model /\ dl = a.dlToBackjump
  OBVIOUS
<1>3. /\ Differs(a, b, {"model", "heap"}) /\ PoppedTo(a, n, b.heap)
      /\ b.pc = "backjump" /\ b.dlToBackjump = dl
  BY <1>1, <1>2, PopOneFields
<1>4. n = PopAndSetUndef(m) /\ m \in ModelType /\ TrailConsistent(m)
  BY <1>2, <1>3, WorkerParts DEF PoppedTo
<1>5. m.decisionLvl \in Nat /\ dl \in Nat /\ m.decisionLvl > dl /\ m.decisionLvl > 0
  BY <1>1, <1>2, <1>4 DEF Typed, ModelType
<1>6. /\ n \in ModelType /\ b.heap \in SUBSET Vars
      /\ ModelInv(n, a.thcdb, d, P) /\ Free(n) \subseteq b.heap
      /\ Top(m) = DlMarker => CursorsGood(n)
  BY <1>2, <1>3, <1>5, PoppedModel
<1>7. /\ Top(m) # DlMarker => n.decisionLvl = m.decisionLvl
      /\ Top(m) = DlMarker => n.decisionLvl = m.decisionLvl - 1
      /\ \A k \in Lits : IsUndef(m, k) => IsUndef(n, k)
      /\ \A k \in Lits : ~IsUndef(m, k) /\ LitDl(m, k) < m.decisionLvl => KeptLit(m, n, k)
  BY <1>4, <1>5, PopKeeps
<1>8. n.decisionLvl \in Nat /\ dl <= n.decisionLvl
  <2>1. n.decisionLvl \in Nat
    BY <1>6 DEF ModelType
  <2> QED BY <1>5, <1>7, <2>1
<1>9. /\ b.thcdb = a.thcdb /\ b.watches = a.watches /\ b.lastUnit = a.lastUnit
      /\ b.lastBins = a.lastBins /\ b.lastTernary = a.lastTernary
      /\ b.lastNary = a.lastNary /\ b.marks = a.marks /\ b.clause = a.clause
      /\ b.poppedLit = a.poppedLit /\ b.pending = a.pending /\ b.lemma = a.lemma
      /\ b.uip = a.uip /\ b.lemmaToLearn = a.lemmaToLearn
      /\ b.rUIP = a.rUIP /\ b.result = a.result
      /\ b.cursor = a.cursor /\ b.cleaning = a.cleaning
      /\ b.sinceRestart = a.sinceRestart /\ b.sinceCleanup = a.sinceCleanup
      /\ b.cleanupLimit = a.cleanupLimit /\ b.decisions = a.decisions
  BY <1>3 DEF Differs, Fields
<1>10. Typed(b)
  <2>1. b.dlToBackjump \in Nat /\ b.pc \in Locations /\ b.model \in ModelType
    BY <1>2, <1>3, <1>5, <1>6 DEF Locations
  <2> QED BY <1>1, <1>3, <1>6, <1>9, <2>1 DEF Typed, Differs
<1>11. Core(b, d, P)
  <2>1. ThHeld(b, d) /\ WatchInv(b)
    BY <1>1, <1>3, <1>9 DEF Core, ThHeld, WatchInv
  <2>2. Counted(b, d)
    BY <1>1, <1>9 DEF Core, Counted
  <2> QED BY <1>2, <1>6, <1>9, <2>1, <2>2 DEF Core
<1>12. CursorInv(b)
  <2>1. CASE Top(m) = DlMarker
    BY <1>2, <1>3, <1>6, <2>1 DEF CursorInv
  <2>2. CASE Top(m) # DlMarker
    <3>1. n.decisionLvl > dl
      BY <1>5, <1>7, <2>2
    <3> QED BY <1>2, <1>3, <3>1 DEF CursorInv, PoppingNow, Target
  <2> QED BY <2>1, <2>2
<1>13. Backjumping(b, d, P)
  <2>1. /\ UipGood(a) /\ Backjumping(a, d, P)
    BY <1>1 DEF Place, Backjumping
  <2>2. UipGood(b)
    BY <1>2, <1>7, <1>9, <2>1 DEF UipGood
  <2>3. PICK u, r, rest : /\ u = a.uip /\ r = a.rUIP
                          /\ rest = ReasonClause(a.thcdb, d, r, u) \ {u}
    OBVIOUS
  <2>4. u \in Lits /\ r \in Reason
    BY <1>1, <2>1, <2>3 DEF UipGood, Typed
  <2>5. CASE r = NoReason /\ dl = 0 /\ Follows(P, {u})
    BY <1>2, <1>3, <1>8, <1>9, <2>2, <2>3, <2>5 DEF Backjumping
  <2>6. CASE /\ Backs(m, a.thcdb, d, P, r, u)
             /\ \A l \in rest : LitDl(m, l) <= dl
             /\ \E l \in rest : LitDl(m, l) = dl
    <3>1. ReasonClause(a.thcdb, d, r, u) \in Clause
      BY <1>1, <2>4, <2>6, ReasonLits, WorkerParts DEF Backs
    <3>2. ASSUME NEW k \in rest PROVE IsFalse(n, k) /\ LitDl(n, k) = LitDl(m, k)
      <4>1. k \in Lits /\ IsFalse(m, k)
        BY <2>3, <2>6, <3>1, <3>2 DEF Backs, Clause
      <4>2. LitDl(m, k) \in Nat /\ LitDl(m, k) <= dl
        <5>1. m.level \in [Vars -> Nat]
          BY <1>4 DEF ModelType
        <5> QED BY <2>6, <3>2, <4>1, <5>1, LitFacts DEF LitDl
      <4>3. LitDl(m, k) < m.decisionLvl
        BY <1>5, <4>2
      <4>4. KeptLit(m, n, k)
        BY <1>4, <1>7, <4>1, <4>3, ValueOfLit
      <4> QED BY <4>1, <4>4 DEF KeptLit, IsFalse
    <3>3. Backs(n, a.thcdb, d, P, r, u)
      BY <2>3, <2>6, <3>2 DEF Backs
    <3>4. /\ \A l \in rest : LitDl(n, l) <= dl
          /\ \E l \in rest : LitDl(n, l) = dl
      BY <2>6, <3>2
    <3> QED BY <1>2, <1>3, <1>8, <1>9, <2>2, <2>3, <3>3, <3>4 DEF Backjumping
  <2>7. \/ r = NoReason /\ dl = 0 /\ Follows(P, {u})
        \/ /\ Backs(m, a.thcdb, d, P, r, u)
           /\ \A l \in rest : LitDl(m, l) <= dl
           /\ \E l \in rest : LitDl(m, l) = dl
    BY <1>2, <2>1, <2>3 DEF Backjumping
  <2> QED BY <2>5, <2>6, <2>7
<1>14. Visiting(b, d) /\ Conflict(b, P) /\ Marking(b, P) /\ Popped(b, P)
       /\ Lemma(b, P) /\ Shortening(b, P)
  BY <1>3 DEF Visiting, Conflict, Marking, Popped, Lemma, Shortening
<1>15. Answered(b, P) /\ Unmarked(b)
  BY <1>1, <1>3, <1>9 DEF Place, Answered, Unmarked
<1> QED BY <1>10, <1>11, <1>12, <1>13, <1>14, <1>15 DEF WorkerInv, Place

\* So does one that goes back to level 0 for a restart or a cleanup.
LEMMA JumpToZeroKeeps ==
    ASSUME NEW a, NEW d, NEW P, WorkerInv(a, d, P), DbInv(d, P),
           a.pc \in {"restartJump", "cleanupJump"},
           a.model.decisionLvl > 0, NEW b, b = PopOne(a)
    PROVE  WorkerInv(b, d, P)
<1>1. Typed(a) /\ a.model \in ModelType /\ TrailConsistent(a.model)
  BY WorkerParts
<1>2. PICK m, n : m = a.model /\ n = b.model
  OBVIOUS
<1>3. /\ Differs(a, b, {"model", "heap"}) /\ PoppedTo(a, n, b.heap)
      /\ b.pc = a.pc /\ b.cursor = a.cursor /\ b.cleaning = a.cleaning
      /\ b.sinceRestart = a.sinceRestart /\ b.sinceCleanup = a.sinceCleanup
      /\ b.cleanupLimit = a.cleanupLimit /\ b.decisions = a.decisions
  BY <1>1, <1>2, PopOneFields
<1>4. n = PopAndSetUndef(m) /\ m.decisionLvl \in Nat
  BY <1>1, <1>2, <1>3 DEF PoppedTo, ModelType
<1>5. /\ n \in ModelType /\ b.heap \in SUBSET Vars
      /\ ModelInv(n, a.thcdb, d, P) /\ Free(n) \subseteq b.heap
      /\ Top(m) = DlMarker => CursorsGood(n) /\ FullyPropagated(n)
  BY <1>2, <1>3, PoppedModel
<1>6. Top(m) # DlMarker => n.decisionLvl = m.decisionLvl
  BY <1>1, <1>2, <1>4, PopKeeps
<1>7. CursorInv(b)
  <2>1. CASE Top(m) = DlMarker
    BY <1>2, <1>3, <1>5, <2>1 DEF CursorInv
  <2>2. CASE Top(m) # DlMarker
    <3>1. b.model.decisionLvl > 0
      BY <1>2, <1>6, <2>2
    <3>2. PoppingNow(b) /\ b.pc \notin {"restart", "cleanup", "decide"}
      BY <1>3, <3>1 DEF PoppingNow, Target
    <3> QED BY <3>2 DEF CursorInv
  <2> QED BY <2>1, <2>2
<1>8. Visiting(b, d) /\ a.pc \in Idle /\ b.pc \in Idle
  BY <1>3 DEF Visiting, Idle
<1>9. /\ b.cleaning \in BOOLEAN /\ b.sinceRestart \in Nat /\ b.sinceCleanup \in Nat
      /\ b.cleanupLimit \in Nat /\ b.decisions \in Nat /\ b.cursor \in Cursor
  BY <1>1, <1>3 DEF Typed
<1>10. Differs(a, b, Control)
  BY <1>3 DEF Differs, Control
<1> QED BY <1>2, <1>5, <1>7, <1>8, <1>9, <1>10, IdleStep

\* Unwind keeps the invariant.
LEMMA UnwindIInv == ASSUME IInv, NEW w \in Workers, Unwind(w) PROVE IInv'
<1>1. PICK a, b : a = ad[w] /\ b = PopOne(a)
  OBVIOUS
<1>2. /\ WorkerInv(a, db, Read) /\ DbInv(db, Read) /\ Typed(a)
      /\ a.pc \in {"backjump", "restartJump", "cleanupJump"}
      /\ a.model.decisionLvl > Target(a) /\ Local(w, b)
  BY <1>1 DEF IInv, Unwind, Unwinding, WorkerInv
<1>3. WorkerInv(b, db, Read)
  <2>1. CASE a.pc = "backjump"
    <3>1. a.model.decisionLvl > a.dlToBackjump
      BY <1>2, <2>1 DEF Target
    <3> QED BY <1>1, <1>2, <2>1, <3>1, BackjumpKeeps
  <2>2. CASE a.pc \in {"restartJump", "cleanupJump"}
    <3>1. a.model.decisionLvl > 0
      BY <1>2, <2>2 DEF Target
    <3> QED BY <1>1, <1>2, <2>2, <3>1, JumpToZeroKeeps
  <2> QED BY <1>2, <2>1, <2>2
<1>4. b.pc = a.pc
  BY <1>1, <1>2, PopOneFields
<1> QED BY <1>1, <1>2, <1>3, <1>4, LocalKeeps

\* SetTrueUip keeps the invariant: at the level jumped to, the rest of the lemma is
\* false and the uip is implied.
LEMMA SetTrueUipIInv == ASSUME IInv, NEW w \in Workers, SetTrueUip(w) PROVE IInv'
<1>1. PICK a, m, u, r, n, b :
         /\ a = ad[w] /\ m = a.model /\ u = a.uip /\ r = a.rUIP
         /\ n = SetTrueWithReason(m, u, r)
         /\ b = [a EXCEPT !.pc = "propagate", !.uip = ZeroLit, !.rUIP = NoReason,
                          !.model = n]
  OBVIOUS
<1>2. /\ WorkerInv(a, db, Read) /\ DbInv(db, Read) /\ Typed(a) /\ a.pc = "backjump"
      /\ db \in ClauseDBType /\ Core(a, db, Read) /\ Place(a, db, Read)
  BY <1>1 DEF IInv, SetTrueUip, At, WorkerInv, DbInv
<1>3. a.model.decisionLvl <= a.dlToBackjump /\ Local(w, b)
  <2>1. Target(a) = a.dlToBackjump
    BY <1>2 DEF Target
  <2>2. b = [a EXCEPT !.pc = "propagate", !.uip = ZeroLit, !.rUIP = NoReason,
                      !.model = SetTrueWithReason(@, a.uip, a.rUIP)]
    BY <1>1, <1>2 DEF Typed, Fields
  <2> QED BY <1>1, <2>1, <2>2 DEF SetTrueUip
<1>4. /\ m \in ModelType /\ TrailConsistent(m) /\ ModelInv(m, a.thcdb, db, Read)
      /\ Free(m) \subseteq a.heap /\ a.heap \in SUBSET Vars /\ a.thcdb \in Seq(ThClause)
  BY <1>1, <1>2, WorkerParts
<1>5. m.decisionLvl \in Nat /\ a.dlToBackjump \in Nat
  BY <1>2, <1>4 DEF ModelType, Typed
<1>6. Backjumping(a, db, Read)
  BY <1>2 DEF Place
<1>7. u \in Lits /\ IsUndef(m, u) /\ r \in Reason
  BY <1>1, <1>2, <1>6 DEF Backjumping, UipGood, Typed
<1>8. CursorsGood(m)
  <2>1. ~PoppingNow(a)
    BY <1>1, <1>2, <1>3, <1>5 DEF PoppingNow, Target
  <2> QED BY <1>1, <1>2, <2>1 DEF Place, CursorInv
<1>9. \/ Backs(m, a.thcdb, db, Read, r, u)
      \/ r.size = 1 /\ m.decisionLvl = 0 /\ Follows(Read, {u})
  <2>1. CASE r = NoReason /\ a.dlToBackjump = 0 /\ Follows(Read, {u})
    BY <1>1, <1>3, <1>5, <2>1 DEF NoReason
  <2> QED BY <1>1, <1>2, <1>6, <2>1 DEF Backjumping
<1>10. n \in ModelType /\ ModelInv(n, a.thcdb, db, Read) /\ CursorsGood(n)
  BY <1>1, <1>2, <1>4, <1>7, <1>8, <1>9, SetTrueModelInv
<1>11. Free(n) \subseteq a.heap
  <2>1. Free(n) = Free(m) \ {var(u)}
    BY <1>1, <1>4, <1>7, SetTrueKeeps
  <2> QED BY <1>4, <2>1
<1>12. Differs(a, b, {"pc", "uip", "rUIP", "model"})
  <2>1. DOMAIN b = Fields /\ b = [f \in Fields |-> b[f]]
    BY <1>1, <1>2 DEF Typed
  <2>2. \A f \in Fields \ {"pc", "uip", "rUIP", "model"} : b[f] = a[f]
    BY <1>1, <1>2 DEF Typed
  <2> QED BY <2>1, <2>2 DEF Differs
<1>13. /\ b.pc = "propagate" /\ b.uip = ZeroLit /\ b.rUIP = NoReason /\ b.model = n
  BY <1>1, <1>2 DEF Typed, Fields
<1>14. /\ b.thcdb = a.thcdb /\ b.watches = a.watches /\ b.lastUnit = a.lastUnit
       /\ b.lastBins = a.lastBins /\ b.lastTernary = a.lastTernary
       /\ b.lastNary = a.lastNary /\ b.marks = a.marks /\ b.clause = a.clause
       /\ b.poppedLit = a.poppedLit /\ b.pending = a.pending /\ b.lemma = a.lemma
       /\ b.lemmaToLearn = a.lemmaToLearn /\ b.heap = a.heap
       /\ b.dlToBackjump = a.dlToBackjump /\ b.result = a.result
       /\ b.cursor = a.cursor /\ b.cleaning = a.cleaning
       /\ b.sinceRestart = a.sinceRestart /\ b.sinceCleanup = a.sinceCleanup
       /\ b.cleanupLimit = a.cleanupLimit /\ b.decisions = a.decisions
  BY <1>12 DEF Differs, Fields
<1>15. Typed(b)
  <2>1. /\ b.pc \in Locations /\ b.model \in ModelType
        /\ b.uip \in Lits \cup {ZeroLit} /\ b.rUIP \in Reason
    BY <1>10, <1>13 DEF Locations, NoReason, Reason
  <2> QED BY <1>2, <1>12, <1>14, <2>1 DEF Typed, Differs
<1>16. Core(b, db, Read)
  <2>1. ThHeld(b, db) /\ WatchInv(b)
    BY <1>2, <1>13, <1>14 DEF Core, ThHeld, WatchInv
  <2>2. Counted(b, db)
    BY <1>2, <1>14 DEF Core, Counted
  <2> QED BY <1>10, <1>11, <1>13, <1>14, <2>1, <2>2 DEF Core
<1>17. Place(b, db, Read)
  <2>1. /\ Visiting(b, db) /\ Conflict(b, Read) /\ Marking(b, Read) /\ Popped(b, Read)
        /\ Lemma(b, Read) /\ Shortening(b, Read) /\ Backjumping(b, db, Read)
    BY <1>13 DEF Visiting, Conflict, Marking, Popped, Lemma, Shortening, Backjumping
  <2>2. Answered(b, Read) /\ Unmarked(b)
    BY <1>2, <1>13, <1>14 DEF Place, Answered, Unmarked
  <2>3. CursorInv(b)
    BY <1>10, <1>13 DEF CursorInv
  <2> QED BY <2>1, <2>2, <2>3 DEF Place
<1>18. WorkerInv(b, db, Read)
  BY <1>15, <1>16, <1>17 DEF WorkerInv
<1> QED BY <1>1, <1>2, <1>3, <1>13, <1>18, LocalKeeps

\* Every step of learning keeps the invariant.
LEMMA LearningIInv ==
    ASSUME IInv, SameSearch, NEW w \in Workers, Learning(w)
    PROVE  IInv'
BY LearnUnitIInv, LearnBinaryIInv, LearnTernaryIInv, LearnNaryIInv, UnwindIInv,
   SetTrueUipIInv DEF Learning

-----------------------------------------------------------------------------
(* Restarts *)

\* A worker whose propagation is complete only moves on.
LEMMA MovesOn ==
    ASSUME NEW a, NEW d, NEW P, WorkerInv(a, d, P), a.pc \in Idle,
           CursorsGood(a.model), FullyPropagated(a.model),
           NEW loc \in {"cleanup", "decide"}, NEW b, b = [a EXCEPT !.pc = loc]
    PROVE  WorkerInv(b, d, P) /\ b.pc = loc
<1>1. Typed(a)
  BY DEF WorkerInv
<1>2. Differs(a, b, {"pc", "cleaning", "sinceRestart", "restartLimit",
                     "sinceCleanup", "cleanupLimit"})
  <2>1. DOMAIN b = Fields /\ b = [f \in Fields |-> b[f]]
    BY <1>1 DEF Typed
  <2>2. \A f \in Fields \ {"pc"} : b[f] = a[f]
    BY <1>1 DEF Typed
  <2> QED BY <2>1, <2>2 DEF Differs
<1>3. /\ b.pc = loc /\ b.cleaning = a.cleaning /\ b.sinceRestart = a.sinceRestart
      /\ b.sinceCleanup = a.sinceCleanup /\ b.cleanupLimit = a.cleanupLimit
  BY <1>1 DEF Typed, Fields
<1>4. /\ b.cleaning \in BOOLEAN /\ b.sinceRestart \in Nat /\ b.sinceCleanup \in Nat
      /\ b.cleanupLimit \in Nat
  BY <1>1, <1>3 DEF Typed
<1> QED BY <1>2, <1>3, <1>4, CounterStep

LEMMA RestartIfAdequateIInv ==
    ASSUME IInv, NEW w \in Workers, RestartIfAdequate(w)
    PROVE  IInv'
<1>1. PICK a, b, c :
         /\ a = ad[w]
         /\ b = [a EXCEPT !.pc = "restartJump", !.sinceRestart = 0,
                          !.restartLimit = nextRestartLimit[a.restartLimit]]
         /\ c = [a EXCEPT !.pc = "cleanup"]
  OBVIOUS
<1>2. /\ WorkerInv(a, db, Read) /\ DbInv(db, Read) /\ Typed(a) /\ a.pc = "restart"
      /\ CursorsGood(a.model) /\ FullyPropagated(a.model) /\ a.pc \in Idle
  <2>1. WorkerInv(a, db, Read) /\ DbInv(db, Read) /\ Typed(a) /\ a.pc = "restart"
    BY <1>1 DEF IInv, RestartIfAdequate, At, WorkerInv
  <2> QED BY <2>1, NotPopping DEF Idle
<1>3. Local(w, b) \/ Local(w, c)
  <2>1. b = [a EXCEPT !.pc = "restartJump", !.sinceRestart = 0,
                      !.restartLimit = nextRestartLimit[@]]
    BY <1>1, <1>2 DEF Typed, Fields
  <2> QED BY <1>1, <2>1 DEF RestartIfAdequate
<1>4. WorkerInv(b, db, Read) /\ b.pc = "restartJump"
  <2>1. Differs(a, b, {"pc", "cleaning", "sinceRestart", "restartLimit",
                       "sinceCleanup", "cleanupLimit"})
    <3>1. DOMAIN b = Fields /\ b = [f \in Fields |-> b[f]]
      BY <1>1, <1>2 DEF Typed
    <3>2. \A f \in Fields \ {"pc", "sinceRestart", "restartLimit"} : b[f] = a[f]
      BY <1>1, <1>2 DEF Typed
    <3> QED BY <3>1, <3>2 DEF Differs
  <2>2. /\ b.pc = "restartJump" /\ b.cleaning = a.cleaning /\ b.sinceRestart = 0
        /\ b.sinceCleanup = a.sinceCleanup /\ b.cleanupLimit = a.cleanupLimit
    BY <1>1, <1>2 DEF Typed, Fields
  <2>3. /\ b.cleaning \in BOOLEAN /\ b.sinceRestart \in Nat /\ b.sinceCleanup \in Nat
        /\ b.cleanupLimit \in Nat
    BY <1>2, <2>2 DEF Typed
  <2> QED BY <1>2, <2>1, <2>2, <2>3, CounterStep
<1>5. WorkerInv(c, db, Read) /\ c.pc = "cleanup"
  BY <1>1, <1>2, MovesOn
<1> QED BY <1>1, <1>2, <1>3, <1>4, <1>5, LocalKeeps

LEMMA RestartDoneIInv == ASSUME IInv, NEW w \in Workers, RestartDone(w) PROVE IInv'
<1>1. PICK a, c : a = ad[w] /\ c = [a EXCEPT !.pc = "cleanup"]
  OBVIOUS
<1>2. /\ WorkerInv(a, db, Read) /\ Typed(a) /\ a.pc = "restartJump"
      /\ a.model.decisionLvl = 0 /\ Local(w, c)
  BY <1>1 DEF IInv, RestartDone, At, WorkerInv
<1>3. CursorsGood(a.model) /\ FullyPropagated(a.model) /\ a.pc \in Idle
  <2>1. ~PoppingNow(a)
    BY <1>2 DEF PoppingNow, Target
  <2> QED BY <1>2, <2>1, WorkerParts DEF CursorInv, Idle
<1>4. WorkerInv(c, db, Read) /\ c.pc = "cleanup"
  BY <1>1, <1>2, <1>3, MovesOn
<1> QED BY <1>1, <1>2, <1>4, LocalKeeps

-----------------------------------------------------------------------------
(* Cleanups *)

LEMMA CleanupIfAdequateIInv ==
    ASSUME IInv, NEW w \in Workers, CleanupIfAdequate(w)
    PROVE  IInv'
<1>1. PICK a, limit, b, c :
         /\ a = ad[w] /\ limit = (a.cleanupLimit * 105) \div 100
         /\ b = [a EXCEPT !.pc = "cleanupJump", !.sinceCleanup = 0,
                          !.cleanupLimit = limit]
         /\ c = [a EXCEPT !.pc = "decide"]
  OBVIOUS
<1>2. /\ WorkerInv(a, db, Read) /\ DbInv(db, Read) /\ Typed(a) /\ a.pc = "cleanup"
      /\ CursorsGood(a.model) /\ FullyPropagated(a.model) /\ a.pc \in Idle
  <2>1. WorkerInv(a, db, Read) /\ DbInv(db, Read) /\ Typed(a) /\ a.pc = "cleanup"
    BY <1>1 DEF IInv, CleanupIfAdequate, At, WorkerInv
  <2> QED BY <2>1, NotPopping DEF Idle
<1>3. Local(w, b) \/ Local(w, c)
  <2>1. b = [a EXCEPT !.pc = "cleanupJump", !.sinceCleanup = 0,
                      !.cleanupLimit = (@ * 105) \div 100]
    BY <1>1, <1>2 DEF Typed, Fields
  <2> QED BY <1>1, <2>1 DEF CleanupIfAdequate
<1>4. limit \in Nat
  <2>1. a.cleanupLimit \in Nat
    BY <1>2 DEF Typed
  <2> QED BY <1>1, <2>1
<1>5. WorkerInv(b, db, Read) /\ b.pc = "cleanupJump"
  <2>1. Differs(a, b, {"pc", "cleaning", "sinceRestart", "restartLimit",
                       "sinceCleanup", "cleanupLimit"})
    <3>1. DOMAIN b = Fields /\ b = [f \in Fields |-> b[f]]
      BY <1>1, <1>2 DEF Typed
    <3>2. \A f \in Fields \ {"pc", "sinceCleanup", "cleanupLimit"} : b[f] = a[f]
      BY <1>1, <1>2 DEF Typed
    <3> QED BY <3>1, <3>2 DEF Differs
  <2>2. /\ b.pc = "cleanupJump" /\ b.cleaning = a.cleaning /\ b.sinceCleanup = 0
        /\ b.sinceRestart = a.sinceRestart /\ b.cleanupLimit = limit
    BY <1>1, <1>2 DEF Typed, Fields
  <2>3. /\ b.cleaning \in BOOLEAN /\ b.sinceRestart \in Nat /\ b.sinceCleanup \in Nat
        /\ b.cleanupLimit \in Nat
    BY <1>2, <1>4, <2>2 DEF Typed
  <2> QED BY <1>2, <2>1, <2>2, <2>3, CounterStep
<1>6. WorkerInv(c, db, Read) /\ c.pc = "decide"
  BY <1>1, <1>2, MovesOn
<1> QED BY <1>1, <1>2, <1>3, <1>5, <1>6, LocalKeeps

\* At level 0 no reason is looked at any more.
LEMMA ReasonsAtZero ==
    ASSUME NEW m \in ModelType, TrailConsistent(m), m.decisionLvl = 0, NEW th, NEW d, NEW P
    PROVE  ReasonsInv(m, th, d, P)
<1>1. ASSUME NEW l \in Lits, IsTrue(m, l) PROVE ~(LitDl(m, l) > 0)
  <2>1. LitDl(m, l) \in Nat /\ LitDl(m, l) <= m.decisionLvl
    BY <1>1, TrueLits DEF TrailConsistent
  <2> QED BY <2>1
<1> QED BY <1>1 DEF ReasonsInv, Implied

\* Between two clauses of a cleanup.
LEMMA CleanStep ==
    ASSUME NEW b, NEW e, NEW P, b.pc = "clean", Typed(b), Core(b, e, P),
           CursorsGood(b.model), b.model.decisionLvl = 0, b.cursor.pos > 0,
           b.marks = {}, b.result = 0
    PROVE  WorkerInv(b, e, P)
<1>1. CursorInv(b) /\ Unmarked(b) /\ Answered(b, P)
  BY DEF CursorInv, Unmarked, Answered
<1>2. /\ Visiting(b, e) /\ Conflict(b, P) /\ Marking(b, P) /\ Popped(b, P)
      /\ Lemma(b, P) /\ Shortening(b, P) /\ Backjumping(b, e, P)
  BY DEF Visiting, Conflict, Marking, Popped, Lemma, Shortening, Backjumping
<1> QED BY <1>1, <1>2 DEF WorkerInv, Place

LEMMA StartCleaningIInv == ASSUME IInv, NEW w \in Workers, StartCleaning(w) PROVE IInv'
<1>1. PICK a, cur, watches, b :
         /\ a = ad[w] /\ cur = [NoCursor EXCEPT !.pos = 1]
         /\ watches = [l \in Lits |-> <<>>]
         /\ b = [a EXCEPT !.pc = "clean", !.watches = watches, !.cursor = cur]
  OBVIOUS
<1>2. /\ WorkerInv(a, db, Read) /\ Typed(a) /\ a.pc = "cleanupJump"
      /\ a.model.decisionLvl = 0 /\ Local(w, b)
  BY <1>1 DEF IInv, StartCleaning, At, WorkerInv
<1>3. Core(a, db, Read) /\ Place(a, db, Read)
  BY <1>2 DEF WorkerInv
<1>4. cur \in Cursor /\ cur.pos = 1
  BY <1>1 DEF NoCursor, Cursor, ZeroLit
<1>5. Differs(a, b, {"pc", "watches", "cursor"})
  <2>1. DOMAIN b = Fields /\ b = [f \in Fields |-> b[f]]
    BY <1>1, <1>2 DEF Typed
  <2>2. \A f \in Fields \ {"pc", "watches", "cursor"} : b[f] = a[f]
    BY <1>1, <1>2 DEF Typed
  <2> QED BY <2>1, <2>2 DEF Differs
<1>6. b.pc = "clean" /\ b.watches = watches /\ b.cursor = cur
  BY <1>1, <1>2 DEF Typed, Fields
<1>7. /\ b.thcdb = a.thcdb /\ b.lastUnit = a.lastUnit /\ b.model = a.model
      /\ b.lastBins = a.lastBins /\ b.lastTernary = a.lastTernary
      /\ b.lastNary = a.lastNary /\ b.marks = a.marks /\ b.clause = a.clause
      /\ b.poppedLit = a.poppedLit /\ b.pending = a.pending /\ b.lemma = a.lemma
      /\ b.lemmaToLearn = a.lemmaToLearn /\ b.heap = a.heap
      /\ b.uip = a.uip /\ b.rUIP = a.rUIP
      /\ b.dlToBackjump = a.dlToBackjump /\ b.result = a.result
      /\ b.cleaning = a.cleaning
      /\ b.sinceRestart = a.sinceRestart /\ b.sinceCleanup = a.sinceCleanup
      /\ b.cleanupLimit = a.cleanupLimit /\ b.decisions = a.decisions
  BY <1>5 DEF Differs, Fields
<1>8. b.watches \in [Lits -> Seq(Nat)] /\ Unlinked(b.watches)
  BY <1>1, <1>6 DEF Unlinked
<1>9. Typed(b)
  <2>1. b.pc \in Locations /\ b.cursor \in Cursor
    BY <1>4, <1>6 DEF Locations
  <2> QED BY <1>2, <1>5, <1>7, <1>8, <2>1 DEF Typed, Differs
<1>10. Core(b, db, Read)
  <2>1. Counted(b, db)
    BY <1>3, <1>7 DEF Core, Counted
  <2>2. ThHeld(b, db)
    BY <1>2, <1>3, <1>7 DEF Core, ThHeld
  <2>3. WatchInv(b)
    BY <1>6, <1>8 DEF WatchInv
  <2> QED BY <1>3, <1>7, <2>1, <2>2, <2>3 DEF Core
<1>11. CursorsGood(b.model)
  <2>1. ~PoppingNow(a)
    BY <1>2 DEF PoppingNow, Target
  <2> QED BY <1>3, <1>7, <2>1 DEF Place, CursorInv
<1>12. b.marks = {} /\ b.result = 0
  BY <1>2, <1>3, <1>7 DEF Place, Unmarked, Answered
<1>13. WorkerInv(b, db, Read)
  BY <1>2, <1>4, <1>6, <1>7, <1>9, <1>10, <1>11, <1>12, CleanStep
<1> QED BY <1>1, <1>2, <1>6, <1>13, LocalKeeps

\* The worker leaves the clause at its cursor behind, deleted or not.
CleanedOne(a, b) ==
    /\ Differs(a, b, {"cursor", "thcdb", "model", "lastUnit", "lastBins", "lastTernary"})
    /\ b.cursor = [a.cursor EXCEPT !.pos = @ + 1]
    /\ a.cursor.pos \in DOMAIN a.thcdb
    /\ b.thcdb \in {a.thcdb, [a.thcdb EXCEPT ![a.cursor.pos].pos = 0]}

LEMMA CleanedKeeps ==
    ASSUME NEW a, NEW b, NEW e, NEW P, WorkerInv(a, e, P), a.pc = "clean",
           CleanedOne(a, b),
           b.model \in ModelType, ModelInv(b.model, a.thcdb, e, P), CursorsGood(b.model),
           b.model.decisionLvl = 0, Free(b.model) \subseteq a.heap,
           b.lastUnit \in Nat, b.lastBins \in [Lits -> Nat], b.lastTernary \in Nat,
           Counted(b, e)
    PROVE  WorkerInv(b, e, P) /\ b.pc = "clean"
<1>1. Typed(a) /\ Core(a, e, P) /\ Place(a, e, P)
  BY DEF WorkerInv
<1>2. Differs(a, b, {"cursor", "thcdb", "model", "lastUnit", "lastBins", "lastTernary"})
  BY DEF CleanedOne
<1>3. /\ b.pc = a.pc /\ b.watches = a.watches
      /\ b.lastNary = a.lastNary /\ b.marks = a.marks /\ b.clause = a.clause
      /\ b.poppedLit = a.poppedLit /\ b.pending = a.pending /\ b.lemma = a.lemma
      /\ b.lemmaToLearn = a.lemmaToLearn /\ b.heap = a.heap
      /\ b.uip = a.uip /\ b.rUIP = a.rUIP
      /\ b.dlToBackjump = a.dlToBackjump /\ b.result = a.result
      /\ b.cleaning = a.cleaning
      /\ b.sinceRestart = a.sinceRestart /\ b.sinceCleanup = a.sinceCleanup
      /\ b.cleanupLimit = a.cleanupLimit /\ b.decisions = a.decisions
      /\ b.restartLimit = a.restartLimit
  BY <1>2 DEF Differs, Fields
<1>4. PICK i : i = a.cursor.pos
  OBVIOUS
<1>5. i \in Nat /\ i > 0 /\ b.cursor \in Cursor /\ b.cursor.pos = i + 1
  <2>1. a.cursor \in Cursor /\ i > 0
    BY <1>1, <1>4 DEF Typed, Place, Visiting
  <2>2. b.cursor = [a.cursor EXCEPT !.pos = @ + 1]
    BY DEF CleanedOne
  <2> QED BY <1>4, <2>1, <2>2 DEF Cursor
<1>6. /\ b.thcdb \in Seq(ThClause) /\ DOMAIN b.thcdb = DOMAIN a.thcdb
      /\ \A j \in DOMAIN a.thcdb : j # i => b.thcdb[j] = a.thcdb[j]
      /\ b.thcdb[i] = a.thcdb[i] \/ b.thcdb[i].pos = 0
      /\ i \in DOMAIN a.thcdb
  <2>1. PICK th, th2 : th = a.thcdb /\ th2 = b.thcdb
    OBVIOUS
  <2>2. th \in Seq(ThClause) /\ i \in DOMAIN th
    BY <1>1, <1>4, <2>1 DEF Typed, CleanedOne
  <2>3. th2 = th \/ th2 = [th EXCEPT ![i].pos = 0]
    BY <1>4, <2>1 DEF CleanedOne
  <2>4. CASE th2 = [th EXCEPT ![i].pos = 0]
    <3>1. PICK t : t = th[i]
      OBVIOUS
    <3>2. t \in ThClause
      BY <2>2, <3>1
    <3>3. [t EXCEPT !.pos = 0] \in ThClause /\ [t EXCEPT !.pos = 0].pos = 0
      BY <3>2 DEF ThClause
    <3>4. th2 = [th EXCEPT ![i] = [t EXCEPT !.pos = 0]]
      BY <2>2, <2>4, <3>1
    <3> QED BY <2>1, <2>2, <3>3, <3>4
  <2> QED BY <2>1, <2>2, <2>3, <2>4
<1>7. Typed(b)
  BY <1>1, <1>2, <1>3, <1>5, <1>6 DEF Typed, Differs
<1>8. ThHeld(b, e)
  <2>1. ASSUME NEW j \in DOMAIN b.thcdb
        PROVE  ThGood(b.thcdb[j], e) \/ (j < b.cursor.pos /\ b.thcdb[j].pos = 0)
    <3>1. j \in Nat /\ j \in DOMAIN a.thcdb
      BY <1>6, <2>1
    <3>2. ThGood(a.thcdb[j], e) \/ (j < i /\ a.thcdb[j].pos = 0)
      BY <1>1, <1>4, <3>1 DEF Core, ThHeld
    <3>3. CASE j = i
      BY <1>5, <1>6, <3>2, <3>3
    <3>4. CASE j # i
      BY <1>5, <1>6, <3>1, <3>2, <3>4
    <3> QED BY <3>3, <3>4
  <2> QED BY <1>3, <2>1 DEF ThHeld
<1>9. Core(b, e, P)
  <2>1. WatchInv(b)
    BY <1>1, <1>3 DEF Core, WatchInv
  <2>2. ModelInv(b.model, b.thcdb, e, P)
    BY ReasonsAtZero DEF ModelInv
  <2> QED BY <1>3, <1>8, <2>1, <2>2 DEF Core
<1>10. b.marks = {} /\ b.result = 0
  BY <1>1, <1>3 DEF Place, Unmarked, Answered
<1> QED BY <1>3, <1>5, <1>7, <1>9, <1>10, CleanStep

LEMMA ExtendsFurther ==
    ASSUME NEW d \in ClauseDBType, NEW e \in ClauseDBType, NEW f \in ClauseDBType,
           Extends(d, e), Extends(e, f)
    PROVE  Extends(d, f)
<1>1. \A x \in {d, e, f} : /\ Len(x.uDB) \in Nat /\ Len(x.tDB) \in Nat
                           /\ Len(x.nDB) \in Nat
                           /\ \A l \in Lits : /\ Len(x.bDB[l]) \in Nat
                                              /\ Len(x.ternaryWatches[l]) \in Nat
  BY DbFields
<1>2. ASSUME NEW s, NEW t, NEW u, Continues(s, t), Continues(t, u),
             Len(s) \in Nat, Len(t) \in Nat, Len(u) \in Nat
      PROVE  Continues(s, u)
  BY <1>2 DEF Continues
<1>3. Continues(d.uDB, f.uDB)
  BY <1>1, <1>2 DEF Extends
<1>4. ASSUME NEW l \in Lits
      PROVE  /\ Continues(d.bDB[l], f.bDB[l])
             /\ Continues(d.ternaryWatches[l], f.ternaryWatches[l])
  BY <1>1, <1>2, SMTT(30) DEF Extends
<1>5. Len(d.tDB) <= Len(f.tDB) /\ Len(d.nDB) <= Len(f.nDB)
  <2>1. /\ Len(d.tDB) <= Len(e.tDB) /\ Len(d.nDB) <= Len(e.nDB)
        /\ Len(e.tDB) <= Len(f.tDB) /\ Len(e.nDB) <= Len(f.nDB)
    BY DEF Extends
  <2> QED BY <1>1, <2>1
<1>6. /\ \A i \in DOMAIN d.tDB : i \in DOMAIN f.tDB /\ f.tDB[i].lits = d.tDB[i].lits
      /\ \A i \in DOMAIN d.nDB : i \in DOMAIN f.nDB /\ f.nDB[i].lits = d.nDB[i].lits
  BY DEF Extends
<1> QED BY <1>3, <1>4, <1>5, <1>6 DEF Extends

\* The clause a cleanup has come to.
LEMMA CleanFacts ==
    ASSUME IInv, NEW w \in Workers, NEW a, a = ad[w], a.pc = "clean",
           a.cursor.pos <= Len(a.thcdb), NEW t, t = a.thcdb[a.cursor.pos]
    PROVE  /\ WorkerInv(a, db, Read) /\ DbInv(db, Read) /\ Typed(a)
           /\ db \in ClauseDBType /\ a.cursor.pos \in DOMAIN a.thcdb
           /\ a.model \in ModelType /\ TrailConsistent(a.model)
           /\ ModelInv(a.model, a.thcdb, db, Read) /\ FixedFollow(a.model, Read)
           /\ Free(a.model) \subseteq a.heap
           /\ a.model.decisionLvl = 0 /\ CursorsGood(a.model)
           /\ t.pos \in DOMAIN db.nDB /\ ThLits(t) \in Clause
           /\ Follows(Read, ThLits(t)) /\ Counted(a, db)
           /\ a.lastUnit \in Nat /\ a.lastBins \in [Lits -> Nat] /\ a.lastTernary \in Nat
<1>1. WorkerInv(a, db, Read) /\ DbInv(db, Read)
  BY DEF IInv
<1>2. /\ Typed(a) /\ Core(a, db, Read) /\ Visiting(a, db) /\ db \in ClauseDBType
  BY <1>1, WorkerParts DEF DbInv
<1>3. /\ a.model \in ModelType /\ TrailConsistent(a.model)
      /\ ModelInv(a.model, a.thcdb, db, Read) /\ FixedFollow(a.model, Read)
      /\ Free(a.model) \subseteq a.heap /\ CursorsGood(a.model)
  BY <1>1, WorkerParts, NotPopping
<1>4. a.model.decisionLvl = 0 /\ a.cursor.pos > 0
  BY <1>2 DEF Visiting
<1>5. PICK i, th : i = a.cursor.pos /\ th = a.thcdb
  OBVIOUS
<1>6. i \in Nat /\ i > 0 /\ i <= Len(th) /\ th \in Seq(ThClause)
  <2>1. a.cursor \in Cursor /\ a.thcdb \in Seq(ThClause)
    BY <1>2 DEF Typed
  <2> QED BY <1>4, <1>5, <2>1 DEF Cursor
<1>7. i \in DOMAIN th
  BY <1>6
<1>8. ThGood(t, db)
  <2>1. ThGood(th[i], db) \/ (i < i /\ th[i].pos = 0)
    BY <1>2, <1>5, <1>7 DEF Core, ThHeld
  <2> QED BY <1>5, <1>6, <2>1
<1>9. t.pos \in DOMAIN db.nDB
  BY <1>8 DEF ThGood
<1>10. ThLits(t) \in Clause /\ Follows(Read, ThLits(t))
  <2>1. PICK p : p = t.pos
    OBVIOUS
  <2>2. p \in DOMAIN db.nDB /\ db.nDB \in Seq(NaryEntry)
    BY <1>2, <1>9, <2>1, DbFields
  <2>3. db.nDB[p] \in NaryEntry
    BY <2>2
  <2>4. db.nDB[p].lits \in Clause
    BY <2>3 DEF NaryEntry
  <2>5. Follows(Read, db.nDB[p].lits)
    BY <1>1, <2>2 DEF DbInv, DbFollows
  <2> QED BY <2>1, <2>4, <2>5, Zenon DEF ThLits
<1>11. /\ Counted(a, db) /\ a.lastUnit \in Nat /\ a.lastBins \in [Lits -> Nat]
       /\ a.lastTernary \in Nat
  BY <1>2 DEF Core, Typed
<1> QED BY <1>1, <1>2, <1>3, <1>4, <1>5, <1>7, <1>9, <1>10, <1>11

\* What is left of the clause follows: the literals dropped are false at level 0.
LEMMA UndefinedFollows ==
    ASSUME IInv, NEW w \in Workers, NEW a, a = ad[w], a.pc = "clean",
           a.cursor.pos <= Len(a.thcdb), NEW t, t = a.thcdb[a.cursor.pos],
           ~IsSatisfied(a, t), NEW rest, rest = Undefined(a, t)
    PROVE  /\ rest \in Clause /\ Follows(Read, rest)
           /\ \A l \in rest : IsUndef(a.model, l)
<1>1. /\ ThLits(t) \in Clause /\ Follows(Read, ThLits(t)) /\ a.model \in ModelType
      /\ TrailConsistent(a.model) /\ FixedFollow(a.model, Read)
      /\ a.model.decisionLvl = 0
  BY CleanFacts
<1>2. rest \in Clause /\ \A l \in rest : IsUndef(a.model, l)
  BY <1>1 DEF Undefined, Clause
<1>3. ASSUME NEW k \in ThLits(t) \ rest PROVE k \in Lits /\ Follows(Read, {-k})
  <2>1. k \in Lits /\ ~IsUndef(a.model, k) /\ ~IsTrue(a.model, k)
    BY <1>1, <1>3 DEF Undefined, IsSatisfied, Clause
  <2>2. IsFalse(a.model, k)
    BY <1>1, <2>1, ValueOfLit
  <2> QED BY <1>1, <2>1, <2>2, FalseAtZero
<1>4. Follows(Read, rest)
  BY <1>1, <1>3, FollowsWithout
<1> QED BY <1>2, <1>4

\* The cursor moves on.
LEMMA CleanNext ==
    ASSUME IInv, NEW w \in Workers, NEW a, a = ad[w], a.pc = "clean",
           a.cursor.pos <= Len(a.thcdb), NEW x, x = [a EXCEPT !.cursor.pos = @ + 1]
    PROVE  /\ WorkerInv(x, db, Read) /\ x.pc = "clean"
           /\ Differs(a, x, {"cursor"}) /\ x.cursor = [a.cursor EXCEPT !.pos = @ + 1]
<1>1. /\ WorkerInv(a, db, Read) /\ Typed(a) /\ a.cursor.pos \in DOMAIN a.thcdb
      /\ a.model \in ModelType /\ ModelInv(a.model, a.thcdb, db, Read)
      /\ Free(a.model) \subseteq a.heap
      /\ a.model.decisionLvl = 0 /\ CursorsGood(a.model) /\ Counted(a, db)
      /\ a.lastUnit \in Nat /\ a.lastBins \in [Lits -> Nat] /\ a.lastTernary \in Nat
  BY CleanFacts
<1>2. Differs(a, x, {"cursor"})
  <2>1. DOMAIN x = Fields /\ x = [f \in Fields |-> x[f]]
    BY <1>1 DEF Typed
  <2>2. \A f \in Fields \ {"cursor"} : x[f] = a[f]
    BY <1>1 DEF Typed
  <2> QED BY <2>1, <2>2 DEF Differs
<1>3. x.cursor = [a.cursor EXCEPT !.pos = @ + 1]
  BY <1>1 DEF Typed, Fields
<1>4. /\ x.thcdb = a.thcdb /\ x.model = a.model /\ x.lastUnit = a.lastUnit
      /\ x.lastBins = a.lastBins /\ x.lastTernary = a.lastTernary
      /\ x.lastNary = a.lastNary
  BY <1>2 DEF Differs, Fields
<1>5. CleanedOne(a, x) /\ Counted(x, db)
  BY <1>1, <1>2, <1>3, <1>4 DEF CleanedOne, Differs, Counted
<1>6. /\ x.model \in ModelType /\ ModelInv(x.model, a.thcdb, db, Read)
      /\ CursorsGood(x.model) /\ x.model.decisionLvl = 0 /\ Free(x.model) \subseteq a.heap
      /\ x.lastUnit \in Nat /\ x.lastBins \in [Lits -> Nat] /\ x.lastTernary \in Nat
  BY <1>1, <1>4
<1>7. WorkerInv(x, db, Read) /\ x.pc = "clean"
  <2>1. PICK d, P : d = db /\ P = Read
    OBVIOUS
  <2>2. /\ WorkerInv(a, d, P) /\ ModelInv(x.model, a.thcdb, d, P) /\ Counted(x, d)
    BY <1>1, <1>5, <1>6, <2>1
  <2>3. WorkerInv(x, d, P) /\ x.pc = "clean"
    BY <1>5, <1>6, <2>2, CleanedKeeps
  <2> QED BY <2>1, <2>3
<1> QED BY <1>2, <1>3, <1>7

\* What is left of a clause goes to the database as a shorter one: x is the worker
\* with its cursor moved on, c what it becomes, and e what the database becomes.
ShrunkFrom(w, a, x, rest, c, e) ==
    /\ a = ad[w] /\ a.pc = "clean" /\ Differs(a, x, {"cursor"})
    /\ WorkerInv(x, db, Read) /\ x.pc = "clean" /\ DbInv(db, Read)
    /\ rest \in Clause /\ Follows(Read, rest) /\ \A l \in rest : IsUndef(x.model, l)
    /\ SameAt(w, rest)
    /\ c = ShrunkSolver(x, rest) /\ e = ShrunkDB(w, a, rest)

ShrunkTo(x, c, e) ==
    /\ Differs(x, c, {"model", "lastUnit", "lastBins", "lastTernary"})
    /\ DbInv(e, Read) /\ Extends(db, e) /\ WorkerInv(x, e, Read) /\ Counted(c, e)
    /\ c.lastUnit \in Nat /\ c.lastBins \in [Lits -> Nat] /\ c.lastTernary \in Nat
    /\ c.model \in ModelType /\ ModelInv(c.model, x.thcdb, e, Read)
    /\ CursorsGood(c.model) /\ c.model.decisionLvl = 0 /\ Free(c.model) \subseteq x.heap

LEMMA ShrunkFacts ==
    ASSUME NEW w, NEW a, NEW x, NEW rest, NEW c, NEW e, ShrunkFrom(w, a, x, rest, c, e)
    PROVE  /\ Typed(x) /\ db \in ClauseDBType /\ Counted(x, db)
           /\ x.lastUnit = a.lastUnit /\ x.lastBins = a.lastBins
           /\ x.lastTernary = a.lastTernary
           /\ x.lastUnit \in Nat /\ x.lastBins \in [Lits -> Nat] /\ x.lastTernary \in Nat
<1>1. Differs(a, x, {"cursor"}) /\ WorkerInv(x, db, Read) /\ DbInv(db, Read)
  BY DEF ShrunkFrom
<1>2. Typed(x) /\ db \in ClauseDBType /\ Counted(x, db)
  BY <1>1, WorkerParts DEF DbInv, Core
<1>3. /\ x.lastUnit = a.lastUnit /\ x.lastBins = a.lastBins
      /\ x.lastTernary = a.lastTernary
  BY <1>1 DEF Differs, Fields
<1>4. x.lastUnit \in Nat /\ x.lastBins \in [Lits -> Nat] /\ x.lastTernary \in Nat
  BY <1>2 DEF Typed
<1> QED BY <1>2, <1>3, <1>4

\* The database has been extended, and the model is that of before.
LEMMA ShrunkSame ==
    ASSUME NEW w, NEW a, NEW x, NEW rest, NEW c, NEW e, ShrunkFrom(w, a, x, rest, c, e),
           Differs(x, c, {"lastUnit", "lastBins", "lastTernary"}),
           DbInv(e, Read), Extends(db, e), Counted(c, e),
           c.lastUnit \in Nat, c.lastBins \in [Lits -> Nat], c.lastTernary \in Nat
    PROVE  ShrunkTo(x, c, e)
<1>1. WorkerInv(x, db, Read) /\ db \in ClauseDBType /\ e \in ClauseDBType /\ x.pc = "clean"
  BY ShrunkFacts DEF ShrunkFrom, DbInv
<1>2. WorkerInv(x, e, Read)
  BY <1>1, WorkerInvStays
<1>3. c.model = x.model
  BY DEF Differs, Fields
<1>4. x.model.decisionLvl = 0
  BY <1>1, WorkerParts DEF Visiting
<1>5. /\ x.model \in ModelType /\ ModelInv(x.model, x.thcdb, e, Read)
      /\ CursorsGood(x.model) /\ Free(x.model) \subseteq x.heap
  BY <1>1, <1>2, WorkerParts, NotPopping
<1> QED BY <1>2, <1>3, <1>4, <1>5 DEF ShrunkTo, Differs

LEMMA ShrunkUnit ==
    ASSUME NEW w, NEW a, NEW x, NEW rest, NEW c, NEW e, ShrunkFrom(w, a, x, rest, c, e),
           Cardinality(rest) = 1
    PROVE  ShrunkTo(x, c, e)
<1>1. /\ Typed(x) /\ db \in ClauseDBType /\ Counted(x, db)
      /\ x.lastUnit = a.lastUnit /\ x.lastBins = a.lastBins
      /\ x.lastTernary = a.lastTernary
      /\ x.lastUnit \in Nat /\ x.lastBins \in [Lits -> Nat] /\ x.lastTernary \in Nat
  BY ShrunkFacts
<1>2. /\ WorkerInv(x, db, Read) /\ x.pc = "clean" /\ DbInv(db, Read)
      /\ rest \in Clause /\ Follows(Read, rest) /\ \A k \in rest : IsUndef(x.model, k)
      /\ c = ShrunkSolver(x, rest) /\ e = ShrunkDB(w, a, rest)
  BY DEF ShrunkFrom
<1>3. PICK l : l = Min(rest)
  OBVIOUS
<1>4. l \in rest /\ rest = {l}
  <2>1. rest # {}
    BY <1>2, ClauseSize
  <2>2. l \in rest
    BY <1>2, <1>3, <2>1, LeastLiteral
  <2> QED BY <1>2, <2>2, ClauseSize
<1>5. l \in Lits /\ IsUndef(x.model, l) /\ Follows(Read, {l}) /\ (CHOOSE k \in rest : TRUE) = l
  BY <1>2, <1>4 DEF Clause
<1>6. PICK last, n, d :
         /\ last = x.lastUnit /\ n = SetTrueWithReason(x.model, l, NoReason) /\ d = db
  OBVIOUS
<1>7. e = InsertUnit(d, l, FALSE, last)
  BY <1>1, <1>2, <1>3, <1>6 DEF ShrunkDB
<1>8. c = [x EXCEPT !.lastUnit = @ + 1,
                    !.model = SetTrueWithReason(@, l, NoReason)]
  <2>1. c = [x EXCEPT !.lastUnit = @ + 1,
                      !.model = SetTrueWithReason(@, CHOOSE k \in rest : TRUE, NoReason)]
    BY <1>2 DEF ShrunkSolver
  <2> QED BY <1>5, <2>1
<1>9. DbInv(e, Read) /\ Extends(db, e) /\ last + 1 <= Len(e.uDB) /\ last \in Nat
  <2>1. last \in Nat /\ last <= Len(d.uDB) /\ DbInv(d, Read)
    BY <1>1, <1>2, <1>6 DEF Counted
  <2>2. DbInv(e, Read) /\ Extends(d, e) /\ last + 1 <= Len(e.uDB)
    BY <1>5, <1>7, <2>1, UnitInserted
  <2> QED BY <1>6, <2>1, <2>2
<1>10. WorkerInv(x, e, Read) /\ e \in ClauseDBType /\ Counted(x, e)
  <2>1. e \in ClauseDBType
    BY <1>9 DEF DbInv
  <2>2. WorkerInv(x, e, Read)
    BY <1>1, <1>2, <1>9, <2>1, WorkerInvStays
  <2> QED BY <2>1, <2>2, WorkerParts DEF Core
<1>11. Differs(x, c, {"model", "lastUnit", "lastBins", "lastTernary"})
  <2>1. DOMAIN c = Fields /\ c = [f \in Fields |-> c[f]]
    BY <1>1, <1>8 DEF Typed
  <2>2. \A f \in Fields \ {"model", "lastUnit"} : c[f] = x[f]
    BY <1>1, <1>8 DEF Typed
  <2> QED BY <2>1, <2>2 DEF Differs
<1>12. /\ c.lastUnit = last + 1 /\ c.model = n /\ c.lastBins = x.lastBins
       /\ c.lastTernary = x.lastTernary /\ c.lastNary = x.lastNary
  BY <1>1, <1>6, <1>8 DEF Typed, Fields
<1>13. Counted(c, e)
  BY <1>9, <1>10, <1>12 DEF Counted
<1>14. /\ x.model \in ModelType /\ TrailConsistent(x.model)
       /\ ModelInv(x.model, x.thcdb, e, Read)
       /\ CursorsGood(x.model) /\ Free(x.model) \subseteq x.heap
       /\ x.model.decisionLvl = 0 /\ x.thcdb \in Seq(ThClause)
  BY <1>2, <1>10, WorkerParts, NotPopping DEF Visiting
<1>15. /\ n \in ModelType /\ ModelInv(n, x.thcdb, e, Read) /\ CursorsGood(n)
       /\ n.decisionLvl = 0 /\ Free(n) \subseteq x.heap
  <2>1. PICK r : r = NoReason
    OBVIOUS
  <2>2. r \in Reason /\ r.size = 1 /\ n = SetTrueWithReason(x.model, l, r)
    BY <1>6, <2>1 DEF NoReason, Reason, ZeroLit
  <2>3. n \in ModelType /\ ModelInv(n, x.thcdb, e, Read) /\ CursorsGood(n)
    BY <1>5, <1>10, <1>14, <2>2, SetTrueModelInv
  <2>4. n.decisionLvl = x.model.decisionLvl /\ Free(n) = Free(x.model) \ {var(l)}
    BY <1>5, <1>14, <2>2, SetTrueKeeps
  <2> QED BY <1>14, <2>3, <2>4
<1>16. c.lastUnit \in Nat /\ c.lastBins \in [Lits -> Nat] /\ c.lastTernary \in Nat
  BY <1>1, <1>9, <1>12
<1> QED BY <1>9, <1>10, <1>11, <1>12, <1>13, <1>15, <1>16 DEF ShrunkTo

LEMMA ShrunkTernary ==
    ASSUME NEW w \in Workers, NEW a, NEW x, NEW rest, NEW c, NEW e,
           ShrunkFrom(w, a, x, rest, c, e), Cardinality(rest) = 3
    PROVE  ShrunkTo(x, c, e)
<1>1. /\ Typed(x) /\ db \in ClauseDBType /\ Counted(x, db)
      /\ x.lastUnit = a.lastUnit /\ x.lastBins = a.lastBins
      /\ x.lastTernary = a.lastTernary
      /\ x.lastUnit \in Nat /\ x.lastBins \in [Lits -> Nat] /\ x.lastTernary \in Nat
  BY ShrunkFacts
<1>2. /\ WorkerInv(x, db, Read) /\ DbInv(db, Read)
      /\ rest \in Clause /\ Follows(Read, rest)
      /\ SameAt(w, rest) /\ a = ad[w]
      /\ c = ShrunkSolver(x, rest) /\ e = ShrunkDB(w, a, rest)
  BY DEF ShrunkFrom
<1>3. PICK last, d, p :
         last = x.lastTernary /\ d = db /\ p = EntryFor(d.tDB, FALSE, last)
  OBVIOUS
<1>4. TernaryOf(d, rest, w, last, e, p)
  <2>1. e = InsertTernary(db, rest, FALSE, w, a.lastTernary)
    BY <1>2 DEF ShrunkDB
  <2> QED BY <1>1, <1>3, <2>1 DEF TernaryOf
<1>5. SameNext(d.tDB, last, rest)
  BY <1>1, <1>2, <1>3 DEF SameAt, SameNext, AlreadyInList
<1>6. /\ DbInv(e, Read) /\ Extends(db, e) /\ last + 1 <= Len(e.tDB) /\ last \in Nat
      /\ e \in ClauseDBType
  <2>1. last \in Nat /\ last <= Len(d.tDB) /\ DbInv(d, Read)
    BY <1>1, <1>2, <1>3 DEF Counted
  <2>2. DbInv(e, Read) /\ Extends(d, e) /\ last + 1 <= Len(e.tDB)
    BY <1>2, <1>4, <1>5, <2>1, TernaryLearned
  <2> QED BY <1>3, <2>1, <2>2 DEF DbInv
<1>7. Counted(x, e)
  <2>1. WorkerInv(x, e, Read)
    BY <1>1, <1>2, <1>6, WorkerInvStays
  <2> QED BY <2>1, WorkerParts DEF Core
<1>8. c = [x EXCEPT !.lastTernary = @ + 1]
  BY <1>2 DEF ShrunkSolver
<1>9. Differs(x, c, {"lastUnit", "lastBins", "lastTernary"})
  <2>1. DOMAIN c = Fields /\ c = [f \in Fields |-> c[f]]
    BY <1>1, <1>8 DEF Typed
  <2>2. \A f \in Fields \ {"lastTernary"} : c[f] = x[f]
    BY <1>1, <1>8 DEF Typed
  <2> QED BY <2>1, <2>2 DEF Differs
<1>10. /\ c.lastUnit = x.lastUnit /\ c.lastBins = x.lastBins
       /\ c.lastTernary = last + 1 /\ c.lastNary = x.lastNary
  BY <1>1, <1>3, <1>8 DEF Typed, Fields
<1>11. Counted(c, e)
  BY <1>6, <1>7, <1>10 DEF Counted
<1>12. c.lastUnit \in Nat /\ c.lastBins \in [Lits -> Nat] /\ c.lastTernary \in Nat
  BY <1>1, <1>6, <1>10
<1> QED BY <1>6, <1>9, <1>11, <1>12, ShrunkSame

TwoCounted(B, x1, x2, B2) == B2 = [B EXCEPT ![x1] = @ + 1, ![x2] = @ + 1]

LEMMA TwoMore ==
    ASSUME NEW B \in [Lits -> Nat], NEW x1 \in Lits, NEW x2 \in Lits, x1 # x2,
           NEW B2, TwoCounted(B, x1, x2, B2)
    PROVE  /\ B2 \in [Lits -> Nat] /\ B2[x1] = B[x1] + 1 /\ B2[x2] = B[x2] + 1
           /\ \A k \in Lits \ {x1, x2} : B2[k] = B[k]
<1>1. B[x1] \in Nat /\ B[x2] \in Nat /\ B2 = [B EXCEPT ![x1] = @ + 1, ![x2] = @ + 1]
  BY DEF TwoCounted
<1>2. B2[x1] = B[x1] + 1 /\ B2[x2] = B[x2] + 1 /\ \A k \in Lits \ {x1, x2} : B2[k] = B[k]
  BY <1>1
<1>3. B2 \in [Lits -> Nat]
  BY <1>1
<1> QED BY <1>2, <1>3

LEMMA ShrunkBinary ==
    ASSUME NEW w, NEW a, NEW x, NEW rest, NEW c, NEW e,
           ShrunkFrom(w, a, x, rest, c, e), Cardinality(rest) = 2
    PROVE  ShrunkTo(x, c, e)
<1>1. /\ Typed(x) /\ db \in ClauseDBType /\ Counted(x, db)
      /\ x.lastUnit = a.lastUnit /\ x.lastBins = a.lastBins
      /\ x.lastTernary = a.lastTernary
      /\ x.lastUnit \in Nat /\ x.lastBins \in [Lits -> Nat] /\ x.lastTernary \in Nat
  BY ShrunkFacts
<1>2. /\ WorkerInv(x, db, Read) /\ DbInv(db, Read)
      /\ rest \in Clause /\ Follows(Read, rest)
      /\ SameAt(w, rest) /\ a = ad[w] /\ a.pc = "clean"
      /\ c = ShrunkSolver(x, rest) /\ e = ShrunkDB(w, a, rest)
  BY DEF ShrunkFrom
<1>3. PICK u, l, first, other :
         /\ u = Min(rest) /\ l = Second(rest)
         /\ first = (CHOOSE k \in rest : TRUE) /\ other = (CHOOSE k \in rest : k # first)
  OBVIOUS
<1>4. u \in rest /\ l \in rest /\ u # l /\ rest = {u, l}
  <2>1. u \in rest /\ l \in rest /\ u # l
    BY <1>2, <1>3, FirstTwo
  <2> QED BY <1>2, <2>1, ClauseOfTwo
<1>5. first \in rest /\ other \in rest /\ first # other
  <2>1. first \in rest
    BY <1>3, <1>4
  <2>2. \E k \in rest : k # first
    BY <1>2, <2>1, ClauseOfTwo
  <2> QED BY <1>3, <2>1, <2>2
<1>6. PICK x1, x2, last1, last2, B, d :
         /\ x1 = -u /\ x2 = -l /\ B = x.lastBins
         /\ last1 = B[x1] /\ last2 = B[x2] /\ d = db
  OBVIOUS
<1>7. /\ u \in Lits /\ l \in Lits /\ x1 \in Lits /\ x2 \in Lits /\ x1 # x2
      /\ B \in [Lits -> Nat] /\ last1 \in Nat /\ last2 \in Nat
  <2>1. u \in Lits /\ l \in Lits
    BY <1>2, <1>4 DEF Clause
  <2>2. x1 \in Lits /\ x2 \in Lits /\ x1 # x2
    BY <1>4, <1>6, <2>1, LitFacts DEF Lits
  <2>3. B \in [Lits -> Nat]
    BY <1>1, <1>6
  <2> QED BY <1>6, <2>1, <2>2, <2>3
<1>8. last1 <= Len(d.bDB[-u]) /\ last2 <= Len(d.bDB[-l])
  BY <1>1, <1>6, <1>7 DEF Counted
<1>9. AlreadyInList(d.bDB[-u], FALSE, last1) => Len(d.bDB[-l]) > last2
  <2>1. Cardinality(rest) = 2
    OBVIOUS
  <2>2. Len(db.bDB[-u]) > a.lastBins[-u] => Len(db.bDB[-l]) > a.lastBins[-l]
    BY <1>2, <1>4, <2>1, SameBinary
  <2> QED BY <1>1, <1>6, <2>2 DEF AlreadyInList
<1>10. e = InsertBinary(d, u, l, FALSE, last1)
  <2>1. e = InsertBinary(db, Min(rest), Second(rest), FALSE, a.lastBins[-Min(rest)])
    BY <1>2 DEF ShrunkDB
  <2> QED BY <1>1, <1>3, <1>6, <2>1
<1>11. /\ DbInv(e, Read) /\ Extends(db, e) /\ e \in ClauseDBType
       /\ last1 + 1 <= Len(e.bDB[-u]) /\ last2 + 1 <= Len(e.bDB[-l])
  <2>1. DbInv(d, Read) /\ Follows(Read, {u, l}) /\ FALSE \in BOOLEAN
    BY <1>2, <1>4, <1>6
  <2>2. /\ DbInv(e, Read) /\ Extends(d, e)
        /\ last1 + 1 <= Len(e.bDB[-u]) /\ last2 + 1 <= Len(e.bDB[-l])
    BY <1>4, <1>7, <1>8, <1>9, <1>10, <2>1, BinaryInserted
  <2> QED BY <1>6, <2>2 DEF DbInv
<1>12. c = [x EXCEPT !.lastBins[-first] = @ + 1, !.lastBins[-other] = @ + 1]
  <2>1. c = CountBinary(x, CHOOSE k \in rest : TRUE,
                        CHOOSE k \in rest : k # CHOOSE j \in rest : TRUE)
    BY <1>2 DEF ShrunkSolver
  <2>2. c = CountBinary(x, first, other)
    BY <1>3, <2>1
  <2> QED BY <2>2 DEF CountBinary
<1>13. Differs(x, c, {"lastUnit", "lastBins", "lastTernary"})
  <2>1. DOMAIN c = Fields /\ c = [f \in Fields |-> c[f]]
    BY <1>1, <1>12 DEF Typed
  <2>2. \A f \in Fields \ {"lastBins"} : c[f] = x[f]
    BY <1>1, <1>12 DEF Typed
  <2> QED BY <2>1, <2>2 DEF Differs
<1>14. /\ c.lastUnit = x.lastUnit /\ c.lastTernary = x.lastTernary
       /\ c.lastNary = x.lastNary
       /\ c.lastBins = [B EXCEPT ![-first] = @ + 1, ![-other] = @ + 1]
  BY <1>1, <1>6, <1>12 DEF Typed, Fields
<1>15. PICK B2 : B2 = c.lastBins
  OBVIOUS
<1>16. /\ B2 \in [Lits -> Nat] /\ B2[x1] = last1 + 1 /\ B2[x2] = last2 + 1
       /\ \A k \in Lits \ {x1, x2} : B2[k] = B[k]
  <2>1. \/ -first = x1 /\ -other = x2
        \/ -first = x2 /\ -other = x1
    BY <1>4, <1>5, <1>6
  <2>2. CASE -first = x1 /\ -other = x2
    <3>1. TwoCounted(B, x1, x2, B2)
      BY <1>14, <1>15, <2>2 DEF TwoCounted
    <3> QED BY <1>6, <1>7, <3>1, TwoMore
  <2>3. CASE -first = x2 /\ -other = x1
    <3>1. TwoCounted(B, x2, x1, B2)
      BY <1>14, <1>15, <2>3 DEF TwoCounted
    <3> QED BY <1>6, <1>7, <3>1, TwoMore
  <2> QED BY <2>1, <2>2, <2>3
<1>17. Counted(x, e)
  <2>1. WorkerInv(x, e, Read)
    BY <1>1, <1>2, <1>11, WorkerInvStays
  <2> QED BY <2>1, WorkerParts DEF Core
<1>18. Counted(c, e)
  <2>1. ASSUME NEW k \in Lits PROVE B2[k] <= Len(e.bDB[k])
    <3>1. CASE k = x1
      BY <1>6, <1>11, <1>16, <3>1
    <3>2. CASE k = x2
      BY <1>6, <1>11, <1>16, <3>2
    <3>3. CASE k \notin {x1, x2}
      BY <1>6, <1>16, <1>17, <3>3 DEF Counted
    <3> QED BY <3>1, <3>2, <3>3
  <2> QED BY <1>14, <1>15, <1>17, <2>1 DEF Counted
<1>19. c.lastUnit \in Nat /\ c.lastBins \in [Lits -> Nat] /\ c.lastTernary \in Nat
  BY <1>1, <1>14, <1>15, <1>16
<1> QED BY <1>11, <1>13, <1>18, <1>19, ShrunkSame

LEMMA CountedStays ==
    ASSUME NEW c, NEW d \in ClauseDBType, NEW e \in ClauseDBType, Extends(d, e),
           Counted(c, d), c.lastUnit \in Nat, c.lastBins \in [Lits -> Nat],
           c.lastTernary \in Nat, c.lastNary \in Nat
    PROVE  Counted(c, e)
<1>1. /\ Len(d.uDB) \in Nat /\ Len(d.tDB) \in Nat /\ Len(d.nDB) \in Nat
      /\ Len(e.uDB) \in Nat /\ Len(e.tDB) \in Nat /\ Len(e.nDB) \in Nat
  BY DbFields
<1>2. /\ Len(d.uDB) <= Len(e.uDB) /\ Len(d.tDB) <= Len(e.tDB)
      /\ Len(d.nDB) <= Len(e.nDB)
  BY DEF Extends, Continues
<1>3. /\ c.lastUnit <= Len(d.uDB) /\ c.lastTernary <= Len(d.tDB)
      /\ c.lastNary <= Len(d.nDB)
  BY DEF Counted
<1>4. /\ c.lastUnit <= Len(e.uDB) /\ c.lastTernary <= Len(e.tDB)
      /\ c.lastNary <= Len(e.nDB)
  BY <1>1, <1>2, <1>3, SMTT(30)
<1>5. ASSUME NEW l \in Lits PROVE c.lastBins[l] <= Len(e.bDB[l])
  <2>1. Len(d.bDB[l]) \in Nat /\ Len(e.bDB[l]) \in Nat /\ c.lastBins[l] \in Nat
    BY DbFields
  <2>2. Len(d.bDB[l]) <= Len(e.bDB[l])
    BY DEF Extends, Continues
  <2>3. c.lastBins[l] <= Len(d.bDB[l])
    BY DEF Counted
  <2> QED BY <2>1, <2>2, <2>3
<1> QED BY <1>4, <1>5 DEF Counted

\* Named, so that the provers can match it.
NextClause(a, x) == x = [a EXCEPT !.cursor.pos = @ + 1]
AtClause(a, t) == a.pc = "clean" /\ a.cursor.pos <= Len(a.thcdb) /\ t = a.thcdb[a.cursor.pos]

LEMMA DeletedFields ==
    ASSUME NEW c, DOMAIN c = Fields, c = [f \in Fields |-> c[f]], NEW i,
           NEW b, b = Deleted(c, i)
    PROVE  Differs(c, b, {"thcdb"}) /\ b.thcdb = [c.thcdb EXCEPT ![i].pos = 0]
<1>1. DOMAIN b = Fields /\ b = [f \in Fields |-> b[f]]
  BY DEF Deleted
<1>2. \A f \in Fields \ {"thcdb"} : b[f] = c[f]
  BY DEF Deleted
<1>3. b.thcdb = [c.thcdb EXCEPT ![i].pos = 0]
  BY DEF Deleted, Fields
<1> QED BY <1>1, <1>2, <1>3 DEF Differs

\* The clause is deleted, and its flag goes down.
LEMMA DeletedIInv ==
    ASSUME IInv, NEW w \in Workers, NEW a, a = ad[w], NEW t, AtClause(a, t), NEW x, NextClause(a, x),
           NEW c, NEW d, ShrunkTo(x, c, d),
           NEW b, b = Deleted(c, a.cursor.pos), NEW e, e = FlagCleared(d, t.pos, w),
           Sharing(w, b, e)
    PROVE  IInv' /\ Extends(db, db')
<1>1. /\ WorkerInv(a, db, Read) /\ DbInv(db, Read) /\ db \in ClauseDBType
      /\ a.cursor.pos \in DOMAIN a.thcdb /\ t.pos \in DOMAIN db.nDB
  BY CleanFacts DEF AtClause
<1>2. Differs(a, x, {"cursor"}) /\ x.cursor = [a.cursor EXCEPT !.pos = @ + 1]
  BY CleanNext DEF AtClause, NextClause
<1>3. /\ Differs(x, c, {"model", "lastUnit", "lastBins", "lastTernary"})
      /\ DbInv(d, Read) /\ Extends(db, d) /\ Counted(c, d)
      /\ c.lastUnit \in Nat /\ c.lastBins \in [Lits -> Nat] /\ c.lastTernary \in Nat
      /\ c.model \in ModelType /\ ModelInv(c.model, x.thcdb, d, Read)
      /\ CursorsGood(c.model) /\ c.model.decisionLvl = 0 /\ Free(c.model) \subseteq x.heap
  BY DEF ShrunkTo
<1>4. PICK i, pos : i = a.cursor.pos /\ pos = t.pos
  OBVIOUS
<1>5. Differs(c, b, {"thcdb"}) /\ b.thcdb = [c.thcdb EXCEPT ![i].pos = 0]
  <2>1. DOMAIN c = Fields /\ c = [f \in Fields |-> c[f]] /\ b = Deleted(c, i)
    BY <1>3, <1>4 DEF Differs
  <2> QED BY <2>1, DeletedFields
<1>6. DbInv(e, Read) /\ Extends(d, e)
  <2>1. pos \in DOMAIN d.nDB /\ e = FlagCleared(d, pos, w)
    BY <1>1, <1>3, <1>4 DEF Extends
  <2> QED BY <1>3, <2>1, FlagClearedKeeps
<1>7. Extends(db, e) /\ e \in ClauseDBType /\ d \in ClauseDBType
  <2>1. d \in ClauseDBType /\ e \in ClauseDBType
    BY <1>3, <1>6 DEF DbInv
  <2> QED BY <1>1, <1>3, <1>6, <2>1, ExtendsFurther
<1>8. WorkerInv(a, e, Read)
  BY <1>1, <1>7, WorkerInvStays
<1>9. /\ x.thcdb = a.thcdb /\ x.heap = a.heap /\ x.lastNary = a.lastNary
      /\ c.thcdb = a.thcdb /\ c.heap = a.heap /\ c.cursor = x.cursor
      /\ c.lastNary = a.lastNary
  BY <1>2, <1>3 DEF Differs, Fields
<1>10. /\ b.model = c.model /\ b.lastUnit = c.lastUnit /\ b.lastBins = c.lastBins
       /\ b.lastTernary = c.lastTernary /\ b.lastNary = c.lastNary
       /\ b.cursor = c.cursor
  BY <1>5 DEF Differs, Fields
<1>11. CleanedOne(a, b)
  <2>1. Differs(a, b, {"cursor", "thcdb", "model", "lastUnit", "lastBins", "lastTernary"})
    BY <1>2, <1>3, <1>5 DEF Differs
  <2>2. b.cursor = [a.cursor EXCEPT !.pos = @ + 1]
    BY <1>2, <1>9, <1>10
  <2>3. b.thcdb = [a.thcdb EXCEPT ![a.cursor.pos].pos = 0]
    BY <1>4, <1>5, <1>9
  <2> QED BY <1>1, <2>1, <2>2, <2>3 DEF CleanedOne
<1>12. Counted(b, e)
  <2>1. c.lastNary \in Nat
    <3>1. Typed(a)
      BY <1>8 DEF WorkerInv
    <3> QED BY <1>9, <3>1 DEF Typed
  <2>2. Counted(c, e)
    BY <1>3, <1>6, <1>7, <2>1, CountedStays
  <2> QED BY <1>10, <2>2 DEF Counted
<1>13. /\ b.model \in ModelType /\ ModelInv(b.model, a.thcdb, e, Read)
       /\ CursorsGood(b.model) /\ b.model.decisionLvl = 0
       /\ Free(b.model) \subseteq a.heap
       /\ b.lastUnit \in Nat /\ b.lastBins \in [Lits -> Nat] /\ b.lastTernary \in Nat
  <2>1. ModelInv(c.model, a.thcdb, d, Read)
    BY <1>3, <1>9
  <2>2. PlacesKept(a.thcdb, a.thcdb)
    BY DEF PlacesKept
  <2>3. ModelInv(c.model, a.thcdb, e, Read)
    <3>1. PICK P, n, th : P = Read /\ n = c.model /\ th = a.thcdb
      OBVIOUS
    <3>2. n \in ModelType /\ ModelInv(n, th, d, P) /\ P \subseteq P /\ PlacesKept(th, th)
      BY <1>3, <2>1, <2>2, <3>1
    <3>3. ModelInv(n, th, e, P)
      BY <1>6, <1>7, <3>2, ModelInvStays
    <3> QED BY <3>1, <3>3
  <2> QED BY <1>3, <1>9, <1>10, <2>3
<1>15. a.pc = "clean"
  BY DEF AtClause
<1>14. WorkerInv(b, e, Read) /\ b.pc = "clean"
  <2>1. PICK P : P = Read
    OBVIOUS
  <2>2. /\ WorkerInv(a, e, P) /\ ModelInv(b.model, a.thcdb, e, P)
        /\ b.model \in ModelType
        /\ CursorsGood(b.model) /\ b.model.decisionLvl = 0
        /\ Free(b.model) \subseteq a.heap
        /\ b.lastUnit \in Nat /\ b.lastBins \in [Lits -> Nat] /\ b.lastTernary \in Nat
    BY <1>8, <1>13, <2>1
  <2>3. WorkerInv(b, e, P) /\ b.pc = "clean"
    BY <1>11, <1>12, <1>15, <2>2, CleanedKeeps
  <2> QED BY <2>1, <2>3
<1> QED BY <1>6, <1>7, <1>14, <1>15, SharingKeeps

\* CleanClause keeps the invariant.
LEMMA CleanClauseIInv ==
    ASSUME IInv, SameSearch, NEW w \in Workers, CleanClause(w)
    PROVE  IInv' /\ Extends(db, db')
<1>1. PICK a, i, t, rest, x :
         /\ a = ad[w] /\ i = a.cursor.pos /\ t = a.thcdb[i] /\ rest = Undefined(a, t)
         /\ x = [a EXCEPT !.cursor.pos = @ + 1]
  OBVIOUS
<1>2. a.pc = "clean" /\ i <= Len(a.thcdb)
  BY <1>1 DEF CleanClause, At
<1>9. AtClause(a, t) /\ NextClause(a, x)
  BY <1>1, <1>2 DEF AtClause, NextClause
<1>3. /\ WorkerInv(x, db, Read) /\ x.pc = "clean"
      /\ Differs(a, x, {"cursor"}) /\ x.cursor = [a.cursor EXCEPT !.pos = @ + 1]
  BY <1>1, <1>2, CleanNext
<1>4. DbInv(db, Read) /\ db \in ClauseDBType
  BY DEF IInv, DbInv
<1>5. /\ Typed(x) /\ Counted(x, db) /\ x.model.decisionLvl = 0
      /\ x.model \in ModelType /\ ModelInv(x.model, x.thcdb, db, Read)
      /\ CursorsGood(x.model) /\ Free(x.model) \subseteq x.heap
  BY <1>3, WorkerParts, NotPopping DEF Core, Visiting
<1>6. CASE Sharing(w, Deleted(x, i), FlagCleared(db, t.pos, w))
  <2>1. Extends(db, db)
    BY <1>4, ExtendsSame
  <2>2. Differs(x, x, {"model", "lastUnit", "lastBins", "lastTernary"})
    BY <1>5 DEF Typed, Differs
  <2>3. x.lastUnit \in Nat /\ x.lastBins \in [Lits -> Nat] /\ x.lastTernary \in Nat
    BY <1>5 DEF Typed
  <2>4. ShrunkTo(x, x, db)
    BY <1>3, <1>4, <1>5, <2>1, <2>2, <2>3 DEF ShrunkTo
  <2>5. PICK b, d, e : b = Deleted(x, i) /\ d = db /\ e = FlagCleared(d, t.pos, w)
    OBVIOUS
  <2>6. Sharing(w, b, e) /\ ShrunkTo(x, x, d)
    BY <1>6, <2>4, <2>5
  <2> QED BY <1>1, <1>9, <2>5, <2>6, DeletedIInv
<1>7. CASE Local(w, x)
  BY <1>1, <1>2, <1>3, <1>7, LocalKeeps, Zenon
<1>8. CASE /\ IsKept(t) /\ ~IsSatisfied(a, t) /\ Cardinality(rest) \in 1..3
           /\ Sharing(w, Deleted(ShrunkSolver(x, rest), i),
                         FlagCleared(ShrunkDB(w, a, rest), t.pos, w))
  <2>1. PICK c, d, b, e :
           /\ c = ShrunkSolver(x, rest) /\ d = ShrunkDB(w, a, rest)
           /\ b = Deleted(c, i) /\ e = FlagCleared(d, t.pos, w)
    OBVIOUS
  <2>2. Sharing(w, b, e)
    BY <1>8, <2>1
  <2>3. rest \in Clause /\ Follows(Read, rest) /\ \A l \in rest : IsUndef(a.model, l)
    BY <1>1, <1>2, <1>8, UndefinedFollows, Zenon
  <2>4. SameAt(w, rest)
    BY <1>1, <1>2, <1>8, Zenon DEF SameSearch
  <2>5. ShrunkFrom(w, a, x, rest, c, d)
    <3>1. x.model = a.model
      BY <1>3 DEF Differs, Fields
    <3> QED BY <1>1, <1>2, <1>3, <1>4, <2>1, <2>3, <2>4, <3>1, Zenon DEF ShrunkFrom
  <2>6. ShrunkTo(x, c, d)
    <3>1. Cardinality(rest) \in Nat
      BY <2>3, ClauseSize
    <3>2. Cardinality(rest) = 1 \/ Cardinality(rest) = 2 \/ Cardinality(rest) = 3
      BY <1>8, <3>1
    <3> QED BY <2>5, <3>2, ShrunkUnit, ShrunkBinary, ShrunkTernary
  <2> QED BY <1>1, <1>9, <2>1, <2>2, <2>6, DeletedIInv, Zenon
<1> QED BY <1>1, <1>6, <1>7, <1>8 DEF CleanClause

\* CompactAndWatch keeps the invariant: the clauses that are left are watched anew.
LEMMA CompactAndWatchIInv == ASSUME IInv, NEW w \in Workers, CompactAndWatch(w) PROVE IInv'
<1>1. PICK a, th, S, kept, aged, watches, b :
         /\ a = ad[w] /\ th = a.thcdb /\ S = {i \in DOMAIN th : th[i].pos # 0}
         /\ kept = InOrderOf(S)
         /\ aged = [n \in DOMAIN kept |-> [th[kept[n]] EXCEPT !.activity = @ \div 2]]
         /\ watches = WatchLists(aged)
         /\ b = [a EXCEPT !.pc = "propagate", !.cursor = NoCursor, !.cleaning = TRUE,
                          !.thcdb = aged, !.watches = watches]
  OBVIOUS
<1>2. a.pc = "clean" /\ a.cursor.pos > Len(th) /\ Local(w, b)
  BY <1>1, Zenon DEF CompactAndWatch, At
<1>3. WorkerInv(a, db, Read)
  BY <1>1, Zenon DEF IInv
<1>4. Typed(a) /\ Core(a, db, Read) /\ Place(a, db, Read)
  BY <1>3 DEF WorkerInv
<1>5. th \in Seq(ThClause) /\ Len(th) \in Nat /\ DOMAIN th = 1..Len(th)
  <2>1. th \in Seq(ThClause)
    BY <1>1, <1>4, Zenon DEF Typed
  <2> QED BY <2>1
<1>6. kept \in Seq(Nat) /\ Range(kept) = S
  <2>1. S = {i \in DOMAIN th : th[i].pos # 0}
    BY <1>1, Zenon
  <2>2. S \subseteq 1..Len(th)
    BY <1>5, <2>1
  <2>3. S \in SUBSET Nat
    BY <1>5, <2>2
  <2>4. IsFiniteSet(1..Len(th))
    BY <1>5, FS_Interval
  <2>5. IsFiniteSet(S)
    BY <2>2, <2>4, FS_Subset, Zenon
  <2>6. kept = InOrderOf(S)
    BY <1>1, Zenon
  <2> QED BY <2>3, <2>5, <2>6, InOrderOfLists
<1>7. ASSUME NEW n \in DOMAIN kept
      PROVE  /\ aged[n] \in ThClause /\ ThGood(aged[n], db)
  <2>1. PICK j, t, u : j = kept[n] /\ t = th[j] /\ u = aged[n]
    OBVIOUS
  <2>2. j \in DOMAIN th /\ t.pos # 0
    <3>1. j \in S
      BY <1>6, <1>7, <2>1 DEF Range
    <3> QED BY <1>1, <2>1, <3>1, Zenon
  <2>3. t \in ThClause
    BY <1>5, <2>1, <2>2
  <2>4. u = [t EXCEPT !.activity = @ \div 2]
    BY <1>1, <1>7, <2>1, Zenon
  <2>5. t.activity \in Nat /\ t.activity \div 2 \in Nat
    BY <2>3 DEF ThClause
  <2>6. /\ u \in ThClause /\ u.pos = t.pos /\ u.w1 = t.w1 /\ u.w2 = t.w2
    BY <2>3, <2>4, <2>5 DEF ThClause
  <2>7. ThGood(t, db)
    BY <1>1, <1>4, <2>1, <2>2, Zenon DEF Core, ThHeld
  <2>8. ThGood(u, db)
    BY <2>6, <2>7 DEF ThGood
  <2> QED BY <2>1, <2>6, <2>8
<1>8. aged \in Seq(ThClause) /\ DOMAIN aged = DOMAIN kept
  <2>1. Len(kept) \in Nat /\ DOMAIN kept = 1..Len(kept)
    BY <1>6
  <2>2. DOMAIN aged = 1..Len(kept)
    BY <1>1, <2>1, Zenon
  <2>3. aged = [n \in 1..Len(kept) |-> aged[n]]
    BY <1>1, <2>1, Zenon
  <2>4. \A n \in 1..Len(kept) : aged[n] \in ThClause
    BY <1>7, <2>1
  <2>5. aged \in [1..Len(kept) -> ThClause]
    BY <2>3, <2>4
  <2> QED BY <2>1, <2>2, <2>5, SeqDef
<1>9. watches \in [Lits -> Seq(Nat)] /\ Linked(aged, watches)
  BY <1>1, <1>8, WatchListsLinked, Zenon
<1>10. Differs(a, b, {"pc", "cursor", "cleaning", "thcdb", "watches"})
  <2>1. DOMAIN b = Fields /\ b = [f \in Fields |-> b[f]]
    BY <1>1, <1>4, Zenon DEF Typed
  <2>2. \A f \in Fields \ {"pc", "cursor", "cleaning", "thcdb", "watches"} : b[f] = a[f]
    BY <1>1, <1>4, Zenon DEF Typed
  <2> QED BY <2>1, <2>2 DEF Differs
<1>11. /\ b.pc = "propagate" /\ b.cursor = NoCursor /\ b.cleaning = TRUE
       /\ b.thcdb = aged /\ b.watches = watches
  BY <1>1, <1>4, Zenon DEF Typed, Fields
<1>12. /\ b.lastUnit = a.lastUnit /\ b.model = a.model
       /\ b.lastBins = a.lastBins /\ b.lastTernary = a.lastTernary
       /\ b.lastNary = a.lastNary /\ b.marks = a.marks /\ b.clause = a.clause
       /\ b.poppedLit = a.poppedLit /\ b.pending = a.pending /\ b.lemma = a.lemma
       /\ b.lemmaToLearn = a.lemmaToLearn /\ b.heap = a.heap
       /\ b.uip = a.uip /\ b.rUIP = a.rUIP
       /\ b.dlToBackjump = a.dlToBackjump /\ b.result = a.result
       /\ b.sinceRestart = a.sinceRestart /\ b.sinceCleanup = a.sinceCleanup
       /\ b.cleanupLimit = a.cleanupLimit /\ b.decisions = a.decisions
  BY <1>10 DEF Differs, Fields
<1>13. Typed(b)
  <2>1. b.pc \in Locations /\ b.cursor \in Cursor /\ b.cleaning \in BOOLEAN
    <3>1. NoCursor \in Cursor
      BY DEF NoCursor, Cursor, ZeroLit
    <3> QED BY <1>11, <3>1 DEF Locations
  <2>2. b.thcdb \in Seq(ThClause) /\ b.watches \in [Lits -> Seq(Nat)]
    BY <1>8, <1>9, <1>11
  <2> QED BY <1>4, <1>10, <1>12, <2>1, <2>2 DEF Typed, Differs
<1>14. Core(b, db, Read)
  <2>1. Counted(b, db)
    BY <1>4, <1>12 DEF Core, Counted
  <2>2. ThHeld(b, db)
    BY <1>7, <1>8, <1>11 DEF ThHeld
  <2>3. WatchInv(b)
    BY <1>9, <1>11 DEF WatchInv
  <2>4. ModelInv(b.model, b.thcdb, db, Read)
    <3>1. a.model.decisionLvl = 0
      BY <1>2, <1>4 DEF Place, Visiting
    <3> QED BY <1>3, <1>12, <3>1, ReasonsAtZero, WorkerParts DEF ModelInv
  <2>5. Free(b.model) \subseteq b.heap
    BY <1>4, <1>12 DEF Core
  <2> QED BY <2>1, <2>2, <2>3, <2>4, <2>5 DEF Core
<1>15. Place(b, db, Read)
  <2>1. /\ Visiting(b, db) /\ Conflict(b, Read) /\ Marking(b, Read) /\ Popped(b, Read)
        /\ Lemma(b, Read) /\ Shortening(b, Read) /\ Backjumping(b, db, Read)
    BY <1>11 DEF Visiting, Conflict, Marking, Popped, Lemma, Shortening, Backjumping
  <2>2. Answered(b, Read) /\ Unmarked(b)
    BY <1>2, <1>4, <1>11, <1>12 DEF Place, Answered, Unmarked
  <2>3. CursorsGood(b.model)
    BY <1>2, <1>3, <1>12, NotPopping
  <2>4. CursorInv(b)
    BY <1>11, <2>3 DEF CursorInv
  <2> QED BY <2>1, <2>2, <2>4 DEF Place
<1>16. WorkerInv(b, db, Read)
  BY <1>13, <1>14, <1>15 DEF WorkerInv
<1> QED BY <1>1, <1>2, <1>11, <1>16, LocalKeeps, Zenon

\* Every step of a restart or a cleanup keeps the invariant.
LEMMA UpkeepIInv ==
    ASSUME IInv, SameSearch, NEW w \in Workers, Upkeep(w)
    PROVE  IInv'
BY RestartIfAdequateIInv, RestartDoneIInv, CleanupIfAdequateIInv, StartCleaningIInv,
   CleanClauseIInv, CompactAndWatchIInv DEF Upkeep

-----------------------------------------------------------------------------
(* azuDICI_decide: an undefined variable is set on a level of its own. *)

\* The literal decided is undefined, of either phase.
LEMMA DecisionLitUndef ==
    ASSUME NEW m \in ModelType, TrailConsistent(m), NEW v \in Vars, IsUndefVar(m, v),
           NEW l, l = DecisionLit(m, v)
    PROVE  l \in Lits /\ IsUndef(m, l) /\ var(l) = v
<1>1. v \in Lits /\ -v \in Lits /\ var(v) = v /\ var(-v) = v
  BY NumVarsAssumption DEF Vars, Lits, var
<1>2. IsUndef(m, v)
  BY DEF IsUndefVar, IsUndef
<1>3. IsUndef(m, -v)
  BY <1>1, <1>2, NegationUndef
<1> QED BY <1>1, <1>2, <1>3 DEF DecisionLit

\* A worker that decides an undefined variable, and of the heap gives up no other one.
LEMMA DecidedKeeps ==
    ASSUME NEW a, NEW b, NEW d, NEW P, WorkerInv(a, d, P), a.pc = "decide",
           NEW v \in Vars, IsUndefVar(a.model, v), b.pc = "propagate",
           Differs(a, b, {"pc", "model", "decisions", "heap"}), b.decisions \in Nat,
           b.model = SetTrueDecision(a.model, DecisionLit(a.model, v)),
           b.heap \in SUBSET Vars, Free(a.model) \ {v} \subseteq b.heap, DbInv(d, P)
    PROVE  WorkerInv(b, d, P)
<1>1. /\ a.model \in ModelType /\ TrailConsistent(a.model)
      /\ ModelInv(a.model, a.thcdb, d, P) /\ a.thcdb \in Seq(ThClause) /\ Typed(a)
  BY WorkerParts
<1>2. CursorsGood(a.model) /\ FullyPropagated(a.model)
  BY NotPopping
<1>3. PICK l : l = DecisionLit(a.model, v)
  OBVIOUS
<1>4. l \in Lits /\ IsUndef(a.model, l) /\ var(l) = v
  BY <1>1, <1>3, DecisionLitUndef
<1>5. /\ b.model \in ModelType /\ ModelInv(b.model, a.thcdb, d, P)
      /\ CursorsGood(b.model) /\ Free(b.model) = Free(a.model) \ {var(l)}
  <2>1. b.model = SetTrueDecision(a.model, l) /\ d \in ClauseDBType
    BY <1>3 DEF DbInv
  <2> QED BY <1>1, <1>2, <1>4, <2>1, DecisionModelInv
<1>6. Free(b.model) \subseteq b.heap
  BY <1>4, <1>5
<1>7. /\ b.cursor = a.cursor /\ b.cleaning = a.cleaning
      /\ b.sinceRestart = a.sinceRestart /\ b.sinceCleanup = a.sinceCleanup
      /\ b.cleanupLimit = a.cleanupLimit
  BY DEF Differs, Fields
<1>8. /\ b.cursor \in Cursor /\ b.cleaning \in BOOLEAN /\ b.sinceRestart \in Nat
      /\ b.sinceCleanup \in Nat /\ b.cleanupLimit \in Nat
  BY <1>1, <1>7 DEF Typed
<1>9. Differs(a, b, Control)
  BY DEF Differs, Control
<1>10. CursorInv(b) /\ Visiting(b, d)
  BY <1>5 DEF CursorInv, Visiting
<1>11. a.pc \in Idle /\ b.pc \in Idle
  BY DEF Idle
<1> QED BY <1>5, <1>6, <1>8, <1>9, <1>10, <1>11, IdleStep

\* Decided sets three fields.
LEMMA DecidedFields ==
    ASSUME NEW a, Typed(a), NEW v, NEW b, b = Decided(a, v)
    PROVE  /\ Differs(a, b, {"pc", "model", "decisions"}) /\ b.pc = "propagate"
           /\ b.model = SetTrueDecision(a.model, DecisionLit(a.model, v))
           /\ b.decisions \in Nat /\ b.heap = a.heap
<1>1. a.decisions \in Nat
  BY DEF Typed
<1>2. b = [a EXCEPT !.pc = "propagate",
                    !.model = SetTrueDecision(a.model, DecisionLit(a.model, v)),
                    !.decisions = (a.decisions + 1) % FractionRandomDecisions]
  BY DEF Decided, Typed, Fields
<1>3. (a.decisions + 1) % FractionRandomDecisions \in Nat
  BY <1>1, ParametersAssumption
<1>4. Differs(a, b, {"pc", "model", "decisions"})
  <2>1. DOMAIN b = Fields /\ b = [f \in Fields |-> b[f]]
    BY <1>2 DEF Typed
  <2>2. \A f \in Fields \ {"pc", "model", "decisions"} : b[f] = a[f]
    BY <1>2 DEF Typed
  <2> QED BY <2>1, <2>2 DEF Differs
<1>5. /\ b.pc = "propagate" /\ b.heap = a.heap
      /\ b.model = SetTrueDecision(a.model, DecisionLit(a.model, v))
      /\ b.decisions = (a.decisions + 1) % FractionRandomDecisions
  BY <1>2 DEF Typed, Fields
<1> QED BY <1>3, <1>4, <1>5

\* A random decision finds an undefined variable.
LEMMA RandomDecisionIs ==
    ASSUME NEW m, NEW r \in RandomVars, NEW v, v = RandomDecision(m, r), v # 0
    PROVE  v \in Vars /\ IsUndefVar(m, v)
<1>1. PICK S : S = {k \in 0..RandomTries : IsUndefVar(m, RandomTry(r, k))}
  OBVIOUS
<1>2. S # {} /\ v = RandomTry(r, Min(S))
  BY <1>1 DEF RandomDecision
<1>3. S \subseteq Nat
  BY <1>1, ParametersAssumption
<1>4. PICK k : k = Min(S)
  OBVIOUS
<1>5. k \in S
  <2>1. \E x \in S : \A y \in S : x <= y
    BY <1>2, <1>3, HasSmallest
  <2> QED BY <1>4, <2>1 DEF Min
<1>6. k \in Nat /\ IsUndefVar(m, v)
  BY <1>1, <1>2, <1>3, <1>4, <1>5
<1>7. r \in Nat /\ r >= 1
  BY ParametersAssumption DEF Vars
<1>8. (r - 1 + 2 * k) % N \in 0..(N - 1)
  BY <1>6, <1>7, NumVarsAssumption
<1>9. v \in Vars
  BY <1>2, <1>4, <1>8, NumVarsAssumption DEF RandomTry, Vars
<1> QED BY <1>6, <1>9

LEMMA DecideAtRandomIInv == ASSUME IInv, NEW w \in Workers, DecideAtRandom(w) PROVE IInv'
<1>1. PICK a : a = ad[w]
  OBVIOUS
<1>2. /\ WorkerInv(a, db, Read) /\ DbInv(db, Read) /\ Typed(a) /\ a.pc = "decide"
      /\ Free(a.model) \subseteq a.heap /\ a.heap \in SUBSET Vars
  BY <1>1, WorkerParts DEF IInv, DecideAtRandom, At
<1>3. PICK r \in RandomVars : /\ RandomDecision(a.model, r) # 0
                              /\ Local(w, Decided(a, RandomDecision(a.model, r)))
  BY <1>1 DEF DecideAtRandom
<1>4. PICK v, b : v = RandomDecision(a.model, r) /\ b = Decided(a, v)
  OBVIOUS
<1>5. v \in Vars /\ IsUndefVar(a.model, v)
  BY <1>3, <1>4, RandomDecisionIs
<1>6. /\ Differs(a, b, {"pc", "model", "decisions"}) /\ b.pc = "propagate"
      /\ b.model = SetTrueDecision(a.model, DecisionLit(a.model, v))
      /\ b.decisions \in Nat /\ b.heap = a.heap
  BY <1>2, <1>4, DecidedFields
<1>7. Differs(a, b, {"pc", "model", "decisions", "heap"})
  BY <1>6 DEF Differs
<1>8. b.heap \in SUBSET Vars /\ Free(a.model) \ {v} \subseteq b.heap
  BY <1>2, <1>6
<1>9. WorkerInv(b, db, Read)
  BY <1>2, <1>5, <1>6, <1>7, <1>8, DecidedKeeps
<1> QED BY <1>1, <1>2, <1>3, <1>4, <1>6, <1>9, LocalKeeps

\* The heap serves an undefined variable, and every other undefined one is behind it.
LEMMA HeapDecisionIs ==
    ASSUME NEW m, NEW heap \in SUBSET Vars, NEW order \in DecisionOrders,
           \E v \in heap : IsUndefVar(m, v), NEW v, v = HeapDecision(m, heap, order)
    PROVE  /\ v \in heap /\ IsUndefVar(m, v)
           /\ \A u \in heap : IsUndefVar(m, u) /\ u # v => order[u] < order[v]
<1>1. order \in [Vars -> Nat] /\ \A x, y \in Vars : x # y => order[x] # order[y]
  BY ParametersAssumption
<1>2. PICK S : S = {u \in heap : IsUndefVar(m, u)}
  OBVIOUS
<1>3. \E x \in S : \A u \in S : order[u] <= order[x]
  <2>1. S \in SUBSET (1..N) /\ S # {} /\ order \in [1..N -> Nat] /\ N \in Nat
    BY <1>1, <1>2, NumVarsAssumption DEF Vars
  <2> QED BY <2>1, HasGreatest
<1>4. \E x \in heap : /\ IsUndefVar(m, x)
                      /\ \A u \in heap : IsUndefVar(m, u) => order[u] <= order[x]
  BY <1>2, <1>3
<1>5. /\ v \in heap /\ IsUndefVar(m, v)
      /\ \A u \in heap : IsUndefVar(m, u) => order[u] <= order[v]
  BY <1>4 DEF HeapDecision
<1>6. ASSUME NEW u \in heap, IsUndefVar(m, u), u # v PROVE order[u] < order[v]
  <2>1. order[u] <= order[v] /\ order[u] # order[v]
    BY <1>1, <1>5, <1>6
  <2>2. order[u] \in Nat /\ order[v] \in Nat
    BY <1>1, <1>5
  <2> QED BY <2>1, <2>2
<1> QED BY <1>5, <1>6

LEMMA DecideFromHeapIInv == ASSUME IInv, NEW w \in Workers, DecideFromHeap(w) PROVE IInv'
<1>1. PICK a : a = ad[w]
  OBVIOUS
<1>2. /\ WorkerInv(a, db, Read) /\ DbInv(db, Read) /\ Typed(a) /\ a.pc = "decide"
      /\ Free(a.model) \subseteq a.heap /\ a.heap \in SUBSET Vars
  BY <1>1, WorkerParts DEF IInv, DecideFromHeap, At
<1>3. \E u \in a.heap : IsUndefVar(a.model, u)
  BY <1>1 DEF DecideFromHeap
<1>4. PICK order \in DecisionOrders :
         LET v == HeapDecision(a.model, a.heap, order)
         IN  Local(w, [Decided(a, v) EXCEPT
                         !.heap = {u \in a.heap : order[u] < order[v]}])
  BY <1>1 DEF DecideFromHeap
<1>5. PICK v, c, h, b : /\ v = HeapDecision(a.model, a.heap, order)
                        /\ c = Decided(a, v)
                        /\ h = {u \in a.heap : order[u] < order[v]}
                        /\ b = [c EXCEPT !.heap = h]
  OBVIOUS
<1>6. Local(w, b)
  BY <1>4, <1>5
<1>7. /\ v \in a.heap /\ IsUndefVar(a.model, v)
      /\ \A u \in a.heap : IsUndefVar(a.model, u) /\ u # v => order[u] < order[v]
  BY <1>2, <1>3, <1>5, HeapDecisionIs
<1>8. /\ Differs(a, c, {"pc", "model", "decisions"}) /\ c.pc = "propagate"
      /\ c.model = SetTrueDecision(a.model, DecisionLit(a.model, v))
      /\ c.decisions \in Nat
  BY <1>2, <1>5, DecidedFields
<1>9. b.heap = h /\ b.pc = c.pc /\ b.model = c.model /\ b.decisions = c.decisions
  BY <1>5, <1>8 DEF Differs, Fields
<1>10. Differs(a, b, {"pc", "model", "decisions", "heap"})
  <2>1. DOMAIN b = Fields /\ b = [f \in Fields |-> b[f]]
    BY <1>5, <1>8 DEF Differs
  <2>2. \A f \in Fields \ {"pc", "model", "decisions", "heap"} : b[f] = a[f]
    BY <1>5, <1>8 DEF Differs
  <2> QED BY <2>1, <2>2 DEF Differs
<1>11. h \in SUBSET Vars /\ Free(a.model) \ {v} \subseteq h
  BY <1>2, <1>5, <1>7 DEF Free
<1>12. WorkerInv(b, db, Read)
  <2>1. v \in Vars
    BY <1>2, <1>7
  <2>2. /\ b.pc = "propagate" /\ b.decisions \in Nat
        /\ b.model = SetTrueDecision(a.model, DecisionLit(a.model, v))
        /\ b.heap \in SUBSET Vars /\ Free(a.model) \ {v} \subseteq b.heap
    BY <1>8, <1>9, <1>11
  <2> QED BY <1>2, <1>7, <1>10, <2>1, <2>2, DecidedKeeps
<1> QED BY <1>1, <1>2, <1>6, <1>8, <1>9, <1>12, LocalKeeps

\* An empty heap says that the model is complete.
LEMMA ReportSatIInv == ASSUME IInv, NEW w \in Workers, ReportSat(w) PROVE IInv'
<1>1. PICK a, b : a = ad[w] /\ b = [a EXCEPT !.heap = {}, !.pc = "done", !.result = 10]
  OBVIOUS
<1>2. /\ WorkerInv(a, db, Read) /\ DbInv(db, Read) /\ Typed(a) /\ a.pc = "decide"
      /\ Free(a.model) \subseteq a.heap /\ Local(w, b)
  BY <1>1, WorkerParts DEF IInv, ReportSat, At
<1>3. Free(a.model) = {}
  <2>1. \A v \in a.heap : ~IsUndefVar(a.model, v)
    BY <1>1 DEF ReportSat
  <2> QED BY <1>2, <2>1 DEF Free
<1>4. Differs(a, b, {"pc", "result", "heap"})
  <2>1. DOMAIN b = Fields /\ b = [f \in Fields |-> b[f]]
    BY <1>1, <1>2 DEF Typed
  <2>2. \A f \in Fields \ {"pc", "result", "heap"} : b[f] = a[f]
    BY <1>1, <1>2 DEF Typed
  <2> QED BY <2>1, <2>2 DEF Differs
<1>5. b.pc = "done" /\ b.result = 10 /\ b.heap = {}
  BY <1>1, <1>2 DEF Typed, Fields
<1>6. WorkerInv(b, db, Read)
  BY <1>2, <1>3, <1>4, <1>5, FinishKeeps
<1> QED BY <1>1, <1>2, <1>5, <1>6, LocalKeeps

LEMMA DecisionIInv == ASSUME IInv, NEW w \in Workers, Decision(w) PROVE IInv'
BY DecideAtRandomIInv, DecideFromHeapIInv, ReportSatIInv DEF Decision

LEMMA UnitsIInv == ASSUME IInv, NEW w \in Workers, Units(w) PROVE IInv'
BY StartSolveIInv, SetTrueUnitIInv, UnitsDoneIInv DEF Units

LEMMA PropagationIInv == ASSUME IInv, NEW w \in Workers, Propagation(w) PROVE IInv'
BY HandOutIInv, VisitBinaryIInv, VisitTernaryIInv, VisitNaryIInv, ListDoneIInv,
   PropagationDoneIInv DEF Propagation

LEMMA WorkerIInv == ASSUME IInv, SameSearch, NEW w \in Workers, Worker(w) PROVE IInv'
BY UnitsIInv, PropagationIInv, AnalysisIInv, LearningIInv, UpkeepIInv, DecisionIInv
   DEF Worker
-----------------------------------------------------------------------------
(* main: the formula is read into the database, and every worker made from it. *)

\* An empty model.
LEMMA ModelInitGood ==
    ASSUME NEW phase \in [Vars -> BOOLEAN], NEW m, m = ModelInit(phase),
           NEW th, NEW d, NEW P
    PROVE  /\ m \in ModelType /\ ModelInv(m, th, d, P) /\ CursorsGood(m)
           /\ m.decisionLvl = 0 /\ m.phase = phase
<1>1. /\ m.stack = <<>> /\ Len(m.stack) = 0 /\ m.value = [l \in Lits |-> "undef"]
      /\ m.decisionLvl = 0 /\ m.last = [k \in Kinds |-> -1] /\ m.phase = phase
  BY DEF ModelInit
<1>2. m \in ModelType
  <2>1. NoReason \in Reason
    BY DEF NoReason, Reason
  <2> QED BY <2>1 DEF ModelInit, ModelType, Values
<1>3. \A l \in Lits : ~IsTrue(m, l) /\ ~IsFalse(m, l)
  BY <1>1 DEF IsTrue, IsFalse
<1>4. TrailConsistent(m)
  <2>1. StackMatchesValues(m)
    BY <1>1, <1>3, LitFacts DEF StackMatchesValues
  <2>2. LevelsCountMarkers(m)
    <3>1. MarkersBelow(m, 1) = {} /\ Len(m.stack) + 1 = 1
      BY <1>1 DEF MarkersBelow
    <3>2. m.decisionLvl = Cardinality(MarkersBelow(m, Len(m.stack) + 1))
      BY <1>1, <3>1, FS_EmptySet
    <3> QED BY <1>1, <3>2 DEF LevelsCountMarkers
  <2>3. DecisionsStandOnMarkers(m)
    BY <1>1 DEF DecisionsStandOnMarkers
  <2> QED BY <2>1, <2>2, <2>3 DEF TrailConsistent
<1>5. ReasonsInv(m, th, d, P) /\ FixedFollow(m, P) /\ LevelsNotEmpty(m)
  BY <1>1, <1>3 DEF ReasonsInv, FixedFollow, LevelsNotEmpty, Implied
<1>6. CursorsGood(m)
  BY <1>1 DEF CursorsGood
<1> QED BY <1>1, <1>2, <1>4, <1>5, <1>6 DEF ModelInv

\* azuDICI_init_thcdb gives every stored clause of the database two watches.
LEMMA InitThcdbGood ==
    ASSUME NEW P, DbInv(db, P)
    PROVE  /\ InitThcdb \in Seq(ThClause)
           /\ \A i \in DOMAIN InitThcdb : ThGood(InitThcdb[i], db)
<1>1. /\ db.nDB \in Seq(NaryEntry) /\ DOMAIN db.nDB = 1..Len(db.nDB)
      /\ Len(db.nDB) \in Nat
  BY DbFields DEF DbInv
<1>2. ASSUME NEW i \in DOMAIN db.nDB
      PROVE  InitThcdb[i] \in ThClause /\ ThGood(InitThcdb[i], db)
  <2>1. PICK c, t : c = db.nDB[i].lits /\ t = InitThcdb[i]
    OBVIOUS
  <2>2. t = [pos |-> i, w1 |-> Min(c), w2 |-> Second(c), activity |-> 0]
    BY <2>1 DEF InitThcdb
  <2>3. c \in Clause /\ Cardinality(c) > 1
    <3>1. db.nDB[i] \in NaryEntry
      BY <1>1
    <3>2. Cardinality(c) > 3
      BY <2>1 DEF DbInv, DbLinked
    <3>3. c \in Clause /\ Cardinality(c) \in Nat
      BY <2>1, <3>1, ClauseSize DEF NaryEntry
    <3> QED BY <3>2, <3>3
  <2>4. Min(c) \in c /\ Second(c) \in c /\ Min(c) # Second(c)
    BY <2>3, FirstTwo
  <2>5. t.pos = i /\ t.w1 = Min(c) /\ t.w2 = Second(c) /\ t.activity = 0
    BY <2>2
  <2>6. i \in Nat /\ Min(c) \in Lits /\ Second(c) \in Lits
    BY <1>1, <2>3, <2>4 DEF Clause
  <2>7. t \in ThClause
    BY <2>2, <2>6 DEF ThClause
  <2>8. ThGood(t, db)
    BY <2>1, <2>4, <2>5 DEF ThGood
  <2> QED BY <2>1, <2>7, <2>8
<1>3. DOMAIN InitThcdb = DOMAIN db.nDB
  BY DEF InitThcdb
<1>4. InitThcdb \in Seq(ThClause)
  <2>1. InitThcdb = [i \in 1..Len(db.nDB) |-> InitThcdb[i]]
    BY <1>1 DEF InitThcdb
  <2>2. \A i \in 1..Len(db.nDB) : InitThcdb[i] \in ThClause
    BY <1>1, <1>2
  <2>3. InitThcdb \in [1..Len(db.nDB) -> ThClause]
    BY <2>1, <2>2
  <2> QED BY <1>1, <2>3, SeqDef
<1> QED BY <1>2, <1>3, <1>4

\* azuDICI_init: a new worker has inserted what there is.
LEMMA InitSolverGood ==
    ASSUME NEW P, DbInv(db, P), NEW phase \in [Vars -> BOOLEAN],
           NEW loc \in {"allocated", "solve"},
           NEW b, b = [InitSolver(phase) EXCEPT !.pc = loc]
    PROVE  WorkerInv(b, db, P) /\ b.pc = loc
<1>1. PICK th, ws, m, bins : /\ th = InitThcdb /\ ws = WatchLists(th)
                             /\ m = ModelInit(phase)
                             /\ bins = [l \in Lits |-> Len(db.bDB[l])]
  OBVIOUS
<1>2. /\ DOMAIN b = Fields /\ b = [f \in Fields |-> b[f]]
      /\ b.pc = loc /\ b.model = m /\ b.thcdb = th /\ b.watches = ws
      /\ b.lastUnit = Len(db.uDB) /\ b.lastBins = bins
      /\ b.lastTernary = Len(db.tDB) /\ b.lastNary = Len(db.nDB)
      /\ b.heap = Vars /\ b.marks = {} /\ b.cursor = NoCursor /\ b.cleaning = FALSE
      /\ b.clause = {} /\ b.poppedLit = ZeroLit /\ b.pending = 0 /\ b.lemma = {}
      /\ b.uip = ZeroLit /\ b.lemmaToLearn = {} /\ b.dlToBackjump = 0
      /\ b.rUIP = NoReason /\ b.sinceRestart = 0 /\ b.sinceCleanup = 0
      /\ b.cleanupLimit = InitialCleanupLimit /\ b.decisions = 0 /\ b.result = 0
  BY <1>1 DEF InitSolver, Fields
<1>3. /\ m \in ModelType /\ ModelInv(m, th, db, P) /\ CursorsGood(m)
      /\ m.decisionLvl = 0
  BY <1>1, ModelInitGood
<1>4. /\ th \in Seq(ThClause) /\ \A i \in DOMAIN th : ThGood(th[i], db)
  BY <1>1, InitThcdbGood
<1>5. ws \in [Lits -> Seq(Nat)] /\ Linked(th, ws)
  BY <1>1, <1>4, WatchListsLinked
<1>6. /\ Len(db.uDB) \in Nat /\ Len(db.tDB) \in Nat /\ Len(db.nDB) \in Nat
      /\ \A l \in Lits : Len(db.bDB[l]) \in Nat
  BY DbFields DEF DbInv
<1>7. bins \in [Lits -> Nat] /\ \A l \in Lits : bins[l] = Len(db.bDB[l])
  BY <1>1, <1>6
<1>8. Typed(b)
  <2>1. NoCursor \in Cursor /\ NoReason \in Reason
    BY DEF NoCursor, Cursor, ZeroLit, NoReason, Reason
  <2>2. b.pc \in Locations /\ b.cleanupLimit \in Nat
    BY <1>2, ParametersAssumption DEF Locations
  <2>3. b.clause \in Clause /\ b.lemma \in Clause /\ b.lemmaToLearn \in Clause
    BY <1>2 DEF Clause
  <2>4. b.poppedLit \in Lits \cup {ZeroLit} /\ b.uip \in Lits \cup {ZeroLit}
    BY <1>2
  <2>5. DOMAIN b = Fields /\ b = [f \in Fields |-> b[f]]
    BY <1>2
  <2>6. /\ b.model \in ModelType /\ b.thcdb \in Seq(ThClause)
        /\ b.watches \in [Lits -> Seq(Nat)]
    BY <1>2, <1>3, <1>4, <1>5
  <2>7. /\ b.lastUnit \in Nat /\ b.lastBins \in [Lits -> Nat]
        /\ b.lastTernary \in Nat /\ b.lastNary \in Nat
    BY <1>2, <1>6, <1>7
  <2>8. /\ b.heap \in SUBSET Vars /\ b.marks \in SUBSET Vars /\ b.cursor \in Cursor
        /\ b.cleaning \in BOOLEAN /\ b.rUIP \in Reason
    BY <1>2, <2>1
  <2>9. /\ b.pending \in Nat /\ b.dlToBackjump \in Nat /\ b.sinceRestart \in Nat
        /\ b.sinceCleanup \in Nat /\ b.decisions \in Nat /\ b.result \in {0, 10, 20}
    BY <1>2
  <2> QED BY <2>2, <2>3, <2>4, <2>5, <2>6, <2>7, <2>8, <2>9 DEF Typed
<1>9. Core(b, db, P)
  <2>1. Counted(b, db)
    BY <1>2, <1>6, <1>7 DEF Counted
  <2>2. ThHeld(b, db) /\ WatchInv(b)
    BY <1>2, <1>4, <1>5 DEF ThHeld, WatchInv
  <2>3. Free(b.model) \subseteq b.heap
    BY <1>2 DEF Free
  <2> QED BY <1>2, <1>3, <2>1, <2>2, <2>3 DEF Core
<1>10. Place(b, db, P)
  <2>1. /\ Visiting(b, db) /\ Conflict(b, P) /\ Marking(b, P) /\ Popped(b, P)
        /\ Lemma(b, P) /\ Shortening(b, P) /\ Backjumping(b, db, P)
    BY <1>2, <1>3 DEF Visiting, Conflict, Marking, Popped, Lemma, Shortening, Backjumping
  <2>2. Unmarked(b) /\ Answered(b, P)
    BY <1>2 DEF Unmarked, Answered
  <2>3. CursorInv(b)
    BY <1>2, <1>3 DEF CursorInv
  <2> QED BY <2>1, <2>2, <2>3 DEF Place
<1> QED BY <1>2, <1>8, <1>9, <1>10 DEF WorkerInv

LEMMA EmptyDBGood == ASSUME NEW P PROVE DbInv(EmptyDB, P)
<1>1. PICK d : d = EmptyDB
  OBVIOUS
<1>2. /\ d.uDB = <<>> /\ d.bDB = [l \in Lits |-> <<>>] /\ d.tDB = <<>>
      /\ d.ternaryWatches = [l \in Lits |-> <<>>] /\ d.nDB = <<>>
      /\ d = [uDB |-> <<>>, bDB |-> [l \in Lits |-> <<>>], tDB |-> <<>>,
              ternaryWatches |-> [l \in Lits |-> <<>>], nDB |-> <<>>]
  BY <1>1 DEF EmptyDB
<1>3. d \in ClauseDBType
  <2>1. <<>> \in Seq(Lits) /\ <<>> \in Seq(TernaryEntry) /\ <<>> \in Seq(NaryEntry)
        /\ <<>> \in Seq(Nat)
    OBVIOUS
  <2>2. d.bDB \in [Lits -> Seq(Lits)] /\ d.ternaryWatches \in [Lits -> Seq(Nat)]
    BY <1>2, <2>1
  <2> QED BY <1>2, <2>1, <2>2 DEF ClauseDBType
<1>4. DbFollows(d, P) /\ DbLinked(d)
  BY <1>2 DEF DbFollows, DbLinked
<1> QED BY <1>1, <1>3, <1>4 DEF DbInv

LEMMA InitIInv == ASSUME Init PROVE IInv
<1>1. /\ formula \in Seq(Clause) /\ nread = 0 /\ mainPc = "read" /\ db = EmptyDB
  BY ParametersAssumption DEF Init
<1>2. PICK phases \in [Workers -> InitPhases] :
         ad = [w \in Workers |-> [InitSolver(phases[w]) EXCEPT !.pc = "allocated"]]
  BY DEF Init
<1>3. DbInv(db, Read)
  BY <1>1, EmptyDBGood
<1>4. ASSUME NEW w \in Workers
      PROVE  WorkerInv(ad[w], db, Read) /\ ad[w].pc = "allocated"
  <2>1. phases[w] \in [Vars -> BOOLEAN]
    BY <1>2, ParametersAssumption
  <2>2. ad[w] = [InitSolver(phases[w]) EXCEPT !.pc = "allocated"]
    BY <1>2
  <2>3. "allocated" \in {"allocated", "solve"}
    OBVIOUS
  <2> QED BY <1>3, <2>1, <2>2, <2>3, InitSolverGood
<1>5. MainInv
  BY <1>1, <1>4 DEF MainInv
<1>6. ad = [w \in Workers |-> ad[w]]
  BY <1>2
<1> QED BY <1>3, <1>4, <1>5, <1>6 DEF IInv

LEMMA ReadClauseIInv == ASSUME IInv, ReadClause PROVE IInv'
<1>1. /\ mainPc = "read" /\ nread < Len(formula) /\ nread' = nread + 1
      /\ formula' = formula /\ mainPc' = mainPc /\ ad' = ad
      /\ db' = InsertInput(db, formula[nread + 1])
  BY DEF ReadClause
<1>2. /\ formula \in Seq(Clause) /\ nread \in 0..Len(formula) /\ Len(formula) \in Nat
      /\ \A w \in Workers : ad[w].pc = "allocated" <=> mainPc = "read"
      /\ DbInv(db, Read) /\ ad = [w \in Workers |-> ad[w]]
      /\ \A w \in Workers : WorkerInv(ad[w], db, Read)
  BY DEF IInv, MainInv
<1>3. PICK n, c, P, Q, e : /\ n = nread + 1 /\ c = formula[n] /\ P = Read /\ Q = Read'
                           /\ e = InsertInput(db, c)
  OBVIOUS
<1>4. n \in 1..Len(formula) /\ c \in Clause /\ nread' = n
  <2>1. n \in 1..Len(formula) /\ nread' = n
    BY <1>1, <1>2, <1>3
  <2> QED BY <1>2, <1>3, <2>1
<1>5. P \subseteq Q /\ c \in Q
  <2>1. P = {formula[i] : i \in 1..nread} /\ Q = {formula[i] : i \in 1..n}
    BY <1>1, <1>3, <1>4 DEF Read
  <2>2. 1..nread \subseteq 1..n /\ n \in 1..n
    BY <1>2, <1>3, <1>4
  <2> QED BY <1>3, <2>1, <2>2
<1>6. DbInv(db, Q)
  <2>1. DbInv(db, P)
    BY <1>2, <1>3
  <2> QED BY <1>5, <2>1, FollowsFromMore DEF DbInv, DbFollows
<1>7. DbInv(e, Q) /\ Extends(db, e)
  <2>1. Follows(Q, c)
    BY <1>5, FollowsMember
  <2> QED BY <1>3, <1>4, <1>6, <2>1, InputInserted
<1>8. e = db'
  BY <1>1, <1>3
<1>9. ASSUME NEW w \in Workers PROVE WorkerInv(ad[w], e, Q)
  <2>1. WorkerInv(ad[w], db, P)
    BY <1>2, <1>3
  <2>2. db \in ClauseDBType /\ e \in ClauseDBType
    BY <1>6, <1>7 DEF DbInv
  <2> QED BY <1>5, <1>7, <2>1, <2>2, WorkerInvStays
<1>10. (DbInv(db, Read))'
  BY <1>3, <1>7, <1>8
<1>11. (\A w \in Workers : WorkerInv(ad[w], db, Read))'
  BY <1>1, <1>3, <1>8, <1>9
<1>12. MainInv'
  <2>1. n \in 0..Len(formula)
    BY <1>4
  <2> QED BY <1>1, <1>2, <1>4, <2>1 DEF MainInv
<1> QED BY <1>1, <1>2, <1>10, <1>11, <1>12 DEF IInv

LEMMA StartWorkersIInv == ASSUME IInv, StartWorkers PROVE IInv'
<1>1. /\ mainPc = "read" /\ nread = Len(formula) /\ mainPc' = "join"
      /\ nread' = nread /\ formula' = formula /\ db' = db
      /\ ad' = [w \in Workers |-> InitSolver(ad[w].model.phase)]
  BY DEF StartWorkers
<1>2. /\ formula \in Seq(Clause) /\ nread \in 0..Len(formula)
      /\ DbInv(db, Read) /\ \A w \in Workers : WorkerInv(ad[w], db, Read)
  BY DEF IInv, MainInv
<1>3. Read' = Read
  BY <1>1 DEF Read
<1>4. ASSUME NEW w \in Workers
      PROVE  WorkerInv(ad'[w], db, Read) /\ ad'[w].pc = "solve"
  <2>1. PICK phase : phase = ad[w].model.phase
    OBVIOUS
  <2>2. phase \in [Vars -> BOOLEAN]
    <3>1. ad[w].model \in ModelType
      BY <1>2, WorkerParts
    <3> QED BY <2>1, <3>1 DEF ModelType
  <2>3. ad'[w] = InitSolver(phase)
    BY <1>1, <2>1
  <2>4. InitSolver(phase) = [InitSolver(phase) EXCEPT !.pc = "solve"]
    BY DEF InitSolver
  <2>5. "solve" \in {"allocated", "solve"}
    OBVIOUS
  <2> QED BY <1>2, <2>2, <2>3, <2>4, <2>5, InitSolverGood
<1>5. (DbInv(db, Read) /\ \A w \in Workers : WorkerInv(ad[w], db, Read))'
  BY <1>1, <1>2, <1>3, <1>4
<1>6. MainInv'
  BY <1>1, <1>2, <1>4 DEF MainInv
<1>7. (ad = [w \in Workers |-> ad[w]])'
  BY <1>1
<1> QED BY <1>5, <1>6, <1>7 DEF IInv

\* Nothing the invariant speaks of changes.
LEMMA SameIInv ==
    ASSUME IInv, UNCHANGED <<formula, nread, db, ad>>,
           mainPc' = mainPc \/ (mainPc = "join" /\ mainPc' = "exit")
    PROVE  IInv'
<1>1. Read' = Read
  BY DEF Read
<1>2. MainInv'
  BY DEF IInv, MainInv
<1>3. (DbInv(db, Read) /\ \A w \in Workers : WorkerInv(ad[w], db, Read))'
  BY <1>1 DEF IInv
<1>4. (ad = [w \in Workers |-> ad[w]])'
  BY DEF IInv
<1> QED BY <1>2, <1>3, <1>4 DEF IInv

LEMMA NextIInv == IInv /\ SameSearch /\ [Next]_vars => IInv'
<1> SUFFICES ASSUME IInv, SameSearch, [Next]_vars PROVE IInv'
  OBVIOUS
<1>1. CASE Main
  <2>1. CASE JoinWorkers
    BY <2>1, SameIInv DEF JoinWorkers
  <2> QED BY <1>1, <2>1, ReadClauseIInv, StartWorkersIInv DEF Main
<1>2. CASE \E w \in Workers : Worker(w)
  BY <1>2, WorkerIInv
<1>3. CASE UNCHANGED vars
  BY <1>3, SameIInv DEF vars
<1> QED BY <1>1, <1>2, <1>3 DEF Next, Exited

\* As long as the workers make the same search, the invariant holds.
THEOREM SolverInvariant == SafeSpec /\ []SameSearch => []IInv
<1>1. Init => IInv
  BY InitIInv
<1>2. IInv /\ SameSearch /\ [Next]_vars => IInv'
  BY NextIInv
<1> QED BY <1>1, <1>2, PTL DEF SafeSpec

-----------------------------------------------------------------------------
(* What the invariant implies. *)

\* Whatever a clause of the database is, it is one of the five lists'.
LEMMA ClausesFollow == IInv => \A c \in AllClauses(db) : Follows(Read, c)
<1> SUFFICES ASSUME IInv, NEW c \in AllClauses(db) PROVE Follows(Read, c)
  OBVIOUS
<1>1. DbInv(db, Read) /\ DbFollows(db, Read) /\ db \in ClauseDBType
  BY DEF IInv, DbInv
<1>2. /\ DOMAIN db.uDB = 1..Len(db.uDB) /\ DOMAIN db.tDB = 1..Len(db.tDB)
      /\ DOMAIN db.nDB = 1..Len(db.nDB)
      /\ \A l \in Lits : DOMAIN db.bDB[l] = 1..Len(db.bDB[l])
  BY <1>1, DbFields
<1>3. CASE c \in {{db.uDB[i]} : i \in 1..Len(db.uDB)}
  BY <1>1, <1>2, <1>3 DEF DbFollows
<1>4. CASE c \in BinaryClauses(db)
  <2>1. PICK l \in Lits : c \in {{-l, db.bDB[l][i]} : i \in 1..Len(db.bDB[l])}
    BY <1>4 DEF BinaryClauses
  <2>2. PICK i \in DOMAIN db.bDB[l] : c = {-l, db.bDB[l][i]}
    BY <1>2, <2>1
  <2>3. Follows(Read, {-l, db.bDB[l][i]})
    BY <1>1, <2>2 DEF DbFollows
  <2> QED BY <2>2, <2>3
<1>5. CASE c \in {db.tDB[i].lits : i \in 1..Len(db.tDB)}
  BY <1>1, <1>2, <1>5 DEF DbFollows
<1>6. CASE c \in {db.nDB[i].lits : i \in 1..Len(db.nDB)}
  BY <1>1, <1>2, <1>6 DEF DbFollows
<1> QED BY <1>3, <1>4, <1>5, <1>6 DEF AllClauses

\* Every lemma that ends up in the shared database, whichever worker put it there and
\* however a cleanup shortened it, follows from the formula.
THEOREM LemmasAreEntailed == SafeSpec /\ []SameSearch => []LemmasEntailed
<1>1. IInv => LemmasEntailed
  BY ClausesFollow DEF LemmasEntailed, Follows
<1> QED BY <1>1, SolverInvariant, PTL

\* The stack, the values and the levels of every worker's model agree at every step.
THEOREM TrailsAreConsistent == SafeSpec /\ []SameSearch => []TrailsConsistent
<1>1. IInv => TrailsConsistent
  BY WorkerParts DEF IInv, TrailsConsistent
<1> QED BY <1>1, SolverInvariant, PTL

\* The pointers of the reasons above level 0 lead to clauses that justify the literal.
THEOREM ReasonsAreRight == SafeSpec /\ []SameSearch => []ReasonsJustify
<1>1. ASSUME IInv, NEW w \in Workers, NEW a, a = ad[w], NEW l \in Lits,
             IsTrue(a.model, l), LitDl(a.model, l) > 0, ~LitIsDecision(a.model, l)
      PROVE  LET c == ClauseOfReason(a, ReasonOfLit(a.model, l), l)
             IN  /\ l \in c
                 /\ \A k \in c \ {l} : /\ IsFalse(a.model, k)
                                       /\ LitHeight(a.model, k) < LitHeight(a.model, l)
  <2>1. PICK r, c : /\ r = ReasonOfLit(a.model, l)
                    /\ c = ReasonClause(a.thcdb, db, r, l)
    OBVIOUS
  <2>2. ReasonsInv(a.model, a.thcdb, db, Read)
    BY <1>1, WorkerParts DEF IInv
  <2>3. Implied(a.model, l)
    BY <1>1 DEF Implied
  <2>4. /\ l \in c
        /\ \A k \in c \ {l} : /\ IsFalse(a.model, k)
                              /\ LitHeight(a.model, k) < LitHeight(a.model, l)
    BY <2>1, <2>2, <2>3 DEF ReasonsInv, Backs
  <2>5. ClauseOfReason(a, r, l) = c
    BY <2>1 DEF ClauseOfReason, ReasonClause, ThLits
  <2> QED BY <2>1, <2>4, <2>5
<1>2. IInv => ReasonsJustify
  BY <1>1 DEF ReasonsJustify
<1> QED BY <1>2, SolverInvariant, PTL

\* Every undefined variable is in the heap of its worker.
THEOREM HeapIsComplete == SafeSpec /\ []SameSearch => []HeapComplete
<1>1. IInv => HeapComplete
  BY WorkerParts DEF IInv, HeapComplete, Free
<1> QED BY <1>1, SolverInvariant, PTL

\* The marks are those of the lemma and of the pending literals, and outside the
\* analysis there are none.
THEOREM MarksAreExact == SafeSpec /\ []SameSearch => []MarksExact
<1>1. ASSUME IInv, NEW w \in Workers, NEW a, a = ad[w], NEW S, S = ThisDl(a.model, a.marks)
      PROVE  IF a.pc \in {"mark", "pop"}
             THEN /\ a.marks \ S = {var(l) : l \in a.lemma}
                  /\ a.pending = Cardinality(S)
                  /\ a.pc = "pop" => a.pending > 0
             ELSE a.pc # "shorten" => a.marks = {}
  <2>1. Place(a, db, Read)
    BY <1>1, WorkerParts DEF IInv
  <2>2. ASSUME a.pc \in {"mark", "pop"} PROVE InAnalysis(a.model, a.marks, a.lemma, a.pending)
    BY <2>1, <2>2 DEF Place, Marking, Popped
  <2>3. a.pc = "pop" => a.pending > 0
    BY <2>1 DEF Place, Popped
  <2>4. a.pc \notin {"mark", "pop", "shorten"} => a.marks = {}
    BY <2>1 DEF Place, Unmarked
  <2> QED BY <1>1, <2>2, <2>3, <2>4 DEF InAnalysis
<1>2. IInv => MarksExact
  BY <1>1 DEF MarksExact, ThisDl
<1> QED BY <1>2, SolverInvariant, PTL

\* After the backjump the lemma asserts its uip, and would have at no earlier level.
THEOREM LemmasAssert == SafeSpec /\ []SameSearch => []LemmaAsserts
<1>1. ASSUME IInv, NEW w \in Workers, NEW a, a = ad[w], a.pc = "backjump",
             a.model.decisionLvl <= a.dlToBackjump,
             NEW c, c = ClauseOfReason(a, a.rUIP, a.uip), NEW rest, rest = c \ {a.uip}
      PROVE  /\ a.uip \in c /\ IsUndef(a.model, a.uip)
             /\ \A l \in rest : IsFalse(a.model, l)
             /\ IF rest = {} THEN a.model.decisionLvl = 0
                ELSE \E l \in rest : LitDl(a.model, l) = a.model.decisionLvl
  <2>1. Backjumping(a, db, Read) /\ Typed(a) /\ a.model.decisionLvl \in Nat
    BY <1>1, WorkerParts DEF IInv, Place
  <2>2. a.dlToBackjump \in Nat
    BY <2>1 DEF Typed
  <2>3. c = ReasonClause(a.thcdb, db, a.rUIP, a.uip)
    BY <1>1, Zenon DEF ClauseOfReason, ReasonClause, ThLits
  <2>4. IsUndef(a.model, a.uip) /\ a.dlToBackjump <= a.model.decisionLvl
    BY <1>1, <2>1 DEF Backjumping, UipGood
  <2>5. a.dlToBackjump = a.model.decisionLvl
    BY <1>1, <2>1, <2>2, <2>4
  <2>6. CASE a.rUIP = NoReason /\ a.dlToBackjump = 0
    <3>1. c = {a.uip}
      BY <2>3, <2>6 DEF ReasonClause, NoReason
    <3> QED BY <1>1, <2>4, <2>5, <2>6, <3>1
  <2>7. CASE /\ Backs(a.model, a.thcdb, db, Read, a.rUIP, a.uip)
             /\ \E l \in rest : LitDl(a.model, l) = a.dlToBackjump
    <3>1. a.uip \in c /\ \A l \in rest : IsFalse(a.model, l)
      BY <1>1, <2>3, <2>7 DEF Backs
    <3> QED BY <2>4, <2>5, <2>7, <3>1
  <2> QED BY <1>1, <2>1, <2>3, <2>6, <2>7 DEF Backjumping
<1>2. ASSUME IInv PROVE LemmaAsserts
  <2> SUFFICES ASSUME NEW w \in Workers, ad[w].pc = "backjump",
                      ad[w].model.decisionLvl <= ad[w].dlToBackjump
               PROVE  LET a == ad[w]
                          rest == ClauseOfReason(a, a.rUIP, a.uip) \ {a.uip}
                      IN  /\ a.uip \in ClauseOfReason(a, a.rUIP, a.uip)
                          /\ IsUndef(a.model, a.uip)
                          /\ \A l \in rest : IsFalse(a.model, l)
                          /\ IF rest = {} THEN a.model.decisionLvl = 0
                             ELSE \E l \in rest : LitDl(a.model, l) = a.model.decisionLvl
    BY DEF LemmaAsserts
  <2>1. PICK a, c, rest : /\ a = ad[w] /\ c = ClauseOfReason(a, a.rUIP, a.uip)
                          /\ rest = c \ {a.uip}
    OBVIOUS
  <2>2. /\ a.uip \in c /\ IsUndef(a.model, a.uip)
        /\ \A l \in rest : IsFalse(a.model, l)
        /\ IF rest = {} THEN a.model.decisionLvl = 0
           ELSE \E l \in rest : LitDl(a.model, l) = a.model.decisionLvl
    BY <1>1, <1>2, <2>1
  <2> QED BY <2>1, <2>2
<1> QED BY <1>2, SolverInvariant, PTL

\* An injective list holds what it holds in one place.
LEMMA OncePlaced ==
    ASSUME NEW s \in Seq(Nat), IsInjective(s), NEW i,
           NEW S, S = {p \in DOMAIN s : s[p] = i}
    PROVE  Cardinality(S) = IF i \in Range(s) THEN 1 ELSE 0
<1>1. CASE i \in Range(s)
  <2>1. PICK p \in DOMAIN s : s[p] = i
    BY <1>1 DEF Range
  <2>2. S = {p}
    BY <2>1 DEF IsInjective
  <2> QED BY <1>1, <2>2, FS_Singleton
<1>2. CASE i \notin Range(s)
  <2>1. S = {}
    BY <1>2 DEF Range
  <2> QED BY <1>2, <2>1, FS_EmptySet
<1> QED BY <1>1, <1>2

\* A clause of thcdb is once in the lists of its two watched literals, and in no other.
THEOREM WatchesAreLinked == SafeSpec /\ []SameSearch => []WatchesLinked
<1>1. ASSUME IInv, NEW w \in Workers, NEW a, a = ad[w], a.pc \notin {"allocated", "clean"}
      PROVE  /\ \A i \in DOMAIN a.thcdb :
                   LET t == a.thcdb[i] IN t.w1 # t.w2 /\ {t.w1, t.w2} \subseteq ThLits(t)
             /\ \A l \in Lits, i \in DOMAIN a.thcdb :
                   Cardinality({p \in DOMAIN a.watches[l] : a.watches[l][p] = i})
                     = (IF l \in {a.thcdb[i].w1, a.thcdb[i].w2} THEN 1 ELSE 0)
  <2>1. Typed(a) /\ Core(a, db, Read)
    BY <1>1, WorkerParts DEF IInv
  <2>2. ThHeld(a, db) /\ Linked(a.thcdb, a.watches) /\ a.watches \in [Lits -> Seq(Nat)]
    BY <1>1, <2>1 DEF Core, WatchInv, Typed
  <2>3. \A i \in DOMAIN a.thcdb : ThGood(a.thcdb[i], db)
    BY <1>1, <2>2 DEF ThHeld
  <2>4. ASSUME NEW l \in Lits, NEW i \in DOMAIN a.thcdb
        PROVE  Cardinality({p \in DOMAIN a.watches[l] : a.watches[l][p] = i})
                 = (IF l \in {a.thcdb[i].w1, a.thcdb[i].w2} THEN 1 ELSE 0)
    <3>1. PICK s, S : s = a.watches[l] /\ S = {p \in DOMAIN s : s[p] = i}
      OBVIOUS
    <3>2. s \in Seq(Nat) /\ IsInjective(s)
      BY <2>2, <3>1 DEF Linked
    <3>3. i \in Range(s) <=> l \in {a.thcdb[i].w1, a.thcdb[i].w2}
      BY <2>2, <3>1 DEF Linked, Watched
    <3>4. Cardinality(S) = IF i \in Range(s) THEN 1 ELSE 0
      BY <3>1, <3>2, OncePlaced
    <3>5. CASE l \in {a.thcdb[i].w1, a.thcdb[i].w2}
      BY <3>1, <3>3, <3>4, <3>5
    <3>6. CASE l \notin {a.thcdb[i].w1, a.thcdb[i].w2}
      BY <3>1, <3>3, <3>4, <3>6
    <3> QED BY <3>5, <3>6
  <2> QED BY <2>3, <2>4 DEF ThGood, ThLits
<1>2. IInv => WatchesLinked
  BY <1>1 DEF WatchesLinked
<1> QED BY <1>2, SolverInvariant, PTL

-----------------------------------------------------------------------------
(* What stands at level 0 stays. *)

FixedKept(m, n) ==
    \A l \in Lits : IsTrue(m, l) /\ LitDl(m, l) = 0 => IsTrue(n, l) /\ LitDl(n, l) = 0

Moves(m, n) ==
    \/ n = m
    \/ \E l \in Lits : \E r : IsUndef(m, l) /\ n = SetTrueWithReason(m, l, r)
    \/ \E l \in Lits : /\ IsUndef(m, l) /\ FullyPropagated(m) /\ CursorsGood(m)
                       /\ n = SetTrueDecision(m, l)
    \/ \E k \in Kinds : HasNext(m, k) /\ CursorsGood(m) /\ n = Advance(m, k)
    \/ m.decisionLvl > 0 /\ n = PopAndSetUndef(m)

LEMMA MovesKeepFixed ==
    ASSUME NEW th \in Seq(ThClause), NEW d \in ClauseDBType, NEW P,
           NEW m \in ModelType, ModelInv(m, th, d, P), NEW n, Moves(m, n)
    PROVE  FixedKept(m, n)
<1>1. TrailConsistent(m)
  BY DEF ModelInv
<1>2. ASSUME KeepsAssigned(m, n) PROVE FixedKept(m, n)
  BY <1>2, ValueOfLit DEF KeepsAssigned, KeptLit, FixedKept, IsTrue
<1>3. ASSUME NEW l \in Lits, NEW r, IsUndef(m, l), n = SetTrueWithReason(m, l, r)
      PROVE  FixedKept(m, n)
  <2>1. PICK x : x = SetTrueWithReason(m, l, NoReason)
    OBVIOUS
  <2>2. n.value = x.value /\ n.level = x.level
    BY <1>3, <2>1 DEF SetTrueWithReason, ModelType
  <2>3. NoReason \in Reason
    BY DEF NoReason, Reason
  <2>4. KeepsAssigned(m, x)
    BY <1>1, <1>3, <2>1, <2>3, SetTrueKeeps
  <2>5. FixedKept(m, x)
    BY <2>4, ValueOfLit DEF KeepsAssigned, KeptLit, FixedKept, IsTrue
  <2> QED BY <2>2, <2>5 DEF FixedKept, IsTrue, LitDl
<1>4. ASSUME NEW l \in Lits, IsUndef(m, l), FullyPropagated(m), CursorsGood(m),
             n = SetTrueDecision(m, l)
      PROVE  FixedKept(m, n)
  BY <1>2, <1>4, DecisionModelInv
<1>5. ASSUME NEW k \in Kinds, HasNext(m, k), CursorsGood(m), n = Advance(m, k)
      PROVE  FixedKept(m, n)
  <2>1. n.value = m.value /\ n.level = m.level
    BY <1>5, AdvanceModelInv
  <2> QED BY <2>1 DEF FixedKept, IsTrue, LitDl
<1>6. ASSUME m.decisionLvl > 0, n = PopAndSetUndef(m) PROVE FixedKept(m, n)
  <2>1. \A k \in Lits : ~IsUndef(m, k) /\ LitDl(m, k) < m.decisionLvl => KeptLit(m, n, k)
    BY <1>1, <1>6, PopKeeps
  <2>2. ASSUME NEW l \in Lits, IsTrue(m, l), LitDl(m, l) = 0
        PROVE  IsTrue(n, l) /\ LitDl(n, l) = 0
    <3>1. ~IsUndef(m, l)
      BY <2>2, ValueOfLit
    <3>2. KeptLit(m, n, l)
      BY <1>6, <2>1, <2>2, <3>1
    <3> QED BY <2>2, <3>2 DEF KeptLit, IsTrue
  <2> QED BY <2>2 DEF FixedKept
<1>7. n = m => FixedKept(m, n)
  BY DEF FixedKept
<1> QED BY <1>3, <1>4, <1>5, <1>6, <1>7 DEF Moves

\* How a step of a worker changes its model and its counters.
SameCounters(a, b) ==
    /\ b.lastUnit = a.lastUnit /\ b.lastBins = a.lastBins
    /\ b.lastTernary = a.lastTernary /\ b.lastNary = a.lastNary

\* Where a worker's struct goes.
LEMMA LocalIs ==
    ASSUME IInv, NEW w \in Workers, NEW b, Local(w, b)
    PROVE  /\ ad'[w] = b /\ db' = db
           /\ \A u \in Workers \ {w} : ad'[u] = ad[u]
BY DEF IInv, Local

LEMMA SharingIs ==
    ASSUME IInv, NEW w \in Workers, NEW b, NEW e, Sharing(w, b, e)
    PROVE  /\ ad'[w] = b /\ db' = e
           /\ \A u \in Workers \ {w} : ad'[u] = ad[u]
BY DEF IInv, Sharing

Still(w) == /\ db' = db /\ ad'[w].model = ad[w].model
            /\ SameCounters(ad[w], ad'[w])
            /\ \A u \in Workers \ {w} : ad'[u] = ad[u]

\* Most steps neither move the model nor insert.
LEMMA StillSteps ==
    ASSUME IInv, NEW w \in Workers,
           \/ StartSolve(w) \/ UnitsDone(w)
           \/ ListDone(w) \/ PropagationDone(w)
           \/ ConflictAtLevelZero(w) \/ StartAnalysis(w) \/ MarkClause(w)
           \/ StartShortening(w) \/ ShortenLiteral(w)
           \/ RestartIfAdequate(w) \/ RestartDone(w)
           \/ CleanupIfAdequate(w) \/ StartCleaning(w) \/ CompactAndWatch(w)
           \/ ReportSat(w)
    PROVE  Still(w)
<1>1. ad = [u \in Workers |-> ad[u]] /\ Typed(ad[w])
  BY WorkerParts DEF IInv
<1>2. CASE StartSolve(w)
  BY <1>1, <1>2 DEF StartSolve, Local, Still, SameCounters, Typed, Fields
<1>3. CASE UnitsDone(w)
  BY <1>1, <1>3 DEF UnitsDone, Local, Still, SameCounters, Typed, Fields
<1>4. CASE ListDone(w)
  BY <1>1, <1>4 DEF ListDone, Local, Still, SameCounters, Typed, Fields
<1>5. CASE PropagationDone(w)
  BY <1>1, <1>5 DEF PropagationDone, Local, Still, SameCounters, Typed, Fields
<1>6. CASE ConflictAtLevelZero(w)
  BY <1>1, <1>6 DEF ConflictAtLevelZero, Finish, Local, Still, SameCounters, Typed, Fields
<1>7. CASE StartAnalysis(w)
  BY <1>1, <1>7, Zenon DEF StartAnalysis, Local, Still, SameCounters, Typed, Fields
<1>8. CASE MarkClause(w)
  BY <1>1, <1>8, Zenon DEF MarkClause, Local, Still, SameCounters, Typed, Fields
<1>9. CASE StartShortening(w)
  BY <1>1, <1>9 DEF StartShortening, Local, Still, SameCounters, Typed, Fields
<1>10. CASE ShortenLiteral(w)
  <2> DEFINE a == ad[w]
             l == Highest(a.model, a.lemma)
  <2>1. \/ Local(w, [a EXCEPT !.lemma = @ \ {l}, !.marks = @ \ {var(l)}])
        \/ Local(w, [a EXCEPT !.lemma = @ \ {l}, !.lemmaToLearn = @ \cup {l}])
    BY <1>10 DEF ShortenLiteral
  <2>2. CASE Local(w, [a EXCEPT !.lemma = @ \ {l}, !.marks = @ \ {var(l)}])
    BY <1>1, <2>2 DEF Local, Still, SameCounters, Typed, Fields
  <2>3. CASE Local(w, [a EXCEPT !.lemma = @ \ {l}, !.lemmaToLearn = @ \cup {l}])
    BY <1>1, <2>3 DEF Local, Still, SameCounters, Typed, Fields
  <2> QED BY <2>1, <2>2, <2>3
<1>11. CASE RestartIfAdequate(w)
  <2>1. \/ Local(w, [ad[w] EXCEPT !.pc = "restartJump", !.sinceRestart = 0,
                                   !.restartLimit = nextRestartLimit[@]])
        \/ Local(w, [ad[w] EXCEPT !.pc = "cleanup"])
    BY <1>11 DEF RestartIfAdequate
  <2>2. CASE Local(w, [ad[w] EXCEPT !.pc = "restartJump", !.sinceRestart = 0,
                                    !.restartLimit = nextRestartLimit[@]])
    BY <1>1, <2>2 DEF Local, Still, SameCounters, Typed, Fields
  <2>3. CASE Local(w, [ad[w] EXCEPT !.pc = "cleanup"])
    BY <1>1, <2>3 DEF Local, Still, SameCounters, Typed, Fields
  <2> QED BY <2>1, <2>2, <2>3
<1>12. CASE RestartDone(w)
  BY <1>1, <1>12 DEF RestartDone, Local, Still, SameCounters, Typed, Fields
<1>13. CASE CleanupIfAdequate(w)
  <2>1. \/ Local(w, [ad[w] EXCEPT !.pc = "cleanupJump", !.sinceCleanup = 0,
                                   !.cleanupLimit = (@ * 105) \div 100])
        \/ Local(w, [ad[w] EXCEPT !.pc = "decide"])
    BY <1>13 DEF CleanupIfAdequate
  <2>2. CASE Local(w, [ad[w] EXCEPT !.pc = "cleanupJump", !.sinceCleanup = 0,
                                    !.cleanupLimit = (@ * 105) \div 100])
    BY <1>1, <2>2 DEF Local, Still, SameCounters, Typed, Fields
  <2>3. CASE Local(w, [ad[w] EXCEPT !.pc = "decide"])
    BY <1>1, <2>3 DEF Local, Still, SameCounters, Typed, Fields
  <2> QED BY <2>1, <2>2, <2>3
<1>14. CASE StartCleaning(w)
  BY <1>1, <1>14, Zenon DEF StartCleaning, Local, Still, SameCounters, Typed, Fields
<1>15. CASE CompactAndWatch(w)
  BY <1>1, <1>15, Zenon DEF CompactAndWatch, Local, Still, SameCounters, Typed, Fields
<1>16. CASE ReportSat(w)
  BY <1>1, <1>16 DEF ReportSat, Local, Still, SameCounters, Typed, Fields
<1> QED BY <1>2, <1>3, <1>4, <1>5, <1>6, <1>7, <1>8, <1>9, <1>10, <1>11, <1>12, <1>13,
           <1>14, <1>15, <1>16

Moving(w) == /\ db' = db /\ Moves(ad[w].model, ad'[w].model)
             /\ SameCounters(ad[w], ad'[w])
             /\ \A u \in Workers \ {w} : ad'[u] = ad[u]

\* A step that changes neither the database nor a counter, by its new struct.
LEMMA MovingLocal ==
    ASSUME IInv, NEW w \in Workers, NEW b, Local(w, b),
           Moves(ad[w].model, b.model), SameCounters(ad[w], b)
    PROVE  Moving(w)
BY LocalIs DEF Moving

LEMMA MovingPropagate ==
    ASSUME IInv, NEW w \in Workers, NEW l \in Lits, IsUndef(ad[w].model, l), NEW r,
           Local(w, Propagate(ad[w], l, r))
    PROVE  Moving(w)
<1>1. PICK a, b : a = ad[w] /\ b = Propagate(a, l, r)
  OBVIOUS
<1>2. Typed(a)
  BY <1>1, WorkerParts DEF IInv
<1>3. b.model = SetTrueWithReason(a.model, l, r) /\ SameCounters(a, b)
  BY <1>1, <1>2 DEF Propagate, Typed, Fields, SameCounters
<1>4. Moves(a.model, b.model)
  BY <1>1, <1>3 DEF Moves
<1> QED BY <1>1, <1>3, <1>4, MovingLocal

LEMMA MovingSame ==
    ASSUME IInv, NEW w \in Workers, NEW b, Local(w, b),
           b.model = ad[w].model, SameCounters(ad[w], b)
    PROVE  Moving(w)
BY MovingLocal DEF Moves

LEMMA MovingSkip ==
    ASSUME IInv, NEW w \in Workers, Local(w, SkipEntry(ad[w]))
    PROVE  Moving(w)
<1>1. PICK a, b : a = ad[w] /\ b = SkipEntry(a)
  OBVIOUS
<1>2. Typed(a)
  BY <1>1, WorkerParts DEF IInv
<1>3. b.model = a.model /\ SameCounters(a, b)
  BY <1>1, <1>2 DEF SkipEntry, Typed, Fields, SameCounters
<1> QED BY <1>1, <1>3, MovingSame

LEMMA MovingPop ==
    ASSUME IInv, NEW w \in Workers, ad[w].model.decisionLvl > 0,
           Local(w, PopOne(ad[w]))
    PROVE  Moving(w)
<1>1. PICK a, b : a = ad[w] /\ b = PopOne(a)
  OBVIOUS
<1>2. Typed(a)
  BY <1>1, WorkerParts DEF IInv
<1>3. b.model = PopAndSetUndef(a.model) /\ SameCounters(a, b)
  BY <1>1, <1>2 DEF PopOne, Typed, Fields, SameCounters
<1>4. Moves(a.model, b.model)
  BY <1>1, <1>3 DEF Moves
<1> QED BY <1>1, <1>3, <1>4, MovingLocal

LEMMA MovingDecided ==
    ASSUME IInv, NEW w \in Workers, ad[w].pc = "decide", NEW v \in Vars,
           IsUndefVar(ad[w].model, v), NEW c, c = Decided(ad[w], v),
           NEW b, Local(w, b), b.model = c.model, SameCounters(c, b)
    PROVE  Moving(w)
<1>1. PICK a, l : a = ad[w] /\ l = DecisionLit(a.model, v)
  OBVIOUS
<1>2. WorkerInv(a, db, Read) /\ Typed(a) /\ a.model \in ModelType /\ TrailConsistent(a.model)
  BY <1>1, WorkerParts DEF IInv
<1>3. Differs(a, c, {"pc", "model", "decisions"}) /\ c.model = SetTrueDecision(a.model, l)
  BY <1>1, <1>2, DecidedFields
<1>4. SameCounters(a, c)
  BY <1>3 DEF Differs, Fields, SameCounters
<1>5. l \in Lits /\ IsUndef(a.model, l)
  BY <1>1, <1>2, DecisionLitUndef
<1>6. CursorsGood(a.model) /\ FullyPropagated(a.model)
  BY <1>1, <1>2, NotPopping
<1>7. Moves(a.model, b.model)
  BY <1>3, <1>5, <1>6 DEF Moves
<1>8. SameCounters(a, b)
  BY <1>4 DEF SameCounters
<1> QED BY <1>1, <1>7, <1>8, MovingLocal

LEMMA StillIsMoving == ASSUME NEW w, Still(w) PROVE Moving(w)
BY DEF Still, Moving, Moves

\* The steps that move the model, each in one of the ways of Moves.
LEMMA SetTrueUnitMoves == ASSUME IInv, NEW w \in Workers, SetTrueUnit(w) PROVE Moving(w)
<1>1. PICK a, l : a = ad[w] /\ l = db.uDB[a.cursor.pos]
  OBVIOUS
<1>2. /\ WorkerInv(a, db, Read) /\ DbInv(db, Read) /\ a.pc = "units"
      /\ a.cursor.pos <= a.cursor.size /\ Typed(a)
  BY <1>1 DEF IInv, SetTrueUnit, At, WorkerInv
<1>3. l \in Lits
  <2>1. a.cursor.pos > 0 /\ a.cursor.size <= Len(db.uDB)
    BY <1>2, WorkerParts DEF Visiting
  <2>2. a.cursor.pos \in Nat /\ a.cursor.size \in Nat
    BY <1>2 DEF Typed, Cursor
  <2>3. DOMAIN db.uDB = 1..Len(db.uDB) /\ Len(db.uDB) \in Nat
    BY <1>2, DbFields DEF DbInv
  <2>4. a.cursor.pos \in DOMAIN db.uDB
    BY <1>2, <2>1, <2>2, <2>3
  <2> QED BY <1>1, <1>2, <2>4, DbFields, ElementOfSeq DEF DbInv
<1>4. CASE IsFalse(a.model, l)
  <2>1. PICK b : b = [a EXCEPT !.pc = "done", !.result = 20]
    OBVIOUS
  <2>2. Local(w, b)
    BY <1>1, <1>4, <2>1 DEF SetTrueUnit, Finish
  <2>3. b.model = a.model /\ SameCounters(a, b)
    BY <1>2, <2>1 DEF Typed, Fields, SameCounters
  <2> QED BY <1>1, <2>2, <2>3, MovingSame
<1>5. CASE IsUndef(a.model, l)
  <2>1. Local(w, Propagate(a, l, NoReason))
    BY <1>1, <1>5 DEF SetTrueUnit, Propagate, IsFalse, IsUndef
  <2> QED BY <1>1, <1>3, <1>5, <2>1, MovingPropagate
<1>6. CASE ~IsFalse(a.model, l) /\ ~IsUndef(a.model, l)
  <2>1. PICK b : b = [a EXCEPT !.cursor.pos = @ + 1, !.model = a.model]
    OBVIOUS
  <2>2. Local(w, b)
    BY <1>1, <1>6, <2>1 DEF SetTrueUnit
  <2>3. b.model = a.model /\ SameCounters(a, b)
    BY <1>2, <2>1 DEF Typed, Fields, SameCounters
  <2> QED BY <1>1, <2>2, <2>3, MovingSame
<1> QED BY <1>4, <1>5, <1>6

LEMMA HandOutMoves ==
    ASSUME IInv, NEW w \in Workers, NEW k \in Kinds, HandOutLiteral(w, k)
    PROVE  Moving(w)
<1>1. PICK a, c, b : /\ a = ad[w]
                     /\ c = [lit |-> NextLit(a.model, k), pos |-> 1,
                             size |-> ListSize(a, k, NextLit(a.model, k))]
                     /\ b = [a EXCEPT !.pc = k, !.model = Advance(@, k), !.cursor = c]
  OBVIOUS
<1>2. WorkerInv(a, db, Read) /\ Typed(a) /\ a.pc = "propagate" /\ HasNext(a.model, k)
  BY <1>1 DEF IInv, HandOutLiteral, At, WorkerInv
<1>3. Local(w, b)
  BY <1>1 DEF HandOutLiteral
<1>4. b.model = Advance(a.model, k) /\ SameCounters(a, b)
  BY <1>1, <1>2 DEF Typed, Fields, SameCounters
<1>5. CursorsGood(a.model)
  BY <1>2, NotPopping
<1>6. Moves(a.model, b.model)
  BY <1>2, <1>4, <1>5 DEF Moves
<1> QED BY <1>1, <1>3, <1>4, <1>6, MovingLocal

LEMMA MovingConflict ==
    ASSUME IInv, NEW w \in Workers, NEW c, Local(w, InConflict(ad[w], c))
    PROVE  Moving(w)
<1>1. PICK a, b : a = ad[w] /\ b = InConflict(a, c)
  OBVIOUS
<1>2. Typed(a)
  BY <1>1, WorkerParts DEF IInv
<1>3. b.model = a.model /\ SameCounters(a, b)
  BY <1>1, <1>2 DEF InConflict, Typed, Fields, SameCounters
<1> QED BY <1>1, <1>3, MovingSame

LEMMA VisitBinaryMoves == ASSUME IInv, NEW w \in Workers, VisitBinary(w) PROVE Moving(w)
<1>1. PICK a, l, i : a = ad[w] /\ l = a.cursor.lit /\ i = a.cursor.pos
  OBVIOUS
<1>2. a.pc = "binary" /\ l \in Lits /\ db \in ClauseDBType
  <2>1. a.pc = "binary"
    BY <1>1 DEF VisitBinary, At
  <2> QED BY <1>1, <2>1, VisitFacts
<1>3. PICK k \in ReadBinary(l, i) :
         \/ Local(w, SkipEntry(a))
         \/ /\ IsUndef(a.model, k)
            /\ Local(w, Propagate(a, k, [size |-> 2, lit |-> -l, ptr |-> 0]))
         \/ Local(w, InConflict(a, {-l, k}))
  BY <1>1 DEF VisitBinary
<1>4. k \in Lits
  <2>1. db.bDB[l] \in Seq(Lits)
    BY <1>2, DbFields
  <2>2. CASE i \in DOMAIN db.bDB[l]
    BY <1>3, <2>1, <2>2 DEF ReadBinary
  <2>3. CASE i \notin DOMAIN db.bDB[l]
    BY <1>3, <2>3 DEF ReadBinary
  <2> QED BY <2>2, <2>3
<1> QED BY <1>1, <1>3, <1>4, MovingSkip, MovingPropagate, MovingConflict

LEMMA VisitTernaryMoves == ASSUME IInv, NEW w \in Workers, VisitTernary(w) PROVE Moving(w)
<1>1. PICK a, e : a = ad[w] /\ e = db.ternaryWatches[-a.cursor.lit][a.cursor.pos]
  OBVIOUS
<1>2. \/ Local(w, SkipEntry(a))
      \/ \E l \in Lits : /\ IsUndef(a.model, l)
                         /\ Local(w, Propagate(a, l, [size |-> 3, lit |-> ZeroLit,
                                                      ptr |-> e]))
      \/ Local(w, InConflict(a, db.tDB[e].lits))
  BY <1>1, Zenon DEF VisitTernary
<1> QED BY <1>1, <1>2, MovingSkip, MovingPropagate, MovingConflict, Zenon

LEMMA VisitNaryMoves == ASSUME IInv, NEW w \in Workers, VisitNary(w) PROVE Moving(w)
<1>1. PICK a, f, id, t, other, c, free :
         /\ a = ad[w] /\ f = -a.cursor.lit
         /\ id = a.watches[f][a.cursor.pos] /\ t = a.thcdb[id]
         /\ other = IF t.w1 = f THEN t.w2 ELSE t.w1
         /\ c = ThLits(t) /\ free = {k \in c \ {f, other} : ~IsFalse(a.model, k)}
  OBVIOUS
<1>2. a.pc = "nary" /\ a.cursor.pos <= Len(a.watches[f])
  BY <1>1, Zenon DEF VisitNary, At
<1>3. Typed(a) /\ f \in Lits /\ a.cursor.pos \in Nat /\ a.cursor.pos > 0
  BY <1>1, <1>2, VisitFacts, Zenon
<1>4. other \in Lits
  <2>1. a.watches[f] \in Seq(Nat) /\ a.thcdb \in Seq(ThClause)
    BY <1>3 DEF Typed
  <2>2. a.cursor.pos \in DOMAIN a.watches[f]
    BY <1>2, <1>3, <2>1
  <2>3. id \in Range(a.watches[f])
    BY <1>1, <2>2, Zenon DEF Range
  <2>4. WorkerInv(a, db, Read)
    BY <1>1, Zenon DEF IInv
  <2>5. Linked(a.thcdb, a.watches)
    BY <1>2, <2>4 DEF WorkerInv, Core, WatchInv
  <2>6. id \in DOMAIN a.thcdb
    BY <1>3, <2>3, <2>5 DEF Linked
  <2>7. a.thcdb[id] \in ThClause
    BY <2>1, <2>6
  <2>8. t.w1 \in Lits /\ t.w2 \in Lits
    BY <1>1, <2>7, Zenon DEF ThClause
  <2> QED BY <1>1, <2>8, Zenon
<1>5. \/ Local(w, SkipEntry(a))
      \/ Local(w, Rewatch(a, id, f, Min(free)))
      \/ /\ IsUndef(a.model, other)
         /\ Local(w, Propagate(a, other, [size |-> Cardinality(c), lit |-> ZeroLit,
                                          ptr |-> id]))
      \/ Local(w, InConflict([a EXCEPT !.thcdb[id].activity = @ + 1], c))
  BY <1>1, Zenon DEF VisitNary
<1>6. CASE Local(w, Rewatch(a, id, f, Min(free)))
  <2>1. PICK b : b = Rewatch(a, id, f, Min(free))
    OBVIOUS
  <2>2. b.model = a.model /\ SameCounters(a, b)
    BY <1>3, <2>1 DEF Rewatch, Typed, Fields, SameCounters
  <2>3. Local(w, b)
    BY <1>6, <2>1
  <2> QED BY <1>1, <2>2, <2>3, MovingSame, Zenon
<1>7. CASE Local(w, InConflict([a EXCEPT !.thcdb[id].activity = @ + 1], c))
  <2>1. PICK b : b = InConflict([a EXCEPT !.thcdb[id].activity = @ + 1], c)
    OBVIOUS
  <2>2. b.model = a.model /\ SameCounters(a, b)
    BY <1>3, <2>1 DEF InConflict, Typed, Fields, SameCounters
  <2>3. Local(w, b)
    BY <1>7, <2>1
  <2> QED BY <1>1, <2>2, <2>3, MovingSame
<1> QED BY <1>1, <1>4, <1>5, <1>6, <1>7, MovingSkip, MovingPropagate, Zenon

LEMMA PopLiteralMoves == ASSUME IInv, NEW w \in Workers, PopLiteral(w) PROVE Moving(w)
<1>1. PICK a, l, r, x : /\ a = ad[w] /\ l = Top(a.model) /\ r = ReasonOfLit(a.model, l)
                        /\ x = [PopOne(a) EXCEPT !.poppedLit = l, !.marks = @ \ {var(l)},
                                                 !.thcdb = IncreaseActivity(@, r)]
  OBVIOUS
<1>2. WorkerInv(a, db, Read) /\ Typed(a) /\ a.pc = "pop" /\ Place(a, db, Read)
  BY <1>1 DEF IInv, PopLiteral, At, WorkerInv
<1>3. a.model.decisionLvl > 0
  BY <1>2 DEF Place, Popped, InAnalysis
<1>4. x.model = PopAndSetUndef(a.model) /\ SameCounters(a, x) /\ DOMAIN x = Fields
  BY <1>1, <1>2 DEF PopOne, Typed, Fields, SameCounters
<1>5. Moves(a.model, x.model)
  BY <1>3, <1>4 DEF Moves
<1>6. \/ Local(w, PopOne(a))
      \/ Local(w, [x EXCEPT !.pc = "mark", !.pending = @ - 1,
                            !.clause = ClauseOfReason(a, r, l)])
      \/ Local(w, [x EXCEPT !.pc = "lemma", !.poppedLit = ZeroLit, !.pending = 0,
                            !.uip = -l, !.marks = @ \ {var(k) : k \in a.lemma}])
  BY <1>1 DEF PopLiteral
<1>7. CASE Local(w, [x EXCEPT !.pc = "mark", !.pending = @ - 1,
                              !.clause = ClauseOfReason(a, r, l)])
  <2>1. PICK b : b = [x EXCEPT !.pc = "mark", !.pending = @ - 1,
                               !.clause = ClauseOfReason(a, r, l)]
    OBVIOUS
  <2>2. b.model = x.model /\ SameCounters(a, b)
    BY <1>4, <2>1 DEF Fields, SameCounters
  <2>3. Local(w, b)
    BY <1>7, <2>1
  <2> QED BY <1>1, <1>5, <2>2, <2>3, MovingLocal
<1>8. CASE Local(w, [x EXCEPT !.pc = "lemma", !.poppedLit = ZeroLit, !.pending = 0,
                              !.uip = -l, !.marks = @ \ {var(k) : k \in a.lemma}])
  <2>1. PICK b : b = [x EXCEPT !.pc = "lemma", !.poppedLit = ZeroLit, !.pending = 0,
                               !.uip = -l, !.marks = @ \ {var(k) : k \in a.lemma}]
    OBVIOUS
  <2>2. b.model = x.model /\ SameCounters(a, b)
    BY <1>4, <2>1 DEF Fields, SameCounters
  <2>3. Local(w, b)
    BY <1>8, <2>1
  <2> QED BY <1>1, <1>5, <2>2, <2>3, MovingLocal
<1> QED BY <1>1, <1>3, <1>6, <1>7, <1>8, MovingPop

LEMMA UnwindMoves == ASSUME IInv, NEW w \in Workers, Unwind(w) PROVE Moving(w)
<1>1. PICK a : a = ad[w]
  OBVIOUS
<1>2. /\ Typed(a) /\ a.model \in ModelType /\ Local(w, PopOne(a))
      /\ a.model.decisionLvl > Target(a)
  BY <1>1, WorkerParts DEF IInv, Unwind
<1>3. Target(a) \in Nat /\ a.model.decisionLvl \in Nat
  BY <1>2 DEF Target, Typed, ModelType
<1>4. a.model.decisionLvl > 0
  BY <1>2, <1>3
<1> QED BY <1>1, <1>2, <1>4, MovingPop

LEMMA SetTrueUipMoves == ASSUME IInv, NEW w \in Workers, SetTrueUip(w) PROVE Moving(w)
<1>1. PICK a, b : /\ a = ad[w]
                  /\ b = [a EXCEPT !.pc = "propagate", !.uip = ZeroLit, !.rUIP = NoReason,
                                   !.model = SetTrueWithReason(@, a.uip, a.rUIP)]
  OBVIOUS
<1>2. Typed(a) /\ a.pc = "backjump" /\ Place(a, db, Read) /\ Local(w, b)
  BY <1>1 DEF IInv, SetTrueUip, At, WorkerInv
<1>3. a.uip \in Lits /\ IsUndef(a.model, a.uip)
  BY <1>2 DEF Place, Backjumping, UipGood
<1>4. b.model = SetTrueWithReason(a.model, a.uip, a.rUIP) /\ SameCounters(a, b)
  BY <1>1, <1>2 DEF Typed, Fields, SameCounters
<1>5. Moves(a.model, b.model)
  BY <1>3, <1>4 DEF Moves
<1> QED BY <1>1, <1>2, <1>4, <1>5, MovingLocal

LEMMA DecideAtRandomMoves ==
    ASSUME IInv, NEW w \in Workers, DecideAtRandom(w)
    PROVE  Moving(w)
<1>1. PICK r \in RandomVars : /\ RandomDecision(ad[w].model, r) # 0
                              /\ Local(w, Decided(ad[w], RandomDecision(ad[w].model, r)))
  BY DEF DecideAtRandom
<1>2. PICK v, c : v = RandomDecision(ad[w].model, r) /\ c = Decided(ad[w], v)
  OBVIOUS
<1>3. v \in Vars /\ IsUndefVar(ad[w].model, v) /\ ad[w].pc = "decide"
  BY <1>1, <1>2, RandomDecisionIs DEF DecideAtRandom, At
<1>4. SameCounters(c, c) /\ Local(w, c)
  BY <1>1, <1>2 DEF SameCounters
<1> QED BY <1>2, <1>3, <1>4, MovingDecided

LEMMA DecideFromHeapMoves ==
    ASSUME IInv, NEW w \in Workers, DecideFromHeap(w)
    PROVE  Moving(w)
<1>1. PICK a : a = ad[w]
  OBVIOUS
<1>2. Typed(a) /\ a.heap \in SUBSET Vars /\ a.pc = "decide"
  BY <1>1, WorkerParts DEF IInv, DecideFromHeap, At
<1>3. PICK order \in DecisionOrders :
         LET v == HeapDecision(a.model, a.heap, order)
         IN  Local(w, [Decided(a, v) EXCEPT
                         !.heap = {u \in a.heap : order[u] < order[v]}])
  BY <1>1 DEF DecideFromHeap
<1>4. PICK v, c, h, b : /\ v = HeapDecision(a.model, a.heap, order)
                        /\ c = Decided(a, v)
                        /\ h = {u \in a.heap : order[u] < order[v]}
                        /\ b = [c EXCEPT !.heap = h]
  OBVIOUS
<1>5. Local(w, b)
  BY <1>3, <1>4
<1>6. v \in Vars /\ IsUndefVar(a.model, v)
  <2>1. \E u \in a.heap : IsUndefVar(a.model, u)
    BY <1>1 DEF DecideFromHeap
  <2> QED BY <1>2, <1>4, <2>1, HeapDecisionIs
<1>7. Differs(a, c, {"pc", "model", "decisions"})
  BY <1>2, <1>4, DecidedFields
<1>8. b.model = c.model /\ SameCounters(c, b)
  BY <1>4, <1>7 DEF Differs, Fields, SameCounters
<1> QED BY <1>1, <1>2, <1>4, <1>5, <1>6, <1>8, MovingDecided

-----------------------------------------------------------------------------
(* What a worker that shares the database with nobody has inserted *)

\* The worker's counters are the lengths of the lists: nothing waits to be taken.
UpToDate(a, d) ==
    /\ a.lastUnit = Len(d.uDB) /\ a.lastTernary = Len(d.tDB)
    /\ a.lastNary = Len(d.nDB)
    /\ \A l \in Lits : a.lastBins[l] = Len(d.bDB[l])

\* What a worker stores when nothing waits at its next position.
UnitAdded(d, l, e) == e = InsertUnit(d, l, FALSE, Len(d.uDB))
BinaryAdded(d, l1, l2, e) == e = InsertBinary(d, l1, l2, FALSE, Len(d.bDB[-l1]))
TernaryAdded(d, c, w, e) == e = InsertTernary(d, c, FALSE, w, Len(d.tDB))
NaryAdded(d, c, w, e) == e = InsertNary(d, c, FALSE, w, Len(d.nDB))

\* An insertion at the end of a list makes it one longer, and no other list.
LEMMA UnitCounts ==
    ASSUME NEW d \in ClauseDBType, NEW l \in Lits, NEW e, UnitAdded(d, l, e)
    PROVE  /\ Len(e.uDB) = Len(d.uDB) + 1
           /\ e.bDB = d.bDB /\ e.tDB = d.tDB /\ e.nDB = d.nDB
<1>1. ~AlreadyInList(d.uDB, FALSE, Len(d.uDB))
  BY DbFields DEF AlreadyInList
<1>2. e = [d EXCEPT !.uDB = Append(@, l)]
  BY <1>1 DEF InsertUnit, UnitAdded
<1>3. PICK s : s = Append(d.uDB, l)
  OBVIOUS
<1>4. e.uDB = s /\ e.bDB = d.bDB /\ e.tDB = d.tDB /\ e.nDB = d.nDB
  BY <1>2, <1>3 DEF ClauseDBType
<1>5. Appends(s, d.uDB, l) /\ d.uDB \in Seq(Lits)
  BY <1>3, DbFields DEF Appends
<1>6. Len(s) = Len(d.uDB) + 1
  BY <1>5, AppendContinues, ZenonT(40)
<1> QED BY <1>4, <1>6

BinaryMore(d, x1, x2, e) ==
    /\ Len(e.bDB[x1]) = Len(d.bDB[x1]) + 1 /\ Len(e.bDB[x2]) = Len(d.bDB[x2]) + 1
    /\ \A l \in Lits \ {x1, x2} : e.bDB[l] = d.bDB[l]
    /\ e.uDB = d.uDB /\ e.tDB = d.tDB /\ e.nDB = d.nDB

LEMMA BinaryCounts ==
    ASSUME NEW d \in ClauseDBType, NEW l1 \in Lits, NEW l2 \in Lits, l1 # l2,
           NEW e, BinaryAdded(d, l1, l2, e)
    PROVE  BinaryMore(d, -l1, -l2, e)
<1>1. PICK x1, x2 : x1 = -l1 /\ x2 = -l2
  OBVIOUS
<1>2. x1 \in Lits /\ x2 \in Lits /\ x1 # x2
  BY <1>1, LitFacts DEF Lits
<1>3. ~AlreadyInList(d.bDB[x1], FALSE, Len(d.bDB[x1]))
  BY <1>1, <1>2, DbFields DEF AlreadyInList
<1>4. PICK D, q1, q2, s1, s2 : /\ D = d.bDB /\ q1 = D[x1] /\ q2 = D[x2]
                               /\ s1 = Append(q1, l2) /\ s2 = Append(q2, l1)
  OBVIOUS
<1>5. D \in [Lits -> Seq(Lits)] /\ q1 \in Seq(Lits) /\ q2 \in Seq(Lits)
  BY <1>2, <1>4, DbFields
<1>6. e = [d EXCEPT !.bDB = [[D EXCEPT ![x1] = s1] EXCEPT ![x2] = s2]]
  <2>1. e = [d EXCEPT !.bDB[-l1] = Append(@, l2), !.bDB[-l2] = Append(@, l1)]
    BY <1>1, <1>3 DEF InsertBinary, BinaryAdded
  <2> QED BY <1>1, <1>2, <1>4, <2>1 DEF ClauseDBType
<1>7. /\ e.bDB = [[D EXCEPT ![x1] = s1] EXCEPT ![x2] = s2]
      /\ e.uDB = d.uDB /\ e.tDB = d.tDB /\ e.nDB = d.nDB
  BY <1>6 DEF ClauseDBType
<1>8. /\ e.bDB[x1] = s1 /\ e.bDB[x2] = s2
      /\ \A l \in Lits \ {x1, x2} : e.bDB[l] = D[l]
  BY <1>2, <1>5, <1>7
<1>9. Appends(s1, q1, l2) /\ Appends(s2, q2, l1)
  BY <1>4 DEF Appends
<1>10. Len(s1) = Len(q1) + 1
  BY <1>5, <1>9, AppendContinues
<1>11. Len(s2) = Len(q2) + 1
  BY <1>5, <1>9, AppendContinues
<1>12. BinaryMore(d, x1, x2, e)
  BY <1>4, <1>7, <1>8, <1>10, <1>11 DEF BinaryMore
<1> QED BY <1>1, <1>12

LEMMA TernaryCounts ==
    ASSUME NEW d \in ClauseDBType, NEW c \in Clause, NEW w, NEW e, TernaryAdded(d, c, w, e)
    PROVE  /\ Len(e.tDB) = Len(d.tDB) + 1
           /\ e.uDB = d.uDB /\ e.bDB = d.bDB /\ e.nDB = d.nDB
<1>1. ~AlreadyInList(d.tDB, FALSE, Len(d.tDB))
  BY DbFields DEF AlreadyInList
<1>2. PICK t, ws : /\ t = [lits |-> c, flags |-> Flags(FALSE, w)]
                   /\ ws = [l \in Lits |-> IF l \in c
                                           THEN Append(d.ternaryWatches[l], Len(d.tDB) + 1)
                                           ELSE d.ternaryWatches[l]]
  OBVIOUS
<1>3. e = [d EXCEPT !.tDB = Append(@, t), !.ternaryWatches = ws]
  BY <1>1, <1>2 DEF InsertTernary, TernaryAdded
<1>4. PICK s : s = Append(d.tDB, t)
  OBVIOUS
<1>5. e.tDB = s /\ e.uDB = d.uDB /\ e.bDB = d.bDB /\ e.nDB = d.nDB
  BY <1>3, <1>4 DEF ClauseDBType
<1>6. Appends(s, d.tDB, t) /\ d.tDB \in Seq(TernaryEntry) /\ t \in TernaryEntry
  BY <1>2, <1>4, DbFields DEF Appends, TernaryEntry, Flags
<1>7. Len(s) = Len(d.tDB) + 1
  BY <1>6, AppendContinues, ZenonT(40)
<1> QED BY <1>5, <1>7

LEMMA NaryCounts ==
    ASSUME NEW d \in ClauseDBType, NEW c \in Clause, NEW w, NEW e, NaryAdded(d, c, w, e)
    PROVE  /\ Len(e.nDB) = Len(d.nDB) + 1
           /\ e.uDB = d.uDB /\ e.bDB = d.bDB /\ e.tDB = d.tDB
<1>1. ~AlreadyInList(d.nDB, FALSE, Len(d.nDB))
  BY DbFields DEF AlreadyInList
<1>2. PICK t : t = [lits |-> c, flags |-> Flags(FALSE, w), original |-> FALSE]
  OBVIOUS
<1>3. e = [d EXCEPT !.nDB = Append(@, t)]
  BY <1>1, <1>2 DEF InsertNary, NaryAdded
<1>4. PICK s : s = Append(d.nDB, t)
  OBVIOUS
<1>5. e.nDB = s /\ e.uDB = d.uDB /\ e.bDB = d.bDB /\ e.tDB = d.tDB
  BY <1>3, <1>4 DEF ClauseDBType
<1>6. Appends(s, d.nDB, t) /\ d.nDB \in Seq(NaryEntry) /\ t \in NaryEntry
  BY <1>2, <1>4, DbFields DEF Appends, NaryEntry, Flags
<1>7. Len(s) = Len(d.nDB) + 1
  BY <1>6, AppendContinues, ZenonT(40)
<1> QED BY <1>5, <1>7

\* A flag that goes down leaves the lengths alone.
LEMMA FlagClearedCounts ==
    ASSUME NEW d \in ClauseDBType, NEW pos \in DOMAIN d.nDB, NEW w \in Workers,
           NEW e, e = FlagCleared(d, pos, w)
    PROVE  /\ Len(e.nDB) = Len(d.nDB)
           /\ e.uDB = d.uDB /\ e.bDB = d.bDB /\ e.tDB = d.tDB
<1>1. PICK T : T = d.nDB
  OBVIOUS
<1>2. T \in Seq(NaryEntry) /\ pos \in DOMAIN T
  BY <1>1, DbFields
<1>3. e.nDB = [T EXCEPT ![pos].flags[w] = FALSE]
      /\ e.uDB = d.uDB /\ e.bDB = d.bDB /\ e.tDB = d.tDB
  BY <1>1 DEF FlagCleared, ClauseDBType
<1>4. PICK T2 : T2 = e.nDB
  OBVIOUS
<1>5. Flagged(T2, T, pos, w, FALSE)
  BY <1>3, <1>4 DEF Flagged
<1>6. Len(T2) = Len(T)
  BY <1>2, <1>5, NaryFlagChanged
<1> QED BY <1>1, <1>3, <1>4, <1>6

\* The model makes a move, and what was inserted stays all there is: a step of w.
Steady(w) ==
    /\ Moves(ad[w].model, ad'[w].model)
    /\ UpToDate(ad[w], db) => UpToDate(ad'[w], db')
    /\ \A u \in Workers \ {w} : ad'[u] = ad[u]

LEMMA MovingIsSteady == ASSUME NEW w, Moving(w) PROVE Steady(w)
BY DEF Moving, Steady, UpToDate, SameCounters

LEMMA LearnUnitSteady ==
    ASSUME IInv, SameSearch, NEW w \in Workers, LearnUnit(w)
    PROVE  Steady(w)
<1>1. PICK a, c, r, b, e, l, last, d :
         /\ a = ad[w] /\ c = [a EXCEPT !.lastUnit = @ + 1] /\ r = NoReason
         /\ b = AfterLearning(c, r) /\ l = a.uip /\ last = a.lastUnit /\ d = db
         /\ e = InsertUnit(d, l, FALSE, last)
  OBVIOUS
<1>2. ReadyToLearn(w) /\ Sharing(w, b, e)
  BY <1>1 DEF LearnUnit
<1>3. Typed(a) /\ d \in ClauseDBType /\ l \in Lits /\ last \in Nat
  BY <1>1, <1>2, LearnFacts
<1>4. b.model = a.model /\ b.lastUnit = last + 1 /\ b.lastBins = a.lastBins
      /\ b.lastTernary = a.lastTernary /\ b.lastNary = a.lastNary
  BY <1>1, <1>3 DEF Typed, Fields, AfterLearning
<1>5. ad'[w] = b /\ db' = e /\ \A u \in Workers \ {w} : ad'[u] = ad[u]
  BY <1>2, SharingIs
<1>6. UpToDate(a, d) => UpToDate(b, e)
  <2>1. SUFFICES ASSUME UpToDate(a, d) PROVE UpToDate(b, e)
    OBVIOUS
  <2>2. last = Len(d.uDB)
    BY <1>1, <2>1 DEF UpToDate
  <2>3. /\ Len(e.uDB) = Len(d.uDB) + 1
        /\ e.bDB = d.bDB /\ e.tDB = d.tDB /\ e.nDB = d.nDB
    <3>1. d \in ClauseDBType /\ l \in Lits /\ UnitAdded(d, l, e)
      BY <1>1, <1>3, <2>2 DEF UnitAdded
    <3> QED BY <3>1, UnitCounts
  <2> QED BY <1>4, <2>1, <2>2, <2>3 DEF UpToDate
<1> QED BY <1>1, <1>4, <1>5, <1>6 DEF Steady, Moves

\* The two lists of a binary get one entry more, and the counters with them.
BinaryStored(a, b, d, e, l1, l2) ==
    /\ d \in ClauseDBType /\ UpToDate(a, d) /\ a.lastBins \in [Lits -> Nat]
    /\ l1 \in Lits /\ l2 \in Lits /\ l1 # l2
    /\ TwoCounted(a.lastBins, -l1, -l2, b.lastBins)
    /\ b.lastUnit = a.lastUnit /\ b.lastTernary = a.lastTernary
    /\ b.lastNary = a.lastNary
    /\ e = InsertBinary(d, l1, l2, FALSE, a.lastBins[-l1])

LEMMA BinaryUpToDate ==
    ASSUME NEW a, NEW b, NEW d, NEW e, NEW l1, NEW l2, BinaryStored(a, b, d, e, l1, l2)
    PROVE  UpToDate(b, e)
<1>0. /\ d \in ClauseDBType /\ UpToDate(a, d) /\ a.lastBins \in [Lits -> Nat]
      /\ l1 \in Lits /\ l2 \in Lits /\ l1 # l2
      /\ TwoCounted(a.lastBins, -l1, -l2, b.lastBins)
      /\ b.lastUnit = a.lastUnit /\ b.lastTernary = a.lastTernary
      /\ b.lastNary = a.lastNary
      /\ e = InsertBinary(d, l1, l2, FALSE, a.lastBins[-l1])
  BY DEF BinaryStored
<1>1. PICK x1, x2, B, B2, D, last : /\ x1 = -l1 /\ x2 = -l2 /\ D = d.bDB
                                    /\ B = a.lastBins /\ B2 = b.lastBins /\ last = B[x1]
  OBVIOUS
<1>2. x1 \in Lits /\ x2 \in Lits /\ x1 # x2 /\ B \in [Lits -> Nat]
  BY <1>0, <1>1, LitFacts DEF Lits
<1>3. TwoCounted(B, x1, x2, B2)
  BY <1>0, <1>1
<1>4. B2[x1] = B[x1] + 1 /\ B2[x2] = B[x2] + 1 /\ \A k \in Lits \ {x1, x2} : B2[k] = B[k]
  BY <1>2, <1>3, TwoMore
<1>5. \A l \in Lits : B[l] = Len(D[l])
  BY <1>0, <1>1 DEF UpToDate
<1>6. BinaryAdded(d, l1, l2, e)
  BY <1>0, <1>1, <1>2, <1>5 DEF BinaryAdded
<1>7. /\ Len(e.bDB[x1]) = Len(D[x1]) + 1 /\ Len(e.bDB[x2]) = Len(D[x2]) + 1
      /\ \A l \in Lits \ {x1, x2} : e.bDB[l] = D[l]
      /\ e.uDB = d.uDB /\ e.tDB = d.tDB /\ e.nDB = d.nDB
  <2>1. BinaryMore(d, -l1, -l2, e)
    BY <1>0, <1>6, BinaryCounts
  <2> QED BY <1>1, <2>1 DEF BinaryMore
<1>8. ASSUME NEW l \in Lits PROVE B2[l] = Len(e.bDB[l])
  <2>1. CASE l = x1
    BY <1>2, <1>4, <1>5, <1>7, <2>1
  <2>2. CASE l = x2
    BY <1>2, <1>4, <1>5, <1>7, <2>2
  <2>3. CASE l \in Lits \ {x1, x2}
    BY <1>4, <1>5, <1>7, <2>3
  <2> QED BY <2>1, <2>2, <2>3
<1> QED BY <1>0, <1>1, <1>7, <1>8 DEF UpToDate

LEMMA LearnBinarySteady ==
    ASSUME IInv, SameSearch, NEW w \in Workers, LearnBinary(w)
    PROVE  Steady(w)
<1>1. PICK l \in Lits :
         /\ ad[w].lemmaToLearn = {l}
         /\ Sharing(w, AfterLearning(CountBinary(ad[w], ad[w].uip, l),
                                     [size |-> 2, lit |-> l, ptr |-> 0]),
                       InsertBinary(db, ad[w].uip, l, FALSE, ad[w].lastBins[-ad[w].uip]))
  BY DEF LearnBinary
<1>2. PICK a, u, c, r, b, d, e :
         /\ a = ad[w] /\ u = a.uip /\ c = CountBinary(a, u, l)
         /\ r = [size |-> 2, lit |-> l, ptr |-> 0] /\ b = AfterLearning(c, r) /\ d = db
         /\ e = InsertBinary(d, u, l, FALSE, a.lastBins[-u])
  OBVIOUS
<1>3. ReadyToLearn(w) /\ Sharing(w, b, e)
  BY <1>1, <1>2 DEF LearnBinary
<1>4. /\ Typed(a) /\ d \in ClauseDBType /\ u \in Lits /\ u # l
      /\ a.lastBins \in [Lits -> Nat]
  <2>1. a.uip \notin a.lemmaToLearn
    BY <1>2, <1>3, LearnFacts
  <2> QED BY <1>1, <1>2, <1>3, <2>1, LearnFacts
<1>5. /\ c.model = a.model /\ c.lastUnit = a.lastUnit
      /\ c.lastTernary = a.lastTernary /\ c.lastNary = a.lastNary
      /\ c.lastBins = [a.lastBins EXCEPT ![-u] = @ + 1, ![-l] = @ + 1]
      /\ DOMAIN c = Fields /\ c = [f \in Fields |-> c[f]]
  BY <1>2, <1>4 DEF Typed, Fields, CountBinary
<1>6. /\ b.model = c.model /\ b.lastUnit = c.lastUnit /\ b.lastBins = c.lastBins
      /\ b.lastTernary = c.lastTernary /\ b.lastNary = c.lastNary
  BY <1>2, <1>5 DEF Fields, AfterLearning
<1>7. ad'[w] = b /\ db' = e /\ \A v \in Workers \ {w} : ad'[v] = ad[v]
  BY <1>3, SharingIs
<1>8. UpToDate(a, d) => UpToDate(b, e)
  <2>1. TwoCounted(a.lastBins, -u, -l, b.lastBins)
    BY <1>5, <1>6 DEF TwoCounted
  <2>2. /\ d \in ClauseDBType /\ a.lastBins \in [Lits -> Nat]
        /\ u \in Lits /\ l \in Lits /\ u # l
        /\ b.lastUnit = a.lastUnit /\ b.lastTernary = a.lastTernary
        /\ b.lastNary = a.lastNary
        /\ e = InsertBinary(d, u, l, FALSE, a.lastBins[-u])
    BY <1>2, <1>4, <1>5, <1>6, Zenon
  <2>3. UpToDate(a, d) => BinaryStored(a, b, d, e, u, l)
    BY <2>1, <2>2 DEF BinaryStored
  <2> QED BY <2>3, BinaryUpToDate
<1> QED BY <1>2, <1>5, <1>6, <1>7, <1>8 DEF Steady, Moves

LEMMA LearnTernarySteady ==
    ASSUME IInv, SameSearch, NEW w \in Workers, LearnTernary(w)
    PROVE  Steady(w)
<1>1. PICK a, c, r, b, e, lits, last, d :
         /\ a = ad[w] /\ c = [a EXCEPT !.lastTernary = @ + 1] /\ lits = Learned(a)
         /\ r = [size |-> 3, lit |-> ZeroLit, ptr |-> EntryFor(db.tDB, FALSE, a.lastTernary)]
         /\ b = AfterLearning(c, r) /\ last = a.lastTernary /\ d = db
         /\ e = InsertTernary(d, lits, FALSE, w, last)
  OBVIOUS
<1>2. ReadyToLearn(w) /\ Sharing(w, b, e)
  BY <1>1 DEF LearnTernary
<1>3. Typed(a) /\ d \in ClauseDBType /\ lits \in Clause /\ last \in Nat
  BY <1>1, <1>2, LearnFacts
<1>4. b.model = a.model /\ b.lastTernary = last + 1 /\ b.lastBins = a.lastBins
      /\ b.lastUnit = a.lastUnit /\ b.lastNary = a.lastNary
  BY <1>1, <1>3 DEF Typed, Fields, AfterLearning
<1>5. ad'[w] = b /\ db' = e /\ \A u \in Workers \ {w} : ad'[u] = ad[u]
  BY <1>2, SharingIs
<1>6. UpToDate(a, d) => UpToDate(b, e)
  <2>1. SUFFICES ASSUME UpToDate(a, d) PROVE UpToDate(b, e)
    OBVIOUS
  <2>2. last = Len(d.tDB)
    BY <1>1, <2>1 DEF UpToDate
  <2>3. /\ Len(e.tDB) = Len(d.tDB) + 1
        /\ e.bDB = d.bDB /\ e.uDB = d.uDB /\ e.nDB = d.nDB
    <3>1. d \in ClauseDBType /\ lits \in Clause /\ TernaryAdded(d, lits, w, e)
      BY <1>1, <1>3, <2>2 DEF TernaryAdded
    <3> QED BY <3>1, TernaryCounts
  <2> QED BY <1>4, <2>1, <2>2, <2>3 DEF UpToDate
<1> QED BY <1>1, <1>4, <1>5, <1>6 DEF Steady, Moves

LEMMA LearnNarySteady ==
    ASSUME IInv, SameSearch, NEW w \in Workers, LearnNary(w)
    PROVE  Steady(w)
<1>1. PICK a, t, c1, c, r, b, last, lits, d, e :
         /\ a = ad[w] /\ last = a.lastNary /\ lits = Learned(a)
         /\ t = [pos |-> a.lastNary + 1, w1 |-> a.uip, w2 |-> OtherWatch(a), activity |-> 0]
         /\ c1 = [a EXCEPT !.lastNary = @ + 1] /\ c = InsertThClause(c1, t)
         /\ r = [size |-> Cardinality(lits), lit |-> ZeroLit, ptr |-> Len(a.thcdb) + 1]
         /\ b = AfterLearning(c, r) /\ d = db
         /\ e = InsertNary(d, lits, FALSE, w, last)
  OBVIOUS
<1>2. ReadyToLearn(w) /\ Sharing(w, b, e)
  BY <1>1 DEF LearnNary
<1>3. Typed(a) /\ d \in ClauseDBType /\ lits \in Clause /\ last \in Nat
  BY <1>1, <1>2, LearnFacts
<1>4. /\ c1.model = a.model /\ c1.lastUnit = a.lastUnit /\ c1.lastBins = a.lastBins
      /\ c1.lastTernary = a.lastTernary /\ c1.lastNary = last + 1
      /\ DOMAIN c1 = Fields /\ c1 = [f \in Fields |-> c1[f]]
  BY <1>1, <1>3 DEF Typed, Fields
<1>5. /\ c.model = c1.model /\ c.lastUnit = c1.lastUnit /\ c.lastBins = c1.lastBins
      /\ c.lastTernary = c1.lastTernary /\ c.lastNary = c1.lastNary
      /\ DOMAIN c = Fields /\ c = [f \in Fields |-> c[f]]
  BY <1>1, <1>4, ZenonT(40) DEF Fields, InsertThClause
<1>6. /\ b.model = c.model /\ b.lastUnit = c.lastUnit /\ b.lastBins = c.lastBins
      /\ b.lastTernary = c.lastTernary /\ b.lastNary = c.lastNary
  <2>1. b = AfterLearning(c, r)
    BY <1>1
  <2>2. DOMAIN c = Fields /\ c = [f \in Fields |-> c[f]]
    BY <1>5
  <2> QED BY <2>1, <2>2 DEF Fields, AfterLearning
<1>7. ad'[w] = b /\ db' = e /\ \A u \in Workers \ {w} : ad'[u] = ad[u]
  BY <1>2, SharingIs
<1>8. UpToDate(a, d) => UpToDate(b, e)
  <2>1. SUFFICES ASSUME UpToDate(a, d) PROVE UpToDate(b, e)
    OBVIOUS
  <2>2. last = Len(d.nDB)
    BY <1>1, <2>1 DEF UpToDate
  <2>3. /\ Len(e.nDB) = Len(d.nDB) + 1
        /\ e.bDB = d.bDB /\ e.uDB = d.uDB /\ e.tDB = d.tDB
    <3>1. d \in ClauseDBType /\ lits \in Clause /\ NaryAdded(d, lits, w, e)
      BY <1>1, <1>3, <2>2 DEF NaryAdded
    <3> QED BY <3>1, NaryCounts
  <2> QED BY <1>4, <1>5, <1>6, <2>1, <2>2, <2>3 DEF UpToDate
<1> QED BY <1>1, <1>4, <1>5, <1>6, <1>7, <1>8, ZenonT(40) DEF Steady, Moves

\* What is left of a clause is stored: a literal of its own is set, and the counters
\* go up with the lists.
Shrinks(a, x, rest, c, e) ==
    /\ Typed(x) /\ db \in ClauseDBType /\ rest \in Clause
    /\ \A l \in rest : IsUndef(x.model, l)
    /\ SameCounters(a, x)
    /\ a.lastBins \in [Lits -> Nat]

LEMMA ShrunkShrinks ==
    ASSUME NEW w, NEW a, NEW x, NEW rest, NEW c, NEW e, ShrunkFrom(w, a, x, rest, c, e)
    PROVE  Shrinks(a, x, rest, c, e)
<1>1. /\ Typed(x) /\ db \in ClauseDBType
      /\ x.lastUnit = a.lastUnit /\ x.lastBins = a.lastBins
      /\ x.lastTernary = a.lastTernary /\ x.lastBins \in [Lits -> Nat]
  BY ShrunkFacts
<1>2. x.lastNary = a.lastNary
  BY DEF ShrunkFrom, Differs, Fields
<1>3. rest \in Clause /\ \A l \in rest : IsUndef(x.model, l)
  BY DEF ShrunkFrom
<1> QED BY <1>1, <1>2, <1>3 DEF Shrinks, SameCounters

LEMMA ShrunkUnitCounts ==
    ASSUME NEW w, NEW a, NEW x, NEW rest, NEW c, NEW e, Shrinks(a, x, rest, c, e),
           c = ShrunkSolver(x, rest), e = ShrunkDB(w, a, rest), Cardinality(rest) = 1
    PROVE  /\ Moves(x.model, c.model)
           /\ UpToDate(a, db) => UpToDate(c, e)
<1>1. /\ Typed(x) /\ db \in ClauseDBType /\ rest \in Clause /\ SameCounters(a, x)
      /\ \A l \in rest : IsUndef(x.model, l)
  BY DEF Shrinks
<1>2. PICK l, last, d : l = Min(rest) /\ last = a.lastUnit /\ d = db
  OBVIOUS
<1>3. l \in rest /\ rest = {l}
  <2>1. rest # {}
    BY <1>1, ClauseSize
  <2>2. l \in rest
    BY <1>1, <1>2, <2>1, LeastLiteral
  <2> QED BY <1>1, <2>2, ClauseSize
<1>4. l \in Lits /\ IsUndef(x.model, l) /\ (CHOOSE k \in rest : TRUE) = l
  BY <1>1, <1>3 DEF Clause
<1>5. c = [x EXCEPT !.lastUnit = @ + 1,
                    !.model = SetTrueWithReason(@, l, NoReason)]
  <2>1. c = [x EXCEPT !.lastUnit = @ + 1,
                      !.model = SetTrueWithReason(@, CHOOSE k \in rest : TRUE, NoReason)]
    BY DEF ShrunkSolver
  <2> QED BY <1>4, <2>1
<1>6. /\ c.model = SetTrueWithReason(x.model, l, NoReason)
      /\ c.lastUnit = last + 1 /\ c.lastBins = a.lastBins
      /\ c.lastTernary = a.lastTernary /\ c.lastNary = a.lastNary
  <2>1. /\ c.model = SetTrueWithReason(x.model, l, NoReason)
        /\ c.lastUnit = x.lastUnit + 1 /\ c.lastBins = x.lastBins
        /\ c.lastTernary = x.lastTernary /\ c.lastNary = x.lastNary
    BY <1>1, <1>5 DEF Typed, Fields
  <2>2. /\ x.lastUnit = a.lastUnit /\ x.lastBins = a.lastBins
        /\ x.lastTernary = a.lastTernary /\ x.lastNary = a.lastNary
    BY <1>1 DEF SameCounters
  <2>3. last = a.lastUnit
    BY <1>2
  <2> QED BY <2>1, <2>2, <2>3
<1>7. e = InsertUnit(d, l, FALSE, last)
  BY <1>2 DEF ShrunkDB
<1>8. UpToDate(a, db) => UpToDate(c, e)
  <2>1. SUFFICES ASSUME UpToDate(a, db) PROVE UpToDate(c, e)
    OBVIOUS
  <2>2. d \in ClauseDBType /\ UnitAdded(d, l, e) /\ last = Len(d.uDB)
    BY <1>1, <1>2, <1>7, <2>1 DEF UpToDate, UnitAdded
  <2>3. /\ Len(e.uDB) = Len(d.uDB) + 1
        /\ e.bDB = d.bDB /\ e.tDB = d.tDB /\ e.nDB = d.nDB
    BY <1>4, <2>2, UnitCounts
  <2> QED BY <1>2, <1>6, <2>1, <2>2, <2>3 DEF UpToDate
<1> QED BY <1>4, <1>6, <1>8 DEF Moves

LEMMA ShrunkTernaryCounts ==
    ASSUME NEW w, NEW a, NEW x, NEW rest, NEW c, NEW e, Shrinks(a, x, rest, c, e),
           c = ShrunkSolver(x, rest), e = ShrunkDB(w, a, rest), Cardinality(rest) = 3
    PROVE  /\ Moves(x.model, c.model)
           /\ UpToDate(a, db) => UpToDate(c, e)
<1>1. Typed(x) /\ db \in ClauseDBType /\ rest \in Clause /\ SameCounters(a, x)
  BY DEF Shrinks
<1>2. PICK last, d : last = a.lastTernary /\ d = db
  OBVIOUS
<1>5. c = [x EXCEPT !.lastTernary = @ + 1]
  BY DEF ShrunkSolver
<1>6. /\ c.model = x.model /\ c.lastTernary = last + 1 /\ c.lastBins = a.lastBins
      /\ c.lastUnit = a.lastUnit /\ c.lastNary = a.lastNary
  <2>1. /\ c.model = x.model /\ c.lastTernary = x.lastTernary + 1
        /\ c.lastBins = x.lastBins /\ c.lastUnit = x.lastUnit
        /\ c.lastNary = x.lastNary
    BY <1>1, <1>5 DEF Typed, Fields
  <2>2. /\ x.lastUnit = a.lastUnit /\ x.lastBins = a.lastBins
        /\ x.lastTernary = a.lastTernary /\ x.lastNary = a.lastNary
    BY <1>1 DEF SameCounters
  <2>3. last = a.lastTernary
    BY <1>2
  <2> QED BY <2>1, <2>2, <2>3
<1>7. e = InsertTernary(d, rest, FALSE, w, last)
  BY <1>2 DEF ShrunkDB
<1>8. UpToDate(a, db) => UpToDate(c, e)
  <2>1. SUFFICES ASSUME UpToDate(a, db) PROVE UpToDate(c, e)
    OBVIOUS
  <2>2. d \in ClauseDBType /\ TernaryAdded(d, rest, w, e) /\ last = Len(d.tDB)
    BY <1>1, <1>2, <1>7, <2>1 DEF UpToDate, TernaryAdded
  <2>3. /\ Len(e.tDB) = Len(d.tDB) + 1
        /\ e.bDB = d.bDB /\ e.uDB = d.uDB /\ e.nDB = d.nDB
    BY <1>1, <2>2, TernaryCounts
  <2> QED BY <1>2, <1>6, <2>1, <2>2, <2>3 DEF UpToDate
<1> QED BY <1>6, <1>8 DEF Moves

LEMMA ShrunkBinaryCounts ==
    ASSUME NEW w, NEW a, NEW x, NEW rest, NEW c, NEW e, Shrinks(a, x, rest, c, e),
           c = ShrunkSolver(x, rest), e = ShrunkDB(w, a, rest), Cardinality(rest) = 2
    PROVE  /\ Moves(x.model, c.model)
           /\ UpToDate(a, db) => UpToDate(c, e)
<1>1. /\ Typed(x) /\ db \in ClauseDBType /\ rest \in Clause /\ SameCounters(a, x)
      /\ a.lastBins \in [Lits -> Nat]
  BY DEF Shrinks
<1>2. PICK u, l, first, other, d :
         /\ u = Min(rest) /\ l = Second(rest) /\ d = db
         /\ first = (CHOOSE k \in rest : TRUE) /\ other = (CHOOSE k \in rest : k # first)
  OBVIOUS
<1>3. u \in rest /\ l \in rest /\ u # l /\ rest = {u, l}
  <2>1. u \in rest /\ l \in rest /\ u # l
    BY <1>1, <1>2, FirstTwo
  <2> QED BY <1>1, <2>1, ClauseOfTwo
<1>4. first \in rest /\ other \in rest /\ first # other
  <2>1. first \in rest
    BY <1>2, <1>3
  <2>2. \E k \in rest : k # first
    BY <1>1, <2>1, ClauseOfTwo
  <2> QED BY <1>2, <2>1, <2>2
<1>5. c = [x EXCEPT !.lastBins[-first] = @ + 1, !.lastBins[-other] = @ + 1]
  <2>1. c = CountBinary(x, CHOOSE k \in rest : TRUE,
                        CHOOSE k \in rest : k # CHOOSE j \in rest : TRUE)
    BY DEF ShrunkSolver
  <2>2. c = CountBinary(x, first, other)
    BY <1>2, <2>1
  <2> QED BY <2>2 DEF CountBinary
<1>6. /\ c.model = x.model /\ c.lastTernary = a.lastTernary
      /\ c.lastUnit = a.lastUnit /\ c.lastNary = a.lastNary
      /\ c.lastBins = [a.lastBins EXCEPT ![-first] = @ + 1, ![-other] = @ + 1]
  <2>1. /\ c.model = x.model /\ c.lastTernary = x.lastTernary
        /\ c.lastUnit = x.lastUnit /\ c.lastNary = x.lastNary
        /\ c.lastBins = [x.lastBins EXCEPT ![-first] = @ + 1, ![-other] = @ + 1]
    BY <1>1, <1>5 DEF Typed, Fields
  <2> QED BY <1>1, <2>1 DEF SameCounters
<1>7. TwoCounted(a.lastBins, -u, -l, c.lastBins)
  <2>1. PICK B, x1, x2 : B = a.lastBins /\ x1 = -u /\ x2 = -l
    OBVIOUS
  <2>2. B \in [Lits -> Nat] /\ x1 \in Lits /\ x2 \in Lits /\ x1 # x2
    BY <1>1, <1>3, <2>1, LitFacts DEF Clause, Lits
  <2>3. [B EXCEPT ![x1] = @ + 1, ![x2] = @ + 1] = [B EXCEPT ![x2] = @ + 1, ![x1] = @ + 1]
    BY <2>2
  <2>4. \/ c.lastBins = [B EXCEPT ![x1] = @ + 1, ![x2] = @ + 1]
        \/ c.lastBins = [B EXCEPT ![x2] = @ + 1, ![x1] = @ + 1]
    BY <1>3, <1>4, <1>6, <2>1
  <2> QED BY <2>1, <2>3, <2>4 DEF TwoCounted
<1>8. e = InsertBinary(d, u, l, FALSE, a.lastBins[-u])
  BY <1>2 DEF ShrunkDB
<1>9. UpToDate(a, db) => UpToDate(c, e)
  <2>1. SUFFICES ASSUME UpToDate(a, db) PROVE UpToDate(c, e)
    OBVIOUS
  <2>2. d \in ClauseDBType /\ UpToDate(a, d) /\ u \in Lits /\ l \in Lits
    BY <1>1, <1>2, <1>3, <2>1 DEF Clause
  <2>3. /\ c.lastUnit = a.lastUnit /\ c.lastTernary = a.lastTernary
        /\ c.lastNary = a.lastNary /\ a.lastBins \in [Lits -> Nat] /\ u # l
    BY <1>1, <1>3, <1>6
  <2>4. TwoCounted(a.lastBins, -u, -l, c.lastBins)
    BY <1>7
  <2>5. BinaryStored(a, c, d, e, u, l)
    BY <1>8, <2>2, <2>3, <2>4 DEF BinaryStored
  <2> QED BY <2>5, BinaryUpToDate
<1> QED BY <1>6, <1>9 DEF Moves

LEMMA CleanClauseSteady ==
    ASSUME IInv, SameSearch, NEW w \in Workers, CleanClause(w)
    PROVE  Steady(w)
<1>1. PICK a, i, t, rest, x :
         /\ a = ad[w] /\ i = a.cursor.pos /\ t = a.thcdb[i] /\ rest = Undefined(a, t)
         /\ x = [a EXCEPT !.cursor.pos = @ + 1]
  OBVIOUS
<1>2. a.pc = "clean" /\ i <= Len(a.thcdb)
  BY <1>1 DEF CleanClause, At
<1>3. /\ WorkerInv(x, db, Read) /\ x.pc = "clean" /\ Differs(a, x, {"cursor"})
  BY <1>1, <1>2, CleanNext
<1>4. /\ DbInv(db, Read) /\ db \in ClauseDBType /\ t.pos \in DOMAIN db.nDB
      /\ x.model = a.model /\ SameCounters(a, x) /\ Typed(x)
  <2>1. x.model = a.model /\ SameCounters(a, x)
    BY <1>3 DEF Differs, Fields, SameCounters
  <2>2. Typed(x)
    BY <1>3 DEF WorkerInv
  <2>3. DbInv(db, Read) /\ db \in ClauseDBType /\ t.pos \in DOMAIN db.nDB
    BY <1>1, <1>2, CleanFacts
  <2> QED BY <2>1, <2>2, <2>3
<1>5. CASE Local(w, x)
  <2>1. Moving(w)
    BY <1>1, <1>4, <1>5, MovingLocal DEF Moves
  <2> QED BY <2>1, MovingIsSteady
<1>6. ASSUME NEW c, NEW d, d \in ClauseDBType, t.pos \in DOMAIN d.nDB,
             DOMAIN c = Fields, c = [f \in Fields |-> c[f]],
             Moves(a.model, c.model), UpToDate(a, db) => UpToDate(c, d),
             Sharing(w, Deleted(c, i), FlagCleared(d, t.pos, w))
      PROVE  Steady(w)
  <2>1. PICK b, e, pos : /\ b = Deleted(c, i) /\ e = FlagCleared(d, pos, w) /\ pos = t.pos
    OBVIOUS
  <2>2. Sharing(w, b, e) /\ pos \in DOMAIN d.nDB
    BY <1>6, <2>1
  <2>3. ad'[w] = b /\ db' = e /\ \A u \in Workers \ {w} : ad'[u] = ad[u]
    BY <2>2, SharingIs
  <2>4. Differs(c, b, {"thcdb"})
    BY <1>6, <2>1, DeletedFields
  <2>5. b.model = c.model /\ SameCounters(c, b)
    BY <2>4 DEF Differs, Fields, SameCounters
  <2>6. /\ Len(e.nDB) = Len(d.nDB)
        /\ e.uDB = d.uDB /\ e.bDB = d.bDB /\ e.tDB = d.tDB
    BY <1>6, <2>1, <2>2, FlagClearedCounts
  <2>7. UpToDate(c, d) => UpToDate(b, e)
    BY <2>5, <2>6 DEF UpToDate, SameCounters
  <2> QED BY <1>1, <1>6, <2>3, <2>5, <2>7 DEF Steady
<1>7. CASE Sharing(w, Deleted(x, i), FlagCleared(db, t.pos, w))
  <2>1. Moves(a.model, x.model)
    BY <1>4 DEF Moves
  <2>2. UpToDate(a, db) => UpToDate(x, db)
    BY <1>4 DEF UpToDate, SameCounters
  <2>3. DOMAIN x = Fields /\ x = [f \in Fields |-> x[f]]
    BY <1>4 DEF Typed
  <2> QED BY <1>4, <1>6, <1>7, <2>1, <2>2, <2>3
<1>8. CASE /\ IsKept(t) /\ ~IsSatisfied(a, t) /\ Cardinality(rest) \in 1..3
           /\ Sharing(w, Deleted(ShrunkSolver(x, rest), i),
                         FlagCleared(ShrunkDB(w, a, rest), t.pos, w))
  <2>1. PICK c, d : c = ShrunkSolver(x, rest) /\ d = ShrunkDB(w, a, rest)
    OBVIOUS
  <2>2. Sharing(w, Deleted(c, i), FlagCleared(d, t.pos, w))
    BY <1>8, <2>1
  <2>3. rest \in Clause /\ Follows(Read, rest) /\ \A l \in rest : IsUndef(a.model, l)
    BY <1>1, <1>2, <1>8, UndefinedFollows
  <2>4. SameAt(w, rest)
    BY <1>1, <1>2, <1>8 DEF SameSearch
  <2>5. ShrunkFrom(w, a, x, rest, c, d)
    BY <1>1, <1>2, <1>3, <1>4, <2>1, <2>3, <2>4, Zenon DEF ShrunkFrom
  <2>6. Cardinality(rest) = 1 \/ Cardinality(rest) = 2 \/ Cardinality(rest) = 3
    <3>1. Cardinality(rest) \in Nat
      BY <2>3, ClauseSize
    <3> QED BY <1>8, <3>1
  <2>7. ShrunkTo(x, c, d)
    BY <2>5, <2>6, ShrunkUnit, ShrunkBinary, ShrunkTernary
  <2>8. d \in ClauseDBType /\ t.pos \in DOMAIN d.nDB
    BY <1>4, <2>7 DEF ShrunkTo, DbInv, Extends
  <2>9. DOMAIN c = Fields /\ c = [f \in Fields |-> c[f]]
    BY <2>7 DEF ShrunkTo, Differs
  <2>10. Moves(x.model, c.model) /\ (UpToDate(a, db) => UpToDate(c, d))
    <3>1. Shrinks(a, x, rest, c, d)
      BY <2>5, ShrunkShrinks
    <3> QED BY <2>1, <2>6, <3>1, ShrunkUnitCounts, ShrunkBinaryCounts, ShrunkTernaryCounts
  <2> QED BY <1>4, <1>6, <2>2, <2>8, <2>9, <2>10
<1> QED BY <1>1, <1>5, <1>7, <1>8 DEF CleanClause

LEMMA WorkerSteady ==
    ASSUME IInv, SameSearch, NEW w \in Workers, Worker(w)
    PROVE  Steady(w)
<1>1. CASE Units(w) \/ Propagation(w)
  <2>1. Moving(w)
    BY <1>1, StillSteps, StillIsMoving, SetTrueUnitMoves, HandOutMoves,
       VisitBinaryMoves, VisitTernaryMoves, VisitNaryMoves DEF Units, Propagation
  <2> QED BY <2>1, MovingIsSteady
<1>2. CASE Analysis(w) \/ Decision(w)
  <2>1. Moving(w)
    BY <1>2, StillSteps, StillIsMoving, PopLiteralMoves, DecideAtRandomMoves,
       DecideFromHeapMoves DEF Analysis, Decision
  <2> QED BY <2>1, MovingIsSteady
<1>3. CASE Learning(w)
  BY <1>3, LearnUnitSteady, LearnBinarySteady, LearnTernarySteady, LearnNarySteady,
     UnwindMoves, SetTrueUipMoves, MovingIsSteady DEF Learning
<1>4. CASE Upkeep(w)
  BY <1>4, StillSteps, StillIsMoving, CleanClauseSteady, MovingIsSteady DEF Upkeep
<1> QED BY <1>1, <1>2, <1>3, <1>4 DEF Worker

\* The same, of the steps of main: before the workers run there is nothing to keep.
LEMMA MainKeeps ==
    ASSUME IInv, NEW w \in Workers, ad[w].pc # "allocated",
           Main \/ Exited \/ UNCHANGED vars
    PROVE  ad'[w] = ad[w] /\ db' = db
<1>1. mainPc # "read"
  BY DEF IInv, MainInv
<1> QED BY <1>1 DEF Main, ReadClause, StartWorkers, JoinWorkers, Exited, vars

LEMMA StepKeepsFixed ==
    ASSUME IInv, SameSearch, [Next]_vars, NEW w \in Workers, ad[w].pc # "allocated"
    PROVE  FixedKept(ad[w].model, ad'[w].model)
<1>1. PICK a, d, P : a = ad[w] /\ d = db /\ P = Read
  OBVIOUS
<1>2. CASE \E u \in Workers : Worker(u)
  <2>1. PICK u \in Workers : Worker(u)
    BY <1>2
  <2>2. Steady(u)
    BY <2>1, WorkerSteady
  <2>3. CASE u = w
    <3>1. /\ a.thcdb \in Seq(ThClause) /\ a.model \in ModelType /\ d \in ClauseDBType
          /\ ModelInv(a.model, a.thcdb, d, P)
      BY <1>1 DEF IInv, WorkerInv, Typed, Core, DbInv
    <3>2. PICK m, n, th : m = a.model /\ n = ad'[w].model /\ th = a.thcdb
      OBVIOUS
    <3>3. Moves(m, n)
      BY <1>1, <2>2, <2>3, <3>2 DEF Steady
    <3>4. th \in Seq(ThClause) /\ m \in ModelType /\ d \in ClauseDBType /\ ModelInv(m, th, d, P)
      BY <3>1, <3>2
    <3>5. FixedKept(m, n)
      BY <3>3, <3>4, MovesKeepFixed
    <3> QED BY <1>1, <3>2, <3>5
  <2>4. CASE u # w
    BY <2>2, <2>4 DEF Steady, FixedKept
  <2> QED BY <2>3, <2>4
<1>3. CASE Main \/ Exited \/ UNCHANGED vars
  BY <1>3, MainKeeps DEF FixedKept
<1> QED BY <1>2, <1>3 DEF Next

\* Literals set at level 0 stay: no conflict, restart or cleanup unassigns them.
THEOREM FixedLiteralsStay == SafeSpec /\ []SameSearch => LevelZeroKept
<1>1. IInv /\ SameSearch /\ [Next]_vars =>
        [\A w \in Workers : \A l \in Lits :
           ad[w].pc # "allocated" /\ IsTrue(ad[w].model, l) /\ LitDl(ad[w].model, l) = 0
           => IsTrue(ad[w].model, l)' /\ LitDl(ad[w].model, l)' = 0]_vars
  <2> SUFFICES ASSUME IInv, SameSearch, [Next]_vars, NEW w \in Workers, NEW l \in Lits,
                      ad[w].pc # "allocated", IsTrue(ad[w].model, l),
                      LitDl(ad[w].model, l) = 0
               PROVE  IsTrue(ad'[w].model, l) /\ LitDl(ad'[w].model, l) = 0
    BY DEF IsTrue, LitDl
  <2> QED BY StepKeepsFixed DEF FixedKept
<1> QED BY <1>1, SolverInvariant, PTL DEF SafeSpec, LevelZeroKept
-----------------------------------------------------------------------------
(* A worker alone always makes the same search. *)

AllUpToDate == \A w \in Workers : ad[w].pc # "allocated" => UpToDate(ad[w], db)

\* Where nothing waits to be taken, no worker takes a clause for another.
LEMMA UpToDateSame ==
    ASSUME IInv, AllUpToDate
    PROVE  SameSearch
<1>1. ASSUME NEW w \in Workers, NEW c \in Clause, c # {}, ad[w].pc \in {"shorten", "clean"}
      PROVE  SameAt(w, c)
  <2>1. PICK a : a = ad[w]
    OBVIOUS
  <2>2. UpToDate(a, db) /\ db \in ClauseDBType
    BY <1>1, <2>1 DEF AllUpToDate, IInv, DbInv
  <2>3. /\ ~(Len(db.uDB) > a.lastUnit) /\ ~(Len(db.tDB) > a.lastTernary)
        /\ ~(Len(db.nDB) > a.lastNary)
    BY <2>2, DbFields DEF UpToDate
  <2>4. ASSUME NEW l \in c PROVE ~(Len(db.bDB[-l]) > a.lastBins[-l])
    <3>1. -l \in Lits
      BY LitFacts DEF Clause
    <3> QED BY <2>2, <3>1, DbFields DEF UpToDate
  <2>5. {l \in c : Len(db.bDB[-l]) > a.lastBins[-l]} = {}
    BY <2>4
  <2>6. Cardinality(c) \in Nat /\ Cardinality(c) # 0
    BY <1>1, ClauseSize
  <2>7. Cardinality(c) \in {1, 2, 3} \/ Cardinality(c) > 3
    BY <2>6
  <2> QED BY <2>1, <2>3, <2>5, <2>7 DEF SameAt
<1>2. ASSUME NEW w \in Workers, ReadyToLearn(w)
      PROVE  SameAt(w, Learned(ad[w]))
  <2>1. PICK a, c : a = ad[w] /\ c = Learned(a)
    OBVIOUS
  <2>2. a.pc = "shorten" /\ WorkerInv(a, db, Read)
    BY <1>2, <2>1 DEF ReadyToLearn, At, IInv
  <2>3. a.uip \in Lits /\ a.lemmaToLearn \in Clause
    BY <2>2, WorkerParts DEF Place, Shortening, UipGood, Typed
  <2>4. c \in Clause /\ c # {}
    BY <2>1, <2>3 DEF Learned, Clause
  <2> QED BY <1>1, <2>1, <2>2, <2>3, <2>4
<1>3. ASSUME NEW w \in Workers, NEW a, a = ad[w], NEW t, t = a.thcdb[a.cursor.pos],
             a.pc = "clean", a.cursor.pos <= Len(a.thcdb), ~IsSatisfied(a, t),
             Cardinality(Undefined(a, t)) \in 1..3
      PROVE  SameAt(w, Undefined(a, t))
  <2>1. PICK c : c = Undefined(a, t)
    OBVIOUS
  <2>2. c \in Clause
    BY <1>3, <2>1, UndefinedFollows
  <2>3. c # {}
    BY <1>3, <2>1, <2>2, ClauseSize
  <2> QED BY <1>1, <1>3, <2>1, <2>2, <2>3
<1> QED BY <1>2, <1>3 DEF SameSearch

\* No step of a worker is taken before it is started.
LEMMA RunningWorker ==
    ASSUME NEW w \in Workers, Worker(w)
    PROVE  ad[w].pc # "allocated"
<1>1. CASE Units(w) \/ Propagation(w)
  BY <1>1, Zenon DEF Units, StartSolve, SetTrueUnit, UnitsDone, Propagation, HandOutLiteral,
     VisitBinary, VisitTernary, VisitNary, ListDone, PropagationDone, At
<1>2. CASE Analysis(w)
  BY <1>2 DEF Analysis, ConflictAtLevelZero, StartAnalysis, MarkClause, PopLiteral,
     StartShortening, ShortenLiteral, At
<1>3. CASE Learning(w)
  BY <1>3, Zenon DEF Learning, LearnUnit, LearnBinary, LearnTernary, LearnNary, ReadyToLearn,
     Unwind, Unwinding, SetTrueUip, At
<1>4. CASE Upkeep(w)
  BY <1>4, Zenon DEF Upkeep, RestartIfAdequate, RestartDone, CleanupIfAdequate, StartCleaning,
     CleanClause, CompactAndWatch, At
<1>5. CASE Decision(w)
  BY <1>5 DEF Decision, DecideAtRandom, DecideFromHeap, ReportSat, At
<1> QED BY <1>1, <1>2, <1>3, <1>4, <1>5 DEF Worker

\* The counters start as the lengths of the lists.
LEMMA StartUpToDate ==
    ASSUME IInv, StartWorkers, NEW w \in Workers
    PROVE  UpToDate(ad'[w], db')
<1>1. ad'[w] = InitSolver(ad[w].model.phase) /\ db' = db
  BY DEF StartWorkers
<1> QED BY <1>1 DEF UpToDate, InitSolver

LEMMA LoneStep ==
    ASSUME NEW x, Workers = {x}, IInv, AllUpToDate, [Next]_vars
    PROVE  AllUpToDate'
<1>1. SameSearch
  BY UpToDateSame
<1>2. CASE \E u \in Workers : Worker(u)
  <2>1. Steady(x)
    BY <1>1, <1>2, WorkerSteady
  <2>2. ad[x].pc # "allocated"
    <3>1. Worker(x)
      BY <1>2
    <3> QED BY <3>1, RunningWorker
  <2> QED BY <2>1, <2>2 DEF AllUpToDate, Steady
<1>3. CASE StartWorkers
  BY <1>3, StartUpToDate DEF AllUpToDate
<1>4. CASE ReadClause \/ JoinWorkers \/ Exited \/ UNCHANGED vars
  <2>1. ad' = ad
    BY <1>4 DEF ReadClause, JoinWorkers, Exited, vars
  <2>2. ASSUME NEW w \in Workers, ad[w].pc # "allocated" PROVE db' = db
    <3>1. mainPc # "read"
      BY <2>2 DEF IInv, MainInv
    <3> QED BY <1>4, <3>1 DEF ReadClause, JoinWorkers, Exited, vars
  <2> QED BY <2>1, <2>2 DEF AllUpToDate
<1> QED BY <1>2, <1>3, <1>4 DEF Next, Main

LEMMA LoneInit == ASSUME Init PROVE AllUpToDate
<1>1. ASSUME NEW w \in Workers PROVE ad[w].pc = "allocated"
  BY InitIInv DEF IInv, MainInv, Init
<1> QED BY <1>1 DEF AllUpToDate

\* What the program promises of its shared database in any case holds of a worker that
\* runs alone: there is no other search to agree with.
THEOREM LoneSearch ==
    ASSUME NEW x, Workers = {x}
    PROVE  SafeSpec => [](IInv /\ SameSearch)
<1>1. Init => IInv /\ AllUpToDate
  BY InitIInv, LoneInit
<1>2. IInv /\ AllUpToDate /\ [Next]_vars => (IInv /\ AllUpToDate)'
  BY UpToDateSame, NextIInv, LoneStep
<1>3. IInv /\ AllUpToDate => IInv /\ SameSearch
  BY UpToDateSame
<1> QED BY <1>1, <1>2, <1>3, PTL DEF SafeSpec

\* A solver with one worker keeps SameSearch, whatever the formula and the choices.
THEOREM LoneWorkerAgrees ==
    ASSUME NEW x, Workers = {x}
    PROVE  SafeSpec => []SameSearch
<1>1. SafeSpec => [](IInv /\ SameSearch)
  BY LoneSearch
<1> QED BY <1>1, PTL
-----------------------------------------------------------------------------
(* The flags of the longer clauses: the invariant FInv, step by step. *)

\* The flags of worker u stay as they are, and it gets no new one.
FlagsAlike(d, e, u) ==
    /\ \A p \in DOMAIN d.nDB : p \in DOMAIN e.nDB
    /\ \A p \in DOMAIN e.nDB : e.nDB[p].flags[u] <=> p \in DOMAIN d.nDB /\ d.nDB[p].flags[u]

LEMMA AlikeKeepsHeld ==
    ASSUME NEW th, NEW last, NEW d, NEW e, NEW u, FlagsHeld(th, last, d, u),
           FlagsAlike(d, e, u)
    PROVE  FlagsHeld(th, last, e, u)
<1>1. HeldGood(th, last, e)
  BY DEF FlagsHeld, HeldGood, FlagsAlike
<1>2. FlagsShow(th, e, u)
  <2> SUFFICES ASSUME NEW p \in DOMAIN e.nDB
               PROVE  e.nDB[p].flags[u] <=> \E i \in Held(th) : th[i].pos = p
    BY DEF FlagsShow
  <2>1. CASE p \in DOMAIN d.nDB
    <3>1. d.nDB[p].flags[u] <=> \E i \in Held(th) : th[i].pos = p
      BY <2>1 DEF FlagsHeld, FlagsShow
    <3> QED BY <2>1, <3>1 DEF FlagsAlike
  <2>2. CASE p \notin DOMAIN d.nDB
    <3>1. ~\E i \in Held(th) : th[i].pos = p
      BY <2>2 DEF FlagsHeld, HeldGood
    <3> QED BY <2>2, <3>1 DEF FlagsAlike
  <2> QED BY <2>1, <2>2
<1> QED BY <1>1, <1>2 DEF FlagsHeld

\* Two versions of thcdb with the same places in nDB.
SamePlaces(th, th2) == DOMAIN th2 = DOMAIN th /\ \A i \in DOMAIN th : th2[i].pos = th[i].pos

LEMMA SamePlacesHeld ==
    ASSUME NEW th, NEW th2, NEW last, NEW d, NEW w, FlagsHeld(th, last, d, w),
           SamePlaces(th, th2)
    PROVE  FlagsHeld(th2, last, d, w)
<1>1. Held(th2) = Held(th) /\ \A i \in Held(th) : th2[i].pos = th[i].pos
  BY DEF SamePlaces, Held
<1>2. HeldGood(th2, last, d)
  BY <1>1 DEF FlagsHeld, HeldGood
<1>3. FlagsShow(th2, d, w)
  <2> SUFFICES ASSUME NEW p \in DOMAIN d.nDB
               PROVE  d.nDB[p].flags[w] <=> \E i \in Held(th2) : th2[i].pos = p
    BY DEF FlagsShow
  <2>1. d.nDB[p].flags[w] <=> \E i \in Held(th) : th[i].pos = p
    BY DEF FlagsHeld, FlagsShow
  <2>2. (\E i \in Held(th) : th[i].pos = p) <=> \E i \in Held(th2) : th2[i].pos = p
    BY <1>1
  <2> QED BY <2>1, <2>2
<1>4. HeldOnce(th2)
  BY <1>1 DEF FlagsHeld, HeldOnce
<1> QED BY <1>2, <1>3, <1>4 DEF FlagsHeld

\* The places of a step of compaction: those held, in whatever order.
SameHeld(th, th2) ==
    /\ \A i, j \in DOMAIN th2 : th2[i].pos = th2[j].pos => i = j
    /\ \A n \in DOMAIN th2 : \E j \in Held(th) : th2[n].pos = th[j].pos
    /\ \A j \in Held(th) : \E n \in DOMAIN th2 : th2[n].pos = th[j].pos

LEMMA SameHeldKeeps ==
    ASSUME NEW th, NEW th2, NEW last, NEW d, NEW w, FlagsHeld(th, last, d, w),
           SameHeld(th, th2)
    PROVE  FlagsHeld(th2, last, d, w)
<1>1. HeldGood(th2, last, d)
  <2> SUFFICES ASSUME NEW n \in Held(th2)
               PROVE  th2[n].pos \in DOMAIN d.nDB /\ th2[n].pos <= last
    BY DEF HeldGood
  <2>1. PICK j \in Held(th) : th2[n].pos = th[j].pos
    BY DEF SameHeld, Held
  <2> QED BY <2>1 DEF FlagsHeld, HeldGood
<1>2. FlagsShow(th2, d, w)
  <2> SUFFICES ASSUME NEW p \in DOMAIN d.nDB
               PROVE  d.nDB[p].flags[w] <=> \E i \in Held(th2) : th2[i].pos = p
    BY DEF FlagsShow
  <2>1. d.nDB[p].flags[w] <=> \E i \in Held(th) : th[i].pos = p
    BY DEF FlagsHeld, FlagsShow
  <2>2. ASSUME NEW i \in Held(th), th[i].pos = p PROVE \E n \in Held(th2) : th2[n].pos = p
    <3>1. PICK n \in DOMAIN th2 : th2[n].pos = th[i].pos
      BY DEF SameHeld
    <3>2. th[i].pos # 0
      BY DEF Held
    <3> QED BY <2>2, <3>1, <3>2 DEF Held
  <2>3. ASSUME NEW n \in Held(th2), th2[n].pos = p PROVE \E i \in Held(th) : th[i].pos = p
    <3>1. n \in DOMAIN th2
      BY DEF Held
    <3> QED BY <2>3, <3>1 DEF SameHeld
  <2> QED BY <2>1, <2>2, <2>3
<1>3. HeldOnce(th2)
  BY DEF HeldOnce, SameHeld, Held
<1> QED BY <1>1, <1>2, <1>3 DEF FlagsHeld

\* A clause more, at the next place.
OnePlaceMore(th, th2, last) ==
    /\ DOMAIN th2 = DOMAIN th \cup {Len(th) + 1}
    /\ \A i \in DOMAIN th : th2[i].pos = th[i].pos
    /\ th2[Len(th) + 1].pos = last + 1

\* And the flag of the worker at that place.
RaisesFlag(d, e, w, p) ==
    /\ \A q \in DOMAIN d.nDB : q \in DOMAIN e.nDB
    /\ p \in DOMAIN e.nDB /\ e.nDB[p].flags[w]
    /\ \A q \in DOMAIN e.nDB \ {p} :
          e.nDB[q].flags[w] <=> q \in DOMAIN d.nDB /\ d.nDB[q].flags[w]

LEMMA OneMoreHeld ==
    ASSUME NEW th, NEW th2, NEW last \in Nat, NEW d, NEW e, NEW w,
           FlagsHeld(th, last, d, w), NEW S, th \in Seq(S), OnePlaceMore(th, th2, last),
           RaisesFlag(d, e, w, last + 1), \A q \in DOMAIN d.nDB : q \in Nat
    PROVE  FlagsHeld(th2, last + 1, e, w)
<1>1. PICK n, p : n = Len(th) + 1 /\ p = last + 1
  OBVIOUS
<1>2. n \notin DOMAIN th /\ p \in Nat /\ p # 0 /\ p > last
  BY <1>1
<1>3. Held(th2) = Held(th) \cup {n} /\ th2[n].pos = p
      /\ \A i \in Held(th) : th2[i].pos = th[i].pos /\ i # n
  BY <1>1, <1>2 DEF OnePlaceMore, Held
<1>4. \A i \in Held(th) : /\ th[i].pos \in DOMAIN d.nDB /\ th[i].pos <= last
                          /\ th[i].pos \in Nat /\ th[i].pos # p
  BY <1>1, <1>2 DEF FlagsHeld, HeldGood
<1>5. /\ \A q \in DOMAIN d.nDB : q \in DOMAIN e.nDB
      /\ p \in DOMAIN e.nDB /\ e.nDB[p].flags[w]
      /\ \A q \in DOMAIN e.nDB \ {p} :
          e.nDB[q].flags[w] <=> q \in DOMAIN d.nDB /\ d.nDB[q].flags[w]
  BY <1>1 DEF RaisesFlag
<1>6. HeldGood(th2, p, e)
  <2> SUFFICES ASSUME NEW i \in Held(th2)
               PROVE  th2[i].pos \in DOMAIN e.nDB /\ th2[i].pos <= p
    BY DEF HeldGood
  <2>1. CASE i = n
    BY <1>2, <1>3, <1>5, <2>1
  <2>2. CASE i \in Held(th)
    BY <1>1, <1>2, <1>3, <1>4, <1>5, <2>2
  <2> QED BY <1>3, <2>1, <2>2
<1>7. FlagsShow(th2, e, w)
  <2> SUFFICES ASSUME NEW q \in DOMAIN e.nDB
               PROVE  e.nDB[q].flags[w] <=> \E i \in Held(th2) : th2[i].pos = q
    BY DEF FlagsShow
  <2>1. CASE q = p
    BY <1>3, <1>5, <2>1
  <2>2. CASE q # p
    <3>1. (\E i \in Held(th2) : th2[i].pos = q) <=> \E i \in Held(th) : th[i].pos = q
      BY <1>3, <2>2
    <3>2. e.nDB[q].flags[w] <=> q \in DOMAIN d.nDB /\ d.nDB[q].flags[w]
      BY <1>5, <2>2
    <3>3. q \in DOMAIN d.nDB =>
             (d.nDB[q].flags[w] <=> \E i \in Held(th) : th[i].pos = q)
      BY DEF FlagsHeld, FlagsShow
    <3>4. (\E i \in Held(th) : th[i].pos = q) => q \in DOMAIN d.nDB
      BY <1>4
    <3> QED BY <3>1, <3>2, <3>3, <3>4
  <2> QED BY <2>1, <2>2
<1>8. HeldOnce(th2)
  <2>1. HeldOnce(th)
    BY DEF FlagsHeld
  <2> SUFFICES ASSUME NEW i \in Held(th2), NEW j \in Held(th2), th2[i].pos = th2[j].pos
               PROVE  i = j
    BY DEF HeldOnce
  <2>2. CASE i = n
    BY <1>3, <1>4, <2>2
  <2>3. CASE j = n
    BY <1>3, <1>4, <2>3
  <2>4. CASE i \in Held(th) /\ j \in Held(th)
    BY <1>3, <2>1, <2>4 DEF HeldOnce
  <2> QED BY <1>3, <2>2, <2>3, <2>4
<1> QED BY <1>1, <1>6, <1>7, <1>8 DEF FlagsHeld

\* A clause less, and its flag.
OneLess(th, th2, i) ==
    /\ DOMAIN th2 = DOMAIN th /\ th2[i].pos = 0
    /\ \A j \in DOMAIN th \ {i} : th2[j].pos = th[j].pos

LowersFlag(d, e, w, p) ==
    /\ DOMAIN e.nDB = DOMAIN d.nDB /\ ~e.nDB[p].flags[w]
    /\ \A q \in DOMAIN d.nDB \ {p} : e.nDB[q].flags[w] <=> d.nDB[q].flags[w]

LEMMA OneLessHeld ==
    ASSUME NEW th, NEW th2, NEW last, NEW d, NEW e, NEW w, NEW i \in Held(th),
           FlagsHeld(th, last, d, w), OneLess(th, th2, i), LowersFlag(d, e, w, th[i].pos)
    PROVE  FlagsHeld(th2, last, e, w)
<1>1. Held(th2) = Held(th) \ {i} /\ \A j \in Held(th2) : th2[j].pos = th[j].pos
  BY DEF Held, OneLess
<1>2. HeldGood(th2, last, e)
  BY <1>1 DEF FlagsHeld, HeldGood, LowersFlag
<1>3. HeldOnce(th2)
  BY <1>1 DEF FlagsHeld, HeldOnce
<1>4. FlagsShow(th2, e, w)
  <2> SUFFICES ASSUME NEW q \in DOMAIN e.nDB
               PROVE  e.nDB[q].flags[w] <=> \E j \in Held(th2) : th2[j].pos = q
    BY DEF FlagsShow
  <2>1. q \in DOMAIN d.nDB /\ (d.nDB[q].flags[w] <=> \E j \in Held(th) : th[j].pos = q)
    BY DEF FlagsHeld, FlagsShow, LowersFlag
  <2>2. CASE q = th[i].pos
    <3>1. ~e.nDB[q].flags[w]
      BY <2>2 DEF LowersFlag
    <3>2. \A j \in Held(th) : th[j].pos = q => j = i
      BY <2>2 DEF FlagsHeld, HeldOnce
    <3> QED BY <1>1, <3>1, <3>2
  <2>3. CASE q # th[i].pos
    <3>1. e.nDB[q].flags[w] <=> d.nDB[q].flags[w]
      BY <2>1, <2>3 DEF LowersFlag
    <3>2. (\E j \in Held(th) : th[j].pos = q) <=> \E j \in Held(th2) : th2[j].pos = q
      BY <1>1, <2>3
    <3> QED BY <2>1, <3>1, <3>2
  <2> QED BY <2>2, <2>3
<1> QED BY <1>2, <1>3, <1>4 DEF FlagsHeld

\* A step of worker w that leaves its places in nDB, and the flags, alone.
FlagsRest(w) ==
    /\ SamePlaces(ad[w].thcdb, ad'[w].thcdb) /\ ad'[w].lastNary = ad[w].lastNary
    /\ db'.nDB = db.nDB

LEMMA LocalRests ==
    ASSUME IInv, NEW w \in Workers, NEW b, Local(w, b),
           SamePlaces(ad[w].thcdb, b.thcdb), b.lastNary = ad[w].lastNary
    PROVE  FlagsRest(w)
BY LocalIs DEF FlagsRest

LEMMA SharingRests ==
    ASSUME IInv, NEW w \in Workers, NEW b, NEW e, Sharing(w, b, e), e.nDB = db.nDB,
           b.thcdb = ad[w].thcdb, b.lastNary = ad[w].lastNary
    PROVE  FlagsRest(w)
BY SharingIs DEF FlagsRest, SamePlaces

LEMMA UntouchedRests ==
    ASSUME IInv, NEW w \in Workers, NEW b, Local(w, b),
           b.thcdb = ad[w].thcdb, b.lastNary = ad[w].lastNary
    PROVE  FlagsRest(w)
BY LocalRests DEF SamePlaces

LEMMA ActivityPlaces ==
    ASSUME NEW th \in Seq(ThClause), NEW i
    PROVE  SamePlaces(th, [th EXCEPT ![i].activity = @ + 1])
<1>1. PICK th2 : th2 = [th EXCEPT ![i].activity = @ + 1]
  OBVIOUS
<1>2. CASE i \in DOMAIN th
  BY <1>1, <1>2, ActivityRaised DEF SameClauses, SamePlaces
<1>3. CASE i \notin DOMAIN th
  BY <1>1, <1>3 DEF SamePlaces
<1> QED BY <1>1, <1>2, <1>3

MovedWatch(th, th2, i, old, new) ==
    th2 = [th EXCEPT ![i] = IF @.w1 = old THEN [@ EXCEPT !.w1 = new]
                                          ELSE [@ EXCEPT !.w2 = new]]

LEMMA RewatchPlaces ==
    ASSUME NEW th \in Seq(ThClause), NEW i, NEW old, NEW new, NEW th2,
           MovedWatch(th, th2, i, old, new)
    PROVE  SamePlaces(th, th2)
<1>1. DOMAIN th2 = DOMAIN th /\ \A j \in DOMAIN th \ {i} : th2[j] = th[j]
  BY DEF MovedWatch
<1>2. ASSUME i \in DOMAIN th PROVE th2[i].pos = th[i].pos
  <2>1. PICK t : t = th[i] /\ t \in ThClause
    BY <1>2
  <2>2. th2[i] = IF t.w1 = old THEN [t EXCEPT !.w1 = new] ELSE [t EXCEPT !.w2 = new]
    BY <1>2, <2>1 DEF MovedWatch
  <2> QED BY <2>1, <2>2 DEF ThClause
<1> QED BY <1>1, <1>2 DEF SamePlaces

LEMMA UnitsRest == ASSUME IInv, NEW w \in Workers, Units(w) PROVE FlagsRest(w)
<1>1. PICK a : a = ad[w] /\ DOMAIN a = Fields
  BY WorkerParts DEF IInv, Typed
<1>2. CASE StartSolve(w)
  BY <1>1, <1>2, UntouchedRests DEF StartSolve, Fields
<1>3. CASE SetTrueUnit(w)
  BY <1>1, <1>3, UntouchedRests DEF SetTrueUnit, Finish, Fields
<1>4. CASE UnitsDone(w)
  BY <1>1, <1>4, UntouchedRests DEF UnitsDone, Fields
<1> QED BY <1>2, <1>3, <1>4 DEF Units

LEMMA VisitNaryRests == ASSUME IInv, NEW w \in Workers, VisitNary(w) PROVE FlagsRest(w)
<1>1. PICK a, f, id, t, other, S :
         /\ a = ad[w] /\ f = -a.cursor.lit /\ id = a.watches[f][a.cursor.pos]
         /\ t = a.thcdb[id] /\ other = (IF t.w1 = f THEN t.w2 ELSE t.w1)
         /\ S = {l \in ThLits(t) \ {f, other} : ~IsFalse(a.model, l)}
  OBVIOUS
<1>2. DOMAIN a = Fields /\ a.thcdb \in Seq(ThClause)
  BY <1>1, WorkerParts, Zenon DEF IInv, Typed
<1>3. \/ Local(w, SkipEntry(a))
      \/ Local(w, Rewatch(a, id, f, Min(S)))
      \/ \E r : Local(w, Propagate(a, other, r))
      \/ \E c : Local(w, InConflict([a EXCEPT !.thcdb[id].activity = @ + 1], c))
  BY <1>1, Zenon DEF VisitNary
<1>4. CASE Local(w, SkipEntry(a))
  BY <1>1, <1>2, <1>4, UntouchedRests, Zenon DEF SkipEntry, Fields
<1>5. CASE Local(w, Rewatch(a, id, f, Min(S)))
  <2>1. PICK new, b : new = Min(S) /\ b = Rewatch(a, id, f, new)
    OBVIOUS
  <2>2. MovedWatch(a.thcdb, b.thcdb, id, f, new) /\ b.lastNary = a.lastNary
    BY <1>2, <2>1 DEF Rewatch, Fields, MovedWatch
  <2>3. SamePlaces(a.thcdb, b.thcdb)
    BY <1>2, <2>2, RewatchPlaces
  <2> QED BY <1>1, <1>5, <2>1, <2>2, <2>3, LocalRests, Zenon
<1>6. CASE \E r : Local(w, Propagate(a, other, r))
  BY <1>1, <1>2, <1>6, UntouchedRests, Zenon DEF Propagate, Fields
<1>7. CASE \E c : Local(w, InConflict([a EXCEPT !.thcdb[id].activity = @ + 1], c))
  <2>1. PICK c, b : /\ b = InConflict([a EXCEPT !.thcdb[id].activity = @ + 1], c)
                    /\ Local(w, b)
    BY <1>7
  <2>2. b.thcdb = [a.thcdb EXCEPT ![id].activity = @ + 1] /\ b.lastNary = a.lastNary
    BY <1>2, <2>1 DEF InConflict, Fields
  <2>3. SamePlaces(a.thcdb, b.thcdb)
    BY <1>2, <2>2, ActivityPlaces, Zenon
  <2> QED BY <1>1, <2>1, <2>2, <2>3, LocalRests, Zenon
<1> QED BY <1>3, <1>4, <1>5, <1>6, <1>7

LEMMA PropagationRests == ASSUME IInv, NEW w \in Workers, Propagation(w) PROVE FlagsRest(w)
<1>1. PICK a : a = ad[w] /\ DOMAIN a = Fields
  BY WorkerParts DEF IInv, Typed
<1>2. CASE \E k \in Kinds : HandOutLiteral(w, k)
  BY <1>1, <1>2, UntouchedRests DEF HandOutLiteral, Fields
<1>3. CASE VisitBinary(w)
  BY <1>1, <1>3, UntouchedRests, Zenon DEF VisitBinary, SkipEntry, Propagate, InConflict, Fields
<1>4. CASE VisitTernary(w)
  BY <1>1, <1>4, UntouchedRests, Zenon DEF VisitTernary, SkipEntry, Propagate, InConflict, Fields
<1>5. CASE VisitNary(w)
  BY <1>5, VisitNaryRests
<1>6. CASE ListDone(w) \/ PropagationDone(w)
  BY <1>1, <1>6, UntouchedRests DEF ListDone, PropagationDone, Fields
<1> QED BY <1>2, <1>3, <1>4, <1>5, <1>6 DEF Propagation

LEMMA AnalysisRests == ASSUME IInv, NEW w \in Workers, Analysis(w) PROVE FlagsRest(w)
<1>1. PICK a : a = ad[w] /\ DOMAIN a = Fields /\ a.thcdb \in Seq(ThClause)
  BY WorkerParts DEF IInv, Typed
<1>2. CASE ConflictAtLevelZero(w)
  BY <1>1, <1>2, UntouchedRests DEF ConflictAtLevelZero, Finish, Fields
<1>3. CASE StartAnalysis(w) \/ MarkClause(w)
  BY <1>1, <1>3, UntouchedRests DEF StartAnalysis, MarkClause, Fields
<1>4. CASE PopLiteral(w)
  <2>1. PICK l, r, x :
           /\ l = Top(a.model) /\ r = ReasonOfLit(a.model, l)
           /\ x = [PopOne(a) EXCEPT !.poppedLit = l, !.marks = @ \ {var(l)},
                                    !.thcdb = IncreaseActivity(@, r)]
    OBVIOUS
  <2>2. \/ Local(w, PopOne(a))
        \/ Local(w, [x EXCEPT !.pc = "mark", !.pending = @ - 1,
                              !.clause = ClauseOfReason(a, r, l)])
        \/ Local(w, [x EXCEPT !.pc = "lemma", !.poppedLit = ZeroLit, !.pending = 0,
                              !.uip = -l, !.marks = @ \ {var(k) : k \in a.lemma}])
    BY <1>1, <1>4, <2>1, Zenon DEF PopLiteral
  <2>3. PopOne(a).thcdb = a.thcdb /\ PopOne(a).lastNary = a.lastNary
        /\ DOMAIN PopOne(a) = Fields
    BY <1>1 DEF PopOne, Fields
  <2>4. DOMAIN x = Fields /\ x.thcdb = IncreaseActivity(a.thcdb, r) /\ x.lastNary = a.lastNary
    BY <2>1, <2>3 DEF Fields
  <2>5. SamePlaces(a.thcdb, x.thcdb)
    BY <1>1, <2>4, ActivityPlaces DEF IncreaseActivity, SamePlaces
  <2>6. ASSUME NEW b, Local(w, b), b.thcdb = x.thcdb, b.lastNary = x.lastNary
        PROVE  FlagsRest(w)
    BY <1>1, <2>4, <2>5, <2>6, LocalRests
  <2>7. CASE Local(w, PopOne(a))
    BY <1>1, <2>3, <2>7, UntouchedRests
  <2>8. CASE Local(w, [x EXCEPT !.pc = "mark", !.pending = @ - 1,
                                !.clause = ClauseOfReason(a, r, l)])
    BY <2>4, <2>6, <2>8 DEF Fields
  <2>9. CASE Local(w, [x EXCEPT !.pc = "lemma", !.poppedLit = ZeroLit, !.pending = 0,
                                !.uip = -l, !.marks = @ \ {var(k) : k \in a.lemma}])
    BY <2>4, <2>6, <2>9 DEF Fields
  <2> QED BY <2>2, <2>7, <2>8, <2>9
<1>5. CASE StartShortening(w) \/ ShortenLiteral(w)
  BY <1>1, <1>5, UntouchedRests DEF StartShortening, ShortenLiteral, Fields
<1> QED BY <1>2, <1>3, <1>4, <1>5 DEF Analysis

\* The inserts of the shorter clauses leave the longer ones alone.
ShortOf(d, c, w, last, e) == e = InsertTernary(d, c, FALSE, w, last)

LEMMA UnitInserts ==
    ASSUME NEW d \in ClauseDBType, NEW l, NEW last, NEW e, UnitOf(d, l, last, e)
    PROVE  e.nDB = d.nDB
BY DEF UnitOf, InsertUnit, ClauseDBType

LEMMA BinaryInserts ==
    ASSUME NEW d \in ClauseDBType, NEW k, NEW l, NEW last, NEW e, BinaryOf(d, k, l, last, e)
    PROVE  e.nDB = d.nDB
BY DEF BinaryOf, InsertBinary, ClauseDBType

LEMMA TernaryInserts ==
    ASSUME NEW d \in ClauseDBType, NEW c, NEW w, NEW last, NEW e, ShortOf(d, c, w, last, e)
    PROVE  e.nDB = d.nDB
BY DEF ShortOf, InsertTernary, ClauseDBType

LEMMA LearntRests ==
    ASSUME IInv, NEW w \in Workers, NEW c, NEW r, NEW e, DOMAIN c = Fields,
           Sharing(w, AfterLearning(c, r), e), e.nDB = db.nDB,
           c.thcdb = ad[w].thcdb, c.lastNary = ad[w].lastNary
    PROVE  FlagsRest(w)
<1>1. PICK b : b = AfterLearning(c, r)
  OBVIOUS
<1>2. b.thcdb = c.thcdb /\ b.lastNary = c.lastNary
  BY <1>1 DEF AfterLearning, Fields
<1> QED BY <1>1, <1>2, SharingRests

LEMMA LearningRests ==
    ASSUME IInv, NEW w \in Workers, Learning(w)
    PROVE  FlagsRest(w) \/ LearnNary(w)
<1>1. PICK a : a = ad[w] /\ DOMAIN a = Fields
  BY WorkerParts DEF IInv, Typed
<1>2. db \in ClauseDBType
  BY DEF IInv, DbInv
<1>3. CASE LearnUnit(w)
  <2>1. PICK c, e : /\ c = [a EXCEPT !.lastUnit = @ + 1]
                    /\ e = InsertUnit(db, a.uip, FALSE, a.lastUnit)
    OBVIOUS
  <2>2. DOMAIN c = Fields /\ c.thcdb = a.thcdb /\ c.lastNary = a.lastNary
    BY <1>1, <2>1 DEF Fields
  <2>3. Sharing(w, AfterLearning(c, NoReason), e)
    BY <1>1, <1>3, <2>1 DEF LearnUnit
  <2>4. e.nDB = db.nDB
    <3>1. UnitOf(db, a.uip, a.lastUnit, e)
      BY <2>1 DEF UnitOf
    <3> QED BY <1>2, <3>1, UnitInserts
  <2> QED BY <1>1, <2>2, <2>3, <2>4, LearntRests
<1>4. CASE LearnBinary(w)
  <2>1. PICK l, c, r, e :
             /\ l \in Lits
             /\ c = CountBinary(a, a.uip, l) /\ r = [size |-> 2, lit |-> l, ptr |-> 0]
             /\ e = InsertBinary(db, a.uip, l, FALSE, a.lastBins[-a.uip])
             /\ Sharing(w, AfterLearning(c, r), e)
    BY <1>1, <1>4 DEF LearnBinary
  <2>2. DOMAIN c = Fields /\ c.thcdb = a.thcdb /\ c.lastNary = a.lastNary
    BY <1>1, <2>1 DEF CountBinary, Fields
  <2>3. e.nDB = db.nDB
    <3>1. BinaryOf(db, a.uip, l, a.lastBins[-a.uip], e)
      BY <2>1 DEF BinaryOf
    <3> QED BY <1>2, <3>1, BinaryInserts
  <2> QED BY <1>1, <2>1, <2>2, <2>3, LearntRests
<1>5. CASE LearnTernary(w)
  <2>1. PICK c, e : /\ c = [a EXCEPT !.lastTernary = @ + 1]
                    /\ e = InsertTernary(db, Learned(a), FALSE, w, a.lastTernary)
    OBVIOUS
  <2>2. DOMAIN c = Fields /\ c.thcdb = a.thcdb /\ c.lastNary = a.lastNary
    BY <1>1, <2>1 DEF Fields
  <2>3. \E r : Sharing(w, AfterLearning(c, r), e)
    BY <1>1, <1>5, <2>1 DEF LearnTernary
  <2>4. e.nDB = db.nDB
    <3>1. ShortOf(db, Learned(a), w, a.lastTernary, e)
      BY <2>1 DEF ShortOf
    <3> QED BY <1>2, <3>1, TernaryInserts
  <2> QED BY <1>1, <2>2, <2>3, <2>4, LearntRests
<1>6. CASE Unwind(w) \/ SetTrueUip(w)
  BY <1>1, <1>6, UntouchedRests DEF Unwind, SetTrueUip, PopOne, Fields
<1> QED BY <1>3, <1>4, <1>5, <1>6 DEF Learning

LEMMA UpkeepRests ==
    ASSUME IInv, NEW w \in Workers, Upkeep(w)
    PROVE  FlagsRest(w) \/ CleanClause(w) \/ CompactAndWatch(w)
<1>1. PICK a : a = ad[w] /\ DOMAIN a = Fields
  BY WorkerParts DEF IInv, Typed
<1>2. CASE RestartIfAdequate(w) \/ RestartDone(w) \/ CleanupIfAdequate(w)
  BY <1>1, <1>2, UntouchedRests DEF RestartIfAdequate, RestartDone, CleanupIfAdequate, Fields
<1>3. CASE StartCleaning(w)
  BY <1>1, <1>3, UntouchedRests DEF StartCleaning, Fields
<1> QED BY <1>2, <1>3 DEF Upkeep

LEMMA DecisionRests == ASSUME IInv, NEW w \in Workers, Decision(w) PROVE FlagsRest(w)
<1>1. PICK a : a = ad[w] /\ DOMAIN a = Fields
  BY WorkerParts DEF IInv, Typed
<1>2. CASE DecideAtRandom(w) \/ DecideFromHeap(w)
  BY <1>1, <1>2, UntouchedRests, Zenon DEF DecideAtRandom, DecideFromHeap, Decided, Fields
<1>3. CASE ReportSat(w)
  BY <1>1, <1>3, UntouchedRests DEF ReportSat, Fields
<1> QED BY <1>2, <1>3 DEF Decision

-----------------------------------------------------------------------------
\* The flags of the longer clauses, one entry at a time.
FlagIs(T2, T, i, w, v) ==
    /\ DOMAIN T2 = DOMAIN T /\ T2[i].flags[w] = v
    /\ \A k \in DOMAIN T : \A u \in Workers :
          k # i \/ u # w => T2[k].flags[u] = T[k].flags[u]

LEMMA NaryFlagged ==
    ASSUME NEW T \in Seq(NaryEntry), NEW i \in DOMAIN T, NEW w \in Workers,
           NEW v \in BOOLEAN, NEW T2, Flagged(T2, T, i, w, v)
    PROVE  FlagIs(T2, T, i, w, v)
<1>1. PICK x, y : x = T[i] /\ y = [x EXCEPT !.flags[w] = v]
  OBVIOUS
<1>2. x \in NaryEntry /\ x.flags \in [Workers -> BOOLEAN]
  <2>1. x \in NaryEntry
    BY <1>1
  <2> QED BY <2>1 DEF NaryEntry
<1>3. T2 = [T EXCEPT ![i] = y]
  BY <1>1 DEF Flagged
<1>4. y.flags = [x.flags EXCEPT ![w] = v]
  <2>1. DOMAIN x = {"lits", "flags", "original"}
    BY <1>2 DEF NaryEntry
  <2> QED BY <1>1, <2>1
<1>5. y.flags[w] = v /\ \A u \in Workers \ {w} : y.flags[u] = x.flags[u]
  BY <1>2, <1>4
<1>6. DOMAIN T2 = DOMAIN T /\ T2[i] = y /\ \A k \in DOMAIN T \ {i} : T2[k] = T[k]
  BY <1>3
<1> QED BY <1>1, <1>5, <1>6 DEF FlagIs

AppendsNary(d, x, e) == e = [d EXCEPT !.nDB = Append(@, x)]

LEMMA NaryAppended ==
    ASSUME NEW d \in ClauseDBType, NEW x, NEW e, AppendsNary(d, x, e)
    PROVE  /\ DOMAIN e.nDB = DOMAIN d.nDB \cup {Len(d.nDB) + 1}
           /\ e.nDB[Len(d.nDB) + 1] = x /\ Len(d.nDB) + 1 \notin DOMAIN d.nDB
           /\ \A q \in DOMAIN d.nDB : e.nDB[q] = d.nDB[q]
<1>1. PICK T, T2 : T = d.nDB /\ T2 = e.nDB
  OBVIOUS
<1>2. T \in Seq(NaryEntry)
  BY <1>1, DbFields
<1>3. T2 = Append(T, x)
  BY <1>1 DEF AppendsNary, ClauseDBType
<1>4. /\ DOMAIN T2 = DOMAIN T \cup {Len(T) + 1} /\ T2[Len(T) + 1] = x
      /\ Len(T) + 1 \notin DOMAIN T /\ \A q \in DOMAIN T : T2[q] = T[q]
  BY <1>2, <1>3
<1> QED BY <1>1, <1>4

\* insert_nary_clause gives its caller the flag of one entry, and takes none away.
LEMMA NaryRaises ==
    ASSUME NEW d \in ClauseDBType, NEW c, NEW w \in Workers, NEW last \in Nat,
           last <= Len(d.nDB), NEW e, NEW q, NaryOf(d, c, w, last, e, q)
    PROVE  /\ RaisesFlag(d, e, w, last + 1)
           /\ \A u \in Workers \ {w} : FlagsAlike(d, e, u)
<1>1. PICK T, T2, p : T = d.nDB /\ T2 = e.nDB /\ p = last + 1
  OBVIOUS
<1>2. T \in Seq(NaryEntry) /\ Len(T) \in Nat /\ DOMAIN T = 1..Len(T)
  BY <1>1, DbFields
<1>3. CASE AlreadyInList(T, FALSE, last)
  <2>1. p \in DOMAIN T
    BY <1>1, <1>2, <1>3 DEF AlreadyInList
  <2>2. e = [d EXCEPT !.nDB[p].flags[w] = TRUE]
    BY <1>1, <1>3 DEF NaryOf, InsertNary
  <2>3. T2 = [T EXCEPT ![p].flags[w] = TRUE]
    BY <1>1, <2>2 DEF ClauseDBType
  <2>4. PICK v : v = TRUE /\ v \in BOOLEAN
    OBVIOUS
  <2>5. Flagged(T2, T, p, w, v)
    BY <2>3, <2>4 DEF Flagged
  <2>6. /\ DOMAIN T2 = DOMAIN T /\ T2[p].flags[w] = v
        /\ \A k \in DOMAIN T : \A u \in Workers :
              k # p \/ u # w => T2[k].flags[u] = T[k].flags[u]
    <3>1. v \in BOOLEAN
      BY <2>4
    <3>2. FlagIs(T2, T, p, w, v)
      BY <1>2, <2>1, <2>5, <3>1, NaryFlagged
    <3> QED BY <3>2 DEF FlagIs
  <2>7. RaisesFlag(d, e, w, p)
    <3>1. T2[p].flags[w]
      BY <2>4, <2>6
    <3> QED BY <1>1, <2>1, <2>6, <3>1 DEF RaisesFlag
  <2>8. \A u \in Workers \ {w} : FlagsAlike(d, e, u)
    BY <1>1, <2>6 DEF FlagsAlike
  <2> QED BY <1>1, <2>7, <2>8
<1>4. CASE ~AlreadyInList(T, FALSE, last)
  <2>1. PICK x : x = [lits |-> c, flags |-> Flags(FALSE, w), original |-> FALSE]
    OBVIOUS
  <2>2. AppendsNary(d, x, e)
    BY <1>1, <1>4, <2>1 DEF NaryOf, InsertNary, AppendsNary
  <2>3. p = Len(T) + 1
    BY <1>1, <1>2, <1>4 DEF AlreadyInList
  <2>4. \A u \in Workers : x.flags[u] <=> u = w
    BY <2>1 DEF Flags
  <2>5. /\ DOMAIN T2 = DOMAIN T \cup {p} /\ T2[p] = x /\ p \notin DOMAIN T
        /\ \A k \in DOMAIN T : T2[k] = T[k]
    BY <1>1, <2>2, <2>3, NaryAppended
  <2>6. RaisesFlag(d, e, w, p)
    BY <1>1, <2>4, <2>5 DEF RaisesFlag
  <2>7. \A u \in Workers \ {w} : FlagsAlike(d, e, u)
    BY <1>1, <2>4, <2>5 DEF FlagsAlike
  <2> QED BY <1>1, <2>6, <2>7
<1> QED BY <1>3, <1>4

LEMMA ClearedLowers ==
    ASSUME NEW d \in ClauseDBType, NEW w \in Workers, NEW p \in DOMAIN d.nDB,
           NEW e, e = FlagCleared(d, p, w)
    PROVE  LowersFlag(d, e, w, p) /\ \A u \in Workers \ {w} : FlagsAlike(d, e, u)
<1>1. PICK T, T2, v : T = d.nDB /\ T2 = e.nDB /\ v = FALSE /\ v \in BOOLEAN
  OBVIOUS
<1>2. T \in Seq(NaryEntry)
  BY <1>1, DbFields
<1>3. e = [d EXCEPT !.nDB[p].flags[w] = FALSE]
  BY DEF FlagCleared
<1>4. T2 = [T EXCEPT ![p].flags[w] = FALSE]
  BY <1>1, <1>3 DEF ClauseDBType
<1>5. Flagged(T2, T, p, w, v)
  BY <1>1, <1>4 DEF Flagged
<1>6. /\ DOMAIN T2 = DOMAIN T /\ T2[p].flags[w] = v
      /\ \A k \in DOMAIN T : \A u \in Workers :
            k # p \/ u # w => T2[k].flags[u] = T[k].flags[u]
  BY <1>1, <1>2, <1>5, NaryFlagged DEF FlagIs
<1>7. LowersFlag(d, e, w, p)
  BY <1>1, <1>6 DEF LowersFlag
<1>8. \A u \in Workers \ {w} : FlagsAlike(d, e, u)
  BY <1>1, <1>6 DEF FlagsAlike
<1> QED BY <1>7, <1>8

-----------------------------------------------------------------------------
\* What a step of worker w does to the flags of w and to those of the others.
FlagsStep(w) ==
    /\ FlagsHeld(ad'[w].thcdb, ad'[w].lastNary, db', w)
    /\ \A u \in Workers \ {w} : FlagsAlike(db, db', u) /\ ad'[u] = ad[u]

LEMMA RestIsStep ==
    ASSUME NEW w \in Workers, FlagsHeld(ad[w].thcdb, ad[w].lastNary, db, w),
           FlagsRest(w), \A u \in Workers \ {w} : ad'[u] = ad[u]
    PROVE  FlagsStep(w)
<1>1. PICK th, th2, last, d, e : /\ th = ad[w].thcdb /\ th2 = ad'[w].thcdb
                                 /\ last = ad[w].lastNary /\ d = db /\ e = db'
  OBVIOUS
<1>2. SamePlaces(th, th2) /\ ad'[w].lastNary = last /\ e.nDB = d.nDB
  BY <1>1 DEF FlagsRest
<1>3. \A u : FlagsAlike(d, e, u)
  BY <1>2 DEF FlagsAlike
<1>4. FlagsHeld(th2, last, d, w)
  BY <1>1, <1>2, SamePlacesHeld
<1>5. FlagsHeld(th2, last, e, w)
  BY <1>3, <1>4, AlikeKeepsHeld
<1> QED BY <1>1, <1>2, <1>3, <1>5 DEF FlagsStep

LEMMA StepKeepsFInv ==
    ASSUME FInv, NEW w \in Workers, FlagsStep(w), mainPc' = mainPc, mainPc # "read"
    PROVE  FInv'
<1>1. mainPc' # "read"
  OBVIOUS
<1>2. ASSUME NEW u \in Workers, ad'[u].pc # "allocated"
      PROVE  FlagsHeld(ad'[u].thcdb, ad'[u].lastNary, db', u)
  <2>1. CASE u = w
    BY <2>1 DEF FlagsStep
  <2>2. CASE u # w
    <3>1. FlagsAlike(db, db', u) /\ ad'[u] = ad[u]
      BY <2>2 DEF FlagsStep
    <3>2. FlagsHeld(ad[u].thcdb, ad[u].lastNary, db, u)
      BY <1>2, <3>1 DEF FInv
    <3>3. FlagsHeld(ad[u].thcdb, ad[u].lastNary, db', u)
      BY <3>1, <3>2, AlikeKeepsHeld
    <3> QED BY <3>1, <3>3
  <2> QED BY <2>1, <2>2
<1>3. (\A u \in Workers : ad[u].pc # "allocated" =>
          FlagsHeld(ad[u].thcdb, ad[u].lastNary, db, u))'
  BY <1>2
<1> QED BY <1>1, <1>3 DEF FInv

-----------------------------------------------------------------------------
LEMMA LearnNaryFlags ==
    ASSUME IInv, FInv, NEW w \in Workers, LearnNary(w)
    PROVE  FlagsStep(w)
<1>1. PICK a, d, n, pos, lits, t, c, r, b, last, e :
         /\ a = ad[w] /\ d = db /\ last = a.lastNary /\ n = Len(a.thcdb) + 1
         /\ pos = last + 1 /\ lits = Learned(a)
         /\ t = [pos |-> pos, w1 |-> a.uip, w2 |-> OtherWatch(a), activity |-> 0]
         /\ c = InsertThClause([a EXCEPT !.lastNary = @ + 1], t)
         /\ r = [size |-> Cardinality(lits), lit |-> ZeroLit, ptr |-> n]
         /\ b = AfterLearning(c, r)
         /\ NaryOf(d, lits, w, last, e, pos)
  BY DEF NaryOf
<1>2. a.pc = "shorten" /\ Sharing(w, b, e)
  BY <1>1 DEF LearnNary, ReadyToLearn, At, NaryOf
<1>3. /\ Typed(a) /\ Counted(a, d) /\ d \in ClauseDBType
      /\ last \in Nat /\ a.thcdb \in Seq(ThClause) /\ DOMAIN a = Fields
  <2>1. a = ad[w] /\ d = db /\ last = a.lastNary
    BY <1>1
  <2>2. Typed(a) /\ Counted(a, d) /\ d \in ClauseDBType
    BY <2>1, WorkerParts DEF IInv, DbInv, Core
  <2> QED BY <2>1, <2>2 DEF Typed
<1>4. /\ b.lastNary = last + 1 /\ b.thcdb = Append(a.thcdb, t)
  <2>1. DOMAIN c = Fields /\ c.lastNary = last + 1 /\ c.thcdb = Append(a.thcdb, t)
    BY <1>1, <1>3 DEF InsertThClause, Fields
  <2> QED BY <1>1, <2>1 DEF AfterLearning, Fields
<1>5. OnePlaceMore(a.thcdb, b.thcdb, last)
  <2>1. t.pos = last + 1
    BY <1>1
  <2> QED BY <1>3, <1>4, <2>1 DEF OnePlaceMore
<1>6. RaisesFlag(d, e, w, last + 1) /\ \A u \in Workers \ {w} : FlagsAlike(d, e, u)
  <2>1. last <= Len(d.nDB)
    BY <1>1, <1>3 DEF Counted
  <2>2. NaryOf(d, lits, w, last, e, pos)
    BY <1>1
  <2> QED BY <1>3, <2>1, <2>2, NaryRaises
<1>7. FlagsHeld(a.thcdb, last, d, w)
  BY <1>1, <1>2 DEF FInv
<1>8. \A q \in DOMAIN d.nDB : q \in Nat
  BY <1>3, DbFields
<1>9. FlagsHeld(b.thcdb, last + 1, e, w)
  BY <1>3, <1>5, <1>6, <1>7, <1>8, OneMoreHeld
<1>10. /\ ad'[w] = b /\ db' = e
       /\ \A u \in Workers \ {w} : ad'[u] = ad[u]
  BY <1>2, SharingIs
<1> QED BY <1>1, <1>4, <1>6, <1>9, <1>10 DEF FlagsStep

\* A clause leaves thcdb, with its flag; the database may have grown before.
LEMMA DeletedFlags ==
    ASSUME IInv, FInv, NEW w \in Workers, NEW a, a = ad[w], NEW t, AtClause(a, t),
           NEW c, c.thcdb = a.thcdb, c.lastNary = a.lastNary, DOMAIN c = Fields,
           NEW d \in ClauseDBType, d.nDB = db.nDB,
           NEW b, b = Deleted(c, a.cursor.pos), NEW e, e = FlagCleared(d, t.pos, w),
           Sharing(w, b, e)
    PROVE  FlagsStep(w)
<1>1. /\ a.thcdb \in Seq(ThClause) /\ a.cursor.pos \in DOMAIN a.thcdb
      /\ t.pos \in DOMAIN db.nDB /\ t = a.thcdb[a.cursor.pos] /\ a.pc = "clean"
      /\ db \in ClauseDBType
  BY CleanFacts, WorkerParts DEF AtClause, Typed
<1>2. PICK th, th2, i, p, last : /\ th = a.thcdb /\ th2 = b.thcdb /\ i = a.cursor.pos
                                 /\ p = t.pos /\ last = a.lastNary
  OBVIOUS
<1>3. th2 = [th EXCEPT ![i].pos = 0] /\ b.lastNary = last
  BY <1>2 DEF Deleted, Fields
<1>4. i \in Held(th) /\ th[i].pos = p
  <2>1. p \in DOMAIN db.nDB
    BY <1>1, <1>2, Zenon
  <2>2. p # 0
    <3>1. PICK T : T = db.nDB
      OBVIOUS
    <3>2. DOMAIN T = 1..Len(T) /\ Len(T) \in Nat
      BY <1>1, <3>1, DbFields, Zenon
    <3> QED BY <2>1, <3>1, <3>2
  <2>3. i \in DOMAIN th /\ th[i].pos = p
    BY <1>1, <1>2, Zenon
  <2> QED BY <2>2, <2>3 DEF Held
<1>5. OneLess(th, th2, i)
  <2>1. PICK x : x = th[i]
    OBVIOUS
  <2>2. th \in Seq(ThClause) /\ i \in DOMAIN th
    BY <1>1, <1>2, Zenon
  <2>3. x \in ThClause
    BY <2>1, <2>2
  <2>4. th2[i] = [x EXCEPT !.pos = 0]
    BY <1>3, <2>1, <2>2
  <2>5. th2[i].pos = 0
    BY <2>3, <2>4 DEF ThClause
  <2> QED BY <1>3, <2>5 DEF OneLess
<1>6. LowersFlag(d, e, w, p) /\ \A u \in Workers \ {w} : FlagsAlike(d, e, u)
  BY <1>1, <1>2, ClearedLowers, Zenon
<1>7. FlagsHeld(th, last, db, w)
  BY <1>1, <1>2, Zenon DEF FInv
<1>8. FlagsHeld(th, last, d, w)
  BY <1>7 DEF FlagsHeld, HeldGood, FlagsShow
<1>9. FlagsHeld(th2, last, e, w)
  BY <1>4, <1>5, <1>6, <1>8, OneLessHeld
<1>10. \A u \in Workers \ {w} : FlagsAlike(db, e, u)
  BY <1>6 DEF FlagsAlike
<1>11. /\ ad'[w] = b /\ db' = e
       /\ \A u \in Workers \ {w} : ad'[u] = ad[u]
  BY SharingIs
<1> QED BY <1>2, <1>3, <1>9, <1>10, <1>11 DEF FlagsStep

LEMMA ShrunkRests ==
    ASSUME db \in ClauseDBType, NEW w, NEW a, NEW rest, Cardinality(rest) \in 1..3,
           NEW d, d = ShrunkDB(w, a, rest)
    PROVE  d.nDB = db.nDB
<1>1. CASE Cardinality(rest) = 1
  <2>1. UnitOf(db, Min(rest), a.lastUnit, d)
    BY <1>1 DEF ShrunkDB, UnitOf
  <2> QED BY <2>1, UnitInserts
<1>2. CASE Cardinality(rest) = 2
  <2>1. BinaryOf(db, Min(rest), Second(rest), a.lastBins[-Min(rest)], d)
    BY <1>2 DEF ShrunkDB, BinaryOf
  <2> QED BY <2>1, BinaryInserts
<1>3. CASE Cardinality(rest) = 3
  <2>1. ShortOf(db, rest, w, a.lastTernary, d)
    BY <1>3 DEF ShrunkDB, ShortOf
  <2> QED BY <2>1, TernaryInserts
<1> QED BY <1>1, <1>2, <1>3

LEMMA CleanClauseFlags ==
    ASSUME IInv, FInv, SameSearch, NEW w \in Workers, CleanClause(w)
    PROVE  FlagsStep(w)
<1>1. PICK a, i, t, rest, x :
         /\ a = ad[w] /\ i = a.cursor.pos /\ t = a.thcdb[i] /\ rest = Undefined(a, t)
         /\ x = [a EXCEPT !.cursor.pos = @ + 1]
  OBVIOUS
<1>2. a.pc = "clean" /\ i <= Len(a.thcdb)
  BY <1>1 DEF CleanClause, At
<1>3. AtClause(a, t)
  BY <1>1, <1>2 DEF AtClause
<1>4. DOMAIN a = Fields /\ db \in ClauseDBType
  BY <1>1, WorkerParts DEF IInv, DbInv, Typed
<1>5. DOMAIN x = Fields /\ x.thcdb = a.thcdb /\ x.lastNary = a.lastNary
  BY <1>1, <1>4 DEF Fields
<1>6. CASE Sharing(w, Deleted(x, i), FlagCleared(db, t.pos, w))
  <2>1. PICK b, d, e : b = Deleted(x, i) /\ d = db /\ e = FlagCleared(d, t.pos, w)
    OBVIOUS
  <2>2. Sharing(w, b, e)
    BY <1>6, <2>1
  <2> QED BY <1>1, <1>3, <1>4, <1>5, <2>1, <2>2, DeletedFlags
<1>7. CASE Local(w, x)
  <2>1. FlagsRest(w)
    BY <1>1, <1>5, <1>7, UntouchedRests
  <2>2. \A u \in Workers \ {w} : ad'[u] = ad[u]
    BY <1>7, LocalIs
  <2>3. FlagsHeld(ad[w].thcdb, ad[w].lastNary, db, w)
    BY <1>1, <1>2 DEF FInv
  <2> QED BY <2>1, <2>2, <2>3, RestIsStep
<1>8. CASE /\ IsKept(t) /\ ~IsSatisfied(a, t) /\ Cardinality(rest) \in 1..3
           /\ Sharing(w, Deleted(ShrunkSolver(x, rest), i),
                         FlagCleared(ShrunkDB(w, a, rest), t.pos, w))
  <2>1. PICK c, d, b, e :
           /\ c = ShrunkSolver(x, rest) /\ d = ShrunkDB(w, a, rest)
           /\ b = Deleted(c, i) /\ e = FlagCleared(d, t.pos, w)
    OBVIOUS
  <2>2. Sharing(w, b, e)
    BY <1>8, <2>1
  <2>3. ShrunkTo(x, c, d)
    <3>1. rest \in Clause /\ Follows(Read, rest) /\ \A l \in rest : IsUndef(a.model, l)
      BY <1>1, <1>2, <1>8, UndefinedFollows, Zenon
    <3>2. SameAt(w, rest)
      BY <1>1, <1>2, <1>8, Zenon DEF SameSearch
    <3>3. /\ WorkerInv(x, db, Read) /\ x.pc = "clean" /\ Differs(a, x, {"cursor"})
          /\ DbInv(db, Read)
      BY <1>1, <1>2, CleanNext, CleanFacts
    <3>4. x.model = a.model
      BY <3>3 DEF Differs, Fields
    <3>5. ShrunkFrom(w, a, x, rest, c, d)
      BY <1>1, <1>2, <2>1, <3>1, <3>2, <3>3, <3>4, Zenon DEF ShrunkFrom
    <3> QED BY <1>8, <3>5, ShrunkUnit, ShrunkBinary, ShrunkTernary
  <2>4. DOMAIN c = Fields /\ c.thcdb = a.thcdb /\ c.lastNary = a.lastNary
    BY <1>5, <2>3 DEF ShrunkTo, Differs, Fields
  <2>5. d \in ClauseDBType /\ d.nDB = db.nDB
    BY <1>4, <1>8, <2>1, <2>3, ShrunkRests DEF ShrunkTo, DbInv
  <2> QED BY <1>1, <1>3, <2>1, <2>2, <2>4, <2>5, DeletedFlags, Zenon
<1> QED BY <1>1, <1>6, <1>7, <1>8 DEF CleanClause

-----------------------------------------------------------------------------
LEMMA CompactFlags ==
    ASSUME IInv, FInv, NEW w \in Workers, CompactAndWatch(w)
    PROVE  FlagsStep(w)
<1>1. PICK a, th, S, kept, aged, watches, b :
         /\ a = ad[w] /\ th = a.thcdb /\ S = {i \in DOMAIN th : th[i].pos # 0}
         /\ kept = InOrderOf(S)
         /\ aged = [n \in DOMAIN kept |-> [th[kept[n]] EXCEPT !.activity = @ \div 2]]
         /\ watches = WatchLists(aged)
         /\ b = [a EXCEPT !.pc = "propagate", !.cursor = NoCursor, !.cleaning = TRUE,
                          !.thcdb = aged, !.watches = watches]
  OBVIOUS
<1>2. a.pc = "clean" /\ Local(w, b)
  BY <1>1, Zenon DEF CompactAndWatch, At
<1>3. Typed(a)
  BY <1>1, WorkerParts, Zenon DEF IInv
<1>4. th \in Seq(ThClause) /\ Len(th) \in Nat /\ DOMAIN th = 1..Len(th) /\ S = Held(th)
  <2>1. th \in Seq(ThClause)
    BY <1>1, <1>3, Zenon DEF Typed
  <2>2. S = Held(th)
    BY <1>1, Zenon DEF Held
  <2> QED BY <2>1, <2>2
<1>5. IsInjective(kept) /\ Range(kept) = S
  <2>1. S \subseteq 1..Len(th)
    BY <1>1, <1>4, Zenon
  <2>2. S \in SUBSET Nat
    BY <1>4, <2>1
  <2>3. IsFiniteSet(1..Len(th))
    BY <1>4, FS_Interval
  <2>4. IsFiniteSet(S)
    BY <2>1, <2>3, FS_Subset, Zenon
  <2>5. kept = InOrderOf(S)
    BY <1>1, Zenon
  <2> QED BY <2>2, <2>4, <2>5, InOrderOfLists
<1>6. DOMAIN aged = DOMAIN kept
  BY <1>1, Zenon
<1>7. ASSUME NEW n \in DOMAIN kept
      PROVE  kept[n] \in Held(th) /\ aged[n].pos = th[kept[n]].pos
  <2>1. PICK j, t, u : j = kept[n] /\ t = th[j] /\ u = aged[n]
    OBVIOUS
  <2>2. j \in Held(th)
    BY <1>4, <1>5, <1>7, <2>1 DEF Range
  <2>3. t \in ThClause
    BY <1>4, <2>1, <2>2 DEF Held
  <2>4. u = [t EXCEPT !.activity = @ \div 2]
    BY <1>1, <1>7, <2>1, Zenon
  <2>5. u.pos = t.pos
    BY <2>3, <2>4 DEF ThClause
  <2> QED BY <2>1, <2>2, <2>5
<1>8. FlagsHeld(th, a.lastNary, db, w)
  BY <1>1, <1>2, Zenon DEF FInv
<1>9. SameHeld(th, aged)
  <2>1. ASSUME NEW m \in DOMAIN aged, NEW n \in DOMAIN aged, aged[m].pos = aged[n].pos
        PROVE  m = n
    <3>1. /\ kept[m] \in Held(th) /\ kept[n] \in Held(th)
          /\ th[kept[m]].pos = th[kept[n]].pos
      BY <1>6, <1>7, <2>1
    <3>2. kept[m] = kept[n]
      BY <1>8, <3>1 DEF FlagsHeld, HeldOnce
    <3> QED BY <1>5, <1>6, <3>2 DEF IsInjective
  <2>2. \A n \in DOMAIN aged : \E j \in Held(th) : aged[n].pos = th[j].pos
    BY <1>6, <1>7
  <2>3. ASSUME NEW j \in Held(th) PROVE \E n \in DOMAIN aged : aged[n].pos = th[j].pos
    <3>1. PICK n \in DOMAIN kept : kept[n] = j
      BY <1>4, <1>5 DEF Range
    <3> QED BY <1>6, <1>7, <3>1
  <2> QED BY <2>1, <2>2, <2>3 DEF SameHeld
<1>10. b.thcdb = aged /\ b.lastNary = a.lastNary
  BY <1>1, <1>3, Zenon DEF Typed, Fields
<1>11. FlagsHeld(aged, a.lastNary, db, w)
  BY <1>8, <1>9, SameHeldKeeps
<1>12. ad'[w] = b /\ db' = db /\ \A u \in Workers \ {w} : ad'[u] = ad[u]
  BY <1>2, LocalIs
<1>13. \A u : FlagsAlike(db, db', u)
  BY <1>12 DEF FlagsAlike
<1> QED BY <1>10, <1>11, <1>12, <1>13 DEF FlagsStep

\* An input clause is for everybody.
LEMMA InputFlags ==
    ASSUME NEW d \in ClauseDBType, NEW c \in Clause, NEW e, e = InsertInput(d, c),
           \A p \in DOMAIN d.nDB : \A w \in Workers : d.nDB[p].flags[w]
    PROVE  \A p \in DOMAIN e.nDB : \A w \in Workers : e.nDB[p].flags[w]
<1>1. Cardinality(c) \in Nat
  BY ClauseSize
<1>2. \A list, last : ~AlreadyInList(list, TRUE, last)
  BY DEF AlreadyInList
<1>3. CASE Cardinality(c) = 0
  BY <1>3 DEF InsertInput
<1>4. CASE Cardinality(c) = 1
  <2>1. PICK x : x = CHOOSE l \in c : TRUE
    OBVIOUS
  <2>2. e = InsertUnit(d, x, TRUE, 0)
    BY <1>4, <2>1 DEF InsertInput
  <2>3. e = [d EXCEPT !.uDB = Append(@, x)]
    BY <1>2, <2>2 DEF InsertUnit
  <2>4. e.nDB = d.nDB
    BY <2>3 DEF ClauseDBType
  <2> QED BY <2>4
<1>5. CASE Cardinality(c) = 2
  <2>1. PICK x, y : x = (CHOOSE l \in c : TRUE) /\ y = CHOOSE l \in c : l # x
    OBVIOUS
  <2>2. e = InsertBinary(d, x, y, TRUE, 0)
    BY <1>5, <2>1 DEF InsertInput
  <2>3. e = [d EXCEPT !.bDB[-x] = Append(@, y), !.bDB[-y] = Append(@, x)]
    BY <1>2, <2>2 DEF InsertBinary
  <2>4. e.nDB = d.nDB
    BY <2>3 DEF ClauseDBType
  <2> QED BY <2>4
<1>6. CASE Cardinality(c) = 3
  <2>1. e = InsertTernary(d, c, TRUE, 0, 0)
    BY <1>6 DEF InsertInput
  <2>2. PICK x : x = [lits |-> c, flags |-> Flags(TRUE, 0)]
    OBVIOUS
  <2>3. e = [d EXCEPT
               !.tDB = Append(@, x),
               !.ternaryWatches =
                  [l \in Lits |-> IF l \in c THEN Append(@[l], Len(d.tDB) + 1)
                                             ELSE @[l]]]
    BY <1>2, <2>1, <2>2 DEF InsertTernary
  <2>4. e.nDB = d.nDB
    BY <2>3 DEF ClauseDBType
  <2> QED BY <2>4
<1>7. CASE Cardinality(c) > 3
  <2>1. e = InsertNary(d, c, TRUE, 0, 0)
    BY <1>7 DEF InsertInput
  <2>2. PICK x : x = [lits |-> c, flags |-> Flags(TRUE, 0), original |-> TRUE]
    OBVIOUS
  <2>3. AppendsNary(d, x, e)
    BY <1>2, <2>1, <2>2 DEF InsertNary, AppendsNary
  <2>4. \A w \in Workers : x.flags[w]
    BY <2>2 DEF Flags
  <2> QED BY <2>3, <2>4, NaryAppended
<1> QED BY <1>1, <1>3, <1>4, <1>5, <1>6, <1>7

LEMMA ReadClauseFlags == ASSUME IInv, FInv, ReadClause PROVE FInv'
<1>1. /\ mainPc = "read" /\ nread < Len(formula) /\ mainPc' = mainPc /\ ad' = ad
      /\ db' = InsertInput(db, formula[nread + 1])
  BY DEF ReadClause
<1>2. /\ formula \in Seq(Clause) /\ nread \in 0..Len(formula) /\ db \in ClauseDBType
      /\ \A w \in Workers : ad[w].pc = "allocated"
  BY <1>1 DEF IInv, MainInv, DbInv
<1>3. PICK c, e : c = formula[nread + 1] /\ e = InsertInput(db, c)
  OBVIOUS
<1>4. c \in Clause
  <2>1. nread + 1 \in 1..Len(formula)
    BY <1>1, <1>2
  <2> QED BY <1>2, <1>3, <2>1
<1>5. \A p \in DOMAIN e.nDB : \A w \in Workers : e.nDB[p].flags[w]
  BY <1>1, <1>2, <1>3, <1>4, InputFlags DEF FInv
<1>6. db' = e
  BY <1>1, <1>3
<1>7. \A w \in Workers : ad'[w].pc = "allocated"
  BY <1>1, <1>2
<1> QED BY <1>5, <1>6, <1>7 DEF FInv

LEMMA StartWorkersFlags == ASSUME IInv, FInv, StartWorkers PROVE FInv'
<1>1. /\ mainPc = "read" /\ mainPc' = "join" /\ db' = db
      /\ ad' = [w \in Workers |-> InitSolver(ad[w].model.phase)]
  BY DEF StartWorkers
<1>2. db \in ClauseDBType /\ \A p \in DOMAIN db.nDB : \A w \in Workers : db.nDB[p].flags[w]
  BY <1>1 DEF IInv, DbInv, FInv
<1>3. PICK th, last : th = InitThcdb /\ last = Len(db.nDB)
  OBVIOUS
<1>4. DOMAIN th = DOMAIN db.nDB /\ \A i \in DOMAIN th : th[i].pos = i
  BY <1>3 DEF InitThcdb
<1>5. DOMAIN db.nDB = 1..last /\ last \in Nat
  BY <1>2, <1>3, DbFields
<1>6. Held(th) = DOMAIN th
  BY <1>4, <1>5 DEF Held
<1>7. ASSUME NEW w \in Workers PROVE FlagsHeld(ad'[w].thcdb, ad'[w].lastNary, db', w)
  <2>1. ad'[w].thcdb = th /\ ad'[w].lastNary = last
    BY <1>1, <1>3 DEF InitSolver
  <2>2. HeldGood(th, last, db) /\ FlagsShow(th, db, w) /\ HeldOnce(th)
    BY <1>2, <1>4, <1>5, <1>6 DEF HeldGood, FlagsShow, HeldOnce
  <2> QED BY <1>1, <2>1, <2>2 DEF FlagsHeld
<1>8. (\A w \in Workers : ad[w].pc # "allocated" =>
          FlagsHeld(ad[w].thcdb, ad[w].lastNary, db, w))'
  BY <1>7
<1> QED BY <1>1, <1>8 DEF FInv

LEMMA InitFlags == Init => FInv
<1> SUFFICES ASSUME Init PROVE FInv
  OBVIOUS
<1>1. IInv
  BY InitIInv
<1>2. mainPc = "read" /\ db = EmptyDB
  BY DEF Init
<1>3. \A w \in Workers : ad[w].pc = "allocated"
  BY <1>1, <1>2 DEF IInv, MainInv
<1>4. db.nDB = << >>
  BY <1>2 DEF EmptyDB
<1> QED BY <1>2, <1>3, <1>4 DEF FInv

\* A step of a worker changes its own struct only.
OwnStep(w) == mainPc' = mainPc /\ \E b : ad' = [ad EXCEPT ![w] = b]

LEMMA WorkersOwnStep == ASSUME NEW w \in Workers, Worker(w) PROVE OwnStep(w)
<1>1. ASSUME NEW b, Local(w, b) PROVE OwnStep(w)
  BY <1>1 DEF Local, OwnStep
<1>2. ASSUME NEW b, NEW e, Sharing(w, b, e) PROVE OwnStep(w)
  BY <1>2 DEF Sharing, OwnStep
<1>3. CASE Units(w) \/ Propagation(w)
  BY <1>1, <1>3, Zenon DEF Units, StartSolve, SetTrueUnit, UnitsDone, Propagation,
     HandOutLiteral, VisitBinary, VisitTernary, VisitNary, ListDone, PropagationDone, Finish
<1>4. CASE Analysis(w)
  BY <1>1, <1>4, Zenon DEF Analysis, ConflictAtLevelZero, StartAnalysis, MarkClause, PopLiteral,
     StartShortening, ShortenLiteral, Finish
<1>5. CASE Learning(w)
  BY <1>1, <1>2, <1>5, Zenon DEF Learning, LearnUnit, LearnBinary, LearnTernary, LearnNary,
     Unwind, SetTrueUip
<1>6. CASE Upkeep(w)
  BY <1>1, <1>2, <1>6, Zenon DEF Upkeep, RestartIfAdequate, RestartDone, CleanupIfAdequate,
     StartCleaning, CleanClause, CompactAndWatch
<1>7. CASE Decision(w)
  BY <1>1, <1>7, Zenon DEF Decision, DecideAtRandom, DecideFromHeap, ReportSat
<1> QED BY <1>3, <1>4, <1>5, <1>6, <1>7 DEF Worker

LEMMA WorkerFlags ==
    ASSUME IInv, FInv, SameSearch, NEW w \in Workers, Worker(w)
    PROVE  FInv'
<1>1. /\ ad[w].pc # "allocated" /\ mainPc' = mainPc
      /\ \A u \in Workers \ {w} : ad'[u] = ad[u]
  BY RunningWorker, WorkersOwnStep DEF OwnStep, IInv
<1>2. FlagsHeld(ad[w].thcdb, ad[w].lastNary, db, w) /\ mainPc # "read"
  BY <1>1 DEF FInv, IInv, MainInv
<1>3. FlagsRest(w) \/ LearnNary(w) \/ CleanClause(w) \/ CompactAndWatch(w)
  BY UnitsRest, PropagationRests, AnalysisRests, LearningRests, UpkeepRests, DecisionRests
     DEF Worker
<1>4. FlagsStep(w)
  BY <1>1, <1>2, <1>3, RestIsStep, LearnNaryFlags, CleanClauseFlags, CompactFlags
<1> QED BY <1>1, <1>2, <1>4, StepKeepsFInv

LEMMA NextFlags == IInv /\ FInv /\ SameSearch /\ [Next]_vars => FInv'
<1> SUFFICES ASSUME IInv, FInv, SameSearch, [Next]_vars PROVE FInv'
  OBVIOUS
<1>1. CASE JoinWorkers \/ UNCHANGED vars
  <2>1. ad' = ad /\ db' = db /\ (mainPc' = "read" => mainPc = "read")
    BY <1>1 DEF JoinWorkers, vars
  <2> QED BY <2>1 DEF FInv
<1>2. CASE ReadClause \/ StartWorkers
  BY <1>2, ReadClauseFlags, StartWorkersFlags
<1>3. CASE \E w \in Workers : Worker(w)
  BY <1>3, WorkerFlags
<1> QED BY <1>1, <1>2, <1>3 DEF Next, Main, Exited

LEMMA FlagsImply == FInv => FlagsMatch
<1> SUFFICES ASSUME FInv, NEW w \in Workers, ad[w].pc # "allocated",
                    NEW held, held = {i \in DOMAIN ad[w].thcdb : ad[w].thcdb[i].pos # 0}
             PROVE  /\ {ad[w].thcdb[i].pos : i \in held} =
                          {p \in DOMAIN db.nDB : db.nDB[p].flags[w]}
                    /\ \A i, j \in held :
                          i # j => ad[w].thcdb[i].pos # ad[w].thcdb[j].pos
  BY DEF FlagsMatch
<1>1. PICK th : th = ad[w].thcdb
  OBVIOUS
<1>2. held = Held(th)
  BY <1>1 DEF Held
<1>3. FlagsHeld(th, ad[w].lastNary, db, w)
  BY <1>1 DEF FInv
<1>4. {th[i].pos : i \in held} = {p \in DOMAIN db.nDB : db.nDB[p].flags[w]}
  BY <1>2, <1>3 DEF FlagsHeld, HeldGood, FlagsShow
<1>5. \A i, j \in held : i # j => th[i].pos # th[j].pos
  BY <1>2, <1>3 DEF FlagsHeld, HeldOnce
<1> QED BY <1>1, <1>4, <1>5

\* FlagsMatch: as long as the workers make the same search, the flags of nDB are those of
\* the clauses each worker holds, through learning, deleting and compacting.
THEOREM FlagsAreExact == SafeSpec /\ []SameSearch => []FlagsMatch
<1>1. Init => FInv
  BY InitFlags
<1>2. IInv /\ FInv /\ SameSearch /\ [Next]_vars => FInv'
  BY NextFlags
<1>3. FInv => FlagsMatch
  BY FlagsImply
<1> QED BY <1>1, <1>2, <1>3, SolverInvariant, PTL DEF SafeSpec

\* So all that rests on SameSearch holds of a solver with one worker, without a
\* condition.
THEOREM LoneWorkerIsSound ==
    ASSUME NEW x, Workers = {x}
    PROVE  SafeSpec => /\ []LemmasEntailed /\ []TrailsConsistent /\ []ReasonsJustify
                       /\ []HeapComplete /\ []MarksExact /\ []LemmaAsserts
                       /\ []WatchesLinked /\ []FlagsMatch /\ LevelZeroKept
<1>1. SafeSpec => []SameSearch
  BY LoneWorkerAgrees
<1> QED BY <1>1, LemmasAreEntailed, TrailsAreConsistent, ReasonsAreRight, HeapIsComplete,
        MarksAreExact, LemmasAssert, WatchesAreLinked, FlagsAreExact, FixedLiteralsStay, PTL

=============================================================================
