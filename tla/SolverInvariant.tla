--------------------------- MODULE SolverInvariant ---------------------------
(***************************************************************************)
(* The inductive invariant behind the soundness of the solver: what holds  *)
(* of a worker at every step of every loop, as long as the workers make    *)
(* the same search.  It is stated of the struct a of a worker, a database  *)
(* d and the clauses P read so far, each part of the fields it is about,   *)
(* so that a step that leaves those alone keeps it.                        *)
(***************************************************************************)
EXTENDS SolverProperties
-----------------------------------------------------------------------------
(* The database *)

DbFollows(d, P) ==
    /\ \A i \in DOMAIN d.uDB : Follows(P, {d.uDB[i]})
    /\ \A l \in Lits : \A i \in DOMAIN d.bDB[l] : Follows(P, {-l, d.bDB[l][i]})
    /\ \A i \in DOMAIN d.tDB : Follows(P, d.tDB[i].lits)
    /\ \A i \in DOMAIN d.nDB : Follows(P, d.nDB[i].lits)

\* The lists of ternaryWatches lead to ternaries with the literal, and a clause in
\* nDB has a third and a fourth literal besides the two that are watched.
DbLinked(d) ==
    /\ \A l \in Lits : \A i \in DOMAIN d.ternaryWatches[l] :
          /\ d.ternaryWatches[l][i] \in DOMAIN d.tDB
          /\ l \in d.tDB[d.ternaryWatches[l][i]].lits
    /\ \A i \in DOMAIN d.nDB : Cardinality(d.nDB[i].lits) > 3

DbInv(d, P) == d \in ClauseDBType /\ DbFollows(d, P) /\ DbLinked(d)
-----------------------------------------------------------------------------
(* The fields of a worker *)

Fields ==
    {"pc", "model", "thcdb", "watches", "lastUnit", "lastBins", "lastTernary",
     "lastNary", "heap", "marks", "cursor", "cleaning", "clause", "poppedLit",
     "pending", "lemma", "uip", "lemmaToLearn", "dlToBackjump", "rUIP",
     "sinceRestart", "restartLimit", "sinceCleanup", "cleanupLimit", "decisions",
     "result"}

Cursor == [lit : Lits \cup {ZeroLit}, pos : Nat, size : Nat]

\* SolverType but for the restart limit, field by field.
Typed(a) ==
    /\ DOMAIN a = Fields /\ a = [f \in Fields |-> a[f]]
    /\ a.pc \in Locations /\ a.model \in ModelType /\ a.thcdb \in Seq(ThClause)
    /\ a.watches \in [Lits -> Seq(Nat)]
    /\ a.lastUnit \in Nat /\ a.lastBins \in [Lits -> Nat]
    /\ a.lastTernary \in Nat /\ a.lastNary \in Nat
    /\ a.heap \in SUBSET Vars /\ a.marks \in SUBSET Vars
    /\ a.cursor \in Cursor /\ a.cleaning \in BOOLEAN /\ a.clause \in Clause
    /\ a.poppedLit \in Lits \cup {ZeroLit} /\ a.pending \in Nat
    /\ a.lemma \in Clause /\ a.uip \in Lits \cup {ZeroLit}
    /\ a.lemmaToLearn \in Clause /\ a.dlToBackjump \in Nat /\ a.rUIP \in Reason
    /\ a.sinceRestart \in Nat /\ a.sinceCleanup \in Nat /\ a.cleanupLimit \in Nat
    /\ a.decisions \in Nat /\ a.result \in {0, 10, 20}

\* No counter of what the worker has inserted is ahead of the database.
Counted(a, d) ==
    /\ a.lastUnit <= Len(d.uDB) /\ a.lastTernary <= Len(d.tDB)
    /\ a.lastNary <= Len(d.nDB)
    /\ \A l \in Lits : a.lastBins[l] <= Len(d.bDB[l])
-----------------------------------------------------------------------------
(* The clauses of thcdb and their lists *)

ThGood(t, d) ==
    /\ t.pos \in DOMAIN d.nDB
    /\ t.w1 # t.w2 /\ {t.w1, t.w2} \subseteq d.nDB[t.pos].lits

\* Only a cleanup, and only behind its cursor, leaves deleted clauses.
ThHeld(a, d) ==
    \A i \in DOMAIN a.thcdb :
       \/ ThGood(a.thcdb[i], d)
       \/ a.pc = "clean" /\ i < a.cursor.pos /\ a.thcdb[i].pos = 0

Watched(t) == {t.w1, t.w2}

\* Every clause is once in the list of either watched literal, and in no other.
Linked(th, watches) ==
    \A l \in Lits : /\ IsInjective(watches[l])
                    /\ Range(watches[l]) = {i \in DOMAIN th : l \in Watched(th[i])}

Unlinked(watches) == \A l \in Lits : watches[l] = <<>>

WatchInv(a) ==
    IF a.pc = "clean" THEN Unlinked(a.watches) ELSE Linked(a.thcdb, a.watches)
-----------------------------------------------------------------------------
(* The model *)

\* ClauseOfReason, of a thcdb and a database.
ReasonClause(th, d, r, l) ==
    CASE r.size = 1 -> {l}
      [] r.size = 2 -> {l, r.lit}
      [] r.size = 3 -> d.tDB[r.ptr].lits
      [] r.size > 3 -> d.nDB[th[r.ptr].pos].lits

\* The pointer of a reason leads to a clause.
Refers(th, d, r) ==
    /\ r.size > 1
    /\ r.size = 2 => r.lit \in Lits
    /\ r.size = 3 => r.ptr \in DOMAIN d.tDB
    /\ r.size > 3 => r.ptr \in DOMAIN th /\ th[r.ptr].pos \in DOMAIN d.nDB

\* r says rightly that l is the only literal of its clause that can be true.
Backs(m, th, d, P, r, l) ==
    /\ Refers(th, d, r)
    /\ l \in ReasonClause(th, d, r, l)
    /\ Follows(P, ReasonClause(th, d, r, l))
    /\ \A k \in ReasonClause(th, d, r, l) \ {l} : IsFalse(m, k)

Implied(m, l) == IsTrue(m, l) /\ LitDl(m, l) > 0 /\ ~LitIsDecision(m, l)

ReasonsInv(m, th, d, P) ==
    \A l \in Lits : Implied(m, l) =>
       /\ Backs(m, th, d, P, ReasonOfLit(m, l), l)
       /\ \A k \in ReasonClause(th, d, ReasonOfLit(m, l), l) \ {l} :
             LitHeight(m, k) < LitHeight(m, l)

\* What stands at level 0 follows.
FixedFollow(m, P) ==
    \A l \in Lits : IsTrue(m, l) /\ LitDl(m, l) = 0 => Follows(P, {l})

\* A marker stands under the decision of its level, never under another marker.
LevelsNotEmpty(m) ==
    \A i \in 2..Len(m.stack) : m.stack[i - 1] = DlMarker => m.stack[i] # DlMarker

ModelInv(m, th, d, P) ==
    /\ TrailConsistent(m) /\ LevelsNotEmpty(m)
    /\ ReasonsInv(m, th, d, P) /\ FixedFollow(m, P)

Free(m) == {v \in Vars : IsUndefVar(m, v)}

\* Popping(w), of the struct.
PoppingNow(a) ==
    \/ a.pc \in {"mark", "pop", "lemma", "shorten"}
    \/ /\ a.pc \in {"backjump", "restartJump", "cleanupJump"}
       /\ a.model.decisionLvl > Target(a)

\* The cursors have passed every marker, and none is on the top.
CursorsGood(m) ==
    /\ \A k \in Kinds : m.last[k] \in -1..(Len(m.stack) - 1)
    /\ \A k \in Kinds : \A i \in 1..Len(m.stack) :
          m.stack[i] = DlMarker => i <= m.last[k] + 1
    /\ Len(m.stack) > 0 => Top(m) # DlMarker

CursorInv(a) ==
    /\ ~PoppingNow(a) => CursorsGood(a.model)
    /\ \/ a.pc \in {"restart", "cleanup", "decide"}
       \/ a.pc \in {"restartJump", "cleanupJump"} /\ ~PoppingNow(a)
       => FullyPropagated(a.model)
-----------------------------------------------------------------------------
(* Where the worker is *)

\* The list being visited is that of a literal of the last level.
Visiting(a, d) ==
    /\ a.pc \in {"binary", "ternary", "nary"} =>
          /\ a.cursor.pos > 0
          /\ a.cursor.lit \in Lits
          /\ IsTrue(a.model, a.cursor.lit)
          /\ LitIsOfCurrentDl(a.model, a.cursor.lit)
    /\ a.pc = "binary" => a.cursor.size <= a.lastBins[a.cursor.lit]
    /\ a.pc = "ternary" => a.cursor.size <= Len(d.ternaryWatches[-a.cursor.lit])
    /\ a.pc = "units" => a.cursor.pos > 0 /\ a.cursor.size <= Len(d.uDB)
    /\ a.pc = "clean" => a.cursor.pos > 0
    /\ a.pc \in {"allocated", "solve", "units", "clean"} => a.model.decisionLvl = 0

AllFalse(m, c) == \A l \in c : IsFalse(m, l)

\* False literals above level 0 and below the last level.
AllLower(m, c) ==
    \A l \in c : IsFalse(m, l) /\ 0 < LitDl(m, l) /\ LitDl(m, l) < m.decisionLvl

ThisDl(m, marks) == {v \in marks : m.level[v] = m.decisionLvl}

\* The lemma as it stands: the literals of lower levels and the marked ones of the last.
Side(m, marks, lemma) ==
    lemma \cup {l \in Lits : IsFalse(m, l) /\ var(l) \in ThisDl(m, marks)}

InAnalysis(m, marks, lemma, pending) ==
    /\ m.decisionLvl > 0
    /\ AllLower(m, lemma)
    /\ marks \ ThisDl(m, marks) = {var(l) : l \in lemma}
    /\ \A v \in marks : ~IsUndefVar(m, v)
    /\ pending = Cardinality(ThisDl(m, marks))

Conflict(a, P) ==
    a.pc = "conflict" =>
       /\ AllFalse(a.model, a.clause)
       /\ Follows(P, a.clause)
       /\ \E l \in a.clause : LitIsOfCurrentDl(a.model, l)

\* To be marked: the rest of a clause that makes the lemma follow.
Marking(a, P) ==
    a.pc = "mark" =>
       LET rest == a.clause \ {a.poppedLit}
           resolvent == rest \cup Side(a.model, a.marks, a.lemma)
       IN  /\ InAnalysis(a.model, a.marks, a.lemma, a.pending)
           /\ AllFalse(a.model, rest)
           /\ Follows(P, resolvent)
           /\ \E l \in resolvent : LitIsOfCurrentDl(a.model, l)

Popped(a, P) ==
    a.pc = "pop" =>
       /\ InAnalysis(a.model, a.marks, a.lemma, a.pending)
       /\ Follows(P, Side(a.model, a.marks, a.lemma))
       /\ a.pending > 0

UipGood(a) == a.uip \in Lits /\ IsUndef(a.model, a.uip)

Lemma(a, P) ==
    a.pc = "lemma" =>
       /\ a.model.decisionLvl > 0
       /\ UipGood(a)
       /\ AllLower(a.model, a.lemma)
       /\ Follows(P, a.lemma \cup {a.uip})

Shortening(a, P) ==
    a.pc = "shorten" =>
       LET lits == a.lemma \cup a.lemmaToLearn
       IN  /\ a.model.decisionLvl > 0
           /\ UipGood(a)
           /\ AllLower(a.model, lits)
           /\ a.lemma \cap a.lemmaToLearn = {}
           /\ a.marks = {var(l) : l \in lits \cup {a.uip}}
           /\ Follows(P, lits \cup {a.uip})

Backjumping(a, d, P) ==
    a.pc = "backjump" =>
       LET rest == ReasonClause(a.thcdb, d, a.rUIP, a.uip) \ {a.uip}
       IN  /\ UipGood(a)
           /\ a.dlToBackjump <= a.model.decisionLvl
           /\ \/ /\ a.rUIP = NoReason /\ a.dlToBackjump = 0
                 /\ Follows(P, {a.uip})
              \/ /\ Backs(a.model, a.thcdb, d, P, a.rUIP, a.uip)
                 /\ \A l \in rest : LitDl(a.model, l) <= a.dlToBackjump
                 /\ \E l \in rest : LitDl(a.model, l) = a.dlToBackjump

\* Outside the analysis no mark is left.
Unmarked(a) == a.pc \notin {"mark", "pop", "shorten"} => a.marks = {}

Answered(a, P) ==
    /\ a.result # 0 => a.pc = "done"
    /\ a.result = 10 => Free(a.model) = {}
    /\ a.result = 20 => ModelsOf(P) = {}

\* What does not depend on where the worker is.
Core(a, d, P) ==
    /\ Counted(a, d)
    /\ ThHeld(a, d) /\ WatchInv(a)
    /\ ModelInv(a.model, a.thcdb, d, P)
    /\ Free(a.model) \subseteq a.heap

Place(a, d, P) ==
    /\ CursorInv(a) /\ Visiting(a, d)
    /\ Conflict(a, P) /\ Marking(a, P) /\ Popped(a, P) /\ Lemma(a, P)
    /\ Shortening(a, P) /\ Backjumping(a, d, P)
    /\ Unmarked(a) /\ Answered(a, P)

WorkerInv(a, d, P) == Typed(a) /\ Core(a, d, P) /\ Place(a, d, P)

\* main reads, and only then lets the workers run.
MainInv ==
    /\ formula \in Seq(Clause) /\ nread \in 0..Len(formula)
    /\ mainPc \in {"read", "join", "exit"}
    /\ mainPc # "read" => nread = Len(formula)
    /\ \A w \in Workers : ad[w].pc = "allocated" <=> mainPc = "read"

IInv ==
    /\ MainInv
    /\ DbInv(db, Read)
    /\ ad = [w \in Workers |-> ad[w]]
    /\ \A w \in Workers : WorkerInv(ad[w], db, Read)

=============================================================================
