----------------------------- MODULE ModelProofs -----------------------------
(***************************************************************************)
(* What the operations on literals and on a model return and preserve,     *)
(* for any number of variables: the lemmas the proofs about Trail and about *)
(* the solver rest on.                                                     *)
(***************************************************************************)
EXTENDS Model, TLAPS, FiniteSetTheorems, SequenceTheorems

(* Sets of numbers *)

\* A set of natural numbers has a smallest element: no initial segment is shorter.
LEMMA HasSmallest ==
    ASSUME NEW S \in SUBSET Nat, S # {}
    PROVE  \E m \in S : \A k \in S : m <= k
<1> DEFINE T == {0..k : k \in S}
<1>1. T \subseteq FiniteSubsetsOf(Nat)
  <2> SUFFICES ASSUME NEW k \in S PROVE 0..k \in FiniteSubsetsOf(Nat)
    OBVIOUS
  <2>1. IsFiniteSet(0..k)
    BY FS_Interval
  <2> QED BY <2>1 DEF FiniteSubsetsOf
<1>2. PICK t \in T : \A u \in T : ~(<<u, t>> \in StrictSubsetOrdering(Nat))
  <2>1. T # {}
    OBVIOUS
  <2>2. IsWellFoundedOn(StrictSubsetOrdering(Nat), FiniteSubsetsOf(Nat))
    BY FS_StrictSubsetOrderingWellFounded
  <2> HIDE DEF T
  <2> QED BY <1>1, <2>1, <2>2, WFMin
<1>3. PICK m \in S : t = 0..m
  OBVIOUS
<1>4. ASSUME NEW k \in S PROVE m <= k
  <2>1. ~(<<0..k, 0..m>> \in StrictSubsetOrdering(Nat))
    BY <1>2, <1>3
  <2>2. ~(0..k \subseteq 0..m /\ 0..k # 0..m)
    BY <2>1 DEF StrictSubsetOrdering
  <2>3. CASE k < m
    <3>1. m \in 0..m /\ m \notin 0..k /\ 0..k \subseteq 0..m
      BY <2>3
    <3> QED BY <3>1, <2>2
  <2> QED BY <2>3
<1> QED BY <1>4

\* A bounded set of them has a largest element.
LEMMA HasLargest ==
    ASSUME NEW n \in Nat, NEW S \in SUBSET (0..n), S # {}
    PROVE  \E m \in S : \A k \in S : k <= m
<1> DEFINE T == {n - k : k \in S}
<1>1. T \in SUBSET Nat /\ T # {}
  <2>1. \A k \in S : k \in Nat /\ k <= n
    OBVIOUS
  <2>2. \A k \in S : n - k \in Nat
    BY <2>1
  <2> QED BY <2>2
<1>2. PICK t \in T : \A u \in T : t <= u
  <2> HIDE DEF T
  <2> QED BY <1>1, HasSmallest
<1>3. PICK m \in S : t = n - m
  OBVIOUS
<1>4. \A k \in S : n - m <= n - k
  BY <1>2, <1>3
<1>5. \A k \in S : k \in Nat
  OBVIOUS
<1>6. \A k \in S : k <= m
  BY <1>4, <1>5
<1> QED BY <1>6

\* A function on some of the numbers up to n is somewhere greatest: nowhere are fewer
\* above.
LEMMA HasGreatest ==
    ASSUME NEW n \in Nat, NEW S \in SUBSET (1..n), S # {}, NEW f \in [1..n -> Nat]
    PROVE  \E v \in S : \A u \in S : f[u] <= f[v]
<1> DEFINE Above(v) == {u \in S : f[u] > f[v]}
           T == {Above(v) : v \in S}
<1>1. T \subseteq FiniteSubsetsOf(1..n)
  <2> SUFFICES ASSUME NEW v \in S PROVE Above(v) \in FiniteSubsetsOf(1..n)
    OBVIOUS
  <2>1. IsFiniteSet(1..n)
    BY FS_Interval
  <2>2. Above(v) \subseteq 1..n
    OBVIOUS
  <2>3. IsFiniteSet(Above(v))
    BY <2>1, <2>2, FS_Subset
  <2> QED BY <2>2, <2>3 DEF FiniteSubsetsOf
<1>2. PICK t \in T : \A u \in T : ~(<<u, t>> \in StrictSubsetOrdering(1..n))
  <2>1. T # {}
    OBVIOUS
  <2>2. IsWellFoundedOn(StrictSubsetOrdering(1..n), FiniteSubsetsOf(1..n))
    BY FS_StrictSubsetOrderingWellFounded
  <2> HIDE DEF T
  <2> QED BY <1>1, <2>1, <2>2, WFMin
<1>3. PICK v \in S : t = Above(v)
  OBVIOUS
<1>4. ASSUME NEW u \in S, f[u] > f[v] PROVE FALSE
  <2>1. Above(u) \subseteq Above(v)
    <3> SUFFICES ASSUME NEW k \in Above(u) PROVE k \in Above(v)
      OBVIOUS
    <3>1. f[k] \in Nat /\ f[u] \in Nat /\ f[v] \in Nat
      OBVIOUS
    <3> QED BY <3>1, <1>4
  <2>2. u \in Above(v) /\ u \notin Above(u)
    BY <1>4
  <2>3. Above(u) \in T /\ Above(u) \in SUBSET (1..n) /\ Above(v) \in SUBSET (1..n)
    OBVIOUS
  <2>4. <<Above(u), Above(v)>> \in StrictSubsetOrdering(1..n)
    <3> HIDE DEF Above, T
    <3> QED BY <2>1, <2>2, <2>3 DEF StrictSubsetOrdering
  <2> QED BY <1>2, <1>3, <2>3, <2>4
<1>5. \A u \in S : f[u] \in Nat /\ f[v] \in Nat
  OBVIOUS
<1> QED BY <1>4, <1>5, SMTT(30)
-----------------------------------------------------------------------------
(* Literals *)

LEMMA LitFacts ==
    ASSUME NEW k \in Lits, NEW l \in Lits
    PROVE  /\ -l \in Lits /\ -l # l /\ -(-l) = l
           /\ l # DlMarker
           /\ var(l) \in Vars /\ var(-l) = var(l)
           /\ var(k) = var(l) <=> k = l \/ k = -l
BY NumVarsAssumption DEF Lits, Vars, var, DlMarker, ZeroLit

\* The arrays indexed by literals (assignment, bDB, ternaryWatches, watches) have
\* 2 * N + 2 places: lit_as_uint gives each literal a place of its own among them.
THEOREM LitAsUintIsAnIndex ==
    /\ \A l \in Lits : LitAsUint(l) \in 2..(2 * N + 1)
    /\ \A k, l \in Lits : LitAsUint(k) = LitAsUint(l) => k = l
<1>1. ASSUME NEW l \in Lits
      PROVE  LitAsUint(l) \in 2..(2 * N + 1)
  BY <1>1, NumVarsAssumption DEF Lits, LitAsUint
<1>2. ASSUME NEW k \in Lits, NEW l \in Lits, LitAsUint(k) = LitAsUint(l)
      PROVE  k = l
  \* The parity of the index is the sign.
  <2>1. CASE k < 0 /\ l < 0
    BY <1>2, <2>1, NumVarsAssumption DEF Lits, LitAsUint
  <2>2. CASE ~(k < 0) /\ ~(l < 0)
    BY <1>2, <2>2, NumVarsAssumption DEF Lits, LitAsUint
  <2>3. CASE k < 0 /\ ~(l < 0)
    BY <1>2, <2>3, NumVarsAssumption DEF Lits, LitAsUint
  <2>4. CASE ~(k < 0) /\ l < 0
    BY <1>2, <2>4, NumVarsAssumption DEF Lits, LitAsUint
  <2> QED  BY <2>1, <2>2, <2>3, <2>4
<1> QED  BY <1>1, <1>2
-----------------------------------------------------------------------------
(* The stack *)

StackElt == Lits \cup {DlMarker}

LEMMA MarkersBelowFinite ==
    ASSUME NEW md \in ModelType, NEW i \in Nat
    PROVE  /\ IsFiniteSet(MarkersBelow(md, i))
           /\ Cardinality(MarkersBelow(md, i)) \in Nat
<1>1. IsFiniteSet(1..(i - 1))
  BY FS_Interval
<1>2. MarkersBelow(md, i) \in SUBSET (1..(i - 1))
  BY DEF MarkersBelow
<1>3. IsFiniteSet(MarkersBelow(md, i))
  BY <1>1, <1>2, FS_Subset
<1> QED  BY <1>3, FS_CardinalityType

\* Going up by one place counts that place if it holds a marker.
LEMMA MarkersBelowNext ==
    ASSUME NEW md \in ModelType, NEW i \in 1..Len(md.stack)
    PROVE  Cardinality(MarkersBelow(md, i + 1))
             = Cardinality(MarkersBelow(md, i))
               + (IF md.stack[i] = DlMarker THEN 1 ELSE 0)
<1>0. i \in Nat /\ i >= 1
  BY DEF ModelType
<1>1. IsFiniteSet(MarkersBelow(md, i)) /\ Cardinality(MarkersBelow(md, i)) \in Nat
  BY <1>0, MarkersBelowFinite
<1>2. CASE md.stack[i] = DlMarker
  <2>1. MarkersBelow(md, i + 1) = MarkersBelow(md, i) \cup {i}
    BY <1>0, <1>2 DEF MarkersBelow
  <2>2. i \notin MarkersBelow(md, i)
    BY <1>0 DEF MarkersBelow
  <2> QED  BY <1>1, <1>2, <2>1, <2>2, FS_AddElement
<1>3. CASE md.stack[i] # DlMarker
  <2>1. MarkersBelow(md, i + 1) = MarkersBelow(md, i)
    BY <1>0, <1>3 DEF MarkersBelow
  <2> QED  BY <1>1, <1>3, <2>1
<1> QED  BY <1>2, <1>3

\* Below a place where two stacks agree, they have the same markers.
LEMMA MarkersBelowSame ==
    ASSUME NEW md \in ModelType, NEW new \in ModelType, NEW i \in Nat,
           \A j \in 1..(i - 1) : new.stack[j] = md.stack[j]
    PROVE  MarkersBelow(new, i) = MarkersBelow(md, i)
BY DEF MarkersBelow

\* A literal of the stack is assigned, so an undefined literal is of another variable.
LEMMA StackLits ==
    ASSUME NEW md \in ModelType, StackMatchesValues(md),
           NEW i \in 1..Len(md.stack), md.stack[i] # DlMarker
    PROVE  /\ md.stack[i] \in Lits /\ var(md.stack[i]) \in Vars
           /\ IsTrue(md, md.stack[i]) /\ IsFalse(md, -md.stack[i])
           /\ LitHeight(md, md.stack[i]) = i - 1
           /\ \A l \in Lits : IsUndef(md, l) => var(l) # var(md.stack[i])
<1>1. md.stack[i] \in Lits
  BY ElementOfSeq DEF ModelType
<1>2. IsTrue(md, md.stack[i]) /\ LitHeight(md, md.stack[i]) = i - 1
  BY DEF StackMatchesValues
<1>3. IsFalse(md, -md.stack[i])
  BY <1>1, <1>2 DEF StackMatchesValues
<1>4. ASSUME NEW l \in Lits, IsUndef(md, l)
      PROVE  var(l) # var(md.stack[i])
  BY <1>1, <1>2, <1>3, <1>4, LitFacts DEF IsTrue, IsFalse, IsUndef
<1> QED  BY <1>1, <1>2, <1>3, <1>4, LitFacts
-----------------------------------------------------------------------------
(* model_set_true_w_reason *)

LEMMA SetTrueFields ==
    ASSUME NEW md \in ModelType, NEW l \in Lits, NEW r \in Reason,
           NEW new, new = SetTrueWithReason(md, l, r)
    PROVE  /\ new \in ModelType
           /\ Len(new.stack) = Len(md.stack) + 1
           /\ new.stack[Len(md.stack) + 1] = l
           /\ \A i \in 1..Len(md.stack) : new.stack[i] = md.stack[i]
           /\ new.value[l] = "true" /\ new.value[-l] = "false"
           /\ \A k \in Lits \ {l, -l} : new.value[k] = md.value[k]
           /\ new.reason[var(l)] = r
           /\ new.level[var(l)] = md.decisionLvl
           /\ new.height[var(l)] = Len(md.stack)
           /\ \A v \in Vars \ {var(l)} : /\ new.reason[v] = md.reason[v]
                                         /\ new.level[v] = md.level[v]
                                         /\ new.height[v] = md.height[v]
           /\ new.decisionLvl = md.decisionLvl
           /\ new.last = md.last
<1>1. /\ l \in StackElt /\ md.stack \in Seq(StackElt) /\ Len(md.stack) \in Nat
      /\ var(l) \in Vars /\ -l \in Lits /\ -l # l
  BY LitFacts DEF ModelType, StackElt
<1>2. /\ new.stack = Append(md.stack, l)
      /\ new.value = [md.value EXCEPT ![l] = "true", ![-l] = "false"]
      /\ new.reason = [md.reason EXCEPT ![var(l)] = r]
      /\ new.level = [md.level EXCEPT ![var(l)] = md.decisionLvl]
      /\ new.height = [md.height EXCEPT ![var(l)] = Len(md.stack)]
      /\ new.phase = [md.phase EXCEPT ![var(l)] = LitIsPositive(l)]
      /\ new.decisionLvl = md.decisionLvl
      /\ new.last = md.last
  BY DEF SetTrueWithReason, ModelType
<1>3. LitIsPositive(l) \in BOOLEAN
  BY DEF LitIsPositive
<1>4. new \in ModelType
  <2> DEFINE m1 == [md EXCEPT !.stack = Append(@, l)]
             m2 == [m1 EXCEPT !.value = [@ EXCEPT ![l] = "true", ![-l] = "false"]]
             m3 == [m2 EXCEPT !.reason[var(l)] = r]
             m4 == [m3 EXCEPT !.level[var(l)] = md.decisionLvl]
             m5 == [m4 EXCEPT !.height[var(l)] = Len(md.stack)]
             m6 == [m5 EXCEPT !.phase[var(l)] = LitIsPositive(l)]
  <2>1. m1 \in ModelType
    BY <1>1, AppendProperties DEF ModelType, StackElt
  <2>2. m2 \in ModelType
    <3> HIDE DEF m1
    <3> QED  BY <2>1, <1>1 DEF ModelType, Values
  <2>3. m3 \in ModelType
    <3> HIDE DEF m2
    <3> QED  BY <2>2, <1>1 DEF ModelType
  <2>4. m4 \in ModelType
    <3> HIDE DEF m3
    <3> QED  BY <2>3, <1>1 DEF ModelType
  <2>5. m5 \in ModelType
    <3> HIDE DEF m4
    <3> QED  BY <2>4, <1>1 DEF ModelType
  <2>6. m6 \in ModelType
    <3> HIDE DEF m5
    <3> QED  BY <2>5, <1>1, <1>3 DEF ModelType
  <2> QED  BY <2>6 DEF SetTrueWithReason
<1>5. /\ new.stack \in Seq(StackElt)
      /\ Len(new.stack) = Len(md.stack) + 1
      /\ new.stack[Len(md.stack) + 1] = l
      /\ \A i \in 1..Len(md.stack) : new.stack[i] = md.stack[i]
  BY <1>1, <1>2, AppendProperties
<1>7. /\ new.value[l] = "true" /\ new.value[-l] = "false"
      /\ \A k \in Lits \ {l, -l} : new.value[k] = md.value[k]
  BY <1>1, <1>2 DEF ModelType
<1>8. /\ new.reason[var(l)] = r
      /\ new.level[var(l)] = md.decisionLvl
      /\ new.height[var(l)] = Len(md.stack)
      /\ \A v \in Vars \ {var(l)} : /\ new.reason[v] = md.reason[v]
                                    /\ new.level[v] = md.level[v]
                                    /\ new.height[v] = md.height[v]
  BY <1>1, <1>2 DEF ModelType
<1> QED  BY <1>2, <1>4, <1>5, <1>7, <1>8

\* An undefined literal is set true: by decision exactly when a marker is on the top.
LEMMA SetTrueKeepsTrail ==
    ASSUME NEW md \in ModelType, NEW l \in Lits, NEW r \in Reason,
           TrailConsistent(md), IsUndef(md, l),
           (r.size = 1 /\ md.decisionLvl > 0)
              <=> (Len(md.stack) > 0 /\ Top(md) = DlMarker)
    PROVE  TrailConsistent(SetTrueWithReason(md, l, r))
<1> DEFINE new == SetTrueWithReason(md, l, r)
           top == Len(md.stack) + 1
<1>1. /\ new \in ModelType
      /\ Len(new.stack) = top /\ new.stack[top] = l
      /\ \A i \in 1..Len(md.stack) : new.stack[i] = md.stack[i]
      /\ new.value[l] = "true" /\ new.value[-l] = "false"
      /\ \A k \in Lits \ {l, -l} : new.value[k] = md.value[k]
      /\ new.reason[var(l)] = r
      /\ new.level[var(l)] = md.decisionLvl
      /\ new.height[var(l)] = Len(md.stack)
      /\ \A v \in Vars \ {var(l)} : /\ new.reason[v] = md.reason[v]
                                    /\ new.level[v] = md.level[v]
                                    /\ new.height[v] = md.height[v]
      /\ new.decisionLvl = md.decisionLvl
  BY SetTrueFields
<1> HIDE DEF new
<1>2. /\ Len(md.stack) \in Nat /\ top \in Nat /\ 1..top = 1..Len(md.stack) \cup {top}
      /\ l # DlMarker /\ -l # l /\ -l \in Lits /\ -(-l) = l /\ var(-l) = var(l)
      /\ var(l) \in Vars
  BY LitFacts DEF ModelType
<1>3. StackMatchesValues(md) /\ LevelsCountMarkers(md) /\ DecisionsStandOnMarkers(md)
  BY DEF TrailConsistent
\* What is below keeps its value, its height, its level and its reason.
<1>4. ASSUME NEW i \in 1..Len(md.stack), md.stack[i] # DlMarker
      PROVE  /\ md.stack[i] \in Lits \ {l, -l}
             /\ var(md.stack[i]) \in Vars \ {var(l)}
             /\ new.stack[i] = md.stack[i]
  BY <1>1, <1>2, <1>3, <1>4, StackLits
<1>5. IsUndef(md, -l)
  \* A true literal is on the stack; a false one is the negation of a true one.
  <2>1. ~IsTrue(md, -l)
    BY <1>2, <1>3 DEF StackMatchesValues, IsTrue, IsFalse, IsUndef
  <2>2. ~IsFalse(md, -l)
    BY <1>2, <1>3 DEF StackMatchesValues, IsTrue, IsFalse, IsUndef
  <2> QED  BY <1>2, <2>1, <2>2 DEF ModelType, Values, IsTrue, IsFalse, IsUndef
<1>6. StackMatchesValues(new)
  <2>1. ASSUME NEW k \in Lits
        PROVE  IsTrue(new, k) <=> IsFalse(new, -k)
    <3>1. CASE k = l
      BY <3>1, <1>1 DEF IsTrue, IsFalse
    <3>2. CASE k = -l
      BY <3>2, <1>1, <1>2 DEF IsTrue, IsFalse
    <3>3. CASE k \notin {l, -l}
      <4>1. -k \in Lits \ {l, -l}
        BY <3>3, <1>2, LitFacts
      <4> QED  BY <3>3, <4>1, <1>1, <1>3 DEF StackMatchesValues, IsTrue, IsFalse
    <3> QED  BY <3>1, <3>2, <3>3
  <2>2. ASSUME NEW i \in 1..Len(new.stack), new.stack[i] # DlMarker
        PROVE  IsTrue(new, new.stack[i]) /\ LitHeight(new, new.stack[i]) = i - 1
    <3>1. CASE i = top
      BY <3>1, <1>1, <1>2 DEF IsTrue, LitHeight
    <3>2. CASE i \in 1..Len(md.stack)
      BY <3>2, <2>2, <1>1, <1>3, <1>4 DEF StackMatchesValues, IsTrue, LitHeight
    <3> QED  BY <3>1, <3>2, <1>1, <1>2
  <2>3. ASSUME NEW k \in Lits, IsTrue(new, k)
        PROVE  LitHeight(new, k) < Len(new.stack) /\ new.stack[LitHeight(new, k) + 1] = k
    <3>1. CASE k = l
      BY <3>1, <1>1, <1>2 DEF LitHeight
    <3>2. CASE k = -l
      BY <3>2, <2>3, <1>1 DEF IsTrue
    <3>3. CASE k \notin {l, -l}
      <4>1. IsTrue(md, k)
        BY <3>3, <2>3, <1>1 DEF IsTrue
      <4>2. /\ LitHeight(md, k) < Len(md.stack)
            /\ md.stack[LitHeight(md, k) + 1] = k
        BY <4>1, <1>3 DEF StackMatchesValues
      <4>3. var(k) \in Vars \ {var(l)} /\ LitHeight(md, k) \in Nat
        BY <3>3, LitFacts DEF LitHeight, ModelType
      <4>4. LitHeight(new, k) = LitHeight(md, k)
        BY <4>3, <1>1 DEF LitHeight
      <4>5. LitHeight(md, k) + 1 \in 1..Len(md.stack)
        BY <4>2, <4>3, <1>2
      <4> QED  BY <4>2, <4>3, <4>4, <4>5, <1>1, <1>2
    <3> QED  BY <3>1, <3>2, <3>3
  <2> QED  BY <2>1, <2>2, <2>3 DEF StackMatchesValues
<1>7. ASSUME NEW i \in 1..top
      PROVE  MarkersBelow(new, i) = MarkersBelow(md, i)
  <2>1. i \in Nat /\ \A j \in 1..(i - 1) : j \in 1..Len(md.stack)
    BY <1>2
  <2>2. \A j \in 1..(i - 1) : new.stack[j] = md.stack[j]
    BY <2>1, <1>1
  <2>3. new \in ModelType
    BY <1>1
  <2> QED  BY <2>1, <2>2, <2>3, MarkersBelowSame
<1>8. LevelsCountMarkers(new)
  <2>1. new.decisionLvl = Cardinality(MarkersBelow(new, Len(new.stack) + 1))
    <3>1. Cardinality(MarkersBelow(new, top + 1)) = Cardinality(MarkersBelow(new, top))
      <4>1. Cardinality(MarkersBelow(new, top)) \in Nat
        BY <1>1, <1>2, MarkersBelowFinite
      <4> QED  BY <4>1, <1>1, <1>2, MarkersBelowNext
    <3> QED  BY <3>1, <1>1, <1>2, <1>3, <1>7 DEF LevelsCountMarkers
  <2>2. ASSUME NEW i \in 1..Len(new.stack), new.stack[i] # DlMarker
        PROVE  LitDl(new, new.stack[i]) = Cardinality(MarkersBelow(new, i))
    <3>1. CASE i = top
      BY <3>1, <1>1, <1>2, <1>3, <1>7 DEF LevelsCountMarkers, LitDl
    <3>2. CASE i \in 1..Len(md.stack)
      BY <3>2, <2>2, <1>1, <1>2, <1>3, <1>4, <1>7 DEF LevelsCountMarkers, LitDl
    <3> QED  BY <3>1, <3>2, <1>1, <1>2
  <2> QED  BY <2>1, <2>2 DEF LevelsCountMarkers
<1>9. DecisionsStandOnMarkers(new)
  <2> SUFFICES ASSUME NEW i \in 1..Len(new.stack), new.stack[i] # DlMarker
               PROVE  LitIsDecision(new, new.stack[i])
                        <=> i > 1 /\ new.stack[i - 1] = DlMarker
    BY DEF DecisionsStandOnMarkers
  <2>1. CASE i = top
    <3>1. LitIsDecision(new, l) <=> r.size = 1 /\ md.decisionLvl > 0
      BY <1>1 DEF LitIsDecision, ReasonOfLit, LitDl
    <3>2. (Len(md.stack) > 0 /\ Top(md) = DlMarker)
            <=> (i > 1 /\ new.stack[i - 1] = DlMarker)
      BY <2>1, <1>1, <1>2 DEF Top
    <3> QED  BY <2>1, <3>1, <3>2, <1>1
  <2>2. CASE i \in 1..Len(md.stack)
    <3>1. LitIsDecision(new, new.stack[i]) <=> LitIsDecision(md, md.stack[i])
      BY <2>2, <1>1, <1>4 DEF LitIsDecision, ReasonOfLit, LitDl
    <3>2. i > 1 => new.stack[i - 1] = md.stack[i - 1]
      BY <2>2, <1>1, <1>2
    <3> QED  BY <2>2, <3>1, <3>2, <1>1, <1>3 DEF DecisionsStandOnMarkers
  <2> QED  BY <2>1, <2>2, <1>1, <1>2
<1> QED  BY <1>6, <1>8, <1>9 DEF TrailConsistent, new
-----------------------------------------------------------------------------
(* model_set_true_decision: a marker, and on it the decision. *)

PushMarker(md) ==
    [md EXCEPT !.decisionLvl = @ + 1,
                !.last = [k \in Kinds |-> md.last[k] + 1],
                !.stack = Append(@, DlMarker)]

LEMMA PushMarkerFields ==
    ASSUME NEW md \in ModelType,
           NEW new, new = PushMarker(md)
    PROVE  /\ new \in ModelType
           /\ Len(new.stack) = Len(md.stack) + 1
           /\ new.stack[Len(md.stack) + 1] = DlMarker
           /\ \A i \in 1..Len(md.stack) : new.stack[i] = md.stack[i]
           /\ new.value = md.value /\ new.reason = md.reason
           /\ new.level = md.level /\ new.height = md.height
           /\ new.decisionLvl = md.decisionLvl + 1
           /\ \A k \in Kinds : new.last[k] = md.last[k] + 1
<1>1. DlMarker \in StackElt /\ md.stack \in Seq(StackElt)
  BY DEF ModelType, StackElt
<1>2. [k \in Kinds |-> md.last[k] + 1] \in [Kinds -> Nat \cup {-1}]
  <2>1. ASSUME NEW k \in Kinds
        PROVE  md.last[k] + 1 \in Nat \cup {-1}
    <3>1. md.last[k] \in Nat \cup {-1}
      BY DEF ModelType
    <3> QED  BY <3>1
  <2> QED  BY <2>1
<1>3. Append(md.stack, DlMarker) \in Seq(StackElt)
  BY <1>1, AppendProperties
<1>4. new \in ModelType
  <2> DEFINE cursors == [k \in Kinds |-> md.last[k] + 1]
             stack == Append(md.stack, DlMarker)
             m1 == [md EXCEPT !.decisionLvl = @ + 1]
             m2 == [m1 EXCEPT !.last = cursors]
             m3 == [m2 EXCEPT !.stack = stack]
  <2>1. m1 \in ModelType
    <3>1. md.decisionLvl + 1 \in Nat
      BY DEF ModelType
    <3> QED  BY <3>1 DEF ModelType
  <2>2. m2 \in ModelType
    <3> HIDE DEF m1, cursors
    <3>1. cursors \in [Kinds -> Nat \cup {-1}]
      BY <1>2 DEF cursors
    <3> QED  BY <2>1, <3>1 DEF ModelType
  <2>3. m3 \in ModelType
    <3> HIDE DEF m2, stack
    <3>1. stack \in Seq(StackElt)
      BY <1>3 DEF stack
    <3> QED  BY <2>2, <3>1 DEF ModelType, StackElt
  <2>4. new = [md EXCEPT !.decisionLvl = @ + 1, !.last = cursors, !.stack = stack]
    BY <1>1 DEF PushMarker, ModelType
  <2> QED  BY <2>3, <2>4
<1>5. /\ new.stack = Append(md.stack, DlMarker)
      /\ new.value = md.value /\ new.reason = md.reason
      /\ new.level = md.level /\ new.height = md.height
      /\ new.decisionLvl = md.decisionLvl + 1
      /\ \A k \in Kinds : new.last[k] = md.last[k] + 1
  BY DEF PushMarker, ModelType
<1>6. /\ Len(new.stack) = Len(md.stack) + 1
      /\ new.stack[Len(md.stack) + 1] = DlMarker
      /\ \A i \in 1..Len(md.stack) : new.stack[i] = md.stack[i]
  BY <1>1, <1>5, AppendProperties
<1> QED  BY <1>4, <1>5, <1>6

LEMMA PushMarkerKeepsTrail ==
    ASSUME NEW md \in ModelType, TrailConsistent(md)
    PROVE  TrailConsistent(PushMarker(md))
<1> DEFINE new == PushMarker(md)
           top == Len(md.stack) + 1
<1>1. /\ new \in ModelType
      /\ Len(new.stack) = top /\ new.stack[top] = DlMarker
      /\ \A i \in 1..Len(md.stack) : new.stack[i] = md.stack[i]
      /\ new.value = md.value /\ new.reason = md.reason
      /\ new.level = md.level /\ new.height = md.height
      /\ new.decisionLvl = md.decisionLvl + 1
  BY PushMarkerFields
<1> HIDE DEF new
<1>2. /\ Len(md.stack) \in Nat /\ top \in Nat /\ 1..top = 1..Len(md.stack) \cup {top}
      /\ md.decisionLvl \in Nat
  BY DEF ModelType
<1>3. StackMatchesValues(md) /\ LevelsCountMarkers(md) /\ DecisionsStandOnMarkers(md)
  BY DEF TrailConsistent
<1>4. ASSUME NEW i \in 1..Len(new.stack), new.stack[i] # DlMarker
      PROVE  i \in 1..Len(md.stack) /\ new.stack[i] = md.stack[i]
  BY <1>1, <1>2, <1>4
<1>5. StackMatchesValues(new)
  <2>1. \A k \in Lits : IsTrue(new, k) <=> IsFalse(new, -k)
    BY <1>1, <1>3 DEF StackMatchesValues, IsTrue, IsFalse
  <2>2. ASSUME NEW i \in 1..Len(new.stack), new.stack[i] # DlMarker
        PROVE  IsTrue(new, new.stack[i]) /\ LitHeight(new, new.stack[i]) = i - 1
    BY <2>2, <1>1, <1>3, <1>4 DEF StackMatchesValues, IsTrue, LitHeight
  <2>3. ASSUME NEW k \in Lits, IsTrue(new, k)
        PROVE  LitHeight(new, k) < Len(new.stack) /\ new.stack[LitHeight(new, k) + 1] = k
    <3>1. IsTrue(md, k) /\ LitHeight(new, k) = LitHeight(md, k)
      BY <2>3, <1>1 DEF IsTrue, LitHeight
    <3>2. LitHeight(md, k) < Len(md.stack) /\ md.stack[LitHeight(md, k) + 1] = k
      BY <3>1, <1>3 DEF StackMatchesValues
    <3>3. LitHeight(md, k) \in Nat
      BY LitFacts DEF LitHeight, ModelType
    <3>4. LitHeight(md, k) + 1 \in 1..Len(md.stack)
      BY <3>2, <3>3, <1>2
    <3> QED  BY <3>1, <3>2, <3>3, <3>4, <1>1, <1>2
  <2> QED  BY <2>1, <2>2, <2>3 DEF StackMatchesValues
<1>6. ASSUME NEW i \in 1..top
      PROVE  MarkersBelow(new, i) = MarkersBelow(md, i)
  <2>1. i \in Nat /\ \A j \in 1..(i - 1) : j \in 1..Len(md.stack)
    BY <1>2
  <2>2. \A j \in 1..(i - 1) : new.stack[j] = md.stack[j]
    BY <2>1, <1>1
  <2>3. new \in ModelType
    BY <1>1
  <2> QED  BY <2>1, <2>2, <2>3, MarkersBelowSame
<1>7. LevelsCountMarkers(new)
  <2>1. new.decisionLvl = Cardinality(MarkersBelow(new, Len(new.stack) + 1))
    <3>1. Cardinality(MarkersBelow(new, top + 1)) = Cardinality(MarkersBelow(new, top)) + 1
      BY <1>1, <1>2, MarkersBelowNext
    <3> QED  BY <3>1, <1>1, <1>2, <1>3, <1>6 DEF LevelsCountMarkers
  <2>2. ASSUME NEW i \in 1..Len(new.stack), new.stack[i] # DlMarker
        PROVE  LitDl(new, new.stack[i]) = Cardinality(MarkersBelow(new, i))
    BY <2>2, <1>1, <1>2, <1>3, <1>4, <1>6 DEF LevelsCountMarkers, LitDl
  <2> QED  BY <2>1, <2>2 DEF LevelsCountMarkers
<1>8. DecisionsStandOnMarkers(new)
  <2> SUFFICES ASSUME NEW i \in 1..Len(new.stack), new.stack[i] # DlMarker
               PROVE  LitIsDecision(new, new.stack[i])
                        <=> i > 1 /\ new.stack[i - 1] = DlMarker
    BY DEF DecisionsStandOnMarkers
  <2>1. LitIsDecision(new, new.stack[i]) <=> LitIsDecision(md, md.stack[i])
    BY <1>1, <1>4 DEF LitIsDecision, ReasonOfLit, LitDl
  <2>2. i > 1 => new.stack[i - 1] = md.stack[i - 1]
    BY <1>1, <1>2, <1>4
  <2> QED  BY <2>1, <2>2, <1>3, <1>4 DEF DecisionsStandOnMarkers
<1> QED  BY <1>5, <1>7, <1>8 DEF TrailConsistent, new

\* A decision in a model whose cursors may be anywhere.
LEMMA DecisionKeepsTrail ==
    ASSUME NEW md \in ModelType, NEW l \in Lits,
           TrailConsistent(md), IsUndef(md, l),
           NEW new, new = SetTrueDecision(md, l)
    PROVE  /\ new \in ModelType
           /\ TrailConsistent(new)
           /\ Len(new.stack) = Len(md.stack) + 2
           /\ new.stack[Len(md.stack) + 1] = DlMarker
           /\ new.stack[Len(md.stack) + 2] = l
           /\ \A i \in 1..Len(md.stack) : new.stack[i] = md.stack[i]
           /\ \A k \in Lits \ {l, -l} : new.value[k] = md.value[k]
           /\ \A v \in Vars \ {var(l)} : new.level[v] = md.level[v]
           /\ \A k \in Kinds : new.last[k] = md.last[k] + 1
<1> DEFINE pushed == PushMarker(md)
<1>1. SetTrueDecision(md, l) = SetTrueWithReason(pushed, l, NoReason)
  BY DEF SetTrueDecision, PushMarker
<1>2. NoReason \in Reason /\ NoReason.size = 1
  BY DEF NoReason, Reason
<1>3. Len(md.stack) \in Nat /\ md.decisionLvl \in Nat
  BY DEF ModelType
<1>4. /\ pushed \in ModelType
      /\ Len(pushed.stack) = Len(md.stack) + 1
      /\ pushed.stack[Len(md.stack) + 1] = DlMarker
      /\ \A i \in 1..Len(md.stack) : pushed.stack[i] = md.stack[i]
      /\ pushed.value = md.value /\ pushed.level = md.level
      /\ pushed.decisionLvl = md.decisionLvl + 1
      /\ \A k \in Kinds : pushed.last[k] = md.last[k] + 1
  BY PushMarkerFields
<1>5. TrailConsistent(pushed)
  BY PushMarkerKeepsTrail
<1> HIDE DEF pushed
<1>6. (NoReason.size = 1 /\ pushed.decisionLvl > 0)
        <=> (Len(pushed.stack) > 0 /\ Top(pushed) = DlMarker)
  BY <1>2, <1>3, <1>4 DEF Top
<1>7. IsUndef(pushed, l)
  BY <1>4 DEF IsUndef
<1>8. TrailConsistent(SetTrueWithReason(pushed, l, NoReason))
  BY <1>2, <1>4, <1>5, <1>6, <1>7, SetTrueKeepsTrail
<1>9. new = SetTrueWithReason(pushed, l, NoReason)
  BY <1>1
<1>10. /\ new \in ModelType
       /\ Len(new.stack) = Len(pushed.stack) + 1
       /\ new.stack[Len(pushed.stack) + 1] = l
       /\ \A i \in 1..Len(pushed.stack) : new.stack[i] = pushed.stack[i]
       /\ \A k \in Lits \ {l, -l} : new.value[k] = pushed.value[k]
       /\ \A v \in Vars \ {var(l)} : new.level[v] = pushed.level[v]
       /\ new.last = pushed.last
  <2>1. pushed \in ModelType /\ NoReason \in Reason
    BY <1>2, <1>4
  <2>2. /\ new \in ModelType
        /\ Len(new.stack) = Len(pushed.stack) + 1
        /\ new.stack[Len(pushed.stack) + 1] = l
        /\ \A i \in 1..Len(pushed.stack) : new.stack[i] = pushed.stack[i]
    BY <2>1, <1>9, SetTrueFields, SMTT(30)
  <2>3. /\ \A k \in Lits \ {l, -l} : new.value[k] = pushed.value[k]
        /\ \A v \in Vars \ {var(l)} : new.level[v] = pushed.level[v]
        /\ new.last = pushed.last
    BY <2>1, <1>9, SetTrueFields, SMTT(30)
  <2> QED  BY <2>2, <2>3
<1>11. /\ Len(new.stack) = Len(md.stack) + 2
       /\ new.stack[Len(md.stack) + 1] = DlMarker
       /\ new.stack[Len(md.stack) + 2] = l
       /\ \A i \in 1..Len(md.stack) : new.stack[i] = md.stack[i]
  <2>1. /\ Len(new.stack) = Len(md.stack) + 2
        /\ Len(pushed.stack) + 1 = Len(md.stack) + 2
    BY <1>3, <1>4, <1>10
  <2>2. new.stack[Len(md.stack) + 2] = l
    BY <2>1, <1>10
  <2>3. ASSUME NEW i \in 1..Len(pushed.stack)
        PROVE  new.stack[i] = pushed.stack[i]
    BY <1>10
  <2>4. 1..Len(pushed.stack) = 1..Len(md.stack) \cup {Len(md.stack) + 1}
    BY <1>3, <1>4
  <2>5. new.stack[Len(md.stack) + 1] = DlMarker
    BY <2>3, <2>4, <1>4
  <2>6. ASSUME NEW i \in 1..Len(md.stack)
        PROVE  new.stack[i] = md.stack[i]
    BY <2>3, <2>4, <1>4
  <2> QED  BY <2>1, <2>2, <2>5, <2>6
<1>12. TrailConsistent(new)
  BY <1>8, <1>9
<1>13. /\ \A k \in Lits \ {l, -l} : new.value[k] = md.value[k]
       /\ \A v \in Vars \ {var(l)} : new.level[v] = md.level[v]
  BY <1>4, <1>10
<1>14. \A k \in Kinds : new.last[k] = md.last[k] + 1
  BY <1>4, <1>10
<1> QED  BY <1>10, <1>11, <1>12, <1>13, <1>14, Zenon
-----------------------------------------------------------------------------
(* model_pop_and_set_undef *)

LEMMA PopStack ==
    ASSUME NEW md \in ModelType, Len(md.stack) > 0,
           NEW rest, rest = SubSeq(md.stack, 1, Len(md.stack) - 1)
    PROVE  /\ rest \in Seq(StackElt)
           /\ Len(rest) = Len(md.stack) - 1
           /\ \A i \in 1..(Len(md.stack) - 1) : rest[i] = md.stack[i]
<1>1. md.stack \in Seq(StackElt) /\ Len(md.stack) \in Nat
  BY DEF ModelType, StackElt
<1>2. \A i \in 1..(Len(md.stack) - 1) : md.stack[i] \in StackElt
  BY <1>1, ElementOfSeq
<1>3. 1 \in Int /\ Len(md.stack) - 1 \in Int
  BY <1>1
<1> QED  BY <1>1, <1>2, <1>3, SubSeqProperties

LEMMA PopMarkerFields ==
    ASSUME NEW md \in ModelType, Len(md.stack) > 0, Top(md) = DlMarker,
           md.decisionLvl > 0,
           NEW new, new = PopAndSetUndef(md)
    PROVE  /\ new \in ModelType
           /\ new.stack = SubSeq(md.stack, 1, Len(md.stack) - 1)
           /\ new.value = md.value /\ new.reason = md.reason
           /\ new.level = md.level /\ new.height = md.height
           /\ new.decisionLvl = md.decisionLvl - 1
           /\ \A k \in Kinds : new.last[k] = Len(md.stack) - 2
<1> DEFINE rest == SubSeq(md.stack, 1, Len(md.stack) - 1)
           cursors == [k \in Kinds |-> Len(md.stack) - 2]
           m1 == [md EXCEPT !.stack = rest]
           m2 == [m1 EXCEPT !.decisionLvl = @ - 1]
           m3 == [m2 EXCEPT !.last = cursors]
<1>1. rest \in Seq(StackElt)
  BY PopStack
<1>2. /\ cursors \in [Kinds -> Nat \cup {-1}]
      /\ \A k \in Kinds : cursors[k] = Len(md.stack) - 2
  <2>1. Len(md.stack) \in Nat
    BY DEF ModelType
  <2>2. ASSUME NEW n \in Nat, n > 0
        PROVE  n - 2 \in Nat \cup {-1}
    BY <2>2
  <2> QED  BY <2>1, <2>2
<1>3. md.decisionLvl - 1 \in Nat
  BY DEF ModelType
<1>4. m1 \in ModelType /\ m1.decisionLvl = md.decisionLvl
  <2> HIDE DEF rest
  <2> QED  BY <1>1 DEF ModelType, StackElt
<1>5. m2 \in ModelType
  <2> HIDE DEF m1
  <2> QED  BY <1>3, <1>4 DEF ModelType
<1>6. m3 \in ModelType
  <2> HIDE DEF m2, cursors
  <2> QED  BY <1>2, <1>5 DEF ModelType
<1>7. new = m3
  BY DEF PopAndSetUndef, Top
<1>8. /\ m3.stack = rest
      /\ m3.value = md.value /\ m3.reason = md.reason
      /\ m3.level = md.level /\ m3.height = md.height
      /\ m3.decisionLvl = md.decisionLvl - 1
      /\ m3.last = cursors
  <2> HIDE DEF rest, cursors
  <2> QED  BY DEF ModelType
<1> QED  BY <1>2, <1>6, <1>7, <1>8

LEMMA PopLitFields ==
    ASSUME NEW md \in ModelType, Len(md.stack) > 0, Top(md) # DlMarker,
           NEW new, new = PopAndSetUndef(md)
    PROVE  /\ new \in ModelType
           /\ new.stack = SubSeq(md.stack, 1, Len(md.stack) - 1)
           /\ new.value[Top(md)] = "undef" /\ new.value[-Top(md)] = "undef"
           /\ \A k \in Lits \ {Top(md), -Top(md)} : new.value[k] = md.value[k]
           /\ new.reason = md.reason
           /\ new.level = md.level /\ new.height = md.height
           /\ new.decisionLvl = md.decisionLvl
           /\ new.last = md.last
<1> DEFINE rest == SubSeq(md.stack, 1, Len(md.stack) - 1)
           values == [md.value EXCEPT ![Top(md)] = "undef", ![-Top(md)] = "undef"]
           m1 == [md EXCEPT !.stack = rest]
           m2 == [m1 EXCEPT !.value = values]
<1>1. rest \in Seq(StackElt)
  BY PopStack
<1>2. Top(md) \in Lits /\ -Top(md) \in Lits
  BY ElementOfSeq, LitFacts DEF ModelType, Top
<1>3. /\ values \in [Lits -> Values]
      /\ values[Top(md)] = "undef" /\ values[-Top(md)] = "undef"
      /\ \A k \in Lits \ {Top(md), -Top(md)} : values[k] = md.value[k]
  BY <1>2 DEF ModelType, Values
<1>4. m1 \in ModelType /\ m1.value = md.value
  <2> HIDE DEF rest
  <2> QED  BY <1>1 DEF ModelType, StackElt
<1>5. m2 \in ModelType
  <2> HIDE DEF m1, values
  <2> QED  BY <1>3, <1>4 DEF ModelType
<1>6. new = m2
  BY <1>4 DEF PopAndSetUndef
<1>7. /\ m2.stack = rest /\ m2.value = values /\ m2.reason = md.reason
      /\ m2.level = md.level /\ m2.height = md.height
      /\ m2.decisionLvl = md.decisionLvl
      /\ m2.last = md.last
  <2> HIDE DEF rest, values
  <2> QED  BY DEF ModelType
<1> QED  BY <1>3, <1>5, <1>6, <1>7

\* Above level 0 there is something to pop.
LEMMA AboveLevelZero ==
    ASSUME NEW md \in ModelType, LevelsCountMarkers(md), md.decisionLvl > 0
    PROVE  Len(md.stack) \in Nat /\ Len(md.stack) > 0
<1>1. Len(md.stack) \in Nat
  BY DEF ModelType
<1>2. Len(md.stack) # 0
  <2>1. MarkersBelow(md, 1) = {}
    BY DEF MarkersBelow
  <2>2. Cardinality(MarkersBelow(md, 1)) = 0
    BY <2>1, FS_EmptySet
  <2> QED  BY <2>2 DEF LevelsCountMarkers
<1> QED  BY <1>1, <1>2

\* Below the top nothing changes but the marks of level and value of the top itself.
LEMMA PopKeepsTrail ==
    ASSUME NEW md \in ModelType, TrailConsistent(md), md.decisionLvl > 0
    PROVE  PopAndSetUndef(md) \in ModelType /\ TrailConsistent(PopAndSetUndef(md))
<1> DEFINE new == PopAndSetUndef(md)
           len == Len(md.stack)
<1>1. StackMatchesValues(md) /\ LevelsCountMarkers(md) /\ DecisionsStandOnMarkers(md)
  BY DEF TrailConsistent
<1>2. len \in Nat /\ len > 0 /\ len \in 1..len /\ 1..(len - 1) \subseteq 1..len
  BY <1>1, AboveLevelZero
<1>3. /\ new \in ModelType
      /\ new.stack = SubSeq(md.stack, 1, len - 1)
      /\ new.reason = md.reason /\ new.level = md.level /\ new.height = md.height
  BY <1>2, PopMarkerFields, PopLitFields
<1>4. Len(new.stack) = len - 1 /\ \A i \in 1..(len - 1) : new.stack[i] = md.stack[i]
  BY <1>2, <1>3, PopStack
<1>5. /\ Top(md) = DlMarker =>
            new.value = md.value /\ new.decisionLvl = md.decisionLvl - 1
      /\ Top(md) # DlMarker =>
            /\ new.value[Top(md)] = "undef" /\ new.value[-Top(md)] = "undef"
            /\ \A k \in Lits \ {Top(md), -Top(md)} : new.value[k] = md.value[k]
            /\ new.decisionLvl = md.decisionLvl
  BY <1>2, PopMarkerFields, PopLitFields
<1> HIDE DEF new
<1>6. ASSUME Top(md) # DlMarker
      PROVE  Top(md) \in Lits /\ IsTrue(md, Top(md))
             /\ LitHeight(md, Top(md)) = len - 1
  BY <1>1, <1>2, <1>6, StackLits DEF Top
<1>7. ASSUME NEW i \in 1..(len - 1), md.stack[i] # DlMarker
      PROVE  /\ md.stack[i] \in Lits /\ IsTrue(md, md.stack[i])
             /\ LitHeight(md, md.stack[i]) = i - 1
             /\ Top(md) # DlMarker => md.stack[i] \notin {Top(md), -Top(md)}
  <2>1. /\ md.stack[i] \in Lits /\ IsTrue(md, md.stack[i])
        /\ LitHeight(md, md.stack[i]) = i - 1
    BY <1>1, <1>2, <1>7, StackLits
  <2>2. ASSUME Top(md) # DlMarker, md.stack[i] \in {Top(md), -Top(md)}
        PROVE  FALSE
    \* Two places of one variable would have one height.
    <3>1. var(md.stack[i]) = var(Top(md))
      BY <1>6, <2>1, <2>2, LitFacts
    <3>2. i - 1 = len - 1
      BY <1>6, <2>1, <2>2, <3>1 DEF LitHeight
    <3> QED  BY <3>2, <1>2
  <2> QED  BY <2>1, <2>2
<1>8. StackMatchesValues(new)
  <2>1. ASSUME NEW k \in Lits
        PROVE  IsTrue(new, k) <=> IsFalse(new, -k)
    <3>1. CASE Top(md) = DlMarker
      BY <3>1, <1>1, <1>5 DEF StackMatchesValues, IsTrue, IsFalse
    <3>2. CASE Top(md) # DlMarker /\ k \in {Top(md), -Top(md)}
      <4>1. -k \in {Top(md), -Top(md)}
        BY <3>2, <1>6, LitFacts
      <4> QED  BY <3>2, <4>1, <1>5 DEF IsTrue, IsFalse
    <3>3. CASE Top(md) # DlMarker /\ k \notin {Top(md), -Top(md)}
      <4>1. -k \in Lits \ {Top(md), -Top(md)}
        BY <3>3, <1>6, LitFacts
      <4> QED  BY <3>3, <4>1, <1>1, <1>5 DEF StackMatchesValues, IsTrue, IsFalse
    <3> QED  BY <3>1, <3>2, <3>3
  <2>2. ASSUME NEW i \in 1..Len(new.stack), new.stack[i] # DlMarker
        PROVE  IsTrue(new, new.stack[i]) /\ LitHeight(new, new.stack[i]) = i - 1
    <3>1. i \in 1..(len - 1) /\ new.stack[i] = md.stack[i]
      BY <1>4
    <3>2. LitHeight(new, new.stack[i]) = i - 1
      BY <2>2, <3>1, <1>3, <1>7 DEF LitHeight
    <3>3. IsTrue(new, new.stack[i])
      BY <2>2, <3>1, <1>5, <1>7 DEF IsTrue
    <3> QED  BY <3>2, <3>3
  <2>3. ASSUME NEW k \in Lits, IsTrue(new, k)
        PROVE  LitHeight(new, k) < Len(new.stack) /\ new.stack[LitHeight(new, k) + 1] = k
    <3>1. IsTrue(md, k) /\ (Top(md) # DlMarker => k # Top(md))
      BY <2>3, <1>5 DEF IsTrue
    <3>2. LitHeight(md, k) < len /\ md.stack[LitHeight(md, k) + 1] = k
      BY <3>1, <1>1 DEF StackMatchesValues
    <3>3. LitHeight(md, k) \in Nat /\ LitHeight(new, k) = LitHeight(md, k)
      BY <1>3, LitFacts DEF LitHeight, ModelType
    <3>4. k # DlMarker
      BY LitFacts
    <3>5. LitHeight(md, k) # len - 1
      BY <3>1, <3>2, <3>4, <1>2 DEF Top
    <3>6. LitHeight(md, k) + 1 \in 1..(len - 1)
      BY <3>2, <3>3, <3>5, <1>2
    <3> QED  BY <3>2, <3>3, <3>6, <1>2, <1>4
  <2> QED  BY <2>1, <2>2, <2>3 DEF StackMatchesValues
<1>9. ASSUME NEW i \in 1..len
      PROVE  MarkersBelow(new, i) = MarkersBelow(md, i)
  <2>1. i \in Nat /\ \A j \in 1..(i - 1) : j \in 1..(len - 1)
    BY <1>2
  <2> QED  BY <2>1, <1>3, <1>4, MarkersBelowSame
<1>10. LevelsCountMarkers(new)
  <2>1. new.decisionLvl = Cardinality(MarkersBelow(new, Len(new.stack) + 1))
    <3>1. Cardinality(MarkersBelow(md, len + 1))
            = Cardinality(MarkersBelow(md, len)) + (IF Top(md) = DlMarker THEN 1 ELSE 0)
      BY <1>2, MarkersBelowNext DEF Top
    <3>2. Cardinality(MarkersBelow(md, len)) \in Nat
      BY <1>2, MarkersBelowFinite
    <3>3. md.decisionLvl = Cardinality(MarkersBelow(md, len + 1))
      BY <1>1 DEF LevelsCountMarkers
    <3>4. new.decisionLvl = Cardinality(MarkersBelow(md, len))
      BY <3>1, <3>2, <3>3, <1>5
    <3>5. Len(new.stack) + 1 = len
      BY <1>2, <1>4
    <3> QED  BY <3>4, <3>5, <1>2, <1>9
  <2>2. ASSUME NEW i \in 1..Len(new.stack), new.stack[i] # DlMarker
        PROVE  LitDl(new, new.stack[i]) = Cardinality(MarkersBelow(new, i))
    <3>1. i \in 1..len /\ new.stack[i] = md.stack[i]
      BY <1>2, <1>4
    <3> QED  BY <2>2, <3>1, <1>1, <1>3, <1>9 DEF LevelsCountMarkers, LitDl
  <2> QED  BY <2>1, <2>2 DEF LevelsCountMarkers
<1>11. DecisionsStandOnMarkers(new)
  <2> SUFFICES ASSUME NEW i \in 1..Len(new.stack), new.stack[i] # DlMarker
               PROVE  LitIsDecision(new, new.stack[i])
                        <=> i > 1 /\ new.stack[i - 1] = DlMarker
    BY DEF DecisionsStandOnMarkers
  <2>1. i \in 1..len /\ new.stack[i] = md.stack[i]
    BY <1>2, <1>4
  <2>2. i > 1 => new.stack[i - 1] = md.stack[i - 1]
    BY <1>2, <1>4
  <2>3. LitIsDecision(new, new.stack[i]) <=> LitIsDecision(md, md.stack[i])
    BY <2>1, <1>3 DEF LitIsDecision, ReasonOfLit, LitDl
  <2> QED  BY <2>1, <2>2, <2>3, <1>1 DEF DecisionsStandOnMarkers
<1> QED  BY <1>3, <1>8, <1>10, <1>11 DEF TrailConsistent, new
-----------------------------------------------------------------------------
(* Literals that stay *)

\* Setting another literal true does not touch a literal that is true.
LEMMA TrueIsAnotherVariable ==
    ASSUME NEW md \in ModelType, StackMatchesValues(md),
           NEW l \in Lits, IsUndef(md, l), NEW k \in Lits, IsTrue(md, k)
    PROVE  k \in Lits \ {l, -l} /\ var(k) \in Vars \ {var(l)}
<1>1. k # l
  BY DEF IsTrue, IsUndef
<1>2. k # -l
  <2>1. ASSUME k = -l
        PROVE  IsFalse(md, l)
    BY <2>1, LitFacts DEF StackMatchesValues
  <2> QED  BY <2>1 DEF IsFalse, IsUndef
<1> QED  BY <1>1, <1>2, LitFacts

\* Above level 0 the literal that is popped was set above level 0.
LEMMA PopKeepsLevelZero ==
    ASSUME NEW md \in ModelType, TrailConsistent(md), md.decisionLvl > 0,
           NEW k \in Lits, IsTrue(md, k), LitDl(md, k) = 0
    PROVE  /\ PopAndSetUndef(md).value[k] = "true"
           /\ PopAndSetUndef(md).level[var(k)] = 0
<1> DEFINE new == PopAndSetUndef(md)
           len == Len(md.stack)
<1>1. len \in Nat /\ len > 0 /\ len \in 1..len
  BY AboveLevelZero DEF TrailConsistent
<1>2. CASE Top(md) = DlMarker
  BY <1>1, <1>2, PopMarkerFields DEF IsTrue, LitDl
<1>3. CASE Top(md) # DlMarker
  <2>1. /\ \A j \in Lits \ {Top(md), -Top(md)} : new.value[j] = md.value[j]
        /\ new.level = md.level
    BY <1>1, <1>3, PopLitFields
  <2>2. LitDl(md, Top(md)) = Cardinality(MarkersBelow(md, len))
    BY <1>1, <1>3 DEF TrailConsistent, LevelsCountMarkers, Top
  <2>3. md.decisionLvl = Cardinality(MarkersBelow(md, len + 1))
    BY DEF TrailConsistent, LevelsCountMarkers
  <2>4. Cardinality(MarkersBelow(md, len + 1)) = Cardinality(MarkersBelow(md, len))
    <3>1. md.stack[len] # DlMarker
      BY <1>3 DEF Top
    <3>2. Cardinality(MarkersBelow(md, len)) \in Nat
      BY <1>1, MarkersBelowFinite
    <3>3. Cardinality(MarkersBelow(md, len + 1))
            = Cardinality(MarkersBelow(md, len))
              + (IF md.stack[len] = DlMarker THEN 1 ELSE 0)
      BY <1>1, MarkersBelowNext
    <3> QED  BY <3>1, <3>2, <3>3
  <2>5. LitDl(md, Top(md)) # 0
    BY <2>2, <2>3, <2>4
  <2>6. k # Top(md)
    BY <2>5
  <2>7. k # -Top(md)
    \* The negation of the top is false.
    <3>1. IsFalse(md, -Top(md))
      BY <1>1, <1>3, StackLits DEF TrailConsistent, Top
    <3> QED  BY <3>1 DEF IsTrue, IsFalse
  <2> QED  BY <2>1, <2>6, <2>7 DEF IsTrue, LitDl
<1> QED  BY <1>2, <1>3

-----------------------------------------------------------------------------
(* What the trail says of the literals on it *)

\* A true literal is on the stack where it remembers to be, and its level is the
\* number of the markers under it.
LEMMA TrueLits ==
    ASSUME NEW md \in ModelType, TrailConsistent(md), NEW l \in Lits, IsTrue(md, l)
    PROVE  /\ LitHeight(md, l) \in Nat /\ LitHeight(md, l) + 1 \in 1..Len(md.stack)
           /\ md.stack[LitHeight(md, l) + 1] = l
           /\ LitDl(md, l) \in Nat /\ md.decisionLvl \in Nat
           /\ LitDl(md, l) = Cardinality(MarkersBelow(md, LitHeight(md, l) + 1))
           /\ LitDl(md, l) <= md.decisionLvl
           /\ IsFalse(md, -l)
<1> DEFINE h == LitHeight(md, l)
           len == Len(md.stack)
<1>1. h \in Nat /\ LitDl(md, l) \in Nat /\ md.decisionLvl \in Nat /\ len \in Nat
  BY LitFacts DEF ModelType, LitHeight, LitDl
<1>2. h < len /\ md.stack[h + 1] = l /\ IsFalse(md, -l)
  BY LitFacts DEF TrailConsistent, StackMatchesValues
<1>3. h + 1 \in 1..len
  BY <1>1, <1>2
<1>4. LitDl(md, l) = Cardinality(MarkersBelow(md, h + 1))
  BY <1>2, <1>3, LitFacts DEF TrailConsistent, LevelsCountMarkers
<1>5. LitDl(md, l) <= md.decisionLvl
  <2>1. MarkersBelow(md, h + 1) \subseteq MarkersBelow(md, len + 1)
    BY <1>1, <1>2 DEF MarkersBelow
  <2>2. h + 1 \in Nat /\ len + 1 \in Nat
    BY <1>1
  <2>3. Cardinality(MarkersBelow(md, h + 1)) <= Cardinality(MarkersBelow(md, len + 1))
    BY <2>1, <2>2, MarkersBelowFinite, FS_Subset
  <2> QED BY <2>3, <1>4 DEF TrailConsistent, LevelsCountMarkers
<1> QED BY <1>1, <1>2, <1>3, <1>4, <1>5

\* The same of a false literal, whose negation is the one on the stack.
LEMMA FalseLits ==
    ASSUME NEW md \in ModelType, TrailConsistent(md), NEW l \in Lits, IsFalse(md, l)
    PROVE  /\ -l \in Lits /\ IsTrue(md, -l) /\ var(-l) = var(l) /\ var(l) \in Vars
           /\ LitHeight(md, -l) = LitHeight(md, l) /\ LitDl(md, -l) = LitDl(md, l)
           /\ LitHeight(md, l) \in Nat /\ LitHeight(md, l) < Len(md.stack)
           /\ LitDl(md, l) \in Nat /\ LitDl(md, l) <= md.decisionLvl
<1>1. -l \in Lits /\ -(-l) = l /\ var(-l) = var(l) /\ var(l) \in Vars
  BY LitFacts
<1>2. IsTrue(md, -l)
  BY <1>1 DEF TrailConsistent, StackMatchesValues
<1>3. LitHeight(md, -l) = LitHeight(md, l) /\ LitDl(md, -l) = LitDl(md, l)
  BY <1>1 DEF LitHeight, LitDl
<1>4. Len(md.stack) \in Nat
  BY DEF ModelType
<1> QED BY <1>1, <1>2, <1>3, <1>4, TrueLits

\* Going up the stack the levels do not go down.
LEMMA LevelsRise ==
    ASSUME NEW md \in ModelType, TrailConsistent(md),
           NEW k \in Lits, IsTrue(md, k), NEW l \in Lits, IsTrue(md, l),
           LitHeight(md, k) <= LitHeight(md, l)
    PROVE  LitDl(md, k) <= LitDl(md, l)
<1> DEFINE h == LitHeight(md, k) + 1
           i == LitHeight(md, l) + 1
<1>1. /\ h \in Nat /\ i \in Nat /\ h <= i
      /\ LitDl(md, k) = Cardinality(MarkersBelow(md, h))
      /\ LitDl(md, l) = Cardinality(MarkersBelow(md, i))
  BY TrueLits
<1>2. MarkersBelow(md, h) \subseteq MarkersBelow(md, i)
  BY <1>1 DEF MarkersBelow
<1> QED BY <1>1, <1>2, MarkersBelowFinite, FS_Subset

\* No two literals stand at the same height.
LEMMA HeightsDiffer ==
    ASSUME NEW md \in ModelType, TrailConsistent(md),
           NEW k \in Lits, IsTrue(md, k), NEW l \in Lits, IsTrue(md, l),
           LitHeight(md, k) = LitHeight(md, l)
    PROVE  k = l
BY TrueLits

\* A decision is the lowest literal of its level.
LEMMA DecisionIsLowest ==
    ASSUME NEW md \in ModelType, TrailConsistent(md),
           NEW k \in Lits, IsTrue(md, k), NEW l \in Lits, IsTrue(md, l),
           LitIsDecision(md, l), LitDl(md, k) = LitDl(md, l)
    PROVE  LitHeight(md, l) <= LitHeight(md, k)
<1> DEFINE h == LitHeight(md, k) + 1
           i == LitHeight(md, l) + 1
<1>1. /\ h \in 1..Len(md.stack) /\ i \in 1..Len(md.stack) /\ h \in Nat /\ i \in Nat
      /\ md.stack[h] = k /\ md.stack[i] = l
      /\ LitDl(md, k) = Cardinality(MarkersBelow(md, h))
      /\ LitDl(md, l) = Cardinality(MarkersBelow(md, i))
  BY TrueLits
<1>2. i > 1 /\ md.stack[i - 1] = DlMarker
  BY <1>1, LitFacts DEF TrailConsistent, DecisionsStandOnMarkers
<1>3. LitDl(md, k) = LitDl(md, l)
  OBVIOUS
<1>4. ASSUME h < i PROVE FALSE
  <2>1. h # i - 1
    BY <1>1, <1>2, LitFacts
  <2>2. h < i - 1
    BY <1>1, <1>4, <2>1
  <2>3. MarkersBelow(md, h) \subseteq MarkersBelow(md, i)
    BY <1>1, <1>4 DEF MarkersBelow
  <2>4. i - 1 \in MarkersBelow(md, i) /\ i - 1 \notin MarkersBelow(md, h)
    BY <1>1, <1>2, <2>2 DEF MarkersBelow
  <2>5. MarkersBelow(md, h) # MarkersBelow(md, i)
    BY <2>4
  <2>6. Cardinality(MarkersBelow(md, h)) < Cardinality(MarkersBelow(md, i))
    BY <1>1, <2>3, <2>5, MarkersBelowFinite, FS_Subset
  <2>7. Cardinality(MarkersBelow(md, h)) \in Nat
    BY <1>1, MarkersBelowFinite
  <2>8. Cardinality(MarkersBelow(md, h)) = Cardinality(MarkersBelow(md, i))
    BY <1>1, <1>3
  <2> HIDE DEF h, i
  <2> QED BY <2>6, <2>7, <2>8
<1>5. LitHeight(md, k) \in Nat /\ LitHeight(md, l) \in Nat
  BY TrueLits
<1> QED BY <1>4, <1>5

\* While a literal of the last level is on the stack the top is a literal, and a
\* literal on the top is of the last level.
LEMMA TopOfLevel ==
    ASSUME NEW md \in ModelType, TrailConsistent(md), Len(md.stack) > 0
    PROVE  /\ Len(md.stack) \in 1..Len(md.stack)
           /\ Top(md) # DlMarker =>
                /\ Top(md) \in Lits /\ IsTrue(md, Top(md))
                /\ LitHeight(md, Top(md)) = Len(md.stack) - 1
                /\ LitDl(md, Top(md)) = md.decisionLvl
           /\ \A l \in Lits : IsTrue(md, l) /\ LitDl(md, l) = md.decisionLvl
                 => Top(md) # DlMarker
<1> DEFINE len == Len(md.stack)
<1>1. len \in Nat /\ len \in 1..len
  BY DEF ModelType
<1>2. Cardinality(MarkersBelow(md, len + 1))
        = Cardinality(MarkersBelow(md, len)) + (IF Top(md) = DlMarker THEN 1 ELSE 0)
  BY <1>1, MarkersBelowNext DEF Top
<1>3. /\ Cardinality(MarkersBelow(md, len)) \in Nat
      /\ md.decisionLvl = Cardinality(MarkersBelow(md, len + 1))
  BY <1>1, MarkersBelowFinite DEF TrailConsistent, LevelsCountMarkers
<1>4. ASSUME Top(md) # DlMarker
      PROVE  /\ Top(md) \in Lits /\ IsTrue(md, Top(md))
             /\ LitHeight(md, Top(md)) = len - 1
             /\ LitDl(md, Top(md)) = md.decisionLvl
  <2>1. Top(md) \in Lits /\ IsTrue(md, Top(md)) /\ LitHeight(md, Top(md)) = len - 1
    BY <1>1, <1>4, StackLits DEF TrailConsistent, Top
  <2>2. LitDl(md, Top(md)) = Cardinality(MarkersBelow(md, len))
    BY <1>1, <1>4 DEF TrailConsistent, LevelsCountMarkers, Top
  <2> QED BY <2>1, <2>2, <1>2, <1>3, <1>4
<1>5. ASSUME NEW l \in Lits, IsTrue(md, l), LitDl(md, l) = md.decisionLvl,
             Top(md) = DlMarker
      PROVE  FALSE
  <2> DEFINE h == LitHeight(md, l) + 1
  <2>1. h \in 1..len /\ h \in Nat /\ LitDl(md, l) = Cardinality(MarkersBelow(md, h))
    BY <1>5, TrueLits
  <2>2. MarkersBelow(md, h) \subseteq MarkersBelow(md, len)
    BY <1>1, <2>1 DEF MarkersBelow
  <2>3. Cardinality(MarkersBelow(md, h)) <= Cardinality(MarkersBelow(md, len))
    BY <1>1, <2>2, MarkersBelowFinite, FS_Subset
  <2>4. Cardinality(MarkersBelow(md, h)) \in Nat
    BY <2>1, MarkersBelowFinite
  <2> QED BY <1>2, <1>3, <1>5, <2>1, <2>3, <2>4
<1> QED BY <1>1, <1>4, <1>5

=============================================================================
