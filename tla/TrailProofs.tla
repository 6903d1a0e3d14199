----------------------------- MODULE TrailProofs -----------------------------
(***************************************************************************)
(* The properties of module Trail, for any number of variables and any set *)
(* of reasons.                                                             *)
(***************************************************************************)
EXTENDS Trail, ModelProofs

\* Each safety property needs the others: the cursors may be moved to the top when a
\* marker is popped because everything under it has been handed out, and popping
\* takes no other place of the stack with it because places and literals agree.
IInv ==
    /\ TypeOK
    /\ Consistent
    /\ NothingSkipped
    /\ LowerLevelsPropagated
    /\ OnlyLiteralsHandedOut

LEMMA InitIInv == Init => IInv
<1> SUFFICES ASSUME Init PROVE IInv
  OBVIOUS
<1>1. PICK phase \in [Vars -> BOOLEAN] : m = ModelInit(phase)
  BY DEF Init
<1>2. /\ m.stack = <<>> /\ Len(m.stack) = 0
      /\ m.value = [l \in Lits |-> "undef"]
      /\ m.decisionLvl = 0
      /\ m.last = [k \in Kinds |-> -1]
  BY <1>1 DEF ModelInit
<1>3. NoReason \in Reason
  BY DEF NoReason, Reason
<1>4. m \in ModelType
  BY <1>1, <1>3 DEF ModelInit, ModelType, Values
<1>5. unwinding = FALSE /\ handed = [k \in Kinds |-> {}]
  BY DEF Init
<1>6. TypeOK
  BY <1>4, <1>5 DEF TypeOK
<1>7. Consistent
  <2>1. StackMatchesValues(m)
    BY <1>2, LitFacts DEF StackMatchesValues, IsTrue, IsFalse
  <2>2. LevelsCountMarkers(m)
    <3>1. MarkersBelow(m, 1) = {}
      BY DEF MarkersBelow
    <3>2. Len(m.stack) + 1 = 1
      BY <1>2
    <3>3. m.decisionLvl = Cardinality(MarkersBelow(m, Len(m.stack) + 1))
      BY <3>1, <3>2, <1>2, FS_EmptySet
    <3> QED  BY <3>3, <1>2 DEF LevelsCountMarkers
  <2>3. DecisionsStandOnMarkers(m)
    BY <1>2 DEF DecisionsStandOnMarkers
  <2> QED  BY <2>1, <2>2, <2>3 DEF Consistent, TrailConsistent
<1>8. NothingSkipped
  BY <1>2 DEF NothingSkipped
<1>9. LowerLevelsPropagated
  BY <1>2 DEF LowerLevelsPropagated, NoBareMarker, MarkersPassed, UnderMarkersHanded
<1>10. OnlyLiteralsHandedOut
  BY <1>5 DEF OnlyLiteralsHandedOut
<1> QED  BY <1>6, <1>7, <1>8, <1>9, <1>10 DEF IInv
-----------------------------------------------------------------------------
LEMMA SetTrueIInv ==
    ASSUME IInv, NEW l \in Lits, NEW r \in Reasons, SetTrue(l, r)
    PROVE  IInv'
<1>1. r \in Reason
  BY ReasonsAssumption
<1>2. /\ ~unwinding /\ IsUndef(m, l) /\ (r.size = 1 => m.decisionLvl = 0)
      /\ m' = SetTrueWithReason(m, l, r)
      /\ unwinding' = unwinding /\ handed' = handed
  BY DEF SetTrue
<1>3. m \in ModelType /\ TrailConsistent(m) /\ Len(m.stack) \in Nat
  BY DEF IInv, TypeOK, Consistent, ModelType
<1>4. /\ m' \in ModelType
      /\ Len(m'.stack) = Len(m.stack) + 1
      /\ m'.stack[Len(m.stack) + 1] = l
      /\ \A i \in 1..Len(m.stack) : m'.stack[i] = m.stack[i]
      /\ m'.last = m.last
  <2>1. m \in ModelType /\ r \in Reason /\ m' = SetTrueWithReason(m, l, r)
    BY <1>1, <1>2, <1>3
  <2> QED  BY <2>1, SetTrueFields
<1>5. l # DlMarker
  BY LitFacts
<1>6. Len(m.stack) > 0 => Top(m) # DlMarker
  BY <1>2 DEF IInv, LowerLevelsPropagated, NoBareMarker
<1>7. TypeOK'
  BY <1>2, <1>4 DEF IInv, TypeOK
<1>8. Consistent'
  <2>1. m.decisionLvl \in Nat
    BY <1>3 DEF ModelType
  <2> QED  BY <2>1, <1>1, <1>2, <1>3, <1>6, SetTrueKeepsTrail DEF Consistent
<1>9. NothingSkipped'
  <2>1. ASSUME NEW k \in Kinds
        PROVE  /\ m.last[k] \in -1..(Len(m.stack) - 1)
               /\ \A i \in 1..(m.last[k] + 1) :
                     m.stack[i] # DlMarker => m.stack[i] \in handed[k]
    BY <1>2, <2>1 DEF IInv, NothingSkipped
  <2>2. ASSUME NEW k \in Kinds
        PROVE  m'.last[k] \in -1..(Len(m'.stack) - 1)
    BY <1>3, <1>4, <2>1
  <2>3. ASSUME NEW k \in Kinds, NEW i \in 1..(m'.last[k] + 1), m'.stack[i] # DlMarker
        PROVE  m'.stack[i] \in handed'[k]
    <3>1. i \in 1..(m.last[k] + 1) /\ i \in 1..Len(m.stack)
      BY <1>3, <1>4, <2>1
    <3> QED  BY <3>1, <2>1, <2>3, <1>2, <1>4
  <2> QED  BY <2>2, <2>3 DEF NothingSkipped
<1>10. LowerLevelsPropagated'
  <2>0. 1..Len(m'.stack) = 1..Len(m.stack) \cup {Len(m.stack) + 1}
    BY <1>3, <1>4
  <2>1. NoBareMarker'
    <3>1. ASSUME NEW i \in 1..(Len(m'.stack) - 1), m'.stack[i] = DlMarker
          PROVE  m'.stack[i + 1] # DlMarker
      <4>1. i \in 1..Len(m.stack) /\ m.stack[i] = DlMarker
        BY <3>1, <1>3, <1>4
      <4>2. i # Len(m.stack)
        BY <4>1, <1>6 DEF Top
      <4>3. i \in 1..(Len(m.stack) - 1) /\ i + 1 \in 1..Len(m.stack)
        BY <4>1, <4>2, <1>3
      <4> QED  BY <4>1, <4>3, <1>4 DEF IInv, LowerLevelsPropagated, NoBareMarker
    <3>2. Top(m') # DlMarker
      BY <1>4, <1>5 DEF Top
    <3> QED  BY <3>1, <3>2 DEF NoBareMarker
  <2>2. MarkersPassed'
    BY <2>0, <1>2, <1>3, <1>4, <1>5 DEF IInv, LowerLevelsPropagated, MarkersPassed
  <2>3. UnderMarkersHanded'
    <3> SUFFICES ASSUME NEW k \in Kinds, NEW i \in 1..Len(m'.stack),
                        m'.stack[i] = DlMarker, NEW j \in 1..(i - 1),
                        m'.stack[j] # DlMarker
                 PROVE  m'.stack[j] \in handed'[k]
      BY DEF UnderMarkersHanded
    <3>1. i \in 1..Len(m.stack) /\ m.stack[i] = DlMarker
      BY <2>0, <1>4, <1>5
    <3>2. j \in 1..Len(m.stack) /\ m.stack[j] = m'.stack[j]
      BY <3>1, <1>3, <1>4
    <3> QED  BY <3>1, <3>2, <1>2 DEF IInv, LowerLevelsPropagated, UnderMarkersHanded
  <2> QED  BY <2>1, <2>2, <2>3 DEF LowerLevelsPropagated
<1>11. OnlyLiteralsHandedOut'
  BY <1>2 DEF IInv, OnlyLiteralsHandedOut
<1> QED  BY <1>7, <1>8, <1>9, <1>10, <1>11 DEF IInv

LEMMA DecideIInv ==
    ASSUME IInv, NEW l \in Lits, Decide(l)
    PROVE  IInv'
<1> DEFINE len == Len(m.stack)
<1>1. /\ ~unwinding /\ FullyPropagated(m) /\ IsUndef(m, l)
      /\ m' = SetTrueDecision(m, l)
      /\ unwinding' = unwinding /\ handed' = handed
  BY DEF Decide
<1>2. m \in ModelType /\ TrailConsistent(m) /\ len \in Nat
  BY DEF IInv, TypeOK, Consistent, ModelType
<1>3. len > 0 => Top(m) # DlMarker
  BY <1>1 DEF IInv, LowerLevelsPropagated, NoBareMarker
<1>4. /\ m' \in ModelType
      /\ TrailConsistent(m')
      /\ Len(m'.stack) = len + 2
      /\ m'.stack[len + 1] = DlMarker
      /\ m'.stack[len + 2] = l
      /\ \A i \in 1..len : m'.stack[i] = m.stack[i]
      /\ \A k \in Kinds : m'.last[k] = m.last[k] + 1
  <2>1. /\ m \in ModelType /\ TrailConsistent(m) /\ IsUndef(m, l)
        /\ m' = SetTrueDecision(m, l)
    BY <1>1, <1>2
  <2> QED  BY <2>1, <1>3, DecisionKeepsTrail
\* The cursors are at the top, so what is on the stack has been handed out.
<1>5. ASSUME NEW k \in Kinds
      PROVE  /\ m.last[k] = len - 1 /\ m'.last[k] = len
             /\ \A i \in 1..len : m.stack[i] # DlMarker => m.stack[i] \in handed[k]
  <2>1. m.last[k] = len - 1
    BY <1>1 DEF FullyPropagated, HasNext
  <2>2. m'.last[k] = len
    BY <2>1, <1>2, <1>4
  <2>3. \A i \in 1..(m.last[k] + 1) : m.stack[i] # DlMarker => m.stack[i] \in handed[k]
    BY <1>1 DEF IInv, NothingSkipped
  <2> QED  BY <2>1, <2>2, <2>3, <1>2
<1>6. l # DlMarker
  BY LitFacts
<1>7. 1..Len(m'.stack) = 1..len \cup {len + 1, len + 2}
  BY <1>2, <1>4
<1>8. TypeOK'
  BY <1>1, <1>4 DEF IInv, TypeOK
<1>9. Consistent'
  BY <1>4 DEF Consistent
<1>10. NothingSkipped'
  <2>1. ASSUME NEW k \in Kinds
        PROVE  m'.last[k] \in -1..(Len(m'.stack) - 1)
    BY <1>2, <1>4, <1>5
  <2>2. ASSUME NEW k \in Kinds, NEW i \in 1..(m'.last[k] + 1), m'.stack[i] # DlMarker
        PROVE  m'.stack[i] \in handed'[k]
    <3>1. i \in 1..len
      BY <2>2, <1>2, <1>4, <1>5
    <3> QED  BY <3>1, <2>2, <1>1, <1>4, <1>5
  <2> QED  BY <2>1, <2>2 DEF NothingSkipped
<1>11. LowerLevelsPropagated'
  <2>1. NoBareMarker'
    <3>1. ASSUME NEW i \in 1..(Len(m'.stack) - 1), m'.stack[i] = DlMarker
          PROVE  m'.stack[i + 1] # DlMarker
      <4>1. CASE i = len + 1
        BY <4>1, <1>2, <1>4, <1>6
      <4>2. CASE i # len + 1
        <5>1. i \in 1..len /\ m.stack[i] = DlMarker
          BY <3>1, <4>2, <1>2, <1>4
        <5>2. i # len
          BY <5>1, <1>3 DEF Top
        <5>3. i \in 1..(len - 1) /\ i + 1 \in 1..len
          BY <5>1, <5>2, <1>2
        <5> QED  BY <5>1, <5>3, <1>4 DEF IInv, LowerLevelsPropagated, NoBareMarker
      <4> QED  BY <4>1, <4>2
    <3>2. Top(m') # DlMarker
      BY <1>4, <1>6 DEF Top
    <3> QED  BY <3>1, <3>2 DEF NoBareMarker
  <2>2. MarkersPassed'
    <3> SUFFICES ASSUME NEW k \in Kinds, NEW i \in 1..Len(m'.stack),
                        m'.stack[i] = DlMarker
                 PROVE  i <= m'.last[k] + 1
      BY DEF MarkersPassed
    <3>1. i # len + 2
      BY <1>4, <1>6
    <3> QED  BY <3>1, <1>2, <1>5, <1>7, SMTT(30)
  <2>3. UnderMarkersHanded'
    <3> SUFFICES ASSUME NEW k \in Kinds, NEW i \in 1..Len(m'.stack),
                        m'.stack[i] = DlMarker, NEW j \in 1..(i - 1),
                        m'.stack[j] # DlMarker
                 PROVE  m'.stack[j] \in handed'[k]
      BY DEF UnderMarkersHanded
    <3>1. i # len + 2
      BY <1>4, <1>6
    <3>2. j \in 1..len
      BY <3>1, <1>2, <1>7
    <3> QED  BY <3>2, <1>1, <1>4, <1>5
  <2> QED  BY <2>1, <2>2, <2>3 DEF LowerLevelsPropagated
<1>12. OnlyLiteralsHandedOut'
  BY <1>1 DEF IInv, OnlyLiteralsHandedOut
<1> QED  BY <1>8, <1>9, <1>10, <1>11, <1>12 DEF IInv

LEMMA HandOutIInv ==
    ASSUME IInv, NEW k \in Kinds, HandOut(k)
    PROVE  IInv'
<1> DEFINE len == Len(m.stack)
<1>1. /\ ~unwinding /\ m.last[k] # len - 1
      /\ m' = [m EXCEPT !.last = [m.last EXCEPT ![k] = @ + 1]]
      /\ handed' = [handed EXCEPT ![k] = @ \cup {m.stack[m.last[k] + 2]}]
      /\ unwinding' = unwinding
  BY DEF HandOut, HasNext, Advance, NextLit
<1>2. m \in ModelType /\ TrailConsistent(m) /\ len \in Nat
      /\ handed \in [Kinds -> SUBSET (Lits \cup {DlMarker})]
  BY DEF IInv, TypeOK, Consistent, ModelType
<1>3. ASSUME NEW j \in Kinds
      PROVE  /\ m.last[j] \in -1..(len - 1)
             /\ \A i \in 1..(m.last[j] + 1) :
                   m.stack[i] # DlMarker => m.stack[i] \in handed[j]
  BY <1>1 DEF IInv, NothingSkipped
<1>4. m.last[k] + 2 \in 1..len
  BY <1>1, <1>2, <1>3
\* The cursor has passed every marker.
<1>5. m.stack[m.last[k] + 2] # DlMarker
  <2>1. m.stack[m.last[k] + 2] = DlMarker => m.last[k] + 2 <= m.last[k] + 1
    BY <1>1, <1>4 DEF IInv, LowerLevelsPropagated, MarkersPassed
  <2> QED  BY <2>1, <1>3
<1>6. m.stack[m.last[k] + 2] \in Lits
  BY <1>2, <1>4, <1>5, ElementOfSeq DEF ModelType
<1>7. [m.last EXCEPT ![k] = @ + 1] \in [Kinds -> Nat \cup {-1}]
  <2>1. m.last \in [Kinds -> Nat \cup {-1}] /\ m.last[k] + 1 \in Nat
    BY <1>2, <1>3 DEF ModelType
  <2> QED  BY <2>1
<1>8. /\ m' \in ModelType
      /\ m'.stack = m.stack /\ m'.value = m.value /\ m'.reason = m.reason
      /\ m'.level = m.level /\ m'.height = m.height
      /\ m'.decisionLvl = m.decisionLvl
      /\ m'.last = [m.last EXCEPT ![k] = @ + 1]
  BY <1>1, <1>2, <1>7 DEF ModelType
<1>9. ASSUME NEW j \in Kinds
      PROVE  /\ handed[j] \subseteq handed'[j]
             /\ m.last[j] <= m'.last[j] /\ m'.last[j] \in -1..(len - 1)
             /\ \A i \in 1..(m'.last[j] + 1) :
                   m.stack[i] # DlMarker => m.stack[i] \in handed'[j]
  <2>1. CASE j = k
    <3>1. /\ handed'[j] = handed[j] \cup {m.stack[m.last[k] + 2]}
          /\ m'.last[j] = m.last[j] + 1
      BY <2>1, <1>1, <1>2, <1>8 DEF ModelType
    <3>2. 1..(m'.last[j] + 1) = 1..(m.last[j] + 1) \cup {m.last[k] + 2}
      BY <2>1, <3>1, <1>3, <1>4
    <3>3. m.last[j] <= m'.last[j] /\ m'.last[j] \in -1..(len - 1)
      BY <2>1, <3>1, <1>2, <1>3, <1>4
    <3> QED  BY <3>1, <3>2, <3>3, <1>3
  <2>2. CASE j # k
    <3>1. handed'[j] = handed[j] /\ m'.last[j] = m.last[j]
      BY <2>2, <1>1, <1>2, <1>8 DEF ModelType
    <3> QED  BY <3>1, <1>3
  <2> QED  BY <2>1, <2>2
<1>10. TypeOK'
  <2>1. handed' \in [Kinds -> SUBSET (Lits \cup {DlMarker})]
    BY <1>1, <1>2, <1>6
  <2> QED  BY <2>1, <1>1, <1>8 DEF IInv, TypeOK
<1>11. Consistent'
  <2>1. StackMatchesValues(m')
    BY <1>2, <1>8
       DEF TrailConsistent, StackMatchesValues, IsTrue, IsFalse, LitHeight
  <2>2. LevelsCountMarkers(m')
    BY <1>2, <1>8 DEF TrailConsistent, LevelsCountMarkers, MarkersBelow, LitDl
  <2>3. DecisionsStandOnMarkers(m')
    BY <1>2, <1>8
       DEF TrailConsistent, DecisionsStandOnMarkers, LitIsDecision, ReasonOfLit, LitDl
  <2> QED  BY <2>1, <2>2, <2>3 DEF Consistent, TrailConsistent
<1>12. NothingSkipped'
  BY <1>8, <1>9 DEF NothingSkipped
<1>13. LowerLevelsPropagated'
  <2>1. NoBareMarker'
    BY <1>1, <1>8 DEF IInv, LowerLevelsPropagated, NoBareMarker, Top
  <2>2. MarkersPassed'
    <3> SUFFICES ASSUME NEW j \in Kinds, NEW i \in 1..len, m.stack[i] = DlMarker
                 PROVE  i <= m'.last[j] + 1
      BY <1>8 DEF MarkersPassed
    <3>1. i <= m.last[j] + 1
      BY <1>1 DEF IInv, LowerLevelsPropagated, MarkersPassed
    <3> QED  BY <3>1, <1>2, <1>3, <1>9
  <2>3. UnderMarkersHanded'
    BY <1>8, <1>9 DEF IInv, LowerLevelsPropagated, UnderMarkersHanded
  <2> QED  BY <2>1, <2>2, <2>3 DEF LowerLevelsPropagated
<1>14. OnlyLiteralsHandedOut'
  <2>1. ASSUME NEW j \in Kinds
        PROVE  DlMarker \notin handed'[j]
    BY <1>1, <1>2, <1>5 DEF IInv, OnlyLiteralsHandedOut
  <2> QED  BY <2>1 DEF OnlyLiteralsHandedOut
<1> QED  BY <1>10, <1>11, <1>12, <1>13, <1>14 DEF IInv

LEMMA PopIInv ==
    ASSUME IInv, Pop
    PROVE  IInv'
<1> DEFINE len == Len(m.stack)
<1>1. /\ m.decisionLvl > 0
      /\ m' = PopAndSetUndef(m)
      /\ unwinding' \in {TRUE, Top(m) # DlMarker}
      /\ handed' = [k \in Kinds |-> handed[k] \ {Top(m)}]
  BY DEF Pop
<1>2. /\ m \in ModelType /\ TrailConsistent(m)
      /\ handed \in [Kinds -> SUBSET (Lits \cup {DlMarker})]
  BY DEF IInv, TypeOK, Consistent
<1>3. len \in Nat /\ len > 0
  BY <1>1, <1>2, AboveLevelZero DEF TrailConsistent
<1>4. m' \in ModelType /\ TrailConsistent(m')
  BY <1>1, <1>2, PopKeepsTrail
<1>5. /\ m'.stack = SubSeq(m.stack, 1, len - 1)
      /\ Top(m) = DlMarker => \A k \in Kinds : m'.last[k] = len - 2
  <2>1. m \in ModelType /\ len > 0 /\ m.decisionLvl > 0 /\ m' = PopAndSetUndef(m)
    BY <1>1, <1>2, <1>3
  <2> QED  BY <2>1, PopMarkerFields, PopLitFields
<1>6. Len(m'.stack) = len - 1 /\ \A i \in 1..(len - 1) : m'.stack[i] = m.stack[i]
  <2>1. m \in ModelType /\ len > 0
    BY <1>2, <1>3
  <2> QED  BY <2>1, <1>5, PopStack
\* What is left on the stack is not what was popped.
<1>7. ASSUME NEW i \in 1..(len - 1), m.stack[i] # DlMarker
      PROVE  m.stack[i] # Top(m)
  <2>1. i \in 1..len /\ len \in 1..len
    BY <1>3
  <2>2. LitHeight(m, m.stack[i]) = i - 1
    BY <2>1, <1>2, <1>7 DEF TrailConsistent, StackMatchesValues
  <2>3. Top(m) # DlMarker => LitHeight(m, Top(m)) = len - 1
    BY <2>1, <1>2 DEF TrailConsistent, StackMatchesValues, Top
  <2> QED  BY <2>2, <2>3, <1>3, <1>7
<1>8. ASSUME NEW k \in Kinds, NEW i \in 1..len, m.stack[i] = DlMarker,
             NEW j \in 1..(i - 1), m.stack[j] # DlMarker
      PROVE  m.stack[j] \in handed'[k]
  <2>1. m.stack[j] \in handed[k]
    BY <1>8 DEF IInv, LowerLevelsPropagated, UnderMarkersHanded
  <2>2. j \in 1..(len - 1)
    BY <1>3
  <2> QED  BY <2>1, <2>2, <1>1, <1>7, <1>8
<1>9. TypeOK'
  <2>1. handed' \in [Kinds -> SUBSET (Lits \cup {DlMarker})]
    BY <1>1, <1>2
  <2> QED  BY <2>1, <1>1, <1>4 DEF TypeOK
<1>10. Consistent'
  BY <1>4 DEF Consistent
<1>11. UnderMarkersHanded'
  <2> SUFFICES ASSUME NEW k \in Kinds, NEW i \in 1..Len(m'.stack),
                      m'.stack[i] = DlMarker, NEW j \in 1..(i - 1),
                      m'.stack[j] # DlMarker
               PROVE  m'.stack[j] \in handed'[k]
    BY DEF UnderMarkersHanded
  <2>1. i \in 1..len /\ m.stack[i] = DlMarker /\ m'.stack[j] = m.stack[j]
    BY <1>3, <1>6
  <2> QED  BY <2>1, <1>8
<1>12. \A i \in 1..(len - 1) : m.stack[i] = DlMarker => m.stack[i + 1] # DlMarker
  BY DEF IInv, LowerLevelsPropagated, NoBareMarker
<1>13. NoBareMarker'
  <2>1. ASSUME NEW i \in 1..(Len(m'.stack) - 1), m'.stack[i] = DlMarker
        PROVE  m'.stack[i + 1] # DlMarker
    <3>1. i \in 1..(len - 1) /\ i + 1 \in 1..(len - 1)
      BY <1>3, <1>6
    <3> QED  BY <3>1, <2>1, <1>6, <1>12
  <2>2. ASSUME ~unwinding', Len(m'.stack) > 0
        PROVE  Top(m') # DlMarker
    <3>1. m.stack[len] = DlMarker
      BY <2>2, <1>1 DEF Top
    <3>2. len - 1 \in 1..(len - 1) /\ (len - 1) + 1 = len
      BY <2>2, <1>3, <1>6
    <3>3. m.stack[len - 1] # DlMarker
      BY <3>1, <3>2, <1>12
    <3> QED  BY <3>2, <3>3, <1>6 DEF Top
  <2> QED  BY <2>1, <2>2 DEF NoBareMarker
\* Popping a marker moves the cursors to the top, over what has been handed out.
<1>14. ASSUME ~unwinding', NEW k \in Kinds
       PROVE  /\ m'.last[k] = len - 2
              /\ \A i \in 1..(len - 1) :
                    m.stack[i] # DlMarker => m.stack[i] \in handed'[k]
  <2>0. Top(m) = DlMarker
    BY <1>1, <1>14
  <2>1. m.stack[len] = DlMarker /\ len \in 1..len
    BY <2>0, <1>3 DEF Top
  <2>2. m'.last[k] = len - 2
    BY <2>0, <1>5
  <2> QED  BY <2>1, <2>2, <1>8
<1>15. NothingSkipped'
  <2> SUFFICES ASSUME ~unwinding', NEW k \in Kinds
               PROVE  /\ m'.last[k] \in -1..(Len(m'.stack) - 1)
                      /\ \A i \in 1..(m'.last[k] + 1) :
                            m'.stack[i] # DlMarker => m'.stack[i] \in handed'[k]
    BY DEF NothingSkipped
  <2>1. m'.last[k] = len - 2
    BY <1>14
  <2>2. m'.last[k] \in -1..(Len(m'.stack) - 1) /\ m'.last[k] + 1 = len - 1
    BY <2>1, <1>3, <1>6
  <2> QED  BY <2>2, <1>6, <1>14
<1>16. MarkersPassed'
  <2> SUFFICES ASSUME ~unwinding', NEW k \in Kinds, NEW i \in 1..Len(m'.stack)
               PROVE  i <= m'.last[k] + 1
    BY DEF MarkersPassed
  <2>1. m'.last[k] = len - 2
    BY <1>14
  <2> QED  BY <2>1, <1>3, <1>6
<1>17. OnlyLiteralsHandedOut'
  BY <1>1 DEF IInv, OnlyLiteralsHandedOut
<1> QED  BY <1>9, <1>10, <1>11, <1>13, <1>15, <1>16, <1>17
         DEF IInv, LowerLevelsPropagated

LEMMA StartUnwindingIInv ==
    ASSUME IInv, StartUnwinding
    PROVE  IInv'
BY DEF StartUnwinding, IInv, TypeOK, Consistent, NothingSkipped, LowerLevelsPropagated,
       NoBareMarker, MarkersPassed, UnderMarkersHanded, OnlyLiteralsHandedOut

LEMMA StutterIInv ==
    ASSUME IInv, UNCHANGED vars
    PROVE  IInv'
BY DEF vars, IInv, TypeOK, Consistent, NothingSkipped, LowerLevelsPropagated,
       NoBareMarker, MarkersPassed, UnderMarkersHanded, OnlyLiteralsHandedOut

LEMMA NextIInv == IInv /\ [Next]_vars => IInv'
<1> SUFFICES ASSUME IInv, [Next]_vars PROVE IInv'
  OBVIOUS
<1>1. ASSUME NEW l \in Lits, NEW r \in Reasons, SetTrue(l, r)
      PROVE  IInv'
  BY <1>1, SetTrueIInv
<1>2. ASSUME NEW l \in Lits, Decide(l)
      PROVE  IInv'
  BY <1>2, DecideIInv
<1>3. ASSUME NEW k \in Kinds, HandOut(k)
      PROVE  IInv'
  BY <1>3, HandOutIInv
<1>4. CASE Pop
  BY <1>4, PopIInv
<1>5. CASE UNCHANGED vars
  BY <1>5, StutterIInv
<1>6. CASE StartUnwinding
  BY <1>6, StartUnwindingIInv
<1> QED  BY <1>1, <1>2, <1>3, <1>4, <1>5, <1>6 DEF Next
-----------------------------------------------------------------------------
THEOREM SpecIInv == Spec => []IInv
BY InitIInv, NextIInv, PTL DEF Spec

\* The fields of the model stay in their domains; in particular a cursor never goes
\* below -1 and the stack holds nothing but literals and markers.
THEOREM TypeCorrect == Spec => []TypeOK
<1>1. IInv => TypeOK
  BY DEF IInv
<1> QED  BY <1>1, SpecIInv, PTL

\* Whatever sequence of calls the worker makes, the stack, the values, the levels,
\* the heights and the decision test of model.c agree.
THEOREM TrailIsConsistent == Spec => []Consistent
<1>1. IInv => Consistent
  BY DEF IInv
<1> QED  BY <1>1, SpecIInv, PTL

\* Moving the cursors to the top of the stack when a marker is popped never skips a
\* literal of a lower level.
THEOREM CursorsSkipNothing == Spec => []NothingSkipped
<1>1. IInv => NothingSkipped
  BY DEF IInv
<1> QED  BY <1>1, SpecIInv, PTL

\* Only the last decision level is ever partly propagated.
THEOREM LowerLevelsArePropagated == Spec => []LowerLevelsPropagated
<1>1. IInv => LowerLevelsPropagated
  BY DEF IInv
<1> QED  BY <1>1, SpecIInv, PTL

\* Propagation is never called with the marker of a decision level.
THEOREM MarkersAreNotHandedOut == Spec => []OnlyLiteralsHandedOut
<1>1. IInv => OnlyLiteralsHandedOut
  BY DEF IInv
<1> QED  BY <1>1, SpecIInv, PTL

-----------------------------------------------------------------------------
LEMMA LevelZeroStep ==
    ASSUME IInv, [Next]_vars, NEW k \in Lits, IsTrue(m, k), LitDl(m, k) = 0
    PROVE  m'.value[k] = "true" /\ m'.level[var(k)] = 0
<1>1. m \in ModelType /\ TrailConsistent(m) /\ StackMatchesValues(m)
  BY DEF IInv, TypeOK, Consistent, TrailConsistent
<1>2. m.value[k] = "true" /\ m.level[var(k)] = 0
  BY DEF IsTrue, LitDl
<1>3. ASSUME NEW l \in Lits, NEW r \in Reasons, SetTrue(l, r)
      PROVE  m'.value[k] = "true" /\ m'.level[var(k)] = 0
  <2>1. m \in ModelType /\ r \in Reason /\ m' = SetTrueWithReason(m, l, r)
    BY <1>1, <1>3, ReasonsAssumption DEF SetTrue
  <2>2. /\ \A j \in Lits \ {l, -l} : m'.value[j] = m.value[j]
        /\ \A v \in Vars \ {var(l)} : m'.level[v] = m.level[v]
    BY <2>1, SetTrueFields
  <2>3. k \in Lits \ {l, -l} /\ var(k) \in Vars \ {var(l)}
    BY <1>1, <1>3, TrueIsAnotherVariable DEF SetTrue
  <2> QED  BY <2>2, <2>3, <1>2
<1>4. ASSUME NEW l \in Lits, Decide(l)
      PROVE  m'.value[k] = "true" /\ m'.level[var(k)] = 0
  <2>1. /\ m \in ModelType /\ TrailConsistent(m) /\ IsUndef(m, l)
        /\ m' = SetTrueDecision(m, l)
    BY <1>1, <1>4 DEF Decide
  <2>2. /\ \A j \in Lits \ {l, -l} : m'.value[j] = m.value[j]
        /\ \A v \in Vars \ {var(l)} : m'.level[v] = m.level[v]
    BY <2>1, DecisionKeepsTrail
  <2>3. k \in Lits \ {l, -l} /\ var(k) \in Vars \ {var(l)}
    BY <2>1, <1>1, TrueIsAnotherVariable
  <2> QED  BY <2>2, <2>3, <1>2
<1>5. ASSUME NEW j \in Kinds, HandOut(j)
      PROVE  m'.value[k] = "true" /\ m'.level[var(k)] = 0
  BY <1>1, <1>2, <1>5 DEF HandOut, Advance, ModelType
<1>6. CASE Pop
  BY <1>1, <1>6, PopKeepsLevelZero DEF Pop
<1>7. CASE UNCHANGED vars
  BY <1>2, <1>7 DEF vars
<1>8. CASE StartUnwinding
  BY <1>2, <1>8 DEF StartUnwinding
<1> QED  BY <1>3, <1>4, <1>5, <1>6, <1>7, <1>8 DEF Next

\* Literals set at level 0 are never unassigned, however the levels above are undone.
THEOREM LevelZeroIsKept == Spec => LevelZeroKept
<1>1. IInv /\ [Next]_vars
        => [\A l \in Lits : IsTrue(m, l) /\ LitDl(m, l) = 0
              => m'.value[l] = "true" /\ m'.level[var(l)] = 0]_vars
  BY LevelZeroStep
<1> QED  BY <1>1, SpecIInv, PTL DEF Spec, LevelZeroKept

=============================================================================
