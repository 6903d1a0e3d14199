---------------------------- MODULE SharingProofs ----------------------------
(***************************************************************************)
(* What workers that insert clauses at the same time can rely on, whatever *)
(* the number of variables, clauses and workers: theorems about the        *)
(* inserts of module ClauseDBLocks, step by step.                          *)
(*                                                                         *)
(* The inductive invariant LocksInv says what the lock of a kind protects: *)
(* its holder knows how long the list is, and nobody else makes it longer; *)
(* the list is one longer than its counter exactly while an insert has     *)
(* pushed and not yet counted; and no worker has a flag in an entry it has *)
(* not come to.  OrderInv says that the lists have the lemmas in the order *)
(* in which every worker brings them, up to the worker that is furthest,   *)
(* so that a worker's counter gives the place of its next lemma; HalvesInv *)
(* counts the entries of binaries, two for a clause.                       *)
(***************************************************************************)
EXTENDS ClauseDBLocks, ModelProofs

(* What the parser leaves behind *)

\* A set of literals has a size.
LEMMA ClauseSizes == \A c \in Clause : IsFiniteSet(c) /\ Cardinality(c) \in Nat
<1>1. IsFiniteSet(Lits)
  <2>1. IsFiniteSet(-N..N)
    BY FS_Interval, NumVarsAssumption
  <2> QED BY <2>1, FS_Subset DEF Lits
<1> QED BY <1>1, FS_Subset, FS_CardinalityType DEF Clause

LEMMA DbLengths ==
    ASSUME NEW d \in ClauseDBType
    PROVE  Len(d.uDB) \in Nat /\ Len(d.tDB) \in Nat /\ Len(d.nDB) \in Nat
BY DEF ClauseDBType

\* One clause more of a kind.
Adds(d, e, u, t, n) ==
    /\ e \in ClauseDBType
    /\ Len(e.uDB) = Len(d.uDB) + u
    /\ Len(e.tDB) = Len(d.tDB) + t
    /\ Len(e.nDB) = Len(d.nDB) + n

One(b) == IF b THEN 1 ELSE 0

LEMMA AppendUnit ==
    ASSUME NEW d \in ClauseDBType, NEW l \in Lits,
           NEW e, e = [d EXCEPT !.uDB = Append(@, l)]
    PROVE  Adds(d, e, 1, 0, 0) /\ e.tDB = d.tDB /\ e.nDB = d.nDB
<1>1. Append(d.uDB, l) \in Seq(Lits) /\ Len(Append(d.uDB, l)) = Len(d.uDB) + 1
  BY DEF ClauseDBType
<1>2. /\ e \in ClauseDBType /\ e.uDB = Append(d.uDB, l) /\ e.tDB = d.tDB /\ e.nDB = d.nDB
  BY <1>1 DEF ClauseDBType
<1>3. Len(d.uDB) \in Nat /\ Len(d.tDB) \in Nat /\ Len(d.nDB) \in Nat
  BY DbLengths
<1> QED BY <1>1, <1>2, <1>3 DEF Adds

\* The list of one literal.
LEMMA AppendBinary ==
    ASSUME NEW d \in ClauseDBType, NEW l1 \in Lits, NEW l2 \in Lits,
           NEW e, e = [d EXCEPT !.bDB[-l1] = Append(@, l2)]
    PROVE  Adds(d, e, 0, 0, 0) /\ e.uDB = d.uDB /\ e.tDB = d.tDB /\ e.nDB = d.nDB
<1>1. PICK x, D : x = -l1 /\ D = d.bDB
  OBVIOUS
<1>2. x \in Lits /\ D \in [Lits -> Seq(Lits)]
  BY <1>1, LitFacts DEF ClauseDBType
<1>3. PICK B : B = [D EXCEPT ![x] = Append(@, l2)]
  OBVIOUS
<1>4. B \in [Lits -> Seq(Lits)]
  <2>1. Append(D[x], l2) \in Seq(Lits)
    BY <1>2
  <2> QED BY <1>2, <1>3, <2>1
<1>5. e = [d EXCEPT !.bDB = B]
  BY <1>1, <1>2, <1>3 DEF ClauseDBType
<1>6. /\ e \in ClauseDBType /\ e.uDB = d.uDB /\ e.tDB = d.tDB /\ e.nDB = d.nDB
  BY <1>4, <1>5 DEF ClauseDBType
<1>7. Len(d.uDB) \in Nat /\ Len(d.tDB) \in Nat /\ Len(d.nDB) \in Nat
  BY DbLengths
<1> QED BY <1>6, <1>7 DEF Adds

LEMMA AppendBoth ==
    ASSUME NEW d \in ClauseDBType, NEW l1 \in Lits, NEW l2 \in Lits, l1 # l2,
           NEW e, e = [d EXCEPT !.bDB[-l1] = Append(@, l2), !.bDB[-l2] = Append(@, l1)]
    PROVE  Adds(d, e, 0, 0, 0)
<1>1. PICK x, y, D : x = -l1 /\ y = -l2 /\ D = d.bDB
  OBVIOUS
<1>2. x \in Lits /\ y \in Lits /\ x # y /\ D \in [Lits -> Seq(Lits)]
  <2>1. D \in [Lits -> Seq(Lits)]
    BY <1>1 DEF ClauseDBType
  <2> QED BY <1>1, <2>1, LitFacts
<1>3. PICK B : B = [[D EXCEPT ![x] = Append(D[x], l2)] EXCEPT ![y] = Append(D[y], l1)]
  OBVIOUS
<1>4. B \in [Lits -> Seq(Lits)]
  <2>1. Append(D[x], l2) \in Seq(Lits) /\ Append(D[y], l1) \in Seq(Lits)
    BY <1>2
  <2> QED BY <1>2, <1>3, <2>1
<1>5. e = [d EXCEPT !.bDB = B]
  BY <1>1, <1>2, <1>3 DEF ClauseDBType
<1>6. /\ e \in ClauseDBType /\ e.uDB = d.uDB /\ e.tDB = d.tDB /\ e.nDB = d.nDB
  BY <1>4, <1>5 DEF ClauseDBType
<1>7. Len(d.uDB) \in Nat /\ Len(d.tDB) \in Nat /\ Len(d.nDB) \in Nat
  BY DbLengths
<1> QED BY <1>6, <1>7 DEF Adds

TernaryAdded(d, entry, W) == [d EXCEPT !.tDB = Append(@, entry), !.ternaryWatches = W]

LEMMA AppendTernary ==
    ASSUME NEW d \in ClauseDBType, NEW entry \in TernaryEntry,
           NEW W \in [Lits -> Seq(Nat)],
           NEW e, e = TernaryAdded(d, entry, W)
    PROVE  Adds(d, e, 0, 1, 0) /\ e.uDB = d.uDB /\ e.nDB = d.nDB
<1>1. Append(d.tDB, entry) \in Seq(TernaryEntry) /\ Len(Append(d.tDB, entry)) = Len(d.tDB) + 1
  BY DEF ClauseDBType
<1>2. /\ e \in ClauseDBType /\ e.uDB = d.uDB /\ e.tDB = Append(d.tDB, entry) /\ e.nDB = d.nDB
  BY <1>1 DEF ClauseDBType, TernaryAdded
<1>3. Len(d.uDB) \in Nat /\ Len(d.tDB) \in Nat /\ Len(d.nDB) \in Nat
  BY DbLengths
<1> QED BY <1>1, <1>2, <1>3 DEF Adds

LEMMA AppendNary ==
    ASSUME NEW d \in ClauseDBType, NEW entry \in NaryEntry,
           NEW e, e = [d EXCEPT !.nDB = Append(@, entry)]
    PROVE  Adds(d, e, 0, 0, 1) /\ e.uDB = d.uDB /\ e.tDB = d.tDB
<1>1. Append(d.nDB, entry) \in Seq(NaryEntry) /\ Len(Append(d.nDB, entry)) = Len(d.nDB) + 1
  BY DEF ClauseDBType
<1>2. /\ e \in ClauseDBType /\ e.uDB = d.uDB /\ e.tDB = d.tDB /\ e.nDB = Append(d.nDB, entry)
  BY <1>1 DEF ClauseDBType
<1>3. Len(d.uDB) \in Nat /\ Len(d.tDB) \in Nat /\ Len(d.nDB) \in Nat
  BY DbLengths
<1> QED BY <1>1, <1>2, <1>3 DEF Adds

\* A clause goes to the list of its size, and an empty one to none.
LEMMA InputAdds ==
    ASSUME NEW d \in ClauseDBType, NEW c \in Clause,
           NEW e, e = InsertInput(d, c)
    PROVE  Adds(d, e, One(Cardinality(c) = 1), One(Cardinality(c) = 3),
                One(Cardinality(c) > 3))
<1> DEFINE first == CHOOSE l \in c : TRUE
           other == CHOOSE l \in c : l # first
<1>1. /\ IsFiniteSet(c) /\ Cardinality(c) \in Nat
      /\ Len(d.uDB) \in Nat /\ Len(d.tDB) \in Nat /\ Len(d.nDB) \in Nat
  BY ClauseSizes DEF ClauseDBType
<1>2. Cardinality(c) > 0 => first \in c
  <2>1. Cardinality(c) > 0 => c # {}
    BY FS_EmptySet
  <2> QED BY <2>1
<1>3. Cardinality(c) = 2 => other \in c /\ other # first
  <2> SUFFICES ASSUME Cardinality(c) = 2 PROVE \E l \in c : l # first
    OBVIOUS
  <2>1. Cardinality({first}) = 1
    BY FS_Singleton
  <2>2. c # {first}
    BY <2>1
  <2> QED BY <1>2, <2>2
<1>4. c \subseteq Lits
  BY DEF Clause
<1> HIDE DEF first, other
<1>5. CASE Cardinality(c) = 0
  BY <1>1, <1>5 DEF InsertInput, Adds, One
<1>6. CASE Cardinality(c) = 1
  <2>1. e = [d EXCEPT !.uDB = Append(@, first)] /\ first \in Lits
    BY <1>2, <1>4, <1>6 DEF InsertInput, InsertUnit, AlreadyInList, first
  <2>2. Adds(d, e, 1, 0, 0)
    BY <2>1, AppendUnit
  <2> QED BY <1>1, <1>6, <2>2 DEF One
<1>7. CASE Cardinality(c) = 2
  <2>1. /\ e = [d EXCEPT !.bDB[-first] = Append(@, other), !.bDB[-other] = Append(@, first)]
        /\ first \in Lits /\ other \in Lits
    BY <1>2, <1>3, <1>4, <1>7 DEF InsertInput, InsertBinary, AlreadyInList, first, other
  <2>2. Adds(d, e, 0, 0, 0)
    BY <1>3, <1>7, <2>1, AppendBoth
  <2> QED BY <1>1, <1>7, <2>2 DEF One
<1>8. CASE Cardinality(c) = 3
  <2>1. PICK entry, W :
           /\ entry = [lits |-> c, flags |-> Flags(TRUE, 0)]
           /\ W = [l \in Lits |-> IF l \in c THEN Append(d.ternaryWatches[l], Len(d.tDB) + 1)
                                            ELSE d.ternaryWatches[l]]
    OBVIOUS
  <2>2. e = TernaryAdded(d, entry, W)
    BY <1>8, <2>1 DEF InsertInput, InsertTernary, AlreadyInList, ClauseDBType, TernaryAdded
  <2>3. entry \in TernaryEntry
    BY <2>1 DEF TernaryEntry, Flags
  <2>4. W \in [Lits -> Seq(Nat)]
    BY <2>1 DEF ClauseDBType
  <2>5. Adds(d, e, 0, 1, 0)
    BY <2>2, <2>3, <2>4, AppendTernary
  <2> QED BY <1>1, <1>8, <2>5 DEF One
<1>9. CASE Cardinality(c) > 3
  <2>1. PICK entry : entry = [lits |-> c, flags |-> Flags(TRUE, 0), original |-> TRUE]
    OBVIOUS
  <2>2. e = [d EXCEPT !.nDB = Append(@, entry)]
    BY <1>1, <1>9, <2>1 DEF InsertInput, InsertNary, AlreadyInList
  <2>3. entry \in NaryEntry
    BY <2>1 DEF NaryEntry, Flags
  <2>4. Adds(d, e, 0, 0, 1)
    BY <2>2, <2>3, AppendNary
  <2> QED BY <1>1, <1>9, <2>4 DEF One
<1> QED BY <1>1, <1>5, <1>6, <1>7, <1>8, <1>9

\* The entries of the lists of binaries, two for each clause.
Pairs(D) == UNION {{<<l, i>> : i \in DOMAIN D[l]} : l \in Lits}
PairsAre(D, n) == IsFiniteSet(Pairs(D)) /\ Cardinality(Pairs(D)) = n

LEMMA OnePairMore ==
    ASSUME NEW D \in [Lits -> Seq(Lits)], NEW x \in Lits, NEW l \in Lits, NEW n \in Nat,
           PairsAre(D, n), NEW E, E = [D EXCEPT ![x] = Append(@, l)]
    PROVE  E \in [Lits -> Seq(Lits)] /\ PairsAre(E, n + 1)
<1>1. PICK s, m : s = D[x] /\ m = Len(D[x]) + 1
  OBVIOUS
<1>2. /\ s \in Seq(Lits) /\ Append(s, l) \in Seq(Lits) /\ DOMAIN s = 1..Len(s)
      /\ Len(s) \in Nat /\ m = Len(s) + 1 /\ DOMAIN Append(s, l) = 1..m
  <2>1. s \in Seq(Lits)
    BY <1>1
  <2> QED BY <1>1, <2>1
<1>3. /\ E \in [Lits -> Seq(Lits)] /\ E[x] = Append(s, l)
      /\ \A k \in Lits \ {x} : E[k] = D[k]
  BY <1>1, <1>2
<1>4. <<x, m>> \notin Pairs(D)
  <2>1. m \notin DOMAIN D[x]
    BY <1>1, <1>2
  <2> QED BY <2>1 DEF Pairs
<1>5. Pairs(E) = Pairs(D) \cup {<<x, m>>}
  <2>1. DOMAIN E[x] = DOMAIN D[x] \cup {m}
    BY <1>1, <1>2, <1>3
  <2>2. \A k \in Lits : \A i : <<k, i>> \in Pairs(D) <=> i \in DOMAIN D[k]
    BY DEF Pairs
  <2>3. \A k \in Lits : \A i : <<k, i>> \in Pairs(E) <=> i \in DOMAIN E[k]
    BY DEF Pairs
  <2>4. \A p \in Pairs(D) \cup Pairs(E) : \E k \in Lits : \E i : p = <<k, i>>
    BY DEF Pairs
  <2>5. \A k \in Lits : \A i : <<k, i>> \in Pairs(E) <=> <<k, i>> \in Pairs(D) \cup {<<x, m>>}
    <3> SUFFICES ASSUME NEW k \in Lits, NEW i
                 PROVE  <<k, i>> \in Pairs(E) <=> <<k, i>> \in Pairs(D) \cup {<<x, m>>}
      OBVIOUS
    <3>1. CASE k = x
      BY <2>1, <2>2, <2>3, <3>1
    <3>2. CASE k # x
      BY <1>3, <2>2, <2>3, <3>2
    <3> QED BY <3>1, <3>2
  <2> SUFFICES ASSUME NEW p PROVE p \in Pairs(E) <=> p \in Pairs(D) \cup {<<x, m>>}
    OBVIOUS
  <2>6. CASE \E k \in Lits : \E i : p = <<k, i>>
    BY <2>5, <2>6
  <2>7. CASE ~ \E k \in Lits : \E i : p = <<k, i>>
    BY <2>4, <2>7
  <2> QED BY <2>6, <2>7
<1>6. IsFiniteSet(Pairs(E)) /\ Cardinality(Pairs(E)) = n + 1
  <2>1. PICK P, z : P = Pairs(D) /\ z = <<x, m>>
    OBVIOUS
  <2>2. IsFiniteSet(P) /\ Cardinality(P) = n /\ z \notin P
    BY <1>4, <2>1 DEF PairsAre
  <2>3. IsFiniteSet(P \cup {z}) /\ Cardinality(P \cup {z}) = n + 1
    BY <2>2, FS_AddElement
  <2> QED BY <1>5, <2>1, <2>3
<1> QED BY <1>3, <1>6 DEF PairsAre

\* A binary goes to two lists, any other clause to none of them.
LEMMA InputPairs ==
    ASSUME NEW d \in ClauseDBType, NEW c \in Clause, NEW n \in Nat, PairsAre(d.bDB, n),
           NEW e, e = InsertInput(d, c)
    PROVE  PairsAre(e.bDB, n + 2 * One(Cardinality(c) = 2))
<1>1. Cardinality(c) \in Nat /\ c \subseteq Lits
  BY ClauseSizes DEF Clause
<1>2. CASE Cardinality(c) # 2
  <2>1. e.bDB = d.bDB
    <3>1. \A list, last : ~AlreadyInList(list, TRUE, last)
      BY DEF AlreadyInList
    <3>2. CASE Cardinality(c) = 0
      BY <3>2 DEF InsertInput
    <3>3. CASE Cardinality(c) = 1
      <4>1. PICK x : x = CHOOSE l \in c : TRUE
        OBVIOUS
      <4>2. e = InsertUnit(d, x, TRUE, 0)
        BY <3>3, <4>1 DEF InsertInput
      <4>3. e = [d EXCEPT !.uDB = Append(@, x)]
        BY <3>1, <4>2 DEF InsertUnit
      <4> QED BY <4>3 DEF ClauseDBType
    <3>4. CASE Cardinality(c) = 3
      <4>1. e = InsertTernary(d, c, TRUE, 0, 0)
        BY <3>4 DEF InsertInput
      <4>2. PICK x, W : /\ x = [lits |-> c, flags |-> Flags(TRUE, 0)]
                        /\ W = [l \in Lits |-> IF l \in c
                                  THEN Append(d.ternaryWatches[l], Len(d.tDB) + 1)
                                  ELSE d.ternaryWatches[l]]
        OBVIOUS
      <4>3. e = TernaryAdded(d, x, W)
        BY <3>1, <4>1, <4>2 DEF InsertTernary, ClauseDBType, TernaryAdded
      <4> QED BY <4>3 DEF ClauseDBType, TernaryAdded
    <3>5. CASE Cardinality(c) > 3
      <4>1. e = InsertNary(d, c, TRUE, 0, 0)
        BY <1>1, <3>5 DEF InsertInput
      <4>2. PICK x : x = [lits |-> c, flags |-> Flags(TRUE, 0), original |-> TRUE]
        OBVIOUS
      <4>3. e = [d EXCEPT !.nDB = Append(@, x)]
        BY <3>1, <4>1, <4>2 DEF InsertNary
      <4> QED BY <4>3 DEF ClauseDBType
    <3> QED BY <1>1, <1>2, <3>2, <3>3, <3>4, <3>5
  <2>2. One(Cardinality(c) = 2) = 0
    BY <1>2 DEF One
  <2> QED BY <2>1, <2>2
<1>3. CASE Cardinality(c) = 2
  <2>1. PICK x, y : x = (CHOOSE l \in c : TRUE) /\ y = CHOOSE l \in c : l # x
    OBVIOUS
  <2>2. x \in c /\ y \in c /\ y # x
    <3>1. c # {}
      BY <1>3, FS_EmptySet
    <3>2. c # {x}
      <4>1. Cardinality({x}) = 1
        BY FS_Singleton
      <4> QED BY <1>3, <4>1
    <3>3. x \in c
      BY <2>1, <3>1
    <3>4. \E l \in c : l # x
      BY <3>2, <3>3
    <3> QED BY <2>1, <3>3, <3>4
  <2>3. e = [d EXCEPT !.bDB[-x] = Append(@, y), !.bDB[-y] = Append(@, x)]
    BY <1>3, <2>1 DEF InsertInput, InsertBinary, AlreadyInList
  <2>4. PICK u, v, D, F : /\ u = -x /\ v = -y /\ D = d.bDB
                          /\ F = [D EXCEPT ![u] = Append(@, y)]
    OBVIOUS
  <2>5. /\ x \in Lits /\ y \in Lits /\ u \in Lits /\ v \in Lits /\ u # v
        /\ D \in [Lits -> Seq(Lits)]
    <3>1. D \in [Lits -> Seq(Lits)]
      BY <2>4 DEF ClauseDBType
    <3> QED BY <1>1, <2>2, <2>4, <3>1, LitFacts
  <2>6. F \in [Lits -> Seq(Lits)] /\ PairsAre(F, n + 1)
    BY <2>4, <2>5, OnePairMore
  <2>7. e.bDB = [F EXCEPT ![v] = Append(@, x)]
    BY <2>3, <2>4, <2>5 DEF ClauseDBType
  <2>8. PairsAre(e.bDB, (n + 1) + 1)
    <3>1. n + 1 \in Nat
      OBVIOUS
    <3>2. PICK m \in Nat : m = n + 1
      BY <3>1
    <3>3. PairsAre(F, m)
      BY <2>6, <3>2
    <3>4. PICK G : G = e.bDB
      OBVIOUS
    <3>5. G = [F EXCEPT ![v] = Append(@, x)]
      BY <2>7, <3>4
    <3>6. PairsAre(G, m + 1)
      BY <2>5, <2>6, <3>2, <3>3, <3>5, OnePairMore
    <3> QED BY <3>2, <3>4, <3>6
  <2>9. One(Cardinality(c) = 2) = 1
    BY <1>3 DEF One
  <2> QED BY <2>8, <2>9
<1> QED BY <1>2, <1>3

\* The recursive function that InputDB is defined with exists: it is built clause by
\* clause.
Reads(f, s, k) ==
    f = [n \in 0..k |-> IF n = 0 THEN EmptyDB ELSE InsertInput(f[n - 1], s[n])]

LEMMA ReadingExists ==
    ASSUME NEW s, NEW k \in Nat
    PROVE  \E f : Reads(f, s, k)
<1> DEFINE S == {n \in Nat : ~ \E f : Reads(f, s, n)}
<1> SUFFICES S = {}
  OBVIOUS
<1> SUFFICES ASSUME S # {} PROVE FALSE
  OBVIOUS
<1>1. PICK m \in S : \A n \in S : m <= n
  BY HasSmallest
<1>2. m \in Nat /\ ~ \E f : Reads(f, s, m)
  OBVIOUS
<1>3. CASE m = 0
  <2>1. PICK g : g = [n \in 0..0 |-> EmptyDB]
    OBVIOUS
  <2>2. Reads(g, s, 0)
    BY <2>1 DEF Reads
  <2> QED BY <1>2, <1>3, <2>2
<1>4. CASE m # 0
  <2>1. m - 1 \in Nat /\ m - 1 \notin S
    BY <1>1, <1>2, <1>4
  <2>2. PICK f : Reads(f, s, m - 1)
    BY <2>1
  <2> HIDE DEF S
  <2>3. PICK g : g = [n \in 0..m |-> IF n = 0 THEN EmptyDB ELSE InsertInput(f[n - 1], s[n])]
    OBVIOUS
  <2>4. \A n \in 0..(m - 1) : g[n] = f[n]
    <3> SUFFICES ASSUME NEW n \in 0..(m - 1) PROVE g[n] = f[n]
      OBVIOUS
    <3>1. n \in 0..m
      BY <1>2
    <3>2. g[n] = IF n = 0 THEN EmptyDB ELSE InsertInput(f[n - 1], s[n])
      BY <2>3, <3>1
    <3>3. f[n] = IF n = 0 THEN EmptyDB ELSE InsertInput(f[n - 1], s[n])
      BY <2>2 DEF Reads
    <3> QED BY <3>2, <3>3
  <2>5. \A n \in 0..m : n # 0 => g[n - 1] = f[n - 1]
    BY <1>2, <2>4
  <2>6. g = [n \in 0..m |-> IF n = 0 THEN EmptyDB ELSE InsertInput(g[n - 1], s[n])]
    BY <2>3, <2>5
  <2>7. Reads(g, s, m)
    BY <2>6 DEF Reads
  <2> QED BY <1>2, <2>7
<1> QED BY <1>3, <1>4

LEMMA InputDBReads ==
    ASSUME NEW s \in Seq(Clause)
    PROVE  \E f : Reads(f, s, Len(s)) /\ InputDB(s) = f[Len(s)]
<1>1. \E f : f = [n \in 0..Len(s) |-> IF n = 0 THEN EmptyDB ELSE InsertInput(f[n - 1], s[n])]
  BY ReadingExists DEF Reads
<1>2. \E f : /\ f = [n \in 0..Len(s) |->
                        IF n = 0 THEN EmptyDB ELSE InsertInput(f[n - 1], s[n])]
             /\ InputDB(s) = f[Len(s)]
  BY Zenon, <1>1 DEF InputDB
<1> QED BY <1>2 DEF Reads

\* How many of the first k clauses have n literals.
Sized(s, n, k) == Cardinality({i \in 1..k : Cardinality(s[i]) = n})

LEMMA SizedFirst ==
    ASSUME NEW s, NEW n
    PROVE  Sized(s, n, 0) = 0
<1>1. {i \in 1..0 : Cardinality(s[i]) = n} = {}
  OBVIOUS
<1> QED BY <1>1, FS_EmptySet DEF Sized

LEMMA SizedNext ==
    ASSUME NEW s, NEW n, NEW k \in Nat
    PROVE  /\ Sized(s, n, k) \in Nat
           /\ Sized(s, n, k + 1) = Sized(s, n, k) + One(Cardinality(s[k + 1]) = n)
<1>1. PICK X, Y : /\ X = {i \in 1..k : Cardinality(s[i]) = n}
                  /\ Y = {i \in 1..(k + 1) : Cardinality(s[i]) = n}
  OBVIOUS
<1>2. IsFiniteSet(X) /\ Cardinality(X) \in Nat
  <2>1. IsFiniteSet(1..k)
    BY FS_Interval
  <2> QED BY <1>1, <2>1, FS_Subset, FS_CardinalityType
<1>3. k + 1 \notin X
  BY <1>1
<1>4. CASE Cardinality(s[k + 1]) = n
  <2>1. Y = X \cup {k + 1}
    BY <1>1, <1>4
  <2>2. Cardinality(Y) = Cardinality(X) + 1
    BY <1>2, <1>3, <2>1, FS_AddElement
  <2> QED BY <1>1, <1>2, <1>4, <2>2 DEF Sized, One
<1>5. CASE Cardinality(s[k + 1]) # n
  <2>1. Y = X
    BY <1>1, <1>5
  <2> QED BY <1>1, <1>2, <1>5, <2>1 DEF Sized, One
<1> QED BY <1>4, <1>5

\* After k clauses the lists have one entry for each clause of their size.
Tallied(d, s, k) ==
    /\ d \in ClauseDBType
    /\ Len(d.uDB) = Sized(s, 1, k)
    /\ Len(d.tDB) = Sized(s, 3, k)
    /\ PairsAre(d.bDB, 2 * Sized(s, 2, k))
    /\ k = Sized(s, 0, k) + Sized(s, 1, k) + Sized(s, 2, k) + Sized(s, 3, k) + Len(d.nDB)

LEMMA EmptyTallied ==
    ASSUME NEW s
    PROVE  Tallied(EmptyDB, s, 0)
<1>1. /\ Sized(s, 0, 0) = 0 /\ Sized(s, 1, 0) = 0
      /\ Sized(s, 2, 0) = 0 /\ Sized(s, 3, 0) = 0
  BY SizedFirst
<1>2. EmptyDB \in ClauseDBType
  BY DEF EmptyDB, ClauseDBType
<1>3. Len(EmptyDB.uDB) = 0 /\ Len(EmptyDB.tDB) = 0 /\ Len(EmptyDB.nDB) = 0
  BY DEF EmptyDB
<1>4. PairsAre(EmptyDB.bDB, 0)
  <2>1. \A l \in Lits : DOMAIN EmptyDB.bDB[l] = {}
    BY DEF EmptyDB
  <2>2. Pairs(EmptyDB.bDB) = {}
    BY <2>1 DEF Pairs
  <2> QED BY <2>2, FS_EmptySet DEF PairsAre
<1> QED BY <1>1, <1>2, <1>3, <1>4 DEF Tallied

LEMMA NextTallied ==
    ASSUME NEW s \in Seq(Clause), NEW k \in Nat, k < Len(s),
           NEW d, Tallied(d, s, k)
    PROVE  Tallied(InsertInput(d, s[k + 1]), s, k + 1)
<1>1. PICK c, e : c = s[k + 1] /\ e = InsertInput(d, c)
  OBVIOUS
<1>2. c \in Clause /\ d \in ClauseDBType
  <2>1. k + 1 \in DOMAIN s
    OBVIOUS
  <2> QED BY <1>1, <2>1 DEF Tallied
<1>3. Adds(d, e, One(Cardinality(c) = 1), One(Cardinality(c) = 3), One(Cardinality(c) > 3))
  BY <1>1, <1>2, InputAdds
<1>4. /\ Len(d.uDB) \in Nat /\ Len(d.tDB) \in Nat /\ Len(d.nDB) \in Nat
      /\ Cardinality(c) \in Nat
  BY <1>2, DbLengths, ClauseSizes
<1>5. \A n \in 0..3 : /\ Sized(s, n, k) \in Nat
                      /\ Sized(s, n, k + 1) = Sized(s, n, k) + One(Cardinality(c) = n)
  BY <1>1, SizedNext
<1>6. PICK o0 \in Nat, o1 \in Nat, o2 \in Nat, o3 \in Nat, o4 \in Nat :
         /\ o0 = One(Cardinality(c) = 0) /\ o1 = One(Cardinality(c) = 1)
         /\ o2 = One(Cardinality(c) = 2) /\ o3 = One(Cardinality(c) = 3)
         /\ o4 = One(Cardinality(c) > 3) /\ o0 + o1 + o2 + o3 + o4 = 1
  BY <1>4 DEF One
<1>7. /\ Sized(s, 0, k) \in Nat /\ Sized(s, 1, k) \in Nat
      /\ Sized(s, 2, k) \in Nat /\ Sized(s, 3, k) \in Nat
      /\ Sized(s, 0, k + 1) = Sized(s, 0, k) + o0
      /\ Sized(s, 1, k + 1) = Sized(s, 1, k) + o1
      /\ Sized(s, 2, k + 1) = Sized(s, 2, k) + o2
      /\ Sized(s, 3, k + 1) = Sized(s, 3, k) + o3
  BY <1>5, <1>6
<1>8. /\ e \in ClauseDBType
      /\ Len(e.uDB) = Sized(s, 1, k + 1) /\ Len(e.tDB) = Sized(s, 3, k + 1)
      /\ Len(e.nDB) = Len(d.nDB) + o4
  BY <1>3, <1>6, <1>7 DEF Adds, Tallied
<1>9. k = Sized(s, 0, k) + Sized(s, 1, k) + Sized(s, 2, k) + Sized(s, 3, k) + Len(d.nDB)
  BY DEF Tallied
<1>10. k + 1 = Sized(s, 0, k + 1) + Sized(s, 1, k + 1) + Sized(s, 2, k + 1)
                 + Sized(s, 3, k + 1) + Len(e.nDB)
  <2>1. o0 + o1 + o2 + o3 + o4 = 1
    BY <1>6
  <2>2. PICK s0 \in Nat, s1 \in Nat, s2 \in Nat, s3 \in Nat, s4 \in Nat :
           /\ s0 = Sized(s, 0, k) /\ s1 = Sized(s, 1, k) /\ s2 = Sized(s, 2, k)
           /\ s3 = Sized(s, 3, k) /\ s4 = Len(d.nDB)
    BY <1>4, <1>7
  <2>3. k = s0 + s1 + s2 + s3 + s4
    BY <1>9, <2>2
  <2>4. k + 1 = (s0 + o0) + (s1 + o1) + (s2 + o2) + (s3 + o3) + (s4 + o4)
    BY <2>1, <2>3
  <2> QED BY <1>7, <1>8, <2>2, <2>4
<1>11. PairsAre(e.bDB, 2 * Sized(s, 2, k + 1))
  <2>1. PICK m \in Nat, n \in Nat : m = Sized(s, 2, k) /\ n = 2 * m
    BY <1>7
  <2>2. PairsAre(d.bDB, n)
    BY <2>1 DEF Tallied
  <2>3. PairsAre(e.bDB, n + 2 * o2)
    BY <1>1, <1>2, <1>6, <2>1, <2>2, InputPairs
  <2>4. n + 2 * o2 = 2 * (m + o2)
    BY <1>6, <2>1
  <2> QED BY <1>7, <2>1, <2>3, <2>4
<1> QED BY <1>1, <1>8, <1>10, <1>11 DEF Tallied

LEMMA InputIsTallied ==
    ASSUME NEW s \in Seq(Clause)
    PROVE  Tallied(InputDB(s), s, Len(s))
<1>1. PICK f : Reads(f, s, Len(s)) /\ InputDB(s) = f[Len(s)]
  BY InputDBReads
<1>2. Len(s) \in Nat
  OBVIOUS
<1>3. f[0] = EmptyDB
  BY <1>1, <1>2 DEF Reads
<1>4. \A n \in 0..(Len(s) - 1) : f[n + 1] = InsertInput(f[n], s[n + 1])
  <2> SUFFICES ASSUME NEW n \in 0..(Len(s) - 1)
               PROVE  f[n + 1] = InsertInput(f[n], s[n + 1])
    OBVIOUS
  <2>1. n + 1 \in 0..Len(s) /\ n + 1 # 0 /\ (n + 1) - 1 = n
    BY <1>2
  <2>2. f[n + 1] = InsertInput(f[(n + 1) - 1], s[n + 1])
    BY <1>1, <2>1 DEF Reads
  <2> QED BY <2>1, <2>2
<1> DEFINE S == {n \in 0..Len(s) : ~Tallied(f[n], s, n)}
<1>5. S = {}
  <2> SUFFICES ASSUME S # {} PROVE FALSE
    OBVIOUS
  <2>1. PICK m \in S : \A n \in S : m <= n
    <3>1. S \in SUBSET Nat
      BY <1>2
    <3> QED BY <3>1, HasSmallest
  <2>2. m \in 0..Len(s) /\ ~Tallied(f[m], s, m)
    OBVIOUS
  <2>3. m # 0
    BY <1>3, <2>2, EmptyTallied
  <2>4. m - 1 \in 0..(Len(s) - 1) /\ m - 1 \in Nat /\ m - 1 < Len(s) /\ (m - 1) + 1 = m
    BY <1>2, <2>2, <2>3
  <2>5. Tallied(f[m - 1], s, m - 1)
    BY <2>1, <2>4
  <2>6. Tallied(InsertInput(f[m - 1], s[(m - 1) + 1]), s, (m - 1) + 1)
    BY <2>4, <2>5, NextTallied
  <2>7. f[(m - 1) + 1] = InsertInput(f[m - 1], s[(m - 1) + 1])
    BY <1>4, <2>4
  <2> QED BY <2>2, <2>4, <2>6, <2>7
<1>6. Tallied(f[Len(s)], s, Len(s))
  BY <1>2, <1>5
<1> QED BY <1>1, <1>6
-----------------------------------------------------------------------------
(* The inductive invariant of the inserts *)

Shared == {"unit", "ternary", "nary"}
LockKinds == Shared \cup {"binary"}
Places == {"idle", "locked", "push", "push2", "found", "watch", "count", "store", "unlock"}

CountersType == [unit : Nat, bins : [Lits -> Nat], ternary : Nat, nary : Nat]
InsertType == [pc : Places, done : Nat, last : CountersType, arg : CountersType,
               size : Nat, towatch : SUBSET Lits, read : Nat]
NumType == [LockKinds \cup {"all"} -> Nat]

\* Of an insert a, which is wk[w] for some worker w: the kind of its lemma, and the
\* position it was called with.
Brings(a) == KindOf(Lemmas[a.done + 1])
Place(a) == CASE Brings(a) = "unit" -> a.arg.unit
              [] Brings(a) = "binary" -> a.arg.bins[-Lemmas[a.done + 1][1]]
              [] Brings(a) = "ternary" -> a.arg.ternary
              [] Brings(a) = "nary" -> a.arg.nary

Entries(d, k) == CASE k = "unit" -> d.uDB [] k = "ternary" -> d.tDB [] k = "nary" -> d.nDB

\* An insert under way holds the lock of its kind.
Holds(a, w) == a.pc # "idle" => a.done < Len(Lemmas) /\ lock[Brings(a)] = w

\* A worker has counted the input and its own lemmas, the one it is bringing included:
\* the vectors have room for as many.
Modest(a) ==
    /\ LET c == IF a.pc = "idle" THEN a.last ELSE a.arg
       IN  /\ c.ternary <= Len(Inputs) + a.done
           /\ c.nary <= Len(Inputs) + a.done
    /\ a.pc # "idle" =>
          /\ a.last.ternary = a.arg.ternary + One(Brings(a) = "ternary")
          /\ a.last.nary = a.arg.nary + One(Brings(a) = "nary")

\* While it holds the lock, the list is as long as the worker knows.
Informed(a, d) ==
    a.pc # "idle" /\ Brings(a) \in Shared =>
       LET n == Len(Entries(d, Brings(a)))
       IN  /\ a.pc \in {"push", "found"} => a.size = n
           /\ a.pc = "push" => n <= Place(a)
           /\ a.pc = "found" => Place(a) < n
           /\ a.pc \in {"watch", "count", "store"} /\ Brings(a) # "unit" => a.size + 1 = n

\* A worker's flag is in no entry beyond those it has counted, and until it has the
\* entry not in the one it is bringing either.
OwnFlags(a, d, w) ==
    LET c == IF a.pc \in {"locked", "push", "found"} THEN a.arg ELSE a.last
    IN  /\ \A i \in DOMAIN d.tDB : d.tDB[i].flags[w] => i <= c.ternary
        /\ \A i \in DOMAIN d.nDB : d.nDB[i].flags[w] => i <= c.nary

Sound(a, d, w) ==
    /\ a.pc = "watch" => Brings(a) = "ternary"
    /\ Modest(a)
    /\ Informed(a, d)
    /\ OwnFlags(a, d, w)

\* A list is one longer than its counter between the push and the count.
Pushed(a) == a.pc \in {"watch", "count"}
Pending(k) == \E w \in Workers : Pushed(wk[w]) /\ Brings(wk[w]) = k
Balanced(k) == num[k] + One(Pending(k)) = Len(Entries(db, k))

\* What was read of the counter of all clauses leaves room for the clause just counted.
Total == num.unit + num.binary + num.ternary + num.nary
CountsFit ==
    /\ num.all <= Total
    /\ \A w \in Workers : wk[w].pc = "store" => wk[w].read + 1 <= Total

NothingMoved ==
    /\ vec = InitVec
    /\ \A p \in ptrs : p.kind \in {"ternary", "nary"} /\ p.moved = 0

LocksInv ==
    /\ db \in ClauseDBType /\ num \in NumType /\ DOMAIN lock = LockKinds
    /\ wk \in [Workers -> InsertType]
    /\ \A w \in Workers : Holds(wk[w], w)
    /\ \A w \in Workers : Sound(wk[w], db, w)
    /\ \A k \in Shared : Balanced(k)
    /\ CountsFit
    /\ NothingMoved
-----------------------------------------------------------------------------
(* Lemmas *)

LEMMA LemmaKinds ==
    ASSUME NEW n \in Nat, n < Len(Lemmas), NEW c, c = Lemmas[n + 1]
    PROVE  /\ c \in Seq(Lits) /\ Len(c) \in Nat /\ Len(c) > 0
           /\ KindOf(c) \in LockKinds
           /\ (KindOf(c) = "unit" <=> Len(c) = 1)
           /\ (KindOf(c) = "binary" <=> Len(c) = 2)
           /\ (KindOf(c) = "ternary" <=> Len(c) = 3)
           /\ (KindOf(c) = "nary" <=> Len(c) > 3)
<1>1. n + 1 \in DOMAIN Lemmas /\ Lemmas \in Seq(Seq(Lits) \ {<<>>})
  BY InsertsAssumption
<1>2. c \in Seq(Lits) /\ c # <<>>
  BY <1>1
<1>3. Len(c) \in Nat /\ Len(c) > 0
  BY <1>2
<1>4. PICK m, k : m = Len(c) /\ k = KindOf(c)
  OBVIOUS
<1>5. k = CASE m = 1 -> "unit" [] m = 2 -> "binary" [] m = 3 -> "ternary" [] m > 3 -> "nary"
  BY Zenon, <1>4 DEF KindOf
<1>6. m \in Nat /\ m > 0
  BY <1>3, <1>4
<1>7. /\ k \in LockKinds
      /\ (k = "unit" <=> m = 1) /\ (k = "binary" <=> m = 2)
      /\ (k = "ternary" <=> m = 3) /\ (k = "nary" <=> m > 3)
  BY <1>5, <1>6 DEF LockKinds, Shared
<1> QED BY <1>2, <1>3, <1>4, <1>7

LEMMA InsertFields ==
    ASSUME NEW a \in InsertType
    PROVE  /\ a.pc \in Places /\ a.done \in Nat /\ a.size \in Nat /\ a.read \in Nat
           /\ a.last \in CountersType /\ a.arg \in CountersType /\ a.towatch \subseteq Lits
           /\ a.last.unit \in Nat /\ a.last.ternary \in Nat /\ a.last.nary \in Nat
           /\ a.arg.unit \in Nat /\ a.arg.ternary \in Nat /\ a.arg.nary \in Nat
           /\ DOMAIN a = {"pc", "done", "last", "arg", "size", "towatch", "read"}
<1>1. /\ a.pc \in Places /\ a.done \in Nat /\ a.size \in Nat /\ a.read \in Nat
      /\ a.last \in CountersType /\ a.arg \in CountersType /\ a.towatch \subseteq Lits
      /\ DOMAIN a = {"pc", "done", "last", "arg", "size", "towatch", "read"}
  BY DEF InsertType
<1> QED BY <1>1 DEF CountersType

LEMMA NumFields ==
    ASSUME NEW n \in NumType
    PROVE  /\ n.unit \in Nat /\ n.binary \in Nat /\ n.ternary \in Nat /\ n.nary \in Nat
           /\ n.all \in Nat
           /\ DOMAIN n = {"unit", "ternary", "nary", "binary", "all"}
           /\ \A k \in LockKinds : n[k] \in Nat
BY DEF NumType, LockKinds, Shared

LEMMA EntriesLength ==
    ASSUME NEW d \in ClauseDBType, NEW k \in Shared
    PROVE  Len(Entries(d, k)) \in Nat
BY DbLengths DEF Entries, Shared

LEMMA OneNat == \A b : One(b) \in Nat /\ One(b) <= 1
BY DEF One

\* No two workers insert clauses of a kind at once.
LEMMA OneInserts ==
    ASSUME \A u \in Workers : Holds(wk[u], u),
           NEW v \in Workers, NEW w \in Workers, v # w,
           wk[v].pc # "idle", wk[w].pc # "idle"
    PROVE  Brings(wk[v]) # Brings(wk[w])
BY DEF Holds

\* What a worker relies on is not touched by another: lists change under the lock of
\* their kind, and a worker's flag is set by itself.
LEMMA OthersSound ==
    ASSUME LocksInv, NEW w \in Workers, NEW e,
           \A k \in Shared : \/ Len(Entries(e, k)) = Len(Entries(db, k))
                             \/ wk[w].pc # "idle" /\ Brings(wk[w]) = k,
           NEW v \in Workers \ {w},
           \A i \in DOMAIN e.tDB : e.tDB[i].flags[v] => i \in DOMAIN db.tDB /\ db.tDB[i].flags[v],
           \A i \in DOMAIN e.nDB : e.nDB[i].flags[v] => i \in DOMAIN db.nDB /\ db.nDB[i].flags[v]
    PROVE  Sound(wk[v], e, v)
<1>1. PICK a : a = wk[v]
  OBVIOUS
<1>2. Sound(a, db, v)
  BY <1>1 DEF LocksInv
<1>3. ASSUME a.pc # "idle", Brings(a) \in Shared
      PROVE  Len(Entries(e, Brings(a))) = Len(Entries(db, Brings(a)))
  <2>1. wk[w].pc # "idle" => Brings(wk[w]) # Brings(a)
    BY <1>1, <1>3, OneInserts DEF LocksInv
  <2> QED BY <1>3, <2>1
<1>4. Informed(a, e)
  BY <1>2, <1>3 DEF Sound, Informed
<1>5. OwnFlags(a, e, v)
  <2>1. OwnFlags(a, db, v)
    BY <1>2 DEF Sound
  <2> QED BY <2>1 DEF OwnFlags
<1> QED BY <1>1, <1>2, <1>4, <1>5 DEF Sound

LEMMA BalanceKept ==
    ASSUME LocksInv, NEW w \in Workers, NEW a, a = wk[w], NEW b \in InsertType,
           wk' = [wk EXCEPT ![w] = b],
           db' \in ClauseDBType, num' \in NumType,
           Pushed(b) => a.pc # "idle" /\ Brings(b) = Brings(a),
           NEW k \in Shared,
           num'[k] + One(Pushed(b) /\ Brings(b) = k) + Len(Entries(db, k))
             = num[k] + One(Pushed(a) /\ Brings(a) = k) + Len(Entries(db', k))
    PROVE  Balanced(k)'
<1>1. wk \in [Workers -> InsertType] /\ \A u \in Workers : Holds(wk[u], u)
  BY DEF LocksInv
<1>2. /\ wk'[w] = b /\ \A v \in Workers \ {w} : wk'[v] = wk[v]
  BY <1>1
<1>3. PICK others : others = \E v \in Workers \ {w} : Pushed(wk[v]) /\ Brings(wk[v]) = k
  OBVIOUS
<1>4. /\ Pending(k) <=> others \/ (Pushed(a) /\ Brings(a) = k)
      /\ Pending(k)' <=> others \/ (Pushed(b) /\ Brings(b) = k)
  BY <1>2, <1>3 DEF Pending, Pushed, Brings
<1>5. ~(others /\ a.pc # "idle" /\ Brings(a) = k)
  BY <1>1, <1>3, OneInserts DEF Pushed
<1>6. Pushed(a) => a.pc # "idle"
  BY DEF Pushed
<1>7. /\ num[k] \in Nat /\ num'[k] \in Nat
      /\ Len(Entries(db, k)) \in Nat /\ Len(Entries(db', k)) \in Nat
      /\ num[k] + One(Pending(k)) = Len(Entries(db, k))
  BY EntriesLength, NumFields DEF LocksInv, Balanced, LockKinds
<1>8. PICK x \in Nat, y \in Nat :
         /\ x = One(Pushed(a) /\ Brings(a) = k) /\ y = One(Pushed(b) /\ Brings(b) = k)
  BY OneNat
<1>9. num'[k] + One(Pending(k)') = Len(Entries(db', k))
  <2>1. CASE others
    <3>1. x = 0 /\ y = 0
      BY <1>5, <1>6, <1>8, <2>1 DEF One
    <3>2. One(Pending(k)) = 1 /\ One(Pending(k)') = 1
      BY <1>4, <2>1 DEF One
    <3> QED BY <1>7, <1>8, <3>1, <3>2
  <2>2. CASE ~others
    <3>1. One(Pending(k)) = x /\ One(Pending(k)') = y
      BY <1>4, <1>8, <2>2 DEF One
    <3> QED BY <1>7, <1>8, <3>1
  <2> QED BY <2>1, <2>2
<1> QED BY <1>9 DEF Balanced, One, Entries

LEMMA InitLocksInv == Init => LocksInv
<1> SUFFICES ASSUME Init PROVE LocksInv
  OBVIOUS
<1>1. Tallied(InputDB(Inputs), Inputs, Len(Inputs))
  BY InputIsTallied, InsertsAssumption
<1>2. PICK d, last : /\ d = InputDB(Inputs)
                     /\ last = [unit |-> Len(d.uDB), bins |-> [l \in Lits |-> Len(d.bDB[l])],
                                ternary |-> Len(d.tDB), nary |-> Len(d.nDB)]
  OBVIOUS
<1>3. /\ d \in ClauseDBType
      /\ Len(d.uDB) \in Nat /\ Len(d.tDB) \in Nat /\ Len(d.nDB) \in Nat
      /\ \A l \in Lits : Len(d.bDB[l]) \in Nat
  <2>1. d \in ClauseDBType
    BY <1>1, <1>2 DEF Tallied
  <2>2. \A l \in Lits : Len(d.bDB[l]) \in Nat
    BY <2>1 DEF ClauseDBType
  <2> QED BY <2>1, <2>2, DbLengths
<1>4. last \in CountersType
  BY <1>2, <1>3 DEF CountersType
<1>5. PICK s0, s1, s2, s3 : /\ s0 = Sized(Inputs, 0, Len(Inputs)) /\ s1 = Sized(Inputs, 1, Len(Inputs))
                            /\ s2 = Sized(Inputs, 2, Len(Inputs)) /\ s3 = Sized(Inputs, 3, Len(Inputs))
  OBVIOUS
<1>6. s0 \in Nat /\ s1 \in Nat /\ s2 \in Nat /\ s3 \in Nat /\ Len(Inputs) \in Nat
  <2>1. Len(Inputs) \in Nat
    BY InsertsAssumption
  <2> QED BY <1>5, <2>1, SizedNext
<1>7. /\ Len(d.uDB) = s1 /\ Len(d.tDB) = s3
      /\ Len(Inputs) = s0 + s1 + s2 + s3 + Len(d.nDB)
  BY <1>1, <1>2, <1>5 DEF Tallied
<1>8. \A n \in Nat : Cardinality({i \in DOMAIN Inputs : Cardinality(Inputs[i]) = n})
                       = Sized(Inputs, n, Len(Inputs))
  <2>1. DOMAIN Inputs = 1..Len(Inputs)
    BY InsertsAssumption
  <2> QED BY <2>1 DEF Sized
<1>9. /\ db = d /\ lock = [k \in LockKinds |-> Nobody] /\ vec = InitVec
      /\ num = [unit |-> s1, binary |-> s2, ternary |-> s3, nary |-> Len(d.nDB),
                all |-> Len(Inputs) - s0]
      /\ ptrs = InputAddresses(d)
      /\ wk = [w \in Workers |-> [pc |-> "idle", done |-> 0, last |-> last, arg |-> last,
                                  size |-> 0, towatch |-> {}, read |-> 0]]
  BY <1>2, <1>5, <1>8 DEF Init, LockKinds, Shared
<1>10. PICK a : a = [pc |-> "idle", done |-> 0, last |-> last, arg |-> last,
                     size |-> 0, towatch |-> {}, read |-> 0]
  OBVIOUS
<1>11. a \in InsertType /\ \A w \in Workers : wk[w] = a
  BY <1>4, <1>9, <1>10 DEF InsertType, Places
<1>12. /\ a.pc = "idle" /\ a.done = 0 /\ a.last = last
       /\ last.ternary = Len(d.tDB) /\ last.nary = Len(d.nDB)
  BY <1>2, <1>10
<1>13. PICK t : t = Len(d.nDB)
  OBVIOUS
<1>20. /\ s0 \in Nat /\ s1 \in Nat /\ s2 \in Nat /\ s3 \in Nat /\ t \in Nat
       /\ Len(Inputs) - s0 = s1 + s2 + s3 + t
       /\ s3 <= Len(Inputs) /\ t <= Len(Inputs)
  <2>1. PICK m \in Nat : m = Len(Inputs)
    BY <1>6
  <2>2. /\ s0 \in Nat /\ s1 \in Nat /\ s2 \in Nat /\ s3 \in Nat /\ t \in Nat
        /\ m = s0 + s1 + s2 + s3 + t
    BY <1>3, <1>6, <1>7, <1>13, <2>1
  <2> QED BY <2>1, <2>2
<1>21. /\ num.unit = s1 /\ num.binary = s2 /\ num.ternary = s3 /\ num.nary = t
       /\ num.all = s1 + s2 + s3 + t
       /\ DOMAIN num = LockKinds \cup {"all"}
       /\ \E f : num = [k \in LockKinds \cup {"all"} |-> f[k]]
  <2>1. DOMAIN num = LockKinds \cup {"all"} /\ num = [k \in DOMAIN num |-> num[k]]
    BY <1>9 DEF LockKinds, Shared
  <2> QED BY <1>9, <1>13, <1>20, <2>1
<1>22. num \in NumType
  <2>1. num.all \in Nat
    BY <1>20, <1>21
  <2>2. \A k \in LockKinds \cup {"all"} : num[k] \in Nat
    BY <1>20, <1>21, <2>1 DEF LockKinds, Shared
  <2> QED BY <1>21, <2>2 DEF NumType
<1>14. wk \in [Workers -> InsertType] /\ DOMAIN lock = LockKinds
  BY <1>9, <1>10, <1>11
<1>15. \A w \in Workers : Holds(wk[w], w)
  BY <1>11, <1>12 DEF Holds
<1>16. ASSUME NEW w \in Workers PROVE Sound(wk[w], db, w)
  <2>1. Modest(a)
    <3>1. last.ternary <= Len(Inputs) + 0 /\ last.nary <= Len(Inputs) + 0
      <4>1. last.ternary = s3 /\ last.nary = t
        BY <1>7, <1>12, <1>13
      <4> QED BY <1>6, <1>20, <4>1
    <3> QED BY <1>12, <3>1 DEF Modest
  <2>2. Informed(a, d)
    BY <1>12 DEF Informed
  <2>3. OwnFlags(a, d, w)
    BY <1>3, <1>12 DEF OwnFlags, ClauseDBType
  <2> QED BY <1>9, <1>11, <1>12, <2>1, <2>2, <2>3 DEF Sound
<1>17. ASSUME NEW k \in Shared PROVE Balanced(k)
  <2>1. ~Pending(k)
    BY <1>11, <1>12 DEF Pending, Pushed
  <2>2. num[k] = Len(Entries(d, k)) /\ num[k] \in Nat
    BY <1>3, <1>7, <1>9 DEF Entries, Shared
  <2> QED BY <1>9, <2>1, <2>2 DEF Balanced, One
<1>18. CountsFit
  <2>1. num.all <= Total
    BY <1>20, <1>21 DEF Total
  <2> QED BY <1>11, <1>12, <2>1 DEF CountsFit
<1>19. NothingMoved
  BY <1>9 DEF NothingMoved, InputAddresses
<1> QED BY <1>3, <1>9, <1>14, <1>22, <1>15, <1>16, <1>17, <1>18, <1>19 DEF LocksInv

\* What a step of w has to show for the invariant.
LEMMA StepKeeps ==
    ASSUME LocksInv, NEW w \in Workers, NEW b \in InsertType, wk' = [wk EXCEPT ![w] = b],
           db' \in ClauseDBType, num' \in NumType, DOMAIN lock' = LockKinds,
           b.pc # "idle" => b.done < Len(Lemmas) /\ lock'[Brings(b)] = w,
           \A v \in Workers \ {w} :
              wk[v].pc # "idle" => lock'[Brings(wk[v])] = lock[Brings(wk[v])],
           Sound(b, db', w),
           \A v \in Workers \ {w} : Sound(wk[v], db', v),
           \A k \in Shared : Balanced(k)',
           CountsFit', NothingMoved'
    PROVE  LocksInv'
<1>1. wk \in [Workers -> InsertType] /\ \A u \in Workers : Holds(wk[u], u)
  BY DEF LocksInv
<1>2. wk' \in [Workers -> InsertType] /\ wk'[w] = b /\ \A v \in Workers \ {w} : wk'[v] = wk[v]
  BY <1>1
<1>3. \A u \in Workers : Holds(wk[u], u)'
  <2> SUFFICES ASSUME NEW u \in Workers
               PROVE  wk'[u].pc # "idle" => /\ wk'[u].done < Len(Lemmas)
                                            /\ lock'[Brings(wk'[u])] = u
    BY DEF Holds, Brings
  <2>1. CASE u = w
    BY <1>2, <2>1
  <2>2. CASE u # w
    BY <1>1, <1>2, <2>2 DEF Holds
  <2> QED BY <2>1, <2>2
<1>4. \A u \in Workers : Sound(wk'[u], db', u)
  BY <1>2
<1>5. \A u \in Workers : Sound(wk[u], db, u)'
  BY <1>4 DEF Sound, Brings, Modest, Informed, OwnFlags, Entries, Place, One
<1>6. \A k \in Shared : Balanced(k)'
  OBVIOUS
<1> QED BY <1>2, <1>3, <1>5, <1>6 DEF LocksInv, Shared

LEMMA CountsKept ==
    ASSUME LocksInv, NEW w \in Workers, NEW b, wk' = [wk EXCEPT ![w] = b],
           num' = num, b.pc # "store"
    PROVE  CountsFit'
<1>1. \A v \in Workers : wk'[v] = b \/ wk'[v] = wk[v]
  BY DEF LocksInv
<1>2. Total' = Total
  BY DEF Total
<1> QED BY <1>1, <1>2 DEF LocksInv, CountsFit

\* A step that leaves the lists as long as they are, and their counters alone.
LEMMA BalanceSame ==
    ASSUME LocksInv, NEW w \in Workers, NEW a, a = wk[w], NEW b \in InsertType,
           wk' = [wk EXCEPT ![w] = b], db' \in ClauseDBType, num' = num,
           Pushed(b) <=> Pushed(a), Pushed(b) => Brings(b) = Brings(a),
           \A k \in Shared : Len(Entries(db', k)) = Len(Entries(db, k))
    PROVE  \A k \in Shared : Balanced(k)'
<1> SUFFICES ASSUME NEW k \in Shared PROVE Balanced(k)'
  OBVIOUS
<1>1. num' \in NumType /\ db \in ClauseDBType
  BY DEF LocksInv
<1>2. Pushed(b) => a.pc # "idle" /\ Brings(b) = Brings(a)
  BY DEF Pushed
<1>3. One(Pushed(b) /\ Brings(b) = k) = One(Pushed(a) /\ Brings(a) = k)
  BY DEF One
<1>4. num'[k] + One(Pushed(b) /\ Brings(b) = k) + Len(Entries(db, k))
        = num[k] + One(Pushed(a) /\ Brings(a) = k) + Len(Entries(db', k))
  BY <1>3
<1> QED BY <1>1, <1>2, <1>4, BalanceKept

LEMMA CountedFields ==
    ASSUME NEW last \in CountersType, NEW n \in Nat, n < Len(Lemmas), NEW c, c = Lemmas[n + 1]
    PROVE  /\ Counted(last, c) \in CountersType
           /\ Counted(last, c).ternary = last.ternary + One(KindOf(c) = "ternary")
           /\ Counted(last, c).nary = last.nary + One(KindOf(c) = "nary")
<1>1. /\ c \in Seq(Lits) /\ Len(c) \in Nat /\ Len(c) > 0
      /\ (KindOf(c) = "ternary" <=> Len(c) = 3) /\ (KindOf(c) = "nary" <=> Len(c) > 3)
  BY LemmaKinds
<1>2. PICK m : m = Len(c)
  OBVIOUS
<1>3. m \in Nat /\ m > 0
  BY <1>1, <1>2
<1>4. PICK r : r = Counted(last, c)
  OBVIOUS
<1>5. last.unit \in Nat /\ last.bins \in [Lits -> Nat] /\ last.ternary \in Nat /\ last.nary \in Nat
  BY DEF CountersType
<1>6. CASE m = 1
  <2>1. r = [last EXCEPT !.unit = @ + 1]
    BY <1>2, <1>4, <1>6 DEF Counted
  <2>2. r \in CountersType /\ r.ternary = last.ternary /\ r.nary = last.nary
    BY <1>5, <2>1 DEF CountersType
  <2> QED BY <1>1, <1>2, <1>4, <1>5, <1>6, <2>2 DEF One
<1>7. CASE m = 2
  <2>1. PICK x, y : x = -c[1] /\ y = -c[2]
    OBVIOUS
  <2>2. r = [last EXCEPT !.bins[x] = @ + 1, !.bins[y] = @ + 1]
    BY <1>2, <1>4, <1>7, <2>1 DEF Counted
  <2>3. r \in CountersType /\ r.ternary = last.ternary /\ r.nary = last.nary
    <3>1. PICK B : B = [last.bins EXCEPT ![x] = @ + 1, ![y] = @ + 1]
      OBVIOUS
    <3>2. B \in [Lits -> Nat]
      <4>1. c[1] \in Lits /\ c[2] \in Lits
        <5>1. c \in Seq(Lits) /\ Len(c) = 2
          BY <1>1, <1>2, <1>7
        <5> QED BY <5>1
      <4>2. x \in Lits /\ y \in Lits
        BY <2>1, <4>1, LitFacts
      <4>3. last.bins[x] + 1 \in Nat /\ last.bins[y] + 1 \in Nat
        BY <1>5, <4>2
      <4>4. B = [[last.bins EXCEPT ![x] = last.bins[x] + 1] EXCEPT ![y] = B[y]] /\ B[y] \in Nat
        BY <1>5, <3>1, <4>2, <4>3
      <4> QED BY <1>5, <4>2, <4>3, <4>4
    <3>3. r = [last EXCEPT !.bins = B]
      BY <2>2, <3>1 DEF CountersType
    <3> QED BY <3>2, <3>3 DEF CountersType
  <2> QED BY <1>1, <1>2, <1>4, <1>5, <1>7, <2>3 DEF One
<1>8. CASE m = 3
  <2>1. r = [last EXCEPT !.ternary = @ + 1]
    BY <1>2, <1>4, <1>8 DEF Counted
  <2>2. r \in CountersType /\ r.ternary = last.ternary + 1 /\ r.nary = last.nary
    BY <1>5, <2>1 DEF CountersType
  <2> QED BY <1>1, <1>2, <1>4, <1>5, <1>8, <2>2 DEF One
<1>9. CASE m > 3
  <2>1. r = [last EXCEPT !.nary = @ + 1]
    BY <1>2, <1>3, <1>4, <1>9 DEF Counted
  <2>2. r \in CountersType /\ r.ternary = last.ternary /\ r.nary = last.nary + 1
    BY <1>5, <2>1 DEF CountersType
  <2> QED BY <1>1, <1>2, <1>4, <1>5, <1>9, <2>2 DEF One
<1> QED BY <1>3, <1>6, <1>7, <1>8, <1>9
-----------------------------------------------------------------------------
(* The steps of an insert *)

LEMMA AcquireKeeps ==
    ASSUME LocksInv, NEW w \in Workers, Acquire(w)
    PROVE  LocksInv'
<1>1. PICK a, c, k : a = wk[w] /\ c = Lemmas[a.done + 1] /\ k = KindOf(c)
  OBVIOUS
<1>2. PICK b : b = [a EXCEPT !.pc = "locked", !.arg = a.last, !.last = Counted(a.last, c)]
  OBVIOUS
<1>3. /\ a.pc = "idle" /\ a.done < Len(Lemmas) /\ lock[k] = Nobody
      /\ lock' = [lock EXCEPT ![k] = w] /\ UNCHANGED <<db, num, vec, ptrs>>
  BY <1>1 DEF Acquire, Call, At, Kind, Lemma
<1>4. wk \in [Workers -> InsertType] /\ a \in InsertType /\ \A u \in Workers : Holds(wk[u], u)
  BY <1>1 DEF LocksInv
<1>5. /\ a.done \in Nat /\ a.last \in CountersType
      /\ a.last.ternary \in Nat /\ a.last.nary \in Nat
      /\ DOMAIN a = {"pc", "done", "last", "arg", "size", "towatch", "read"}
  BY <1>4, InsertFields
<1>6. wk' = [wk EXCEPT ![w] = b]
  <2>1. wk' = [wk EXCEPT ![w].pc = "locked", ![w].arg = wk[w].last,
                         ![w].last = Counted(@, Lemmas[wk[w].done + 1])]
    BY DEF Acquire, Call, Lemma
  <2> QED BY <1>1, <1>2, <1>4, <2>1
<1>7. /\ Counted(a.last, c) \in CountersType
      /\ Counted(a.last, c).ternary = a.last.ternary + One(k = "ternary")
      /\ Counted(a.last, c).nary = a.last.nary + One(k = "nary")
  BY <1>1, <1>3, <1>5, CountedFields
<1>8. k \in LockKinds
  BY <1>1, <1>3, <1>5, LemmaKinds
<1>9. /\ b.pc = "locked" /\ b.done = a.done /\ b.arg = a.last /\ b.last = Counted(a.last, c)
      /\ b \in InsertType
  <2>1. "locked" \in Places
    BY DEF Places
  <2> QED BY <1>2, <1>4, <1>5, <1>7, <2>1 DEF InsertType
<1>10. Brings(b) = k
  BY <1>1, <1>9 DEF Brings
<1>11. DOMAIN lock' = LockKinds /\ lock'[k] = w
  BY <1>3, <1>8 DEF LocksInv
<1>12. ASSUME NEW v \in Workers \ {w}, wk[v].pc # "idle"
       PROVE  lock'[Brings(wk[v])] = lock[Brings(wk[v])]
  <2>1. lock[Brings(wk[v])] = v
    BY <1>4, <1>12 DEF Holds
  <2>2. Brings(wk[v]) # k
    BY <1>3, <2>1, InsertsAssumption
  <2> QED BY <1>3, <2>2
<1>13. Sound(a, db, w)
  BY <1>1 DEF LocksInv
<1>14. Modest(b)
  BY <1>3, <1>7, <1>9, <1>10, <1>13 DEF Sound, Modest
<1>15. OwnFlags(b, db, w)
  <2>1. OwnFlags(a, db, w)
    BY <1>13 DEF Sound
  <2> QED BY <1>3, <1>9, <2>1 DEF OwnFlags
<1>16. Sound(b, db, w)
  BY <1>9, <1>14, <1>15 DEF Sound, Informed
<1>17. \A v \in Workers \ {w} : Sound(wk[v], db, v)
  BY DEF LocksInv
<1>18. \A j \in Shared : Balanced(j)'
  BY <1>1, <1>3, <1>6, <1>9, BalanceSame DEF LocksInv, Pushed
<1>19. CountsFit' /\ NothingMoved'
  BY <1>3, <1>6, <1>9, CountsKept DEF LocksInv, NothingMoved
<1> QED BY <1>3, <1>6, <1>9, <1>10, <1>11, <1>12, <1>16, <1>17, <1>18, <1>19, StepKeeps DEF LocksInv

\* What every step of an insert starts from.
LEMMA InsertStarts ==
    ASSUME LocksInv, NEW w \in Workers, NEW a, a = wk[w], a.pc # "idle",
           NEW c, c = Lemmas[a.done + 1], NEW k, k = KindOf(c)
    PROVE  /\ wk \in [Workers -> InsertType] /\ a \in InsertType
           /\ db \in ClauseDBType /\ num \in NumType /\ DOMAIN lock = LockKinds
           /\ a.done \in Nat /\ a.done < Len(Lemmas) /\ lock[k] = w
           /\ Brings(a) = k /\ Kind(w) = k /\ Lemma(w) = c /\ Position(w) = Place(a)
           /\ c \in Seq(Lits) /\ Len(c) \in Nat /\ Len(c) > 0 /\ k \in LockKinds
           /\ (k = "unit" <=> Len(c) = 1) /\ (k = "binary" <=> Len(c) = 2)
           /\ (k = "ternary" <=> Len(c) = 3) /\ (k = "nary" <=> Len(c) > 3)
           /\ Sound(a, db, w)
<1>1. /\ wk \in [Workers -> InsertType] /\ a \in InsertType
      /\ db \in ClauseDBType /\ num \in NumType /\ DOMAIN lock = LockKinds
      /\ Holds(a, w) /\ Sound(a, db, w)
  BY DEF LocksInv
<1>2. Brings(a) = k /\ Kind(w) = k /\ Lemma(w) = c /\ Position(w) = Place(a)
  BY DEF Brings, Kind, Lemma, Position, Place
<1>3. a.done \in Nat
  BY <1>1, InsertFields
<1>4. a.done < Len(Lemmas) /\ lock[k] = w
  BY <1>1, <1>2 DEF Holds
<1>5. /\ c \in Seq(Lits) /\ Len(c) \in Nat /\ Len(c) > 0 /\ k \in LockKinds
      /\ (k = "unit" <=> Len(c) = 1) /\ (k = "binary" <=> Len(c) = 2)
      /\ (k = "ternary" <=> Len(c) = 3) /\ (k = "nary" <=> Len(c) > 3)
  BY <1>3, <1>4, LemmaKinds
<1> QED BY <1>1, <1>2, <1>3, <1>4, <1>5

\* The other workers when the database stays as it is.
LEMMA OthersSame ==
    ASSUME LocksInv, NEW w \in Workers
    PROVE  \A v \in Workers \ {w} : Sound(wk[v], db, v)
BY DEF LocksInv

LEMMA PlaceFacts ==
    ASSUME NEW a \in InsertType
    PROVE  /\ Brings(a) = "unit" => Place(a) = a.arg.unit
           /\ Brings(a) = "ternary" => Place(a) = a.arg.ternary
           /\ Brings(a) = "nary" => Place(a) = a.arg.nary
           /\ Brings(a) \in Shared => Place(a) \in Nat
<1>1. /\ Brings(a) = "unit" => Place(a) = a.arg.unit
      /\ Brings(a) = "ternary" => Place(a) = a.arg.ternary
      /\ Brings(a) = "nary" => Place(a) = a.arg.nary
  BY DEF Place
<1> QED BY <1>1, InsertFields DEF Shared

LEMMA ReadSizeKeeps ==
    ASSUME LocksInv, NEW w \in Workers, ReadSize(w)
    PROVE  LocksInv'
<1>1. PICK a, c, k : a = wk[w] /\ c = Lemmas[a.done + 1] /\ k = KindOf(c)
  OBVIOUS
<1>2. PICK list, next : /\ list = ListOf(w)
                        /\ next = IF AlreadyInList(list, FALSE, Position(w)) THEN "found"
                                                                            ELSE "push"
  OBVIOUS
<1>3. PICK b : b = [a EXCEPT !.size = Len(list), !.pc = next]
  OBVIOUS
<1>4. /\ a.pc = "locked" /\ UNCHANGED <<db, num, lock, vec, ptrs>>
      /\ wk' = [wk EXCEPT ![w].size = Len(list), ![w].pc = next]
  BY <1>1, <1>2 DEF ReadSize, At
<1>5. a.pc # "idle"
  BY <1>4
<1>6. /\ wk \in [Workers -> InsertType] /\ a \in InsertType
      /\ a.done \in Nat /\ a.done < Len(Lemmas) /\ lock[k] = w
      /\ Brings(a) = k /\ Kind(w) = k /\ Lemma(w) = c /\ Position(w) = Place(a)
      /\ c \in Seq(Lits) /\ Len(c) > 0 /\ k \in LockKinds /\ Sound(a, db, w)
      /\ db \in ClauseDBType /\ num \in NumType /\ DOMAIN lock = LockKinds
  BY <1>1, <1>5, InsertStarts
<1>7. wk' = [wk EXCEPT ![w] = b]
  BY <1>1, <1>3, <1>4, <1>6
<1>8. Len(list) \in Nat /\ (k \in Shared => list = Entries(db, k))
  <2>1. k \in Shared => list = Entries(db, k)
    BY <1>2, <1>6 DEF ListOf, Entries, Shared
  <2>2. k \in Shared => Len(Entries(db, k)) \in Nat
    BY <1>6, EntriesLength
  <2>3. k = "binary" => Len(list) \in Nat
    <3>1. c[1] \in Lits
      BY <1>6
    <3>2. -c[1] \in Lits
      BY <3>1, LitFacts
    <3>3. db.bDB[-c[1]] \in Seq(Lits)
      BY <1>6, <3>2 DEF ClauseDBType
    <3> QED BY <1>2, <1>6, <3>3 DEF ListOf
  <2> QED BY <1>6, <2>1, <2>2, <2>3 DEF LockKinds
<1>9. next \in {"found", "push"} /\ next \in Places
  BY <1>2 DEF Places
<1>10. DOMAIN a = {"pc", "done", "last", "arg", "size", "towatch", "read"}
  BY <1>6, InsertFields
<1>11. /\ b.pc = next /\ b.size = Len(list) /\ b.done = a.done /\ b.arg = a.arg /\ b.last = a.last
       /\ b \in InsertType
  BY <1>3, <1>6, <1>8, <1>9, <1>10 DEF InsertType
<1>12. Brings(b) = k /\ Place(b) = Place(a)
  BY <1>6, <1>11 DEF Brings, Place
<1>13. b.pc # "idle" /\ b.pc # "store" /\ ~Pushed(b) /\ ~Pushed(a)
  BY <1>4, <1>9, <1>11 DEF Pushed
<1>14. Modest(b)
  BY <1>4, <1>6, <1>11, <1>12, <1>13 DEF Sound, Modest
<1>15. OwnFlags(b, db, w)
  <2>1. OwnFlags(a, db, w)
    BY <1>6 DEF Sound
  <2> QED BY <1>4, <1>9, <1>11, <2>1 DEF OwnFlags
<1>16. Informed(b, db)
  <2> SUFFICES ASSUME k \in Shared PROVE Informed(b, db)
    BY <1>12 DEF Informed
  <2>1. PICK n, p : n = Len(list) /\ p = Place(a) /\ n \in Nat
    BY <1>8
  <2>2. p \in Nat
    BY <1>6, <2>1, PlaceFacts
  <2>3. (next = "found" => n > p) /\ (next = "push" => n <= p)
    BY <1>2, <1>6, <2>1, <2>2 DEF AlreadyInList
  <2>4. n = Len(Entries(db, k))
    BY <1>8, <2>1
  <2> QED BY <1>9, <1>11, <1>12, <2>1, <2>2, <2>3, <2>4 DEF Informed
<1>17. Sound(b, db, w)
  BY <1>9, <1>11, <1>14, <1>15, <1>16 DEF Sound
<1>18. \A j \in Shared : Balanced(j)'
  BY <1>1, <1>4, <1>6, <1>7, <1>11, <1>13, BalanceSame
<1>19. CountsFit' /\ NothingMoved'
  BY <1>4, <1>7, <1>13, CountsKept DEF LocksInv, NothingMoved
<1> QED BY <1>4, <1>6, <1>7, <1>11, <1>12, <1>17, <1>18, <1>19, OthersSame, StepKeeps

LEMMA ReleaseKeeps ==
    ASSUME LocksInv, NEW w \in Workers, Release(w)
    PROVE  LocksInv'
<1>1. PICK a, c, k : a = wk[w] /\ c = Lemmas[a.done + 1] /\ k = KindOf(c)
  OBVIOUS
<1>2. PICK b : b = [a EXCEPT !.pc = "idle", !.done = @ + 1]
  OBVIOUS
<1>3. /\ a.pc = "unlock" /\ UNCHANGED <<db, num, vec, ptrs>>
      /\ lock' = [lock EXCEPT ![Kind(w)] = Nobody]
      /\ wk' = [wk EXCEPT ![w].pc = "idle", ![w].done = @ + 1]
  BY <1>1 DEF Release, At
<1>4. a.pc # "idle"
  BY <1>3
<1>5. /\ wk \in [Workers -> InsertType] /\ a \in InsertType
      /\ a.done \in Nat /\ a.done < Len(Lemmas) /\ lock[k] = w
      /\ Brings(a) = k /\ Kind(w) = k /\ k \in LockKinds /\ Sound(a, db, w)
      /\ db \in ClauseDBType /\ num \in NumType /\ DOMAIN lock = LockKinds
  BY <1>1, <1>4, InsertStarts
<1>6. wk' = [wk EXCEPT ![w] = b]
  BY <1>1, <1>2, <1>3, <1>5
<1>7. /\ DOMAIN a = {"pc", "done", "last", "arg", "size", "towatch", "read"}
      /\ a.arg.ternary \in Nat /\ a.arg.nary \in Nat
  BY <1>5, InsertFields
<1>8. /\ b.pc = "idle" /\ b.done = a.done + 1 /\ b.arg = a.arg /\ b.last = a.last
      /\ b \in InsertType
  <2>1. "idle" \in Places /\ a.done + 1 \in Nat
    BY <1>5 DEF Places
  <2> QED BY <1>2, <1>5, <1>7, <2>1 DEF InsertType
<1>9. DOMAIN lock' = LockKinds
  BY <1>3, <1>5
<1>10. ASSUME NEW v \in Workers \ {w}, wk[v].pc # "idle"
       PROVE  lock'[Brings(wk[v])] = lock[Brings(wk[v])]
  <2>1. Brings(wk[v]) # k
    BY <1>1, <1>4, <1>5, <1>10, OneInserts DEF LocksInv
  <2> QED BY <1>3, <1>5, <2>1
<1>11. Modest(b)
  <2>1. Modest(a)
    BY <1>5 DEF Sound
  <2>2. Len(Inputs) \in Nat
    BY InsertsAssumption
  <2>3. PICK x, y, p, q, m, n :
           /\ x = One(Brings(a) = "ternary") /\ y = One(Brings(a) = "nary")
           /\ p = a.arg.ternary /\ q = a.arg.nary /\ m = Len(Inputs) /\ n = a.done
    OBVIOUS
  <2>4. /\ x \in Nat /\ y \in Nat /\ x <= 1 /\ y <= 1
        /\ p \in Nat /\ q \in Nat /\ m \in Nat /\ n \in Nat
    BY <1>5, <1>7, <2>2, <2>3, OneNat
  <2>5. /\ p <= m + n /\ q <= m + n
        /\ a.last.ternary = p + x /\ a.last.nary = q + y
    BY <1>4, <2>1, <2>3 DEF Modest
  <2>6. p + x <= m + (n + 1) /\ q + y <= m + (n + 1)
    BY <2>4, <2>5
  <2>7. b.last.ternary <= Len(Inputs) + b.done /\ b.last.nary <= Len(Inputs) + b.done
    BY <1>8, <2>3, <2>5, <2>6
  <2> QED BY <1>8, <2>7 DEF Modest
<1>12. OwnFlags(b, db, w)
  <2>1. OwnFlags(a, db, w)
    BY <1>5 DEF Sound
  <2> QED BY <1>3, <1>8, <2>1 DEF OwnFlags
<1>13. Sound(b, db, w)
  BY <1>8, <1>11, <1>12 DEF Sound, Informed
<1>14. ~Pushed(a) /\ ~Pushed(b) /\ b.pc # "store"
  BY <1>3, <1>8 DEF Pushed
<1>15. \A j \in Shared : Balanced(j)'
  BY <1>1, <1>3, <1>5, <1>6, <1>8, <1>14, BalanceSame
<1>16. CountsFit' /\ NothingMoved'
  BY <1>3, <1>6, <1>14, CountsKept DEF LocksInv, NothingMoved
<1> QED BY <1>3, <1>5, <1>6, <1>8, <1>9, <1>10, <1>13, <1>15, <1>16, OthersSame, StepKeeps

LEMMA CountKindKeeps ==
    ASSUME LocksInv, NEW w \in Workers, CountKind(w)
    PROVE  LocksInv'
<1>1. PICK a, c, k : a = wk[w] /\ c = Lemmas[a.done + 1] /\ k = KindOf(c)
  OBVIOUS
<1>2. PICK b : b = [a EXCEPT !.pc = "store", !.read = num.all]
  OBVIOUS
<1>3. /\ a.pc = "count" /\ UNCHANGED <<db, lock, vec, ptrs>>
      /\ num' = [num EXCEPT ![Kind(w)] = @ + 1]
      /\ wk' = [wk EXCEPT ![w].pc = "store", ![w].read = num.all]
  BY <1>1 DEF CountKind, At
<1>4. a.pc # "idle"
  BY <1>3
<1>5. /\ wk \in [Workers -> InsertType] /\ a \in InsertType
      /\ a.done \in Nat /\ a.done < Len(Lemmas) /\ lock[k] = w
      /\ Brings(a) = k /\ Kind(w) = k /\ k \in LockKinds /\ Sound(a, db, w)
      /\ db \in ClauseDBType /\ num \in NumType /\ DOMAIN lock = LockKinds
  BY <1>1, <1>4, InsertStarts
<1>6. wk' = [wk EXCEPT ![w] = b]
  BY <1>1, <1>2, <1>3, <1>5
<1>7. /\ DOMAIN a = {"pc", "done", "last", "arg", "size", "towatch", "read"}
      /\ num.unit \in Nat /\ num.binary \in Nat /\ num.ternary \in Nat /\ num.nary \in Nat
      /\ num.all \in Nat /\ \A j \in LockKinds : num[j] \in Nat
      /\ DOMAIN num = {"unit", "ternary", "nary", "binary", "all"}
  BY <1>5, InsertFields, NumFields
<1>8. /\ b.pc = "store" /\ b.read = num.all /\ b.done = a.done /\ b.arg = a.arg
      /\ b.last = a.last /\ b.size = a.size /\ b \in InsertType
  <2>1. "store" \in Places
    BY DEF Places
  <2> QED BY <1>2, <1>5, <1>7, <2>1 DEF InsertType
<1>9. Brings(b) = k
  BY <1>1, <1>8 DEF Brings
<1>10. /\ num'[k] = num[k] + 1 /\ num'.all = num.all
       /\ \A j \in LockKinds \ {k} : num'[j] = num[j]
  BY <1>3, <1>5, <1>7 DEF LockKinds, Shared
<1>11. num' \in NumType
  <2>1. num[k] + 1 \in Nat
    BY <1>5, <1>7
  <2> QED BY <1>3, <1>5, <2>1 DEF NumType
<1>12. Total' = Total + 1 /\ Total \in Nat
  <2>1. k \in {"unit", "binary", "ternary", "nary"}
    BY <1>5 DEF LockKinds, Shared
  <2>2. {"unit", "binary", "ternary", "nary"} = LockKinds
    BY DEF LockKinds, Shared
  <2>3. CASE k = "unit"
    BY <1>7, <1>10, <2>2, <2>3 DEF Total
  <2>4. CASE k = "binary"
    BY <1>7, <1>10, <2>2, <2>4 DEF Total
  <2>5. CASE k = "ternary"
    BY <1>7, <1>10, <2>2, <2>5 DEF Total
  <2>6. CASE k = "nary"
    BY <1>7, <1>10, <2>2, <2>6 DEF Total
  <2> QED BY <2>1, <2>3, <2>4, <2>5, <2>6
<1>13. Sound(b, db, w)
  <2>1. Modest(b)
    BY <1>4, <1>5, <1>8, <1>9 DEF Sound, Modest
  <2>2. Informed(b, db)
    BY <1>3, <1>4, <1>5, <1>8, <1>9 DEF Sound, Informed
  <2>3. OwnFlags(b, db, w)
    BY <1>3, <1>5, <1>8 DEF Sound, OwnFlags
  <2> QED BY <1>8, <2>1, <2>2, <2>3 DEF Sound
<1>14. Pushed(a) /\ ~Pushed(b)
  BY <1>3, <1>8 DEF Pushed
<1>15. ASSUME NEW j \in Shared PROVE Balanced(j)'
  <2>1. One(Pushed(b) /\ Brings(b) = j) = 0
    BY <1>14 DEF One
  <2>2. num'[j] = num[j] + One(Pushed(a) /\ Brings(a) = j)
    <3>1. j \in LockKinds
      BY DEF LockKinds
    <3>2. CASE j = k
      BY <1>5, <1>10, <1>14, <3>2 DEF One
    <3>3. CASE j # k
      BY <1>5, <1>7, <1>10, <3>1, <3>3 DEF One
    <3> QED BY <3>2, <3>3
  <2>3. Len(Entries(db, j)) \in Nat /\ num[j] \in Nat /\ num'[j] \in Nat
    BY <1>5, <1>11, EntriesLength, NumFields DEF LockKinds
  <2>4. num'[j] + One(Pushed(b) /\ Brings(b) = j) + Len(Entries(db, j))
          = num[j] + One(Pushed(a) /\ Brings(a) = j) + Len(Entries(db', j))
    <3>1. PICK x : x = One(Pushed(a) /\ Brings(a) = j)
      OBVIOUS
    <3>2. num'[j] + 0 + Len(Entries(db, j)) = num[j] + x + Len(Entries(db, j))
      BY <2>2, <2>3, <3>1, OneNat
    <3> QED BY <1>3, <2>1, <3>1, <3>2
  <2>5. /\ a = wk[w] /\ b \in InsertType /\ db' \in ClauseDBType
        /\ (Pushed(b) => a.pc # "idle" /\ Brings(b) = Brings(a))
    BY <1>1, <1>3, <1>5, <1>8, <1>14
  <2> QED BY <1>6, <1>11, <2>4, <2>5, BalanceKept
<1>16. CountsFit'
  <2>1. num.all <= Total /\ \A v \in Workers : wk[v].pc = "store" => wk[v].read + 1 <= Total
    BY DEF LocksInv, CountsFit
  <2>2. num'.all <= Total'
    BY <1>7, <1>10, <1>12, <2>1
  <2>3. ASSUME NEW v \in Workers, wk'[v].pc = "store" PROVE wk'[v].read + 1 <= Total'
    <3>1. CASE v = w
      BY <1>5, <1>6, <1>7, <1>8, <1>12, <2>1, <3>1
    <3>2. CASE v # w
      <4>1. wk'[v] = wk[v] /\ wk[v].read \in Nat
        BY <1>5, <1>6, <3>2, InsertFields
      <4> QED BY <1>12, <2>1, <2>3, <4>1
    <3> QED BY <3>1, <3>2
  <2> QED BY <2>2, <2>3 DEF CountsFit, Total
<1>17. NothingMoved'
  BY <1>3 DEF LocksInv, NothingMoved
<1> QED BY <1>3, <1>5, <1>6, <1>8, <1>9, <1>11, <1>13, <1>15, <1>16, <1>17, OthersSame, StepKeeps

LEMMA StoreNumClausesKeeps ==
    ASSUME LocksInv, NEW w \in Workers, StoreNumClauses(w)
    PROVE  LocksInv'
<1>1. PICK a, c, k : a = wk[w] /\ c = Lemmas[a.done + 1] /\ k = KindOf(c)
  OBVIOUS
<1>2. PICK b : b = [a EXCEPT !.pc = "unlock"]
  OBVIOUS
<1>3. /\ a.pc = "store" /\ UNCHANGED <<db, lock, vec, ptrs>>
      /\ num' = [num EXCEPT !.all = a.read + 1]
      /\ wk' = [wk EXCEPT ![w].pc = "unlock"]
  BY <1>1 DEF StoreNumClauses, At
<1>4. a.pc # "idle"
  BY <1>3
<1>5. /\ wk \in [Workers -> InsertType] /\ a \in InsertType
      /\ a.done \in Nat /\ a.done < Len(Lemmas) /\ lock[k] = w
      /\ Brings(a) = k /\ k \in LockKinds /\ Sound(a, db, w)
      /\ db \in ClauseDBType /\ num \in NumType /\ DOMAIN lock = LockKinds
  BY <1>1, <1>4, InsertStarts
<1>6. wk' = [wk EXCEPT ![w] = b]
  BY <1>1, <1>2, <1>3, <1>5
<1>7. /\ DOMAIN a = {"pc", "done", "last", "arg", "size", "towatch", "read"}
      /\ a.read \in Nat
  BY <1>5, InsertFields
<1>8. /\ b.pc = "unlock" /\ b.done = a.done /\ b.arg = a.arg /\ b.last = a.last
      /\ b.size = a.size /\ b \in InsertType
  <2>1. "unlock" \in Places
    BY DEF Places
  <2> QED BY <1>2, <1>5, <1>7, <2>1 DEF InsertType
<1>9. Brings(b) = k
  BY <1>1, <1>8 DEF Brings
<1>10. /\ num'.all = a.read + 1 /\ a.read + 1 \in Nat
       /\ \A j \in LockKinds : num'[j] = num[j]
  BY <1>3, <1>5, <1>7 DEF NumType, LockKinds, Shared
<1>11. num' \in NumType
  BY <1>3, <1>5, <1>10 DEF NumType
<1>12. Sound(b, db, w)
  <2>1. Modest(b)
    BY <1>4, <1>5, <1>8, <1>9 DEF Sound, Modest
  <2>2. Informed(b, db)
    BY <1>8 DEF Informed
  <2>3. OwnFlags(b, db, w)
    BY <1>3, <1>5, <1>8 DEF Sound, OwnFlags
  <2> QED BY <1>8, <2>1, <2>2, <2>3 DEF Sound
<1>13. ~Pushed(a) /\ ~Pushed(b)
  BY <1>3, <1>8 DEF Pushed
<1>14. ASSUME NEW j \in Shared PROVE Balanced(j)'
  <2>1. One(Pushed(b) /\ Brings(b) = j) = 0 /\ One(Pushed(a) /\ Brings(a) = j) = 0
    BY <1>13 DEF One
  <2>2. num'[j] = num[j]
    BY <1>10 DEF LockKinds
  <2>3. num'[j] + One(Pushed(b) /\ Brings(b) = j) + Len(Entries(db, j))
          = num[j] + One(Pushed(a) /\ Brings(a) = j) + Len(Entries(db', j))
    BY <1>3, <2>1, <2>2
  <2>4. /\ a = wk[w] /\ b \in InsertType /\ db' \in ClauseDBType
        /\ (Pushed(b) => a.pc # "idle" /\ Brings(b) = Brings(a))
    BY <1>1, <1>3, <1>5, <1>8, <1>13
  <2> QED BY <1>6, <1>11, <2>3, <2>4, BalanceKept
<1>15. CountsFit'
  <2>1. num.all <= Total /\ \A v \in Workers : wk[v].pc = "store" => wk[v].read + 1 <= Total
    BY DEF LocksInv, CountsFit
  <2>2. Total' = Total
    BY <1>10 DEF Total, LockKinds, Shared
  <2>3. num'.all <= Total'
    BY <1>1, <1>3, <1>10, <2>1, <2>2
  <2>4. ASSUME NEW v \in Workers, wk'[v].pc = "store" PROVE wk'[v].read + 1 <= Total'
    <3>1. wk'[v] = wk[v]
      BY <1>5, <1>6, <1>8, <2>4
    <3> QED BY <2>1, <2>2, <2>4, <3>1
  <2> QED BY <2>3, <2>4 DEF CountsFit, Total
<1>16. NothingMoved'
  BY <1>3 DEF LocksInv, NothingMoved
<1> QED BY <1>3, <1>5, <1>6, <1>8, <1>9, <1>11, <1>12, <1>14, <1>15, <1>16, OthersSame, StepKeeps

\* The worker of insert a goes to p.
Moved(a, p, t) == [a EXCEPT !.pc = p, !.towatch = t]

\* A step inside an insert, which keeps its lock and counts nothing.
LEMMA InsertMoves ==
    ASSUME LocksInv, NEW w \in Workers, NEW a, a = wk[w], a.pc # "idle",
           NEW b, NEW p \in Places, p \notin {"idle", "store"}, NEW t \in SUBSET Lits,
           b = Moved(a, p, t), wk' = [wk EXCEPT ![w] = b],
           lock' = lock, num' = num, db' \in ClauseDBType,
           p = "watch" => Brings(a) = "ternary",
           b \in InsertType => /\ Informed(b, db') /\ OwnFlags(b, db', w)
                               /\ \A j \in Shared : Balanced(j)',
           \A v \in Workers \ {w} : Sound(wk[v], db', v),
           NothingMoved'
    PROVE  LocksInv'
<1>1. PICK c, k : c = Lemmas[a.done + 1] /\ k = KindOf(c)
  OBVIOUS
<1>2. /\ wk \in [Workers -> InsertType] /\ a \in InsertType
      /\ a.done < Len(Lemmas) /\ lock[k] = w /\ Brings(a) = k /\ Sound(a, db, w)
      /\ num \in NumType /\ DOMAIN lock = LockKinds
  BY <1>1, InsertStarts
<1>3. DOMAIN a = {"pc", "done", "last", "arg", "size", "towatch", "read"}
  BY <1>2, InsertFields
<1>4. /\ b.pc = p /\ b.done = a.done /\ b.arg = a.arg /\ b.last = a.last /\ b.size = a.size
      /\ b \in InsertType
  BY <1>2, <1>3 DEF InsertType, Moved
<1>5. Brings(b) = k
  BY <1>1, <1>4 DEF Brings
<1>6. Modest(b)
  <2>1. Modest(a)
    BY <1>2 DEF Sound
  <2> QED BY <1>2, <1>4, <1>5, <2>1 DEF Modest
<1>7. Sound(b, db', w)
  BY <1>2, <1>4, <1>5, <1>6 DEF Sound
<1>8. CountsFit'
  BY <1>4, CountsKept
<1> QED BY <1>2, <1>4, <1>5, <1>7, <1>8, StepKeeps

\* A step inside an insert as a step of wk, whatever else it sets.
LEMMA InsertFacts ==
    ASSUME LocksInv, NEW w \in Workers, NEW a, a = wk[w], a.pc # "idle",
           NEW p, NEW t, NEW b, b = Moved(a, p, t), b \in InsertType
    PROVE  /\ b.pc = p /\ b.done = a.done /\ b.arg = a.arg /\ b.last = a.last
           /\ b.size = a.size /\ b.towatch = t /\ Brings(b) = Brings(a) /\ Place(b) = Place(a)
           /\ a.last.ternary \in Nat /\ a.arg.ternary \in Nat
           /\ a.last.nary \in Nat /\ a.arg.nary \in Nat
           /\ a.last.ternary = a.arg.ternary + One(Brings(a) = "ternary")
           /\ a.last.nary = a.arg.nary + One(Brings(a) = "nary")
<1>1. a \in InsertType /\ Sound(a, db, w)
  BY DEF LocksInv
<1>2. DOMAIN a = {"pc", "done", "last", "arg", "size", "towatch", "read"}
  BY <1>1, InsertFields
<1>3. /\ b.pc = p /\ b.done = a.done /\ b.arg = a.arg /\ b.last = a.last /\ b.size = a.size
      /\ b.towatch = t
  BY <1>2 DEF Moved
<1>4. Brings(b) = Brings(a)
  BY <1>3 DEF Brings
<1>5. Place(b) = Place(a)
  BY <1>3, <1>4 DEF Place
<1> QED BY <1>1, <1>3, <1>4, <1>5, InsertFields DEF Sound, Modest

\* What is new of w's flags in e is in the entries it has counted.
FlagsWithin(a, e, w) ==
    /\ \A i \in DOMAIN e.tDB : \/ ~e.tDB[i].flags[w]
                               \/ i \in DOMAIN db.tDB /\ db.tDB[i].flags[w]
                               \/ i \in Nat /\ i <= a.last.ternary
    /\ \A i \in DOMAIN e.nDB : \/ ~e.nDB[i].flags[w]
                               \/ i \in DOMAIN db.nDB /\ db.nDB[i].flags[w]
                               \/ i \in Nat /\ i <= a.last.nary

\* From the push on the worker's flag may be in the entry it has counted.
LEMMA OwnFlagsStay ==
    ASSUME LocksInv, NEW w \in Workers, NEW a, a = wk[w], a.pc # "idle",
           NEW p, NEW t, NEW b, b = Moved(a, p, t), b \in InsertType,
           p \notin {"locked", "push", "found"},
           NEW e,
           FlagsWithin(a, e, w)
    PROVE  OwnFlags(b, e, w)
<1>1. /\ b.pc = p /\ b.last = a.last
      /\ a.last.ternary \in Nat /\ a.arg.ternary \in Nat
      /\ a.last.nary \in Nat /\ a.arg.nary \in Nat
      /\ a.last.ternary = a.arg.ternary + One(Brings(a) = "ternary")
      /\ a.last.nary = a.arg.nary + One(Brings(a) = "nary")
  BY InsertFacts
<1>2. a.arg.ternary <= a.last.ternary /\ a.arg.nary <= a.last.nary
  <2>1. PICK x \in Nat, y \in Nat : /\ x = One(Brings(a) = "ternary")
                                    /\ y = One(Brings(a) = "nary")
    BY OneNat
  <2> QED BY <1>1, <2>1
<1>3. db \in ClauseDBType /\ OwnFlags(a, db, w)
  BY DEF LocksInv, Sound
<1>4. \A i \in DOMAIN db.tDB : i \in Nat
  BY <1>3 DEF ClauseDBType
<1>5. \A i \in DOMAIN db.nDB : i \in Nat
  BY <1>3 DEF ClauseDBType
<1>6. \A i \in DOMAIN db.tDB : db.tDB[i].flags[w] => i <= a.last.ternary
  BY <1>1, <1>2, <1>3, <1>4 DEF OwnFlags
<1>7. \A i \in DOMAIN db.nDB : db.nDB[i].flags[w] => i <= a.last.nary
  BY <1>1, <1>2, <1>3, <1>5 DEF OwnFlags
<1> QED BY <1>1, <1>6, <1>7 DEF OwnFlags, FlagsWithin

OneLonger(d, e, kind) ==
    \A k \in Shared : Len(Entries(e, k)) = Len(Entries(d, k)) + One(kind = k)

\* A push makes the list of its kind one longer than its counter.
LEMMA BalancePushed ==
    ASSUME LocksInv, NEW w \in Workers, NEW a, a = wk[w], a.pc # "idle", ~Pushed(a),
           NEW b \in InsertType, wk' = [wk EXCEPT ![w] = b], Pushed(b),
           Brings(b) = Brings(a), db' \in ClauseDBType, num' = num,
           OneLonger(db, db', Brings(a))
    PROVE  \A k \in Shared : Balanced(k)'
<1> SUFFICES ASSUME NEW k \in Shared PROVE Balanced(k)'
  OBVIOUS
<1>1. num' \in NumType /\ db \in ClauseDBType /\ k \in LockKinds
  BY DEF LocksInv, LockKinds
<1>2. num[k] \in Nat /\ num'[k] = num[k] /\ Len(Entries(db, k)) \in Nat
  BY <1>1, NumFields, EntriesLength DEF LocksInv
<1>3. One(Pushed(b) /\ Brings(b) = k) = One(Brings(a) = k)
  BY DEF One
<1>4. One(Pushed(a) /\ Brings(a) = k) = 0
  BY DEF One
<1>5. num'[k] + One(Pushed(b) /\ Brings(b) = k) + Len(Entries(db, k))
        = num[k] + One(Pushed(a) /\ Brings(a) = k) + Len(Entries(db', k))
  <2>1. PICK x \in Nat : x = One(Brings(a) = k)
    BY OneNat
  <2>2. Len(Entries(db', k)) = Len(Entries(db, k)) + x
    BY <2>1 DEF OneLonger
  <2>3. num'[k] + x + Len(Entries(db, k)) = num[k] + 0 + (Len(Entries(db, k)) + x)
    BY <1>2
  <2> QED BY <1>3, <1>4, <2>1, <2>2, <2>3
<1> QED BY <1>1, <1>5, BalanceKept

LEMMA PushUnitKeeps ==
    ASSUME LocksInv, NEW w \in Workers, PushUnit(w)
    PROVE  LocksInv'
<1>1. PICK a, c, k : a = wk[w] /\ c = Lemmas[a.done + 1] /\ k = KindOf(c)
  OBVIOUS
<1>2. PICK b, t : t = a.towatch /\ b = Moved(a, "count", t)
  OBVIOUS
<1>3. /\ a.pc = "push" /\ num' = num /\ lock' = lock /\ vec' = vec /\ ptrs' = ptrs /\ Kind(w) = "unit"
      /\ db' = [db EXCEPT !.uDB = Append(@, Lemma(w)[1])]
      /\ wk' = [wk EXCEPT ![w].pc = "count"]
  BY <1>1 DEF PushUnit, At
<1>4. a.pc # "idle"
  BY <1>3
<1>5. /\ wk \in [Workers -> InsertType] /\ a \in InsertType /\ db \in ClauseDBType
      /\ Brings(a) = "unit" /\ Lemma(w) = c /\ c \in Seq(Lits) /\ Len(c) > 0
  BY <1>1, <1>3, <1>4, InsertStarts
<1>6. /\ DOMAIN a = {"pc", "done", "last", "arg", "size", "towatch", "read"}
      /\ t \in SUBSET Lits /\ "count" \in Places
  BY <1>2, <1>5, InsertFields DEF Places
<1>7. wk' = [wk EXCEPT ![w] = b]
  BY <1>1, <1>2, <1>3, <1>5, <1>6 DEF Moved
<1>8. c[1] \in Lits
  BY <1>5
<1>9. Adds(db, db', 1, 0, 0) /\ db'.tDB = db.tDB /\ db'.nDB = db.nDB
  BY <1>3, <1>5, <1>8, AppendUnit
<1>10. db' \in ClauseDBType
  BY <1>9 DEF Adds
<1>11. OneLonger(db, db', Brings(a))
  <2>1. Len(db.uDB) \in Nat /\ Len(db.tDB) \in Nat /\ Len(db.nDB) \in Nat
    BY <1>5, DbLengths
  <2> QED BY <1>5, <1>9, <2>1 DEF Adds, Entries, Shared, One, OneLonger
<1>12. ASSUME NEW v \in Workers \ {w} PROVE Sound(wk[v], db', v)
  <2>1. \A j \in Shared : \/ Len(Entries(db', j)) = Len(Entries(db, j))
                          \/ wk[w].pc # "idle" /\ Brings(wk[w]) = j
    BY <1>1, <1>4, <1>5, <1>9 DEF Entries, Shared
  <2> QED BY <1>9, <2>1, OthersSound
<1>13. ASSUME b \in InsertType PROVE Informed(b, db') /\ OwnFlags(b, db', w)
  <2>1. b.pc = "count" /\ Brings(b) = "unit"
    BY <1>1, <1>2, <1>4, <1>5, <1>13, InsertFacts
  <2>2. FlagsWithin(a, db', w)
    BY <1>9 DEF FlagsWithin
  <2>3. OwnFlags(b, db', w)
    <3>1. "count" \notin {"locked", "push", "found"}
      OBVIOUS
    <3> QED BY <1>1, <1>2, <1>4, <1>13, <2>2, <3>1, OwnFlagsStay, Zenon
  <2> QED BY <2>1, <2>3 DEF Informed
<1>14. ASSUME b \in InsertType PROVE \A j \in Shared : Balanced(j)'
  <2>1. Pushed(b) /\ ~Pushed(a) /\ Brings(b) = Brings(a)
    BY <1>1, <1>2, <1>3, <1>4, <1>14, InsertFacts DEF Pushed
  <2> QED BY <1>1, <1>3, <1>4, <1>7, <1>10, <1>11, <1>14, <2>1, BalancePushed
<1>15. NothingMoved'
  BY <1>3 DEF LocksInv, NothingMoved
<1>16. /\ "count" \notin {"idle", "store"} /\ ("count" = "watch" => Brings(a) = "ternary")
       /\ lock' = lock /\ num' = num
  BY <1>3
<1> QED BY <1>1, <1>2, <1>4, <1>6, <1>7, <1>10, <1>12, <1>13, <1>14, <1>15, <1>16,
           InsertMoves, Zenon

LEMMA PushBinaryKeeps ==
    ASSUME LocksInv, NEW w \in Workers, PushBinary(w)
    PROVE  LocksInv'
<1>1. PICK a, c, k : a = wk[w] /\ c = Lemmas[a.done + 1] /\ k = KindOf(c)
  OBVIOUS
<1>2. PICK p : /\ wk' = [wk EXCEPT ![w].pc = p] /\ p \in {"push2", "count"}
               /\ \/ db' = [db EXCEPT !.bDB[-Lemma(w)[1]] = Append(@, Lemma(w)[2])]
                  \/ db' = [db EXCEPT !.bDB[-Lemma(w)[2]] = Append(@, Lemma(w)[1])]
  BY DEF PushBinary
<1>3. PICK b, t : t = a.towatch /\ b = Moved(a, p, t)
  OBVIOUS
<1>4. /\ a.pc \in {"push", "push2"} /\ num' = num /\ lock' = lock /\ vec' = vec /\ ptrs' = ptrs
      /\ Kind(w) = "binary"
  BY <1>1 DEF PushBinary
<1>5. a.pc # "idle"
  BY <1>4
<1>6. /\ wk \in [Workers -> InsertType] /\ a \in InsertType /\ db \in ClauseDBType
      /\ Brings(a) = "binary" /\ Lemma(w) = c /\ c \in Seq(Lits) /\ Len(c) = 2
  BY <1>1, <1>4, <1>5, InsertStarts
<1>7. /\ DOMAIN a = {"pc", "done", "last", "arg", "size", "towatch", "read"}
      /\ t \in SUBSET Lits /\ p \in Places
  BY <1>2, <1>3, <1>6, InsertFields DEF Places
<1>8. wk' = [wk EXCEPT ![w] = b]
  BY <1>1, <1>2, <1>3, <1>6, <1>7 DEF Moved
<1>9. c[1] \in Lits /\ c[2] \in Lits
  <2>1. c \in Seq(Lits) /\ Len(c) = 2
    BY <1>6
  <2> QED BY <2>1
<1>10. /\ Adds(db, db', 0, 0, 0)
       /\ db'.uDB = db.uDB /\ db'.tDB = db.tDB /\ db'.nDB = db.nDB
  <2>1. CASE db' = [db EXCEPT !.bDB[-c[1]] = Append(@, c[2])]
    BY <1>6, <1>9, <2>1, AppendBinary
  <2>2. CASE db' = [db EXCEPT !.bDB[-c[2]] = Append(@, c[1])]
    BY <1>6, <1>9, <2>2, AppendBinary
  <2> QED BY <1>2, <1>6, <2>1, <2>2
<1>11. db' \in ClauseDBType
  BY <1>10 DEF Adds
<1>12. \A j \in Shared : Entries(db', j) = Entries(db, j) /\ Brings(a) # j
  BY <1>6, <1>10 DEF Entries, Shared
<1>13. ASSUME NEW v \in Workers \ {w} PROVE Sound(wk[v], db', v)
  BY <1>10, <1>12, OthersSound
<1>14. ASSUME b \in InsertType
       PROVE  Informed(b, db') /\ OwnFlags(b, db', w) /\ \A j \in Shared : Balanced(j)'
  <2>1. Brings(b) = Brings(a)
    BY <1>1, <1>3, <1>5, <1>14, InsertFacts
  <2>2. Informed(b, db')
    BY <1>12, <2>1 DEF Informed
  <2>3. FlagsWithin(a, db', w)
    BY <1>10 DEF FlagsWithin
  <2>4. p \notin {"locked", "push", "found"}
    BY <1>2
  <2>5. OwnFlags(b, db', w)
    BY <1>1, <1>3, <1>5, <1>14, <2>3, <2>4, OwnFlagsStay, Zenon
  <2>6. ASSUME NEW j \in Shared PROVE Balanced(j)'
    <3>1. One(Pushed(b) /\ Brings(b) = j) = 0 /\ One(Pushed(a) /\ Brings(a) = j) = 0
      BY <1>12, <2>1 DEF One
    <3>2. num'[j] + One(Pushed(b) /\ Brings(b) = j) + Len(Entries(db, j))
            = num[j] + One(Pushed(a) /\ Brings(a) = j) + Len(Entries(db', j))
      BY <1>4, <1>12, <3>1
    <3>3. num' \in NumType
      BY <1>4 DEF LocksInv
    <3> QED BY <1>1, <1>5, <1>8, <1>11, <1>14, <2>1, <3>2, <3>3, BalanceKept
  <2> QED BY <2>2, <2>5, <2>6
<1>15. NothingMoved'
  BY <1>4 DEF LocksInv, NothingMoved
<1>16. p \notin {"idle", "store"} /\ (p = "watch" => Brings(a) = "ternary")
  BY <1>2
<1> QED BY <1>1, <1>3, <1>4, <1>5, <1>7, <1>8, <1>11, <1>13, <1>14, <1>15, <1>16,
           InsertMoves, Zenon

\* The entry of a lemma has the flag of the worker that brings it, and no other.
LEMMA LemmaFlags ==
    ASSUME NEW w \in Workers
    PROVE  /\ Flags(FALSE, w) \in [Workers -> BOOLEAN]
           /\ \A v \in Workers \ {w} : ~Flags(FALSE, w)[v]
BY DEF Flags

\* A worker has counted fewer clauses than there is room for.
LEMMA RoomLeft ==
    ASSUME LocksInv, NEW w \in Workers, NEW a, a = wk[w], a.pc # "idle"
    PROVE  /\ a.arg.ternary \in Nat /\ a.arg.ternary < MaxTernaryClauses
           /\ a.arg.nary \in Nat /\ a.arg.nary < MaxNaryClauses
<1>1. /\ a \in InsertType /\ a.done < Len(Lemmas) /\ Sound(a, db, w)
  BY DEF LocksInv, Holds
<1>2. a.arg.ternary <= Len(Inputs) + a.done /\ a.arg.nary <= Len(Inputs) + a.done
  BY <1>1 DEF Sound, Modest
<1>3. a.arg.ternary \in Nat /\ a.arg.nary \in Nat /\ a.done \in Nat
  BY <1>1, InsertFields
<1>4. Len(Inputs) \in Nat /\ Len(Lemmas) \in Nat
  BY InsertsAssumption
<1>5. /\ MaxTernaryClauses \in Nat /\ MaxNaryClauses \in Nat
      /\ Len(Inputs) + Len(Lemmas) <= MaxTernaryClauses
      /\ Len(Inputs) + Len(Lemmas) <= MaxNaryClauses
  BY InsertsAssumption
<1>6. PICK m, n, i, x, y : /\ m = Len(Inputs) /\ n = Len(Lemmas) /\ i = a.done
                           /\ x = a.arg.ternary /\ y = a.arg.nary
  OBVIOUS
<1>7. x < m + n /\ y < m + n
  BY <1>1, <1>2, <1>3, <1>4, <1>6
<1> QED BY <1>3, <1>4, <1>5, <1>6, <1>7

LEMMA Appended ==
    ASSUME NEW S, NEW T \in Seq(S), NEW x \in S, NEW n, n = Len(T), NEW U, U = Append(T, x)
    PROVE  /\ Len(U) = n + 1 /\ U[n + 1] = x /\ DOMAIN U = DOMAIN T \cup {n + 1}
           /\ \A i \in DOMAIN T : U[i] = T[i]
OBVIOUS

\* A vector with room is not moved.
LEMMA RoomStays ==
    ASSUME LocksInv, NEW w \in Workers, NEW a, a = wk[w], a.pc # "idle"
    PROVE  /\ \A n \in Nat : n <= a.arg.ternary => Grown(vec.ternary, n) = vec.ternary
           /\ \A n \in Nat : n <= a.arg.nary => Grown(vec.nary, n) = vec.nary
           /\ DOMAIN vec = {"ternary", "nary"} /\ vec = InitVec
<1>1. vec = InitVec
  BY DEF LocksInv, NothingMoved
<1>2. /\ vec.ternary.room = MaxTernaryClauses /\ vec.nary.room = MaxNaryClauses
      /\ DOMAIN vec = {"ternary", "nary"}
  BY <1>1 DEF InitVec
<1>3. /\ a.arg.ternary \in Nat /\ a.arg.ternary < MaxTernaryClauses
      /\ a.arg.nary \in Nat /\ a.arg.nary < MaxNaryClauses
  BY RoomLeft
<1>4. MaxTernaryClauses \in Nat /\ MaxNaryClauses \in Nat
  BY InsertsAssumption
<1>5. \A n \in Nat : n <= a.arg.ternary => n < vec.ternary.room
  BY <1>2, <1>3, <1>4
<1>6. \A n \in Nat : n <= a.arg.nary => n < vec.nary.room
  BY <1>2, <1>3, <1>4
<1> QED BY <1>1, <1>2, <1>5, <1>6 DEF Grown

\* An address is taken before any move.
LEMMA AddressFresh ==
    ASSUME LocksInv, NEW k \in {"ternary", "nary"}, NEW pos
    PROVE  Address(k, pos).kind = k /\ Address(k, pos).moved = 0
BY DEF LocksInv, NothingMoved, InitVec, Address

LEMMA PushTernaryKeeps ==
    ASSUME LocksInv, NEW w \in Workers, PushTernary(w)
    PROVE  LocksInv'
<1>1. PICK a, c, k : a = wk[w] /\ c = Lemmas[a.done + 1] /\ k = KindOf(c)
  OBVIOUS
<1>2. PICK b, t : t = ToSet(c) /\ b = Moved(a, "watch", t)
  OBVIOUS
<1>3. PICK x : x = [lits |-> t, flags |-> Flags(FALSE, w)]
  OBVIOUS
<1>4. /\ a.pc = "push" /\ num' = num /\ lock' = lock /\ ptrs' = ptrs /\ Kind(w) = "ternary"
      /\ db' = [db EXCEPT !.tDB = Append(@, [lits |-> ToSet(Lemma(w)), flags |-> Flags(FALSE, w)])]
      /\ vec' = [vec EXCEPT !.ternary = Grown(@, Len(db.tDB))]
      /\ wk' = [wk EXCEPT ![w].pc = "watch", ![w].towatch = ToSet(Lemma(w))]
  BY <1>1 DEF PushTernary, At
<1>5. a.pc # "idle"
  BY <1>4
<1>6. /\ wk \in [Workers -> InsertType] /\ a \in InsertType /\ db \in ClauseDBType
      /\ Brings(a) = "ternary" /\ Lemma(w) = c /\ c \in Seq(Lits) /\ Sound(a, db, w)
  BY <1>1, <1>4, <1>5, InsertStarts
<1>7. DOMAIN a = {"pc", "done", "last", "arg", "size", "towatch", "read"} /\ "watch" \in Places
  BY <1>6, InsertFields DEF Places
<1>8. wk' = [wk EXCEPT ![w] = b]
  BY <1>1, <1>2, <1>4, <1>6, <1>7 DEF Moved
<1>9. t \in SUBSET Lits
  BY <1>2, <1>6 DEF ToSet
<1>10. x \in TernaryEntry /\ \A v \in Workers \ {w} : ~x.flags[v]
  BY <1>3, <1>9, LemmaFlags DEF TernaryEntry, Clause
<1>11. /\ Adds(db, db', 0, 1, 0) /\ db'.uDB = db.uDB /\ db'.nDB = db.nDB
       /\ db'.tDB = Append(db.tDB, x) /\ db' \in ClauseDBType
  <2>1. PICK T, W : T = Append(db.tDB, x) /\ W = db.ternaryWatches
    OBVIOUS
  <2>2. db' = TernaryAdded(db, x, W)
    BY <1>2, <1>3, <1>4, <1>6, <2>1 DEF ClauseDBType, TernaryAdded
  <2>3. W \in [Lits -> Seq(Nat)]
    BY <1>6, <2>1 DEF ClauseDBType
  <2>4. Adds(db, db', 0, 1, 0) /\ db'.uDB = db.uDB /\ db'.nDB = db.nDB
    BY <1>6, <1>10, <2>2, <2>3, AppendTernary
  <2>5. db'.tDB = Append(db.tDB, x)
    BY <1>6, <2>2 DEF ClauseDBType, TernaryAdded
  <2> QED BY <2>4, <2>5 DEF Adds
<1>12. PICK n \in Nat : n = Len(db.tDB) /\ n = a.size /\ n <= a.arg.ternary
  <2>1. Len(db.tDB) \in Nat
    BY <1>6, DbLengths
  <2>2. Len(db.tDB) = a.size /\ Len(db.tDB) <= Place(a)
    BY <1>4, <1>6 DEF Sound, Informed, Entries, Shared
  <2> QED BY <1>6, <2>1, <2>2, PlaceFacts
<1>13. /\ Len(db'.tDB) = n + 1 /\ db'.tDB[n + 1] = x
       /\ DOMAIN db'.tDB = DOMAIN db.tDB \cup {n + 1}
       /\ \A i \in DOMAIN db.tDB : db'.tDB[i] = db.tDB[i]
  <2>1. db.tDB \in Seq(TernaryEntry)
    BY <1>6 DEF ClauseDBType
  <2>2. PICK T, U : T = db.tDB /\ U = db'.tDB
    OBVIOUS
  <2>3. x \in TernaryEntry /\ U = Append(T, x) /\ n = Len(T) /\ T \in Seq(TernaryEntry)
    BY <2>1, <2>2, <1>10, <1>11, <1>12
  <2>4. /\ Len(U) = n + 1 /\ U[n + 1] = x /\ DOMAIN U = DOMAIN T \cup {n + 1}
        /\ \A i \in DOMAIN T : U[i] = T[i]
    BY <2>3, Appended
  <2> QED BY <2>2, <2>4
<1>14. OneLonger(db, db', Brings(a))
  <2>1. Len(db.uDB) \in Nat /\ Len(db.tDB) \in Nat /\ Len(db.nDB) \in Nat
    BY <1>6, DbLengths
  <2> QED BY <1>6, <1>11, <2>1 DEF Adds, Entries, Shared, One, OneLonger
<1>15. ASSUME NEW v \in Workers \ {w} PROVE Sound(wk[v], db', v)
  <2>1. \A j \in Shared : \/ Len(Entries(db', j)) = Len(Entries(db, j))
                          \/ wk[w].pc # "idle" /\ Brings(wk[w]) = j
    BY <1>1, <1>5, <1>6, <1>11 DEF Entries, Shared
  <2>2. \A i \in DOMAIN db'.tDB :
           db'.tDB[i].flags[v] => i \in DOMAIN db.tDB /\ db.tDB[i].flags[v]
    BY <1>10, <1>13
  <2> QED BY <1>11, <2>1, <2>2, OthersSound
<1>16. ASSUME b \in InsertType
       PROVE  Informed(b, db') /\ OwnFlags(b, db', w) /\ \A j \in Shared : Balanced(j)'
  <2>1. /\ b.pc = "watch" /\ Brings(b) = Brings(a) /\ b.size = a.size
        /\ a.last.ternary = a.arg.ternary + One(Brings(a) = "ternary")
        /\ a.arg.ternary \in Nat
    BY <1>1, <1>2, <1>5, <1>16, InsertFacts
  <2>2. Informed(b, db')
    BY <1>6, <1>12, <1>13, <2>1 DEF Informed, Entries
  <2>3. n + 1 <= a.last.ternary
    <3>1. One(Brings(a) = "ternary") = 1
      BY <1>6 DEF One
    <3> QED BY <1>12, <2>1, <3>1
  <2>4. FlagsWithin(a, db', w)
    BY <1>11, <1>12, <1>13, <2>3 DEF FlagsWithin
  <2>5. "watch" \notin {"locked", "push", "found"}
    OBVIOUS
  <2>6. OwnFlags(b, db', w)
    BY <1>1, <1>2, <1>5, <1>16, <2>4, <2>5, OwnFlagsStay, Zenon
  <2>7. Pushed(b) /\ ~Pushed(a)
    BY <1>4, <2>1 DEF Pushed
  <2>8. \A j \in Shared : Balanced(j)'
    BY <1>1, <1>4, <1>5, <1>8, <1>11, <1>14, <1>16, <2>1, <2>7, BalancePushed
  <2> QED BY <2>2, <2>6, <2>8
<1>17. NothingMoved'
  <2>1. Grown(vec.ternary, Len(db.tDB)) = vec.ternary /\ DOMAIN vec = {"ternary", "nary"}
    BY <1>1, <1>5, <1>12, RoomStays
  <2>2. vec' = vec
    <3>1. vec = InitVec
      BY DEF LocksInv, NothingMoved
    <3> QED BY <1>4, <2>1, <3>1 DEF InitVec
  <2> QED BY <1>4, <2>2 DEF LocksInv, NothingMoved, InitVec
<1>18. "watch" \notin {"idle", "store"} /\ ("watch" = "watch" => Brings(a) = "ternary")
  BY <1>6
<1> QED BY <1>1, <1>2, <1>4, <1>5, <1>7, <1>8, <1>9, <1>11, <1>15, <1>16, <1>17, <1>18,
           InsertMoves, Zenon

LEMMA PushNaryKeeps ==
    ASSUME LocksInv, NEW w \in Workers, PushNary(w)
    PROVE  LocksInv'
<1>1. PICK a, c, k : a = wk[w] /\ c = Lemmas[a.done + 1] /\ k = KindOf(c)
  OBVIOUS
<1>2. PICK b, t : t = a.towatch /\ b = Moved(a, "count", t)
  OBVIOUS
<1>3. PICK x : x = [lits |-> ToSet(c), flags |-> Flags(FALSE, w), original |-> FALSE]
  OBVIOUS
<1>4. /\ a.pc = "push" /\ num' = num /\ lock' = lock /\ Kind(w) = "nary"
      /\ db' = [db EXCEPT !.nDB = Append(@, [lits |-> ToSet(Lemma(w)), flags |-> Flags(FALSE, w),
                                             original |-> FALSE])]
      /\ vec' = [vec EXCEPT !.nary = Grown(@, Len(db.nDB))]
      /\ ptrs' = ptrs \cup {[kind |-> "nary", pos |-> wk[w].size + 1, moved |-> vec'.nary.moved]}
      /\ wk' = [wk EXCEPT ![w].pc = "count"]
  BY <1>1 DEF PushNary, At
<1>5. a.pc # "idle"
  BY <1>4
<1>6. /\ wk \in [Workers -> InsertType] /\ a \in InsertType /\ db \in ClauseDBType
      /\ Brings(a) = "nary" /\ Lemma(w) = c /\ c \in Seq(Lits) /\ Sound(a, db, w)
  BY <1>1, <1>4, <1>5, InsertStarts
<1>7. /\ DOMAIN a = {"pc", "done", "last", "arg", "size", "towatch", "read"}
      /\ "count" \in Places /\ t \in SUBSET Lits
  BY <1>2, <1>6, InsertFields DEF Places
<1>8. wk' = [wk EXCEPT ![w] = b]
  BY <1>1, <1>2, <1>4, <1>6, <1>7 DEF Moved
<1>9. x \in NaryEntry /\ \A v \in Workers \ {w} : ~x.flags[v]
  <2>1. ToSet(c) \subseteq Lits
    BY <1>6 DEF ToSet
  <2> QED BY <1>3, <2>1, LemmaFlags DEF NaryEntry, Clause
<1>10. /\ Adds(db, db', 0, 0, 1) /\ db'.uDB = db.uDB /\ db'.tDB = db.tDB
       /\ db'.nDB = Append(db.nDB, x) /\ db' \in ClauseDBType
  <2>1. db' = [db EXCEPT !.nDB = Append(@, x)]
    BY <1>3, <1>4, <1>6
  <2>2. Adds(db, db', 0, 0, 1) /\ db'.uDB = db.uDB /\ db'.tDB = db.tDB
    BY <1>6, <1>9, <2>1, AppendNary
  <2>3. db'.nDB = Append(db.nDB, x)
    BY <1>6, <2>1 DEF ClauseDBType
  <2> QED BY <2>2, <2>3 DEF Adds
<1>11. PICK n \in Nat : n = Len(db.nDB) /\ n = a.size /\ n <= a.arg.nary
  <2>1. Len(db.nDB) \in Nat
    BY <1>6, DbLengths
  <2>2. Len(db.nDB) = a.size /\ Len(db.nDB) <= Place(a)
    BY <1>4, <1>6 DEF Sound, Informed, Entries, Shared
  <2> QED BY <1>6, <2>1, <2>2, PlaceFacts
<1>12. /\ Len(db'.nDB) = n + 1 /\ db'.nDB[n + 1] = x
       /\ DOMAIN db'.nDB = DOMAIN db.nDB \cup {n + 1}
       /\ \A i \in DOMAIN db.nDB : db'.nDB[i] = db.nDB[i]
  <2>1. db.nDB \in Seq(NaryEntry)
    BY <1>6 DEF ClauseDBType
  <2>2. PICK T, U : T = db.nDB /\ U = db'.nDB
    OBVIOUS
  <2>3. x \in NaryEntry /\ U = Append(T, x) /\ n = Len(T) /\ T \in Seq(NaryEntry)
    BY <2>1, <2>2, <1>9, <1>10, <1>11
  <2>4. /\ Len(U) = n + 1 /\ U[n + 1] = x /\ DOMAIN U = DOMAIN T \cup {n + 1}
        /\ \A i \in DOMAIN T : U[i] = T[i]
    BY <2>3, Appended
  <2> QED BY <2>2, <2>4
<1>13. OneLonger(db, db', Brings(a))
  <2>1. Len(db.uDB) \in Nat /\ Len(db.tDB) \in Nat /\ Len(db.nDB) \in Nat
    BY <1>6, DbLengths
  <2> QED BY <1>6, <1>10, <2>1 DEF Adds, Entries, Shared, One, OneLonger
<1>14. ASSUME NEW v \in Workers \ {w} PROVE Sound(wk[v], db', v)
  <2>1. \A j \in Shared : \/ Len(Entries(db', j)) = Len(Entries(db, j))
                          \/ wk[w].pc # "idle" /\ Brings(wk[w]) = j
    BY <1>1, <1>5, <1>6, <1>10 DEF Entries, Shared
  <2>2. \A i \in DOMAIN db'.nDB :
           db'.nDB[i].flags[v] => i \in DOMAIN db.nDB /\ db.nDB[i].flags[v]
    BY <1>9, <1>12
  <2> QED BY <1>10, <2>1, <2>2, OthersSound
<1>15. ASSUME b \in InsertType
       PROVE  Informed(b, db') /\ OwnFlags(b, db', w) /\ \A j \in Shared : Balanced(j)'
  <2>1. /\ b.pc = "count" /\ Brings(b) = Brings(a) /\ b.size = a.size
        /\ a.last.nary = a.arg.nary + One(Brings(a) = "nary")
        /\ a.arg.nary \in Nat
    BY <1>1, <1>2, <1>5, <1>15, InsertFacts
  <2>2. Informed(b, db')
    BY <1>6, <1>11, <1>12, <2>1 DEF Informed, Entries
  <2>3. n + 1 <= a.last.nary
    <3>1. One(Brings(a) = "nary") = 1
      BY <1>6 DEF One
    <3> QED BY <1>11, <2>1, <3>1
  <2>4. FlagsWithin(a, db', w)
    BY <1>10, <1>11, <1>12, <2>3 DEF FlagsWithin
  <2>5. "count" \notin {"locked", "push", "found"}
    OBVIOUS
  <2>6. OwnFlags(b, db', w)
    BY <1>1, <1>2, <1>5, <1>15, <2>4, <2>5, OwnFlagsStay, Zenon
  <2>7. Pushed(b) /\ ~Pushed(a)
    BY <1>4, <2>1 DEF Pushed
  <2>8. \A j \in Shared : Balanced(j)'
    BY <1>1, <1>4, <1>5, <1>8, <1>10, <1>13, <1>15, <2>1, <2>7, BalancePushed
  <2> QED BY <2>2, <2>6, <2>8
<1>16. NothingMoved'
  <2>1. Grown(vec.nary, Len(db.nDB)) = vec.nary /\ vec = InitVec
    BY <1>1, <1>5, <1>11, RoomStays
  <2>2. vec' = vec
    BY <1>4, <2>1 DEF InitVec
  <2>3. vec'.nary.moved = 0
    BY <2>1, <2>2 DEF InitVec
  <2>4. PICK y : y = [kind |-> "nary", pos |-> wk[w].size + 1, moved |-> vec'.nary.moved]
    OBVIOUS
  <2>5. y.kind = "nary" /\ y.moved = 0 /\ ptrs' = ptrs \cup {y}
    BY <1>4, <2>3, <2>4
  <2> QED BY <2>1, <2>2, <2>5 DEF LocksInv, NothingMoved, InitVec
<1>17. "count" \notin {"idle", "store"} /\ ("count" = "watch" => Brings(a) = "ternary")
  OBVIOUS
<1>18. /\ "count" \in Places /\ t \in SUBSET Lits /\ num' = num /\ lock' = lock
       /\ db' \in ClauseDBType
  BY <1>4, <1>7, <1>10
<1>19. a = wk[w] /\ b = Moved(a, "count", t)
  BY <1>1, <1>2
<1> QED BY <1>5, <1>8, <1>14, <1>15, <1>16, <1>17, <1>18, <1>19, InsertMoves, ZenonT(30)

LEMMA WatchTernaryKeeps ==
    ASSUME LocksInv, NEW w \in Workers, WatchTernary(w)
    PROVE  LocksInv'
<1>1. PICK a, c, k : a = wk[w] /\ c = Lemmas[a.done + 1] /\ k = KindOf(c)
  OBVIOUS
<1>2. PICK l, p, t : /\ l = Min(a.towatch) /\ t = a.towatch \ {l}
                     /\ p = IF a.towatch = {l} THEN "count" ELSE "watch"
  OBVIOUS
<1>3. PICK b : b = Moved(a, p, t)
  OBVIOUS
<1>4. /\ a.pc = "watch" /\ num' = num /\ lock' = lock /\ vec' = vec
      /\ db' = [db EXCEPT !.ternaryWatches[l] = Append(@, wk[w].size + 1)]
      /\ ptrs' = ptrs \cup {Address("ternary", wk[w].size + 1)}
      /\ wk' = [wk EXCEPT ![w].towatch = @ \ {l},
                          ![w].pc = IF wk[w].towatch = {l} THEN "count" ELSE "watch"]
  BY <1>1, <1>2 DEF WatchTernary, At
<1>5. a.pc # "idle"
  BY <1>4
<1>6. /\ wk \in [Workers -> InsertType] /\ a \in InsertType /\ db \in ClauseDBType
      /\ Brings(a) = "ternary" /\ Sound(a, db, w)
  <2>1. Sound(a, db, w)
    BY <1>1 DEF LocksInv
  <2> QED BY <1>1, <1>4, <2>1 DEF LocksInv, Sound
<1>7. /\ DOMAIN a = {"pc", "done", "last", "arg", "size", "towatch", "read"}
      /\ p \in {"count", "watch"} /\ p \in Places /\ t \in SUBSET Lits /\ a.size \in Nat
  BY <1>2, <1>6, InsertFields DEF Places
<1>8. wk' = [wk EXCEPT ![w] = b]
  BY <1>1, <1>2, <1>3, <1>4, <1>6, <1>7 DEF Moved
<1>9. /\ db' \in ClauseDBType
      /\ db'.uDB = db.uDB /\ db'.tDB = db.tDB /\ db'.nDB = db.nDB
  <2>1. PICK W, V, pos : /\ W = db.ternaryWatches /\ pos = a.size + 1
                         /\ V = [W EXCEPT ![l] = Append(@, pos)]
    OBVIOUS
  <2>2. W \in [Lits -> Seq(Nat)] /\ pos \in Nat
    BY <1>6, <1>7, <2>1 DEF ClauseDBType
  <2>3. V \in [Lits -> Seq(Nat)]
    <3>1. l \in Lits => Append(W[l], pos) \in Seq(Nat)
      BY <2>2
    <3> QED BY <2>1, <2>2, <3>1
  <2>4. db' = [db EXCEPT !.ternaryWatches = V]
    BY <1>1, <1>4, <1>6, <2>1 DEF ClauseDBType
  <2> QED BY <1>6, <2>3, <2>4 DEF ClauseDBType
<1>10. \A j \in Shared : Entries(db', j) = Entries(db, j)
  BY <1>9 DEF Entries, Shared
<1>11. ASSUME NEW v \in Workers \ {w} PROVE Sound(wk[v], db', v)
  BY <1>9, <1>10, OthersSound
<1>12. ASSUME b \in InsertType
       PROVE  Informed(b, db') /\ OwnFlags(b, db', w) /\ \A j \in Shared : Balanced(j)'
  <2>1. b.pc = p /\ Brings(b) = Brings(a) /\ b.size = a.size
    BY <1>1, <1>3, <1>5, <1>12, InsertFacts
  <2>2. Informed(b, db')
    BY <1>4, <1>6, <1>7, <1>10, <2>1 DEF Sound, Informed
  <2>3. FlagsWithin(a, db', w)
    BY <1>9 DEF FlagsWithin
  <2>4. p \notin {"locked", "push", "found"}
    BY <1>7
  <2>5. OwnFlags(b, db', w)
    BY <1>1, <1>3, <1>5, <1>12, <2>3, <2>4, OwnFlagsStay, Zenon
  <2>6. Pushed(b) /\ Pushed(a)
    BY <1>4, <1>7, <2>1 DEF Pushed
  <2>7. \A j \in Shared : Len(Entries(db', j)) = Len(Entries(db, j))
    BY <1>10
  <2>8. \A j \in Shared : Balanced(j)'
    BY <1>1, <1>4, <1>8, <1>9, <1>12, <2>1, <2>6, <2>7, BalanceSame
  <2> QED BY <2>2, <2>5, <2>8
<1>13. NothingMoved'
  <2>1. PICK y : y = Address("ternary", wk[w].size + 1)
    OBVIOUS
  <2>2. y.kind = "ternary" /\ y.moved = 0
    BY <2>1, AddressFresh
  <2>3. ptrs' = ptrs \cup {y}
    BY <1>4, <2>1
  <2> QED BY <1>4, <2>2, <2>3 DEF LocksInv, NothingMoved, InitVec
<1>14. p \notin {"idle", "store"} /\ (p = "watch" => Brings(a) = "ternary")
  BY <1>6, <1>7
<1>15. a = wk[w] /\ lock' = lock /\ num' = num /\ db' \in ClauseDBType
  BY <1>1, <1>4, <1>9
<1>16. p \in Places /\ t \in SUBSET Lits
  BY <1>7
<1> QED BY <1>3, <1>5, <1>8, <1>11, <1>12, <1>13, <1>14, <1>15, <1>16, InsertMoves, Zenon

\* Setting a flag of an entry: of the lists only that entry changes, for that worker.
FlagSet(s, t, i, w) ==
    /\ DOMAIN t = DOMAIN s
    /\ \A j \in DOMAIN s : \A v \in Workers :
          (j # i \/ v # w) => (t[j].flags[v] => s[j].flags[v])

TernaryFlag(d, i, w) == [d EXCEPT !.tDB[i].flags[w] = TRUE]
NaryFlag(d, i, w) == [d EXCEPT !.nDB[i].flags[w] = TRUE]

LEMMA TernaryFlagSet ==
    ASSUME NEW d \in ClauseDBType, NEW w \in Workers, NEW i \in DOMAIN d.tDB,
           NEW e, e = TernaryFlag(d, i, w)
    PROVE  /\ e \in ClauseDBType /\ e.uDB = d.uDB /\ e.nDB = d.nDB
           /\ Len(e.tDB) = Len(d.tDB) /\ FlagSet(d.tDB, e.tDB, i, w)
<1>1. PICK S, x, f : S = d.tDB /\ x = S[i] /\ f = x.flags
  OBVIOUS
<1>2. S \in Seq(TernaryEntry) /\ i \in DOMAIN S /\ x \in TernaryEntry /\ f \in [Workers -> BOOLEAN]
  <2>1. S \in Seq(TernaryEntry) /\ i \in DOMAIN S
    BY <1>1 DEF ClauseDBType
  <2>2. S[i] \in TernaryEntry
    BY <2>1
  <2> QED BY <1>1, <2>1, <2>2 DEF TernaryEntry
<1>3. PICK g, y, T : /\ g = [f EXCEPT ![w] = TRUE] /\ y = [x EXCEPT !.flags = g]
                     /\ T = [S EXCEPT ![i] = y]
  OBVIOUS
<1>4. /\ g \in [Workers -> BOOLEAN] /\ \A v \in Workers \ {w} : g[v] = f[v]
      /\ y \in TernaryEntry /\ y.flags = g
  BY <1>2, <1>3, Zenon DEF TernaryEntry
<1>5. T \in Seq(TernaryEntry) /\ Len(T) = Len(S) /\ DOMAIN T = DOMAIN S
      /\ T[i] = y /\ \A j \in DOMAIN S \ {i} : T[j] = S[j]
  BY <1>2, <1>3, <1>4, ExceptSeq
<1>6. e = [d EXCEPT !.tDB = T]
  BY <1>1, <1>3 DEF ClauseDBType, TernaryFlag
<1>7. e \in ClauseDBType /\ e.uDB = d.uDB /\ e.nDB = d.nDB /\ e.tDB = T
  BY <1>5, <1>6 DEF ClauseDBType
<1>8. FlagSet(S, T, i, w)
  BY <1>1, <1>4, <1>5 DEF FlagSet
<1> QED BY <1>1, <1>5, <1>7, <1>8

LEMMA NaryFlagSet ==
    ASSUME NEW d \in ClauseDBType, NEW w \in Workers, NEW i \in DOMAIN d.nDB,
           NEW e, e = NaryFlag(d, i, w)
    PROVE  /\ e \in ClauseDBType /\ e.uDB = d.uDB /\ e.tDB = d.tDB
           /\ Len(e.nDB) = Len(d.nDB) /\ FlagSet(d.nDB, e.nDB, i, w)
<1>1. PICK S, x, f : S = d.nDB /\ x = S[i] /\ f = x.flags
  OBVIOUS
<1>2. S \in Seq(NaryEntry) /\ i \in DOMAIN S /\ x \in NaryEntry /\ f \in [Workers -> BOOLEAN]
  <2>1. S \in Seq(NaryEntry) /\ i \in DOMAIN S
    BY <1>1 DEF ClauseDBType
  <2>2. S[i] \in NaryEntry
    BY <2>1
  <2> QED BY <1>1, <2>1, <2>2 DEF NaryEntry
<1>3. PICK g, y, T : /\ g = [f EXCEPT ![w] = TRUE] /\ y = [x EXCEPT !.flags = g]
                     /\ T = [S EXCEPT ![i] = y]
  OBVIOUS
<1>4. /\ g \in [Workers -> BOOLEAN] /\ \A v \in Workers \ {w} : g[v] = f[v]
      /\ y \in NaryEntry /\ y.flags = g
  BY <1>2, <1>3, Zenon DEF NaryEntry
<1>5. T \in Seq(NaryEntry) /\ Len(T) = Len(S) /\ DOMAIN T = DOMAIN S
      /\ T[i] = y /\ \A j \in DOMAIN S \ {i} : T[j] = S[j]
  BY <1>2, <1>3, <1>4, ExceptSeq
<1>6. e = [d EXCEPT !.nDB = T]
  BY <1>1, <1>3 DEF ClauseDBType, NaryFlag
<1>7. e \in ClauseDBType /\ e.uDB = d.uDB /\ e.tDB = d.tDB /\ e.nDB = T
  BY <1>5, <1>6 DEF ClauseDBType
<1>8. FlagSet(S, T, i, w)
  BY <1>1, <1>4, <1>5 DEF FlagSet
<1> QED BY <1>1, <1>5, <1>7, <1>8

\* The entries of every list stay as many.
LEMMA FlagKeepsLengths ==
    ASSUME NEW d, NEW e,
           Len(e.uDB) = Len(d.uDB), Len(e.tDB) = Len(d.tDB), Len(e.nDB) = Len(d.nDB)
    PROVE  \A j \in Shared : Len(Entries(e, j)) = Len(Entries(d, j))
BY DEF Entries, Shared

\* The three ways to use a clause that is there.
Taken(d, e, w, a) ==
    /\ e \in ClauseDBType
    /\ Len(e.uDB) = Len(d.uDB) /\ Len(e.tDB) = Len(d.tDB) /\ Len(e.nDB) = Len(d.nDB)
    /\ e.tDB = d.tDB \/ (Brings(a) = "ternary" /\ FlagSet(d.tDB, e.tDB, a.arg.ternary + 1, w))
    /\ e.nDB = d.nDB \/ (Brings(a) = "nary" /\ FlagSet(d.nDB, e.nDB, a.arg.nary + 1, w))

LEMMA UseFoundTakes ==
    ASSUME LocksInv, NEW w \in Workers, UseFound(w), NEW a, a = wk[w]
    PROVE  /\ Taken(db, db', w, a)
           /\ \A p \in ptrs' : p.kind \in {"ternary", "nary"} /\ p.moved = 0
<1>1. PICK c, k : c = Lemmas[a.done + 1] /\ k = KindOf(c)
  OBVIOUS
<1>2. a.pc = "found" /\ a.pc # "idle"
  BY DEF UseFound, At
<1>3. /\ a \in InsertType /\ db \in ClauseDBType /\ Brings(a) = k /\ Kind(w) = k
      /\ Position(w) = Place(a) /\ k \in LockKinds /\ Sound(a, db, w)
  BY <1>1, <1>2, InsertStarts
<1>4. /\ Kind(w) = "ternary" => /\ db' = [db EXCEPT !.tDB[Position(w) + 1].flags[w] = TRUE]
                                /\ ptrs' = ptrs \cup {Address("ternary", Position(w) + 1)}
      /\ Kind(w) = "nary" => /\ db' = [db EXCEPT !.nDB[Position(w) + 1].flags[w] = TRUE]
                             /\ ptrs' = ptrs \cup {Address("nary", Position(w) + 1)}
      /\ Kind(w) \notin {"ternary", "nary"} => db' = db /\ ptrs' = ptrs
  BY DEF UseFound
<1>5. \A p \in ptrs : p.kind \in {"ternary", "nary"} /\ p.moved = 0
  BY DEF LocksInv, NothingMoved
<1>6. Len(db.uDB) \in Nat /\ Len(db.tDB) \in Nat /\ Len(db.nDB) \in Nat
  BY <1>3, DbLengths
<1>7. CASE k = "ternary"
  <2>1. PICK i : i = a.arg.ternary + 1 /\ i = Position(w) + 1
    BY <1>3, <1>7, PlaceFacts
  <2>2. i \in DOMAIN db.tDB
    <3>1. Place(a) < Len(db.tDB) /\ a.arg.ternary = Place(a) /\ a.arg.ternary \in Nat
      BY <1>2, <1>3, <1>7, PlaceFacts, InsertFields DEF Sound, Informed, Entries, Shared
    <3>2. i \in 1..Len(db.tDB)
      BY <1>6, <2>1, <3>1
    <3>3. DOMAIN db.tDB = 1..Len(db.tDB)
      BY <1>3 DEF ClauseDBType
    <3> QED BY <3>2, <3>3
  <2>3. db' = TernaryFlag(db, i, w)
    BY <1>3, <1>4, <1>7, <2>1 DEF TernaryFlag
  <2>4. /\ db' \in ClauseDBType /\ db'.uDB = db.uDB /\ db'.nDB = db.nDB
        /\ Len(db'.tDB) = Len(db.tDB) /\ FlagSet(db.tDB, db'.tDB, i, w)
    BY <1>3, <2>2, <2>3, TernaryFlagSet
  <2>5. Taken(db, db', w, a)
    BY <1>3, <1>7, <2>1, <2>4 DEF Taken
  <2>6. PICK y : y = Address("ternary", i)
    OBVIOUS
  <2>7. y.kind = "ternary" /\ y.moved = 0 /\ ptrs' = ptrs \cup {y}
    BY <1>3, <1>4, <1>7, <2>1, <2>6, AddressFresh
  <2> QED BY <1>5, <2>5, <2>7
<1>8. CASE k = "nary"
  <2>1. PICK i : i = a.arg.nary + 1 /\ i = Position(w) + 1
    BY <1>3, <1>8, PlaceFacts
  <2>2. i \in DOMAIN db.nDB
    <3>1. Place(a) < Len(db.nDB) /\ a.arg.nary = Place(a) /\ a.arg.nary \in Nat
      BY <1>2, <1>3, <1>8, PlaceFacts, InsertFields DEF Sound, Informed, Entries, Shared
    <3>2. i \in 1..Len(db.nDB)
      BY <1>6, <2>1, <3>1
    <3>3. DOMAIN db.nDB = 1..Len(db.nDB)
      BY <1>3 DEF ClauseDBType
    <3> QED BY <3>2, <3>3
  <2>3. db' = NaryFlag(db, i, w)
    BY <1>3, <1>4, <1>8, <2>1 DEF NaryFlag
  <2>4. /\ db' \in ClauseDBType /\ db'.uDB = db.uDB /\ db'.tDB = db.tDB
        /\ Len(db'.nDB) = Len(db.nDB) /\ FlagSet(db.nDB, db'.nDB, i, w)
    BY <1>3, <2>2, <2>3, NaryFlagSet
  <2>5. Taken(db, db', w, a)
    BY <1>3, <1>8, <2>1, <2>4 DEF Taken
  <2>6. PICK y : y = Address("nary", i)
    OBVIOUS
  <2>7. y.kind = "nary" /\ y.moved = 0 /\ ptrs' = ptrs \cup {y}
    BY <1>3, <1>4, <1>8, <2>1, <2>6, AddressFresh
  <2> QED BY <1>5, <2>5, <2>7
<1>9. CASE k \notin {"ternary", "nary"}
  <2>1. db' = db /\ ptrs' = ptrs
    BY <1>3, <1>4, <1>9
  <2> QED BY <1>3, <1>5, <2>1 DEF Taken
<1> QED BY <1>7, <1>8, <1>9

LEMMA UseFoundKeeps ==
    ASSUME LocksInv, NEW w \in Workers, UseFound(w)
    PROVE  LocksInv'
<1>1. PICK a, c, k : a = wk[w] /\ c = Lemmas[a.done + 1] /\ k = KindOf(c)
  OBVIOUS
<1>2. PICK b, t : t = a.towatch /\ b = Moved(a, "unlock", t)
  OBVIOUS
<1>3. /\ a.pc = "found" /\ num' = num /\ lock' = lock /\ vec' = vec
      /\ wk' = [wk EXCEPT ![w].pc = "unlock"]
  BY <1>1 DEF UseFound, At
<1>4. a.pc # "idle"
  BY <1>3
<1>5. wk \in [Workers -> InsertType] /\ a \in InsertType /\ db \in ClauseDBType
  BY <1>1, <1>4, InsertStarts
<1>6. /\ DOMAIN a = {"pc", "done", "last", "arg", "size", "towatch", "read"}
      /\ "unlock" \in Places /\ t \in SUBSET Lits
  BY <1>2, <1>5, InsertFields DEF Places
<1>7. wk' = [wk EXCEPT ![w] = b]
  BY <1>1, <1>2, <1>3, <1>5, <1>6 DEF Moved
<1>8. /\ Taken(db, db', w, a)
      /\ \A p \in ptrs' : p.kind \in {"ternary", "nary"} /\ p.moved = 0
  BY <1>1, UseFoundTakes
<1>9. /\ db' \in ClauseDBType
      /\ \A j \in Shared : Len(Entries(db', j)) = Len(Entries(db, j))
  BY <1>8, FlagKeepsLengths DEF Taken
<1>10. ASSUME NEW v \in Workers \ {w} PROVE Sound(wk[v], db', v)
  <2>1. \A i \in DOMAIN db'.tDB :
           db'.tDB[i].flags[v] => i \in DOMAIN db.tDB /\ db.tDB[i].flags[v]
    BY <1>8 DEF Taken, FlagSet
  <2>2. \A i \in DOMAIN db'.nDB :
           db'.nDB[i].flags[v] => i \in DOMAIN db.nDB /\ db.nDB[i].flags[v]
    BY <1>8 DEF Taken, FlagSet
  <2> QED BY <1>9, <2>1, <2>2, OthersSound
<1>11. ASSUME b \in InsertType
       PROVE  Informed(b, db') /\ OwnFlags(b, db', w) /\ \A j \in Shared : Balanced(j)'
  <2>1. /\ b.pc = "unlock" /\ Brings(b) = Brings(a)
        /\ a.arg.ternary \in Nat /\ a.arg.nary \in Nat
        /\ a.last.ternary = a.arg.ternary + One(Brings(a) = "ternary")
        /\ a.last.nary = a.arg.nary + One(Brings(a) = "nary")
    BY <1>1, <1>2, <1>4, <1>11, InsertFacts
  <2>2. Informed(b, db')
    BY <2>1 DEF Informed
  <2>3. FlagsWithin(a, db', w)
    <3>1. \A i \in DOMAIN db'.tDB :
            (~db'.tDB[i].flags[w])
            \/ (i \in DOMAIN db.tDB /\ db.tDB[i].flags[w])
            \/ (i \in Nat /\ i <= a.last.ternary)
      <4>1. CASE db'.tDB = db.tDB
        BY <4>1
      <4>2. CASE Brings(a) = "ternary" /\ FlagSet(db.tDB, db'.tDB, a.arg.ternary + 1, w)
        <5>1. a.last.ternary = a.arg.ternary + 1 /\ a.arg.ternary + 1 \in Nat
          BY <2>1, <4>2 DEF One
        <5>2. a.arg.ternary + 1 <= a.last.ternary
          BY <5>1
        <5> QED BY <4>2, <5>1, <5>2 DEF FlagSet
      <4> QED BY <1>8, <4>1, <4>2 DEF Taken
    <3>2. \A i \in DOMAIN db'.nDB :
            (~db'.nDB[i].flags[w])
            \/ (i \in DOMAIN db.nDB /\ db.nDB[i].flags[w])
            \/ (i \in Nat /\ i <= a.last.nary)
      <4>1. CASE db'.nDB = db.nDB
        BY <4>1
      <4>2. CASE Brings(a) = "nary" /\ FlagSet(db.nDB, db'.nDB, a.arg.nary + 1, w)
        <5>1. a.last.nary = a.arg.nary + 1 /\ a.arg.nary + 1 \in Nat
          BY <2>1, <4>2 DEF One
        <5>2. a.arg.nary + 1 <= a.last.nary
          BY <5>1
        <5> QED BY <4>2, <5>1, <5>2 DEF FlagSet
      <4> QED BY <1>8, <4>1, <4>2 DEF Taken
    <3> QED BY <3>1, <3>2 DEF FlagsWithin
  <2>4. "unlock" \notin {"locked", "push", "found"}
    OBVIOUS
  <2>5. OwnFlags(b, db', w)
    BY <1>1, <1>2, <1>4, <1>11, <2>3, <2>4, OwnFlagsStay, Zenon
  <2>6. ~Pushed(b) /\ ~Pushed(a)
    BY <1>3, <2>1 DEF Pushed
  <2>7. \A j \in Shared : Balanced(j)'
    BY <1>1, <1>3, <1>7, <1>9, <1>11, <2>6, BalanceSame
  <2> QED BY <2>2, <2>5, <2>7
<1>12. NothingMoved'
  BY <1>3, <1>8 DEF LocksInv, NothingMoved, InitVec
<1>13. "unlock" \notin {"idle", "store"} /\ ("unlock" = "watch" => Brings(a) = "ternary")
  OBVIOUS
<1>14. a = wk[w] /\ lock' = lock /\ num' = num /\ db' \in ClauseDBType
  BY <1>1, <1>3, <1>9
<1> QED BY <1>2, <1>4, <1>6, <1>7, <1>10, <1>11, <1>12, <1>13, <1>14, InsertMoves, Zenon
-----------------------------------------------------------------------------
LEMMA NextLocksInv == LocksInv /\ [Next]_vars => LocksInv'
<1> SUFFICES ASSUME LocksInv, [Next]_vars PROVE LocksInv'
  OBVIOUS
<1>1. ASSUME NEW w \in Workers, Worker(w) PROVE LocksInv'
  <2>1. CASE Acquire(w)
    BY <2>1, AcquireKeeps
  <2>2. CASE ReadSize(w)
    BY <2>2, ReadSizeKeeps
  <2>3. CASE UseFound(w)
    BY <2>3, UseFoundKeeps
  <2>4. CASE PushUnit(w)
    BY <2>4, PushUnitKeeps
  <2>5. CASE PushBinary(w)
    BY <2>5, PushBinaryKeeps
  <2>6. CASE PushTernary(w)
    BY <2>6, PushTernaryKeeps
  <2>7. CASE WatchTernary(w)
    BY <2>7, WatchTernaryKeeps
  <2>8. CASE PushNary(w)
    BY <2>8, PushNaryKeeps
  <2>9. CASE CountKind(w)
    BY <2>9, CountKindKeeps
  <2>10. CASE StoreNumClauses(w)
    BY <2>10, StoreNumClausesKeeps
  <2>11. CASE Release(w)
    BY <2>11, ReleaseKeeps
  <2> QED BY <1>1, <2>1, <2>2, <2>3, <2>4, <2>5, <2>6, <2>7, <2>8, <2>9, <2>10, <2>11 DEF Worker
<1>2. CASE UNCHANGED vars
  <2>1. /\ db' = db /\ num' = num /\ lock' = lock /\ vec' = vec /\ ptrs' = ptrs /\ wk' = wk
    BY <1>2 DEF vars
  <2>2. ASSUME NEW w \in Workers PROVE Holds(wk[w], w)'
    BY <2>1 DEF LocksInv, Holds, Brings
  <2>3. ASSUME NEW w \in Workers PROVE Sound(wk[w], db, w)'
    <3>1. Sound(wk'[w], db', w)
      BY <2>1 DEF LocksInv
    <3> QED BY <3>1 DEF Sound, Brings, Modest, Informed, OwnFlags, Entries, Place, One
  <2>4. ASSUME NEW k \in Shared PROVE Balanced(k)'
    <3>1. Pending(k)' <=> Pending(k)
      BY <2>1 DEF Pending, Pushed, Brings
    <3>2. num'[k] + One(Pending(k)') = Len(Entries(db', k))
      BY <2>1, <3>1 DEF LocksInv, Balanced, One
    <3> QED BY <3>2 DEF Balanced, One, Entries
  <2>5. CountsFit' /\ NothingMoved'
    BY <2>1 DEF LocksInv, CountsFit, Total, NothingMoved, InitVec
  <2> QED BY <2>1, <2>2, <2>3, <2>4, <2>5 DEF LocksInv
<1> QED BY <1>1, <1>2 DEF Next

\* What the locks of the four kinds, and the vectors' room, amount to holds from the
\* first insert on, for every input, every list of lemmas and every number of workers.
THEOREM SharingInvariant == Spec => []LocksInv
<1> QED BY InitLocksInv, NextLocksInv, PTL DEF Spec

\* Of the counters of a kind only the insert that holds its lock may be ahead.
LEMMA NothingPending ==
    ASSUME LocksInv, NEW w \in Workers, wk[w].pc # "idle", ~Pushed(wk[w]),
           NEW k \in Shared, Brings(wk[w]) = k
    PROVE  num[k] = Len(Entries(db, k))
<1>1. ~Pending(k)
  <2> SUFFICES ASSUME NEW v \in Workers, Pushed(wk[v]), Brings(wk[v]) = k PROVE FALSE
    BY DEF Pending
  <2>1. v # w /\ wk[v].pc # "idle"
    BY DEF Pushed
  <2> QED BY <2>1, OneInserts DEF LocksInv
<1>2. num[k] + One(Pending(k)) = Len(Entries(db, k)) /\ num[k] \in Nat
  BY NumFields DEF LocksInv, Balanced, LockKinds
<1>3. One(Pending(k)) = 0
  BY <1>1 DEF One
<1> QED BY <1>2, <1>3

-----------------------------------------------------------------------------
(* The order of the lemmas.  Every worker brings the same lemmas in the same order, and
   counts them; a list has the lemmas that go to it in that order.  So the position
   a worker's counter gives is where its lemma is, or will be. *)

\* The list l of kind k; of the units, ternaries and longer clauses there is one.
List(d, k, l) == IF k = "binary" THEN d.bDB[l] ELSE Entries(d, k)
Counter(c, k, l) == IF k = "binary" THEN c.bins[l] ELSE c[k]

\* Lemma j goes to that list, and entry e is what it puts there.
GoesTo(j, k, l) ==
    /\ KindOf(Lemmas[j]) = k
    /\ k = "binary" => l \in {-Lemmas[j][1], -Lemmas[j][2]}

IsEntry(e, j, k, l) ==
    LET c == Lemmas[j]
    IN  CASE k = "unit" -> e = c[1]
          [] k = "binary" -> (l = -c[1] => e = c[2]) /\ (l = -c[2] => e = c[1])
          [] OTHER -> e.lits = ToSet(c)

\* How many of the first n lemmas go there, after the input.
Going(k, l, n) == Cardinality({j \in 1..n : GoesTo(j, k, l)})
Given(k, l, n) == Len(List(InputDB(Inputs), k, l)) + Going(k, l, n)

CountedTo(c, n) ==
    \A k \in LockKinds : \A l \in Lits : Counter(c, k, l) = Given(k, l, n)

\* A worker's counters are those of the lemmas it has brought.
Timely(a) ==
    IF a.pc = "idle" THEN CountedTo(a.last, a.done)
                     ELSE CountedTo(a.arg, a.done) /\ CountedTo(a.last, a.done + 1)

\* A worker that has found or pushed its lemma of kind k has come one further.
Got(a) == a.pc \in {"found", "push2", "watch", "count", "store", "unlock"}
Come(a, k) == IF Got(a) /\ Brings(a) = k THEN a.done + 1 ELSE a.done

\* Between the two pushes of a binary the second list is one short.
Short(k, l, W) ==
    /\ k = "binary"
    /\ \E w \in Workers : W[w].pc = "push2" /\ l = -Lemmas[W[w].done + 1][2]

\* The lists of a kind have the lemmas up to the worker that is furthest.
Gathered(k, D, W) ==
    \E m \in 0..Len(Lemmas) :
       /\ \A w \in Workers : Come(W[w], k) <= m
       /\ \A l \in Lits : Len(List(D, k, l)) + One(Short(k, l, W)) = Given(k, l, m)

Placed(k, D) ==
    \A l \in Lits : \A j \in 1..Len(Lemmas) :
       GoesTo(j, k, l) /\ Given(k, l, j) <= Len(List(D, k, l)) =>
          IsEntry(List(D, k, l)[Given(k, l, j)], j, k, l)

\* An insert of a binary that is about to push, and one that has pushed once.
Pairing(a, D) ==
    LET c == Lemmas[a.done + 1]
    IN  /\ a.pc = "push2" => Brings(a) = "binary"
        /\ \A l \in Lits :
              /\ a.pc = "push" /\ Brings(a) = "binary" /\ l = -c[1] =>
                    Len(List(D, "binary", l)) <= a.arg.bins[l]
              /\ a.pc = "push2" /\ l = -c[2] =>
                    Len(List(D, "binary", l)) = a.arg.bins[l]

OrderIs(D, W) ==
    /\ \A w \in Workers : Timely(W[w]) /\ Pairing(W[w], D)
    /\ \A k \in LockKinds : Gathered(k, D, W) /\ Placed(k, D)

OrderInv == OrderIs(db, wk)

LEMMA GoingNext ==
    ASSUME NEW k, NEW l, NEW n \in Nat
    PROVE  /\ Going(k, l, 0) = 0 /\ Going(k, l, n) \in Nat
           /\ Going(k, l, n + 1) = Going(k, l, n) + One(GoesTo(n + 1, k, l))
<1>1. PICK X, Y : /\ X = {j \in 1..n : GoesTo(j, k, l)}
                  /\ Y = {j \in 1..(n + 1) : GoesTo(j, k, l)}
  OBVIOUS
<1>2. IsFiniteSet(X) /\ Cardinality(X) \in Nat
  <2>1. IsFiniteSet(1..n)
    BY FS_Interval
  <2> QED BY <1>1, <2>1, FS_Subset, FS_CardinalityType
<1>3. n + 1 \notin X
  BY <1>1
<1>4. Going(k, l, 0) = 0
  <2>1. {j \in 1..0 : GoesTo(j, k, l)} = {}
    OBVIOUS
  <2> QED BY <2>1, FS_EmptySet DEF Going
<1>5. CASE GoesTo(n + 1, k, l)
  <2>1. Y = X \cup {n + 1}
    BY <1>1, <1>5
  <2>2. Cardinality(Y) = Cardinality(X) + 1
    BY <1>2, <1>3, <2>1, FS_AddElement
  <2> QED BY <1>1, <1>2, <1>4, <1>5, <2>2 DEF Going, One
<1>6. CASE ~GoesTo(n + 1, k, l)
  <2>1. Y = X
    BY <1>1, <1>6
  <2> QED BY <1>1, <1>2, <1>4, <1>6, <2>1 DEF Going, One
<1> QED BY <1>5, <1>6

LEMMA GoingGrows ==
    ASSUME NEW k, NEW l, NEW m \in Nat, NEW n \in Nat, m <= n
    PROVE  Going(k, l, m) <= Going(k, l, n)
<1>1. PICK X, Y : /\ X = {j \in 1..m : GoesTo(j, k, l)}
                  /\ Y = {j \in 1..n : GoesTo(j, k, l)}
  OBVIOUS
<1>2. IsFiniteSet(Y)
  <2>1. IsFiniteSet(1..n)
    BY FS_Interval
  <2> QED BY <1>1, <2>1, FS_Subset
<1>3. X \subseteq Y
  BY <1>1
<1>4. Cardinality(X) <= Cardinality(Y)
  BY <1>2, <1>3, FS_Subset
<1> QED BY <1>1, <1>4 DEF Going

\* The lists as the parser leaves them have a length.
LEMMA GivenNat ==
    ASSUME NEW k \in LockKinds, NEW l \in Lits, NEW n \in Nat
    PROVE  /\ Given(k, l, n) \in Nat
           /\ Given(k, l, n + 1) = Given(k, l, n) + One(GoesTo(n + 1, k, l))
           /\ \A m \in Nat : m <= n => Given(k, l, m) <= Given(k, l, n)
<1>1. PICK d : d = InputDB(Inputs)
  OBVIOUS
<1>2. d \in ClauseDBType
  BY <1>1, InputIsTallied, InsertsAssumption DEF Tallied
<1>3. PICK b : b = Len(List(d, k, l))
  OBVIOUS
<1>4. b \in Nat
  <2>1. CASE k = "binary"
    <3>1. d.bDB[l] \in Seq(Lits)
      BY <1>2 DEF ClauseDBType
    <3> QED BY <1>3, <2>1, <3>1 DEF List
  <2>2. CASE k \in Shared
    BY <1>2, <1>3, <2>2, EntriesLength DEF List, Shared
  <2> QED BY <2>1, <2>2 DEF LockKinds
<1>5. \A x : Given(k, l, x) = b + Going(k, l, x)
  BY <1>1, <1>3 DEF Given
<1>6. /\ Going(k, l, n) \in Nat
      /\ Going(k, l, n + 1) = Going(k, l, n) + One(GoesTo(n + 1, k, l))
      /\ One(GoesTo(n + 1, k, l)) \in Nat
  BY GoingNext, OneNat
<1>7. ASSUME NEW m \in Nat, m <= n PROVE Given(k, l, m) <= Given(k, l, n)
  BY <1>4, <1>5, <1>6, <1>7, GoingNext, GoingGrows
<1> QED BY <1>4, <1>5, <1>6, <1>7

\* Two lemmas that go to the same place of a list are the same.
LEMMA PlacesDiffer ==
    ASSUME NEW k \in LockKinds, NEW l \in Lits, NEW i \in Nat \ {0}, NEW j \in Nat \ {0},
           GoesTo(i, k, l), GoesTo(j, k, l), Given(k, l, i) = Given(k, l, j)
    PROVE  i = j
<1>1. ASSUME NEW x \in Nat \ {0}, NEW y \in Nat \ {0}, GoesTo(y, k, l), x < y
      PROVE  Given(k, l, x) < Given(k, l, y)
  <2>1. PICK z \in Nat : z + 1 = y /\ x <= z
    <3>1. y - 1 \in Nat /\ (y - 1) + 1 = y /\ x <= y - 1
      BY <1>1
    <3> QED BY <3>1
  <2>2. Given(k, l, y) = Given(k, l, z) + 1
    BY <1>1, <2>1, GivenNat DEF One
  <2>3. Given(k, l, x) <= Given(k, l, z) /\ Given(k, l, x) \in Nat /\ Given(k, l, z) \in Nat
    BY <2>1, GivenNat
  <2> QED BY <2>2, <2>3
<1>2. Given(k, l, i) \in Nat
  BY GivenNat
<1> QED BY <1>1, <1>2

LEMMA CountedCounter ==
    ASSUME NEW last \in CountersType, NEW n \in Nat, n < Len(Lemmas), NEW c, c = Lemmas[n + 1],
           NEW k \in LockKinds, NEW l \in Lits
    PROVE  Counter(Counted(last, c), k, l) = Counter(last, k, l) + One(GoesTo(n + 1, k, l))
<1>1. /\ c \in Seq(Lits) /\ Len(c) \in Nat /\ Len(c) > 0
      /\ (KindOf(c) = "unit" <=> Len(c) = 1) /\ (KindOf(c) = "binary" <=> Len(c) = 2)
      /\ (KindOf(c) = "ternary" <=> Len(c) = 3) /\ (KindOf(c) = "nary" <=> Len(c) > 3)
      /\ KindOf(c) \in LockKinds
  BY LemmaKinds
<1>2. PICK r : r = Counted(last, c)
  OBVIOUS
<1>3. /\ DOMAIN last = {"unit", "bins", "ternary", "nary"}
      /\ last.unit \in Nat /\ last.bins \in [Lits -> Nat]
      /\ last.ternary \in Nat /\ last.nary \in Nat
  BY DEF CountersType
<1>4. One(GoesTo(n + 1, k, l)) =
         IF KindOf(c) = k /\ (k = "binary" => l \in {-c[1], -c[2]}) THEN 1 ELSE 0
  BY DEF One, GoesTo
<1>5. CASE KindOf(c) = "unit"
  <2>1. r = [last EXCEPT !.unit = @ + 1]
    BY <1>1, <1>2, <1>5 DEF Counted
  <2>2. /\ r.unit = last.unit + 1 /\ r.bins = last.bins
        /\ r.ternary = last.ternary /\ r.nary = last.nary
    BY <1>3, <2>1
  <2> QED BY <1>2, <1>3, <1>4, <1>5, <2>2 DEF Counter, LockKinds, Shared
<1>6. CASE KindOf(c) = "binary"
  <2>1. Len(c) = 2 /\ c[1] \in Lits /\ c[2] \in Lits /\ c[1] # c[2]
    <3>1. n + 1 \in DOMAIN Lemmas
      BY InsertsAssumption
    <3>2. IsInjective(c)
      BY <3>1, InsertsAssumption
    <3>3. Len(c) = 2 /\ DOMAIN c = 1..2
      BY <1>1, <1>6
    <3>4. c[1] # c[2]
      BY <3>2, <3>3 DEF IsInjective
    <3> QED BY <1>1, <3>3, <3>4
  <2>2. PICK x \in Lits, y \in Lits : x = -c[1] /\ y = -c[2] /\ x # y
    BY <2>1, LitFacts
  <2>3. r = [last EXCEPT !.bins[x] = @ + 1, !.bins[y] = @ + 1]
    BY <1>2, <2>1, <2>2 DEF Counted
  <2>4. PICK B, C : B = last.bins /\ C = [[B EXCEPT ![x] = B[x] + 1] EXCEPT ![y] = B[y] + 1]
    OBVIOUS
  <2>5. B \in [Lits -> Nat]
    BY <1>3, <2>4
  <2>6. r = [last EXCEPT !.bins = C]
    BY <1>3, <2>2, <2>3, <2>4
  <2>7. /\ r.unit = last.unit /\ r.bins = C
        /\ r.ternary = last.ternary /\ r.nary = last.nary
    BY <1>3, <2>6
  <2>8. /\ C[x] = B[x] + 1 /\ C[y] = B[y] + 1
        /\ \A z \in Lits \ {x, y} : C[z] = B[z]
    BY <2>2, <2>4, <2>5
  <2>9. k # "binary" => Counter(r, k, l) = Counter(last, k, l) /\ Counter(last, k, l) \in Nat
    BY <1>3, <2>7 DEF Counter, LockKinds, Shared
  <2>10. k = "binary" => Counter(r, k, l) = C[l] /\ Counter(last, k, l) = B[l]
    BY <2>4, <2>7 DEF Counter
  <2>11. CASE k # "binary"
    BY <1>2, <1>4, <1>6, <2>9, <2>11
  <2>12. CASE k = "binary"
    <3>1. One(GoesTo(n + 1, k, l)) = IF l \in {x, y} THEN 1 ELSE 0
      BY <1>4, <1>6, <2>2, <2>12
    <3>2. B[l] \in Nat
      BY <2>5
    <3> QED BY <1>2, <2>8, <2>10, <2>12, <3>1, <3>2
  <2> QED BY <2>11, <2>12
<1>7. CASE KindOf(c) = "ternary"
  <2>1. r = [last EXCEPT !.ternary = @ + 1]
    BY <1>1, <1>2, <1>7 DEF Counted
  <2>2. /\ r.unit = last.unit /\ r.bins = last.bins
        /\ r.ternary = last.ternary + 1 /\ r.nary = last.nary
    BY <1>3, <2>1
  <2> QED BY <1>2, <1>3, <1>4, <1>7, <2>2 DEF Counter, LockKinds, Shared
<1>8. CASE KindOf(c) = "nary"
  <2>1. r = [last EXCEPT !.nary = @ + 1]
    <3>1. PICK m \in Nat : m = Len(c) /\ m > 3
      BY <1>1, <1>8
    <3> QED BY <1>2, <3>1 DEF Counted
  <2>2. /\ r.unit = last.unit /\ r.bins = last.bins
        /\ r.ternary = last.ternary /\ r.nary = last.nary + 1
    BY <1>3, <2>1
  <2> QED BY <1>2, <1>3, <1>4, <1>8, <2>2 DEF Counter, LockKinds, Shared
<1> QED BY <1>1, <1>5, <1>6, <1>7, <1>8 DEF LockKinds, Shared

LEMMA ListLength ==
    ASSUME NEW D \in ClauseDBType, NEW k \in LockKinds, NEW l \in Lits
    PROVE  \E S : List(D, k, l) \in Seq(S)
<1>1. CASE k = "binary"
  <2>1. D.bDB[l] \in Seq(Lits)
    BY DEF ClauseDBType
  <2> QED BY <1>1, <2>1 DEF List
<1>2. CASE k \in Shared
  <2>1. D.uDB \in Seq(Lits) /\ D.tDB \in Seq(TernaryEntry) /\ D.nDB \in Seq(NaryEntry)
    BY DEF ClauseDBType
  <2> QED BY <1>2, <2>1 DEF List, Entries, Shared
<1> QED BY <1>1, <1>2 DEF LockKinds

LEMMA LongerList ==
    ASSUME NEW S, NEW s \in Seq(S), NEW e, NEW t, t = Append(s, e)
    PROVE  /\ Len(s) \in Nat /\ Len(t) = Len(s) + 1 /\ t[Len(s) + 1] = e
           /\ \A i \in 1..Len(s) : t[i] = s[i]
<1>1. s \in Seq(S \cup {e})
  OBVIOUS
<1> QED BY <1>1

\* The first entry of a list is entry 1.
LEMMA PlacePositive ==
    ASSUME NEW k \in LockKinds, NEW l \in Lits, NEW j \in Nat \ {0}, GoesTo(j, k, l)
    PROVE  Given(k, l, j) \in Nat /\ Given(k, l, j) >= 1
<1>1. PICK i \in Nat : i + 1 = j
  <2>1. j - 1 \in Nat /\ (j - 1) + 1 = j
    OBVIOUS
  <2> QED BY <2>1
<1>2. Given(k, l, i) \in Nat /\ Given(k, l, j) = Given(k, l, i) + 1
  BY <1>1, GivenNat DEF One
<1> QED BY <1>2

\* The lists have the same lemmas, if flags may differ.
SameItems(D, E) ==
    \A k \in LockKinds : \A l \in Lits :
       /\ Len(List(E, k, l)) = Len(List(D, k, l))
       /\ \A i \in 1..Len(List(D, k, l)) : \A j :
             IsEntry(List(D, k, l)[i], j, k, l) => IsEntry(List(E, k, l)[i], j, k, l)

LEMMA PlacedSame ==
    ASSUME NEW D, NEW E, SameItems(D, E), NEW k \in LockKinds, Placed(k, D)
    PROVE  Placed(k, E)
<1> SUFFICES ASSUME NEW l \in Lits, NEW j \in 1..Len(Lemmas), GoesTo(j, k, l),
                    Given(k, l, j) <= Len(List(E, k, l))
             PROVE  IsEntry(List(E, k, l)[Given(k, l, j)], j, k, l)
  BY DEF Placed
<1>1. PICK n, g : n = Len(List(D, k, l)) /\ g = Given(k, l, j)
  OBVIOUS
<1>2. Len(List(E, k, l)) = n
  BY <1>1 DEF SameItems
<1>3. j \in Nat \ {0}
  BY InsertsAssumption
<1>4. g \in Nat /\ g >= 1 /\ g <= n
  BY <1>1, <1>2, <1>3, PlacePositive
<1>5. IsEntry(List(D, k, l)[g], j, k, l)
  BY <1>1, <1>4 DEF Placed
<1>6. g \in 1..n
  <2>1. CASE n \in Nat
    BY <1>4, <2>1
  <2>2. CASE n \notin Nat
    BY <1>4, <2>2
  <2> QED BY <2>1, <2>2
<1> QED BY <1>1, <1>5, <1>6 DEF SameItems

\* The step of one worker.
Stepped(W, w, b) == [W EXCEPT ![w] = b]

\* The workers that are at their second push, when w is not, and was not.
LEMMA ShortSame ==
    ASSUME NEW W \in [Workers -> InsertType], NEW w \in Workers, NEW b,
           NEW W2, W2 = Stepped(W, w, b),
           W[w].pc # "push2", b.pc # "push2", NEW k, NEW l
    PROVE  Short(k, l, W2) <=> Short(k, l, W)
<1>1. W2[w] = b /\ \A v \in Workers \ {w} : W2[v] = W[v]
  BY DEF Stepped
<1> QED BY <1>1 DEF Short

\* A step that pushes nothing leaves the worker within what the lists have.
StaysWithin(a, b, D, W) ==
    \A k \in LockKinds : \A m \in 0..Len(Lemmas) :
       Come(a, k) <= m /\ (\A l \in Lits : Len(List(D, k, l)) + One(Short(k, l, W)) = Given(k, l, m))
       => \E n \in 0..Len(Lemmas) :
             /\ m <= n /\ Come(b, k) <= n
             /\ \A l \in Lits : Given(k, l, n) = Given(k, l, m)

LEMMA QuietOrder ==
    ASSUME NEW D \in ClauseDBType, NEW E, SameItems(D, E),
           NEW W \in [Workers -> InsertType], OrderIs(D, W),
           NEW w \in Workers, NEW a, a = W[w], NEW b, NEW W2, W2 = Stepped(W, w, b),
           Timely(b), Pairing(b, D), a.pc # "push2", b.pc # "push2",
           StaysWithin(a, b, D, W)
    PROVE  OrderIs(E, W2)
<1>1. W2[w] = b /\ \A v \in Workers \ {w} : W2[v] = W[v]
  BY DEF Stepped
<1>2. \A x : Pairing(x, D) => Pairing(x, E)
  <2> SUFFICES ASSUME NEW x, Pairing(x, D) PROVE Pairing(x, E)
    OBVIOUS
  <2>1. \A l \in Lits : Len(List(E, "binary", l)) = Len(List(D, "binary", l))
    BY DEF SameItems, LockKinds
  <2> QED BY <2>1 DEF Pairing
<1>3. \A v \in Workers : Timely(W2[v]) /\ Pairing(W2[v], E)
  BY <1>1, <1>2 DEF OrderIs
<1>4. ASSUME NEW k \in LockKinds PROVE Gathered(k, E, W2)
  <2>1. PICK m \in 0..Len(Lemmas) :
           /\ \A v \in Workers : Come(W[v], k) <= m
           /\ \A l \in Lits : Len(List(D, k, l)) + One(Short(k, l, W)) = Given(k, l, m)
    BY DEF OrderIs, Gathered
  <2>2. PICK n \in 0..Len(Lemmas) :
           /\ m <= n /\ Come(b, k) <= n
           /\ \A l \in Lits : Given(k, l, n) = Given(k, l, m)
    BY <2>1 DEF StaysWithin
  <2>3. \A v \in Workers : Come(W2[v], k) <= n
    <3> SUFFICES ASSUME NEW v \in Workers PROVE Come(W2[v], k) <= n
      OBVIOUS
    <3>1. CASE v = w
      BY <1>1, <2>2, <3>1
    <3>2. CASE v # w
      <4>1. PICK c : c = Come(W[v], k)
        OBVIOUS
      <4>2. c \in Nat /\ c <= m
        <5>1. W[v].done \in Nat
          BY InsertFields
        <5> QED BY <2>1, <4>1, <5>1 DEF Come
      <4>3. m \in Nat /\ n \in Nat
        BY InsertsAssumption
      <4> QED BY <1>1, <2>2, <3>2, <4>1, <4>2, <4>3
    <3> QED BY <3>1, <3>2
  <2>4. ASSUME NEW l \in Lits
        PROVE  Len(List(E, k, l)) + One(Short(k, l, W2)) = Given(k, l, n)
    <3>1. Short(k, l, W2) <=> Short(k, l, W)
      BY ShortSame
    <3>2. One(Short(k, l, W2)) = One(Short(k, l, W))
      BY <3>1 DEF One
    <3>3. Len(List(E, k, l)) = Len(List(D, k, l))
      BY DEF SameItems
    <3> QED BY <2>1, <2>2, <3>2, <3>3
  <2> QED BY <2>3, <2>4 DEF Gathered
<1>5. \A k \in LockKinds : Placed(k, E)
  BY PlacedSame DEF OrderIs
<1> QED BY <1>3, <1>4, <1>5 DEF OrderIs

\* No other worker is inserting a clause of the kind.
Alone(w, k, W) == \A v \in Workers \ {w} : W[v].pc # "idle" => Brings(W[v]) # k

\* A worker that is about to push is the furthest of its kind.
LEMMA AtOwnPlace ==
    ASSUME NEW D \in ClauseDBType,
           NEW W \in [Workers -> InsertType], OrderIs(D, W),
           NEW w \in Workers, NEW a, a = W[w],
           NEW n \in Nat, n = a.done, n < Len(Lemmas),
           NEW k \in LockKinds, k = Brings(a), a.pc = "push",
           Alone(w, k, W),
           NEW x \in Lits, GoesTo(n + 1, k, x), Len(List(D, k, x)) <= Counter(a.arg, k, x)
    PROVE  /\ \A v \in Workers : Come(W[v], k) <= n
           /\ \A l \in Lits : Len(List(D, k, l)) = Given(k, l, n) /\ Given(k, l, n) \in Nat
<1>1. \A l \in Lits : ~Short(k, l, W)
  <2> SUFFICES ASSUME NEW l \in Lits, k = "binary", NEW v \in Workers, W[v].pc = "push2"
               PROVE  FALSE
    BY DEF Short
  <2>1. Brings(W[v]) = "binary"
    BY DEF OrderIs, Pairing
  <2> QED BY <2>1 DEF Alone
<1>2. PICK m \in 0..Len(Lemmas) :
         /\ \A v \in Workers : Come(W[v], k) <= m
         /\ \A l \in Lits : Len(List(D, k, l)) + One(Short(k, l, W)) = Given(k, l, m)
  BY DEF OrderIs, Gathered
<1>3. \A l \in Lits : Len(List(D, k, l)) = Given(k, l, m) /\ Given(k, l, m) \in Nat
  <2> SUFFICES ASSUME NEW l \in Lits
               PROVE  Len(List(D, k, l)) = Given(k, l, m) /\ Given(k, l, m) \in Nat
    OBVIOUS
  <2>1. One(Short(k, l, W)) = 0
    BY <1>1 DEF One
  <2>2. m \in Nat
    BY InsertsAssumption
  <2>3. \E S : List(D, k, l) \in Seq(S)
    BY ListLength
  <2>4. Len(List(D, k, l)) \in Nat
    BY <2>3
  <2> QED BY <1>2, <2>1, <2>4
<1>4. m = n
  <2>1. m \in Nat /\ n <= m
    <3>1. Come(a, k) = n
      BY DEF Come, Got
    <3> QED BY <1>2, <3>1, InsertsAssumption
  <2>2. Given(k, x, m) <= Given(k, x, n)
    <3>1. Counter(a.arg, k, x) = Given(k, x, n)
      BY DEF OrderIs, Timely, CountedTo
    <3> QED BY <1>3, <3>1
  <2>3. Given(k, x, n + 1) = Given(k, x, n) + 1 /\ Given(k, x, n) \in Nat
    BY GivenNat DEF One
  <2>4. CASE n + 1 <= m
    <3>1. PICK p \in Nat : p = n + 1
      OBVIOUS
    <3>2. Given(k, x, p) <= Given(k, x, m)
      BY <2>1, <2>4, <3>1, GivenNat
    <3> QED BY <1>3, <2>2, <2>3, <3>1, <3>2
  <2> QED BY <2>1, <2>4
<1> QED BY <1>2, <1>3, <1>4

PushedTo(D, E, W, W2, k, j) ==
    /\ \A h \in LockKinds \ {k} : \A l \in Lits :
          /\ List(E, h, l) = List(D, h, l)
          /\ Short(h, l, W2) <=> Short(h, l, W)
    /\ \A l \in Lits : Short(k, l, W2) => GoesTo(j, k, l)
    /\ \A l \in Lits :
          IF GoesTo(j, k, l) /\ ~Short(k, l, W2)
          THEN \E e : List(E, k, l) = Append(List(D, k, l), e) /\ IsEntry(e, j, k, l)
          ELSE List(E, k, l) = List(D, k, l)

\* A push: to every list its lemma goes to, but to the second list of a binary later.
LEMMA PushOrder ==
    ASSUME NEW D \in ClauseDBType, NEW E,
           NEW W \in [Workers -> InsertType], OrderIs(D, W),
           NEW w \in Workers, NEW a, a = W[w], NEW b, NEW W2, W2 = Stepped(W, w, b),
           NEW n \in Nat, n = a.done, n < Len(Lemmas),
           NEW k \in LockKinds, k = Brings(a), a.pc = "push",
           b.done = n, b.arg = a.arg, b.last = a.last, Got(b),
           Pairing(b, E),
           Alone(w, k, W),
           NEW x \in Lits, GoesTo(n + 1, k, x), Len(List(D, k, x)) <= Counter(a.arg, k, x),
           PushedTo(D, E, W, W2, k, n + 1)
    PROVE  OrderIs(E, W2)
<1>1. W2[w] = b /\ \A v \in Workers \ {w} : W2[v] = W[v]
  BY DEF Stepped
<1>2. /\ \A h \in LockKinds \ {k} : \A l \in Lits :
            /\ List(E, h, l) = List(D, h, l)
            /\ Short(h, l, W2) <=> Short(h, l, W)
      /\ \A l \in Lits : Short(k, l, W2) => GoesTo(n + 1, k, l)
      /\ \A l \in Lits :
            IF GoesTo(n + 1, k, l) /\ ~Short(k, l, W2)
            THEN \E e : List(E, k, l) = Append(List(D, k, l), e) /\ IsEntry(e, n + 1, k, l)
            ELSE List(E, k, l) = List(D, k, l)
  BY DEF PushedTo
<1>3. Timely(b)
  <2>1. Timely(a)
    BY DEF OrderIs
  <2>2. b.pc # "idle"
    BY DEF Got
  <2> QED BY <2>1, <2>2 DEF Timely
<1>4. /\ \A v \in Workers : Come(W[v], k) <= n
      /\ \A l \in Lits : Len(List(D, k, l)) = Given(k, l, n) /\ Given(k, l, n) \in Nat
  BY AtOwnPlace
<1>5. \A l \in Lits : Given(k, l, n + 1) = Given(k, l, n) + One(GoesTo(n + 1, k, l))
  BY GivenNat
<1>6. Gathered(k, E, W2)
  <2>1. n + 1 \in 0..Len(Lemmas)
    BY InsertsAssumption
  <2>2. \A v \in Workers : Come(W2[v], k) <= n + 1
    <3> SUFFICES ASSUME NEW v \in Workers PROVE Come(W2[v], k) <= n + 1
      OBVIOUS
    <3>1. CASE v = w
      BY <1>1, <3>1 DEF Come
    <3>2. CASE v # w
      <4>1. W[v].done \in Nat
        BY InsertFields
      <4>2. PICK c : c = Come(W[v], k)
        OBVIOUS
      <4>3. c \in Nat /\ c <= n
        BY <1>4, <4>1, <4>2 DEF Come
      <4> QED BY <1>1, <3>2, <4>2, <4>3
    <3> QED BY <3>1, <3>2
  <2>3. ASSUME NEW l \in Lits
        PROVE  Len(List(E, k, l)) + One(Short(k, l, W2)) = Given(k, l, n + 1)
    <3>1. PICK g \in Nat : g = Given(k, l, n) /\ Len(List(D, k, l)) = g
      BY <1>4
    <3>2. Given(k, l, n + 1) = g + One(GoesTo(n + 1, k, l))
      BY <1>5, <3>1
    <3>3. CASE GoesTo(n + 1, k, l) /\ ~Short(k, l, W2)
      <4>1. PICK e : List(E, k, l) = Append(List(D, k, l), e)
        BY <1>2, <3>3
      <4>2. PICK S : List(D, k, l) \in Seq(S)
        BY ListLength
      <4>3. PICK s, t : s = List(D, k, l) /\ t = List(E, k, l)
        OBVIOUS
      <4>4. s \in Seq(S) /\ t = Append(s, e)
        BY <4>1, <4>2, <4>3
      <4>5. Len(t) = Len(s) + 1
        BY <4>4, LongerList
      <4>6. Len(List(E, k, l)) = g + 1
        BY <3>1, <4>3, <4>5
      <4> QED BY <3>2, <3>3, <4>6 DEF One
    <3>4. CASE GoesTo(n + 1, k, l) /\ Short(k, l, W2)
      <4>1. Len(List(E, k, l)) = g
        BY <1>2, <3>1, <3>4
      <4> QED BY <3>2, <3>4, <4>1 DEF One
    <3>5. CASE ~GoesTo(n + 1, k, l)
      <4>1. Len(List(E, k, l)) = g /\ ~Short(k, l, W2)
        BY <1>2, <3>1, <3>5
      <4> QED BY <3>2, <3>5, <4>1 DEF One
    <3> QED BY <3>3, <3>4, <3>5
  <2> QED BY <2>1, <2>2, <2>3 DEF Gathered
<1>7. ASSUME NEW h \in LockKinds \ {k} PROVE Gathered(h, E, W2)
  <2>1. PICK p \in 0..Len(Lemmas) :
           /\ \A v \in Workers : Come(W[v], h) <= p
           /\ \A l \in Lits : Len(List(D, h, l)) + One(Short(h, l, W)) = Given(h, l, p)
    BY DEF OrderIs, Gathered
  <2>2. Come(b, h) = Come(a, h)
    BY <1>7 DEF Come, Brings
  <2>3. \A v \in Workers : Come(W2[v], h) <= p
    BY <1>1, <2>1, <2>2
  <2>4. ASSUME NEW l \in Lits
        PROVE  Len(List(E, h, l)) + One(Short(h, l, W2)) = Given(h, l, p)
    <3>1. One(Short(h, l, W2)) = One(Short(h, l, W)) /\ List(E, h, l) = List(D, h, l)
      BY <1>2 DEF One
    <3> QED BY <2>1, <3>1
  <2> QED BY <2>3, <2>4 DEF Gathered
<1>8. Placed(k, E)
  <2> SUFFICES ASSUME NEW l \in Lits, NEW j \in 1..Len(Lemmas), GoesTo(j, k, l),
                      Given(k, l, j) <= Len(List(E, k, l))
               PROVE  IsEntry(List(E, k, l)[Given(k, l, j)], j, k, l)
    BY DEF Placed
  <2>1. j \in Nat \ {0} /\ n + 1 \in Nat \ {0}
    BY InsertsAssumption
  <2>2. PICK q \in Nat : q = Given(k, l, j) /\ q >= 1
    BY <2>1, PlacePositive
  <2>3. PICK g \in Nat : g = Given(k, l, n) /\ Len(List(D, k, l)) = g
    BY <1>4
  <2>4. CASE q <= g
    <3>1. IsEntry(List(D, k, l)[q], j, k, l)
      BY <2>2, <2>3, <2>4 DEF OrderIs, Placed
    <3>2. List(E, k, l)[q] = List(D, k, l)[q]
      <4>1. CASE GoesTo(n + 1, k, l) /\ ~Short(k, l, W2)
        <5>1. PICK e : List(E, k, l) = Append(List(D, k, l), e)
          BY <1>2, <4>1
        <5>2. PICK S : List(D, k, l) \in Seq(S)
          BY ListLength
        <5>3. PICK s, t : s = List(D, k, l) /\ t = List(E, k, l)
          OBVIOUS
        <5>4. q \in 1..Len(s) /\ s \in Seq(S) /\ t = Append(s, e)
          BY <2>2, <2>3, <2>4, <5>1, <5>2, <5>3
        <5>5. t[q] = s[q]
          BY <5>4, LongerList
        <5> QED BY <5>3, <5>5
      <4>2. CASE ~(GoesTo(n + 1, k, l) /\ ~Short(k, l, W2))
        BY <1>2, <4>2
      <4> QED BY <4>1, <4>2
    <3> QED BY <2>2, <3>1, <3>2
  <2>5. CASE ~(q <= g)
    <3>1. GoesTo(n + 1, k, l) /\ ~Short(k, l, W2)
      BY <1>2, <2>2, <2>3, <2>5
    <3>2. PICK e : List(E, k, l) = Append(List(D, k, l), e) /\ IsEntry(e, n + 1, k, l)
      BY <1>2, <3>1
    <3>3. PICK S : List(D, k, l) \in Seq(S)
      BY ListLength
    <3>4. Len(List(E, k, l)) = g + 1 /\ List(E, k, l)[g + 1] = e
      <4>1. PICK s, t : s = List(D, k, l) /\ t = List(E, k, l)
        OBVIOUS
      <4>2. s \in Seq(S) /\ t = Append(s, e)
        BY <3>2, <3>3, <4>1
      <4>3. Len(t) = Len(s) + 1 /\ t[Len(s) + 1] = e
        BY <4>2, LongerList
      <4>4. Len(s) = g
        BY <2>3, <4>1
      <4> QED BY <4>1, <4>3, <4>4
    <3>5. q = g + 1
      BY <2>2, <2>3, <2>5, <3>4
    <3>6. Given(k, l, n + 1) = g + 1
      BY <1>5, <2>3, <3>1 DEF One
    <3>7. j = n + 1
      BY <2>1, <2>2, <3>1, <3>5, <3>6, PlacesDiffer
    <3> QED BY <2>2, <3>2, <3>4, <3>5, <3>7
  <2> QED BY <2>4, <2>5
<1>9. ASSUME NEW h \in LockKinds \ {k} PROVE Placed(h, E)
  <2>1. Placed(h, D) /\ \A l \in Lits : List(E, h, l) = List(D, h, l)
    BY <1>2 DEF OrderIs
  <2> QED BY <2>1 DEF Placed
<1>10. ASSUME NEW v \in Workers \ {w} PROVE Pairing(W[v], E)
  <2>1. Pairing(W[v], D)
    BY DEF OrderIs
  <2>2. CASE k = "binary"
    <3>1. W[v].pc # "push2" /\ ~(W[v].pc = "push" /\ Brings(W[v]) = "binary")
      BY <2>1, <2>2 DEF Pairing, Alone
    <3> QED BY <3>1 DEF Pairing
  <2>3. CASE k # "binary"
    <3>1. \A l \in Lits : List(E, "binary", l) = List(D, "binary", l)
      BY <1>2, <2>3 DEF LockKinds
    <3> QED BY <2>1, <3>1 DEF Pairing
  <2> QED BY <2>2, <2>3
<1>11. \A v \in Workers : Timely(W2[v]) /\ Pairing(W2[v], E)
  BY <1>1, <1>3, <1>10 DEF OrderIs
<1>12. \A h \in LockKinds : Gathered(h, E, W2) /\ Placed(h, E)
  BY <1>6, <1>7, <1>8, <1>9
<1> QED BY <1>11, <1>12 DEF OrderIs

\* The second push of a binary: literal c1 into the list y.
SecondPush(D, E, y, c1) ==
    /\ \A h \in Shared : \A l \in Lits : List(E, h, l) = List(D, h, l)
    /\ \A l \in Lits : List(E, "binary", l) = IF l = y THEN Append(List(D, "binary", l), c1)
                                                        ELSE List(D, "binary", l)

LEMMA PushAgain ==
    ASSUME NEW D \in ClauseDBType, NEW E,
           NEW W \in [Workers -> InsertType], OrderIs(D, W),
           NEW w \in Workers, NEW a, a = W[w], NEW b, NEW W2, W2 = Stepped(W, w, b),
           NEW n \in Nat, n = a.done, n < Len(Lemmas),
           Brings(a) = "binary", a.pc = "push2",
           b.done = n, b.arg = a.arg, b.last = a.last, b.pc = "count",
           Alone(w, "binary", W),
           NEW c1, NEW y \in Lits, y = -Lemmas[n + 1][2], c1 = Lemmas[n + 1][1], y # -c1,
           SecondPush(D, E, y, c1)
    PROVE  OrderIs(E, W2)
<1>1. W2[w] = b /\ \A v \in Workers \ {w} : W2[v] = W[v]
  BY DEF Stepped
<1>2. /\ \A h \in Shared : \A l \in Lits : List(E, h, l) = List(D, h, l)
      /\ \A l \in Lits : List(E, "binary", l) = IF l = y THEN Append(List(D, "binary", l), c1)
                                                          ELSE List(D, "binary", l)
  BY DEF SecondPush
<1>3. Timely(b)
  <2>1. Timely(a)
    BY DEF OrderIs
  <2> QED BY <2>1 DEF Timely
<1>4. \A v \in Workers \ {w} : W[v].pc # "push2" /\ ~(W[v].pc = "push" /\ Brings(W[v]) = "binary")
  BY DEF OrderIs, Pairing, Alone
<1>5. \A l \in Lits : (Short("binary", l, W) <=> l = y) /\ ~Short("binary", l, W2)
  BY <1>1, <1>4 DEF Short
<1>6. PICK m \in 0..Len(Lemmas) :
         /\ \A v \in Workers : Come(W[v], "binary") <= m
         /\ \A l \in Lits : Len(List(D, "binary", l)) + One(Short("binary", l, W))
                              = Given("binary", l, m)
  BY DEF OrderIs, Gathered, LockKinds
<1>7. "binary" \in LockKinds /\ GoesTo(n + 1, "binary", y)
  BY DEF LockKinds, GoesTo, Brings
<1>8. \A l \in Lits : Len(List(D, "binary", l)) \in Nat
  <2> SUFFICES ASSUME NEW l \in Lits PROVE Len(List(D, "binary", l)) \in Nat
    OBVIOUS
  <2>1. \E S : List(D, "binary", l) \in Seq(S)
    BY <1>7, ListLength
  <2> QED BY <2>1
<1>9. PICK g \in Nat : g = Given("binary", y, n) /\ Len(List(D, "binary", y)) = g
  <2>1. a.arg.bins[y] = Given("binary", y, n)
    BY <1>7 DEF OrderIs, Timely, CountedTo, Counter
  <2>2. Len(List(D, "binary", y)) = a.arg.bins[y]
    BY DEF OrderIs, Pairing
  <2> QED BY <1>8, <2>1, <2>2
<1>10. Gathered("binary", E, W2)
  <2>1. \A v \in Workers : Come(W2[v], "binary") <= m
    <3>1. Come(b, "binary") = Come(a, "binary")
      BY DEF Come, Got, Brings
    <3> QED BY <1>1, <1>6, <3>1
  <2>2. ASSUME NEW l \in Lits
        PROVE  Len(List(E, "binary", l)) + One(Short("binary", l, W2)) = Given("binary", l, m)
    <3>1. One(Short("binary", l, W2)) = 0
      BY <1>5 DEF One
    <3>2. CASE l = y
      <4>1. One(Short("binary", l, W)) = 1
        BY <1>5, <3>2 DEF One
      <4>2. PICK S : List(D, "binary", l) \in Seq(S)
        BY <1>7, ListLength
      <4>3. List(E, "binary", l) = Append(List(D, "binary", l), c1)
        BY <1>2, <3>2
      <4>4. Len(List(E, "binary", l)) = g + 1
        <5>1. PICK s, t : s = List(D, "binary", l) /\ t = List(E, "binary", l)
          OBVIOUS
        <5>2. s \in Seq(S) /\ t = Append(s, c1)
          BY <4>2, <4>3, <5>1
        <5>3. Len(t) = Len(s) + 1
          BY <5>2, LongerList
        <5> QED BY <1>9, <3>2, <5>1, <5>3
      <4> QED BY <1>6, <1>9, <3>1, <3>2, <4>1, <4>4
    <3>3. CASE l # y
      <4>1. One(Short("binary", l, W)) = 0
        BY <1>5, <3>3 DEF One
      <4> QED BY <1>2, <1>6, <1>8, <3>1, <3>3, <4>1
    <3> QED BY <3>2, <3>3
  <2> QED BY <2>1, <2>2 DEF Gathered
<1>11. Placed("binary", E)
  <2> SUFFICES ASSUME NEW l \in Lits, NEW j \in 1..Len(Lemmas), GoesTo(j, "binary", l),
                      Given("binary", l, j) <= Len(List(E, "binary", l))
               PROVE  IsEntry(List(E, "binary", l)[Given("binary", l, j)], j, "binary", l)
    BY DEF Placed
  <2>1. j \in Nat \ {0} /\ n + 1 \in Nat \ {0}
    <3>1. n + 1 \in Nat \ {0}
      <4>1. n \in Nat
        OBVIOUS
      <4> QED BY <4>1
    <3>2. j \in Nat \ {0}
      BY InsertsAssumption
    <3> QED BY <3>1, <3>2
  <2>2. PICK q \in Nat : q = Given("binary", l, j) /\ q >= 1
    BY <1>7, <2>1, PlacePositive
  <2>3. CASE q <= Len(List(D, "binary", l))
    <3>1. IsEntry(List(D, "binary", l)[q], j, "binary", l)
      BY <1>7, <2>2, <2>3 DEF OrderIs, Placed
    <3>2. List(E, "binary", l)[q] = List(D, "binary", l)[q]
      <4>1. CASE l = y
        <5>1. PICK S : List(D, "binary", l) \in Seq(S)
          BY <1>7, ListLength
        <5>2. PICK s, t : s = List(D, "binary", l) /\ t = List(E, "binary", l)
          OBVIOUS
        <5>3. q \in 1..Len(s) /\ s \in Seq(S)
          BY <1>8, <2>2, <2>3, <5>1, <5>2
        <5>4. t = Append(s, c1)
          BY <1>2, <4>1, <5>2
        <5>5. t[q] = s[q]
          BY <5>3, <5>4, LongerList
        <5> QED BY <5>2, <5>5
      <4> QED BY <1>2, <4>1
    <3> QED BY <2>2, <3>1, <3>2
  <2>4. CASE ~(q <= Len(List(D, "binary", l)))
    <3>1. l = y
      BY <1>2, <2>2, <2>4
    <3>2. List(E, "binary", l) = Append(List(D, "binary", l), c1)
      BY <1>2, <3>1
    <3>3. PICK S : List(D, "binary", l) \in Seq(S)
      BY <1>7, ListLength
    <3>4. Len(List(E, "binary", l)) = g + 1 /\ List(E, "binary", l)[g + 1] = c1
      <4>1. PICK s, t : s = List(D, "binary", l) /\ t = List(E, "binary", l)
        OBVIOUS
      <4>2. s \in Seq(S) /\ t = Append(s, c1)
        BY <3>2, <3>3, <4>1
      <4>3. Len(t) = Len(s) + 1 /\ t[Len(s) + 1] = c1
        BY <4>2, LongerList
      <4>4. Len(s) = g
        BY <1>9, <3>1, <4>1
      <4> QED BY <4>1, <4>3, <4>4
    <3>5. q = g + 1
      BY <1>9, <2>2, <2>4, <3>1, <3>4
    <3>6. Given("binary", l, n + 1) = g + 1
      BY <1>7, <1>9, <3>1, GivenNat DEF One
    <3>7. j = n + 1
      BY <1>7, <2>1, <2>2, <3>1, <3>5, <3>6, PlacesDiffer
    <3>8. IsEntry(c1, j, "binary", l)
      BY <3>1, <3>7 DEF IsEntry
    <3> QED BY <2>2, <3>4, <3>5, <3>8
  <2> QED BY <2>3, <2>4
<1>12. ASSUME NEW h \in Shared PROVE Gathered(h, E, W2) /\ Placed(h, E)
  <2>1. h \in LockKinds /\ h # "binary"
    BY DEF LockKinds, Shared
  <2>2. PICK p \in 0..Len(Lemmas) :
           /\ \A v \in Workers : Come(W[v], h) <= p
           /\ \A l \in Lits : Len(List(D, h, l)) + One(Short(h, l, W)) = Given(h, l, p)
    BY <2>1 DEF OrderIs, Gathered
  <2>3. Come(b, h) = Come(a, h)
    BY <2>1 DEF Come, Brings
  <2>4. \A v \in Workers : Come(W2[v], h) <= p
    BY <1>1, <2>2, <2>3
  <2>5. ASSUME NEW l \in Lits
        PROVE  Len(List(E, h, l)) + One(Short(h, l, W2)) = Given(h, l, p)
    <3>1. One(Short(h, l, W2)) = 0 /\ One(Short(h, l, W)) = 0
      BY <2>1 DEF One, Short
    <3> QED BY <1>2, <2>2, <3>1
  <2>6. Placed(h, D)
    BY <2>1 DEF OrderIs
  <2> QED BY <1>2, <2>4, <2>5, <2>6 DEF Gathered, Placed
<1>13. \A v \in Workers : Timely(W2[v]) /\ Pairing(W2[v], E)
  <2>1. Pairing(b, E)
    BY DEF Pairing
  <2>2. ASSUME NEW v \in Workers \ {w} PROVE Timely(W[v]) /\ Pairing(W[v], E)
    BY <1>4 DEF OrderIs, Pairing
  <2> QED BY <1>1, <1>3, <2>1, <2>2
<1> QED BY <1>10, <1>11, <1>12, <1>13 DEF OrderIs, LockKinds

LEMMA InitOrder == Init => OrderInv
<1> SUFFICES ASSUME Init PROVE OrderInv
  OBVIOUS
<1>1. PICK d : d = InputDB(Inputs)
  OBVIOUS
<1>2. d \in ClauseDBType
  BY <1>1, InputIsTallied, InsertsAssumption DEF Tallied
<1>3. PICK last : last = [unit |-> Len(d.uDB), bins |-> [l \in Lits |-> Len(d.bDB[l])],
                          ternary |-> Len(d.tDB), nary |-> Len(d.nDB)]
  OBVIOUS
<1>4. db = d /\ \A w \in Workers : wk[w].pc = "idle" /\ wk[w].done = 0 /\ wk[w].last = last
  BY <1>1, <1>3 DEF Init
<1>5. ASSUME NEW k \in LockKinds, NEW l \in Lits
      PROVE  /\ Given(k, l, 0) = Len(List(d, k, l)) /\ Counter(last, k, l) = Len(List(d, k, l))
             /\ Len(List(d, k, l)) \in Nat
  <2>1. \E S : List(d, k, l) \in Seq(S)
    BY <1>2, ListLength
  <2>2. Len(List(d, k, l)) \in Nat
    BY <2>1
  <2>3. Going(k, l, 0) = 0
    BY GoingNext
  <2>4. Counter(last, k, l) = Len(List(d, k, l))
    BY <1>3 DEF Counter, List, Entries, LockKinds, Shared
  <2> QED BY <1>1, <2>2, <2>3, <2>4 DEF Given
<1>6. ASSUME NEW w \in Workers PROVE Timely(wk[w]) /\ Pairing(wk[w], db)
  <2>1. CountedTo(last, 0)
    BY <1>5 DEF CountedTo
  <2> QED BY <1>4, <2>1 DEF Timely, Pairing
<1>7. ASSUME NEW k \in LockKinds PROVE Gathered(k, db, wk)
  <2>1. \A v \in Workers : Come(wk[v], k) <= 0
    BY <1>4 DEF Come, Got
  <2>2. ASSUME NEW l \in Lits
        PROVE  Len(List(db, k, l)) + One(Short(k, l, wk)) = Given(k, l, 0)
    <3>1. One(Short(k, l, wk)) = 0
      BY <1>4 DEF One, Short
    <3> QED BY <1>4, <1>5, <3>1
  <2>3. 0 \in 0..Len(Lemmas)
    BY InsertsAssumption
  <2> QED BY <2>1, <2>2, <2>3 DEF Gathered
<1>8. ASSUME NEW k \in LockKinds PROVE Placed(k, db)
  <2> SUFFICES ASSUME NEW l \in Lits, NEW j \in 1..Len(Lemmas), GoesTo(j, k, l),
                      Given(k, l, j) <= Len(List(db, k, l))
               PROVE  FALSE
    BY DEF Placed
  <2>1. PICK i \in Nat : i + 1 = j
    <3>1. j - 1 \in Nat /\ (j - 1) + 1 = j
      BY InsertsAssumption
    <3> QED BY <3>1
  <2>2. Given(k, l, j) = Given(k, l, i) + 1 /\ Given(k, l, i) \in Nat
    BY <2>1, GivenNat DEF One
  <2>3. Given(k, l, 0) <= Given(k, l, i) /\ 0 \in Nat
    BY <2>1, GivenNat
  <2> QED BY <1>4, <1>5, <2>2, <2>3
<1> QED BY <1>6, <1>7, <1>8 DEF OrderInv, OrderIs

\* A step after which the worker has come as far as before.
LEMMA CalmOrder ==
    ASSUME NEW D \in ClauseDBType, NEW E, SameItems(D, E),
           NEW W \in [Workers -> InsertType], OrderIs(D, W),
           NEW w \in Workers, NEW a, a = W[w], NEW b, NEW W2, W2 = Stepped(W, w, b),
           Timely(b), Pairing(b, D), a.pc # "push2", b.pc # "push2",
           \A k \in LockKinds : Come(b, k) = Come(a, k)
    PROVE  OrderIs(E, W2)
<1>1. ASSUME NEW k \in LockKinds, NEW m \in 0..Len(Lemmas), Come(a, k) <= m
      PROVE  \E n \in 0..Len(Lemmas) :
                /\ m <= n /\ Come(b, k) <= n
                /\ \A l \in Lits : Given(k, l, n) = Given(k, l, m)
  <2>1. m \in Nat
    BY InsertsAssumption
  <2>2. m <= m
    BY <2>1
  <2> QED BY <1>1, <2>2
<1>2. StaysWithin(a, b, D, W)
  BY <1>1 DEF StaysWithin
<1> QED BY <1>2, QuietOrder

LEMMA SameSelf == \A D : SameItems(D, D)
BY DEF SameItems

LEMMA AloneInKind ==
    ASSUME LocksInv, NEW w \in Workers, wk[w].pc # "idle"
    PROVE  \A v \in Workers \ {w} : wk[v].pc # "idle" => Brings(wk[v]) # Brings(wk[w])
BY OneInserts DEF LocksInv

\* Only flags and the ternary lists of literals differ: the lists have the same items.
SameLits(s, t) == Len(t) = Len(s) /\ \A i \in 1..Len(s) : t[i].lits = s[i].lits

LEMMA FlagsKeepItems ==
    ASSUME NEW D, NEW E, E.uDB = D.uDB, E.bDB = D.bDB,
           SameLits(D.tDB, E.tDB), SameLits(D.nDB, E.nDB)
    PROVE  SameItems(D, E)
<1> SUFFICES ASSUME NEW k \in LockKinds, NEW l \in Lits
             PROVE  /\ Len(List(E, k, l)) = Len(List(D, k, l))
                    /\ \A i \in 1..Len(List(D, k, l)) : \A j :
                          IsEntry(List(D, k, l)[i], j, k, l) => IsEntry(List(E, k, l)[i], j, k, l)
  BY DEF SameItems
<1>1. CASE k = "unit"
  BY <1>1 DEF List, Entries
<1>2. CASE k = "binary"
  BY <1>2 DEF List
<1>3. CASE k = "ternary"
  BY <1>3 DEF List, Entries, IsEntry, SameLits
<1>4. CASE k = "nary"
  BY <1>4 DEF List, Entries, IsEntry, SameLits
<1> QED BY <1>1, <1>2, <1>3, <1>4 DEF LockKinds, Shared

LEMMA AcquireOrder ==
    ASSUME LocksInv, OrderInv, NEW w \in Workers, Acquire(w)
    PROVE  OrderInv'
<1>1. PICK a, c, n : a = wk[w] /\ n = a.done /\ c = Lemmas[n + 1]
  OBVIOUS
<1>2. PICK b : b = [a EXCEPT !.pc = "locked", !.arg = a.last, !.last = Counted(a.last, c)]
  OBVIOUS
<1>3. a.pc = "idle" /\ n < Len(Lemmas) /\ db' = db
  BY <1>1 DEF Acquire, Call, At
<1>4. wk \in [Workers -> InsertType] /\ a \in InsertType /\ db \in ClauseDBType
  BY <1>1 DEF LocksInv
<1>5. /\ n \in Nat /\ a.last \in CountersType
      /\ DOMAIN a = {"pc", "done", "last", "arg", "size", "towatch", "read"}
  BY <1>1, <1>4, InsertFields
<1>6. wk' = Stepped(wk, w, b)
  <2>1. wk' = [wk EXCEPT ![w].pc = "locked", ![w].arg = wk[w].last,
                         ![w].last = Counted(@, Lemmas[wk[w].done + 1])]
    BY DEF Acquire, Call, Lemma
  <2> QED BY <1>1, <1>2, <1>4, <2>1 DEF Stepped
<1>7. b.pc = "locked" /\ b.done = n /\ b.arg = a.last /\ b.last = Counted(a.last, c)
  BY <1>1, <1>2, <1>5
<1>8. CountedTo(a.last, n)
  BY <1>1, <1>3 DEF OrderInv, OrderIs, Timely
<1>9. CountedTo(b.last, n + 1)
  <2> SUFFICES ASSUME NEW k \in LockKinds, NEW l \in Lits
               PROVE  Counter(b.last, k, l) = Given(k, l, n + 1)
    BY DEF CountedTo
  <2>1. Counter(a.last, k, l) = Given(k, l, n)
    BY <1>8 DEF CountedTo
  <2>2. Counter(b.last, k, l) = Counter(a.last, k, l) + One(GoesTo(n + 1, k, l))
    BY <1>1, <1>3, <1>5, <1>7, CountedCounter
  <2>3. Given(k, l, n + 1) = Given(k, l, n) + One(GoesTo(n + 1, k, l))
    BY <1>5, GivenNat
  <2> QED BY <2>1, <2>2, <2>3
<1>10. Timely(b) /\ Pairing(b, db)
  BY <1>7, <1>8, <1>9 DEF Timely, Pairing
<1>11. \A k \in LockKinds : Come(b, k) = Come(a, k)
  BY <1>1, <1>3, <1>7 DEF Come, Got
<1>12. OrderIs(db', wk')
  <2>1. a.pc # "push2" /\ b.pc # "push2" /\ SameItems(db, db') /\ OrderIs(db, wk)
    BY <1>3, <1>7, SameSelf DEF OrderInv
  <2> QED BY <1>1, <1>4, <1>6, <1>10, <1>11, <2>1, CalmOrder
<1> QED BY <1>12 DEF OrderInv, OrderIs, Gathered, Placed, Short, Pairing, Timely

\* Steps of a worker that has its lemma in its list: only its place in the insert, and
\* flags and the ternary lists of literals, change.
LEMMA OwnOrder ==
    ASSUME LocksInv, OrderInv, NEW w \in Workers, NEW a, a = wk[w], NEW b,
           wk' = Stepped(wk, w, b), a.pc \in {"found", "watch", "count", "store"},
           b.pc \in {"watch", "count", "store", "unlock"}, b.done = a.done,
           b.arg = a.arg, b.last = a.last, SameItems(db, db')
    PROVE  OrderIs(db', wk')
<1>1. wk \in [Workers -> InsertType] /\ db \in ClauseDBType
  BY DEF LocksInv
<1>2. Timely(b) /\ Pairing(b, db)
  BY DEF OrderInv, OrderIs, Timely, Pairing
<1>3. \A k \in LockKinds : Come(b, k) = Come(a, k)
  BY DEF Come, Got, Brings
<1>4. OrderIs(db, wk) /\ a.pc # "push2" /\ b.pc # "push2"
  BY DEF OrderInv
<1> QED BY <1>1, <1>2, <1>3, <1>4, CalmOrder

LEMMA CountKindOrder ==
    ASSUME LocksInv, OrderInv, NEW w \in Workers, CountKind(w)
    PROVE  OrderIs(db', wk')
<1>1. PICK a, r, b : a = wk[w] /\ r = num.all /\ b = [a EXCEPT !.pc = "store", !.read = r]
  OBVIOUS
<1>2. a.pc = "count" /\ db' = db /\ wk' = [wk EXCEPT ![w].pc = "store", ![w].read = r]
  BY <1>1 DEF CountKind, At
<1>3. wk \in [Workers -> InsertType] /\ a \in InsertType
  BY <1>1 DEF LocksInv
<1>4. wk' = Stepped(wk, w, b)
  BY <1>1, <1>2, <1>3 DEF Stepped
<1>5. b.pc = "store" /\ b.done = a.done /\ b.arg = a.arg /\ b.last = a.last
  BY <1>1, <1>3, InsertFields
<1>6. /\ a.pc \in {"found", "watch", "count", "store"}
      /\ b.pc \in {"watch", "count", "store", "unlock"} /\ SameItems(db, db')
  BY <1>2, <1>5, SameSelf
<1> QED BY <1>1, <1>4, <1>5, <1>6, OwnOrder

LEMMA StoreOrder ==
    ASSUME LocksInv, OrderInv, NEW w \in Workers, StoreNumClauses(w)
    PROVE  OrderIs(db', wk')
<1>1. PICK a, b : a = wk[w] /\ b = [a EXCEPT !.pc = "unlock"]
  OBVIOUS
<1>2. a.pc = "store" /\ db' = db /\ wk' = [wk EXCEPT ![w].pc = "unlock"]
  BY <1>1 DEF StoreNumClauses, At
<1>3. wk \in [Workers -> InsertType] /\ a \in InsertType
  BY <1>1 DEF LocksInv
<1>4. wk' = Stepped(wk, w, b)
  BY <1>1, <1>2, <1>3 DEF Stepped
<1>5. b.pc = "unlock" /\ b.done = a.done /\ b.arg = a.arg /\ b.last = a.last
  BY <1>1, <1>3, InsertFields
<1>6. /\ a.pc \in {"found", "watch", "count", "store"}
      /\ b.pc \in {"watch", "count", "store", "unlock"} /\ SameItems(db, db')
  BY <1>2, <1>5, SameSelf
<1> QED BY <1>1, <1>4, <1>5, <1>6, OwnOrder

LEMMA WatchTernaryOrder ==
    ASSUME LocksInv, OrderInv, NEW w \in Workers, WatchTernary(w)
    PROVE  OrderIs(db', wk')
<1>1. PICK l, x, t, p :
         /\ p \in {"count", "watch"} /\ wk[w].pc = "watch"
         /\ db' = [db EXCEPT !.ternaryWatches[l] = Append(@, x)]
         /\ wk' = [wk EXCEPT ![w].towatch = @ \ {t}, ![w].pc = p]
  <2>1. PICK l : l = Min(wk[w].towatch)
    OBVIOUS
  <2>2. PICK p : p = IF wk[w].towatch = {l} THEN "count" ELSE "watch"
    OBVIOUS
  <2> QED BY <2>1, <2>2 DEF WatchTernary, At
<1>2. PICK a, b : a = wk[w] /\ b = Moved(a, p, a.towatch \ {t})
  OBVIOUS
<1>3. wk \in [Workers -> InsertType] /\ a \in InsertType /\ db \in ClauseDBType
  BY <1>2 DEF LocksInv
<1>4. DOMAIN a = {"pc", "done", "last", "arg", "size", "towatch", "read"}
  BY <1>3, InsertFields
<1>5. wk' = Stepped(wk, w, b)
  BY <1>1, <1>2, <1>3, <1>4 DEF Stepped, Moved
<1>6. b.pc = p /\ b.done = a.done /\ b.arg = a.arg /\ b.last = a.last
  BY <1>2, <1>4 DEF Moved
<1>7. SameItems(db, db')
  <2>1. db'.uDB = db.uDB /\ db'.bDB = db.bDB /\ db'.tDB = db.tDB /\ db'.nDB = db.nDB
    BY <1>1, <1>3 DEF ClauseDBType
  <2>2. SameLits(db.tDB, db'.tDB) /\ SameLits(db.nDB, db'.nDB)
    BY <2>1 DEF SameLits
  <2> QED BY <2>1, <2>2, FlagsKeepItems
<1> QED BY <1>1, <1>2, <1>5, <1>6, <1>7, OwnOrder

LEMMA UseFoundOrder ==
    ASSUME LocksInv, OrderInv, NEW w \in Workers, UseFound(w)
    PROVE  OrderIs(db', wk')
<1>1. PICK a, b, i : a = wk[w] /\ b = [a EXCEPT !.pc = "unlock"] /\ i = Position(w) + 1
  OBVIOUS
<1>2. a.pc = "found" /\ wk' = [wk EXCEPT ![w].pc = "unlock"]
  BY <1>1 DEF UseFound, At
<1>3. wk \in [Workers -> InsertType] /\ a \in InsertType /\ db \in ClauseDBType
  BY <1>1 DEF LocksInv
<1>4. wk' = Stepped(wk, w, b)
  BY <1>1, <1>2, <1>3 DEF Stepped
<1>5. b.pc = "unlock" /\ b.done = a.done /\ b.arg = a.arg /\ b.last = a.last
  BY <1>1, <1>3, InsertFields
<1>6. db' = TernaryFlag(db, i, w) \/ db' = NaryFlag(db, i, w) \/ db' = db
  BY <1>1 DEF UseFound, TernaryFlag, NaryFlag
<1>7. SameItems(db, db')
  <2>1. CASE db' = TernaryFlag(db, i, w)
    <3>1. PICK s, t : s = db.tDB /\ t = [s EXCEPT ![i].flags[w] = TRUE]
      OBVIOUS
    <3>2. s \in Seq(TernaryEntry)
      BY <1>3, <3>1 DEF ClauseDBType
    <3>3. DOMAIN t = DOMAIN s /\ SameLits(s, t)
      BY <3>1, <3>2 DEF TernaryEntry, SameLits
    <3>4. db'.uDB = db.uDB /\ db'.bDB = db.bDB /\ db'.tDB = t /\ db'.nDB = db.nDB
      BY <1>3, <2>1, <3>1 DEF ClauseDBType, TernaryFlag
    <3>5. SameLits(db.tDB, db'.tDB) /\ SameLits(db.nDB, db'.nDB)
      BY <3>1, <3>3, <3>4 DEF SameLits
    <3> QED BY <3>4, <3>5, FlagsKeepItems
  <2>2. CASE db' = NaryFlag(db, i, w)
    <3>1. PICK s, t : s = db.nDB /\ t = [s EXCEPT ![i].flags[w] = TRUE]
      OBVIOUS
    <3>2. s \in Seq(NaryEntry)
      BY <1>3, <3>1 DEF ClauseDBType
    <3>3. DOMAIN t = DOMAIN s /\ SameLits(s, t)
      BY <3>1, <3>2 DEF NaryEntry, SameLits
    <3>4. db'.uDB = db.uDB /\ db'.bDB = db.bDB /\ db'.nDB = t /\ db'.tDB = db.tDB
      BY <1>3, <2>2, <3>1 DEF ClauseDBType, NaryFlag
    <3>5. SameLits(db.tDB, db'.tDB) /\ SameLits(db.nDB, db'.nDB)
      BY <3>1, <3>3, <3>4 DEF SameLits
    <3> QED BY <3>4, <3>5, FlagsKeepItems
  <2> QED BY <1>6, <2>1, <2>2, SameSelf
<1>8. /\ a.pc \in {"found", "watch", "count", "store"}
      /\ b.pc \in {"watch", "count", "store", "unlock"}
  BY <1>2, <1>5
<1> QED BY <1>1, <1>4, <1>5, <1>7, <1>8, OwnOrder

LEMMA ReleaseOrder ==
    ASSUME LocksInv, OrderInv, NEW w \in Workers, Release(w)
    PROVE  OrderIs(db', wk')
<1>1. PICK a, n, b : a = wk[w] /\ n = a.done /\ b = [a EXCEPT !.pc = "idle", !.done = n + 1]
  OBVIOUS
<1>2. a.pc = "unlock" /\ db' = db /\ wk' = [wk EXCEPT ![w].pc = "idle", ![w].done = @ + 1]
  BY <1>1 DEF Release, At
<1>3. wk \in [Workers -> InsertType] /\ a \in InsertType /\ db \in ClauseDBType
  BY <1>1 DEF LocksInv
<1>4. n \in Nat /\ n < Len(Lemmas)
  BY <1>1, <1>2, InsertStarts
<1>5. wk' = Stepped(wk, w, b)
  BY <1>1, <1>2, <1>3 DEF Stepped
<1>6. b.pc = "idle" /\ b.done = n + 1 /\ b.arg = a.arg /\ b.last = a.last
  BY <1>1, <1>3, InsertFields
<1>7. Timely(b) /\ Pairing(b, db)
  <2>1. Timely(a)
    BY <1>1 DEF OrderInv, OrderIs
  <2>2. CountedTo(b.last, b.done)
    BY <1>1, <1>2, <1>6, <2>1 DEF Timely
  <2> QED BY <1>6, <2>2 DEF Timely, Pairing
<1>8. ASSUME NEW k \in LockKinds, NEW m \in 0..Len(Lemmas), Come(a, k) <= m
      PROVE  \E p \in 0..Len(Lemmas) :
                /\ m <= p /\ Come(b, k) <= p
                /\ \A l \in Lits : Given(k, l, p) = Given(k, l, m)
  <2>1. m \in Nat /\ Len(Lemmas) \in Nat
    BY InsertsAssumption
  <2>2. Come(b, k) = n + 1
    BY <1>6 DEF Come, Got
  <2>3. CASE n + 1 <= m
    BY <2>1, <2>2, <2>3
  <2>4. CASE ~(n + 1 <= m)
    <3>1. Come(a, k) \in {n, n + 1}
      BY <1>1 DEF Come
    <3>2. m = n /\ Come(a, k) = n
      BY <1>4, <1>8, <2>1, <2>4, <3>1
    <3>3. Brings(a) # k
      BY <1>1, <1>2, <1>4, <3>2 DEF Come, Got
    <3>4. \A l \in Lits : Given(k, l, n + 1) = Given(k, l, n)
      <4> SUFFICES ASSUME NEW l \in Lits PROVE Given(k, l, n + 1) = Given(k, l, n)
        OBVIOUS
      <4>1. One(GoesTo(n + 1, k, l)) = 0
        BY <1>1, <3>3 DEF One, GoesTo, Brings
      <4>2. Given(k, l, n) \in Nat /\ Given(k, l, n + 1) = Given(k, l, n) + One(GoesTo(n + 1, k, l))
        BY <1>4, GivenNat
      <4> QED BY <4>1, <4>2
    <3>5. n + 1 \in 0..Len(Lemmas) /\ m <= n + 1 /\ n + 1 <= n + 1
      BY <1>4, <2>1, <3>2
    <3> QED BY <2>2, <3>2, <3>4, <3>5
  <2> QED BY <2>3, <2>4
<1>9. StaysWithin(a, b, db, wk)
  BY <1>8 DEF StaysWithin
<1>10. OrderIs(db, wk) /\ SameItems(db, db') /\ a.pc # "push2" /\ b.pc # "push2"
  BY <1>2, <1>6, SameSelf DEF OrderInv
<1> QED BY <1>1, <1>3, <1>5, <1>7, <1>9, <1>10, QuietOrder

\* The list an insert looks at is one that its lemma goes to, and the position the
\* one its counter gives.
LEMMA OwnList ==
    ASSUME LocksInv, NEW w \in Workers, NEW a, a = wk[w], a.pc # "idle",
           NEW c, c = Lemmas[a.done + 1], NEW k, k = KindOf(c)
    PROVE  \E x \in Lits :
              /\ GoesTo(a.done + 1, k, x) /\ ListOf(w) = List(db, k, x)
              /\ Position(w) = Counter(a.arg, k, x)
              /\ k = "binary" => x = -c[1]
<1>1. /\ Kind(w) = k /\ Lemma(w) = c /\ c \in Seq(Lits) /\ Len(c) \in Nat /\ Len(c) > 0
      /\ k \in LockKinds
  BY InsertStarts
<1>2. c[1] \in Lits /\ -c[1] \in Lits
  <2>1. c[1] \in Lits
    BY <1>1
  <2> QED BY <2>1, LitFacts
<1>3. PICK x \in Lits : x = -c[1]
  BY <1>2
<1>4. GoesTo(a.done + 1, k, x)
  BY <1>3 DEF GoesTo
<1>5. CASE k = "binary"
  <2>1. ListOf(w) = List(db, k, x) /\ Position(w) = Counter(a.arg, k, x)
    BY <1>1, <1>3, <1>5 DEF ListOf, List, Position, Counter
  <2> QED BY <1>3, <1>4, <2>1
<1>6. CASE k \in Shared
  <2>1. ListOf(w) = List(db, k, x) /\ Position(w) = Counter(a.arg, k, x)
    BY <1>1, <1>6 DEF ListOf, List, Position, Counter, Entries, Shared
  <2> QED BY <1>3, <1>4, <2>1
<1> QED BY <1>1, <1>5, <1>6 DEF LockKinds

LEMMA ReadSizeOrder ==
    ASSUME LocksInv, OrderInv, NEW w \in Workers, ReadSize(w)
    PROVE  OrderIs(db', wk')
<1>1. PICK a, n, c, k : a = wk[w] /\ n = a.done /\ c = Lemmas[n + 1] /\ k = KindOf(c)
  OBVIOUS
<1>2. PICK size, next :
         /\ size = Len(ListOf(w))
         /\ next = IF AlreadyInList(ListOf(w), FALSE, Position(w)) THEN "found" ELSE "push"
  OBVIOUS
<1>3. /\ a.pc = "locked" /\ db' = db
      /\ wk' = [wk EXCEPT ![w].size = size, ![w].pc = next]
  BY <1>1, <1>2 DEF ReadSize, At
<1>4. /\ wk \in [Workers -> InsertType] /\ a \in InsertType /\ db \in ClauseDBType
      /\ n \in Nat /\ n < Len(Lemmas) /\ Brings(a) = k /\ k \in LockKinds
  <2>1. a.pc # "idle"
    BY <1>3
  <2> QED BY <1>1, <2>1, InsertStarts
<1>5. PICK x \in Lits : /\ GoesTo(n + 1, k, x) /\ ListOf(w) = List(db, k, x)
                        /\ Position(w) = Counter(a.arg, k, x)
                        /\ k = "binary" => x = -c[1]
  <2>1. a.pc # "idle"
    BY <1>3
  <2> QED BY <1>1, <2>1, OwnList
<1>6. PICK b : b = [a EXCEPT !.size = size, !.pc = next]
  OBVIOUS
<1>7. wk' = Stepped(wk, w, b)
  BY <1>1, <1>3, <1>4, <1>6 DEF Stepped
<1>8. b.pc = next /\ b.done = n /\ b.arg = a.arg /\ b.last = a.last /\ Brings(b) = k
  <2>1. b.pc = next /\ b.done = n /\ b.arg = a.arg /\ b.last = a.last
    BY <1>1, <1>4, <1>6, InsertFields
  <2> QED BY <1>1, <2>1 DEF Brings
<1>9. next \in {"found", "push"}
  BY <1>2
<1>10. Timely(b)
  <2>1. Timely(a)
    BY <1>1 DEF OrderInv, OrderIs
  <2> QED BY <1>1, <1>3, <1>8, <1>9, <2>1 DEF Timely
<1>11. OrderIs(db, wk) /\ SameItems(db, db') /\ a.pc # "push2" /\ b.pc # "push2"
  BY <1>3, <1>8, <1>9, SameSelf DEF OrderInv
<1>12. /\ Counter(a.arg, k, x) = Given(k, x, n) /\ Given(k, x, n) \in Nat
       /\ Len(List(db, k, x)) \in Nat
  <2>1. Counter(a.arg, k, x) = Given(k, x, n)
    BY <1>1, <1>3, <1>4 DEF OrderInv, OrderIs, Timely, CountedTo
  <2>2. \E S : List(db, k, x) \in Seq(S)
    BY <1>4, ListLength
  <2>3. Len(List(db, k, x)) \in Nat
    BY <2>2
  <2> QED BY <1>4, <2>1, <2>3, GivenNat
<1>13. CASE next = "push"
  <2>1. Len(List(db, k, x)) <= Counter(a.arg, k, x)
    BY <1>2, <1>5, <1>12, <1>13 DEF AlreadyInList
  <2>2. Pairing(b, db)
    <3>1. b.pc = "push" /\ Lemmas[b.done + 1] = c
      BY <1>1, <1>8, <1>13
    <3>2. k = "binary" => Len(List(db, "binary", x)) <= b.arg.bins[x] /\ x = -c[1]
      BY <1>5, <1>8, <2>1 DEF Counter
    <3> QED BY <1>8, <3>1, <3>2 DEF Pairing
  <2>3. \A h \in LockKinds : Come(b, h) = Come(a, h)
    BY <1>1, <1>3, <1>8, <1>13 DEF Come, Got
  <2> QED BY <1>1, <1>4, <1>7, <1>10, <1>11, <2>2, <2>3, CalmOrder
<1>14. CASE next = "found"
  <2>1. Given(k, x, n) < Len(List(db, k, x))
    BY <1>2, <1>5, <1>12, <1>14 DEF AlreadyInList
  <2>2. Pairing(b, db)
    BY <1>8, <1>14 DEF Pairing
  <2>3. ASSUME NEW h \in LockKinds, NEW m \in 0..Len(Lemmas), Come(a, h) <= m,
               \A l \in Lits : Len(List(db, h, l)) + One(Short(h, l, wk)) = Given(h, l, m)
        PROVE  Come(b, h) <= m
    <3>1. Come(a, h) = n
      BY <1>1, <1>3 DEF Come, Got
    <3>2. CASE h # k
      <4>1. Come(b, h) = n
        BY <1>8, <3>2 DEF Come
      <4> QED BY <2>3, <3>1, <4>1
    <3>3. CASE h = k
      <4>1. m \in Nat
        BY InsertsAssumption
      <4>2. Come(b, h) \in {n, n + 1}
        BY <1>8 DEF Come
      <4>3. Len(List(db, k, x)) <= Given(k, x, m)
        <5>1. PICK o \in Nat : o = One(Short(k, x, wk))
          BY OneNat
        <5>2. Len(List(db, k, x)) + o = Given(k, x, m)
          BY <2>3, <3>3, <5>1
        <5> QED BY <1>12, <5>1, <5>2
      <4>4. m # n
        BY <1>12, <2>1, <4>3
      <4> QED BY <1>4, <2>3, <3>1, <4>1, <4>2, <4>4
    <3> QED BY <3>2, <3>3
  <2>4. StaysWithin(a, b, db, wk)
    <3> SUFFICES ASSUME NEW h \in LockKinds, NEW m \in 0..Len(Lemmas), Come(a, h) <= m,
                        \A l \in Lits : Len(List(db, h, l)) + One(Short(h, l, wk)) = Given(h, l, m)
                 PROVE  \E p \in 0..Len(Lemmas) :
                           /\ m <= p /\ Come(b, h) <= p
                           /\ \A l \in Lits : Given(h, l, p) = Given(h, l, m)
      BY DEF StaysWithin
    <3>1. Come(b, h) <= m
      BY <2>3
    <3>2. m <= m
      BY InsertsAssumption
    <3> QED BY <3>1, <3>2
  <2> QED BY <1>1, <1>4, <1>7, <1>10, <1>11, <2>2, <2>4, QuietOrder
<1> QED BY <1>9, <1>13, <1>14

\* A worker about to push sees that its lemma is not in its list.
LEMMA OwnRoom ==
    ASSUME LocksInv, OrderInv, NEW w \in Workers, NEW a, a = wk[w], a.pc = "push",
           NEW n, n = a.done, NEW k, k = Brings(a)
    PROVE  \E x \in Lits : GoesTo(n + 1, k, x) /\ Len(List(db, k, x)) <= Counter(a.arg, k, x)
<1>1. PICK c : c = Lemmas[n + 1] /\ k = KindOf(c)
  BY DEF Brings
<1>2. /\ a \in InsertType /\ db \in ClauseDBType /\ k \in LockKinds
      /\ Position(w) = Place(a) /\ Sound(a, db, w)
  BY <1>1, InsertStarts
<1>3. PICK x \in Lits : /\ GoesTo(n + 1, k, x) /\ ListOf(w) = List(db, k, x)
                        /\ Position(w) = Counter(a.arg, k, x)
                        /\ k = "binary" => x = -c[1]
  BY <1>1, OwnList
<1>4. CASE k = "binary"
  <2>1. Len(List(db, "binary", x)) <= a.arg.bins[x]
    BY <1>1, <1>3, <1>4 DEF OrderInv, OrderIs, Pairing
  <2> QED BY <1>3, <1>4, <2>1 DEF Counter
<1>5. CASE k \in Shared
  <2>1. Len(Entries(db, k)) <= Place(a)
    BY <1>2, <1>5 DEF Sound, Informed
  <2>2. List(db, k, x) = Entries(db, k)
    BY <1>5 DEF List, Shared
  <2> QED BY <1>2, <1>3, <2>1, <2>2
<1> QED BY <1>2, <1>4, <1>5 DEF LockKinds

\* The pushes of a unit, a ternary and a longer clause.
EntryAdded(D, E, k, e) ==
    /\ E.bDB = D.bDB
    /\ Entries(E, k) = Append(Entries(D, k), e)
    /\ \A h \in Shared \ {k} : Entries(E, h) = Entries(D, h)

LEMMA PushOneOrder ==
    ASSUME LocksInv, OrderInv, NEW w \in Workers, NEW a, a = wk[w], a.pc = "push",
           NEW n, n = a.done, NEW k \in Shared, k = Brings(a),
           NEW b, wk' = Stepped(wk, w, b), b.pc \in {"watch", "count"},
           b.done = n, b.arg = a.arg, b.last = a.last,
           NEW e, \A l : IsEntry(e, n + 1, k, l), EntryAdded(db, db', k, e)
    PROVE  OrderIs(db', wk')
<1>1. PICK c : c = Lemmas[n + 1] /\ k = KindOf(c)
  BY DEF Brings
<1>2. /\ wk \in [Workers -> InsertType] /\ db \in ClauseDBType
      /\ n \in Nat /\ n < Len(Lemmas) /\ k \in LockKinds
  BY <1>1, InsertStarts
<1>3. k # "binary"
  BY DEF Shared
<1>4. PICK x \in Lits : GoesTo(n + 1, k, x) /\ Len(List(db, k, x)) <= Counter(a.arg, k, x)
  BY OwnRoom
<1>5. Alone(w, k, wk)
  BY AloneInKind DEF Alone
<1>6. PICK E, W2 : E = db' /\ W2 = wk' /\ W2 = Stepped(wk, w, b)
  OBVIOUS
<1>7. \A h, l : Short(h, l, W2) <=> Short(h, l, wk)
  <2>1. a.pc # "push2" /\ b.pc # "push2"
    OBVIOUS
  <2> QED BY <1>2, <1>6, <2>1, ShortSame
<1>8. EntryAdded(db, E, k, e)
  BY <1>6
<1>9. PushedTo(db, E, wk, W2, k, n + 1)
  <2>1. ASSUME NEW h \in LockKinds \ {k}, NEW l \in Lits
        PROVE  List(E, h, l) = List(db, h, l)
    BY <1>8 DEF EntryAdded, List, LockKinds
  <2>2. ASSUME NEW l \in Lits PROVE ~Short(k, l, W2) /\ GoesTo(n + 1, k, l)
    BY <1>1, <1>3 DEF Short, GoesTo
  <2>3. ASSUME NEW l \in Lits PROVE List(E, k, l) = Append(List(db, k, l), e)
    BY <1>3, <1>8 DEF EntryAdded, List
  <2>4. \A l \in Lits : \E d : List(E, k, l) = Append(List(db, k, l), d) /\ IsEntry(d, n + 1, k, l)
    BY <2>3
  <2> QED BY <1>7, <2>1, <2>2, <2>4 DEF PushedTo
<1>10. Pairing(b, E) /\ Got(b)
  BY DEF Pairing, Got
<1>11. OrderIs(db, wk)
  BY DEF OrderInv
<1>12. OrderIs(E, W2)
  BY <1>2, <1>4, <1>5, <1>6, <1>9, <1>10, <1>11, PushOrder
<1> QED BY <1>6, <1>12

LEMMA PushUnitOrder ==
    ASSUME LocksInv, OrderInv, NEW w \in Workers, PushUnit(w)
    PROVE  OrderIs(db', wk')
<1>1. PICK a, n, c : a = wk[w] /\ n = a.done /\ c = Lemmas[n + 1]
  OBVIOUS
<1>2. PICK b : b = [a EXCEPT !.pc = "count"]
  OBVIOUS
<1>3. a.pc = "push" /\ wk' = [wk EXCEPT ![w].pc = "count"]
  BY <1>1 DEF PushUnit, At
<1>4. /\ wk \in [Workers -> InsertType] /\ a \in InsertType /\ db \in ClauseDBType
      /\ Lemma(w) = c /\ Kind(w) = Brings(a)
  BY <1>1, <1>3, InsertStarts
<1>5. /\ wk' = Stepped(wk, w, b) /\ b.pc = "count" /\ b.done = n /\ b.arg = a.arg /\ b.last = a.last
  BY <1>2, <1>1, <1>3, <1>4, InsertFields DEF Stepped
<1>6. "unit" = Brings(a) /\ "unit" \in Shared
  BY <1>4 DEF PushUnit, Shared
<1>7. PICK e : e = c[1]
  OBVIOUS
<1>8. \A l : IsEntry(e, n + 1, "unit", l)
  BY <1>1, <1>7 DEF IsEntry
<1>9. EntryAdded(db, db', "unit", e)
  <2>1. db' = [db EXCEPT !.uDB = Append(@, c[1])]
    BY <1>4 DEF PushUnit
  <2>2. db'.uDB = Append(db.uDB, c[1]) /\ db'.bDB = db.bDB /\ db'.tDB = db.tDB /\ db'.nDB = db.nDB
    BY <1>4, <2>1 DEF ClauseDBType
  <2> QED BY <1>7, <2>2 DEF EntryAdded, Entries, Shared
<1>10. b.pc \in {"watch", "count"}
  BY <1>5
<1> QED BY <1>1, <1>3, <1>5, <1>6, <1>8, <1>9, <1>10, PushOneOrder

LEMMA PushTernaryOrder ==
    ASSUME LocksInv, OrderInv, NEW w \in Workers, PushTernary(w)
    PROVE  OrderIs(db', wk')
<1>1. PICK a, n, c, b : /\ a = wk[w] /\ n = a.done /\ c = Lemmas[n + 1]
                        /\ b = Moved(a, "watch", ToSet(c))
  OBVIOUS
<1>2. a.pc = "push"
  BY <1>1 DEF PushTernary, At
<1>3. /\ wk \in [Workers -> InsertType] /\ a \in InsertType /\ db \in ClauseDBType
      /\ Lemma(w) = c /\ Kind(w) = Brings(a)
  BY <1>1, <1>2, InsertStarts
<1>4. wk' = [wk EXCEPT ![w].pc = "watch", ![w].towatch = ToSet(c)]
  BY <1>3 DEF PushTernary
<1>5. /\ wk' = Stepped(wk, w, b) /\ b.pc = "watch" /\ b.done = n /\ b.arg = a.arg /\ b.last = a.last
  BY <1>1, <1>3, <1>4, InsertFields DEF Stepped, Moved
<1>6. "ternary" = Brings(a) /\ "ternary" \in Shared
  BY <1>3 DEF PushTernary, Shared
<1>7. PICK e : e = [lits |-> ToSet(c), flags |-> Flags(FALSE, w)]
  OBVIOUS
<1>8. \A l : IsEntry(e, n + 1, "ternary", l)
  BY <1>1, <1>7 DEF IsEntry
<1>9. EntryAdded(db, db', "ternary", e)
  <2>1. db' = [db EXCEPT !.tDB = Append(@, e)]
    BY <1>3, <1>7 DEF PushTernary
  <2>2. db'.tDB = Append(db.tDB, e) /\ db'.bDB = db.bDB /\ db'.uDB = db.uDB /\ db'.nDB = db.nDB
    BY <1>3, <2>1 DEF ClauseDBType
  <2> QED BY <2>2 DEF EntryAdded, Entries, Shared
<1>10. b.pc \in {"watch", "count"}
  BY <1>5
<1> QED BY <1>1, <1>2, <1>5, <1>6, <1>8, <1>9, <1>10, PushOneOrder

LEMMA PushNaryOrder ==
    ASSUME LocksInv, OrderInv, NEW w \in Workers, PushNary(w)
    PROVE  OrderIs(db', wk')
<1>1. PICK a, n, c : a = wk[w] /\ n = a.done /\ c = Lemmas[n + 1]
  OBVIOUS
<1>2. PICK b : b = [a EXCEPT !.pc = "count"]
  OBVIOUS
<1>3. a.pc = "push" /\ wk' = [wk EXCEPT ![w].pc = "count"]
  BY <1>1 DEF PushNary, At
<1>4. /\ wk \in [Workers -> InsertType] /\ a \in InsertType /\ db \in ClauseDBType
      /\ Lemma(w) = c /\ Kind(w) = Brings(a)
  BY <1>1, <1>3, InsertStarts
<1>5. /\ wk' = Stepped(wk, w, b) /\ b.pc = "count" /\ b.done = n /\ b.arg = a.arg /\ b.last = a.last
  BY <1>2, <1>1, <1>3, <1>4, InsertFields DEF Stepped
<1>6. "nary" = Brings(a) /\ "nary" \in Shared
  BY <1>4 DEF PushNary, Shared
<1>7. PICK e, f : e = [lits |-> ToSet(c), flags |-> Flags(FALSE, w), original |-> f] /\ f = FALSE
  OBVIOUS
<1>8. \A l : IsEntry(e, n + 1, "nary", l)
  BY <1>1, <1>7 DEF IsEntry
<1>9. EntryAdded(db, db', "nary", e)
  <2>1. db' = [db EXCEPT !.nDB = Append(@, e)]
    BY <1>4, <1>7 DEF PushNary
  <2>2. db'.nDB = Append(db.nDB, e) /\ db'.bDB = db.bDB /\ db'.tDB = db.tDB /\ db'.uDB = db.uDB
    BY <1>4, <2>1 DEF ClauseDBType
  <2> QED BY <2>2 DEF EntryAdded, Entries, Shared
<1>10. b.pc \in {"watch", "count"}
  BY <1>5
<1> QED BY <1>1, <1>3, <1>5, <1>6, <1>8, <1>9, <1>10, PushOneOrder

LEMMA PushBinaryOrder ==
    ASSUME LocksInv, OrderInv, NEW w \in Workers, PushBinary(w)
    PROVE  OrderIs(db', wk')
<1>1. PICK a, n, c : a = wk[w] /\ n = a.done /\ c = Lemmas[n + 1]
  OBVIOUS
<1>2. a.pc \in {"push", "push2"}
  BY <1>1 DEF PushBinary
<1>3. /\ wk \in [Workers -> InsertType] /\ a \in InsertType /\ db \in ClauseDBType
      /\ n \in Nat /\ n < Len(Lemmas) /\ Kind(w) = Brings(a) /\ Lemma(w) = c /\ c \in Seq(Lits)
      /\ (Kind(w) = "binary" => Len(c) = 2)
  BY <1>1, <1>2, InsertStarts
<1>4. /\ Brings(a) = "binary" /\ "binary" \in LockKinds
      /\ c[1] \in Lits /\ c[2] \in Lits /\ c[1] # c[2]
  <2>1. Kind(w) = "binary"
    BY DEF PushBinary
  <2>2. Len(c) = 2 /\ c \in Seq(Lits)
    BY <1>3, <2>1
  <2>3. c[1] \in Lits /\ c[2] \in Lits /\ DOMAIN c = 1..2
    BY <2>2
  <2>4. IsInjective(c)
    BY <1>1, <1>3, InsertsAssumption
  <2> QED BY <1>3, <2>1, <2>3, <2>4 DEF IsInjective, LockKinds
<1>5. PICK x \in Lits, y \in Lits : x = -c[1] /\ y = -c[2] /\ x # y
  BY <1>4, LitFacts
<1>6. Alone(w, "binary", wk) /\ OrderIs(db, wk)
  <2>1. a.pc # "idle"
    BY <1>2
  <2> QED BY <1>1, <1>4, <2>1, AloneInKind DEF Alone, OrderInv
<1>7. PICK E, W2 : E = db' /\ W2 = wk'
  OBVIOUS
<1>8. CASE At(w, "push")
  <2>1. PICK b : b = [a EXCEPT !.pc = "push2"]
    OBVIOUS
  <2>2. E = [db EXCEPT !.bDB[x] = Append(@, c[2])] /\ wk' = [wk EXCEPT ![w].pc = "push2"]
    BY <1>3, <1>5, <1>7, <1>8 DEF PushBinary, At
  <2>3. /\ W2 = Stepped(wk, w, b) /\ b.pc = "push2" /\ b.done = n /\ b.arg = a.arg /\ b.last = a.last
    BY <1>1, <1>3, <1>7, <2>1, <2>2, InsertFields DEF Stepped
  <2>4. Brings(b) = "binary" /\ a.pc = "push"
    BY <1>1, <1>4, <1>8, <2>3 DEF Brings, At
  <2>5. /\ E.uDB = db.uDB /\ E.tDB = db.tDB /\ E.nDB = db.nDB
        /\ \A l \in Lits : E.bDB[l] = IF l = x THEN Append(db.bDB[l], c[2]) ELSE db.bDB[l]
    BY <1>3, <2>2 DEF ClauseDBType
  <2>6. PICK z \in Lits : /\ GoesTo(n + 1, "binary", z)
                          /\ Len(List(db, "binary", z)) <= Counter(a.arg, "binary", z)
    BY <1>1, <1>4, <2>4, OwnRoom
  <2>7. \A l \in Lits : Len(List(db, "binary", l)) = Given("binary", l, n)
    BY <1>1, <1>3, <1>4, <1>6, <2>4, <2>6, AtOwnPlace
  <2>8. Pairing(b, E)
    <3>1. Len(List(E, "binary", y)) = b.arg.bins[y]
      <4>1. List(E, "binary", y) = List(db, "binary", y)
        BY <1>5, <2>5 DEF List
      <4>2. a.arg.bins[y] = Given("binary", y, n)
        BY <1>1, <1>4, <1>6, <2>4 DEF OrderIs, Timely, CountedTo, Counter
      <4> QED BY <2>3, <2>7, <4>1, <4>2
    <3> QED BY <1>1, <1>5, <2>3, <2>4, <3>1 DEF Pairing
  <2>9. \A l \in Lits : Short("binary", l, W2) <=> l = y
    <3>1. W2[w] = b /\ \A v \in Workers \ {w} : W2[v] = wk[v]
      BY <1>3, <2>3 DEF Stepped
    <3>2. \A v \in Workers \ {w} : wk[v].pc # "push2"
      BY <1>6 DEF Alone, OrderIs, Pairing
    <3> QED BY <1>1, <1>5, <2>3, <3>1, <3>2 DEF Short
  <2>10. PushedTo(db, E, wk, W2, "binary", n + 1)
    <3>1. ASSUME NEW h \in LockKinds \ {"binary"}, NEW l \in Lits
          PROVE  List(E, h, l) = List(db, h, l) /\ (Short(h, l, W2) <=> Short(h, l, wk))
      BY <2>5 DEF List, Entries, Short, LockKinds, Shared
    <3>2. \A l \in Lits : GoesTo(n + 1, "binary", l) <=> l \in {x, y}
      BY <1>1, <1>4, <1>5 DEF GoesTo, Brings
    <3>3. List(E, "binary", x) = Append(List(db, "binary", x), c[2]) /\ IsEntry(c[2], n + 1, "binary", x)
      BY <1>1, <1>5, <2>5 DEF List, IsEntry
    <3>4. \A l \in Lits \ {x} : List(E, "binary", l) = List(db, "binary", l)
      BY <2>5 DEF List
    <3>5. ASSUME NEW l \in Lits
          PROVE  IF GoesTo(n + 1, "binary", l) /\ ~Short("binary", l, W2)
                 THEN \E e : List(E, "binary", l) = Append(List(db, "binary", l), e) /\ IsEntry(e, n + 1, "binary", l)
                 ELSE List(E, "binary", l) = List(db, "binary", l)
      <4>1. CASE l = x
        BY <1>5, <2>9, <3>2, <3>3, <4>1
      <4>2. CASE l # x
        BY <2>9, <3>2, <3>4, <4>2
      <4> QED BY <4>1, <4>2
    <3> QED BY <2>9, <3>1, <3>2, <3>5 DEF PushedTo
  <2>11. Got(b)
    BY <2>3 DEF Got
  <2>12. OrderIs(E, W2)
    BY <1>1, <1>3, <1>4, <1>6, <2>3, <2>4, <2>6, <2>8, <2>10, <2>11, PushOrder
  <2> QED BY <1>7, <2>12
<1>9. CASE At(w, "push2")
  <2>1. PICK b : b = [a EXCEPT !.pc = "count"]
    OBVIOUS
  <2>2. E = [db EXCEPT !.bDB[y] = Append(@, c[1])] /\ wk' = [wk EXCEPT ![w].pc = "count"]
    BY <1>3, <1>5, <1>7, <1>9 DEF PushBinary, At
  <2>3. /\ W2 = Stepped(wk, w, b) /\ b.pc = "count" /\ b.done = n /\ b.arg = a.arg /\ b.last = a.last
    BY <1>1, <1>3, <1>7, <2>1, <2>2, InsertFields DEF Stepped
  <2>4. a.pc = "push2"
    BY <1>1, <1>9 DEF At
  <2>5. /\ E.uDB = db.uDB /\ E.tDB = db.tDB /\ E.nDB = db.nDB
        /\ \A l \in Lits : E.bDB[l] = IF l = y THEN Append(db.bDB[l], c[1]) ELSE db.bDB[l]
    BY <1>3, <2>2 DEF ClauseDBType
  <2>6. SecondPush(db, E, y, c[1])
    BY <2>5 DEF SecondPush, List, Entries, Shared
  <2>7. y = -Lemmas[n + 1][2] /\ c[1] = Lemmas[n + 1][1] /\ y # -c[1]
    BY <1>1, <1>5
  <2>8. OrderIs(E, W2)
    BY <1>1, <1>3, <1>4, <1>6, <2>3, <2>4, <2>6, <2>7, PushAgain
  <2> QED BY <1>7, <2>8
<1> QED BY <1>8, <1>9 DEF PushBinary

LEMMA NextOrder == LocksInv /\ OrderInv /\ [Next]_vars => OrderInv'
<1> SUFFICES ASSUME LocksInv, OrderInv, [Next]_vars PROVE OrderInv'
  OBVIOUS
<1>1. ASSUME NEW w \in Workers, Worker(w) PROVE OrderInv'
  <2>1. CASE Acquire(w)
    BY <2>1, AcquireOrder
  <2>2. CASE ~Acquire(w)
    <3>1. OrderIs(db', wk')
      BY <1>1, <2>2, ReadSizeOrder, UseFoundOrder, PushUnitOrder, PushBinaryOrder,
         PushTernaryOrder, WatchTernaryOrder, PushNaryOrder, CountKindOrder, StoreOrder,
         ReleaseOrder DEF Worker
    <3> QED BY <3>1 DEF OrderInv, OrderIs, Gathered, Placed, Short, Pairing, Timely
  <2> QED BY <2>1, <2>2
<1>2. CASE UNCHANGED vars
  <2>1. db' = db /\ wk' = wk
    BY <1>2 DEF vars
  <2> QED BY <2>1 DEF OrderInv, OrderIs, Gathered, Placed, Short, Pairing, Timely
<1> QED BY <1>1, <1>2 DEF Next

\* What is found at the position is the lemma.
LEMMA FoundIsOwn ==
    ASSUME LocksInv, OrderInv, NEW w \in Workers, At(w, "found")
    PROVE  OwnEntry(w)
<1>1. PICK a, n, c, k : a = wk[w] /\ n = a.done /\ c = Lemmas[n + 1] /\ k = KindOf(c)
  OBVIOUS
<1>2. a.pc = "found" /\ a.pc # "idle"
  BY <1>1 DEF At
<1>3. /\ a \in InsertType /\ db \in ClauseDBType
      /\ n \in Nat /\ n < Len(Lemmas) /\ Brings(a) = k /\ Kind(w) = k /\ Lemma(w) = c
      /\ Position(w) = Place(a) /\ c \in Seq(Lits) /\ k \in LockKinds
      /\ (k = "binary" => Len(c) = 2)
  BY <1>1, <1>2, InsertStarts
<1>4. Alone(w, k, wk) /\ OrderIs(db, wk)
  BY <1>1, <1>2, <1>3, AloneInKind DEF Alone, OrderInv
<1>5. \A l : ~Short(k, l, wk)
  <2> SUFFICES ASSUME k = "binary", NEW v \in Workers, wk[v].pc = "push2" PROVE FALSE
    BY DEF Short
  <2>1. Brings(wk[v]) = "binary" /\ v # w
    BY <1>1, <1>2, <1>4 DEF OrderIs, Pairing
  <2> QED BY <1>4, <2>1 DEF Alone
<1>6. PICK m \in 0..Len(Lemmas) :
         /\ \A v \in Workers : Come(wk[v], k) <= m
         /\ \A l \in Lits : Len(List(db, k, l)) + One(Short(k, l, wk)) = Given(k, l, m)
  BY <1>3, <1>4 DEF OrderIs, Gathered
<1>7. n + 1 <= m /\ m \in Nat
  <2>1. Come(a, k) = n + 1
    BY <1>1, <1>2, <1>3 DEF Come, Got
  <2> QED BY <1>1, <1>6, <2>1, InsertsAssumption
<1>8. ASSUME NEW l \in Lits, GoesTo(n + 1, k, l)
      PROVE  /\ Counter(a.arg, k, l) + 1 <= Len(List(db, k, l))
             /\ IsEntry(List(db, k, l)[Counter(a.arg, k, l) + 1], n + 1, k, l)
  <2>1. PICK p \in Nat : p = n + 1
    BY <1>3
  <2>2. Given(k, l, p) <= Given(k, l, m)
    BY <1>3, <1>7, <2>1, GivenNat
  <2>3. Len(List(db, k, l)) = Given(k, l, m)
    <3>1. One(Short(k, l, wk)) = 0
      BY <1>5 DEF One
    <3>2. \E S : List(db, k, l) \in Seq(S)
      BY <1>3, ListLength
    <3>3. Len(List(db, k, l)) \in Nat
      BY <3>2
    <3> QED BY <1>6, <3>1, <3>3
  <2>4. IsEntry(List(db, k, l)[Given(k, l, p)], p, k, l)
    <3>1. p \in 1..Len(Lemmas)
      BY <1>3, <2>1, InsertsAssumption
    <3> QED BY <1>3, <1>4, <1>8, <2>1, <2>2, <2>3, <3>1 DEF OrderIs, Placed
  <2>5. Counter(a.arg, k, l) = Given(k, l, n)
    BY <1>1, <1>2, <1>3, <1>4 DEF OrderIs, Timely, CountedTo
  <2>6. Given(k, l, n + 1) = Given(k, l, n) + 1
    BY <1>3, <1>8, GivenNat DEF One
  <2> QED BY <2>1, <2>2, <2>3, <2>4, <2>5, <2>6
<1>9. PICK x \in Lits : GoesTo(n + 1, k, x) /\ Position(w) = Counter(a.arg, k, x)
  BY <1>1, <1>2, OwnList
<1>10. IsEntry(List(db, k, x)[Position(w) + 1], n + 1, k, x)
  BY <1>8, <1>9
<1>11. CASE k = "unit"
  BY <1>1, <1>3, <1>10, <1>11 DEF OwnEntry, IsEntry, List, Entries
<1>12. CASE k = "ternary"
  BY <1>1, <1>3, <1>10, <1>12 DEF OwnEntry, IsEntry, List, Entries
<1>13. CASE k = "nary"
  BY <1>1, <1>3, <1>10, <1>13 DEF OwnEntry, IsEntry, List, Entries
<1>14. CASE k = "binary"
  <2>1. c[1] \in Lits /\ c[2] \in Lits
    BY <1>3, <1>14
  <2>2. PICK y \in Lits, z \in Lits : y = -c[1] /\ z = -c[2]
    BY <2>1, LitFacts
  <2>3. /\ IsEntry(db.bDB[y][a.arg.bins[y] + 1], n + 1, k, y)
        /\ IsEntry(db.bDB[z][a.arg.bins[z] + 1], n + 1, k, z)
        /\ a.arg.bins[z] + 1 <= Len(db.bDB[z])
    BY <1>1, <1>8, <1>14, <2>2 DEF GoesTo, List, Counter
  <2>4. db.bDB[y][a.arg.bins[y] + 1] = c[2] /\ db.bDB[z][a.arg.bins[z] + 1] = c[1]
    BY <1>1, <1>14, <2>2, <2>3 DEF IsEntry
  <2>5. Position(w) = a.arg.bins[y]
    BY <1>1, <1>3, <1>14, <2>2 DEF Position
  <2> QED BY <1>1, <1>3, <1>14, <2>2, <2>3, <2>4, <2>5 DEF OwnEntry
<1> QED BY <1>3, <1>11, <1>12, <1>13, <1>14 DEF LockKinds, Shared

-----------------------------------------------------------------------------
\* The assertions of the inserts, which the program is compiled without, hold: a counter
\* agrees with its list whenever the holder of the lock looks (clausedb.c:169, 375, 450),
\* no worker finds its own flag already set (328, 402), and what a worker finds at the
\* position is the lemma it has brought (405 and the FOR DEBUG lines of every kind),
\* however the other workers' inserts lie between.
THEOREM AssertionsNeverFail == Spec => []AssertionsHold
<1>1. LocksInv /\ OrderInv => AssertionsHold
  <2> SUFFICES ASSUME LocksInv, OrderInv, NEW w \in Workers
               PROVE  /\ wk[w].pc \in {"push", "found"} /\ Kind(w) = "unit" => wk[w].size = num.unit
                      /\ At(w, "store") /\ Kind(w) \in {"ternary", "nary"} =>
                            wk[w].size + 1 = num[Kind(w)]
                      /\ At(w, "found") /\ Kind(w) = "ternary" =>
                            ~db.tDB[Position(w) + 1].flags[w]
                      /\ At(w, "found") /\ Kind(w) = "nary" =>
                            ~db.nDB[Position(w) + 1].flags[w]
                      /\ At(w, "found") => OwnEntry(w)
    BY DEF AssertionsHold
  <2>1. PICK a, k : a = wk[w] /\ k = KindOf(Lemmas[a.done + 1])
    OBVIOUS
  <2>2. ASSUME a.pc # "idle"
        PROVE  /\ a \in InsertType /\ db \in ClauseDBType
               /\ Brings(a) = k /\ Kind(w) = k /\ Position(w) = Place(a) /\ Sound(a, db, w)
               /\ Len(db.tDB) \in Nat /\ Len(db.nDB) \in Nat
               /\ DOMAIN db.tDB = 1..Len(db.tDB) /\ DOMAIN db.nDB = 1..Len(db.nDB)
    <3>1. /\ a \in InsertType /\ db \in ClauseDBType
          /\ Brings(a) = k /\ Kind(w) = k /\ Position(w) = Place(a) /\ Sound(a, db, w)
      BY <2>1, <2>2, InsertStarts
    <3>2. DOMAIN db.tDB = 1..Len(db.tDB) /\ DOMAIN db.nDB = 1..Len(db.nDB)
      BY <3>1 DEF ClauseDBType
    <3> QED BY <3>1, <3>2, DbLengths
  <2>3. ASSUME a.pc \in {"push", "found"}, Kind(w) = "unit" PROVE a.size = num.unit
    <3>1. a.pc # "idle" /\ ~Pushed(a)
      BY <2>3 DEF Pushed
    <3>2. Brings(a) = "unit" /\ Sound(a, db, w)
      BY <2>2, <2>3, <3>1
    <3>3. a.size = Len(Entries(db, "unit"))
      BY <2>3, <3>2 DEF Sound, Informed, Shared
    <3>4. num["unit"] = Len(Entries(db, "unit"))
      BY <2>1, <3>1, <3>2, NothingPending DEF Shared
    <3> QED BY <3>3, <3>4
  <2>4. ASSUME a.pc = "store", Kind(w) \in {"ternary", "nary"} PROVE a.size + 1 = num[Kind(w)]
    <3>1. a.pc # "idle" /\ ~Pushed(a)
      BY <2>4 DEF Pushed
    <3>2. Brings(a) = k /\ Kind(w) = k /\ Sound(a, db, w) /\ k \in Shared /\ k # "unit"
      BY <2>2, <2>4, <3>1 DEF Shared
    <3>3. a.size + 1 = Len(Entries(db, k))
      BY <2>4, <3>2 DEF Sound, Informed
    <3>4. num[k] = Len(Entries(db, k))
      BY <2>1, <3>1, <3>2, NothingPending
    <3> QED BY <3>2, <3>3, <3>4
  <2>5. ASSUME a.pc = "found", Kind(w) = "ternary"
        PROVE  ~db.tDB[Position(w) + 1].flags[w]
    <3>1. /\ a \in InsertType /\ Brings(a) = "ternary" /\ Position(w) = Place(a)
          /\ Sound(a, db, w) /\ Len(db.tDB) \in Nat /\ DOMAIN db.tDB = 1..Len(db.tDB)
      BY <2>2, <2>5
    <3>2. PICK p \in Nat : p = a.arg.ternary /\ Position(w) = p
      BY <3>1, PlaceFacts, InsertFields
    <3>3. Place(a) < Len(db.tDB)
      BY <2>5, <3>1 DEF Sound, Informed, Entries, Shared
    <3>4. p + 1 \in DOMAIN db.tDB /\ ~(p + 1 <= p)
      BY <3>1, <3>2, <3>3
    <3>5. \A i \in DOMAIN db.tDB : db.tDB[i].flags[w] => i <= p
      BY <2>5, <3>1, <3>2 DEF Sound, OwnFlags
    <3> QED BY <3>2, <3>4, <3>5
  <2>6. ASSUME a.pc = "found", Kind(w) = "nary"
        PROVE  ~db.nDB[Position(w) + 1].flags[w]
    <3>1. /\ a \in InsertType /\ Brings(a) = "nary" /\ Position(w) = Place(a)
          /\ Sound(a, db, w) /\ Len(db.nDB) \in Nat /\ DOMAIN db.nDB = 1..Len(db.nDB)
      BY <2>2, <2>6
    <3>2. PICK p \in Nat : p = a.arg.nary /\ Position(w) = p
      BY <3>1, PlaceFacts, InsertFields
    <3>3. Place(a) < Len(db.nDB)
      BY <2>6, <3>1 DEF Sound, Informed, Entries, Shared
    <3>4. p + 1 \in DOMAIN db.nDB /\ ~(p + 1 <= p)
      BY <3>1, <3>2, <3>3
    <3>5. \A i \in DOMAIN db.nDB : db.nDB[i].flags[w] => i <= p
      BY <2>6, <3>1, <3>2 DEF Sound, OwnFlags
    <3> QED BY <3>2, <3>4, <3>5
  <2>7. At(w, "found") => OwnEntry(w)
    BY FoundIsOwn
  <2> QED BY <2>1, <2>3, <2>4, <2>5, <2>6, <2>7 DEF At
<1> QED BY <1>1, InitLocksInv, NextLocksInv, InitOrder, NextOrder, PTL DEF Spec

\* The room reserved at the start (clausedb.c:71 and 77) is enough for the input and the
\* lemmas of every worker: no vector is moved, and every address that was kept is good.
THEOREM AddressesStayGood == Spec => []AddressesGood
<1>1. LocksInv => AddressesGood
  BY DEF LocksInv, NothingMoved, InitVec, AddressesGood
<1> QED BY <1>1, SharingInvariant, PTL
-----------------------------------------------------------------------------
(* The counter of the binaries.  A worker between its two pushes has given the lists
   one entry, and until it counts two, for which the counter does not stand yet. *)

Halves(a) ==
    IF a.pc # "idle" /\ Brings(a) = "binary"
    THEN IF a.pc = "push2" THEN 1 ELSE IF a.pc = "count" THEN 2 ELSE 0
    ELSE 0

Uncounted(h) ==
    /\ \A w \in Workers : Halves(wk[w]) \in {0, h}
    /\ h # 0 => \E w \in Workers : Halves(wk[w]) = h

HalvesInv == \E h \in 0..2 : Uncounted(h) /\ PairsAre(db.bDB, 2 * num.binary + h)

LEMMA HalvesSame ==
    ASSUME HalvesInv, NEW w \in Workers, NEW a, NEW b, a = wk[w], b = wk'[w],
           \A v \in Workers \ {w} : wk'[v] = wk[v], Halves(a) = 0, Halves(b) = 0,
           db'.bDB = db.bDB, num'.binary = num.binary
    PROVE  HalvesInv'
<1>1. PICK h \in 0..2 : Uncounted(h) /\ PairsAre(db.bDB, 2 * num.binary + h)
  BY DEF HalvesInv
<1>2. \A v \in Workers : Halves(wk'[v]) = Halves(wk[v])
  OBVIOUS
<1>3. /\ \A v \in Workers : Halves(wk'[v]) \in {0, h}
      /\ h # 0 => \E v \in Workers : Halves(wk'[v]) = h
  BY <1>1, <1>2 DEF Uncounted
<1>4. Uncounted(h)'
  BY <1>3 DEF Uncounted, Halves, Brings
<1>5. PairsAre(db.bDB, 2 * num.binary + h)'
  <2>1. PairsAre(db'.bDB, 2 * num'.binary + h)
    BY <1>1
  <2> QED BY <2>1 DEF PairsAre, Pairs
<1> QED BY <1>4, <1>5 DEF HalvesInv

LEMMA HalvesMoved ==
    ASSUME LocksInv, HalvesInv, NEW w \in Workers, NEW a, NEW b, a = wk[w], b = wk'[w],
           \A v \in Workers \ {w} : wk'[v] = wk[v],
           a.pc # "idle", Brings(a) = "binary",
           NEW x \in 0..2, NEW y \in 0..2, x = Halves(a), y = Halves(b), x # 0 \/ y # 0,
           PairsAre(db.bDB, 2 * num.binary + x) => PairsAre(db'.bDB, 2 * num'.binary + y)
    PROVE  HalvesInv'
<1>1. PICK h \in 0..2 : Uncounted(h) /\ PairsAre(db.bDB, 2 * num.binary + h)
  BY DEF HalvesInv
<1>2. \A v \in Workers \ {w} : Halves(wk[v]) = 0
  <2> SUFFICES ASSUME NEW v \in Workers \ {w}, wk[v].pc # "idle", Brings(wk[v]) = "binary"
               PROVE  FALSE
    BY DEF Halves
  <2> QED BY OneInserts DEF LocksInv
<1>3. h = x
  BY <1>1, <1>2 DEF Uncounted
<1>4. /\ \A v \in Workers : Halves(wk'[v]) \in {0, y}
      /\ y # 0 => \E v \in Workers : Halves(wk'[v]) = y
  BY <1>2
<1>5. Uncounted(y)'
  BY <1>4 DEF Uncounted, Halves, Brings
<1>6. PairsAre(db.bDB, 2 * num.binary + y)'
  <2>1. PairsAre(db'.bDB, 2 * num'.binary + y)
    BY <1>1, <1>3
  <2> QED BY <2>1 DEF PairsAre, Pairs
<1> QED BY <1>5, <1>6 DEF HalvesInv

LEMMA InitHalves == Init => HalvesInv
<1> SUFFICES ASSUME Init PROVE HalvesInv
  OBVIOUS
<1>1. PICK d : d = InputDB(Inputs)
  OBVIOUS
<1>2. Tallied(d, Inputs, Len(Inputs))
  BY <1>1, InputIsTallied, InsertsAssumption
<1>3. DOMAIN Inputs = 1..Len(Inputs) /\ Len(Inputs) \in Nat
  BY InsertsAssumption
<1>4. num.binary = Sized(Inputs, 2, Len(Inputs)) /\ db = d
  BY <1>1, <1>3 DEF Init, Sized
<1>5. PICK n : n = num.binary
  OBVIOUS
<1>6. PairsAre(db.bDB, 2 * n) /\ n \in Nat
  BY <1>2, <1>3, <1>4, <1>5, SizedNext DEF Tallied
<1>7. PairsAre(db.bDB, 2 * num.binary + 0)
  BY <1>5, <1>6
<1>8. \A w \in Workers : wk[w].pc = "idle"
  BY DEF Init
<1>9. Uncounted(0)
  BY <1>8 DEF Uncounted, Halves
<1> QED BY <1>7, <1>9 DEF HalvesInv

\* The two pushes and the count of a binary, one entry or one clause at a time.
LEMMA PushBinaryHalves ==
    ASSUME LocksInv, HalvesInv, NEW w \in Workers, PushBinary(w)
    PROVE  HalvesInv'
<1>1. PICK a, b, c : a = wk[w] /\ b = wk'[w] /\ c = Lemmas[a.done + 1]
  OBVIOUS
<1>2. a.pc \in {"push", "push2"}
  BY <1>1 DEF PushBinary
<1>3. /\ wk \in [Workers -> InsertType] /\ a \in InsertType /\ db \in ClauseDBType
      /\ num \in NumType /\ Brings(a) = Kind(w) /\ Lemma(w) = c /\ c \in Seq(Lits)
      /\ (Kind(w) = "binary" => Len(c) = 2)
  BY <1>1, <1>2, InsertStarts
<1>4. /\ Brings(a) = "binary" /\ num' = num /\ c[1] \in Lits /\ c[2] \in Lits
  <2>1. Kind(w) = "binary" /\ num' = num
    BY DEF PushBinary
  <2>2. c \in Seq(Lits) /\ Len(c) = 2
    BY <1>3, <2>1
  <2>3. c[1] \in Lits /\ c[2] \in Lits
    BY <2>2
  <2>4. Brings(a) = "binary"
    BY <1>3, <2>1
  <2> QED BY <2>1, <2>3, <2>4
<1>5. /\ DOMAIN a = {"pc", "done", "last", "arg", "size", "towatch", "read"}
      /\ num.binary \in Nat
  BY <1>3, InsertFields, NumFields
<1>6. PICK u, v, D : u \in Lits /\ v \in Lits /\ u = -c[1] /\ v = -c[2] /\ D = db.bDB
  BY <1>4, LitFacts
<1>7. D \in [Lits -> Seq(Lits)]
  BY <1>3, <1>6 DEF ClauseDBType
<1>8. PICK n \in Nat : n = 2 * num.binary
  BY <1>5
<1>9. CASE At(w, "push")
  <2>1. /\ db' = [db EXCEPT !.bDB[u] = Append(@, c[2])]
        /\ wk' = [wk EXCEPT ![w].pc = "push2"]
    BY <1>3, <1>6, <1>9 DEF PushBinary, At
  <2>2. b.pc = "push2" /\ b.done = a.done /\ \A x \in Workers \ {w} : wk'[x] = wk[x]
    BY <1>1, <1>3, <1>5, <2>1
  <2>3. Halves(a) = 0 /\ Halves(b) = 1
    BY <1>1, <1>4, <1>9, <2>2 DEF Halves, Brings, At
  <2>4. PICK E : E = db'.bDB
    OBVIOUS
  <2>5. E = [D EXCEPT ![u] = Append(@, c[2])]
    BY <1>3, <1>6, <2>1, <2>4 DEF ClauseDBType
  <2>6. PairsAre(D, n) => PairsAre(E, n + 1)
    BY <1>4, <1>6, <1>7, <2>5, OnePairMore
  <2>7. PairsAre(db.bDB, 2 * num.binary + 0) => PairsAre(db'.bDB, 2 * num'.binary + 1)
    BY <1>4, <1>6, <1>8, <2>4, <2>6
  <2> QED BY <1>1, <1>2, <1>4, <2>2, <2>3, <2>7, HalvesMoved
<1>10. CASE At(w, "push2")
  <2>1. /\ db' = [db EXCEPT !.bDB[v] = Append(@, c[1])]
        /\ wk' = [wk EXCEPT ![w].pc = "count"]
    BY <1>3, <1>6, <1>10 DEF PushBinary, At
  <2>2. b.pc = "count" /\ b.done = a.done /\ \A x \in Workers \ {w} : wk'[x] = wk[x]
    BY <1>1, <1>3, <1>5, <2>1
  <2>3. Halves(a) = 1 /\ Halves(b) = 2
    BY <1>1, <1>4, <1>10, <2>2 DEF Halves, Brings, At
  <2>4. PICK E, m : E = db'.bDB /\ m = n + 1 /\ m \in Nat
    OBVIOUS
  <2>5. E = [D EXCEPT ![v] = Append(@, c[1])]
    BY <1>3, <1>6, <2>1, <2>4 DEF ClauseDBType
  <2>6. PairsAre(D, m) => PairsAre(E, m + 1)
    <3>1. m \in Nat
      BY <2>4
    <3> QED BY <1>4, <1>6, <1>7, <2>5, <3>1, OnePairMore
  <2>7. PairsAre(db.bDB, 2 * num.binary + 1) => PairsAre(db'.bDB, 2 * num'.binary + 2)
    <3>1. m + 1 = 2 * num'.binary + 2 /\ m = 2 * num.binary + 1
      BY <1>4, <1>8, <2>4
    <3> QED BY <1>6, <2>4, <2>6, <3>1
  <2> QED BY <1>1, <1>2, <1>4, <2>2, <2>3, <2>7, HalvesMoved
<1> QED BY <1>9, <1>10 DEF PushBinary

LEMMA CountKindHalves ==
    ASSUME LocksInv, HalvesInv, NEW w \in Workers, CountKind(w)
    PROVE  HalvesInv'
<1>1. PICK a, b, k : a = wk[w] /\ b = wk'[w] /\ k = KindOf(Lemmas[a.done + 1])
  OBVIOUS
<1>2. a.pc = "count" /\ db' = db /\ num' = [num EXCEPT ![Kind(w)] = @ + 1]
  BY <1>1 DEF CountKind, At
<1>3. /\ wk \in [Workers -> InsertType] /\ a \in InsertType /\ num \in NumType
      /\ Brings(a) = k /\ Kind(w) = k /\ k \in LockKinds
  BY <1>1, <1>2, InsertStarts
<1>4. /\ DOMAIN a = {"pc", "done", "last", "arg", "size", "towatch", "read"}
      /\ num.binary \in Nat /\ DOMAIN num = {"unit", "ternary", "nary", "binary", "all"}
  BY <1>3, InsertFields, NumFields
<1>5. b.pc = "store" /\ b.done = a.done /\ \A x \in Workers \ {w} : wk'[x] = wk[x]
  BY <1>1, <1>3, <1>4 DEF CountKind
<1>6. Halves(b) = 0
  BY <1>5 DEF Halves
<1>7. CASE k = "binary"
  <2>1. num'.binary = num.binary + 1
    BY <1>2, <1>3, <1>4, <1>7
  <2>2. Halves(a) = 2
    BY <1>2, <1>3, <1>7 DEF Halves
  <2>3. PairsAre(db.bDB, 2 * num.binary + 2) => PairsAre(db'.bDB, 2 * num'.binary + 0)
    <3>1. 2 * num.binary + 2 = 2 * num'.binary + 0
      BY <1>4, <2>1
    <3> QED BY <1>2, <3>1
  <2>4. a.pc # "idle" /\ Brings(a) = "binary"
    BY <1>2, <1>3, <1>7
  <2> QED BY <1>1, <1>5, <1>6, <2>2, <2>3, <2>4, HalvesMoved
<1>8. CASE k # "binary"
  <2>1. num'.binary = num.binary
    BY <1>2, <1>3, <1>4, <1>8 DEF LockKinds, Shared
  <2>2. Halves(a) = 0
    BY <1>3, <1>8 DEF Halves
  <2> QED BY <1>1, <1>2, <1>5, <1>6, <2>1, <2>2, HalvesSame
<1> QED BY <1>7, <1>8

\* Every other step: it pushes no binary and counts none.
LEMMA OtherHalves ==
    ASSUME LocksInv, HalvesInv, NEW w \in Workers,
           \/ Acquire(w) \/ ReadSize(w) \/ UseFound(w) \/ PushUnit(w) \/ PushTernary(w)
           \/ WatchTernary(w) \/ PushNary(w) \/ StoreNumClauses(w) \/ Release(w)
    PROVE  HalvesInv'
<1>1. PICK a, b : a = wk[w] /\ b = wk'[w]
  OBVIOUS
<1>2. /\ wk \in [Workers -> InsertType] /\ a \in InsertType /\ db \in ClauseDBType
      /\ num \in NumType /\ Kind(w) = Brings(a)
      /\ (a.pc = "watch" => Brings(a) = "ternary")
  BY <1>1 DEF LocksInv, Sound, Kind, Lemma, Brings
<1>3. DOMAIN a = {"pc", "done", "last", "arg", "size", "towatch", "read"}
  BY <1>2, InsertFields
<1>4. ASSUME NEW p, NEW q, a.pc = p, b.pc = q, p \notin {"push2", "count"},
             q \in {"push2", "count"} => b.done = a.done /\ Brings(a) # "binary",
             \A v \in Workers \ {w} : wk'[v] = wk[v],
             db'.bDB = db.bDB, num'.binary = num.binary
      PROVE  HalvesInv'
  <2>1. Halves(a) = 0
    BY <1>4 DEF Halves
  <2>2. Halves(b) = 0
    BY <1>1, <1>4 DEF Halves, Brings
  <2> QED BY <1>1, <1>4, <2>1, <2>2, HalvesSame
<1>5. CASE Acquire(w)
  <2>1. a.pc = "idle" /\ db' = db /\ num' = num
    BY <1>1, <1>5 DEF Acquire, Call, At
  <2>2. b.pc = "locked" /\ \A v \in Workers \ {w} : wk'[v] = wk[v]
    BY <1>1, <1>2, <1>3, <1>5 DEF Acquire, Call
  <2> QED BY <1>4, <2>1, <2>2
<1>6. CASE ReadSize(w)
  <2>1. a.pc = "locked" /\ db' = db /\ num' = num
    BY <1>1, <1>6 DEF ReadSize, At
  <2>2. b.pc \in {"found", "push"} /\ \A v \in Workers \ {w} : wk'[v] = wk[v]
    <3>1. PICK n, p : /\ p \in {"found", "push"}
                      /\ wk' = [wk EXCEPT ![w].size = n, ![w].pc = p]
      BY <1>6 DEF ReadSize
    <3> QED BY <1>1, <1>2, <1>3, <3>1
  <2> QED BY <1>4, <2>1, <2>2
<1>7. CASE UseFound(w)
  <2>1. a.pc = "found" /\ num' = num /\ wk' = [wk EXCEPT ![w].pc = "unlock"]
    BY <1>1, <1>7 DEF UseFound, At
  <2>2. b.pc = "unlock" /\ \A v \in Workers \ {w} : wk'[v] = wk[v]
    BY <1>1, <1>2, <1>3, <2>1
  <2>3. db'.bDB = db.bDB
    <3>1. PICK i : i = Position(w) + 1
      OBVIOUS
    <3>2. \/ db' = TernaryFlag(db, i, w) \/ db' = NaryFlag(db, i, w) \/ db' = db
      BY <1>7, <3>1 DEF UseFound, TernaryFlag, NaryFlag
    <3> QED BY <1>2, <3>2 DEF ClauseDBType, TernaryFlag, NaryFlag
  <2> QED BY <1>4, <2>1, <2>2, <2>3
<1>8. CASE PushUnit(w)
  <2>1. /\ a.pc = "push" /\ Brings(a) # "binary" /\ num' = num
        /\ wk' = [wk EXCEPT ![w].pc = "count"]
    BY <1>1, <1>2, <1>8 DEF PushUnit, At
  <2>2. b.pc = "count" /\ b.done = a.done /\ \A v \in Workers \ {w} : wk'[v] = wk[v]
    BY <1>1, <1>2, <1>3, <2>1
  <2>3. db'.bDB = db.bDB
    BY <1>2, <1>8 DEF PushUnit, ClauseDBType
  <2> QED BY <1>4, <2>1, <2>2, <2>3
<1>9. CASE PushTernary(w)
  <2>1. /\ a.pc = "push" /\ Brings(a) # "binary" /\ num' = num
        /\ wk' = [wk EXCEPT ![w].pc = "watch", ![w].towatch = ToSet(Lemma(w))]
    BY <1>1, <1>2, <1>9 DEF PushTernary, At
  <2>2. b.pc = "watch" /\ b.done = a.done /\ \A v \in Workers \ {w} : wk'[v] = wk[v]
    BY <1>1, <1>2, <1>3, <2>1
  <2>3. db'.bDB = db.bDB
    <3>1. PICK x : db' = [db EXCEPT !.tDB = Append(@, x)]
      BY <1>9 DEF PushTernary
    <3> QED BY <1>2, <3>1 DEF ClauseDBType
  <2> QED BY <1>4, <2>1, <2>2, <2>3
<1>10. CASE WatchTernary(w)
  <2>1. /\ a.pc = "watch" /\ Brings(a) # "binary" /\ num' = num
    BY <1>1, <1>2, <1>10 DEF WatchTernary, At
  <2>2. /\ b.pc \in {"count", "watch"} /\ b.done = a.done
        /\ \A v \in Workers \ {w} : wk'[v] = wk[v]
    <3>1. PICK t, p : /\ p \in {"count", "watch"}
                      /\ wk' = [wk EXCEPT ![w].towatch = @ \ {t}, ![w].pc = p]
      BY <1>10 DEF WatchTernary
    <3> QED BY <1>1, <1>2, <1>3, <3>1
  <2>3. db'.bDB = db.bDB
    <3>1. PICK l, x : db' = [db EXCEPT !.ternaryWatches[l] = Append(@, x)]
      BY <1>10 DEF WatchTernary
    <3> QED BY <1>2, <3>1 DEF ClauseDBType
  <2> QED BY <1>4, <2>1, <2>2, <2>3
<1>11. CASE PushNary(w)
  <2>1. /\ a.pc = "push" /\ Brings(a) # "binary" /\ num' = num
        /\ wk' = [wk EXCEPT ![w].pc = "count"]
    BY <1>1, <1>2, <1>11 DEF PushNary, At
  <2>2. b.pc = "count" /\ b.done = a.done /\ \A v \in Workers \ {w} : wk'[v] = wk[v]
    BY <1>1, <1>2, <1>3, <2>1
  <2>3. db'.bDB = db.bDB
    <3>1. PICK x : db' = [db EXCEPT !.nDB = Append(@, x)]
      BY <1>11 DEF PushNary
    <3> QED BY <1>2, <3>1 DEF ClauseDBType
  <2> QED BY <1>4, <2>1, <2>2, <2>3
<1>12. CASE StoreNumClauses(w)
  <2>1. /\ a.pc = "store" /\ db' = db /\ num' = [num EXCEPT !.all = wk[w].read + 1]
        /\ wk' = [wk EXCEPT ![w].pc = "unlock"]
    BY <1>1, <1>12 DEF StoreNumClauses, At
  <2>2. b.pc = "unlock" /\ \A v \in Workers \ {w} : wk'[v] = wk[v]
    BY <1>1, <1>2, <1>3, <2>1
  <2>3. num'.binary = num.binary
    BY <1>2, <2>1, NumFields
  <2> QED BY <1>4, <2>1, <2>2, <2>3
<1>13. CASE Release(w)
  <2>1. /\ a.pc = "unlock" /\ db' = db /\ num' = num
        /\ wk' = [wk EXCEPT ![w].pc = "idle", ![w].done = @ + 1]
    BY <1>1, <1>13 DEF Release, At
  <2>2. b.pc = "idle" /\ \A v \in Workers \ {w} : wk'[v] = wk[v]
    BY <1>1, <1>2, <1>3, <2>1
  <2> QED BY <1>4, <2>1, <2>2
<1> QED BY <1>5, <1>6, <1>7, <1>8, <1>9, <1>10, <1>11, <1>12, <1>13

LEMMA NextHalves == LocksInv /\ HalvesInv /\ [Next]_vars => HalvesInv'
<1> SUFFICES ASSUME LocksInv, HalvesInv, [Next]_vars PROVE HalvesInv'
  OBVIOUS
<1>1. ASSUME NEW w \in Workers, Worker(w) PROVE HalvesInv'
  BY <1>1, PushBinaryHalves, CountKindHalves, OtherHalves DEF Worker
<1>2. CASE UNCHANGED vars
  <2>1. db' = db /\ num' = num /\ wk' = wk
    BY <1>2 DEF vars
  <2> QED BY <2>1 DEF HalvesInv, Uncounted, Halves, Brings
<1> QED BY <1>1, <1>2 DEF Next

\* Nobody holds the lock of a kind: nobody is between a push and a count of it.
LEMMA NobodyInserts ==
    ASSUME LocksInv, NEW k, lock[k] = Nobody, NEW w \in Workers, wk[w].pc # "idle"
    PROVE  Brings(wk[w]) # k
BY InsertsAssumption DEF LocksInv, Holds

\* However many workers bring a clause it is counted once: the counter of a kind is the
\* number of its clauses in the database whenever nobody is inserting one, and the
\* counter of all clauses, which is read and written under four different locks and may
\* lose increments, is never more than their sum.
THEOREM CountersAreRight == Spec => []CountersMatch
<1>1. LocksInv /\ HalvesInv => CountersMatch
  <2> SUFFICES ASSUME LocksInv, HalvesInv PROVE CountersMatch
    OBVIOUS
  <2>1. ASSUME NEW k \in Shared, lock[k] = Nobody PROVE num[k] = Len(Entries(db, k))
    <3>1. ~Pending(k)
      BY <2>1, NobodyInserts DEF Pending, Pushed
    <3>2. num[k] + One(Pending(k)) = Len(Entries(db, k)) /\ num[k] \in Nat
      BY NumFields DEF LocksInv, Balanced, LockKinds
    <3>3. One(Pending(k)) = 0
      BY <3>1 DEF One
    <3> QED BY <3>2, <3>3
  <2>2. ASSUME lock["binary"] = Nobody PROVE 2 * num.binary = Cardinality(Implications)
    <3>1. PICK h \in 0..2 : Uncounted(h) /\ PairsAre(db.bDB, 2 * num.binary + h)
      BY DEF HalvesInv
    <3>2. \A w \in Workers : Halves(wk[w]) = 0
      BY <2>2, NobodyInserts DEF Halves
    <3>3. h = 0
      BY <3>1, <3>2 DEF Uncounted
    <3>4. num.binary \in Nat
      BY NumFields DEF LocksInv
    <3>5. PairsAre(db.bDB, 2 * num.binary)
      BY <3>1, <3>3, <3>4
    <3> QED BY <3>5 DEF PairsAre, Pairs, Implications
  <2>3. num.all <= num.unit + num.binary + num.ternary + num.nary
    BY DEF LocksInv, CountsFit, Total
  <2> QED BY <2>1, <2>2, <2>3 DEF CountersMatch, Entries, Shared
<1> QED BY <1>1, InitLocksInv, NextLocksInv, InitHalves, NextHalves, PTL DEF Spec

=============================================================================
