----------------------------- MODULE HeapProofs ------------------------------
(***************************************************************************)
(* Proofs about the decision heap, for every number of elements and every  *)
(* choice of bonus, inflation and scores.  An element under way is taken   *)
(* at its place: percolating and sinking swap two neighbours then, and the *)
(* order is broken at that place only.                                     *)
(***************************************************************************)
EXTENDS DecisionHeap, Integers, FiniteSetTheorems, TLAPS

\* A set of natural numbers has a smallest element: no initial segment is shorter.
LEMMA HasSmallest ==
    ASSUME NEW S \in SUBSET Nat, S # {}
    PROVE  \E m \in S : \A k \in S : m <= k
<1> DEFINE T == {0..k : k \in S}
<1>1. T \subseteq FiniteSubsetsOf(Nat)
  <2> SUFFICES ASSUME NEW k \in S PROVE 0..k \in FiniteSubsetsOf(Nat)
    OBVIOUS
  <2>1. IsFiniteSet(0..k)
    BY FS_Interval
  <2> QED BY <2>1 DEF FiniteSubsetsOf
<1>2. PICK t \in T : \A u \in T : ~(<<u, t>> \in StrictSubsetOrdering(Nat))
  <2>1. T # {}
    OBVIOUS
  <2>2. IsWellFoundedOn(StrictSubsetOrdering(Nat), FiniteSubsetsOf(Nat))
    BY FS_StrictSubsetOrderingWellFounded
  <2> HIDE DEF T
  <2> QED BY <1>1, <2>1, <2>2, WFMin
<1>3. PICK m \in S : t = 0..m
  OBVIOUS
<1>4. ASSUME NEW k \in S PROVE m <= k
  <2>1. ~(<<0..k, 0..m>> \in StrictSubsetOrdering(Nat))
    BY <1>2, <1>3
  <2>2. ~(0..k \subseteq 0..m /\ 0..k # 0..m)
    BY <2>1 DEF StrictSubsetOrdering
  <2>3. CASE k < m
    <3>1. m \in 0..m /\ m \notin 0..k /\ 0..k \subseteq 0..m
      BY <2>3
    <3> QED BY <3>1, <2>2
  <2> QED BY <2>3
<1> QED BY <1>4
-----------------------------------------------------------------------------

Places == 1..NumElems

TypeOK ==
    /\ maxHeap \in [Places -> Elems]
    /\ heapPositions \in [Elems -> 0..NumElems]
    /\ act \in [Elems -> Nat]
    /\ maxHeapLast \in 0..NumElems
    /\ nTimes \in Nat
    /\ scoreBonus \in Nat \ {0}
    /\ pc \in {"ready", "up", "down"}
    /\ node \in Elems
    /\ pos \in 0..NumElems
    /\ result \in 0..NumElems

\* The element under way is at a place of the heap, or was the last one.
UnderWay ==
    /\ pc = "up" => pos \in 1..maxHeapLast
    /\ pc = "down" => pos >= 1 /\ (maxHeapLast > 0 => pos <= maxHeapLast)
                      /\ (maxHeapLast = 0 => pos = 1 /\ heapPositions[node] = 0)

\* Entries h and positions q agree on the first n places.
Matched(h, q, n) ==
    /\ \A p \in 1..n : q[h[p]] = p
    /\ \A e \in Elems : q[e] # 0 => q[e] <= n /\ h[q[e]] = e

\* The order of entries h with scores a on the first n places; and but for place i,
\* whose entry may be too high for it (Up) or too low (Down), while the entries below
\* and above it are in order.
Ordered(h, a, n) == \A p \in 2..n : a[h[p]] <= a[h[p \div 2]]
Around(h, a, n, i) ==
    i > 1 => \A p \in 2..n : p \div 2 = i => a[h[p]] <= a[h[i \div 2]]
UpOrdered(h, a, n, i) ==
    /\ \A p \in 2..n : p # i => a[h[p]] <= a[h[p \div 2]]
    /\ Around(h, a, n, i)
DownOrdered(h, a, n, i) ==
    /\ \A p \in 2..n : p \div 2 # i => a[h[p]] <= a[h[p \div 2]]
    /\ Around(h, a, n, i)

OrderInv ==
    nTimes = 0 =>
       /\ pc = "ready" => Ordered(Heap, act, maxHeapLast)
       /\ pc = "up" => UpOrdered(Heap, act, maxHeapLast, pos)
       /\ pc = "down" => DownOrdered(Heap, act, maxHeapLast, pos)

\* The elements in the heap.
InHeap == {e \in Elems : Position[e] # 0}

IInv == TypeOK /\ UnderWay /\ Matched(Heap, Position, maxHeapLast) /\ OrderInv
-----------------------------------------------------------------------------
(* The arithmetic of parents and children. *)

LEMMA Halves ==
    \A p \in Nat : p >= 2 => /\ p \div 2 \in Nat /\ p \div 2 >= 1 /\ p \div 2 < p
                             /\ p = 2 * (p \div 2) \/ p = 2 * (p \div 2) + 1
OBVIOUS

LEMMA Doubles ==
    \A i \in Nat : (2 * i) \div 2 = i /\ (2 * i + 1) \div 2 = i
OBVIOUS

LEMMA Parents ==
    ASSUME NEW n \in 0..NumElems
    PROVE  \A p \in 2..n : /\ p \in Places /\ p \in 1..n
                           /\ p \div 2 \in Places /\ p \div 2 \in 1..n /\ p \div 2 < p
<1> TAKE p \in 2..n
<1>1. NumElems \in Nat
  BY HeapAssumption
<1>2. p \in Nat /\ p >= 2 /\ p <= n /\ n <= NumElems /\ n \in Nat
  BY <1>1
<1>3. p \div 2 \in Nat /\ p \div 2 >= 1 /\ p \div 2 < p
  BY <1>2, Halves
<1> QED BY <1>1, <1>2, <1>3 DEF Places

-----------------------------------------------------------------------------
Swap(h, i, j) == [h EXCEPT ![i] = h[j], ![j] = h[i]]

LEMMA SwapEntries ==
    ASSUME NEW h \in [Places -> Elems], NEW i \in Places, NEW j \in Places, i # j
    PROVE  /\ Swap(h, i, j) \in [Places -> Elems]
           /\ Swap(h, i, j)[i] = h[j]
           /\ Swap(h, i, j)[j] = h[i]
           /\ \A k \in Places \ {i, j} : Swap(h, i, j)[k] = h[k]
BY DEF Swap

LEMMA SwapKeepsMatched ==
    ASSUME NEW n \in 0..NumElems, NEW h \in [Places -> Elems],
           NEW q \in [Elems -> 0..NumElems], Matched(h, q, n),
           NEW i \in 1..n, NEW j \in 1..n, i # j
    PROVE  Matched(Swap(h, i, j), [q EXCEPT ![h[j]] = i, ![h[i]] = j], n)
<1> DEFINE s == Swap(h, i, j)
           r == [q EXCEPT ![h[j]] = i, ![h[i]] = j]
<1>1. 1..n \subseteq Places /\ i \in Places /\ j \in Places
  BY HeapAssumption DEF Places
<1>2. /\ s[i] = h[j] /\ s[j] = h[i]
      /\ \A k \in Places \ {i, j} : s[k] = h[k]
  BY <1>1, SwapEntries
<1>3. /\ h[i] \in Elems /\ h[j] \in Elems /\ q[h[i]] = i /\ q[h[j]] = j
      /\ h[i] # h[j]
  BY <1>1 DEF Matched
<1>4. /\ r[h[j]] = i /\ r[h[i]] = j
      /\ \A e \in Elems \ {h[i], h[j]} : r[e] = q[e]
  BY <1>3
<1> HIDE DEF s, r
<1>5. ASSUME NEW p \in 1..n PROVE r[s[p]] = p
  <2>1. CASE p = i
    BY <2>1, <1>2, <1>4
  <2>2. CASE p = j
    BY <2>2, <1>2, <1>4
  <2>3. CASE p \notin {i, j}
    <3>1. s[p] = h[p] /\ h[p] \in Elems /\ q[h[p]] = p
      BY <2>3, <1>1, <1>2 DEF Matched
    <3>2. h[p] # h[i] /\ h[p] # h[j]
      BY <3>1, <1>3, <2>3
    <3> QED BY <3>1, <3>2, <1>4
  <2> QED BY <2>1, <2>2, <2>3
<1>6. ASSUME NEW e \in Elems, r[e] # 0 PROVE r[e] <= n /\ s[r[e]] = e
  <2>1. CASE e = h[i]
    BY <2>1, <1>2, <1>4
  <2>2. CASE e = h[j]
    BY <2>2, <1>2, <1>4
  <2>3. CASE e \notin {h[i], h[j]}
    <3>1. r[e] = q[e] /\ q[e] <= n /\ h[q[e]] = e /\ q[e] \in 0..NumElems /\ q[e] # 0
      BY <2>3, <1>4, <1>6 DEF Matched
    <3>2. q[e] \in Places /\ q[e] # i /\ q[e] # j
      BY <3>1, <2>3 DEF Places
    <3> QED BY <3>1, <3>2, <1>2
  <2> QED BY <2>1, <2>2, <2>3
<1> QED BY <1>5, <1>6 DEF Matched, s, r

\* An entry that is not lower than its parent changes places with it.
LEMMA SwapUp ==
    ASSUME NEW n \in 0..NumElems, NEW h \in [Places -> Elems], NEW a \in [Elems -> Nat],
           NEW i \in 2..n, UpOrdered(h, a, n, i), a[h[i \div 2]] <= a[h[i]]
    PROVE  UpOrdered(Swap(h, i, i \div 2), a, n, i \div 2)
<1> DEFINE j == i \div 2
           s == Swap(h, i, j)
           x(p) == a[h[p]]
           y(p) == a[s[p]]
<1>1. /\ j \in 1..n /\ j < i /\ i \in Places /\ j \in Places
      /\ \A p \in 2..n : p \in Places /\ p \div 2 \in Places /\ p \div 2 < p
  BY Parents
<1>2. /\ y(i) = x(j) /\ y(j) = x(i)
      /\ \A k \in Places \ {i, j} : y(k) = x(k)
  <2>1. i # j /\ i \in Places /\ j \in Places
    BY <1>1
  <2> HIDE DEF j
  <2> QED BY <2>1, SwapEntries
<1>3. \A k \in Places : x(k) \in Nat
  BY DEF Places
<1>4. /\ \A p \in 2..n : p # i => x(p) <= x(p \div 2)
      /\ \A p \in 2..n : p \div 2 = i => x(p) <= x(j)
      /\ x(j) <= x(i)
  BY DEF UpOrdered, Around
<1> HIDE DEF x, y, s
<1>5. ASSUME NEW p \in 2..n, p # j PROVE y(p) <= y(p \div 2)
  <2>1. CASE p = i
    BY <2>1, <1>1, <1>2, <1>4
  <2>2. CASE p # i /\ p \div 2 = i
    BY <2>2, <1>1, <1>2, <1>4, <1>5
  <2>3. CASE p # i /\ p \div 2 = j
    <3>1. x(p) <= x(j) /\ x(j) <= x(i) /\ y(p) = x(p) /\ y(p \div 2) = x(i)
      BY <2>3, <1>1, <1>2, <1>4, <1>5
    <3> QED BY <3>1, <1>1, <1>3
  <2>4. CASE p # i /\ p \div 2 # i /\ p \div 2 # j
    BY <2>4, <1>1, <1>2, <1>4, <1>5
  <2> QED BY <2>1, <2>2, <2>3, <2>4
<1>6. ASSUME j > 1, NEW p \in 2..n, p \div 2 = j PROVE y(p) <= y(j \div 2)
  <2>1. j \in 2..n /\ j \div 2 \in Places /\ j \div 2 < j
    BY <1>1, <1>6
  <2>2. x(j) <= x(j \div 2) /\ y(j \div 2) = x(j \div 2)
    BY <2>1, <1>1, <1>2, <1>4
  <2>3. CASE p = i
    BY <2>2, <2>3, <1>2
  <2>4. CASE p # i
    <3>1. p # j /\ y(p) = x(p) /\ x(p) <= x(j)
      BY <2>4, <1>1, <1>2, <1>4, <1>6
    <3> QED BY <3>1, <2>1, <2>2, <1>1, <1>3
  <2> QED BY <2>3, <2>4
<1> QED BY <1>5, <1>6 DEF UpOrdered, Around, y, s

\* An entry changes places with the higher of its children, which it does not exceed.
LEMMA SwapDown ==
    ASSUME NEW n \in 0..NumElems, NEW h \in [Places -> Elems], NEW a \in [Elems -> Nat],
           NEW i \in 1..n, NEW c \in 2..n, c \div 2 = i, DownOrdered(h, a, n, i),
           \A p \in 2..n : p \div 2 = i => a[h[p]] <= a[h[c]],
           a[h[i]] <= a[h[c]]
    PROVE  DownOrdered(Swap(h, i, c), a, n, c)
<1> DEFINE s == Swap(h, i, c)
           x(p) == a[h[p]]
           y(p) == a[s[p]]
<1>1. /\ i < c /\ i \in Places /\ c \in Places
      /\ \A p \in 2..n : p \in Places /\ p \div 2 \in Places /\ p \div 2 < p
  BY Parents
<1>2. /\ y(i) = x(c) /\ y(c) = x(i)
      /\ \A k \in Places \ {i, c} : y(k) = x(k)
  BY <1>1, SwapEntries, SMTT(30)
<1>3. \A k \in Places : x(k) \in Nat
  BY DEF Places
<1>4. /\ \A p \in 2..n : p \div 2 # i => x(p) <= x(p \div 2)
      /\ \A p \in 2..n : i > 1 /\ p \div 2 = i => x(p) <= x(i \div 2)
      /\ \A p \in 2..n : p \div 2 = i => x(p) <= x(c)
      /\ x(i) <= x(c)
  BY DEF DownOrdered, Around
<1> HIDE DEF x, y, s
<1>5. ASSUME NEW p \in 2..n, p \div 2 # c PROVE y(p) <= y(p \div 2)
  <2>1. CASE p = c
    BY <2>1, <1>1, <1>2, <1>4
  <2>2. CASE p # c /\ p \div 2 = i
    BY <2>2, <1>1, <1>2, <1>4
  <2>3. CASE p = i
    <3>1. x(c) <= x(i \div 2) /\ i \div 2 \in Places /\ i \div 2 < i
      BY <2>3, <1>1, <1>4
    <3> QED BY <2>3, <3>1, <1>1, <1>2
  <2>4. CASE p # c /\ p # i /\ p \div 2 # i
    BY <2>4, <1>1, <1>2, <1>4, <1>5
  <2> QED BY <2>1, <2>2, <2>3, <2>4
<1>6. ASSUME NEW p \in 2..n, p \div 2 = c PROVE y(p) <= y(c \div 2)
  <2>1. p # i /\ p # c /\ p \div 2 # i
    BY <1>1, <1>6
  <2>2. y(p) = x(p) /\ x(p) <= x(c) /\ y(c \div 2) = x(c)
    BY <2>1, <1>1, <1>2, <1>4, <1>6
  <2> QED BY <2>2
<1> QED BY <1>5, <1>6 DEF DownOrdered, Around, y, s

\* The first entry is the highest.
LEMMA RootIsHighest ==
    ASSUME NEW n \in 1..NumElems, NEW h \in [Places -> Elems], NEW a \in [Elems -> Nat],
           Ordered(h, a, n)
    PROVE  \A p \in 1..n : a[h[p]] <= a[h[1]]
<1> DEFINE Higher == {p \in 1..n : ~(a[h[p]] <= a[h[1]])}
<1> SUFFICES ASSUME Higher # {} PROVE FALSE
  OBVIOUS
<1>1. PICK p \in Higher : \A k \in Higher : p <= k
  <2>1. Higher \in SUBSET Nat
    OBVIOUS
  <2> HIDE DEF Higher
  <2> QED BY <2>1, HasSmallest
<1>2. p \in 2..n
  <2>1. 1 \in Places /\ h[1] \in Elems /\ a[h[1]] \in Nat
    BY HeapAssumption DEF Places
  <2>2. p # 1
    BY <2>1
  <2> QED BY <2>2
<1>3. p \div 2 \in 1..n /\ p \div 2 < p /\ p \in Places /\ p \div 2 \in Places /\ 1 \in Places
  BY <1>2, Parents, HeapAssumption DEF Places
<1>4. a[h[p \div 2]] <= a[h[1]]
  BY <1>1, <1>3
<1>5. a[h[p]] <= a[h[p \div 2]]
  BY <1>2 DEF Ordered
<1>6. a[h[p]] \in Nat /\ a[h[p \div 2]] \in Nat /\ a[h[1]] \in Nat
  BY <1>3
<1>7. ~(a[h[p]] <= a[h[1]])
  OBVIOUS
<1> QED BY <1>4, <1>5, <1>6, <1>7
-----------------------------------------------------------------------------
(* The heap with the element under way at its place. *)

LEMMA EffectiveTypes ==
    ASSUME TypeOK, UnderWay
    PROVE  /\ Heap \in [Places -> Elems]
           /\ Position \in [Elems -> 0..NumElems]
           /\ pc # "ready" => /\ pos \in Places
                              /\ Heap[pos] = node
                              /\ \A p \in Places \ {pos} : Heap[p] = maxHeap[p]
           /\ pc = "ready" => Heap = maxHeap /\ Position = heapPositions
<1>1. pc # "ready" => pos \in Places
  BY HeapAssumption DEF TypeOK, UnderWay, Places
<1> QED BY <1>1 DEF TypeOK, UnderWay, Places, Elems, Heap, Position

\* The element under way settles: the effective heap becomes the heap.
LEMMA SettleEffect ==
    ASSUME TypeOK, UnderWay, pc # "ready", Settle(pos), maxHeapLast' = maxHeapLast
    PROVE  /\ maxHeap' \in [Places -> Elems] /\ heapPositions' \in [Elems -> 0..NumElems]
           /\ pc' = "ready" /\ node' = 1 /\ pos' = 0 /\ result' = 0
           /\ Position' = Position
           /\ maxHeapLast > 0 => Heap' = Heap
<1>1. pos \in Places
  BY EffectiveTypes
<1>2. CASE pos <= maxHeapLast
  <2>1. /\ maxHeap' = [maxHeap EXCEPT ![pos] = node]
        /\ heapPositions' = [heapPositions EXCEPT ![node] = pos]
        /\ pc' = "ready" /\ node' = 1 /\ pos' = 0 /\ result' = 0
    BY <1>2 DEF Settle, heap_placeNode
  <2>2. Heap = [maxHeap EXCEPT ![pos] = node]
    BY DEF Heap
  <2>3. Position = [heapPositions EXCEPT ![node] = pos]
    <3>1. ~(pc = "ready" \/ pos > maxHeapLast)
      BY <1>2 DEF TypeOK
    <3> QED BY <3>1 DEF Position
  <2>4. Heap' = maxHeap' /\ Position' = heapPositions'
    BY <2>1 DEF Heap, Position
  <2>5. /\ maxHeap' \in [Places -> Elems]
        /\ heapPositions' \in [Elems -> 0..NumElems]
    BY <2>1, <1>1 DEF TypeOK
  <2> QED BY <2>1, <2>2, <2>3, <2>4, <2>5
<1>3. CASE ~(pos <= maxHeapLast)
  <2>1. maxHeapLast = 0
    BY <1>3 DEF TypeOK, UnderWay, Places
  <2> QED BY <1>1, <1>3, <2>1 DEF TypeOK, Heap, Position, Settle
<1> QED BY <1>2, <1>3

\* The element under way changes places with entry j.
LEMMA MoveEffect ==
    ASSUME TypeOK, UnderWay, Matched(Heap, Position, maxHeapLast),
           pc # "ready", pos <= maxHeapLast, NEW j \in 1..maxHeapLast, j # pos,
           heap_placeNode(maxHeap[j], pos), pos' = j,
           UNCHANGED <<pc, node, act, maxHeapLast>>
    PROVE  /\ TypeOK' <=> scoreBonus' \in Nat \ {0} /\ nTimes' \in Nat
                          /\ result' \in 0..NumElems
           /\ UnderWay'
           /\ Heap' = Swap(Heap, pos, j)
           /\ Matched(Heap, Position, maxHeapLast)'
           /\ InHeap' = InHeap
<1>1. /\ pos \in 1..maxHeapLast /\ pos \in Places /\ j \in Places
      /\ Heap \in [Places -> Elems] /\ Position \in [Elems -> 0..NumElems]
      /\ Heap[pos] = node /\ Heap[j] = maxHeap[j]
  <2>1. /\ pos \in Places /\ Heap[pos] = node
        /\ \A p \in Places \ {pos} : Heap[p] = maxHeap[p]
        /\ Heap \in [Places -> Elems] /\ Position \in [Elems -> 0..NumElems]
    BY EffectiveTypes
  <2>2. pos \in 1..maxHeapLast
    BY DEF UnderWay, TypeOK
  <2>3. j \in Places
    BY HeapAssumption DEF TypeOK, Places
  <2> QED BY <2>1, <2>2, <2>3
<1>2. /\ maxHeap' = [maxHeap EXCEPT ![pos] = maxHeap[j]]
      /\ heapPositions' = [heapPositions EXCEPT ![maxHeap[j]] = pos]
      /\ maxHeap[j] \in Elems
  BY <1>1 DEF heap_placeNode, TypeOK
<1>3. UnderWay'
  BY DEF UnderWay, TypeOK
<1>4. TypeOK' <=> scoreBonus' \in Nat \ {0} /\ nTimes' \in Nat /\ result' \in 0..NumElems
  BY <1>1, <1>2 DEF TypeOK, Places
<1>5. Heap' = Swap(Heap, pos, j)
  BY <1>1, <1>2 DEF Heap, Swap, TypeOK
<1>6. Position' = [Position EXCEPT ![Heap[j]] = pos, ![Heap[pos]] = j]
  <2>1. maxHeap[j] # node /\ node \in Elems /\ maxHeap[j] \in Elems
    BY <1>1 DEF Matched, TypeOK
  <2>2. Position = [heapPositions EXCEPT ![node] = pos]
    <3>1. ~(pc = "ready" \/ pos > maxHeapLast)
      BY DEF TypeOK
    <3> QED BY <3>1 DEF Position
  <2>3. Position' = [heapPositions' EXCEPT ![node] = j]
    <3>1. ~(pc' = "ready" \/ pos' > maxHeapLast') /\ node' = node /\ pos' = j
      BY DEF TypeOK
    <3> QED BY <3>1 DEF Position
  <2>4. heapPositions \in [Elems -> 0..NumElems]
    BY DEF TypeOK
  <2>5. Position' = [[heapPositions EXCEPT ![maxHeap[j]] = pos] EXCEPT ![node] = j]
    BY <2>3, <1>2
  <2>6. [[heapPositions EXCEPT ![maxHeap[j]] = pos] EXCEPT ![node] = j]
        = [[heapPositions EXCEPT ![node] = pos] EXCEPT ![maxHeap[j]] = pos, ![node] = j]
    BY <2>1, <2>4
  <2> QED BY <1>1, <2>2, <2>5, <2>6
<1>7. maxHeapLast \in 0..NumElems
  BY DEF TypeOK
<1>8. Matched(Swap(Heap, pos, j), [Position EXCEPT ![Heap[j]] = pos, ![Heap[pos]] = j],
              maxHeapLast)
  BY <1>1, <1>7, SwapKeepsMatched
<1>9. InHeap' = InHeap
  <2>1. Position[Heap[pos]] = pos /\ Position[Heap[j]] = j
    BY <1>1 DEF Matched
  <2> QED BY <1>1, <1>6, <1>7, <2>1 DEF InHeap
<1> QED BY <1>3, <1>4, <1>5, <1>6, <1>8, <1>9
-----------------------------------------------------------------------------
LEMMA InitIInv == Init => IInv
<1> SUFFICES ASSUME Init PROVE IInv
  OBVIOUS
<1>1. TypeOK
  BY HeapAssumption DEF Init, TypeOK, Places, Elems
<1>2. UnderWay
  BY DEF Init, UnderWay
<1>3. Heap = maxHeap /\ Position = heapPositions /\ maxHeapLast = NumElems
  BY DEF Init, Heap, Position
<1>4. Matched(Heap, Position, maxHeapLast)
  BY <1>3 DEF Init, Matched, Elems
<1>5. Ordered(Heap, act, maxHeapLast)
  <2> SUFFICES ASSUME NEW p \in 2..maxHeapLast PROVE act[Heap[p]] <= act[Heap[p \div 2]]
    BY DEF Ordered
  <2>1. p \in Places /\ p \div 2 \in Places
    BY <1>1, Parents DEF TypeOK
  <2> QED BY <2>1, <1>3 DEF Init, Places, Elems
<1>6. OrderInv
  BY <1>5 DEF Init, OrderInv
<1> QED BY <1>1, <1>2, <1>4, <1>6 DEF IInv

LEMMA PercolateUpIInv ==
    ASSUME IInv, PercolateUp
    PROVE  IInv' /\ InHeap' = InHeap
<1> DEFINE j == pos \div 2
<1>1. /\ TypeOK /\ UnderWay /\ Matched(Heap, Position, maxHeapLast) /\ OrderInv
      /\ pc = "up" /\ pos \in 1..maxHeapLast /\ maxHeapLast \in 0..NumElems
  BY DEF IInv, PercolateUp, UnderWay, TypeOK
<1>2. /\ Heap \in [Places -> Elems] /\ Heap[pos] = node /\ pos \in Places
      /\ \A p \in Places \ {pos} : Heap[p] = maxHeap[p]
      /\ act \in [Elems -> Nat] /\ node \in Elems
  BY <1>1, EffectiveTypes DEF TypeOK
<1>3. CASE pos > 1 /\ ~heap_nodeIsGreater(maxHeap[j], node)
  <2>1. pos \in 2..maxHeapLast
    BY <1>1, <1>3
  <2>2. j \in 1..maxHeapLast /\ j # pos /\ j \in Places
    BY <1>1, <2>1, Parents
  <2>3. /\ heap_placeNode(maxHeap[j], pos) /\ pos' = j
        /\ UNCHANGED <<pc, node, act, maxHeapLast, nTimes, scoreBonus, result>>
    BY <1>3 DEF PercolateUp
  <2> HIDE DEF j
  <2>4. /\ TypeOK' /\ UnderWay' /\ Heap' = Swap(Heap, pos, j)
        /\ Matched(Heap, Position, maxHeapLast)' /\ InHeap' = InHeap
    BY <1>1, <2>2, <2>3, MoveEffect DEF TypeOK
  <2>5. act[Heap[j]] <= act[Heap[pos]]
    BY <1>2, <1>3, <2>2 DEF heap_nodeIsGreater
  <2>6. OrderInv'
    <3>1. SUFFICES ASSUME nTimes = 0 PROVE UpOrdered(Heap, act, maxHeapLast, pos)'
      BY <1>1, <2>3 DEF OrderInv
    <3>2. UpOrdered(Heap, act, maxHeapLast, pos)
      BY <1>1, <3>1 DEF OrderInv
    <3>3. UpOrdered(Swap(Heap, pos, j), act, maxHeapLast, j)
      BY <1>1, <1>2, <2>1, <2>5, <3>2, SwapUp DEF j
    <3> QED BY <2>3, <2>4, <3>3
  <2> QED BY <2>4, <2>6 DEF IInv
<1>4. CASE ~(pos > 1 /\ ~heap_nodeIsGreater(maxHeap[j], node))
  <2>1. Settle(pos) /\ UNCHANGED <<act, maxHeapLast, nTimes, scoreBonus>>
    BY <1>4 DEF PercolateUp
  <2>2. /\ maxHeap' \in [Places -> Elems] /\ heapPositions' \in [Elems -> 0..NumElems]
        /\ pc' = "ready" /\ node' = 1 /\ pos' = 0 /\ result' = 0
        /\ Position' = Position
        /\ Heap' = Heap
    BY <1>1, <2>1, SettleEffect
  <2>3. TypeOK' /\ UnderWay' /\ Matched(Heap, Position, maxHeapLast)'
    BY <1>1, <2>1, <2>2, HeapAssumption DEF TypeOK, UnderWay, Elems
  <2>4. OrderInv'
    <3>1. SUFFICES ASSUME nTimes = 0 PROVE Ordered(Heap, act, maxHeapLast)
      BY <2>1, <2>2 DEF OrderInv
    <3>2. UpOrdered(Heap, act, maxHeapLast, pos)
      BY <1>1, <3>1 DEF OrderInv
    <3>3. ASSUME pos \in 2..maxHeapLast PROVE act[Heap[pos]] <= act[Heap[j]]
      <4>1. j \in Places /\ j # pos
        BY <1>1, <3>3, Parents
      <4> HIDE DEF j
      <4> QED BY <1>2, <1>4, <3>3, <4>1 DEF heap_nodeIsGreater
    <3> QED BY <3>2, <3>3 DEF UpOrdered, Ordered
  <2>5. InHeap' = InHeap
    BY <2>2 DEF InHeap
  <2> QED BY <2>3, <2>4, <2>5 DEF IInv
<1> QED BY <1>3, <1>4

LEMMA SinkIInv ==
    ASSUME IInv, Sink
    PROVE  IInv' /\ InHeap' = InHeap
<1> DEFINE c == GreaterChild(pos)
<1>1. /\ TypeOK /\ UnderWay /\ Matched(Heap, Position, maxHeapLast) /\ OrderInv
      /\ pc = "down" /\ maxHeapLast \in 0..NumElems
  BY DEF IInv, Sink, TypeOK
<1>2. /\ Heap \in [Places -> Elems] /\ Heap[pos] = node /\ pos \in Places /\ pos \in Nat
      /\ \A p \in Places \ {pos} : Heap[p] = maxHeap[p]
      /\ act \in [Elems -> Nat] /\ node \in Elems
      /\ maxHeapLast > 0 => pos \in 1..maxHeapLast
  BY <1>1, EffectiveTypes, SMTT(30) DEF TypeOK, UnderWay, Places
\* The child that is looked at is the higher one.
<1>3. ASSUME 2 * pos <= maxHeapLast
      PROVE  /\ c \in 2..maxHeapLast /\ c \div 2 = pos /\ c # pos /\ c \in Places
             /\ \A p \in 2..maxHeapLast : p \div 2 = pos => act[Heap[p]] <= act[Heap[c]]
  <2>1. /\ (2 * pos) \div 2 = pos /\ (2 * pos + 1) \div 2 = pos
        /\ 2 * pos \in 2..maxHeapLast
        /\ 2 * pos < maxHeapLast => 2 * pos + 1 \in 2..maxHeapLast
    BY <1>1, <1>2, <1>3, Doubles DEF Places
  <2>2. ASSUME NEW p \in 2..maxHeapLast, p \div 2 = pos
        PROVE  p = 2 * pos \/ (p = 2 * pos + 1 /\ 2 * pos < maxHeapLast)
    BY <2>2, Halves, <1>1
  <2>3. c = 2 * pos \/ (c = 2 * pos + 1 /\ 2 * pos < maxHeapLast)
    BY DEF GreaterChild
  <2>4. c \in 2..maxHeapLast /\ c \div 2 = pos
    BY <2>1, <2>3
  <2>5. c \in Places /\ c # pos
    BY <1>1, <2>4, Parents
  <2>6. ASSUME NEW p \in 2..maxHeapLast, p \div 2 = pos
        PROVE  act[Heap[p]] <= act[Heap[c]]
    <3>1. p \in Places /\ p # pos
      BY <1>1, <2>6, Parents
    <3>2. /\ Heap[p] = maxHeap[p] /\ Heap[c] = maxHeap[c]
          /\ act[Heap[p]] \in Nat /\ act[Heap[c]] \in Nat
      BY <1>2, <2>5, <3>1
    <3>3. CASE p = c
      BY <3>2, <3>3
    <3>4. CASE p # c
      BY <2>2, <2>3, <2>6, <3>2, <3>4 DEF GreaterChild, heap_nodeIsGreater
    <3> QED BY <3>3, <3>4
  <2> QED BY <2>4, <2>5, <2>6
<1>4. CASE 2 * pos <= maxHeapLast /\ ~heap_nodeIsGreater(node, maxHeap[c])
  <2>1. /\ heap_placeNode(maxHeap[c], pos) /\ pos' = c
        /\ UNCHANGED <<pc, node, act, maxHeapLast, nTimes, scoreBonus, result>>
    BY <1>4 DEF Sink
  <2>2. /\ c \in 2..maxHeapLast /\ c \div 2 = pos /\ c # pos /\ c \in Places
        /\ \A p \in 2..maxHeapLast : p \div 2 = pos => act[Heap[p]] <= act[Heap[c]]
    BY <1>3, <1>4
  <2>3. pos \in 1..maxHeapLast
    <3>1. maxHeapLast > 0
      BY <1>1, <2>2
    <3> QED BY <1>2, <3>1
  <2> HIDE DEF c
  <2>4. /\ TypeOK' /\ UnderWay' /\ Heap' = Swap(Heap, pos, c)
        /\ Matched(Heap, Position, maxHeapLast)' /\ InHeap' = InHeap
    <3>1. c \in 1..maxHeapLast /\ pos <= maxHeapLast
      BY <2>2, <2>3
    <3> QED BY <1>1, <2>1, <2>2, <3>1, MoveEffect DEF TypeOK
  <2>5. act[Heap[pos]] <= act[Heap[c]]
    BY <1>2, <1>4, <2>2 DEF heap_nodeIsGreater
  <2>6. OrderInv'
    <3>1. SUFFICES ASSUME nTimes = 0 PROVE DownOrdered(Heap, act, maxHeapLast, pos)'
      BY <1>1, <2>1 DEF OrderInv
    <3>2. DownOrdered(Heap, act, maxHeapLast, pos)
      BY <1>1, <3>1 DEF OrderInv
    <3>3. DownOrdered(Swap(Heap, pos, c), act, maxHeapLast, c)
      BY <1>1, <1>2, <2>2, <2>3, <2>5, <3>2, SwapDown
    <3> QED BY <2>1, <2>4, <3>3
  <2> QED BY <2>4, <2>6 DEF IInv
<1>5. CASE ~(2 * pos <= maxHeapLast /\ ~heap_nodeIsGreater(node, maxHeap[c]))
  <2>1. Settle(pos) /\ UNCHANGED <<act, maxHeapLast, nTimes, scoreBonus>>
    BY <1>5 DEF Sink
  <2>2. /\ maxHeap' \in [Places -> Elems] /\ heapPositions' \in [Elems -> 0..NumElems]
        /\ pc' = "ready" /\ node' = 1 /\ pos' = 0 /\ result' = 0
        /\ Position' = Position
        /\ maxHeapLast > 0 => Heap' = Heap
    BY <1>1, <2>1, SettleEffect
  <2>3. TypeOK' /\ UnderWay'
    BY <1>1, <2>1, <2>2, HeapAssumption, SMTT(30) DEF TypeOK, UnderWay, Elems
  <2>4. Matched(Heap, Position, maxHeapLast)'
    <3>1. CASE maxHeapLast > 0
      BY <1>1, <2>1, <2>2, <3>1
    <3>2. CASE maxHeapLast = 0
      <4>1. \A e \in Elems : Position[e] = 0
        <5>1. Position \in [Elems -> 0..NumElems]
          BY <1>1, EffectiveTypes
        <5> SUFFICES ASSUME NEW e \in Elems, Position[e] # 0 PROVE FALSE
          OBVIOUS
        <5>2. Position[e] <= 0 /\ Position[e] \in 0..NumElems
          BY <1>1, <3>2, <5>1 DEF Matched
        <5> QED BY <5>2
      <4> QED BY <1>1, <2>1, <2>2, <3>2, <4>1 DEF Matched
    <3> QED BY <1>1, <3>1, <3>2
  <2>5. OrderInv'
    <3>1. SUFFICES ASSUME nTimes = 0 PROVE Ordered(Heap', act, maxHeapLast)
      BY <2>1, <2>2 DEF OrderInv
    <3>2. DownOrdered(Heap, act, maxHeapLast, pos)
      BY <1>1, <3>1 DEF OrderInv
    <3>3. ASSUME NEW p \in 2..maxHeapLast, p \div 2 = pos
          PROVE  act[Heap[p]] <= act[Heap[pos]]
      <4>1. 2 * pos <= maxHeapLast /\ p \in Places
        BY <1>1, <1>2, <3>3, Halves, Parents
      <4>2. c \in Places /\ c # pos /\ act[Heap[p]] <= act[Heap[c]]
        BY <1>3, <3>3, <4>1
      <4> HIDE DEF c
      <4>3. act[Heap[c]] < act[Heap[pos]]
        BY <1>2, <1>5, <4>1, <4>2 DEF heap_nodeIsGreater
      <4>4. act[Heap[p]] \in Nat /\ act[Heap[c]] \in Nat /\ act[Heap[pos]] \in Nat
        BY <1>2, <4>1, <4>2
      <4> QED BY <4>2, <4>3, <4>4
    <3>4. Ordered(Heap, act, maxHeapLast)
      BY <3>2, <3>3 DEF DownOrdered, Ordered
    <3>5. maxHeapLast = 0 => Ordered(Heap', act, maxHeapLast)
      BY DEF Ordered
    <3>6. maxHeapLast = 0 \/ maxHeapLast > 0
      BY <1>1
    <3>7. CASE maxHeapLast > 0
      BY <2>2, <3>4, <3>7
    <3> QED BY <3>5, <3>6, <3>7
  <2>6. InHeap' = InHeap
    BY <2>2 DEF InHeap
  <2> QED BY <2>3, <2>4, <2>5, <2>6 DEF IInv
<1> QED BY <1>4, <1>5
-----------------------------------------------------------------------------
\* A call sets out from the heap at rest.
LEMMA Ready ==
    ASSUME IInv, pc = "ready"
    PROVE  /\ TypeOK /\ Heap = maxHeap /\ Position = heapPositions
           /\ Matched(maxHeap, heapPositions, maxHeapLast)
           /\ nTimes = 0 => Ordered(maxHeap, act, maxHeapLast)
BY EffectiveTypes DEF IInv, OrderInv

LEMMA RemoveMaxIInv ==
    ASSUME IInv, RemoveMax
    PROVE  IInv' /\ InHeap' = InHeap \ {maxHeap[1]}
<1> DEFINE n == maxHeapLast - 1
           top == maxHeap[1]
           last == maxHeap[maxHeapLast]
<1>1. /\ TypeOK /\ Matched(maxHeap, heapPositions, maxHeapLast)
      /\ nTimes = 0 => Ordered(maxHeap, act, maxHeapLast)
      /\ Heap = maxHeap /\ Position = heapPositions
  BY Ready DEF RemoveMax
<1>2. /\ maxHeapLast \in Places /\ 1 \in Places /\ n \in 0..NumElems /\ n + 1 = maxHeapLast
      /\ 1 \in 1..maxHeapLast /\ maxHeapLast \in 1..maxHeapLast
      /\ \A p \in 1..n : p \in Places /\ p \in 1..maxHeapLast /\ p # maxHeapLast
  BY <1>1, HeapAssumption DEF RemoveMax, TypeOK, Places
<1>3. /\ top \in Elems /\ last \in Elems /\ heapPositions[top] = 1
      /\ heapPositions[last] = maxHeapLast
  BY <1>1, <1>2 DEF TypeOK, Matched
<1>4. /\ result' = top /\ maxHeapLast' = n /\ pc' = "down" /\ node' = last /\ pos' = 1
      /\ heapPositions' = [heapPositions EXCEPT ![top] = 0]
      /\ UNCHANGED <<maxHeap, act, nTimes, scoreBonus>>
  BY DEF RemoveMax, SetOut
<1> HIDE DEF n, top, last
<1>5. TypeOK'
  <2>1. 1 \in 0..NumElems /\ 0 \in 0..NumElems /\ top \in 0..NumElems
    BY <1>3, HeapAssumption DEF Elems
  <2>2. heapPositions' \in [Elems -> 0..NumElems]
    BY <1>1, <1>4, <2>1 DEF TypeOK
  <2> QED BY <1>1, <1>2, <1>3, <1>4, <2>1, <2>2 DEF TypeOK
<1>6. UnderWay'
  <2>1. n = 0 => maxHeapLast = 1 /\ last = top
    BY <1>2 DEF last, top
  <2>2. n = 0 => heapPositions'[node'] = 0
    BY <1>1, <1>3, <1>4, <2>1 DEF TypeOK
  <2> QED BY <1>2, <1>4, <2>2 DEF UnderWay
<1>7. Heap' = [maxHeap EXCEPT ![1] = last]
  BY <1>4 DEF Heap
<1>8. Matched(Heap, Position, maxHeapLast)'
  <2>1. CASE n = 0
    <3>1. Position' = heapPositions'
      BY <1>4, <2>1 DEF Position
    <3>2. \A e \in Elems : heapPositions'[e] = 0
      <4> SUFFICES ASSUME NEW e \in Elems, e # top, heapPositions[e] # 0 PROVE FALSE
        BY <1>1, <1>3, <1>4 DEF TypeOK
      <4>1. heapPositions[e] <= 1 /\ maxHeap[heapPositions[e]] = e
            /\ heapPositions[e] \in 0..NumElems
        BY <1>1, <1>2, <2>1 DEF Matched, TypeOK
      <4>2. heapPositions[e] = 1
        BY <4>1
      <4> QED BY <4>1, <4>2 DEF top
    <3> QED BY <1>4, <2>1, <3>1, <3>2 DEF Matched
  <2>2. CASE n # 0
    <3>1. Position' = [[heapPositions EXCEPT ![top] = 0] EXCEPT ![last] = 1]
      <4>1. ~(pc' = "ready" \/ pos' > maxHeapLast')
        BY <1>2, <1>4, <2>2
      <4> QED BY <1>4, <4>1 DEF Position
    <3>2. /\ Position'[last] = 1 /\ (top # last => Position'[top] = 0)
          /\ \A e \in Elems \ {top, last} : Position'[e] = heapPositions[e]
      BY <1>1, <1>3, <3>1 DEF TypeOK
    <3>3. top # last
      BY <1>2, <1>3, <2>2
    <3>4. /\ Heap'[1] = last
          /\ \A p \in Places \ {1} : Heap'[p] = maxHeap[p]
      BY <1>1, <1>2, <1>7 DEF TypeOK
    <3>5. ASSUME NEW p \in 1..n PROVE Position'[Heap'[p]] = p
      <4>1. CASE p = 1
        BY <3>2, <3>4, <4>1
      <4>2. CASE p # 1
        <5>1. Heap'[p] = maxHeap[p] /\ maxHeap[p] \in Elems /\ heapPositions[maxHeap[p]] = p
          BY <1>1, <1>2, <3>4, <4>2 DEF TypeOK, Matched
        <5>2. maxHeap[p] # top /\ maxHeap[p] # last
          BY <1>2, <1>3, <4>2, <5>1
        <5> QED BY <3>2, <5>1, <5>2
      <4> QED BY <4>1, <4>2
    <3>6. ASSUME NEW e \in Elems, Position'[e] # 0
          PROVE  Position'[e] <= n /\ Heap'[Position'[e]] = e
      <4>1. CASE e = last
        BY <1>2, <2>2, <3>2, <3>4, <4>1
      <4>2. CASE e = top
        BY <3>2, <3>3, <3>6, <4>2
      <4>3. CASE e \notin {top, last}
        <5>1. /\ Position'[e] = heapPositions[e] /\ heapPositions[e] \in 0..NumElems
              /\ heapPositions[e] <= maxHeapLast /\ maxHeap[heapPositions[e]] = e
          BY <1>1, <3>2, <3>6, <4>3 DEF Matched, TypeOK
        <5>2. heapPositions[e] # 1 /\ heapPositions[e] # maxHeapLast
          BY <4>3, <5>1 DEF top, last
        <5>3. heapPositions[e] \in Places \ {1} /\ heapPositions[e] <= n
          BY <1>2, <3>6, <5>1, <5>2 DEF Places
        <5> QED BY <3>4, <5>1, <5>3
      <4> QED BY <4>1, <4>2, <4>3
    <3> QED BY <1>4, <3>5, <3>6 DEF Matched
  <2> QED BY <2>1, <2>2
<1>9. OrderInv'
  <2>1. SUFFICES ASSUME nTimes = 0 PROVE DownOrdered(Heap', act, n, 1)
    BY <1>4 DEF OrderInv
  <2>2. Ordered(maxHeap, act, maxHeapLast)
    BY <1>1, <2>1
  <2>3. ASSUME NEW p \in 2..n, p \div 2 # 1 PROVE act[Heap'[p]] <= act[Heap'[p \div 2]]
    <3>1. p \in Places \ {1} /\ p \div 2 \in Places \ {1} /\ p \in 2..maxHeapLast
      BY <1>2, <2>3, Parents
    <3>2. Heap'[p] = maxHeap[p] /\ Heap'[p \div 2] = maxHeap[p \div 2]
      BY <1>1, <1>7, <3>1 DEF TypeOK
    <3> QED BY <2>2, <3>1, <3>2 DEF Ordered
  <2> QED BY <2>3 DEF DownOrdered, Around
<1>10. InHeap' = InHeap \ {top}
  <2>1. \A e \in Elems \ {top} : Position'[e] # 0 <=> heapPositions[e] # 0
    <3>1. \A e \in Elems \ {top} : heapPositions'[e] = heapPositions[e]
      BY <1>1, <1>4 DEF TypeOK
    <3>2. CASE Position' = heapPositions'
      BY <3>1, <3>2
    <3>3. CASE Position' = [heapPositions' EXCEPT ![last] = 1]
      <4>1. heapPositions[last] # 0
        BY <1>2, <1>3 DEF Places
      <4> QED BY <1>3, <1>5, <3>1, <3>3, <4>1 DEF TypeOK
    <3> QED BY <1>4, <3>2, <3>3 DEF Position
  <2>2. Position'[top] = 0
    <3>1. heapPositions'[top] = 0
      BY <1>1, <1>3, <1>4 DEF TypeOK
    <3>2. CASE n = 0
      BY <1>4, <3>1, <3>2 DEF Position
    <3>3. CASE n # 0
      <4>1. last # top
        BY <1>2, <1>3, <3>3
      <4> QED BY <1>3, <1>4, <1>5, <3>1, <4>1 DEF Position, TypeOK
    <3> QED BY <3>2, <3>3
  <2> QED BY <1>1, <1>3, <2>1, <2>2 DEF InHeap
<1> QED BY <1>5, <1>6, <1>8, <1>9, <1>10 DEF IInv, top

\* There is room for an element that is not in the heap.
LEMMA RoomLeft ==
    ASSUME TypeOK, Matched(maxHeap, heapPositions, maxHeapLast),
           NEW elem \in Elems, heapPositions[elem] = 0
    PROVE  maxHeapLast < NumElems
<1> SUFFICES ASSUME maxHeapLast = NumElems PROVE FALSE
  BY HeapAssumption DEF TypeOK
<1>1. ASSUME NEW p \in Places PROVE maxHeap[p] \in Elems \ {elem}
  BY HeapAssumption, <1>1 DEF TypeOK, Places, Matched
<1>2. maxHeap \in [Places -> Elems \ {elem}]
  BY <1>1 DEF TypeOK
<1>3. IsFiniteSet(Places) /\ Cardinality(Places) = NumElems
  BY FS_Interval, HeapAssumption DEF Places
<1>4. /\ IsFiniteSet(Elems \ {elem})
      /\ Cardinality(Elems \ {elem}) = NumElems - 1
  BY FS_RemoveElement, <1>3 DEF Places, Elems
<1>5. Cardinality(Places) > Cardinality(Elems \ {elem})
  BY <1>3, <1>4, HeapAssumption
<1>6. PICK p \in Places, k \in Places : p # k /\ maxHeap[p] = maxHeap[k]
  BY <1>2, <1>3, <1>4, <1>5, FS_PigeonHole
<1> QED BY <1>6 DEF Matched, Places

LEMMA InsertElementIInv ==
    ASSUME IInv, NEW elem \in Elems, InsertElement(elem)
    PROVE  IInv' /\ InHeap' = InHeap \cup {elem}
<1> DEFINE n == maxHeapLast + 1
<1>1. /\ TypeOK /\ Matched(maxHeap, heapPositions, maxHeapLast)
      /\ nTimes = 0 => Ordered(maxHeap, act, maxHeapLast)
      /\ heapPositions[elem] = 0
  BY Ready DEF InsertElement
<1>2. maxHeapLast < NumElems
  BY <1>1, RoomLeft
<1>3. /\ n \in Places /\ n \in 0..NumElems /\ n > maxHeapLast /\ n >= 1
      /\ \A p \in 1..n : p \in Places /\ (p # n => p \in 1..maxHeapLast)
  BY <1>1, <1>2, HeapAssumption DEF TypeOK, Places
<1>4. /\ maxHeapLast' = n /\ pc' = "up" /\ node' = elem /\ pos' = n
      /\ maxHeap' = [maxHeap EXCEPT ![n] = elem]
      /\ UNCHANGED <<heapPositions, act, nTimes, scoreBonus, result>>
  BY DEF InsertElement, SetOut
<1>5. ASSUME NEW p \in Places, p # n PROVE maxHeap'[p] = maxHeap[p]
  BY <1>1, <1>4, <1>5 DEF TypeOK
<1> HIDE DEF n
<1>6. TypeOK' /\ UnderWay'
  BY <1>1, <1>3, <1>4 DEF TypeOK, UnderWay
<1>7. Heap' = maxHeap' /\ Heap'[n] = elem
  BY <1>1, <1>3, <1>4 DEF Heap, TypeOK
<1>8. Position' = [heapPositions EXCEPT ![elem] = n]
  <2>1. ~(pc' = "ready" \/ pos' > maxHeapLast')
    BY <1>3, <1>4
  <2> QED BY <1>4, <2>1 DEF Position
<1>9. Matched(Heap, Position, maxHeapLast)'
  <2>1. /\ Position'[elem] = n
        /\ \A e \in Elems \ {elem} : Position'[e] = heapPositions[e]
    BY <1>1, <1>8 DEF TypeOK
  <2>2. ASSUME NEW p \in 1..n PROVE Position'[Heap'[p]] = p
    <3>1. CASE p = n
      BY <1>7, <2>1, <3>1
    <3>2. CASE p # n
      <4>1. p \in 1..maxHeapLast /\ p \in Places /\ p # 0
        BY <1>3, <3>2
      <4>2. Heap'[p] = maxHeap[p] /\ maxHeap[p] \in Elems /\ heapPositions[maxHeap[p]] = p
        BY <1>1, <1>5, <1>7, <3>2, <4>1 DEF TypeOK, Matched
      <4>3. maxHeap[p] # elem
        BY <1>1, <4>1, <4>2
      <4> QED BY <2>1, <4>2, <4>3
    <3> QED BY <3>1, <3>2
  <2>3. ASSUME NEW e \in Elems, Position'[e] # 0
        PROVE  Position'[e] <= n /\ Heap'[Position'[e]] = e
    <3>1. CASE e = elem
      BY <1>3, <1>7, <2>1, <3>1
    <3>2. CASE e # elem
      <4>1. /\ Position'[e] = heapPositions[e] /\ heapPositions[e] \in 0..NumElems
            /\ heapPositions[e] <= maxHeapLast /\ maxHeap[heapPositions[e]] = e
        BY <1>1, <2>1, <2>3, <3>2 DEF Matched, TypeOK
      <4>2. heapPositions[e] \in Places /\ heapPositions[e] # n /\ heapPositions[e] <= n
        BY <1>1, <1>3, <2>3, <4>1 DEF Places, TypeOK
      <4> QED BY <1>5, <1>7, <4>1, <4>2
    <3> QED BY <3>1, <3>2
  <2> QED BY <1>4, <2>2, <2>3 DEF Matched
<1>10. OrderInv'
  <2>1. SUFFICES ASSUME nTimes = 0 PROVE UpOrdered(Heap', act, n, n)
    BY <1>4 DEF OrderInv
  <2>2. Ordered(maxHeap, act, maxHeapLast)
    BY <1>1, <2>1
  <2>3. ASSUME NEW p \in 2..n, p # n PROVE act[Heap'[p]] <= act[Heap'[p \div 2]]
    <3>1. p \in 2..maxHeapLast /\ maxHeapLast \in 0..NumElems
      BY <1>1, <1>3, <2>3 DEF TypeOK
    <3>2. p \in Places /\ p \div 2 \in Places /\ p \div 2 # n
      BY <1>3, <3>1, Parents
    <3>3. Heap'[p] = maxHeap[p] /\ Heap'[p \div 2] = maxHeap[p \div 2]
      BY <1>5, <1>7, <2>3, <3>2
    <3> QED BY <2>2, <3>1, <3>3 DEF Ordered
  <2>4. ASSUME NEW p \in 2..n, p \div 2 = n PROVE FALSE
    BY <1>3, <2>4, Parents
  <2> QED BY <2>3, <2>4 DEF UpOrdered, Around
<1>11. InHeap' = InHeap \cup {elem}
  BY <1>1, <1>3, <1>8, Ready DEF InHeap, TypeOK, InsertElement
<1> QED BY <1>6, <1>9, <1>10, <1>11 DEF IInv

\* The arithmetic of scores.
LEMMA Scores ==
    ASSUME NEW a \in [Elems -> Nat], NEW x \in Nat, NEW y \in Nat
    PROVE  Normalized(a) \in [Elems -> Nat] /\ Sum(x, y) \in Nat
<1>1. \A k \in Nat : k \div Scale \in Nat
  BY HeapAssumption
<1>2. Normalized(a) \in [Elems -> Nat]
  BY <1>1 DEF Normalized
<1> QED BY <1>2, HeapAssumption DEF Sum, Infinity

LEMMA IncreaseScoreIInv ==
    ASSUME IInv, NEW elem \in Elems, IncreaseScore(elem)
    PROVE  /\ IInv' /\ InHeap' = InHeap
           /\ \/ /\ nTimes' = nTimes
                 /\ act' = [act EXCEPT ![elem] = @ + scoreBonus]
              \/ nTimes' = nTimes + 1
<1> DEFINE i == heapPositions[elem]
           overflow == act[elem] + scoreBonus > MaxScore
           scores == IF overflow THEN Normalized(act) ELSE act
<1>1. /\ TypeOK /\ Matched(maxHeap, heapPositions, maxHeapLast)
      /\ nTimes = 0 => Ordered(maxHeap, act, maxHeapLast)
      /\ pc = "ready" /\ Heap = maxHeap /\ Position = heapPositions
  BY Ready DEF IncreaseScore
<1>2. /\ act' = [scores EXCEPT ![elem] = Sum(@, scoreBonus)]
      /\ nTimes' = IF overflow THEN nTimes + 1 ELSE nTimes
      /\ scoreBonus' = IF overflow THEN InitialBonus ELSE scoreBonus
      /\ IF i # 0 THEN SetOut("up", elem, i) ELSE UNCHANGED <<pc, node, pos>>
      /\ UNCHANGED <<maxHeap, heapPositions, maxHeapLast, result>>
  BY DEF IncreaseScore
<1>3. scores \in [Elems -> Nat] /\ Sum(scores[elem], scoreBonus) \in Nat
  BY <1>1, Scores DEF TypeOK
<1>4. /\ \/ nTimes' = nTimes /\ act' = [act EXCEPT ![elem] = @ + scoreBonus]
         \/ nTimes' = nTimes + 1
      /\ act' \in [Elems -> Nat] /\ nTimes' \in Nat /\ scoreBonus' \in Nat \ {0}
  <2>1. act' \in [Elems -> Nat]
    BY <1>2, <1>3
  <2>2. nTimes' \in Nat /\ scoreBonus' \in Nat \ {0}
    BY <1>1, <1>2, HeapAssumption DEF TypeOK
  <2>3. ~overflow => nTimes' = nTimes /\ act' = [act EXCEPT ![elem] = @ + scoreBonus]
    BY <1>2 DEF Sum
  <2> QED BY <1>2, <2>1, <2>2, <2>3
<1>5. i \in 0..NumElems /\ (i # 0 => i \in 1..maxHeapLast /\ maxHeap[i] = elem)
  BY <1>1 DEF TypeOK, Matched
<1> HIDE DEF i, overflow, scores
<1>6. Heap' = maxHeap /\ Position' = heapPositions
  <2>1. CASE i = 0
    BY <1>1, <1>2, <2>1 DEF Heap, Position
  <2>2. CASE i # 0
    <3>1. pc' = "up" /\ node' = elem /\ pos' = i
      BY <1>2, <2>2 DEF SetOut
    <3>2. Heap' = [maxHeap EXCEPT ![i] = elem] /\ Position' = [heapPositions EXCEPT ![elem] = i]
      BY <1>1, <1>2, <1>5, <2>2, <3>1 DEF Heap, Position, TypeOK
    <3> QED BY <1>1, <1>5, <2>2, <3>2 DEF TypeOK, i
  <2> QED BY <2>1, <2>2
<1>7. TypeOK' /\ UnderWay'
  BY <1>1, <1>2, <1>4, <1>5 DEF TypeOK, UnderWay, SetOut
<1>8. OrderInv'
  <2>1. SUFFICES ASSUME nTimes' = 0
                 PROVE  /\ i = 0 => Ordered(maxHeap, act', maxHeapLast)
                        /\ i # 0 => UpOrdered(maxHeap, act', maxHeapLast, i)
    BY <1>1, <1>2, <1>6 DEF OrderInv, SetOut
  <2>2. /\ Ordered(maxHeap, act, maxHeapLast)
        /\ act' = [act EXCEPT ![elem] = @ + scoreBonus]
    BY <1>1, <1>4, <2>1 DEF TypeOK
  <2>3. /\ maxHeap \in [Places -> Elems] /\ maxHeapLast \in 0..NumElems
        /\ act'[elem] >= act[elem]
        /\ \A e \in Elems : act[e] \in Nat /\ act'[e] \in Nat
        /\ \A e \in Elems \ {elem} : act'[e] = act[e]
    BY <1>1, <1>4, <2>2 DEF TypeOK
  <2>4. ASSUME NEW p \in 2..maxHeapLast
        PROVE  /\ p \in Places /\ p \div 2 \in Places /\ p \div 2 # p
               /\ act[maxHeap[p]] <= act[maxHeap[p \div 2]]
               /\ act[maxHeap[p \div 2]] <= act'[maxHeap[p \div 2]]
               /\ p # i => act'[maxHeap[p]] = act[maxHeap[p]]
    <3>1. p \in Places /\ p \div 2 \in Places /\ p \div 2 # p /\ p \in 1..maxHeapLast
      BY <2>3, Parents
    <3>2. maxHeap[p] \in Elems /\ maxHeap[p \div 2] \in Elems
      BY <2>3, <3>1
    <3>3. p # i => maxHeap[p] # elem
      BY <1>1, <3>1 DEF Matched, i
    <3> QED BY <2>2, <2>3, <3>1, <3>2, <3>3 DEF Ordered
  <2>5. ASSUME NEW p \in 2..maxHeapLast, p # i
        PROVE  act'[maxHeap[p]] <= act'[maxHeap[p \div 2]]
    <3>1. /\ act[maxHeap[p]] \in Nat /\ act[maxHeap[p \div 2]] \in Nat
          /\ act'[maxHeap[p \div 2]] \in Nat
      BY <2>3, <2>4
    <3> QED BY <2>4, <2>5, <3>1
  <2>6. ASSUME i > 1, NEW p \in 2..maxHeapLast, p \div 2 = i
        PROVE  act'[maxHeap[p]] <= act'[maxHeap[i \div 2]]
    <3>1. i \in 2..maxHeapLast
      BY <1>5, <2>6
    <3>2. /\ act'[maxHeap[p]] = act[maxHeap[p]] /\ act[maxHeap[p]] <= act[maxHeap[i]]
          /\ act[maxHeap[i]] <= act[maxHeap[i \div 2]]
          /\ act[maxHeap[i \div 2]] <= act'[maxHeap[i \div 2]]
      BY <2>4, <2>6, <3>1
    <3>3. /\ act[maxHeap[p]] \in Nat /\ act[maxHeap[i]] \in Nat
          /\ act[maxHeap[i \div 2]] \in Nat /\ act'[maxHeap[i \div 2]] \in Nat
      BY <2>3, <2>4, <2>6, <3>1
    <3> QED BY <3>2, <3>3
  <2>7. i = 0 => Ordered(maxHeap, act', maxHeapLast)
    BY <2>5 DEF Ordered
  <2>8. i # 0 => UpOrdered(maxHeap, act', maxHeapLast, i)
    BY <2>5, <2>6 DEF UpOrdered, Around
  <2> QED BY <2>7, <2>8
<1>9. Matched(Heap, Position, maxHeapLast)' /\ InHeap' = InHeap
  BY <1>1, <1>2, <1>6 DEF InHeap
<1> QED BY <1>4, <1>7, <1>8, <1>9 DEF IInv

LEMMA InflateBonusIInv ==
    ASSUME IInv, InflateBonus
    PROVE  IInv' /\ InHeap' = InHeap
<1>1. \A b, f \in Nat \ {0} : b * f \in Nat \ {0}
  OBVIOUS
<1>2. scoreBonus' \in Nat \ {0}
  BY <1>1, HeapAssumption DEF InflateBonus, IInv, TypeOK
<1>3. /\ UNCHANGED <<maxHeap, heapPositions, act, maxHeapLast, nTimes, pc, node, pos, result>>
      /\ Heap' = Heap /\ Position' = Position
  BY DEF InflateBonus, Heap, Position
<1> QED BY <1>2, <1>3 DEF IInv, TypeOK, UnderWay, OrderInv, InHeap
-----------------------------------------------------------------------------
LEMMA StutterIInv ==
    ASSUME IInv, UNCHANGED vars
    PROVE  IInv' /\ InHeap' = InHeap
<1>1. Heap' = Heap /\ Position' = Position
  BY DEF vars, Heap, Position
<1> QED BY <1>1 DEF vars, IInv, TypeOK, UnderWay, OrderInv, InHeap

LEMMA NextIInv == IInv /\ [Next]_vars => IInv'
<1> SUFFICES ASSUME IInv, [Next]_vars PROVE IInv'
  OBVIOUS
<1>1. CASE PercolateUp
  BY <1>1, PercolateUpIInv
<1>2. CASE Sink
  BY <1>2, SinkIInv
<1>3. CASE RemoveMaxEmpty \/ UNCHANGED vars
  BY <1>3, StutterIInv DEF RemoveMaxEmpty
<1>4. CASE RemoveMax
  BY <1>4, RemoveMaxIInv
<1>5. ASSUME NEW elem \in Elems, InsertElement(elem) PROVE IInv'
  BY <1>5, InsertElementIInv
<1>6. ASSUME NEW elem \in Elems, IncreaseScore(elem) PROVE IInv'
  BY <1>6, IncreaseScoreIInv
<1>7. CASE InflateBonus
  BY <1>7, InflateBonusIInv
<1> QED BY <1>1, <1>2, <1>3, <1>4, <1>5, <1>6, <1>7 DEF Next
-----------------------------------------------------------------------------
\* The types of the variables hold in every state: scores and the bonus stay natural
\* numbers and no position exceeds the number of elements.
THEOREM TypeCorrect == Spec => []TypeOK
<1>1. IInv => TypeOK
  BY DEF IInv
<1> QED BY <1>1, InitIInv, NextIInv, PTL DEF Spec

\* For every number of elements: entries and positions agree in every state, also while
\* an element percolates or sinks; no variable is lost or twice in the heap.
THEOREM PlacesAgree == Spec => []PositionsMatch
<1>1. IInv => PositionsMatch
  BY DEF IInv, TypeOK, Matched, PositionsMatch
<1> QED BY <1>1, InitIInv, NextIInv, PTL DEF Spec

\* For every number of elements and every bonus: the heap is in order between calls
\* until scores are rescaled for the first time.
THEOREM HeapInOrder == Spec => []HeapOrdered
<1>1. IInv => HeapOrdered
  <2> SUFFICES ASSUME IInv, pc = "ready", nTimes = 0,
                      NEW p \in 2..maxHeapLast
               PROVE  Score(p) <= Score(p \div 2)
    BY DEF HeapOrdered
  <2> QED BY Ready DEF Ordered, Score
<1> QED BY <1>1, InitIInv, NextIInv, PTL DEF Spec
-----------------------------------------------------------------------------
(* The heap implements the queue of VarQueue. *)

LEMMA InitQueue == Init => Queue!Init
<1> SUFFICES ASSUME Init PROVE Queue!Init
  OBVIOUS
<1>1. Position = heapPositions
  BY DEF Init, Position
<1>2. \A e \in Elems : Position[e] = e /\ e # 0
  BY <1>1 DEF Init, Elems
<1> QED BY <1>2 DEF Init, Queue!Init, Queue!Elems, Elems

LEMMA QueueStep == IInv /\ [Next]_vars => [Queue!Next]_(Queue!vars)
<1> SUFFICES ASSUME IInv, [Next]_vars PROVE Queue!Next \/ UNCHANGED Queue!vars
  OBVIOUS
<1>1. IInv' /\ TypeOK /\ TypeOK' /\ Queue!Elems = Elems
  BY NextIInv DEF IInv, Queue!Elems, Elems
<1>2. ASSUME PercolateUp \/ Sink PROVE Queue!HandOver \/ UNCHANGED Queue!vars
  <2>1. InHeap' = InHeap
    BY <1>2, PercolateUpIInv, SinkIInv
  <2>2. UNCHANGED <<act, nTimes>> /\ (result' = 0 \/ result' = result)
    BY <1>2 DEF PercolateUp, Sink, Settle
  <2> QED BY <2>1, <2>2 DEF InHeap, Queue!HandOver, Queue!vars
<1>3. ASSUME RemoveMaxEmpty \/ InflateBonus \/ UNCHANGED vars PROVE UNCHANGED Queue!vars
  <2>1. InHeap' = InHeap
    BY <1>3, StutterIInv, InflateBonusIInv DEF RemoveMaxEmpty
  <2> QED BY <1>3, <2>1 DEF RemoveMaxEmpty, InflateBonus, vars, InHeap, Queue!vars
<1>4. ASSUME RemoveMax, NEW top \in Elems, top = maxHeap[1] PROVE Queue!Serve(top)
  <2>1. /\ Matched(maxHeap, heapPositions, maxHeapLast)
        /\ nTimes = 0 => Ordered(maxHeap, act, maxHeapLast)
        /\ Heap = maxHeap /\ Position = heapPositions
    BY <1>4, Ready DEF RemoveMax
  <2>2. /\ maxHeapLast \in 1..NumElems /\ 1 \in 1..maxHeapLast /\ 1 \in Places
        /\ maxHeap \in [Places -> Elems] /\ act \in [Elems -> Nat]
    BY <1>1, <1>4, HeapAssumption, SMTT(30) DEF RemoveMax, TypeOK, Places
  <2>3. heapPositions[top] = 1
    BY <1>4, <2>1, <2>2 DEF Matched
  <2>4. nTimes = 0 => \A e \in InHeap : act[e] <= act[top]
    <3> SUFFICES ASSUME nTimes = 0, NEW e \in InHeap PROVE act[e] <= act[top]
      OBVIOUS
    <3>1. heapPositions[e] \in 1..maxHeapLast /\ maxHeap[heapPositions[e]] = e
      BY <1>1, <2>1 DEF InHeap, Matched, TypeOK
    <3> QED BY <1>4, <2>1, <2>2, <3>1, RootIsHighest
  <2>5. nTimes > 0 \/ nTimes = 0
    BY <1>1 DEF TypeOK
  <2>6. InHeap' = InHeap \ {top} /\ result' = top /\ UNCHANGED <<act, nTimes>>
    BY <1>4, RemoveMaxIInv DEF RemoveMax
  <2>7. top \in InHeap
    BY <1>4, <2>1, <2>3 DEF InHeap
  <2> QED BY <2>3, <2>4, <2>5, <2>6, <2>7 DEF Queue!Serve, Queue!IsHighest, InHeap
<1>5. ASSUME NEW elem \in Elems, InsertElement(elem) PROVE Queue!Insert(elem)
  <2>1. InHeap' = InHeap \cup {elem}
    BY <1>5, InsertElementIInv
  <2> QED BY <1>5, <2>1 DEF InsertElement, InHeap, Queue!Insert
<1>6. ASSUME NEW elem \in Elems, IncreaseScore(elem)
      PROVE  Queue!Raise(elem) \/ Queue!Rescale
  <2>1. /\ InHeap' = InHeap
        /\ \/ nTimes' = nTimes /\ act' = [act EXCEPT ![elem] = @ + scoreBonus]
           \/ nTimes' = nTimes + 1
    BY <1>6, IncreaseScoreIInv
  <2>2. result' = result
    BY <1>6 DEF IncreaseScore
  <2>3. CASE nTimes' = nTimes /\ act' = [act EXCEPT ![elem] = @ + scoreBonus]
    <3>1. act'[elem] > act[elem] /\ \A f \in Elems \ {elem} : act'[f] = act[f]
      BY <1>1, <2>3 DEF TypeOK
    <3>2. act' \in [Elems -> Nat]
      BY <1>1 DEF TypeOK
    <3> QED BY <1>1, <2>1, <2>2, <2>3, <3>1, <3>2 DEF Queue!Raise, InHeap
  <2>4. CASE nTimes' = nTimes + 1
    <3>1. nTimes' > 0 /\ act' \in [Elems -> Nat]
      BY <1>1, <2>4 DEF TypeOK
    <3> QED BY <1>1, <2>1, <2>2, <3>1 DEF Queue!Rescale, InHeap
  <2> QED BY <2>1, <2>3, <2>4
<1>7. \A e \in Elems : Queue!Serve(e) \/ Queue!Insert(e) \/ Queue!Raise(e) => Queue!Next
  BY <1>1 DEF Queue!Next
<1>8. Queue!HandOver \/ Queue!Rescale => Queue!Next
  BY DEF Queue!Next
<1>9. ASSUME NEW elem \in Elems, InsertElement(elem) \/ IncreaseScore(elem) PROVE Queue!Next
  BY <1>5, <1>6, <1>7, <1>8, <1>9
<1>10. CASE RemoveMax
  <2>1. maxHeap[1] \in Elems
    BY <1>1, <1>10, HeapAssumption DEF RemoveMax, TypeOK, Places
  <2>2. PICK top \in Elems : top = maxHeap[1]
    BY <2>1
  <2> QED BY <1>4, <1>7, <1>10, <2>2
<1>11. CASE PercolateUp \/ Sink
  BY <1>2, <1>8, <1>11
<1>12. CASE RemoveMaxEmpty \/ InflateBonus \/ UNCHANGED vars
  BY <1>3, <1>12
<1>13. CASE \E elem \in Elems : InsertElement(elem) \/ IncreaseScore(elem)
  BY <1>9, <1>13
<1> QED BY <1>10, <1>11, <1>12, <1>13 DEF Next

\* The heap implements the queue VarQueue describes, for every number of elements and
\* every bonus: remove_max serves an element of highest score until scores have been
\* rescaled, and a member, each as often as it was put in, after that.
THEOREM ImplementsQueue == Spec => ServesHighest
<1>1. Spec => [](IInv)
  BY InitIInv, NextIInv, PTL DEF Spec
<1> QED BY <1>1, InitQueue, QueueStep, PTL DEF Spec, ServesHighest, Queue!Spec
=============================================================================
