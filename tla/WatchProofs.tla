----------------------------- MODULE WatchProofs -----------------------------
(***************************************************************************)
(* The linked lists of module WatchLists stay lists, for any number of     *)
(* variables, clauses and lemmas.                                          *)
(***************************************************************************)
EXTENDS WatchLists, FiniteSetTheorems, TLAPS

\* A set of natural numbers has a smallest element: no initial segment is shorter.
LEMMA HasSmallest ==
    ASSUME NEW S \in SUBSET Nat, S # {}
    PROVE  \E m \in S : \A k \in S : m <= k
<1> DEFINE T == {0..k : k \in S}
<1>1. T \subseteq FiniteSubsetsOf(Nat)
  <2> SUFFICES ASSUME NEW k \in S PROVE 0..k \in FiniteSubsetsOf(Nat)
    OBVIOUS
  <2>1. IsFiniteSet(0..k)
    BY FS_Interval
  <2> QED BY <2>1 DEF FiniteSubsetsOf
<1>2. PICK t \in T : \A u \in T : ~(<<u, t>> \in StrictSubsetOrdering(Nat))
  <2>1. T # {}
    OBVIOUS
  <2>2. IsWellFoundedOn(StrictSubsetOrdering(Nat), FiniteSubsetsOf(Nat))
    BY FS_StrictSubsetOrderingWellFounded
  <2> HIDE DEF T
  <2> QED BY <1>1, <2>1, <2>2, WFMin
<1>3. PICK m \in S : t = 0..m
  OBVIOUS
<1>4. ASSUME NEW k \in S PROVE m <= k
  <2>1. ~(<<0..k, 0..m>> \in StrictSubsetOrdering(Nat))
    BY <1>2, <1>3
  <2>2. ~(0..k \subseteq 0..m /\ 0..k # 0..m)
    BY <2>1 DEF StrictSubsetOrdering
  <2>3. CASE k < m
    <3>1. m \in 0..m /\ m \notin 0..k /\ 0..k \subseteq 0..m
      BY <2>3
    <3> QED BY <3>1, <2>2
  <2> QED BY <2>3
<1> QED BY <1>4

\* A bounded set of them has a largest element.
LEMMA HasLargest ==
    ASSUME NEW n \in Nat, NEW S \in SUBSET (0..n), S # {}
    PROVE  \E m \in S : \A k \in S : k <= m
<1> DEFINE T == {n - k : k \in S}
<1>1. T \in SUBSET Nat /\ T # {}
  <2>1. \A k \in S : k \in Nat /\ k <= n
    OBVIOUS
  <2>2. \A k \in S : n - k \in Nat
    BY <2>1
  <2> QED BY <2>2
<1>2. PICK t \in T : \A u \in T : t <= u
  <2> HIDE DEF T
  <2> QED BY <1>1, HasSmallest
<1>3. PICK m \in S : t = n - m
  OBVIOUS
<1>4. \A k \in S : n - m <= n - k
  BY <1>2, <1>3
<1>5. \A k \in S : k \in Nat
  OBVIOUS
<1>6. \A k \in S : k <= m
  BY <1>4, <1>5
<1> QED BY <1>6
-----------------------------------------------------------------------------

WalkType == [lit : Lits \cup {ZeroLit}, cur : Nat, link : [id : Nat, slot : Nat]]

TypeOK ==
    /\ thcdb \in Seq(ThClause)
    /\ watches \in [Lits -> Nat]
    /\ walk \in WalkType

TwoWatches == \A id \in Ids : thcdb[id].lwatch[1] # thcdb[id].lwatch[2]

\* What is stored at an address, seen as a link of the list of l.
Stored(l, link) == IF link = HeadLink THEN watches[l]
                                      ELSE thcdb[link.id].nextWatched[link.slot]

\* The current clause is in the list that is walked through, and the address is that of
\* the list's link to it.
LinkGood ==
    IF Idle THEN walk = NoWalk
    ELSE /\ walk.link # HeadLink => /\ walk.link.id \in Watching(walk.lit)
                                    /\ walk.link.slot = Slot(walk.link.id, walk.lit)
         /\ Stored(walk.lit, walk.link) = walk.cur

IInv == TypeOK /\ TwoWatches /\ ListsIntact /\ LinkGood
-----------------------------------------------------------------------------
(* Lists *)

\* A list that is taken over as it is, if there may be more clauses by now.
LEMMA SameList ==
    ASSUME NEW n \in Nat, NEW k \in {n, n + 1}, NEW S \in SUBSET (1..n),
           NEW h, NEW f, IsList(1..n, S, h, f),
           NEW g, \A i \in S : g[i] = f[i]
    PROVE  IsList(1..k, S, h, g)
<1>1. PICK rank \in Ranks(1..n) : \A i \in S : f[i] # 0 => rank[f[i]] < rank[i]
  BY DEF IsList
<1> DEFINE r == [i \in 1..k |-> IF i = n + 1 THEN n + 1 ELSE rank[i]]
<1>2. \A i \in 1..n : rank[i] \in 1..n
  BY <1>1 DEF Ranks
<1>3. r \in Ranks(1..k)
  <2>1. r \in [1..k -> 1..k]
    BY <1>2
  <2>2. ASSUME NEW i \in 1..k, NEW j \in 1..k, i # j PROVE r[i] # r[j]
    <3>1. i # n + 1 => i \in 1..n
      OBVIOUS
    <3>2. j # n + 1 => j \in 1..n
      OBVIOUS
    <3>3. CASE i # n + 1 /\ j # n + 1
      <4>1. rank[i] # rank[j]
        BY <1>1, <2>2, <3>1, <3>2, <3>3 DEF Ranks
      <4> QED BY <3>3, <4>1
    <3>4. CASE i = n + 1
      BY <1>2, <2>2, <3>2, <3>4
    <3>5. CASE j = n + 1
      BY <1>2, <2>2, <3>1, <3>5
    <3> QED BY <3>3, <3>4, <3>5
  <2> QED BY <2>1, <2>2 DEF Ranks
<1>4. \A i \in S : g[i] # 0 => r[g[i]] < r[i]
  <2> SUFFICES ASSUME NEW i \in S, g[i] # 0 PROVE r[g[i]] < r[i]
    OBVIOUS
  <2>1. f[i] \in S /\ g[i] = f[i] /\ rank[f[i]] < rank[i]
    BY <1>1 DEF IsList
  <2>2. f[i] \in 1..n /\ i \in 1..n
    BY <2>1
  <2>3. r[f[i]] = rank[f[i]] /\ r[i] = rank[i]
    BY <2>2
  <2> QED BY <2>1, <2>3
<1> HIDE DEF r
<1> QED BY <1>3, <1>4 DEF IsList

\* The link that led to x leads on.
LeadsPast(S, x, h, f, k, g) ==
    /\ k = IF h = x THEN f[x] ELSE h
    /\ \A i \in S \ {x} : g[i] = IF f[i] = x THEN f[x] ELSE f[i]

\* A member is taken out.
LEMMA TakeOut ==
    ASSUME NEW n \in Nat, NEW S \in SUBSET (1..n), NEW x \in S,
           NEW h, NEW f, IsList(1..n, S, h, f),
           NEW k, NEW g, LeadsPast(S, x, h, f, k, g)
    PROVE  IsList(1..n, S \ {x}, k, g)
<1>0. /\ k = IF h = x THEN f[x] ELSE h
      /\ \A i \in S \ {x} : g[i] = IF f[i] = x THEN f[x] ELSE f[i]
  BY DEF LeadsPast
<1> USE <1>0
<1>1. PICK rank \in Ranks(1..n) : \A i \in S : f[i] # 0 => rank[f[i]] < rank[i]
  BY DEF IsList
<1>2. \A i \in 1..n : rank[i] \in 1..n
  BY <1>1 DEF Ranks
<1>3. \A i \in S : f[i] \in S \cup {0} /\ f[i] # i
  BY <1>1, <1>2 DEF IsList
<1>4. \A i \in S \ {x} : g[i] # 0 => rank[g[i]] < rank[i]
  <2> SUFFICES ASSUME NEW i \in S \ {x}, g[i] # 0 PROVE rank[g[i]] < rank[i]
    OBVIOUS
  <2>1. CASE f[i] = x
    <3>1. rank[f[x]] < rank[x] /\ rank[x] < rank[i] /\ g[i] = f[x]
      BY <1>1, <2>1
    <3>2. f[x] \in S
      BY <1>3, <2>1
    <3>3. rank[f[x]] \in Nat /\ rank[x] \in Nat /\ rank[i] \in Nat
      <4>1. f[x] \in 1..n /\ x \in 1..n /\ i \in 1..n
        BY <3>2
      <4> QED BY <1>2, <4>1
    <3> QED BY <3>1, <3>3
  <2>2. CASE f[i] # x
    BY <1>1, <2>2
  <2> QED BY <2>1, <2>2
<1>5. k \in (S \ {x}) \cup {0}
  BY <1>3 DEF IsList
<1>6. \A i \in S \ {x} : g[i] \in (S \ {x}) \cup {0}
  BY <1>3
<1>7. \A i \in S \ {x} : k # i => \E j \in S \ {x} : g[j] = i
  <2> SUFFICES ASSUME NEW i \in S \ {x}, k # i PROVE \E j \in S \ {x} : g[j] = i
    OBVIOUS
  <2>1. CASE h = i
    BY <2>1
  <2>2. CASE h # i
    <3>1. PICK j \in S : f[j] = i
      BY <2>2 DEF IsList
    <3>2. CASE j # x
      BY <3>1, <3>2
    <3>3. CASE j = x
      <4>1. h # x
        BY <3>1, <3>3
      <4>2. PICK y \in S : f[y] = x
        BY <4>1 DEF IsList
      <4> QED BY <1>3, <3>1, <3>3, <4>2
    <3> QED BY <3>2, <3>3
  <2> QED BY <2>1, <2>2
<1>8. \A i \in S \ {x} : g[i] # k \/ k = 0
  BY <1>3 DEF IsList
<1>9. \A i, j \in S \ {x} : g[i] = g[j] => i = j \/ g[i] = 0
  BY <1>3 DEF IsList
<1> QED BY <1>1, <1>4, <1>5, <1>6, <1>7, <1>8, <1>9 DEF IsList

\* Putting x in at the head; x may be a new clause.
LEMMA PutIn ==
    ASSUME NEW n \in Nat, NEW m \in {n, n + 1}, NEW S \in SUBSET (1..n),
           NEW x \in (1..m) \ S, m = n + 1 => x = m,
           NEW h, NEW f, IsList(1..n, S, h, f),
           NEW g, g[x] = h, \A i \in S : g[i] = f[i]
    PROVE  IsList(1..m, S \cup {x}, x, g)
<1>1. IsList(1..m, S, h, g)
  BY SameList
<1>2. PICK rank \in Ranks(1..m) : \A i \in S : g[i] # 0 => rank[g[i]] < rank[i]
  BY <1>1 DEF IsList
<1> DEFINE r == [i \in 1..m |-> IF i = x THEN m
                               ELSE IF rank[i] > rank[x] THEN rank[i] - 1 ELSE rank[i]]
<1>3. \A i \in 1..m : rank[i] \in 1..m
  BY <1>2 DEF Ranks
<1>4. \A i, j \in 1..m : i # j => rank[i] # rank[j]
  BY <1>2 DEF Ranks
<1>5. \A i \in (1..m) \ {x} : r[i] \in 1..m /\ r[i] < m
  BY <1>3, <1>4
<1>6. r \in Ranks(1..m)
  <2>1. r \in [1..m -> 1..m]
    BY <1>5
  <2>2. ASSUME NEW i \in 1..m, NEW j \in 1..m, i # j PROVE r[i] # r[j]
    BY <1>3, <1>4, <1>5, <2>2
  <2> QED BY <2>1, <2>2 DEF Ranks
<1>7. h \in S \cup {0} /\ \A i \in S : g[i] \in S \cup {0}
  BY <1>1 DEF IsList
<1>8. \A i \in S \cup {x} : g[i] # 0 => r[g[i]] < r[i]
  <2> SUFFICES ASSUME NEW i \in S \cup {x}, g[i] # 0 PROVE r[g[i]] < r[i]
    OBVIOUS
  <2>0. g[x] = h /\ S \subseteq (1..m) \ {x}
    OBVIOUS
  <2>1. g[i] \in S /\ g[i] \in (1..m) \ {x} /\ i \in 1..m
    BY <1>7, <2>0
  <2>2. CASE i = x
    BY <1>5, <2>1, <2>2
  <2>3. CASE i # x
    <3>1. rank[g[i]] < rank[i]
      BY <1>2, <2>3
    <3>2. rank[g[i]] # rank[x] /\ rank[i] # rank[x]
      BY <1>4, <2>1, <2>3
    <3> QED BY <1>3, <2>1, <2>3, <3>1, <3>2, SMTT(30)
  <2> QED BY <2>2, <2>3
<1>9. /\ \A i \in S : h # i => \E j \in S : g[j] = i
      /\ \A i \in S : g[i] # h \/ h = 0
      /\ \A i, j \in S : g[i] = g[j] => i = j \/ g[i] = 0
  BY <1>1 DEF IsList
<1>10. \A i \in S \cup {x} : x # i => \E j \in S \cup {x} : g[j] = i
  BY <1>9
<1>11. \A i \in S \cup {x} : g[i] # x \/ x = 0
  BY <1>7
<1>12. \A i, j \in S \cup {x} : g[i] = g[j] => i = j \/ g[i] = 0
  BY <1>9
<1> HIDE DEF r
<1> QED BY <1>6, <1>7, <1>8, <1>10, <1>11, <1>12 DEF IsList

\* Clauses linked in one after the other: each leads to the last one before it.
LEMMA MakeList ==
    ASSUME NEW n \in Nat, NEW S \in SUBSET (1..n),
           NEW h \in S \cup {0}, \A i \in S : i <= h,
           NEW g, \A i \in S : g[i] \in S \cup {0} /\ g[i] < i,
           \A i, j \in S : j < i => j <= g[i]
    PROVE  IsList(1..n, S, h, g)
<1>1. \A i \in S : i \in Nat /\ i >= 1 /\ g[i] \in Nat /\ g[i] < i
  <2>1. \A i \in S : i \in Nat /\ i >= 1
    OBVIOUS
  <2>2. ASSUME NEW i \in S PROVE g[i] \in Nat
    <3>1. CASE g[i] = 0
      BY <3>1
    <3>2. CASE g[i] \in S
      BY <2>1, <3>2
    <3> QED BY <2>2, <3>1, <3>2
  <2> QED BY <2>1, <2>2
<1>2. h \in Nat
  BY <1>1
<1>3. \A i \in S : h # i => \E j \in S : g[j] = i
  <2> SUFFICES ASSUME NEW i \in S, h # i PROVE \E j \in S : g[j] = i
    OBVIOUS
  <2> DEFINE above == {j \in S : i < j}
  <2>1. h \in above
    BY <1>1, <1>2
  <2>2. PICK j \in above : \A k \in above : j <= k
    <3>1. above \in SUBSET Nat
      BY <1>1
    <3> HIDE DEF above
    <3> QED BY <2>1, <3>1, HasSmallest
  <2>3. g[j] \in S /\ i <= g[j]
    <3>1. i <= g[j]
      BY <2>2
    <3> QED BY <1>1, <3>1, <2>2
  <2>4. ~(i < g[j])
    BY <1>1, <2>2, <2>3
  <2> QED BY <1>1, <2>2, <2>3, <2>4
<1>4. \A i \in S : g[i] # h \/ h = 0
  BY <1>1, <1>2
<1>5. \A i, j \in S : g[i] = g[j] => i = j \/ g[i] = 0
  <2> SUFFICES ASSUME NEW i \in S, NEW j \in S, g[i] = g[j], j < i PROVE g[i] = 0
    BY <1>1
  <2> QED BY <1>1
<1>6. [i \in 1..n |-> i] \in Ranks(1..n)
  BY DEF Ranks
<1>7. \A i \in S : g[i] # 0 => [j \in 1..n |-> j][g[i]] < [j \in 1..n |-> j][i]
  BY <1>1
<1> QED BY <1>3, <1>4, <1>5, <1>6, <1>7 DEF IsList

LEMMA LastBeforeFacts ==
    ASSUME NEW unlinked, NEW i \in Nat \ {0}, NEW l
    PROVE  LET before == {j \in 1..(i - 1) : l \in Watched(unlinked[j])}
               last == LastBefore(unlinked, i, l)
           IN  last \in before \cup {0} /\ \A k \in before : k <= last
<1> DEFINE before == {j \in 1..(i - 1) : l \in Watched(unlinked[j])}
<1>1. \E j \in before \cup {0} : \A k \in before : k <= j
  <2>1. CASE before = {}
    BY <2>1
  <2>2. CASE before # {}
    <3>1. before \in SUBSET (0..(i - 1)) /\ i - 1 \in Nat
      OBVIOUS
    <3> HIDE DEF before
    <3> QED BY <2>2, <3>1, HasLargest
  <2> QED BY <2>1, <2>2
<1> QED BY <1>1 DEF LastBefore

LEMMA LinkedIsList ==
    ASSUME NEW unlinked, NEW n \in Nat, NEW l,
           NEW S, S = {i \in 1..n : l \in Watched(unlinked[i])},
           NEW h, h = LastBefore(unlinked, n + 1, l),
           NEW g, \A i \in S : g[i] = LastBefore(unlinked, i, l)
    PROVE  IsList(1..n, S, h, g)
<1>1. h \in S \cup {0} /\ \A i \in S : i <= h
  <2>1. n + 1 \in Nat \ {0} /\ 1..(n + 1 - 1) = 1..n
    OBVIOUS
  <2> QED BY <2>1, LastBeforeFacts
<1>2. ASSUME NEW i \in S
      PROVE  g[i] \in S \cup {0} /\ g[i] < i /\ \A j \in S : j < i => j <= g[i]
  <2> DEFINE before == {j \in 1..(i - 1) : l \in Watched(unlinked[j])}
  <2>1. i \in Nat \ {0} /\ i \in 1..n
    OBVIOUS
  <2>2. g[i] \in before \cup {0} /\ \A k \in before : k <= g[i]
    BY <2>1, LastBeforeFacts
  <2>3. \A j \in S : j < i => j \in before
    BY <2>1
  <2>4. before \subseteq S /\ \A j \in before : j < i
    BY <2>1
  <2> HIDE DEF before
  <2>5. g[i] \in S \cup {0}
    BY <2>2, <2>4
  <2>6. g[i] < i
    <3>1. g[i] = 0 => g[i] < i
      BY <2>1
    <3> QED BY <2>2, <2>4, <3>1
  <2> QED BY <2>2, <2>3, <2>5, <2>6
<1>3. S \in SUBSET (1..n)
  OBVIOUS
<1> QED BY <1>1, <1>2, <1>3, MakeList
-----------------------------------------------------------------------------
(* The clauses and the walk *)

LEMMA WatchedBoth == \A t : Watched(t) = {t.lwatch[1], t.lwatch[2]}
BY DEF Watched, Slots

LEMMA ClauseTypes ==
    ASSUME NEW t \in ThClause
    PROVE  /\ t.lits \subseteq Lits
           /\ t.lwatch \in [Slots -> Lits] /\ t.nextWatched \in [Slots -> Nat]
           /\ t.lwatch[1] \in Lits /\ t.lwatch[2] \in Lits
           /\ t.nextWatched[1] \in Nat /\ t.nextWatched[2] \in Nat
           /\ Watched(t) \subseteq Lits
BY WatchedBoth DEF ThClause, Slots

LEMMA SlotFacts ==
    ASSUME TypeOK, TwoWatches, NEW l, NEW id \in Watching(l)
    PROVE  /\ id \in Ids /\ thcdb[id] \in ThClause
           /\ Slot(id, l) \in Slots
           /\ thcdb[id].lwatch[Slot(id, l)] = l
           /\ \A s \in Slots : thcdb[id].lwatch[s] = l => s = Slot(id, l)
BY WatchedBoth DEF TypeOK, TwoWatches, Watching, Slot, Slots, Ids

LEMMA IdsAreNumbers ==
    ASSUME TypeOK
    PROVE  /\ Len(thcdb) \in Nat /\ Ids = 1..Len(thcdb)
           /\ \A i \in Ids : thcdb[i] \in ThClause
           /\ \A l : Watching(l) \in SUBSET (1..Len(thcdb))
BY DEF TypeOK, Ids, Watching

LEMMA NeverToItself ==
    ASSUME NEW n \in Nat, NEW S \in SUBSET (1..n), NEW h, NEW f, IsList(1..n, S, h, f),
           NEW i \in S
    PROVE  f[i] # i
<1>1. PICK rank \in Ranks(1..n) : f[i] # 0 => rank[f[i]] < rank[i]
  BY DEF IsList
<1>2. i \in 1..n /\ i # 0 /\ rank[i] \in 1..n
  BY <1>1 DEF Ranks
<1> QED BY <1>1, <1>2

\* A walk is in its list.
LEMMA WalkInList ==
    ASSUME IInv, AtClause
    PROVE  /\ walk.lit \in Lits
           /\ walk.cur \in Watching(walk.lit)
           /\ IsList(1..Len(thcdb), Watching(walk.lit), watches[walk.lit], Nexts(walk.lit))
<1>1. walk.lit \in Lits
  BY DEF IInv, TypeOK, WalkType, AtClause
<1>2. IsList(1..Len(thcdb), Watching(walk.lit), watches[walk.lit], Nexts(walk.lit))
  BY <1>1, IdsAreNumbers DEF IInv, ListsIntact
<1>3. walk.cur \in Watching(walk.lit) \cup {0}
  <2>1. Stored(walk.lit, walk.link) = walk.cur
    BY DEF IInv, LinkGood, AtClause, Idle
  <2>2. CASE walk.link = HeadLink
    BY <1>2, <2>1, <2>2 DEF Stored, IsList
  <2>3. CASE walk.link # HeadLink
    <3>1. walk.link.id \in Watching(walk.lit) /\ walk.link.slot = Slot(walk.link.id, walk.lit)
      BY <2>3 DEF IInv, LinkGood, AtClause, Idle
    <3>2. Nexts(walk.lit)[walk.link.id] = walk.cur
      BY <2>1, <2>3, <3>1 DEF Stored, Nexts, NextOf
    <3> QED BY <1>2, <3>1, <3>2 DEF IsList
  <2> QED BY <2>2, <2>3
<1> QED BY <1>1, <1>2, <1>3 DEF AtClause
-----------------------------------------------------------------------------
(* The actions *)

\* Steps that leave the lists alone.
LEMMA ListsAlone ==
    ASSUME IInv, UNCHANGED <<thcdb, watches>>
    PROVE  /\ thcdb' \in Seq(ThClause) /\ watches' \in [Lits -> Nat]
           /\ TwoWatches' /\ ListsIntact'
           /\ \A l : Watching(l)' = Watching(l)
           /\ \A i, l : Slot(i, l)' = Slot(i, l)
           /\ \A l, link : Stored(l, link)' = Stored(l, link)
<1>1. \A l : Watching(l)' = Watching(l)
  BY DEF Watching, Ids
<1>2. \A l : Nexts(l)' = Nexts(l)
  BY <1>1 DEF Nexts, NextOf, Slot
<1>3. ListsIntact'
  BY <1>1, <1>2 DEF IInv, ListsIntact, Ids
<1>4. \A l, link : Stored(l, link)' = Stored(l, link)
  BY DEF Stored
<1>5. \A i, l : Slot(i, l)' = Slot(i, l)
  BY DEF Slot
<1>6. TwoWatches'
  BY DEF IInv, TwoWatches, Ids
<1> QED BY <1>1, <1>3, <1>4, <1>5, <1>6 DEF IInv, TypeOK

LEMMA StartWalkIInv ==
    ASSUME IInv, NEW l \in Lits, StartWalk(l)
    PROVE  IInv'
<1>1. ListsIntact' /\ TwoWatches' /\ thcdb' \in Seq(ThClause) /\ watches' \in [Lits -> Nat]
  BY ListsAlone DEF StartWalk
<1>2. walk' \in WalkType
  BY DEF StartWalk, WalkType, HeadLink, IInv, TypeOK
<1>3. LinkGood'
  <2>1. l # ZeroLit
    BY DEF Lits, ZeroLit
  <2>2. walk'.lit = l /\ walk'.link = HeadLink /\ walk'.cur = watches'[l]
    BY DEF StartWalk
  <2> QED BY <2>1, <2>2 DEF LinkGood, Idle, Stored
<1> QED BY <1>1, <1>2, <1>3 DEF IInv, TypeOK

LEMMA EndWalkIInv ==
    ASSUME IInv, EndWalk
    PROVE  IInv'
<1>1. ListsIntact' /\ TwoWatches' /\ thcdb' \in Seq(ThClause) /\ watches' \in [Lits -> Nat]
  BY ListsAlone DEF EndWalk
<1>2. walk' \in WalkType /\ LinkGood'
  BY DEF EndWalk, NoWalk, WalkType, HeadLink, LinkGood, Idle
<1> QED BY <1>1, <1>2 DEF IInv, TypeOK

LEMMA PassIInv ==
    ASSUME IInv, Pass
    PROVE  IInv'
<1> DEFINE s == Slot(walk.cur, walk.lit)
<1>1. /\ ListsIntact' /\ TwoWatches' /\ thcdb' \in Seq(ThClause) /\ watches' \in [Lits -> Nat]
      /\ \A l : Watching(l)' = Watching(l)
      /\ \A i, l : Slot(i, l)' = Slot(i, l)
  BY ListsAlone DEF Pass
<1>2. /\ walk.lit \in Lits /\ walk.cur \in Watching(walk.lit)
      /\ walk.cur \in Nat /\ walk.cur # 0
      /\ s \in Slots /\ thcdb[walk.cur].nextWatched[s] \in Nat
  <2>1. walk.lit \in Lits /\ walk.cur \in Watching(walk.lit)
    BY WalkInList DEF Pass
  <2>2. thcdb[walk.cur] \in ThClause /\ s \in Slots
    BY <2>1, SlotFacts DEF IInv
  <2>3. thcdb[walk.cur].nextWatched[s] \in Nat
    BY <2>2, ClauseTypes
  <2> QED BY <2>1, <2>2, <2>3 DEF IInv, TypeOK, WalkType, Pass, AtClause
<1>3. walk' = [lit |-> walk.lit, cur |-> thcdb[walk.cur].nextWatched[s],
               link |-> [id |-> walk.cur, slot |-> s]]
  <2>1. walk \in WalkType
    BY DEF IInv, TypeOK
  <2> HIDE DEF s
  <2>2. walk' = [walk EXCEPT !.cur = thcdb[walk.cur].nextWatched[s],
                             !.link = [id |-> walk.cur, slot |-> s]]
    BY DEF Pass, s
  <2> QED BY <2>1, <2>2 DEF WalkType
<1> HIDE DEF s
<1>4. /\ walk' \in WalkType
      /\ walk'.lit = walk.lit /\ walk'.cur = thcdb[walk.cur].nextWatched[s]
      /\ walk'.link.id = walk.cur /\ walk'.link.slot = s
  BY <1>2, <1>3 DEF WalkType, Slots
<1>5. LinkGood'
  <2>1. walk'.link # HeadLink
    BY <1>2, <1>4 DEF HeadLink
  <2>2. ~Idle'
    BY <1>2, <1>4 DEF Idle, Lits, ZeroLit
  <2>3. Stored(walk.lit, walk.link)' = walk'.cur
    BY <1>4, <2>1 DEF Stored, Pass
  <2>4. walk'.link.id \in Watching(walk.lit)' /\ walk'.link.slot = Slot(walk.link.id, walk.lit)'
    BY <1>1, <1>2, <1>4 DEF s
  <2> QED BY <2>1, <2>2, <2>3, <2>4 DEF LinkGood
<1> QED BY <1>1, <1>4, <1>5 DEF IInv, TypeOK

\* One field of one clause is overwritten.
LEMMA SetClause ==
    ASSUME NEW T, NEW c \in Seq(T), NEW i \in DOMAIN c, NEW t \in T,
           NEW d, d = [c EXCEPT ![i] = t]
    PROVE  /\ d \in Seq(T) /\ Len(d) = Len(c) /\ DOMAIN d = DOMAIN c
           /\ d[i] = t /\ \A j \in DOMAIN c : j # i => d[j] = c[j]
OBVIOUS

LEMMA SetNext ==
    ASSUME NEW c \in Seq(ThClause), NEW i \in DOMAIN c, NEW s \in Slots, NEW v \in Nat,
           NEW d, d = [c EXCEPT ![i].nextWatched[s] = v]
    PROVE  /\ d \in Seq(ThClause) /\ Len(d) = Len(c) /\ DOMAIN d = DOMAIN c
           /\ d[i].nextWatched = [c[i].nextWatched EXCEPT ![s] = v]
           /\ d[i].lwatch = c[i].lwatch
           /\ \A j \in DOMAIN c : j # i => d[j] = c[j]
<1> DEFINE t == [c[i] EXCEPT !.nextWatched = [c[i].nextWatched EXCEPT ![s] = v]]
<1>1. c[i] \in ThClause
  OBVIOUS
<1>2. /\ t \in ThClause /\ t.nextWatched = [c[i].nextWatched EXCEPT ![s] = v]
      /\ t.lwatch = c[i].lwatch
  BY <1>1 DEF ThClause
<1>3. d = [c EXCEPT ![i] = t]
  OBVIOUS
<1> HIDE DEF t
<1>4. /\ d \in Seq(ThClause) /\ Len(d) = Len(c) /\ DOMAIN d = DOMAIN c
      /\ d[i] = t /\ \A j \in DOMAIN c : j # i => d[j] = c[j]
  <2>1. \A e : e = [c EXCEPT ![i] = t] =>
          /\ e \in Seq(ThClause) /\ Len(e) = Len(c) /\ DOMAIN e = DOMAIN c
          /\ e[i] = t /\ \A j \in DOMAIN c : j # i => e[j] = c[j]
    BY <1>2, SetClause
  <2> QED BY <1>3, <2>1
<1> QED BY <1>2, <1>4

LEMMA ReselectIInv ==
    ASSUME IInv, NEW k \in Lits, Reselect(k)
    PROVE  IInv'
<1>0. PICK L, id, from, n : /\ L = walk.lit /\ id = walk.cur /\ from = walk.link
                           /\ n = Len(thcdb)
  OBVIOUS
<1> USE <1>0
<1> DEFINE s == Slot(id, L)
           next == thcdb[id].nextWatched[s]
<1>1. /\ L \in Lits /\ id \in Watching(L) /\ AtClause
      /\ IsList(1..n, Watching(L), watches[L], Nexts(L))
  BY WalkInList, Zenon DEF Reselect
<1>2. /\ n \in Nat /\ Ids = 1..n
      /\ \A i \in Ids : thcdb[i] \in ThClause
      /\ \A l : Watching(l) \in SUBSET (1..n)
  BY IdsAreNumbers DEF IInv
<1>3. /\ id \in Ids /\ s \in Slots /\ thcdb[id].lwatch[s] = L
      /\ next \in Nat /\ next = Nexts(L)[id]
  BY <1>1, <1>2, SlotFacts, ClauseTypes DEF IInv, Nexts, NextOf
<1>4. k \notin Watched(thcdb[id]) /\ k # L /\ id \notin Watching(k)
  BY <1>1, Zenon DEF Reselect, Watching
<1>5. /\ watches \in [Lits -> Nat] /\ watches[k] \in Nat
      /\ thcdb \in Seq(ThClause) /\ walk \in WalkType
  BY DEF IInv, TypeOK
<1> DEFINE moved == [thcdb EXCEPT ![id].lwatch[s] = k, ![id].nextWatched[s] = watches[k]]
<1>6. /\ moved \in Seq(ThClause) /\ Len(moved) = n /\ DOMAIN moved = Ids
      /\ moved[id].lwatch = [thcdb[id].lwatch EXCEPT ![s] = k]
      /\ moved[id].nextWatched = [thcdb[id].nextWatched EXCEPT ![s] = watches[k]]
      /\ \A j \in Ids : j # id => moved[j] = thcdb[j]
  <2>1. thcdb \in Seq(ThClause) /\ id \in DOMAIN thcdb /\ s \in Slots /\ k \in Lits
    BY <1>3, <1>5 DEF Ids
  <2> DEFINE t == [thcdb[id] EXCEPT
                     !.lwatch = [thcdb[id].lwatch EXCEPT ![s] = k],
                     !.nextWatched = [thcdb[id].nextWatched EXCEPT ![s] = watches[k]]]
  <2> HIDE DEF s
  <2>2. thcdb[id] \in ThClause
    BY <1>2, <1>3
  <2>3. /\ t \in ThClause /\ t.lwatch = [thcdb[id].lwatch EXCEPT ![s] = k]
        /\ t.nextWatched = [thcdb[id].nextWatched EXCEPT ![s] = watches[k]]
    BY <1>5, <2>1, <2>2 DEF ThClause
  <2>4. moved = [thcdb EXCEPT ![id] = t]
    BY <2>1, <2>2 DEF ThClause
  <2> HIDE DEF t, moved
  <2>5. \A e : e = [thcdb EXCEPT ![id] = t] =>
          /\ e \in Seq(ThClause) /\ Len(e) = Len(thcdb) /\ DOMAIN e = DOMAIN thcdb
          /\ e[id] = t /\ \A j \in DOMAIN thcdb : j # id => e[j] = thcdb[j]
    BY <2>1, <2>3, SetClause
  <2> QED BY <2>3, <2>4, <2>5 DEF Ids
<1>7. /\ Stored(L, from) = id /\ id # 0
      /\ from # HeadLink => /\ from.id \in Watching(L) /\ from.slot = Slot(from.id, L)
                            /\ Nexts(L)[from.id] = id /\ from.id # id
  <2>1. /\ Stored(L, from) = id /\ id # 0
        /\ from # HeadLink => from.id \in Watching(L) /\ from.slot = Slot(from.id, L)
    BY <1>1 DEF IInv, LinkGood, AtClause, Idle
  <2>2. from # HeadLink => Nexts(L)[from.id] = id
    BY <2>1 DEF Stored, Nexts, NextOf
  <2>3. from # HeadLink => from.id # id
    BY <1>1, <1>2, <2>1, <2>2, NeverToItself
  <2> QED BY <2>1, <2>2, <2>3
<1>8. \A i \in Watching(L) : Nexts(L)[i] = id => from # HeadLink /\ i = from.id
  <2>1. \A i \in Watching(L) : Nexts(L)[i] # watches[L] \/ watches[L] = 0
    BY <1>1 DEF IsList
  <2>2. \A i, j \in Watching(L) : Nexts(L)[i] = Nexts(L)[j] => i = j \/ Nexts(L)[i] = 0
    BY <1>1 DEF IsList
  <2> QED BY <1>7, <2>1, <2>2 DEF Stored
<1>9. (from = HeadLink) <=> (watches[L] = id)
  <2>1. \A i \in Watching(L) : Nexts(L)[i] # watches[L] \/ watches[L] = 0
    BY <1>1 DEF IsList
  <2> QED BY <1>7, <2>1 DEF Stored
<1>10. /\ thcdb' = IF from = HeadLink THEN moved
                   ELSE [moved EXCEPT ![from.id].nextWatched[from.slot] = next]
       /\ watches' = IF from = HeadLink THEN [watches EXCEPT ![L] = next, ![k] = id]
                     ELSE [watches EXCEPT ![k] = id]
       /\ walk' = [walk EXCEPT !.cur = next]
  BY Zenon DEF Reselect
<1>11. /\ watches' \in [Lits -> Nat] /\ watches'[k] = id
       /\ watches'[L] = IF watches[L] = id THEN next ELSE watches[L]
       /\ \A l \in Lits \ {L, k} : watches'[l] = watches[l]
  <2>1. id \in Nat
    BY <1>2, <1>3
  <2> HIDE DEF next, moved
  <2> QED BY <1>1, <1>3, <1>4, <1>5, <1>9, <1>10, <2>1
<1>12. /\ thcdb' \in Seq(ThClause) /\ Len(thcdb') = n /\ DOMAIN thcdb' = Ids
       /\ thcdb'[id].lwatch = [thcdb[id].lwatch EXCEPT ![s] = k]
       /\ \A j \in Ids \ {id} : thcdb'[j].lwatch = thcdb[j].lwatch
       /\ \A q \in Slots : thcdb'[id].nextWatched[q] =
                              IF q = s THEN watches[k] ELSE thcdb[id].nextWatched[q]
       /\ \A j \in Ids \ {id} : \A q \in Slots : thcdb'[j].nextWatched[q] =
             IF from # HeadLink /\ j = from.id /\ q = from.slot THEN next
             ELSE thcdb[j].nextWatched[q]
  <2>1. \A j \in Ids : /\ moved[j] \in ThClause
                       /\ moved[j].nextWatched \in [Slots -> Nat]
                       /\ thcdb[j].nextWatched \in [Slots -> Nat]
    <3>1. \A j \in Ids : moved[j] \in ThClause
      <4> HIDE DEF moved
      <4> QED BY <1>6
    <3> QED BY <1>2, <3>1, ClauseTypes
  <2>2. CASE from = HeadLink
    <3> HIDE DEF s, next, moved
    <3>1. thcdb' = moved
      BY <1>10, <2>2
    <3> QED BY <1>2, <1>3, <1>6, <2>1, <2>2, <3>1
  <2>3. CASE from # HeadLink
    <3> DEFINE u == [moved EXCEPT ![from.id].nextWatched[from.slot] = next]
    <3>1. /\ from.id \in Ids /\ from.id # id /\ from.slot \in Slots
      <4>1. from.id \in Watching(L)
        BY <1>7, <2>3
      <4> QED BY <1>7, <2>3, <4>1, SlotFacts DEF IInv
    <3> HIDE DEF s, next, moved
    <3>2. /\ moved \in Seq(ThClause) /\ from.id \in DOMAIN moved /\ from.slot \in Slots
          /\ next \in Nat
      BY <1>3, <1>6, <3>1
    <3>3. /\ u \in Seq(ThClause) /\ Len(u) = Len(moved) /\ DOMAIN u = DOMAIN moved
          /\ u[from.id].nextWatched = [moved[from.id].nextWatched EXCEPT ![from.slot] = next]
          /\ u[from.id].lwatch = moved[from.id].lwatch
          /\ \A j \in DOMAIN moved : j # from.id => u[j] = moved[j]
      <4> DEFINE t == [moved[from.id] EXCEPT
                         !.nextWatched = [moved[from.id].nextWatched EXCEPT ![from.slot] = next]]
      <4>1. moved[from.id] \in ThClause
        BY <2>1, <3>1
      <4>2. /\ t \in ThClause /\ t.lwatch = moved[from.id].lwatch
            /\ t.nextWatched = [moved[from.id].nextWatched EXCEPT ![from.slot] = next]
        BY <3>2, <4>1 DEF ThClause
      <4>3. u = [moved EXCEPT ![from.id] = t]
        BY <3>2
      <4> HIDE DEF t, u
      <4>4. \A e : e = [moved EXCEPT ![from.id] = t] =>
              /\ e \in Seq(ThClause) /\ Len(e) = Len(moved) /\ DOMAIN e = DOMAIN moved
              /\ e[from.id] = t /\ \A j \in DOMAIN moved : j # from.id => e[j] = moved[j]
        BY <3>2, <4>2, SetClause
      <4> QED BY <4>2, <4>3, <4>4
    <3>4. thcdb' = u
      BY <1>10, <2>3
    <3> HIDE DEF u
    <3>5. thcdb'[id] = moved[id]
      BY <1>3, <1>6, <3>1, <3>3, <3>4
    <3>6. \A j \in Ids \ {id} : j # from.id => thcdb'[j] = thcdb[j]
      BY <1>6, <3>3, <3>4
    <3>7. /\ thcdb'[from.id].lwatch = thcdb[from.id].lwatch
          /\ thcdb'[from.id].nextWatched = [thcdb[from.id].nextWatched EXCEPT ![from.slot] = next]
      BY <1>6, <3>1, <3>3, <3>4
    <3>8. \A q \in Slots : thcdb'[id].nextWatched[q] =
                              IF q = s THEN watches[k] ELSE thcdb[id].nextWatched[q]
      BY <1>3, <1>6, <2>1, <3>5
    <3>9. \A q \in Slots : thcdb'[from.id].nextWatched[q] =
                              IF q = from.slot THEN next ELSE thcdb[from.id].nextWatched[q]
      BY <2>1, <3>1, <3>7
    <3>10. /\ thcdb' \in Seq(ThClause) /\ Len(thcdb') = n /\ DOMAIN thcdb' = Ids
           /\ thcdb'[id].lwatch = [thcdb[id].lwatch EXCEPT ![s] = k]
      BY <1>6, <3>3, <3>4, <3>5
    <3>11. ASSUME NEW j \in Ids \ {id}
           PROVE  /\ thcdb'[j].lwatch = thcdb[j].lwatch
                  /\ \A q \in Slots : thcdb'[j].nextWatched[q] =
                       IF from # HeadLink /\ j = from.id /\ q = from.slot THEN next
                       ELSE thcdb[j].nextWatched[q]
      <4>1. CASE j = from.id
        BY <2>3, <3>7, <3>9, <4>1
      <4>2. CASE j # from.id
        BY <3>6, <4>2
      <4> QED BY <4>1, <4>2
    <3> QED BY <3>8, <3>10, <3>11
  <2> QED BY <2>2, <2>3
<1> HIDE DEF moved
<1>13. /\ TwoWatches'
       /\ \A i \in Ids \ {id} : \A l : Slot(i, l)' = Slot(i, l)
       /\ Slot(id, k)' = s
       /\ \A l : l # k /\ l # L /\ l \in Watched(thcdb[id]) => Slot(id, l)' = Slot(id, l)
       /\ \A l : l # k /\ l # L => Watching(l)' = Watching(l)
       /\ Watching(L)' = Watching(L) \ {id}
       /\ Watching(k)' = Watching(k) \cup {id}
  <2>1. Ids' = Ids
    BY <1>12 DEF Ids
  <2>2. \A j \in Ids \ {id} : \A l : Slot(j, l)' = Slot(j, l)
    BY <1>12 DEF Slot
  <2>3. \A j \in Ids \ {id} : Watched(thcdb[j])' = Watched(thcdb[j])
    BY <1>12 DEF Watched
  <2>4. /\ thcdb[id].lwatch \in [Slots -> Lits]
        /\ thcdb[id].lwatch[1] # thcdb[id].lwatch[2]
        /\ Watched(thcdb[id]) = {thcdb[id].lwatch[1], thcdb[id].lwatch[2]}
        /\ Watched(thcdb[id])' = {thcdb[id].lwatch[1], thcdb[id].lwatch[2]}'
    BY <1>2, <1>3, ClauseTypes, WatchedBoth DEF IInv, TwoWatches, Watched, Slots
  <2>5. s \in {1, 2}
    BY <1>3 DEF Slots
  <2>6. \A q \in {1, 2} : thcdb'[id].lwatch[q] = IF q = s THEN k ELSE thcdb[id].lwatch[q]
    BY <1>12, <2>4 DEF Slots
  <2> HIDE DEF s
  <2>7. thcdb'[id].lwatch[1] # thcdb'[id].lwatch[2]
    BY <1>4, <2>4, <2>5, <2>6
  <2>8. Watched(thcdb[id])' = (Watched(thcdb[id]) \ {L}) \cup {k}
    BY <1>3, <2>4, <2>5, <2>6
  <2>9. Slot(id, k)' = s
    BY <1>4, <2>4, <2>5, <2>6 DEF Slot
  <2>10. \A l : l # k /\ l # L /\ l \in Watched(thcdb[id]) => Slot(id, l)' = Slot(id, l)
    BY <1>3, <2>4, <2>5, <2>6 DEF Slot
  <2>11. TwoWatches'
    BY <1>12, <2>1, <2>7, ZenonT(40) DEF IInv, TwoWatches
  <2>12. \A l : Watching(l)' = {j \in Ids : l \in Watched(thcdb[j])'}
    BY <2>1 DEF Watching
  <2>13. \A l : l # k /\ l # L => Watching(l)' = Watching(l)
    BY <2>3, <2>8, <2>12 DEF Watching
  <2>14. Watching(L)' = Watching(L) \ {id}
    BY <1>4, <2>3, <2>8, <2>12 DEF Watching
  <2>15. Watching(k)' = Watching(k) \cup {id}
    BY <1>3, <1>4, <2>3, <2>8, <2>12 DEF Watching
  <2> QED BY <2>2, <2>9, <2>10, <2>11, <2>13, <2>14, <2>15
<1>14. \A l : \A i \in Watching(l)' : Nexts(l)'[i] = thcdb'[i].nextWatched[Slot(i, l)']
  BY DEF Nexts, NextOf
<1>15. \A l : \A i \in Watching(l) : /\ Nexts(l)[i] = thcdb[i].nextWatched[Slot(i, l)]
                                     /\ i \in Ids /\ Slot(i, l) \in Slots
                                     /\ thcdb[i].lwatch[Slot(i, l)] = l
  BY SlotFacts DEF IInv, Nexts, NextOf
<1>16. ASSUME NEW l, l # k, l # L, NEW i \in Watching(l)
       PROVE  Nexts(l)'[i] = Nexts(l)[i]
  <2>1. Slot(i, l)' = Slot(i, l)
    BY <1>13, <1>16 DEF Watching
  <2>2. CASE i = id
    <3>1. Slot(i, l) # s
      BY <1>3, <1>15, <1>16, <2>2
    <3> QED BY <1>12, <1>13, <1>14, <1>15, <1>16, <2>1, <2>2, <3>1
  <2>3. CASE i # id
    <3>1. ~(from # HeadLink /\ i = from.id /\ Slot(i, l) = from.slot)
      BY <1>7, <1>15, <1>16
    <3> QED BY <1>12, <1>13, <1>14, <1>15, <1>16, <2>1, <2>3, <3>1
  <2> QED BY <2>2, <2>3
<1>17. \A i \in Watching(L) \ {id} :
          Nexts(L)'[i] = IF Nexts(L)[i] = id THEN next ELSE Nexts(L)[i]
  <2> SUFFICES ASSUME NEW i \in Watching(L) \ {id}
               PROVE  Nexts(L)'[i] = IF Nexts(L)[i] = id THEN next ELSE Nexts(L)[i]
    OBVIOUS
  <2>1. Nexts(L)'[i] = thcdb'[i].nextWatched[Slot(i, L)] /\ i \in Ids \ {id}
    BY <1>13, <1>14, <1>15
  <2>2. CASE from # HeadLink /\ i = from.id
    BY <1>7, <1>12, <1>15, <2>1, <2>2
  <2>3. CASE ~(from # HeadLink /\ i = from.id)
    BY <1>8, <1>12, <1>15, <2>1, <2>3
  <2> QED BY <2>2, <2>3
<1>18. /\ Nexts(k)'[id] = watches[k]
       /\ \A i \in Watching(k) : Nexts(k)'[i] = Nexts(k)[i]
  <2>1. Nexts(k)'[id] = watches[k]
    BY <1>3, <1>12, <1>13, <1>14
  <2>2. ASSUME NEW i \in Watching(k) PROVE Nexts(k)'[i] = Nexts(k)[i]
    <3>1. i # id /\ i \in Ids /\ Nexts(k)'[i] = thcdb'[i].nextWatched[Slot(i, k)]
      BY <1>4, <1>13, <1>14, <1>15
    <3>2. ~(from # HeadLink /\ i = from.id /\ Slot(i, k) = from.slot)
      BY <1>4, <1>7, <1>15
    <3> QED BY <1>12, <1>15, <3>1, <3>2
  <2> QED BY <2>1, <2>2
<1>19. ListsIntact'
  <2>1. Ids' = 1..n
    BY <1>2, <1>12 DEF Ids
  <2> SUFFICES ASSUME NEW l \in Lits
               PROVE  IsList(1..n, Watching(l)', watches'[l], Nexts(l)')
    BY <2>1 DEF ListsIntact
  <2>2. /\ Watching(l) \in SUBSET (1..n)
        /\ IsList(1..n, Watching(l), watches[l], Nexts(l))
    BY <1>2 DEF IInv, ListsIntact
  <2>3. CASE l = L
    <3>1. watches'[L] = IF watches[L] = id THEN Nexts(L)[id] ELSE watches[L]
      BY <1>3, <1>11
    <3>2. \A i \in Watching(L) \ {id} :
             Nexts(L)'[i] = IF Nexts(L)[i] = id THEN Nexts(L)[id] ELSE Nexts(L)[i]
      BY <1>3, <1>17
    <3>3. LeadsPast(Watching(L), id, watches[L], Nexts(L), watches'[L], Nexts(L)')
      BY <3>1, <3>2 DEF LeadsPast
    <3>4. IsList(1..n, Watching(L) \ {id}, watches'[L], Nexts(L)')
      BY <1>1, <1>2, <3>3, TakeOut
    <3> QED BY <1>13, <2>3, <3>4
  <2>4. CASE l = k
    <3>1. id \in (1..n) \ Watching(k) /\ n \in Nat /\ n \in {n, n + 1} /\ n # n + 1
      BY <1>2, <1>3, <1>4
    <3>2. IsList(1..n, Watching(k) \cup {id}, id, Nexts(k)')
      BY <1>18, <2>2, <2>4, <3>1, PutIn
    <3> QED BY <1>11, <1>13, <2>4, <3>2
  <2>5. CASE l # L /\ l # k
    <3>1. watches'[l] = watches[l] /\ Watching(l)' = Watching(l)
      BY <1>11, <1>13, <2>5
    <3>2. \A i \in Watching(l) : Nexts(l)'[i] = Nexts(l)[i]
      BY <1>16, <2>5
    <3>3. IsList(1..n, Watching(l), watches[l], Nexts(l)')
      BY <1>2, <2>2, <3>2, SameList
    <3> QED BY <3>1, <3>3
  <2> QED BY <2>3, <2>4, <2>5
<1>20. walk' \in WalkType /\ LinkGood'
  <2>1. walk' \in WalkType /\ walk'.lit = L /\ walk'.link = from /\ walk'.cur = next
    <3> HIDE DEF next
    <3> QED BY <1>3, <1>5, <1>10 DEF WalkType
  <2>2. ~Idle'
    BY <1>1, <2>1 DEF Idle, Lits, ZeroLit
  <2>3. CASE from = HeadLink
    <3>1. watches'[L] = next
      BY <1>9, <1>11, <2>3
    <3> QED BY <2>1, <2>2, <2>3, <3>1 DEF LinkGood, Stored
  <2>4. CASE from # HeadLink
    <3>1. from.id \in Watching(L)' /\ from.slot = Slot(from.id, L)'
      BY <1>7, <1>13, <2>4 DEF Watching
    <3>2. thcdb'[from.id].nextWatched[from.slot] = next
      <4>1. from.id \in Ids \ {id} /\ from.slot \in Slots
        BY <1>7, <1>15, <2>4
      <4> QED BY <1>12, <2>4, <4>1
    <3> QED BY <2>1, <2>2, <2>4, <3>1, <3>2 DEF LinkGood, Stored
  <2> QED BY <2>1, <2>3, <2>4
<1> QED BY <1>11, <1>12, <1>13, <1>19, <1>20 DEF IInv, TypeOK

LEMMA InsertThClauseIInv ==
    ASSUME IInv, NEW c \in Lemmas, NEW l1 \in c, NEW l2 \in c, l1 # l2,
           InsertThClause(c, l1, l2)
    PROVE  IInv'
<1>0. PICK n : n = Len(thcdb)
  OBVIOUS
<1> DEFINE t == [lits |-> c,
                 lwatch |-> [s \in Slots |-> IF s = 1 THEN l1 ELSE l2],
                 nextWatched |-> [s \in Slots |-> watches[IF s = 1 THEN l1 ELSE l2]]]
<1>1. /\ n \in Nat /\ Ids = 1..n
      /\ \A l : Watching(l) \in SUBSET (1..n)
      /\ thcdb \in Seq(ThClause) /\ watches \in [Lits -> Nat]
  BY <1>0, IdsAreNumbers DEF IInv, TypeOK
<1>2. l1 \in Lits /\ l2 \in Lits /\ c \subseteq Lits
  BY ClausesAssumption
<1>3. /\ t \in ThClause /\ t.lwatch[1] = l1 /\ t.lwatch[2] = l2
      /\ t.nextWatched[1] = watches[l1] /\ t.nextWatched[2] = watches[l2]
  <2>1. watches[l1] \in Nat /\ watches[l2] \in Nat
    BY <1>1, <1>2
  <2> QED BY <1>2, <2>1 DEF ThClause, Slots
<1>4. thcdb' = Append(thcdb, t)
  BY DEF InsertThClause
<1>5. /\ walk' = NoWalk /\ watches' = [watches EXCEPT ![l1] = n + 1, ![l2] = n + 1]
  BY <1>0 DEF InsertThClause, IInv, LinkGood
<1> HIDE DEF t
<1>6. /\ thcdb' \in Seq(ThClause) /\ Ids' = 1..(n + 1)
      /\ thcdb'[n + 1] = t /\ \A i \in 1..n : thcdb'[i] = thcdb[i]
  BY <1>0, <1>1, <1>3, <1>4 DEF Ids
<1>7. /\ \A i \in 1..n : \A l : Slot(i, l)' = Slot(i, l)
      /\ Slot(n + 1, l1)' = 1 /\ Slot(n + 1, l2)' = 2
  <2>1. (n + 1)' = n + 1
    OBVIOUS
  <2> QED BY <1>3, <1>6, <2>1 DEF Slot
<1>8. TwoWatches'
  <2>1. \A i \in 1..n : thcdb'[i].lwatch[1] # thcdb'[i].lwatch[2]
    BY <1>1, <1>6 DEF IInv, TwoWatches
  <2>2. \A i \in 1..(n + 1) : i \in 1..n \/ i = n + 1
    BY <1>1
  <2> QED BY <1>3, <1>6, <2>1, <2>2 DEF TwoWatches
<1>9. /\ Watching(l1)' = Watching(l1) \cup {n + 1} /\ Watching(l2)' = Watching(l2) \cup {n + 1}
      /\ \A l : l # l1 /\ l # l2 => Watching(l)' = Watching(l)
  <2>1. Watched(t) = {l1, l2}
    BY <1>3, WatchedBoth
  <2>2. Watched(thcdb[n + 1])' = {l1, l2} /\ \A i \in 1..n : Watched(thcdb[i])' = Watched(thcdb[i])
    BY <1>6, <2>1 DEF Watched
  <2>3. 1..(n + 1) = (1..n) \cup {n + 1}
    BY <1>1
  <2>4. \A l : Watching(l)' = {i \in 1..(n + 1) : l \in Watched(thcdb[i])'}
    BY <1>6 DEF Watching
  <2>5. \A l : Watching(l) = {i \in 1..n : l \in Watched(thcdb[i])}
    BY <1>1 DEF Watching
  <2> QED BY <2>2, <2>3, <2>4, <2>5
<1>10. /\ \A l : \A i \in Watching(l) : Nexts(l)'[i] = Nexts(l)[i]
       /\ \A l \in {l1, l2} : Nexts(l)'[n + 1] = watches[l]
  <2>1. \A l : \A i \in Watching(l)' : Nexts(l)'[i] = thcdb'[i].nextWatched[Slot(i, l)']
    BY DEF Nexts, NextOf
  <2>2. \A l : \A i \in Watching(l) : /\ i \in 1..n
                                      /\ Nexts(l)[i] = thcdb[i].nextWatched[Slot(i, l)]
    BY <1>1 DEF Nexts, NextOf
  <2>3. \A l : Watching(l) \subseteq Watching(l)'
    BY <1>9
  <2>4. \A l : \A i \in Watching(l) : Nexts(l)'[i] = Nexts(l)[i]
    BY <1>6, <1>7, <2>1, <2>2, <2>3
  <2>5. Nexts(l1)'[n + 1] = watches[l1] /\ Nexts(l2)'[n + 1] = watches[l2]
    BY <1>3, <1>6, <1>7, <1>9, <2>1
  <2> QED BY <2>4, <2>5
<1>11. /\ watches' \in [Lits -> Nat] /\ watches'[l1] = n + 1 /\ watches'[l2] = n + 1
       /\ \A l \in Lits : l # l1 /\ l # l2 => watches'[l] = watches[l]
  BY <1>1, <1>2, <1>5
<1>12. ListsIntact'
  <2> SUFFICES ASSUME NEW l \in Lits
               PROVE  IsList(1..(n + 1), Watching(l)', watches'[l], Nexts(l)')
    BY <1>6 DEF ListsIntact
  <2>1. /\ Watching(l) \in SUBSET (1..n)
        /\ IsList(1..n, Watching(l), watches[l], Nexts(l))
        /\ \A i \in Watching(l) : Nexts(l)'[i] = Nexts(l)[i]
    BY <1>1, <1>10 DEF IInv, ListsIntact
  <2>2. CASE l \in {l1, l2}
    <3>1. /\ n + 1 \in (1..(n + 1)) \ Watching(l) /\ n + 1 \in {n, n + 1}
          /\ Nexts(l)'[n + 1] = watches[l]
      BY <1>1, <1>10, <2>2
    <3>2. PICK m : m = n + 1
      OBVIOUS
    <3>3. IsList(1..m, Watching(l) \cup {m}, m, Nexts(l)')
      BY <1>1, <2>1, <3>1, <3>2, PutIn
    <3> QED BY <1>9, <1>11, <2>2, <3>2, <3>3
  <2>3. CASE l \notin {l1, l2}
    <3>1. watches'[l] = watches[l] /\ Watching(l)' = Watching(l)
      BY <1>9, <1>11, <2>3
    <3>2. PICK m : m = n + 1
      OBVIOUS
    <3>3. IsList(1..m, Watching(l), watches[l], Nexts(l)')
      BY <1>1, <2>1, <3>2, SameList
    <3> QED BY <3>1, <3>2, <3>3
  <2> QED BY <2>2, <2>3
<1>13. walk' \in WalkType /\ LinkGood'
  BY <1>5 DEF NoWalk, WalkType, HeadLink, LinkGood, Idle
<1> QED BY <1>6, <1>8, <1>11, <1>12, <1>13 DEF IInv, TypeOK

\* Clauses, each with two different watched literals, and lists of them.
Unlinked(n, unlinked) ==
    /\ DOMAIN unlinked = 1..n /\ Len(unlinked) = n
    /\ \A i \in 1..n : /\ unlinked[i].lits \subseteq Lits
                       /\ unlinked[i].lwatch \in [Slots -> Lits]
                       /\ unlinked[i].lwatch[1] # unlinked[i].lwatch[2]
InLists(n, c, w) ==
    /\ c \in Seq(ThClause) /\ DOMAIN c = 1..n /\ w \in [Lits -> Nat]
    /\ \A i \in 1..n : c[i].lwatch[1] # c[i].lwatch[2]
    /\ \A l \in Lits :
         LET S == {i \in 1..n : l \in Watched(c[i])}
         IN  IsList(1..n, S, w[l],
                    [i \in S |-> c[i].nextWatched[IF c[i].lwatch[1] = l THEN 1 ELSE 2]])

LEMMA LinkedFacts ==
    ASSUME NEW n \in Nat, NEW unlinked, Unlinked(n, unlinked)
    PROVE  InLists(n, Linked(unlinked), Heads(unlinked))
<1>0. PICK c, w : c = Linked(unlinked) /\ w = Heads(unlinked)
  OBVIOUS
<1> USE <1>0 DEF Unlinked
<1>1. \A l : \A i \in 1..(n + 1) : LastBefore(unlinked, i, l) \in Nat
  <2> SUFFICES ASSUME NEW l, NEW i \in 1..(n + 1) PROVE LastBefore(unlinked, i, l) \in Nat
    OBVIOUS
  <2> DEFINE before == {j \in 1..(i - 1) : l \in Watched(unlinked[j])}
  <2>1. LastBefore(unlinked, i, l) \in before \cup {0}
    BY LastBeforeFacts
  <2>2. \A j \in before : j \in Nat
    OBVIOUS
  <2> HIDE DEF before
  <2>3. CASE LastBefore(unlinked, i, l) \in before
    BY <2>2, <2>3
  <2>4. CASE LastBefore(unlinked, i, l) = 0
    BY <2>4
  <2> QED BY <2>1, <2>3, <2>4
<1>2. ASSUME NEW i \in 1..n
      PROVE  /\ c[i] \in ThClause /\ c[i].lwatch = unlinked[i].lwatch
             /\ \A s \in Slots : c[i].nextWatched[s] =
                                   LastBefore(unlinked, i, unlinked[i].lwatch[s])
  <2>1. c[i] = [lits |-> unlinked[i].lits, lwatch |-> unlinked[i].lwatch,
                nextWatched |-> [s \in Slots |-> LastBefore(unlinked, i, unlinked[i].lwatch[s])]]
    BY DEF Linked
  <2>2. \A s \in Slots : LastBefore(unlinked, i, unlinked[i].lwatch[s]) \in Nat
    BY <1>1
  <2> QED BY <2>1, <2>2 DEF ThClause
<1>3. DOMAIN c = 1..n /\ c \in Seq(ThClause)
  <2>1. c = [i \in 1..n |-> c[i]]
    BY DEF Linked
  <2> QED BY <1>2, <2>1
<1>4. \A l \in Lits : w[l] = LastBefore(unlinked, n + 1, l)
  BY DEF Heads
<1>5. w \in [Lits -> Nat]
  <2>1. \A l : LastBefore(unlinked, n + 1, l) \in Nat
    BY <1>1
  <2> QED BY <2>1 DEF Heads
<1>6. ASSUME NEW l \in Lits, NEW S, S = {i \in 1..n : l \in Watched(c[i])}, NEW g,
             g = [i \in S |-> c[i].nextWatched[IF c[i].lwatch[1] = l THEN 1 ELSE 2]]
      PROVE  IsList(1..n, S, w[l], g)
  <2>1. \A i \in 1..n : Watched(c[i]) = Watched(unlinked[i])
    BY <1>2 DEF Watched
  <2>2. S = {i \in 1..n : l \in Watched(unlinked[i])}
    BY <1>6, <2>1
  <2>3. ASSUME NEW i \in S PROVE g[i] = LastBefore(unlinked, i, l)
    <3>1. i \in 1..n /\ l \in Watched(c[i]) /\ Watched(c[i]) = {c[i].lwatch[1], c[i].lwatch[2]}
      BY <1>6, WatchedBoth
    <3>2. PICK s \in Slots : s = IF c[i].lwatch[1] = l THEN 1 ELSE 2
      BY DEF Slots
    <3>3. unlinked[i].lwatch[s] = l
      BY <1>2, <3>1, <3>2
    <3>4. g[i] = c[i].nextWatched[s]
      BY <1>6, <3>2
    <3> QED BY <1>2, <3>1, <3>3, <3>4
  <2> QED BY <1>4, <2>2, <2>3, LinkedIsList
<1>7. InLists(n, c, w)
  BY <1>2, <1>3, <1>5, <1>6 DEF InLists
<1> QED BY <1>7

LEMMA CompactAndWatchIInv ==
    ASSUME IInv, NEW m \in 0..Len(thcdb), NEW kept \in [1..m -> Ids], CompactAndWatch(kept)
    PROVE  IInv'
<1>1. PICK unlinked : unlinked = [i \in 1..m |-> thcdb[kept[i]]]
  OBVIOUS
<1>2. m \in Nat /\ DOMAIN unlinked = 1..m /\ Len(unlinked) = m
  BY <1>1, IdsAreNumbers DEF IInv
<1>3. \A i \in 1..m : /\ unlinked[i].lits \subseteq Lits
                      /\ unlinked[i].lwatch \in [Slots -> Lits]
                      /\ unlinked[i].lwatch[1] # unlinked[i].lwatch[2]
  <2> SUFFICES ASSUME NEW i \in 1..m
               PROVE  /\ unlinked[i].lits \subseteq Lits
                      /\ unlinked[i].lwatch \in [Slots -> Lits]
                      /\ unlinked[i].lwatch[1] # unlinked[i].lwatch[2]
    OBVIOUS
  <2>1. unlinked[i] = thcdb[kept[i]] /\ kept[i] \in Ids
    BY <1>1
  <2> QED BY <2>1, IdsAreNumbers, ClauseTypes DEF IInv, TwoWatches
<1>4. PICK c, w : c = thcdb' /\ w = watches'
  OBVIOUS
<1>5. c = Linked(unlinked) /\ w = Heads(unlinked) /\ walk' = NoWalk
  BY <1>1, <1>4 DEF CompactAndWatch, IInv, LinkGood
<1>6. InLists(m, c, w)
  <2>1. Unlinked(m, unlinked)
    BY <1>2, <1>3 DEF Unlinked
  <2> QED BY <1>2, <2>1, <1>5, LinkedFacts
<1>7. ListsIntact'
  BY <1>4, <1>6 DEF InLists, ListsIntact, Ids, Watching, Nexts, NextOf, Slot
<1>8. TwoWatches' /\ walk' \in WalkType /\ LinkGood'
  BY <1>4, <1>5, <1>6 DEF InLists, TwoWatches, Ids, NoWalk, WalkType, HeadLink, LinkGood, Idle
<1> QED BY <1>4, <1>6, <1>7, <1>8 DEF InLists, IInv, TypeOK

LEMMA InitIInv ==
    ASSUME Init
    PROVE  IInv
<1>1. PICK unlinked :
        unlinked = [i \in DOMAIN InputClauses |->
                      [lits |-> {InputClauses[i][j] : j \in DOMAIN InputClauses[i]},
                       lwatch |-> [s \in Slots |-> InputClauses[i][s]]]]
  OBVIOUS
<1>2. PICK n \in Nat : n = Len(InputClauses)
  BY ClausesAssumption
<1>3. DOMAIN InputClauses = 1..n /\ DOMAIN unlinked = 1..n /\ Len(unlinked) = n
  BY <1>1, <1>2, ClausesAssumption
<1>4. \A i \in 1..n : /\ unlinked[i].lits \subseteq Lits
                      /\ unlinked[i].lwatch \in [Slots -> Lits]
                      /\ unlinked[i].lwatch[1] # unlinked[i].lwatch[2]
  <2> SUFFICES ASSUME NEW i \in 1..n
               PROVE  /\ unlinked[i].lits \subseteq Lits
                      /\ unlinked[i].lwatch \in [Slots -> Lits]
                      /\ unlinked[i].lwatch[1] # unlinked[i].lwatch[2]
    OBVIOUS
  <2>1. /\ InputClauses[i] \in Seq(Lits) /\ Len(InputClauses[i]) > 3
        /\ InputClauses[i][1] # InputClauses[i][2]
    BY <1>3, ClausesAssumption
  <2>2. /\ DOMAIN InputClauses[i] = 1..Len(InputClauses[i]) /\ Len(InputClauses[i]) \in Nat
        /\ \A j \in DOMAIN InputClauses[i] : InputClauses[i][j] \in Lits
    BY <2>1
  <2>3. 1 \in DOMAIN InputClauses[i] /\ 2 \in DOMAIN InputClauses[i]
    BY <2>1, <2>2
  <2>4. unlinked[i] = [lits |-> {InputClauses[i][j] : j \in DOMAIN InputClauses[i]},
                       lwatch |-> [s \in Slots |-> InputClauses[i][s]]]
    BY <1>1, <1>3
  <2> QED BY <2>1, <2>2, <2>3, <2>4 DEF Slots
<1>5. PICK c, w : c = thcdb /\ w = watches
  OBVIOUS
<1>6. c = Linked(unlinked) /\ w = Heads(unlinked) /\ walk = NoWalk
  BY <1>1, <1>5 DEF Init
<1>7. InLists(n, c, w)
  <2>1. Unlinked(n, unlinked)
    BY <1>3, <1>4 DEF Unlinked
  <2> QED BY <2>1, <1>6, LinkedFacts
<1>8. ListsIntact
  BY <1>5, <1>7 DEF InLists, ListsIntact, Ids, Watching, Nexts, NextOf, Slot
<1>9. TwoWatches /\ walk \in WalkType /\ LinkGood
  BY <1>5, <1>6, <1>7 DEF InLists, TwoWatches, Ids, NoWalk, WalkType, HeadLink, LinkGood, Idle
<1> QED BY <1>5, <1>7, <1>8, <1>9 DEF InLists, IInv, TypeOK
-----------------------------------------------------------------------------
LEMMA NextIInv ==
    ASSUME IInv, [Next]_vars
    PROVE  IInv'
<1>1. ASSUME NEW l \in Lits, StartWalk(l) PROVE IInv'
  BY <1>1, StartWalkIInv
<1>2. ASSUME NEW l \in Lits, Reselect(l) PROVE IInv'
  BY <1>2, ReselectIInv
<1>3. CASE Pass
  BY <1>3, PassIInv
<1>4. CASE EndWalk
  BY <1>4, EndWalkIInv
<1>5. ASSUME NEW c \in Lemmas, NEW l1 \in c, NEW l2 \in c, l1 # l2, InsertThClause(c, l1, l2)
      PROVE  IInv'
  BY <1>5, InsertThClauseIInv
<1>6. ASSUME NEW m \in 0..Len(thcdb), NEW kept \in [1..m -> Ids], CompactAndWatch(kept)
      PROVE  IInv'
  BY <1>6, CompactAndWatchIInv
<1>7. CASE UNCHANGED vars
  <2>1. /\ ListsIntact' /\ TwoWatches' /\ thcdb' \in Seq(ThClause) /\ watches' \in [Lits -> Nat]
        /\ \A l : Watching(l)' = Watching(l)
        /\ \A i, l : Slot(i, l)' = Slot(i, l)
        /\ \A l, link : Stored(l, link)' = Stored(l, link)
    BY <1>7, ListsAlone DEF vars
  <2>2. walk' = walk
    BY <1>7 DEF vars
  <2>3. LinkGood' /\ walk' \in WalkType
    BY <2>1, <2>2 DEF IInv, TypeOK, LinkGood, Idle
  <2> QED BY <2>1, <2>3 DEF IInv, TypeOK
<1> QED BY <1>1, <1>2, <1>3, <1>4, <1>5, <1>6, <1>7 DEF Next

\* However propagation, learning and cleanup relink the clauses, the pointers are lists.
THEOREM ListsStayIntact == Spec => []ListsIntact
<1>1. Init => IInv
  BY InitIInv
<1>2. IInv /\ [Next]_vars => IInv'
  BY NextIInv
<1>3. IInv => ListsIntact
  BY DEF IInv
<1> QED BY <1>1, <1>2, <1>3, PTL DEF Spec

=============================================================================
