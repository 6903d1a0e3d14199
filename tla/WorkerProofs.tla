---------------------------- MODULE WorkerProofs ----------------------------
(***************************************************************************)
(* What follows from a formula, what the operations on the shared database *)
(* and on the lists of a worker keep, and the first half of a worker's     *)
(* round: the units, propagation and the analysis of a conflict keep the   *)
(* invariant of module SolverInvariant.                                    *)
(***************************************************************************)
EXTENDS PropagationInvariant, ModelProofs

(* Clauses that follow *)

\* An assignment makes exactly one of a literal and its negation true.
LEMMA AssignmentLits ==
    ASSUME NEW A \in Assignments
    PROVE  /\ A \subseteq Lits
           /\ \A l \in Lits : l \in A <=> -l \notin A
<1>1. PICK f \in [Vars -> BOOLEAN] : A = {IF f[v] THEN v ELSE -v : v \in Vars}
  BY DEF Assignments, LitsOf
<1>2. \A v \in Vars : v \in Lits /\ -v \in Lits /\ v # -v
  BY NumVarsAssumption DEF Vars, Lits
<1>3. \A l \in Lits : \E v \in Vars : l = v \/ l = -v
  BY NumVarsAssumption DEF Vars, Lits
<1>4. \A u, v \in Vars : u # -v /\ (-u = -v => u = v)
  BY NumVarsAssumption DEF Vars
<1>5. \A v \in Vars : (v \in A <=> f[v]) /\ (-v \in A <=> ~f[v])
  <2> SUFFICES ASSUME NEW v \in Vars
        PROVE  (v \in A <=> f[v]) /\ (-v \in A <=> ~f[v])
    OBVIOUS
  <2>1. v \in A <=> f[v]
    <3>1. ASSUME v \in A PROVE f[v]
      <4>1. PICK u \in Vars : v = (IF f[u] THEN u ELSE -u)
        BY <1>1, <3>1
      <4>2. v = u /\ f[u]
        BY <4>1, <1>4
      <4> QED BY <4>2
    <3> QED BY <1>1, <3>1
  <2>2. -v \in A <=> ~f[v]
    <3>1. ASSUME -v \in A PROVE ~f[v]
      <4>1. PICK u \in Vars : -v = (IF f[u] THEN u ELSE -u)
        BY <1>1, <3>1
      <4>2. -v = -u /\ ~f[u]
        BY <4>1, <1>4
      <4> QED BY <4>2, <1>4
    <3> QED BY <1>1, <3>1
  <2> QED BY <2>1, <2>2
<1>6. A \subseteq Lits
  BY <1>1, <1>2
<1>7. ASSUME NEW l \in Lits PROVE l \in A <=> -l \notin A
  <2>1. PICK v \in Vars : l = v \/ l = -v
    BY <1>3
  <2>2. CASE l = v
    BY <2>2, <1>5
  <2>3. CASE l = -v
    <3>1. -l = v
      BY <2>3 DEF Vars
    <3> QED BY <2>3, <3>1, <1>5
  <2> QED BY <2>1, <2>2, <2>3
<1> QED BY <1>6, <1>7

LEMMA FollowsWider ==
    ASSUME NEW P, NEW c, NEW e, Follows(P, c), c \subseteq e
    PROVE  Follows(P, e)
BY DEF Follows, Satisfies

LEMMA FollowsFromMore ==
    ASSUME NEW P, NEW Q, NEW c, Follows(P, c), P \subseteq Q
    PROVE  Follows(Q, c)
BY DEF Follows, ModelsOf

LEMMA FollowsMember ==
    ASSUME NEW P, NEW c \in P
    PROVE  Follows(P, c)
BY DEF Follows, ModelsOf

LEMMA ModelLits ==
    ASSUME NEW P, NEW A \in ModelsOf(P), NEW l \in Lits
    PROVE  l \in A <=> -l \notin A
BY AssignmentLits DEF ModelsOf

\* Resolution on l.
LEMMA FollowsResolved ==
    ASSUME NEW P, NEW c, NEW e, NEW l \in Lits, Follows(P, c), Follows(P, e)
    PROVE  Follows(P, (c \ {l}) \cup (e \ {-l}))
BY ModelLits DEF Follows, Satisfies

\* Literals whose negation follows can be left out.
LEMMA FollowsWithout ==
    ASSUME NEW P, NEW c, NEW e, Follows(P, c),
           \A k \in c \ e : k \in Lits /\ Follows(P, {-k})
    PROVE  Follows(P, e)
<1> SUFFICES ASSUME NEW A \in ModelsOf(P) PROVE A \cap e # {}
  BY DEF Follows, Satisfies
<1>1. PICK k \in c : k \in A
  BY DEF Follows, Satisfies
<1>2. CASE k \in e
  BY <1>1, <1>2
<1>3. CASE k \notin e
  <2>1. -k \in A
    BY <1>3 DEF Follows, Satisfies
  <2>2. k \in Lits
    BY <1>3
  <2> QED BY <1>1, <2>1, <2>2, ModelLits
<1> QED BY <1>2, <1>3

\* A clause all of whose literals are refuted refutes the formula.
LEMMA AllRefuted ==
    ASSUME NEW P, NEW c, Follows(P, c),
           \A k \in c : k \in Lits /\ Follows(P, {-k})
    PROVE  ModelsOf(P) = {}
<1>1. Follows(P, {})
  BY FollowsWithout
<1> QED BY <1>1 DEF Follows, Satisfies

-----------------------------------------------------------------------------
(* Sequences that list a set *)

\* A finite set of numbers is listed in full and without repetition.
LEMMA InOrderOfLists ==
    ASSUME NEW S \in SUBSET Nat, IsFiniteSet(S), NEW q, q = InOrderOf(S)
    PROVE  q \in Seq(Nat) /\ IsInjective(q) /\ Range(q) = S
<1> DEFINE Upto(i) == {j \in S : j <= i}
<1>1. Cardinality(S) \in Nat
  BY FS_CardinalityType
<1>2. \A i \in S : Rank(S, i) \in 1..Cardinality(S)
  <2> SUFFICES ASSUME NEW i \in S PROVE Rank(S, i) \in 1..Cardinality(S)
    OBVIOUS
  <2>1. Upto(i) \in SUBSET S /\ i \in Upto(i)
    OBVIOUS
  <2>2. IsFiniteSet(Upto(i)) /\ Cardinality(Upto(i)) <= Cardinality(S)
    BY <2>1, FS_Subset
  <2>3. Cardinality(Upto(i)) \in Nat /\ Cardinality(Upto(i)) # 0
    BY <2>1, <2>2, FS_CardinalityType, FS_EmptySet
  <2> QED BY <1>1, <2>2, <2>3 DEF Rank
<1>3. \A i, k \in S : i < k => Rank(S, i) < Rank(S, k)
  <2> SUFFICES ASSUME NEW i \in S, NEW k \in S, i < k
               PROVE  Rank(S, i) < Rank(S, k)
    OBVIOUS
  <2>0. \A j \in S : j <= i => j <= k
    <3>1. \A j \in S : j \in Nat
      OBVIOUS
    <3> QED BY <3>1
  <2>1. Upto(i) \in SUBSET Upto(k) /\ Upto(k) \in SUBSET S
    BY <2>0
  <2>2. k \in Upto(k) /\ k \notin Upto(i)
    OBVIOUS
  <2>3. IsFiniteSet(Upto(k))
    BY <2>1, FS_Subset
  <2>4. Cardinality(Upto(i)) <= Cardinality(Upto(k))
        /\ Cardinality(Upto(k)) # Cardinality(Upto(i))
    BY <2>1, <2>2, <2>3, FS_Subset
  <2> HIDE DEF Upto
  <2>5. Rank(S, i) = Cardinality(Upto(i)) /\ Rank(S, k) = Cardinality(Upto(k))
    BY DEF Rank, Upto
  <2> QED BY <1>2, <2>4, <2>5
<1>4. \A i, k \in S : Rank(S, i) = Rank(S, k) => i = k
  <2> SUFFICES ASSUME NEW i \in S, NEW k \in S, i # k
               PROVE  Rank(S, i) # Rank(S, k)
    OBVIOUS
  <2>1. i < k \/ k < i
    OBVIOUS
  <2> QED BY <1>2, <1>3, <2>1
<1> DEFINE rank == [i \in S |-> Rank(S, i)]
<1>5. rank \in Injection(S, 1..Cardinality(S))
  BY <1>2, <1>4 DEF Injection, IsInjective
<1>6. IsFiniteSet(1..Cardinality(S)) /\ Cardinality(1..Cardinality(S)) = Cardinality(S)
  BY <1>1, FS_Interval
<1>7. rank \in Surjection(S, 1..Cardinality(S))
  <2> HIDE DEF rank
  <2> QED BY <1>5, <1>6, FS_Injection
<1>8. \A n \in 1..Cardinality(S) : \E i \in S : Rank(S, i) = n
  BY <1>7 DEF Surjection
<1>9. \A n \in 1..Cardinality(S) : q[n] \in S /\ Rank(S, q[n]) = n
  BY <1>8 DEF InOrderOf
<1>10. q = [n \in 1..Cardinality(S) |-> q[n]]
  BY DEF InOrderOf
<1>11. q \in [1..Cardinality(S) -> Nat]
  BY <1>9, <1>10
<1>12. q \in Seq(Nat) /\ Len(q) = Cardinality(S) /\ DOMAIN q = 1..Cardinality(S)
  BY <1>1, <1>11
<1>13. ASSUME NEW i \in S PROVE \E n \in DOMAIN q : q[n] = i
  <2>1. Rank(S, i) \in 1..Cardinality(S)
    BY <1>2
  <2>2. q[Rank(S, i)] = i
    BY <2>1, <1>4, <1>9
  <2> QED BY <2>1, <2>2, <1>12
<1>14. Range(q) = S
  BY <1>9, <1>12, <1>13 DEF Range
<1>15. IsInjective(q)
  BY <1>9, <1>12 DEF IsInjective
<1> QED BY <1>12, <1>14, <1>15

LEMMA ReverseLists ==
    ASSUME NEW q \in Seq(Nat), IsInjective(q), NEW s, s = Reverse(q)
    PROVE  s \in Seq(Nat) /\ IsInjective(s) /\ Range(s) = Range(q)
<1>1. Len(q) \in Nat /\ DOMAIN q = 1..Len(q)
  OBVIOUS
<1>2. \A n \in 1..Len(q) : Len(q) - n + 1 \in 1..Len(q)
  BY <1>1
<1>3. \A n \in 1..Len(q) : s[n] = q[Len(q) - n + 1]
  BY DEF Reverse
<1>4. s \in [1..Len(q) -> Nat]
  BY <1>1, <1>2 DEF Reverse
<1>5. s \in Seq(Nat) /\ Len(s) = Len(q) /\ DOMAIN s = 1..Len(q)
  BY <1>1, <1>4
<1>6. ASSUME NEW k \in DOMAIN q PROVE \E n \in DOMAIN s : s[n] = q[k]
  <2>1. Len(q) - k + 1 \in 1..Len(q) /\ Len(q) - (Len(q) - k + 1) + 1 = k
    BY <1>1
  <2> QED BY <2>1, <1>3, <1>5
<1>7. ASSUME NEW n \in DOMAIN s, NEW k \in DOMAIN s, s[n] = s[k]
      PROVE  n = k
  <2>1. Len(q) - n + 1 = Len(q) - k + 1
    BY <1>1, <1>2, <1>3, <1>5, <1>7, ZenonT(40) DEF IsInjective
  <2> QED BY <1>1, <1>5, <2>1
<1>8. \A n \in DOMAIN s : \E k \in DOMAIN q : s[n] = q[k]
  BY <1>1, <1>2, <1>3, <1>5
<1>9. Range(s) = Range(q)
  BY <1>6, <1>8 DEF Range
<1>10. IsInjective(s)
  BY <1>7 DEF IsInjective
<1> QED BY <1>5, <1>9, <1>10

\* azuDICI_compact_and_watch_thdb and azuDICI_init link every clause into the lists
\* of its two watched literals.
LEMMA WatchListsLinked ==
    ASSUME NEW th \in Seq(ThClause)
    PROVE  /\ WatchLists(th) \in [Lits -> Seq(Nat)]
           /\ Linked(th, WatchLists(th))
<1> DEFINE W == WatchLists(th)
           S(l) == {i \in DOMAIN th : l \in {th[i].w1, th[i].w2}}
<1>1. \A l \in Lits : W[l] = Reverse(InOrderOf(S(l)))
  BY DEF WatchLists
<1>2. ASSUME NEW l \in Lits
      PROVE  W[l] \in Seq(Nat) /\ IsInjective(W[l]) /\ Range(W[l]) = S(l)
  <2>1. PICK q : q = InOrderOf(S(l))
    OBVIOUS
  <2>2. S(l) \in SUBSET Nat /\ IsFiniteSet(S(l))
    <3>1. DOMAIN th = 1..Len(th) /\ Len(th) \in Nat
      OBVIOUS
    <3>2. IsFiniteSet(1..Len(th))
      BY <3>1, FS_Interval
    <3> QED BY <3>1, <3>2, FS_Subset
  <2>3. W[l] = Reverse(q)
    BY <1>1, <2>1
  <2> HIDE DEF S, W
  <2>4. q \in Seq(Nat) /\ IsInjective(q) /\ Range(q) = S(l)
    BY <2>1, <2>2, InOrderOfLists
  <2> QED BY <2>3, <2>4, ReverseLists
<1>3. W = [l \in Lits |-> W[l]]
  BY DEF WatchLists
<1>4. W \in [Lits -> Seq(Nat)]
  BY <1>2, <1>3
<1> HIDE DEF W
<1> QED BY <1>2, <1>4 DEF Linked, Watched, W

\* linkPointersHead: in at the head.
LEMMA ConsLists ==
    ASSUME NEW q \in Seq(Nat), IsInjective(q), NEW e \in Nat, e \notin Range(q),
           NEW s, s = Cons(e, q)
    PROVE  s \in Seq(Nat) /\ IsInjective(s) /\ Range(s) = Range(q) \cup {e}
<1>1. <<e>> \in Seq(Nat) /\ Len(<<e>>) = 1 /\ <<e>>[1] = e
  OBVIOUS
<1>2. /\ s \in Seq(Nat) /\ Len(s) = 1 + Len(q)
      /\ \A n \in 1..(1 + Len(q)) : s[n] = IF n <= 1 THEN <<e>>[n] ELSE q[n - 1]
  BY <1>1, ConcatProperties DEF Cons
<1>3. Len(q) \in Nat /\ DOMAIN q = 1..Len(q) /\ DOMAIN s = 1..(Len(q) + 1)
  BY <1>2
<1>4. s[1] = e
  BY <1>1, <1>2, <1>3
<1>5. ASSUME NEW n \in DOMAIN q PROVE n + 1 \in DOMAIN s /\ s[n + 1] = q[n]
  <2>1. n + 1 \in 1..(1 + Len(q)) /\ ~(n + 1 <= 1) /\ (n + 1) - 1 = n
    BY <1>3
  <2> QED BY <2>1, <1>2, <1>3
<1>6. \A n \in DOMAIN s : n = 1 \/ (n - 1 \in DOMAIN q /\ s[n] = q[n - 1])
  BY <1>2, <1>3, SMTT(30)
<1>7. Range(s) = Range(q) \cup {e}
  <2>1. 1 \in DOMAIN s
    BY <1>3
  <2> QED BY <1>4, <1>5, <1>6, <2>1 DEF Range
<1>8. ASSUME NEW n \in DOMAIN s, NEW k \in DOMAIN s, s[n] = s[k]
      PROVE  n = k
  <2>1. CASE n = 1 \/ k = 1
    BY <1>4, <1>6, <1>8, <2>1 DEF Range
  <2>2. CASE n # 1 /\ k # 1
    <3>1. n - 1 = k - 1
      BY <1>6, <1>8, <2>2 DEF IsInjective
    <3> QED BY <1>3, <3>1
  <2> QED BY <2>1, <2>2
<1> QED BY <1>2, <1>7, <1>8 DEF IsInjective

\* Out of the list at place p: what was after it moves up.

LEMMA RemovedPlaces ==
    ASSUME NEW q \in Seq(Nat), NEW p \in DOMAIN q, NEW s, s = RemoveAt(q, p)
    PROVE  /\ s \in Seq(Nat) /\ DOMAIN s = 1..(Len(q) - 1)
           /\ \A n \in DOMAIN s :
                 IF n < p THEN n \in DOMAIN q \ {p} /\ s[n] = q[n]
                          ELSE n + 1 \in DOMAIN q \ {p} /\ s[n] = q[n + 1]
<1>1. Len(q) \in Nat /\ DOMAIN q = 1..Len(q) /\ p \in 1..Len(q)
  OBVIOUS
<1> DEFINE left == SubSeq(q, 1, p - 1)
           right == SubSeq(q, p + 1, Len(q))
<1>2. /\ left \in Seq(Nat) /\ Len(left) = p - 1
      /\ \A i \in 1..(p - 1) : left[i] = q[i]
  <2>1. \A i \in 1..(p - 1) : q[i] \in Nat
    BY <1>1
  <2>2. 1 \in Int /\ p - 1 \in Int /\ (p - 1) - 1 + 1 = p - 1
    BY <1>1
  <2>3. /\ left \in Seq(Nat)
        /\ Len(left) = IF 1 <= p - 1 THEN (p - 1) - 1 + 1 ELSE 0
        /\ \A i \in 1..((p - 1) - 1 + 1) : left[i] = q[1 + i - 1]
    BY <2>1, <2>2, SubSeqProperties
  <2> HIDE DEF left
  <2>4. \A i \in 1..(p - 1) : 1 + i - 1 = i
    OBVIOUS
  <2> QED BY <1>1, <2>2, <2>3, <2>4
<1>3. /\ right \in Seq(Nat) /\ Len(right) = Len(q) - p
      /\ \A i \in 1..(Len(q) - p) : right[i] = q[p + i]
  <2>1. \A i \in (p + 1)..Len(q) : q[i] \in Nat
    BY <1>1
  <2>2. p + 1 \in Int /\ Len(q) \in Int /\ Len(q) - (p + 1) + 1 = Len(q) - p
    BY <1>1
  <2>3. /\ right \in Seq(Nat)
        /\ Len(right) = IF p + 1 <= Len(q) THEN Len(q) - (p + 1) + 1 ELSE 0
        /\ \A i \in 1..(Len(q) - (p + 1) + 1) : right[i] = q[p + 1 + i - 1]
    BY <2>1, <2>2, SubSeqProperties, SMTT(30)
  <2> HIDE DEF right
  <2>4. Len(right) = Len(q) - p
    BY <1>1, <2>3, SMTT(30)
  <2>5. ASSUME NEW i \in 1..(Len(q) - p) PROVE right[i] = q[p + i]
    <3>1. i \in 1..(Len(q) - (p + 1) + 1) /\ p + 1 + i - 1 = p + i
      BY <1>1
    <3> QED BY <2>3, <3>1
  <2> QED BY <2>3, <2>4, <2>5
<1>4. s = left \o right
  BY DEF RemoveAt
<1> HIDE DEF left, right
<1>5. /\ s \in Seq(Nat) /\ Len(s) = Len(left) + Len(right)
      /\ \A i \in 1..(Len(left) + Len(right)) :
            s[i] = IF i <= Len(left) THEN left[i] ELSE right[i - Len(left)]
  <2>1. left \in Seq(Nat) /\ right \in Seq(Nat)
    BY <1>2, <1>3
  <2> QED BY <1>4, <2>1, ConcatProperties
<1>6. DOMAIN s = 1..(Len(q) - 1)
  <2>1. Len(left) + Len(right) = Len(q) - 1
    BY <1>1, <1>2, <1>3
  <2> QED BY <1>5, <2>1
<1>7. ASSUME NEW n \in DOMAIN s
      PROVE  IF n < p THEN n \in DOMAIN q \ {p} /\ s[n] = q[n]
                      ELSE n + 1 \in DOMAIN q \ {p} /\ s[n] = q[n + 1]
  <2>0. n \in 1..(Len(q) - 1) /\ n \in 1..(Len(left) + Len(right)) /\ Len(left) = p - 1
    BY <1>1, <1>2, <1>3, <1>6
  <2>1. CASE n < p
    <3>1. n <= Len(left) /\ n \in 1..(p - 1)
      BY <1>1, <2>0, <2>1
    <3>2. s[n] = q[n]
      BY <1>2, <1>5, <2>0, <3>1
    <3>3. n \in DOMAIN q \ {p}
      BY <1>1, <2>0, <2>1
    <3> QED BY <2>1, <3>2, <3>3
  <2>2. CASE ~(n < p)
    <3>1. n - (p - 1) \in 1..(Len(q) - p) /\ p + (n - (p - 1)) = n + 1
      BY <1>1, <2>0, <2>2, SMTT(30)
    <3>2. ~(n <= Len(left))
      BY <1>1, <2>0, <2>2
    <3>3. s[n] = right[n - (p - 1)]
      BY <1>5, <2>0, <3>2
    <3>4. s[n] = q[n + 1]
      BY <1>3, <3>1, <3>3
    <3>5. n + 1 \in DOMAIN q \ {p}
      BY <1>1, <2>0, <2>2
    <3> QED BY <2>2, <3>4, <3>5
  <2> QED BY <2>1, <2>2
<1> QED BY <1>5, <1>6, <1>7

\* What came after the place removed is one place nearer.
LEMMA RemovedLater ==
    ASSUME NEW q \in Seq(Nat), NEW p \in DOMAIN q, NEW s, s = RemoveAt(q, p)
    PROVE  \A k \in DOMAIN q : k > p => k - 1 \in DOMAIN s /\ s[k - 1] = q[k] /\ k - 1 >= p
<1>1. Len(q) \in Nat /\ DOMAIN q = 1..Len(q) /\ p \in 1..Len(q)
  OBVIOUS
<1>2. s \in Seq(Nat) /\ DOMAIN s = 1..(Len(q) - 1)
  BY RemovedPlaces
<1>3. ASSUME NEW n \in DOMAIN s
      PROVE  IF n < p THEN n \in DOMAIN q \ {p} /\ s[n] = q[n]
                      ELSE n + 1 \in DOMAIN q \ {p} /\ s[n] = q[n + 1]
  BY RemovedPlaces
<1> SUFFICES ASSUME NEW k \in DOMAIN q, k > p
             PROVE  k - 1 \in DOMAIN s /\ s[k - 1] = q[k] /\ k - 1 >= p
  OBVIOUS
<1>4. /\ k - 1 >= p /\ k - 1 \in 1..(Len(q) - 1)
      /\ ~(k - 1 < p) /\ (k - 1) + 1 = k
  BY <1>1
<1> QED BY <1>2, <1>3, <1>4

\* What is removed from a list is no longer in it, and the rest still is.
LEMMA RemoveLists ==
    ASSUME NEW q \in Seq(Nat), IsInjective(q), NEW p \in DOMAIN q,
           NEW s, s = RemoveAt(q, p)
    PROVE  s \in Seq(Nat) /\ IsInjective(s) /\ Range(s) = Range(q) \ {q[p]}
<1>1. Len(q) \in Nat /\ DOMAIN q = 1..Len(q) /\ p \in 1..Len(q)
  OBVIOUS
<1>2. s \in Seq(Nat) /\ DOMAIN s = 1..(Len(q) - 1)
  BY RemovedPlaces
<1>3. ASSUME NEW n \in DOMAIN s
      PROVE  IF n < p THEN n \in DOMAIN q \ {p} /\ s[n] = q[n]
                      ELSE n + 1 \in DOMAIN q \ {p} /\ s[n] = q[n + 1]
  BY RemovedPlaces
<1>4. \A k \in DOMAIN q \ {p} : \E n \in DOMAIN s : s[n] = q[k]
  <2> SUFFICES ASSUME NEW k \in DOMAIN q \ {p} PROVE \E n \in DOMAIN s : s[n] = q[k]
    OBVIOUS
  <2>1. CASE k < p
    <3>1. k \in DOMAIN s
      BY <1>1, <1>2, <2>1
    <3> QED BY <1>3, <2>1, <3>1
  <2>2. CASE ~(k < p)
    <3>1. k - 1 \in DOMAIN s /\ ~(k - 1 < p) /\ (k - 1) + 1 = k
      BY <1>1, <1>2, <2>2, SMTT(30)
    <3> QED BY <1>3, <3>1
  <2> QED BY <2>1, <2>2
<1>5. Range(s) = Range(q) \ {q[p]}
  <2>1. \A n \in DOMAIN s : \E k \in DOMAIN q \ {p} : s[n] = q[k]
    BY <1>3
  <2>2. \A k \in DOMAIN q \ {p} : q[k] # q[p]
    BY DEF IsInjective
  <2> QED BY <1>4, <2>1, <2>2 DEF Range
<1>6. ASSUME NEW n \in DOMAIN s, NEW k \in DOMAIN s, s[n] = s[k]
       PROVE  n = k
  <2>1. n \in Nat /\ k \in Nat
    BY <1>2
  <2>2. CASE n < p /\ k < p
    BY <1>3, <1>6, <2>2 DEF IsInjective
  <2>3. CASE ~(n < p) /\ ~(k < p)
    <3>1. n + 1 = k + 1
      BY <1>3, <1>6, <2>3 DEF IsInjective
    <3> QED BY <2>1, <3>1
  <2>4. CASE n < p /\ ~(k < p)
    <3>1. n = k + 1
      BY <1>3, <1>6, <2>4 DEF IsInjective
    <3> QED BY <1>1, <2>1, <2>4, <3>1
  <2>5. CASE ~(n < p) /\ k < p
    <3>1. n + 1 = k
      BY <1>3, <1>6, <2>5 DEF IsInjective
    <3> QED BY <1>1, <2>1, <2>5, <3>1
  <2> QED BY <2>2, <2>3, <2>4, <2>5
<1> QED BY <1>2, <1>5, <1>6 DEF IsInjective

\* The two changes that Rewatch makes, named so that the provers can match them.
Rewatched(th2, th, id, old, new) ==
    th2 = [th EXCEPT ![id] = IF @.w1 = old THEN [@ EXCEPT !.w1 = new]
                                           ELSE [@ EXCEPT !.w2 = new]]
Relinked(W2, W, p, id, old, new) ==
    W2 = [W EXCEPT ![old] = RemoveAt(@, p), ![new] = Cons(id, @)]

\* Clause id stands at place p of the list of `old`, and `new` is not watched in it.
WatchAt(th, W, old, new, p, id) ==
    /\ th \in Seq(ThClause) /\ W \in [Lits -> Seq(Nat)] /\ Linked(th, W)
    /\ old \in Lits /\ new \in Lits /\ p \in DOMAIN W[old] /\ id = W[old][p]
    /\ th[id].w1 # th[id].w2 /\ new \notin Watched(th[id])

\* The watch is on `new`, and everything else is as it was.
Moved(th, old, new, id, th2, W2) ==
    /\ th2 \in Seq(ThClause) /\ W2 \in [Lits -> Seq(Nat)] /\ Linked(th2, W2)
    /\ DOMAIN th2 = DOMAIN th /\ id \in DOMAIN th
    /\ \A i \in DOMAIN th : th2[i].pos = th[i].pos
    /\ \A i \in DOMAIN th \ {id} : th2[i] = th[i]
    /\ th2[id].w1 # th2[id].w2
    /\ Watched(th2[id]) = (Watched(th[id]) \ {old}) \cup {new}

\* azuDICI_propagate_w_n_clauses moves a watch of clause id from `old` to `new`.
LEMMA RewatchLinks ==
    ASSUME NEW th, NEW W, NEW old, NEW new, NEW p, NEW id,
           WatchAt(th, W, old, new, p, id),
           NEW th2, Rewatched(th2, th, id, old, new),
           NEW W2, Relinked(W2, W, p, id, old, new)
    PROVE  Moved(th, old, new, id, th2, W2)
<1>0. /\ th \in Seq(ThClause) /\ W \in [Lits -> Seq(Nat)] /\ Linked(th, W)
      /\ old \in Lits /\ new \in Lits /\ p \in DOMAIN W[old] /\ id = W[old][p]
      /\ th[id].w1 # th[id].w2 /\ new \notin Watched(th[id])
  BY DEF WatchAt
<1> USE <1>0
<1>1. \A l \in Lits : /\ W[l] \in Seq(Nat) /\ IsInjective(W[l])
                      /\ Range(W[l]) = {i \in DOMAIN th : l \in Watched(th[i])}
  BY DEF Linked
<1>2. id \in Range(W[old])
  BY DEF Range
<1>3. id \in DOMAIN th /\ old \in Watched(th[id]) /\ old # new
  BY <1>1, <1>2
<1>4. th[id] \in ThClause /\ id \in Nat /\ DOMAIN th = 1..Len(th) /\ id \in 1..Len(th)
  BY <1>3
<1>5. PICK t : t = IF th[id].w1 = old THEN [th[id] EXCEPT !.w1 = new]
                                      ELSE [th[id] EXCEPT !.w2 = new]
  OBVIOUS
<1>6. /\ t \in ThClause /\ t.pos = th[id].pos /\ t.w1 # t.w2
      /\ Watched(t) = (Watched(th[id]) \ {old}) \cup {new}
  <2>1. CASE th[id].w1 = old
    <3>1. t = [th[id] EXCEPT !.w1 = new]
      BY <1>5, <2>1
    <3>2. /\ t \in ThClause /\ t.pos = th[id].pos /\ t.w1 = new /\ t.w2 = th[id].w2
      BY <1>4, <3>1 DEF ThClause
    <3> QED BY <1>3, <2>1, <3>2 DEF Watched
  <2>2. CASE th[id].w1 # old
    <3>1. t = [th[id] EXCEPT !.w2 = new]
      BY <1>5, <2>2
    <3>2. /\ t \in ThClause /\ t.pos = th[id].pos /\ t.w2 = new /\ t.w1 = th[id].w1
      BY <1>4, <3>1 DEF ThClause
    <3>3. th[id].w2 = old
      BY <1>3, <2>2 DEF Watched
    <3> QED BY <1>3, <2>2, <3>2, <3>3 DEF Watched
  <2> QED BY <2>1, <2>2
<1>7. th2 = [th EXCEPT ![id] = t]
  BY <1>5 DEF Rewatched
<1>8. /\ th2 \in Seq(ThClause) /\ DOMAIN th2 = DOMAIN th /\ th2[id] = t
      /\ \A i \in DOMAIN th \ {id} : th2[i] = th[i]
  <2>1. id \in 1..Len(th) /\ t \in ThClause
    BY <1>4, <1>6
  <2>2. /\ [th EXCEPT ![id] = t] \in Seq(ThClause)
        /\ Len([th EXCEPT ![id] = t]) = Len(th)
        /\ \A i \in 1..Len(th) : [th EXCEPT ![id] = t][i] = IF i = id THEN t ELSE th[i]
    BY <2>1, ExceptSeq
  <2>3. /\ th2 \in Seq(ThClause) /\ Len(th2) = Len(th)
        /\ \A i \in 1..Len(th) : th2[i] = IF i = id THEN t ELSE th[i]
    BY <1>7, <2>2
  <2> QED BY <1>4, <2>3
<1>9. PICK shorter : shorter = RemoveAt(W[old], p)
  OBVIOUS
<1>10. shorter \in Seq(Nat) /\ IsInjective(shorter) /\ Range(shorter) = Range(W[old]) \ {id}
  BY <1>1, <1>9, RemoveLists
<1>11. PICK longer : longer = Cons(id, W[new])
  OBVIOUS
<1>12. longer \in Seq(Nat) /\ IsInjective(longer) /\ Range(longer) = Range(W[new]) \cup {id}
  <2>1. id \notin Range(W[new])
    BY <1>1
  <2>2. W[new] \in Seq(Nat) /\ IsInjective(W[new])
    BY <1>1
  <2> QED BY <1>4, <1>11, <2>1, <2>2, ConsLists
<1>13. W2 = [l \in Lits |-> IF l = new THEN longer ELSE IF l = old THEN shorter ELSE W[l]]
  BY <1>3, <1>9, <1>11 DEF Relinked
<1>14. W2 \in [Lits -> Seq(Nat)]
  BY <1>10, <1>12, <1>13
<1>15. \A i \in DOMAIN th \ {id} : Watched(th2[i]) = Watched(th[i])
  BY <1>8
<1>16. ASSUME NEW l \in Lits
       PROVE  IsInjective(W2[l]) /\ Range(W2[l]) = {i \in DOMAIN th2 : l \in Watched(th2[i])}
  <2>0. /\ Range(W[l]) = {i \in DOMAIN th : l \in Watched(th[i])} /\ IsInjective(W[l])
        /\ \A i \in DOMAIN th2 : i # id => (l \in Watched(th2[i]) <=> l \in Watched(th[i]))
        /\ l \in Watched(th2[id]) <=> l = new \/ (l # old /\ l \in Watched(th[id]))
    BY <1>1, <1>6, <1>8, <1>15
  <2>1. CASE l = new
    <3>1. W2[l] = longer
      BY <1>13, <2>1
    <3>2. Range(longer) = Range(W[l]) \cup {id}
      BY <1>12, <2>1
    <3> QED BY <1>3, <1>8, <1>12, <2>0, <2>1, <3>1, <3>2
  <2>2. CASE l = old
    <3>1. W2[l] = shorter
      BY <1>3, <1>13, <2>2
    <3>2. Range(shorter) = Range(W[l]) \ {id}
      BY <1>10, <2>2
    <3> QED BY <1>3, <1>8, <1>10, <2>0, <2>2, <3>1, <3>2
  <2>3. CASE l # old /\ l # new
    <3>1. W2[l] = W[l]
      BY <1>13, <2>3
    <3> QED BY <1>8, <2>0, <2>3, <3>1
  <2> QED BY <2>1, <2>2, <2>3
<1>17. \A i \in DOMAIN th : th2[i].pos = th[i].pos
  BY <1>6, <1>8
<1> QED BY <1>3, <1>6, <1>8, <1>14, <1>16, <1>17 DEF Linked, Moved

\* azuDICI_insert_th_clause, with n the place the clause gets.
Inserted(th, W, t, n, th2, W2) ==
    /\ th \in Seq(ThClause) /\ W \in [Lits -> Seq(Nat)] /\ Linked(th, W)
    /\ t \in ThClause
    /\ th2 = Append(th, t) /\ n = Len(th) + 1
    /\ W2 = [l \in Lits |-> IF l \in {t.w1, t.w2} THEN Cons(Len(th) + 1, W[l]) ELSE W[l]]

\* What it comes to.
OneMore(th, t, n, th2, W2) ==
    /\ th2 \in Seq(ThClause) /\ W2 \in [Lits -> Seq(Nat)] /\ Linked(th2, W2)
    /\ DOMAIN th2 = DOMAIN th \cup {n} /\ th2[n] = t /\ n \in Nat
    /\ \A i \in DOMAIN th : th2[i] = th[i]

LEMMA InsertLinks ==
    ASSUME NEW th, NEW W, NEW t, NEW n, NEW th2, NEW W2, Inserted(th, W, t, n, th2, W2)
    PROVE  OneMore(th, t, n, th2, W2)
<1>10. th \in Seq(ThClause) /\ W \in [Lits -> Seq(Nat)] /\ Linked(th, W) /\ t \in ThClause
  BY DEF Inserted
<1>1. \A l \in Lits : /\ W[l] \in Seq(Nat) /\ IsInjective(W[l])
                      /\ Range(W[l]) = {i \in DOMAIN th : l \in Watched(th[i])}
  BY <1>10 DEF Linked
<1>2. Len(th) \in Nat /\ DOMAIN th = 1..Len(th)
  BY <1>10
<1>3. n = Len(th) + 1 /\ th2 = Append(th, t)
  BY DEF Inserted
<1>4. /\ th2 \in Seq(ThClause) /\ DOMAIN th2 = DOMAIN th \cup {n} /\ th2[n] = t
      /\ \A i \in DOMAIN th : th2[i] = th[i]
      /\ n \notin DOMAIN th /\ n \in Nat
  <2>1. th2 \in Seq(ThClause) /\ Len(th2) = Len(th) + 1 /\ th2[n] = t
        /\ \A i \in 1..Len(th) : th2[i] = th[i]
    BY <1>3, <1>10, AppendProperties
  <2>2. DOMAIN th2 = 1..(Len(th) + 1)
    BY <2>1
  <2> QED BY <1>2, <1>3, <2>1, <2>2
<1>5. ASSUME NEW l \in Lits, l \in Watched(t), NEW s, s = Cons(n, W[l])
      PROVE  s \in Seq(Nat) /\ IsInjective(s) /\ Range(s) = Range(W[l]) \cup {n}
  <2>1. W[l] \in Seq(Nat) /\ IsInjective(W[l]) /\ n \notin Range(W[l])
    BY <1>1, <1>4
  <2> QED BY <1>4, <1>5, <2>1, ConsLists
<1>6. W2 = [l \in Lits |-> IF l \in Watched(t) THEN Cons(n, W[l]) ELSE W[l]]
  BY <1>3 DEF Watched, Inserted
<1>7. ASSUME NEW l \in Lits
      PROVE  /\ W2[l] \in Seq(Nat) /\ IsInjective(W2[l])
             /\ Range(W2[l]) = {i \in DOMAIN th2 : l \in Watched(th2[i])}
  <2>1. CASE l \in Watched(t)
    <3>1. W2[l] = Cons(n, W[l])
      BY <1>6, <2>1
    <3>2. W2[l] \in Seq(Nat) /\ IsInjective(W2[l]) /\ Range(W2[l]) = Range(W[l]) \cup {n}
      BY <1>5, <2>1, <3>1
    <3> QED BY <1>1, <1>4, <2>1, <3>2
  <2>2. CASE l \notin Watched(t)
    <3>1. W2[l] = W[l]
      BY <1>6, <2>2
    <3> QED BY <1>1, <1>4, <2>2, <3>1
  <2> QED BY <2>1, <2>2
<1>8. W2 \in [Lits -> Seq(Nat)]
  <2>1. W2 = [l \in Lits |-> W2[l]]
    BY <1>6
  <2> QED BY <1>7, <2>1
<1> QED BY <1>3, <1>4, <1>7, <1>8 DEF Linked, OneMore

-----------------------------------------------------------------------------
(* Inserting into the database *)

\* The second sequence goes on where the first ends.
Continues(s, t) == Len(s) <= Len(t) /\ \A i \in DOMAIN s : i \in DOMAIN t /\ t[i] = s[i]

\* Only the flags of an entry ever change, and entries are added.
Extends(d, e) ==
    /\ Continues(d.uDB, e.uDB)
    /\ \A l \in Lits : /\ Continues(d.bDB[l], e.bDB[l])
                       /\ Continues(d.ternaryWatches[l], e.ternaryWatches[l])
    /\ Len(d.tDB) <= Len(e.tDB) /\ Len(d.nDB) <= Len(e.nDB)
    /\ \A i \in DOMAIN d.tDB : i \in DOMAIN e.tDB /\ e.tDB[i].lits = d.tDB[i].lits
    /\ \A i \in DOMAIN d.nDB : i \in DOMAIN e.nDB /\ e.nDB[i].lits = d.nDB[i].lits

LEMMA ContinuesSame ==
    ASSUME NEW S, NEW s \in Seq(S)
    PROVE  Continues(s, s)
BY DEF Continues

\* Named, so that the provers can match it.
Appends(t, s, x) == t = Append(s, x)

LEMMA AppendContinues ==
    ASSUME NEW S, NEW s \in Seq(S), NEW x \in S, NEW t, Appends(t, s, x)
    PROVE  /\ t \in Seq(S) /\ Len(t) = Len(s) + 1 /\ t[Len(s) + 1] = x
           /\ DOMAIN t = DOMAIN s \cup {Len(s) + 1}
           /\ Continues(s, t)
<1>1. /\ t \in Seq(S) /\ Len(t) = Len(s) + 1 /\ t[Len(s) + 1] = x
      /\ \A i \in 1..Len(s) : t[i] = s[i]
  BY AppendProperties DEF Appends
<1>2. Len(s) \in Nat /\ DOMAIN s = 1..Len(s) /\ DOMAIN t = 1..(Len(s) + 1)
  BY <1>1
<1> QED BY <1>1, <1>2 DEF Continues

LEMMA AppendNumber ==
    ASSUME NEW q \in Seq(Nat), NEW n \in Nat, NEW s, Appends(s, q, n)
    PROVE  /\ s \in Seq(Nat) /\ s[Len(q) + 1] = n
           /\ DOMAIN s = DOMAIN q \cup {Len(q) + 1} /\ Continues(q, s)
<1>1. /\ s \in Seq(Nat) /\ Len(s) = Len(q) + 1 /\ s[Len(q) + 1] = n
      /\ \A i \in 1..Len(q) : s[i] = q[i]
  BY AppendProperties DEF Appends
<1>2. Len(q) \in Nat /\ DOMAIN q = 1..Len(q) /\ DOMAIN s = 1..(Len(q) + 1)
  BY <1>1
<1> QED BY <1>1, <1>2 DEF Continues

LEMMA DbFields ==
    ASSUME NEW d \in ClauseDBType
    PROVE  /\ d.uDB \in Seq(Lits) /\ d.bDB \in [Lits -> Seq(Lits)]
           /\ d.tDB \in Seq(TernaryEntry) /\ d.nDB \in Seq(NaryEntry)
           /\ d.ternaryWatches \in [Lits -> Seq(Nat)]
           /\ DOMAIN d.uDB = 1..Len(d.uDB) /\ Len(d.uDB) \in Nat
           /\ DOMAIN d.tDB = 1..Len(d.tDB) /\ Len(d.tDB) \in Nat
           /\ DOMAIN d.nDB = 1..Len(d.nDB) /\ Len(d.nDB) \in Nat
           /\ \A l \in Lits :
                 /\ d.bDB[l] \in Seq(Lits) /\ Len(d.bDB[l]) \in Nat
                 /\ DOMAIN d.bDB[l] = 1..Len(d.bDB[l])
                 /\ d.ternaryWatches[l] \in Seq(Nat) /\ Len(d.ternaryWatches[l]) \in Nat
                 /\ DOMAIN d.ternaryWatches[l] = 1..Len(d.ternaryWatches[l])
           /\ \A i \in DOMAIN d.tDB : d.tDB[i] \in TernaryEntry /\ d.tDB[i].lits \in Clause
           /\ \A i \in DOMAIN d.nDB : d.nDB[i] \in NaryEntry /\ d.nDB[i].lits \in Clause
<1>1. /\ d.uDB \in Seq(Lits) /\ d.bDB \in [Lits -> Seq(Lits)]
      /\ d.tDB \in Seq(TernaryEntry) /\ d.nDB \in Seq(NaryEntry)
      /\ d.ternaryWatches \in [Lits -> Seq(Nat)]
  BY DEF ClauseDBType
<1>2. \A i \in DOMAIN d.tDB : d.tDB[i] \in TernaryEntry
  BY <1>1
<1>3. \A i \in DOMAIN d.nDB : d.nDB[i] \in NaryEntry
  BY <1>1
<1>4. \A i \in DOMAIN d.tDB : d.tDB[i].lits \in Clause
  BY <1>2 DEF TernaryEntry
<1>5. \A i \in DOMAIN d.nDB : d.nDB[i].lits \in Clause
  BY <1>3 DEF NaryEntry
<1>6. \A l \in Lits :
         /\ d.bDB[l] \in Seq(Lits) /\ Len(d.bDB[l]) \in Nat
         /\ DOMAIN d.bDB[l] = 1..Len(d.bDB[l])
         /\ d.ternaryWatches[l] \in Seq(Nat) /\ Len(d.ternaryWatches[l]) \in Nat
         /\ DOMAIN d.ternaryWatches[l] = 1..Len(d.ternaryWatches[l])
  BY <1>1
<1> QED BY <1>1, <1>2, <1>3, <1>4, <1>5, <1>6

LEMMA ExtendsSame ==
    ASSUME NEW d \in ClauseDBType
    PROVE  Extends(d, d)
BY DbFields, ContinuesSame DEF Extends

\* Extends and DbInv look at the parts of the database one by one.
LEMMA DbInvParts ==
    ASSUME NEW d \in ClauseDBType, NEW P, DbInv(d, P), NEW e \in ClauseDBType,
           /\ \A i \in DOMAIN e.uDB : \/ i \in DOMAIN d.uDB /\ e.uDB[i] = d.uDB[i]
                                    \/ Follows(P, {e.uDB[i]})
           /\ e.bDB = d.bDB /\ e.tDB = d.tDB
           /\ e.ternaryWatches = d.ternaryWatches /\ e.nDB = d.nDB
    PROVE  DbInv(e, P)
BY DEF DbInv, DbFollows, DbLinked

\* insert_unitary_clause
LEMMA UnitInserted ==
    ASSUME NEW d, NEW P, DbInv(d, P), NEW l \in Lits, Follows(P, {l}),
           NEW original \in BOOLEAN, NEW last \in Nat, last <= Len(d.uDB),
           NEW e, e = InsertUnit(d, l, original, last)
    PROVE  /\ DbInv(e, P) /\ Extends(d, e)
           /\ ~original => last + 1 <= Len(e.uDB)
<1>1. d \in ClauseDBType
  BY DEF DbInv
<1>2. /\ d.uDB \in Seq(Lits) /\ Len(d.uDB) \in Nat /\ DOMAIN d.uDB = 1..Len(d.uDB)
  BY <1>1, DbFields
<1>3. CASE AlreadyInList(d.uDB, original, last)
  <2>1. e = d
    BY <1>3 DEF InsertUnit
  <2> QED BY <1>1, <1>2, <1>3, <2>1, ExtendsSame DEF AlreadyInList
<1>4. CASE ~AlreadyInList(d.uDB, original, last)
  <2>1. PICK q, s : q = d.uDB /\ s = Append(q, l)
    OBVIOUS
  <2>2. /\ s \in Seq(Lits) /\ Len(s) = Len(q) + 1 /\ s[Len(q) + 1] = l
        /\ DOMAIN s = DOMAIN q \cup {Len(q) + 1} /\ Continues(q, s)
    <3>1. q \in Seq(Lits) /\ Appends(s, q, l)
      BY <1>2, <2>1 DEF Appends
    <3> QED BY <3>1, AppendContinues
  <2>3. e = [d EXCEPT !.uDB = s]
    BY <1>4, <2>1 DEF InsertUnit
  <2>4. /\ e \in ClauseDBType /\ e.uDB = s /\ e.bDB = d.bDB /\ e.tDB = d.tDB
        /\ e.ternaryWatches = d.ternaryWatches /\ e.nDB = d.nDB
    BY <1>1, <2>2, <2>3 DEF ClauseDBType
  <2>5. \A i \in DOMAIN e.uDB : \/ i \in DOMAIN d.uDB /\ e.uDB[i] = d.uDB[i]
                              \/ Follows(P, {e.uDB[i]})
    BY <2>1, <2>2, <2>4 DEF Continues
  <2>6. DbInv(e, P)
    BY <1>1, <2>4, <2>5, DbInvParts
  <2>7. Extends(d, e)
    BY <1>1, <2>1, <2>2, <2>4, ExtendsSame DEF Extends
  <2>8. ~original => last + 1 <= Len(e.uDB)
    BY <1>2, <1>4, <2>1, <2>2, <2>4 DEF AlreadyInList
  <2> QED BY <2>6, <2>7, <2>8
<1> QED BY <1>3, <1>4

\* insert_binary_clause: an entry in the list of each negated literal.
LEMMA BinaryInserted ==
    ASSUME NEW d, NEW P, DbInv(d, P), NEW l1 \in Lits, NEW l2 \in Lits, l1 # l2,
           Follows(P, {l1, l2}), NEW original \in BOOLEAN,
           NEW last1 \in Nat, NEW last2 \in Nat,
           last1 <= Len(d.bDB[-l1]), last2 <= Len(d.bDB[-l2]),
           AlreadyInList(d.bDB[-l1], original, last1) => Len(d.bDB[-l2]) > last2,
           NEW e, e = InsertBinary(d, l1, l2, original, last1)
    PROVE  /\ DbInv(e, P) /\ Extends(d, e)
           /\ last1 + 1 <= Len(e.bDB[-l1]) /\ last2 + 1 <= Len(e.bDB[-l2])
<1>1. d \in ClauseDBType
  BY DEF DbInv
<1>2. PICK x1, x2, D : x1 = -l1 /\ x2 = -l2 /\ D = d.bDB
  OBVIOUS
<1>3. x1 \in Lits /\ x2 \in Lits /\ x1 # x2 /\ -x1 = l1 /\ -x2 = l2
  BY <1>2, LitFacts
<1>4. PICK q1, q2 : q1 = D[x1] /\ q2 = D[x2]
  OBVIOUS
<1>5. /\ D \in [Lits -> Seq(Lits)] /\ \A l \in Lits : Continues(D[l], D[l])
      /\ q1 \in Seq(Lits) /\ Len(q1) \in Nat /\ q2 \in Seq(Lits) /\ Len(q2) \in Nat
  <2>1. /\ d.bDB \in [Lits -> Seq(Lits)]
        /\ \A l \in Lits : Continues(d.bDB[l], d.bDB[l])
    BY <1>1, DbFields, ExtendsSame DEF Extends
  <2>2. D \in [Lits -> Seq(Lits)] /\ \A l \in Lits : Continues(D[l], D[l])
    BY <1>2, <2>1
  <2> QED BY <1>3, <1>4, <2>2
<1>6. q1 = d.bDB[-l1] /\ q2 = d.bDB[-l2]
  BY <1>2, <1>4
<1>9. /\ last1 <= Len(q1) /\ last2 <= Len(q2)
      /\ AlreadyInList(q1, original, last1) => Len(q2) > last2
  BY <1>6
<1>10. e = IF AlreadyInList(q1, original, last1)
           THEN d
           ELSE [d EXCEPT !.bDB = [[D EXCEPT ![x1] = Append(q1, l2)]
                                      EXCEPT ![x2] = Append(q2, l1)]]
  <2>1. e = IF AlreadyInList(d.bDB[-l1], original, last1)
            THEN d
            ELSE [d EXCEPT !.bDB[-l1] = Append(@, l2), !.bDB[-l2] = Append(@, l1)]
    BY DEF InsertBinary
  <2>2. [d EXCEPT !.bDB[-l1] = Append(@, l2), !.bDB[-l2] = Append(@, l1)]
          = [d EXCEPT !.bDB = [[D EXCEPT ![x1] = Append(q1, l2)]
                                  EXCEPT ![x2] = Append(q2, l1)]]
    BY <1>1, <1>2, <1>3, <1>4 DEF ClauseDBType
  <2> QED BY <1>6, <2>1, <2>2
<1>7. CASE AlreadyInList(q1, original, last1)
  <2>1. e = d
    BY <1>7, <1>10
  <2>2. Len(q1) > last1 /\ Len(q2) > last2
    BY <1>7, <1>9 DEF AlreadyInList
  <2>3. last1 + 1 <= Len(q1) /\ last2 + 1 <= Len(q2)
    BY <1>5, <2>2
  <2> QED BY <1>1, <1>2, <1>4, <2>1, <2>3, ExtendsSame
<1>8. CASE ~AlreadyInList(q1, original, last1)
  <2>1. PICK s1, s2 : s1 = Append(q1, l2) /\ s2 = Append(q2, l1)
    OBVIOUS
  <2>3. /\ s1 \in Seq(Lits) /\ Len(s1) = Len(q1) + 1 /\ s1[Len(q1) + 1] = l2
        /\ DOMAIN s1 = DOMAIN q1 \cup {Len(q1) + 1} /\ Continues(q1, s1)
    <3>1. q1 \in Seq(Lits) /\ Appends(s1, q1, l2)
      BY <1>5, <2>1 DEF Appends
    <3> QED BY <3>1, AppendContinues
  <2>4. /\ s2 \in Seq(Lits) /\ Len(s2) = Len(q2) + 1 /\ s2[Len(q2) + 1] = l1
        /\ DOMAIN s2 = DOMAIN q2 \cup {Len(q2) + 1} /\ Continues(q2, s2)
    <3>1. q2 \in Seq(Lits) /\ Appends(s2, q2, l1)
      BY <1>5, <2>1 DEF Appends
    <3> QED BY <3>1, AppendContinues
  <2>5. PICK B : B = [[D EXCEPT ![x1] = s1] EXCEPT ![x2] = s2]
    OBVIOUS
  <2>6. /\ B \in [Lits -> Seq(Lits)] /\ B[x1] = s1 /\ B[x2] = s2
        /\ \A l \in Lits \ {x1, x2} : B[l] = D[l]
    BY <1>3, <1>5, <2>3, <2>4, <2>5
  <2>7. e = [d EXCEPT !.bDB = B]
    BY <1>8, <1>10, <2>1, <2>5
  <2>8. /\ e \in ClauseDBType /\ e.bDB = B /\ e.uDB = d.uDB /\ e.tDB = d.tDB
        /\ e.ternaryWatches = d.ternaryWatches /\ e.nDB = d.nDB
    BY <1>1, <2>6, <2>7 DEF ClauseDBType
  <2>9. ASSUME NEW l \in Lits, NEW i \in DOMAIN B[l]
        PROVE  Follows(P, {-l, B[l][i]})
    <3>0. i \in DOMAIN D[l] => Follows(P, {-l, D[l][i]})
      BY <1>2 DEF DbInv, DbFollows
    <3>1. CASE l = x1
      <4>1. CASE i \in DOMAIN q1
        BY <1>4, <2>3, <2>6, <3>0, <3>1, <4>1 DEF Continues
      <4>2. CASE i = Len(q1) + 1
        <5>1. -l = l1 /\ B[l][i] = l2
          BY <1>3, <2>3, <2>6, <3>1, <4>2
        <5> QED BY <5>1
      <4> QED BY <2>3, <2>6, <2>9, <3>1, <4>1, <4>2
    <3>2. CASE l = x2
      <4>1. CASE i \in DOMAIN q2
        BY <1>4, <2>4, <2>6, <3>0, <3>2, <4>1 DEF Continues
      <4>2. CASE i = Len(q2) + 1
        <5>1. -l = l2 /\ B[l][i] = l1
          BY <1>3, <2>4, <2>6, <3>2, <4>2
        <5>2. {-l, B[l][i]} = {l1, l2}
          BY <5>1
        <5> QED BY <5>2
      <4> QED BY <2>4, <2>6, <2>9, <3>2, <4>1, <4>2
    <3>3. CASE l # x1 /\ l # x2
      BY <2>6, <2>9, <3>0, <3>3
    <3> QED BY <3>1, <3>2, <3>3
  <2>10. DbInv(e, P)
    BY <2>8, <2>9 DEF DbInv, DbFollows, DbLinked
  <2>11. \A l \in Lits : Continues(D[l], B[l])
    BY <1>4, <1>5, <2>3, <2>4, <2>6
  <2>12. Extends(d, e)
    BY <1>1, <1>2, <2>8, <2>11, ExtendsSame DEF Extends
  <2>13. last1 + 1 <= Len(s1) /\ last2 + 1 <= Len(s2)
    BY <1>5, <1>9, <2>3, <2>4
  <2> QED BY <1>2, <2>6, <2>8, <2>10, <2>12, <2>13
<1> QED BY <1>7, <1>8

Flagged(new, list, i, w, v) == new = [list EXCEPT ![i].flags[w] = v]

FlagOnly(Entry, w, v) ==
    \A x \in Entry : /\ [x EXCEPT !.flags[w] = v] \in Entry
                     /\ [x EXCEPT !.flags[w] = v].lits = x.lits

\* A flag of an entry is set or cleared.
LEMMA FlagChanged ==
    ASSUME NEW Entry, NEW list \in Seq(Entry), NEW i \in DOMAIN list, NEW w, NEW v,
           FlagOnly(Entry, w, v),
           NEW new, Flagged(new, list, i, w, v)
    PROVE  /\ new \in Seq(Entry) /\ Len(new) = Len(list) /\ DOMAIN new = DOMAIN list
           /\ \A k \in DOMAIN list : new[k].lits = list[k].lits
<1>1. i \in 1..Len(list) /\ DOMAIN list = 1..Len(list) /\ list[i] \in Entry
  OBVIOUS
<1>2. PICK x : x = [list[i] EXCEPT !.flags[w] = v]
  OBVIOUS
<1>3. x \in Entry /\ x.lits = list[i].lits
  BY <1>1, <1>2 DEF FlagOnly
<1>4. new = [list EXCEPT ![i] = x]
  BY <1>1, <1>2 DEF Flagged
<1>5. /\ [list EXCEPT ![i] = x] \in Seq(Entry)
      /\ Len([list EXCEPT ![i] = x]) = Len(list)
      /\ \A j \in 1..Len(list) : [list EXCEPT ![i] = x][j] = IF j = i THEN x ELSE list[j]
  BY <1>1, <1>3, ExceptSeq
<1>6. /\ new \in Seq(Entry) /\ Len(new) = Len(list)
      /\ \A j \in 1..Len(list) : new[j] = IF j = i THEN x ELSE list[j]
  BY <1>4, <1>5
<1>7. \A k \in DOMAIN list : new[k].lits = list[k].lits
  BY <1>1, <1>3, <1>6
<1>8. DOMAIN new = DOMAIN list
  BY <1>1, <1>6
<1> QED BY <1>6, <1>7, <1>8

LEMMA TernaryFlagChanged ==
    ASSUME NEW T \in Seq(TernaryEntry), NEW i \in DOMAIN T, NEW w \in Workers,
           NEW v \in BOOLEAN, NEW T2, Flagged(T2, T, i, w, v)
    PROVE  /\ T2 \in Seq(TernaryEntry) /\ Len(T2) = Len(T) /\ DOMAIN T2 = DOMAIN T
           /\ \A k \in DOMAIN T : T2[k].lits = T[k].lits
<1>1. FlagOnly(TernaryEntry, w, v)
  BY DEF FlagOnly, TernaryEntry
<1> QED BY <1>1, FlagChanged

LEMMA NaryFlagChanged ==
    ASSUME NEW T \in Seq(NaryEntry), NEW i \in DOMAIN T, NEW w \in Workers,
           NEW v \in BOOLEAN, NEW T2, Flagged(T2, T, i, w, v)
    PROVE  /\ T2 \in Seq(NaryEntry) /\ Len(T2) = Len(T) /\ DOMAIN T2 = DOMAIN T
           /\ \A k \in DOMAIN T : T2[k].lits = T[k].lits
<1>1. FlagOnly(NaryEntry, w, v)
  BY DEF FlagOnly, NaryEntry
<1> QED BY <1>1, FlagChanged

\* insert_ternary_clause: the entry taken for the clause is the clause.
LEMMA TernaryInserted ==
    ASSUME NEW d, NEW P, DbInv(d, P), NEW c \in Clause, Follows(P, c),
           NEW original \in BOOLEAN, NEW last \in Nat, NEW w,
           last <= Len(d.tDB),
           AlreadyInList(d.tDB, original, last)
              => w \in Workers /\ c = d.tDB[last + 1].lits,
           NEW e, e = InsertTernary(d, c, original, w, last)
    PROVE  /\ DbInv(e, P) /\ Extends(d, e)
           /\ EntryFor(d.tDB, original, last) \in DOMAIN e.tDB
           /\ e.tDB[EntryFor(d.tDB, original, last)].lits = c
           /\ ~original => last + 1 <= Len(e.tDB)
<1>1. d \in ClauseDBType
  BY DEF DbInv
<1>2. PICK T, W : T = d.tDB /\ W = d.ternaryWatches
  OBVIOUS
<1>3. /\ T \in Seq(TernaryEntry) /\ Len(T) \in Nat /\ DOMAIN T = 1..Len(T)
      /\ W \in [Lits -> Seq(Nat)]
      /\ \A l \in Lits : \A i \in DOMAIN W[l] : W[l][i] \in DOMAIN T /\ l \in T[W[l][i]].lits
      /\ \A i \in DOMAIN T : Follows(P, T[i].lits)
  BY <1>1, <1>2, DbFields DEF DbInv, DbLinked, DbFollows
<1>4. last <= Len(T) /\ (AlreadyInList(T, original, last) => w \in Workers /\ c = T[last + 1].lits)
  BY <1>2
<1>5. CASE AlreadyInList(T, original, last)
  <2>1. last + 1 \in DOMAIN T /\ EntryFor(T, original, last) = last + 1
        /\ T[last + 1].lits = c
    BY <1>3, <1>4, <1>5 DEF AlreadyInList, EntryFor
  <2>2. PICK T2 : T2 = [T EXCEPT ![last + 1].flags[w] = TRUE]
    OBVIOUS
  <2>3. /\ T2 \in Seq(TernaryEntry) /\ Len(T2) = Len(T) /\ DOMAIN T2 = DOMAIN T
        /\ \A k \in DOMAIN T : T2[k].lits = T[k].lits
    <3>1. PICK i, v : i = last + 1 /\ v = TRUE
      OBVIOUS
    <3>2. T \in Seq(TernaryEntry) /\ i \in DOMAIN T /\ v \in BOOLEAN /\ w \in Workers
      BY <1>3, <1>4, <1>5, <2>1, <3>1
    <3>3. Flagged(T2, T, i, w, v)
      BY <2>2, <3>1 DEF Flagged
    <3> QED BY <3>2, <3>3, TernaryFlagChanged
  <2>4. e = [d EXCEPT !.tDB[last + 1].flags[w] = TRUE]
    BY <1>2, <1>5 DEF InsertTernary
  <2>5. e = [d EXCEPT !.tDB = T2]
    BY <1>1, <1>2, <2>2, <2>4 DEF ClauseDBType
  <2>6. /\ e \in ClauseDBType /\ e.tDB = T2 /\ e.uDB = d.uDB /\ e.bDB = d.bDB
        /\ e.ternaryWatches = W /\ e.nDB = d.nDB
    BY <1>1, <1>2, <2>3, <2>5 DEF ClauseDBType
  <2>7. DbInv(e, P)
    <3>1. \A i \in DOMAIN T2 : Follows(P, T2[i].lits)
      BY <1>3, <2>3
    <3>2. DbFollows(e, P)
      BY <2>6, <3>1 DEF DbInv, DbFollows
    <3>3. \A l \in Lits : \A i \in DOMAIN W[l] :
             W[l][i] \in DOMAIN T2 /\ l \in T2[W[l][i]].lits
      BY <1>3, <2>3
    <3>4. DbLinked(e)
      BY <2>6, <3>3 DEF DbInv, DbLinked
    <3> QED BY <2>6, <3>2, <3>4 DEF DbInv
  <2>8. Extends(d, e)
    BY <1>1, <1>2, <1>3, <2>3, <2>6, ExtendsSame DEF Extends
  <2>9. last + 1 <= Len(T2)
    BY <1>3, <2>1, <2>3
  <2> QED BY <1>2, <2>1, <2>3, <2>6, <2>7, <2>8, <2>9
<1>6. CASE ~AlreadyInList(T, original, last)
  <2>1. PICK x : x = [lits |-> c, flags |-> Flags(original, w)]
    OBVIOUS
  <2>2. x \in TernaryEntry /\ x.lits = c
    BY <2>1 DEF TernaryEntry, Flags
  <2>3. PICK T2 : T2 = Append(T, x)
    OBVIOUS
  <2>4. /\ T2 \in Seq(TernaryEntry) /\ Len(T2) = Len(T) + 1 /\ T2[Len(T) + 1] = x
        /\ DOMAIN T2 = DOMAIN T \cup {Len(T) + 1} /\ Continues(T, T2)
    <3>1. T \in Seq(TernaryEntry) /\ x \in TernaryEntry /\ Appends(T2, T, x)
      BY <1>3, <2>2, <2>3 DEF Appends
    <3> QED BY <3>1, AppendContinues
  <2>5. PICK W2 : W2 = [l \in Lits |-> IF l \in c THEN Append(W[l], Len(T) + 1) ELSE W[l]]
    OBVIOUS
  <2>6. e = [d EXCEPT !.tDB = T2, !.ternaryWatches = W2]
    <3>1. e = [d EXCEPT !.tDB = Append(T, x),
                        !.ternaryWatches =
                          [l \in Lits |-> IF l \in c THEN Append(W[l], Len(T) + 1) ELSE W[l]]]
      BY <1>2, <1>6, <2>1 DEF InsertTernary
    <3> QED BY <2>3, <2>5, <3>1
  <2>7. ASSUME NEW l \in Lits
        PROVE  /\ W2[l] \in Seq(Nat) /\ Continues(W[l], W2[l])
               /\ \A i \in DOMAIN W2[l] : W2[l][i] \in DOMAIN T2 /\ l \in T2[W2[l][i]].lits
    <3>1. PICK q, n, s : q = W[l] /\ n = Len(T) + 1 /\ s = Append(q, n)
      OBVIOUS
    <3>2. q \in Seq(Nat) /\ \A i \in DOMAIN q : q[i] \in DOMAIN T2 /\ l \in T2[q[i]].lits
      BY <1>3, <2>4, <3>1 DEF Continues
    <3>3. CASE l \in c
      <4>1. n \in Nat
        BY <1>3, <3>1
      <4>2. /\ s \in Seq(Nat) /\ s[Len(q) + 1] = n
            /\ DOMAIN s = DOMAIN q \cup {Len(q) + 1} /\ Continues(q, s)
        <5>1. q \in Seq(Nat) /\ Appends(s, q, n)
          BY <3>1, <3>2 DEF Appends
        <5> QED BY <4>1, <5>1, AppendNumber
      <4>3. W2[l] = s
        BY <2>5, <3>1, <3>3
      <4>4. \A i \in DOMAIN s : s[i] \in DOMAIN T2 /\ l \in T2[s[i]].lits
        BY <2>2, <2>4, <3>1, <3>2, <3>3, <4>2, SMTT(30) DEF Continues
      <4> QED BY <3>1, <4>2, <4>3, <4>4
    <3>4. CASE l \notin c
      <4>1. W2[l] = q /\ Continues(q, q)
        BY <2>5, <3>1, <3>2, <3>4, ContinuesSame
      <4> QED BY <3>1, <3>2, <4>1
    <3> QED BY <3>3, <3>4
  <2>8. W2 \in [Lits -> Seq(Nat)]
    BY <2>5, <2>7
  <2>9. /\ e \in ClauseDBType /\ e.tDB = T2 /\ e.uDB = d.uDB /\ e.bDB = d.bDB
        /\ e.ternaryWatches = W2 /\ e.nDB = d.nDB
    BY <1>1, <2>4, <2>6, <2>8 DEF ClauseDBType
  <2>10. \A i \in DOMAIN T2 : Follows(P, T2[i].lits)
    BY <1>3, <2>2, <2>4 DEF Continues
  <2>11. DbInv(e, P)
    BY <2>7, <2>9, <2>10 DEF DbInv, DbFollows, DbLinked
  <2>12. Len(T) <= Len(T2) /\ \A i \in DOMAIN T : i \in DOMAIN T2 /\ T2[i].lits = T[i].lits
    BY <1>3, <2>4 DEF Continues
  <2>13. Extends(d, e)
    BY <1>1, <1>2, <2>7, <2>9, <2>12, ExtendsSame DEF Extends
  <2>14. EntryFor(T, original, last) = Len(T) + 1
    BY <1>6 DEF EntryFor
  <2>15. ~original => last + 1 <= Len(T2)
    BY <1>3, <1>4, <1>6, <2>4 DEF AlreadyInList
  <2> QED BY <1>2, <2>2, <2>4, <2>9, <2>11, <2>13, <2>14, <2>15
<1> QED BY <1>5, <1>6

\* insert_nary_clause
LEMMA NaryInserted ==
    ASSUME NEW d, NEW P, DbInv(d, P), NEW c \in Clause, Follows(P, c), Cardinality(c) > 3,
           NEW original \in BOOLEAN, NEW last \in Nat, NEW w,
           last <= Len(d.nDB),
           AlreadyInList(d.nDB, original, last)
              => w \in Workers /\ c = d.nDB[last + 1].lits,
           NEW e, e = InsertNary(d, c, original, w, last)
    PROVE  /\ DbInv(e, P) /\ Extends(d, e)
           /\ ~original => last + 1 \in DOMAIN e.nDB /\ e.nDB[last + 1].lits = c
                           /\ last + 1 <= Len(e.nDB)
<1>1. d \in ClauseDBType
  BY DEF DbInv
<1>2. PICK T : T = d.nDB
  OBVIOUS
<1>3. /\ T \in Seq(NaryEntry) /\ Len(T) \in Nat /\ DOMAIN T = 1..Len(T)
      /\ \A i \in DOMAIN T : Follows(P, T[i].lits) /\ Cardinality(T[i].lits) > 3
  BY <1>1, <1>2, DbFields DEF DbInv, DbLinked, DbFollows
<1>4. last <= Len(T) /\ (AlreadyInList(T, original, last) => w \in Workers /\ c = T[last + 1].lits)
  BY <1>2
<1>5. CASE AlreadyInList(T, original, last)
  <2>1. last + 1 \in DOMAIN T /\ T[last + 1].lits = c
    BY <1>3, <1>4, <1>5 DEF AlreadyInList
  <2>2. PICK T2 : T2 = [T EXCEPT ![last + 1].flags[w] = TRUE]
    OBVIOUS
  <2>3. /\ T2 \in Seq(NaryEntry) /\ Len(T2) = Len(T) /\ DOMAIN T2 = DOMAIN T
        /\ \A k \in DOMAIN T : T2[k].lits = T[k].lits
    <3>1. PICK i, v : i = last + 1 /\ v = TRUE
      OBVIOUS
    <3>2. T \in Seq(NaryEntry) /\ i \in DOMAIN T /\ v \in BOOLEAN /\ w \in Workers
      BY <1>3, <1>4, <1>5, <2>1, <3>1
    <3>3. Flagged(T2, T, i, w, v)
      BY <2>2, <3>1 DEF Flagged
    <3> QED BY <3>2, <3>3, NaryFlagChanged
  <2>4. e = [d EXCEPT !.nDB[last + 1].flags[w] = TRUE]
    BY <1>2, <1>5 DEF InsertNary
  <2>5. e = [d EXCEPT !.nDB = T2]
    BY <1>1, <1>2, <2>2, <2>4 DEF ClauseDBType
  <2>6. /\ e \in ClauseDBType /\ e.nDB = T2 /\ e.uDB = d.uDB /\ e.bDB = d.bDB
        /\ e.ternaryWatches = d.ternaryWatches /\ e.tDB = d.tDB
    BY <1>1, <1>2, <2>3, <2>5 DEF ClauseDBType
  <2>7. DbInv(e, P)
    BY <1>2, <1>3, <2>3, <2>6 DEF DbInv, DbFollows, DbLinked
  <2>8. Extends(d, e)
    BY <1>1, <1>2, <1>3, <2>3, <2>6, ExtendsSame DEF Extends
  <2>9. last + 1 <= Len(T2)
    BY <1>3, <2>1, <2>3
  <2> QED BY <1>2, <2>1, <2>3, <2>6, <2>7, <2>8, <2>9
<1>6. CASE ~AlreadyInList(T, original, last)
  <2>1. PICK x : x = [lits |-> c, flags |-> Flags(original, w), original |-> original]
    OBVIOUS
  <2>2. x \in NaryEntry /\ x.lits = c
    BY <2>1 DEF NaryEntry, Flags
  <2>3. PICK T2 : T2 = Append(T, x)
    OBVIOUS
  <2>4. /\ T2 \in Seq(NaryEntry) /\ Len(T2) = Len(T) + 1 /\ T2[Len(T) + 1] = x
        /\ DOMAIN T2 = DOMAIN T \cup {Len(T) + 1} /\ Continues(T, T2)
    <3>1. T \in Seq(NaryEntry) /\ x \in NaryEntry /\ Appends(T2, T, x)
      BY <1>3, <2>2, <2>3 DEF Appends
    <3> QED BY <3>1, AppendContinues
  <2>5. e = [d EXCEPT !.nDB = T2]
    <3>1. e = [d EXCEPT !.nDB = Append(T, x)]
      BY <1>2, <1>6, <2>1 DEF InsertNary
    <3> QED BY <2>3, <3>1
  <2>6. /\ e \in ClauseDBType /\ e.nDB = T2 /\ e.uDB = d.uDB /\ e.bDB = d.bDB
        /\ e.ternaryWatches = d.ternaryWatches /\ e.tDB = d.tDB
    BY <1>1, <2>4, <2>5 DEF ClauseDBType
  <2>7. \A i \in DOMAIN T2 : Follows(P, T2[i].lits) /\ Cardinality(T2[i].lits) > 3
    BY <1>3, <2>2, <2>4 DEF Continues
  <2>8. DbInv(e, P)
    BY <2>6, <2>7 DEF DbInv, DbFollows, DbLinked
  <2>9. Len(T) <= Len(T2) /\ \A i \in DOMAIN T : i \in DOMAIN T2 /\ T2[i].lits = T[i].lits
    BY <1>3, <2>4 DEF Continues
  <2>10. Extends(d, e)
    BY <1>1, <1>2, <2>6, <2>9, ExtendsSame DEF Extends
  <2>11. ~original => last = Len(T)
    BY <1>3, <1>4, <1>6 DEF AlreadyInList
  <2>12. ~original => last + 1 \in DOMAIN T2 /\ T2[last + 1].lits = c /\ last + 1 <= Len(T2)
    BY <1>3, <2>2, <2>4, <2>11
  <2> QED BY <2>6, <2>8, <2>10, <2>12
<1> QED BY <1>5, <1>6

\* A clause deleted by one worker is cleared of its flag.
LEMMA FlagClearedKeeps ==
    ASSUME NEW d, NEW P, DbInv(d, P), NEW pos \in DOMAIN d.nDB, NEW w \in Workers,
           NEW e, e = FlagCleared(d, pos, w)
    PROVE  DbInv(e, P) /\ Extends(d, e)
<1>1. d \in ClauseDBType
  BY DEF DbInv
<1>2. PICK T : T = d.nDB
  OBVIOUS
<1>3. /\ T \in Seq(NaryEntry) /\ Len(T) \in Nat /\ DOMAIN T = 1..Len(T) /\ pos \in DOMAIN T
      /\ \A i \in DOMAIN T : Follows(P, T[i].lits) /\ Cardinality(T[i].lits) > 3
  BY <1>1, <1>2, DbFields DEF DbInv, DbLinked, DbFollows
<1>4. PICK T2 : T2 = [T EXCEPT ![pos].flags[w] = FALSE]
  OBVIOUS
<1>5. /\ T2 \in Seq(NaryEntry) /\ Len(T2) = Len(T) /\ DOMAIN T2 = DOMAIN T
      /\ \A k \in DOMAIN T : T2[k].lits = T[k].lits
  <2>1. T \in Seq(NaryEntry) /\ pos \in DOMAIN T
    BY <1>3
  <2>2. PICK v : v = FALSE
    OBVIOUS
  <2>3. Flagged(T2, T, pos, w, v) /\ v \in BOOLEAN
    BY <1>4, <2>2 DEF Flagged
  <2> QED BY <2>1, <2>3, NaryFlagChanged
<1>6. e = [d EXCEPT !.nDB = T2]
  BY <1>1, <1>2, <1>4 DEF ClauseDBType, FlagCleared
<1>7. /\ e \in ClauseDBType /\ e.nDB = T2 /\ e.uDB = d.uDB /\ e.bDB = d.bDB
      /\ e.ternaryWatches = d.ternaryWatches /\ e.tDB = d.tDB
  BY <1>1, <1>5, <1>6 DEF ClauseDBType
<1>8. DbInv(e, P)
  BY <1>3, <1>5, <1>7 DEF DbInv, DbFollows, DbLinked
<1>9. Extends(d, e)
  BY <1>1, <1>2, <1>3, <1>5, <1>7, ExtendsSame DEF Extends
<1> QED BY <1>8, <1>9

-----------------------------------------------------------------------------
(* Choosing literals of a clause *)

LEMMA ClauseSize ==
    ASSUME NEW c \in Clause
    PROVE  /\ IsFiniteSet(c) /\ Cardinality(c) \in Nat
           /\ Cardinality(c) = 0 <=> c = {}
           /\ \A x \in c : /\ Cardinality(c \ {x}) = Cardinality(c) - 1
                           /\ Cardinality(c) = 1 => c = {x}
<1>1. IsFiniteSet(-N..N)
  BY NumVarsAssumption, FS_Interval
<1>2. c \subseteq -N..N
  BY DEF Clause, Lits
<1>3. IsFiniteSet(c) /\ Cardinality(c) \in Nat
  BY <1>1, <1>2, FS_Subset, FS_CardinalityType
<1>4. Cardinality(c) = 0 <=> c = {}
  BY <1>3, FS_EmptySet
<1>5. ASSUME NEW x \in c
      PROVE  /\ Cardinality(c \ {x}) = Cardinality(c) - 1
             /\ Cardinality(c) = 1 => c = {x}
  <2>1. IsFiniteSet(c \ {x}) /\ Cardinality(c \ {x}) = Cardinality(c) - 1
    BY <1>3, FS_RemoveElement
  <2>2. Cardinality(c) = 1 => c \ {x} = {}
    BY <2>1, FS_EmptySet
  <2> QED BY <2>1, <2>2
<1> QED BY <1>3, <1>4, <1>5

LEMMA ClauseOfTwo ==
    ASSUME NEW c \in Clause, Cardinality(c) = 2, NEW x \in c
    PROVE  /\ \E y \in c : y # x
           /\ \A y \in c : y # x => c = {x, y}
<1>1. Cardinality(c \ {x}) = 1 /\ c \ {x} \in Clause
  BY ClauseSize DEF Clause
<1>2. c \ {x} # {}
  BY <1>1, ClauseSize
<1>3. \A y \in c \ {x} : c \ {x} = {y}
  BY <1>1, ClauseSize
<1> QED BY <1>2, <1>3

\* The least literal: literals may be negative, so the set is moved up by N first.
LEMMA LeastLiteral ==
    ASSUME NEW c \in Clause, c # {}
    PROVE  Min(c) \in c /\ \A l \in c : Min(c) <= l
<1> DEFINE S == {l + N : l \in c}
<1>1. \A l \in c : l \in Int /\ l + N \in Nat
  BY NumVarsAssumption DEF Clause, Lits
<1>2. S \in SUBSET Nat /\ S # {}
  BY <1>1
<1>3. PICK m \in S : \A k \in S : m <= k
  <2> HIDE DEF S
  <2> QED BY <1>2, HasSmallest
<1>4. PICK x \in c : m = x + N
  OBVIOUS
<1>5. \A l \in c : x + N <= l + N
  BY <1>3, <1>4
<1>6. \A l \in c : x <= l
  BY <1>1, <1>5, NumVarsAssumption
<1> QED BY <1>6 DEF Min

\* What azuDICI_init_thcdb watches.
LEMMA FirstTwo ==
    ASSUME NEW c \in Clause, Cardinality(c) > 1
    PROVE  Min(c) \in c /\ Second(c) \in c /\ Min(c) # Second(c)
<1>1. c # {} /\ Min(c) \in c
  BY ClauseSize, LeastLiteral
<1>2. c \ {Min(c)} \in Clause /\ Cardinality(c \ {Min(c)}) = Cardinality(c) - 1
  BY <1>1, ClauseSize DEF Clause
<1>3. c \ {Min(c)} # {}
  BY <1>2, ClauseSize
<1>4. Second(c) \in c \ {Min(c)}
  BY <1>2, <1>3, LeastLiteral DEF Second
<1> QED BY <1>1, <1>4

\* add_input_literal, at the end of a clause.
LEMMA InputInserted ==
    ASSUME NEW d, NEW P, DbInv(d, P), NEW c \in Clause, Follows(P, c),
           NEW e, e = InsertInput(d, c)
    PROVE  DbInv(e, P) /\ Extends(d, e)
<1>1. d \in ClauseDBType /\ Cardinality(c) \in Nat
  BY ClauseSize DEF DbInv
<1>2. /\ 0 <= Len(d.uDB) /\ 0 <= Len(d.tDB) /\ 0 <= Len(d.nDB)
      /\ \A l \in Lits : 0 <= Len(d.bDB[l])
  BY <1>1, DbFields
<1>3. \A list, last : ~AlreadyInList(list, TRUE, last)
  BY DEF AlreadyInList
<1>4. CASE Cardinality(c) = 0
  BY <1>1, <1>4, ExtendsSame DEF InsertInput
<1>5. CASE Cardinality(c) = 1
  <2>1. PICK x : x = CHOOSE l \in c : TRUE
    OBVIOUS
  <2>2. x \in c /\ c = {x} /\ x \in Lits
    BY <1>5, <2>1, ClauseSize DEF Clause
  <2>3. e = InsertUnit(d, x, TRUE, 0)
    BY <1>5, <2>1 DEF InsertInput
  <2> QED BY <1>2, <2>2, <2>3, UnitInserted
<1>6. CASE Cardinality(c) = 2
  <2>1. PICK x, y : x = (CHOOSE l \in c : TRUE) /\ y = CHOOSE l \in c : l # x
    OBVIOUS
  <2>2. c # {} /\ x \in c
    BY <1>6, <2>1, ClauseSize
  <2>3. x # y /\ c = {x, y} /\ x \in Lits /\ y \in Lits
    <3>1. \E l \in c : l # x
      BY <1>6, <2>2, ClauseOfTwo
    <3>2. y \in c /\ y # x
      BY <2>1, <3>1
    <3> QED BY <1>6, <2>2, <3>2, ClauseOfTwo DEF Clause
  <2>4. e = InsertBinary(d, x, y, TRUE, 0)
    BY <1>6, <2>1 DEF InsertInput
  <2>5. -x \in Lits /\ -y \in Lits
    BY <2>3, LitFacts
  <2>6. Follows(P, {x, y}) /\ 0 <= Len(d.bDB[-x]) /\ 0 <= Len(d.bDB[-y])
    BY <1>2, <2>3, <2>5
  <2> QED BY <1>3, <2>3, <2>4, <2>6, BinaryInserted
<1>7. CASE Cardinality(c) = 3
  <2>1. e = InsertTernary(d, c, TRUE, 0, 0)
    BY <1>7 DEF InsertInput
  <2>2. ASSUME NEW original \in BOOLEAN, NEW w, NEW last \in Nat,
               last <= Len(d.tDB), ~AlreadyInList(d.tDB, original, last),
               e = InsertTernary(d, c, original, w, last)
        PROVE  DbInv(e, P) /\ Extends(d, e)
    BY <2>2, TernaryInserted
  <2> QED BY <1>2, <1>3, <2>1, <2>2
<1>8. CASE Cardinality(c) > 3
  <2>1. e = InsertNary(d, c, TRUE, 0, 0)
    BY <1>8 DEF InsertInput
  <2>2. ASSUME NEW original \in BOOLEAN, NEW w, NEW last \in Nat,
               last <= Len(d.nDB), ~AlreadyInList(d.nDB, original, last),
               e = InsertNary(d, c, original, w, last)
        PROVE  DbInv(e, P) /\ Extends(d, e)
    BY <1>8, <2>2, NaryInserted
  <2> QED BY <1>2, <1>3, <2>1, <2>2
<1> QED BY <1>1, <1>4, <1>5, <1>6, <1>7, <1>8
-----------------------------------------------------------------------------
(* Reasons *)

LEMMA ReasonLits ==
    ASSUME NEW th \in Seq(ThClause), NEW d \in ClauseDBType, NEW r \in Reason,
           NEW l \in Lits, Refers(th, d, r)
    PROVE  /\ ReasonClause(th, d, r, l) \in Clause
           /\ r # NoReason /\ r.size # 1
<1>1. r.size \in Nat /\ r.size > 1
  BY DEF Reason, Refers
<1>2. CASE r.size = 2
  <2>1. ReasonClause(th, d, r, l) = {l, r.lit}
    BY <1>2 DEF ReasonClause
  <2>2. r.lit \in Lits
    BY <1>2 DEF Refers
  <2> QED BY <1>1, <2>1, <2>2 DEF Clause, NoReason
<1>3. CASE r.size = 3
  <2>1. ReasonClause(th, d, r, l) = d.tDB[r.ptr].lits /\ r.ptr \in DOMAIN d.tDB
    BY <1>3 DEF ReasonClause, Refers
  <2> QED BY <1>1, <2>1, DbFields DEF NoReason
<1>4. CASE r.size > 3
  <2>1. /\ ReasonClause(th, d, r, l) = d.nDB[th[r.ptr].pos].lits
        /\ th[r.ptr].pos \in DOMAIN d.nDB
    BY <1>1, <1>4 DEF ReasonClause, Refers
  <2> QED BY <1>1, <2>1, DbFields DEF NoReason
<1> QED BY <1>1, <1>2, <1>3, <1>4

\* No place of thcdb changes the entry it stands for.
PlacesKept(th, th2) == \A i \in DOMAIN th : i \in DOMAIN th2 /\ th2[i].pos = th[i].pos

\* A reason still means the same when the database grows and thcdb keeps its places.
LEMMA ReasonStays ==
    ASSUME NEW th, NEW th2, PlacesKept(th, th2),
           NEW d \in ClauseDBType, NEW e, Extends(d, e), NEW r \in Reason, NEW l,
           Refers(th, d, r)
    PROVE  Refers(th2, e, r) /\ ReasonClause(th2, e, r, l) = ReasonClause(th, d, r, l)
<1>1. r.size \in Nat /\ r.size > 1
  BY DEF Reason, Refers
<1>2. CASE r.size = 2
  BY <1>2 DEF Refers, ReasonClause
<1>3. CASE r.size = 3
  <2>1. r.ptr \in DOMAIN d.tDB
    BY <1>3 DEF Refers
  <2>2. r.ptr \in DOMAIN e.tDB /\ e.tDB[r.ptr].lits = d.tDB[r.ptr].lits
    BY <2>1 DEF Extends
  <2> QED BY <1>3, <2>2 DEF Refers, ReasonClause
<1>4. CASE r.size > 3
  <2>1. r.ptr \in DOMAIN th /\ th[r.ptr].pos \in DOMAIN d.nDB
    BY <1>1, <1>4 DEF Refers
  <2>2. r.ptr \in DOMAIN th2 /\ th2[r.ptr].pos = th[r.ptr].pos
    BY <2>1 DEF PlacesKept
  <2>3. /\ th[r.ptr].pos \in DOMAIN e.nDB
        /\ e.nDB[th[r.ptr].pos].lits = d.nDB[th[r.ptr].pos].lits
    BY <2>1 DEF Extends
  <2>4. Refers(th2, e, r)
    BY <1>1, <1>4, <2>2, <2>3 DEF Refers
  <2>5. /\ ReasonClause(th2, e, r, l) = e.nDB[th2[r.ptr].pos].lits
        /\ ReasonClause(th, d, r, l) = d.nDB[th[r.ptr].pos].lits
    BY <1>1, <1>4 DEF ReasonClause
  <2> QED BY <2>2, <2>3, <2>4, <2>5
<1> QED BY <1>1, <1>2, <1>3, <1>4

LEMMA BacksStays ==
    ASSUME NEW th, NEW th2, PlacesKept(th, th2),
           NEW d \in ClauseDBType, NEW e, Extends(d, e), NEW P, NEW Q, P \subseteq Q,
           NEW r \in Reason, NEW l, NEW m, Backs(m, th, d, P, r, l)
    PROVE  Backs(m, th2, e, Q, r, l)
<1>1. Refers(th2, e, r) /\ ReasonClause(th2, e, r, l) = ReasonClause(th, d, r, l)
  BY ReasonStays DEF Backs
<1>2. Follows(Q, ReasonClause(th, d, r, l))
  BY FollowsFromMore DEF Backs
<1> QED BY <1>1, <1>2 DEF Backs

LEMMA ModelInvStays ==
    ASSUME NEW th, NEW th2, PlacesKept(th, th2),
           NEW d \in ClauseDBType, NEW e, Extends(d, e), NEW P, NEW Q, P \subseteq Q,
           NEW m \in ModelType, ModelInv(m, th, d, P)
    PROVE  ModelInv(m, th2, e, Q)
<1>1. ReasonsInv(m, th2, e, Q)
  <2> SUFFICES ASSUME NEW l \in Lits, Implied(m, l)
        PROVE  /\ Backs(m, th2, e, Q, ReasonOfLit(m, l), l)
               /\ \A k \in ReasonClause(th2, e, ReasonOfLit(m, l), l) \ {l} :
                     LitHeight(m, k) < LitHeight(m, l)
    BY DEF ReasonsInv
  <2>1. /\ Backs(m, th, d, P, ReasonOfLit(m, l), l)
        /\ \A k \in ReasonClause(th, d, ReasonOfLit(m, l), l) \ {l} :
              LitHeight(m, k) < LitHeight(m, l)
    BY DEF ModelInv, ReasonsInv
  <2>2. PICK r \in Reason : r = ReasonOfLit(m, l)
    BY LitFacts DEF ModelType, ReasonOfLit
  <2>3. Backs(m, th2, e, Q, r, l)
    BY <2>1, <2>2, BacksStays
  <2>4. ReasonClause(th2, e, r, l) = ReasonClause(th, d, r, l)
    BY <2>1, <2>2, ReasonStays DEF Backs
  <2> QED BY <2>1, <2>2, <2>3, <2>4
<1>2. FixedFollow(m, Q)
  BY FollowsFromMore DEF ModelInv, FixedFollow
<1> QED BY <1>1, <1>2 DEF ModelInv

\* At level 0 a reason whose other literals are false makes its literal follow.
LEMMA BackedAtZero ==
    ASSUME NEW th \in Seq(ThClause), NEW d \in ClauseDBType, NEW P,
           NEW m \in ModelType, TrailConsistent(m), FixedFollow(m, P),
           m.decisionLvl = 0,
           NEW r \in Reason, NEW l \in Lits, Backs(m, th, d, P, r, l)
    PROVE  Follows(P, {l})
<1> DEFINE c == ReasonClause(th, d, r, l)
<1>1. c \in Clause /\ Follows(P, c) /\ \A k \in c \ {l} : IsFalse(m, k)
  BY ReasonLits DEF Backs
<1>2. ASSUME NEW k \in c \ {l} PROVE k \in Lits /\ Follows(P, {-k})
  <2>1. k \in Lits /\ IsFalse(m, k)
    BY <1>1, <1>2 DEF Clause
  <2>2. /\ -k \in Lits /\ IsTrue(m, -k) /\ LitDl(m, -k) \in Nat
        /\ LitDl(m, -k) <= 0
    BY <2>1, FalseLits
  <2> QED BY <2>1, <2>2 DEF FixedFollow
<1> QED BY <1>1, <1>2, FollowsWithout

-----------------------------------------------------------------------------
(* Steps of the model *)

\* What is assigned in m is so in n, where it was.
KeptLit(m, n, k) == /\ n.value[k] = m.value[k] /\ LitDl(n, k) = LitDl(m, k)
                    /\ LitHeight(n, k) = LitHeight(m, k)
                    /\ ReasonOfLit(n, k) = ReasonOfLit(m, k)
KeepsAssigned(m, n) == \A k \in Lits : ~IsUndef(m, k) => KeptLit(m, n, k)

LEMMA ValueOfLit ==
    ASSUME NEW m \in ModelType, NEW k \in Lits
    PROVE  /\ m.value[k] \in {"true", "false", "undef"}
           /\ IsUndef(m, k) \/ IsTrue(m, k) \/ IsFalse(m, k)
           /\ ~(IsTrue(m, k) /\ IsFalse(m, k)) /\ ~(IsTrue(m, k) /\ IsUndef(m, k))
           /\ ~(IsFalse(m, k) /\ IsUndef(m, k))
BY DEF ModelType, Values, IsTrue, IsFalse, IsUndef

LEMMA NegationUndef ==
    ASSUME NEW m \in ModelType, TrailConsistent(m), NEW k \in Lits, IsUndef(m, k)
    PROVE  IsUndef(m, -k) /\ IsUndefVar(m, var(k))
<1>1. -k \in Lits /\ -(-k) = k
  BY LitFacts
<1>2. ~IsTrue(m, -k) /\ ~IsFalse(m, -k)
  BY <1>1, ValueOfLit DEF TrailConsistent, StackMatchesValues
<1>3. IsUndef(m, -k)
  BY <1>1, <1>2, ValueOfLit
<1>4. var(k) = k \/ var(k) = -k
  BY DEF var
<1> QED BY <1>3, <1>4 DEF IsUndef, IsUndefVar

\* A literal that is set true, of level 0 or not.
LEMMA SetTrueKeeps ==
    ASSUME NEW m \in ModelType, TrailConsistent(m), NEW l \in Lits, IsUndef(m, l),
           NEW r \in Reason, NEW n, n = SetTrueWithReason(m, l, r)
    PROVE  /\ n \in ModelType /\ KeepsAssigned(m, n)
           /\ n.decisionLvl = m.decisionLvl
           /\ IsTrue(n, l) /\ LitDl(n, l) = m.decisionLvl
           /\ LitHeight(n, l) = Len(m.stack) /\ ReasonOfLit(n, l) = r
           /\ \A k \in Lits : IsTrue(n, k) => k = l \/ IsTrue(m, k)
           /\ Free(n) = Free(m) \ {var(l)}
<1>1. /\ n \in ModelType /\ n.value[l] = "true" /\ n.value[-l] = "false"
      /\ \A k \in Lits \ {l, -l} : n.value[k] = m.value[k]
      /\ n.reason[var(l)] = r
      /\ n.level[var(l)] = m.decisionLvl /\ n.height[var(l)] = Len(m.stack)
      /\ \A v \in Vars \ {var(l)} : /\ n.reason[v] = m.reason[v]
                                     /\ n.level[v] = m.level[v]
                                     /\ n.height[v] = m.height[v]
      /\ n.decisionLvl = m.decisionLvl
  BY SetTrueFields
<1>2. IsUndef(m, -l)
  BY NegationUndef
<1>3. ASSUME NEW k \in Lits, ~IsUndef(m, k) PROVE KeptLit(m, n, k)
  <2>1. k # l /\ k # -l
    BY <1>2, <1>3
  <2>2. var(k) \in Vars \ {var(l)}
    BY <2>1, LitFacts
  <2> QED BY <1>1, <2>1, <2>2 DEF KeptLit, LitDl, LitHeight, ReasonOfLit
<1>4. ASSUME NEW k \in Lits, IsTrue(n, k), k # l PROVE IsTrue(m, k)
  BY <1>1, <1>4 DEF IsTrue
<1>5. Free(n) = Free(m) \ {var(l)}
  <2>1. ASSUME NEW v \in Vars
        PROVE  v \in Free(n) <=> v \in Free(m) /\ v # var(l)
    <3>1. v \in Lits /\ var(v) = v
      BY NumVarsAssumption DEF Vars, Lits, var
    <3>2. CASE v = l \/ v = -l
      <4>1. var(l) = v
        BY <3>1, <3>2, LitFacts
      <4> QED BY <1>1, <3>2, <4>1 DEF Free, IsUndefVar
    <3>3. CASE v # l /\ v # -l
      <4>1. var(l) # v
        BY <3>1, <3>3, LitFacts
      <4> QED BY <1>1, <3>1, <3>3, <4>1 DEF Free, IsUndefVar
    <3> QED BY <3>2, <3>3
  <2> QED BY <2>1 DEF Free
<1> QED BY <1>1, <1>3, <1>4, <1>5 DEF KeepsAssigned, IsTrue, LitDl, LitHeight, ReasonOfLit

\* A clause that backs a literal is still false when more is assigned.
LEMMA BacksKept ==
    ASSUME NEW th \in Seq(ThClause), NEW d \in ClauseDBType, NEW P,
           NEW m \in ModelType, NEW n, KeepsAssigned(m, n),
           NEW r \in Reason, NEW l \in Lits, Backs(m, th, d, P, r, l)
    PROVE  Backs(n, th, d, P, r, l)
<1>1. ReasonClause(th, d, r, l) \in Clause
  BY ReasonLits DEF Backs
<1>2. \A k \in ReasonClause(th, d, r, l) \ {l} : IsFalse(n, k)
  BY <1>1, ValueOfLit DEF Backs, Clause, KeepsAssigned, KeptLit, IsFalse, IsUndef
<1> QED BY <1>2 DEF Backs

LEMMA SetTrueReasons ==
    ASSUME NEW th \in Seq(ThClause), NEW d \in ClauseDBType, NEW P,
           NEW m \in ModelType, TrailConsistent(m), ReasonsInv(m, th, d, P),
           NEW l \in Lits, IsUndef(m, l), NEW r \in Reason,
           r.size = 1 \/ Backs(m, th, d, P, r, l),
           NEW n, n = SetTrueWithReason(m, l, r)
    PROVE  ReasonsInv(n, th, d, P)
<1> SUFFICES ASSUME NEW k \in Lits, Implied(n, k)
      PROVE  /\ Backs(n, th, d, P, ReasonOfLit(n, k), k)
             /\ \A j \in ReasonClause(th, d, ReasonOfLit(n, k), k) \ {k} :
                   LitHeight(n, j) < LitHeight(n, k)
  BY DEF ReasonsInv
<1>1. /\ KeepsAssigned(m, n) /\ LitHeight(n, l) = Len(m.stack)
      /\ ReasonOfLit(n, l) = r
      /\ \A j \in Lits : IsTrue(n, j) => j = l \/ IsTrue(m, j)
  BY SetTrueKeeps
<1>2. ASSUME NEW s \in Reason, Backs(m, th, d, P, s, k),
             NEW j \in ReasonClause(th, d, s, k) \ {k}
      PROVE  /\ j \in Lits /\ IsFalse(m, j) /\ LitHeight(n, j) = LitHeight(m, j)
             /\ LitHeight(m, j) < Len(m.stack)
  <2>1. j \in Lits /\ IsFalse(m, j)
    BY <1>2, ReasonLits DEF Backs, Clause
  <2>2. ~IsUndef(m, j)
    BY <2>1, ValueOfLit
  <2> QED BY <1>1, <2>1, <2>2, FalseLits DEF KeepsAssigned, KeptLit
<1>3. CASE k = l
  <2>1. r.size # 1
    BY <1>1, <1>3 DEF Implied, LitIsDecision
  <2>2. Backs(m, th, d, P, r, k)
    BY <1>3, <2>1
  <2>3. Backs(n, th, d, P, r, k)
    BY <1>1, <2>2, BacksKept
  <2> QED BY <1>1, <1>2, <1>3, <2>2, <2>3
<1>4. CASE k # l
  <2>1. IsTrue(m, k)
    BY <1>1, <1>4 DEF Implied
  <2>2. KeptLit(m, n, k)
    BY <1>1, <2>1, ValueOfLit DEF KeepsAssigned
  <2>3. PICK s \in Reason : s = ReasonOfLit(m, k)
    BY LitFacts DEF ModelType, ReasonOfLit
  <2>4. Implied(m, k)
    BY <2>1, <2>2 DEF Implied, KeptLit, LitIsDecision
  <2>5. /\ Backs(m, th, d, P, s, k)
        /\ \A j \in ReasonClause(th, d, s, k) \ {k} : LitHeight(m, j) < LitHeight(m, k)
    BY <2>3, <2>4 DEF ReasonsInv
  <2>6. Backs(n, th, d, P, s, k)
    BY <1>1, <2>5, BacksKept
  <2>7. ReasonOfLit(n, k) = s /\ LitHeight(n, k) = LitHeight(m, k)
    BY <2>2, <2>3 DEF KeptLit
  <2> QED BY <1>2, <2>5, <2>6, <2>7
<1> QED BY <1>3, <1>4

LEMMA SetTrueModelInv ==
    ASSUME NEW th \in Seq(ThClause), NEW d \in ClauseDBType, NEW P,
           NEW m \in ModelType, ModelInv(m, th, d, P), CursorsGood(m),
           NEW l \in Lits, IsUndef(m, l), NEW r \in Reason,
           \/ Backs(m, th, d, P, r, l)
           \/ r.size = 1 /\ m.decisionLvl = 0 /\ Follows(P, {l}),
           NEW n, n = SetTrueWithReason(m, l, r)
    PROVE  n \in ModelType /\ ModelInv(n, th, d, P) /\ CursorsGood(n)
<1>1. /\ TrailConsistent(m) /\ LevelsNotEmpty(m) /\ ReasonsInv(m, th, d, P)
      /\ FixedFollow(m, P)
  BY DEF ModelInv
<1>2. /\ n \in ModelType /\ Len(n.stack) = Len(m.stack) + 1
      /\ n.stack[Len(m.stack) + 1] = l
      /\ \A i \in 1..Len(m.stack) : n.stack[i] = m.stack[i]
      /\ n.last = m.last
  BY SetTrueFields, SMTT(30)
<1>3. Len(m.stack) \in Nat /\ l # DlMarker
  <2>1. Len(m.stack) \in Nat
    BY DEF ModelType
  <2> QED BY <2>1, LitFacts
<1>4. Len(m.stack) > 0 => Top(m) # DlMarker
  BY DEF CursorsGood
<1>5. r.size = 1 => m.decisionLvl = 0
  BY ReasonLits DEF Backs
<1>6. m.decisionLvl \in Nat
  BY DEF ModelType
<1>7. TrailConsistent(n)
  BY <1>1, <1>4, <1>5, <1>6, SetTrueKeepsTrail
<1>8. ReasonsInv(n, th, d, P)
  BY <1>1, SetTrueReasons
<1>9. /\ KeepsAssigned(m, n)
      /\ IsTrue(n, l) /\ LitDl(n, l) = m.decisionLvl
      /\ \A k \in Lits : IsTrue(n, k) => k = l \/ IsTrue(m, k)
  BY <1>1, SetTrueKeeps
<1>10. FixedFollow(n, P)
  <2> SUFFICES ASSUME NEW k \in Lits, IsTrue(n, k), LitDl(n, k) = 0 PROVE Follows(P, {k})
    BY DEF FixedFollow
  <2>1. CASE k = l
    BY <1>1, <1>9, <2>1, BackedAtZero
  <2>2. CASE k # l
    <3>1. IsTrue(m, k)
      BY <1>9, <2>2
    <3>2. LitDl(m, k) = 0
      BY <1>9, <3>1, ValueOfLit DEF KeepsAssigned, KeptLit
    <3> QED BY <1>1, <3>1, <3>2 DEF FixedFollow
  <2> QED BY <2>1, <2>2
<1>11. LevelsNotEmpty(n)
  <2> SUFFICES ASSUME NEW i \in 2..Len(n.stack), n.stack[i - 1] = DlMarker
        PROVE  n.stack[i] # DlMarker
    BY DEF LevelsNotEmpty
  <2>1. i - 1 \in 1..Len(m.stack) /\ n.stack[i - 1] = m.stack[i - 1]
    BY <1>2, <1>3
  <2>2. CASE i = Len(m.stack) + 1
    BY <1>2, <1>3, <2>2
  <2>3. CASE i # Len(m.stack) + 1
    <3>1. i \in 2..Len(m.stack) /\ n.stack[i] = m.stack[i]
      BY <1>2, <1>3, <2>3
    <3> QED BY <1>1, <2>1, <3>1 DEF LevelsNotEmpty
  <2> QED BY <2>2, <2>3
<1>12. CursorsGood(n)
  <2>1. \A k \in Kinds : n.last[k] \in -1..(Len(n.stack) - 1)
    BY <1>2, <1>3 DEF CursorsGood
  <2>2. ASSUME NEW k \in Kinds, NEW i \in 1..Len(n.stack), n.stack[i] = DlMarker
        PROVE  i <= n.last[k] + 1
    <3>1. i \in 1..Len(m.stack) /\ m.stack[i] = DlMarker
      BY <1>2, <1>3, <2>2
    <3> QED BY <1>2, <3>1 DEF CursorsGood
  <2>3. Top(n) # DlMarker
    BY <1>2, <1>3 DEF Top
  <2> QED BY <2>1, <2>2, <2>3 DEF CursorsGood
<1> QED BY <1>1, <1>2, <1>7, <1>8, <1>10, <1>11, <1>12 DEF ModelInv

\* A decision, taken when everything has been propagated.
LEMMA DecisionModelInv ==
    ASSUME NEW th \in Seq(ThClause), NEW d \in ClauseDBType, NEW P,
           NEW m \in ModelType, ModelInv(m, th, d, P), CursorsGood(m),
           FullyPropagated(m),
           NEW l \in Lits, IsUndef(m, l),
           NEW n, n = SetTrueDecision(m, l)
    PROVE  /\ n \in ModelType /\ ModelInv(n, th, d, P) /\ CursorsGood(n)
           /\ Free(n) = Free(m) \ {var(l)}
           /\ KeepsAssigned(m, n)
<1>1. /\ TrailConsistent(m) /\ LevelsNotEmpty(m) /\ ReasonsInv(m, th, d, P)
      /\ FixedFollow(m, P)
  BY DEF ModelInv
<1>2. PICK p : p = PushMarker(m)
  OBVIOUS
<1>3. n = SetTrueWithReason(p, l, NoReason)
  BY <1>2 DEF SetTrueDecision, PushMarker
<1>4. /\ p \in ModelType /\ p.value = m.value /\ p.reason = m.reason
      /\ p.level = m.level /\ p.height = m.height
      /\ p.decisionLvl = m.decisionLvl + 1
  BY <1>2, PushMarkerFields
<1>5. TrailConsistent(p)
  BY <1>1, <1>2, PushMarkerKeepsTrail
<1>6. IsUndef(p, l) /\ NoReason \in Reason /\ NoReason.size = 1
  BY <1>4 DEF IsUndef, Reason, NoReason, ZeroLit
<1>7. ReasonsInv(p, th, d, P)
  BY <1>1, <1>4 DEF ReasonsInv, Backs, Implied, IsTrue, IsFalse, LitDl, LitHeight,
                    LitIsDecision, ReasonOfLit
<1>8. ReasonsInv(n, th, d, P)
  BY <1>3, <1>4, <1>5, <1>6, <1>7, SetTrueReasons
<1>9. /\ n \in ModelType /\ KeepsAssigned(p, n)
      /\ LitDl(n, l) = p.decisionLvl
      /\ \A k \in Lits : IsTrue(n, k) => k = l \/ IsTrue(p, k)
      /\ Free(n) = Free(p) \ {var(l)}
  BY <1>3, <1>4, <1>5, <1>6, SetTrueKeeps
<1>10. m.decisionLvl \in Nat
  BY DEF ModelType
<1>11. FixedFollow(n, P)
  <2> SUFFICES ASSUME NEW k \in Lits, IsTrue(n, k), LitDl(n, k) = 0 PROVE Follows(P, {k})
    BY DEF FixedFollow
  <2>1. k # l
    BY <1>4, <1>9, <1>10
  <2>2. IsTrue(p, k) /\ IsTrue(m, k)
    BY <1>4, <1>9, <2>1 DEF IsTrue
  <2>3. LitDl(p, k) = 0
    BY <1>4, <1>9, <2>2, ValueOfLit DEF KeepsAssigned, KeptLit
  <2>4. LitDl(m, k) = 0
    BY <1>4, <2>3 DEF LitDl
  <2> QED BY <1>1, <2>2, <2>4 DEF FixedFollow
<1>12. /\ TrailConsistent(n)
       /\ Len(n.stack) = Len(m.stack) + 2
       /\ n.stack[Len(m.stack) + 1] = DlMarker
       /\ n.stack[Len(m.stack) + 2] = l
       /\ \A i \in 1..Len(m.stack) : n.stack[i] = m.stack[i]
       /\ \A k \in Kinds : n.last[k] = m.last[k] + 1
  BY <1>1, DecisionKeepsTrail
<1>13. Len(m.stack) \in Nat
  BY DEF ModelType
<1>14. l # DlMarker
  BY LitFacts
<1>15. LevelsNotEmpty(n)
  <2> SUFFICES ASSUME NEW i \in 2..Len(n.stack), n.stack[i - 1] = DlMarker
        PROVE  n.stack[i] # DlMarker
    BY DEF LevelsNotEmpty
  <2>1. CASE i = Len(m.stack) + 2
    BY <1>12, <1>13, <1>14, <2>1
  <2>2. CASE i = Len(m.stack) + 1
    <3>1. Len(m.stack) > 0 /\ Len(m.stack) \in 1..Len(m.stack)
      BY <1>12, <1>13, <2>2
    <3>2. Top(m) = DlMarker
      BY <1>12, <1>13, <2>2, <3>1 DEF Top
    <3> QED BY <3>1, <3>2 DEF CursorsGood
  <2>3. CASE i \in 2..Len(m.stack)
    <3>1. n.stack[i] = m.stack[i] /\ m.stack[i - 1] = DlMarker
      BY <1>12, <1>13, <2>3, SMTT(30)
    <3> QED BY <1>1, <2>3, <3>1 DEF LevelsNotEmpty
  <2> QED BY <1>12, <1>13, <2>1, <2>2, <2>3
<1>16. CursorsGood(n)
  <2>1. \A k \in Kinds : m.last[k] = Len(m.stack) - 1
    BY DEF FullyPropagated, HasNext
  <2>2. ASSUME NEW k \in Kinds PROVE n.last[k] = Len(m.stack)
    <3>1. m.last[k] = Len(m.stack) - 1 /\ n.last[k] = m.last[k] + 1
      BY <1>12, <2>1
    <3> QED BY <1>13, <3>1
  <2>3. \A k \in Kinds : n.last[k] \in -1..(Len(n.stack) - 1)
    BY <1>12, <1>13, <2>2
  <2>4. ASSUME NEW k \in Kinds, NEW i \in 1..Len(n.stack), n.stack[i] = DlMarker
        PROVE  i <= n.last[k] + 1
    <3>1. i # Len(m.stack) + 2
      BY <1>12, <1>14, <2>4
    <3> QED BY <1>12, <1>13, <2>2, <3>1
  <2>5. Top(n) # DlMarker
    BY <1>12, <1>14 DEF Top
  <2> QED BY <2>3, <2>4, <2>5 DEF CursorsGood
<1>17. Free(n) = Free(m) \ {var(l)}
  BY <1>4, <1>9 DEF Free, IsUndefVar
<1>18. KeepsAssigned(m, n)
  BY <1>4, <1>9 DEF KeepsAssigned, KeptLit, IsUndef, LitDl, LitHeight, ReasonOfLit
<1> QED BY <1>8, <1>9, <1>11, <1>12, <1>15, <1>16, <1>17, <1>18 DEF ModelInv

\* A pop above level 0.  Only the literal on the top is no longer assigned.
LEMMA PopKeeps ==
    ASSUME NEW m \in ModelType, TrailConsistent(m), m.decisionLvl > 0,
           NEW n, n = PopAndSetUndef(m)
    PROVE  /\ n \in ModelType /\ TrailConsistent(n) /\ Len(m.stack) > 0
           /\ Top(m) # DlMarker =>
                /\ n.decisionLvl = m.decisionLvl
                /\ IsUndef(n, Top(m)) /\ IsUndef(n, -Top(m))
           /\ Top(m) = DlMarker => n.decisionLvl = m.decisionLvl - 1
           /\ n.level = m.level /\ n.height = m.height /\ n.reason = m.reason
           /\ \A k \in Lits : KeptLit(m, n, k) \/ (Top(m) # DlMarker /\ k \in {Top(m), -Top(m)})
           /\ \A k \in Lits : IsUndef(m, k) => IsUndef(n, k)
           /\ \A k \in Lits : ~IsUndef(m, k) /\ LitDl(m, k) < m.decisionLvl
                 => KeptLit(m, n, k)
           /\ Free(n) \subseteq Free(m) \cup ({var(Top(m))} \cap Vars)
<1>1. Len(m.stack) \in Nat /\ Len(m.stack) > 0
  BY AboveLevelZero DEF TrailConsistent
<1>2. n \in ModelType /\ TrailConsistent(n)
  BY PopKeepsTrail
<1>3. CASE Top(m) = DlMarker
  <2>1. /\ n.value = m.value /\ n.reason = m.reason
        /\ n.level = m.level /\ n.height = m.height
        /\ n.decisionLvl = m.decisionLvl - 1
    BY <1>1, <1>3, PopMarkerFields
  <2>2. \A k \in Lits : KeptLit(m, n, k)
    BY <2>1 DEF KeptLit, LitDl, LitHeight, ReasonOfLit
  <2>3. \A k \in Lits : IsUndef(m, k) => IsUndef(n, k)
    BY <2>1 DEF IsUndef
  <2>4. Free(n) = Free(m)
    BY <2>1 DEF Free, IsUndefVar
  <2>5. \A k \in Lits : KeptLit(m, n, k) \/ (Top(m) # DlMarker /\ k \in {Top(m), -Top(m)})
    BY <2>2
  <2>6. Free(n) \subseteq Free(m) \cup ({var(Top(m))} \cap Vars)
    BY <2>4
  <2> QED BY <1>1, <1>2, <1>3, <2>1, <2>2, <2>3, <2>5, <2>6
<1>4. CASE Top(m) # DlMarker
  <2>1. /\ n.value[Top(m)] = "undef" /\ n.value[-Top(m)] = "undef"
        /\ \A k \in Lits \ {Top(m), -Top(m)} : n.value[k] = m.value[k]
        /\ n.reason = m.reason
        /\ n.level = m.level /\ n.height = m.height
        /\ n.decisionLvl = m.decisionLvl
    BY <1>1, <1>4, PopLitFields
  <2>2. \A k \in Lits \ {Top(m), -Top(m)} : KeptLit(m, n, k)
    BY <2>1 DEF KeptLit, LitDl, LitHeight, ReasonOfLit
  <2>3. \A k \in Lits : IsUndef(m, k) => IsUndef(n, k)
    BY <2>1 DEF IsUndef
  <2>4. /\ Top(m) \in Lits /\ -Top(m) \in Lits /\ var(-Top(m)) = var(Top(m))
        /\ LitDl(m, Top(m)) = m.decisionLvl
    BY <1>1, <1>4, TopOfLevel, LitFacts
  <2>5. LitDl(m, -Top(m)) = m.decisionLvl /\ m.decisionLvl \in Nat
    BY <2>4 DEF LitDl, ModelType
  <2>6. \A k \in Lits : LitDl(m, k) < m.decisionLvl => KeptLit(m, n, k)
    BY <2>2, <2>4, <2>5
  <2>7. Free(n) \subseteq Free(m) \cup ({var(Top(m))} \cap Vars)
    <3> SUFFICES ASSUME NEW v \in Free(n), v # var(Top(m)) PROVE v \in Free(m)
      BY DEF Free
    <3>1. v \in Vars /\ v \in Lits /\ var(v) = v
      BY NumVarsAssumption DEF Free, Vars, Lits, var
    <3>2. v # Top(m) /\ v # -Top(m)
      BY <2>4, <3>1
    <3> QED BY <2>1, <3>1, <3>2 DEF Free, IsUndefVar
  <2>8. \A k \in Lits : KeptLit(m, n, k) \/ (Top(m) # DlMarker /\ k \in {Top(m), -Top(m)})
    BY <1>4, <2>2
  <2>9. IsUndef(n, Top(m)) /\ IsUndef(n, -Top(m))
    BY <2>1 DEF IsUndef
  <2> QED BY <1>1, <1>2, <1>4, <2>1, <2>3, <2>6, <2>7, <2>8, <2>9
<1> QED BY <1>3, <1>4

LEMMA PopModelInv ==
    ASSUME NEW th \in Seq(ThClause), NEW d \in ClauseDBType, NEW P,
           NEW m \in ModelType, ModelInv(m, th, d, P), m.decisionLvl > 0,
           NEW n, n = PopAndSetUndef(m)
    PROVE  /\ ModelInv(n, th, d, P)
           /\ Top(m) = DlMarker => CursorsGood(n) /\ FullyPropagated(n)
<1>1. /\ TrailConsistent(m) /\ LevelsNotEmpty(m) /\ ReasonsInv(m, th, d, P)
      /\ FixedFollow(m, P)
  BY DEF ModelInv
<1>2. /\ n \in ModelType /\ TrailConsistent(n) /\ Len(m.stack) > 0
      /\ Top(m) # DlMarker => IsUndef(n, Top(m)) /\ IsUndef(n, -Top(m))
      /\ \A k \in Lits : KeptLit(m, n, k) \/ (Top(m) # DlMarker /\ k \in {Top(m), -Top(m)})
  BY <1>1, PopKeeps
<1>3. \A k \in Lits : IsTrue(n, k) => KeptLit(m, n, k) /\ IsTrue(m, k)
  BY <1>2, ValueOfLit DEF KeptLit, IsTrue
<1>4. FixedFollow(n, P)
  BY <1>1, <1>3 DEF FixedFollow, KeptLit
<1>5. ReasonsInv(n, th, d, P)
  <2> SUFFICES ASSUME NEW k \in Lits, Implied(n, k)
        PROVE  /\ Backs(n, th, d, P, ReasonOfLit(n, k), k)
               /\ \A j \in ReasonClause(th, d, ReasonOfLit(n, k), k) \ {k} :
                     LitHeight(n, j) < LitHeight(n, k)
    BY DEF ReasonsInv
  <2>1. KeptLit(m, n, k) /\ IsTrue(m, k)
    BY <1>3 DEF Implied
  <2>2. PICK s \in Reason : s = ReasonOfLit(m, k)
    BY LitFacts DEF ModelType, ReasonOfLit
  <2>3. Implied(m, k)
    BY <2>1 DEF Implied, KeptLit, LitIsDecision
  <2>4. /\ Backs(m, th, d, P, s, k)
        /\ \A j \in ReasonClause(th, d, s, k) \ {k} : LitHeight(m, j) < LitHeight(m, k)
    BY <1>1, <2>2, <2>3 DEF ReasonsInv
  <2>5. ASSUME NEW j \in ReasonClause(th, d, s, k) \ {k}
        PROVE  KeptLit(m, n, j)
    <3>1. j \in Lits /\ IsFalse(m, j) /\ LitHeight(m, j) < LitHeight(m, k)
      BY <2>4, <2>5, ReasonLits DEF Backs, Clause
    <3>2. /\ LitHeight(m, j) \in Nat /\ LitHeight(m, k) \in Nat
          /\ LitHeight(m, k) + 1 <= Len(m.stack) /\ Len(m.stack) \in Nat
      <4>1. LitHeight(m, j) \in Nat
        BY <1>1, <3>1, FalseLits
      <4>2. LitHeight(m, k) \in Nat /\ LitHeight(m, k) + 1 \in 1..Len(m.stack)
        BY <1>1, <2>1, TrueLits
      <4>3. Len(m.stack) \in Nat
        BY DEF ModelType
      <4> QED BY <4>1, <4>2, <4>3
    <3>3. ASSUME Top(m) # DlMarker PROVE j \notin {Top(m), -Top(m)}
      <4>1. Top(m) \in Lits /\ LitHeight(m, Top(m)) = Len(m.stack) - 1
        BY <1>1, <1>2, <3>3, TopOfLevel
      <4>2. LitHeight(m, -Top(m)) = Len(m.stack) - 1
        BY <4>1, LitFacts DEF LitHeight
      <4> QED BY <3>1, <3>2, <4>1, <4>2
    <3> QED BY <1>2, <3>1, <3>3
  <2>6. ReasonClause(th, d, s, k) \in Clause
    BY <2>4, ReasonLits DEF Backs
  <2>7. Backs(n, th, d, P, s, k)
    BY <2>4, <2>5, <2>6 DEF Backs, KeptLit, IsFalse
  <2>8. ReasonOfLit(n, k) = s
    BY <2>1, <2>2 DEF KeptLit
  <2> QED BY <2>1, <2>4, <2>5, <2>7, <2>8 DEF KeptLit
<1>6. Len(m.stack) \in Nat
  BY DEF ModelType
<1>7. n.stack = SubSeq(m.stack, 1, Len(m.stack) - 1)
  BY <1>2, PopMarkerFields, PopLitFields
<1>8. /\ Len(n.stack) = Len(m.stack) - 1
      /\ \A i \in 1..(Len(m.stack) - 1) : n.stack[i] = m.stack[i]
  BY <1>2, <1>7, PopStack
<1>9. LevelsNotEmpty(n)
  <2> SUFFICES ASSUME NEW i \in 2..Len(n.stack), n.stack[i - 1] = DlMarker
        PROVE  n.stack[i] # DlMarker
    BY DEF LevelsNotEmpty
  <2>1. /\ i \in 2..Len(m.stack) /\ n.stack[i] = m.stack[i]
        /\ n.stack[i - 1] = m.stack[i - 1]
    BY <1>6, <1>8
  <2> QED BY <1>1, <2>1 DEF LevelsNotEmpty
<1>10. ASSUME Top(m) = DlMarker
       PROVE  CursorsGood(n) /\ FullyPropagated(n)
  <2>1. \A k \in Kinds : n.last[k] = Len(m.stack) - 2
    BY <1>2, <1>10, PopMarkerFields
  <2>2. \A k \in Kinds : n.last[k] = Len(n.stack) - 1
    BY <1>6, <1>8, <2>1
  <2>3. Len(n.stack) \in Nat
    BY <1>2 DEF ModelType
  <2>4. ASSUME Len(n.stack) > 0 PROVE Top(n) # DlMarker
    <3>1. Len(m.stack) \in 2..Len(m.stack) /\ Len(m.stack) - 1 \in 1..(Len(m.stack) - 1)
      BY <1>6, <1>8, <2>4
    <3>2. Top(n) = m.stack[Len(m.stack) - 1]
      BY <1>8, <3>1 DEF Top
    <3> QED BY <1>1, <1>10, <3>1, <3>2 DEF LevelsNotEmpty, Top
  <2>5. CursorsGood(n)
    BY <2>2, <2>3, <2>4 DEF CursorsGood
  <2> QED BY <2>2, <2>5 DEF FullyPropagated, HasNext
<1> QED BY <1>2, <1>4, <1>5, <1>9, <1>10 DEF ModelInv

\* Handing out a literal.
LEMMA AdvanceModelInv ==
    ASSUME NEW th, NEW d, NEW P,
           NEW m \in ModelType, ModelInv(m, th, d, P), CursorsGood(m),
           NEW k \in Kinds, HasNext(m, k), NEW n, n = Advance(m, k)
    PROVE  /\ n \in ModelType /\ ModelInv(n, th, d, P) /\ CursorsGood(n)
           /\ n.value = m.value /\ n.level = m.level /\ n.decisionLvl = m.decisionLvl
           /\ NextLit(m, k) \in Lits /\ IsTrue(m, NextLit(m, k))
           /\ LitIsOfCurrentDl(m, NextLit(m, k))
<1>1. /\ n.stack = m.stack /\ n.value = m.value /\ n.reason = m.reason
      /\ n.level = m.level /\ n.height = m.height /\ n.phase = m.phase
      /\ n.decisionLvl = m.decisionLvl
      /\ n.last = [m.last EXCEPT ![k] = @ + 1]
      /\ DOMAIN n = DOMAIN m
  BY DEF Advance, ModelType
<1>2. Len(m.stack) \in Nat
  BY DEF ModelType
<1>3. m.last \in [Kinds -> Nat \cup {-1}] /\ m.last[k] \in Nat \cup {-1}
  BY DEF ModelType
<1>4. m.last[k] \in -1..(Len(m.stack) - 1) /\ m.last[k] # Len(m.stack) - 1
  BY DEF CursorsGood, HasNext
<1>5. n.last[k] = m.last[k] + 1 /\ \A j \in Kinds \ {k} : n.last[j] = m.last[j]
  BY <1>1, <1>3
<1>6. n.last \in [Kinds -> Nat \cup {-1}]
  <2>1. m.last[k] + 1 \in Nat
    BY <1>2, <1>4
  <2> QED BY <1>1, <1>3, <2>1
<1>7. n \in ModelType
  BY <1>1, <1>6 DEF ModelType, Advance
<1>8. ModelInv(n, th, d, P)
  <2>1. TrailConsistent(n) /\ LevelsNotEmpty(n)
    <3>1. TrailConsistent(m) /\ LevelsNotEmpty(m)
      BY DEF ModelInv
    <3>2. StackMatchesValues(n)
      BY <1>1, <3>1 DEF TrailConsistent, StackMatchesValues, IsTrue, IsFalse, LitHeight
    <3>3. LevelsCountMarkers(n)
      BY <1>1, <3>1 DEF TrailConsistent, LevelsCountMarkers, MarkersBelow, LitDl
    <3>4. DecisionsStandOnMarkers(n)
      BY <1>1, <3>1 DEF TrailConsistent, DecisionsStandOnMarkers, LitIsDecision,
                        ReasonOfLit, LitDl
    <3>5. LevelsNotEmpty(n)
      BY <1>1, <3>1 DEF LevelsNotEmpty
    <3> QED BY <3>2, <3>3, <3>4, <3>5 DEF TrailConsistent
  <2>2. ReasonsInv(n, th, d, P)
    BY <1>1 DEF ModelInv, ReasonsInv, Backs, Implied, IsTrue, IsFalse, LitDl, LitHeight,
                LitIsDecision, ReasonOfLit
  <2>3. FixedFollow(n, P)
    BY <1>1 DEF ModelInv, FixedFollow, IsTrue, LitDl
  <2> QED BY <2>1, <2>2, <2>3 DEF ModelInv
<1>9. CursorsGood(n)
  <2>1. \A j \in Kinds : n.last[j] \in -1..(Len(n.stack) - 1)
    BY <1>1, <1>2, <1>4, <1>5 DEF CursorsGood
  <2>2. ASSUME NEW j \in Kinds, NEW i \in 1..Len(n.stack), n.stack[i] = DlMarker
        PROVE  i <= n.last[j] + 1
    <3>1. i <= m.last[j] + 1
      BY <1>1, <2>2 DEF CursorsGood
    <3>2. CASE j = k
      BY <1>2, <1>4, <1>5, <3>1, <3>2
    <3>3. CASE j # k
      BY <1>5, <3>1, <3>3
    <3> QED BY <3>2, <3>3
  <2>3. Len(n.stack) > 0 => Top(n) # DlMarker
    BY <1>1 DEF CursorsGood, Top
  <2> QED BY <2>1, <2>2, <2>3 DEF CursorsGood
<1>10. /\ NextLit(m, k) \in Lits /\ IsTrue(m, NextLit(m, k))
       /\ LitIsOfCurrentDl(m, NextLit(m, k))
  <2>1. PICK i : i = m.last[k] + 2
    OBVIOUS
  <2>2. i \in 1..Len(m.stack) /\ NextLit(m, k) = m.stack[i]
    BY <1>2, <1>4, <2>1 DEF NextLit
  <2>3. \A j \in 1..Len(m.stack) : m.stack[j] = DlMarker => j < i
    BY <1>2, <1>4, <2>1 DEF CursorsGood
  <2>4. m.stack[i] # DlMarker
    BY <2>2, <2>3
  <2>5. m.stack[i] \in Lits /\ IsTrue(m, m.stack[i])
    BY <2>2, <2>4, StackLits DEF ModelInv, TrailConsistent
  <2>6. MarkersBelow(m, Len(m.stack) + 1) = MarkersBelow(m, i)
    BY <1>2, <2>2, <2>3 DEF MarkersBelow
  <2>7. LitDl(m, m.stack[i]) = m.decisionLvl
    BY <2>2, <2>4, <2>6 DEF ModelInv, TrailConsistent, LevelsCountMarkers
  <2> QED BY <2>2, <2>5, <2>7 DEF LitIsOfCurrentDl, LitDl
<1> QED BY <1>1, <1>7, <1>8, <1>9, <1>10

-----------------------------------------------------------------------------
(* Steps outside the analysis *)

\* b is a but for the fields of S.
Differs(a, b, S) ==
    /\ DOMAIN b = Fields /\ b = [f \in Fields |-> b[f]]
    /\ \A f \in Fields \ S : b[f] = a[f]

\* The places whose state is the model, a cursor and counters.
Idle == {"solve", "units", "propagate", "binary", "ternary", "nary", "restart",
         "restartJump", "cleanup", "cleanupJump", "decide"}
Control == {"pc", "model", "heap", "cursor", "cleaning", "sinceRestart",
            "restartLimit", "sinceCleanup", "cleanupLimit", "decisions"}

\* A step between two such places.
LEMMA IdleStep ==
    ASSUME NEW a, NEW b, NEW d, NEW P, WorkerInv(a, d, P),
           a.pc \in Idle, b.pc \in Idle, Differs(a, b, Control),
           b.model \in ModelType, b.heap \in SUBSET Vars, b.cursor \in Cursor,
           b.cleaning \in BOOLEAN, b.sinceRestart \in Nat, b.sinceCleanup \in Nat,
           b.cleanupLimit \in Nat, b.decisions \in Nat,
           ModelInv(b.model, a.thcdb, d, P), Free(b.model) \subseteq b.heap,
           CursorInv(b), Visiting(b, d)
    PROVE  WorkerInv(b, d, P)
<1>1. Typed(a) /\ Core(a, d, P) /\ Place(a, d, P)
  BY DEF WorkerInv
<1>2. /\ b.thcdb = a.thcdb /\ b.watches = a.watches /\ b.lastUnit = a.lastUnit
      /\ b.lastBins = a.lastBins /\ b.lastTernary = a.lastTernary
      /\ b.lastNary = a.lastNary /\ b.marks = a.marks /\ b.clause = a.clause
      /\ b.poppedLit = a.poppedLit /\ b.pending = a.pending /\ b.lemma = a.lemma
      /\ b.uip = a.uip /\ b.lemmaToLearn = a.lemmaToLearn
      /\ b.dlToBackjump = a.dlToBackjump /\ b.rUIP = a.rUIP /\ b.result = a.result
  BY DEF Differs, Fields, Control
<1>3. Typed(b)
  <2>1. b.pc \in Locations
    BY DEF Idle, Locations
  <2> QED BY <1>1, <1>2, <2>1 DEF Typed, Differs
<1>4. a.pc # "clean" /\ b.pc # "clean"
  BY DEF Idle
<1>5. Core(b, d, P)
  BY <1>1, <1>2, <1>4 DEF Core, Counted, ThHeld, WatchInv
<1>6. a.pc \notin {"mark", "pop", "shorten", "done"}
  BY DEF Idle
<1>7. Place(b, d, P)
  <2>1. /\ Conflict(b, P) /\ Marking(b, P) /\ Popped(b, P) /\ Lemma(b, P)
        /\ Shortening(b, P) /\ Backjumping(b, d, P)
    BY DEF Idle, Conflict, Marking, Popped, Lemma, Shortening, Backjumping
  <2>2. Unmarked(b)
    BY <1>1, <1>2, <1>6 DEF Place, Unmarked
  <2>3. Answered(b, P)
    BY <1>1, <1>2, <1>6 DEF Place, Answered
  <2> QED BY <2>1, <2>2, <2>3 DEF Place
<1> QED BY <1>3, <1>5, <1>7 DEF WorkerInv

LEMMA WorkerParts ==
    ASSUME NEW a, NEW d, NEW P, WorkerInv(a, d, P)
    PROVE  /\ a.model \in ModelType /\ a.thcdb \in Seq(ThClause)
           /\ ModelInv(a.model, a.thcdb, d, P) /\ TrailConsistent(a.model)
           /\ ReasonsInv(a.model, a.thcdb, d, P) /\ FixedFollow(a.model, P)
           /\ Free(a.model) \subseteq a.heap /\ a.heap \in SUBSET Vars
           /\ Typed(a) /\ Core(a, d, P) /\ Place(a, d, P)
           /\ CursorInv(a) /\ Visiting(a, d)
           /\ a.model.decisionLvl \in Nat
<1>1. Typed(a) /\ Core(a, d, P) /\ Place(a, d, P)
  BY DEF WorkerInv
<1>2. a.model \in ModelType /\ a.thcdb \in Seq(ThClause) /\ a.heap \in SUBSET Vars
  BY <1>1 DEF Typed
<1>3. a.model.decisionLvl \in Nat
  BY <1>2 DEF ModelType
<1> QED BY <1>1, <1>2, <1>3 DEF Core, ModelInv, Place

\* A step that moves the worker and its cursor only.
LEMMA CursorStep ==
    ASSUME NEW a, NEW b, NEW d, NEW P, WorkerInv(a, d, P),
           a.pc \in Idle, b.pc \in Idle, Differs(a, b, {"pc", "cursor"}),
           b.cursor \in Cursor, CursorsGood(a.model),
           b.pc \notin {"restart", "cleanup", "decide"},
           b.pc \in {"restartJump", "cleanupJump"} => a.model.decisionLvl > 0,
           Visiting(b, d)
    PROVE  WorkerInv(b, d, P)
<1>1. /\ b.model = a.model /\ b.heap = a.heap /\ b.cleaning = a.cleaning
      /\ b.sinceRestart = a.sinceRestart /\ b.sinceCleanup = a.sinceCleanup
      /\ b.cleanupLimit = a.cleanupLimit /\ b.decisions = a.decisions
  BY DEF Differs, Fields
<1>2. Differs(a, b, Control)
  BY DEF Differs, Control
<1>3. CursorInv(b)
  BY <1>1 DEF CursorInv, PoppingNow, Target
<1>4. /\ b.cleaning \in BOOLEAN /\ b.sinceRestart \in Nat /\ b.sinceCleanup \in Nat
      /\ b.cleanupLimit \in Nat /\ b.decisions \in Nat
  BY <1>1, WorkerParts DEF Typed
<1>5. /\ b.model \in ModelType /\ b.heap \in SUBSET Vars
      /\ ModelInv(b.model, a.thcdb, d, P) /\ Free(b.model) \subseteq b.heap
  BY <1>1, WorkerParts
<1> QED BY <1>2, <1>3, <1>4, <1>5, IdleStep

\* Outside the loops that pop, the cursors have passed every marker.
LEMMA NotPopping ==
    ASSUME NEW a, NEW d, NEW P, WorkerInv(a, d, P),
           a.pc \in {"solve", "units", "propagate", "binary", "ternary", "nary",
                     "restart", "cleanup", "decide", "clean", "conflict"}
    PROVE  /\ CursorsGood(a.model)
           /\ a.pc \in {"restart", "cleanup", "decide"} => FullyPropagated(a.model)
BY WorkerParts DEF CursorInv, PoppingNow

LEMMA StartSolveKeeps ==
    ASSUME NEW a, NEW d, NEW P, WorkerInv(a, d, P), DbInv(d, P), a.pc = "solve",
           NEW b, b = [a EXCEPT !.pc = "units",
                                !.cursor = [NoCursor EXCEPT !.pos = 1,
                                                            !.size = Len(d.uDB)]]
    PROVE  WorkerInv(b, d, P)
<1>1. Typed(a)
  BY DEF WorkerInv
<1>2. PICK c : c = [NoCursor EXCEPT !.pos = 1, !.size = Len(d.uDB)]
  OBVIOUS
<1>3. Len(d.uDB) \in Nat
  BY DbFields DEF DbInv
<1>4. c \in Cursor /\ c.pos = 1 /\ c.size = Len(d.uDB)
  BY <1>2, <1>3 DEF NoCursor, Cursor
<1>5. Differs(a, b, {"pc", "cursor"})
  <2>1. DOMAIN b = Fields /\ b = [f \in Fields |-> b[f]]
    BY <1>1 DEF Typed
  <2>2. \A f \in Fields \ {"pc", "cursor"} : b[f] = a[f]
    BY <1>1 DEF Typed
  <2> QED BY <2>1, <2>2 DEF Differs
<1>6. b.pc = "units" /\ b.cursor = c /\ b.model = a.model
  BY <1>1, <1>2 DEF Typed, Fields
<1>7. Visiting(b, d)
  BY <1>4, <1>6, WorkerParts DEF Visiting
<1>8. CursorsGood(a.model) /\ a.pc \in Idle /\ b.pc \in Idle
  BY <1>6, NotPopping DEF Idle
<1> QED BY <1>4, <1>5, <1>6, <1>7, <1>8, CursorStep

\* A step that moves the worker between the parts of azuDICI_solve.
LEMMA CounterStep ==
    ASSUME NEW a, NEW b, NEW d, NEW P, WorkerInv(a, d, P), a.pc \in Idle,
           b.pc \in {"propagate", "restart", "restartJump", "cleanup", "cleanupJump",
                     "decide"},
           Differs(a, b, {"pc", "cleaning", "sinceRestart", "restartLimit",
                          "sinceCleanup", "cleanupLimit"}),
           b.cleaning \in BOOLEAN, b.sinceRestart \in Nat, b.sinceCleanup \in Nat,
           b.cleanupLimit \in Nat,
           CursorsGood(a.model), FullyPropagated(a.model)
    PROVE  WorkerInv(b, d, P)
<1>1. /\ b.model = a.model /\ b.heap = a.heap /\ b.cursor = a.cursor
      /\ b.decisions = a.decisions
  BY DEF Differs, Fields
<1>2. Differs(a, b, Control)
  BY DEF Differs, Control
<1>3. CursorInv(b)
  BY <1>1 DEF CursorInv
<1>4. b.cursor \in Cursor /\ b.decisions \in Nat
  BY <1>1, WorkerParts DEF Typed
<1>5. /\ b.model \in ModelType /\ b.heap \in SUBSET Vars
      /\ ModelInv(b.model, a.thcdb, d, P) /\ Free(b.model) \subseteq b.heap
  BY <1>1, WorkerParts
<1>6. Visiting(b, d)
  BY DEF Visiting
<1>7. b.pc \in Idle
  BY DEF Idle
<1> QED BY <1>2, <1>3, <1>4, <1>5, <1>6, <1>7, IdleStep

LEMMA BackToPropagate ==
    ASSUME NEW a, NEW d, NEW P, WorkerInv(a, d, P),
           a.pc \in {"units", "binary", "ternary", "nary"},
           NEW b, b = [a EXCEPT !.pc = "propagate", !.cursor = NoCursor]
    PROVE  WorkerInv(b, d, P)
<1>1. Typed(a)
  BY DEF WorkerInv
<1>2. NoCursor \in Cursor
  BY DEF NoCursor, Cursor
<1>3. Differs(a, b, {"pc", "cursor"})
  <2>1. DOMAIN b = Fields /\ b = [f \in Fields |-> b[f]]
    BY <1>1 DEF Typed
  <2>2. \A f \in Fields \ {"pc", "cursor"} : b[f] = a[f]
    BY <1>1 DEF Typed
  <2> QED BY <2>1, <2>2 DEF Differs
<1>4. b.pc = "propagate" /\ b.cursor = NoCursor
  BY <1>1 DEF Typed, Fields
<1>5. Visiting(b, d)
  BY <1>4 DEF Visiting
<1>6. CursorsGood(a.model) /\ a.pc \in Idle /\ b.pc \in Idle
  BY <1>4, NotPopping DEF Idle
<1> QED BY <1>2, <1>3, <1>4, <1>5, <1>6, CursorStep

LEMMA SkipEntryKeeps ==
    ASSUME NEW a, NEW d, NEW P, WorkerInv(a, d, P),
           a.pc \in {"units", "binary", "ternary", "nary"},
           NEW b, b = SkipEntry(a)
    PROVE  WorkerInv(b, d, P)
<1>1. Typed(a) /\ b = [a EXCEPT !.cursor.pos = @ + 1]
  BY DEF WorkerInv, SkipEntry
<1>2. PICK c : c = [a.cursor EXCEPT !.pos = @ + 1]
  OBVIOUS
<1>3. a.cursor \in Cursor
  BY <1>1 DEF Typed
<1>4. /\ c \in Cursor /\ c.pos = a.cursor.pos + 1 /\ c.size = a.cursor.size
      /\ c.lit = a.cursor.lit /\ a.cursor.pos \in Nat
  BY <1>2, <1>3 DEF Cursor
<1>5. Differs(a, b, {"pc", "cursor"})
  <2>1. DOMAIN b = Fields /\ b = [f \in Fields |-> b[f]]
    BY <1>1 DEF Typed
  <2>2. \A f \in Fields \ {"cursor"} : b[f] = a[f]
    BY <1>1 DEF Typed
  <2> QED BY <2>1, <2>2 DEF Differs
<1>6. b.pc = a.pc /\ b.cursor = c /\ b.model = a.model /\ b.lastBins = a.lastBins
  BY <1>1, <1>2 DEF Typed, Fields
<1>7. Visiting(b, d)
  BY <1>4, <1>6, WorkerParts DEF Visiting
<1>8. CursorsGood(a.model) /\ a.pc \in Idle /\ b.pc \in Idle
  BY <1>6, NotPopping DEF Idle
<1> QED BY <1>4, <1>5, <1>6, <1>7, <1>8, CursorStep

\* A literal found undefined is set true, and the visit goes on.
LEMMA PropagateKeeps ==
    ASSUME NEW a, NEW d, NEW P, WorkerInv(a, d, P), DbInv(d, P),
           a.pc \in {"units", "binary", "ternary", "nary"},
           NEW l \in Lits, IsUndef(a.model, l), NEW r \in Reason,
           \/ Backs(a.model, a.thcdb, d, P, r, l)
           \/ r.size = 1 /\ a.model.decisionLvl = 0 /\ Follows(P, {l}),
           NEW b, b = Propagate(a, l, r)
    PROVE  WorkerInv(b, d, P)
<1>1. Typed(a) /\ b = [a EXCEPT !.cursor.pos = @ + 1,
                                !.model = SetTrueWithReason(@, l, r)]
  BY DEF WorkerInv, Propagate
<1>2. PICK c, n : /\ c = [a.cursor EXCEPT !.pos = @ + 1]
                  /\ n = SetTrueWithReason(a.model, l, r)
  OBVIOUS
<1>3. a.cursor \in Cursor
  BY <1>1 DEF Typed
<1>4. /\ c \in Cursor /\ c.pos = a.cursor.pos + 1 /\ c.size = a.cursor.size
      /\ c.lit = a.cursor.lit /\ a.cursor.pos \in Nat
  BY <1>2, <1>3 DEF Cursor
<1>5. Differs(a, b, Control)
  <2>1. DOMAIN b = Fields /\ b = [f \in Fields |-> b[f]]
    BY <1>1 DEF Typed
  <2>2. \A f \in Fields \ {"cursor", "model"} : b[f] = a[f]
    BY <1>1 DEF Typed
  <2> QED BY <2>1, <2>2 DEF Differs, Control
<1>6. /\ b.pc = a.pc /\ b.cursor = c /\ b.model = n /\ b.lastBins = a.lastBins
      /\ b.heap = a.heap /\ b.cleaning = a.cleaning
      /\ b.sinceRestart = a.sinceRestart /\ b.sinceCleanup = a.sinceCleanup
      /\ b.cleanupLimit = a.cleanupLimit /\ b.decisions = a.decisions
  BY <1>1, <1>2, ZenonT(40) DEF Typed, Fields
<1>7. CursorsGood(a.model) /\ a.pc \in Idle /\ b.pc \in Idle
  BY <1>6, NotPopping DEF Idle
<1>8. d \in ClauseDBType
  BY DEF DbInv
<1>9. n \in ModelType /\ ModelInv(n, a.thcdb, d, P) /\ CursorsGood(n)
  BY <1>2, <1>7, <1>8, WorkerParts, SetTrueModelInv
<1>10. /\ KeepsAssigned(a.model, n) /\ n.decisionLvl = a.model.decisionLvl
       /\ Free(n) = Free(a.model) \ {var(l)}
  BY <1>2, WorkerParts, SetTrueKeeps
<1>11. CursorInv(b)
  BY <1>6, <1>9 DEF CursorInv
<1>12. ASSUME NEW k \in Lits, IsTrue(a.model, k), LitIsOfCurrentDl(a.model, k)
       PROVE  IsTrue(n, k) /\ LitIsOfCurrentDl(n, k)
  <2>1. KeptLit(a.model, n, k)
    BY <1>10, <1>12, WorkerParts, ValueOfLit DEF KeepsAssigned
  <2> QED BY <1>10, <1>12, <2>1 DEF KeptLit, IsTrue, LitIsOfCurrentDl, LitDl
<1>13. Visiting(b, d)
  BY <1>4, <1>6, <1>10, <1>12, WorkerParts DEF Visiting
<1>14. /\ b.cleaning \in BOOLEAN /\ b.sinceRestart \in Nat /\ b.sinceCleanup \in Nat
       /\ b.cleanupLimit \in Nat /\ b.decisions \in Nat /\ b.cursor \in Cursor
  BY <1>1, <1>4, <1>6 DEF Typed
<1>15. /\ b.model \in ModelType /\ b.heap \in SUBSET Vars
       /\ ModelInv(b.model, a.thcdb, d, P) /\ Free(b.model) \subseteq b.heap
  BY <1>6, <1>9, <1>10, WorkerParts
<1> QED BY <1>5, <1>7, <1>11, <1>13, <1>14, <1>15, IdleStep

-----------------------------------------------------------------------------
(* Into and out of a conflict *)

\* Two versions of thcdb that differ in the activities only.
SameClauses(th, th2) ==
    /\ DOMAIN th2 = DOMAIN th
    /\ \A i \in DOMAIN th : /\ th2[i].pos = th[i].pos /\ th2[i].w1 = th[i].w1
                            /\ th2[i].w2 = th[i].w2

LEMMA ActivityRaised ==
    ASSUME NEW th \in Seq(ThClause), NEW id \in DOMAIN th,
           NEW th2, th2 = [th EXCEPT ![id].activity = @ + 1]
    PROVE  th2 \in Seq(ThClause) /\ SameClauses(th, th2)
<1>1. PICK t : t = [th[id] EXCEPT !.activity = @ + 1]
  OBVIOUS
<1>2. th[id] \in ThClause /\ id \in 1..Len(th) /\ DOMAIN th = 1..Len(th)
  OBVIOUS
<1>3. t \in ThClause /\ t.pos = th[id].pos /\ t.w1 = th[id].w1 /\ t.w2 = th[id].w2
  <2>1. PICK s \in ThClause : s = th[id]
    BY <1>2
  <2>2. t = [s EXCEPT !.activity = s.activity + 1]
    BY <1>1, <2>1
  <2>3. /\ s.activity + 1 \in Nat
        /\ s = [pos |-> s.pos, w1 |-> s.w1, w2 |-> s.w2, activity |-> s.activity]
    BY DEF ThClause
  <2>4. t \in ThClause /\ t.pos = s.pos /\ t.w1 = s.w1 /\ t.w2 = s.w2
    BY <2>2, <2>3 DEF ThClause
  <2> QED BY <2>1, <2>4
<1>4. th2 = [th EXCEPT ![id] = t]
  BY <1>1
<1>5. /\ [th EXCEPT ![id] = t] \in Seq(ThClause)
      /\ Len([th EXCEPT ![id] = t]) = Len(th)
      /\ \A i \in 1..Len(th) : [th EXCEPT ![id] = t][i] = IF i = id THEN t ELSE th[i]
  BY <1>2, <1>3, ExceptSeq
<1>6. /\ th2 \in Seq(ThClause) /\ Len(th2) = Len(th)
      /\ \A i \in 1..Len(th) : th2[i] = IF i = id THEN t ELSE th[i]
  BY <1>4, <1>5
<1> QED BY <1>2, <1>3, <1>6 DEF SameClauses

LEMMA CoreStep ==
    ASSUME NEW a, NEW b, NEW d \in ClauseDBType, NEW P, Core(a, d, P),
           a.pc # "clean", b.pc # "clean",
           SameClauses(a.thcdb, b.thcdb), b.watches = a.watches,
           b.lastUnit = a.lastUnit, b.lastBins = a.lastBins,
           b.lastTernary = a.lastTernary, b.lastNary = a.lastNary,
           b.model \in ModelType, ModelInv(b.model, a.thcdb, d, P),
           Free(b.model) \subseteq b.heap
    PROVE  Core(b, d, P)
<1>1. Counted(b, d)
  BY DEF Core, Counted
<1>2. ThHeld(b, d)
  BY DEF Core, ThHeld, ThGood, SameClauses
<1>3. WatchInv(b)
  BY DEF Core, WatchInv, Linked, SameClauses, Watched
<1>4. ModelInv(b.model, b.thcdb, d, P)
  BY ExtendsSame, ModelInvStays DEF SameClauses, PlacesKept
<1> QED BY <1>1, <1>2, <1>3, <1>4 DEF Core

LEMMA SameClausesSame == ASSUME NEW th PROVE SameClauses(th, th)
BY DEF SameClauses

\* Both watched literals and all the others are false.
LEMMA ConflictKeeps ==
    ASSUME NEW a, NEW b, NEW d, NEW P, WorkerInv(a, d, P), DbInv(d, P),
           a.pc \in {"binary", "ternary", "nary"}, b.pc = "conflict",
           Differs(a, b, {"pc", "clause", "cursor", "thcdb"}),
           b.cursor \in Cursor, b.clause \in Clause,
           b.thcdb \in Seq(ThClause), SameClauses(a.thcdb, b.thcdb),
           AllFalse(a.model, b.clause), Follows(P, b.clause),
           \E l \in b.clause : LitIsOfCurrentDl(a.model, l)
    PROVE  WorkerInv(b, d, P)
<1>1. Typed(a) /\ Core(a, d, P) /\ Place(a, d, P)
  BY DEF WorkerInv
<1>2. /\ b.model = a.model /\ b.watches = a.watches /\ b.lastUnit = a.lastUnit
      /\ b.lastBins = a.lastBins /\ b.lastTernary = a.lastTernary
      /\ b.lastNary = a.lastNary /\ b.marks = a.marks /\ b.heap = a.heap
      /\ b.poppedLit = a.poppedLit /\ b.pending = a.pending /\ b.lemma = a.lemma
      /\ b.uip = a.uip /\ b.lemmaToLearn = a.lemmaToLearn /\ b.cleaning = a.cleaning
      /\ b.dlToBackjump = a.dlToBackjump /\ b.rUIP = a.rUIP /\ b.result = a.result
      /\ b.sinceRestart = a.sinceRestart /\ b.sinceCleanup = a.sinceCleanup
      /\ b.cleanupLimit = a.cleanupLimit /\ b.decisions = a.decisions
  BY DEF Differs, Fields
<1>3. Typed(b)
  <2>1. b.pc \in Locations
    BY DEF Locations
  <2> QED BY <1>1, <1>2, <2>1 DEF Typed, Differs
<1>4. Core(b, d, P)
  BY <1>1, <1>2, WorkerParts, CoreStep DEF DbInv
<1>5. CursorInv(b)
  BY <1>2, NotPopping DEF CursorInv
<1>6. Visiting(b, d)
  BY DEF Visiting
<1>7. Conflict(b, P)
  BY <1>2 DEF Conflict
<1>8. /\ Marking(b, P) /\ Popped(b, P) /\ Lemma(b, P)
      /\ Shortening(b, P) /\ Backjumping(b, d, P)
  BY DEF Marking, Popped, Lemma, Shortening, Backjumping
<1>9. Unmarked(b) /\ Answered(b, P)
  BY <1>1, <1>2 DEF Place, Unmarked, Answered
<1> QED BY <1>3, <1>4, <1>5, <1>6, <1>7, <1>8, <1>9 DEF WorkerInv, Place

\* The answers.
LEMMA FinishKeeps ==
    ASSUME NEW a, NEW b, NEW d, NEW P, WorkerInv(a, d, P), DbInv(d, P),
           a.pc \in {"units", "conflict", "decide"}, b.pc = "done",
           Differs(a, b, {"pc", "result", "heap"}), b.result \in {10, 20},
           b.result = 10 => Free(a.model) = {},
           b.result = 20 => ModelsOf(P) = {},
           b.heap \in SUBSET Vars, Free(a.model) \subseteq b.heap
    PROVE  WorkerInv(b, d, P)
<1>1. Typed(a) /\ Core(a, d, P) /\ Place(a, d, P)
  BY DEF WorkerInv
<1>2. /\ b.model = a.model /\ b.watches = a.watches /\ b.lastUnit = a.lastUnit
      /\ b.lastBins = a.lastBins /\ b.lastTernary = a.lastTernary
      /\ b.lastNary = a.lastNary /\ b.marks = a.marks /\ b.thcdb = a.thcdb
      /\ b.poppedLit = a.poppedLit /\ b.pending = a.pending /\ b.lemma = a.lemma
      /\ b.uip = a.uip /\ b.lemmaToLearn = a.lemmaToLearn /\ b.cleaning = a.cleaning
      /\ b.dlToBackjump = a.dlToBackjump /\ b.rUIP = a.rUIP
      /\ b.clause = a.clause /\ b.cursor = a.cursor
      /\ b.sinceRestart = a.sinceRestart /\ b.sinceCleanup = a.sinceCleanup
      /\ b.cleanupLimit = a.cleanupLimit /\ b.decisions = a.decisions
  BY DEF Differs, Fields
<1>3. Typed(b)
  <2>1. b.pc \in Locations
    BY DEF Locations
  <2> QED BY <1>1, <1>2, <2>1 DEF Typed, Differs
<1>4. Core(b, d, P)
  <2>1. /\ Free(b.model) \subseteq b.heap
        /\ SameClauses(a.thcdb, b.thcdb)
    BY <1>2, SameClausesSame
  <2> QED BY <1>1, <1>2, <2>1, WorkerParts, CoreStep DEF DbInv
<1>5. CursorInv(b)
  BY <1>2, NotPopping DEF CursorInv
<1>6. Visiting(b, d)
  BY DEF Visiting
<1>7. /\ Conflict(b, P) /\ Marking(b, P) /\ Popped(b, P) /\ Lemma(b, P)
      /\ Shortening(b, P) /\ Backjumping(b, d, P)
  BY DEF Conflict, Marking, Popped, Lemma, Shortening, Backjumping
<1>8. Unmarked(b) /\ Answered(b, P)
  BY <1>1, <1>2 DEF Place, Unmarked, Answered
<1> QED BY <1>3, <1>4, <1>5, <1>6, <1>7, <1>8 DEF WorkerInv, Place

-----------------------------------------------------------------------------
(* One worker moves, the others stay *)

\* The database a worker sees grows, and more clauses have been read.
LEMMA WorkerInvStays ==
    ASSUME NEW a, NEW d, NEW e, NEW P, NEW Q, WorkerInv(a, d, P),
           d \in ClauseDBType, e \in ClauseDBType, Extends(d, e), P \subseteq Q
    PROVE  WorkerInv(a, e, Q)
<1>1. Typed(a) /\ Core(a, d, P) /\ Place(a, d, P)
  BY DEF WorkerInv
<1>2. PlacesKept(a.thcdb, a.thcdb)
  BY DEF PlacesKept
<1>3. Counted(a, e)
  <2>1. /\ a.lastUnit \in Nat /\ a.lastTernary \in Nat /\ a.lastNary \in Nat
        /\ \A l \in Lits : a.lastBins[l] \in Nat
    BY <1>1 DEF Typed
  <2>2. /\ Len(d.uDB) \in Nat /\ Len(d.tDB) \in Nat /\ Len(d.nDB) \in Nat
        /\ \A l \in Lits : Len(d.bDB[l]) \in Nat /\ Len(e.bDB[l]) \in Nat
        /\ Len(e.uDB) \in Nat /\ Len(e.tDB) \in Nat /\ Len(e.nDB) \in Nat
    BY DbFields
  <2>3. /\ Len(d.uDB) <= Len(e.uDB) /\ Len(d.tDB) <= Len(e.tDB)
        /\ Len(d.nDB) <= Len(e.nDB)
        /\ \A l \in Lits : Len(d.bDB[l]) <= Len(e.bDB[l])
    BY DEF Extends, Continues
  <2>4. /\ a.lastUnit <= Len(d.uDB) /\ a.lastTernary <= Len(d.tDB)
        /\ a.lastNary <= Len(d.nDB)
        /\ \A l \in Lits : a.lastBins[l] <= Len(d.bDB[l])
    BY <1>1 DEF Core, Counted
  <2>5. a.lastUnit <= Len(e.uDB) /\ a.lastTernary <= Len(e.tDB)
    BY <2>1, <2>2, <2>3, <2>4
  <2>6. a.lastNary <= Len(e.nDB)
    BY <2>1, <2>2, <2>3, <2>4
  <2>7. ASSUME NEW l \in Lits PROVE a.lastBins[l] <= Len(e.bDB[l])
    <3>1. /\ a.lastBins[l] \in Nat /\ Len(d.bDB[l]) \in Nat /\ Len(e.bDB[l]) \in Nat
          /\ a.lastBins[l] <= Len(d.bDB[l]) /\ Len(d.bDB[l]) <= Len(e.bDB[l])
      BY <2>1, <2>2, <2>3, <2>4
    <3> QED BY <3>1
  <2> QED BY <2>5, <2>6, <2>7 DEF Counted
<1>4. ThHeld(a, e) /\ WatchInv(a)
  BY <1>1 DEF Core, ThHeld, ThGood, Extends
<1>5. ModelInv(a.model, a.thcdb, e, Q)
  BY <1>1, <1>2, ModelInvStays DEF Core, Typed
<1>6. Core(a, e, Q)
  BY <1>1, <1>3, <1>4, <1>5 DEF Core
<1>7. Visiting(a, e)
  <2>1. ASSUME a.pc = "ternary"
        PROVE  a.cursor.size <= Len(e.ternaryWatches[-a.cursor.lit])
    <3>1. /\ a.cursor.lit \in Lits
          /\ a.cursor.size <= Len(d.ternaryWatches[-a.cursor.lit])
      BY <1>1, <2>1 DEF Place, Visiting
    <3>2. PICK l \in Lits : l = -a.cursor.lit
      BY <3>1, LitFacts
    <3>3. /\ Len(d.ternaryWatches[l]) \in Nat /\ Len(e.ternaryWatches[l]) \in Nat
          /\ Len(d.ternaryWatches[l]) <= Len(e.ternaryWatches[l])
      BY DbFields DEF Extends, Continues
    <3>4. a.cursor.size \in Nat /\ a.cursor.size <= Len(d.ternaryWatches[l])
      BY <1>1, <3>1, <3>2 DEF Typed, Cursor
    <3>5. a.cursor.size <= Len(e.ternaryWatches[l])
      BY <3>3, <3>4
    <3> QED BY <3>2, <3>5
  <2>2. ASSUME a.pc = "units" PROVE a.cursor.size <= Len(e.uDB)
    <3>1. /\ a.cursor.size \in Nat /\ a.cursor.size <= Len(d.uDB)
      BY <1>1, <2>2 DEF Place, Visiting, Typed, Cursor
    <3>2. Len(d.uDB) \in Nat /\ Len(e.uDB) \in Nat /\ Len(d.uDB) <= Len(e.uDB)
      BY DbFields DEF Extends, Continues
    <3> QED BY <3>1, <3>2
  <2> QED BY <1>1, <2>1, <2>2 DEF Place, Visiting
<1>8. Conflict(a, Q) /\ Marking(a, Q)
  BY <1>1, FollowsFromMore DEF Place, Conflict, Marking
<1>9. Popped(a, Q) /\ Lemma(a, Q) /\ Shortening(a, Q)
  BY <1>1, FollowsFromMore DEF Place, Popped, Lemma, Shortening
<1>10. Backjumping(a, e, Q)
  <2> SUFFICES ASSUME a.pc = "backjump" PROVE Backjumping(a, e, Q)
    BY DEF Backjumping
  <2>1. a.rUIP \in Reason /\ UipGood(a)
    BY <1>1 DEF Typed, Place, Backjumping
  <2>2. CASE a.rUIP = NoReason /\ a.dlToBackjump = 0 /\ Follows(P, {a.uip})
    BY <1>1, <2>1, <2>2, FollowsFromMore DEF Place, Backjumping
  <2>3. CASE Backs(a.model, a.thcdb, d, P, a.rUIP, a.uip)
    <3>1. Backs(a.model, a.thcdb, e, Q, a.rUIP, a.uip)
      BY <1>2, <2>1, <2>3, BacksStays
    <3>2. ReasonClause(a.thcdb, e, a.rUIP, a.uip) = ReasonClause(a.thcdb, d, a.rUIP, a.uip)
      BY <1>2, <2>1, <2>3, ReasonStays DEF Backs
    <3>3. a.rUIP # NoReason
      BY <2>1, <2>3 DEF Backs, Refers, NoReason
    <3> QED BY <1>1, <2>1, <3>1, <3>2, <3>3 DEF Place, Backjumping
  <2> QED BY <1>1, <2>2, <2>3 DEF Place, Backjumping
<1>11. Answered(a, Q)
  <2>1. ModelsOf(Q) \subseteq ModelsOf(P)
    BY DEF ModelsOf
  <2> QED BY <1>1, <2>1 DEF Place, Answered
<1>12. CursorInv(a) /\ Unmarked(a)
  BY <1>1 DEF Place
<1> QED BY <1>1, <1>6, <1>7, <1>8, <1>9, <1>10, <1>11, <1>12 DEF WorkerInv, Place

LEMMA SharingKeeps ==
    ASSUME IInv, NEW w \in Workers, NEW b, NEW e, Sharing(w, b, e),
           ad[w].pc # "allocated", b.pc # "allocated",
           DbInv(e, Read), Extends(db, e), WorkerInv(b, e, Read)
    PROVE  IInv' /\ Extends(db, db')
<1>1. Read' = Read
  BY DEF Sharing, Read
<1>2. db' = e /\ db \in ClauseDBType
  BY DEF Sharing, IInv, DbInv
<1>3. ad' = [u \in Workers |-> IF u = w THEN b ELSE ad[u]]
  <2>1. ad = [u \in Workers |-> ad[u]] /\ ad' = [ad EXCEPT ![w] = b]
    BY DEF IInv, Sharing
  <2> QED BY <2>1
<1>4. ad' = [u \in Workers |-> ad'[u]]
  BY <1>3
<1>5. ASSUME NEW u \in Workers PROVE WorkerInv(ad'[u], db', Read')
  <2>1. WorkerInv(ad[u], db, Read)
    BY DEF IInv
  <2>2. WorkerInv(ad[u], e, Read)
    BY <1>2, <2>1, WorkerInvStays DEF DbInv
  <2> QED BY <1>1, <1>2, <1>3, <2>2
<1>6. MainInv'
  BY <1>3 DEF IInv, MainInv, Sharing
<1>7. DbInv(db', Read')
  BY <1>1, <1>2
<1>8. Extends(db, db')
  BY <1>2
<1> QED BY <1>4, <1>5, <1>6, <1>7, <1>8 DEF IInv

LEMMA LocalKeeps ==
    ASSUME IInv, NEW w \in Workers, NEW b, Local(w, b),
           ad[w].pc # "allocated", b.pc # "allocated", WorkerInv(b, db, Read)
    PROVE  IInv' /\ Extends(db, db')
<1>1. Sharing(w, b, db)
  BY DEF Local, Sharing
<1>2. DbInv(db, Read) /\ Extends(db, db)
  BY ExtendsSame DEF IInv, DbInv
<1> QED BY <1>1, <1>2, SharingKeeps

-----------------------------------------------------------------------------
(* azuDICI_set_true_units *)

\* A false literal at level 0 is refuted by the formula.
LEMMA FalseAtZero ==
    ASSUME NEW m \in ModelType, TrailConsistent(m), NEW P, FixedFollow(m, P),
           NEW l \in Lits, IsFalse(m, l), LitDl(m, l) = 0 \/ m.decisionLvl = 0
    PROVE  Follows(P, {-l})
<1>1. /\ -l \in Lits /\ IsTrue(m, -l) /\ LitDl(m, -l) = LitDl(m, l)
      /\ LitDl(m, l) \in Nat /\ LitDl(m, l) <= m.decisionLvl
  BY FalseLits
<1>2. LitDl(m, -l) = 0
  BY <1>1
<1> QED BY <1>1, <1>2 DEF FixedFollow

LEMMA StartSolveIInv == ASSUME IInv, NEW w \in Workers, StartSolve(w) PROVE IInv'
<1>1. PICK a : a = ad[w]
  OBVIOUS
<1>2. WorkerInv(a, db, Read) /\ DbInv(db, Read) /\ a.pc = "solve"
  BY <1>1 DEF IInv, StartSolve, At
<1>3. PICK b : b = [a EXCEPT !.pc = "units",
                             !.cursor = [NoCursor EXCEPT !.pos = 1,
                                                         !.size = Len(db.uDB)]]
  OBVIOUS
<1>4. WorkerInv(b, db, Read)
  BY <1>2, <1>3, StartSolveKeeps
<1>5. Local(w, b)
  BY <1>1, <1>3 DEF StartSolve
<1>6. b.pc = "units"
  BY <1>2, <1>3 DEF WorkerInv, Typed, Fields
<1> QED BY <1>1, <1>2, <1>4, <1>5, <1>6, LocalKeeps

LEMMA SetTrueUnitIInv == ASSUME IInv, NEW w \in Workers, SetTrueUnit(w) PROVE IInv'
<1>1. PICK a, l : a = ad[w] /\ l = db.uDB[a.cursor.pos]
  OBVIOUS
<1>2. /\ WorkerInv(a, db, Read) /\ DbInv(db, Read) /\ a.pc = "units"
      /\ a.cursor.pos <= a.cursor.size
  BY <1>1 DEF IInv, SetTrueUnit, At
<1>3. Typed(a)
  BY <1>2 DEF WorkerInv
<1>4. a.cursor.pos \in DOMAIN db.uDB /\ a.model.decisionLvl = 0
  <2>1. a.cursor.pos > 0 /\ a.cursor.size <= Len(db.uDB) /\ a.model.decisionLvl = 0
    BY <1>2, WorkerParts DEF Visiting
  <2>2. a.cursor.pos \in Nat /\ a.cursor.size \in Nat
    BY <1>3 DEF Typed, Cursor
  <2>3. DOMAIN db.uDB = 1..Len(db.uDB) /\ Len(db.uDB) \in Nat
    BY <1>2, DbFields DEF DbInv
  <2> QED BY <1>2, <2>1, <2>2, <2>3
<1>5. l \in Lits /\ Follows(Read, {l})
  <2>1. l \in Lits
    BY <1>1, <1>2, <1>4, DbFields, ElementOfSeq DEF DbInv
  <2>2. Follows(Read, {db.uDB[a.cursor.pos]})
    BY <1>2, <1>4 DEF DbInv, DbFollows
  <2> QED BY <1>1, <2>1, <2>2
<1>6. CASE IsFalse(a.model, l)
  <2>1. PICK b : b = [a EXCEPT !.pc = "done", !.result = 20]
    OBVIOUS
  <2>2. Local(w, b)
    BY <1>1, <1>6, <2>1 DEF SetTrueUnit, Finish
  <2>3. Differs(a, b, {"pc", "result", "heap"})
    <3>1. DOMAIN b = Fields /\ b = [f \in Fields |-> b[f]]
      BY <1>3, <2>1 DEF Typed
    <3>2. \A f \in Fields \ {"pc", "result"} : b[f] = a[f]
      BY <1>3, <2>1 DEF Typed
    <3> QED BY <3>1, <3>2 DEF Differs
  <2>4. b.pc = "done" /\ b.result = 20 /\ b.heap = a.heap
    BY <1>3, <2>1 DEF Typed, Fields
  <2>5. ModelsOf(Read) = {}
    <3>1. Follows(Read, {-l})
      BY <1>2, <1>4, <1>5, <1>6, WorkerParts, FalseAtZero
    <3>2. \A k \in {l} : k \in Lits /\ Follows(Read, {-k})
      BY <1>5, <3>1
    <3> QED BY <1>5, <3>2, AllRefuted
  <2>6. b.heap \in SUBSET Vars /\ Free(a.model) \subseteq b.heap
    BY <1>2, <2>4, WorkerParts
  <2>7. WorkerInv(b, db, Read)
    BY <1>2, <2>3, <2>4, <2>5, <2>6, FinishKeeps
  <2> QED BY <1>1, <1>2, <2>2, <2>4, <2>7, LocalKeeps
<1>7. CASE IsUndef(a.model, l)
  <2>1. PICK b : b = Propagate(a, l, NoReason)
    OBVIOUS
  <2>2. Local(w, b)
    BY <1>1, <1>7, <2>1 DEF SetTrueUnit, Propagate, IsFalse, IsUndef
  <2>3. NoReason \in Reason /\ NoReason.size = 1
    BY DEF NoReason, Reason, ZeroLit
  <2>4. WorkerInv(b, db, Read)
    BY <1>2, <1>4, <1>5, <1>7, <2>1, <2>3, PropagateKeeps
  <2>5. b.pc = "units"
    BY <1>2, <1>3, <2>1 DEF Typed, Fields, Propagate
  <2> QED BY <1>1, <1>2, <2>2, <2>4, <2>5, LocalKeeps
<1>8. CASE ~IsFalse(a.model, l) /\ ~IsUndef(a.model, l)
  <2>1. PICK b : b = SkipEntry(a)
    OBVIOUS
  <2>2. PICK b2 : b2 = [a EXCEPT !.cursor.pos = @ + 1, !.model = a.model]
    OBVIOUS
  <2>3. b2 = b
    BY <1>3, <2>1, <2>2 DEF Typed, SkipEntry
  <2>4. Local(w, b)
    BY <1>1, <1>8, <2>2, <2>3 DEF SetTrueUnit
  <2>5. WorkerInv(b, db, Read)
    BY <1>2, <2>1, SkipEntryKeeps
  <2>6. b.pc = "units"
    BY <1>2, <1>3, <2>1 DEF Typed, Fields, SkipEntry
  <2> QED BY <1>1, <1>2, <2>4, <2>5, <2>6, LocalKeeps
<1> QED BY <1>6, <1>7, <1>8

LEMMA UnitsDoneIInv == ASSUME IInv, NEW w \in Workers, UnitsDone(w) PROVE IInv'
<1>1. PICK a : a = ad[w]
  OBVIOUS
<1>2. WorkerInv(a, db, Read) /\ a.pc = "units"
  BY <1>1 DEF IInv, UnitsDone, At
<1>3. PICK b : b = [a EXCEPT !.pc = "propagate", !.cursor = NoCursor]
  OBVIOUS
<1>4. WorkerInv(b, db, Read)
  BY <1>2, <1>3, BackToPropagate
<1>5. Local(w, b)
  BY <1>1, <1>3 DEF UnitsDone
<1>6. b.pc = "propagate"
  BY <1>2, <1>3 DEF WorkerInv, Typed, Fields
<1> QED BY <1>1, <1>2, <1>4, <1>5, <1>6, LocalKeeps

-----------------------------------------------------------------------------
(* azuDICI_propagate *)

LEMMA HandOutIInv ==
    ASSUME IInv, NEW w \in Workers, NEW k \in Kinds, HandOutLiteral(w, k)
    PROVE  IInv'
<1>1. PICK a, l, n, c : /\ a = ad[w] /\ l = NextLit(a.model, k) /\ n = Advance(a.model, k)
                        /\ c = [lit |-> l, pos |-> 1, size |-> ListSize(a, k, l)]
  OBVIOUS
<1>2. /\ WorkerInv(a, db, Read) /\ DbInv(db, Read) /\ a.pc = "propagate"
      /\ HasNext(a.model, k)
  BY <1>1 DEF IInv, HandOutLiteral, At
<1>3. Typed(a)
  BY <1>2 DEF WorkerInv
<1>4. PICK b : b = [a EXCEPT !.pc = k, !.model = n, !.cursor = c]
  OBVIOUS
<1>5. Local(w, b)
  BY <1>1, <1>4 DEF HandOutLiteral
<1>6. Differs(a, b, Control)
  <2>1. DOMAIN b = Fields /\ b = [f \in Fields |-> b[f]]
    BY <1>3, <1>4 DEF Typed
  <2>2. \A f \in Fields \ {"pc", "cursor", "model"} : b[f] = a[f]
    BY <1>3, <1>4 DEF Typed
  <2> QED BY <2>1, <2>2 DEF Differs, Control
<1>7. b.pc = k /\ b.model = n /\ b.cursor = c
  BY <1>3, <1>4 DEF Typed, Fields
<1>8. /\ b.lastBins = a.lastBins /\ b.heap = a.heap /\ b.cleaning = a.cleaning
      /\ b.sinceRestart = a.sinceRestart /\ b.sinceCleanup = a.sinceCleanup
      /\ b.cleanupLimit = a.cleanupLimit /\ b.decisions = a.decisions
  BY <1>3, <1>4 DEF Typed, Fields
<1>9. CursorsGood(a.model) /\ a.pc \in Idle /\ b.pc \in Idle
  BY <1>2, <1>7, NotPopping DEF Idle, Kinds
<1>10. /\ n \in ModelType /\ ModelInv(n, a.thcdb, db, Read) /\ CursorsGood(n)
       /\ n.value = a.model.value /\ n.level = a.model.level
       /\ n.decisionLvl = a.model.decisionLvl
       /\ l \in Lits /\ IsTrue(a.model, l) /\ LitIsOfCurrentDl(a.model, l)
  BY <1>1, <1>2, <1>9, WorkerParts, AdvanceModelInv
<1>11. CursorInv(b)
  BY <1>7, <1>10 DEF CursorInv, Kinds
<1>12. ListSize(a, k, l) \in Nat /\ c.pos = 1 /\ c.lit = l /\ c.size = ListSize(a, k, l)
  <2>1. a.lastBins[l] \in Nat /\ Len(db.ternaryWatches[-l]) \in Nat
    BY <1>2, <1>3, <1>10, LitFacts, DbFields DEF Typed, DbInv
  <2> QED BY <1>1, <2>1 DEF ListSize, Kinds
<1>13. c \in Cursor
  BY <1>1, <1>10, <1>12 DEF Cursor
<1>14. Visiting(b, db)
  <2>1. IsTrue(n, l) /\ LitIsOfCurrentDl(n, l)
    BY <1>10 DEF IsTrue, LitIsOfCurrentDl
  <2>2. k = "binary" => c.size <= a.lastBins[l]
    BY <1>12 DEF ListSize
  <2>3. k = "ternary" => c.size <= Len(db.ternaryWatches[-l])
    BY <1>12 DEF ListSize
  <2>4. k \notin {"units", "clean", "allocated", "solve"}
    BY DEF Kinds
  <2> QED BY <1>7, <1>8, <1>10, <1>12, <2>1, <2>2, <2>3, <2>4 DEF Visiting
<1>15. /\ b.cleaning \in BOOLEAN /\ b.sinceRestart \in Nat /\ b.sinceCleanup \in Nat
       /\ b.cleanupLimit \in Nat /\ b.decisions \in Nat /\ b.cursor \in Cursor
  BY <1>3, <1>7, <1>8, <1>13 DEF Typed
<1>16. Free(n) = Free(a.model)
  BY <1>10 DEF Free, IsUndefVar
<1>17. /\ b.model \in ModelType /\ b.heap \in SUBSET Vars
       /\ ModelInv(b.model, a.thcdb, db, Read) /\ Free(b.model) \subseteq b.heap
  BY <1>2, <1>7, <1>8, <1>10, <1>16, WorkerParts
<1>18. WorkerInv(b, db, Read)
  BY <1>2, <1>6, <1>9, <1>11, <1>14, <1>15, <1>17, IdleStep
<1>19. b.pc # "allocated"
  BY <1>7 DEF Kinds
<1> QED BY <1>1, <1>2, <1>5, <1>18, <1>19, LocalKeeps

LEMMA PropagationDoneIInv ==
    ASSUME IInv, NEW w \in Workers, PropagationDone(w)
    PROVE  IInv'
<1>1. PICK a, b : /\ a = ad[w]
                  /\ b = [a EXCEPT !.pc = IF a.cleaning THEN "decide" ELSE "restart",
                                   !.cleaning = FALSE]
  OBVIOUS
<1>2. /\ WorkerInv(a, db, Read) /\ a.pc = "propagate" /\ FullyPropagated(a.model)
      /\ Local(w, b)
  BY <1>1 DEF IInv, PropagationDone, At
<1>3. Typed(a)
  BY <1>2 DEF WorkerInv
<1>4. Differs(a, b, {"pc", "cleaning", "sinceRestart", "restartLimit", "sinceCleanup",
                     "cleanupLimit"})
  <2>1. DOMAIN b = Fields /\ b = [f \in Fields |-> b[f]]
    BY <1>1, <1>3 DEF Typed
  <2>2. \A f \in Fields \ {"pc", "cleaning"} : b[f] = a[f]
    BY <1>1, <1>3 DEF Typed
  <2> QED BY <2>1, <2>2 DEF Differs
<1>5. /\ b.pc \in {"decide", "restart"} /\ b.cleaning = FALSE
      /\ b.sinceRestart = a.sinceRestart /\ b.sinceCleanup = a.sinceCleanup
      /\ b.cleanupLimit = a.cleanupLimit
  BY <1>1, <1>3 DEF Typed, Fields
<1>6. /\ CursorsGood(a.model) /\ b.cleaning \in BOOLEAN /\ b.sinceRestart \in Nat
      /\ b.sinceCleanup \in Nat /\ b.cleanupLimit \in Nat /\ a.pc \in Idle
  BY <1>2, <1>3, <1>5, NotPopping DEF Typed, Idle
<1>7. WorkerInv(b, db, Read)
  BY <1>2, <1>4, <1>5, <1>6, CounterStep
<1> QED BY <1>1, <1>2, <1>5, <1>7, LocalKeeps

LEMMA ListDoneIInv ==
    ASSUME IInv, NEW w \in Workers, ListDone(w)
    PROVE  IInv'
<1>1. PICK a, b : a = ad[w] /\ b = [a EXCEPT !.pc = "propagate", !.cursor = NoCursor]
  OBVIOUS
<1>2. /\ WorkerInv(a, db, Read) /\ a.pc \in {"binary", "ternary", "nary"}
      /\ Local(w, b)
  BY <1>1 DEF IInv, ListDone, At
<1>3. WorkerInv(b, db, Read)
  BY <1>1, <1>2, BackToPropagate
<1>4. b.pc = "propagate"
  BY <1>1, <1>2 DEF WorkerInv, Typed, Fields
<1> QED BY <1>1, <1>2, <1>3, <1>4, LocalKeeps

\* The visit of an entry ends in one of the ways a list is left.
LEMMA SkipStep ==
    ASSUME IInv, NEW w \in Workers, NEW a, a = ad[w],
           a.pc \in {"binary", "ternary", "nary"}, Local(w, SkipEntry(a))
    PROVE  IInv'
<1>1. WorkerInv(a, db, Read)
  BY DEF IInv
<1>2. PICK b : b = SkipEntry(a)
  OBVIOUS
<1>3. WorkerInv(b, db, Read)
  BY <1>1, <1>2, SkipEntryKeeps
<1>4. b.pc = a.pc
  BY <1>1, <1>2 DEF WorkerInv, Typed, Fields, SkipEntry
<1> QED BY <1>2, <1>3, <1>4, LocalKeeps

LEMMA PropagateStep ==
    ASSUME IInv, NEW w \in Workers, NEW a, a = ad[w],
           a.pc \in {"binary", "ternary", "nary"},
           NEW l \in Lits, IsUndef(a.model, l), NEW r \in Reason,
           Backs(a.model, a.thcdb, db, Read, r, l), Local(w, Propagate(a, l, r))
    PROVE  IInv'
<1>1. WorkerInv(a, db, Read) /\ DbInv(db, Read)
  BY DEF IInv
<1>2. PICK b : b = Propagate(a, l, r)
  OBVIOUS
<1>3. WorkerInv(b, db, Read)
  BY <1>1, <1>2, PropagateKeeps
<1>4. b.pc = a.pc
  BY <1>1, <1>2 DEF WorkerInv, Typed, Fields, Propagate
<1> QED BY <1>2, <1>3, <1>4, LocalKeeps

LEMMA ConflictStep ==
    ASSUME IInv, NEW w \in Workers, NEW a, a = ad[w],
           a.pc \in {"binary", "ternary", "nary"},
           NEW c \in Clause, AllFalse(a.model, c), Follows(Read, c),
           \E l \in c : LitIsOfCurrentDl(a.model, l),
           Local(w, InConflict(a, c))
    PROVE  IInv'
<1>1. WorkerInv(a, db, Read) /\ DbInv(db, Read) /\ Typed(a)
  BY DEF IInv, WorkerInv
<1>2. PICK b : b = InConflict(a, c)
  OBVIOUS
<1>3. Differs(a, b, {"pc", "clause", "cursor", "thcdb"})
  <2>1. DOMAIN b = Fields /\ b = [f \in Fields |-> b[f]]
    BY <1>1, <1>2 DEF Typed, InConflict
  <2>2. \A f \in Fields \ {"pc", "clause", "cursor"} : b[f] = a[f]
    BY <1>1, <1>2 DEF Typed, InConflict
  <2> QED BY <2>1, <2>2 DEF Differs
<1>4. b.pc = "conflict" /\ b.clause = c /\ b.cursor = NoCursor /\ b.thcdb = a.thcdb
  BY <1>1, <1>2 DEF Typed, Fields, InConflict
<1>5. /\ b.cursor \in Cursor /\ b.thcdb \in Seq(ThClause) /\ b.clause \in Clause
      /\ SameClauses(a.thcdb, b.thcdb)
  BY <1>1, <1>4, SameClausesSame, WorkerParts DEF Cursor, NoCursor
<1>6. /\ AllFalse(a.model, b.clause) /\ Follows(Read, b.clause)
      /\ \E l \in b.clause : LitIsOfCurrentDl(a.model, l)
  BY <1>4
<1>7. WorkerInv(b, db, Read)
  BY <1>1, <1>3, <1>4, <1>5, <1>6, ConflictKeeps
<1> QED BY <1>2, <1>4, <1>7, LocalKeeps

\* What is known of the list that is being visited.
LEMMA VisitFacts ==
    ASSUME IInv, NEW w \in Workers, NEW a, a = ad[w],
           a.pc \in {"binary", "ternary", "nary"}, NEW l, l = a.cursor.lit
    PROVE  /\ WorkerInv(a, db, Read) /\ DbInv(db, Read) /\ Typed(a)
           /\ db \in ClauseDBType /\ TrailConsistent(a.model)
           /\ a.model \in ModelType
           /\ l \in Lits /\ -l \in Lits
           /\ IsFalse(a.model, -l) /\ LitIsOfCurrentDl(a.model, -l)
           /\ a.cursor.pos \in Nat /\ a.cursor.pos > 0 /\ a.cursor.size \in Nat
<1>1. WorkerInv(a, db, Read) /\ DbInv(db, Read) /\ Typed(a) /\ db \in ClauseDBType
  BY DEF IInv, WorkerInv, DbInv
<1>2. TrailConsistent(a.model) /\ a.model \in ModelType
  BY <1>1, WorkerParts
<1>3. /\ l \in Lits /\ IsTrue(a.model, l) /\ LitIsOfCurrentDl(a.model, l)
      /\ a.cursor.pos > 0
  BY <1>1, WorkerParts DEF Visiting
<1>4. -l \in Lits /\ var(-l) = var(l)
  BY <1>3, LitFacts
<1>5. IsFalse(a.model, -l) /\ LitIsOfCurrentDl(a.model, -l)
  BY <1>2, <1>3, <1>4, TrueLits DEF LitIsOfCurrentDl
<1>6. a.cursor.pos \in Nat /\ a.cursor.size \in Nat
  BY <1>1 DEF Typed, Cursor
<1> QED BY <1>1, <1>2, <1>3, <1>4, <1>5, <1>6

LEMMA VisitBinaryIInv == ASSUME IInv, NEW w \in Workers, VisitBinary(w) PROVE IInv'
<1>1. PICK a, l, i : a = ad[w] /\ l = a.cursor.lit /\ i = a.cursor.pos
  OBVIOUS
<1>2. a.pc = "binary" /\ i <= a.cursor.size
  BY <1>1 DEF VisitBinary, At
<1>3. /\ WorkerInv(a, db, Read) /\ DbInv(db, Read) /\ Typed(a)
      /\ db \in ClauseDBType /\ a.model \in ModelType
      /\ l \in Lits /\ -l \in Lits
      /\ IsFalse(a.model, -l) /\ LitIsOfCurrentDl(a.model, -l)
      /\ i \in Nat /\ i > 0 /\ a.cursor.size \in Nat
  BY <1>1, <1>2, VisitFacts
<1>4. i \in DOMAIN db.bDB[l]
  <2>1. a.cursor.size <= a.lastBins[l] /\ a.lastBins[l] <= Len(db.bDB[l])
    BY <1>1, <1>2, <1>3, WorkerParts DEF Visiting, Core, Counted
  <2>2. a.lastBins[l] \in Nat
    BY <1>3 DEF Typed
  <2>3. Len(db.bDB[l]) \in Nat /\ DOMAIN db.bDB[l] = 1..Len(db.bDB[l])
    BY <1>3, DbFields
  <2> QED BY <1>2, <1>3, <2>1, <2>2, <2>3
<1>5. PICK k \in ReadBinary(l, i) :
         \/ IsTrue(a.model, k) /\ Local(w, SkipEntry(a))
         \/ /\ IsUndef(a.model, k)
            /\ Local(w, Propagate(a, k, [size |-> 2, lit |-> -l, ptr |-> 0]))
         \/ IsFalse(a.model, k) /\ Local(w, InConflict(a, {-l, k}))
  BY <1>1 DEF VisitBinary
<1>6. k = db.bDB[l][i]
  BY <1>4, <1>5 DEF ReadBinary
<1>7. k \in Lits
  <2>1. db.bDB[l] \in Seq(Lits)
    BY <1>3, DbFields
  <2> QED BY <1>4, <1>6, <2>1
<1>8. Follows(Read, {-l, k})
  BY <1>3, <1>4, <1>6 DEF DbInv, DbFollows
<1>9. CASE IsTrue(a.model, k) /\ Local(w, SkipEntry(a))
  BY <1>1, <1>2, <1>9, SkipStep
<1>10. CASE /\ IsUndef(a.model, k)
            /\ Local(w, Propagate(a, k, [size |-> 2, lit |-> -l, ptr |-> 0]))
  <2>1. PICK r : r = [size |-> 2, lit |-> -l, ptr |-> 0]
    OBVIOUS
  <2>2. r \in Reason /\ r.size = 2 /\ r.lit = -l
    BY <1>3, <2>1 DEF Reason
  <2>3. ReasonClause(a.thcdb, db, r, k) = {k, -l}
    BY <2>2 DEF ReasonClause
  <2>4. Refers(a.thcdb, db, r)
    BY <1>3, <2>2 DEF Refers
  <2>5. Follows(Read, {k, -l})
    <3>1. {k, -l} = {-l, k}
      OBVIOUS
    <3> QED BY <1>8, <3>1
  <2>6. Backs(a.model, a.thcdb, db, Read, r, k)
    BY <1>3, <2>3, <2>4, <2>5 DEF Backs
  <2>7. Local(w, Propagate(a, k, r))
    BY <1>10, <2>1
  <2> QED BY <1>1, <1>2, <1>7, <1>10, <2>2, <2>6, <2>7, PropagateStep
<1>11. CASE IsFalse(a.model, k) /\ Local(w, InConflict(a, {-l, k}))
  <2>1. PICK c : c = {-l, k}
    OBVIOUS
  <2>2. c \in Clause /\ AllFalse(a.model, c)
    BY <1>3, <1>7, <1>11, <2>1 DEF Clause, AllFalse
  <2>3. Follows(Read, c) /\ \E j \in c : LitIsOfCurrentDl(a.model, j)
    BY <1>3, <1>8, <2>1
  <2>4. Local(w, InConflict(a, c))
    BY <1>11, <2>1
  <2> QED BY <1>1, <1>2, <2>2, <2>3, <2>4, ConflictStep
<1> QED BY <1>5, <1>9, <1>10, <1>11

LEMMA VisitTernaryIInv == ASSUME IInv, NEW w \in Workers, VisitTernary(w) PROVE IInv'
<1>1. PICK a, l, e, c, notFalse :
         /\ a = ad[w] /\ l = a.cursor.lit
         /\ e = db.ternaryWatches[-l][a.cursor.pos] /\ c = db.tDB[e].lits
         /\ notFalse = {k \in c : ~IsFalse(a.model, k)}
  BY Zenon
<1>2. a.pc = "ternary" /\ a.cursor.pos <= a.cursor.size
  BY <1>1, Zenon DEF VisitTernary, At
<1>3. /\ WorkerInv(a, db, Read) /\ DbInv(db, Read) /\ Typed(a)
      /\ db \in ClauseDBType /\ a.model \in ModelType
      /\ l \in Lits /\ -l \in Lits
      /\ IsFalse(a.model, -l) /\ LitIsOfCurrentDl(a.model, -l)
      /\ a.cursor.pos \in Nat /\ a.cursor.pos > 0 /\ a.cursor.size \in Nat
  BY <1>1, <1>2, VisitFacts, Zenon
<1>4. a.cursor.pos \in DOMAIN db.ternaryWatches[-l]
  <2>1. a.cursor.size <= Len(db.ternaryWatches[-l])
    BY <1>1, <1>2, <1>3, WorkerParts, Zenon DEF Visiting
  <2>2. /\ Len(db.ternaryWatches[-l]) \in Nat
        /\ DOMAIN db.ternaryWatches[-l] = 1..Len(db.ternaryWatches[-l])
    BY <1>3, DbFields
  <2> QED BY <1>2, <1>3, <2>1, <2>2
<1>5. e \in DOMAIN db.tDB /\ -l \in c
  BY <1>1, <1>3, <1>4, Zenon DEF DbInv, DbLinked
<1>6. c \in Clause /\ Follows(Read, c)
  BY <1>1, <1>3, <1>5, DbFields, Zenon DEF DbInv, DbFollows
<1>7. \/ Local(w, SkipEntry(a))
      \/ \E k \in Lits : /\ notFalse = {k} /\ IsUndef(a.model, k)
                         /\ Local(w, Propagate(a, k, [size |-> 3, lit |-> ZeroLit,
                                                      ptr |-> e]))
      \/ notFalse = {} /\ Local(w, InConflict(a, c))
  BY <1>1, Zenon DEF VisitTernary
<1>8. CASE Local(w, SkipEntry(a))
  BY <1>1, <1>2, <1>8, SkipStep, Zenon
<1>9. ASSUME NEW k \in Lits, notFalse = {k}, IsUndef(a.model, k),
             Local(w, Propagate(a, k, [size |-> 3, lit |-> ZeroLit, ptr |-> e]))
      PROVE  IInv'
  <2>1. PICK r : r = [size |-> 3, lit |-> ZeroLit, ptr |-> e]
    OBVIOUS
  <2>2. e \in Nat
    BY <1>3, <1>5, DbFields
  <2>3. r \in Reason /\ r.size = 3 /\ r.ptr = e
    BY <2>1, <2>2 DEF Reason
  <2>4. ReasonClause(a.thcdb, db, r, k) = c /\ Refers(a.thcdb, db, r)
    <3>1. ReasonClause(a.thcdb, db, r, k) = db.tDB[r.ptr].lits
      BY <2>3 DEF ReasonClause
    <3>2. Refers(a.thcdb, db, r)
      BY <1>5, <2>3 DEF Refers
    <3> QED BY <1>1, <2>3, <3>1, <3>2, Zenon
  <2>5. k \in c /\ \A j \in c \ {k} : IsFalse(a.model, j)
    BY <1>1, <1>9, Zenon
  <2>6. Backs(a.model, a.thcdb, db, Read, r, k)
    BY <1>6, <2>4, <2>5 DEF Backs
  <2>7. Local(w, Propagate(a, k, r))
    BY <1>9, <2>1
  <2> QED BY <1>1, <1>2, <1>9, <2>3, <2>6, <2>7, PropagateStep, Zenon
<1>10. CASE notFalse = {} /\ Local(w, InConflict(a, c))
  <2>1. AllFalse(a.model, c)
    BY <1>1, <1>10, Zenon DEF AllFalse
  <2>2. \E j \in c : LitIsOfCurrentDl(a.model, j)
    BY <1>3, <1>5
  <2> QED BY <1>1, <1>2, <1>6, <1>10, <2>1, <2>2, ConflictStep, Zenon
<1> QED BY <1>7, <1>8, <1>9, <1>10

\* Clause id is the one the cursor stands at, and `new` a literal it does not watch.
MayRewatch(a, d, old, new, id) ==
    /\ old \in Lits /\ new \in Lits /\ a.cursor.pos \in DOMAIN a.watches[old]
    /\ id = a.watches[old][a.cursor.pos]
    /\ new \notin Watched(a.thcdb[id]) /\ new \in d.nDB[a.thcdb[id].pos].lits

\* Another literal of clause id takes the place of a false watched one.
LEMMA RewatchKeeps ==
    ASSUME NEW a, NEW d, NEW P, WorkerInv(a, d, P), DbInv(d, P), a.pc = "nary",
           NEW old, NEW new, NEW id, MayRewatch(a, d, old, new, id),
           NEW b, b = Rewatch(a, id, old, new)
    PROVE  WorkerInv(b, d, P) /\ b.pc = "nary"
<1> USE DEF MayRewatch
<1>1. Typed(a) /\ Core(a, d, P) /\ Place(a, d, P) /\ d \in ClauseDBType
  BY Zenon DEF WorkerInv, DbInv
<1>2. PICK p, th, W, th2, W2 :
         /\ p = a.cursor.pos /\ th = a.thcdb /\ W = a.watches
         /\ Rewatched(th2, th, id, old, new) /\ Relinked(W2, W, p, id, old, new)
  BY Zenon DEF Rewatched, Relinked
<1>3. th \in Seq(ThClause) /\ W \in [Lits -> Seq(Nat)] /\ Linked(th, W)
  BY <1>1, <1>2, Zenon DEF Typed, Core, WatchInv
<1>4. p \in DOMAIN W[old] /\ id = W[old][p]
  BY <1>2, Zenon
<1>5. id \in DOMAIN th /\ old \in Watched(th[id])
  <2>1. id \in Range(W[old])
    BY <1>4 DEF Range
  <2> QED BY <1>3, <2>1, Zenon DEF Linked
<1>6. \A i \in DOMAIN th : ThGood(th[i], d)
  BY <1>1, <1>2, Zenon DEF Core, ThHeld
<1>7. th[id].w1 # th[id].w2 /\ new \notin Watched(th[id])
  BY <1>2, <1>5, <1>6, Zenon DEF ThGood
<1>8. /\ th2 \in Seq(ThClause) /\ W2 \in [Lits -> Seq(Nat)] /\ Linked(th2, W2)
      /\ DOMAIN th2 = DOMAIN th
      /\ \A i \in DOMAIN th : th2[i].pos = th[i].pos
      /\ \A i \in DOMAIN th \ {id} : th2[i] = th[i]
      /\ th2[id].w1 # th2[id].w2
      /\ Watched(th2[id]) = (Watched(th[id]) \ {old}) \cup {new}
  <2>1. Rewatched(th2, th, id, old, new) /\ Relinked(W2, W, p, id, old, new)
    BY <1>2, Zenon
  <2>2. WatchAt(th, W, old, new, p, id)
    BY <1>3, <1>4, <1>7 DEF WatchAt
  <2>3. Moved(th, old, new, id, th2, W2)
    BY <2>1, <2>2, RewatchLinks, Zenon
  <2> QED BY <2>3, Zenon DEF Moved
<1>9. Differs(a, b, {"thcdb", "watches"})
  <2>1. DOMAIN b = Fields /\ b = [f \in Fields |-> b[f]]
    BY <1>1, Zenon DEF Typed, Rewatch
  <2>2. \A f \in Fields \ {"thcdb", "watches"} : b[f] = a[f]
    BY <1>1, Zenon DEF Typed, Rewatch
  <2> QED BY <2>1, <2>2, Zenon DEF Differs
<1>10. b.thcdb = th2
  BY <1>1, <1>2, Zenon DEF Typed, Fields, Rewatch, Rewatched
<1>11. b.watches = W2
  BY <1>1, <1>2, <1>5, <1>7, Zenon DEF Typed, Fields, Rewatch, Relinked
<1>12. /\ b.pc = a.pc /\ b.model = a.model /\ b.cursor = a.cursor
       /\ b.lastUnit = a.lastUnit
       /\ b.lastBins = a.lastBins /\ b.lastTernary = a.lastTernary
       /\ b.lastNary = a.lastNary /\ b.marks = a.marks /\ b.heap = a.heap
       /\ b.poppedLit = a.poppedLit /\ b.pending = a.pending /\ b.lemma = a.lemma
       /\ b.uip = a.uip /\ b.lemmaToLearn = a.lemmaToLearn /\ b.cleaning = a.cleaning
       /\ b.dlToBackjump = a.dlToBackjump /\ b.rUIP = a.rUIP /\ b.result = a.result
       /\ b.sinceRestart = a.sinceRestart /\ b.sinceCleanup = a.sinceCleanup
       /\ b.cleanupLimit = a.cleanupLimit /\ b.decisions = a.decisions
       /\ b.clause = a.clause
  BY <1>9, Zenon DEF Differs, Fields
<1>13. Typed(b)
  BY <1>1, <1>8, <1>9, <1>10, <1>11, <1>12, Zenon DEF Typed, Differs
<1>14. ThHeld(b, d)
  <2> SUFFICES ASSUME NEW i \in DOMAIN th PROVE ThGood(th2[i], d)
    BY <1>8, <1>10, Zenon DEF ThHeld
  <2>1. CASE i = id
    <3>1. th2[id].pos = th[id].pos /\ {th[id].w1, th[id].w2} \subseteq d.nDB[th[id].pos].lits
      BY <1>5, <1>6, <1>8, Zenon DEF ThGood
    <3>2. {th2[id].w1, th2[id].w2} \subseteq {th[id].w1, th[id].w2} \cup {new}
      BY <1>8, Zenon DEF Watched
    <3>3. new \in d.nDB[th[id].pos].lits
      BY <1>2, Zenon
    <3>4. th2[id].pos \in DOMAIN d.nDB
      BY <1>5, <1>6, <3>1, Zenon DEF ThGood
    <3>5. {th2[id].w1, th2[id].w2} \subseteq d.nDB[th2[id].pos].lits
      BY <3>1, <3>2, <3>3, Zenon
    <3> QED BY <1>8, <2>1, <3>4, <3>5, Zenon DEF ThGood
  <2>2. CASE i # id
    BY <1>6, <1>8, <2>2, Zenon
  <2> QED BY <2>1, <2>2, Zenon
<1>15. WatchInv(b)
  BY <1>8, <1>10, <1>11, <1>12, Zenon DEF WatchInv
<1>16. ModelInv(b.model, b.thcdb, d, P)
  <2>1. PlacesKept(th, th2)
    BY <1>8, Zenon DEF PlacesKept
  <2>2. ModelInv(a.model, th, d, P) /\ a.model \in ModelType
    BY <1>2, WorkerParts, Zenon
  <2>3. ModelInv(a.model, th2, d, P)
    BY <1>1, <2>1, <2>2, ExtendsSame, ModelInvStays, Zenon
  <2> QED BY <1>10, <1>12, <2>3, Zenon
<1>17. Core(b, d, P)
  BY <1>1, <1>12, <1>14, <1>15, <1>16, Zenon DEF Core, Counted
<1>18. Place(b, d, P)
  <2>1. CursorInv(b) /\ Visiting(b, d)
    BY <1>1, <1>12, Zenon DEF Place, CursorInv, Visiting, PoppingNow, Target
  <2>2. /\ Conflict(b, P) /\ Marking(b, P) /\ Popped(b, P) /\ Lemma(b, P)
        /\ Shortening(b, P) /\ Backjumping(b, d, P)
    BY <1>12, Zenon DEF Conflict, Marking, Popped, Lemma, Shortening, Backjumping
  <2>3. Unmarked(b) /\ Answered(b, P)
    BY <1>1, <1>12, Zenon DEF Place, Unmarked, Answered
  <2> QED BY <2>1, <2>2, <2>3, Zenon DEF Place
<1> QED BY <1>12, <1>13, <1>17, <1>18, Zenon DEF WorkerInv

LEMMA VisitNaryIInv == ASSUME IInv, NEW w \in Workers, VisitNary(w) PROVE IInv'
<1>1. PICK a, l, f, id, t, other, c, free :
         /\ a = ad[w] /\ l = a.cursor.lit /\ f = -l
         /\ id = a.watches[f][a.cursor.pos] /\ t = a.thcdb[id]
         /\ other = IF t.w1 = f THEN t.w2 ELSE t.w1
         /\ c = ThLits(t) /\ free = {k \in c \ {f, other} : ~IsFalse(a.model, k)}
  BY Zenon
<1>2. a.pc = "nary" /\ a.cursor.pos <= Len(a.watches[f])
  BY <1>1, Zenon DEF VisitNary, At
<1>3. /\ WorkerInv(a, db, Read) /\ DbInv(db, Read) /\ Typed(a)
      /\ db \in ClauseDBType /\ a.model \in ModelType
      /\ l \in Lits /\ f \in Lits
      /\ IsFalse(a.model, f) /\ LitIsOfCurrentDl(a.model, f)
      /\ a.cursor.pos \in Nat /\ a.cursor.pos > 0
  BY <1>1, <1>2, VisitFacts, Zenon
<1>4. a.cursor.pos \in DOMAIN a.watches[f]
  <2>1. a.watches[f] \in Seq(Nat)
    BY <1>3 DEF Typed
  <2> QED BY <1>2, <1>3, <2>1
<1>5. id \in DOMAIN a.thcdb /\ f \in Watched(t)
  <2>1. id \in Range(a.watches[f])
    BY <1>1, <1>4, Zenon DEF Range
  <2>2. Linked(a.thcdb, a.watches)
    BY <1>2, <1>3 DEF WorkerInv, Core, WatchInv
  <2> QED BY <1>1, <1>3, <2>1, <2>2, Zenon DEF Linked
<1>6. ThGood(t, db)
  BY <1>1, <1>2, <1>3, <1>5, Zenon DEF WorkerInv, Core, ThHeld
<1>7. /\ c = db.nDB[t.pos].lits /\ t.pos \in DOMAIN db.nDB
      /\ f \in c /\ other \in c /\ other # f /\ Watched(t) = {f, other}
  BY <1>1, <1>5, <1>6, ZenonT(40) DEF ThGood, Watched, ThLits
<1>8. c \in Clause /\ Follows(Read, c) /\ Cardinality(c) > 3 /\ other \in Lits
  BY <1>3, <1>7, DbFields DEF DbInv, DbFollows, DbLinked, Clause
<1>9. \/ Local(w, SkipEntry(a))
      \/ free # {} /\ Local(w, Rewatch(a, id, f, Min(free)))
      \/ /\ IsUndef(a.model, other) /\ free = {}
         /\ Local(w, Propagate(a, other, [size |-> Cardinality(c), lit |-> ZeroLit,
                                          ptr |-> id]))
      \/ /\ IsFalse(a.model, other) /\ free = {}
         /\ Local(w, InConflict([a EXCEPT !.thcdb[id].activity = @ + 1], c))
  BY <1>1, Zenon DEF VisitNary
<1>10. CASE Local(w, SkipEntry(a))
  BY <1>1, <1>2, <1>10, SkipStep, Zenon
<1>11. CASE free # {} /\ Local(w, Rewatch(a, id, f, Min(free)))
  <2>1. free \in Clause /\ free \subseteq c \ {f, other}
    BY <1>1, <1>8, Zenon DEF Clause
  <2>2. PICK new : new = Min(free)
    OBVIOUS
  <2>3. new \in free
    BY <1>11, <2>1, <2>2, LeastLiteral
  <2>4. /\ new \in Lits /\ new \notin Watched(a.thcdb[id])
        /\ new \in db.nDB[a.thcdb[id].pos].lits
    BY <1>1, <1>7, <2>1, <2>3, ZenonT(40) DEF Clause
  <2>5. PICK b : b = Rewatch(a, id, f, new)
    OBVIOUS
  <2>6. WorkerInv(b, db, Read) /\ b.pc = "nary"
    <3>1. MayRewatch(a, db, f, new, id)
      BY <1>1, <1>3, <1>4, <2>4, Zenon DEF MayRewatch
    <3> QED BY <1>2, <1>3, <2>5, <3>1, RewatchKeeps
  <2>7. Local(w, b)
    BY <1>11, <2>2, <2>5
  <2> QED BY <1>1, <1>2, <2>6, <2>7, LocalKeeps, Zenon
<1>12. CASE /\ IsUndef(a.model, other) /\ free = {}
            /\ Local(w, Propagate(a, other, [size |-> Cardinality(c), lit |-> ZeroLit,
                                             ptr |-> id]))
  <2>1. PICK r : r = [size |-> Cardinality(c), lit |-> ZeroLit, ptr |-> id]
    OBVIOUS
  <2>2. Cardinality(c) \in Nat /\ id \in Nat
    <3>1. Cardinality(c) \in Nat
      BY <1>8, ClauseSize
    <3>2. a.thcdb \in Seq(ThClause)
      BY <1>3 DEF Typed
    <3> QED BY <1>5, <3>1, <3>2
  <2>3. r \in Reason /\ r.size = Cardinality(c) /\ r.ptr = id
    BY <2>1, <2>2 DEF Reason
  <2>4. Refers(a.thcdb, db, r)
    <3>1. r.size > 3 /\ r.size \in Nat
      BY <1>8, <2>2, <2>3
    <3>2. r.ptr \in DOMAIN a.thcdb /\ a.thcdb[r.ptr].pos \in DOMAIN db.nDB
      BY <1>1, <1>5, <1>7, <2>3, Zenon
    <3> QED BY <3>1, <3>2 DEF Refers
  <2>5. ReasonClause(a.thcdb, db, r, other) = c
    <3>1. r.size > 3 /\ r.size \in Nat
      BY <1>8, <2>2, <2>3
    <3>2. ReasonClause(a.thcdb, db, r, other) = db.nDB[a.thcdb[r.ptr].pos].lits
      BY <3>1 DEF ReasonClause
    <3> QED BY <1>1, <1>7, <2>3, <3>2, Zenon
  <2>6. \A k \in c \ {other} : IsFalse(a.model, k)
    BY <1>1, <1>3, <1>12, ZenonT(40)
  <2>7. Backs(a.model, a.thcdb, db, Read, r, other)
    BY <1>7, <1>8, <2>4, <2>5, <2>6 DEF Backs
  <2>8. Local(w, Propagate(a, other, r))
    BY <1>12, <2>1
  <2> QED BY <1>1, <1>2, <1>8, <1>12, <2>3, <2>7, <2>8, PropagateStep, Zenon
<1>13. CASE /\ IsFalse(a.model, other) /\ free = {}
            /\ Local(w, InConflict([a EXCEPT !.thcdb[id].activity = @ + 1], c))
  <2>1. PICK b, th2 : /\ b = InConflict([a EXCEPT !.thcdb[id].activity = @ + 1], c)
                      /\ th2 = [a.thcdb EXCEPT ![id].activity = @ + 1]
    OBVIOUS
  <2>2. Differs(a, b, {"pc", "clause", "cursor", "thcdb"})
    <3>1. DOMAIN b = Fields /\ b = [x \in Fields |-> b[x]]
      BY <1>3, <2>1 DEF Typed, InConflict
    <3>2. \A x \in Fields \ {"pc", "clause", "cursor", "thcdb"} : b[x] = a[x]
      BY <1>3, <2>1 DEF Typed, InConflict
    <3> QED BY <3>1, <3>2 DEF Differs
  <2>3. b.pc = "conflict" /\ b.clause = c /\ b.cursor = NoCursor /\ b.thcdb = th2
    BY <1>3, <2>1 DEF Typed, Fields, InConflict
  <2>4. th2 \in Seq(ThClause) /\ SameClauses(a.thcdb, th2)
    BY <1>3, <1>5, <2>1, ActivityRaised, Zenon DEF Typed
  <2>5. AllFalse(a.model, c)
    BY <1>1, <1>3, <1>13, Zenon DEF AllFalse
  <2>6. \E k \in c : LitIsOfCurrentDl(a.model, k)
    BY <1>3, <1>7
  <2>7. NoCursor \in Cursor
    BY DEF NoCursor, Cursor
  <2>8. WorkerInv(b, db, Read)
    BY <1>2, <1>3, <1>8, <2>2, <2>3, <2>4, <2>5, <2>6, <2>7, ConflictKeeps
  <2> QED BY <1>1, <1>2, <1>13, <2>1, <2>3, <2>8, LocalKeeps, Zenon
<1> QED BY <1>9, <1>10, <1>11, <1>12, <1>13

-----------------------------------------------------------------------------
(* azuDICI_conflict_analysis *)

LEMMA ConflictAtLevelZeroIInv ==
    ASSUME IInv, NEW w \in Workers, ConflictAtLevelZero(w)
    PROVE  IInv'
<1>1. PICK a, b : a = ad[w] /\ b = [a EXCEPT !.pc = "done", !.result = 20]
  OBVIOUS
<1>2. /\ WorkerInv(a, db, Read) /\ DbInv(db, Read) /\ Typed(a) /\ a.pc = "conflict"
      /\ a.model.decisionLvl = 0 /\ Local(w, b)
  BY <1>1 DEF IInv, ConflictAtLevelZero, At, Finish, WorkerInv
<1>3. Differs(a, b, {"pc", "result", "heap"})
  <2>1. DOMAIN b = Fields /\ b = [f \in Fields |-> b[f]]
    BY <1>1, <1>2 DEF Typed
  <2>2. \A f \in Fields \ {"pc", "result"} : b[f] = a[f]
    BY <1>1, <1>2 DEF Typed
  <2> QED BY <2>1, <2>2 DEF Differs
<1>4. b.pc = "done" /\ b.result = 20 /\ b.heap = a.heap
  BY <1>1, <1>2 DEF Typed, Fields
<1>5. ModelsOf(Read) = {}
  <2>1. AllFalse(a.model, a.clause) /\ Follows(Read, a.clause)
    BY <1>2, WorkerParts DEF Place, Conflict
  <2>2. ASSUME NEW k \in a.clause PROVE k \in Lits /\ Follows(Read, {-k})
    <3>1. k \in Lits /\ IsFalse(a.model, k)
      BY <1>2, <2>1, <2>2 DEF Typed, Clause, AllFalse
    <3> QED BY <1>2, <3>1, WorkerParts, FalseAtZero
  <2> QED BY <2>1, <2>2, AllRefuted
<1>6. b.heap \in SUBSET Vars /\ Free(a.model) \subseteq b.heap
  BY <1>2, <1>4, WorkerParts
<1>7. WorkerInv(b, db, Read)
  BY <1>2, <1>3, <1>4, <1>5, <1>6, FinishKeeps
<1> QED BY <1>1, <1>2, <1>4, <1>7, LocalKeeps

\* What a step of the analysis changes.
Analysed == {"pc", "model", "heap", "thcdb", "marks", "clause", "poppedLit", "pending",
             "lemma", "uip", "lemmaToLearn", "sinceRestart", "sinceCleanup"}

LEMMA AnalysisStep ==
    ASSUME NEW a, NEW b, NEW d, NEW P, WorkerInv(a, d, P), DbInv(d, P),
           a.pc \in {"conflict", "mark", "pop", "lemma", "shorten"},
           b.pc \in {"mark", "pop", "lemma", "shorten"},
           Differs(a, b, Analysed),
           b.model \in ModelType, b.heap \in SUBSET Vars, b.thcdb \in Seq(ThClause),
           b.marks \in SUBSET Vars, b.clause \in Clause,
           b.poppedLit \in Lits \cup {ZeroLit}, b.pending \in Nat, b.lemma \in Clause,
           b.uip \in Lits \cup {ZeroLit}, b.lemmaToLearn \in Clause,
           b.sinceRestart \in Nat, b.sinceCleanup \in Nat,
           SameClauses(a.thcdb, b.thcdb),
           ModelInv(b.model, a.thcdb, d, P), Free(b.model) \subseteq b.heap,
           Marking(b, P), Popped(b, P), Lemma(b, P), Shortening(b, P), Unmarked(b)
    PROVE  WorkerInv(b, d, P)
<1>1. Typed(a) /\ Core(a, d, P) /\ Place(a, d, P)
  BY DEF WorkerInv
<1>2. /\ b.watches = a.watches /\ b.lastUnit = a.lastUnit
      /\ b.lastBins = a.lastBins /\ b.lastTernary = a.lastTernary
      /\ b.lastNary = a.lastNary /\ b.cursor = a.cursor /\ b.cleaning = a.cleaning
      /\ b.dlToBackjump = a.dlToBackjump /\ b.rUIP = a.rUIP /\ b.result = a.result
      /\ b.cleanupLimit = a.cleanupLimit /\ b.decisions = a.decisions
  BY DEF Differs, Fields, Analysed
<1>3. Typed(b)
  <2>1. b.pc \in Locations
    BY DEF Locations
  <2> QED BY <1>1, <1>2, <2>1 DEF Typed, Differs
<1>4. Core(b, d, P)
  BY <1>1, <1>2, WorkerParts, CoreStep DEF DbInv
<1>5. CursorInv(b)
  BY DEF CursorInv, PoppingNow
<1>6. Visiting(b, d)
  BY DEF Visiting
<1>7. Conflict(b, P) /\ Backjumping(b, d, P)
  BY DEF Conflict, Backjumping
<1>8. Answered(b, P)
  BY <1>1, <1>2 DEF Place, Answered
<1> QED BY <1>3, <1>4, <1>5, <1>6, <1>7, <1>8 DEF WorkerInv, Place

LEMMA StartAnalysisIInv ==
    ASSUME IInv, NEW w \in Workers, StartAnalysis(w)
    PROVE  IInv'
<1>1. PICK a, b : /\ a = ad[w]
                  /\ b = [a EXCEPT !.pc = "mark", !.poppedLit = ZeroLit, !.pending = 0,
                                   !.lemma = {}, !.sinceRestart = @ + 1,
                                   !.sinceCleanup = @ + 1]
  OBVIOUS
<1>2. /\ WorkerInv(a, db, Read) /\ DbInv(db, Read) /\ Typed(a) /\ a.pc = "conflict"
      /\ a.model.decisionLvl > 0 /\ Local(w, b)
  BY <1>1 DEF IInv, StartAnalysis, At, WorkerInv
<1>3. Differs(a, b, Analysed)
  <2>1. DOMAIN b = Fields /\ b = [f \in Fields |-> b[f]]
    BY <1>1, <1>2 DEF Typed
  <2>2. \A f \in Fields \ {"pc", "poppedLit", "pending", "lemma", "sinceRestart",
                           "sinceCleanup"} : b[f] = a[f]
    BY <1>1, <1>2 DEF Typed
  <2> QED BY <2>1, <2>2 DEF Differs, Analysed
<1>4. /\ b.pc = "mark" /\ b.poppedLit = ZeroLit /\ b.pending = 0 /\ b.lemma = {}
      /\ b.sinceRestart = a.sinceRestart + 1 /\ b.sinceCleanup = a.sinceCleanup + 1
      /\ b.model = a.model /\ b.heap = a.heap /\ b.thcdb = a.thcdb /\ b.marks = a.marks
      /\ b.clause = a.clause /\ b.uip = a.uip /\ b.lemmaToLearn = a.lemmaToLearn
  BY <1>1, <1>2 DEF Typed, Fields
<1>5. /\ b.model \in ModelType /\ b.heap \in SUBSET Vars /\ b.thcdb \in Seq(ThClause)
      /\ b.marks \in SUBSET Vars /\ b.clause \in Clause
      /\ b.poppedLit \in Lits \cup {ZeroLit} /\ b.pending \in Nat /\ b.lemma \in Clause
      /\ b.uip \in Lits \cup {ZeroLit} /\ b.lemmaToLearn \in Clause
      /\ b.sinceRestart \in Nat /\ b.sinceCleanup \in Nat
  <2>1. /\ a.model \in ModelType /\ a.heap \in SUBSET Vars /\ a.thcdb \in Seq(ThClause)
        /\ a.marks \in SUBSET Vars /\ a.clause \in Clause /\ a.uip \in Lits \cup {ZeroLit}
        /\ a.lemmaToLearn \in Clause /\ a.sinceRestart \in Nat /\ a.sinceCleanup \in Nat
    BY <1>2 DEF Typed
  <2>2. a.sinceRestart + 1 \in Nat /\ a.sinceCleanup + 1 \in Nat /\ {} \in Clause
    BY <2>1 DEF Clause
  <2> QED BY <1>4, <2>1, <2>2
<1>6. /\ SameClauses(a.thcdb, b.thcdb)
      /\ ModelInv(b.model, a.thcdb, db, Read) /\ Free(b.model) \subseteq b.heap
  BY <1>2, <1>4, WorkerParts, SameClausesSame
<1>7. a.marks = {}
  BY <1>2, WorkerParts DEF Place, Unmarked
<1>8. Marking(b, Read)
  <2>1. /\ AllFalse(a.model, a.clause) /\ Follows(Read, a.clause)
        /\ \E l \in a.clause : LitIsOfCurrentDl(a.model, l)
    BY <1>2, WorkerParts DEF Place, Conflict
  <2>2. a.clause \ {ZeroLit} = a.clause
    <3>1. ZeroLit \notin Lits /\ a.clause \subseteq Lits
      BY <1>2 DEF Typed, Clause, Lits, ZeroLit
    <3> QED BY <3>1
  <2>3. ThisDl(a.model, {}) = {} /\ Side(a.model, {}, {}) = {}
    BY DEF ThisDl, Side
  <2>4. InAnalysis(a.model, {}, {}, 0)
    <3>1. Cardinality({}) = 0
      BY FS_EmptySet
    <3> QED BY <1>2, <2>3, <3>1 DEF InAnalysis, AllLower
  <2> QED BY <1>4, <1>7, <2>1, <2>2, <2>3, <2>4 DEF Marking
<1>9. Popped(b, Read) /\ Lemma(b, Read) /\ Shortening(b, Read) /\ Unmarked(b)
  BY <1>4 DEF Popped, Lemma, Shortening, Unmarked
<1>10. WorkerInv(b, db, Read)
  BY <1>2, <1>3, <1>4, <1>5, <1>6, <1>8, <1>9, AnalysisStep
<1> QED BY <1>1, <1>2, <1>4, <1>10, LocalKeeps

\* A literal is undefined when its variable is.
LEMMA UndefVar ==
    ASSUME NEW m \in ModelType, TrailConsistent(m), NEW l \in Lits
    PROVE  IsUndefVar(m, var(l)) <=> IsUndef(m, l)
<1>1. -l \in Lits /\ -(-l) = l
  BY LitFacts
<1>2. IsUndef(m, l) => IsUndefVar(m, var(l))
  BY NegationUndef
<1>3. IsUndef(m, -l) => IsUndef(m, l)
  BY <1>1, NegationUndef
<1>4. var(l) = l \/ var(l) = -l
  BY DEF var
<1> QED BY <1>2, <1>3, <1>4 DEF IsUndef, IsUndefVar

\* Two false literals of one variable are the same.
LEMMA FalseOfVar ==
    ASSUME NEW m \in ModelType, TrailConsistent(m),
           NEW k \in Lits, IsFalse(m, k), NEW l \in Lits, IsFalse(m, l), var(k) = var(l)
    PROVE  k = l
<1>1. k = l \/ k = -l
  BY LitFacts
<1>2. IsTrue(m, -l) /\ -l \in Lits
  BY FalseLits
<1> QED BY <1>1, <1>2, ValueOfLit

LEMMA SetsOfVars ==
    ASSUME NEW S \in SUBSET Vars
    PROVE  /\ IsFiniteSet(S) /\ Cardinality(S) \in Nat
           /\ Cardinality(S) = 0 <=> S = {}
<1>1. IsFiniteSet(Vars)
  BY NumVarsAssumption, FS_Interval DEF Vars
<1>2. IsFiniteSet(S)
  BY <1>1, FS_Subset
<1> QED BY <1>2, FS_CardinalityType, FS_EmptySet

\* What MarkClause does to the marks, their number and the lemma.
MarkedTo(m, marks, pending, lemma, rest, marks2, pending2, lemma2) ==
    LET new == {l \in rest : var(l) \notin marks}
        thisDl == {l \in new : LitIsOfCurrentDl(m, l)}
        lower == {l \in new \ thisDl : LitDl(m, l) > 0}
    IN  /\ marks2 = marks \cup {var(l) : l \in thisDl \cup lower}
        /\ pending2 = pending + Cardinality({var(l) : l \in thisDl})
        /\ lemma2 = lemma \cup lower

\* The clause has been marked: its literals are pending, in the lemma or refuted.
LEMMA MarkedClause ==
    ASSUME NEW P, NEW m \in ModelType, TrailConsistent(m), FixedFollow(m, P),
           NEW marks \in SUBSET Vars, NEW lemma \in Clause, NEW pending \in Nat,
           NEW rest \in Clause, InAnalysis(m, marks, lemma, pending), AllFalse(m, rest),
           NEW resolvent, resolvent = rest \cup Side(m, marks, lemma),
           Follows(P, resolvent), \E l \in resolvent : LitIsOfCurrentDl(m, l),
           NEW marks2, NEW pending2, NEW lemma2,
           MarkedTo(m, marks, pending, lemma, rest, marks2, pending2, lemma2)
    PROVE  /\ marks2 \in SUBSET Vars /\ pending2 \in Nat /\ lemma2 \in Clause
           /\ InAnalysis(m, marks2, lemma2, pending2)
           /\ Follows(P, Side(m, marks2, lemma2)) /\ pending2 > 0
<1>0. PICK new, thisDl, lower :
         /\ new = {l \in rest : var(l) \notin marks}
         /\ thisDl = {l \in new : LitIsOfCurrentDl(m, l)}
         /\ lower = {l \in new \ thisDl : LitDl(m, l) > 0}
         /\ marks2 = marks \cup {var(l) : l \in thisDl \cup lower}
         /\ pending2 = pending + Cardinality({var(l) : l \in thisDl})
         /\ lemma2 = lemma \cup lower
  BY DEF MarkedTo
<1> USE <1>0
<1>1. ASSUME NEW l \in rest
      PROVE  /\ l \in Lits /\ IsFalse(m, l) /\ var(l) \in Vars
             /\ LitDl(m, l) \in Nat /\ LitDl(m, l) <= m.decisionLvl
             /\ LitDl(m, l) = m.level[var(l)]
  <2>1. l \in Lits /\ IsFalse(m, l)
    BY <1>1 DEF Clause, AllFalse
  <2> QED BY <2>1, FalseLits DEF LitDl
<1>2. m.decisionLvl \in Nat
  BY DEF ModelType
<1>3. PICK D, V : D = ThisDl(m, marks) /\ V = {var(l) : l \in thisDl}
  OBVIOUS
<1>4. V \in SUBSET Vars /\ D \in SUBSET Vars /\ marks2 \in SUBSET Vars
  BY <1>1, <1>3 DEF ThisDl
<1>5. lemma2 \in Clause
  BY <1>1 DEF Clause
<1>6. ThisDl(m, marks2) = D \cup V
  <2>1. ASSUME NEW v \in ThisDl(m, marks2) PROVE v \in D \cup V
    <3>1. v \in marks2 /\ m.level[v] = m.decisionLvl
      BY <2>1 DEF ThisDl
    <3>2. CASE v \in marks
      BY <1>3, <3>1, <3>2 DEF ThisDl
    <3>3. ASSUME NEW l \in lower, v = var(l) PROVE FALSE
      BY <3>1, <3>3 DEF LitIsOfCurrentDl
    <3> QED BY <1>3, <3>1, <3>2, <3>3
  <2>2. ASSUME NEW l \in thisDl PROVE var(l) \in ThisDl(m, marks2)
    BY <2>2 DEF ThisDl, LitIsOfCurrentDl
  <2>3. D \subseteq ThisDl(m, marks2)
    BY <1>3 DEF ThisDl
  <2> QED BY <1>3, <2>1, <2>2, <2>3
<1>7. V \cap D = {}
  BY <1>3 DEF ThisDl
<1>8. pending2 = Cardinality(ThisDl(m, marks2)) /\ pending2 \in Nat
  <2>1. /\ IsFiniteSet(D) /\ IsFiniteSet(V) /\ Cardinality(D) \in Nat
        /\ Cardinality(V) \in Nat
    BY <1>4, SetsOfVars
  <2>2. Cardinality(D \cup V) = Cardinality(D) + Cardinality(V) - Cardinality(D \cap V)
    BY <2>1, FS_Union
  <2>3. Cardinality(D \cap V) = 0
    <3>1. D \cap V = {}
      BY <1>7
    <3> QED BY <3>1, FS_EmptySet
  <2>4. pending = Cardinality(D)
    BY <1>3 DEF InAnalysis
  <2>5. pending2 = pending + Cardinality(V)
    BY <1>3
  <2>6. Cardinality(D \cup V) = pending2 /\ pending2 \in Nat
    BY <2>1, <2>2, <2>3, <2>4, <2>5
  <2> QED BY <1>6, <2>6
<1>9. marks2 \ ThisDl(m, marks2) = {var(l) : l \in lemma2}
  <2>1. ASSUME NEW v \in marks2, v \notin ThisDl(m, marks2)
        PROVE  \E l \in lemma2 : v = var(l)
    <3>1. CASE v \in marks
      <4>1. v \in marks \ ThisDl(m, marks)
        BY <1>3, <1>6, <2>1, <3>1
      <4> QED BY <4>1 DEF InAnalysis
    <3>2. CASE v \notin marks
      <4>1. PICK l \in thisDl \cup lower : v = var(l)
        BY <3>2
      <4>2. l \notin thisDl
        BY <1>3, <1>6, <2>1, <4>1
      <4> QED BY <4>1, <4>2
    <3> QED BY <3>1, <3>2
  <2>2. ASSUME NEW l \in lemma2 PROVE var(l) \in marks2 /\ var(l) \notin ThisDl(m, marks2)
    <3>1. CASE l \in lemma
      <4>1. var(l) \in marks /\ var(l) \notin ThisDl(m, marks)
        BY <3>1 DEF InAnalysis
      <4> QED BY <4>1 DEF ThisDl
    <3>2. CASE l \in lower
      BY <3>2 DEF ThisDl, LitIsOfCurrentDl
    <3> QED BY <3>1, <3>2
  <2> QED BY <2>1, <2>2
<1>10. AllLower(m, lemma2)
  <2>1. ASSUME NEW l \in lower
        PROVE  IsFalse(m, l) /\ 0 < LitDl(m, l) /\ LitDl(m, l) < m.decisionLvl
    <3>1. l \in rest /\ LitDl(m, l) > 0 /\ LitDl(m, l) # m.decisionLvl
      BY <2>1 DEF LitIsOfCurrentDl, LitDl
    <3> QED BY <1>1, <1>2, <3>1
  <2> QED BY <2>1 DEF InAnalysis, AllLower
<1>11. ASSUME NEW v \in marks2 PROVE ~IsUndefVar(m, v)
  <2>1. CASE v \in marks
    BY <2>1 DEF InAnalysis
  <2>2. CASE v \notin marks
    <3>1. PICK l \in thisDl \cup lower : v = var(l)
      BY <2>2
    <3>2. l \in rest
      BY <3>1
    <3> QED BY <1>1, <3>1, <3>2, UndefVar, ValueOfLit
  <2> QED BY <2>1, <2>2
<1>12. InAnalysis(m, marks2, lemma2, pending2)
  BY <1>8, <1>9, <1>10, <1>11 DEF InAnalysis
<1>13. Follows(P, Side(m, marks2, lemma2))
  <2>1. ASSUME NEW k \in resolvent \ Side(m, marks2, lemma2)
        PROVE  k \in Lits /\ Follows(P, {-k})
    <3>1. Side(m, marks, lemma) \subseteq Side(m, marks2, lemma2)
      BY <1>3, <1>6 DEF Side
    <3>2. k \in rest
      BY <2>1, <3>1
    <3>3. k \in Lits /\ IsFalse(m, k) /\ var(k) \in Vars
      BY <1>1, <3>2
    <3>4. var(k) \notin ThisDl(m, marks2) /\ k \notin lemma2
      BY <2>1, <3>3 DEF Side
    <3>5. var(k) \notin marks
      <4> SUFFICES ASSUME var(k) \in marks PROVE FALSE
        OBVIOUS
      <4>1. var(k) \in marks \ ThisDl(m, marks)
        BY <1>3, <1>6, <3>4
      <4>2. PICK l \in lemma : var(k) = var(l)
        BY <4>1 DEF InAnalysis
      <4>3. l \in Lits /\ IsFalse(m, l)
        BY <4>2 DEF Clause, InAnalysis, AllLower
      <4> QED BY <3>3, <3>4, <4>2, <4>3, FalseOfVar
    <3>6. k \in new /\ k \notin thisDl /\ k \notin lower
      BY <1>3, <1>6, <3>2, <3>4, <3>5
    <3>7. LitDl(m, k) = 0
      BY <1>1, <3>2, <3>6
    <3> QED BY <3>3, <3>7, FalseAtZero
  <2> QED BY <2>1, FollowsWithout
<1>14. pending2 > 0
  <2>1. ThisDl(m, marks2) # {}
    <3>1. PICK l \in resolvent : LitIsOfCurrentDl(m, l)
      OBVIOUS
    <3>2. CASE l \in rest
      <4>1. CASE var(l) \in marks
        BY <1>3, <1>6, <3>1, <4>1 DEF ThisDl, LitIsOfCurrentDl
      <4>2. CASE var(l) \notin marks
        BY <1>3, <1>6, <3>1, <3>2, <4>2
      <4> QED BY <4>1, <4>2
    <3>3. CASE l \in lemma
      <4>1. LitDl(m, l) < m.decisionLvl /\ LitDl(m, l) = m.decisionLvl
        BY <3>1, <3>3 DEF InAnalysis, AllLower, LitIsOfCurrentDl, LitDl
      <4> QED BY <1>2, <4>1
    <3>4. CASE var(l) \in ThisDl(m, marks)
      BY <1>3, <1>6, <3>4
    <3> QED BY <3>1, <3>2, <3>3, <3>4 DEF Side
  <2>2. ThisDl(m, marks2) \in SUBSET Vars
    BY <1>3, <1>4, <1>6
  <2> QED BY <1>8, <2>1, <2>2, SetsOfVars
<1> QED BY <1>4, <1>5, <1>8, <1>12, <1>13, <1>14

LEMMA MarkClauseIInv == ASSUME IInv, NEW w \in Workers, MarkClause(w) PROVE IInv'
<1>1. PICK a, rest : a = ad[w] /\ rest = a.clause \ {a.poppedLit}
  OBVIOUS
<1>2. PICK marks2, pending2, lemma2 :
         MarkedTo(a.model, a.marks, a.pending, a.lemma, rest, marks2, pending2, lemma2)
  BY DEF MarkedTo
<1>3. PICK b : b = [a EXCEPT !.pc = "pop", !.clause = {}, !.marks = marks2,
                             !.pending = pending2, !.lemma = lemma2]
  OBVIOUS
<1>4. /\ WorkerInv(a, db, Read) /\ DbInv(db, Read) /\ Typed(a) /\ a.pc = "mark"
      /\ Local(w, b)
  BY <1>1, <1>2, <1>3, SMTT(30) DEF IInv, MarkClause, MarkedTo, At, WorkerInv
<1>5. Differs(a, b, Analysed)
  <2>1. DOMAIN b = Fields /\ b = [f \in Fields |-> b[f]]
    BY <1>3, <1>4 DEF Typed
  <2>2. \A f \in Fields \ {"pc", "clause", "marks", "pending", "lemma"} : b[f] = a[f]
    BY <1>3, <1>4 DEF Typed
  <2> QED BY <2>1, <2>2 DEF Differs, Analysed
<1>6. /\ b.pc = "pop" /\ b.clause = {} /\ b.marks = marks2 /\ b.pending = pending2
      /\ b.lemma = lemma2
  BY <1>3, <1>4 DEF Typed, Fields
<1>7. /\ b.model = a.model /\ b.heap = a.heap /\ b.thcdb = a.thcdb
      /\ b.poppedLit = a.poppedLit /\ b.uip = a.uip /\ b.lemmaToLearn = a.lemmaToLearn
      /\ b.sinceRestart = a.sinceRestart /\ b.sinceCleanup = a.sinceCleanup
  BY <1>3, <1>4 DEF Typed, Fields
<1>8. /\ InAnalysis(a.model, a.marks, a.lemma, a.pending) /\ AllFalse(a.model, rest)
      /\ Follows(Read, rest \cup Side(a.model, a.marks, a.lemma))
      /\ \E l \in rest \cup Side(a.model, a.marks, a.lemma) : LitIsOfCurrentDl(a.model, l)
  BY <1>1, <1>4, WorkerParts DEF Place, Marking
<1>9. /\ a.marks \in SUBSET Vars /\ a.lemma \in Clause /\ a.pending \in Nat
      /\ rest \in Clause
  BY <1>1, <1>4 DEF Typed, Clause
<1>10. /\ a.model \in ModelType /\ TrailConsistent(a.model)
       /\ FixedFollow(a.model, Read)
  BY <1>4, WorkerParts
<1>11. /\ marks2 \in SUBSET Vars /\ pending2 \in Nat /\ lemma2 \in Clause
       /\ InAnalysis(a.model, marks2, lemma2, pending2)
       /\ Follows(Read, Side(a.model, marks2, lemma2)) /\ pending2 > 0
  <2>1. PICK m, marks, lemma, pending, resolvent :
           /\ m = a.model /\ marks = a.marks /\ lemma = a.lemma /\ pending = a.pending
           /\ resolvent = rest \cup Side(m, marks, lemma)
    OBVIOUS
  <2>2. /\ marks2 \in SUBSET Vars /\ pending2 \in Nat /\ lemma2 \in Clause
        /\ InAnalysis(m, marks2, lemma2, pending2)
        /\ Follows(Read, Side(m, marks2, lemma2)) /\ pending2 > 0
    BY <1>2, <1>8, <1>9, <1>10, <2>1, MarkedClause
  <2> QED BY <2>1, <2>2
<1>12. /\ b.poppedLit \in Lits \cup {ZeroLit} /\ b.uip \in Lits \cup {ZeroLit}
       /\ b.lemmaToLearn \in Clause /\ b.sinceRestart \in Nat /\ b.sinceCleanup \in Nat
  BY <1>4, <1>7 DEF Typed
<1>13. /\ b.model \in ModelType /\ b.heap \in SUBSET Vars /\ b.thcdb \in Seq(ThClause)
       /\ SameClauses(a.thcdb, b.thcdb)
       /\ ModelInv(b.model, a.thcdb, db, Read) /\ Free(b.model) \subseteq b.heap
  BY <1>4, <1>7, WorkerParts, SameClausesSame
<1>14. Popped(b, Read)
  BY <1>6, <1>7, <1>11 DEF Popped
<1>15. Marking(b, Read) /\ Lemma(b, Read) /\ Shortening(b, Read) /\ Unmarked(b)
  BY <1>6 DEF Marking, Lemma, Shortening, Unmarked
<1>16. b.clause \in Clause
  BY <1>6 DEF Clause
<1>17. WorkerInv(b, db, Read)
  BY <1>4, <1>5, <1>6, <1>11, <1>12, <1>13, <1>14, <1>15, <1>16, AnalysisStep
<1> QED BY <1>1, <1>4, <1>6, <1>17, LocalKeeps

\* The literal on the top is popped and loses its mark.
Unmarks(m, l, n, marks, marks2) ==
    l = Top(m) /\ n = PopAndSetUndef(m) /\ marks2 = marks \ {var(l)}

\* It is a literal of the last level, and what is marked beside it stays as it is.
TopPopped(m, marks, lemma, l, n, marks2) ==
    /\ l \in Lits /\ -l \in Lits /\ IsTrue(m, l) /\ LitDl(m, l) = m.decisionLvl
    /\ LitHeight(m, l) = Len(m.stack) - 1 /\ Len(m.stack) \in Nat
    /\ IsUndef(n, -l) /\ n.decisionLvl = m.decisionLvl
    /\ \A k \in Lits \ {l, -l} : KeptLit(m, n, k)
    /\ ThisDl(n, marks2) = ThisDl(m, marks) \ {var(l)}
    /\ marks2 \ ThisDl(n, marks2) = {var(k) : k \in lemma}
    /\ \A v \in marks2 : ~IsUndefVar(n, v)
    /\ AllLower(n, lemma) /\ -l \notin lemma
    /\ Side(n, marks2, lemma) = Side(m, marks, lemma) \ {-l}

\* While variables of the last level are marked, what is popped is a literal of it.
LEMMA PoppedTop ==
    ASSUME NEW m \in ModelType, TrailConsistent(m),
           NEW marks \in SUBSET Vars, NEW lemma \in Clause, NEW pending \in Nat,
           InAnalysis(m, marks, lemma, pending), pending > 0,
           NEW l, NEW n, NEW marks2, Unmarks(m, l, n, marks, marks2)
    PROVE  TopPopped(m, marks, lemma, l, n, marks2)
<1> USE DEF Unmarks
<1>1. m.decisionLvl > 0 /\ m.decisionLvl \in Nat /\ Len(m.stack) \in Nat
  BY DEF InAnalysis, ModelType
<1>2. /\ n \in ModelType /\ TrailConsistent(n) /\ Len(m.stack) > 0
      /\ l # DlMarker => n.decisionLvl = m.decisionLvl /\ IsUndef(n, -l)
      /\ n.level = m.level
      /\ \A k \in Lits : KeptLit(m, n, k) \/ (l # DlMarker /\ k \in {l, -l})
  BY <1>1, PopKeeps
<1>3. l # DlMarker
  <2>1. ThisDl(m, marks) \in SUBSET Vars
    BY DEF ThisDl
  <2>2. ThisDl(m, marks) # {}
    BY <2>1, SetsOfVars DEF InAnalysis
  <2>3. PICK v \in marks : m.level[v] = m.decisionLvl
    BY <2>2 DEF ThisDl
  <2>4. v \in Lits /\ var(v) = v /\ -v \in Lits /\ var(-v) = v
    BY NumVarsAssumption DEF Vars, Lits, var
  <2>5. ~IsUndef(m, v)
    BY <2>3 DEF InAnalysis, IsUndefVar, IsUndef
  <2>6. IsTrue(m, v) \/ IsTrue(m, -v)
    BY <2>4, <2>5, ValueOfLit, FalseLits
  <2> QED BY <1>2, <2>3, <2>4, <2>6, TopOfLevel DEF LitDl
<1>4. /\ l \in Lits /\ IsTrue(m, l) /\ LitHeight(m, l) = Len(m.stack) - 1
      /\ LitDl(m, l) = m.decisionLvl
  BY <1>2, <1>3, TopOfLevel
<1>5. -l \in Lits /\ var(-l) = var(l) /\ var(l) \in Vars
  BY <1>4, LitFacts
<1>6. ASSUME NEW k \in Lits, k \notin {l, -l} PROVE KeptLit(m, n, k) /\ var(k) # var(l)
  BY <1>2, <1>4, <1>6, LitFacts
<1>7. ThisDl(n, marks2) = ThisDl(m, marks) \ {var(l)}
  BY <1>2, <1>3 DEF ThisDl
<1>8. marks \ ThisDl(m, marks) = {var(k) : k \in lemma}
  BY DEF InAnalysis
<1>9. marks2 \ ThisDl(n, marks2) = {var(k) : k \in lemma}
  <2>1. var(l) \notin marks \ ThisDl(m, marks)
    BY <1>4 DEF ThisDl, LitDl
  <2> QED BY <1>7, <1>8, <2>1
<1>10. ASSUME NEW k \in lemma
       PROVE  /\ k \in Lits \ {l, -l} /\ IsFalse(m, k)
              /\ 0 < LitDl(m, k) /\ LitDl(m, k) < m.decisionLvl
  <2>1. k \in Lits /\ IsFalse(m, k) /\ 0 < LitDl(m, k) /\ LitDl(m, k) < m.decisionLvl
    BY <1>10 DEF Clause, InAnalysis, AllLower
  <2>2. LitDl(m, -l) = m.decisionLvl
    BY <1>4, <1>5 DEF LitDl
  <2>3. k # l /\ k # -l
    BY <1>1, <1>4, <2>1, <2>2
  <2> QED BY <2>1, <2>3
<1>11. AllLower(n, lemma)
  <2>1. ASSUME NEW k \in lemma
        PROVE  IsFalse(n, k) /\ LitDl(n, k) = LitDl(m, k)
    BY <1>6, <1>10, <2>1 DEF KeptLit, IsFalse
  <2> QED BY <1>2, <1>3, <1>10, <2>1 DEF AllLower
<1>12. ASSUME NEW v \in marks2 PROVE ~IsUndefVar(n, v)
  <2>1. v \in Lits /\ var(v) = v
    BY NumVarsAssumption DEF Vars, Lits, var
  <2>2. v \notin {l, -l}
    BY <1>4, <1>5, <2>1
  <2>3. KeptLit(m, n, v)
    BY <1>6, <2>1, <2>2
  <2>4. ~IsUndefVar(m, v)
    BY DEF InAnalysis
  <2> QED BY <2>3, <2>4 DEF KeptLit, IsUndefVar
<1>13. Side(n, marks2, lemma) = Side(m, marks, lemma) \ {-l}
  <2>1. ASSUME NEW k \in Lits, IsFalse(n, k), var(k) \in ThisDl(n, marks2)
        PROVE  k \in Side(m, marks, lemma) /\ k # -l
    <3>1. k \notin {l, -l}
      BY <1>5, <1>7, <2>1
    <3> QED BY <1>6, <1>7, <2>1, <3>1 DEF Side, KeptLit, IsFalse
  <2>2. ASSUME NEW k \in Lits, IsFalse(m, k), var(k) \in ThisDl(m, marks), k # -l
        PROVE  k \in Side(n, marks2, lemma)
    <3>1. k # l
      BY <1>4, <2>2, ValueOfLit
    <3> QED BY <1>6, <1>7, <2>2, <3>1 DEF Side, KeptLit, IsFalse
  <2>3. -l \notin lemma
    BY <1>10
  <2> QED BY <2>1, <2>2, <2>3 DEF Side
<1> QED BY <1>1, <1>2, <1>3, <1>4, <1>5, <1>6, <1>7, <1>9, <1>10, <1>11, <1>12, <1>13
    DEF TopPopped

LEMMA ClauseOfReasonIs ==
    ASSUME NEW a, NEW r \in Reason, r.size > 0, NEW l
    PROVE  ClauseOfReason(a, r, l) = ReasonClause(a.thcdb, db, r, l)
<1>1. r.size \in Nat
  BY DEF Reason
<1>2. CASE r.size = 1
  BY <1>2 DEF ClauseOfReason, ReasonClause
<1>3. CASE r.size = 2
  BY <1>3 DEF ClauseOfReason, ReasonClause
<1>4. CASE r.size = 3
  BY <1>4 DEF ClauseOfReason, ReasonClause
<1>5. CASE r.size > 3
  <2>1. ClauseOfReason(a, r, l) = ThLits(a.thcdb[r.ptr])
    BY <1>1, <1>5 DEF ClauseOfReason
  <2>2. ReasonClause(a.thcdb, db, r, l) = db.nDB[a.thcdb[r.ptr].pos].lits
    BY <1>1, <1>5 DEF ReasonClause
  <2> QED BY <2>1, <2>2 DEF ThLits
<1> QED BY <1>1, <1>2, <1>3, <1>4, <1>5

LEMMA ActivityMayRise ==
    ASSUME NEW th \in Seq(ThClause), NEW r \in Reason,
           r.size > 3 => r.ptr \in DOMAIN th,
           NEW th2, th2 = IncreaseActivity(th, r)
    PROVE  th2 \in Seq(ThClause) /\ SameClauses(th, th2)
<1>1. CASE r.size > 3
  <2>1. PICK id : id = r.ptr
    OBVIOUS
  <2>2. id \in DOMAIN th /\ th2 = [th EXCEPT ![id].activity = @ + 1]
    BY <1>1, <2>1 DEF IncreaseActivity
  <2> QED BY <2>2, ActivityRaised
<1>2. CASE ~(r.size > 3)
  BY <1>2, SameClausesSame DEF IncreaseActivity
<1> QED BY <1>1, <1>2

\* What a pop of the analysis makes of the model and the heap.
PoppedTo(a, n, heap2) ==
    n = PopAndSetUndef(a.model) /\ heap2 = a.heap \cup ({var(Top(a.model))} \cap Vars)

LEMMA PoppedModel ==
    ASSUME NEW a, NEW d, NEW P, WorkerInv(a, d, P), DbInv(d, P), a.model.decisionLvl > 0,
           NEW n, NEW heap2, PoppedTo(a, n, heap2)
    PROVE  /\ n \in ModelType /\ heap2 \in SUBSET Vars
           /\ ModelInv(n, a.thcdb, d, P) /\ Free(n) \subseteq heap2
           /\ Top(a.model) = DlMarker => CursorsGood(n) /\ FullyPropagated(n)
<1>1. PICK m : m = a.model
  OBVIOUS
<1>2. /\ m \in ModelType /\ TrailConsistent(m) /\ ModelInv(m, a.thcdb, d, P)
      /\ a.thcdb \in Seq(ThClause) /\ d \in ClauseDBType
      /\ Free(m) \subseteq a.heap /\ a.heap \in SUBSET Vars /\ m.decisionLvl > 0
  BY <1>1, WorkerParts DEF DbInv
<1>3. n = PopAndSetUndef(m) /\ heap2 = a.heap \cup ({var(Top(m))} \cap Vars)
  BY <1>1 DEF PoppedTo
<1>4. n \in ModelType /\ Free(n) \subseteq Free(m) \cup ({var(Top(m))} \cap Vars)
  BY <1>2, <1>3, PopKeeps
<1>5. /\ ModelInv(n, a.thcdb, d, P)
      /\ Top(m) = DlMarker => CursorsGood(n) /\ FullyPropagated(n)
  BY <1>2, <1>3, PopModelInv
<1> QED BY <1>1, <1>2, <1>3, <1>4, <1>5

\* Another variable of the last level is pending, so the one on the top was propagated.
LEMMA TopIsImplied ==
    ASSUME NEW m \in ModelType, TrailConsistent(m),
           NEW l \in Lits, IsTrue(m, l), LitDl(m, l) = m.decisionLvl, m.decisionLvl > 0,
           LitHeight(m, l) = Len(m.stack) - 1, Len(m.stack) \in Nat,
           NEW k \in Lits, IsTrue(m, k), LitDl(m, k) = m.decisionLvl, k # l
    PROVE  Implied(m, l)
<1> SUFFICES ASSUME LitIsDecision(m, l) PROVE FALSE
  BY DEF Implied
<1>1. LitHeight(m, l) <= LitHeight(m, k)
  BY DecisionIsLowest
<1>2. LitHeight(m, k) \in Nat /\ LitHeight(m, k) + 1 \in 1..Len(m.stack)
  BY TrueLits
<1>3. LitHeight(m, k) = LitHeight(m, l)
  BY <1>1, <1>2
<1> QED BY <1>3, HeightsDiffer

\* What remains to be marked of the clause of the reason of l.
RestOfReason(th, d, m, l, r, rest) ==
    r = ReasonOfLit(m, l) /\ rest = ReasonClause(th, d, r, l) \ {l}

\* It is, of what remains of the analysis, what Marking says.
ReasonMarked(th, d, P, n, marks2, lemma, pending2, l, r, rest) ==
    /\ r \in Reason /\ Refers(th, d, r) /\ ReasonClause(th, d, r, l) \in Clause
    /\ InAnalysis(n, marks2, lemma, pending2)
    /\ AllFalse(n, rest)
    /\ Follows(P, rest \cup Side(n, marks2, lemma))
    /\ \E k \in rest \cup Side(n, marks2, lemma) : LitIsOfCurrentDl(n, k)

\* The reason of a marked literal takes its place in the lemma.
LEMMA ReasonResolved ==
    ASSUME NEW th \in Seq(ThClause), NEW d \in ClauseDBType, NEW P,
           NEW m \in ModelType, TrailConsistent(m), ReasonsInv(m, th, d, P),
           NEW marks \in SUBSET Vars, NEW lemma \in Clause, NEW pending \in Nat,
           InAnalysis(m, marks, lemma, pending), Follows(P, Side(m, marks, lemma)),
           NEW pending2 \in Nat \ {0}, pending2 = pending - 1,
           NEW l, NEW n, NEW marks2, Unmarks(m, l, n, marks, marks2), var(l) \in marks,
           NEW r, NEW rest, RestOfReason(th, d, m, l, r, rest)
    PROVE  ReasonMarked(th, d, P, n, marks2, lemma, pending2, l, r, rest)
<1> USE DEF RestOfReason
<1>1. /\ l \in Lits /\ -l \in Lits /\ IsTrue(m, l) /\ LitDl(m, l) = m.decisionLvl
      /\ LitHeight(m, l) = Len(m.stack) - 1 /\ Len(m.stack) \in Nat
      /\ n.decisionLvl = m.decisionLvl
      /\ \A k \in Lits \ {l, -l} : KeptLit(m, n, k)
      /\ ThisDl(n, marks2) = ThisDl(m, marks) \ {var(l)}
      /\ marks2 \ ThisDl(n, marks2) = {var(k) : k \in lemma}
      /\ \A v \in marks2 : ~IsUndefVar(n, v)
      /\ AllLower(n, lemma)
      /\ Side(n, marks2, lemma) = Side(m, marks, lemma) \ {-l}
  <2>1. pending > 0
    OBVIOUS
  <2>2. TopPopped(m, marks, lemma, l, n, marks2)
    BY <2>1, PoppedTop
  <2> QED BY <2>2 DEF TopPopped
<1>2. m.decisionLvl > 0 /\ n \in ModelType /\ TrailConsistent(n)
  BY PopKeeps DEF InAnalysis, Unmarks
<1>3. var(l) \in ThisDl(m, marks)
  BY <1>1 DEF ThisDl, LitDl
<1>4. Cardinality(ThisDl(n, marks2)) = pending2
  <2>1. ThisDl(m, marks) \in SUBSET Vars
    BY DEF ThisDl
  <2>2. IsFiniteSet(ThisDl(m, marks)) /\ pending = Cardinality(ThisDl(m, marks))
    BY <2>1, SetsOfVars DEF InAnalysis
  <2>3. Cardinality(ThisDl(m, marks) \ {var(l)}) = pending2
    BY <1>3, <2>2, FS_RemoveElement
  <2> QED BY <1>1, <2>3
<1>5. InAnalysis(n, marks2, lemma, pending2)
  BY <1>1, <1>2, <1>4 DEF InAnalysis
<1>6. PICK v \in ThisDl(n, marks2) : v # var(l)
  <2>1. ThisDl(n, marks2) \in SUBSET Vars
    BY <1>3 DEF ThisDl, Unmarks
  <2>2. ThisDl(n, marks2) # {}
    <3>1. Cardinality(ThisDl(n, marks2)) # 0
      BY <1>4
    <3> QED BY <2>1, <3>1, SetsOfVars
  <2> QED BY <1>1, <2>2
<1>7. PICK k \in Lits : IsTrue(m, k) /\ var(k) = v
  <2>1. v \in marks /\ v \in Vars
    BY <1>6 DEF ThisDl, Unmarks
  <2>2. v \in Lits /\ var(v) = v /\ -v \in Lits /\ var(-v) = v
    BY <2>1, NumVarsAssumption DEF Vars, Lits, var
  <2>3. ~IsUndef(m, v)
    BY <2>1 DEF InAnalysis, IsUndefVar, IsUndef
  <2> QED BY <2>2, <2>3, ValueOfLit, FalseLits
<1>8. LitDl(m, k) = m.decisionLvl /\ k # l /\ k # -l /\ LitDl(n, k) = m.decisionLvl
  <2>1. n.level[v] = m.decisionLvl
    BY <1>1, <1>6 DEF ThisDl
  <2>2. k # l /\ k # -l
    BY <1>1, <1>6, <1>7, LitFacts
  <2>3. LitDl(n, k) = LitDl(m, k)
    BY <1>1, <2>2 DEF KeptLit
  <2> QED BY <1>7, <2>1, <2>2, <2>3 DEF LitDl
<1>9. Implied(m, l)
  BY <1>1, <1>2, <1>7, <1>8, TopIsImplied
<1>10. r \in Reason
  BY <1>1, LitFacts DEF ModelType, ReasonOfLit
<1>11. /\ Backs(m, th, d, P, r, l)
       /\ \A j \in rest : LitHeight(m, j) < LitHeight(m, l)
  BY <1>1, <1>9 DEF ReasonsInv
<1>12. ReasonClause(th, d, r, l) \in Clause
  BY <1>1, <1>10, <1>11, ReasonLits DEF Backs
<1>13. ASSUME NEW j \in rest PROVE IsFalse(n, j)
  <2>1. j \in Lits /\ IsFalse(m, j) /\ LitHeight(m, j) < LitHeight(m, l)
    BY <1>11, <1>12, <1>13 DEF Backs, Clause
  <2>2. LitHeight(m, -l) = LitHeight(m, l)
    BY <1>1, LitFacts DEF LitHeight
  <2>3. LitHeight(m, l) \in Int
    BY <1>1
  <2>4. j # l /\ j # -l
    BY <2>1, <2>2, <2>3
  <2> QED BY <1>1, <2>1, <2>4 DEF KeptLit, IsFalse
<1>14. Follows(P, rest \cup Side(n, marks2, lemma))
  <2>1. PICK c, e : c = ReasonClause(th, d, r, l) /\ e = Side(m, marks, lemma)
    OBVIOUS
  <2>2. Follows(P, c) /\ Follows(P, e)
    BY <1>11, <2>1 DEF Backs
  <2>3. Follows(P, (c \ {l}) \cup (e \ {-l}))
    BY <1>1, <2>2, FollowsResolved
  <2> QED BY <1>1, <2>1, <2>3
<1>15. -k \in Side(n, marks2, lemma) /\ LitIsOfCurrentDl(n, -k)
  <2>1. -k \in Lits /\ var(-k) = v
    BY <1>7, LitFacts
  <2>2. IsTrue(n, k)
    BY <1>1, <1>7, <1>8 DEF KeptLit, IsTrue
  <2>3. IsFalse(n, -k)
    BY <1>2, <2>2, TrueLits
  <2>4. -k \in Side(n, marks2, lemma)
    BY <1>6, <2>1, <2>3 DEF Side
  <2> QED BY <1>6, <2>1, <2>4 DEF LitIsOfCurrentDl, ThisDl
<1> QED BY <1>4, <1>5, <1>10, <1>11, <1>12, <1>13, <1>14, <1>15
    DEF Backs, AllFalse, ReasonMarked

\* Nothing of the last level is left but the popped literal: the uip.
LEMMA UipFound ==
    ASSUME NEW P, NEW m \in ModelType, TrailConsistent(m),
           NEW marks \in SUBSET Vars, NEW lemma \in Clause, NEW pending \in Nat,
           InAnalysis(m, marks, lemma, pending), pending = 1,
           Follows(P, Side(m, marks, lemma)),
           NEW l, NEW n, NEW marks2, Unmarks(m, l, n, marks, marks2), var(l) \in marks
    PROVE  /\ l \in Lits /\ -l \in Lits /\ IsUndef(n, -l) /\ n.decisionLvl > 0
           /\ LitDl(m, l) > 0 /\ IsTrue(m, l)
           /\ marks2 \ {var(k) : k \in lemma} = {}
           /\ AllLower(n, lemma) /\ Follows(P, lemma \cup {-l})
<1>1. /\ l \in Lits /\ -l \in Lits /\ IsTrue(m, l) /\ LitDl(m, l) = m.decisionLvl
      /\ IsUndef(n, -l) /\ n.decisionLvl = m.decisionLvl
      /\ ThisDl(n, marks2) = ThisDl(m, marks) \ {var(l)}
      /\ marks2 \ ThisDl(n, marks2) = {var(k) : k \in lemma}
      /\ AllLower(n, lemma)
      /\ Side(n, marks2, lemma) = Side(m, marks, lemma) \ {-l}
  <2>1. pending > 0
    OBVIOUS
  <2>2. TopPopped(m, marks, lemma, l, n, marks2)
    BY <2>1, PoppedTop
  <2> QED BY <2>2 DEF TopPopped
<1>2. m.decisionLvl > 0
  BY DEF InAnalysis
<1>3. var(l) \in ThisDl(m, marks)
  BY <1>1 DEF ThisDl, LitDl
<1>4. ThisDl(n, marks2) = {}
  <2>1. ThisDl(m, marks) \in SUBSET Vars
    BY DEF ThisDl
  <2>2. IsFiniteSet(ThisDl(m, marks)) /\ Cardinality(ThisDl(m, marks)) = 1
    BY <2>1, SetsOfVars DEF InAnalysis
  <2>3. PICK x : ThisDl(m, marks) = {x}
    BY <2>2, FS_Singleton
  <2> QED BY <1>1, <1>3, <2>3
<1>5. marks2 \ {var(k) : k \in lemma} = {}
  BY <1>1, <1>4
<1>6. Side(m, marks, lemma) \subseteq lemma \cup {-l}
  <2>1. Side(n, marks2, lemma) = lemma
    BY <1>4 DEF Side
  <2> QED BY <1>1, <2>1
<1>7. Follows(P, lemma \cup {-l})
  BY <1>6, FollowsWider
<1> QED BY <1>1, <1>2, <1>5, <1>7

LEMMA PopLiteralIInv == ASSUME IInv, NEW w \in Workers, PopLiteral(w) PROVE IInv'
<1>1. PICK a, l, r, n, heap2, marks2, th2 :
         /\ a = ad[w] /\ l = Top(a.model) /\ r = ReasonOfLit(a.model, l)
         /\ n = PopAndSetUndef(a.model) /\ heap2 = a.heap \cup ({var(l)} \cap Vars)
         /\ marks2 = a.marks \ {var(l)} /\ th2 = IncreaseActivity(a.thcdb, r)
  OBVIOUS
<1>2. /\ WorkerInv(a, db, Read) /\ DbInv(db, Read) /\ Typed(a) /\ a.pc = "pop"
      /\ db \in ClauseDBType
  BY <1>1 DEF IInv, PopLiteral, At, WorkerInv, DbInv
<1>3. /\ a.model \in ModelType /\ TrailConsistent(a.model)
      /\ ReasonsInv(a.model, a.thcdb, db, Read) /\ a.thcdb \in Seq(ThClause)
  BY <1>2, WorkerParts
<1>4. /\ a.marks \in SUBSET Vars /\ a.lemma \in Clause /\ a.pending \in Nat
      /\ a.clause \in Clause /\ a.poppedLit \in Lits \cup {ZeroLit}
      /\ a.uip \in Lits \cup {ZeroLit} /\ a.lemmaToLearn \in Clause
      /\ a.sinceRestart \in Nat /\ a.sinceCleanup \in Nat
  BY <1>2 DEF Typed
<1>5. /\ InAnalysis(a.model, a.marks, a.lemma, a.pending)
      /\ Follows(Read, Side(a.model, a.marks, a.lemma)) /\ a.pending > 0
  BY <1>2, WorkerParts DEF Place, Popped
<1>6. Unmarks(a.model, l, n, a.marks, marks2)
  BY <1>1 DEF Unmarks
<1>7. a.model.decisionLvl > 0
  BY <1>5 DEF InAnalysis
<1>8. /\ n \in ModelType /\ heap2 \in SUBSET Vars
      /\ ModelInv(n, a.thcdb, db, Read) /\ Free(n) \subseteq heap2
  BY <1>1, <1>2, <1>7, PoppedModel DEF PoppedTo
<1>9. CASE var(l) \notin a.marks
  <2>1. PICK b : b = PopOne(a)
    OBVIOUS
  <2>2. Local(w, b)
    BY <1>1, <1>9, <2>1 DEF PopLiteral
  <2>3. Differs(a, b, Analysed)
    <3>1. DOMAIN b = Fields /\ b = [f \in Fields |-> b[f]]
      BY <1>2, <2>1 DEF Typed, PopOne
    <3>2. \A f \in Fields \ {"model", "heap"} : b[f] = a[f]
      BY <1>2, <2>1 DEF Typed, PopOne
    <3> QED BY <3>1, <3>2 DEF Differs, Analysed
  <2>4. /\ b.model = n /\ b.heap = heap2 /\ b.pc = "pop" /\ b.thcdb = a.thcdb
        /\ b.marks = a.marks /\ b.clause = a.clause /\ b.poppedLit = a.poppedLit
        /\ b.pending = a.pending /\ b.lemma = a.lemma /\ b.uip = a.uip
        /\ b.lemmaToLearn = a.lemmaToLearn /\ b.sinceRestart = a.sinceRestart
        /\ b.sinceCleanup = a.sinceCleanup
    BY <1>1, <1>2, <2>1 DEF Typed, Fields, PopOne
  <2>5. marks2 = a.marks
    BY <1>1, <1>9
  <2>6. TopPopped(a.model, a.marks, a.lemma, l, n, a.marks)
    BY <1>3, <1>4, <1>5, <1>6, <2>5, PoppedTop
  <2>7. /\ ThisDl(n, a.marks) = ThisDl(a.model, a.marks)
        /\ Side(n, a.marks, a.lemma) = Side(a.model, a.marks, a.lemma)
        /\ n.decisionLvl = a.model.decisionLvl
        /\ a.marks \ ThisDl(n, a.marks) = {var(k) : k \in a.lemma}
        /\ \A v \in a.marks : ~IsUndefVar(n, v)
        /\ AllLower(n, a.lemma)
    <3>1. -l \notin Side(a.model, a.marks, a.lemma)
      <4>1. var(-l) = var(l) /\ -l \notin a.lemma
        BY <2>6, LitFacts DEF TopPopped
      <4> QED BY <1>9, <4>1 DEF Side, ThisDl
    <3>2. var(l) \notin ThisDl(a.model, a.marks)
      BY <1>9 DEF ThisDl
    <3> QED BY <2>6, <3>1, <3>2 DEF TopPopped
  <2>8. Popped(b, Read)
    <3>1. InAnalysis(n, a.marks, a.lemma, a.pending)
      BY <1>5, <2>7 DEF InAnalysis
    <3> QED BY <1>5, <2>4, <2>7, <3>1 DEF Popped
  <2>9. Marking(b, Read) /\ Lemma(b, Read) /\ Shortening(b, Read) /\ Unmarked(b)
    BY <2>4 DEF Marking, Lemma, Shortening, Unmarked
  <2>10. SameClauses(a.thcdb, b.thcdb)
    BY <2>4, SameClausesSame
  <2>11. WorkerInv(b, db, Read)
    BY <1>2, <1>3, <1>4, <1>8, <2>3, <2>4, <2>8, <2>9, <2>10, AnalysisStep
  <2> QED BY <1>1, <1>2, <2>2, <2>4, <2>11, LocalKeeps
<1>10. CASE var(l) \in a.marks /\ a.pending # 1
  <2>1. PICK c, b :
           /\ c = ClauseOfReason(a, r, l)
           /\ b = [[PopOne(a) EXCEPT !.poppedLit = l, !.marks = @ \ {var(l)},
                                     !.thcdb = IncreaseActivity(@, r)]
                      EXCEPT !.pc = "mark", !.pending = @ - 1, !.clause = c]
    OBVIOUS
  <2>2. Local(w, b)
    BY <1>1, <1>10, <2>1 DEF PopLiteral
  <2>3. Differs(a, b, Analysed)
    <3>1. DOMAIN b = Fields /\ b = [f \in Fields |-> b[f]]
      BY <1>2, <2>1 DEF Typed, PopOne
    <3>2. \A f \in Fields \ {"model", "heap", "poppedLit", "marks", "thcdb", "pc",
                             "pending", "clause"} : b[f] = a[f]
      BY <1>2, <2>1 DEF Typed, PopOne
    <3> QED BY <3>1, <3>2 DEF Differs, Analysed
  <2>4. /\ b.model = n /\ b.heap = heap2 /\ b.pc = "mark" /\ b.thcdb = th2
        /\ b.marks = marks2 /\ b.clause = c /\ b.poppedLit = l
        /\ b.pending = a.pending - 1 /\ b.lemma = a.lemma /\ b.uip = a.uip
        /\ b.lemmaToLearn = a.lemmaToLearn /\ b.sinceRestart = a.sinceRestart
        /\ b.sinceCleanup = a.sinceCleanup
    BY <1>1, <1>2, <2>1 DEF Typed, Fields, PopOne
  <2>5. PICK m, marks, lemma, pending, pending2, rest :
           /\ m = a.model /\ marks = a.marks /\ lemma = a.lemma /\ pending = a.pending
           /\ pending2 = pending - 1
           /\ rest = ReasonClause(a.thcdb, db, r, l) \ {l}
    OBVIOUS
  <2>6. /\ r \in Reason /\ Refers(a.thcdb, db, r)
        /\ ReasonClause(a.thcdb, db, r, l) \in Clause
        /\ pending2 \in Nat /\ InAnalysis(n, marks2, lemma, pending2)
        /\ AllFalse(n, rest)
        /\ Follows(Read, rest \cup Side(n, marks2, lemma))
        /\ \E k \in rest \cup Side(n, marks2, lemma) : LitIsOfCurrentDl(n, k)
    <3>1. PICK th, d, P : th = a.thcdb /\ d = db /\ P = Read
      OBVIOUS
    <3>2. /\ th \in Seq(ThClause) /\ d \in ClauseDBType /\ m \in ModelType
          /\ TrailConsistent(m) /\ ReasonsInv(m, th, d, P)
          /\ marks \in SUBSET Vars /\ lemma \in Clause /\ pending \in Nat
          /\ InAnalysis(m, marks, lemma, pending) /\ Follows(P, Side(m, marks, lemma))
          /\ pending2 \in Nat \ {0} /\ pending2 = pending - 1
          /\ Unmarks(m, l, n, marks, marks2) /\ var(l) \in marks
      BY <1>1, <1>2, <1>3, <1>4, <1>5, <1>6, <1>10, <2>5, <3>1
    <3>3. RestOfReason(th, d, m, l, r, rest)
      BY <1>1, <2>5, <3>1 DEF RestOfReason
    <3>4. ReasonMarked(th, d, P, n, marks2, lemma, pending2, l, r, rest)
      BY <3>2, <3>3, ReasonResolved
    <3> QED BY <2>5, <3>1, <3>2, <3>4 DEF ReasonMarked
  <2>7. c = ReasonClause(a.thcdb, db, r, l)
    <3>1. r.size > 0
      BY <2>6 DEF Refers, Reason
    <3> QED BY <2>1, <2>6, <3>1, ClauseOfReasonIs
  <2>8. th2 \in Seq(ThClause) /\ SameClauses(a.thcdb, th2)
    <3>1. r.size > 3 => r.ptr \in DOMAIN a.thcdb
      BY <2>6 DEF Refers
    <3> QED BY <1>1, <1>3, <2>6, <3>1, ActivityMayRise
  <2>9. Marking(b, Read)
    BY <2>4, <2>5, <2>6, <2>7 DEF Marking
  <2>10. Popped(b, Read) /\ Lemma(b, Read) /\ Shortening(b, Read) /\ Unmarked(b)
    BY <2>4 DEF Popped, Lemma, Shortening, Unmarked
  <2>11. l \in Lits /\ marks2 \in SUBSET Vars
    <3>1. TopPopped(m, marks, lemma, l, n, marks2)
      BY <1>3, <1>4, <1>5, <1>6, <2>5, PoppedTop
    <3> QED BY <1>1, <1>4, <3>1 DEF TopPopped
  <2>12. WorkerInv(b, db, Read)
    BY <1>2, <1>3, <1>4, <1>8, <2>3, <2>4, <2>5, <2>6, <2>7, <2>8, <2>9, <2>10, <2>11,
       AnalysisStep
  <2> QED BY <1>1, <1>2, <2>2, <2>4, <2>12, LocalKeeps
<1>11. CASE var(l) \in a.marks /\ a.pending = 1
  <2>1. PICK b, marks3 :
           /\ b = [[PopOne(a) EXCEPT !.poppedLit = l, !.marks = @ \ {var(l)},
                                     !.thcdb = IncreaseActivity(@, r)]
                      EXCEPT !.pc = "lemma", !.poppedLit = ZeroLit, !.pending = 0,
                             !.uip = -l, !.marks = @ \ {var(k) : k \in a.lemma}]
           /\ marks3 = marks2 \ {var(k) : k \in a.lemma}
    OBVIOUS
  <2>2. Local(w, b)
    BY <1>1, <1>11, <2>1 DEF PopLiteral
  <2>3. Differs(a, b, Analysed)
    <3>1. DOMAIN b = Fields /\ b = [f \in Fields |-> b[f]]
      BY <1>2, <2>1 DEF Typed, PopOne
    <3>2. \A f \in Fields \ {"model", "heap", "poppedLit", "marks", "thcdb", "pc",
                             "pending", "uip"} : b[f] = a[f]
      BY <1>2, <2>1 DEF Typed, PopOne
    <3> QED BY <3>1, <3>2 DEF Differs, Analysed
  <2>4. /\ b.model = n /\ b.heap = heap2 /\ b.pc = "lemma" /\ b.thcdb = th2
        /\ b.clause = a.clause /\ b.poppedLit = ZeroLit
        /\ b.pending = 0 /\ b.lemma = a.lemma /\ b.uip = -l
        /\ b.lemmaToLearn = a.lemmaToLearn /\ b.sinceRestart = a.sinceRestart
        /\ b.sinceCleanup = a.sinceCleanup
    BY <1>1, <1>2, <2>1 DEF Typed, Fields, PopOne
  <2>5. b.marks = marks3
    BY <1>1, <1>2, <2>1 DEF Typed, Fields, PopOne
  <2>6. PICK m, marks, lemma, pending :
           /\ m = a.model /\ marks = a.marks /\ lemma = a.lemma /\ pending = a.pending
    OBVIOUS
  <2>8. /\ l \in Lits /\ -l \in Lits /\ IsUndef(n, -l) /\ n.decisionLvl > 0
        /\ LitDl(m, l) > 0 /\ IsTrue(m, l)
        /\ marks2 \ {var(k) : k \in lemma} = {}
        /\ AllLower(n, lemma) /\ Follows(Read, lemma \cup {-l})
    <3>1. /\ m \in ModelType /\ TrailConsistent(m)
          /\ marks \in SUBSET Vars /\ lemma \in Clause /\ pending \in Nat
          /\ InAnalysis(m, marks, lemma, pending) /\ Follows(Read, Side(m, marks, lemma))
          /\ pending = 1 /\ Unmarks(m, l, n, marks, marks2) /\ var(l) \in marks
      BY <1>1, <1>3, <1>4, <1>5, <1>6, <1>11, <2>6
    <3> QED BY <3>1, UipFound
  <2>9. th2 \in Seq(ThClause) /\ SameClauses(a.thcdb, th2)
    <3>1. r \in Reason
      BY <1>1, <1>3, <2>8, LitFacts DEF ModelType, ReasonOfLit
    <3>2. ASSUME r.size > 3 PROVE r.ptr \in DOMAIN a.thcdb
      <4>1. Implied(a.model, l)
        BY <1>1, <2>6, <2>8, <3>2 DEF Implied, LitIsDecision
      <4>2. Refers(a.thcdb, db, r)
        BY <1>1, <1>3, <2>8, <4>1 DEF ReasonsInv, Backs
      <4> QED BY <3>2, <4>2 DEF Refers
    <3> QED BY <1>1, <1>3, <3>1, <3>2, ActivityMayRise
  <2>10. Lemma(b, Read)
    BY <2>4, <2>6, <2>8 DEF Lemma, UipGood
  <2>11. Marking(b, Read) /\ Popped(b, Read) /\ Shortening(b, Read)
    BY <2>4 DEF Marking, Popped, Shortening
  <2>12. b.marks = {}
    BY <2>1, <2>5, <2>6, <2>8
  <2>13. Unmarked(b) /\ b.marks \in SUBSET Vars
    BY <2>12 DEF Unmarked
  <2>14. b.pending \in Nat /\ b.poppedLit \in Lits \cup {ZeroLit} /\ b.uip \in Lits \cup {ZeroLit}
    BY <2>4, <2>8
  <2>15. WorkerInv(b, db, Read)
    BY <1>2, <1>3, <1>4, <1>8, <2>3, <2>4, <2>8, <2>9, <2>10, <2>11, <2>13, <2>14,
       AnalysisStep
  <2> QED BY <1>1, <1>2, <2>2, <2>4, <2>15, LocalKeeps
<1> QED BY <1>9, <1>10, <1>11

-----------------------------------------------------------------------------
(* What a step of the model leaves of what has been passed *)

\* What b has passed a had passed, and what rescued it then does so now.
Retains(a, b) ==
    \A k \in Kinds : \A l \in Lits : Passed(b, k, l) =>
       /\ Passed(a, k, l)
       /\ \A j \in Lits : Rescued(a.model, l, j) => Rescued(b.model, l, j)

LEMMA LimitIs ==
    ASSUME NEW a, a.model \in ModelType
    PROVE  /\ a.model.decisionLvl \in Nat /\ Limit(a) \in Int
           /\ Limit(a) <= a.model.decisionLvl
           /\ Limit(a) \in {a.model.decisionLvl, a.model.decisionLvl - 1}
           /\ Falling(a) => Limit(a) = a.model.decisionLvl - 1
           /\ ~Falling(a) => Limit(a) = a.model.decisionLvl
<1>1. a.model.decisionLvl \in Nat
  BY DEF ModelType
<1> QED BY <1>1 DEF Limit

LEMMA RetainsSame ==
    ASSUME NEW a, NEW b, a.model \in ModelType, TrailConsistent(a.model),
           b.model = a.model, Limit(b) <= Limit(a)
    PROVE  Retains(a, b)
<1>1. Limit(a) \in Int /\ Limit(b) \in Int
  BY LimitIs
<1> SUFFICES ASSUME NEW k \in Kinds, NEW l \in Lits, Passed(b, k, l)
             PROVE  Passed(a, k, l)
  BY DEF Retains
<1>2. IsFalse(a.model, l) /\ LitDl(a.model, l) \in Nat /\ LitDl(a.model, l) <= Limit(b)
  BY FalseLits DEF Passed
<1>3. LitDl(a.model, l) <= Limit(a)
  BY <1>1, <1>2
<1> QED BY <1>2, <1>3 DEF Passed

\* A literal that has just been set true has been handed out to nobody.
LEMMA RetainsSet ==
    ASSUME NEW a, NEW b, a.model \in ModelType, TrailConsistent(a.model),
           b.model \in ModelType, TrailConsistent(b.model), CursorsGood(a.model),
           NEW l \in Lits, IsUndef(a.model, l), NEW r \in Reason,
           b.model = SetTrueWithReason(a.model, l, r), Limit(b) <= Limit(a)
    PROVE  Retains(a, b)
<1>1. PICK m, n : m = a.model /\ n = b.model
  OBVIOUS
<1>2. /\ m \in ModelType /\ TrailConsistent(m) /\ n \in ModelType /\ TrailConsistent(n)
      /\ CursorsGood(m) /\ IsUndef(m, l) /\ n = SetTrueWithReason(m, l, r)
  BY <1>1
<1>3. /\ KeepsAssigned(m, n) /\ LitHeight(n, l) = Len(m.stack) /\ n.last = m.last
      /\ \A k \in Lits : IsTrue(n, k) => k = l \/ IsTrue(m, k)
  BY <1>2, SetTrueKeeps, SetTrueFields
<1>4. Limit(a) \in Int /\ Limit(b) \in Int
  BY LimitIs
<1>5. Len(m.stack) \in Nat /\ \A k \in Kinds : m.last[k] \in -1..(Len(m.stack) - 1)
  BY <1>2 DEF CursorsGood, ModelType
<1> SUFFICES ASSUME NEW k \in Kinds, NEW x \in Lits, Passed(b, k, x)
             PROVE  /\ Passed(a, k, x)
                    /\ \A j \in Lits : Rescued(a.model, x, j) => Rescued(b.model, x, j)
  BY DEF Retains
<1>6. /\ IsFalse(n, x) /\ LitHeight(n, x) <= m.last[k] /\ LitDl(n, x) <= Limit(b)
      /\ LitDl(n, x) \in Nat
  BY <1>1, <1>2, <1>3, FalseLits DEF Passed
<1>7. -x \in Lits /\ IsTrue(n, -x) /\ LitHeight(n, -x) = LitHeight(n, x)
  BY <1>2, <1>6, FalseLits
<1>8. -x # l
  BY <1>3, <1>5, <1>6, <1>7
<1>9. IsTrue(m, -x) /\ IsFalse(m, x)
  <2>1. IsTrue(m, -x)
    BY <1>3, <1>7, <1>8
  <2> QED BY <1>2, <1>7, <2>1, TrueLits, LitFacts
<1>10. KeptLit(m, n, x)
  BY <1>2, <1>3, <1>9, ValueOfLit DEF KeepsAssigned
<1>11. Passed(a, k, x)
  <2>1. LitDl(m, x) <= Limit(a)
    BY <1>4, <1>6, <1>10 DEF KeptLit
  <2> QED BY <1>1, <1>6, <1>9, <1>10, <2>1 DEF Passed, KeptLit
<1>12. ASSUME NEW j \in Lits, Rescued(m, x, j) PROVE Rescued(n, x, j)
  <2>1. KeptLit(m, n, j)
    BY <1>2, <1>3, <1>12, ValueOfLit DEF KeepsAssigned, Rescued
  <2> QED BY <1>10, <1>12, <2>1 DEF Rescued, KeptLit, IsTrue
<1> QED BY <1>1, <1>11, <1>12

\* A decision is taken when every literal has been handed out.
LEMMA RetainsDecision ==
    ASSUME NEW a, NEW b, a.model \in ModelType, TrailConsistent(a.model),
           b.model \in ModelType, TrailConsistent(b.model), CursorsGood(a.model),
           KeepsAssigned(a.model, b.model),
           NEW l \in Lits, IsUndef(a.model, l),
           b.model = SetTrueDecision(a.model, l), Limit(a) = a.model.decisionLvl,
           FullyPropagated(a.model)
    PROVE  Retains(a, b)
<1>1. PICK m, n : m = a.model /\ n = b.model
  OBVIOUS
<1>2. /\ m \in ModelType /\ TrailConsistent(m) /\ n \in ModelType /\ TrailConsistent(n)
      /\ CursorsGood(m) /\ IsUndef(m, l) /\ n = SetTrueDecision(m, l)
      /\ KeepsAssigned(m, n) /\ FullyPropagated(m)
  BY <1>1
<1>3. /\ Len(n.stack) = Len(m.stack) + 2 /\ n.stack[Len(m.stack) + 2] = l
      /\ \A k \in Kinds : n.last[k] = m.last[k] + 1
      /\ n.stack[Len(m.stack) + 1] = DlMarker
      /\ \A i \in 1..Len(m.stack) : n.stack[i] = m.stack[i]
  BY <1>2, DecisionKeepsTrail
<1>5. Len(m.stack) \in Nat /\ \A k \in Kinds : m.last[k] \in -1..(Len(m.stack) - 1)
  BY <1>2 DEF CursorsGood, ModelType
<1> SUFFICES ASSUME NEW k \in Kinds, NEW x \in Lits, Passed(b, k, x)
             PROVE  /\ Passed(a, k, x)
                    /\ \A j \in Lits : Rescued(a.model, x, j) => Rescued(b.model, x, j)
  BY DEF Retains
<1>6. IsFalse(n, x) /\ LitHeight(n, x) <= m.last[k] + 1 /\ LitHeight(n, x) \in Nat
  BY <1>1, <1>2, <1>3, FalseLits DEF Passed
<1>7. -x \in Lits /\ IsTrue(n, -x) /\ LitHeight(n, -x) = LitHeight(n, x)
  BY <1>2, <1>6, FalseLits
<1>8. PICK h : h = LitHeight(n, x) + 1
  OBVIOUS
<1>9. n.stack[h] = -x /\ h \in 1..Len(n.stack) /\ h <= Len(m.stack) + 1
  <2>1. n.stack[h] = -x /\ h \in 1..Len(n.stack)
    BY <1>2, <1>7, <1>8, TrueLits
  <2>2. m.last[k] <= Len(m.stack) - 1 /\ m.last[k] \in Int
    BY <1>5
  <2> QED BY <1>5, <1>6, <1>8, <2>1, <2>2
<1>10. h \in 1..Len(m.stack) /\ m.stack[h] = -x /\ -x # DlMarker
  <2>1. -x # DlMarker
    BY <1>7, LitFacts
  <2>2. h # Len(m.stack) + 1
    BY <1>3, <1>9, <2>1
  <2>3. h \in 1..Len(m.stack)
    BY <1>5, <1>9, <2>2
  <2> QED BY <1>3, <1>9, <2>1, <2>3
<1>11. IsTrue(m, -x) /\ IsFalse(m, x) /\ LitHeight(m, -x) = h - 1
  <2>1. StackMatchesValues(m)
    BY <1>2 DEF TrailConsistent
  <2>2. IsTrue(m, -x) /\ LitHeight(m, -x) = h - 1
    BY <1>2, <1>10, <2>1, StackLits
  <2> QED BY <1>2, <1>7, <2>2, TrueLits, LitFacts
<1>12. KeptLit(m, n, x)
  BY <1>2, <1>11, ValueOfLit DEF KeepsAssigned
<1>13. LitHeight(m, x) <= m.last[k]
  <2>1. LitHeight(m, x) = h - 1
    BY <1>2, <1>11, FalseLits
  <2>2. m.last[k] = Len(m.stack) - 1
    BY <1>2 DEF FullyPropagated, HasNext
  <2> QED BY <1>5, <1>10, <2>1, <2>2
<1>14. Passed(a, k, x)
  <2>1. LitDl(m, x) <= m.decisionLvl
    BY <1>2, <1>11, FalseLits
  <2> QED BY <1>1, <1>11, <1>13, <2>1 DEF Passed
<1>15. ASSUME NEW j \in Lits, Rescued(m, x, j) PROVE Rescued(n, x, j)
  <2>1. KeptLit(m, n, j)
    BY <1>2, <1>15, ValueOfLit DEF KeepsAssigned, Rescued
  <2> QED BY <1>12, <1>15, <2>1 DEF Rescued, KeptLit, IsTrue
<1> QED BY <1>1, <1>14, <1>15

\* A literal of a lower level than the last lies under a marker, and has been handed out.
LEMMA BelowMarker ==
    ASSUME NEW m \in ModelType, TrailConsistent(m), MarkersPassed(m),
           NEW l \in Lits, IsFalse(m, l), LitDl(m, l) < m.decisionLvl, NEW k \in Kinds
    PROVE  LitHeight(m, l) <= m.last[k]
<1>1. /\ -l \in Lits /\ IsTrue(m, -l)
      /\ LitHeight(m, -l) = LitHeight(m, l) /\ LitDl(m, -l) = LitDl(m, l)
      /\ LitHeight(m, l) \in Nat /\ LitHeight(m, l) < Len(m.stack)
  BY FalseLits
<1>2. PICK h : h = LitHeight(m, l) + 1
  OBVIOUS
<1>3. LitDl(m, l) = Cardinality(MarkersBelow(m, h)) /\ m.stack[h] = -l
  BY <1>1, <1>2, TrueLits
<1>4. Len(m.stack) \in Nat /\ m.last[k] \in Int /\ m.decisionLvl \in Nat
  BY DEF ModelType
<1>5. m.decisionLvl = Cardinality(MarkersBelow(m, Len(m.stack) + 1))
  BY DEF TrailConsistent, LevelsCountMarkers
<1>6. PICK j \in MarkersBelow(m, Len(m.stack) + 1) : j \notin MarkersBelow(m, h)
  <2>1. SUFFICES ASSUME MarkersBelow(m, Len(m.stack) + 1) \subseteq MarkersBelow(m, h)
                 PROVE  FALSE
    OBVIOUS
  <2>2. MarkersBelow(m, h) \subseteq MarkersBelow(m, Len(m.stack) + 1)
    BY <1>1, <1>2, <1>4 DEF MarkersBelow
  <2>3. MarkersBelow(m, h) = MarkersBelow(m, Len(m.stack) + 1)
    BY <2>1, <2>2
  <2> QED BY <1>3, <1>4, <1>5, <2>3
<1>7. j \in 1..Len(m.stack) /\ m.stack[j] = DlMarker /\ j >= h
  BY <1>1, <1>2, <1>4, <1>6 DEF MarkersBelow
<1>8. j <= m.last[k] + 1
  BY <1>7 DEF MarkersPassed
<1>9. j # h
  BY <1>1, <1>3, <1>7, LitFacts
<1> QED BY <1>1, <1>2, <1>4, <1>7, <1>8, <1>9

\* While it is popped, nothing of the last level counts.
LEMMA RetainsPop ==
    ASSUME NEW a, NEW b, a.model \in ModelType, TrailConsistent(a.model),
           MarkersPassed(a.model), a.model.decisionLvl > 0,
           b.model = PopAndSetUndef(a.model), Limit(b) < a.model.decisionLvl,
           Limit(b) <= Limit(a)
    PROVE  Retains(a, b)
<1>1. PICK m, n : m = a.model /\ n = b.model
  OBVIOUS
<1>2. /\ m \in ModelType /\ TrailConsistent(m) /\ MarkersPassed(m)
      /\ m.decisionLvl > 0 /\ n = PopAndSetUndef(m)
  BY <1>1
<1>3. /\ n \in ModelType /\ TrailConsistent(n) /\ Len(m.stack) > 0
      /\ \A k \in Lits : KeptLit(m, n, k) \/ (Top(m) # DlMarker /\ k \in {Top(m), -Top(m)})
      /\ \A k \in Lits : IsUndef(m, k) => IsUndef(n, k)
      /\ \A k \in Lits : ~IsUndef(m, k) /\ LitDl(m, k) < m.decisionLvl
                 => KeptLit(m, n, k)
      /\ Top(m) # DlMarker => IsUndef(n, Top(m)) /\ IsUndef(n, -Top(m))
  BY <1>2, PopKeeps
<1>4. Limit(a) \in Int /\ Limit(b) \in Int /\ m.decisionLvl \in Nat
  BY <1>1, <1>3, LimitIs
<1> SUFFICES ASSUME NEW k \in Kinds, NEW x \in Lits, Passed(b, k, x)
             PROVE  /\ Passed(a, k, x)
                    /\ \A j \in Lits : Rescued(a.model, x, j) => Rescued(b.model, x, j)
  BY DEF Retains
<1>5. IsFalse(n, x) /\ LitDl(n, x) <= Limit(b) /\ LitDl(n, x) \in Nat
  BY <1>1, <1>3, FalseLits DEF Passed
<1>6. KeptLit(m, n, x)
  <2>1. ~IsUndef(n, x)
    BY <1>3, <1>5, ValueOfLit
  <2> QED BY <1>3, <2>1
<1>7. IsFalse(m, x) /\ LitDl(m, x) = LitDl(n, x) /\ LitDl(m, x) < m.decisionLvl
  BY <1>1, <1>4, <1>5, <1>6 DEF KeptLit, IsFalse
<1>8. LitHeight(m, x) <= m.last[k]
  BY <1>2, <1>7, BelowMarker
<1>9. Passed(a, k, x)
  <2>1. LitDl(m, x) <= Limit(a)
    BY <1>4, <1>5, <1>7
  <2> QED BY <1>1, <1>7, <1>8, <2>1 DEF Passed
<1>10. ASSUME NEW j \in Lits, Rescued(m, x, j) PROVE Rescued(n, x, j)
  <2>1. IsTrue(m, j) /\ LitDl(m, j) <= LitDl(m, x) /\ LitDl(m, j) \in Nat
    BY <1>2, <1>10, TrueLits DEF Rescued
  <2>2. ~IsUndef(m, j) /\ LitDl(m, j) < m.decisionLvl
    BY <1>2, <1>4, <1>5, <1>7, <2>1, ValueOfLit
  <2>3. KeptLit(m, n, j)
    BY <1>3, <2>2
  <2> QED BY <1>6, <2>1, <2>3 DEF Rescued, KeptLit, IsTrue
<1> QED BY <1>1, <1>9, <1>10

LEMMA MarkersPop ==
    ASSUME NEW m \in ModelType, TrailConsistent(m), MarkersPassed(m), m.decisionLvl > 0,
           NEW n, n = PopAndSetUndef(m)
    PROVE  MarkersPassed(n)
<1>1. Len(m.stack) > 0 /\ n \in ModelType
  BY PopKeeps
<1>2. m.stack \in Seq(Lits \cup {DlMarker}) /\ Len(m.stack) \in Nat
  BY DEF ModelType
<1>3. n.stack = SubSeq(m.stack, 1, Len(m.stack) - 1)
  BY <1>1, PopMarkerFields, PopLitFields
<1>4. /\ Len(n.stack) = Len(m.stack) - 1
      /\ \A i \in 1..Len(n.stack) : n.stack[i] = m.stack[i]
  BY <1>1, <1>2, <1>3
<1>5. CASE Top(m) = DlMarker
  <2>1. \A k \in Kinds : n.last[k] = Len(m.stack) - 2
    BY <1>1, <1>5, PopMarkerFields
  <2> QED BY <1>2, <1>4, <2>1 DEF MarkersPassed
<1>6. CASE Top(m) # DlMarker
  <2>1. n.last = m.last
    BY <1>1, <1>6, PopLitFields
  <2>2. \A i \in 1..Len(n.stack) : i \in 1..Len(m.stack)
    BY <1>2, <1>4
  <2> QED BY <1>4, <2>1, <2>2 DEF MarkersPassed
<1> QED BY <1>5, <1>6

-----------------------------------------------------------------------------
(* What is done stays done *)

\* No list is being visited, no unit is still to be set and no lemma to be used.
NothingOpen(a) ==
    a.pc \notin {"binary", "ternary", "nary", "backjump", "solve", "units", "done"}

\* What was open in a and counts in b is open in b, or has been dealt with.
BinaryCarried(a, b, d) ==
    \A l \in Lits : \A i \in 1..a.lastBins[l] :
       BinaryOpen(a, d, l, i) /\ Passed(b, "binary", -l) =>
          BinaryOpen(b, d, l, i) \/ Rescued(b.model, -l, d.bDB[l][i])

TernaryCarried(a, b, d, w) ==
    \A i \in DOMAIN d.tDB : d.tDB[i].flags[w] =>
       \A x, y \in d.tDB[i].lits :
          /\ x # y /\ Passed(b, "ternary", x) /\ Passed(b, "ternary", y)
          /\ TernaryOpen(a, d, i, x, y)
          => \/ TernaryOpen(b, d, i, x, y)
             \/ \E z \in d.tDB[i].lits : Rescued(b.model, x, z) \/ Rescued(b.model, y, z)

NaryCarried(a, b) ==
    \A i \in DOMAIN a.thcdb : a.thcdb[i].pos # 0 =>
       \A x, y \in Watched(a.thcdb[i]) :
          x # y /\ NaryOpen(a, i, x) /\ Passed(b, "nary", x) =>
             NaryOpen(b, i, x) \/ Rescued(b.model, x, y)

AllCarried(a, b, d, w) ==
    BinaryCarried(a, b, d) /\ TernaryCarried(a, b, d, w) /\ NaryCarried(a, b)

LEMMA NothingToCarry ==
    ASSUME NEW a, NEW b, NEW d, NEW w, a.pc \notin {"binary", "ternary", "nary", "backjump"}
    PROVE  AllCarried(a, b, d, w)
<1>1. \A l, i : ~BinaryOpen(a, d, l, i)
  BY DEF BinaryOpen, IsNews
<1>2. \A i, x, y : ~TernaryOpen(a, d, i, x, y)
  BY DEF TernaryOpen, IsNews
<1>3. \A i, x : ~NaryOpen(a, i, x)
  BY DEF NaryOpen, IsNews
<1> QED BY <1>1, <1>2, <1>3 DEF AllCarried, BinaryCarried, TernaryCarried, NaryCarried

LEMMA BinaryStays ==
    ASSUME NEW a, NEW b, NEW d, NEW e, BinaryDone(a, d), Retains(a, b),
           d \in ClauseDBType, a.lastBins \in [Lits -> Nat],
           \A l \in Lits : a.lastBins[l] <= Len(d.bDB[l]),
           b.lastBins = a.lastBins, e.bDB = d.bDB, BinaryCarried(a, b, d)
    PROVE  BinaryDone(b, e)
<1>1. \A l, i : BinaryOpen(b, d, l, i) => BinaryOpen(b, e, l, i)
  BY DEF BinaryOpen
<1> SUFFICES ASSUME NEW l \in Lits, NEW i \in 1..b.lastBins[l], Passed(b, "binary", -l)
             PROVE  BinaryOpen(b, e, l, i) \/ Rescued(b.model, -l, e.bDB[l][i])
  BY DEF BinaryDone
<1>2. /\ -l \in Lits /\ i \in 1..a.lastBins[l] /\ d.bDB[l][i] \in Lits
      /\ "binary" \in Kinds
  <2>1. i \in 1..Len(d.bDB[l]) /\ d.bDB[l] \in Seq(Lits)
    BY DbFields
  <2> QED BY <2>1, LitFacts DEF Kinds
<1>3. /\ Passed(a, "binary", -l)
      /\ Rescued(a.model, -l, d.bDB[l][i]) => Rescued(b.model, -l, d.bDB[l][i])
  BY <1>2 DEF Retains
<1>4. BinaryOpen(a, d, l, i) \/ Rescued(a.model, -l, d.bDB[l][i])
  BY <1>2, <1>3 DEF BinaryDone
<1>5. BinaryOpen(a, d, l, i) =>
         BinaryOpen(b, d, l, i) \/ Rescued(b.model, -l, d.bDB[l][i])
  BY <1>2 DEF BinaryCarried
<1> QED BY <1>1, <1>3, <1>4, <1>5

LEMMA TernaryStays ==
    ASSUME NEW a, NEW b, NEW d, NEW e, NEW w, TernaryDone(a, d, w), Retains(a, b),
           d \in ClauseDBType, e.tDB = d.tDB, e.ternaryWatches = d.ternaryWatches,
           TernaryCarried(a, b, d, w)
    PROVE  TernaryDone(b, e, w)
<1>1. \A i, x, y : TernaryOpen(b, d, i, x, y) => TernaryOpen(b, e, i, x, y)
  BY DEF TernaryOpen
<1> SUFFICES ASSUME NEW i \in DOMAIN d.tDB, d.tDB[i].flags[w],
                    NEW x \in d.tDB[i].lits, NEW y \in d.tDB[i].lits, x # y,
                    Passed(b, "ternary", x), Passed(b, "ternary", y)
             PROVE  \/ TernaryOpen(b, d, i, x, y)
                    \/ \E z \in d.tDB[i].lits :
                          Rescued(b.model, x, z) \/ Rescued(b.model, y, z)
  BY <1>1 DEF TernaryDone
<1>2. d.tDB[i].lits \subseteq Lits /\ "ternary" \in Kinds
  BY DbFields DEF Clause, Kinds
<1>3. /\ Passed(a, "ternary", x) /\ Passed(a, "ternary", y)
      /\ \A z \in Lits : /\ Rescued(a.model, x, z) => Rescued(b.model, x, z)
                         /\ Rescued(a.model, y, z) => Rescued(b.model, y, z)
  BY <1>2 DEF Retains
<1>4. \/ TernaryOpen(a, d, i, x, y)
      \/ \E z \in d.tDB[i].lits : Rescued(a.model, x, z) \/ Rescued(a.model, y, z)
  BY <1>3 DEF TernaryDone
<1>5. CASE TernaryOpen(a, d, i, x, y)
  BY <1>5 DEF TernaryCarried
<1>6. CASE \E z \in d.tDB[i].lits : Rescued(a.model, x, z) \/ Rescued(a.model, y, z)
  BY <1>2, <1>3, <1>6
<1> QED BY <1>4, <1>5, <1>6

LEMMA NaryStays ==
    ASSUME NEW a, NEW b, NEW d, NaryDone(a), Retains(a, b), ThHeld(a, d),
           a.thcdb \in Seq(ThClause), SameClauses(a.thcdb, b.thcdb), NaryCarried(a, b)
    PROVE  NaryDone(b)
<1> SUFFICES ASSUME NEW i \in DOMAIN a.thcdb, a.thcdb[i].pos # 0,
                    NEW x, NEW y,
                    \/ x = a.thcdb[i].w1 /\ y = a.thcdb[i].w2
                    \/ x = a.thcdb[i].w2 /\ y = a.thcdb[i].w1
             PROVE  Guarded(b, i, x, y)
  BY DEF NaryDone, SameClauses
<1>1. x \in Lits /\ y \in Lits /\ x \in Watched(a.thcdb[i]) /\ y \in Watched(a.thcdb[i])
  <2>1. a.thcdb[i] \in ThClause
    OBVIOUS
  <2> QED BY <2>1 DEF ThClause, Watched
<1>2. x # y
  BY DEF ThHeld, ThGood
<1>3. Guarded(a, i, x, y)
  BY DEF NaryDone
<1> SUFFICES ASSUME Passed(b, "nary", x)
             PROVE  NaryOpen(b, i, x) \/ Rescued(b.model, x, y)
  BY DEF Guarded
<1>4. Passed(a, "nary", x) /\ (Rescued(a.model, x, y) => Rescued(b.model, x, y))
  BY <1>1 DEF Retains, Kinds
<1>5. NaryOpen(a, i, x) \/ Rescued(a.model, x, y)
  BY <1>3, <1>4 DEF Guarded
<1> QED BY <1>1, <1>2, <1>4, <1>5 DEF NaryCarried

\* What keeps an input clause in force: nothing is taken back, of a worker or of the
\* database.
FlagsKept(d, e, w) ==
    /\ \A i \in DOMAIN d.tDB : d.tDB[i].flags[w] => e.tDB[i].flags[w]
    /\ \A i \in DOMAIN d.nDB : e.nDB[i].original = d.nDB[i].original

HeldKept(a, b) ==
    \A i \in DOMAIN a.thcdb : a.thcdb[i].pos # 0 =>
       \E j \in DOMAIN b.thcdb : b.thcdb[j].pos = a.thcdb[i].pos

CountersGrow(a, b) ==
    /\ a.lastUnit \in Nat /\ b.lastUnit \in Nat /\ a.lastUnit <= b.lastUnit
    /\ \A l \in Lits : /\ a.lastBins[l] \in Nat /\ b.lastBins[l] \in Nat
                       /\ a.lastBins[l] <= b.lastBins[l]

LEMMA FlagsSame == ASSUME NEW d, NEW w PROVE FlagsKept(d, d, w)
BY DEF FlagsKept

LEMMA HeldSame ==
    ASSUME NEW a, NEW b, SameClauses(a.thcdb, b.thcdb)
    PROVE  HeldKept(a, b)
BY DEF SameClauses, HeldKept

LEMMA LimitFalls ==
    ASSUME NEW a, NEW b, a.model \in ModelType, b.model \in ModelType,
           b.model.decisionLvl = a.model.decisionLvl, Falling(a) => Falling(b)
    PROVE  Limit(b) <= Limit(a)
BY LimitIs

LEMMA NoAnswerYet ==
    ASSUME NEW a, NEW d, NEW P, WorkerInv(a, d, P), a.pc # "done"
    PROVE  a.result = 0
BY DEF WorkerInv, Place, Answered

-----------------------------------------------------------------------------
(* From the struct of a worker to the program *)

\* What an insert of worker w does to the database of the others: it only grows, and
\* nothing new is theirs.
Grows(d, e, w) ==
    /\ Extends(d, e)
    /\ \A i \in DOMAIN e.tDB : \A u \in Workers \ {w} :
          e.tDB[i].flags[u] <=> i \in DOMAIN d.tDB /\ d.tDB[i].flags[u]
    /\ \A l \in Lits : \A p \in DOMAIN e.ternaryWatches[l] :
          p \notin DOMAIN d.ternaryWatches[l] => e.ternaryWatches[l][p] > Len(d.tDB)
    /\ \A i \in DOMAIN d.nDB : e.nDB[i].original = d.nDB[i].original

LEMMA BinaryOfOthers ==
    ASSUME NEW a, NEW d \in ClauseDBType, NEW e \in ClauseDBType, NEW w, Grows(d, e, w),
           a.lastBins \in [Lits -> Nat], Counted(a, d), BinaryDone(a, d),
           Twins(d, a.lastBins)
    PROVE  BinaryDone(a, e) /\ Twins(e, a.lastBins)
<1>1. ASSUME NEW l \in Lits, NEW i \in 1..a.lastBins[l]
      PROVE  e.bDB[l][i] = d.bDB[l][i] /\ d.bDB[l][i] \in Lits
  <2>1. a.lastBins[l] <= Len(d.bDB[l]) /\ a.lastBins[l] \in Nat
    BY DEF Counted
  <2>2. i \in DOMAIN d.bDB[l] /\ d.bDB[l] \in Seq(Lits)
    BY <2>1, DbFields
  <2>3. Continues(d.bDB[l], e.bDB[l])
    BY DEF Grows, Extends
  <2> QED BY <2>2, <2>3 DEF Continues
<1>2. BinaryDone(a, e)
  BY <1>1 DEF BinaryDone, BinaryOpen
<1>3. Twins(e, a.lastBins)
  <2> SUFFICES ASSUME NEW l \in Lits, NEW i \in 1..a.lastBins[l]
               PROVE  /\ e.bDB[l][i] # -l
                      /\ \E j \in 1..a.lastBins[-e.bDB[l][i]] : e.bDB[-e.bDB[l][i]][j] = -l
    BY DEF Twins
  <2>1. PICK o : o = d.bDB[l][i]
    OBVIOUS
  <2>2. e.bDB[l][i] = o /\ -o \in Lits
    BY <1>1, <2>1, LitFacts
  <2>3. o # -l /\ \E j \in 1..a.lastBins[-o] : d.bDB[-o][j] = -l
    BY <2>1 DEF Twins
  <2>4. PICK j \in 1..a.lastBins[-o] : d.bDB[-o][j] = -l
    BY <2>3
  <2>5. e.bDB[-o][j] = -l
    BY <1>1, <2>2, <2>4
  <2> QED BY <2>2, <2>3, <2>4, <2>5
<1> QED BY <1>2, <1>3

LEMMA TernaryOfOthers ==
    ASSUME NEW a, NEW d \in ClauseDBType, NEW e \in ClauseDBType,
           NEW w, NEW u \in Workers \ {w}, Grows(d, e, w),
           a.lastTernary \in Nat, Counted(a, d),
           a.cursor.lit \in Lits \/ a.pc # "ternary", TernaryDone(a, d, u),
           FlagsCount(a, d, u)
    PROVE  TernaryDone(a, e, u) /\ FlagsCount(a, e, u)
<1>1. \A i \in DOMAIN e.tDB : e.tDB[i].flags[u] <=> i \in DOMAIN d.tDB /\ d.tDB[i].flags[u]
  BY DEF Grows
<1>2. \A i \in DOMAIN d.tDB : i \in DOMAIN e.tDB /\ e.tDB[i].lits = d.tDB[i].lits
  BY DEF Grows, Extends
<1>3. ASSUME NEW i, NEW x, NEW y, TernaryOpen(a, d, i, x, y)
      PROVE  TernaryOpen(a, e, i, x, y)
  <2>1. CASE IsNews(a, 3, i)
    BY <2>1 DEF TernaryOpen
  <2>2. CASE ~IsNews(a, 3, i)
    <3>1. /\ a.pc = "ternary" /\ -a.cursor.lit \in {x, y}
          /\ Ahead(d.ternaryWatches[-a.cursor.lit], a.cursor.pos, i)
      BY <1>3, <2>2 DEF TernaryOpen
    <3>2. -a.cursor.lit \in Lits
      BY <3>1, LitFacts
    <3>3. Continues(d.ternaryWatches[-a.cursor.lit], e.ternaryWatches[-a.cursor.lit])
      BY <3>2 DEF Grows, Extends
    <3>4. Ahead(e.ternaryWatches[-a.cursor.lit], a.cursor.pos, i)
      BY <3>1, <3>3 DEF Ahead, Continues
    <3> QED BY <3>1, <3>4 DEF TernaryOpen
  <2> QED BY <2>1, <2>2
<1>4. TernaryDone(a, e, u)
  BY <1>1, <1>2, <1>3 DEF TernaryDone
<1>5. FlagsCount(a, e, u)
  <2> SUFFICES ASSUME NEW i \in DOMAIN e.tDB
               PROVE  e.tDB[i].flags[u] <=> i <= a.lastTernary
    BY DEF FlagsCount
  <2>1. i \in Nat \ {0} /\ DOMAIN d.tDB = 1..Len(d.tDB) /\ Len(d.tDB) \in Nat
    BY DbFields
  <2>2. CASE i \in DOMAIN d.tDB
    BY <1>1, <2>2 DEF FlagsCount
  <2>3. CASE i \notin DOMAIN d.tDB
    BY <1>1, <2>1, <2>3 DEF Counted
  <2> QED BY <2>2, <2>3
<1> QED BY <1>4, <1>5

LEMMA SizesOfOthers ==
    ASSUME NEW a, NEW d \in ClauseDBType, NEW e \in ClauseDBType, NEW w, Grows(d, e, w),
           a.lastTernary \in Nat, Counted(a, d), a.cursor.size \in Nat,
           a.cursor.lit \in Lits \/ a.pc # "ternary", SizeGood(a, d)
    PROVE  SizeGood(a, e)
<1> SUFFICES ASSUME a.pc = "ternary",
                    NEW p \in DOMAIN e.ternaryWatches[-a.cursor.lit], p > a.cursor.size
             PROVE  e.ternaryWatches[-a.cursor.lit][p] > a.lastTernary
  BY DEF SizeGood
<1>1. PICK l : l = -a.cursor.lit
  OBVIOUS
<1>2. l \in Lits
  BY <1>1, LitFacts
<1>3. CASE p \in DOMAIN d.ternaryWatches[l]
  <2>1. e.ternaryWatches[l][p] = d.ternaryWatches[l][p]
    BY <1>2, <1>3 DEF Grows, Extends, Continues
  <2>2. d.ternaryWatches[l][p] > a.lastTernary
    BY <1>1, <1>3 DEF SizeGood
  <2> QED BY <1>1, <2>1, <2>2
<1>4. CASE p \notin DOMAIN d.ternaryWatches[l]
  <2>1. e.ternaryWatches[l][p] > Len(d.tDB)
    BY <1>1, <1>2, <1>4 DEF Grows
  <2>2. e.ternaryWatches[l] \in Seq(Nat) /\ p \in DOMAIN e.ternaryWatches[l]
    BY <1>1, <1>2, DbFields
  <2>3. e.ternaryWatches[l][p] \in Nat
    BY <2>2
  <2>4. Len(d.tDB) \in Nat /\ a.lastTernary <= Len(d.tDB)
    BY DbFields DEF Counted
  <2>5. e.ternaryWatches[l][p] > a.lastTernary
    BY <2>1, <2>3, <2>4
  <2> QED BY <1>1, <2>5
<1> QED BY <1>3, <1>4

LEMMA GrowsSame ==
    ASSUME NEW d \in ClauseDBType, NEW w PROVE Grows(d, d, w)
BY ExtendsSame DEF Grows

\* What is known of the worker that makes a step.
LEMMA StepFacts ==
    ASSUME IInv, PInv, NEW w \in Workers, ad[w].pc # "allocated"
    PROVE  /\ WorkerInv(ad[w], db, Read) /\ PWorker(ad[w], db, w, Read)
           /\ db \in ClauseDBType /\ Read \subseteq Clause /\ Typed(ad[w])
           /\ ad[w].model \in ModelType /\ TrailConsistent(ad[w].model)
           /\ DbInv(db, Read)
<1>1. formula \in Seq(Clause) /\ nread \in 0..Len(formula)
  BY DEF IInv, MainInv
<1>2. Read \subseteq Clause
  BY <1>1 DEF Read
<1>3. WorkerInv(ad[w], db, Read) /\ PWorker(ad[w], db, w, Read) /\ DbInv(db, Read)
  BY DEF IInv, PInv
<1> QED BY <1>2, <1>3, WorkerParts DEF DbInv

-----------------------------------------------------------------------------
(* The steps between the loops *)

\* A step of worker w from a calm place to another that leaves the clauses alone.
BetweenLoops(w) ==
    /\ \E b : Local(w, b)
    /\ ad'[w].thcdb = ad[w].thcdb /\ ad'[w].result \in {ad[w].result, 20}
    /\ NothingOpen(ad[w])
    /\ ad'[w].pc \notin {"binary", "ternary", "units", "backjump", "clean"}
    /\ Falling(ad[w]) => Falling(ad'[w])

LEMMA CalmSteps ==
    ASSUME IInv, NEW w \in Workers,
           \/ PropagationDone(w) \/ ConflictAtLevelZero(w) \/ StartAnalysis(w)
           \/ MarkClause(w) \/ StartShortening(w) \/ ShortenLiteral(w)
           \/ RestartIfAdequate(w) \/ RestartDone(w) \/ CleanupIfAdequate(w)
    PROVE  BetweenLoops(w)
<1>1. ad = [u \in Workers |-> ad[u]] /\ Typed(ad[w])
  BY WorkerParts DEF IInv
<1> USE DEF BetweenLoops, NothingOpen, Falling, PoppingNow, Target, At, Local, Typed, Fields
<1>2. CASE PropagationDone(w)
  BY <1>1, <1>2 DEF PropagationDone
<1>3. CASE ConflictAtLevelZero(w)
  BY <1>1, <1>3 DEF Finish, ConflictAtLevelZero
<1>4. CASE StartAnalysis(w)
  BY <1>1, <1>4 DEF StartAnalysis
<1>5. CASE MarkClause(w)
  BY <1>1, <1>5, Zenon DEF MarkClause
<1>6. CASE StartShortening(w)
  BY <1>1, <1>6 DEF StartShortening
<1>7. CASE RestartDone(w)
  <2>1. ad[w].pc = "restartJump" /\ ad[w].model.decisionLvl = 0
    BY <1>7 DEF RestartDone
  <2>2. ~Falling(ad[w])
    BY <2>1
  <2> HIDE DEF Falling
  <2> QED BY <1>1, <1>7, <2>2 DEF RestartDone
<1>8. CASE ShortenLiteral(w)
  <2> DEFINE a == ad[w]
             l == Highest(a.model, a.lemma)
  <2>1. /\ At(w, "shorten")
        /\ \/ Local(w, [a EXCEPT !.lemma = @ \ {l}, !.marks = @ \ {var(l)}])
           \/ Local(w, [a EXCEPT !.lemma = @ \ {l}, !.lemmaToLearn = @ \cup {l}])
    BY <1>8 DEF ShortenLiteral
  <2>2. CASE Local(w, [a EXCEPT !.lemma = @ \ {l}, !.marks = @ \ {var(l)}])
    BY <1>1, <2>1, <2>2
  <2>3. CASE Local(w, [a EXCEPT !.lemma = @ \ {l}, !.lemmaToLearn = @ \cup {l}])
    BY <1>1, <2>1, <2>3
  <2> QED BY <2>1, <2>2, <2>3
<1>9. CASE RestartIfAdequate(w)
  <2>1. /\ At(w, "restart")
        /\ \/ Local(w, [ad[w] EXCEPT !.pc = "restartJump", !.sinceRestart = 0,
                                      !.restartLimit = nextRestartLimit[@]])
           \/ Local(w, [ad[w] EXCEPT !.pc = "cleanup"])
    BY <1>9 DEF RestartIfAdequate
  <2>2. CASE Local(w, [ad[w] EXCEPT !.pc = "restartJump", !.sinceRestart = 0,
                                    !.restartLimit = nextRestartLimit[@]])
    BY <1>1, <2>1, <2>2
  <2>3. CASE Local(w, [ad[w] EXCEPT !.pc = "cleanup"])
    BY <1>1, <2>1, <2>3
  <2> QED BY <2>1, <2>2, <2>3
<1>10. CASE CleanupIfAdequate(w)
  <2>1. /\ At(w, "cleanup")
        /\ \/ Local(w, [ad[w] EXCEPT !.pc = "cleanupJump", !.sinceCleanup = 0,
                                      !.cleanupLimit = (@ * 105) \div 100])
           \/ Local(w, [ad[w] EXCEPT !.pc = "decide"])
    BY <1>10 DEF CleanupIfAdequate
  <2>2. CASE Local(w, [ad[w] EXCEPT !.pc = "cleanupJump", !.sinceCleanup = 0,
                                    !.cleanupLimit = (@ * 105) \div 100])
    BY <1>1, <2>1, <2>2
  <2>3. CASE Local(w, [ad[w] EXCEPT !.pc = "decide"])
    BY <1>1, <2>1, <2>3
  <2> QED BY <2>1, <2>2, <2>3
<1> QED BY <1>2, <1>3, <1>4, <1>5, <1>6, <1>7, <1>8, <1>9, <1>10

-----------------------------------------------------------------------------
(* Popping *)

LEMMA PopLimit ==
    ASSUME NEW a, NEW b, a.model \in ModelType, TrailConsistent(a.model),
           a.model.decisionLvl > 0, b.model = PopAndSetUndef(a.model),
           Falling(a), b.model.decisionLvl = a.model.decisionLvl => Falling(b)
    PROVE  Limit(b) < a.model.decisionLvl /\ Limit(b) <= Limit(a)
<1>1. /\ b.model \in ModelType
      /\ b.model.decisionLvl \in {a.model.decisionLvl, a.model.decisionLvl - 1}
  BY PopKeeps
<1>2. /\ a.model.decisionLvl \in Nat /\ b.model.decisionLvl \in Nat
      /\ Limit(a) = a.model.decisionLvl - 1 /\ Limit(b) <= b.model.decisionLvl
      /\ Falling(b) => Limit(b) = b.model.decisionLvl - 1
      /\ Limit(b) \in Int
  BY <1>1, LimitIs
<1> QED BY <1>1, <1>2

LEMMA NoModelYet ==
    ASSUME NEW a, NEW b, NEW d, NEW P, WorkerInv(a, d, P), a.pc # "done",
           b.result = a.result
    PROVE  ModelFound(b, P)
<1>1. a.result = 0
  BY NoAnswerYet
<1> QED BY <1>1 DEF ModelFound

LEMMA MarkersOf == ASSUME NEW m, CursorsGood(m) PROVE MarkersPassed(m)
BY DEF CursorsGood, MarkersPassed

-----------------------------------------------------------------------------
(* Handing out a literal *)

\* The only literal passed in addition is the one whose list is now visited.
HandedOut(a, b, k, l) ==
    /\ a.pc = "propagate" /\ b.pc = k
    /\ b.cursor.lit = l /\ b.cursor.pos = 1
    /\ \A j \in Kinds : \A x \in Lits :
          Passed(b, j, x) => Passed(a, j, x) \/ (j = k /\ x = -l)
    /\ \A x, z \in Lits : Rescued(a.model, x, z) => Rescued(b.model, x, z)

AdvanceTo(m, k, n, l) == HasNext(m, k) /\ n = Advance(m, k) /\ l = NextLit(m, k)

LEMMA AdvancePassed ==
    ASSUME NEW m \in ModelType, TrailConsistent(m), CursorsGood(m), NEW k \in Kinds,
           NEW n, NEW l, AdvanceTo(m, k, n, l), l \in Lits, IsTrue(m, l)
    PROVE  /\ n.value = m.value /\ n.level = m.level /\ n.height = m.height
           /\ n.decisionLvl = m.decisionLvl
           /\ \A j \in Kinds : \A x \in Lits :
                 IsFalse(n, x) /\ LitHeight(n, x) <= n.last[j] =>
                    LitHeight(m, x) <= m.last[j] \/ (j = k /\ x = -l)
<1>1. /\ n.value = m.value /\ n.level = m.level /\ n.height = m.height
      /\ n.decisionLvl = m.decisionLvl /\ n.last = [m.last EXCEPT ![k] = @ + 1]
  BY DEF AdvanceTo, Advance, ModelType
<1>2. /\ Len(m.stack) \in Nat /\ m.last \in [Kinds -> Nat \cup {-1}]
      /\ m.last[k] \in -1..(Len(m.stack) - 1) /\ m.last[k] # Len(m.stack) - 1
  BY DEF ModelType, CursorsGood, AdvanceTo, HasNext
<1>3. PICK h : h = m.last[k] + 2
  OBVIOUS
<1>4. h \in 1..Len(m.stack) /\ l = m.stack[h] /\ h - 1 = m.last[k] + 1
  BY <1>2, <1>3 DEF AdvanceTo, NextLit
<1>5. LitHeight(m, l) = m.last[k] + 1
  <2>1. StackMatchesValues(m) /\ l # DlMarker
    BY LitFacts DEF TrailConsistent
  <2> QED BY <1>4, <2>1, StackLits
<1>6. ASSUME NEW j \in Kinds, NEW x \in Lits, IsFalse(n, x), LitHeight(n, x) <= n.last[j],
             ~(LitHeight(m, x) <= m.last[j])
      PROVE  j = k /\ x = -l
  <2>1. IsFalse(m, x) /\ LitHeight(n, x) = LitHeight(m, x)
    BY <1>1, <1>6 DEF IsFalse, LitHeight
  <2>2. LitHeight(m, x) \in Nat /\ -x \in Lits /\ IsTrue(m, -x)
        /\ LitHeight(m, -x) = LitHeight(m, x)
    BY <2>1, FalseLits
  <2>3. j = k
    BY <1>1, <1>2, <1>6, <2>1
  <2>4. n.last[k] = m.last[k] + 1
    BY <1>1, <1>2
  <2>5. LitHeight(m, -x) = LitHeight(m, l)
    BY <1>2, <1>5, <1>6, <2>1, <2>2, <2>3, <2>4
  <2>6. -x = l
    BY <2>2, <2>5, HeightsDiffer
  <2> QED BY <2>3, <2>6, LitFacts
<1> QED BY <1>1, <1>6

-----------------------------------------------------------------------------
(* Visiting a list *)

\* What a loop in hand leaves to be done is of its kind.
LEMMA OpenInLoop ==
    ASSUME NEW a, NEW d, NEW i, NEW x, NEW y, a.pc \in {"binary", "ternary", "nary"}
    PROVE  /\ BinaryOpen(a, d, x, i) =>
                 a.pc = "binary" /\ a.cursor.lit = x /\ i >= a.cursor.pos
           /\ TernaryOpen(a, d, i, x, y) =>
                 /\ a.pc = "ternary" /\ -a.cursor.lit \in {x, y}
                 /\ Ahead(d.ternaryWatches[-a.cursor.lit], a.cursor.pos, i)
           /\ NaryOpen(a, i, x) =>
                 /\ a.pc = "nary" /\ x = -a.cursor.lit
                 /\ Ahead(a.watches[x], a.cursor.pos, i)
<1>1. a.pc # "backjump"
  OBVIOUS
<1>2. \A size, ptr : ~IsNews(a, size, ptr)
  BY <1>1 DEF IsNews
<1> QED BY <1>2 DEF BinaryOpen, TernaryOpen, NaryOpen

\* In a conflict the literal in hand, which is of the last level, is not relied on.
LEMMA ConflictCarries ==
    ASSUME NEW a, NEW b, NEW d, NEW w, NEW P, WorkerInv(a, d, P),
           a.pc \in {"binary", "ternary", "nary"},
           b.pc = "conflict", b.model = a.model
    PROVE  AllCarried(a, b, d, w)
<1>1. /\ a.cursor.lit \in Lits /\ LitIsOfCurrentDl(a.model, a.cursor.lit)
      /\ a.model.decisionLvl \in Nat
  BY WorkerParts DEF Visiting
<1>2. ASSUME NEW k, NEW x \in Lits, x = -a.cursor.lit PROVE ~Passed(b, k, x)
  <2>1. LitDl(b.model, x) = a.model.decisionLvl
    BY <1>1, <1>2, LitFacts DEF LitDl, LitIsOfCurrentDl
  <2>2. Limit(b) = a.model.decisionLvl - 1
    BY DEF Limit, Falling
  <2> QED BY <1>1, <2>1, <2>2 DEF Passed
<1>3. -a.cursor.lit \in Lits
  BY <1>1, LitFacts
<1>4. BinaryCarried(a, b, d)
  BY <1>1, <1>2, <1>3, OpenInLoop DEF BinaryCarried
<1>5. TernaryCarried(a, b, d, w)
  <2> SUFFICES ASSUME NEW i \in DOMAIN d.tDB, d.tDB[i].flags[w],
                      NEW x \in d.tDB[i].lits, NEW y \in d.tDB[i].lits,
                      Passed(b, "ternary", x), Passed(b, "ternary", y),
                      TernaryOpen(a, d, i, x, y)
               PROVE  FALSE
    BY DEF TernaryCarried
  <2>1. -a.cursor.lit \in {x, y}
    BY OpenInLoop
  <2> QED BY <1>2, <1>3, <2>1
<1>6. NaryCarried(a, b)
  BY <1>2, <1>3, OpenInLoop DEF NaryCarried
<1> QED BY <1>4, <1>5, <1>6 DEF AllCarried

\* Where a visit ends: nothing the worker uses is left in the list.
AtEnd(a) ==
    \/ a.pc \in {"binary", "ternary"} /\ a.cursor.pos > a.cursor.size
    \/ a.pc = "nary" /\ a.cursor.pos > Len(a.watches[-a.cursor.lit])

LEMMA EndCarries ==
    ASSUME NEW a, NEW b, NEW d \in ClauseDBType, NEW w, NEW P,
           WorkerInv(a, d, P), PWorker(a, d, w, P), AtEnd(a)
    PROVE  AllCarried(a, b, d, w)
<1>1. /\ a.pc \in {"binary", "ternary", "nary"} /\ Typed(a) /\ Counted(a, d)
      /\ SizeGood(a, d) /\ FlagsCount(a, d, w)
      /\ a.cursor.lit \in Lits /\ -a.cursor.lit \in Lits
  <2>1. a.pc \in {"binary", "ternary", "nary"}
    BY DEF AtEnd
  <2>2. a.cursor.lit \in Lits
    BY <2>1, WorkerParts DEF Visiting
  <2> QED BY <2>1, <2>2, WorkerParts, LitFacts DEF Core, PWorker, Lists
<1>2. /\ a.cursor.pos \in Nat /\ a.cursor.size \in Nat /\ a.lastTernary \in Nat
      /\ a.lastBins \in [Lits -> Nat] /\ a.watches \in [Lits -> Seq(Nat)]
  BY <1>1 DEF Typed, Cursor
<1>3. BinaryCarried(a, b, d)
  <2> SUFFICES ASSUME NEW l \in Lits, NEW i \in 1..a.lastBins[l], BinaryOpen(a, d, l, i)
               PROVE  FALSE
    BY DEF BinaryCarried
  <2>1. a.pc = "binary" /\ a.cursor.lit = l /\ i >= a.cursor.pos
    BY <1>1, OpenInLoop
  <2>2. a.cursor.size = a.lastBins[l] /\ a.cursor.pos > a.cursor.size
    BY <1>1, <2>1 DEF SizeGood, AtEnd
  <2> QED BY <1>2, <2>1, <2>2
<1>4. TernaryCarried(a, b, d, w)
  <2> SUFFICES ASSUME NEW i \in DOMAIN d.tDB, d.tDB[i].flags[w], NEW x, NEW y,
                      TernaryOpen(a, d, i, x, y)
               PROVE  FALSE
    BY DEF TernaryCarried
  <2>1. a.pc = "ternary" /\ Ahead(d.ternaryWatches[-a.cursor.lit], a.cursor.pos, i)
    BY <1>1, OpenInLoop
  <2>2. PICK p \in DOMAIN d.ternaryWatches[-a.cursor.lit] :
           p >= a.cursor.pos /\ d.ternaryWatches[-a.cursor.lit][p] = i
    BY <2>1 DEF Ahead
  <2>3. p \in Nat
    BY <1>1, DbFields
  <2>4. p > a.cursor.size
    BY <1>2, <2>1, <2>2, <2>3 DEF AtEnd
  <2>5. i > a.lastTernary
    BY <1>1, <2>1, <2>2, <2>4 DEF SizeGood
  <2>6. i \in Nat /\ i <= a.lastTernary
    BY <1>1, DbFields DEF FlagsCount
  <2> QED BY <1>2, <2>5, <2>6
<1>5. NaryCarried(a, b)
  <2> SUFFICES ASSUME NEW i, NEW x, NaryOpen(a, i, x)
               PROVE  FALSE
    BY DEF NaryCarried
  <2>1. a.pc = "nary" /\ x = -a.cursor.lit /\ Ahead(a.watches[x], a.cursor.pos, i)
    BY <1>1, OpenInLoop
  <2>2. PICK p \in DOMAIN a.watches[x] : p >= a.cursor.pos
    BY <2>1 DEF Ahead
  <2>3. a.cursor.pos > Len(a.watches[x])
    BY <2>1 DEF AtEnd
  <2>4. a.watches[x] \in Seq(Nat)
    BY <1>1, <1>2, <2>1
  <2> QED BY <1>2, <2>2, <2>3, <2>4
<1> QED BY <1>3, <1>4, <1>5 DEF AllCarried

\* The visit goes on to the next entry.
NextEntry(a, b) ==
    /\ a.pc \in {"binary", "ternary", "nary"} /\ b.pc = a.pc
    /\ b.cursor.lit = a.cursor.lit /\ b.cursor.pos = a.cursor.pos + 1
    /\ b.watches = a.watches

\* What makes an entry settled in the model n, for each kind of list.
BinarySettled(a, d, n) ==
    Rescued(n, -a.cursor.lit, d.bDB[a.cursor.lit][a.cursor.pos])

TernarySettled(a, d, w, n) ==
    LET i == d.ternaryWatches[-a.cursor.lit][a.cursor.pos]
    IN  \/ ~d.tDB[i].flags[w]
        \/ Cardinality({l \in d.tDB[i].lits : ~IsFalse(a.model, l)}) > 1
        \/ \E l \in d.tDB[i].lits : Rescued(n, -a.cursor.lit, l)

NarySettled(a, n) ==
    LET i == a.watches[-a.cursor.lit][a.cursor.pos]
    IN  \A y \in Watched(a.thcdb[i]) \ {-a.cursor.lit} : Rescued(n, -a.cursor.lit, y)

Settled(a, d, w, n) ==
    /\ a.pc = "binary" => BinarySettled(a, d, n)
    /\ a.pc = "ternary" => TernarySettled(a, d, w, n)
    /\ a.pc = "nary" => NarySettled(a, n)

\* Two false literals of a ternary leave one.
LEMMA OneLeft ==
    ASSUME NEW c \in Clause, Cardinality(c) = 3, NEW x \in c, NEW y \in c, x # y,
           NEW S \in SUBSET c, x \notin S, y \notin S
    PROVE  Cardinality(S) <= 1
<1>1. Cardinality(c \ {x}) = 2 /\ c \ {x} \in Clause
  BY ClauseSize DEF Clause
<1>2. Cardinality((c \ {x}) \ {y}) = 1 /\ (c \ {x}) \ {y} \in Clause
  BY <1>1, ClauseSize DEF Clause
<1>3. PICK z \in (c \ {x}) \ {y} : TRUE
  BY <1>2, ClauseSize
<1>4. (c \ {x}) \ {y} = {z}
  BY <1>2, <1>3, ClauseSize
<1>5. S = {} \/ S = {z}
  BY <1>4
<1>6. S \in Clause
  BY DEF Clause
<1>7. CASE S = {}
  BY <1>6, <1>7, ClauseSize
<1>8. CASE S = {z}
  BY <1>2, <1>4, <1>8
<1> QED BY <1>5, <1>7, <1>8

LEMMA NextAhead ==
    ASSUME NEW s \in Seq(Nat), NEW pos \in Nat, NEW i, Ahead(s, pos, i), s[pos] # i
    PROVE  Ahead(s, pos + 1, i)
<1>1. PICK p \in DOMAIN s : p >= pos /\ s[p] = i
  BY DEF Ahead
<1>2. p \in Nat /\ p # pos
  BY <1>1
<1>3. p >= pos + 1
  BY <1>1, <1>2
<1> QED BY <1>1, <1>3 DEF Ahead

LEMMA BinaryNext ==
    ASSUME NEW a, NEW b, NEW d, NEW w, NextEntry(a, b), a.cursor.pos \in Nat,
           a.lastBins \in [Lits -> Nat], Settled(a, d, w, b.model)
    PROVE  BinaryCarried(a, b, d)
<1> SUFFICES ASSUME NEW l \in Lits, NEW i \in 1..a.lastBins[l],
                    BinaryOpen(a, d, l, i)
             PROVE  BinaryOpen(b, d, l, i) \/ Rescued(b.model, -l, d.bDB[l][i])
  BY DEF BinaryCarried
<1>1. a.pc = "binary" /\ a.cursor.lit = l /\ i >= a.cursor.pos
  BY OpenInLoop DEF NextEntry
<1>2. CASE i = a.cursor.pos
  BY <1>1, <1>2 DEF Settled, BinarySettled
<1>3. CASE i # a.cursor.pos
  <2>1. i >= a.cursor.pos + 1
    BY <1>1, <1>3
  <2> QED BY <1>1, <2>1 DEF BinaryOpen, NextEntry
<1> QED BY <1>2, <1>3

LEMMA TernaryNext ==
    ASSUME NEW a, NEW b, NEW d \in ClauseDBType, NEW w, NextEntry(a, b),
           a.cursor.pos \in Nat, a.cursor.lit \in Lits,
           TernariesListed(d), Retains(a, b), Settled(a, d, w, b.model)
    PROVE  TernaryCarried(a, b, d, w)
<1> SUFFICES ASSUME NEW i \in DOMAIN d.tDB, d.tDB[i].flags[w],
                    NEW x \in d.tDB[i].lits, NEW y \in d.tDB[i].lits, x # y,
                    Passed(b, "ternary", x), Passed(b, "ternary", y),
                    TernaryOpen(a, d, i, x, y)
             PROVE  \/ TernaryOpen(b, d, i, x, y)
                    \/ \E z \in d.tDB[i].lits :
                          Rescued(b.model, x, z) \/ Rescued(b.model, y, z)
  BY DEF TernaryCarried
<1>1. PICK f, s : f = -a.cursor.lit /\ s = d.ternaryWatches[f]
  OBVIOUS
<1>2. /\ a.pc = "ternary" /\ f \in {x, y} /\ Ahead(s, a.cursor.pos, i)
  BY <1>1, OpenInLoop DEF NextEntry
<1>3. f \in Lits /\ s \in Seq(Nat) /\ d.tDB[i].lits \in Clause
  BY <1>1, LitFacts, DbFields
<1>4. CASE s[a.cursor.pos] = i
  <2>1. \/ Cardinality({l \in d.tDB[i].lits : ~IsFalse(a.model, l)}) > 1
        \/ \E l \in d.tDB[i].lits : Rescued(b.model, f, l)
    BY <1>1, <1>2, <1>4 DEF Settled, TernarySettled
  <2>2. CASE \E l \in d.tDB[i].lits : Rescued(b.model, f, l)
    BY <1>2, <2>2
  <2>3. CASE Cardinality({l \in d.tDB[i].lits : ~IsFalse(a.model, l)}) > 1
    <3>1. PICK S : S = {l \in d.tDB[i].lits : ~IsFalse(a.model, l)}
      OBVIOUS
    <3>2. IsFalse(a.model, x) /\ IsFalse(a.model, y)
      <4>1. x \in Lits /\ y \in Lits
        BY <1>3 DEF Clause
      <4> QED BY <4>1 DEF Retains, Kinds, Passed
    <3>3. S \in SUBSET d.tDB[i].lits /\ x \notin S /\ y \notin S
      BY <3>1, <3>2
    <3>4. Cardinality(d.tDB[i].lits) = 3
      BY DEF TernariesListed
    <3>5. Cardinality(S) <= 1
      BY <1>3, <3>3, <3>4, OneLeft
    <3>6. Cardinality(S) \in Nat
      BY <1>3, <3>3, ClauseSize DEF Clause
    <3> QED BY <2>3, <3>1, <3>5, <3>6
  <2> QED BY <2>1, <2>2, <2>3
<1>5. CASE s[a.cursor.pos] # i
  <2>1. Ahead(s, a.cursor.pos + 1, i)
    BY <1>2, <1>3, <1>5, NextAhead
  <2>2. /\ b.pc = "ternary" /\ -b.cursor.lit \in {x, y}
        /\ Ahead(d.ternaryWatches[-b.cursor.lit], b.cursor.pos, i)
    BY <1>1, <1>2, <2>1 DEF NextEntry
  <2> QED BY <2>2 DEF TernaryOpen
<1> QED BY <1>4, <1>5

LEMMA NaryNext ==
    ASSUME NEW a, NEW b, NEW d, NEW w, NextEntry(a, b),
           a.cursor.pos \in Nat, a.cursor.lit \in Lits,
           a.watches \in [Lits -> Seq(Nat)], Settled(a, d, w, b.model)
    PROVE  NaryCarried(a, b)
<1> SUFFICES ASSUME NEW i \in DOMAIN a.thcdb, NEW x \in Watched(a.thcdb[i]),
                    NEW y \in Watched(a.thcdb[i]), x # y, NaryOpen(a, i, x)
             PROVE  NaryOpen(b, i, x) \/ Rescued(b.model, x, y)
  BY DEF NaryCarried
<1>1. a.pc = "nary" /\ x = -a.cursor.lit /\ Ahead(a.watches[x], a.cursor.pos, i)
  BY OpenInLoop DEF NextEntry
<1>2. a.watches[x] \in Seq(Nat)
  BY <1>1, LitFacts
<1>3. CASE a.watches[x][a.cursor.pos] = i
  BY <1>1, <1>3 DEF Settled, NarySettled
<1>4. CASE a.watches[x][a.cursor.pos] # i
  <2>1. Ahead(a.watches[x], a.cursor.pos + 1, i)
    BY <1>1, <1>2, <1>4, NextAhead
  <2> QED BY <1>1, <2>1 DEF NextEntry, NaryOpen
<1> QED BY <1>3, <1>4

\* The literal in hand is of the last level: whatever is true keeps its clause true for
\* as long, and so will a literal that is set true now.
LEMMA TrueRescues ==
    ASSUME NEW m \in ModelType, TrailConsistent(m), NEW f \in Lits, IsFalse(m, f),
           LitIsOfCurrentDl(m, f), NEW l \in Lits, IsTrue(m, l)
    PROVE  Rescued(m, f, l)
<1>1. LitDl(m, l) <= m.decisionLvl
  BY TrueLits
<1> QED BY <1>1 DEF Rescued, LitDl, LitIsOfCurrentDl

LEMMA SetRescues ==
    ASSUME NEW m \in ModelType, TrailConsistent(m), NEW f \in Lits, IsFalse(m, f),
           LitIsOfCurrentDl(m, f), NEW l \in Lits, IsUndef(m, l), NEW r \in Reason,
           NEW n, n = SetTrueWithReason(m, l, r)
    PROVE  Rescued(n, f, l)
<1>1. /\ KeepsAssigned(m, n) /\ IsTrue(n, l) /\ LitDl(n, l) = m.decisionLvl
  BY SetTrueKeeps
<1>2. LitDl(n, f) = m.decisionLvl
  <2>1. ~IsUndef(m, f)
    BY ValueOfLit
  <2>2. LitDl(n, f) = LitDl(m, f)
    BY <1>1, <2>1 DEF KeepsAssigned, KeptLit
  <2> QED BY <2>2 DEF LitDl, LitIsOfCurrentDl
<1>3. m.decisionLvl \in Nat
  BY DEF ModelType
<1> QED BY <1>1, <1>2, <1>3 DEF Rescued

\* The clause that is visited, as it is watched.
WatchedEntry(a, d, f, id, t, other, c) ==
    /\ a.pc = "nary" /\ f = -a.cursor.lit /\ id = a.watches[f][a.cursor.pos]
    /\ t = a.thcdb[id] /\ other = (IF t.w1 = f THEN t.w2 ELSE t.w1)
    /\ c = d.nDB[t.pos].lits

LEMMA WatchedEntryIs ==
    ASSUME NEW a, NEW d, NEW P, WorkerInv(a, d, P), d \in ClauseDBType,
           NEW f, NEW id, NEW t, NEW other, NEW c, WatchedEntry(a, d, f, id, t, other, c),
           a.cursor.pos <= Len(a.watches[f])
    PROVE  /\ a.cursor.pos \in DOMAIN a.watches[f] /\ id \in DOMAIN a.thcdb
           /\ f # other /\ Watched(t) = {f, other} /\ {f, other} \subseteq c
           /\ c \in Clause /\ f \in Lits /\ other \in Lits
           /\ ThGood(t, d)
<1>1. /\ a.pc = "nary" /\ f = -a.cursor.lit /\ id = a.watches[f][a.cursor.pos]
      /\ t = a.thcdb[id] /\ other = (IF t.w1 = f THEN t.w2 ELSE t.w1)
      /\ c = d.nDB[t.pos].lits
  BY Zenon DEF WatchedEntry
<1>2. /\ Typed(a) /\ Visiting(a, d) /\ Linked(a.thcdb, a.watches) /\ ThHeld(a, d)
  BY <1>1, WorkerParts, Zenon DEF Core, WatchInv
<1>3. f \in Lits /\ a.cursor.pos \in Nat /\ a.cursor.pos > 0
  <2>1. a.cursor.lit \in Lits
    BY <1>1, <1>2, Zenon DEF Visiting
  <2> QED BY <1>1, <1>2, <2>1, LitFacts, Zenon DEF Visiting, Typed, Cursor
<1>4. a.cursor.pos \in DOMAIN a.watches[f]
  <2>1. a.watches[f] \in Seq(Nat)
    BY <1>2, <1>3 DEF Typed
  <2> QED BY <1>3, <2>1
<1>5. id \in DOMAIN a.thcdb /\ f \in Watched(t)
  <2>1. id \in Range(a.watches[f])
    BY <1>1, <1>4, Zenon DEF Range
  <2> QED BY <1>1, <1>2, <1>3, <2>1, Zenon DEF Linked
<1>6. ThGood(t, d)
  BY <1>1, <1>2, <1>5, Zenon DEF ThHeld
<1>7. f # other /\ Watched(t) = {f, other} /\ {f, other} \subseteq c
  BY <1>1, <1>5, <1>6, Zenon DEF ThGood, Watched
<1>8. c \in Clause
  BY <1>1, <1>6, DbFields, Zenon DEF ThGood
<1> QED BY <1>3, <1>4, <1>5, <1>6, <1>7, <1>8 DEF Clause

\* A clause gives up the literal in hand for one that is not false.
WatchMoved(a, b, id, f, new) ==
    /\ a.pc = "nary" /\ b.pc = "nary" /\ b.cursor = a.cursor /\ f = -a.cursor.lit
    /\ Moved(a.thcdb, f, new, id, b.thcdb, b.watches)
    /\ b.watches[f] = RemoveAt(a.watches[f], a.cursor.pos)
    /\ id = a.watches[f][a.cursor.pos] /\ b.model = a.model

LEMMA RemovedAhead ==
    ASSUME NEW s \in Seq(Nat), NEW pos \in DOMAIN s, NEW i, Ahead(s, pos, i), s[pos] # i,
           NEW t, t = RemoveAt(s, pos)
    PROVE  Ahead(t, pos, i)
<1>1. PICK p \in DOMAIN s : p >= pos /\ s[p] = i
  BY DEF Ahead
<1>2. p > pos
  BY <1>1
<1>3. p - 1 \in DOMAIN t /\ t[p - 1] = s[p] /\ p - 1 >= pos
  <2>1. \A k \in DOMAIN s : k > pos => k - 1 \in DOMAIN t /\ t[k - 1] = s[k] /\ k - 1 >= pos
    BY RemovedLater
  <2> QED BY <1>1, <1>2, <2>1
<1> QED BY <1>1, <1>3 DEF Ahead

\* The clause that has moved is as safe as it was: its new watch is not false, and the
\* old one cannot have kept the other.
LEMMA MovedNaryDone ==
    ASSUME NEW a, NEW b, NEW d, NEW P, WorkerInv(a, d, P), NaryDone(a),
           NEW id, NEW f, NEW new \in Lits, WatchMoved(a, b, id, f, new),
           a.cursor.pos \in DOMAIN a.watches[f], f \in Watched(a.thcdb[id]),
           ~IsFalse(a.model, new)
    PROVE  NaryDone(b)
<1>1. /\ a.pc = "nary" /\ b.pc = "nary" /\ b.cursor = a.cursor /\ f = -a.cursor.lit
      /\ id = a.watches[f][a.cursor.pos] /\ b.model = a.model
      /\ b.watches[f] = RemoveAt(a.watches[f], a.cursor.pos)
  BY DEF WatchMoved
<1>2. /\ DOMAIN b.thcdb = DOMAIN a.thcdb /\ id \in DOMAIN a.thcdb
      /\ \A i \in DOMAIN a.thcdb : b.thcdb[i].pos = a.thcdb[i].pos
      /\ \A i \in DOMAIN a.thcdb \ {id} : b.thcdb[i] = a.thcdb[i]
      /\ b.thcdb[id].w1 # b.thcdb[id].w2
      /\ Watched(b.thcdb[id]) = (Watched(a.thcdb[id]) \ {f}) \cup {new}
  BY Zenon DEF WatchMoved, Moved
<1>3. /\ f \in Lits /\ a.watches[f] \in Seq(Nat) /\ a.thcdb \in Seq(ThClause)
      /\ a.model \in ModelType
  <2>1. /\ a.cursor.lit \in Lits /\ a.thcdb \in Seq(ThClause) /\ a.model \in ModelType
    BY <1>1, WorkerParts, Zenon DEF Visiting
  <2>2. a.watches \in [Lits -> Seq(Nat)]
    BY WorkerParts DEF Typed
  <2>3. f \in Lits
    BY <1>1, <2>1, LitFacts
  <2> QED BY <2>1, <2>2, <2>3
<1>4. \A k, x : Passed(b, k, x) => Passed(a, k, x)
  BY <1>1 DEF Passed, Limit, Falling, PoppingNow
<1>5. IsFalse(a.model, f)
  BY <1>1, WorkerParts, TrueLits, Zenon DEF Visiting
<1> SUFFICES ASSUME NEW i \in DOMAIN a.thcdb, a.thcdb[i].pos # 0, NEW x, NEW y,
                    \/ x = b.thcdb[i].w1 /\ y = b.thcdb[i].w2
                    \/ x = b.thcdb[i].w2 /\ y = b.thcdb[i].w1,
                    Passed(b, "nary", x)
             PROVE  NaryOpen(b, i, x) \/ Rescued(b.model, x, y)
  BY <1>2 DEF NaryDone, Guarded
<1>6. CASE i # id
  <2>1. b.thcdb[i] = a.thcdb[i]
    BY <1>2, <1>6
  <2>2. NaryOpen(a, i, x) \/ Rescued(a.model, x, y)
    BY <1>4, <2>1 DEF NaryDone, Guarded
  <2>3. ASSUME NaryOpen(a, i, x) PROVE NaryOpen(b, i, x)
    <3>1. x = f /\ Ahead(a.watches[f], a.cursor.pos, i)
      BY <1>1, <2>3, OpenInLoop
    <3>2. Ahead(b.watches[f], a.cursor.pos, i)
      BY <1>1, <1>3, <1>6, <3>1, RemovedAhead
    <3> QED BY <1>1, <3>1, <3>2 DEF NaryOpen
  <2> QED BY <1>1, <2>2, <2>3
<1>7. CASE i = id
  <2>1. x # new
    BY <1>4 DEF Passed
  <2>2. x \in Watched(b.thcdb[i]) /\ y \in Watched(b.thcdb[i])
    BY DEF Watched
  <2>3. x \in Watched(a.thcdb[i]) /\ x # f
    BY <1>2, <1>7, <2>1, <2>2
  <2>4. Guarded(a, i, x, f)
    BY <1>7, <2>3 DEF NaryDone, Watched
  <2>5. NaryOpen(a, i, x) \/ Rescued(a.model, x, f)
    BY <1>4, <2>4 DEF Guarded
  <2>6. ~NaryOpen(a, i, x)
    BY <1>1, <2>3, OpenInLoop
  <2>7. ~IsTrue(a.model, f)
    BY <1>3, <1>5, ValueOfLit
  <2> QED BY <2>5, <2>6, <2>7 DEF Rescued
<1> QED BY <1>6, <1>7

-----------------------------------------------------------------------------
(* What an insertion adds to the database. *)

LEMMA FlagRaised ==
    ASSUME NEW T \in Seq(TernaryEntry), NEW i \in DOMAIN T, NEW w \in Workers,
           NEW T2, Flagged(T2, T, i, w, TRUE)
    PROVE  \A k \in DOMAIN T : \A u \in Workers :
              T2[k].flags[u] <=> T[k].flags[u] \/ (u = w /\ k = i)
<1> SUFFICES ASSUME NEW k \in DOMAIN T, NEW u \in Workers
             PROVE  T2[k].flags[u] <=> T[k].flags[u] \/ (u = w /\ k = i)
  OBVIOUS
<1>1. PICK x : x = T[k]
  OBVIOUS
<1>2. x \in TernaryEntry /\ x.flags \in [Workers -> BOOLEAN]
  <2>1. x \in TernaryEntry
    BY <1>1
  <2> QED BY <2>1 DEF TernaryEntry
<1>3. T2 = [T EXCEPT ![i].flags[w] = TRUE]
  BY DEF Flagged
<1>4. CASE k = i
  <2>1. T2[k] = [x EXCEPT !.flags[w] = TRUE]
    BY <1>1, <1>3, <1>4
  <2>2. T2[k].flags = [x.flags EXCEPT ![w] = TRUE]
    BY <1>2, <2>1 DEF TernaryEntry
  <2>3. T2[k].flags[u] = IF u = w THEN TRUE ELSE x.flags[u]
    BY <1>2, <2>2
  <2> QED BY <1>1, <1>4, <2>3
<1>5. CASE k # i
  <2>1. T2[k] = T[k]
    BY <1>3, <1>5
  <2> QED BY <1>5, <2>1
<1> QED BY <1>4, <1>5

\* The flags of worker w go up at its next place, and nothing else happens to a flag.
TernaryGrown(d, e, w, last) ==
    \A i \in DOMAIN e.tDB : \A u \in Workers :
       e.tDB[i].flags[u] <=> \/ i \in DOMAIN d.tDB /\ d.tDB[i].flags[u]
                             \/ u = w /\ i = last + 1

\* A new ternary is in the lists of its literals, and no other list is touched.
TernaryEntered(d, e, c) ==
    \A l \in Lits :
       \/ /\ e.ternaryWatches[l] = d.ternaryWatches[l] 
          /\ Len(e.tDB) > Len(d.tDB) => l \notin c
       \/ /\ l \in c /\ Len(e.tDB) = Len(d.tDB) + 1
          /\ Len(e.ternaryWatches[l]) = Len(d.ternaryWatches[l]) + 1
          /\ e.ternaryWatches[l][Len(d.ternaryWatches[l]) + 1] = Len(d.tDB) + 1

\* Units and binaries are only appended.
LEMMA ShortGrows ==
    ASSUME NEW d \in ClauseDBType, NEW e, Extends(d, e), NEW w,
           e.tDB = d.tDB, e.ternaryWatches = d.ternaryWatches, e.nDB = d.nDB
    PROVE  /\ Grows(d, e, w)
           /\ TernariesListed(d) => TernariesListed(e)
<1>1. Grows(d, e, w)
  BY DEF Grows
<1>2. TernariesListed(d) => TernariesListed(e)
  BY DEF TernariesListed
<1> QED BY <1>1, <1>2

\* Entries of nDB are added, or change a flag, which nobody reads but the owner.
OriginalsKept(d, e) == \A i \in DOMAIN d.nDB : e.nDB[i].original = d.nDB[i].original

LEMMA LongGrows ==
    ASSUME NEW d \in ClauseDBType, NEW e, Extends(d, e), NEW w,
           e.tDB = d.tDB, e.ternaryWatches = d.ternaryWatches, OriginalsKept(d, e)
    PROVE  /\ Grows(d, e, w)
           /\ TernariesListed(d) => TernariesListed(e)
<1>1. Grows(d, e, w)
  BY DEF Grows, OriginalsKept
<1>2. TernariesListed(d) => TernariesListed(e)
  BY DEF TernariesListed
<1> QED BY <1>1, <1>2

LEMMA OriginalsFlagged ==
    ASSUME NEW T \in Seq(NaryEntry), NEW i \in DOMAIN T, NEW w, NEW v,
           NEW T2, Flagged(T2, T, i, w, v)
    PROVE  \A k \in DOMAIN T : T2[k].original = T[k].original
<1> SUFFICES ASSUME NEW k \in DOMAIN T PROVE T2[k].original = T[k].original
  OBVIOUS
<1>1. T2 = [T EXCEPT ![i].flags[w] = v]
  BY DEF Flagged
<1>2. PICK x : x = T[k]
  OBVIOUS
<1>3. x \in NaryEntry
  BY <1>2
<1>4. CASE k = i
  <2>1. T2[k] = [x EXCEPT !.flags[w] = v]
    BY <1>1, <1>2, <1>4
  <2>2. T2[k].original = x.original
    BY <1>3, <2>1 DEF NaryEntry
  <2> QED BY <1>2, <2>2
<1>5. CASE k # i
  BY <1>1, <1>5
<1> QED BY <1>4, <1>5

LEMMA ClearedGrows ==
    ASSUME NEW d \in ClauseDBType, NEW pos \in DOMAIN d.nDB, NEW w,
           NEW e, e = FlagCleared(d, pos, w)
    PROVE  /\ OriginalsKept(d, e) /\ e.tDB = d.tDB
           /\ e.ternaryWatches = d.ternaryWatches /\ e.uDB = d.uDB /\ e.bDB = d.bDB
<1>1. PICK T, T2, v : /\ T = d.nDB /\ v = FALSE
                      /\ T2 = [T EXCEPT ![pos].flags[w] = v]
  OBVIOUS
<1>2. T \in Seq(NaryEntry) /\ pos \in DOMAIN T
  BY <1>1, DbFields
<1>3. \A k \in DOMAIN T : T2[k].original = T[k].original
  <2>1. Flagged(T2, T, pos, w, v)
    BY <1>1 DEF Flagged
  <2> QED BY <1>2, <2>1, OriginalsFlagged
<1>4. e = [d EXCEPT !.nDB[pos].flags[w] = FALSE]
  BY DEF FlagCleared
<1>5. /\ e.nDB = T2 /\ e.tDB = d.tDB
      /\ e.ternaryWatches = d.ternaryWatches /\ e.uDB = d.uDB /\ e.bDB = d.bDB
  BY <1>1, <1>4 DEF ClauseDBType
<1> QED BY <1>1, <1>3, <1>5 DEF OriginalsKept

-----------------------------------------------------------------------------
(* A worker that stores a clause: what it had is done as before, and the new entry *)
(* is to come, or has not been passed.                                            *)

NewUnits(a, b, e) ==
    \A i \in 1..b.lastUnit :
       i \in 1..a.lastUnit \/ UnitOpen(b, e, i) \/ Fixed(b.model, e.uDB[i])

NewBinaries(a, b, e) ==
    \A l \in Lits : \A i \in 1..b.lastBins[l] :
       i \in 1..a.lastBins[l] \/ BinaryOpen(b, e, l, i) \/ ~Passed(b, "binary", -l)

\* The ternary b has taken in, if it is not what a had.
Taken(a, b, i) == i = b.lastTernary /\ b.lastTernary # a.lastTernary

TernaryIsNew(b, e, i) ==
    IsNews(b, 3, i) \/ \A l \in e.tDB[i].lits : ~Passed(b, "ternary", l)

NewTernaries(a, b, d, e, w) ==
    \A i \in DOMAIN e.tDB :
       /\ e.tDB[i].flags[w] => Taken(a, b, i) \/ (i \in DOMAIN d.tDB /\ d.tDB[i].flags[w])
       /\ Taken(a, b, i) => TernaryIsNew(b, e, i)

NewNaries(a, b) ==
    \A i \in DOMAIN b.thcdb : b.thcdb[i].pos # 0 =>
       \/ i \in DOMAIN a.thcdb /\ b.thcdb[i] = a.thcdb[i]
       \/ b.rUIP.size > 3 /\ IsNews(b, b.rUIP.size, i)

NewDone(a, b, d, e, w) ==
    NewUnits(a, b, e) /\ NewBinaries(a, b, e) /\ NewTernaries(a, b, d, e, w)
    /\ NewNaries(a, b)

-----------------------------------------------------------------------------
(* Learning: the lemma is open until it is used. *)

LEMMA TwinsKept ==
    ASSUME NEW a, NEW d \in ClauseDBType, NEW e \in ClauseDBType, NEW w, NEW P,
           WorkerInv(a, d, P), PWorker(a, d, w, P), Grows(d, e, w)
    PROVE  Twins(e, a.lastBins)
<1>1. Counted(a, d) /\ a.lastBins \in [Lits -> Nat]
  BY WorkerParts DEF Core, Typed
<1> QED BY <1>1, BinaryOfOthers DEF PWorker, Done, Lists

\* What an insertion of another kind leaves alone.
LEMMA NoNewBinaries ==
    ASSUME NEW a, NEW b, NEW e, b.lastBins = a.lastBins
    PROVE  NewBinaries(a, b, e)
BY DEF NewBinaries

LEMMA NoNewUnits ==
    ASSUME NEW a, NEW b, NEW e, b.lastUnit = a.lastUnit
    PROVE  NewUnits(a, b, e)
BY DEF NewUnits

LEMMA NoNewTernaries ==
    ASSUME NEW a, NEW b, NEW d, NEW e, NEW w,
           b.lastTernary = a.lastTernary, e.tDB = d.tDB
    PROVE  /\ NewTernaries(a, b, d, e, w)
           /\ FlagsCount(a, d, w) => FlagsCount(b, e, w)
BY DEF NewTernaries, Taken, FlagsCount

LEMMA NoNewNaries ==
    ASSUME NEW a, NEW b, b.thcdb = a.thcdb
    PROVE  NewNaries(a, b) /\ HeldKept(a, b)
BY DEF NewNaries, HeldKept

UnitOf(d, l, last, e) == e = InsertUnit(d, l, FALSE, last)

LEMMA UnitEntered ==
    ASSUME NEW d \in ClauseDBType, NEW l \in Lits, NEW last \in Nat, last <= Len(d.uDB),
           Len(d.uDB) > last => d.uDB[last + 1] = l,
           NEW e, UnitOf(d, l, last, e)
    PROVE  /\ e.uDB[last + 1] = l
           /\ e.tDB = d.tDB /\ e.ternaryWatches = d.ternaryWatches /\ e.nDB = d.nDB
           /\ e.bDB = d.bDB
<1>1. PICK U : U = d.uDB
  OBVIOUS
<1>2. U \in Seq(Lits) /\ Len(U) \in Nat
  BY <1>1, DbFields
<1>5. /\ e.tDB = d.tDB /\ e.ternaryWatches = d.ternaryWatches /\ e.nDB = d.nDB
      /\ e.bDB = d.bDB
  BY DEF UnitOf, InsertUnit, ClauseDBType
<1>3. CASE Len(U) > last
  <2>1. e = d
    BY <1>1, <1>3 DEF UnitOf, InsertUnit, AlreadyInList
  <2> QED BY <1>1, <1>3, <2>1
<1>4. CASE ~(Len(U) > last)
  <2>1. e = [d EXCEPT !.uDB = Append(U, l)]
    BY <1>1, <1>4 DEF UnitOf, InsertUnit, AlreadyInList
  <2>2. e.uDB = Append(U, l)
    BY <2>1 DEF ClauseDBType
  <2>3. Len(U) = last
    BY <1>1, <1>2, <1>4
  <2>4. Append(U, l)[Len(U) + 1] = l
    BY <1>2
  <2> QED BY <1>5, <2>2, <2>3, <2>4
<1> QED BY <1>3, <1>4, <1>5

BinaryOf(d, u, l, last, e) == e = InsertBinary(d, u, l, FALSE, last)

\* The binary {u, l} is the next one of both its lists.
BinaryAt(d, B, u, l) == d.bDB[-u][B[-u] + 1] = l /\ d.bDB[-l][B[-l] + 1] = u

\* What SameAt says of a binary.
BinaryNextOf(d, B, u, l) ==
    /\ B[-u] <= Len(d.bDB[-u]) /\ B[-l] <= Len(d.bDB[-l])
    /\ Len(d.bDB[-u]) > B[-u] <=> Len(d.bDB[-l]) > B[-l]
    /\ Len(d.bDB[-u]) > B[-u] => BinaryAt(d, B, u, l)

LEMMA BinaryEntered ==
    ASSUME NEW d \in ClauseDBType, NEW u \in Lits, NEW l \in Lits, u # l,
           NEW B \in [Lits -> Nat], BinaryNextOf(d, B, u, l),
           NEW last, last = B[-u], NEW e, BinaryOf(d, u, l, last, e)
    PROVE  /\ BinaryAt(e, B, u, l)
           /\ e.tDB = d.tDB /\ e.ternaryWatches = d.ternaryWatches /\ e.nDB = d.nDB
           /\ e.uDB = d.uDB
<1>1. PICK x, y, D : x = -u /\ y = -l /\ D = d.bDB
  OBVIOUS
<1>2. x \in Lits /\ y \in Lits /\ x # y /\ B[x] \in Nat /\ B[y] \in Nat
  BY <1>1, LitFacts DEF Lits
<1>3. /\ D \in [Lits -> Seq(Lits)] /\ D[x] \in Seq(Lits) /\ D[y] \in Seq(Lits)
      /\ Len(D[x]) \in Nat /\ Len(D[y]) \in Nat
  BY <1>1, <1>2, DbFields
<1>4. /\ e.tDB = d.tDB /\ e.ternaryWatches = d.ternaryWatches /\ e.nDB = d.nDB
      /\ e.uDB = d.uDB
  BY DEF BinaryOf, InsertBinary, ClauseDBType
<1>5. CASE Len(D[x]) > last
  <2>1. e = d
    BY <1>1, <1>5 DEF BinaryOf, InsertBinary, AlreadyInList
  <2>2. BinaryAt(d, B, u, l)
    BY <1>1, <1>5 DEF BinaryNextOf
  <2> QED BY <1>4, <2>1, <2>2
<1>6. CASE ~(Len(D[x]) > last)
  <2>1. PICK D2 : D2 = [D EXCEPT ![x] = Append(@, l), ![y] = Append(@, u)]
    OBVIOUS
  <2>2. e.bDB = D2
    <3>1. e = [d EXCEPT !.bDB[x] = Append(@, l), !.bDB[y] = Append(@, u)]
      BY <1>1, <1>6 DEF BinaryOf, InsertBinary, AlreadyInList
    <3> QED BY <1>1, <2>1, <3>1 DEF ClauseDBType
  <2>3. D2[x] = Append(D[x], l) /\ D2[y] = Append(D[y], u)
    BY <1>2, <1>3, <2>1
  <2>4. Len(D[x]) = B[x] /\ Len(D[y]) = B[y]
    <3>1. /\ B[x] <= Len(D[x]) /\ B[y] <= Len(D[y])
          /\ Len(D[x]) > B[x] <=> Len(D[y]) > B[y]
      BY <1>1 DEF BinaryNextOf
    <3> QED BY <1>1, <1>2, <1>3, <1>6, <3>1
  <2>5. /\ Append(D[x], l)[Len(D[x]) + 1] = l
        /\ Append(D[y], u)[Len(D[y]) + 1] = u
    BY <1>3
  <2>6. D2[x][B[x] + 1] = l /\ D2[y][B[y] + 1] = u
    BY <2>3, <2>4, <2>5
  <2>7. BinaryAt(e, B, u, l)
    BY <1>1, <2>2, <2>6 DEF BinaryAt
  <2> QED BY <1>4, <2>7
<1> QED BY <1>5, <1>6

WithinLists(d, B) == \A k \in Lits : B[k] <= Len(d.bDB[k])

\* Of the entries of e there are more in B2 than in B: those of {u, l}.
MoreBinaries(e, B, B2, u, l) ==
    /\ \A k \in Lits : B[k] <= B2[k] /\ B2[k] \in Nat
    /\ \A k \in Lits : \A i \in 1..B2[k] :
          i \in 1..B[k] \/ {-k, e.bDB[k][i]} = {u, l}

TernaryTaken(a, b, d, last, p) ==
    /\ last \in Nat /\ last <= Len(d.tDB) /\ p = last + 1
    /\ a.lastTernary = last /\ b.lastTernary = p

LEMMA OneMoreTernary ==
    ASSUME NEW a, NEW b, NEW d \in ClauseDBType, NEW e \in ClauseDBType,
           NEW w \in Workers, NEW last, NEW p, TernaryTaken(a, b, d, last, p),
           TernaryGrown(d, e, w, last), FlagsCount(a, d, w), TernaryIsNew(b, e, p)
    PROVE  NewTernaries(a, b, d, e, w) /\ FlagsCount(b, e, w)
<1>5. /\ last \in Nat /\ last <= Len(d.tDB) /\ p = last + 1
      /\ a.lastTernary = last /\ b.lastTernary = last + 1
  BY DEF TernaryTaken
<1>1. /\ DOMAIN d.tDB = 1..Len(d.tDB) /\ DOMAIN e.tDB = 1..Len(e.tDB)
      /\ Len(d.tDB) \in Nat /\ Len(e.tDB) \in Nat
  BY DbFields
<1>2. \A i : Taken(a, b, i) <=> i = last + 1
  BY <1>5 DEF Taken
<1>3. NewTernaries(a, b, d, e, w)
  BY <1>2, <1>5 DEF NewTernaries, TernaryGrown
<1>4. FlagsCount(b, e, w)
  <2> SUFFICES ASSUME NEW i \in DOMAIN e.tDB
               PROVE  e.tDB[i].flags[w] <=> i <= b.lastTernary
    BY DEF FlagsCount
  <2>1. e.tDB[i].flags[w] <=> (i \in DOMAIN d.tDB /\ d.tDB[i].flags[w]) \/ i = last + 1
    BY DEF TernaryGrown
  <2>2. i \in DOMAIN d.tDB => (d.tDB[i].flags[w] <=> i <= last)
    BY <1>5 DEF FlagsCount
  <2>3. i \in DOMAIN d.tDB /\ i <= last <=> i <= last
    BY <1>1, <1>5
  <2>4. i <= last \/ i = last + 1 <=> i <= b.lastTernary
    BY <1>1, <1>5
  <2> QED BY <2>1, <2>2, <2>3, <2>4
<1> QED BY <1>3, <1>4

\* The clause stored in thcdb and its lists, from the struct before.
StoredIn(a, c, t) == c = InsertThClause([a EXCEPT !.lastNary = @ + 1], t)

LEMMA ClauseStored ==
    ASSUME NEW a, Typed(a), NEW t, NEW c, StoredIn(a, c, t)
    PROVE  /\ DOMAIN c = Fields /\ c = [f \in Fields |-> c[f]]
           /\ \A f \in Fields \ {"lastNary", "thcdb", "watches"} : c[f] = a[f]
           /\ c.thcdb = Append(a.thcdb, t)
<1>1. PICK c1 : c1 = [a EXCEPT !.lastNary = @ + 1]
  OBVIOUS
<1>2. /\ DOMAIN c1 = Fields /\ c1 = [f \in Fields |-> c1[f]]
      /\ \A f \in Fields \ {"lastNary"} : c1[f] = a[f]
  BY <1>1 DEF Typed, Fields
<1>3. c1.thcdb = a.thcdb
  BY <1>2 DEF Fields
<1>4. c = InsertThClause(c1, t)
  BY <1>1 DEF StoredIn
<1>5. /\ DOMAIN c = Fields /\ c = [f \in Fields |-> c[f]]
      /\ \A f \in Fields \ {"thcdb", "watches"} : c[f] = c1[f]
  BY <1>2, <1>4 DEF InsertThClause
<1>6. c.thcdb = Append(c1.thcdb, t)
  BY <1>2, <1>4 DEF InsertThClause, Fields
<1> QED BY <1>2, <1>3, <1>5, <1>6 DEF Fields

LEMMA AppendedPlaces ==
    ASSUME NEW S, NEW s \in Seq(S), NEW t \in S, NEW s2, s2 = Append(s, t)
    PROVE  /\ DOMAIN s2 = DOMAIN s \cup {Len(s) + 1} /\ s2[Len(s) + 1] = t
           /\ \A i \in DOMAIN s : s2[i] = s[i]
OBVIOUS

NaryStored(a, b, t) ==
    /\ a.thcdb \in Seq(ThClause) /\ t \in ThClause /\ b.thcdb = Append(a.thcdb, t)
    /\ b.pc = "backjump" /\ b.rUIP.size > 3 /\ b.rUIP.ptr = Len(a.thcdb) + 1

LEMMA OneMoreNary ==
    ASSUME NEW a, NEW b, NEW t, NaryStored(a, b, t)
    PROVE  /\ NewNaries(a, b) /\ HeldKept(a, b) /\ b.thcdb[b.rUIP.ptr] = t
<1>1. PICK s, s2 : s = a.thcdb /\ s2 = b.thcdb
  OBVIOUS
<1>2. /\ s \in Seq(ThClause) /\ t \in ThClause /\ s2 = Append(s, t)
      /\ b.rUIP.ptr = Len(s) + 1
  BY <1>1 DEF NaryStored
<1>3. /\ DOMAIN s2 = DOMAIN s \cup {Len(s) + 1} /\ s2[Len(s) + 1] = t
      /\ \A i \in DOMAIN s : s2[i] = s[i]
  BY <1>2, AppendedPlaces
<1>4. IsNews(b, b.rUIP.size, Len(s) + 1)
  BY <1>2 DEF NaryStored, IsNews
<1>5. NewNaries(a, b)
  BY <1>1, <1>3, <1>4 DEF NewNaries, NaryStored
<1>6. HeldKept(a, b)
  BY <1>1, <1>3 DEF HeldKept
<1> QED BY <1>1, <1>2, <1>3, <1>5, <1>6

-----------------------------------------------------------------------------
(* Propagation is complete when the worker has nothing left to hand out *)

AtRest(a) == a.pc \in {"restart", "cleanup", "clean", "decide"}

\* c has a true literal or two that are undefined.
Served(m, c) ==
    \/ \E l \in c : IsTrue(m, l)
    \/ \E x, y \in c : x # y /\ IsUndef(m, x) /\ IsUndef(m, y)

\* Every false literal has been handed out.
LEMMA AllPassed ==
    ASSUME NEW a, NEW d, NEW w, NEW P, WorkerInv(a, d, P), PWorker(a, d, w, P), AtRest(a)
    PROVE  /\ \A k \in Kinds : \A l \in Lits : IsFalse(a.model, l) => Passed(a, k, l)
           /\ FullyPropagated(a.model) /\ a.model \in ModelType /\ TrailConsistent(a.model)
<1>1. a.model \in ModelType /\ TrailConsistent(a.model)
  BY WorkerParts
<1>2. FullyPropagated(a.model)
  BY NotPopping DEF AtRest, PWorker, Lists
<1>3. ~Falling(a)
  BY DEF AtRest, Falling, PoppingNow
<1>4. ASSUME NEW k \in Kinds, NEW l \in Lits, IsFalse(a.model, l)
      PROVE  Passed(a, k, l)
  <2>1. /\ LitHeight(a.model, l) \in Nat /\ LitHeight(a.model, l) < Len(a.model.stack)
        /\ LitDl(a.model, l) <= a.model.decisionLvl
    BY <1>1, <1>4, FalseLits
  <2>2. a.model.last[k] = Len(a.model.stack) - 1
    BY <1>2 DEF FullyPropagated, HasNext
  <2>3. Len(a.model.stack) \in Nat
    BY <1>1 DEF ModelType
  <2>4. LitHeight(a.model, l) <= a.model.last[k]
    BY <2>1, <2>2, <2>3
  <2>5. Limit(a) = a.model.decisionLvl
    BY <1>3 DEF Limit
  <2> QED BY <1>4, <2>1, <2>4, <2>5 DEF Passed
<1> QED BY <1>1, <1>2, <1>4

LEMMA UnassignedLit ==
    ASSUME NEW m \in ModelType, NEW l \in Lits, ~IsTrue(m, l), ~IsFalse(m, l)
    PROVE  IsUndef(m, l)
BY DEF ModelType, Values, IsTrue, IsFalse, IsUndef

LEMMA UnitServed ==
    ASSUME NEW a, NEW d, NEW w, NEW P, WorkerInv(a, d, P), PWorker(a, d, w, P), AtRest(a),
           NEW i \in 1..a.lastUnit
    PROVE  IsTrue(a.model, d.uDB[i])
BY DEF AtRest, PWorker, Done, UnitsFixed, UnitOpen, Fixed

LEMMA BinaryServed ==
    ASSUME NEW a, NEW d \in ClauseDBType, NEW w, NEW P,
           WorkerInv(a, d, P), PWorker(a, d, w, P), AtRest(a),
           NEW l \in Lits, NEW i \in 1..a.lastBins[l]
    PROVE  Served(a.model, {-l, d.bDB[l][i]})
<1>1. PICK o, x : o = d.bDB[l][i] /\ x = -l
  OBVIOUS
<1>2. BinaryDone(a, d) /\ Twins(d, a.lastBins)
  BY DEF PWorker, Done, Lists
<1>3. \A k \in Lits : \A j \in 1..a.lastBins[k] : ~BinaryOpen(a, d, k, j)
  BY DEF AtRest, BinaryOpen, IsNews
<1>4. o \in Lits /\ x \in Lits /\ -o \in Lits /\ -(-o) = o
  <2>1. a.lastBins[l] <= Len(d.bDB[l]) /\ a.lastBins[l] \in Nat
    BY WorkerParts DEF Core, Counted, Typed
  <2>2. d.bDB[l] \in Seq(Lits) /\ Len(d.bDB[l]) \in Nat
    BY DbFields
  <2>3. i \in 1..Len(d.bDB[l])
    BY <2>1, <2>2
  <2>4. o \in Lits
    BY <1>1, <2>2, <2>3
  <2> QED BY <1>1, <2>4, LitFacts
<1>5. PICK n, j : n = -o /\ j \in 1..a.lastBins[n] /\ d.bDB[n][j] = x /\ o # x
  BY <1>1, <1>2 DEF Twins
<1>6. IsFalse(a.model, x) => IsTrue(a.model, o)
  <2> SUFFICES ASSUME IsFalse(a.model, x) PROVE IsTrue(a.model, o)
    OBVIOUS
  <2>1. Passed(a, "binary", x)
    BY <1>4, AllPassed DEF Kinds
  <2> QED BY <1>1, <1>2, <1>3, <2>1 DEF BinaryDone, Rescued
<1>7. IsFalse(a.model, o) => IsTrue(a.model, x)
  <2> SUFFICES ASSUME IsFalse(a.model, o) PROVE IsTrue(a.model, x)
    OBVIOUS
  <2>1. Passed(a, "binary", -n)
    BY <1>4, <1>5, AllPassed DEF Kinds
  <2> QED BY <1>2, <1>3, <1>4, <1>5, <2>1 DEF BinaryDone, Rescued
<1>8. a.model \in ModelType
  BY WorkerParts
<1> QED BY <1>1, <1>4, <1>5, <1>6, <1>7, <1>8, UnassignedLit DEF Served

LEMMA TwoOf ==
    ASSUME NEW c \in Clause, Cardinality(c) > 1 
    PROVE  \E x, y \in c : x # y
BY FirstTwo

LEMMA TernaryServed ==
    ASSUME NEW a, NEW d \in ClauseDBType, NEW w, NEW P,
           WorkerInv(a, d, P), PWorker(a, d, w, P), AtRest(a), TernariesListed(d),
           NEW i \in DOMAIN d.tDB, d.tDB[i].flags[w]
    PROVE  Served(a.model, d.tDB[i].lits)
<1>1. PICK c, S : c = d.tDB[i].lits /\ S = {l \in c : IsFalse(a.model, l)}
  OBVIOUS
<1>2. c \in Clause /\ Cardinality(c) = 3
  <2>1. d.tDB[i] \in TernaryEntry
    BY DbFields, ElementOfSeq
  <2> QED BY <1>1, <2>1 DEF TernaryEntry, TernariesListed
<1>3. \A x, y \in c : ~TernaryOpen(a, d, i, x, y)
  BY DEF AtRest, TernaryOpen, IsNews
<1>4. ASSUME NEW x \in c, NEW y \in c, x # y, IsFalse(a.model, x), IsFalse(a.model, y)
      PROVE  \E z \in c : IsTrue(a.model, z)
  <2>1. x \in Lits /\ y \in Lits
    BY <1>2 DEF Clause
  <2>2. Passed(a, "ternary", x) /\ Passed(a, "ternary", y)
    BY <1>4, <2>1, AllPassed DEF Kinds
  <2>3. TernaryDone(a, d, w)
    BY DEF PWorker, Done
  <2> QED BY <1>1, <1>3, <1>4, <2>2, <2>3 DEF TernaryDone, Rescued
<1>5. SUFFICES ASSUME \A z \in c : ~IsTrue(a.model, z)
               PROVE  \E x, y \in c : x # y /\ IsUndef(a.model, x) /\ IsUndef(a.model, y)
  BY <1>1 DEF Served
<1>6. a.model \in ModelType
  BY WorkerParts
<1>7. \A z \in c \ S : IsUndef(a.model, z)
  BY <1>1, <1>2, <1>5, <1>6, UnassignedLit DEF Clause
<1>8. \E x, y \in c \ S : x # y
  <2>1. CASE S = {}
    BY <1>2, <2>1, TwoOf
  <2>2. CASE S # {}
    <3>1. PICK f \in S : TRUE
      BY <2>2
    <3>2. S = {f} /\ f \in c
      BY <1>1, <1>4, <1>5, <3>1
    <3>3. c \ {f} \in Clause /\ Cardinality(c \ {f}) = 2
      BY <1>2, <3>2, ClauseSize DEF Clause
    <3> QED BY <3>2, <3>3, TwoOf
  <2> QED BY <2>1, <2>2
<1> QED BY <1>7, <1>8

\* Both watched literals are undefined, or one is true.
LEMMA NaryServed ==
    ASSUME NEW a, NEW d \in ClauseDBType, NEW w, NEW P,
           WorkerInv(a, d, P), PWorker(a, d, w, P), AtRest(a),
           NEW i \in DOMAIN a.thcdb, NEW t, t = a.thcdb[i], t.pos # 0
    PROVE  Served(a.model, d.nDB[t.pos].lits)
<1>1. ThGood(t, d)
  BY WorkerParts DEF Core, ThHeld
<1>2. NaryDone(a) /\ a.model \in ModelType
  BY WorkerParts DEF PWorker, Done
<1>3. /\ t.w1 \in Lits /\ t.w2 \in Lits /\ t.w1 # t.w2
      /\ {t.w1, t.w2} \subseteq d.nDB[t.pos].lits
  <2>1. d.nDB[t.pos] \in NaryEntry
    BY <1>1, DbFields, ElementOfSeq DEF ThGood
  <2> QED BY <1>1, <2>1 DEF ThGood, NaryEntry, Clause
<1>4. \A x : ~NaryOpen(a, i, x)
  BY DEF AtRest, NaryOpen, IsNews
<1>5. Guarded(a, i, t.w1, t.w2) /\ Guarded(a, i, t.w2, t.w1)
  BY <1>2 DEF NaryDone
<1>6. /\ IsFalse(a.model, t.w1) => IsTrue(a.model, t.w2)
      /\ IsFalse(a.model, t.w2) => IsTrue(a.model, t.w1)
  BY <1>3, <1>4, <1>5, AllPassed DEF Guarded, Rescued, Kinds
<1> QED BY <1>2, <1>3, <1>6, UnassignedLit DEF Served

-----------------------------------------------------------------------------
(* The cleanup: a clause is left alone, or leaves thcdb *)

DeletingStep(a, b, d, e, i) ==
    /\ a.pc = "clean" /\ b.pc = "clean" /\ b.model = a.model /\ b.result = a.result
    /\ i \in DOMAIN a.thcdb /\ b.thcdb = [a.thcdb EXCEPT ![i].pos = 0]
    /\ Extends(d, e)

\* What stood for an input clause as clause i of thcdb is in force otherwise.
Covered(a, b, d, e, w, i) ==
    LET p == a.thcdb[i].pos
    IN  p # 0 /\ d.nDB[p].original => InForce(b, e, w, d.nDB[p].lits)

LEMMA CleanedThcdb ==
    ASSUME NEW th \in Seq(ThClause), NEW i \in DOMAIN th,
           NEW th2, th2 = [th EXCEPT ![i].pos = 0]
    PROVE  /\ DOMAIN th2 = DOMAIN th /\ th2[i].pos = 0
           /\ \A j \in DOMAIN th : j # i => th2[j] = th[j]
<1>1. PICK t, u : t = th[i] /\ u = [t EXCEPT !.pos = 0]
  OBVIOUS
<1>2. t \in ThClause
  BY <1>1, ElementOfSeq
<1>3. u.pos = 0
  BY <1>1, <1>2 DEF ThClause
<1>4. th2 = [th EXCEPT ![i] = u]
  BY <1>1
<1>5. DOMAIN th2 = DOMAIN th /\ th2[i] = u /\ \A j \in DOMAIN th : j # i => th2[j] = th[j]
  BY <1>4
<1> QED BY <1>3, <1>5

\* What is left of a clause, lits, has been stored: c and d are as they must be.
Covering(a, c, d, w, lits) ==
    \/ \E l \in lits : Fixed(a.model, l)
    \/ \E l \in Lits : \E i \in 1..c.lastBins[l] : {-l, d.bDB[l][i]} \subseteq lits
    \/ \E i \in DOMAIN d.tDB : d.tDB[i].flags[w] /\ d.tDB[i].lits \subseteq lits

ShrinksTo(a, c, d, w, t) ==
    /\ c.pc = "clean" /\ c.model = a.model
    /\ NewUnits(a, c, d) /\ NewBinaries(a, c, d) /\ NewTernaries(a, c, db, d, w)
    /\ Twins(d, c.lastBins) /\ FlagsCount(c, d, w) /\ CountersGrow(a, c)
    /\ FlagsKept(db, d, w) /\ Grows(db, d, w) /\ TernariesListed(d)
    /\ db.nDB[t.pos].original => Covering(a, c, d, w, ThLits(t))

LEMMA SamePassed ==
    ASSUME NEW b, NEW c, b.pc = "clean", c.pc = "clean", b.model = c.model, NEW k, NEW l
    PROVE  Passed(b, k, l) <=> Passed(c, k, l)
BY DEF Passed, Limit, Falling, PoppingNow

\* Deleting the clause moves nothing of what has been stored.
LEMMA DeletedStays ==
    ASSUME NEW a, NEW b, NEW c, NEW d, NEW e, NEW w, NEW t, ShrinksTo(a, c, d, w, t),
           b.pc = "clean", b.model = c.model, b.lastUnit = c.lastUnit,
           b.lastBins = c.lastBins, b.lastTernary = c.lastTernary,
           e.uDB = d.uDB, e.bDB = d.bDB, e.tDB = d.tDB,
           e.ternaryWatches = d.ternaryWatches
    PROVE  /\ NewUnits(a, b, e) /\ NewBinaries(a, b, e) /\ NewTernaries(a, b, db, e, w)
           /\ Twins(e, b.lastBins) /\ FlagsCount(b, e, w) /\ CountersGrow(a, b)
           /\ TernariesListed(e)
<1>1. c.pc = "clean"
  BY DEF ShrinksTo
<1>2. NewUnits(a, b, e)
  BY <1>1 DEF ShrinksTo, NewUnits, UnitOpen
<1>3. NewBinaries(a, b, e)
  BY <1>1, SamePassed DEF ShrinksTo, NewBinaries, BinaryOpen, IsNews
<1>4. NewTernaries(a, b, db, e, w)
  BY <1>1, SamePassed DEF ShrinksTo, NewTernaries, TernaryIsNew, Taken, IsNews
<1>5. Twins(e, b.lastBins) /\ FlagsCount(b, e, w) /\ CountersGrow(a, b)
  BY DEF ShrinksTo, Twins, FlagsCount, CountersGrow
<1>6. TernariesListed(e)
  BY DEF ShrinksTo, TernariesListed
<1> QED BY <1>2, <1>3, <1>4, <1>5, <1>6

\* A literal that is undefined has been passed by nobody.
LEMMA UndefNotPassed ==
    ASSUME NEW a, NEW k, NEW l, IsUndef(a.model, l)
    PROVE  ~Passed(a, k, l)
BY DEF Passed, IsUndef, IsFalse

\* The clauses that are left, in other places.
Compacted(th, aged) ==
    /\ \A n \in DOMAIN aged : \E j \in DOMAIN th :
          /\ th[j].pos # 0 /\ aged[n].pos = th[j].pos
          /\ aged[n].w1 = th[j].w1 /\ aged[n].w2 = th[j].w2
    /\ \A j \in DOMAIN th : th[j].pos # 0 => \E n \in DOMAIN aged : aged[n].pos = th[j].pos

-----------------------------------------------------------------------------
(* The answer 10: the model is complete, and leaves no input clause unsatisfied. *)

LEMMA ServedTrue ==
    ASSUME NEW m, NEW c, Served(m, c), \A l \in c : ~IsUndef(m, l)
    PROVE  \E l \in c : IsTrue(m, l)
BY DEF Served

\* What is in force has a true literal when no variable is free.
LEMMA ForcedTrue ==
    ASSUME NEW a, NEW d \in ClauseDBType, NEW w, NEW P,
           WorkerInv(a, d, P), PWorker(a, d, w, P), AtRest(a), TernariesListed(d),
           Free(a.model) = {}, NEW c \in Clause, InForce(a, d, w, c)
    PROVE  \E l \in c : IsTrue(a.model, l)
<1>1. /\ a.model \in ModelType /\ TrailConsistent(a.model) /\ Typed(a)
      /\ Counted(a, d) /\ ThHeld(a, d)
  BY WorkerParts DEF Core
<1>2. \A l \in c : ~IsUndef(a.model, l)
  <2>1. ASSUME NEW l \in Lits, IsUndef(a.model, l) PROVE FALSE
    <3>1. var(l) \in Vars /\ IsUndefVar(a.model, var(l))
      BY <1>1, <2>1, UndefVar, LitFacts
    <3> QED BY <3>1 DEF Free
  <2> QED BY <2>1 DEF Clause
<1>3. CASE \E l \in c : Fixed(a.model, l)
  BY <1>3 DEF Fixed
<1>4. CASE \E i \in 1..a.lastUnit : d.uDB[i] \in c
  BY <1>4, UnitServed
<1>5. CASE \E l \in Lits : \E i \in 1..a.lastBins[l] : {-l, d.bDB[l][i]} \subseteq c
  <2>1. PICK l \in Lits : \E i \in 1..a.lastBins[l] : {-l, d.bDB[l][i]} \subseteq c
    BY <1>5
  <2>2. PICK i \in 1..a.lastBins[l] : {-l, d.bDB[l][i]} \subseteq c
    BY <2>1
  <2>3. PICK x : x = {-l, d.bDB[l][i]}
    OBVIOUS
  <2>4. Served(a.model, x)
    BY <2>3, BinaryServed
  <2> QED BY <1>2, <2>2, <2>3, <2>4, ServedTrue
<1>6. CASE \E i \in DOMAIN d.tDB : d.tDB[i].flags[w] /\ d.tDB[i].lits \subseteq c
  <2>1. PICK i \in DOMAIN d.tDB : d.tDB[i].flags[w] /\ d.tDB[i].lits \subseteq c
    BY <1>6
  <2>2. PICK x : x = d.tDB[i].lits
    OBVIOUS
  <2>3. Served(a.model, x)
    BY <2>1, <2>2, TernaryServed
  <2> QED BY <1>2, <2>1, <2>2, <2>3, ServedTrue
<1>7. CASE \E i \in DOMAIN a.thcdb : /\ a.thcdb[i].pos # 0
                                     /\ d.nDB[a.thcdb[i].pos].original
                                     /\ d.nDB[a.thcdb[i].pos].lits = c
  <2>1. PICK i \in DOMAIN a.thcdb : a.thcdb[i].pos # 0 /\ d.nDB[a.thcdb[i].pos].lits = c
    BY <1>7
  <2>2. PICK t : t = a.thcdb[i]
    OBVIOUS
  <2>3. Served(a.model, d.nDB[t.pos].lits)
    BY <2>1, <2>2, NaryServed
  <2>4. Served(a.model, c)
    BY <2>1, <2>2, <2>3
  <2> QED BY <1>2, <2>4, ServedTrue
<1> QED BY <1>3, <1>4, <1>5, <1>6, <1>7, Zenon DEF InForce

=============================================================================
