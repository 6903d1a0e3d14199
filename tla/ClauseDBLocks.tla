---------------------------- MODULE ClauseDBLocks ----------------------------
(***************************************************************************)
(* The inserts of src/src/clausedb.c store by store, as several workers    *)
(* run them at once.  Each kind of clause has a lock that an insert holds  *)
(* from beginning to end; every access to a vector takes the vector's own  *)
(* lock (ts_vec.h) for that access and is one step.  The counter of all    *)
(* clauses is under no common lock: its increment is a read and a write.   *)
(*                                                                         *)
(* Every worker brings the same lemmas in the same order, each at its own  *)
(* pace: the assumption of the "hack for same search".                     *)
(***************************************************************************)
EXTENDS ClauseDB

CONSTANTS
    Inputs,             \* the clauses the parser has inserted
    Lemmas,             \* the clauses every worker brings, as sequences
    MaxTernaryClauses,  \* room reserved for tDB
    MaxNaryClauses,     \* room reserved for nDB
    Nobody              \* the owner of a free lock

\* The reserved room is ten and twenty million entries: no run fills it.
ASSUME InsertsAssumption ==
    /\ Inputs \in Seq(Clause)
    /\ Lemmas \in Seq(Seq(Lits) \ {<<>>})
    /\ \A k \in DOMAIN Lemmas : IsInjective(Lemmas[k])
    /\ Nobody \notin Workers
    /\ MaxTernaryClauses \in Nat /\ MaxNaryClauses \in Nat
    /\ Len(Inputs) + Len(Lemmas) <= MaxTernaryClauses
    /\ Len(Inputs) + Len(Lemmas) <= MaxNaryClauses

VARIABLES
    db,    \* the shared database
    num,   \* its counters: the clauses of each kind, and all of them
    lock,  \* for each kind, the worker that is inserting
    vec,   \* of tDB and nDB: the room, and how often realloc has moved them
    ptrs,  \* the addresses of entries that watch lists, reasons and thcdb keep
    wk     \* where each worker is in its inserts

vars == <<db, num, lock, vec, ptrs, wk>>

KindOf(c) == CASE Len(c) = 1 -> "unit" [] Len(c) = 2 -> "binary"
               [] Len(c) = 3 -> "ternary" [] Len(c) > 3 -> "nary"

\* The counters last*Added of a worker: the clauses of a kind, or the binaries of a
\* literal, that were there before it or that it has brought.
Counted(last, c) ==
    CASE Len(c) = 1 -> [last EXCEPT !.unit = @ + 1]
      [] Len(c) = 2 -> [last EXCEPT !.bins[-c[1]] = @ + 1, !.bins[-c[2]] = @ + 1]
      [] Len(c) = 3 -> [last EXCEPT !.ternary = @ + 1]
      [] Len(c) > 3 -> [last EXCEPT !.nary = @ + 1]

\* Mutant: tDB is given room as it grows.
InitVec_Growing == [ternary |-> [room |-> 0, moved |-> 0],
                    nary |-> [room |-> MaxNaryClauses, moved |-> 0]]
InitVec == [ternary |-> [room |-> MaxTernaryClauses, moved |-> 0],
            nary |-> [room |-> MaxNaryClauses, moved |-> 0]]

\* The ternaryWatches of the input, and what azuDICI_init_thcdb keeps of the longer
\* clauses: the address of their literals in nDB.
InputAddresses(input) ==
    {[kind |-> "ternary", pos |-> i, moved |-> 0] : i \in DOMAIN input.tDB}
    \cup {[kind |-> "nary", pos |-> i, moved |-> 0] : i \in DOMAIN input.nDB}

\* Before the threads start: the parser has read the formula and azuDICI_init the
\* sizes of the lists.
Init ==
    LET input == InputDB(Inputs)
        InputsOf(n) == Cardinality({i \in DOMAIN Inputs : Cardinality(Inputs[i]) = n})
        last == [unit |-> Len(input.uDB), bins |-> [l \in Lits |-> Len(input.bDB[l])],
                 ternary |-> Len(input.tDB), nary |-> Len(input.nDB)]
    IN  /\ db = input
        /\ num = [unit |-> InputsOf(1), binary |-> InputsOf(2), ternary |-> InputsOf(3),
                  nary |-> Len(input.nDB), all |-> Len(Inputs) - InputsOf(0)]
        /\ lock = [k \in {"unit", "binary", "ternary", "nary"} |-> Nobody]
        /\ vec = InitVec
        /\ ptrs = InputAddresses(input)
        /\ wk = [w \in Workers |->
                   [pc |-> "idle", done |-> 0, last |-> last, arg |-> last,
                    size |-> 0, towatch |-> {}, read |-> 0]]
-----------------------------------------------------------------------------
At(w, loc) == wk[w].pc = loc
Lemma(w) == Lemmas[wk[w].done + 1]
Kind(w) == KindOf(Lemma(w))

\* The list that is looked at, and the position it is compared with.
ListOf(w) ==
    CASE Kind(w) = "unit" -> db.uDB
      [] Kind(w) = "binary" -> db.bDB[-Lemma(w)[1]]
      [] Kind(w) = "ternary" -> db.tDB
      [] Kind(w) = "nary" -> db.nDB
Position(w) ==
    CASE Kind(w) = "unit" -> wk[w].arg.unit
      [] Kind(w) = "binary" -> wk[w].arg.bins[-Lemma(w)[1]]
      [] Kind(w) = "ternary" -> wk[w].arg.ternary
      [] Kind(w) = "nary" -> wk[w].arg.nary

\* ts_vec_push_back on a full vector: twice the room, somewhere else.
Grown(v, n) ==
    IF n < v.room THEN v ELSE [room |-> IF n = 0 THEN 2 ELSE 2 * n, moved |-> v.moved + 1]

\* ts_vec_ith_ma: the address is good until the vector is moved.
Address(k, pos) == [kind |-> k, pos |-> pos, moved |-> vec[k].moved]

\* The worker counts the clause and calls with the counter's old value.
Call(w) ==
    /\ At(w, "idle")
    /\ wk[w].done < Len(Lemmas)
    /\ wk' = [wk EXCEPT ![w].pc = "locked", ![w].arg = wk[w].last,
                        ![w].last = Counted(@, Lemma(w))]
    /\ UNCHANGED <<db, num, vec, ptrs>>

\* Mutant: an insert does not wait for another's.
Acquire_Unlocked(w) == Call(w) /\ lock' = [lock EXCEPT ![Kind(w)] = w]

Acquire(w) ==
    /\ Call(w)
    /\ lock[Kind(w)] = Nobody
    /\ lock' = [lock EXCEPT ![Kind(w)] = w]

ReadSize(w) ==
    /\ At(w, "locked")
    /\ wk' = [wk EXCEPT
          ![w].size = Len(ListOf(w)),
          ![w].pc = IF AlreadyInList(ListOf(w), FALSE, Position(w)) THEN "found"
                                                                   ELSE "push"]
    /\ UNCHANGED <<db, num, lock, vec, ptrs>>

\* Mutant: a clause is counted whoever brings it.
UseFound_Counted(w) ==
    LET pos == Position(w) + 1
    IN  /\ At(w, "found")
        /\ wk' = [wk EXCEPT ![w].pc = "unlock"]
        /\ num' = [num EXCEPT ![Kind(w)] = @ + 1, !.all = @ + 1]
        /\ CASE Kind(w) = "ternary" -> db' = [db EXCEPT !.tDB[pos].flags[w] = TRUE]
             [] Kind(w) = "nary" -> db' = [db EXCEPT !.nDB[pos].flags[w] = TRUE]
             [] OTHER -> UNCHANGED db
        /\ UNCHANGED <<lock, vec, ptrs>>

\* The lemma is there: the worker sets its flag in the entry and keeps the address.
\* Units and binaries have neither.
UseFound(w) ==
    LET pos == Position(w) + 1
    IN  /\ At(w, "found")
        /\ wk' = [wk EXCEPT ![w].pc = "unlock"]
        /\ CASE Kind(w) = "ternary" -> /\ db' = [db EXCEPT !.tDB[pos].flags[w] = TRUE]
                                       /\ ptrs' = ptrs \cup {Address("ternary", pos)}
             [] Kind(w) = "nary" -> /\ db' = [db EXCEPT !.nDB[pos].flags[w] = TRUE]
                                    /\ ptrs' = ptrs \cup {Address("nary", pos)}
             [] OTHER -> UNCHANGED <<db, ptrs>>
        /\ UNCHANGED <<num, lock, vec>>

PushUnit(w) ==
    /\ At(w, "push") /\ Kind(w) = "unit"
    /\ db' = [db EXCEPT !.uDB = Append(@, Lemma(w)[1])]
    /\ wk' = [wk EXCEPT ![w].pc = "count"]
    /\ UNCHANGED <<num, lock, vec, ptrs>>

\* Two lists, one after the other.
PushBinary(w) ==
    LET c == Lemma(w)
    IN  /\ wk[w].pc \in {"push", "push2"} /\ Kind(w) = "binary"
        /\ \/ /\ At(w, "push")
              /\ db' = [db EXCEPT !.bDB[-c[1]] = Append(@, c[2])]
              /\ wk' = [wk EXCEPT ![w].pc = "push2"]
           \/ /\ At(w, "push2")
              /\ db' = [db EXCEPT !.bDB[-c[2]] = Append(@, c[1])]
              /\ wk' = [wk EXCEPT ![w].pc = "count"]
        /\ UNCHANGED <<num, lock, vec, ptrs>>

PushTernary(w) ==
    /\ At(w, "push") /\ Kind(w) = "ternary"
    /\ db' = [db EXCEPT !.tDB = Append(@, [lits |-> ToSet(Lemma(w)),
                                          flags |-> Flags(FALSE, w)])]
    /\ vec' = [vec EXCEPT !.ternary = Grown(@, Len(db.tDB))]
    /\ wk' = [wk EXCEPT ![w].pc = "watch", ![w].towatch = ToSet(Lemma(w))]
    /\ UNCHANGED <<num, lock, ptrs>>

\* The address of entry listSize goes to the lists of the three literals in turn.
WatchTernary(w) ==
    LET l == Min(wk[w].towatch)
        pos == wk[w].size + 1
    IN  /\ At(w, "watch")
        /\ db' = [db EXCEPT !.ternaryWatches[l] = Append(@, pos)]
        /\ ptrs' = ptrs \cup {Address("ternary", pos)}
        /\ wk' = [wk EXCEPT ![w].towatch = @ \ {l},
                            ![w].pc = IF wk[w].towatch = {l} THEN "count" ELSE "watch"]
        /\ UNCHANGED <<num, lock, vec>>

\* The address is returned, and becomes the lits pointer of an entry of thcdb.
PushNary(w) ==
    /\ At(w, "push") /\ Kind(w) = "nary"
    /\ db' = [db EXCEPT !.nDB = Append(@, [lits |-> ToSet(Lemma(w)),
                                          flags |-> Flags(FALSE, w), original |-> FALSE])]
    /\ vec' = [vec EXCEPT !.nary = Grown(@, Len(db.nDB))]
    /\ ptrs' = ptrs \cup {[kind |-> "nary", pos |-> wk[w].size + 1,
                           moved |-> vec'.nary.moved]}
    /\ wk' = [wk EXCEPT ![w].pc = "count"]
    /\ UNCHANGED <<num, lock>>

\* The counter of the kind, under its lock, and the read of numClauses++.
CountKind(w) ==
    /\ At(w, "count")
    /\ num' = [num EXCEPT ![Kind(w)] = @ + 1]
    /\ wk' = [wk EXCEPT ![w].pc = "store", ![w].read = num.all]
    /\ UNCHANGED <<db, lock, vec, ptrs>>

StoreNumClauses(w) ==
    /\ At(w, "store")
    /\ num' = [num EXCEPT !.all = wk[w].read + 1]
    /\ wk' = [wk EXCEPT ![w].pc = "unlock"]
    /\ UNCHANGED <<db, lock, vec, ptrs>>

\* Mutant: returns with the lock when the clause was there.
Release_NotIfFound(w) ==
    /\ At(w, "unlock")
    /\ lock' = [lock EXCEPT ![Kind(w)] = IF wk[w].size > Position(w) THEN @ ELSE Nobody]
    /\ wk' = [wk EXCEPT ![w].pc = "idle", ![w].done = @ + 1]
    /\ UNCHANGED <<db, num, vec, ptrs>>

Release(w) ==
    /\ At(w, "unlock")
    /\ lock' = [lock EXCEPT ![Kind(w)] = Nobody]
    /\ wk' = [wk EXCEPT ![w].pc = "idle", ![w].done = @ + 1]
    /\ UNCHANGED <<db, num, vec, ptrs>>

Worker(w) ==
    \/ Acquire(w) \/ ReadSize(w) \/ UseFound(w)
    \/ PushUnit(w) \/ PushBinary(w) \/ PushTernary(w) \/ WatchTernary(w) \/ PushNary(w)
    \/ CountKind(w) \/ StoreNumClauses(w) \/ Release(w)

Next == \E w \in Workers : Worker(w)

Spec == Init /\ [][Next]_vars /\ \A w \in Workers : WF_vars(Worker(w))
-----------------------------------------------------------------------------
(* What a worker sees: the units and the binaries of a literal up to its own
   counters; of the ternaries of a literal and of the long clauses those with its
   flag.  In the middle of an insert it looks at nothing: it sees what it saw when
   it called. *)

View(w) ==
    LET last == IF At(w, "idle") THEN wk[w].last ELSE wk[w].arg
        OwnTernary(i) == db.tDB[i].flags[w] /\ (At(w, "idle") \/ i <= last.ternary)
        OwnNary(i) == db.nDB[i].flags[w] /\ (At(w, "idle") \/ i <= last.nary)
        LitsIn(list, entries) == [i \in DOMAIN entries |-> list[entries[i]].lits]
    IN  [units |-> SubSeq(db.uDB, 1, last.unit),
         bins |-> [l \in Lits |-> SubSeq(db.bDB[l], 1, last.bins[l])],
         ternaries |-> [l \in Lits |->
                          LitsIn(db.tDB, SelectSeq(db.ternaryWatches[l], OwnTernary))],
         naries |-> LitsIn(db.nDB, SelectSeq([i \in DOMAIN db.nDB |-> i], OwnNary))]

Private == INSTANCE PrivateDB WITH done <- [w \in Workers |-> wk[w].done],
                                   seen <- [w \in Workers |-> View(w)]

\* Sharing is invisible: whatever half-made inserts of others lie around, each worker
\* sees the inputs and its own lemmas, in its own order, as if it were alone.
AsIfAlone == Private!Spec

\* No insert waits for ever for a lock: every worker brings all its lemmas.
AllBrought == <>(\A w \in Workers : wk[w].done = Len(Lemmas))

\* What is found at the position is the lemma: "we assume each thread learns the next
\* ternary in the same order" (clausedb.c:172, 228, 323, 397), which the inserts check
\* entry by entry in their FOR DEBUG lines and, of a longer clause, by its size
\* (clausedb.c:405).
OwnEntry(w) ==
    LET c == Lemma(w)
        pos == Position(w) + 1
        twin == wk[w].arg.bins[-c[2]] + 1
    IN  CASE Kind(w) = "unit" -> db.uDB[pos] = c[1]
          [] Kind(w) = "binary" -> /\ db.bDB[-c[1]][pos] = c[2]
                                   /\ twin <= Len(db.bDB[-c[2]])
                                   /\ db.bDB[-c[2]][twin] = c[1]
          [] Kind(w) = "ternary" -> db.tDB[pos].lits = ToSet(c)
          [] Kind(w) = "nary" -> db.nDB[pos].lits = ToSet(c)

\* The assertions of the inserts, compiled out of the program: the counter of a kind
\* agrees with its list (clausedb.c:169, 375, 450), a worker never finds its own flag
\* already set (clausedb.c:328, 402), and it finds its own lemma.  Those on the size
\* of the clause that is passed (clausedb.c:165, 214, 313, 387) are what KindOf says.
AssertionsHold ==
    \A w \in Workers :
       /\ wk[w].pc \in {"push", "found"} /\ Kind(w) = "unit" => wk[w].size = num.unit
       /\ At(w, "store") /\ Kind(w) \in {"ternary", "nary"} =>
             wk[w].size + 1 = num[Kind(w)]
       /\ At(w, "found") /\ Kind(w) = "ternary" =>
             ~db.tDB[Position(w) + 1].flags[w]
       /\ At(w, "found") /\ Kind(w) = "nary" =>
             ~db.nDB[Position(w) + 1].flags[w]
       /\ At(w, "found") => OwnEntry(w)

\* The addresses kept outside the vectors' locks stay good: tDB and nDB are not moved
\* ("reserve memory so that references don't change", clausedb.c:71 and 77).
AddressesGood == \A p \in ptrs : p.moved = vec[p.kind].moved

\* The entries of the lists of binaries: two for each clause.
Implications == UNION {{<<l, i>> : i \in DOMAIN db.bDB[l]} : l \in Lits}

\* Whoever brings a clause, and however often it is brought, it is counted once: when
\* nobody inserts a clause of a kind its counter is the number of such clauses in the
\* database, and numClauses, of which increments may be lost between the four locks,
\* never exceeds the four together.
CountersMatch ==
    /\ lock["unit"] = Nobody => num.unit = Len(db.uDB)
    /\ lock["binary"] = Nobody => 2 * num.binary = Cardinality(Implications)
    /\ lock["ternary"] = Nobody => num.ternary = Len(db.tDB)
    /\ lock["nary"] = Nobody => num.nary = Len(db.nDB)
    /\ num.all <= num.unit + num.binary + num.ternary + num.nary

=============================================================================
