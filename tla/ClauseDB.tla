------------------------------ MODULE ClauseDB ------------------------------
(***************************************************************************)
(* The clause database all workers share (src/src/clausedb.c).  Each       *)
(* insert_*_clause runs under a lock of its own and is one operator here,  *)
(* from a database to a database.                                          *)
(*                                                                         *)
(* A clause is the set of its literals: every stored clause of three or    *)
(* more literals is sorted, so the order is that of the integers.          *)
(*   uDB             the units                                             *)
(*   bDB[l]          the literals implied by l, one entry per binary       *)
(*   tDB             ternaries, with a flag per worker that may use it     *)
(*   ternaryWatches  for each literal, the entries of tDB it occurs in     *)
(*   nDB             longer clauses, with flags and their origin           *)
(* Positions in the C vectors start at 0; here an entry is known by its    *)
(* position plus one, and 0 is no entry.                                   *)
(***************************************************************************)
EXTENDS CNF, Sequences, FiniteSets, SequencesExt

CONSTANT Workers \* the worker ids, 0..nworkers-1

ASSUME WorkersAssumption == Workers \subseteq Nat /\ IsFiniteSet(Workers) /\ Workers # {}

TernaryEntry == [lits : Clause, flags : [Workers -> BOOLEAN]]
NaryEntry == [lits : Clause, flags : [Workers -> BOOLEAN], original : BOOLEAN]

ClauseDBType ==
    [uDB : Seq(Lits), bDB : [Lits -> Seq(Lits)], tDB : Seq(TernaryEntry),
     ternaryWatches : [Lits -> Seq(Nat)], nDB : Seq(NaryEntry)]

EmptyDB ==
    [uDB |-> <<>>, bDB |-> [l \in Lits |-> <<>>], tDB |-> <<>>,
     ternaryWatches |-> [l \in Lits |-> <<>>], nDB |-> <<>>]

\* Mutant: lemmas are for everybody at once.
Flags_Everybody(original, w) == [u \in Workers |-> TRUE]

\* Who may use a new clause: every worker an input clause, only its author a lemma.
Flags(original, w) == [u \in Workers |-> original \/ u = w]

\* The "hack for same search": a worker that has inserted `last` lemmas of a kind
\* takes the entry at position `last`, if there is one, for the lemma it brings.
AlreadyInList(list, original, last) == ~original /\ Len(list) > last

\* Mutant: the newest entry is taken for the worker's next one.
EntryFor_Newest(list, original, last) ==
    IF AlreadyInList(list, original, last) THEN Len(list) ELSE Len(list) + 1

\* The entry the inserting worker ends up with, a pointer in the code.
EntryFor(list, original, last) ==
    IF AlreadyInList(list, original, last) THEN last + 1 ELSE Len(list) + 1

InsertUnit(db, l, original, last) ==
    IF AlreadyInList(db.uDB, original, last)
    THEN db
    ELSE [db EXCEPT !.uDB = Append(@, l)]

\* Only the list of the first literal is looked at.
InsertBinary(db, l1, l2, original, last1) ==
    IF AlreadyInList(db.bDB[-l1], original, last1)
    THEN db
    ELSE [db EXCEPT !.bDB[-l1] = Append(@, l2), !.bDB[-l2] = Append(@, l1)]

InsertTernary(db, c, original, w, last) ==
    IF AlreadyInList(db.tDB, original, last)
    THEN [db EXCEPT !.tDB[last + 1].flags[w] = TRUE]
    ELSE [db EXCEPT
            !.tDB = Append(@, [lits |-> c, flags |-> Flags(original, w)]),
            !.ternaryWatches =
               [l \in Lits |-> IF l \in c THEN Append(@[l], Len(db.tDB) + 1)
                                          ELSE @[l]]]

InsertNary(db, c, original, w, last) ==
    IF AlreadyInList(db.nDB, original, last)
    THEN [db EXCEPT !.nDB[last + 1].flags[w] = TRUE]
    ELSE [db EXCEPT !.nDB = Append(@, [lits |-> c, flags |-> Flags(original, w),
                                       original |-> original])]

\* add_input_literal at the end of a clause.  For an empty clause it returns 20,
\* which input_read_clauses does not look at: the clause leaves no trace.
InsertInput(db, c) ==
    LET size == Cardinality(c)
        first == CHOOSE l \in c : TRUE
        other == CHOOSE l \in c : l # first
    IN  CASE size = 0 -> db
          [] size = 1 -> InsertUnit(db, first, TRUE, 0)
          [] size = 2 -> InsertBinary(db, first, other, TRUE, 0)
          [] size = 3 -> InsertTernary(db, c, TRUE, 0, 0)
          [] size > 3 -> InsertNary(db, c, TRUE, 0, 0)

\* What the parser leaves behind after the clauses of a file.
InputDB(clauses) ==
    LET after[n \in 0..Len(clauses)] ==
          IF n = 0 THEN EmptyDB ELSE InsertInput(after[n - 1], clauses[n])
    IN  after[Len(clauses)]
-----------------------------------------------------------------------------
\* The clauses the database holds, whoever may use them.
BinaryClauses(db) ==
    UNION {{{-l, db.bDB[l][i]} : i \in 1..Len(db.bDB[l])} : l \in Lits}

AllClauses(db) ==
    {{db.uDB[i]} : i \in 1..Len(db.uDB)}
    \cup BinaryClauses(db)
    \cup {db.tDB[i].lits : i \in 1..Len(db.tDB)}
    \cup {db.nDB[i].lits : i \in 1..Len(db.nDB)}

=============================================================================
