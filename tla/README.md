# AzuDICI in TLA+

AzuDICI is a conflict-driven clause-learning SAT solver. Several workers (POSIX
threads) run the *same* search on one shared clause database. A worker never
waits for another: it inserts its lemmas into the database, and when another
worker has already put a lemma at the position it is about to fill, it takes that
entry for its own. This directory holds a TLA+ model of the solver and of the data
structures under it, the TLC configurations that check it on small instances, and
TLAPS proofs about each part: the trail, the decision heap, the lists of watched
clauses, the concurrent inserts, and the solver as a whole.

## 1. Inventory

| Component | Source (`src/src/`) | State | Operations |
|---|---|---|---|
| Literals | `literal.c`, `var.c` | none | numbering of literals, index into per-literal arrays |
| Model (trail) | `model.c`, `varinfo.h` | `assignment`, `vinfo`, `modelStack`, `decisionLvl`, three cursors `last{2,3,N}propagated` | set true (decision, with a reason), pop, next literal to propagate, queries |
| Clause database | `clausedb.c`, `clause.c` | `uDB`, `bDB`, `tDB`, `ternaryWatches`, `nDB`, counters, a lock per kind | `add_input_literal`, `insert_{unitary,binary,ternary,nary}_clause` |
| Thread-safe vectors | `ts_vec.h`, `kvec.h` | an array, its size, a read-write lock | size, read, address of an element, push, set |
| Solver | `azudici.c` | per worker: its model, `thcdb` and watch lists, the counters `last*Added`, marks, lemma, heap, restart and cleanup limits | `azuDICI_solve` and what it calls |
| Decision heap | `heap.c` | a binary heap of variables by score | insert, remove max, increase score |
| Strategy | `strategy.c` | limits and switches | next restart limit (Luby) |
| Parser | `parser.c` | position in the file | header, clauses |
| main | `main.c`, `worker.h` | the workers and their threads | read, init, create, join, print |
| Statistics | `stats.c` | counters | print |
| Merge sort | `mergeSort.c` | none | called by nothing |

**How they interact.** `main` parses the file into the database, initialises every
worker from it (`azuDICI_init`), creates the threads, and joins them. From then on
the database is the only thing shared. A worker owns its `Model`; propagation walks
the binary list of a literal (up to the number *this* worker knows of), the ternary
list (up to what is there now, entries filtered by a flag per worker) and the
worker's own watch lists of longer clauses, whose literals live in `nDB`. A conflict
is analysed with reasons that are pointers into `tDB` and `thcdb`; the lemma goes
to the database; the model is popped back and the lemma's first literal is set true.
Then come a restart and a cleanup of long clauses, if due, and a decision.

**What is hard.**

* *Order and protocol.* The cursors are moved to the top of the stack whenever a
  marker is popped, and over the marker whenever one is pushed, without looking at
  where they were. Watches are not touched by backjumping. Marks of variables are
  shared by several loops. Cleanup moves clauses to which reasons point.
* *Concurrency.* Lemmas are shared by position ("hack for same search"), which is
  right only if all workers learn the same lemmas in the same order. Anything that
  makes two searches differ breaks it.
* *Liveness.* The restart limit never grows, so that termination rests on each
  conflict bringing a clause that is new.
* *Boundaries.* Empty clauses, empty heap, uninitialised phases, fixed-size vectors.

**What makes each component correct.** *Model*: stack, values, levels and cursors
agree, and no literal is skipped by propagation. *Database*: every clause follows from
the input, and each worker sees the input and its own lemmas, in its own order, as if
the database were its own, whatever half-made inserts of others lie in it.
*Solver*: answers are right, propagation is complete, reasons justify, lemmas
assert, are entailed and new; watches and flags are exact; no input clause is lost;
the search ends. *Watch lists*: a clause is in the lists of the two literals it watches
and in no other, and a walk that relinks clauses under its feet visits them all.
*Heap*: no undefined variable is missing from it, its array and its positions agree,
and it serves the highest first. *Strategy*: the restart limits are the Luby numbers
(they are not).

The full list of the places where this code can go wrong in ways that a test would
hardly reach, each at its line and with the properties that guard it, is under
`hazards` in `PROJECT.json`.

## 2. Modules

```
Literals -- Model -- Trail -- MCTrail
    |         |        `----- TrailProofs
    |         `-- ModelProofs (used by TrailProofs, SharingProofs, WorkerProofs)
    +-- CNF -- ClauseDB -- ClauseDBLocks -- MCClauseDBLocks   implements PrivateDB
    |    |        |              `--------- SharingProofs
    |    |        `-- AzuDICI (with Model, Strategy)
    |    `-- Search      `-- SolverProperties                 implements Search
    |                           |-- SolverTrails -- MCSolver  implements Trail
    |                           `-- SolverInvariant -- PropagationInvariant
    |                                  `-- WorkerProofs -- SolverProofs -- PropagationProofs
    `-- WatchLists -- MCWatchLists                            implements ListWalks
              `------ WatchProofs
DecisionHeap -- MCDecisionHeap                                implements VarQueue
    `---------- HeapProofs
Strategy -- RestartSchedule
```

| Module | Models | State and actions |
|---|---|---|
| `Literals` | `literal.c`, `var.c` | operators |
| `Model` | `model.c` | the `Model` struct as a record `m`, each function an operator from record to record; the cursors keep the C numbering (-1 is "before the bottom") |
| `Trail` | the use `azudici.c` makes of `model.c` | `m`, whether a pop sequence is under way, and a history of what was handed out; actions `SetTrue`, `Decide`, `HandOut`, `StartUnwinding`, `Pop` |
| `CNF` | nothing: what a formula means | operators |
| `ClauseDB` | `clausedb.c` | the database as a record, each `insert_*_clause` an operator |
| `ClauseDBLocks` | `clausedb.c`, `ts_vec.h` | the inserts store by store: the lock of each kind, the counters, the room of `tDB` and `nDB` and the addresses kept of their entries; `wk[w].pc` says where worker `w` is in its insert, and a step is one access under a vector's lock |
| `PrivateDB` | abstract | what each worker sees of the database; one action, `Bring` |
| `DecisionHeap` | `heap.c`, `azuDICI_increaseScore` | `maxHeap`, `heapPositions`, `act`, `maxHeapLast`, the bonus; `RemoveMax`, `InsertElement`, `IncreaseScore`, `InflateBonus`, and a step for each turn of `heap_percolateUp` and of the loop that sinks |
| `VarQueue` | abstract | a set of elements with scores; the highest is served |
| `WatchLists` | `thcdb`, `watches` and their pointers in `azudici.c` | the clauses with two next-pointers each, the heads, and the walk under way: its literal, its clause and the address of the link that led there |
| `ListWalks` | abstract | a sequence of clauses for each literal, and what a walk has still to visit |
| `Strategy`, `RestartSchedule` | `strategy.c` and its call | the recursion on the limit; `numRestarts` and the limit |
| `AzuDICI` | `azudici.c`, `main.c`, the loop of `parser.c` | `ad[w]`, the struct of worker `w`, with `pc` naming the function or loop it is in; `db`; `main`'s progress |
| `Search` | abstract | the problem, the clauses known, the literals each worker has fixed, the answers |
| `SolverProperties` | the properties of `AzuDICI`, and its promise: `Search` | |
| `SolverTrails` | the model of each worker as a `Trail` | |
| `SolverInvariant`, `PropagationInvariant` | the inductive invariants of `AzuDICI` | |
| `MC...` | instances for TLC | |
| `ModelProofs`, `TrailProofs`, `HeapProofs`, `WatchProofs`, `SharingProofs`, `WorkerProofs`, `SolverProofs`, `PropagationProofs` | lemmas and theorems | |

`Model` and `ClauseDB` are the same operators in the small machines (`Trail`,
`ClauseDBLocks`) and in the whole solver (`AzuDICI`): what is proved of the lemmas in
`ModelProofs` is about the very operators the solver's steps are built from.

### Levels of detail

The solver as a whole uses three of its data structures through what they promise; a
module each shows that the code keeps the promise.

| In `AzuDICI` | In the code | Shown by | As |
|---|---|---|---|
| a database insert is one step | a dozen stores under several locks | `ClauseDBLocks` | `AsIfAlone == Private!Spec`: every step is `Bring` of one worker or a stutter, with `seen` mapped to what propagation can reach |
| the lists of watched clauses are sequences | two pointers in each clause | `WatchLists` | `VisitsAll == Walks!Spec`, with `lists` mapped to the clauses reached from each head and `todo` to those reached from the walk's clause |
| the heap is a set, served in any order the instance allows | an array with positions and scores | `DecisionHeap` | `ServesHighest == Queue!Spec`, with `members` mapped to the elements that have a position |

In the other direction `AzuDICI` is shown to be a refinement twice: its every step on a
worker's model is a step of `Trail` or a stutter (`FollowsTrail`), which is what lets the
theorems about `Trail` speak of the solver; and the whole of it implements `Search`
(`KeepsPromise`): it infers only what follows from what is known, and answers only what
it may.

### The pc of a worker and the code

| `pc` | Code |
|---|---|
| `solve`, `units` | start of `azuDICI_solve`, `azuDICI_set_true_units` |
| `propagate`, `binary`, `ternary`, `nary` | `azuDICI_propagate` and its three loops |
| `conflict`, `mark`, `pop` | `azuDICI_conflict_analysis` |
| `lemma`, `shorten` | `azuDICI_lemma_shortening`; at the end of it, `azuDICI_learn_lemma` |
| `backjump` | `azuDICI_backjump_to_dl`, `azuDICI_set_true_uip` |
| `restart`, `restartJump` | `azuDICI_restart_if_adequate` |
| `cleanup`, `cleanupJump`, `clean` | `azuDICI_clause_cleanup_if_adequate` |
| `decide` | `azuDICI_decide` |

### Abstractions

* **Grain.** A step of a worker is one turn of an innermost loop, or one call without a
  loop. A worker touches shared state at most once in a step. A database insert is one
  step: `ClauseDBLocks` shows that its inner steps cannot be told apart from outside.
* **Clauses are sets of literals.** Stored clauses of three or more literals are sorted
  by the code, so that their order is that of the integers; the order of a lemma matters
  in two places only (which literals are watched, the level to jump to), and the model
  chooses there by level as the code does. Input clauses with repeated literals are not
  in the instances.
* **The score of a variable.** Scores are floating-point numbers that conflict analysis
  raises. In `AzuDICI` the heap is a set, exactly the variables the code has in it, and
  each decision serves it in any of the orders `DecisionOrders` lists: a different one
  every time, if TLC likes. `small` allows *every* order. In `DecisionHeap` scores are
  integers with a largest one (`MaxScore`) and an infinity above it: what matters of a
  double there is its order, that sums overflow, and that a division keeps the order and
  leaves an infinite score as it is.
* **Random decisions.** The table of random numbers yields any variable of
  `RandomVars`; the walk from there is the code's. A table entry equal to `RAND_MAX`
  would give `numVars + 1`; that is a listed hazard and not in the instances.
* **Pointers** into `thcdb` are places in it, 0 for NULL; the vector is moved by no
  insert (it is given room for fifteen million). In `WatchLists` the truth of literals is
  left out: a visit has any of its outcomes, and a clause any literal it does not watch
  as its new one, which includes every choice the values leave. Addresses into `tDB` and
  `nDB` are good until `realloc` moves the vector: `ClauseDBLocks` counts the moves.
* **The workers of `ClauseDBLocks`** bring the same lemmas in the same order, each at its
  own pace: the assumption of the code, and what `SameSearch` is about in `AzuDICI`.
* **Uninitialised memory.** `vinfo` is allocated and not written. Of its fields only
  `last_phase` is read before it is written: its first value is any of `InitPhases`, for
  each worker separately. A read past the end of a binary list yields any literal.
* **`dassert` does nothing**, as `DEBUG` is 0.
* Printing, statistics that steer nothing, and timing are left out.

## 3. Runs

| Run | Instance | What it shows |
|---|---|---|
| `trail` | 3 variables, every initial phase, reasons of both shapes; 84 968 states | every sequence of calls on the model that a worker can make, with a conflict possible at any moment: the trail stays consistent and the cursors skip nothing |
| `small` | 1 worker, up to 4 variables, 5 formulas, every initial phase, every order of the heap, random decisions, restart every 2 conflicts, first cleanup after 3 | propagation is complete, the heap holds what it must, marks are exact, level 0 is kept, every run ends; the whole implements `Search` |
| `long` | 1 worker, 6 variables, 2 formulas with clauses of up to six literals, three orders, two initial phases, restart every 3 conflicts, cleanup after 2 | lemmas of every size are entailed, asserting and new; reasons, watches and flags survive backjumps and cleanups that drop, shorten and compact; input clauses stay in force; every run ends; the model is used as `Trail` says |
| `pair` | 2 workers, 6 variables, equal phases and one order, lemmas of two, three and four literals and no units | in every interleaving the entry found at a worker's position is the clause it brings, reasons are good and answers right |
| `locks` | 3 workers, 6 lemmas of all four kinds that share lists, a clause of each kind there before; 142 732 states | each worker sees the database as if alone; the asserts of `clausedb.c` hold; addresses stay good; the counters agree with the lists; nobody waits for ever |
| `heap` | 4 elements, bonus 1 doubled once, overflow above 2, one rescaling; 1 116 308 states | no element is lost or duplicated at any turn of a loop; order and service of the highest until the rescaling, a member always |
| `lists` | 4 variables, 2 clauses and room for one lemma; 217 317 states | the pointers stay lists; a walk that moves clauses visits them all, once and in order |
| `late_start` | 2 workers, 3 variables | violation, see below |
| `phases` | 2 workers, 4 variables | violation |
| `empty_clause` | 1 worker, 2 variables | violation |
| `rescale` | the instance of `heap` | violation |
| `luby` | multiplier 75, 20 restarts | violation |

**Why these bounds are enough.** Three variables in `trail` give three decision levels
and, below a decision, propagated literals on every level; every phase of a pop
sequence and every relative position of the three cursors occurs. The formulas of
`small` cover each kind of clause, with and without a model, and units that contradict
each other only after a chain through every kind. In `long` the limits are so small that
each run restarts and cleans up several times; `Shrinking` is built so that cleanups
shorten clauses of four and more literals to three and two and drop satisfied ones, and
`LongLemmas` so that lemmas of four and five literals are learned. `NoUnits` in `pair`
makes each worker learn lemmas of three different sizes, which may be inserted by either
worker first. The bounds that replace the code's constants are
`lubyNumbersMultiplier`, from which `Strategy` computes every restart limit,
`InitialCleanupLimit`, `ActivityThreshold`, `FractionRandomDecisions`,
`DLBelowWhichRandomDecisions` and `RandomTries`: small values make happen within a few
conflicts what the code's values make happen within hundreds. No counter is capped: the
search itself is finite.

Three workers in `locks` allow one to hold a lock, one to wait for it and one to read;
among the lemmas two binaries share the list of their *second* literal, the one that is
not looked at, and two ternaries share watch lists, so that inserts of different kinds
and of the same kind meet half-made. Four elements in `heap` give a node with two
children, one with one, and a leaf that is not the last; `MaxBonus` and `MaxRescales`
cap the bonus and the rescalings. Three clauses in `lists` are a head, a middle and an
end, and the three may stand in one list or apart, in either order, while the walk is at
any of them; `MaxThClauses` caps `thcdb`. What holds beyond these sizes is proved
(section 5).

**What a run does not reach.** `heap` promises an order only until scores are rescaled,
because the code breaks it there; after that `rescale` shows that it is broken, and only
the places and members are still checked. The late addition of the bonus is in the
model, but the trace of `rescale` goes through the last element: no property singles the
bonus out. `locks` lets the workers bring the same lemmas; what becomes of workers that
bring different ones is the violation of `SameSearch`, not a matter of the locks.
`AssertionsHold` is about the `dassert`s on lists, counters, flags and the entry that is
found; those on the size of the clause passed (`clausedb.c:165, 214, 313, 387`) are what
chooses the insert. Completeness of propagation and the watches are run with one
worker; for several they are proved.

**Fairness.** `AzuDICI!Spec` assumes weak fairness of `main` and of each worker: the
operating system runs every thread again and again. A worker's own step is always
enabled until it is done and it never waits for another worker, so that weak fairness is
all that is needed. `Terminates` is checked under it for one worker. `pair` uses
`SafeSpec`, without fairness. `ClauseDBLocks` assumes weak fairness of each worker too.
There a worker may wait for a lock; weak fairness does not promise that it gets a lock
that others take again and again, but each of them takes it a finite number of times,
which is why `AllBrought` holds with no fairness of the lock itself.

**Deadlock** is checked in every run of the solver: `Exited`, the step of a program whose
`main` has returned, is the only stutter. It is checked in `heap` and `lists` too, whose
callers can always make another call. It is not checked in `trail`, which stops where
the worker does, with every variable true or false and propagated; in `locks`, which
stops when every worker has brought its lemmas (that it stops nowhere else is
`AllBrought`); and in `luby`, which ends with its last restart.

**Mutants.** Next to many definitions stands a mutated form (`Pop_LevelZero`,
`Rewatch_NotUnlinked`, ...): a bug one could plausibly write there. Each property of each
passing run is violated when one of them replaces the definition; `PROJECT.json`
lists which. They are documentation of what each property is good for.

## 4. Where code and comments disagree

* **A thread that starts late** (`late_start`). `azuDICI_set_true_units` reads the size
  of `uDB` when the thread first runs. If another worker has learned a unit by then,
  the late worker sets it true before its first decision, searches differently, and still
  takes the entries at its own positions for its lemmas. `clausedb.c:172`, of units: "We
  assume each thread learns the next ternary in the same order". The run ends in a state in
  which the entry at the worker's position is another clause.
* **Uninitialised phases** (`phases`). Workers whose `last_phase` fields happen to differ
  decide differently. Same assumption, same outcome, with no late start needed.
* **An empty clause** (`empty_clause`). `add_input_literal` returns 20, UNSAT, for it
  (`clausedb.c:127`: "empty clause in original formula"). `input_read_clauses` drops the
  result and the solver answers SAT.
* **Rescaling of scores** (`rescale`). When a score overflows, `heap_normalizeScores`
  divides the scores of all elements but the last (`elem < numElems`, and elements are
  numbered from 1), and the bonus that overflowed is then added to a score already
  divided. The heap fails the program's own `heap_isCorrect`, which nothing calls, and
  need not return "the highest element in the heap" (`heap.c:38`) from then on.
* **Luby restarts** (`luby`). `strategy_get_next_restart_limit` names its argument
  `currentRestartNumber` (`strategy.h:26`) and is given the current *limit*
  (`azudici.c:732`), which it divides by 75 on every level of its recursion: every limit
  is 75. `tex/sat.tex:520` announces "Luby restarts".

`pair` shows the other side: with equal phases and no unit lemma, sharing by position is
right in every interleaving.

## 5. Proofs

All proofs are checked by TLAPS from nothing. The assumptions are those named in the
modules: at least one variable (`NumVarsAssumption`); workers that are finitely many and
at least one (`WorkersAssumption`); formulas of clauses, decision orders without ties and
positive limits (`ParametersAssumption`); reasons that include the empty one
(`ReasonsAssumption`); at least one element, a positive bonus and a positive divisor
(`HeapAssumption`); input clauses of four and more literals whose first two differ, and
lemmas made of literals (`ClausesAssumption`); lemmas without repeated literals, room in
`tDB` and `nDB` for inputs and lemmas, and an owner of free locks that is no worker
(`InsertsAssumption`). TLC evaluates each of them in a run. Two hypotheses are part of
theorems instead: `[]SameSearch`, the assumption the code itself states, and
`NoEmptyClause`; both are explained below.

| Module | Theorem | Establishes |
|---|---|---|
| `ModelProofs` | `LitAsUintIsAnIndex` | `lit_as_uint` is injective and stays inside the per-literal arrays |
| `TrailProofs` | `TypeCorrect` | the fields of a model stay in their domains |
| | `TrailIsConsistent` | stack, values, heights, levels and the decision test agree, always |
| | `CursorsSkipNothing` | whatever is under a cursor has been handed out since it was last set true |
| | `LowerLevelsArePropagated` | only the last level is ever partly propagated, no marker is bare |
| | `MarkersAreNotHandedOut` | propagation is never called with a marker |
| | `LevelZeroIsKept` | a literal of level 0 is never unassigned (an action property) |
| `HeapProofs` | `PlacesAgree` | array and positions agree at every turn of every loop, whatever the scores |
| | `HeapInOrder` | between calls no child is above its parent, until scores are rescaled |
| | `ImplementsQueue` | the heap implements `VarQueue`: every step is a step of the queue or a stutter |
| `WatchProofs` | `ListsStayIntact` | each clause is in exactly the lists of the two literals it watches, and every list ends |
| `SharingProofs` | `SharingInvariant` | the invariant of the inserts, store by store |
| | `AssertionsNeverFail` | the `dassert`s of the inserts hold; the entry found is the worker's own lemma |
| | `AddressesStayGood` | no address of an entry is used after its vector has moved, while the room lasts |
| | `CountersAreRight` | a counter is the number of clauses of its kind whenever the lock is free |
| `SolverProofs` | `SolverInvariant` | the inductive invariant of the solver |
| | `LemmasAreEntailed` | whatever is in the shared database follows from the input |
| | `TrailsAreConsistent`, `ReasonsAreRight` | models agree with themselves; a reason is a clause that implies its literal |
| | `HeapIsComplete`, `MarksAreExact` | no undefined variable is missing from the heap; no mark is left over |
| | `LemmasAssert` | one literal of the lemma is above the level jumped to, the others are false there |
| | `WatchesAreLinked` | each clause is in exactly the lists of its two watches |
| | `FlagsAreExact` | a worker's clauses are the entries of `nDB` with its flag |
| | `FixedLiteralsStay` | a literal of level 0 is never unassigned (an action property) |
| | `LoneSearch`, `LoneWorkerAgrees`, `LoneWorkerIsSound` | one worker meets `SameSearch`, so has all of this unconditionally |
| `PropagationProofs` | `PropagationInvariant` | the inductive invariant of propagation |
| | `PropagationIsComplete`, `WatchesAreSafe` | nothing unit or false is left when `propagate` returns true; watches survive backjumps |
| | `LemmasAreNew` | a lemma contains no clause the worker has |
| | `InputStaysInForce` | no cleanup loses an input clause |
| | `AnswersAreSound` | 10 comes with a model, 20 only without one |
| | `PromiseIsKept` | the solver implements `Search` |
| | `LoneWorkerIsComplete`, `LoneWorkerKeepsPromise` | the same for one worker, without `SameSearch` |

**The trail.** The inductive invariant is `IInv`, the conjunction of the five state
properties; none of them is inductive alone.

* Popping a marker puts the cursors at the new top. That skips nothing only because
  everything *under a marker* has been handed out for every kind
  (`LowerLevelsPropagated`).
* That is preserved by a decision only because a decision is made with all cursors at the
  top and *everything under a cursor* has been handed out (`NothingSkipped`).
* Popping a literal removes it from the history; it must not stand a second time lower
  down on the stack, which follows from `Consistent` (a true literal stands at its
  height and nowhere else).
* A marker is never the next literal, because the cursors of a worker that propagates
  have passed every marker (`MarkersPassed`).

There is one lemma per action, each with a step per conjunct, on top of lemmas of
`ModelProofs` that say what each operator of `model.c` does to each field and that it
keeps the trail consistent (`SetTrueKeepsTrail`, `DecisionKeepsTrail`,
`PopKeepsTrail`). `trail` checks with TLC every conjunct of `IInv`.

**The heap.** While an element is on its way up or down, one place of the array holds a
stale entry. `PositionsMatch` is therefore stated of `Heap` and `Position`, the array and
the positions with the element put into the hole; seen so, a turn of a loop is a *swap*
of two places (`SwapKeepsMatched`), which loses nothing. The order is not inductive
either: `OrderInv` says that it holds everywhere but at the hole, and that the entries
around the hole are in order with each other, so that the swap moves the only exception
(`SwapUp`, `SwapDown`) and the end of the loop removes it. All of this is asked only
while no score has been rescaled. That an insert finds room is a pigeonhole argument on
the positions (`RoomLeft`). Serving the highest needs more than the order of neighbours:
among the places above the root's score there would be a smallest, and its parent is
smaller (`RootIsHighest`, with `HasSmallest`). `QueueStep` maps each action
to one of `VarQueue` or a stutter.

**The lists.** `IsList` says of a head and a next-function that every member is led to by
exactly one link and that nothing leads back, by a ranking that decreases along the
links. The inductive invariant adds that a clause watches two different literals
(`TwoWatches`) and that the walk holds a true address: the link stored at it leads to the
current clause, and it is the head or the link *of the walk's literal* in a clause of the
list (`LinkGood`), which is what makes overwriting it the removal of that clause and of
nothing else. Lists are only ever changed in four ways, each a lemma on `IsList`:
unchanged (`SameList`), a member taken out (`TakeOut`), a member put in at the head, new
or from another list (`PutIn`; its rank becomes the highest), and made from scratch
(`MakeList`, `LinkedIsList`). `ReselectIInv` shows that a move is a `TakeOut` on one
list, a `PutIn` on another and `SameList` on the rest, although the two next-pointers of
a clause belong to two lists at once. That no lasso is possible (a clause never leads to
itself, `NeverToItself`) is needed for the two stores of a move not to hit the same
clause.

**The inserts.** `LocksInv` says what the lock of a kind protects. Its holder knows how
long the list is, because nobody else makes it longer (`Holds`, `Sound`); a list is one
longer than its counter exactly while an insert has pushed and not counted (`Balanced`);
a worker has counted no more than the input and its own lemmas (`Modest`), and inserts
only where its count ends, which keeps the vectors in the room reserved for them
(`NothingMoved`); what was read of `numClauses` leaves room for the clause just counted
(`CountsFit`); and a worker's flag is in no entry it has not come to (`OwnFlags`). That
the entry *found* is the worker's own lemma needs more, since only its position is looked
at: `OrderInv` says that every list holds the lemmas of its kind in the order in which
they are brought, up to the worker that is furthest, and that a worker's counter says how
many of them it has brought itself. The lists of binaries are the delicate part, as a
binary is in two of them and only the first is looked at: between its two pushes the
lists are one apart, and the lock of the kind is what keeps that from anybody else who
inserts. `HalvesInv` counts their entries: two for each clause counted, and up to two more
for the one being inserted.
The initial state is a fold over the input, a recursive function about which induction
over data would be needed; instead, among the prefixes of the input for which a fact
failed there would be a shortest (`HasSmallest`).

**The solver.** The properties are proved for every formula, number of workers, order of
the heap, phase and limit, from `[]SameSearch`. That is what the comments of
`clausedb.c` (172, 228, 323, 397) assume of the threads and what the code cannot ensure
(`late_start`, `phases`); without it a worker takes somebody else's clause for its lemma
and nothing else could hold. It is an assumption about the *positions* only, and it costs
nothing where it is met by itself: `LoneWorkerAgrees` proves it for one worker, whose
counters never fall behind the lists, and `LoneWorkerIsSound` and the other two theorems
of that name are free of it.

`IInv` (`SolverInvariant`) is `MainInv`, `DbInv` of the database and `WorkerInv` of each
worker: types, clauses that follow from the input, counters within the lists, the trail
with its reasons, marks, watches, and what is known at each `pc` of the loop it stands
for. Its parts are stated of a worker's struct and of a database, not of variables, so
that a step of one worker keeps them for another as soon as the database has only grown.
`SameSearch` is needed where an insert finds an entry. That lemmas are
entailed is an invariant of the analysis: the clause being built follows from the input,
is false, and each resolution keeps that. The shortening drops a literal whose reasons it
has followed through literals that are not in the lemma: an assignment that satisfies the
input but not what is left would contradict some literal of the closed set that
`Redundant` exhibits, and the lowest of these has a reason that it violates
(`RedundantDropped`).

`PInv` (`PropagationInvariant`) is what makes propagation complete. A literal is `Passed`
in a kind of clause when its cursor has gone over it. For each clause of that kind a
passed false literal is `Rescued` by a true one of no higher level, or the clause is
still to come in a list being walked, or it is the lemma just learned (`BinaryOpen`,
`TernaryOpen`, `NaryOpen`). Levels are what survives a backjump: a literal and its rescuer of no higher level go
together or not at all. The literals of the last level count for nothing while they are
being popped (`Limit`), which is how a conflict in the middle of a list is left behind.
With it a conflict at a level without decisions refutes the input, a lemma cannot contain
a clause that was there (it would have been false or unit), and a cleanup, which starts
at level 0 with propagation complete, meets clauses with a true literal or two undefined
ones, so that what it shortens is still a clause and never empty.

`FInv` keeps `thcdb` and the flags of `nDB` in step: the places a worker holds are
different entries, not beyond what it has counted, and they are those with its flag. A
lemma comes in at the place after the last one counted, whose flag is not yet set.

`NoEmptyClause` stands in the theorems about the input as a whole: an empty clause is
lost by the parser (`empty_clause`), after which the promise to the user cannot be kept.

*Refinement.* `PromiseIsKept` maps each step to one of `Search` or to a stutter: inserts
and propagation at level 0 to `Infer`, the return of 10 and of 20 to its answers, whose
guards are the two invariants, reading a clause to the growth of the problem, and
everything else, creating and joining the threads included, to steps in which nothing
`Search` speaks of changes. `FixedLiteralsStay` is what makes a worker's fixed literals
only grow there.

**Only model-checked.** `TypeOK` of the solver (the restart limit is the value of a
recursive function). That it implements `Trail` (`FollowsTrail`). `AsIfAlone`, whose
views are `SelectSeq`s, and `VisitsAll`, where `Reached` follows the links recursively:
about recursive definitions in general the prover can show nothing. That
`nextRestartLimit` is constant, for the same reason. Termination and `AllBrought`, since
liveness under fairness is beyond the prover. That workers with equal phases and no unit
lemma make the same search (`pair`).

## 6. Not modelled, and why

* In the cleanup of a clause, what the code would do with an empty rest (store it as a
  ternary) or with a false unit (return at `azudici.c:638-640`): with propagation
  complete at level 0 neither is reached.
* The characters of the input file, option parsing, printing, statistics: they steer
  nothing of the search, and parsing is modelled a clause at a time.
* The bytes behind the entries of a vector: `ternaryWatches` is given room counted in
  literals for what it holds in pointers (`clausedb.c:88`), a listed hazard.
* What nothing calls: `mergeSort.c`; `heap_consultMax`, `heap_addNewElement` and the
  resets of the heap; pop and set of the thread-safe vectors; `uint_as_lit`, used only
  with `decideOverLits`, which no strategy sets.
* The limits of the pre-allocated vectors (ten to twenty million entries) and of the
  table of random numbers: out of reach of any bound TLC can explore. `ClauseDBLocks`
  assumes the room is not exhausted (`InsertsAssumption`).
* Input clauses with repeated literals: clauses are sets, and `ClausesAssumption` asks
  for two different literals to watch. The code stores them as they come; a listed
  hazard.

## 7. Plan

Done, in this order: `Literals`, `Model`, `Trail`, `ClauseDB`, `AzuDICI`, their runs and
the proofs about the trail; `ClauseDBLocks` with `PrivateDB`, `DecisionHeap` with
`VarQueue`, `Strategy`, `Search`, and `WatchLists` with `ListWalks`; then the proofs about
heap and lists, the inserts, and the solver: its invariants, its properties and its
refinement of `Search`. Left:

1. A run of `WatchLists` on input clauses that repeat a literal, which the code does not
   exclude: a clause then has both its links in one list.
2. `SameSearch` itself as a theorem, for workers with equal phases and no unit to learn:
   a proof that two workers at the same point of the search have equal structs.
3. `FollowsTrail` as a theorem: most of what its steps need is in `IInv` and `PInv`.
