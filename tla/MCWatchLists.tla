---------------------------- MODULE MCWatchLists -----------------------------
(* A small thcdb: two clauses of the input, and room for one lemma more. *)
EXTENDS WatchLists

MCInputClauses == <<<<1, 2, 3, 4>>, <<1, 2, 3, 4>>>>
MCLemmas == {{1, 2, 3, 4}}

=============================================================================
