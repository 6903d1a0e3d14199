--------------------------- MODULE MCClauseDBLocks ---------------------------
(* Three workers that bring lemmas of every kind to a small database. *)
EXTENDS ClauseDBLocks

\* One clause of each kind is there before.
MCInputs == <<{-4}, {1, 2}, {1, -2, 3}, {1, 2, 3, 4}>>

\* Two binaries that share the list of their second literal, two ternaries that share
\* watch lists, a longer clause and a unit.
MCLemmas == <<<<-1, 3>>, <<2, 3, -1>>, <<2, 3>>, <<-3, 1, 2, 4>>, <<3>>, <<-2, 3, 4>>>>

MCWorkers == {0, 1, 2}

=============================================================================
