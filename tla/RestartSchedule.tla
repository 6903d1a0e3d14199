--------------------------- MODULE RestartSchedule ---------------------------
(***************************************************************************)
(* The limits of a worker's successive restarts: what the call in          *)
(* azuDICI_restart_if_adequate makes of them, and the Luby sequence.       *)
(***************************************************************************)
EXTENDS Strategy

CONSTANT MaxRestarts \* bound of the run

VARIABLES
    numRestarts,
    currentRestartLimit

vars == <<numRestarts, currentRestartLimit>>

Init ==
    /\ numRestarts = 0
    /\ currentRestartLimit = initialRestartLimit

Restart ==
    /\ numRestarts < MaxRestarts
    /\ numRestarts' = numRestarts + 1
    /\ currentRestartLimit' = nextRestartLimit[currentRestartLimit]

Spec == Init /\ [][Restart]_vars
-----------------------------------------------------------------------------
\* 1, 1, 2, 1, 1, 2, 4, 1, 1, 2, 1, 1, 2, 4, 8, ...
Luby[n \in Nat \ {0}] ==
    IF IsPowerOfTwo(n + 1) THEN (n + 1) \div 2 ELSE Luby[n + 1 - 2^Log2(n)]

\* "Luby restarts" (src/tex/sat.tex:520): the conflicts before the next restart are the
\* multiplier times the next Luby number.
LubyRestarts == currentRestartLimit = lubyNumbersMultiplier * Luby[numRestarts + 1]

=============================================================================
