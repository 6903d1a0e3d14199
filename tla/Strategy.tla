------------------------------- MODULE Strategy ------------------------------
(***************************************************************************)
(* The restart limit (src/src/strategy.c): after how many conflicts a      *)
(* worker restarts.  The other numbers of a strategy are constants of the  *)
(* modules that use them.                                                  *)
(***************************************************************************)
EXTENDS Integers

CONSTANT lubyNumbersMultiplier

ASSUME MultiplierAssumption == lubyNumbersMultiplier \in Nat \ {0}

initialRestartLimit == lubyNumbersMultiplier

\* The exponents that fit in an unsigned int of the model checker.
Exponents == 0..30

IsPowerOfTwo(n) == \E k \in Exponents : 2^k = n
Log2(n) == CHOOSE k \in Exponents : 2^k <= n /\ n < 2^(k + 1)

\* The recursion is that of the Luby sequence, on the number of a restart: but what it
\* is given, and divides by the multiplier on every level, is a limit.  Half the
\* multiplier, for 0, loses its fraction on return.
nextRestartLimit[limit \in Nat] ==
    LET lNumber == limit \div lubyNumbersMultiplier
    IN  IF IsPowerOfTwo(lNumber + 1)
        THEN (lubyNumbersMultiplier * (lNumber + 1)) \div 2
        ELSE nextRestartLimit[lNumber + 1 - 2^Log2(lNumber)]

=============================================================================
