------------------------------- MODULE Binary -------------------------------
(***************************************************************************)
(* The bits of a number, as the masks and shifts of the code see them.     *)
(***************************************************************************)
EXTENDS Integers

\* A one shifted left k times.
Pow2[k \in Nat] == IF k = 0 THEN 1 ELSE 2 * Pow2[k - 1]

BitOf(n, k) == (n \div Pow2[k]) % 2

\* The number of n bits, of which those at the positions ones are set, as a loop
\* over the bits puts it together.
Number(ones, n) ==
    LET data[k \in 0..n] ==
            IF k = 0 THEN 0 ELSE data[k - 1] + (IF k - 1 \in ones THEN Pow2[k - 1] ELSE 0)
    IN data[n]
=============================================================================
