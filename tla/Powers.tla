------------------------------- MODULE Powers -------------------------------
(***************************************************************************)
(* The powers of a natural number, as a recursive function: unlike b^k, it    *)
(* can be reasoned about for every k.                                        *)
(***************************************************************************)
EXTENDS Integers

Power(b) == LET p[k \in Nat] == IF k = 0 THEN 1 ELSE b * p[k - 1] IN p

Bit(n) == Power(2)[n]   \* 1ULL << n
=============================================================================
