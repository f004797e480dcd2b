------------------------------- MODULE Powers -------------------------------
(* b ^ n for natural numbers, as a recursive function.                      *)
EXTENDS Integers

Power(b) == LET power[n \in Nat] == IF n = 0 THEN 1 ELSE b * power[n - 1]
            IN power
=============================================================================
