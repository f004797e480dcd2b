------------------------------ MODULE MathExt ------------------------------
(***************************************************************************)
(* include/toolpex/math_ext.h, and the levels skip_list makes of it        *)
(* (skip_list.h): the greatest level it suggests for a number of elements, *)
(* and the level that it gives to a node.  Numbers of type size_t are      *)
(* modulo SizeModulus.                                                     *)
(***************************************************************************)
EXTENDS Integers, Powers, Question

CONSTANTS MaxNumber,     \* bound: of the numbers asked about
          MaxTails,      \* bound: how often a coin shows tails in a row
          SizeModulus

log2[n \in 0 .. MaxNumber] == IF n <= 1 THEN 0 ELSE log2[n \div 2] + 1

MathAssumption == /\ MaxNumber \in Nat
                  /\ MaxTails \in Nat /\ MaxTails >= log2[MaxNumber]
                  /\ SizeModulus \in Nat /\ SizeModulus > MaxNumber

\* And[i][j] is i & j.
And[i \in 0 .. MaxNumber] ==
    [j \in 0 .. MaxNumber |->
        IF i = 0 \/ j = 0 THEN 0
        ELSE (i % 2) * (j % 2) + 2 * And[i \div 2][j \div 2]]

is_even(i) == i % 2 = 0
is_power_of_2(i) == i > 0 /\ And[i][i - 1] = 0

skip_list_suggested_max_level(approx_max_size) == log2[approx_max_size]

\* Mutant of Divisor: the greatest level is given to nodes as well.
MutantDivisorWhole(max_level) == max_level

\* What random_level() divides by, and its answer after some tails.
Divisor(max_level) == (max_level - 1) % SizeModulus
random_level(tails, max_level) == (tails % Divisor(max_level)) + 1

Questions == [about : {"number"}, n : 0 .. MaxNumber]

-----------------------------------------------------------------------------
(* Properties.                                                             *)

\* log2() is the floor of the logarithm, and the bit trick of is_power_of_2()
\* finds the numbers for which it is the logarithm.
LogarithmRight ==
    About("number") =>
        LET n == question.n IN
        /\ n > 0 => Power(2)[log2[n]] <= n /\ n < Power(2)[log2[n] + 1]
        /\ is_power_of_2(n) <=> n > 0 /\ n = Power(2)[log2[n]]
        /\ is_power_of_2(n) /\ n > 1 => is_even(n)

\* From four elements on, a list with the suggested greatest level gives its
\* nodes every level below that and no other, without dividing by zero.
SuggestionUsable ==
    About("number") /\ question.n >= 4 =>
        LET max_level == skip_list_suggested_max_level(question.n) IN
        /\ Divisor(max_level) # 0
        /\ {random_level(t, max_level) : t \in 0 .. MaxTails}
               = 1 .. max_level - 1

\* The levels that a list is advised to have are levels it can have.
LevelsRight == LogarithmRight /\ SuggestionUsable
=============================================================================
