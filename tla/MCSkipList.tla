----------------------------- MODULE MCSkipList -----------------------------
(* Three keys, so that a node is spliced in and out between two others;     *)
(* two values, so that overwriting shows; heights up to MaxLevel - 1.       *)
EXTENDS SkipList

CONSTANTS a, b, c, v1, v2
MCKey == {1, 2, 3}
MCVal == {v1, v2}
MCNode == {a, b, c}
=============================================================================
