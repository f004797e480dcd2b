------------------------ MODULE MCApproxLimitCounter ------------------------
(* Two units, which can each be in the other's way; limits that leave odd   *)
(* shares and a share of one; deltas of one, and of -1 as it arrives in an  *)
(* unsigned parameter.                                                      *)
EXTENDS ApproxLimitCounter

CONSTANTS u1, u2
MCUnit == {u1, u2}
MCW == 6
MCDeltas == {1, MCW - 1}
MCLimits == {3, 4}
=============================================================================
