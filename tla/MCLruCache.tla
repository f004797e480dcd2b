----------------------------- MODULE MCLruCache -----------------------------
(* One key more than a full cache holds, so that every entry is evicted and *)
(* put again; a node for each entry, for the one a failed map insertion     *)
(* leaves, and for the one being made.                                      *)
EXTENDS LruCache

CONSTANTS k1, k2, k3, k4, v1, v2, n1, n2, n3, n4, n5
MCKey == {k1, k2, k3, k4}
MCVal == {v1, v2}
MCNode == {n1, n2, n3, n4, n5}
MCSymmetry == Permutations(MCKey) \cup Permutations(MCVal) \cup Permutations(MCNode)
=============================================================================
