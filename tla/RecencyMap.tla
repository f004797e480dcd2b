----------------------------- MODULE RecencyMap -----------------------------
(***************************************************************************)
(* What a least recently used cache promises: it is a map of keys to the   *)
(* values put last, which knows in which order its keys were used, and a   *)
(* put() of a new key into a map of Capacity keys drops the key used least *)
(* recently.  A put() that throws stores nothing, though it may have       *)
(* dropped a key already.                                                  *)
(*                                                                         *)
(* A put() that throws while it makes its map entry leaves a trace, and    *)
(* from then on until clear() a put() of a new key into a full map may     *)
(* drop any one key, or none.                                              *)
(***************************************************************************)
EXTENDS Integers, FiniteSets

CONSTANTS Key, Val, None, Capacity

VARIABLES
    content,   \* the value of each key held
    newer,     \* the pairs of keys of which the first was used after the second
    failed,    \* how many map entries could not be made since the last clear()
    last       \* the last call: its kind, key and answer

vars == <<content, newer, failed, last>>

Outcome(op, k, v) == [op |-> op, key |-> k, val |-> v]

Held == DOMAIN content

Nothing == [k \in {} |-> None]

Init == content = Nothing /\ newer = {} /\ failed = 0 /\ last = None

\* The order among the keys of S.
Among(S) == {pair \in newer : pair[1] \in S /\ pair[2] \in S}

\* The order of the keys of S and k once k is used.
Used(k, S) == Among(S \ {k}) \cup {<<k, j>> : j \in S \ {k}}

Get(k) ==
    /\ newer' = IF k \in Held THEN Used(k, Held) ELSE newer
    /\ last' = Outcome("get", k, IF k \in Held THEN content[k] ELSE None)
    /\ UNCHANGED <<content, failed>>

Oldest == {k \in Held : \A j \in Held \ {k} : <<j, k>> \in newer}

\* Which of the keys held may be left when room was made for another.
Kept == IF Cardinality(Held) < Capacity THEN {Held}
        ELSE IF failed = 0 THEN {Held \ {k} : k \in Oldest}
        ELSE {Held} \cup {Held \ {k} : k \in Held}

Put(k, v) ==
    /\ \E rest \in IF k \in Held THEN {Held} ELSE Kept :
          /\ content' = [j \in rest \cup {k} |-> IF j = k THEN v ELSE content[j]]
          /\ newer' = Used(k, rest)
    /\ last' = Outcome("put", k, v)
    /\ UNCHANGED failed

PutThrows(k) ==
    /\ \E rest \in IF k \in Held THEN {Held} ELSE Kept :
          /\ content' = [j \in rest |-> content[j]]
          /\ newer' = Among(rest)
    /\ last' = Outcome("threw", k, None)
    /\ failed' \in {failed} \cup (IF k \in Held THEN {} ELSE {failed + 1})

Clear == /\ content' = Nothing /\ newer' = {} /\ failed' = 0
         /\ last' = [op |-> "clear"]

Next == \/ \E k \in Key : Get(k) \/ PutThrows(k)
        \/ \E k \in Key, v \in Val : Put(k, v)
        \/ Clear

Spec == Init /\ [][Next]_vars
=============================================================================
