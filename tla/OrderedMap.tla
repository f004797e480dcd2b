----------------------------- MODULE OrderedMap -----------------------------
(***************************************************************************)
(* What an ordered map promises: a partial function from keys to values,   *)
(* and answers about it that only depend on that function.  One client     *)
(* makes one call at a time; an insertion or an erasure may also throw,    *)
(* and then leaves the map as it was.                                      *)
(***************************************************************************)
EXTENDS MapCalls

VARIABLES content,  \* the mapping, a function on the keys present
          call,     \* the call being served: an op, a key and a value
          result    \* its outcome

vars == <<content, call, result>>

Present == DOMAIN content

\* The greatest and the least key of a set, if there is one.
Greatest(S) == IF S = {} THEN None ELSE CHOOSE k \in S : \A j \in S : j <= k
Least(S)    == IF S = {} THEN None ELSE CHOOSE k \in S : \A j \in S : k <= j

Init == /\ content = [k \in {} |-> Default]
        /\ call = NoCall
        /\ result = Pending

Ask(c) == /\ call = NoCall
          /\ c.op = "last" => Present # {}
          /\ call' = c
          /\ UNCHANGED <<content, result>>

Serving(op) == call.op = op /\ result = Pending /\ UNCHANGED call

With(k, v) == [j \in Present \cup {k} |-> IF j = k THEN v ELSE content[j]]
Without(k) == [j \in Present \ {k} |-> content[j]]

Insert == /\ Serving("insert")
          /\ content' = With(call.key, call.val)
          /\ result' = Answered(call.key)

Subscript == /\ Serving("subscript")
             /\ content' = IF call.key \in Present THEN content
                                                   ELSE With(call.key, Default)
             /\ result' = Answered(call.key)

\* Memory ran out.
Throw == /\ Serving("insert") \/ Serving("erase")
         /\ result' = Threw
         /\ UNCHANGED content

Erase == /\ Serving("erase")
         /\ content' = Without(call.key)
         /\ result' = Answered(IF call.key \in Present THEN content[call.key]
                                                      ELSE None)

Clear == /\ Serving("clear")
         /\ content' = [k \in {} |-> Default]
         /\ result' = Answered(None)

Query(op, answer) == /\ Serving(op)
                     /\ result' = Answered(answer)
                     /\ UNCHANGED content

Below(k) == {j \in Present : j < k}
Above(k) == {j \in Present : j > k}
At(k) == Present \cap {k}

Find == Query("find", Greatest(At(call.key)))
Last == Query("last", Greatest(Present))
LastLessEqual == Query("lower_bound", Greatest(At(call.key) \cup Below(call.key)))
LastLess == Query("upper_bound", Greatest(Below(call.key)))
FirstBiggerEqual ==
    Query("first_bigger_equal", Least(At(call.key) \cup Above(call.key)))
FirstBigger == Query("first_bigger", Least(Above(call.key)))

Return == /\ result # Pending
          /\ call' = NoCall
          /\ result' = Pending
          /\ UNCHANGED content

Next == \/ \E c \in Calls : Ask(c)
        \/ Insert \/ Subscript \/ Throw \/ Erase \/ Clear
        \/ Find \/ Last \/ LastLessEqual \/ LastLess
        \/ FirstBiggerEqual \/ FirstBigger
        \/ Return

Spec == Init /\ [][Next]_vars
=============================================================================
