------------------------------ MODULE MapCalls ------------------------------
(* The calls an ordered map serves and the outcomes they have.              *)
EXTENDS Integers

CONSTANTS Key,      \* the keys, as ranked by key_compare
          Val,      \* the mapped values
          Default,  \* mapped_type{}
          None      \* "no such element": end(), or false

ASSUME MapAssumption == /\ Key \subseteq Int
                        /\ Default \in Val
                        /\ None \notin Key \cup Val

Calls == [op : {"insert"}, key : Key, val : Val]
           \cup [op : {"subscript", "erase", "find", "lower_bound",
                       "upper_bound", "first_bigger_equal", "first_bigger"},
                 key : Key, val : {None}]
           \cup [op : {"last", "clear"}, key : {None}, val : {None}]

NoCall == [op |-> "none", key |-> None, val |-> None]

\* The outcome of a call: not there yet, an answer, or an exception.
Pending    == [is |-> "pending", of |-> None]
Threw      == [is |-> "threw", of |-> None]
Answered(v) == [is |-> "answer", of |-> v]
Outcomes == [is : {"pending", "threw", "answer"}, of : Key \cup Val \cup {None}]
=============================================================================
