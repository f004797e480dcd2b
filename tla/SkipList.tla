------------------------------ MODULE SkipList ------------------------------
(***************************************************************************)
(* toolpex::skip_list (include/toolpex/skip_list.h): an ordered map kept   *)
(* as sorted chains, one per level, that share their nodes.  One client    *)
(* makes one call at a time; a call walks the chains step by step, from    *)
(* the top level down, then changes them or answers.                       *)
(*                                                                         *)
(* Memory may run out wherever the code allocates: for the vector update,  *)
(* for the new node's value, and for the new node's vector of pointers.    *)
(* The first two throw; the third happens in a noexcept constructor, and   *)
(* operator[] is noexcept as a whole, so those terminate the program.      *)
(***************************************************************************)
EXTENDS MapCalls, FiniteSets

CONSTANTS
    Node,                      \* the addresses nodes may have
    Head, End,                 \* head_node_ptr() and end_node_ptr()
    Null,                      \* nullptr
    MaxLevel                   \* max_level()

\* random_level() takes a remainder by max_level() - 1.
ASSUME SkipListAssumption ==
    /\ MaxLevel \in Nat /\ MaxLevel >= 2
    /\ Head # End /\ Head # Null /\ End # Null
    /\ {Head, End, Null} \cap Node = {}

Levels == 0 .. MaxLevel - 1

VARIABLES
    nodes,         \* the nodes of the list
    keyOf, valOf,  \* value_ptr()->first and ->second of each node
    forward,       \* m_forward_ptrs of each node and of the head
    m_size, m_level,
    pc,            \* where the call being served is
    call, result,  \* as in OrderedMap
    x, l, update,  \* left_nearest's variables
    new_level, old_level    \* add_node_to_list's

list == <<nodes, keyOf, valOf, forward, m_size, m_level>>
locals == <<x, l, update, new_level, old_level>>
vars == <<list, pc, call, result, locals>>

NoPointers == [i \in Levels |-> Null]
AllEnd == [i \in Levels |-> End]
NoUpdate == NoPointers

Init == /\ nodes = {}
        /\ keyOf = [n \in Node |-> None]
        /\ valOf = [n \in Node |-> None]
        /\ forward = [n \in Node \cup {Head} |->
                         IF n = Head THEN AllEnd ELSE NoPointers]
        /\ m_size = 0
        /\ m_level = 1
        /\ pc = "idle"
        /\ call = NoCall
        /\ result = Pending
        /\ x = Head /\ l = -1 /\ update = NoUpdate
        /\ new_level = 0 /\ old_level = 0

Next0(n) == forward[n][0]

-----------------------------------------------------------------------------
(* Entering a call and searching.                                          *)

\* back() and last() are for a list with elements.
Ask(c) == /\ pc = "idle"
          /\ c.op = "last" => m_size > 0
          /\ call' = c
          /\ pc' = "start"
          /\ UNCHANGED <<list, result, locals>>

Updates == {"insert", "subscript", "erase"}

StartSearch == /\ pc = "start"
               /\ call.op # "clear"
               /\ x' = Head
               /\ l' = m_level - 1
               /\ pc' = "search"
               /\ UNCHANGED <<list, call, result, update, new_level, old_level>>

\* Mutant of GoesRight: the search goes past the key itself.
MutantGoesTooFar == /\ forward[x][l] \in Node
                    /\ call.op # "last" => keyOf[forward[x][l]] <= call.key

\* The loop condition: left_nearest stops before the first key that is not
\* less, right_most_node before the end sentinel.
GoesRight == /\ forward[x][l] \in Node
             /\ call.op # "last" => keyOf[forward[x][l]] < call.key

\* Mutant of MoveRight: the step is always taken from the head.
MutantMoveRightFromHead ==
    /\ pc = "search" /\ l >= 0
    /\ GoesRight
    /\ x' = forward[Head][l]
    /\ UNCHANGED <<list, pc, call, result, l, update, new_level, old_level>>

MoveRight == /\ pc = "search" /\ l >= 0
             /\ GoesRight
             /\ x' = forward[x][l]
             /\ UNCHANGED <<list, pc, call, result, l, update, new_level,
                            old_level>>

MoveDown == /\ pc = "search" /\ l >= 0
            /\ ~GoesRight
            /\ l' = l - 1
            /\ update' = IF call.op \in Updates
                         THEN [update EXCEPT ![l] = x] ELSE update
            /\ UNCHANGED <<list, pc, call, result, x, new_level, old_level>>

Arrived == pc = "search" /\ l < 0

\* The element after x has the key that was searched.
Hit == Next0(x) \in Node /\ keyOf[Next0(x)] = call.key

Finish(r) == /\ result' = r
             /\ pc' = "done"
             /\ UNCHANGED <<call, locals>>

Terminate == /\ pc' = "terminated"
             /\ UNCHANGED <<call, result, locals>>

-----------------------------------------------------------------------------
(* Queries.                                                                *)

\* The key an iterator points to.
KeyAt(n) == IF n \in Node THEN keyOf[n] ELSE None

\* Mutant of Answer: find_first_bigger answers the equal element.
MutantAnswerEqual ==
    CASE call.op = "find"               -> IF Hit THEN call.key ELSE None
      [] call.op = "lower_bound"        -> KeyAt(IF Hit THEN Next0(x) ELSE x)
      [] call.op = "upper_bound"        -> KeyAt(x)
      [] call.op = "last"               -> KeyAt(x)
      [] OTHER                          -> KeyAt(Next0(x))

Answer ==
    CASE call.op = "find"               -> IF Hit THEN call.key ELSE None
      [] call.op = "lower_bound"        -> KeyAt(IF Hit THEN Next0(x) ELSE x)
      [] call.op = "upper_bound"        -> KeyAt(x)
      [] call.op = "first_bigger_equal" -> KeyAt(Next0(x))
      [] call.op = "first_bigger"       -> KeyAt(IF Hit THEN Next0(Next0(x))
                                                        ELSE Next0(x))
      [] call.op = "last"               -> KeyAt(x)

Query == /\ Arrived
         /\ call.op \notin Updates
         /\ Finish(Answered(Answer))
         /\ UNCHANGED list

-----------------------------------------------------------------------------
(* insert and operator[].                                                  *)

\* The key is there: insert assigns, operator[] only refers to the value.
UpdateHit == /\ Arrived
             /\ call.op \in {"insert", "subscript"}
             /\ Hit
             /\ valOf' = IF call.op = "insert"
                         THEN [valOf EXCEPT ![Next0(x)] = call.val] ELSE valOf
             /\ Finish(Answered(call.key))
             /\ UNCHANGED <<nodes, keyOf, forward, m_size, m_level>>

\* add_node_to_list draws the height of the new node; the levels it opens
\* start at the head.
DrawLevel == /\ Arrived
             /\ call.op \in {"insert", "subscript"}
             /\ ~Hit
             /\ new_level' \in 1 .. MaxLevel - 1
             /\ old_level' = m_level
             /\ m_level' = IF new_level' > m_level THEN new_level' ELSE m_level
             /\ update' = [i \in Levels |-> IF i \in m_level .. new_level' - 1
                                            THEN Head ELSE update[i]]
             /\ pc' = "make"
             /\ UNCHANGED <<nodes, keyOf, valOf, forward, m_size, call, result,
                            x, l>>

\* Mutant of SplicedIn: the loop starts at level 1.
MutantSplicedInAbove(n) ==
    [m \in Node \cup {Head} |->
        [i \in Levels |->
            CASE i \in 1 .. new_level - 1 /\ m = n         -> forward[update[i]][i]
              [] i \in 1 .. new_level - 1 /\ m = update[i] -> n
              [] OTHER                                     -> forward[m][i]]]

\* The chains with n spliced in behind update on its levels.
SplicedIn(n) ==
    [m \in Node \cup {Head} |->
        [i \in Levels |->
            CASE i < new_level /\ m = n         -> forward[update[i]][i]
              [] i < new_level /\ m = update[i] -> n
              [] OTHER                          -> forward[m][i]]]

AddNode == /\ pc = "make"
           /\ \E n \in Node \ nodes :
                 /\ nodes' = nodes \cup {n}
                 /\ keyOf' = [keyOf EXCEPT ![n] = call.key]
                 /\ valOf' = [valOf EXCEPT ![n] = IF call.op = "insert"
                                                  THEN call.val ELSE Default]
                 /\ forward' = SplicedIn(n)
           /\ m_size' = m_size + 1
           /\ Finish(Answered(call.key))
           /\ UNCHANGED m_level

\* Mutant of FailToAdd: the levels opened for the node stay open.
MutantFailKeepsLevel ==
    /\ pc = "make"
    /\ IF call.op = "insert" THEN Finish(Threw) ELSE Terminate
    /\ UNCHANGED list

\* make_node threw: size and level are put back.  Out of operator[], which
\* is noexcept, the exception ends the program.
FailToAdd == /\ pc = "make"
             /\ m_level' = old_level
             /\ IF call.op = "insert" THEN Finish(Threw) ELSE Terminate
             /\ UNCHANGED <<nodes, keyOf, valOf, forward, m_size>>

\* The node's own vector could not be allocated, inside a noexcept
\* constructor.
FailInNode == /\ pc = "make"
              /\ Terminate
              /\ UNCHANGED list

\* The vector update could not be allocated.
FailToStart == /\ pc = "start"
               /\ call.op \in Updates
               /\ IF call.op = "subscript" THEN Terminate ELSE Finish(Threw)
               /\ UNCHANGED list

-----------------------------------------------------------------------------
(* erase, clear and the return.                                            *)
\* The levels below the first one whose update does not point to n: the
\* loop of erase stops there.
LevelsOf(n) == {i \in 0 .. m_level - 1 :
                   \A j \in 0 .. i : forward[update[j]][j] = n}

SplicedOut(n) ==
    [m \in Node \cup {Head} |->
        [i \in Levels |->
            CASE m = n                                  -> Null
              [] i \in LevelsOf(n) /\ m = update[i]     -> forward[n][i]
              [] OTHER                                  -> forward[m][i]]]

\* The number of levels in use, at most m: m_level after erase's last loop.
UsedLevels(f, m) ==
    CHOOSE i \in 0 .. m :
        /\ i = 0 \/ f[Head][i - 1] # End
        /\ \A j \in i + 1 .. m : f[Head][j - 1] = End

EraseHit == /\ Arrived
            /\ call.op = "erase"
            /\ Hit
            /\ LET n == Next0(x) IN
                 /\ nodes' = nodes \ {n}
                 /\ forward' = SplicedOut(n)
                 /\ keyOf' = [keyOf EXCEPT ![n] = None]
                 /\ valOf' = [valOf EXCEPT ![n] = None]
                 /\ m_level' = UsedLevels(forward', m_level)
                 /\ Finish(Answered(valOf[n]))
            /\ m_size' = m_size - 1

EraseMiss == /\ Arrived
             /\ call.op = "erase"
             /\ ~Hit
             /\ Finish(Answered(None))
             /\ UNCHANGED list

Clear == /\ pc = "start"
         /\ call.op = "clear"
         /\ nodes' = {}
         /\ keyOf' = [n \in Node |-> None]
         /\ valOf' = [n \in Node |-> None]
         /\ forward' = [n \in Node \cup {Head} |->
                           IF n = Head THEN AllEnd ELSE NoPointers]
         /\ m_size' = 0
         /\ m_level' = 1
         /\ Finish(Answered(None))

Return == /\ pc = "done"
          /\ call' = NoCall
          /\ result' = Pending
          /\ pc' = "idle"
          /\ x' = Head /\ l' = -1 /\ update' = NoUpdate
          /\ new_level' = 0 /\ old_level' = 0
          /\ UNCHANGED list

-----------------------------------------------------------------------------
Step == \/ StartSearch \/ MoveRight \/ MoveDown \/ Query
        \/ UpdateHit \/ DrawLevel \/ AddNode
        \/ FailToAdd \/ FailInNode \/ FailToStart
        \/ EraseHit \/ EraseMiss \/ Clear \/ Return

Next == (\E c \in Calls : Ask(c)) \/ Step

Spec == Init /\ [][Next]_vars

\* A call that was made keeps executing.
FairSpec == Spec /\ WF_vars(Step)

-----------------------------------------------------------------------------
TypeOK == /\ nodes \subseteq Node
          /\ keyOf \in [Node -> Key \cup {None}]
          /\ valOf \in [Node -> Val \cup {None}]
          /\ forward \in [Node \cup {Head} -> [Levels -> Node \cup {End, Null}]]
          /\ m_size \in Nat
          /\ m_level \in 0 .. MaxLevel - 1
          /\ pc \in {"idle", "start", "search", "make", "done", "terminated"}
          /\ call \in Calls \cup {NoCall}
          /\ result \in Outcomes
          /\ x \in Node \cup {Head}
          /\ l \in -1 .. MaxLevel - 2
          /\ update \in [Levels -> Node \cup {Head, Null}]
          /\ new_level \in 0 .. MaxLevel - 1
          /\ old_level \in 0 .. MaxLevel - 1

\* n is linked on level i.
OnLevel(n, i) == n = Head \/ (n \in nodes /\ forward[n][i] # Null)

\* n comes before m in key order.
Before(n, m) == \/ n = Head /\ m # Head
                \/ m = End
                \/ n \in nodes /\ m \in nodes /\ keyOf[n] < keyOf[m]

\* On every level, the element a node points to is the very next one, in
\* key order, among those of that level: no chain is out of order, skips an
\* element, reaches a freed node or ends early.
ChainsSorted ==
    \A i \in Levels : \A n \in nodes \cup {Head} :
        OnLevel(n, i) =>
            /\ forward[n][i] \in nodes \cup {End}
            /\ Before(n, forward[n][i])
            /\ \A m \in nodes :
                  OnLevel(m, i) /\ Before(n, m) => ~Before(m, forward[n][i])

\* Every node is in the bottom chain, and a node of one level is in all the
\* levels below it.
LevelsNested ==
    \A n \in nodes : /\ OnLevel(n, 0)
                     /\ \A i, j \in Levels : j < i /\ OnLevel(n, i) => OnLevel(n, j)

\* The list is well formed whenever a call can look at it: every level is one
\* sorted chain through exactly the nodes of that level, inside the one below.
WellFormed == TypeOK /\ ChainsSorted /\ LevelsNested

\* Between calls m_level says how many levels are in use: a search starts
\* high enough to use them all, and no level it starts on is empty (a list
\* that never had a second level, or was emptied by erase, aside).
LevelsCounted ==
    pc \in {"idle", "done"} =>
        /\ \A n \in nodes : \A i \in Levels : OnLevel(n, i) => i < m_level
        /\ m_level > 1 => forward[Head][m_level - 1] # End

\* m_size counts the nodes, and keys are unique.
SizeIsRight == /\ m_size = Cardinality(nodes)
               /\ \A n, m \in nodes : keyOf[n] = keyOf[m] => n = m

\* The cached level and the cached size agree with the chains.
CountsRight == LevelsCounted /\ SizeIsRight

\* A search has passed nothing it should not: it stands before its key, on a
\* level it is linked on, and what it recorded on the levels above is where
\* a new node of that height belongs.
SearchOnTrack ==
    pc = "search" =>
        /\ l >= 0 => OnLevel(x, l)
        /\ x = Head \/ x \in nodes
        /\ call.op # "last" => x = Head \/ keyOf[x] < call.key
        /\ call.op \in Updates =>
              \A i \in l + 1 .. m_level - 1 :
                  /\ OnLevel(update[i], i)
                  /\ update[i] = Head \/ keyOf[update[i]] < call.key
                  /\ forward[update[i]][i] \in nodes
                        => ~(keyOf[forward[update[i]][i]] < call.key)

\* What the list holds, as a function.
Content == [k \in {keyOf[n] : n \in nodes} |->
               valOf[CHOOSE n \in nodes : keyOf[n] = k]]

\* The list implements OrderedMap: answers, effects and failures of all
\* calls are those of a map, after any sequence of calls.
Abstract == INSTANCE OrderedMap WITH content <- Content
ImplementsOrderedMap == Abstract!Spec

\* Every call comes to an end; no chain has a loop to be caught in.
CallsReturn == (pc = "start") ~> (pc \in {"done", "terminated"})
=============================================================================
