--------------------------- MODULE SkipListProofs ---------------------------
(* Proofs about SkipList, for every set of keys, values and nodes and every *)
(* number of levels: the chains stay well formed, the counts stay right, a  *)
(* search never loses its way, and the list implements OrderedMap.          *)
EXTENDS SkipList, CommonLemmas, TLAPS

-----------------------------------------------------------------------------
(* The inductive invariant.                                                 *)

\* The elements have keys and values, and no two the same key.
KeysInv == /\ \A n \in nodes : keyOf[n] \in Key /\ valOf[n] \in Val
           /\ \A n, m \in nodes : keyOf[n] = keyOf[m] => n = m

\* What a chain leads to is linked on that level, and what is not an element
\* is linked on none.
LinksInv == /\ \A n \in nodes \cup {Head} : \A i \in Levels :
                  OnLevel(n, i) /\ forward[n][i] \in nodes
                      => forward[forward[n][i]][i] # Null
            /\ \A n \in Node \ nodes : \A i \in Levels : forward[n][i] = Null

\* m_level, and old_level while a new node is made, counts the levels in use.
UsedLevel == IF pc = "make" THEN old_level ELSE m_level

LevelsInv ==
    pc # "terminated" =>
        /\ \A n \in nodes : \A i \in Levels : forward[n][i] # Null => i < UsedLevel
        /\ UsedLevel > 1 => forward[Head][UsedLevel - 1] # End

\* Where a call is, which it is, and whether it has its result agree.
CallInv ==
    /\ pc = "idle" => call = NoCall
    /\ pc # "idle" => call \in Calls
    /\ pc = "done" <=> result # Pending
    /\ pc = "search" => call.op # "clear"
    /\ pc = "make" => call.op \in {"insert", "subscript"}
    /\ pc \in {"start", "search"} /\ call.op = "last" => m_size > 0

\* On level i, the key of the call belongs right behind n.
BeforeKey(n) == n = Head \/ (n \in nodes /\ keyOf[n] < call.key)
NotBeforeKey(n) == n = End \/ (n \in nodes /\ ~(keyOf[n] < call.key))
Brackets(n, i) == OnLevel(n, i) /\ BeforeKey(n) /\ NotBeforeKey(forward[n][i])

SearchInv ==
    pc = "search" =>
        /\ l < m_level
        /\ x \in nodes \cup {Head}
        /\ l >= 0 => OnLevel(x, l)
        /\ call.op # "last" => BeforeKey(x)
        /\ l < 0 => IF call.op = "last" THEN Next0(x) = End
                                        ELSE NotBeforeKey(Next0(x))
        /\ call.op \in Updates =>
               \A i \in l + 1 .. m_level - 1 : Brackets(update[i], i)

\* The search left the place of the new node on every level it will have.
MakeInv ==
    pc = "make" =>
        /\ new_level >= 1 /\ new_level <= m_level /\ old_level <= m_level
        /\ m_level \in {new_level, old_level}
        /\ \A i \in 0 .. m_level - 1 : Brackets(update[i], i)
        /\ \A n \in nodes : keyOf[n] # call.key

\* TypeOK, of the list and of the call.
ListType == /\ nodes \subseteq Node
            /\ keyOf \in [Node -> Key \cup {None}]
            /\ valOf \in [Node -> Val \cup {None}]
            /\ forward \in [Node \cup {Head} -> [Levels -> Node \cup {End, Null}]]
            /\ m_size \in Nat
            /\ m_level \in 0 .. MaxLevel - 1

CallType == /\ pc \in {"idle", "start", "search", "make", "done", "terminated"}
            /\ call \in Calls \cup {NoCall}
            /\ result \in Outcomes
            /\ x \in Node \cup {Head}
            /\ l \in -1 .. MaxLevel - 2
            /\ update \in [Levels -> Node \cup {Head, Null}]
            /\ new_level \in 0 .. MaxLevel - 1
            /\ old_level \in 0 .. MaxLevel - 1

ListInv == /\ ListType
           /\ KeysInv
           /\ ChainsSorted
           /\ LevelsNested
           /\ LinksInv
           /\ IsFiniteSet(nodes) /\ m_size = Cardinality(nodes)

IInv == /\ ListInv
        /\ CallType
        /\ LevelsInv
        /\ CallInv
        /\ SearchInv
        /\ MakeInv

-----------------------------------------------------------------------------
(* What the chains say about a node and its successor.                      *)

USE DEF Levels

LEMMA ListTypes ==
    ASSUME ListInv
    PROVE  /\ nodes \subseteq Node /\ Head \notin Node /\ End \notin Node
           /\ Null \notin Node /\ Head # End /\ Head # Null /\ End # Null
           /\ MaxLevel \in Nat /\ MaxLevel >= 2
           /\ keyOf \in [Node -> Key \cup {None}] /\ Key \subseteq Int
           /\ valOf \in [Node -> Val \cup {None}]
           /\ forward \in [Node \cup {Head} -> [Levels -> Node \cup {End, Null}]]
           /\ \A n \in nodes : keyOf[n] \in Int
BY SkipListAssumption, MapAssumption DEF ListInv, ListType, KeysInv

\* A chain goes to the least of the elements of its level that come later.
LEMMA Successor ==
    ASSUME ListInv, NEW i \in Levels, NEW n \in nodes \cup {Head}, OnLevel(n, i)
    PROVE  /\ forward[n][i] \in nodes \cup {End}
           /\ forward[n][i] \in nodes =>
                  /\ OnLevel(forward[n][i], i)
                  /\ n \in nodes => keyOf[n] < keyOf[forward[n][i]]
           /\ \A m \in nodes :
                  /\ OnLevel(m, i)
                  /\ n = Head \/ keyOf[n] < keyOf[m]
                  => /\ forward[n][i] \in nodes
                     /\ keyOf[forward[n][i]] <= keyOf[m]
<1>1. /\ forward[n][i] \in nodes \cup {End}
      /\ Before(n, forward[n][i])
      /\ \A m \in nodes :
            OnLevel(m, i) /\ Before(n, m) => ~Before(m, forward[n][i])
  BY DEF ListInv, ChainsSorted
<1>2. forward[n][i] \in nodes => OnLevel(forward[n][i], i)
  BY DEF ListInv, LinksInv, OnLevel
<1>3. forward[n][i] \in nodes /\ n \in nodes => keyOf[n] < keyOf[forward[n][i]]
  BY <1>1, ListTypes DEF Before
<1>4. ASSUME NEW m \in nodes, OnLevel(m, i), n = Head \/ keyOf[n] < keyOf[m]
      PROVE  forward[n][i] \in nodes /\ keyOf[forward[n][i]] <= keyOf[m]
  <2>1. Before(n, m)
    BY <1>4, ListTypes DEF Before
  <2>2. ~Before(m, forward[n][i])
    BY <1>1, <1>4, <2>1
  <2>3. forward[n][i] \in nodes /\ ~(keyOf[m] < keyOf[forward[n][i]])
    BY <1>1, <2>2, ListTypes DEF Before
  <2> QED BY <2>3, ListTypes
<1> QED BY <1>1, <1>2, <1>3, <1>4

LEMMA OnBottom ==
    ASSUME ListInv, NEW n \in nodes \cup {Head}
    PROVE  /\ 0 \in Levels /\ OnLevel(n, 0)
           /\ \A i, j \in Levels : j < i /\ OnLevel(n, i) => OnLevel(n, j)
BY ListTypes DEF ListInv, LevelsNested, OnLevel

\* The converse: what makes a set of nodes and pointers sorted chains.
LeadsOn(n, i) ==
    /\ forward[n][i] \in nodes \cup {End}
    /\ n \in nodes /\ forward[n][i] \in nodes => keyOf[n] < keyOf[forward[n][i]]
    /\ \A m \in nodes :
           OnLevel(m, i) /\ (n = Head \/ keyOf[n] < keyOf[m])
               => forward[n][i] \in nodes /\ keyOf[forward[n][i]] <= keyOf[m]

AllLeadOn ==
    /\ nodes \subseteq Node
    /\ \A n \in nodes : keyOf[n] \in Int
    /\ \A i \in Levels : \A n \in nodes \cup {Head} : OnLevel(n, i) => LeadsOn(n, i)

LEMMA ChainsFromSuccessors == AllLeadOn => ChainsSorted
<1> SUFFICES ASSUME AllLeadOn, NEW i \in Levels, NEW n \in nodes \cup {Head},
                    OnLevel(n, i)
             PROVE  /\ forward[n][i] \in nodes \cup {End}
                    /\ Before(n, forward[n][i])
                    /\ \A m \in nodes :
                          OnLevel(m, i) /\ Before(n, m) => ~Before(m, forward[n][i])
  BY DEF ChainsSorted
<1>1. LeadsOn(n, i) /\ Head \notin nodes /\ End \notin nodes /\ Head # End
  BY SkipListAssumption DEF AllLeadOn
<1>2. Before(n, forward[n][i])
  BY <1>1 DEF Before, LeadsOn
<1>3. ASSUME NEW m \in nodes, OnLevel(m, i), Before(n, m)
      PROVE  ~Before(m, forward[n][i])
  <2>1. n = Head \/ keyOf[n] < keyOf[m]
    BY <1>1, <1>3 DEF Before
  <2>2. forward[n][i] \in nodes /\ keyOf[forward[n][i]] <= keyOf[m]
    BY <1>1, <1>3, <2>1 DEF LeadsOn
  <2> QED BY <1>1, <2>2 DEF Before, AllLeadOn
<1> QED BY <1>1, <1>2, <1>3 DEF LeadsOn

LEMMA ChainsFromSuccessorsNext == AllLeadOn' => ChainsSorted'
BY ChainsFromSuccessors, PTL

-----------------------------------------------------------------------------
(* Splicing a node in, behind the nodes that update brackets its key with.  *)

LEMMA SpliceIn ==
    ASSUME ListInv, NEW n \in Node \ nodes, NEW w \in Val,
           new_level \in 1 .. MaxLevel - 1, call.key \in Key,
           \A i \in 0 .. new_level - 1 : Brackets(update[i], i),
           \A m \in nodes : keyOf[m] # call.key,
           nodes' = nodes \cup {n}, keyOf' = [keyOf EXCEPT ![n] = call.key],
           valOf' = [valOf EXCEPT ![n] = w], forward' = SplicedIn(n),
           m_size' = m_size + 1
    PROVE  /\ \A m \in nodes : \A i \in Levels : OnLevel(m, i)' <=> OnLevel(m, i)
           /\ \A i \in Levels : OnLevel(n, i)' <=> i < new_level
           /\ KeysInv' /\ ChainsSorted' /\ LevelsNested' /\ LinksInv'
           /\ forward' \in [Node \cup {Head} -> [Levels -> Node \cup {End, Null}]]
           /\ IsFiniteSet(nodes') /\ m_size' = Cardinality(nodes')
<1>1. /\ nodes \subseteq Node /\ Head \notin Node /\ End \notin Node
      /\ Null \notin Node /\ Head # End /\ Head # Null /\ End # Null
      /\ MaxLevel \in Nat /\ MaxLevel >= 2
      /\ keyOf \in [Node -> Key \cup {None}] /\ Key \subseteq Int
      /\ valOf \in [Node -> Val \cup {None}]
      /\ forward \in [Node \cup {Head} -> [Levels -> Node \cup {End, Null}]]
      /\ \A m \in nodes : keyOf[m] \in Int
      /\ call.key \in Int /\ new_level \in Int
  BY ListTypes
<1>2. /\ \A m \in nodes : keyOf'[m] = keyOf[m] /\ valOf'[m] = valOf[m]
      /\ keyOf'[n] = call.key /\ valOf'[n] = w
  BY <1>1
<1>3. ASSUME NEW i \in Levels, i < new_level
      PROVE  /\ update[i] \in nodes \cup {Head} /\ OnLevel(update[i], i)
             /\ BeforeKey(update[i]) /\ NotBeforeKey(forward[update[i]][i])
  BY <1>1, <1>3 DEF Brackets, OnLevel
<1>4. \A m \in nodes \cup {Head} : \A i \in Levels :
         forward'[m][i] = IF i < new_level /\ m = update[i] THEN n
                                                             ELSE forward[m][i]
  BY <1>1 DEF SplicedIn
<1>5. \A i \in Levels :
         forward'[n][i] = IF i < new_level THEN forward[update[i]][i] ELSE Null
  <2>1. \A i \in Levels : forward[n][i] = Null
    BY DEF ListInv, LinksInv
  <2>2. \A i \in Levels : i < new_level => update[i] # n
    BY <1>1, <1>3
  <2>3. \A i \in Levels :
           forward'[n][i] = CASE i < new_level /\ n = n -> forward[update[i]][i]
                              [] i < new_level /\ n = update[i] -> n
                              [] OTHER -> forward[n][i]
    BY DEF SplicedIn
  <2> QED BY <1>1, <2>1, <2>2, <2>3
<1>6. \A m \in nodes \cup {Head} : \A i \in Levels :
         OnLevel(m, i)' <=> OnLevel(m, i)
  <2> SUFFICES ASSUME NEW m \in nodes, NEW i \in Levels
               PROVE  forward'[m][i] = Null <=> forward[m][i] = Null
    BY <1>1 DEF OnLevel
  <2>1. CASE i < new_level /\ m = update[i]
    BY <1>1, <1>3, <1>4, <2>1 DEF OnLevel
  <2>2. CASE ~(i < new_level /\ m = update[i])
    BY <1>4, <2>2
  <2> QED BY <2>1, <2>2
<1>7. \A i \in Levels : OnLevel(n, i)' <=> i < new_level
  <2> SUFFICES ASSUME NEW i \in Levels
               PROVE  forward'[n][i] # Null <=> i < new_level
    BY <1>1 DEF OnLevel
  <2>1. ASSUME i < new_level PROVE forward[update[i]][i] # Null
    BY <1>1, <1>3, <2>1 DEF NotBeforeKey
  <2> QED BY <1>5, <2>1
<1>8. KeysInv'
  BY <1>1, <1>2 DEF KeysInv, ListInv
<1>9. ASSUME NEW i \in Levels, NEW p \in nodes \cup {Head}, OnLevel(p, i)
      PROVE  LeadsOn(p, i)'
  <2>1. LeadsOn(p, i)
    BY <1>9, Successor DEF LeadsOn
  <2>2. CASE i < new_level /\ p = update[i]
    <3>1. forward'[p][i] = n
      BY <1>4, <2>2
    <3>2. p \in nodes => keyOf[p] < call.key
      BY <1>1, <1>3, <2>2 DEF BeforeKey
    <3>3. ASSUME NEW m \in nodes, OnLevel(m, i), p = Head \/ keyOf[p] < keyOf[m]
          PROVE  call.key <= keyOf[m]
      <4>1. forward[p][i] \in nodes /\ keyOf[forward[p][i]] <= keyOf[m]
        BY <2>1, <3>3 DEF LeadsOn
      <4>2. ~(keyOf[forward[p][i]] < call.key)
        BY <1>1, <1>3, <2>2, <4>1 DEF NotBeforeKey
      <4> QED BY <1>1, <4>1, <4>2
    <3> QED BY <1>1, <1>2, <1>6, <3>1, <3>2, <3>3 DEF LeadsOn
  <2>3. CASE ~(i < new_level /\ p = update[i])
    <3>1. forward'[p][i] = forward[p][i]
      BY <1>4, <2>3
    <3>2. ASSUME i < new_level, p = Head \/ keyOf[p] < call.key
          PROVE  forward[p][i] \in nodes /\ keyOf[forward[p][i]] <= call.key
      <4> DEFINE u == update[i]
      <4>1. u \in nodes \cup {Head} /\ OnLevel(u, i) /\ u # p
        BY <1>3, <2>3, <3>2
      <4>2. BeforeKey(u) /\ NotBeforeKey(forward[u][i])
        BY <1>3, <3>2
      <4> HIDE DEF u
      <4>3. LeadsOn(u, i)
        BY <4>1, Successor DEF LeadsOn
      <4>4. CASE p = Head \/ (u # Head /\ keyOf[p] < keyOf[u])
        <5>1. u \in nodes
          BY <4>1, <4>4
        <5>2. forward[p][i] \in nodes /\ keyOf[forward[p][i]] <= keyOf[u]
          BY <2>1, <4>1, <4>4, <5>1 DEF LeadsOn
        <5>3. keyOf[u] < call.key
          BY <1>1, <4>2, <5>1 DEF BeforeKey
        <5> QED BY <1>1, <5>1, <5>2, <5>3
      <4>5. CASE p # Head /\ (u = Head \/ ~(keyOf[p] < keyOf[u]))
        <5>1. p \in nodes
          BY <4>5
        <5>2. u = Head \/ keyOf[u] < keyOf[p]
          BY <1>1, <4>1, <4>5, <5>1 DEF ListInv, KeysInv
        <5>3. forward[u][i] \in nodes /\ keyOf[forward[u][i]] <= keyOf[p]
          BY <1>9, <4>3, <5>1, <5>2 DEF LeadsOn
        <5>4. ~(keyOf[forward[u][i]] < call.key)
          BY <1>1, <4>2, <5>3 DEF NotBeforeKey
        <5>5. keyOf[p] < call.key
          BY <3>2, <4>5
        <5> QED BY <1>1, <5>1, <5>3, <5>4, <5>5
      <4> QED BY <4>4, <4>5
    <3> QED BY <1>1, <1>2, <1>6, <1>7, <2>1, <3>1, <3>2 DEF LeadsOn
  <2> QED BY <2>2, <2>3
<1>10. ASSUME NEW i \in Levels, i < new_level
       PROVE  LeadsOn(n, i)'
  <2> DEFINE u == update[i]
  <2>1. u \in nodes \cup {Head} /\ OnLevel(u, i)
        /\ BeforeKey(u) /\ NotBeforeKey(forward[u][i])
    BY <1>3, <1>10
  <2>2. forward'[n][i] = forward[u][i]
    BY <1>5, <1>10
  <2> HIDE DEF u
  <2>3. LeadsOn(u, i)
    BY <2>1, Successor DEF LeadsOn
  <2>4. forward[u][i] \in nodes => call.key < keyOf[forward[u][i]]
    BY <1>1, <2>1 DEF NotBeforeKey
  <2>5. ASSUME NEW m \in nodes, OnLevel(m, i), call.key < keyOf[m]
        PROVE  forward[u][i] \in nodes /\ keyOf[forward[u][i]] <= keyOf[m]
    <3>1. u = Head \/ keyOf[u] < keyOf[m]
      BY <1>1, <2>1, <2>5 DEF BeforeKey
    <3> QED BY <2>3, <2>5, <3>1 DEF LeadsOn
  <2> QED BY <1>1, <1>2, <1>6, <2>2, <2>3, <2>4, <2>5 DEF LeadsOn
<1>11. ChainsSorted'
  <2>1. AllLeadOn'
    BY <1>1, <1>2, <1>6, <1>7, <1>9, <1>10 DEF AllLeadOn
  <2> QED BY <2>1, ChainsFromSuccessorsNext
<1>12. LevelsNested'
  BY <1>1, <1>6, <1>7 DEF LevelsNested, ListInv
<1>13. LinksInv'
  <2>1. ASSUME NEW m \in nodes', NEW i \in Levels, OnLevel(m, i)'
        PROVE  forward'[m][i] # Null
    BY <1>1, <2>1 DEF OnLevel
  <2>2. ASSUME NEW p \in nodes \cup {Head}, NEW i \in Levels, OnLevel(p, i),
               forward'[p][i] \in nodes'
        PROVE  forward'[forward'[p][i]][i] # Null
    <3>1. CASE i < new_level /\ p = update[i]
      <4>1. forward'[p][i] = n
        BY <1>4, <3>1
      <4> QED BY <1>7, <2>1, <3>1, <4>1
    <3>2. CASE ~(i < new_level /\ p = update[i])
      <4>1. forward'[p][i] = forward[p][i] /\ forward[p][i] \in nodes
        BY <1>1, <1>4, <2>2, <3>2, Successor
      <4>2. OnLevel(forward[p][i], i)
        BY <2>2, <4>1, Successor
      <4> QED BY <1>6, <2>1, <4>1, <4>2
    <3> QED BY <3>1, <3>2
  <2>3. ASSUME NEW i \in Levels, i < new_level, forward'[n][i] \in nodes'
        PROVE  forward'[forward'[n][i]][i] # Null
    <3>1. /\ update[i] \in nodes \cup {Head} /\ OnLevel(update[i], i)
          /\ forward'[n][i] = forward[update[i]][i]
      BY <1>3, <1>5, <2>3
    <3>2. forward[update[i]][i] \in nodes
      BY <1>1, <3>1, <2>3, Successor
    <3>3. OnLevel(forward[update[i]][i], i)
      BY <3>1, <3>2, Successor
    <3> QED BY <1>6, <2>1, <3>1, <3>2, <3>3
  <2>4. ASSUME NEW m \in Node \ nodes', NEW i \in Levels
        PROVE  forward'[m][i] = Null
    <3>1. m \in Node \ nodes /\ m # n /\ forward[m][i] = Null
      BY <2>4 DEF ListInv, LinksInv
    <3>2. i < new_level => m # update[i]
      BY <1>1, <1>3, <3>1
    <3> QED BY <3>1, <3>2 DEF SplicedIn
  <2>5. ASSUME NEW p \in nodes' \cup {Head}, NEW i \in Levels, OnLevel(p, i)',
               forward'[p][i] \in nodes'
        PROVE  forward'[forward'[p][i]][i] # Null
    BY <1>6, <1>7, <2>2, <2>3, <2>5
  <2> QED BY <2>4, <2>5 DEF LinksInv
<1>14. forward' \in [Node \cup {Head} -> [Levels -> Node \cup {End, Null}]]
  <2> SUFFICES ASSUME NEW m \in Node \cup {Head}, NEW i \in Levels
               PROVE  (CASE i < new_level /\ m = n         -> forward[update[i]][i]
                         [] i < new_level /\ m = update[i] -> n
                         [] OTHER                          -> forward[m][i])
                      \in Node \cup {End, Null}
    BY DEF SplicedIn
  <2> QED BY <1>1, <1>3
<1>15. IsFiniteSet(nodes') /\ m_size' = Cardinality(nodes')
  BY FS_AddElement DEF ListInv
<1> QED BY <1>6, <1>7, <1>8, <1>11, <1>12, <1>13, <1>14, <1>15

-----------------------------------------------------------------------------
(* Splicing a node out, from behind the nodes that update brackets it with. *)

\* erase's loop stops exactly at the node's height, and update holds the
\* node's predecessor on each of its levels.
LEMMA LevelsOfNode ==
    ASSUME ListInv, NEW n \in nodes, keyOf[n] = call.key,
           \A i \in Levels : OnLevel(n, i) => i < m_level,
           \A i \in 0 .. m_level - 1 : Brackets(update[i], i)
    PROVE  \A i \in Levels :
               /\ i \in LevelsOf(n) <=> OnLevel(n, i)
               /\ OnLevel(n, i) =>
                     /\ update[i] \in nodes \cup {Head} /\ update[i] # n
                     /\ OnLevel(update[i], i) /\ forward[update[i]][i] = n
                     /\ \A p \in nodes \cup {Head} :
                           OnLevel(p, i) /\ forward[p][i] = n => p = update[i]
<1>1. /\ nodes \subseteq Node /\ Head \notin Node /\ End \notin Node
      /\ Null \notin Node /\ Head # End /\ Head # Null /\ End # Null
      /\ MaxLevel \in Nat /\ MaxLevel >= 2 /\ m_level \in 0 .. MaxLevel - 1
      /\ \A m \in nodes : keyOf[m] \in Int
      /\ \A p, m \in nodes : keyOf[p] = keyOf[m] => p = m
  BY ListTypes DEF ListInv, KeysInv, ListType
<1>2. ASSUME NEW j \in Levels, OnLevel(n, j)
      PROVE  /\ update[j] \in nodes \cup {Head} /\ OnLevel(update[j], j)
             /\ update[j] # n /\ BeforeKey(update[j])
             /\ forward[update[j]][j] = n
  <2> DEFINE u == update[j]
  <2>1. /\ OnLevel(u, j) /\ BeforeKey(u) /\ NotBeforeKey(forward[u][j])
    BY <1>1, <1>2 DEF Brackets
  <2> HIDE DEF u
  <2>2. u \in nodes \cup {Head} /\ u # n /\ (u = Head \/ keyOf[u] < keyOf[n])
    BY <1>1, <2>1 DEF OnLevel, BeforeKey
  <2>3. forward[u][j] \in nodes /\ keyOf[forward[u][j]] <= keyOf[n]
    BY <1>2, <2>1, <2>2, Successor
  <2>4. ~(keyOf[forward[u][j]] < keyOf[n])
    BY <1>1, <2>1, <2>3 DEF NotBeforeKey
  <2>5. forward[u][j] = n
    BY <1>1, <2>3, <2>4
  <2> QED BY <2>1, <2>2, <2>5 DEF u
<1>3. ASSUME NEW i \in Levels, OnLevel(n, i)
      PROVE  i \in LevelsOf(n)
  <2>1. \A j \in 0 .. i : j \in Levels /\ OnLevel(n, j)
    BY <1>1, <1>3, OnBottom
  <2>2. i \in 0 .. m_level - 1
    BY <1>1, <1>3
  <2> QED BY <1>2, <2>1, <2>2 DEF LevelsOf
<1>4. ASSUME NEW i \in Levels, i \in LevelsOf(n)
      PROVE  OnLevel(n, i)
  <2>1. i \in 0 .. m_level - 1 /\ forward[update[i]][i] = n
    BY <1>1, <1>4 DEF LevelsOf
  <2>2. update[i] \in nodes \cup {Head} /\ OnLevel(update[i], i)
    BY <2>1 DEF Brackets, OnLevel
  <2> QED BY <2>1, <2>2, Successor
<1>5. ASSUME NEW i \in Levels, OnLevel(n, i), NEW p \in nodes \cup {Head},
             OnLevel(p, i), forward[p][i] = n
      PROVE  p = update[i]
  <2> DEFINE u == update[i]
  <2>1. u \in nodes \cup {Head} /\ OnLevel(u, i) /\ forward[u][i] = n
    BY <1>2, <1>5
  <2> HIDE DEF u
  <2>2. p \in nodes => keyOf[p] < keyOf[n]
    BY <1>5, Successor
  <2>3. u \in nodes => keyOf[u] < keyOf[n]
    BY <1>5, <2>1, Successor
  <2>4. ~(p \in nodes /\ (u = Head \/ keyOf[u] < keyOf[p]))
    <3> SUFFICES ASSUME p \in nodes, u = Head \/ keyOf[u] < keyOf[p] PROVE FALSE
      OBVIOUS
    <3>1. keyOf[n] <= keyOf[p]
      BY <1>5, <2>1, Successor
    <3> QED BY <1>1, <2>2, <3>1
  <2>5. ~(u \in nodes /\ (p = Head \/ keyOf[p] < keyOf[u]))
    <3> SUFFICES ASSUME u \in nodes, p = Head \/ keyOf[p] < keyOf[u] PROVE FALSE
      OBVIOUS
    <3>1. keyOf[n] <= keyOf[u]
      BY <1>5, <2>1, Successor
    <3> QED BY <1>1, <2>3, <3>1
  <2>6. p = u
    BY <1>1, <2>1, <2>4, <2>5
  <2> QED BY <2>6 DEF u
<1> QED BY <1>2, <1>3, <1>4, <1>5

LEMMA SpliceOut ==
    ASSUME ListInv, NEW n \in nodes, keyOf[n] = call.key,
           \A i \in Levels : OnLevel(n, i) => i < m_level,
           \A i \in 0 .. m_level - 1 : Brackets(update[i], i),
           nodes' = nodes \ {n}, keyOf' = [keyOf EXCEPT ![n] = None],
           valOf' = [valOf EXCEPT ![n] = None], forward' = SplicedOut(n),
           m_size' = m_size - 1
    PROVE  /\ \A m \in nodes' : \A i \in Levels : OnLevel(m, i)' <=> OnLevel(m, i)
           /\ KeysInv' /\ ChainsSorted' /\ LevelsNested' /\ LinksInv'
           /\ forward' \in [Node \cup {Head} -> [Levels -> Node \cup {End, Null}]]
           /\ IsFiniteSet(nodes') /\ m_size' = Cardinality(nodes')
<1>1. /\ nodes \subseteq Node /\ Head \notin Node /\ End \notin Node
      /\ Null \notin Node /\ Head # End /\ Head # Null /\ End # Null
      /\ MaxLevel \in Nat /\ MaxLevel >= 2
      /\ keyOf \in [Node -> Key \cup {None}] /\ Key \subseteq Int
      /\ valOf \in [Node -> Val \cup {None}]
      /\ forward \in [Node \cup {Head} -> [Levels -> Node \cup {End, Null}]]
      /\ \A m \in nodes : keyOf[m] \in Int
  BY ListTypes
<1>2. \A m \in nodes' : /\ m \in nodes /\ m # n
                        /\ keyOf'[m] = keyOf[m] /\ valOf'[m] = valOf[m]
  BY <1>1
<1>3. ASSUME NEW i \in Levels
      PROVE  /\ i \in LevelsOf(n) <=> OnLevel(n, i)
             /\ OnLevel(n, i) =>
                   /\ update[i] \in nodes' \cup {Head}
                   /\ OnLevel(update[i], i) /\ forward[update[i]][i] = n
                   /\ \A p \in nodes \cup {Head} :
                         OnLevel(p, i) /\ forward[p][i] = n => p = update[i]
  BY LevelsOfNode
<1>4. \A m \in Node \cup {Head} : \A i \in Levels :
         forward'[m][i] = CASE m = n                                -> Null
                            [] OnLevel(n, i) /\ m = update[i] -> forward[n][i]
                            [] OTHER                                -> forward[m][i]
  BY <1>1, <1>3 DEF SplicedOut
<1>5. ASSUME NEW m \in nodes' \cup {Head}, NEW i \in Levels, OnLevel(m, i)
      PROVE  /\ OnLevel(n, i) /\ m = update[i] =>
                   /\ forward[m][i] = n /\ forward'[m][i] = forward[n][i]
             /\ ~(OnLevel(n, i) /\ m = update[i]) =>
                   /\ forward[m][i] # n /\ forward'[m][i] = forward[m][i]
  <2>1. m # n /\ m \in Node \cup {Head} /\ m \in nodes \cup {Head}
    BY <1>1, <1>2
  <2>2. forward[m][i] = n => OnLevel(n, i)
    BY <1>5, <2>1, Successor
  <2> QED BY <1>3, <1>4, <1>5, <2>1, <2>2
<1>6. \A m \in nodes' \cup {Head} : \A i \in Levels :
         OnLevel(m, i)' <=> OnLevel(m, i)
  <2> SUFFICES ASSUME NEW m \in nodes', NEW i \in Levels
               PROVE  forward'[m][i] = Null <=> forward[m][i] = Null
    BY <1>1, <1>2 DEF OnLevel
  <2>1. CASE OnLevel(n, i) /\ m = update[i]
    <3>1. forward'[m][i] = forward[n][i] /\ forward[n][i] # Null
      BY <1>1, <1>2, <1>4, <2>1, Successor
    <3>2. forward[m][i] # Null
      BY <1>1, <1>3, <2>1
    <3> QED BY <3>1, <3>2
  <2>2. CASE ~(OnLevel(n, i) /\ m = update[i])
    BY <1>1, <1>2, <1>4, <2>2
  <2> QED BY <2>1, <2>2
<1>7. KeysInv'
  BY <1>1, <1>2 DEF KeysInv, ListInv
<1>8. ASSUME NEW i \in Levels, NEW p \in nodes' \cup {Head}, OnLevel(p, i)
      PROVE  LeadsOn(p, i)'
  <2>0. p \in nodes \cup {Head}
    BY <1>2
  <2>1. LeadsOn(p, i)
    BY <1>8, <2>0, Successor DEF LeadsOn
  <2>2. CASE OnLevel(n, i) /\ p = update[i]
    <3>1. forward[p][i] = n /\ forward'[p][i] = forward[n][i]
      BY <1>5, <1>8, <2>2
    <3>2. LeadsOn(n, i)
      BY <2>2, Successor DEF LeadsOn
    <3>3. p \in nodes => keyOf[p] < keyOf[n]
      BY <2>1, <3>1 DEF LeadsOn
    <3>4. forward[n][i] \in nodes => keyOf[n] < keyOf[forward[n][i]]
      BY <3>2 DEF LeadsOn
    <3>5. forward[n][i] # n
      BY <1>1, <3>4
    <3>6. p \in nodes /\ forward[n][i] \in nodes => keyOf[p] < keyOf[forward[n][i]]
      BY <1>1, <3>3, <3>4
    <3>7. ASSUME NEW m \in nodes', OnLevel(m, i), p = Head \/ keyOf[p] < keyOf[m]
          PROVE  forward[n][i] \in nodes /\ keyOf[forward[n][i]] <= keyOf[m]
      <4>1. keyOf[n] <= keyOf[m] /\ m # n /\ m \in nodes
        BY <1>2, <2>1, <3>1, <3>7 DEF LeadsOn
      <4>2. keyOf[n] < keyOf[m]
        BY <1>1, <4>1 DEF ListInv, KeysInv
      <4> QED BY <3>2, <3>7, <4>1, <4>2 DEF LeadsOn
    <3>8. forward'[p][i] \in nodes' \cup {End}
      BY <3>1, <3>2, <3>5 DEF LeadsOn
    <3> QED BY <1>1, <1>2, <1>6, <3>1, <3>6, <3>7, <3>8 DEF LeadsOn
  <2>3. CASE ~(OnLevel(n, i) /\ p = update[i])
    <3>1. forward'[p][i] = forward[p][i] /\ forward[p][i] # n
      BY <1>5, <1>8, <2>3
    <3> QED BY <1>1, <1>2, <1>6, <2>1, <3>1 DEF LeadsOn
  <2> QED BY <2>2, <2>3
<1>9. ChainsSorted'
  <2>1. AllLeadOn'
    BY <1>1, <1>2, <1>6, <1>8 DEF AllLeadOn
  <2> QED BY <2>1, ChainsFromSuccessorsNext
<1>10. LevelsNested'
  BY <1>1, <1>2, <1>6 DEF LevelsNested, ListInv
<1>11. LinksInv'
  <2>1. ASSUME NEW m \in nodes', NEW i \in Levels, OnLevel(m, i)
        PROVE  forward'[m][i] # Null
    BY <1>1, <1>2, <1>6, <2>1 DEF OnLevel
  <2>2. ASSUME NEW m \in Node \ nodes', NEW i \in Levels
        PROVE  forward'[m][i] = Null
    <3>1. CASE m = n
      <4>1. n \in Node \cup {Head} /\ ~(OnLevel(n, i) /\ m = update[i])
        BY <1>1, <1>3, <3>1
      <4> QED BY <1>4, <3>1, <4>1
    <3>2. CASE m # n
      <4>1. m \in Node \ nodes /\ forward[m][i] = Null
        BY <2>2, <3>2 DEF ListInv, LinksInv
      <4>2. ~(OnLevel(n, i) /\ m = update[i])
        BY <1>1, <1>3, <2>2
      <4> QED BY <1>4, <3>2, <4>1, <4>2
    <3> QED BY <3>1, <3>2
  <2>3. ASSUME NEW p \in nodes' \cup {Head}, NEW i \in Levels, OnLevel(p, i)',
               forward'[p][i] \in nodes'
        PROVE  forward'[forward'[p][i]][i] # Null
    <3>1. OnLevel(p, i) /\ p \in nodes \cup {Head}
      BY <1>2, <1>6, <2>3
    <3>2. OnLevel(forward'[p][i], i)
      BY <1>2, <1>5, <2>3, <3>1, Successor
    <3> QED BY <2>1, <2>3, <3>2
  <2> QED BY <2>2, <2>3 DEF LinksInv
<1>12. forward' \in [Node \cup {Head} -> [Levels -> Node \cup {End, Null}]]
  <2> SUFFICES ASSUME NEW m \in Node \cup {Head}, NEW i \in Levels
               PROVE  (CASE m = n                              -> Null
                         [] i \in LevelsOf(n) /\ m = update[i] -> forward[n][i]
                         [] OTHER                              -> forward[m][i])
                      \in Node \cup {End, Null}
    BY DEF SplicedOut
  <2> QED BY <1>1
<1>13. IsFiniteSet(nodes') /\ m_size' = Cardinality(nodes')
  BY FS_RemoveElement DEF ListInv
<1> QED BY <1>6, <1>7, <1>9, <1>10, <1>11, <1>12, <1>13

-----------------------------------------------------------------------------
(* The levels in use, after erase.                                          *)

\* erase's last loop stops at the highest level that is not empty.
LEMMA UsedLevelsFound ==
    ASSUME NEW f, NEW m \in Nat
    PROVE  /\ UsedLevels(f, m) \in 0 .. m
           /\ UsedLevels(f, m) = 0 \/ f[Head][UsedLevels(f, m) - 1] # End
           /\ \A j \in UsedLevels(f, m) + 1 .. m : f[Head][j - 1] = End
<1> DEFINE T == {i \in 0 .. m : i = 0 \/ f[Head][i - 1] # End}
<1>1. PICK i \in T : \A j \in T : j <= i
  <2>1. IsFiniteSet(T)
    <3>1. IsFiniteSet(0 .. m) /\ T \subseteq 0 .. m
      BY FS_Interval
    <3> QED BY <3>1, FS_Subset
  <2>2. T # {} /\ T \subseteq Int
    <3>1. 0 \in T
      OBVIOUS
    <3> QED BY <3>1
  <2> QED BY <2>1, <2>2, HasGreatest
<1>2. /\ i \in 0 .. m
      /\ i = 0 \/ f[Head][i - 1] # End
      /\ \A j \in i + 1 .. m : f[Head][j - 1] = End
  <2>1. ASSUME NEW j \in i + 1 .. m PROVE f[Head][j - 1] = End
    BY <1>1
  <2> QED BY <2>1
<1> QED BY <1>2 DEF UsedLevels

-----------------------------------------------------------------------------
(* Every step keeps the invariant.                                          *)

LEMMA CallFacts ==
    ASSUME NEW c \in Calls
    PROVE  /\ c.op \in {"insert", "subscript", "erase", "find", "lower_bound",
                        "upper_bound", "first_bigger_equal", "first_bigger",
                        "last", "clear"}
           /\ c.op \notin {"last", "clear"} => c.key \in Key
           /\ c.op = "insert" => c.val \in Val
           /\ c # NoCall
BY DEF Calls, NoCall

LEMMA OutcomeFacts ==
    /\ Pending \in Outcomes /\ Threw \in Outcomes /\ Threw # Pending
    /\ \A v \in Key \cup Val \cup {None} : Answered(v) \in Outcomes
    /\ \A v : Answered(v) # Pending
BY DEF Pending, Threw, Answered, Outcomes

\* A step that leaves the chains alone.
LEMMA SameChains ==
    ASSUME ListInv, UNCHANGED <<nodes, keyOf, forward, m_size>>,
           m_level' \in 0 .. MaxLevel - 1,
           valOf' \in [Node -> Val \cup {None}], \A n \in nodes : valOf'[n] \in Val
    PROVE  /\ ListInv'
           /\ \A n, i : OnLevel(n, i)' <=> OnLevel(n, i)
           /\ \A n, m : Before(n, m)' <=> Before(n, m)
<1>1. \A n, i : OnLevel(n, i)' <=> OnLevel(n, i)
  BY DEF OnLevel
<1>2. \A n, m : Before(n, m)' <=> Before(n, m)
  BY DEF Before
<1>3. ListType' /\ KeysInv' /\ LinksInv'
  BY <1>1 DEF ListInv, ListType, KeysInv, LinksInv
<1>4. ChainsSorted' /\ LevelsNested'
  BY <1>1, <1>2 DEF ListInv, ChainsSorted, LevelsNested
<1> QED BY <1>1, <1>2, <1>3, <1>4 DEF ListInv

LEMMA SameList ==
    ASSUME ListInv, UNCHANGED list
    PROVE  /\ ListInv'
           /\ \A n, i : OnLevel(n, i)' <=> OnLevel(n, i)
BY SameChains DEF ListInv, ListType, KeysInv, list

\* A call comes to its end without touching the chains.
LEMMA DoneKeepsIInv ==
    ASSUME IInv, pc \in {"start", "search", "make"}, ListInv',
           UNCHANGED <<nodes, forward>>, m_level' = UsedLevel,
           pc' \in {"done", "terminated"}, UNCHANGED <<call, locals>>,
           result' \in Outcomes, pc' = "done" <=> result' # Pending
    PROVE  IInv'
<1>1. CallType'
  BY DEF IInv, CallType, locals
<1>2. LevelsInv'
  BY DEF IInv, LevelsInv, UsedLevel
<1>3. CallInv' /\ SearchInv' /\ MakeInv'
  BY DEF IInv, CallInv, SearchInv, MakeInv
<1> QED BY <1>1, <1>2, <1>3 DEF IInv

LEMMA AskKeepsIInv ==
    ASSUME IInv, NEW c \in Calls, Ask(c)
    PROVE  IInv'
<1>1. ListInv'
  BY SameList DEF IInv, Ask
<1>2. CallType'
  BY DEF IInv, Ask, CallType, locals
<1>3. CallInv'
  <2>1. c # NoCall /\ result = Pending /\ UNCHANGED <<result, m_size>>
    BY CallFacts DEF IInv, Ask, CallInv, list
  <2> QED BY <2>1 DEF Ask, CallInv
<1>4. LevelsInv' /\ SearchInv' /\ MakeInv'
  BY DEF IInv, Ask, LevelsInv, UsedLevel, SearchInv, MakeInv, list
<1> QED BY <1>1, <1>2, <1>3, <1>4 DEF IInv

LEMMA StartSearchKeepsIInv ==
    ASSUME IInv, StartSearch
    PROVE  IInv'
<1>1. ListInv'
  BY SameList DEF IInv, StartSearch
<1>2. CallType' /\ CallInv'
  <2>1. m_level \in 0 .. MaxLevel - 1 /\ MaxLevel \in Nat /\ UNCHANGED m_size
    BY ListTypes DEF IInv, ListInv, ListType, StartSearch, list
  <2> QED BY <2>1 DEF IInv, StartSearch, CallType, CallInv
<1>3. LevelsInv' /\ MakeInv'
  BY DEF IInv, StartSearch, LevelsInv, UsedLevel, MakeInv, list
<1>4. SearchInv'
  <2>1. x' = Head /\ l' = m_level - 1 /\ UNCHANGED <<list, call>>
        /\ m_level \in 0 .. MaxLevel - 1
    BY DEF IInv, StartSearch, ListInv, ListType
  <2>2. OnLevel(x, l)'
    BY <2>1 DEF OnLevel
  <2>3. BeforeKey(x)'
    BY <2>1 DEF BeforeKey
  <2>4. ASSUME m_level = 0
        PROVE  forward[Head][0] = End
    <3>1. forward[Head][0] \in nodes \cup {End} /\ 0 \in Levels
      BY OnBottom, Successor DEF IInv
    <3>2. forward[Head][0] \notin nodes
      <4> SUFFICES ASSUME NEW n \in nodes PROVE FALSE
        OBVIOUS
      <4>1. n # Head /\ OnLevel(n, 0)
        BY OnBottom, ListTypes DEF IInv
      <4> QED BY <2>4, <3>1, <4>1
              DEF IInv, LevelsInv, UsedLevel, OnLevel, StartSearch
    <3> QED BY <3>1, <3>2
  <2>5. l' < 0 => Next0(x)' = End
    BY <2>1, <2>4 DEF Next0, list
  <2>6. l' < 0 => NotBeforeKey(Next0(x))'
    BY <2>1, <2>4 DEF Next0, list, NotBeforeKey
  <2>7. \A i \in l' + 1 .. m_level' - 1 : FALSE
    BY <2>1 DEF list
  <2> QED BY <2>1, <2>2, <2>3, <2>5, <2>6, <2>7 DEF SearchInv, list, OnLevel
<1> QED BY <1>1, <1>2, <1>3, <1>4 DEF IInv

\* Where a search that is not over stands, and what it sees on its level.
LEMMA SearchFacts ==
    ASSUME IInv, pc = "search", l >= 0
    PROVE  /\ l \in Levels /\ l \in Int /\ m_level \in Int /\ l < m_level
           /\ x \in nodes \cup {Head}
           /\ OnLevel(x, l) /\ (call.op # "last" => BeforeKey(x))
           /\ forward[x][l] \in nodes \cup {End}
           /\ forward[x][l] \in nodes =>
                 OnLevel(forward[x][l], l) /\ OnLevel(forward[x][l], 0)
           /\ GoesRight <=> forward[x][l] \in nodes
                            /\ (call.op # "last" => keyOf[forward[x][l]] < call.key)
<1>1. /\ l \in Levels /\ l \in Int /\ m_level \in Int /\ l < m_level
      /\ x \in nodes \cup {Head} /\ OnLevel(x, l)
      /\ (call.op # "last" => BeforeKey(x))
  BY ListTypes DEF IInv, SearchInv, CallType, ListInv, ListType
<1>2. /\ forward[x][l] \in nodes \cup {End}
      /\ forward[x][l] \in nodes => OnLevel(forward[x][l], l)
  BY <1>1, Successor DEF IInv
<1>3. forward[x][l] \in nodes => OnLevel(forward[x][l], 0)
  BY <1>2, OnBottom DEF IInv
<1> QED BY <1>1, <1>2, <1>3, ListTypes DEF IInv, GoesRight

LEMMA MoveRightKeepsIInv ==
    ASSUME IInv, MoveRight
    PROVE  IInv'
<1>0. pc = "search" /\ l >= 0 /\ GoesRight /\ x' = forward[x][l]
      /\ UNCHANGED <<list, pc, call, result, l, update, new_level, old_level>>
  BY DEF MoveRight
<1>1. ListInv' /\ \A n, i : OnLevel(n, i)' <=> OnLevel(n, i)
  BY <1>0, SameList DEF IInv
<1>2. x' \in nodes /\ OnLevel(x', l) /\ (call.op # "last" => keyOf[x'] < call.key)
  BY <1>0, SearchFacts
<1>3. CallType' /\ CallInv'
  BY <1>0, <1>2, ListTypes DEF IInv, CallType, CallInv, list
<1>4. LevelsInv' /\ MakeInv'
  BY <1>0 DEF IInv, LevelsInv, UsedLevel, MakeInv, list
<1>5. SearchInv'
  <2>1. \A n, i : Brackets(n, i)' <=> Brackets(n, i)
    BY <1>0, <1>1 DEF Brackets, BeforeKey, NotBeforeKey, list
  <2>2. BeforeKey(x)' <=> (x' = Head \/ (x' \in nodes /\ keyOf[x'] < call.key))
    BY <1>0 DEF BeforeKey, list
  <2>3. OnLevel(x, l)'
    BY <1>0, <1>2 DEF OnLevel, list
  <2>4. UNCHANGED <<nodes, m_level, l, call, update>>
    BY <1>0 DEF list
  <2>5. call.op \in Updates =>
            \A i \in l + 1 .. m_level - 1 : Brackets(update[i], i)'
    BY <1>0, <2>1, <2>4 DEF IInv, SearchInv
  <2>6. l < m_level /\ ~(l < 0)
    BY <1>0, SearchFacts
  <2> QED BY <1>0, <1>2, <2>2, <2>3, <2>4, <2>5, <2>6 DEF SearchInv
<1> QED BY <1>1, <1>3, <1>4, <1>5 DEF IInv

LEMMA MoveDownKeepsIInv ==
    ASSUME IInv, MoveDown
    PROVE  IInv'
<1>0. /\ pc = "search" /\ l >= 0 /\ ~GoesRight /\ l' = l - 1
      /\ update' = IF call.op \in Updates THEN [update EXCEPT ![l] = x] ELSE update
      /\ UNCHANGED <<list, pc, call, result, x, new_level, old_level>>
  BY DEF MoveDown
<1>1. ListInv' /\ \A n, i : OnLevel(n, i)' <=> OnLevel(n, i)
  BY <1>0, SameList DEF IInv
<1>2. CallType' /\ CallInv'
  BY <1>0, ListTypes DEF IInv, CallType, CallInv, list
<1>3. LevelsInv' /\ MakeInv'
  BY <1>0 DEF IInv, LevelsInv, UsedLevel, MakeInv, list
<1>4. SearchInv'
  <2>1. \A n, i : Brackets(n, i)' <=> Brackets(n, i)
    BY <1>0, <1>1 DEF Brackets, BeforeKey, NotBeforeKey, list
  <2>2. l \in Levels /\ l \in Int /\ m_level \in Int /\ l < m_level /\ x \in nodes \cup {Head} /\ OnLevel(x, l)
        /\ (call.op # "last" => BeforeKey(x))
    BY <1>0, SearchFacts
  <2>3. /\ call.op # "last" => NotBeforeKey(forward[x][l])
        /\ call.op = "last" => forward[x][l] = End
    BY <1>0, SearchFacts DEF NotBeforeKey
  <2>4. call.op \in Updates => Brackets(x, l)
    BY <2>2, <2>3 DEF Brackets, Updates
  <2>5. \A j \in Levels : j < l => OnLevel(x, j)
    BY <2>2, OnBottom DEF IInv
  <2>6. l' >= 0 => OnLevel(x, l')
    BY <1>0, <2>2, <2>5, ListTypes DEF IInv
  <2>7. l' < 0 => l = 0
    BY <1>0, <2>2
  <2>8. ASSUME call.op \in Updates, NEW i \in l' + 1 .. m_level - 1
        PROVE  Brackets(update'[i], i)
    <3>1. i \in Levels /\ update \in [Levels -> Node \cup {Head, Null}]
      BY <1>0, <2>2, <2>8, ListTypes DEF IInv, CallType, ListInv, ListType
    <3>2. CASE i = l
      BY <1>0, <2>4, <2>8, <3>1, <3>2
    <3>3. CASE i # l
      <4>1. i \in l + 1 .. m_level - 1
        BY <1>0, <2>2, <2>8, <3>3
      <4>2. Brackets(update[i], i)
        BY <1>0, <2>8, <4>1 DEF IInv, SearchInv
      <4> QED BY <1>0, <2>8, <3>1, <3>3, <4>2
    <3> QED BY <3>2, <3>3
  <2>9. \A n : (BeforeKey(n)' <=> BeforeKey(n)) /\ (NotBeforeKey(n)' <=> NotBeforeKey(n))
        /\ (Next0(n)' = Next0(n))
    BY <1>0 DEF BeforeKey, NotBeforeKey, Next0, list
  <2>10. l' < 0 => IF call.op = "last" THEN Next0(x) = End ELSE NotBeforeKey(Next0(x))
    BY <2>3, <2>7 DEF Next0
  <2>11. /\ l' < m_level /\ x \in nodes \cup {Head}
         /\ (call.op # "last" => BeforeKey(x))
    BY <1>0, <2>2
  <2>12. UNCHANGED <<nodes, keyOf, forward, m_level, x, call>>
    BY <1>0 DEF list
  <2>13. call.op \in Updates => \A i \in l' + 1 .. m_level - 1 : Brackets(update[i], i)'
    BY <2>1, <2>8
  <2>14. l' < 0 => IF call.op = "last" THEN Next0(x)' = End ELSE NotBeforeKey(Next0(x))'
    BY <2>10, <2>12 DEF Next0, NotBeforeKey
  <2>15. (BeforeKey(x)' <=> BeforeKey(x)) /\ (l' >= 0 => OnLevel(x, l)')
    BY <2>6, <2>12 DEF BeforeKey, OnLevel
  <2> QED BY <2>11, <2>12, <2>13, <2>14, <2>15 DEF SearchInv
<1> QED BY <1>1, <1>2, <1>3, <1>4 DEF IInv

\* Where a search that is over stands: between two neighbours of the bottom
\* chain that the key belongs between.
LEMMA ArrivedFacts ==
    ASSUME IInv, Arrived
    PROVE  /\ 0 \in Levels /\ call \in Calls /\ call.op # "clear"
           /\ call.op # "last" => call.key \in Key /\ call.key \in Int
           /\ x \in nodes \cup {Head} /\ OnLevel(x, 0)
           /\ Next0(x) \in nodes \cup {End}
           /\ call.op # "last" => BeforeKey(x) /\ NotBeforeKey(Next0(x))
           /\ call.op = "last" => Next0(x) = End
           /\ Next0(x) \in nodes /\ x \in nodes => keyOf[x] < keyOf[Next0(x)]
           /\ \A n \in nodes : \/ x \in nodes /\ keyOf[n] <= keyOf[x]
                               \/ Next0(x) \in nodes /\ keyOf[Next0(x)] <= keyOf[n]
           /\ Hit <=> Next0(x) \in nodes /\ keyOf[Next0(x)] = call.key
           /\ call.op # "last" /\ ~Hit => \A n \in nodes : keyOf[n] # call.key
           /\ call.op \in Updates =>
                  \A i \in 0 .. m_level - 1 : Brackets(update[i], i)
<1>1. /\ 0 \in Levels /\ call \in Calls /\ call.op # "clear"
      /\ call.op # "last" => call.key \in Key /\ call.key \in Int
  BY CallFacts, ListTypes DEF IInv, Arrived, CallInv
<1>2. /\ x \in nodes \cup {Head} /\ OnLevel(x, 0)
      /\ Next0(x) \in nodes \cup {End}
      /\ call.op # "last" => BeforeKey(x) /\ NotBeforeKey(Next0(x))
      /\ call.op = "last" => Next0(x) = End
  <2>1. x \in nodes \cup {Head} /\ (call.op # "last" => BeforeKey(x))
    BY DEF IInv, Arrived, SearchInv
  <2>2. OnLevel(x, 0) /\ Next0(x) \in nodes \cup {End}
    BY <1>1, <2>1, OnBottom, Successor DEF IInv, Next0
  <2> QED BY <2>1, <2>2 DEF IInv, Arrived, SearchInv
<1>3. \A n \in nodes : OnLevel(n, 0)
  BY OnBottom DEF IInv
<1>4. /\ Next0(x) \in nodes /\ x \in nodes => keyOf[x] < keyOf[Next0(x)]
      /\ \A n \in nodes : \/ x \in nodes /\ keyOf[n] <= keyOf[x]
                          \/ Next0(x) \in nodes /\ keyOf[Next0(x)] <= keyOf[n]
  <2>1. \A n \in nodes : x = Head \/ keyOf[x] < keyOf[n]
           => Next0(x) \in nodes /\ keyOf[Next0(x)] <= keyOf[n]
    BY <1>1, <1>2, <1>3, Successor DEF IInv, Next0
  <2>2. Next0(x) \in nodes /\ x \in nodes => keyOf[x] < keyOf[Next0(x)]
    BY <1>1, <1>2, Successor DEF IInv, Next0
  <2> QED BY <1>2, <2>1, <2>2, ListTypes DEF IInv
<1>5. Hit <=> Next0(x) \in nodes /\ keyOf[Next0(x)] = call.key
  BY <1>2, ListTypes DEF IInv, Hit
<1>6. ASSUME call.op # "last", ~Hit, NEW n \in nodes
      PROVE  keyOf[n] # call.key
  <2>1. x \in nodes => keyOf[x] < call.key
    BY <1>2, <1>6, ListTypes DEF IInv, BeforeKey
  <2>2. Next0(x) \in nodes => keyOf[Next0(x)] > call.key
    BY <1>1, <1>2, <1>5, <1>6, ListTypes DEF IInv, NotBeforeKey
  <2> QED BY <1>1, <1>2, <1>4, <1>6, <2>1, <2>2, ListTypes DEF IInv
<1>7. call.op \in Updates => \A i \in 0 .. m_level - 1 : Brackets(update[i], i)
  BY ListTypes DEF IInv, Arrived, SearchInv, CallType, ListInv, ListType
<1> QED BY <1>1, <1>2, <1>4, <1>5, <1>6, <1>7

LEMMA QueryKeepsIInv ==
    ASSUME IInv, Query \/ EraseMiss
    PROVE  IInv'
<1>1. ListInv'
  BY SameList DEF IInv, Query, EraseMiss
<1>2. \A n \in nodes \cup {Head, End} : KeyAt(n) \in Key \cup Val \cup {None}
  BY ListTypes DEF IInv, KeyAt
<1>3. result' \in Outcomes /\ result' # Pending
  <2>1. CASE EraseMiss
    BY <2>1, OutcomeFacts DEF EraseMiss, Finish
  <2>2. CASE Query
    <3>1. Answer \in Key \cup Val \cup {None}
      <4>1. Arrived /\ call.op \notin Updates
        BY <2>2 DEF Query
      <4>2. /\ call.op \in {"find", "lower_bound", "upper_bound",
                            "first_bigger_equal", "first_bigger", "last"}
            /\ call.op # "last" => call.key \in Key
        BY <4>1, ArrivedFacts, CallFacts DEF Updates
      <4>3. x \in nodes \cup {Head, End} /\ Next0(x) \in nodes \cup {Head, End}
        BY <4>1, ArrivedFacts
      <4>4. Hit => Next0(Next0(x)) \in nodes \cup {Head, End}
        <5> SUFFICES ASSUME Hit PROVE Next0(Next0(x)) \in nodes \cup {Head, End}
          OBVIOUS
        <5>1. Next0(x) \in nodes /\ 0 \in Levels /\ OnLevel(Next0(x), 0)
          BY <4>1, ArrivedFacts, OnBottom DEF IInv
        <5> QED BY <5>1, Successor DEF IInv, Next0
      <4> QED BY <1>2, <4>2, <4>3, <4>4 DEF Answer
    <3> QED BY <2>2, <3>1, OutcomeFacts DEF Query, Finish
  <2> QED BY <2>1, <2>2
<1>4. /\ pc = "search" /\ UNCHANGED <<nodes, forward>> /\ m_level' = UsedLevel
      /\ pc' = "done" /\ UNCHANGED <<call, locals>>
  BY DEF Query, EraseMiss, Arrived, Finish, UsedLevel, list
<1> QED BY <1>1, <1>3, <1>4, DoneKeepsIInv

LEMMA UpdateHitKeepsIInv ==
    ASSUME IInv, UpdateHit
    PROVE  IInv'
<1>1. /\ Arrived /\ call \in Calls /\ call.op \in {"insert", "subscript"}
      /\ Next0(x) \in nodes /\ call.key \in Key
  BY ArrivedFacts DEF UpdateHit
<1>2. valOf' \in [Node -> Val \cup {None}] /\ \A n \in nodes : valOf'[n] \in Val
  BY <1>1, CallFacts, ListTypes DEF UpdateHit, IInv, ListInv, KeysInv
<1>3. ListInv'
  BY <1>2, SameChains DEF UpdateHit, IInv, ListInv, ListType
<1>4. /\ pc = "search" /\ UNCHANGED <<nodes, forward>> /\ m_level' = UsedLevel
      /\ pc' = "done" /\ UNCHANGED <<call, locals>>
      /\ result' = Answered(call.key)
  BY DEF UpdateHit, Arrived, Finish, UsedLevel
<1>5. result' \in Outcomes /\ result' # Pending
  BY <1>1, <1>4, OutcomeFacts
<1> QED BY <1>3, <1>4, <1>5, DoneKeepsIInv

LEMMA DrawLevelKeepsIInv ==
    ASSUME IInv, DrawLevel
    PROVE  IInv'
<1>0. /\ Arrived /\ call.op \in {"insert", "subscript"} /\ ~Hit
      /\ new_level' \in 1 .. MaxLevel - 1 /\ old_level' = m_level
      /\ m_level' = IF new_level' > m_level THEN new_level' ELSE m_level
      /\ update' = [i \in Levels |-> IF i \in m_level .. new_level' - 1
                                     THEN Head ELSE update[i]]
      /\ pc' = "make"
      /\ UNCHANGED <<nodes, keyOf, valOf, forward, m_size, call, result, x, l>>
  BY DEF DrawLevel
<1>1. /\ MaxLevel \in Nat /\ m_level \in 0 .. MaxLevel - 1
      /\ m_level' \in 0 .. MaxLevel - 1 /\ m_level' \in {new_level', m_level}
      /\ new_level' <= m_level' /\ m_level <= m_level'
      /\ m_level \in Int /\ m_level' \in Int /\ new_level' \in Int
  BY <1>0, ListTypes DEF IInv, ListInv, ListType
<1>2. /\ ListInv'
      /\ \A n, i : OnLevel(n, i)' <=> OnLevel(n, i)
  BY <1>0, <1>1, SameChains DEF IInv, ListInv, ListType, KeysInv
<1>3. CallType' /\ CallInv'
  <2>1. update' \in [Levels -> Node \cup {Head, Null}]
    BY <1>0 DEF IInv, CallType
  <2>2. CallType'
    <3>1. new_level' \in 0 .. MaxLevel - 1 /\ old_level' \in 0 .. MaxLevel - 1
      BY <1>0, <1>1
    <3> QED BY <1>0, <2>1, <3>1 DEF IInv, CallType
  <2>3. CallInv'
    BY <1>0 DEF IInv, CallInv, Arrived
  <2> QED BY <2>2, <2>3
<1>4. LevelsInv' /\ SearchInv'
  BY <1>0 DEF IInv, LevelsInv, UsedLevel, SearchInv, Arrived
<1>5. MakeInv'
  <2>1. \A n \in nodes : keyOf[n] # call.key
    BY <1>0, ArrivedFacts
  <2>2. \A n, i : Brackets(n, i)' <=> Brackets(n, i)
    BY <1>0, <1>2 DEF Brackets, BeforeKey, NotBeforeKey
  <2>3. PICK h \in Int, levels \in Int : new_level' = h /\ m_level' = levels
    BY <1>1
  <2>4. /\ update' = [i \in Levels |-> IF i \in m_level .. h - 1
                                       THEN Head ELSE update[i]]
        /\ levels \in {h, m_level} /\ h <= levels /\ m_level <= levels
        /\ levels <= MaxLevel - 1
    BY <1>0, <1>1, <2>3
  <2>5. ASSUME NEW i \in 0 .. levels - 1
        PROVE  Brackets(update'[i], i)
    <3>1. i \in Levels /\ i \in Int /\ i < levels
      BY <1>1, <2>4
    <3>2. CASE i < m_level
      <4>1. i \notin m_level .. h - 1 /\ i \in 0 .. m_level - 1
        BY <1>1, <3>1, <3>2
      <4>2. update'[i] = update[i]
        BY <2>4, <3>1, <4>1
      <4>3. Brackets(update[i], i)
        BY <1>0, <4>1, ArrivedFacts DEF Updates
      <4> QED BY <4>2, <4>3
    <3>3. CASE ~(i < m_level)
      <4>1. i \in m_level .. h - 1
        BY <1>1, <2>4, <3>1, <3>3
      <4>2. update'[i] = Head
        BY <2>4, <3>1, <4>1
      <4>3. forward[Head][i] \in nodes \cup {End}
            /\ (forward[Head][i] \in nodes => OnLevel(forward[Head][i], i))
        BY <3>1, Successor DEF IInv, OnLevel
      <4>4. forward[Head][i] = End
        BY <1>0, <3>1, <3>3, <4>3, ListTypes
        DEF IInv, LevelsInv, UsedLevel, Arrived, OnLevel
      <4> QED BY <4>2, <4>4 DEF Brackets, OnLevel, BeforeKey, NotBeforeKey
    <3> QED BY <3>2, <3>3
  <2>6. \A i \in 0 .. m_level' - 1 : Brackets(update[i], i)'
    BY <2>2, <2>3, <2>5
  <2>7. new_level' >= 1
    BY <1>0
  <2> QED BY <1>0, <1>1, <2>1, <2>6, <2>7 DEF MakeInv
<1> QED BY <1>2, <1>3, <1>4, <1>5 DEF IInv

\* What the search and the draw left for the new node.
LEMMA MakeFacts ==
    ASSUME IInv, pc = "make"
    PROVE  /\ call \in Calls /\ call.op \in {"insert", "subscript"}
           /\ call.key \in Key /\ call.key \in Int
           /\ new_level \in 1 .. MaxLevel - 1
           /\ m_level \in Int /\ new_level \in Int /\ old_level \in Int
           /\ new_level <= m_level /\ old_level <= m_level
           /\ m_level \in {new_level, old_level}
           /\ \A i \in 0 .. new_level - 1 : Brackets(update[i], i)
           /\ \A n \in nodes : keyOf[n] # call.key
<1>1. call \in Calls /\ call.op \in {"insert", "subscript"}
      /\ call.key \in Key /\ call.key \in Int
  BY CallFacts, ListTypes DEF IInv, CallInv
<1>2. /\ new_level \in 0 .. MaxLevel - 1 /\ old_level \in 0 .. MaxLevel - 1
      /\ m_level \in 0 .. MaxLevel - 1 /\ MaxLevel \in Nat
  BY ListTypes DEF IInv, CallType, ListInv, ListType
<1> QED BY <1>1, <1>2 DEF IInv, MakeInv

LEMMA AddNodeKeepsIInv ==
    ASSUME IInv, AddNode
    PROVE  IInv'
<1>1. PICK n \in Node \ nodes :
         /\ nodes' = nodes \cup {n}
         /\ keyOf' = [keyOf EXCEPT ![n] = call.key]
         /\ valOf' = [valOf EXCEPT ![n] = IF call.op = "insert"
                                          THEN call.val ELSE Default]
         /\ forward' = SplicedIn(n)
  BY DEF AddNode
<1>2. /\ pc = "make" /\ m_size' = m_size + 1 /\ m_level' = m_level
      /\ result' = Answered(call.key) /\ pc' = "done" /\ UNCHANGED <<call, locals>>
  BY DEF AddNode, Finish
<1>3. PICK w \in Val : valOf' = [valOf EXCEPT ![n] = w]
  BY <1>1, <1>2, MakeFacts, CallFacts, MapAssumption
<1>4. /\ \A m \in nodes : \A i \in Levels : OnLevel(m, i)' <=> OnLevel(m, i)
      /\ \A i \in Levels : OnLevel(n, i)' <=> i < new_level
      /\ KeysInv' /\ ChainsSorted' /\ LevelsNested' /\ LinksInv'
      /\ forward' \in [Node \cup {Head} -> [Levels -> Node \cup {End, Null}]]
      /\ IsFiniteSet(nodes') /\ m_size' = Cardinality(nodes')
  BY <1>1, <1>2, <1>3, MakeFacts, SpliceIn DEF IInv
<1>5. ListInv'
  <2>1. keyOf' \in [Node -> Key \cup {None}] /\ valOf' \in [Node -> Val \cup {None}]
    BY <1>1, <1>2, <1>3, MakeFacts, ListTypes DEF IInv
  <2>2. nodes' \subseteq Node /\ m_size' \in Nat /\ m_level' \in 0 .. MaxLevel - 1
    BY <1>1, <1>2 DEF IInv, ListInv, ListType
  <2> QED BY <1>4, <2>1, <2>2 DEF ListInv, ListType
<1>6. LevelsInv'
  <2>1. m_level \in Int /\ new_level \in Int /\ old_level \in Int
        /\ new_level <= m_level /\ old_level <= m_level
        /\ m_level \in {new_level, old_level} /\ new_level >= 1
        /\ new_level <= MaxLevel - 1 /\ MaxLevel \in Nat
    BY <1>2, MakeFacts, ListTypes DEF IInv
  <2>2. ASSUME NEW m \in nodes', NEW i \in Levels, forward'[m][i] # Null
        PROVE  i < m_level
    <3>1. OnLevel(m, i)'
      BY <2>2 DEF OnLevel
    <3>2. CASE m = n
      BY <1>4, <2>1, <2>2, <3>1, <3>2
    <3>3. CASE m # n
      <4>1. m \in nodes /\ OnLevel(m, i) /\ m # Head
        BY <1>1, <1>4, <2>2, <3>1, <3>3, ListTypes DEF IInv
      <4>2. i < old_level
        BY <1>2, <2>2, <4>1 DEF IInv, LevelsInv, UsedLevel, OnLevel
      <4> QED BY <2>1, <2>2, <4>2
    <3> QED BY <3>2, <3>3
  <2>3. ASSUME m_level > 1
        PROVE  forward'[Head][m_level - 1] # End
    <3> DEFINE i == m_level - 1
    <3>1. i \in Levels /\ Head \in Node \cup {Head} /\ Head # n
      BY <1>1, <2>1, <2>3, ListTypes DEF IInv, ListInv, ListType
    <3>2. forward'[Head][i] = IF i < new_level /\ Head = update[i] THEN n
                                                     ELSE forward[Head][i]
      BY <1>1, <3>1 DEF SplicedIn
    <3>3. n # End
      BY ListTypes DEF IInv
    <3>4. CASE i < new_level /\ Head # update[i]
      <4>1. Brackets(update[i], i) /\ update[i] \in nodes
        <5>1. i \in 0 .. new_level - 1
          BY <2>1, <2>3, <3>4
        <5> QED BY <1>2, <3>4, <5>1, MakeFacts DEF Brackets, OnLevel
      <4>2. forward[Head][i] \in nodes
        BY <3>1, <4>1, Successor DEF IInv, Brackets, OnLevel
      <4> QED BY <3>2, <3>4, <4>2, ListTypes DEF IInv
    <3>5. CASE ~(i < new_level)
      <4>1. m_level = old_level
        BY <2>1, <3>5
      <4>2. forward[Head][i] # End
        BY <1>2, <2>3, <4>1 DEF IInv, LevelsInv, UsedLevel
      <4> QED BY <3>2, <3>5, <4>2
    <3> QED BY <3>2, <3>3, <3>4, <3>5
  <2> QED BY <1>2, <2>2, <2>3 DEF LevelsInv, UsedLevel
<1>7. CallType'
  <2>1. result' \in Outcomes
    BY <1>2, MakeFacts, OutcomeFacts
  <2> QED BY <1>2, <2>1 DEF IInv, CallType, locals
<1>8. CallInv' /\ SearchInv' /\ MakeInv'
  BY <1>2, OutcomeFacts DEF IInv, CallInv, SearchInv, MakeInv
<1> QED BY <1>5, <1>6, <1>7, <1>8 DEF IInv

LEMMA FailureKeepsIInv ==
    ASSUME IInv, FailToAdd \/ FailInNode \/ FailToStart
    PROVE  IInv'
<1>1. CASE FailToAdd
  <2>1. ListInv'
    BY <1>1, SameChains DEF FailToAdd, IInv, ListInv, ListType, KeysInv, CallType
  <2>2. /\ pc = "make" /\ UNCHANGED <<nodes, forward>> /\ m_level' = UsedLevel
        /\ pc' \in {"done", "terminated"} /\ UNCHANGED <<call, locals>>
    BY <1>1 DEF FailToAdd, Finish, Terminate, UsedLevel
  <2>3. result' \in Outcomes /\ (pc' = "done" <=> result' # Pending)
    BY <1>1, OutcomeFacts DEF FailToAdd, Finish, Terminate, IInv, CallInv, CallType
  <2> QED BY <2>1, <2>2, <2>3, DoneKeepsIInv
<1>2. CASE FailInNode
  <2>1. ListInv'
    BY <1>2, SameList DEF FailInNode, IInv
  <2>2. CallType' /\ CallInv'
    BY <1>2 DEF FailInNode, Terminate, IInv, CallType, CallInv, locals
  <2>3. LevelsInv' /\ SearchInv' /\ MakeInv'
    BY <1>2 DEF FailInNode, Terminate, LevelsInv, SearchInv, MakeInv
  <2> QED BY <2>1, <2>2, <2>3 DEF IInv
<1>3. CASE FailToStart
  <2>1. ListInv'
    BY <1>3, SameList DEF FailToStart, IInv
  <2>2. /\ pc = "start" /\ UNCHANGED <<nodes, forward>> /\ m_level' = UsedLevel
        /\ pc' \in {"done", "terminated"} /\ UNCHANGED <<call, locals>>
    BY <1>3 DEF FailToStart, Finish, Terminate, UsedLevel, list
  <2>3. result' \in Outcomes /\ (pc' = "done" <=> result' # Pending)
    BY <1>3, OutcomeFacts DEF FailToStart, Finish, Terminate, IInv, CallInv, CallType
  <2> QED BY <2>1, <2>2, <2>3, DoneKeepsIInv
<1> QED BY <1>1, <1>2, <1>3

LEMMA EraseHitKeepsIInv ==
    ASSUME IInv, EraseHit
    PROVE  IInv'
<1> DEFINE n == Next0(x)
<1>1. /\ Arrived /\ call.op = "erase" /\ Hit
      /\ nodes' = nodes \ {n} /\ forward' = SplicedOut(n)
      /\ keyOf' = [keyOf EXCEPT ![n] = None] /\ valOf' = [valOf EXCEPT ![n] = None]
      /\ m_level' = UsedLevels(forward', m_level)
      /\ result' = Answered(valOf[n]) /\ pc' = "done" /\ UNCHANGED <<call, locals>>
      /\ m_size' = m_size - 1
  BY DEF EraseHit, Finish
<1>2. /\ n \in nodes /\ keyOf[n] = call.key /\ call.op \in Updates /\ pc = "search"
      /\ \A i \in 0 .. m_level - 1 : Brackets(update[i], i)
      /\ 0 \in Levels
  BY <1>1, ArrivedFacts DEF Updates, Arrived
<1>3. \A m \in nodes : \A i \in Levels : OnLevel(m, i) => i < m_level
  BY <1>2, ListTypes DEF IInv, LevelsInv, UsedLevel, OnLevel
<1> HIDE DEF n
<1>4. /\ \A m \in nodes' : \A i \in Levels : OnLevel(m, i)' <=> OnLevel(m, i)
      /\ KeysInv' /\ ChainsSorted' /\ LevelsNested' /\ LinksInv'
      /\ forward' \in [Node \cup {Head} -> [Levels -> Node \cup {End, Null}]]
      /\ IsFiniteSet(nodes') /\ m_size' = Cardinality(nodes')
  BY <1>1, <1>2, <1>3, SpliceOut DEF IInv
<1>5. PICK ml \in Int : ml = m_level /\ ml \in 0 .. MaxLevel - 1
  BY ListTypes DEF IInv, ListInv, ListType
<1>6. PICK used \in 0 .. ml :
         /\ m_level' = used
         /\ used = 0 \/ forward'[Head][used - 1] # End
         /\ \A j \in used + 1 .. ml : forward'[Head][j - 1] = End
  BY <1>1, <1>5, UsedLevelsFound
<1>7. ListInv'
  <2>1. keyOf' \in [Node -> Key \cup {None}] /\ valOf' \in [Node -> Val \cup {None}]
    BY <1>1, <1>2, ListTypes DEF IInv
  <2>2. nodes' \subseteq Node /\ m_size' \in Nat
    BY <1>1, <1>4, FS_CardinalityType DEF IInv, ListInv, ListType
  <2>3. m_level' \in 0 .. MaxLevel - 1
    BY <1>5, <1>6, ListTypes DEF IInv
  <2> QED BY <1>4, <2>1, <2>2, <2>3 DEF ListInv, ListType
<1>8. LevelsInv'
  <2>1. ASSUME NEW m \in nodes', NEW i \in Levels, forward'[m][i] # Null
        PROVE  i < used
    <3>1. OnLevel(m, i) /\ m \in nodes /\ OnLevel(m, i)'
      BY <1>1, <1>4, <2>1 DEF OnLevel
    <3>2. i < ml /\ i \in Int
      BY <1>3, <1>5, <2>1, <3>1
    <3>3. forward'[Head][i] # End
      <4>1. Before(Head, m)' /\ OnLevel(Head, i)' /\ Head \in nodes' \cup {Head}
        BY <1>1, <3>1, ListTypes DEF Before, OnLevel, IInv
      <4>2. ~Before(m, forward[Head][i])'
        BY <1>4, <2>1, <3>1, <4>1 DEF ChainsSorted
      <4> QED BY <4>2 DEF Before
    <3>4. ASSUME ~(i < used)
          PROVE  FALSE
      <4>1. i + 1 \in used + 1 .. ml /\ (i + 1) - 1 = i
        BY <1>5, <1>6, <3>2, <3>4
      <4> QED BY <1>6, <3>3, <4>1
    <3> QED BY <3>4
  <2>2. used > 1 => forward'[Head][used - 1] # End
    BY <1>6
  <2> QED BY <1>1, <1>6, <2>1, <2>2 DEF LevelsInv, UsedLevel
<1>9. CallType'
  <2>1. result' \in Outcomes
    BY <1>1, <1>2, OutcomeFacts DEF IInv, ListInv, KeysInv
  <2> QED BY <1>1, <2>1 DEF IInv, CallType, locals
<1>10. CallInv' /\ SearchInv' /\ MakeInv'
  BY <1>1, <1>2, OutcomeFacts DEF IInv, CallInv, SearchInv, MakeInv
<1> QED BY <1>7, <1>8, <1>9, <1>10 DEF IInv

\* The empty list, of Init and of clear().
IsEmpty == /\ nodes = {}
           /\ keyOf = [n \in Node |-> None]
           /\ valOf = [n \in Node |-> None]
           /\ forward = [n \in Node \cup {Head} |->
                             IF n = Head THEN AllEnd ELSE NoPointers]
           /\ m_size = 0
           /\ m_level = 1

LEMMA EmptyList == IsEmpty => ListInv /\ \A n \in nodes : FALSE
<1> SUFFICES ASSUME IsEmpty PROVE ListInv
  BY DEF IsEmpty
<1>1. /\ MaxLevel \in Nat /\ MaxLevel >= 2 /\ Head # Null /\ Head \notin Node
      /\ Head # End /\ End # Null
  BY SkipListAssumption
<1>2. ListType
  <2>1. AllEnd \in [Levels -> Node \cup {End, Null}]
        /\ NoPointers \in [Levels -> Node \cup {End, Null}]
    BY DEF AllEnd, NoPointers
  <2> QED BY <1>1, <2>1 DEF IsEmpty, ListType
<1>3. \A i \in Levels : forward[Head][i] = End
  BY DEF IsEmpty, AllEnd
<1>4. ChainsSorted
  BY <1>1, <1>3 DEF IsEmpty, ChainsSorted, Before
<1>5. KeysInv /\ LevelsNested
  BY DEF IsEmpty, KeysInv, LevelsNested
<1>6. LinksInv
  BY <1>1 DEF IsEmpty, LinksInv, NoPointers
<1>7. IsFiniteSet(nodes) /\ m_size = Cardinality(nodes)
  BY FS_EmptySet DEF IsEmpty
<1> QED BY <1>2, <1>4, <1>5, <1>6, <1>7 DEF ListInv

LEMMA EmptyListNext == IsEmpty' => ListInv'
BY EmptyList, PTL

LEMMA ClearKeepsIInv ==
    ASSUME IInv, Clear
    PROVE  IInv'
<1>1. ListInv'
  BY EmptyListNext DEF Clear, IsEmpty
<1>2. pc' = "done" /\ result' = Answered(None) /\ UNCHANGED <<call, locals>>
      /\ pc = "start" /\ nodes' = {} /\ m_level' = 1
  BY DEF Clear, Finish
<1>3. CallType' /\ CallInv'
  BY <1>2, OutcomeFacts DEF IInv, CallType, CallInv, locals
<1>4. LevelsInv' /\ SearchInv' /\ MakeInv'
  BY <1>2 DEF LevelsInv, UsedLevel, SearchInv, MakeInv
<1> QED BY <1>1, <1>3, <1>4 DEF IInv

LEMMA ReturnKeepsIInv ==
    ASSUME IInv, Return
    PROVE  IInv'
<1>1. ListInv'
  BY SameList DEF Return, IInv
<1>2. CallType'
  BY SkipListAssumption, OutcomeFacts
  DEF Return, IInv, CallType, NoUpdate, NoPointers
<1>3. CallInv'
  BY DEF Return, CallInv
<1>4. LevelsInv' /\ SearchInv' /\ MakeInv'
  BY DEF Return, list, IInv, LevelsInv, UsedLevel, SearchInv, MakeInv
<1> QED BY <1>1, <1>2, <1>3, <1>4 DEF IInv

LEMMA NextKeepsIInv ==
    ASSUME IInv, [Next]_vars
    PROVE  IInv'
<1>1. CASE UNCHANGED vars
  <2>1. ListInv'
    BY <1>1, SameList DEF IInv, vars
  <2>2. UNCHANGED <<nodes, keyOf, valOf, forward, m_size, m_level, pc, call, result,
                    x, l, update, new_level, old_level>>
    BY <1>1 DEF vars, list, locals
  <2>3. CallType' /\ LevelsInv' /\ CallInv'
    BY <2>2 DEF IInv, CallType, LevelsInv, UsedLevel, CallInv
  <2>4. /\ \A n, i : Brackets(n, i)' <=> Brackets(n, i)
        /\ \A n, i : OnLevel(n, i)' <=> OnLevel(n, i)
        /\ \A n : BeforeKey(n)' <=> BeforeKey(n)
        /\ \A n : NotBeforeKey(n)' <=> NotBeforeKey(n)
        /\ \A n : Next0(n)' = Next0(n)
    BY <2>2 DEF Brackets, OnLevel, BeforeKey, NotBeforeKey, Next0
  <2>5. SearchInv' /\ MakeInv'
    BY <2>2, <2>4 DEF IInv, SearchInv, MakeInv
  <2> QED BY <2>1, <2>3, <2>5 DEF IInv
<1> QED
  BY <1>1, AskKeepsIInv, StartSearchKeepsIInv, MoveRightKeepsIInv,
     MoveDownKeepsIInv, QueryKeepsIInv, UpdateHitKeepsIInv, DrawLevelKeepsIInv,
     AddNodeKeepsIInv, FailureKeepsIInv, EraseHitKeepsIInv, ClearKeepsIInv,
     ReturnKeepsIInv DEF Next, Step

LEMMA InitIInv == Init => IInv
<1> SUFFICES ASSUME Init PROVE IInv
  OBVIOUS
<1>1. ListInv
  BY EmptyList DEF Init, IsEmpty
<1>2. CallType /\ CallInv
  BY SkipListAssumption, OutcomeFacts
  DEF Init, CallType, CallInv, NoUpdate, NoPointers
<1>3. LevelsInv /\ SearchInv /\ MakeInv
  BY DEF Init, LevelsInv, UsedLevel, SearchInv, MakeInv
<1> QED BY <1>1, <1>2, <1>3 DEF IInv

LEMMA AlwaysIInv == Spec => []IInv
BY InitIInv, NextKeepsIInv, PTL DEF Spec

-----------------------------------------------------------------------------
(* The invariants the run checks.                                           *)

\* Whatever calls are made, and wherever they fail, every level stays one
\* sorted chain through exactly its nodes, inside the one below.
THEOREM SkipListWellFormed == Spec => []WellFormed
<1>1. IInv => WellFormed
  BY DEF IInv, ListInv, ListType, CallType, WellFormed, TypeOK
<1> QED BY <1>1, AlwaysIInv, PTL

\* m_size is the number of elements; between calls m_level is the number of
\* levels in use, so that a search starts neither too low nor on nothing.
THEOREM SkipListCountsRight == Spec => []CountsRight
<1>1. IInv => CountsRight
  <2> SUFFICES ASSUME IInv PROVE LevelsCounted /\ SizeIsRight
    BY DEF CountsRight
  <2>1. LevelsCounted
    BY ListTypes DEF IInv, LevelsInv, UsedLevel, LevelsCounted, OnLevel
  <2>2. SizeIsRight
    BY DEF IInv, ListInv, KeysInv, SizeIsRight
  <2> QED BY <2>1, <2>2
<1> QED BY <1>1, AlwaysIInv, PTL

\* A search passes nothing it should not, and remembers on every level it
\* left where a node of the searched key belongs.
THEOREM SkipListSearchOnTrack == Spec => []SearchOnTrack
<1>1. IInv => SearchOnTrack
  <2> SUFFICES ASSUME IInv, pc = "search" PROVE SearchOnTrack
    BY DEF SearchOnTrack
  <2>1. /\ l >= 0 => OnLevel(x, l)
        /\ x \in nodes \cup {Head}
        /\ call.op # "last" => x = Head \/ keyOf[x] < call.key
    BY DEF IInv, SearchInv, BeforeKey
  <2>2. ASSUME call.op \in Updates, NEW i \in l + 1 .. m_level - 1
        PROVE  /\ OnLevel(update[i], i)
               /\ update[i] = Head \/ keyOf[update[i]] < call.key
               /\ forward[update[i]][i] \in nodes
                     => ~(keyOf[forward[update[i]][i]] < call.key)
    <3>1. Brackets(update[i], i)
      BY <2>2 DEF IInv, SearchInv
    <3> QED BY <3>1, ListTypes DEF IInv, Brackets, BeforeKey, NotBeforeKey
  <2> QED BY <2>1, <2>2 DEF SearchOnTrack
<1> QED BY <1>1, AlwaysIInv, PTL

-----------------------------------------------------------------------------
(* The list implements OrderedMap.  A call takes effect, and has its        *)
(* answer, in the one step that ends it.                                    *)

LEMMA SameCalls ==
    /\ Abstract!Calls = Calls /\ Abstract!NoCall = NoCall
    /\ Abstract!Pending = Pending /\ Abstract!Threw = Threw
    /\ \A v : Abstract!Answered(v) = Answered(v)
BY DEF Abstract!Calls, Calls, Abstract!NoCall, NoCall, Abstract!Pending, Pending,
       Abstract!Threw, Threw, Abstract!Answered, Answered

\* The mapping holds the value of each element under its key.
ContentShape ==
    /\ Content = [k \in Abstract!Present |-> Content[k]]
    /\ Abstract!Present = {keyOf[n] : n \in nodes}
    /\ \A n \in nodes : Content[keyOf[n]] = valOf[n]

LEMMA ContentHasShape == KeysInv => ContentShape
<1> SUFFICES ASSUME KeysInv PROVE ContentShape
  OBVIOUS
<1>1. Abstract!Present = {keyOf[n] : n \in nodes}
  BY DEF Content, Abstract!Present
<1>2. Content = [k \in Abstract!Present |-> Content[k]]
  BY DEF Content, Abstract!Present
<1>3. ASSUME NEW n \in nodes
      PROVE  Content[keyOf[n]] = valOf[n]
  <2>1. (CHOOSE m \in nodes : keyOf[m] = keyOf[n]) = n
    BY <1>3 DEF KeysInv
  <2> QED BY <1>3, <2>1 DEF Content
<1> QED BY <1>1, <1>2, <1>3 DEF ContentShape

LEMMA ContentHasShapeNext == KeysInv' => ContentShape'
BY ContentHasShape, PTL

LEMMA ShapeNow ==
    ASSUME IInv
    PROVE  /\ ContentShape
           /\ Abstract!Present \subseteq Int
           /\ \A n \in nodes : keyOf[n] \in Abstract!Present
           /\ \A k \in Abstract!Present : \E n \in nodes : keyOf[n] = k
<1>1. ContentShape
  BY ContentHasShape DEF IInv, ListInv
<1> QED BY <1>1, ListTypes DEF IInv, ContentShape

LEMMA GreatestIs ==
    ASSUME NEW S, S \subseteq Int, NEW k \in S, \A j \in S : j <= k
    PROVE  Abstract!Greatest(S) = k
<1>1. ASSUME NEW i \in S, \A j \in S : j <= i
      PROVE  i = k
  <2>1. i \in Int /\ k \in Int /\ i <= k /\ k <= i
    BY <1>1
  <2> QED BY <2>1
<1> QED BY <1>1 DEF Abstract!Greatest

LEMMA LeastIs ==
    ASSUME NEW S, S \subseteq Int, NEW k \in S, \A j \in S : k <= j
    PROVE  Abstract!Least(S) = k
<1>1. ASSUME NEW i \in S, \A j \in S : i <= j
      PROVE  i = k
  <2>1. i \in Int /\ k \in Int /\ i <= k /\ k <= i
    BY <1>1
  <2> QED BY <2>1
<1> QED BY <1>1 DEF Abstract!Least

LEMMA NoneIfEmpty ==
    /\ Abstract!Greatest({}) = None
    /\ Abstract!Least({}) = None
BY DEF Abstract!Greatest, Abstract!Least

\* What the element before x's successor, and that successor, say of the map.
LEMMA Neighbours ==
    ASSUME IInv, Arrived
    PROVE  /\ KeyAt(x) = IF x \in nodes THEN keyOf[x] ELSE None
           /\ KeyAt(Next0(x)) = IF Next0(x) \in nodes THEN keyOf[Next0(x)] ELSE None
           /\ x \in nodes => keyOf[x] \in Abstract!Present
           /\ Next0(x) \in nodes => keyOf[Next0(x)] \in Abstract!Present
           /\ \A k \in Abstract!Present :
                 \/ x \in nodes /\ k <= keyOf[x]
                 \/ Next0(x) \in nodes /\ keyOf[Next0(x)] <= k
           /\ call.op # "last" =>
                 /\ x \in nodes => keyOf[x] < call.key
                 /\ Next0(x) \in nodes => call.key <= keyOf[Next0(x)]
                 /\ Hit <=> call.key \in Abstract!Present
<1>1. /\ x \in nodes \cup {Head} /\ Next0(x) \in nodes \cup {End}
      /\ nodes \subseteq Node /\ Head \notin Node /\ End \notin Node
      /\ \A n \in nodes : keyOf[n] \in Int
  BY ArrivedFacts, ListTypes DEF IInv
<1>2. /\ \A n \in nodes : keyOf[n] \in Abstract!Present
      /\ \A k \in Abstract!Present : \E n \in nodes : keyOf[n] = k
  BY ShapeNow
<1>3. \A k \in Abstract!Present :
         \/ x \in nodes /\ k <= keyOf[x]
         \/ Next0(x) \in nodes /\ keyOf[Next0(x)] <= k
  BY <1>2, ArrivedFacts
<1>4. ASSUME call.op # "last"
      PROVE  /\ x \in nodes => keyOf[x] < call.key
             /\ Next0(x) \in nodes => call.key <= keyOf[Next0(x)]
             /\ Hit <=> call.key \in Abstract!Present
  <2>1. /\ BeforeKey(x) /\ NotBeforeKey(Next0(x)) /\ call.key \in Int
        /\ Hit <=> Next0(x) \in nodes /\ keyOf[Next0(x)] = call.key
        /\ ~Hit => \A n \in nodes : keyOf[n] # call.key
    BY <1>4, ArrivedFacts
  <2>2. x \in nodes => keyOf[x] < call.key
    BY <1>1, <2>1 DEF BeforeKey
  <2>3. Next0(x) \in nodes => call.key <= keyOf[Next0(x)]
    BY <1>1, <2>1 DEF NotBeforeKey
  <2> QED BY <1>2, <2>1, <2>2, <2>3
<1> QED BY <1>1, <1>2, <1>3, <1>4 DEF KeyAt

LEMMA QueryAnswers ==
    ASSUME IInv, Query
    PROVE  /\ call.op = "find" => Answer = Abstract!Greatest(Abstract!At(call.key))
           /\ call.op = "lower_bound" =>
                 Answer = Abstract!Greatest(Abstract!At(call.key)
                                              \cup Abstract!Below(call.key))
           /\ call.op = "upper_bound" =>
                 Answer = Abstract!Greatest(Abstract!Below(call.key))
           /\ call.op = "first_bigger_equal" =>
                 Answer = Abstract!Least(Abstract!At(call.key)
                                           \cup Abstract!Above(call.key))
           /\ call.op = "first_bigger" =>
                 Answer = Abstract!Least(Abstract!Above(call.key))
           /\ call.op = "last" => Answer = Abstract!Greatest(Abstract!Present)
<1> DEFINE P == Abstract!Present
           k == call.key
           y == Next0(x)
<1>1. /\ Arrived /\ P \subseteq Int /\ y \in nodes \cup {End}
      /\ \A n \in nodes : keyOf[n] \in Int
      /\ call.op # "last" => k \in Int
  BY ShapeNow, ArrivedFacts, ListTypes DEF Query, IInv
<1>2. /\ KeyAt(x) = IF x \in nodes THEN keyOf[x] ELSE None
      /\ KeyAt(y) = IF y \in nodes THEN keyOf[y] ELSE None
      /\ x \in nodes => keyOf[x] \in P
      /\ y \in nodes => keyOf[y] \in P
      /\ \A j \in P : \/ x \in nodes /\ j <= keyOf[x]
                      \/ y \in nodes /\ keyOf[y] <= j
      /\ call.op # "last" =>
            /\ x \in nodes => keyOf[x] < k
            /\ y \in nodes => k <= keyOf[y]
            /\ Hit <=> k \in P
  BY <1>1, Neighbours
<1>3. Hit => y \in nodes /\ keyOf[y] = k
  BY <1>1, ArrivedFacts
<1>4. /\ Abstract!At(k) = P \cap {k}
      /\ Abstract!Below(k) = {j \in P : j < k}
      /\ Abstract!Above(k) = {j \in P : j > k}
  BY DEF Abstract!At, Abstract!Below, Abstract!Above
<1> HIDE DEF P, k, y
<1>5. CASE call.op = "find"
  <2>1. Answer = IF Hit THEN k ELSE None
    BY <1>5 DEF Answer, k
  <2>2. CASE Hit
    <3>1. k \in P \cap {k} /\ P \cap {k} \subseteq Int
          /\ \A j \in P \cap {k} : j <= k
      BY <1>1, <1>2, <1>5, <2>2
    <3>2. Abstract!Greatest(P \cap {k}) = k
      BY <3>1, GreatestIs
    <3> QED BY <1>4, <1>5, <2>1, <2>2, <3>2 DEF k
  <2>3. CASE ~Hit
    <3>1. P \cap {k} = {}
      BY <1>2, <1>5, <2>3
    <3> QED BY <1>4, <1>5, <2>1, <2>3, <3>1, NoneIfEmpty DEF k
  <2> QED BY <2>2, <2>3
<1>6. CASE call.op = "lower_bound"
  <2> DEFINE S == (P \cap {k}) \cup {j \in P : j < k}
  <2>0. /\ k \in Int /\ \A j \in S : j \in P /\ j \in Int /\ j <= k
        /\ \A j \in P : j <= k => j \in S
    BY <1>1, <1>6
  <2> HIDE DEF S
  <2>1. Answer = KeyAt(IF Hit THEN y ELSE x)
    BY <1>6 DEF Answer, y
  <2>2. CASE Hit
    <3>1. k \in S /\ S \subseteq Int /\ \A j \in S : j <= k
      BY <1>1, <1>2, <1>6, <2>0, <2>2
    <3>2. Abstract!Greatest(S) = k
      BY <3>1, GreatestIs
    <3> QED BY <1>2, <1>3, <1>4, <1>6, <2>1, <2>2, <3>2 DEF k, S
  <2>3. CASE ~Hit /\ x \in nodes
    <3>1. keyOf[x] \in S /\ S \subseteq Int /\ \A j \in S : j <= keyOf[x]
      BY <1>1, <1>2, <1>6, <2>0, <2>3
    <3>2. Abstract!Greatest(S) = keyOf[x]
      BY <3>1, GreatestIs
    <3> QED BY <1>2, <1>4, <1>6, <2>1, <2>3, <3>2 DEF k, S
  <2>4. CASE ~Hit /\ x \notin nodes
    <3>1. S = {}
      BY <1>1, <1>2, <1>6, <2>0, <2>4
    <3> QED BY <1>2, <1>4, <1>6, <2>1, <2>4, <3>1, NoneIfEmpty DEF k, S
  <2> QED BY <2>2, <2>3, <2>4
<1>7. CASE call.op = "upper_bound"
  <2> DEFINE S == {j \in P : j < k}
  <2>0. /\ k \in Int /\ \A j \in S : j \in P /\ j \in Int /\ j < k
        /\ \A j \in P : j < k => j \in S
    BY <1>1, <1>7
  <2> HIDE DEF S
  <2>1. Answer = KeyAt(x)
    BY <1>7 DEF Answer
  <2>2. CASE x \in nodes
    <3>1. keyOf[x] \in S /\ S \subseteq Int /\ \A j \in S : j <= keyOf[x]
      BY <1>1, <1>2, <1>7, <2>0, <2>2
    <3>2. Abstract!Greatest(S) = keyOf[x]
      BY <3>1, GreatestIs
    <3> QED BY <1>2, <1>4, <1>7, <2>1, <2>2, <3>2 DEF k, S
  <2>3. CASE x \notin nodes
    <3>1. S = {}
      BY <1>1, <1>2, <1>7, <2>0, <2>3
    <3> QED BY <1>2, <1>4, <1>7, <2>1, <2>3, <3>1, NoneIfEmpty DEF k, S
  <2> QED BY <2>2, <2>3
<1>8. CASE call.op = "first_bigger_equal"
  <2> DEFINE S == (P \cap {k}) \cup {j \in P : j > k}
  <2>0. /\ k \in Int /\ \A j \in S : j \in P /\ j \in Int /\ k <= j
        /\ \A j \in P : k <= j => j \in S
    BY <1>1, <1>8
  <2> HIDE DEF S
  <2>1. Answer = KeyAt(y)
    BY <1>8 DEF Answer, y
  <2>2. CASE y \in nodes
    <3>1. keyOf[y] \in S /\ S \subseteq Int /\ \A j \in S : keyOf[y] <= j
      BY <1>1, <1>2, <1>8, <2>0, <2>2
    <3>2. Abstract!Least(S) = keyOf[y]
      BY <3>1, LeastIs
    <3> QED BY <1>2, <1>4, <1>8, <2>1, <2>2, <3>2 DEF k, S
  <2>3. CASE y \notin nodes
    <3>1. S = {}
      BY <1>1, <1>2, <1>8, <2>0, <2>3
    <3> QED BY <1>2, <1>4, <1>8, <2>1, <2>3, <3>1, NoneIfEmpty DEF k, S
  <2> QED BY <2>2, <2>3
<1>9. CASE call.op = "first_bigger"
  <2> DEFINE S == {j \in P : j > k}
             z == IF Hit THEN Next0(y) ELSE y
  <2>1. Answer = KeyAt(z)
    BY <1>9 DEF Answer, y
  <2>2. /\ z \in nodes \cup {End}
        /\ z \in nodes => keyOf[z] \in S
        /\ \A j \in S : z \in nodes /\ keyOf[z] <= j
    <3>1. CASE Hit
      <4>1. 0 \in Levels /\ OnLevel(y, 0) /\ y \in nodes /\ keyOf[y] = k
        BY <1>3, <3>1, OnBottom DEF IInv
      <4>2. /\ Next0(y) \in nodes \cup {End}
            /\ Next0(y) \in nodes => keyOf[y] < keyOf[Next0(y)]
            /\ \A n \in nodes : keyOf[y] < keyOf[n] =>
                  Next0(y) \in nodes /\ keyOf[Next0(y)] <= keyOf[n]
        BY <4>1, Successor, OnBottom DEF IInv, Next0
      <4>3. /\ \A n \in nodes : keyOf[n] \in P
            /\ \A j \in P : \E n \in nodes : keyOf[n] = j
        BY ShapeNow DEF P
      <4> QED BY <1>1, <3>1, <4>1, <4>2, <4>3
    <3>2. CASE ~Hit
      <4>1. y \in nodes => keyOf[y] \in P /\ keyOf[y] # k
        BY <1>2, <1>9, <3>2
      <4>2. y \in nodes => keyOf[y] > k
        BY <1>1, <1>2, <1>9, <4>1
      <4> QED BY <1>1, <1>2, <1>9, <3>2, <4>1, <4>2
    <3> QED BY <3>1, <3>2
  <2>3. KeyAt(z) = IF z \in nodes THEN keyOf[z] ELSE None
    BY <2>2, ListTypes DEF IInv, KeyAt
  <2> HIDE DEF z
  <2>4. CASE z \in nodes
    <3>1. S \subseteq Int
      BY <1>1
    <3>2. Abstract!Least(S) = keyOf[z]
      BY <2>2, <2>4, <3>1, LeastIs
    <3> QED BY <1>4, <1>9, <2>1, <2>3, <2>4, <3>2 DEF k
  <2>5. CASE z \notin nodes
    <3>1. S = {}
      BY <2>2, <2>5
    <3> QED BY <1>4, <1>9, <2>1, <2>3, <2>5, <3>1, NoneIfEmpty DEF k
  <2> QED BY <2>4, <2>5
<1>10. CASE call.op = "last"
  <2>1. Answer = KeyAt(x) /\ y \notin nodes
    BY <1>1, <1>10, ArrivedFacts, ListTypes DEF Answer, IInv, y
  <2>2. CASE x \in nodes
    <3>1. \A j \in P : j <= keyOf[x]
      BY <1>2, <2>1
    <3>2. Abstract!Greatest(P) = keyOf[x]
      BY <1>1, <1>2, <2>2, <3>1, GreatestIs
    <3> QED BY <1>2, <1>10, <2>1, <2>2, <3>2 DEF P
  <2>3. CASE x \notin nodes
    <3>1. P = {}
      BY <1>2, <2>1, <2>3
    <3> QED BY <1>2, <1>10, <2>1, <2>3, <3>1, NoneIfEmpty DEF P
  <2> QED BY <2>2, <2>3
<1> QED BY <1>5, <1>6, <1>7, <1>8, <1>9, <1>10

avars == <<Content, call, result>>

LEMMA SameContent ==
    ASSUME UNCHANGED <<nodes, keyOf, valOf>>
    PROVE  UNCHANGED Content
BY DEF Content

\* While a call is being served there is no result yet.
LEMMA ServingNow ==
    ASSUME IInv, pc \in {"start", "search", "make"}, UNCHANGED call
    PROVE  /\ Abstract!Serving(call.op)
           /\ call \in Calls /\ result = Pending
BY SameCalls DEF IInv, CallInv, Abstract!Serving

LEMMA QueryRefines ==
    ASSUME IInv, Query
    PROVE  Abstract!Next
<1>1. /\ Arrived /\ call.op \notin Updates /\ pc = "search"
      /\ result' = Answered(Answer) /\ UNCHANGED <<call, list>>
  BY DEF Query, Finish, Arrived
<1>2. Abstract!Serving(call.op) /\ UNCHANGED Content
  BY <1>1, ServingNow, SameContent DEF list
<1>3. call.op \in {"find", "lower_bound", "upper_bound", "first_bigger_equal",
                  "first_bigger", "last"}
  BY <1>1, ArrivedFacts, CallFacts DEF Updates
<1>4. Abstract!Query(call.op, Answer)
  BY <1>1, <1>2, SameCalls DEF Abstract!Query
<1> QED
  BY <1>3, <1>4, QueryAnswers
  DEF Abstract!Next, Abstract!Find, Abstract!LastLessEqual, Abstract!LastLess,
      Abstract!FirstBiggerEqual, Abstract!FirstBigger, Abstract!Last

LEMMA UpdateHitRefines ==
    ASSUME IInv, UpdateHit, KeysInv'
    PROVE  Abstract!Insert \/ Abstract!Subscript
<1>1. /\ Arrived /\ call.op \in {"insert", "subscript"} /\ Hit /\ pc = "search"
      /\ valOf' = IF call.op = "insert"
                  THEN [valOf EXCEPT ![Next0(x)] = call.val] ELSE valOf
      /\ result' = Answered(call.key)
      /\ UNCHANGED <<nodes, keyOf, call>>
  BY DEF UpdateHit, Finish, Arrived
<1>2. Abstract!Serving(call.op)
  BY <1>1, ServingNow
<1>3. /\ Next0(x) \in nodes /\ keyOf[Next0(x)] = call.key
      /\ call.key \in Abstract!Present
  BY <1>1, ArrivedFacts, ShapeNow
<1>4. CASE call.op = "insert"
  <2>1. ContentShape /\ ContentShape'
    BY ShapeNow, ContentHasShapeNext
  <2>2. Abstract!Present' = Abstract!Present
    BY <1>1, <2>1 DEF ContentShape
  <2>3. ASSUME NEW n \in nodes
        PROVE  Content'[keyOf[n]] = IF keyOf[n] = call.key THEN call.val
                                                         ELSE Content[keyOf[n]]
    <3>1. Content'[keyOf[n]] = valOf'[n] /\ Content[keyOf[n]] = valOf[n]
      BY <1>1, <2>1, <2>3 DEF ContentShape
    <3>2. valOf'[n] = IF n = Next0(x) THEN call.val ELSE valOf[n]
      BY <1>1, <1>4, <2>3, ListTypes DEF IInv, ListInv, ListType
    <3>3. n = Next0(x) <=> keyOf[n] = call.key
      BY <1>3, <2>3 DEF IInv, ListInv, KeysInv
    <3> QED BY <3>1, <3>2, <3>3
  <2>4. Content' = Abstract!With(call.key, call.val)
    <3>1. Abstract!Present \cup {call.key} = Abstract!Present
      BY <1>3
    <3>2. \A j \in Abstract!Present :
             Content'[j] = IF j = call.key THEN call.val ELSE Content[j]
      BY <2>1, <2>3 DEF ContentShape
    <3> QED BY <2>1, <2>2, <3>1, <3>2 DEF Abstract!With, ContentShape
  <2> QED BY <1>1, <1>2, <1>4, <2>4, SameCalls DEF Abstract!Insert
<1>5. CASE call.op = "subscript"
  <2>1. UNCHANGED Content
    BY <1>1, <1>5, SameContent
  <2> QED BY <1>1, <1>2, <1>3, <1>5, <2>1, SameCalls DEF Abstract!Subscript
<1> QED BY <1>1, <1>4, <1>5

LEMMA AddNodeRefines ==
    ASSUME IInv, AddNode, KeysInv'
    PROVE  Abstract!Insert \/ Abstract!Subscript
<1>1. PICK n \in Node \ nodes :
         /\ nodes' = nodes \cup {n}
         /\ keyOf' = [keyOf EXCEPT ![n] = call.key]
         /\ valOf' = [valOf EXCEPT ![n] = IF call.op = "insert"
                                          THEN call.val ELSE Default]
  BY DEF AddNode
<1>2. /\ pc = "make" /\ UNCHANGED call /\ result' = Answered(call.key)
  BY DEF AddNode, Finish
<1>3. call.op \in {"insert", "subscript"} /\ Abstract!Serving(call.op)
  BY <1>2, MakeFacts, ServingNow
<1> DEFINE w == IF call.op = "insert" THEN call.val ELSE Default
<1>4. ContentShape /\ ContentShape'
  BY ShapeNow, ContentHasShapeNext
<1>5. /\ \A m \in nodes : keyOf'[m] = keyOf[m] /\ valOf'[m] = valOf[m]
      /\ keyOf'[n] = call.key /\ valOf'[n] = w
  BY <1>1, ListTypes DEF IInv
<1> HIDE DEF w
<1>6. call.key \notin Abstract!Present
  BY <1>2, <1>4, MakeFacts DEF ContentShape
<1>7. Abstract!Present' = Abstract!Present \cup {call.key}
  BY <1>1, <1>4, <1>5 DEF ContentShape
<1>8. /\ \A j \in Abstract!Present : Content'[j] = Content[j]
      /\ Content'[call.key] = w
  <2>1. \A m \in nodes : Content'[keyOf[m]] = Content[keyOf[m]]
    BY <1>1, <1>4, <1>5 DEF ContentShape
  <2>2. Content'[call.key] = w
    BY <1>1, <1>4, <1>5 DEF ContentShape
  <2> QED BY <1>4, <2>1, <2>2 DEF ContentShape
<1>9. Content' = Abstract!With(call.key, w)
  <2>1. Content' = [j \in Abstract!Present \cup {call.key} |-> Content'[j]]
    BY <1>4, <1>7 DEF ContentShape
  <2> QED BY <1>6, <1>8, <2>1 DEF Abstract!With
<1> QED
  BY <1>2, <1>3, <1>6, <1>9, SameCalls
  DEF Abstract!Insert, Abstract!Subscript, w

LEMMA EraseRefines ==
    ASSUME IInv, EraseHit \/ EraseMiss, KeysInv'
    PROVE  Abstract!Erase
<1>1. /\ Arrived /\ call.op = "erase" /\ pc = "search" /\ UNCHANGED call
  BY DEF EraseHit, EraseMiss, Finish, Arrived
<1>2. Abstract!Serving("erase")
  BY <1>1, ServingNow
<1>3. ContentShape /\ ContentShape'
  BY ShapeNow, ContentHasShapeNext
<1>4. CASE EraseMiss
  <2>1. call.key \notin Abstract!Present
    BY <1>1, <1>4, Neighbours DEF EraseMiss
  <2>2. UNCHANGED Content
    BY <1>4, SameContent DEF EraseMiss, list
  <2>3. Abstract!Without(call.key) = Content
    BY <1>3, <2>1 DEF Abstract!Without, ContentShape
  <2> QED BY <1>2, <1>4, <2>1, <2>2, <2>3, SameCalls
          DEF Abstract!Erase, EraseMiss, Finish
<1>5. CASE EraseHit
  <2> DEFINE n == Next0(x)
  <2>1. /\ n \in nodes /\ keyOf[n] = call.key
        /\ nodes' = nodes \ {n} /\ result' = Answered(valOf[n])
        /\ keyOf' = [keyOf EXCEPT ![n] = None] /\ valOf' = [valOf EXCEPT ![n] = None]
    BY <1>1, <1>5, ArrivedFacts DEF EraseHit, Finish
  <2> HIDE DEF n
  <2>2. \A m \in nodes' : keyOf'[m] = keyOf[m] /\ valOf'[m] = valOf[m] /\ m \in nodes
    BY <2>1, ListTypes DEF IInv
  <2>3. \A m \in nodes : keyOf[m] = call.key <=> m = n
    BY <2>1 DEF IInv, ListInv, KeysInv
  <2>4. Abstract!Present' = Abstract!Present \ {call.key}
    BY <1>3, <2>1, <2>2, <2>3 DEF ContentShape
  <2>5. \A j \in Abstract!Present \ {call.key} : Content'[j] = Content[j]
    <3>1. \A m \in nodes' : Content'[keyOf[m]] = Content[keyOf[m]]
      BY <1>3, <2>2 DEF ContentShape
    <3> QED BY <1>3, <2>1, <2>3, <3>1 DEF ContentShape
  <2>6. Content' = Abstract!Without(call.key)
    <3>1. Content' = [j \in Abstract!Present \ {call.key} |-> Content'[j]]
      BY <1>3, <2>4 DEF ContentShape
    <3> QED BY <2>5, <3>1 DEF Abstract!Without
  <2>7. call.key \in Abstract!Present /\ Content[call.key] = valOf[n]
    BY <1>3, <2>1 DEF ContentShape
  <2> QED BY <1>2, <2>1, <2>6, <2>7, SameCalls DEF Abstract!Erase
<1> QED BY <1>4, <1>5

LEMMA ClearRefines ==
    ASSUME IInv, Clear
    PROVE  Abstract!Clear
<1>1. pc = "start" /\ call.op = "clear" /\ UNCHANGED call /\ nodes' = {}
      /\ result' = Answered(None)
  BY DEF Clear, Finish
<1>2. Content' = [k \in {} |-> Default]
  BY <1>1 DEF Content
<1> QED BY <1>1, <1>2, ServingNow, SameCalls DEF Abstract!Clear

LEMMA AskRefines ==
    ASSUME IInv, NEW c \in Calls, Ask(c)
    PROVE  Abstract!Ask(c)
<1>1. c.op = "last" => Abstract!Present # {}
  <2> SUFFICES ASSUME c.op = "last" PROVE Abstract!Present # {}
    OBVIOUS
  <2>1. nodes # {}
    BY FS_EmptySet DEF Ask, IInv, ListInv, ListType
  <2> QED BY <2>1, ShapeNow
<1>2. UNCHANGED Content
  BY SameContent DEF Ask, list
<1> QED BY <1>1, <1>2, SameCalls DEF Ask, IInv, CallInv, Abstract!Ask

LEMMA StepRefines ==
    ASSUME IInv, IInv', [Next]_vars
    PROVE  Abstract!Next \/ UNCHANGED avars
<1>0. KeysInv'
  BY DEF IInv, ListInv
<1>1. ASSUME FailToAdd \/ FailToStart
      PROVE  Abstract!Throw \/ UNCHANGED avars
  <2>1. /\ pc \in {"start", "make"} /\ UNCHANGED <<nodes, keyOf, valOf, call>>
        /\ result' = result \/ (result' = Threw /\ call.op \in {"insert", "erase"})
    BY <1>1 DEF FailToAdd, FailToStart, Finish, Terminate, list, Updates
  <2>2. UNCHANGED Content
    BY <2>1, SameContent
  <2>3. Abstract!Serving(call.op)
    BY <2>1, ServingNow
  <2> QED BY <2>1, <2>2, <2>3, SameCalls DEF Abstract!Throw, avars
<1>2. ASSUME \/ StartSearch \/ MoveRight \/ MoveDown \/ DrawLevel
             \/ FailInNode \/ UNCHANGED vars
      PROVE  UNCHANGED avars
  <2>1. UNCHANGED <<nodes, keyOf, valOf, call, result>>
    BY <1>2 DEF StartSearch, MoveRight, MoveDown, DrawLevel, FailInNode,
                Terminate, vars, list
  <2> QED BY <2>1, SameContent DEF avars
<1>3. ASSUME Return
      PROVE  Abstract!Return
  <2>1. UNCHANGED Content /\ result # Pending
    BY <1>3, SameContent DEF Return, list, IInv, CallInv
  <2> QED BY <1>3, <2>1, SameCalls DEF Return, Abstract!Return
<1>4. ASSUME NEW c \in Calls, Ask(c)
      PROVE  Abstract!Next
  BY <1>4, AskRefines, SameCalls DEF Abstract!Next
<1>5. ASSUME Clear \/ EraseHit \/ EraseMiss \/ AddNode \/ UpdateHit
      PROVE  Abstract!Next
  BY <1>0, <1>5, ClearRefines, EraseRefines, AddNodeRefines, UpdateHitRefines
  DEF Abstract!Next
<1>6. ASSUME Abstract!Throw \/ Abstract!Return
      PROVE  Abstract!Next
  BY <1>6 DEF Abstract!Next
<1> QED
  BY <1>1, <1>2, <1>3, <1>4, <1>5, <1>6, QueryRefines DEF Next, Step

\* Through all its levels, heights and failures the list is a map: what calls
\* answer and change are what they would of a function from keys to values.
THEOREM SkipListImplementsOrderedMap == Spec => ImplementsOrderedMap
<1>1. Init => Abstract!Init
  <2> SUFFICES ASSUME Init PROVE Abstract!Init
    OBVIOUS
  <2>1. Content = [k \in {} |-> Default]
    BY DEF Init, Content
  <2> QED BY <2>1, SameCalls DEF Init, Abstract!Init
<1>2. IInv /\ IInv' /\ [Next]_vars => [Abstract!Next]_(Abstract!vars)
  BY StepRefines DEF avars, Abstract!vars
<1> QED
  BY <1>1, <1>2, AlwaysIInv, PTL DEF Spec, ImplementsOrderedMap, Abstract!Spec
=============================================================================
