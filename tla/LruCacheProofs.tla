--------------------------- MODULE LruCacheProofs ---------------------------
(***************************************************************************)
(* Proofs about the lru_cache: its list and its map stay in step whatever  *)
(* is thrown, it outgrows its capacity by no more than what failed map     *)
(* insertions left, and it is the map by recency of RecencyMap.            *)
(***************************************************************************)
EXTENDS LruCache, SequenceTheorems, FiniteSetTheorems, TLAPS

Items == [key : Key, val : Val]

\* A list l, items it and a map m in step: every listed node is there once and
\* holds a key and a value, and the map leads to nodes of the list.
InStep(l, it, m) ==
    /\ l \in Seq(Node)
    /\ \A i, j \in 1..Len(l) : l[i] = l[j] => i = j
    /\ it \in [Node -> Items \cup {None}]
    /\ \A i \in 1..Len(l) : it[l[i]] \in Items
    /\ m \in [Key -> Node \cup {None}]
    /\ \A k \in Key : m[k] # None => /\ \E i \in 1..Len(l) : l[i] = m[k]
                                     /\ it[m[k]].key = k

\* The list's nodes, and those of them the map does not lead to.
Nodes(l) == {l[i] : i \in 1..Len(l)}
Orphans(l, it, m) == {n \in Nodes(l) : m[it[n].key] # n}

InStepInv == InStep(m_cache_list, item, m_cache_map)
CountInv == /\ failed \in Nat
            /\ Cardinality(Orphans(m_cache_list, item, m_cache_map)) <= failed
            /\ Len(m_cache_list) <= Capacity + failed

\* The inductive invariant: what ContainersAgree says, with every node's item.
IInv == InStepInv /\ CountInv

-----------------------------------------------------------------------------
(* Sequences and sets.                                                     *)

\* A function on 1..n is a sequence of length n.
LEMMA FunctionIsSequence ==
    ASSUME NEW S, NEW n \in Nat, NEW f \in [1..n -> S]
    PROVE  f \in Seq(S) /\ Len(f) = n
<1>1. f \in Seq(S)
  BY SeqDef
<1>2. DOMAIN f = 1..n /\ DOMAIN f = 1..Len(f) /\ Len(f) \in Nat
  BY <1>1, LenProperties
<1> QED
  BY <1>1, <1>2

\* A list without repetitions has as many nodes as its length.
LEMMA NodesCounted ==
    ASSUME NEW l \in Seq(Node), \A i, j \in 1..Len(l) : l[i] = l[j] => i = j
    PROVE  /\ IsFiniteSet(Nodes(l)) /\ Cardinality(Nodes(l)) = Len(l)
           /\ Nodes(l) \subseteq Node
<1> DEFINE f == [i \in 1..Len(l) |-> l[i]]
<1>1. Len(l) \in Nat /\ l \in [1..Len(l) -> Node]
  BY LenProperties
<1>2. f \in Bijection(1..Len(l), Nodes(l))
  BY <1>1 DEF Bijection, Injection, Surjection, Nodes, IsInjective
<1>3. ExistsBijection(1..Len(l), Nodes(l))
  BY <1>2 DEF ExistsBijection
<1>4. Cardinality(Nodes(l)) = Len(l)
  BY <1>1, <1>3, FS_CountingElements
<1>5. IsFiniteSet(Nodes(l))
  BY <1>1, <1>3, FS_NatBijection
<1> QED
  BY <1>1, <1>4, <1>5 DEF Nodes

\* The keys a map in step leads from are as many as the nodes it leads to.
LEMMA KeysCounted ==
    ASSUME NEW l, NEW it, NEW m, InStep(l, it, m)
    PROVE  LET keys == {k \in Key : m[k] # None}
           IN  /\ IsFiniteSet(keys)
               /\ Cardinality(keys) = Len(l) - Cardinality(Orphans(l, it, m))
               /\ Cardinality(Orphans(l, it, m)) \in Nat
               /\ IsFiniteSet(Orphans(l, it, m))
<1> DEFINE keys == {k \in Key : m[k] # None}
           lead == Nodes(l) \ Orphans(l, it, m)
           f == [k \in keys |-> m[k]]
<1>1. /\ IsFiniteSet(Nodes(l)) /\ Cardinality(Nodes(l)) = Len(l)
      /\ Len(l) \in Nat /\ None \notin Nodes(l)
  BY NodesCounted, LenProperties, LruAssumption DEF InStep
<1>2. \A n \in Nodes(l) : it[n] \in Items /\ it[n].key \in Key
  BY DEF InStep, Nodes, Items
<1>3. \A k \in keys : m[k] \in Nodes(l) /\ it[m[k]].key = k
  BY DEF InStep, Nodes
<1>4. f \in [keys -> lead]
  BY <1>3 DEF Orphans
<1>5. \A k1, k2 \in keys : f[k1] = f[k2] => k1 = k2
  BY <1>3
<1>6. \A n \in lead : \E k \in keys : f[k] = n
  <2> SUFFICES ASSUME NEW n \in lead PROVE \E k \in keys : f[k] = n
    OBVIOUS
  <2>1. n \in Nodes(l) /\ m[it[n].key] = n /\ n # None
    BY <1>1 DEF Orphans
  <2>2. it[n].key \in keys
    BY <2>1, <1>2
  <2> QED
    BY <2>1, <2>2
<1>7. f \in Injection(keys, lead) /\ f \in Surjection(keys, lead)
  BY <1>4, <1>5, <1>6 DEF Injection, Surjection, IsInjective
<1>8. IsFiniteSet(lead)
  BY <1>1, FS_Difference
<1>9. IsFiniteSet(keys) /\ Cardinality(keys) = Cardinality(lead)
  BY <1>7, <1>8, FS_Injection
<1>10. /\ Cardinality(Orphans(l, it, m)) \in Nat
       /\ IsFiniteSet(Orphans(l, it, m))
  BY <1>1, FS_Subset, FS_CardinalityType DEF Orphans
<1>11. Nodes(l) \cap Orphans(l, it, m) = Orphans(l, it, m)
  BY DEF Orphans
<1>12. Cardinality(lead) = Len(l) - Cardinality(Orphans(l, it, m))
  BY <1>1, <1>11, FS_Difference
<1> QED
  BY <1>9, <1>10, <1>12

-----------------------------------------------------------------------------
(* The three ways a call changes the list.                                 *)

\* Node a stands before node b.
Ahead(l, a, b) == \E i, j \in 1..Len(l) : i < j /\ l[i] = a /\ l[j] = b

\* List l2 has the nodes of l and x, x in front and the others in l's order.
InFront(x, l, l2) ==
    /\ l2 \in Seq(Node)
    /\ \A i, j \in 1..Len(l2) : l2[i] = l2[j] => i = j
    /\ Nodes(l2) = Nodes(l) \cup {x}
    /\ \A b : Ahead(l2, x, b) <=> b \in Nodes(l) \ {x}
    /\ \A a : ~Ahead(l2, a, x)
    /\ \A a, b : a # x /\ b # x => (Ahead(l2, a, b) <=> Ahead(l, a, b))

\* The node a splice puts in front of the list that had it at position at.
LEMMA MovedToFront ==
    ASSUME NEW l \in Seq(Node), \A i, j \in 1..Len(l) : l[i] = l[j] => i = j,
           NEW at \in 1..Len(l), NEW l2,
           l2 = [i \in 1..Len(l) |-> CASE i = 1 -> l[at]
                                       [] 1 < i /\ i <= at -> l[i - 1]
                                       [] at < i -> l[i]]
    PROVE  InFront(l[at], l, l2) /\ Len(l2) = Len(l)
<1> DEFINE n == Len(l)
           old(i) == IF i = 1 THEN at ELSE IF i <= at THEN i - 1 ELSE i
           new(i) == IF i = at THEN 1 ELSE IF i < at THEN i + 1 ELSE i
<1>1. n \in Nat /\ l \in [1..n -> Node] /\ at \in 1..n /\ at \in Int
  BY LenProperties
<1>2. \A i \in 1..n : old(i) \in 1..n /\ new(i) \in 1..n /\ old(new(i)) = i /\ new(old(i)) = i
  <2> TAKE i \in 1..n
  <2>0. n \in Nat /\ i \in Int
    BY <1>1
  <2>1. old(i) \in 1..n /\ new(i) \in 1..n
    BY <1>1
  <2>2. new(old(i)) = i
    <3>1. CASE i = 1
      BY <3>1
    <3>2. CASE i # 1 /\ i <= at
      BY <3>2, <2>0, <1>1
    <3>3. CASE i > at
      BY <3>3, <2>0, <1>1
    <3> QED
      BY <3>1, <3>2, <3>3, <2>0, <1>1
  <2>3. old(new(i)) = i
    <3>1. CASE i = at
      BY <3>1
    <3>2. CASE i < at
      BY <3>2, <2>0, <1>1
    <3>3. CASE i > at
      BY <3>3, <2>0, <1>1
    <3> QED
      BY <3>1, <3>2, <3>3, <2>0, <1>1
  <2> QED
    BY <2>1, <2>2, <2>3
<1>3. \A i \in 1..n : l2[i] = l[old(i)]
  <2> SUFFICES ASSUME NEW i \in 1..n PROVE l2[i] = l[old(i)]
    OBVIOUS
  <2>1. CASE i = 1
    BY <2>1, <1>1
  <2>2. CASE i # 1 /\ i <= at
    BY <2>2, <1>1
  <2>3. CASE i # 1 /\ ~(i <= at)
    <3>1. at < i /\ ~(1 < i /\ i <= at)
      BY <2>3, <1>1
    <3> QED
      BY <2>3, <3>1, <1>1
  <2> QED
    BY <2>1, <2>2, <2>3
<1>4. l2 \in [1..n -> Node]
  BY <1>1, <1>2, <1>3
<1>5. l2 \in Seq(Node) /\ Len(l2) = n
  BY <1>1, <1>4, FunctionIsSequence
<1>6. \A i \in 1..n : l2[new(i)] = l[i]
  BY <1>2, <1>3
<1>7. old(1) = at /\ new(at) = 1 /\ 1 \in 1..n
  BY <1>1
<1>8. \A i, j \in 1..n : i < j /\ i # at /\ j # at => new(i) < new(j)
  BY <1>1
<1>9. \A i, j \in 1..n : i < j /\ i # 1 /\ j # 1 => old(i) < old(j)
  BY <1>1
<1>10. \A j \in 1..n : j # at => 1 < new(j)
  BY <1>1
<1>11. \A i \in 1..n : ~(i < 1)
  BY <1>1
<1> HIDE DEF old, new
<1>12. \A i, j \in 1..n : l2[i] = l2[j] => i = j
  <2> TAKE i, j \in 1..n
  <2> HAVE l2[i] = l2[j]
  <2>1. old(i) \in 1..n /\ old(j) \in 1..n /\ l[old(i)] = l[old(j)]
    BY <1>2, <1>3
  <2>2. old(i) = old(j)
    BY <2>1
  <2> QED
    BY <2>2, <1>2
<1>13. Nodes(l2) = Nodes(l) \cup {l[at]}
  <2>1. ASSUME NEW i \in 1..n PROVE l2[i] \in Nodes(l)
    <3>1. l2[i] = l[old(i)] /\ old(i) \in 1..n
      BY <1>2, <1>3
    <3> QED
      BY <3>1 DEF Nodes
  <2>2. \A i \in 1..n : l[i] \in Nodes(l2)
    BY <1>2, <1>5, <1>6 DEF Nodes
  <2>3. Nodes(l2) \subseteq Nodes(l) /\ l[at] \in Nodes(l)
    BY <2>1, <1>5 DEF Nodes
  <2>4. Nodes(l) \subseteq Nodes(l2)
    BY <2>2 DEF Nodes
  <2> QED
    BY <2>3, <2>4
<1>14. l2[1] = l[at]
  BY <1>3, <1>7
<1>15. \A b : Ahead(l2, l[at], b) <=> b \in Nodes(l) \ {l[at]}
  <2>1. ASSUME NEW b, Ahead(l2, l[at], b) PROVE b \in Nodes(l) \ {l[at]}
    <3>1. PICK i, j \in 1..n : i < j /\ l2[i] = l[at] /\ l2[j] = b
      BY <2>1, <1>5 DEF Ahead
    <3>2. i = 1 /\ j # 1
      BY <3>1, <1>12, <1>14, <1>7, <1>11
    <3>3. l2[j] # l[at]
      BY <3>2, <1>12, <1>14, <1>7
    <3> QED
      BY <3>1, <3>3, <1>5, <1>13 DEF Nodes
  <2>2. ASSUME NEW b \in Nodes(l), b # l[at] PROVE Ahead(l2, l[at], b)
    <3>1. PICK j \in 1..n : l[j] = b
      BY DEF Nodes
    <3>2. 1 < new(j) /\ l2[new(j)] = b /\ new(j) \in 1..n
      BY <3>1, <2>2, <1>10, <1>6, <1>2
    <3> QED
      BY <3>2, <1>5, <1>7, <1>14 DEF Ahead
  <2> QED
    BY <2>1, <2>2
<1>16. \A a : ~Ahead(l2, a, l[at])
  BY <1>5, <1>7, <1>11, <1>12, <1>14 DEF Ahead
<1>17. \A a, b : a # l[at] /\ b # l[at] => (Ahead(l2, a, b) <=> Ahead(l, a, b))
  <2> SUFFICES ASSUME NEW a, NEW b, a # l[at], b # l[at]
               PROVE  Ahead(l2, a, b) <=> Ahead(l, a, b)
    OBVIOUS
  <2>1. ASSUME Ahead(l2, a, b) PROVE Ahead(l, a, b)
    <3>1. PICK i, j \in 1..n : i < j /\ l2[i] = a /\ l2[j] = b
      BY <2>1, <1>5 DEF Ahead
    <3>2. i # 1 /\ j # 1
      BY <3>1, <1>14
    <3>3. old(i) < old(j) /\ old(i) \in 1..n /\ old(j) \in 1..n
          /\ l[old(i)] = a /\ l[old(j)] = b
      BY <3>1, <3>2, <1>2, <1>3, <1>9
    <3> QED
      BY <3>3 DEF Ahead
  <2>2. ASSUME Ahead(l, a, b) PROVE Ahead(l2, a, b)
    <3>1. PICK i, j \in 1..n : i < j /\ l[i] = a /\ l[j] = b
      BY <2>2 DEF Ahead
    <3>2. new(i) < new(j) /\ new(i) \in 1..n /\ new(j) \in 1..n
          /\ l2[new(i)] = a /\ l2[new(j)] = b
      BY <3>1, <1>2, <1>6, <1>8
    <3> QED
      BY <3>2, <1>5 DEF Ahead
  <2> QED
    BY <2>1, <2>2
<1> QED
  BY <1>5, <1>12, <1>13, <1>15, <1>16, <1>17 DEF InFront

\* The node emplace_front makes.
LEMMA PushedInFront ==
    ASSUME NEW l \in Seq(Node), \A i, j \in 1..Len(l) : l[i] = l[j] => i = j,
           NEW x \in Node, x \notin Nodes(l), NEW l2, l2 = <<x>> \o l
    PROVE  InFront(x, l, l2) /\ Len(l2) = Len(l) + 1
<1> DEFINE n == Len(l)
<1>1. n \in Nat /\ l \in [1..n -> Node]
  BY LenProperties
<1>2. <<x>> \in Seq(Node) /\ Len(<<x>>) = 1 /\ <<x>>[1] = x
  OBVIOUS
<1>3. /\ l2 \in Seq(Node) /\ Len(l2) = 1 + n
      /\ \A i \in 1..(1 + n) : l2[i] = IF i <= 1 THEN <<x>>[i] ELSE l[i - 1]
  BY <1>2, ConcatProperties
<1>4. l2[1] = x /\ 1 \in 1..(n + 1) /\ Len(l2) = n + 1
  BY <1>1, <1>2, <1>3
<1>5. \A i \in 1..n : i + 1 \in 1..(n + 1) /\ l2[i + 1] = l[i]
  <2> TAKE i \in 1..n
  <2>1. i + 1 \in 1..(1 + n) /\ ~(i + 1 <= 1) /\ (i + 1) - 1 = i
    BY <1>1
  <2>2. l2[i + 1] = l[(i + 1) - 1]
    BY <2>1, <1>3
  <2> QED
    BY <2>1, <2>2
<1>6. \A i \in 1..(n + 1) : i # 1 => i - 1 \in 1..n /\ l2[i] = l[i - 1]
  BY <1>1, <1>3
<1>7. \A i \in 1..n : l[i] # x /\ l[i] \in Nodes(l)
  BY DEF Nodes
<1>8. \A i, j \in 1..(n + 1) : l2[i] = l2[j] => i = j
  <2> SUFFICES ASSUME NEW i \in 1..(n + 1), NEW j \in 1..(n + 1), l2[i] = l2[j]
               PROVE  i = j
    OBVIOUS
  <2>1. CASE i = 1 \/ j = 1
    BY <2>1, <1>4, <1>6, <1>7
  <2>2. CASE i # 1 /\ j # 1
    <3>1. i - 1 = j - 1
      BY <2>2, <1>6
    <3> QED
      BY <3>1, <1>1
  <2> QED
    BY <2>1, <2>2
<1>9. Nodes(l2) = Nodes(l) \cup {x}
  BY <1>4, <1>5, <1>6 DEF Nodes
<1>10. \A b : Ahead(l2, x, b) <=> b \in Nodes(l) \ {x}
  <2>1. ASSUME NEW b, Ahead(l2, x, b) PROVE b \in Nodes(l) \ {x}
    <3>1. PICK i, j \in 1..(n + 1) : i < j /\ l2[i] = x /\ l2[j] = b
      BY <2>1, <1>4 DEF Ahead
    <3>2. i = 1 /\ j # 1
      BY <3>1, <1>8, <1>4
    <3> QED
      BY <3>1, <3>2, <1>6, <1>7
  <2>2. ASSUME NEW b \in Nodes(l), b # x PROVE Ahead(l2, x, b)
    <3>1. PICK j \in 1..n : l[j] = b
      BY DEF Nodes
    <3>2. 1 < j + 1 /\ l2[j + 1] = b /\ j + 1 \in 1..(n + 1)
      BY <3>1, <1>1, <1>5
    <3> QED
      BY <3>2, <1>4 DEF Ahead
  <2> QED
    BY <2>1, <2>2
<1>11. \A a : ~Ahead(l2, a, x)
  <2>1. \A i \in 1..(n + 1) : ~(i < 1)
    BY <1>1
  <2> QED
    BY <1>4, <1>8, <2>1 DEF Ahead
<1>12. \A a, b : a # x /\ b # x => (Ahead(l2, a, b) <=> Ahead(l, a, b))
  <2> SUFFICES ASSUME NEW a, NEW b, a # x, b # x
               PROVE  Ahead(l2, a, b) <=> Ahead(l, a, b)
    OBVIOUS
  <2>1. ASSUME Ahead(l2, a, b) PROVE Ahead(l, a, b)
    <3>1. PICK i, j \in 1..(n + 1) : i < j /\ l2[i] = a /\ l2[j] = b
      BY <2>1, <1>4 DEF Ahead
    <3>2. i # 1 /\ j # 1
      BY <3>1, <1>4
    <3>3. i - 1 \in 1..n /\ j - 1 \in 1..n /\ l[i - 1] = a /\ l[j - 1] = b
      BY <3>1, <3>2, <1>6
    <3>4. i - 1 < j - 1
      BY <3>1, <1>1
    <3> QED
      BY <3>3, <3>4 DEF Ahead
  <2>2. ASSUME Ahead(l, a, b) PROVE Ahead(l2, a, b)
    <3>1. PICK i, j \in 1..n : i < j /\ l[i] = a /\ l[j] = b
      BY <2>2 DEF Ahead
    <3>2. /\ i + 1 \in 1..(n + 1) /\ j + 1 \in 1..(n + 1)
          /\ l2[i + 1] = a /\ l2[j + 1] = b
      BY <3>1, <1>5
    <3>3. i + 1 < j + 1
      BY <3>1, <1>1
    <3> QED
      BY <3>2, <3>3, <1>4 DEF Ahead
  <2> QED
    BY <2>1, <2>2
<1> QED
  BY <1>3, <1>4, <1>8, <1>9, <1>10, <1>11, <1>12 DEF InFront

\* The node pop_back drops.
LEMMA PoppedBack ==
    ASSUME NEW l \in Seq(Node), \A i, j \in 1..Len(l) : l[i] = l[j] => i = j,
           Len(l) > 0, NEW l2, l2 = Front(l)
    PROVE  /\ l2 \in Seq(Node) /\ Len(l2) = Len(l) - 1
           /\ \A i, j \in 1..Len(l2) : l2[i] = l2[j] => i = j
           /\ Last(l) \in Nodes(l) /\ Nodes(l2) = Nodes(l) \ {Last(l)}
           /\ \A a \in Nodes(l2) : Ahead(l, a, Last(l))
           /\ \A a, b : a # Last(l) /\ b # Last(l) =>
                           (Ahead(l2, a, b) <=> Ahead(l, a, b))
<1> DEFINE n == Len(l)
<1>1. n \in Nat /\ n > 0 /\ l \in [1..n -> Node]
  BY LenProperties
<1>2. \A i \in 1..(n - 1) : l[i] \in Node /\ i \in 1..n /\ i < n
  BY <1>1
<1>3. /\ SubSeq(l, 1, n - 1) \in Seq(Node)
      /\ Len(SubSeq(l, 1, n - 1)) = IF 1 <= n - 1 THEN (n - 1) - 1 + 1 ELSE 0
      /\ \A i \in 1..((n - 1) - 1 + 1) : SubSeq(l, 1, n - 1)[i] = l[1 + i - 1]
  BY <1>1, <1>2, SubSeqProperties
<1>4. l2 = SubSeq(l, 1, n - 1)
  BY DEF Front
<1>5. l2 \in Seq(Node) /\ Len(l2) = n - 1
  BY <1>1, <1>3, <1>4
<1>6. \A i \in 1..(n - 1) : l2[i] = l[i]
  <2> TAKE i \in 1..(n - 1)
  <2>1. i \in 1..((n - 1) - 1 + 1) /\ 1 + i - 1 = i
    BY <1>1
  <2> QED
    BY <2>1, <1>3, <1>4
<1>7. Last(l) = l[n] /\ n \in 1..n
  BY <1>1 DEF Last
<1>8. \A i \in 1..n : i # n => i \in 1..(n - 1) /\ i < n
  <2>1. n \in Nat
    BY <1>1
  <2> QED
    BY <2>1
<1>9. \A i \in 1..(n - 1) : l[i] # Last(l)
  BY <1>2, <1>7, <1>1
<1>10. \A i, j \in 1..Len(l2) : l2[i] = l2[j] => i = j
  <2> TAKE i, j \in 1..Len(l2)
  <2>1. i \in 1..n /\ j \in 1..n /\ l2[i] = l[i] /\ l2[j] = l[j]
    BY <1>2, <1>5, <1>6
  <2> QED
    BY <2>1
<1>11. Last(l) \in Nodes(l) /\ Nodes(l2) = Nodes(l) \ {Last(l)}
  <2>1. \A i \in 1..(n - 1) : l2[i] \in Nodes(l) \ {Last(l)}
    BY <1>2, <1>6, <1>9 DEF Nodes
  <2>2. \A i \in 1..n : l[i] # Last(l) => l[i] \in Nodes(l2)
    BY <1>5, <1>6, <1>7, <1>8 DEF Nodes
  <2>3. Nodes(l2) \subseteq Nodes(l) \ {Last(l)} /\ Last(l) \in Nodes(l)
    BY <2>1, <1>5, <1>7 DEF Nodes
  <2>4. Nodes(l) \ {Last(l)} \subseteq Nodes(l2)
    BY <2>2 DEF Nodes
  <2> QED
    BY <2>3, <2>4
<1>12. \A a \in Nodes(l2) : Ahead(l, a, Last(l))
  BY <1>2, <1>5, <1>6, <1>7 DEF Nodes, Ahead
<1>13. \A a, b : a # Last(l) /\ b # Last(l) => (Ahead(l2, a, b) <=> Ahead(l, a, b))
  BY <1>2, <1>5, <1>6, <1>7, <1>8 DEF Ahead
<1> QED
  BY <1>5, <1>10, <1>11, <1>12, <1>13

-----------------------------------------------------------------------------
(* What an insertion and an eviction do to list and map.                   *)

\* What emplace_front(k, v) makes of list l and items it, in a free node x.
Emplaced(l, it, x, k, v, l2, it2) ==
    /\ l2 = <<x>> \o l
    /\ it2 = [it EXCEPT ![x] = Item(k, v)]

WithKey(m, k, x) == [m EXCEPT ![k] = x]

\* A new node in front, with or without its map entry.
LEMMA Inserted ==
    ASSUME NEW l, NEW it, NEW m, InStep(l, it, m),
           NEW x \in Node, x \notin Nodes(l), NEW k \in Key, m[k] = None,
           NEW v \in Val, NEW l2, NEW it2, Emplaced(l, it, x, k, v, l2, it2)
    PROVE  /\ InStep(l2, it2, WithKey(m, k, x))
           /\ Orphans(l2, it2, WithKey(m, k, x)) = Orphans(l, it, m)
           /\ InStep(l2, it2, m) /\ Orphans(l2, it2, m) = Orphans(l, it, m) \cup {x}
           /\ InFront(x, l, l2) /\ Len(l2) = Len(l) + 1
<1> USE DEF Emplaced, WithKey
<1> DEFINE m2 == [m EXCEPT ![k] = x]
<1>1. InFront(x, l, l2) /\ Len(l2) = Len(l) + 1
  BY PushedInFront DEF InStep
<1>2. /\ l2 \in Seq(Node) /\ Nodes(l2) = Nodes(l) \cup {x}
      /\ \A i, j \in 1..Len(l2) : l2[i] = l2[j] => i = j
  BY <1>1 DEF InFront
<1>3. /\ it2 \in [Node -> Items \cup {None}] /\ it2[x] \in Items
      /\ it2[x].key = k /\ \A n \in Node : n # x => it2[n] = it[n]
  BY DEF InStep, Items, Item
<1>4. /\ \A n \in Nodes(l) : n \in Node /\ n # x /\ it[n] \in Items /\ it2[n] = it[n]
      /\ \A n \in Nodes(l) : it[n].key \in Key
  <2>1. Nodes(l) \subseteq Node
    BY NodesCounted DEF InStep
  <2>2. \A n \in Nodes(l) : it[n] \in Items
    BY DEF InStep, Nodes
  <2> QED
    BY <1>3, <2>1, <2>2 DEF Items
<1>5. \A i \in 1..Len(l2) : it2[l2[i]] \in Items
  <2>1. \A i \in 1..Len(l2) : l2[i] \in Nodes(l2)
    BY DEF Nodes
  <2> QED
    BY <2>1, <1>2, <1>3, <1>4
<1>6. \A j \in Key : m[j] # None => m[j] \in Nodes(l) /\ it[m[j]].key = j
  BY DEF InStep, Nodes
<1>7. m2 \in [Key -> Node \cup {None}] /\ m \in [Key -> Node \cup {None}]
  BY DEF InStep
<1>8. \A n \in Nodes(l2) : \E i \in 1..Len(l2) : l2[i] = n
  BY DEF Nodes
<1>9. InStep(l2, it2, m)
  BY <1>2, <1>3, <1>4, <1>5, <1>6, <1>7, <1>8 DEF InStep
<1>10. \A j \in Key : m2[j] # None => m2[j] \in Nodes(l2) /\ it2[m2[j]].key = j
  <2> SUFFICES ASSUME NEW j \in Key, m2[j] # None
               PROVE  m2[j] \in Nodes(l2) /\ it2[m2[j]].key = j
    OBVIOUS
  <2>1. CASE j = k
    BY <2>1, <1>2, <1>3, <1>7
  <2>2. CASE j # k
    <3>1. m2[j] = m[j]
      BY <2>2, <1>7
    <3> QED
      BY <3>1, <1>2, <1>4, <1>6
  <2> QED
    BY <2>1, <2>2
<1>11. InStep(l2, it2, m2)
  BY <1>2, <1>3, <1>5, <1>7, <1>8, <1>10 DEF InStep
<1>12. x # None
  BY LruAssumption
<1>13. m[it2[x].key] # x /\ m2[it2[x].key] = x
  BY <1>3, <1>7, <1>12
<1>14. \A n \in Nodes(l) : m2[it2[n].key] # n <=> m[it[n].key] # n
  <2> TAKE n \in Nodes(l)
  <2>1. it2[n] = it[n] /\ it[n].key \in Key /\ n # x /\ n # None
    BY <1>4, LruAssumption
  <2>2. CASE it[n].key = k
    BY <2>1, <2>2, <1>7
  <2>3. CASE it[n].key # k
    BY <2>1, <2>3, <1>7
  <2> QED
    BY <2>2, <2>3
<1>15. \A n \in Nodes(l) : m[it2[n].key] # n <=> m[it[n].key] # n
  BY <1>4
<1>16. Orphans(l2, it2, m2) = Orphans(l, it, m)
  BY <1>2, <1>13, <1>14 DEF Orphans
<1>17. Orphans(l2, it2, m) = Orphans(l, it, m) \cup {x}
  BY <1>2, <1>13, <1>15 DEF Orphans
<1> QED
  BY <1>1, <1>9, <1>11, <1>16, <1>17

\* What evict_if_needed() makes of a full cache's containers l, it and m.
LastDropped(l, it, m, l2, it2, m2) ==
    /\ l2 = Front(l)
    /\ it2 = [it EXCEPT ![Last(l)] = None]
    /\ m2 = [m EXCEPT ![it[Last(l)].key] = None]

\* The last node dropped, and the map entry of the key it holds.
LEMMA Evicted ==
    ASSUME NEW l, NEW it, NEW m, InStep(l, it, m), Len(l) > 0,
           NEW l2, NEW it2, NEW m2, LastDropped(l, it, m, l2, it2, m2)
    PROVE  /\ InStep(l2, it2, m2)
           /\ Cardinality(Orphans(l2, it2, m2)) <= Cardinality(Orphans(l, it, m))
           /\ Len(l2) = Len(l) - 1
           /\ it[Last(l)].key \in Key
           /\ Orphans(l, it, m) = {} => m[it[Last(l)].key] = Last(l)
<1> DEFINE x == Last(l)
           k == it[x].key
           O == Orphans(l, it, m)
           O2 == Orphans(l2, it2, m2)
<1> USE DEF LastDropped
<1>1. /\ l2 \in Seq(Node) /\ Len(l2) = Len(l) - 1
      /\ \A i, j \in 1..Len(l2) : l2[i] = l2[j] => i = j
      /\ x \in Nodes(l) /\ Nodes(l2) = Nodes(l) \ {x}
  BY PoppedBack DEF InStep
<1>2. Nodes(l) \subseteq Node
  BY NodesCounted DEF InStep
<1>3. \A n \in Nodes(l) : it[n] \in Items /\ it[n].key \in Key /\ n # None
  BY <1>2, LruAssumption DEF InStep, Nodes, Items
<1>4. k \in Key /\ x \in Node
  BY <1>1, <1>2, <1>3
<1>5. /\ it2 \in [Node -> Items \cup {None}]
      /\ \A n \in Nodes(l2) : it2[n] = it[n]
  BY <1>1, <1>2 DEF InStep
<1>6. /\ m \in [Key -> Node \cup {None}] /\ m2 \in [Key -> Node \cup {None}]
      /\ m2[k] = None /\ \A j \in Key : j # k => m2[j] = m[j]
  BY <1>4 DEF InStep
<1>7. \A j \in Key : m[j] # None => m[j] \in Nodes(l) /\ it[m[j]].key = j
  BY DEF InStep, Nodes
<1>8. \A j \in Key : m2[j] # None => m2[j] \in Nodes(l2) /\ it2[m2[j]].key = j
  <2> TAKE j \in Key
  <2> HAVE m2[j] # None
  <2>1. j # k /\ m2[j] = m[j] /\ m[j] # None
    BY <1>6
  <2>2. m[j] \in Nodes(l2)
    BY <2>1, <1>1, <1>7
  <2> QED
    BY <2>1, <2>2, <1>5, <1>7
<1>9. \A i \in 1..Len(l2) : it2[l2[i]] \in Items
  <2>1. \A i \in 1..Len(l2) : l2[i] \in Nodes(l2)
    BY DEF Nodes
  <2> QED
    BY <2>1, <1>1, <1>3, <1>5
<1>10. InStep(l2, it2, m2)
  <2>1. \A n \in Nodes(l2) : \E i \in 1..Len(l2) : l2[i] = n
    BY DEF Nodes
  <2> QED
    BY <2>1, <1>1, <1>5, <1>6, <1>8, <1>9 DEF InStep
<1>11. IsFiniteSet(O) /\ Cardinality(O) \in Nat
  BY KeysCounted
<1>12. IsFiniteSet(O2) /\ Cardinality(O2) \in Nat
  BY <1>10, KeysCounted
<1>13. Cardinality(O2) <= Cardinality(O)
  <2>1. CASE m[k] = x
    <3>1. ASSUME NEW n \in O2 PROVE n \in O
      <4>1. n \in Nodes(l) /\ n # x /\ it2[n] = it[n] /\ m2[it[n].key] # n
        BY <1>1, <1>5 DEF Orphans
      <4>2. CASE it[n].key = k
        BY <4>1, <4>2, <2>1 DEF Orphans
      <4>3. CASE it[n].key # k
        BY <4>1, <4>3, <1>3, <1>6 DEF Orphans
      <4> QED
        BY <4>2, <4>3
    <3> QED
      BY <3>1, <1>11, FS_Subset
  <2>2. CASE m[k] # x
    <3>1. x \in O
      BY <2>2, <1>1 DEF Orphans
    <3>2. ASSUME NEW n \in O2 PROVE n \in (O \ {x}) \cup {m[k]}
      <4>1. n \in Nodes(l) /\ n # x /\ it2[n] = it[n] /\ m2[it[n].key] # n
        BY <1>1, <1>5 DEF Orphans
      <4>2. CASE it[n].key = k
        BY <4>1, <4>2 DEF Orphans
      <4>3. CASE it[n].key # k
        BY <4>1, <4>3, <1>3, <1>6 DEF Orphans
      <4> QED
        BY <4>2, <4>3
    <3>3. IsFiniteSet(O \ {x}) /\ Cardinality(O \ {x}) = Cardinality(O) - 1
      BY <3>1, <1>11, FS_RemoveElement
    <3>4. /\ IsFiniteSet((O \ {x}) \cup {m[k]})
          /\ Cardinality((O \ {x}) \cup {m[k]}) <= Cardinality(O)
      <4> DEFINE A == O \ {x}
                 y == m[k]
      <4>1. IsFiniteSet(A) /\ Cardinality(A) = Cardinality(O) - 1
        BY <3>3
      <4> HIDE DEF A, y
      <4>2. /\ IsFiniteSet(A \cup {y})
            /\ Cardinality(A \cup {y}) =
                  IF y \in A THEN Cardinality(A) ELSE Cardinality(A) + 1
        BY <4>1, FS_AddElement
      <4>3. IsFiniteSet(A \cup {y}) /\ Cardinality(A \cup {y}) <= Cardinality(O)
        BY <4>1, <4>2, <1>11
      <4> QED
        BY <4>3 DEF A, y
    <3>5. Cardinality(O2) <= Cardinality((O \ {x}) \cup {m[k]})
      BY <3>2, <3>4, FS_Subset
    <3>6. Cardinality((O \ {x}) \cup {m[k]}) \in Nat
      BY <3>4, FS_CardinalityType
    <3> QED
      BY <3>4, <3>5, <3>6, <1>11, <1>12
  <2> QED
    BY <2>1, <2>2
<1>14. O = {} => m[k] = x
  BY <1>1 DEF Orphans
<1> QED
  BY <1>1, <1>4, <1>10, <1>13, <1>14

-----------------------------------------------------------------------------
(* The invariant.                                                          *)

\* size() counts the listed nodes but for the orphans.
LEMMA SizeCounts ==
    ASSUME InStepInv
    PROVE  /\ IsFiniteSet(Cached)
           /\ size = Len(m_cache_list)
                        - Cardinality(Orphans(m_cache_list, item, m_cache_map))
           /\ Cardinality(Orphans(m_cache_list, item, m_cache_map)) \in Nat
           /\ IsFiniteSet(Orphans(m_cache_list, item, m_cache_map))
           /\ Len(m_cache_list) \in Nat
<1>1. LET keys == {k \in Key : m_cache_map[k] # None}
      IN  /\ IsFiniteSet(keys)
          /\ Cardinality(keys) = Len(m_cache_list)
                  - Cardinality(Orphans(m_cache_list, item, m_cache_map))
          /\ Cardinality(Orphans(m_cache_list, item, m_cache_map)) \in Nat
          /\ IsFiniteSet(Orphans(m_cache_list, item, m_cache_map))
  BY KeysCounted DEF InStepInv
<1>2. Len(m_cache_list) \in Nat
  BY LenProperties DEF InStepInv, InStep
<1> QED
  BY <1>1, <1>2 DEF Cached, size

\* evict_if_needed() leaves list and map in step, with room for one entry.
LEMMA EvictionMakesRoom ==
    ASSUME IInv
    PROVE  /\ InStep(ListAfterEviction, ItemsAfterEviction, MapAfterEviction)
           /\ Cardinality(Orphans(ListAfterEviction, ItemsAfterEviction,
                                  MapAfterEviction)) <= failed
           /\ Len(ListAfterEviction) \in Nat
           /\ Len(ListAfterEviction) + 1 <= Capacity + failed
           /\ MustEvict => Len(m_cache_list) > 0
<1>1. /\ size = Len(m_cache_list)
                   - Cardinality(Orphans(m_cache_list, item, m_cache_map))
      /\ Cardinality(Orphans(m_cache_list, item, m_cache_map)) \in Nat
      /\ Len(m_cache_list) \in Nat
  BY SizeCounts DEF IInv
<1>2. /\ failed \in Nat /\ Capacity \in Nat /\ Capacity > 0
      /\ Cardinality(Orphans(m_cache_list, item, m_cache_map)) <= failed
      /\ Len(m_cache_list) <= Capacity + failed
  BY LruAssumption DEF IInv, CountInv
<1>3. CASE MustEvict
  <2>1. Len(m_cache_list) > 0
    BY <1>1, <1>2, <1>3 DEF MustEvict
  <2>2. LastDropped(m_cache_list, item, m_cache_map,
                    ListAfterEviction, ItemsAfterEviction, MapAfterEviction)
    BY <1>3 DEF LastDropped, ListAfterEviction, ItemsAfterEviction,
                MapAfterEviction, Victim
  <2>3. /\ InStep(ListAfterEviction, ItemsAfterEviction, MapAfterEviction)
        /\ Cardinality(Orphans(ListAfterEviction, ItemsAfterEviction,
                               MapAfterEviction))
             <= Cardinality(Orphans(m_cache_list, item, m_cache_map))
        /\ Len(ListAfterEviction) = Len(m_cache_list) - 1
    BY <2>1, <2>2, Evicted DEF IInv, InStepInv
  <2>4. Cardinality(Orphans(ListAfterEviction, ItemsAfterEviction,
                            MapAfterEviction)) \in Nat
    BY <2>3, KeysCounted
  <2> QED
    BY <1>1, <1>2, <2>1, <2>3, <2>4
<1>4. CASE ~MustEvict
  <2>1. /\ ListAfterEviction = m_cache_list
        /\ ItemsAfterEviction = item
        /\ MapAfterEviction = m_cache_map
    BY <1>4 DEF ListAfterEviction, ItemsAfterEviction, MapAfterEviction
  <2>2. size < Capacity
    BY <1>1, <1>2, <1>4 DEF MustEvict
  <2> QED
    BY <1>1, <1>2, <1>4, <2>1, <2>2 DEF IInv, InStepInv
<1> QED
  BY <1>3, <1>4

\* splice() as a move to the front.
LEMMA SpliceMovesToFront ==
    ASSUME InStepInv, NEW k \in Cached
    PROVE  /\ InFront(m_cache_map[k], m_cache_list, Spliced(k))
           /\ Nodes(Spliced(k)) = Nodes(m_cache_list)
           /\ Len(Spliced(k)) = Len(m_cache_list)
<1>1. /\ m_cache_list \in Seq(Node)
      /\ \A i, j \in 1..Len(m_cache_list) : m_cache_list[i] = m_cache_list[j] => i = j
      /\ \E i \in 1..Len(m_cache_list) : m_cache_list[i] = m_cache_map[k]
  BY DEF InStepInv, InStep, Cached
<1>2. DOMAIN m_cache_list = 1..Len(m_cache_list)
  BY <1>1, LenProperties
<1>3. PICK at \in 1..Len(m_cache_list) :
         at = CHOOSE i \in DOMAIN m_cache_list : m_cache_list[i] = m_cache_map[k]
  BY <1>1, <1>2
<1>4. m_cache_list[at] = m_cache_map[k]
  BY <1>1, <1>2, <1>3
<1>5. Spliced(k) = [i \in 1..Len(m_cache_list) |->
                       CASE i = 1 -> m_cache_list[at]
                         [] 1 < i /\ i <= at -> m_cache_list[i - 1]
                         [] at < i -> m_cache_list[i]]
  BY <1>2, <1>3, <1>4 DEF Spliced
<1>6. InFront(m_cache_list[at], m_cache_list, Spliced(k))
      /\ Len(Spliced(k)) = Len(m_cache_list)
  <2>1. PICK l2 : l2 = Spliced(k)
    OBVIOUS
  <2>2. InFront(m_cache_list[at], m_cache_list, l2) /\ Len(l2) = Len(m_cache_list)
    <3>1. l2 = [i \in 1..Len(m_cache_list) |->
                   CASE i = 1 -> m_cache_list[at]
                     [] 1 < i /\ i <= at -> m_cache_list[i - 1]
                     [] at < i -> m_cache_list[i]]
      BY <1>5, <2>1
    <3>2. /\ m_cache_list \in Seq(Node)
          /\ \A i, j \in 1..Len(m_cache_list) :
                 m_cache_list[i] = m_cache_list[j] => i = j
      BY <1>1
    <3> QED
      BY <3>1, <3>2, MovedToFront, Zenon
  <2> QED
    BY <2>1, <2>2
<1>7. m_cache_map[k] \in Nodes(m_cache_list)
  BY <1>4 DEF Nodes
<1> QED
  BY <1>4, <1>6, <1>7 DEF InFront

\* What a step that keeps list, items and map in step has to show.
LEMMA SamePartsInStep ==
    ASSUME NEW l, NEW it, NEW m, InStep(l, it, m),
           NEW l2 \in Seq(Node), Nodes(l2) = Nodes(l), Len(l2) = Len(l),
           \A i, j \in 1..Len(l2) : l2[i] = l2[j] => i = j,
           NEW it2 \in [Node -> Items \cup {None}],
           \A n \in Nodes(l) : it2[n] \in Items /\ it2[n].key = it[n].key
    PROVE  InStep(l2, it2, m) /\ Orphans(l2, it2, m) = Orphans(l, it, m)
<1>1. \A k \in Key : m[k] # None => m[k] \in Nodes(l) /\ it[m[k]].key = k
  BY DEF InStep, Nodes
<1>2. /\ \A i \in 1..Len(l2) : l2[i] \in Nodes(l)
      /\ \A n \in Nodes(l) : \E i \in 1..Len(l2) : l2[i] = n
  BY DEF Nodes
<1>3. InStep(l2, it2, m)
  BY <1>1, <1>2 DEF InStep
<1>4. Orphans(l2, it2, m) = Orphans(l, it, m)
  BY DEF Orphans
<1> QED
  BY <1>3, <1>4

LEMMA InitIInv == Init => IInv
<1> SUFFICES ASSUME Init PROVE IInv
  OBVIOUS
<1> USE DEF Init
<1>1. InStepInv
  <2>1. m_cache_list \in Seq(Node) /\ Len(m_cache_list) = 0
    BY EmptySeq
  <2> QED
    BY <2>1 DEF InStepInv, InStep
<1>2. Orphans(m_cache_list, item, m_cache_map) = {} /\ Len(m_cache_list) = 0
  BY EmptySeq DEF Orphans, Nodes
<1>3. Cardinality(Orphans(m_cache_list, item, m_cache_map)) = 0
  BY <1>2, FS_EmptySet
<1> QED
  BY <1>1, <1>2, <1>3, LruAssumption DEF IInv, CountInv
\* A hit: the key's node moves to the front, its value may change.
LEMMA UseKeepsInv ==
    ASSUME IInv, NEW k \in Cached,
           m_cache_list' = Spliced(k),
           \/ item' = item
           \/ \E v \in Val : item' = [item EXCEPT ![m_cache_map[k]].val = v],
           UNCHANGED <<m_cache_map, failed>>
    PROVE  IInv'
<1>1. /\ InFront(m_cache_map[k], m_cache_list, m_cache_list')
      /\ Nodes(m_cache_list') = Nodes(m_cache_list)
      /\ Len(m_cache_list') = Len(m_cache_list)
  BY SpliceMovesToFront DEF IInv
<1>2. /\ InStep(m_cache_list, item, m_cache_map)
      /\ item \in [Node -> Items \cup {None}]
      /\ \A n \in Nodes(m_cache_list) : n \in Node /\ item[n] \in Items
      /\ m_cache_map[k] \in Nodes(m_cache_list)
  <2>1. Nodes(m_cache_list) \subseteq Node
    BY NodesCounted DEF IInv, InStepInv, InStep
  <2> QED
    BY <2>1 DEF IInv, InStepInv, InStep, Nodes, Cached
<1>3. /\ item' \in [Node -> Items \cup {None}]
      /\ \A n \in Nodes(m_cache_list) :
            item'[n] \in Items /\ item'[n].key = item[n].key
  <2>1. CASE item' = item
    BY <2>1, <1>2
  <2>2. CASE \E v \in Val : item' = [item EXCEPT ![m_cache_map[k]].val = v]
    <3>1. PICK v \in Val : item' = [item EXCEPT ![m_cache_map[k]].val = v]
      BY <2>2
    <3>2. PICK x \in Nodes(m_cache_list) : x = m_cache_map[k]
      BY <1>2
    <3>3. x \in Node /\ item[x] \in Items
      BY <1>2
    <3>4. [item[x] EXCEPT !.val = v] \in Items
          /\ [item[x] EXCEPT !.val = v].key = item[x].key
      BY <3>3 DEF Items
    <3>5. item' = [item EXCEPT ![x] = [item[x] EXCEPT !.val = v]]
      BY <3>1, <3>2
    <3> QED
      BY <3>3, <3>4, <3>5, <1>2
  <2> QED
    BY <2>1, <2>2
<1>4. /\ m_cache_list' \in Seq(Node)
      /\ \A i, j \in 1..Len(m_cache_list') :
            m_cache_list'[i] = m_cache_list'[j] => i = j
  BY <1>1 DEF InFront
<1>5. /\ InStep(m_cache_list', item', m_cache_map)
      /\ Orphans(m_cache_list', item', m_cache_map)
            = Orphans(m_cache_list, item, m_cache_map)
  BY <1>1, <1>2, <1>3, <1>4, SamePartsInStep
<1> QED
  BY <1>1, <1>5 DEF IInv, InStepInv, CountInv

\* A key not cached is not cached after the eviction either.
LEMMA EvictionAddsNoKey ==
    ASSUME IInv, NEW k \in Key, ~contains(k)
    PROVE  MapAfterEviction[k] = None
<1>1. m_cache_map[k] = None /\ m_cache_map \in [Key -> Node \cup {None}]
  BY DEF contains, Cached, IInv, InStepInv, InStep
<1> QED
  BY <1>1 DEF MapAfterEviction

\* A free node is in no list entry that the eviction left.
LEMMA FreeNodeIsNew ==
    ASSUME IInv, NEW n \in Node, FreeNode(n)
    PROVE  n \notin Nodes(ListAfterEviction)
<1>1. ListAfterEviction \in Seq(Node)
  BY EvictionMakesRoom DEF InStep
<1>2. DOMAIN ListAfterEviction = 1..Len(ListAfterEviction)
  BY <1>1, LenProperties
<1> QED
  BY <1>2 DEF FreeNode, ToSet, Nodes

LEMMA PutNewKeepsInv ==
    ASSUME IInv, NEW k \in Key, NEW v \in Val, PutNew(k, v)
    PROVE  IInv'
<1>1. PICK n \in Node :
         /\ FreeNode(n)
         /\ item' = [ItemsAfterEviction EXCEPT ![n] = Item(k, v)]
         /\ m_cache_list' = <<n>> \o ListAfterEviction
         /\ m_cache_map' = [MapAfterEviction EXCEPT ![k] = n]
  BY DEF PutNew
<1>2. Emplaced(ListAfterEviction, ItemsAfterEviction, n, k, v,
               m_cache_list', item')
  BY <1>1 DEF Emplaced
<1>3. MapAfterEviction[k] = None /\ n \notin Nodes(ListAfterEviction)
  BY <1>1, EvictionAddsNoKey, FreeNodeIsNew DEF PutNew
<1>4. /\ InStep(m_cache_list', item', m_cache_map')
      /\ Orphans(m_cache_list', item', m_cache_map')
            = Orphans(ListAfterEviction, ItemsAfterEviction, MapAfterEviction)
      /\ Len(m_cache_list') = Len(ListAfterEviction) + 1
  <2>1. /\ InStep(m_cache_list', item', WithKey(MapAfterEviction, k, n))
        /\ Orphans(m_cache_list', item', WithKey(MapAfterEviction, k, n))
              = Orphans(ListAfterEviction, ItemsAfterEviction, MapAfterEviction)
        /\ Len(m_cache_list') = Len(ListAfterEviction) + 1
    <3>1. InStep(ListAfterEviction, ItemsAfterEviction, MapAfterEviction)
      BY EvictionMakesRoom
    <3> QED
      BY <3>1, <1>2, <1>3, Inserted
  <2> QED
    BY <2>1, <1>1 DEF WithKey
<1>5. failed' = failed
  BY DEF PutNew
<1> QED
  BY <1>4, <1>5, EvictionMakesRoom DEF IInv, InStepInv, CountInv

LEMMA PutEmplaceThrowsKeepsInv ==
    ASSUME IInv, NEW k \in Key, PutEmplaceThrows(k)
    PROVE  IInv'
<1>1. /\ m_cache_list' = ListAfterEviction
      /\ m_cache_map' = MapAfterEviction
      /\ item' = ItemsAfterEviction
      /\ failed' = failed
  BY DEF PutEmplaceThrows
<1>2. Len(ListAfterEviction) <= Capacity + failed
  BY EvictionMakesRoom, LruAssumption DEF IInv, CountInv
<1> QED
  BY <1>1, <1>2, EvictionMakesRoom DEF IInv, InStepInv, CountInv

LEMMA PutInsertThrowsKeepsInv ==
    ASSUME IInv, NEW k \in Key, NEW v \in Val, PutInsertThrows(k, v)
    PROVE  IInv'
<1>1. PICK n \in Node :
         /\ FreeNode(n)
         /\ item' = [ItemsAfterEviction EXCEPT ![n] = Item(k, v)]
         /\ m_cache_list' = <<n>> \o ListAfterEviction
  BY DEF PutInsertThrows
<1>2. Emplaced(ListAfterEviction, ItemsAfterEviction, n, k, v,
               m_cache_list', item')
  BY <1>1 DEF Emplaced
<1>3. MapAfterEviction[k] = None /\ n \notin Nodes(ListAfterEviction)
  BY <1>1, EvictionAddsNoKey, FreeNodeIsNew DEF PutInsertThrows
<1> DEFINE O == Orphans(ListAfterEviction, ItemsAfterEviction, MapAfterEviction)
<1>4. /\ InStep(m_cache_list', item', MapAfterEviction)
      /\ Orphans(m_cache_list', item', MapAfterEviction) = O \cup {n}
      /\ Len(m_cache_list') = Len(ListAfterEviction) + 1
  <2>1. InStep(ListAfterEviction, ItemsAfterEviction, MapAfterEviction)
    BY EvictionMakesRoom
  <2> QED
    BY <2>1, <1>2, <1>3, Inserted
<1>5. failed' = failed + 1 /\ m_cache_map' = MapAfterEviction
  BY DEF PutInsertThrows
<1>6. IsFiniteSet(O) /\ Cardinality(O) \in Nat /\ Cardinality(O) <= failed
  BY EvictionMakesRoom, KeysCounted
<1>7. Cardinality(O \cup {n}) <= failed + 1
  <2> HIDE DEF O
  <2>1. Cardinality(O \cup {n}) = IF n \in O THEN Cardinality(O) ELSE Cardinality(O) + 1
    BY <1>6, FS_AddElement
  <2> QED
    BY <2>1, <1>6 DEF IInv, CountInv
<1>8. Len(m_cache_list') <= Capacity + failed'
  BY <1>4, <1>5, EvictionMakesRoom, LruAssumption DEF IInv, CountInv
<1>9. Orphans(m_cache_list', item', m_cache_map') = O \cup {n}
  BY <1>4, <1>5
<1>10. failed' \in Nat
  BY <1>5 DEF IInv, CountInv
<1>11. Cardinality(Orphans(m_cache_list', item', m_cache_map')) <= failed'
  BY <1>5, <1>7, <1>9
<1>12. InStepInv'
  BY <1>4, <1>5 DEF InStepInv
<1> QED
  BY <1>8, <1>10, <1>11, <1>12 DEF IInv, CountInv

LEMMA ClearKeepsInv ==
    ASSUME IInv, Clear
    PROVE  IInv'
<1> USE DEF Clear
<1>1. Len(m_cache_list') = 0 /\ m_cache_list' \in Seq(Node)
  BY EmptySeq
<1>2. InStepInv'
  BY <1>1 DEF InStepInv, InStep
<1>3. Orphans(m_cache_list', item', m_cache_map') = {}
  BY <1>1 DEF Orphans, Nodes
<1>4. Cardinality(Orphans(m_cache_list', item', m_cache_map')) = 0
  BY <1>3, FS_EmptySet
<1> QED
  BY <1>1, <1>2, <1>4, LruAssumption DEF IInv, CountInv

LEMMA StepKeepsInv == IInv /\ [Next]_vars => IInv'
<1> SUFFICES ASSUME IInv, [Next]_vars PROVE IInv'
  OBVIOUS
<1>1. ASSUME NEW k \in Key, GetHit(k) PROVE IInv'
  BY <1>1, UseKeepsInv DEF GetHit, contains
<1>2. ASSUME NEW k \in Key, NEW v \in Val, PutUpdate(k, v) PROVE IInv'
  BY <1>2, UseKeepsInv DEF PutUpdate, contains
<1>3. ASSUME UNCHANGED <<m_cache_list, item, m_cache_map, failed>> PROVE IInv'
  BY <1>3 DEF IInv, InStepInv, CountInv
<1>4. ASSUME NEW k \in Key, GetMiss(k) PROVE IInv'
  BY <1>4, <1>3 DEF GetMiss
<1>5. ASSUME NEW k \in Key, PutUpdateThrows(k) PROVE IInv'
  BY <1>5, <1>3 DEF PutUpdateThrows
<1>6. CASE UNCHANGED vars
  BY <1>6, <1>3 DEF vars
<1> QED
  BY <1>1, <1>2, <1>4, <1>5, <1>6, PutNewKeepsInv, PutEmplaceThrowsKeepsInv,
     PutInsertThrowsKeepsInv, ClearKeepsInv DEF Next

LEMMA InvAlways == Spec => []IInv
BY InitIInv, StepKeepsInv, PTL DEF Spec

LEMMA InvAgrees == IInv => ContainersAgree
<1> SUFFICES ASSUME IInv PROVE ContainersAgree
  OBVIOUS
<1>1. /\ m_cache_list \in Seq(Node)
      /\ DOMAIN m_cache_list = 1..Len(m_cache_list)
      /\ Entries = Nodes(m_cache_list)
  BY LenProperties DEF IInv, InStepInv, InStep, Entries, ToSet, Nodes
<1>2. TypeOK
  BY <1>1 DEF TypeOK, IInv, InStepInv, InStep, IsInjective, Items, ToSet
<1>3. Entries \ Mapped = Orphans(m_cache_list, item, m_cache_map)
  BY <1>1 DEF Mapped, Orphans
<1>4. \A k \in Cached : m_cache_map[k] \in Entries /\ item[m_cache_map[k]].key = k
  BY <1>1 DEF Cached, IInv, InStepInv, InStep, Nodes
<1> QED
  BY <1>2, <1>3, <1>4
  DEF ContainersAgree, MapMatchesList, SizeWithinCapacity, IInv, CountInv

\* Whatever is thrown, the list and the map of the lru_cache stay in step, and
\* it outgrows its capacity by no more than the failed map insertions.
THEOREM LruContainersAgree == Spec => []ContainersAgree
BY InvAlways, InvAgrees, PTL
-----------------------------------------------------------------------------
(* The refinement of RecencyMap.                                           *)

Keys(m) == {k \in Key : m[k] # None}
ContentOf(it, m) == [k \in Keys(m) |-> it[m[k]].val]
Order(l, m) == {pair \in Keys(m) \X Keys(m) : Ahead(l, m[pair[1]], m[pair[2]])}

\* The refinement mapping in terms of the containers.
LEMMA MappingIs ==
    /\ Content = ContentOf(item, m_cache_map)
    /\ Before = Order(m_cache_list, m_cache_map)
    /\ Abstract!Held = Cached /\ Cached = Keys(m_cache_map)
BY DEF Content, ContentOf, Before, Order, Ahead, Cached, Keys, Abstract!Held

\* Library operators in an instance are the library's.
LEMMA AbstractCardinality == \A S : Abstract!Cardinality(S) = Cardinality(S)
BY DEF Abstract!Cardinality, Cardinality

\* The order once the node of key k is in front.
LEMMA OrderInFront ==
    ASSUME NEW l, NEW it, NEW m, InStep(l, it, m), NEW k \in Key, NEW x \in Node,
           m[k] = x \/ x \notin Nodes(l),
           NEW l2, InFront(x, l, l2)
    PROVE  Order(l2, WithKey(m, k, x)) =
              {pair \in Order(l, m) : pair[1] # k /\ pair[2] # k}
                 \cup {<<k, j>> : j \in Keys(m) \ {k}}
<1> DEFINE m2 == WithKey(m, k, x)
<1>1. m \in [Key -> Node \cup {None}] /\ x # None
  BY LruAssumption DEF InStep
<1>2. \A j \in Keys(m) : j \in Key /\ m[j] \in Nodes(l) /\ it[m[j]].key = j
  BY DEF InStep, Keys, Nodes
<1>3. \A j \in Keys(m) : j # k => m[j] # x
  BY <1>2, <1>1 DEF Keys
<1>4. m2[k] = x /\ \A j \in Key : j # k => m2[j] = m[j]
  BY <1>1 DEF WithKey
<1>5. Keys(m2) = Keys(m) \cup {k}
  BY <1>1, <1>4 DEF Keys
<1> HIDE DEF m2
<1>6. \A i, j \in Keys(m2) :
         Ahead(l2, m2[i], m2[j]) <=>
            \/ i = k /\ j # k
            \/ i # k /\ j # k /\ Ahead(l, m[i], m[j])
  <2> SUFFICES ASSUME NEW i \in Keys(m2), NEW j \in Keys(m2)
               PROVE  Ahead(l2, m2[i], m2[j]) <=>
                         \/ i = k /\ j # k
                         \/ i # k /\ j # k /\ Ahead(l, m[i], m[j])
    OBVIOUS
  <2>1. CASE j = k
    BY <2>1, <1>4 DEF InFront
  <2>2. CASE i = k /\ j # k
    <3>1. m2[i] = x /\ m2[j] = m[j] /\ m[j] \in Nodes(l) \ {x}
      BY <2>2, <1>2, <1>3, <1>4, <1>5
    <3> QED
      BY <2>2, <3>1 DEF InFront
  <2>3. CASE i # k /\ j # k
    <3>1. m2[i] = m[i] /\ m2[j] = m[j] /\ m[i] # x /\ m[j] # x
      BY <2>3, <1>2, <1>3, <1>4, <1>5
    <3> QED
      BY <2>3, <3>1 DEF InFront
  <2> QED
    BY <2>1, <2>2, <2>3
<1>7. \A p : p \in Order(l2, m2) <=>
              \E i, j \in Keys(m2) : p = <<i, j>> /\ Ahead(l2, m2[i], m2[j])
  BY DEF Order
<1>8. \A p : p \in Order(l, m) <=>
              \E i, j \in Keys(m) : p = <<i, j>> /\ Ahead(l, m[i], m[j])
  BY DEF Order
<1>9. ASSUME NEW p, p \in Order(l2, m2)
      PROVE  p \in {pair \in Order(l, m) : pair[1] # k /\ pair[2] # k}
                 \cup {<<k, j>> : j \in Keys(m) \ {k}}
  <2>1. PICK i, j \in Keys(m2) : p = <<i, j>> /\ Ahead(l2, m2[i], m2[j])
    BY <1>7, <1>9
  <2>2. CASE i = k /\ j # k
    BY <2>1, <2>2, <1>5
  <2>3. CASE i # k /\ j # k /\ Ahead(l, m[i], m[j])
    BY <2>1, <2>3, <1>5, <1>8
  <2> QED
    BY <2>1, <2>2, <2>3, <1>6
<1>10. ASSUME NEW p \in Order(l, m), p[1] # k, p[2] # k
       PROVE  p \in Order(l2, m2)
  <2>1. PICK i, j \in Keys(m) : p = <<i, j>> /\ Ahead(l, m[i], m[j])
    BY <1>8
  <2>2. i # k /\ j # k /\ i \in Keys(m2) /\ j \in Keys(m2)
    BY <2>1, <1>5, <1>10
  <2> QED
    BY <2>1, <2>2, <1>6, <1>7
<1>11. ASSUME NEW j \in Keys(m) \ {k} PROVE <<k, j>> \in Order(l2, m2)
  <2>1. j \in Keys(m2) /\ k \in Keys(m2) /\ j # k
    BY <1>5
  <2> QED
    BY <2>1, <1>6, <1>7
<1>12. Order(l2, m2) = {pair \in Order(l, m) : pair[1] # k /\ pair[2] # k}
                          \cup {<<k, j>> : j \in Keys(m) \ {k}}
  BY <1>9, <1>10, <1>11
<1> QED
  BY <1>12 DEF m2

\* The eviction drops at most one key, the one used least recently as long as
\* every entry has its map entry, and keeps the others' values and order.
LEMMA EvictedOrder ==
    ASSUME NEW l, NEW it, NEW m, InStep(l, it, m), Len(l) > 0,
           NEW l2, NEW it2, NEW m2, LastDropped(l, it, m, l2, it2, m2)
    PROVE  LET k == it[Last(l)].key
           IN  /\ Keys(m2) = Keys(m) \ {k}
               /\ \A j \in Keys(m2) : it2[m2[j]].val = it[m[j]].val
               /\ Order(l2, m2) = {pair \in Order(l, m) :
                                      pair[1] \in Keys(m2) /\ pair[2] \in Keys(m2)}
               /\ Orphans(l, it, m) = {} =>
                     /\ k \in Keys(m)
                     /\ \A j \in Keys(m) \ {k} : <<j, k>> \in Order(l, m)
<1> DEFINE x == Last(l)
           k == it[x].key
<1>1. /\ x \in Nodes(l) /\ Nodes(l2) = Nodes(l) \ {x}
      /\ \A a \in Nodes(l2) : Ahead(l, a, x)
      /\ \A a, b : a # x /\ b # x => (Ahead(l2, a, b) <=> Ahead(l, a, b))
  BY PoppedBack DEF InStep, LastDropped
<1>2. k \in Key /\ (Orphans(l, it, m) = {} => m[k] = x)
  BY Evicted
<1>3. m \in [Key -> Node \cup {None}] /\ it \in [Node -> Items \cup {None}]
      /\ \A n \in Nodes(l) : n \in Node /\ n # None
  <2>1. Nodes(l) \subseteq Node
    BY NodesCounted DEF InStep
  <2> QED
    BY <2>1, LruAssumption DEF InStep
<1>4. m2[k] = None /\ \A j \in Key : j # k => m2[j] = m[j]
  BY <1>2, <1>3 DEF LastDropped
<1>5. Keys(m2) = Keys(m) \ {k}
  BY <1>4 DEF Keys
<1>6. \A j \in Keys(m) : j \in Key /\ m[j] \in Nodes(l) /\ it[m[j]].key = j
  BY DEF InStep, Keys, Nodes
<1>7. \A j \in Keys(m2) : j # k /\ m2[j] = m[j] /\ m[j] # x /\ m[j] \in Nodes(l2)
  <2> TAKE j \in Keys(m2)
  <2>1. j \in Keys(m) /\ j # k
    BY <1>5
  <2>2. m[j] # x
    BY <2>1, <1>6
  <2> QED
    BY <2>1, <2>2, <1>1, <1>4, <1>6
<1>8. \A j \in Keys(m2) : it2[m2[j]].val = it[m[j]].val
  <2> TAKE j \in Keys(m2)
  <2>1. m2[j] = m[j] /\ m[j] # x /\ m[j] \in Node
    BY <1>7, <1>1, <1>3
  <2>2. it2[m[j]] = it[m[j]]
    BY <2>1, <1>3 DEF LastDropped
  <2> QED
    BY <2>1, <2>2
<1>9. \A i, j \in Keys(m2) : Ahead(l2, m2[i], m2[j]) <=> Ahead(l, m[i], m[j])
  <2> TAKE i, j \in Keys(m2)
  <2>1. m2[i] = m[i] /\ m2[j] = m[j] /\ m[i] # x /\ m[j] # x
    BY <1>7
  <2> QED
    BY <2>1, <1>1
<1> HIDE DEF k, x
<1>10. Order(l2, m2) = {pair \in Order(l, m) :
                           pair[1] \in Keys(m2) /\ pair[2] \in Keys(m2)}
  <2>1. ASSUME NEW p \in Order(l2, m2)
        PROVE  p \in Order(l, m) /\ p[1] \in Keys(m2) /\ p[2] \in Keys(m2)
    <3>1. p \in Keys(m2) \X Keys(m2) /\ Ahead(l2, m2[p[1]], m2[p[2]])
      BY DEF Order
    <3>2. p[1] \in Keys(m2) /\ p[2] \in Keys(m2) /\ p \in Keys(m) \X Keys(m)
      BY <3>1, <1>5
    <3> QED
      BY <3>1, <3>2, <1>9 DEF Order
  <2>2. ASSUME NEW p \in Order(l, m), p[1] \in Keys(m2), p[2] \in Keys(m2)
        PROVE  p \in Order(l2, m2)
    <3>1. p \in Keys(m) \X Keys(m) /\ Ahead(l, m[p[1]], m[p[2]])
      BY DEF Order
    <3>2. p \in Keys(m2) \X Keys(m2) /\ Ahead(l2, m2[p[1]], m2[p[2]])
      BY <3>1, <2>2, <1>9
    <3> QED
      BY <3>2 DEF Order
  <2> QED
    BY <2>1, <2>2
<1>11. ASSUME Orphans(l, it, m) = {}
       PROVE  k \in Keys(m) /\ \A j \in Keys(m) \ {k} : <<j, k>> \in Order(l, m)
  <2>1. m[k] = x /\ k \in Keys(m)
    BY <1>11, <1>1, <1>2, <1>3 DEF Keys
  <2>2. \A j \in Keys(m) \ {k} : Ahead(l, m[j], x)
    BY <1>1, <1>5, <1>7
  <2> QED
    BY <2>1, <2>2 DEF Order
<1> QED
  BY <1>5, <1>8, <1>10, <1>11 DEF k, x
\* The eviction as one of the choices RecencyMap leaves.
LEMMA EvictionIsKept ==
    ASSUME IInv
    PROVE  /\ Keys(MapAfterEviction) \in Abstract!Kept
           /\ Keys(MapAfterEviction) \subseteq Cached
           /\ \A j \in Keys(MapAfterEviction) :
                 ItemsAfterEviction[MapAfterEviction[j]].val = Content[j]
           /\ Order(ListAfterEviction, MapAfterEviction) =
                 Abstract!Among(Keys(MapAfterEviction))
<1>1. /\ Content = ContentOf(item, m_cache_map)
      /\ Before = Order(m_cache_list, m_cache_map)
      /\ Abstract!Held = Cached /\ Cached = Keys(m_cache_map)
  BY MappingIs
<1>2. Abstract!Cardinality(Abstract!Held) = size
  BY <1>1, AbstractCardinality DEF size
<1>3. size \in Int /\ Capacity \in Int
  BY SizeCounts, LruAssumption DEF IInv
<1>4. CASE ~MustEvict
  <2>1. /\ ListAfterEviction = m_cache_list
        /\ ItemsAfterEviction = item
        /\ MapAfterEviction = m_cache_map
    BY <1>4 DEF ListAfterEviction, ItemsAfterEviction, MapAfterEviction
  <2>2. Abstract!Kept = {Cached}
    BY <1>1, <1>2, <1>3, <1>4 DEF Abstract!Kept, MustEvict
  <2>3. Abstract!Among(Cached) = Before
    BY DEF Abstract!Among, Before
  <2> QED
    BY <1>1, <2>1, <2>2, <2>3 DEF ContentOf
<1>5. CASE MustEvict
  <2> DEFINE k == item[Last(m_cache_list)].key
             rest == Keys(MapAfterEviction)
  <2>1. LastDropped(m_cache_list, item, m_cache_map,
                    ListAfterEviction, ItemsAfterEviction, MapAfterEviction)
    BY <1>5 DEF LastDropped, ListAfterEviction, ItemsAfterEviction,
                MapAfterEviction, Victim
  <2>2. InStep(m_cache_list, item, m_cache_map) /\ Len(m_cache_list) > 0
    BY <1>5, EvictionMakesRoom DEF IInv, InStepInv
  <2>3. /\ rest = Keys(m_cache_map) \ {k}
        /\ \A j \in rest : ItemsAfterEviction[MapAfterEviction[j]].val
                              = item[m_cache_map[j]].val
        /\ Order(ListAfterEviction, MapAfterEviction) =
              {pair \in Order(m_cache_list, m_cache_map) :
                  pair[1] \in rest /\ pair[2] \in rest}
        /\ Orphans(m_cache_list, item, m_cache_map) = {} =>
              /\ k \in Keys(m_cache_map)
              /\ \A j \in Keys(m_cache_map) \ {k} :
                    <<j, k>> \in Order(m_cache_list, m_cache_map)
    BY <2>1, <2>2, EvictedOrder
  <2> HIDE DEF k, rest
  <2>4. rest = Cached \ {k}
    BY <2>3, <1>1
  <2>5. \A j \in rest : Content[j] = item[m_cache_map[j]].val
    BY <2>4, <1>1 DEF ContentOf
  <2>6. Order(ListAfterEviction, MapAfterEviction) = Abstract!Among(rest)
    BY <2>3, <1>1 DEF Abstract!Among
  <2>7. ASSUME failed = 0 PROVE rest \in Abstract!Kept
    <3>1. Orphans(m_cache_list, item, m_cache_map) = {}
      <4>1. Cardinality(Orphans(m_cache_list, item, m_cache_map)) = 0
        BY <2>7, SizeCounts DEF IInv, CountInv
      <4> QED
        BY <4>1, SizeCounts, FS_EmptySet DEF IInv
    <3>2. k \in Abstract!Oldest
      BY <3>1, <2>3, <1>1 DEF Abstract!Oldest
    <3>3. Abstract!Kept = {Cached \ {j} : j \in Abstract!Oldest}
      BY <2>7, <1>1, <1>2, <1>3, <1>5 DEF Abstract!Kept, MustEvict
    <3> QED
      BY <3>2, <3>3, <2>4
  <2>8. ASSUME failed # 0 PROVE rest \in Abstract!Kept
    <3>1. Abstract!Kept = {Cached} \cup {Cached \ {j} : j \in Cached}
      BY <2>8, <1>1, <1>2, <1>3, <1>5 DEF Abstract!Kept, MustEvict
    <3>2. rest = Cached \/ k \in Cached
      BY <2>4
    <3> QED
      BY <3>1, <3>2, <2>4
  <2>9. rest \in Abstract!Kept
    BY <2>7, <2>8
  <2> QED
    BY <2>3, <2>4, <2>5, <2>6, <2>9 DEF rest
<1> QED
  BY <1>4, <1>5

\* The mapping after a step.
LEMMA MappingNext == /\ Content' = ContentOf(item', m_cache_map')
                     /\ Before' = Order(m_cache_list', m_cache_map')
                     /\ Cached' = Keys(m_cache_map')
BY DEF Content, ContentOf, Before, Order, Ahead, Cached, Keys

LEMMA UseOrder ==
    ASSUME IInv, NEW k \in Cached,
           m_cache_list' = Spliced(k), UNCHANGED m_cache_map
    PROVE  Before' = Abstract!Used(k, Cached)
<1>1. InStep(m_cache_list, item, m_cache_map) /\ m_cache_map[k] \in Node
      /\ m_cache_map \in [Key -> Node \cup {None}] /\ k \in Key
  BY DEF IInv, InStepInv, InStep, Cached
<1>2. InFront(m_cache_map[k], m_cache_list, m_cache_list')
  BY SpliceMovesToFront DEF IInv
<1>3. WithKey(m_cache_map, k, m_cache_map[k]) = m_cache_map
  BY <1>1 DEF WithKey
<1>4. Order(m_cache_list', WithKey(m_cache_map, k, m_cache_map[k])) =
         {pair \in Order(m_cache_list, m_cache_map) : pair[1] # k /\ pair[2] # k}
            \cup {<<k, j>> : j \in Keys(m_cache_map) \ {k}}
  <2>1. PICK x \in Node : x = m_cache_map[k]
    BY <1>1
  <2>2. PICK l2 : l2 = m_cache_list'
    OBVIOUS
  <2>3. Order(l2, WithKey(m_cache_map, k, x)) =
         {pair \in Order(m_cache_list, m_cache_map) : pair[1] # k /\ pair[2] # k}
            \cup {<<k, j>> : j \in Keys(m_cache_map) \ {k}}
    BY <1>1, <1>2, <2>1, <2>2, OrderInFront
  <2> QED
    BY <2>1, <2>2, <2>3
<1>5. Before' = {pair \in Before : pair[1] # k /\ pair[2] # k}
                   \cup {<<k, j>> : j \in Cached \ {k}}
  BY <1>3, <1>4, MappingIs, MappingNext
<1>6. Abstract!Among(Cached \ {k}) = {pair \in Before : pair[1] # k /\ pair[2] # k}
  BY DEF Abstract!Among, Before
<1> QED
  BY <1>5, <1>6 DEF Abstract!Used

LEMMA GetIsGet ==
    ASSUME IInv, NEW k \in Key, GetHit(k) \/ GetMiss(k)
    PROVE  Abstract!Get(k)
<1>1. Content = ContentOf(item, m_cache_map) /\ Abstract!Held = Cached
  BY MappingIs
<1>2. CASE GetHit(k)
  <2>1. k \in Cached /\ m_cache_list' = Spliced(k) /\ UNCHANGED m_cache_map
    BY <1>2 DEF GetHit, contains
  <2>2. Before' = Abstract!Used(k, Cached)
    BY <2>1, UseOrder
  <2>3. Content' = Content
    BY <1>2 DEF GetHit, Content, Cached
  <2>4. Content[k] = item[m_cache_map[k]].val
    BY <2>1 DEF Content
  <2> QED
    BY <1>1, <1>2, <2>1, <2>2, <2>3, <2>4
    DEF GetHit, Abstract!Get, Outcome, Abstract!Outcome
<1>3. CASE GetMiss(k)
  <2>1. Content' = Content /\ Before' = Before /\ k \notin Cached
    BY <1>3 DEF GetMiss, Content, Cached, Before, contains
  <2> QED
    BY <1>1, <1>3, <2>1 DEF GetMiss, Abstract!Get, Outcome, Abstract!Outcome
<1> QED
  BY <1>2, <1>3

LEMMA PutUpdateIsPut ==
    ASSUME IInv, NEW k \in Key, NEW v \in Val, PutUpdate(k, v)
    PROVE  Abstract!Put(k, v)
<1>1. k \in Cached /\ m_cache_list' = Spliced(k) /\ UNCHANGED m_cache_map
      /\ Abstract!Held = Cached /\ Cached' = Cached
  BY MappingIs DEF PutUpdate, contains, Cached
<1>2. Before' = Abstract!Used(k, Cached)
  BY <1>1, UseOrder
<1>3. \A j \in Cached : item'[m_cache_map[j]].val =
                           IF j = k THEN v ELSE item[m_cache_map[j]].val
  <2> TAKE j \in Cached
  <2>1. /\ item \in [Node -> Items \cup {None}]
        /\ m_cache_map[j] \in Nodes(m_cache_list) /\ item[m_cache_map[j]].key = j
        /\ m_cache_map[k] \in Nodes(m_cache_list) /\ item[m_cache_map[k]].key = k
        /\ item[m_cache_map[k]] \in Items
        /\ Nodes(m_cache_list) \subseteq Node
    BY <1>1, NodesCounted DEF IInv, InStepInv, InStep, Nodes, Cached
  <2>2. item' = [item EXCEPT ![m_cache_map[k]].val = v]
    BY DEF PutUpdate
  <2>3. CASE j = k
    BY <2>1, <2>2, <2>3 DEF Items
  <2>4. CASE j # k
    <3>1. m_cache_map[j] # m_cache_map[k]
      BY <2>1, <2>4
    <3> QED
      BY <2>1, <2>2, <2>4, <3>1
  <2> QED
    BY <2>3, <2>4
<1>4. Content' = [j \in Cached |-> item'[m_cache_map[j]].val]
  BY <1>1 DEF Content
<1>5. Content' = [j \in Cached |-> IF j = k THEN v ELSE Content[j]]
  BY <1>3, <1>4 DEF Content
<1>6. Cached \cup {k} = Cached
  BY <1>1
<1> QED
  BY <1>1, <1>2, <1>5, <1>6
  DEF PutUpdate, Abstract!Put, Outcome, Abstract!Outcome

LEMMA PutNewIsPut ==
    ASSUME IInv, NEW k \in Key, NEW v \in Val, PutNew(k, v)
    PROVE  Abstract!Put(k, v)
<1> DEFINE rest == Keys(MapAfterEviction)
<1>1. PICK n \in Node :
         /\ FreeNode(n)
         /\ item' = [ItemsAfterEviction EXCEPT ![n] = Item(k, v)]
         /\ m_cache_list' = <<n>> \o ListAfterEviction
         /\ m_cache_map' = [MapAfterEviction EXCEPT ![k] = n]
  BY DEF PutNew
<1>2. InStep(ListAfterEviction, ItemsAfterEviction, MapAfterEviction)
  BY EvictionMakesRoom
<1>3. MapAfterEviction[k] = None /\ n \notin Nodes(ListAfterEviction)
  BY <1>1, EvictionAddsNoKey, FreeNodeIsNew DEF PutNew
<1>4. Emplaced(ListAfterEviction, ItemsAfterEviction, n, k, v,
               m_cache_list', item')
  BY <1>1 DEF Emplaced
<1>5. InFront(n, ListAfterEviction, m_cache_list')
  BY <1>2, <1>3, <1>4, Inserted
<1>6. m_cache_map' = WithKey(MapAfterEviction, k, n)
  BY <1>1 DEF WithKey
<1>7. Order(m_cache_list', WithKey(MapAfterEviction, k, n)) =
         {pair \in Order(ListAfterEviction, MapAfterEviction) :
             pair[1] # k /\ pair[2] # k}
            \cup {<<k, j>> : j \in rest \ {k}}
  <2>1. PICK l2 : l2 = m_cache_list'
    OBVIOUS
  <2>2. Order(l2, WithKey(MapAfterEviction, k, n)) =
         {pair \in Order(ListAfterEviction, MapAfterEviction) :
             pair[1] # k /\ pair[2] # k}
            \cup {<<k, j>> : j \in rest \ {k}}
    BY <1>2, <1>3, <1>5, <2>1, OrderInFront
  <2> QED
    BY <2>1, <2>2
<1>8. k \notin rest /\ n # None /\ MapAfterEviction \in [Key -> Node \cup {None}]
  BY <1>2, <1>3, LruAssumption DEF Keys, InStep
<1>9. /\ rest \in Abstract!Kept
      /\ \A j \in rest : ItemsAfterEviction[MapAfterEviction[j]].val = Content[j]
      /\ Order(ListAfterEviction, MapAfterEviction) = Abstract!Among(rest)
  BY EvictionIsKept
<1>10. Before' = Abstract!Used(k, rest)
  <2>1. rest \ {k} = rest
    BY <1>8
  <2>2. \A pair \in Abstract!Among(rest) : pair[1] # k /\ pair[2] # k
    BY <1>8 DEF Abstract!Among
  <2>3. Before' = Abstract!Among(rest) \cup {<<k, j>> : j \in rest}
    BY <1>6, <1>7, <1>9, <2>1, <2>2, MappingNext
  <2> QED
    BY <2>1, <2>3 DEF Abstract!Used
<1>11. Keys(m_cache_map') = rest \cup {k}
  BY <1>1, <1>8 DEF Keys
<1>12. \A j \in rest \cup {k} :
          item'[m_cache_map'[j]].val = IF j = k THEN v ELSE Content[j]
  <2> TAKE j \in rest \cup {k}
  <2>1. ItemsAfterEviction \in [Node -> Items \cup {None}]
    BY <1>2 DEF InStep
  <2>2. CASE j = k
    BY <2>1, <2>2, <1>1, <1>8 DEF Item
  <2>3. CASE j # k
    <3>1. /\ j \in Key /\ j \in rest
          /\ MapAfterEviction[j] \in Nodes(ListAfterEviction)
      BY <2>3, <1>2 DEF Keys, InStep, Nodes
    <3>2. m_cache_map'[j] = MapAfterEviction[j] /\ MapAfterEviction[j] # n
      BY <3>1, <2>3, <1>1, <1>3, <1>8
    <3>3. MapAfterEviction[j] \in Node
      BY <3>1, <1>2, NodesCounted DEF InStep
    <3>4. item'[MapAfterEviction[j]] = ItemsAfterEviction[MapAfterEviction[j]]
      BY <3>2, <3>3, <2>1, <1>1
    <3> QED
      BY <2>3, <3>1, <3>2, <3>4, <1>9
  <2> QED
    BY <2>2, <2>3
<1>13. Content' = [j \in rest \cup {k} |-> IF j = k THEN v ELSE Content[j]]
  BY <1>11, <1>12, MappingNext DEF ContentOf
<1>14. k \notin Abstract!Held
  BY MappingIs DEF PutNew, contains
<1> QED
  BY <1>9, <1>10, <1>13, <1>14 DEF PutNew, Abstract!Put, Outcome, Abstract!Outcome
\* The containers after the eviction alone, which is all that is left of a
\* put() whose emplace_front or map insertion throws.
LEMMA PutThrowsIsPutThrows ==
    ASSUME IInv, NEW k \in Key,
           PutEmplaceThrows(k) \/ \E v \in Val : PutInsertThrows(k, v)
    PROVE  Abstract!PutThrows(k)
<1> DEFINE rest == Keys(MapAfterEviction)
<1>1. /\ rest \in Abstract!Kept
      /\ \A j \in rest : ItemsAfterEviction[MapAfterEviction[j]].val = Content[j]
      /\ Order(ListAfterEviction, MapAfterEviction) = Abstract!Among(rest)
  BY EvictionIsKept
<1>2. k \notin Abstract!Held /\ m_cache_map' = MapAfterEviction
  BY MappingIs DEF PutEmplaceThrows, PutInsertThrows, contains
<1>3. last' = Abstract!Outcome("threw", k, None) /\ failed' \in {failed, failed + 1}
  BY DEF PutEmplaceThrows, PutInsertThrows, Outcome, Abstract!Outcome
<1>4. InStep(ListAfterEviction, ItemsAfterEviction, MapAfterEviction)
  BY EvictionMakesRoom
<1>5. /\ \A j \in rest : item'[MapAfterEviction[j]].val = Content[j]
      /\ Order(m_cache_list', MapAfterEviction) = Abstract!Among(rest)
  <2>1. CASE PutEmplaceThrows(k)
    BY <2>1, <1>1 DEF PutEmplaceThrows
  <2>2. CASE \E v \in Val : PutInsertThrows(k, v)
    <3>1. PICK v \in Val, n \in Node :
             /\ ~contains(k) /\ FreeNode(n)
             /\ item' = [ItemsAfterEviction EXCEPT ![n] = Item(k, v)]
             /\ m_cache_list' = <<n>> \o ListAfterEviction
      BY <2>2 DEF PutInsertThrows
    <3>2. n \notin Nodes(ListAfterEviction) /\ MapAfterEviction[k] = None
      BY <3>1, FreeNodeIsNew, EvictionAddsNoKey
    <3>3. Emplaced(ListAfterEviction, ItemsAfterEviction, n, k, v,
                   m_cache_list', item')
      BY <3>1 DEF Emplaced
    <3>4. InFront(n, ListAfterEviction, m_cache_list')
      BY <1>4, <3>2, <3>3, Inserted
    <3>5. \A j \in rest : /\ MapAfterEviction[j] \in Nodes(ListAfterEviction)
                          /\ MapAfterEviction[j] \in Node
      <4>1. Nodes(ListAfterEviction) \subseteq Node
        BY <1>4, NodesCounted DEF InStep
      <4> QED
        BY <4>1, <1>4 DEF Keys, InStep, Nodes
    <3>6. \A j \in rest : item'[MapAfterEviction[j]]
                             = ItemsAfterEviction[MapAfterEviction[j]]
      BY <3>1, <3>2, <3>5, <1>4 DEF InStep
    <3>7. \A i, j \in rest :
             Ahead(m_cache_list', MapAfterEviction[i], MapAfterEviction[j]) <=>
             Ahead(ListAfterEviction, MapAfterEviction[i], MapAfterEviction[j])
      BY <3>2, <3>4, <3>5 DEF InFront
    <3>8. Order(m_cache_list', MapAfterEviction)
             = Order(ListAfterEviction, MapAfterEviction)
      <4>1. \A pair \in rest \X rest : pair[1] \in rest /\ pair[2] \in rest
        OBVIOUS
      <4> QED
        BY <4>1, <3>7 DEF Order
    <3> QED
      BY <1>1, <3>6, <3>8
  <2> QED
    BY <2>1, <2>2
<1>6. Content' = [j \in rest |-> Content[j]]
  BY <1>2, <1>5, MappingNext DEF ContentOf
<1>7. Before' = Abstract!Among(rest)
  BY <1>2, <1>5, MappingNext
<1> QED
  BY <1>1, <1>2, <1>3, <1>6, <1>7 DEF Abstract!PutThrows

LEMMA PutUpdateThrowsIsPutThrows ==
    ASSUME NEW k \in Key, PutUpdateThrows(k)
    PROVE  Abstract!PutThrows(k)
<1>1. /\ k \in Abstract!Held /\ Abstract!Held = Cached
      /\ Content' = Content /\ Before' = Before
  BY MappingIs DEF PutUpdateThrows, contains, Content, Before, Cached
<1>2. Content = [j \in Cached |-> Content[j]]
  BY DEF Content
<1>3. Before = Abstract!Among(Cached)
  BY DEF Before, Abstract!Among
<1> QED
  BY <1>1, <1>2, <1>3
  DEF PutUpdateThrows, Abstract!PutThrows, Outcome, Abstract!Outcome

LEMMA ClearIsClear == ASSUME Clear PROVE Abstract!Clear
<1>1. Keys(m_cache_map') = {}
  BY DEF Clear, Keys
<1>2. Content' = [k \in {} |-> None] /\ Before' = {}
  BY <1>1, MappingNext DEF ContentOf, Order
<1> QED
  BY <1>2 DEF Clear, Abstract!Clear, Abstract!Nothing

LEMMA InitIsInit == Init => Abstract!Init
<1> SUFFICES ASSUME Init PROVE Abstract!Init
  OBVIOUS
<1>1. Keys(m_cache_map) = {}
  BY DEF Init, Keys
<1>2. Content = [k \in {} |-> None] /\ Before = {}
  BY <1>1, MappingIs DEF ContentOf, Order
<1> QED
  BY <1>2 DEF Init, Abstract!Init, Abstract!Nothing

LEMMA StepIsStep == IInv /\ [Next]_vars => [Abstract!Next]_(Abstract!vars)
<1> SUFFICES ASSUME IInv, [Next]_vars PROVE [Abstract!Next]_(Abstract!vars)
  OBVIOUS
<1>1. CASE UNCHANGED vars
  BY <1>1 DEF vars, Abstract!vars, Content, Before, Cached
<1>2. CASE Next
  BY <1>2, GetIsGet, PutUpdateIsPut, PutNewIsPut, PutThrowsIsPutThrows,
     PutUpdateThrowsIsPutThrows, ClearIsClear DEF Next, Abstract!Next
<1> QED
  BY <1>1, <1>2

\* The lru_cache is the map by recency of RecencyMap: whatever is called and
\* whatever throws, it answers the value put last, and evicts the key used
\* least recently as long as no insertion into its map has failed.
THEOREM LruImplementsRecencyMap == Spec => ImplementsRecencyMap
<1>1. Init => Abstract!Init
  BY InitIsInit
<1>2. IInv /\ [Next]_vars => [Abstract!Next]_(Abstract!vars)
  BY StepIsStep
<1> QED
  BY <1>1, <1>2, InvAlways, PTL DEF Spec, Abstract!Spec, ImplementsRecencyMap
=============================================================================
