------------------------------ MODULE LruCache ------------------------------
(***************************************************************************)
(* toolpex::lru_cache (include/toolpex/lru_cache.h): a list of entries,    *)
(* most recently used first, and a hash map from keys to the list's nodes. *)
(* Storing a value, making a list node and making a map entry may throw.   *)
(***************************************************************************)
EXTENDS Integers, FiniteSets, SequencesExt

CONSTANTS Key, Val,
          Node,       \* the addresses list nodes may have
          None,       \* nothing: no node, no value
          Capacity,   \* m_capacity
          MaxFailed   \* bound: on failed

\* The constructor throws for a capacity of zero.
ASSUME LruAssumption ==
    /\ Capacity \in Nat \ {0}
    /\ None \notin Node \cup Val
    /\ MaxFailed \in Nat

VARIABLES
    m_cache_list,   \* the nodes, front first
    item,           \* the key and value of each node, None outside the list
    m_cache_map,    \* the node of each key, or None
    failed,         \* how often making a map entry threw since the last clear()
    last            \* the last call: its kind, key and answer

vars == <<m_cache_list, item, m_cache_map, failed, last>>

Item(k, v) == [key |-> k, val |-> v]
Outcome(op, k, v) == [op |-> op, key |-> k, val |-> v]

Cached == {k \in Key : m_cache_map[k] # None}
size == Cardinality(Cached)
contains(k) == k \in Cached

Init == /\ m_cache_list = <<>>
        /\ item = [n \in Node |-> None]
        /\ m_cache_map = [k \in Key |-> None]
        /\ failed = 0
        /\ last = None

\* Mutant of Spliced: a use leaves the key's node where it is.
MutantNotSpliced(k) == m_cache_list

\* splice() moves the key's node to the front, behind which the nodes that
\* were before it move back by one.
Spliced(k) ==
    LET at == CHOOSE i \in DOMAIN m_cache_list : m_cache_list[i] = m_cache_map[k]
    IN [i \in DOMAIN m_cache_list |-> CASE i = 1 -> m_cache_map[k]
                                        [] 1 < i /\ i <= at -> m_cache_list[i - 1]
                                        [] at < i -> m_cache_list[i]]

GetHit(k) ==
    /\ contains(k)
    /\ m_cache_list' = Spliced(k)
    /\ last' = Outcome("get", k, item[m_cache_map[k]].val)
    /\ UNCHANGED <<item, m_cache_map, failed>>

GetMiss(k) ==
    /\ ~contains(k)
    /\ last' = Outcome("get", k, None)
    /\ UNCHANGED <<m_cache_list, item, m_cache_map, failed>>

PutUpdate(k, v) ==
    /\ contains(k)
    /\ item' = [item EXCEPT ![m_cache_map[k]].val = v]
    /\ m_cache_list' = Spliced(k)
    /\ last' = Outcome("put", k, v)
    /\ UNCHANGED <<m_cache_map, failed>>

\* The assignment throws before the splice; it is taken to leave the old value.
PutUpdateThrows(k) ==
    /\ contains(k)
    /\ last' = Outcome("threw", k, None)
    /\ UNCHANGED <<m_cache_list, item, m_cache_map, failed>>

MustEvict == size >= Capacity

Victim == Last(m_cache_list)

\* The list and the map after evict_if_needed().
ListAfterEviction == IF MustEvict THEN Front(m_cache_list)
                     ELSE m_cache_list

ItemsAfterEviction == IF MustEvict THEN [item EXCEPT ![Victim] = None] ELSE item

\* Mutant of MapAfterEviction: only the list entry is dropped.
MutantMapKeepsVictim == m_cache_map

MapAfterEviction == IF MustEvict
                    THEN [m_cache_map EXCEPT ![item[Victim].key] = None]
                    ELSE m_cache_map

FreeNode(n) == n \notin ToSet(ListAfterEviction)

PutNew(k, v) ==
    /\ ~contains(k)
    /\ \E n \in Node :
          /\ FreeNode(n)
          /\ item' = [ItemsAfterEviction EXCEPT ![n] = Item(k, v)]
          /\ m_cache_list' = <<n>> \o ListAfterEviction
          /\ m_cache_map' = [MapAfterEviction EXCEPT ![k] = n]
    /\ last' = Outcome("put", k, v)
    /\ UNCHANGED failed

\* emplace_front throws: the eviction stays done.
PutEmplaceThrows(k) ==
    /\ ~contains(k)
    /\ m_cache_list' = ListAfterEviction
    /\ m_cache_map' = MapAfterEviction
    /\ item' = ItemsAfterEviction
    /\ last' = Outcome("threw", k, None)
    /\ UNCHANGED failed

\* The map's insertion throws: the new list entry stays, without a key.
PutInsertThrows(k, v) ==
    /\ ~contains(k) /\ failed < MaxFailed
    /\ failed' = failed + 1
    /\ \E n \in Node :
          /\ FreeNode(n)
          /\ item' = [ItemsAfterEviction EXCEPT ![n] = Item(k, v)]
          /\ m_cache_list' = <<n>> \o ListAfterEviction
    /\ m_cache_map' = MapAfterEviction
    /\ last' = Outcome("threw", k, None)

Clear ==
    /\ m_cache_map' = [k \in Key |-> None]
    /\ m_cache_list' = <<>>
    /\ failed' = 0
    /\ item' = [n \in Node |-> None]
    /\ last' = [op |-> "clear"]

Next == \/ \E k \in Key : \/ GetHit(k) \/ GetMiss(k)
                          \/ PutUpdateThrows(k) \/ PutEmplaceThrows(k)
        \/ \E k \in Key, v \in Val : \/ PutUpdate(k, v) \/ PutNew(k, v)
                                     \/ PutInsertThrows(k, v)
        \/ Clear

Spec == Init /\ [][Next]_vars

-----------------------------------------------------------------------------
(* Properties.                                                             *)

\* Every variable keeps to its type; no node is twice in the list.
TypeOK ==
    /\ m_cache_list \in Seq(Node) /\ IsInjective(m_cache_list)
    /\ \A n \in ToSet(m_cache_list) : item[n].key \in Key /\ item[n].val \in Val
    /\ m_cache_map \in [Key -> Node \cup {None}]

Entries == ToSet(m_cache_list)
Mapped == {n \in Entries : m_cache_map[item[n].key] = n}

\* The map leads from every cached key to a list entry of that key, and the
\* list has no other entries than those and what failed insertions left.
MapMatchesList ==
    /\ \A k \in Cached : /\ m_cache_map[k] \in Entries
                         /\ item[m_cache_map[k]].key = k
    /\ Cardinality(Entries \ Mapped) <= failed

\* put() never lets the cache grow beyond its capacity, but for one entry for
\* each insertion into the map that failed.
SizeWithinCapacity == Len(m_cache_list) <= Capacity + failed

\* List and map stay in step: the map leads to every entry but those failed
\* insertions left, one for each failure, and put() keeps to the capacity
\* but for those.
ContainersAgree == TypeOK /\ MapMatchesList /\ SizeWithinCapacity

\* The value of each cached key, and which cached keys are nearer the front.
Content == [k \in Cached |-> item[m_cache_map[k]].val]
Before == {pair \in Cached \X Cached :
              \E i, j \in 1..Len(m_cache_list) :
                 /\ i < j
                 /\ m_cache_list[i] = m_cache_map[pair[1]]
                 /\ m_cache_list[j] = m_cache_map[pair[2]]}

\* The two containers together are the map by recency that the cache's name
\* promises: hits, updates, evictions and exceptions in any mixture answer
\* the value put last, and drop the entry used least recently.
Abstract == INSTANCE RecencyMap WITH content <- Content, newer <- Before
ImplementsRecencyMap == Abstract!Spec
=============================================================================
