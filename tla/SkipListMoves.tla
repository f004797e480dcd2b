--------------------------- MODULE SkipListMoves ---------------------------
(***************************************************************************)
(* Several toolpex::skip_lists that are moved and assigned to each other   *)
(* (include/toolpex/skip_list.h).  The chains of one list are module       *)
(* SkipList's; here a list is the pair of sentinels it has or has not, its *)
(* levels and the values in it.  Every value remembers the list that made  *)
(* it, and its deleter goes through that list.                             *)
(*                                                                         *)
(* A list that was moved from has no sentinels: it may be assigned to,     *)
(* moved from, cleared and destroyed, but not inserted into or searched.   *)
(* A client with the habit "outlives" destroys no list while another holds *)
(* a value that list made.                                                 *)
(***************************************************************************)
EXTENDS Integers, FiniteSets, FiniteSetsExt

CONSTANTS List,        \* the list objects
          Element,     \* the values, each made at most once
          MaxLevels,   \* the arguments given to the constructor
          None,
          Discipline   \* the client's habits, see above

\* random_level() divides by max_level() - 1.
MovesAssumption == /\ \A n \in MaxLevels : n \in Nat /\ n > 1
                   /\ None \notin List
                   /\ Discipline \subseteq {"outlives"}

VARIABLES
    alive,                \* the lists that exist
    m_head,               \* the levels of each list's sentinels, 0 without any
    m_max_level, m_level, m_size,
    holder,               \* the list each value is in, or None
    m_list,               \* the list each value's deleter names, or None
    height,               \* the levels of its node
    demade,               \* how often it was destroyed
    astray                \* whether a deleter went through a list that is gone

lists == <<alive, m_head, m_max_level, m_level, m_size>>
values == <<holder, m_list, height, demade, astray>>
vars == <<lists, values>>

In(l) == {v \in Element : holder[v] = l}
MadeElsewhere(l) == {v \in Element \ In(l) : holder[v] # None /\ m_list[v] = l}

Init == /\ alive = {}
        /\ m_head = [l \in List |-> 0] /\ m_max_level = [l \in List |-> 0]
        /\ m_level = [l \in List |-> 0] /\ m_size = [l \in List |-> 0]
        /\ holder = [v \in Element |-> None] /\ m_list = [v \in Element |-> None]
        /\ height = [v \in Element |-> 0] /\ demade = [v \in Element |-> 0]
        /\ astray = FALSE

Construct(l) == /\ l \notin alive /\ alive' = alive \cup {l}
                /\ \E n \in MaxLevels :
                      /\ m_head' = [m_head EXCEPT ![l] = n]
                      /\ m_max_level' = [m_max_level EXCEPT ![l] = n]
                /\ m_level' = [m_level EXCEPT ![l] = 1]
                /\ m_size' = [m_size EXCEPT ![l] = 0]
                /\ UNCHANGED values

\* insert() of a key that is new; make_value() gives the value its deleter.
Insert(l, v) ==
    /\ m_head[l] > 0 /\ m_list[v] = None
    /\ \E n \in 1 .. m_max_level[l] - 1 :
          /\ height' = [height EXCEPT ![v] = n]
          /\ m_level' = [m_level EXCEPT ![l] = IF n > @ THEN n ELSE @]
    /\ holder' = [holder EXCEPT ![v] = l]
    /\ m_list' = [m_list EXCEPT ![v] = l]
    /\ m_size' = [m_size EXCEPT ![l] = @ + 1]
    /\ UNCHANGED <<alive, m_head, m_max_level, demade, astray>>

\* The nodes of vs go, and each one's deleter calls the list that it names.
Demade(vs) ==
    /\ demade' = [v \in Element |-> IF v \in vs THEN demade[v] + 1
                                                ELSE demade[v]]
    /\ astray' = (astray \/ \E v \in vs : m_list[v] \notin alive)

\* The highest level on which anything but v is left.
LevelWithout(l, v) == Max({height[w] : w \in In(l) \ {v}} \cup {0})

Erase(l, v) ==
    /\ m_head[l] > 0 /\ v \in In(l)
    /\ Demade({v})
    /\ holder' = [holder EXCEPT ![v] = None]
    /\ m_level' = [m_level EXCEPT ![l] = LevelWithout(l, v)]
    /\ m_size' = [m_size EXCEPT ![l] = @ - 1]
    /\ UNCHANGED <<alive, m_head, m_max_level, m_list, height>>

\* clear() returns early in a list without sentinels.
Cleared(l) == IF m_head[l] = 0 THEN {} ELSE In(l)

Clear(l) ==
    /\ m_head[l] > 0
    /\ Demade(Cleared(l))
    /\ holder' = [v \in Element |-> IF v \in Cleared(l) THEN None ELSE holder[v]]
    /\ m_size' = [m_size EXCEPT ![l] = 0]
    /\ m_level' = [m_level EXCEPT ![l] = 1]
    /\ UNCHANGED <<alive, m_head, m_max_level, m_list, height>>

\* Mutant of Handed: the level stays behind.
MutantHandedKeepsLevel(l, from) ==
    /\ m_head' = [m_head EXCEPT ![from] = 0, ![l] = m_head[from]]
    /\ m_size' = [m_size EXCEPT ![from] = 0, ![l] = m_size[from]]
    /\ m_max_level' = [m_max_level EXCEPT ![l] = m_max_level[from]]
    /\ UNCHANGED m_level

\* What both moves hand over: sentinels, counts and level; the source keeps its
\* greatest level.
Handed(l, from) ==
    /\ m_head' = [m_head EXCEPT ![from] = 0, ![l] = m_head[from]]
    /\ m_size' = [m_size EXCEPT ![from] = 0, ![l] = m_size[from]]
    /\ m_level' = [m_level EXCEPT ![from] = 0, ![l] = m_level[from]]
    /\ m_max_level' = [m_max_level EXCEPT ![l] = m_max_level[from]]

MoveConstruct(l, from) ==
    /\ l \notin alive /\ from \in alive /\ alive' = alive \cup {l}
    /\ Handed(l, from)
    /\ holder' = [v \in Element |-> IF v \in In(from) THEN l ELSE holder[v]]
    /\ UNCHANGED <<m_list, height, demade, astray>>

\* operator= clears the target first.  Assigned to itself a list is cleared.
MoveAssign(l, from) ==
    /\ {l, from} \subseteq alive /\ l # from
    /\ Demade(Cleared(l))
    /\ Handed(l, from)
    /\ holder' = [v \in Element |-> IF v \in Cleared(l) THEN None
                                    ELSE IF v \in In(from) THEN l ELSE holder[v]]
    /\ UNCHANGED <<alive, m_list, height>>

Destroy(l) ==
    /\ l \in alive /\ alive' = alive \ {l}
    /\ "outlives" \in Discipline => MadeElsewhere(l) = {}
    /\ Demade(Cleared(l))
    /\ holder' = [v \in Element |-> IF v \in Cleared(l) THEN None ELSE holder[v]]
    /\ m_head' = [m_head EXCEPT ![l] = 0]
    /\ m_max_level' = [m_max_level EXCEPT ![l] = 0]
    /\ m_level' = [m_level EXCEPT ![l] = 0]
    /\ m_size' = [m_size EXCEPT ![l] = 0]
    /\ UNCHANGED <<m_list, height>>

Next == \E l \in List : \/ Construct(l) \/ Clear(l) \/ Destroy(l)
                        \/ \E v \in Element : Insert(l, v) \/ Erase(l, v)
                        \/ \E from \in List : \/ MoveConstruct(l, from)
                                              \/ MoveAssign(l, from)

Spec == Init /\ [][Next]_vars

-----------------------------------------------------------------------------
(* Properties.                                                             *)

\* Every variable keeps to its type; only existing lists have sentinels.
TypeOK == /\ alive \subseteq List
          /\ m_head \in [List -> MaxLevels \cup {0}]
          /\ m_max_level \in [List -> MaxLevels \cup {0}]
          /\ \A l \in List : m_head[l] # 0 => l \in alive
          /\ m_level \in [List -> Nat] /\ m_size \in [List -> Nat]
          /\ holder \in [Element -> List \cup {None}]
          /\ m_list \in [Element -> List \cup {None}]
          /\ height \in [Element -> Nat] /\ demade \in [Element -> Nat]
          /\ astray \in BOOLEAN

\* A value is destroyed once, when it leaves its last list and not before, and
\* through a list that still exists.
DemadeOnce ==
    /\ ~astray
    /\ \A v \in Element :
          demade[v] = IF m_list[v] # None /\ holder[v] = None THEN 1 ELSE 0

\* Whatever lists were moved and assigned where: a list with sentinels has as
\* many levels as it promises, searches from a level that misses no node of
\* its, and counts its values; and no value is in a list without sentinels.
TravelsWhole ==
    \A l \in List :
        /\ m_size[l] = Cardinality(In(l))
        /\ m_head[l] = 0 => In(l) = {}
        /\ m_head[l] # 0 =>
              /\ m_max_level[l] = m_head[l]
              /\ m_level[l] <= m_head[l]
              /\ \A v \in In(l) : height[v] <= m_level[l]

\* Values and levels move with the list, and no value is lost on the way.
ValuesFreedOnce == TypeOK /\ DemadeOnce /\ TravelsWhole
=============================================================================
