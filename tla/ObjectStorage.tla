--------------------------- MODULE ObjectStorage ---------------------------
(***************************************************************************)
(* toolpex::object_storage (include/toolpex/object_storage.h): memory for  *)
(* one object that comes and goes.  The class has no destructor of its     *)
(* own, and a move hands the memory over, so a storage keeps the promise   *)
(* of its name for a client with the habits of Discipline, who stores      *)
(* nothing into a storage that was moved from:                             *)
(*   "clears"  clears only a storage that has a value                      *)
(*   "empties" destroys and assigns to only storages that have none        *)
(***************************************************************************)
EXTENDS Integers

CONSTANTS Storage,      \* the storage objects
          Block,        \* the blocks of memory for an object
          None,
          MaxObjects,   \* bound: of the objects made
          Discipline

StorageAssumption ==
    /\ None \notin Block
    /\ MaxObjects \in Nat
    /\ Discipline \subseteq {"clears", "empties"}

VARIABLES
    live,          \* the storages that exist
    m_storage,     \* the block of each, None after a move
    m_has_value,
    inside,        \* for each block, the object in it: its number, 0 if none
    created,          \* the objects made so far
    destroyed      \* how often each was destroyed

vars == <<live, m_storage, m_has_value, inside, created, destroyed>>

Objects == 1 .. created
Free == Block \ {m_storage[s] : s \in live}

Init == /\ live = {}
        /\ m_storage = [s \in Storage |-> None]
        /\ m_has_value = [s \in Storage |-> FALSE]
        /\ inside = [b \in Block |-> 0]
        /\ created = 0
        /\ destroyed = [o \in 1 .. MaxObjects |-> 0]

-----------------------------------------------------------------------------
Construct(s) ==
    /\ s \notin live /\ live' = live \cup {s}
    /\ \E b \in Free : /\ m_storage' = [m_storage EXCEPT ![s] = b]
                       /\ inside' = [inside EXCEPT ![b] = 0]
    /\ m_has_value' = [m_has_value EXCEPT ![s] = FALSE]
    /\ UNCHANGED <<created, destroyed>>

\* The memory goes, the object in it is not destroyed.
Destroy(s) ==
    /\ s \in live /\ live' = live \ {s}
    /\ "empties" \in Discipline => ~m_has_value[s]
    /\ m_storage' = [m_storage EXCEPT ![s] = None]
    /\ m_has_value' = [m_has_value EXCEPT ![s] = FALSE]
    /\ UNCHANGED <<inside, created, destroyed>>

\* Mutant of FlagsMoved: the source still says that it has a value.
MutantFlagsMovedNot(s, from) == [m_has_value EXCEPT ![s] = m_has_value[from]]

\* m_has_value after a move: exchanged for false.
FlagsMoved(s, from) ==
    [[m_has_value EXCEPT ![s] = m_has_value[from]] EXCEPT ![from] = FALSE]

MoveConstruct(s, from) ==
    /\ s \notin live /\ from \in live
    /\ live' = live \cup {s}
    /\ m_storage' = [m_storage EXCEPT ![s] = m_storage[from], ![from] = None]
    /\ m_has_value' = FlagsMoved(s, from)
    /\ UNCHANGED <<inside, created, destroyed>>

\* The target's memory goes with what is in it.  Assigned to itself a storage
\* keeps its memory, but says that it has no value.
MoveAssign(s, from) ==
    /\ {s, from} \subseteq live
    /\ "empties" \in Discipline => ~m_has_value[s]
    /\ m_storage' = IF s = from THEN m_storage
                    ELSE [m_storage EXCEPT ![s] = m_storage[from],
                                           ![from] = None]
    /\ m_has_value' = FlagsMoved(s, from)
    /\ UNCHANGED <<live, inside, created, destroyed>>

-----------------------------------------------------------------------------
\* set_value(): assigns to the object that is there, or makes one in place.
SetValue(s) ==
    /\ s \in live /\ created < MaxObjects
    /\ m_storage[s] # None
    /\ IF m_has_value[s] THEN UNCHANGED <<created, inside>>
       ELSE /\ created' = created + 1
            /\ inside' = [inside EXCEPT ![m_storage[s]] = created + 1]
    /\ m_has_value' = [m_has_value EXCEPT ![s] = TRUE]
    /\ UNCHANGED <<live, m_storage, destroyed>>

\* The destructor runs on whatever is, or last was, in the block.
Ended(b) == IF inside[b] = 0 \/ destroyed[inside[b]] = 2 THEN destroyed
            ELSE [destroyed EXCEPT ![inside[b]] = @ + 1]

\* clear(): does not look whether there is an object.
Clear(s) ==
    /\ s \in live /\ m_storage[s] # None
    /\ "clears" \in Discipline => m_has_value[s]
    /\ destroyed' = Ended(m_storage[s])
    /\ m_has_value' = [m_has_value EXCEPT ![s] = FALSE]
    /\ UNCHANGED <<live, m_storage, inside, created>>

\* get_value(): moves the object out and clears; throws if there is none.
GetValue(s) ==
    /\ s \in live
    /\ IF m_has_value[s]
       THEN /\ destroyed' = Ended(m_storage[s])
            /\ m_has_value' = [m_has_value EXCEPT ![s] = FALSE]
       ELSE UNCHANGED <<destroyed, m_has_value>>
    /\ UNCHANGED <<live, m_storage, inside, created>>

Next == \E s \in Storage :
            \/ Construct(s) \/ Destroy(s)
            \/ SetValue(s) \/ Clear(s) \/ GetValue(s)
            \/ \E from \in Storage : MoveConstruct(s, from) \/ MoveAssign(s, from)

Spec == Init /\ [][Next]_vars

-----------------------------------------------------------------------------
(* Properties.                                                             *)

Alive(o) == o > 0 /\ destroyed[o] = 0

\* Every variable keeps to its type; every live storage has memory of its own
\* unless it was moved from.
TypeOK == /\ live \subseteq Storage
          /\ m_storage \in [Storage -> Block \cup {None}]
          /\ m_has_value \in [Storage -> BOOLEAN]
          /\ \A s, t \in live : m_storage[s] = m_storage[t] =>
                                   s = t \/ m_storage[s] = None
          /\ created \in 0 .. MaxObjects /\ inside \in [Block -> 0 .. created]
          /\ destroyed \in [1 .. MaxObjects -> 0 .. 2]

\* A storage says that it has a value exactly while an object is alive in its
\* memory, wherever storage and object were moved.
FlagTellsTruth ==
    \A s \in live :
        m_has_value[s] <=> m_storage[s] # None /\ Alive(inside[m_storage[s]])

\* Every object made is destroyed once or still held by a storage that will
\* destroy it: none is lost and none is destroyed twice.
ObjectsAccountedFor ==
    \A o \in Objects :
        \/ destroyed[o] = 1
        \/ /\ destroyed[o] = 0
           /\ \E s \in live : /\ m_has_value[s] /\ m_storage[s] # None
                               /\ inside[m_storage[s]] = o

\* Every object is destroyed exactly once, when its storage says it goes.
DestroyedExactlyOnce == TypeOK /\ FlagTellsTruth /\ ObjectsAccountedFor
=============================================================================
