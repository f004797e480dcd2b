---------------------------- MODULE OwnedMemory ----------------------------
(***************************************************************************)
(* The library's three owners of raw memory: page (include/toolpex/        *)
(* page.h), buffer_block (buffer.h, src/buffer.cc) and allocator_ptr       *)
(* (allocator_guard.h).  A behaviour is of objects of one of them, kind.   *)
(* Every piece of memory goes back to the allocator it came from, with the *)
(* size it was asked for with.                                             *)
(*                                                                         *)
(* A client commits to a page no more than it offers, and with the habit   *)
(* "single" it asks allocate_guarded() for the memory of one object.  The  *)
(* move assignment of allocator_ptr cannot be instantiated.                *)
(***************************************************************************)
EXTENDS Integers, FiniteSets

CONSTANTS Owner,       \* the objects
          Piece,       \* the pieces of memory, each lent at most once
          Allocator, None,
          Sizes,       \* the sizes asked for
          Alignment,   \* buffer_block::alignment
          Discipline   \* the client's habits, see above

MemoryAssumption == /\ None \notin Piece \cup Allocator
                    /\ None \notin [from : Allocator, size : Nat]
                    /\ Sizes \subseteq Nat /\ Alignment \in Nat \ {0}
                    /\ Discipline \subseteq {"single"}

VARIABLES
    kind,
    existing,      \* the objects that exist
    m_storage,     \* the memory of each, or None
    m_alloc,       \* m_alloc, or m_pmr
    m_capacity,    \* the size that each gives back
    m_size,        \* how much of it was written
    lent,          \* what each piece of memory was lent with, None if never
    returned,      \* how often each was given back
    wrongly,       \* whether one went to another allocator or with another size
    given_up,      \* the memory allocator_ptrs gave up
    dropped        \* the pages that the client released, wherever they went

objects == <<existing, m_storage, m_alloc, m_capacity, m_size, dropped>>
memory == <<lent, returned, wrongly, given_up>>
vars == <<kind, objects, memory>>

Init == /\ kind \in {"page", "buffer_block", "allocator_ptr"}
        /\ existing = {} /\ dropped = {}
        /\ m_storage = [o \in Owner |-> None] /\ m_alloc = [o \in Owner |-> None]
        /\ m_capacity = [o \in Owner |-> 0] /\ m_size = [o \in Owner |-> 0]
        /\ lent = [m \in Piece |-> None] /\ returned = [m \in Piece |-> 0]
        /\ wrongly = FALSE /\ given_up = {}

Loan(a, n) == [from |-> a, size |-> n]
RoundedUp(n) == ((n + Alignment - 1) \div Alignment) * Alignment

\* The size asked for when the client asks for n.
Asked(n) == IF kind = "buffer_block" THEN RoundedUp(n) ELSE n

\* deallocate() of allocator_ptr gives back one object, whatever was allocated.
Remembered(n) == IF kind = "allocator_ptr" THEN 1 ELSE Asked(n)

Allocate(o, a, n) ==
    /\ o \notin existing /\ existing' = existing \cup {o}
    /\ kind = "allocator_ptr" /\ "single" \in Discipline => n = 1
    /\ \E m \in Piece : /\ lent[m] = None
                         /\ lent' = [lent EXCEPT ![m] = Loan(a, Asked(n))]
                         /\ m_storage' = [m_storage EXCEPT ![o] = m]
    /\ m_alloc' = [m_alloc EXCEPT ![o] = a]
    /\ m_capacity' = [m_capacity EXCEPT ![o] = Remembered(n)]
    /\ m_size' = [m_size EXCEPT ![o] = 0]
    /\ UNCHANGED <<kind, dropped, returned, wrongly, given_up>>

\* What giving back the memory of o, if it has any, does.
GivenBack(o) ==
    LET m == m_storage[o] IN
    IF m = None THEN UNCHANGED <<returned, wrongly>>
    ELSE /\ returned' = [returned EXCEPT ![m] = @ + 1]
         /\ wrongly' = (wrongly \/ lent[m] # Loan(m_alloc[o], m_capacity[o]))

\* Mutant of Vacated: the source keeps its memory.
MutantVacatedNot(f, from, o, none) == [f EXCEPT ![o] = f[from]]

\* A member after o took it from another object, which is left with none.
Vacated(f, from, o, none) == [f EXCEPT ![from] = none, ![o] = f[from]]

Moved(o, from) ==
    /\ m_storage' = Vacated(m_storage, from, o, None)
    /\ m_capacity' = Vacated(m_capacity, from, o, 0)
    /\ m_size' = Vacated(m_size, from, o, 0)
    /\ m_alloc' = [m_alloc EXCEPT ![o] = m_alloc[from],
                     ![from] = IF kind = "allocator_ptr" THEN None ELSE @]
    /\ dropped' = (dropped \ {o, from}) \cup (IF from \in dropped THEN {o} ELSE {})

MoveConstruct(o, from) ==
    /\ o \notin existing /\ from \in existing
    /\ existing' = existing \cup {o}
    /\ Moved(o, from)
    /\ UNCHANGED <<kind, memory>>

MoveAssign(o, from) ==
    /\ {o, from} \subseteq existing /\ o # from /\ kind # "allocator_ptr"
    /\ GivenBack(o)
    /\ Moved(o, from)
    /\ UNCHANGED <<kind, existing, lent, given_up>>

\* release(), which leaves a page with its capacity and size; so does assigning
\* an object to itself.
Release(o) ==
    /\ o \in existing /\ kind # "allocator_ptr"
    /\ GivenBack(o)
    /\ m_storage' = [m_storage EXCEPT ![o] = None]
    /\ IF kind = "page"
       THEN /\ dropped' = dropped \cup {o}
            /\ UNCHANGED <<m_capacity, m_size>>
       ELSE /\ m_capacity' = [m_capacity EXCEPT ![o] = 0]
            /\ m_size' = [m_size EXCEPT ![o] = 0]
            /\ UNCHANGED dropped
    /\ UNCHANGED <<kind, existing, m_alloc, lent, given_up>>

\* give_up_ownership()
GiveUp(o) ==
    /\ o \in existing /\ kind = "allocator_ptr"
    /\ given_up' = given_up \cup ({m_storage[o]} \ {None})
    /\ m_storage' = [m_storage EXCEPT ![o] = None]
    /\ UNCHANGED <<kind, existing, m_alloc, m_capacity, m_size, dropped, lent,
                   returned, wrongly>>

left(o) == m_capacity[o] - m_size[o]

\* commit_write(): buffer_block refuses what does not fit, page trusts.
CommitWrite(o, n) ==
    /\ o \in existing /\ kind # "allocator_ptr" /\ o \notin dropped
    /\ n <= left(o)
    /\ m_size' = [m_size EXCEPT ![o] = @ + n]
    /\ UNCHANGED <<kind, existing, m_storage, m_alloc, m_capacity, dropped,
                   memory>>

Destroy(o) ==
    /\ o \in existing /\ existing' = existing \ {o}
    /\ GivenBack(o)
    /\ m_storage' = [m_storage EXCEPT ![o] = None]
    /\ m_alloc' = [m_alloc EXCEPT ![o] = None]
    /\ m_capacity' = [m_capacity EXCEPT ![o] = 0]
    /\ m_size' = [m_size EXCEPT ![o] = 0]
    /\ dropped' = dropped \ {o}
    /\ UNCHANGED <<kind, lent, given_up>>

Next == \E o \in Owner :
            \/ \E a \in Allocator, n \in Sizes : Allocate(o, a, n)
            \/ \E from \in Owner : MoveConstruct(o, from) \/ MoveAssign(o, from)
            \/ Release(o) \/ GiveUp(o) \/ Destroy(o)
            \/ \E n \in Sizes : CommitWrite(o, n)

Spec == Init /\ [][Next]_vars

-----------------------------------------------------------------------------
(* Properties.                                                             *)

\* Every variable keeps to its type; only objects that exist have memory.
TypeOK == /\ existing \subseteq Owner /\ dropped \subseteq existing
          /\ m_storage \in [Owner -> Piece \cup {None}]
          /\ \A o \in Owner : m_storage[o] # None => o \in existing
          /\ m_alloc \in [Owner -> Allocator \cup {None}]
          /\ m_capacity \in [Owner -> Nat] /\ m_size \in [Owner -> Nat]
          /\ returned \in [Piece -> Nat] /\ wrongly \in BOOLEAN
          /\ given_up \subseteq Piece

OwnersOf(m) == {o \in Owner : m_storage[o] = m}

\* Memory that was lent has one owner, or was given up, or went back once; and
\* it went back to where it came from and with its size.
OwnedOrReturned ==
    /\ ~wrongly
    /\ \A m \in Piece :
          Cardinality(OwnersOf(m)) + returned[m] + Cardinality({m} \cap given_up)
              = IF lent[m] = None THEN 0 ELSE 1

\* What an object offers to be read or written is memory that it owns: only the
\* client's own release() of a page leaves room where there is no memory.
RoomIsMemory ==
    \A o \in existing \ dropped :
        /\ m_size[o] <= m_capacity[o]
        /\ kind # "allocator_ptr" /\ m_capacity[o] > 0 => m_storage[o] # None

\* Every piece of memory goes back once, whole, to its allocator, and nobody
\* offers memory that went back.
BlocksReturned == TypeOK /\ OwnedOrReturned /\ RoomIsMemory
=============================================================================
