--------------------------- MODULE UniqueResource ---------------------------
(***************************************************************************)
(* toolpex::unique_resource (include/toolpex/unique_resource.h): handles   *)
(* that run a deleter on their resource when they are destroyed.           *)
(*                                                                         *)
(* A client with the habits of Discipline is served as the name promises:  *)
(*   "valid"   moves only from handles that own their resource             *)
(*   "vacant"  assigns only to handles that own nothing                    *)
(***************************************************************************)
EXTENDS Integers, FiniteSets

CONSTANTS Handle,      \* the handle objects
          Resource,    \* the values of R
          None,        \* no object
          Discipline   \* the client's habits, see above

ResourceAssumption == /\ None \notin Resource
                      /\ Discipline \subseteq {"valid", "vacant"}

VARIABLES
    m_resource,   \* the resource of each handle; None while there is no object
    m_valid,
    made,         \* the resources put into handles so far
    deleted       \* how often the deleter ran on each, counted up to 2

vars == <<m_resource, m_valid, made, deleted>>

Live == {h \in Handle : m_resource[h] # None}
Owners(r) == {h \in Live : m_valid[h] /\ m_resource[h] = r}

Init == /\ m_resource = [h \in Handle |-> None]
        /\ m_valid = [h \in Handle |-> FALSE]
        /\ made = {}
        /\ deleted = [r \in Resource |-> 0]

Make(h, r) == /\ h \notin Live /\ r \notin made
              /\ m_resource' = [m_resource EXCEPT ![h] = r]
              /\ m_valid' = [m_valid EXCEPT ![h] = TRUE]
              /\ made' = made \cup {r}
              /\ UNCHANGED deleted

Destroy(h) ==
    /\ h \in Live
    /\ deleted' = IF m_valid[h] /\ deleted[m_resource[h]] < 2
                  THEN [deleted EXCEPT ![m_resource[h]] = @ + 1] ELSE deleted
    /\ m_resource' = [m_resource EXCEPT ![h] = None]
    /\ m_valid' = [m_valid EXCEPT ![h] = FALSE]
    /\ UNCHANGED made

MayMoveFrom(from) == from \in Live /\ ("valid" \in Discipline => m_valid[from])

\* A resource such as a number is copied by the move; m_valid of the new
\* handle is TRUE whatever it was in the old one.
MoveConstruct(h, from) ==
    /\ h \notin Live /\ MayMoveFrom(from)
    /\ m_resource' = [m_resource EXCEPT ![h] = m_resource[from]]
    /\ m_valid' = [m_valid EXCEPT ![from] = FALSE, ![h] = TRUE]
    /\ UNCHANGED <<made, deleted>>

\* m_valid after the two assignments of operator=, in their order.
Transferred(h, from) == [m_valid EXCEPT ![h] = TRUE, ![from] = FALSE]

MoveAssign(h, from) ==
    /\ h \in Live /\ MayMoveFrom(from)
    /\ "vacant" \in Discipline => ~m_valid[h]
    /\ m_resource' = [m_resource EXCEPT ![h] = m_resource[from]]
    /\ m_valid' = Transferred(h, from)
    /\ UNCHANGED <<made, deleted>>

Next == \E h \in Handle : \/ \E r \in Resource : Make(h, r)
                          \/ Destroy(h)
                          \/ \E from \in Handle : \/ MoveConstruct(h, from)
                                                  \/ MoveAssign(h, from)

Spec == Init /\ [][Next]_vars

-----------------------------------------------------------------------------
(* Properties.                                                             *)

\* Every variable keeps to its type, and only objects own.
TypeOK == /\ m_resource \in [Handle -> Resource \cup {None}]
          /\ m_valid \in [Handle -> BOOLEAN]
          /\ \A h \in Handle : m_valid[h] => h \in Live
          /\ made \subseteq Resource
          /\ deleted \in [Resource -> 0 .. 2]

\* The deleter runs at most once on every resource, whatever was moved where.
DeletedAtMostOnce == \A r \in Resource : deleted[r] <= 1

\* No resource is lost: when no handle owns it any more, the deleter has run.
DeletedWhenUnowned ==
    \A r \in made : Owners(r) = {} => deleted[r] >= 1

\* A resource that was deleted has no owner, and no resource has two.
OwnedByOne == \A r \in Resource :
    Cardinality(Owners(r)) <= IF deleted[r] = 0 THEN 1 ELSE 0

\* The deleter runs exactly once on every resource, when its owner goes.
DeletedExactlyOnce ==
    TypeOK /\ DeletedAtMostOnce /\ DeletedWhenUnowned /\ OwnedByOne
=============================================================================
