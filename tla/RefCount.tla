------------------------------ MODULE RefCount ------------------------------
(***************************************************************************)
(* toolpex::ref_count and ref_count_guard (include/toolpex/ref_count.h):   *)
(* an atomic count of shares, and guards that hold one share each.  The    *)
(* guards are used by different threads, each guard by one at a time, so   *)
(* between two steps of a guard's assignment the others may take theirs.   *)
(*                                                                         *)
(* The counted thing is retired by whoever gives a share back and finds    *)
(* that it was the last one, or sees a count of zero.  The client makes a  *)
(* new share only while somebody has one of the same count.                *)
(***************************************************************************)
EXTENDS Integers, FiniteSets

CONSTANTS Count,       \* the ref_count objects
          Guard,       \* the ref_count_guard objects
          None,
          Originals    \* the values given to the constructor

RefCountAssumption == None \notin Count /\ Originals \subseteq Nat

VARIABLES
    m_count,
    owed,        \* the shares of each count that are the client's own
    guards,      \* the guards that exist
    m_cnt,       \* the count each guard has a share of, or None
    source,      \* the guard an assignment under way takes from, or None
    retired      \* the counts whose thing was retired

vars == <<m_count, owed, guards, m_cnt, source, retired>>

Sharers(r) == {g \in guards : m_cnt[g] = r}
Shared(r) == owed[r] > 0 \/ Sharers(r) # {}
Assigning(g) == source[g] # None
Busy(g) == Assigning(g) \/ \E h \in guards : source[h] = g

Init == /\ owed \in [Count -> Originals] /\ m_count = owed
        /\ guards = {} /\ retired = {}
        /\ m_cnt = [g \in Guard |-> None]
        /\ source = [g \in Guard |-> None]

\* fetch_sub() answers the count before, so one means that it was the last.
FetchSub(r) ==
    /\ m_count' = [m_count EXCEPT ![r] = @ - 1]
    /\ retired' = IF m_count[r] = 1 THEN retired \cup {r} ELSE retired

\* The client's own shares: fetch_add(), ++, fetch_sub() and --.
Add(r) == /\ Shared(r)
          /\ m_count[r] <= Cardinality(Guard)
          /\ m_count' = [m_count EXCEPT ![r] = @ + 1]
          /\ owed' = [owed EXCEPT ![r] = @ + 1]
          /\ UNCHANGED <<guards, m_cnt, source, retired>>

Sub(r) == /\ owed[r] > 0
          /\ FetchSub(r)
          /\ owed' = [owed EXCEPT ![r] = @ - 1]
          /\ UNCHANGED <<guards, m_cnt, source>>

\* A client that waits for zero with load().
Poll(r) == /\ m_count[r] = 0
           /\ retired' = retired \cup {r}
           /\ UNCHANGED <<m_count, owed, guards, m_cnt, source>>

Construct(g, r) ==
    /\ g \notin guards /\ guards' = guards \cup {g}
    /\ Shared(r)
    /\ m_cnt' = [m_cnt EXCEPT ![g] = r]
    /\ m_count' = [m_count EXCEPT ![r] = @ + 1]
    /\ UNCHANGED <<owed, source, retired>>

\* Mutant of Taken: the source goes on with the share.
MutantTakenShares(g, from) == [m_cnt EXCEPT ![g] = m_cnt[from]]

\* exchange(other.m_cnt, nullptr): a guard that takes from itself keeps what it
\* has.
Taken(g, from) == [[m_cnt EXCEPT ![from] = None] EXCEPT ![g] = m_cnt[from]]

MoveConstruct(g, from) ==
    /\ g \notin guards /\ from \in guards /\ ~Busy(from)
    /\ guards' = guards \cup {g}
    /\ m_cnt' = Taken(g, from)
    /\ UNCHANGED <<m_count, owed, source, retired>>

\* release()
GiveBack(g) ==
    /\ m_cnt' = [m_cnt EXCEPT ![g] = None]
    /\ IF m_cnt[g] = None THEN UNCHANGED <<m_count, retired>>
                          ELSE FetchSub(m_cnt[g])

Release(g) == /\ g \in guards /\ ~Busy(g)
              /\ GiveBack(g)
              /\ UNCHANGED <<owed, guards, source>>

\* operator=: first release(), then the share of the other guard.
AssignReleases(g, from) ==
    /\ {g, from} \subseteq guards /\ ~Busy(g) /\ ~Busy(from)
    /\ source' = [source EXCEPT ![g] = from]
    /\ GiveBack(g)
    /\ UNCHANGED <<owed, guards>>

AssignTakes(g) ==
    /\ Assigning(g)
    /\ m_cnt' = Taken(g, source[g])
    /\ source' = [source EXCEPT ![g] = None]
    /\ UNCHANGED <<m_count, owed, guards, retired>>

Destroy(g) == /\ g \in guards /\ ~Busy(g) /\ guards' = guards \ {g}
              /\ GiveBack(g)
              /\ UNCHANGED <<owed, source>>

Next == \/ \E r \in Count : Add(r) \/ Sub(r) \/ Poll(r)
        \/ \E g \in Guard : \/ \E r \in Count : Construct(g, r)
                            \/ \E from \in Guard : \/ MoveConstruct(g, from)
                                                   \/ AssignReleases(g, from)
                            \/ Release(g) \/ AssignTakes(g) \/ Destroy(g)

Spec == Init /\ [][Next]_vars

-----------------------------------------------------------------------------
(* Properties.                                                             *)

\* Every variable keeps to its type, and only guards that exist have shares.
TypeOK == /\ m_count \in [Count -> Int] /\ owed \in [Count -> Nat]
          /\ guards \subseteq Guard /\ retired \subseteq Count
          /\ m_cnt \in [Guard -> Count \cup {None}]
          /\ source \in [Guard -> Guard \cup {None}]
          /\ \A g \in Guard \ guards : m_cnt[g] = None /\ source[g] = None

\* Every share is counted once, however the guards were moved and assigned.
CountIsShares == \A r \in Count : m_count[r] = owed[r] + Cardinality(Sharers(r))

\* A thing that was retired is shared by nobody, and never will be by clients that
\* make a share only of what is shared, as Add and Construct have it.  A count
\* that starts at zero and is then counted up, as in test/ref_count.cc, has no
\* thing that goes with its last share.
RetiredUnshared == \A r \in retired : ~Shared(r)

\* The count is the number of shares, so finding the last one gone is safe.
SharesCounted == TypeOK /\ CountIsShares /\ RetiredUnshared
=============================================================================
