--------------------------- MODULE SpecificHandler ---------------------------
(***************************************************************************)
(* toolpex::specific_counter_handler                                       *)
(* (include/toolpex/specific_counter_handler.h) together with the counter  *)
(* behind it: handlers are what execution units use a counter through, and *)
(* the destructor of the last one takes the unit's private entry back.     *)
(* The counter is module ApproxLimitCounter, whose calls start here, from  *)
(* the handlers, and run in its steps, the units' interleaved.             *)
(*                                                                         *)
(* A unit has one handler at a time and does one thing at a time.  Calls   *)
(* that change the counter's map run alone.  Anybody may reset() the       *)
(* counter, also while there are handlers: their units lose their entries, *)
(* and get new ones when they next count.  A client with the habit         *)
(* "vacant" assigns only to handlers that were moved from.                 *)
(***************************************************************************)
EXTENDS ApproxLimitCounter

CONSTANTS Handler,     \* the handler objects
          None,        \* no object
          Discipline   \* the client's habits, see above

HandlerAssumption == None \notin Unit /\ Discipline \subseteq {"vacant"}

VARIABLES
    m_parent,     \* whether each handler points to the counter
    m_tid,        \* the unit of each handler; None while there is no object
    active        \* the units that updated since they got their handler and
                  \* since the counter was last reset

handlers == <<m_parent, m_tid>>
handlerVars == <<handlers, active, vars>>

Live == {h \in Handler : m_tid[h] # None}
Owning == {h \in Live : m_parent[h]}
Served == {m_tid[h] : h \in Owning}
Idle(u) == pc[u] = "idle"
Leaving(u) == ~Idle(u) /\ call[u].op = "unregister"

HandlerInit == /\ m_parent = [h \in Handler |-> FALSE]
               /\ m_tid = [h \in Handler |-> None]
               /\ active = {}
               /\ Init

\* approximate_limit_counter::get_specific_handler(), once per unit at a time.
GetSpecificHandler(h, u) ==
    /\ h \notin Live /\ u \notin Served /\ Idle(u)
    /\ m_parent' = [m_parent EXCEPT ![h] = TRUE]
    /\ m_tid' = [m_tid EXCEPT ![h] = u]
    /\ active' = active \ {u}
    /\ UNCHANGED vars

\* add_count(), sub_count() and read_count() go on to the counter.
CallCounter(h, c) ==
    /\ h \in Owning /\ c.op \in {"add", "sub", "read"}
    /\ Call(m_tid[h], c)
    /\ active' = IF IsUpdate(c) THEN active \cup {m_tid[h]} ELSE active
    /\ UNCHANGED handlers

\* reset() is not called through a handler, and asks for none.
ResetCounter(u, c) ==
    /\ c.op = "reset"
    /\ Call(u, c)
    /\ UNCHANGED <<handlers, active>>

\* Mutant of Emptied: the handler moved from keeps its counter.
MutantEmptiedNot(parents, h) == parents

\* exchange(other.m_parent, nullptr)
Emptied(parents, h) == [parents EXCEPT ![h] = FALSE]

MoveConstruct(h, from) ==
    /\ h \notin Live /\ from \in Live /\ Idle(m_tid[from])
    /\ m_parent' = [Emptied(m_parent, from) EXCEPT ![h] = m_parent[from]]
    /\ m_tid' = [m_tid EXCEPT ![h] = m_tid[from]]
    /\ UNCHANGED <<active, vars>>

\* operator= does not unregister the unit the target served.
MoveAssign(h, from) ==
    /\ {h, from} \subseteq Live /\ Idle(m_tid[from])
    /\ "vacant" \in Discipline => ~m_parent[h]
    /\ m_parent' = [Emptied(m_parent, from) EXCEPT ![h] = m_parent[from]]
    /\ m_tid' = [m_tid EXCEPT ![h] = m_tid[from]]
    /\ UNCHANGED <<active, vars>>

\* The destructor of a handler that points to the counter unregisters its unit.
Destroy(h) ==
    /\ h \in Live
    /\ IF m_parent[h]
       THEN Call(m_tid[h], [op |-> "unregister", arg |-> 0])
       ELSE UNCHANGED vars
    /\ m_parent' = [m_parent EXCEPT ![h] = FALSE]
    /\ m_tid' = [m_tid EXCEPT ![h] = None]
    /\ UNCHANGED active

\* A step of a call; the one that is reset()'s body takes all entries away.
Counting(u) ==
    /\ Step(u)
    /\ active' = IF AtBody(u, "reset") THEN {} ELSE active
    /\ UNCHANGED handlers

HandlerNext ==
    \/ \E h \in Handler :
          \/ \E u \in Unit : GetSpecificHandler(h, u)
          \/ \E c \in Calls : CallCounter(h, c)
          \/ \E from \in Handler : MoveConstruct(h, from) \/ MoveAssign(h, from)
          \/ Destroy(h)
    \/ \E u \in Unit : Counting(u) \/ \E c \in Calls : ResetCounter(u, c)

HandlerSpec == HandlerInit /\ [][HandlerNext]_handlerVars

-----------------------------------------------------------------------------
(* Properties.                                                             *)

\* Every variable keeps to its type, and only objects point to the counter.
HandlersTypeOK ==
    /\ m_parent \in [Handler -> BOOLEAN]
    /\ \A h \in Handler : m_parent[h] => h \in Live
    /\ m_tid \in [Handler -> Unit \cup {None}]
    /\ active \subseteq Unit
    /\ TypeOK

\* The counter holds no entry of a unit whose handler's lifetime is over and
\* that is not just leaving, through whatever moves that lifetime went.
NoEntryOutlivesHandler ==
    \A u \in registered : u \in Served \/ Leaving(u)

\* The entry of a unit that counts is not taken away while its handler lives,
\* except by a reset of the counter, after which the next update makes a new
\* one.
EntryLastsAsHandler ==
    \A u \in active \cap Served : Idle(u) => u \in registered

\* When the last unit has left, all that was counted is in the global counter,
\* and nothing is reserved for anybody, also if the counter was reset under
\* the handlers.
NothingReservedAfterwards ==
    Served = {} /\ (\A u \in Unit : Idle(u)) =>
        /\ m_global_counter_reserve = 0
        /\ Value = m_global_counter

\* A unit's entry, and with it the share of the limit that is reserved for the
\* unit, lasts as long as its handler and never longer; only a reset of the
\* counter takes it away before that.
EntryIffHandler == /\ HandlersTypeOK
                   /\ NoEntryOutlivesHandler
                   /\ EntryLastsAsHandler
                   /\ NothingReservedAfterwards
=============================================================================
