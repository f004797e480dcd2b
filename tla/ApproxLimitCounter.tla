------------------------- MODULE ApproxLimitCounter -------------------------
(***************************************************************************)
(* toolpex::approximate_limit_counter (include/toolpex/counter.h), with    *)
(* the handler calls that reach it (specific_counter_handler.h).           *)
(*                                                                         *)
(* Every execution unit owns an entry of the map m_counter: a private      *)
(* count and a private maximum, reserved out of the global counter.  A     *)
(* call that fits in the entry touches nothing else (the fast path);       *)
(* otherwise the unit takes m_lock, gives its entry back ("globalize"),    *)
(* decides on the global counter, and takes a new share ("balance").       *)
(*                                                                         *)
(* The counters are unsigned of W values; Minus and Plus wrap as the code  *)
(* does.  m_lock is used through what SpinLock is shown to implement.      *)
(* local_variable() looks the map up without the lock, so a lookup is a    *)
(* place of its own ("lookup") that other units' steps may overlap.        *)
(***************************************************************************)
EXTENDS Integers, FiniteSets

CONSTANTS
    Unit,             \* the ExecutionIdType values in use
    W,                \* CounterT has the values 0 .. W-1
    Deltas,           \* the arguments given to add_count and sub_count
    Limits,           \* the limits given to the constructor and to reset
    SerialMembership, \* do callers keep calls that change the map apart?
    MaxOnline         \* bound of the model on m_num_online

Counter == 0 .. W - 1

ASSUME CounterAssumption ==
    /\ IsFiniteSet(Unit)
    /\ W \in Nat \ {0}
    /\ Deltas \subseteq Counter
    /\ Limits \subseteq Counter
    /\ SerialMembership \in BOOLEAN
    /\ MaxOnline \in Nat

VARIABLES
    m_global_counter_max, m_global_counter_reserve, m_global_counter,
    registered,     \* the keys of m_counter
    counter_max,    \* m_counter[u].m_counter_max, 0 without an entry
    counter,        \* m_counter[u].m_counter, 0 without an entry
    m_num_online,
    lockHolders,    \* m_lock
    pc,             \* where each unit is
    call,           \* the call it is in
    answer,         \* what that call is going to return
    loaded,         \* cnt_max_v and cnt_v of the fast path
    sum, todo       \* read_count's sum, and the entries it has still to add

globals == <<m_global_counter_max, m_global_counter_reserve, m_global_counter>>
entries == <<registered, counter_max, counter, m_num_online>>
control == <<lockHolders, pc, call, answer, loaded>>
scanning == <<sum, todo>>
vars == <<globals, entries, control, scanning>>

Plus(a, b)  == IF a + b < W THEN a + b ELSE a + b - W
Minus(a, b) == IF a >= b THEN a - b ELSE a - b + W
Smaller(a, b) == IF a <= b THEN a ELSE b

Lock == INSTANCE Mutex WITH Thread <- Unit, holders <- lockHolders

Places == {"idle", "lookup", "load", "fast", "lock", "body", "scan",
           "unlock", "return"}

NoCall == [op |-> "none", arg |-> 0]
NoLoad == [max |-> 0, cnt |-> 0]
Calls == [op : {"add", "sub"}, arg : Deltas]
            \cup [op : {"reset"}, arg : Limits]
            \cup [op : {"read", "unregister"}, arg : {0}]

Init == /\ m_global_counter_max \in Limits
        /\ m_global_counter_reserve = 0
        /\ m_global_counter = 0
        /\ registered = {}
        /\ counter_max = [u \in Unit |-> 0]
        /\ counter = [u \in Unit |-> 0]
        /\ m_num_online = 0
        /\ lockHolders = {}
        /\ pc = [u \in Unit |-> "idle"]
        /\ call = [u \in Unit |-> NoCall]
        /\ answer = [u \in Unit |-> "none"]
        /\ loaded = [u \in Unit |-> NoLoad]
        /\ sum = 0
        /\ todo = {}

Goto(u, place) == pc' = [pc EXCEPT ![u] = place]
Answer(u, a) == answer' = [answer EXCEPT ![u] = a]

-----------------------------------------------------------------------------
(* Calls and who may make them.                                            *)

IsUpdate(c) == c.op \in {"add", "sub"}

\* Does call c of u insert into, erase from or clear the map?
ChangesMap(u, c) == \/ c.op \in {"unregister", "reset"}
                    \/ IsUpdate(c) /\ u \notin registered

\* u is inside a call that has yet to do so, or to return from it.
Changing(u) == /\ pc[u] # "idle"
               /\ \/ call[u].op \in {"unregister", "reset"}
                  \/ pc[u] = "lookup" /\ u \notin registered

\* The callers' discipline under SerialMembership: a call that changes the
\* map runs alone.  The code has no lock that would enforce it.
Admitted(u, c) ==
    \/ ~SerialMembership
    \/ \A v \in Unit \ {u} : /\ ~Changing(v)
                             /\ ChangesMap(u, c) => pc[v] = "idle"

Call(u, c) == /\ pc[u] = "idle"
              /\ Admitted(u, c)
              /\ u \notin registered /\ (IsUpdate(c) \/ c.op = "unregister")
                    => m_num_online < MaxOnline
              /\ call' = [call EXCEPT ![u] = c]
              /\ Goto(u, IF IsUpdate(c) THEN "lookup" ELSE "lock")
              /\ UNCHANGED <<globals, entries, lockHolders, answer, loaded,
                             scanning>>

-----------------------------------------------------------------------------
(* The fast path, without the lock.                                        *)

\* m_num_online after local_variable(u)
OnlineWith(u) == IF u \in registered THEN m_num_online ELSE m_num_online + 1

\* local_variable(): contains, and operator[] which inserts a zero entry.
LocalVariable(u) == /\ pc[u] = "lookup"
                    /\ m_num_online' = OnlineWith(u)
                    /\ registered' = registered \cup {u}
                    /\ Goto(u, "load")
                    /\ UNCHANGED <<globals, counter_max, counter, lockHolders,
                                   call, answer, loaded, scanning>>

LoadEntry(u) == /\ pc[u] = "load"
                /\ loaded' = [loaded EXCEPT ![u] = [max |-> counter_max[u],
                                                    cnt |-> counter[u]]]
                /\ Goto(u, "fast")
                /\ UNCHANGED <<globals, entries, lockHolders, call, answer,
                               scanning>>

FitsEntry(u) ==
    LET l == loaded[u] IN
    CASE call[u].op = "add" -> Minus(l.max, l.cnt) >= call[u].arg
      [] call[u].op = "sub" -> l.cnt >= call[u].arg

FastCount(u) == IF call[u].op = "add" THEN Plus(loaded[u].cnt, call[u].arg)
                                      ELSE Minus(loaded[u].cnt, call[u].arg)

\* Mutant of FastPath: the return is missing, the call goes on to the lock.
MutantFastPathFallsThrough(u) ==
    /\ pc[u] = "fast"
    /\ FitsEntry(u)
    /\ counter' = [counter EXCEPT ![u] = FastCount(u)]
    /\ loaded' = [loaded EXCEPT ![u] = NoLoad]
    /\ Goto(u, "lock")
    /\ UNCHANGED <<globals, registered, counter_max, m_num_online,
                   lockHolders, call, answer, scanning>>

\* The store goes through a reference into the map; if the entry is gone by
\* now it hits freed memory and the count is lost.
FastPath(u) == /\ pc[u] = "fast"
               /\ FitsEntry(u)
               /\ counter' = IF u \in registered
                             THEN [counter EXCEPT ![u] = FastCount(u)]
                             ELSE counter
               /\ Answer(u, "granted")
               /\ loaded' = [loaded EXCEPT ![u] = NoLoad]
               /\ Goto(u, "return")
               /\ UNCHANGED <<globals, registered, counter_max, m_num_online,
                              lockHolders, call, scanning>>

GoSlow(u) == /\ pc[u] = "fast"
             /\ ~FitsEntry(u)
             /\ loaded' = [loaded EXCEPT ![u] = NoLoad]
             /\ Goto(u, "lock")
             /\ UNCHANGED <<globals, entries, lockHolders, call, answer,
                            scanning>>

Return(u) == /\ pc[u] = "return"
             /\ call' = [call EXCEPT ![u] = NoCall]
             /\ Answer(u, "none")
             /\ Goto(u, "idle")
             /\ UNCHANGED <<globals, entries, lockHolders, loaded, scanning>>

-----------------------------------------------------------------------------
(* The calls' parts under m_lock.  The bodies of add, sub, reset and un-   *)
(* register run as one step each: the lock keeps the other bodies out, and *)
(* the fast paths touch other entries.                                     *)

AcquireLock(u) == /\ pc[u] = "lock"
                  /\ Lock!Acquire(u)
                  /\ Goto(u, "body")
                  /\ UNCHANGED <<globals, entries, call, answer, loaded,
                                 scanning>>

\* Past the body: the lock_guard is about to be destroyed.
Decide(u, a) == /\ Answer(u, a)
                /\ Goto(u, "unlock")
                /\ UNCHANGED <<lockHolders, call, loaded, scanning>>

\* The global counters after globalize_count(u) took u's entry back.
GlobalizedCounter(u) == Plus(m_global_counter, counter[u])
GlobalizedReserve(u) == Minus(m_global_counter_reserve, counter_max[u])

\* Mutant of Globalize: the other units' entries are emptied as well.
MutantGlobalizeAll(u) == /\ m_global_counter' = GlobalizedCounter(u)
                         /\ m_global_counter_reserve' = GlobalizedReserve(u)
                         /\ registered' = registered \cup {u}
                         /\ counter_max' = [v \in Unit |-> 0]
                         /\ counter' = [v \in Unit |-> 0]
                         /\ m_num_online' = OnlineWith(u)
                         /\ UNCHANGED m_global_counter_max

\* globalize_count(u) and nothing more: the entry is left at 0, 0.
Globalize(u) == /\ m_global_counter' = GlobalizedCounter(u)
                /\ m_global_counter_reserve' = GlobalizedReserve(u)
                /\ registered' = registered \cup {u}
                /\ counter_max' = [counter_max EXCEPT ![u] = 0]
                /\ counter' = [counter EXCEPT ![u] = 0]
                /\ m_num_online' = OnlineWith(u)
                /\ UNCHANGED m_global_counter_max

\* cntmax_val of balance_count when the global counter is g
Share(u, g) == Minus(Minus(m_global_counter_max, g), GlobalizedReserve(u))
                  \div OnlineWith(u)

\* The part of g that moves into the entry.
Taken(u, g) == Smaller(Share(u, g) \div 2, g)

\* Mutant of Balance: what moves into the entry stays in the global counter.
MutantBalanceKeeps(u, g) ==
    /\ m_global_counter_reserve' = Plus(GlobalizedReserve(u), Share(u, g))
    /\ m_global_counter' = g
    /\ registered' = registered \cup {u}
    /\ counter_max' = [counter_max EXCEPT ![u] = Share(u, g)]
    /\ counter' = [counter EXCEPT ![u] = Taken(u, g)]
    /\ m_num_online' = OnlineWith(u)
    /\ UNCHANGED m_global_counter_max

\* globalize_count(u), the global counter set to g, then balance_count(u).
Balance(u, g) ==
    /\ m_global_counter_reserve' = Plus(GlobalizedReserve(u), Share(u, g))
    /\ m_global_counter' = Minus(g, Taken(u, g))
    /\ registered' = registered \cup {u}
    /\ counter_max' = [counter_max EXCEPT ![u] = Share(u, g)]
    /\ counter' = [counter EXCEPT ![u] = Taken(u, g)]
    /\ m_num_online' = OnlineWith(u)
    /\ UNCHANGED m_global_counter_max

\* Mutant of FitsGlobal: what is reserved for the others counts as free.
MutantFitsIgnoringReserve(u) ==
    LET g == GlobalizedCounter(u) IN
    CASE call[u].op = "add" -> Minus(m_global_counter_max, g) >= call[u].arg
      [] call[u].op = "sub" -> g >= call[u].arg

FitsGlobal(u) ==
    LET g == GlobalizedCounter(u) IN
    CASE call[u].op = "add" ->
            Minus(Minus(m_global_counter_max, g), GlobalizedReserve(u))
                >= call[u].arg
      [] call[u].op = "sub" -> g >= call[u].arg

SlowCount(u) == IF call[u].op = "add"
                THEN Plus(GlobalizedCounter(u), call[u].arg)
                ELSE Minus(GlobalizedCounter(u), call[u].arg)

AtBody(u, op) == pc[u] = "body" /\ call[u].op = op

SlowGrant(u) == /\ AtBody(u, "add") \/ AtBody(u, "sub")
                /\ FitsGlobal(u)
                /\ Balance(u, SlowCount(u))
                /\ Decide(u, "granted")

SlowRefuse(u) == /\ AtBody(u, "add") \/ AtBody(u, "sub")
                 /\ ~FitsGlobal(u)
                 /\ Globalize(u)
                 /\ Decide(u, "refused")

\* Mutant of Reset: the reserve of the cleared entries is not cleared.
MutantResetKeepsReserve(u) ==
    /\ AtBody(u, "reset")
    /\ m_global_counter_max' = call[u].arg
    /\ m_global_counter' = 0
    /\ registered' = {}
    /\ counter_max' = [v \in Unit |-> 0]
    /\ counter' = [v \in Unit |-> 0]
    /\ UNCHANGED <<m_num_online, m_global_counter_reserve>>
    /\ Decide(u, "done")

\* reset(): m_num_online keeps its value.
Reset(u) == /\ AtBody(u, "reset")
            /\ m_global_counter_max' = call[u].arg
            /\ m_global_counter_reserve' = 0
            /\ m_global_counter' = 0
            /\ registered' = {}
            /\ counter_max' = [v \in Unit |-> 0]
            /\ counter' = [v \in Unit |-> 0]
            /\ UNCHANGED m_num_online
            /\ Decide(u, "done")

\* Mutant of Unregister: the erased entry's reserve is not given back.
MutantUnregisterKeepsReserve(u) ==
    /\ AtBody(u, "unregister")
    /\ m_global_counter' = GlobalizedCounter(u)
    /\ registered' = registered \ {u}
    /\ counter_max' = [counter_max EXCEPT ![u] = 0]
    /\ counter' = [counter EXCEPT ![u] = 0]
    /\ m_num_online' = OnlineWith(u)
    /\ UNCHANGED <<m_global_counter_max, m_global_counter_reserve>>
    /\ Decide(u, "done")

\* Mutant of Unregister: counts a unit off that was never counted on.
MutantUnregisterCountsOff(u) ==
    /\ AtBody(u, "unregister")
    /\ m_global_counter' = GlobalizedCounter(u)
    /\ m_global_counter_reserve' = GlobalizedReserve(u)
    /\ registered' = registered \ {u}
    /\ counter_max' = [counter_max EXCEPT ![u] = 0]
    /\ counter' = [counter EXCEPT ![u] = 0]
    /\ m_num_online' = m_num_online - 1
    /\ UNCHANGED m_global_counter_max
    /\ Decide(u, "done")

\* count_unregister_execution_unit(), the handler's destructor: its
\* local_variable() counts a unit online that never was, the erase counts
\* none off.
Unregister(u) == /\ AtBody(u, "unregister")
                 /\ m_global_counter' = GlobalizedCounter(u)
                 /\ m_global_counter_reserve' = GlobalizedReserve(u)
                 /\ registered' = registered \ {u}
                 /\ counter_max' = [counter_max EXCEPT ![u] = 0]
                 /\ counter' = [counter EXCEPT ![u] = 0]
                 /\ m_num_online' = OnlineWith(u)
                 /\ UNCHANGED m_global_counter_max
                 /\ Decide(u, "done")

\* read_count() adds the entries one at a time while fast paths move them.
StartScan(u) == /\ AtBody(u, "read")
                /\ sum' = m_global_counter
                /\ todo' = registered
                /\ Goto(u, "scan")
                /\ UNCHANGED <<globals, entries, lockHolders, call, answer,
                               loaded>>

\* Mutant of ScanEntry: an entry may be added more than once.
MutantScanTwice(u, v) == /\ pc[u] = "scan"
                         /\ v \in todo
                         /\ sum' = Plus(sum, counter[v])
                         /\ UNCHANGED <<globals, entries, control, todo>>

ScanEntry(u, v) == /\ pc[u] = "scan"
                   /\ v \in todo
                   /\ sum' = Plus(sum, counter[v])
                   /\ todo' = todo \ {v}
                   /\ UNCHANGED <<globals, entries, control>>

EndScan(u) == /\ pc[u] = "scan"
              /\ todo = {}
              /\ Answer(u, "done")
              /\ Goto(u, "unlock")
              /\ sum' = 0
              /\ UNCHANGED <<globals, entries, lockHolders, call, loaded, todo>>

\* The lock_guard's destructor, and the return.
Unlock(u) == /\ pc[u] = "unlock"
             /\ Lock!Release(u)
             /\ call' = [call EXCEPT ![u] = NoCall]
             /\ Answer(u, "none")
             /\ Goto(u, "idle")
             /\ UNCHANGED <<globals, entries, loaded, scanning>>

-----------------------------------------------------------------------------
\* The steps of a call once it is made.
Step(u) == \/ LocalVariable(u)
           \/ LoadEntry(u)
           \/ FastPath(u)
           \/ GoSlow(u)
           \/ Return(u)
           \/ AcquireLock(u)
           \/ SlowGrant(u)
           \/ SlowRefuse(u)
           \/ Reset(u)
           \/ Unregister(u)
           \/ StartScan(u)
           \/ \E v \in Unit : ScanEntry(u, v)
           \/ EndScan(u)
           \/ Unlock(u)

Next == \E u \in Unit : \/ \E c \in Calls : Call(u, c)
                        \/ Step(u)

Spec == Init /\ [][Next]_vars

\* A thread inside a call keeps running.  The spin lock is not fair, so a
\* thread waiting for it is only promised that somebody gets it.
FairSpec == Spec /\ \A u \in Unit : WF_vars(Step(u))

-----------------------------------------------------------------------------
(* The sum of a function from Unit to numbers below W, as the number of    *)
(* points under it.                                                        *)
Total(f) == Cardinality({p \in Unit \X (1 .. W) : p[2] <= f[p[1]]})

\* f on S, and 0 elsewhere
Only(f, S) == [u \in Unit |-> IF u \in S THEN f[u] ELSE 0]

Value == m_global_counter + Total(counter)

TypeOK == /\ m_global_counter_max \in Counter
          /\ m_global_counter_reserve \in Counter
          /\ m_global_counter \in Counter
          /\ registered \subseteq Unit
          /\ counter_max \in [Unit -> Counter]
          /\ counter \in [Unit -> Counter]
          /\ m_num_online \in Nat
          /\ lockHolders \subseteq Unit
          /\ pc \in [Unit -> Places]
          /\ call \in [Unit -> Calls \cup {NoCall}]
          /\ answer \in [Unit -> {"none", "granted", "refused", "done"}]
          /\ loaded \in [Unit -> [max : Counter, cnt : Counter]]
          /\ sum \in Counter
          /\ todo \subseteq Unit

\* What add_count granted and sub_count has not taken back never exceeds the
\* limit, counted over the global counter and everything hidden in entries.
LimitRespected == Value <= m_global_counter_max

\* The reserve is exactly what the entries were given: nothing reserved is
\* forgotten when an entry is globalized, erased or cleared (it would be
\* lost for good), and no entry may spend what was not reserved for it.
ReserveAccounted ==
    /\ m_global_counter_reserve = Total(counter_max)
    /\ \A u \in Unit : counter[u] <= counter_max[u]
    /\ m_global_counter + m_global_counter_reserve <= m_global_counter_max

\* read_count is not a snapshot, but what it has added up lies between the
\* global counter and that plus the reserve of the entries it has visited;
\* so its result never exceeds the limit.
ReadWithinReserve ==
    \A u \in Unit : pc[u] = "scan" =>
        /\ m_global_counter <= sum
        /\ sum <= m_global_counter + Total(Only(counter_max, Unit \ todo))

\* Exactly the lock holders are between their acquisition and their return:
\* every way out of a locked part, refusals included, releases the lock.
LockDiscipline ==
    \A u \in Unit : pc[u] \in {"body", "scan", "unlock"} <=> u \in lockHolders

\* The fast path works without the lock on values it loaded earlier and
\* through a reference into the map: until it stores, the entry is there and
\* still holds what was loaded, whatever the other units and resets do.
LoadedIsCurrent ==
    \A u \in Unit :
        /\ pc[u] \in {"load", "fast"} => u \in registered
        /\ pc[u] = "fast" =>
              loaded[u] = [max |-> counter_max[u], cnt |-> counter[u]]

\* A unit alone in the map is refused only what really does not fit: the
\* reserves given back by units that left must all be available to it.
RefusalExactAlone ==
    [][\A u \in Unit :
          registered \subseteq {u} /\ answer[u] = "none" /\ answer'[u] = "refused"
            => IF call[u].op = "add"
               THEN Value + call[u].arg > m_global_counter_max
               ELSE Value < call[u].arg]_vars

\* No thread is inside the unlocked lookup of local_variable(), or walks the
\* map in read_count(), while another one changes the map.
Reading(u) == pc[u] \in {"lookup", "scan"}
Writing(u) == \/ pc[u] = "lookup" /\ u \notin registered
              \/ pc[u] = "body" /\ ChangesMap(u, call[u])
NoMapRace == \A u, v \in Unit : u # v => ~(Reading(u) /\ Writing(v))

\* reset() makes the counter "back to initial state".
ResetRestoresInit ==
    [][\A u \in Unit : Reset(u) =>
          /\ registered' = {}
          /\ m_global_counter' = 0
          /\ m_num_online' = 0]_vars

\* The counter implements LimitCounter, its value being spread over the
\* global counter and the entries.
Abstract == INSTANCE LimitCounter WITH limit <- m_global_counter_max,
                                       value <- Value
ImplementsLimitCounter == Abstract!Spec

\* Whoever waits for m_lock, some call gets to its end under the lock: no
\* path leaves it locked.
LockProgress == (\E u \in Unit : pc[u] = "lock")
                   ~> (\E u \in Unit : pc[u] = "unlock")

\* An update that fits in the unit's entry returns without ever needing the
\* lock, whoever holds it.
FastPathReturns ==
    \A u \in Unit :
        pc[u] = "fast" /\ FitsEntry(u) ~> pc[u] = "idle"

\* Calls get to their end: somebody always through the lock, and an update that
\* fits in its entry without it.
CallsProgress == LockProgress /\ FastPathReturns
=============================================================================
