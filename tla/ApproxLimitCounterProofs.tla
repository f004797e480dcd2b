---------------------- MODULE ApproxLimitCounterProofs ----------------------
(* Proofs about ApproxLimitCounter, for every finite set of units, every    *)
(* width and every limit, under the discipline SerialMembership names.      *)
EXTENDS SpecificHandler, FiniteSetTheorems, TLAPS

-----------------------------------------------------------------------------
(* Sums of functions: Total counts the points under f.                      *)

Points(f) == {p \in Unit \X (1 .. W) : p[2] <= f[p[1]]}
Column(u, n) == {p \in Unit \X (1 .. W) : p[1] = u /\ p[2] <= n}

LEMMA GridFinite ==
    ASSUME NEW S \in SUBSET (Unit \X (1 .. W))
    PROVE  IsFiniteSet(S) /\ Cardinality(S) \in Nat
<1>1. IsFiniteSet(1 .. W)
  BY FS_Interval, CounterAssumption
<1>2. IsFiniteSet(Unit \X (1 .. W))
  BY <1>1, FS_Product, CounterAssumption
<1> QED BY <1>2, FS_Subset, FS_CardinalityType

LEMMA TotalType ==
    ASSUME NEW f
    PROVE  Total(f) \in Nat
BY GridFinite DEF Total

LEMMA ColumnSize ==
    ASSUME NEW u \in Unit, NEW n \in Counter
    PROVE  Cardinality(Column(u, n)) = n
<1>1. Column(u, n) = {u} \X (1 .. n)
  BY CounterAssumption DEF Column, Counter
<1>2. IsFiniteSet({u}) /\ Cardinality({u}) = 1
  BY FS_Singleton
<1>3. IsFiniteSet(1 .. n) /\ Cardinality(1 .. n) = n
  BY FS_Interval, CounterAssumption DEF Counter
<1>4. Cardinality({u} \X (1 .. n)) = 1 * n
  BY <1>2, <1>3, FS_Product
<1> QED BY <1>1, <1>4, CounterAssumption DEF Counter

\* A sum is one column and the rest.
LEMMA TotalSplit ==
    ASSUME NEW f \in [Unit -> Counter], NEW u \in Unit
    PROVE  Total(f) = Total([f EXCEPT ![u] = 0]) + f[u]
<1> DEFINE g == [f EXCEPT ![u] = 0]
<1>1. Points(f) = Points(g) \cup Column(u, f[u])
  BY CounterAssumption DEF Points, Column, Counter
<1>2. Points(g) \cap Column(u, f[u]) = {}
  BY CounterAssumption DEF Points, Column, Counter
<1>3. /\ IsFiniteSet(Points(g)) /\ Cardinality(Points(g)) \in Nat
      /\ IsFiniteSet(Column(u, f[u])) /\ Cardinality(Column(u, f[u])) \in Nat
  BY GridFinite DEF Points, Column
<1>4. f[u] \in Counter /\ Cardinality(Column(u, f[u])) = f[u]
  BY ColumnSize
<1>5. Cardinality(Points(f))
         = Cardinality(Points(g)) + Cardinality(Column(u, f[u]))
             - Cardinality(Points(g) \cap Column(u, f[u]))
  BY <1>1, <1>3, FS_Union
<1>6. Cardinality(Points(g) \cap Column(u, f[u])) = 0
  BY <1>2, FS_EmptySet
<1>7. Total(f) = Cardinality(Points(f)) /\ Total(g) = Cardinality(Points(g))
  BY DEF Total, Points
<1> QED BY <1>3, <1>4, <1>5, <1>6, <1>7

LEMMA TotalUpdate ==
    ASSUME NEW f \in [Unit -> Counter], NEW u \in Unit, NEW n \in Counter
    PROVE  Total([f EXCEPT ![u] = n]) = Total(f) - f[u] + n
<1> DEFINE g == [f EXCEPT ![u] = n]
<1>1. g \in [Unit -> Counter] /\ g[u] = n
  OBVIOUS
<1>2. [g EXCEPT ![u] = 0] = [f EXCEPT ![u] = 0]
  OBVIOUS
<1>3. Total(g) = Total([f EXCEPT ![u] = 0]) + n
  BY <1>1, <1>2, TotalSplit
<1>4. Total(f) = Total([f EXCEPT ![u] = 0]) + f[u]
  BY TotalSplit
<1>5. f[u] \in Nat /\ n \in Nat
  BY CounterAssumption DEF Counter
<1> HIDE DEF g
<1>6. Total([f EXCEPT ![u] = 0]) \in Nat /\ Total(f) \in Nat
  BY TotalType
<1>7. Total(g) = Total(f) - f[u] + n
  BY <1>3, <1>4, <1>5, <1>6
<1> QED BY <1>7 DEF g

LEMMA TotalBoundsPart ==
    ASSUME NEW f \in [Unit -> Counter], NEW u \in Unit
    PROVE  f[u] <= Total(f)
<1>1. Total([f EXCEPT ![u] = 0]) \in Nat
  BY TotalType
<1>2. f[u] \in Nat
  BY CounterAssumption DEF Counter
<1>3. Total(f) = Total([f EXCEPT ![u] = 0]) + f[u]
  BY TotalSplit
<1> QED BY <1>1, <1>2, <1>3

LEMMA TotalMonotone ==
    ASSUME NEW f \in [Unit -> Counter], NEW g \in [Unit -> Counter],
           \A u \in Unit : f[u] <= g[u]
    PROVE  Total(f) <= Total(g)
<1>1. Points(f) \subseteq Points(g)
  BY CounterAssumption DEF Points, Counter
<1>2. IsFiniteSet(Points(g))
  BY GridFinite DEF Points
<1> QED BY <1>1, <1>2, FS_Subset DEF Total, Points

LEMMA TotalZero ==
    Total([u \in Unit |-> 0]) = 0
<1>1. Points([u \in Unit |-> 0]) = {}
  BY CounterAssumption DEF Points
<1> QED BY <1>1, FS_EmptySet DEF Total, Points

LEMMA DivideBounds ==
    ASSUME NEW a \in Nat, NEW n \in Nat, n >= 1
    PROVE  a \div n \in Nat /\ a \div n <= a
OBVIOUS

-----------------------------------------------------------------------------
(* The inductive invariant.                                                 *)

\* A unit without an entry holds no share, and the divisor of a share is
\* never zero.
EntriesInv ==
    /\ \A u \in Unit \ registered : counter_max[u] = 0 /\ counter[u] = 0
    /\ registered # {} => m_num_online >= 1

\* Where a unit is, which call it is in and what it has been told agree.
ControlInv ==
    \A u \in Unit :
        /\ pc[u] = "idle" <=> call[u] = NoCall
        /\ pc[u] \in {"lookup", "load", "fast"} => IsUpdate(call[u])
        /\ pc[u] = "scan" => call[u].op = "read"
        /\ answer[u] = "none" <=> pc[u] \notin {"unlock", "return"}

OneHolder == \A u, v \in lockHolders : u = v

\* A unit inside a call that changes the map is alone.
AloneInv == \A u, v \in Unit : u # v /\ Changing(u) => pc[v] = "idle"

IInv == /\ TypeOK
        /\ ReserveAccounted
        /\ EntriesInv
        /\ ControlInv
        /\ LockDiscipline
        /\ OneHolder
        /\ AloneInv
        /\ LoadedIsCurrent
        /\ ReadWithinReserve

-----------------------------------------------------------------------------
(* What the parts of a slow body compute: under the invariant nothing wraps. *)

LEMMA GlobalizeFacts ==
    ASSUME TypeOK, ReserveAccounted, NEW u \in Unit
    PROVE  /\ GlobalizedCounter(u) = m_global_counter + counter[u]
           /\ GlobalizedReserve(u) = m_global_counter_reserve - counter_max[u]
           /\ GlobalizedCounter(u) \in Nat
           /\ GlobalizedReserve(u) \in Nat
           /\ GlobalizedCounter(u) + GlobalizedReserve(u) <= m_global_counter_max
           /\ GlobalizedReserve(u) = Total([counter_max EXCEPT ![u] = 0])
<1>1. /\ m_global_counter \in Nat /\ m_global_counter_reserve \in Nat
      /\ counter[u] \in Nat /\ counter_max[u] \in Nat
      /\ W \in Nat /\ m_global_counter_max \in Nat
      /\ m_global_counter_max < W
  BY CounterAssumption DEF TypeOK, Counter
<1>2. counter_max \in [Unit -> Counter]
  BY DEF TypeOK
<1>3. counter[u] <= counter_max[u]
  BY DEF ReserveAccounted
<1>4. counter_max[u] <= m_global_counter_reserve
  BY <1>2, TotalBoundsPart DEF ReserveAccounted
<1>5. m_global_counter + m_global_counter_reserve <= m_global_counter_max
  BY DEF ReserveAccounted
<1>6. Total(counter_max) = Total([counter_max EXCEPT ![u] = 0]) + counter_max[u]
  BY <1>2, TotalSplit
<1>7. Total([counter_max EXCEPT ![u] = 0]) \in Nat
  BY TotalType
<1>8. GlobalizedCounter(u) = m_global_counter + counter[u]
  BY <1>1, <1>3, <1>4, <1>5 DEF GlobalizedCounter, Plus
<1>9. GlobalizedReserve(u) = m_global_counter_reserve - counter_max[u]
  BY <1>1, <1>4 DEF GlobalizedReserve, Minus
<1>10. m_global_counter_reserve = Total(counter_max)
  BY DEF ReserveAccounted
<1> QED BY <1>1, <1>3, <1>4, <1>5, <1>6, <1>7, <1>8, <1>9, <1>10

LEMMA ShareFacts ==
    ASSUME TypeOK, ReserveAccounted, EntriesInv, NEW u \in Unit,
           NEW g \in Nat, g + GlobalizedReserve(u) <= m_global_counter_max
    PROVE  /\ Share(u, g) \in Nat
           /\ Taken(u, g) \in Nat
           /\ g + GlobalizedReserve(u) + Share(u, g) <= m_global_counter_max
           /\ Taken(u, g) <= Share(u, g)
           /\ Taken(u, g) <= g
<1> DEFINE r == GlobalizedReserve(u)
<1>1. r \in Nat /\ m_global_counter_max \in Nat
  <2>1. r \in Nat
    BY GlobalizeFacts
  <2>2. m_global_counter_max \in Nat
    BY CounterAssumption DEF TypeOK, Counter
  <2> QED BY <2>1, <2>2
<1>2. OnlineWith(u) \in Nat /\ OnlineWith(u) >= 1
  BY DEF OnlineWith, TypeOK, EntriesInv
<1>3. Minus(Minus(m_global_counter_max, g), r) = m_global_counter_max - g - r
  BY <1>1 DEF Minus
<1>4. m_global_counter_max - g - r \in Nat
  BY <1>1
<1> HIDE DEF r
<1>5. Share(u, g) = (m_global_counter_max - g - r) \div OnlineWith(u)
  BY <1>3 DEF Share, r
<1>6. Share(u, g) \in Nat /\ Share(u, g) <= m_global_counter_max - g - r
  BY <1>2, <1>4, <1>5, DivideBounds
<1>7. Share(u, g) \div 2 \in Nat /\ Share(u, g) \div 2 <= Share(u, g)
  BY <1>6, DivideBounds
<1>8. Taken(u, g) \in Nat /\ Taken(u, g) <= Share(u, g) /\ Taken(u, g) <= g
  BY <1>6, <1>7 DEF Taken, Smaller
<1>9. g + r + Share(u, g) <= m_global_counter_max
  BY <1>1, <1>6
<1> QED BY <1>6, <1>8, <1>9 DEF r

-----------------------------------------------------------------------------
(* The data: the global counters and the entries.                           *)

DataType == /\ m_global_counter_max \in Counter
            /\ m_global_counter_reserve \in Counter
            /\ m_global_counter \in Counter
            /\ registered \subseteq Unit
            /\ counter_max \in [Unit -> Counter]
            /\ counter \in [Unit -> Counter]
            /\ m_num_online \in Nat

DataInv == DataType /\ ReserveAccounted /\ EntriesInv

LEMMA BelowMaxIsCounter ==
    ASSUME m_global_counter_max \in Counter,
           NEW a \in Nat, a <= m_global_counter_max
    PROVE  a \in Counter
BY CounterAssumption DEF Counter

LEMMA GlobalizeKeepsData ==
    ASSUME TypeOK, DataInv, NEW u \in Unit,
           m_global_counter_max' = m_global_counter_max,
           m_global_counter' = GlobalizedCounter(u),
           m_global_counter_reserve' = GlobalizedReserve(u),
           registered' \in {registered \cup {u}, registered \ {u}},
           counter_max' = [counter_max EXCEPT ![u] = 0],
           counter' = [counter EXCEPT ![u] = 0],
           m_num_online' = OnlineWith(u)
    PROVE  DataInv'
<1>1. /\ GlobalizedCounter(u) \in Nat /\ GlobalizedReserve(u) \in Nat
      /\ GlobalizedCounter(u) + GlobalizedReserve(u) <= m_global_counter_max
      /\ GlobalizedReserve(u) = Total([counter_max EXCEPT ![u] = 0])
  BY GlobalizeFacts DEF DataInv
<1>2. m_global_counter_max \in Counter /\ m_global_counter_max \in Nat
  BY CounterAssumption DEF TypeOK, Counter
<1>3. GlobalizedCounter(u) \in Counter /\ GlobalizedReserve(u) \in Counter
  BY <1>1, <1>2, BelowMaxIsCounter
<1>4. 0 \in Counter
  BY CounterAssumption DEF Counter
<1>5. OnlineWith(u) \in Nat /\ OnlineWith(u) >= 1
  BY DEF OnlineWith, DataInv, DataType, EntriesInv
<1>6. DataType'
  BY <1>2, <1>3, <1>4, <1>5 DEF DataInv, DataType
<1>7. ReserveAccounted'
  <2>1. (m_global_counter_reserve = Total(counter_max))'
    BY <1>1 DEF Total
  <2>2. ASSUME NEW v \in Unit
        PROVE  counter'[v] <= counter_max'[v]
    BY DEF DataInv, DataType, ReserveAccounted
  <2>3. (m_global_counter + m_global_counter_reserve <= m_global_counter_max)'
    BY <1>1
  <2> QED BY <2>1, <2>2, <2>3 DEF ReserveAccounted
<1>8. EntriesInv'
  BY <1>5 DEF EntriesInv, DataInv, DataType
<1> QED BY <1>6, <1>7, <1>8 DEF DataInv

LEMMA BalanceKeepsData ==
    ASSUME TypeOK, DataInv, NEW u \in Unit, NEW g \in Nat,
           g + GlobalizedReserve(u) <= m_global_counter_max,
           Balance(u, g)
    PROVE  DataInv'
<1> DEFINE r == GlobalizedReserve(u)
           s == Share(u, g)
           t == Taken(u, g)
<1>1. r \in Nat /\ r = Total([counter_max EXCEPT ![u] = 0])
  BY GlobalizeFacts DEF DataInv
<1>2. /\ s \in Nat /\ t \in Nat /\ t <= s /\ t <= g
      /\ g + r + s <= m_global_counter_max
  BY ShareFacts DEF DataInv
<1>3. m_global_counter_max \in Counter /\ m_global_counter_max \in Nat
      /\ W \in Nat /\ m_global_counter_max < W
  BY CounterAssumption DEF TypeOK, Counter
<1>4. counter_max' = [counter_max EXCEPT ![u] = s]
      /\ counter' = [counter EXCEPT ![u] = t]
      /\ registered' = registered \cup {u}
      /\ m_num_online' = OnlineWith(u)
      /\ m_global_counter_max' = m_global_counter_max
      /\ m_global_counter_reserve' = Plus(r, s)
      /\ m_global_counter' = Minus(g, t)
  BY DEF Balance
<1> HIDE DEF r, s, t
<1>5. Plus(r, s) = r + s /\ Minus(g, t) = g - t
  BY <1>1, <1>2, <1>3 DEF Plus, Minus
<1>6. r + s \in Counter /\ g - t \in Counter /\ s \in Counter /\ t \in Counter
  BY <1>1, <1>2, <1>3 DEF Counter
<1>7. OnlineWith(u) \in Nat /\ OnlineWith(u) >= 1
  BY DEF OnlineWith, DataInv, DataType, EntriesInv
<1>8. DataType'
  BY <1>3, <1>4, <1>5, <1>6, <1>7 DEF DataInv, DataType
<1>9. ReserveAccounted'
  <2>1. Total(counter_max') = r + s
    <3>1. counter_max \in [Unit -> Counter]
      BY DEF TypeOK
    <3>2. Total(counter_max') = Total(counter_max) - counter_max[u] + s
      BY <1>4, <1>6, <3>1, TotalUpdate
    <3>3. Total(counter_max) = r + counter_max[u]
      BY <1>1, <3>1, TotalSplit
    <3>4. counter_max[u] \in Nat
      BY <3>1, CounterAssumption DEF Counter
    <3> QED BY <1>1, <1>2, <3>2, <3>3, <3>4
  <2>2. (m_global_counter_reserve = Total(counter_max))'
    BY <1>4, <1>5, <2>1 DEF Total
  <2>3. ASSUME NEW v \in Unit
        PROVE  counter'[v] <= counter_max'[v]
    BY <1>2, <1>4 DEF DataInv, DataType, ReserveAccounted
  <2>4. (m_global_counter + m_global_counter_reserve <= m_global_counter_max)'
    BY <1>1, <1>2, <1>3, <1>4, <1>5
  <2> QED BY <2>2, <2>3, <2>4 DEF ReserveAccounted
<1>10. EntriesInv'
  BY <1>4, <1>7 DEF EntriesInv, DataInv, DataType
<1> QED BY <1>8, <1>9, <1>10 DEF DataInv

-----------------------------------------------------------------------------
(* The five parts of the invariant are kept by every step.                  *)

LEMMA ArgumentType ==
    ASSUME TypeOK, ControlInv, NEW u \in Unit, pc[u] # "idle"
    PROVE  call[u] \in Calls /\ call[u].arg \in Nat /\ call[u].arg \in Counter
<1>1. call[u] \in Calls
  BY DEF TypeOK, ControlInv
<1>2. 0 \in Counter
  BY CounterAssumption DEF Counter
<1>3. Deltas \subseteq Counter /\ Limits \subseteq Counter
  BY CounterAssumption
<1>4. \A c \in Calls : c.arg \in Deltas \cup Limits \cup {0}
  BY DEF Calls
<1>5. call[u].arg \in Counter
  BY <1>1, <1>2, <1>3, <1>4
<1> QED BY <1>1, <1>5, CounterAssumption DEF Counter

\* A granted slow call moves the global counter within what is free.
LEMMA SlowCountFits ==
    ASSUME IInv, NEW u \in Unit, SlowGrant(u)
    PROVE  /\ SlowCount(u) \in Nat
           /\ SlowCount(u) + GlobalizedReserve(u) <= m_global_counter_max
           /\ call[u].op = "add"
                => SlowCount(u) = GlobalizedCounter(u) + call[u].arg
           /\ call[u].op = "sub"
                => SlowCount(u) = GlobalizedCounter(u) - call[u].arg
           /\ call[u].op \in {"add", "sub"}
<1> DEFINE g == GlobalizedCounter(u)
           r == GlobalizedReserve(u)
           d == call[u].arg
<1>1. g \in Nat /\ r \in Nat /\ g + r <= m_global_counter_max
  BY GlobalizeFacts DEF IInv
<1>2. m_global_counter_max \in Nat /\ W \in Nat /\ m_global_counter_max < W
  BY CounterAssumption DEF IInv, TypeOK, Counter
<1>3. d \in Nat
  BY ArgumentType DEF IInv, SlowGrant, AtBody
<1>4. call[u].op = "add" \/ call[u].op = "sub"
  BY DEF SlowGrant, AtBody
<1>5. CASE call[u].op = "add"
  <2>1. Minus(Minus(m_global_counter_max, g), r) >= d
    BY <1>5 DEF SlowGrant, FitsGlobal
  <2>2. SlowCount(u) = Plus(g, d)
    BY <1>5 DEF SlowCount
  <2> HIDE DEF g, r, d
  <2>3. m_global_counter_max - g - r >= d
    BY <1>1, <1>2, <2>1 DEF Minus
  <2>4. Plus(g, d) = g + d
    BY <1>1, <1>2, <1>3, <2>3 DEF Plus
  <2>5. SlowCount(u) \in Nat /\ SlowCount(u) + r <= m_global_counter_max
    BY <1>1, <1>2, <1>3, <2>2, <2>3, <2>4
  <2> QED BY <1>5, <2>2, <2>4, <2>5 DEF g, r, d
<1>6. CASE call[u].op = "sub"
  <2>1. g >= d
    BY <1>6 DEF SlowGrant, FitsGlobal
  <2>2. SlowCount(u) = Minus(g, d)
    BY <1>6 DEF SlowCount
  <2> HIDE DEF g, r, d
  <2>3. Minus(g, d) = g - d
    BY <2>1 DEF Minus
  <2>4. SlowCount(u) \in Nat /\ SlowCount(u) + r <= m_global_counter_max
    BY <1>1, <1>2, <1>3, <2>1, <2>2, <2>3
  <2> QED BY <1>6, <2>2, <2>3, <2>4 DEF g, r, d
<1> QED BY <1>4, <1>5, <1>6

\* What the fast path stores stays between 0 and the entry's maximum.
LEMMA FastCountFits ==
    ASSUME IInv, NEW u \in Unit, FastPath(u)
    PROVE  /\ u \in registered
           /\ FastCount(u) \in Counter
           /\ FastCount(u) <= counter_max[u]
           /\ call[u].op = "add" => FastCount(u) = counter[u] + call[u].arg
           /\ call[u].op = "sub" => FastCount(u) = counter[u] - call[u].arg
           /\ call[u].op \in {"add", "sub"}
<1> DEFINE m == counter_max[u]
           n == counter[u]
           d == call[u].arg
<1>1. u \in registered /\ loaded[u].max = m /\ loaded[u].cnt = n
  <2>1. u \in registered /\ loaded[u] = [max |-> m, cnt |-> n]
    BY DEF IInv, LoadedIsCurrent, FastPath
  <2> HIDE DEF m, n
  <2> QED BY <2>1
<1>2. m \in Nat /\ n \in Nat /\ W \in Nat /\ m < W /\ n <= m
  BY CounterAssumption DEF IInv, TypeOK, Counter, ReserveAccounted
<1>3. d \in Nat
  BY ArgumentType DEF IInv, FastPath
<1>4. call[u].op \in {"add", "sub"}
  BY DEF IInv, ControlInv, FastPath, IsUpdate
<1>5. CASE call[u].op = "add"
  <2>1. Minus(m, n) >= d
    BY <1>1, <1>5 DEF FastPath, FitsEntry
  <2>2. FastCount(u) = Plus(n, d)
    BY <1>1, <1>5 DEF FastCount
  <2> HIDE DEF m, n, d
  <2>3. m - n >= d
    BY <1>2, <2>1 DEF Minus
  <2>4. Plus(n, d) = n + d
    BY <1>2, <1>3, <2>3 DEF Plus
  <2>5. FastCount(u) \in Counter /\ FastCount(u) <= m
    BY <1>2, <1>3, <2>2, <2>3, <2>4 DEF Counter
  <2> QED BY <1>1, <1>5, <2>2, <2>4, <2>5 DEF m, n, d
<1>6. CASE call[u].op = "sub"
  <2>1. n >= d
    BY <1>1, <1>6 DEF FastPath, FitsEntry
  <2>2. FastCount(u) = Minus(n, d)
    BY <1>1, <1>6 DEF FastCount
  <2> HIDE DEF m, n, d
  <2>3. Minus(n, d) = n - d
    BY <2>1 DEF Minus
  <2>4. FastCount(u) \in Counter /\ FastCount(u) <= m
    BY <1>2, <1>3, <2>1, <2>2, <2>3 DEF Counter
  <2> QED BY <1>1, <1>6, <2>2, <2>3, <2>4 DEF m, n, d
<1> QED BY <1>4, <1>5, <1>6

LEMMA DataFromIInv ==
    ASSUME IInv
    PROVE  DataInv
BY DEF IInv, TypeOK, DataInv, DataType

LEMMA KeepsData ==
    ASSUME IInv, [Next]_vars
    PROVE  DataInv'
<1>1. DataInv
  BY DataFromIInv
<1>2. ASSUME UNCHANGED <<globals, entries>>
      PROVE  DataInv'
  BY <1>1, <1>2
  DEF globals, entries, DataInv, DataType, ReserveAccounted, EntriesInv, Total
<1>3. ASSUME NEW u \in Unit, LocalVariable(u)
      PROVE  DataInv'
  <2>1. OnlineWith(u) \in Nat /\ OnlineWith(u) >= 1
    BY <1>1 DEF OnlineWith, DataInv, DataType, EntriesInv
  <2> QED
    BY <1>1, <1>3, <2>1
    DEF LocalVariable, globals, DataInv, DataType, ReserveAccounted,
        EntriesInv, Total
<1>4. ASSUME NEW u \in Unit, FastPath(u)
      PROVE  DataInv'
  <2>1. u \in registered /\ FastCount(u) \in Counter
        /\ FastCount(u) <= counter_max[u]
    BY <1>4, FastCountFits
  <2>2. /\ counter' = [counter EXCEPT ![u] = FastCount(u)]
        /\ UNCHANGED <<globals, registered, counter_max, m_num_online>>
    BY <1>4, <2>1 DEF FastPath
  <2> QED
    BY <1>1, <2>1, <2>2
    DEF globals, DataInv, DataType, ReserveAccounted, EntriesInv, Total
<1>5. ASSUME NEW u \in Unit, SlowGrant(u)
      PROVE  DataInv'
  <2>1. /\ SlowCount(u) \in Nat
        /\ SlowCount(u) + GlobalizedReserve(u) <= m_global_counter_max
    BY <1>5, SlowCountFits
  <2>2. Balance(u, SlowCount(u))
    BY <1>5 DEF SlowGrant
  <2> QED BY <1>1, <2>1, <2>2, BalanceKeepsData DEF IInv
<1>6. ASSUME NEW u \in Unit, SlowRefuse(u) \/ Unregister(u)
      PROVE  DataInv'
  BY <1>1, <1>6, GlobalizeKeepsData DEF SlowRefuse, Unregister, Globalize, IInv
<1>7. ASSUME NEW u \in Unit, Reset(u)
      PROVE  DataInv'
  <2>1. call[u].arg \in Counter
    BY <1>7, ArgumentType DEF IInv, Reset, AtBody
  <2>2. /\ m_global_counter_max' = call[u].arg
        /\ m_global_counter_reserve' = 0 /\ m_global_counter' = 0
        /\ registered' = {}
        /\ counter_max' = [v \in Unit |-> 0]
        /\ counter' = [v \in Unit |-> 0]
        /\ m_num_online' = m_num_online
    BY <1>7 DEF Reset
  <2>3. 0 \in Counter /\ call[u].arg \in Nat
    BY <2>1, CounterAssumption DEF Counter
  <2>4. DataType'
    BY <1>1, <2>1, <2>2, <2>3 DEF DataType, DataInv
  <2>5. Total(counter_max') = 0
    BY <2>2, TotalZero
  <2>6. ReserveAccounted'
    BY <2>2, <2>3, <2>5 DEF ReserveAccounted, Total
  <2>7. EntriesInv'
    BY <2>2 DEF EntriesInv
  <2> QED BY <2>4, <2>6, <2>7 DEF DataInv
<1>8. ASSUME NEW u \in Unit, Step(u)
      PROVE  DataInv'
  BY <1>2, <1>3, <1>4, <1>5, <1>6, <1>7, <1>8
  DEF Step, LoadEntry, GoSlow, Return, AcquireLock, StartScan, ScanEntry,
      EndScan, Unlock
<1>9. ASSUME NEW u \in Unit, NEW c \in Calls, Call(u, c)
      PROVE  DataInv'
  BY <1>2, <1>9 DEF Call
<1> QED BY <1>2, <1>8, <1>9 DEF Next, vars

\* Adding one more entry to the sum stays within what the entries visited so
\* far were given.
LEMMA ScanFacts ==
    ASSUME IInv, NEW u \in Unit, NEW v \in Unit, ScanEntry(u, v)
    PROVE  /\ sum' \in Counter
           /\ m_global_counter <= sum'
           /\ sum' <= m_global_counter
                        + Total(Only(counter_max, Unit \ (todo \ {v})))
<1> DEFINE before == Only(counter_max, Unit \ todo)
           after == Only(counter_max, Unit \ (todo \ {v}))
<1>1. /\ pc[u] = "scan" /\ v \in todo /\ sum' = Plus(sum, counter[v])
  BY DEF ScanEntry
<1>2. m_global_counter <= sum /\ sum <= m_global_counter + Total(before)
  BY <1>1 DEF IInv, ReadWithinReserve
<1>3. /\ counter_max \in [Unit -> Counter]
      /\ counter[v] \in Nat /\ counter_max[v] \in Nat /\ counter_max[v] \in Counter
      /\ sum \in Nat /\ m_global_counter \in Nat
      /\ m_global_counter_max \in Nat /\ m_global_counter_reserve \in Nat
      /\ W \in Nat /\ m_global_counter_max < W
  BY CounterAssumption DEF IInv, TypeOK, Counter
<1>4. 0 \in Counter
  BY CounterAssumption DEF Counter
<1>5. before \in [Unit -> Counter] /\ after \in [Unit -> Counter]
  BY <1>3, <1>4 DEF Only
<1>6. before[v] = 0 /\ after = [before EXCEPT ![v] = counter_max[v]]
  BY <1>1 DEF Only
<1>7. Total(after) = Total(before) - before[v] + counter_max[v]
  <2> HIDE DEF before, after
  <2>1. Total([before EXCEPT ![v] = counter_max[v]])
           = Total(before) - before[v] + counter_max[v]
    BY <1>3, <1>5, TotalUpdate
  <2> QED BY <1>6, <2>1
<1>8. Total(after) <= Total(counter_max)
  <2>1. \A w \in Unit : after[w] <= counter_max[w]
    BY <1>3, CounterAssumption DEF Only, Counter
  <2> HIDE DEF after
  <2> QED BY <1>3, <1>5, <2>1, TotalMonotone
<1>9. /\ counter[v] <= counter_max[v]
      /\ m_global_counter_reserve = Total(counter_max)
      /\ m_global_counter + m_global_counter_reserve <= m_global_counter_max
  BY DEF IInv, ReserveAccounted
<1>10. Total(before) \in Nat /\ Total(after) \in Nat
  BY TotalType
<1> HIDE DEF before, after
<1>11. Total(after) = Total(before) + counter_max[v]
  BY <1>6, <1>7, <1>10, <1>3
<1>12. sum + counter[v] <= m_global_counter + Total(after)
  BY <1>2, <1>3, <1>9, <1>10, <1>11
<1>13. sum + counter[v] < W
  BY <1>3, <1>8, <1>9, <1>10, <1>12
<1>14. sum' = sum + counter[v]
  BY <1>1, <1>3, <1>13 DEF Plus
<1>15. sum' \in Counter /\ m_global_counter <= sum'
  BY <1>2, <1>3, <1>13, <1>14 DEF Counter
<1> QED BY <1>12, <1>14, <1>15 DEF after

ControlType ==
    /\ lockHolders \subseteq Unit
    /\ pc \in [Unit -> Places]
    /\ call \in [Unit -> Calls \cup {NoCall}]
    /\ answer \in [Unit -> {"none", "granted", "refused", "done"}]
    /\ loaded \in [Unit -> [max : Counter, cnt : Counter]]
    /\ sum \in Counter
    /\ todo \subseteq Unit

Control == ControlType /\ ControlInv /\ LockDiscipline /\ OneHolder

LEMMA NoCallIsNoCall == NoCall \notin Calls
BY DEF NoCall, Calls

LEMMA CounterValues ==
    ASSUME TypeOK, NEW u \in Unit
    PROVE  /\ 0 \in Counter
           /\ NoLoad \in [max : Counter, cnt : Counter]
           /\ [max |-> counter_max[u], cnt |-> counter[u]]
                 \in [max : Counter, cnt : Counter]
<1>1. 0 \in Counter
  BY CounterAssumption DEF Counter
<1> QED BY <1>1 DEF NoLoad, TypeOK

LEMMA KeepsControl ==
    ASSUME IInv, [Next]_vars
    PROVE  Control'
<1>0. /\ TypeOK /\ ControlInv /\ LockDiscipline /\ OneHolder
      /\ lockHolders \subseteq Unit
      /\ pc \in [Unit -> Places]
      /\ call \in [Unit -> Calls \cup {NoCall}]
      /\ answer \in [Unit -> {"none", "granted", "refused", "done"}]
      /\ loaded \in [Unit -> [max : Counter, cnt : Counter]]
      /\ sum \in Counter
      /\ todo \subseteq Unit
      /\ NoCall \notin Calls
  BY NoCallIsNoCall DEF IInv, TypeOK
<1> USE <1>0 DEF Control, ControlType, ControlInv, LockDiscipline, OneHolder,
                 Places, Goto, Answer
<1>1. ASSUME NEW u \in Unit, NEW c \in Calls, Call(u, c)
      PROVE  Control'
  BY <1>1 DEF Call, scanning
<1>2. ASSUME NEW u \in Unit, LocalVariable(u)
      PROVE  Control'
  BY <1>2 DEF LocalVariable, scanning
<1>3. ASSUME NEW u \in Unit, LoadEntry(u)
      PROVE  Control'
  <2>1. [max |-> counter_max[u], cnt |-> counter[u]]
           \in [max : Counter, cnt : Counter]
    BY CounterValues
  <2> QED BY <1>3, <2>1 DEF LoadEntry, scanning
<1>4. ASSUME NEW u \in Unit, FastPath(u)
      PROVE  Control'
  <2>1. NoLoad \in [max : Counter, cnt : Counter]
    BY CounterValues
  <2> QED BY <1>4, <2>1 DEF FastPath, scanning
<1>5. ASSUME NEW u \in Unit, GoSlow(u)
      PROVE  Control'
  <2>1. NoLoad \in [max : Counter, cnt : Counter]
    BY CounterValues
  <2> QED BY <1>5, <2>1 DEF GoSlow, scanning
<1>6. ASSUME NEW u \in Unit, Return(u)
      PROVE  Control'
  BY <1>6 DEF Return, scanning
<1>7. ASSUME NEW u \in Unit, AcquireLock(u)
      PROVE  Control'
  BY <1>7 DEF AcquireLock, scanning, Lock!Acquire
<1>8. ASSUME NEW u \in Unit, NEW a \in {"granted", "refused", "done"},
             pc[u] = "body", Decide(u, a)
      PROVE  Control'
  BY <1>8 DEF Decide, scanning
<1>9. ASSUME NEW u \in Unit,
             SlowGrant(u) \/ SlowRefuse(u) \/ Reset(u) \/ Unregister(u)
      PROVE  Control'
  BY <1>8, <1>9 DEF SlowGrant, SlowRefuse, Reset, Unregister, AtBody
<1>10. ASSUME NEW u \in Unit, StartScan(u)
       PROVE  Control'
  <2>1. m_global_counter \in Counter /\ registered \subseteq Unit
    BY DEF TypeOK
  <2> QED BY <1>10, <2>1 DEF StartScan, AtBody
<1>11. ASSUME NEW u \in Unit, NEW v \in Unit, ScanEntry(u, v)
       PROVE  Control'
  <2>1. sum' \in Counter
    BY <1>11, ScanFacts
  <2> QED BY <1>11, <2>1 DEF ScanEntry, control
<1>12. ASSUME NEW u \in Unit, EndScan(u)
       PROVE  Control'
  <2>1. 0 \in Counter
    BY CounterValues
  <2> QED BY <1>12, <2>1 DEF EndScan
<1>13. ASSUME NEW u \in Unit, Unlock(u)
       PROVE  Control'
  BY <1>13 DEF Unlock, scanning, Lock!Release
<1>14. ASSUME UNCHANGED vars
       PROVE  Control'
  BY <1>14 DEF vars, control, scanning
<1>15. ASSUME NEW u \in Unit, Step(u)
       PROVE  Control'
  BY <1>2, <1>3, <1>4, <1>5, <1>6, <1>7, <1>9, <1>10, <1>11, <1>12, <1>13,
     <1>15
  DEF Step
<1> QED BY <1>1, <1>14, <1>15 DEF Next

LEMMA KeepsAlone ==
    ASSUME SerialMembership, IInv, [Next]_vars
    PROVE  AloneInv'
<1>0. /\ AloneInv /\ ControlInv
      /\ pc \in [Unit -> Places] /\ call \in [Unit -> Calls \cup {NoCall}]
  BY DEF IInv, TypeOK
<1> USE <1>0 DEF AloneInv, Changing, Goto
<1>1. ASSUME NEW u \in Unit, NEW c \in Calls, Call(u, c)
      PROVE  AloneInv'
  BY <1>1 DEF Call, Admitted, ChangesMap, IsUpdate, entries
<1>2. ASSUME NEW u \in Unit, pc[u] # "idle",
             NEW place \in Places \ {"idle", "lookup"},
             Goto(u, place), UNCHANGED <<call, registered>>
      PROVE  AloneInv'
  BY <1>2
<1>3. ASSUME NEW u \in Unit, LocalVariable(u)
      PROVE  AloneInv'
  BY <1>3 DEF LocalVariable
<1>4. ASSUME NEW u \in Unit, Return(u) \/ Unlock(u)
      PROVE  AloneInv'
  BY <1>4 DEF Return, Unlock, entries, NoCall
<1>5. ASSUME NEW u \in Unit, SlowGrant(u) \/ SlowRefuse(u)
      PROVE  AloneInv'
  BY <1>5 DEF SlowGrant, SlowRefuse, Decide, Balance, Globalize, AtBody
<1>6. ASSUME NEW u \in Unit, Reset(u) \/ Unregister(u)
      PROVE  AloneInv'
  BY <1>6 DEF Reset, Unregister, Decide, AtBody
<1>7. ASSUME NEW u \in Unit, NEW v \in Unit, ScanEntry(u, v)
      PROVE  AloneInv'
  BY <1>7 DEF ScanEntry, control, entries
<1>8. ASSUME UNCHANGED vars
      PROVE  AloneInv'
  BY <1>8 DEF vars, control, entries
<1>9. ASSUME NEW u \in Unit,
             \/ LoadEntry(u) \/ FastPath(u) \/ GoSlow(u)
             \/ AcquireLock(u) \/ StartScan(u) \/ EndScan(u)
      PROVE  AloneInv'
  BY <1>2, <1>9
  DEF LoadEntry, FastPath, GoSlow, AcquireLock, StartScan, EndScan, AtBody,
      Places, entries
<1>10. ASSUME NEW u \in Unit, Step(u)
       PROVE  AloneInv'
  BY <1>3, <1>4, <1>5, <1>6, <1>7, <1>9, <1>10 DEF Step
<1> QED BY <1>1, <1>8, <1>10 DEF Next

LEMMA KeepsLoaded ==
    ASSUME IInv, [Next]_vars
    PROVE  LoadedIsCurrent'
<1>0. /\ AloneInv /\ LoadedIsCurrent
      /\ pc \in [Unit -> Places]
      /\ loaded \in [Unit -> [max : Counter, cnt : Counter]]
      /\ counter_max \in [Unit -> Counter] /\ counter \in [Unit -> Counter]
  BY DEF IInv, TypeOK
<1> USE <1>0 DEF LoadedIsCurrent, Goto
<1>1. ASSUME NEW u \in Unit, NEW c \in Calls, Call(u, c)
      PROVE  LoadedIsCurrent'
  BY <1>1 DEF Call, entries
<1>2. ASSUME NEW u \in Unit, LocalVariable(u)
      PROVE  LoadedIsCurrent'
  BY <1>2 DEF LocalVariable
<1>3. ASSUME NEW u \in Unit, LoadEntry(u)
      PROVE  LoadedIsCurrent'
  <2>1. u \in registered
    BY <1>3 DEF LoadEntry
  <2> QED BY <1>3, <2>1 DEF LoadEntry, entries
<1>4. ASSUME NEW u \in Unit, FastPath(u)
      PROVE  LoadedIsCurrent'
  BY <1>4 DEF FastPath
<1>5. ASSUME NEW u \in Unit,
             \/ GoSlow(u) \/ Return(u) \/ AcquireLock(u) \/ StartScan(u)
             \/ EndScan(u) \/ Unlock(u)
      PROVE  LoadedIsCurrent'
  BY <1>5
  DEF GoSlow, Return, AcquireLock, StartScan, EndScan, Unlock, entries
<1>6. ASSUME NEW u \in Unit, SlowGrant(u) \/ SlowRefuse(u)
      PROVE  LoadedIsCurrent'
  BY <1>6 DEF SlowGrant, SlowRefuse, Decide, Balance, Globalize, AtBody
<1>7. ASSUME NEW u \in Unit, Reset(u) \/ Unregister(u)
      PROVE  LoadedIsCurrent'
  <2>1. Changing(u) /\ pc'[u] = "unlock"
    BY <1>7 DEF Reset, Unregister, Decide, AtBody, Changing
  <2>2. \A v \in Unit : pc'[v] \notin {"load", "fast"}
    BY <1>7, <2>1 DEF AloneInv, Reset, Unregister, Decide
  <2> QED BY <2>2
<1>8. ASSUME NEW u \in Unit, NEW v \in Unit, ScanEntry(u, v)
      PROVE  LoadedIsCurrent'
  BY <1>8 DEF ScanEntry, control, entries
<1>9. ASSUME UNCHANGED vars
      PROVE  LoadedIsCurrent'
  BY <1>9 DEF vars, control, entries
<1>10. ASSUME NEW u \in Unit, Step(u)
       PROVE  LoadedIsCurrent'
  BY <1>2, <1>3, <1>4, <1>5, <1>6, <1>7, <1>8, <1>10 DEF Step
<1> QED BY <1>1, <1>9, <1>10 DEF Next

LEMMA KeepsReading ==
    ASSUME IInv, [Next]_vars
    PROVE  ReadWithinReserve'
<1>0. /\ ReadWithinReserve /\ LockDiscipline /\ OneHolder /\ EntriesInv
      /\ pc \in [Unit -> Places]
      /\ counter_max \in [Unit -> Counter]
      /\ m_global_counter \in Counter /\ registered \subseteq Unit
  BY DEF IInv, TypeOK
<1> USE <1>0 DEF Goto
\* A step that moves neither what is read nor where the readers are.
<1>1. ASSUME UNCHANGED <<m_global_counter, counter_max, sum, todo>>,
             NEW u \in Unit, NEW place \in Places \ {"scan"}, Goto(u, place)
      PROVE  ReadWithinReserve'
  BY <1>1 DEF ReadWithinReserve, Total, Only
\* A holder that is not scanning: nobody is, before or after.
<1>2. ASSUME NEW u \in Unit, pc[u] \in {"body", "scan"},
             NEW place \in Places \ {"scan"}, Goto(u, place)
      PROVE  ReadWithinReserve'
  <2>1. \A v \in Unit : pc'[v] # "scan"
    BY <1>2 DEF LockDiscipline, OneHolder
  <2> QED BY <2>1 DEF ReadWithinReserve
<1>3. ASSUME NEW u \in Unit, StartScan(u)
      PROVE  ReadWithinReserve'
  <2>1. Only(counter_max, Unit \ registered) = [v \in Unit |-> 0]
    BY DEF Only, EntriesInv
  <2>2. Total(Only(counter_max, Unit \ registered)) = 0
    BY <2>1, TotalZero
  <2>3. m_global_counter \in Nat
    BY CounterAssumption DEF Counter
  <2>4. /\ sum' = m_global_counter /\ todo' = registered
        /\ m_global_counter' = m_global_counter /\ counter_max' = counter_max
    BY <1>3 DEF StartScan, globals, entries
  <2> QED BY <2>2, <2>3, <2>4 DEF ReadWithinReserve, Total, Only
<1>4. ASSUME NEW u \in Unit, NEW v \in Unit, ScanEntry(u, v)
      PROVE  ReadWithinReserve'
  <2>1. /\ m_global_counter <= sum'
        /\ sum' <= m_global_counter
                     + Total(Only(counter_max, Unit \ (todo \ {v})))
    BY <1>4, ScanFacts
  <2>2. /\ todo' = todo \ {v}
        /\ m_global_counter' = m_global_counter /\ counter_max' = counter_max
    BY <1>4 DEF ScanEntry, globals, entries
  <2> QED BY <2>1, <2>2 DEF ReadWithinReserve, Total, Only
<1>5. ASSUME NEW u \in Unit, NEW c \in Calls, Call(u, c)
      PROVE  ReadWithinReserve'
  BY <1>1, <1>5 DEF Call, globals, entries, scanning, Places
<1>6. ASSUME NEW u \in Unit,
             \/ LocalVariable(u) \/ LoadEntry(u) \/ FastPath(u) \/ GoSlow(u)
             \/ Return(u) \/ AcquireLock(u) \/ Unlock(u)
      PROVE  ReadWithinReserve'
  BY <1>1, <1>6
  DEF LocalVariable, LoadEntry, FastPath, GoSlow, Return, AcquireLock, Unlock,
      globals, entries, scanning, Places
<1>7. ASSUME NEW u \in Unit,
             \/ SlowGrant(u) \/ SlowRefuse(u) \/ Reset(u) \/ Unregister(u)
             \/ EndScan(u)
      PROVE  ReadWithinReserve'
  BY <1>2, <1>7
  DEF SlowGrant, SlowRefuse, Reset, Unregister, EndScan, Decide, AtBody, Places
<1>8. ASSUME UNCHANGED vars
      PROVE  ReadWithinReserve'
  BY <1>8
  DEF vars, globals, entries, control, scanning, ReadWithinReserve, Total, Only
<1>9. ASSUME NEW u \in Unit, Step(u)
      PROVE  ReadWithinReserve'
  BY <1>3, <1>4, <1>6, <1>7, <1>9 DEF Step
<1> QED BY <1>5, <1>8, <1>9 DEF Next

-----------------------------------------------------------------------------
(* The theorems.                                                            *)

LEMMA InitIInv == Init => IInv
<1> SUFFICES ASSUME Init PROVE IInv
  OBVIOUS
<1>1. 0 \in Counter /\ 0 \in Nat /\ Limits \subseteq Counter /\ Counter \subseteq Nat
  BY CounterAssumption DEF Counter
<1>2. NoLoad \in [max : Counter, cnt : Counter]
  BY <1>1 DEF NoLoad
<1>3. TypeOK
  BY <1>1, <1>2 DEF Init, TypeOK, Places
<1>4. Total(counter_max) = 0
  BY TotalZero DEF Init
<1>5. ReserveAccounted
  BY <1>1, <1>4 DEF Init, ReserveAccounted
<1>6. EntriesInv /\ ControlInv /\ LockDiscipline /\ OneHolder
  BY NoCallIsNoCall DEF Init, EntriesInv, ControlInv, LockDiscipline, OneHolder
<1>7. AloneInv /\ LoadedIsCurrent /\ ReadWithinReserve
  BY DEF Init, AloneInv, LoadedIsCurrent, ReadWithinReserve
<1> QED BY <1>3, <1>5, <1>6, <1>7 DEF IInv

LEMMA StepKeepsIInv ==
    ASSUME SerialMembership, IInv, [Next]_vars
    PROVE  IInv'
<1>1. DataInv' /\ Control' /\ AloneInv' /\ LoadedIsCurrent' /\ ReadWithinReserve'
  BY KeepsData, KeepsControl, KeepsAlone, KeepsLoaded, KeepsReading
<1>2. TypeOK'
  BY <1>1 DEF DataInv, DataType, Control, ControlType, TypeOK
<1> QED BY <1>1, <1>2 DEF DataInv, Control, IInv

LEMMA AlwaysIInv ==
    ASSUME SerialMembership
    PROVE  Spec => []IInv
<1>1. IInv /\ [Next]_vars => IInv'
  BY StepKeepsIInv
<1> QED BY <1>1, InitIInv, PTL DEF Spec

LEMMA IInvBoundsValue ==
    ASSUME IInv
    PROVE  /\ LimitRespected
           /\ Value \in Nat
<1>1. /\ counter \in [Unit -> Counter] /\ counter_max \in [Unit -> Counter]
      /\ m_global_counter \in Nat /\ m_global_counter_reserve \in Nat
      /\ m_global_counter_max \in Nat
  BY CounterAssumption DEF IInv, TypeOK, Counter
<1>2. Total(counter) <= Total(counter_max)
  BY <1>1, TotalMonotone DEF IInv, ReserveAccounted
<1>3. Total(counter) \in Nat /\ Total(counter_max) \in Nat
  BY TotalType
<1>4. /\ m_global_counter_reserve = Total(counter_max)
      /\ m_global_counter + m_global_counter_reserve <= m_global_counter_max
  BY DEF IInv, ReserveAccounted
<1> QED BY <1>1, <1>2, <1>3, <1>4 DEF LimitRespected, Value

\* The variables stay in their types: no counter leaves the range of
\* CounterT, no thread leaves the code.
THEOREM CounterTypeCorrect ==
    ASSUME SerialMembership
    PROVE  Spec => []TypeOK
<1>1. IInv => TypeOK
  BY DEF IInv
<1> QED BY <1>1, AlwaysIInv, PTL

\* The counter never exceeds its limit, whatever the units, the width, the
\* arguments and the interleaving of fast paths, slow paths and resets.
THEOREM CounterRespectsLimit ==
    ASSUME SerialMembership
    PROVE  Spec => []LimitRespected
<1>1. IInv => LimitRespected
  BY IInvBoundsValue
<1> QED BY <1>1, AlwaysIInv, PTL

\* The reserve is exactly the sum of the entries' maxima.
THEOREM CounterAccountsReserve ==
    ASSUME SerialMembership
    PROVE  Spec => []ReserveAccounted
<1>1. IInv => ReserveAccounted
  BY DEF IInv
<1> QED BY <1>1, AlwaysIInv, PTL

\* What read_count adds up stays within the global counter and the reserve.
THEOREM CounterReadBounded ==
    ASSUME SerialMembership
    PROVE  Spec => []ReadWithinReserve
<1>1. IInv => ReadWithinReserve
  BY DEF IInv
<1> QED BY <1>1, AlwaysIInv, PTL

\* The unlocked fast path never works on a stale or missing entry.
THEOREM CounterFastPathCurrent ==
    ASSUME SerialMembership
    PROVE  Spec => [](LoadedIsCurrent /\ LockDiscipline)
<1>1. IInv => LoadedIsCurrent /\ LockDiscipline
  BY DEF IInv
<1> QED BY <1>1, AlwaysIInv, PTL

-----------------------------------------------------------------------------
(* The counter implements LimitCounter.                                     *)

NumbersOf(u) == /\ counter \in [Unit -> Counter]
                /\ counter[u] \in Nat
                /\ m_global_counter \in Nat
                /\ Total(counter) \in Nat
                /\ 0 \in Counter

LEMMA Numbers ==
    ASSUME IInv, NEW u \in Unit
    PROVE  NumbersOf(u)
<1>1. Total(counter) \in Nat
  BY TotalType
<1> QED BY <1>1, CounterAssumption DEF NumbersOf, IInv, TypeOK, Counter

LEMMA FastPathValue ==
    ASSUME IInv, NEW u \in Unit, FastPath(u)
    PROVE  /\ call[u].op = "add" => Value' = Value + call[u].arg
           /\ call[u].op = "sub" => Value' = Value - call[u].arg
           /\ call[u].op \in {"add", "sub"}
<1>1. NumbersOf(u)
  BY Numbers
<1>2. /\ u \in registered /\ FastCount(u) \in Counter
      /\ call[u].op = "add" => FastCount(u) = counter[u] + call[u].arg
      /\ call[u].op = "sub" => FastCount(u) = counter[u] - call[u].arg
      /\ call[u].op \in {"add", "sub"}
  BY FastCountFits
<1>3. /\ counter' = [counter EXCEPT ![u] = FastCount(u)]
      /\ m_global_counter' = m_global_counter
  BY <1>2 DEF FastPath, globals
<1>4. Value' = m_global_counter + (Total(counter) - counter[u] + FastCount(u))
  <2>1. Total([counter EXCEPT ![u] = FastCount(u)])
           = Total(counter) - counter[u] + FastCount(u)
    BY <1>1, <1>2, TotalUpdate DEF NumbersOf
  <2> QED BY <1>3, <2>1 DEF Value, Total
<1>5. call[u].arg \in Nat
  BY ArgumentType DEF IInv, FastPath
<1> QED BY <1>1, <1>2, <1>4, <1>5 DEF NumbersOf, Value

LEMMA SlowGrantValue ==
    ASSUME IInv, NEW u \in Unit, SlowGrant(u)
    PROVE  /\ call[u].op = "add" => Value' = Value + call[u].arg
           /\ call[u].op = "sub" => Value' = Value - call[u].arg
           /\ call[u].op \in {"add", "sub"}
<1> DEFINE c == SlowCount(u)
           t == Taken(u, c)
<1>1. NumbersOf(u)
  BY Numbers
<1>2. /\ c \in Nat /\ c + GlobalizedReserve(u) <= m_global_counter_max
      /\ call[u].op = "add" => c = GlobalizedCounter(u) + call[u].arg
      /\ call[u].op = "sub" => c = GlobalizedCounter(u) - call[u].arg
      /\ call[u].op \in {"add", "sub"}
  BY SlowCountFits
<1>3. GlobalizedCounter(u) = m_global_counter + counter[u]
  BY GlobalizeFacts DEF IInv
<1>4. t \in Nat /\ t <= c
  BY <1>2, ShareFacts DEF IInv
<1>5. counter' = [counter EXCEPT ![u] = t] /\ m_global_counter' = Minus(c, t)
  BY DEF SlowGrant, Balance
<1>6. t \in Counter
  <2>1. DataInv'
    BY KeepsData DEF Next, Step
  <2>2. counter' \in [Unit -> Counter]
    BY <2>1 DEF DataInv, DataType
  <2>3. counter'[u] = t
    BY <1>1, <1>5 DEF NumbersOf
  <2> QED BY <2>2, <2>3
<1> HIDE DEF c, t
<1>7. Minus(c, t) = c - t
  BY <1>4 DEF Minus
<1>8. Value' = c - t + (Total(counter) - counter[u] + t)
  <2>1. Total([counter EXCEPT ![u] = t]) = Total(counter) - counter[u] + t
    BY <1>1, <1>6, TotalUpdate DEF NumbersOf
  <2> QED BY <1>5, <1>7, <2>1 DEF Value, Total
<1>9. call[u].arg \in Nat
  BY ArgumentType DEF IInv, SlowGrant, AtBody
<1> QED BY <1>1, <1>2, <1>3, <1>4, <1>8, <1>9 DEF NumbersOf, Value

LEMMA GlobalizeValue ==
    ASSUME IInv, NEW u \in Unit,
           m_global_counter' = GlobalizedCounter(u),
           counter' = [counter EXCEPT ![u] = 0]
    PROVE  Value' = Value
<1>1. NumbersOf(u)
  BY Numbers
<1>2. GlobalizedCounter(u) = m_global_counter + counter[u]
  BY GlobalizeFacts DEF IInv
<1>3. Value' = m_global_counter + counter[u] + (Total(counter) - counter[u] + 0)
  <2>1. Total([counter EXCEPT ![u] = 0]) = Total(counter) - counter[u] + 0
    BY <1>1, TotalUpdate DEF NumbersOf
  <2> QED BY <1>2, <2>1 DEF Value, Total
<1> QED BY <1>1, <1>3 DEF NumbersOf, Value

avars == <<m_global_counter_max, Value, call, answer>>

LEMMA StepRefines ==
    ASSUME IInv, (LimitRespected /\ Value \in Nat)', [Next]_vars
    PROVE  [Abstract!Next]_avars
<1>0. /\ ControlInv /\ LockDiscipline /\ OneHolder
      /\ pc \in [Unit -> Places]
      /\ call \in [Unit -> Calls \cup {NoCall}]
      /\ answer \in [Unit -> {"none", "granted", "refused", "done"}]
      /\ Abstract!NoCall = NoCall
  BY DEF IInv, TypeOK, NoCall, Abstract!NoCall
<1>1. ASSUME UNCHANGED <<globals, counter, call, answer>>
      PROVE  UNCHANGED avars
  BY <1>1 DEF avars, globals, Value, Total
<1>2. ASSUME NEW u \in Unit, NEW c \in Calls, Call(u, c)
      PROVE  Abstract!Ask(u)
  <2>1. UNCHANGED <<m_global_counter_max, Value, answer>>
    BY <1>2 DEF Call, globals, entries, Value, Total
  <2> QED BY <1>0, <1>2, <2>1 DEF Abstract!Ask, Call, ControlInv
<1>3. ASSUME NEW u \in Unit, FastPath(u) \/ SlowGrant(u)
      PROVE  Abstract!GrantAdd(u) \/ Abstract!GrantSub(u)
  <2>1. /\ call[u].op = "add" => Value' = Value + call[u].arg
        /\ call[u].op = "sub" => Value' = Value - call[u].arg
        /\ call[u].op \in {"add", "sub"}
    BY <1>3, FastPathValue, SlowGrantValue
  <2>2. /\ answer[u] = "none"
        /\ answer' = [answer EXCEPT ![u] = "granted"]
        /\ call' = call
        /\ m_global_counter_max' = m_global_counter_max
        /\ pc[u] # "idle"
    BY <1>0, <1>3
    DEF FastPath, SlowGrant, AtBody, Decide, Answer, Balance, globals,
        ControlInv
  <2>3. (LimitRespected /\ Value \in Nat)'
    OBVIOUS
  <2>4. Value \in Nat /\ call[u].arg \in Nat
    BY <2>2, IInvBoundsValue, ArgumentType DEF IInv
  <2>5. CASE call[u].op = "add"
    BY <2>1, <2>2, <2>3, <2>5
    DEF Abstract!GrantAdd, Abstract!Tell, LimitRespected
  <2>6. CASE call[u].op = "sub"
    <3>1. Value >= call[u].arg
      BY <2>1, <2>3, <2>4, <2>6
    <3> QED BY <2>1, <2>2, <2>6, <3>1 DEF Abstract!GrantSub, Abstract!Tell
  <2> QED BY <2>1, <2>5, <2>6
<1>4. ASSUME NEW u \in Unit, SlowRefuse(u)
      PROVE  Abstract!Refuse(u)
  <2>1. Value' = Value
    BY <1>4, GlobalizeValue DEF SlowRefuse, Globalize
  <2>2. m_global_counter_max' = m_global_counter_max
    BY <1>4 DEF SlowRefuse, Globalize
  <2> QED
    BY <1>0, <1>4, <2>1, <2>2
    DEF SlowRefuse, AtBody, Decide, Answer, ControlInv, Abstract!Refuse,
        Abstract!Tell
<1>5. ASSUME NEW u \in Unit, Unregister(u)
      PROVE  Abstract!Finish(u)
  <2>1. Value' = Value
    BY <1>5, GlobalizeValue DEF Unregister
  <2> QED
    BY <1>0, <1>5, <2>1
    DEF Unregister, AtBody, Decide, Answer, ControlInv, Abstract!Finish,
        Abstract!Tell
<1>6. ASSUME NEW u \in Unit, Reset(u)
      PROVE  Abstract!Reset(u)
  <2>1. counter' = [v \in Unit |-> 0] /\ m_global_counter' = 0
    BY <1>6 DEF Reset
  <2>2. Total([v \in Unit |-> 0]) = 0
    BY TotalZero
  <2>3. Value' = 0
    BY <2>1, <2>2 DEF Value, Total
  <2> QED
    BY <1>0, <1>6, <2>3
    DEF Reset, AtBody, Decide, Answer, ControlInv, Abstract!Reset, Abstract!Tell
<1>7. ASSUME NEW u \in Unit, EndScan(u)
      PROVE  Abstract!Finish(u)
  <2>1. UNCHANGED <<m_global_counter_max, Value, call>>
    BY <1>7 DEF EndScan, globals, entries, Value, Total
  <2>2. answer[u] = "none" /\ answer' = [answer EXCEPT ![u] = "done"]
    BY <1>0, <1>7 DEF EndScan, Answer, ControlInv
  <2>3. call[u].op = "read"
    BY <1>7 DEF EndScan, IInv, ControlInv
  <2> QED BY <2>1, <2>2, <2>3 DEF Abstract!Finish, Abstract!Tell
<1>8. ASSUME NEW u \in Unit, Return(u) \/ Unlock(u)
      PROVE  Abstract!Return(u)
  <2>1. UNCHANGED <<m_global_counter_max, Value>>
    BY <1>8 DEF Return, Unlock, globals, entries, Value, Total
  <2> QED
    BY <1>0, <1>8, <2>1
    DEF Return, Unlock, Answer, ControlInv, Abstract!Return
<1>9. ASSUME NEW u \in Unit,
             \/ LocalVariable(u) \/ LoadEntry(u) \/ GoSlow(u)
             \/ AcquireLock(u) \/ StartScan(u) \/ \E v \in Unit : ScanEntry(u, v)
      PROVE  UNCHANGED avars
  BY <1>1, <1>9
  DEF LocalVariable, LoadEntry, GoSlow, AcquireLock, StartScan, ScanEntry,
      globals, entries, control
<1>10. ASSUME UNCHANGED vars
       PROVE  UNCHANGED avars
  BY <1>1, <1>10 DEF vars, entries, control
<1> QED
  BY <1>2, <1>3, <1>4, <1>5, <1>6, <1>7, <1>8, <1>9, <1>10
  DEF Next, Step, Abstract!Next

\* Through all its fast and slow paths, shares and reserves, the counter is
\* one number between 0 and the limit that granted calls move by their
\* argument, once.
THEOREM CounterImplementsLimitCounter ==
    ASSUME SerialMembership
    PROVE  Spec => ImplementsLimitCounter
<1>1. Init => Abstract!Init
  <2> SUFFICES ASSUME Init PROVE Abstract!Init
    OBVIOUS
  <2>1. Total(counter) = 0
    BY TotalZero DEF Init
  <2>2. Value = 0
    BY <2>1 DEF Init, Value
  <2> QED BY <2>2 DEF Init, Abstract!Init, NoCall, Abstract!NoCall
<1>2. IInv => LimitRespected /\ Value \in Nat
  BY IInvBoundsValue
<1>3. IInv /\ (LimitRespected /\ Value \in Nat)' /\ [Next]_vars
        => [Abstract!Next]_(Abstract!vars)
  BY StepRefines DEF avars, Abstract!vars
<1> QED
  BY <1>1, <1>2, <1>3, AlwaysIInv, PTL DEF Spec, ImplementsLimitCounter, Abstract!Spec

-----------------------------------------------------------------------------
(* A unit that is alone in the map.                                         *)

LEMMA TotalAlone ==
    ASSUME NEW f \in [Unit -> Counter], NEW u \in Unit,
           \A v \in Unit \ {u} : f[v] = 0
    PROVE  Total(f) = f[u]
<1>1. [f EXCEPT ![u] = 0] = [v \in Unit |-> 0]
  OBVIOUS
<1>2. f[u] \in Nat
  BY CounterAssumption DEF Counter
<1> QED BY <1>1, <1>2, TotalSplit, TotalZero

\* Whatever refuses a call is the slow path.
LEMMA RefusedBySlowPath ==
    ASSUME IInv, [Next]_vars, NEW u \in Unit,
           answer[u] = "none", answer'[u] = "refused"
    PROVE  SlowRefuse(u)
<1>0. DOMAIN answer = Unit
  BY DEF IInv, TypeOK
<1>1. ASSUME NEW v \in Unit, NEW c \in Calls, Call(v, c)
      PROVE  FALSE
  BY <1>1 DEF Call
<1>2. ASSUME NEW v \in Unit, LocalVariable(v) \/ LoadEntry(v) \/ GoSlow(v)
                             \/ AcquireLock(v) \/ StartScan(v)
      PROVE  FALSE
  BY <1>2 DEF LocalVariable, LoadEntry, GoSlow, AcquireLock, StartScan
<1>3. ASSUME NEW v \in Unit, NEW w \in Unit, ScanEntry(v, w)
      PROVE  FALSE
  BY <1>3 DEF ScanEntry, control
<1>4. ASSUME NEW v \in Unit, NEW a \in {"none", "granted", "done"},
             answer' = [answer EXCEPT ![v] = a]
      PROVE  FALSE
  BY <1>0, <1>4
<1>5. ASSUME NEW v \in Unit, FastPath(v) \/ Return(v) \/ SlowGrant(v)
                             \/ Reset(v) \/ Unregister(v) \/ EndScan(v)
                             \/ Unlock(v)
      PROVE  FALSE
  BY <1>4, <1>5 DEF FastPath, Return, SlowGrant, Reset, Unregister, EndScan,
                    Unlock, Decide, Answer
<1>6. ASSUME NEW v \in Unit, SlowRefuse(v)
      PROVE  v = u
  BY <1>0, <1>6 DEF SlowRefuse, Decide, Answer
<1>7. ~UNCHANGED vars
  BY DEF vars, control
<1> QED
  BY <1>1, <1>2, <1>3, <1>5, <1>6, <1>7 DEF Next, Step

LEMMA RefusalExact ==
    ASSUME IInv, NEW u \in Unit, registered \subseteq {u}, SlowRefuse(u)
    PROVE  IF call[u].op = "add"
           THEN Value + call[u].arg > m_global_counter_max
           ELSE Value < call[u].arg
<1>1. /\ TypeOK /\ ReserveAccounted /\ EntriesInv /\ ControlInv
      /\ counter \in [Unit -> Counter] /\ counter_max \in [Unit -> Counter]
  BY DEF IInv, TypeOK
<1>2. \A v \in Unit \ {u} : counter[v] = 0 /\ counter_max[v] = 0
  BY <1>1 DEF EntriesInv
<1>3. Total(counter) = counter[u] /\ Total(counter_max) = counter_max[u]
  BY <1>1, <1>2, TotalAlone
<1>4. /\ m_global_counter \in Nat /\ m_global_counter_max \in Nat
      /\ counter[u] \in Nat /\ counter_max[u] \in Nat
      /\ m_global_counter_reserve = counter_max[u]
      /\ m_global_counter + counter_max[u] <= m_global_counter_max
      /\ counter[u] <= counter_max[u]
      /\ Value = m_global_counter + counter[u]
  BY <1>1, <1>3, CounterAssumption DEF ReserveAccounted, TypeOK, Counter, Value
<1>5. GlobalizedCounter(u) = Value /\ GlobalizedReserve(u) = 0
  <2>1. /\ GlobalizedCounter(u) = m_global_counter + counter[u]
        /\ GlobalizedReserve(u) = m_global_counter_reserve - counter_max[u]
    BY <1>1, GlobalizeFacts
  <2> QED BY <1>4, <2>1
<1>6. /\ pc[u] = "body" /\ call[u].op \in {"add", "sub"} /\ ~FitsGlobal(u)
  BY DEF SlowRefuse, AtBody
<1>7. call[u].arg \in Nat
  BY <1>1, <1>6, ArgumentType
<1>8. Minus(Minus(m_global_counter_max, Value), 0) = m_global_counter_max - Value
  BY <1>4 DEF Minus
<1>9. CASE call[u].op = "add"
  <2>1. ~(m_global_counter_max - Value >= call[u].arg)
    BY <1>5, <1>6, <1>8, <1>9 DEF FitsGlobal
  <2> QED BY <1>4, <1>7, <1>9, <2>1
<1>10. CASE call[u].op = "sub"
  <2>1. ~(Value >= call[u].arg)
    BY <1>5, <1>6, <1>10 DEF FitsGlobal
  <2> QED BY <1>4, <1>7, <1>10, <2>1
<1> QED BY <1>6, <1>9, <1>10

\* A unit alone in the map is refused only what does not fit: the reserves of
\* the units that left are all back, and "approximate" costs it nothing.
THEOREM CounterRefusesExactly ==
    ASSUME SerialMembership
    PROVE  Spec => RefusalExactAlone
<1> DEFINE Exactly ==
      \A u \in Unit :
          registered \subseteq {u} /\ answer[u] = "none" /\ answer'[u] = "refused"
            => IF call[u].op = "add"
               THEN Value + call[u].arg > m_global_counter_max
               ELSE Value < call[u].arg
<1>1. ASSUME IInv, [Next]_vars
      PROVE  Exactly
  BY <1>1, RefusedBySlowPath, RefusalExact
<1>2. IInv /\ [Next]_vars => [Exactly]_vars
  BY <1>1
<1> QED BY <1>2, AlwaysIInv, PTL DEF Spec, RefusalExactAlone

-----------------------------------------------------------------------------
(* The handlers (SpecificHandler), which call the counter.                  *)

HandlerTypes == /\ m_parent \in [Handler -> BOOLEAN]
                /\ m_tid \in [Handler -> Unit \cup {None}]
                /\ active \subseteq Unit
                /\ \A h \in Handler : m_parent[h] => m_tid[h] # None

\* No unit has two handlers.
HandlersApart ==
    \A h, k \in Owning : m_tid[h] = m_tid[k] => h = k

\* A unit calls through its handler, except for reset() and the call that the
\* end of the handler makes.
CalledThroughHandlers ==
    \A u \in Unit : ~Idle(u) =>
        /\ call[u].op = "unregister" => u \notin Served
        /\ u \notin Served => call[u].op \in {"unregister", "reset"}
        /\ Leaving(u) => pc[u] \in {"lock", "body", "unlock"}

\* A unit that updated has an entry from its first lookup on.
EntryOfActive ==
    \A u \in active \cap Served : u \in registered \/ pc[u] = "lookup"

GoneWhenUnlocking ==
    \A u \in registered : Leaving(u) => pc[u] # "unlock"

HandlerInv == /\ HandlerTypes /\ HandlersApart /\ CalledThroughHandlers
              /\ EntryOfActive /\ NoEntryOutlivesHandler /\ GoneWhenUnlocking

\* What a step of a call does to its unit's place and entry; the other units
\* stay where they are and what they are.
LEMMA StepMoves ==
    ASSUME IInv, NEW u \in Unit, Step(u)
    PROVE  /\ pc[u] # "idle"
           /\ pc'[u] = "idle" \/ (call'[u] = call[u] /\ pc'[u] # "lookup")
           /\ \A v \in Unit \ {u} : pc'[v] = pc[v] /\ call'[v] = call[v]
           /\ AtBody(u, "reset") => registered' = {}
           /\ ~AtBody(u, "reset") =>
                  /\ \A v \in Unit \ {u} : v \in registered' <=> v \in registered
                  /\ (/\ call[u].op # "unregister"
                      /\ u \in registered \/ pc[u] = "lookup")
                         => u \in registered'
           /\ call[u].op = "reset" => registered' \subseteq registered
           /\ call[u].op = "unregister" =>
                  /\ pc[u] = "lock" => /\ pc'[u] = "body"
                                       /\ registered' = registered
                  /\ pc[u] = "body" => pc'[u] = "unlock" /\ u \notin registered'
                  /\ pc[u] = "unlock" => /\ pc'[u] = "idle"
                                         /\ registered' = registered
<1> DEFINE Moves ==
           /\ pc[u] # "idle"
           /\ pc'[u] = "idle" \/ (call'[u] = call[u] /\ pc'[u] # "lookup")
           /\ \A v \in Unit \ {u} : pc'[v] = pc[v] /\ call'[v] = call[v]
           /\ AtBody(u, "reset") => registered' = {}
           /\ ~AtBody(u, "reset") =>
                  /\ \A v \in Unit \ {u} : v \in registered' <=> v \in registered
                  /\ (/\ call[u].op # "unregister"
                      /\ u \in registered \/ pc[u] = "lookup")
                         => u \in registered'
           /\ call[u].op = "reset" => registered' \subseteq registered
           /\ call[u].op = "unregister" =>
                  /\ pc[u] = "lock" => /\ pc'[u] = "body"
                                       /\ registered' = registered
                  /\ pc[u] = "body" => pc'[u] = "unlock" /\ u \notin registered'
                  /\ pc[u] = "unlock" => /\ pc'[u] = "idle"
                                         /\ registered' = registered
<1> USE DEF IInv, Goto, AtBody
<1>0. /\ DOMAIN pc = Unit /\ DOMAIN call = Unit
      /\ \A v \in Unit : pc[v] \in {"lookup", "load", "fast"} =>
             call[v].op \in {"add", "sub"}
  BY DEF TypeOK, ControlInv, IsUpdate
<1>1. CASE LocalVariable(u)
  BY <1>0, <1>1 DEF LocalVariable
<1>2. CASE LoadEntry(u) \/ GoSlow(u)
  BY <1>0, <1>2 DEF LoadEntry, GoSlow, entries
<1>3. CASE FastPath(u)
  BY <1>0, <1>3 DEF FastPath
<1>4. CASE Return(u)
  <2>1. pc[u] = "return" /\ pc'[u] = "idle" /\ registered' = registered
    BY <1>0, <1>4 DEF Return, entries
  <2> QED BY <1>0, <1>4, <2>1 DEF Return
<1>5. CASE AcquireLock(u)
  BY <1>0, <1>5 DEF AcquireLock, entries
<1>6. CASE SlowGrant(u) \/ SlowRefuse(u)
  <2>1. /\ pc[u] = "body" /\ call[u].op \in {"add", "sub"}
        /\ registered' = registered \cup {u}
        /\ pc' = [pc EXCEPT ![u] = "unlock"] /\ call' = call
    BY <1>6 DEF SlowGrant, SlowRefuse, AtBody, Balance, Globalize, Decide
  <2> QED BY <1>0, <2>1
<1>7. CASE Reset(u)
  BY <1>0, <1>7 DEF Reset, Decide
<1>8. CASE Unregister(u)
  <2>1. /\ pc[u] = "body" /\ call[u].op = "unregister"
        /\ registered' = registered \ {u}
        /\ pc' = [pc EXCEPT ![u] = "unlock"] /\ call' = call
    BY <1>8 DEF Unregister, AtBody, Decide
  <2> QED BY <1>0, <2>1
<1>9. CASE StartScan(u)
  BY <1>0, <1>9 DEF StartScan, AtBody, entries
<1>10. CASE \E v \in Unit : ScanEntry(u, v)
  <2>1. /\ pc[u] = "scan" /\ call[u].op = "read"
        /\ UNCHANGED <<pc, call, registered>>
    BY <1>10 DEF ScanEntry, control, entries, ControlInv
  <2> QED BY <2>1
<1>11. CASE EndScan(u)
  <2>1. /\ pc[u] = "scan" /\ call[u].op = "read"
    BY <1>11 DEF EndScan, ControlInv
  <2> QED BY <1>0, <1>11, <2>1 DEF EndScan, entries
<1>12. CASE Unlock(u)
  BY <1>0, <1>12 DEF Unlock, entries
<1> QED
  BY <1>1, <1>2, <1>3, <1>4, <1>5, <1>6, <1>7, <1>8, <1>9, <1>10, <1>11, <1>12
  DEF Step

LEMMA StepKeepsType ==
    ASSUME IInv, NEW u \in Unit, Step(u)
    PROVE  registered' \subseteq Unit
<1>1. [Next]_vars
  BY DEF Next
<1> QED BY <1>1, KeepsData DEF DataInv, DataType

\* A call that a handler makes: the counter is called, no entry is changed.
LEMMA CallMoves ==
    ASSUME IInv, NEW u \in Unit, NEW c, Call(u, c)
    PROVE  /\ pc[u] = "idle" /\ call'[u] = c /\ registered' = registered
           /\ pc'[u] = IF IsUpdate(c) THEN "lookup" ELSE "lock"
           /\ \A v \in Unit \ {u} : pc'[v] = pc[v] /\ call'[v] = call[v]
BY DEF Call, Goto, entries, IInv, TypeOK

\* A handler becomes another one's, or is moved to itself.
LEMMA HandlerMoved ==
    ASSUME HandlerInv, NEW h \in Handler, NEW from \in Live, ~m_parent[h],
           m_parent' = [Emptied(m_parent, from) EXCEPT ![h] = m_parent[from]],
           m_tid' = [m_tid EXCEPT ![h] = m_tid[from]],
           UNCHANGED <<active, vars>>
    PROVE  HandlerInv'
<1> USE DEF HandlerInv, HandlerTypes
<1>1. /\ from \in Handler /\ m_tid[from] # None
      /\ m_parent' \in [Handler -> BOOLEAN]
      /\ m_tid' \in [Handler -> Unit \cup {None}]
      /\ (m_parent'[h] <=> m_parent[from]) /\ m_tid'[h] = m_tid[from]
      /\ h # from => ~m_parent'[from] /\ m_tid'[from] = m_tid[from]
      /\ \A k \in Handler \ {h, from} : /\ m_parent'[k] <=> m_parent[k]
                                        /\ m_tid'[k] = m_tid[k]
  BY DEF Emptied, Live
<1>2. HandlerTypes'
  BY <1>1 DEF HandlerTypes
<1>3. ASSUME NEW k \in Owning'
      PROVE  \E m \in Owning : /\ m_tid[m] = m_tid'[k]
                               /\ k = h => m = from
                               /\ k # h => m = k
  <2>1. CASE k = h
    BY <1>1, <1>3, <2>1 DEF Owning, Live
  <2>2. CASE k # h
    BY <1>1, <1>3, <2>2 DEF Owning, Live
  <2> QED BY <2>1, <2>2
<1>4. \A k \in Owning' : k # h => k # from
  BY <1>1 DEF Owning
<1>5. HandlersApart'
  BY <1>3, <1>4 DEF HandlersApart
<1>6. ASSUME NEW k \in Owning
      PROVE  \E m \in Owning' : m_tid'[m] = m_tid[k]
  <2>1. CASE k = from
    BY <1>1, <1>6, <2>1 DEF Owning, Live
  <2>2. CASE k # from
    BY <1>1, <1>6, <2>2 DEF Owning, Live
  <2> QED BY <2>1, <2>2
<1>7. Served' = Served
  BY <1>3, <1>6 DEF Served
<1>8. UNCHANGED <<active, pc, call, registered>>
  BY DEF vars, control, entries
<1>9. /\ CalledThroughHandlers' /\ EntryOfActive'
      /\ NoEntryOutlivesHandler' /\ GoneWhenUnlocking'
  BY <1>7, <1>8 DEF CalledThroughHandlers, EntryOfActive, Idle, Leaving,
                    NoEntryOutlivesHandler, GoneWhenUnlocking
<1> QED BY <1>2, <1>5, <1>9

LEMMA HandlerSteps ==
    ASSUME HandlerAssumption, "vacant" \in Discipline, IInv, HandlerInv,
           [HandlerNext]_handlerVars
    PROVE  HandlerInv' /\ [Next]_vars
<1> USE DEF HandlerInv, HandlerTypes
<1>0. None \notin Unit
  BY DEF HandlerAssumption
<1>1. ASSUME NEW h \in Handler, NEW u \in Unit, GetSpecificHandler(h, u)
      PROVE  HandlerInv' /\ UNCHANGED vars
  <2>1. /\ h \notin Live /\ u \notin Served /\ pc[u] = "idle"
        /\ m_parent' = [m_parent EXCEPT ![h] = TRUE]
        /\ m_tid' = [m_tid EXCEPT ![h] = u]
        /\ active' = active \ {u}
        /\ UNCHANGED vars /\ UNCHANGED <<pc, call, registered>>
    BY <1>1 DEF GetSpecificHandler, Idle, vars, control, entries
  <2>2. /\ m_parent'[h] /\ m_tid'[h] = u
        /\ \A k \in Handler \ {h} : /\ m_parent'[k] <=> m_parent[k]
                                    /\ m_tid'[k] = m_tid[k]
    BY <2>1
  <2>3. HandlerTypes'
    BY <1>0, <2>1, <2>2
  <2>4. Owning' = Owning \cup {h} /\ h \notin Owning
    BY <1>0, <2>1, <2>2 DEF Owning, Live
  <2>5. \A k \in Owning : k # h /\ m_tid'[k] = m_tid[k] /\ m_tid[k] # u
    BY <2>1, <2>2, <2>4 DEF Owning, Live, Served
  <2>6. Served' = Served \cup {u}
    BY <2>2, <2>4, <2>5 DEF Served
  <2>7. HandlersApart'
    BY <2>2, <2>4, <2>5 DEF HandlersApart
  <2>8. /\ CalledThroughHandlers' /\ EntryOfActive'
        /\ NoEntryOutlivesHandler' /\ GoneWhenUnlocking'
    BY <2>1, <2>6 DEF CalledThroughHandlers, EntryOfActive, Idle, Leaving,
                      NoEntryOutlivesHandler, GoneWhenUnlocking
  <2> QED BY <2>1, <2>3, <2>7, <2>8
<1>2. ASSUME NEW h \in Handler, NEW c \in Calls, CallCounter(h, c)
      PROVE  HandlerInv' /\ Next
  <2>1. PICK u \in Unit : u = m_tid[h] /\ u \in Served
    BY <1>0, <1>2 DEF CallCounter, Owning, Live, Served
  <2>2. /\ c.op \in {"add", "sub", "read"} /\ Call(u, c)
        /\ active' = IF IsUpdate(c) THEN active \cup {u} ELSE active
        /\ UNCHANGED handlers
    BY <1>2, <2>1 DEF CallCounter
  <2>3. /\ pc[u] = "idle" /\ call'[u] = c /\ registered' = registered
        /\ pc'[u] = IF IsUpdate(c) THEN "lookup" ELSE "lock"
        /\ \A v \in Unit \ {u} : pc'[v] = pc[v] /\ call'[v] = call[v]
    BY <2>2, CallMoves
  <2>4. UNCHANGED <<m_parent, m_tid>> /\ Owning' = Owning /\ Served' = Served
    BY <2>2 DEF handlers, Owning, Live, Served
  <2>5. HandlerTypes' /\ HandlersApart'
    BY <2>2, <2>4 DEF HandlersApart
  <2>6. CalledThroughHandlers'
    BY <2>1, <2>2, <2>3, <2>4 DEF CalledThroughHandlers, Idle, Leaving
  <2>7. NoEntryOutlivesHandler' /\ GoneWhenUnlocking'
    <3>1. registered \subseteq Unit
      BY DEF IInv, TypeOK
    <3>2. ~Leaving(u)'
      BY <2>2, <2>3 DEF Leaving
    <3>3. \A v \in Unit \ {u} : /\ Leaving(v)' <=> Leaving(v)
                                /\ pc'[v] = pc[v]
      BY <2>3 DEF Leaving, Idle
    <3> QED BY <2>1, <2>3, <2>4, <3>1, <3>2, <3>3
            DEF NoEntryOutlivesHandler, GoneWhenUnlocking
  <2>8. EntryOfActive'
    <3>1. ASSUME NEW v \in active' \cap Served'
          PROVE  v \in registered' \/ pc'[v] = "lookup"
      <4>1. v \in Unit /\ v \in Served
        BY <2>4, <2>5, <3>1
      <4>2. CASE v = u
        BY <2>1, <2>2, <2>3, <3>1, <4>1, <4>2 DEF EntryOfActive
      <4>3. CASE v # u
        BY <2>2, <2>3, <3>1, <4>1, <4>3 DEF EntryOfActive
      <4> QED BY <4>2, <4>3
    <3> QED BY <3>1 DEF EntryOfActive
  <2>9. Next
    BY <1>2, <2>2 DEF Next
  <2> QED BY <2>5, <2>6, <2>7, <2>8, <2>9
<1>3. ASSUME NEW h \in Handler, NEW from \in Handler,
             MoveConstruct(h, from) \/ MoveAssign(h, from)
      PROVE  HandlerInv' /\ UNCHANGED vars
  <2>1. /\ from \in Live /\ ~m_parent[h]
        /\ m_parent' = [Emptied(m_parent, from) EXCEPT ![h] = m_parent[from]]
        /\ m_tid' = [m_tid EXCEPT ![h] = m_tid[from]]
        /\ UNCHANGED <<active, vars>>
    BY <1>3 DEF MoveConstruct, MoveAssign, Live
  <2> QED BY <2>1, HandlerMoved
<1>4. ASSUME NEW h \in Handler, Destroy(h)
      PROVE  HandlerInv' /\ (Next \/ UNCHANGED vars)
  <2>1. /\ h \in Live
        /\ m_parent' = [m_parent EXCEPT ![h] = FALSE]
        /\ m_tid' = [m_tid EXCEPT ![h] = None]
        /\ active' = active
    BY <1>4 DEF Destroy
  <2>2. /\ ~m_parent'[h] /\ m_tid'[h] = None
        /\ \A k \in Handler \ {h} : /\ m_parent'[k] <=> m_parent[k]
                                    /\ m_tid'[k] = m_tid[k]
    BY <2>1
  <2>3. HandlerTypes'
    BY <2>1, <2>2
  <2>4. Owning' = Owning \ {h}
    BY <2>2 DEF Owning, Live
  <2>5. \A k \in Owning' : m_tid'[k] = m_tid[k]
    BY <2>2, <2>4 DEF Owning, Live
  <2>6. HandlersApart'
    BY <2>4, <2>5 DEF HandlersApart
  <2>7. CASE ~m_parent[h]
    <3>1. UNCHANGED vars /\ UNCHANGED <<pc, call, registered>>
      BY <1>4, <2>7 DEF Destroy, vars, control, entries
    <3>2. Owning' = Owning
      BY <2>4, <2>7 DEF Owning
    <3>3. Served' = Served
      BY <2>5, <3>2 DEF Served
    <3> QED BY <2>1, <2>3, <2>6, <3>1, <3>3
            DEF CalledThroughHandlers, EntryOfActive, Idle, Leaving,
                NoEntryOutlivesHandler, GoneWhenUnlocking
  <2>8. CASE m_parent[h]
    <3>1. PICK u \in Unit : u = m_tid[h]
      BY <2>1 DEF Live
    <3>2. PICK c : c = [op |-> "unregister", arg |-> 0]
      OBVIOUS
    <3>3. Call(u, c) /\ c.op = "unregister" /\ ~IsUpdate(c) /\ c \in Calls
      BY <1>4, <2>8, <3>1, <3>2 DEF Destroy, IsUpdate, Calls
    <3>4. /\ pc[u] = "idle" /\ call'[u] = c /\ registered' = registered
          /\ pc'[u] = "lock"
          /\ \A v \in Unit \ {u} : pc'[v] = pc[v] /\ call'[v] = call[v]
      BY <3>3, CallMoves
    <3>5. h \in Owning
      BY <2>1, <2>8 DEF Owning
    <3>6. Served' = Served \ {u}
      BY <2>4, <2>5, <3>1, <3>5 DEF Served, HandlersApart
    <3>7. CalledThroughHandlers'
      BY <3>3, <3>4, <3>6 DEF CalledThroughHandlers, Idle, Leaving
    <3>8. NoEntryOutlivesHandler' /\ GoneWhenUnlocking'
      <4>1. registered \subseteq Unit
        BY DEF IInv, TypeOK
      <4>2. Leaving(u)' /\ pc'[u] # "unlock"
        BY <3>3, <3>4 DEF Leaving, Idle
      <4>3. \A v \in Unit \ {u} : Leaving(v)' <=> Leaving(v)
        BY <3>4 DEF Leaving, Idle
      <4> QED BY <3>4, <3>6, <4>1, <4>2, <4>3
              DEF NoEntryOutlivesHandler, GoneWhenUnlocking
    <3>9. EntryOfActive'
      BY <2>1, <3>4, <3>6 DEF EntryOfActive
    <3>10. Next
      BY <3>3 DEF Next
    <3> QED BY <2>3, <2>6, <3>7, <3>8, <3>9, <3>10
  <2> QED BY <2>7, <2>8
<1>5. ASSUME NEW u \in Unit, Counting(u)
      PROVE  HandlerInv' /\ Next
  <2>1. /\ UNCHANGED <<m_parent, m_tid>> /\ Step(u)
        /\ active' = IF AtBody(u, "reset") THEN {} ELSE active
    BY <1>5 DEF Counting, handlers
  <2>2. Served' = Served /\ HandlerTypes' /\ HandlersApart'
    BY <2>1 DEF Owning, Live, Served, HandlersApart
  <2>3. /\ pc[u] # "idle"
        /\ pc'[u] = "idle" \/ (call'[u] = call[u] /\ pc'[u] # "lookup")
        /\ \A v \in Unit \ {u} : pc'[v] = pc[v] /\ call'[v] = call[v]
        /\ AtBody(u, "reset") => registered' = {}
        /\ ~AtBody(u, "reset") =>
               /\ \A v \in Unit \ {u} : v \in registered' <=> v \in registered
               /\ (/\ call[u].op # "unregister"
                   /\ u \in registered \/ pc[u] = "lookup")
                      => u \in registered'
        /\ call[u].op = "reset" => registered' \subseteq registered
        /\ call[u].op = "unregister" =>
               /\ pc[u] = "lock" => /\ pc'[u] = "body"
                                    /\ registered' = registered
               /\ pc[u] = "body" => pc'[u] = "unlock" /\ u \notin registered'
               /\ pc[u] = "unlock" => /\ pc'[u] = "idle"
                                      /\ registered' = registered
    BY <2>1, StepMoves
  <2>4. /\ call[u].op = "unregister" => u \notin Served
        /\ u \notin Served => call[u].op \in {"unregister", "reset"}
        /\ call[u].op = "unregister" => pc[u] \in {"lock", "body", "unlock"}
    BY <2>3 DEF CalledThroughHandlers, Idle, Leaving
  <2>5. CalledThroughHandlers'
    <3>1. ASSUME NEW v \in Unit, pc'[v] # "idle"
          PROVE  /\ call'[v].op = "unregister" => v \notin Served
                 /\ v \notin Served => call'[v].op \in {"unregister", "reset"}
                 /\ call'[v].op = "unregister" =>
                        pc'[v] \in {"lock", "body", "unlock"}
      <4>1. CASE v = u
        BY <2>3, <2>4, <3>1, <4>1
      <4>2. CASE v # u
        BY <2>3, <3>1, <4>2 DEF CalledThroughHandlers, Idle, Leaving
      <4> QED BY <4>1, <4>2
    <3> QED BY <2>2, <3>1 DEF CalledThroughHandlers, Idle, Leaving
  <2>6. GoneWhenUnlocking' /\ NoEntryOutlivesHandler'
    <3>1. registered' \subseteq Unit
      BY <2>1, StepKeepsType
    <3>2. ASSUME NEW v \in registered'
          PROVE  /\ Leaving(v)' => pc'[v] # "unlock"
                 /\ v \in Served \/ Leaving(v)'
      <4>1. CASE v = u /\ u \in Served
        BY <2>3, <2>4, <4>1 DEF Leaving, Idle
      <4>2. CASE v = u /\ call[u].op = "unregister"
        BY <2>3, <2>4, <3>2, <4>2 DEF Leaving, Idle, GoneWhenUnlocking
      <4>3. CASE v = u /\ u \notin Served /\ call[u].op = "reset"
        BY <2>3, <3>2, <4>3 DEF Leaving, NoEntryOutlivesHandler
      <4>4. CASE v # u
        <5>1. v \in registered /\ pc'[v] = pc[v] /\ call'[v] = call[v]
          BY <2>3, <3>1, <3>2, <4>4
        <5> QED BY <5>1 DEF Leaving, Idle, GoneWhenUnlocking,
                            NoEntryOutlivesHandler
      <4> QED BY <2>4, <4>1, <4>2, <4>3, <4>4
    <3> QED BY <2>2, <3>2 DEF GoneWhenUnlocking, NoEntryOutlivesHandler
  <2>7. EntryOfActive'
    <3>1. ASSUME NEW v \in active' \cap Served
          PROVE  v \in registered' \/ pc'[v] = "lookup"
      <4>1. v \in active /\ v \in Unit /\ ~AtBody(u, "reset")
        BY <2>1, <3>1
      <4>2. CASE v = u
        BY <2>3, <2>4, <3>1, <4>1, <4>2 DEF EntryOfActive
      <4>3. CASE v # u
        BY <2>3, <3>1, <4>1, <4>3 DEF EntryOfActive
      <4> QED BY <4>2, <4>3
    <3> QED BY <2>2, <3>1 DEF EntryOfActive
  <2> QED BY <2>1, <2>2, <2>5, <2>6, <2>7 DEF Next
<1>6. ASSUME NEW u \in Unit, NEW c \in Calls, ResetCounter(u, c)
      PROVE  HandlerInv' /\ Next
  <2>1. /\ c.op = "reset" /\ Call(u, c) /\ ~IsUpdate(c)
        /\ UNCHANGED <<m_parent, m_tid, active>>
    BY <1>6 DEF ResetCounter, IsUpdate, handlers
  <2>2. /\ pc[u] = "idle" /\ call'[u] = c /\ registered' = registered
        /\ pc'[u] = "lock"
        /\ \A v \in Unit \ {u} : pc'[v] = pc[v] /\ call'[v] = call[v]
    BY <2>1, CallMoves
  <2>3. Owning' = Owning /\ Served' = Served
    BY <2>1 DEF Owning, Live, Served
  <2>4. HandlerTypes' /\ HandlersApart'
    BY <2>1, <2>3 DEF HandlersApart
  <2>5. CalledThroughHandlers'
    BY <2>1, <2>2, <2>3 DEF CalledThroughHandlers, Idle, Leaving
  <2>6. NoEntryOutlivesHandler' /\ GoneWhenUnlocking'
    <3>1. registered \subseteq Unit
      BY DEF IInv, TypeOK
    <3>2. ~Leaving(u)' /\ ~Leaving(u)
      BY <2>1, <2>2 DEF Leaving, Idle
    <3>3. \A v \in Unit \ {u} : (Leaving(v)' <=> Leaving(v)) /\ pc'[v] = pc[v]
      BY <2>2 DEF Leaving, Idle
    <3> QED BY <2>2, <2>3, <3>1, <3>2, <3>3
            DEF NoEntryOutlivesHandler, GoneWhenUnlocking
  <2>7. EntryOfActive'
    BY <2>1, <2>2, <2>3 DEF EntryOfActive
  <2>8. Next
    BY <2>1 DEF Next
  <2> QED BY <2>4, <2>5, <2>6, <2>7, <2>8
<1>7. CASE UNCHANGED handlerVars
  <2>1. UNCHANGED <<m_parent, m_tid, active, pc, call, registered>>
    BY <1>7 DEF handlerVars, handlers, vars, control, entries
  <2>2. Owning' = Owning /\ Served' = Served
    BY <2>1 DEF Owning, Live, Served
  <2> QED BY <1>7, <2>1, <2>2
          DEF handlerVars, HandlersApart, CalledThroughHandlers, EntryOfActive,
              Idle, Leaving, NoEntryOutlivesHandler, GoneWhenUnlocking
<1> QED
  BY <1>1, <1>2, <1>3, <1>4, <1>5, <1>6, <1>7 DEF HandlerNext

LEMMA HandlerInitInv == HandlerInit => HandlerInv /\ Init
BY DEF HandlerInit, HandlerInv, HandlerTypes, HandlersApart, Owning, Live, Init,
       CalledThroughHandlers, Idle, EntryOfActive, NoEntryOutlivesHandler,
       GoneWhenUnlocking

LEMMA HandlerInvSafe ==
    ASSUME IInv, HandlerInv
    PROVE  EntryIffHandler
<1> USE DEF HandlerInv, IInv
<1>1. HandlersTypeOK
  BY DEF HandlersTypeOK, HandlerTypes, Live
<1>2. EntryLastsAsHandler
  BY DEF EntryLastsAsHandler, EntryOfActive, Idle
<1>3. ASSUME Served = {}, \A u \in Unit : Idle(u)
      PROVE  m_global_counter_reserve = 0 /\ Value = m_global_counter
  <2>1. registered = {}
    BY <1>3 DEF NoEntryOutlivesHandler, Leaving, TypeOK
  <2>2. /\ counter_max = [u \in Unit |-> 0] /\ counter = [u \in Unit |-> 0]
        /\ m_global_counter \in Nat
    BY <2>1, CounterAssumption DEF EntriesInv, TypeOK, Counter
  <2>3. Total(counter_max) = 0 /\ Total(counter) = 0
    BY <2>2, TotalZero
  <2> QED BY <2>2, <2>3 DEF ReserveAccounted, Value
<1>4. NothingReservedAfterwards
  BY <1>3 DEF NothingReservedAfterwards
<1> QED BY <1>1, <1>2, <1>4 DEF EntryIffHandler

LEMMA AlwaysHandlerInv ==
    ASSUME SerialMembership, HandlerAssumption, "vacant" \in Discipline
    PROVE  HandlerSpec => [](IInv /\ HandlerInv) /\ [][Next]_vars
<1>1. HandlerInit => IInv /\ HandlerInv
  BY HandlerInitInv, InitIInv
<1>2. ASSUME IInv, HandlerInv, [HandlerNext]_handlerVars
      PROVE  IInv' /\ HandlerInv' /\ [Next]_vars
  BY <1>2, HandlerSteps, StepKeepsIInv
<1>3. IInv /\ HandlerInv /\ [HandlerNext]_handlerVars
          => IInv' /\ HandlerInv' /\ [Next]_vars
  BY <1>2
<1> QED BY <1>1, <1>3, PTL DEF HandlerSpec

\* specific_counter_handler: for any number of units and handlers, and through
\* whatever moves, a unit's entry, and its share of the limit, last as long as
\* its handler and never longer, unless reset() takes all entries away; when
\* all handlers are gone nothing is reserved for anybody.
THEOREM EntryAlwaysIffHandler ==
    ASSUME SerialMembership, HandlerAssumption, "vacant" \in Discipline
    PROVE  HandlerSpec => []EntryIffHandler
<1>1. IInv /\ HandlerInv => EntryIffHandler
  BY HandlerInvSafe
<1> QED BY <1>1, AlwaysHandlerInv, PTL

\* The handlers, and resets beside them, use the counter as its callers may:
\* whatever was shown of the counter holds of one used through handlers.
THEOREM HandlersCallCounter ==
    ASSUME SerialMembership, HandlerAssumption, "vacant" \in Discipline
    PROVE  HandlerSpec => Spec /\ ImplementsLimitCounter
<1>1. HandlerInit => Init
  BY HandlerInitInv
<1>2. HandlerSpec => Spec
  BY <1>1, AlwaysHandlerInv, PTL DEF HandlerSpec, Spec
<1> QED BY <1>2, CounterImplementsLimitCounter, PTL
=============================================================================
