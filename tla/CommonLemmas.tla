---------------------------- MODULE CommonLemmas ----------------------------
(* Lemmas about finite sets, numbers up to n, folds over sequences and the  *)
(* digits of numbers that several components' proofs rest on.               *)
EXTENDS Integers, FiniteSets, Powers, FiniteSetTheorems, WellFoundedInduction,
        TLAPS

-----------------------------------------------------------------------------
(* Finite sets that gain, lose or exchange an element.                      *)

LEMMA OneMore ==
    ASSUME NEW S, IsFiniteSet(S), NEW g, g \notin S
    PROVE  /\ Cardinality(S) \in Nat
           /\ Cardinality(S \cup {g}) = Cardinality(S) + 1
BY FS_AddElement, FS_CardinalityType

LEMMA OneLess ==
    ASSUME NEW S, IsFiniteSet(S), NEW g \in S
    PROVE  /\ Cardinality(S) \in Nat /\ Cardinality(S) >= 1
           /\ Cardinality(S \ {g}) = Cardinality(S) - 1
<1>1. IsFiniteSet(S \ {g}) /\ Cardinality(S \ {g}) = Cardinality(S) - 1
  BY FS_RemoveElement
<1>2. Cardinality(S) \in Nat /\ Cardinality(S \ {g}) \in Nat
  BY <1>1, FS_CardinalityType
<1> QED BY <1>1, <1>2

LEMMA OneExchanged ==
    ASSUME NEW S, IsFiniteSet(S), NEW g \in S, NEW h, h \notin S
    PROVE  Cardinality((S \ {g}) \cup {h}) = Cardinality(S)
<1>1. IsFiniteSet(S \ {g})
  BY FS_RemoveElement
<1>2. /\ Cardinality(S \ {g}) \in Nat
      /\ Cardinality((S \ {g}) \cup {h}) = Cardinality(S \ {g}) + 1
  BY <1>1, OneMore
<1> QED BY <1>2, OneLess

-----------------------------------------------------------------------------
(* Finite sets of integers.                                                 *)

LEMMA HasGreatest ==
    ASSUME NEW T, IsFiniteSet(T), T \subseteq Int, T # {}
    PROVE  \E i \in T : \A j \in T : j <= i
<1> DEFINE Beyond(i) == {j \in T : j > i}
           F == {Beyond(i) : i \in T}
<1>1. F \subseteq FiniteSubsetsOf(T) /\ F # {}
  <2>1. \A i \in T : Beyond(i) \subseteq T /\ IsFiniteSet(Beyond(i))
    BY FS_Subset
  <2> QED BY <2>1 DEF FiniteSubsetsOf
<1>2. PICK B \in F : \A C \in F : <<C, B>> \notin StrictSubsetOrdering(T)
  BY <1>1, FS_StrictSubsetOrderingWellFounded, WFMin
<1>3. PICK i \in T : B = Beyond(i)
  BY <1>2
<1>4. ASSUME NEW j \in T, j > i
      PROVE  FALSE
  <2>1. Beyond(j) \subseteq Beyond(i) /\ Beyond(j) # Beyond(i)
    <3>1. j \in Beyond(i) /\ j \notin Beyond(j)
      BY <1>4
    <3>2. \A k \in T : k \in Int
      OBVIOUS
    <3>3. \A k \in Beyond(j) : k \in Beyond(i)
      BY <1>4, <3>2
    <3> QED BY <3>1, <3>3
  <2>2. <<Beyond(j), Beyond(i)>> \in StrictSubsetOrdering(T)
    BY <2>1 DEF StrictSubsetOrdering
  <2>3. Beyond(j) \in F
    OBVIOUS
  <2> QED BY <1>2, <1>3, <2>2, <2>3
<1> QED BY <1>3, <1>4

LEMMA HasLeast ==
    ASSUME NEW T, IsFiniteSet(T), T \subseteq Int, T # {}
    PROVE  \E i \in T : \A j \in T : j >= i
<1> DEFINE Below(i) == {j \in T : j < i}
           F == {Below(i) : i \in T}
<1>1. F \subseteq FiniteSubsetsOf(T) /\ F # {}
  <2>1. \A i \in T : Below(i) \subseteq T /\ IsFiniteSet(Below(i))
    BY FS_Subset
  <2> QED BY <2>1 DEF FiniteSubsetsOf
<1>2. PICK B \in F : \A C \in F : <<C, B>> \notin StrictSubsetOrdering(T)
  BY <1>1, FS_StrictSubsetOrderingWellFounded, WFMin
<1>3. PICK i \in T : B = Below(i)
  BY <1>2
<1>4. ASSUME NEW j \in T, j < i
      PROVE  FALSE
  <2>1. Below(j) \subseteq Below(i) /\ Below(j) # Below(i)
    <3>1. j \in Below(i) /\ j \notin Below(j)
      BY <1>4
    <3>2. \A k \in T : k \in Int
      OBVIOUS
    <3>3. \A k \in Below(j) : k \in Below(i)
      BY <1>4, <3>2
    <3> QED BY <3>1, <3>3
  <2>2. <<Below(j), Below(i)>> \in StrictSubsetOrdering(T)
    BY <2>1 DEF StrictSubsetOrdering
  <2>3. Below(j) \in F
    OBVIOUS
  <2> QED BY <1>2, <1>3, <2>2, <2>3
<1> QED BY <1>3, <1>4

\* Numbers up to n of which each brings the next.
LEMMA AllUpTo ==
    ASSUME NEW n \in Nat, NEW S, 0 \in S, \A i \in 1 .. n : i - 1 \in S => i \in S
    PROVE  \A i \in 0 .. n : i \in S
<1> DEFINE T == {i \in 0 .. n : i \notin S}
<1> SUFFICES ASSUME T # {} PROVE FALSE
  OBVIOUS
<1>1. IsFiniteSet(T) /\ T \subseteq Int
  <2>1. IsFiniteSet(0 .. n) /\ T \subseteq 0 .. n /\ 0 .. n \subseteq Int
    BY FS_Interval
  <2> QED BY <2>1, FS_Subset
<1>2. PICK i \in T : \A j \in T : j >= i
  BY <1>1, HasLeast
<1>3. i \in 1 .. n /\ i \notin S /\ i - 1 \in 0 .. n /\ ~(i - 1 >= i)
  OBVIOUS
<1> QED BY <1>2, <1>3

-----------------------------------------------------------------------------
(* What a fold over a sequence computes, step by step.                      *)

Greatest(s) == CHOOSE x \in s : \A y \in s : x >= y

LEMMA GreatestOfSome ==
    ASSUME NEW n \in Nat, NEW s \in SUBSET (1 .. n), s # {}
    PROVE  /\ Greatest(s) \in s /\ Greatest(s) \in 1 .. n
           /\ \A y \in s : y <= Greatest(s)
<1>1. IsFiniteSet(s) /\ s \subseteq Int
  <2>1. IsFiniteSet(1 .. n) /\ s \subseteq 1 .. n /\ 1 .. n \subseteq Int
    BY FS_Interval
  <2>2. IsFiniteSet(s)
    BY <2>1, FS_Subset
  <2> QED BY <2>1, <2>2
<1>2. PICK x \in s : \A y \in s : y <= x
  BY <1>1, HasGreatest
<1>3. \A y \in s : x >= y
  BY <1>1, <1>2
<1> QED BY <1>1, <1>3 DEF Greatest

\* Folding the functions H[1], ..., H[n] over sets of their numbers.
Folding(it, n, H, base) ==
    it = [s \in SUBSET (1 .. n) |->
             IF s = {} THEN base
             ELSE H[Greatest(s)][it[s \ {Greatest(s)}]]]

LEMMA FoldsExist ==
    ASSUME NEW n \in Nat, NEW X, NEW base \in X, NEW H \in [1 .. n -> [X -> X]]
    PROVE  \E it \in [SUBSET (1 .. n) -> X] : Folding(it, n, H, base)
<1> DEFINE Reached(k) == \E it \in [SUBSET (1 .. k) -> X] : Folding(it, k, H, base)
           T == {k \in 0 .. n : ~Reached(k)}
<1>1. IsFiniteSet(T) /\ T \subseteq Int
  <2>1. IsFiniteSet(0 .. n) /\ T \subseteq 0 .. n /\ 0 .. n \subseteq Int
    BY FS_Interval
  <2> QED BY <2>1, FS_Subset
<1>2. \A k \in 0 .. n : k \in T <=> ~Reached(k)
  OBVIOUS
<1>3. Reached(0)
  <2>1. SUBSET (1 .. 0) = {{}}
    OBVIOUS
  <2> DEFINE it == [s \in SUBSET (1 .. 0) |-> base]
  <2>2. it \in [SUBSET (1 .. 0) -> X]
    OBVIOUS
  <2>3. Folding(it, 0, H, base)
    BY <2>1 DEF Folding
  <2> QED BY <2>2, <2>3
<1>4. ASSUME NEW k \in 1 .. n, Reached(k - 1)
      PROVE  Reached(k)
  <2>1. k \in Nat /\ k - 1 \in Nat /\ k \in 1 .. k /\ k \notin 1 .. k - 1
        /\ 1 .. k - 1 = (1 .. k) \ {k}
    OBVIOUS
  <2>2. PICK f \in [SUBSET (1 .. k - 1) -> X] : Folding(f, k - 1, H, base)
    BY <1>4
  <2> DEFINE it == [s \in SUBSET (1 .. k) |->
                       IF k \in s THEN H[k][f[s \ {k}]] ELSE f[s]]
  <2>3. \A s \in SUBSET (1 .. k) : /\ s \ {k} \in SUBSET (1 .. k - 1)
                                   /\ k \notin s => s \in SUBSET (1 .. k - 1)
    BY <2>1
  <2>4. it \in [SUBSET (1 .. k) -> X]
    <3>1. \A s \in SUBSET (1 .. k) : H[k][f[s \ {k}]] \in X
      BY <2>3
    <3> QED BY <2>3, <3>1
  <2>5. ASSUME NEW s \in SUBSET (1 .. k)
        PROVE  it[s] = IF s = {} THEN base
                       ELSE H[Greatest(s)][it[s \ {Greatest(s)}]]
    <3>1. CASE s = {}
      <4>1. it[s] = f[s] /\ s \in SUBSET (1 .. k - 1)
        BY <3>1
      <4>2. f[s] = base
        BY <2>2, <3>1, <4>1 DEF Folding
      <4> QED BY <3>1, <4>1, <4>2
    <3>2. CASE s # {} /\ k \in s
      <4>1. Greatest(s) = k
        <5>1. Greatest(s) \in 1 .. k /\ k <= Greatest(s)
          BY <2>1, <3>2, GreatestOfSome
        <5> QED BY <2>1, <5>1
      <4>2. it[s \ {k}] = f[s \ {k}]
        BY <2>3
      <4> QED BY <3>2, <4>1, <4>2
    <3>3. CASE s # {} /\ k \notin s
      <4>1. s \in SUBSET (1 .. k - 1)
        BY <2>3, <3>3
      <4>2. f[s] = H[Greatest(s)][f[s \ {Greatest(s)}]]
        BY <2>2, <3>3, <4>1 DEF Folding
      <4>3. it[s \ {Greatest(s)}] = f[s \ {Greatest(s)}] /\ it[s] = f[s]
        BY <3>3
      <4> QED BY <3>3, <4>2, <4>3
    <3> QED BY <3>1, <3>2, <3>3
  <2> HIDE DEF it
  <2>6. Folding(it, k, H, base)
    <3>1. it = [s \in SUBSET (1 .. k) |-> it[s]]
      BY <2>4
    <3> QED BY <2>5, <3>1 DEF Folding
  <2> QED BY <2>4, <2>6
<1>5. T = {}
  <2> SUFFICES ASSUME T # {} PROVE FALSE
    OBVIOUS
  <2> HIDE DEF Reached, T
  <2>1. PICK k \in T : \A j \in T : j >= k
    BY <1>1, HasLeast
  <2>2. k \in 1 .. n /\ k - 1 \in 0 .. n /\ k - 1 \notin T
    <3>1. k \in 0 .. n /\ k # 0
      BY <1>2, <1>3 DEF T
    <3>2. ~(k - 1 >= k)
      BY <3>1
    <3> QED BY <2>1, <3>1, <3>2
  <2> QED BY <1>2, <1>4, <2>1, <2>2
<1> HIDE DEF Reached, T
<1>6. Reached(n)
  BY <1>2, <1>5
<1> QED BY <1>6 DEF Reached

\* Such a fold goes through the numbers from the first to the last.
LEMMA UpToLast ==
    ASSUME NEW n \in Nat, NEW i \in 1 .. n
    PROVE  /\ 1 .. i \in SUBSET (1 .. n) /\ 1 .. i # {}
           /\ Greatest(1 .. i) = i
           /\ (1 .. i) \ {i} = 1 .. i - 1
<1>1. 1 .. i \in SUBSET (1 .. n) /\ i \in 1 .. i /\ (1 .. i) \ {i} = 1 .. i - 1
  OBVIOUS
<1>2. Greatest(1 .. i) \in 1 .. i /\ i <= Greatest(1 .. i)
  BY <1>1, GreatestOfSome
<1> QED BY <1>1, <1>2

-----------------------------------------------------------------------------
(* Functions of the numbers up to n that are defined by recursion.          *)

\* G gives the value at i of a function from what that has below i.
Causal(G, n, X) ==
    /\ G \in [0 .. n -> [[0 .. n -> X] -> X]]
    /\ \A i \in 0 .. n : \A f, g \in [0 .. n -> X] :
           (\A j \in 0 .. i - 1 : f[j] = g[j]) => G[i][f] = G[i][g]

Recursive(f, G, n) == \A i \in 0 .. n : f[i] = G[i][f]

LEMMA RecursionExists ==
    ASSUME NEW n \in Nat, NEW X, X # {}, NEW G, Causal(G, n, X)
    PROVE  \E f \in [0 .. n -> X] : Recursive(f, G, n)
<1> DEFINE Right(f, k) == \A i \in 0 .. k : f[i] = G[i][f]
           S == {k \in 0 .. n : \E f \in [0 .. n -> X] : Right(f, k)}
<1>1. ASSUME NEW k \in 0 .. n, NEW f \in [0 .. n -> X],
             \A i \in 0 .. k - 1 : f[i] = G[i][f]
      PROVE  k \in S
  <2> DEFINE h == [f EXCEPT ![k] = G[k][f]]
  <2>1. G[k][f] \in X
    BY DEF Causal
  <2>2. h \in [0 .. n -> X] /\ h[k] = G[k][f]
        /\ \A i \in 0 .. n : i # k => h[i] = f[i]
    BY <2>1
  <2> HIDE DEF h
  <2>3. ASSUME NEW i \in 0 .. k PROVE G[i][h] = G[i][f]
    <3>1. \A j \in 0 .. i - 1 : h[j] = f[j]
      BY <2>2
    <3>2. i \in 0 .. n
      OBVIOUS
    <3> QED BY <2>2, <3>1, <3>2 DEF Causal
  <2>4. Right(h, k)
    BY <1>1, <2>2, <2>3
  <2> QED BY <2>2, <2>4
<1>2. 0 \in S
  <2>1. PICK x \in X : TRUE
    OBVIOUS
  <2>2. PICK f \in [0 .. n -> X] : f = [i \in 0 .. n |-> x]
    BY <2>1
  <2>3. 0 \in 0 .. n /\ \A i \in 0 .. 0 - 1 : f[i] = G[i][f]
    OBVIOUS
  <2> HIDE DEF S
  <2> QED BY <1>1, <2>2, <2>3
<1>3. ASSUME NEW k \in 1 .. n, k - 1 \in S PROVE k \in S
  <2>1. PICK f \in [0 .. n -> X] : Right(f, k - 1)
    BY <1>3
  <2> HIDE DEF S
  <2> QED BY <1>1, <2>1
<1>4. n \in S
  <2>1. n \in 0 .. n
    OBVIOUS
  <2> HIDE DEF S
  <2> QED BY <1>2, <1>3, <2>1, AllUpTo
<1> QED BY <1>4 DEF Recursive

-----------------------------------------------------------------------------
(* Powers.                                                                  *)

\* p is the powers of b up to n.
PowersUpTo(p, b, n) == p[0] = 1 /\ \A i \in 1 .. n : p[i] = b * p[i - 1]

LEMMA PowersExist ==
    ASSUME NEW b \in Nat, NEW n \in Nat
    PROVE  \E p \in [0 .. n -> Nat] : PowersUpTo(p, b, n)
<1> DEFINE G == [i \in 0 .. n |-> [f \in [0 .. n -> Nat] |->
                    IF i = 0 THEN 1 ELSE b * f[i - 1]]]
<1>1. Causal(G, n, Nat)
  BY DEF Causal
<1> HIDE DEF G
<1>2. PICK p \in [0 .. n -> Nat] : Recursive(p, G, n)
  <2>1. Nat # {}
    OBVIOUS
  <2> QED BY <1>1, <2>1, RecursionExists
<1>3. \A i \in 0 .. n : p[i] = IF i = 0 THEN 1 ELSE b * p[i - 1]
  BY <1>2 DEF G, Recursive
<1>4. PowersUpTo(p, b, n)
  BY <1>3 DEF PowersUpTo
<1> QED BY <1>4

LEMMA PowersUnique ==
    ASSUME NEW b \in Nat, NEW n \in Nat, NEW p, NEW q,
           PowersUpTo(p, b, n), PowersUpTo(q, b, n)
    PROVE  p[n] = q[n]
<1> DEFINE S == {i \in 0 .. n : p[i] = q[i]}
<1>1. 0 \in S
  BY DEF PowersUpTo
<1>2. ASSUME NEW i \in 1 .. n, i - 1 \in S PROVE i \in S
  BY <1>2 DEF PowersUpTo
<1>3. n \in S
  <2>1. n \in 0 .. n
    OBVIOUS
  <2> HIDE DEF S
  <2> QED BY <1>1, <1>2, <2>1, AllUpTo
<1> QED BY <1>3

LEMMA PowerSteps ==
    ASSUME NEW b \in Nat
    PROVE  /\ Power(b)[0] = 1
           /\ \A n \in Nat : /\ Power(b)[n] \in Nat
                             /\ Power(b)[n + 1] = b * Power(b)[n]
<1> DEFINE Step(p) == p = [n \in Nat |-> IF n = 0 THEN 1 ELSE b * p[n - 1]]
           upTo(n) == CHOOSE p \in [0 .. n -> Nat] : PowersUpTo(p, b, n)
           q == [n \in Nat |-> upTo(n)[n]]
<1>1. ASSUME NEW n \in Nat
      PROVE  upTo(n) \in [0 .. n -> Nat] /\ PowersUpTo(upTo(n), b, n)
  BY PowersExist
<1> HIDE DEF upTo
<1>2. ASSUME NEW n \in Nat, n # 0 PROVE q[n] = b * q[n - 1]
  <2>1. PICK m \in Nat : m = n - 1
    BY <1>2
  <2>2. PowersUpTo(upTo(n), b, m)
    BY <1>1, <2>1 DEF PowersUpTo
  <2>3. upTo(n)[m] = upTo(m)[m]
    BY <1>1, <2>2, PowersUnique
  <2>4. upTo(n)[n] = b * upTo(n)[m]
    BY <1>1, <1>2, <2>1 DEF PowersUpTo
  <2> QED BY <2>1, <2>3, <2>4
<1>3. q[0] = 1
  BY <1>1 DEF PowersUpTo
<1>4. Step(q)
  BY <1>2, <1>3
<1> HIDE DEF q
<1>5. Step(Power(b))
  <2>1. Power(b) = CHOOSE p : Step(p)
    BY DEF Power
  <2> HIDE DEF Step
  <2> QED BY <1>4, <2>1
<1>6. Power(b)[0] = 1 /\ \A n \in Nat : n # 0 => Power(b)[n] = b * Power(b)[n - 1]
  BY <1>5
<1>7. \A n \in Nat : Power(b)[n + 1] = b * Power(b)[n]
  <2> SUFFICES ASSUME NEW n \in Nat PROVE Power(b)[n + 1] = b * Power(b)[n]
    OBVIOUS
  <2>1. PICK m \in Nat : m = n + 1 /\ m # 0 /\ m - 1 = n
    OBVIOUS
  <2> QED BY <1>6, <2>1
<1>8. ASSUME NEW n \in Nat PROVE Power(b)[n] \in Nat
  <2> DEFINE S == {i \in 0 .. n : Power(b)[i] \in Nat}
  <2>1. 0 \in S
    BY <1>6
  <2>2. ASSUME NEW i \in 1 .. n, i - 1 \in S PROVE i \in S
    <3>1. i \in Nat /\ i # 0 /\ i \in 0 .. n
      OBVIOUS
    <3>2. Power(b)[i] = b * Power(b)[i - 1] /\ Power(b)[i - 1] \in Nat
      BY <1>6, <2>2, <3>1
    <3> QED BY <3>1, <3>2
  <2>3. n \in S
    <3>1. n \in 0 .. n
      OBVIOUS
    <3> HIDE DEF S
    <3> QED BY <2>1, <2>2, <3>1, AllUpTo
  <2> QED BY <2>3
<1> QED BY <1>6, <1>7, <1>8

-----------------------------------------------------------------------------
(* Digits of integers, in any base, with those of negative ones taken from  *)
(* the division that rounds down.                                           *)

LEMMA DivisionIs ==
    ASSUME NEW a \in Int, NEW d \in Nat, d > 0, NEW q \in Int, NEW r \in 0 .. d - 1,
           a = d * q + r
    PROVE  a \div d = q /\ a % d = r
OBVIOUS

LEMMA Division ==
    ASSUME NEW a \in Int, NEW d \in Nat, d > 0
    PROVE  /\ a \div d \in Int /\ a % d \in 0 .. d - 1
           /\ a = d * (a \div d) + (a % d)
<1>1. PICK q \in Int : q = a \div d
  OBVIOUS
<1>2. d * q <= a /\ a < d * q + d
  BY <1>1
<1>3. PICK r \in Int : r = a - d * q
  OBVIOUS
<1>4. r \in 0 .. d - 1 /\ a = d * q + r
  BY <1>2, <1>3
<1>5. a % d = r
  BY <1>4, DivisionIs
<1>6. a = d * (a \div d) + (a % d)
  BY <1>1, <1>4, <1>5
<1>7. a \div d \in Int
  BY <1>1
<1>8. a % d \in 0 .. d - 1
  BY <1>4, <1>5
<1> QED BY <1>6, <1>7, <1>8

\* The next digit of v, when those below have the weights below p.
LEMMA NextDigit ==
    ASSUME NEW v \in Int, NEW b \in Nat, b > 0, NEW p \in Nat, p > 0
    PROVE  /\ v \div p = b * (v \div (b * p)) + ((v \div p) % b)
           /\ v % (b * p) = (v % p) + ((v \div p) % b) * p
           /\ b * p \in Nat /\ b * p > 0
<1>1. PICK q \in Int, r \in 0 .. p - 1 :
          v = p * q + r /\ q = v \div p /\ r = v % p
  BY Division
<1>2. PICK c \in Int, d \in 0 .. b - 1 :
          q = b * c + d /\ c = q \div b /\ d = q % b
  BY Division
<1>3. p * q = (b * p) * c + d * p
  <2>1. p * (b * c + d) = p * (b * c) + p * d
    BY <1>2
  <2>2. p * (b * c) = (b * p) * c
    BY <1>2
  <2>3. p * d = d * p
    BY <1>2
  <2> QED BY <1>2, <2>1, <2>2, <2>3
<1>4. d * p + r \in 0 .. (b * p) - 1
  <2>1. d * p \in Nat /\ b * p \in Nat
    BY <1>2
  <2>2. (d + 1) * p <= b * p
    BY <1>2
  <2>3. (d + 1) * p = d * p + p
    BY <1>2
  <2> QED BY <1>1, <2>1, <2>2, <2>3
<1>5. b * p \in Nat /\ b * p > 0
  OBVIOUS
<1>6. PICK w \in Nat : w = b * p /\ w > 0
  BY <1>5
<1>7. PICK x \in 0 .. w - 1 : x = d * p + r
  BY <1>4, <1>6
<1>8. v = w * c + x
  <2>1. p * q \in Int /\ w * c \in Int /\ d * p \in Int
    BY <1>1, <1>2, <1>6
  <2> QED BY <1>1, <1>3, <1>6, <1>7, <2>1
<1>9. v \div w = c /\ v % w = x
  BY <1>6, <1>7, <1>8, DivisionIs
<1>10. (v \div p) % b = d
  BY <1>1, <1>2
<1>11. v \div p = b * (v \div (b * p)) + ((v \div p) % b)
  BY <1>1, <1>2, <1>6, <1>9, <1>10
<1>12. v % (b * p) = (v % p) + ((v \div p) % b) * p
  <2>1. v % (b * p) = d * p + r
    BY <1>6, <1>7, <1>9
  <2>2. ((v \div p) % b) * p = d * p
    BY <1>10
  <2>3. d * p \in Int
    BY <1>2
  <2> QED BY <1>1, <2>1, <2>2, <2>3
<1> QED BY <1>5, <1>11, <1>12

\* Digit k of v in base b, the lowest is 1.
Digit(v, b, k) == (v \div Power(b)[k - 1]) % b

LEMMA PowerPositive ==
    ASSUME NEW b \in Nat, b > 0, NEW n \in Nat
    PROVE  Power(b)[n] \in Nat /\ Power(b)[n] > 0
<1> DEFINE S == {i \in 0 .. n : Power(b)[i] > 0}
<1>1. 0 \in S
  BY PowerSteps
<1>2. ASSUME NEW i \in 1 .. n, i - 1 \in S PROVE i \in S
  <2>1. PICK m \in Nat : m = i - 1 /\ m + 1 = i
    OBVIOUS
  <2>2. PICK p \in Nat : p = Power(b)[m] /\ p > 0
    BY <1>2, <2>1, PowerSteps
  <2>3. Power(b)[i] = b * p /\ b * p > 0
    BY <2>1, <2>2, PowerSteps
  <2> QED BY <2>3
<1>3. n \in S
  <2>1. n \in 0 .. n
    OBVIOUS
  <2> HIDE DEF S
  <2> QED BY <1>1, <1>2, <2>1, AllUpTo
<1> QED BY <1>3, PowerSteps

LEMMA DigitSplits ==
    ASSUME NEW v \in Int, NEW b \in Nat, b > 0, NEW k \in Nat, k > 0
    PROVE  /\ Digit(v, b, k) \in 0 .. b - 1
           /\ v \div Power(b)[k - 1] \in Int /\ v \div Power(b)[k] \in Int
           /\ v \div Power(b)[k - 1]
                  = b * (v \div Power(b)[k]) + Digit(v, b, k)
           /\ v % Power(b)[k]
                  = (v % Power(b)[k - 1]) + Digit(v, b, k) * Power(b)[k - 1]
<1>1. PICK m \in Nat : m = k - 1 /\ m + 1 = k
  OBVIOUS
<1>2. PICK p \in Nat : p = Power(b)[m] /\ p > 0
  BY PowerPositive
<1>3. Power(b)[k] = b * p
  BY <1>1, <1>2, PowerSteps
<1>4. b * p \in Nat /\ b * p > 0
  BY <1>2, NextDigit
<1>5. v \div p \in Int /\ v \div (b * p) \in Int
  BY <1>2, <1>4, Division
<1>6. (v \div p) % b \in 0 .. b - 1
  BY <1>5, Division
<1>7. v \div p = b * (v \div (b * p)) + ((v \div p) % b)
  BY <1>2, NextDigit
<1>8. v % (b * p) = (v % p) + ((v \div p) % b) * p
  BY <1>2, NextDigit
<1> QED BY <1>1, <1>2, <1>3, <1>5, <1>6, <1>7, <1>8 DEF Digit

\* s adds up the first digits in d.
Sums(s, d, b, n) ==
    s[0] = 0 /\ \A i \in 1 .. n : s[i] = s[i - 1] + d[i] * Power(b)[i - 1]

\* The digits of v add up to v, but for what needs more digits.
LEMMA DigitsSum ==
    ASSUME NEW v \in Int, NEW b \in Nat, b > 0, NEW n \in Nat, NEW s, NEW d,
           \A k \in 1 .. n : d[k] = Digit(v, b, k), Sums(s, d, b, n)
    PROVE  s[n] = v % Power(b)[n]
<1> DEFINE S == {i \in 0 .. n : s[i] = v % Power(b)[i]}
<1>1. 0 \in S
  <2>1. Power(b)[0] = 1 /\ v % 1 = 0 /\ 0 \in 0 .. n
    BY PowerSteps
  <2>2. s[0] = v % Power(b)[0]
    BY <2>1 DEF Sums
  <2> QED BY <2>1, <2>2
<1>2. ASSUME NEW i \in 1 .. n, i - 1 \in S PROVE i \in S
  <2>1. i \in Nat /\ i > 0 /\ i \in 0 .. n
    OBVIOUS
  <2>2. v % Power(b)[i]
            = (v % Power(b)[i - 1]) + Digit(v, b, i) * Power(b)[i - 1]
    BY <2>1, DigitSplits
  <2>3. s[i] = s[i - 1] + d[i] * Power(b)[i - 1]
    BY DEF Sums
  <2>4. s[i] = v % Power(b)[i]
    BY <1>2, <2>2, <2>3
  <2> QED BY <2>1, <2>4
<1>3. n \in S
  <2>1. n \in 0 .. n
    OBVIOUS
  <2> HIDE DEF S
  <2> QED BY <1>1, <1>2, <2>1, AllUpTo
<1> QED BY <1>3

\* What digits add up to needs no more of them.
LEMMA SumBelow ==
    ASSUME NEW b \in Nat, b > 0, NEW n \in Nat, NEW d \in [1 .. n -> 0 .. b - 1],
           NEW s, Sums(s, d, b, n), NEW i \in 0 .. n
    PROVE  s[i] \in Nat /\ s[i] < Power(b)[i]
<1> DEFINE S == {k \in 0 .. n : s[k] \in Nat /\ s[k] < Power(b)[k]}
<1>1. 0 \in S
  BY PowerSteps DEF Sums
<1>2. ASSUME NEW k \in 1 .. n, k - 1 \in S PROVE k \in S
  <2>1. PICK m \in Nat : m = k - 1 /\ m + 1 = k
    OBVIOUS
  <2>2. PICK p \in Nat : p = Power(b)[m] /\ p > 0
    BY PowerPositive
  <2>3. PICK x \in 0 .. b - 1 : x = d[k]
    OBVIOUS
  <2>4. PICK y \in Nat : y = s[m] /\ y < p
    BY <1>2, <2>1, <2>2
  <2>5. s[k] = y + x * p /\ Power(b)[k] = b * p
    <3>1. s[k] = s[k - 1] + d[k] * Power(b)[k - 1]
      BY DEF Sums
    <3>2. Power(b)[k] = b * Power(b)[m]
      BY <2>1, PowerSteps
    <3> QED BY <2>1, <2>2, <2>3, <2>4, <3>1, <3>2
  <2>6. x * p + p <= b * p
    <3>1. (x + 1) * p <= b * p
      BY <2>3
    <3>2. (x + 1) * p = x * p + p
      BY <2>3
    <3> QED BY <3>1, <3>2
  <2>7. x * p \in Nat /\ b * p \in Nat
    BY <2>3
  <2>8. y + x * p \in Nat /\ y + x * p < b * p
    <3>1. PICK u \in Nat, w \in Nat : u = x * p /\ w = b * p
      BY <2>7
    <3>2. u + p <= w
      BY <2>6, <3>1
    <3>3. y + u \in Nat /\ y + u < w
      BY <2>4, <3>2
    <3> QED BY <3>1, <3>3
  <2> QED BY <2>5, <2>8
<1>3. i \in S
  <2> HIDE DEF S
  <2> QED BY <1>1, <1>2, AllUpTo
<1> QED BY <1>3

\* They are the digits of what they add up to, whatever is above them.
LEMMA SumDigits ==
    ASSUME NEW b \in Nat, b > 0, NEW n \in Nat, NEW d \in [1 .. n -> 0 .. b - 1],
           NEW s, Sums(s, d, b, n), NEW m \in Int, NEW k \in 1 .. n,
           NEW v \in Int, v = s[n] + m * Power(b)[n]
    PROVE  Digit(v, b, k) = d[k]
<1> DEFINE S == {j \in 0 .. n : \E c \in Int :
                    v = s[n - j] + c * Power(b)[n - j]}
<1>1. 0 \in S
  OBVIOUS
<1>2. ASSUME NEW j \in 1 .. n, j - 1 \in S PROVE j \in S
  <2>1. PICK i \in Nat : i = n - j /\ i + 1 = n - (j - 1) /\ i + 1 \in 1 .. n
    OBVIOUS
  <2>2. PICK i1 \in 1 .. n : i1 = i + 1 /\ i1 = n - (j - 1) /\ i = i1 - 1
    BY <2>1
  <2>3. PICK c \in Int : v = s[i1] + c * Power(b)[i1]
    BY <1>2, <2>2
  <2>4. PICK p \in Nat : p = Power(b)[i]
    BY PowerSteps, <2>1
  <2>5. Power(b)[i1] = b * p
    BY <2>1, <2>2, <2>4, PowerSteps
  <2>6. PICK x \in 0 .. b - 1 : x = d[i1]
    BY <2>2
  <2>7. PICK y \in Nat : y = s[i]
    BY <2>1, SumBelow
  <2>8. s[i1] = y + x * p
    BY <2>2, <2>4, <2>6, <2>7 DEF Sums
  <2>9. PICK e \in Int : e = x + c * b
    BY <2>6
  <2>10. y + x * p + c * (b * p) = y + e * p
    <3>1. e * p = x * p + (c * b) * p
      BY <2>9
    <3>2. (c * b) * p = c * (b * p)
      OBVIOUS
    <3>3. x * p \in Int /\ c * (b * p) \in Int
      BY <2>6
    <3> QED BY <3>1, <3>2, <3>3
  <2>11. v = s[i] + e * Power(b)[i]
    BY <2>3, <2>4, <2>5, <2>7, <2>8, <2>10
  <2>12. \E cc \in Int : v = s[n - j] + cc * Power(b)[n - j]
    BY <2>1, <2>11
  <2> QED BY <2>12
<1>3. PICK j \in 0 .. n : n - j = k
  <2>1. n - (n - k) = k /\ n - k \in 0 .. n
    OBVIOUS
  <2> QED BY <2>1
<1>4. j \in S
  <2> HIDE DEF S
  <2> QED BY <1>1, <1>2, AllUpTo
<1>5. PICK c \in Int : v = s[k] + c * Power(b)[k]
  BY <1>3, <1>4
<1>6. PICK i \in Nat : i = k - 1 /\ i + 1 = k /\ i \in 0 .. n
  OBVIOUS
<1>7. PICK p \in Nat : p = Power(b)[i] /\ p > 0
  BY PowerPositive, <1>6
<1>8. PICK x \in 0 .. b - 1 : x = d[k]
  OBVIOUS
<1>9. PICK y \in 0 .. p - 1 : y = s[i]
  <2>1. s[i] \in Nat /\ s[i] < p
    BY <1>6, <1>7, SumBelow
  <2> QED BY <2>1
<1>10. s[k] = y + x * p /\ Power(b)[k] = b * p
  <2>1. s[k] = s[k - 1] + d[k] * Power(b)[k - 1]
    BY DEF Sums
  <2>2. Power(b)[k] = b * Power(b)[i]
    BY <1>6, PowerSteps
  <2> QED BY <1>6, <1>7, <1>8, <1>9, <2>1, <2>2
<1>11. PICK e \in Int : e = b * c + x
  OBVIOUS
<1>12. v = p * e + y
  <2>1. p * e = p * (b * c) + p * x
    BY <1>11
  <2>2. p * (b * c) = c * (b * p) /\ p * x = x * p
    OBVIOUS
  <2>3. p * (b * c) \in Int /\ p * x \in Int
    OBVIOUS
  <2>4. v = y + x * p + c * (b * p)
    BY <1>5, <1>10
  <2> QED BY <2>1, <2>2, <2>3, <2>4
<1>13. v \div p = e
  <2>1. p > 0 /\ y \in 0 .. p - 1
    BY <1>7
  <2> QED BY <1>12, <2>1, DivisionIs
<1>14. e % b = x
  BY <1>11, DivisionIs
<1> QED BY <1>6, <1>7, <1>8, <1>13, <1>14 DEF Digit

\* Integers with the same digits and nothing above are the same, and the
\* highest digit that differs tells which is less.
LEMMA SameAbove ==
    ASSUME NEW b \in Nat, b > 0, NEW n \in Nat, NEW v \in Int, NEW w \in Int,
           v \div Power(b)[n] = w \div Power(b)[n], NEW k \in 0 .. n,
           \A j \in k + 1 .. n : Digit(v, b, j) = Digit(w, b, j)
    PROVE  v \div Power(b)[k] = w \div Power(b)[k]
<1> DEFINE S == {j \in 0 .. n - k : v \div Power(b)[n - j] = w \div Power(b)[n - j]}
<1>1. 0 \in S
  OBVIOUS
<1>2. ASSUME NEW j \in 1 .. n - k, j - 1 \in S PROVE j \in S
  <2>1. PICK i \in k + 1 .. n : i = n - (j - 1) /\ i - 1 = n - j
    <3>1. n - (j - 1) \in k + 1 .. n /\ (n - (j - 1)) - 1 = n - j
      OBVIOUS
    <3> QED BY <3>1
  <2>2. i \in Nat /\ i > 0
    OBVIOUS
  <2>3. v \div Power(b)[i] = w \div Power(b)[i]
    BY <1>2, <2>1
  <2>4. v \div Power(b)[i - 1] = b * (v \div Power(b)[i]) + Digit(v, b, i)
    BY <2>2, DigitSplits
  <2>5. w \div Power(b)[i - 1] = b * (w \div Power(b)[i]) + Digit(w, b, i)
    BY <2>2, DigitSplits
  <2>6. Digit(v, b, i) = Digit(w, b, i)
    BY <2>1
  <2>7. v \div Power(b)[i - 1] = w \div Power(b)[i - 1]
    BY <2>3, <2>4, <2>5, <2>6
  <2>8. v \div Power(b)[n - j] = w \div Power(b)[n - j]
    BY <2>1, <2>7
  <2> QED BY <2>8
<1>3. n - k \in S
  <2>1. n - k \in Nat /\ n - k \in 0 .. n - k
    OBVIOUS
  <2> HIDE DEF S
  <2> QED BY <1>1, <1>2, <2>1, AllUpTo
<1>4. n - (n - k) = k
  OBVIOUS
<1> QED BY <1>3, <1>4

LEMMA LessByDigit ==
    ASSUME NEW b \in Nat, b > 0, NEW n \in Nat, NEW v \in Int, NEW w \in Int,
           v \div Power(b)[n] = w \div Power(b)[n], NEW k \in 1 .. n,
           \A j \in k + 1 .. n : Digit(v, b, j) = Digit(w, b, j),
           Digit(v, b, k) < Digit(w, b, k)
    PROVE  v < w
<1>1. k \in Nat /\ k > 0 /\ k \in 0 .. n /\ k - 1 \in Nat
  OBVIOUS
<1>2. v \div Power(b)[k] = w \div Power(b)[k]
  BY <1>1, SameAbove
<1>3. PICK c \in Int : c = b * (v \div Power(b)[k]) /\ c = b * (w \div Power(b)[k])
  <2>1. v \div Power(b)[k] \in Int
    BY <1>1, DigitSplits
  <2> QED BY <1>2, <2>1
<1>4. PICK p \in Nat : p = Power(b)[k - 1] /\ p > 0
  BY <1>1, PowerPositive
<1>5. PICK x \in Int, y \in Int :
          /\ x = Digit(v, b, k) /\ y = Digit(w, b, k) /\ x < y
          /\ v \div p = c + x /\ w \div p = c + y
  BY <1>1, <1>3, <1>4, DigitSplits
<1>6. v < p * (c + x) + p /\ p * (c + y) <= w
  <2>1. v = p * (v \div p) + (v % p) /\ v % p \in 0 .. p - 1
    BY <1>4, Division
  <2>2. w = p * (w \div p) + (w % p) /\ w % p \in 0 .. p - 1
    BY <1>4, Division
  <2>3. p * (c + x) \in Int /\ p * (c + y) \in Int
    OBVIOUS
  <2> QED BY <1>5, <2>1, <2>2, <2>3
<1>7. p * (c + x) + p <= p * (c + y)
  <2>1. p * (c + x + 1) <= p * (c + y)
    BY <1>5
  <2>2. p * (c + x + 1) = p * (c + x) + p
    OBVIOUS
  <2> QED BY <2>1, <2>2
<1>8. p * (c + x) \in Int /\ p * (c + y) \in Int
  OBVIOUS
<1> QED BY <1>6, <1>7, <1>8
=============================================================================
