---------------------------- MODULE ValueProofs ----------------------------
(* Proofs about the functions of values, for all texts, rates, times,       *)
(* addresses and answers of any size: what is asked is arbitrary.           *)
EXTENDS MCValues, CommonLemmas, SequenceTheorems, TLAPS

-----------------------------------------------------------------------------
(* What is asked.                                                          *)

Asked == \/ question = Nothing
         \/ question \in Ip!Questions \/ question \in String!Questions
         \/ question \in Time!Questions \/ question \in Error!Questions
         \/ question \in Math!Questions \/ question \in Mask!Questions

LEMMA AlwaysAsked == Spec => []Asked
<1>1. Init => Asked
  BY DEF Init, Asked
<1>2. Asked /\ [Next]_question => Asked'
  BY DEF Asked, Next, Answered, Ask, AskAddress, AskString, AskTime, AskError,
         AskNumber, AskMask
<1> QED BY <1>1, <1>2, PTL DEF Spec

LEMMA QuestionsApart ==
    ASSUME Asked
    PROVE  /\ About("v4") => question \in [about : {"v4"}, value : V4s]
           /\ About("v6") => question \in [about : {"v6"}, value : V6s]
           /\ About("text4") => question \in [about : {"text4"}, value : Texts4]
           /\ About("text6") => question \in [about : {"text6"}, value : Texts6]
           /\ About("trim") =>
                 question \in [about : {"trim"}, str : String!Text, d : Delim]
           /\ About("order") =>
                 question \in [about : {"order"}, s1 : String!Text, s2 : String!Text]
           /\ About("time") => question \in Time!Questions
           /\ About("call") => question \in Error!Questions
           /\ About("number") => question \in Math!Questions
           /\ About("mask") => question \in Mask!Questions
<1>1. /\ Nothing.about = "nothing"
      /\ \A a \in Ip!Questions : a.about \in {"v4", "v6", "text4", "text6"}
      /\ \A a \in String!Questions : a.about \in {"trim", "order"}
  BY DEF Nothing, Ip!Questions, String!Questions
<1>2. /\ \A a \in Time!Questions : a.about = "time"
      /\ \A a \in Error!Questions : a.about = "call"
      /\ \A a \in Math!Questions : a.about = "number"
      /\ \A a \in Mask!Questions : a.about = "mask"
  BY DEF Time!Questions, Error!Questions, Math!Questions, Mask!Questions
<1>3. \A a \in Ip!Questions :
          /\ a.about = "v4" => a \in [about : {"v4"}, value : V4s]
          /\ a.about = "v6" => a \in [about : {"v6"}, value : V6s]
          /\ a.about = "text4" => a \in [about : {"text4"}, value : Texts4]
          /\ a.about = "text6" => a \in [about : {"text6"}, value : Texts6]
  BY DEF Ip!Questions
<1>4. \A a \in String!Questions :
          /\ a.about = "trim" => a \in [about : {"trim"}, str : String!Text, d : Delim]
          /\ a.about = "order" =>
                 a \in [about : {"order"}, s1 : String!Text, s2 : String!Text]
  BY DEF String!Questions
<1> QED BY <1>1, <1>2, <1>3, <1>4 DEF Asked, About

LEMMA NumberAsked ==
    ASSUME Asked, About("number")
    PROVE  question.n \in 0 .. MaxNumber
BY QuestionsApart DEF Math!Questions

-----------------------------------------------------------------------------
(* ip_address, as a number                                                  *)

\* Comparing position by position is a strict total order, whatever order the
\* positions are in, of addresses that have no others.
LEMMA BeforeTotal ==
    ASSUME NEW n \in Nat, NEW p \in [1 .. n -> 1 .. n],
           \A d \in 1 .. n : \E k \in 1 .. n : p[k] = d,
           NEW a \in [1 .. n -> Int], NEW b \in [1 .. n -> Int]
    PROVE  /\ a # b <=> Ip!Before(a, b, p) \/ Ip!Before(b, a, p)
           /\ ~(Ip!Before(a, b, p) /\ Ip!Before(b, a, p))
<1>0. DOMAIN p = 1 .. n
  OBVIOUS
<1> DEFINE T == {k \in 1 .. n : a[p[k]] # b[p[k]]}
<1>1. a # b => T # {}
  <2> SUFFICES ASSUME T = {} PROVE a = b
    OBVIOUS
  <2>1. \A d \in 1 .. n : a[d] = b[d]
    OBVIOUS
  <2> QED BY <2>1
<1>2. ASSUME T # {}
      PROVE  Ip!Before(a, b, p) \/ Ip!Before(b, a, p)
  <2>1. PICK k \in T : \A j \in T : k <= j
    <3>1. T \subseteq 1 .. n /\ IsFiniteSet(1 .. n) /\ 1 .. n \subseteq Int
      BY FS_Interval
    <3> HIDE DEF T
    <3> QED BY <1>2, <3>1, HasLeast, FS_Subset
  <2>2. \A m \in 1 .. k - 1 : a[p[m]] = b[p[m]]
    <3> TAKE m \in 1 .. k - 1
    <3>1. m \in 1 .. n /\ ~(k <= m)
      OBVIOUS
    <3>2. m \notin T
      BY <2>1, <3>1
    <3> QED BY <3>1, <3>2
  <2>3. k \in 1 .. n /\ a[p[k]] # b[p[k]] /\ a[p[k]] \in Int /\ b[p[k]] \in Int
    OBVIOUS
  <2>4. a[p[k]] < b[p[k]] \/ b[p[k]] < a[p[k]]
    BY <2>3
  <2> QED BY <1>0, <2>2, <2>3, <2>4 DEF Ip!Before
<1>3. ASSUME Ip!Before(a, b, p), Ip!Before(b, a, p)
      PROVE  FALSE
  <2>1. PICK k \in 1 .. n : /\ a[p[k]] < b[p[k]]
                            /\ \A m \in 1 .. k - 1 : a[p[m]] = b[p[m]]
    BY <1>0, <1>3 DEF Ip!Before
  <2>2. PICK j \in 1 .. n : /\ b[p[j]] < a[p[j]]
                            /\ \A m \in 1 .. j - 1 : b[p[m]] = a[p[m]]
    BY <1>0, <1>3 DEF Ip!Before
  <2>3. /\ a[p[k]] \in Int /\ b[p[k]] \in Int
        /\ a[p[j]] \in Int /\ b[p[j]] \in Int
    OBVIOUS
  <2>4. ASSUME k < j PROVE FALSE
    <3>1. k \in 1 .. j - 1
      BY <2>4
    <3>2. b[p[k]] = a[p[k]]
      BY <2>2, <3>1
    <3>3. a[p[k]] < b[p[k]]
      BY <2>1
    <3> QED BY <2>3, <3>2, <3>3
  <2>5. ASSUME j < k PROVE FALSE
    <3>1. j \in 1 .. k - 1
      BY <2>5
    <3>2. a[p[j]] = b[p[j]]
      BY <2>1, <3>1
    <3>3. b[p[j]] < a[p[j]]
      BY <2>2
    <3> QED BY <2>3, <3>2, <3>3
  <2>6. j # k
    BY <2>1, <2>2, <2>3
  <2> QED BY <2>4, <2>5, <2>6
<1>4. ASSUME a = b
      PROVE  ~Ip!Before(a, b, p)
  <2> SUFFICES ASSUME Ip!Before(a, b, p) PROVE FALSE
    OBVIOUS
  <2>1. Ip!Before(b, a, p)
    BY <1>4
  <2> QED BY <1>3, <2>1
<1>5. ASSUME a = b
      PROVE  ~Ip!Before(b, a, p)
  BY <1>4, <1>5
<1> QED BY <1>1, <1>2, <1>3, <1>4, <1>5

LEMMA AddressTypes ==
    /\ V4s \subseteq [1 .. 4 -> 0 .. 255] /\ V6s \subseteq [1 .. 8 -> Int]
    /\ V4s \subseteq [1 .. 4 -> Int]
<1>1. V4s \subseteq [1 .. 4 -> 0 .. 255] /\ V6s \subseteq [1 .. 8 -> Ip!Word]
  BY PartAssumptions
     DEF PartAssumptions, Ip!AddressAssumption, Ip!V4, Ip!V6, Ip!Byte
<1>2. Ip!Word \subseteq Int /\ 0 .. 255 \subseteq Int
  BY DEF Ip!Word
<1>3. ASSUME NEW n, NEW R, R \subseteq Int
      PROVE  [1 .. n -> R] \subseteq [1 .. n -> Int]
  BY <1>3
<1> QED BY <1>1, <1>2, <1>3, Zenon

\* Two orders one after the other are one.
LEMMA BeforeTransitive ==
    ASSUME NEW n \in Nat, NEW p \in [1 .. n -> 1 .. n],
           NEW a \in [1 .. n -> Int], NEW b \in [1 .. n -> Int],
           NEW c \in [1 .. n -> Int], Ip!Before(a, b, p), Ip!Before(b, c, p)
    PROVE  Ip!Before(a, c, p)
<1>0. DOMAIN p = 1 .. n
  OBVIOUS
<1>1. PICK k \in 1 .. n : /\ a[p[k]] < b[p[k]]
                          /\ \A m \in 1 .. k - 1 : a[p[m]] = b[p[m]]
  BY <1>0 DEF Ip!Before
<1>2. PICK j \in 1 .. n : /\ b[p[j]] < c[p[j]]
                          /\ \A m \in 1 .. j - 1 : b[p[m]] = c[p[m]]
  BY <1>0 DEF Ip!Before
<1>3. \A m \in 1 .. n : a[p[m]] \in Int /\ b[p[m]] \in Int /\ c[p[m]] \in Int
  OBVIOUS
<1> DEFINE l == IF k <= j THEN k ELSE j
<1>4. l \in 1 .. n /\ l <= k /\ l <= j /\ (l = k \/ l = j)
  <2>1. CASE k <= j
    BY <2>1
  <2>2. CASE ~(k <= j)
    BY <2>2
  <2> QED BY <2>1, <2>2
<1> HIDE DEF l
<1>5. a[p[l]] < c[p[l]]
  <2>1. CASE l = k /\ l = j
    BY <1>1, <1>2, <1>3, <2>1
  <2>2. CASE l = k /\ l # j
    <3>1. l \in 1 .. j - 1
      BY <1>4, <2>2
    <3>2. b[p[l]] = c[p[l]]
      BY <1>2, <3>1
    <3> QED BY <1>1, <2>2, <3>2
  <2>3. CASE l # k
    <3>1. l \in 1 .. k - 1 /\ l = j
      BY <1>4, <2>3
    <3>2. a[p[l]] = b[p[l]]
      BY <1>1, <3>1
    <3> QED BY <1>2, <3>1, <3>2
  <2> QED BY <1>4, <2>1, <2>2, <2>3
<1>6. ASSUME NEW m \in 1 .. l - 1
      PROVE  a[p[m]] = c[p[m]]
  <2>1. m \in 1 .. k - 1 /\ m \in 1 .. j - 1
    BY <1>4
  <2>2. a[p[m]] = b[p[m]]
    BY <1>1, <2>1
  <2>3. b[p[m]] = c[p[m]]
    BY <1>2, <2>1
  <2> QED BY <2>2, <2>3
<1> QED BY <1>0, <1>4, <1>5, <1>6 DEF Ip!Before

Bytes4 == [1 .. 4 -> 0 .. 255]

LEMMA EqualBytes ==
    ASSUME NEW a \in Bytes4, NEW b \in Bytes4
    PROVE  a = b <=> a[1] = b[1] /\ a[2] = b[2] /\ a[3] = b[3] /\ a[4] = b[4]
<1>1. ASSUME a[1] = b[1], a[2] = b[2], a[3] = b[3], a[4] = b[4]
      PROVE  a = b
  <2>1. \A i \in 1 .. 4 : a[i] = b[i]
    <3>1. \A i \in 1 .. 4 : i = 1 \/ i = 2 \/ i = 3 \/ i = 4
      OBVIOUS
    <3> QED BY <1>1, <3>1
  <2> QED BY <2>1 DEF Bytes4
<1> QED BY <1>1

LEMMA BytesInRange ==
    ASSUME NEW a \in Bytes4
    PROVE  a[1] \in 0 .. 255 /\ a[2] \in 0 .. 255
           /\ a[3] \in 0 .. 255 /\ a[4] \in 0 .. 255
BY DEF Bytes4

\* The bytes of the numbers after and before an address: a byte is counted up or
\* down if all the lesser ones go round.
CountedUp(a, b) ==
    \A i \in 1 .. 4 : b[i] = IF \A j \in 1 .. i - 1 : a[j] = 255
                             THEN IF a[i] = 255 THEN 0 ELSE a[i] + 1 ELSE a[i]
CountedDown(a, b) ==
    \A i \in 1 .. 4 : b[i] = IF \A j \in 1 .. i - 1 : a[j] = 0
                             THEN IF a[i] = 0 THEN 255 ELSE a[i] - 1 ELSE a[i]

LEMMA NextBytes ==
    ASSUME NEW a \in Bytes4, NEW i
    PROVE  /\ Ip!Added(a, i) \in Bytes4 /\ CountedUp(a, Ip!Added(a, i))
           /\ Ip!Subtracted(a, i) \in Bytes4 /\ CountedDown(a, Ip!Subtracted(a, i))
<1> DEFINE up == Ip!Added(a, i)
           down == Ip!Subtracted(a, i)
<1>1. \A b \in 0 .. 255 : /\ (b + 1) % 256 = IF b = 255 THEN 0 ELSE b + 1
                          /\ (b + 255) % 256 = IF b = 0 THEN 255 ELSE b - 1
  OBVIOUS
<1>2. \A k \in 1 .. 4 : a[k] \in 0 .. 255
  BY DEF Bytes4
<1>3. \A k \in 1 .. 4 : up[k] =
          IF \A j \in 1 .. k - 1 : a[j] = 255
          THEN IF a[k] = 255 THEN 0 ELSE a[k] + 1 ELSE a[k]
  BY <1>1, <1>2 DEF Ip!Added
<1>4. \A k \in 1 .. 4 : down[k] =
          IF \A j \in 1 .. k - 1 : a[j] = 0
          THEN IF a[k] = 0 THEN 255 ELSE a[k] - 1 ELSE a[k]
  BY <1>1, <1>2 DEF Ip!Subtracted
<1>5. /\ \A k \in 1 .. 4 : up[k] \in 0 .. 255
      /\ \A k \in 1 .. 4 : down[k] \in 0 .. 255
  BY <1>2, <1>3, <1>4
<1>6. up \in Bytes4 /\ down \in Bytes4
  BY <1>5 DEF Ip!Added, Ip!Subtracted, Bytes4
<1> QED BY <1>3, <1>4, <1>6 DEF CountedUp, CountedDown

\* The same, byte by byte.
LEMMA BytesAfter ==
    ASSUME NEW a, NEW b
    PROVE  /\ CountedUp(a, b) =>
                 /\ b[1] = IF a[1] = 255 THEN 0 ELSE a[1] + 1
                 /\ b[2] = IF a[1] = 255
                           THEN IF a[2] = 255 THEN 0 ELSE a[2] + 1 ELSE a[2]
                 /\ b[3] = IF a[1] = 255 /\ a[2] = 255
                           THEN IF a[3] = 255 THEN 0 ELSE a[3] + 1 ELSE a[3]
                 /\ b[4] = IF a[1] = 255 /\ a[2] = 255 /\ a[3] = 255
                           THEN IF a[4] = 255 THEN 0 ELSE a[4] + 1 ELSE a[4]
           /\ CountedDown(a, b) =>
                 /\ b[1] = IF a[1] = 0 THEN 255 ELSE a[1] - 1
                 /\ b[2] = IF a[1] = 0
                           THEN IF a[2] = 0 THEN 255 ELSE a[2] - 1 ELSE a[2]
                 /\ b[3] = IF a[1] = 0 /\ a[2] = 0
                           THEN IF a[3] = 0 THEN 255 ELSE a[3] - 1 ELSE a[3]
                 /\ b[4] = IF a[1] = 0 /\ a[2] = 0 /\ a[3] = 0
                           THEN IF a[4] = 0 THEN 255 ELSE a[4] - 1 ELSE a[4]
<1>1. \A j : /\ j \in 1 .. 1 - 1 <=> FALSE
             /\ j \in 1 .. 2 - 1 <=> j = 1
             /\ j \in 1 .. 3 - 1 <=> j = 1 \/ j = 2
             /\ j \in 1 .. 4 - 1 <=> j = 1 \/ j = 2 \/ j = 3
  OBVIOUS
<1>2. 1 \in 1 .. 4 /\ 2 \in 1 .. 4 /\ 3 \in 1 .. 4 /\ 4 \in 1 .. 4
  OBVIOUS
<1>3. ASSUME NEW top
      PROVE  /\ (\A j \in 1 .. 1 - 1 : a[j] = top) <=> TRUE
             /\ (\A j \in 1 .. 2 - 1 : a[j] = top) <=> a[1] = top
             /\ (\A j \in 1 .. 3 - 1 : a[j] = top) <=> a[1] = top /\ a[2] = top
             /\ (\A j \in 1 .. 4 - 1 : a[j] = top)
                    <=> a[1] = top /\ a[2] = top /\ a[3] = top
  BY <1>1
<1>4. ASSUME CountedUp(a, b), NEW k \in 1 .. 4
      PROVE  b[k] = IF \A j \in 1 .. k - 1 : a[j] = 255
                    THEN IF a[k] = 255 THEN 0 ELSE a[k] + 1 ELSE a[k]
  BY <1>4 DEF CountedUp
<1>5. ASSUME CountedDown(a, b), NEW k \in 1 .. 4
      PROVE  b[k] = IF \A j \in 1 .. k - 1 : a[j] = 0
                    THEN IF a[k] = 0 THEN 255 ELSE a[k] - 1 ELSE a[k]
  BY <1>5 DEF CountedDown
<1> QED BY <1>2, <1>3, <1>4, <1>5

LEMMA NextNumber ==
    ASSUME NEW a \in Bytes4, NEW b \in Bytes4
    PROVE  /\ CountedUp(a, b) => Ip!Follows(a, b)
           /\ CountedDown(b, a) => Ip!Follows(a, b)
<1>1. Ip!Highest \in Bytes4 /\ Ip!Lowest \in Bytes4
  BY DEF Ip!Highest, Ip!Lowest, Bytes4
<1>2. /\ a = Ip!Highest <=> a[1] = 255 /\ a[2] = 255 /\ a[3] = 255 /\ a[4] = 255
      /\ b = Ip!Lowest <=> b[1] = 0 /\ b[2] = 0 /\ b[3] = 0 /\ b[4] = 0
  BY <1>1, EqualBytes DEF Ip!Highest, Ip!Lowest
<1>3. PICK a1 \in 0 .. 255, a2 \in 0 .. 255, a3 \in 0 .. 255, a4 \in 0 .. 255,
           b1 \in 0 .. 255, b2 \in 0 .. 255, b3 \in 0 .. 255, b4 \in 0 .. 255 :
          /\ a1 = a[1] /\ a2 = a[2] /\ a3 = a[3] /\ a4 = a[4]
          /\ b1 = b[1] /\ b2 = b[2] /\ b3 = b[3] /\ b4 = b[4]
  BY BytesInRange
<1>4. ASSUME CountedUp(a, b)
      PROVE  Ip!Follows(a, b)
  <2>1. /\ b1 = IF a1 = 255 THEN 0 ELSE a1 + 1
        /\ b2 = IF a1 = 255 THEN IF a2 = 255 THEN 0 ELSE a2 + 1 ELSE a2
        /\ b3 = IF a1 = 255 /\ a2 = 255
                THEN IF a3 = 255 THEN 0 ELSE a3 + 1 ELSE a3
        /\ b4 = IF a1 = 255 /\ a2 = 255 /\ a3 = 255
                THEN IF a4 = 255 THEN 0 ELSE a4 + 1 ELSE a4
    BY <1>3, <1>4, BytesAfter
  <2>2. IF a1 = 255 /\ a2 = 255 /\ a3 = 255 /\ a4 = 255
        THEN b1 = 0 /\ b2 = 0 /\ b3 = 0 /\ b4 = 0
        ELSE (b1 - a1) + 256 * (b2 - a2) + 65536 * (b3 - a3)
                 + 16777216 * (b4 - a4) = 1
    BY <2>1, SMT
  <2> QED BY <1>2, <1>3, <2>2 DEF Ip!Follows, Ip!Difference
<1>5. ASSUME CountedDown(b, a)
      PROVE  Ip!Follows(a, b)
  <2>1. /\ a1 = IF b1 = 0 THEN 255 ELSE b1 - 1
        /\ a2 = IF b1 = 0 THEN IF b2 = 0 THEN 255 ELSE b2 - 1 ELSE b2
        /\ a3 = IF b1 = 0 /\ b2 = 0 THEN IF b3 = 0 THEN 255 ELSE b3 - 1 ELSE b3
        /\ a4 = IF b1 = 0 /\ b2 = 0 /\ b3 = 0
                THEN IF b4 = 0 THEN 255 ELSE b4 - 1 ELSE b4
    BY <1>3, <1>5, BytesAfter
  <2>2. IF a1 = 255 /\ a2 = 255 /\ a3 = 255 /\ a4 = 255
        THEN b1 = 0 /\ b2 = 0 /\ b3 = 0 /\ b4 = 0
        ELSE (b1 - a1) + 256 * (b2 - a2) + 65536 * (b3 - a3)
                 + 16777216 * (b4 - a4) = 1
    BY <2>1, SMT
  <2> QED BY <1>2, <1>3, <2>2 DEF Ip!Follows, Ip!Difference
<1> QED BY <1>4, <1>5

LEMMA AlwaysCountsByOne ==
    ASSUME NEW a \in Bytes4
    PROVE  /\ Ip!Follows(a, Ip!Incremented(a)) /\ Ip!Follows(Ip!Decremented(a), a)
           /\ \A i : /\ Ip!Follows(a, Ip!Added(a, i))
                     /\ Ip!Follows(Ip!Subtracted(a, i), a)
<1>1. ASSUME NEW i
      PROVE  /\ Ip!Follows(a, Ip!Added(a, i))
             /\ Ip!Follows(Ip!Subtracted(a, i), a)
  <2>1. /\ Ip!Added(a, i) \in Bytes4 /\ CountedUp(a, Ip!Added(a, i))
        /\ Ip!Subtracted(a, i) \in Bytes4 /\ CountedDown(a, Ip!Subtracted(a, i))
    BY NextBytes
  <2> QED BY <2>1, NextNumber
<1> QED BY <1>1 DEF Ip!Incremented, Ip!Decremented

\* The order of version 4 addresses, byte by byte: the last counts most.
LEMMA LessBytes ==
    ASSUME NEW a, NEW b
    PROVE  Ip!LessV4(a, b) <=>
               \/ a[4] < b[4]
               \/ a[4] = b[4] /\ a[3] < b[3]
               \/ a[4] = b[4] /\ a[3] = b[3] /\ a[2] < b[2]
               \/ a[4] = b[4] /\ a[3] = b[3] /\ a[2] = b[2] /\ a[1] < b[1]
<1> DEFINE p == <<4, 3, 2, 1>>
           Ahead(k) == /\ a[p[k]] < b[p[k]]
                       /\ \A m \in 1 .. k - 1 : a[p[m]] = b[p[m]]
<1>1. Ip!LessV4(a, b) <=> \E k \in 1 .. 4 : Ahead(k)
  <2>1. DOMAIN p = 1 .. 4
    OBVIOUS
  <2> QED BY <2>1 DEF Ip!LessV4, Ip!ToUint32, Ip!Before
<1>2. p[1] = 4 /\ p[2] = 3 /\ p[3] = 2 /\ p[4] = 1
  OBVIOUS
<1>3. \A m : /\ m \in 1 .. 1 - 1 <=> FALSE
             /\ m \in 1 .. 2 - 1 <=> m = 1
             /\ m \in 1 .. 3 - 1 <=> m = 1 \/ m = 2
             /\ m \in 1 .. 4 - 1 <=> m = 1 \/ m = 2 \/ m = 3
  OBVIOUS
<1> HIDE DEF p
<1>4. /\ Ahead(1) <=> a[4] < b[4]
      /\ Ahead(2) <=> a[4] = b[4] /\ a[3] < b[3]
      /\ Ahead(3) <=> a[4] = b[4] /\ a[3] = b[3] /\ a[2] < b[2]
      /\ Ahead(4) <=> a[4] = b[4] /\ a[3] = b[3] /\ a[2] = b[2] /\ a[1] < b[1]
  BY <1>2, <1>3
<1> HIDE DEF Ahead
<1>5. (\E k \in 1 .. 4 : Ahead(k)) <=> Ahead(1) \/ Ahead(2) \/ Ahead(3) \/ Ahead(4)
  <2>1. \A k : k \in 1 .. 4 <=> k = 1 \/ k = 2 \/ k = 3 \/ k = 4
    OBVIOUS
  <2> QED BY <2>1
<1> QED BY <1>1, <1>4, <1>5

LEMMA LessAsNumbers ==
    ASSUME NEW a \in Bytes4, NEW b \in Bytes4
    PROVE  /\ Ip!LessV4(a, b) <=>
                  \/ Ip!Upper(a) < Ip!Upper(b)
                  \/ Ip!Upper(a) = Ip!Upper(b) /\ Ip!Lower(a) < Ip!Lower(b)
           /\ a # b <=> Ip!LessV4(a, b) \/ Ip!LessV4(b, a)
<1>1. PICK a1 \in 0 .. 255, a2 \in 0 .. 255, a3 \in 0 .. 255, a4 \in 0 .. 255,
           b1 \in 0 .. 255, b2 \in 0 .. 255, b3 \in 0 .. 255, b4 \in 0 .. 255 :
          /\ a1 = a[1] /\ a2 = a[2] /\ a3 = a[3] /\ a4 = a[4]
          /\ b1 = b[1] /\ b2 = b[2] /\ b3 = b[3] /\ b4 = b[4]
  BY BytesInRange
<1>2. /\ Ip!Upper(a) = a3 + 256 * a4 /\ Ip!Lower(a) = a1 + 256 * a2
      /\ Ip!Upper(b) = b3 + 256 * b4 /\ Ip!Lower(b) = b1 + 256 * b2
  <2>1. ASSUME NEW c
        PROVE  Ip!Upper(c) = c[3] + 256 * c[4] /\ Ip!Lower(c) = c[1] + 256 * c[2]
    <3>1. /\ Ip!Pair(c, 1)[1] = c[1] /\ Ip!Pair(c, 1)[2] = c[2]
          /\ Ip!Pair(c, 2)[1] = c[3] /\ Ip!Pair(c, 2)[2] = c[4]
      BY DEF Ip!Pair
    <3> QED BY <3>1 DEF Ip!Upper, Ip!Lower, Ip!Number
  <2> QED BY <1>1, <2>1
<1>3. /\ Ip!LessV4(a, b) <=>
             \/ a4 < b4
             \/ a4 = b4 /\ a3 < b3
             \/ a4 = b4 /\ a3 = b3 /\ a2 < b2
             \/ a4 = b4 /\ a3 = b3 /\ a2 = b2 /\ a1 < b1
      /\ Ip!LessV4(b, a) <=>
             \/ b4 < a4
             \/ b4 = a4 /\ b3 < a3
             \/ b4 = a4 /\ b3 = a3 /\ b2 < a2
             \/ b4 = a4 /\ b3 = a3 /\ b2 = a2 /\ b1 < a1
  BY <1>1, LessBytes
<1>4. \/ a3 + 256 * a4 < b3 + 256 * b4
      \/ a3 + 256 * a4 = b3 + 256 * b4 /\ a1 + 256 * a2 < b1 + 256 * b2
      <=> \/ a4 < b4
          \/ a4 = b4 /\ a3 < b3
          \/ a4 = b4 /\ a3 = b3 /\ a2 < b2
          \/ a4 = b4 /\ a3 = b3 /\ a2 = b2 /\ a1 < b1
  BY SMT
<1>5. a # b <=> a1 # b1 \/ a2 # b2 \/ a3 # b3 \/ a4 # b4
  BY <1>1, EqualBytes
<1>6. a # b <=> Ip!LessV4(a, b) \/ Ip!LessV4(b, a)
  BY <1>3, <1>5, SMT
<1> QED BY <1>2, <1>3, <1>4, <1>6

\* From one number to the next there is nothing to pass.
LEMMA NextInOrder ==
    ASSUME NEW a \in Bytes4, a # Ip!Highest
    PROVE  /\ Ip!LessV4(a, Ip!Incremented(a))
           /\ \A b \in Bytes4 : ~(Ip!LessV4(a, b) /\ Ip!LessV4(b, Ip!Incremented(a)))
<1>1. PICK u \in Bytes4 : u = Ip!Incremented(a) /\ CountedUp(a, u)
  BY NextBytes DEF Ip!Incremented
<1>2. PICK a1 \in 0 .. 255, a2 \in 0 .. 255, a3 \in 0 .. 255, a4 \in 0 .. 255,
           u1 \in 0 .. 255, u2 \in 0 .. 255, u3 \in 0 .. 255, u4 \in 0 .. 255 :
          /\ a1 = a[1] /\ a2 = a[2] /\ a3 = a[3] /\ a4 = a[4]
          /\ u1 = u[1] /\ u2 = u[2] /\ u3 = u[3] /\ u4 = u[4]
  BY BytesInRange
<1>3. /\ u1 = IF a1 = 255 THEN 0 ELSE a1 + 1
      /\ u2 = IF a1 = 255 THEN IF a2 = 255 THEN 0 ELSE a2 + 1 ELSE a2
      /\ u3 = IF a1 = 255 /\ a2 = 255 THEN IF a3 = 255 THEN 0 ELSE a3 + 1 ELSE a3
      /\ u4 = IF a1 = 255 /\ a2 = 255 /\ a3 = 255
              THEN IF a4 = 255 THEN 0 ELSE a4 + 1 ELSE a4
  BY <1>1, <1>2, BytesAfter
<1>4. a1 # 255 \/ a2 # 255 \/ a3 # 255 \/ a4 # 255
  <2>1. Ip!Highest \in Bytes4
    BY DEF Ip!Highest, Bytes4
  <2> QED BY <1>2, <2>1, EqualBytes DEF Ip!Highest
<1>5. Ip!LessV4(a, u)
  <2>1. \/ a4 < u4
        \/ a4 = u4 /\ a3 < u3
        \/ a4 = u4 /\ a3 = u3 /\ a2 < u2
        \/ a4 = u4 /\ a3 = u3 /\ a2 = u2 /\ a1 < u1
    BY <1>3, <1>4, SMT
  <2> QED BY <1>2, <2>1, LessBytes
<1>6. ASSUME NEW b \in Bytes4, Ip!LessV4(a, b), Ip!LessV4(b, u)
      PROVE  FALSE
  <2>1. PICK b1 \in 0 .. 255, b2 \in 0 .. 255, b3 \in 0 .. 255, b4 \in 0 .. 255 :
            b1 = b[1] /\ b2 = b[2] /\ b3 = b[3] /\ b4 = b[4]
    BY BytesInRange
  <2>2. \/ a4 < b4
        \/ a4 = b4 /\ a3 < b3
        \/ a4 = b4 /\ a3 = b3 /\ a2 < b2
        \/ a4 = b4 /\ a3 = b3 /\ a2 = b2 /\ a1 < b1
    BY <1>2, <1>6, <2>1, LessBytes
  <2>3. \/ b4 < u4
        \/ b4 = u4 /\ b3 < u3
        \/ b4 = u4 /\ b3 = u3 /\ b2 < u2
        \/ b4 = u4 /\ b3 = u3 /\ b2 = u2 /\ b1 < u1
    BY <1>2, <1>6, <2>1, LessBytes
  <2> QED BY <1>3, <1>4, <2>2, <2>3, SMT
<1> QED BY <1>1, <1>5, <1>6

LEMMA Turned ==
    ASSUME NEW S, NEW a \in [1 .. 4 -> S]
    PROVE  /\ Ip!Reverse(a) \in [1 .. 4 -> S]
           /\ \A i \in 1 .. 4 : Ip!Reverse(a)[i] = a[(4 - i) + 1]
<1>1. a \in Seq(S) /\ Len(a) = 4
  <2>1. a \in Seq(S)
    BY SeqDef
  <2>2. DOMAIN a = 1 .. Len(a) /\ Len(a) \in Nat
    BY <2>1, LenProperties
  <2> QED BY <2>1, <2>2
<1>2. Ip!Reverse(a) = [i \in 1 .. 4 |-> a[(4 - i) + 1]]
  BY <1>1 DEF Ip!Reverse
<1> QED BY <1>2

LEMMA TurnedTwice ==
    ASSUME NEW S, NEW a \in [1 .. 4 -> S]
    PROVE  Ip!Reverse(Ip!Reverse(a)) = a
<1>1. PICK b \in [1 .. 4 -> S] : /\ b = Ip!Reverse(a)
                                 /\ \A i \in 1 .. 4 : b[i] = a[(4 - i) + 1]
  BY Turned
<1>2. PICK c \in [1 .. 4 -> S] : /\ c = Ip!Reverse(b)
                                 /\ \A i \in 1 .. 4 : c[i] = b[(4 - i) + 1]
  BY Turned
<1>3. \A i \in 1 .. 4 : c[i] = a[i]
  BY <1>1, <1>2
<1> QED BY <1>1, <1>2, <1>3

\* The positions in which version 6 addresses are compared are all there are.
LEMMA LessV6Orders ==
    ASSUME NEW a \in [1 .. 8 -> Int], NEW b \in [1 .. 8 -> Int]
    PROVE  /\ a # b <=> Ip!LessV6(a, b) \/ Ip!LessV6(b, a)
           /\ ~(Ip!LessV6(a, b) /\ Ip!LessV6(b, a))
           /\ \A c \in [1 .. 8 -> Int] :
                  Ip!LessV6(a, b) /\ Ip!LessV6(b, c) => Ip!LessV6(a, c)
<1> DEFINE p == <<4, 3, 2, 1, 8, 7, 6, 5>>
<1>1. p \in [1 .. 8 -> 1 .. 8] /\ \A d \in 1 .. 8 : \E k \in 1 .. 8 : p[k] = d
  <2>1. p \in [1 .. 8 -> 1 .. 8]
    OBVIOUS
  <2>2. \A d \in 1 .. 4 : 5 - d \in 1 .. 8 /\ p[5 - d] = d
    OBVIOUS
  <2>3. \A d \in 5 .. 8 : 13 - d \in 1 .. 8 /\ p[13 - d] = d
    OBVIOUS
  <2> QED BY <2>1, <2>2, <2>3
<1>2. \A c, d : Ip!LessV6(c, d) <=> Ip!Before(c, d, p)
  BY DEF Ip!LessV6
<1> HIDE DEF p
<1>3. /\ a # b <=> Ip!Before(a, b, p) \/ Ip!Before(b, a, p)
      /\ ~(Ip!Before(a, b, p) /\ Ip!Before(b, a, p))
  BY <1>1, BeforeTotal
<1>4. ASSUME NEW c \in [1 .. 8 -> Int], Ip!Before(a, b, p), Ip!Before(b, c, p)
      PROVE  Ip!Before(a, c, p)
  BY <1>1, <1>4, BeforeTransitive
<1> QED BY <1>2, <1>3, <1>4

\* ip_address: whatever set of addresses is asked about, ++ and -- take a version
\* 4 address to the next number and the one before, with every carry and wrap-
\* around, and so do += and -= whatever they are told to add; the comparison is
\* that of the numbers, along which ++ goes without passing any; a number gives
\* back its address only when it is turned; and version 6 addresses are in a
\* strict total order.
THEOREM NumbersAlwaysRight == Spec => []NumbersRight
<1>1. ASSUME Asked PROVE NumbersRight
  <2>1. /\ About("v4") => question.value \in V4s
        /\ About("v6") => question.value \in V6s
    BY <1>1, QuestionsApart
  <2>2. V4s \subseteq Bytes4 /\ V6s \subseteq [1 .. 8 -> Int]
    BY AddressTypes DEF Bytes4
  <2>3. Ip!CountsByOne
    BY <2>1, <2>2, AlwaysCountsByOne
       DEF Ip!CountsByOne, Ip!About, About, Ip!value
  <2>4. Ip!ComparedAsNumbers
    BY <2>1, <2>2, LessAsNumbers
       DEF Ip!ComparedAsNumbers, Ip!About, About, Ip!value
  <2>5. Ip!CountedInOrder
    BY <2>1, <2>2, NextInOrder
       DEF Ip!CountedInOrder, Ip!About, About, Ip!value
  <2>6. Ip!NumberTurned
    BY <2>1, AddressTypes, TurnedTwice
       DEF Ip!NumberTurned, Ip!About, About, Ip!value, Ip!ToUint32, Ip!FromUint32
  <2>7. Ip!TotallyOrdered
    BY <2>1, <2>2, LessV6Orders
       DEF Ip!TotallyOrdered, Ip!About, About, Ip!value
  <2> QED BY <2>3, <2>4, <2>5, <2>6, <2>7 DEF NumbersRight, Ip!NumbersRight
<1> QED BY <1>1, AlwaysAsked, PTL

-----------------------------------------------------------------------------
(* ip_address, as text: texts that grow piece by piece.                     *)

\* g[i] is the text after the first i of the n pieces.
Growing(g, piece, n) ==
    g[0] = <<>> /\ \A i \in 1 .. n : g[i] = g[i - 1] \o piece[i]

LEMMA TextsGrow ==
    ASSUME NEW n \in Nat, NEW S, NEW piece \in [1 .. n -> Seq(S)]
    PROVE  \E g \in [0 .. n -> Seq(S)] : Growing(g, piece, n)
<1> DEFINE G == [i \in 0 .. n |-> [f \in [0 .. n -> Seq(S)] |->
                    IF i = 0 THEN <<>> ELSE f[i - 1] \o piece[i]]]
<1>1. Causal(G, n, Seq(S))
  <2>1. G \in [0 .. n -> [[0 .. n -> Seq(S)] -> Seq(S)]]
    <3>1. ASSUME NEW i \in 0 .. n, NEW f \in [0 .. n -> Seq(S)]
          PROVE  (IF i = 0 THEN <<>> ELSE f[i - 1] \o piece[i]) \in Seq(S)
      <4>1. <<>> \in Seq(S)
        OBVIOUS
      <4>2. i # 0 => f[i - 1] \in Seq(S) /\ piece[i] \in Seq(S)
        OBVIOUS
      <4> QED BY <4>1, <4>2, ConcatProperties
    <3> QED BY <3>1
  <2>2. ASSUME NEW i \in 0 .. n, NEW f \in [0 .. n -> Seq(S)],
               NEW h \in [0 .. n -> Seq(S)], \A j \in 0 .. i - 1 : f[j] = h[j]
        PROVE  G[i][f] = G[i][h]
    <3>1. i # 0 => f[i - 1] = h[i - 1]
      BY <2>2
    <3> QED BY <3>1
  <2> HIDE DEF G
  <2> QED BY <2>1, <2>2 DEF Causal
<1>2. PICK g \in [0 .. n -> Seq(S)] : Recursive(g, G, n)
  <2>1. Seq(S) # {}
    <3>1. <<>> \in Seq(S)
      OBVIOUS
    <3> QED BY <3>1
  <2> HIDE DEF G
  <2> QED BY <1>1, <2>1, RecursionExists
<1>3. \A i \in 0 .. n : g[i] = IF i = 0 THEN <<>> ELSE g[i - 1] \o piece[i]
  BY <1>2 DEF Recursive
<1>4. Growing(g, piece, n)
  <2>1. g[0] = <<>>
    <3>1. 0 \in 0 .. n
      OBVIOUS
    <3>2. g[0] = IF 0 = 0 THEN <<>> ELSE g[0 - 1] \o piece[0]
      BY <1>3, <3>1
    <3> QED BY <3>2
  <2>2. ASSUME NEW i \in 1 .. n PROVE g[i] = g[i - 1] \o piece[i]
    <3>1. i \in 0 .. n /\ i # 0
      OBVIOUS
    <3> QED BY <1>3, <3>1
  <2> QED BY <2>1, <2>2 DEF Growing
<1> QED BY <1>2, <1>4

LEMMA FlattenGrows ==
    ASSUME NEW n \in Nat, NEW S, NEW piece \in [1 .. n -> Seq(S)]
    PROVE  \E g \in [0 .. n -> Seq(S)] :
               Growing(g, piece, n) /\ Ip!FlattenSeq(piece) = g[n]
<1> DEFINE Step(f) == f = [i \in 1 .. Len(piece) |->
                              IF i = 1 THEN piece[i] ELSE f[i - 1] \o piece[i]]
           flatten == CHOOSE f : Step(f)
<1>1. piece \in Seq(Seq(S)) /\ Len(piece) = n
  <2>1. piece \in Seq(Seq(S))
    OBVIOUS
  <2> QED BY <2>1
<1>2. Ip!FlattenSeq(piece) = IF Len(piece) = 0 THEN piece ELSE flatten[Len(piece)]
  BY DEF Ip!FlattenSeq
<1>3. PICK g \in [0 .. n -> Seq(S)] : Growing(g, piece, n)
  BY TextsGrow
<1> DEFINE f == [i \in 1 .. n |-> g[i]]
<1>4. \A i \in 1 .. n : f[i] = IF i = 1 THEN piece[i] ELSE f[i - 1] \o piece[i]
  <2> TAKE i \in 1 .. n
  <2>1. g[i] = g[i - 1] \o piece[i] /\ g[0] = <<>> /\ piece[i] \in Seq(S)
    BY <1>3 DEF Growing
  <2>2. CASE i = 1
    <3>1. g[i - 1] = <<>> /\ f[i] = g[i]
      BY <2>1, <2>2
    <3>2. g[i] = piece[i]
      BY <2>1, <3>1, ConcatEmptySeq
    <3> QED BY <2>2, <3>1, <3>2
  <2>3. CASE i # 1
    <3>1. i - 1 \in 1 .. n
      BY <2>3
    <3> QED BY <2>1, <2>3, <3>1
  <2> QED BY <2>2, <2>3
<1>5. Step(f)
  <2>1. f = [i \in 1 .. n |-> f[i]]
    OBVIOUS
  <2> HIDE DEF f
  <2> QED BY <1>1, <1>4, <2>1
<1>6. Step(flatten)
  <2> HIDE DEF Step, f
  <2> QED BY <1>5
<1> HIDE DEF flatten
<1>7. \A i \in 1 .. n : flatten[i] = IF i = 1 THEN piece[i]
                                     ELSE flatten[i - 1] \o piece[i]
  BY <1>1, <1>6
<1> DEFINE T == {i \in 0 .. n : i > 0 => flatten[i] = g[i]}
<1>8. \A i \in 0 .. n : i \in T
  <2>1. 0 \in T
    OBVIOUS
  <2>2. ASSUME NEW i \in 1 .. n, i - 1 \in T PROVE i \in T
    <3>1. f[i] = IF i = 1 THEN piece[i] ELSE f[i - 1] \o piece[i]
      BY <1>4
    <3>2. CASE i = 1
      BY <1>7, <3>1, <3>2
    <3>3. CASE i # 1
      <4>1. i - 1 \in 1 .. n /\ flatten[i - 1] = g[i - 1]
        BY <2>2, <3>3
      <4>2. f[i] = g[i] /\ f[i - 1] = g[i - 1]
        BY <4>1
      <4>3. flatten[i] = flatten[i - 1] \o piece[i]
        BY <1>7, <3>3
      <4>4. flatten[i] = g[i]
        BY <3>1, <3>3, <4>1, <4>2, <4>3
      <4> QED BY <4>4
    <3> QED BY <3>2, <3>3
  <2> HIDE DEF T
  <2> QED BY <2>1, <2>2, AllUpTo
<1>9. n \in 0 .. n
  OBVIOUS
<1>10. Ip!FlattenSeq(piece) = g[n]
  <2>1. CASE n = 0
    <3>1. piece = <<>> /\ g[0] = <<>>
      BY <1>1, <1>3, <2>1, EmptySeq DEF Growing
    <3> QED BY <1>1, <1>2, <2>1, <3>1
  <2>2. CASE n # 0
    <3>1. flatten[n] = g[n]
      BY <1>8, <1>9, <2>2
    <3> QED BY <1>1, <1>2, <2>2, <3>1
  <2> QED BY <2>1, <2>2
<1> QED BY <1>3, <1>10

\* out has the n numbers of a after the first m, and colons between them.
Colons(out, a, m, n) ==
    /\ out \in Seq(Int)
    /\ Len(out) = IF n = 0 THEN 0 ELSE 2 * n - 1
    /\ \A k \in 1 .. n : out[2 * k - 1] = a[m + k]
    /\ \A k \in 1 .. n - 1 : out[2 * k] = Ip!Colon

LEMMA ColonsNone ==
    ASSUME NEW a, NEW m
    PROVE  Colons(<<>>, a, m, 0)
BY DEF Colons

LEMMA ColonsMore ==
    ASSUME NEW out, NEW a, NEW m \in Nat, NEW n \in Nat, Colons(out, a, m, n),
           NEW x \in Int, x = a[m + (n + 1)], NEW more,
           more = IF n = 0 THEN <<x>> ELSE <<Ip!Colon, x>>
    PROVE  Colons(out \o more, a, m, n + 1)
<1>1. out \in Seq(Int) /\ Ip!Colon \in Int
  BY DEF Colons, Ip!Colon
<1>2. CASE n = 0
  <2>1. more = <<x>> /\ more \in Seq(Int)
    BY <1>2
  <2>2. Len(out) = 0
    BY <1>2 DEF Colons
  <2>3. out = <<>>
    BY <1>1, <2>2
  <2>4. out \o more = <<x>>
    BY <2>1, <2>3
  <2>5. \A k \in 1 .. 1 : k = 1
    OBVIOUS
  <2> QED BY <1>2, <2>1, <2>4, <2>5 DEF Colons
<1>3. CASE n # 0
  <2>1. more = <<Ip!Colon, x>> /\ more \in Seq(Int) /\ Len(more) = 2
        /\ more[1] = Ip!Colon /\ more[2] = x
    BY <1>1, <1>3
  <2>2. PICK l \in Nat : l = 2 * n - 1 /\ Len(out) = l
    BY <1>3 DEF Colons
  <2>3. PICK w : w = out \o more
    OBVIOUS
  <2>4. /\ w \in Seq(Int) /\ Len(w) = l + 2
        /\ \A i \in 1 .. l : w[i] = out[i]
        /\ w[l + 1] = Ip!Colon /\ w[l + 2] = x
    BY <1>1, <2>1, <2>2, <2>3
  <2>5. ASSUME NEW k \in 1 .. n + 1
        PROVE  w[2 * k - 1] = a[m + k]
    <3>1. CASE k \in 1 .. n
      <4>1. PICK i \in 1 .. l : i = 2 * k - 1
        BY <2>2, <3>1
      <4>2. out[2 * k - 1] = a[m + k]
        BY <3>1 DEF Colons
      <4> QED BY <2>4, <4>1, <4>2
    <3>2. CASE k = n + 1
      <4>1. 2 * k - 1 = l + 2
        BY <2>2, <3>2
      <4> QED BY <2>4, <3>2, <4>1
    <3> QED BY <3>1, <3>2
  <2>6. ASSUME NEW k \in 1 .. n
        PROVE  w[2 * k] = Ip!Colon
    <3>1. CASE k \in 1 .. n - 1
      <4>1. PICK i \in 1 .. l : i = 2 * k
        BY <2>2, <3>1
      <4>2. out[2 * k] = Ip!Colon
        BY <3>1 DEF Colons
      <4> QED BY <2>4, <4>1, <4>2
    <3>2. CASE k = n
      <4>1. 2 * k = l + 1
        BY <2>2, <3>2
      <4> QED BY <2>4, <4>1
    <3> QED BY <3>1, <3>2
  <2>7. Len(w) = 2 * (n + 1) - 1 /\ n + 1 # 0 /\ (n + 1) - 1 = n
    BY <2>2, <2>4
  <2> QED BY <2>3, <2>4, <2>5, <2>6, <2>7 DEF Colons
<1> QED BY <1>2, <1>3

\* There is one such text.
LEMMA ColonsUnique ==
    ASSUME NEW a, NEW m \in Nat, NEW n \in Nat, NEW u, NEW w,
           Colons(u, a, m, n), Colons(w, a, m, n)
    PROVE  u = w
<1>1. u \in Seq(Int) /\ w \in Seq(Int) /\ Len(u) = Len(w)
  BY DEF Colons
<1>2. ASSUME NEW i \in 1 .. Len(u)
      PROVE  u[i] = w[i]
  <2>1. n # 0 /\ i \in 1 .. 2 * n - 1
    BY DEF Colons
  <2>2. PICK k \in 1 .. n : i = 2 * k - 1 \/ (i = 2 * k /\ k \in 1 .. n - 1)
    <3>1. CASE i % 2 = 1
      <4>1. (i + 1) \div 2 \in 1 .. n /\ i = 2 * ((i + 1) \div 2) - 1
        BY <2>1, <3>1
      <4> QED BY <4>1
    <3>2. CASE i % 2 = 0
      <4>1. i \div 2 \in 1 .. n - 1 /\ i \div 2 \in 1 .. n /\ i = 2 * (i \div 2)
        BY <2>1, <3>2
      <4> QED BY <4>1
    <3> QED BY <2>1, <3>1, <3>2
  <2> QED BY <2>2 DEF Colons
<1> QED BY <1>1, <1>2, SeqEqual

LEMMA JoinedColons ==
    ASSUME NEW a, NEW m \in Nat, NEW n \in Nat,
           \A k \in 1 .. n : a[m + k] \in Int
    PROVE  Colons(Ip!Joined(SubSeq(a, m + 1, m + n)), a, m, n)
<1>1. PICK s : s = SubSeq(a, m + 1, m + n)
  OBVIOUS
<1>2. s = [k \in 1 .. n |-> a[m + k]]
  <2>1. m + n - (m + 1) + 1 = n /\ \A k \in 1 .. n : k + (m + 1) - 1 = m + k
    OBVIOUS
  <2>2. SubSeq(a, m + 1, m + n) = [k \in 1 .. n |-> a[m + k]]
    BY <2>1
  <2> QED BY <1>1, <2>2
<1> DEFINE piece == [i \in DOMAIN s |-> IF i = 1 THEN <<s[i]>>
                                        ELSE <<Ip!Colon, s[i]>>]
<1>3. Ip!Joined(s) = Ip!FlattenSeq(piece)
  BY DEF Ip!Joined
<1>4. piece \in [1 .. n -> Seq(Int)]
  <2>1. DOMAIN s = 1 .. n /\ Ip!Colon \in Int /\ \A i \in 1 .. n : s[i] \in Int
    <3>1. \A i \in 1 .. n : s[i] = a[m + i]
      BY <1>2
    <3>2. Ip!Colon \in Int
      BY DEF Ip!Colon
    <3> QED BY <1>2, <3>1, <3>2
  <2>2. \A i \in 1 .. n : <<s[i]>> \in Seq(Int) /\ <<Ip!Colon, s[i]>> \in Seq(Int)
    BY <2>1
  <2> QED BY <2>1, <2>2
<1>5. \A i \in 1 .. n : piece[i] = IF i = 1 THEN <<a[m + i]>>
                                   ELSE <<Ip!Colon, a[m + i]>>
  BY <1>2
<1> HIDE DEF piece
<1>6. PICK g : Growing(g, piece, n) /\ Ip!FlattenSeq(piece) = g[n]
  BY <1>4, FlattenGrows
<1> DEFINE T == {i \in 0 .. n : Colons(g[i], a, m, i)}
<1>7. 0 \in T
  BY <1>6, ColonsNone DEF Growing
<1>8. ASSUME NEW i \in 1 .. n, i - 1 \in T PROVE i \in T
  <2>1. PICK j \in Nat : j = i - 1 /\ i = j + 1
    OBVIOUS
  <2>2. PICK x \in Int : x = a[m + i] /\ x = a[m + (j + 1)]
    BY <2>1
  <2>3. piece[i] = IF j = 0 THEN <<x>> ELSE <<Ip!Colon, x>>
    BY <1>5, <2>1, <2>2
  <2>4. g[i] = g[j] \o piece[i]
    BY <1>6, <2>1 DEF Growing
  <2>5. Colons(g[j], a, m, j)
    BY <1>8, <2>1
  <2>6. Colons(g[j] \o piece[i], a, m, j + 1)
    BY <2>2, <2>3, <2>5, ColonsMore
  <2>7. Colons(g[i], a, m, i)
    BY <2>1, <2>4, <2>6
  <2>8. i \in 0 .. n
    OBVIOUS
  <2> QED BY <2>7, <2>8
<1>9. n \in T
  <2>1. n \in 0 .. n
    OBVIOUS
  <2> HIDE DEF T
  <2> QED BY <1>7, <1>8, <2>1, AllUpTo
<1> QED BY <1>1, <1>3, <1>6, <1>9

-----------------------------------------------------------------------------
(* ip_address, as text: what to_string() writes.                            *)

\* The first zeros of a are those from p to before q.
FirstZeros(a, p, q) ==
    /\ p \in 1 .. 9 /\ q \in p .. 9
    /\ \A i \in 1 .. p - 1 : a[i] # 0
    /\ \A i \in p .. q - 1 : a[i] = 0
    /\ q # 9 => p < q /\ a[q] # 0

LEMMA LeastUpTo ==
    ASSUME NEW n \in Nat, NEW m \in 1 .. n + 1, NEW T
    PROVE  \E k \in m .. n + 1 : /\ \A i \in m .. k - 1 : i \notin T
                                 /\ k # n + 1 => k \in T
<1> DEFINE R == {i \in m .. n : i \in T}
<1>1. CASE R = {}
  <2>1. n + 1 \in m .. n + 1 /\ \A i \in m .. (n + 1) - 1 : i \in m .. n
    OBVIOUS
  <2> QED BY <1>1, <2>1
<1>2. CASE R # {}
  <2>1. R \subseteq m .. n /\ IsFiniteSet(m .. n) /\ m .. n \subseteq Int
    BY FS_Interval
  <2>2. PICK k \in R : \A j \in R : j >= k
    <3> HIDE DEF R
    <3> QED BY <1>2, <2>1, HasLeast, FS_Subset
  <2>3. \A i \in m .. k - 1 : i \in m .. n /\ ~(i >= k)
    OBVIOUS
  <2> QED BY <2>2, <2>3
<1> QED BY <1>1, <1>2

LEMMA ZerosExist ==
    ASSUME NEW a
    PROVE  \E p, q : FirstZeros(a, p, q)
<1> DEFINE Z == {i \in 1 .. 8 : a[i] = 0}
<1>1. PICK p \in 1 .. 9 : (\A i \in 1 .. p - 1 : i \notin Z) /\ (p # 9 => p \in Z)
  <2> HIDE DEF Z
  <2>1. 8 \in Nat /\ 1 \in 1 .. 8 + 1 /\ 8 + 1 = 9
    OBVIOUS
  <2> QED BY <2>1, LeastUpTo
<1>2. PICK q \in p .. 9 : (\A i \in p .. q - 1 : i \in Z) /\ (q # 9 => q \notin Z)
  <2> DEFINE N == {i \in 1 .. 8 : i \notin Z}
  <2>1. PICK q \in p .. 9 : (\A i \in p .. q - 1 : i \notin N) /\ (q # 9 => q \in N)
    <3> HIDE DEF N
    <3>1. 8 \in Nat /\ p \in 1 .. 8 + 1 /\ 8 + 1 = 9
      OBVIOUS
    <3> QED BY <3>1, LeastUpTo
  <2>2. \A i \in p .. q - 1 : i \in 1 .. 8
    OBVIOUS
  <2> QED BY <2>1, <2>2
<1>3. \A i \in 1 .. p - 1 : i \in 1 .. 8
  OBVIOUS
<1>4. q # 9 => p < q /\ a[q] # 0
  BY <1>1, <1>2
<1>5. FirstZeros(a, p, q)
  BY <1>1, <1>2, <1>3, <1>4 DEF FirstZeros
<1> QED BY <1>5

LEMMA ZerosUsed ==
    ASSUME NEW a, NEW p, NEW q, FirstZeros(a, p, q), NEW i \in 1 .. 8
    PROVE  Ip!UsedZero(a, i) <=> q < i
<1>1. p \in 1 .. 9 /\ q \in p .. 9
  BY DEF FirstZeros
<1>2. ASSUME NEW j \in 2 .. i - 1, a[j] # 0, a[j - 1] = 0
      PROVE  q < i
  <2>1. ~(j - 1 \in 1 .. p - 1)
    BY <1>2 DEF FirstZeros
  <2>2. ~(j \in p .. q - 1)
    BY <1>2 DEF FirstZeros
  <2> QED BY <1>1, <2>1, <2>2
<1>3. ASSUME q < i
      PROVE  q \in 2 .. i - 1 /\ a[q] # 0 /\ a[q - 1] = 0
  <2>1. p < q /\ a[q] # 0
    BY <1>1, <1>3 DEF FirstZeros
  <2>2. q - 1 \in p .. q - 1
    BY <1>1, <2>1
  <2> QED BY <1>1, <1>3, <2>1, <2>2 DEF FirstZeros
<1> QED BY <1>2, <1>3 DEF Ip!UsedZero

LEMMA Segments ==
    ASSUME NEW a \in Ip!V6
    PROVE  \A i \in 1 .. 8 : /\ a[i] \in Ip!Word /\ a[i] \in Int
                             /\ a[i] >= 0 /\ a[i] < 65536
                             /\ a[i] # Ip!Colon
<1> TAKE i \in 1 .. 8
<1>1. a[i] \in Ip!Word
  BY DEF Ip!V6
<1>2. \A x \in Ip!Word : x \in Int /\ x >= 0 /\ x < 65536
  BY DEF Ip!Word
<1> QED BY <1>1, <1>2 DEF Ip!Colon

\* What to_string() makes of the text so far at segment i.
Continued(a, out, i) ==
    IF a[i] = 0 /\ ~Ip!UsedZero(a, i) THEN out
    ELSE out \o (IF i > 1 /\ a[i - 1] = 0 /\ ~Ip!UsedZero(a, i)
                 THEN <<Ip!Colon>> ELSE <<>>)
             \o (IF i > 1 THEN <<Ip!Colon>> ELSE <<>>) \o <<a[i]>>

LEMMA ContinuedType ==
    ASSUME NEW a \in Ip!V6, NEW out \in Seq(Int), NEW i \in 1 .. 8
    PROVE  Continued(a, out, i) \in Seq(Int)
<1>1. a[i] \in Int /\ Ip!Colon \in Int
  BY Segments DEF Ip!Colon
<1>2. PICK x, y, z :
          /\ x = IF i > 1 /\ a[i - 1] = 0 /\ ~Ip!UsedZero(a, i)
                 THEN <<Ip!Colon>> ELSE <<>>
          /\ y = IF i > 1 THEN <<Ip!Colon>> ELSE <<>>
          /\ z = <<a[i]>>
  OBVIOUS
<1>3. x \in Seq(Int) /\ y \in Seq(Int) /\ z \in Seq(Int)
  BY <1>1, <1>2
<1>4. ((out \o x) \o y) \o z \in Seq(Int)
  BY <1>3, ConcatProperties
<1> QED BY <1>2, <1>4 DEF Continued

LEMMA PrintedGrows ==
    ASSUME NEW a \in Ip!V6
    PROVE  \E g \in [0 .. 8 -> Seq(Int)] :
               /\ g[0] = <<>> /\ Ip!Printed(a) = g[8]
               /\ \A i \in 1 .. 8 : g[i] = Continued(a, g[i - 1], i)
<1> DEFINE H == [i \in 1 .. 8 |-> [out \in Seq(Int) |-> Continued(a, out, i)]]
           seq == [i \in DOMAIN a |-> i]
           Step(it) == it = [S \in SUBSET (DOMAIN seq) |->
                                IF S = {} THEN <<>>
                                ELSE LET x == Greatest(S)
                                     IN Continued(a, it[S \ {x}], seq[x])]
           chosen == CHOOSE it : Step(it)
<1>1. DOMAIN seq = 1 .. 8 /\ \A i \in 1 .. 8 : seq[i] = i
  BY DEF Ip!V6
<1>2. Ip!Printed(a) = chosen[DOMAIN seq]
  BY DEF Ip!Printed, Ip!FoldLeftDomain, Ip!FoldLeft, Ip!MapThenFoldSet, Ip!Max,
         Greatest, Continued
<1>3. H \in [1 .. 8 -> [Seq(Int) -> Seq(Int)]]
  BY ContinuedType
<1>4. PICK it \in [SUBSET (1 .. 8) -> Seq(Int)] : Folding(it, 8, H, <<>>)
  <2>1. <<>> \in Seq(Int) /\ 8 \in Nat
    OBVIOUS
  <2> HIDE DEF H
  <2> QED BY <1>3, <2>1, FoldsExist
<1>5. Step(it)
  <2>1. ASSUME NEW S \in SUBSET (1 .. 8), S # {}
        PROVE  H[Greatest(S)][it[S \ {Greatest(S)}]]
                   = Continued(a, it[S \ {Greatest(S)}], seq[Greatest(S)])
    <3>1. PICK x \in 1 .. 8 : x = Greatest(S)
      BY <2>1, GreatestOfSome
    <3>2. it[S \ {x}] \in Seq(Int)
      BY <1>4
    <3>3. H[x][it[S \ {x}]] = Continued(a, it[S \ {x}], x)
      BY <3>2
    <3>4. seq[x] = x
      BY <1>1
    <3> HIDE DEF H, seq
    <3> QED BY <3>1, <3>3, <3>4
  <2> HIDE DEF H, seq
  <2> QED BY <1>1, <1>4, <2>1 DEF Folding
<1>6. Step(chosen)
  <2> HIDE DEF Step
  <2> QED BY <1>5
<1> HIDE DEF chosen
<1>7. \A S \in SUBSET (1 .. 8) :
          chosen[S] = IF S = {} THEN <<>>
                      ELSE Continued(a, chosen[S \ {Greatest(S)}], seq[Greatest(S)])
  <2> HIDE DEF seq
  <2> QED BY <1>1, <1>6
<1>8. chosen[1 .. 0] = <<>>
  <2>1. 1 .. 0 = {} /\ {} \in SUBSET (1 .. 8)
    OBVIOUS
  <2>2. chosen[{}] = <<>>
    <3> HIDE DEF seq
    <3> QED BY <1>7, <2>1
  <2> QED BY <2>1, <2>2
<1>9. ASSUME NEW i \in 1 .. 8
      PROVE  chosen[1 .. i] = Continued(a, chosen[1 .. i - 1], i)
  <2>1. /\ 1 .. i \in SUBSET (1 .. 8) /\ 1 .. i # {}
        /\ Greatest(1 .. i) = i /\ (1 .. i) \ {i} = 1 .. i - 1
    <3>1. 8 \in Nat
      OBVIOUS
    <3> QED BY <3>1, UpToLast
  <2>2. PICK S \in SUBSET (1 .. 8) : S = 1 .. i
    BY <2>1
  <2>3. chosen[S] = Continued(a, chosen[S \ {Greatest(S)}], seq[Greatest(S)])
    BY <1>7, <2>1, <2>2
  <2> HIDE DEF seq
  <2> QED BY <1>1, <2>1, <2>2, <2>3
<1> DEFINE g == [i \in 0 .. 8 |-> chosen[1 .. i]]
<1>10. /\ g[0] = <<>> /\ g[8] = chosen[1 .. 8]
       /\ \A i \in 1 .. 8 : g[i] = Continued(a, g[i - 1], i)
  BY <1>8, <1>9
<1> HIDE DEF g
<1> DEFINE T == {i \in 0 .. 8 : g[i] \in Seq(Int)}
<1>11. \A i \in 0 .. 8 : i \in T
  <2>1. 0 \in T
    <3>1. <<>> \in Seq(Int) /\ 0 \in 0 .. 8
      OBVIOUS
    <3> QED BY <1>10, <3>1
  <2>2. ASSUME NEW i \in 1 .. 8, i - 1 \in T PROVE i \in T
    <3>1. g[i - 1] \in Seq(Int) /\ i \in 0 .. 8
      BY <2>2
    <3>2. Continued(a, g[i - 1], i) \in Seq(Int)
      BY <3>1, ContinuedType
    <3>3. g[i] = Continued(a, g[i - 1], i)
      BY <1>10
    <3> QED BY <3>1, <3>2, <3>3
  <2>3. 8 \in Nat
    OBVIOUS
  <2> HIDE DEF T
  <2> QED BY <2>1, <2>2, <2>3, AllUpTo
<1>12. g \in [0 .. 8 -> Seq(Int)]
  <2>1. \A i \in 0 .. 8 : g[i] \in Seq(Int)
    BY <1>11
  <2>2. g = [i \in 0 .. 8 |-> g[i]]
    BY DEF g
  <2> QED BY <2>1, <2>2
<1>13. Ip!Printed(a) = g[8]
  <2> HIDE DEF seq
  <2> QED BY <1>1, <1>2, <1>10
<1> QED BY <1>10, <1>12, <1>13

\* Pieces put together.
LEMMA Glued ==
    ASSUME NEW u \in Seq(Int), NEW x \in Int
    PROVE  /\ ((u \o <<>>) \o <<>>) \o <<x>> = u \o <<x>>
           /\ ((u \o <<>>) \o <<Ip!Colon>>) \o <<x>> = u \o <<Ip!Colon, x>>
           /\ ((u \o <<Ip!Colon>>) \o <<Ip!Colon>>) \o <<x>>
                  = (u \o <<Ip!Colon, Ip!Colon>>) \o <<x>>
<1>1. PICK c \in Int : c = Ip!Colon
  BY DEF Ip!Colon
<1>2. /\ <<x>> \in Seq(Int) /\ <<c>> \in Seq(Int) /\ <<>> \in Seq(Int)
  BY <1>1
<1>3. u \o <<>> = u
  BY ConcatEmptySeq
<1>4. (u \o <<c>>) \o <<x>> = u \o (<<c>> \o <<x>>)
      /\ (u \o <<c>>) \o <<c>> = u \o (<<c>> \o <<c>>)
  BY <1>2, ConcatAssociative
<1>5. \A y \in Int : <<c>> \o <<y>> = <<c, y>>
  <2> TAKE y \in Int
  <2>1. PICK w : w = <<c>> \o <<y>>
    OBVIOUS
  <2>2. PICK v : v = <<c, y>>
    OBVIOUS
  <2>3. w \in Seq(Int) /\ Len(w) = 2 /\ w[1] = c /\ w[2] = y
    BY <1>1, <2>1
  <2>4. v \in Seq(Int) /\ Len(v) = 2 /\ v[1] = c /\ v[2] = y
    BY <1>1, <2>2
  <2>5. \A i \in 1 .. 2 : i = 1 \/ i = 2
    OBVIOUS
  <2>6. \A i \in 1 .. Len(w) : w[i] = v[i]
    BY <2>3, <2>4, <2>5
  <2>7. w = v
    BY <2>3, <2>4, <2>6, SeqEqual
  <2> QED BY <2>1, <2>2, <2>7
<1> QED BY <1>1, <1>3, <1>4, <1>5

LEMMA TextsAssociative ==
    \A v, r, t \in Seq(Int) : (v \o r) \o t = v \o (r \o t)
BY ConcatAssociative

LEMMA ContinuedBefore ==
    ASSUME NEW a \in Ip!V6, NEW p, NEW q, FirstZeros(a, p, q), NEW i \in 1 .. 8,
           i < p, NEW out, Colons(out, a, 0, i - 1)
    PROVE  Colons(Continued(a, out, i), a, 0, i)
<1>1. p \in 1 .. 9 /\ q \in p .. 9 /\ a[i] # 0 /\ (i > 1 => a[i - 1] # 0)
  <2>1. i \in 1 .. p - 1 /\ (i > 1 => i - 1 \in 1 .. p - 1)
    BY DEF FirstZeros
  <2> QED BY <2>1 DEF FirstZeros
<1>2. PICK x \in Int : x = a[i]
  BY Segments
<1>3. out \in Seq(Int)
  BY DEF Colons
<1>4. PICK n \in Nat : n = i - 1 /\ i = n + 1
  OBVIOUS
<1>5. PICK more : more = IF n = 0 THEN <<x>> ELSE <<Ip!Colon, x>>
  OBVIOUS
<1>6. Continued(a, out, i) = out \o more
  <2>1. /\ ~(a[i] = 0 /\ ~Ip!UsedZero(a, i))
        /\ (IF i > 1 /\ a[i - 1] = 0 /\ ~Ip!UsedZero(a, i)
            THEN <<Ip!Colon>> ELSE <<>>) = <<>>
    BY <1>1
  <2>2. Continued(a, out, i)
            = ((out \o <<>>) \o (IF i > 1 THEN <<Ip!Colon>> ELSE <<>>)) \o <<x>>
    BY <1>2, <2>1, Zenon DEF Continued
  <2>3. CASE i = 1
    <3>1. (IF i > 1 THEN <<Ip!Colon>> ELSE <<>>) = <<>> /\ more = <<x>>
      BY <1>4, <1>5, <2>3
    <3>2. ((out \o <<>>) \o <<>>) \o <<x>> = out \o <<x>>
      BY <1>3, Glued
    <3> QED BY <2>2, <3>1, <3>2, Zenon
  <2>4. CASE i # 1
    <3>1. /\ (IF i > 1 THEN <<Ip!Colon>> ELSE <<>>) = <<Ip!Colon>>
          /\ more = <<Ip!Colon, x>>
      BY <1>4, <1>5, <2>4
    <3>2. ((out \o <<>>) \o <<Ip!Colon>>) \o <<x>> = out \o <<Ip!Colon, x>>
      BY <1>3, Glued
    <3> QED BY <2>2, <3>1, <3>2, Zenon
  <2> QED BY <2>3, <2>4
<1>7. Colons(out, a, 0, n) /\ x = a[0 + (n + 1)] /\ 0 \in Nat
  BY <1>2, <1>4
<1>8. Colons(out \o more, a, 0, n + 1)
  BY <1>5, <1>7, ColonsMore
<1> QED BY <1>4, <1>6, <1>8

LEMMA ContinuedWithin ==
    ASSUME NEW a \in Ip!V6, NEW p, NEW q, FirstZeros(a, p, q), NEW i \in 1 .. 8,
           p <= i, i < q, NEW out
    PROVE  Continued(a, out, i) = out
<1>1. p \in 1 .. 9 /\ q \in p .. 9
  BY DEF FirstZeros
<1>2. i \in p .. q - 1 /\ ~(q < i)
  BY <1>1
<1> QED BY <1>2, ZerosUsed DEF FirstZeros, Continued

LEMMA ContinuedAt ==
    ASSUME NEW a \in Ip!V6, NEW p, NEW q, FirstZeros(a, p, q), q # 9,
           NEW out \in Seq(Int)
    PROVE  Continued(a, out, q) = (out \o <<Ip!Colon, Ip!Colon>>) \o <<a[q]>>
<1>1. p \in 1 .. 9 /\ q \in p .. 9 /\ p < q /\ a[q] # 0
  BY DEF FirstZeros
<1>2. q \in 1 .. 8 /\ q - 1 \in p .. q - 1 /\ q > 1
  BY <1>1
<1>3. a[q - 1] = 0
  BY <1>2 DEF FirstZeros
<1>4. PICK x \in Int : x = a[q]
  <2>1. a[q] \in Int
    BY <1>2, Segments
  <2> QED BY <2>1
<1>5. ~Ip!UsedZero(a, q)
  BY <1>1, <1>2, ZerosUsed
<1>6. Continued(a, out, q) = ((out \o <<Ip!Colon>>) \o <<Ip!Colon>>) \o <<x>>
  BY <1>1, <1>2, <1>3, <1>4, <1>5 DEF Continued
<1> QED BY <1>4, <1>6, Glued

LEMMA ContinuedAfter ==
    ASSUME NEW a \in Ip!V6, NEW p, NEW q, FirstZeros(a, p, q), NEW i \in 1 .. 8,
           q < i, NEW out \in Seq(Int)
    PROVE  Continued(a, out, i) = out \o <<Ip!Colon, a[i]>>
<1>1. p \in 1 .. 9 /\ q \in p .. 9
  BY DEF FirstZeros
<1>2. i > 1 /\ Ip!UsedZero(a, i)
  BY <1>1, ZerosUsed
<1>3. PICK x \in Int : x = a[i]
  BY Segments
<1>4. Continued(a, out, i) = ((out \o <<>>) \o <<Ip!Colon>>) \o <<x>>
  BY <1>2, <1>3 DEF Continued
<1> QED BY <1>3, <1>4, Glued

\* The text after i segments: those before the zeros, and what follows them.
Upto(out, a, p, q, i) ==
    \E u : /\ Colons(u, a, 0, IF i < p THEN i ELSE p - 1)
           /\ i < q => out = u
           /\ i >= q => \E r : /\ Colons(r, a, q - 1, i - q + 1)
                               /\ out = (u \o <<Ip!Colon, Ip!Colon>>) \o r

LEMMA UptoNext ==
    ASSUME NEW a \in Ip!V6, NEW p, NEW q, FirstZeros(a, p, q), NEW i \in 1 .. 8,
           NEW out \in Seq(Int), Upto(out, a, p, q, i - 1)
    PROVE  Upto(Continued(a, out, i), a, p, q, i)
<1>1. p \in 1 .. 9 /\ q \in p .. 9 /\ (q # 9 => p < q)
  BY DEF FirstZeros
<1>2. PICK j \in 0 .. 7 : j = i - 1 /\ i = j + 1
  OBVIOUS
<1>3. PICK u : /\ Colons(u, a, 0, IF j < p THEN j ELSE p - 1)
               /\ j < q => out = u
               /\ j >= q => \E r : /\ Colons(r, a, q - 1, j - q + 1)
                                   /\ out = (u \o <<Ip!Colon, Ip!Colon>>) \o r
  BY <1>2 DEF Upto
<1>4. PICK w : w = Continued(a, out, i)
  OBVIOUS
<1>5. CASE i < p
  <2>1. Colons(out, a, 0, i - 1)
    BY <1>1, <1>2, <1>3, <1>5
  <2>2. Colons(w, a, 0, i)
    BY <1>4, <1>5, <2>1, ContinuedBefore
  <2> QED BY <1>1, <1>4, <1>5, <2>2 DEF Upto
<1>6. CASE p <= i
  <2>1. Colons(u, a, 0, p - 1)
    <3>1. (IF j < p THEN j ELSE p - 1) = p - 1
      BY <1>1, <1>2, <1>6
    <3> QED BY <1>3, <3>1
  <2>2. (IF i < p THEN i ELSE p - 1) = p - 1
    BY <1>1, <1>6
  <2>3. PICK v : v = u \o <<Ip!Colon, Ip!Colon>>
    OBVIOUS
  <2>4. u \in Seq(Int) /\ v \in Seq(Int)
    <3>1. u \in Seq(Int) /\ Ip!Colon \in Int
      BY <2>1 DEF Colons, Ip!Colon
    <3>2. <<Ip!Colon, Ip!Colon>> \in Seq(Int)
      BY <3>1
    <3> QED BY <2>3, <3>1, <3>2, ConcatProperties
  <2>5. CASE i < q
    <3>1. w = out /\ out = u
      BY <1>1, <1>2, <1>3, <1>4, <1>6, <2>5, ContinuedWithin
    <3> QED BY <1>1, <1>4, <2>1, <2>2, <2>5, <3>1 DEF Upto
  <2>6. CASE i = q
    <3>1. q # 9 /\ out = u
      BY <1>1, <1>2, <1>3, <2>6
    <3>2. w = v \o <<a[q]>>
      BY <1>4, <2>3, <2>6, <3>1, ContinuedAt
    <3>3. Colons(<<a[q]>>, a, q - 1, i - q + 1)
      <4>1. PICK x \in Int : x = a[q]
        BY <2>6, Segments
      <4>2. PICK m \in Nat : m = q - 1 /\ m + (0 + 1) = q
        BY <1>1
      <4>3. Colons(<<>>, a, m, 0) /\ 0 \in Nat
        BY ColonsNone
      <4>4. PICK more : more = IF 0 = 0 THEN <<x>> ELSE <<Ip!Colon, x>>
        OBVIOUS
      <4>5. Colons(<<>> \o more, a, m, 0 + 1)
        BY <4>1, <4>2, <4>3, <4>4, ColonsMore
      <4>6. more = <<x>> /\ <<x>> \in Seq(Int)
        BY <4>1, <4>4
      <4>7. <<>> \o more = <<x>>
        BY <4>6, ConcatEmptySeq
      <4>8. i - q + 1 = 0 + 1
        BY <1>1, <2>6
      <4> QED BY <4>1, <4>2, <4>5, <4>7, <4>8
    <3>4. i >= q /\ ~(i < q)
      BY <1>1, <2>6
    <3> QED BY <1>4, <2>1, <2>2, <2>3, <3>2, <3>3, <3>4 DEF Upto
  <2>7. CASE q < i
    <3>1. j >= q /\ i >= q /\ ~(i < q)
      BY <1>1, <1>2, <2>7
    <3>2. PICK r : Colons(r, a, q - 1, j - q + 1) /\ out = v \o r
      BY <1>3, <2>3, <3>1
    <3>3. PICK x \in Int : x = a[i]
      BY Segments
    <3>4. PICK m \in Nat, n \in Nat : /\ m = q - 1 /\ n = j - q + 1
                                      /\ n # 0 /\ i - q + 1 = n + 1
                                      /\ m + (n + 1) = i
      BY <1>1, <1>2, <3>1
    <3>5. PICK more : more = IF n = 0 THEN <<x>> ELSE <<Ip!Colon, x>>
      OBVIOUS
    <3>6. Colons(r \o more, a, m, n + 1)
      BY <3>2, <3>3, <3>4, <3>5, ColonsMore
    <3>7. more = <<Ip!Colon, x>> /\ more \in Seq(Int) /\ r \in Seq(Int)
      <4>1. Ip!Colon \in Int
        BY DEF Ip!Colon
      <4>2. more = <<Ip!Colon, x>>
        BY <3>4, <3>5
      <4> QED BY <3>2, <3>3, <4>1, <4>2 DEF Colons
    <3>8. w = out \o more
      BY <1>4, <2>7, <3>3, <3>7, ContinuedAfter
    <3>9. w = v \o (r \o more)
      <4>1. v \in Seq(Int) /\ r \in Seq(Int) /\ more \in Seq(Int)
        BY <2>4, <3>7
      <4>2. (v \o r) \o more = v \o (r \o more)
        BY <4>1, TextsAssociative
      <4> QED BY <3>2, <3>8, <4>2, Zenon
    <3>10. Colons(r \o more, a, q - 1, i - q + 1)
      BY <3>4, <3>6
    <3> QED BY <1>4, <2>1, <2>2, <2>3, <3>1, <3>9, <3>10 DEF Upto
  <2> QED BY <1>1, <2>5, <2>6, <2>7
<1> QED BY <1>1, <1>5, <1>6

LEMMA PrintedForm ==
    ASSUME NEW a \in Ip!V6, NEW p, NEW q, FirstZeros(a, p, q)
    PROVE  Upto(Ip!Printed(a), a, p, q, 8)
<1>1. PICK g \in [0 .. 8 -> Seq(Int)] :
          /\ g[0] = <<>> /\ Ip!Printed(a) = g[8]
          /\ \A i \in 1 .. 8 : g[i] = Continued(a, g[i - 1], i)
  BY PrintedGrows
<1> DEFINE T == {i \in 0 .. 8 : Upto(g[i], a, p, q, i)}
<1>2. 0 \in T
  <2>1. p \in 1 .. 9 /\ q \in p .. 9
    BY DEF FirstZeros
  <2>2. 0 \in 0 .. 8 /\ 0 < p /\ 0 < q /\ ~(0 >= q)
    BY <2>1
  <2>3. Colons(<<>>, a, 0, 0)
    BY ColonsNone
  <2>4. Upto(<<>>, a, p, q, 0)
    BY <2>2, <2>3 DEF Upto
  <2> QED BY <1>1, <2>2, <2>4
<1>3. ASSUME NEW i \in 1 .. 8, i - 1 \in T PROVE i \in T
  <2>1. PICK out \in Seq(Int) : out = g[i - 1]
    OBVIOUS
  <2>2. Upto(out, a, p, q, i - 1)
    BY <1>3, <2>1
  <2>3. Upto(Continued(a, out, i), a, p, q, i)
    BY <2>2, UptoNext
  <2>4. g[i] = Continued(a, out, i) /\ i \in 0 .. 8
    BY <1>1, <2>1
  <2> QED BY <2>3, <2>4
<1>4. 8 \in T
  <2>1. 8 \in Nat /\ 8 \in 0 .. 8
    OBVIOUS
  <2> HIDE DEF T
  <2> QED BY <1>2, <1>3, <2>1, AllUpTo
<1> QED BY <1>1, <1>4

LEMMA PrintedParts ==
    ASSUME NEW a \in Ip!V6, NEW p, NEW q, FirstZeros(a, p, q)
    PROVE  \E u : /\ Colons(u, a, 0, p - 1)
                  /\ q = 9 => Ip!Printed(a) = u
                  /\ q # 9 => \E r : /\ Colons(r, a, q - 1, 9 - q)
                                     /\ Ip!Printed(a)
                                            = (u \o <<Ip!Colon, Ip!Colon>>) \o r
<1>1. p \in 1 .. 9 /\ q \in p .. 9
  BY DEF FirstZeros
<1>2. Upto(Ip!Printed(a), a, p, q, 8)
  BY PrintedForm
<1>3. (IF 8 < p THEN 8 ELSE p - 1) = p - 1 /\ 8 - q + 1 = 9 - q
      /\ (8 < q <=> q = 9) /\ (8 >= q <=> q # 9)
  BY <1>1
<1> QED BY <1>2, <1>3 DEF Upto

\* to_string() writes a text of the address, unless the zeros reach to its end.
LEMMA PrintedTexts ==
    ASSUME NEW a \in Ip!V6, Ip!ZerosEnd(a) \/ Ip!UsedZero(a, 8)
    PROVE  Ip!Denotes(Ip!Printed(a), a)
<1>1. PICK p, q : FirstZeros(a, p, q)
  BY ZerosExist
<1>2. p \in 1 .. 9 /\ q \in p .. 9
  BY <1>1 DEF FirstZeros
<1>3. PICK u : /\ Colons(u, a, 0, p - 1)
               /\ q = 9 => Ip!Printed(a) = u
               /\ q # 9 => \E r : /\ Colons(r, a, q - 1, 9 - q)
                                  /\ Ip!Printed(a)
                                         = (u \o <<Ip!Colon, Ip!Colon>>) \o r
  BY <1>1, PrintedParts
<1>4. PICK n \in Nat : n = p - 1
  BY <1>2
<1>5. u = Ip!Joined(SubSeq(a, 1, p - 1))
  <2>1. \A k \in 1 .. n : a[0 + k] \in Int
    <3>1. \A k \in 1 .. n : k \in 1 .. 8 /\ 0 + k = k
      BY <1>2, <1>4
    <3> QED BY <3>1, Segments
  <2>2. 0 \in Nat
    OBVIOUS
  <2>3. Colons(Ip!Joined(SubSeq(a, 0 + 1, 0 + n)), a, 0, n)
    BY <2>1, <2>2, JoinedColons
  <2>4. 0 + 1 = 1 /\ 0 + n = p - 1
    BY <1>4
  <2> QED BY <1>3, <1>4, <2>2, <2>3, <2>4, ColonsUnique
<1>6. CASE q = 9
  <2>1. ~Ip!UsedZero(a, 8)
    BY <1>1, <1>6, ZerosUsed
  <2>2. p = 9
    <3>1. ASSUME p # 9 PROVE FALSE
      <4>1. p \in 1 .. 8 /\ p \in p .. q - 1 /\ \A j \in p .. 8 : j \in p .. q - 1
        BY <1>2, <1>6, <3>1
      <4>2. a[p] = 0 /\ \A j \in p .. 8 : a[j] = 0
        BY <1>1, <4>1 DEF FirstZeros
      <4> QED BY <2>1, <4>1, <4>2 DEF Ip!ZerosEnd
    <3> QED BY <3>1
  <2>3. SubSeq(a, 1, 8) = a
    <3>1. a = [k \in 1 .. 8 |-> a[k]]
      BY DEF Ip!V6
    <3>2. SubSeq(a, 1, 8) = [k \in 1 .. 8 |-> a[k]]
      <4>1. 8 - 1 + 1 = 8 /\ \A k \in 1 .. 8 : k + 1 - 1 = k
        OBVIOUS
      <4> QED BY <4>1
    <3> QED BY <3>1, <3>2
  <2>4. p - 1 = 8
    BY <2>2
  <2> QED BY <1>3, <1>5, <1>6, <2>3, <2>4 DEF Ip!Denotes
<1>7. CASE q # 9
  <2>1. PICK r : /\ Colons(r, a, q - 1, 9 - q)
                 /\ Ip!Printed(a) = (u \o <<Ip!Colon, Ip!Colon>>) \o r
    BY <1>3, <1>7
  <2>2. PICK m \in Nat, l \in Nat : m = q - 1 /\ l = 9 - q
    BY <1>2
  <2>3. r = Ip!Joined(SubSeq(a, q, 8))
    <3>1. \A k \in 1 .. l : a[m + k] \in Int
      <4>1. \A k \in 1 .. l : m + k \in 1 .. 8
        BY <1>2, <2>2
      <4> QED BY <4>1, Segments
    <3>2. Colons(Ip!Joined(SubSeq(a, m + 1, m + l)), a, m, l)
      BY <3>1, JoinedColons
    <3>3. m + 1 = q /\ m + l = 8
      BY <1>2, <2>2
    <3> QED BY <2>1, <2>2, <3>2, <3>3, ColonsUnique
  <2>4. p < q
    BY <1>1, <1>7 DEF FirstZeros
  <2>5. PICK j : j = q - 1
    OBVIOUS
  <2>6. p \in 1 .. 8 /\ j \in p .. 8 /\ j + 1 = q
    BY <1>2, <1>7, <2>4, <2>5
  <2>7. \A k \in p .. j : a[k] = 0
    BY <1>1, <2>5 DEF FirstZeros
  <2>8. Ip!Printed(a) = (Ip!Joined(SubSeq(a, 1, p - 1)) \o <<Ip!Colon, Ip!Colon>>)
                             \o Ip!Joined(SubSeq(a, j + 1, 8))
    BY <1>5, <2>1, <2>3, <2>6
  <2> QED BY <2>6, <2>7, <2>8 DEF Ip!Denotes
<1> QED BY <1>6, <1>7

\* w is u, of length l, and then v, of length h.
Joint(w, u, v, l, h) ==
    /\ w \in Seq(Int) /\ Len(w) = l + h
    /\ \A i \in 1 .. l : w[i] = u[i]
    /\ \A i \in 1 .. h : w[l + i] = v[i]

LEMMA TwoTexts ==
    ASSUME NEW u \in Seq(Int), NEW v \in Seq(Int), NEW l \in Nat, NEW h \in Nat,
           Len(u) = l, Len(v) = h
    PROVE  Joint(u \o v, u, v, l, h)
<1> DEFINE w == u \o v
<1>1. w \in Seq(Int) /\ Len(w) = l + h
  BY ConcatProperties
<1>2. \A i \in 1 .. l + h : w[i] = IF i <= l THEN u[i] ELSE v[i - l]
  BY ConcatProperties
<1> HIDE DEF w
<1>3. ASSUME NEW i \in 1 .. l PROVE w[i] = u[i]
  <2>1. i \in 1 .. l + h /\ i <= l
    OBVIOUS
  <2> QED BY <1>2, <2>1
<1>4. ASSUME NEW i \in 1 .. h PROVE w[l + i] = v[i]
  <2>1. l + i \in 1 .. l + h /\ ~(l + i <= l) /\ (l + i) - l = i
    OBVIOUS
  <2> QED BY <1>2, <2>1
<1> QED BY <1>1, <1>3, <1>4 DEF Joint, w

\* How long the text of the segments before the p-th is.
Front(p) == IF p = 1 THEN 0 ELSE 2 * p - 3

\* Where the text of a has what.
Places(out, a, p, q) ==
    /\ \A k \in 1 .. p - 1 : Len(out) >= 2 * k - 1 /\ out[2 * k - 1] = a[k]
    /\ q = 9 => Len(out) = Front(p)
    /\ q # 9 => /\ Len(out) = Front(p) + 19 - 2 * q
                /\ out[Front(p) + 1] = Ip!Colon
                /\ out[Front(p) + 2] = Ip!Colon
                /\ \A k \in q .. 8 :
                       out[Front(p) + 2 + (2 * (k - q + 1) - 1)] = a[k]

LEMMA PrintedPlaces ==
    ASSUME NEW a \in Ip!V6, NEW p, NEW q, FirstZeros(a, p, q)
    PROVE  Places(Ip!Printed(a), a, p, q)
<1>1. p \in 1 .. 9 /\ q \in p .. 9
  BY DEF FirstZeros
<1>2. PICK out : out = Ip!Printed(a)
  OBVIOUS
<1>3. PICK u : /\ Colons(u, a, 0, p - 1)
               /\ q = 9 => out = u
               /\ q # 9 => \E r : /\ Colons(r, a, q - 1, 9 - q)
                                  /\ out = (u \o <<Ip!Colon, Ip!Colon>>) \o r
  BY <1>2, PrintedParts
<1>4. PICK l \in Nat : l = Front(p)
  BY <1>1 DEF Front
<1>5. u \in Seq(Int) /\ Len(u) = l
  BY <1>1, <1>3, <1>4 DEF Colons, Front
<1>6. \A k \in 1 .. p - 1 : l >= 2 * k - 1 /\ u[2 * k - 1] = a[k]
  <2>1. \A k \in 1 .. p - 1 : l >= 2 * k - 1 /\ 0 + k = k
    BY <1>1, <1>4 DEF Front
  <2>2. \A k \in 1 .. p - 1 : u[2 * k - 1] = a[0 + k]
    BY <1>3 DEF Colons
  <2> QED BY <2>1, <2>2
<1>7. CASE q = 9
  BY <1>2, <1>3, <1>4, <1>5, <1>6, <1>7 DEF Places
<1>8. CASE q # 9
  <2>1. PICK r : /\ Colons(r, a, q - 1, 9 - q)
                 /\ out = (u \o <<Ip!Colon, Ip!Colon>>) \o r
    BY <1>3, <1>8
  <2>2. PICK h \in Nat : h = 17 - 2 * q
    BY <1>1, <1>8
  <2>3. r \in Seq(Int) /\ Len(r) = h
    BY <1>1, <1>8, <2>1, <2>2 DEF Colons
  <2>4. PICK cc : cc = <<Ip!Colon, Ip!Colon>>
    OBVIOUS
  <2>5. cc \in Seq(Int) /\ Len(cc) = 2 /\ cc[1] = Ip!Colon /\ cc[2] = Ip!Colon
    <3>1. Ip!Colon \in Int
      BY DEF Ip!Colon
    <3> QED BY <2>4, <3>1
  <2>6. PICK v : v = u \o cc
    OBVIOUS
  <2>7. /\ v \in Seq(Int) /\ Len(v) = l + 2
        /\ \A i \in 1 .. l : v[i] = u[i]
        /\ v[l + 1] = Ip!Colon /\ v[l + 2] = Ip!Colon
    <3>1. 2 \in Nat /\ 1 \in 1 .. 2 /\ 2 \in 1 .. 2
      OBVIOUS
    <3>2. Joint(v, u, cc, l, 2)
      BY <1>5, <2>5, <2>6, <3>1, TwoTexts
    <3> QED BY <2>5, <3>1, <3>2 DEF Joint
  <2>8. out = v \o r
    BY <2>1, <2>4, <2>6
  <2>9. /\ Len(out) = l + 2 + h
        /\ \A i \in 1 .. l + 2 : out[i] = v[i]
        /\ \A i \in 1 .. h : out[l + 2 + i] = r[i]
    <3>1. PICK n \in Nat : n = l + 2
      OBVIOUS
    <3>2. v \in Seq(Int) /\ Len(v) = n
      BY <2>7, <3>1
    <3>3. Joint(out, v, r, n, h)
      BY <2>3, <2>8, <3>2, TwoTexts
    <3> QED BY <3>1, <3>3 DEF Joint
  <2>10. \A k \in 1 .. p - 1 : Len(out) >= 2 * k - 1 /\ out[2 * k - 1] = a[k]
    <3> TAKE k \in 1 .. p - 1
    <3>1. PICK i : i = 2 * k - 1
      OBVIOUS
    <3>2. i \in 1 .. l /\ i \in 1 .. l + 2 /\ u[i] = a[k]
      BY <1>1, <1>6, <3>1
    <3>3. out[i] = a[k] /\ Len(out) >= i
      BY <2>7, <2>9, <3>2
    <3> QED BY <3>1, <3>3
  <2>11. \A k \in q .. 8 : out[l + 2 + (2 * (k - q + 1) - 1)] = a[k]
    <3> TAKE k \in q .. 8
    <3>1. PICK j \in 1 .. 9 - q : j = k - q + 1 /\ (q - 1) + j = k
      BY <1>1
    <3>2. PICK i \in 1 .. h : i = 2 * j - 1
      BY <1>1, <2>2, <3>1
    <3>3. r[2 * j - 1] = a[(q - 1) + j]
      BY <2>1 DEF Colons
    <3>4. out[l + 2 + i] = a[k]
      BY <2>9, <3>1, <3>2, <3>3
    <3> QED BY <3>1, <3>2, <3>4
  <2>12. l + 1 \in 1 .. l + 2 /\ l + 2 \in 1 .. l + 2
    OBVIOUS
  <2>13. out[l + 1] = Ip!Colon /\ out[l + 2] = Ip!Colon
    BY <2>7, <2>9, <2>12
  <2>14. Len(out) = l + 19 - 2 * q
    BY <1>1, <2>2, <2>9
  <2> QED BY <1>2, <1>4, <1>8, <2>10, <2>11, <2>13, <2>14 DEF Places
<1> QED BY <1>7, <1>8

LEMMA ZerosNotEarlier ==
    ASSUME NEW a \in Ip!V6, NEW p, NEW q, FirstZeros(a, p, q),
           NEW b \in Ip!V6, NEW s, NEW t, FirstZeros(b, s, t),
           NEW out, Places(out, a, p, q), Places(out, b, s, t)
    PROVE  ~(p < s)
<1> SUFFICES ASSUME p < s PROVE FALSE
  OBVIOUS
<1>1. p \in 1 .. 9 /\ q \in p .. 9 /\ s \in 1 .. 9
  BY DEF FirstZeros
<1>2. p \in 1 .. s - 1 /\ p \in 1 .. 8
  BY <1>1
<1>3. Len(out) >= 2 * p - 1 /\ out[2 * p - 1] = b[p] /\ b[p] # Ip!Colon
  <2>1. b[p] # Ip!Colon
    BY <1>2, Segments
  <2>2. Len(out) >= 2 * p - 1 /\ out[2 * p - 1] = b[p]
    BY <1>2 DEF Places
  <2> QED BY <2>1, <2>2
<1>4. CASE q = 9
  <2>1. Len(out) = Front(p)
    BY <1>4 DEF Places
  <2> QED BY <1>1, <1>3, <2>1 DEF Front
<1>5. CASE q # 9
  <2>1. out[Front(p) + 1] = Ip!Colon /\ out[Front(p) + 2] = Ip!Colon
    BY <1>5 DEF Places
  <2>2. 2 * p - 1 = Front(p) + 1 \/ 2 * p - 1 = Front(p) + 2
    BY <1>1 DEF Front
  <2> QED BY <1>3, <2>1, <2>2
<1> QED BY <1>4, <1>5

\* Two addresses of one text are the same.
LEMMA PrintedApart ==
    ASSUME NEW a \in Ip!V6, NEW b \in Ip!V6, Ip!Printed(a) = Ip!Printed(b)
    PROVE  a = b
<1>1. PICK p, q : FirstZeros(a, p, q)
  BY ZerosExist
<1>2. PICK s, t : FirstZeros(b, s, t)
  BY ZerosExist
<1>3. PICK out : out = Ip!Printed(a) /\ out = Ip!Printed(b)
  OBVIOUS
<1>4. Places(out, a, p, q) /\ Places(out, b, s, t)
  BY <1>1, <1>2, <1>3, PrintedPlaces
<1>5. p \in 1 .. 9 /\ q \in p .. 9 /\ s \in 1 .. 9 /\ t \in s .. 9
  BY <1>1, <1>2 DEF FirstZeros
<1>6. ~(p < s) /\ ~(s < p)
  BY <1>1, <1>2, <1>4, ZerosNotEarlier
<1>7. p = s
  BY <1>5, <1>6
<1>8. PICK l \in Nat : l = Front(p)
  BY <1>5 DEF Front
<1>9. q = t
  <2>1. (q = 9 => Len(out) = l) /\ (q # 9 => Len(out) = l + 19 - 2 * q)
    BY <1>4, <1>8 DEF Places
  <2>2. (t = 9 => Len(out) = l) /\ (t # 9 => Len(out) = l + 19 - 2 * t)
    BY <1>4, <1>7, <1>8 DEF Places
  <2> QED BY <1>5, <2>1, <2>2
<1>10. ASSUME NEW k \in 1 .. 8 PROVE a[k] = b[k]
  <2>1. CASE k \in 1 .. p - 1
    BY <1>4, <1>7, <2>1 DEF Places
  <2>2. CASE k \in p .. q - 1
    BY <1>1, <1>2, <1>7, <1>9, <2>2 DEF FirstZeros
  <2>3. CASE k \in q .. 8
    <3>1. q # 9
      BY <1>5, <2>3
    <3>2. /\ out[Front(p) + 2 + (2 * (k - q + 1) - 1)] = a[k]
          /\ out[Front(p) + 2 + (2 * (k - q + 1) - 1)] = b[k]
      BY <1>4, <1>7, <1>9, <2>3, <3>1 DEF Places
    <3> QED BY <3>2
  <2> QED BY <1>5, <2>1, <2>2, <2>3
<1>11. a = [k \in 1 .. 8 |-> a[k]] /\ b = [k \in 1 .. 8 |-> b[k]]
  BY DEF Ip!V6
<1> QED BY <1>10, <1>11

-----------------------------------------------------------------------------
(* ip_address, from text and in socket addresses.                           *)

LEMMA AddressAsked ==
    ASSUME Asked
    PROVE  /\ About("v4") => question.value \in Ip!V4 /\ question.value \in V4s
           /\ About("v6") => question.value \in Ip!V6 /\ question.value \in V6s
           /\ About("text4") => question.value \in Texts4
           /\ About("text6") => question.value \in Texts6
BY QuestionsApart, PartAssumptions DEF PartAssumptions, Ip!AddressAssumption

LEMMA TextsMade == ASSUME Asked PROVE Ip!V4TextsMade /\ Ip!V6TextsMade
<1>1. ASSUME About("text4") PROVE Ip!V4TextsMade
  <2>1. PICK t \in Texts4 : t = question.value
    BY <1>1, AddressAsked
  <2>2. /\ t.colons = FALSE /\ t.fields \in Seq(Ip!Field)
        /\ t.dots <=> Len(t.fields) > 1
    BY PartAssumptions DEF PartAssumptions, Ip!AddressAssumption
  <2>3. PICK f \in Seq(Ip!Field) : f = t.fields
    BY <2>2
  <2>4. Ip!MakeText(t) = IF Len(f) > 1 THEN Ip!MakeV4(f) ELSE Ip!Threw
    BY <2>2, <2>3 DEF Ip!MakeText
  <2>5. Len(f) # 4 => Ip!MakeText(t) = Ip!Threw
    BY <2>4 DEF Ip!MakeV4
  <2>6. ASSUME Len(f) = 4, \A i \in 1 .. 4 : f[i].right
        PROVE  Ip!MakeText(t) = [i \in 1 .. 4 |-> f[i].number]
    <3>1. \A i \in 1 .. 4 : f[i].number % 256 = f[i].number
      <4> TAKE i \in 1 .. 4
      <4>1. PICK x \in Ip!Field : x = f[i]
        <5>1. i \in 1 .. Len(f)
          BY <2>6
        <5> QED BY <5>1, ElementOfSeq
      <4>2. x.number \in 0 .. 255
        BY <2>6, <4>1 DEF Ip!Field, Ip!Byte
      <4>3. \A n \in 0 .. 255 : n % 256 = n
        OBVIOUS
      <4> QED BY <4>1, <4>2, <4>3
    <3>2. Ip!MakeText(t) = [i \in 1 .. 4 |-> f[i].number % 256]
      BY <2>4, <2>6 DEF Ip!MakeV4
    <3> QED BY <3>1, <3>2
  <2> QED BY <2>1, <2>3, <2>5, <2>6 DEF Ip!V4TextsMade, Ip!value
<1>2. ASSUME About("text6") PROVE Ip!V6TextsMade
  <2>1. PICK t \in Texts6 : t = question.value
    BY <1>2, AddressAsked
  <2>2. t.colons = TRUE
    BY PartAssumptions DEF PartAssumptions, Ip!AddressAssumption
  <2>3. Ip!MakeText(t) = Ip!MakeV6(t)
    BY <2>2 DEF Ip!MakeText
  <2>4. t.valid /\ t.fits /\ t.value # Ip!Zero6 => Ip!MakeV6(t) = t.value
    BY DEF Ip!MakeV6
  <2> QED BY <2>1, <2>3, <2>4 DEF Ip!V6TextsMade, Ip!value
<1> QED BY <1>1, <1>2 DEF Ip!V4TextsMade, Ip!V6TextsMade, Ip!About, About

LEMMA PrintedMade == ASSUME Asked PROVE Ip!V4PrintedMade
<1> SUFFICES ASSUME About("v4") PROVE Ip!V4PrintedMade
  BY DEF Ip!V4PrintedMade, Ip!About, About
<1>1. PICK a : a = question.value /\ a \in [1 .. 4 -> 0 .. 255]
  BY AddressAsked DEF Ip!V4, Ip!Byte
<1>2. PICK t : t = Ip!PrintedV4(a)
  OBVIOUS
<1>3. PICK f : f = [i \in 1 .. 4 |-> [number |-> a[i], right |-> TRUE]]
  OBVIOUS
<1>4. t.dots = TRUE /\ t.colons = FALSE /\ t.fields = f
  BY <1>2, <1>3 DEF Ip!PrintedV4
<1>5. Len(f) = 4
  BY <1>3
<1>6. \A i \in 1 .. 4 : f[i].number % 256 = a[i]
  BY <1>1, <1>3
<1>7. Ip!MakeText(t) = [i \in 1 .. 4 |-> f[i].number % 256]
  BY <1>4, <1>5 DEF Ip!MakeText, Ip!MakeV4
<1>8. Ip!MakeText(t) = [i \in 1 .. 4 |-> a[i]]
  BY <1>6, <1>7
<1> QED BY <1>1, <1>2, <1>8 DEF Ip!V4PrintedMade, Ip!value

LEMMA InWord ==
    /\ \A n \in Ip!Word : n \in Int /\ 0 <= n /\ n < 65536
    /\ \A n \in Int : 0 <= n /\ n < 65536 => n \in Ip!Word
<1>1. \A n \in Ip!Word : n \in Int /\ 0 <= n /\ n < 65536
  BY DEF Ip!Word
<1>2. ASSUME NEW n \in Int, 0 <= n, n < 65536 PROVE n \in Ip!Word
  <2>1. PICK m \in Nat : m = 65535
    OBVIOUS
  <2>2. n <= m
    BY <1>2, <2>1
  <2>3. n \in 0 .. m
    BY <1>2, <2>2
  <2>4. 0 .. m = Ip!Word
    BY <2>1 DEF Ip!Word
  <2> QED BY <2>3, <2>4
<1> QED BY <1>1, <1>2

\* n in network order: the high byte first; and back.
LEMMA Swapped ==
    ASSUME NEW n \in Ip!Word
    PROVE  /\ Ip!Memory(Ip!htons(n)) = <<n \div 256, n % 256>>
           /\ Ip!Number(Ip!Memory(Ip!htons(n))) = Ip!htons(n)
           /\ Ip!ntohs(Ip!htons(n)) = n
           /\ 256 * (n \div 256) + (n % 256) = n
           /\ n \div 256 \in 0 .. 255 /\ n % 256 \in 0 .. 255
<1>1. n \in Int /\ 0 <= n /\ n < 65536
  BY InWord
<1>2. PICK h \in 0 .. 255, l \in 0 .. 255 :
          h = n \div 256 /\ l = n % 256 /\ n = 256 * h + l
  <2>1. n \div 256 \in 0 .. 255 /\ n % 256 \in 0 .. 255
    BY <1>1
  <2>2. n = 256 * (n \div 256) + (n % 256)
    BY <1>1
  <2> QED BY <2>1, <2>2
<1>3. Ip!htons(n) = l * 256 + h
  BY <1>2 DEF Ip!htons
<1>4. PICK m \in Nat : m = l * 256 + h
  BY <1>2
<1>5. m % 256 = h /\ m \div 256 = l
  BY <1>2, <1>4
<1>6. Ip!htons(n) = m /\ Ip!Memory(m) = <<h, l>>
  BY <1>3, <1>4, <1>5 DEF Ip!Memory
<1>7. Ip!Number(<<h, l>>) = m
  BY <1>2, <1>4 DEF Ip!Number
<1>8. Ip!ntohs(m) = n
  BY <1>2, <1>5 DEF Ip!ntohs, Ip!htons
<1> QED BY <1>2, <1>6, <1>7, <1>8

\* Pairs(out, a, n): out has the first n segments of a, the high bytes first.
Pairs(out, a, n) ==
    /\ out \in Seq(Int) /\ Len(out) = 2 * n
    /\ \A k \in 1 .. n : /\ out[2 * k - 1] = a[k] \div 256
                         /\ out[2 * k] = a[k] % 256

LEMMA PairsMore ==
    ASSUME NEW a \in Ip!V6, NEW n \in 0 .. 7, NEW out, Pairs(out, a, n), NEW more,
           more = Ip!Memory(Ip!htons(a[n + 1]))
    PROVE  Pairs(out \o more, a, n + 1)
<1>1. PICK h \in Int, l \in Int : h = a[n + 1] \div 256 /\ l = a[n + 1] % 256
  <2>1. a[n + 1] \in Ip!Word
    <3>1. n + 1 \in 1 .. 8
      OBVIOUS
    <3> QED BY <3>1, Segments
  <2>2. PICK x \in Ip!Word : x = a[n + 1]
    BY <2>1
  <2>3. x \div 256 \in Int /\ x % 256 \in Int
    BY <2>2, Swapped
  <2> QED BY <2>2, <2>3
<1>2. more = <<h, l>>
  <2>1. n + 1 \in 1 .. 8
    OBVIOUS
  <2>2. PICK x \in Ip!Word : x = a[n + 1]
    BY <2>1, Segments
  <2>3. Ip!Memory(Ip!htons(x)) = <<x \div 256, x % 256>>
    BY <2>2, Swapped
  <2> QED BY <1>1, <2>2, <2>3
<1>3. more \in Seq(Int) /\ Len(more) = 2 /\ more[1] = h /\ more[2] = l
  BY <1>2
<1>4. PICK m \in Nat : m = 2 * n
  OBVIOUS
<1>5. out \in Seq(Int) /\ Len(out) = m /\ 2 \in Nat
  BY <1>4 DEF Pairs
<1>6. PICK w : w = out \o more
  OBVIOUS
<1>7. Joint(w, out, more, m, 2)
  <2>1. more \in Seq(Int) /\ Len(more) = 2
    BY <1>3
  <2> QED BY <1>5, <1>6, <2>1, TwoTexts
<1>8. /\ w \in Seq(Int) /\ Len(w) = m + 2
      /\ \A i \in 1 .. m : w[i] = out[i]
      /\ w[m + 1] = h /\ w[m + 2] = l
  <2>1. 1 \in 1 .. 2 /\ 2 \in 1 .. 2
    OBVIOUS
  <2> QED BY <1>3, <1>7, <2>1 DEF Joint
<1>9. ASSUME NEW k \in 1 .. n + 1
      PROVE  w[2 * k - 1] = a[k] \div 256 /\ w[2 * k] = a[k] % 256
  <2>1. CASE k \in 1 .. n
    <3>1. PICK i \in 1 .. m, j \in 1 .. m : i = 2 * k - 1 /\ j = 2 * k
      BY <1>4, <2>1
    <3>2. out[2 * k - 1] = a[k] \div 256 /\ out[2 * k] = a[k] % 256
      BY <2>1 DEF Pairs
    <3> QED BY <1>8, <3>1, <3>2
  <2>2. CASE k = n + 1
    <3>1. 2 * k - 1 = m + 1 /\ 2 * k = m + 2
      BY <1>4, <2>2
    <3> QED BY <1>1, <1>8, <2>2, <3>1
  <2> QED BY <2>1, <2>2
<1>10. m + 2 = 2 * (n + 1)
  BY <1>4
<1> QED BY <1>6, <1>8, <1>9, <1>10 DEF Pairs

LEMMA SockaddrBytes ==
    ASSUME NEW a \in Ip!V6, NEW port
    PROVE  Pairs(Ip!SockaddrV6(a, port).bytes, a, 8)
<1> DEFINE piece == [i \in 1 .. 8 |-> Ip!Memory(Ip!htons(a[i]))]
<1>1. \A i \in 1 .. 8 : piece[i] \in Seq(Int)
  <2> TAKE i \in 1 .. 8
  <2>1. PICK x \in Ip!Word : x = a[i]
    BY Segments
  <2>2. /\ Ip!Memory(Ip!htons(x)) = <<x \div 256, x % 256>>
        /\ x \div 256 \in 0 .. 255 /\ x % 256 \in 0 .. 255
    BY Swapped
  <2>3. \A h, l \in 0 .. 255 : <<h, l>> \in Seq(Int)
    OBVIOUS
  <2> QED BY <2>1, <2>2, <2>3
<1>2. piece \in [1 .. 8 -> Seq(Int)]
  BY <1>1
<1>3. Ip!SockaddrV6(a, port).bytes = Ip!FlattenSeq(piece)
  BY DEF Ip!SockaddrV6
<1>4. \A i \in 1 .. 8 : piece[i] = Ip!Memory(Ip!htons(a[i]))
  OBVIOUS
<1> HIDE DEF piece
<1>5. PICK g : Growing(g, piece, 8) /\ Ip!FlattenSeq(piece) = g[8]
  <2>1. 8 \in Nat
    OBVIOUS
  <2> QED BY <1>2, <2>1, FlattenGrows
<1> DEFINE T == {i \in 0 .. 8 : Pairs(g[i], a, i)}
<1>6. 0 \in T
  <2>1. <<>> \in Seq(Int) /\ Len(<<>>) = 2 * 0 /\ 1 .. 0 = {} /\ 0 \in 0 .. 8
    OBVIOUS
  <2>2. Pairs(<<>>, a, 0)
    BY <2>1 DEF Pairs
  <2>3. g[0] = <<>>
    BY <1>5 DEF Growing
  <2> QED BY <2>1, <2>2, <2>3
<1>7. ASSUME NEW i \in 1 .. 8, i - 1 \in T PROVE i \in T
  <2>1. PICK n \in 0 .. 7 : n = i - 1 /\ i = n + 1
    OBVIOUS
  <2>2. Pairs(g[n], a, n) /\ g[i] = g[n] \o piece[i]
    BY <1>5, <1>7, <2>1 DEF Growing
  <2>3. PICK more : more = piece[i] /\ more = Ip!Memory(Ip!htons(a[n + 1]))
    BY <1>4, <2>1
  <2>4. Pairs(g[n] \o more, a, n + 1)
    BY <2>2, <2>3, PairsMore
  <2>5. Pairs(g[i], a, i)
    BY <2>1, <2>2, <2>3, <2>4
  <2>6. i \in 0 .. 8
    OBVIOUS
  <2> QED BY <2>5, <2>6
<1>8. 8 \in T
  <2>1. 8 \in Nat /\ 8 \in 0 .. 8
    OBVIOUS
  <2> HIDE DEF T
  <2> QED BY <1>6, <1>7, <2>1, AllUpTo
<1> QED BY <1>3, <1>5, <1>8

\* Where the bytes of a version 6 address lie, and what they say.
LEMMA BytesRight ==
    ASSUME NEW a \in Ip!V6, NEW port, NEW bytes,
           bytes = Ip!SockaddrV6(a, port).bytes
    PROVE  /\ DOMAIN bytes = 1 .. 16 /\ bytes = [i \in 1 .. 16 |-> bytes[i]]
           /\ \A i \in 1 .. 8 :
                  /\ Ip!Pair(bytes, i) = Ip!Memory(Ip!htons(a[i]))
                  /\ 256 * Ip!Pair(bytes, i)[1] + Ip!Pair(bytes, i)[2] = a[i]
<1>1. Pairs(bytes, a, 8)
  BY SockaddrBytes
<1>2. bytes \in Seq(Int) /\ Len(bytes) = 16
  BY <1>1 DEF Pairs
<1>3. DOMAIN bytes = 1 .. 16 /\ bytes = [i \in 1 .. 16 |-> bytes[i]]
  <2>1. DOMAIN bytes = 1 .. 16 /\ bytes = [i \in DOMAIN bytes |-> bytes[i]]
    BY <1>2
  <2> QED BY <2>1
<1>4. ASSUME NEW i \in 1 .. 8
      PROVE  /\ Ip!Pair(bytes, i) = Ip!Memory(Ip!htons(a[i]))
             /\ 256 * Ip!Pair(bytes, i)[1] + Ip!Pair(bytes, i)[2] = a[i]
  <2>1. PICK x \in Ip!Word : x = a[i]
    BY Segments
  <2>2. bytes[2 * i - 1] = x \div 256 /\ bytes[2 * i] = x % 256
    BY <1>1, <2>1 DEF Pairs
  <2>3. Ip!Pair(bytes, i) = <<x \div 256, x % 256>>
    BY <2>2 DEF Ip!Pair
  <2>4. Ip!Memory(Ip!htons(x)) = <<x \div 256, x % 256>>
        /\ 256 * (x \div 256) + (x % 256) = x
    BY Swapped
  <2> QED BY <2>1, <2>3, <2>4
<1> QED BY <1>3, <1>4

LEMMA PortBack ==
    ASSUME NEW port \in Ip!Word
    PROVE  Ip!ntohs(Ip!Number(Ip!Memory(Ip!htons(port)))) = port
BY Swapped

LEMMA BackV4 ==
    ASSUME NEW a, NEW port \in Ip!Word
    PROVE  /\ Ip!Make(Ip!SockaddrV4(a, port), 16) = <<a, port>>
           /\ Ip!Make(Ip!SockaddrV4(a, port), 15) = Ip!Threw
<1>1. PICK sa : sa = Ip!SockaddrV4(a, port)
  OBVIOUS
<1>2. sa.family = "AF_INET" /\ sa.port = Ip!Memory(Ip!htons(port)) /\ sa.bytes = a
  BY <1>1 DEF Ip!SockaddrV4
<1>3. Ip!Make(sa, 16) = <<Ip!FromSockaddrV4(sa), Ip!ntohs(Ip!Number(sa.port))>>
      /\ Ip!Make(sa, 15) = Ip!Threw
  BY <1>2 DEF Ip!Make
<1> QED BY <1>1, <1>2, <1>3, PortBack DEF Ip!FromSockaddrV4

LEMMA BackV6 ==
    ASSUME NEW a \in Ip!V6, NEW port \in Ip!Word
    PROVE  /\ Ip!Make(Ip!SockaddrV6(a, port), 28) = <<a, port>>
           /\ Ip!Make(Ip!SockaddrV6(a, port), 27) = Ip!Threw
<1>1. PICK sa : sa = Ip!SockaddrV6(a, port)
  OBVIOUS
<1>2. sa.family = "AF_INET6" /\ sa.port = Ip!Memory(Ip!htons(port))
  BY <1>1 DEF Ip!SockaddrV6
<1>3. Ip!Make(sa, 28) = <<Ip!FromSockaddrV6(sa), Ip!ntohs(Ip!Number(sa.port))>>
      /\ Ip!Make(sa, 27) = Ip!Threw
  BY <1>2 DEF Ip!Make
<1>4. Ip!FromSockaddrV6(sa)
          = [i \in 1 .. 8 |-> Ip!ntohs(Ip!Number(Ip!Pair(sa.bytes, i)))]
  BY <1>2 DEF Ip!FromSockaddrV6
<1>5. \A i \in 1 .. 8 : Ip!ntohs(Ip!Number(Ip!Pair(sa.bytes, i))) = a[i]
  <2> TAKE i \in 1 .. 8
  <2>1. PICK x \in Ip!Word : x = a[i]
    BY Segments
  <2>2. Ip!Pair(sa.bytes, i) = Ip!Memory(Ip!htons(x))
    BY <1>1, <2>1, BytesRight
  <2> QED BY <2>1, <2>2, PortBack
<1>6. a = [i \in 1 .. 8 |-> a[i]]
  BY DEF Ip!V6
<1>7. Ip!FromSockaddrV6(sa) = a
  BY <1>4, <1>5, <1>6
<1> QED BY <1>1, <1>2, <1>3, <1>7, PortBack

LEMMA PortsAreWords == Ports \subseteq Ip!Word /\ Lengths \subseteq Int
BY PartAssumptions DEF PartAssumptions, Ip!AddressAssumption

LEMMA SockaddrsRight ==
    ASSUME Asked PROVE Ip!SockaddrRoundTrip /\ Ip!NetworkByteOrder
<1>1. ASSUME NEW port \in Ports, About("v4")
      PROVE  /\ Ip!Make(Ip!SockaddrV4(question.value, port), 16)
                    = <<question.value, port>>
             /\ Ip!Make(Ip!SockaddrV4(question.value, port), 15) = Ip!Threw
  BY PortsAreWords, BackV4
<1>2. ASSUME NEW port \in Ports, About("v6")
      PROVE  /\ Ip!Make(Ip!SockaddrV6(Ip!FromSegments(question.value), port), 28)
                    = <<question.value, port>>
             /\ Ip!Make(Ip!SockaddrV6(question.value, port), 27) = Ip!Threw
  <2>1. PICK a \in Ip!V6 : a = question.value
    BY <1>2, AddressAsked
  <2>2. Len(a) = 8
    BY DEF Ip!V6
  <2>3. Ip!FromSegments(a) = a
    BY <2>2 DEF Ip!FromSegments
  <2> QED BY <2>1, <2>3, PortsAreWords, BackV6
<1>3. ASSUME NEW port \in Ports, About("v6"), NEW i \in 1 .. 8
      PROVE  LET sa == Ip!SockaddrV6(question.value, port)
             IN /\ 256 * Ip!Pair(sa.bytes, i)[1] + Ip!Pair(sa.bytes, i)[2]
                       = question.value[i]
                /\ 256 * sa.port[1] + sa.port[2] = port
  <2>1. PICK a \in Ip!V6 : a = question.value
    BY <1>3, AddressAsked
  <2>2. PICK sa : sa = Ip!SockaddrV6(a, port)
    OBVIOUS
  <2>3. 256 * Ip!Pair(sa.bytes, i)[1] + Ip!Pair(sa.bytes, i)[2] = a[i]
    BY <2>2, BytesRight
  <2>4. sa.port = Ip!Memory(Ip!htons(port))
    BY <2>2 DEF Ip!SockaddrV6
  <2>5. PICK x \in Ip!Word : x = port
    BY PortsAreWords
  <2>6. sa.port = <<x \div 256, x % 256>> /\ 256 * (x \div 256) + (x % 256) = x
    BY <2>4, <2>5, Swapped
  <2>7. 256 * sa.port[1] + sa.port[2] = x
    BY <2>6
  <2> QED BY <2>1, <2>2, <2>3, <2>5, <2>7
<1>4. Ip!SockaddrRoundTrip
  BY <1>1, <1>2 DEF Ip!SockaddrRoundTrip, Ip!About, About, Ip!value
<1>5. Ip!NetworkByteOrder
  BY <1>3 DEF Ip!NetworkByteOrder, Ip!About, About, Ip!value
<1> QED BY <1>4, <1>5

\* v is the prefix c d z z z z, all in W, and x and y behind it.
WithPrefix(v, c, d, z, x, y, W) ==
    /\ v \in [1 .. 8 -> W]
    /\ SubSeq(v, 1, 6) = <<c, d, z, z, z, z>> /\ v[7] = x /\ v[8] = y

LEMMA Prefixed ==
    ASSUME NEW W, NEW c \in W, NEW d \in W, NEW z \in W, NEW x \in W, NEW y \in W,
           NEW v, v = <<c, d, z, z, z, z, x, y>>
    PROVE  WithPrefix(v, c, d, z, x, y, W)
<1>1. v \in [1 .. 8 -> W]
  OBVIOUS
<1>2. SubSeq(v, 1, 6) = [i \in 1 .. 6 |-> v[i]]
  <2>1. 6 - 1 + 1 = 6 /\ \A i \in 1 .. 6 : i + 1 - 1 = i
    OBVIOUS
  <2> QED BY <2>1
<1> DEFINE t == <<c, d, z, z, z, z>>
<1>3. t = [i \in 1 .. 6 |-> t[i]]
  OBVIOUS
<1>4. \A i \in 1 .. 6 : v[i] = t[i]
  OBVIOUS
<1>5. v[7] = x /\ v[8] = y
  OBVIOUS
<1> HIDE DEF t
<1>6. SubSeq(v, 1, 6) = t
  BY <1>2, <1>3, <1>4
<1> QED BY <1>1, <1>5, <1>6 DEF t, WithPrefix

\* The well-known prefix, and two segments behind it.
LEMMA PrefixRight ==
    ASSUME NEW x \in Ip!Word, NEW y \in Ip!Word,
           NEW v, v = <<100, 65435, 0, 0, 0, 0, x, y>>
    PROVE  /\ v \in Ip!V6 /\ v[7] = x /\ v[8] = y
           /\ SubSeq(v, 1, 6) = <<100, 65435, 0, 0, 0, 0>>
<1>1. PICK c, d, z : c = 100 /\ d = 65435 /\ z = 0
  OBVIOUS
<1>2. c \in Ip!Word /\ d \in Ip!Word /\ z \in Ip!Word
  BY <1>1, InWord
<1>3. v = <<c, d, z, z, z, z, x, y>>
  BY <1>1
<1>4. WithPrefix(v, c, d, z, x, y, Ip!Word)
  BY <1>2, <1>3, Prefixed
<1>5. <<c, d, z, z, z, z>> = <<100, 65435, 0, 0, 0, 0>>
  BY <1>1
<1> QED BY <1>4, <1>5 DEF WithPrefix, Ip!V6

LEMMA PairJoined ==
    ASSUME NEW a \in [1 .. 4 -> Int], NEW b, NEW c, NEW d, NEW e,
           b = a[1], c = a[2], d = a[3], e = a[4]
    PROVE  <<b, c>> \o <<d, e>> = a
<1> DEFINE s == <<b, c>>
           t == <<d, e>>
           w == s \o t
<1>1. b \in Int /\ c \in Int /\ d \in Int /\ e \in Int
  OBVIOUS
<1>2. s \in Seq(Int) /\ Len(s) = 2 /\ s[1] = b /\ s[2] = c
  BY <1>1
<1>3. t \in Seq(Int) /\ Len(t) = 2 /\ t[1] = d /\ t[2] = e
  BY <1>1
<1> HIDE DEF s, t
<1>4. Joint(w, s, t, 2, 2)
  <2>1. s \in Seq(Int) /\ Len(s) = 2 /\ t \in Seq(Int) /\ Len(t) = 2 /\ 2 \in Nat
    BY <1>2, <1>3
  <2> QED BY <2>1, TwoTexts
<1> HIDE DEF w
<1>5. w \in Seq(Int) /\ Len(w) = 4
  BY <1>4 DEF Joint
<1>6. w[1] = s[1] /\ w[2] = s[2] /\ w[2 + 1] = t[1] /\ w[2 + 2] = t[2]
  <2>1. 1 \in 1 .. 2 /\ 2 \in 1 .. 2
    OBVIOUS
  <2> QED BY <1>4, <2>1 DEF Joint
<1>7. w[1] = a[1] /\ w[2] = a[2] /\ w[3] = a[3] /\ w[4] = a[4]
  BY <1>2, <1>3, <1>6
<1>8. \A i \in 1 .. 4 : w[i] = a[i]
  BY <1>7
<1>9. w = [i \in 1 .. 4 |-> w[i]] /\ a = [i \in 1 .. 4 |-> a[i]]
  BY <1>5
<1>10. w = a
  BY <1>8, <1>9
<1> QED BY <1>10 DEF w, s, t

LEMMA EmbeddedBack == ASSUME Asked PROVE Ip!EmbeddingRecoverable
<1> SUFFICES ASSUME About("v4") PROVE Ip!EmbeddingRecoverable
  BY DEF Ip!EmbeddingRecoverable, Ip!About, About
<1>1. PICK a \in [1 .. 4 -> 0 .. 255] : a = question.value
  BY AddressAsked DEF Ip!V4, Ip!Byte
<1>2. PICK b \in 0 .. 255, c \in 0 .. 255, d \in 0 .. 255, e \in 0 .. 255 :
          b = a[1] /\ c = a[2] /\ d = a[3] /\ e = a[4]
  <2>1. a[1] \in 0 .. 255 /\ a[2] \in 0 .. 255 /\ a[3] \in 0 .. 255
        /\ a[4] \in 0 .. 255
    OBVIOUS
  <2> QED BY <2>1
<1> DEFINE x == Ip!Number(Ip!Pair(a, 1))
           y == Ip!Number(Ip!Pair(a, 2))
           v == <<100, 65435, 0, 0, 0, 0, x, y>>
<1>3. Ip!Embedded(a) = v
  BY DEF Ip!Embedded
<1>4. x = b + 256 * c /\ y = d + 256 * e
  BY <1>2 DEF Ip!Number, Ip!Pair
<1> HIDE DEF x, y
<1>5. x \in Ip!Word /\ y \in Ip!Word
  <2>1. /\ x \in Int /\ 0 <= x /\ x < 65536
        /\ y \in Int /\ 0 <= y /\ y < 65536
    BY <1>4
  <2> QED BY <2>1, InWord
<1>6. Ip!Memory(x) = <<b, c>> /\ Ip!Memory(y) = <<d, e>>
  <2>1. x % 256 = b /\ x \div 256 = c
    BY <1>4
  <2>2. y % 256 = d /\ y \div 256 = e
    BY <1>4
  <2> QED BY <2>1, <2>2 DEF Ip!Memory
<1>7. /\ v \in Ip!V6 /\ v[7] = x /\ v[8] = y
      /\ SubSeq(v, 1, 6) = <<100, 65435, 0, 0, 0, 0>>
  BY <1>5, PrefixRight
<1> HIDE DEF v
<1>8. PICK received : received = Ip!Make(Ip!SockaddrV6(v, 80), 28)[1]
  OBVIOUS
<1>9. received = v
  <2>1. 80 \in Ip!Word
    BY InWord
  <2>2. Ip!Make(Ip!SockaddrV6(v, 80), 28) = <<v, 80>>
    BY <1>7, <2>1, BackV6
  <2> QED BY <1>8, <2>2
<1>10. <<b, c>> \o <<d, e>> = a
  <2>1. a \in [1 .. 4 -> Int]
    OBVIOUS
  <2> QED BY <1>2, <2>1, PairJoined
<1>11. Ip!Memory(received[7]) \o Ip!Memory(received[8]) = a
  <2>1. received[7] = x /\ received[8] = y
    BY <1>7, <1>9
  <2>2. Ip!Memory(received[7]) = <<b, c>> /\ Ip!Memory(received[8]) = <<d, e>>
    BY <1>6, <2>1
  <2> QED BY <1>10, <2>2, Zenon
<1>12. SubSeq(received, 1, 6) = <<100, 65435, 0, 0, 0, 0>>
  BY <1>7, <1>9
<1> QED BY <1>1, <1>3, <1>8, <1>11, <1>12
        DEF Ip!EmbeddingRecoverable, Ip!value

\* s has n elements and nothing else.
Elements(s, n) == s = [i \in 1 .. n |-> s[i]]

LEMMA TruncatedWhole ==
    ASSUME NEW sa, NEW n \in Int, NEW m \in Nat, NEW bytes, NEW port, NEW family,
           sa = [family |-> family, len |-> n, port |-> port, bytes |-> bytes],
           NEW offset \in {4, 8}, offset = IF family = "AF_INET" THEN 4 ELSE 8,
           n >= offset + m, NEW len \in Int, len >= n,
           Elements(bytes, m), Elements(port, 2)
    PROVE  Ip!Truncated(sa, len) = sa
<1>1. /\ sa.family = family /\ sa.len = n /\ sa.port = port /\ sa.bytes = bytes
  OBVIOUS
<1>2. DOMAIN bytes = 1 .. m
  <2>1. DOMAIN [i \in 1 .. m |-> bytes[i]] = 1 .. m
    OBVIOUS
  <2> QED BY <2>1, Zenon DEF Elements
<1>3. len >= 2 /\ \A i \in 1 .. 2 : len >= 2 + i
  OBVIOUS
<1>4. \A i \in 1 .. m : len >= offset + i
  OBVIOUS
<1>5. [i \in 1 .. 2 |-> IF len >= 2 + i THEN port[i] ELSE 0] = port
  BY <1>3 DEF Elements
<1>6. [i \in 1 .. m |-> IF len >= offset + i THEN bytes[i] ELSE 0] = bytes
  BY <1>4 DEF Elements
<1>7. Ip!Truncated(sa, len)
          = [family |-> IF len >= 2 THEN sa.family ELSE "AF_UNSPEC", len |-> sa.len,
             port |-> [i \in 1 .. 2 |-> IF len >= 2 + i THEN port[i] ELSE 0],
             bytes |-> [i \in 1 .. m |-> IF len >= offset + i THEN bytes[i] ELSE 0]]
  BY <1>1, <1>2 DEF Ip!Truncated
<1> QED BY <1>1, <1>3, <1>5, <1>6, <1>7

LEMMA PeersNamed == ASSUME Asked PROVE Ip!PeerNamed
<1> SUFFICES ASSUME NEW port \in Ports, NEW len \in Lengths,
                    About("v4") \/ About("v6"), NEW sa,
                    sa = IF About("v4") THEN Ip!SockaddrV4(question.value, port)
                                        ELSE Ip!SockaddrV6(question.value, port)
             PROVE  /\ len >= sa.len =>
                           Ip!GetPeerName(sa, len) = <<question.value, port>>
                    /\ len < 2 => Ip!GetPeerName(sa, len) = Ip!Threw
  BY DEF Ip!PeerNamed, Ip!About, About, Ip!value
<1>1. len \in Int /\ port \in Ip!Word
  BY PortsAreWords
<1>2. PICK ports : ports = Ip!Memory(Ip!htons(port))
                   /\ ports = [i \in 1 .. 2 |-> ports[i]]
  <2>1. \A c, d : <<c, d>> = [i \in 1 .. 2 |-> <<c, d>>[i]]
    OBVIOUS
  <2> QED BY <2>1 DEF Ip!Memory
<1>3. /\ sa.family \in {"AF_INET", "AF_INET6"} /\ sa.len \in {16, 28}
  BY DEF Ip!SockaddrV4, Ip!SockaddrV6
<1>4. ASSUME len >= sa.len
      PROVE  Ip!GetPeerName(sa, len) = <<question.value, port>>
  <2>1. ~(len < 0)
    BY <1>1, <1>3, <1>4
  <2>2. Ip!GetPeerName(sa, len) = Ip!Make(Ip!Truncated(sa, len), sa.len)
    BY <2>1 DEF Ip!GetPeerName
  <2>3. CASE About("v4")
    <3>1. PICK a : a = question.value /\ DOMAIN a = 1 .. 4
                   /\ a = [i \in 1 .. 4 |-> a[i]]
      BY <2>3, AddressAsked DEF Ip!V4
    <3>2. sa = [family |-> "AF_INET", len |-> 16, port |-> ports, bytes |-> a]
      BY <1>2, <2>3, <3>1 DEF Ip!SockaddrV4
    <3>3. Ip!Truncated(sa, len) = sa
      <4>1. 16 \in Int /\ 4 \in Nat /\ len >= 16
            /\ 4 \in {4, 8} /\ 16 >= 4 + 4
            /\ 4 = IF "AF_INET" = "AF_INET" THEN 4 ELSE 8
        BY <1>4, <3>2
      <4>2. Elements(a, 4) /\ Elements(ports, 2)
        BY <1>2, <3>1 DEF Elements
      <4> QED BY <1>1, <3>2, <4>1, <4>2, TruncatedWhole
    <3> QED BY <1>1, <2>2, <2>3, <3>1, <3>2, <3>3, BackV4
  <2>4. CASE ~About("v4")
    <3>1. PICK a \in Ip!V6 : a = question.value
      BY <2>4, AddressAsked
    <3>2. PICK bytes : bytes = Ip!SockaddrV6(a, port).bytes
      OBVIOUS
    <3>3. sa = [family |-> "AF_INET6", len |-> 28, port |-> ports, bytes |-> bytes]
      BY <1>2, <2>4, <3>1, <3>2 DEF Ip!SockaddrV6
    <3>4. DOMAIN bytes = 1 .. 16 /\ bytes = [i \in 1 .. 16 |-> bytes[i]]
      BY <3>2, BytesRight
    <3>5. Ip!Truncated(sa, len) = sa
      <4>1. 28 \in Int /\ 16 \in Nat /\ len >= 28
            /\ 8 \in {4, 8} /\ 28 >= 8 + 16
            /\ 8 = IF "AF_INET6" = "AF_INET" THEN 4 ELSE 8
        BY <1>4, <3>3
      <4>2. Elements(bytes, 16) /\ Elements(ports, 2)
        BY <1>2, <3>4 DEF Elements
      <4> QED BY <1>1, <3>3, <4>1, <4>2, TruncatedWhole
    <3> QED BY <1>1, <2>2, <2>4, <3>1, <3>3, <3>5, BackV6
  <2> QED BY <2>3, <2>4
<1>5. ASSUME len < 2
      PROVE  Ip!GetPeerName(sa, len) = Ip!Threw
  <2>1. PICK t : t = Ip!Truncated(sa, len)
    OBVIOUS
  <2>2. t.family = "AF_UNSPEC"
    BY <1>1, <1>5, <2>1 DEF Ip!Truncated
  <2>3. Ip!Make(t, sa.len) = Ip!Threw
    BY <2>2 DEF Ip!Make
  <2> QED BY <2>1, <2>3 DEF Ip!GetPeerName
<1> QED BY <1>4, <1>5

LEMMA PrintedRight == ASSUME Asked PROVE Ip!PrintedDenotes /\ Ip!PrintedInjective
<1>1. Ip!PrintedDenotes
  BY AddressAsked, PrintedTexts DEF Ip!PrintedDenotes, Ip!About, About, Ip!value
<1>2. V6s \subseteq Ip!V6
  BY PartAssumptions DEF PartAssumptions, Ip!AddressAssumption
<1>3. Ip!PrintedInjective
  BY <1>2, AddressAsked, PrintedApart
     DEF Ip!PrintedInjective, Ip!About, About, Ip!value
<1> QED BY <1>1, <1>3

\* ip_address: whatever way an address takes, it stays the same address, for all
\* addresses of both versions, all ports, texts and uninitialised lengths.
THEOREM AddressesAlwaysRoundTrip == Spec => []AddressesRoundTrip
<1>1. Asked => AddressesRoundTrip
  BY TextsMade, PrintedMade, PrintedRight, SockaddrsRight, EmbeddedBack, PeersNamed
     DEF AddressesRoundTrip, Ip!AddressesRoundTrip
<1> QED BY <1>1, AlwaysAsked, PTL

-----------------------------------------------------------------------------
(* string_ext: the comparisons.                                            *)

\* The codes of two texts, of lengths n and m: f is before g by a character.
Before(f, n, g, m) == \E k \in (1 .. n) \cap (1 .. m) :
                          /\ \A i \in 1 .. k - 1 : f[i] = g[i] /\ f[i] # 0
                          /\ f[k] < g[k]
Tied(f, n, g, m) == ~Before(f, n, g, m) /\ ~Before(g, m, f, n)
NotAfter(f, n, g, m) == Before(f, n, g, m) \/ (Tied(f, n, g, m) /\ n <= m)

LEMMA BeforeOneWay ==
    ASSUME NEW n \in Nat, NEW f \in [1 .. n -> Nat],
           NEW m \in Nat, NEW g \in [1 .. m -> Nat],
           Before(f, n, g, m)
    PROVE  ~Before(g, m, f, n)
<1> SUFFICES ASSUME Before(g, m, f, n) PROVE FALSE
  OBVIOUS
<1>1. PICK k \in (1 .. n) \cap (1 .. m) :
          (\A i \in 1 .. k - 1 : f[i] = g[i] /\ f[i] # 0) /\ f[k] < g[k]
  BY DEF Before
<1>2. PICK l \in (1 .. m) \cap (1 .. n) :
          (\A i \in 1 .. l - 1 : g[i] = f[i] /\ g[i] # 0) /\ g[l] < f[l]
  BY DEF Before
<1>3. /\ k \in Int /\ l \in Int /\ k >= 1 /\ l >= 1
      /\ f[k] \in Int /\ g[k] \in Int /\ f[l] \in Int /\ g[l] \in Int
  OBVIOUS
<1>4. /\ k < l => k \in 1 .. l - 1
      /\ l < k => l \in 1 .. k - 1
  BY <1>3
<1> QED BY <1>1, <1>2, <1>3, <1>4

\* Texts that tie agree up to the first NUL.
Agree(f, n, g, m) == \A k \in (1 .. n) \cap (1 .. m) :
                         (\A i \in 1 .. k - 1 : f[i] # 0) =>
                             \A i \in 1 .. k : f[i] = g[i]

LEMMA TiedAgree ==
    ASSUME NEW n \in Nat, NEW f \in [1 .. n -> Nat],
           NEW m \in Nat, NEW g \in [1 .. m -> Nat],
           Tied(f, n, g, m)
    PROVE  Agree(f, n, g, m)
<1> SUFFICES ASSUME NEW k \in (1 .. n) \cap (1 .. m),
                    \A i \in 1 .. k - 1 : f[i] # 0
             PROVE  \A i \in 1 .. k : f[i] = g[i]
  BY DEF Agree
<1> DEFINE T == {i \in 1 .. k : f[i] # g[i]}
<1> SUFFICES ASSUME T # {} PROVE FALSE
  OBVIOUS
<1>1. IsFiniteSet(T) /\ T \subseteq Int
  <2>1. k \in Int /\ IsFiniteSet(1 .. k) /\ T \subseteq 1 .. k
    BY FS_Interval
  <2> QED BY <2>1, FS_Subset
<1>2. PICK j \in T : \A i \in T : i >= j
  BY <1>1, HasLeast
<1>3. /\ j \in (1 .. n) \cap (1 .. m) /\ j \in 1 .. k /\ f[j] # g[j]
      /\ f[j] \in Int /\ g[j] \in Int
  OBVIOUS
<1>4. \A i \in 1 .. j - 1 : f[i] = g[i] /\ f[i] # 0
  <2> SUFFICES ASSUME NEW i \in 1 .. j - 1 PROVE f[i] = g[i] /\ f[i] # 0
    OBVIOUS
  <2>1. i \in 1 .. k - 1 /\ i \in 1 .. k /\ i < j
    BY <1>3
  <2>2. i \notin T
    BY <1>2, <1>3, <2>1
  <2> QED BY <2>1, <2>2
<1>5. f[j] < g[j] \/ g[j] < f[j]
  BY <1>3
<1> QED BY <1>3, <1>4, <1>5 DEF Tied, Before

LEMMA NotAfterTransitive ==
    ASSUME NEW n1 \in Nat, NEW f1 \in [1 .. n1 -> Nat],
           NEW n2 \in Nat, NEW f2 \in [1 .. n2 -> Nat],
           NEW n3 \in Nat, NEW f3 \in [1 .. n3 -> Nat],
           NotAfter(f1, n1, f2, n2), NotAfter(f2, n2, f3, n3)
    PROVE  NotAfter(f1, n1, f3, n3)
<1>1. CASE Before(f1, n1, f2, n2) /\ Before(f2, n2, f3, n3)
  <2>1. PICK k \in (1 .. n1) \cap (1 .. n2) :
            (\A i \in 1 .. k - 1 : f1[i] = f2[i] /\ f1[i] # 0) /\ f1[k] < f2[k]
    BY <1>1 DEF Before
  <2>2. PICK l \in (1 .. n2) \cap (1 .. n3) :
            (\A i \in 1 .. l - 1 : f2[i] = f3[i] /\ f2[i] # 0) /\ f2[l] < f3[l]
    BY <1>1 DEF Before
  <2>3. PICK j : j = (IF k < l THEN k ELSE l)
    OBVIOUS
  <2>4. /\ j \in (1 .. n1) \cap (1 .. n3) /\ j \in 1 .. n2 /\ j <= k /\ j <= l
        /\ k \in Int /\ l \in Int /\ j \in Int
    BY <2>3
  <2>5. \A i \in 1 .. j - 1 : i \in 1 .. k - 1 /\ i \in 1 .. l - 1
    BY <2>4
  <2>6. /\ j < k => j \in 1 .. k - 1
        /\ j < l => j \in 1 .. l - 1
        /\ f1[j] \in Int /\ f2[j] \in Int /\ f3[j] \in Int
    BY <2>4
  <2>7. f1[j] < f3[j]
    BY <2>1, <2>2, <2>3, <2>4, <2>6
  <2> QED BY <2>1, <2>2, <2>4, <2>5, <2>7 DEF NotAfter, Before
<1>2. CASE Before(f1, n1, f2, n2) /\ Tied(f2, n2, f3, n3) /\ n2 <= n3
  <2>1. PICK k \in (1 .. n1) \cap (1 .. n2) :
            (\A i \in 1 .. k - 1 : f1[i] = f2[i] /\ f1[i] # 0) /\ f1[k] < f2[k]
    BY <1>2 DEF Before
  <2>2. k \in (1 .. n2) \cap (1 .. n3) /\ k \in 1 .. k
    BY <1>2
  <2>3. \A i \in 1 .. k - 1 : f2[i] # 0 /\ i \in 1 .. k
    BY <2>1, <2>2
  <2>4. \A i \in 1 .. k : f2[i] = f3[i]
    <3>1. \A i \in 1 .. k - 1 : f2[i] # 0
      BY <2>3
    <3>2. Agree(f2, n2, f3, n3)
      BY <1>2, TiedAgree
    <3> QED BY <2>2, <3>1, <3>2 DEF Agree
  <2> QED BY <2>1, <2>2, <2>3, <2>4 DEF NotAfter, Before
<1>3. CASE Tied(f1, n1, f2, n2) /\ n1 <= n2 /\ Before(f2, n2, f3, n3)
  <2>1. PICK k \in (1 .. n2) \cap (1 .. n3) :
            (\A i \in 1 .. k - 1 : f2[i] = f3[i] /\ f2[i] # 0) /\ f2[k] < f3[k]
    BY <1>3 DEF Before
  <2>2. CASE k <= n1
    <3>1. k \in (1 .. n2) \cap (1 .. n1) /\ k \in (1 .. n1) \cap (1 .. n3)
          /\ k \in 1 .. k /\ \A i \in 1 .. k - 1 : i \in 1 .. k
      BY <2>2
    <3>2. Tied(f2, n2, f1, n1)
      BY <1>3 DEF Tied
    <3>3. \A i \in 1 .. k : f2[i] = f1[i]
      <4>1. \A i \in 1 .. k - 1 : f2[i] # 0
        BY <2>1
      <4>2. Agree(f2, n2, f1, n1)
        BY <3>2, TiedAgree
      <4> QED BY <3>1, <4>1, <4>2 DEF Agree
    <3> QED BY <2>1, <3>1, <3>3 DEF NotAfter, Before
  <2>3. CASE k > n1
    <3>1. n1 <= n3
      BY <2>3
    <3>2. ~Before(f3, n3, f1, n1)
      <4> SUFFICES ASSUME Before(f3, n3, f1, n1) PROVE FALSE
        OBVIOUS
      <4>1. PICK l \in (1 .. n3) \cap (1 .. n1) :
                (\A i \in 1 .. l - 1 : f3[i] = f1[i] /\ f3[i] # 0) /\ f3[l] < f1[l]
        BY DEF Before
      <4>2. /\ l \in (1 .. n2) \cap (1 .. n1) /\ l \in 1 .. k - 1
            /\ \A i \in 1 .. l - 1 : i \in 1 .. k - 1
        BY <1>3, <2>3
      <4>3. Before(f2, n2, f1, n1)
        BY <2>1, <4>1, <4>2 DEF Before
      <4> QED BY <1>3, <4>3 DEF Tied
    <3> QED BY <3>1, <3>2 DEF NotAfter, Tied
  <2> QED BY <2>2, <2>3
<1>4. CASE Tied(f1, n1, f2, n2) /\ n1 <= n2 /\ Tied(f2, n2, f3, n3) /\ n2 <= n3
  <2>1. n1 <= n3
    BY <1>4
  <2>2. Agree(f1, n1, f2, n2)
    BY <1>4, TiedAgree
  <2>3. ~Before(f3, n3, f1, n1)
    <3> SUFFICES ASSUME Before(f3, n3, f1, n1) PROVE FALSE
      OBVIOUS
    <3>1. PICK l \in (1 .. n3) \cap (1 .. n1) :
              (\A i \in 1 .. l - 1 : f3[i] = f1[i] /\ f3[i] # 0) /\ f3[l] < f1[l]
      BY DEF Before
    <3>2. l \in (1 .. n1) \cap (1 .. n2) /\ l \in (1 .. n3) \cap (1 .. n2)
          /\ l \in 1 .. l /\ \A i \in 1 .. l - 1 : i \in 1 .. l /\ f1[i] # 0
      BY <1>4, <3>1
    <3>3. \A i \in 1 .. l : f1[i] = f2[i]
      <4>1. \A i \in 1 .. l - 1 : f1[i] # 0
        BY <3>2
      <4>2. l \in (1 .. n1) \cap (1 .. n2)
        BY <3>2
      <4> QED BY <2>2, <4>1, <4>2 DEF Agree
    <3>4. Before(f3, n3, f2, n2)
      BY <3>1, <3>2, <3>3 DEF Before
    <3> QED BY <1>4, <3>4 DEF Tied
  <2> QED BY <2>1, <2>3 DEF NotAfter, Tied
<1> QED BY <1>1, <1>2, <1>3, <1>4 DEF NotAfter

LEMMA TextType ==
    ASSUME NEW s \in String!Text
    PROVE  /\ s \in Seq(String!Char) /\ Len(s) \in 0 .. MaxLength
           /\ DOMAIN s = 1 .. Len(s)
           /\ \A i \in 1 .. Len(s) : s[i] \in String!Char
<1>1. PICK n \in 0 .. MaxLength : s \in [1 .. n -> String!Char]
  BY DEF String!Text
<1>2. n \in Nat
  BY PartAssumptions DEF PartAssumptions, String!TextAssumption
<1>3. s \in Seq(String!Char) /\ Len(s) = n
  BY <1>1, <1>2, IsASeq, LenProperties
<1> QED BY <1>1, <1>3

Codes(s) == [i \in 1 .. Len(s) |-> Fold[s[i]]]

LEMMA CodesType ==
    ASSUME NEW s \in String!Text
    PROVE  /\ Len(s) \in Nat
           /\ Codes(s) \in [1 .. Len(s) -> Nat]
           /\ \A i \in 1 .. Len(s) : Codes(s)[i] = Fold[s[i]]
<1>1. \A c \in String!Char : Fold[c] \in Nat
  BY PartAssumptions DEF PartAssumptions, String!TextAssumption
<1>2. MaxLength \in Nat
  BY PartAssumptions DEF PartAssumptions, String!TextAssumption
<1> QED BY <1>1, <1>2, TextType DEF Codes

\* Where the comparison of characters stops, or that it does not.
LEMMA ComparedMeans ==
    ASSUME NEW s1 \in String!Text, NEW s2 \in String!Text,
           NEW f, f = Codes(s1), NEW n, n = Len(s1),
           NEW g, g = Codes(s2), NEW m, m = Len(s2),
           NEW l, l = String!Min({n, m})
    PROVE  LET result == String!strncasecmp(s1, s2, l)
           IN /\ result \in Int
              /\ result < 0 <=> Before(f, n, g, m)
              /\ result > 0 <=> Before(g, m, f, n)
<1> DEFINE stops == {i \in 1 .. l : Fold[s1[i]] # Fold[s2[i]] \/ Fold[s1[i]] = 0}
           result == String!strncasecmp(s1, s2, l)
<1>1. /\ n \in Nat /\ m \in Nat
      /\ f \in [1 .. n -> Nat] /\ \A i \in 1 .. n : f[i] = Fold[s1[i]]
      /\ g \in [1 .. m -> Nat] /\ \A i \in 1 .. m : g[i] = Fold[s2[i]]
  BY CodesType
<1>2. l \in Nat /\ 1 .. l = (1 .. n) \cap (1 .. m)
  <2>1. PICK x \in {n, m} : \A y \in {n, m} : x <= y
    BY <1>1
  <2>2. l \in {n, m} /\ \A y \in {n, m} : l <= y
    BY <2>1 DEF String!Min
  <2>3. l \in Nat /\ l <= n /\ l <= m /\ (l = n \/ l = m)
    BY <1>1, <2>2
  <2> QED BY <1>1, <2>3
<1>3. /\ stops \subseteq 1 .. l /\ IsFiniteSet(stops)
      /\ \A i \in 1 .. l : i \in stops <=> f[i] # g[i] \/ f[i] = 0
  <2>1. IsFiniteSet(1 .. l) /\ stops \subseteq 1 .. l
    BY <1>2, FS_Interval
  <2>2. IsFiniteSet(stops)
    BY <2>1, FS_Subset
  <2> QED BY <1>1, <1>2, <2>1, <2>2
<1>4. result = IF stops = {} THEN 0
               ELSE Fold[s1[String!Min(stops)]] - Fold[s2[String!Min(stops)]]
  BY DEF String!strncasecmp
<1> HIDE DEF stops, result
<1> DEFINE Goal == /\ result \in Int
                   /\ result < 0 <=> Before(f, n, g, m)
                   /\ result > 0 <=> Before(g, m, f, n)
<1>5. ASSUME stops = {} PROVE Goal
  <2>1. result = 0
    BY <1>4, <1>5
  <2>2. \A i \in (1 .. n) \cap (1 .. m) : f[i] = g[i]
    BY <1>2, <1>3, <1>5
  <2>3. ~Before(f, n, g, m) /\ ~Before(g, m, f, n)
    <3>1. \A i \in (1 .. n) \cap (1 .. m) : ~(f[i] < g[i]) /\ ~(g[i] < f[i])
      BY <1>1, <2>2
    <3> QED BY <3>1 DEF Before
  <2> QED BY <2>1, <2>3
<1>6. ASSUME stops # {} PROVE Goal
  <2>1. PICK k \in stops : \A j \in stops : j >= k
    <3>1. stops \subseteq Int
      BY <1>2, <1>3
    <3> QED BY <1>3, <1>6, <3>1, HasLeast
  <2>2. \A j \in stops : j \in Int
    BY <1>2, <1>3
  <2>3. String!Min(stops) = k
    <3>1. k \in stops /\ \A j \in stops : k <= j
      BY <2>1, <2>2
    <3>2. \A x \in stops : (\A j \in stops : x <= j) => x = k
      BY <2>2, <3>1
    <3> QED BY <3>1, <3>2 DEF String!Min
  <2>4. k \in 1 .. l /\ k \in Int /\ k \in 1 .. n /\ k \in 1 .. m
    <3>1. k \in 1 .. l
      BY <1>3
    <3>2. k \in (1 .. n) \cap (1 .. m)
      BY <1>2, <3>1
    <3> QED BY <1>2, <3>1, <3>2
  <2>5. result = f[k] - g[k] /\ f[k] \in Nat /\ g[k] \in Nat
    BY <1>1, <1>4, <1>6, <2>3, <2>4
  <2>6. \A i \in 1 .. k - 1 : f[i] = g[i] /\ f[i] # 0
    <3> SUFFICES ASSUME NEW i \in 1 .. k - 1 PROVE f[i] = g[i] /\ f[i] # 0
      OBVIOUS
    <3>1. i \in 1 .. l /\ i < k
      BY <1>2, <2>4
    <3>2. i \notin stops
      BY <2>1, <2>4, <3>1
    <3> QED BY <1>3, <3>1, <3>2
  <2>7. f[k] # g[k] \/ (f[k] = 0 /\ g[k] = 0)
    BY <1>3, <2>4
  <2>8. f[k] < g[k] => Before(f, n, g, m)
    BY <2>4, <2>6 DEF Before
  <2>9. g[k] < f[k] => Before(g, m, f, n)
    BY <2>4, <2>6 DEF Before
  <2>10. /\ Before(f, n, g, m) => f[k] < g[k]
         /\ Before(g, m, f, n) => g[k] < f[k]
    <3>1. ASSUME NEW i \in (1 .. n) \cap (1 .. m), f[i] # g[i],
                 \A j \in 1 .. i - 1 : f[j] = g[j] /\ f[j] # 0
          PROVE  i = k
      <4>1. i \in stops /\ i \in Int /\ i >= k
        <5>1. i \in 1 .. l
          BY <1>2
        <5>2. i \in stops
          BY <1>3, <3>1, <5>1
        <5> QED BY <2>1, <5>1, <5>2
      <4>2. k \notin 1 .. i - 1
        BY <2>7, <3>1
      <4> QED BY <2>4, <4>1, <4>2
    <3>2. ASSUME Before(f, n, g, m) PROVE f[k] < g[k]
      <4>1. PICK i \in (1 .. n) \cap (1 .. m) :
                (\A j \in 1 .. i - 1 : f[j] = g[j] /\ f[j] # 0) /\ f[i] < g[i]
        BY <3>2 DEF Before
      <4>2. f[i] # g[i]
        BY <1>1, <4>1
      <4> QED BY <3>1, <4>1, <4>2
    <3>3. ASSUME Before(g, m, f, n) PROVE g[k] < f[k]
      <4>1. PICK i \in (1 .. n) \cap (1 .. m) :
                (\A j \in 1 .. i - 1 : g[j] = f[j] /\ g[j] # 0) /\ g[i] < f[i]
        BY <3>3 DEF Before
      <4>2. f[i] # g[i] /\ \A j \in 1 .. i - 1 : f[j] = g[j] /\ f[j] # 0
        BY <1>1, <4>1
      <4> QED BY <3>1, <4>1, <4>2
    <3> QED BY <3>2, <3>3
  <2> QED BY <2>5, <2>8, <2>9, <2>10
<1>7. Goal
  BY <1>5, <1>6
<1> QED BY <1>7 DEF result

LEMMA ComparisonMeans ==
    ASSUME NEW s1 \in String!Text, NEW s2 \in String!Text
    PROVE  /\ String!str_case_cmp(s1, s2) \in Int
           /\ String!str_case_leq(s1, s2) <=>
                  NotAfter(Codes(s1), Len(s1), Codes(s2), Len(s2))
           /\ String!str_case_less(s1, s2) <=> ~String!str_case_leq(s2, s1)
           /\ String!str_case_greater(s1, s2) <=> String!str_case_less(s2, s1)
           /\ String!str_case_geq(s1, s2) <=> String!str_case_leq(s2, s1)
           /\ String!str_case_equal(s1, s2) <=>
                  Tied(Codes(s1), Len(s1), Codes(s2), Len(s2)) /\ Len(s1) = Len(s2)
<1> DEFINE n == Len(s1)  f == Codes(s1)  m == Len(s2)  g == Codes(s2)
           first == String!strncasecmp(s1, s2, String!Min({n, m}))
           second == String!strncasecmp(s2, s1, String!Min({m, n}))
           there == String!str_case_cmp(s1, s2)
           back == String!str_case_cmp(s2, s1)
<1>1. n \in Nat /\ m \in Nat
  BY CodesType
<1>2. /\ first \in Int
      /\ first < 0 <=> Before(f, n, g, m)
      /\ first > 0 <=> Before(g, m, f, n)
  <2>1. PICK l : l = String!Min({n, m})
    OBVIOUS
  <2> HIDE DEF n, f, m, g
  <2>2. /\ String!strncasecmp(s1, s2, l) \in Int
        /\ String!strncasecmp(s1, s2, l) < 0 <=> Before(f, n, g, m)
        /\ String!strncasecmp(s1, s2, l) > 0 <=> Before(g, m, f, n)
    BY <2>1, ComparedMeans DEF f, n, m, g
  <2> QED BY <2>1, <2>2
<1>3. /\ second \in Int
      /\ second < 0 <=> Before(g, m, f, n)
      /\ second > 0 <=> Before(f, n, g, m)
  <2>1. PICK l : l = String!Min({m, n})
    OBVIOUS
  <2> HIDE DEF n, f, m, g
  <2>2. /\ String!strncasecmp(s2, s1, l) \in Int
        /\ String!strncasecmp(s2, s1, l) < 0 <=> Before(g, m, f, n)
        /\ String!strncasecmp(s2, s1, l) > 0 <=> Before(f, n, g, m)
    BY <2>1, ComparedMeans DEF f, n, m, g
  <2> QED BY <2>1, <2>2
<1>4. /\ there = IF first = 0 THEN n - m ELSE first
      /\ back = IF second = 0 THEN m - n ELSE second
  BY DEF String!str_case_cmp
<1>5. ~(Before(f, n, g, m) /\ Before(g, m, f, n))
  BY <1>2
<1> HIDE DEF n, f, m, g, first, second, there, back
<1>6. there \in Int /\ back \in Int
  BY <1>1, <1>2, <1>3, <1>4
<1>7. /\ there < 0 <=> Before(f, n, g, m) \/ (Tied(f, n, g, m) /\ n < m)
      /\ there > 0 <=> Before(g, m, f, n) \/ (Tied(f, n, g, m) /\ m < n)
      /\ there = 0 <=> Tied(f, n, g, m) /\ n = m
  BY <1>1, <1>2, <1>4, <1>5 DEF Tied
<1>8. /\ back < 0 <=> there > 0
      /\ back > 0 <=> there < 0
      /\ back = 0 <=> there = 0
  BY <1>1, <1>2, <1>3, <1>4, <1>5
<1>9. there < 0 \/ there = 0 <=> NotAfter(f, n, g, m)
  BY <1>1, <1>7 DEF NotAfter
<1> QED BY <1>6, <1>7, <1>8, <1>9 DEF n, f, m, g, there, back, String!str_case_leq,
           String!str_case_less, String!str_case_greater, String!str_case_geq,
           String!str_case_equal

LEMMA LeqTransitive ==
    ASSUME NEW s1 \in String!Text, NEW s2 \in String!Text, NEW s3 \in String!Text,
           String!str_case_leq(s1, s2), String!str_case_leq(s2, s3)
    PROVE  String!str_case_leq(s1, s3)
<1>1. /\ NotAfter(Codes(s1), Len(s1), Codes(s2), Len(s2))
      /\ NotAfter(Codes(s2), Len(s2), Codes(s3), Len(s3))
  BY ComparisonMeans
<1>2. NotAfter(Codes(s1), Len(s1), Codes(s3), Len(s3))
  BY <1>1, CodesType, NotAfterTransitive
<1> QED BY <1>2, ComparisonMeans

\* The comparisons agree with one total order of the texts, NULs or not.
LEMMA OrderedTotally ==
    ASSUME NEW s1 \in String!Text, NEW s2 \in String!Text,
           question.s1 = s1, question.s2 = s2
    PROVE  String!CaseTotallyOrdered
<1>1. ASSUME NEW s3 \in String!Text, String!str_case_equal(s1, s2)
      PROVE  String!str_case_less(s1, s3) <=> String!str_case_less(s2, s3)
  <2>1. String!str_case_leq(s1, s2) /\ String!str_case_leq(s2, s1)
    <3>1. String!str_case_leq(s1, s2) /\ ~String!str_case_less(s1, s2)
      BY <1>1 DEF String!str_case_equal, String!str_case_leq, String!str_case_less
    <3> QED BY <3>1, ComparisonMeans
  <2>2. String!str_case_leq(s3, s1) <=> String!str_case_leq(s3, s2)
    BY <2>1, LeqTransitive
  <2> QED BY <2>2, ComparisonMeans
<1>2. \A s3 \in String!Text : String!str_case_leq(s1, s2) /\ String!str_case_leq(s2, s3)
                                  => String!str_case_leq(s1, s3)
  BY LeqTransitive
<1>3. /\ String!str_case_less(s1, s2) <=> ~String!str_case_leq(s2, s1)
      /\ String!str_case_greater(s1, s2) <=> String!str_case_less(s2, s1)
      /\ String!str_case_geq(s1, s2) <=> String!str_case_leq(s2, s1)
  BY ComparisonMeans
<1> QED BY <1>1, <1>2, <1>3 DEF String!CaseTotallyOrdered

\* Texts without NUL are equal exactly if they differ in case only.
LEMMA EqualInCodes ==
    ASSUME NEW s1 \in String!Text, NEW s2 \in String!Text,
           question.s1 = s1, question.s2 = s2
    PROVE  String!EqualIfCaseDiffers
<1> DEFINE n == Len(s1)  f == Codes(s1)  m == Len(s2)  g == Codes(s2)
<1>1. /\ DOMAIN s1 = 1 .. n /\ DOMAIN s2 = 1 .. m /\ n \in Nat /\ m \in Nat
      /\ f \in [1 .. n -> Nat] /\ g \in [1 .. m -> Nat]
      /\ f = [i \in DOMAIN s1 |-> Fold[s1[i]]]
      /\ g = [i \in DOMAIN s2 |-> Fold[s2[i]]]
      /\ \A i \in 1 .. n : f[i] = Fold[s1[i]]
  BY TextType, CodesType DEF Codes
<1>2. String!str_case_equal(s1, s2) <=> Tied(f, n, g, m) /\ n = m
  BY ComparisonMeans
<1>5. String!EqualIfCaseDiffers <=>
          (About("order") => ((\A i \in 1 .. n : f[i] # 0) =>
                                 (String!str_case_equal(s1, s2) <=> f = g)))
  <2>1. (\A i \in DOMAIN s1 : Fold[s1[i]] # 0) <=> \A i \in 1 .. n : f[i] # 0
    BY <1>1
  <2> HIDE DEF n, f, m, g
  <2> QED BY <1>1, <2>1 DEF String!EqualIfCaseDiffers, About, String!About
<1> HIDE DEF n, f, m, g
<1> SUFFICES ASSUME \A i \in 1 .. n : f[i] # 0
             PROVE  String!str_case_equal(s1, s2) <=> f = g
  BY <1>5
<1>3. ASSUME Tied(f, n, g, m), n = m PROVE f = g
  <2>1. Agree(f, n, g, m)
    BY <1>1, <1>3, TiedAgree
  <2>2. n # 0 => n \in (1 .. n) \cap (1 .. m) /\ \A i \in 1 .. n - 1 : i \in 1 .. n
    BY <1>1, <1>3
  <2>3. \A i \in 1 .. n : f[i] = g[i]
    <3>1. CASE n = 0
      BY <3>1
    <3>2. CASE n # 0
      <4>1. \A i \in 1 .. n - 1 : f[i] # 0
        BY <2>2, <3>2
      <4> QED BY <2>1, <2>2, <3>2, <4>1 DEF Agree
    <3> QED BY <3>1, <3>2
  <2> QED BY <1>1, <1>3, <2>3
<1>4. ASSUME f = g PROVE Tied(f, n, g, m) /\ n = m
  <2>1. 1 .. n = 1 .. m
    BY <1>1, <1>4
  <2>2. n = m
    <3>1. n # 0 => n \in 1 .. m
      BY <1>1, <2>1
    <3>2. m # 0 => m \in 1 .. n
      BY <1>1, <2>1
    <3> QED BY <1>1, <3>1, <3>2
  <2>3. \A i \in 1 .. n : ~(f[i] < f[i])
    BY <1>1
  <2> QED BY <1>4, <2>2, <2>3 DEF Tied, Before
<1> QED BY <1>2, <1>3, <1>4

-----------------------------------------------------------------------------
(* string_ext: trim().                                                     *)

LEMMA SizesWrap ==
    /\ SizeModulus \in Nat /\ SizeModulus > MaxLength + 1 /\ MaxLength \in Nat
    /\ \A n \in Nat : n < SizeModulus => String!Size(n) = n
    /\ String!Size(-1) = SizeModulus - 1 /\ String!Size(SizeModulus) = 0
<1>1. SizeModulus \in Nat /\ SizeModulus > MaxLength + 1 /\ MaxLength \in Nat
  BY PartAssumptions DEF PartAssumptions, String!TextAssumption
<1>2. ASSUME NEW m \in Nat, m > 0
      PROVE  /\ \A n \in Nat : n < m => n % m = n
             /\ (-1) % m = m - 1 /\ m % m = 0
  BY <1>2
<1> QED BY <1>1, <1>2 DEF String!Size

\* Where the text begins: what is before are delimiters, what is there is not.
LEMMA BeginsAt ==
    ASSUME NEW s \in String!Text, NEW d
    PROVE  LET b == String!Beginning(s, d)
           IN /\ b \in 0 .. Len(s)
              /\ \A i \in 1 .. b : s[i] = d
              /\ b < Len(s) => s[b + 1] # d
<1> DEFINE n == Len(s)
           inner == {i \in 0 .. n - 1 : s[i + 1] # d}
           T == inner \cup {n}
           b == String!Beginning(s, d)
<1>1. n \in Nat
  BY CodesType
<1>2. b = String!Min(T)
  BY DEF String!Beginning, String!At
<1>3. IsFiniteSet(T) /\ T \subseteq 0 .. n /\ T # {}
  <2>1. T \subseteq 0 .. n /\ T # {}
    BY <1>1
  <2> HIDE DEF T
  <2>2. IsFiniteSet(0 .. n)
    BY <1>1, FS_Interval
  <2> QED BY <2>1, <2>2, FS_Subset
<1>4. \A i \in 0 .. n - 1 : i \in T <=> s[i + 1] # d
  BY <1>1
<1> HIDE DEF T, b, n
<1>5. PICK k \in T : \A j \in T : j >= k
  <2>1. T \subseteq Int
    BY <1>1, <1>3
  <2> QED BY <1>3, <2>1, HasLeast
<1>6. b = k /\ k \in 0 .. n
  <2>1. \A j \in T : j \in Int
    BY <1>1, <1>3
  <2>2. \A x \in T : (\A j \in T : x <= j) => x = k
    BY <1>5, <2>1
  <2>3. k \in T /\ \A j \in T : k <= j
    BY <1>5, <2>1
  <2>4. String!Min(T) = k
    BY <2>2, <2>3 DEF String!Min
  <2> QED BY <1>2, <1>3, <2>4
<1>7. \A i \in 1 .. k : s[i] = d
  <2> SUFFICES ASSUME NEW i \in 1 .. k PROVE s[i] = d
    OBVIOUS
  <2>1. i - 1 \in 0 .. n - 1 /\ i - 1 < k /\ (i - 1) + 1 = i
    BY <1>1, <1>6
  <2>2. i - 1 \notin T
    BY <1>5, <1>6, <2>1
  <2> QED BY <1>4, <2>1, <2>2
<1>8. k < n => s[k + 1] # d
  BY <1>1, <1>4, <1>5, <1>6
<1> QED BY <1>6, <1>7, <1>8 DEF b, n

\* Where it ends: at the end of the text, unless some of it was in front.
LEMMA EndsAt ==
    ASSUME NEW s \in String!Text, NEW d, NEW b, b = String!Beginning(s, d)
    PROVE  LET e == String!EndOf(s, b, d)
           IN /\ e \in b .. Len(s)
              /\ \A i \in e + 1 .. Len(s) : s[i] = d
              /\ 0 < b /\ b < Len(s) => e > b /\ s[e] # d
<1> DEFINE n == Len(s)
           e == String!EndOf(s, b, d)
           T == {i \in b - 1 .. n - 1 : i = b - 1 \/ s[i + 1] # d}
<1>1. /\ n \in 0 .. MaxLength /\ b \in 0 .. n /\ n \in Nat /\ b \in Int
      /\ b < n => s[b + 1] # d
  BY TextType, CodesType, BeginsAt
<1>2. n < SizeModulus /\ n + 1 < SizeModulus /\ SizeModulus \in Nat
  BY <1>1, SizesWrap
<1>3. CASE b = 0 \/ b = n
  <2>1. ~(String!Size(n - 1) > String!Size(b - 1)) /\ String!Size(String!Size(n - 1) + 1) = n
    <3>1. CASE n = 0
      <4>1. b = 0 /\ n - 1 = -1 /\ b - 1 = -1
        BY <1>1, <3>1
      <4>2. String!Size(n - 1) = SizeModulus - 1 /\ String!Size(b - 1) = SizeModulus - 1
        BY <4>1, SizesWrap
      <4>3. SizeModulus - 1 + 1 = SizeModulus /\ SizeModulus \in Int
        BY SizesWrap
      <4> QED BY <3>1, <4>2, <4>3, SizesWrap
    <3>2. CASE n # 0
      <4>1. n - 1 \in Nat /\ n - 1 < SizeModulus /\ n - 1 + 1 = n
        BY <1>1, <1>2, <3>2
      <4>2. String!Size(n - 1) = n - 1 /\ String!Size(n) = n
        BY <1>1, <1>2, <4>1, SizesWrap
      <4>3. String!Size(b - 1) >= n - 1
        <5>1. CASE b = n
          BY <4>1, <4>2, <5>1
        <5>2. CASE b = 0
          BY <1>2, <1>1, <5>2, SizesWrap
        <5> QED BY <1>3, <5>1, <5>2
      <4>4. String!Size(b - 1) \in Int
        <5>1. CASE b = n
          BY <4>1, <4>2, <5>1
        <5>2. CASE b = 0
          BY <5>2, SizesWrap
        <5> QED BY <1>3, <5>1, <5>2
      <4> QED BY <1>1, <4>1, <4>2, <4>3, <4>4
    <3> QED BY <3>1, <3>2
  <2>2. e = n
    BY <2>1 DEF String!EndOf
  <2> QED BY <1>1, <1>3, <2>2
<1>4. CASE b # 0 /\ b # n
  <2>1. /\ n - 1 \in Nat /\ b - 1 \in Nat /\ n - 1 < SizeModulus
        /\ b - 1 < SizeModulus /\ n - 1 > b - 1
    BY <1>1, <1>2, <1>4
  <2>2. String!Size(n - 1) = n - 1 /\ String!Size(b - 1) = b - 1
    BY <2>1, SizesWrap
  <2>3. e = String!Max(T) + 1
    BY <2>1, <2>2 DEF String!EndOf, String!At
  <2>4. IsFiniteSet(T) /\ T \subseteq Int /\ T # {}
    <3>1. T \subseteq b - 1 .. n - 1 /\ b - 1 \in T
      BY <2>1
    <3> HIDE DEF T
    <3>2. IsFiniteSet(b - 1 .. n - 1)
      BY <2>1, FS_Interval
    <3>3. b - 1 .. n - 1 \subseteq Int
      OBVIOUS
    <3>4. T \subseteq Int
      BY <3>1, <3>3
    <3>5. IsFiniteSet(T)
      BY <3>1, <3>2, FS_Subset
    <3> QED BY <3>1, <3>4, <3>5
  <2>5. /\ \A i \in T : i \in b - 1 .. n - 1 /\ (i = b - 1 \/ s[i + 1] # d)
        /\ \A i \in b - 1 .. n - 1 : s[i + 1] # d => i \in T
        /\ b \in T
    BY <1>1, <1>4, <2>1
  <2> HIDE DEF T
  <2>6. PICK k \in T : \A j \in T : j <= k
    BY <2>4, HasGreatest
  <2>7. String!Max(T) = k
    <3>1. \A j \in T : j \in Int
      BY <2>4
    <3>2. k \in T /\ \A j \in T : k >= j
      BY <2>6, <3>1
    <3>3. \A x \in T : (\A j \in T : x >= j) => x = k
      BY <2>6, <3>1
    <3> QED BY <3>2, <3>3 DEF String!Max
  <2>8. k \in b .. n - 1 /\ s[k + 1] # d /\ e = k + 1
    <3>1. k >= b /\ k \in b - 1 .. n - 1
      BY <2>5, <2>6
    <3> QED BY <1>1, <2>3, <2>5, <2>6, <2>7, <3>1
  <2>9. \A i \in e + 1 .. n : s[i] = d
    <3> SUFFICES ASSUME NEW i \in e + 1 .. n PROVE s[i] = d
      OBVIOUS
    <3>1. i - 1 \in b - 1 .. n - 1 /\ i - 1 > k /\ (i - 1) + 1 = i
      BY <1>1, <2>8
    <3>2. i - 1 \notin T
      BY <2>6, <2>8, <3>1, <1>1
    <3> QED BY <2>5, <3>1, <3>2
  <2> QED BY <1>1, <2>8, <2>9
<1> QED BY <1>3, <1>4

LEMMA DelimsType ==
    ASSUME NEW d \in String!Char, NEW n \in Nat, question.d = d
    PROVE  /\ String!Delims(n) \in Seq(String!Char) /\ Len(String!Delims(n)) = n
           /\ \A i \in 1 .. n : String!Delims(n)[i] = d
<1>1. [i \in 1 .. n |-> d] \in Seq(String!Char) /\ Len([i \in 1 .. n |-> d]) = n
  <2>1. [i \in 1 .. n |-> d] \in [1 .. n -> String!Char]
    OBVIOUS
  <2> QED BY <2>1, IsASeq, LenProperties
<1> QED BY <1>1 DEF String!Delims

\* trim() drops nothing but delimiters at the two ends, and all in front; a
\* text that begins with a delimiter is trimmed behind as well.
LEMMA TrimRight ==
    ASSUME NEW s \in String!Text, NEW d \in Delim,
           question.str = s, question.d = d
    PROVE  String!DropsOnlyDelimiters /\ String!TrimsBehindWhenInFront
<1> DEFINE n == Len(s)
           b == String!Beginning(s, d)
           e == String!EndOf(s, b, d)
           t == SubSeq(s, b + 1, e)
<1>1. /\ s \in Seq(String!Char) /\ n \in Nat /\ d \in String!Char
      /\ \A i \in 1 .. n : s[i] \in String!Char
  BY TextType, CodesType, PartAssumptions
  DEF PartAssumptions, String!TextAssumption
<1>2. /\ b \in 0 .. n
      /\ \A i \in 1 .. b : s[i] = d
      /\ b < n => s[b + 1] # d
  BY BeginsAt
<1>3. /\ e \in b .. n
      /\ \A i \in e + 1 .. n : s[i] = d
      /\ 0 < b /\ b < n => e > b /\ s[e] # d
  BY EndsAt
<1>4. String!Trimmed = t
  <2>1. String!Min({e, n}) = e
    <3> HIDE DEF b, e, n
    <3>1. /\ e \in Int /\ n \in Int /\ e <= n
      BY <1>1, <1>2, <1>3
    <3>2. \A x \in {e, n} : (\A y \in {e, n} : x <= y) => x = e
      BY <3>1
    <3>3. e \in {e, n} /\ \A y \in {e, n} : e <= y
      BY <3>1
    <3> QED BY <3>2, <3>3 DEF String!Min
  <2> QED BY <2>1 DEF String!Trimmed, String!trim
<1> HIDE DEF n, b, e, t
<1>5. /\ b \in Nat /\ e \in Nat /\ b <= e /\ e <= n /\ n - e \in Nat
  BY <1>1, <1>2, <1>3
<1>6. /\ t \in Seq(String!Char) /\ Len(t) = e - b
      /\ \A i \in 1 .. e - b : t[i] = s[b + i]
  <2>1. /\ b + 1 \in Int /\ e \in Int
        /\ \A i \in b + 1 .. e : s[i] \in String!Char
    BY <1>1, <1>5
  <2>2. /\ t \in Seq(String!Char)
        /\ Len(t) = IF b + 1 <= e THEN e - (b + 1) + 1 ELSE 0
        /\ \A i \in 1 .. e - (b + 1) + 1 : t[i] = s[b + 1 + i - 1]
    BY <2>1, SubSeqProperties DEF t
  <2>3. /\ e - (b + 1) + 1 = e - b
        /\ \A i \in 1 .. e - b : b + 1 + i - 1 = b + i
    BY <1>5
  <2>4. Len(t) = e - b
    BY <1>5, <2>2, <2>3
  <2> QED BY <2>2, <2>3, <2>4
<1>7. String!DropsOnlyDelimiters
  <2> SUFFICES ASSUME About("trim") PROVE String!DropsOnlyDelimiters
    BY DEF String!DropsOnlyDelimiters, String!About, About
  <2>1. Len(t) > 0 => t[1] # d
    <3> SUFFICES ASSUME Len(t) > 0 PROVE t[1] # d
      OBVIOUS
    <3>1. b < n /\ 1 \in 1 .. e - b
      BY <1>1, <1>5, <1>6
    <3> QED BY <1>2, <1>6, <3>1
  <2> DEFINE whole == String!Delims(b) \o t \o String!Delims(n - e)
  <2>2. s = whole
    <3> DEFINE front == String!Delims(b)
               back == String!Delims(n - e)
               head == front \o t
    <3>1. /\ front \in Seq(String!Char) /\ Len(front) = b
          /\ \A i \in 1 .. b : front[i] = d
      BY <1>1, <1>5, DelimsType
    <3>2. /\ back \in Seq(String!Char) /\ Len(back) = n - e
          /\ \A i \in 1 .. n - e : back[i] = d
      BY <1>1, <1>5, DelimsType
    <3> HIDE DEF front, back
    <3>3. /\ head \in Seq(String!Char) /\ Len(head) = e
          /\ \A i \in 1 .. e : head[i] = IF i <= b THEN front[i] ELSE t[i - b]
      <4>1. b + (e - b) = e
        BY <1>5
      <4>2. /\ head \in Seq(String!Char) /\ Len(head) = Len(front) + Len(t)
            /\ \A i \in 1 .. Len(front) + Len(t) :
                   head[i] = IF i <= Len(front) THEN front[i] ELSE t[i - Len(front)]
        BY <1>6, <3>1, ConcatProperties
      <4> QED BY <1>6, <3>1, <4>1, <4>2
    <3> HIDE DEF head
    <3>4. /\ head \o back \in Seq(String!Char) /\ Len(head \o back) = n
          /\ \A i \in 1 .. n :
                 (head \o back)[i] = IF i <= e THEN head[i] ELSE back[i - e]
      <4>1. e + (n - e) = n
        BY <1>1, <1>5
      <4>2. /\ head \o back \in Seq(String!Char)
            /\ Len(head \o back) = Len(head) + Len(back)
            /\ \A i \in 1 .. Len(head) + Len(back) :
                   (head \o back)[i] =
                       IF i <= Len(head) THEN head[i] ELSE back[i - Len(head)]
        BY <3>2, <3>3, ConcatProperties
      <4> QED BY <3>2, <3>3, <4>1, <4>2
    <3>5. \A i \in 1 .. n : s[i] = (head \o back)[i]
      <4> SUFFICES ASSUME NEW i \in 1 .. n PROVE s[i] = (head \o back)[i]
        OBVIOUS
      <4>1. CASE i <= b
        <5>1. i \in 1 .. b /\ i \in 1 .. e /\ i <= e
          BY <1>1, <1>5, <4>1
        <5> QED BY <1>2, <3>1, <3>3, <3>4, <4>1, <5>1
      <4>2. CASE b < i /\ i <= e
        <5>1. i \in 1 .. e /\ ~(i <= b) /\ i - b \in 1 .. e - b /\ b + (i - b) = i
          BY <1>1, <1>5, <4>2
        <5> QED BY <1>6, <3>3, <3>4, <4>2, <5>1
      <4>3. CASE e < i
        <5>1. i \in e + 1 .. n /\ ~(i <= e) /\ i - e \in 1 .. n - e
          BY <1>1, <1>5, <4>3
        <5>2. s[i] = d /\ back[i - e] = d
          BY <1>3, <3>2, <5>1
        <5>3. (head \o back)[i] = back[i - e]
          BY <3>4, <5>1
        <5> QED BY <5>2, <5>3
      <4>4. i <= b \/ (b < i /\ i <= e) \/ e < i
        BY <1>1, <1>5
      <4> QED BY <4>1, <4>2, <4>3, <4>4
    <3>6. s = head \o back
      <4>1. Len(s) = Len(head \o back) /\ \A i \in 1 .. Len(s) : s[i] = (head \o back)[i]
        BY <3>4, <3>5 DEF n
      <4> QED BY <1>1, <3>4, <4>1, SeqEqual
    <3> QED BY <3>6 DEF head, front, back
  <2>3. b \in 0 .. n /\ n - e \in 0 .. n
    BY <1>1, <1>5
  <2> HIDE DEF whole
  <2>4. \E a, c \in 0 .. n : s = String!Delims(a) \o t \o String!Delims(c)
    BY <2>2, <2>3 DEF whole
  <2> QED BY <1>4, <2>1, <2>4 DEF String!DropsOnlyDelimiters, n
<1>8. String!TrimsBehindWhenInFront
  <2> SUFFICES ASSUME n > 0, s[1] = d, Len(t) > 0
               PROVE  t[Len(t)] # d
    BY <1>4 DEF String!TrimsBehindWhenInFront, String!Starts, String!Last, n
  <2>1. 0 < b /\ b < n
    <3>1. b = 0 => b < n /\ b + 1 = 1
      BY <1>1, <1>5
    <3> QED BY <1>1, <1>2, <1>5, <1>6, <3>1
  <2>2. s[e] # d
    BY <1>3, <2>1
  <2>3. e - b \in 1 .. e - b /\ b + (e - b) = e
    BY <1>5, <1>6
  <2>4. t[e - b] = s[b + (e - b)]
    BY <1>6, <2>3
  <2> QED BY <1>6, <2>2, <2>3, <2>4
<1> QED BY <1>7, <1>8

\* string_ext: trim() answers the text between the delimiters, where it trims
\* at all, and the comparisons are one order, that of lower case, for texts of
\* any length over any characters.
THEOREM StringsAlwaysRight == Spec => []StringsRight
<1>1. ASSUME Asked PROVE StringsRight
  <2>1. CASE About("trim")
    <3>1. question.str \in String!Text /\ question.d \in Delim
      BY <1>1, <2>1, QuestionsApart
    <3>2. ~About("order")
      BY <2>1 DEF About
    <3>3. String!DropsOnlyDelimiters /\ String!TrimsBehindWhenInFront
      BY <3>1, TrimRight
    <3> QED BY <3>2, <3>3 DEF StringsRight, String!StringsRight, About, String!About,
               String!CaseTotallyOrdered, String!EqualIfCaseDiffers
  <2>2. CASE About("order")
    <3>1. question.s1 \in String!Text /\ question.s2 \in String!Text
      BY <1>1, <2>2, QuestionsApart
    <3>2. ~About("trim")
      BY <2>2 DEF About
    <3>3. String!CaseTotallyOrdered /\ String!EqualIfCaseDiffers
      BY <3>1, OrderedTotally, EqualInCodes
    <3> QED BY <3>2, <3>3 DEF StringsRight, String!StringsRight, About, String!About,
               String!DropsOnlyDelimiters, String!TrimsBehindWhenInFront
  <2>3. CASE ~About("trim") /\ ~About("order")
    BY <2>3 DEF StringsRight, String!StringsRight, About, String!About,
       String!DropsOnlyDelimiters, String!TrimsBehindWhenInFront,
       String!CaseTotallyOrdered, String!EqualIfCaseDiffers
  <2> QED BY <2>1, <2>2, <2>3
<1> QED BY <1>1, AlwaysAsked, PTL

-----------------------------------------------------------------------------
(* convert_to_systime: arithmetic.                                         *)

LEMMA TimesMonotonic ==
    ASSUME NEW a \in Int, NEW b \in Int, NEW n \in Nat
    PROVE  /\ a * n \in Int
           /\ a <= b => a * n <= b * n
           /\ a < b /\ n > 0 => a * n < b * n
OBVIOUS

LEMMA Distributive ==
    ASSUME NEW a \in Int, NEW b \in Int, NEW n \in Int
    PROVE  /\ (a + b) * n = a * n + b * n
           /\ (a - b) * n = a * n - b * n
           /\ (-a) * n = -(a * n)
           /\ a * n = n * a
           /\ 1 * n = n
OBVIOUS

LEMMA Associative ==
    ASSUME NEW a \in Int, NEW b \in Int, NEW n \in Int
    PROVE  (a * b) * n = a * (b * n)
OBVIOUS

LEMMA Divided ==
    ASSUME NEW a \in Nat, NEW n \in Nat, n > 0
    PROVE  /\ a \div n \in Nat
           /\ (a \div n) * n <= a
           /\ a < (a \div n) * n + n
OBVIOUS

LEMMA DivisionUnique ==
    ASSUME NEW a \in Int, NEW n \in Nat, n > 0,
           NEW p \in Int, p * n <= a, a < p * n + n,
           NEW q \in Int, q * n <= a, a < q * n + n
    PROVE  p = q
<1>1. ASSUME NEW x \in Int, NEW y \in Int, x < y, x * n <= a, a < x * n + n,
             y * n <= a
      PROVE  FALSE
  <2>1. (x + 1) * n <= y * n
    <3>1. x + 1 \in Int /\ x + 1 <= y
      BY <1>1
    <3> QED BY <3>1, TimesMonotonic
  <2>2. (x + 1) * n = x * n + n
    BY Distributive
  <2>3. x * n \in Int /\ y * n \in Int
    OBVIOUS
  <2> QED BY <1>1, <2>1, <2>2, <2>3
<1> QED BY <1>1

LEMMA Multiple ==
    ASSUME NEW a \in Nat, NEW n \in Nat, n > 0, a % n = 0
    PROVE  a \div n \in Nat /\ a = (a \div n) * n
OBVIOUS

LEMMA DivisionMonotonic ==
    ASSUME NEW a \in Nat, NEW b \in Nat, a <= b, NEW n \in Nat, n > 0
    PROVE  a \div n <= b \div n
<1> DEFINE p == a \div n
           q == b \div n
<1>1. p \in Nat /\ p * n <= a
  BY Divided
<1>2. q \in Nat /\ b < q * n + n
  BY Divided
<1> HIDE DEF p, q
<1> SUFFICES ASSUME q < p PROVE FALSE
  BY <1>1, <1>2 DEF p, q
<1>3. (q + 1) * n <= p * n
  <2>1. q + 1 \in Int /\ q + 1 <= p
    BY <1>1, <1>2
  <2> QED BY <1>1, <2>1, TimesMonotonic
<1>4. (q + 1) * n = q * n + n
  BY <1>2, Distributive
<1>5. q * n \in Int /\ p * n \in Int
  BY <1>1, <1>2
<1> QED BY <1>1, <1>2, <1>3, <1>4, <1>5

-----------------------------------------------------------------------------
(* convert_to_systime: a conversion of one time point.                     *)

LEMMA RatesType ==
    ASSUME question \in Time!Questions
    PROVE  /\ Time!ClockRate \in Nat /\ Time!ClockRate > 0
           /\ Time!UnitRate \in Nat /\ Time!UnitRate > 0
           /\ Time!SystemRate \in Nat /\ Time!SystemRate > 0
           /\ Time!SystemRate % Time!UnitRate = 0
           /\ MaxTicks \in Nat /\ Time!tp \in -MaxTicks .. MaxTicks
<1>1. question.rates \in Rates /\ question.tp \in -MaxTicks .. MaxTicks
  BY DEF Time!Questions
<1>2. /\ {question.rates.clock, question.rates.unit, question.rates.system}
             \subseteq Nat \ {0}
      /\ question.rates.system % question.rates.unit = 0
      /\ MaxTicks \in Nat
  BY <1>1, PartAssumptions DEF PartAssumptions, Time!RateAssumption, Time!Divides
<1> QED BY <1>1, <1>2 DEF Time!ClockRate, Time!UnitRate, Time!SystemRate, Time!rates,
           Time!tp

\* The second a time point is in.
LEMMA SecondsRoundDown ==
    ASSUME NEW t \in Int, NEW c \in Nat, c > 0, c = Time!ClockRate
    PROVE  /\ Time!Seconds(t) \in Int
           /\ Time!Seconds(t) * c <= t
           /\ t < Time!Seconds(t) * c + c
<1> DEFINE s == Time!duration_cast(t, c, 1)
<1>1. Time!Seconds(t) = IF s * c > t THEN s - 1 ELSE s
  BY DEF Time!Seconds
<1>2. CASE t >= 0
  <2>1. s = t \div c
    BY <1>2 DEF Time!duration_cast
  <2>2. s \in Nat /\ s * c <= t /\ t < s * c + c
    BY <1>2, <2>1, Divided
  <2> QED BY <1>1, <2>2
<1>3. CASE t < 0
  <2> DEFINE q == (-t) \div c
  <2>1. s = -q
    BY <1>3 DEF Time!duration_cast
  <2>2. q \in Nat /\ q * c <= -t /\ -t < q * c + c
    BY <1>3, Divided
  <2> HIDE DEF q, s
  <2>3. s \in Int /\ s * c = -(q * c) /\ (s - 1) * c = s * c - c /\ q * c \in Int
    <3>1. (-q) * c = -(q * c) /\ q * c \in Int
      BY <2>2, Distributive
    <3>2. s \in Int /\ (s - 1) * c = s * c - 1 * c /\ 1 * c = c
      BY <2>1, <2>2, Distributive
    <3> QED BY <2>1, <3>1, <3>2
  <2>4. CASE s * c > t
    <3>1. Time!Seconds(t) = s - 1
      BY <1>1, <2>4
    <3>2. PICK x \in Int : x = q * c
      BY <2>3
    <3>3. PICK y : y = (s - 1) * c
      OBVIOUS
    <3>4. y = -x - c /\ -x > t /\ x <= -t /\ -t < x + c
      BY <2>2, <2>3, <2>4, <3>2, <3>3
    <3>5. y <= t /\ t < y + c
      BY <3>2, <3>4
    <3> QED BY <2>3, <3>1, <3>3, <3>5
  <2>5. CASE ~(s * c > t)
    <3>1. Time!Seconds(t) = s
      BY <1>1, <2>5
    <3> QED BY <2>2, <2>3, <2>5, <3>1
  <2> QED BY <2>4, <2>5
<1> QED BY <1>2, <1>3

\* What is left of the second, in ticks and in units.
LEMMA PartRoundsDown ==
    ASSUME NEW t \in Int,
           NEW c \in Nat, c > 0, c = Time!ClockRate,
           NEW u \in Nat, u > 0, u = Time!UnitRate
    PROVE  \E r \in 0 .. c - 1 :
               /\ t = Time!Seconds(t) * c + r
               /\ Time!Convert(t) = [tv_sec |-> Time!Seconds(t), part |-> (r * u) \div c]
               /\ (r * u) \div c \in 0 .. u - 1
               /\ ((r * u) \div c) * c <= r * u
               /\ r * u < ((r * u) \div c) * c + c
<1> DEFINE s == Time!Seconds(t)
           r == t - s * c
           p == (r * u) \div c
<1>1. s \in Int /\ s * c <= t /\ t < s * c + c
  BY SecondsRoundDown
<1>2. r \in 0 .. c - 1 /\ t = s * c + r /\ r >= 0
  BY <1>1
<1>3. Time!Convert(t) = [tv_sec |-> s, part |-> p]
  BY <1>2 DEF Time!Convert, Time!duration_cast
<1> HIDE DEF r, s
<1>4. r * u \in Nat
  BY <1>2
<1>5. p \in Nat /\ p * c <= r * u /\ r * u < p * c + c
  BY <1>4, Divided
<1> HIDE DEF p
<1>6. p < u
  <2> SUFFICES ASSUME u <= p PROVE FALSE
    BY <1>5
  <2>1. u * c <= p * c
    BY <1>5, TimesMonotonic
  <2>2. r * u < c * u
    BY <1>2, TimesMonotonic
  <2>3. c * u = u * c /\ u * c \in Int /\ p * c \in Int
    BY <1>5
  <2> QED BY <1>4, <1>5, <2>1, <2>2, <2>3
<1> QED BY <1>2, <1>3, <1>5, <1>6 DEF s, p

LEMMA PartAlwaysInRange ==
    ASSUME question \in Time!Questions
    PROVE  Time!PartInRange
<1> DEFINE c == Time!ClockRate
           u == Time!UnitRate
           t == Time!tp
<1>1. c \in Nat /\ c > 0 /\ u \in Nat /\ u > 0 /\ t \in Int
  BY RatesType
<1>2. Time!Convert(t).part \in 0 .. u - 1
  <2>1. PICK x, y : x = c /\ y = u
    OBVIOUS
  <2>2. PICK r \in 0 .. x - 1 :
            /\ Time!Convert(t) = [tv_sec |-> Time!Seconds(t), part |-> (r * y) \div x]
            /\ (r * y) \div x \in 0 .. y - 1
    BY <1>1, <2>1, PartRoundsDown
  <2> QED BY <2>1, <2>2
<1> QED BY <1>2 DEF Time!PartInRange

\* A later time point is in the same second or a later one, and in the same
\* second its part is not smaller.
LEMMA OrderAlwaysKept ==
    ASSUME question \in Time!Questions
    PROVE  Time!KeepsOrder
<1> SUFFICES ASSUME NEW t2 \in Time!tp .. MaxTicks
             PROVE  \/ Time!Convert(Time!tp).tv_sec < Time!Convert(t2).tv_sec
                    \/ /\ Time!Convert(Time!tp).tv_sec = Time!Convert(t2).tv_sec
                       /\ Time!Convert(Time!tp).part <= Time!Convert(t2).part
  BY DEF Time!KeepsOrder
<1>1. PICK c, u, t1 : c = Time!ClockRate /\ u = Time!UnitRate /\ t1 = Time!tp
  OBVIOUS
<1>2. /\ c \in Nat /\ c > 0 /\ u \in Nat /\ u > 0
      /\ t1 \in Int /\ t2 \in Int /\ t1 <= t2
  BY <1>1, RatesType
<1>3. PICK s1, s2 : s1 = Time!Seconds(t1) /\ s2 = Time!Seconds(t2)
  OBVIOUS
<1>4. PICK r1 \in 0 .. c - 1 :
          /\ t1 = s1 * c + r1
          /\ Time!Convert(t1) = [tv_sec |-> s1, part |-> (r1 * u) \div c]
  BY <1>1, <1>2, <1>3, PartRoundsDown
<1>5. PICK r2 \in 0 .. c - 1 :
          /\ t2 = s2 * c + r2
          /\ Time!Convert(t2) = [tv_sec |-> s2, part |-> (r2 * u) \div c]
  BY <1>1, <1>2, <1>3, PartRoundsDown
<1>6. s1 \in Int /\ s2 \in Int
  BY <1>1, <1>2, <1>3, SecondsRoundDown
<1>7. s1 <= s2
  <2> SUFFICES ASSUME s2 < s1 PROVE FALSE
    BY <1>6
  <2>1. (s2 + 1) * c <= s1 * c
    <3>1. s2 + 1 \in Int /\ s2 + 1 <= s1
      BY <1>6
    <3> QED BY <1>2, <1>6, <3>1, TimesMonotonic
  <2>2. PICK x \in Int, y \in Int : x = s1 * c /\ y = s2 * c
    BY <1>2, <1>6
  <2>3. (s2 + 1) * c = y + c
    BY <1>2, <1>6, <2>2, Distributive
  <2> QED BY <1>2, <1>4, <1>5, <2>1, <2>2, <2>3
<1>8. s1 = s2 => (r1 * u) \div c <= (r2 * u) \div c
  <2> SUFFICES ASSUME s1 = s2 PROVE (r1 * u) \div c <= (r2 * u) \div c
    OBVIOUS
  <2>1. PICK x \in Int : x = s1 * c
    BY <1>2, <1>6
  <2>2. r1 <= r2 /\ r1 \in Nat /\ r2 \in Nat
    BY <1>2, <1>4, <1>5, <2>1
  <2>3. r1 * u <= r2 * u /\ r1 * u \in Nat /\ r2 * u \in Nat
    BY <1>2, <2>2, TimesMonotonic
  <2> QED BY <1>2, <2>3, DivisionMonotonic
<1>9. s1 < s2 \/ s1 = s2
  BY <1>6, <1>7
<1> QED BY <1>1, <1>4, <1>5, <1>8, <1>9

\* Back on the system clock: the part is exact on a clock no finer than the
\* unit, and otherwise lost by less than a unit.
LEMMA BackAndForth ==
    ASSUME question \in Time!Questions
    PROVE  Time!RoundTrip
<1>1. PICK c, u, m, t : /\ c = Time!ClockRate /\ u = Time!UnitRate
                        /\ m = Time!SystemRate /\ t = Time!tp
  OBVIOUS
<1>2. /\ c \in Nat /\ c > 0 /\ u \in Nat /\ u > 0 /\ m \in Nat /\ m > 0
      /\ t \in Int /\ m % u = 0
  BY <1>1, RatesType
<1>3. PICK k \in Nat : m = k * u /\ k > 0
  <2>1. m \div u \in Nat /\ m = (m \div u) * u
    BY <1>2, Multiple
  <2>2. m \div u # 0
    BY <1>2, <2>1
  <2> QED BY <2>1, <2>2
<1>4. PICK s : s = Time!Seconds(t)
  OBVIOUS
<1>5. PICK r \in 0 .. c - 1, p \in 0 .. u - 1 :
          /\ t = s * c + r
          /\ Time!Convert(t) = [tv_sec |-> s, part |-> p]
          /\ p = (r * u) \div c
          /\ p * c <= r * u
          /\ r * u < p * c + c
  BY <1>1, <1>2, <1>4, PartRoundsDown
<1>6. s \in Int /\ r \in Nat /\ p \in Nat
  BY <1>1, <1>2, <1>4, SecondsRoundDown
<1>7. Time!to_time_point(Time!Convert(t)) = s * m + p * k
  <2>1. (p * m) \div u = p * k
    <3>1. p * m = (p * k) * u
      BY <1>2, <1>3, <1>6, Associative
    <3>2. p * k \in Nat
      BY <1>3, <1>6
    <3>3. PICK x \in Nat : x = p * k
      BY <3>2
    <3>4. x * u \in Nat
      BY <1>2
    <3>5. (x * u) \div u = x
      <4>1. PICK y : y = x * u
        OBVIOUS
      <4>2. y \div u \in Int /\ (y \div u) * u <= y /\ y < (y \div u) * u + u
        BY <1>2, <3>4, <4>1, Divided
      <4>3. x * u <= y /\ y < x * u + u
        BY <1>2, <3>4, <4>1
      <4> QED BY <1>2, <3>4, <4>1, <4>2, <4>3, DivisionUnique
    <3> QED BY <3>1, <3>3, <3>5
  <2> QED BY <1>1, <1>5, <2>1 DEF Time!to_time_point
<1> DEFINE back == Time!to_time_point(Time!Convert(t)) * c
           time == t * m
           lost == r * u - p * c
<1>8. lost \in Nat /\ lost < c
  <2>1. PICK x \in Int, y \in Int : x = r * u /\ y = p * c
    BY <1>2, <1>6
  <2> QED BY <1>2, <1>5, <2>1
<1>9. time - back = k * lost /\ time \in Int /\ back \in Int
  <2>1. back = (s * (k * u) + p * k) * c
    BY <1>3, <1>7
  <2>2. time = (s * c + r) * (k * u)
    BY <1>3, <1>5
  <2>3. (s * c + r) * (k * u) - (s * (k * u) + p * k) * c = k * (r * u - p * c)
    BY <1>2, <1>3, <1>6
  <2>4. (s * c + r) * (k * u) \in Int /\ (s * (k * u) + p * k) * c \in Int
    BY <1>2, <1>3, <1>6
  <2> QED BY <2>1, <2>2, <2>3, <2>4
<1> HIDE DEF lost, back, time
<1>10. k * lost \in Nat
  BY <1>3, <1>8
<1>11. back <= time
  <2>1. PICK x \in Nat : x = k * lost
    BY <1>10
  <2> QED BY <1>9, <2>1
<1>12. (time - back) * u < c * m
  <2>1. lost * (k * u) < c * (k * u)
    <3>1. k * u \in Nat /\ k * u > 0
      BY <1>2, <1>3
    <3> QED BY <1>2, <1>8, <3>1, TimesMonotonic
  <2>2. (k * lost) * u = lost * (k * u)
    BY <1>2, <1>3, <1>8
  <2> QED BY <1>3, <1>9, <2>1, <2>2
<1>13. u % c = 0 => back = time
  <2> SUFFICES ASSUME u % c = 0 PROVE back = time
    OBVIOUS
  <2>1. PICK j \in Nat : u = j * c
    <3>1. u \div c \in Nat /\ u = (u \div c) * c
      BY <1>2, Multiple
    <3> QED BY <3>1
  <2>2. r * u = (r * j) * c
    BY <1>2, <1>6, <2>1, Associative
  <2>3. PICK x \in Nat : x = r * j
    BY <1>6, <2>1
  <2>4. p = x
    <3>1. PICK y : y = r * u
      OBVIOUS
    <3>2. y \in Int /\ y = x * c
      BY <1>2, <2>2, <2>3, <3>1
    <3>3. p * c <= y /\ y < p * c + c
      BY <1>5, <3>1
    <3>4. x * c <= y /\ y < x * c + c
      BY <1>2, <3>2
    <3> QED BY <1>2, <1>6, <2>3, <3>2, <3>3, <3>4, DivisionUnique
  <2>5. lost = 0
    <3>1. x * c \in Int
      BY <1>2
    <3> QED BY <2>2, <2>3, <2>4, <3>1 DEF lost
  <2>6. k * 0 = 0
    BY <1>3
  <2> QED BY <1>9, <2>5, <2>6
<1> QED BY <1>1, <1>11, <1>12, <1>13 DEF Time!RoundTrip, Time!Divides, back, time

\* convert_to_systime: on both sides of the epoch, at any rates, conversions
\* round down to a unit and keep the order, and what they lose is less than
\* a unit.
THEOREM TimesAlwaysRight == Spec => []TimesRight
<1>1. ASSUME Asked PROVE TimesRight
  <2>1. CASE About("time")
    <3>1. question \in Time!Questions
      BY <1>1, <2>1, QuestionsApart
    <3> QED BY <3>1, PartAlwaysInRange, BackAndForth, OrderAlwaysKept
         DEF TimesRight, Time!TimesRight
  <2>2. CASE ~About("time")
    BY <2>2 DEF TimesRight, Time!TimesRight, About, Time!About, Time!PartInRange,
       Time!RoundTrip, Time!KeepsOrder
  <2> QED BY <2>1, <2>2
<1> QED BY <1>1, AlwaysAsked, PTL

-----------------------------------------------------------------------------
(* errret_thrower, posix_err_thrower, socket_nonblock()                     *)

\* However deep the stack is, posix_err_thrower returns for no error code but
\* zero.
LEMMA PetCodeEnds ==
    ASSUME NEW ec \in Nat
    PROVE  (Error!PetCode(ec)).end = "returned" <=> ec = 0
<1> DEFINE Nested(f) ==
               f = [left \in 0 .. Stack |->
                        IF ec = 0 THEN Error!Returned(0)
                        ELSE IF left = 0 THEN Error!Overflow ELSE f[left - 1]]
           nested == CHOOSE f : Nested(f)
<1>1. Error!PetCode(ec) = nested[Stack]
  BY DEF Error!PetCode
<1>2. Stack \in Nat
  BY PartAssumptions DEF PartAssumptions, Error!ErrorsAssumption
<1>3. Nested(nested)
  <2> DEFINE ending == IF ec = 0 THEN Error!Returned(0) ELSE Error!Overflow
             same == [left \in 0 .. Stack |-> ending]
  <2>1. \A left \in 0 .. Stack : left # 0 => left - 1 \in 0 .. Stack
    BY <1>2
  <2>2. Nested(same)
    BY <2>1
  <2> HIDE DEF Nested
  <2> QED BY <2>2
<1> HIDE DEF nested
<1>4. /\ Error!Returned(0).end = "returned"
      /\ Error!Overflow.end # "returned"
  BY DEF Error!Returned, Error!Overflow
<1>5. CASE ec = 0
  BY <1>1, <1>2, <1>3, <1>4, <1>5
<1>6. CASE ec # 0
  <2>1. \A left \in 0 .. Stack :
            nested[left] = IF left = 0 THEN Error!Overflow ELSE nested[left - 1]
    BY <1>3, <1>6
  <2> DEFINE T == {n \in 0 .. Stack : nested[n] # Error!Overflow}
  <2>2. T = {}
    <3> SUFFICES ASSUME T # {} PROVE FALSE
      OBVIOUS
    <3>1. IsFiniteSet(T) /\ T \subseteq Int
      <4>1. IsFiniteSet(0 .. Stack) /\ T \subseteq 0 .. Stack
        BY <1>2, FS_Interval
      <4> QED BY <1>2, <4>1, FS_Subset
    <3>2. PICK n \in T : \A j \in T : j >= n
      BY <3>1, HasLeast
    <3>3. n # 0 /\ nested[n - 1] = nested[n] /\ n - 1 \in 0 .. Stack
      BY <1>2, <2>1, <3>2
    <3>4. n - 1 \in T
      BY <3>2, <3>3
    <3> QED BY <1>2, <3>2, <3>4
  <2>3. nested[Stack] = Error!Overflow
    BY <1>2, <2>2
  <2> QED BY <1>1, <1>4, <1>6, <2>3
<1> QED BY <1>5, <1>6

\* Of a call that was made, what it answers and what errno is afterwards.
LEMMA CallAnswers ==
    ASSUME NEW c \in Error!Questions
    PROVE  /\ c.ok => c.value \in Nat
           /\ ~c.ok => c.value \in Nat /\ c.value # 0
           /\ c.by \in {"posix", "kernel", "status"} /\ c.ok \in BOOLEAN
           /\ Error!Answer(c) = IF c.by = "status" THEN IF c.ok THEN 0 ELSE c.value
                                ELSE IF c.ok THEN c.value
                                ELSE IF c.by = "posix" THEN -1 ELSE -c.value
           /\ Error!Errno(c) = IF ~c.ok /\ c.by = "posix" THEN c.value ELSE 0
<1>1. /\ \A e \in Errnos : e \in Nat /\ e # 0
      /\ \A n \in Results : n \in Nat
  BY PartAssumptions DEF PartAssumptions, Error!ErrorsAssumption
<1>2. /\ c.by \in {"posix", "kernel", "status"} /\ c.ok \in BOOLEAN
      /\ c.ok => c.value \in Results
      /\ ~c.ok => c.value \in Errnos
  BY DEF Error!Questions, Error!Convention
<1>3. CASE c.by = "status"
  BY <1>1, <1>2, <1>3 DEF Error!Answer, Error!Errno
<1>4. CASE c.by # "status"
  BY <1>1, <1>2, <1>4 DEF Error!Answer, Error!Errno
<1> QED BY <1>3, <1>4

\* errret_thrower, posix_err_thrower, socket_nonblock(): whatever a call
\* answers, by whichever convention, no failure of it goes unnoticed.
THEOREM ErrorsAlwaysReported == Spec => []ErrorsReported
<1>1. ASSUME Asked PROVE ErrorsReported
  <2> DEFINE c == question
             answer == Error!Answer(c)
  <2> SUFFICES ASSUME About("call") PROVE Error!ErrorsReported
    BY DEF About, Error!About, ErrorsReported, Error!ErrorsReported,
           Error!ErrRetRight, Error!PetRight, Error!CodesRight
  <2>1. c \in Error!Questions
    BY <1>1, QuestionsApart
  <2>2. /\ c.ok => c.value \in Nat
        /\ ~c.ok => c.value \in Nat /\ c.value # 0
        /\ c.by \in {"posix", "kernel", "status"} /\ c.ok \in BOOLEAN
        /\ answer = IF c.by = "status" THEN IF c.ok THEN 0 ELSE c.value
                    ELSE IF c.ok THEN c.value
                    ELSE IF c.by = "posix" THEN -1 ELSE -c.value
        /\ Error!Errno(c) = IF ~c.ok /\ c.by = "posix" THEN c.value ELSE 0
    BY <2>1, CallAnswers
  <2>3. answer \in Int
    BY <2>2
  <2>4. /\ \A n : /\ Error!Returned(n).end = "returned"
                  /\ Error!Returned(n).with = n
                  /\ Error!Threw(n).end = "threw"
    BY DEF Error!Returned, Error!Threw
  <2>5. Error!ErrRetRight
    BY <2>2, <2>3, <2>4 DEF Error!ErrRetRight, Error!ErrRet
  <2>6. Error!PetRight
    BY <2>2, <2>3, <2>4 DEF Error!PetRight, Error!Pet
  <2>7. Error!CodesRight
    <3> SUFFICES ASSUME c.by = "status" PROVE Error!CodesRight
      BY DEF Error!CodesRight
    <3>1. answer \in Nat /\ (answer = 0 <=> c.ok)
      BY <2>2
    <3>2. Error!PetCode(answer).end = "returned" <=> c.ok
      BY <3>1, PetCodeEnds
    <3> QED BY <3>1, <3>2 DEF Error!CodesRight, Error!ErrRetCode
  <2>8. c.by = "posix" =>
            LET end == Error!socket_nonblock(answer)
            IN end.end = "returned" => c.ok /\ end.with = c.value
    BY <2>2, <2>3, <2>4 DEF Error!socket_nonblock, Error!Pet
  <2> QED BY <2>5, <2>6, <2>7, <2>8 DEF Error!ErrorsReported
<1> QED BY <1>1, AlwaysAsked, PTL

-----------------------------------------------------------------------------
(* bit_mask                                                                 *)

LEMMA MaskTypes ==
    /\ \A w \in Widths : w \in Nat /\ w > 0
    /\ IntWidth \in Widths
    /\ \A t \in Mask!Type : /\ t.width \in Widths /\ t.signed \in BOOLEAN
                            /\ Mask!Promoted(t) \in Mask!Type
                            /\ Mask!Promoted(t).width >= t.width
                            /\ Mask!Promoted(t).width >= IntWidth
<1>1. /\ \A w \in Widths : w \in Nat /\ w > 0
      /\ IntWidth \in Widths
  BY PartAssumptions DEF PartAssumptions, Mask!MaskAssumption
<1>2. ASSUME NEW t \in Mask!Type
      PROVE  /\ t.width \in Widths /\ t.signed \in BOOLEAN
             /\ Mask!Promoted(t) \in Mask!Type
             /\ Mask!Promoted(t).width >= t.width
             /\ Mask!Promoted(t).width >= IntWidth
  <2>1. t.width \in Widths /\ t.signed \in BOOLEAN
    BY DEF Mask!Type
  <2>2. CASE t.width < IntWidth
    <3>1. Mask!Promoted(t) = [width |-> IntWidth, signed |-> TRUE]
      BY <2>2 DEF Mask!Promoted
    <3> QED BY <1>1, <2>1, <2>2, <3>1 DEF Mask!Type
  <2>3. CASE ~(t.width < IntWidth)
    <3>1. Mask!Promoted(t) = t
      BY <2>3 DEF Mask!Promoted
    <3> QED BY <1>1, <2>1, <2>3, <3>1
  <2> QED BY <2>2, <2>3
<1> QED BY <1>1, <1>2

LEMMA BitOfConverted ==
    ASSUME NEW t \in Mask!Type, NEW bits, bits \subseteq Mask!Bits(t.width),
           NEW w \in Nat, NEW i
    PROVE  i \in Mask!Converted(t, bits, w)
               <=> /\ i \in Mask!Bits(w)
                   /\ i \in bits \/ (t.signed /\ t.width - 1 \in bits /\ i >= t.width)
<1>1. t.width \in Nat
  BY MaskTypes
<1> QED BY <1>1 DEF Mask!Converted, Mask!Bits

\* The width an operation is done in.
LEMMA WiderFacts ==
    ASSUME NEW t \in Mask!Type, NEW u \in Mask!Type
    PROVE  /\ Mask!Wider(t, u) \in Nat
           /\ Mask!Wider(t, u) >= t.width /\ Mask!Wider(t, u) >= u.width
           /\ Mask!Wider(t, u) >= Mask!Promoted(u).width
           /\ Mask!Wider(t, u) \in {Mask!Promoted(t).width, Mask!Promoted(u).width}
<1>1. /\ t.width \in Nat /\ u.width \in Nat
      /\ Mask!Promoted(t).width \in Nat /\ Mask!Promoted(u).width \in Nat
      /\ Mask!Promoted(t).width >= t.width /\ Mask!Promoted(u).width >= u.width
  BY MaskTypes DEF Mask!Type
<1> QED BY <1>1 DEF Mask!Wider

\* What ~flag has, as wide as the operation.
LEMMA BitOfComplement ==
    ASSUME NEW t \in Mask!Type, NEW flag, flag \subseteq Mask!Bits(t.width),
           NEW w \in Nat, w >= Mask!Promoted(t).width,
           NEW i \in Mask!Bits(w)
    PROVE  i \in Mask!Converted(Mask!Promoted(t), Mask!Complement(t, flag), w)
               <=> IF i < Mask!Promoted(t).width
                   THEN i \notin flag
                        /\ (t.signed /\ t.width - 1 \in flag => i < t.width)
                   ELSE /\ Mask!Promoted(t).signed
                        /\ Mask!Promoted(t).width - 1 \notin flag
                        /\ (t.signed /\ t.width - 1 \in flag =>
                                Mask!Promoted(t).width - 1 < t.width)
<1> DEFINE p == Mask!Promoted(t)
           c == Mask!Complement(t, flag)
<1>1. /\ p \in Mask!Type /\ p.width \in Nat /\ p.width > 0 /\ t.width \in Nat
      /\ p.width >= t.width /\ i \in Nat /\ i < w
  BY MaskTypes DEF Mask!Bits
<1>2. \A j \in Mask!Bits(p.width) :
          j \in c <=> j \notin flag
                      /\ (t.signed /\ t.width - 1 \in flag => j < t.width)
  <2> TAKE j \in Mask!Bits(p.width)
  <2>1. j \in c <=> j \notin Mask!Converted(t, flag, p.width)
    BY DEF Mask!Complement
  <2>2. j \in Nat
    BY <1>1 DEF Mask!Bits
  <2>3. j \in Mask!Converted(t, flag, p.width)
            <=> /\ j \in Mask!Bits(p.width)
                /\ j \in flag \/ (t.signed /\ t.width - 1 \in flag /\ j >= t.width)
    BY <1>1, BitOfConverted
  <2> HIDE DEF p, c
  <2> QED BY <1>1, <2>1, <2>2, <2>3
<1>3. c \subseteq Mask!Bits(p.width)
  BY DEF Mask!Complement
<1> HIDE DEF p, c
<1>4. i \in Mask!Converted(p, c, w)
          <=> i \in c \/ (p.signed /\ p.width - 1 \in c /\ i >= p.width)
  BY <1>1, <1>3, BitOfConverted
<1>5. p.width - 1 \in Mask!Bits(p.width) /\ (i \in Mask!Bits(p.width) <=> i < p.width)
  BY <1>1 DEF Mask!Bits
<1>6. i \notin Mask!Bits(p.width) => i \notin c
  BY <1>3
<1> QED BY <1>1, <1>2, <1>4, <1>5, <1>6 DEF p, c

\* The question's types and bits.
MaskAsked(r, mask, u, flag) ==
    /\ r \in Mask!Type /\ mask \subseteq Mask!Bits(r.width)
    /\ u \in Mask!Type /\ flag \subseteq Mask!Bits(u.width)

LEMMA BitsAdded ==
    ASSUME NEW r, NEW mask, NEW u, NEW flag, MaskAsked(r, mask, u, flag)
    PROVE  /\ Mask!add(r, mask, u, flag) \subseteq Mask!Bits(r.width)
           /\ \A i \in Mask!Bits(r.width) :
                  i \in Mask!add(r, mask, u, flag)
                      <=> i \in mask \/ i \in flag
                          \/ (u.signed /\ u.width - 1 \in flag /\ i >= u.width)
<1> DEFINE w == Mask!Wider(r, u)
<1>1. w \in Nat /\ w >= r.width /\ r.width \in Nat
  BY WiderFacts, MaskTypes DEF MaskAsked
<1>2. Mask!add(r, mask, u, flag) =
          (Mask!Converted(r, mask, w) \cup Mask!Converted(u, flag, w))
              \cap Mask!Bits(r.width)
  BY DEF Mask!add
<1>3. ASSUME NEW i \in Mask!Bits(r.width)
      PROVE  /\ i \in Mask!Converted(r, mask, w) <=> i \in mask
             /\ i \in Mask!Converted(u, flag, w)
                    <=> i \in flag \/ (u.signed /\ u.width - 1 \in flag /\ i >= u.width)
  <2>1. i \in Nat /\ i < r.width /\ i \in Mask!Bits(w)
    BY <1>1 DEF Mask!Bits
  <2>2. i \in Mask!Converted(r, mask, w)
            <=> /\ i \in Mask!Bits(w)
                /\ i \in mask \/ (r.signed /\ r.width - 1 \in mask /\ i >= r.width)
    BY <1>1, BitOfConverted DEF MaskAsked
  <2>3. i \in Mask!Converted(u, flag, w)
            <=> /\ i \in Mask!Bits(w)
                /\ i \in flag \/ (u.signed /\ u.width - 1 \in flag /\ i >= u.width)
    BY <1>1, BitOfConverted DEF MaskAsked
  <2>4. ~(i >= r.width)
    BY <1>1, <2>1
  <2> QED BY <2>1, <2>2, <2>3, <2>4
<1> QED BY <1>2, <1>3

LEMMA BitsRemaining ==
    ASSUME NEW r, NEW mask, NEW u, NEW flag, MaskAsked(r, mask, u, flag)
    PROVE  /\ Mask!remove(r, mask, u, flag) \subseteq mask
           /\ \A i \in mask :
                  i \in Mask!remove(r, mask, u, flag)
                      <=> IF i < Mask!Promoted(u).width
                          THEN i \notin flag
                               /\ (u.signed /\ u.width - 1 \in flag => i < u.width)
                          ELSE /\ Mask!Promoted(u).signed
                               /\ Mask!Promoted(u).width - 1 \notin flag
                               /\ (u.signed /\ u.width - 1 \in flag =>
                                       Mask!Promoted(u).width - 1 < u.width)
<1> DEFINE w == Mask!Wider(r, u)
           c == Mask!Converted(Mask!Promoted(u), Mask!Complement(u, flag), w)
<1>1. /\ w \in Nat /\ w >= r.width /\ r.width \in Nat
      /\ w >= Mask!Promoted(u).width
  BY WiderFacts, MaskTypes DEF MaskAsked
<1>2. Mask!remove(r, mask, u, flag) =
          Mask!Converted(r, mask, w) \cap c \cap Mask!Bits(r.width)
  BY DEF Mask!remove
<1>3. ASSUME NEW i \in Mask!Bits(r.width)
      PROVE  /\ i \in Mask!Converted(r, mask, w) <=> i \in mask
             /\ i \in Mask!Bits(w)
  <2>1. i \in Nat /\ i < r.width /\ i \in Mask!Bits(w)
    BY <1>1 DEF Mask!Bits
  <2>2. i \in Mask!Converted(r, mask, w)
            <=> /\ i \in Mask!Bits(w)
                /\ i \in mask \/ (r.signed /\ r.width - 1 \in mask /\ i >= r.width)
    BY <1>1, BitOfConverted DEF MaskAsked
  <2>3. ~(i >= r.width)
    BY <1>1, <2>1
  <2> QED BY <2>1, <2>2, <2>3
<1>4. ASSUME NEW i \in mask
      PROVE  i \in Mask!remove(r, mask, u, flag) <=> i \in c
  BY <1>2, <1>3 DEF MaskAsked
<1>5. ASSUME NEW i \in mask
      PROVE  i \in Mask!Bits(w)
  BY <1>3 DEF MaskAsked
<1>6. Mask!remove(r, mask, u, flag) \subseteq mask
  BY <1>2, <1>3
<1> QED BY <1>1, <1>4, <1>5, <1>6, BitOfComplement DEF MaskAsked

LEMMA OneTypeMasks ==
    ASSUME NEW t, NEW mask, NEW flag, MaskAsked(t, mask, t, flag)
    PROVE  /\ Mask!add(t, mask, t, flag) = mask \cup flag
           /\ Mask!contains(t, mask \cup flag, t, flag)
           /\ Mask!contains(t, mask, t, flag) <=> flag \subseteq mask
           /\ Mask!remove(t, mask, t, flag) = mask \ flag
<1> DEFINE w == Mask!Wider(t, t)
           p == Mask!Promoted(t)
<1>1. /\ w \in Nat /\ w >= t.width /\ t.width \in Nat /\ t \in Mask!Type
      /\ p.width \in Nat /\ p.width >= t.width
  BY WiderFacts, MaskTypes DEF MaskAsked
<1>2. \A i \in Mask!Bits(t.width) : i \in Nat /\ i < t.width /\ i \in Mask!Bits(w)
  BY <1>1 DEF Mask!Bits
<1>3. Mask!add(t, mask, t, flag) = mask \cup flag
  <2>1. \A i \in Mask!Bits(t.width) :
            i \in Mask!add(t, mask, t, flag) <=> i \in mask \/ i \in flag
    BY <1>1, <1>2, BitsAdded
  <2> QED BY <2>1, BitsAdded DEF MaskAsked
<1>4. ASSUME NEW m, m \subseteq Mask!Bits(t.width)
      PROVE  Mask!contains(t, m, t, flag) <=> flag \subseteq m
  <2>1. \A bits : bits \subseteq Mask!Bits(t.width) =>
            \A i : i \in Mask!Converted(t, bits, w)
                      <=> /\ i \in Mask!Bits(w)
                          /\ i \in bits \/ (t.signed /\ t.width - 1 \in bits /\ i >= t.width)
    BY <1>1, BitOfConverted
  <2>2. Mask!contains(t, m, t, flag)
            <=> Mask!Converted(t, flag, w) \subseteq Mask!Converted(t, m, w)
    BY DEF Mask!contains
  <2>3. flag \subseteq Mask!Bits(t.width)
    BY DEF MaskAsked
  <2>4. ASSUME flag \subseteq m
        PROVE  Mask!Converted(t, flag, w) \subseteq Mask!Converted(t, m, w)
    BY <1>4, <2>1, <2>3, <2>4
  <2>5. ASSUME Mask!Converted(t, flag, w) \subseteq Mask!Converted(t, m, w)
        PROVE  flag \subseteq m
    <3> SUFFICES ASSUME NEW i \in flag PROVE i \in m
      OBVIOUS
    <3>1. i < t.width /\ i \in Nat /\ i \in Mask!Bits(w)
      BY <1>2, <2>3
    <3>2. i \in Mask!Converted(t, m, w)
      BY <2>1, <2>3, <2>5, <3>1
    <3>3. i \in m \/ i >= t.width
      BY <1>4, <2>1, <3>2
    <3> QED BY <1>1, <3>1, <3>3
  <2> QED BY <2>2, <2>4, <2>5
<1>5. Mask!remove(t, mask, t, flag) = mask \ flag
  <2>1. \A i \in mask : i \in Mask!remove(t, mask, t, flag) <=> i \notin flag
    <3> TAKE i \in mask
    <3>1. i < t.width /\ i \in Nat
      BY <1>2 DEF MaskAsked
    <3>2. i < p.width
      BY <1>1, <3>1
    <3> QED BY <3>1, <3>2, BitsRemaining
  <2> QED BY <2>1, BitsRemaining
<1>6. mask \subseteq Mask!Bits(t.width) /\ mask \cup flag \subseteq Mask!Bits(t.width)
  BY DEF MaskAsked
<1> QED BY <1>3, <1>4, <1>5, <1>6

LEMMA UnsignedMasks ==
    ASSUME NEW r, NEW mask, NEW u, NEW flag, MaskAsked(r, mask, u, flag), ~u.signed
    PROVE  /\ Mask!remove(r, mask, u, flag) = mask \ flag
                  <=> \/ u.width < IntWidth \/ u.width >= r.width
                      \/ mask \subseteq Mask!Bits(u.width)
           /\ u.width <= r.width =>
                  /\ Mask!add(r, mask, u, flag) = mask \cup flag
                  /\ Mask!contains(r, mask \cup flag, u, flag)
<1> DEFINE p == Mask!Promoted(u)
           rest == Mask!remove(r, mask, u, flag)
<1>1. /\ r.width \in Nat /\ u.width \in Nat /\ IntWidth \in Nat /\ p.width \in Nat
      /\ p.width >= u.width
      /\ r \in Mask!Type /\ u \in Mask!Type
      /\ mask \subseteq Mask!Bits(r.width) /\ flag \subseteq Mask!Bits(u.width)
  BY MaskTypes DEF MaskAsked
<1>2. /\ \A i \in mask : i \in Nat /\ i < r.width
      /\ \A i \in flag : i \in Nat /\ i < u.width
      /\ \A i \in Nat : i \in Mask!Bits(u.width) <=> i < u.width
  BY <1>1 DEF Mask!Bits
<1>3. rest \subseteq mask
  BY BitsRemaining
<1>4. ASSUME u.width < IntWidth
      PROVE  rest = mask \ flag
                 <=> \/ u.width < IntWidth \/ u.width >= r.width
                     \/ mask \subseteq Mask!Bits(u.width)
  <2>1. p = [width |-> IntWidth, signed |-> TRUE]
    BY <1>4 DEF Mask!Promoted
  <2>2. p.width = IntWidth /\ p.signed
    BY <2>1
  <2>3. IntWidth - 1 \notin flag /\ \A i \in flag : i < p.width
    BY <1>1, <1>2, <1>4, <2>2
  <2>4. \A i \in mask : i \in rest <=> i \notin flag
    BY <1>1, <2>2, <2>3, BitsRemaining
  <2> QED BY <1>3, <1>4, <2>4
<1>5. ASSUME ~(u.width < IntWidth)
      PROVE  rest = mask \ flag
                 <=> \/ u.width < IntWidth \/ u.width >= r.width
                     \/ mask \subseteq Mask!Bits(u.width)
  <2>1. p = u
    BY <1>5 DEF Mask!Promoted
  <2>2. \A i \in mask : i \in rest <=> i \notin flag /\ i < u.width
    BY <2>1, BitsRemaining
  <2>3. rest = mask \ flag <=> \A i \in mask : i < u.width
    BY <1>2, <1>3, <2>2
  <2>4. (\A i \in mask : i < u.width) <=> mask \subseteq Mask!Bits(u.width)
    BY <1>2
  <2>5. u.width >= r.width => \A i \in mask : i < u.width
    BY <1>1, <1>2
  <2> QED BY <1>5, <2>3, <2>4, <2>5
<1>6. rest = mask \ flag
          <=> \/ u.width < IntWidth \/ u.width >= r.width
              \/ mask \subseteq Mask!Bits(u.width)
  BY <1>4, <1>5
<1>7. ASSUME u.width <= r.width
      PROVE  Mask!add(r, mask, u, flag) = mask \cup flag
  <2>1. \A i \in Mask!Bits(r.width) :
            i \in Mask!add(r, mask, u, flag) <=> i \in mask \/ i \in flag
    BY BitsAdded
  <2>2. \A i \in flag : i \in Mask!Bits(r.width)
    BY <1>1, <1>2, <1>7 DEF Mask!Bits
  <2>3. Mask!add(r, mask, u, flag) \subseteq Mask!Bits(r.width)
    BY BitsAdded
  <2> QED BY <1>1, <2>1, <2>2, <2>3
<1>8. ASSUME u.width <= r.width
      PROVE  Mask!contains(r, mask \cup flag, u, flag)
  <2> DEFINE w == Mask!Wider(r, u)
  <2>1. w \in Nat /\ w >= r.width
    BY <1>1, WiderFacts
  <2>2. mask \cup flag \subseteq Mask!Bits(r.width)
    BY <1>1, <1>2, <1>8 DEF Mask!Bits
  <2> HIDE DEF w
  <2>3. ASSUME NEW i, i \in Mask!Converted(u, flag, w)
        PROVE  i \in Mask!Converted(r, mask \cup flag, w)
    <3>1. i \in Mask!Bits(w) /\ i \in flag
      BY <1>1, <2>1, <2>3, BitOfConverted
    <3> QED BY <1>1, <2>1, <2>2, <3>1, BitOfConverted
  <2> QED BY <2>3 DEF Mask!contains, w
<1> QED BY <1>6, <1>7, <1>8

\* bit_mask: whatever integer types a mask and its flags have, flags are added,
\* found and removed as sets of bits, as far as those types allow it.
THEOREM MasksAlwaysRight == Spec => []Mask!MasksRight
<1>1. ASSUME Asked PROVE Mask!MasksRight
  <2> DEFINE q == question
  <2> SUFFICES ASSUME About("mask")
               PROVE  Mask!MasksRight
    BY DEF About, Mask!About, Mask!MasksRight, Mask!OneTypeRight,
           Mask!RemoveTakesMore, Mask!NarrowFlagFound
  <2>1. MaskAsked(q.rep, q.mask, q.of, q.flag)
    BY <1>1, QuestionsApart DEF Mask!Questions, MaskAsked
  <2>2. Mask!OneTypeRight
    <3> SUFFICES ASSUME q.rep = q.of PROVE Mask!OneTypeRight
      BY DEF Mask!OneTypeRight, Mask!q
    <3>1. PICK t, mask, flag : t = q.rep /\ mask = q.mask /\ flag = q.flag
      OBVIOUS
    <3>2. MaskAsked(t, mask, t, flag)
      BY <2>1, <3>1
    <3>3. /\ Mask!add(t, mask, t, flag) = mask \cup flag
          /\ Mask!contains(t, mask \cup flag, t, flag)
          /\ Mask!contains(t, mask, t, flag) <=> flag \subseteq mask
          /\ Mask!remove(t, mask, t, flag) = mask \ flag
      <4> HIDE <3>1
      <4> QED BY <3>2, OneTypeMasks
    <3> QED BY <3>1, <3>3 DEF Mask!OneTypeRight, Mask!q, Mask!Added, Mask!Remaining
  <2>3. Mask!RemoveTakesMore
    BY <2>1, UnsignedMasks DEF Mask!RemoveTakesMore, Mask!q, Mask!Remaining
  <2>4. Mask!NarrowFlagFound
    <3> SUFFICES ASSUME ~q.of.signed, q.of.width <= q.rep.width
                 PROVE  Mask!NarrowFlagFound
      BY DEF Mask!NarrowFlagFound, Mask!q
    <3>1. /\ Mask!add(q.rep, q.mask, q.of, q.flag) = q.mask \cup q.flag
          /\ Mask!contains(q.rep, q.mask \cup q.flag, q.of, q.flag)
      BY <2>1, UnsignedMasks
    <3> QED BY <3>1 DEF Mask!NarrowFlagFound, Mask!q, Mask!Added
  <2> QED BY <2>2, <2>3, <2>4 DEF Mask!MasksRight
<1> QED BY <1>1, AlwaysAsked, PTL

-----------------------------------------------------------------------------
(* math_ext and the levels of skip_list                                     *)

LEMMA MathTypes ==
    /\ MaxNumber \in Nat /\ MaxTails \in Nat /\ MaxTails >= Math!log2[MaxNumber]
    /\ SizeModulus \in Nat /\ SizeModulus > MaxNumber
BY PartAssumptions DEF PartAssumptions, Math!MathAssumption

LEMMA MathPower == Math!Power(2) = Power(2)
BY DEF Math!Power, Power

LEMMA Halved ==
    ASSUME NEW n \in Nat, n > 1
    PROVE  /\ n \div 2 \in Nat /\ n \div 2 >= 1 /\ n \div 2 < n
           /\ n % 2 \in {0, 1} /\ n = 2 * (n \div 2) + (n % 2)
OBVIOUS

\* log2 exists.
LEMMA LogIs ==
    \A n \in 0 .. MaxNumber :
        /\ Math!log2[n] \in Nat
        /\ n <= 1 => Math!log2[n] = 0
        /\ n > 1 => /\ n \div 2 \in 0 .. MaxNumber
                    /\ Math!log2[n] = Math!log2[n \div 2] + 1
<1>0. PICK M \in Nat : M = MaxNumber
  BY MathTypes
<1> DEFINE G == [i \in 0 .. M |-> [f \in [0 .. M -> Nat] |->
                    IF i <= 1 THEN 0 ELSE f[i \div 2] + 1]]
           Step(f) == f = [n \in 0 .. MaxNumber |-> IF n <= 1 THEN 0 ELSE f[n \div 2] + 1]
<1>1. ASSUME NEW i \in 0 .. M, ~(i <= 1)
      PROVE  i \div 2 \in 0 .. M /\ i \div 2 \in 0 .. i - 1
  BY <1>1
<1>2. Causal(G, M, Nat)
  <2>1. G \in [0 .. M -> [[0 .. M -> Nat] -> Nat]]
    <3>1. ASSUME NEW i \in 0 .. M, NEW f \in [0 .. M -> Nat]
          PROVE  (IF i <= 1 THEN 0 ELSE f[i \div 2] + 1) \in Nat
      BY <1>1
    <3> QED BY <3>1
  <2>2. ASSUME NEW i \in 0 .. M, NEW f \in [0 .. M -> Nat], NEW g \in [0 .. M -> Nat],
               \A j \in 0 .. i - 1 : f[j] = g[j]
        PROVE  G[i][f] = G[i][g]
    BY <1>1, <2>2
  <2> HIDE DEF G
  <2> QED BY <2>1, <2>2 DEF Causal
<1>3. PICK f \in [0 .. M -> Nat] : Recursive(f, G, M)
  <2>1. Nat # {}
    OBVIOUS
  <2> HIDE DEF G
  <2> QED BY <1>2, <2>1, RecursionExists
<1>4. Step(f)
  <2>1. \A i \in 0 .. M : f[i] = IF i <= 1 THEN 0 ELSE f[i \div 2] + 1
    BY <1>3 DEF Recursive
  <2>2. f = [i \in 0 .. M |-> f[i]]
    OBVIOUS
  <2> QED BY <1>0, <2>1, <2>2
<1>5. Step(Math!log2)
  <2>1. Math!log2 = CHOOSE g : Step(g)
    BY DEF Math!log2
  <2> HIDE DEF Step
  <2> QED BY <1>4, <2>1
<1>6. \A i \in 0 .. M : Math!log2[i] = IF i <= 1 THEN 0 ELSE Math!log2[i \div 2] + 1
  BY <1>0, <1>5
<1> DEFINE S == {i \in 0 .. M : \A j \in 0 .. i : Math!log2[j] \in Nat}
<1>7. \A i \in 0 .. M : i \in S
  <2>1. 0 \in S
    BY <1>6
  <2>2. ASSUME NEW i \in 1 .. M, i - 1 \in S PROVE i \in S
    <3>1. \A j \in 0 .. i - 1 : Math!log2[j] \in Nat
      BY <2>2
    <3>2. i \in 0 .. M /\ (~(i <= 1) => i \div 2 \in 0 .. i - 1)
      BY <1>1
    <3>3. Math!log2[i] \in Nat
      BY <1>6, <3>1, <3>2
    <3>4. \A j \in 0 .. i : j \in 0 .. i - 1 \/ j = i
      OBVIOUS
    <3> QED BY <3>1, <3>2, <3>3, <3>4
  <2> HIDE DEF S
  <2> QED BY <1>0, <2>1, <2>2, AllUpTo
<1>8. \A i \in 0 .. M : Math!log2[i] \in Nat
  <2>1. \A i \in 0 .. M : i \in 0 .. i
    OBVIOUS
  <2> QED BY <1>7, <2>1
<1> QED BY <1>0, <1>1, <1>6, <1>8

\* What holds of a number when it holds of its half holds of all.
LEMMA ByHalves ==
    ASSUME NEW M \in Nat, NEW S, M > 0 => 1 \in S,
           \A n \in 2 .. M : n \div 2 \in S => n \in S
    PROVE  \A n \in 1 .. M : n \in S
<1> DEFINE T == {n \in 0 .. M : \A m \in 1 .. n : m \in S}
<1>1. 0 \in T
  OBVIOUS
<1>2. ASSUME NEW n \in 1 .. M, n - 1 \in T PROVE n \in T
  <2>1. \A m \in 1 .. n - 1 : m \in S
    BY <1>2
  <2>2. n \in S
    <3>1. CASE n = 1
      BY <3>1
    <3>2. CASE n # 1
      <4>1. n \in 2 .. M /\ n \div 2 \in 1 .. n - 1
        BY <3>2
      <4> QED BY <2>1, <4>1
    <3> QED BY <3>1, <3>2
  <2>3. \A m \in 1 .. n : m \in 1 .. n - 1 \/ m = n
    OBVIOUS
  <2> QED BY <2>1, <2>2, <2>3
<1>3. \A n \in 0 .. M : n \in T
  <2> HIDE DEF T
  <2> QED BY <1>1, <1>2, AllUpTo
<1>4. \A n \in 1 .. M : n \in 0 .. M /\ n \in 1 .. n
  OBVIOUS
<1> QED BY <1>3, <1>4

\* log2 is the floor of the logarithm, and less than what it is of.
LEMMA LogRight ==
    ASSUME NEW n \in 1 .. MaxNumber
    PROVE  /\ Power(2)[Math!log2[n]] <= n /\ n < Power(2)[Math!log2[n] + 1]
           /\ Math!log2[n] < n
<1>0. PICK M \in Nat : M = MaxNumber /\ n \in 1 .. M
  BY MathTypes
<1> DEFINE S == {k \in 1 .. M : /\ Power(2)[Math!log2[k]] <= k
                                /\ k < Power(2)[Math!log2[k] + 1]
                                /\ Math!log2[k] < k}
<1>1. M > 0 => 1 \in S
  <2>1. Power(2)[0] = 1 /\ Power(2)[0 + 1] = 2 * Power(2)[0]
    BY PowerSteps
  <2>2. M > 0 => Math!log2[1] = 0 /\ 1 \in 1 .. M
    BY <1>0, LogIs
  <2> QED BY <2>1, <2>2
<1>2. ASSUME NEW k \in 2 .. M, k \div 2 \in S PROVE k \in S
  <2>1. PICK h \in 1 .. M, r \in {0, 1} : h = k \div 2 /\ k = 2 * h + r
    BY Halved
  <2>2. PICK l \in Nat : l = Math!log2[h]
    BY <1>0, LogIs
  <2>3. Math!log2[k] = l + 1
    BY <1>0, <2>1, <2>2, LogIs
  <2>4. PICK p \in Nat : p = Power(2)[l] /\ Power(2)[l + 1] = 2 * p
    BY PowerSteps
  <2>5. Power(2)[(l + 1) + 1] = 2 * (2 * p)
    <3>1. PICK m \in Nat : m = l + 1
      OBVIOUS
    <3> QED BY <2>4, <3>1, PowerSteps
  <2>6. p <= h /\ h < 2 * p /\ l < h
    BY <1>2, <2>1, <2>2, <2>4
  <2>7. 2 * p <= k /\ k < 2 * (2 * p) /\ l + 1 < k
    BY <2>1, <2>6
  <2>8. k \in 1 .. M
    OBVIOUS
  <2> QED BY <2>3, <2>4, <2>5, <2>7, <2>8
<1>3. \A k \in 1 .. M : k \in S
  <2> HIDE DEF S
  <2> QED BY <1>1, <1>2, ByHalves
<1> QED BY <1>0, <1>3

\* And exists.
LEMMA AndIs ==
    \A i, j \in 0 .. MaxNumber :
        /\ Math!And[i][j] \in Nat
        /\ i = 0 \/ j = 0 => Math!And[i][j] = 0
        /\ i # 0 /\ j # 0 =>
              /\ i \div 2 \in 0 .. MaxNumber /\ j \div 2 \in 0 .. MaxNumber
              /\ Math!And[i][j]
                     = (i % 2) * (j % 2) + 2 * Math!And[i \div 2][j \div 2]
<1>0. PICK M \in Nat : M = MaxNumber
  BY MathTypes
<1> DEFINE X == [0 .. M -> Nat]
           bits(i, j, g) == IF i = 0 \/ j = 0 THEN 0
                            ELSE (i % 2) * (j % 2) + 2 * g[j \div 2]
           G == [i \in 0 .. M |-> [f \in [0 .. M -> X] |->
                    [j \in 0 .. M |-> bits(i, j, f[i \div 2])]]]
           Step(f) == f = [i \in 0 .. MaxNumber |->
                              [j \in 0 .. MaxNumber |-> bits(i, j, f[i \div 2])]]
<1>1. ASSUME NEW i \in 0 .. M
      PROVE  i \div 2 \in 0 .. M /\ (i # 0 => i \div 2 \in 0 .. i - 1)
  OBVIOUS
<1>2. ASSUME NEW i \in 0 .. M, NEW j \in 0 .. M, NEW g \in X
      PROVE  bits(i, j, g) \in Nat
  <2>1. j \div 2 \in 0 .. M
    BY <1>1
  <2>2. PICK a \in {0, 1}, b \in {0, 1}, c \in Nat : a = i % 2 /\ b = j % 2 /\ c = g[j \div 2]
    BY <2>1
  <2>3. a * b \in Nat
    BY <2>2
  <2> QED BY <2>2, <2>3
<1>3. Causal(G, M, X)
  <2>1. G \in [0 .. M -> [[0 .. M -> X] -> X]]
    <3>1. ASSUME NEW i \in 0 .. M, NEW f \in [0 .. M -> X]
          PROVE  [j \in 0 .. M |-> bits(i, j, f[i \div 2])] \in X
      <4>1. f[i \div 2] \in X
        BY <1>1
      <4>2. \A j \in 0 .. M : bits(i, j, f[i \div 2]) \in Nat
        BY <1>2, <4>1
      <4> HIDE DEF bits
      <4> QED BY <4>2
    <3> HIDE DEF X, bits
    <3> QED BY <3>1
  <2>2. ASSUME NEW i \in 0 .. M, NEW f \in [0 .. M -> X], NEW g \in [0 .. M -> X],
               \A j \in 0 .. i - 1 : f[j] = g[j]
        PROVE  G[i][f] = G[i][g]
    <3>1. CASE i = 0
      <4>1. \A j \in 0 .. M : bits(i, j, f[i \div 2]) = bits(i, j, g[i \div 2])
        BY <3>1
      <4> HIDE DEF bits, X
      <4> QED BY <4>1
    <3>2. CASE i # 0
      <4>1. f[i \div 2] = g[i \div 2]
        BY <1>1, <2>2, <3>2
      <4> HIDE DEF bits, X
      <4> QED BY <4>1
    <3> QED BY <3>1, <3>2
  <2> HIDE DEF G
  <2> QED BY <2>1, <2>2 DEF Causal
<1>4. PICK f \in [0 .. M -> X] : Recursive(f, G, M)
  <2>1. X # {}
    <3>1. [i \in 0 .. M |-> 0] \in X
      OBVIOUS
    <3> QED BY <3>1
  <2> HIDE DEF G, X
  <2> QED BY <1>3, <2>1, RecursionExists
<1>5. Step(f)
  <2> HIDE DEF bits
  <2>1. \A i \in 0 .. M : f[i] = [j \in 0 .. M |-> bits(i, j, f[i \div 2])]
    BY <1>4 DEF Recursive
  <2>2. f = [i \in 0 .. M |-> f[i]]
    OBVIOUS
  <2> QED BY <1>0, <2>1, <2>2
<1>6. Step(Math!And)
  <2>1. Math!And = CHOOSE g : Step(g)
    BY DEF Math!And
  <2> HIDE DEF Step
  <2> QED BY <1>5, <2>1
<1>7. \A i, j \in 0 .. M : Math!And[i][j] = bits(i, j, Math!And[i \div 2])
  <2> TAKE i, j \in 0 .. M
  <2> HIDE DEF bits
  <2>1. Math!And[i] = [k \in 0 .. M |-> bits(i, k, Math!And[i \div 2])]
    BY <1>0, <1>6
  <2> QED BY <2>1
<1> DEFINE S == {i \in 0 .. M : \A k \in 0 .. i : Math!And[k] \in X}
<1>8. \A i \in 0 .. M : i \in S
  <2>0. ASSUME NEW i \in 0 .. M, i = 0 \/ Math!And[i \div 2] \in X
        PROVE  Math!And[i] \in X
    <3>1. \A j \in 0 .. M : bits(i, j, Math!And[i \div 2]) \in Nat
      BY <1>2, <2>0
    <3>2. Math!And[i] = [j \in 0 .. M |-> bits(i, j, Math!And[i \div 2])]
      <4> HIDE DEF bits
      <4> QED BY <1>0, <1>6
    <3> HIDE DEF bits
    <3> QED BY <3>1, <3>2
  <2>1. 0 \in S
    <3>1. Math!And[0] \in X
      BY <2>0
    <3>2. \A k \in 0 .. 0 : k = 0
      OBVIOUS
    <3> HIDE DEF X
    <3> QED BY <3>1, <3>2
  <2>2. ASSUME NEW i \in 1 .. M, i - 1 \in S PROVE i \in S
    <3> HIDE DEF X
    <3>1. \A k \in 0 .. i - 1 : Math!And[k] \in X
      BY <2>2
    <3>2. Math!And[i] \in X
      BY <1>1, <2>0, <3>1
    <3>3. \A k \in 0 .. i : k \in 0 .. i - 1 \/ k = i
      OBVIOUS
    <3> QED BY <3>1, <3>2, <3>3
  <2> HIDE DEF S
  <2> QED BY <1>0, <2>1, <2>2, AllUpTo
<1>9. \A i, j \in 0 .. M : Math!And[i][j] \in Nat
  <2>1. \A i \in 0 .. M : i \in 0 .. i
    OBVIOUS
  <2>2. \A i \in 0 .. M : Math!And[i] \in X
    BY <1>8, <2>1
  <2> QED BY <2>2
<1> QED BY <1>0, <1>1, <1>7, <1>9

LEMMA AndSelf ==
    ASSUME NEW n \in 1 .. MaxNumber
    PROVE  Math!And[n][n] = n
<1>0. PICK M \in Nat : M = MaxNumber /\ n \in 1 .. M
  BY MathTypes
<1> DEFINE S == {k \in 1 .. M : Math!And[k][k] = k}
<1>1. M > 0 => 1 \in S
  <2>1. M > 0 => Math!And[1][1] = (1 % 2) * (1 % 2) + 2 * Math!And[0][0]
                 /\ Math!And[0][0] = 0
    BY <1>0, AndIs
  <2> QED BY <2>1
<1>2. ASSUME NEW k \in 2 .. M, k \div 2 \in S PROVE k \in S
  <2>1. PICK h \in 1 .. M, r \in {0, 1} : h = k \div 2 /\ r = k % 2 /\ k = 2 * h + r
    BY Halved
  <2>2. Math!And[k][k] = r * r + 2 * Math!And[h][h]
    BY <1>0, <2>1, AndIs
  <2>3. Math!And[h][h] = h
    BY <1>2, <2>1
  <2>4. r * r = r
    BY <2>1
  <2>5. k \in 1 .. M
    OBVIOUS
  <2> QED BY <2>1, <2>2, <2>3, <2>4, <2>5
<1>3. \A k \in 1 .. M : k \in S
  <2> HIDE DEF S
  <2> QED BY <1>1, <1>2, ByHalves
<1> QED BY <1>0, <1>3

\* The bit trick: without its lowest bit, a power of two is zero.
LEMMA PowerOfTwoRight ==
    ASSUME NEW n \in 1 .. MaxNumber
    PROVE  /\ Math!And[n][n - 1] = 0 <=> n = Power(2)[Math!log2[n]]
           /\ Math!And[n][n - 1] = 0 /\ n > 1 => n % 2 = 0
<1>0. PICK M \in Nat : M = MaxNumber /\ n \in 1 .. M
  BY MathTypes
<1> DEFINE S == {k \in 1 .. M :
                    /\ Math!And[k][k - 1] = 0 <=> k = Power(2)[Math!log2[k]]
                    /\ Math!And[k][k - 1] = 0 /\ k > 1 => k % 2 = 0}
<1>1. M > 0 => 1 \in S
  <2>1. M > 0 => Math!And[1][0] = 0 /\ Math!log2[1] = 0
    BY <1>0, AndIs, LogIs
  <2>2. Power(2)[0] = 1 /\ 1 - 1 = 0
    BY PowerSteps
  <2> QED BY <2>1, <2>2
<1>2. ASSUME NEW k \in 2 .. M, k \div 2 \in S PROVE k \in S
  <2>1. PICK h \in 1 .. M, r \in {0, 1} : h = k \div 2 /\ r = k % 2 /\ k = 2 * h + r
    BY Halved
  <2>2. PICK l \in Nat, p \in Nat :
            /\ l = Math!log2[h] /\ Math!log2[k] = l + 1
            /\ p = Power(2)[l] /\ Power(2)[l + 1] = 2 * p
    <3>1. PICK l \in Nat : l = Math!log2[h]
      BY <1>0, LogIs
    <3>2. Math!log2[k] = l + 1
      BY <1>0, <2>1, <3>1, LogIs
    <3>3. PICK p \in Nat : p = Power(2)[l] /\ Power(2)[l + 1] = 2 * p
      BY PowerSteps
    <3> QED BY <3>1, <3>2, <3>3
  <2>3. k \in 1 .. M /\ k > 1 /\ k \in 0 .. M /\ k # 0 /\ k - 1 \in 0 .. M /\ k - 1 # 0
    OBVIOUS
  <2>4. PICK j \in 0 .. M : j = k - 1 /\ j # 0
    BY <2>3
  <2>5. Math!And[k][j] = (k % 2) * (j % 2) + 2 * Math!And[k \div 2][j \div 2]
    BY <1>0, <2>3, <2>4, AndIs
  <2>6. CASE r = 0
    <3>1. j % 2 = 1 /\ j \div 2 = h - 1
      BY <2>1, <2>4, <2>6
    <3>2. Math!And[k][j] = 2 * Math!And[h][h - 1]
      <4>1. PICK c \in Nat : c = Math!And[h][h - 1]
        <5>1. PICK e \in 0 .. M : e = h - 1
          OBVIOUS
        <5>2. h \in 0 .. M
          OBVIOUS
        <5>3. Math!And[h][e] \in Nat
          BY <1>0, <5>1, <5>2, AndIs
        <5> QED BY <5>1, <5>3
      <4>2. Math!And[k][j] = 0 * 1 + 2 * Math!And[h][h - 1]
        BY <2>1, <2>5, <2>6, <3>1
      <4> QED BY <4>1, <4>2
    <3>3. Math!And[h][h - 1] \in Nat
      <4>1. PICK e \in 0 .. M : e = h - 1
        OBVIOUS
      <4>2. h \in 0 .. M
        OBVIOUS
      <4> QED BY <1>0, <4>1, <4>2, AndIs
    <3>4. Math!And[k][j] = 0 <=> Math!And[h][h - 1] = 0
      BY <3>2, <3>3
    <3>5. Math!And[h][h - 1] = 0 <=> h = p
      BY <1>2, <2>1, <2>2
    <3>6. h = p <=> k = 2 * p
      BY <2>1, <2>6
    <3> QED BY <2>1, <2>2, <2>3, <2>4, <2>6, <3>4, <3>5, <3>6
  <2>7. CASE r = 1
    <3>1. j % 2 = 0 /\ j \div 2 = h
      BY <2>1, <2>4, <2>7
    <3>2. Math!And[h][h] = h
      BY <1>0, AndSelf
    <3>3. Math!And[k][j] = 2 * h
      BY <2>1, <2>5, <2>7, <3>1, <3>2
    <3>4. Math!And[k][j] # 0 /\ k # 2 * p
      BY <2>1, <2>7, <3>3
    <3> QED BY <2>2, <2>3, <2>4, <3>4
  <2> QED BY <2>1, <2>6, <2>7
<1>3. \A k \in 1 .. M : k \in S
  <2> HIDE DEF S
  <2> QED BY <1>1, <1>2, ByHalves
<1> QED BY <1>0, <1>3

\* A greater number has no smaller logarithm.
LEMMA LogMonotonic ==
    ASSUME NEW n \in 1 .. MaxNumber, NEW m \in n .. MaxNumber
    PROVE  Math!log2[n] <= Math!log2[m]
<1>0. PICK M \in Nat : M = MaxNumber
  BY MathTypes
<1> DEFINE S == {k \in 1 .. M : \A i \in 1 .. k : Math!log2[i] <= Math!log2[k]}
<1>1. M > 0 => 1 \in S
  <2>1. \A i \in 1 .. 1 : i = 1
    OBVIOUS
  <2>2. M > 0 => Math!log2[1] \in Nat
    BY <1>0, LogIs
  <2> QED BY <2>1, <2>2
<1>2. ASSUME NEW k \in 2 .. M, k \div 2 \in S PROVE k \in S
  <2>1. ASSUME NEW i \in 1 .. k
        PROVE  Math!log2[i] <= Math!log2[k]
    <3>1. CASE i = 1
      BY <1>0, <3>1, LogIs
    <3>2. CASE i # 1
      <4>1. PICK a \in Nat, b \in Nat :
                /\ a = i \div 2 /\ b = k \div 2 /\ a \in 1 .. b /\ b \in 1 .. M
        BY <3>2
      <4>2. Math!log2[a] <= Math!log2[b]
        BY <1>2, <4>1
      <4>3. /\ Math!log2[i] = Math!log2[a] + 1 /\ Math!log2[k] = Math!log2[b] + 1
            /\ Math!log2[a] \in Nat /\ Math!log2[b] \in Nat
        <5>1. /\ a \in 0 .. MaxNumber /\ b \in 0 .. MaxNumber
              /\ i \in 0 .. MaxNumber /\ i > 1 /\ k \in 0 .. MaxNumber /\ k > 1
          BY <1>0, <3>2, <4>1
        <5> QED BY <4>1, <5>1, LogIs
      <4> QED BY <4>2, <4>3
    <3> QED BY <3>1, <3>2
  <2>2. k \in 1 .. M
    OBVIOUS
  <2> QED BY <2>1, <2>2
<1>3. \A k \in 1 .. M : k \in S
  <2> HIDE DEF S
  <2> QED BY <1>1, <1>2, ByHalves
<1>4. m \in 1 .. M /\ n \in 1 .. m
  BY <1>0
<1> QED BY <1>3, <1>4

LEMMA LogarithmAlwaysRight == ASSUME Asked PROVE Math!LogarithmRight
<1> SUFFICES ASSUME About("number") PROVE Math!LogarithmRight
  BY DEF Math!LogarithmRight, Math!About, About
<1>1. PICK n \in 0 .. MaxNumber : n = question.n
  BY NumberAsked
<1>2. CASE n = 0
  BY <1>1, <1>2, MathPower DEF Math!LogarithmRight, Math!is_power_of_2
<1>3. CASE n # 0
  <2>1. n \in 1 .. MaxNumber
    BY <1>3, MathTypes
  <2>2. Math!is_power_of_2(n) <=> Math!And[n][n - 1] = 0
    BY <2>1 DEF Math!is_power_of_2
  <2>3. n > 0
    BY <2>1
  <2> QED
    BY <1>1, <2>1, <2>2, <2>3, LogRight, PowerOfTwoRight, MathPower
    DEF Math!LogarithmRight, Math!is_even
<1> QED BY <1>2, <1>3

\* The remainders of enough numbers are all remainders.
LEMMA AllRemainders ==
    ASSUME NEW d \in Nat, d > 0, NEW m \in Nat, m >= d - 1
    PROVE  {(t % d) + 1 : t \in 0 .. m} = 1 .. d
<1>1. \A t \in 0 .. m : (t % d) + 1 \in 1 .. d
  <2> TAKE t \in 0 .. m
  <2>1. t % d \in 0 .. d - 1
    BY Division
  <2> QED BY <2>1
<1>2. ASSUME NEW k \in 1 .. d
      PROVE  \E t \in 0 .. m : k = (t % d) + 1
  <2>1. PICK t \in 0 .. m : t = k - 1 /\ t \in 0 .. d - 1
    OBVIOUS
  <2>2. t = d * 0 + t
    BY <2>1
  <2>3. t % d = t
    BY <2>1, <2>2, DivisionIs
  <2> QED BY <2>1, <2>3
<1> QED BY <1>1, <1>2

LEMMA SuggestionAlwaysUsable == ASSUME Asked PROVE Math!SuggestionUsable
<1> SUFFICES ASSUME About("number"), question.n >= 4 PROVE Math!SuggestionUsable
  BY DEF Math!SuggestionUsable, Math!About, About
<1>1. PICK n \in 4 .. MaxNumber : n = question.n
  <2>1. question.n \in 4 .. MaxNumber
    BY NumberAsked, MathTypes
  <2> QED BY <2>1
<1>2. PICK l \in Nat : l = Math!log2[n] /\ l >= 2 /\ l < n /\ l <= MaxTails
  <2>1. n \in 1 .. MaxNumber /\ n \in 4 .. MaxNumber /\ MaxNumber \in n .. MaxNumber
        /\ 4 \in 1 .. MaxNumber
    BY MathTypes
  <2>2. Math!log2[4] = 2
    <3>1. Math!log2[4] = Math!log2[2] + 1 /\ Math!log2[2] = Math!log2[1] + 1
          /\ Math!log2[1] = 0
      <4>1. 4 \div 2 = 2 /\ 2 \div 2 = 1 /\ 4 \in 0 .. MaxNumber
            /\ 2 \in 0 .. MaxNumber /\ 1 \in 0 .. MaxNumber
        BY <2>1, MathTypes
      <4> QED BY <4>1, LogIs
    <3> QED BY <3>1
  <2>3. Math!log2[4] <= Math!log2[n] /\ Math!log2[n] <= Math!log2[MaxNumber]
    BY <2>1, LogMonotonic
  <2>4. Math!log2[n] \in Nat /\ Math!log2[MaxNumber] \in Nat
    BY <2>1, MathTypes, LogIs
  <2>5. Math!log2[n] < n
    BY <2>1, LogRight
  <2> QED BY <2>2, <2>3, <2>4, <2>5, MathTypes
<1>3. Math!Divisor(l) = l - 1
  <2>1. l - 1 \in 0 .. SizeModulus - 1 /\ l - 1 = SizeModulus * 0 + (l - 1)
    BY <1>2, MathTypes
  <2>2. (l - 1) % SizeModulus = l - 1
    <3>1. PICK k \in 0 .. SizeModulus - 1 : k = l - 1 /\ k = SizeModulus * 0 + k
      BY <2>1
    <3> QED BY <3>1, MathTypes, DivisionIs
  <2> QED BY <2>2 DEF Math!Divisor
<1>4. PICK d \in Nat : d = l - 1 /\ d > 0 /\ MaxTails >= d - 1
  BY <1>2, MathTypes
<1>5. {Math!random_level(t, l) : t \in 0 .. MaxTails} = 1 .. l - 1
  <2>1. \A t : Math!random_level(t, l) = (t % d) + 1
    BY <1>3, <1>4 DEF Math!random_level
  <2>2. {(t % d) + 1 : t \in 0 .. MaxTails} = 1 .. d
    BY <1>4, MathTypes, AllRemainders
  <2> QED BY <1>4, <2>1, <2>2
<1> QED
  BY <1>1, <1>2, <1>3, <1>4, <1>5
  DEF Math!SuggestionUsable, Math!skip_list_suggested_max_level

\* math_ext, skip_list, bit_mask: log2 and the bit trick are right for every
\* number, the level suggested for any list of four or more elements gives every
\* level below it and no other, and masks are sets of flags.
THEOREM BitsAlwaysRight == Spec => []BitsRight
<1>1. Asked => Math!LevelsRight
  BY LogarithmAlwaysRight, SuggestionAlwaysUsable DEF Math!LevelsRight
<1>2. Math!LevelsRight /\ Mask!MasksRight => BitsRight
  BY DEF BitsRight
<1> QED BY <1>1, <1>2, AlwaysAsked, MasksAlwaysRight, PTL
=============================================================================
