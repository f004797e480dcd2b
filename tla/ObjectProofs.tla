---------------------------- MODULE ObjectProofs ----------------------------
(* Proofs about the small classes, for every number of objects, handles,    *)
(* resources, exceptions, threads, lists and values.  The theorems are      *)
(* about the specification the run checks, in which a behaviour is of one   *)
(* class: each class has its invariant, and of the other classes' steps one *)
(* only has to know that they leave its variables alone.                    *)
EXTENDS MCObjects, CommonLemmas, Sequences, TLAPS

-----------------------------------------------------------------------------
(* ref_count                                                                *)

LEMMA CountsCardinality ==
    \A S : Counts!Cardinality(S) = Cardinality(S)
BY DEF Counts!Cardinality, Cardinality

\* The guard that an assignment takes from exists until it is done, and the
\* one assigned to has nothing that would be lost.
AssignmentsSafe ==
    \A g \in Guard : source[g] # None => source[g] \in guards /\ m_cnt[g] = None

CountsInv == /\ Counts!SharesCounted
             /\ IsFiniteSet(guards)
             /\ AssignmentsSafe

LEMMA SharersFinite ==
    ASSUME IsFiniteSet(guards), NEW r
    PROVE  /\ IsFiniteSet(Counts!Sharers(r))
           /\ Cardinality(Counts!Sharers(r)) \in Nat
<1>1. Counts!Sharers(r) \subseteq guards
  BY DEF Counts!Sharers
<1> QED BY <1>1, FS_Subset, FS_CardinalityType

LEMMA NoSharers ==
    ASSUME NEW r, Cardinality(Counts!Sharers(r)) = 0, IsFiniteSet(guards)
    PROVE  Counts!Sharers(r) = {}
BY SharersFinite, FS_EmptySet

\* Giving a share back: the guard is out of the sharers, and who finds the
\* count at one leaves nobody behind.
LEMMA GiveBackKeepsCounts ==
    ASSUME CountsInv, NEW g \in guards, Counts!GiveBack(g), UNCHANGED owed,
           guards' \in {guards, guards \ {g}}
    PROVE  /\ m_count' \in [Count -> Int] /\ retired' \subseteq Count
           /\ Counts!CountIsShares' /\ Counts!RetiredUnshared'
           /\ IsFiniteSet(guards')
<1> USE DEF CountsInv, Counts!SharesCounted
<1>0. None \notin Count /\ g \in Guard
  BY ClassAssumptions DEF ClassAssumptions, Counts!RefCountAssumption, Counts!TypeOK
<1>1. ASSUME NEW r \in Count
      PROVE  Counts!Sharers(r)' = Counts!Sharers(r) \ {g}
  BY <1>0 DEF Counts!Sharers, Counts!GiveBack, Counts!TypeOK
<1>2. IsFiniteSet(guards')
  BY FS_RemoveElement
<1>3. CASE m_cnt[g] = None
  <2>1. ASSUME NEW r \in Count
        PROVE  Counts!Sharers(r)' = Counts!Sharers(r)
    BY <1>0, <1>1, <1>3 DEF Counts!Sharers
  <2>2. UNCHANGED <<m_count, retired>>
    BY <1>3 DEF Counts!GiveBack
  <2>3. Counts!CountIsShares'
    BY <2>1, <2>2, CountsCardinality DEF Counts!CountIsShares
  <2>4. Counts!RetiredUnshared'
    BY <2>1, <2>2 DEF Counts!RetiredUnshared, Counts!Shared, Counts!TypeOK
  <2> QED BY <1>2, <2>2, <2>3, <2>4 DEF Counts!TypeOK
<1>4. CASE m_cnt[g] # None
  <2>0. PICK r \in Count : m_cnt[g] = r
    BY <1>0, <1>4 DEF Counts!TypeOK
  <2>1. g \in Counts!Sharers(r)
    BY <2>0 DEF Counts!Sharers
  <2>2. /\ m_count' = [m_count EXCEPT ![r] = @ - 1]
        /\ retired' = IF m_count[r] = 1 THEN retired \cup {r} ELSE retired
    BY <1>4, <2>0 DEF Counts!GiveBack, Counts!FetchSub
  <2>3. ASSUME NEW s \in Count, s # r
        PROVE  Counts!Sharers(s)' = Counts!Sharers(s)
    BY <1>1, <2>0, <2>3 DEF Counts!Sharers
  <2>4. /\ Cardinality(Counts!Sharers(r)) \in Nat
        /\ Cardinality(Counts!Sharers(r)') = Cardinality(Counts!Sharers(r)) - 1
    BY <1>1, <2>1, OneLess, SharersFinite
  <2>5. Cardinality(Counts!Sharers(r)') \in Nat /\ IsFiniteSet(Counts!Sharers(r)')
    BY <1>1, <2>1, SharersFinite, FS_RemoveElement, FS_CardinalityType
  <2>6. Counts!CountIsShares'
    <3> SUFFICES ASSUME NEW s \in Count
                 PROVE  m_count'[s] = owed'[s] + Cardinality(Counts!Sharers(s)')
      BY CountsCardinality DEF Counts!CountIsShares
    <3>1. /\ m_count[s] = owed[s] + Cardinality(Counts!Sharers(s))
          /\ m_count[s] \in Int /\ owed[s] \in Nat
      BY CountsCardinality DEF Counts!CountIsShares, Counts!TypeOK
    <3>2. m_count'[s] = IF s = r THEN m_count[r] - 1 ELSE m_count[s]
      BY <2>2 DEF Counts!TypeOK
    <3>3. UNCHANGED owed
      OBVIOUS
    <3>4. CASE s = r
      BY <2>4, <3>1, <3>2, <3>3, <3>4
    <3>5. CASE s # r
      BY <2>3, <3>1, <3>2, <3>3, <3>5
    <3> QED BY <3>4, <3>5
  <2>7. Counts!RetiredUnshared'
    <3> SUFFICES ASSUME NEW s \in retired'
                 PROVE  ~(owed'[s] > 0) /\ Counts!Sharers(s)' = {}
      BY DEF Counts!RetiredUnshared, Counts!Shared
    <3>1. CASE s \in retired
      BY <1>1, <3>1 DEF Counts!RetiredUnshared, Counts!Shared, Counts!TypeOK
    <3>2. CASE s \notin retired
      <4>1. s = r /\ m_count[r] = 1
        BY <2>2, <3>2
      <4>2. 1 = owed[r] + Cardinality(Counts!Sharers(r)) /\ owed[r] \in Nat
        BY <2>1, <4>1, CountsCardinality DEF Counts!CountIsShares, Counts!TypeOK
      <4>4. owed[r] = 0 /\ Cardinality(Counts!Sharers(r)') = 0
        BY <2>4, <2>5, <4>2
      <4> QED BY <2>5, <4>1, <4>4, FS_EmptySet
    <3> QED BY <3>1, <3>2
  <2> QED BY <1>2, <2>2, <2>6, <2>7 DEF Counts!TypeOK
<1> QED BY <1>3, <1>4

\* Taking a share over: one sharer stands in for the other.
LEMMA TakeKeepsCounts ==
    ASSUME CountsInv, NEW g \in Guard, NEW from \in guards, m_cnt[g] = None,
           m_cnt' = Counts!Taken(g, from), guards' = guards \cup {g},
           UNCHANGED <<m_count, owed, retired>>
    PROVE  /\ Counts!CountIsShares' /\ Counts!RetiredUnshared'
           /\ IsFiniteSet(guards')
<1> USE DEF CountsInv, Counts!SharesCounted
<1>0. None \notin Count /\ from \in Guard
  BY ClassAssumptions DEF ClassAssumptions, Counts!RefCountAssumption, Counts!TypeOK
<1>1. ASSUME NEW r \in Count, m_cnt[from] # r
      PROVE  Counts!Sharers(r)' = Counts!Sharers(r)
  BY <1>0, <1>1 DEF Counts!Sharers, Counts!Taken, Counts!TypeOK
<1>2. ASSUME NEW r \in Count, m_cnt[from] = r
      PROVE  /\ Counts!Sharers(r)' = (Counts!Sharers(r) \ {from}) \cup {g}
             /\ from \in Counts!Sharers(r) /\ g \notin Counts!Sharers(r)
  BY <1>0, <1>2 DEF Counts!Sharers, Counts!Taken, Counts!TypeOK
<1>3. ASSUME NEW r \in Count
      PROVE  Cardinality(Counts!Sharers(r)') = Cardinality(Counts!Sharers(r))
  BY <1>1, <1>2, SharersFinite, OneExchanged
<1>4. Counts!CountIsShares'
  BY <1>3, CountsCardinality DEF Counts!CountIsShares
<1>5. Counts!RetiredUnshared'
  BY <1>1, <1>2 DEF Counts!RetiredUnshared, Counts!Shared, Counts!TypeOK
<1>6. IsFiniteSet(guards')
  BY FS_AddElement
<1> QED BY <1>4, <1>5, <1>6

\* A new share of a count that somebody has: by the client, or by a guard.
LEMMA ShareKeepsCounts ==
    ASSUME CountsInv, NEW r \in Count, Counts!Shared(r), UNCHANGED retired,
           m_count' = [m_count EXCEPT ![r] = @ + 1],
           \/ /\ owed' = [owed EXCEPT ![r] = @ + 1]
              /\ UNCHANGED <<guards, m_cnt>>
           \/ \E g \in Guard \ guards : /\ guards' = guards \cup {g}
                                        /\ m_cnt' = [m_cnt EXCEPT ![g] = r]
                                        /\ UNCHANGED owed
    PROVE  /\ Counts!CountIsShares' /\ Counts!RetiredUnshared'
           /\ IsFiniteSet(guards')
<1> USE DEF CountsInv, Counts!SharesCounted
<1>0. /\ m_count \in [Count -> Int] /\ owed \in [Count -> Nat]
      /\ m_cnt \in [Guard -> Count \cup {None}] /\ retired \subseteq Count
      /\ \A g \in Guard \ guards : m_cnt[g] = None
      /\ guards \subseteq Guard
      /\ None \notin Count
  BY ClassAssumptions DEF ClassAssumptions, Counts!RefCountAssumption, Counts!TypeOK
<1>1. /\ \A s \in Count : m_count[s] = owed[s] + Cardinality(Counts!Sharers(s))
      /\ \A s \in Count : Cardinality(Counts!Sharers(s)) \in Nat
  BY CountsCardinality, SharersFinite DEF Counts!CountIsShares
<1>2. r \notin retired
  BY DEF Counts!RetiredUnshared
<1>3. CASE owed' = [owed EXCEPT ![r] = @ + 1] /\ UNCHANGED <<guards, m_cnt>>
  <2>1. \A s \in Count : Counts!Sharers(s)' = Counts!Sharers(s)
    BY <1>3 DEF Counts!Sharers
  <2>2. ASSUME NEW s \in Count
        PROVE  m_count'[s] = owed'[s] + Cardinality(Counts!Sharers(s)')
    BY <1>0, <1>1, <1>3, <2>1
  <2>3. Counts!CountIsShares'
    BY <2>2, CountsCardinality DEF Counts!CountIsShares
  <2>4. Counts!RetiredUnshared'
    BY <1>0, <1>2, <1>3, <2>1 DEF Counts!RetiredUnshared, Counts!Shared
  <2> QED BY <1>3, <2>3, <2>4
<1>4. ASSUME NEW g \in Guard \ guards, guards' = guards \cup {g},
             m_cnt' = [m_cnt EXCEPT ![g] = r], UNCHANGED owed
      PROVE  /\ Counts!CountIsShares' /\ Counts!RetiredUnshared'
             /\ IsFiniteSet(guards')
  <2>1. Counts!Sharers(r)' = Counts!Sharers(r) \cup {g}
        /\ g \notin Counts!Sharers(r)
    BY <1>0, <1>4 DEF Counts!Sharers
  <2>2. \A s \in Count : s # r => Counts!Sharers(s)' = Counts!Sharers(s)
    BY <1>0, <1>4 DEF Counts!Sharers
  <2>3. Cardinality(Counts!Sharers(r)') = Cardinality(Counts!Sharers(r)) + 1
    BY <2>1, OneMore, SharersFinite
  <2>4. ASSUME NEW s \in Count
        PROVE  m_count'[s] = owed'[s] + Cardinality(Counts!Sharers(s)')
    <3>1. CASE s = r
      BY <1>0, <1>1, <1>4, <2>3, <3>1
    <3>2. CASE s # r
      BY <1>0, <1>1, <1>4, <2>2, <3>2
    <3> QED BY <3>1, <3>2
  <2>5. Counts!CountIsShares'
    BY <2>4, CountsCardinality DEF Counts!CountIsShares
  <2>6. Counts!RetiredUnshared'
    BY <1>0, <1>2, <1>4, <2>2 DEF Counts!RetiredUnshared, Counts!Shared
  <2>7. IsFiniteSet(guards')
    BY <1>4, FS_AddElement
  <2> QED BY <2>5, <2>6, <2>7
<1> QED BY <1>3, <1>4

LEMMA CountsStep ==
    ASSUME CountsInv, Counts!Next
    PROVE  CountsInv'
<1> USE DEF CountsInv, Counts!SharesCounted
<1>0. /\ None \notin Count /\ guards \subseteq Guard /\ retired \subseteq Count
      /\ m_count \in [Count -> Int] /\ owed \in [Count -> Nat]
      /\ m_cnt \in [Guard -> Count \cup {None}]
      /\ source \in [Guard -> Guard \cup {None}]
      /\ \A g \in Guard \ guards : m_cnt[g] = None /\ source[g] = None
  BY ClassAssumptions DEF ClassAssumptions, Counts!RefCountAssumption, Counts!TypeOK
<1>1. ASSUME NEW r \in Count, Counts!Add(r)
      PROVE  CountsInv'
  <2>1. /\ Counts!CountIsShares' /\ Counts!RetiredUnshared'
        /\ IsFiniteSet(guards')
    BY <1>1, ShareKeepsCounts DEF Counts!Add
  <2>2. Counts!TypeOK' /\ AssignmentsSafe'
    BY <1>0, <1>1 DEF Counts!Add, Counts!TypeOK, AssignmentsSafe
  <2> QED BY <2>1, <2>2
<1>2. ASSUME NEW r \in Count, Counts!Sub(r)
      PROVE  CountsInv'
  <2>1. ASSUME NEW s \in Count
        PROVE  Counts!Sharers(s)' = Counts!Sharers(s)
    BY <1>2 DEF Counts!Sub, Counts!Sharers
  <2>2. ASSUME NEW s \in Count
        PROVE  /\ m_count[s] = owed[s] + Cardinality(Counts!Sharers(s))
               /\ Cardinality(Counts!Sharers(s)) \in Nat
    BY CountsCardinality, SharersFinite DEF Counts!CountIsShares
  <2>3. Counts!CountIsShares'
    <3> SUFFICES ASSUME NEW s \in Count
                 PROVE  m_count'[s] = owed'[s] + Cardinality(Counts!Sharers(s)')
      BY CountsCardinality DEF Counts!CountIsShares
    <3> QED BY <1>0, <1>2, <2>1, <2>2 DEF Counts!Sub, Counts!FetchSub
  <2>4. Counts!RetiredUnshared'
    <3> SUFFICES ASSUME NEW s \in retired'
                 PROVE  ~(owed'[s] > 0) /\ Counts!Sharers(s) = {}
      BY <1>0, <1>2, <2>1
      DEF Counts!RetiredUnshared, Counts!Shared, Counts!Sub, Counts!FetchSub
    <3>1. CASE s \in retired
      BY <1>0, <1>2, <3>1
      DEF Counts!RetiredUnshared, Counts!Shared, Counts!Sub
    <3>2. CASE s \notin retired
      <4>1. s = r /\ m_count[r] = 1 /\ owed[r] > 0 /\ owed'[r] = owed[r] - 1
        BY <1>0, <1>2, <3>2 DEF Counts!Sub, Counts!FetchSub
      <4>2. owed'[r] = 0 /\ Cardinality(Counts!Sharers(r)) = 0
        <5>1. /\ 1 = owed[r] + Cardinality(Counts!Sharers(r))
              /\ Cardinality(Counts!Sharers(r)) \in Nat /\ owed[r] \in Nat
          BY <1>0, <2>2, <4>1
        <5> QED BY <4>1, <5>1
      <4> QED BY <4>1, <4>2, NoSharers
    <3> QED BY <3>1, <3>2
  <2>5. Counts!TypeOK' /\ AssignmentsSafe' /\ IsFiniteSet(guards')
    BY <1>0, <1>2
    DEF Counts!Sub, Counts!FetchSub, Counts!TypeOK, AssignmentsSafe
  <2> QED BY <2>3, <2>4, <2>5
<1>3. ASSUME NEW r \in Count, Counts!Poll(r)
      PROVE  CountsInv'
  <2>1. ASSUME NEW s \in Count
        PROVE  Counts!Sharers(s)' = Counts!Sharers(s)
    BY <1>3 DEF Counts!Poll, Counts!Sharers
  <2>2. owed[r] = 0 /\ Counts!Sharers(r) = {}
    <3>1. /\ 0 = owed[r] + Cardinality(Counts!Sharers(r))
          /\ Cardinality(Counts!Sharers(r)) \in Nat
      BY <1>3, CountsCardinality, SharersFinite DEF Counts!CountIsShares, Counts!Poll
    <3>2. owed[r] = 0 /\ Cardinality(Counts!Sharers(r)) = 0
      BY <1>0, <3>1
    <3> QED BY <3>2, NoSharers
  <2>3. Counts!RetiredUnshared'
    BY <1>0, <1>3, <2>1, <2>2
    DEF Counts!RetiredUnshared, Counts!Shared, Counts!Poll
  <2>4. Counts!CountIsShares'
    BY <1>3, <2>1, CountsCardinality DEF Counts!CountIsShares, Counts!Poll
  <2>5. Counts!TypeOK' /\ AssignmentsSafe' /\ IsFiniteSet(guards')
    BY <1>0, <1>3 DEF Counts!Poll, Counts!TypeOK, AssignmentsSafe
  <2> QED BY <2>3, <2>4, <2>5
<1>4. ASSUME NEW g \in Guard, NEW r \in Count, Counts!Construct(g, r)
      PROVE  CountsInv'
  <2>1. /\ Counts!CountIsShares' /\ Counts!RetiredUnshared'
        /\ IsFiniteSet(guards')
    BY <1>4, ShareKeepsCounts DEF Counts!Construct
  <2>2. Counts!TypeOK' /\ AssignmentsSafe'
    BY <1>0, <1>4 DEF Counts!Construct, Counts!TypeOK, AssignmentsSafe
  <2> QED BY <2>1, <2>2
<1>5. ASSUME NEW g \in Guard, NEW from \in Guard, Counts!MoveConstruct(g, from)
      PROVE  CountsInv'
  <2>1. /\ Counts!CountIsShares' /\ Counts!RetiredUnshared'
        /\ IsFiniteSet(guards')
    BY <1>0, <1>5, TakeKeepsCounts DEF Counts!MoveConstruct
  <2>2. Counts!TypeOK' /\ AssignmentsSafe'
    BY <1>0, <1>5
    DEF Counts!MoveConstruct, Counts!Taken, Counts!Busy, Counts!Assigning,
        Counts!TypeOK, AssignmentsSafe
  <2> QED BY <2>1, <2>2
<1>6. ASSUME NEW g \in Guard, NEW from \in Guard, Counts!AssignReleases(g, from)
      PROVE  CountsInv'
  <2>1. /\ m_count' \in [Count -> Int] /\ retired' \subseteq Count
        /\ Counts!CountIsShares' /\ Counts!RetiredUnshared'
        /\ IsFiniteSet(guards')
    BY <1>6, GiveBackKeepsCounts DEF Counts!AssignReleases
  <2>2. Counts!TypeOK' /\ AssignmentsSafe'
    BY <1>0, <1>6, <2>1
    DEF Counts!AssignReleases, Counts!GiveBack, Counts!TypeOK, AssignmentsSafe
  <2> QED BY <2>1, <2>2
<1>7. ASSUME NEW g \in Guard, Counts!AssignTakes(g)
      PROVE  CountsInv'
  <2>1. /\ source[g] \in guards /\ m_cnt[g] = None /\ g \in guards
    BY <1>0, <1>7 DEF Counts!AssignTakes, Counts!Assigning, AssignmentsSafe
  <2>2. /\ Counts!CountIsShares' /\ Counts!RetiredUnshared'
        /\ IsFiniteSet(guards')
    <3>1. guards' = guards \cup {g}
      BY <1>7, <2>1 DEF Counts!AssignTakes
    <3> QED BY <1>7, <2>1, <3>1, TakeKeepsCounts DEF Counts!AssignTakes
  <2>3. Counts!TypeOK' /\ AssignmentsSafe'
    BY <1>0, <1>7, <2>1
    DEF Counts!AssignTakes, Counts!Taken, Counts!TypeOK, AssignmentsSafe
  <2> QED BY <2>2, <2>3
<1>8. ASSUME NEW g \in Guard, Counts!Release(g) \/ Counts!Destroy(g)
      PROVE  CountsInv'
  <2>1. /\ m_count' \in [Count -> Int] /\ retired' \subseteq Count
        /\ Counts!CountIsShares' /\ Counts!RetiredUnshared'
        /\ IsFiniteSet(guards')
    BY <1>0, <1>8, GiveBackKeepsCounts DEF Counts!Release, Counts!Destroy
  <2>2. Counts!TypeOK' /\ AssignmentsSafe'
    BY <1>0, <1>8, <2>1
    DEF Counts!Release, Counts!Destroy, Counts!GiveBack, Counts!Busy,
        Counts!Assigning, Counts!TypeOK, AssignmentsSafe
  <2> QED BY <2>1, <2>2
<1> QED
  BY <1>1, <1>2, <1>3, <1>4, <1>5, <1>6, <1>7, <1>8 DEF Counts!Next

LEMMA CountsUnchanged ==
    ASSUME CountsInv, UNCHANGED ref_count
    PROVE  CountsInv'
<1>1. \A r : Counts!Sharers(r)' = Counts!Sharers(r)
  BY DEF ref_count, Counts!Sharers
<1> QED
  BY <1>1, CountsCardinality
  DEF ref_count, CountsInv, Counts!SharesCounted, Counts!TypeOK,
      Counts!CountIsShares, Counts!RetiredUnshared, Counts!Shared, AssignmentsSafe

LEMMA CountsInit ==
    ASSUME Counts!Init
    PROVE  CountsInv
<1>1. ASSUME NEW r \in Count
      PROVE  Counts!Sharers(r) = {} /\ Cardinality(Counts!Sharers(r)) = 0
  BY FS_EmptySet DEF Counts!Init, Counts!Sharers
<1>2. owed \in [Count -> Nat]
  BY ClassAssumptions DEF ClassAssumptions, Counts!RefCountAssumption, Counts!Init
<1>3. Counts!CountIsShares
  BY <1>1, <1>2, CountsCardinality DEF Counts!CountIsShares, Counts!Init
<1> QED
  BY <1>2, <1>3, FS_EmptySet
  DEF CountsInv, Counts!SharesCounted, Counts!TypeOK, Counts!Init,
      Counts!RetiredUnshared, AssignmentsSafe

\* ref_count: however the guards of any number of counts are moved, assigned
\* and destroyed, the count is the number of shares, and a thing is retired
\* only when nobody shares it or ever will.
THEOREM SharesAlwaysCounted == Spec => []SharesCounted
<1>1. Init => CountsInv
  BY CountsInit DEF Init
<1>2. CountsInv /\ [Next]_vars => CountsInv'
  BY CountsStep, CountsUnchanged DEF Next, vars
<1>3. CountsInv => SharesCounted
  BY DEF CountsInv, SharesCounted
<1> QED BY <1>1, <1>2, <1>3, PTL DEF Spec
-----------------------------------------------------------------------------
(* unique_posix_fd                                                          *)

FdInv == Fd!DescriptorsOwned

\* The kernel gives a number that is not open.
LEMMA LowestFree ==
    ASSUME open \subseteq Fd!Fds, open # Fd!Fds
    PROVE  Fd!Min(Fd!Fds \ open) \in Fd!Fds \ open
<1> DEFINE T == Fd!Fds \ open
<1>1. MaxFd \in Nat
  BY ClassAssumptions DEF ClassAssumptions, Fd!FdAssumption
<1>2. IsFiniteSet(Fd!Fds) /\ Fd!Fds \subseteq Int
  BY <1>1, FS_Interval DEF Fd!Fds
<1>3. IsFiniteSet(T) /\ T \subseteq Int /\ T # {}
  BY <1>2, FS_Subset
<1>4. \E n \in T : \A k \in T : k >= n
  BY <1>3, HasLeast
<1>5. \E n \in T : \A k \in T : n <= k
  BY <1>3, <1>4
<1> QED BY <1>5 DEF Fd!Min

\* Descriptors that handles own, and what that says of the kernel's.
FdOwned == \A n \in Fd!Fds : n \in open <=>
               n \in {0, 1, 2} \/ \E h \in Handle : m_fd[h] = n
FdAlone == \A g, h \in Handle :
               m_fd[g] \in Fd!Fds \ {0, 1, 2} =>
                   /\ got[g] = serial[m_fd[g]]
                   /\ m_fd[g] = m_fd[h] => g = h
FdTypes == /\ m_fd \in [Handle -> Fd!Fds \cup {-1, -2}]
           /\ {0, 1, 2} \subseteq open /\ open \subseteq Fd!Fds
           /\ serial \in [Fd!Fds -> {0, 1}] /\ got \in [Handle -> {0, 1}]

LEMMA FdNumbers == /\ MaxFd \in Nat /\ {0, 1, 2} \subseteq Fd!Fds
                   /\ Fd!StdFds = {0, 1, 2} /\ Fd!Fds \subseteq Nat
                   /\ -1 \notin Fd!Fds /\ -2 \notin Fd!Fds
BY ClassAssumptions DEF ClassAssumptions, Fd!FdAssumption, Fd!Fds, Fd!StdFds

LEMMA FdInvIs == FdInv <=> FdTypes /\ FdOwned /\ FdAlone
<1> USE DEF Fd!Invalid, Fd!Gone
<1>1. Fd!TypeOK <=> FdTypes
  BY FdNumbers DEF Fd!TypeOK, FdTypes
<1>2. ASSUME FdTypes PROVE Fd!OpenIffOwned <=> FdOwned
  <2>1. \A n : n \in Fd!Owned <=> /\ n \in Fd!Fds \ {0, 1, 2}
                                  /\ \E h \in Handle : m_fd[h] = n
    BY <1>2, FdNumbers DEF Fd!Owned, Fd!Live, FdTypes
  <2>2. Fd!Owned \subseteq Fd!Fds /\ open \subseteq Fd!Fds
    BY <1>2, <2>1 DEF FdTypes
  <2>3. Fd!OpenIffOwned <=> \A n \in Fd!Fds :
                               n \in open <=> n \in {0, 1, 2} \cup Fd!Owned
    BY <2>2, FdNumbers DEF Fd!OpenIffOwned
  <2>4. \A n \in Fd!Fds : n \in {0, 1, 2} \cup Fd!Owned <=>
               n \in {0, 1, 2} \/ \E h \in Handle : m_fd[h] = n
    BY <2>1
  <2> QED BY <2>3, <2>4 DEF FdOwned
<1>3. ASSUME FdTypes PROVE Fd!HoldsItsOwn <=> FdAlone
  BY <1>3, FdNumbers DEF Fd!HoldsItsOwn, FdAlone, FdTypes, Fd!Live
<1> QED BY <1>1, <1>2, <1>3 DEF FdInv, Fd!DescriptorsOwned

LEMMA FdStep ==
    ASSUME FdInv, Fd!Next
    PROVE  FdInv'
<1> SUFFICES FdTypes' /\ FdOwned' /\ FdAlone'
  <2>1. FdTypes' /\ FdOwned' /\ FdAlone' => FdInv'
    BY FdInvIs, PTL
  <2> QED BY <2>1
<1>0. FdTypes /\ FdOwned /\ FdAlone
  BY FdInvIs
<1> USE FdNumbers DEF Fd!Invalid, Fd!Gone, FdTypes, FdOwned, FdAlone
<1>1. ASSUME NEW h \in Handle, Fd!MakeEmpty(h)
      PROVE  FdTypes' /\ FdOwned' /\ FdAlone'
  BY <1>0, <1>1 DEF Fd!MakeEmpty
<1>2. ASSUME NEW h \in Handle, Fd!MakeOpen(h)
      PROVE  FdTypes' /\ FdOwned' /\ FdAlone'
  <2>1. PICK n \in Fd!Fds \ open :
           /\ m_fd[h] = -2
           /\ m_fd' = [m_fd EXCEPT ![h] = n]
           /\ open' = open \cup {n}
           /\ serial' = [serial EXCEPT ![n] = 1 - @]
           /\ got' = [got EXCEPT ![h] = serial'[n]]
    BY <1>0, <1>2, LowestFree DEF Fd!MakeOpen
  <2>2. n \notin {0, 1, 2} /\ n \in Fd!Fds /\ \A g \in Handle : m_fd[g] # n
    BY <1>0, <2>1
  <2>3. 1 - serial[n] \in {0, 1}
    BY <1>0, <2>2
  <2>4. FdTypes'
    BY <1>0, <2>1, <2>2, <2>3
  <2>5. FdOwned'
    BY <1>0, <2>1, <2>2
  <2>6. FdAlone'
    BY <1>0, <2>1, <2>2
  <2> QED BY <2>4, <2>5, <2>6
<1>3. ASSUME NEW h \in Handle, Fd!MakeStd(h)
      PROVE  FdTypes' /\ FdOwned' /\ FdAlone'
  BY <1>0, <1>3 DEF Fd!MakeStd
<1>4. ASSUME NEW h \in Handle, NEW from \in Handle, Fd!MoveConstruct(h, from)
      PROVE  FdTypes' /\ FdOwned' /\ FdAlone'
  BY <1>0, <1>4 DEF Fd!MoveConstruct, Fd!Released, Fd!Live
\* What closing leaves open.
<1>5. ASSUME NEW h \in Handle, open' = open \ Fd!Closed(h)
      PROVE  /\ {0, 1, 2} \subseteq open' /\ open' \subseteq Fd!Fds
             /\ \A n \in Fd!Fds : n \in open' <=>
                   n \in {0, 1, 2} \/ \E g \in Handle \ {h} : m_fd[g] = n
  <2>1. CASE m_fd[h] \in Fd!Fds \ {0, 1, 2}
    <3>1. open' = open \ {m_fd[h]}
      BY <1>5, <2>1 DEF Fd!Closed, Fd!valid
    <3>2. \A g \in Handle : m_fd[g] = m_fd[h] => g = h
      BY <1>0, <2>1
    <3> QED BY <1>0, <2>1, <3>1, <3>2
  <2>2. CASE m_fd[h] \notin Fd!Fds \ {0, 1, 2}
    <3>1. m_fd[h] \in {0, 1, 2, -1, -2}
      BY <1>0, <2>2
    <3>2. open' \subseteq open /\ open \ open' \subseteq {-2}
      BY <1>5, <3>1 DEF Fd!Closed, Fd!valid
    <3>3. -2 \notin open
      BY <1>0
    <3>4. open' = open
      BY <3>2, <3>3
    <3> QED BY <1>0, <3>1, <3>4
  <2> QED BY <2>1, <2>2
<1>6. ASSUME NEW h \in Handle, NEW from \in Handle, Fd!MoveAssign(h, from)
      PROVE  FdTypes' /\ FdOwned' /\ FdAlone'
  <2>1. /\ {0, 1, 2} \subseteq open' /\ open' \subseteq Fd!Fds
        /\ \A n \in Fd!Fds : n \in open' <=>
              n \in {0, 1, 2} \/ \E g \in Handle \ {h} : m_fd[g] = n
    BY <1>5, <1>6 DEF Fd!MoveAssign
  <2>2. /\ got' = [got EXCEPT ![h] = got[from]] /\ serial' = serial
        /\ m_fd[h] # -2 /\ m_fd[from] # -2
        /\ h = from => m_fd' = [m_fd EXCEPT ![h] = -1]
        /\ h # from => m_fd' = [[m_fd EXCEPT ![from] = -1] EXCEPT ![h] = m_fd[from]]
    BY <1>6 DEF Fd!MoveAssign, Fd!Released, Fd!Live
  <2>3. FdTypes'
    BY <1>0, <2>1, <2>2
  <2>4. FdOwned'
    <3>1. CASE h = from
      BY <1>0, <2>1, <2>2, <3>1
    <3>2. CASE h # from
      BY <1>0, <2>1, <2>2, <3>2
    <3> QED BY <3>1, <3>2
  <2>5. FdAlone'
    <3>1. CASE h = from
      BY <1>0, <2>2, <3>1
    <3>2. CASE h # from
      BY <1>0, <2>2, <3>2
    <3> QED BY <3>1, <3>2
  <2> QED BY <2>3, <2>4, <2>5
<1>7. ASSUME NEW h \in Handle, Fd!Close(h) \/ Fd!Destroy(h)
      PROVE  FdTypes' /\ FdOwned' /\ FdAlone'
  <2>1. /\ {0, 1, 2} \subseteq open' /\ open' \subseteq Fd!Fds
        /\ \A n \in Fd!Fds : n \in open' <=>
              n \in {0, 1, 2} \/ \E g \in Handle \ {h} : m_fd[g] = n
    BY <1>5, <1>7 DEF Fd!Close, Fd!Destroy
  <2>2. PICK no \in {-1, -2} : /\ m_fd' = [m_fd EXCEPT ![h] = no]
                               /\ UNCHANGED <<serial, got>>
    BY <1>7 DEF Fd!Close, Fd!Destroy, Fd!Released
  <2> QED BY <1>0, <2>1, <2>2
<1> QED
  BY <1>1, <1>2, <1>3, <1>4, <1>6, <1>7 DEF Fd!Next

LEMMA FdUnchanged == ASSUME FdInv, UNCHANGED fd PROVE FdInv'
BY DEF fd, FdInv, Fd!DescriptorsOwned, Fd!TypeOK, Fd!OpenIffOwned,
       Fd!HoldsItsOwn, Fd!Owned, Fd!Live

LEMMA FdInit == ASSUME Fd!Init PROVE FdInv
<1> SUFFICES FdTypes /\ FdOwned /\ FdAlone
  BY FdInvIs
<1> QED
  BY FdNumbers DEF Fd!Init, Fd!Gone, FdTypes, FdOwned, FdAlone

-----------------------------------------------------------------------------
(* unique_resource                                                          *)

Owns(h, r) == m_valid[h] /\ m_resource[h] = r

\* No two handles own the same resource.
ResourcesAlone ==
    \A g, h \in Handle : m_valid[g] /\ m_valid[h] /\ m_resource[g] = m_resource[h]
                            => g = h

\* The deleter has run exactly on what was made and is owned no more.
ResourcesOnce ==
    \A r \in Resource :
        deleted[r] = IF r \in made /\ ~\E h \in Handle : Owns(h, r) THEN 1 ELSE 0

ResourcesMade == \A h \in Handle : m_valid[h] => m_resource[h] \in made

ResourcesInv ==
    Resources!TypeOK /\ ResourcesAlone /\ ResourcesOnce /\ ResourcesMade

LEMMA ResourcesInvSafe ==
    ASSUME ResourcesInv
    PROVE  Resources!DeletedExactlyOnce
<1> USE DEF ResourcesInv
<1>1. /\ \A h \in Handle : m_valid[h] => h \in Resources!Live
      /\ deleted \in [Resource -> 0 .. 2] /\ made \subseteq Resource
      /\ Resources!Live \subseteq Handle
  BY DEF Resources!TypeOK, Resources!Live
<1>2. \A r \in Resource : Resources!Owners(r) = {h \in Handle : Owns(h, r)}
  BY <1>1 DEF Resources!Owners, Owns
<1>3. Resources!DeletedAtMostOnce
  BY <1>1 DEF Resources!DeletedAtMostOnce, ResourcesOnce
<1>4. Resources!DeletedWhenUnowned
  BY <1>1, <1>2 DEF Resources!DeletedWhenUnowned, ResourcesOnce
<1>5. ASSUME NEW r \in Resource
      PROVE  Cardinality(Resources!Owners(r)) <= IF deleted[r] = 0 THEN 1 ELSE 0
  <2>1. CASE Resources!Owners(r) = {}
    BY <2>1, FS_EmptySet
  <2>2. CASE Resources!Owners(r) # {}
    <3>1. PICK h \in Handle : Owns(h, r)
      BY <1>2, <2>2
    <3>2. Resources!Owners(r) = {h}
      BY <1>2, <3>1 DEF ResourcesAlone, Owns
    <3>3. deleted[r] = 0
      BY <3>1 DEF ResourcesOnce
    <3>4. Cardinality({h}) = 1
      BY FS_Singleton
    <3> QED BY <3>2, <3>3, <3>4
  <2> QED BY <2>1, <2>2
<1>6. Resources!OwnedByOne
  BY <1>5 DEF Resources!OwnedByOne, Resources!Cardinality, Cardinality
<1> QED BY <1>3, <1>4, <1>6 DEF Resources!DeletedExactlyOnce

LEMMA ResourcesStep ==
    ASSUME ResourcesInv, Resources!Next
    PROVE  ResourcesInv'
<1> USE DEF ResourcesInv
<1>0. /\ m_resource \in [Handle -> Resource \cup {None}]
      /\ m_valid \in [Handle -> BOOLEAN]
      /\ \A h \in Handle : m_valid[h] => m_resource[h] # None
      /\ made \subseteq Resource /\ deleted \in [Resource -> 0 .. 2]
      /\ None \notin Resource
  BY ClassAssumptions
  DEF ClassAssumptions, Resources!ResourceAssumption, Resources!TypeOK,
      Resources!Live
<1>1. ASSUME NEW h \in Handle, NEW r \in Resource, Resources!Make(h, r)
      PROVE  ResourcesInv'
  <2>1. /\ m_resource[h] = None /\ ~m_valid[h] /\ r \notin made
        /\ m_resource' = [m_resource EXCEPT ![h] = r]
        /\ m_valid' = [m_valid EXCEPT ![h] = TRUE]
        /\ made' = made \cup {r} /\ deleted' = deleted
    BY <1>0, <1>1 DEF Resources!Make, Resources!Live
  <2>2. Resources!TypeOK'
    BY <1>0, <2>1 DEF Resources!TypeOK, Resources!Live
  <2>3. ResourcesAlone' /\ ResourcesMade'
    BY <1>0, <2>1 DEF ResourcesAlone, ResourcesMade
  <2>4. ResourcesOnce'
    BY <1>0, <2>1 DEF ResourcesOnce, ResourcesMade, Owns
  <2> QED BY <2>2, <2>3, <2>4
<1>2. ASSUME NEW h \in Handle, Resources!Destroy(h)
      PROVE  ResourcesInv'
  <2>1. /\ m_resource[h] # None
        /\ deleted' = IF m_valid[h] /\ deleted[m_resource[h]] < 2
                      THEN [deleted EXCEPT ![m_resource[h]] = @ + 1] ELSE deleted
        /\ m_resource' = [m_resource EXCEPT ![h] = None]
        /\ m_valid' = [m_valid EXCEPT ![h] = FALSE]
        /\ made' = made
    BY <1>2 DEF Resources!Destroy, Resources!Live
  <2>2. PICK r \in Resource : r = m_resource[h]
    BY <1>0, <2>1
  <2>3. deleted' = IF m_valid[h] THEN [deleted EXCEPT ![r] = 1] ELSE deleted
    <3>1. CASE m_valid[h]
      <4>1. deleted[r] = 0
        BY <2>2, <3>1 DEF ResourcesOnce, Owns
      <4>2. deleted' = [deleted EXCEPT ![r] = deleted[r] + 1]
        BY <2>1, <2>2, <3>1, <4>1
      <4> QED BY <3>1, <4>1, <4>2
    <3>2. CASE ~m_valid[h]
      BY <2>1, <3>2
    <3> QED BY <3>1, <3>2
  <2>4. Resources!TypeOK'
    BY <1>0, <2>1, <2>3 DEF Resources!TypeOK, Resources!Live
  <2>5. ResourcesAlone' /\ ResourcesMade'
    BY <1>0, <2>1 DEF ResourcesAlone, ResourcesMade
  <2>6. ResourcesOnce'
    <3>1. \A s \in Resource : s # r \/ ~m_valid[h] =>
             ((\E g \in Handle : Owns(g, s)') <=> \E g \in Handle : Owns(g, s))
      BY <1>0, <2>1, <2>2 DEF Owns
    <3>2. m_valid[h] => r \in made /\ ~\E g \in Handle : Owns(g, r)'
      BY <1>0, <2>1, <2>2 DEF Owns, ResourcesAlone, ResourcesMade
    <3> QED BY <1>0, <2>1, <2>2, <2>3, <3>1, <3>2 DEF ResourcesOnce
  <2> QED BY <2>4, <2>5, <2>6
\* Ownership goes from one handle to another that has none.
<1>3. ASSUME NEW h \in Handle, NEW from \in Handle, ~m_valid[h], m_valid[from],
             m_resource' = [m_resource EXCEPT ![h] = m_resource[from]],
             m_valid' = [[m_valid EXCEPT ![from] = FALSE] EXCEPT ![h] = TRUE],
             UNCHANGED <<made, deleted>>
      PROVE  ResourcesInv'
  <2>1. Resources!TypeOK'
    BY <1>0, <1>3 DEF Resources!TypeOK, Resources!Live
  <2>2. ResourcesAlone' /\ ResourcesMade'
    BY <1>0, <1>3 DEF ResourcesAlone, ResourcesMade
  <2>3. \A r \in Resource : (\E g \in Handle : Owns(g, r)') <=>
                                \E g \in Handle : Owns(g, r)
    BY <1>0, <1>3 DEF Owns
  <2>4. ResourcesOnce'
    BY <1>3, <2>3 DEF ResourcesOnce
  <2> QED BY <2>1, <2>2, <2>4
<1>4. ASSUME NEW h \in Handle, NEW from \in Handle,
             Resources!MoveConstruct(h, from)
      PROVE  ResourcesInv'
  <2>1. ~m_valid[h] /\ m_valid[from]
    BY <1>0, <1>4
    DEF Resources!MoveConstruct, Resources!MayMoveFrom, Resources!Live
  <2>2. /\ m_valid' = [[m_valid EXCEPT ![from] = FALSE] EXCEPT ![h] = TRUE]
        /\ m_resource' = [m_resource EXCEPT ![h] = m_resource[from]]
        /\ UNCHANGED <<made, deleted>>
    BY <1>4 DEF Resources!MoveConstruct
  <2> QED BY <1>3, <2>1, <2>2
<1>5. ASSUME NEW h \in Handle, NEW from \in Handle, Resources!MoveAssign(h, from)
      PROVE  ResourcesInv'
  <2>1. ~m_valid[h] /\ m_valid[from]
    BY <1>0, <1>5 DEF Resources!MoveAssign, Resources!MayMoveFrom
  <2>2. /\ m_valid' = [[m_valid EXCEPT ![from] = FALSE] EXCEPT ![h] = TRUE]
        /\ m_resource' = [m_resource EXCEPT ![h] = m_resource[from]]
        /\ UNCHANGED <<made, deleted>>
    BY <1>0, <1>5, <2>1 DEF Resources!MoveAssign, Resources!Transferred
  <2> QED BY <1>3, <2>1, <2>2
<1> QED
  BY <1>1, <1>2, <1>4, <1>5 DEF Resources!Next

LEMMA ResourcesUnchanged ==
    ASSUME ResourcesInv, UNCHANGED resource
    PROVE  ResourcesInv'
BY DEF resource, ResourcesInv, Resources!TypeOK, Resources!Live, ResourcesAlone,
       ResourcesOnce, ResourcesMade, Owns

LEMMA ResourcesInit == ASSUME Resources!Init PROVE ResourcesInv
BY ClassAssumptions
DEF ClassAssumptions, Resources!ResourceAssumption, Resources!Init, ResourcesInv,
    Resources!TypeOK, Resources!Live, ResourcesAlone, ResourcesOnce,
    ResourcesMade, Owns

\* unique_posix_fd and unique_resource: any number of handles, made, moved,
\* assigned to themselves or others, closed and destroyed in any order, close
\* every descriptor and delete every resource exactly once, and no handle is
\* left with what another one gave back.
THEOREM HandlesAlwaysOwnOnce == Spec => []HandlesOwnOnce
<1>1. Init => FdInv /\ ResourcesInv
  BY FdInit, ResourcesInit DEF Init
<1>2. FdInv /\ ResourcesInv /\ [Next]_vars => FdInv' /\ ResourcesInv'
  BY FdStep, FdUnchanged, ResourcesStep, ResourcesUnchanged DEF Next, vars
<1>3. FdInv /\ ResourcesInv => HandlesOwnOnce
  BY ResourcesInvSafe DEF FdInv, HandlesOwnOnce
<1> QED BY <1>1, <1>2, <1>3, PTL DEF Spec

-----------------------------------------------------------------------------
(* object_storage                                                           *)

\* An object is in one block at most, and none that was not made is gone.
ObjectsApart ==
    /\ \A b, c \in Block : inside[b] = inside[c] /\ inside[b] # 0 => b = c
    /\ \A o \in 1 .. MaxObjects : o > created => destroyed[o] = 0

StorageTypes ==
    /\ live \subseteq Storage
    /\ m_storage \in [Storage -> Block \cup {None}]
    /\ m_has_value \in [Storage -> BOOLEAN]
    /\ created \in 0 .. MaxObjects /\ inside \in [Block -> 0 .. created]
    /\ destroyed \in [1 .. MaxObjects -> 0 .. 2]

StoragesApart ==
    \A s, t \in live : m_storage[s] = m_storage[t] => s = t \/ m_storage[s] = None

Holds(s, o) == m_has_value[s] /\ m_storage[s] # None /\ inside[m_storage[s]] = o

StorageInv ==
    /\ StorageTypes /\ StoragesApart /\ ObjectsApart
    /\ \A s \in live : m_has_value[s] <=>
           /\ m_storage[s] # None
           /\ inside[m_storage[s]] > 0 /\ destroyed[inside[m_storage[s]]] = 0
    /\ \A o \in 1 .. created : \/ destroyed[o] = 1
                               \/ destroyed[o] = 0 /\ \E s \in live : Holds(s, o)

LEMMA StorageInvSafe ==
    ASSUME StorageInv
    PROVE  Storages!DestroyedExactlyOnce
<1>1. Storages!TypeOK
  BY DEF StorageInv, StorageTypes, StoragesApart, Storages!TypeOK
<1>2. Storages!FlagTellsTruth
  BY DEF StorageInv, Storages!FlagTellsTruth, Storages!Alive
<1>3. Storages!ObjectsAccountedFor
  BY DEF StorageInv, Storages!ObjectsAccountedFor, Storages!Objects, Holds
<1> QED BY <1>1, <1>2, <1>3 DEF Storages!DestroyedExactlyOnce

\* The object in the block of a storage that has one is destroyed.
LEMMA ObjectEnds ==
    ASSUME StorageInv, NEW s \in live, m_has_value[s],
           destroyed' = Storages!Ended(m_storage[s]),
           m_has_value' = [m_has_value EXCEPT ![s] = FALSE],
           UNCHANGED <<live, m_storage, inside, created>>
    PROVE  StorageInv'
<1> USE DEF StorageInv
<1>1. /\ s \in Storage /\ m_storage[s] \in Block
      /\ MaxObjects \in Nat /\ None \notin Block
      /\ \A b \in Block : inside[b] \in 0 .. created
      /\ created \in Nat /\ created <= MaxObjects
  BY ClassAssumptions
  DEF ClassAssumptions, Storages!StorageAssumption, StorageTypes
<1>2. PICK o : o = inside[m_storage[s]]
  OBVIOUS
<1>3. o \in 1 .. created /\ o \in 1 .. MaxObjects /\ destroyed[o] = 0
  BY <1>1, <1>2
<1>4. destroyed' = [destroyed EXCEPT ![o] = 1]
  <2>1. destroyed' = [destroyed EXCEPT ![o] = destroyed[o] + 1]
    BY <1>2, <1>3 DEF Storages!Ended
  <2> QED BY <1>3, <2>1
<1>5. StorageTypes' /\ StoragesApart' /\ ObjectsApart'
  BY <1>1, <1>3, <1>4 DEF StorageTypes, StoragesApart, ObjectsApart
<1>6. ASSUME NEW t \in live, t # s, m_storage[t] # None
      PROVE  inside[m_storage[t]] # o
  <2>1. m_storage[t] \in Block /\ m_storage[t] # m_storage[s]
    BY <1>6 DEF StorageTypes, StoragesApart
  <2> QED BY <1>1, <1>2, <1>3, <2>1 DEF ObjectsApart
<1>7. ASSUME NEW t \in live
      PROVE  m_has_value'[t] <=>
                /\ m_storage[t] # None
                /\ inside[m_storage[t]] > 0
                /\ destroyed'[inside[m_storage[t]]] = 0
  <2>1. CASE t = s
    BY <1>1, <1>2, <1>3, <1>4, <2>1 DEF StorageTypes
  <2>2. CASE t # s
    <3>1. m_has_value'[t] <=> m_has_value[t]
      BY <2>2 DEF StorageTypes
    <3>2. ASSUME m_storage[t] # None, inside[m_storage[t]] > 0
          PROVE  destroyed'[inside[m_storage[t]]] = destroyed[inside[m_storage[t]]]
      <4>1. inside[m_storage[t]] \in 1 .. MaxObjects
        BY <1>1, <3>2 DEF StorageTypes
      <4> QED BY <1>3, <1>4, <1>6, <2>2, <3>2, <4>1 DEF StorageTypes
    <3> QED BY <3>1, <3>2
  <2> QED BY <2>1, <2>2
<1>8. ASSUME NEW p \in 1 .. created, p # o
      PROVE  \/ destroyed'[p] = 1
             \/ destroyed'[p] = 0 /\ \E t \in live : Holds(t, p)'
  <2>1. destroyed'[p] = destroyed[p]
    BY <1>1, <1>4, <1>8 DEF StorageTypes
  <2>2. ASSUME NEW t \in live, Holds(t, p)
        PROVE  Holds(t, p)'
    <3>1. t # s
      BY <1>2, <1>8, <2>2 DEF Holds
    <3> QED BY <2>2, <3>1 DEF Holds, StorageTypes
  <2> QED BY <2>1, <2>2
<1>9. destroyed'[o] = 1
  BY <1>3, <1>4 DEF StorageTypes
<1> QED BY <1>5, <1>7, <1>8, <1>9

LEMMA StorageStep ==
    ASSUME StorageInv, Storages!Next
    PROVE  StorageInv'
<1> USE DEF StorageInv
<1>0. /\ MaxObjects \in Nat /\ None \notin Block
      /\ \A b \in Block : inside[b] \in 0 .. created
      /\ created \in Nat /\ created <= MaxObjects
  BY ClassAssumptions
  DEF ClassAssumptions, Storages!StorageAssumption, StorageTypes
<1>1. ASSUME NEW s \in Storage, Storages!Construct(s)
      PROVE  StorageInv'
  <2>1. PICK b \in Storages!Free :
            /\ m_storage' = [m_storage EXCEPT ![s] = b]
            /\ inside' = [inside EXCEPT ![b] = 0]
    BY <1>1 DEF Storages!Construct
  <2>2. /\ s \notin live /\ live' = live \cup {s}
        /\ m_has_value' = [m_has_value EXCEPT ![s] = FALSE]
        /\ UNCHANGED <<created, destroyed>>
        /\ b \in Block /\ \A t \in live : m_storage[t] # b
    BY <1>1, <2>1 DEF Storages!Construct, Storages!Free
  <2>3. StorageTypes' /\ StoragesApart' /\ ObjectsApart'
    BY <1>0, <2>1, <2>2 DEF StorageTypes, StoragesApart, ObjectsApart
  <2>4. \A t \in live : /\ m_storage'[t] = m_storage[t]
                        /\ (m_has_value'[t] <=> m_has_value[t])
                        /\ m_storage[t] # None =>
                               inside'[m_storage[t]] = inside[m_storage[t]]
    BY <2>1, <2>2 DEF StorageTypes
  <2>5. m_storage'[s] = b /\ ~m_has_value'[s] /\ inside'[b] = 0
    BY <2>1, <2>2 DEF StorageTypes
  <2>6. \A t \in live : \A o : Holds(t, o) => Holds(t, o)'
    BY <2>4 DEF Holds
  <2>7. \A t \in live' : m_has_value'[t] <=>
            /\ m_storage'[t] # None
            /\ inside'[m_storage'[t]] > 0
            /\ destroyed'[inside'[m_storage'[t]]] = 0
    <3>1. \A t \in live' : t \in live \/ t = s
      BY <2>2
    <3> QED BY <2>2, <2>4, <2>5, <3>1
  <2>8. \A o \in 1 .. created' :
            \/ destroyed'[o] = 1
            \/ destroyed'[o] = 0 /\ \E t \in live' : Holds(t, o)'
    BY <2>2, <2>6
  <2> QED BY <2>3, <2>7, <2>8
<1>2. ASSUME NEW s \in Storage, Storages!Destroy(s)
      PROVE  StorageInv'
  <2>1. /\ s \in live /\ live' = live \ {s} /\ ~m_has_value[s]
        /\ m_storage' = [m_storage EXCEPT ![s] = None]
        /\ m_has_value' = [m_has_value EXCEPT ![s] = FALSE]
        /\ UNCHANGED <<inside, created, destroyed>>
    BY <1>2 DEF Storages!Destroy
  <2>2. StorageTypes' /\ StoragesApart' /\ ObjectsApart'
    BY <1>0, <2>1 DEF StorageTypes, StoragesApart, ObjectsApart
  <2>3. \A t \in live : t # s => /\ m_storage'[t] = m_storage[t]
                                 /\ (m_has_value'[t] <=> m_has_value[t])
    BY <2>1 DEF StorageTypes
  <2>4. \A t \in live : \A o : Holds(t, o) => t # s /\ Holds(t, o)'
    BY <2>1, <2>3 DEF Holds
  <2> QED BY <2>1, <2>2, <2>3, <2>4
<1>3. ASSUME NEW s \in Storage, Storages!SetValue(s)
      PROVE  StorageInv'
  <2>1. /\ s \in live /\ created < MaxObjects /\ m_storage[s] # None
        /\ m_has_value' = [m_has_value EXCEPT ![s] = TRUE]
        /\ UNCHANGED <<live, m_storage, destroyed>>
    BY <1>3 DEF Storages!SetValue
  <2>2. CASE m_has_value[s]
    <3>1. UNCHANGED <<created, inside, m_has_value>>
      BY <1>3, <2>1, <2>2 DEF Storages!SetValue, StorageTypes
    <3> QED BY <2>1, <3>1
            DEF StorageTypes, StoragesApart, ObjectsApart, Holds
  <2>3. CASE ~m_has_value[s]
    <3>1. PICK b \in Block : b = m_storage[s]
      BY <2>1 DEF StorageTypes
    <3>2. created' = created + 1 /\ inside' = [inside EXCEPT ![b] = created + 1]
      BY <1>3, <2>3, <3>1 DEF Storages!SetValue
    <3>3. StorageTypes' /\ StoragesApart'
      BY <1>0, <2>1, <3>2 DEF StorageTypes, StoragesApart
    <3>4. ObjectsApart'
      BY <1>0, <2>1, <3>2 DEF StorageTypes, ObjectsApart
    <3>5. ASSUME NEW t \in live, t # s
          PROVE  /\ (m_has_value'[t] <=> m_has_value[t])
                 /\ m_storage[t] # None =>
                        inside'[m_storage[t]] = inside[m_storage[t]]
      BY <2>1, <3>1, <3>2, <3>5 DEF StorageTypes, StoragesApart
    <3>6. m_has_value'[s] /\ inside'[m_storage[s]] = created + 1
          /\ destroyed[created + 1] = 0
      BY <1>0, <2>1, <3>1, <3>2 DEF StorageTypes, ObjectsApart
    <3>7. \A t \in live : \A o : Holds(t, o) => Holds(t, o)'
      BY <2>1, <2>3, <3>5 DEF Holds
    <3>8. PICK new : new = created + 1 /\ Holds(s, new)'
      BY <2>1, <3>6 DEF Holds
    <3>9. \A t \in live : m_has_value'[t] <=>
              /\ m_storage'[t] # None
              /\ inside'[m_storage'[t]] > 0
              /\ destroyed'[inside'[m_storage'[t]]] = 0
      BY <1>0, <2>1, <3>5, <3>6
    <3>10. \A o \in 1 .. created' : o \in 1 .. created \/ o = new
      BY <1>0, <3>2, <3>8
    <3>11. \A o \in 1 .. created' :
               \/ destroyed'[o] = 1
               \/ destroyed'[o] = 0 /\ \E t \in live' : Holds(t, o)'
      <4>1. ASSUME NEW o \in 1 .. created
            PROVE  \/ destroyed'[o] = 1
                   \/ destroyed'[o] = 0 /\ \E t \in live' : Holds(t, o)'
        BY <2>1, <3>7
      <4>2. destroyed'[new] = 0 /\ \E t \in live' : Holds(t, new)'
        BY <2>1, <3>6, <3>8
      <4> QED BY <3>10, <4>1, <4>2
    <3> QED BY <2>1, <3>3, <3>4, <3>9, <3>11
  <2> QED BY <2>2, <2>3
<1>4. ASSUME NEW s \in Storage, Storages!Clear(s)
      PROVE  StorageInv'
  BY <1>4, ObjectEnds DEF Storages!Clear
<1>5. ASSUME NEW s \in Storage, Storages!GetValue(s)
      PROVE  StorageInv'
  <2>1. CASE m_has_value[s]
    BY <1>5, <2>1, ObjectEnds DEF Storages!GetValue
  <2>2. CASE ~m_has_value[s]
    BY <1>5, <2>2
    DEF Storages!GetValue, StorageTypes, StoragesApart, ObjectsApart, Holds
  <2> QED BY <2>1, <2>2
\* The memory of from goes to s, which holds no object.
<1>6. ASSUME NEW s \in Storage, NEW from \in live, s # from,
             s \in live => ~m_has_value[s], live' = live \cup {s},
             m_storage' = [m_storage EXCEPT ![s] = m_storage[from],
                                            ![from] = None],
             m_has_value' = Storages!FlagsMoved(s, from),
             UNCHANGED <<inside, created, destroyed>>
      PROVE  StorageInv'
  <2>1. /\ from \in Storage
        /\ m_storage'[s] = m_storage[from] /\ m_storage'[from] = None
        /\ (m_has_value'[s] <=> m_has_value[from]) /\ ~m_has_value'[from]
        /\ \A t \in live \ {s, from} : /\ m_storage'[t] = m_storage[t]
                                       /\ (m_has_value'[t] <=> m_has_value[t])
    BY <1>6 DEF Storages!FlagsMoved, StorageTypes
  <2>2. StorageTypes'
    BY <1>6, <2>1 DEF StorageTypes, Storages!FlagsMoved
  <2>3. StoragesApart' /\ ObjectsApart'
    <3>1. m_storage[from] = None \/ \A t \in live \ {from} : m_storage[t] # m_storage[from]
      BY <1>6 DEF StoragesApart
    <3>2. \A t, u \in live \ {s, from} :
              m_storage'[t] = m_storage'[u] => t = u \/ m_storage'[t] = None
      BY <2>1 DEF StoragesApart
    <3>3. \A t \in live' : t \in live \ {s, from} \/ t = s \/ t = from
      BY <1>6
    <3>4. StoragesApart'
      BY <2>1, <3>1, <3>2, <3>3 DEF StoragesApart
    <3> QED BY <1>6, <3>4 DEF ObjectsApart
  <2>4. ASSUME NEW t \in live, NEW o, Holds(t, o)
        PROVE  \E u \in live' : Holds(u, o)'
    <3>1. CASE t = from
      BY <1>6, <2>1, <2>4, <3>1 DEF Holds
    <3>2. CASE t # from
      BY <1>6, <2>1, <2>4, <3>2 DEF Holds
    <3> QED BY <3>1, <3>2
  <2>5. \A t \in live' : m_has_value'[t] <=>
            /\ m_storage'[t] # None
            /\ inside'[m_storage'[t]] > 0
            /\ destroyed'[inside'[m_storage'[t]]] = 0
    <3>1. \A t \in live' : t \in live \ {s, from} \/ t = s \/ t = from
      BY <1>6
    <3>2. \A t \in live \ {s, from} : m_has_value'[t] <=>
              /\ m_storage'[t] # None
              /\ inside[m_storage'[t]] > 0
              /\ destroyed[inside[m_storage'[t]]] = 0
      BY <2>1
    <3>3. m_has_value'[s] <=> /\ m_storage'[s] # None
                              /\ inside[m_storage'[s]] > 0
                              /\ destroyed[inside[m_storage'[s]]] = 0
      BY <2>1
    <3>4. m_storage'[from] = None /\ ~m_has_value'[from]
      BY <2>1
    <3> QED BY <1>6, <3>1, <3>2, <3>3, <3>4
  <2> QED BY <1>6, <2>2, <2>3, <2>4, <2>5
<1>7. ASSUME NEW s \in Storage, NEW from \in Storage,
             Storages!MoveConstruct(s, from)
      PROVE  StorageInv'
  BY <1>6, <1>7 DEF Storages!MoveConstruct
<1>8. ASSUME NEW s \in Storage, NEW from \in Storage,
             Storages!MoveAssign(s, from)
      PROVE  StorageInv'
  <2>1. /\ s \in live /\ from \in live /\ ~m_has_value[s] /\ live' = live
        /\ m_has_value' = Storages!FlagsMoved(s, from)
        /\ UNCHANGED <<inside, created, destroyed>>
    BY <1>8 DEF Storages!MoveAssign
  <2>2. CASE s = from
    <3>1. UNCHANGED <<m_storage, m_has_value>>
      BY <1>8, <2>1, <2>2
      DEF Storages!MoveAssign, Storages!FlagsMoved, StorageTypes
    <3> QED BY <2>1, <3>1
            DEF StorageTypes, StoragesApart, ObjectsApart, Holds
  <2>3. CASE s # from
    <3>1. m_storage' = [m_storage EXCEPT ![s] = m_storage[from],
                                         ![from] = None]
      BY <1>8, <2>3 DEF Storages!MoveAssign
    <3>2. live' = live \cup {s}
      BY <2>1
    <3> QED BY <1>6, <2>1, <2>3, <3>1, <3>2
  <2> QED BY <2>2, <2>3
<1> QED
  BY <1>1, <1>2, <1>3, <1>4, <1>5, <1>7, <1>8 DEF Storages!Next

LEMMA StorageUnchanged ==
    ASSUME StorageInv, UNCHANGED storage
    PROVE  StorageInv'
BY DEF storage, StorageInv, StorageTypes, StoragesApart, ObjectsApart, Holds

LEMMA StorageInit == ASSUME Storages!Init PROVE StorageInv
BY ClassAssumptions
DEF ClassAssumptions, Storages!StorageAssumption, Storages!Init, StorageInv,
    StorageTypes, StoragesApart, ObjectsApart, Holds

\* object_storage: whatever storages are made, filled, moved, emptied and
\* destroyed by a client who empties them first, every object is destroyed
\* exactly once, and a storage says that it has one while it is alive.
THEOREM StoredObjectsDestroyedOnce == Spec => []DestroyedExactlyOnce
<1>1. Init => StorageInv
  BY StorageInit DEF Init
<1>2. StorageInv /\ [Next]_vars => StorageInv'
  BY StorageStep, StorageUnchanged DEF Next, vars
<1>3. StorageInv => DestroyedExactlyOnce
  BY StorageInvSafe DEF DestroyedExactlyOnce
<1> QED BY <1>1, <1>2, <1>3, PTL DEF Spec

-----------------------------------------------------------------------------
(* page, buffer_block, allocator_ptr                                        *)

\* No piece of memory has two owners.
MemoriesApart ==
    \A o, p \in Owner : m_memory[o] = m_memory[p] /\ m_memory[o] # None => o = p

Owned(m) == \E o \in Owner : m_memory[o] = m

\* What has become of every piece of memory.
MemoriesAccounted ==
    \A m \in Piece :
        /\ lent[m] = None => ~Owned(m) /\ returned[m] = 0 /\ m \notin given_up
        /\ lent[m] # None =>
               \/ Owned(m) /\ returned[m] = 0 /\ m \notin given_up
               \/ ~Owned(m) /\ returned[m] = 1 /\ m \notin given_up
               \/ ~Owned(m) /\ returned[m] = 0 /\ m \in given_up

\* An owner knows the allocator and the size its memory was asked for with.
OwnersRemember ==
    \A o \in Owner : m_memory[o] # None =>
        lent[m_memory[o]] = Memories!Loan(m_alloc[o], m_capacity[o])

Loans == [from : Allocator, size : Nat]

MemoriesInv ==
    /\ Memories!TypeOK /\ lent \in [Piece -> Loans \cup {None}]
    /\ MemoriesApart /\ MemoriesAccounted /\ OwnersRemember
    /\ Memories!RoomIsMemory /\ ~wrongly

LEMMA MemoriesInvSafe ==
    ASSUME MemoriesInv
    PROVE  BlocksReturned
<1> USE DEF MemoriesInv
<1>0. None \notin Piece
  BY ClassAssumptions DEF ClassAssumptions, Memories!MemoryAssumption
<1>1. \A S : Memories!Cardinality(S) = Cardinality(S)
  BY DEF Memories!Cardinality, Cardinality
<1>2. ASSUME NEW m \in Piece
      PROVE  Cardinality(Memories!OwnersOf(m)) = IF Owned(m) THEN 1 ELSE 0
  <2>1. CASE Owned(m)
    <3>1. PICK o \in Owner : m_memory[o] = m
      BY <2>1 DEF Owned
    <3>2. Memories!OwnersOf(m) = {o}
      BY <1>0, <3>1 DEF MemoriesApart, Memories!OwnersOf
    <3> QED BY <2>1, <3>2, FS_Singleton
  <2>2. CASE ~Owned(m)
    <3>1. Memories!OwnersOf(m) = {}
      BY <2>2 DEF Owned, Memories!OwnersOf
    <3> QED BY <2>2, <3>1, FS_EmptySet
  <2> QED BY <2>1, <2>2
<1>3. ASSUME NEW m \in Piece
      PROVE  Cardinality({m} \cap given_up) = IF m \in given_up THEN 1 ELSE 0
  <2>1. CASE m \in given_up
    <3>1. {m} \cap given_up = {m}
      BY <2>1
    <3> QED BY <2>1, <3>1, FS_Singleton
  <2>2. CASE m \notin given_up
    <3>1. {m} \cap given_up = {}
      BY <2>2
    <3> QED BY <2>2, <3>1, FS_EmptySet
  <2> QED BY <2>1, <2>2
<1>4. Memories!OwnedOrReturned
  <2> SUFFICES ASSUME NEW m \in Piece
               PROVE  Cardinality(Memories!OwnersOf(m)) + returned[m]
                          + Cardinality({m} \cap given_up)
                        = IF lent[m] = None THEN 0 ELSE 1
    BY <1>1 DEF Memories!OwnedOrReturned
  <2> QED BY <1>2, <1>3 DEF MemoriesAccounted
<1> QED BY <1>4 DEF BlocksReturned, Memories!BlocksReturned

\* What o had, if anything, went back: to its allocator, and with its size.
LEMMA GivesBackOnce ==
    ASSUME MemoriesInv, NEW o \in Owner, Memories!GivenBack(o)
    PROVE  /\ returned' \in [Piece -> Nat] /\ wrongly' \in BOOLEAN
           /\ ~wrongly'
           /\ \A m \in Piece :
                  returned'[m] = IF m_memory[o] = m THEN 1 ELSE returned[m]
<1> USE DEF MemoriesInv
<1>0. None \notin Piece
  BY ClassAssumptions DEF ClassAssumptions, Memories!MemoryAssumption
<1>1. CASE m_memory[o] = None
  BY <1>0, <1>1 DEF Memories!GivenBack, Memories!TypeOK
<1>2. CASE m_memory[o] # None
  <2>1. m_memory[o] \in Piece
    BY <1>2 DEF Memories!TypeOK
  <2>2. /\ lent[m_memory[o]] = Memories!Loan(m_alloc[o], m_capacity[o])
        /\ returned[m_memory[o]] = 0
    BY <1>2, <2>1 DEF OwnersRemember, MemoriesAccounted, Owned
  <2>3. /\ returned' = [returned EXCEPT ![m_memory[o]] = returned[m_memory[o]] + 1]
        /\ wrongly' = (wrongly \/ lent[m_memory[o]]
                                   # Memories!Loan(m_alloc[o], m_capacity[o]))
    BY <1>2 DEF Memories!GivenBack
  <2> QED BY <2>1, <2>2, <2>3 DEF Memories!TypeOK
<1> QED BY <1>1, <1>2

\* The memory of o, if any, went back, and o has none now.
LEMMA OwnerEmptied ==
    ASSUME MemoriesInv, NEW o \in Owner, Memories!GivenBack(o),
           m_memory' = [m_memory EXCEPT ![o] = None],
           \A p \in Owner \ {o} : /\ m_alloc'[p] = m_alloc[p]
                                  /\ m_capacity'[p] = m_capacity[p],
           UNCHANGED <<lent, given_up>>
    PROVE  /\ MemoriesApart' /\ MemoriesAccounted' /\ OwnersRemember'
           /\ ~wrongly' /\ lent' \in [Piece -> Loans \cup {None}]
<1> USE DEF MemoriesInv
<1>0. None \notin Piece
  BY ClassAssumptions DEF ClassAssumptions, Memories!MemoryAssumption
<1>1. /\ ~wrongly'
      /\ \A m \in Piece :
             returned'[m] = IF m_memory[o] = m THEN 1 ELSE returned[m]
  BY GivesBackOnce
<1>2. /\ m_memory'[o] = None
      /\ \A p \in Owner \ {o} : m_memory'[p] = m_memory[p]
  BY DEF Memories!TypeOK
<1>3. MemoriesApart' /\ OwnersRemember'
  BY <1>2 DEF MemoriesApart, OwnersRemember, Memories!Loan
<1>4. ASSUME NEW m \in Piece
      PROVE  Owned(m)' <=> Owned(m) /\ m_memory[o] # m
  BY <1>0, <1>2 DEF Owned, MemoriesApart
<1>5. MemoriesAccounted'
  <2> SUFFICES ASSUME NEW m \in Piece
               PROVE  /\ lent[m] = None =>
                           ~Owned(m)' /\ returned'[m] = 0 /\ m \notin given_up
                      /\ lent[m] # None =>
                           \/ Owned(m)' /\ returned'[m] = 0 /\ m \notin given_up
                           \/ ~Owned(m)' /\ returned'[m] = 1 /\ m \notin given_up
                           \/ ~Owned(m)' /\ returned'[m] = 0 /\ m \in given_up
    BY DEF MemoriesAccounted
  <2>1. m_memory[o] = m => Owned(m)
    BY DEF Owned
  <2> QED BY <1>1, <1>4, <2>1 DEF MemoriesAccounted
<1> QED BY <1>1, <1>3, <1>5

\* The memory of from, which may be none, is now that of o, whose own went back.
LEMMA MemoryMoved ==
    ASSUME MemoriesInv, NEW o \in Owner, NEW from \in existing, o # from,
           Memories!Moved(o, from), existing' = existing \cup {o},
           Memories!GivenBack(o), UNCHANGED <<kind, lent, given_up>>
    PROVE  MemoriesInv'
<1> USE DEF MemoriesInv
<1>0. /\ None \notin Piece /\ from \in Owner /\ existing \subseteq Owner
      /\ dropped \subseteq existing
  BY ClassAssumptions
  DEF ClassAssumptions, Memories!MemoryAssumption, Memories!TypeOK
<1>1. /\ returned' \in [Piece -> Nat] /\ wrongly' \in BOOLEAN /\ ~wrongly'
      /\ \A m \in Piece :
             returned'[m] = IF m_memory[o] = m THEN 1 ELSE returned[m]
  BY GivesBackOnce
<1>2. /\ m_memory' \in [Owner -> Piece \cup {None}]
      /\ m_memory'[o] = m_memory[from] /\ m_memory'[from] = None
      /\ \A p \in Owner \ {o, from} : m_memory'[p] = m_memory[p]
  BY <1>0 DEF Memories!Moved, Memories!Vacated, Memories!TypeOK
<1>3. /\ m_capacity' \in [Owner -> Nat] /\ m_written' \in [Owner -> Nat]
      /\ m_capacity'[o] = m_capacity[from] /\ m_capacity'[from] = 0
      /\ m_written'[o] = m_written[from] /\ m_written'[from] = 0
      /\ \A p \in Owner \ {o, from} :
             m_capacity'[p] = m_capacity[p] /\ m_written'[p] = m_written[p]
  BY <1>0 DEF Memories!Moved, Memories!Vacated, Memories!TypeOK
<1>4. /\ m_alloc' \in [Owner -> Allocator \cup {None}]
      /\ m_alloc'[o] = m_alloc[from]
      /\ \A p \in Owner \ {o, from} : m_alloc'[p] = m_alloc[p]
  BY <1>0 DEF Memories!Moved, Memories!TypeOK
<1>5. dropped' = (dropped \ {o, from})
                     \cup (IF from \in dropped THEN {o} ELSE {})
  BY DEF Memories!Moved
<1>6. Memories!TypeOK'
  BY <1>0, <1>1, <1>2, <1>3, <1>4, <1>5 DEF Memories!TypeOK
<1>7. MemoriesApart'
  BY <1>0, <1>2 DEF MemoriesApart
<1>8. OwnersRemember'
  BY <1>0, <1>2, <1>3, <1>4 DEF OwnersRemember, Memories!Loan
<1>9. ASSUME NEW m \in Piece
      PROVE  Owned(m)' <=> Owned(m) /\ m_memory[o] # m
  BY <1>0, <1>2 DEF Owned, MemoriesApart
<1>10. MemoriesAccounted'
  <2> SUFFICES ASSUME NEW m \in Piece
               PROVE  /\ lent[m] = None =>
                           ~Owned(m)' /\ returned'[m] = 0 /\ m \notin given_up
                      /\ lent[m] # None =>
                           \/ Owned(m)' /\ returned'[m] = 0 /\ m \notin given_up
                           \/ ~Owned(m)' /\ returned'[m] = 1 /\ m \notin given_up
                           \/ ~Owned(m)' /\ returned'[m] = 0 /\ m \in given_up
    BY DEF MemoriesAccounted
  <2>1. m_memory[o] = m => Owned(m)
    BY DEF Owned
  <2> QED BY <1>1, <1>9, <2>1 DEF MemoriesAccounted
<1>11. Memories!RoomIsMemory'
  BY <1>0, <1>2, <1>3, <1>5 DEF Memories!RoomIsMemory
<1> QED BY <1>1, <1>6, <1>7, <1>8, <1>10, <1>11

LEMMA MemoryLent ==
    ASSUME MemoriesInv, NEW o \in Owner, NEW a \in Allocator, NEW n \in Sizes,
           Memories!Allocate(o, a, n)
    PROVE  MemoriesInv'
<1> USE DEF MemoriesInv
<1>0. /\ None \notin Piece /\ None \notin Loans /\ n \in Nat
      /\ Alignment \in Nat \ {0}
  BY ClassAssumptions DEF ClassAssumptions, Memories!MemoryAssumption, Loans
<1>1. PICK m \in Piece :
          /\ lent[m] = None
          /\ lent' = [lent EXCEPT ![m] = Memories!Loan(a, Memories!Asked(n))]
          /\ m_memory' = [m_memory EXCEPT ![o] = m]
  BY DEF Memories!Allocate
<1>2. /\ o \notin existing /\ existing' = existing \cup {o}
      /\ UNCHANGED <<kind, dropped, returned, wrongly, given_up>>
      /\ m_memory[o] = None /\ existing \subseteq Owner
  BY DEF Memories!Allocate, Memories!TypeOK
<1>3. Memories!Asked(n) \in Nat /\ Memories!Remembered(n) = Memories!Asked(n)
  <2>1. kind = "allocator_ptr" => n = 1
    BY DEF Memories!Allocate
  <2>2. Memories!RoundedUp(n) \in Nat
    <3> DEFINE q == (n + Alignment - 1) \div Alignment
    <3>1. q \in Nat
      BY <1>0
    <3> HIDE DEF q
    <3>2. q * Alignment \in Nat
      BY <1>0, <3>1
    <3> QED BY <3>2 DEF q, Memories!RoundedUp
  <2> QED BY <1>0, <2>1, <2>2 DEF Memories!Asked, Memories!Remembered
<1>4. PICK loan : loan = Memories!Loan(a, Memories!Asked(n))
  OBVIOUS
<1>5. loan \in Loans
  BY <1>3, <1>4 DEF Loans, Memories!Loan
<1>6. /\ lent' \in [Piece -> Loans \cup {None}] /\ lent'[m] = loan
      /\ \A k \in Piece \ {m} : lent'[k] = lent[k]
  BY <1>1, <1>4, <1>5
<1>7. /\ m_memory' \in [Owner -> Piece \cup {None}] /\ m_memory'[o] = m
      /\ \A p \in Owner \ {o} : m_memory'[p] = m_memory[p]
  BY <1>1 DEF Memories!TypeOK
<1>8. /\ m_alloc' \in [Owner -> Allocator \cup {None}] /\ m_alloc'[o] = a
      /\ m_capacity' \in [Owner -> Nat] /\ m_capacity'[o] = Memories!Asked(n)
      /\ m_written' \in [Owner -> Nat] /\ m_written'[o] = 0
      /\ \A p \in Owner \ {o} : /\ m_alloc'[p] = m_alloc[p]
                                /\ m_capacity'[p] = m_capacity[p]
                                /\ m_written'[p] = m_written[p]
  BY <1>3 DEF Memories!Allocate, Memories!TypeOK
<1>9. ~Owned(m) /\ returned[m] = 0 /\ m \notin given_up
  BY <1>1 DEF MemoriesAccounted
<1>10. Memories!TypeOK'
  BY <1>2, <1>7, <1>8 DEF Memories!TypeOK
<1>11. MemoriesApart'
  BY <1>0, <1>7, <1>9 DEF MemoriesApart, Owned
<1>12. OwnersRemember'
  <2>1. \A p \in Owner \ {o} : m_memory[p] # m
    BY <1>9 DEF Owned
  <2>2. \A p \in Owner \ {o} : m_memory[p] # None =>
            /\ m_memory[p] \in Piece \ {m}
            /\ lent[m_memory[p]] = Memories!Loan(m_alloc[p], m_capacity[p])
    BY <2>1 DEF OwnersRemember, Memories!TypeOK
  <2>3. lent'[m_memory'[o]] = Memories!Loan(m_alloc'[o], m_capacity'[o])
    BY <1>4, <1>6, <1>7, <1>8
  <2> QED BY <1>6, <1>7, <1>8, <2>2, <2>3 DEF OwnersRemember, Memories!Loan
<1>13. MemoriesAccounted'
  <2>1. ASSUME NEW k \in Piece, k # m
        PROVE  Owned(k)' <=> Owned(k)
    BY <1>0, <1>2, <1>7, <2>1 DEF Owned
  <2>2. Owned(m)'
    BY <1>7 DEF Owned
  <2>3. lent'[m] # None
    BY <1>0, <1>5, <1>6
  <2> QED BY <1>2, <1>6, <1>9, <2>1, <2>2, <2>3 DEF MemoriesAccounted
<1>14. Memories!RoomIsMemory'
  <2>1. \A p \in existing \ dropped : p \in Owner \ {o}
    BY <1>2
  <2>2. \A p \in existing' \ dropped' : p = o \/ p \in existing \ dropped
    BY <1>2
  <2>3. /\ m_written'[o] <= m_capacity'[o] /\ m_memory'[o] # None
    BY <1>0, <1>3, <1>7, <1>8
  <2> QED BY <1>2, <1>7, <1>8, <2>1, <2>2, <2>3 DEF Memories!RoomIsMemory
<1> QED BY <1>2, <1>6, <1>10, <1>11, <1>12, <1>13, <1>14

LEMMA MemoriesStep ==
    ASSUME MemoriesInv, Memories!Next
    PROVE  MemoriesInv'
<1> USE DEF MemoriesInv
<1>0. None \notin Piece /\ existing \subseteq Owner /\ dropped \subseteq existing
  BY ClassAssumptions
  DEF ClassAssumptions, Memories!MemoryAssumption, Memories!TypeOK
<1>1. ASSUME NEW o \in Owner, NEW from \in Owner,
             Memories!MoveConstruct(o, from)
      PROVE  MemoriesInv'
  <2>1. /\ o \notin existing /\ from \in existing
        /\ existing' = existing \cup {o} /\ Memories!Moved(o, from)
        /\ UNCHANGED <<kind, lent, returned, wrongly, given_up>>
    BY <1>1 DEF Memories!MoveConstruct, Memories!memory
  <2>2. Memories!GivenBack(o)
    BY <2>1 DEF Memories!GivenBack, Memories!TypeOK
  <2> QED BY <2>1, <2>2, MemoryMoved
<1>2. ASSUME NEW o \in Owner, NEW from \in Owner, Memories!MoveAssign(o, from)
      PROVE  MemoriesInv'
  <2>1. /\ o \in existing /\ from \in existing /\ o # from
        /\ existing' = existing /\ Memories!Moved(o, from)
        /\ Memories!GivenBack(o) /\ UNCHANGED <<kind, lent, given_up>>
    BY <1>2 DEF Memories!MoveAssign
  <2>2. existing' = existing \cup {o}
    BY <2>1
  <2> QED BY <2>1, <2>2, MemoryMoved
<1>3. ASSUME NEW o \in Owner, Memories!Release(o)
      PROVE  MemoriesInv'
  <2>1. /\ o \in existing /\ kind # "allocator_ptr" /\ Memories!GivenBack(o)
        /\ m_memory' = [m_memory EXCEPT ![o] = None]
        /\ UNCHANGED <<kind, existing, m_alloc, lent, given_up>>
    BY <1>3 DEF Memories!Release
  <2>2. /\ m_capacity' \in [Owner -> Nat] /\ m_written' \in [Owner -> Nat]
        /\ \A p \in Owner \ {o} : /\ m_capacity'[p] = m_capacity[p]
                                  /\ m_written'[p] = m_written[p]
        /\ dropped' \subseteq existing /\ dropped \subseteq dropped'
        /\ o \in dropped' \/ (m_capacity'[o] = 0 /\ m_written'[o] = 0)
    BY <1>0, <1>3 DEF Memories!Release, Memories!TypeOK
  <2>3. /\ MemoriesApart' /\ MemoriesAccounted' /\ OwnersRemember'
        /\ ~wrongly' /\ lent' \in [Piece -> Loans \cup {None}]
    BY <2>1, <2>2, OwnerEmptied
  <2>4. returned' \in [Piece -> Nat] /\ wrongly' \in BOOLEAN
    BY <2>1, GivesBackOnce
  <2>5. /\ m_memory' \in [Owner -> Piece \cup {None}] /\ m_memory'[o] = None
        /\ \A p \in Owner \ {o} : m_memory'[p] = m_memory[p]
    BY <2>1 DEF Memories!TypeOK
  <2>6. Memories!TypeOK'
    BY <2>1, <2>2, <2>4, <2>5 DEF Memories!TypeOK
  <2>7. Memories!RoomIsMemory'
    BY <1>0, <2>1, <2>2, <2>5 DEF Memories!RoomIsMemory
  <2> QED BY <2>3, <2>6, <2>7
<1>4. ASSUME NEW o \in Owner, Memories!GiveUp(o)
      PROVE  MemoriesInv'
  <2>1. /\ kind = "allocator_ptr"
        /\ given_up' = given_up \cup ({m_memory[o]} \ {None})
        /\ m_memory' = [m_memory EXCEPT ![o] = None]
        /\ UNCHANGED <<kind, existing, m_alloc, m_capacity, m_written, dropped,
                       lent, returned, wrongly>>
    BY <1>4 DEF Memories!GiveUp
  <2>2. /\ m_memory' \in [Owner -> Piece \cup {None}] /\ m_memory'[o] = None
        /\ \A p \in Owner \ {o} : m_memory'[p] = m_memory[p]
    BY <2>1 DEF Memories!TypeOK
  <2>3. Memories!TypeOK'
    BY <2>1, <2>2 DEF Memories!TypeOK
  <2>4. MemoriesApart' /\ OwnersRemember'
    BY <2>1, <2>2 DEF MemoriesApart, OwnersRemember, Memories!Loan
  <2>5. Memories!RoomIsMemory'
    BY <2>1 DEF Memories!RoomIsMemory
  <2>6. ASSUME NEW m \in Piece
        PROVE  /\ Owned(m)' <=> Owned(m) /\ m_memory[o] # m
               /\ m \in given_up' <=> m \in given_up \/ m_memory[o] = m
               /\ m_memory[o] = m => Owned(m)
    BY <1>0, <2>1, <2>2 DEF Owned, MemoriesApart
  <2>7. MemoriesAccounted'
    <3> SUFFICES ASSUME NEW m \in Piece
                 PROVE  /\ lent[m] = None => /\ ~Owned(m)' /\ returned[m] = 0
                                             /\ m \notin given_up'
                        /\ lent[m] # None =>
                             \/ /\ Owned(m)' /\ returned[m] = 0
                                /\ m \notin given_up'
                             \/ /\ ~Owned(m)' /\ returned[m] = 1
                                /\ m \notin given_up'
                             \/ /\ ~Owned(m)' /\ returned[m] = 0
                                /\ m \in given_up'
      BY <2>1 DEF MemoriesAccounted
    <3> QED BY <2>6 DEF MemoriesAccounted
  <2> QED BY <2>1, <2>3, <2>4, <2>5, <2>7
<1>5. ASSUME NEW o \in Owner, NEW n \in Sizes, Memories!CommitWrite(o, n)
      PROVE  MemoriesInv'
  <2>1. /\ n <= m_capacity[o] - m_written[o]
        /\ m_written' = [m_written EXCEPT ![o] = m_written[o] + n]
        /\ UNCHANGED <<kind, existing, m_memory, m_alloc, m_capacity, dropped,
                       lent, returned, wrongly, given_up>>
    BY <1>5 DEF Memories!CommitWrite, Memories!left, Memories!memory
  <2>2. n \in Nat
    BY ClassAssumptions DEF ClassAssumptions, Memories!MemoryAssumption
  <2>3. /\ m_written' \in [Owner -> Nat]
        /\ m_written'[o] <= m_capacity[o]
        /\ \A p \in Owner \ {o} : m_written'[p] = m_written[p]
    BY <2>1, <2>2 DEF Memories!TypeOK
  <2>4. Memories!TypeOK'
    BY <2>1, <2>3 DEF Memories!TypeOK
  <2>5. Memories!RoomIsMemory'
    BY <1>0, <2>1, <2>3 DEF Memories!RoomIsMemory
  <2>6. MemoriesApart' /\ OwnersRemember' /\ MemoriesAccounted'
    BY <2>1 DEF MemoriesApart, OwnersRemember, MemoriesAccounted, Owned,
                Memories!Loan
  <2> QED BY <2>1, <2>4, <2>5, <2>6
<1>6. ASSUME NEW o \in Owner, Memories!Destroy(o)
      PROVE  MemoriesInv'
  <2>1. /\ existing' = existing \ {o} /\ dropped' = dropped \ {o}
        /\ Memories!GivenBack(o)
        /\ m_memory' = [m_memory EXCEPT ![o] = None]
        /\ UNCHANGED <<kind, lent, given_up>>
    BY <1>6 DEF Memories!Destroy
  <2>2. /\ m_alloc' \in [Owner -> Allocator \cup {None}]
        /\ m_capacity' \in [Owner -> Nat] /\ m_written' \in [Owner -> Nat]
        /\ \A p \in Owner \ {o} : /\ m_alloc'[p] = m_alloc[p]
                                  /\ m_capacity'[p] = m_capacity[p]
                                  /\ m_written'[p] = m_written[p]
    BY <1>6 DEF Memories!Destroy, Memories!TypeOK
  <2>3. /\ MemoriesApart' /\ MemoriesAccounted' /\ OwnersRemember'
        /\ ~wrongly' /\ lent' \in [Piece -> Loans \cup {None}]
    BY <2>1, <2>2, OwnerEmptied
  <2>4. returned' \in [Piece -> Nat] /\ wrongly' \in BOOLEAN
    BY <2>1, GivesBackOnce
  <2>5. /\ m_memory' \in [Owner -> Piece \cup {None}] /\ m_memory'[o] = None
        /\ \A p \in Owner \ {o} : m_memory'[p] = m_memory[p]
    BY <2>1 DEF Memories!TypeOK
  <2>6. Memories!TypeOK'
    BY <1>0, <2>1, <2>2, <2>4, <2>5 DEF Memories!TypeOK
  <2>7. Memories!RoomIsMemory'
    BY <1>0, <2>1, <2>2, <2>5 DEF Memories!RoomIsMemory
  <2> QED BY <2>3, <2>6, <2>7
<1> QED
  BY <1>1, <1>2, <1>3, <1>4, <1>5, <1>6, MemoryLent DEF Memories!Next

LEMMA MemoriesUnchanged ==
    ASSUME MemoriesInv, UNCHANGED owned_memory
    PROVE  MemoriesInv'
BY DEF owned_memory, MemoriesInv, Memories!TypeOK, MemoriesApart,
       MemoriesAccounted, Owned, OwnersRemember, Memories!Loan,
       Memories!RoomIsMemory

LEMMA MemoriesInit == ASSUME Memories!Init PROVE MemoriesInv
BY ClassAssumptions
DEF ClassAssumptions, Memories!MemoryAssumption, Memories!Init, MemoriesInv,
    Memories!TypeOK, MemoriesApart, MemoriesAccounted, Owned, OwnersRemember,
    Memories!RoomIsMemory

\* page, buffer_block and allocator_ptr: memory, moved between owners, released,
\* given up and replaced in any order, goes back once, to the allocator it came
\* from and with the size asked for, and no owner offers what it has not.
THEOREM MemoryGoesBackOnce == Spec => []BlocksReturned
<1>1. Init => MemoriesInv
  BY MemoriesInit DEF Init
<1>2. MemoriesInv /\ [Next]_vars => MemoriesInv'
  BY MemoriesStep, MemoriesUnchanged DEF Next, vars
<1> QED BY <1>1, <1>2, MemoriesInvSafe, PTL DEF Spec
-----------------------------------------------------------------------------
(* callback_promise                                                         *)

PromiseTypes ==
    /\ m_ex \in [Promise!Place -> Exception \cup {None}]
    /\ m_value \in [Promise!Place -> Held \cup {None}]
    /\ alive \subseteq Promise!Place
    /\ \A p \in Promise!Place \ alive : m_ex[p] = None /\ m_value[p] = None
    /\ step \in {"idle", "ff", "argument", "parameter", "leaving"}
    /\ failing \in BOOLEAN /\ thrown \in BOOLEAN /\ careless \in BOOLEAN
    /\ taken \subseteq raised /\ raised \subseteq Exception
    /\ ended \in {"no", "asserted", "terminated"}

\* An exception is in one frame, nobody has taken it, and it was given.
HeldApart ==
    /\ \A p, q \in Promise!Place : m_ex[p] = m_ex[q] /\ m_ex[p] # None => p = q
    /\ \A p \in Promise!Place : m_ex[p] # None =>
           m_ex[p] \in raised /\ m_ex[p] \notin taken

NotLost ==
    ended # "terminated" =>
        \A e \in raised : e \in taken \/ \E p \in Promise!Place : m_ex[p] = e

\* Of the frames of a call, the one that the call has come to may have the
\* exception; a careless callback may leave it in its parameter.
WhereTheCallIs ==
    \A p \in {"ff", "argument", "parameter"} :
        m_ex[p] # None => \/ step = p
                          \/ p = "parameter" /\ step = "leaving" /\ careless

ThrowsWithCare ==
    /\ step # "leaving" => ~thrown
    /\ step = "idle" => ~failing
    /\ thrown /\ failing => careless
    /\ ~careless => ended = "no"

PromiseInv ==
    PromiseTypes /\ HeldApart /\ NotLost /\ WhereTheCallIs /\ ThrowsWithCare

LEMMA PromiseInvSafe ==
    ASSUME PromiseInv
    PROVE  Promise!ExceptionsDelivered /\ Promise!NeverEnds
<1> USE DEF PromiseInv
<1>0. None \notin Exception
  BY ClassAssumptions DEF ClassAssumptions, Promise!CallbackAssumption
<1>1. Promise!TypeOK
  BY DEF PromiseTypes, Promise!TypeOK
<1>2. Promise!ExceptionNeverLost
  BY <1>0 DEF PromiseTypes, NotLost, Promise!ExceptionNeverLost
<1>3. ASSUME NEW e \in Exception
      PROVE  Cardinality({p \in alive : m_ex[p] = e})
                <= IF e \in taken THEN 0 ELSE 1
  <2> DEFINE T == {p \in alive : m_ex[p] = e}
  <2>1. CASE T = {}
    BY <2>1, FS_EmptySet
  <2>2. CASE T # {}
    <3>1. PICK p \in T : TRUE
      BY <2>2
    <3>2. T = {p} /\ e \notin taken
      BY <1>0, <3>1 DEF PromiseTypes, HeldApart
    <3>3. Cardinality({p}) = 1
      BY FS_Singleton
    <3> QED BY <3>2, <3>3
  <2> QED BY <2>1, <2>2
<1>4. Promise!ExceptionHeldOnce
  BY <1>3 DEF Promise!ExceptionHeldOnce, Promise!Cardinality, Cardinality
<1>5. Promise!NeverEnds
  BY DEF ThrowsWithCare, Promise!NeverEnds
<1> QED BY <1>1, <1>2, <1>4, <1>5 DEF Promise!ExceptionsDelivered

\* A frame moved to a place that holds no exception.
LEMMA FrameMoved ==
    ASSUME PromiseInv, NEW from \in Promise!Place, NEW to \in Promise!Place,
           from # to, m_ex[to] = None, Promise!Moved(from, to),
           UNCHANGED <<raised, taken, ended>>
    PROVE  /\ HeldApart' /\ NotLost'
           /\ m_ex' \in [Promise!Place -> Exception \cup {None}]
           /\ m_value' \in [Promise!Place -> Held \cup {None}]
           /\ alive' = alive \cup {to}
           /\ \A p \in Promise!Place \ alive' : m_ex'[p] = None /\ m_value'[p] = None
           /\ m_ex'[from] = None /\ m_ex'[to] = m_ex[from]
           /\ \A p \in Promise!Place \ {from, to} : m_ex'[p] = m_ex[p]
<1> USE DEF PromiseInv
<1>1. /\ m_ex' \in [Promise!Place -> Exception \cup {None}]
      /\ m_value' \in [Promise!Place -> Held \cup {None}]
      /\ alive' = alive \cup {to}
      /\ m_ex'[from] = None /\ m_ex'[to] = m_ex[from]
      /\ m_value'[from] = None
      /\ \A p \in Promise!Place \ {from, to} :
             m_ex'[p] = m_ex[p] /\ m_value'[p] = m_value[p]
  BY DEF Promise!Moved, PromiseTypes
<1>2. \A p \in Promise!Place \ alive' : m_ex'[p] = None /\ m_value'[p] = None
  BY <1>1 DEF PromiseTypes
<1>3. HeldApart'
  BY <1>1 DEF HeldApart
<1>4. NotLost'
  <2>1. \A p \in Promise!Place : \E q \in Promise!Place :
            m_ex[p] # None => m_ex'[q] = m_ex[p]
    BY <1>1
  <2>2. None \notin raised
    BY ClassAssumptions
    DEF ClassAssumptions, Promise!CallbackAssumption, PromiseTypes
  <2> QED BY <2>1, <2>2 DEF NotLost
<1> QED BY <1>1, <1>2, <1>3, <1>4

\* A frame destroyed while the program runs.
LEMMA FrameDestroyed ==
    ASSUME PromiseInv, NEW p \in Promise!Place, ended = "no",
           Promise!Destroyed(p), UNCHANGED <<raised, taken>>
    PROVE  /\ HeldApart' /\ NotLost'
           /\ m_ex' \in [Promise!Place -> Exception \cup {None}]
           /\ m_value' \in [Promise!Place -> Held \cup {None}]
           /\ alive' = alive \ {p}
           /\ \A q \in Promise!Place \ alive' : m_ex'[q] = None /\ m_value'[q] = None
           /\ \A q \in Promise!Place : m_ex'[q] # None => m_ex'[q] = m_ex[q]
           /\ ended' = IF m_ex[p] # None THEN "terminated" ELSE "no"
<1> USE DEF PromiseInv
<1>1. /\ m_ex' \in [Promise!Place -> Exception \cup {None}]
      /\ m_value' \in [Promise!Place -> Held \cup {None}]
      /\ alive' = alive \ {p}
      /\ m_ex'[p] = None /\ m_value'[p] = None
      /\ \A q \in Promise!Place \ {p} :
             m_ex'[q] = m_ex[q] /\ m_value'[q] = m_value[q]
      /\ ended' = IF m_ex[p] # None THEN "terminated" ELSE "no"
  BY DEF Promise!Destroyed, Promise!EndAfter, PromiseTypes
<1>2. \A q \in Promise!Place \ alive' : m_ex'[q] = None /\ m_value'[q] = None
  BY <1>1 DEF PromiseTypes
<1>3. HeldApart'
  BY <1>1 DEF HeldApart
<1>4. NotLost'
  BY <1>1 DEF NotLost
<1> QED BY <1>1, <1>2, <1>3, <1>4

LEMMA PromiseStep ==
    ASSUME PromiseInv, Promise!Next
    PROVE  PromiseInv'
<1> USE DEF PromiseInv
<1>0. None \notin Exception \cup Held
  BY ClassAssumptions DEF ClassAssumptions, Promise!CallbackAssumption
<1>1. ASSUME NEW v \in Held, Promise!SetValue(v)
      PROVE  PromiseInv'
  BY <1>1
  DEF Promise!SetValue, Promise!history, PromiseTypes, HeldApart, NotLost,
      WhereTheCallIs, ThrowsWithCare, Promise!Place
<1>2. ASSUME Promise!SetValueThrows
      PROVE  PromiseInv'
  BY <1>2
  DEF Promise!SetValueThrows, Promise!history, PromiseTypes, HeldApart, NotLost,
      WhereTheCallIs, ThrowsWithCare, Promise!Place
<1>3. ASSUME Promise!SetVoid
      PROVE  PromiseInv'
  BY <1>3
  DEF Promise!SetVoid, Promise!history, PromiseTypes, HeldApart, NotLost,
      WhereTheCallIs, ThrowsWithCare, Promise!Place
<1>4. ASSUME NEW e \in Exception, Promise!SetException(e)
      PROVE  PromiseInv'
  <2>1. /\ ended = "no" /\ step = "idle" /\ e \notin raised
        /\ alive' = alive \cup {"ff"} /\ step' = "ff"
        /\ m_ex' = [m_ex EXCEPT !["ff"] = e]
        /\ failing' = TRUE /\ raised' = raised \cup {e}
        /\ UNCHANGED <<m_value, thrown, taken, ended, careless>>
    BY <1>4 DEF Promise!SetException
  <2>2. m_ex["ff"] = None /\ "ff" \in Promise!Place
    BY <2>1 DEF WhereTheCallIs, Promise!Place
  <2>3. PromiseTypes'
    BY <2>1, <2>2 DEF PromiseTypes
  <2>4. HeldApart' /\ NotLost'
    <3>1. m_ex'["ff"] = e /\ \A p \in Promise!Place \ {"ff"} : m_ex'[p] = m_ex[p]
      BY <2>1, <2>2 DEF PromiseTypes
    <3>2. \A p \in Promise!Place : m_ex[p] # e
      BY <1>0, <2>1 DEF HeldApart
    <3>3. e \notin taken
      BY <2>1 DEF PromiseTypes
    <3>4. HeldApart'
      BY <2>1, <3>1, <3>2, <3>3 DEF HeldApart
    <3>5. \A d \in raised : d # None
      BY <1>0 DEF PromiseTypes
    <3>6. NotLost'
      BY <2>1, <2>2, <3>1, <3>5 DEF NotLost
    <3> QED BY <3>4, <3>6
  <2>5. WhereTheCallIs' /\ ThrowsWithCare'
    BY <2>1 DEF WhereTheCallIs, ThrowsWithCare, PromiseTypes, Promise!Place
  <2> QED BY <2>3, <2>4, <2>5
<1>5. ASSUME Promise!Pass
      PROVE  PromiseInv'
  <2>1. PICK from \in {"ff", "argument"}, to \in {"argument", "parameter"} :
            /\ from = "ff" <=> to = "argument"
            /\ step = from /\ Promise!Moved(from, to) /\ step' = to
            /\ UNCHANGED <<failing, thrown, raised, taken, ended, careless>>
    BY <1>5 DEF Promise!Pass, Promise!history
  <2>2. /\ from \in Promise!Place /\ to \in Promise!Place /\ from # to
        /\ m_ex[to] = None
    BY <2>1 DEF WhereTheCallIs, Promise!Place
  <2>3. /\ HeldApart' /\ NotLost'
        /\ m_ex' \in [Promise!Place -> Exception \cup {None}]
        /\ m_value' \in [Promise!Place -> Held \cup {None}]
        /\ alive' = alive \cup {to}
        /\ \A p \in Promise!Place \ alive' : m_ex'[p] = None /\ m_value'[p] = None
        /\ m_ex'[from] = None
        /\ \A p \in Promise!Place \ {from, to} : m_ex'[p] = m_ex[p]
    BY <2>1, <2>2, FrameMoved
  <2>4. PromiseTypes'
    BY <2>1, <2>2, <2>3 DEF PromiseTypes
  <2>5. WhereTheCallIs'
    BY <2>1, <2>3 DEF WhereTheCallIs, Promise!Place
  <2>6. ThrowsWithCare'
    BY <2>1 DEF ThrowsWithCare
  <2> QED BY <2>3, <2>4, <2>5, <2>6
<1>6. ASSUME NEW p \in {"parameter", "kept"}, Promise!ReadValue(p)
      PROVE  PromiseInv'
  BY <1>6
  DEF Promise!ReadValue, Promise!Reachable, Promise!Careless, Promise!frames,
      PromiseTypes, HeldApart, NotLost, WhereTheCallIs, ThrowsWithCare
<1>7. ASSUME NEW p \in {"parameter", "kept"}, Promise!GetException(p)
      PROVE  PromiseInv'
  <2>1. /\ p \in alive /\ p \in Promise!Place /\ m_ex[p] # None
        /\ taken' = taken \cup {m_ex[p]}
        /\ m_ex' = [m_ex EXCEPT ![p] = None]
        /\ UNCHANGED <<m_value, alive, step, failing, thrown, raised, ended,
                       careless>>
    BY <1>7
    DEF Promise!GetException, Promise!Reachable, Promise!safely_done, PromiseTypes
  <2>2. m_ex'[p] = None /\ \A q \in Promise!Place \ {p} : m_ex'[q] = m_ex[q]
    BY <2>1 DEF PromiseTypes
  <2>3. PromiseTypes'
    BY <2>1, <2>2 DEF PromiseTypes, HeldApart
  <2>4. HeldApart' /\ NotLost'
    BY <2>1, <2>2 DEF HeldApart, NotLost
  <2>5. WhereTheCallIs' /\ ThrowsWithCare'
    BY <2>1, <2>2 DEF WhereTheCallIs, ThrowsWithCare, Promise!Place
  <2> QED BY <2>3, <2>4, <2>5
<1>8. ASSUME Promise!Keep
      PROVE  PromiseInv'
  <2>1. /\ step = "parameter" /\ "kept" \notin alive
        /\ Promise!Moved("parameter", "kept")
        /\ UNCHANGED <<step, failing, thrown, raised, taken, ended, careless>>
        /\ "parameter" \in Promise!Place /\ "kept" \in Promise!Place
    BY <1>8 DEF Promise!Keep, Promise!Reachable, Promise!history, Promise!Place
  <2>2. m_ex["kept"] = None
    BY <2>1 DEF PromiseTypes
  <2>3. /\ HeldApart' /\ NotLost'
        /\ m_ex' \in [Promise!Place -> Exception \cup {None}]
        /\ m_value' \in [Promise!Place -> Held \cup {None}]
        /\ alive' = alive \cup {"kept"}
        /\ \A p \in Promise!Place \ alive' : m_ex'[p] = None /\ m_value'[p] = None
        /\ m_ex'["parameter"] = None
        /\ \A p \in Promise!Place \ {"parameter", "kept"} : m_ex'[p] = m_ex[p]
    BY <2>1, <2>2, FrameMoved
  <2>4. PromiseTypes'
    BY <2>1, <2>3 DEF PromiseTypes
  <2>5. WhereTheCallIs'
    BY <2>1, <2>3 DEF WhereTheCallIs, Promise!Place
  <2>6. ThrowsWithCare'
    BY <2>1 DEF ThrowsWithCare
  <2> QED BY <2>3, <2>4, <2>5, <2>6
<1>9. ASSUME Promise!Return
      PROVE  PromiseInv'
  BY <1>9
  DEF Promise!Return, Promise!Reachable, Promise!Careless, Promise!safely_done,
      Promise!frames, PromiseTypes, HeldApart, NotLost, WhereTheCallIs,
      ThrowsWithCare
<1>10. ASSUME Promise!Throw
       PROVE  PromiseInv'
  BY <1>10
  DEF Promise!Throw, Promise!Reachable, Promise!Careless, Promise!safely_done,
      Promise!frames, PromiseTypes, HeldApart, NotLost, WhereTheCallIs,
      ThrowsWithCare
<1>11. ASSUME NEW p \in {"parameter", "argument", "ff"}, Promise!Leave(p)
       PROVE  PromiseInv'
  <2>1. /\ ended = "no" /\ step = "leaving" /\ p \in Promise!Place
        /\ Promise!Destroyed(p)
        /\ UNCHANGED <<step, failing, thrown, raised, taken, careless>>
    BY <1>11 DEF Promise!Leave, Promise!Place
  <2>2. /\ HeldApart' /\ NotLost'
        /\ m_ex' \in [Promise!Place -> Exception \cup {None}]
        /\ m_value' \in [Promise!Place -> Held \cup {None}]
        /\ alive' = alive \ {p}
        /\ \A q \in Promise!Place \ alive' : m_ex'[q] = None /\ m_value'[q] = None
        /\ \A q \in Promise!Place : m_ex'[q] # None => m_ex'[q] = m_ex[q]
        /\ ended' = IF m_ex[p] # None THEN "terminated" ELSE "no"
    BY <2>1, FrameDestroyed
  <2>3. m_ex[p] # None => careless
    BY <2>1 DEF WhereTheCallIs
  <2>4. PromiseTypes'
    BY <2>1, <2>2 DEF PromiseTypes
  <2>5. WhereTheCallIs' /\ ThrowsWithCare'
    BY <2>1, <2>2, <2>3 DEF WhereTheCallIs, ThrowsWithCare, Promise!Place
  <2> QED BY <2>2, <2>4, <2>5
<1>12. ASSUME Promise!BackToCaller
       PROVE  PromiseInv'
  <2>1. /\ ended = "no" /\ alive \subseteq {"kept"}
        /\ ended' = IF thrown /\ failing THEN "terminated" ELSE ended
        /\ step' = "idle" /\ thrown' = FALSE /\ failing' = FALSE
        /\ UNCHANGED <<m_ex, m_value, alive, raised, taken, careless>>
    BY <1>12 DEF Promise!BackToCaller, Promise!frames
  <2>2. \A p \in {"ff", "argument", "parameter"} : m_ex[p] = None
    BY <2>1 DEF PromiseTypes, Promise!Place
  <2>3. PromiseTypes' /\ HeldApart' /\ NotLost'
    BY <2>1 DEF PromiseTypes, HeldApart, NotLost
  <2>4. WhereTheCallIs' /\ ThrowsWithCare'
    BY <2>1, <2>2 DEF WhereTheCallIs, ThrowsWithCare
  <2> QED BY <2>3, <2>4
<1>13. ASSUME Promise!DropKept
       PROVE  PromiseInv'
  <2>1. /\ ended = "no" /\ "kept" \in Promise!Place
        /\ careless' = (careless \/ m_ex["kept"] # None)
        /\ Promise!Destroyed("kept")
        /\ UNCHANGED <<step, failing, thrown, raised, taken>>
    BY <1>13
    DEF Promise!DropKept, Promise!Reachable, Promise!Careless,
        Promise!safely_done, Promise!Place
  <2>2. /\ HeldApart' /\ NotLost'
        /\ m_ex' \in [Promise!Place -> Exception \cup {None}]
        /\ m_value' \in [Promise!Place -> Held \cup {None}]
        /\ alive' = alive \ {"kept"}
        /\ \A q \in Promise!Place \ alive' : m_ex'[q] = None /\ m_value'[q] = None
        /\ \A q \in Promise!Place : m_ex'[q] # None => m_ex'[q] = m_ex[q]
        /\ ended' = IF m_ex["kept"] # None THEN "terminated" ELSE "no"
    BY <2>1, FrameDestroyed
  <2>3. PromiseTypes'
    BY <2>1, <2>2 DEF PromiseTypes
  <2>4. WhereTheCallIs' /\ ThrowsWithCare'
    BY <2>1, <2>2 DEF WhereTheCallIs, ThrowsWithCare, Promise!Place, PromiseTypes
  <2> QED BY <2>2, <2>3, <2>4
<1> QED
  BY <1>1, <1>2, <1>3, <1>4, <1>5, <1>6, <1>7, <1>8, <1>9, <1>10, <1>11, <1>12,
     <1>13
  DEF Promise!Next

LEMMA PromiseUnchanged ==
    ASSUME PromiseInv, UNCHANGED promise
    PROVE  PromiseInv'
BY DEF promise, PromiseInv, PromiseTypes, HeldApart, NotLost, WhereTheCallIs,
       ThrowsWithCare

LEMMA PromiseInit == ASSUME Promise!Init PROVE PromiseInv
BY DEF Promise!Init, PromiseInv, PromiseTypes, HeldApart, NotLost,
       WhereTheCallIs, ThrowsWithCare, Promise!Place

LEMMA PromiseAlways == Spec => []PromiseInv
<1>1. Init => PromiseInv
  BY PromiseInit DEF Init
<1>2. PromiseInv /\ [Next]_vars => PromiseInv'
  BY PromiseStep, PromiseUnchanged DEF Next, vars
<1> QED BY <1>1, <1>2, PTL DEF Spec

\* callback_promise: whatever a callback takes, keeps, throws and leaves
\* behind, an exception is in one frame until it is taken, or the program ends.
THEOREM ExceptionsAlwaysDelivered == Spec => []ExceptionsDelivered
<1>1. PromiseInv => ExceptionsDelivered
  BY PromiseInvSafe DEF ExceptionsDelivered
<1> QED BY <1>1, PromiseAlways, PTL

\* callback_promise: callbacks that are never careless never end the program.
THEOREM CarefulCallbacksNeverEnd == Spec => []NeverEnds
<1>1. PromiseInv => NeverEnds
  BY PromiseInvSafe DEF NeverEnds
<1> QED BY <1>1, PromiseAlways, PTL

-----------------------------------------------------------------------------
(* uuid                                                                     *)

\* The text that an object keeps is finished, and its identifier's.
KeepsItsText(o) == /\ m_str[o] # Uuids!Empty /\ m_str[o] # Uuids!Zeros
                   /\ m_str[o].of = m_uuid[o]

UuidTypes == /\ Uuids!TypeOK
             /\ self \in [Thread -> Object \cup {None}]
             /\ DOMAIN answer = Thread

InsideAlone ==
    \A t, u \in Thread :
        at[t] # "out" /\ at[u] # "out" /\ self[t] = self[u] => t = u

\* What a thread in to_string() finds, line by line.
TextByLine ==
    \A t \in Thread :
        /\ at[t] = "check" => m_str[self[t]] = Uuids!Empty \/ KeepsItsText(self[t])
        /\ at[t] = "resize" => m_str[self[t]] = Uuids!Empty
        /\ at[t] = "view" => KeepsItsText(self[t])

TextBetweenCalls ==
    \A o \in Object :
        \/ m_uuid[o] = None \/ m_str[o] = Uuids!Empty \/ KeepsItsText(o)
        \/ \E t \in Thread : at[t] # "out" /\ self[t] = o

UuidInv == /\ UuidTypes /\ InsideAlone /\ TextByLine /\ TextBetweenCalls
           /\ Uuids!AnswersText

LEMMA UuidInvSafe ==
    ASSUME UuidInv
    PROVE  TextsRight
<1>1. Uuids!TextIsOfIdentifier
  BY DEF UuidInv, TextBetweenCalls, KeepsItsText, Uuids!TextIsOfIdentifier,
         Uuids!Live, Uuids!Inside
<1> QED BY <1>1 DEF UuidInv, UuidTypes, TextsRight, Uuids!TextsRight

\* An object that no thread is in is given an identifier and a text, or loses
\* its text; the others stay what they were.
LEMMA IdentifierGiven ==
    ASSUME UuidInv, NEW o \in Object, NEW other \in Object,
           Uuids!Inside(o) = {}, Uuids!Inside(other) = {},
           m_uuid' \in [Object -> Id \cup {None}],
           m_str' \in [Object -> Uuids!Texts],
           generated' \subseteq Id,
           \/ m_uuid'[o] = None \/ m_str'[o] = Uuids!Empty
           \/ KeepsItsText(o)',
           \/ m_uuid'[other] = None \/ m_str'[other] = Uuids!Empty
           \/ KeepsItsText(other)',
           \A p \in Object \ {o, other} :
               m_uuid'[p] = m_uuid[p] /\ m_str'[p] = m_str[p],
           UNCHANGED Uuids!client
    PROVE  UuidInv'
<1> USE DEF UuidInv, UuidTypes
<1>1. UNCHANGED <<at, self, answer>>
  BY DEF Uuids!client
<1>2. \A t \in Thread : at[t] # "out" =>
          /\ self[t] \in Object \ {o, other} /\ m_uuid[self[t]] # None
  BY DEF Uuids!Inside, Uuids!TypeOK, Uuids!Live
<1>3. \A p \in Object \ {o, other} : KeepsItsText(p)' <=> KeepsItsText(p)
  BY DEF KeepsItsText
<1>4. Uuids!TypeOK'
  BY <1>1, <1>2 DEF Uuids!TypeOK, Uuids!Live
<1>5. UuidTypes' /\ InsideAlone'
  BY <1>1, <1>4 DEF InsideAlone
<1>6. TextByLine'
  BY <1>1, <1>2, <1>3 DEF TextByLine
<1>7. TextBetweenCalls'
  <2>1. \A p \in Object \ {o, other} :
            \/ m_uuid'[p] = None \/ m_str'[p] = Uuids!Empty \/ KeepsItsText(p)'
            \/ \E t \in Thread : at'[t] # "out" /\ self'[t] = p
    BY <1>1, <1>3 DEF TextBetweenCalls
  <2> QED BY <2>1 DEF TextBetweenCalls
<1>8. Uuids!AnswersText'
  BY <1>1 DEF Uuids!AnswersText
<1> QED BY <1>5, <1>6, <1>7, <1>8

LEMMA UuidStep ==
    ASSUME UuidInv, Uuids!Next
    PROVE  UuidInv'
<1> USE DEF UuidInv, UuidTypes
<1>0. None \notin Id /\ "canonical" \in Spelling
  BY ClassAssumptions DEF ClassAssumptions, Uuids!UuidAssumption
<1>a. /\ m_uuid \in [Object -> Id \cup {None}]
      /\ m_str \in [Object -> Uuids!Texts] /\ generated \subseteq Id
      /\ Uuids!Empty \in Uuids!Texts /\ Uuids!Zeros \in Uuids!Texts
      /\ \A t \in Thread : at[t] # "out" =>
             self[t] \in Object /\ m_uuid[self[t]] \in Id
  BY DEF Uuids!TypeOK, Uuids!Live, Uuids!Texts
<1>b. ASSUME NEW id \in Id, NEW s \in Spelling
      PROVE  /\ Uuids!Text(id, s) \in Uuids!Texts
             /\ Uuids!Text(id, s).of = id
             /\ Uuids!Text(id, s) # Uuids!Empty
             /\ Uuids!Text(id, s) # Uuids!Zeros
  <2>1. /\ Uuids!Text(id, s) \in [of : Id, spelling : Spelling]
        /\ Uuids!Text(id, s).of = id
    BY DEF Uuids!Text
  <2>2. Uuids!Empty.of = None /\ Uuids!Zeros.of = None
    BY DEF Uuids!Empty, Uuids!Zeros, Uuids!Text
  <2> QED BY <1>0, <2>1, <2>2 DEF Uuids!Texts
<1>c. ASSUME NEW o \in Object, o \notin Uuids!Live
      PROVE  Uuids!Inside(o) = {}
  BY <1>0, <1>a, <1>c DEF Uuids!Inside, Uuids!Live
<1>1. ASSUME NEW o \in Object, Uuids!Generate(o)
      PROVE  UuidInv'
  <2>1. PICK id \in Id \ generated :
            /\ Uuids!Becomes(o, id, Uuids!Empty)
            /\ generated' = generated \cup {id}
    BY <1>1 DEF Uuids!Generate
  <2>2. /\ m_uuid' \in [Object -> Id \cup {None}]
        /\ m_str' \in [Object -> Uuids!Texts] /\ m_str'[o] = Uuids!Empty
        /\ \A p \in Object \ {o} :
               m_uuid'[p] = m_uuid[p] /\ m_str'[p] = m_str[p]
    BY <1>a, <2>1 DEF Uuids!Becomes
  <2>3. /\ Uuids!Inside(o) = {} /\ UNCHANGED Uuids!client
        /\ generated' \subseteq Id
    BY <1>1, <1>a, <1>c, <2>1 DEF Uuids!Generate
  <2> QED BY <2>2, <2>3, IdentifierGiven
<1>2. ASSUME NEW o \in Object, Uuids!Parse(o)
      PROVE  UuidInv'
  <2>1. PICK id \in Id, s \in Spelling : Uuids!Becomes(o, id, Uuids!Text(id, s))
    BY <1>2 DEF Uuids!Parse
  <2>2. /\ m_uuid' \in [Object -> Id \cup {None}]
        /\ m_str' \in [Object -> Uuids!Texts]
        /\ m_str'[o] = Uuids!Text(id, s) /\ m_uuid'[o] = id
        /\ \A p \in Object \ {o} :
               m_uuid'[p] = m_uuid[p] /\ m_str'[p] = m_str[p]
    BY <1>a, <1>b, <2>1 DEF Uuids!Becomes
  <2>3. KeepsItsText(o)'
    BY <1>b, <2>2 DEF KeepsItsText
  <2>4. /\ Uuids!Inside(o) = {} /\ UNCHANGED Uuids!client
        /\ generated' \subseteq Id
    BY <1>2, <1>a, <1>c, <2>1 DEF Uuids!Parse
  <2> QED BY <2>2, <2>3, <2>4, IdentifierGiven
<1>3. ASSUME NEW o \in Object, NEW other \in Object, Uuids!Copy(o, other)
      PROVE  UuidInv'
  <2>1. /\ m_uuid' \in [Object -> Id \cup {None}]
        /\ m_str' \in [Object -> Uuids!Texts]
        /\ m_str'[o] = m_str[other] /\ m_uuid'[o] = m_uuid[other]
        /\ \A p \in Object \ {o} :
               m_uuid'[p] = m_uuid[p] /\ m_str'[p] = m_str[p]
    BY <1>3, <1>a DEF Uuids!Copy, Uuids!Becomes
  <2>2. /\ Uuids!Inside(o) = {} /\ Uuids!Inside(other) = {}
        /\ UNCHANGED Uuids!client /\ generated' \subseteq Id
    BY <1>3, <1>a DEF Uuids!Copy
  <2>3. \/ m_uuid[other] = None \/ m_str[other] = Uuids!Empty
        \/ KeepsItsText(other)
    BY <2>2 DEF TextBetweenCalls, Uuids!Inside
  <2>4. /\ \/ m_uuid'[o] = None \/ m_str'[o] = Uuids!Empty
           \/ KeepsItsText(o)'
        /\ \/ m_uuid'[other] = None \/ m_str'[other] = Uuids!Empty
           \/ KeepsItsText(other)'
    BY <2>1, <2>3 DEF KeepsItsText
  <2> QED BY <2>1, <2>2, <2>4, IdentifierGiven
<1>4. ASSUME NEW o \in Object, NEW other \in Object, Uuids!Move(o, other)
      PROVE  UuidInv'
  <2>1. /\ m_uuid' \in [Object -> Id \cup {None}]
        /\ m_str' \in [Object -> Uuids!Texts]
        /\ m_uuid'[o] = m_uuid[other] /\ m_str'[other] = Uuids!Empty
        /\ o # other => m_str'[o] = m_str[other]
        /\ \A p \in Object \ {o, other} :
               m_uuid'[p] = m_uuid[p] /\ m_str'[p] = m_str[p]
    BY <1>4, <1>a DEF Uuids!Move
  <2>2. /\ Uuids!Inside(o) = {} /\ Uuids!Inside(other) = {}
        /\ UNCHANGED Uuids!client /\ generated' \subseteq Id
    BY <1>4, <1>a DEF Uuids!Move
  <2>3. \/ m_uuid[other] = None \/ m_str[other] = Uuids!Empty
        \/ KeepsItsText(other)
    BY <2>2 DEF TextBetweenCalls, Uuids!Inside
  <2>4. \/ m_uuid'[o] = None \/ m_str'[o] = Uuids!Empty \/ KeepsItsText(o)'
    BY <2>1, <2>3 DEF KeepsItsText
  <2> QED BY <2>1, <2>2, <2>4, IdentifierGiven
<1>5. ASSUME NEW o \in Object, Uuids!Destroy(o)
      PROVE  UuidInv'
  <2>1. /\ m_uuid' \in [Object -> Id \cup {None}]
        /\ m_str' \in [Object -> Uuids!Texts] /\ m_uuid'[o] = None
        /\ \A p \in Object \ {o} :
               m_uuid'[p] = m_uuid[p] /\ m_str'[p] = m_str[p]
    BY <1>5, <1>a DEF Uuids!Destroy, Uuids!Becomes
  <2>2. /\ Uuids!Inside(o) = {} /\ UNCHANGED Uuids!client
        /\ generated' \subseteq Id
    BY <1>5, <1>a DEF Uuids!Destroy
  <2> QED BY <2>1, <2>2, IdentifierGiven
<1>6. ASSUME NEW t \in Thread, NEW o \in Object, Uuids!Call(t, o)
      PROVE  UuidInv'
  <2>1. /\ at[t] = "out" /\ o \in Uuids!Live /\ Uuids!Inside(o) = {}
        /\ at' = [at EXCEPT ![t] = "check"] /\ self' = [self EXCEPT ![t] = o]
        /\ UNCHANGED <<m_uuid, m_str, generated, answer>>
    BY <1>6 DEF Uuids!Call, Uuids!Usable, Uuids!Goes
  <2>2. /\ at'[t] = "check" /\ self'[t] = o
        /\ \A u \in Thread \ {t} : at'[u] = at[u] /\ self'[u] = self[u]
    BY <2>1 DEF Uuids!TypeOK
  <2>3. UuidTypes'
    BY <2>1, <2>2 DEF Uuids!TypeOK, Uuids!Live
  <2>4. InsideAlone'
    BY <2>1, <2>2 DEF InsideAlone, Uuids!Inside
  <2>5. \A p : KeepsItsText(p)' <=> KeepsItsText(p)
    BY <2>1 DEF KeepsItsText
  <2>6. m_str[o] = Uuids!Empty \/ KeepsItsText(o)
    BY <2>1 DEF TextBetweenCalls, Uuids!Inside, Uuids!Live
  <2>7. TextByLine'
    BY <2>1, <2>2, <2>5, <2>6 DEF TextByLine
  <2>8. TextBetweenCalls'
    BY <2>1, <2>2, <2>5 DEF TextBetweenCalls
  <2> QED BY <2>1, <2>3, <2>4, <2>7, <2>8 DEF Uuids!AnswersText
\* A thread goes on, in the object that it is in, and may write its text.
<1>7. ASSUME NEW t \in Thread, NEW line \in {"resize", "unparse", "view"},
             NEW s \in Uuids!Texts,
             at[t] # "out", at' = [at EXCEPT ![t] = line],
             m_str' = [m_str EXCEPT ![self[t]] = s],
             line = "resize" => s = Uuids!Empty,
             line = "view" => /\ s # Uuids!Empty /\ s # Uuids!Zeros
                              /\ s.of = m_uuid[self[t]],
             UNCHANGED <<m_uuid, self, generated, answer>>
      PROVE  UuidInv'
  <2> DEFINE o == self[t]
  <2>1. o \in Object
    BY <1>a, <1>7
  <2>2. /\ at'[t] = line /\ m_str' \in [Object -> Uuids!Texts]
        /\ m_str'[o] = s /\ \A p \in Object \ {o} : m_str'[p] = m_str[p]
        /\ \A u \in Thread \ {t} : at'[u] = at[u]
    BY <1>a, <1>7, <2>1 DEF Uuids!TypeOK
  <2>3. UuidTypes'
    BY <1>7, <2>2 DEF Uuids!TypeOK, Uuids!Live
  <2>4. InsideAlone'
    BY <1>7, <2>2 DEF InsideAlone
  <2>5. \A u \in Thread \ {t} : at[u] # "out" => self[u] \in Object \ {o}
    BY <1>a, <1>7 DEF InsideAlone
  <2>6. \A p \in Object \ {o} : KeepsItsText(p)' <=> KeepsItsText(p)
    BY <1>7, <2>2 DEF KeepsItsText
  <2>7. line = "view" => KeepsItsText(o)'
    BY <1>7, <2>2 DEF KeepsItsText
  <2>8. TextByLine'
    <3>1. \A u \in Thread \ {t} :
              /\ at'[u] = "check" => \/ m_str'[self'[u]] = Uuids!Empty
                                     \/ KeepsItsText(self[u])'
              /\ at'[u] = "resize" => m_str'[self'[u]] = Uuids!Empty
              /\ at'[u] = "view" => KeepsItsText(self[u])'
      BY <1>7, <2>2, <2>5, <2>6 DEF TextByLine
    <3>2. /\ at'[t] # "check"
          /\ at'[t] = "resize" => m_str'[self'[t]] = Uuids!Empty
          /\ at'[t] = "view" => KeepsItsText(self[t])'
      BY <1>7, <2>2, <2>7
    <3> QED BY <1>7, <3>1, <3>2 DEF TextByLine, KeepsItsText
  <2>9. TextBetweenCalls'
    <3>1. \A p \in Object \ {o} :
              \/ m_uuid'[p] = None \/ m_str'[p] = Uuids!Empty \/ KeepsItsText(p)'
              \/ \E u \in Thread : at'[u] # "out" /\ self'[u] = p
      BY <1>7, <2>2, <2>6 DEF TextBetweenCalls
    <3>2. at'[t] # "out" /\ self'[t] = o
      BY <1>7, <2>2
    <3> QED BY <3>1, <3>2 DEF TextBetweenCalls
  <2> QED BY <1>7, <2>3, <2>4, <2>8, <2>9 DEF Uuids!AnswersText
<1>8. ASSUME NEW t \in Thread, Uuids!Check(t)
      PROVE  UuidInv'
  <2>1. /\ at[t] = "check" /\ self[t] \in Object
        /\ UNCHANGED <<m_uuid, m_str, self, generated, answer>>
        /\ at' = [at EXCEPT ![t] = IF m_str[self[t]] = Uuids!Empty
                                   THEN "resize" ELSE "view"]
    BY <1>8, <1>a DEF Uuids!Check, Uuids!Goes
  <2>2. /\ m_str[self[t]] \in Uuids!Texts
        /\ m_str' = [m_str EXCEPT ![self[t]] = m_str[self[t]]]
    BY <1>a, <2>1
  <2>3. m_str[self[t]] = Uuids!Empty \/ KeepsItsText(self[t])
    BY <2>1 DEF TextByLine
  <2>4. CASE m_str[self[t]] = Uuids!Empty
    BY <1>7, <2>1, <2>2, <2>4
  <2>5. CASE m_str[self[t]] # Uuids!Empty
    BY <1>7, <2>1, <2>2, <2>3, <2>5 DEF KeepsItsText
  <2> QED BY <2>4, <2>5
<1>9. ASSUME NEW t \in Thread, Uuids!Resize(t)
      PROVE  UuidInv'
  BY <1>7, <1>9, <1>a DEF Uuids!Resize, Uuids!Goes
<1>10. ASSUME NEW t \in Thread, Uuids!Unparse(t)
       PROVE  UuidInv'
  <2>1. /\ at[t] = "unparse" /\ at' = [at EXCEPT ![t] = "view"]
        /\ m_str' = [m_str EXCEPT ![self[t]] =
                         Uuids!Text(m_uuid[self[t]], "canonical")]
        /\ UNCHANGED <<m_uuid, self, generated, answer>>
    BY <1>10 DEF Uuids!Unparse, Uuids!Goes
  <2>2. PICK s : s = Uuids!Text(m_uuid[self[t]], "canonical")
    OBVIOUS
  <2>3. /\ s \in Uuids!Texts /\ s # Uuids!Empty /\ s # Uuids!Zeros
        /\ s.of = m_uuid[self[t]]
    BY <1>0, <1>a, <1>b, <2>1, <2>2
  <2> QED BY <1>7, <2>1, <2>2, <2>3
<1>11. ASSUME NEW t \in Thread, Uuids!View(t)
       PROVE  UuidInv'
  <2>1. /\ at[t] = "view" /\ at' = [at EXCEPT ![t] = "out"]
        /\ self' = [self EXCEPT ![t] = None]
        /\ answer' = [answer EXCEPT ![t] = [id   |-> m_uuid[self[t]],
                                            text |-> m_str[self[t]]]]
        /\ UNCHANGED <<m_uuid, m_str, generated>>
    BY <1>11 DEF Uuids!View, Uuids!Goes
  <2>2. /\ at'[t] = "out"
        /\ \A u \in Thread \ {t} : at'[u] = at[u] /\ self'[u] = self[u]
    BY <2>1 DEF Uuids!TypeOK
  <2>3. UuidTypes'
    BY <2>1, <2>2 DEF Uuids!TypeOK, Uuids!Live
  <2>4. InsideAlone'
    BY <2>2 DEF InsideAlone
  <2>5. \A p : KeepsItsText(p)' <=> KeepsItsText(p)
    BY <2>1 DEF KeepsItsText
  <2>6. KeepsItsText(self[t])
    BY <2>1 DEF TextByLine
  <2>7. TextByLine'
    BY <2>1, <2>2, <2>5 DEF TextByLine
  <2>8. TextBetweenCalls'
    <3> SUFFICES ASSUME NEW p \in Object
                 PROVE  \/ m_uuid'[p] = None \/ m_str'[p] = Uuids!Empty
                        \/ KeepsItsText(p)'
                        \/ \E u \in Thread : at'[u] # "out" /\ self'[u] = p
      BY DEF TextBetweenCalls
    <3> QED BY <2>1, <2>2, <2>5, <2>6 DEF TextBetweenCalls
  <2>9. Uuids!AnswersText'
    <3>1. /\ answer'[t].id = m_uuid[self[t]] /\ answer'[t].text = m_str[self[t]]
          /\ \A u \in Thread \ {t} : answer'[u] = answer[u]
      BY <2>1
    <3> QED BY <2>6, <3>1 DEF Uuids!AnswersText, KeepsItsText
  <2> QED BY <2>3, <2>4, <2>7, <2>8, <2>9
<1> QED
  BY <1>1, <1>2, <1>3, <1>4, <1>5, <1>6, <1>8, <1>9, <1>10, <1>11
  DEF Uuids!Next

LEMMA UuidUnchanged ==
    ASSUME UuidInv, UNCHANGED uuid
    PROVE  UuidInv'
BY DEF uuid, UuidInv, UuidTypes, Uuids!TypeOK, Uuids!Live, InsideAlone,
       TextByLine, TextBetweenCalls, KeepsItsText, Uuids!AnswersText

LEMMA UuidInit == ASSUME Uuids!Init PROVE UuidInv
BY ClassAssumptions
DEF ClassAssumptions, Uuids!UuidAssumption, Uuids!Init, UuidInv, UuidTypes,
    Uuids!TypeOK, Uuids!Live, Uuids!Texts, InsideAlone, TextByLine,
    TextBetweenCalls, KeepsItsText, Uuids!AnswersText

\* uuid: as long as a thread has an object for itself while to_string() fills
\* it, the text that an object keeps, copied, moved and assigned to however
\* often, is of the identifier it has, and no answer is unfinished.
THEOREM TextsAlwaysRight == Spec => []TextsRight
<1>1. Init => UuidInv
  BY UuidInit DEF Init
<1>2. UuidInv /\ [Next]_vars => UuidInv'
  BY UuidStep, UuidUnchanged DEF Next, vars
<1> QED BY <1>1, <1>2, UuidInvSafe, PTL DEF Spec

-----------------------------------------------------------------------------
(* skip_list, moved and assigned                                            *)

\* A value in a list was made by a list that still exists.
MakersExist ==
    \A v \in Element : holder[v] # None => m_list[v] \in listed

ListsFinite == \A l \in List : IsFiniteSet(Lists!In(l))

ListsInv == /\ Lists!TypeOK /\ Lists!DemadeOnce /\ Lists!TravelsWhole
            /\ MakersExist /\ ListsFinite

LEMMA ListsCardinality == \A S : Lists!Cardinality(S) = Cardinality(S)
BY DEF Lists!Cardinality, Cardinality

\* What clear() finds in a list, with or without sentinels, is all of it.
LEMMA ClearsAll ==
    ASSUME ListsInv, NEW l \in List
    PROVE  Lists!Cleared(l) = Lists!In(l)
BY DEF ListsInv, Lists!TravelsWhole, Lists!Cleared

LEMMA ListsEmpty ==
    ASSUME NEW l \in List, m_size[l] = 0, Lists!In(l) = {}
    PROVE  /\ m_size[l] = Lists!Cardinality(Lists!In(l))
           /\ IsFiniteSet(Lists!In(l))
BY ListsCardinality, FS_EmptySet

\* Values destroyed when they leave their list, and not gone astray.
LEMMA ValuesDemade ==
    ASSUME ListsInv, NEW vs, \A v \in vs : v \in Element /\ holder[v] # None,
           Lists!Demade(vs)
    PROVE  /\ demade' \in [Element -> Nat] /\ astray' = FALSE
           /\ \A v \in Element : demade'[v] = IF v \in vs THEN 1 ELSE demade[v]
<1> USE DEF ListsInv
<1>1. /\ demade' = [v \in Element |-> IF v \in vs THEN demade[v] + 1
                                                  ELSE demade[v]]
      /\ astray' = (astray \/ \E v \in vs : m_list[v] \notin listed)
  BY DEF Lists!Demade
<1>2. \A v \in vs : demade[v] = 0 /\ m_list[v] \in listed
  BY DEF Lists!DemadeOnce, MakersExist
<1>3. astray' = FALSE
  BY <1>1, <1>2 DEF Lists!DemadeOnce
<1> QED BY <1>1, <1>2, <1>3 DEF Lists!TypeOK

\* The values of a set of lists leave them, and are destroyed.
LEMMA FreedOnce ==
    ASSUME ListsInv, NEW vs, \A v \in vs : v \in Element /\ holder[v] # None,
           Lists!Demade(vs), UNCHANGED m_list,
           holder' \in [Element -> List \cup {None}],
           \A v \in Element : holder'[v] = None <=> holder[v] = None \/ v \in vs
    PROVE  Lists!DemadeOnce'
<1> USE DEF ListsInv
<1>1. /\ astray' = FALSE
      /\ \A v \in Element : demade'[v] = IF v \in vs THEN 1 ELSE demade[v]
  BY ValuesDemade
<1>2. None \notin List
  BY ClassAssumptions DEF ClassAssumptions, Lists!MovesAssumption
<1>3. \A v \in vs : v \in Element /\ m_list[v] # None
  BY <1>2 DEF MakersExist, Lists!TypeOK
<1> QED BY <1>1, <1>3 DEF Lists!DemadeOnce

\* The level that is left without a value: no node of the list is higher.
LEMMA LevelLeft ==
    ASSUME ListsInv, NEW l \in List, NEW v \in Element, m_head[l] # 0
    PROVE  /\ Lists!LevelWithout(l, v) \in Nat
           /\ Lists!LevelWithout(l, v) <= m_head[l]
           /\ \A w \in Lists!In(l) \ {v} : height[w] <= Lists!LevelWithout(l, v)
<1> USE DEF ListsInv
<1> DEFINE T == {height[w] : w \in Lists!In(l) \ {v}} \cup {0}
<1>1. /\ m_head[l] \in Nat
      /\ \A w \in Lists!In(l) : height[w] \in Nat /\ height[w] <= m_head[l]
  <2>1. m_head[l] \in Nat /\ m_level[l] \in Nat
    BY ClassAssumptions
    DEF ClassAssumptions, Lists!MovesAssumption, Lists!TypeOK
  <2>2. \A w \in Lists!In(l) : w \in Element /\ height[w] \in Nat
    BY DEF Lists!In, Lists!TypeOK
  <2> QED BY <2>1, <2>2 DEF Lists!TravelsWhole
<1>2. IsFiniteSet(T)
  <2>1. IsFiniteSet(Lists!In(l) \ {v})
    BY FS_Subset DEF ListsFinite
  <2>2. IsFiniteSet({height[w] : w \in Lists!In(l) \ {v}})
    <3> DEFINE S == Lists!In(l) \ {v}
               f == [w \in S |-> height[w]]
    <3>1. f \in Surjection(S, {height[w] : w \in S})
      BY DEF Surjection
    <3> QED BY <2>1, <3>1, FS_Surjection
  <2> QED BY <2>2, FS_AddElement
<1>3. T \subseteq Int /\ T # {} /\ \A i \in T : i \in Nat /\ i <= m_head[l]
  BY <1>1
<1>4. \E i \in T : \A j \in T : j <= i
  BY <1>2, <1>3, HasGreatest
<1>5. Lists!Max(T) \in T /\ \A j \in T : j <= Lists!Max(T)
  <2> HIDE DEF T
  <2>1. Lists!Max(T) = CHOOSE i \in T : \A j \in T : i >= j
    BY DEF Lists!Max
  <2>2. \E i \in T : \A j \in T : i >= j
    BY <1>3, <1>4
  <2>3. Lists!Max(T) \in T /\ \A j \in T : Lists!Max(T) >= j
    BY <2>1, <2>2
  <2> QED BY <1>3, <2>3
<1>6. Lists!LevelWithout(l, v) = Lists!Max(T)
  BY DEF Lists!LevelWithout
<1> QED BY <1>3, <1>5, <1>6

\* A list that exists is cleared, and whatever happens to its levels then.
LEMMA ListEmptied ==
    ASSUME ListsInv, NEW l \in listed, Lists!Demade(Lists!Cleared(l)),
           holder' = [v \in Element |-> IF v \in Lists!Cleared(l) THEN None
                                        ELSE holder[v]],
           m_size' = [m_size EXCEPT ![l] = 0],
           m_head' \in [List -> MaxLevels \cup {0}],
           m_max_level' \in [List -> MaxLevels \cup {0}],
           m_level' \in [List -> Nat],
           \A k \in List \ {l} : /\ m_head'[k] = m_head[k]
                                 /\ m_max_level'[k] = m_max_level[k]
                                 /\ m_level'[k] = m_level[k],
           m_head'[l] # 0 => /\ l \in listed' /\ m_max_level'[l] = m_head'[l]
                             /\ m_level'[l] <= m_head'[l],
           listed' \subseteq listed, listed \ {l} \subseteq listed',
           l \in listed' \/ Lists!MadeElsewhere(l) = {},
           UNCHANGED <<m_list, height>>
    PROVE  ListsInv'
<1> USE DEF ListsInv
<1>0. l \in List /\ None \notin List /\ Lists!Cleared(l) = Lists!In(l)
  BY ClearsAll, ClassAssumptions
  DEF ClassAssumptions, Lists!MovesAssumption, Lists!TypeOK
<1>1. /\ holder' \in [Element -> List \cup {None}]
      /\ \A v \in Element : holder'[v] = IF holder[v] = l THEN None
                                                          ELSE holder[v]
  BY <1>0 DEF Lists!In, Lists!TypeOK
<1>2. /\ Lists!In(l)' = {}
      /\ \A k \in List \ {l} : Lists!In(k)' = Lists!In(k)
  BY <1>0, <1>1 DEF Lists!In
<1>3. \A v \in Lists!In(l) : v \in Element /\ holder[v] # None
  BY <1>0 DEF Lists!In
<1>4. demade' \in [Element -> Nat] /\ astray' = FALSE
  BY <1>0, <1>3, ValuesDemade
<1>5. Lists!DemadeOnce'
  BY <1>0, <1>1, <1>3, FreedOnce DEF Lists!In
<1>6. /\ m_size' \in [List -> Nat] /\ m_size'[l] = 0
      /\ \A k \in List \ {l} : m_size'[k] = m_size[k]
  BY <1>0 DEF Lists!TypeOK
<1>7. Lists!TypeOK'
  BY <1>0, <1>1, <1>4, <1>6 DEF Lists!TypeOK
<1>8. MakersExist'
  BY <1>0, <1>1 DEF MakersExist, Lists!MadeElsewhere, Lists!In
<1>9. ListsFinite'
  BY <1>2, FS_EmptySet DEF ListsFinite
<1>10. ASSUME NEW k \in List
       PROVE  /\ m_size'[k] = Lists!Cardinality(Lists!In(k)')
              /\ m_head'[k] = 0 => Lists!In(k)' = {}
              /\ m_head'[k] # 0 =>
                    /\ m_max_level'[k] = m_head'[k]
                    /\ m_level'[k] <= m_head'[k]
                    /\ \A v \in Lists!In(k)' : height'[v] <= m_level'[k]
  <2>1. CASE k = l
    BY <1>2, <1>6, <2>1, ListsCardinality, FS_EmptySet
  <2>2. CASE k # l
    BY <1>2, <1>6, <2>2 DEF Lists!TravelsWhole
  <2> QED BY <2>1, <2>2
<1>11. Lists!TravelsWhole'
  BY <1>10 DEF Lists!TravelsWhole, Lists!In, Lists!Cardinality
<1> QED BY <1>5, <1>7, <1>8, <1>9, <1>11

\* What from has goes to l, which was cleared.
LEMMA ListMoved ==
    ASSUME ListsInv, NEW l \in List, NEW from \in listed, l # from,
           listed' = listed \cup {l}, Lists!Handed(l, from),
           Lists!Demade(Lists!Cleared(l)),
           holder' = [v \in Element |->
                         IF v \in Lists!Cleared(l) THEN None
                         ELSE IF v \in Lists!In(from) THEN l ELSE holder[v]],
           UNCHANGED <<m_list, height>>
    PROVE  ListsInv'
<1> USE DEF ListsInv
<1>0. from \in List /\ None \notin List /\ Lists!Cleared(l) = Lists!In(l)
  BY ClearsAll, ClassAssumptions
  DEF ClassAssumptions, Lists!MovesAssumption, Lists!TypeOK
<1>1. /\ holder' \in [Element -> List \cup {None}]
      /\ \A v \in Element : holder'[v] = IF holder[v] = l THEN None
                                         ELSE IF holder[v] = from THEN l
                                         ELSE holder[v]
  BY <1>0 DEF Lists!In, Lists!TypeOK
<1>2. /\ Lists!In(l)' = Lists!In(from) /\ Lists!In(from)' = {}
      /\ \A k \in List \ {l, from} : Lists!In(k)' = Lists!In(k)
  BY <1>0, <1>1 DEF Lists!In
<1>3. \A v \in Lists!In(l) : v \in Element /\ holder[v] # None
  BY <1>0 DEF Lists!In
<1>4. demade' \in [Element -> Nat] /\ astray' = FALSE
  BY <1>0, <1>3, ValuesDemade
<1>5. Lists!DemadeOnce'
  <2>1. \A v \in Element :
            holder'[v] = None <=> holder[v] = None \/ v \in Lists!In(l)
    BY <1>0, <1>1 DEF Lists!In
  <2> QED BY <1>0, <1>1, <1>3, <2>1, FreedOnce
<1>6. /\ m_head' \in [List -> MaxLevels \cup {0}]
      /\ m_max_level' \in [List -> MaxLevels \cup {0}]
      /\ m_level' \in [List -> Nat] /\ m_size' \in [List -> Nat]
      /\ m_head'[l] = m_head[from] /\ m_head'[from] = 0
      /\ m_max_level'[l] = m_max_level[from]
      /\ m_level'[l] = m_level[from] /\ m_size'[l] = m_size[from]
      /\ m_size'[from] = 0
      /\ \A k \in List \ {l, from} : /\ m_head'[k] = m_head[k]
                                     /\ m_max_level'[k] = m_max_level[k]
                                     /\ m_level'[k] = m_level[k]
                                     /\ m_size'[k] = m_size[k]
  BY <1>0 DEF Lists!Handed, Lists!TypeOK
<1>7. Lists!TypeOK'
  BY <1>0, <1>1, <1>4, <1>6 DEF Lists!TypeOK
<1>8. MakersExist'
  BY <1>0, <1>1 DEF MakersExist
<1>9. ListsFinite'
  <2>1. \A k \in List : IsFiniteSet(Lists!In(k)')
    BY <1>0, <1>2, FS_EmptySet DEF ListsFinite
  <2> QED BY <2>1 DEF ListsFinite, Lists!In
<1>10. ASSUME NEW k \in List
       PROVE  /\ m_size'[k] = Lists!Cardinality(Lists!In(k)')
              /\ m_head'[k] = 0 => Lists!In(k)' = {}
              /\ m_head'[k] # 0 =>
                    /\ m_max_level'[k] = m_head'[k]
                    /\ m_level'[k] <= m_head'[k]
                    /\ \A v \in Lists!In(k)' : height'[v] <= m_level'[k]
  <2>1. CASE k = l
    BY <1>0, <1>2, <1>6, <2>1 DEF Lists!TravelsWhole
  <2>2. CASE k = from
    BY <1>2, <1>6, <2>2, ListsCardinality, FS_EmptySet
  <2>3. CASE k # l /\ k # from
    BY <1>2, <1>6, <2>3 DEF Lists!TravelsWhole
  <2> QED BY <2>1, <2>2, <2>3
<1>11. Lists!TravelsWhole'
  BY <1>10 DEF Lists!TravelsWhole, Lists!In, Lists!Cardinality
<1> QED BY <1>5, <1>7, <1>8, <1>9, <1>11

LEMMA ValueInserted ==
    ASSUME ListsInv, NEW l \in List, NEW v \in Element, Lists!Insert(l, v)
    PROVE  ListsInv'
<1> USE DEF ListsInv
<1>0. /\ None \notin List
      /\ \A n \in MaxLevels : n \in Nat /\ n > 1
  BY ClassAssumptions DEF ClassAssumptions, Lists!MovesAssumption
<1>1. PICK n \in 1 .. m_max_level[l] - 1 :
          /\ height' = [height EXCEPT ![v] = n]
          /\ m_level' = [m_level EXCEPT ![l] = IF n > m_level[l] THEN n
                                               ELSE m_level[l]]
  BY DEF Lists!Insert
<1>2. /\ m_head[l] # 0 /\ l \in listed /\ m_list[v] = None /\ holder[v] = None
      /\ holder' = [holder EXCEPT ![v] = l] /\ m_list' = [m_list EXCEPT ![v] = l]
      /\ m_size' = [m_size EXCEPT ![l] = m_size[l] + 1]
      /\ UNCHANGED <<listed, m_head, m_max_level, demade, astray>>
  <2>1. m_head[l] > 0 /\ m_list[v] = None
    BY DEF Lists!Insert
  <2>2. m_head[l] # 0 /\ l \in listed
    BY <1>0, <2>1 DEF Lists!TypeOK
  <2>3. holder[v] = None
    BY <1>0, <2>1 DEF MakersExist, Lists!TypeOK
  <2> QED BY <2>1, <2>2, <2>3 DEF Lists!Insert
<1>3. /\ m_max_level[l] = m_head[l] /\ m_head[l] \in Nat /\ n \in Nat
      /\ n <= m_head[l] /\ m_level[l] \in Nat /\ m_level[l] <= m_head[l]
  BY <1>0, <1>2 DEF Lists!TravelsWhole, Lists!TypeOK
<1>4. /\ height' \in [Element -> Nat] /\ height'[v] = n
      /\ \A w \in Element \ {v} : height'[w] = height[w]
  BY <1>1, <1>3 DEF Lists!TypeOK
<1>5. /\ m_level' \in [List -> Nat] /\ m_level'[l] <= m_head[l]
      /\ m_level[l] <= m_level'[l] /\ n <= m_level'[l]
      /\ \A k \in List \ {l} : m_level'[k] = m_level[k]
  BY <1>1, <1>3 DEF Lists!TypeOK
<1>6. /\ holder' \in [Element -> List \cup {None}] /\ holder'[v] = l
      /\ m_list' \in [Element -> List \cup {None}] /\ m_list'[v] = l
      /\ m_size' \in [List -> Nat] /\ m_size'[l] = m_size[l] + 1
      /\ \A w \in Element \ {v} : holder'[w] = holder[w] /\ m_list'[w] = m_list[w]
      /\ \A k \in List \ {l} : m_size'[k] = m_size[k]
  BY <1>2 DEF Lists!TypeOK
<1>7. /\ Lists!In(l)' = Lists!In(l) \cup {v} /\ v \notin Lists!In(l)
      /\ \A k \in List \ {l} : Lists!In(k)' = Lists!In(k)
  BY <1>0, <1>2, <1>6 DEF Lists!In
<1>8. /\ Cardinality(Lists!In(l)') = Cardinality(Lists!In(l)) + 1
      /\ IsFiniteSet(Lists!In(l)')
  BY <1>7, FS_AddElement DEF ListsFinite
<1>9. Lists!TypeOK'
  BY <1>2, <1>4, <1>5, <1>6 DEF Lists!TypeOK
<1>10. Lists!DemadeOnce'
  BY <1>0, <1>2, <1>6 DEF Lists!DemadeOnce
<1>11. MakersExist'
  BY <1>2, <1>6 DEF MakersExist
<1>12. ListsFinite'
  <2>1. \A k \in List : IsFiniteSet(Lists!In(k)')
    BY <1>7, <1>8 DEF ListsFinite
  <2> QED BY <2>1 DEF ListsFinite, Lists!In
<1>13. ASSUME NEW k \in List
       PROVE  /\ m_size'[k] = Lists!Cardinality(Lists!In(k)')
              /\ m_head'[k] = 0 => Lists!In(k)' = {}
              /\ m_head'[k] # 0 =>
                    /\ m_max_level'[k] = m_head'[k]
                    /\ m_level'[k] <= m_head'[k]
                    /\ \A w \in Lists!In(k)' : height'[w] <= m_level'[k]
  <2>1. CASE k = l
    <3>1. m_size'[l] = Lists!Cardinality(Lists!In(l)')
      BY <1>6, <1>8, ListsCardinality DEF Lists!TravelsWhole
    <3>2. \A w \in Lists!In(l) : w \in Element \ {v} /\ height[w] \in Nat
      BY <1>7 DEF Lists!In, Lists!TypeOK
    <3>3. ASSUME NEW w \in Lists!In(l)
          PROVE  height'[w] <= m_level'[l]
      <4>1. height[w] <= m_level[l] /\ m_level'[l] \in Nat
        BY <1>2, <1>5 DEF Lists!TravelsWhole
      <4>2. height'[w] = height[w] /\ height[w] \in Nat
        BY <1>4, <3>2
      <4> QED BY <1>3, <1>5, <4>1, <4>2
    <3>4. \A w \in Lists!In(l)' : height'[w] <= m_level'[l]
      BY <1>4, <1>5, <1>7, <3>3
    <3> QED BY <1>2, <1>3, <1>5, <2>1, <3>1, <3>4
  <2>2. CASE k # l
    <3>1. \A w \in Lists!In(k) : w \in Element \ {v}
      BY <1>2, <1>0 DEF Lists!In
    <3> QED BY <1>2, <1>4, <1>5, <1>6, <1>7, <2>2, <3>1
            DEF Lists!TravelsWhole
  <2> QED BY <2>1, <2>2
<1>14. Lists!TravelsWhole'
  BY <1>13 DEF Lists!TravelsWhole, Lists!In, Lists!Cardinality
<1> QED BY <1>9, <1>10, <1>11, <1>12, <1>14

LEMMA ValueErased ==
    ASSUME ListsInv, NEW l \in List, NEW v \in Element, Lists!Erase(l, v)
    PROVE  ListsInv'
<1> USE DEF ListsInv
<1>0. /\ None \notin List
      /\ \A n \in MaxLevels : n \in Nat /\ n > 1
  BY ClassAssumptions DEF ClassAssumptions, Lists!MovesAssumption
<1>1. /\ v \in Lists!In(l) /\ holder[v] = l /\ Lists!Demade({v})
      /\ holder' = [holder EXCEPT ![v] = None]
      /\ m_level' = [m_level EXCEPT ![l] = Lists!LevelWithout(l, v)]
      /\ m_size' = [m_size EXCEPT ![l] = m_size[l] - 1]
      /\ UNCHANGED <<listed, m_head, m_max_level, m_list, height>>
  BY DEF Lists!Erase, Lists!In
<1>2. m_head[l] # 0
  BY <1>0 DEF Lists!Erase, Lists!TypeOK
<1>3. demade' \in [Element -> Nat] /\ astray' = FALSE
  BY <1>0, <1>1, ValuesDemade
<1>4. /\ holder' \in [Element -> List \cup {None}] /\ holder'[v] = None
      /\ \A w \in Element \ {v} : holder'[w] = holder[w]
  BY <1>1 DEF Lists!TypeOK
<1>5. Lists!DemadeOnce'
  BY <1>0, <1>1, <1>4, FreedOnce
<1>6. /\ Lists!In(l)' = Lists!In(l) \ {v}
      /\ \A k \in List \ {l} : Lists!In(k)' = Lists!In(k)
  BY <1>0, <1>1, <1>4 DEF Lists!In
<1>7. /\ Cardinality(Lists!In(l)') = Cardinality(Lists!In(l)) - 1
      /\ Cardinality(Lists!In(l)) \in Nat /\ Cardinality(Lists!In(l)) >= 1
      /\ IsFiniteSet(Lists!In(l)')
  BY <1>1, <1>6, OneLess, FS_RemoveElement DEF ListsFinite
<1>8. m_size[l] = Cardinality(Lists!In(l))
  BY ListsCardinality DEF Lists!TravelsWhole
<1>9. /\ m_size' \in [List -> Nat] /\ m_size'[l] = Cardinality(Lists!In(l)')
      /\ \A k \in List \ {l} : m_size'[k] = m_size[k]
  BY <1>1, <1>7, <1>8 DEF Lists!TypeOK
<1>10. /\ m_level' \in [List -> Nat] /\ m_level'[l] <= m_head[l]
       /\ \A w \in Lists!In(l) \ {v} : height[w] <= m_level'[l]
       /\ \A k \in List \ {l} : m_level'[k] = m_level[k]
  BY <1>1, <1>2, LevelLeft DEF Lists!TypeOK
<1>11. Lists!TypeOK'
  BY <1>1, <1>3, <1>4, <1>9, <1>10 DEF Lists!TypeOK
<1>12. MakersExist'
  BY <1>1, <1>4 DEF MakersExist
<1>13. ListsFinite'
  <2>1. \A k \in List : IsFiniteSet(Lists!In(k)')
    BY <1>6, <1>7 DEF ListsFinite
  <2> QED BY <2>1 DEF ListsFinite, Lists!In
<1>14. ASSUME NEW k \in List
       PROVE  /\ m_size'[k] = Lists!Cardinality(Lists!In(k)')
              /\ m_head'[k] = 0 => Lists!In(k)' = {}
              /\ m_head'[k] # 0 =>
                    /\ m_max_level'[k] = m_head'[k]
                    /\ m_level'[k] <= m_head'[k]
                    /\ \A w \in Lists!In(k)' : height'[w] <= m_level'[k]
  <2>1. CASE k = l
    BY <1>1, <1>2, <1>6, <1>9, <1>10, <2>1, ListsCardinality
    DEF Lists!TravelsWhole
  <2>2. CASE k # l
    BY <1>1, <1>6, <1>9, <1>10, <2>2 DEF Lists!TravelsWhole
  <2> QED BY <2>1, <2>2
<1>15. Lists!TravelsWhole'
  BY <1>14 DEF Lists!TravelsWhole, Lists!In, Lists!Cardinality
<1> QED BY <1>5, <1>11, <1>12, <1>13, <1>15

LEMMA ListsStep ==
    ASSUME ListsInv, Lists!Next
    PROVE  ListsInv'
<1> USE DEF ListsInv
<1>0. /\ None \notin List /\ \A n \in MaxLevels : n \in Nat /\ n > 1
  BY ClassAssumptions DEF ClassAssumptions, Lists!MovesAssumption
<1>1. ASSUME NEW l \in List, Lists!Construct(l)
      PROVE  ListsInv'
  <2>1. PICK n \in MaxLevels :
            /\ m_head' = [m_head EXCEPT ![l] = n]
            /\ m_max_level' = [m_max_level EXCEPT ![l] = n]
    BY <1>1 DEF Lists!Construct
  <2>2. /\ l \notin listed /\ listed' = listed \cup {l}
        /\ m_level' = [m_level EXCEPT ![l] = 1]
        /\ m_size' = [m_size EXCEPT ![l] = 0]
        /\ UNCHANGED <<holder, m_list, height, demade, astray>>
    BY <1>1 DEF Lists!Construct, Lists!values
  <2>3. m_head[l] = 0 /\ Lists!In(l) = {}
    BY <2>2 DEF Lists!TypeOK, Lists!TravelsWhole
  <2>4. \A k : Lists!In(k)' = Lists!In(k)
    BY <2>2 DEF Lists!In
  <2>5. /\ m_head' \in [List -> MaxLevels \cup {0}] /\ m_head'[l] = n
        /\ m_max_level' \in [List -> MaxLevels \cup {0}] /\ m_max_level'[l] = n
        /\ m_level' \in [List -> Nat] /\ m_level'[l] = 1
        /\ m_size' \in [List -> Nat] /\ m_size'[l] = 0
        /\ \A k \in List \ {l} : /\ m_head'[k] = m_head[k]
                                 /\ m_max_level'[k] = m_max_level[k]
                                 /\ m_level'[k] = m_level[k]
                                 /\ m_size'[k] = m_size[k]
    BY <2>1, <2>2 DEF Lists!TypeOK
  <2>6. Lists!TypeOK'
    BY <2>2, <2>5 DEF Lists!TypeOK
  <2>7. Lists!DemadeOnce' /\ MakersExist' /\ ListsFinite'
    BY <2>2, <2>4 DEF Lists!DemadeOnce, MakersExist, ListsFinite, Lists!In
  <2>8. ASSUME NEW k \in List
        PROVE  /\ m_size'[k] = Lists!Cardinality(Lists!In(k)')
               /\ m_head'[k] = 0 => Lists!In(k)' = {}
               /\ m_head'[k] # 0 =>
                     /\ m_max_level'[k] = m_head'[k]
                     /\ m_level'[k] <= m_head'[k]
                     /\ \A v \in Lists!In(k)' : height'[v] <= m_level'[k]
    <3>1. CASE k = l
      <4>1. Lists!In(k)' = {} /\ Lists!Cardinality(Lists!In(k)') = 0
        BY <2>3, <2>4, <3>1, ListsCardinality, FS_EmptySet
      <4>2. n \in Nat /\ n > 1
        BY <1>0
      <4> QED BY <2>5, <3>1, <4>1, <4>2
    <3>2. CASE k # l
      BY <2>2, <2>4, <2>5, <3>2 DEF Lists!TravelsWhole
    <3> QED BY <3>1, <3>2
  <2>9. Lists!TravelsWhole'
    BY <2>8 DEF Lists!TravelsWhole, Lists!In, Lists!Cardinality
  <2> QED BY <2>6, <2>7, <2>9
<1>2. ASSUME NEW l \in List, Lists!Clear(l)
      PROVE  ListsInv'
  <2>1. /\ m_head[l] # 0 /\ l \in listed /\ Lists!Demade(Lists!Cleared(l))
        /\ holder' = [v \in Element |-> IF v \in Lists!Cleared(l) THEN None
                                        ELSE holder[v]]
        /\ m_size' = [m_size EXCEPT ![l] = 0]
        /\ m_level' = [m_level EXCEPT ![l] = 1]
        /\ UNCHANGED <<listed, m_head, m_max_level, m_list, height>>
    BY <1>0, <1>2 DEF Lists!Clear, Lists!TypeOK
  <2>2. /\ m_level' \in [List -> Nat] /\ m_level'[l] = 1
        /\ \A k \in List \ {l} : m_level'[k] = m_level[k]
        /\ m_head[l] \in Nat /\ m_head[l] > 1 /\ m_max_level[l] = m_head[l]
    BY <1>0, <2>1 DEF Lists!TypeOK, Lists!TravelsWhole
  <2>3. /\ m_head' \in [List -> MaxLevels \cup {0}]
        /\ m_max_level' \in [List -> MaxLevels \cup {0}]
        /\ m_head'[l] # 0 => /\ l \in listed' /\ m_max_level'[l] = m_head'[l]
                             /\ m_level'[l] <= m_head'[l]
    BY <2>1, <2>2 DEF Lists!TypeOK
  <2> QED BY <2>1, <2>2, <2>3, ListEmptied
<1>3. ASSUME NEW l \in List, Lists!Destroy(l)
      PROVE  ListsInv'
  <2>1. /\ l \in listed /\ listed' = listed \ {l}
        /\ Lists!MadeElsewhere(l) = {} /\ Lists!Demade(Lists!Cleared(l))
        /\ holder' = [v \in Element |-> IF v \in Lists!Cleared(l) THEN None
                                        ELSE holder[v]]
        /\ m_size' = [m_size EXCEPT ![l] = 0]
        /\ UNCHANGED <<m_list, height>>
    BY <1>3 DEF Lists!Destroy
  <2>2. /\ m_head' \in [List -> MaxLevels \cup {0}] /\ m_head'[l] = 0
        /\ m_max_level' \in [List -> MaxLevels \cup {0}]
        /\ m_level' \in [List -> Nat]
        /\ \A k \in List \ {l} : /\ m_head'[k] = m_head[k]
                                 /\ m_max_level'[k] = m_max_level[k]
                                 /\ m_level'[k] = m_level[k]
    BY <1>3 DEF Lists!Destroy, Lists!TypeOK
  <2>3. listed' \subseteq listed /\ listed \ {l} \subseteq listed'
    BY <2>1
  <2> QED BY <2>1, <2>2, <2>3, ListEmptied
<1>4. ASSUME NEW l \in List, NEW from \in List, Lists!MoveConstruct(l, from)
      PROVE  ListsInv'
  <2>1. /\ l \notin listed /\ from \in listed /\ listed' = listed \cup {l}
        /\ Lists!Handed(l, from)
        /\ holder' = [v \in Element |-> IF v \in Lists!In(from) THEN l
                                        ELSE holder[v]]
        /\ UNCHANGED <<m_list, height, demade, astray>>
    BY <1>4 DEF Lists!MoveConstruct
  <2>2. Lists!Cleared(l) = {}
    BY <2>1 DEF Lists!TypeOK, Lists!Cleared
  <2>3. Lists!Demade({})
    BY <2>1 DEF Lists!Demade, Lists!TypeOK
  <2>4. holder' = [v \in Element |->
                      IF v \in {} THEN None
                      ELSE IF v \in Lists!In(from) THEN l ELSE holder[v]]
    BY <2>1
  <2> QED BY <2>1, <2>2, <2>3, <2>4, ListMoved
<1>5. ASSUME NEW l \in List, NEW from \in List, Lists!MoveAssign(l, from)
      PROVE  ListsInv'
  <2>1. /\ from \in listed /\ l # from /\ listed' = listed \cup {l}
        /\ Lists!Handed(l, from) /\ Lists!Demade(Lists!Cleared(l))
        /\ holder' = [v \in Element |->
                         IF v \in Lists!Cleared(l) THEN None
                         ELSE IF v \in Lists!In(from) THEN l ELSE holder[v]]
        /\ UNCHANGED <<m_list, height>>
    BY <1>5 DEF Lists!MoveAssign
  <2> QED BY <2>1, ListMoved
<1> QED
  BY <1>1, <1>2, <1>3, <1>4, <1>5, ValueInserted, ValueErased DEF Lists!Next

LEMMA ListsUnchanged ==
    ASSUME ListsInv, UNCHANGED skip_list
    PROVE  ListsInv'
<1>1. UNCHANGED <<listed, m_head, m_max_level, m_level, m_size, holder, m_list,
                  height, demade, astray>>
  BY DEF skip_list
<1>2. Lists!TypeOK' /\ Lists!DemadeOnce' /\ MakersExist'
  BY <1>1 DEF ListsInv, Lists!TypeOK, Lists!DemadeOnce, MakersExist
<1>3. \A l : Lists!In(l)' = Lists!In(l)
  BY <1>1 DEF Lists!In
<1>4. ListsFinite'
  BY <1>1, <1>3 DEF ListsInv, ListsFinite, Lists!In
<1>5. ASSUME NEW l \in List
      PROVE  /\ m_size'[l] = Lists!Cardinality(Lists!In(l)')
             /\ m_head'[l] = 0 => Lists!In(l)' = {}
             /\ m_head'[l] # 0 =>
                   /\ m_max_level'[l] = m_head'[l]
                   /\ m_level'[l] <= m_head'[l]
                   /\ \A v \in Lists!In(l)' : height'[v] <= m_level'[l]
  BY <1>1, <1>3 DEF ListsInv, Lists!TravelsWhole
<1>6. Lists!TravelsWhole'
  BY <1>5 DEF Lists!TravelsWhole, Lists!In, Lists!Cardinality
<1> QED BY <1>2, <1>4, <1>6 DEF ListsInv

LEMMA ListsInit == ASSUME Lists!Init PROVE ListsInv
<1>0. None \notin List
  BY ClassAssumptions DEF ClassAssumptions, Lists!MovesAssumption
<1>1. \A l \in List : Lists!In(l) = {}
  BY <1>0 DEF Lists!Init, Lists!In
<1>2. Lists!TypeOK /\ Lists!DemadeOnce /\ MakersExist
  BY DEF Lists!Init, Lists!TypeOK, Lists!DemadeOnce, MakersExist
<1>3. ListsFinite /\ \A l \in List : Lists!Cardinality(Lists!In(l)) = 0
  BY <1>1, ListsCardinality, FS_EmptySet DEF ListsFinite
<1>4. Lists!TravelsWhole
  BY <1>1, <1>3 DEF Lists!Init, Lists!TravelsWhole
<1> QED BY <1>2, <1>3, <1>4 DEF ListsInv

\* skip_list: whatever lists are made, filled, moved, assigned, cleared and
\* destroyed, by a client who lets no list go before the values it made, every
\* value is destroyed once and through a list that exists, and what a list
\* says of its size and levels travels with its nodes.
THEOREM ValuesAlwaysFreedOnce == Spec => []ValuesFreedOnce
<1>1. Init => ListsInv
  BY ListsInit DEF Init
<1>2. ListsInv /\ [Next]_vars => ListsInv'
  BY ListsStep, ListsUnchanged DEF Next, vars
<1>3. ListsInv => ValuesFreedOnce
  BY DEF ListsInv, ValuesFreedOnce, Lists!ValuesFreedOnce
<1> QED BY <1>1, <1>2, <1>3, PTL DEF Spec

-----------------------------------------------------------------------------
(* specific_counter_handler: what was shown of it with its counter, under   *)
(* the names it has here.                                                   *)

HandlerProofs == INSTANCE ApproxLimitCounterProofs
                     WITH Discipline <- {"vacant"}, SerialMembership <- TRUE,
                          answer <- counted

LEMMA SameHandlerInit == Handlers!HandlerInit <=> HandlerProofs!HandlerInit
BY DEF Handlers!HandlerInit, HandlerProofs!HandlerInit, Handlers!Init,
       HandlerProofs!Init, Handlers!NoCall, HandlerProofs!NoCall,
       Handlers!NoLoad, HandlerProofs!NoLoad

LEMMA SameHandlerNext == Handlers!HandlerNext <=> HandlerProofs!HandlerNext
BY DEF Handlers!AcquireLock, HandlerProofs!AcquireLock, Handlers!Admitted,
       HandlerProofs!Admitted, Handlers!Answer, HandlerProofs!Answer,
       Handlers!AtBody, HandlerProofs!AtBody, Handlers!Balance,
       HandlerProofs!Balance, Handlers!Call, HandlerProofs!Call,
       Handlers!CallCounter, HandlerProofs!CallCounter, Handlers!Calls,
       HandlerProofs!Calls, Handlers!ChangesMap, HandlerProofs!ChangesMap,
       Handlers!Changing, HandlerProofs!Changing, Handlers!Counting,
       HandlerProofs!Counting, Handlers!Decide, HandlerProofs!Decide,
       Handlers!Destroy, HandlerProofs!Destroy, Handlers!Emptied,
       HandlerProofs!Emptied, Handlers!EndScan, HandlerProofs!EndScan,
       Handlers!FastCount, HandlerProofs!FastCount, Handlers!FastPath,
       HandlerProofs!FastPath, Handlers!FitsEntry, HandlerProofs!FitsEntry,
       Handlers!FitsGlobal, HandlerProofs!FitsGlobal,
       Handlers!GetSpecificHandler, HandlerProofs!GetSpecificHandler,
       Handlers!Globalize, HandlerProofs!Globalize,
       Handlers!GlobalizedCounter, HandlerProofs!GlobalizedCounter,
       Handlers!GlobalizedReserve, HandlerProofs!GlobalizedReserve,
       Handlers!GoSlow, HandlerProofs!GoSlow, Handlers!Goto,
       HandlerProofs!Goto, Handlers!HandlerNext, HandlerProofs!HandlerNext,
       Handlers!Idle, HandlerProofs!Idle, Handlers!IsUpdate,
       HandlerProofs!IsUpdate, Handlers!Live, HandlerProofs!Live,
       Handlers!LoadEntry, HandlerProofs!LoadEntry, Handlers!LocalVariable,
       HandlerProofs!LocalVariable, Handlers!Minus, HandlerProofs!Minus,
       Handlers!MoveAssign, HandlerProofs!MoveAssign,
       Handlers!MoveConstruct, HandlerProofs!MoveConstruct, Handlers!NoCall,
       HandlerProofs!NoCall, Handlers!NoLoad, HandlerProofs!NoLoad,
       Handlers!OnlineWith, HandlerProofs!OnlineWith, Handlers!Owning,
       HandlerProofs!Owning, Handlers!Plus, HandlerProofs!Plus,
       Handlers!Reset, HandlerProofs!Reset, Handlers!ResetCounter,
       HandlerProofs!ResetCounter, Handlers!Return,
       HandlerProofs!Return, Handlers!ScanEntry, HandlerProofs!ScanEntry,
       Handlers!Served, HandlerProofs!Served, Handlers!Share,
       HandlerProofs!Share, Handlers!SlowCount, HandlerProofs!SlowCount,
       Handlers!SlowGrant, HandlerProofs!SlowGrant, Handlers!SlowRefuse,
       HandlerProofs!SlowRefuse, Handlers!Smaller, HandlerProofs!Smaller,
       Handlers!StartScan, HandlerProofs!StartScan, Handlers!Step,
       HandlerProofs!Step, Handlers!Taken, HandlerProofs!Taken,
       Handlers!Unlock, HandlerProofs!Unlock, Handlers!Unregister,
       HandlerProofs!Unregister, Handlers!control, HandlerProofs!control,
       Handlers!entries, HandlerProofs!entries, Handlers!globals,
       HandlerProofs!globals, Handlers!handlers, HandlerProofs!handlers,
       Handlers!scanning, HandlerProofs!scanning, Handlers!vars,
       HandlerProofs!vars, Handlers!Lock!Acquire,
       HandlerProofs!Lock!Acquire, Handlers!Lock!Release,
       HandlerProofs!Lock!Release

LEMMA SameEntryIffHandler ==
    Handlers!EntryIffHandler <=> HandlerProofs!EntryIffHandler
BY DEF Handlers!Cardinality, HandlerProofs!Cardinality, Handlers!Calls,
       HandlerProofs!Calls, Handlers!Counter, HandlerProofs!Counter,
       Handlers!EntryIffHandler, HandlerProofs!EntryIffHandler,
       Handlers!EntryLastsAsHandler, HandlerProofs!EntryLastsAsHandler,
       Handlers!HandlersTypeOK, HandlerProofs!HandlersTypeOK, Handlers!Idle,
       HandlerProofs!Idle, Handlers!Leaving, HandlerProofs!Leaving,
       Handlers!Live, HandlerProofs!Live, Handlers!NoCall,
       HandlerProofs!NoCall, Handlers!NoEntryOutlivesHandler,
       HandlerProofs!NoEntryOutlivesHandler,
       Handlers!NothingReservedAfterwards,
       HandlerProofs!NothingReservedAfterwards, Handlers!Owning,
       HandlerProofs!Owning, Handlers!Places, HandlerProofs!Places,
       Handlers!Served, HandlerProofs!Served, Handlers!Total,
       HandlerProofs!Total, Handlers!TypeOK, HandlerProofs!TypeOK,
       Handlers!Value, HandlerProofs!Value

\* specific_counter_handler: through whatever moves, and between the steps of
\* any number of units in calls of the same counter, resets of it included, a
\* unit's entry and its share of the limit last as long as its handler and never
\* longer; only a reset takes them away before that.
THEOREM EntriesLastAsHandlers == Spec => []EntryIffHandler
<1>1. HandlerProofs!CounterAssumption
  BY ClassAssumptions DEF ClassAssumptions, Handlers!CounterAssumption,
     HandlerProofs!CounterAssumption, Handlers!Counter, HandlerProofs!Counter,
     Handlers!IsFiniteSet, HandlerProofs!IsFiniteSet
<1>2. HandlerProofs!HandlerAssumption
  BY ClassAssumptions DEF ClassAssumptions, Handlers!HandlerAssumption,
                          HandlerProofs!HandlerAssumption
<1>3. HandlerProofs!HandlerSpec => []HandlerProofs!EntryIffHandler
  BY <1>1, <1>2, HandlerProofs!EntryAlwaysIffHandler
<1>4. Init => HandlerProofs!HandlerInit
  BY SameHandlerInit DEF Init
<1>5. [Next]_vars => [HandlerProofs!HandlerNext]_(HandlerProofs!handlerVars)
  <2>1. UNCHANGED handler => UNCHANGED HandlerProofs!handlerVars
    BY DEF handler, HandlerProofs!handlerVars, HandlerProofs!handlers,
           HandlerProofs!vars, HandlerProofs!globals, HandlerProofs!entries,
           HandlerProofs!control, HandlerProofs!scanning
  <2>2. [Next]_vars => Handlers!HandlerNext \/ UNCHANGED handler
    BY DEF Next, vars
  <2> QED BY <2>1, <2>2, SameHandlerNext
<1>6. HandlerProofs!EntryIffHandler => EntryIffHandler
  BY SameEntryIffHandler DEF EntryIffHandler
<1> QED BY <1>3, <1>4, <1>5, <1>6, PTL DEF Spec, HandlerProofs!HandlerSpec

-----------------------------------------------------------------------------
(* encode: the bytes of a number are its digits.                            *)

\* The bytes of a number, the lowest digit first or last.
Laid(v, t, order) ==
    [k \in 1 .. t.size |->
        Digit(v, Base, IF order = "little" THEN k ELSE t.size + 1 - k)]

ByteStrings(t) == [1 .. t.size -> 0 .. Base - 1]

LEMMA EncodingTypes ==
    /\ Base \in Nat /\ Base > 1
    /\ \A t \in Type : t.size \in Nat /\ t.size > 0 /\ t.signed \in BOOLEAN
    /\ MaxSize \in Nat
BY ClassAssumptions DEF ClassAssumptions, Encoding!EncodeAssumption

LEMMA EncodingPower == Encoding!Power(Base) = Power(Base)
BY DEF Encoding!Power, Power

LEMMA EncodingReverse ==
    ASSUME NEW t \in Type, NEW d \in ByteStrings(t)
    PROVE  /\ Encoding!Reverse(d) = [k \in 1 .. t.size |-> d[t.size + 1 - k]]
           /\ Encoding!Reverse(d) \in ByteStrings(t)
           /\ Encoding!Reverse(Encoding!Reverse(d)) = d
<1> DEFINE n == t.size
           X == 0 .. Base - 1
<1>0. n \in Nat /\ d \in [1 .. n -> X]
  BY EncodingTypes DEF ByteStrings
<1> HIDE DEF n, X
<1>1. ASSUME NEW c \in [1 .. n -> X]
      PROVE  /\ Encoding!Reverse(c) = [k \in 1 .. n |-> c[n + 1 - k]]
             /\ Encoding!Reverse(c) \in [1 .. n -> X]
  <2>1. Len(c) = n
    <3>1. c \in Seq(X)
      BY <1>0
    <3> QED BY <1>0, <3>1
  <2>2. \A k \in 1 .. n : n - k + 1 = n + 1 - k /\ n + 1 - k \in 1 .. n
    BY <1>0
  <2> QED BY <2>1, <2>2 DEF Encoding!Reverse
<1>2. \A k \in 1 .. n : n + 1 - k \in 1 .. n /\ n + 1 - (n + 1 - k) = k
  BY <1>0
<1>3. Encoding!Reverse(Encoding!Reverse(d)) = [k \in 1 .. n |-> d[k]]
  <2>1. PICK c \in [1 .. n -> X] : c = Encoding!Reverse(d)
    BY <1>0, <1>1
  <2>2. \A k \in 1 .. n : c[n + 1 - k] = d[k]
    <3> TAKE k \in 1 .. n
    <3>1. PICK m \in 1 .. n : m = n + 1 - k /\ n + 1 - m = k
      BY <1>2
    <3>2. c[m] = d[n + 1 - m]
      BY <1>0, <1>1, <2>1
    <3> QED BY <3>1, <3>2
  <2> QED BY <1>0, <1>1, <2>1, <2>2
<1>4. d = [k \in 1 .. n |-> d[k]]
  BY <1>0
<1> QED BY <1>0, <1>1, <1>3, <1>4 DEF n, X, ByteStrings

LEMMA LaidBytes ==
    ASSUME NEW v \in Int, NEW t \in Type, NEW order \in Encoding!Order
    PROVE  /\ Laid(v, t, order) \in ByteStrings(t)
           /\ Encoding!Reverse(Laid(v, t, order))
                  = Laid(v, t, IF order = "little" THEN "big" ELSE "little")
<1>1. /\ Base \in Nat /\ Base > 0 /\ t.size \in Nat
  BY EncodingTypes
<1>2. \A k \in 1 .. t.size : Digit(v, Base, k) \in 0 .. Base - 1
  BY <1>1, DigitSplits
<1>3. \A k \in 1 .. t.size : t.size + 1 - k \in 1 .. t.size
                             /\ t.size + 1 - (t.size + 1 - k) = k
  BY <1>1
<1>4. Laid(v, t, order) \in ByteStrings(t)
  BY <1>2, <1>3 DEF Laid, ByteStrings
<1>5. Encoding!Reverse(Laid(v, t, order))
          = [k \in 1 .. t.size |-> Laid(v, t, order)[t.size + 1 - k]]
  BY <1>4, EncodingReverse
<1>6. \A k \in 1 .. t.size :
          Laid(v, t, order)[t.size + 1 - k]
              = Digit(v, Base, IF order = "little" THEN t.size + 1 - k ELSE k)
  BY <1>3 DEF Laid
<1>7. order = "little" \/ order = "big"
  BY DEF Encoding!Order
<1>8. CASE order = "little"
  BY <1>5, <1>6, <1>4, <1>8 DEF Laid
<1>9. CASE order = "big"
  BY <1>5, <1>6, <1>4, <1>9 DEF Laid
<1> QED BY <1>4, <1>7, <1>8, <1>9

LEMMA MemoryLaid ==
    ASSUME NEW v \in Int, NEW t \in Type, native \in Encoding!Order
    PROVE  Encoding!Memory(v, t) = Laid(v, t, native)
<1>1. PICK d : d = [k \in 1 .. t.size |-> (v \div Encoding!Power(Base)[k - 1]) % Base]
  OBVIOUS
<1>2. d = Laid(v, t, "little")
  BY <1>1, EncodingPower DEF Laid, Digit
<1>3. Encoding!Memory(v, t) = IF native = "little" THEN d ELSE Encoding!Reverse(d)
  BY <1>1 DEF Encoding!Memory
<1> QED BY <1>2, <1>3, LaidBytes DEF Encoding!Order

\* ValueOf adds up what the bytes count for, the lowest first.
Valued(s, t) ==
    LET all == Power(Base)[t.size]
    IN IF t.signed /\ s >= all \div 2 THEN s - all ELSE s

LowestFirst(d) == IF native = "little" THEN d ELSE Encoding!Reverse(d)

LEMMA ValueOfSums ==
    ASSUME NEW t \in Type, NEW d \in ByteStrings(t)
    PROVE  /\ LowestFirst(d) \in ByteStrings(t)
           /\ \E s : /\ Sums(s, LowestFirst(d), Base, t.size)
                     /\ Encoding!ValueOf(d, t) = Valued(s[t.size], t)
<1> DEFINE n == t.size
<1>0. n \in Nat /\ Base \in Nat
  BY EncodingTypes
<1>1. LowestFirst(d) \in ByteStrings(t)
  BY EncodingReverse DEF LowestFirst
<1> DEFINE l == LowestFirst(d)
           part(i) == l[i] * Power(Base)[i - 1]
           H == [i \in 1 .. n |-> [a \in Nat |-> a + part(i)]]
           seq == [i \in DOMAIN l |-> i]
           term(x) == l[seq[x]] * Encoding!Power(Base)[seq[x] - 1]
           Step(it) == it = [S \in SUBSET (DOMAIN seq) |->
                                IF S = {} THEN 0
                                ELSE LET x == Greatest(S)
                                     IN it[S \ {x}] + term(x)]
           chosen == CHOOSE it : Step(it)
           s == [i \in 0 .. n |-> chosen[1 .. i]]
<1>2. l \in [1 .. n -> 0 .. Base - 1]
  BY <1>1 DEF ByteStrings
<1>3. DOMAIN seq = 1 .. n /\ \A i \in 1 .. n : seq[i] = i
  BY <1>2
<1>4. Encoding!ValueOf(d, t) = Valued(chosen[DOMAIN seq], t)
  BY EncodingPower
  DEF Encoding!ValueOf, Encoding!FoldLeftDomain, Encoding!FoldLeft,
      Encoding!MapThenFoldSet, Encoding!Max, Greatest, LowestFirst, Valued
<1> HIDE DEF l
<1>5. \E it : Step(it)
  <2>1. H \in [1 .. n -> [Nat -> Nat]]
    <3>1. \A i \in 1 .. n : part(i) \in Nat
      <4> TAKE i \in 1 .. n
      <4>1. PICK m \in Nat : m = i - 1
        BY <1>0
      <4>2. Power(Base)[m] \in Nat
        BY <1>0, <4>1, PowerSteps
      <4>4. l[i] \in Nat
        BY <1>0, <1>2
      <4>3. \A a, b \in Nat : a * b \in Nat
        OBVIOUS
      <4> QED BY <4>1, <4>2, <4>3, <4>4
    <3> HIDE DEF part
    <3> QED BY <3>1
  <2>2. PICK it \in [SUBSET (1 .. n) -> Nat] : Folding(it, n, H, 0)
    <3> HIDE DEF n, H
    <3> QED BY <1>0, <2>1, FoldsExist
  <2>3. ASSUME NEW S \in SUBSET (1 .. n), S # {}
        PROVE  H[Greatest(S)][it[S \ {Greatest(S)}]]
                   = LET x == Greatest(S)
                     IN it[S \ {x}] + term(x)
    <3>1. PICK x \in 1 .. n : x = Greatest(S)
      BY <1>0, <2>3, GreatestOfSome
    <3>2. it[S \ {x}] \in Nat
      BY <2>2
    <3>3. H[x][it[S \ {x}]] = it[S \ {x}] + part(x)
      <4> HIDE DEF part, n
      <4> QED BY <3>2
    <3>4. part(x) = term(x)
      BY <1>3, EncodingPower
    <3> HIDE DEF H, part, term
    <3> QED BY <3>1, <3>3, <3>4
  <2> HIDE DEF H, n
  <2>4. Step(it)
    <3> HIDE DEF seq
    <3> QED BY <1>3, <2>2, <2>3 DEF Folding
  <2> HIDE DEF Step
  <2> QED BY <2>4
<1> HIDE DEF H
<1>6. Step(chosen)
  <2> HIDE DEF Step
  <2> QED BY <1>5
<1> HIDE DEF chosen
<1>7. chosen[1 .. 0] = 0
  BY <1>3, <1>6
<1>8. ASSUME NEW i \in 1 .. n
      PROVE  chosen[1 .. i] = chosen[1 .. i - 1] + part(i)
  <2>1. /\ 1 .. i \in SUBSET (1 .. n) /\ 1 .. i # {}
        /\ Greatest(1 .. i) = i /\ (1 .. i) \ {i} = 1 .. i - 1
    BY <1>0, UpToLast
  <2>2. part(i) = term(i)
    BY <1>3, EncodingPower
  <2> HIDE DEF seq, n, part, term
  <2>3. PICK S : S = 1 .. i
    OBVIOUS
  <2>4. S \in SUBSET (DOMAIN seq) /\ S # {} /\ Greatest(S) = i
        /\ S \ {Greatest(S)} = 1 .. i - 1
    BY <1>3, <2>1, <2>3
  <2>5. \A R \in SUBSET (DOMAIN seq) :
            R # {} => chosen[R] = chosen[R \ {Greatest(R)}] + term(Greatest(R))
    BY <1>6
  <2>6. chosen[S] = chosen[S \ {Greatest(S)}] + term(Greatest(S))
    BY <2>4, <2>5
  <2>7. chosen[1 .. i] = chosen[1 .. i - 1] + term(i)
    BY <2>3, <2>4, <2>6
  <2> QED BY <2>2, <2>7
<1>9. Sums(s, l, Base, n) /\ s[n] = chosen[DOMAIN seq]
  <2>1. 0 \in 0 .. n /\ n \in 0 .. n
        /\ \A i \in 1 .. n : i \in 0 .. n /\ i - 1 \in 0 .. n
    BY <1>0
  <2>2. s[0] = 0
    BY <1>7, <2>1
  <2>3. \A i \in 1 .. n : s[i] = s[i - 1] + part(i)
    BY <1>8, <2>1
  <2>4. s[n] = chosen[DOMAIN seq]
    BY <1>3, <2>1
  <2> HIDE DEF s
  <2> QED BY <2>2, <2>3, <2>4 DEF Sums
<1> HIDE DEF s, seq
<1> QED BY <1>1, <1>4, <1>9 DEF l

\* Bytes give a number whose bytes they are.
LEMMA MemoryOfValue ==
    ASSUME NEW t \in Type, NEW d \in ByteStrings(t), native \in Encoding!Order
    PROVE  /\ Encoding!ValueOf(d, t) \in Int
           /\ Encoding!Memory(Encoding!ValueOf(d, t), t) = d
<1>0. /\ t.size \in Nat /\ t.size > 0 /\ t.signed \in BOOLEAN
      /\ Base \in Nat /\ Base > 0
  BY EncodingTypes
<1>1. PICK n \in Nat : n = t.size
  BY <1>0
<1>2. PICK l \in [1 .. n -> 0 .. Base - 1] : l = LowestFirst(d)
  BY <1>1, ValueOfSums DEF ByteStrings
<1>3. PICK s : Sums(s, l, Base, n) /\ Encoding!ValueOf(d, t) = Valued(s[n], t)
  BY <1>1, <1>2, ValueOfSums
<1>4. s[n] \in Nat /\ Power(Base)[n] \in Nat
  <2>1. n \in 0 .. n
    OBVIOUS
  <2> QED BY <1>0, <1>2, <1>3, <2>1, SumBelow, PowerPositive
<1>5. PICK v : v = Encoding!ValueOf(d, t)
  OBVIOUS
<1>6. PICK m \in Int : v = s[n] + m * Power(Base)[n]
  <2>1. PICK p \in Nat, q \in Nat : p = Power(Base)[n] /\ q = s[n]
    BY <1>4
  <2>2. v = q + 0 * p \/ v = q + (-1) * p
    BY <1>1, <1>3, <1>5, <2>1 DEF Valued
  <2> QED BY <2>1, <2>2
<1>7. v \in Int
  <2>1. PICK p \in Nat, q \in Nat : p = Power(Base)[n] /\ q = s[n]
    BY <1>4
  <2> QED BY <1>6, <2>1
<1>8. \A k \in 1 .. n : Digit(v, Base, k) = l[k]
  <2> TAKE k \in 1 .. n
  <2>1. n \in Nat /\ Base \in Nat /\ Base > 0 /\ l \in [1 .. n -> 0 .. Base - 1]
    BY <1>0
  <2>2. Sums(s, l, Base, n)
    BY <1>3
  <2> QED BY <1>6, <1>7, <2>1, <2>2, SumDigits
<1>9. Laid(v, t, "little") = l
  <2>1. Laid(v, t, "little") = [k \in 1 .. n |-> l[k]]
    BY <1>1, <1>8 DEF Laid
  <2> QED BY <2>1
<1>10. Encoding!Memory(v, t) = IF native = "little" THEN l ELSE Encoding!Reverse(l)
  <2>1. Encoding!Memory(v, t) = Laid(v, t, native)
    BY <1>7, MemoryLaid
  <2>2. native # "little" => Laid(v, t, native) = Encoding!Reverse(l)
    BY <1>7, <1>9, LaidBytes DEF Encoding!Order
  <2> QED BY <1>9, <2>1, <2>2
<1>11. native # "little" => Encoding!Reverse(l) = d
  BY <1>2, EncodingReverse DEF LowestFirst
<1>12. native = "little" => l = d
  BY <1>2 DEF LowestFirst
<1> QED BY <1>5, <1>7, <1>10, <1>11, <1>12

\* A number of the type comes back from its bytes.
LEMMA ValueOfMemory ==
    ASSUME NEW t \in Type, NEW v \in Encoding!InType(t), native \in Encoding!Order
    PROVE  v \in Int /\ Encoding!ValueOf(Encoding!Memory(v, t), t) = v
<1>0. /\ t.size \in Nat /\ t.size > 0 /\ t.signed \in BOOLEAN
      /\ Base \in Nat /\ Base > 0
  BY EncodingTypes
<1>1. PICK n \in Nat : n = t.size
  BY <1>0
<1>2. PICK p \in Nat : p = Power(Base)[n] /\ p > 0
  BY <1>0, PowerPositive
<1>3. v \in IF t.signed THEN -(p \div 2) .. (p \div 2) - 1 ELSE 0 .. p - 1
  BY <1>1, <1>2, EncodingPower DEF Encoding!InType
<1>4. v \in Int
  BY <1>2, <1>3
<1>5. Encoding!Memory(v, t) = Laid(v, t, native)
      /\ Laid(v, t, native) \in ByteStrings(t)
  BY <1>4, MemoryLaid, LaidBytes
<1>6. LowestFirst(Laid(v, t, native)) = Laid(v, t, "little")
  BY <1>4, LaidBytes DEF LowestFirst, Encoding!Order
<1>7. PICK s : /\ Sums(s, Laid(v, t, "little"), Base, n)
               /\ Encoding!ValueOf(Encoding!Memory(v, t), t) = Valued(s[n], t)
  BY <1>1, <1>5, <1>6, ValueOfSums
<1>8. s[n] = v % p
  <2>1. \A k \in 1 .. n : Laid(v, t, "little")[k] = Digit(v, Base, k)
    BY <1>1 DEF Laid
  <2> QED BY <1>0, <1>2, <1>4, <1>7, <2>1, DigitsSum
<1>9. Valued(v % p, t) = v
  <2>1. v % p = IF v < 0 THEN v + p ELSE v
    BY <1>2, <1>3
  <2>2. CASE t.signed /\ v < 0
    <3>1. v + p >= p \div 2
      BY <1>2, <1>3, <2>2
    <3> QED BY <1>1, <1>2, <1>4, <2>1, <2>2, <3>1 DEF Valued
  <2>3. CASE t.signed /\ v >= 0
    <3>1. ~(v >= p \div 2)
      BY <1>2, <1>3, <2>3
    <3> QED BY <1>1, <1>2, <1>4, <2>1, <2>3, <3>1 DEF Valued
  <2>4. CASE ~t.signed
    BY <1>3, <1>4, <2>1, <2>4 DEF Valued
  <2> QED BY <1>4, <2>2, <2>3, <2>4
<1> QED BY <1>4, <1>7, <1>8, <1>9

LEMMA OrderedLaid ==
    ASSUME NEW v \in Int, NEW t \in Type, NEW order \in Encoding!Order,
           native \in Encoding!Order
    PROVE  Encoding!Memory(Encoding!Ordered(v, t, order), t) = Laid(v, t, order)
<1>1. Encoding!Memory(v, t) = Laid(v, t, native)
  BY MemoryLaid
<1>2. CASE order = native
  BY <1>1, <1>2 DEF Encoding!Ordered
<1>3. CASE order # native
  <2>1. Encoding!Reverse(Laid(v, t, native)) = Laid(v, t, order)
    BY <1>3, LaidBytes DEF Encoding!Order
  <2>2. Encoding!Ordered(v, t, order) = Encoding!ValueOf(Laid(v, t, order), t)
    BY <1>1, <1>3, <2>1 DEF Encoding!Ordered, Encoding!byteswap
  <2> QED BY <2>2, LaidBytes, MemoryOfValue
<1> QED BY <1>2, <1>3

LEMMA DecodedBack ==
    ASSUME NEW t \in Type, NEW v \in Encoding!InType(t), NEW order \in Encoding!Order,
           native \in Encoding!Order
    PROVE  Encoding!Ordered(Encoding!ValueOf(Laid(v, t, order), t), t, order) = v
<1>1. /\ v \in Int /\ Encoding!Memory(v, t) = Laid(v, t, native)
      /\ Encoding!ValueOf(Laid(v, t, native), t) = v
  BY ValueOfMemory, MemoryLaid
<1>2. CASE order = native
  BY <1>1, <1>2 DEF Encoding!Ordered
<1>3. CASE order # native
  <2>1. PICK w : w = Encoding!ValueOf(Laid(v, t, order), t)
    OBVIOUS
  <2>2. Encoding!Memory(w, t) = Laid(v, t, order)
    BY <1>1, <2>1, LaidBytes, MemoryOfValue
  <2>3. Encoding!Reverse(Laid(v, t, order)) = Laid(v, t, native)
    BY <1>1, <1>3, LaidBytes DEF Encoding!Order
  <2> QED BY <1>1, <1>3, <2>1, <2>2, <2>3 DEF Encoding!Ordered, Encoding!byteswap
<1> QED BY <1>2, <1>3

LEMMA FunctionIsSequence ==
    ASSUME NEW n \in Nat, NEW X, NEW f \in [1 .. n -> X]
    PROVE  f \in Seq(X) /\ Len(f) = n
OBVIOUS

\* Written puts the bytes in their place and leaves the others alone.
Placed(w, d, p, t, l) ==
    /\ w \in Seq(0 .. Base - 1) /\ Len(w) = Len(d)
    /\ \A k \in 1 .. t.size : w[p + k] = l[k]
    /\ \A k \in 1 .. Len(d) : k <= p \/ k > p + t.size => w[k] = d[k]

LEMMA BytesWritten ==
    ASSUME NEW t \in Type, NEW v \in Int, NEW order \in Encoding!Order,
           native \in Encoding!Order, NEW d \in Seq(0 .. Base - 1), NEW p \in Nat,
           p + t.size <= Len(d)
    PROVE  Placed(Encoding!Written(v, t, order, p, d), d, p, t, Laid(v, t, order))
<1>0. PICK n \in Nat, L \in Nat : n = t.size /\ L = Len(d)
  <2>1. t.size \in Nat /\ Len(d) \in Nat
    BY EncodingTypes
  <2> QED BY <2>1
<1>1. PICK l : l \in [1 .. n -> 0 .. Base - 1] /\ l = Laid(v, t, order)
  BY <1>0, LaidBytes DEF ByteStrings
<1> DEFINE w == Encoding!Written(v, t, order, p, d)
<1>2. w = [k \in 1 .. L |-> IF k - p \in 1 .. n THEN l[k - p] ELSE d[k]]
  BY <1>0, <1>1, OrderedLaid DEF Encoding!Written
<1> HIDE DEF w
<1>3. \A k \in 1 .. L : d[k] \in 0 .. Base - 1
  <2>1. PICK X : X = 0 .. Base - 1
    OBVIOUS
  <2>2. d \in Seq(X)
    BY <2>1
  <2>3. \A k \in 1 .. Len(d) : d[k] \in X
    BY <2>2
  <2> QED BY <1>0, <2>1, <2>3
<1>4. w \in [1 .. L -> 0 .. Base - 1]
  BY <1>1, <1>2, <1>3
<1>5. w \in Seq(0 .. Base - 1) /\ Len(w) = L
  BY <1>4, FunctionIsSequence
<1>6. ASSUME NEW k \in 1 .. n PROVE w[p + k] = l[k]
  <2>1. p + k \in 1 .. L /\ p + k - p = k
    BY <1>0
  <2> QED BY <1>2, <2>1
<1>7. ASSUME NEW k \in 1 .. L, k <= p \/ k > p + n PROVE w[k] = d[k]
  <2>1. k - p \notin 1 .. n
    BY <1>7
  <2> QED BY <1>2, <2>1
<1> QED BY <1>0, <1>1, <1>5, <1>6, <1>7 DEF Placed, w

-----------------------------------------------------------------------------
(* encode: what is written stays, for items lie apart.                      *)

Items == [value : Int, type : Type, order : Encoding!Order, at : Nat]

\* The bytes of item i are in d, where the item says.
LiesIn(i, d) ==
    /\ i \in Items /\ i.value \in Encoding!InType(i.type)
    /\ i.at + i.type.size <= Len(d)
    /\ \A k \in 1 .. i.type.size :
           d[i.at + k] = Laid(i.value, i.type, i.order)[k]

EncodingInv ==
    /\ native \in Encoding!Order
    /\ dst \in Seq(0 .. Base - 1)
    /\ items \in Seq(Items)
    /\ \A n \in 1 .. Len(items) : LiesIn(items[n], dst)
    /\ \A n, m \in 1 .. Len(items) :
           n < m => items[n].at + items[n].type.size <= items[m].at

LEMMA ItemsTypes ==
    ASSUME NEW i \in Items
    PROVE  /\ i.value \in Int /\ i.type \in Type /\ i.order \in Encoding!Order
           /\ i.at \in Nat /\ i.type.size \in Nat /\ i.type.size > 0
BY EncodingTypes DEF Items

\* An item lies in bytes that are the same in its place.
LEMMA StillLies ==
    ASSUME NEW i, NEW c, NEW d, LiesIn(i, c),
           Len(c) \in Nat, Len(d) \in Nat, Len(c) <= Len(d),
           \A k \in i.at + 1 .. i.at + i.type.size : d[k] = c[k]
    PROVE  LiesIn(i, d)
<1>1. i \in Items
  BY DEF LiesIn
<1>2. PICK p \in Nat, n \in Nat : p = i.at /\ n = i.type.size
  BY <1>1, ItemsTypes
<1>3. \A k \in 1 .. n : p + k \in p + 1 .. p + n
  OBVIOUS
<1>4. \A k \in 1 .. n : d[p + k] = c[p + k]
  BY <1>2, <1>3
<1>5. p + n <= Len(d)
  BY <1>2 DEF LiesIn
<1> QED BY <1>2, <1>4, <1>5 DEF LiesIn

LEMMA ValuesInType ==
    ASSUME NEW t \in Type, NEW v \in Encoding!ValuesOf(t)
    PROVE  v \in Encoding!InType(t) /\ v \in Int
<1>1. v \in Encoding!InType(t)
  BY DEF Encoding!ValuesOf
<1>2. PICK p \in Nat : p = Power(Base)[t.size]
  BY EncodingTypes, PowerSteps
<1>3. v \in IF t.signed THEN -(p \div 2) .. (p \div 2) - 1 ELSE 0 .. p - 1
  BY <1>1, <1>2, EncodingPower DEF Encoding!InType
<1>4. CASE t.signed
  <2>1. PICK h \in Int : h = p \div 2
    OBVIOUS
  <2>2. v \in -h .. h - 1
    BY <1>3, <1>4, <2>1
  <2>3. v \in Int
    BY <2>1, <2>2
  <2> QED BY <1>1, <2>3
<1>5. CASE ~t.signed
  <2>1. v \in 0 .. p - 1
    BY <1>3, <1>5
  <2> QED BY <1>1, <2>1
<1> QED BY <1>1, <1>4, <1>5

LEMMA Appended ==
    ASSUME EncodingInv, NEW t \in Type, NEW v \in Encoding!ValuesOf(t),
           NEW order \in Encoding!Order, Encoding!AppendEncode(v, t, order)
    PROVE  EncodingInv'
<1>0. PICK n \in Nat, L \in Nat, N \in Nat :
          n = t.size /\ L = Len(dst) /\ N = Len(items)
  <2>1. t.size \in Nat /\ Len(dst) \in Nat /\ Len(items) \in Nat
    BY EncodingTypes DEF EncodingInv
  <2> QED BY <2>1
<1>1. v \in Int /\ v \in Encoding!InType(t)
  BY ValuesInType
<1>2. PICK z : z = [k \in 1 .. t.size |-> 0]
  OBVIOUS
<1>3. PICK d : d = dst \o z
  OBVIOUS
<1>4. /\ d \in Seq(0 .. Base - 1) /\ Len(d) = L + n
      /\ \A k \in 1 .. L : d[k] = dst[k]
  <2>1. 0 \in 0 .. Base - 1
    BY EncodingTypes
  <2>2. z \in [1 .. n -> 0 .. Base - 1]
    BY <1>0, <1>2, <2>1
  <2>3. z \in Seq(0 .. Base - 1) /\ Len(z) = n
    BY <2>2, FunctionIsSequence
  <2>4. dst \in Seq(0 .. Base - 1)
    BY DEF EncodingInv
  <2>5. PICK X : X = 0 .. Base - 1
    OBVIOUS
  <2>6. dst \in Seq(X) /\ z \in Seq(X)
    BY <2>3, <2>4, <2>5
  <2>7. /\ dst \o z \in Seq(X) /\ Len(dst \o z) = L + n
        /\ \A k \in 1 .. L : (dst \o z)[k] = dst[k]
    BY <1>0, <2>3, <2>6
  <2> QED BY <1>3, <2>5, <2>7
<1>5. PICK i : i = Encoding!Item(v, t, order, L)
  OBVIOUS
<1>6. i \in Items /\ i.value = v /\ i.type = t /\ i.order = order /\ i.at = L
  BY <1>1, <1>5 DEF Encoding!Item, Items
<1>7. dst' = Encoding!Written(v, t, order, L, d)
      /\ items' = Append(items, i) /\ native' = native
  BY <1>0, <1>2, <1>3, <1>5 DEF Encoding!AppendEncode
<1>8. /\ dst' \in Seq(0 .. Base - 1) /\ Len(dst') = L + n
      /\ \A k \in 1 .. n : dst'[L + k] = Laid(v, t, order)[k]
      /\ \A k \in 1 .. L : dst'[k] = dst[k]
  <2>1. native \in Encoding!Order /\ L + t.size <= Len(d)
    BY <1>0, <1>4 DEF EncodingInv
  <2>2. \A k \in 1 .. L : k \in 1 .. Len(d) /\ k <= L
    BY <1>0, <1>4
  <2>3. PICK w : w = dst'
    OBVIOUS
  <2>5. w = Encoding!Written(v, t, order, L, d)
    BY <1>7, <2>3
  <2>4. Placed(w, d, L, t, Laid(v, t, order))
    BY <1>1, <1>4, <2>1, <2>5, BytesWritten
  <2> QED BY <1>0, <1>4, <2>2, <2>3, <2>4 DEF Placed
<1>9. /\ items' \in Seq(Items) /\ Len(items') = N + 1
      /\ \A m \in 1 .. N : items'[m] = items[m]
      /\ items'[N + 1] = i
  BY <1>0, <1>6, <1>7 DEF EncodingInv
<1>10. LiesIn(i, dst')
  BY <1>0, <1>1, <1>6, <1>8 DEF LiesIn
<1>11. ASSUME NEW m \in 1 .. N
       PROVE  LiesIn(items[m], dst') /\ items[m].at + items[m].type.size <= L
  <2>1. LiesIn(items[m], dst) /\ items[m] \in Items
    BY <1>0 DEF EncodingInv, LiesIn
  <2>2. PICK p \in Nat, q \in Nat : p = items[m].at /\ q = items[m].type.size
    BY <2>1, ItemsTypes
  <2>3. p + q <= L
    BY <1>0, <2>1, <2>2 DEF LiesIn
  <2>4. \A k \in p + 1 .. p + q : k \in 1 .. L
    BY <2>3
  <2>5. PICK w : w = dst'
    OBVIOUS
  <2>6. LiesIn(items[m], w)
    <3>1. Len(dst) \in Nat /\ Len(w) \in Nat /\ Len(dst) <= Len(w)
      BY <1>0, <1>8, <2>5
    <3>2. \A k \in items[m].at + 1 .. items[m].at + items[m].type.size :
              w[k] = dst[k]
      BY <1>8, <2>2, <2>4, <2>5
    <3> QED BY <2>1, <3>1, <3>2, StillLies
  <2> QED BY <2>2, <2>3, <2>5, <2>6
<1>12. \A m \in 1 .. Len(items') : LiesIn(items'[m], dst')
  BY <1>9, <1>10, <1>11
<1>13. \A k, m \in 1 .. Len(items') :
           k < m => items'[k].at + items'[k].type.size <= items'[m].at
  <2> SUFFICES ASSUME NEW k \in 1 .. N + 1, NEW m \in 1 .. N + 1, k < m
               PROVE  items'[k].at + items'[k].type.size <= items'[m].at
    BY <1>9
  <2>1. k \in 1 .. N /\ items'[k] = items[k]
    BY <1>9
  <2>2. CASE m = N + 1
    BY <1>6, <1>9, <1>11, <2>1, <2>2
  <2>3. CASE m # N + 1
    <3>1. m \in 1 .. N /\ items'[m] = items[m]
      BY <1>9, <2>3
    <3> QED BY <1>0, <2>1, <3>1 DEF EncodingInv
  <2> QED BY <2>2, <2>3
<1> QED BY <1>7, <1>8, <1>9, <1>12, <1>13 DEF EncodingInv

LEMMA Rewritten ==
    ASSUME EncodingInv, NEW n \in DOMAIN items,
           NEW v \in Encoding!ValuesOf(items[n].type), NEW order \in Encoding!Order,
           Encoding!Overwrite(n, v, order)
    PROVE  EncodingInv'
<1>0. PICK N \in Nat, L \in Nat : N = Len(items) /\ L = Len(dst)
  <2>1. Len(items) \in Nat /\ Len(dst) \in Nat
    BY DEF EncodingInv
  <2> QED BY <2>1
<1>1. n \in 1 .. N /\ LiesIn(items[n], dst) /\ items[n] \in Items
  BY <1>0 DEF EncodingInv, LiesIn
<1>2. PICK t \in Type, p \in Nat, q \in Nat :
          t = items[n].type /\ p = items[n].at /\ q = t.size /\ p + q <= L
  <2>1. items[n].at + items[n].type.size <= L
    BY <1>0, <1>1 DEF LiesIn
  <2> QED BY <1>1, <2>1, ItemsTypes
<1>3. v \in Int /\ v \in Encoding!InType(t)
  BY <1>2, ValuesInType
<1>4. PICK i : i = Encoding!Item(v, t, order, p)
  OBVIOUS
<1>5. i \in Items /\ i.value = v /\ i.type = t /\ i.order = order /\ i.at = p
  BY <1>3, <1>4 DEF Encoding!Item, Items
<1>6. /\ dst' = Encoding!Written(v, t, order, p, dst)
      /\ items' = [items EXCEPT ![n] = i] /\ native' = native
  BY <1>2, <1>4 DEF Encoding!Overwrite
<1>7. PICK w : w = dst'
  OBVIOUS
<1>8. Placed(w, dst, p, t, Laid(v, t, order))
  <2>1. native \in Encoding!Order /\ dst \in Seq(0 .. Base - 1) /\ p + t.size <= Len(dst)
    BY <1>0, <1>2 DEF EncodingInv
  <2>2. w = Encoding!Written(v, t, order, p, dst)
    BY <1>6, <1>7
  <2> QED BY <1>3, <2>1, <2>2, BytesWritten
<1>9. /\ items' \in Seq(Items) /\ Len(items') = N
      /\ \A m \in 1 .. N : m # n => items'[m] = items[m]
      /\ items'[n] = i
  BY <1>0, <1>1, <1>5, <1>6 DEF EncodingInv
<1>10. LiesIn(i, w)
  BY <1>0, <1>2, <1>3, <1>5, <1>8 DEF LiesIn, Placed
<1>11. ASSUME NEW m \in 1 .. N, m # n
       PROVE  LiesIn(items[m], w)
  <2>1. LiesIn(items[m], dst) /\ items[m] \in Items
    BY <1>0 DEF EncodingInv, LiesIn
  <2>2. PICK a \in Nat, b \in Nat : a = items[m].at /\ b = items[m].type.size
    BY <2>1, ItemsTypes
  <2>3. a + b <= p \/ p + q <= a
    <3>1. CASE m < n
      BY <1>0, <1>1, <1>2, <2>2, <3>1 DEF EncodingInv
    <3>2. CASE n < m
      BY <1>0, <1>1, <1>2, <2>2, <3>2 DEF EncodingInv
    <3> QED BY <1>1, <1>11, <3>1, <3>2
  <2>4. a + b <= L
    BY <1>0, <2>1, <2>2 DEF LiesIn
  <2>5. \A k \in a + 1 .. a + b : k \in 1 .. L /\ (k <= p \/ k > p + q)
    BY <2>3, <2>4
  <2>6. \A k \in a + 1 .. a + b : w[k] = dst[k]
    BY <1>0, <1>2, <1>8, <2>5 DEF Placed
  <2>7. Len(dst) \in Nat /\ Len(w) \in Nat /\ Len(dst) <= Len(w)
    BY <1>0, <1>8 DEF Placed
  <2> QED BY <2>1, <2>2, <2>6, <2>7, StillLies
<1>12. \A m \in 1 .. Len(items') : LiesIn(items'[m], dst')
  BY <1>7, <1>9, <1>10, <1>11
<1>13. \A m \in 1 .. N : /\ items'[m].at = items[m].at
                         /\ items'[m].type = items[m].type
  BY <1>2, <1>5, <1>9
<1>14. \A k, m \in 1 .. Len(items') :
           k < m => items'[k].at + items'[k].type.size <= items'[m].at
  BY <1>0, <1>9, <1>13 DEF EncodingInv
<1>15. dst' \in Seq(0 .. Base - 1) /\ native' \in Encoding!Order
  BY <1>6, <1>7, <1>8 DEF Placed, EncodingInv
<1> QED BY <1>9, <1>12, <1>14, <1>15 DEF EncodingInv

LEMMA EncodingStep == ASSUME EncodingInv, Encoding!Next PROVE EncodingInv'
BY Appended, Rewritten DEF Encoding!Next

LEMMA EncodingUnchanged ==
    ASSUME EncodingInv, UNCHANGED encode
    PROVE  EncodingInv'
<1>1. native' = native /\ dst' = dst /\ items' = items
  BY DEF encode
<1> QED BY <1>1 DEF EncodingInv

LEMMA EncodingInit == ASSUME Encoding!Init PROVE EncodingInv
BY DEF Encoding!Init, EncodingInv

-----------------------------------------------------------------------------
(* encode: what the bytes say.                                              *)

\* Big-endian bytes are in the order of the numbers.
LEMMA LaidLess ==
    ASSUME NEW t \in Type, ~t.signed, NEW v \in Encoding!InType(t),
           NEW w \in Encoding!InType(t),
           Encoding!Less(Laid(v, t, "big"), Laid(w, t, "big"))
    PROVE  v < w
<1>0. PICK n \in Nat : n = t.size /\ n > 0 /\ Base \in Nat /\ Base > 0
  BY EncodingTypes
<1>1. PICK p \in Nat : p = Power(Base)[n] /\ p > 0
  BY <1>0, PowerPositive
<1>2. v \in 0 .. p - 1 /\ w \in 0 .. p - 1
  BY <1>0, <1>1, EncodingPower DEF Encoding!InType
<1>3. v \in Int /\ w \in Int /\ v \div p = w \div p
  BY <1>1, <1>2
<1>4. PICK k \in 1 .. n :
          /\ SubSeq(Laid(v, t, "big"), 1, k - 1) = SubSeq(Laid(w, t, "big"), 1, k - 1)
          /\ Laid(v, t, "big")[k] < Laid(w, t, "big")[k]
  BY <1>0 DEF Encoding!Less, Laid
<1>5. PICK j \in 1 .. n : j = n + 1 - k
  BY <1>0
<1>6. \A i \in 1 .. n : /\ Laid(v, t, "big")[i] = Digit(v, Base, n + 1 - i)
                        /\ Laid(w, t, "big")[i] = Digit(w, Base, n + 1 - i)
  BY <1>0 DEF Laid
<1>7. Digit(v, Base, j) < Digit(w, Base, j)
  BY <1>4, <1>5, <1>6
<1>8. ASSUME NEW i \in 1 .. k - 1
      PROVE  Laid(v, t, "big")[i] = Laid(w, t, "big")[i]
  <2>1. \A a : SubSeq(a, 1, k - 1)[i] = a[i]
    BY <1>4
  <2> QED BY <1>4, <2>1
<1>9. ASSUME NEW i \in j + 1 .. n
      PROVE  Digit(v, Base, i) = Digit(w, Base, i)
  <2>1. PICK m \in 1 .. k - 1 : m = n + 1 - i /\ i = n + 1 - m /\ m \in 1 .. n
    BY <1>5
  <2> QED BY <1>6, <1>8, <2>1
<1> QED BY <1>0, <1>1, <1>3, <1>7, <1>9, LessByDigit

LEMMA LessLaid ==
    ASSUME NEW t \in Type, ~t.signed, NEW v \in Encoding!InType(t),
           NEW w \in Encoding!InType(t), v < w
    PROVE  Encoding!Less(Laid(v, t, "big"), Laid(w, t, "big"))
<1>0. PICK n \in Nat : n = t.size /\ n > 0 /\ Base \in Nat /\ Base > 0
  BY EncodingTypes
<1>1. PICK p \in Nat : p = Power(Base)[n] /\ p > 0
  BY <1>0, PowerPositive
<1>2. v \in 0 .. p - 1 /\ w \in 0 .. p - 1
  BY <1>0, <1>1, EncodingPower DEF Encoding!InType
<1>3. v \in Int /\ w \in Int /\ v \div p = w \div p
  BY <1>1, <1>2
<1>4. \A k \in 1 .. n : Digit(v, Base, k) \in Int /\ Digit(w, Base, k) \in Int
  <2> TAKE k \in 1 .. n
  <2>1. k \in Nat /\ k > 0
    OBVIOUS
  <2>2. Digit(v, Base, k) \in 0 .. Base - 1 /\ Digit(w, Base, k) \in 0 .. Base - 1
    BY <1>0, <1>3, <2>1, DigitSplits
  <2> QED BY <1>0, <2>2
<1> DEFINE T == {k \in 1 .. n : Digit(v, Base, k) # Digit(w, Base, k)}
<1>5. T # {}
  <2> SUFFICES ASSUME T = {} PROVE FALSE
    OBVIOUS
  <2>1. 0 \in 0 .. n /\ \A j \in 0 + 1 .. n : Digit(v, Base, j) = Digit(w, Base, j)
    BY <1>0
  <2>2. v \div Power(Base)[0] = w \div Power(Base)[0]
    BY <1>0, <1>1, <1>3, <2>1, SameAbove
  <2>3. Power(Base)[0] = 1
    BY <1>0, PowerSteps
  <2>4. v \div 1 = v /\ w \div 1 = w
    BY <1>3
  <2> QED BY <1>3, <2>2, <2>3, <2>4
<1>6. PICK j \in T : \A i \in T : i <= j
  <2>1. T \subseteq 1 .. n /\ IsFiniteSet(1 .. n) /\ 1 .. n \subseteq Int
    BY FS_Interval
  <2> HIDE DEF T
  <2> QED BY <1>5, <2>1, HasGreatest, FS_Subset
<1>7. j \in 1 .. n /\ \A i \in j + 1 .. n : Digit(v, Base, i) = Digit(w, Base, i)
  <2>1. \A i \in j + 1 .. n : i \in 1 .. n /\ ~(i <= j)
    BY <1>6
  <2> QED BY <1>6, <2>1
<1>8. Digit(v, Base, j) < Digit(w, Base, j)
  <2>1. Digit(w, Base, j) < Digit(v, Base, j) => w < v
    BY <1>0, <1>1, <1>3, <1>7, LessByDigit
  <2>2. ~(w < v)
    BY <1>3
  <2> QED BY <1>4, <1>6, <1>7, <2>1, <2>2
<1>9. PICK k \in 1 .. n : k = n + 1 - j /\ n + 1 - k = j
  <2>1. n + 1 - j \in 1 .. n /\ n + 1 - (n + 1 - j) = j
    BY <1>0, <1>7
  <2> QED BY <2>1
<1>10. \A i \in 1 .. n : /\ Laid(v, t, "big")[i] = Digit(v, Base, n + 1 - i)
                         /\ Laid(w, t, "big")[i] = Digit(w, Base, n + 1 - i)
  BY <1>0 DEF Laid
<1>11. Laid(v, t, "big")[k] < Laid(w, t, "big")[k]
  BY <1>8, <1>9, <1>10
<1>12. \A i \in 1 .. k - 1 : Laid(v, t, "big")[i] = Laid(w, t, "big")[i]
  <2> TAKE i \in 1 .. k - 1
  <2>1. i \in 1 .. n /\ n + 1 - i \in j + 1 .. n
    BY <1>7, <1>9
  <2> QED BY <1>7, <1>10, <2>1
<1>13. SubSeq(Laid(v, t, "big"), 1, k - 1) = SubSeq(Laid(w, t, "big"), 1, k - 1)
  <2>1. \A a : SubSeq(a, 1, k - 1) = [i \in 1 .. k - 1 |-> a[i]]
    BY <1>9
  <2> QED BY <1>12, <2>1
<1>14. k \in DOMAIN Laid(v, t, "big")
  BY <1>0, <1>9 DEF Laid
<1> QED BY <1>11, <1>13, <1>14 DEF Encoding!Less

LEMMA BytesOfItem ==
    ASSUME NEW i, LiesIn(i, dst)
    PROVE  Encoding!BytesOf(i) = Laid(i.value, i.type, i.order)
<1>1. PICK p \in Nat, n \in Nat : p = i.at /\ n = i.type.size
  BY ItemsTypes DEF LiesIn
<1>2. Encoding!BytesOf(i) = [k \in 1 .. n |-> dst[p + k]]
  <2>1. p + n - (p + 1) + 1 = n /\ \A k \in 1 .. n : (p + 1) + k - 1 = p + k
    OBVIOUS
  <2>2. SubSeq(dst, p + 1, p + n) = [k \in 1 .. n |-> dst[p + k]]
    BY <2>1
  <2> QED BY <1>1, <2>2 DEF Encoding!BytesOf
<1>3. \A k \in 1 .. n : dst[p + k] = Laid(i.value, i.type, i.order)[k]
  BY <1>1 DEF LiesIn
<1> QED BY <1>1, <1>2, <1>3 DEF Laid

LEMMA EncodingInvSafe == ASSUME EncodingInv PROVE IntegersSurvive
<1>1. \A n \in DOMAIN items :
          /\ items[n] \in Items /\ items[n].value \in Encoding!InType(items[n].type)
          /\ Encoding!BytesOf(items[n])
                 = Laid(items[n].value, items[n].type, items[n].order)
  BY BytesOfItem DEF EncodingInv, LiesIn
<1>2. Encoding!DecodesWhatWasWritten
  <2> SUFFICES ASSUME NEW n \in DOMAIN items
               PROVE  Encoding!Decoded(dst, items[n].type, items[n].order, items[n].at)
                          = items[n].value
    BY DEF Encoding!DecodesWhatWasWritten
  <2>1. Encoding!Decoded(dst, items[n].type, items[n].order, items[n].at)
            = Encoding!Ordered(Encoding!ValueOf(Encoding!BytesOf(items[n]), items[n].type),
                               items[n].type, items[n].order)
    BY DEF Encoding!Decoded, Encoding!BytesOf
  <2> QED BY <1>1, <2>1, DecodedBack, ItemsTypes DEF EncodingInv
<1>3. Encoding!BigEndianKeepsOrder
  <2> SUFFICES ASSUME NEW n \in DOMAIN items, NEW m \in DOMAIN items,
                      items[n].type = items[m].type, ~items[n].type.signed,
                      items[n].order = "big", items[m].order = "big"
               PROVE  items[n].value < items[m].value <=>
                          Encoding!Less(Encoding!BytesOf(items[n]),
                                        Encoding!BytesOf(items[m]))
    BY DEF Encoding!BigEndianKeepsOrder
  <2> QED BY <1>1, LaidLess, LessLaid, ItemsTypes
<1>4. Encoding!OrdersAreReverse
  <2> SUFFICES ASSUME NEW n \in DOMAIN items, NEW m \in DOMAIN items,
                      items[n].type = items[m].type,
                      items[n].value = items[m].value,
                      items[n].order # items[m].order
               PROVE  Encoding!BytesOf(items[n])
                          = Encoding!Reverse(Encoding!BytesOf(items[m]))
    BY DEF Encoding!OrdersAreReverse
  <2>1. items[n].order = IF items[m].order = "little" THEN "big" ELSE "little"
    BY <1>1, ItemsTypes DEF Encoding!Order
  <2> QED BY <1>1, <2>1, LaidBytes, ItemsTypes
<1> QED BY <1>2, <1>3, <1>4 DEF IntegersSurvive, Encoding!IntegersSurvive

\* encode: in a byte of any number of values, whatever integral types there
\* are, every integer is read back as it was written last in whichever order,
\* on a machine of either order, big-endian bytes compare as the numbers do,
\* and the two orders are each other's reverse.
THEOREM IntegersAlwaysSurvive == Spec => []IntegersSurvive
<1>1. Init => EncodingInv
  BY EncodingInit DEF Init
<1>2. EncodingInv /\ [Next]_vars => EncodingInv'
  BY EncodingStep, EncodingUnchanged DEF Next, vars
<1>3. EncodingInv => IntegersSurvive
  BY EncodingInvSafe
<1> QED BY <1>1, <1>2, <1>3, PTL DEF Spec
=============================================================================
