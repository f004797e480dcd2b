--------------------------- MODULE SpinLockProofs ---------------------------
(* Proofs about SpinLock, for every set of threads.                         *)
EXTENDS SpinLock, TLAPS

\* The invariant that carries mutual exclusion: excluding each other is kept
\* only because the flag tells whether somebody is inside.
IInv == TypeOK /\ MutualExclusion /\ FlagIffHeld

\* Callers that take FALSE for "acquired", as lock() does, keep the
\* invariant in every step.
LEMMA StepKeepsIInv ==
    ASSUME AcquiredValue = FALSE, IInv, [Next]_vars
    PROVE  IInv'
<1> USE DEF IInv, TypeOK, MutualExclusion, FlagIffHeld, InCS, Goto, Places
<1>1. ASSUME NEW t \in Thread, CallLock(t)
      PROVE  IInv'
  BY <1>1 DEF CallLock
<1>2. ASSUME NEW t \in Thread, LockAttempt(t)
      PROVE  IInv'
  <2>1. CASE m_flag
    BY <1>2, <2>1 DEF LockAttempt
  <2>2. CASE ~m_flag
    BY <1>2, <2>2 DEF LockAttempt
  <2> QED BY <2>1, <2>2
<1>3. ASSUME NEW t \in Thread, Spin(t) \/ SpinStale(t)
      PROVE  IInv'
  BY <1>3 DEF Spin, SpinStale
<1>4. ASSUME NEW t \in Thread, CallTryLock(t)
      PROVE  IInv'
  <2>1. CASE m_flag
    BY <1>4, <2>1 DEF CallTryLock
  <2>2. CASE ~m_flag
    BY <1>4, <2>2 DEF CallTryLock
  <2> QED BY <2>1, <2>2
<1>5. ASSUME NEW t \in Thread, Unlock(t)
      PROVE  IInv'
  BY <1>5 DEF Unlock
<1>6. ASSUME UNCHANGED vars
      PROVE  IInv'
  BY <1>6 DEF vars
<1> QED BY <1>1, <1>2, <1>3, <1>4, <1>5, <1>6 DEF Next

LEMMA InitIInv == Init => IInv
BY DEF Init, IInv, TypeOK, MutualExclusion, FlagIffHeld, InCS, Places

LEMMA AlwaysIInv ==
    ASSUME AcquiredValue = FALSE
    PROVE  Spec => []IInv
<1>1. IInv /\ [Next]_vars => IInv'
  BY StepKeepsIInv
<1> QED BY <1>1, InitIInv, PTL DEF Spec

\* lock(), unlock() and a try_lock() read as "FALSE is acquired" never let
\* two threads into the critical section.
THEOREM SpinLockExcludes ==
    ASSUME AcquiredValue = FALSE
    PROVE  Spec => []MutualExclusion
<1>1. IInv => MutualExclusion
  BY DEF IInv
<1> QED BY <1>1, AlwaysIInv, PTL

\* The flag is never left set with nobody to clear it.
THEOREM SpinLockFlag ==
    ASSUME AcquiredValue = FALSE
    PROVE  Spec => []FlagIffHeld
<1>1. IInv => FlagIffHeld
  BY DEF IInv
<1> QED BY <1>1, AlwaysIInv, PTL

-----------------------------------------------------------------------------
Holders == {t \in Thread : InCS(t)}

LEMMA StepRefines ==
    ASSUME AcquiredValue = FALSE, IInv, [Next]_vars
    PROVE  [Abstract!MutexNext]_Holders
<1> USE DEF IInv, TypeOK, FlagIffHeld, InCS, Goto, Places, Holders
<1>1. ASSUME NEW t \in Thread,
             CallLock(t) \/ Spin(t) \/ SpinStale(t)
      PROVE  Holders' = Holders
  BY <1>1 DEF CallLock, Spin, SpinStale
<1>2. ASSUME NEW t \in Thread, LockAttempt(t) \/ CallTryLock(t), ~m_flag
      PROVE  Holders = {} /\ Holders' = {t}
  BY <1>2 DEF LockAttempt, CallTryLock
<1>3. ASSUME NEW t \in Thread, LockAttempt(t) \/ CallTryLock(t), m_flag
      PROVE  Holders' = Holders
  BY <1>3 DEF LockAttempt, CallTryLock
<1>4. ASSUME NEW t \in Thread, Unlock(t)
      PROVE  Holders = {t} /\ Holders' = {}
  BY <1>4 DEF Unlock, MutualExclusion
<1>5. ASSUME UNCHANGED vars
      PROVE  Holders' = Holders
  BY <1>5 DEF vars
<1> QED
  BY <1>1, <1>2, <1>3, <1>4, <1>5
  DEF Next, Abstract!MutexNext, Abstract!Acquire, Abstract!Release

\* spin_lock implements the abstract lock the other modules use.
THEOREM SpinLockImplementsMutex ==
    ASSUME AcquiredValue = FALSE
    PROVE  Spec => ImplementsMutex
<1>1. Init => Abstract!MutexInit
  BY DEF Init, Abstract!MutexInit, InCS
<1>2. IInv /\ [Next]_vars => [Abstract!MutexNext]_{t \in Thread : InCS(t)}
  BY StepRefines DEF Holders
<1> QED
  BY <1>1, <1>2, AlwaysIInv, PTL DEF Spec, ImplementsMutex, Abstract!MutexSpec
=============================================================================
