------------------------------- MODULE Mutex -------------------------------
(***************************************************************************)
(* What a lock promises its callers: at any time at most one thread holds  *)
(* it, and it is handed over only by being released first.  SpinLock is    *)
(* shown to implement this module; the components that own a lock use it   *)
(* in place of the spinning.                                               *)
(***************************************************************************)
CONSTANT Thread

VARIABLE holders    \* the threads inside a critical section of the lock

MutexInit == holders = {}

Acquire(t) == /\ holders = {}
              /\ holders' = {t}

Release(t) == /\ holders = {t}
              /\ holders' = {}

MutexNext == \E t \in Thread : Acquire(t) \/ Release(t)

MutexSpec == MutexInit /\ [][MutexNext]_holders
=============================================================================
