------------------------------ MODULE SpinLock ------------------------------
(***************************************************************************)
(* toolpex::spin_lock (include/toolpex/spin_lock.h): a test-and-set lock   *)
(* over one std::atomic_flag.  Each thread either calls lock(), which      *)
(* tests and sets the flag and then spins on a relaxed load until the flag *)
(* looks clear, or calls try_lock() and decides from its result whether it *)
(* holds the lock.                                                         *)
(*                                                                         *)
(* The flag is one atomic object, so test_and_set and clear are single     *)
(* steps.  The relaxed load of the inner loop may return an older value;   *)
(* reading a stale "set" is the thread staying in the loop, and reading a  *)
(* stale "clear" only sends it back to the test_and_set, where it loses:   *)
(* SpinStale is that second case.                                          *)
(***************************************************************************)
CONSTANTS
    Thread,         \* the threads sharing the lock
    AcquiredValue   \* the result of try_lock() a caller takes for "I hold it"

ASSUME AcquiredValueAssumption == AcquiredValue \in BOOLEAN

VARIABLES
    m_flag,         \* the atomic_flag
    pc              \* where each thread is

vars == <<m_flag, pc>>

\* idle: outside the lock;  tas: in lock(), before try_lock();
\* spin: in lock()'s inner loop;  cs: between a successful lock and unlock()
Places == {"idle", "tas", "spin", "cs"}

Init == /\ m_flag = FALSE
        /\ pc = [t \in Thread |-> "idle"]

Goto(t, place) == pc' = [pc EXCEPT ![t] = place]

CallLock(t) == /\ pc[t] = "idle"
               /\ Goto(t, "tas")
               /\ UNCHANGED m_flag

\* One evaluation of the outer loop's condition.  try_lock() sets the flag
\* and returns what it was; lock() takes "it was clear" for success.
LockAttempt(t) == /\ pc[t] = "tas"
                  /\ m_flag' = TRUE
                  /\ Goto(t, IF m_flag THEN "spin" ELSE "cs")

\* Mutant of Spin: the thread leaves lock() without the second test_and_set.
MutantSpinEnters(t) == /\ pc[t] = "spin"
                       /\ ~m_flag
                       /\ Goto(t, "cs")
                       /\ UNCHANGED m_flag

\* The inner loop sees a clear flag and goes back to the outer condition.
Spin(t) == /\ pc[t] = "spin"
           /\ ~m_flag
           /\ Goto(t, "tas")
           /\ UNCHANGED m_flag

\* The same on a stale relaxed load: the flag is set again by now.
SpinStale(t) == /\ pc[t] = "spin"
                /\ m_flag
                /\ Goto(t, "tas")
                /\ UNCHANGED m_flag

\* Mutant of CallTryLock: the result is read the other way round.
MutantTryLockInverted(t) ==
    /\ pc[t] = "idle"
    /\ m_flag' = TRUE
    /\ Goto(t, IF m_flag = AcquiredValue THEN "idle" ELSE "cs")

\* Mutant of CallTryLock: a caller that got the lock gives up all the same.
MutantTryLockForgets(t) == /\ pc[t] = "idle"
                           /\ m_flag' = TRUE
                           /\ Goto(t, "idle")

\* try_lock() called by user code, which enters its critical section when
\* the result is the one it expects of an acquired lock.
CallTryLock(t) == /\ pc[t] = "idle"
                  /\ m_flag' = TRUE
                  /\ Goto(t, IF m_flag = AcquiredValue THEN "cs" ELSE "idle")

\* Mutant of Unlock: the flag stays set.
MutantUnlockKeepsFlag(t) == /\ pc[t] = "cs"
                            /\ Goto(t, "idle")
                            /\ UNCHANGED m_flag

Unlock(t) == /\ pc[t] = "cs"
             /\ m_flag' = FALSE
             /\ Goto(t, "idle")

Next == \E t \in Thread : \/ CallLock(t)
                          \/ LockAttempt(t)
                          \/ Spin(t)
                          \/ SpinStale(t)
                          \/ CallTryLock(t)
                          \/ Unlock(t)

Spec == Init /\ [][Next]_vars

(***************************************************************************)
(* A running thread keeps executing the loop it is in, and a critical      *)
(* section ends.  Nothing makes a thread call lock() or try_lock(), and    *)
(* the lock is not fair: no thread is promised a turn.                     *)
(***************************************************************************)
Fairness == \A t \in Thread : /\ WF_vars(LockAttempt(t))
                              /\ WF_vars(Spin(t))
                              /\ WF_vars(Unlock(t))

FairSpec == Spec /\ Fairness

-----------------------------------------------------------------------------
InCS(t) == pc[t] = "cs"

\* The flag is a boolean and every thread is at a known place.
TypeOK == /\ m_flag \in BOOLEAN
          /\ pc \in [Thread -> Places]

\* Two threads are never between their lock and unlock at the same time,
\* however their test_and_sets, relaxed loads and clears interleave.
MutualExclusion == \A t, u \in Thread : InCS(t) /\ InCS(u) => t = u

\* The flag is set exactly while somebody is there to clear it: it is never
\* left set by a thread that went away (all later lock() calls would spin
\* for ever), nor clear while a critical section is running.
FlagIffHeld == m_flag <=> \E t \in Thread : InCS(t)

\* spin_lock implements Mutex: the holders are the threads in their critical
\* section.
Abstract == INSTANCE Mutex WITH holders <- {t \in Thread : InCS(t)}
ImplementsMutex == Abstract!MutexSpec

\* Whenever some thread is inside lock(), some thread gets the lock: the
\* threads never all spin on a flag that nobody will clear.
LockProgress ==
    (\E t \in Thread : pc[t] \in {"tas", "spin"}) ~> (\E t \in Thread : InCS(t))
=============================================================================
