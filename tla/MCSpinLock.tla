----------------------------- MODULE MCSpinLock -----------------------------
(* Four threads: one in its critical section, one that has just seen the    *)
(* flag clear, one still spinning and one arriving can be told apart.       *)
EXTENDS SpinLock

CONSTANTS t1, t2, t3, t4
MCThread == {t1, t2, t3, t4}
=============================================================================
