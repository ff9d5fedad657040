----------------------------- MODULE MCSpinRwLock -----------------------------
(* A small instance of SpinRwLock for TLC. *)
EXTENDS SpinRwLock

CONSTANTS t1, t2, t3, t4

FourThreads == {t1, t2, t3, t4}
=============================================================================
