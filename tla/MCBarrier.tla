------------------------------ MODULE MCBarrier ------------------------------
(* Four threads, four rounds, and a round counter that wraps after two.   *)
EXTENDS Barrier, TLC

CONSTANTS t1, t2, t3, t4

MCThreads == {t1, t2, t3, t4}
=============================================================================
