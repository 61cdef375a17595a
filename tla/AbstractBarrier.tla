--------------------------- MODULE AbstractBarrier ---------------------------
(***************************************************************************)
(* What a caller of Barrier::wait may rely on, without counter or round:   *)
(* threads arrive, one finalizer runs when all of them have, and only then *)
(* may they leave.                                                         *)
(***************************************************************************)
EXTENDS Integers

CONSTANTS Threads, Waits

VARIABLES
    arrived,    \* arrived[t]: calls of wait() that t has arrived in
    left,       \* left[t]: calls of wait() that t has returned from
    finalized   \* rounds whose finalizer has run

absVars == <<arrived, left, finalized>>

Init ==
    /\ arrived = [t \in Threads |-> 0]
    /\ left = [t \in Threads |-> 0]
    /\ finalized = 0

Arrive(t) ==
    /\ arrived[t] = left[t]
    /\ arrived[t] < Waits
    /\ arrived' = [arrived EXCEPT ![t] = @ + 1]
    /\ UNCHANGED <<left, finalized>>

\* Everybody is there and the round has not been finalized.
RunFinalizer ==
    /\ \A t \in Threads : arrived[t] = finalized + 1
    /\ finalized' = finalized + 1
    /\ UNCHANGED <<arrived, left>>

Leave(t) ==
    /\ left[t] < arrived[t]
    /\ arrived[t] = finalized
    /\ left' = [left EXCEPT ![t] = @ + 1]
    /\ UNCHANGED <<arrived, finalized>>

Next == RunFinalizer \/ \E t \in Threads : Arrive(t) \/ Leave(t)

Spec == Init /\ [][Next]_absVars
=============================================================================
