------------------------------- MODULE Barrier -------------------------------
(***************************************************************************)
(* The re-usable thread barrier of src/src/utils/Concurrency.h, one action *)
(* per access to its two atomics (cntr and round).  Every thread calls     *)
(* wait(finalizer) Waits times, as the sender threads of main.cc do.       *)
(***************************************************************************)
EXTENDS Integers, FiniteSets

CONSTANTS
    Threads,    \* the threads that share the barrier; threadCount is their number
    Waits,      \* how often each of them calls wait()
    RoundMod    \* 2^8 in the code: round is a uint8_t and wraps

ASSUME ThreadsAssumption == IsFiniteSet(Threads) /\ Threads # {}
ASSUME WaitsAssumption == Waits \in Nat
ASSUME RoundModAssumption == RoundMod \in Nat /\ RoundMod >= 2

threadCount == Cardinality(Threads)

VARIABLES
    cntr,       \* threads still to arrive
    round,      \* wraps modulo RoundMod
    prevRound,  \* prevRound[t]: the local variable of wait()
    pc,         \* pc[t]: where t stands in wait()
    passed,     \* history: how many calls of wait() of t have returned
    finalized   \* history: how often a finalizer has run

vars == <<cntr, round, prevRound, pc, passed, finalized>>

\* Where a thread that has decremented the counter can stand.
Arrived == {"spin", "reset", "finalizer", "bump"}
\* Where the last thread to arrive stands while it opens the barrier.
Last == {"reset", "finalizer", "bump"}

TypeOK ==
    /\ cntr \in 0 .. threadCount
    /\ round \in 0 .. RoundMod - 1
    /\ prevRound \in [Threads -> 0 .. RoundMod - 1]
    /\ pc \in [Threads -> {"out", "loaded"} \cup Arrived]
    /\ passed \in [Threads -> Nat]
    /\ finalized \in Nat

Init ==
    /\ cntr = threadCount
    /\ round = 0
    /\ prevRound = [t \in Threads |-> 0]
    /\ pc = [t \in Threads |-> "out"]
    /\ passed = [t \in Threads |-> 0]
    /\ finalized = 0

Goto(t, from, to) ==
    /\ pc[t] = from
    /\ pc' = [pc EXCEPT ![t] = to]

(***************************************************************************)
(* wait(finalizer)                                                         *)
(***************************************************************************)

\* auto prevRound = round.load();  // Must happen before fetch_sub
LoadRound(t) ==
    /\ passed[t] < Waits
    /\ Goto(t, "out", "loaded")
    /\ prevRound' = [prevRound EXCEPT ![t] = round]
    /\ UNCHANGED <<cntr, round, passed, finalized>>

\* Mutant: the new value of the counter is compared, fetch_sub returns the old.
FetchSubNewValue(t) ==
    /\ Goto(t, "loaded", IF cntr - 1 = 1 THEN "reset" ELSE "spin")
    /\ cntr' = cntr - 1
    /\ UNCHANGED <<round, prevRound, passed, finalized>>

\* auto prev = cntr.fetch_sub(1); the thread that finds 1 opens the barrier.
FetchSub(t) ==
    /\ Goto(t, "loaded", IF cntr = 1 THEN "reset" ELSE "spin")
    /\ cntr' = cntr - 1
    /\ UNCHANGED <<round, prevRound, passed, finalized>>

\* Mutant: the finalizer is not called.
ResetCntrOnly(t) ==
    /\ Goto(t, "reset", "bump")
    /\ cntr' = threadCount
    /\ UNCHANGED <<round, prevRound, passed, finalized>>

\* cntr = threadCount;
ResetCntr(t) ==
    /\ Goto(t, "reset", "finalizer")
    /\ cntr' = threadCount
    /\ UNCHANGED <<round, prevRound, passed, finalized>>

\* auto r = finalizer();
Finalizer(t) ==
    /\ Goto(t, "finalizer", "bump")
    /\ finalized' = finalized + 1
    /\ UNCHANGED <<cntr, round, prevRound, passed>>

\* round++; return r;
BumpRound(t) ==
    /\ Goto(t, "bump", "out")
    /\ round' = (round + 1) % RoundMod
    /\ passed' = [passed EXCEPT ![t] = @ + 1]
    /\ UNCHANGED <<cntr, prevRound, finalized>>

\* Mutant: waits for a larger round, not for another one.
LeaveSpinLarger(t) ==
    /\ round > prevRound[t]
    /\ Goto(t, "spin", "out")
    /\ passed' = [passed EXCEPT ![t] = @ + 1]
    /\ UNCHANGED <<cntr, round, prevRound, finalized>>

\* while (round == prevRound) pause; return false;
LeaveSpin(t) ==
    /\ round # prevRound[t]
    /\ Goto(t, "spin", "out")
    /\ passed' = [passed EXCEPT ![t] = @ + 1]
    /\ UNCHANGED <<cntr, round, prevRound, finalized>>

\* Mutant: the round is advanced before the counter is reset.
OpenBeforeReset(t) ==
    \/ LoadRound(t)
    \/ FetchSub(t)
    \/ /\ Goto(t, "reset", "finalizer")
       /\ round' = (round + 1) % RoundMod
       /\ UNCHANGED <<cntr, prevRound, passed, finalized>>
    \/ Finalizer(t)
    \/ /\ Goto(t, "bump", "out")
       /\ cntr' = threadCount
       /\ passed' = [passed EXCEPT ![t] = @ + 1]
       /\ UNCHANGED <<round, prevRound, finalized>>
    \/ LeaveSpin(t)

WaitStep(t) ==
    \/ LoadRound(t)
    \/ FetchSub(t)
    \/ ResetCntr(t)
    \/ Finalizer(t)
    \/ BumpRound(t)
    \/ LeaveSpin(t)

Next == \E t \in Threads : WaitStep(t)

\* The operating system keeps scheduling every thread.
Fairness == \A t \in Threads : WF_vars(WaitStep(t))

Spec == Init /\ [][Next]_vars

FairSpec == Spec /\ Fairness

-----------------------------------------------------------------------------
\* How many calls of wait() thread t has arrived in.
arrivals(t) == passed[t] + (IF pc[t] \in Arrived THEN 1 ELSE 0)

\* No thread returns from its k-th wait() before every thread has arrived in
\* its k-th wait(), although counter and round are re-used for every round.
NobodyLeavesEarly == \A t, u \in Threads : passed[t] <= arrivals(u)

\* The finalizer of the k-th round runs once, after every thread has arrived
\* in round k and before any thread returns from it.
FinalizerRunsOncePerRound ==
    \A t \in Threads : passed[t] <= finalized /\ finalized <= arrivals(t)

-----------------------------------------------------------------------------
(***************************************************************************)
(* The inductive invariant behind the two properties.                      *)
(***************************************************************************)

\* How many rounds are over, that is, how often round has been advanced.
completed ==
    IF \E t \in Threads : pc[t] = "bump" THEN finalized - 1 ELSE finalized

\* The threads that spin in the current round; the other spinning threads have
\* been released and have not noticed yet.
Waiting == {t \in Threads : pc[t] = "spin" /\ passed[t] = completed}

\* A thread is in the current round, or spins in the one before it.
ThreadsInStep ==
    \A t \in Threads :
        /\ pc[t] # "spin" => passed[t] = completed
        /\ pc[t] = "loaded" => passed[t] < Waits
        /\ pc[t] = "spin" => passed[t] \in {completed - 1, completed}

\* A thread that has yet to arrive, or waits, holds the current round number.
RoundKnown ==
    \A t \in Threads :
        pc[t] = "loaded" \/ t \in Waiting => prevRound[t] = round

\* While one thread opens the barrier, all others wait.
OpenerAlone ==
    \A t, u \in Threads : pc[t] \in Last /\ u # t => u \in Waiting

\* The counter counts the threads that do not wait, until it is reset.
CounterCounts ==
    /\ (\A t \in Threads : pc[t] \notin Last) =>
           /\ cntr = threadCount - Cardinality(Waiting)
           /\ Waiting # Threads
    /\ \A t \in Threads : pc[t] = "reset" => cntr = 0
    /\ \A t \in Threads : pc[t] \in {"finalizer", "bump"} => cntr = threadCount

\* The strengthening of NobodyLeavesEarly and FinalizerRunsOncePerRound that
\* every step of wait() preserves.
BarrierInv ==
    /\ TypeOK
    /\ completed \in Nat
    /\ ThreadsInStep
    /\ RoundKnown
    /\ OpenerAlone
    /\ CounterCounts

-----------------------------------------------------------------------------
Abstract == INSTANCE AbstractBarrier WITH
    arrived <- [t \in Threads |-> arrivals(t)],
    left <- passed

\* wait() implements AbstractBarrier: all arrive, one finalizer runs, all leave.
AbstractSpec == Abstract!Spec

\* Every thread comes back from every one of its wait() calls, also when the
\* round counter has wrapped in between.
AllThreadsReturn == <>(\A t \in Threads : pc[t] = "out" /\ passed[t] = Waits)
=============================================================================
