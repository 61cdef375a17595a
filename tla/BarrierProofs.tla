---------------------------- MODULE BarrierProofs ----------------------------
(***************************************************************************)
(* For every number of threads and of calls and every modulus of round:    *)
(* nobody leaves the barrier early, each round has one finalizer, and      *)
(* Barrier implements AbstractBarrier.                                     *)
(***************************************************************************)
EXTENDS Barrier, FiniteSetTheorems, TLAPS

\* threadCount is a positive number.
LEMMA ThreadCountPositive == threadCount \in Nat /\ threadCount > 0
<1>1. threadCount \in Nat
    BY FS_CardinalityType, ThreadsAssumption DEF threadCount
<1>2. threadCount # 0
    BY FS_EmptySet, ThreadsAssumption DEF threadCount
<1> QED BY <1>1, <1>2

\* Every set of waiting threads is finite and no larger than Threads; if all
\* but one thread are in it, it is everything but that thread.
LEMMA WaitingCount ==
    ASSUME NEW W \in SUBSET Threads
    PROVE  /\ IsFiniteSet(W)
           /\ Cardinality(W) \in Nat
           /\ Cardinality(W) <= threadCount
           /\ Cardinality(W) = threadCount => W = Threads
BY FS_Subset, FS_CardinalityType, ThreadsAssumption DEF threadCount

\* One more waiting thread is counted once.
LEMMA WaitingGrows ==
    ASSUME NEW W \in SUBSET Threads, NEW t \in Threads \ W
    PROVE  Cardinality(W \cup {t}) = Cardinality(W) + 1
BY FS_AddElement, WaitingCount

\* The state in which every thread is outside and nothing has happened.
LEMMA InitEstablishesInv == Init => BarrierInv
<1> SUFFICES ASSUME Init PROVE BarrierInv
    OBVIOUS
<1> USE DEF Init
<1>1. TypeOK
    BY ThreadCountPositive, RoundModAssumption DEF TypeOK, Arrived
<1>2. completed = 0 /\ Waiting = {}
    BY DEF completed, Waiting
<1>3. Cardinality({}) = 0
    BY FS_EmptySet
<1>4. CounterCounts
    BY <1>2, <1>3, ThreadCountPositive, ThreadsAssumption DEF CounterCounts, Last
<1> QED
    BY <1>1, <1>2, <1>4 DEF BarrierInv, ThreadsInStep, RoundKnown, OpenerAlone, Last

\* A thread that is about to decrement finds at least one: itself.
LEMMA CounterPositive ==
    ASSUME BarrierInv, NEW t \in Threads, pc[t] = "loaded"
    PROVE  /\ \A u \in Threads : pc[u] \notin Last
           /\ cntr = threadCount - Cardinality(Waiting)
           /\ cntr > 0
           /\ cntr = 1 => Waiting = Threads \ {t}
<1> USE DEF BarrierInv
<1>1. \A u \in Threads : pc[u] \notin Last
    BY DEF OpenerAlone, Waiting, Last
<1>2. cntr = threadCount - Cardinality(Waiting) /\ Waiting # Threads
    BY <1>1 DEF CounterCounts
<1>3. Waiting \in SUBSET Threads /\ t \in Threads \ Waiting
    BY DEF Waiting
<1>4. cntr > 0
    BY <1>2, <1>3, WaitingCount, ThreadCountPositive
<1>5. ASSUME cntr = 1 PROVE Waiting = Threads \ {t}
    <2>1. Cardinality(Waiting \cup {t}) = threadCount
        BY <1>2, <1>3, <1>5, WaitingGrows, WaitingCount, ThreadCountPositive
    <2>2. Waiting \cup {t} = Threads
        BY <2>1, <1>3, WaitingCount
    <2> QED BY <2>2, <1>3
<1> QED BY <1>1, <1>2, <1>4, <1>5

-----------------------------------------------------------------------------
\* Every step of wait() preserves the types.
LEMMA StepKeepsTypes ==
    ASSUME BarrierInv, NEW t \in Threads, WaitStep(t)
    PROVE  TypeOK'
<1> USE DEF TypeOK, Goto, Arrived
<1>0. TypeOK
    BY DEF BarrierInv
<1>1. CASE LoadRound(t)
    BY <1>0, <1>1 DEF LoadRound
<1>2. CASE FetchSub(t)
    BY <1>0, <1>2, CounterPositive, ThreadCountPositive DEF FetchSub
<1>3. CASE ResetCntr(t)
    BY <1>0, <1>3, ThreadCountPositive DEF ResetCntr
<1>4. CASE Finalizer(t)
    BY <1>0, <1>4 DEF Finalizer
<1>5. CASE BumpRound(t)
    BY <1>0, <1>5, RoundModAssumption DEF BumpRound
<1>6. CASE LeaveSpin(t)
    BY <1>0, <1>6 DEF LeaveSpin
<1> QED
    BY <1>1, <1>2, <1>3, <1>4, <1>5, <1>6 DEF WaitStep

\* Before t arrives it is outside, and nothing else moves.
LEMMA LoadRoundKeepsInv ==
    ASSUME BarrierInv, NEW t \in Threads, LoadRound(t)
    PROVE  BarrierInv'
<1> USE DEF LoadRound, Goto
<1>0. TypeOK /\ TypeOK'
    BY StepKeepsTypes DEF WaitStep, BarrierInv
<1>1. completed' = completed /\ completed \in Nat
    BY <1>0 DEF completed, BarrierInv, TypeOK
<1>2. Waiting' = Waiting
    BY <1>0, <1>1 DEF Waiting, TypeOK
<1>3. ThreadsInStep'
    BY <1>0, <1>1 DEF ThreadsInStep, BarrierInv, TypeOK
<1>4. RoundKnown'
    BY <1>0, <1>2 DEF RoundKnown, BarrierInv, TypeOK, Waiting
<1>5. OpenerAlone'
    BY <1>0, <1>2 DEF OpenerAlone, BarrierInv, TypeOK, Last
<1>6. CounterCounts'
    BY <1>0, <1>2 DEF CounterCounts, BarrierInv, TypeOK, Last
<1> QED
    BY <1>0, <1>1, <1>3, <1>4, <1>5, <1>6 DEF BarrierInv

\* t joins the waiting threads, or is the last to arrive and all others wait.
LEMMA FetchSubKeepsInv ==
    ASSUME BarrierInv, NEW t \in Threads, FetchSub(t)
    PROVE  BarrierInv'
<1> USE DEF FetchSub, Goto
<1>0. TypeOK /\ TypeOK'
    BY StepKeepsTypes DEF WaitStep, BarrierInv
<1>1. /\ \A u \in Threads : pc[u] \notin Last
      /\ cntr = threadCount - Cardinality(Waiting)
      /\ cntr > 0
      /\ cntr = 1 => Waiting = Threads \ {t}
    BY CounterPositive
<1>2. completed' = completed /\ completed \in Nat
    BY <1>0 DEF completed, BarrierInv, TypeOK
<1>3. ThreadsInStep'
    BY <1>0, <1>2 DEF ThreadsInStep, BarrierInv, TypeOK
<1>4. CASE cntr = 1
    <2>1. Waiting' = Waiting
        BY <1>0, <1>2, <1>4 DEF Waiting, TypeOK
    <2>2. RoundKnown'
        BY <1>0, <1>4, <2>1 DEF RoundKnown, BarrierInv, TypeOK, Waiting
    <2>3. OpenerAlone'
        BY <1>0, <1>1, <1>4, <2>1 DEF OpenerAlone, TypeOK, Last
    <2>4. CounterCounts'
        BY <1>0, <1>1, <1>4 DEF CounterCounts, TypeOK, Last
    <2> QED
        BY <1>0, <1>2, <1>3, <2>2, <2>3, <2>4 DEF BarrierInv
<1>5. CASE cntr # 1
    <2>1. passed[t] = completed /\ t \notin Waiting
        BY DEF BarrierInv, ThreadsInStep, Waiting
    <2>2. Waiting' = Waiting \cup {t}
        BY <1>0, <1>2, <1>5, <2>1 DEF Waiting, TypeOK
    <2>3. RoundKnown'
        BY <1>0, <1>5, <2>2 DEF RoundKnown, BarrierInv, TypeOK
    <2>4. \A u \in Threads : pc'[u] \notin Last
        BY <1>0, <1>1, <1>5 DEF TypeOK, Last
    <2>5. CounterCounts'
        <3>1. Waiting \in SUBSET Threads /\ t \in Threads \ Waiting
            BY <2>1 DEF Waiting
        <3>2. cntr' = threadCount - Cardinality(Waiting')
            BY <1>1, <2>2, <3>1, WaitingGrows, WaitingCount, ThreadCountPositive
        <3>3. Cardinality(Waiting') # threadCount
            BY <1>1, <1>5, <2>2, <3>1, <3>2, WaitingGrows, WaitingCount,
               ThreadCountPositive
        <3>4. Waiting' # Threads
            BY <3>3 DEF threadCount
        <3>5. threadCount' = threadCount
            BY DEF threadCount
        <3> QED
            BY <2>4, <3>2, <3>4, <3>5 DEF CounterCounts, Last
    <2> QED
        BY <1>0, <1>2, <1>3, <2>3, <2>4, <2>5 DEF BarrierInv, OpenerAlone
<1> QED
    BY <1>4, <1>5

\* The opener puts the counter back; all other threads wait.
LEMMA ResetCntrKeepsInv ==
    ASSUME BarrierInv, NEW t \in Threads, ResetCntr(t)
    PROVE  BarrierInv'
<1> USE DEF ResetCntr, Goto
<1>0. TypeOK /\ TypeOK'
    BY StepKeepsTypes DEF WaitStep, BarrierInv
<1>1. \A u \in Threads \ {t} : u \in Waiting /\ pc[u] = "spin"
    BY DEF BarrierInv, OpenerAlone, Last, Waiting
<1>2. completed' = completed /\ completed \in Nat
    BY <1>0, <1>1 DEF completed, BarrierInv, TypeOK
<1>3. Waiting' = Waiting
    BY <1>0, <1>2 DEF Waiting, TypeOK
<1>4. ThreadsInStep' /\ RoundKnown'
    BY <1>0, <1>2, <1>3 DEF ThreadsInStep, RoundKnown, BarrierInv, TypeOK
<1>5. OpenerAlone' /\ CounterCounts'
    BY <1>0, <1>1, <1>3 DEF OpenerAlone, CounterCounts, TypeOK, Last, threadCount
<1> QED
    BY <1>0, <1>2, <1>4, <1>5 DEF BarrierInv

\* finalized grows as the opener reaches round++, so completed stays.
LEMMA FinalizerKeepsInv ==
    ASSUME BarrierInv, NEW t \in Threads, Finalizer(t)
    PROVE  BarrierInv'
<1> USE DEF Finalizer, Goto
<1>0. TypeOK /\ TypeOK'
    BY StepKeepsTypes DEF WaitStep, BarrierInv
<1>1. \A u \in Threads \ {t} : u \in Waiting /\ pc[u] = "spin"
    BY DEF BarrierInv, OpenerAlone, Last, Waiting
<1>2. completed' = completed /\ completed \in Nat
    BY <1>0, <1>1 DEF completed, BarrierInv, TypeOK
<1>3. Waiting' = Waiting
    BY <1>0, <1>2 DEF Waiting, TypeOK
<1>4. ThreadsInStep' /\ RoundKnown'
    BY <1>0, <1>2, <1>3 DEF ThreadsInStep, RoundKnown, BarrierInv, TypeOK
<1>5. OpenerAlone' /\ CounterCounts'
    BY <1>0, <1>1, <1>3
    DEF OpenerAlone, CounterCounts, BarrierInv, TypeOK, Last, threadCount
<1> QED
    BY <1>0, <1>2, <1>4, <1>5 DEF BarrierInv

\* The opener releases all waiting threads at once: nobody waits any more.
LEMMA BumpRoundKeepsInv ==
    ASSUME BarrierInv, NEW t \in Threads, BumpRound(t)
    PROVE  BarrierInv'
<1> USE DEF BumpRound, Goto
<1>0. TypeOK /\ TypeOK'
    BY StepKeepsTypes DEF WaitStep, BarrierInv
<1>1. \A u \in Threads \ {t} : u \in Waiting /\ pc[u] = "spin" /\ passed[u] = completed
    BY DEF BarrierInv, OpenerAlone, Last, Waiting
<1>2. completed = finalized - 1 /\ completed' = finalized /\ completed \in Nat
    BY <1>0, <1>1 DEF completed, BarrierInv, TypeOK
<1>3. passed[t] = completed /\ cntr = threadCount
    BY DEF BarrierInv, ThreadsInStep, CounterCounts
<1>4. Waiting' = {}
    BY <1>0, <1>1, <1>2 DEF Waiting, TypeOK
<1>5. ThreadsInStep' /\ RoundKnown'
    BY <1>0, <1>1, <1>2, <1>3, <1>4 DEF ThreadsInStep, RoundKnown, TypeOK
<1>6. \A u \in Threads : pc'[u] \notin Last
    BY <1>0, <1>1 DEF TypeOK, Last
<1>7. CounterCounts'
    <2>1. cntr' = threadCount - Cardinality(Waiting')
        BY <1>3, <1>4, FS_EmptySet, ThreadCountPositive
    <2> QED
        BY <2>1, <1>4, <1>6, ThreadsAssumption DEF CounterCounts, Last, threadCount
<1> QED
    BY <1>0, <1>2, <1>5, <1>6, <1>7 DEF BarrierInv, OpenerAlone, TypeOK

\* A thread that sees another round has been released; it was not waiting.
LEMMA LeaveSpinKeepsInv ==
    ASSUME BarrierInv, NEW t \in Threads, LeaveSpin(t)
    PROVE  BarrierInv'
<1> USE DEF LeaveSpin, Goto
<1>0. TypeOK /\ TypeOK'
    BY StepKeepsTypes DEF WaitStep, BarrierInv
<1>1. t \notin Waiting /\ passed[t] = completed - 1
    BY DEF BarrierInv, RoundKnown, ThreadsInStep, Waiting
<1>2. completed' = completed /\ completed \in Nat
    BY <1>0 DEF completed, BarrierInv, TypeOK
<1>3. Waiting' = Waiting
    BY <1>0, <1>1, <1>2 DEF Waiting, TypeOK
<1>4. ThreadsInStep' /\ RoundKnown'
    BY <1>0, <1>1, <1>2, <1>3 DEF ThreadsInStep, RoundKnown, BarrierInv, TypeOK
<1>5. \A u \in Threads : pc[u] \notin Last /\ pc'[u] \notin Last
    BY <1>0, <1>1 DEF BarrierInv, OpenerAlone, TypeOK, Last
<1>6. OpenerAlone' /\ CounterCounts'
    BY <1>3, <1>5 DEF OpenerAlone, CounterCounts, BarrierInv, Last, threadCount
<1> QED
    BY <1>0, <1>2, <1>4, <1>6 DEF BarrierInv

\* BarrierInv is inductive.
LEMMA NextKeepsInv == BarrierInv /\ [Next]_vars => BarrierInv'
<1> SUFFICES ASSUME BarrierInv, [Next]_vars PROVE BarrierInv'
    OBVIOUS
<1>1. ASSUME NEW t \in Threads, WaitStep(t) PROVE BarrierInv'
    BY <1>1, LoadRoundKeepsInv, FetchSubKeepsInv, ResetCntrKeepsInv,
       FinalizerKeepsInv, BumpRoundKeepsInv, LeaveSpinKeepsInv DEF WaitStep
<1>2. CASE UNCHANGED vars
    BY <1>2 DEF vars, BarrierInv, TypeOK, completed, ThreadsInStep, RoundKnown,
                OpenerAlone, CounterCounts, Waiting, threadCount
<1> QED
    BY <1>1, <1>2 DEF Next

\* wait(): the inductive invariant holds in every reachable state.
THEOREM InvariantHolds == Spec => []BarrierInv
<1> QED BY InitEstablishesInv, NextKeepsInv, PTL DEF Spec

\* wait(): all variables keep their types; in particular the counter never
\* wraps below zero.
THEOREM TypesHold == Spec => []TypeOK
<1>1. BarrierInv => TypeOK
    BY DEF BarrierInv
<1> QED BY <1>1, InvariantHolds, PTL

\* A thread has passed at most the completed rounds, and has arrived in them.
LEMMA InStepBounds ==
    ASSUME BarrierInv, NEW t \in Threads
    PROVE  passed[t] <= completed /\ completed <= arrivals(t)
BY DEF BarrierInv, ThreadsInStep, TypeOK, arrivals, Arrived

\* wait(): no thread returns before all threads have arrived, in any round.
THEOREM NobodyLeavesEarlyHolds == Spec => []NobodyLeavesEarly
<1>1. ASSUME BarrierInv PROVE NobodyLeavesEarly
    <2> SUFFICES ASSUME NEW t \in Threads, NEW u \in Threads
                 PROVE  passed[t] <= arrivals(u)
        BY DEF NobodyLeavesEarly
    <2>1. passed[t] \in Nat /\ completed \in Nat /\ arrivals(u) \in Nat
        BY <1>1 DEF BarrierInv, TypeOK, arrivals
    <2> QED BY <1>1, <2>1, InStepBounds
<1> QED BY <1>1, InvariantHolds, PTL

\* wait(): the finalizer runs once per round, after all have arrived and before
\* anybody leaves.
THEOREM FinalizerRunsOncePerRoundHolds == Spec => []FinalizerRunsOncePerRound
<1>1. ASSUME BarrierInv, NEW t \in Threads
      PROVE  passed[t] <= finalized /\ finalized <= arrivals(t)
    <2>1. passed[t] \in Nat /\ completed \in Nat /\ finalized \in Nat
          /\ arrivals(t) \in Nat
        BY <1>1 DEF BarrierInv, TypeOK, arrivals
    <2>2. CASE \A u \in Threads : pc[u] # "bump"
        BY <1>1, <2>1, <2>2, InStepBounds DEF completed
    <2>3. CASE \E u \in Threads : pc[u] = "bump"
        <3>1. completed = finalized - 1
            BY <2>3 DEF completed
        <3>2. pc[t] \in Arrived /\ passed[t] = completed
            BY <1>1, <2>3
            DEF BarrierInv, OpenerAlone, ThreadsInStep, Waiting, Last, Arrived
        <3> QED BY <2>1, <3>1, <3>2 DEF arrivals
    <2> QED BY <2>2, <2>3
<1>2. BarrierInv => FinalizerRunsOncePerRound
    BY <1>1 DEF FinalizerRunsOncePerRound
<1> QED BY <1>2, InvariantHolds, PTL

-----------------------------------------------------------------------------
\* Each step of wait() is a step of AbstractBarrier or invisible to it.
LEMMA StepRefines ==
    ASSUME BarrierInv, NEW t \in Threads, WaitStep(t)
    PROVE  Abstract!Next \/ UNCHANGED Abstract!absVars
<1> DEFINE arr == [u \in Threads |-> arrivals(u)]
<1> USE DEF Goto, arrivals, Abstract!absVars, Arrived
<1>0. TypeOK
    BY DEF BarrierInv
<1>1. CASE LoadRound(t) \/ ResetCntr(t)
    BY <1>0, <1>1 DEF LoadRound, ResetCntr, TypeOK
<1>2. CASE FetchSub(t)
    <2>1. arr[t] = passed[t] /\ arr[t] < Waits
        BY <1>2 DEF FetchSub, BarrierInv, ThreadsInStep
    <2>2. arr' = [arr EXCEPT ![t] = @ + 1]
        <3>1. pc'[t] \in {"reset", "spin"} /\ pc[t] = "loaded" /\ passed' = passed
            BY <1>0, <1>2 DEF FetchSub, TypeOK
        <3>2. arr'[t] = arr[t] + 1
            BY <1>0, <3>1 DEF TypeOK
        <3>3. \A u \in Threads \ {t} : arr'[u] = arr[u]
            BY <1>0, <1>2 DEF FetchSub, TypeOK
        <3> QED BY <3>2, <3>3
    <2>3. passed' = passed /\ finalized' = finalized
        BY <1>2 DEF FetchSub
    <2>4. Abstract!Arrive(t)
        BY <2>1, <2>2, <2>3 DEF Abstract!Arrive
    <2> QED BY <2>4 DEF Abstract!Next
<1>3. CASE Finalizer(t)
    <2>1. \A u \in Threads : pc[u] # "bump" /\ pc[u] \in Arrived /\ passed[u] = completed
        BY <1>3 DEF Finalizer, BarrierInv, OpenerAlone, ThreadsInStep, Waiting, Last
    <2>2. completed = finalized
        BY <2>1 DEF completed
    <2>3. \A u \in Threads : arr[u] = finalized + 1
        BY <2>1, <2>2
    <2>4. arr' = arr /\ passed' = passed /\ finalized' = finalized + 1
        BY <1>0, <1>3 DEF Finalizer, TypeOK
    <2>5. Abstract!RunFinalizer
        BY <2>3, <2>4 DEF Abstract!RunFinalizer
    <2> QED BY <2>5 DEF Abstract!Next
<1>4. CASE BumpRound(t) \/ LeaveSpin(t)
    <2>1. arr[t] = finalized /\ passed[t] < arr[t]
        <3>1. CASE BumpRound(t)
            <4>1. completed = finalized - 1 /\ passed[t] = completed
                BY <3>1 DEF BumpRound, completed, BarrierInv, ThreadsInStep
            <4> QED BY <1>0, <3>1, <4>1 DEF BumpRound, TypeOK
        <3>2. CASE LeaveSpin(t)
            <4>1. t \notin Waiting /\ passed[t] = completed - 1
                BY <3>2 DEF LeaveSpin, BarrierInv, RoundKnown, ThreadsInStep, Waiting
            <4>2. completed = finalized
                BY <3>2, <4>1
                DEF LeaveSpin, completed, BarrierInv, OpenerAlone, Last
            <4> QED BY <1>0, <3>2, <4>1, <4>2 DEF LeaveSpin, TypeOK
        <3> QED BY <1>4, <3>1, <3>2
    <2>2. arr' = arr
        BY <1>0, <1>4 DEF BumpRound, LeaveSpin, TypeOK
    <2>3. passed' = [passed EXCEPT ![t] = @ + 1] /\ finalized' = finalized
        BY <1>4 DEF BumpRound, LeaveSpin
    <2>4. Abstract!Leave(t)
        BY <2>1, <2>2, <2>3 DEF Abstract!Leave
    <2> QED BY <2>4 DEF Abstract!Next
<1> QED
    BY <1>1, <1>2, <1>3, <1>4 DEF WaitStep

\* wait() implements the barrier its callers rely on.
THEOREM BarrierRefines == Spec => AbstractSpec
<1>1. Init => Abstract!Init
    BY DEF Init, Abstract!Init, arrivals, Arrived
<1>2. BarrierInv /\ [Next]_vars => [Abstract!Next]_(Abstract!absVars)
    <2> SUFFICES ASSUME BarrierInv, [Next]_vars
                 PROVE  Abstract!Next \/ UNCHANGED Abstract!absVars
        OBVIOUS
    <2>1. CASE Next
        BY <2>1, StepRefines DEF Next
    <2>2. CASE UNCHANGED vars
        BY <2>2 DEF vars, Abstract!absVars, arrivals
    <2> QED BY <2>1, <2>2
<1> QED
    BY <1>1, <1>2, InvariantHolds, PTL DEF Spec, AbstractSpec, Abstract!Spec
=============================================================================
