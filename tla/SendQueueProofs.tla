--------------------------- MODULE SendQueueProofs ---------------------------
(***************************************************************************)
(* The send queue never runs full and completions find their operation,    *)
(* for every queue length and any number of posts.                         *)
(***************************************************************************)
EXTENDS SendQueue, SequenceTheorems, TLAPS

\* Nothing has been posted.
LEMMA InitEstablishesInv == Init => SendQueueInv
<1> SUFFICES ASSUME Init PROVE SendQueueInv
  OBVIOUS
<1>1. countWR \in 0 .. MaxWR - 1
  BY MaxWRAssumption DEF Init
<1>2. cq \in Seq(Nat)
  BY DEF Init
<1>c. garbage \in BOOLEAN /\ batches = garbage /\ size = 1
  BY DEF Init
<1>d. 1 \in 1 .. MaxBatch
  BY BatchAssumption, MaxWRAssumption
<1>a. size \in 1 .. MaxBatch /\ garbage \in BOOLEAN /\ batches \in BOOLEAN
  BY <1>c, <1>d
<1>3. TypeOK
  BY <1>1, <1>2, <1>a DEF Init, TypeOK
<1>b. posted - freed <= MaxBatch /\ posted - freed <= countWR
  BY BatchAssumption, MaxWRAssumption DEF Init
<1>4. Ordered /\ Quiet /\ Pending /\ Batched /\ ~failed
  BY <1>b DEF Init, Ordered, Quiet, Pending, Batched
<1> QED
  BY <1>3, <1>4 DEF SendQueueInv

\* A post between two operations, with at most MaxWR - 1 slots in use: it finds a
\* slot, and if it is signaled its completion is the only one to come.
LEMMA PostKeepsInv ==
  ASSUME SendQueueInv, pc = "idle", kind # "batch",
         NEW s \in BOOLEAN, NEW next \in {"idle", "wait", "collect"},
         s <=> next # "idle",
         countWR' \in 0 .. MaxWR - 1,
         ~s => countWR' = countWR + 1,
         Post(s, next), UNCHANGED <<kind, executed, freed, cq, batchVars>>
  PROVE  SendQueueInv'
<1>1. /\ posted - freed <= MaxWR - 1
      /\ posted \in Nat /\ freed \in Nat /\ executed \in Nat
      /\ signals = {} /\ cq = <<>>
      /\ freed <= executed /\ executed <= posted
  BY MaxWRAssumption DEF SendQueueInv, TypeOK, Ordered, Quiet
<1>2. /\ posted' = posted + 1
      /\ signals' = IF s THEN {posted + 1} ELSE {}
      /\ pc' = next
      /\ own' = IF s THEN posted + 1 ELSE own
      /\ failed' = failed
  BY <1>1, MaxWRAssumption DEF Post
<1>a. /\ cq' = cq /\ executed' = executed /\ freed' = freed
      /\ kind' = kind /\ batches' = batches /\ garbage' = garbage /\ size' = size
  BY DEF batchVars
<1>b. /\ cq \in Seq(Nat) /\ own \in Nat /\ failed \in BOOLEAN /\ ~failed
      /\ kind \in Kinds /\ batches \in BOOLEAN /\ garbage \in BOOLEAN /\ size \in 1 .. MaxBatch
  BY DEF SendQueueInv, TypeOK
<1>c. signals' \subseteq Nat /\ own' \in Nat /\ posted' \in Nat
  <2>1. CASE s
    BY <1>1, <1>2, <2>1
  <2>2. CASE ~s
    BY <1>1, <1>2, <1>b, <2>2
  <2> QED
    BY <2>1, <2>2
<1>3. TypeOK'
  BY <1>1, <1>2, <1>a, <1>b, <1>c DEF TypeOK
<1>4. Ordered'
  BY <1>1, <1>2 DEF Ordered
<1>5. Quiet'
  BY <1>1, <1>2 DEF SendQueueInv, TypeOK, Quiet
<1>6. Pending'
  <2> SUFFICES ASSUME next # "idle" PROVE Pending'
    BY <1>2 DEF Pending
  <2>s. s
    OBVIOUS
  <2>0. executed' < posted'
    BY <1>1, <1>2, <1>a
  <2>1. own' = posted' /\ signals' = {posted'} /\ cq' = <<>> /\ executed' < posted'
    BY <1>1, <1>2, <1>a, <2>0, <2>s
  <2>2. posted' - freed' <= MaxWR
    BY <1>1, <1>2, <1>a, MaxWRAssumption
  <2> QED
    BY <1>2, <2>1, <2>2 DEF Pending, LastReported
<1>7. Batched'
  BY <1>a DEF Batched
<1> QED
  BY <1>2, <1>b, <1>3, <1>4, <1>5, <1>6, <1>7 DEF SendQueueInv

\* An operation that is signaled at the latest as the MaxWR-th.
LEMMA OperateKeepsInv ==
  ASSUME SendQueueInv, kind # "batch", NEW s \in BOOLEAN, Operate(s),
         countWR + 1 = MaxWR => s
  PROVE  SendQueueInv'
<1> DEFINE next == IF s THEN "wait" ELSE "idle"
<1>1. /\ pc = "idle" /\ Post(s, next)
      /\ countWR' = IF s THEN 0 ELSE countWR + 1
      /\ UNCHANGED <<kind, executed, freed, cq, batchVars>>
  BY DEF Operate
<1>2. s \in BOOLEAN
  OBVIOUS
<1>3. countWR' \in 0 .. MaxWR - 1
  BY <1>1, MaxWRAssumption DEF SendQueueInv, TypeOK
<1>4. /\ next \in {"idle", "wait", "collect"}
      /\ s <=> next # "idle"
      /\ ~s => countWR' = countWR + 1
  BY <1>1, <1>2
<1> HIDE DEF next
<1> QED
  BY <1>1, <1>2, <1>3, <1>4, PostKeepsInv

\* One-sided operations, datagrams and multicasts count what they leave unsignaled.
LEMMA AccessKeepsInv ==
  ASSUME SendQueueInv, NEW signaled \in BOOLEAN,
         Access(signaled) \/ SendDatagram(signaled) \/ SendMCast(signaled)
  PROVE  SendQueueInv'
<1>1. ASSUME kind # "batch", Operate(mustSignal(signaled)) PROVE SendQueueInv'
  <2>1. mustSignal(signaled) \in BOOLEAN /\ (countWR + 1 = MaxWR => mustSignal(signaled))
    BY DEF mustSignal
  <2> QED
    BY <1>1, <2>1, OperateKeepsInv
<1>2. ASSUME kind # "batch", Operate(mustSignalMCast(signaled)) PROVE SendQueueInv'
  <2>1. mustSignalMCast(signaled) \in BOOLEAN /\ (countWR + 1 = MaxWR => mustSignalMCast(signaled))
    BY DEF mustSignalMCast
  <2> QED
    BY <1>2, <2>1, OperateKeepsInv
<1> QED
  BY <1>1, <1>2 DEF Access, SendDatagram, SendMCast

\* An atomic operation is signaled and waited for.
LEMMA AtomicKeepsInv == SendQueueInv /\ Atomic => SendQueueInv'
<1> SUFFICES ASSUME SendQueueInv, Atomic PROVE SendQueueInv'
  OBVIOUS
<1>1. /\ pc = "idle" /\ kind # "batch" /\ Post(TRUE, "wait")
      /\ countWR' \in 0 .. MaxWR - 1
      /\ UNCHANGED <<kind, executed, freed, cq, batchVars>>
  BY DEF Atomic, SendQueueInv, TypeOK
<1> QED
  BY <1>1, PostKeepsInv

\* requestRead() is signaled, and its completion is collected later.
LEMMA RequestReadKeepsInv == SendQueueInv /\ RequestRead => SendQueueInv'
<1> SUFFICES ASSUME SendQueueInv, RequestRead PROVE SendQueueInv'
  OBVIOUS
<1>1. /\ pc = "idle" /\ kind # "batch" /\ Post(TRUE, "collect")
      /\ countWR' = 0
      /\ UNCHANGED <<kind, executed, freed, cq, batchVars>>
  BY DEF RequestRead
<1>2. countWR' \in 0 .. MaxWR - 1
  BY <1>1, MaxWRAssumption
<1> QED
  BY <1>1, <1>2, PostKeepsInv

\* The only completion in the queue is that of the last work request: polling it
\* frees every slot.
LEMMA PollKeepsInv ==
  ASSUME SendQueueInv, NEW from \in {"wait", "collect"}, PollCompletion(from)
  PROVE  SendQueueInv'
<1>1. /\ pc = from /\ kind # "batch"
      /\ UNCHANGED <<kind, posted, executed, signals, countWR, batches, garbage, size, own, failed>>
  BY DEF PollCompletion, SendQueueInv, Batched, batchVars
<1>2. /\ cq = <<posted>> /\ executed = posted /\ signals = {}
      /\ posted \in Nat /\ countWR \in 0 .. MaxWR - 1
  BY <1>1 DEF PollCompletion, SendQueueInv, TypeOK, Pending, LastReported
<1>3. freed' = posted /\ cq' = <<>> /\ pc' = "idle"
  BY <1>2 DEF PollCompletion
<1>4. posted' - freed' <= countWR'
  BY <1>1, <1>2, <1>3, MaxWRAssumption
<1>5. TypeOK'
  BY <1>1, <1>2, <1>3 DEF SendQueueInv, TypeOK
<1> QED
  BY <1>1, <1>2, <1>3, <1>4, <1>5 DEF SendQueueInv, Ordered, Quiet, Pending, Batched

\* A batch is posted when nothing is left of the one before: it finds its slots, and
\* its end is signaled.
LEMMA PostBatchKeepsInv ==
  ASSUME SendQueueInv, kind = "batch", NEW n \in 1 .. MaxBatch,
         posted = executed, signals = {}, freed' = posted, cq' = <<>>, pc' = "idle",
         batches' = TRUE, size' \in 1 .. MaxBatch, countWR' \in 0 .. MaxWR - 1,
         PostBatch(n, freed'), UNCHANGED <<kind, executed, garbage>>
  PROVE  SendQueueInv'
<1>1. /\ posted \in Nat /\ executed \in Nat /\ n \in Nat /\ n >= 1 /\ n <= MaxBatch
      /\ posted + n - freed' = n /\ ~(n > MaxWR)
  BY BatchAssumption, MaxWRAssumption DEF SendQueueInv, TypeOK
<1>2. posted' = posted + n /\ signals' = {posted + n} /\ own' = posted + n /\ failed' = failed
  BY <1>1 DEF PostBatch
<1>3. /\ cq' \in Seq(Nat) /\ signals' \subseteq Nat /\ own' \in Nat /\ posted' \in Nat
      /\ freed' \in Nat /\ executed' \in Nat
  <2>1. posted + n \in Nat /\ {posted + n} \subseteq Nat
    BY <1>1
  <2>2. cq' \in Seq(Nat)
    BY Zenon, EmptySeq
  <2> QED
    BY <1>1, <1>2, <2>1, <2>2
<1>4. TypeOK'
  BY <1>2, <1>3 DEF SendQueueInv, TypeOK
<1>5. Ordered' /\ executed' < posted' /\ posted' - freed' <= MaxBatch
  BY <1>1, <1>2 DEF Ordered
<1>6. Batched'
  BY <1>2, <1>5 DEF Batched, LastReported
<1> QED
  BY <1>2, <1>4, <1>5, <1>6 DEF SendQueueInv, Quiet, Pending

\* A batch is posted as a whole, its last work request signaled, or waits for the batch
\* before it.
LEMMA SendBatchKeepsInv ==
  ASSUME SendQueueInv, NEW n \in 1 .. MaxBatch, SendBatch(n)
  PROVE  SendQueueInv'
<1>1. /\ kind = "batch" /\ pc = "idle"
      /\ UNCHANGED <<kind, executed, freed, cq, countWR, garbage>>
  BY DEF SendBatch
<1>2. CASE batches
  <2>1. pc' = "batch" /\ size' = n /\ UNCHANGED <<posted, signals, own, batches, failed>>
    BY <1>2 DEF SendBatch
  <2> QED
    BY <1>1, <2>1 DEF SendQueueInv, TypeOK, Ordered, Quiet, Pending, Batched, LastReported
<1>3. CASE ~batches
  <2>1. posted = 0 /\ signals = {} /\ cq = <<>> /\ executed = 0 /\ freed = 0
    BY <1>1, <1>3 DEF SendQueueInv, TypeOK, Ordered, Batched
  <2>2. batches' = TRUE /\ pc' = "idle" /\ size' = size /\ PostBatch(n, freed)
    BY <1>1, <1>3 DEF SendBatch
  <2>3. size' \in 1 .. MaxBatch /\ countWR' \in 0 .. MaxWR - 1
    BY <1>1, <2>2 DEF SendQueueInv, TypeOK
  <2> QED
    BY <1>1, <2>1, <2>2, <2>3, PostBatchKeepsInv
<1> QED
  BY <1>2, <1>3

\* The completion of a batch frees all of it.
LEMMA PollBatchKeepsInv == SendQueueInv /\ PollBatch => SendQueueInv'
<1> SUFFICES ASSUME SendQueueInv, PollBatch PROVE SendQueueInv'
  OBVIOUS
<1>1. /\ pc = "batch" /\ cq # <<>>
      /\ kind = "batch" /\ size \in 1 .. MaxBatch
      /\ UNCHANGED <<kind, executed, batches, garbage, size>>
  BY DEF PollBatch, batchVars, SendQueueInv, TypeOK, Kinds, Pending
<1>2. cq = <<posted>> /\ executed = posted /\ signals = {} /\ batches
  BY <1>1 DEF SendQueueInv, Batched, LastReported
<1>3. /\ freed' = posted /\ cq' = <<>> /\ pc' = "idle"
      /\ countWR' \in 0 .. MaxWR - 1 /\ PostBatch(size, freed')
  BY <1>2, MaxWRAssumption DEF PollBatch
<1> QED
  BY <1>1, <1>2, <1>3, PostBatchKeepsInv

\* The card reports nothing before it comes to the last work request.
LEMMA ExecuteKeepsReported ==
  ASSUME SendQueueInv, Execute, LastReported
  PROVE  LastReported'
<1>1. /\ executed < posted /\ executed' = executed + 1 /\ posted' = posted
      /\ posted \in Nat /\ executed \in Nat
      /\ signals = {posted} /\ cq = <<>>
  BY DEF Execute, SendQueueInv, TypeOK, LastReported
<1>2. CASE executed + 1 = posted
  <2>1. signals' = {} /\ cq' = <<posted>>
    BY <1>1, <1>2 DEF Execute
  <2> QED
    BY <1>1, <1>2, <2>1 DEF LastReported
<1>3. CASE executed + 1 # posted
  <2>1. signals' = {posted} /\ cq' = <<>>
    BY <1>1, <1>3 DEF Execute
  <2> QED
    BY <1>1, <1>3, <2>1 DEF LastReported
<1> QED
  BY <1>2, <1>3

\* The card executes work requests in the order in which they were posted.
LEMMA ExecuteKeepsInv == SendQueueInv /\ Execute => SendQueueInv'
<1> SUFFICES ASSUME SendQueueInv, Execute PROVE SendQueueInv'
  OBVIOUS
<1>1. /\ executed < posted /\ executed' = executed + 1
      /\ posted \in Nat /\ executed \in Nat /\ freed \in Nat
      /\ freed <= executed
      /\ UNCHANGED <<kind, posted, freed, countWR, batches, garbage, size, pc, own, failed>>
  BY DEF Execute, SendQueueInv, TypeOK, Ordered, batchVars
<1>2. cq' \in Seq(Nat) /\ signals' \subseteq Nat
  BY <1>1 DEF Execute, SendQueueInv, TypeOK
<1>3. TypeOK'
  BY <1>1, <1>2 DEF SendQueueInv, TypeOK
<1>4. Ordered'
  BY <1>1 DEF Ordered
<1>5. Quiet'
  <2>1. signals = {} /\ cq = <<>> => signals' = {} /\ cq' = <<>>
    BY DEF Execute
  <2> QED
    BY <1>1, <2>1 DEF SendQueueInv, Quiet
<1>6. Pending'
  BY <1>1, ExecuteKeepsReported DEF SendQueueInv, Pending
<1>7. Batched'
  BY <1>1, ExecuteKeepsReported DEF SendQueueInv, Batched
<1> QED
  BY <1>1, <1>3, <1>4, <1>5, <1>6, <1>7 DEF SendQueueInv

\* The invariant is inductive.
LEMMA NextKeepsInv == SendQueueInv /\ [Next]_vars => SendQueueInv'
<1> SUFFICES ASSUME SendQueueInv, [Next]_vars PROVE SendQueueInv'
  OBVIOUS
<1>1. ASSUME NEW signaled \in BOOLEAN,
             Access(signaled) \/ SendDatagram(signaled) \/ SendMCast(signaled)
      PROVE  SendQueueInv'
  BY <1>1, AccessKeepsInv
<1>2. CASE Atomic
  BY <1>2, AtomicKeepsInv
<1>3. CASE RequestRead
  BY <1>3, RequestReadKeepsInv
<1>4. CASE Wait
  BY <1>4, PollKeepsInv DEF Wait
<1>5. CASE PollSend
  BY <1>5, PollKeepsInv DEF PollSend
<1>6. CASE Execute
  BY <1>6, ExecuteKeepsInv
<1>7. ASSUME NEW n \in 1 .. MaxBatch, SendBatch(n) PROVE SendQueueInv'
  BY <1>7, SendBatchKeepsInv
<1>8. CASE PollBatch
  BY <1>8, PollBatchKeepsInv
<1>9. CASE UNCHANGED vars
  BY <1>9 DEF vars, batchVars, SendQueueInv, TypeOK, Ordered, Quiet, Pending, Batched, LastReported
<1> QED
  BY <1>1, <1>2, <1>3, <1>4, <1>5, <1>6, <1>7, <1>8, <1>9 DEF Next, Caller

\* The invariant of checkSignaled: what the queue holds between two operations is
\* bounded by countWR.
THEOREM InvariantHolds == Spec => []SendQueueInv
<1> QED
  BY InitEstablishesInv, NextKeepsInv, PTL DEF Spec

\* No ibv_post_send of the operations fails for want of a slot.
THEOREM SendQueueNeverFullHolds == Spec => []SendQueueNeverFull
<1>1. SendQueueInv => SendQueueNeverFull
  BY DEF SendQueueInv, SendQueueNeverFull
<1> QED
  BY <1>1, InvariantHolds, PTL

\* The completion that a signaled operation takes is its own.
THEOREM CompletionIsOwnHolds == Spec => []CompletionIsOwn
<1>1. SendQueueInv => CompletionIsOwn
  BY DEF SendQueueInv, CompletionIsOwn, Quiet, Pending, Batched, LastReported
<1> QED
  BY <1>1, InvariantHolds, PTL
=============================================================================
