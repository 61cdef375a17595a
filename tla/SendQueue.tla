----------------------------- MODULE SendQueue -----------------------------
(***************************************************************************)
(* A send queue and the thread that posts to it: that of a connection of   *)
(* ReliableRDMA, the one queue of all connections of UnreliableRDMA, that  *)
(* of a multicast group, or that of a connection used by sendBatch only.   *)
(* Work requests are numbered as they are posted.  The network card        *)
(* executes them in order and reports those that are signaled; the slots   *)
(* of a request and of all before it are free again when its completion is *)
(* polled.  An unsignaled operation returns at once, but every MaxWR-th is *)
(* signaled after all (checkSignaled, checkSignaledMCast) and waits, so    *)
(* that the queue never runs full.  A batch is signaled at its end, and    *)
(* the next one waits for that.                                            *)
(***************************************************************************)
EXTENDS Integers, Sequences

CONSTANTS
    MaxWR,      \* Config::RDMA_MAX_WR, the slots of the queue; 4096 in the code
    MaxBatch,   \* MAX_POSTLIST, the messages of a batch; 128 in the code
    Posts       \* bound: how many work requests are posted

ASSUME MaxWRAssumption == MaxWR \in Nat \ {0}
ASSUME BatchAssumption == MaxBatch \in 1 .. MaxWR
ASSUME PostsAssumption == Posts \in Nat

Kinds == {"connection", "datagram", "multicast", "batch"}

VARIABLES
    kind,       \* of the queue, chosen once
    posted,     \* work requests posted
    executed,   \* work requests executed by the card
    freed,      \* work requests whose slots are free again
    signals,    \* signaled work requests that have not been executed
    cq,         \* the completion queue: completions not yet polled
    countWR,    \* m_countWR or m_sendMCastCount: unsignaled operations since the
                \* last signaled one
    batches,    \* batches[] of the connection is not 0
    garbage,    \* nor was it at the start: no constructor sets it
    size,       \* the messages of the batch that waits to be posted
    pc,         \* "idle", "wait" for a completion, "collect": requestRead was
                \* called and pollSend not yet, "batch": sendBatch waits for the
                \* batch before
    own,        \* the work request that the caller waits for
    failed      \* a post found the queue full; the code throws

batchVars == <<batches, garbage, size>>
vars == <<kind, posted, executed, freed, signals, cq, countWR, batchVars, pc, own, failed>>

TypeOK ==
    /\ kind \in Kinds
    /\ posted \in Nat /\ executed \in Nat /\ freed \in Nat
    /\ signals \subseteq Nat
    /\ cq \in Seq(Nat)
    /\ countWR \in 0 .. MaxWR - 1
    /\ batches \in BOOLEAN /\ garbage \in BOOLEAN /\ size \in 1 .. MaxBatch
    /\ pc \in {"idle", "wait", "collect", "batch"}
    /\ own \in Nat
    /\ failed \in BOOLEAN

Init ==
    /\ kind \in Kinds
    /\ posted = 0 /\ executed = 0 /\ freed = 0
    /\ signals = {}
    /\ cq = <<>>
    /\ countWR = 0
    /\ garbage \in (IF kind = "batch" THEN BOOLEAN ELSE {FALSE})
    /\ batches = garbage /\ size = 1
    /\ pc = "idle"
    /\ own = 0
    /\ failed = FALSE

-----------------------------------------------------------------------------
\* Mutant: signaled one operation too late.
mustSignalLate(signaled) == signaled \/ countWR = MaxWR

\* checkSignaled(): an unsignaled operation that would be the MaxWR-th since the
\* last signaled one is signaled.
mustSignal(signaled) == signaled \/ countWR + 1 = MaxWR

\* ibv_post_send: fails when there is no slot.
Post(signaled, next) ==
    IF posted - freed = MaxWR
    THEN /\ failed' = TRUE
         /\ UNCHANGED <<posted, signals, pc, own>>
    ELSE /\ posted' = posted + 1
         /\ signals' = IF signaled THEN signals \cup {posted + 1} ELSE signals
         /\ pc' = next
         /\ own' = IF signaled THEN posted + 1 ELSE own
         /\ UNCHANGED failed

\* ibv_post_send of a list of n, of which the last is signaled.
PostBatch(n, free) ==
    IF posted + n - free > MaxWR
    THEN /\ failed' = TRUE
         /\ UNCHANGED <<posted, signals, own>>
    ELSE /\ posted' = posted + n
         /\ signals' = signals \cup {posted + n}
         /\ own' = posted + n
         /\ UNCHANGED failed

\* Mutant: waits also for what is not signaled.
OperateWaitAlways(signal) ==
    /\ pc = "idle" /\ posted < Posts
    /\ countWR' = IF signal THEN 0 ELSE countWR + 1
    /\ Post(signal, "wait")
    /\ UNCHANGED <<kind, executed, freed, cq, batchVars>>

\* An operation that waits when it is signaled; send() of ReliableRDMA is one.
Operate(signal) ==
    /\ pc = "idle" /\ posted < Posts
    /\ countWR' = IF signal THEN 0 ELSE countWR + 1
    /\ Post(signal, IF signal THEN "wait" ELSE "idle")
    /\ UNCHANGED <<kind, executed, freed, cq, batchVars>>

\* write(), writeImm(), read() and send() of a reliable connection.
Access(signaled) == kind = "connection" /\ Operate(mustSignal(signaled))

\* UnreliableRDMA::send(), which counts for all connections together.
SendDatagram(signaled) == kind = "datagram" /\ Operate(mustSignal(signaled))

\* Mutant: signaled one operation too late.
mustSignalMCastLate(signaled) == signaled \/ countWR = MaxWR

\* checkSignaledMCast(), of which the counter is that of the group.
mustSignalMCast(signaled) == signaled \/ countWR + 1 = MaxWR

\* sendMCast()
SendMCast(signaled) == kind = "multicast" /\ Operate(mustSignalMCast(signaled))

\* fetchAndAdd() and compareAndSwap(), signaled: they wait, but do not count.
Atomic ==
    /\ kind = "connection" /\ pc = "idle" /\ posted < Posts
    /\ Post(TRUE, "wait")
    /\ UNCHANGED <<kind, executed, freed, cq, countWR, batchVars>>

\* requestRead(): signaled, and left for pollSend() to wait for.
RequestRead ==
    /\ kind = "connection" /\ pc = "idle" /\ posted < Posts
    /\ countWR' = 0
    /\ Post(TRUE, "collect")
    /\ UNCHANGED <<kind, executed, freed, cq, batchVars>>

\* sendBatch() of n messages: the first batch is posted at once.
SendBatch(n) ==
    /\ kind = "batch" /\ pc = "idle" /\ n <= Posts - posted
    /\ \/ batches /\ pc' = "batch" /\ size' = n
          /\ UNCHANGED <<posted, signals, own, batches, failed>>
       \/ ~batches /\ batches' = TRUE
          /\ PostBatch(n, freed) /\ UNCHANGED <<pc, size>>
    /\ UNCHANGED <<kind, executed, freed, cq, countWR, garbage>>

\* A later one when the completion of the batch before has been polled.
PollBatch ==
    /\ pc = "batch" /\ cq # <<>>
    /\ freed' = Head(cq) /\ cq' = Tail(cq)
    /\ pc' = "idle" /\ countWR' = 0
    /\ PostBatch(size, freed')
    /\ UNCHANGED <<kind, executed, batchVars>>

\* One completion is polled; the caller returns.
PollCompletion(from) ==
    /\ pc = from
    /\ cq # <<>>
    /\ freed' = Head(cq)
    /\ cq' = Tail(cq)
    /\ pc' = "idle"
    /\ UNCHANGED <<kind, posted, executed, signals, countWR, batchVars, own, failed>>

\* The loop at the end of a signaled operation.
Wait == PollCompletion("wait")

\* Mutant: returns although there is no completion.
PollSendOnce ==
    \/ PollCompletion("collect")
    \/ /\ pc = "collect" /\ cq = <<>>
       /\ pc' = "idle"
       /\ UNCHANGED <<kind, posted, executed, freed, signals, cq, countWR, batchVars, own, failed>>

\* pollSend() after requestRead().
PollSend == PollCompletion("collect")

\* The card executes the next work request.
Execute ==
    /\ executed < posted
    /\ executed' = executed + 1
    /\ cq' = IF executed + 1 \in signals THEN Append(cq, executed + 1) ELSE cq
    /\ signals' = signals \ {executed + 1}
    /\ UNCHANGED <<kind, posted, freed, countWR, batchVars, pc, own, failed>>

Caller ==
    \/ \E signaled \in BOOLEAN : Access(signaled) \/ SendDatagram(signaled) \/ SendMCast(signaled)
    \/ Atomic \/ RequestRead \/ Wait \/ PollSend
    \/ (\E n \in 1 .. MaxBatch : SendBatch(n)) \/ PollBatch

Next == Caller \/ Execute

\* A caller that waits keeps polling, and the card works.
Fairness == WF_vars(Wait) /\ WF_vars(PollSend) /\ WF_vars(PollBatch) /\ WF_vars(Execute)

Spec == Init /\ [][Next]_vars

FairSpec == Spec /\ Fairness

-----------------------------------------------------------------------------
\* No post ever finds the queue full, however signaled and unsignaled operations,
\* atomics and requested reads follow each other, and however long the batches are
\* (checkSignaled, checkSignaledMCast, sendBatch).
SendQueueNeverFull == ~failed

\* The completion that a caller polls is that of its own operation, so when a
\* signaled operation returns it has been executed, and all before it; sendBatch polls
\* that of the batch before, the only one there is.
CompletionIsOwn ==
    cq # <<>> => (pc # "idle" \/ kind = "batch") /\ cq = <<own>> /\ own = posted

\* A signaled operation, a requested read that is polled for, and a batch that waits
\* for the one before come back, unless batches[] happened not to be 0 at first.
SignaledReturns == pc # "idle" /\ ~garbage ~> pc = "idle"

-----------------------------------------------------------------------------
(***************************************************************************)
(* The inductive invariant: between two operations nothing that has been   *)
(* signaled is left, and countWR bounds what the queue still holds; or, of *)
(* batches, the queue holds the last one.                                  *)
(***************************************************************************)
Ordered == freed <= executed /\ executed <= posted

\* The last work request is signaled, and nothing else.
LastReported ==
    \/ executed < posted /\ signals = {posted} /\ cq = <<>>
    \/ executed = posted /\ signals = {} /\ cq = <<posted>>

Quiet == kind # "batch" /\ pc = "idle" => /\ signals = {} /\ cq = <<>>
                                          /\ posted - freed <= countWR

Pending == kind # "batch" /\ pc # "idle" => /\ own = posted /\ pc # "batch"
                                            /\ posted - freed <= MaxWR
                                            /\ LastReported

Batched ==
    kind = "batch" => /\ pc \in {"idle", "batch"}
                      /\ posted - freed <= MaxBatch
                      /\ \/ posted = 0 /\ signals = {} /\ cq = <<>>
                         \/ own = posted /\ batches /\ LastReported

SendQueueInv ==
    /\ TypeOK
    /\ Ordered
    /\ Quiet
    /\ Pending
    /\ Batched
    /\ ~failed
=============================================================================
