----------------------------- MODULE Dispatcher -----------------------------
(***************************************************************************)
(* The dispatcher benchmark of dispatcherMain.cc.  The worker threads of a *)
(* process leave their requests in a shared array, one entry per worker;   *)
(* the dispatcher thread of the process (BenchmarkDispatcher) sends them   *)
(* over its own connections, takes the responses and releases the workers  *)
(* through their mailboxes.  Responses are written into the response area  *)
(* of the worker (BUF) or take any entry of it through the shared receive  *)
(* queue of the dispatcher (SRQ); then senderNodeId names the worker.      *)
(*                                                                         *)
(* The workers have run initPhase.  How a receiver gets a request out of   *)
(* its slot or queue is the subject of RequestResponse; here it takes any  *)
(* message that is on its way.  Connections are reliable and keep order,   *)
(* but there is no order between those of a worker and of its dispatcher.  *)
(***************************************************************************)
EXTENDS Integers, Sequences, SequencesExt, FiniteSets

CONSTANTS
    Workers,            \* the worker threads (BenchmarkSender) of all processes
    Dispatchers,        \* one dispatcher thread per process
    Local,              \* Local[p]: the workers of p, in the order of their ids
    NodeId,             \* NodeId[w]: what the sequencer gave to w
    Receivers,
    Requests,           \* --requests
    Modes,              \* how the program may be run, see Mode
    PreparedResponses,  \* entries of a receiver's response buffer
    Batch               \* BATCH of pollReceiveSRQBatch, 16 in the code

ASSUME WorkersAssumption ==
    /\ IsFiniteSet(Workers) /\ Workers # {}
    /\ Local \in [Dispatchers -> Seq(Workers)]
    /\ \A p \in Dispatchers : Local[p] # <<>> /\ IsInjective(Local[p])
    /\ \A w \in Workers : \E p \in Dispatchers :
          /\ w \in ToSet(Local[p])
          /\ \A q \in Dispatchers \ {p} : w \notin ToSet(Local[q])
    /\ NodeId \in [Workers -> Nat] /\ IsInjective(NodeId)

\* Whether responses are polled in the response area or come through the shared
\* receive queue, and whether they are small enough to be copied when posted.
Mode == [poll : {"BUF", "SRQ"}, inline : BOOLEAN]

ASSUME ModeAssumption ==
    /\ Requests \in Nat \ {0} /\ Batch \in Nat \ {0}
    /\ Modes \subseteq Mode
    /\ Receivers # {}

VARIABLE mode           \* the program that runs, chosen once

SenderPoll == mode.poll
Inline == mode.inline

Process(w) == CHOOSE p \in Dispatchers : w \in ToSet(Local[p])

-----------------------------------------------------------------------------
(***************************************************************************)
(* The part of a receiver's response buffer that belongs to a worker.      *)
(***************************************************************************)
maxNodeId == 1 + CHOOSE m \in {NodeId[w] : w \in Workers} :
                     \A w \in Workers : NodeId[w] <= m

share == PreparedResponses \div maxNodeId

\* partition(): every id has share entries, the last id also has the rest.
from(id) == id * share
to(id) == IF id = maxNodeId - 1 THEN PreparedResponses - 1 ELSE (id + 1) * share - 1

\* The benchmark takes randNumber % (to - from), so a share has two entries.
ASSUME ShareAssumption == PreparedResponses \in Nat /\ share >= 2

\* Mutant: all entries, as in the other benchmarks.
responseIdsAll(w) == 0 .. PreparedResponses - 1

\* (randNumber % (to - from)) + from
responseIds(w) == from(NodeId[w]) .. to(NodeId[w]) - 1

-----------------------------------------------------------------------------
VARIABLES
    \* per worker, in the memory that it shares with its dispatcher
    wpc,            \* where the worker stands
    i,              \* its requests that are over
    reqBuffer,      \* reqBuffer_[w]: type and request
    received,       \* received_[w], the mailbox: 1 when the response is there
    respBuffer,     \* respBuffer_[w]: flag, and the request that is answered
    finishedTo,     \* the receivers that it has sent FinishedExp to
    \* per dispatcher
    dpc,            \* where the thread stands
    reqId,          \* position of the scan, from 1
    transfered,     \* transfered[w]: the request of w is under way
    responseIdx,    \* the entries of respBuffer_ that are left of the last poll
    srq, cq,        \* receives, and completions, as entries of respBuffer_
    running,        \* cleared by the main thread
    \* per receiver
    rpc,
    prepared,       \* respBuffer_ of the receiver
    clientsFinished,
    \* the fabric
    requests,       \* requests on their way to a receiver
    finished,       \* FinishedExp messages on their way
    responses,      \* responses[r][p]: posted by r for p
    rnr,            \* a response found no receive
    \* history
    issued, served, answered

workerVars == <<wpc, i, reqBuffer, received, respBuffer, finishedTo>>
dispatcherVars == <<dpc, reqId, transfered, responseIdx, srq, cq, running>>
receiverVars == <<rpc, prepared, clientsFinished>>
fabricVars == <<requests, finished, responses, rnr>>
historyVars == <<issued, served, answered>>
progress == <<workerVars, dispatcherVars, receiverVars, fabricVars, historyVars>>
vars == <<mode, progress>>

NoResponse == [ptr |-> "none", msgId |-> 0]
NoRequest == [dest |-> CHOOSE r \in Receivers : TRUE, id |-> 0, msgId |-> 0]

TypeOK ==
    /\ mode \in Modes
    /\ wpc \in [Workers -> {"fill", "signal", "await", "finish", "done"}]
    /\ i \in [Workers -> 0 .. Requests]
    /\ \A w \in Workers :
          /\ reqBuffer[w].type \in {"EMPTY", "ExpMsg"}
          /\ reqBuffer[w].msg.dest \in Receivers
          /\ reqBuffer[w].msg.msgId \in 0 .. Requests
          /\ respBuffer[w].flag \in {0, 1}
          /\ respBuffer[w].body.ptr \in Workers \cup {"none"}
    /\ received \in [Workers -> {0, 1}]
    /\ finishedTo \in [Workers -> SUBSET Receivers]
    /\ dpc \in [Dispatchers -> {"start", "loop", "scan", "poll", "empty", "release",
                                "finalize", "stopped"}]
    /\ transfered \in [Workers -> BOOLEAN]
    /\ \A p \in Dispatchers :
          /\ reqId[p] \in 1 .. Len(Local[p])
          /\ \A q \in {responseIdx[p], srq[p], cq[p]} : ToSet(q) \subseteq ToSet(Local[p])
          /\ Len(responseIdx[p]) <= Batch
    /\ running \in [Dispatchers -> BOOLEAN]
    /\ rpc \in [Receivers -> {"poll", "done"}]
    /\ clientsFinished \in [Receivers -> 0 .. Cardinality(Workers)]
    /\ rnr \in BOOLEAN
    /\ issued \in [Workers -> 0 .. Requests]
    /\ served \in [Workers -> 0 .. Requests]
    /\ answered \in [Workers -> 0 .. Requests]

Init ==
    /\ mode \in Modes
    /\ wpc = [w \in Workers |-> "fill"]
    /\ i = [w \in Workers |-> 0]
    /\ reqBuffer = [w \in Workers |-> [type |-> "EMPTY", msg |-> NoRequest]]
    /\ received = [w \in Workers |-> 0]
    /\ respBuffer = [w \in Workers |-> [flag |-> 0, body |-> NoResponse]]
    /\ finishedTo = [w \in Workers |-> {}]
    /\ dpc = [p \in Dispatchers |-> "start"]
    /\ reqId = [p \in Dispatchers |-> 1]
    /\ transfered = [w \in Workers |-> FALSE]
    /\ responseIdx = [p \in Dispatchers |-> <<>>]
    /\ srq = [p \in Dispatchers |-> <<>>]
    /\ cq = [p \in Dispatchers |-> <<>>]
    /\ running = [p \in Dispatchers |-> TRUE]
    /\ rpc = [r \in Receivers |-> "poll"]
    /\ prepared = [r \in Receivers |-> [k \in 0 .. PreparedResponses - 1 |-> NoResponse]]
    /\ clientsFinished = [r \in Receivers |-> 0]
    /\ requests = {}
    /\ finished = {}
    /\ responses = [r \in Receivers |-> [p \in Dispatchers |-> <<>>]]
    /\ rnr = FALSE
    /\ issued = [w \in Workers |-> 0]
    /\ served = [w \in Workers |-> 0]
    /\ answered = [w \in Workers |-> 0]

WorkerGoto(w, before, after) ==
    /\ wpc[w] = before
    /\ wpc' = [wpc EXCEPT ![w] = after]

DispatcherGoto(p, before, after) ==
    /\ dpc[p] = before
    /\ dpc' = [dpc EXCEPT ![p] = after]

-----------------------------------------------------------------------------
(***************************************************************************)
(* A worker: BenchmarkSender::benchmarkPhase for the dispatcher.           *)
(***************************************************************************)

\* All fields of the request but its type.
FillRequest(w) ==
    /\ WorkerGoto(w, "fill", "signal")
    /\ \E r \in Receivers, id \in responseIds(w) :
          reqBuffer' = [reqBuffer EXCEPT ![w].msg =
                           [dest |-> r, id |-> id, msgId |-> i[w] + 1]]
    /\ UNCHANGED <<i, received, respBuffer, finishedTo, dispatcherVars, receiverVars,
                   fabricVars, historyVars>>

\* expMsg->type = MessageType::ExpMsg;
SignalDispatcher(w) ==
    /\ WorkerGoto(w, "signal", "await")
    /\ reqBuffer' = [reqBuffer EXCEPT ![w].type = "ExpMsg"]
    /\ issued' = [issued EXCEPT ![w] = @ + 1]
    /\ UNCHANGED <<i, received, respBuffer, finishedTo, dispatcherVars, receiverVars,
                   fabricVars, served, answered>>

\* Mutant: the mailbox is read and not reset.
TakeMailboxKeep(w) ==
    /\ received[w] = 1
    /\ WorkerGoto(w, "await", IF i[w] + 1 = Requests THEN "finish" ELSE "fill")
    /\ i' = [i EXCEPT ![w] = @ + 1]
    /\ answered' = [answered EXCEPT ![w] = @ + 1]
    /\ UNCHANGED <<reqBuffer, received, respBuffer, finishedTo, dispatcherVars,
                   receiverVars, fabricVars, issued, served>>

\* compare_exchange of the mailbox from 1 to 0.
TakeMailbox(w) ==
    /\ received[w] = 1
    /\ WorkerGoto(w, "await", IF i[w] + 1 = Requests THEN "finish" ELSE "fill")
    /\ received' = [received EXCEPT ![w] = 0]
    /\ i' = [i EXCEPT ![w] = @ + 1]
    /\ answered' = [answered EXCEPT ![w] = @ + 1]
    /\ UNCHANGED <<reqBuffer, respBuffer, finishedTo, dispatcherVars, receiverVars,
                   fabricVars, issued, served>>

\* finalizePhase() after the barrier, over the connection of the worker itself.
SendFinished(w) ==
    /\ wpc[w] = "finish"
    /\ \A u \in ToSet(Local[Process(w)]) : wpc[u] \in {"finish", "done"}
    /\ \E r \in Receivers \ finishedTo[w] :
          /\ finished' = finished \cup {<<w, r>>}
          /\ finishedTo' = [finishedTo EXCEPT ![w] = @ \cup {r}]
    /\ wpc' = [wpc EXCEPT ![w] = IF finishedTo'[w] = Receivers THEN "done" ELSE "finish"]
    /\ UNCHANGED <<i, reqBuffer, received, respBuffer, dispatcherVars, receiverVars,
                   requests, responses, rnr, historyVars>>

WorkerStep(w) ==
    FillRequest(w) \/ SignalDispatcher(w) \/ TakeMailbox(w) \/ SendFinished(w)

-----------------------------------------------------------------------------
(***************************************************************************)
(* BenchmarkDispatcher::run                                                *)
(***************************************************************************)

\* receiveSRQ(), once for each of the entries of respBuffer_.
receiveSRQ(p, entryIds) == srq' = [srq EXCEPT ![p] = @ \o entryIds]

\* One receive for each entry of respBuffer_ (SRQ).
StartRun(p) ==
    /\ DispatcherGoto(p, "start", "loop")
    /\ IF SenderPoll = "SRQ" THEN receiveSRQ(p, Local[p]) ELSE UNCHANGED srq
    /\ UNCHANGED <<reqId, transfered, responseIdx, cq, running, workerVars, receiverVars,
                   fabricVars, historyVars>>

\* while(running)
CheckRunning(p) ==
    /\ DispatcherGoto(p, "loop", IF running[p] THEN "scan" ELSE "stopped")
    /\ reqId' = [reqId EXCEPT ![p] = 1]
    /\ UNCHANGED <<transfered, responseIdx, srq, cq, running, workerVars, receiverVars,
                   fabricVars, historyVars>>

\* Mutant: what has been transfered is not skipped.
toSendAny(w) == reqBuffer[w].type # "EMPTY"

toSend(w) == reqBuffer[w].type # "EMPTY" /\ ~transfered[w]

\* One entry of the request array: transfer() if there is something new.
ScanRequest(p) ==
    LET w == Local[p][reqId[p]]
        msg == reqBuffer[w].msg
        last == reqId[p] = Len(Local[p]) IN
    /\ DispatcherGoto(p, "scan", IF last THEN "poll" ELSE "scan")
    /\ reqId' = [reqId EXCEPT ![p] = IF last THEN @ ELSE @ + 1]
    /\ IF toSend(w)
       THEN /\ requests' = requests \cup {[worker |-> w, dest |-> msg.dest,
                                           id |-> msg.id, msgId |-> msg.msgId]}
            /\ transfered' = [transfered EXCEPT ![w] = TRUE]
       ELSE UNCHANGED <<requests, transfered>>
    /\ UNCHANGED <<responseIdx, srq, cq, running, workerVars, receiverVars, finished,
                   responses, rnr, historyVars>>

\* pollReceiveSRQBatch(): takes up to Batch completions, of which the memory indexes
\* are those of the entries.
pollReceiveSRQBatch(p) ==
    LET n == IF Len(cq[p]) < Batch THEN Len(cq[p]) ELSE Batch IN
    /\ n > 0
    /\ responseIdx' = [responseIdx EXCEPT ![p] = SubSeq(cq[p], 1, n)]
    /\ cq' = [cq EXCEPT ![p] = SubSeq(@, n + 1, Len(@))]

\* pollBatch(): an entry whose flag is set and is now reset (BUF), up to Batch
\* completions (SRQ), or nothing.
PollBatch(p) ==
    LET flagged == {w \in ToSet(Local[p]) : respBuffer[w].flag = 1} IN
    \/ /\ SenderPoll = "BUF"
       /\ DispatcherGoto(p, "poll", "empty")
       /\ \E w \in flagged : /\ respBuffer' = [respBuffer EXCEPT ![w].flag = 0]
                             /\ responseIdx' = [responseIdx EXCEPT ![p] = <<w>>]
       /\ UNCHANGED <<reqId, transfered, srq, cq, running, wpc, i, reqBuffer, received,
                      finishedTo, receiverVars, fabricVars, historyVars>>
    \/ /\ SenderPoll = "SRQ" /\ pollReceiveSRQBatch(p)
       /\ DispatcherGoto(p, "poll", "empty")
       /\ UNCHANGED <<reqId, transfered, srq, running, workerVars, receiverVars,
                      fabricVars, historyVars>>
    \/ /\ IF SenderPoll = "BUF" THEN flagged = {} ELSE cq[p] = <<>>
       /\ DispatcherGoto(p, "poll", "loop")
       /\ UNCHANGED <<reqId, transfered, responseIdx, srq, cq, running, workerVars,
                      receiverVars, fabricVars, historyVars>>

\* Mutant: the entry that the response lies in, also with SRQ.
workerIdOfEntry(p) == Head(responseIdx[p])

\* The worker that a response is for: the entry itself (BUF), or the one that
\* senderNodeId, its address, points to (SRQ).
workerId(p) == IF SenderPoll = "BUF" THEN Head(responseIdx[p])
               ELSE respBuffer[Head(responseIdx[p])].body.ptr

\* The response is over; the next of the batch, or the next iteration.
afterResponse(p) == IF Len(responseIdx[p]) = 1 THEN "loop" ELSE "empty"

\* Mutant: transfered is not reset.
EmptyRequestOnce(p) ==
    LET w == workerId(p) IN
    /\ DispatcherGoto(p, "empty", IF transfered[w] THEN "release" ELSE afterResponse(p))
    /\ IF transfered[w]
       THEN /\ reqBuffer' = [reqBuffer EXCEPT ![w].type = "EMPTY"]
            /\ UNCHANGED responseIdx
       ELSE /\ responseIdx' = [responseIdx EXCEPT ![p] = Tail(@)]
            /\ UNCHANGED reqBuffer
    /\ UNCHANGED <<reqId, transfered, srq, cq, running, wpc, i, received, respBuffer,
                   finishedTo, receiverVars, fabricVars, historyVars>>

\* A response to a request that is not under way is dropped, with its receive.
EmptyRequest(p) ==
    LET w == workerId(p) IN
    /\ DispatcherGoto(p, "empty", IF transfered[w] THEN "release" ELSE afterResponse(p))
    /\ transfered' = [transfered EXCEPT ![w] = FALSE]
    /\ IF transfered[w]
       THEN /\ reqBuffer' = [reqBuffer EXCEPT ![w].type = "EMPTY"]
            /\ UNCHANGED responseIdx
       ELSE /\ responseIdx' = [responseIdx EXCEPT ![p] = Tail(@)]
            /\ UNCHANGED reqBuffer
    /\ UNCHANGED <<reqId, srq, cq, running, wpc, i, received, respBuffer, finishedTo,
                   receiverVars, fabricVars, historyVars>>

\* compare_exchange of the mailbox from 0 to 1.  finalize() does nothing with BUF.
ReleaseWorker(p) ==
    LET w == workerId(p) IN
    /\ DispatcherGoto(p, "release",
          IF SenderPoll = "SRQ" THEN "finalize" ELSE afterResponse(p))
    /\ received[w] = 0
    /\ received' = [received EXCEPT ![w] = 1]
    /\ responseIdx' = IF SenderPoll = "SRQ" THEN responseIdx
                      ELSE [responseIdx EXCEPT ![p] = Tail(@)]
    /\ UNCHANGED <<reqId, transfered, srq, cq, running, wpc, i, reqBuffer, respBuffer,
                   finishedTo, receiverVars, fabricVars, historyVars>>

\* Mutant: the receive is not posted again.
FinalizeNothing(p) ==
    /\ DispatcherGoto(p, "finalize", afterResponse(p))
    /\ responseIdx' = [responseIdx EXCEPT ![p] = Tail(@)]
    /\ UNCHANGED <<reqId, transfered, srq, cq, running, workerVars, receiverVars,
                   fabricVars, historyVars>>

\* finalize(): the receive is posted again (SRQ).
FinalizeResponse(p) ==
    /\ DispatcherGoto(p, "finalize", afterResponse(p))
    /\ responseIdx' = [responseIdx EXCEPT ![p] = Tail(@)]
    /\ receiveSRQ(p, <<Head(responseIdx[p])>>)
    /\ UNCHANGED <<reqId, transfered, cq, running, workerVars, receiverVars, fabricVars,
                   historyVars>>

HandleResponse(p) == EmptyRequest(p) \/ ReleaseWorker(p)

\* The main thread, after group.wait().
StopRunning(p) ==
    /\ running[p]
    /\ \A w \in ToSet(Local[p]) : wpc[w] = "done"
    /\ running' = [running EXCEPT ![p] = FALSE]
    /\ UNCHANGED <<dpc, reqId, transfered, responseIdx, srq, cq, workerVars, receiverVars,
                   fabricVars, historyVars>>

DispatcherStep(p) ==
    \/ StartRun(p) \/ CheckRunning(p) \/ ScanRequest(p) \/ PollBatch(p)
    \/ HandleResponse(p) \/ FinalizeResponse(p)

-----------------------------------------------------------------------------
(***************************************************************************)
(* A receiver, and the connections.                                        *)
(***************************************************************************)

\* The response is prepared in the entry that the request names and posted; a
\* small one is copied at once, a large one is read when it is sent.
HandleRequest(r) ==
    /\ rpc[r] = "poll"
    /\ \E m \in requests :
          LET response == [ptr |-> m.worker, msgId |-> m.msgId] IN
          /\ m.dest = r
          /\ requests' = requests \ {m}
          /\ prepared' = [prepared EXCEPT ![r][m.id] = response]
          /\ responses' = [responses EXCEPT ![r][Process(m.worker)] =
                              Append(@, [ptr |-> m.worker, id |-> m.id, copy |-> response])]
          /\ served' = [served EXCEPT ![m.worker] = @ + 1]
    /\ UNCHANGED <<workerVars, dispatcherVars, rpc, clientsFinished, finished, rnr,
                   issued, answered>>

CountFinished(r) ==
    /\ rpc[r] = "poll"
    /\ \E m \in finished : m[2] = r /\ finished' = finished \ {m}
    /\ clientsFinished' = [clientsFinished EXCEPT ![r] = @ + 1]
    /\ rpc' = [rpc EXCEPT ![r] =
                  IF clientsFinished[r] + 1 = Cardinality(Workers) THEN "done" ELSE "poll"]
    /\ UNCHANGED <<workerVars, dispatcherVars, prepared, requests, responses, rnr,
                   historyVars>>

ReceiverStep(r) == HandleRequest(r) \/ CountFinished(r)

\* The oldest response is written where RDMAptr says, its flag last, or takes
\* the oldest receive.
DeliverResponse(r, p) ==
    LET m == Head(responses[r][p])
        body == IF Inline THEN m.copy ELSE prepared[r][m.id]
        entry == IF SenderPoll = "BUF" THEN m.ptr ELSE Head(srq[p]) IN
    /\ responses[r][p] # <<>>
    /\ responses' = [responses EXCEPT ![r][p] = Tail(@)]
    /\ IF SenderPoll = "SRQ" /\ srq[p] = <<>>
       THEN rnr' = TRUE /\ UNCHANGED <<respBuffer, srq, cq>>
       ELSE /\ respBuffer' = [respBuffer EXCEPT ![entry] = [flag |-> 1, body |-> body]]
            /\ srq' = IF SenderPoll = "SRQ" THEN [srq EXCEPT ![p] = Tail(@)] ELSE srq
            /\ cq' = IF SenderPoll = "SRQ" THEN [cq EXCEPT ![p] = Append(@, entry)] ELSE cq
            /\ UNCHANGED rnr
    /\ UNCHANGED <<wpc, i, reqBuffer, received, finishedTo, dpc, reqId, transfered,
                   responseIdx, running, receiverVars, requests, finished, historyVars>>

-----------------------------------------------------------------------------
Next ==
    /\ \/ \E w \in Workers : WorkerStep(w)
       \/ \E p \in Dispatchers : DispatcherStep(p) \/ StopRunning(p)
       \/ \E r \in Receivers : ReceiverStep(r)
       \/ \E r \in Receivers, p \in Dispatchers : DeliverResponse(r, p)
    /\ UNCHANGED mode

\* Every thread is scheduled, and connections deliver.
Fairness ==
    /\ \A w \in Workers : WF_progress(WorkerStep(w))
    /\ \A p \in Dispatchers : WF_progress(DispatcherStep(p)) /\ WF_progress(StopRunning(p))
    /\ \A r \in Receivers : WF_progress(ReceiverStep(r))
    /\ \A r \in Receivers, p \in Dispatchers : WF_progress(DeliverResponse(r, p))

Spec == Init /\ [][Next]_vars

FairSpec == Spec /\ Fairness

-----------------------------------------------------------------------------
(***************************************************************************)
(* Properties                                                              *)
(***************************************************************************)

\* Workers, dispatchers and receivers implement RequestReply: one request of a
\* worker under way, served once, answered once.
Abstract == INSTANCE RequestReply WITH Clients <- Workers
RequestReplySpec == Abstract!Spec

\* A request that is under way is the one its worker has issued last and waits
\* for: the dispatcher never reads an entry that the worker is filling in.
RequestIsCurrent ==
    \A m \in requests :
        /\ m.msgId = issued[m.worker]
        /\ wpc[m.worker] = "await"
        /\ received[m.worker] = 0
        /\ transfered[m.worker]

\* Types, and that what travels is current: the state that a step of a worker or
\* of its dispatcher relies on.
DispatcherInv == TypeOK /\ RequestIsCurrent

\* The response that the dispatcher takes up answers the request that its worker
\* waits for, so "Has not been transfered" is never printed, and the mailbox is
\* empty, so that the dispatcher never spins on it.
ResponseFindsItsWorker ==
    \A p \in Dispatchers : dpc[p] \in {"empty", "release"} =>
        LET w == workerId(p)
            body == respBuffer[Head(responseIdx[p])].body IN
        /\ body = [ptr |-> w, msgId |-> issued[w]]
        /\ wpc[w] = "await" /\ received[w] = 0
        /\ dpc[p] = "empty" => transfered[w]

\* The dispatcher posts a receive again only after it has released the worker;
\* there is a receive for every response all the same.
NoReceiverNotReady == ~rnr

\* FinishedExp travels over another connection than the requests of the worker,
\* and overtakes none of them: when a receiver is done nothing is left for it.
FinishedIsLast ==
    /\ \A m \in finished : \A q \in requests : q.worker # m[1]
    /\ \A r \in Receivers : rpc[r] = "done" =>
          /\ \A q \in requests : q.dest # r
          /\ \A p \in Dispatchers : responses[r][p] = <<>>

\* Workers, dispatchers and receivers all come to their end.
AllReturn ==
    <>[](/\ \A w \in Workers : wpc[w] = "done"
         /\ \A p \in Dispatchers : dpc[p] = "stopped"
         /\ \A r \in Receivers : rpc[r] = "done")
=============================================================================
