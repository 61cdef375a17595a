--------------------------- MODULE RequestResponse ---------------------------
(***************************************************************************)
(* The request-response benchmark of main.cc and sharedMemMain.cc: sender  *)
(* threads (BenchmarkSender, here: clients) and receiver threads           *)
(* (BenchmarkReceiver) that run the init phase, the benchmark phase and    *)
(* the finalize phase over reliable connections, in each of the four verb  *)
(* combinations.  Requests are written into a slot of the receiver that is *)
(* polled (BUF) or sent to a shared receive queue (SRQ); responses are     *)
(* written into the client's response area (BUF) or sent to the receive    *)
(* queue of the connection (RQ).                                           *)
(*                                                                         *)
(* The RDMA fabric is external to the code: each connection delivers in    *)
(* order and exactly once, a WRITE is placed in address order without the  *)
(* remote CPU noticing, and a SEND that finds no posted receive fails,     *)
(* because the queue pairs are set up with rnr_retry = 0.                  *)
(***************************************************************************)
EXTENDS Integers, Sequences, SequencesExt, FiniteSets, FiniteSetsExt

CONSTANTS
    Clients,        \* the sender threads of all processes
    Receivers,      \* the receiver threads
    Process,        \* Process[c]: the sender process that runs client c
    NodeId,         \* NodeId[c]: the id that the sequencer gave to c
    ReceiverOrder,  \* the receivers in the order of the sequencer's entries
    MaxRequests,    \* bound on --requests
    PreparedResponses,  \* the entries of the response buffer (RESP_BUFFER_BYTES)
    RandNumbers,    \* bound: what rand_r() may return
    Modes           \* how the program may be run, see Mode

Verbs == {"WRITE", "SEND"}

ASSUME NodesAssumption ==
    /\ IsFiniteSet(Clients) /\ Clients # {}
    /\ IsFiniteSet(Receivers)
    /\ Clients \cap Receivers = {}
    /\ NodeId \in [Clients -> Nat]
    /\ \A c, d \in Clients : NodeId[c] = NodeId[d] => c = d

ASSUME OrderAssumption ==
    /\ ReceiverOrder \in Seq(Receivers)
    /\ ToSet(ReceiverOrder) = Receivers
    /\ Len(ReceiverOrder) = Cardinality(Receivers)

\* The program and its flags: the two halves of --verbs; whether it is
\* sharedMemMain.cc, where one connection carries all responses of a process,
\* which are always written; whether --percEmptyMailbox is not 0, so that some
\* iterations send nothing; whether responses are so small (less than 220 bytes)
\* that they are inlined; --requests and the number of receivers; and, which no
\* flag decides, whether a client may send its Init message before its receiver
\* has posted the receives for them.
Mode == {m \in [request : Verbs, response : Verbs, shared : BOOLEAN, empty : BOOLEAN,
                inline : BOOLEAN, requests : 1 .. MaxRequests, receivers : 1 .. Len(ReceiverOrder),
                early : BOOLEAN] :
            m.shared => m.response = "WRITE"}

ASSUME ModeAssumption ==
    /\ MaxRequests \in Nat
    /\ Modes \subseteq Mode
    /\ DOMAIN Process = Clients

ASSUME ResponseAssumption ==
    /\ PreparedResponses \in Nat \ {0}
    /\ RandNumbers \subseteq Nat

VARIABLE mode       \* the program that runs, chosen once

RequestVerb    == mode.request
ResponseVerb   == mode.response
SharedMemory   == mode.shared
EmptyMailboxes == mode.empty
Inline         == mode.inline
Requests       == mode.requests
EarlyInit      == mode.early

\* The receivers that run, in the order of the sequencer's entries.
Running == SubSeq(ReceiverOrder, 1, mode.receivers)

\* The mode of polling that goes with the verb of the other side (main()).
ReceiverPoll == IF RequestVerb = "WRITE" THEN "BUF" ELSE "SRQ"
SenderPoll   == IF ResponseVerb = "WRITE" THEN "BUF" ELSE "RQ"

expectedClients == Cardinality(Clients)
Processes == {Process[c] : c \in Clients}

\* The connection that carries the responses for client c (destinationNodeID).
destinationNode(c) == IF SharedMemory THEN Process[c] ELSE c
Nodes == Clients \cup Processes

\* The largest node id of a client; its slot is the last of the request buffer.
maxNodeID == CHOOSE m \in {NodeId[c] : c \in Clients} :
                 \A c \in Clients : NodeId[c] <= m
Slots == 0 .. maxNodeID

NoBody == [dest |-> "none", ptr |-> "none", id |-> 0, msgId |-> 0]
EmptySlot == [type |-> "EMPTY", body |-> NoBody]

\* An entry of the response buffer: the response to a request, and what no request
\* has been answered with yet.  senderNodeId is the address the response goes to.
Entries == 0 .. PreparedResponses - 1
ResponseTo(req) == [responseId |-> req.id, senderNodeId |-> req.ptr]
Unfilled == [responseId |-> 0, senderNodeId |-> "none"]

VARIABLES
    \* BenchmarkSender, per client
    cpc,        \* where the thread stands
    ri,         \* index into recvIds in the init and the finalize phase
    msgOffset,  \* recvInfo.msgOffset: the slot that the client got at each receiver
    i,          \* iterations of the request loop that are over
    picked,     \* the receiver of the current request
    expId,      \* expMsg->id: the prepared response that it asks for
    area,       \* the response area: transferFlag, the response in it, and (history)
                \* the request that this response answers
    rq,         \* rq[c][r]: receives posted on the connection to r
    rcq,        \* rcq[c][r]: completed receives not yet polled, with their content
    \* BenchmarkReceiver, per receiver
    rpc,        \* where the thread stands
    connected,  \* connectedSenderIds_
    slot,       \* reqBuffer_
    initBuf,    \* the types of the messages in initBuffer
    replied,    \* how many of the connected senders have their init reply
    srq,        \* the shared receive queue: buffer and memory index of each receive
    cq,         \* its completion queue: node, buffer and memory index
    cur,        \* memIdx, the request that is handled
    respBuffer, \* respBuffer_[r][id], shared by all clients; transferFlag is 1 in
                \* each entry that has been filled
    filledFrom, \* history: the request from which an entry was filled in last
    clientsFinished,
    handledRequests,
    \* the fabric
    wire,       \* wire[c][r]: posted by c to r and not yet delivered
    back,       \* back[r][n]: posted by r to node n and not yet delivered
    rnr,        \* connections broken by a SEND that found no receive
    \* history
    issued, served, answered    \* requests per client

clientVars == <<cpc, ri, msgOffset, i, picked, expId, area, rq, rcq>>
receiverVars == <<rpc, connected, slot, initBuf, replied, srq, cq, cur,
                  filledFrom, respBuffer, clientsFinished, handledRequests>>
fabricVars == <<wire, back, rnr>>
historyVars == <<issued, served, answered>>
progress == <<clientVars, receiverVars, fabricVars, historyVars>>
vars == <<mode, progress>>

-----------------------------------------------------------------------------
Types == {"EMPTY", "ExpMsg", "InitExp", "FinishedExp"}
Bodies == [dest : Nodes \cup {"none"}, ptr : Clients \cup {"none"}, id : Entries,
           msgId : 0 .. Requests]
Contents == [responseId : Entries, senderNodeId : Clients \cup {"none"}]
RequestMsgs == [type : Types, verb : Verbs, at : Slots, body : Bodies,
                stage : {"whole", "body"}]
ResponseMsgs == [type : Types, verb : Verbs, ptr : Clients, at : Slots,
                 entry : Entries, copy : Contents, body : Bodies, stage : {"whole", "body"}]
Receives == [buf : {"init", "req"}, idx : Nat]

ClientStates == {"connectBarrier", "sendInit", "initReply", "initBarrier", "loop",
                 "post", "await", "endBarrier", "finish", "finishAck", "done"}
ReceiverStates == {"start", "initPoll", "prepare", "reply", "replyAck", "poll",
                   "handle", "finalize", "transfer", "repost", "done"}

TypeOK ==
    /\ mode \in Modes
    /\ cpc \in [Clients -> ClientStates]
    /\ ri \in [Clients -> Nat]
    /\ msgOffset \in [Clients -> [Receivers -> Slots]]
    /\ i \in [Clients -> 0 .. Requests]
    /\ picked \in [Clients -> Receivers]
    /\ expId \in [Clients -> Entries]
    /\ area \in [Clients -> [flag : {0, 1}, content : Contents, body : Bodies]]
    /\ rq \in [Clients -> [Receivers -> Nat]]
    /\ rcq \in [Clients -> [Receivers -> Seq(ResponseMsgs)]]
    /\ rpc \in [Receivers -> ReceiverStates]
    /\ connected \in [Receivers -> Seq(Clients)]
    /\ slot \in [Receivers -> [Slots -> [type : Types, body : Bodies]]]
    /\ initBuf \in [Receivers -> [0 .. expectedClients - 1 -> Types]]
    /\ replied \in [Receivers -> 0 .. expectedClients]
    /\ srq \in [Receivers -> Seq(Receives)]
    /\ cq \in [Receivers -> Seq([node : Clients, buf : {"init", "req"}, idx : Nat])]
    /\ cur \in [Receivers -> Slots]
    /\ respBuffer \in [Receivers -> [Entries -> Contents]]
    /\ filledFrom \in [Receivers -> Bodies]
    /\ clientsFinished \in [Receivers -> 0 .. expectedClients]
    /\ handledRequests \in [Receivers -> Nat]
    /\ wire \in [Clients -> [Receivers -> Seq(RequestMsgs)]]
    /\ back \in [Receivers -> [Nodes -> Seq(ResponseMsgs)]]
    /\ rnr \subseteq (Clients \X Receivers) \cup (Receivers \X Nodes)
    /\ issued \in [Clients -> 0 .. Requests]
    /\ served \in [Clients -> Nat]
    /\ answered \in [Clients -> 0 .. Requests]

Init ==
    /\ mode \in Modes
    /\ cpc = [c \in Clients |-> "connectBarrier"]
    /\ ri = [c \in Clients |-> 1]
    /\ msgOffset = [c \in Clients |-> [r \in Receivers |-> 0]]
    /\ i = [c \in Clients |-> 0]
    /\ picked = [c \in Clients |-> ReceiverOrder[1]]
    /\ expId = [c \in Clients |-> 0]
    /\ area = [c \in Clients |-> [flag |-> 0, content |-> Unfilled, body |-> NoBody]]
    /\ rq = [c \in Clients |-> [r \in Receivers |-> 0]]
    /\ rcq = [c \in Clients |-> [r \in Receivers |-> <<>>]]
    /\ rpc = [r \in Receivers |-> "start"]
    /\ connected = [r \in Receivers |-> <<>>]
    /\ slot = [r \in Receivers |-> [s \in Slots |-> EmptySlot]]
    /\ initBuf = [r \in Receivers |-> [k \in 0 .. expectedClients - 1 |-> "EMPTY"]]
    /\ replied = [r \in Receivers |-> 0]
    /\ srq = [r \in Receivers |-> <<>>]
    /\ cq = [r \in Receivers |-> <<>>]
    /\ cur = [r \in Receivers |-> 0]
    /\ respBuffer = [r \in Receivers |-> [k \in Entries |-> Unfilled]]
    /\ filledFrom = [r \in Receivers |-> NoBody]
    /\ clientsFinished = [r \in Receivers |-> 0]
    /\ handledRequests = [r \in Receivers |-> 0]
    /\ wire = [c \in Clients |-> [r \in Receivers |-> <<>>]]
    /\ back = [r \in Receivers |-> [n \in Nodes |-> <<>>]]
    /\ rnr = {}
    /\ issued = [c \in Clients |-> 0]
    /\ served = [c \in Clients |-> 0]
    /\ answered = [c \in Clients |-> 0]

-----------------------------------------------------------------------------
(***************************************************************************)
(* Posting.  A queue pair in the error state flushes what is posted.       *)
(***************************************************************************)
Post(c, r, type, verb, body) ==
    wire' = IF <<c, r>> \in rnr THEN wire
            ELSE [wire EXCEPT ![c][r] = Append(@,
                     [type |-> type, verb |-> verb, at |-> msgOffset[c][r],
                      body |-> body, stage |-> "whole"])]

PostBack(r, n, m) ==
    back' = IF <<r, n>> \in rnr THEN back
            ELSE [back EXCEPT ![r][n] = Append(@, m)]

ClientGoto(c, from, to) ==
    /\ cpc[c] = from
    /\ cpc' = [cpc EXCEPT ![c] = to]

ReceiverGoto(r, from, to) ==
    /\ rpc[r] = from
    /\ rpc' = [rpc EXCEPT ![r] = to]

-----------------------------------------------------------------------------
(***************************************************************************)
(* BenchmarkSender                                                         *)
(***************************************************************************)

\* Mutant: one client sees the receivers in another order.
recvIdsReversed(c) == IF NodeId[c] = 0 THEN Reverse(Running) ELSE Running

\* Every client works through the receivers in the order of the sequencer.
recvIds(c) == Running

\* barrier.wait() of the clients of one process, at its three places.
PassBarrier(p) ==
    \E b \in {<<"connectBarrier", "sendInit">>, <<"initBarrier", "loop">>,
              <<"endBarrier", "finish">>} :
        LET members == {c \in Clients : Process[c] = p} IN
        /\ \A c \in members : cpc[c] = b[1]
        /\ cpc' = [c \in Clients |-> IF c \in members THEN b[2] ELSE cpc[c]]
        /\ UNCHANGED <<ri, msgOffset, i, picked, expId, area, rq, rcq, receiverVars,
                       fabricVars, historyVars>>

\* receive(): one more receive is posted on the connection.
receive(c, r) == rq' = [rq EXCEPT ![c][r] = @ + 1]

\* pollReceive(): waits for a completed receive and takes the oldest.
pollReceive(c, r) ==
    /\ rcq[c][r] # <<>>
    /\ rcq' = [rcq EXCEPT ![c][r] = Tail(@)]

\* initPhase(): a receive for the reply is posted before the Init message.
SendInit(c) ==
    LET r == recvIds(c)[ri[c]] IN
    /\ EarlyInit \/ rpc[r] # "start"
    /\ ClientGoto(c, "sendInit", "initReply")
    /\ receive(c, r)
    /\ Post(c, r, "InitExp", "SEND", NoBody)
    /\ UNCHANGED <<ri, msgOffset, i, picked, expId, area, rcq, receiverVars, back, rnr,
                   historyVars>>

\* The Init message has been acknowledged, and the reply names the slot.
InitReply(c) ==
    LET r == recvIds(c)[ri[c]]
        last == ri[c] = Len(recvIds(c)) IN
    /\ ClientGoto(c, "initReply", IF last THEN "initBarrier" ELSE "sendInit")
    /\ wire[c][r] = <<>>
    /\ pollReceive(c, r)
    /\ ri' = [ri EXCEPT ![c] = IF last THEN 1 ELSE @ + 1]
    /\ msgOffset' = [msgOffset EXCEPT ![c][r] = Head(rcq[c][r]).at]
    /\ UNCHANGED <<i, picked, expId, area, rq, receiverVars, fabricVars, historyVars>>

\* benchmarkPhase() with percEmptyMailbox: an iteration without a request.
SkipIteration(c) ==
    /\ EmptyMailboxes
    /\ cpc[c] = "loop"
    /\ i[c] < Requests
    /\ i' = [i EXCEPT ![c] = @ + 1]
    /\ UNCHANGED <<cpc, ri, msgOffset, picked, expId, area, rq, rcq, receiverVars,
                   fabricVars, historyVars>>

\* Up to the post: one random number gives the prepared response and the receiver;
\* reset the flag (not with shared memory), post the receive for the response (RQ
\* only).
PrepareRequest(c) ==
    /\ i[c] < Requests
    /\ ClientGoto(c, "loop", "post")
    /\ area' = IF SharedMemory THEN area ELSE [area EXCEPT ![c].flag = 0]
    /\ \E randNumber \in RandNumbers :
          LET r == recvIds(c)[(randNumber % Len(recvIds(c))) + 1] IN
          /\ expId' = [expId EXCEPT ![c] = randNumber % PreparedResponses]
          /\ picked' = [picked EXCEPT ![c] = r]
          /\ IF SenderPoll = "RQ" THEN receive(c, r) ELSE UNCHANGED rq
    /\ UNCHANGED <<ri, msgOffset, i, rcq, receiverVars, fabricVars, historyVars>>

\* write() or send() of expMsg, unsignaled.
PostRequest(c) ==
    /\ ClientGoto(c, "post", "await")
    /\ issued' = [issued EXCEPT ![c] = @ + 1]
    /\ Post(c, picked[c], "ExpMsg", RequestVerb,
            [dest |-> destinationNode(c), ptr |-> c, id |-> expId[c],
             msgId |-> issued[c] + 1])
    /\ UNCHANGED <<ri, msgOffset, i, picked, expId, area, rq, rcq, receiverVars, back, rnr,
                   served, answered>>

\* Mutant: the flag is not reset after the spin.
TakeResponseKeepFlag(c) ==
    /\ ClientGoto(c, "await", "loop")
    /\ area[c].flag = 1
    /\ i' = [i EXCEPT ![c] = @ + 1]
    /\ answered' = [answered EXCEPT ![c] = @ + 1]
    /\ UNCHANGED <<ri, msgOffset, picked, expId, area, rq, rcq, receiverVars, fabricVars, issued,
                   served>>

\* Spin on transferFlag and reset it (BUF), or pollReceive (RQ).
TakeResponse(c) ==
    LET r == picked[c] IN
    /\ ClientGoto(c, "await", "loop")
    /\ \/ /\ SenderPoll = "BUF" /\ area[c].flag = 1
          /\ area' = [area EXCEPT ![c].flag = 0]
          /\ UNCHANGED rcq
       \/ /\ SenderPoll = "RQ" /\ pollReceive(c, r)
          /\ UNCHANGED area
    /\ i' = [i EXCEPT ![c] = @ + 1]
    /\ answered' = [answered EXCEPT ![c] = @ + 1]
    /\ UNCHANGED <<ri, msgOffset, picked, expId, rq, receiverVars, fabricVars, issued, served>>

EndLoop(c) ==
    /\ i[c] = Requests
    /\ ClientGoto(c, "loop", "endBarrier")
    /\ UNCHANGED <<ri, msgOffset, i, picked, expId, area, rq, rcq, receiverVars, fabricVars,
                   historyVars>>

\* finalizePhase(): FinishedExp to every receiver, signaled.
SendFinished(c) ==
    /\ ClientGoto(c, "finish", "finishAck")
    /\ Post(c, recvIds(c)[ri[c]], "FinishedExp", RequestVerb, NoBody)
    /\ UNCHANGED <<ri, msgOffset, i, picked, expId, area, rq, rcq, receiverVars, back, rnr,
                   historyVars>>

FinishedAcknowledged(c) ==
    LET r == recvIds(c)[ri[c]]
        last == ri[c] = Len(recvIds(c)) IN
    /\ ClientGoto(c, "finishAck", IF last THEN "done" ELSE "finish")
    /\ wire[c][r] = <<>>
    /\ <<c, r>> \notin rnr
    /\ ri' = [ri EXCEPT ![c] = IF last THEN 1 ELSE @ + 1]
    /\ UNCHANGED <<msgOffset, i, picked, expId, area, rq, rcq, receiverVars, fabricVars,
                   historyVars>>

ClientStep(c) ==
    \/ SendInit(c) \/ InitReply(c)
    \/ SkipIteration(c) \/ PrepareRequest(c) \/ PostRequest(c) \/ TakeResponse(c)
    \/ EndLoop(c)
    \/ SendFinished(c) \/ FinishedAcknowledged(c)

-----------------------------------------------------------------------------
(***************************************************************************)
(* BenchmarkReceiver                                                       *)
(***************************************************************************)

\* receiveBatchSRQ(): memory indexes 0 .. n - 1 of one buffer.
receiveBatch(buf, n) == [k \in 1 .. n |-> [buf |-> buf, idx |-> k - 1]]

\* receiveSRQ(), once for each of the receives.
receiveSRQ(r, receives) == srq' = [srq EXCEPT ![r] = @ \o receives]

\* pollReceiveSRQ(): waits for a completion and takes the oldest.
pollReceiveSRQ(r) ==
    /\ cq[r] # <<>>
    /\ cq' = [cq EXCEPT ![r] = Tail(@)]

\* Mutant: one receive too many is left in the queue.
PostInitReceivesExtra(r) ==
    /\ ReceiverGoto(r, "start", "initPoll")
    /\ receiveSRQ(r, receiveBatch("init", expectedClients + 1))
    /\ UNCHANGED <<connected, slot, initBuf, replied, cq, cur, filledFrom, respBuffer, clientsFinished,
                   handledRequests, clientVars, fabricVars, historyVars>>

\* initPhase() starts with one receive per expected client.
PostInitReceives(r) ==
    /\ ReceiverGoto(r, "start", "initPoll")
    /\ receiveSRQ(r, receiveBatch("init", expectedClients))
    /\ UNCHANGED <<connected, slot, initBuf, replied, cq, cur, filledFrom, respBuffer, clientsFinished,
                   handledRequests, clientVars, fabricVars, historyVars>>

\* pollReceiveSRQ, and an Init message counts its sender; any other does not.
PollInit(r) ==
    LET done == Head(cq[r])
        senders == IF initBuf[r][done.idx] = "InitExp" THEN Append(connected[r], done.node)
                   ELSE connected[r] IN
    /\ pollReceiveSRQ(r)
    /\ ReceiverGoto(r, "initPoll",
          IF Len(senders) = expectedClients THEN "prepare" ELSE "initPoll")
    /\ connected' = [connected EXCEPT ![r] = senders]
    /\ UNCHANGED <<slot, initBuf, replied, srq, cur, filledFrom, respBuffer, clientsFinished,
                   handledRequests, clientVars, fabricVars, historyVars>>

\* Mutant: the last node id is forgotten.
reqBufferLengthShort == maxNodeID

\* reqBufferLength_: one entry for each node id up to the largest.
reqBufferLength == maxNodeID + 1

\* initReqBuffer()
PrepareReqBuffer(r) ==
    /\ ReceiverGoto(r, "prepare", "reply")
    /\ IF ReceiverPoll = "BUF"
       THEN /\ slot' = [slot EXCEPT ![r] = [s \in Slots |-> [slot[r][s] EXCEPT !.type = "EMPTY"]]]
            /\ UNCHANGED srq
       ELSE /\ receiveSRQ(r, receiveBatch("req", reqBufferLength))
            /\ UNCHANGED slot
    /\ UNCHANGED <<connected, initBuf, replied, cq, cur, filledFrom, respBuffer, clientsFinished,
                   handledRequests, clientVars, fabricVars, historyVars>>

\* The slot of a client in reqBuffer_ is the one of its node id.
slotOf(r, k) == NodeId[connected[r][k]]

\* The reply to the next connected sender, signaled.
ReplyInit(r) ==
    LET k == replied[r] + 1
        c == connected[r][k] IN
    /\ ReceiverGoto(r, "reply", "replyAck")
    /\ PostBack(r, c, [type |-> "InitExp", verb |-> "SEND", ptr |-> c,
                       at |-> slotOf(r, k), entry |-> 0, copy |-> Unfilled,
                       body |-> NoBody, stage |-> "whole"])
    /\ UNCHANGED <<connected, slot, initBuf, replied, srq, cq, cur, filledFrom, respBuffer, clientsFinished,
                   handledRequests, clientVars, wire, rnr, historyVars>>

ReplyAcknowledged(r) ==
    LET c == connected[r][replied[r] + 1] IN
    /\ ReceiverGoto(r, "replyAck",
          IF replied[r] + 1 = Len(connected[r]) THEN "poll" ELSE "reply")
    /\ back[r][c] = <<>> /\ <<r, c>> \notin rnr
    /\ replied' = [replied EXCEPT ![r] = @ + 1]
    /\ UNCHANGED <<connected, slot, initBuf, srq, cq, cur, filledFrom, respBuffer, clientsFinished,
                   handledRequests, clientVars, fabricVars, historyVars>>

\* poll(): a slot that is not EMPTY, whichever the scan meets first, or the
\* memory index of the next completion.
Poll(r) ==
    /\ ReceiverGoto(r, "poll", "handle")
    /\ \/ /\ ReceiverPoll = "BUF"
          /\ \E s \in Slots : slot[r][s].type # "EMPTY" /\ cur' = [cur EXCEPT ![r] = s]
          /\ UNCHANGED cq
       \/ /\ ReceiverPoll = "SRQ" /\ pollReceiveSRQ(r)
          /\ cur' = [cur EXCEPT ![r] = Head(cq[r]).idx]
    /\ UNCHANGED <<connected, slot, initBuf, replied, srq, filledFrom, respBuffer, clientsFinished,
                   handledRequests, clientVars, fabricVars, historyVars>>

\* Mutant: the whole slot is cleared.
cleared(r) == [slot EXCEPT ![r][cur[r]] = EmptySlot]

\* finalize() of a polled slot resets its type and nothing else.
emptied(r) == [slot EXCEPT ![r][cur[r]].type = "EMPTY"]

\* Mutant: the response is sent before the slot is emptied.
requestStepsTransferFirst ==
    IF ReceiverPoll = "BUF" THEN <<"transfer", "finalize">> ELSE <<"transfer", "repost">>

\* A polled slot is emptied before the transfer, a receive is posted after it.
requestSteps ==
    IF ReceiverPoll = "BUF" THEN <<"finalize", "transfer">> ELSE <<"transfer", "repost">>

stepAfter(s) == IF s = requestSteps[1] THEN requestSteps[2] ELSE "poll"

\* Mutant: the response of another request is sent, one entry further.
entryOfNext(req) == (req.id + 1) % PreparedResponses

\* The entry of the response buffer for a request.
entryOf(req) == req.id

\* An ExpMsg: the entry that it names is filled in, whoever else has named it.
FillResponse(r) ==
    LET req == slot[r][cur[r]].body IN
    /\ ReceiverGoto(r, "handle", requestSteps[1])
    /\ slot[r][cur[r]].type = "ExpMsg"
    /\ respBuffer' = [respBuffer EXCEPT ![r][req.id] = ResponseTo(req)]
    /\ filledFrom' = [filledFrom EXCEPT ![r] = req]
    /\ UNCHANGED <<connected, slot, initBuf, replied, srq, cq, cur, clientsFinished,
                   handledRequests, clientVars, fabricVars, historyVars>>

\* Mutant: the slot keeps its type.
FinalizeNothing(r) ==
    /\ ReceiverGoto(r, "finalize", stepAfter("finalize"))
    /\ UNCHANGED <<connected, slot, initBuf, replied, srq, cq, cur, filledFrom, respBuffer, clientsFinished,
                   handledRequests, clientVars, fabricVars, historyVars>>

\* finalize() with polled slots.
FinalizeSlot(r) ==
    /\ ReceiverGoto(r, "finalize", stepAfter("finalize"))
    /\ slot' = emptied(r)
    /\ UNCHANGED <<connected, initBuf, replied, srq, cq, cur, filledFrom, respBuffer, clientsFinished,
                   handledRequests, clientVars, fabricVars, historyVars>>

\* transfer() reads destination and entry from the request once more.  A response
\* that is inlined is copied when it is posted; of a larger one only its address is.
Transfer(r) ==
    LET req == slot[r][cur[r]].body IN
    /\ ReceiverGoto(r, "transfer", stepAfter("transfer"))
    /\ PostBack(r, req.dest, [type |-> "ExpMsg", verb |-> ResponseVerb, ptr |-> req.ptr,
                              at |-> 0, entry |-> entryOf(req),
                              copy |-> IF Inline THEN respBuffer[r][entryOf(req)] ELSE Unfilled,
                              body |-> req, stage |-> "whole"])
    /\ handledRequests' = [handledRequests EXCEPT ![r] = @ + 1]
    /\ served' = [served EXCEPT ![req.ptr] = @ + 1]
    /\ UNCHANGED <<connected, slot, initBuf, replied, srq, cq, cur, filledFrom, respBuffer,
                   clientsFinished, clientVars, wire, rnr, issued, answered>>

\* finalize() with a shared receive queue.
Repost(r) ==
    /\ ReceiverGoto(r, "repost", stepAfter("repost"))
    /\ receiveSRQ(r, <<[buf |-> "req", idx |-> cur[r]]>>)
    /\ UNCHANGED <<connected, slot, initBuf, replied, cq, cur, filledFrom, respBuffer, clientsFinished,
                   handledRequests, clientVars, fabricVars, historyVars>>

\* Mutant: a FinishedExp stays in its slot and is counted again.
CountFinishedKeepSlot(r) ==
    /\ ReceiverGoto(r, "handle",
          IF clientsFinished[r] + 1 = expectedClients THEN "done" ELSE "poll")
    /\ slot[r][cur[r]].type = "FinishedExp"
    /\ clientsFinished' = [clientsFinished EXCEPT ![r] = @ + 1]
    /\ UNCHANGED <<connected, slot, initBuf, replied, srq, cq, cur, filledFrom, respBuffer, handledRequests,
                   clientVars, fabricVars, historyVars>>

\* A FinishedExp: the last one ends the phase; a polled slot is emptied, but a
\* receive is not posted again.
CountFinished(r) ==
    LET last == clientsFinished[r] + 1 = expectedClients IN
    /\ ReceiverGoto(r, "handle", IF last THEN "done" ELSE "poll")
    /\ slot[r][cur[r]].type = "FinishedExp"
    /\ clientsFinished' = [clientsFinished EXCEPT ![r] = @ + 1]
    /\ slot' = IF ReceiverPoll = "BUF" /\ ~last THEN emptied(r) ELSE slot
    /\ UNCHANGED <<connected, initBuf, replied, srq, cq, cur, filledFrom, respBuffer, handledRequests,
                   clientVars, fabricVars, historyVars>>

ReceiverStep(r) ==
    /\ r \in ToSet(Running)
    /\ \/ PostInitReceives(r) \/ PollInit(r) \/ PrepareReqBuffer(r)
       \/ ReplyInit(r) \/ ReplyAcknowledged(r)
       \/ Poll(r) \/ FillResponse(r) \/ FinalizeSlot(r) \/ Transfer(r) \/ Repost(r)
       \/ CountFinished(r)

-----------------------------------------------------------------------------
(***************************************************************************)
(* The fabric                                                              *)
(***************************************************************************)

\* A WRITE is placed in address order: type is the last field of a message and
\* transferFlag the last of a response.
PlaceRequestBody(c, r) ==
    LET m == Head(wire[c][r]) IN
    /\ wire[c][r] # <<>> /\ m.verb = "WRITE" /\ m.stage = "whole"
    /\ slot' = [slot EXCEPT ![r][m.at].body = m.body]
    /\ wire' = [wire EXCEPT ![c][r][1].stage = "body"]
    /\ UNCHANGED <<rpc, connected, initBuf, replied, srq, cq, cur, filledFrom, respBuffer, clientsFinished,
                   handledRequests, clientVars, back, rnr, historyVars>>

PlaceRequestType(c, r) ==
    LET m == Head(wire[c][r]) IN
    /\ wire[c][r] # <<>> /\ m.stage = "body"
    /\ slot' = [slot EXCEPT ![r][m.at].type = m.type]
    /\ wire' = [wire EXCEPT ![c][r] = Tail(@)]
    /\ UNCHANGED <<rpc, connected, initBuf, replied, srq, cq, cur, filledFrom, respBuffer, clientsFinished,
                   handledRequests, clientVars, back, rnr, historyVars>>

\* A SEND takes the oldest posted receive; without one the connection breaks.
DeliverRequestSend(c, r) ==
    LET m == Head(wire[c][r])
        recv == Head(srq[r]) IN
    /\ wire[c][r] # <<>> /\ m.verb = "SEND"
    /\ IF srq[r] = <<>>
       THEN /\ rnr' = rnr \cup {<<c, r>>}
            /\ wire' = [wire EXCEPT ![c][r] = <<>>]
            /\ UNCHANGED <<srq, cq, slot, initBuf>>
       ELSE /\ srq' = [srq EXCEPT ![r] = Tail(@)]
            /\ cq' = [cq EXCEPT ![r] =
                         Append(@, [node |-> c, buf |-> recv.buf, idx |-> recv.idx])]
            /\ IF recv.buf = "init"
               THEN /\ initBuf' = [initBuf EXCEPT ![r][recv.idx] = m.type]
                    /\ UNCHANGED slot
               ELSE /\ slot' = [slot EXCEPT ![r][recv.idx] = [type |-> m.type, body |-> m.body]]
                    /\ UNCHANGED initBuf
            /\ wire' = [wire EXCEPT ![c][r] = Tail(@)]
            /\ UNCHANGED rnr
    /\ UNCHANGED <<rpc, connected, replied, cur, filledFrom, respBuffer, clientsFinished, handledRequests,
                   clientVars, back, historyVars>>

\* What the card sends: the copy, or what the entry holds by now.
contentOf(r, m) ==
    IF m.type = "ExpMsg" /\ ~Inline THEN respBuffer[r][m.entry] ELSE m.copy

PlaceResponseBody(r, n) ==
    LET m == Head(back[r][n]) IN
    /\ back[r][n] # <<>> /\ m.verb = "WRITE" /\ m.stage = "whole"
    /\ area' = [area EXCEPT ![m.ptr].content = contentOf(r, m), ![m.ptr].body = m.body]
    /\ back' = [back EXCEPT ![r][n][1].stage = "body"]
    /\ UNCHANGED <<cpc, ri, msgOffset, i, picked, expId, rq, rcq, receiverVars, wire, rnr,
                   historyVars>>

PlaceTransferFlag(r, n) ==
    LET m == Head(back[r][n]) IN
    /\ back[r][n] # <<>> /\ m.stage = "body"
    /\ area' = [area EXCEPT ![m.ptr].flag = 1]
    /\ back' = [back EXCEPT ![r][n] = Tail(@)]
    /\ UNCHANGED <<cpc, ri, msgOffset, i, picked, expId, rq, rcq, receiverVars, wire, rnr,
                   historyVars>>

\* A response that is sent arrives at the client that owns the connection.
DeliverResponseSend(r, c) ==
    LET m == Head(back[r][c]) IN
    /\ c \in Clients
    /\ back[r][c] # <<>> /\ m.verb = "SEND"
    /\ IF rq[c][r] = 0
       THEN /\ rnr' = rnr \cup {<<r, c>>}
            /\ back' = [back EXCEPT ![r][c] = <<>>]
            /\ UNCHANGED <<rq, rcq>>
       ELSE /\ rq' = [rq EXCEPT ![c][r] = @ - 1]
            /\ rcq' = [rcq EXCEPT ![c][r] = Append(@, [m EXCEPT !.copy = contentOf(r, m)])]
            /\ back' = [back EXCEPT ![r][c] = Tail(@)]
            /\ UNCHANGED rnr
    /\ UNCHANGED <<cpc, ri, msgOffset, i, picked, expId, area, receiverVars, wire, historyVars>>

RequestArrives(c, r) ==
    PlaceRequestBody(c, r) \/ PlaceRequestType(c, r) \/ DeliverRequestSend(c, r)

ResponseArrives(r, n) ==
    PlaceResponseBody(r, n) \/ PlaceTransferFlag(r, n) \/ DeliverResponseSend(r, n)

-----------------------------------------------------------------------------
Next ==
    /\ \/ \E p \in Processes : PassBarrier(p)
       \/ \E c \in Clients : ClientStep(c)
       \/ \E r \in Receivers : ReceiverStep(r)
       \/ \E c \in Clients, r \in Receivers : RequestArrives(c, r)
       \/ \E r \in Receivers, n \in Nodes : ResponseArrives(r, n)
    /\ UNCHANGED mode

\* Threads are scheduled, a barrier that everybody has reached opens, and the
\* fabric delivers what was posted.
Fairness ==
    /\ \A p \in Processes : WF_progress(PassBarrier(p))
    /\ \A c \in Clients : WF_progress(ClientStep(c))
    /\ \A r \in Receivers : WF_progress(ReceiverStep(r))
    /\ \A c \in Clients, r \in Receivers : WF_progress(RequestArrives(c, r))
    /\ \A r \in Receivers, n \in Nodes : WF_progress(ResponseArrives(r, n))

Spec == Init /\ [][Next]_vars

FairSpec == Spec /\ Fairness

-----------------------------------------------------------------------------
(***************************************************************************)
(* Properties                                                              *)
(***************************************************************************)

\* benchmarkPhase() on both sides implements RequestReply: each request is
\* served once and each served request answered once, and a client has at most
\* one request under way.
Abstract == INSTANCE RequestReply WITH Requests <- MaxRequests
RequestReplySpec == Abstract!Spec

\* What a client finds in a response: the id that it has asked for, and its own
\* address in senderNodeId if the response was inlined.  A larger response may hold
\* the address of another client that has asked for the same entry since, but never
\* what no request has been answered with.
Answers(c, content) ==
    /\ content.responseId = expId[c]
    /\ content.senderNodeId \in (IF Inline THEN {c} ELSE Clients)

\* A response that is under way, or has arrived, is that to the request the client
\* waits for, with the content this request has asked for: no answer is late, doubled
\* or sent to somebody else, although all clients share the entries of a receiver's
\* response buffer.
ResponseMatchesRequest ==
    LET matches(c, b) == cpc[c] = "await" /\ b.ptr = c /\ b.msgId = issued[c] IN
    /\ \A r \in Receivers, n \in Nodes : \A k \in DOMAIN back[r][n] :
          LET m == back[r][n][k] IN
          m.type = "ExpMsg" => /\ matches(m.ptr, m.body)
                               /\ area[m.ptr].flag = 0
                               /\ m.stage = "whole" => Answers(m.ptr, contentOf(r, m))
                               /\ m.stage = "body" => Answers(m.ptr, area[m.ptr].content)
    /\ \A c \in Clients :
          area[c].flag = 1 => matches(c, area[c].body) /\ Answers(c, area[c].content)
    /\ \A c \in Clients, r \in Receivers : \A k \in DOMAIN rcq[c][r] :
          LET m == rcq[c][r][k] IN
          m.type = "ExpMsg" => /\ matches(c, m.body) /\ Answers(c, m.copy)
                               /\ picked[c] = r /\ Len(rcq[c][r]) = 1

\* A client writes into its slot only when the receiver has emptied it: no
\* request or FinishedExp overwrites one that has not been handled.
SlotFreeForWrite ==
    \A c \in Clients, r \in Receivers :
        wire[c][r] # <<>> /\ Head(wire[c][r]).verb = "WRITE" =>
            /\ Len(wire[c][r]) = 1
            /\ slot[r][Head(wire[c][r]).at].type = "EMPTY"
            /\ ~\E d \in Clients \ {c} : wire[d][r] # <<>>
                   /\ Head(wire[d][r]).verb = "WRITE"
                   /\ Head(wire[d][r]).at = Head(wire[c][r]).at

\* Types, and the slots of written requests: the state of the two sides that a
\* step of either relies on.
RequestResponseInv == TypeOK /\ SlotFreeForWrite

\* transfer() reads the request again after its slot has been marked EMPTY (BUF)
\* and still finds the request that the response was filled in from, which is the
\* one its client waits for; the entry that it names holds that response.
TransferReadsSameRequest ==
    \A r \in Receivers : rpc[r] = "transfer" =>
        LET req == slot[r][cur[r]].body IN
        /\ req = filledFrom[r]
        /\ respBuffer[r][req.id] = ResponseTo(req)
        /\ req.ptr \in Clients
        /\ req.id = expId[req.ptr] /\ req.msgId = issued[req.ptr]
        /\ cpc[req.ptr] = "await" /\ picked[req.ptr] = r

\* With rnr_retry = 0 no SEND may ever find an empty receive queue, although a
\* receiver posts a receive again only after it has sent the response.
NoReceiverNotReady == rnr = {}

\* The two buffers behind one shared receive queue both use memory indexes from
\* 0: in each phase only completions of the buffer of that phase arrive.
CompletionsMatchPhase ==
    \A r \in Receivers : \A k \in DOMAIN cq[r] :
        cq[r][k].buf = IF rpc[r] \in {"start", "initPoll"} THEN "init" ELSE "req"

\* A receiver returns only when every client has finished and nothing is left
\* for it, and the requests that all receivers report are those sent.
ReceiverReturnsComplete ==
    /\ \A r \in ToSet(Running) : rpc[r] = "done" =>
          /\ cq[r] = <<>>
          /\ \A c \in Clients : /\ wire[c][r] = <<>>
                                 /\ cpc[c] \in {"finish", "finishAck", "done"}
    /\ (\A r \in ToSet(Running) : rpc[r] = "done") =>
          MapThenSumSet(LAMBDA r : handledRequests[r], Receivers)
            = MapThenSumSet(LAMBDA c : issued[c], Clients)

\* With rnr_retry = 0 a SEND that finds no receive is lost with its connection.
\* Only an Init message that a client has sent before the receives for it were
\* posted may be lost, and then nobody gets past initPhase.
OnlyInitIsLost ==
    rnr # {} => /\ EarlyInit
                /\ \A c \in Clients :
                      cpc[c] \in {"connectBarrier", "sendInit", "initReply", "initBarrier"}

\* Every client and every receiver gets to its end, unless an Init message has
\* been lost.
AllReturn ==
    <>[](\/ EarlyInit /\ rnr # {}
         \/ /\ \A c \in Clients : cpc[c] = "done"
            /\ \A r \in ToSet(Running) : rpc[r] = "done")
=============================================================================
