----------------------------- MODULE RpcHandler -----------------------------
(***************************************************************************)
(* A handler thread for messages that clients send to a shared receive     *)
(* queue (RPCVoidHandlerThread, of which RPCHandlerThread is the typed     *)
(* form): its ring of receive buffers (RPCMemory), the loop that polls,    *)
(* handles a message and posts its buffer again, and the calls that start  *)
(* and stop the thread (Thread).                                           *)
(*                                                                         *)
(* A completion does not say which buffer was filled: the handler takes    *)
(* the next of its ring.  That is right as long as completions come in the *)
(* order in which the buffers were posted, which is up to the fabric: a    *)
(* message takes its buffer with its first packet and completes with its   *)
(* last one.                                                               *)
(***************************************************************************)
EXTENDS Integers, Sequences, SequencesExt, FiniteSets

CONSTANTS
    Clients,
    MaxMsgs,    \* m_maxNumberMsgs, the buffers of the ring
    IndexMod,   \* number of values of m_index, 2^32 in the code
    CqSize,     \* completions that fit, RDMA_MAX_WR + 1 in the code
    Scenarios   \* what owner and clients do, see ScenariosAssumption

Calls == {"startHandler", "stopHandler"}

ASSUME ClientsAssumption == IsFiniteSet(Clients)

\* plan: the calls of the owner.  messages: how many each client sends.  packets: of
\* each message.  orderly: the owner destroys the handler only when all messages
\* have been handled.
ASSUME ScenariosAssumption ==
    \A s \in Scenarios :
        /\ s.plan \in Seq(Calls)
        /\ s.messages \in [Clients -> Nat]
        /\ s.packets \in {1, 2}
        /\ s.orderly \in BOOLEAN

\* The queue of completions has to hold one for each buffer, and the ring follows
\* the receives beyond 2^32 messages only if its length divides 2^32.
ASSUME RingAssumption ==
    /\ MaxMsgs \in Nat \ {0} /\ IndexMod \in Nat \ {0}
    /\ IndexMod % MaxMsgs = 0
    /\ CqSize \in Nat /\ MaxMsgs <= CqSize

VARIABLES
    scenario,   \* what owner and clients do, chosen once
    \* the owner
    opc,        \* where it is
    results,    \* what its calls have returned
    ended,      \* how it all ended: "no", "destroyed", or "terminate" (std::terminate)
    \* RPCVoidHandlerThread and Thread
    m_processing, m_poll, m_kill,
    m_thread,   \* the std::thread: none, joinable or joined
    tpc,        \* where the thread is
    m_index,    \* RPCMemory: the number of getNext() so far, mod IndexMod
    wc,         \* the completion it has polled
    ibAddr,     \* the sender, if it has been set
    message,    \* the buffer that the ring says the message is in
    \* the card: receives, completions, and what is in the buffers
    srq, cq, content,
    arriving,   \* arriving[c]: the buffer that a message of c is being written to
    \* the clients
    sent,       \* messages they have sent
    arrived,    \* messages of which the first packet has arrived
    broken,     \* clients whose message found no receive
    \* history
    handled,    \* handled[c]: the messages of c that have been handled, in order
    lateWrite   \* a message has been written to the ring after it was freed

ownerVars == <<opc, results, ended>>
threadVars == <<m_processing, m_poll, m_kill, m_thread, tpc>>
loopVars == <<m_index, wc, ibAddr, message>>
cardVars == <<srq, cq, content, arriving>>
clientVars == <<sent, arrived, broken>>
historyVars == <<handled, lateWrite>>
progress == <<ownerVars, threadVars, loopVars, cardVars, clientVars, historyVars>>
vars == <<scenario, progress>>

Buffers == 0 .. MaxMsgs - 1
NoBuffer == -1
Unset == "unset"
NoMessage == <<Unset, 0>>
Messages == (Clients \X Nat) \cup {NoMessage}
Completions == [sender : Clients, buf : Buffers, msg : Messages]

Results == Seq([call : Calls, ok : BOOLEAN])

OwnerTypeOK ==
    /\ opc \in {"idle", "starting", "startFailed?", "stopping", "joining", "done"}
    /\ results \in Results
    /\ ended \in {"no", "destroyed", "terminate"}

ThreadTypeOK ==
    /\ m_processing \in BOOLEAN /\ m_poll \in BOOLEAN /\ m_kill \in BOOLEAN
    /\ m_thread \in {"none", "joinable", "joined"}
    /\ tpc \in {"none", "run", "test", "poll", "found", "handle", "repost", "leave", "ended"}

LoopTypeOK ==
    /\ m_index \in 0 .. IndexMod - 1
    /\ wc \in Seq(Completions) /\ Len(wc) <= 1
    /\ ibAddr \in Clients \cup {Unset}
    /\ message \in Buffers \cup {NoBuffer}

CardTypeOK ==
    /\ srq \in Seq(Buffers) /\ cq \in Seq(Completions)
    /\ content \in [Buffers -> Messages]
    /\ arriving \in [Clients -> Buffers \cup {NoBuffer}]

ClientTypeOK ==
    /\ sent \in [Clients -> Nat] /\ arrived \in [Clients -> Nat]
    /\ broken \subseteq Clients
    /\ handled \in [Clients -> Seq(Nat)]
    /\ lateWrite \in BOOLEAN

TypeOK ==
    /\ scenario \in Scenarios
    /\ OwnerTypeOK /\ ThreadTypeOK /\ LoopTypeOK /\ CardTypeOK /\ ClientTypeOK

\* initMemory() has posted a receive for every buffer.
Init ==
    /\ scenario \in Scenarios
    /\ opc = "idle" /\ results = <<>> /\ ended = "no"
    /\ m_processing = FALSE /\ m_poll = TRUE /\ m_kill = FALSE
    /\ m_thread = "none" /\ tpc = "none"
    /\ m_index = MaxMsgs % IndexMod
    /\ wc = <<>> /\ ibAddr = Unset /\ message = NoBuffer
    /\ srq = [k \in 1 .. MaxMsgs |-> k - 1] /\ cq = <<>>
    /\ content = [b \in Buffers |-> NoMessage]
    /\ arriving = [c \in Clients |-> NoBuffer]
    /\ sent = [c \in Clients |-> 0] /\ arrived = [c \in Clients |-> 0]
    /\ broken = {}
    /\ handled = [c \in Clients |-> <<>>] /\ lateWrite = FALSE

OwnerGoto(from, to) == opc = from /\ opc' = to
ThreadGoto(from, to) == tpc = from /\ tpc' = to

-----------------------------------------------------------------------------
(***************************************************************************)
(* The owner                                                               *)
(***************************************************************************)
HasCall == Len(results) < Len(scenario.plan)
Call == scenario.plan[Len(results) + 1]
Returns(ok) == results' = Append(results, [call |-> Call, ok |-> ok])

\* An orderly owner waits until all messages have been handled.
MayEnd == scenario.orderly =>
    \A c \in Clients \ broken : Len(handled[c]) = scenario.messages[c]

\* startHandler(): true at once if it runs, a new thread otherwise.  The model has one
\* thread: an owner who has seen a start fail does not call again before it has ended.
StartAgain ==
    /\ opc = "idle" /\ HasCall /\ Call = "startHandler" /\ m_processing
    /\ Returns(TRUE)
    /\ UNCHANGED <<opc, ended, threadVars>>

StartHandler ==
    /\ HasCall /\ Call = "startHandler" /\ ~m_processing
    /\ tpc \in {"none", "ended"}
    /\ OwnerGoto("idle", "starting")
    /\ m_thread' = "joinable" /\ tpc' = "run"
    /\ UNCHANGED <<results, ended, m_processing, m_poll, m_kill>>

\* It waits until the thread runs, or has been killed, before as well as in this call.
Started ==
    /\ m_processing
    /\ OwnerGoto("starting", "idle")
    /\ Returns(TRUE)
    /\ UNCHANGED <<ended, threadVars>>

NotStartedYet ==
    /\ ~m_processing
    /\ OwnerGoto("starting", "startFailed?")
    /\ UNCHANGED <<results, ended, threadVars>>

StartFailed ==
    /\ OwnerGoto("startFailed?", IF m_kill THEN "idle" ELSE "starting")
    /\ IF m_kill THEN Returns(FALSE) ELSE UNCHANGED results
    /\ UNCHANGED <<ended, threadVars>>

\* stopHandler(): stop(), then m_poll is cleared, as the thread may be polling ...
StopIdle ==
    /\ opc = "idle" /\ HasCall /\ Call = "stopHandler" /\ ~m_processing
    /\ Returns(TRUE)
    /\ UNCHANGED <<opc, ended, threadVars>>

StopHandler ==
    /\ HasCall /\ Call = "stopHandler" /\ m_processing
    /\ MayEnd
    /\ OwnerGoto("idle", "stopping")
    /\ m_kill' = TRUE
    /\ UNCHANGED <<results, ended, m_processing, m_poll, m_thread, tpc>>

\* Mutant: the thread is left polling.
KeepPolling ==
    /\ OwnerGoto("stopping", "joining")
    /\ UNCHANGED <<results, ended, threadVars>>

StopPolling ==
    /\ OwnerGoto("stopping", "joining")
    /\ m_poll' = FALSE
    /\ UNCHANGED <<results, ended, m_processing, m_kill, m_thread, tpc>>

\* ... and set again when the thread has been joined.
Join ==
    /\ tpc = "ended"
    /\ OwnerGoto("joining", "idle")
    /\ m_thread' = "joined" /\ m_poll' = TRUE
    /\ Returns(TRUE)
    /\ UNCHANGED <<ended, m_processing, m_kill, tpc>>

\* The destructors give the ring back and delete the std::thread, which must not be
\* joinable.  The receives stay posted.
Destroy ==
    /\ ~HasCall
    /\ MayEnd
    /\ OwnerGoto("idle", "done")
    /\ ended' = IF m_thread = "joinable" THEN "terminate" ELSE "destroyed"
    /\ UNCHANGED <<results, threadVars>>

Owner ==
    /\ \/ StartAgain \/ StartHandler \/ Started \/ NotStartedYet \/ StartFailed
       \/ StopIdle \/ StopHandler \/ StopPolling \/ Join \/ Destroy
    /\ UNCHANGED <<loopVars, cardVars, clientVars, historyVars>>

-----------------------------------------------------------------------------
(***************************************************************************)
(* The thread, run()                                                       *)
(***************************************************************************)
Run ==
    /\ ThreadGoto("run", "test")
    /\ m_processing' = TRUE
    /\ UNCHANGED <<loopVars, srq, cq, handled>>

Test ==
    /\ ThreadGoto("test", IF m_kill THEN "leave" ELSE "poll")
    /\ UNCHANGED <<m_processing, loopVars, srq, cq, handled>>

\* pollReceiveSRQ(): ibAddr is a new variable in each iteration.
Poll ==
    /\ cq # <<>>
    /\ ThreadGoto("poll", "found")
    /\ wc' = <<Head(cq)>> /\ cq' = Tail(cq) /\ ibAddr' = Unset
    /\ UNCHANGED <<m_processing, m_index, message, srq, handled>>

\* It returns without a message only when m_poll has been cleared.
PollNothing ==
    /\ cq = <<>> /\ ~m_poll
    /\ ThreadGoto("poll", "test")
    /\ UNCHANGED <<m_processing, loopVars, srq, cq, handled>>

\* Mutant: getNext() advances the index twice.
TakeBufferTwice ==
    /\ ThreadGoto("found", "handle")
    /\ ibAddr' = IF m_poll THEN wc[1].sender ELSE ibAddr
    /\ message' = m_index % MaxMsgs
    /\ m_index' = (m_index + 2) % IndexMod
    /\ UNCHANGED <<m_processing, wc, srq, cq, handled>>

\* It tests m_poll again before it sets the sender; getNext() gives the buffer.
TakeBuffer ==
    /\ ThreadGoto("found", "handle")
    /\ ibAddr' = IF m_poll THEN wc[1].sender ELSE ibAddr
    /\ message' = m_index % MaxMsgs
    /\ m_index' = (m_index + 1) % IndexMod
    /\ UNCHANGED <<m_processing, wc, srq, cq, handled>>

\* handleRDMARPCVoid() reads the buffer, then the receive is posted again.
Handle ==
    /\ ThreadGoto("handle", "repost")
    /\ handled' = IF content[message] = NoMessage THEN handled
                  ELSE [handled EXCEPT ![content[message][1]] = Append(@, content[message][2])]
    /\ UNCHANGED <<m_processing, loopVars, srq, cq>>

\* Mutant: the receive is posted for the buffer before it.
RepostOther ==
    /\ ThreadGoto("repost", "test")
    /\ srq' = Append(srq, (message + 1) % MaxMsgs)
    /\ wc' = <<>> /\ message' = NoBuffer
    /\ UNCHANGED <<m_processing, m_index, ibAddr, cq, handled>>

Repost ==
    /\ ThreadGoto("repost", "test")
    /\ srq' = Append(srq, message)
    /\ wc' = <<>> /\ message' = NoBuffer
    /\ UNCHANGED <<m_processing, m_index, ibAddr, cq, handled>>

Leave ==
    /\ ThreadGoto("leave", "ended")
    /\ m_processing' = FALSE
    /\ UNCHANGED <<loopVars, srq, cq, handled>>

Handler ==
    /\ ended = "no"
    /\ \/ Run \/ Test \/ Poll \/ PollNothing \/ TakeBuffer \/ Handle \/ Repost \/ Leave
    /\ UNCHANGED <<ownerVars, m_poll, m_kill, m_thread, content, arriving, clientVars, lateWrite>>

-----------------------------------------------------------------------------
(***************************************************************************)
(* The clients and the fabric                                              *)
(***************************************************************************)
Send(c) ==
    /\ sent[c] < scenario.messages[c]
    /\ sent' = [sent EXCEPT ![c] = @ + 1]
    /\ UNCHANGED <<arrived, broken, cardVars, handled, lateWrite>>

Complete(c, buf) ==
    LET msg == <<c, arrived'[c]>> IN
    /\ cq' = Append(cq, [sender |-> c, buf |-> buf, msg |-> msg])
    /\ content' = [content EXCEPT ![buf] = msg]

\* The first packet takes the oldest receive; without one the connection breaks.
FirstPacket(c) ==
    LET buf == Head(srq) IN
    /\ arrived[c] < sent[c] /\ arriving[c] = NoBuffer /\ c \notin broken
    /\ IF srq = <<>>
       THEN /\ broken' = broken \cup {c}
            /\ UNCHANGED <<arrived, cardVars, lateWrite>>
       ELSE /\ srq' = Tail(srq)
            /\ arrived' = [arrived EXCEPT ![c] = @ + 1]
            /\ lateWrite' = (lateWrite \/ ended = "destroyed")
            /\ IF scenario.packets = 1
               THEN Complete(c, buf) /\ UNCHANGED arriving
               ELSE /\ arriving' = [arriving EXCEPT ![c] = buf]
                    /\ content' = [content EXCEPT ![buf] = NoMessage]
                    /\ UNCHANGED cq
            /\ UNCHANGED broken
    /\ UNCHANGED <<sent, handled>>

LastPacket(c) ==
    /\ arriving[c] # NoBuffer
    /\ arriving' = [arriving EXCEPT ![c] = NoBuffer]
    /\ UNCHANGED <<arrived, sent, broken, srq, handled, lateWrite>>
    /\ Complete(c, arriving[c])

Client(c) ==
    /\ ended # "terminate"
    /\ Send(c) \/ FirstPacket(c) \/ LastPacket(c)
    /\ UNCHANGED <<ownerVars, threadVars, loopVars>>

-----------------------------------------------------------------------------
Next ==
    /\ Owner \/ Handler \/ (\E c \in Clients : Client(c))
    /\ UNCHANGED scenario

Spec == Init /\ [][Next]_vars

\* Threads are scheduled, and what has been sent arrives.
FairSpec ==
    /\ Spec
    /\ WF_progress(Owner) /\ WF_progress(Handler)
    /\ \A c \in Clients : WF_progress(Client(c))

-----------------------------------------------------------------------------
\* Completions come in the order of the receives: messages of one packet, or of one
\* client.  The handler relies on it.
InOrder == scenario.packets = 1 \/ Cardinality({c \in Clients : scenario.messages[c] > 0}) = 1

\* The buffers in the order in which the ring will reach them: those of completions,
\* the one that is being written to, those that are posted.
Pending ==
    LET writing == {c \in Clients : arriving[c] # NoBuffer} IN
    [k \in DOMAIN cq |-> cq[k].buf]
      \o (IF writing = {} THEN <<>> ELSE <<arriving[CHOOSE c \in writing : TRUE]>>) \o srq

\* The ring and the card agree: what the handler has not taken is pending in the
\* order of the ring, and a buffer that it holds is not pending.
RingAligned ==
    InOrder =>
        /\ Len(Pending) = (IF wc = <<>> THEN MaxMsgs ELSE MaxMsgs - 1)
        /\ LET next == IF tpc = "found" THEN m_index + 1 ELSE m_index IN
           \A k \in DOMAIN Pending : Pending[k] = (next + k - 1) % MaxMsgs

\* A handler that is destroyed in order has been joined, unless it was started again
\* after a stop (m_kill stays set, the thread ends at once and nobody joins it); no
\* message is written to memory that it has given back.
EndsInOrder ==
    /\ ended = "terminate" =>
          \/ \A k \in DOMAIN results : results[k].call # "stopHandler"
          \/ \E j, k \in DOMAIN results :
                j < k /\ results[j].call = "stopHandler" /\ results[k].call = "startHandler"
    /\ lateWrite => ~scenario.orderly

RpcHandlerInv ==
    /\ TypeOK
    /\ Len(cq) <= CqSize
    /\ m_processing => tpc \in {"test", "poll", "found", "handle", "repost", "leave"}
    /\ ~m_poll => m_kill /\ opc = "joining"
    /\ RingAligned /\ EndsInOrder

\* The handler is called with the message that was received, complete and not yet
\* overwritten by a later one, and each client's messages are handled in order and
\* once.  The sender is right too, unless stopHandler() clears m_poll between the
\* completion and the second test of it: then it is not set.
HandledIsReceived ==
    InOrder =>
        /\ tpc = "handle" =>
              /\ message = wc[1].buf /\ content[message] = wc[1].msg
              /\ ibAddr = wc[1].sender \/ (ibAddr = Unset /\ m_kill)
        /\ \A c \in Clients : \A k \in DOMAIN handled[c] : handled[c][k] = k

\* Starting and stopping return, whatever the thread is doing and whatever arrives;
\* and a message is handled unless it is lost, the handler is stopped or its owner
\* at its end.
CallsReturn ==
    /\ opc \in {"starting", "stopping"} ~> opc = "idle"
    /\ \A c \in Clients :
          (m_processing /\ ~m_kill /\ Len(handled[c]) < sent[c]) ~>
              (Len(handled[c]) = sent[c] \/ c \in broken \/ m_kill \/ opc = "done" \/ ~InOrder)
=============================================================================
