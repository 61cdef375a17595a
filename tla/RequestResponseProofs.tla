------------------------ MODULE RequestResponseProofs ------------------------
(***************************************************************************)
(* The inductive invariant of RequestResponse, that every step keeps it,   *)
(* and what follows from it however many clients, receivers and requests   *)
(* there are, in each of the modes: a response that arrives answers the    *)
(* request that its client waits for, the slot of a request is read before *)
(* it can be written again, only an early Init message finds no receive,   *)
(* and the benchmark keeps the promise of RequestReply.                    *)
(*                                                                         *)
(* The invariant says, for each client and receiver, where the only        *)
(* message between them can be: on the wire, in a slot or a completion,    *)
(* with the receiver, on its way back, or in the response area or a        *)
(* completed receive of the client.                                        *)
(* A second one, which rests on it, says what is in the responses.         *)
(***************************************************************************)
EXTENDS RequestResponse, FiniteSetTheorems, SequenceTheorems, WellFoundedInduction, TLAPS

\* The types, in four parts.
Areas == [flag : {0, 1}, content : Contents, body : Bodies]

ClientTypes ==
    /\ cpc \in [Clients -> ClientStates] /\ ri \in [Clients -> Nat]
    /\ msgOffset \in [Clients -> [Receivers -> Slots]]
    /\ i \in [Clients -> 0 .. Requests] /\ picked \in [Clients -> Receivers]
    /\ expId \in [Clients -> Entries]
    /\ area \in [Clients -> Areas]
    /\ rq \in [Clients -> [Receivers -> Nat]]
    /\ rcq \in [Clients -> [Receivers -> Seq(ResponseMsgs)]]

Completions == [node : Clients, buf : {"init", "req"}, idx : Nat]
SlotTypes == [Slots -> [type : Types, body : Bodies]]

ReceiverTypes ==
    /\ rpc \in [Receivers -> ReceiverStates]
    /\ connected \in [Receivers -> Seq(Clients)]
    /\ slot \in [Receivers -> SlotTypes]
    /\ initBuf \in [Receivers -> [0 .. expectedClients - 1 -> Types]]
    /\ replied \in [Receivers -> 0 .. expectedClients]
    /\ srq \in [Receivers -> Seq(Receives)] /\ cq \in [Receivers -> Seq(Completions)]
    /\ cur \in [Receivers -> Slots] /\ filledFrom \in [Receivers -> Bodies]
    /\ respBuffer \in [Receivers -> [Entries -> Contents]]
    /\ clientsFinished \in [Receivers -> 0 .. expectedClients]
    /\ handledRequests \in [Receivers -> Nat]

FabricTypes ==
    /\ wire \in [Clients -> [Receivers -> Seq(RequestMsgs)]]
    /\ back \in [Receivers -> [Nodes -> Seq(ResponseMsgs)]]
    /\ rnr \subseteq Clients \X Receivers

HistoryTypes ==
    /\ issued \in [Clients -> 0 .. Requests] /\ served \in [Clients -> Nat]
    /\ answered \in [Clients -> 0 .. Requests]

AllTypes == mode \in Modes /\ ClientTypes /\ ReceiverTypes /\ FabricTypes /\ HistoryTypes

\* The position of a receiver in the order of the sequencer, up to which client c has
\* finished the init phase, and up to which it has sent FinishedExp.
InitDone(c) == IF cpc[c] = "connectBarrier" THEN 0
               ELSE IF cpc[c] \in {"sendInit", "initReply"} THEN ri[c] - 1 ELSE Len(Running)
FinDone(c) == IF cpc[c] = "finish" THEN ri[c] - 1
              ELSE IF cpc[c] = "finishAck" THEN ri[c]
              ELSE IF cpc[c] = "done" THEN Len(Running) ELSE 0

\* What a receiver may expect of a client.
Pending(c, r) == cpc[c] = "initReply" /\ Running[ri[c]] = r
Greeted(c, r) == \E k \in 1 .. InitDone(c) : Running[k] = r
Asking(c, r) == cpc[c] = "await" /\ picked[c] = r /\ served[c] # issued[c]
Served(c, r) == cpc[c] = "await" /\ picked[c] = r /\ served[c] = issued[c]
FinSent(c, r) == \E k \in 1 .. FinDone(c) : Running[k] = r
Request(c) == [dest |-> destinationNode(c), ptr |-> c, id |-> expId[c], msgId |-> issued[c]]

ClientInv(c) ==
    /\ ri[c] \in 1 .. Len(Running)
    /\ cpc[c] \in {"connectBarrier", "initBarrier", "loop", "post", "await",
                   "endBarrier", "done"} => ri[c] = 1
    /\ answered[c] <= i[c]
    /\ cpc[c] \in {"post", "await"} => i[c] < Requests /\ picked[c] \in ToSet(Running)
    /\ issued[c] = (IF cpc[c] = "await" THEN answered[c] + 1 ELSE answered[c])
    /\ served[c] \in {answered[c], issued[c]}
    /\ \A r \in Receivers : Greeted(c, r) => msgOffset[c][r] = NodeId[c]

\* A receiver has prepared its request buffer.
Past(r) == rpc[r] \notin {"start", "initPoll", "prepare"}

\* It is at work on a request, which is that of a client.
Working(r) == \/ rpc[r] \in {"finalize", "transfer"}
              \/ rpc[r] = "handle" /\ slot[r][cur[r]].type = "ExpMsg"
Held(c, r) == Working(r) /\ slot[r][cur[r]].body.ptr = c

InCq(c, r) == \E k \in DOMAIN cq[r] : cq[r][k].node = c

\* What a client sends after the init phase.
SentBy(c, r, m) ==
    \/ m.type = "ExpMsg" /\ m.body = Request(c) /\ Asking(c, r)
    \/ m.type = "FinishedExp" /\ FinSent(c, r)

WireInv(c, r) ==
    /\ Len(wire[c][r]) <= 1
    /\ \A k \in DOMAIN wire[c][r] :
          LET m == wire[c][r][k] IN
          /\ ~InCq(c, r) /\ ~Held(c, r)
          /\ m.stage = "body" => m.verb = "WRITE" /\ slot[r][NodeId[c]].body = m.body
          /\ \/ /\ m.type = "InitExp" /\ m.verb = "SEND"
                /\ Pending(c, r) /\ c \notin ToSet(connected[r])
             \/ /\ m.verb = RequestVerb /\ SentBy(c, r, m)
                /\ ReceiverPoll = "BUF" => /\ m.at = NodeId[c]
                                           /\ slot[r][NodeId[c]].type = "EMPTY"

\* A completion not yet taken: an Init message, or what the slot of its index holds.
CqInv(c, r) ==
    \A k \in DOMAIN cq[r] : cq[r][k].node = c =>
        LET e == cq[r][k] IN
        /\ ~Held(c, r)
        /\ \A l \in DOMAIN cq[r] : cq[r][l].node = c => l = k
        /\ \/ /\ rpc[r] = "initPoll" /\ e.buf = "init"
              /\ e.idx \in 0 .. expectedClients - 1 /\ initBuf[r][e.idx] = "InitExp"
              /\ Pending(c, r) /\ c \notin ToSet(connected[r])
           \/ /\ Past(r) /\ ReceiverPoll = "SRQ" /\ e.buf = "req" /\ e.idx \in Slots
              /\ SentBy(c, r, slot[r][e.idx])

\* A polled slot belongs to the client with its id.
SlotInv(c, r) ==
    ReceiverPoll = "BUF" /\ slot[r][NodeId[c]].type # "EMPTY" =>
        Past(r) /\ SentBy(c, r, slot[r][NodeId[c]])

HeldInv(c, r) ==
    Held(c, r) => /\ slot[r][cur[r]].body = Request(c) /\ Asking(c, r)
                  /\ rpc[r] # "handle" => filledFrom[r] = Request(c)
                  /\ ReceiverPoll = "BUF" => cur[r] = NodeId[c]

\* What a receiver needs at its next step.
StepInv(r) ==
    /\ Working(r) => slot[r][cur[r]].body.ptr \in Clients
    /\ rpc[r] = "handle" => slot[r][cur[r]].type \in {"ExpMsg", "FinishedExp"}
    /\ rpc[r] = "finalize" => ReceiverPoll = "BUF" /\ slot[r][cur[r]].type = "ExpMsg"
    /\ rpc[r] = "transfer" /\ ReceiverPoll = "BUF" => slot[r][cur[r]].type = "EMPTY"
    /\ rpc[r] = "repost" => ReceiverPoll = "SRQ"
    /\ ReceiverPoll = "BUF" => \A s \in Slots : slot[r][s].type # "EMPTY" =>
          \E c \in Clients : NodeId[c] = s

\* The init phase of a receiver.
PhaseInv(r) ==
    /\ IsInjective(connected[r])
    /\ rpc[r] = "start" => connected[r] = <<>>
    /\ rpc[r] = "initPoll" => Len(connected[r]) < expectedClients
    /\ rpc[r] \notin {"start", "initPoll"} =>
          ToSet(connected[r]) = Clients /\ Len(connected[r]) = expectedClients
    /\ ~Past(r) => replied[r] = 0
    /\ rpc[r] \in {"reply", "replyAck"} => replied[r] < expectedClients
    /\ Past(r) /\ rpc[r] \notin {"reply", "replyAck"} => replied[r] = expectedClients
    /\ rpc[r] = "done" <=> clientsFinished[r] = expectedClients

Busy(r) == rpc[r] \in {"handle", "transfer", "repost"}
Taken(r) == IF Busy(r) THEN 1 ELSE 0

\* The receives that are posted, and the completed ones, are of the phase.
SrqInv(r) ==
    /\ rpc[r] \in {"start", "prepare"} => srq[r] = <<>>
    /\ Past(r) /\ ReceiverPoll = "BUF" => srq[r] = <<>>
    /\ rpc[r] = "initPoll" =>
          /\ \A k \in DOMAIN srq[r] : srq[r][k].buf = "init" /\ srq[r][k].idx < expectedClients
          /\ Len(srq[r]) + Len(cq[r]) + Len(connected[r]) = expectedClients

\* Each slot is named by one receive or completion, or is being handled; and only
\* the receive for a FinishedExp is not posted again.
IndexInv(r) ==
    Past(r) /\ ReceiverPoll = "SRQ" =>
        /\ \A k \in DOMAIN srq[r] :
              /\ srq[r][k].buf = "req" /\ srq[r][k].idx \in Slots
              /\ \A l \in DOMAIN srq[r] : srq[r][l].idx = srq[r][k].idx => l = k
              /\ \A l \in DOMAIN cq[r] : cq[r][l].idx # srq[r][k].idx
              /\ Busy(r) => srq[r][k].idx # cur[r]
        /\ \A k \in DOMAIN cq[r] :
              /\ \A l \in DOMAIN cq[r] : cq[r][l].idx = cq[r][k].idx => l = k
              /\ Busy(r) => cq[r][k].idx # cur[r]
CountInv(r) ==
    Past(r) /\ ReceiverPoll = "SRQ" =>
        Len(srq[r]) + Len(cq[r]) + Taken(r) + clientsFinished[r] = reqBufferLength

\* What a connected client has been told, and what became of its Init message.
Replied(c, r) ==
    \E k \in DOMAIN connected[r] :
        /\ connected[r][k] = c
        /\ \/ k <= replied[r]
           \/ rpc[r] = "replyAck" /\ k = replied[r] + 1
GreetInv(c, r) ==
    /\ c \in ToSet(connected[r]) => Pending(c, r) \/ Greeted(c, r)
    /\ Greeted(c, r) => Replied(c, r)
    /\ Pending(c, r) => EarlyInit \/ rpc[r] # "start"
    /\ <<c, r>> \in rnr => /\ EarlyInit /\ Pending(c, r) /\ wire[c][r] = <<>>
                           /\ ~InCq(c, r) /\ c \notin ToSet(connected[r])

Waiting(c, r) ==
    \/ wire[c][r] # <<>> \/ InCq(c, r)
    \/ /\ ReceiverPoll = "BUF" /\ slot[r][NodeId[c]].type = "FinishedExp"
       /\ ~(rpc[r] \in {"handle", "done"} /\ cur[r] = NodeId[c])
Counted(r) == {c \in Clients : FinSent(c, r) /\ ~Waiting(c, r)}
Counting(r) ==
    IF rpc[r] = "handle" /\ slot[r][cur[r]].type = "FinishedExp" THEN 1 ELSE 0
FinishInv(r) == clientsFinished[r] + Counting(r) = Cardinality(Counted(r))

\* A completed receive of a client holds the answer that it waits for.
RcqInv(c, r) ==
    /\ Len(rcq[c][r]) <= 1
    /\ \A k \in DOMAIN rcq[c][r] :
          LET m == rcq[c][r][k] IN
          \/ m.type = "InitExp" /\ m.at = NodeId[c] /\ Pending(c, r) /\ Replied(c, r)
          \/ m.type = "ExpMsg" /\ SenderPoll = "RQ" /\ Served(c, r) /\ m.body = Request(c)

\* A receive is posted for the answer that is to come.
RqInv(c, r) ==
    rcq[c][r] = <<>> =>
        /\ Pending(c, r) => rq[c][r] >= 1
        /\ SenderPoll = "RQ" /\ cpc[c] \in {"post", "await"} /\ picked[c] = r => rq[c][r] >= 1

\* An answer on its way is the only one to its client.
BackInv(c, r) ==
    \A n \in Nodes : \A k \in DOMAIN back[r][n] : back[r][n][k].ptr = c =>
        LET m == back[r][n][k] IN
        /\ \A l \in DOMAIN back[r][n] : back[r][n][l].ptr = c => l = k
        /\ rcq[c][r] = <<>>
        /\ \/ /\ m.type = "InitExp" /\ m.verb = "SEND" /\ m.stage = "whole"
              /\ n = c /\ m.at = NodeId[c]
              /\ Pending(c, r) /\ rpc[r] = "replyAck" /\ connected[r][replied[r] + 1] = c
           \/ /\ m.type = "ExpMsg" /\ m.verb = ResponseVerb /\ n = destinationNode(c)
              /\ m.body = Request(c) /\ Served(c, r) /\ area[c].flag = 0
              /\ m.stage = "body" => m.verb = "WRITE" /\ area[c].body = m.body

AreaInv(c) ==
    area[c].flag = 1 => /\ SenderPoll = "BUF" /\ cpc[c] = "await" /\ served[c] = issued[c]
                        /\ area[c].body = Request(c)

ReceiverInv(r) ==
    StepInv(r) /\ PhaseInv(r) /\ SrqInv(r) /\ IndexInv(r) /\ CountInv(r) /\ FinishInv(r)
RequestInv(c, r) == WireInv(c, r) /\ CqInv(c, r) /\ SlotInv(c, r) /\ HeldInv(c, r) /\ GreetInv(c, r)
ResponseInv(c, r) == RcqInv(c, r) /\ RqInv(c, r) /\ BackInv(c, r)

IInv ==
    /\ AllTypes
    /\ \A c \in Clients : ClientInv(c) /\ AreaInv(c)
    /\ \A r \in Receivers : ReceiverInv(r)
    /\ \A c \in Clients, r \in Receivers : RequestInv(c, r) /\ ResponseInv(c, r)

-----------------------------------------------------------------------------
\* What the ends of a sequence do to its elements.
LEMMA AppendIs ==
  ASSUME NEW S, NEW s \in Seq(S), NEW e \in S
  PROVE  /\ Append(s, e) \in Seq(S) /\ Append(s, e) # <<>>
         /\ Len(s) \in Nat /\ Len(Append(s, e)) = Len(s) + 1
         /\ DOMAIN s = 1 .. Len(s) /\ DOMAIN Append(s, e) = 1 .. Len(s) + 1
         /\ \A k \in DOMAIN s : Append(s, e)[k] = s[k]
         /\ Append(s, e)[Len(s) + 1] = e
OBVIOUS

\* The oldest element is taken.
LEMMA TailIs ==
  ASSUME NEW S, NEW s \in Seq(S), s # <<>>
  PROVE  /\ Head(s) = s[1] /\ Head(s) \in S /\ Tail(s) \in Seq(S)
         /\ Len(s) \in Nat \ {0} /\ Len(Tail(s)) = Len(s) - 1
         /\ DOMAIN s = 1 .. Len(s) /\ DOMAIN Tail(s) = 1 .. Len(s) - 1
         /\ 1 \in DOMAIN s
         /\ \A k \in DOMAIN Tail(s) : k + 1 \in DOMAIN s /\ Tail(s)[k] = s[k + 1]
OBVIOUS

\* A sequence is empty exactly when its length is zero.
LEMMA SeqIs ==
  ASSUME NEW S, NEW s \in Seq(S)
  PROVE  /\ Len(s) \in Nat /\ DOMAIN s = 1 .. Len(s)
         /\ s = <<>> <=> Len(s) = 0
         /\ \A k \in DOMAIN s : s[k] \in S
OBVIOUS

\* An injective sequence has as many elements as its length says.
LEMMA InjectiveLen ==
  ASSUME NEW S, IsFiniteSet(S), NEW s \in Seq(S), IsInjective(s)
  PROVE  /\ IsFiniteSet(ToSet(s)) /\ Cardinality(ToSet(s)) = Len(s)
         /\ Len(s) <= Cardinality(S)
         /\ Len(s) = Cardinality(S) => ToSet(s) = S
<1>1. Len(s) \in Nat /\ DOMAIN s = 1 .. Len(s) /\ s \in [1 .. Len(s) -> S]
  OBVIOUS
<1>2. IsFiniteSet(1 .. Len(s)) /\ Cardinality(1 .. Len(s)) = Len(s)
  <2>1. IsFiniteSet(1 .. Len(s))
    BY <1>1, FS_Interval
  <2>2. Cardinality(1 .. Len(s)) = Len(s)
    BY <1>1, FS_Interval
  <2> QED
    BY <2>1, <2>2
<1>3. ToSet(s) \subseteq S
  BY <1>1 DEF ToSet
<1>4. s \in [1 .. Len(s) -> ToSet(s)]
  BY <1>1 DEF ToSet
<1>5. s \in Surjection(1 .. Len(s), ToSet(s))
  BY <1>1, <1>4 DEF Surjection, ToSet
<1>6. s \in Injection(1 .. Len(s), ToSet(s))
  BY <1>1, <1>4 DEF Injection, IsInjective
<1>7. IsFiniteSet(ToSet(s)) /\ Cardinality(ToSet(s)) = Len(s)
  BY <1>2, <1>5, <1>6, FS_Surjection
<1>8. Cardinality(ToSet(s)) <= Cardinality(S) /\ (Cardinality(S) = Cardinality(ToSet(s)) => S = ToSet(s))
  BY <1>3, FS_Subset
<1> QED
  BY <1>7, <1>8

-----------------------------------------------------------------------------
\* The largest node id is one, and each client has a slot.
LEMMA MaxNodeIDIsKnown == maxNodeID \in Nat /\ \A c \in Clients : NodeId[c] \in Slots
<1> DEFINE Above(c) == {d \in Clients : NodeId[c] < NodeId[d]}
           T == {Above(c) : c \in Clients}
           R == StrictSubsetOrdering(Clients)
<1>1. T \subseteq FiniteSubsetsOf(Clients) /\ T # {}
  <2>1. \A c \in Clients : Above(c) \in SUBSET Clients /\ IsFiniteSet(Above(c))
    BY NodesAssumption, FS_Subset
  <2>2. \A c \in Clients : Above(c) \in FiniteSubsetsOf(Clients)
    BY <2>1 DEF FiniteSubsetsOf
  <2> HIDE DEF Above
  <2> QED
    BY <2>2, NodesAssumption
<1>2. \E S \in T : \A U \in T : <<U, S>> \notin R
  <2>1. IsWellFoundedOn(R, FiniteSubsetsOf(Clients))
    BY NodesAssumption, FS_StrictSubsetOrderingWellFounded
  <2> HIDE DEF T, R
  <2> QED
    BY <1>1, <2>1, WFMin
<1>3. PICK c \in Clients : \A d \in Clients : <<Above(d), Above(c)>> \notin R
  BY <1>2
<1>4. \A d \in Clients : NodeId[d] \in Nat
  BY NodesAssumption
<1>5. ASSUME NEW d \in Clients PROVE NodeId[d] <= NodeId[c]
  <2>1. SUFFICES ASSUME NodeId[c] < NodeId[d] PROVE FALSE
    BY <1>4
  <2>2. Above(d) \subseteq Above(c) /\ d \in Above(c) /\ d \notin Above(d)
    BY <1>4, <2>1
  <2>3. <<Above(d), Above(c)>> \in R
    BY <2>2 DEF StrictSubsetOrdering
  <2> QED
    BY <1>3, <2>3
<1> DEFINE ids == {NodeId[d] : d \in Clients}
           m == CHOOSE k \in ids : \A d \in Clients : NodeId[d] <= k
<1>6. m \in ids /\ \A d \in Clients : NodeId[d] <= m
  <2>1. NodeId[c] \in ids /\ \A d \in Clients : NodeId[d] <= NodeId[c]
    BY <1>5
  <2> QED
    BY <2>1
<1>7. maxNodeID = m
  BY DEF maxNodeID
<1> HIDE DEF m
<1>8. maxNodeID \in Nat /\ \A d \in Clients : NodeId[d] <= maxNodeID
  BY <1>4, <1>6, <1>7
<1> QED
  BY <1>4, <1>8 DEF Slots

\* There is a client to wait for.
LEMMA ClientsAreCounted == expectedClients \in Nat \ {0} /\ IsFiniteSet(Clients)
<1>1. Cardinality(Clients) \in Nat /\ Cardinality(Clients) # 0
  BY NodesAssumption, FS_CardinalityType, FS_EmptySet
<1> QED
  BY <1>1, NodesAssumption DEF expectedClients

\* What the flags can be.
LEMMA ModeIsKnown ==
  ASSUME mode \in Modes
  PROVE  /\ RequestVerb \in Verbs /\ ResponseVerb \in Verbs /\ SharedMemory \in BOOLEAN
         /\ EarlyInit \in BOOLEAN /\ Requests \in Nat /\ Requests <= MaxRequests /\ Requests >= 1
         /\ mode.receivers \in 1 .. Len(ReceiverOrder) /\ MaxRequests \in Nat
         /\ SharedMemory => ResponseVerb = "WRITE"
         /\ ReceiverPoll = "BUF" <=> RequestVerb = "WRITE"
         /\ ReceiverPoll \in {"BUF", "SRQ"} /\ SenderPoll \in {"BUF", "RQ"}
         /\ SenderPoll = "BUF" <=> ResponseVerb = "WRITE"
<1>1. mode \in Mode /\ MaxRequests \in Nat
  BY ModeAssumption
<1>2. /\ mode.request \in Verbs /\ mode.response \in Verbs /\ mode.shared \in BOOLEAN
      /\ mode.early \in BOOLEAN /\ mode.requests \in 1 .. MaxRequests
      /\ mode.receivers \in 1 .. Len(ReceiverOrder)
      /\ mode.shared => mode.response = "WRITE"
  BY <1>1 DEF Mode
<1> QED
  BY <1>1, <1>2 DEF RequestVerb, ResponseVerb, SharedMemory, EarlyInit, Requests,
                    ReceiverPoll, SenderPoll, Verbs

\* The receivers that run: each is at one position of the order.
LEMMA RunningIsKnown ==
  ASSUME mode \in Modes
  PROVE  /\ Running \in Seq(Receivers) /\ Len(Running) \in Nat \ {0}
         /\ DOMAIN Running = 1 .. Len(Running)
         /\ \A k \in 1 .. Len(Running) : Running[k] \in Receivers
         /\ \A k, l \in 1 .. Len(Running) : Running[k] = Running[l] => k = l
         /\ ToSet(Running) = {Running[k] : k \in 1 .. Len(Running)}
         /\ ReceiverOrder[1] \in Receivers
<1>1. /\ ReceiverOrder \in Seq(Receivers) /\ Len(ReceiverOrder) \in Nat
      /\ DOMAIN ReceiverOrder = 1 .. Len(ReceiverOrder)
      /\ ReceiverOrder \in [1 .. Len(ReceiverOrder) -> Receivers]
  BY OrderAssumption
<1>2. mode.receivers \in 1 .. Len(ReceiverOrder)
  BY ModeIsKnown
<1>3. /\ Running \in Seq(Receivers) /\ Len(Running) = mode.receivers
      /\ DOMAIN Running = 1 .. mode.receivers
      /\ \A k \in 1 .. mode.receivers : Running[k] = ReceiverOrder[k]
  BY <1>1, <1>2 DEF Running
<1>4. \A k, l \in 1 .. Len(ReceiverOrder) : ReceiverOrder[k] = ReceiverOrder[l] => k = l
  <2>1. IsFiniteSet(1 .. Len(ReceiverOrder))
    BY <1>1, FS_Interval
  <2>2. Cardinality(1 .. Len(ReceiverOrder)) = Len(ReceiverOrder)
    BY SMTT(30), <1>1, FS_Interval
  <2>3. ReceiverOrder \in Surjection(1 .. Len(ReceiverOrder), Receivers)
    BY <1>1, OrderAssumption DEF Surjection, ToSet
  <2>4. ReceiverOrder \in Injection(1 .. Len(ReceiverOrder), Receivers)
    BY <2>1, <2>2, <2>3, OrderAssumption, FS_Surjection
  <2> QED
    BY <1>1, <2>4 DEF Injection, IsInjective
<1>5. Running \in [1 .. mode.receivers -> Receivers]
  BY <1>3
<1> HIDE DEF Running
<1>6. ToSet(Running) = {Running[k] : k \in 1 .. Len(Running)}
  BY <1>3 DEF ToSet
<1>7. \A k \in 1 .. mode.receivers : k \in 1 .. Len(ReceiverOrder)
  BY <1>1, <1>2
<1>8. mode.receivers \in Nat \ {0} /\ 1 \in 1 .. Len(ReceiverOrder)
  BY <1>1, <1>2
<1> QED
  BY <1>1, <1>3, <1>4, <1>5, <1>6, <1>7, <1>8

-----------------------------------------------------------------------------
(***************************************************************************)
(* What the steps of the clients change in what a receiver may expect.     *)
(***************************************************************************)
SameView(c, r) ==
    /\ Pending(c, r)' <=> Pending(c, r)
    /\ Greeted(c, r)' <=> Greeted(c, r)
    /\ Asking(c, r)' <=> Asking(c, r)
    /\ Served(c, r)' <=> Served(c, r)
    /\ FinSent(c, r)' <=> FinSent(c, r)
    /\ Asking(c, r) \/ Served(c, r) => Request(c)' = Request(c)

\* A client is at one point of its conversation with a receiver.
LEMMA ViewsExclude ==
  ASSUME NEW c \in Clients, NEW r \in Receivers, mode \in Modes, ClientInv(c)
  PROVE  /\ Pending(c, r) => ~Greeted(c, r) /\ ~Asking(c, r) /\ ~Served(c, r) /\ ~FinSent(c, r)
         /\ Asking(c, r) => Greeted(c, r) /\ ~Served(c, r) /\ ~FinSent(c, r)
         /\ Served(c, r) => Greeted(c, r) /\ ~FinSent(c, r)
         /\ FinSent(c, r) => Greeted(c, r) /\ cpc[c] \in {"finish", "finishAck", "done"}
<1> DEFINE L == Len(Running)
<1>1. /\ L \in Nat \ {0} /\ ri[c] \in 1 .. L
      /\ \A k, l \in 1 .. L : Running[k] = Running[l] => k = l
      /\ ToSet(Running) = {Running[k] : k \in 1 .. L}
  BY RunningIsKnown DEF ClientInv
<1> HIDE DEF L
<1>2. Pending(c, r) => ~Greeted(c, r) /\ ~Asking(c, r) /\ ~Served(c, r) /\ ~FinSent(c, r)
  <2>1. SUFFICES ASSUME Pending(c, r)
                 PROVE  ~Greeted(c, r) /\ ~Asking(c, r) /\ ~Served(c, r) /\ ~FinSent(c, r)
    OBVIOUS
  <2>2. InitDone(c) = ri[c] - 1 /\ FinDone(c) = 0 /\ Running[ri[c]] = r /\ cpc[c] = "initReply"
    BY <2>1 DEF InitDone, FinDone, Pending
  <2>3. ~Greeted(c, r)
    BY <1>1, <2>2 DEF Greeted
  <2> QED
    BY <2>2, <2>3 DEF Asking, Served, FinSent
<1>3. Asking(c, r) \/ Served(c, r) => Greeted(c, r) /\ ~FinSent(c, r)
  <2>1. SUFFICES ASSUME cpc[c] = "await", picked[c] = r PROVE Greeted(c, r) /\ ~FinSent(c, r)
    BY DEF Asking, Served
  <2>2. InitDone(c) = L /\ FinDone(c) = 0 /\ r \in ToSet(Running)
    BY <2>1 DEF InitDone, FinDone, ClientInv, L
  <2> QED
    BY <1>1, <2>2 DEF Greeted, FinSent
<1>4. FinSent(c, r) => Greeted(c, r) /\ cpc[c] \in {"finish", "finishAck", "done"}
  <2>1. SUFFICES ASSUME FinSent(c, r)
                 PROVE  Greeted(c, r) /\ cpc[c] \in {"finish", "finishAck", "done"}
    OBVIOUS
  <2>2. cpc[c] \in {"finish", "finishAck", "done"}
    BY <2>1 DEF FinSent, FinDone
  <2>3. InitDone(c) = L /\ FinDone(c) <= L /\ FinDone(c) \in Nat
    BY <1>1, <2>2 DEF InitDone, FinDone, L
  <2> QED
    BY <1>1, <2>1, <2>2, <2>3 DEF FinSent, Greeted
<1> QED
  BY <1>2, <1>3, <1>4 DEF Asking, Served

\* Clients and receivers that a step leaves alone.
LEMMA ViewStays ==
  ASSUME NEW c \in Clients, NEW r \in Receivers, mode' = mode,
         cpc'[c] = cpc[c], ri'[c] = ri[c], picked'[c] = picked[c], expId'[c] = expId[c],
         issued'[c] = issued[c], served'[c] = served[c]
  PROVE  SameView(c, r)
<1>1. InitDone(c)' = InitDone(c) /\ FinDone(c)' = FinDone(c) /\ Running' = Running
  BY DEF InitDone, FinDone, Running
<1>2. Request(c)' = Request(c)
  BY DEF Request, destinationNode, SharedMemory
<1> QED
  BY <1>1, <1>2 DEF SameView, Pending, Greeted, Asking, Served, FinSent

\* Steps on which no receiver can see the client move.
LEMMA QuietView ==
  ASSUME NEW c \in Clients, NEW r \in Receivers, mode \in Modes, mode' = mode, ClientInv(c),
         issued'[c] = issued[c], served'[c] = served[c],
         \/ /\ ri'[c] = ri[c] /\ picked'[c] = picked[c]
            /\ \/ cpc[c] = "connectBarrier" /\ cpc'[c] = "sendInit"
               \/ cpc[c] = "initBarrier" /\ cpc'[c] = "loop"
               \/ cpc[c] = "endBarrier" /\ cpc'[c] = "finish"
               \/ cpc[c] = "loop" /\ cpc'[c] = "endBarrier"
         \/ ri'[c] = ri[c] /\ cpc[c] = "loop" /\ cpc'[c] = "post"
         \/ /\ picked'[c] = picked[c] /\ cpc[c] = "finishAck"
            /\ \/ cpc'[c] = "done" /\ ri[c] = Len(Running)
               \/ cpc'[c] = "finish" /\ ri'[c] = ri[c] + 1
  PROVE  SameView(c, r)
<1>1. Running' = Running /\ Len(Running) \in Nat /\ ri[c] \in 1 .. Len(Running)
  BY RunningIsKnown DEF Running, ClientInv
<1>2. InitDone(c)' = InitDone(c)
  BY <1>1 DEF InitDone, ClientInv
<1>3. FinDone(c)' = FinDone(c)
  BY <1>1 DEF FinDone, ClientInv
<1>4. cpc[c] # "await" /\ cpc'[c] # "await" /\ cpc[c] # "initReply" /\ cpc'[c] # "initReply"
  OBVIOUS
<1> QED
  BY <1>1, <1>2, <1>3, <1>4 DEF SameView, Pending, Greeted, Asking, Served, FinSent

\* initPhase(): the Init message is on its way to one receiver.
LEMMA SendInitView ==
  ASSUME NEW c \in Clients, NEW r \in Receivers, mode \in Modes, mode' = mode, ClientInv(c),
         ri'[c] = ri[c], picked'[c] = picked[c], issued'[c] = issued[c], served'[c] = served[c],
         cpc[c] = "sendInit", cpc'[c] = "initReply"
  PROVE  /\ r # Running[ri[c]] => SameView(c, r)
         /\ r = Running[ri[c]] =>
               /\ ~Pending(c, r) /\ ~Greeted(c, r) /\ ~Asking(c, r) /\ ~Served(c, r) /\ ~FinSent(c, r)
               /\ Pending(c, r)' /\ ~Greeted(c, r)' /\ ~Asking(c, r)' /\ ~Served(c, r)'
               /\ ~FinSent(c, r)'
<1>1. /\ Running' = Running /\ Len(Running) \in Nat /\ ri[c] \in 1 .. Len(Running)
      /\ \A k, l \in 1 .. Len(Running) : Running[k] = Running[l] => k = l
  BY RunningIsKnown DEF Running, ClientInv
<1>2. InitDone(c)' = ri[c] - 1 /\ InitDone(c) = ri[c] - 1 /\ FinDone(c) = 0 /\ FinDone(c)' = 0
  BY <1>1 DEF InitDone, FinDone
<1>3. r = Running[ri[c]] => ~Greeted(c, r)
  BY <1>1, <1>2 DEF Greeted
<1>4. Greeted(c, r)' <=> Greeted(c, r)
  BY <1>1, <1>2 DEF Greeted
<1> QED
  BY <1>1, <1>2, <1>3, <1>4 DEF SameView, Pending, Asking, Served, FinSent

\* The reply has come.
LEMMA InitReplyView ==
  ASSUME NEW c \in Clients, NEW r \in Receivers, mode \in Modes, mode' = mode, ClientInv(c),
         picked'[c] = picked[c], issued'[c] = issued[c], served'[c] = served[c],
         cpc[c] = "initReply",
         \/ ri[c] = Len(Running) /\ cpc'[c] = "initBarrier"
         \/ cpc'[c] = "sendInit" /\ ri'[c] = ri[c] + 1
  PROVE  /\ r # Running[ri[c]] => SameView(c, r)
         /\ r = Running[ri[c]] =>
               /\ Pending(c, r) /\ ~Greeted(c, r) /\ ~Asking(c, r) /\ ~Served(c, r) /\ ~FinSent(c, r)
               /\ ~Pending(c, r)' /\ Greeted(c, r)' /\ ~Asking(c, r)' /\ ~Served(c, r)'
               /\ ~FinSent(c, r)'
<1>1. /\ Running' = Running /\ Len(Running) \in Nat /\ ri[c] \in 1 .. Len(Running)
      /\ \A k, l \in 1 .. Len(Running) : Running[k] = Running[l] => k = l
  BY RunningIsKnown DEF Running, ClientInv
<1>2. InitDone(c)' = ri[c] /\ InitDone(c) = ri[c] - 1 /\ FinDone(c) = 0 /\ FinDone(c)' = 0
  BY <1>1 DEF InitDone, FinDone
<1>3. r = Running[ri[c]] => ~Greeted(c, r) /\ Greeted(c, r)'
  BY <1>1, <1>2 DEF Greeted
<1>4. r # Running[ri[c]] => (Greeted(c, r)' <=> Greeted(c, r))
  BY <1>1, <1>2 DEF Greeted
<1> QED
  BY <1>1, <1>2, <1>3, <1>4 DEF SameView, Pending, Asking, Served, FinSent

\* A request is on its way to the receiver that has been picked.
LEMMA PostRequestView ==
  ASSUME NEW c \in Clients, NEW r \in Receivers, mode \in Modes, mode' = mode, ClientInv(c),
         ri'[c] = ri[c], picked'[c] = picked[c], served'[c] = served[c],
         issued[c] \in Nat, issued'[c] = issued[c] + 1,
         cpc[c] = "post", cpc'[c] = "await"
  PROVE  /\ r # picked[c] => SameView(c, r)
         /\ r = picked[c] =>
               /\ ~Pending(c, r) /\ Greeted(c, r) /\ ~Asking(c, r) /\ ~Served(c, r) /\ ~FinSent(c, r)
               /\ ~Pending(c, r)' /\ Greeted(c, r)' /\ Asking(c, r)' /\ ~Served(c, r)'
               /\ ~FinSent(c, r)'
<1>1. /\ Running' = Running /\ Len(Running) \in Nat
      /\ ToSet(Running) = {Running[k] : k \in 1 .. Len(Running)} /\ picked[c] \in ToSet(Running)
  BY RunningIsKnown DEF Running, ClientInv
<1>2. /\ InitDone(c)' = Len(Running) /\ InitDone(c) = Len(Running)
      /\ FinDone(c) = 0 /\ FinDone(c)' = 0
  BY <1>1 DEF InitDone, FinDone
<1>3. issued[c] = answered[c] /\ served[c] = issued[c]
  BY DEF ClientInv
<1>4. (Greeted(c, r)' <=> Greeted(c, r)) /\ (r = picked[c] => Greeted(c, r))
  BY <1>1, <1>2 DEF Greeted
<1> QED
  BY <1>1, <1>2, <1>3, <1>4 DEF SameView, Pending, Asking, Served, FinSent

\* The client has taken the response.
LEMMA TakeResponseView ==
  ASSUME NEW c \in Clients, NEW r \in Receivers, mode \in Modes, mode' = mode, ClientInv(c),
         ri'[c] = ri[c], picked'[c] = picked[c], served'[c] = served[c], issued'[c] = issued[c],
         cpc[c] = "await", cpc'[c] = "loop", served[c] = issued[c]
  PROVE  /\ r # picked[c] => SameView(c, r)
         /\ r = picked[c] =>
               /\ ~Pending(c, r) /\ Greeted(c, r) /\ ~Asking(c, r) /\ Served(c, r) /\ ~FinSent(c, r)
               /\ ~Pending(c, r)' /\ Greeted(c, r)' /\ ~Asking(c, r)' /\ ~Served(c, r)'
               /\ ~FinSent(c, r)'
<1>1. /\ Running' = Running /\ Len(Running) \in Nat
      /\ ToSet(Running) = {Running[k] : k \in 1 .. Len(Running)} /\ picked[c] \in ToSet(Running)
  BY RunningIsKnown DEF Running, ClientInv
<1>2. /\ InitDone(c)' = Len(Running) /\ InitDone(c) = Len(Running)
      /\ FinDone(c) = 0 /\ FinDone(c)' = 0
  BY <1>1 DEF InitDone, FinDone
<1>3. (Greeted(c, r)' <=> Greeted(c, r)) /\ (r = picked[c] => Greeted(c, r))
  BY <1>1, <1>2 DEF Greeted
<1> QED
  BY <1>1, <1>2, <1>3 DEF SameView, Pending, Asking, Served, FinSent

\* FinishedExp is on its way to one more receiver.
LEMMA SendFinishedView ==
  ASSUME NEW c \in Clients, NEW r \in Receivers, mode \in Modes, mode' = mode, ClientInv(c),
         ri'[c] = ri[c], picked'[c] = picked[c], issued'[c] = issued[c], served'[c] = served[c],
         cpc[c] = "finish", cpc'[c] = "finishAck"
  PROVE  /\ r # Running[ri[c]] => SameView(c, r)
         /\ r = Running[ri[c]] =>
               /\ ~Pending(c, r) /\ Greeted(c, r) /\ ~Asking(c, r) /\ ~Served(c, r) /\ ~FinSent(c, r)
               /\ ~Pending(c, r)' /\ Greeted(c, r)' /\ ~Asking(c, r)' /\ ~Served(c, r)'
               /\ FinSent(c, r)'
<1>1. /\ Running' = Running /\ Len(Running) \in Nat /\ ri[c] \in 1 .. Len(Running)
      /\ \A k, l \in 1 .. Len(Running) : Running[k] = Running[l] => k = l
  BY RunningIsKnown DEF Running, ClientInv
<1>2. /\ InitDone(c)' = Len(Running) /\ InitDone(c) = Len(Running)
      /\ FinDone(c) = ri[c] - 1 /\ FinDone(c)' = ri[c]
  BY <1>1 DEF InitDone, FinDone
<1>3. (Greeted(c, r)' <=> Greeted(c, r)) /\ (r = Running[ri[c]] => Greeted(c, r))
  BY <1>1, <1>2 DEF Greeted
<1>4. r = Running[ri[c]] => ~FinSent(c, r) /\ FinSent(c, r)'
  BY <1>1, <1>2 DEF FinSent
<1>5. r # Running[ri[c]] => (FinSent(c, r)' <=> FinSent(c, r))
  BY <1>1, <1>2 DEF FinSent
<1> QED
  BY <1>1, <1>2, <1>3, <1>4, <1>5 DEF SameView, Pending, Asking, Served

\* A receiver has answered the request.
LEMMA TransferView ==
  ASSUME NEW c \in Clients, NEW r \in Receivers, NEW q \in Receivers, mode \in Modes, mode' = mode,
         ClientInv(c), ri'[c] = ri[c], picked'[c] = picked[c], cpc'[c] = cpc[c], expId'[c] = expId[c],
         issued[c] \in Nat, answered[c] \in Nat,
         issued'[c] = issued[c], served'[c] = served[c] + 1, Asking(c, q)
  PROVE  /\ r # q => SameView(c, r)
         /\ ~Pending(c, q)' /\ Greeted(c, q)' /\ ~Asking(c, q)' /\ Served(c, q)' /\ ~FinSent(c, q)'
         /\ Request(c)' = Request(c)
<1>1. /\ InitDone(c)' = InitDone(c) /\ FinDone(c)' = FinDone(c) /\ Running' = Running
      /\ Request(c)' = Request(c)
  BY DEF InitDone, FinDone, Running, Request, destinationNode, SharedMemory
<1>2. Greeted(c, q) /\ ~FinSent(c, q)
  BY ViewsExclude
<1>3. served'[c] = issued[c] /\ cpc[c] = "await" /\ picked[c] = q
  BY DEF Asking, ClientInv
<1> QED
  BY <1>1, <1>2, <1>3 DEF SameView, Pending, Greeted, Asking, Served, FinSent

-----------------------------------------------------------------------------
(***************************************************************************)
(* What steps elsewhere leave in place.                                    *)
(***************************************************************************)
AskKept(c, r) ==
    /\ Pending(c, r) => Pending(c, r)'
    /\ Asking(c, r) => Asking(c, r)' /\ Request(c)' = Request(c)
    /\ FinSent(c, r) => FinSent(c, r)'

AnswerKept(c, r) ==
    /\ Pending(c, r) => Pending(c, r)'
    /\ Served(c, r) => Served(c, r)' /\ Request(c)' = Request(c)

LocalStays(r) ==
    /\ rpc'[r] = rpc[r] /\ connected'[r] = connected[r] /\ slot'[r] = slot[r]
    /\ initBuf'[r] = initBuf[r] /\ replied'[r] = replied[r] /\ srq'[r] = srq[r]
    /\ cq'[r] = cq[r] /\ cur'[r] = cur[r] /\ filledFrom'[r] = filledFrom[r]
    /\ clientsFinished'[r] = clientsFinished[r]

\* A view that has not changed is kept on both ways.
LEMMA SameViewIsKept ==
  ASSUME NEW c \in Clients, NEW r \in Receivers, SameView(c, r)
  PROVE  AskKept(c, r) /\ AnswerKept(c, r)
BY DEF SameView, AskKept, AnswerKept

\* The flags are fixed.
LEMMA ModeStays ==
  ASSUME mode' = mode
  PROVE  /\ RequestVerb' = RequestVerb /\ ResponseVerb' = ResponseVerb
         /\ SharedMemory' = SharedMemory /\ EarlyInit' = EarlyInit /\ Requests' = Requests
         /\ Inline' = Inline /\ Entries' = Entries /\ Contents' = Contents /\ Areas' = Areas
         /\ ReceiverPoll' = ReceiverPoll /\ SenderPoll' = SenderPoll /\ Running' = Running
         /\ (\A c : destinationNode(c)' = destinationNode(c))
         /\ Bodies' = Bodies /\ RequestMsgs' = RequestMsgs /\ ResponseMsgs' = ResponseMsgs
<1>1. Requests' = Requests /\ RequestVerb' = RequestVerb /\ ResponseVerb' = ResponseVerb
      /\ SharedMemory' = SharedMemory /\ EarlyInit' = EarlyInit /\ Running' = Running
  BY DEF RequestVerb, ResponseVerb, SharedMemory, EarlyInit, Requests, Running
<1>2. ReceiverPoll' = ReceiverPoll /\ SenderPoll' = SenderPoll
  BY <1>1 DEF ReceiverPoll, SenderPoll
<1>3. \A c : destinationNode(c)' = destinationNode(c)
  BY <1>1 DEF destinationNode
<1>6. Inline' = Inline /\ Entries' = Entries /\ Contents' = Contents
  BY DEF Inline, Entries, Contents
<1>4. Bodies' = Bodies
  BY <1>1, <1>6 DEF Bodies
<1>5. RequestMsgs' = RequestMsgs /\ ResponseMsgs' = ResponseMsgs /\ Areas' = Areas
  BY <1>4, <1>6 DEF RequestMsgs, ResponseMsgs, Areas
<1> QED
  BY <1>1, <1>2, <1>3, <1>4, <1>5, <1>6

\* The message of a client stays where it is.
LEMMA WireStays ==
  ASSUME NEW c \in Clients, NEW r \in Receivers, mode' = mode, WireInv(c, r), AskKept(c, r),
         wire'[c][r] = wire[c][r], connected'[r] = connected[r],
         ReceiverPoll = "BUF" => slot'[r][NodeId[c]] = slot[r][NodeId[c]],
         InCq(c, r)' => InCq(c, r), Held(c, r)' => Held(c, r)
  PROVE  WireInv(c, r)'
<1>1. RequestVerb' = RequestVerb /\ ReceiverPoll' = ReceiverPoll
  BY ModeStays
<1>2. \A k \in DOMAIN wire[c][r] : SentBy(c, r, wire[c][r][k]) => SentBy(c, r, wire[c][r][k])'
  BY DEF SentBy, AskKept
<1>3. \A k \in DOMAIN wire[c][r] : wire[c][r][k].verb = "WRITE" => ReceiverPoll = "BUF"
  BY DEF WireInv, ReceiverPoll
<1>4. /\ Len(wire'[c][r]) <= 1
      /\ Pending(c, r) => Pending(c, r)'
  BY DEF WireInv, AskKept
<1>5. ASSUME NEW k \in DOMAIN wire[c][r]
      PROVE  LET m == wire[c][r][k] IN
             /\ ~InCq(c, r)' /\ ~Held(c, r)'
             /\ m.stage = "body" => m.verb = "WRITE" /\ slot'[r][NodeId[c]].body = m.body
             /\ \/ /\ m.type = "InitExp" /\ m.verb = "SEND"
                   /\ Pending(c, r)' /\ c \notin ToSet(connected'[r])
                \/ /\ m.verb = RequestVerb /\ SentBy(c, r, m)'
                   /\ ReceiverPoll = "BUF" => /\ m.at = NodeId[c]
                                              /\ slot'[r][NodeId[c]].type = "EMPTY"
  BY <1>2, <1>3, <1>4 DEF WireInv
<1> QED
  BY <1>1, <1>4, <1>5 DEF WireInv

\* Its completion stays what it is, as long as nobody writes the slot it names.
LEMMA CqStays ==
  ASSUME NEW c \in Clients, NEW r \in Receivers, mode' = mode, CqInv(c, r), AskKept(c, r),
         cq'[r] = cq[r], connected'[r] = connected[r], initBuf'[r] = initBuf[r],
         rpc'[r] = rpc[r] \/ (Past(r) /\ Past(r)'),
         \A k \in DOMAIN cq[r] : slot'[r][cq[r][k].idx] = slot[r][cq[r][k].idx],
         Held(c, r)' => Held(c, r)
  PROVE  CqInv(c, r)'
<1>1. ReceiverPoll' = ReceiverPoll
  BY ModeStays
<1>2. Past(r) => Past(r)' /\ rpc[r] # "initPoll"
  BY DEF Past
<1> QED
  BY <1>1, <1>2 DEF CqInv, AskKept, SentBy

\* Its polled slot stays.
LEMMA SlotStays ==
  ASSUME NEW c \in Clients, NEW r \in Receivers, mode' = mode, SlotInv(c, r), AskKept(c, r),
         slot'[r][NodeId[c]] = slot[r][NodeId[c]], Past(r) => Past(r)'
  PROVE  SlotInv(c, r)'
BY ModeStays DEF SlotInv, AskKept, SentBy

\* The receiver stays with the request it is at work on.
LEMMA HeldStays ==
  ASSUME NEW c \in Clients, NEW r \in Receivers, mode' = mode, HeldInv(c, r), AskKept(c, r),
         rpc'[r] = rpc[r], cur'[r] = cur[r], filledFrom'[r] = filledFrom[r],
         slot'[r][cur[r]] = slot[r][cur[r]]
  PROVE  HeldInv(c, r)' /\ (Held(c, r)' <=> Held(c, r)) /\ (Working(r)' <=> Working(r))
BY ModeStays DEF HeldInv, AskKept, Held, Working

\* Nothing happens to a request while neither its client nor its receiver moves.
LEMMA RequestStays ==
  ASSUME NEW c \in Clients, NEW r \in Receivers, mode' = mode, RequestInv(c, r), AskKept(c, r),
         LocalStays(r), wire'[c][r] = wire[c][r]
  PROVE  WireInv(c, r)' /\ CqInv(c, r)' /\ SlotInv(c, r)' /\ HeldInv(c, r)'
<1>1. HeldInv(c, r)' /\ (Held(c, r)' <=> Held(c, r))
  BY HeldStays DEF RequestInv, LocalStays
<1>2. (InCq(c, r)' <=> InCq(c, r)) /\ (Past(r)' <=> Past(r))
  BY DEF LocalStays, InCq, Past
<1>3. WireInv(c, r)'
  BY <1>1, <1>2, WireStays DEF RequestInv, LocalStays
<1>4. CqInv(c, r)'
  <2>1. \A k \in DOMAIN cq[r] : slot'[r][cq[r][k].idx] = slot[r][cq[r][k].idx]
    BY DEF LocalStays
  <2> QED
    BY <1>1, <1>2, <2>1, CqStays DEF RequestInv, LocalStays
<1>5. SlotInv(c, r)'
  BY <1>2, SlotStays DEF RequestInv, LocalStays
<1> QED
  BY <1>1, <1>3, <1>4, <1>5

\* Nor to an Init message.
LEMMA GreetStays ==
  ASSUME NEW c \in Clients, NEW r \in Receivers, mode' = mode, GreetInv(c, r),
         Pending(c, r)' <=> Pending(c, r), Greeted(c, r)' <=> Greeted(c, r),
         rpc'[r] = rpc[r], connected'[r] = connected[r], replied'[r] = replied[r],
         <<c, r>> \in rnr' => <<c, r>> \in rnr, wire'[c][r] = wire[c][r], InCq(c, r)' => InCq(c, r)
  PROVE  GreetInv(c, r)'
BY ModeStays DEF GreetInv, Replied

\* A receiver that does not move has the same things to count.
LEMMA ReceiverStays ==
  ASSUME NEW r \in Receivers, mode' = mode, ReceiverInv(r), LocalStays(r),
         \A c \in Clients : (FinSent(c, r)' <=> FinSent(c, r)) /\ wire'[c][r] = wire[c][r]
  PROVE  ReceiverInv(r)'
<1>1. ReceiverPoll' = ReceiverPoll
  BY ModeStays
<1>2. /\ (Working(r)' <=> Working(r)) /\ (Past(r)' <=> Past(r)) /\ (Busy(r)' <=> Busy(r))
      /\ Taken(r)' = Taken(r) /\ Counting(r)' = Counting(r)
  BY DEF LocalStays, Working, Past, Counting, Busy, Taken
<1>3. StepInv(r)'
  BY <1>1, <1>2 DEF ReceiverInv, StepInv, LocalStays
<1>4. PhaseInv(r)'
  BY <1>1, <1>2 DEF ReceiverInv, PhaseInv, LocalStays
<1>5. SrqInv(r)'
  BY <1>1, <1>2 DEF ReceiverInv, SrqInv, LocalStays
<1>9. IndexInv(r)'
  BY <1>1, <1>2 DEF ReceiverInv, IndexInv, LocalStays
<1>10. CountInv(r)'
  BY <1>1, <1>2 DEF ReceiverInv, CountInv, LocalStays
<1>6. \A c \in Clients : Waiting(c, r)' <=> Waiting(c, r)
  BY <1>1 DEF Waiting, InCq, LocalStays
<1>7. Counted(r)' = Counted(r)
  BY <1>6 DEF Counted
<1>8. FinishInv(r)'
  BY <1>2, <1>7 DEF ReceiverInv, FinishInv, LocalStays
<1> QED
  BY <1>3, <1>4, <1>5, <1>8, <1>9, <1>10 DEF ReceiverInv

\* The same for what is on its way back.
LEMMA RcqStays ==
  ASSUME NEW c \in Clients, NEW r \in Receivers, mode' = mode, RcqInv(c, r), AnswerKept(c, r),
         rcq'[c][r] = rcq[c][r], Replied(c, r) => Replied(c, r)'
  PROVE  RcqInv(c, r)'
BY ModeStays DEF RcqInv, AnswerKept

\* The receive for an answer stays posted.
LEMMA RqStays ==
  ASSUME NEW c \in Clients, NEW r \in Receivers, mode' = mode, RqInv(c, r),
         rcq'[c][r] = rcq[c][r], rq'[c][r] = rq[c][r], Pending(c, r)' => Pending(c, r),
         cpc'[c] \in {"post", "await"} /\ picked'[c] = r => cpc[c] \in {"post", "await"} /\ picked[c] = r
  PROVE  RqInv(c, r)'
BY ModeStays DEF RqInv

\* An answer stays on its way.
LEMMA BackStays ==
  ASSUME NEW c \in Clients, NEW r \in Receivers, mode' = mode, BackInv(c, r), AnswerKept(c, r),
         back'[r] = back[r], rcq'[c][r] = rcq[c][r], rpc'[r] = rpc[r],
         connected'[r] = connected[r], replied'[r] = replied[r],
         Served(c, r) => area'[c].flag = area[c].flag /\ area'[c].body = area[c].body
  PROVE  BackInv(c, r)'
<1>1. /\ ResponseVerb' = ResponseVerb /\ destinationNode(c)' = destinationNode(c) /\ Nodes' = Nodes
  BY ModeStays DEF Nodes, Processes
<1> QED
  BY <1>1 DEF BackInv, AnswerKept

\* An answer in the response area stays.
LEMMA AreaStays ==
  ASSUME NEW c \in Clients, mode' = mode, AreaInv(c), area'[c] = area[c], cpc'[c] = cpc[c], expId'[c] = expId[c],
         issued'[c] = issued[c], served'[c] = served[c]
  PROVE  AreaInv(c)'
<1>1. Request(c)' = Request(c) /\ SenderPoll' = SenderPoll
  BY ModeStays DEF Request
<1> QED
  BY <1>1 DEF AreaInv

\* A client that a step leaves alone.
LEMMA ClientStays ==
  ASSUME NEW c \in Clients, mode' = mode, ClientInv(c),
         cpc'[c] = cpc[c], ri'[c] = ri[c], picked'[c] = picked[c], i'[c] = i[c],
         issued'[c] = issued[c], served'[c] = served[c], answered'[c] = answered[c],
         msgOffset'[c] = msgOffset[c]
  PROVE  ClientInv(c)'
<1>1. Running' = Running /\ Requests' = Requests
  BY ModeStays
<1>2. \A r \in Receivers : Greeted(c, r)' <=> Greeted(c, r)
  BY <1>1 DEF Greeted, InitDone
<1> QED
  BY <1>1, <1>2 DEF ClientInv

-----------------------------------------------------------------------------
(***************************************************************************)
(* The types.                                                              *)
(***************************************************************************)
LEMMA TypesAre == AllTypes <=> TypeOK /\ rnr \subseteq Clients \X Receivers
<1>1. Clients \X Receivers \subseteq (Clients \X Receivers) \cup (Receivers \X Nodes)
  OBVIOUS
<1> QED
  BY <1>1 DEF TypeOK, AllTypes, ClientTypes, ReceiverTypes, FabricTypes, HistoryTypes,
              Completions, SlotTypes, Areas

\* The parts of the types are about different variables.
LEMMA TypesStay ==
  ASSUME mode' = mode
  PROVE  /\ ClientTypes /\ UNCHANGED clientVars => ClientTypes'
         /\ ReceiverTypes /\ UNCHANGED receiverVars => ReceiverTypes'
         /\ FabricTypes /\ UNCHANGED fabricVars => FabricTypes'
         /\ HistoryTypes /\ UNCHANGED historyVars => HistoryTypes'
<1>1. /\ Requests' = Requests /\ Bodies' = Bodies /\ RequestMsgs' = RequestMsgs
      /\ ResponseMsgs' = ResponseMsgs /\ SlotTypes' = SlotTypes
      /\ Entries' = Entries /\ Contents' = Contents /\ Areas' = Areas
  BY ModeStays DEF SlotTypes
<1>2. ClientTypes /\ UNCHANGED clientVars => ClientTypes'
  BY <1>1 DEF ClientTypes, clientVars
<1>3. ReceiverTypes /\ UNCHANGED receiverVars => ReceiverTypes'
  BY <1>1 DEF ReceiverTypes, receiverVars
<1>4. FabricTypes /\ UNCHANGED fabricVars => FabricTypes'
  BY <1>1 DEF FabricTypes, fabricVars
<1>5. HistoryTypes /\ UNCHANGED historyVars => HistoryTypes'
  BY <1>1 DEF HistoryTypes, historyVars
<1> QED
  BY <1>2, <1>3, <1>4, <1>5

\* An entry is a number, and one that is not filled in has a content of its own.
LEMMA EntriesAre == Entries \subseteq Nat /\ 0 \in Entries /\ Unfilled \in Contents
BY ResponseAssumption DEF Entries, Unfilled, Contents

\* The messages without a body fit everywhere.
LEMMA NoBodyFits == mode \in Modes => NoBody \in Bodies
BY ModeIsKnown, EntriesAre DEF NoBody, Bodies

\* What is known of a client.
LEMMA ClientIs ==
  ASSUME ClientTypes, HistoryTypes, NEW c \in Clients
  PROVE  /\ cpc[c] \in ClientStates /\ ri[c] \in Nat /\ i[c] \in 0 .. Requests /\ picked[c] \in Receivers
         /\ msgOffset[c] \in [Receivers -> Slots] /\ area[c].flag \in {0, 1}
         /\ area[c] \in Areas /\ expId[c] \in Entries
         /\ rq[c] \in [Receivers -> Nat] /\ rcq[c] \in [Receivers -> Seq(ResponseMsgs)]
         /\ issued[c] \in 0 .. Requests /\ served[c] \in Nat /\ answered[c] \in 0 .. Requests
BY DEF ClientTypes, HistoryTypes, Areas

\* What is known of a receiver.
LEMMA ReceiverIs ==
  ASSUME ReceiverTypes, NEW r \in Receivers
  PROVE  /\ rpc[r] \in ReceiverStates /\ connected[r] \in Seq(Clients) /\ slot[r] \in SlotTypes
         /\ replied[r] \in 0 .. expectedClients /\ srq[r] \in Seq(Receives)
         /\ cq[r] \in Seq(Completions) /\ cur[r] \in Slots /\ filledFrom[r] \in Bodies
         /\ respBuffer[r] \in [Entries -> Contents] /\ clientsFinished[r] \in 0 .. expectedClients
BY DEF ReceiverTypes

-----------------------------------------------------------------------------
(***************************************************************************)
(* Steps of a client that nobody else notices.                             *)
(***************************************************************************)
LEMMA QuietStep ==
  ASSUME IInv, mode' = mode, UNCHANGED <<receiverVars, fabricVars>>,
         NEW r \in Receivers, NEW c \in Clients, rcq'[c][r] = rcq[c][r],
         \A d \in Clients : SameView(d, r),
         Served(c, r) => area'[c] = area[c]
  PROVE  ReceiverInv(r)' /\ RequestInv(c, r)' /\ RcqInv(c, r)' /\ BackInv(c, r)'
<1>1. /\ LocalStays(r) /\ wire' = wire /\ rnr' = rnr /\ back'[r] = back[r]
      /\ (InCq(c, r)' <=> InCq(c, r)) /\ (Replied(c, r)' <=> Replied(c, r))
  BY DEF receiverVars, fabricVars, LocalStays, InCq, Replied
<1>2. /\ AskKept(c, r) /\ AnswerKept(c, r)
      /\ (Pending(c, r)' <=> Pending(c, r)) /\ (Greeted(c, r)' <=> Greeted(c, r))
  BY SameViewIsKept DEF SameView
<1>3. \A d \in Clients : FinSent(d, r)' <=> FinSent(d, r)
  BY DEF SameView
<1>4. /\ ReceiverInv(r) /\ RequestInv(c, r) /\ RcqInv(c, r) /\ BackInv(c, r)
      /\ GreetInv(c, r)
  BY DEF IInv, RequestInv, ResponseInv
<1>5. ReceiverInv(r)'
  BY <1>1, <1>3, <1>4, ReceiverStays
<1>6. WireInv(c, r)' /\ CqInv(c, r)' /\ SlotInv(c, r)' /\ HeldInv(c, r)'
  BY <1>1, <1>2, <1>4, RequestStays
<1>7. GreetInv(c, r)'
  BY <1>1, <1>2, <1>4, GreetStays DEF LocalStays
<1>8. RcqInv(c, r)'
  BY <1>1, <1>2, <1>4, RcqStays
<1>9. BackInv(c, r)'
  BY <1>1, <1>2, <1>4, BackStays DEF LocalStays
<1> QED
  BY <1>5, <1>6, <1>7, <1>8, <1>9 DEF RequestInv

\* barrier.wait() opens for the clients of a process.
LEMMA PassBarrierKeeps ==
  ASSUME IInv, mode' = mode, NEW p, PassBarrier(p) PROVE IInv'
<1>1. PICK b \in {<<"connectBarrier", "sendInit">>, <<"initBarrier", "loop">>,
                  <<"endBarrier", "finish">>} :
        /\ \A c \in Clients : Process[c] = p => cpc[c] = b[1]
        /\ cpc' = [c \in Clients |-> IF Process[c] = p THEN b[2] ELSE cpc[c]]
        /\ UNCHANGED <<ri, msgOffset, i, picked, expId, area, rq, rcq, receiverVars, fabricVars,
                       historyVars>>
  BY DEF PassBarrier
<1>2. AllTypes /\ AllTypes'
  <2>1. ClientTypes'
    BY <1>1, ModeStays DEF IInv, AllTypes, ClientTypes, ClientStates
  <2> QED
    BY <1>1, <2>1, TypesStay DEF IInv, AllTypes
<1>3. ASSUME NEW c \in Clients
      PROVE  /\ cpc'[c] = cpc[c] \/ \/ cpc[c] = "connectBarrier" /\ cpc'[c] = "sendInit"
                                    \/ cpc[c] = "initBarrier" /\ cpc'[c] = "loop"
                                    \/ cpc[c] = "endBarrier" /\ cpc'[c] = "finish"
             /\ ri'[c] = ri[c] /\ picked'[c] = picked[c] /\ expId'[c] = expId[c] /\ i'[c] = i[c]
             /\ issued'[c] = issued[c] /\ served'[c] = served[c] /\ answered'[c] = answered[c]
             /\ msgOffset'[c] = msgOffset[c] /\ area'[c] = area[c] /\ rq'[c] = rq[c]
             /\ rcq'[c] = rcq[c]
  BY <1>1 DEF historyVars
<1>4. \A c \in Clients, r \in Receivers : SameView(c, r)
  BY <1>2, <1>3, ViewStays, QuietView DEF IInv, AllTypes
<1>5. ASSUME NEW c \in Clients PROVE ClientInv(c)' /\ AreaInv(c)'
  <2>1. ClientInv(c) /\ AreaInv(c) /\ Running' = Running /\ Requests' = Requests
    BY ModeStays DEF IInv
  <2>2. \A r \in Receivers : Greeted(c, r)' <=> Greeted(c, r)
    BY <1>4 DEF SameView
  <2>3. ClientInv(c)'
    BY <1>3, <2>1, <2>2 DEF ClientInv
  <2>4. Request(c)' = Request(c) /\ SenderPoll' = SenderPoll
    BY <1>3, ModeStays DEF Request
  <2> QED
    BY <1>3, <2>1, <2>3, <2>4 DEF AreaInv
<1>6. ASSUME NEW c \in Clients, NEW r \in Receivers
      PROVE  ReceiverInv(r)' /\ RequestInv(c, r)' /\ RcqInv(c, r)' /\ BackInv(c, r)'
  BY <1>1, <1>3, <1>4, QuietStep
<1>7. ASSUME NEW c \in Clients, NEW r \in Receivers PROVE RqInv(c, r)'
  BY <1>3, <1>4, RqStays DEF IInv, ResponseInv, SameView
<1>8. \A r \in Receivers : ReceiverInv(r)'
  BY <1>6, NodesAssumption
<1> QED
  BY <1>2, <1>5, <1>6, <1>7, <1>8 DEF IInv, ResponseInv

\* All that belongs to a client.
SameClient(c) ==
    /\ cpc'[c] = cpc[c] /\ ri'[c] = ri[c] /\ picked'[c] = picked[c] /\ i'[c] = i[c]
    /\ expId'[c] = expId[c] /\ msgOffset'[c] = msgOffset[c] /\ area'[c] = area[c] /\ rq'[c] = rq[c] /\ rcq'[c] = rcq[c]
    /\ issued'[c] = issued[c] /\ served'[c] = served[c] /\ answered'[c] = answered[c]

\* The clients that do not move see what they saw.
LEMMA OthersStay ==
  ASSUME IInv, mode' = mode, NEW c \in Clients, SameClient(c)
  PROVE  ClientInv(c)' /\ AreaInv(c)' /\ \A r \in Receivers : SameView(c, r) /\ RqInv(c, r)'
<1>1. ClientInv(c) /\ AreaInv(c) /\ \A r \in Receivers : RqInv(c, r)
  BY DEF IInv, ResponseInv
<1>2. ClientInv(c)'
  BY <1>1, ClientStays DEF SameClient
<1>3. AreaInv(c)'
  BY <1>1, AreaStays DEF SameClient
<1>4. \A r \in Receivers : SameView(c, r)
  BY ViewStays DEF SameClient
<1>5. ASSUME NEW r \in Receivers PROVE RqInv(c, r)'
  BY <1>1, <1>4, RqStays DEF SameClient, SameView
<1> QED
  BY <1>2, <1>3, <1>4, <1>5

\* One client takes a step that nobody else notices.
LEMMA QuietClientStep ==
  ASSUME IInv, AllTypes', mode' = mode, UNCHANGED <<receiverVars, fabricVars>>,
         NEW c \in Clients, \A d \in Clients \ {c} : SameClient(d),
         rcq'[c] = rcq[c], \A r \in Receivers : SameView(c, r) /\ RqInv(c, r)',
         ClientInv(c)', AreaInv(c)', cpc[c] = "await" => area'[c] = area[c]
  PROVE  IInv'
<1>1. ASSUME NEW d \in Clients
      PROVE  /\ ClientInv(d)' /\ AreaInv(d)' /\ rcq'[d] = rcq[d]
             /\ \A r \in Receivers : SameView(d, r) /\ RqInv(d, r)'
             /\ \A r \in Receivers : Served(d, r) => area'[d] = area[d]
  <2>1. CASE d = c
    BY <2>1 DEF Served
  <2>2. CASE d # c
    BY <2>2, OthersStay DEF SameClient
  <2> QED
    BY <2>1, <2>2
<1>2. ASSUME NEW d \in Clients, NEW r \in Receivers
      PROVE  ReceiverInv(r)' /\ RequestInv(d, r)' /\ RcqInv(d, r)' /\ BackInv(d, r)'
  BY <1>1, QuietStep
<1>3. \A r \in Receivers : ReceiverInv(r)'
  BY <1>2, NodesAssumption
<1> QED
  BY <1>1, <1>2, <1>3 DEF IInv, ResponseInv

\* An iteration without a request, and the end of the loop.
LEMMA SkipIterationKeeps ==
  ASSUME IInv, mode' = mode, NEW c \in Clients, SkipIteration(c) PROVE IInv'
<1>1. /\ cpc[c] = "loop" /\ i[c] < Requests /\ i' = [i EXCEPT ![c] = @ + 1]
      /\ UNCHANGED <<cpc, ri, msgOffset, picked, expId, area, rq, rcq, receiverVars, fabricVars,
                     historyVars>>
  BY DEF SkipIteration
<1>2. AllTypes /\ ClientInv(c) /\ AreaInv(c) /\ \A r \in Receivers : RqInv(c, r)
  BY DEF IInv, ResponseInv
<1>3. AllTypes'
  <2>1. Requests \in Nat
    BY <1>2, ModeIsKnown DEF AllTypes
  <2>2. ClientTypes'
    BY <1>1, <1>2, <2>1, ModeStays DEF AllTypes, ClientTypes
  <2> QED
    BY <1>1, <1>2, <2>2, TypesStay DEF AllTypes
<1>4. /\ i'[c] = i[c] + 1 /\ i[c] \in Nat /\ answered[c] \in Nat
      /\ \A d \in Clients \ {c} : SameClient(d)
  BY <1>1, <1>2, ClientIs DEF SameClient, AllTypes, ClientTypes, historyVars
<1>5. \A r \in Receivers : SameView(c, r)
  BY <1>1, ViewStays DEF historyVars
<1>6. ClientInv(c)'
  <2>1. Running' = Running /\ \A r \in Receivers : Greeted(c, r)' <=> Greeted(c, r)
    BY <1>5, ModeStays DEF SameView
  <2> QED
    BY <1>1, <1>2, <1>4, <2>1 DEF ClientInv, historyVars
<1>7. AreaInv(c)'
  BY <1>1, <1>2, AreaStays DEF historyVars
<1>8. \A r \in Receivers : RqInv(c, r)'
  BY <1>1, <1>2, <1>5, RqStays DEF SameView
<1> QED
  BY <1>1, <1>3, <1>4, <1>5, <1>6, <1>7, <1>8, QuietClientStep

\* When all iterations are over nothing of the client is under way.
LEMMA EndLoopKeeps ==
  ASSUME IInv, mode' = mode, NEW c \in Clients, EndLoop(c) PROVE IInv'
<1>1. /\ cpc[c] = "loop" /\ i[c] = Requests /\ cpc' = [cpc EXCEPT ![c] = "endBarrier"]
      /\ UNCHANGED <<ri, msgOffset, i, picked, expId, area, rq, rcq, receiverVars, fabricVars,
                     historyVars>>
  BY DEF EndLoop, ClientGoto
<1>2. AllTypes /\ ClientInv(c) /\ AreaInv(c) /\ \A r \in Receivers : RqInv(c, r)
  BY DEF IInv, ResponseInv
<1>3. AllTypes'
  <2>1. ClientTypes'
    BY <1>1, <1>2, ModeStays DEF AllTypes, ClientTypes, ClientStates
  <2> QED
    BY <1>1, <1>2, <2>1, TypesStay DEF AllTypes
<1>4. cpc'[c] = "endBarrier" /\ \A d \in Clients \ {c} : SameClient(d)
  BY <1>1, <1>2 DEF SameClient, AllTypes, ClientTypes, historyVars
<1>5. \A r \in Receivers : SameView(c, r)
  BY <1>1, <1>2, <1>4, QuietView DEF historyVars, AllTypes
<1>6. ClientInv(c)'
  <2>1. Running' = Running /\ \A r \in Receivers : Greeted(c, r)' <=> Greeted(c, r)
    BY <1>5, ModeStays DEF SameView
  <2> QED
    BY <1>1, <1>2, <1>4, <2>1 DEF ClientInv, historyVars
<1>7. AreaInv(c)'
  BY <1>1, <1>2 DEF AreaInv
<1>8. \A r \in Receivers : RqInv(c, r)'
  BY <1>1, <1>2, <1>4, <1>5, RqStays DEF SameView
<1> QED
  BY <1>1, <1>3, <1>4, <1>5, <1>6, <1>7, <1>8, QuietClientStep

\* What a random number chooses is among what there is.
LEMMA RemainderIs == ASSUME NEW k \in Nat, NEW n \in Nat \ {0} PROVE k % n \in 0 .. n - 1
OBVIOUS

\* A receiver and an entry are picked, the flag is reset and the receive for the response
\* posted.
LEMMA PrepareRequestKeeps ==
  ASSUME IInv, mode' = mode, NEW c \in Clients, PrepareRequest(c) PROVE IInv'
<1>0. PICK randNumber \in RandNumbers :
        LET r == Running[(randNumber % Len(Running)) + 1] IN
        /\ expId' = [expId EXCEPT ![c] = randNumber % PreparedResponses]
        /\ picked' = [picked EXCEPT ![c] = r]
        /\ rq' = (IF SenderPoll = "RQ" THEN [rq EXCEPT ![c][r] = @ + 1] ELSE rq)
  BY DEF PrepareRequest, recvIds, receive
<1>1. PICK q \in ToSet(Running), id \in Entries :
        /\ i[c] < Requests /\ cpc[c] = "loop" /\ cpc' = [cpc EXCEPT ![c] = "post"]
        /\ expId' = [expId EXCEPT ![c] = id]
        /\ area' = (IF SharedMemory THEN area ELSE [area EXCEPT ![c].flag = 0])
        /\ picked' = [picked EXCEPT ![c] = q]
        /\ rq' = (IF SenderPoll = "RQ" THEN [rq EXCEPT ![c][q] = @ + 1] ELSE rq)
        /\ UNCHANGED <<ri, msgOffset, i, rcq, receiverVars, fabricVars, historyVars>>
  <2>1. randNumber \in Nat /\ PreparedResponses \in Nat \ {0} /\ Len(Running) \in Nat \ {0}
        /\ ToSet(Running) = {Running[k] : k \in 1 .. Len(Running)}
    BY ResponseAssumption, RunningIsKnown DEF IInv, AllTypes
  <2>2. (randNumber % Len(Running)) + 1 \in 1 .. Len(Running)
    <3>1. randNumber % Len(Running) \in 0 .. Len(Running) - 1
      BY <2>1, RemainderIs
    <3> QED
      BY <2>1, <3>1
  <2>3. randNumber % PreparedResponses \in Entries
    BY <2>1, RemainderIs DEF Entries
  <2>4. Running[(randNumber % Len(Running)) + 1] \in ToSet(Running)
    BY <2>1, <2>2
  <2> QED
    BY <1>0, <2>3, <2>4 DEF PrepareRequest, ClientGoto
<1>2. AllTypes /\ ClientInv(c) /\ AreaInv(c) /\ \A r \in Receivers : RqInv(c, r)
  BY DEF IInv, ResponseInv
<1>3. q \in Receivers
  BY <1>2, RunningIsKnown DEF AllTypes
<1>4. AllTypes'
  <2>1. area' \in [Clients -> Areas]
    <3>1. [area EXCEPT ![c].flag = 0] \in [Clients -> Areas]
      BY <1>2 DEF AllTypes, ClientTypes, Areas
    <3> QED
      BY <1>1, <1>2, <3>1 DEF AllTypes, ClientTypes
  <2>2. ClientTypes'
    BY <1>1, <1>2, <1>3, <2>1, ModeStays DEF AllTypes, ClientTypes, ClientStates
  <2> QED
    BY <1>1, <1>2, <2>2, TypesStay DEF AllTypes
<1>5. /\ cpc'[c] = "post" /\ picked'[c] = q
      /\ \A d \in Clients \ {c} : SameClient(d)
  BY <1>1, <1>2 DEF SameClient, AllTypes, ClientTypes, historyVars
<1>6. \A r \in Receivers : SameView(c, r)
  BY <1>1, <1>2, <1>5, QuietView DEF historyVars, AllTypes
<1>7. ClientInv(c)'
  <2>1. Running' = Running /\ Requests' = Requests /\ \A r \in Receivers : Greeted(c, r)' <=> Greeted(c, r)
    BY <1>6, ModeStays DEF SameView
  <2> QED
    BY <1>1, <1>2, <1>5, <2>1 DEF ClientInv, historyVars
<1>8. AreaInv(c)'
  BY <1>1, <1>2 DEF AreaInv, AllTypes, ClientTypes, Areas
<1>9. ASSUME NEW r \in Receivers PROVE RqInv(c, r)'
  <2>1. ~Pending(c, r)' /\ SenderPoll' = SenderPoll
    BY <1>5, ModeStays DEF Pending
  <2>2. SenderPoll = "RQ" /\ r = q => rq'[c][r] = rq[c][r] + 1 /\ rq[c][r] \in Nat
    BY <1>1, <1>2, <1>3 DEF AllTypes, ClientTypes
  <2> QED
    BY <1>5, <2>1, <2>2 DEF RqInv
<1> QED
  BY <1>1, <1>4, <1>5, <1>6, <1>7, <1>8, <1>9, QuietClientStep

\* FinishedExp has been acknowledged.
LEMMA FinishedAcknowledgedKeeps ==
  ASSUME IInv, mode' = mode, NEW c \in Clients, FinishedAcknowledged(c) PROVE IInv'
<1> DEFINE last == ri[c] = Len(Running)
<1>1. /\ cpc[c] = "finishAck" /\ cpc' = [cpc EXCEPT ![c] = IF last THEN "done" ELSE "finish"]
      /\ ri' = [ri EXCEPT ![c] = IF last THEN 1 ELSE @ + 1]
      /\ UNCHANGED <<msgOffset, i, picked, expId, area, rq, rcq, receiverVars, fabricVars,
                     historyVars>>
  BY DEF FinishedAcknowledged, ClientGoto, recvIds
<1>2. AllTypes /\ ClientInv(c) /\ AreaInv(c) /\ \A r \in Receivers : RqInv(c, r)
  BY DEF IInv, ResponseInv
<1>3. AllTypes'
  <2>1. ClientTypes'
    BY <1>1, <1>2, ModeStays DEF AllTypes, ClientTypes, ClientStates
  <2> QED
    BY <1>1, <1>2, <2>1, TypesStay DEF AllTypes
<1>4. /\ cpc'[c] = (IF last THEN "done" ELSE "finish") /\ ri'[c] = (IF last THEN 1 ELSE ri[c] + 1)
      /\ \A d \in Clients \ {c} : SameClient(d)
  BY <1>1, <1>2 DEF SameClient, AllTypes, ClientTypes, historyVars
<1>5. \A r \in Receivers : SameView(c, r)
  BY <1>1, <1>2, <1>4, QuietView DEF historyVars, AllTypes
<1>6. ClientInv(c)'
  <2>1. Running' = Running /\ \A r \in Receivers : Greeted(c, r)' <=> Greeted(c, r)
    BY <1>5, ModeStays DEF SameView
  <2>2. Len(Running) \in Nat \ {0}
    BY <1>2, RunningIsKnown DEF AllTypes
  <2>3. ri'[c] \in 1 .. Len(Running) /\ (cpc'[c] = "done" => ri'[c] = 1)
    BY <1>2, <1>4, <2>2 DEF ClientInv
  <2> QED
    BY <1>1, <1>2, <1>4, <2>1, <2>3 DEF ClientInv, historyVars
<1>7. AreaInv(c)'
  BY <1>1, <1>2 DEF AreaInv
<1>8. \A r \in Receivers : RqInv(c, r)'
  BY <1>1, <1>2, <1>4, <1>5, RqStays DEF SameView
<1> QED
  BY <1>1, <1>3, <1>4, <1>5, <1>6, <1>7, <1>8, QuietClientStep

-----------------------------------------------------------------------------
(***************************************************************************)
(* The client takes a response, or the reply to its Init message.          *)
(***************************************************************************)

\* What lies in a completed receive of a client.
LEMMA RcqHead ==
  ASSUME AllTypes, NEW c \in Clients, NEW r \in Receivers, RcqInv(c, r), rcq[c][r] # <<>>
  PROVE  /\ Head(rcq[c][r]) \in ResponseMsgs /\ Tail(rcq[c][r]) = <<>>
         /\ LET m == Head(rcq[c][r]) IN
            \/ m.type = "InitExp" /\ m.at = NodeId[c] /\ Pending(c, r) /\ Replied(c, r)
            \/ m.type = "ExpMsg" /\ SenderPoll = "RQ" /\ Served(c, r) /\ m.body = Request(c)
<1>1. rcq[c][r] \in Seq(ResponseMsgs)
  BY DEF AllTypes, ClientTypes
<1>2. /\ Head(rcq[c][r]) = rcq[c][r][1] /\ 1 \in DOMAIN rcq[c][r]
      /\ Head(rcq[c][r]) \in ResponseMsgs /\ Tail(rcq[c][r]) \in Seq(ResponseMsgs)
      /\ Len(Tail(rcq[c][r])) = Len(rcq[c][r]) - 1 /\ Len(rcq[c][r]) \in Nat \ {0}
  BY <1>1, TailIs
<1>3. Len(rcq[c][r]) <= 1
  BY DEF RcqInv
<1>4. Tail(rcq[c][r]) = <<>>
  BY <1>2, <1>3
<1>5. \A k \in DOMAIN rcq[c][r] :
          LET m == rcq[c][r][k] IN
          \/ m.type = "InitExp" /\ m.at = NodeId[c] /\ Pending(c, r) /\ Replied(c, r)
          \/ m.type = "ExpMsg" /\ SenderPoll = "RQ" /\ Served(c, r) /\ m.body = Request(c)
  BY DEF RcqInv
<1> QED
  BY <1>2, <1>4, <1>5

\* A client that is not concerned by what another one does.
LEMMA OtherClientStays ==
  ASSUME IInv, mode' = mode, NEW c \in Clients, NEW r \in Receivers, SameClient(c),
         LocalStays(r), wire'[c][r] = wire[c][r], back'[r] = back[r],
         <<c, r>> \in rnr' => <<c, r>> \in rnr
  PROVE  ClientInv(c)' /\ AreaInv(c)' /\ RequestInv(c, r)' /\ ResponseInv(c, r)'
<1>1. /\ ClientInv(c)' /\ AreaInv(c)' /\ SameView(c, r) /\ RqInv(c, r)'
      /\ rcq'[c] = rcq[c] /\ area'[c] = area[c]
  BY OthersStay DEF SameClient
<1>2. /\ (InCq(c, r)' <=> InCq(c, r)) /\ (Replied(c, r)' <=> Replied(c, r))
      /\ AskKept(c, r) /\ AnswerKept(c, r)
  BY <1>1, SameViewIsKept DEF InCq, Replied, LocalStays
<1>3. RequestInv(c, r) /\ RcqInv(c, r) /\ BackInv(c, r)
  BY DEF IInv, ResponseInv
<1>4. WireInv(c, r)' /\ CqInv(c, r)' /\ SlotInv(c, r)' /\ HeldInv(c, r)'
  BY <1>2, <1>3, RequestStays
<1>5. GreetInv(c, r)'
  BY <1>1, <1>2, <1>3, GreetStays DEF RequestInv, LocalStays, SameView
<1>6. RcqInv(c, r)'
  BY <1>1, <1>2, <1>3, RcqStays
<1>7. BackInv(c, r)'
  BY <1>1, <1>2, <1>3, BackStays DEF LocalStays
<1> QED
  BY <1>1, <1>4, <1>5, <1>6, <1>7 DEF RequestInv, ResponseInv

\* A response that a client takes is that of a request which has been served.
LEMMA TakenIsServed ==
  ASSUME IInv, NEW c \in Clients, TakeResponse(c) PROVE served[c] = issued[c]
<1>0. PICK q \in Receivers : q = picked[c]
  BY ClientIs DEF IInv, AllTypes
<1>1. /\ cpc[c] = "await"
      /\ (SenderPoll = "BUF" /\ area[c].flag = 1) \/ rcq[c][q] # <<>>
  BY <1>0 DEF TakeResponse, ClientGoto, pollReceive
<1>2. AllTypes /\ AreaInv(c) /\ RcqInv(c, q)
  BY DEF IInv, ResponseInv
<1>3. CASE SenderPoll = "BUF" /\ area[c].flag = 1
  BY <1>2, <1>3 DEF AreaInv
<1>4. CASE rcq[c][q] # <<>>
  <2>1. Pending(c, q) \/ Served(c, q)
    BY <1>2, <1>4, RcqHead
  <2> QED
    BY <1>1, <2>1 DEF Pending, Served
<1> QED
  BY <1>1, <1>3, <1>4

\* With the response that it takes nothing of the client is under way any more, whichever
\* way the response has come.
LEMMA TakeResponseKeeps ==
  ASSUME IInv, mode' = mode, NEW c \in Clients, TakeResponse(c) PROVE IInv'
<1>0. PICK q \in Receivers : q = picked[c]
  BY ClientIs DEF IInv, AllTypes
<1>1. /\ cpc[c] = "await" /\ cpc' = [cpc EXCEPT ![c] = "loop"]
      /\ \/ /\ SenderPoll = "BUF" /\ area[c].flag = 1
            /\ area' = [area EXCEPT ![c].flag = 0] /\ rcq' = rcq
         \/ /\ SenderPoll = "RQ" /\ rcq[c][q] # <<>>
            /\ rcq' = [rcq EXCEPT ![c][q] = Tail(@)] /\ area' = area
      /\ i' = [i EXCEPT ![c] = @ + 1] /\ answered' = [answered EXCEPT ![c] = @ + 1]
      /\ UNCHANGED <<ri, msgOffset, picked, expId, rq, receiverVars, fabricVars, issued, served>>
  BY <1>0 DEF TakeResponse, ClientGoto, pollReceive
<1>2. AllTypes /\ ClientInv(c) /\ AreaInv(c)
      /\ \A r \in Receivers : RqInv(c, r) /\ RcqInv(c, r) /\ BackInv(c, r) /\ RequestInv(c, r)
  BY DEF IInv, ResponseInv
<1>3. i[c] \in Nat /\ i[c] < Requests /\ answered[c] \in Nat /\ Requests \in Nat
      /\ q \in ToSet(Running) /\ answered[c] <= i[c]
  BY <1>0, <1>1, <1>2, ClientIs, ModeIsKnown DEF AllTypes, ClientInv
<1>4. served[c] = issued[c] /\ issued[c] = answered[c] + 1
  <2>1. issued[c] = answered[c] + 1
    BY <1>1, <1>2 DEF ClientInv
  <2> QED
    BY <2>1, TakenIsServed
<1>5. AllTypes'
  <2>1. area' \in [Clients -> Areas]
    <3>1. area \in [Clients -> Areas]
      BY <1>2 DEF AllTypes, ClientTypes
    <3>2. [area EXCEPT ![c].flag = 0] \in [Clients -> Areas]
      BY <3>1 DEF Areas
    <3> QED
      BY <1>1, <3>1, <3>2
  <2>2. rcq' \in [Clients -> [Receivers -> Seq(ResponseMsgs)]]
    <3>1. CASE rcq' = rcq
      BY <1>2, <3>1 DEF AllTypes, ClientTypes
    <3>2. CASE rcq[c][q] # <<>> /\ rcq' = [rcq EXCEPT ![c][q] = Tail(@)]
      <4>1. rcq[c][q] \in Seq(ResponseMsgs) /\ Tail(rcq[c][q]) \in Seq(ResponseMsgs)
        BY <1>2, <1>3, <3>2, TailIs DEF AllTypes, ClientTypes
      <4> QED
        BY <1>2, <3>2, <4>1 DEF AllTypes, ClientTypes
    <3> QED
      BY <1>1, <3>1, <3>2
  <2>3. ClientTypes'
    BY SMTT(30), <1>1, <1>2, <1>3, <2>1, <2>2, ModeStays DEF AllTypes, ClientTypes, ClientStates
  <2>4. HistoryTypes'
    BY <1>1, <1>2, <1>3, <1>4, ModeStays DEF AllTypes, HistoryTypes
  <2> QED
    BY <1>1, <1>2, <2>3, <2>4, TypesStay DEF AllTypes
<1>6. /\ cpc'[c] = "loop" /\ i'[c] = i[c] + 1 /\ answered'[c] = answered[c] + 1
      /\ \A d \in Clients \ {c} : SameClient(d)
  BY <1>1, <1>2 DEF SameClient, AllTypes, ClientTypes, HistoryTypes
<1>7. ASSUME NEW r \in Receivers
      PROVE  /\ r # q => SameView(c, r)
             /\ r = q => /\ ~Pending(c, r) /\ ~Asking(c, r) /\ Greeted(c, r) /\ ~FinSent(c, r)
                         /\ ~Pending(c, r)' /\ ~Asking(c, r)' /\ Greeted(c, r)' /\ ~FinSent(c, r)'
                         /\ ~Served(c, r)'
  BY <1>0, <1>1, <1>2, <1>4, <1>6, TakeResponseView DEF AllTypes
<1>8. ASSUME NEW r \in Receivers
      PROVE  /\ AskKept(c, r) /\ (Pending(c, r)' <=> Pending(c, r))
             /\ (Greeted(c, r)' <=> Greeted(c, r)) /\ (FinSent(c, r)' <=> FinSent(c, r))
  BY <1>7 DEF SameView, AskKept
<1>9. ClientInv(c)'
  <2>1. Running' = Running /\ Requests' = Requests
    BY ModeStays
  <2> QED
    BY <1>1, <1>2, <1>3, <1>4, <1>6, <1>8, <2>1 DEF ClientInv
<1>10. area'[c].flag = 0
  <2>1. CASE SenderPoll = "BUF"
    BY <1>1, <1>2, <2>1 DEF AllTypes, ClientTypes, Areas
  <2>2. CASE SenderPoll # "BUF"
    BY <1>1, <1>2, <2>2, ClientIs DEF AreaInv, AllTypes
  <2> QED
    BY <2>1, <2>2
<1>11. AreaInv(c)'
  BY <1>10 DEF AreaInv
<1>12. ASSUME NEW d \in Clients, NEW r \in Receivers PROVE FinSent(d, r)' <=> FinSent(d, r)
  <2>1. CASE d = c
    BY <1>8, <2>1
  <2>2. CASE d # c
    BY <1>6, <2>2, OthersStay DEF SameView
  <2> QED
    BY <2>1, <2>2
<1>13. ASSUME NEW r \in Receivers
       PROVE  LocalStays(r) /\ ReceiverInv(r)' /\ wire' = wire /\ rnr' = rnr /\ back' = back
  <2>1. LocalStays(r) /\ wire' = wire /\ rnr' = rnr /\ back' = back
    BY <1>1 DEF LocalStays, receiverVars, fabricVars
  <2> QED
    BY <1>12, <2>1, ReceiverStays DEF IInv
<1>14. ASSUME NEW r \in Receivers PROVE RequestInv(c, r)'
  <2>1. WireInv(c, r)' /\ CqInv(c, r)' /\ SlotInv(c, r)' /\ HeldInv(c, r)'
    BY <1>2, <1>8, <1>13, RequestStays
  <2>2. InCq(c, r)' <=> InCq(c, r)
    BY <1>13 DEF InCq, LocalStays
  <2>3. GreetInv(c, r)'
    BY <1>2, <1>8, <1>13, <2>2, GreetStays DEF RequestInv, LocalStays
  <2> QED
    BY <2>1, <2>3 DEF RequestInv
<1>15. ASSUME NEW r \in Receivers PROVE ResponseInv(c, r)'
  <2>1. CASE r # q
    <3>1. SameView(c, r) /\ AnswerKept(c, r) /\ rcq'[c][r] = rcq[c][r]
      BY <1>1, <1>2, <1>7, <2>1, SameViewIsKept DEF AllTypes, ClientTypes
    <3>2. ~Served(c, r) /\ (Replied(c, r)' <=> Replied(c, r))
      BY <1>0, <1>13, <2>1 DEF Served, Replied, LocalStays
    <3>3. RcqInv(c, r)'
      BY <1>2, <3>1, <3>2, RcqStays
    <3>4. RqInv(c, r)'
      BY <1>1, <1>2, <1>6, <1>8, <3>1, RqStays
    <3>5. BackInv(c, r)'
      BY <1>2, <1>13, <3>1, <3>2, BackStays DEF LocalStays
    <3> QED
      BY <3>3, <3>4, <3>5 DEF ResponseInv
  <2>2. CASE r = q
    <3>1. rcq'[c][q] = <<>>
      <4>1. CASE rcq[c][q] # <<>> /\ rcq' = [rcq EXCEPT ![c][q] = Tail(@)]
        <5>1. Tail(rcq[c][q]) = <<>>
          BY <1>2, <1>3, <4>1, RcqHead
        <5> QED
          BY <1>2, <1>3, <4>1, <5>1 DEF AllTypes, ClientTypes
      <4>2. CASE SenderPoll = "BUF" /\ rcq' = rcq
        <5>1. ~Pending(c, q)
          BY <1>3, <1>7
        <5> QED
          BY <1>2, <1>3, <4>2, <5>1, RcqHead
      <4> QED
        BY <1>1, <4>1, <4>2
    <3>2. RcqInv(c, q)'
      BY <3>1 DEF RcqInv
    <3>3. RqInv(c, q)'
      BY <1>3, <1>6, <1>7 DEF RqInv
    <3>4. \A n \in Nodes : \A k \in DOMAIN back[q][n] : back[q][n][k].ptr # c
      <4>1. ~Pending(c, q) /\ (area[c].flag = 1 \/ rcq[c][q] # <<>>)
        BY <1>1, <1>3, <1>7
      <4> QED
        BY <1>2, <1>3, <4>1 DEF BackInv
    <3>5. BackInv(c, q)'
      BY <1>3, <1>13, <3>4 DEF BackInv, Nodes, Processes
    <3> QED
      BY <2>2, <3>2, <3>3, <3>5 DEF ResponseInv
  <2> QED
    BY <2>1, <2>2
<1>16. ASSUME NEW d \in Clients \ {c}, NEW r \in Receivers
       PROVE  /\ ClientInv(d)' /\ AreaInv(d)' /\ RequestInv(d, r)' /\ ResponseInv(d, r)'
  BY <1>6, <1>13, OtherClientStays
<1>17. \A d \in Clients, r \in Receivers :
          ClientInv(d)' /\ AreaInv(d)' /\ RequestInv(d, r)' /\ ResponseInv(d, r)'
  BY <1>9, <1>11, <1>14, <1>15, <1>16
<1>18. \A d \in Clients : ClientInv(d)' /\ AreaInv(d)'
  BY <1>3, <1>17
<1> QED
  BY <1>5, <1>13, <1>17, <1>18 DEF IInv

\* Between two messages of a client nothing of it is with the receiver,
LEMMA NothingSent ==
  ASSUME AllTypes, NEW c \in Clients, NEW r \in Receivers, RequestInv(c, r),
         Pending(c, r) => c \in ToSet(connected[r]), ~Asking(c, r), ~FinSent(c, r)
  PROVE  /\ wire[c][r] = <<>> /\ ~InCq(c, r) /\ ~Held(c, r)
         /\ ReceiverPoll = "BUF" => slot[r][NodeId[c]].type = "EMPTY"
<1>1. \A m : ~SentBy(c, r, m)
  BY DEF SentBy
<1>2. wire[c][r] = <<>>
  <2>1. wire[c][r] \in Seq(RequestMsgs)
    BY DEF AllTypes, FabricTypes
  <2>2. 1 \notin DOMAIN wire[c][r]
    BY <1>1 DEF RequestInv, WireInv
  <2> QED
    BY <2>1, <2>2, TailIs
<1>3. ~InCq(c, r)
  BY <1>1 DEF RequestInv, CqInv, InCq
<1>4. ~Held(c, r)
  BY DEF RequestInv, HeldInv
<1>5. ReceiverPoll = "BUF" => slot[r][NodeId[c]].type = "EMPTY"
  BY <1>1 DEF RequestInv, SlotInv
<1> QED
  BY <1>2, <1>3, <1>4, <1>5

\* and nothing of the receiver is on its way back.
LEMMA NothingBack ==
  ASSUME AllTypes, NEW c \in Clients, NEW r \in Receivers, ResponseInv(c, r),
         ~Pending(c, r), ~Served(c, r)
  PROVE  /\ rcq[c][r] = <<>>
         /\ \A n \in Nodes : \A k \in DOMAIN back[r][n] : back[r][n][k].ptr # c
<1>1. rcq[c][r] = <<>>
  <2>1. rcq[c][r] \in Seq(ResponseMsgs)
    BY DEF AllTypes, ClientTypes
  <2>2. 1 \notin DOMAIN rcq[c][r]
    BY DEF ResponseInv, RcqInv
  <2> QED
    BY <2>1, <2>2, TailIs
<1>2. \A n \in Nodes : \A k \in DOMAIN back[r][n] : back[r][n][k].ptr # c
  BY DEF ResponseInv, BackInv
<1> QED
  BY <1>1, <1>2

\* The reply gives the client the slot of its own id, and the receiver has greeted it.
LEMMA InitReplyKeeps ==
  ASSUME IInv, mode' = mode, NEW c \in Clients, InitReply(c) PROVE IInv'
<1>0. PICK q \in Receivers : q = Running[ri[c]]
  BY RunningIsKnown DEF IInv, AllTypes, ClientInv
<1> DEFINE last == ri[c] = Len(Running)
<1>1. /\ cpc[c] = "initReply"
      /\ cpc' = [cpc EXCEPT ![c] = IF last THEN "initBarrier" ELSE "sendInit"]
      /\ wire[c][q] = <<>> /\ rcq[c][q] # <<>> /\ rcq' = [rcq EXCEPT ![c][q] = Tail(@)]
      /\ ri' = [ri EXCEPT ![c] = IF last THEN 1 ELSE @ + 1]
      /\ msgOffset' = [msgOffset EXCEPT ![c][q] = Head(rcq[c][q]).at]
      /\ UNCHANGED <<i, picked, expId, area, rq, receiverVars, fabricVars, historyVars>>
  BY <1>0 DEF InitReply, ClientGoto, pollReceive, recvIds
<1>2. AllTypes /\ ClientInv(c) /\ AreaInv(c)
      /\ \A r \in Receivers : ResponseInv(c, r) /\ RequestInv(c, r) /\ RcqInv(c, r)
                              /\ RqInv(c, r) /\ BackInv(c, r) /\ GreetInv(c, r)
  BY DEF IInv, ResponseInv, RequestInv
<1>3. /\ Head(rcq[c][q]) \in ResponseMsgs /\ Tail(rcq[c][q]) = <<>>
      /\ Head(rcq[c][q]).at = NodeId[c] /\ Replied(c, q) /\ Pending(c, q)
      /\ NodeId[c] \in Slots
  <2>1. Pending(c, q) /\ ~Served(c, q)
    BY <1>0, <1>1 DEF Pending, Served
  <2> QED
    BY <1>1, <1>2, <2>1, RcqHead, MaxNodeIDIsKnown
<1>4. AllTypes'
  <2>1. rcq[c][q] \in Seq(ResponseMsgs) /\ <<>> \in Seq(ResponseMsgs)
    BY <1>2 DEF AllTypes, ClientTypes
  <2>2. rcq' \in [Clients -> [Receivers -> Seq(ResponseMsgs)]]
    BY <1>1, <1>2, <1>3, <2>1 DEF AllTypes, ClientTypes
  <2>3. ClientTypes'
    BY <1>1, <1>2, <1>3, <2>2, ModeStays DEF AllTypes, ClientTypes, ClientStates
  <2> QED
    BY <1>1, <1>2, <2>3, TypesStay DEF AllTypes
<1>5. /\ cpc'[c] = (IF last THEN "initBarrier" ELSE "sendInit")
      /\ ri'[c] = (IF last THEN 1 ELSE ri[c] + 1)
      /\ msgOffset'[c][q] = NodeId[c] /\ rcq'[c][q] = <<>>
      /\ \A r \in Receivers : r # q => msgOffset'[c][r] = msgOffset[c][r] /\ rcq'[c][r] = rcq[c][r]
      /\ \A d \in Clients \ {c} : SameClient(d)
  BY <1>1, <1>2, <1>3 DEF SameClient, AllTypes, ClientTypes, historyVars
<1>6. ASSUME NEW r \in Receivers
      PROVE  /\ r # q => SameView(c, r)
             /\ r = q => /\ Pending(c, r) /\ ~Asking(c, r) /\ ~Served(c, r) /\ ~FinSent(c, r)
                         /\ ~Pending(c, r)' /\ ~Asking(c, r)' /\ Greeted(c, r)' /\ ~FinSent(c, r)'
                         /\ ~Served(c, r)'
  BY <1>0, <1>1, <1>2, <1>5, InitReplyView DEF AllTypes, historyVars
<1>7. ClientInv(c)'
  <2>1. Running' = Running /\ Requests' = Requests /\ Len(Running) \in Nat \ {0}
    BY <1>2, ModeStays, RunningIsKnown DEF AllTypes
  <2>2. ASSUME NEW r \in Receivers, Greeted(c, r)' PROVE msgOffset'[c][r] = NodeId[c]
    BY <1>2, <1>5, <1>6, <2>2 DEF SameView, ClientInv
  <2>3. ri'[c] \in 1 .. Len(Running) /\ (cpc'[c] = "initBarrier" => ri'[c] = 1)
    BY <1>2, <1>5, <2>1 DEF ClientInv
  <2> QED
    BY <1>1, <1>2, <1>5, <2>1, <2>2, <2>3 DEF ClientInv, historyVars
<1>8. AreaInv(c)'
  BY <1>1, <1>2 DEF AreaInv
<1>9. ASSUME NEW d \in Clients, NEW r \in Receivers PROVE FinSent(d, r)' <=> FinSent(d, r)
  <2>1. CASE d = c
    BY <1>6, <2>1 DEF SameView
  <2>2. CASE d # c
    BY <1>5, <2>2, OthersStay DEF SameView
  <2> QED
    BY <2>1, <2>2
<1>10. ASSUME NEW r \in Receivers
       PROVE  /\ LocalStays(r) /\ ReceiverInv(r)' /\ wire' = wire /\ rnr' = rnr /\ back' = back
              /\ (InCq(c, r)' <=> InCq(c, r)) /\ (Replied(c, r)' <=> Replied(c, r))
              /\ (Held(c, r)' <=> Held(c, r))
  <2>1. LocalStays(r) /\ wire' = wire /\ rnr' = rnr /\ back' = back
    BY <1>1 DEF LocalStays, receiverVars, fabricVars
  <2>2. ReceiverInv(r)'
    BY <1>9, <2>1, ReceiverStays DEF IInv
  <2> QED
    BY <2>1, <2>2 DEF InCq, Replied, Held, Working, LocalStays
<1>11. ASSUME NEW r \in Receivers, r # q PROVE RequestInv(c, r)' /\ ResponseInv(c, r)'
  <2>1. SameView(c, r) /\ AskKept(c, r) /\ AnswerKept(c, r) /\ rcq'[c][r] = rcq[c][r]
    BY <1>5, <1>6, <1>11, SameViewIsKept
  <2>2. (Pending(c, r)' <=> Pending(c, r)) /\ (Greeted(c, r)' <=> Greeted(c, r))
    BY <2>1 DEF SameView
  <2>3. WireInv(c, r)' /\ CqInv(c, r)' /\ SlotInv(c, r)' /\ HeldInv(c, r)'
    BY <1>2, <1>10, <2>1, RequestStays
  <2>4. GreetInv(c, r)'
    BY <1>2, <1>10, <2>2, GreetStays DEF LocalStays
  <2>5. RcqInv(c, r)'
    BY <1>2, <1>10, <2>1, RcqStays
  <2>6. RqInv(c, r)'
    BY <1>1, <1>2, <1>5, <2>1, <2>2, RqStays
  <2>7. BackInv(c, r)'
    BY <1>1, <1>2, <1>10, <2>1, BackStays DEF LocalStays
  <2> QED
    BY <2>3, <2>4, <2>5, <2>6, <2>7 DEF RequestInv, ResponseInv
<1>12. RequestInv(c, q)'
  <2>1. c \in ToSet(connected[q])
    BY <1>3 DEF Replied, ToSet
  <2>2. ~InCq(c, q) /\ ~Held(c, q) /\ (ReceiverPoll = "BUF" => slot[q][NodeId[c]].type = "EMPTY")
    BY <1>2, <1>6, <2>1, NothingSent
  <2>3. WireInv(c, q)'
    BY <1>1, <1>10 DEF WireInv
  <2>4. CqInv(c, q)'
    BY <1>10, <2>2 DEF CqInv, InCq
  <2>5. SlotInv(c, q)' /\ HeldInv(c, q)'
    BY <1>10, <2>2, ModeStays DEF SlotInv, HeldInv, LocalStays
  <2>6. <<c, q>> \notin rnr
    BY <1>2, <2>1 DEF GreetInv
  <2>7. GreetInv(c, q)'
    BY <1>3, <1>6, <1>10, <2>6 DEF GreetInv
  <2> QED
    BY <2>3, <2>4, <2>5, <2>7 DEF RequestInv
<1>13. ResponseInv(c, q)'
  <2>1. RcqInv(c, q)'
    BY <1>5 DEF RcqInv
  <2>2. RqInv(c, q)'
    BY <1>5, <1>6 DEF RqInv
  <2>3. BackInv(c, q)'
    BY <1>1, <1>2, <1>10 DEF BackInv, Nodes, Processes
  <2> QED
    BY <2>1, <2>2, <2>3 DEF ResponseInv
<1>14. ASSUME NEW d \in Clients \ {c}, NEW r \in Receivers
       PROVE  /\ ClientInv(d)' /\ AreaInv(d)' /\ RequestInv(d, r)' /\ ResponseInv(d, r)'
  BY <1>5, <1>10, OtherClientStays
<1>15. \A d \in Clients, r \in Receivers :
          ClientInv(d)' /\ AreaInv(d)' /\ RequestInv(d, r)' /\ ResponseInv(d, r)'
  BY <1>7, <1>8, <1>11, <1>12, <1>13, <1>14
<1>16. \A d \in Clients : ClientInv(d)' /\ AreaInv(d)'
  BY <1>15
<1> QED
  BY <1>4, <1>10, <1>15, <1>16 DEF IInv

-----------------------------------------------------------------------------
(***************************************************************************)
(* A client posts a message to a receiver that has nothing of it.          *)
(***************************************************************************)
LEMMA PostKeeps ==
  ASSUME IInv, AllTypes', mode' = mode, NEW c \in Clients, NEW q \in Receivers, NEW m,
         UNCHANGED <<receiverVars, back, rnr>>, \A d \in Clients \ {c} : SameClient(d),
         rcq'[c] = rcq[c], area'[c] = area[c], ClientInv(c)', AreaInv(c)',
         \A r \in Receivers : RqInv(c, r)' /\ (r # q => SameView(c, r)),
         Pending(c, q) => c \in ToSet(connected[q]),
         ~Asking(c, q), ~FinSent(c, q), ~Pending(c, q), ~Served(c, q), GreetInv(c, q)',
         \A d \in Clients, r \in Receivers : d # c \/ r # q => wire'[d][r] = wire[d][r],
         wire'[c][q] = Append(wire[c][q], m), m \in RequestMsgs, m.stage = "whole",
         \/ m.type = "InitExp" /\ m.verb = "SEND" /\ Pending(c, q)' /\ c \notin ToSet(connected[q])
         \/ /\ m.verb = RequestVerb /\ SentBy(c, q, m)'
            /\ ReceiverPoll = "BUF" => m.at = NodeId[c]
  PROVE  IInv'
<1>1. /\ AllTypes /\ \A d \in Clients, r \in Receivers : RequestInv(d, r) /\ ResponseInv(d, r)
      /\ \A r \in Receivers : ReceiverInv(r)
  BY DEF IInv
<1>2. /\ wire[c][q] = <<>> /\ ~InCq(c, q) /\ ~Held(c, q)
      /\ ReceiverPoll = "BUF" => slot[q][NodeId[c]].type = "EMPTY"
  BY <1>1, NothingSent
<1>3. /\ rcq[c][q] = <<>>
      /\ \A n \in Nodes : \A k \in DOMAIN back[q][n] : back[q][n][k].ptr # c
  BY <1>1, NothingBack
<1>4. /\ wire'[c][q] # <<>> /\ Len(wire'[c][q]) = 1 /\ DOMAIN wire'[c][q] = {1}
      /\ wire'[c][q][1] = m
  <2>1. wire'[c][q] = <<m>>
    BY <1>2
  <2> QED
    BY <2>1
<1>5. ASSUME NEW r \in Receivers
      PROVE  /\ LocalStays(r) /\ (InCq(c, r)' <=> InCq(c, r)) /\ (Held(c, r)' <=> Held(c, r))
             /\ (Replied(c, r)' <=> Replied(c, r)) /\ back' = back /\ rnr' = rnr
  BY DEF LocalStays, receiverVars, InCq, Held, Working, Replied
<1>6. ASSUME NEW d \in Clients \ {c}, NEW r \in Receivers
      PROVE  /\ ClientInv(d)' /\ AreaInv(d)' /\ RequestInv(d, r)' /\ ResponseInv(d, r)'
             /\ SameView(d, r)
  <2>1. wire'[d][r] = wire[d][r] /\ SameClient(d)
    OBVIOUS
  <2> QED
    BY <1>5, <2>1, OtherClientStays, OthersStay
<1>7. ASSUME NEW r \in Receivers, r # q PROVE RequestInv(c, r)' /\ ResponseInv(c, r)' /\ ReceiverInv(r)'
  <2>1. SameView(c, r) /\ wire'[c][r] = wire[c][r] /\ RequestInv(c, r) /\ ResponseInv(c, r)
    BY <1>1, <1>7
  <2>2. AskKept(c, r) /\ AnswerKept(c, r)
        /\ (Pending(c, r)' <=> Pending(c, r)) /\ (Greeted(c, r)' <=> Greeted(c, r))
    BY <2>1, SameViewIsKept DEF SameView
  <2>3. WireInv(c, r)' /\ CqInv(c, r)' /\ SlotInv(c, r)' /\ HeldInv(c, r)'
    BY <1>5, <2>1, <2>2, RequestStays
  <2>4. GreetInv(c, r)'
    BY <1>5, <2>1, <2>2, GreetStays DEF LocalStays, RequestInv
  <2>5. RcqInv(c, r)' /\ BackInv(c, r)'
    BY <1>5, <2>1, <2>2, RcqStays, BackStays DEF LocalStays, ResponseInv
  <2>6. \A d \in Clients : (FinSent(d, r)' <=> FinSent(d, r)) /\ wire'[d][r] = wire[d][r]
    BY <1>6, <1>7, <2>1 DEF SameView
  <2>7. ReceiverInv(r)'
    BY <1>1, <1>5, <2>6, ReceiverStays
  <2> QED
    BY <2>3, <2>4, <2>5, <2>7 DEF RequestInv, ResponseInv
<1>8. RequestInv(c, q)' /\ ResponseInv(c, q)'
  <2>1. ReceiverPoll' = ReceiverPoll /\ RequestVerb' = RequestVerb
    BY ModeStays
  <2>2. WireInv(c, q)'
    BY <1>2, <1>4, <1>5, <2>1 DEF WireInv, LocalStays
  <2>3. CqInv(c, q)'
    BY <1>2, <1>5 DEF CqInv, InCq
  <2>4. SlotInv(c, q)' /\ HeldInv(c, q)'
    BY <1>2, <1>5, <2>1 DEF SlotInv, HeldInv, LocalStays
  <2>5. RcqInv(c, q)'
    <3>1. rcq'[c][q] = <<>>
      BY <1>3
    <3> QED
      BY <3>1 DEF RcqInv
  <2>6. BackInv(c, q)'
    BY <1>3, <1>5 DEF BackInv, Nodes, Processes
  <2> QED
    BY <2>2, <2>3, <2>4, <2>5, <2>6 DEF RequestInv, ResponseInv
<1>9. ReceiverInv(q)'
  <2>1. ReceiverPoll' = ReceiverPoll /\ ReceiverInv(q) /\ LocalStays(q)
    BY <1>1, <1>5, ModeStays
  <2>2. /\ (Working(q)' <=> Working(q)) /\ (Past(q)' <=> Past(q)) /\ (Busy(q)' <=> Busy(q))
        /\ Taken(q)' = Taken(q) /\ Counting(q)' = Counting(q)
    BY <2>1 DEF LocalStays, Working, Past, Counting, Busy, Taken
  <2>3. StepInv(q)'
    BY <2>1, <2>2 DEF ReceiverInv, StepInv, LocalStays
  <2>4. PhaseInv(q)'
    BY <2>1, <2>2 DEF ReceiverInv, PhaseInv, LocalStays
  <2>5. SrqInv(q)'
    BY <2>1, <2>2 DEF ReceiverInv, SrqInv, LocalStays
  <2>6. IndexInv(q)'
    BY <2>1, <2>2 DEF ReceiverInv, IndexInv, LocalStays
  <2>7. CountInv(q)'
    BY <2>1, <2>2 DEF ReceiverInv, CountInv, LocalStays
  <2>8. \A d \in Clients \ {c} : (FinSent(d, q)' <=> FinSent(d, q)) /\ (Waiting(d, q)' <=> Waiting(d, q))
    BY <1>6, <2>1 DEF Waiting, InCq, LocalStays, SameView
  <2>9. ~FinSent(c, q) /\ Waiting(c, q)'
    BY <1>4 DEF Waiting
  <2>10. Counted(q)' = Counted(q)
    BY <2>8, <2>9 DEF Counted
  <2>11. FinishInv(q)'
    BY <2>1, <2>2, <2>10 DEF ReceiverInv, FinishInv, LocalStays
  <2> QED
    BY <2>3, <2>4, <2>5, <2>6, <2>7, <2>11 DEF ReceiverInv
<1>10. \A d \in Clients, r \in Receivers :
          ClientInv(d)' /\ AreaInv(d)' /\ RequestInv(d, r)' /\ ResponseInv(d, r)'
  BY <1>6, <1>7, <1>8
<1>11. \A d \in Clients : ClientInv(d)' /\ AreaInv(d)'
  BY <1>10
<1> QED
  BY <1>7, <1>9, <1>10, <1>11 DEF IInv

\* An Init message is the first of its client to that receiver, with a receive posted for
\* the reply.
LEMMA SendInitKeeps ==
  ASSUME IInv, mode' = mode, NEW c \in Clients, SendInit(c) PROVE IInv'
<1>0. PICK q \in Receivers : q = Running[ri[c]]
  BY RunningIsKnown DEF IInv, AllTypes, ClientInv
<1> DEFINE msg == [type |-> "InitExp", verb |-> "SEND", at |-> msgOffset[c][q], body |-> NoBody,
                   stage |-> "whole"]
<1>1. /\ EarlyInit \/ rpc[q] # "start"
      /\ cpc[c] = "sendInit" /\ cpc' = [cpc EXCEPT ![c] = "initReply"]
      /\ rq' = [rq EXCEPT ![c][q] = @ + 1]
      /\ wire' = (IF <<c, q>> \in rnr THEN wire ELSE [wire EXCEPT ![c][q] = Append(@, msg)])
      /\ UNCHANGED <<ri, msgOffset, i, picked, expId, area, rcq, receiverVars, back, rnr, historyVars>>
  BY <1>0 DEF SendInit, ClientGoto, receive, Post, recvIds
<1>2. AllTypes /\ ClientInv(c) /\ AreaInv(c)
      /\ \A r \in Receivers : RqInv(c, r) /\ GreetInv(c, r)
  BY DEF IInv, ResponseInv, RequestInv
<1>3. PICK m \in RequestMsgs : m = msg
  BY <1>2, NoBodyFits, ClientIs DEF RequestMsgs, AllTypes, Types, Verbs
<1>4. /\ cpc'[c] = "initReply" /\ rq'[c][q] = rq[c][q] + 1 /\ rq[c][q] \in Nat
      /\ \A r \in Receivers : r # q => rq'[c][r] = rq[c][r]
      /\ \A d \in Clients \ {c} : SameClient(d)
  BY <1>1, <1>2 DEF SameClient, AllTypes, ClientTypes, historyVars
<1>5. ASSUME NEW r \in Receivers
      PROVE  /\ r # q => SameView(c, r)
             /\ r = q => /\ ~Pending(c, r) /\ ~Greeted(c, r) /\ ~Asking(c, r) /\ ~Served(c, r) /\ ~FinSent(c, r)
                         /\ Pending(c, r)' /\ ~Greeted(c, r)'
  BY <1>0, <1>1, <1>2, <1>4, SendInitView DEF AllTypes, historyVars
<1>6. c \notin ToSet(connected[q]) /\ <<c, q>> \notin rnr
  BY <1>2, <1>5 DEF GreetInv
<1>7. /\ wire' = [wire EXCEPT ![c][q] = Append(@, m)]
      /\ wire'[c][q] = Append(wire[c][q], m)
      /\ \A d \in Clients, r \in Receivers : d # c \/ r # q => wire'[d][r] = wire[d][r]
      /\ wire[c][q] \in Seq(RequestMsgs) /\ Append(wire[c][q], m) \in Seq(RequestMsgs)
  BY <1>1, <1>2, <1>3, <1>6 DEF AllTypes, FabricTypes
<1>8. AllTypes'
  <2>1. ClientTypes'
    BY <1>1, <1>2, ModeStays DEF AllTypes, ClientTypes, ClientStates
  <2>2. FabricTypes'
    BY <1>1, <1>2, <1>7, ModeStays DEF AllTypes, FabricTypes
  <2> QED
    BY <1>1, <1>2, <2>1, <2>2, TypesStay DEF AllTypes
<1>9. ClientInv(c)'
  <2>1. Running' = Running /\ \A r \in Receivers : Greeted(c, r)' => Greeted(c, r)
    BY <1>5, ModeStays DEF SameView
  <2> QED
    BY <1>1, <1>2, <1>4, <2>1 DEF ClientInv, historyVars
<1>10. AreaInv(c)'
  BY <1>1, <1>2 DEF AreaInv
<1>11. ASSUME NEW r \in Receivers PROVE RqInv(c, r)'
  <2>1. CASE r = q
    BY <1>4, <2>1 DEF RqInv
  <2>2. CASE r # q
    BY <1>1, <1>2, <1>4, <1>5, <2>2, RqStays DEF SameView
  <2> QED
    BY <2>1, <2>2
<1>12. GreetInv(c, q)'
  <2>1. connected' = connected /\ rpc' = rpc /\ rnr' = rnr /\ EarlyInit' = EarlyInit
    BY <1>1, ModeStays DEF receiverVars
  <2> QED
    BY <1>1, <1>5, <1>6, <2>1 DEF GreetInv
<1>13. /\ UNCHANGED <<receiverVars, back, rnr>> /\ rcq'[c] = rcq[c] /\ area'[c] = area[c]
       /\ m.stage = "whole" /\ m.type = "InitExp" /\ m.verb = "SEND" /\ Pending(c, q)'
       /\ ~Asking(c, q) /\ ~FinSent(c, q) /\ ~Pending(c, q) /\ ~Served(c, q)
       /\ \A r \in Receivers : RqInv(c, r)' /\ (r # q => SameView(c, r))
  BY <1>1, <1>3, <1>5, <1>11
<1> QED
  BY ONLY IInv, mode' = mode, <1>4, <1>6, <1>7, <1>8, <1>9, <1>10, <1>12, <1>13, PostKeeps

\* A request is posted when the answer to the last one has been taken, so that its slot is
\* empty.
LEMMA PostRequestKeeps ==
  ASSUME IInv, mode' = mode, NEW c \in Clients, PostRequest(c) PROVE IInv'
<1>0. PICK q \in Receivers : q = picked[c]
  BY ClientIs DEF IInv, AllTypes
<1> DEFINE body == [dest |-> destinationNode(c), ptr |-> c, id |-> expId[c], msgId |-> issued[c] + 1]
           msg == [type |-> "ExpMsg", verb |-> RequestVerb, at |-> msgOffset[c][q],
                   body |-> body, stage |-> "whole"]
<1>1. /\ cpc[c] = "post" /\ cpc' = [cpc EXCEPT ![c] = "await"]
      /\ issued' = [issued EXCEPT ![c] = @ + 1]
      /\ wire' = (IF <<c, q>> \in rnr THEN wire ELSE [wire EXCEPT ![c][q] = Append(@, msg)])
      /\ UNCHANGED <<ri, msgOffset, i, picked, expId, area, rq, rcq, receiverVars, back, rnr,
                     served, answered>>
  BY <1>0 DEF PostRequest, ClientGoto, Post
<1>2. AllTypes /\ ClientInv(c) /\ AreaInv(c)
      /\ \A r \in Receivers : RqInv(c, r) /\ GreetInv(c, r)
  BY DEF IInv, ResponseInv, RequestInv
<1>3. /\ issued[c] = answered[c] /\ answered[c] <= i[c] /\ i[c] < Requests /\ i[c] \in Nat
      /\ Requests \in Nat /\ issued[c] \in Nat /\ issued[c] + 1 \in 0 .. Requests
      /\ served[c] = issued[c] /\ RequestVerb \in Verbs
  BY <1>1, <1>2, ClientIs, ModeIsKnown DEF AllTypes, ClientInv
<1>4. PICK m \in RequestMsgs : m = msg
  <2>1. destinationNode(c) \in Nodes
    BY DEF destinationNode, Nodes, Processes
  <2>2. body \in Bodies
    BY <1>2, <1>3, <2>1, ClientIs DEF Bodies, AllTypes
  <2> HIDE DEF body
  <2> QED
    BY <1>2, <1>3, <2>2, ClientIs DEF RequestMsgs, AllTypes, Types
<1>5. /\ cpc'[c] = "await" /\ issued'[c] = issued[c] + 1 /\ expId'[c] = expId[c]
      /\ \A d \in Clients \ {c} : SameClient(d)
  BY <1>1, <1>2 DEF SameClient, AllTypes, ClientTypes, HistoryTypes
<1>6. ASSUME NEW r \in Receivers
      PROVE  /\ r # q => SameView(c, r)
             /\ r = q => /\ ~Pending(c, r) /\ Greeted(c, r) /\ ~Asking(c, r) /\ ~Served(c, r) /\ ~FinSent(c, r)
                         /\ ~Pending(c, r)' /\ Greeted(c, r)' /\ Asking(c, r)'
  BY <1>0, <1>1, <1>2, <1>3, <1>5, PostRequestView DEF AllTypes
<1>7. msgOffset[c][q] = NodeId[c] /\ <<c, q>> \notin rnr
  BY <1>2, <1>6 DEF GreetInv, ClientInv
<1>8. /\ wire' = [wire EXCEPT ![c][q] = Append(@, m)]
      /\ wire'[c][q] = Append(wire[c][q], m)
      /\ \A d \in Clients, r \in Receivers : d # c \/ r # q => wire'[d][r] = wire[d][r]
      /\ wire[c][q] \in Seq(RequestMsgs) /\ Append(wire[c][q], m) \in Seq(RequestMsgs)
  BY <1>1, <1>2, <1>4, <1>7 DEF AllTypes, FabricTypes
<1>9. AllTypes'
  <2>1. ClientTypes'
    BY <1>1, <1>2, ModeStays DEF AllTypes, ClientTypes, ClientStates
  <2>2. FabricTypes'
    BY <1>1, <1>2, <1>8, ModeStays DEF AllTypes, FabricTypes
  <2>3. HistoryTypes'
    BY <1>1, <1>2, <1>3, ModeStays DEF AllTypes, HistoryTypes
  <2> QED
    BY <1>1, <1>2, <2>1, <2>2, <2>3, TypesStay DEF AllTypes
<1>10. ClientInv(c)'
  <2>1. Running' = Running /\ Requests' = Requests /\ \A r \in Receivers : Greeted(c, r)' => Greeted(c, r)
    BY <1>6, ModeStays DEF SameView
  <2> QED
    BY <1>1, <1>2, <1>3, <1>5, <2>1 DEF ClientInv
<1>11. area[c].flag = 0 /\ AreaInv(c)'
  <2>1. area[c].flag = 0
    BY <1>1, <1>2, ClientIs DEF AreaInv, AllTypes
  <2> QED
    BY <1>1, <2>1 DEF AreaInv
<1>12. ASSUME NEW r \in Receivers PROVE RqInv(c, r)'
  <2>1. Pending(c, r)' => Pending(c, r)
    BY <1>6 DEF SameView
  <2> QED
    BY <1>1, <1>2, <2>1, RqStays
<1>13. GreetInv(c, q)'
  <2>1. connected' = connected /\ rpc' = rpc /\ rnr' = rnr /\ replied' = replied
    BY <1>1 DEF receiverVars
  <2>2. Replied(c, q)' <=> Replied(c, q)
    BY <2>1 DEF Replied
  <2> QED
    BY <1>2, <1>6, <1>7, <2>1, <2>2 DEF GreetInv
<1>14. SentBy(c, q, m)'
  <2>1. destinationNode(c)' = destinationNode(c)
    BY ModeStays
  <2>2. Request(c)' = m.body
    BY <1>4, <1>5, <2>1 DEF Request
  <2> QED
    BY <1>4, <1>6, <2>2 DEF SentBy
<1>15. /\ UNCHANGED <<receiverVars, back, rnr>> /\ rcq'[c] = rcq[c] /\ area'[c] = area[c]
       /\ m.stage = "whole" /\ m.verb = RequestVerb /\ m.at = NodeId[c]
       /\ ~Asking(c, q) /\ ~FinSent(c, q) /\ ~Pending(c, q) /\ ~Served(c, q)
       /\ \A r \in Receivers : RqInv(c, r)' /\ (r # q => SameView(c, r))
  BY <1>1, <1>4, <1>6, <1>7, <1>12
<1> QED
  BY ONLY IInv, mode' = mode, <1>5, <1>8, <1>9, <1>10, <1>11, <1>13, <1>14, <1>15, PostKeeps

\* FinishedExp is the last message of its client to that receiver.
LEMMA SendFinishedKeeps ==
  ASSUME IInv, mode' = mode, NEW c \in Clients, SendFinished(c) PROVE IInv'
<1>0. PICK q \in Receivers : q = Running[ri[c]]
  BY RunningIsKnown DEF IInv, AllTypes, ClientInv
<1> DEFINE msg == [type |-> "FinishedExp", verb |-> RequestVerb, at |-> msgOffset[c][q],
                   body |-> NoBody, stage |-> "whole"]
<1>1. /\ cpc[c] = "finish" /\ cpc' = [cpc EXCEPT ![c] = "finishAck"]
      /\ wire' = (IF <<c, q>> \in rnr THEN wire ELSE [wire EXCEPT ![c][q] = Append(@, msg)])
      /\ UNCHANGED <<ri, msgOffset, i, picked, expId, area, rq, rcq, receiverVars, back, rnr, historyVars>>
  BY <1>0 DEF SendFinished, ClientGoto, Post, recvIds
<1>2. AllTypes /\ ClientInv(c) /\ AreaInv(c)
      /\ \A r \in Receivers : RqInv(c, r) /\ GreetInv(c, r)
  BY DEF IInv, ResponseInv, RequestInv
<1>3. PICK m \in RequestMsgs : m = msg
  BY <1>2, NoBodyFits, ClientIs, ModeIsKnown DEF RequestMsgs, AllTypes, Types
<1>4. cpc'[c] = "finishAck" /\ \A d \in Clients \ {c} : SameClient(d)
  BY <1>1, <1>2 DEF SameClient, AllTypes, ClientTypes, historyVars
<1>5. ASSUME NEW r \in Receivers
      PROVE  /\ r # q => SameView(c, r)
             /\ r = q => /\ ~Pending(c, r) /\ Greeted(c, r) /\ ~Asking(c, r) /\ ~Served(c, r) /\ ~FinSent(c, r)
                         /\ ~Pending(c, r)' /\ Greeted(c, r)' /\ FinSent(c, r)'
  BY <1>0, <1>1, <1>2, <1>4, SendFinishedView DEF AllTypes, historyVars
<1>6. msgOffset[c][q] = NodeId[c] /\ <<c, q>> \notin rnr
  BY <1>2, <1>5 DEF GreetInv, ClientInv
<1>7. /\ wire' = [wire EXCEPT ![c][q] = Append(@, m)]
      /\ wire'[c][q] = Append(wire[c][q], m)
      /\ \A d \in Clients, r \in Receivers : d # c \/ r # q => wire'[d][r] = wire[d][r]
      /\ wire[c][q] \in Seq(RequestMsgs) /\ Append(wire[c][q], m) \in Seq(RequestMsgs)
  BY <1>1, <1>2, <1>3, <1>6 DEF AllTypes, FabricTypes
<1>8. AllTypes'
  <2>1. ClientTypes'
    BY <1>1, <1>2, ModeStays DEF AllTypes, ClientTypes, ClientStates
  <2>2. FabricTypes'
    BY <1>1, <1>2, <1>7, ModeStays DEF AllTypes, FabricTypes
  <2> QED
    BY <1>1, <1>2, <2>1, <2>2, TypesStay DEF AllTypes
<1>9. ClientInv(c)'
  <2>1. Running' = Running /\ \A r \in Receivers : Greeted(c, r)' => Greeted(c, r)
    BY <1>5, ModeStays DEF SameView
  <2> QED
    BY <1>1, <1>2, <1>4, <2>1 DEF ClientInv, historyVars
<1>10. AreaInv(c)'
  BY <1>1, <1>2 DEF AreaInv
<1>11. ASSUME NEW r \in Receivers PROVE RqInv(c, r)'
  <2>1. Pending(c, r)' => Pending(c, r)
    BY <1>5 DEF SameView
  <2> QED
    BY <1>1, <1>2, <1>4, <2>1, RqStays
<1>12. GreetInv(c, q)'
  <2>1. connected' = connected /\ rpc' = rpc /\ rnr' = rnr /\ replied' = replied
    BY <1>1 DEF receiverVars
  <2>2. Replied(c, q)' <=> Replied(c, q)
    BY <2>1 DEF Replied
  <2> QED
    BY <1>2, <1>5, <1>6, <2>1, <2>2 DEF GreetInv
<1>13. SentBy(c, q, m)'
  BY <1>3, <1>5 DEF SentBy
<1>14. /\ UNCHANGED <<receiverVars, back, rnr>> /\ rcq'[c] = rcq[c] /\ area'[c] = area[c]
       /\ m.stage = "whole" /\ m.verb = RequestVerb /\ m.at = NodeId[c]
       /\ ~Asking(c, q) /\ ~FinSent(c, q) /\ ~Pending(c, q) /\ ~Served(c, q)
       /\ \A r \in Receivers : RqInv(c, r)' /\ (r # q => SameView(c, r))
  BY <1>1, <1>3, <1>5, <1>6, <1>11
<1> QED
  BY ONLY IInv, mode' = mode, <1>4, <1>7, <1>8, <1>9, <1>10, <1>12, <1>13, <1>14, PostKeeps

-----------------------------------------------------------------------------
(***************************************************************************)
(* Steps at one receiver, which its thread or the fabric takes.            *)
(***************************************************************************)
LEMMA ReceiverStepKeeps ==
  ASSUME IInv, AllTypes', mode' = mode, NEW s \in Receivers, UNCHANGED <<clientVars, historyVars>>,
         \A r \in Receivers \ {s} : LocalStays(r) /\ back'[r] = back[r],
         \A d \in Clients, r \in Receivers \ {s} :
            wire'[d][r] = wire[d][r] /\ (<<d, r>> \in rnr' => <<d, r>> \in rnr),
         ReceiverInv(s)', \A d \in Clients : RequestInv(d, s)' /\ RcqInv(d, s)' /\ BackInv(d, s)'
  PROVE  IInv'
<1>1. ASSUME NEW d \in Clients PROVE SameClient(d)
  BY DEF SameClient, clientVars, historyVars
<1>2. ASSUME NEW d \in Clients
      PROVE  ClientInv(d)' /\ AreaInv(d)' /\ \A r \in Receivers : SameView(d, r) /\ RqInv(d, r)'
  BY <1>1, OthersStay
<1>3. ASSUME NEW d \in Clients, NEW r \in Receivers PROVE RequestInv(d, r)' /\ ResponseInv(d, r)'
  <2>1. CASE r = s
    BY <1>2, <2>1 DEF ResponseInv
  <2>2. CASE r # s
    BY <1>1, <2>2, OtherClientStays
  <2> QED
    BY <2>1, <2>2
<1>4. ASSUME NEW r \in Receivers PROVE ReceiverInv(r)'
  <2>1. CASE r = s
    BY <2>1
  <2>2. CASE r # s
    <3>1. \A d \in Clients : (FinSent(d, r)' <=> FinSent(d, r)) /\ wire'[d][r] = wire[d][r]
      BY <1>2, <2>2 DEF SameView
    <3>2. ReceiverInv(r) /\ LocalStays(r)
      BY <2>2 DEF IInv
    <3> QED
      BY <3>1, <3>2, ReceiverStays
  <2> QED
    BY <2>1, <2>2
<1> QED
  BY <1>2, <1>3, <1>4 DEF IInv

\* A step of the thread alone, outside of the wait for an acknowledgement.
LEMMA ThreadStepKeeps ==
  ASSUME IInv, AllTypes', mode' = mode, NEW s \in Receivers,
         UNCHANGED <<clientVars, fabricVars, historyVars>>, rpc[s] # "replyAck",
         \A r \in Receivers \ {s} : LocalStays(r),
         ReceiverInv(s)', \A d \in Clients : RequestInv(d, s)',
         \A d \in Clients : Replied(d, s) => Replied(d, s)'
  PROVE  IInv'
<1>1. wire' = wire /\ back' = back /\ rnr' = rnr /\ rcq' = rcq /\ area' = area
  BY DEF fabricVars, clientVars
<1>2. ASSUME NEW d \in Clients PROVE RcqInv(d, s)' /\ BackInv(d, s)'
  <2>1. SameClient(d) /\ RcqInv(d, s) /\ BackInv(d, s)
    BY DEF SameClient, clientVars, historyVars, IInv, ResponseInv
  <2>2. AnswerKept(d, s)
    BY <2>1, OthersStay, SameViewIsKept
  <2>3. RcqInv(d, s)'
    BY <1>1, <2>1, <2>2, RcqStays
  <2>4. BackInv(d, s)'
    <3>1. ResponseVerb' = ResponseVerb /\ destinationNode(d)' = destinationNode(d) /\ Nodes' = Nodes
      BY ModeStays DEF Nodes, Processes
    <3> QED
      BY <1>1, <2>1, <2>2, <3>1 DEF BackInv, AnswerKept
  <2> QED
    BY <2>3, <2>4
<1> QED
  BY <1>1, <1>2, ReceiverStepKeeps

\* What does not change for a client when only the receiver has moved.
LEMMA ThreadStepIs ==
  ASSUME IInv, mode' = mode, UNCHANGED <<clientVars, historyVars>>, NEW c \in Clients,
         NEW s \in Receivers
  PROVE  /\ SameView(c, s) /\ AskKept(c, s) /\ AnswerKept(c, s)
         /\ (Pending(c, s)' <=> Pending(c, s)) /\ (Greeted(c, s)' <=> Greeted(c, s))
         /\ (FinSent(c, s)' <=> FinSent(c, s))
         /\ RequestInv(c, s) /\ WireInv(c, s) /\ CqInv(c, s) /\ SlotInv(c, s) /\ HeldInv(c, s)
         /\ GreetInv(c, s) /\ RcqInv(c, s) /\ RqInv(c, s) /\ BackInv(c, s) /\ AreaInv(c)
         /\ ReceiverPoll' = ReceiverPoll /\ EarlyInit' = EarlyInit
<1>1. SameClient(c)
  BY DEF SameClient, clientVars, historyVars
<1>2. SameView(c, s)
  BY <1>1, OthersStay
<1>3. AskKept(c, s) /\ AnswerKept(c, s)
  BY <1>2, SameViewIsKept
<1>4. RequestInv(c, s) /\ ResponseInv(c, s) /\ AreaInv(c)
  BY DEF IInv
<1> QED
  BY <1>2, <1>3, <1>4, ModeStays DEF SameView, RequestInv, ResponseInv

\* Before its request buffer is ready, a receiver has answered nobody.
LEMMA EarlyPhase ==
  ASSUME IInv, NEW s \in Receivers, ~Past(s), NEW c \in Clients
  PROVE  /\ ~Replied(c, s) /\ ~Greeted(c, s) /\ ~Asking(c, s) /\ ~Served(c, s) /\ ~FinSent(c, s)
         /\ ~Working(s) /\ \A m : ~SentBy(c, s, m)
<1>1. AllTypes /\ ClientInv(c) /\ GreetInv(c, s) /\ PhaseInv(s)
  BY DEF IInv, RequestInv, ReceiverInv
<1>2. connected[s] \in Seq(Clients) /\ replied[s] = 0 /\ rpc[s] # "replyAck"
  BY <1>1, ReceiverIs DEF PhaseInv, Past, AllTypes
<1>3. \A k \in DOMAIN connected[s] : k \in Nat /\ k >= 1
  BY <1>2, SeqIs
<1>4. ~Replied(c, s)
  BY <1>2, <1>3 DEF Replied
<1>5. ~Greeted(c, s) /\ ~Asking(c, s) /\ ~Served(c, s) /\ ~FinSent(c, s)
  BY <1>1, <1>4, ViewsExclude DEF GreetInv, AllTypes
<1> QED
  BY <1>4, <1>5 DEF Past, Working, SentBy

\* The completions of a receiver are those of clients.
LEMMA CqIs ==
  ASSUME IInv, NEW s \in Receivers
  PROVE  /\ cq[s] \in Seq(Completions) /\ Len(cq[s]) \in Nat /\ DOMAIN cq[s] = 1 .. Len(cq[s])
         /\ \A k \in DOMAIN cq[s] : /\ cq[s][k].node \in Clients /\ InCq(cq[s][k].node, s)
                                    /\ CqInv(cq[s][k].node, s)
         /\ (\A c \in Clients : ~InCq(c, s)) => cq[s] = <<>>
         /\ ReceiverPoll = "BUF" /\ Past(s) => cq[s] = <<>>
         /\ rpc[s] = "start" => cq[s] = <<>>
<1>1. cq[s] \in Seq(Completions)
  BY ReceiverIs DEF IInv, AllTypes
<1>2. Len(cq[s]) \in Nat /\ DOMAIN cq[s] = 1 .. Len(cq[s]) /\ (cq[s] # <<>> => 1 \in DOMAIN cq[s])
  BY <1>1, SeqIs
<1>3. \A k \in DOMAIN cq[s] : cq[s][k].node \in Clients
  <2>1. \A k \in DOMAIN cq[s] : cq[s][k] \in Completions
    BY <1>1, SeqIs
  <2> QED
    BY <2>1 DEF Completions
<1>4. \A k \in DOMAIN cq[s] : InCq(cq[s][k].node, s) /\ CqInv(cq[s][k].node, s)
  BY <1>3 DEF InCq, IInv, RequestInv
<1>5. \A k \in DOMAIN cq[s] : rpc[s] = "initPoll" \/ (Past(s) /\ ReceiverPoll = "SRQ")
  BY <1>4 DEF CqInv
<1>6. rpc[s] = "initPoll" \/ rpc[s] = "start" => ~Past(s)
  BY DEF Past
<1> QED
  BY <1>1, <1>2, <1>3, <1>4, <1>5, <1>6

-----------------------------------------------------------------------------
(***************************************************************************)
(* The init phase of a receiver.                                           *)
(***************************************************************************)
LEMMA PostInitReceivesKeeps ==
  ASSUME IInv, mode' = mode, NEW s \in Receivers, PostInitReceives(s) PROVE IInv'
<1>1. /\ rpc[s] = "start" /\ rpc' = [rpc EXCEPT ![s] = "initPoll"]
      /\ srq' = [srq EXCEPT ![s] = @ \o receiveBatch("init", expectedClients)]
      /\ UNCHANGED <<connected, slot, initBuf, replied, cq, cur, filledFrom, respBuffer, clientsFinished,
                     handledRequests, clientVars, fabricVars, historyVars>>
  BY DEF PostInitReceives, ReceiverGoto, receiveSRQ
<1>2. AllTypes /\ ReceiverInv(s) /\ StepInv(s) /\ PhaseInv(s) /\ SrqInv(s) /\ FinishInv(s)
  BY DEF IInv, ReceiverInv
<1> DEFINE n == expectedClients
           batch == receiveBatch("init", n)
<1>3. n \in Nat \ {0} /\ connected[s] = <<>> /\ srq[s] = <<>> /\ cq[s] = <<>>
  BY <1>1, <1>2, ClientsAreCounted, CqIs DEF PhaseInv, SrqInv
<1>4. /\ batch \in Seq(Receives) /\ Len(batch) = n /\ DOMAIN batch = 1 .. n
      /\ \A k \in 1 .. n : batch[k].buf = "init" /\ batch[k].idx < n
  <2>1. batch = [k \in 1 .. n |-> [buf |-> "init", idx |-> k - 1]]
    BY DEF receiveBatch
  <2>2. \A k \in 1 .. n : [buf |-> "init", idx |-> k - 1] \in Receives
    BY <1>3 DEF Receives
  <2> HIDE DEF batch, n
  <2>3. batch \in [1 .. n -> Receives]
    BY <2>1, <2>2
  <2> QED
    BY <1>3, <2>1, <2>3
<1> HIDE DEF batch, n
<1>5. /\ srq'[s] = batch /\ rpc'[s] = "initPoll"
      /\ srq' \in [Receivers -> Seq(Receives)] /\ rpc' \in [Receivers -> ReceiverStates]
      /\ \A r \in Receivers \ {s} : LocalStays(r)
  BY SMTT(30), <1>1, <1>2, <1>3, <1>4
     DEF AllTypes, ReceiverTypes, LocalStays, ReceiverStates, batch, n
<1>6. AllTypes'
  <2>1. ReceiverTypes'
    BY <1>1, <1>2, <1>5, ModeStays DEF AllTypes, ReceiverTypes, SlotTypes
  <2> QED
    BY <1>1, <1>2, <2>1, TypesStay DEF AllTypes
<1>7. ~Past(s) /\ ~Past(s)' /\ ~Working(s)' /\ Counting(s)' = 0 /\ Counting(s) = 0
  BY <1>1, <1>5 DEF Past, Working, Counting
<1>8. ASSUME NEW c \in Clients
      PROVE  RequestInv(c, s)' /\ ~Replied(c, s) /\ ~FinSent(c, s) /\ ~FinSent(c, s)'
  <2>1. ~Replied(c, s) /\ ~Greeted(c, s) /\ ~FinSent(c, s) /\ ~Held(c, s)
    BY <1>7, EarlyPhase DEF Held
  <2>2. ~Held(c, s)' /\ ~InCq(c, s)' /\ ~InCq(c, s)
    BY <1>1, <1>3, <1>7 DEF Held, InCq
  <2>3. WireInv(c, s)'
    BY <1>1, <2>1, <2>2, ThreadStepIs, WireStays DEF fabricVars
  <2>4. CqInv(c, s)' /\ HeldInv(c, s)'
    BY <2>2 DEF CqInv, InCq, HeldInv
  <2>5. SlotInv(c, s)'
    BY <1>1, <1>7, ThreadStepIs, SlotStays
  <2>6. GreetInv(c, s)'
    BY <1>1, <1>5, <2>1, <2>2, ThreadStepIs DEF GreetInv, fabricVars
  <2>7. FinSent(c, s)' <=> FinSent(c, s)
    BY <1>1, ThreadStepIs
  <2> QED
    BY <2>1, <2>3, <2>4, <2>5, <2>6, <2>7 DEF RequestInv
<1>9. ReceiverInv(s)'
  <2>1. ReceiverPoll' = ReceiverPoll
    BY ModeStays
  <2>2. StepInv(s)'
    BY <1>1, <1>2, <1>5, <1>7, <2>1 DEF StepInv
  <2>3. PhaseInv(s)'
    <3>1. Len(connected[s]) = 0
      BY <1>3
    <3>2. 0 < expectedClients
      BY <1>3 DEF n
    <3> QED
      BY <1>1, <1>2, <1>5, <1>7, <3>1, <3>2 DEF PhaseInv
  <2>4. SrqInv(s)'
    <3>1. Len(srq'[s]) + Len(cq'[s]) + Len(connected'[s]) = n
      BY <1>1, <1>3, <1>4, <1>5
    <3> QED
      BY <1>4, <1>5, <1>7, <3>1 DEF SrqInv, n
  <2>5. IndexInv(s)' /\ CountInv(s)'
    BY <1>7 DEF IndexInv, CountInv
  <2>6. Counted(s)' = Counted(s)
    BY <1>8 DEF Counted
  <2>7. FinishInv(s)'
    BY <1>1, <1>2, <1>7, <2>6 DEF FinishInv
  <2> QED
    BY <2>2, <2>3, <2>4, <2>5, <2>7 DEF ReceiverInv
<1>10. \A d \in Clients : RequestInv(d, s)' /\ (Replied(d, s) => Replied(d, s)')
  BY <1>8
<1>11. rpc[s] # "replyAck" /\ UNCHANGED <<clientVars, fabricVars, historyVars>>
  BY <1>1
<1> QED
  BY <1>5, <1>6, <1>9, <1>10, <1>11, ThreadStepKeeps

\* An Init message counts its sender.
LEMMA PollInitKeeps ==
  ASSUME IInv, mode' = mode, NEW s \in Receivers, PollInit(s) PROVE IInv'
<1>1. AllTypes /\ ReceiverInv(s) /\ StepInv(s) /\ PhaseInv(s) /\ SrqInv(s) /\ FinishInv(s)
  BY DEF IInv, ReceiverInv
<1>2. rpc[s] = "initPoll" /\ cq[s] # <<>> /\ ~Past(s)
  BY DEF PollInit, pollReceiveSRQ, ReceiverGoto, Past
<1>3. /\ cq[s] \in Seq(Completions) /\ Head(cq[s]) = cq[s][1] /\ Head(cq[s]) \in Completions
      /\ Tail(cq[s]) \in Seq(Completions) /\ Len(cq[s]) \in Nat \ {0} /\ 1 \in DOMAIN cq[s]
      /\ Len(Tail(cq[s])) = Len(cq[s]) - 1
      /\ DOMAIN cq[s] = 1 .. Len(cq[s]) /\ DOMAIN Tail(cq[s]) = 1 .. Len(cq[s]) - 1
      /\ \A k \in DOMAIN Tail(cq[s]) : k + 1 \in DOMAIN cq[s] /\ Tail(cq[s])[k] = cq[s][k + 1]
  <2>1. cq[s] \in Seq(Completions)
    BY <1>1, ReceiverIs DEF AllTypes
  <2> QED
    BY <1>2, <2>1, TailIs
<1>4. PICK e \in Completions : e = cq[s][1]
  BY <1>3
<1>5. PICK d \in Clients : d = e.node
  BY DEF Completions
<1>6. /\ initBuf[s][e.idx] = "InitExp" /\ Pending(d, s) /\ d \notin ToSet(connected[s])
      /\ \A l \in DOMAIN cq[s] : cq[s][l].node = d => l = 1
      /\ InCq(d, s)
  <2>1. CqInv(d, s) /\ InCq(d, s)
    BY <1>3, <1>4, <1>5, CqIs
  <2> QED
    BY <1>2, <1>3, <1>4, <1>5, <2>1 DEF CqInv
<1> DEFINE n == expectedClients
           senders == Append(connected[s], d)
<1>7. /\ rpc' = [rpc EXCEPT ![s] = IF Len(senders) = n THEN "prepare" ELSE "initPoll"]
      /\ cq' = [cq EXCEPT ![s] = Tail(@)] /\ connected' = [connected EXCEPT ![s] = senders]
      /\ UNCHANGED <<slot, initBuf, replied, srq, cur, filledFrom, respBuffer, clientsFinished,
                     handledRequests, clientVars, fabricVars, historyVars>>
  BY <1>3, <1>4, <1>5, <1>6 DEF PollInit, pollReceiveSRQ, ReceiverGoto
<1>8. /\ connected[s] \in Seq(Clients) /\ senders \in Seq(Clients) /\ Len(senders) = Len(connected[s]) + 1
      /\ Len(connected[s]) \in Nat /\ n \in Nat \ {0}
      /\ DOMAIN connected[s] = 1 .. Len(connected[s]) /\ DOMAIN senders = 1 .. Len(connected[s]) + 1
      /\ \A k \in DOMAIN connected[s] : senders[k] = connected[s][k]
      /\ senders[Len(connected[s]) + 1] = d
  <2>1. connected[s] \in Seq(Clients)
    BY <1>1, ReceiverIs DEF AllTypes
  <2> QED
    BY <2>1, ClientsAreCounted, AppendIs
<1>9. \A c : c \in ToSet(senders) <=> c = d \/ c \in ToSet(connected[s])
  <2>1. ToSet(senders) = {senders[k] : k \in 1 .. Len(connected[s]) + 1}
    BY <1>8 DEF ToSet
  <2>2. ToSet(connected[s]) = {connected[s][k] : k \in 1 .. Len(connected[s])}
    BY <1>8 DEF ToSet
  <2> QED
    BY <1>8, <2>1, <2>2
<1> HIDE DEF senders, n
<1>10. /\ connected'[s] = senders /\ cq'[s] = Tail(cq[s])
       /\ rpc'[s] = (IF Len(senders) = n THEN "prepare" ELSE "initPoll")
       /\ \A r \in Receivers \ {s} : LocalStays(r)
  BY <1>1, <1>7 DEF AllTypes, ReceiverTypes, LocalStays
<1>11. AllTypes'
  <2>1. ReceiverTypes'
    BY <1>1, <1>3, <1>7, <1>8, ModeStays DEF AllTypes, ReceiverTypes, SlotTypes, ReceiverStates
  <2> QED
    BY <1>1, <1>7, <2>1, TypesStay DEF AllTypes
<1>12. ~Past(s)' /\ ~Working(s)' /\ Counting(s)' = 0 /\ Counting(s) = 0
  BY <1>2, <1>10 DEF Past, Working, Counting
<1>13. Len(srq'[s]) + Len(cq'[s]) + Len(connected'[s]) = n /\ Len(srq'[s]) \in Nat /\ srq'[s] = srq[s]
  <2>1. Len(srq[s]) + Len(cq[s]) + Len(connected[s]) = n /\ srq' = srq
    BY <1>1, <1>2, <1>7 DEF SrqInv, n
  <2>2. Len(srq[s]) \in Nat
    BY <1>1, ReceiverIs, SeqIs DEF AllTypes
  <2>3. Len(cq'[s]) = Len(cq[s]) - 1 /\ Len(cq[s]) \in Nat
    BY <1>3, <1>10
  <2>4. Len(connected'[s]) = Len(connected[s]) + 1 /\ Len(connected[s]) \in Nat /\ n \in Nat
    BY <1>8, <1>10
  <2>6. Len(srq[s]) + (Len(cq[s]) - 1) + (Len(connected[s]) + 1) = n
    <3>1. PICK a \in Nat : a = Len(srq[s])
      BY <2>2
    <3>2. PICK b \in Nat : b = Len(cq[s])
      BY <2>3
    <3>3. PICK k \in Nat : k = Len(connected[s])
      BY <2>4
    <3>4. a + b + k = n
      BY <2>1, <3>1, <3>2, <3>3
    <3>5. a + (b - 1) + (k + 1) = n
      BY <2>4, <3>4
    <3> QED
      BY <3>1, <3>2, <3>3, <3>5
  <2>7. srq'[s] = srq[s]
    BY <2>1
  <2> QED
    BY <2>2, <2>3, <2>4, <2>6, <2>7, Zenon
<1>14. rpc'[s] = "prepare" => cq'[s] = <<>> /\ srq'[s] = <<>>
  <2>1. SUFFICES ASSUME rpc'[s] = "prepare" PROVE cq'[s] = <<>> /\ srq'[s] = <<>>
    OBVIOUS
  <2>2. Len(connected'[s]) = n
    BY <1>10, <2>1
  <2>3. Len(cq'[s]) = 0 /\ Len(srq'[s]) = 0
    <3>1. Len(cq'[s]) \in Nat /\ n \in Nat
      BY <1>3, <1>8, <1>10
    <3>2. \A a, b, z \in Nat : a + b + z = z => a = 0 /\ b = 0
      OBVIOUS
    <3> QED
      BY ONLY <1>13, <2>2, <3>1, <3>2, Zenon
  <2>4. cq'[s] \in Seq(Completions) /\ srq'[s] \in Seq(Receives)
    BY <1>1, <1>3, <1>10, <1>13, ReceiverIs DEF AllTypes
  <2> QED
    BY <2>3, <2>4, SeqIs
<1>15. ASSUME NEW c \in Clients
       PROVE  /\ RequestInv(c, s)' /\ ~Replied(c, s) /\ ~FinSent(c, s) /\ ~FinSent(c, s)'
  <2>1. ~Replied(c, s) /\ ~Greeted(c, s) /\ ~FinSent(c, s) /\ ~Held(c, s) /\ ~Held(c, s)'
    BY <1>2, <1>12, EarlyPhase DEF Held
  <2>2. InCq(c, s)' <=> InCq(c, s) /\ c # d
    <3>1. InCq(c, s)' <=> \E k \in DOMAIN Tail(cq[s]) : Tail(cq[s])[k].node = c
      BY <1>10 DEF InCq
    <3>2. \A k \in DOMAIN Tail(cq[s]) : k \in Nat /\ k + 1 # 1
      BY <1>3
    <3>3. InCq(c, s)' => InCq(c, s) /\ c # d
      BY <1>3, <1>6, <3>1, <3>2 DEF InCq
    <3>4. ASSUME InCq(c, s), c # d PROVE InCq(c, s)'
      <4>1. PICK k \in DOMAIN cq[s] : cq[s][k].node = c
        BY <3>4 DEF InCq
      <4>2. k # 1 /\ k - 1 \in DOMAIN Tail(cq[s]) /\ (k - 1) + 1 = k
        BY <1>3, <1>4, <1>5, <3>4, <4>1
      <4> QED
        BY <1>3, <3>1, <4>1, <4>2
    <3> QED
      BY <3>3, <3>4
  <2>3. WireInv(c, s)'
    <3>1. wire' = wire /\ WireInv(c, s) /\ AskKept(c, s) /\ ReceiverPoll' = ReceiverPoll /\ slot' = slot
      BY <1>7, ThreadStepIs DEF fabricVars
    <3>2. CASE c = d
      <4>1. DOMAIN wire[c][s] = {}
        BY <1>6, <3>1, <3>2 DEF WireInv
      <4> QED
        BY <3>1, <4>1 DEF WireInv
    <3>3. CASE c # d
      <4>1. c \in ToSet(connected'[s]) => c \in ToSet(connected[s])
        BY <1>9, <1>10, <3>3
      <4>2. \A m : ~SentBy(c, s, m)
        BY <1>2, EarlyPhase
      <4> QED
        BY <2>1, <2>2, <3>1, <4>1, <4>2 DEF WireInv, AskKept
    <3> QED
      BY <3>2, <3>3
  <2>4. CqInv(c, s)'
    <3>1. SUFFICES ASSUME NEW k \in DOMAIN Tail(cq[s]), Tail(cq[s])[k].node = c
                   PROVE  /\ \A l \in DOMAIN Tail(cq[s]) : Tail(cq[s])[l].node = c => l = k
                          /\ rpc'[s] = "initPoll" /\ Tail(cq[s])[k].buf = "init"
                          /\ Tail(cq[s])[k].idx \in 0 .. expectedClients - 1
                          /\ initBuf[s][Tail(cq[s])[k].idx] = "InitExp"
                          /\ Pending(c, s)' /\ c \notin ToSet(senders)
      BY <1>7, <1>10, <2>1 DEF CqInv
    <3>2. k + 1 \in DOMAIN cq[s] /\ Tail(cq[s])[k] = cq[s][k + 1] /\ k \in Nat /\ k + 1 # 1
      BY <1>3
    <3>3. CqInv(c, s) /\ AskKept(c, s) /\ c # d
      BY <1>6, <1>7, <3>1, <3>2, ThreadStepIs
    <3>4. /\ \A l \in DOMAIN cq[s] : cq[s][l].node = c => l = k + 1
          /\ Tail(cq[s])[k].buf = "init"
          /\ Tail(cq[s])[k].idx \in 0 .. expectedClients - 1
          /\ initBuf[s][Tail(cq[s])[k].idx] = "InitExp"
          /\ Pending(c, s) /\ c \notin ToSet(connected[s])
      BY <1>2, <3>1, <3>2, <3>3 DEF CqInv
    <3>5. \A l \in DOMAIN Tail(cq[s]) : Tail(cq[s])[l].node = c => l = k
      BY <1>3, <3>2, <3>4
    <3>6. rpc'[s] = "initPoll"
      <4>1. Len(Tail(cq[s])) # 0
        BY <1>3
      <4> QED
        BY <1>10, <1>14, <4>1
    <3> QED
      BY <1>9, <3>3, <3>4, <3>5, <3>6 DEF AskKept
  <2>5. SlotInv(c, s)' /\ HeldInv(c, s)'
    BY <1>2, <1>7, <1>12, <2>1, ThreadStepIs, SlotStays DEF HeldInv
  <2>6. GreetInv(c, s)'
    <3>1. /\ GreetInv(c, s) /\ (Pending(c, s)' <=> Pending(c, s)) /\ (Greeted(c, s)' <=> Greeted(c, s))
          /\ EarlyInit' = EarlyInit /\ wire' = wire /\ rnr' = rnr
      BY <1>7, ThreadStepIs DEF fabricVars
    <3>2. c \in ToSet(connected'[s]) => Pending(c, s)
      BY <1>6, <1>9, <1>10, <2>1, <3>1 DEF GreetInv
    <3>3. <<c, s>> \in rnr => ~InCq(c, s)' /\ c \notin ToSet(connected'[s])
      BY <1>6, <1>9, <1>10, <2>2, <3>1 DEF GreetInv
    <3>4. rpc'[s] # "start"
      BY <1>10
    <3> QED
      BY <2>1, <3>1, <3>2, <3>3, <3>4 DEF GreetInv
  <2>7. FinSent(c, s)' <=> FinSent(c, s)
    BY <1>7, ThreadStepIs
  <2> QED
    BY <2>1, <2>3, <2>4, <2>5, <2>6, <2>7 DEF RequestInv
<1>16. ReceiverInv(s)'
  <2>1. ReceiverPoll' = ReceiverPoll
    BY ModeStays
  <2>2. StepInv(s)'
    BY <1>1, <1>7, <1>10, <1>12, <2>1 DEF StepInv
  <2>3. IsInjective(senders)
    <3>1. \A k, l \in DOMAIN connected[s] : connected[s][k] = connected[s][l] => k = l
      BY <1>1 DEF PhaseInv, IsInjective
    <3>2. \A k \in DOMAIN connected[s] : connected[s][k] # d
      BY <1>6 DEF ToSet
    <3>3. \A k \in DOMAIN senders : k \in DOMAIN connected[s] \/ k = Len(connected[s]) + 1
      BY <1>8
    <3>4. \A k, l \in DOMAIN senders : senders[k] = senders[l] => k = l
      BY <1>8, <3>1, <3>2, <3>3
    <3> QED
      BY <3>4 DEF IsInjective
  <2>4. PhaseInv(s)'
    <3>1. Len(senders) <= n /\ (Len(senders) = n => ToSet(senders) = Clients)
      BY <1>8, <2>3, ClientsAreCounted, InjectiveLen DEF n, expectedClients
    <3>2. rpc'[s] = "initPoll" => Len(senders) < n
      BY <1>8, <1>10, <3>1
    <3>3. rpc'[s] \in {"prepare", "initPoll"} /\ (rpc'[s] = "prepare" => Len(senders) = n)
      BY <1>10
    <3>4. replied' = replied /\ clientsFinished' = clientsFinished
      BY <1>7
    <3> QED
      BY <1>1, <1>2, <1>10, <1>12, <2>3, <3>1, <3>2, <3>3, <3>4 DEF PhaseInv, n
  <2>5. SrqInv(s)'
    <3>1. rpc'[s] # "start"
      BY <1>10
    <3> QED
      BY <1>1, <1>2, <1>12, <1>13, <1>14, <3>1 DEF SrqInv, n
  <2>6. IndexInv(s)' /\ CountInv(s)'
    BY <1>12 DEF IndexInv, CountInv
  <2>7. Counted(s)' = Counted(s)
    BY <1>15 DEF Counted
  <2>8. FinishInv(s)'
    BY <1>1, <1>7, <1>12, <2>7 DEF FinishInv
  <2> QED
    BY <2>2, <2>4, <2>5, <2>6, <2>8 DEF ReceiverInv
<1>17. \A c \in Clients : RequestInv(c, s)' /\ (Replied(c, s) => Replied(c, s)')
  BY <1>15
<1>18. rpc[s] # "replyAck" /\ UNCHANGED <<clientVars, fabricVars, historyVars>>
  BY <1>2, <1>7
<1> QED
  BY <1>10, <1>11, <1>16, <1>17, <1>18, ThreadStepKeeps

\* initReqBuffer(): every client has been heard, and none has sent anything else.
LEMMA PrepareReqBufferKeeps ==
  ASSUME IInv, mode' = mode, NEW s \in Receivers, PrepareReqBuffer(s) PROVE IInv'
<1> DEFINE L == reqBufferLength
           batch == receiveBatch("req", L)
           clear == [x \in Slots |-> [slot[s][x] EXCEPT !.type = "EMPTY"]]
<1>1. /\ rpc[s] = "prepare" /\ rpc' = [rpc EXCEPT ![s] = "reply"]
      /\ \/ ReceiverPoll = "BUF" /\ slot' = [slot EXCEPT ![s] = clear] /\ srq' = srq
         \/ ReceiverPoll # "BUF" /\ srq' = [srq EXCEPT ![s] = @ \o batch] /\ slot' = slot
      /\ UNCHANGED <<connected, initBuf, replied, cq, cur, filledFrom, respBuffer, clientsFinished,
                     handledRequests, clientVars, fabricVars, historyVars>>
  BY DEF PrepareReqBuffer, ReceiverGoto, receiveSRQ
<1>2. AllTypes /\ ReceiverInv(s) /\ StepInv(s) /\ PhaseInv(s) /\ SrqInv(s) /\ FinishInv(s)
  BY DEF IInv, ReceiverInv
<1>3. ~Past(s) /\ srq[s] = <<>> /\ ToSet(connected[s]) = Clients
  BY <1>1, <1>2 DEF Past, SrqInv, PhaseInv
<1>4. ASSUME NEW c \in Clients
      PROVE  /\ ~Replied(c, s) /\ ~Greeted(c, s) /\ ~FinSent(c, s) /\ ~Held(c, s)
             /\ wire[c][s] = <<>> /\ ~InCq(c, s)
             /\ ReceiverPoll = "BUF" => slot[s][NodeId[c]].type = "EMPTY"
  <2>1. ~Replied(c, s) /\ ~Greeted(c, s) /\ ~FinSent(c, s) /\ ~Asking(c, s)
    BY <1>3, EarlyPhase
  <2>2. RequestInv(c, s)
    BY DEF IInv
  <2> QED
    BY <1>2, <1>3, <2>1, <2>2, NothingSent
<1>5. cq[s] = <<>>
  BY <1>4, CqIs
<1>6. L \in Nat \ {0} /\ Slots = 0 .. L - 1
  BY MaxNodeIDIsKnown DEF reqBufferLength, Slots
<1>7. /\ batch \in Seq(Receives) /\ Len(batch) = L /\ DOMAIN batch = 1 .. L
      /\ \A k \in 1 .. L : batch[k].buf = "req" /\ batch[k].idx = k - 1
  <2>1. batch = [k \in 1 .. L |-> [buf |-> "req", idx |-> k - 1]]
    BY DEF receiveBatch
  <2>2. \A k \in 1 .. L : [buf |-> "req", idx |-> k - 1] \in Receives
    BY <1>6 DEF Receives
  <2> HIDE DEF batch, L
  <2>3. batch \in [1 .. L -> Receives]
    BY <2>1, <2>2
  <2> QED
    BY <1>6, <2>1, <2>3
<1>8. clear \in SlotTypes /\ \A x \in Slots : clear[x].type = "EMPTY"
  <2>1. \A x \in Slots : slot[s][x] \in [type : Types, body : Bodies]
    BY <1>2, ReceiverIs DEF AllTypes, SlotTypes
  <2>2. \A x \in Slots : [slot[s][x] EXCEPT !.type = "EMPTY"] \in [type : Types, body : Bodies]
    BY <2>1 DEF Types
  <2> QED
    BY <2>1, <2>2 DEF SlotTypes
<1> HIDE DEF batch, L, clear
<1>9. /\ rpc'[s] = "reply" /\ \A r \in Receivers \ {s} : LocalStays(r)
      /\ ReceiverPoll = "BUF" => slot'[s] = clear /\ srq'[s] = <<>>
      /\ ReceiverPoll # "BUF" => srq'[s] = batch /\ slot'[s] = slot[s]
  BY <1>1, <1>2, <1>3, <1>7 DEF AllTypes, ReceiverTypes, LocalStays
<1>10. AllTypes'
  <2>1. slot' \in [Receivers -> SlotTypes] /\ srq' \in [Receivers -> Seq(Receives)]
    <3>1. slot \in [Receivers -> SlotTypes] /\ srq \in [Receivers -> Seq(Receives)]
      BY <1>2 DEF AllTypes, ReceiverTypes
    <3>2. <<>> \o batch = batch
      BY <1>7
    <3> QED
      BY ZenonT(60), <1>1, <1>3, <1>7, <1>8, <3>1, <3>2
  <2>2. SlotTypes' = SlotTypes
    BY ModeStays DEF SlotTypes
  <2>3. ReceiverTypes'
    BY <1>1, <1>2, <2>1, <2>2, ModeStays DEF AllTypes, ReceiverTypes, ReceiverStates
  <2> QED
    BY <1>1, <1>2, <2>3, TypesStay DEF AllTypes
<1>11. Past(s)' /\ ~Working(s)' /\ ~Busy(s)' /\ Taken(s)' = 0 /\ Counting(s)' = 0 /\ Counting(s) = 0
  BY <1>1, <1>9 DEF Past, Working, Counting, Busy, Taken
<1>12. ASSUME NEW c \in Clients PROVE RequestInv(c, s)' /\ ~FinSent(c, s)'
  <2>1. ~Held(c, s)' /\ ~InCq(c, s)'
    BY <1>1, <1>4, <1>11 DEF Held, InCq
  <2>2. wire'[c][s] = <<>> /\ rnr' = rnr /\ connected' = connected
    BY <1>1, <1>4 DEF fabricVars
  <2>3. WireInv(c, s)'
    BY <2>2 DEF WireInv
  <2>4. CqInv(c, s)' /\ HeldInv(c, s)'
    BY <2>1 DEF CqInv, InCq, HeldInv
  <2>5. SlotInv(c, s)'
    <3>1. ReceiverPoll' = ReceiverPoll /\ NodeId[c] \in Slots
      BY ModeStays, MaxNodeIDIsKnown
    <3> QED
      BY <1>8, <1>9, <3>1 DEF SlotInv
  <2>6. GreetInv(c, s)'
    <3>1. /\ (Greeted(c, s)' <=> Greeted(c, s)) /\ (Pending(c, s)' <=> Pending(c, s))
          /\ GreetInv(c, s)
      BY <1>1, ThreadStepIs
    <3> QED
      BY <1>3, <1>4, <1>9, <2>2, <3>1 DEF GreetInv
  <2>7. FinSent(c, s)' <=> FinSent(c, s)
    BY <1>1, ThreadStepIs
  <2> QED
    BY <1>4, <2>3, <2>4, <2>5, <2>6, <2>7 DEF RequestInv
<1>13. ReceiverInv(s)'
  <2>1. ReceiverPoll' = ReceiverPoll /\ ReceiverPoll \in {"BUF", "SRQ"}
    BY <1>2, ModeStays, ModeIsKnown DEF AllTypes
  <2>2. StepInv(s)'
    BY <1>8, <1>9, <1>11, <2>1 DEF StepInv
  <2>3. PhaseInv(s)'
    <3>1. expectedClients \in Nat \ {0}
      BY ClientsAreCounted
    <3> QED
      BY <1>1, <1>2, <1>3, <1>9, <1>11, <3>1 DEF PhaseInv
  <2>4. SrqInv(s)'
    BY <1>9, <2>1 DEF SrqInv
  <2>5. IndexInv(s)'
    <3>1. SUFFICES ASSUME ReceiverPoll # "BUF" PROVE IndexInv(s)'
      BY <2>1 DEF IndexInv
    <3>2. srq'[s] = batch /\ DOMAIN cq'[s] = {}
      BY <1>1, <1>5, <1>9, <3>1
    <3>3. \A k, l \in DOMAIN batch : batch[k].buf = "req" /\ batch[k].idx \in Slots
                                      /\ (batch[l].idx = batch[k].idx => l = k)
      BY <1>6, <1>7
    <3> QED
      BY <1>11, <3>2, <3>3 DEF IndexInv
  <2>6. Counted(s) = {} /\ Counted(s)' = {}
    BY <1>4, <1>12 DEF Counted
  <2>7. FinishInv(s)' /\ clientsFinished[s] = 0
    <3>1. clientsFinished[s] \in Nat /\ Cardinality({}) = 0
      BY <1>2, ReceiverIs, FS_EmptySet DEF AllTypes
    <3> QED
      BY <1>1, <1>2, <1>11, <2>6, <3>1 DEF FinishInv
  <2>8. CountInv(s)'
    <3>1. SUFFICES ASSUME ReceiverPoll # "BUF" PROVE CountInv(s)'
      BY <2>1 DEF CountInv
    <3>2. Len(srq'[s]) = L /\ Len(cq'[s]) = 0 /\ clientsFinished'[s] = 0
      BY <1>1, <1>5, <1>7, <1>9, <2>7, <3>1
    <3> QED
      BY <1>6, <1>11, <3>2 DEF CountInv, L, reqBufferLength
  <2> QED
    BY <2>2, <2>3, <2>4, <2>5, <2>7, <2>8 DEF ReceiverInv
<1>14. \A c \in Clients : RequestInv(c, s)' /\ (Replied(c, s) => Replied(c, s)')
  BY <1>4, <1>12
<1>15. rpc[s] # "replyAck" /\ UNCHANGED <<clientVars, fabricVars, historyVars>>
  BY <1>1
<1> QED
  BY <1>9, <1>10, <1>13, <1>14, <1>15, ThreadStepKeeps

\* Steps of the thread between which its messages stay where they are: it is not at
\* work on a request before or after, and its buffers keep their contents.
LEMMA IdleRequestsStay ==
  ASSUME IInv, mode' = mode, UNCHANGED <<clientVars, historyVars>>, NEW s \in Receivers,
         NEW c \in Clients, Past(s), Past(s)', ~Working(s)', wire' = wire, rnr' = rnr,
         connected'[s] = connected[s], slot'[s] = slot[s], cq'[s] = cq[s],
         initBuf'[s] = initBuf[s], Replied(c, s) => Replied(c, s)'
  PROVE  RequestInv(c, s)'
<1>1. ~Held(c, s)' /\ (InCq(c, s)' <=> InCq(c, s))
  BY DEF Held, InCq
<1>2. WireInv(c, s)'
  BY <1>1, ThreadStepIs, WireStays
<1>3. CqInv(c, s)'
  BY <1>1, ThreadStepIs, CqStays
<1>4. SlotInv(c, s)' /\ HeldInv(c, s)'
  BY <1>1, ThreadStepIs, SlotStays DEF HeldInv
<1>5. GreetInv(c, s)'
  <2>1. rpc'[s] # "start"
    BY DEF Past
  <2> QED
    BY <1>1, <2>1, ThreadStepIs DEF GreetInv
<1> QED
  BY <1>2, <1>3, <1>4, <1>5 DEF RequestInv

\* The same for what the receiver keeps to itself.
LEMMA IdleReceiverStays ==
  ASSUME IInv, mode' = mode, UNCHANGED <<clientVars, historyVars>>, NEW s \in Receivers,
         Past(s), Past(s)', wire' = wire,
         rpc[s] \notin {"handle", "finalize", "transfer", "repost", "done"},
         rpc'[s] \notin {"handle", "finalize", "transfer", "repost", "done"},
         connected'[s] = connected[s], slot'[s] = slot[s], cq'[s] = cq[s], srq'[s] = srq[s],
         clientsFinished'[s] = clientsFinished[s]
  PROVE  StepInv(s)' /\ SrqInv(s)' /\ IndexInv(s)' /\ CountInv(s)' /\ FinishInv(s)'
<1>1. ReceiverPoll' = ReceiverPoll /\ StepInv(s) /\ SrqInv(s) /\ IndexInv(s) /\ CountInv(s) /\ FinishInv(s)
  BY ModeStays DEF IInv, ReceiverInv
<1>2. /\ ~Working(s)' /\ ~Busy(s)' /\ ~Busy(s) /\ Taken(s)' = 0 /\ Taken(s) = 0
      /\ Counting(s)' = 0 /\ Counting(s) = 0
  BY DEF Working, Busy, Taken, Counting
<1>3. StepInv(s)' /\ SrqInv(s)'
  BY <1>1, <1>2 DEF StepInv, SrqInv, Past
<1>4. IndexInv(s)' /\ CountInv(s)'
  <2>1. IndexInv(s)'
    BY <1>1, <1>2 DEF IndexInv
  <2>2. CountInv(s)'
    BY <1>1, <1>2 DEF CountInv
  <2> QED
    BY <2>1, <2>2
<1>5. \A c \in Clients : (FinSent(c, s)' <=> FinSent(c, s)) /\ (Waiting(c, s)' <=> Waiting(c, s))
  BY <1>1, ThreadStepIs DEF Waiting, InCq
<1>6. Counted(s)' = Counted(s)
  BY <1>5 DEF Counted
<1> QED
  BY <1>1, <1>2, <1>3, <1>4, <1>6 DEF FinishInv

\* A message is posted to a node.
LEMMA BackGrows ==
  ASSUME AllTypes, mode' = mode, NEW s \in Receivers, NEW n \in Nodes, NEW m \in ResponseMsgs,
         back' = [back EXCEPT ![s][n] = Append(@, m)]
  PROVE  /\ back' \in [Receivers -> [Nodes -> Seq(ResponseMsgs)]]
         /\ \A r \in Receivers \ {s} : back'[r] = back[r]
         /\ \A o \in Nodes : \A k \in DOMAIN back'[s][o] :
               \/ k \in DOMAIN back[s][o] /\ back'[s][o][k] = back[s][o][k]
               \/ o = n /\ k = Len(back[s][n]) + 1 /\ back'[s][o][k] = m
<1>1. /\ back \in [Receivers -> [Nodes -> Seq(ResponseMsgs)]] /\ back[s][n] \in Seq(ResponseMsgs)
      /\ Append(back[s][n], m) \in Seq(ResponseMsgs)
  BY DEF AllTypes, FabricTypes
<1>2. /\ back' \in [Receivers -> [Nodes -> Seq(ResponseMsgs)]]
      /\ \A r \in Receivers \ {s} : back'[r] = back[r]
      /\ \A o \in Nodes \ {n} : back'[s][o] = back[s][o]
      /\ back'[s][n] = Append(back[s][n], m)
  BY <1>1
<1>3. ASSUME NEW k \in DOMAIN back'[s][n]
      PROVE  \/ k \in DOMAIN back[s][n] /\ back'[s][n][k] = back[s][n][k]
             \/ k = Len(back[s][n]) + 1 /\ back'[s][n][k] = m
  BY <1>1, <1>2, AppendIs
<1> QED
  BY <1>2, <1>3

\* The only answer to a client is posted to its node, by a receiver that did not wait for
\* the acknowledgement of another one.
LEMMA AnswerPosted ==
  ASSUME IInv, mode' = mode, NEW s \in Receivers, NEW n \in Nodes, NEW m \in ResponseMsgs,
         back' = [back EXCEPT ![s][n] = Append(@, m)], rpc[s] # "replyAck",
         NEW c \in Clients, AnswerKept(c, s), rcq' = rcq, area' = area,
         m.ptr = c => /\ rcq[c][s] = <<>>
                      /\ \A o \in Nodes : \A k \in DOMAIN back[s][o] : back[s][o][k].ptr # c
                      /\ \/ /\ m.type = "InitExp" /\ m.verb = "SEND" /\ m.stage = "whole"
                            /\ n = c /\ m.at = NodeId[c] /\ Pending(c, s)'
                            /\ rpc'[s] = "replyAck" /\ connected'[s][replied'[s] + 1] = c
                         \/ /\ m.type = "ExpMsg" /\ m.verb = ResponseVerb /\ n = destinationNode(c)
                            /\ m.body = Request(c)' /\ Served(c, s)' /\ area[c].flag = 0
                            /\ m.stage = "whole"
  PROVE  BackInv(c, s)'
<1>1. BackInv(c, s) /\ AllTypes
  BY DEF IInv, ResponseInv
<1>2. ResponseVerb' = ResponseVerb /\ destinationNode(c)' = destinationNode(c) /\ Nodes' = Nodes
  BY ModeStays DEF Nodes, Processes
<1>3. \A o \in Nodes : \A k \in DOMAIN back'[s][o] :
         \/ k \in DOMAIN back[s][o] /\ back'[s][o][k] = back[s][o][k]
         \/ o = n /\ k = Len(back[s][n]) + 1 /\ back'[s][o][k] = m
  BY <1>1, BackGrows
<1>4. CASE m.ptr = c
  <2>1. \A o \in Nodes : \A k \in DOMAIN back'[s][o] : back'[s][o][k].ptr = c =>
           o = n /\ k = Len(back[s][n]) + 1 /\ back'[s][o][k] = m
    BY <1>3, <1>4
  <2>2. rcq'[c][s] = <<>> /\ area' = area
    BY <1>4
  <2> QED
    BY <1>2, <1>4, <2>1, <2>2 DEF BackInv
<1>5. CASE m.ptr # c
  <2>1. \A o \in Nodes : \A k \in DOMAIN back'[s][o] : back'[s][o][k].ptr = c =>
           k \in DOMAIN back[s][o] /\ back'[s][o][k] = back[s][o][k]
    BY <1>3, <1>5
  <2> QED
    BY <1>1, <1>2, <2>1 DEF BackInv, AnswerKept
<1> QED
  BY <1>4, <1>5

\* The reply to the next connected sender is on its way.
LEMMA ReplyInitKeeps ==
  ASSUME IInv, mode' = mode, NEW s \in Receivers, ReplyInit(s) PROVE IInv'
<1>1. AllTypes /\ ReceiverInv(s) /\ PhaseInv(s)
  BY DEF IInv, ReceiverInv
<1>2. rpc[s] = "reply" /\ Past(s)
  BY DEF ReplyInit, ReceiverGoto, Past
<1> DEFINE next == replied[s] + 1
<1>3. /\ replied[s] \in Nat /\ next \in DOMAIN connected[s] /\ connected[s] \in Seq(Clients)
      /\ \A k, l \in DOMAIN connected[s] : connected[s][k] = connected[s][l] => k = l
      /\ ToSet(connected[s]) = Clients
  <2>1. connected[s] \in Seq(Clients) /\ replied[s] \in 0 .. expectedClients
    BY <1>1, ReceiverIs DEF AllTypes
  <2>2. Len(connected[s]) = expectedClients /\ replied[s] < expectedClients
        /\ expectedClients \in Nat
    BY <1>1, <1>2, ClientsAreCounted DEF PhaseInv
  <2>3. next \in 1 .. Len(connected[s])
    BY <2>1, <2>2
  <2> QED
    BY <1>1, <1>2, <2>1, <2>3, SeqIs DEF PhaseInv, IsInjective
<1>4. PICK d \in Clients : d = connected[s][next]
  BY <1>3, SeqIs
<1> DEFINE msg == [type |-> "InitExp", verb |-> "SEND", ptr |-> d, at |-> NodeId[d],
                   entry |-> 0, copy |-> Unfilled, body |-> NoBody, stage |-> "whole"]
<1>5. PICK m \in ResponseMsgs : m = msg
  BY <1>1, NoBodyFits, EntriesAre, MaxNodeIDIsKnown DEF ResponseMsgs, AllTypes, Types, Verbs
<1>6. <<s, d>> \notin rnr
  BY <1>1, NodesAssumption DEF AllTypes, FabricTypes
<1>7. /\ rpc' = [rpc EXCEPT ![s] = "replyAck"]
      /\ back' = [back EXCEPT ![s][d] = Append(@, m)]
      /\ UNCHANGED <<connected, slot, initBuf, replied, srq, cq, cur, filledFrom, respBuffer, clientsFinished,
                     handledRequests, clientVars, wire, rnr, historyVars>>
  BY <1>4, <1>5, <1>6 DEF ReplyInit, ReceiverGoto, PostBack, slotOf
<1>8. /\ back' \in [Receivers -> [Nodes -> Seq(ResponseMsgs)]] /\ d \in Nodes
      /\ \A r \in Receivers \ {s} : back'[r] = back[r] /\ LocalStays(r)
      /\ rpc'[s] = "replyAck"
  <2>1. d \in Nodes
    BY DEF Nodes
  <2>2. \A r \in Receivers \ {s} : LocalStays(r)
    BY <1>1, <1>7 DEF AllTypes, ReceiverTypes, LocalStays
  <2> QED
    BY <1>1, <1>7, <2>1, <2>2, BackGrows DEF AllTypes, ReceiverTypes
<1>9. AllTypes'
  <2>1. ReceiverTypes'
    BY <1>1, <1>7, ModeStays DEF AllTypes, ReceiverTypes, SlotTypes, ReceiverStates
  <2>2. FabricTypes'
    BY <1>1, <1>7, <1>8, ModeStays DEF AllTypes, FabricTypes, Nodes, Processes
  <2> QED
    BY <1>1, <1>7, <2>1, <2>2, TypesStay DEF AllTypes
<1>10. ~Working(s)' /\ Past(s)' /\ ~Working(s)
  BY <1>2, <1>8 DEF Working, Past
<1>11. /\ Pending(d, s) /\ ~Replied(d, s) /\ rcq[d][s] = <<>> /\ ~Served(d, s)
       /\ \A n \in Nodes : \A k \in DOMAIN back[s][n] : back[s][n][k].ptr # d
  <2>1. ClientInv(d) /\ GreetInv(d, s) /\ RcqInv(d, s) /\ BackInv(d, s)
    BY DEF IInv, RequestInv, ResponseInv
  <2>2. ~Replied(d, s)
    <3>1. \A k \in DOMAIN connected[s] : connected[s][k] = d => k = next
      BY <1>3, <1>4
    <3> QED
      BY <1>2, <1>3, <3>1 DEF Replied
  <2>3. Pending(d, s) /\ ~Served(d, s)
    <3>1. Pending(d, s)
      BY <1>3, <2>1, <2>2 DEF GreetInv
    <3> QED
      BY <1>1, <2>1, <3>1, ViewsExclude DEF AllTypes
  <2>4. rcq[d][s] = <<>>
    BY <1>1, <2>1, <2>2, <2>3, RcqHead
  <2>5. \A n \in Nodes : \A k \in DOMAIN back[s][n] : back[s][n][k].ptr # d
    BY <1>2, <2>1, <2>3 DEF BackInv
  <2> QED
    BY <2>2, <2>3, <2>4, <2>5
<1>12. ASSUME NEW c \in Clients PROVE Replied(c, s) => Replied(c, s)'
  BY <1>2, <1>7, <1>8 DEF Replied
<1>13. ASSUME NEW c \in Clients PROVE RequestInv(c, s)'
  BY <1>2, <1>7, <1>8, <1>10, <1>12, IdleRequestsStay
<1>14. ReceiverInv(s)'
  <2>1. StepInv(s)' /\ SrqInv(s)' /\ IndexInv(s)' /\ CountInv(s)' /\ FinishInv(s)'
    BY <1>2, <1>7, <1>8, <1>10, IdleReceiverStays
  <2>2. PhaseInv(s)'
    BY <1>1, <1>2, <1>7, <1>8, <1>10 DEF PhaseInv
  <2> QED
    BY <2>1, <2>2 DEF ReceiverInv
<1>15. ASSUME NEW c \in Clients PROVE RcqInv(c, s)' /\ BackInv(c, s)'
  <2>1. /\ RcqInv(c, s) /\ BackInv(c, s) /\ AnswerKept(c, s) /\ rcq' = rcq /\ area' = area
    BY <1>7, ThreadStepIs DEF clientVars
  <2>2. RcqInv(c, s)'
    BY <1>12, <2>1, RcqStays
  <2>3. c = d => /\ Pending(c, s)' /\ rpc'[s] = "replyAck" /\ connected'[s][replied'[s] + 1] = c
                 /\ rcq[c][s] = <<>>
                 /\ \A o \in Nodes : \A k \in DOMAIN back[s][o] : back[s][o][k].ptr # c
    <3>1. ASSUME c = d PROVE Pending(c, s)'
      BY <1>11, <2>1, <3>1 DEF AnswerKept
    <3>2. connected'[s][replied'[s] + 1] = d
      BY <1>4, <1>7
    <3> QED
      BY <1>8, <1>11, <3>1, <3>2
  <2>4. m.ptr = d /\ m.type = "InitExp" /\ m.verb = "SEND" /\ m.stage = "whole" /\ m.at = NodeId[d]
    BY <1>5
  <2>5. m.ptr = c =>
          /\ rcq[c][s] = <<>>
          /\ \A o \in Nodes : \A k \in DOMAIN back[s][o] : back[s][o][k].ptr # c
          /\ m.type = "InitExp" /\ m.verb = "SEND" /\ m.stage = "whole"
          /\ d = c /\ m.at = NodeId[c] /\ Pending(c, s)'
          /\ rpc'[s] = "replyAck" /\ connected'[s][replied'[s] + 1] = c
    BY <2>3, <2>4
  <2>6. rpc[s] # "replyAck" /\ back' = [back EXCEPT ![s][d] = Append(@, m)] /\ d \in Nodes
    BY <1>2, <1>7, <1>8
  <2>7. BackInv(c, s)'
    BY <2>1, <2>5, <2>6, AnswerPosted
  <2> QED
    BY <2>2, <2>7
<1> QED
  BY <1>7, <1>8, <1>9, <1>13, <1>14, <1>15, ReceiverStepKeeps

\* The reply has been taken from the send queue.
LEMMA ReplyAcknowledgedKeeps ==
  ASSUME IInv, mode' = mode, NEW s \in Receivers, ReplyAcknowledged(s) PROVE IInv'
<1>1. AllTypes /\ ReceiverInv(s) /\ PhaseInv(s)
  BY DEF IInv, ReceiverInv
<1> DEFINE next == replied[s] + 1
<1>2. /\ rpc[s] = "replyAck" /\ Past(s)
      /\ rpc' = [rpc EXCEPT ![s] = IF next = Len(connected[s]) THEN "poll" ELSE "reply"]
      /\ back[s][connected[s][next]] = <<>> /\ replied' = [replied EXCEPT ![s] = @ + 1]
      /\ UNCHANGED <<connected, slot, initBuf, srq, cq, cur, filledFrom, respBuffer, clientsFinished,
                     handledRequests, clientVars, fabricVars, historyVars>>
  BY DEF ReplyAcknowledged, ReceiverGoto, Past
<1>3. /\ replied[s] \in Nat /\ next \in 1 .. expectedClients /\ Len(connected[s]) = expectedClients
      /\ expectedClients \in Nat
  <2>1. replied[s] \in 0 .. expectedClients
    BY <1>1, ReceiverIs DEF AllTypes
  <2>2. Len(connected[s]) = expectedClients /\ replied[s] < expectedClients
        /\ expectedClients \in Nat
    BY <1>1, <1>2, ClientsAreCounted DEF PhaseInv
  <2> QED
    BY <2>1, <2>2
<1>4. /\ rpc'[s] = (IF next = expectedClients THEN "poll" ELSE "reply")
      /\ replied'[s] = next /\ \A r \in Receivers \ {s} : LocalStays(r) /\ back'[r] = back[r]
      /\ wire' = wire /\ rnr' = rnr /\ back' = back
  BY <1>1, <1>2, <1>3 DEF AllTypes, ReceiverTypes, LocalStays, fabricVars
<1>5. AllTypes'
  <2>1. replied' \in [Receivers -> 0 .. expectedClients]
    BY <1>1, <1>2, <1>3 DEF AllTypes, ReceiverTypes
  <2>2. ReceiverTypes'
    BY <1>1, <1>2, <2>1, ModeStays DEF AllTypes, ReceiverTypes, SlotTypes, ReceiverStates
  <2> QED
    BY <1>1, <1>2, <2>2, TypesStay DEF AllTypes
<1>6. ~Working(s)' /\ Past(s)' /\ ~Working(s)
  BY <1>2, <1>4 DEF Working, Past
<1>7. ASSUME NEW c \in Clients PROVE Replied(c, s) => Replied(c, s)'
  <2>1. connected' = connected /\ \A k \in Nat : k <= replied[s] => k <= next
    BY <1>2, <1>3
  <2>2. \A k \in DOMAIN connected[s] : k \in Nat
    BY <1>1, ReceiverIs, SeqIs DEF AllTypes
  <2> QED
    BY <1>3, <1>4, <2>1, <2>2 DEF Replied
<1>8. ASSUME NEW c \in Clients PROVE RequestInv(c, s)'
  BY <1>2, <1>4, <1>6, <1>7, IdleRequestsStay
<1>9. ReceiverInv(s)'
  <2>1. StepInv(s)' /\ SrqInv(s)' /\ IndexInv(s)' /\ CountInv(s)' /\ FinishInv(s)'
    <3>1. /\ rpc'[s] \notin {"handle", "finalize", "transfer", "repost", "done"}
          /\ rpc[s] \notin {"handle", "finalize", "transfer", "repost", "done"}
      BY <1>2, <1>4
    <3> QED
      BY <1>2, <1>4, <1>6, <3>1, IdleReceiverStays
  <2>2. PhaseInv(s)'
    BY <1>1, <1>2, <1>3, <1>4, <1>6 DEF PhaseInv
  <2> QED
    BY <2>1, <2>2 DEF ReceiverInv
<1>10. ASSUME NEW c \in Clients PROVE RcqInv(c, s)' /\ BackInv(c, s)'
  <2>1. RcqInv(c, s) /\ BackInv(c, s) /\ AnswerKept(c, s) /\ rcq' = rcq /\ area' = area
    BY <1>2, ThreadStepIs DEF clientVars
  <2>2. RcqInv(c, s)'
    BY <1>7, <2>1, RcqStays
  <2>3. ResponseVerb' = ResponseVerb /\ destinationNode(c)' = destinationNode(c) /\ Nodes' = Nodes
    BY ModeStays DEF Nodes, Processes
  <2>4. \A n \in Nodes : \A k \in DOMAIN back[s][n] : back[s][n][k].ptr = c =>
           ~(n = c /\ connected[s][next] = c)
    BY <1>2
  <2> QED
    BY <1>4, <2>1, <2>2, <2>3, <2>4 DEF BackInv, AnswerKept
<1>11. UNCHANGED <<clientVars, historyVars>> /\ \A d \in Clients, r \in Receivers \ {s} :
            wire'[d][r] = wire[d][r] /\ (<<d, r>> \in rnr' => <<d, r>> \in rnr)
  BY <1>2, <1>4
<1> QED
  BY <1>4, <1>5, <1>8, <1>9, <1>10, <1>11, ReceiverStepKeeps

-----------------------------------------------------------------------------
(***************************************************************************)
(* The benchmark phase of a receiver.                                      *)
(***************************************************************************)

\* poll() has found a message of client d, whose slot is x.
LEMMA MessageTaken ==
  ASSUME IInv, mode' = mode, NEW s \in Receivers, NEW d \in Clients, NEW x \in Slots,
         rpc[s] = "poll", rpc' = [rpc EXCEPT ![s] = "handle"], cur' = [cur EXCEPT ![s] = x],
         cq' \in [Receivers -> Seq(Completions)], \A r \in Receivers \ {s} : cq'[r] = cq[r],
         UNCHANGED <<connected, slot, initBuf, replied, srq, filledFrom, respBuffer, clientsFinished,
                     handledRequests, clientVars, fabricVars, historyVars>>,
         SentBy(d, s, slot[s][x]), wire[d][s] = <<>>, ~InCq(d, s)',
         Waiting(d, s) \/ slot[s][x].type # "FinishedExp",
         ReceiverPoll = "BUF" => x = NodeId[d],
         \A c \in Clients \ {d} : InCq(c, s)' <=> InCq(c, s),
         \A c \in Clients : ~Held(c, s)' => CqInv(c, s)',
         IndexInv(s)', CountInv(s)'
  PROVE  IInv'
<1>1. AllTypes /\ ReceiverInv(s) /\ StepInv(s) /\ PhaseInv(s) /\ SrqInv(s) /\ FinishInv(s)
  BY DEF IInv, ReceiverInv
<1>2. /\ rpc'[s] = "handle" /\ cur'[s] = x /\ \A r \in Receivers \ {s} : LocalStays(r)
      /\ slot' = slot /\ wire' = wire /\ rnr' = rnr /\ connected' = connected
  BY <1>1 DEF AllTypes, ReceiverTypes, LocalStays, fabricVars
<1>3. AllTypes'
  <2>1. ReceiverTypes'
    BY <1>1, ModeStays DEF AllTypes, ReceiverTypes, SlotTypes, ReceiverStates
  <2> QED
    BY <1>1, <2>1, TypesStay DEF AllTypes
<1>4. Past(s) /\ Past(s)' /\ ~Working(s) /\ Counting(s) = 0
  BY <1>2 DEF Past, Working, Counting
<1>5. /\ slot[s][x].type = "ExpMsg" => slot[s][x].body = Request(d) /\ Asking(d, s)
      /\ slot[s][x].type # "ExpMsg" => slot[s][x].type = "FinishedExp" /\ FinSent(d, s)
      /\ Request(d).ptr = d
      /\ Asking(d, s) => ~FinSent(d, s)
  <2>1. ClientInv(d)
    BY DEF IInv
  <2> QED
    BY <1>1, <2>1, ViewsExclude DEF SentBy, Request, AllTypes
<1>6. Working(s)' <=> slot[s][x].type = "ExpMsg"
  BY <1>2 DEF Working
<1>7. ASSUME NEW c \in Clients PROVE Held(c, s)' <=> slot[s][x].type = "ExpMsg" /\ c = d
  BY <1>2, <1>5, <1>6 DEF Held
<1>8. ASSUME NEW c \in Clients PROVE RequestInv(c, s)'
  <2>1. /\ WireInv(c, s) /\ SlotInv(c, s) /\ GreetInv(c, s) /\ AskKept(c, s)
        /\ (Greeted(c, s)' <=> Greeted(c, s)) /\ (Pending(c, s)' <=> Pending(c, s))
        /\ ReceiverPoll' = ReceiverPoll
    BY ThreadStepIs
  <2>2. WireInv(c, s)'
    <3>1. CASE c = d
      <4>1. wire'[c][s] = <<>>
        BY <1>2, <3>1
      <4> QED
        BY <4>1 DEF WireInv
    <3>2. CASE c # d
      <4>1. (InCq(c, s)' => InCq(c, s)) /\ (Held(c, s)' => Held(c, s))
        BY <1>7, <3>2
      <4> QED
        BY <1>2, <2>1, <4>1, WireStays
    <3> QED
      BY <3>1, <3>2
  <2>3. CqInv(c, s)'
    <3>1. CASE c = d
      BY <3>1 DEF CqInv, InCq
    <3>2. CASE c # d
      BY <1>7, <3>2
    <3> QED
      BY <3>1, <3>2
  <2>4. SlotInv(c, s)'
    BY <1>2, <1>4, <2>1, SlotStays
  <2>5. HeldInv(c, s)'
    <3>1. SUFFICES ASSUME Held(c, s)' PROVE HeldInv(c, s)'
      BY DEF HeldInv
    <3>2. c = d /\ slot'[s][cur'[s]].body = Request(d) /\ Asking(d, s)
      BY <1>2, <1>5, <1>7, <3>1
    <3> QED
      BY <1>2, <2>1, <3>2 DEF HeldInv, AskKept
  <2>6. GreetInv(c, s)'
    <3>1. Replied(c, s)' <=> Replied(c, s)
      BY <1>2 DEF Replied
    <3>2. InCq(c, s)' => InCq(c, s)
      OBVIOUS
    <3> QED
      BY <1>2, <2>1, <3>1, <3>2, ModeStays DEF GreetInv
  <2> QED
    BY <2>2, <2>3, <2>4, <2>5, <2>6 DEF RequestInv
<1>9. ReceiverInv(s)'
  <2>1. ReceiverPoll' = ReceiverPoll
    BY ModeStays
  <2>2. StepInv(s)'
    <3>1. slot[s][x].type \in {"ExpMsg", "FinishedExp"}
      BY <1>5
    <3>2. Working(s)' => slot'[s][cur'[s]].body.ptr \in Clients
      BY <1>2, <1>5, <1>6
    <3> QED
      BY <1>1, <1>2, <2>1, <3>1, <3>2 DEF StepInv
  <2>3. PhaseInv(s)'
    BY <1>1, <1>2, <1>4 DEF PhaseInv
  <2>4. SrqInv(s)'
    BY <1>1, <1>2, <1>4, <2>1 DEF SrqInv
  <2>5. ASSUME NEW c \in Clients \ {d} PROVE Waiting(c, s)' <=> Waiting(c, s)
    <3>1. NodeId[c] # NodeId[d]
      BY NodesAssumption
    <3> QED
      BY <1>2, <2>1, <3>1 DEF Waiting
  <2>6. ~Waiting(d, s)'
    BY <1>2, <2>1 DEF Waiting
  <2>7. \A c \in Clients : FinSent(c, s)' <=> FinSent(c, s)
    BY ThreadStepIs
  <2>8. FinishInv(s)'
    <3>1. CASE slot[s][x].type = "ExpMsg"
      <4>1. Counted(s)' = Counted(s)
        BY <1>5, <2>5, <2>7, <3>1 DEF Counted
      <4>2. Counting(s)' = 0
        BY <1>2, <3>1 DEF Counting
      <4> QED
        BY <1>1, <1>4, <4>1, <4>2 DEF FinishInv
    <3>2. CASE slot[s][x].type # "ExpMsg"
      <4>1. Counted(s)' = Counted(s) \cup {d} /\ d \notin Counted(s)
        BY <1>5, <2>5, <2>6, <2>7, <3>2 DEF Counted
      <4>2. Counting(s)' = 1
        BY <1>2, <1>5, <3>2 DEF Counting
      <4>3. IsFiniteSet(Counted(s))
        <5>1. Counted(s) \subseteq Clients
          BY DEF Counted
        <5> QED
          BY <5>1, ClientsAreCounted, FS_Subset
      <4>4. Cardinality(Counted(s)') = Cardinality(Counted(s)) + 1
        BY <4>1, <4>3, FS_AddElement
      <4>5. clientsFinished'[s] = clientsFinished[s] /\ clientsFinished[s] + 0 = Cardinality(Counted(s))
            /\ clientsFinished[s] \in Nat
        BY <1>1, <1>4, ReceiverIs DEF FinishInv, AllTypes
      <4> QED
        BY <4>2, <4>4, <4>5 DEF FinishInv
    <3> QED
      BY <3>1, <3>2
  <2> QED
    BY <2>2, <2>3, <2>4, <2>8 DEF ReceiverInv
<1>10. \A c \in Clients : RequestInv(c, s)' /\ (Replied(c, s) => Replied(c, s)')
  BY <1>2, <1>8 DEF Replied
<1>11. rpc[s] # "replyAck"
  OBVIOUS
<1> QED
  BY <1>2, <1>3, <1>9, <1>10, <1>11, ThreadStepKeeps

\* The slot that the scan meets, or the slot of the next completion.
LEMMA PollKeeps ==
  ASSUME IInv, mode' = mode, NEW s \in Receivers, Poll(s) PROVE IInv'
<1>1. AllTypes /\ StepInv(s) /\ PhaseInv(s) /\ IndexInv(s) /\ CountInv(s)
  BY DEF IInv, ReceiverInv
<1>2. /\ rpc[s] = "poll" /\ rpc' = [rpc EXCEPT ![s] = "handle"]
      /\ \/ /\ ReceiverPoll = "BUF" /\ cq' = cq
            /\ \E x \in Slots : slot[s][x].type # "EMPTY" /\ cur' = [cur EXCEPT ![s] = x]
         \/ /\ ReceiverPoll = "SRQ" /\ cq[s] # <<>> /\ cq' = [cq EXCEPT ![s] = Tail(@)]
            /\ cur' = [cur EXCEPT ![s] = Head(cq[s]).idx]
      /\ UNCHANGED <<connected, slot, initBuf, replied, srq, filledFrom, respBuffer, clientsFinished,
                     handledRequests, clientVars, fabricVars, historyVars>>
  BY DEF Poll, ReceiverGoto, pollReceiveSRQ
<1>3. Past(s) /\ Past(s)' /\ ReceiverPoll' = ReceiverPoll
  BY <1>1, <1>2, ModeStays DEF Past, AllTypes, ReceiverTypes
<1>4. ToSet(connected[s]) = Clients
  BY <1>1, <1>2 DEF PhaseInv
<1>5. CASE ReceiverPoll = "BUF"
  <2>1. PICK x \in Slots : slot[s][x].type # "EMPTY" /\ cur' = [cur EXCEPT ![s] = x]
    BY <1>2, <1>5
  <2>2. PICK d \in Clients : NodeId[d] = x
    BY <1>1, <1>5, <2>1 DEF StepInv
  <2>3. SlotInv(d, s) /\ WireInv(d, s) /\ cq' = cq /\ cq[s] = <<>>
    BY <1>2, <1>3, <1>5, CqIs DEF IInv, RequestInv
  <2>4. SentBy(d, s, slot[s][x])
    BY <1>5, <2>1, <2>2, <2>3 DEF SlotInv
  <2>5. wire[d][s] = <<>>
    <3>1. wire[d][s] \in Seq(RequestMsgs)
      BY <1>1 DEF AllTypes, FabricTypes
    <3>2. 1 \notin DOMAIN wire[d][s]
      BY <1>4, <1>5, <2>1, <2>2, <2>3 DEF WireInv
    <3> QED
      BY <3>1, <3>2, TailIs
  <2>6. Waiting(d, s) \/ slot[s][x].type # "FinishedExp"
    BY <1>2, <1>5, <2>2 DEF Waiting
  <2>7. /\ \A c \in Clients : ~InCq(c, s)' /\ ~InCq(c, s) /\ CqInv(c, s)'
        /\ cq' \in [Receivers -> Seq(Completions)] /\ \A r \in Receivers : cq'[r] = cq[r]
    BY <1>1, <2>3 DEF InCq, CqInv, AllTypes, ReceiverTypes
  <2>8. IndexInv(s)' /\ CountInv(s)'
    BY <1>3, <1>5 DEF IndexInv, CountInv
  <2> QED
    BY <1>2, <1>5, <2>1, <2>2, <2>4, <2>5, <2>6, <2>7, <2>8, MessageTaken
<1>6. CASE ReceiverPoll = "SRQ"
  <2>1. /\ cq[s] # <<>> /\ cq' = [cq EXCEPT ![s] = Tail(@)]
        /\ cur' = [cur EXCEPT ![s] = Head(cq[s]).idx]
    BY <1>2, <1>6
  <2>2. /\ cq[s] \in Seq(Completions) /\ Head(cq[s]) = cq[s][1] /\ Head(cq[s]) \in Completions
        /\ Tail(cq[s]) \in Seq(Completions) /\ Len(cq[s]) \in Nat \ {0} /\ 1 \in DOMAIN cq[s]
        /\ Len(Tail(cq[s])) = Len(cq[s]) - 1
        /\ DOMAIN cq[s] = 1 .. Len(cq[s]) /\ DOMAIN Tail(cq[s]) = 1 .. Len(cq[s]) - 1
        /\ \A k \in DOMAIN Tail(cq[s]) : k + 1 \in DOMAIN cq[s] /\ Tail(cq[s])[k] = cq[s][k + 1]
    <3>1. cq[s] \in Seq(Completions)
      BY <1>1, ReceiverIs DEF AllTypes
    <3> QED
      BY <2>1, <3>1, TailIs
  <2>3. PICK e \in Completions : e = cq[s][1]
    BY <2>2
  <2>4. PICK d \in Clients : d = e.node
    BY DEF Completions
  <2>5. PICK x : x = e.idx
    OBVIOUS
  <2>6. /\ x \in Slots /\ SentBy(d, s, slot[s][x]) /\ InCq(d, s)
        /\ \A l \in DOMAIN cq[s] : cq[s][l].node = d => l = 1
    <3>1. CqInv(d, s) /\ InCq(d, s) /\ rpc[s] # "initPoll"
      BY <1>2, <2>2, <2>3, <2>4, CqIs
    <3> QED
      BY <2>2, <2>3, <2>4, <2>5, <3>1 DEF CqInv
  <2>7. cq'[s] = Tail(cq[s]) /\ cur'[s] = x /\ \A r \in Receivers \ {s} : cq'[r] = cq[r]
    BY <1>1, <2>1, <2>2, <2>3, <2>5 DEF AllTypes, ReceiverTypes
  <2>8. wire[d][s] = <<>>
    <3>1. wire[d][s] \in Seq(RequestMsgs) /\ WireInv(d, s)
      BY <1>1 DEF AllTypes, FabricTypes, IInv, RequestInv
    <3>2. 1 \notin DOMAIN wire[d][s]
      BY <2>6, <3>1 DEF WireInv
    <3> QED
      BY <3>1, <3>2, TailIs
  <2>9. Waiting(d, s)
    BY <2>6 DEF Waiting
  <2>10. ASSUME NEW c \in Clients PROVE InCq(c, s)' <=> InCq(c, s) /\ c # d
    <3>1. InCq(c, s)' <=> \E k \in DOMAIN Tail(cq[s]) : Tail(cq[s])[k].node = c
      BY <2>7 DEF InCq
    <3>2. \A k \in DOMAIN Tail(cq[s]) : k \in Nat /\ k + 1 # 1
      BY <2>2
    <3>3. InCq(c, s)' => InCq(c, s) /\ c # d
      BY <2>2, <2>6, <3>1, <3>2 DEF InCq
    <3>4. ASSUME InCq(c, s), c # d PROVE InCq(c, s)'
      <4>1. PICK k \in DOMAIN cq[s] : cq[s][k].node = c
        BY <3>4 DEF InCq
      <4>2. k # 1 /\ k - 1 \in DOMAIN Tail(cq[s]) /\ (k - 1) + 1 = k
        BY <2>2, <2>3, <2>4, <3>4, <4>1
      <4> QED
        BY <2>2, <3>1, <4>1, <4>2
    <3> QED
      BY <3>3, <3>4
  <2>11. ASSUME NEW c \in Clients, ~Held(c, s)' PROVE CqInv(c, s)'
    <3>1. CqInv(c, s) /\ AskKept(c, s) /\ slot' = slot /\ rpc[s] # "initPoll"
      BY <1>2, ThreadStepIs
    <3>2. SUFFICES ASSUME NEW k \in DOMAIN Tail(cq[s]), Tail(cq[s])[k].node = c
                   PROVE  /\ \A l \in DOMAIN Tail(cq[s]) : Tail(cq[s])[l].node = c => l = k
                          /\ Tail(cq[s])[k].buf = "req" /\ Tail(cq[s])[k].idx \in Slots
                          /\ SentBy(c, s, slot[s][Tail(cq[s])[k].idx])
      BY ZenonT(60), <1>3, <1>6, <2>7, <2>11, <3>1 DEF CqInv, AskKept, SentBy
    <3>3. k + 1 \in DOMAIN cq[s] /\ Tail(cq[s])[k] = cq[s][k + 1] /\ k \in Nat
      BY <2>2
    <3>4. /\ \A l \in DOMAIN cq[s] : cq[s][l].node = c => l = k + 1
          /\ Tail(cq[s])[k].buf = "req" /\ Tail(cq[s])[k].idx \in Slots
          /\ SentBy(c, s, slot[s][Tail(cq[s])[k].idx])
      BY <3>1, <3>2, <3>3 DEF CqInv
    <3>5. \A l \in DOMAIN Tail(cq[s]) : Tail(cq[s])[l].node = c => l = k
      BY <2>2, <3>3, <3>4
    <3> QED
      BY <3>4, <3>5
  <2>12. Busy(s)' /\ ~Busy(s) /\ srq' = srq /\ Taken(s) = 0 /\ Taken(s)' = 1
    BY <1>1, <1>2 DEF Busy, Taken, AllTypes, ReceiverTypes
  <2>13. IndexInv(s)'
    <3>1. /\ \A k \in DOMAIN srq[s] :
                /\ srq[s][k].buf = "req" /\ srq[s][k].idx \in Slots
                /\ \A l \in DOMAIN srq[s] : srq[s][l].idx = srq[s][k].idx => l = k
                /\ \A l \in DOMAIN cq[s] : cq[s][l].idx # srq[s][k].idx
          /\ \A k, l \in DOMAIN cq[s] : cq[s][l].idx = cq[s][k].idx => l = k
      BY <1>1, <1>3, <1>6 DEF IndexInv
    <3>2. \A k \in DOMAIN srq[s] :
              /\ srq[s][k].idx # x
              /\ \A l \in DOMAIN Tail(cq[s]) : Tail(cq[s])[l].idx # srq[s][k].idx
      BY <2>2, <2>3, <2>5, <3>1
    <3>3. \A k \in DOMAIN Tail(cq[s]) :
              /\ k \in Nat /\ Tail(cq[s])[k].idx # x
              /\ \A l \in DOMAIN Tail(cq[s]) : Tail(cq[s])[l].idx = Tail(cq[s])[k].idx => l = k
      <4>1. \A k \in DOMAIN Tail(cq[s]) : k \in Nat /\ k + 1 # 1
        BY <2>2
      <4>2. \A k \in DOMAIN Tail(cq[s]) : Tail(cq[s])[k].idx # x
        BY SMTT(30), <2>2, <2>3, <2>5, <3>1, <4>1
      <4>3. \A k, l \in DOMAIN Tail(cq[s]) : Tail(cq[s])[l].idx = Tail(cq[s])[k].idx => l + 1 = k + 1
        BY <2>2, <3>1
      <4> QED
        BY <4>1, <4>2, <4>3
    <3> QED
      BY <2>7, <2>12, <3>1, <3>2, <3>3 DEF IndexInv
  <2>14. CountInv(s)'
    <3>1. Len(srq[s]) + Len(cq[s]) + 0 + clientsFinished[s] = reqBufferLength
      BY <1>1, <1>3, <1>6, <2>12 DEF CountInv
    <3>2. PICK a \in Nat : a = Len(srq[s])
      BY <1>1, ReceiverIs, SeqIs DEF AllTypes
    <3>3. PICK b \in Nat : b = Len(cq[s])
      BY <2>2
    <3>4. PICK f \in Nat : f = clientsFinished[s]
      BY <1>1, ReceiverIs, ClientsAreCounted DEF AllTypes
    <3>5. a + b + 0 + f = reqBufferLength
      BY <3>1, <3>2, <3>3, <3>4
    <3>6. a + (b - 1) + 1 + f = reqBufferLength
      BY <3>5
    <3>7. Len(srq'[s]) = a /\ Len(cq'[s]) = b - 1 /\ clientsFinished'[s] = f
      BY <1>2, <2>2, <2>7, <2>12, <3>2, <3>3, <3>4
    <3> QED
      BY <2>12, <3>6, <3>7 DEF CountInv
  <2>15. /\ cq' \in [Receivers -> Seq(Completions)] /\ ~InCq(d, s)' /\ cur' = [cur EXCEPT ![s] = x]
         /\ \A c \in Clients \ {d} : InCq(c, s)' <=> InCq(c, s)
    BY <1>1, <2>1, <2>2, <2>3, <2>5, <2>10 DEF AllTypes, ReceiverTypes
  <2>16. ReceiverPoll # "BUF" /\ \A c \in Clients : ~Held(c, s)' => CqInv(c, s)'
    BY <1>6, <2>11
  <2> QED
    BY <1>2, <2>6, <2>7, <2>8, <2>9, <2>13, <2>14, <2>15, <2>16, MessageTaken
<1> QED
  BY <1>2, <1>5, <1>6

\* The steps of a request, by what is polled.
LEMMA StepsAre ==
  ASSUME mode \in Modes
  PROVE  /\ ReceiverPoll = "BUF" => /\ requestSteps[1] = "finalize"
                                    /\ stepAfter("finalize") = "transfer" /\ stepAfter("transfer") = "poll"
         /\ ReceiverPoll # "BUF" => /\ requestSteps[1] = "transfer"
                                    /\ stepAfter("transfer") = "repost" /\ stepAfter("repost") = "poll"
BY DEF requestSteps, stepAfter

\* The receiver holds the request of one client.
LEMMA HeldIs ==
  ASSUME IInv, NEW s \in Receivers, Working(s), NEW d \in Clients, d = slot[s][cur[s]].body.ptr
  PROVE  /\ Held(d, s) /\ slot[s][cur[s]].body = Request(d) /\ Asking(d, s)
         /\ rpc[s] # "handle" => filledFrom[s] = Request(d)
         /\ ReceiverPoll = "BUF" => cur[s] = NodeId[d]
         /\ wire[d][s] = <<>> /\ ~InCq(d, s) /\ ~Pending(d, s) /\ ~Served(d, s) /\ ~FinSent(d, s)
         /\ \A c \in Clients : Held(c, s) => c = d
<1>1. Held(d, s) /\ RequestInv(d, s) /\ ClientInv(d) /\ AllTypes
  BY DEF Held, IInv
<1>2. HeldInv(d, s) /\ WireInv(d, s) /\ CqInv(d, s)
  BY <1>1 DEF RequestInv
<1>3. wire[d][s] = <<>>
  <2>1. wire[d][s] \in Seq(RequestMsgs)
    BY <1>1 DEF AllTypes, FabricTypes
  <2>2. 1 \notin DOMAIN wire[d][s]
    BY <1>1, <1>2 DEF WireInv
  <2> QED
    BY <2>1, <2>2, TailIs
<1>4. ~InCq(d, s)
  BY <1>1, <1>2 DEF CqInv, InCq
<1>5. Asking(d, s)
  BY <1>1, <1>2 DEF HeldInv
<1>6. ~Pending(d, s) /\ ~Served(d, s) /\ ~FinSent(d, s)
  BY <1>1, <1>5, ViewsExclude DEF AllTypes
<1>7. \A c \in Clients : Held(c, s) => c = d
  BY DEF Held
<1> QED
  BY <1>1, <1>2, <1>3, <1>4, <1>5, <1>6, <1>7 DEF HeldInv

\* A response fits into the entry that its request names.
LEMMA FilledFits ==
  ASSUME AllTypes, NEW s \in Receivers, NEW req \in Bodies
  PROVE  /\ req.id \in Entries /\ ResponseTo(req) \in Contents
         /\ [respBuffer EXCEPT ![s][req.id] = ResponseTo(req)]
              \in [Receivers -> [Entries -> Contents]]
<1>1. req.id \in Entries /\ ResponseTo(req) \in Contents
  BY DEF Bodies, ResponseTo, Contents
<1>2. respBuffer \in [Receivers -> [Entries -> Contents]]
  BY DEF AllTypes, ReceiverTypes
<1> QED
  BY <1>1, <1>2

\* The response is filled in.
LEMMA FillResponseKeeps ==
  ASSUME IInv, mode' = mode, NEW s \in Receivers, FillResponse(s) PROVE IInv'
<1>1. /\ AllTypes /\ ReceiverInv(s) /\ StepInv(s) /\ PhaseInv(s) /\ SrqInv(s) /\ FinishInv(s)
      /\ IndexInv(s) /\ CountInv(s)
  BY DEF IInv, ReceiverInv
<1>2. /\ rpc[s] = "handle" /\ rpc' = [rpc EXCEPT ![s] = requestSteps[1]]
      /\ slot[s][cur[s]].type = "ExpMsg"
      /\ filledFrom' = [filledFrom EXCEPT ![s] = slot[s][cur[s]].body]
      /\ respBuffer' = [respBuffer EXCEPT ![s][slot[s][cur[s]].body.id] = ResponseTo(slot[s][cur[s]].body)]
      /\ UNCHANGED <<connected, slot, initBuf, replied, srq, cq, cur, clientsFinished,
                     handledRequests, clientVars, fabricVars, historyVars>>
  BY DEF FillResponse, ReceiverGoto
<1>3. PICK to \in {"finalize", "transfer"} :
         to = requestSteps[1] /\ (ReceiverPoll = "BUF" <=> to = "finalize")
  BY <1>1, StepsAre DEF AllTypes
<1>4. /\ rpc'[s] = to /\ filledFrom'[s] = slot[s][cur[s]].body
      /\ \A r \in Receivers \ {s} : LocalStays(r) /\ wire' = wire /\ rnr' = rnr
  BY <1>1, <1>2, <1>3 DEF AllTypes, ReceiverTypes, LocalStays, fabricVars
<1>5. AllTypes'
  <2>1. slot[s] \in SlotTypes /\ cur[s] \in Slots
    BY <1>1, ReceiverIs DEF AllTypes
  <2>2. slot[s][cur[s]].body \in Bodies
    BY <2>1 DEF SlotTypes
  <2>4. respBuffer' \in [Receivers -> [Entries -> Contents]]
    BY <1>1, <1>2, <2>2, FilledFits
  <2>3. ReceiverTypes'
    BY <1>1, <1>2, <1>3, <2>2, <2>4, ModeStays DEF AllTypes, ReceiverTypes, SlotTypes, ReceiverStates
  <2> QED
    BY <1>1, <1>2, <2>3, TypesStay DEF AllTypes
<1>6. /\ Working(s) /\ Working(s)' /\ Past(s) /\ Past(s)' /\ Counting(s) = 0 /\ Counting(s)' = 0
      /\ ReceiverPoll' = ReceiverPoll /\ wire' = wire /\ rnr' = rnr
  BY <1>2, <1>4, ModeStays DEF Working, Past, Counting, fabricVars
<1>7. ASSUME NEW c \in Clients
      PROVE  /\ (Held(c, s)' <=> Held(c, s)) /\ (InCq(c, s)' <=> InCq(c, s))
             /\ (Replied(c, s)' <=> Replied(c, s)) /\ (FinSent(c, s)' <=> FinSent(c, s))
  BY <1>2, <1>4, <1>6, ThreadStepIs DEF Held, InCq, Replied
<1>8. ASSUME NEW c \in Clients PROVE RequestInv(c, s)'
  <2>1. WireInv(c, s)'
    BY <1>2, <1>6, <1>7, ThreadStepIs, WireStays
  <2>2. CqInv(c, s)'
    BY <1>2, <1>6, <1>7, ThreadStepIs, CqStays
  <2>3. SlotInv(c, s)'
    BY <1>2, <1>6, ThreadStepIs, SlotStays
  <2>4. HeldInv(c, s)'
    <3>1. HeldInv(c, s) /\ AskKept(c, s)
      BY <1>2, ThreadStepIs
    <3> QED
      BY <1>2, <1>4, <1>6, <1>7, <3>1 DEF HeldInv, AskKept
  <2>5. GreetInv(c, s)'
    <3>1. rpc'[s] # "start"
      BY <1>4
    <3> QED
      BY <1>2, <1>6, <1>7, <3>1, ThreadStepIs DEF GreetInv
  <2> QED
    BY <2>1, <2>2, <2>3, <2>4, <2>5 DEF RequestInv
<1>9. ReceiverInv(s)'
  <2>1. StepInv(s)'
    BY <1>1, <1>2, <1>3, <1>4, <1>6 DEF StepInv
  <2>2. PhaseInv(s)'
    BY <1>1, <1>2, <1>4, <1>6 DEF PhaseInv
  <2>3. SrqInv(s)'
    BY <1>1, <1>2, <1>4, <1>6 DEF SrqInv
  <2>4. ReceiverPoll # "BUF" => Busy(s) /\ Busy(s)' /\ Taken(s)' = Taken(s)
    BY <1>2, <1>3, <1>4 DEF Busy, Taken
  <2>5. IndexInv(s)'
    BY <1>1, <1>2, <1>6, <2>4 DEF IndexInv
  <2>6. CountInv(s)'
    BY <1>1, <1>2, <1>6, <2>4 DEF CountInv
  <2>7. ASSUME NEW c \in Clients PROVE Waiting(c, s)' <=> Waiting(c, s)
    <3>1. slot[s][NodeId[c]].type = "FinishedExp" => cur[s] # NodeId[c]
      BY <1>2
    <3> QED
      BY <1>2, <1>6, <1>7, <3>1 DEF Waiting
  <2>8. Counted(s)' = Counted(s)
    BY <1>7, <2>7 DEF Counted
  <2>9. FinishInv(s)'
    BY <1>1, <1>2, <1>6, <2>8 DEF FinishInv
  <2> QED
    BY <2>1, <2>2, <2>3, <2>5, <2>6, <2>9 DEF ReceiverInv
<1>10. \A c \in Clients : RequestInv(c, s)' /\ (Replied(c, s) => Replied(c, s)')
  BY <1>7, <1>8
<1>11. /\ rpc[s] # "replyAck" /\ \A r \in Receivers \ {s} : LocalStays(r)
       /\ UNCHANGED <<clientVars, fabricVars, historyVars>>
  BY <1>2, <1>4
<1> QED
  BY <1>5, <1>9, <1>10, <1>11, ThreadStepKeeps

\* A polled slot is emptied before the response is sent.
LEMMA FinalizeSlotKeeps ==
  ASSUME IInv, mode' = mode, NEW s \in Receivers, FinalizeSlot(s) PROVE IInv'
<1>1. /\ AllTypes /\ ReceiverInv(s) /\ StepInv(s) /\ PhaseInv(s) /\ SrqInv(s) /\ FinishInv(s)
  BY DEF IInv, ReceiverInv
<1>2. rpc[s] = "finalize" /\ ReceiverPoll = "BUF" /\ slot[s][cur[s]].type = "ExpMsg"
  BY <1>1 DEF FinalizeSlot, ReceiverGoto, StepInv
<1>3. PICK x \in Slots : x = cur[s]
  BY <1>1, ReceiverIs DEF AllTypes
<1>4. /\ rpc' = [rpc EXCEPT ![s] = "transfer"] /\ slot' = [slot EXCEPT ![s][x].type = "EMPTY"]
      /\ UNCHANGED <<connected, initBuf, replied, srq, cq, cur, filledFrom, respBuffer, clientsFinished,
                     handledRequests, clientVars, fabricVars, historyVars>>
  BY <1>1, <1>2, <1>3, StepsAre DEF FinalizeSlot, ReceiverGoto, emptied, AllTypes
<1>5. /\ slot[s] \in SlotTypes /\ slot'[s] = [slot[s] EXCEPT ![x].type = "EMPTY"]
      /\ slot' = [slot EXCEPT ![s] = [slot[s] EXCEPT ![x].type = "EMPTY"]]
  BY <1>1, <1>4 DEF AllTypes, ReceiverTypes
<1>6. /\ slot'[s] \in SlotTypes /\ slot'[s][x].type = "EMPTY"
      /\ \A y \in Slots : slot'[s][y].body = slot[s][y].body
      /\ \A y \in Slots \ {x} : slot'[s][y] = slot[s][y]
  <2>1. slot[s][x] \in [type : Types, body : Bodies]
    BY <1>5 DEF SlotTypes
  <2>2. [slot[s][x] EXCEPT !.type = "EMPTY"] \in [type : Types, body : Bodies]
    BY <2>1 DEF Types
  <2>3. slot'[s] = [slot[s] EXCEPT ![x] = [slot[s][x] EXCEPT !.type = "EMPTY"]]
    BY <1>5 DEF SlotTypes
  <2> QED
    BY <1>5, <2>1, <2>2, <2>3 DEF SlotTypes
<1>7. /\ rpc'[s] = "transfer" /\ \A r \in Receivers \ {s} : LocalStays(r)
      /\ wire' = wire /\ rnr' = rnr
  BY <1>1, <1>4 DEF AllTypes, ReceiverTypes, LocalStays, fabricVars
<1>8. AllTypes'
  <2>1. slot' \in [Receivers -> SlotTypes]
    BY <1>1, <1>5, <1>6 DEF AllTypes, ReceiverTypes
  <2>2. SlotTypes' = SlotTypes
    BY ModeStays DEF SlotTypes
  <2>3. ReceiverTypes'
    BY <1>1, <1>4, <2>1, <2>2, ModeStays DEF AllTypes, ReceiverTypes, ReceiverStates
  <2> QED
    BY <1>1, <1>4, <2>3, TypesStay DEF AllTypes
<1>9. /\ Working(s) /\ Working(s)' /\ Past(s) /\ Past(s)' /\ Counting(s) = 0 /\ Counting(s)' = 0
      /\ ReceiverPoll' = ReceiverPoll /\ cq[s] = <<>> /\ cur'[s] = x
  BY <1>2, <1>3, <1>4, <1>7, ModeStays, CqIs DEF Working, Past, Counting
<1>10. ASSUME NEW c \in Clients
       PROVE  /\ (Held(c, s)' <=> Held(c, s)) /\ ~InCq(c, s)' /\ ~InCq(c, s) /\ NodeId[c] \in Slots
              /\ (Replied(c, s)' <=> Replied(c, s)) /\ (FinSent(c, s)' <=> FinSent(c, s))
  <2>1. slot'[s][cur'[s]].body = slot[s][cur[s]].body
    BY <1>3, <1>6, <1>9
  <2>2. Held(c, s)' <=> Held(c, s)
    BY <1>9, <2>1 DEF Held
  <2>3. ~InCq(c, s)' /\ ~InCq(c, s)
    BY <1>4, <1>9 DEF InCq
  <2>4. Replied(c, s)' <=> Replied(c, s)
    BY <1>2, <1>4, <1>7 DEF Replied
  <2>5. FinSent(c, s)' <=> FinSent(c, s)
    BY <1>4, ThreadStepIs
  <2> QED
    BY <2>2, <2>3, <2>4, <2>5, MaxNodeIDIsKnown
<1>11. ASSUME NEW c \in Clients PROVE RequestInv(c, s)'
  <2>1. /\ WireInv(c, s) /\ SlotInv(c, s) /\ HeldInv(c, s) /\ GreetInv(c, s) /\ AskKept(c, s)
        /\ (Greeted(c, s)' <=> Greeted(c, s)) /\ (Pending(c, s)' <=> Pending(c, s))
        /\ RequestVerb' = RequestVerb
    BY <1>4, ThreadStepIs, ModeStays
  <2>2. /\ slot'[s][NodeId[c]].body = slot[s][NodeId[c]].body
        /\ slot'[s][NodeId[c]].type = "EMPTY" \/ slot'[s][NodeId[c]] = slot[s][NodeId[c]]
    BY <1>6, <1>10
  <2>3. WireInv(c, s)'
    <3>1. \A k \in DOMAIN wire[c][s] : SentBy(c, s, wire[c][s][k]) => SentBy(c, s, wire[c][s][k])'
      BY <1>7, <2>1 DEF SentBy, AskKept
    <3>2. slot[s][NodeId[c]].type = "EMPTY" => slot'[s][NodeId[c]].type = "EMPTY"
      BY <2>2
    <3> QED
      BY ZenonT(60), <1>4, <1>7, <1>9, <1>10, <2>1, <2>2, <3>1, <3>2 DEF WireInv, AskKept, SentBy
  <2>4. CqInv(c, s)'
    BY <1>10 DEF CqInv, InCq
  <2>5. SlotInv(c, s)'
    BY <1>9, <2>1, <2>2 DEF SlotInv, SentBy, AskKept
  <2>6. HeldInv(c, s)'
    BY <1>2, <1>3, <1>4, <1>6, <1>9, <1>10, <2>1 DEF HeldInv, AskKept
  <2>7. GreetInv(c, s)'
    <3>1. rpc'[s] # "start" /\ connected'[s] = connected[s]
      BY <1>4, <1>7
    <3> QED
      BY <1>4, <1>7, <1>10, <2>1, <3>1, ThreadStepIs DEF GreetInv
  <2> QED
    BY <2>3, <2>4, <2>5, <2>6, <2>7 DEF RequestInv
<1>12. ReceiverInv(s)'
  <2>1. StepInv(s)'
    <3>1. slot'[s][cur'[s]].body.ptr \in Clients
      BY <1>1, <1>3, <1>6, <1>9 DEF StepInv
    <3>2. \A y \in Slots : slot'[s][y].type # "EMPTY" => slot[s][y].type # "EMPTY"
      BY <1>6
    <3> QED
      BY <1>1, <1>2, <1>6, <1>7, <1>9, <3>1, <3>2 DEF StepInv
  <2>2. PhaseInv(s)'
    BY <1>1, <1>2, <1>4, <1>7, <1>9 DEF PhaseInv
  <2>3. SrqInv(s)'
    BY <1>1, <1>2, <1>4, <1>7, <1>9 DEF SrqInv
  <2>4. IndexInv(s)' /\ CountInv(s)'
    BY <1>2, <1>9 DEF IndexInv, CountInv
  <2>5. ASSUME NEW c \in Clients PROVE Waiting(c, s)' <=> Waiting(c, s)
    <3>1. slot[s][NodeId[c]].type = "FinishedExp" <=> slot'[s][NodeId[c]].type = "FinishedExp"
      BY <1>2, <1>3, <1>6, <1>10
    <3> QED
      BY <1>2, <1>7, <1>9, <1>10, <3>1 DEF Waiting
  <2>6. Counted(s)' = Counted(s)
    BY <1>10, <2>5 DEF Counted
  <2>7. FinishInv(s)'
    BY <1>1, <1>4, <1>9, <2>6 DEF FinishInv
  <2> QED
    BY <2>1, <2>2, <2>3, <2>4, <2>7 DEF ReceiverInv
<1>13. \A c \in Clients : RequestInv(c, s)' /\ (Replied(c, s) => Replied(c, s)')
  BY <1>10, <1>11
<1>14. rpc[s] # "replyAck" /\ UNCHANGED <<clientVars, fabricVars, historyVars>>
  BY <1>2, <1>4
<1> QED
  BY <1>7, <1>8, <1>12, <1>13, <1>14, ThreadStepKeeps

-----------------------------------------------------------------------------
(***************************************************************************)
(* The receiver, from the response to the end of its loop.                 *)
(***************************************************************************)

\* The response is posted once, and only to the client that waits for it.
LEMMA TransferKeeps ==
  ASSUME IInv, mode' = mode, NEW s \in Receivers, Transfer(s) PROVE IInv'
<1>1. /\ AllTypes /\ ReceiverInv(s) /\ StepInv(s) /\ PhaseInv(s) /\ SrqInv(s) /\ FinishInv(s)
      /\ IndexInv(s) /\ CountInv(s)
  BY DEF IInv, ReceiverInv
<1>2. rpc[s] = "transfer" /\ Working(s) /\ Past(s)
  BY DEF Transfer, ReceiverGoto, Working, Past
<1>3. PICK d \in Clients : d = slot[s][cur[s]].body.ptr
  BY <1>1, <1>2 DEF StepInv
<1>4. /\ Held(d, s) /\ slot[s][cur[s]].body = Request(d) /\ Asking(d, s) /\ filledFrom[s] = Request(d)
      /\ ReceiverPoll = "BUF" => cur[s] = NodeId[d]
      /\ wire[d][s] = <<>> /\ ~InCq(d, s) /\ ~Pending(d, s) /\ ~Served(d, s) /\ ~FinSent(d, s)
  BY <1>2, <1>3, HeldIs
<1>5. PICK n \in Nodes : n = destinationNode(d)
  BY ModeAssumption DEF Nodes, Processes, destinationNode
<1>6. ClientInv(d) /\ AreaInv(d) /\ RequestInv(d, s) /\ ResponseInv(d, s)
  BY DEF IInv
<1>7. /\ ri[d] \in Nat /\ i[d] \in 0 .. Requests /\ issued[d] \in Nat /\ answered[d] \in Nat
      /\ served[d] \in Nat /\ area[d].flag \in {0, 1} /\ Requests \in Nat
      /\ filledFrom[s] \in Bodies /\ respBuffer[s] \in [Entries -> Contents]
  BY <1>1, ClientIs, ReceiverIs, ModeIsKnown DEF AllTypes
<1> DEFINE msg == [type |-> "ExpMsg", verb |-> ResponseVerb, ptr |-> d, at |-> 0,
                   entry |-> filledFrom[s].id,
                   copy |-> IF Inline THEN respBuffer[s][filledFrom[s].id] ELSE Unfilled,
                   body |-> filledFrom[s], stage |-> "whole"]
<1>8. PICK m \in ResponseMsgs : m = msg
  <2>1. 0 \in Slots /\ ResponseVerb \in Verbs
    BY <1>1, MaxNodeIDIsKnown, ModeIsKnown DEF Slots, AllTypes
  <2>2. filledFrom[s].id \in Entries
    BY <1>7 DEF Bodies
  <2>3. (IF Inline THEN respBuffer[s][filledFrom[s].id] ELSE Unfilled) \in Contents
    BY <1>7, <2>2, EntriesAre
  <2> QED
    BY <1>7, <2>1, <2>2, <2>3 DEF ResponseMsgs, Types
<1>9. PICK to \in {"poll", "repost"} : to = stepAfter("transfer") /\ (ReceiverPoll = "BUF" <=> to = "poll")
  BY <1>1, StepsAre DEF AllTypes
<1>10. <<s, n>> \notin rnr
  BY <1>1, NodesAssumption DEF AllTypes, FabricTypes
<1>11. /\ rpc' = [rpc EXCEPT ![s] = to]
       /\ back' = [back EXCEPT ![s][n] = Append(@, m)]
       /\ handledRequests' = [handledRequests EXCEPT ![s] = @ + 1]
       /\ served' = [served EXCEPT ![d] = @ + 1]
       /\ UNCHANGED <<connected, slot, initBuf, replied, srq, cq, cur, filledFrom, respBuffer, clientsFinished,
                      clientVars, wire, rnr, issued, answered>>
  <2>1. slot[s][cur[s]].body.dest = n /\ slot[s][cur[s]].body.ptr = d
    <3>1. Request(d).dest = n
      BY <1>5 DEF Request
    <3> QED
      BY <1>3, <1>4, <3>1
  <2> QED
    BY <1>4, <1>8, <1>9, <1>10, <2>1 DEF Transfer, ReceiverGoto, PostBack, entryOf
<1>12. /\ back' \in [Receivers -> [Nodes -> Seq(ResponseMsgs)]]
       /\ \A r \in Receivers \ {s} : back'[r] = back[r] /\ LocalStays(r)
       /\ rpc'[s] = to
  <2>1. \A r \in Receivers \ {s} : LocalStays(r)
    BY <1>1, <1>11 DEF AllTypes, ReceiverTypes, LocalStays
  <2> QED
    BY <1>1, <1>11, <2>1, BackGrows DEF AllTypes, ReceiverTypes
<1>13. AllTypes'
  <2>1. ReceiverTypes'
    BY SMTT(30), <1>1, <1>9, <1>11, ModeStays
       DEF AllTypes, ReceiverTypes, SlotTypes, ReceiverStates
  <2>2. FabricTypes'
    BY <1>1, <1>11, <1>12, ModeStays DEF AllTypes, FabricTypes, Nodes, Processes
  <2>3. HistoryTypes'
    BY <1>1, <1>11, ModeStays DEF AllTypes, HistoryTypes
  <2> QED
    BY <1>1, <1>11, <2>1, <2>2, <2>3, TypesStay DEF AllTypes
<1>14. served'[d] = served[d] + 1 /\ expId'[d] = expId[d] /\ \A c \in Clients \ {d} : SameClient(c)
  BY <1>1, <1>11 DEF AllTypes, HistoryTypes, SameClient, clientVars
<1>15. /\ cpc' = cpc /\ ri' = ri /\ msgOffset' = msgOffset /\ i' = i /\ picked' = picked
       /\ area' = area /\ rq' = rq /\ rcq' = rcq /\ wire' = wire /\ rnr' = rnr
       /\ issued' = issued /\ answered' = answered
  BY <1>11 DEF clientVars
<1>16. ASSUME NEW r \in Receivers
       PROVE  /\ r # s => SameView(d, r)
              /\ ~Pending(d, s)' /\ Greeted(d, s)' /\ ~Asking(d, s)' /\ Served(d, s)'
              /\ ~FinSent(d, s)' /\ Request(d)' = Request(d)
  BY <1>1, <1>4, <1>6, <1>7, <1>14, <1>15, TransferView DEF AllTypes
<1>17. ASSUME NEW c \in Clients \ {d}, NEW r \in Receivers
       PROVE  SameView(c, r) /\ AskKept(c, r) /\ AnswerKept(c, r) /\ RqInv(c, r)' /\ ClientInv(c)' /\ AreaInv(c)'
  BY <1>14, OthersStay, SameViewIsKept
<1>18. ASSUME NEW c \in Clients, NEW r \in Receivers PROVE FinSent(c, r)' <=> FinSent(c, r)
  <2>1. CASE c = d /\ r = s
    BY <1>4, <1>16, <2>1
  <2>2. CASE c = d /\ r # s
    BY <1>16, <2>2 DEF SameView
  <2>3. CASE c # d
    BY <1>17, <2>3 DEF SameView
  <2> QED
    BY <2>1, <2>2, <2>3
<1>19. ClientInv(d)'
  <2>1. Running' = Running /\ Requests' = Requests
    BY ModeStays
  <2>2. served'[d] = issued'[d]
    BY <1>4, <1>6, <1>7, <1>14, <1>15 DEF ClientInv, Asking
  <2>3. \A r \in Receivers : Greeted(d, r)' <=> Greeted(d, r)
    BY <1>15, <2>1 DEF Greeted, InitDone
  <2> QED
    BY <1>6, <1>15, <2>1, <2>2, <2>3 DEF ClientInv
<1>20. area[d].flag = 0 /\ AreaInv(d)'
  BY <1>4, <1>6, <1>7, <1>15 DEF AreaInv, Asking
<1>21. ~Working(s)' /\ Past(s)' /\ (Busy(s)' <=> to = "repost") /\ Busy(s)
       /\ ReceiverPoll' = ReceiverPoll /\ EarlyInit' = EarlyInit
  BY <1>2, <1>9, <1>12, ModeStays DEF Working, Past, Busy
<1>22. ASSUME NEW c \in Clients
       PROVE  ~Held(c, s)' /\ (InCq(c, s)' <=> InCq(c, s)) /\ (Replied(c, s)' <=> Replied(c, s))
  BY <1>2, <1>9, <1>11, <1>12, <1>21 DEF Held, InCq, Replied
<1>23. ASSUME NEW c \in Clients PROVE RequestInv(c, s)'
  <2>1. WireInv(c, s) /\ CqInv(c, s) /\ SlotInv(c, s) /\ GreetInv(c, s)
    BY DEF IInv, RequestInv
  <2>2. HeldInv(c, s)'
    BY <1>22 DEF HeldInv
  <2>3. CASE c = d
    <3>1. WireInv(c, s)'
      BY <1>4, <1>15, <2>3 DEF WireInv
    <3>2. CqInv(c, s)'
      BY <1>4, <1>22, <2>3 DEF CqInv, InCq
    <3>3. SlotInv(c, s)'
      BY <1>1, <1>2, <1>4, <1>11, <1>21, <2>3 DEF SlotInv, StepInv
    <3>4. GreetInv(c, s)'
      <4>1. Greeted(d, s)
        BY <1>1, <1>4, <1>6, ViewsExclude DEF AllTypes
      <4> QED
        BY <1>4, <1>15, <1>16, <1>22, <2>1, <2>3, <4>1 DEF GreetInv
    <3> QED
      BY <2>2, <3>1, <3>2, <3>3, <3>4 DEF RequestInv
  <2>4. CASE c # d
    <3>1. SameView(c, s) /\ AskKept(c, s)
      BY <1>17, <2>4
    <3>2. WireInv(c, s)'
      BY <1>11, <1>15, <1>22, <2>1, <3>1, WireStays
    <3>3. CqInv(c, s)'
      BY <1>2, <1>11, <1>21, <1>22, <2>1, <3>1, CqStays
    <3>4. SlotInv(c, s)'
      BY <1>11, <1>21, <2>1, <3>1, SlotStays
    <3>5. GreetInv(c, s)'
      <4>1. rpc'[s] # "start" /\ connected' = connected
        BY <1>9, <1>11, <1>12
      <4> QED
        BY <1>15, <1>21, <1>22, <2>1, <3>1, <4>1 DEF GreetInv, SameView
    <3> QED
      BY <2>2, <3>2, <3>3, <3>4, <3>5 DEF RequestInv
  <2> QED
    BY <2>3, <2>4
<1>24. ASSUME NEW c \in Clients PROVE ResponseInv(c, s)'
  <2>1. RcqInv(c, s) /\ RqInv(c, s) /\ BackInv(c, s)
    BY DEF IInv, ResponseInv
  <2>2. rpc[s] # "replyAck" /\ back' = [back EXCEPT ![s][n] = Append(@, m)] /\ m.ptr = d
    BY <1>2, <1>8, <1>11
  <2>3. CASE c = d
    <3>1. /\ rcq[d][s] = <<>>
          /\ \A o \in Nodes : \A k \in DOMAIN back[s][o] : back[s][o][k].ptr # d
      BY <1>1, <1>4, <1>6, NothingBack
    <3>2. RcqInv(d, s)'
      BY <1>15, <3>1 DEF RcqInv
    <3>3. RqInv(d, s)'
      BY <1>15, <1>16, <2>1, <2>3, RqStays
    <3>4. AnswerKept(d, s)
      BY <1>4 DEF AnswerKept
    <3>5. m.type = "ExpMsg" /\ m.verb = ResponseVerb /\ n = destinationNode(d)
          /\ m.body = Request(d)' /\ Served(d, s)' /\ area[d].flag = 0 /\ m.stage = "whole"
      BY <1>4, <1>5, <1>8, <1>16, <1>20
    <3>6. m.ptr = d =>
            /\ rcq[d][s] = <<>>
            /\ \A o \in Nodes : \A k \in DOMAIN back[s][o] : back[s][o][k].ptr # d
            /\ m.type = "ExpMsg" /\ m.verb = ResponseVerb /\ n = destinationNode(d)
            /\ m.body = Request(d)' /\ Served(d, s)' /\ area[d].flag = 0
            /\ m.stage = "whole"
      BY <3>1, <3>5
    <3>7. BackInv(d, s)'
      BY <1>15, <2>2, <3>4, <3>6, AnswerPosted
    <3> QED
      BY <2>3, <3>2, <3>3, <3>7 DEF ResponseInv
  <2>4. CASE c # d
    <3>1. AnswerKept(c, s) /\ RqInv(c, s)'
      BY <1>17, <2>4
    <3>2. RcqInv(c, s)'
      BY <1>15, <1>22, <2>1, <3>1, RcqStays
    <3>3. BackInv(c, s)'
      BY <1>15, <2>2, <2>4, <3>1, AnswerPosted
    <3> QED
      BY <3>1, <3>2, <3>3 DEF ResponseInv
  <2> QED
    BY <2>3, <2>4
<1>25. ASSUME NEW r \in Receivers \ {s} PROVE RequestInv(d, r)' /\ ResponseInv(d, r)'
  <2>1. /\ RequestInv(d, r) /\ RcqInv(d, r) /\ RqInv(d, r) /\ BackInv(d, r)
        /\ SameView(d, r) /\ AskKept(d, r) /\ AnswerKept(d, r) /\ LocalStays(r)
    BY <1>12, <1>16, SameViewIsKept DEF IInv, ResponseInv
  <2>2. (Replied(d, r)' <=> Replied(d, r)) /\ (InCq(d, r)' <=> InCq(d, r))
    BY <2>1 DEF Replied, InCq, LocalStays
  <2>3. WireInv(d, r)' /\ CqInv(d, r)' /\ SlotInv(d, r)' /\ HeldInv(d, r)'
    BY <1>15, <2>1, RequestStays
  <2>4. GreetInv(d, r)'
    BY <1>15, <2>1, <2>2, GreetStays DEF RequestInv, LocalStays, SameView
  <2>5. RcqInv(d, r)'
    BY <1>15, <2>1, <2>2, RcqStays
  <2>6. RqInv(d, r)'
    BY <1>15, <2>1, RqStays DEF SameView
  <2>7. BackInv(d, r)'
    BY <1>12, <1>15, <2>1, BackStays DEF LocalStays
  <2> QED
    BY <2>3, <2>4, <2>5, <2>6, <2>7 DEF RequestInv, ResponseInv
<1>26. ASSUME NEW c \in Clients \ {d}, NEW r \in Receivers \ {s}
       PROVE  RequestInv(c, r)' /\ ResponseInv(c, r)'
  BY <1>12, <1>14, <1>15, OtherClientStays
<1>27. ReceiverInv(s)'
  <2>1. StepInv(s)'
    <3>1. slot' = slot /\ (to = "repost" => ReceiverPoll = "SRQ")
      BY <1>1, <1>9, <1>11, ModeIsKnown DEF AllTypes
    <3> QED
      BY <1>1, <1>9, <1>12, <1>21, <3>1 DEF StepInv
  <2>2. PhaseInv(s)'
    BY <1>1, <1>2, <1>9, <1>11, <1>12, <1>21 DEF PhaseInv
  <2>3. SrqInv(s)'
    BY <1>1, <1>2, <1>9, <1>11, <1>12, <1>21 DEF SrqInv
  <2>4. ReceiverPoll # "BUF" => Busy(s)' /\ Taken(s)' = Taken(s)
    BY <1>9, <1>21 DEF Taken
  <2>5. IndexInv(s)'
    BY <1>1, <1>2, <1>11, <1>21, <2>4 DEF IndexInv
  <2>6. CountInv(s)'
    BY <1>1, <1>2, <1>11, <1>21, <2>4 DEF CountInv
  <2>7. ASSUME NEW c \in Clients PROVE Waiting(c, s)' <=> Waiting(c, s)
    BY <1>2, <1>9, <1>11, <1>12, <1>15, <1>21, <1>22 DEF Waiting
  <2>8. Counted(s)' = Counted(s)
    BY <1>18, <2>7 DEF Counted
  <2>9. Counting(s) = 0 /\ Counting(s)' = 0
    BY <1>2, <1>9, <1>12 DEF Counting
  <2>10. FinishInv(s)'
    BY <1>1, <1>11, <2>8, <2>9 DEF FinishInv
  <2> QED
    BY <2>1, <2>2, <2>3, <2>5, <2>6, <2>10 DEF ReceiverInv
<1>28. ASSUME NEW r \in Receivers PROVE ReceiverInv(r)'
  <2>1. CASE r = s
    BY <1>27, <2>1
  <2>2. CASE r # s
    <3>1. \A c \in Clients : (FinSent(c, r)' <=> FinSent(c, r)) /\ wire'[c][r] = wire[c][r]
      BY <1>15, <1>18
    <3>2. ReceiverInv(r) /\ LocalStays(r)
      BY <1>12, <2>2 DEF IInv
    <3> QED
      BY <3>1, <3>2, ReceiverStays
  <2> QED
    BY <2>1, <2>2
<1>29. \A c \in Clients : ClientInv(c)' /\ AreaInv(c)'
  BY <1>17, <1>19, <1>20
<1>30. \A c \in Clients, r \in Receivers : RequestInv(c, r)' /\ ResponseInv(c, r)'
  BY <1>23, <1>24, <1>25, <1>26
<1> QED
  BY <1>13, <1>28, <1>29, <1>30 DEF IInv

\* The receive of a request is posted again.
LEMMA RepostKeeps ==
  ASSUME IInv, mode' = mode, NEW s \in Receivers, Repost(s) PROVE IInv'
<1>1. /\ AllTypes /\ ReceiverInv(s) /\ StepInv(s) /\ PhaseInv(s) /\ SrqInv(s) /\ FinishInv(s)
      /\ IndexInv(s) /\ CountInv(s)
  BY DEF IInv, ReceiverInv
<1>2. /\ rpc[s] = "repost" /\ ReceiverPoll = "SRQ" /\ Past(s) /\ ~Working(s) /\ Busy(s)
      /\ Counting(s) = 0 /\ Taken(s) = 1
  BY <1>1 DEF Repost, ReceiverGoto, StepInv, Past, Working, Busy, Counting, Taken
<1> DEFINE e == [buf |-> "req", idx |-> cur[s]]
<1>3. e \in Receives /\ srq[s] \in Seq(Receives) /\ e.idx = cur[s] /\ e.idx \in Slots /\ e.buf = "req"
  <2>1. cur[s] \in Slots /\ Slots \subseteq Nat
    BY <1>1, ReceiverIs, MaxNodeIDIsKnown DEF AllTypes, Slots
  <2> QED
    BY <1>1, <2>1, ReceiverIs DEF AllTypes, Receives
<1> HIDE DEF e
<1>4. /\ rpc' = [rpc EXCEPT ![s] = "poll"] /\ srq' = [srq EXCEPT ![s] = Append(srq[s], e)]
      /\ UNCHANGED <<connected, slot, initBuf, replied, cq, cur, filledFrom, respBuffer, clientsFinished,
                     handledRequests, clientVars, fabricVars, historyVars>>
  <2>1. srq[s] \o <<e>> = Append(srq[s], e)
    BY <1>3
  <2>2. stepAfter("repost") = "poll"
    BY <1>1, <1>2, StepsAre DEF AllTypes
  <2> QED
    BY <1>1, <2>1, <2>2 DEF Repost, ReceiverGoto, receiveSRQ, AllTypes, ReceiverTypes, e
<1>5. /\ rpc'[s] = "poll" /\ srq'[s] = Append(srq[s], e)
      /\ \A r \in Receivers \ {s} : LocalStays(r)
      /\ wire' = wire /\ rnr' = rnr
  BY <1>1, <1>4 DEF AllTypes, ReceiverTypes, LocalStays, fabricVars
<1>6. /\ Len(srq[s]) \in Nat /\ Len(srq'[s]) = Len(srq[s]) + 1 /\ srq'[s] \in Seq(Receives)
      /\ DOMAIN srq[s] = 1 .. Len(srq[s]) /\ DOMAIN srq'[s] = 1 .. Len(srq[s]) + 1
      /\ \A k \in DOMAIN srq[s] : srq'[s][k] = srq[s][k]
      /\ srq'[s][Len(srq[s]) + 1] = e
  BY <1>3, <1>5, AppendIs
<1>7. AllTypes'
  <2>1. srq' \in [Receivers -> Seq(Receives)]
    BY <1>1, <1>4, <1>5, <1>6 DEF AllTypes, ReceiverTypes
  <2>2. ReceiverTypes'
    BY <1>1, <1>4, <2>1, ModeStays DEF AllTypes, ReceiverTypes, SlotTypes, ReceiverStates
  <2> QED
    BY <1>1, <1>4, <2>2, TypesStay DEF AllTypes
<1>8. ~Working(s)' /\ Past(s)' /\ ~Busy(s)' /\ Taken(s)' = 0 /\ Counting(s)' = 0
      /\ ReceiverPoll' = ReceiverPoll
  BY <1>5, ModeStays DEF Working, Past, Busy, Taken, Counting
<1>9. ASSUME NEW c \in Clients
      PROVE  RequestInv(c, s)' /\ (Replied(c, s) => Replied(c, s)') /\ (FinSent(c, s)' <=> FinSent(c, s))
             /\ (InCq(c, s)' <=> InCq(c, s))
  <2>1. Replied(c, s) => Replied(c, s)'
    BY <1>2, <1>4 DEF Replied
  <2>2. FinSent(c, s)' <=> FinSent(c, s)
    BY <1>4, ThreadStepIs
  <2>3. InCq(c, s)' <=> InCq(c, s)
    BY <1>4 DEF InCq
  <2>4. RequestInv(c, s)'
    BY <1>2, <1>4, <1>5, <1>8, <2>1, IdleRequestsStay
  <2> QED
    BY <2>1, <2>2, <2>3, <2>4
<1>10. ReceiverInv(s)'
  <2>1. StepInv(s)'
    BY <1>1, <1>4, <1>5, <1>8 DEF StepInv
  <2>2. PhaseInv(s)'
    BY <1>1, <1>2, <1>4, <1>5, <1>8 DEF PhaseInv
  <2>3. SrqInv(s)'
    BY <1>2, <1>5, <1>8 DEF SrqInv
  <2>4. IndexInv(s)'
    <3>1. /\ \A k \in DOMAIN srq[s] :
                /\ srq[s][k].buf = "req" /\ srq[s][k].idx \in Slots /\ srq[s][k].idx # cur[s]
                /\ \A l \in DOMAIN srq[s] : srq[s][l].idx = srq[s][k].idx => l = k
                /\ \A l \in DOMAIN cq[s] : cq[s][l].idx # srq[s][k].idx
          /\ \A k \in DOMAIN cq[s] : cq[s][k].idx # cur[s]
          /\ \A k, l \in DOMAIN cq[s] : cq[s][l].idx = cq[s][k].idx => l = k
      BY <1>1, <1>2 DEF IndexInv
    <3>2. ASSUME NEW k \in DOMAIN srq'[s]
          PROVE  /\ srq'[s][k].buf = "req" /\ srq'[s][k].idx \in Slots
                 /\ \A l \in DOMAIN srq'[s] : srq'[s][l].idx = srq'[s][k].idx => l = k
                 /\ \A l \in DOMAIN cq[s] : cq[s][l].idx # srq'[s][k].idx
      <4>1. \A l \in DOMAIN srq'[s] :
               \/ l \in DOMAIN srq[s] /\ srq'[s][l] = srq[s][l]
               \/ l = Len(srq[s]) + 1 /\ srq'[s][l] = e
        BY <1>6
      <4>2. CASE k \in DOMAIN srq[s] /\ srq'[s][k] = srq[s][k]
        <5>1. \A l \in DOMAIN srq'[s] : srq'[s][l].idx = srq'[s][k].idx => l = k
          BY <1>3, <3>1, <4>1, <4>2
        <5> QED
          BY <3>1, <4>2, <5>1
      <4>3. CASE k = Len(srq[s]) + 1 /\ srq'[s][k] = e
        <5>1. \A l \in DOMAIN srq'[s] : srq'[s][l].idx = srq'[s][k].idx => l = k
          BY <1>3, <3>1, <4>1, <4>3
        <5> QED
          BY <1>3, <3>1, <4>3, <5>1
      <4> QED
        BY <4>1, <4>2, <4>3
    <3> QED
      BY <1>4, <1>8, <3>1, <3>2 DEF IndexInv
  <2>5. CountInv(s)'
    <3>1. Len(srq[s]) + Len(cq[s]) + 1 + clientsFinished[s] = reqBufferLength
      BY <1>1, <1>2 DEF CountInv
    <3>2. PICK a \in Nat : a = Len(srq[s])
      BY <1>6
    <3>3. PICK b \in Nat : b = Len(cq[s])
      BY CqIs
    <3>4. PICK f \in Nat : f = clientsFinished[s]
      BY <1>1, ReceiverIs, ClientsAreCounted DEF AllTypes
    <3>5. a + b + 1 + f = reqBufferLength
      BY <3>1, <3>2, <3>3, <3>4
    <3>6. (a + 1) + b + 0 + f = reqBufferLength
      BY <3>5
    <3>7. Len(srq'[s]) = a + 1 /\ Len(cq'[s]) = b /\ clientsFinished'[s] = f
      BY <1>4, <1>6, <3>2, <3>3, <3>4
    <3> QED
      BY <1>8, <3>6, <3>7 DEF CountInv
  <2>6. ASSUME NEW c \in Clients PROVE Waiting(c, s)' <=> Waiting(c, s)
    BY <1>2, <1>5, <1>8, <1>9 DEF Waiting
  <2>7. Counted(s)' = Counted(s)
    BY <1>9, <2>6 DEF Counted
  <2>8. FinishInv(s)'
    BY <1>1, <1>2, <1>4, <1>8, <2>7 DEF FinishInv
  <2> QED
    BY <2>1, <2>2, <2>3, <2>4, <2>5, <2>8 DEF ReceiverInv
<1>11. \A c \in Clients : RequestInv(c, s)' /\ (Replied(c, s) => Replied(c, s)')
  BY <1>9
<1>12. rpc[s] # "replyAck" /\ UNCHANGED <<clientVars, fabricVars, historyVars>>
  BY <1>2, <1>4
<1> QED
  BY <1>5, <1>7, <1>10, <1>11, <1>12, ThreadStepKeeps

\* A FinishedExp is counted, and its slot is emptied unless it was the last.
LEMMA CountFinishedKeeps ==
  ASSUME IInv, mode' = mode, NEW s \in Receivers, CountFinished(s) PROVE IInv'
<1>1. /\ AllTypes /\ ReceiverInv(s) /\ StepInv(s) /\ PhaseInv(s) /\ SrqInv(s) /\ FinishInv(s)
      /\ IndexInv(s) /\ CountInv(s)
  BY DEF IInv, ReceiverInv
<1>2. /\ rpc[s] = "handle" /\ slot[s][cur[s]].type = "FinishedExp" /\ Past(s) /\ ~Working(s)
      /\ Busy(s) /\ Counting(s) = 1 /\ Taken(s) = 1
  BY DEF CountFinished, ReceiverGoto, Past, Working, Busy, Counting, Taken
<1>3. PICK x \in Slots : x = cur[s]
  BY <1>1, ReceiverIs DEF AllTypes
<1>4. PICK f \in Nat : f = clientsFinished[s] /\ f + 1 \in 0 .. expectedClients
  BY <1>1, <1>2, ReceiverIs, ClientsAreCounted DEF AllTypes, PhaseInv
<1>5. PICK last \in BOOLEAN : last <=> f + 1 = expectedClients
  OBVIOUS
<1>6. PICK to \in {"poll", "done"} : to = "done" <=> last
  OBVIOUS
<1>7. /\ rpc' = [rpc EXCEPT ![s] = to] /\ clientsFinished' = [clientsFinished EXCEPT ![s] = f + 1]
      /\ slot' = (IF ReceiverPoll = "BUF" /\ ~last THEN [slot EXCEPT ![s][x].type = "EMPTY"] ELSE slot)
      /\ UNCHANGED <<connected, initBuf, replied, srq, cq, cur, filledFrom, respBuffer, handledRequests,
                     clientVars, fabricVars, historyVars>>
  BY <1>1, <1>3, <1>4, <1>5, <1>6 DEF CountFinished, ReceiverGoto, emptied, AllTypes, ReceiverTypes
<1>8. slot[s] \in SlotTypes
  BY <1>1, ReceiverIs DEF AllTypes
<1>9. /\ slot' \in [Receivers -> SlotTypes] /\ \A r \in Receivers \ {s} : slot'[r] = slot[r]
      /\ \A y \in Slots : slot'[s][y].body = slot[s][y].body
      /\ \A y \in Slots \ {x} : slot'[s][y] = slot[s][y]
      /\ ReceiverPoll = "BUF" /\ ~last => slot'[s][x].type = "EMPTY"
      /\ ~(ReceiverPoll = "BUF" /\ ~last) => slot' = slot
  <2>1. CASE ReceiverPoll = "BUF" /\ ~last
    <3>1. slot' = [slot EXCEPT ![s] = [slot[s] EXCEPT ![x] = [slot[s][x] EXCEPT !.type = "EMPTY"]]]
      BY <1>1, <1>7, <1>8, <2>1 DEF AllTypes, ReceiverTypes, SlotTypes
    <3>2. slot[s][x] \in [type : Types, body : Bodies]
      BY <1>8 DEF SlotTypes
    <3>3. [slot[s][x] EXCEPT !.type = "EMPTY"] \in [type : Types, body : Bodies]
      BY <3>2 DEF Types
    <3>4. slot'[s] = [slot[s] EXCEPT ![x] = [slot[s][x] EXCEPT !.type = "EMPTY"]]
      BY <1>1, <3>1 DEF AllTypes, ReceiverTypes
    <3>5. slot'[s] \in SlotTypes
      BY <1>8, <3>3, <3>4 DEF SlotTypes
    <3>6. slot' \in [Receivers -> SlotTypes] /\ \A r \in Receivers \ {s} : slot'[r] = slot[r]
      BY <1>1, <3>1, <3>4, <3>5 DEF AllTypes, ReceiverTypes
    <3> QED
      BY <1>8, <2>1, <3>2, <3>4, <3>6 DEF SlotTypes
  <2>2. CASE ~(ReceiverPoll = "BUF" /\ ~last)
    <3>1. slot' = slot
      BY <1>7, <2>2
    <3> QED
      BY <1>1, <2>2, <3>1 DEF AllTypes, ReceiverTypes
  <2> QED
    BY <2>1, <2>2
<1>10. /\ rpc'[s] = to /\ clientsFinished'[s] = f + 1 /\ cur'[s] = x
       /\ \A r \in Receivers \ {s} : LocalStays(r)
       /\ wire' = wire /\ rnr' = rnr
  BY <1>1, <1>3, <1>7, <1>9 DEF AllTypes, ReceiverTypes, LocalStays, fabricVars
<1>11. AllTypes'
  <2>1. SlotTypes' = SlotTypes
    BY ModeStays DEF SlotTypes
  <2>2. clientsFinished' \in [Receivers -> 0 .. expectedClients]
    BY <1>1, <1>4, <1>7 DEF AllTypes, ReceiverTypes
  <2>3. ReceiverTypes'
    BY <1>1, <1>7, <1>9, <2>1, <2>2, ModeStays DEF AllTypes, ReceiverTypes, ReceiverStates
  <2> QED
    BY <1>1, <1>7, <2>3, TypesStay DEF AllTypes
<1>12. /\ ~Working(s)' /\ Past(s)' /\ ~Busy(s)' /\ Counting(s)' = 0 /\ Taken(s)' = 0
       /\ ReceiverPoll' = ReceiverPoll /\ RequestVerb' = RequestVerb
       /\ ReceiverPoll = "BUF" => cq[s] = <<>>
  BY <1>2, <1>10, ModeStays, CqIs DEF Working, Past, Busy, Counting, Taken
<1>13. ASSUME NEW c \in Clients
       PROVE  /\ ~Held(c, s)' /\ (InCq(c, s)' <=> InCq(c, s)) /\ (ReceiverPoll = "BUF" => ~InCq(c, s))
              /\ (Replied(c, s)' <=> Replied(c, s)) /\ (FinSent(c, s)' <=> FinSent(c, s))
              /\ NodeId[c] \in Slots
  <2>1. ~Held(c, s)'
    BY <1>12 DEF Held
  <2>2. InCq(c, s)' <=> InCq(c, s)
    BY <1>7 DEF InCq
  <2>3. ReceiverPoll = "BUF" => ~InCq(c, s)
    BY <1>12 DEF InCq
  <2>4. Replied(c, s)' <=> Replied(c, s)
    BY <1>2, <1>6, <1>7, <1>10 DEF Replied
  <2>5. FinSent(c, s)' <=> FinSent(c, s)
    BY <1>7, ThreadStepIs
  <2> QED
    BY <2>1, <2>2, <2>3, <2>4, <2>5, MaxNodeIDIsKnown
<1>14. ASSUME NEW c \in Clients PROVE RequestInv(c, s)'
  <2>1. /\ WireInv(c, s) /\ CqInv(c, s) /\ SlotInv(c, s) /\ GreetInv(c, s) /\ AskKept(c, s)
        /\ (Greeted(c, s)' <=> Greeted(c, s)) /\ (Pending(c, s)' <=> Pending(c, s))
    BY <1>7, ThreadStepIs
  <2>2. /\ slot'[s][NodeId[c]].body = slot[s][NodeId[c]].body
        /\ \/ slot'[s][NodeId[c]].type = "EMPTY"
           \/ slot'[s][NodeId[c]] = slot[s][NodeId[c]]
    BY <1>9, <1>13
  <2>3. WireInv(c, s)'
    <3>1. \A k \in DOMAIN wire[c][s] : SentBy(c, s, wire[c][s][k]) => SentBy(c, s, wire[c][s][k])'
      BY <1>10, <2>1 DEF SentBy, AskKept
    <3>2. slot[s][NodeId[c]].type = "EMPTY" => slot'[s][NodeId[c]].type = "EMPTY"
      BY <2>2
    <3> QED
      BY ZenonT(60), <1>7, <1>10, <1>12, <1>13, <2>1, <2>2, <3>1, <3>2 DEF WireInv, AskKept, SentBy
  <2>4. CqInv(c, s)'
    <3>1. CASE ReceiverPoll = "BUF"
      BY <1>13, <3>1 DEF CqInv, InCq
    <3>2. CASE ReceiverPoll # "BUF"
      <4>1. slot' = slot
        BY <1>9, <3>2
      <4> QED
        BY <1>2, <1>7, <1>12, <1>13, <2>1, <4>1, CqStays
    <3> QED
      BY <3>1, <3>2
  <2>5. SlotInv(c, s)'
    BY <1>12, <2>1, <2>2 DEF SlotInv, SentBy, AskKept
  <2>6. HeldInv(c, s)'
    BY <1>13 DEF HeldInv
  <2>7. GreetInv(c, s)'
    <3>1. rpc'[s] # "start" /\ connected'[s] = connected[s]
      BY <1>7, <1>10
    <3> QED
      BY <1>7, <1>10, <1>13, <2>1, <3>1, ThreadStepIs DEF GreetInv
  <2> QED
    BY <2>3, <2>4, <2>5, <2>6, <2>7 DEF RequestInv
<1>15. ReceiverInv(s)'
  <2>1. StepInv(s)'
    <3>1. \A y \in Slots : slot'[s][y].type # "EMPTY" => slot[s][y].type # "EMPTY"
      BY <1>9
    <3> QED
      BY <1>1, <1>6, <1>10, <1>12, <3>1 DEF StepInv
  <2>2. PhaseInv(s)'
    <3>1. replied'[s] = replied[s] /\ connected'[s] = connected[s] /\ expectedClients' = expectedClients
      BY <1>7 DEF expectedClients
    <3>2. rpc'[s] = "done" <=> clientsFinished'[s] = expectedClients
      BY <1>5, <1>6, <1>10
    <3> QED
      BY <1>1, <1>2, <1>6, <1>10, <1>12, <3>1, <3>2 DEF PhaseInv
  <2>3. SrqInv(s)'
    BY <1>1, <1>2, <1>6, <1>7, <1>10, <1>12 DEF SrqInv
  <2>4. IndexInv(s)'
    BY <1>1, <1>2, <1>7, <1>12 DEF IndexInv
  <2>5. CountInv(s)'
    <3>1. ReceiverPoll = "SRQ" => Len(srq[s]) + Len(cq[s]) + 1 + f = reqBufferLength
      BY <1>1, <1>2, <1>4 DEF CountInv
    <3>2. PICK a \in Nat : a = Len(srq[s])
      BY <1>1, ReceiverIs, SeqIs DEF AllTypes
    <3>3. PICK b \in Nat : b = Len(cq[s])
      BY CqIs
    <3>4. ASSUME ReceiverPoll = "SRQ" PROVE a + b + 0 + (f + 1) = reqBufferLength
      <4>1. a + b + 1 + f = reqBufferLength
        BY <3>1, <3>2, <3>3, <3>4
      <4>2. a + b + 0 + (f + 1) = a + b + 1 + f
        OBVIOUS
      <4> QED
        BY <4>1, <4>2
    <3>5. Len(srq'[s]) = a /\ Len(cq'[s]) = b
      BY <1>7, <3>2, <3>3
    <3> QED
      BY <1>10, <1>12, <3>4, <3>5 DEF CountInv
  <2>6. ASSUME NEW c \in Clients PROVE Waiting(c, s)' <=> Waiting(c, s)
    <3>1. CASE NodeId[c] = x
      BY <1>2, <1>3, <1>6, <1>9, <1>10, <1>12, <1>13, <3>1 DEF Waiting
    <3>2. CASE NodeId[c] # x
      <4>1. slot'[s][NodeId[c]] = slot[s][NodeId[c]]
        BY <1>9, <1>13, <3>2
      <4> QED
        BY <1>3, <1>10, <1>12, <1>13, <3>2, <4>1 DEF Waiting
    <3> QED
      BY <3>1, <3>2
  <2>7. Counted(s)' = Counted(s)
    BY <1>13, <2>6 DEF Counted
  <2>8. FinishInv(s)'
    BY <1>1, <1>2, <1>4, <1>10, <1>12, <2>7 DEF FinishInv
  <2> QED
    BY <2>1, <2>2, <2>3, <2>4, <2>5, <2>8 DEF ReceiverInv
<1>16. \A c \in Clients : RequestInv(c, s)' /\ (Replied(c, s) => Replied(c, s)')
  BY <1>13, <1>14
<1>17. rpc[s] # "replyAck" /\ UNCHANGED <<clientVars, fabricVars, historyVars>>
  BY <1>2, <1>7
<1> QED
  BY <1>10, <1>11, <1>15, <1>16, <1>17, ThreadStepKeeps

-----------------------------------------------------------------------------
(***************************************************************************)
(* The fabric brings a request to its receiver.                            *)
(***************************************************************************)

\* The arrival of a message of one client disturbs nobody else.
LEMMA RequestArrivalKeeps ==
  ASSUME IInv, AllTypes', mode' = mode, NEW c \in Clients, NEW s \in Receivers,
         UNCHANGED <<rpc, connected, replied, cur, filledFrom, respBuffer, clientsFinished, handledRequests,
                     clientVars, back, historyVars>>,
         \A r \in Receivers \ {s} : /\ slot'[r] = slot[r] /\ initBuf'[r] = initBuf[r]
                                    /\ srq'[r] = srq[r] /\ cq'[r] = cq[r],
         \A d \in Clients, r \in Receivers : d # c \/ r # s =>
            wire'[d][r] = wire[d][r] /\ (<<d, r>> \in rnr' => <<d, r>> \in rnr),
         StepInv(s)', SrqInv(s)', IndexInv(s)', CountInv(s)',
         rpc[s] = "handle" \/ Working(s) => slot'[s][cur[s]] = slot[s][cur[s]],
         ReceiverPoll = "BUF" => \A d \in Clients \ {c} : slot'[s][NodeId[d]] = slot[s][NodeId[d]],
         \A d \in Clients \ {c} : InCq(d, s)' <=> InCq(d, s),
         \A d \in Clients : CqInv(d, s)',
         WireInv(c, s)', SlotInv(c, s)', GreetInv(c, s)',
         FinSent(c, s) => (Waiting(c, s)' <=> Waiting(c, s))
  PROVE  IInv'
<1>1. \A r \in Receivers \ {s} : LocalStays(r)
  BY DEF LocalStays
<1>2. AllTypes /\ ReceiverInv(s) /\ PhaseInv(s) /\ FinishInv(s)
  BY DEF IInv, ReceiverInv
<1>3. /\ (Working(s)' <=> Working(s)) /\ (Past(s)' <=> Past(s)) /\ Counting(s)' = Counting(s)
      /\ ReceiverPoll' = ReceiverPoll /\ RequestVerb' = RequestVerb
  <2>1. Working(s)' <=> Working(s)
    <3>1. CASE rpc[s] = "handle"
      BY <3>1 DEF Working
    <3>2. CASE rpc[s] # "handle"
      BY <3>2 DEF Working
    <3> QED
      BY <3>1, <3>2
  <2>2. Past(s)' <=> Past(s)
    BY DEF Past
  <2>3. Counting(s)' = Counting(s)
    <3>1. CASE rpc[s] = "handle"
      BY <3>1 DEF Counting
    <3>2. CASE rpc[s] # "handle"
      BY <3>2 DEF Counting
    <3> QED
      BY <3>1, <3>2
  <2> QED
    BY <2>1, <2>2, <2>3, ModeStays
<1>4. ASSUME NEW d \in Clients
      PROVE  /\ (Held(d, s)' <=> Held(d, s)) /\ (Replied(d, s)' <=> Replied(d, s))
             /\ (FinSent(d, s)' <=> FinSent(d, s)) /\ HeldInv(d, s)'
  <2>1. Held(d, s)' <=> Held(d, s)
    BY <1>3 DEF Held
  <2>2. Replied(d, s)' <=> Replied(d, s)
    BY DEF Replied
  <2>3. (FinSent(d, s)' <=> FinSent(d, s)) /\ HeldInv(d, s) /\ AskKept(d, s)
    BY ThreadStepIs
  <2>4. HeldInv(d, s)'
    BY <1>3, <2>1, <2>3 DEF HeldInv, AskKept, Held
  <2> QED
    BY <2>1, <2>2, <2>3, <2>4
<1>5. ASSUME NEW d \in Clients PROVE RequestInv(d, s)'
  <2>1. CASE d = c
    BY <1>4, <2>1 DEF RequestInv
  <2>2. CASE d # c
    <3>1. /\ WireInv(d, s) /\ SlotInv(d, s) /\ GreetInv(d, s) /\ AskKept(d, s) /\ SameView(d, s)
          /\ wire'[d][s] = wire[d][s] /\ (<<d, s>> \in rnr' => <<d, s>> \in rnr)
          /\ (InCq(d, s)' <=> InCq(d, s)) /\ (Held(d, s)' <=> Held(d, s))
      BY <1>4, <2>2, ThreadStepIs
    <3>2. WireInv(d, s)'
      <4>1. ReceiverPoll = "BUF" => slot'[s][NodeId[d]] = slot[s][NodeId[d]]
        BY <2>2
      <4> QED
        BY <3>1, <4>1, WireStays
    <3>3. SlotInv(d, s)'
      <4>1. CASE ReceiverPoll = "BUF"
        BY <1>3, <2>2, <3>1, <4>1, SlotStays
      <4>2. CASE ReceiverPoll # "BUF"
        BY <1>3, <4>2 DEF SlotInv
      <4> QED
        BY <4>1, <4>2
    <3>4. GreetInv(d, s)'
      BY <3>1, GreetStays DEF SameView
    <3> QED
      BY <1>4, <3>2, <3>3, <3>4 DEF RequestInv
  <2> QED
    BY <2>1, <2>2
<1>6. ASSUME NEW d \in Clients PROVE RcqInv(d, s)' /\ BackInv(d, s)'
  <2>1. RcqInv(d, s) /\ BackInv(d, s) /\ AnswerKept(d, s) /\ rcq' = rcq /\ area' = area
    BY ThreadStepIs DEF clientVars
  <2>2. RcqInv(d, s)'
    BY <1>4, <2>1, RcqStays
  <2>3. BackInv(d, s)'
    BY <2>1, BackStays
  <2> QED
    BY <2>2, <2>3
<1>7. ReceiverInv(s)'
  <2>1. PhaseInv(s)'
    BY <1>2, <1>3 DEF PhaseInv
  <2>2. ASSUME NEW d \in Clients \ {c} PROVE Waiting(d, s)' <=> Waiting(d, s)
    <3>1. /\ wire'[d][s] = wire[d][s] /\ (InCq(d, s)' <=> InCq(d, s))
          /\ ReceiverPoll = "BUF" => slot'[s][NodeId[d]] = slot[s][NodeId[d]]
      OBVIOUS
    <3> QED
      BY <1>3, <3>1 DEF Waiting
  <2>3. Counted(s)' = Counted(s)
    BY <1>4, <2>2 DEF Counted
  <2>4. FinishInv(s)'
    BY <1>2, <1>3, <2>3 DEF FinishInv
  <2> QED
    BY <2>1, <2>4 DEF ReceiverInv
<1>8. \A r \in Receivers \ {s} : LocalStays(r) /\ back'[r] = back[r]
  BY <1>1
<1>9. \A d \in Clients, r \in Receivers \ {s} :
         wire'[d][r] = wire[d][r] /\ (<<d, r>> \in rnr' => <<d, r>> \in rnr)
  OBVIOUS
<1>10. \A d \in Clients : RequestInv(d, s)' /\ RcqInv(d, s)' /\ BackInv(d, s)'
  BY <1>5, <1>6
<1> QED
  BY <1>7, <1>8, <1>9, <1>10, ReceiverStepKeeps

\* The message on the wire.
LEMMA WireHead ==
  ASSUME IInv, NEW c \in Clients, NEW s \in Receivers, wire[c][s] # <<>>
  PROVE  /\ Head(wire[c][s]) \in RequestMsgs /\ wire[c][s] \in Seq(RequestMsgs)
         /\ Tail(wire[c][s]) = <<>> /\ Len(wire[c][s]) = 1 /\ wire[c][s] = <<Head(wire[c][s])>>
         /\ ~InCq(c, s) /\ ~Held(c, s) /\ <<c, s>> \notin rnr
         /\ LET m == Head(wire[c][s]) IN
            /\ m.stage = "body" => m.verb = "WRITE" /\ slot[s][NodeId[c]].body = m.body
            /\ \/ /\ m.type = "InitExp" /\ m.verb = "SEND" /\ ~Past(s)
                  /\ Pending(c, s) /\ c \notin ToSet(connected[s])
                  /\ ~FinSent(c, s)
               \/ /\ m.verb = RequestVerb /\ SentBy(c, s, m) /\ Past(s)
                  /\ ReceiverPoll = "BUF" => /\ m.at = NodeId[c]
                                             /\ slot[s][NodeId[c]].type = "EMPTY"
<1>1. AllTypes /\ WireInv(c, s) /\ GreetInv(c, s) /\ ClientInv(c) /\ PhaseInv(s)
  BY DEF IInv, RequestInv, ReceiverInv
<1>2. wire[c][s] \in Seq(RequestMsgs)
  BY <1>1 DEF AllTypes, FabricTypes
<1>3. /\ Head(wire[c][s]) = wire[c][s][1] /\ Head(wire[c][s]) \in RequestMsgs /\ 1 \in DOMAIN wire[c][s]
      /\ Tail(wire[c][s]) \in Seq(RequestMsgs) /\ Len(wire[c][s]) \in Nat \ {0}
      /\ Len(Tail(wire[c][s])) = Len(wire[c][s]) - 1
  BY <1>2, TailIs
<1>4. Len(wire[c][s]) = 1 /\ Tail(wire[c][s]) = <<>>
  <2>1. PICK n \in Nat \ {0} : n = Len(wire[c][s]) /\ Len(Tail(wire[c][s])) = n - 1
    BY <1>3
  <2>2. n <= 1
    BY <1>1, <2>1 DEF WireInv
  <2>3. n = 1 /\ n - 1 = 0
    BY <2>2
  <2> QED
    BY <1>3, <2>1, <2>3, SeqIs
<1>5. wire[c][s] = <<Head(wire[c][s])>>
  BY <1>2, <1>4
<1>6. PICK m \in RequestMsgs : m = Head(wire[c][s]) /\ m = wire[c][s][1]
  BY <1>3
<1>7. /\ ~InCq(c, s) /\ ~Held(c, s)
      /\ m.stage = "body" => m.verb = "WRITE" /\ slot[s][NodeId[c]].body = m.body
      /\ \/ /\ m.type = "InitExp" /\ m.verb = "SEND"
            /\ Pending(c, s) /\ c \notin ToSet(connected[s])
         \/ /\ m.verb = RequestVerb /\ SentBy(c, s, m)
            /\ ReceiverPoll = "BUF" => /\ m.at = NodeId[c]
                                       /\ slot[s][NodeId[c]].type = "EMPTY"
  BY <1>1, <1>3, <1>6 DEF WireInv
<1>8. SentBy(c, s, m) => Past(s)
  BY EarlyPhase
<1>9. Pending(c, s) => ~FinSent(c, s)
  BY <1>1, ViewsExclude DEF AllTypes
<1>10. c \notin ToSet(connected[s]) => ~Past(s)
  <2>1. SUFFICES ASSUME c \notin ToSet(connected[s]), Past(s) PROVE FALSE
    OBVIOUS
  <2>2. rpc[s] \in {"start", "initPoll"}
    BY <1>1, <2>1 DEF PhaseInv
  <2> QED
    BY <2>1, <2>2 DEF Past
<1>11. <<c, s>> \notin rnr
  BY <1>1 DEF GreetInv
<1> QED
  BY <1>2, <1>4, <1>5, <1>6, <1>7, <1>8, <1>9, <1>10, <1>11

\* A receiver that is done has counted every client.
LEMMA DoneIsComplete ==
  ASSUME IInv, NEW s \in Receivers, rpc[s] = "done", NEW c \in Clients
  PROVE  FinSent(c, s) /\ ~Waiting(c, s)
<1>1. PhaseInv(s) /\ FinishInv(s)
  BY DEF IInv, ReceiverInv
<1>2. clientsFinished[s] = expectedClients /\ Counting(s) = 0
  BY <1>1 DEF PhaseInv, Counting
<1>3. Cardinality(Counted(s)) = Cardinality(Clients)
  BY <1>1, <1>2, ClientsAreCounted DEF FinishInv, expectedClients
<1>4. Counted(s) \subseteq Clients
  BY DEF Counted
<1>5. Counted(s) = Clients
  BY <1>3, <1>4, ClientsAreCounted, FS_Subset
<1> QED
  BY <1>5 DEF Counted

\* A written request is for the empty slot of its client, which nobody reads.
LEMMA WrittenIs ==
  ASSUME IInv, NEW c \in Clients, NEW s \in Receivers, wire[c][s] # <<>>,
         Head(wire[c][s]).verb = "WRITE"
  PROVE  /\ ReceiverPoll = "BUF" /\ Past(s) /\ cq[s] = <<>> /\ SentBy(c, s, Head(wire[c][s]))
         /\ Head(wire[c][s]).at = NodeId[c] /\ slot[s][NodeId[c]].type = "EMPTY"
         /\ rpc[s] = "handle" \/ Working(s) => cur[s] # NodeId[c]
         /\ rpc[s] # "done"
<1>1. AllTypes /\ StepInv(s) /\ PhaseInv(s) /\ FinishInv(s)
  BY DEF IInv, ReceiverInv
<1>2. /\ ReceiverPoll = "BUF" /\ Past(s) /\ SentBy(c, s, Head(wire[c][s])) /\ ~Held(c, s)
      /\ Head(wire[c][s]).at = NodeId[c] /\ slot[s][NodeId[c]].type = "EMPTY"
  BY <1>1, WireHead, ModeIsKnown DEF AllTypes
<1>3. cq[s] = <<>>
  BY <1>2, CqIs
<1>4. rpc[s] = "handle" \/ Working(s) => cur[s] # NodeId[c]
  <2>1. CASE Working(s)
    <3>1. PICK d \in Clients : d = slot[s][cur[s]].body.ptr
      BY <1>1, <2>1 DEF StepInv
    <3>2. Held(d, s) /\ cur[s] = NodeId[d]
      BY <1>2, <2>1, <3>1, HeldIs
    <3> QED
      BY <1>2, <3>2, NodesAssumption
  <2>2. CASE rpc[s] = "handle" /\ ~Working(s)
    <3>1. slot[s][cur[s]].type # "EMPTY"
      BY <1>1, <2>2 DEF StepInv
    <3> QED
      BY <1>2, <3>1
  <2> QED
    BY <2>1, <2>2
<1>5. rpc[s] # "done"
  <2>1. SUFFICES ASSUME rpc[s] = "done" PROVE FALSE
    OBVIOUS
  <2>2. ~Waiting(c, s)
    BY <2>1, DoneIsComplete
  <2> QED
    BY <2>2 DEF Waiting
<1> QED
  BY <1>2, <1>3, <1>4, <1>5

\* The message is placed before its type.
LEMMA PlaceRequestBodyKeeps ==
  ASSUME IInv, mode' = mode, NEW c \in Clients, NEW s \in Receivers, PlaceRequestBody(c, s)
  PROVE  IInv'
<1>1. AllTypes /\ StepInv(s) /\ SrqInv(s)
  BY DEF IInv, ReceiverInv
<1>2. PICK m \in RequestMsgs : m = Head(wire[c][s])
  BY WireHead DEF PlaceRequestBody
<1>3. /\ wire[c][s] # <<>> /\ m.verb = "WRITE" /\ m.stage = "whole"
      /\ slot' = [slot EXCEPT ![s][m.at].body = m.body]
      /\ wire' = [wire EXCEPT ![c][s][1].stage = "body"]
      /\ UNCHANGED <<rpc, connected, initBuf, replied, srq, cq, cur, filledFrom, respBuffer, clientsFinished,
                     handledRequests, clientVars, back, rnr, historyVars>>
  BY <1>2 DEF PlaceRequestBody
<1>4. /\ ReceiverPoll = "BUF" /\ Past(s) /\ cq[s] = <<>> /\ SentBy(c, s, m)
      /\ m.at = NodeId[c] /\ slot[s][NodeId[c]].type = "EMPTY"
      /\ rpc[s] = "handle" \/ Working(s) => cur[s] # NodeId[c]
  BY <1>2, <1>3, WrittenIs
<1>5. /\ wire[c][s] = <<m>> /\ ~InCq(c, s) /\ ~Held(c, s) /\ <<c, s>> \notin rnr
      /\ m.verb = RequestVerb
  BY <1>1, <1>2, <1>3, <1>4, WireHead, ModeIsKnown DEF AllTypes
<1>6. PICK x \in Slots : x = NodeId[c]
  BY MaxNodeIDIsKnown
<1>7. slot[s] \in SlotTypes /\ cur[s] \in Slots /\ m.body \in Bodies /\ m.type \in Types /\ m.at \in Slots
  BY <1>1, ReceiverIs DEF AllTypes, RequestMsgs
<1>8. /\ slot' \in [Receivers -> SlotTypes] /\ \A r \in Receivers \ {s} : slot'[r] = slot[r]
      /\ slot'[s][x].body = m.body
      /\ \A y \in Slots : slot'[s][y].type = slot[s][y].type
      /\ \A y \in Slots \ {x} : slot'[s][y] = slot[s][y]
  <2>1. slot' = [slot EXCEPT ![s] = [slot[s] EXCEPT ![x] = [slot[s][x] EXCEPT !.body = m.body]]]
    BY <1>1, <1>3, <1>4, <1>6, <1>7 DEF AllTypes, ReceiverTypes, SlotTypes
  <2>2. slot[s][x] \in [type : Types, body : Bodies]
    BY <1>7 DEF SlotTypes
  <2>3. [slot[s][x] EXCEPT !.body = m.body] \in [type : Types, body : Bodies]
    BY <1>7, <2>2
  <2>4. slot'[s] = [slot[s] EXCEPT ![x] = [slot[s][x] EXCEPT !.body = m.body]]
    BY <1>1, <2>1 DEF AllTypes, ReceiverTypes
  <2>5. slot'[s] \in SlotTypes
    BY <1>7, <2>3, <2>4 DEF SlotTypes
  <2>6. slot' \in [Receivers -> SlotTypes] /\ \A r \in Receivers \ {s} : slot'[r] = slot[r]
    BY <1>1, <2>1, <2>4, <2>5 DEF AllTypes, ReceiverTypes
  <2> QED
    BY <1>7, <2>2, <2>4, <2>6 DEF SlotTypes
<1>9. PICK m2 \in RequestMsgs : m2 = [m EXCEPT !.stage = "body"]
  BY DEF RequestMsgs
<1>10. /\ wire' \in [Clients -> [Receivers -> Seq(RequestMsgs)]] /\ wire'[c][s] = <<m2>>
       /\ \A d \in Clients, r \in Receivers : d # c \/ r # s => wire'[d][r] = wire[d][r]
  <2>1. wire' = [wire EXCEPT ![c] = [wire[c] EXCEPT ![s] = [wire[c][s] EXCEPT ![1].stage = "body"]]]
    BY <1>1, <1>3 DEF AllTypes, FabricTypes
  <2>2. [wire[c][s] EXCEPT ![1].stage = "body"] = <<m2>>
    BY <1>5, <1>9
  <2>3. wire' = [wire EXCEPT ![c] = [wire[c] EXCEPT ![s] = <<m2>>]]
    BY <2>1, <2>2
  <2>4. <<m2>> \in Seq(RequestMsgs)
    OBVIOUS
  <2> QED
    BY <1>1, <2>3, <2>4 DEF AllTypes, FabricTypes
<1>11. AllTypes'
  <2>1. SlotTypes' = SlotTypes
    BY ModeStays DEF SlotTypes
  <2>2. ReceiverTypes'
    BY <1>1, <1>3, <1>8, <2>1, ModeStays DEF AllTypes, ReceiverTypes, ReceiverStates
  <2>3. FabricTypes'
    BY <1>1, <1>3, <1>10, ModeStays DEF AllTypes, FabricTypes, Nodes, Processes
  <2> QED
    BY <1>1, <1>3, <2>2, <2>3, TypesStay DEF AllTypes
<1>12. /\ ReceiverPoll' = ReceiverPoll /\ RequestVerb' = RequestVerb /\ EarlyInit' = EarlyInit
       /\ (Past(s)' <=> Past(s)) /\ cq'[s] = <<>>
       /\ rpc[s] = "handle" \/ Working(s) => slot'[s][cur[s]] = slot[s][cur[s]]
  BY <1>3, <1>4, <1>6, <1>7, <1>8, ModeStays DEF Past
<1>13. Working(s)' <=> Working(s)
  BY <1>3, <1>7, <1>8 DEF Working
<1>14. ASSUME NEW d \in Clients
       PROVE  CqInv(d, s)' /\ ~InCq(d, s)' /\ ~InCq(d, s)
              /\ (d # c => slot'[s][NodeId[d]] = slot[s][NodeId[d]])
  <2>1. ~InCq(d, s)' /\ ~InCq(d, s)
    BY <1>4, <1>12 DEF InCq
  <2>2. CqInv(d, s)'
    BY <1>12 DEF CqInv
  <2>3. d # c => NodeId[d] # x /\ NodeId[d] \in Slots
    BY <1>6, MaxNodeIDIsKnown, NodesAssumption
  <2> QED
    BY <1>8, <2>1, <2>2, <2>3
<1>15. AskKept(c, s) /\ GreetInv(c, s) /\ SameView(c, s)
  BY <1>3, ThreadStepIs
<1>16. WireInv(c, s)'
  <2>1. ~Held(c, s)'
    BY <1>3, <1>5, <1>12, <1>13 DEF Held
  <2>2. SentBy(c, s, m2)'
    BY <1>4, <1>9, <1>15 DEF SentBy, AskKept
  <2>3. /\ m2.verb = "WRITE" /\ m2.at = NodeId[c] /\ slot'[s][NodeId[c]].body = m2.body
        /\ slot'[s][NodeId[c]].type = "EMPTY" /\ m2.verb = RequestVerb
    BY <1>3, <1>4, <1>5, <1>6, <1>8, <1>9 DEF RequestMsgs
  <2>4. Len(<<m2>>) = 1 /\ \A k \in DOMAIN <<m2>> : <<m2>>[k] = m2
    OBVIOUS
  <2> QED
    BY <1>10, <1>12, <1>14, <2>1, <2>2, <2>3, <2>4 DEF WireInv
<1>17. SlotInv(c, s)'
  BY <1>4, <1>6, <1>8 DEF SlotInv
<1>18. GreetInv(c, s)'
  <2>1. Replied(c, s)' <=> Replied(c, s)
    BY <1>3 DEF Replied
  <2> QED
    BY <1>3, <1>5, <1>12, <1>15, <2>1 DEF GreetInv, SameView
<1>19. StepInv(s)'
  BY ZenonT(60), <1>1, <1>3, <1>7, <1>8, <1>12, <1>13 DEF StepInv
<1>20. SrqInv(s)' /\ IndexInv(s)' /\ CountInv(s)'
  <2>1. SrqInv(s)'
    BY <1>1, <1>3, <1>12 DEF SrqInv
  <2> QED
    BY <1>4, <1>12, <2>1 DEF IndexInv, CountInv
<1>21. Waiting(c, s)' <=> Waiting(c, s)
  BY <1>3, <1>10 DEF Waiting
<1>22. \A r \in Receivers \ {s} : slot'[r] = slot[r] /\ initBuf'[r] = initBuf[r]
                                  /\ srq'[r] = srq[r] /\ cq'[r] = cq[r]
  BY <1>3, <1>8
<1>23. \A d \in Clients, r \in Receivers : d # c \/ r # s =>
          wire'[d][r] = wire[d][r] /\ (<<d, r>> \in rnr' => <<d, r>> \in rnr)
  BY <1>3, <1>10
<1> QED
  BY <1>3, <1>11, <1>12, <1>14, <1>16, <1>17, <1>18, <1>19, <1>20, <1>21, <1>22, <1>23,
     RequestArrivalKeeps

\* With the type, the slot is taken.
LEMMA PlaceRequestTypeKeeps ==
  ASSUME IInv, mode' = mode, NEW c \in Clients, NEW s \in Receivers, PlaceRequestType(c, s)
  PROVE  IInv'
<1>1. AllTypes /\ StepInv(s) /\ SrqInv(s)
  BY DEF IInv, ReceiverInv
<1>2. PICK m \in RequestMsgs : m = Head(wire[c][s])
  BY WireHead DEF PlaceRequestType
<1>3. /\ wire[c][s] # <<>> /\ m.stage = "body"
      /\ slot' = [slot EXCEPT ![s][m.at].type = m.type]
      /\ wire' = [wire EXCEPT ![c][s] = Tail(@)]
      /\ UNCHANGED <<rpc, connected, initBuf, replied, srq, cq, cur, filledFrom, respBuffer, clientsFinished,
                     handledRequests, clientVars, back, rnr, historyVars>>
  BY <1>2 DEF PlaceRequestType
<1>4. /\ Tail(wire[c][s]) = <<>> /\ ~InCq(c, s) /\ ~Held(c, s) /\ <<c, s>> \notin rnr
      /\ m.verb = "WRITE" /\ slot[s][NodeId[c]].body = m.body
  BY <1>2, <1>3, WireHead
<1>5. /\ ReceiverPoll = "BUF" /\ Past(s) /\ cq[s] = <<>> /\ SentBy(c, s, m)
      /\ m.at = NodeId[c] /\ slot[s][NodeId[c]].type = "EMPTY"
      /\ rpc[s] = "handle" \/ Working(s) => cur[s] # NodeId[c]
      /\ rpc[s] # "done"
  BY <1>2, <1>3, <1>4, WrittenIs
<1>6. PICK x \in Slots : x = NodeId[c]
  BY MaxNodeIDIsKnown
<1>7. slot[s] \in SlotTypes /\ cur[s] \in Slots /\ m.body \in Bodies /\ m.type \in Types /\ m.at \in Slots
  BY <1>1, ReceiverIs DEF AllTypes, RequestMsgs
<1>8. /\ slot' \in [Receivers -> SlotTypes] /\ \A r \in Receivers \ {s} : slot'[r] = slot[r]
      /\ slot'[s][x].type = m.type /\ slot'[s][x].body = m.body
      /\ \A y \in Slots : slot'[s][y].body = slot[s][y].body
      /\ \A y \in Slots \ {x} : slot'[s][y] = slot[s][y]
  <2>1. slot' = [slot EXCEPT ![s] = [slot[s] EXCEPT ![x] = [slot[s][x] EXCEPT !.type = m.type]]]
    BY <1>1, <1>3, <1>5, <1>6, <1>7 DEF AllTypes, ReceiverTypes, SlotTypes
  <2>2. slot[s][x] \in [type : Types, body : Bodies]
    BY <1>7 DEF SlotTypes
  <2>3. [slot[s][x] EXCEPT !.type = m.type] \in [type : Types, body : Bodies]
    BY <1>7, <2>2
  <2>4. slot'[s] = [slot[s] EXCEPT ![x] = [slot[s][x] EXCEPT !.type = m.type]]
    BY <1>1, <2>1 DEF AllTypes, ReceiverTypes
  <2>5. slot'[s] \in SlotTypes
    BY <1>7, <2>3, <2>4 DEF SlotTypes
  <2>6. slot' \in [Receivers -> SlotTypes] /\ \A r \in Receivers \ {s} : slot'[r] = slot[r]
    BY <1>1, <2>1, <2>4, <2>5 DEF AllTypes, ReceiverTypes
  <2> QED
    BY <1>4, <1>6, <1>7, <2>2, <2>4, <2>6 DEF SlotTypes
<1>9. /\ wire' \in [Clients -> [Receivers -> Seq(RequestMsgs)]] /\ wire'[c][s] = <<>>
      /\ \A d \in Clients, r \in Receivers : d # c \/ r # s => wire'[d][r] = wire[d][r]
  <2>1. wire' = [wire EXCEPT ![c] = [wire[c] EXCEPT ![s] = <<>>]]
    BY <1>1, <1>3, <1>4 DEF AllTypes, FabricTypes
  <2>2. <<>> \in Seq(RequestMsgs)
    OBVIOUS
  <2> QED
    BY <1>1, <2>1, <2>2 DEF AllTypes, FabricTypes
<1>10. AllTypes'
  <2>1. SlotTypes' = SlotTypes
    BY ModeStays DEF SlotTypes
  <2>2. ReceiverTypes'
    BY <1>1, <1>3, <1>8, <2>1, ModeStays DEF AllTypes, ReceiverTypes, ReceiverStates
  <2>3. FabricTypes'
    BY <1>1, <1>3, <1>9, ModeStays DEF AllTypes, FabricTypes, Nodes, Processes
  <2> QED
    BY <1>1, <1>3, <2>2, <2>3, TypesStay DEF AllTypes
<1>11. /\ ReceiverPoll' = ReceiverPoll /\ EarlyInit' = EarlyInit
       /\ (Past(s)' <=> Past(s)) /\ cq'[s] = <<>>
       /\ rpc[s] = "handle" \/ Working(s) => slot'[s][cur[s]] = slot[s][cur[s]]
  BY <1>3, <1>5, <1>6, <1>7, <1>8, ModeStays DEF Past
<1>12. Working(s)' <=> Working(s)
  <2>1. CASE rpc[s] = "handle"
    BY <1>3, <1>11, <2>1 DEF Working
  <2>2. CASE rpc[s] # "handle"
    BY <1>3, <2>2 DEF Working
  <2> QED
    BY <2>1, <2>2
<1>13. ASSUME NEW d \in Clients
       PROVE  CqInv(d, s)' /\ ~InCq(d, s)' /\ ~InCq(d, s)
              /\ (d # c => slot'[s][NodeId[d]] = slot[s][NodeId[d]])
  <2>1. ~InCq(d, s)' /\ ~InCq(d, s)
    BY <1>5, <1>11 DEF InCq
  <2>2. CqInv(d, s)'
    BY <1>11 DEF CqInv
  <2>3. d # c => NodeId[d] # x /\ NodeId[d] \in Slots
    BY <1>6, MaxNodeIDIsKnown, NodesAssumption
  <2> QED
    BY <1>8, <2>1, <2>2, <2>3
<1>14. AskKept(c, s) /\ GreetInv(c, s) /\ SameView(c, s) /\ ClientInv(c)
  BY <1>3, ThreadStepIs DEF IInv
<1>15. WireInv(c, s)'
  BY <1>9 DEF WireInv
<1>16. SlotInv(c, s)'
  BY <1>5, <1>6, <1>8, <1>11, <1>14 DEF SlotInv, SentBy, AskKept
<1>17. GreetInv(c, s)'
  <2>1. Replied(c, s)' <=> Replied(c, s)
    BY <1>3 DEF Replied
  <2> QED
    BY <1>3, <1>4, <1>11, <1>14, <2>1 DEF GreetInv, SameView
<1>18. StepInv(s)'
  <2>1. \A y \in Slots : slot'[s][y].type # "EMPTY" => \E d \in Clients : NodeId[d] = y
    BY <1>1, <1>5, <1>6, <1>8 DEF StepInv
  <2>2. rpc[s] = "transfer" \/ rpc[s] = "finalize" => Working(s)
    BY DEF Working
  <2> QED
    BY <1>1, <1>3, <1>11, <1>12, <2>1, <2>2 DEF StepInv
<1>19. SrqInv(s)' /\ IndexInv(s)' /\ CountInv(s)'
  <2>1. SrqInv(s)'
    BY <1>1, <1>3, <1>11 DEF SrqInv
  <2> QED
    BY <1>5, <1>11, <2>1 DEF IndexInv, CountInv
<1>20. FinSent(c, s) => (Waiting(c, s)' <=> Waiting(c, s))
  <2>1. SUFFICES ASSUME FinSent(c, s) PROVE Waiting(c, s)' /\ Waiting(c, s)
    OBVIOUS
  <2>2. m.type = "FinishedExp"
    BY <1>1, <1>5, <1>14, <2>1, ViewsExclude DEF SentBy, AllTypes
  <2>3. ~(rpc'[s] \in {"handle", "done"} /\ cur'[s] = NodeId[c])
    BY <1>3, <1>5
  <2> QED
    BY <1>3, <1>5, <1>6, <1>8, <1>11, <2>2, <2>3 DEF Waiting
<1>21. \A r \in Receivers \ {s} : slot'[r] = slot[r] /\ initBuf'[r] = initBuf[r]
                                  /\ srq'[r] = srq[r] /\ cq'[r] = cq[r]
  BY <1>3, <1>8
<1>22. \A d \in Clients, r \in Receivers : d # c \/ r # s =>
          wire'[d][r] = wire[d][r] /\ (<<d, r>> \in rnr' => <<d, r>> \in rnr)
  BY <1>3, <1>9
<1> QED
  BY <1>3, <1>10, <1>11, <1>13, <1>15, <1>16, <1>17, <1>18, <1>19, <1>20, <1>21, <1>22,
     RequestArrivalKeeps

\* Each client has one completion at most, so that those who have none leave room.
LEMMA CqFits ==
  ASSUME IInv, NEW s \in Receivers, NEW c \in Clients, ~InCq(c, s),
         NEW T \in SUBSET Clients, c \notin T, \A d \in Clients : InCq(d, s) => d \notin T
  PROVE  /\ Cardinality(T) \in Nat /\ Len(cq[s]) \in Nat
         /\ Len(cq[s]) + Cardinality(T) + 1 <= expectedClients
<1> DEFINE rest == Clients \ (T \cup {c})
           nodes == [k \in 1 .. Len(cq[s]) |-> cq[s][k].node]
<1>1. /\ Len(cq[s]) \in Nat /\ DOMAIN cq[s] = 1 .. Len(cq[s])
      /\ \A k \in DOMAIN cq[s] : /\ cq[s][k].node \in Clients /\ InCq(cq[s][k].node, s)
                                 /\ CqInv(cq[s][k].node, s)
  BY CqIs
<1>2. /\ IsFiniteSet(Clients) /\ IsFiniteSet(T) /\ IsFiniteSet(T \cup {c}) /\ IsFiniteSet(rest)
      /\ Cardinality(T) \in Nat /\ Cardinality(rest) \in Nat /\ Cardinality(Clients) \in Nat
      /\ Cardinality(T \cup {c}) = Cardinality(T) + 1
  <2>1. IsFiniteSet(Clients) /\ IsFiniteSet(T) /\ IsFiniteSet(rest)
    BY ClientsAreCounted, FS_Subset
  <2> QED
    BY <2>1, FS_AddElement, FS_CardinalityType
<1>3. Cardinality(rest) = Cardinality(Clients) - (Cardinality(T) + 1)
  <2>1. Clients \cap (T \cup {c}) = T \cup {c}
    OBVIOUS
  <2>2. Cardinality(rest) = Cardinality(Clients) - Cardinality(Clients \cap (T \cup {c}))
    BY <1>2, FS_Difference
  <2> QED
    BY <1>2, <2>1, <2>2
<1>4. nodes \in Seq(rest) /\ Len(nodes) = Len(cq[s])
  <2>1. \A k \in 1 .. Len(cq[s]) : cq[s][k].node \in rest
    BY <1>1
  <2>2. nodes \in [1 .. Len(cq[s]) -> rest]
    BY <2>1
  <2> QED
    BY <1>1, <2>2
<1>5. IsInjective(nodes)
  <2>1. \A k, l \in 1 .. Len(cq[s]) : cq[s][k].node = cq[s][l].node => k = l
    BY <1>1 DEF CqInv
  <2>2. DOMAIN nodes = 1 .. Len(cq[s]) /\ \A k \in 1 .. Len(cq[s]) : nodes[k] = cq[s][k].node
    OBVIOUS
  <2> HIDE DEF nodes
  <2> QED
    BY <2>1, <2>2 DEF IsInjective
<1>6. Len(cq[s]) <= Cardinality(rest)
  <2> HIDE DEF nodes, rest
  <2> QED
    BY <1>2, <1>4, <1>5, InjectiveLen
<1> QED
  BY <1>1, <1>2, <1>3, <1>6 DEF expectedClients

\* Only an early Init message finds no receive, when the buffer is large enough.
LEMMA ReceivesSuffice ==
  ASSUME IInv, NEW c \in Clients, NEW s \in Receivers, wire[c][s] # <<>>,
         Head(wire[c][s]).verb = "SEND", srq[s] = <<>>,
         RequestVerb = "SEND" => maxNodeID >= expectedClients
  PROVE  EarlyInit /\ Pending(c, s) /\ c \notin ToSet(connected[s]) /\ rpc[s] = "start"
<1>1. AllTypes /\ PhaseInv(s) /\ SrqInv(s) /\ CountInv(s) /\ FinishInv(s) /\ GreetInv(c, s)
  BY DEF IInv, ReceiverInv, RequestInv
<1>2. ~InCq(c, s) /\ (Past(s) => Head(wire[c][s]).verb = RequestVerb)
      /\ (~Past(s) => Pending(c, s) /\ c \notin ToSet(connected[s]))
  BY WireHead
<1>3. Len(srq[s]) = 0 /\ expectedClients \in Nat
  BY <1>1, ClientsAreCounted
<1>4. ~Past(s)
  <2>1. SUFFICES ASSUME Past(s) PROVE FALSE
    OBVIOUS
  <2>2. ReceiverPoll = "SRQ" /\ maxNodeID >= expectedClients /\ maxNodeID \in Nat
    BY <1>1, <1>2, <2>1, ModeIsKnown, MaxNodeIDIsKnown DEF AllTypes
  <2>3. c \notin Counted(s) /\ Counted(s) \in SUBSET Clients
        /\ \A d \in Clients : InCq(d, s) => d \notin Counted(s)
    BY DEF Counted, Waiting
  <2>4. Len(cq[s]) + Cardinality(Counted(s)) + 1 <= expectedClients
        /\ Len(cq[s]) \in Nat /\ Cardinality(Counted(s)) \in Nat
    BY <1>2, <2>3, CqFits
  <2>5. PICK q \in Nat : q = Len(cq[s])
    BY <2>4
  <2>6. PICK t \in {0, 1} : t = Taken(s)
    BY DEF Taken
  <2>7. PICK g \in {0, 1} : g = Counting(s)
    BY DEF Counting
  <2>8. PICK f \in Nat : f = clientsFinished[s]
    BY <1>1, <1>3, ReceiverIs DEF AllTypes
  <2>9. f + g = Cardinality(Counted(s))
    BY <1>1, <2>7, <2>8 DEF FinishInv
  <2>10. 0 + q + t + f = maxNodeID + 1
    BY <1>1, <1>3, <2>1, <2>2, <2>5, <2>6, <2>8 DEF CountInv, reqBufferLength
  <2>11. q + (f + g) + 1 <= expectedClients
    BY <2>4, <2>5, <2>9
  <2>12. PICK n, m \in Nat : n = expectedClients /\ m = maxNodeID
    BY <1>3, <2>2
  <2>13. m >= n /\ 0 + q + t + f = m + 1 /\ q + (f + g) + 1 <= n
    BY <2>2, <2>10, <2>11, <2>12
  <2> QED
    BY <2>13
<1>5. rpc[s] # "initPoll"
  <2>1. SUFFICES ASSUME rpc[s] = "initPoll" PROVE FALSE
    OBVIOUS
  <2>2. connected[s] \in Seq(Clients) /\ IsInjective(connected[s]) /\ Len(connected[s]) \in Nat
    BY <1>1, ReceiverIs DEF AllTypes, PhaseInv
  <2>3. Cardinality(ToSet(connected[s])) = Len(connected[s]) /\ ToSet(connected[s]) \in SUBSET Clients
    <3>1. ToSet(connected[s]) \in SUBSET Clients
      BY <2>2 DEF ToSet
    <3> QED
      BY <2>2, <3>1, ClientsAreCounted, InjectiveLen
  <2>4. \A d \in Clients : InCq(d, s) => d \notin ToSet(connected[s])
    <3>1. \A d \in Clients : CqInv(d, s)
      BY DEF IInv, RequestInv
    <3> QED
      BY <2>1, <3>1 DEF CqInv, InCq, Past
  <2>5. Len(cq[s]) + Len(connected[s]) + 1 <= expectedClients /\ Len(cq[s]) \in Nat
    BY <1>2, <1>4, <2>3, <2>4, CqFits
  <2>6. 0 + Len(cq[s]) + Len(connected[s]) = expectedClients
    BY <1>1, <1>3, <2>1 DEF SrqInv
  <2>7. PICK q, p \in Nat : q = Len(cq[s]) /\ p = Len(connected[s])
    BY <2>2, <2>5
  <2>8. PICK n \in Nat : n = expectedClients
    BY <1>3
  <2>9. 0 + q + p = n /\ q + p + 1 <= n
    BY <2>5, <2>6, <2>7, <2>8
  <2> QED
    BY <2>9
<1>6. rpc[s] = "start"
  <2>1. rpc[s] \in {"start", "initPoll", "prepare"}
    BY <1>4 DEF Past
  <2>2. rpc[s] # "prepare"
    BY <1>1, <1>2, <1>4 DEF PhaseInv
  <2> QED
    BY <1>5, <2>1, <2>2
<1>7. EarlyInit
  BY <1>1, <1>2, <1>4, <1>6 DEF GreetInv
<1> QED
  BY <1>2, <1>4, <1>6, <1>7

\* A SEND without a receive breaks the connection.
LEMMA DeliverNothingKeeps ==
  ASSUME IInv, mode' = mode, NEW c \in Clients, NEW s \in Receivers, DeliverRequestSend(c, s),
         srq[s] = <<>>, RequestVerb = "SEND" => maxNodeID >= expectedClients
  PROVE  IInv'
<1>1. AllTypes /\ ReceiverInv(s) /\ StepInv(s) /\ SrqInv(s) /\ IndexInv(s) /\ CountInv(s)
  BY DEF IInv, ReceiverInv
<1>2. /\ wire[c][s] # <<>> /\ Head(wire[c][s]).verb = "SEND"
      /\ rnr' = rnr \cup {<<c, s>>} /\ wire' = [wire EXCEPT ![c][s] = <<>>]
      /\ UNCHANGED <<rpc, connected, slot, initBuf, replied, srq, cq, cur, filledFrom, respBuffer, clientsFinished,
                     handledRequests, clientVars, back, historyVars>>
  BY DEF DeliverRequestSend
<1>3. EarlyInit /\ Pending(c, s) /\ c \notin ToSet(connected[s]) /\ rpc[s] = "start"
  BY <1>2, ReceivesSuffice
<1>4. ~InCq(c, s) /\ ~Past(s)
  BY <1>2, <1>3, WireHead DEF Past
<1>5. /\ wire' \in [Clients -> [Receivers -> Seq(RequestMsgs)]] /\ wire'[c][s] = <<>>
      /\ \A d \in Clients, r \in Receivers : d # c \/ r # s => wire'[d][r] = wire[d][r]
  <2>1. wire' = [wire EXCEPT ![c] = [wire[c] EXCEPT ![s] = <<>>]]
    BY <1>1, <1>2 DEF AllTypes, FabricTypes
  <2>2. <<>> \in Seq(RequestMsgs)
    OBVIOUS
  <2> QED
    BY <1>1, <2>1, <2>2 DEF AllTypes, FabricTypes
<1>6. AllTypes'
  <2>1. ReceiverTypes'
    BY <1>1, <1>2, ModeStays DEF AllTypes, ReceiverTypes, SlotTypes, ReceiverStates
  <2>2. rnr' \subseteq Clients \X Receivers
    BY <1>1, <1>2 DEF AllTypes, FabricTypes
  <2>3. FabricTypes'
    BY <1>1, <1>2, <1>5, <2>2, ModeStays DEF AllTypes, FabricTypes, Nodes, Processes
  <2> QED
    BY <1>1, <1>2, <2>1, <2>3, TypesStay DEF AllTypes
<1>7. LocalStays(s) /\ ReceiverPoll' = ReceiverPoll /\ EarlyInit' = EarlyInit
  BY <1>2, ModeStays DEF LocalStays
<1>8. ASSUME NEW d \in Clients
      PROVE  /\ SameView(d, s) /\ AskKept(d, s) /\ (InCq(d, s)' <=> InCq(d, s))
             /\ CqInv(d, s)' /\ SlotInv(d, s)
  <2>1. SameView(d, s) /\ AskKept(d, s) /\ CqInv(d, s) /\ HeldInv(d, s) /\ SlotInv(d, s)
    BY <1>2, ThreadStepIs
  <2>2. InCq(d, s)' <=> InCq(d, s)
    BY <1>2 DEF InCq
  <2>3. Held(d, s)' <=> Held(d, s)
    BY <1>2 DEF Held, Working
  <2>4. CqInv(d, s)'
    BY <1>2, <2>1, <2>3, CqStays
  <2> QED
    BY <2>1, <2>2, <2>4
<1>9. WireInv(c, s)'
  BY <1>5 DEF WireInv
<1>10. SlotInv(c, s)'
  <2>1. Past(s) => Past(s)'
    BY <1>4
  <2> QED
    BY <1>2, <1>8, <2>1, SlotStays
<1>11. GreetInv(c, s)'
  <2>1. GreetInv(c, s) /\ (Replied(c, s)' <=> Replied(c, s))
    BY <1>2 DEF IInv, RequestInv, Replied
  <2> QED
    BY <1>2, <1>3, <1>4, <1>5, <1>7, <1>8, <2>1 DEF GreetInv, SameView
<1>12. StepInv(s)' /\ SrqInv(s)' /\ IndexInv(s)' /\ CountInv(s)'
  <2>1. ~Working(s)' /\ ~Past(s)'
    BY <1>2, <1>3 DEF Working, Past
  <2>2. StepInv(s)'
    BY <1>1, <1>2, <1>3, <1>7, <2>1 DEF StepInv
  <2>3. SrqInv(s)'
    BY <1>1, <1>2, <1>3, <1>7, <2>1 DEF SrqInv
  <2> QED
    BY <2>1, <2>2, <2>3 DEF IndexInv, CountInv
<1>13. ~FinSent(c, s)
  BY <1>4, EarlyPhase
<1>14. \A r \in Receivers \ {s} : slot'[r] = slot[r] /\ initBuf'[r] = initBuf[r]
                                  /\ srq'[r] = srq[r] /\ cq'[r] = cq[r]
  BY <1>2
<1>15. \A d \in Clients, r \in Receivers : d # c \/ r # s =>
          wire'[d][r] = wire[d][r] /\ (<<d, r>> \in rnr' => <<d, r>> \in rnr)
  BY <1>2, <1>5
<1> QED
  BY <1>2, <1>6, <1>8, <1>9, <1>10, <1>11, <1>12, <1>13, <1>14, <1>15, RequestArrivalKeeps

\* A receive of the init phase takes an Init message.
LEMMA DeliverInitKeeps ==
  ASSUME IInv, mode' = mode, NEW c \in Clients, NEW s \in Receivers, DeliverRequestSend(c, s),
         srq[s] # <<>>, rpc[s] = "initPoll"
  PROVE  IInv'
<1>1. AllTypes /\ StepInv(s) /\ SrqInv(s)
  BY DEF IInv, ReceiverInv
<1>2. ~Past(s) /\ ~Working(s) /\ wire[c][s] # <<>>
  BY DEF Past, Working, DeliverRequestSend
<1>3. PICK m \in RequestMsgs : m = Head(wire[c][s])
  BY <1>2, WireHead
<1>4. /\ Tail(wire[c][s]) = <<>> /\ ~InCq(c, s) /\ <<c, s>> \notin rnr /\ m.type = "InitExp"
      /\ Pending(c, s) /\ c \notin ToSet(connected[s]) /\ ~FinSent(c, s)
  BY <1>2, <1>3, WireHead
<1>5. /\ srq[s] \in Seq(Receives) /\ Head(srq[s]) = srq[s][1] /\ 1 \in DOMAIN srq[s]
      /\ Head(srq[s]) \in Receives /\ Tail(srq[s]) \in Seq(Receives)
      /\ Len(srq[s]) \in Nat \ {0} /\ Len(Tail(srq[s])) = Len(srq[s]) - 1
      /\ \A k \in DOMAIN Tail(srq[s]) : k + 1 \in DOMAIN srq[s] /\ Tail(srq[s])[k] = srq[s][k + 1]
  BY <1>1, ReceiverIs, TailIs DEF AllTypes
<1>6. PICK x \in 0 .. expectedClients - 1 : x = Head(srq[s]).idx /\ Head(srq[s]).buf = "init"
  <2>1. Head(srq[s]).idx \in Nat
    BY <1>5 DEF Receives
  <2>2. Head(srq[s]).buf = "init" /\ Head(srq[s]).idx < expectedClients
    BY <1>1, <1>5 DEF SrqInv
  <2> QED
    BY <2>1, <2>2, ClientsAreCounted
<1> DEFINE e == [node |-> c, buf |-> "init", idx |-> x]
<1>7. e \in Completions /\ e.node = c /\ e.buf = "init" /\ e.idx = x
  BY ClientsAreCounted DEF Completions
<1> HIDE DEF e
<1>8. /\ srq' = [srq EXCEPT ![s] = Tail(@)] /\ cq' = [cq EXCEPT ![s] = Append(@, e)]
      /\ initBuf' = [initBuf EXCEPT ![s][x] = "InitExp"]
      /\ wire' = [wire EXCEPT ![c][s] = Tail(@)]
      /\ UNCHANGED <<rpc, connected, slot, replied, cur, filledFrom, respBuffer, clientsFinished,
                     handledRequests, clientVars, back, rnr, historyVars>>
  BY <1>3, <1>4, <1>6 DEF DeliverRequestSend, e
<1>9. /\ wire' \in [Clients -> [Receivers -> Seq(RequestMsgs)]] /\ wire'[c][s] = <<>>
      /\ \A d \in Clients, r \in Receivers : d # c \/ r # s => wire'[d][r] = wire[d][r]
  <2>1. wire' = [wire EXCEPT ![c] = [wire[c] EXCEPT ![s] = <<>>]]
    BY <1>1, <1>4, <1>8 DEF AllTypes, FabricTypes
  <2>2. <<>> \in Seq(RequestMsgs)
    OBVIOUS
  <2> QED
    BY <1>1, <2>1, <2>2 DEF AllTypes, FabricTypes
<1>10. /\ cq[s] \in Seq(Completions) /\ cq'[s] = Append(cq[s], e) /\ srq'[s] = Tail(srq[s])
       /\ \A r \in Receivers \ {s} : initBuf'[r] = initBuf[r] /\ srq'[r] = srq[r] /\ cq'[r] = cq[r]
  BY <1>1, <1>8 DEF AllTypes, ReceiverTypes
<1>11. /\ Len(cq[s]) \in Nat /\ Len(cq'[s]) = Len(cq[s]) + 1 /\ cq'[s] \in Seq(Completions)
       /\ DOMAIN cq[s] = 1 .. Len(cq[s]) /\ DOMAIN cq'[s] = 1 .. Len(cq[s]) + 1
       /\ \A k \in DOMAIN cq[s] : cq'[s][k] = cq[s][k]
       /\ cq'[s][Len(cq[s]) + 1] = e
  BY <1>7, <1>10, AppendIs
<1>12. /\ initBuf' \in [Receivers -> [0 .. expectedClients - 1 -> Types]]
       /\ initBuf'[s][x] = "InitExp"
       /\ \A y \in 0 .. expectedClients - 1 : initBuf[s][y] = "InitExp" => initBuf'[s][y] = "InitExp"
  <2>1. initBuf' = [initBuf EXCEPT ![s] = [initBuf[s] EXCEPT ![x] = "InitExp"]]
    BY <1>1, <1>8 DEF AllTypes, ReceiverTypes
  <2>2. initBuf[s] \in [0 .. expectedClients - 1 -> Types] /\ "InitExp" \in Types
    BY <1>1 DEF AllTypes, ReceiverTypes, Types
  <2>3. [initBuf[s] EXCEPT ![x] = "InitExp"] \in [0 .. expectedClients - 1 -> Types]
    BY <2>2
  <2>4. initBuf'[s] = [initBuf[s] EXCEPT ![x] = "InitExp"]
    BY <1>1, <2>1 DEF AllTypes, ReceiverTypes
  <2>5. initBuf' \in [Receivers -> [0 .. expectedClients - 1 -> Types]]
    BY <1>1, <2>1, <2>3 DEF AllTypes, ReceiverTypes
  <2> QED
    BY <2>2, <2>4, <2>5
<1>13. AllTypes'
  <2>1. srq' \in [Receivers -> Seq(Receives)] /\ cq' \in [Receivers -> Seq(Completions)]
    BY <1>1, <1>5, <1>8, <1>10, <1>11 DEF AllTypes, ReceiverTypes
  <2>2. ReceiverTypes'
    BY <1>1, <1>8, <1>12, <2>1, ModeStays DEF AllTypes, ReceiverTypes, SlotTypes, ReceiverStates
  <2>3. FabricTypes'
    BY <1>1, <1>8, <1>9, ModeStays DEF AllTypes, FabricTypes, Nodes, Processes
  <2> QED
    BY <1>1, <1>8, <2>2, <2>3, TypesStay DEF AllTypes
<1>14. /\ ReceiverPoll' = ReceiverPoll /\ EarlyInit' = EarlyInit
       /\ ~Past(s)' /\ ~Working(s)' /\ rpc'[s] = "initPoll"
  BY <1>1, <1>8, ModeStays DEF Past, Working
<1>15. ASSUME NEW d \in Clients
       PROVE  /\ SameView(d, s) /\ AskKept(d, s) /\ ~Held(d, s)' /\ CqInv(d, s)
              /\ d # c => (InCq(d, s)' <=> InCq(d, s))
  <2>1. SameView(d, s) /\ AskKept(d, s) /\ CqInv(d, s)
    BY <1>8, ThreadStepIs
  <2>2. ~Held(d, s)'
    BY <1>14 DEF Held
  <2>3. ASSUME d # c PROVE InCq(d, s)' <=> InCq(d, s)
    <3>1. \A l \in DOMAIN cq'[s] : \/ l \in DOMAIN cq[s] /\ cq'[s][l] = cq[s][l]
                                   \/ cq'[s][l] = e
      BY <1>11
    <3>2. DOMAIN cq[s] \subseteq DOMAIN cq'[s]
      BY <1>11
    <3> QED
      BY <1>7, <1>11, <2>3, <3>1, <3>2 DEF InCq
  <2> QED
    BY <2>1, <2>2, <2>3
<1>16. ASSUME NEW d \in Clients PROVE CqInv(d, s)'
  <2>1. SUFFICES ASSUME NEW k \in DOMAIN cq'[s], cq'[s][k].node = d
                 PROVE  /\ \A l \in DOMAIN cq'[s] : cq'[s][l].node = d => l = k
                        /\ cq'[s][k].buf = "init" /\ cq'[s][k].idx \in 0 .. expectedClients - 1
                        /\ initBuf'[s][cq'[s][k].idx] = "InitExp"
                        /\ Pending(d, s)' /\ d \notin ToSet(connected[s])
    BY <1>8, <1>14, <1>15 DEF CqInv, expectedClients
  <2>2. \A l \in DOMAIN cq'[s] : \/ l \in DOMAIN cq[s] /\ cq'[s][l] = cq[s][l]
                                 \/ l = Len(cq[s]) + 1 /\ cq'[s][l] = e
    BY <1>11
  <2>3. CASE k \in DOMAIN cq[s] /\ cq'[s][k] = cq[s][k]
    <3>1. d # c
      BY <1>4, <2>1, <2>3 DEF InCq
    <3>2. \A l \in DOMAIN cq[s] : cq[s][l].node = d => l = k
      BY <1>15, <2>1, <2>3 DEF CqInv
    <3>3. /\ cq[s][k].buf = "init" /\ cq[s][k].idx \in 0 .. expectedClients - 1
          /\ initBuf[s][cq[s][k].idx] = "InitExp"
          /\ Pending(d, s) /\ d \notin ToSet(connected[s])
      BY <1>2, <1>15, <2>1, <2>3 DEF CqInv
    <3>4. \A l \in DOMAIN cq'[s] : cq'[s][l].node = d => l = k
      BY <1>7, <2>2, <3>1, <3>2
    <3> QED
      BY <1>12, <1>15, <2>3, <3>3, <3>4 DEF AskKept
  <2>4. CASE k = Len(cq[s]) + 1 /\ cq'[s][k] = e
    <3>1. d = c
      BY <1>7, <2>1, <2>4
    <3>2. \A l \in DOMAIN cq[s] : cq[s][l].node # d
      BY <1>4, <3>1 DEF InCq
    <3>3. \A l \in DOMAIN cq'[s] : cq'[s][l].node = d => l = k
      BY <2>2, <2>4, <3>2
    <3> QED
      BY <1>4, <1>7, <1>12, <1>15, <2>4, <3>1, <3>3 DEF AskKept
  <2> QED
    BY <2>2, <2>3, <2>4
<1>17. WireInv(c, s)'
  BY <1>9 DEF WireInv
<1>18. SlotInv(c, s)'
  <2>1. SlotInv(c, s) /\ AskKept(c, s)
    BY <1>8, ThreadStepIs
  <2> QED
    BY <1>2, <1>8, <2>1, SlotStays
<1>19. GreetInv(c, s)'
  <2>1. GreetInv(c, s) /\ (Replied(c, s)' <=> Replied(c, s))
    BY <1>8 DEF IInv, RequestInv, Replied
  <2> QED
    BY <1>4, <1>8, <1>14, <1>15, <2>1 DEF GreetInv, SameView
<1>20. StepInv(s)'
  BY <1>1, <1>8, <1>14 DEF StepInv
<1>21. SrqInv(s)' /\ IndexInv(s)' /\ CountInv(s)'
  <2>1. \A k \in DOMAIN srq'[s] : srq'[s][k].buf = "init" /\ srq'[s][k].idx < expectedClients
    BY <1>1, <1>5, <1>10 DEF SrqInv
  <2>2. Len(srq[s]) + Len(cq[s]) + Len(connected[s]) = expectedClients
    BY <1>1 DEF SrqInv
  <2>3. PICK a, b, d \in Nat : a = Len(srq[s]) /\ b = Len(cq[s]) /\ d = Len(connected[s])
    BY <1>1, <1>5, <1>11, ReceiverIs, SeqIs DEF AllTypes
  <2>4. a + b + d = expectedClients
    BY <2>2, <2>3
  <2>5. (a - 1) + (b + 1) + d = expectedClients
    BY <2>4
  <2>6. Len(srq'[s]) = a - 1 /\ Len(cq'[s]) = b + 1 /\ Len(connected'[s]) = d
    BY <1>5, <1>8, <1>10, <1>11, <2>3
  <2>7. Len(srq'[s]) + Len(cq'[s]) + Len(connected'[s]) = expectedClients'
    BY <2>5, <2>6 DEF expectedClients
  <2>8. SrqInv(s)'
    BY <1>14, <2>1, <2>7 DEF SrqInv, expectedClients
  <2> QED
    BY <1>14, <2>8 DEF IndexInv, CountInv
<1>22. \A r \in Receivers \ {s} : slot'[r] = slot[r] /\ initBuf'[r] = initBuf[r]
                                  /\ srq'[r] = srq[r] /\ cq'[r] = cq[r]
  BY <1>8, <1>10
<1>23. \A d \in Clients, r \in Receivers : d # c \/ r # s =>
          wire'[d][r] = wire[d][r] /\ (<<d, r>> \in rnr' => <<d, r>> \in rnr)
  BY <1>8, <1>9
<1> QED
  BY <1>4, <1>8, <1>13, <1>15, <1>16, <1>17, <1>18, <1>19, <1>20, <1>21, <1>22, <1>23,
     RequestArrivalKeeps

\* A receive of the benchmark phase takes a request, into a slot that nobody reads.
LEMMA DeliverRequestKeeps ==
  ASSUME IInv, mode' = mode, NEW c \in Clients, NEW s \in Receivers, DeliverRequestSend(c, s),
         srq[s] # <<>>, rpc[s] # "initPoll"
  PROVE  IInv'
<1>1. AllTypes /\ StepInv(s) /\ SrqInv(s) /\ IndexInv(s) /\ CountInv(s)
  BY DEF IInv, ReceiverInv
<1>2. Past(s) /\ ReceiverPoll = "SRQ" /\ wire[c][s] # <<>>
  BY <1>1, ModeIsKnown DEF SrqInv, Past, DeliverRequestSend, AllTypes
<1>3. PICK m \in RequestMsgs : m = Head(wire[c][s])
  BY <1>2, WireHead
<1>4. /\ Tail(wire[c][s]) = <<>> /\ ~InCq(c, s) /\ ~Held(c, s) /\ <<c, s>> \notin rnr
      /\ SentBy(c, s, m)
  BY <1>2, <1>3, WireHead
<1>5. /\ srq[s] \in Seq(Receives) /\ Head(srq[s]) = srq[s][1] /\ 1 \in DOMAIN srq[s]
      /\ Head(srq[s]) \in Receives /\ Tail(srq[s]) \in Seq(Receives)
      /\ Len(srq[s]) \in Nat \ {0} /\ Len(Tail(srq[s])) = Len(srq[s]) - 1
      /\ DOMAIN srq[s] = 1 .. Len(srq[s]) /\ DOMAIN Tail(srq[s]) = 1 .. Len(srq[s]) - 1
      /\ \A k \in DOMAIN Tail(srq[s]) : k + 1 \in DOMAIN srq[s] /\ Tail(srq[s])[k] = srq[s][k + 1]
  BY <1>1, ReceiverIs, TailIs DEF AllTypes
<1>6. PICK x \in Slots : x = Head(srq[s]).idx /\ Head(srq[s]).buf = "req"
  BY <1>1, <1>2, <1>5 DEF IndexInv
<1>7. /\ Busy(s) => cur[s] # x
      /\ rpc[s] # "finalize"
      /\ \A k \in DOMAIN cq[s] : cq[s][k].idx # x
      /\ \A k \in DOMAIN srq[s] : srq[s][k].idx = x => k = 1
  BY <1>1, <1>2, <1>5, <1>6 DEF IndexInv, StepInv
<1> DEFINE e == [node |-> c, buf |-> "req", idx |-> x]
           p == [type |-> m.type, body |-> m.body]
<1>8. e \in Completions /\ e.node = c /\ e.buf = "req" /\ e.idx = x
  BY MaxNodeIDIsKnown DEF Completions, Slots
<1>9. p \in [type : Types, body : Bodies] /\ p.type = m.type /\ p.body = m.body
  BY DEF RequestMsgs
<1> HIDE DEF e, p
<1>10. /\ srq' = [srq EXCEPT ![s] = Tail(@)] /\ cq' = [cq EXCEPT ![s] = Append(@, e)]
       /\ slot' = [slot EXCEPT ![s][x] = p]
       /\ wire' = [wire EXCEPT ![c][s] = Tail(@)]
       /\ UNCHANGED <<rpc, connected, initBuf, replied, cur, filledFrom, respBuffer, clientsFinished,
                      handledRequests, clientVars, back, rnr, historyVars>>
  BY <1>3, <1>6 DEF DeliverRequestSend, e, p
<1>11. /\ wire' \in [Clients -> [Receivers -> Seq(RequestMsgs)]] /\ wire'[c][s] = <<>>
       /\ \A d \in Clients, r \in Receivers : d # c \/ r # s => wire'[d][r] = wire[d][r]
  <2>1. wire' = [wire EXCEPT ![c] = [wire[c] EXCEPT ![s] = <<>>]]
    BY <1>1, <1>4, <1>10 DEF AllTypes, FabricTypes
  <2>2. <<>> \in Seq(RequestMsgs)
    OBVIOUS
  <2> QED
    BY <1>1, <2>1, <2>2 DEF AllTypes, FabricTypes
<1>12. /\ cq[s] \in Seq(Completions) /\ cq'[s] = Append(cq[s], e) /\ srq'[s] = Tail(srq[s])
       /\ \A r \in Receivers \ {s} : slot'[r] = slot[r] /\ srq'[r] = srq[r] /\ cq'[r] = cq[r]
  BY <1>1, <1>10 DEF AllTypes, ReceiverTypes
<1>13. /\ Len(cq[s]) \in Nat /\ Len(cq'[s]) = Len(cq[s]) + 1 /\ cq'[s] \in Seq(Completions)
       /\ DOMAIN cq[s] = 1 .. Len(cq[s]) /\ DOMAIN cq'[s] = 1 .. Len(cq[s]) + 1
       /\ \A k \in DOMAIN cq[s] : cq'[s][k] = cq[s][k]
       /\ cq'[s][Len(cq[s]) + 1] = e
  BY <1>8, <1>12, AppendIs
<1>14. /\ slot' \in [Receivers -> SlotTypes] /\ slot'[s][x] = p
       /\ \A y \in Slots \ {x} : slot'[s][y] = slot[s][y]
  <2>1. slot' = [slot EXCEPT ![s] = [slot[s] EXCEPT ![x] = p]] /\ slot[s] \in SlotTypes
    BY <1>1, <1>10 DEF AllTypes, ReceiverTypes
  <2>2. [slot[s] EXCEPT ![x] = p] \in SlotTypes
    BY <1>9, <2>1 DEF SlotTypes
  <2>3. slot'[s] = [slot[s] EXCEPT ![x] = p] /\ slot' \in [Receivers -> SlotTypes]
    BY <1>1, <2>1, <2>2 DEF AllTypes, ReceiverTypes
  <2> QED
    BY <2>1, <2>3 DEF SlotTypes
<1>15. AllTypes'
  <2>1. srq' \in [Receivers -> Seq(Receives)] /\ cq' \in [Receivers -> Seq(Completions)]
    BY <1>1, <1>5, <1>10, <1>12, <1>13 DEF AllTypes, ReceiverTypes
  <2>2. SlotTypes' = SlotTypes
    BY ModeStays DEF SlotTypes
  <2>3. ReceiverTypes'
    BY <1>1, <1>10, <1>14, <2>1, <2>2, ModeStays DEF AllTypes, ReceiverTypes, ReceiverStates
  <2>4. FabricTypes'
    BY <1>1, <1>10, <1>11, ModeStays DEF AllTypes, FabricTypes, Nodes, Processes
  <2> QED
    BY <1>1, <1>10, <2>3, <2>4, TypesStay DEF AllTypes
<1>16. cur[s] \in Slots
  BY <1>1, ReceiverIs DEF AllTypes
<1>17. /\ ReceiverPoll' = ReceiverPoll /\ EarlyInit' = EarlyInit /\ Past(s)' /\ (Busy(s)' <=> Busy(s))
       /\ Taken(s)' = Taken(s)
       /\ rpc[s] = "handle" \/ Working(s) => slot'[s][cur[s]] = slot[s][cur[s]]
  <2>1. rpc[s] = "handle" \/ Working(s) => Busy(s)
    BY <1>7 DEF Busy, Working
  <2> QED
    BY <1>2, <1>7, <1>10, <1>14, <1>16, <2>1, ModeStays DEF Past, Busy, Taken
<1>18. Working(s)' <=> Working(s)
  <2>1. CASE rpc[s] = "handle"
    BY <1>10, <1>17, <2>1 DEF Working
  <2>2. CASE rpc[s] # "handle"
    BY <1>10, <2>2 DEF Working
  <2> QED
    BY <2>1, <2>2
<1>19. ASSUME NEW d \in Clients
       PROVE  /\ SameView(d, s) /\ AskKept(d, s) /\ (Held(d, s)' <=> Held(d, s)) /\ CqInv(d, s)
              /\ d # c => (InCq(d, s)' <=> InCq(d, s))
  <2>1. SameView(d, s) /\ AskKept(d, s) /\ CqInv(d, s)
    BY <1>10, ThreadStepIs
  <2>2. Held(d, s)' <=> Held(d, s)
    BY <1>10, <1>17, <1>18 DEF Held
  <2>3. d # c => (InCq(d, s)' <=> InCq(d, s))
    BY SMTT(30), <1>8, <1>13 DEF InCq
  <2> QED
    BY <2>1, <2>2, <2>3
<1>20. \A l \in DOMAIN cq'[s] : \/ l \in DOMAIN cq[s] /\ cq'[s][l] = cq[s][l]
                                \/ l = Len(cq[s]) + 1 /\ cq'[s][l] = e
  BY <1>13
<1>21. ASSUME NEW d \in Clients PROVE CqInv(d, s)'
  <2>1. SUFFICES ASSUME NEW k \in DOMAIN cq'[s], cq'[s][k].node = d
                 PROVE  /\ ~Held(d, s)
                        /\ \A l \in DOMAIN cq'[s] : cq'[s][l].node = d => l = k
                        /\ cq'[s][k].buf = "req" /\ cq'[s][k].idx \in Slots
                        /\ \E y \in Slots : y = cq'[s][k].idx /\ SentBy(d, s, slot[s][y])'
    <3>1. ASSUME NEW k \in DOMAIN cq'[s], NEW y \in Slots, y = cq'[s][k].idx, SentBy(d, s, slot[s][y])'
          PROVE  SentBy(d, s, slot[s][cq[s][k].idx])'
      BY <3>1 DEF SentBy
    <3> QED
      BY <1>2, <1>17, <1>19, <3>1 DEF CqInv
  <2>2. CASE k \in DOMAIN cq[s] /\ cq'[s][k] = cq[s][k]
    <3>1. d # c
      BY <1>4, <2>1, <2>2 DEF InCq
    <3>2. \A l \in DOMAIN cq[s] : cq[s][l].node = d => l = k
      BY <1>19, <2>1, <2>2 DEF CqInv
    <3>3. /\ cq[s][k].buf = "req" /\ cq[s][k].idx \in Slots /\ ~Held(d, s)
          /\ SentBy(d, s, slot[s][cq[s][k].idx])
      BY <1>2, <1>19, <2>1, <2>2 DEF CqInv, Past
    <3>4. \A l \in DOMAIN cq'[s] : cq'[s][l].node = d => l = k
      BY <1>8, <1>20, <3>1, <3>2
    <3>5. PICK y \in Slots : y = cq[s][k].idx /\ y = cq'[s][k].idx /\ slot'[s][y] = slot[s][y]
      BY <1>7, <1>14, <2>2, <3>3
    <3>6. SentBy(d, s, slot[s][y])'
      BY <1>19, <3>3, <3>5 DEF SentBy, AskKept
    <3> QED
      BY <2>2, <3>3, <3>4, <3>5, <3>6
  <2>3. CASE k = Len(cq[s]) + 1 /\ cq'[s][k] = e
    <3>1. d = c
      BY <1>8, <2>1, <2>3
    <3>2. \A l \in DOMAIN cq[s] : cq[s][l].node # d
      BY <1>4, <3>1 DEF InCq
    <3>3. \A l \in DOMAIN cq'[s] : cq'[s][l].node = d => l = k
      BY <1>20, <2>3, <3>2
    <3>4. SentBy(d, s, slot[s][x])'
      BY <1>4, <1>9, <1>14, <1>19, <3>1 DEF SentBy, AskKept
    <3> QED
      BY <1>4, <1>8, <2>3, <3>1, <3>3, <3>4
  <2> QED
    BY <1>20, <2>2, <2>3
<1>22. WireInv(c, s)'
  BY <1>11 DEF WireInv
<1>23. SlotInv(c, s)'
  BY <1>2, <1>17 DEF SlotInv
<1>24. GreetInv(c, s)'
  <2>1. GreetInv(c, s) /\ (Replied(c, s)' <=> Replied(c, s))
    BY <1>10 DEF IInv, RequestInv, Replied
  <2> QED
    BY <1>4, <1>10, <1>17, <1>19, <2>1 DEF GreetInv, SameView
<1>25. StepInv(s)'
  BY <1>1, <1>2, <1>7, <1>10, <1>17, <1>18 DEF StepInv, Working
<1>26. SrqInv(s)'
  BY <1>2, <1>17 DEF SrqInv, Past
<1>27. IndexInv(s)'
  <2>1. /\ \A k \in DOMAIN srq[s] :
              /\ srq[s][k].buf = "req" /\ srq[s][k].idx \in Slots
              /\ \A l \in DOMAIN srq[s] : srq[s][l].idx = srq[s][k].idx => l = k
              /\ \A l \in DOMAIN cq[s] : cq[s][l].idx # srq[s][k].idx
              /\ Busy(s) => srq[s][k].idx # cur[s]
        /\ \A k \in DOMAIN cq[s] :
              /\ \A l \in DOMAIN cq[s] : cq[s][l].idx = cq[s][k].idx => l = k
              /\ Busy(s) => cq[s][k].idx # cur[s]
    BY <1>1, <1>2 DEF IndexInv
  <2>2. ASSUME NEW k \in DOMAIN Tail(srq[s])
        PROVE  /\ Tail(srq[s])[k].buf = "req" /\ Tail(srq[s])[k].idx \in Slots
               /\ \A l \in DOMAIN Tail(srq[s]) : Tail(srq[s])[l].idx = Tail(srq[s])[k].idx => l = k
               /\ Tail(srq[s])[k].idx # x
               /\ \A l \in DOMAIN cq[s] : cq[s][l].idx # Tail(srq[s])[k].idx
               /\ Busy(s) => Tail(srq[s])[k].idx # cur[s]
    <3>1. k \in Nat /\ k + 1 # 1 /\ k + 1 \in DOMAIN srq[s] /\ Tail(srq[s])[k] = srq[s][k + 1]
      BY <1>5
    <3>2. \A l \in DOMAIN Tail(srq[s]) : Tail(srq[s])[l].idx = Tail(srq[s])[k].idx => l + 1 = k + 1
      BY <1>5, <2>1, <3>1
    <3>3. \A l \in DOMAIN Tail(srq[s]) : l \in Nat /\ (l + 1 = k + 1 => l = k)
      BY <1>5, <3>1
    <3>4. Tail(srq[s])[k].idx # x
      BY <1>7, <3>1
    <3> QED
      BY <2>1, <3>1, <3>2, <3>3, <3>4
  <2>3. ASSUME NEW k \in DOMAIN srq'[s]
        PROVE  \A l \in DOMAIN cq'[s] : cq'[s][l].idx # srq'[s][k].idx
    BY <1>8, <1>12, <1>20, <2>2
  <2>4. ASSUME NEW k \in DOMAIN cq'[s]
        PROVE  /\ \A l \in DOMAIN cq'[s] : cq'[s][l].idx = cq'[s][k].idx => l = k
               /\ Busy(s) => cq'[s][k].idx # cur[s]
    <3>1. CASE k \in DOMAIN cq[s] /\ cq'[s][k] = cq[s][k]
      <4>1. \A l \in DOMAIN cq'[s] : cq'[s][l].idx = cq'[s][k].idx => l = k
        BY <1>7, <1>8, <1>20, <2>1, <3>1
      <4> QED
        BY <2>1, <3>1, <4>1
    <3>2. CASE k = Len(cq[s]) + 1 /\ cq'[s][k] = e
      <4>1. \A l \in DOMAIN cq'[s] : cq'[s][l].idx = cq'[s][k].idx => l = k
        BY <1>7, <1>8, <1>20, <3>2
      <4> QED
        BY <1>7, <1>8, <3>2, <4>1
    <3> QED
      BY <1>20, <3>1, <3>2
  <2>5. ASSUME NEW k \in DOMAIN srq'[s]
        PROVE  /\ srq'[s][k].buf = "req" /\ srq'[s][k].idx \in Slots
               /\ \A l \in DOMAIN srq'[s] : srq'[s][l].idx = srq'[s][k].idx => l = k
               /\ Busy(s) => srq'[s][k].idx # cur[s]
    BY <1>12, <2>2
  <2>6. cur'[s] = cur[s] /\ Slots' = Slots
    BY <1>10 DEF Slots, maxNodeID
  <2> QED
    BY <1>17, <2>3, <2>4, <2>5, <2>6 DEF IndexInv
<1>28. CountInv(s)'
  <2>1. Len(srq[s]) + Len(cq[s]) + Taken(s) + clientsFinished[s] = reqBufferLength
    BY <1>1, <1>2 DEF CountInv
  <2>2. PICK a, b \in Nat : a = Len(srq[s]) /\ b = Len(cq[s])
    BY <1>5, <1>13
  <2>3. PICK t \in {0, 1} : t = Taken(s)
    BY DEF Taken
  <2>4. PICK f \in Nat : f = clientsFinished[s]
    BY <1>1, ReceiverIs, ClientsAreCounted DEF AllTypes
  <2>5. a + b + t + f = reqBufferLength
    BY <2>1, <2>2, <2>3, <2>4
  <2>6. (a - 1) + (b + 1) + t + f = reqBufferLength
    BY <2>5
  <2>7. Len(srq'[s]) = a - 1 /\ Len(cq'[s]) = b + 1 /\ clientsFinished'[s] = f /\ Taken(s)' = t
    BY <1>5, <1>10, <1>12, <1>13, <1>17, <2>2, <2>3, <2>4
  <2> QED
    BY <2>6, <2>7 DEF CountInv
<1>29. Waiting(c, s)' /\ Waiting(c, s)
  <2>1. InCq(c, s)'
    BY <1>8, <1>13 DEF InCq
  <2> QED
    BY <1>2, <2>1 DEF Waiting
<1>30. \A r \in Receivers \ {s} : slot'[r] = slot[r] /\ initBuf'[r] = initBuf[r]
                                  /\ srq'[r] = srq[r] /\ cq'[r] = cq[r]
  BY <1>10, <1>12
<1>31. \A d \in Clients, r \in Receivers : d # c \/ r # s =>
          wire'[d][r] = wire[d][r] /\ (<<d, r>> \in rnr' => <<d, r>> \in rnr)
  BY <1>10, <1>11
<1>32. ReceiverPoll # "BUF"
  BY <1>2
<1> QED
  BY <1>10, <1>15, <1>17, <1>19, <1>21, <1>22, <1>23, <1>24, <1>25, <1>26, <1>27, <1>28, <1>29,
     <1>30, <1>31, <1>32, RequestArrivalKeeps

-----------------------------------------------------------------------------
(***************************************************************************)
(* The fabric brings a response to its client.                             *)
(***************************************************************************)

\* The arrival of a response of one receiver disturbs nobody but its client.
LEMMA ResponseArrivalKeeps ==
  ASSUME IInv, AllTypes', mode' = mode, NEW d \in Clients, NEW s \in Receivers,
         UNCHANGED <<cpc, ri, msgOffset, i, picked, expId, receiverVars, wire, rnr, historyVars>>,
         \A r \in Receivers \ {s} : back'[r] = back[r] /\ rq'[d][r] = rq[d][r] /\ rcq'[d][r] = rcq[d][r],
         \A c \in Clients \ {d} : area'[c] = area[c] /\ rq'[c] = rq[c] /\ rcq'[c] = rcq[c],
         area'[d] = area[d] \/ Served(d, s),
         AreaInv(d)', RcqInv(d, s)', RqInv(d, s)', \A c \in Clients : BackInv(c, s)'
  PROVE  IInv'
<1>1. AllTypes /\ \A c \in Clients : ClientInv(c) /\ AreaInv(c)
  BY DEF IInv
<1>2. \A r \in Receivers : LocalStays(r) /\ ReceiverInv(r)
  BY DEF LocalStays, receiverVars, IInv
<1>3. issued' = issued /\ served' = served /\ answered' = answered
  BY DEF historyVars
<1>4. ASSUME NEW c \in Clients, NEW r \in Receivers
      PROVE  /\ SameView(c, r) /\ AskKept(c, r) /\ AnswerKept(c, r)
             /\ (Replied(c, r)' <=> Replied(c, r)) /\ (InCq(c, r)' <=> InCq(c, r))
             /\ RequestInv(c, r) /\ RcqInv(c, r) /\ RqInv(c, r) /\ BackInv(c, r)
  <2>1. SameView(c, r)
    BY <1>3, ViewStays
  <2>2. (Replied(c, r)' <=> Replied(c, r)) /\ (InCq(c, r)' <=> InCq(c, r))
    BY <1>2 DEF Replied, InCq, LocalStays
  <2> QED
    BY <2>1, <2>2, SameViewIsKept DEF IInv, ResponseInv
<1>5. ASSUME NEW c \in Clients PROVE ClientInv(c)' /\ AreaInv(c)'
  <2>1. ClientInv(c)'
    BY <1>1, <1>3, ClientStays
  <2>2. AreaInv(c)'
    <3>1. CASE c = d
      BY <3>1
    <3>2. CASE c # d
      BY <1>1, <1>3, <3>2, AreaStays
    <3> QED
      BY <3>1, <3>2
  <2> QED
    BY <2>1, <2>2
<1>6. ASSUME NEW r \in Receivers PROVE ReceiverInv(r)'
  BY <1>2, <1>4, ReceiverStays DEF SameView
<1>7. ASSUME NEW c \in Clients, NEW r \in Receivers PROVE RequestInv(c, r)'
  <2>1. WireInv(c, r)' /\ CqInv(c, r)' /\ SlotInv(c, r)' /\ HeldInv(c, r)'
    BY <1>2, <1>4, RequestStays
  <2>2. GreetInv(c, r)'
    BY <1>2, <1>4, GreetStays DEF RequestInv, LocalStays, SameView
  <2> QED
    BY <2>1, <2>2 DEF RequestInv
<1>8. ASSUME NEW c \in Clients, NEW r \in Receivers PROVE RcqInv(c, r)' /\ RqInv(c, r)'
  <2>1. CASE c = d /\ r = s
    BY <2>1
  <2>2. CASE c # d \/ r # s
    <3>1. rcq'[c][r] = rcq[c][r] /\ rq'[c][r] = rq[c][r]
      BY <2>2
    <3>2. RcqInv(c, r)'
      BY <1>4, <3>1, RcqStays
    <3>3. RqInv(c, r)'
      BY <1>4, <3>1, RqStays DEF SameView
    <3> QED
      BY <3>2, <3>3
  <2> QED
    BY <2>1, <2>2
<1>9. ASSUME NEW c \in Clients, NEW r \in Receivers PROVE BackInv(c, r)'
  <2>1. CASE r = s
    BY <2>1
  <2>2. CASE r # s
    <3>1. Served(c, r) => area'[c].flag = area[c].flag /\ area'[c].body = area[c].body
      BY <2>2 DEF Served
    <3>2. back'[r] = back[r] /\ rcq'[c][r] = rcq[c][r]
      BY <2>2
    <3> QED
      BY <1>2, <1>4, <3>1, <3>2, BackStays DEF LocalStays
  <2> QED
    BY <2>1, <2>2
<1> QED
  BY <1>5, <1>6, <1>7, <1>8, <1>9 DEF IInv, ResponseInv

\* The response at the head of a connection is the only one for its client.
LEMMA BackHead ==
  ASSUME IInv, NEW s \in Receivers, NEW n \in Nodes, back[s][n] # <<>>,
         NEW m, m = Head(back[s][n])
  PROVE  /\ m \in ResponseMsgs /\ m.ptr \in Clients /\ back[s][n] \in Seq(ResponseMsgs)
         /\ rcq[m.ptr][s] = <<>>
         /\ \A o \in Nodes : \A k \in DOMAIN back[s][o] : back[s][o][k].ptr = m.ptr => o = n /\ k = 1
         /\ \/ /\ m.type = "InitExp" /\ m.verb = "SEND" /\ m.stage = "whole"
               /\ n = m.ptr /\ m.at = NodeId[m.ptr]
               /\ Pending(m.ptr, s) /\ Replied(m.ptr, s)
            \/ /\ m.type = "ExpMsg" /\ m.verb = ResponseVerb /\ n = destinationNode(m.ptr)
               /\ m.body = Request(m.ptr) /\ Served(m.ptr, s) /\ area[m.ptr].flag = 0
               /\ m.stage = "body" => m.verb = "WRITE" /\ area[m.ptr].body = m.body
<1>1. AllTypes /\ PhaseInv(s)
  BY DEF IInv, ReceiverInv
<1>2. back[s][n] \in Seq(ResponseMsgs)
  BY <1>1 DEF AllTypes, FabricTypes
<1>3. m = back[s][n][1] /\ m \in ResponseMsgs /\ 1 \in DOMAIN back[s][n]
  BY <1>2, TailIs
<1>4. PICK d \in Clients : d = m.ptr
  BY <1>3 DEF ResponseMsgs
<1>5. BackInv(d, s) /\ ClientInv(d)
  BY DEF IInv, ResponseInv
<1>6. /\ \A l \in DOMAIN back[s][n] : back[s][n][l].ptr = d => l = 1
      /\ rcq[d][s] = <<>>
      /\ \/ /\ m.type = "InitExp" /\ m.verb = "SEND" /\ m.stage = "whole"
            /\ n = d /\ m.at = NodeId[d]
            /\ Pending(d, s) /\ rpc[s] = "replyAck" /\ connected[s][replied[s] + 1] = d
         \/ /\ m.type = "ExpMsg" /\ m.verb = ResponseVerb /\ n = destinationNode(d)
            /\ m.body = Request(d) /\ Served(d, s) /\ area[d].flag = 0
            /\ m.stage = "body" => m.verb = "WRITE" /\ area[d].body = m.body
  <2>1. 1 \in DOMAIN back[s][n] /\ back[s][n][1].ptr = d /\ back[s][n][1] = m
    BY <1>3, <1>4
  <2>2. \A l \in DOMAIN back[s][n] : back[s][n][l].ptr = d => l = 1
    BY <1>5, <2>1 DEF BackInv
  <2>3. rcq[d][s] = <<>>
    BY <1>5, <2>1 DEF BackInv
  <2>4. \/ /\ m.type = "InitExp" /\ m.verb = "SEND" /\ m.stage = "whole"
           /\ n = d /\ m.at = NodeId[d]
           /\ Pending(d, s) /\ rpc[s] = "replyAck" /\ connected[s][replied[s] + 1] = d
        \/ /\ m.type = "ExpMsg" /\ m.verb = ResponseVerb /\ n = destinationNode(d)
           /\ m.body = Request(d) /\ Served(d, s) /\ area[d].flag = 0
           /\ m.stage = "body" => m.verb = "WRITE" /\ area[d].body = m.body
    BY <1>5, <2>1 DEF BackInv
  <2> QED
    BY <2>2, <2>3, <2>4
<1>7. rpc[s] = "replyAck" /\ connected[s][replied[s] + 1] = d => Replied(d, s)
  <2>1. SUFFICES ASSUME rpc[s] = "replyAck", connected[s][replied[s] + 1] = d PROVE Replied(d, s)
    OBVIOUS
  <2>2. connected[s] \in Seq(Clients) /\ replied[s] \in 0 .. expectedClients
    BY <1>1, ReceiverIs DEF AllTypes
  <2>3. Len(connected[s]) = expectedClients /\ replied[s] < expectedClients /\ expectedClients \in Nat
    BY <1>1, <2>1, ClientsAreCounted DEF PhaseInv
  <2>4. replied[s] + 1 \in DOMAIN connected[s]
    BY <2>2, <2>3
  <2> QED
    BY <2>1, <2>4 DEF Replied
<1>8. ASSUME NEW o \in Nodes, NEW k \in DOMAIN back[s][o], back[s][o][k].ptr = d
      PROVE  o = n /\ k = 1
  <2>1. \/ o = d /\ Pending(d, s)
        \/ o = destinationNode(d) /\ Served(d, s)
    BY <1>5, <1>8 DEF BackInv
  <2>2. Pending(d, s) => ~Served(d, s)
    BY <1>1, <1>5, ViewsExclude DEF AllTypes
  <2>3. o = n
    BY <1>6, <2>1, <2>2
  <2> QED
    BY <1>6, <1>8, <2>3
<1> QED
  BY <1>2, <1>3, <1>4, <1>6, <1>7, <1>8

\* The other answers of a connection move up.
LEMMA BackShrinks ==
  ASSUME IInv, AllTypes', mode' = mode, NEW s \in Receivers, NEW n \in Nodes, back[s][n] # <<>>,
         back' = [back EXCEPT ![s][n] = Tail(@)], UNCHANGED <<rpc, connected, replied>>,
         NEW c \in Clients, AnswerKept(c, s),
         c # Head(back[s][n]).ptr => rcq'[c][s] = rcq[c][s] /\ area'[c] = area[c]
  PROVE  BackInv(c, s)'
<1>1. AllTypes /\ BackInv(c, s)
  BY DEF IInv, ResponseInv
<1>2. PICK m : m = Head(back[s][n])
  OBVIOUS
<1>3. \A o \in Nodes : \A k \in DOMAIN back[s][o] : back[s][o][k].ptr = m.ptr => o = n /\ k = 1
  BY <1>2, BackHead
<1>4. /\ back[s][n] \in Seq(ResponseMsgs) /\ back'[s][n] = Tail(back[s][n])
      /\ \A o \in Nodes \ {n} : back'[s][o] = back[s][o]
  BY <1>1 DEF AllTypes, FabricTypes
<1>5. \A k \in DOMAIN Tail(back[s][n]) :
         k \in Nat /\ k + 1 # 1 /\ k + 1 \in DOMAIN back[s][n] /\ Tail(back[s][n])[k] = back[s][n][k + 1]
  BY <1>4, TailIs
<1>6. \A o \in Nodes : \A k \in DOMAIN back'[s][o] :
         \E l \in DOMAIN back[s][o] : /\ back'[s][o][k] = back[s][o][l]
                                      /\ o = n => k \in Nat /\ l = k + 1 /\ l # 1
                                      /\ o # n => l = k
  <2>1. ASSUME NEW k \in DOMAIN back'[s][n]
        PROVE  \E l \in DOMAIN back[s][n] : back'[s][n][k] = back[s][n][l] /\ k \in Nat /\ l = k + 1 /\ l # 1
    BY <1>4, <1>5
  <2> QED
    BY <1>4, <2>1
<1>7. ASSUME NEW o \in Nodes, NEW k \in DOMAIN back'[s][o] PROVE back'[s][o][k].ptr # m.ptr
  <2>1. PICK l \in DOMAIN back[s][o] : back'[s][o][k] = back[s][o][l] /\ (o = n => l # 1)
    BY <1>6
  <2>2. back[s][o][l].ptr = m.ptr => o = n /\ l = 1
    BY <1>3
  <2> QED
    BY <2>1, <2>2
<1>8. ResponseVerb' = ResponseVerb /\ destinationNode(c)' = destinationNode(c) /\ Nodes' = Nodes
  BY ModeStays DEF Nodes, Processes
<1>9. SUFFICES ASSUME NEW o \in Nodes, NEW k \in DOMAIN back'[s][o], back'[s][o][k].ptr = c
               PROVE  LET a == back'[s][o][k] IN
                      /\ \A l \in DOMAIN back'[s][o] : back'[s][o][l].ptr = c => l = k
                      /\ rcq'[c][s] = <<>>
                      /\ \/ /\ a.type = "InitExp" /\ a.verb = "SEND" /\ a.stage = "whole"
                            /\ o = c /\ a.at = NodeId[c] /\ Pending(c, s)'
                            /\ rpc'[s] = "replyAck" /\ connected'[s][replied'[s] + 1] = c
                         \/ /\ a.type = "ExpMsg" /\ a.verb = ResponseVerb /\ o = destinationNode(c)
                            /\ a.body = Request(c)' /\ Served(c, s)' /\ area'[c].flag = 0
                            /\ a.stage = "body" => a.verb = "WRITE" /\ area'[c].body = a.body
  BY <1>8 DEF BackInv
<1>10. c # m.ptr /\ rcq'[c][s] = rcq[c][s] /\ area'[c] = area[c]
  BY <1>2, <1>7, <1>9
<1>11. PICK h \in DOMAIN back[s][o] : /\ back'[s][o][k] = back[s][o][h]
                                      /\ o = n => k \in Nat /\ h = k + 1
                                      /\ o # n => h = k
  BY <1>6
<1>12. /\ \A l \in DOMAIN back[s][o] : back[s][o][l].ptr = c => l = h
       /\ rcq[c][s] = <<>>
       /\ LET a == back[s][o][h] IN
          \/ /\ a.type = "InitExp" /\ a.verb = "SEND" /\ a.stage = "whole"
             /\ o = c /\ a.at = NodeId[c] /\ Pending(c, s)
             /\ rpc[s] = "replyAck" /\ connected[s][replied[s] + 1] = c
          \/ /\ a.type = "ExpMsg" /\ a.verb = ResponseVerb /\ o = destinationNode(c)
             /\ a.body = Request(c) /\ Served(c, s) /\ area[c].flag = 0
             /\ a.stage = "body" => a.verb = "WRITE" /\ area[c].body = a.body
  BY <1>1, <1>9, <1>11 DEF BackInv
<1>13. ASSUME NEW l \in DOMAIN back'[s][o], back'[s][o][l].ptr = c PROVE l = k
  <2>1. PICK g \in DOMAIN back[s][o] : /\ back'[s][o][l] = back[s][o][g]
                                       /\ o = n => l \in Nat /\ g = l + 1
                                       /\ o # n => g = l
    BY <1>6
  <2>2. g = h
    BY <1>12, <1>13, <2>1
  <2> QED
    BY <1>11, <2>1, <2>2
<1> QED
  BY <1>10, <1>11, <1>12, <1>13 DEF AnswerKept

\* What the card sends for a response is one.
LEMMA ContentFits ==
  ASSUME AllTypes, NEW s \in Receivers, NEW m \in ResponseMsgs PROVE contentOf(s, m) \in Contents
<1>1. m.entry \in Entries /\ m.copy \in Contents
  BY DEF ResponseMsgs
<1>2. respBuffer[s] \in [Entries -> Contents]
  BY ReceiverIs DEF AllTypes
<1> QED
  BY <1>1, <1>2 DEF contentOf

\* The response is placed before its flag.
LEMMA PlaceResponseBodyKeeps ==
  ASSUME IInv, mode' = mode, NEW s \in Receivers, NEW n \in Nodes, PlaceResponseBody(s, n)
  PROVE  IInv'
<1>1. AllTypes
  BY DEF IInv
<1>2. PICK m \in ResponseMsgs : m = Head(back[s][n])
  BY BackHead DEF PlaceResponseBody
<1>3. PICK d \in Clients : d = m.ptr
  BY DEF ResponseMsgs
<1>4. /\ back[s][n] # <<>> /\ m.verb = "WRITE" /\ m.stage = "whole"
      /\ area' = [area EXCEPT ![d].content = contentOf(s, m), ![d].body = m.body]
      /\ back' = [back EXCEPT ![s][n][1].stage = "body"]
      /\ UNCHANGED <<cpc, ri, msgOffset, i, picked, expId, rq, rcq, receiverVars, wire, rnr, historyVars>>
  BY <1>2, <1>3 DEF PlaceResponseBody
<1>5. /\ back[s][n] \in Seq(ResponseMsgs) /\ rcq[d][s] = <<>>
      /\ \A o \in Nodes : \A k \in DOMAIN back[s][o] : back[s][o][k].ptr = d => o = n /\ k = 1
      /\ m.type = "ExpMsg" /\ m.verb = ResponseVerb /\ n = destinationNode(d)
      /\ m.body = Request(d) /\ Served(d, s) /\ area[d].flag = 0
  <2>1. /\ back[s][n] \in Seq(ResponseMsgs) /\ rcq[m.ptr][s] = <<>>
        /\ \A o \in Nodes : \A k \in DOMAIN back[s][o] : back[s][o][k].ptr = m.ptr => o = n /\ k = 1
    BY SMTT(30), <1>2, <1>4, BackHead
  <2>2. m.verb # "SEND" => /\ m.type = "ExpMsg" /\ m.verb = ResponseVerb /\ n = destinationNode(m.ptr)
                           /\ m.body = Request(m.ptr) /\ Served(m.ptr, s) /\ area[m.ptr].flag = 0
    BY SMTT(30), <1>2, <1>4, BackHead
  <2> QED
    BY <1>3, <1>4, <2>1, <2>2
<1>6. PICK m2 \in ResponseMsgs : m2 = [m EXCEPT !.stage = "body"]
  BY DEF ResponseMsgs
<1>7. /\ m2.ptr = d /\ m2.type = m.type /\ m2.verb = m.verb /\ m2.body = m.body /\ m2.stage = "body"
      /\ m.body \in Bodies
  BY <1>3, <1>6 DEF ResponseMsgs
<1>8. /\ back' \in [Receivers -> [Nodes -> Seq(ResponseMsgs)]]
      /\ \A r \in Receivers \ {s} : back'[r] = back[r]
      /\ \A o \in Nodes \ {n} : back'[s][o] = back[s][o]
      /\ DOMAIN back'[s][n] = DOMAIN back[s][n] /\ back'[s][n][1] = m2
      /\ \A k \in DOMAIN back[s][n] \ {1} : back'[s][n][k] = back[s][n][k]
  <2>1. /\ back' = [back EXCEPT ![s] = [back[s] EXCEPT ![n] = [back[s][n] EXCEPT ![1].stage = "body"]]]
        /\ back[s] \in [Nodes -> Seq(ResponseMsgs)]
    BY <1>1, <1>4 DEF AllTypes, FabricTypes
  <2>2. back[s][n][1] = m /\ 1 \in DOMAIN back[s][n]
    BY <1>2, <1>4, <1>5, TailIs
  <2>3. [back[s][n] EXCEPT ![1].stage = "body"] = [back[s][n] EXCEPT ![1] = m2]
    BY <1>6, <2>2
  <2>4. [back[s][n] EXCEPT ![1] = m2] \in Seq(ResponseMsgs)
    <3>1. PICK len \in Nat : back[s][n] \in [1 .. len -> ResponseMsgs]
      BY <1>5, SeqIs
    <3>2. [back[s][n] EXCEPT ![1] = m2] \in [1 .. len -> ResponseMsgs]
      BY <3>1
    <3>3. [1 .. len -> ResponseMsgs] \subseteq Seq(ResponseMsgs)
      OBVIOUS
    <3> QED
      BY <3>2, <3>3
  <2>5. back' = [back EXCEPT ![s] = [back[s] EXCEPT ![n] = [back[s][n] EXCEPT ![1] = m2]]]
    BY <2>1, <2>3
  <2>6. back'[s][n] = [back[s][n] EXCEPT ![1] = m2] /\ \A o \in Nodes \ {n} : back'[s][o] = back[s][o]
    BY <1>1, <2>1, <2>5 DEF AllTypes, FabricTypes
  <2>7. back' \in [Receivers -> [Nodes -> Seq(ResponseMsgs)]] /\ \A r \in Receivers \ {s} : back'[r] = back[r]
    <3>1. [back[s] EXCEPT ![n] = [back[s][n] EXCEPT ![1] = m2]] \in [Nodes -> Seq(ResponseMsgs)]
      BY <2>1, <2>4
    <3> QED
      BY <1>1, <2>5, <3>1 DEF AllTypes, FabricTypes
  <2> QED
    BY <1>5, <2>2, <2>6, <2>7
<1>9. /\ area' \in [Clients -> Areas]
      /\ area'[d].body = m.body /\ area'[d].flag = 0
      /\ \A c \in Clients \ {d} : area'[c] = area[c]
  <2> DEFINE here == [area[d] EXCEPT !.content = contentOf(s, m), !.body = m.body]
  <2>1. area' = [area EXCEPT ![d] = here]
    BY <1>1, <1>4 DEF AllTypes, ClientTypes
  <2>2. area[d] \in Areas
    BY <1>1 DEF AllTypes, ClientTypes
  <2>3. here \in Areas /\ here.body = m.body /\ here.flag = area[d].flag
    BY <1>1, <1>7, <2>2, ContentFits DEF Areas
  <2> HIDE DEF here
  <2>4. area'[d] = here /\ \A c \in Clients \ {d} : area'[c] = area[c]
    BY <1>1, <2>1 DEF AllTypes, ClientTypes
  <2> QED
    BY <1>1, <1>5, <2>1, <2>2, <2>3, <2>4 DEF AllTypes, ClientTypes
<1>10. AllTypes'
  <2>1. ClientTypes'
    BY <1>1, <1>4, <1>9, ModeStays DEF AllTypes, ClientTypes, Slots, maxNodeID
  <2>2. FabricTypes'
    BY <1>1, <1>4, <1>8, ModeStays DEF AllTypes, FabricTypes, Nodes, Processes
  <2> QED
    BY <1>1, <1>4, <2>1, <2>2, TypesStay DEF AllTypes
<1>11. ASSUME NEW c \in Clients PROVE AnswerKept(c, s)
  <2>1. SameView(c, s)
    BY <1>4, ViewStays DEF historyVars
  <2> QED
    BY <2>1, SameViewIsKept
<1>12. RcqInv(d, s)' /\ RqInv(d, s)'
  <2>1. RcqInv(d, s) /\ RqInv(d, s)
    BY DEF IInv, ResponseInv
  <2>2. SameView(d, s) /\ (Replied(d, s) => Replied(d, s)')
    BY <1>4, ViewStays DEF historyVars, receiverVars, Replied
  <2>3. RcqInv(d, s)'
    BY <1>4, <1>11, <2>1, <2>2, RcqStays
  <2>4. RqInv(d, s)'
    BY <1>4, <2>1, <2>2, RqStays DEF SameView
  <2> QED
    BY <2>3, <2>4
<1>13. AreaInv(d)'
  BY <1>9 DEF AreaInv
<1>14. ASSUME NEW c \in Clients PROVE BackInv(c, s)'
  <2>1. BackInv(c, s) /\ rcq' = rcq /\ rpc' = rpc /\ connected' = connected /\ replied' = replied
    BY <1>4 DEF IInv, ResponseInv, receiverVars
  <2>2. ResponseVerb' = ResponseVerb /\ destinationNode(c)' = destinationNode(c) /\ Nodes' = Nodes
    BY ModeStays DEF Nodes, Processes
  <2>3. CASE c # d
    <3>1. area'[c] = area[c]
      BY <1>9, <2>3
    <3>2. ASSUME NEW o \in Nodes, NEW k \in DOMAIN back'[s][o], back'[s][o][k].ptr = c
          PROVE  k \in DOMAIN back[s][o] /\ back'[s][o][k] = back[s][o][k]
      BY <1>7, <1>8, <2>3, <3>2
    <3>3. ASSUME NEW o \in Nodes, NEW k \in DOMAIN back'[s][o], back'[s][o][k].ptr = c
          PROVE  \A l \in DOMAIN back'[s][o] : back'[s][o][l].ptr = c => l = k
      BY <2>1, <3>2, <3>3 DEF BackInv
    <3> QED
      BY <1>11, <2>1, <2>2, <3>1, <3>2, <3>3 DEF BackInv, AnswerKept
  <2>4. CASE c = d
    <3>1. ASSUME NEW o \in Nodes, NEW k \in DOMAIN back'[s][o], back'[s][o][k].ptr = d
          PROVE  o = n /\ k = 1
      BY <1>5, <1>8, <3>1
    <3>2. ASSUME NEW o \in Nodes, NEW k \in DOMAIN back'[s][o], back'[s][o][k].ptr = d
          PROVE  \A l \in DOMAIN back'[s][o] : back'[s][o][l].ptr = d => l = k
      BY <3>1, <3>2
    <3>3. /\ m2.type = "ExpMsg" /\ m2.verb = ResponseVerb /\ n = destinationNode(d)
          /\ m2.body = Request(d)' /\ Served(d, s)' /\ area'[d].flag = 0
          /\ m2.verb = "WRITE" /\ area'[d].body = m2.body
      BY <1>4, <1>5, <1>7, <1>9, <1>11 DEF AnswerKept
    <3> QED
      BY <1>5, <1>8, <2>1, <2>2, <2>4, <3>1, <3>2, <3>3 DEF BackInv
  <2> QED
    BY <2>3, <2>4
<1>15. \A r \in Receivers \ {s} : back'[r] = back[r] /\ rq'[d][r] = rq[d][r] /\ rcq'[d][r] = rcq[d][r]
  BY <1>4, <1>8
<1>16. \A c \in Clients \ {d} : area'[c] = area[c] /\ rq'[c] = rq[c] /\ rcq'[c] = rcq[c]
  BY <1>4, <1>9
<1> QED
  BY <1>4, <1>5, <1>10, <1>12, <1>13, <1>14, <1>15, <1>16, ResponseArrivalKeeps

\* With the flag, the client has its response.
LEMMA PlaceTransferFlagKeeps ==
  ASSUME IInv, mode' = mode, NEW s \in Receivers, NEW n \in Nodes, PlaceTransferFlag(s, n)
  PROVE  IInv'
<1>1. AllTypes
  BY DEF IInv
<1>2. PICK m \in ResponseMsgs : m = Head(back[s][n])
  BY BackHead DEF PlaceTransferFlag
<1>3. PICK d \in Clients : d = m.ptr
  BY DEF ResponseMsgs
<1>4. /\ back[s][n] # <<>> /\ m.stage = "body"
      /\ area' = [area EXCEPT ![d].flag = 1]
      /\ back' = [back EXCEPT ![s][n] = Tail(@)]
      /\ UNCHANGED <<cpc, ri, msgOffset, i, picked, expId, rq, rcq, receiverVars, wire, rnr, historyVars>>
  BY <1>2, <1>3 DEF PlaceTransferFlag
<1>5. /\ back[s][n] \in Seq(ResponseMsgs) /\ m.verb = ResponseVerb /\ m.verb = "WRITE"
      /\ area[d].body = m.body /\ m.body = Request(d) /\ Served(d, s)
  BY <1>2, <1>3, <1>4, BackHead
<1>6. /\ back' \in [Receivers -> [Nodes -> Seq(ResponseMsgs)]]
      /\ \A r \in Receivers \ {s} : back'[r] = back[r]
  <2>1. back' = [back EXCEPT ![s] = [back[s] EXCEPT ![n] = Tail(back[s][n])]]
    BY <1>1, <1>4 DEF AllTypes, FabricTypes
  <2>2. Tail(back[s][n]) \in Seq(ResponseMsgs)
    BY <1>4, <1>5, TailIs
  <2>3. [back[s] EXCEPT ![n] = Tail(back[s][n])] \in [Nodes -> Seq(ResponseMsgs)]
    BY <1>1, <2>2 DEF AllTypes, FabricTypes
  <2> QED
    BY <1>1, <2>1, <2>3 DEF AllTypes, FabricTypes
<1>7. /\ area' \in [Clients -> Areas]
      /\ area'[d].body = Request(d)
      /\ \A c \in Clients \ {d} : area'[c] = area[c]
  <2>1. area' = [area EXCEPT ![d] = [area[d] EXCEPT !.flag = 1]]
    BY <1>1, <1>4 DEF AllTypes, ClientTypes
  <2>2. area[d] \in Areas
    BY <1>1 DEF AllTypes, ClientTypes
  <2>3. [area[d] EXCEPT !.flag = 1] \in Areas
    BY <2>2 DEF Areas
  <2>4. area'[d] = [area[d] EXCEPT !.flag = 1] /\ \A c \in Clients \ {d} : area'[c] = area[c]
    BY <1>1, <2>1 DEF AllTypes, ClientTypes
  <2> QED
    BY <1>1, <1>5, <2>1, <2>2, <2>3, <2>4 DEF AllTypes, ClientTypes
<1>8. AllTypes'
  <2>1. ClientTypes'
    BY <1>1, <1>4, <1>7, ModeStays DEF AllTypes, ClientTypes, Slots, maxNodeID
  <2>2. FabricTypes'
    BY <1>1, <1>4, <1>6, ModeStays DEF AllTypes, FabricTypes, Nodes, Processes
  <2> QED
    BY <1>1, <1>4, <2>1, <2>2, TypesStay DEF AllTypes
<1>9. ASSUME NEW c \in Clients PROVE AnswerKept(c, s) /\ SameView(c, s)
  <2>1. SameView(c, s)
    BY <1>4, ViewStays DEF historyVars
  <2> QED
    BY <2>1, SameViewIsKept
<1>10. RcqInv(d, s)' /\ RqInv(d, s)'
  <2>1. RcqInv(d, s) /\ RqInv(d, s)
    BY DEF IInv, ResponseInv
  <2>2. Replied(d, s) => Replied(d, s)'
    BY <1>4 DEF receiverVars, Replied
  <2>3. RcqInv(d, s)'
    BY <1>4, <1>9, <2>1, <2>2, RcqStays
  <2>4. RqInv(d, s)'
    BY <1>4, <1>9, <2>1, RqStays DEF SameView
  <2> QED
    BY <2>3, <2>4
<1>11. AreaInv(d)'
  <2>1. SenderPoll = "BUF" /\ SenderPoll' = SenderPoll
    BY <1>1, <1>5, ModeStays, ModeIsKnown DEF AllTypes
  <2>2. cpc'[d] = "await" /\ served'[d] = issued'[d] /\ area'[d].body = Request(d)'
    BY <1>5, <1>7, <1>9 DEF AnswerKept, Served
  <2> QED
    BY <2>1, <2>2 DEF AreaInv
<1>12. ASSUME NEW c \in Clients PROVE BackInv(c, s)'
  <2>1. UNCHANGED <<rpc, connected, replied>> /\ AnswerKept(c, s)
        /\ (c # Head(back[s][n]).ptr => rcq'[c][s] = rcq[c][s] /\ area'[c] = area[c])
    BY <1>2, <1>3, <1>4, <1>7, <1>9 DEF receiverVars
  <2> QED
    BY <1>4, <1>8, <2>1, BackShrinks
<1>13. \A r \in Receivers \ {s} : back'[r] = back[r] /\ rq'[d][r] = rq[d][r] /\ rcq'[d][r] = rcq[d][r]
  BY <1>4, <1>6
<1>14. \A c \in Clients \ {d} : area'[c] = area[c] /\ rq'[c] = rq[c] /\ rcq'[c] = rcq[c]
  BY <1>4, <1>7
<1> QED
  BY <1>4, <1>5, <1>8, <1>10, <1>11, <1>12, <1>13, <1>14, ResponseArrivalKeeps

\* A response that is sent finds the receive that its client has posted for it.
LEMMA DeliverResponseSendKeeps ==
  ASSUME IInv, mode' = mode, NEW s \in Receivers, NEW n \in Nodes, DeliverResponseSend(s, n)
  PROVE  IInv'
<1>1. AllTypes
  BY DEF IInv
<1>2. PICK d \in Clients : d = n /\ back[s][d] # <<>> /\ d \in Nodes
  BY DEF DeliverResponseSend
<1>3. PICK m \in ResponseMsgs : m = Head(back[s][d]) /\ m.verb = "SEND"
  BY <1>2, BackHead DEF DeliverResponseSend
<1>20. PICK m2 \in ResponseMsgs :
          /\ m2 = [m EXCEPT !.copy = contentOf(s, m)] /\ m2.type = m.type /\ m2.at = m.at
          /\ m2.body = m.body
  <2> DEFINE new == contentOf(s, m)
  <2>1. new \in Contents
    BY <1>1, ContentFits
  <2> HIDE DEF new
  <2>2. [m EXCEPT !.copy = new] \in ResponseMsgs
    BY <2>1 DEF ResponseMsgs
  <2>3. \E m2 \in ResponseMsgs : m2 = [m EXCEPT !.copy = new]
    BY <2>2
  <2> QED
    BY <2>3 DEF new, ResponseMsgs
<1>4. /\ back[s][d] \in Seq(ResponseMsgs) /\ m.ptr \in Clients /\ rcq[m.ptr][s] = <<>>
      /\ \/ m.type = "InitExp" /\ d = m.ptr /\ m.at = NodeId[m.ptr] /\ Pending(m.ptr, s) /\ Replied(m.ptr, s)
         \/ /\ m.type = "ExpMsg" /\ m.verb = ResponseVerb /\ d = destinationNode(m.ptr)
            /\ m.body = Request(m.ptr) /\ Served(m.ptr, s)
  BY <1>2, <1>3, BackHead
<1>5. m.ptr = d
  <2>1. m.verb = ResponseVerb => ~SharedMemory
    BY <1>1, <1>3, ModeIsKnown DEF AllTypes
  <2> QED
    BY <1>4, <2>1 DEF destinationNode
<1>6. /\ rcq[d][s] = <<>>
      /\ \/ m.type = "InitExp" /\ m.at = NodeId[d] /\ Pending(d, s) /\ Replied(d, s)
         \/ m.type = "ExpMsg" /\ SenderPoll = "RQ" /\ m.body = Request(d) /\ Served(d, s)
  <2>1. m.verb = ResponseVerb => SenderPoll = "RQ"
    BY <1>1, <1>3, ModeIsKnown DEF AllTypes
  <2> QED
    BY <1>4, <1>5, <2>1
<1>7. rq[d][s] >= 1 /\ rq[d] \in [Receivers -> Nat] /\ rq[d][s] \in Nat
  <2>1. RqInv(d, s) /\ rq[d] \in [Receivers -> Nat]
    BY <1>1, ClientIs DEF IInv, ResponseInv, AllTypes
  <2>2. rq[d][s] >= 1
    BY <1>6, <2>1 DEF RqInv, Served
  <2> QED
    BY <2>1, <2>2
<1>8. /\ rq' = [rq EXCEPT ![d][s] = @ - 1] /\ rcq' = [rcq EXCEPT ![d][s] = Append(@, m2)]
      /\ back' = [back EXCEPT ![s][d] = Tail(@)]
      /\ UNCHANGED <<cpc, ri, msgOffset, i, picked, expId, area, receiverVars, wire, rnr, historyVars>>
  <2>1. rq[d][s] # 0
    BY <1>7
  <2> QED
    BY <1>2, <1>3, <1>20, <2>1 DEF DeliverResponseSend
<1>9. /\ back' \in [Receivers -> [Nodes -> Seq(ResponseMsgs)]]
      /\ \A r \in Receivers \ {s} : back'[r] = back[r]
  <2>1. back' = [back EXCEPT ![s] = [back[s] EXCEPT ![d] = Tail(back[s][d])]]
    BY <1>1, <1>8 DEF AllTypes, FabricTypes
  <2>2. Tail(back[s][d]) \in Seq(ResponseMsgs)
    BY <1>2, <1>4, TailIs
  <2>3. [back[s] EXCEPT ![d] = Tail(back[s][d])] \in [Nodes -> Seq(ResponseMsgs)]
    BY <1>1, <1>2, <2>2 DEF AllTypes, FabricTypes
  <2> QED
    BY <1>1, <2>1, <2>3 DEF AllTypes, FabricTypes
<1>10. /\ rcq' \in [Clients -> [Receivers -> Seq(ResponseMsgs)]] /\ rcq'[d][s] = <<m2>>
       /\ \A c \in Clients \ {d} : rcq'[c] = rcq[c]
       /\ \A r \in Receivers \ {s} : rcq'[d][r] = rcq[d][r]
  <2>1. Append(rcq[d][s], m2) = <<m2>> /\ <<m2>> \in Seq(ResponseMsgs)
    BY <1>6
  <2>2. rcq' = [rcq EXCEPT ![d] = [rcq[d] EXCEPT ![s] = <<m2>>]] /\ rcq[d] \in [Receivers -> Seq(ResponseMsgs)]
    BY <1>1, <1>8, <2>1 DEF AllTypes, ClientTypes
  <2>3. [rcq[d] EXCEPT ![s] = <<m2>>] \in [Receivers -> Seq(ResponseMsgs)]
    BY <2>1, <2>2
  <2>4. rcq'[d] = [rcq[d] EXCEPT ![s] = <<m2>>]
    BY <1>1, <2>2 DEF AllTypes, ClientTypes
  <2> QED
    BY <1>1, <2>2, <2>3, <2>4 DEF AllTypes, ClientTypes
<1>11. /\ rq' \in [Clients -> [Receivers -> Nat]]
       /\ \A c \in Clients \ {d} : rq'[c] = rq[c]
       /\ \A r \in Receivers \ {s} : rq'[d][r] = rq[d][r]
  <2>1. rq' = [rq EXCEPT ![d] = [rq[d] EXCEPT ![s] = rq[d][s] - 1]]
    BY <1>1, <1>8 DEF AllTypes, ClientTypes
  <2>2. rq[d][s] - 1 \in Nat
    BY <1>7
  <2>3. [rq[d] EXCEPT ![s] = rq[d][s] - 1] \in [Receivers -> Nat]
    BY <1>7, <2>2
  <2>4. rq'[d] = [rq[d] EXCEPT ![s] = rq[d][s] - 1]
    BY <1>1, <2>1 DEF AllTypes, ClientTypes
  <2> QED
    BY <1>1, <1>7, <2>1, <2>3, <2>4 DEF AllTypes, ClientTypes
<1>12. AllTypes'
  <2>1. ClientTypes'
    BY <1>1, <1>8, <1>10, <1>11, ModeStays DEF AllTypes, ClientTypes, Slots, maxNodeID
  <2>2. FabricTypes'
    BY <1>1, <1>8, <1>9, ModeStays DEF AllTypes, FabricTypes, Nodes, Processes
  <2> QED
    BY <1>1, <1>8, <2>1, <2>2, TypesStay DEF AllTypes
<1>13. ASSUME NEW c \in Clients PROVE AnswerKept(c, s)
  <2>1. SameView(c, s)
    BY <1>8, ViewStays DEF historyVars
  <2> QED
    BY <2>1, SameViewIsKept
<1>14. RcqInv(d, s)' /\ RqInv(d, s)'
  <2>1. Len(<<m2>>) = 1 /\ <<m2>> # <<>> /\ \A k \in DOMAIN <<m2>> : <<m2>>[k] = m2
    OBVIOUS
  <2>2. Replied(d, s) => Replied(d, s)'
    BY <1>8 DEF receiverVars, Replied
  <2>3. \/ m2.type = "InitExp" /\ m2.at = NodeId[d] /\ Pending(d, s)' /\ Replied(d, s)'
        \/ m2.type = "ExpMsg" /\ SenderPoll' = "RQ" /\ m2.body = Request(d)' /\ Served(d, s)'
    BY <1>6, <1>13, <1>20, <2>2, ModeStays DEF AnswerKept
  <2>4. RcqInv(d, s)'
    BY <1>10, <2>1, <2>3 DEF RcqInv
  <2>5. RqInv(d, s)'
    BY <1>10, <2>1 DEF RqInv
  <2> QED
    BY <2>4, <2>5
<1>15. AreaInv(d)'
  BY <1>8, AreaStays DEF IInv, historyVars
<1>16. ASSUME NEW c \in Clients PROVE BackInv(c, s)'
  <2>1. UNCHANGED <<rpc, connected, replied>> /\ AnswerKept(c, s)
        /\ (c # Head(back[s][d]).ptr => rcq'[c][s] = rcq[c][s] /\ area'[c] = area[c])
    BY <1>3, <1>5, <1>8, <1>10, <1>13 DEF receiverVars
  <2> QED
    BY <1>2, <1>8, <1>12, <2>1, BackShrinks
<1>17. \A r \in Receivers \ {s} : back'[r] = back[r] /\ rq'[d][r] = rq[d][r] /\ rcq'[d][r] = rcq[d][r]
  BY <1>9, <1>10, <1>11
<1>18. \A c \in Clients \ {d} : area'[c] = area[c] /\ rq'[c] = rq[c] /\ rcq'[c] = rcq[c]
  BY <1>8, <1>10, <1>11
<1>19. area'[d] = area[d]
  BY <1>8
<1> QED
  BY <1>8, <1>12, <1>14, <1>15, <1>16, <1>17, <1>18, <1>19, ResponseArrivalKeeps

-----------------------------------------------------------------------------
(***************************************************************************)
(* The invariant holds at first and is kept by every step.                 *)
(***************************************************************************)

\* When nobody has started, nothing is under way.
LEMMA InitIsFine == Init => IInv
<1> SUFFICES ASSUME Init PROVE IInv
  OBVIOUS
<1>m. mode \in Modes
  BY DEF Init
<1> USE <1>m
<1>0. /\ Requests \in Nat /\ Len(Running) \in Nat \ {0} /\ ReceiverOrder[1] \in Receivers
      /\ 0 \in Slots /\ NoBody \in Bodies /\ expectedClients \in Nat \ {0}
  <2>1. Requests \in Nat /\ Len(Running) \in Nat \ {0} /\ ReceiverOrder[1] \in Receivers
    BY ModeIsKnown, RunningIsKnown
  <2>2. 0 \in Slots
    BY MaxNodeIDIsKnown DEF Slots
  <2> QED
    BY <2>1, <2>2, NoBodyFits, ClientsAreCounted
<1>1. ClientTypes
  BY <1>0, EntriesAre DEF Init, ClientTypes, ClientStates, Areas
<1>2. ReceiverTypes
  <2>1. slot \in [Receivers -> SlotTypes]
    BY <1>0 DEF Init, SlotTypes, EmptySlot, Types
  <2>2. initBuf \in [Receivers -> [0 .. expectedClients - 1 -> Types]]
    BY DEF Init, Types
  <2>3. /\ replied \in [Receivers -> 0 .. expectedClients]
        /\ clientsFinished \in [Receivers -> 0 .. expectedClients]
        /\ handledRequests \in [Receivers -> Nat]
    BY <1>0 DEF Init
  <2>4. rpc \in [Receivers -> ReceiverStates] /\ connected \in [Receivers -> Seq(Clients)]
    BY DEF Init, ReceiverStates
  <2>5. srq \in [Receivers -> Seq(Receives)] /\ cq \in [Receivers -> Seq(Completions)]
    BY DEF Init
  <2>6. cur \in [Receivers -> Slots] /\ filledFrom \in [Receivers -> Bodies]
    BY <1>0 DEF Init
  <2>7. respBuffer \in [Receivers -> [Entries -> Contents]]
    BY EntriesAre DEF Init
  <2> QED
    BY <2>1, <2>2, <2>3, <2>4, <2>5, <2>6, <2>7 DEF ReceiverTypes
<1>3. FabricTypes /\ HistoryTypes
  BY <1>0 DEF Init, FabricTypes, HistoryTypes
<1>4. AllTypes
  BY <1>1, <1>2, <1>3 DEF AllTypes
<1>5. ASSUME NEW c \in Clients
      PROVE  /\ cpc[c] = "connectBarrier" /\ ri[c] = 1 /\ i[c] = 0 /\ area[c].flag = 0
             /\ issued[c] = 0 /\ served[c] = 0 /\ answered[c] = 0
             /\ InitDone(c) = 0 /\ FinDone(c) = 0
  BY DEF Init, InitDone, FinDone
<1>6. ASSUME NEW c \in Clients, NEW r \in Receivers
      PROVE  ~Pending(c, r) /\ ~Greeted(c, r) /\ ~Asking(c, r) /\ ~Served(c, r) /\ ~FinSent(c, r)
  <2>1. InitDone(c) = 0 /\ FinDone(c) = 0 /\ cpc[c] = "connectBarrier"
    BY <1>5
  <2> QED
    BY <2>1 DEF Pending, Greeted, Asking, Served, FinSent
<1>7. ASSUME NEW r \in Receivers
      PROVE  /\ rpc[r] = "start" /\ connected[r] = <<>> /\ replied[r] = 0 /\ srq[r] = <<>>
             /\ cq[r] = <<>> /\ clientsFinished[r] = 0
             /\ \A s \in Slots : slot[r][s].type = "EMPTY"
             /\ \A c \in Clients : wire[c][r] = <<>> /\ rcq[c][r] = <<>> /\ <<c, r>> \notin rnr
             /\ \A n \in Nodes : back[r][n] = <<>>
  BY DEF Init, EmptySlot
<1>8. ASSUME NEW c \in Clients PROVE ClientInv(c) /\ AreaInv(c)
  <2>1. AreaInv(c)
    BY <1>5 DEF AreaInv
  <2>2. ClientInv(c)
    BY <1>0, <1>5, <1>6 DEF ClientInv
  <2> QED
    BY <2>1, <2>2
<1>9. ASSUME NEW r \in Receivers PROVE ReceiverInv(r)
  <2>1. StepInv(r)
    BY <1>7 DEF StepInv, Working
  <2>2. PhaseInv(r)
    BY <1>0, <1>7 DEF PhaseInv, Past, IsInjective
  <2>3. SrqInv(r) /\ IndexInv(r) /\ CountInv(r)
    BY <1>7 DEF SrqInv, IndexInv, CountInv, Past
  <2>4. FinishInv(r)
    <3>1. Counted(r) = {}
      BY <1>6 DEF Counted
    <3>2. Counting(r) = 0
      BY <1>7 DEF Counting
    <3> QED
      BY <1>7, <3>1, <3>2, FS_EmptySet DEF FinishInv
  <2> QED
    BY <2>1, <2>2, <2>3, <2>4 DEF ReceiverInv
<1>10. ASSUME NEW c \in Clients, NEW r \in Receivers PROVE RequestInv(c, r) /\ ResponseInv(c, r)
  <2>1. /\ wire[c][r] = <<>> /\ Len(wire[c][r]) = 0 /\ DOMAIN wire[c][r] = {}
        /\ cq[r] = <<>> /\ DOMAIN cq[r] = {}
        /\ rcq[c][r] = <<>> /\ Len(rcq[c][r]) = 0 /\ DOMAIN rcq[c][r] = {}
        /\ \A n \in Nodes : back[r][n] = <<>> /\ DOMAIN back[r][n] = {}
    <3>1. Len(<<>>) = 0 /\ DOMAIN <<>> = {}
      OBVIOUS
    <3> QED
      BY <1>7, <3>1
  <2>2. NodeId[c] \in Slots
    BY MaxNodeIDIsKnown
  <2>8. WireInv(c, r)
    BY <2>1 DEF WireInv
  <2>9. CqInv(c, r)
    BY <2>1 DEF CqInv
  <2>3. SlotInv(c, r)
    BY <1>7, <2>2 DEF SlotInv
  <2>4. HeldInv(c, r)
    BY <1>7 DEF HeldInv, Held, Working
  <2>5. GreetInv(c, r)
    BY <1>6, <1>7 DEF GreetInv, ToSet
  <2>6. RcqInv(c, r)
    BY <2>1 DEF RcqInv
  <2>10. BackInv(c, r)
    BY <2>1 DEF BackInv
  <2>7. RqInv(c, r)
    BY <1>5, <1>6 DEF RqInv
  <2> QED
    BY <2>3, <2>4, <2>5, <2>6, <2>7, <2>8, <2>9, <2>10 DEF RequestInv, ResponseInv
<1> QED
  BY <1>4, <1>8, <1>9, <1>10 DEF IInv

\* A step that changes nothing keeps it.
LEMMA StutterKeeps == ASSUME IInv, UNCHANGED vars PROVE IInv'
<1> USE DEF vars, progress, clientVars, receiverVars, fabricVars, historyVars
<1>1. mode' = mode
  OBVIOUS
<1>2. AllTypes'
  <2>1. AllTypes
    BY DEF IInv
  <2> QED
    BY <1>1, <2>1, TypesStay DEF AllTypes
<1>3. ASSUME NEW c \in Clients PROVE SameClient(c)
  BY DEF SameClient
<1>4. ASSUME NEW c \in Clients PROVE ClientInv(c)' /\ AreaInv(c)'
  BY <1>1, <1>3, OthersStay
<1>5. ASSUME NEW r \in Receivers PROVE LocalStays(r)
  BY DEF LocalStays
<1>6. ASSUME NEW c \in Clients, NEW r \in Receivers PROVE RequestInv(c, r)' /\ ResponseInv(c, r)'
  BY <1>1, <1>3, <1>5, OtherClientStays
<1>7. ASSUME NEW r \in Receivers PROVE ReceiverInv(r)'
  <2>1. ReceiverInv(r)
    BY DEF IInv
  <2>2. \A c \in Clients : SameView(c, r) /\ wire'[c][r] = wire[c][r]
    BY <1>1, <1>3, OthersStay
  <2> QED
    BY <1>1, <1>5, <2>1, <2>2, ReceiverStays DEF SameView
<1> QED
  BY <1>2, <1>4, <1>6, <1>7 DEF IInv

\* With a shared receive queue for the requests, the request buffer of a receiver has an
\* entry more than there are clients, as it does when the ids begin at 1: the receive for
\* a request is posted again only after the response has been sent.
SlotsSuffice == \A m \in Modes : m.request = "SEND" => maxNodeID >= Cardinality(Clients)

\* A step of a client keeps the invariant.
LEMMA ClientStepKeeps ==
  ASSUME IInv, mode' = mode, NEW c \in Clients, ClientStep(c) PROVE IInv'
<1>1. CASE SendInit(c)
  BY <1>1, SendInitKeeps
<1>2. CASE InitReply(c)
  BY <1>2, InitReplyKeeps
<1>3. CASE SkipIteration(c)
  BY <1>3, SkipIterationKeeps
<1>4. CASE PrepareRequest(c)
  BY <1>4, PrepareRequestKeeps
<1>5. CASE PostRequest(c)
  BY <1>5, PostRequestKeeps
<1>6. CASE TakeResponse(c)
  BY <1>6, TakeResponseKeeps
<1>7. CASE EndLoop(c)
  BY <1>7, EndLoopKeeps
<1>8. CASE SendFinished(c)
  BY <1>8, SendFinishedKeeps
<1>9. CASE FinishedAcknowledged(c)
  BY <1>9, FinishedAcknowledgedKeeps
<1> QED
  BY <1>1, <1>2, <1>3, <1>4, <1>5, <1>6, <1>7, <1>8, <1>9 DEF ClientStep

\* So does a step of a receiver.
LEMMA ReceiverThreadKeeps ==
  ASSUME IInv, mode' = mode, NEW s \in Receivers, ReceiverStep(s) PROVE IInv'
<1>1. CASE PostInitReceives(s)
  BY <1>1, PostInitReceivesKeeps
<1>2. CASE PollInit(s)
  BY <1>2, PollInitKeeps
<1>3. CASE PrepareReqBuffer(s)
  BY <1>3, PrepareReqBufferKeeps
<1>4. CASE ReplyInit(s)
  BY <1>4, ReplyInitKeeps
<1>5. CASE ReplyAcknowledged(s)
  BY <1>5, ReplyAcknowledgedKeeps
<1>6. CASE Poll(s)
  BY <1>6, PollKeeps
<1>7. CASE FillResponse(s)
  BY <1>7, FillResponseKeeps
<1>8. CASE FinalizeSlot(s)
  BY <1>8, FinalizeSlotKeeps
<1>9. CASE Transfer(s)
  BY <1>9, TransferKeeps
<1>10. CASE Repost(s)
  BY <1>10, RepostKeeps
<1>11. CASE CountFinished(s)
  BY <1>11, CountFinishedKeeps
<1> QED
  BY <1>1, <1>2, <1>3, <1>4, <1>5, <1>6, <1>7, <1>8, <1>9, <1>10, <1>11 DEF ReceiverStep

\* So does the fabric, with a message on its way to a receiver or to a client.
LEMMA FabricKeeps ==
  ASSUME SlotsSuffice, IInv, mode' = mode, NEW s \in Receivers,
         \/ \E c \in Clients : RequestArrives(c, s)
         \/ \E n \in Nodes : ResponseArrives(s, n)
  PROVE  IInv'
<1>1. ASSUME NEW c \in Clients, PlaceRequestBody(c, s) PROVE IInv'
  BY <1>1, PlaceRequestBodyKeeps
<1>2. ASSUME NEW c \in Clients, PlaceRequestType(c, s) PROVE IInv'
  BY <1>2, PlaceRequestTypeKeeps
<1>3. ASSUME NEW c \in Clients, DeliverRequestSend(c, s) PROVE IInv'
  <2>1. RequestVerb = "SEND" => maxNodeID >= expectedClients
    BY DEF SlotsSuffice, RequestVerb, expectedClients, IInv, AllTypes
  <2>2. CASE srq[s] = <<>>
    BY <1>3, <2>1, <2>2, DeliverNothingKeeps
  <2>3. CASE srq[s] # <<>> /\ rpc[s] = "initPoll"
    BY <1>3, <2>3, DeliverInitKeeps
  <2>4. CASE srq[s] # <<>> /\ rpc[s] # "initPoll"
    BY <1>3, <2>4, DeliverRequestKeeps
  <2> QED
    BY <2>2, <2>3, <2>4
<1>4. ASSUME NEW n \in Nodes, PlaceResponseBody(s, n) PROVE IInv'
  BY <1>4, PlaceResponseBodyKeeps
<1>5. ASSUME NEW n \in Nodes, PlaceTransferFlag(s, n) PROVE IInv'
  BY <1>5, PlaceTransferFlagKeeps
<1>6. ASSUME NEW n \in Nodes, DeliverResponseSend(s, n) PROVE IInv'
  BY <1>6, DeliverResponseSendKeeps
<1> QED
  BY <1>1, <1>2, <1>3, <1>4, <1>5, <1>6 DEF RequestArrives, ResponseArrives

\* The invariant is inductive.
LEMMA NextKeeps == ASSUME SlotsSuffice, IInv, [Next]_vars PROVE IInv'
<1>1. CASE UNCHANGED vars
  BY <1>1, StutterKeeps
<1>2. CASE Next
  <2>1. mode' = mode
    BY <1>2 DEF Next
  <2>2. ASSUME NEW p \in Processes, PassBarrier(p) PROVE IInv'
    BY <2>1, <2>2, PassBarrierKeeps
  <2>3. ASSUME NEW c \in Clients, ClientStep(c) PROVE IInv'
    BY <2>1, <2>3, ClientStepKeeps
  <2>4. ASSUME NEW r \in Receivers, ReceiverStep(r) PROVE IInv'
    BY <2>1, <2>4, ReceiverThreadKeeps
  <2>5. ASSUME NEW c \in Clients, NEW r \in Receivers, RequestArrives(c, r) PROVE IInv'
    BY <2>1, <2>5, FabricKeeps
  <2>6. ASSUME NEW r \in Receivers, NEW n \in Nodes, ResponseArrives(r, n) PROVE IInv'
    BY <2>1, <2>6, FabricKeeps
  <2> QED
    BY <1>2, <2>2, <2>3, <2>4, <2>5, <2>6 DEF Next
<1> QED
  BY <1>1, <1>2

\* The inductive invariant holds.
THEOREM InvariantHolds == SlotsSuffice /\ Spec => []IInv
<1> SUFFICES ASSUME SlotsSuffice PROVE Spec => []IInv
  OBVIOUS
<1>1. Init => IInv
  BY InitIsFine
<1>2. IInv /\ [Next]_vars => IInv'
  BY NextKeeps
<1> QED
  BY <1>1, <1>2, PTL DEF Spec

-----------------------------------------------------------------------------
(***************************************************************************)
(* What is in the responses.  All clients share the entries of a response  *)
(* buffer, and the card reads a response that is not inlined when it sends *)
(* it: by then its entry may have been filled in for another client, but   *)
(* only with the response to the same id.                                  *)
(***************************************************************************)

\* What a response under way brings its client, as long as the entry that it names is not
\* filled in with another id.
Brings(c, r, m) ==
    /\ m.stage = "whole" => m.entry = expId[c] /\ Answers(c, contentOf(r, m))
    /\ m.stage = "body" => Answers(c, area[c].content)
FilledInv(r) ==
    rpc[r] \in {"finalize", "transfer"} => respBuffer[r][filledFrom[r].id] = ResponseTo(filledFrom[r])
BackContent(c, r) ==
    \A n \in Nodes : \A k \in DOMAIN back[r][n] :
        back[r][n][k].ptr = c /\ back[r][n][k].type = "ExpMsg" => Brings(c, r, back[r][n][k])
RcqContent(c, r) ==
    \A k \in DOMAIN rcq[c][r] : rcq[c][r][k].type = "ExpMsg" => Answers(c, rcq[c][r][k].copy)
AreaContent(c) == area[c].flag = 1 => Answers(c, area[c].content)

ContentInv ==
    /\ \A r \in Receivers : FilledInv(r)
    /\ \A c \in Clients : AreaContent(c)
    /\ \A c \in Clients, r \in Receivers : BackContent(c, r) /\ RcqContent(c, r)

\* Only a client that waits has an answer under way.
LEMMA AnswerIsAwaited ==
  ASSUME IInv, NEW c \in Clients
  PROVE  /\ area[c].flag = 1 => cpc[c] = "await"
         /\ \A r \in Receivers, n \in Nodes : \A k \in DOMAIN back[r][n] :
               back[r][n][k].ptr = c /\ back[r][n][k].type = "ExpMsg" => cpc[c] = "await"
         /\ \A r \in Receivers : \A k \in DOMAIN rcq[c][r] :
               rcq[c][r][k].type = "ExpMsg" => cpc[c] = "await"
<1>1. AreaInv(c) /\ \A r \in Receivers : BackInv(c, r) /\ RcqInv(c, r)
  BY DEF IInv, ResponseInv
<1>2. area[c].flag = 1 => cpc[c] = "await"
  BY <1>1 DEF AreaInv
<1>3. ASSUME NEW r \in Receivers, NEW n \in Nodes, NEW k \in DOMAIN back[r][n],
             back[r][n][k].ptr = c, back[r][n][k].type = "ExpMsg"
      PROVE  cpc[c] = "await"
  BY <1>1, <1>3 DEF BackInv, Served
<1>4. ASSUME NEW r \in Receivers, NEW k \in DOMAIN rcq[c][r], rcq[c][r][k].type = "ExpMsg"
      PROVE  cpc[c] = "await"
  BY <1>1, <1>4 DEF RcqInv, Served
<1> QED
  BY <1>2, <1>3, <1>4

\* What a client finds stays as long as it asks for the same, or waits for nothing.
LEMMA AreaContentStays ==
  ASSUME IInv, NEW c \in Clients, AreaContent(c), mode' = mode,
         area'[c] = area[c] \/ area'[c].flag = 0,
         expId'[c] = expId[c] \/ cpc[c] # "await"
  PROVE  AreaContent(c)'
BY AnswerIsAwaited, ModeStays DEF AreaContent, Answers

\* The same for what has been received.
LEMMA RcqContentStays ==
  ASSUME IInv, NEW c \in Clients, NEW r \in Receivers, RcqContent(c, r), mode' = mode,
         rcq'[c][r] = rcq[c][r] \/ rcq'[c][r] = <<>>,
         expId'[c] = expId[c] \/ cpc[c] # "await"
  PROVE  RcqContent(c, r)'
<1>1. DOMAIN <<>> = {}
  OBVIOUS
<1> QED
  BY <1>1, AnswerIsAwaited, ModeStays DEF RcqContent, Answers

\* What a response brings stays as long as its entry, the response area and the request do.
LEMMA BringsStays ==
  ASSUME mode' = mode, NEW c \in Clients, NEW r \in Receivers, NEW m, Brings(c, r, m),
         respBuffer'[r] = respBuffer[r], area'[c].content = area[c].content, expId'[c] = expId[c]
  PROVE  Brings(c, r, m)'
<1>1. Inline' = Inline
  BY ModeStays
<1>2. contentOf(r, m)' = contentOf(r, m)
  BY <1>1 DEF contentOf
<1>3. ASSUME NEW content, Answers(c, content) PROVE Answers(c, content)'
  BY <1>1, <1>3 DEF Answers
<1> QED
  BY <1>2, <1>3 DEF Brings

\* So it does for what is under way.
LEMMA BackContentStays ==
  ASSUME IInv, NEW c \in Clients, NEW r \in Receivers, BackContent(c, r), mode' = mode,
         back'[r] = back[r], respBuffer'[r] = respBuffer[r],
         area'[c].content = area[c].content,
         expId'[c] = expId[c] \/ cpc[c] # "await"
  PROVE  BackContent(c, r)'
<1>1. Nodes' = Nodes
  BY ModeStays DEF Nodes, Processes
<1>2. ASSUME NEW n \in Nodes, NEW k \in DOMAIN back[r][n],
             back[r][n][k].ptr = c, back[r][n][k].type = "ExpMsg", NEW m, m = back[r][n][k]
      PROVE  Brings(c, r, m)'
  <2>1. Brings(c, r, m)
    BY <1>2 DEF BackContent
  <2>2. expId'[c] = expId[c]
    BY <1>2, AnswerIsAwaited
  <2> QED
    BY <2>1, <2>2, BringsStays
<1> QED
  BY <1>1, <1>2 DEF BackContent

\* Steps that touch no response.
LEMMA ContentStays ==
  ASSUME IInv, ContentInv, mode' = mode,
         UNCHANGED <<expId, area, rcq, back, respBuffer, filledFrom>>,
         \A r \in Receivers : rpc'[r] \in {"finalize", "transfer"} => rpc[r] \in {"finalize", "transfer"}
  PROVE  ContentInv'
<1>1. ASSUME NEW r \in Receivers PROVE FilledInv(r)'
  BY DEF ContentInv, FilledInv, ResponseTo
<1>2. ASSUME NEW c \in Clients PROVE AreaContent(c)'
  BY AreaContentStays DEF ContentInv
<1>3. ASSUME NEW c \in Clients, NEW r \in Receivers PROVE BackContent(c, r)' /\ RcqContent(c, r)'
  BY BackContentStays, RcqContentStays DEF ContentInv
<1> QED
  BY <1>1, <1>2, <1>3 DEF ContentInv

\* A client prepares its next request when nothing is under way for it, or takes the
\* response or the reply that it waits for.
LEMMA ClientKeepsContent ==
  ASSUME IInv, ContentInv, mode' = mode, NEW c \in Clients, ClientStep(c) PROVE ContentInv'
<1> DEFINE Quiet == UNCHANGED <<expId, area, rcq, back, respBuffer, filledFrom, rpc>>
<1>1. CASE SendInit(c) \/ SkipIteration(c) \/ PostRequest(c) \/ EndLoop(c) \/ SendFinished(c)
           \/ FinishedAcknowledged(c)
  <2>1. Quiet
    BY <1>1 DEF SendInit, SkipIteration, PostRequest, EndLoop, SendFinished, FinishedAcknowledged,
                receiverVars, fabricVars
  <2> QED
    BY <2>1, ContentStays
<1>2. CASE InitReply(c) \/ PrepareRequest(c) \/ TakeResponse(c)
  <2>1. PICK q \in Receivers :
           /\ UNCHANGED <<back, receiverVars>>
           /\ rcq' = rcq \/ (rcq[c][q] # <<>> /\ rcq' = [rcq EXCEPT ![c][q] = Tail(@)])
           /\ area' = area \/ area' = [area EXCEPT ![c].flag = 0]
           /\ expId' = expId \/ (cpc[c] = "loop" /\ \E id \in Entries : expId' = [expId EXCEPT ![c] = id])
    <3>1. /\ recvIds(c)[ri[c]] \in Receivers /\ picked[c] \in Receivers
      BY RunningIsKnown, ClientIs DEF IInv, AllTypes, ClientInv, recvIds
    <3>2. CASE InitReply(c)
      BY <3>1, <3>2 DEF InitReply, pollReceive, fabricVars
    <3>3. CASE PrepareRequest(c)
      <4>1. \E id \in Entries : expId' = [expId EXCEPT ![c] = id]
        <5>1. PICK randNumber \in RandNumbers :
                expId' = [expId EXCEPT ![c] = randNumber % PreparedResponses]
          BY <3>3 DEF PrepareRequest
        <5>2. randNumber % PreparedResponses \in Entries
          BY ResponseAssumption, RemainderIs DEF Entries
        <5> QED
          BY <5>1, <5>2
      <4> QED
        BY <3>1, <3>3, <4>1 DEF PrepareRequest, ClientGoto, fabricVars
    <3>4. CASE TakeResponse(c)
      BY <3>1, <3>4 DEF TakeResponse, pollReceive, fabricVars
    <3> QED
      BY <1>2, <3>2, <3>3, <3>4
  <2>2. AllTypes
    BY DEF IInv
  <2>3. ASSUME NEW d \in Clients
        PROVE  /\ area'[d] = area[d] \/ area'[d].flag = 0
               /\ area'[d].content = area[d].content
               /\ expId'[d] = expId[d] \/ cpc[d] # "await"
    <3>1. area'[d] = area[d] \/ (area'[d].flag = 0 /\ area'[d].content = area[d].content)
      BY SMTT(30), <2>1, <2>2 DEF AllTypes, ClientTypes, Areas
    <3>2. expId'[d] = expId[d] \/ cpc[d] # "await"
      BY <2>1, <2>2 DEF AllTypes, ClientTypes
    <3> QED
      BY <3>1, <3>2
  <2>4. ASSUME NEW d \in Clients, NEW r \in Receivers
        PROVE  rcq'[d][r] = rcq[d][r] \/ rcq'[d][r] = <<>>
    <3>1. rcq[d][r] # <<>> => Tail(rcq[d][r]) = <<>>
      BY <2>2, RcqHead DEF IInv, ResponseInv
    <3>2. rcq \in [Clients -> [Receivers -> Seq(ResponseMsgs)]]
      BY <2>2 DEF AllTypes, ClientTypes
    <3>3. CASE d = c /\ r = q /\ rcq' # rcq
      <4>1. rcq[c][q] # <<>> /\ rcq' = [rcq EXCEPT ![c][q] = Tail(@)]
        BY <2>1, <3>3
      <4>2. rcq'[c][q] = Tail(rcq[c][q])
        BY <3>2, <4>1
      <4> QED
        BY <3>1, <3>3, <4>1, <4>2
    <3>4. CASE (d # c \/ r # q) /\ rcq' # rcq
      BY <2>1, <3>2, <3>4
    <3> QED
      BY <3>3, <3>4
  <2>5. ASSUME NEW r \in Receivers PROVE FilledInv(r)'
    BY <2>1 DEF ContentInv, FilledInv, ResponseTo, receiverVars
  <2>6. ASSUME NEW d \in Clients PROVE AreaContent(d)'
    BY <2>3, AreaContentStays DEF ContentInv
  <2>7. ASSUME NEW d \in Clients, NEW r \in Receivers PROVE BackContent(d, r)' /\ RcqContent(d, r)'
    BY <2>1, <2>3, <2>4, BackContentStays, RcqContentStays DEF ContentInv, receiverVars
  <2> QED
    BY <2>5, <2>6, <2>7 DEF ContentInv
<1> QED
  BY <1>1, <1>2 DEF ClientStep

\* An entry is filled in again, perhaps while a response to another client that has asked
\* for the same entry has not been read yet: the id in it stays.
LEMMA FillKeepsContent ==
  ASSUME IInv, ContentInv, mode' = mode, NEW s \in Receivers, FillResponse(s) PROVE ContentInv'
<1>1. AllTypes /\ StepInv(s)
  BY DEF IInv, ReceiverInv
<1>2. /\ rpc[s] = "handle" /\ slot[s][cur[s]].type = "ExpMsg"
      /\ rpc' = [rpc EXCEPT ![s] = requestSteps[1]]
      /\ UNCHANGED <<expId, area, rcq, back>>
  BY DEF FillResponse, ReceiverGoto, clientVars, fabricVars
<1>3. PICK req \in Bodies : req = slot[s][cur[s]].body
  BY <1>1, ReceiverIs DEF AllTypes, SlotTypes
<1>4. /\ respBuffer' = [respBuffer EXCEPT ![s][req.id] = ResponseTo(req)]
      /\ filledFrom' = [filledFrom EXCEPT ![s] = req]
  BY <1>3 DEF FillResponse
<1>5. req.ptr \in Clients
  BY <1>1, <1>2, <1>3 DEF StepInv, Working
<1>6. /\ req.id \in Entries /\ filledFrom'[s] = req /\ respBuffer'[s][req.id] = ResponseTo(req)
      /\ \A k \in Entries \ {req.id} : respBuffer'[s][k] = respBuffer[s][k]
      /\ \A r \in Receivers \ {s} : /\ respBuffer'[r] = respBuffer[r] /\ rpc'[r] = rpc[r]
                                    /\ filledFrom'[r] = filledFrom[r]
  BY <1>1, <1>2, <1>4, FilledFits DEF AllTypes, ReceiverTypes
<1>7. ASSUME NEW r \in Receivers PROVE FilledInv(r)'
  <2>1. CASE r = s
    BY <1>6, <2>1 DEF FilledInv, ResponseTo
  <2>2. CASE r # s
    BY <1>6, <2>2 DEF ContentInv, FilledInv, ResponseTo
  <2> QED
    BY <2>1, <2>2
<1>8. ASSUME NEW c \in Clients PROVE AreaContent(c)'
  BY <1>2, AreaContentStays DEF ContentInv
<1>9. ASSUME NEW c \in Clients, NEW r \in Receivers PROVE RcqContent(c, r)'
  BY <1>2, RcqContentStays DEF ContentInv
<1>10. ASSUME NEW c \in Clients, NEW r \in Receivers PROVE BackContent(c, r)'
  <2>1. CASE r # s
    BY <1>2, <1>6, <2>1, BackContentStays DEF ContentInv
  <2>2. CASE r = s
    <3>1. SUFFICES ASSUME NEW n \in Nodes, NEW k \in DOMAIN back[s][n],
                          back[s][n][k].ptr = c, back[s][n][k].type = "ExpMsg"
                   PROVE  Brings(c, s, back[s][n][k])'
      <4>1. Nodes' = Nodes
        BY ModeStays DEF Nodes, Processes
      <4> QED
        BY <1>2, <2>2, <4>1 DEF BackContent
    <3>2. PICK m \in ResponseMsgs : m = back[s][n][k]
      <4>1. back[s][n] \in Seq(ResponseMsgs)
        BY <1>1 DEF AllTypes, FabricTypes
      <4> QED
        BY <1>2, <4>1, SeqIs
    <3>3. Brings(c, s, m) /\ m.type = "ExpMsg" /\ m.entry \in Entries
      BY <3>1, <3>2 DEF ContentInv, BackContent, ResponseMsgs
    <3>4. m.stage = "whole" => Answers(c, contentOf(s, m))'
      <4>1. CASE Inline \/ m.entry # req.id
        BY <1>2, <1>6, <3>3, <4>1, ModeStays DEF Brings, Answers, contentOf
      <4>2. CASE ~Inline /\ m.entry = req.id
        BY <1>2, <1>5, <1>6, <3>3, <4>2, ModeStays DEF Brings, Answers, contentOf, ResponseTo
      <4> QED
        BY <4>1, <4>2
    <3>5. Brings(c, s, m)'
      BY <1>2, <3>3, <3>4, ModeStays DEF Brings, Answers
    <3> QED
      BY <1>2, <3>2, <3>5
  <2> QED
    BY <2>1, <2>2
<1> QED
  BY <1>7, <1>8, <1>9, <1>10 DEF ContentInv

\* A reply of the init phase is no response to a request.
LEMMA ReplyKeepsContent ==
  ASSUME IInv, ContentInv, mode' = mode, NEW s \in Receivers, ReplyInit(s) PROVE ContentInv'
<1>1. AllTypes /\ AllTypes' /\ IInv'
  BY ReplyInitKeeps DEF IInv
<1>2. /\ UNCHANGED <<expId, area, rcq, respBuffer, filledFrom, rnr>>
      /\ rpc' = [rpc EXCEPT ![s] = "replyAck"]
      /\ \E m, n : m.type = "InitExp" /\ PostBack(s, n, m)
  BY DEF ReplyInit, ReceiverGoto, clientVars
<1>3. PICK m, at : m.type = "InitExp" /\ PostBack(s, at, m)
  BY <1>2
<1>4. back' = back \/ back' = [back EXCEPT ![s][at] = Append(@, m)]
  BY <1>3 DEF PostBack
<1>5. ASSUME NEW r \in Receivers, NEW o \in Nodes, NEW k \in DOMAIN back'[r][o],
             back'[r][o][k].type = "ExpMsg"
      PROVE  k \in DOMAIN back[r][o] /\ back'[r][o][k] = back[r][o][k]
  <2>1. back \in [Receivers -> [Nodes -> Seq(ResponseMsgs)]]
    BY <1>1 DEF AllTypes, FabricTypes
  <2>2. back'[r][o] = back[r][o] \/ back'[r][o] = Append(back[r][o], m)
    BY ZenonT(60), <1>4, <2>1
  <2>3. back[r][o] \in Seq(ResponseMsgs)
    BY <2>1
  <2>4. CASE back'[r][o] = Append(back[r][o], m)
    <3>1. \/ k \in DOMAIN back[r][o] /\ Append(back[r][o], m)[k] = back[r][o][k]
          \/ Append(back[r][o], m)[k] = m
      BY <1>5, <2>3, <2>4
    <3> QED
      BY <1>3, <1>5, <2>4, <3>1
  <2> QED
    BY <1>5, <2>2, <2>4
<1>6. ASSUME NEW r \in Receivers PROVE FilledInv(r)'
  BY <1>1, <1>2 DEF ContentInv, FilledInv, ResponseTo, AllTypes, ReceiverTypes
<1>7. ASSUME NEW c \in Clients PROVE AreaContent(c)'
  BY <1>2, AreaContentStays DEF ContentInv
<1>8. ASSUME NEW c \in Clients, NEW r \in Receivers PROVE RcqContent(c, r)'
  BY <1>2, RcqContentStays DEF ContentInv
<1>9. ASSUME NEW c \in Clients, NEW r \in Receivers PROVE BackContent(c, r)'
  <2>1. Nodes' = Nodes
    BY ModeStays DEF Nodes, Processes
  <2>2. BackContent(c, r)
    BY DEF ContentInv
  <2>3. ASSUME NEW n \in Nodes, NEW k \in DOMAIN back'[r][n],
               back'[r][n][k].ptr = c, back'[r][n][k].type = "ExpMsg", NEW x, x = back'[r][n][k]
        PROVE  Brings(c, r, x)'
    <3>1. k \in DOMAIN back[r][n] /\ x = back[r][n][k]
      BY <1>5, <2>3
    <3>2. Brings(c, r, x)
      BY <2>2, <2>3, <3>1 DEF BackContent
    <3> QED
      BY <1>2, <3>2, BringsStays
  <2> QED
    BY <2>1, <2>3 DEF BackContent
<1> QED
  BY <1>6, <1>7, <1>8, <1>9 DEF ContentInv

\* What is posted is the response to the request of its client.
LEMMA TransferKeepsContent ==
  ASSUME IInv, ContentInv, mode' = mode, NEW s \in Receivers, Transfer(s) PROVE ContentInv'
<1>1. AllTypes /\ StepInv(s)
  BY DEF IInv, ReceiverInv
<1>2. /\ UNCHANGED <<expId, area, rcq, respBuffer, filledFrom, rnr>>
      /\ rpc[s] = "transfer" /\ rpc' = [rpc EXCEPT ![s] = stepAfter("transfer")]
  BY DEF Transfer, ReceiverGoto, clientVars
<1>3. PICK d \in Clients : d = slot[s][cur[s]].body.ptr
  BY <1>1, <1>2 DEF StepInv, Working
<1>4. slot[s][cur[s]].body = Request(d) /\ filledFrom[s] = Request(d)
  BY <1>2, <1>3, HeldIs DEF Working
<1>5. respBuffer[s][expId[d]] = [responseId |-> expId[d], senderNodeId |-> d]
  <2>1. respBuffer[s][Request(d).id] = ResponseTo(Request(d))
    BY <1>2, <1>4 DEF ContentInv, FilledInv
  <2> QED
    BY <2>1 DEF Request, ResponseTo
<1> DEFINE m == [type |-> "ExpMsg", verb |-> ResponseVerb, ptr |-> d, at |-> 0, entry |-> expId[d],
                 copy |-> IF Inline THEN respBuffer[s][expId[d]] ELSE Unfilled,
                 body |-> Request(d), stage |-> "whole"]
<1>6. back' = back \/ back' = [back EXCEPT ![s][Request(d).dest] = Append(@, m)]
  <2>1. Request(d).id = expId[d] /\ Request(d).ptr = d
    BY DEF Request
  <2> QED
    BY <1>4, <2>1 DEF Transfer, PostBack, entryOf
<1>7. m.ptr = d /\ m.stage = "whole" /\ m.entry = expId[d]
      /\ Answers(d, contentOf(s, m))
  BY <1>5 DEF Answers, contentOf
<1>8. PICK p : p = m
  OBVIOUS
<1> HIDE DEF m
<1>9. ASSUME NEW r \in Receivers, NEW o \in Nodes, NEW k \in DOMAIN back'[r][o]
      PROVE  \/ k \in DOMAIN back[r][o] /\ back'[r][o][k] = back[r][o][k]
             \/ r = s /\ back'[r][o][k] = p
  <2>1. back \in [Receivers -> [Nodes -> Seq(ResponseMsgs)]]
    BY <1>1 DEF AllTypes, FabricTypes
  <2>2. back'[r][o] = back[r][o] \/ (r = s /\ back'[r][o] = Append(back[r][o], p))
    BY <1>6, <1>8, <2>1
  <2>3. back[r][o] \in Seq(ResponseMsgs)
    BY <2>1
  <2>4. CASE r = s /\ back'[r][o] = Append(back[r][o], p)
    <3>1. \/ k \in DOMAIN back[r][o] /\ Append(back[r][o], p)[k] = back[r][o][k]
          \/ Append(back[r][o], p)[k] = p
      BY <1>9, <2>3, <2>4
    <3> QED
      BY <2>4, <3>1
  <2> QED
    BY <1>9, <2>2, <2>4
<1>10. ASSUME NEW r \in Receivers PROVE FilledInv(r)'
  <2>1. stepAfter("transfer") \in {"poll", "repost"}
    BY <1>1, StepsAre DEF AllTypes
  <2> QED
    BY <1>1, <1>2, <2>1 DEF ContentInv, FilledInv, ResponseTo, AllTypes, ReceiverTypes
<1>11. ASSUME NEW c \in Clients PROVE AreaContent(c)'
  BY <1>2, AreaContentStays DEF ContentInv
<1>12. ASSUME NEW c \in Clients, NEW r \in Receivers PROVE RcqContent(c, r)'
  BY <1>2, RcqContentStays DEF ContentInv
<1>13. ASSUME NEW c \in Clients, NEW r \in Receivers PROVE BackContent(c, r)'
  <2>1. SUFFICES ASSUME NEW n \in Nodes, NEW k \in DOMAIN back'[r][n],
                        back'[r][n][k].ptr = c, back'[r][n][k].type = "ExpMsg"
                 PROVE  Brings(c, r, back[r][n][k])'
    <3>1. Nodes' = Nodes
      BY ModeStays DEF Nodes, Processes
    <3> QED
      BY <3>1 DEF BackContent
  <2>2. PICK x : x = back'[r][n][k]
    OBVIOUS
  <2>3. Brings(c, r, x)
    <3>1. CASE k \in DOMAIN back[r][n] /\ back'[r][n][k] = back[r][n][k]
      BY <2>1, <2>2, <3>1 DEF ContentInv, BackContent
    <3>2. CASE r = s /\ back'[r][n][k] = p
      BY <1>7, <1>8, <2>1, <2>2, <3>2 DEF Brings
    <3> QED
      BY <1>9, <2>1, <3>1, <3>2
  <2>4. Brings(c, r, x)'
    BY <1>2, <2>3, ModeStays DEF Brings, Answers, contentOf
  <2> QED
    BY <2>2, <2>4
<1> QED
  BY <1>10, <1>11, <1>12, <1>13 DEF ContentInv

\* What the card brings is what the entry holds by now, or the copy.
LEMMA HeadBrings ==
  ASSUME IInv, ContentInv, NEW s \in Receivers, NEW n \in Nodes, back[s][n] # <<>>,
         NEW m, m = Head(back[s][n]), m.type = "ExpMsg"
  PROVE  m.ptr \in Clients /\ Brings(m.ptr, s, m)
<1>1. m = back[s][n][1] /\ 1 \in DOMAIN back[s][n]
  BY TailIs DEF IInv, AllTypes, FabricTypes
<1>2. m.ptr \in Clients
  BY BackHead
<1> QED
  BY <1>1, <1>2 DEF ContentInv, BackContent

\* The content of the oldest of a connection has been placed.
BodyOf(m) == [m EXCEPT !.stage = "body"]
BodyPlaced(s, n) == back' = [back EXCEPT ![s][n][1].stage = "body"]

\* The others are where they were.
LEMMA BodyMoves ==
  ASSUME AllTypes, NEW s \in Receivers, NEW n \in Nodes, back[s][n] # <<>>,
         NEW m, m = Head(back[s][n]),
         BodyPlaced(s, n),
         NEW r \in Receivers, NEW o \in Nodes
  PROVE  \A k \in DOMAIN back'[r][o] :
            \/ \E l \in DOMAIN back[r][o] : back'[r][o][k] = back[r][o][l] /\ (r = s /\ o = n => l # 1)
            \/ back'[r][o][k] = BodyOf(m)
<1>1. back[s][n] \in Seq(ResponseMsgs) /\ back \in [Receivers -> [Nodes -> Seq(ResponseMsgs)]]
  BY DEF AllTypes, FabricTypes
<1>2. CASE r # s \/ o # n
  <2>1. back'[r][o] = back[r][o]
    BY <1>1, <1>2 DEF BodyPlaced
  <2> QED
    BY <1>2, <2>1
<1>3. CASE r = s /\ o = n
  <2>1. back'[r][o] = [back[s][n] EXCEPT ![1].stage = "body"]
    BY <1>1, <1>3 DEF BodyPlaced
  <2>2. m = back[s][n][1] /\ 1 \in DOMAIN back[s][n]
    BY <1>1, TailIs
  <2>3. DOMAIN back'[r][o] = DOMAIN back[s][n]
    BY <2>1
  <2>4. ASSUME NEW k \in DOMAIN back'[r][o], k = 1 PROVE back'[r][o][k] = BodyOf(m)
    BY <2>1, <2>2, <2>4 DEF BodyOf
  <2>5. ASSUME NEW k \in DOMAIN back'[r][o], k # 1
        PROVE  k \in DOMAIN back[r][o] /\ back'[r][o][k] = back[r][o][k]
    BY <1>3, <2>1, <2>3, <2>5
  <2> QED
    BY <2>4, <2>5
<1> QED
  BY <1>2, <1>3

\* What is still under way, when the oldest of a connection has been taken or all of it is
\* lost, was under way before.
LEMMA RestMoves ==
  ASSUME AllTypes, NEW s \in Receivers, NEW n \in Nodes, back[s][n] # <<>>,
         \/ back' = [back EXCEPT ![s][n] = Tail(@)]
         \/ back' = [back EXCEPT ![s][n] = <<>>],
         NEW r \in Receivers, NEW o \in Nodes, NEW k \in DOMAIN back'[r][o]
  PROVE  \E l \in DOMAIN back[r][o] : back'[r][o][k] = back[r][o][l]
<1>1. CASE back' = [back EXCEPT ![s][n] = Tail(@)]
  <2>1. back[s][n] \in Seq(ResponseMsgs) /\ back \in [Receivers -> [Nodes -> Seq(ResponseMsgs)]]
    BY DEF AllTypes, FabricTypes
  <2>2. \A j \in DOMAIN Tail(back[s][n]) :
           j + 1 \in DOMAIN back[s][n] /\ Tail(back[s][n])[j] = back[s][n][j + 1]
    BY <2>1, TailIs
  <2>3. back'[r][o] = back[r][o] \/ (r = s /\ o = n /\ back'[r][o] = Tail(back[s][n]))
    BY <1>1, <2>1
  <2>4. CASE back'[r][o] = back[r][o]
    BY <2>4
  <2>5. CASE r = s /\ o = n /\ back'[r][o] = Tail(back[s][n])
    BY <2>2, <2>5
  <2> QED
    BY <2>3, <2>4, <2>5
<1>2. CASE back' = [back EXCEPT ![s][n] = <<>>]
  <2>1. back \in [Receivers -> [Nodes -> Seq(ResponseMsgs)]] /\ DOMAIN <<>> = {}
    BY DEF AllTypes, FabricTypes
  <2>2. back'[r][o] = back[r][o] \/ back'[r][o] = <<>>
    BY <1>2, <2>1
  <2> QED
    BY <2>1, <2>2
<1> QED
  BY <1>1, <1>2

\* A response reaches the response area of its client, first the content and then the flag,
\* or a receive that the client has posted.
LEMMA ArrivalKeepsContent ==
  ASSUME IInv, ContentInv, mode' = mode, NEW s \in Receivers, NEW n \in Nodes, ResponseArrives(s, n)
  PROVE  ContentInv'
<1>1. AllTypes
  BY DEF IInv
<1>2. UNCHANGED <<expId, respBuffer, filledFrom, rpc>> /\ back[s][n] # <<>>
  BY DEF ResponseArrives, PlaceResponseBody, PlaceTransferFlag, DeliverResponseSend, receiverVars
<1>3. PICK m \in ResponseMsgs : m = Head(back[s][n])
  BY <1>2, BackHead
<1>4. PICK d \in Clients : d = m.ptr
  BY <1>3 DEF ResponseMsgs
<1>5. m.type = "ExpMsg" => Brings(d, s, m)
  BY <1>2, <1>3, <1>4, HeadBrings
<1>6. m.verb = "WRITE" \/ m.stage = "body" => m.type = "ExpMsg" /\ m.verb = "WRITE"
  BY <1>2, <1>3, BackHead
<1>7. /\ m.stage \in {"whole", "body"}
      /\ \A r \in Receivers, o \in Nodes : \A k \in DOMAIN back[r][o] :
            back[r][o][k].ptr = d /\ back[r][o][k].type = "ExpMsg" /\ m.type = "ExpMsg"
               => r = s /\ o = n /\ k = 1
  <2>1. ASSUME NEW r \in Receivers, NEW o \in Nodes, NEW k \in DOMAIN back[r][o],
               back[r][o][k].ptr = d, back[r][o][k].type = "ExpMsg", m.type = "ExpMsg"
        PROVE  r = s /\ o = n /\ k = 1
    <3>1. Served(d, s)
      BY <1>2, <1>3, <1>4, <2>1, BackHead
    <3>2. Served(d, r)
      <4>1. BackInv(d, r)
        BY DEF IInv, ResponseInv
      <4> QED
        BY <2>1, <4>1 DEF BackInv
    <3>3. r = s
      BY <3>1, <3>2 DEF Served
    <3> QED
      BY <1>2, <1>3, <1>4, <2>1, <3>3, BackHead
  <2> QED
    BY <2>1, <1>3 DEF ResponseMsgs
<1>8. ASSUME NEW r \in Receivers PROVE FilledInv(r)'
  BY <1>2 DEF ContentInv, FilledInv, ResponseTo
<1> DEFINE Same(c) == area'[c].content = area[c].content
<1>9. CASE PlaceResponseBody(s, n)
  <2>1. /\ m.type = "ExpMsg" /\ m.stage = "whole" /\ rcq' = rcq
        /\ BodyPlaced(s, n)
        /\ area' = [area EXCEPT ![d].content = contentOf(s, m), ![d].body = m.body]
    BY <1>3, <1>4, <1>6, <1>9 DEF PlaceResponseBody, BodyPlaced
  <2>2. Answers(d, contentOf(s, m)) /\ area[d].flag = 0
    <3>1. area[d].flag = 0
      <4>1. area[m.ptr].flag = 0
        BY <1>2, <1>3, <2>1, BackHead
      <4> QED
        BY <1>4, <4>1
    <3> QED
      BY <1>5, <2>1, <3>1 DEF Brings
  <2>3. /\ area'[d].content = contentOf(s, m) /\ area'[d].flag = 0
        /\ \A c \in Clients \ {d} : area'[c] = area[c]
    BY <1>1, <2>1, <2>2 DEF AllTypes, ClientTypes, Areas
  <2>4. ASSUME NEW c \in Clients PROVE AreaContent(c)'
    BY <1>2, <2>3, AreaContentStays DEF ContentInv
  <2>5. ASSUME NEW c \in Clients, NEW r \in Receivers PROVE RcqContent(c, r)'
    BY <1>2, <2>1, RcqContentStays DEF ContentInv
  <2>6. ASSUME NEW c \in Clients, NEW r \in Receivers PROVE BackContent(c, r)'
    <3>1. SUFFICES ASSUME NEW o \in Nodes, NEW k \in DOMAIN back'[r][o],
                          back'[r][o][k].ptr = c, back'[r][o][k].type = "ExpMsg"
                   PROVE  Brings(c, r, back[r][o][k])'
      <4>1. Nodes' = Nodes
        BY ModeStays DEF Nodes, Processes
      <4> QED
        BY <4>1 DEF BackContent
    <3>2. PICK x : x = back'[r][o][k]
      OBVIOUS
    <3>3. CASE \E l \in DOMAIN back[r][o] : x = back[r][o][l] /\ (r = s /\ o = n => l # 1)
      <4>0. PICK l \in DOMAIN back[r][o] : x = back[r][o][l] /\ (r = s /\ o = n => l # 1)
        BY <3>3
      <4>1. Brings(c, r, x) /\ c # d
        <5>1. back[r][o][l].ptr = c /\ back[r][o][l].type = "ExpMsg"
          BY <3>1, <3>2, <4>0
        <5>2. Brings(c, r, x)
          BY <4>0, <5>1 DEF ContentInv, BackContent
        <5>3. c # d
          BY <1>7, <2>1, <4>0, <5>1
        <5> QED
          BY <5>2, <5>3
      <4>2. Brings(c, r, x)'
        BY <1>2, <2>3, <4>1, ModeStays DEF Brings, Answers, contentOf
      <4> QED
        BY <3>2, <4>2
    <3>4. CASE x = BodyOf(m)
      <4>1. x.stage = "body" /\ x.ptr = d
        BY <1>4, <3>4 DEF ResponseMsgs, BodyOf
      <4>2. c = d
        BY <3>1, <3>2, <4>1
      <4>3. Brings(d, r, x)'
        BY <1>2, <2>2, <2>3, <4>1, ModeStays DEF Brings, Answers
      <4> QED
        BY <3>2, <4>2, <4>3
    <3>5. \/ \E l \in DOMAIN back[r][o] : x = back[r][o][l] /\ (r = s /\ o = n => l # 1)
          \/ x = BodyOf(m)
      <4>1. \A j \in DOMAIN back'[r][o] :
               \/ \E l \in DOMAIN back[r][o] : back'[r][o][j] = back[r][o][l] /\ (r = s /\ o = n => l # 1)
               \/ back'[r][o][j] = BodyOf(m)
        BY <1>1, <1>2, <1>3, <2>1, BodyMoves
      <4> QED
        BY <3>1, <3>2, <4>1
    <3> QED
      BY <3>3, <3>4, <3>5
  <2> QED
    BY <1>8, <2>4, <2>5, <2>6 DEF ContentInv
<1>10. ASSUME \A c \in Clients : Same(c),
              back' = [back EXCEPT ![s][n] = Tail(@)] \/ back' = [back EXCEPT ![s][n] = <<>>],
              NEW c \in Clients, NEW r \in Receivers
       PROVE  BackContent(c, r)'
  <2>1. SUFFICES ASSUME NEW o \in Nodes, NEW k \in DOMAIN back'[r][o],
                        back'[r][o][k].ptr = c, back'[r][o][k].type = "ExpMsg"
                 PROVE  Brings(c, r, back[r][o][k])'
    <3>1. Nodes' = Nodes
      BY ModeStays DEF Nodes, Processes
    <3> QED
      BY <3>1 DEF BackContent
  <2>2. PICK x : x = back'[r][o][k]
    OBVIOUS
  <2>3. Brings(c, r, x)
    <3>1. \E l \in DOMAIN back[r][o] : x = back[r][o][l]
      BY <1>1, <1>2, <1>10, <2>1, <2>2, RestMoves
    <3> QED
      BY <2>1, <2>2, <3>1 DEF ContentInv, BackContent
  <2>4. Brings(c, r, x)'
    BY <1>2, <1>10, <2>3, ModeStays DEF Brings, Answers, contentOf
  <2> QED
    BY <2>2, <2>4
<1>11. CASE PlaceTransferFlag(s, n)
  <2>1. /\ m.type = "ExpMsg" /\ m.stage = "body" /\ rcq' = rcq
        /\ back' = [back EXCEPT ![s][n] = Tail(@)]
        /\ area' = [area EXCEPT ![d].flag = 1]
    BY <1>3, <1>4, <1>6, <1>11 DEF PlaceTransferFlag
  <2>2. Answers(d, area[d].content)
    BY <1>5, <2>1 DEF Brings
  <2>3. (\A c \in Clients : Same(c)) /\ \A c \in Clients \ {d} : area'[c] = area[c]
    BY <1>1, <2>1 DEF AllTypes, ClientTypes, Areas
  <2>4. ASSUME NEW c \in Clients PROVE AreaContent(c)'
    <3>1. CASE c = d
      BY <1>2, <2>2, <2>3, <3>1, ModeStays DEF AreaContent, Answers
    <3>2. CASE c # d
      BY <1>2, <2>3, <3>2, AreaContentStays DEF ContentInv
    <3> QED
      BY <3>1, <3>2
  <2>5. ASSUME NEW c \in Clients, NEW r \in Receivers PROVE RcqContent(c, r)'
    BY <1>2, <2>1, RcqContentStays DEF ContentInv
  <2> QED
    BY <1>8, <1>10, <2>1, <2>3, <2>4, <2>5 DEF ContentInv
<1>12. CASE DeliverResponseSend(s, n)
  <2>1. m.verb = "SEND" /\ n \in Clients /\ area' = area
    BY <1>3, <1>12 DEF DeliverResponseSend
  <2> DEFINE new == [m EXCEPT !.copy = contentOf(s, m)]
  <2>2. \/ /\ rcq' = rcq /\ back' = [back EXCEPT ![s][n] = <<>>]
        \/ /\ rcq' = [rcq EXCEPT ![n][s] = Append(@, new)]
           /\ back' = [back EXCEPT ![s][n] = Tail(@)]
    BY <1>3, <1>12 DEF DeliverResponseSend
  <2>3. m.type = "ExpMsg" => n = d /\ Answers(d, contentOf(s, m))
    <3>1. SUFFICES ASSUME m.type = "ExpMsg" PROVE n = d /\ Answers(d, contentOf(s, m))
      OBVIOUS
    <3>2. n = destinationNode(d) /\ m.verb = ResponseVerb
      BY <1>2, <1>3, <1>4, <3>1, BackHead
    <3>3. ~SharedMemory
      BY <1>1, <2>1, <3>2, ModeIsKnown DEF AllTypes
    <3>4. m.stage = "whole"
      BY <1>6, <1>7, <2>1
    <3> QED
      BY <1>5, <3>1, <3>2, <3>3, <3>4 DEF destinationNode, Brings
  <2>4. new.type = m.type /\ new.copy = contentOf(s, m)
    BY DEF ResponseMsgs
  <2> HIDE DEF new
  <2>5. ASSUME NEW c \in Clients PROVE AreaContent(c)'
    BY <1>2, <2>1, AreaContentStays DEF ContentInv
  <2>6. ASSUME NEW c \in Clients, NEW r \in Receivers PROVE RcqContent(c, r)'
    <3>1. rcq \in [Clients -> [Receivers -> Seq(ResponseMsgs)]]
      BY <1>1 DEF AllTypes, ClientTypes
    <3>2. CASE rcq'[c][r] = rcq[c][r]
      BY <1>2, <3>2, RcqContentStays DEF ContentInv
    <3>3. CASE c = n /\ r = s /\ rcq'[c][r] = Append(rcq[c][r], new)
      <4>1. RcqContent(c, r) /\ rcq[c][r] \in Seq(ResponseMsgs)
        BY <3>1 DEF ContentInv
      <4>2. \A k \in DOMAIN rcq'[c][r] :
               \/ k \in DOMAIN rcq[c][r] /\ rcq'[c][r][k] = rcq[c][r][k]
               \/ rcq'[c][r][k] = new
        BY <3>3, <4>1
      <4> QED
        BY <1>2, <2>3, <2>4, <3>3, <4>1, <4>2, ModeStays DEF RcqContent, Answers
    <3> QED
      BY <2>1, <2>2, <3>1, <3>2, <3>3
  <2>7. ASSUME NEW c \in Clients, NEW r \in Receivers PROVE BackContent(c, r)'
    BY <1>10, <2>1, <2>2
  <2> QED
    BY <1>8, <2>5, <2>6, <2>7 DEF ContentInv
<1> QED
  BY <1>9, <1>11, <1>12 DEF ResponseArrives

\* A step of a receiver that touches no response.
LEMMA ReceiverKeepsContent ==
  ASSUME IInv, ContentInv, mode' = mode, NEW s \in Receivers, ReceiverStep(s) PROVE ContentInv'
<1>1. CASE FillResponse(s)
  BY <1>1, FillKeepsContent
<1>2. CASE ReplyInit(s)
  BY <1>2, ReplyKeepsContent
<1>3. CASE Transfer(s)
  BY <1>3, TransferKeepsContent
<1>4. CASE PostInitReceives(s) \/ PollInit(s) \/ PrepareReqBuffer(s) \/ ReplyAcknowledged(s)
           \/ Poll(s) \/ FinalizeSlot(s) \/ Repost(s) \/ CountFinished(s)
  <2>1. UNCHANGED <<expId, area, rcq, back, respBuffer, filledFrom>>
    BY <1>4 DEF PostInitReceives, PollInit, PrepareReqBuffer, ReplyAcknowledged, Poll, FinalizeSlot,
                Repost, CountFinished, clientVars, fabricVars
  <2>2. \E to : rpc' = [rpc EXCEPT ![s] = to]
                /\ (to \in {"finalize", "transfer"} => rpc[s] \in {"finalize", "transfer"})
    <3>1. CASE PostInitReceives(s) \/ PollInit(s)
      BY ZenonT(60), <3>1 DEF PostInitReceives, PollInit, ReceiverGoto
    <3>5. CASE PrepareReqBuffer(s) \/ ReplyAcknowledged(s)
      BY ZenonT(60), <3>5 DEF PrepareReqBuffer, ReplyAcknowledged, ReceiverGoto
    <3>2. CASE Poll(s) \/ CountFinished(s)
      BY <3>2 DEF Poll, CountFinished, ReceiverGoto
    <3>3. CASE FinalizeSlot(s)
      BY <3>3 DEF FinalizeSlot, ReceiverGoto
    <3>4. CASE Repost(s)
      <4>1. ReceiverPoll # "BUF" /\ mode \in Modes
        BY <3>4, ModeIsKnown DEF Repost, ReceiverGoto, IInv, AllTypes, ReceiverInv, StepInv
      <4>2. stepAfter("repost") = "poll"
        BY <4>1, StepsAre
      <4> QED
        BY <3>4, <4>2 DEF Repost, ReceiverGoto
    <3> QED
      BY <1>4, <3>1, <3>2, <3>3, <3>4, <3>5
  <2>3. PICK to : rpc' = [rpc EXCEPT ![s] = to]
                  /\ (to \in {"finalize", "transfer"} => rpc[s] \in {"finalize", "transfer"})
    BY <2>2
  <2>4. ASSUME NEW r \in Receivers
        PROVE  rpc'[r] \in {"finalize", "transfer"} => rpc[r] \in {"finalize", "transfer"}
    BY <2>3 DEF IInv, AllTypes, ReceiverTypes
  <2> QED
    BY <2>1, <2>4, ContentStays
<1> QED
  BY <1>1, <1>2, <1>3, <1>4 DEF ReceiverStep

\* Every step keeps what is in the responses.
LEMMA NextKeepsContent ==
  ASSUME IInv, ContentInv, [Next]_vars PROVE ContentInv'
<1>1. CASE UNCHANGED vars
  BY <1>1, ContentStays DEF vars, progress, clientVars, receiverVars, fabricVars
<1>2. CASE Next
  <2>1. mode' = mode
    BY <1>2 DEF Next
  <2>2. ASSUME NEW p \in Processes, PassBarrier(p) PROVE ContentInv'
    BY <2>1, <2>2, ContentStays DEF PassBarrier, receiverVars, fabricVars
  <2>3. ASSUME NEW c \in Clients, ClientStep(c) PROVE ContentInv'
    BY <2>1, <2>3, ClientKeepsContent
  <2>4. ASSUME NEW r \in Receivers, ReceiverStep(r) PROVE ContentInv'
    BY <2>1, <2>4, ReceiverKeepsContent
  <2>5. ASSUME NEW c \in Clients, NEW r \in Receivers, RequestArrives(c, r) PROVE ContentInv'
    <3>1. UNCHANGED <<expId, area, rcq, back, respBuffer, filledFrom, rpc>>
      BY <2>5 DEF RequestArrives, PlaceRequestBody, PlaceRequestType, DeliverRequestSend, clientVars
    <3> QED
      BY <2>1, <3>1, ContentStays
  <2>6. ASSUME NEW r \in Receivers, NEW n \in Nodes, ResponseArrives(r, n) PROVE ContentInv'
    BY <2>1, <2>6, ArrivalKeepsContent
  <2> QED
    BY <1>2, <2>2, <2>3, <2>4, <2>5, <2>6 DEF Next
<1> QED
  BY <1>1, <1>2

\* At the start there is no response.
LEMMA InitHasNoContent == Init => ContentInv
<1> SUFFICES ASSUME Init PROVE ContentInv
  OBVIOUS
<1>1. DOMAIN <<>> = {}
  OBVIOUS
<1>2. ASSUME NEW r \in Receivers PROVE FilledInv(r)
  BY DEF Init, FilledInv
<1>3. ASSUME NEW c \in Clients PROVE AreaContent(c)
  BY DEF Init, AreaContent
<1>4. ASSUME NEW c \in Clients, NEW r \in Receivers PROVE BackContent(c, r) /\ RcqContent(c, r)
  BY <1>1 DEF Init, BackContent, RcqContent
<1> QED
  BY <1>2, <1>3, <1>4 DEF ContentInv

\* What is in the responses is what their clients have asked for: FillResponse() fills in the
\* entry of the buffer that all clients share, and the card may read it later.
THEOREM ContentHolds == SlotsSuffice /\ Spec => []ContentInv
<1> SUFFICES ASSUME SlotsSuffice PROVE Spec => []ContentInv
  OBVIOUS
<1>1. Spec => []IInv
  BY InvariantHolds
<1>2. IInv /\ ContentInv /\ [Next]_vars => ContentInv'
  BY NextKeepsContent
<1> QED
  BY <1>1, <1>2, InitHasNoContent, PTL DEF Spec

-----------------------------------------------------------------------------
(***************************************************************************)
(* What it says.                                                           *)
(***************************************************************************)

\* A client writes only into its own slot, which the receiver has emptied: slots of
\* different clients differ, and nothing else is on the wire.
LEMMA InvFreesSlots == IInv => RequestResponseInv
<1> SUFFICES ASSUME IInv PROVE RequestResponseInv
  OBVIOUS
<1>1. TypeOK
  BY TypesAre DEF IInv
<1>2. ASSUME NEW c \in Clients, NEW r \in Receivers, wire[c][r] # <<>>,
             Head(wire[c][r]).verb = "WRITE"
      PROVE  /\ Len(wire[c][r]) = 1
             /\ slot[r][Head(wire[c][r]).at].type = "EMPTY"
             /\ ~\E d \in Clients \ {c} : wire[d][r] # <<>>
                    /\ Head(wire[d][r]).verb = "WRITE"
                    /\ Head(wire[d][r]).at = Head(wire[c][r]).at
  <2>1. Len(wire[c][r]) = 1
    BY <1>2, WireHead
  <2>2. Head(wire[c][r]).at = NodeId[c] /\ slot[r][NodeId[c]].type = "EMPTY"
    BY <1>2, WrittenIs
  <2>3. ASSUME NEW d \in Clients \ {c}, wire[d][r] # <<>>, Head(wire[d][r]).verb = "WRITE"
        PROVE  Head(wire[d][r]).at # Head(wire[c][r]).at
    <3>1. Head(wire[d][r]).at = NodeId[d]
      BY <2>3, WrittenIs
    <3> QED
      BY <2>2, <3>1, NodesAssumption
  <2> QED
    BY <2>1, <2>2, <2>3
<1> QED
  BY <1>1, <1>2 DEF RequestResponseInv, SlotFreeForWrite

\* Only an Init message can be lost: a client that is past the init phase has the reply of
\* every receiver, and these reply when all clients are connected.
LEMMA InvLosesInit == IInv => OnlyInitIsLost
<1> SUFFICES ASSUME IInv, NEW e \in rnr
             PROVE  /\ EarlyInit
                    /\ \A c \in Clients :
                          cpc[c] \in {"connectBarrier", "sendInit", "initReply", "initBarrier"}
  BY DEF OnlyInitIsLost
<1>1. PICK c \in Clients, r \in Receivers : e = <<c, r>>
  BY DEF IInv, AllTypes, FabricTypes
<1>2. /\ EarlyInit /\ c \notin ToSet(connected[r])
      /\ cpc[c] = "initReply" /\ ri[c] \in 1 .. Len(Running) /\ Running[ri[c]] = r
  BY <1>1 DEF IInv, RequestInv, GreetInv, Pending, ClientInv
<1>3. ~Past(r)
  <2>1. rpc[r] \in {"start", "initPoll"}
    BY <1>2 DEF IInv, ReceiverInv, PhaseInv
  <2> QED
    BY <2>1 DEF Past
<1>4. ASSUME NEW d \in Clients
      PROVE  cpc[d] \in {"connectBarrier", "sendInit", "initReply", "initBarrier"}
  <2>1. SUFFICES ASSUME cpc[d] \notin {"connectBarrier", "sendInit", "initReply", "initBarrier"}
                 PROVE  FALSE
    OBVIOUS
  <2>2. Greeted(d, r)
    BY <1>2, <2>1 DEF Greeted, InitDone
  <2> QED
    BY <1>3, <2>2, EarlyPhase
<1> QED
  BY <1>2, <1>4

\* A completion is of the buffer of the phase.
LEMMA InvMatchesPhase == IInv => CompletionsMatchPhase
<1> SUFFICES ASSUME IInv, NEW r \in Receivers, NEW k \in DOMAIN cq[r]
             PROVE  cq[r][k].buf = IF rpc[r] \in {"start", "initPoll"} THEN "init" ELSE "req"
  BY DEF CompletionsMatchPhase
<1>1. cq[r][k].node \in Clients /\ CqInv(cq[r][k].node, r)
  BY CqIs
<1>2. \/ rpc[r] = "initPoll" /\ cq[r][k].buf = "init"
      \/ Past(r) /\ cq[r][k].buf = "req"
  BY <1>1 DEF CqInv
<1> QED
  BY <1>2 DEF Past

\* Each place where a response can be holds the one that its client waits for, with what
\* it has asked for.
LEMMA InvMatchesResponses == IInv /\ ContentInv => ResponseMatchesRequest
<1> SUFFICES ASSUME IInv, ContentInv PROVE ResponseMatchesRequest
  OBVIOUS
<1> DEFINE matches(c, b) == cpc[c] = "await" /\ b.ptr = c /\ b.msgId = issued[c]
<1>0. AllTypes
  BY DEF IInv
<1>1. ASSUME NEW c \in Clients, NEW b, b = Request(c), cpc[c] = "await" PROVE matches(c, b)
  BY <1>1 DEF Request
<1>2. ASSUME NEW r \in Receivers, NEW n \in Nodes, NEW k \in DOMAIN back[r][n],
             back[r][n][k].type = "ExpMsg"
      PROVE  LET m == back[r][n][k] IN
             /\ matches(m.ptr, m.body) /\ area[m.ptr].flag = 0
             /\ m.stage = "whole" => Answers(m.ptr, contentOf(r, m))
             /\ m.stage = "body" => Answers(m.ptr, area[m.ptr].content)
  <2>1. back[r][n] \in Seq(ResponseMsgs)
    BY <1>0 DEF AllTypes, FabricTypes
  <2>2. back[r][n][k] \in ResponseMsgs
    BY <2>1, SeqIs
  <2>3. PICK c \in Clients : c = back[r][n][k].ptr
    BY <2>2 DEF ResponseMsgs
  <2>4. BackInv(c, r)
    BY DEF IInv, ResponseInv
  <2>5. back[r][n][k].body = Request(c) /\ Served(c, r) /\ area[c].flag = 0
    BY <1>2, <2>3, <2>4 DEF BackInv
  <2>6. Brings(c, r, back[r][n][k])
    BY <1>2, <2>3 DEF ContentInv, BackContent
  <2> QED
    BY <1>1, <2>3, <2>5, <2>6 DEF Served, Brings
<1>3. ASSUME NEW c \in Clients, area[c].flag = 1
      PROVE  matches(c, area[c].body) /\ Answers(c, area[c].content)
  <2>1. AreaInv(c)
    BY DEF IInv
  <2> QED
    BY <1>1, <1>3, <2>1 DEF AreaInv, ContentInv, AreaContent
<1>4. ASSUME NEW c \in Clients, NEW r \in Receivers, NEW k \in DOMAIN rcq[c][r],
             rcq[c][r][k].type = "ExpMsg"
      PROVE  /\ matches(c, rcq[c][r][k].body) /\ Answers(c, rcq[c][r][k].copy)
             /\ picked[c] = r /\ Len(rcq[c][r]) = 1
  <2>1. RcqInv(c, r) /\ rcq[c][r] \in Seq(ResponseMsgs)
    BY <1>0 DEF IInv, ResponseInv, AllTypes, ClientTypes
  <2>2. rcq[c][r][k].body = Request(c) /\ Served(c, r) /\ Len(rcq[c][r]) <= 1
    BY <1>4, <2>1 DEF RcqInv
  <2>3. PICK l \in Nat : l = Len(rcq[c][r]) /\ DOMAIN rcq[c][r] = 1 .. l
    BY <2>1, SeqIs
  <2>4. l = 1
    <3>1. k \in 1 .. l /\ l <= 1
      BY <2>2, <2>3
    <3> QED
      BY <3>1
  <2>5. Answers(c, rcq[c][r][k].copy)
    BY <1>4 DEF ContentInv, RcqContent
  <2> QED
    BY <1>1, <2>2, <2>3, <2>4, <2>5 DEF Served
<1> HIDE DEF matches
<1> QED
  BY <1>2, <1>3, <1>4 DEF ResponseMatchesRequest, matches

\* What transfer() reads is the request that the response was filled in from, and the
\* entry that it names holds that response.
LEMMA InvReadsSameRequest == IInv /\ ContentInv => TransferReadsSameRequest
<1> SUFFICES ASSUME IInv, ContentInv, NEW r \in Receivers, rpc[r] = "transfer",
                    NEW req, req = slot[r][cur[r]].body
             PROVE  /\ req = filledFrom[r]
                    /\ respBuffer[r][req.id] = ResponseTo(req)
                    /\ req.ptr \in Clients
                    /\ req.id = expId[req.ptr] /\ req.msgId = issued[req.ptr]
                    /\ cpc[req.ptr] = "await" /\ picked[req.ptr] = r
  BY DEF TransferReadsSameRequest
<1>1. Working(r)
  BY DEF Working
<1>2. PICK d \in Clients : d = req.ptr
  BY <1>1 DEF IInv, ReceiverInv, StepInv
<1>3. req = Request(d) /\ filledFrom[r] = Request(d) /\ Asking(d, r)
  BY <1>1, <1>2, HeldIs
<1>4. respBuffer[r][req.id] = ResponseTo(req)
  BY <1>3 DEF ContentInv, FilledInv
<1> QED
  BY <1>3, <1>4 DEF Request, Asking

\* A receiver that has returned leaves nothing behind.
NothingLeftAtReturn ==
    \A r \in ToSet(Running) : rpc[r] = "done" =>
        /\ cq[r] = <<>>
        /\ \A c \in Clients : wire[c][r] = <<>> /\ cpc[c] \in {"finish", "finishAck", "done"}

\* It has counted all clients, and each message that waits for it is of one that it has not.
LEMMA InvLeavesNothing == IInv => NothingLeftAtReturn
<1> SUFFICES ASSUME IInv, NEW r \in Receivers, rpc[r] = "done"
             PROVE  /\ cq[r] = <<>>
                    /\ \A c \in Clients : /\ wire[c][r] = <<>>
                                          /\ cpc[c] \in {"finish", "finishAck", "done"}
  BY RunningIsKnown DEF NothingLeftAtReturn, IInv, AllTypes
<1>1. ASSUME NEW c \in Clients PROVE FinSent(c, r) /\ ~Waiting(c, r)
  BY <1>1, DoneIsComplete
<1>2. cq[r] = <<>>
  BY <1>1, CqIs DEF Waiting
<1>3. ASSUME NEW c \in Clients PROVE wire[c][r] = <<>> /\ cpc[c] \in {"finish", "finishAck", "done"}
  BY <1>1 DEF Waiting, FinSent, FinDone
<1> QED
  BY <1>2, <1>3

-----------------------------------------------------------------------------
\* Each step of the benchmark is one of RequestReply or leaves its counters alone.
LEMMA StepRefines ==
  ASSUME IInv, [Next]_vars
  PROVE  Abstract!Next \/ UNCHANGED <<issued, served, answered>>
<1>1. ASSUME NEW c \in Clients, PostRequest(c) PROVE Abstract!Issue(c)
  <2>1. cpc[c] = "post" /\ issued' = [issued EXCEPT ![c] = @ + 1] /\ UNCHANGED <<served, answered>>
    BY <1>1 DEF PostRequest, ClientGoto
  <2>2. issued[c] = answered[c] /\ answered[c] <= i[c] /\ i[c] < Requests
    BY <2>1 DEF IInv, ClientInv
  <2>3. answered[c] \in Nat /\ i[c] \in Nat /\ Requests \in Nat /\ Requests <= MaxRequests
        /\ MaxRequests \in Nat
    <3>1. AllTypes /\ mode \in Modes
      BY DEF IInv, AllTypes
    <3> QED
      BY <3>1, ClientIs, ModeIsKnown DEF AllTypes
  <2>4. issued[c] < MaxRequests
    BY <2>2, <2>3
  <2> QED
    BY <2>1, <2>2, <2>4 DEF Abstract!Issue
<1>2. ASSUME NEW c \in Clients, TakeResponse(c) PROVE Abstract!Answer(c)
  <2>1. cpc[c] = "await" /\ answered' = [answered EXCEPT ![c] = @ + 1] /\ UNCHANGED <<issued, served>>
    BY <1>2 DEF TakeResponse, ClientGoto
  <2>2. served[c] = answered[c] + 1
    <3>1. served[c] = issued[c]
      BY <1>2, TakenIsServed
    <3> QED
      BY <2>1, <3>1 DEF IInv, ClientInv
  <2>3. answered[c] \in Nat
    BY ClientIs, ModeIsKnown DEF IInv, AllTypes
  <2> QED
    BY <2>1, <2>2, <2>3 DEF Abstract!Answer
<1>3. ASSUME NEW s \in Receivers, Transfer(s) PROVE \E c \in Clients : Abstract!Serve(c)
  <2>1. Working(s)
    BY <1>3 DEF Transfer, ReceiverGoto, Working
  <2>2. PICK d \in Clients : d = slot[s][cur[s]].body.ptr
    BY <2>1 DEF IInv, ReceiverInv, StepInv
  <2>3. served' = [served EXCEPT ![d] = @ + 1] /\ UNCHANGED <<issued, answered>>
    BY <1>3, <2>2 DEF Transfer
  <2>4. cpc[d] = "await" /\ served[d] # issued[d]
    BY <2>1, <2>2, HeldIs DEF Asking
  <2>5. issued[d] = answered[d] + 1 /\ served[d] = answered[d]
    BY <2>4 DEF IInv, ClientInv
  <2>6. answered[d] \in Nat
    BY ClientIs, ModeIsKnown DEF IInv, AllTypes
  <2>7. served[d] < issued[d]
    BY <2>5, <2>6
  <2>8. Abstract!Serve(d)
    BY <2>3, <2>7 DEF Abstract!Serve
  <2> QED
    BY <2>8
<1>4. ASSUME NEW p \in Processes, PassBarrier(p) PROVE UNCHANGED historyVars
  BY <1>4 DEF PassBarrier
<1>5. ASSUME NEW c \in Clients, ClientStep(c), ~PostRequest(c), ~TakeResponse(c)
      PROVE  UNCHANGED historyVars
  BY <1>5 DEF ClientStep, SendInit, InitReply, SkipIteration, PrepareRequest, EndLoop,
     SendFinished, FinishedAcknowledged
<1>6. ASSUME NEW s \in Receivers, ReceiverStep(s), ~Transfer(s) PROVE UNCHANGED historyVars
  BY <1>6 DEF ReceiverStep, PostInitReceives, PollInit, PrepareReqBuffer, ReplyInit,
     ReplyAcknowledged, Poll, FillResponse, FinalizeSlot, Repost, CountFinished
<1>7. ASSUME NEW c \in Clients, NEW s \in Receivers, RequestArrives(c, s)
      PROVE  UNCHANGED historyVars
  BY <1>7 DEF RequestArrives, PlaceRequestBody, PlaceRequestType, DeliverRequestSend
<1>8. ASSUME NEW s \in Receivers, NEW n \in Nodes, ResponseArrives(s, n)
      PROVE  UNCHANGED historyVars
  BY <1>8 DEF ResponseArrives, PlaceResponseBody, PlaceTransferFlag, DeliverResponseSend
<1>9. CASE UNCHANGED vars
  BY <1>9 DEF vars, progress, historyVars
<1>10. CASE Next
  <2>1. CASE UNCHANGED historyVars
    BY <2>1 DEF historyVars
  <2>2. CASE ~UNCHANGED historyVars
    <3>1. \/ \E c \in Clients : PostRequest(c) \/ TakeResponse(c)
          \/ \E s \in Receivers : Transfer(s)
      BY <1>4, <1>5, <1>6, <1>7, <1>8, <1>10, <2>2 DEF Next
    <3> QED
      BY <1>1, <1>2, <1>3, <3>1 DEF Abstract!Next
  <2> QED
    BY <2>1, <2>2
<1> QED
  BY <1>9, <1>10

-----------------------------------------------------------------------------
(***************************************************************************)
(* Sums over the threads.                                                  *)
(***************************************************************************)
\* What the values of h add up to on S, as ReceiverReturnsComplete adds up the counts of the
\* threads: the recursion over the subsets of S that MapThenSumSet stands for.
SumOver(h, S) == MapThenSumSet(LAMBDA x : h[x], S)
First(s) == CHOOSE x \in s : TRUE
Part(h, f, s) == IF s = {} THEN 0 ELSE h[First(s)] + f[s \ {First(s)}]
PartialSums(h, S) == CHOOSE f : f = [s \in SUBSET S |-> Part(h, f, s)]

\* The sum is the last of the partial sums.
LEMMA SumIs == ASSUME NEW h, NEW S PROVE SumOver(h, S) = PartialSums(h, S)[S]
BY DEF SumOver, PartialSums, Part, First, MapThenSumSet, MapThenFoldSet

\* The element of a set that is added first, and the rest of the set.
LEMMA FirstIs ==
  ASSUME NEW S, IsFiniteSet(S), NEW s \in SUBSET S, s # {}
  PROVE  /\ First(s) \in s /\ s \ {First(s)} \in SUBSET S /\ IsFiniteSet(s)
         /\ Cardinality(s) \in Nat /\ Cardinality(s) > 0
         /\ Cardinality(s \ {First(s)}) = Cardinality(s) - 1
<1>1. First(s) \in s
  BY DEF First
<1>2. IsFiniteSet(s)
  BY FS_Subset
<1>3. Cardinality(s) \in Nat /\ (Cardinality(s) = 0 <=> s = {})
  BY <1>2, FS_CardinalityType, FS_EmptySet
<1>4. Cardinality(s \ {First(s)}) = Cardinality(s) - 1
  BY <1>1, <1>2, FS_RemoveElement
<1> QED
  BY <1>1, <1>2, <1>3, <1>4

\* The partial sums exist on the subsets of at most n elements, by induction over n.
LEMMA PartialSumsExist ==
  ASSUME NEW h, NEW S, IsFiniteSet(S), NEW n \in Nat
  PROVE  \E f : \A s \in SUBSET S : Cardinality(s) <= n => f[s] = Part(h, f, s)
<1> DEFINE Good(f, m) == \A s \in SUBSET S : Cardinality(s) <= m => f[s] = Part(h, f, s)
           Has == {m \in Nat : \E f : Good(f, m)}
           T == Nat \ Has
           R == OpToRel(<, Nat)
<1>1. T = {}
  <2>1. SUFFICES ASSUME T # {} PROVE FALSE
    OBVIOUS
  <2>2. PICK m \in T : \A y \in T : <<y, m>> \notin R
    <3>1. IsWellFoundedOn(R, Nat)
      BY NatLessThanWellFounded
    <3>2. T \subseteq Nat
      OBVIOUS
    <3> HIDE DEF T, R
    <3> QED
      BY <2>1, <3>1, <3>2, WFMin
  <2>3. m \in Nat /\ m \notin Has
    <3> HIDE DEF Has, R
    <3> QED
      BY <2>2
  <2>4. PICK g : \A s \in SUBSET S : Cardinality(s) < m => g[s] = Part(h, g, s)
    <3>1. CASE m = 0
      <4>1. \A s \in SUBSET S : ~(Cardinality(s) < 0)
        BY FS_Subset, FS_CardinalityType
      <4> QED
        BY <3>1, <4>1
    <3>2. CASE m # 0
      <4>1. m - 1 \in Nat /\ <<m - 1, m>> \in R
        BY <2>3, <3>2 DEF OpToRel
      <4>2. m - 1 \in Has
        <5> HIDE DEF Has, R
        <5> QED
          BY <2>2, <4>1
      <4>3. PICK g : Good(g, m - 1)
        BY <4>2
      <4>4. ASSUME NEW s \in SUBSET S, Cardinality(s) < m PROVE g[s] = Part(h, g, s)
        <5>1. Cardinality(s) \in Nat
          BY FS_Subset, FS_CardinalityType
        <5>2. Cardinality(s) <= m - 1
          BY <2>3, <4>4, <5>1
        <5> QED
          BY <4>3, <5>2
      <4> QED
        BY <4>4
    <3> QED
      BY <3>1, <3>2
  <2> DEFINE f == [s \in SUBSET S |-> Part(h, g, s)]
  <2>5. ASSUME NEW s \in SUBSET S, Cardinality(s) < m PROVE f[s] = g[s]
    BY <2>4, <2>5
  <2>6. ASSUME NEW s \in SUBSET S, Cardinality(s) <= m PROVE f[s] = Part(h, f, s)
    <3>1. f[s] = Part(h, g, s)
      OBVIOUS
    <3>2. CASE s = {}
      BY <3>1, <3>2 DEF Part
    <3>3. CASE s # {}
      <4> DEFINE rest == s \ {First(s)}
      <4>1. rest \in SUBSET S /\ Cardinality(s) \in Nat /\ Cardinality(rest) = Cardinality(s) - 1
        BY <3>3, FirstIs
      <4>2. Cardinality(rest) < m
        BY <2>3, <2>6, <4>1
      <4>3. f[rest] = g[rest]
        BY <2>5, <4>1, <4>2
      <4> HIDE DEF f
      <4> QED
        BY <3>1, <3>3, <4>3 DEF Part
    <3> QED
      BY <3>2, <3>3
  <2>7. Good(f, m)
    BY <2>6
  <2>8. \E k : Good(k, m)
    <3> HIDE DEF f, Good
    <3> QED
      BY <2>7
  <2>9. m \in Has
    <3> HIDE DEF Good
    <3> QED
      BY <2>3, <2>8
  <2> QED
    BY <2>3, <2>9
<1>2. n \in Has
  <2> HIDE DEF Has, R
  <2> QED
    BY <1>1
<1> QED
  BY <1>2

\* Each partial sum is the first value and the sum of the rest.
LEMMA PartialSumsUnfold ==
  ASSUME NEW h, NEW S, IsFiniteSet(S), NEW s \in SUBSET S
  PROVE  PartialSums(h, S)[s] = Part(h, PartialSums(h, S), s)
<1> DEFINE Unfolded(f) == [t \in SUBSET S |-> Part(h, f, t)]
<1>1. PICK g : \A t \in SUBSET S : Cardinality(t) <= Cardinality(S) => g[t] = Part(h, g, t)
  <2>1. Cardinality(S) \in Nat
    BY FS_CardinalityType
  <2> QED
    BY ZenonT(60), <2>1, PartialSumsExist
<1>2. \A t \in SUBSET S : g[t] = Part(h, g, t)
  BY <1>1, FS_Subset
<1> DEFINE f == [t \in SUBSET S |-> g[t]]
<1>3. ASSUME NEW t \in SUBSET S PROVE f[t] = Part(h, f, t)
  <2>1. t # {} => t \ {First(t)} \in SUBSET S
    OBVIOUS
  <2>2. t # {} => f[t \ {First(t)}] = g[t \ {First(t)}]
    BY <2>1
  <2>3. f[t] = g[t]
    OBVIOUS
  <2> HIDE DEF f
  <2> QED
    BY <1>2, <2>2, <2>3 DEF Part
<1>4. f = Unfolded(f)
  <2>1. \A t \in SUBSET S : f[t] = Part(h, f, t)
    BY <1>3
  <2>2. f = [t \in SUBSET S |-> f[t]]
    OBVIOUS
  <2> HIDE DEF f
  <2> QED
    BY <2>1, <2>2
<1>5. PartialSums(h, S) = CHOOSE k : k = Unfolded(k)
  BY DEF PartialSums
<1>6. PartialSums(h, S) = Unfolded(PartialSums(h, S))
  <2> HIDE DEF Unfolded, f
  <2> QED
    BY <1>4, <1>5
<1> QED
  BY <1>6

\* Of some subsets of a finite set one contains no other.
LEMMA LeastSubset ==
  ASSUME NEW S, IsFiniteSet(S), NEW T \in SUBSET SUBSET S, T # {}
  PROVE  \E s \in T : \A t \in T : ~(t \subseteq s /\ t # s)
<1> DEFINE R == StrictSubsetOrdering(S)
<1>1. T \subseteq FiniteSubsetsOf(S)
  BY FS_Subset DEF FiniteSubsetsOf
<1>2. IsWellFoundedOn(R, FiniteSubsetsOf(S))
  BY FS_StrictSubsetOrderingWellFounded
<1>3. PICK s \in T : \A t \in T : <<t, s>> \notin R
  <2> HIDE DEF R
  <2> QED
    BY <1>1, <1>2, WFMin
<1>4. \A t \in T : ~(t \subseteq s /\ t # s)
  BY <1>3 DEF StrictSubsetOrdering
<1> QED
  BY <1>4

\* Where all values are zero the sum is zero.
LEMMA SumOfZeros ==
  ASSUME NEW S, IsFiniteSet(S), NEW h, \A x \in S : h[x] = 0
  PROVE  SumOver(h, S) = 0
<1> DEFINE A == PartialSums(h, S)
           T == {s \in SUBSET S : A[s] # 0}
<1>1. T = {}
  <2>1. SUFFICES ASSUME T # {} PROVE FALSE
    OBVIOUS
  <2>2. PICK s \in T : \A t \in T : ~(t \subseteq s /\ t # s)
    <3>1. T \in SUBSET SUBSET S
      OBVIOUS
    <3> HIDE DEF T
    <3> QED
      BY <2>1, <3>1, LeastSubset
  <2>3. s \in SUBSET S /\ A[s] # 0
    OBVIOUS
  <2>4. A[s] = Part(h, A, s)
    BY <2>3, PartialSumsUnfold
  <2> HIDE DEF A
  <2>5. s # {}
    BY <2>3, <2>4 DEF Part
  <2>6. First(s) \in s /\ s \ {First(s)} \in SUBSET S
    BY <2>3, <2>5, FirstIs
  <2>7. A[s \ {First(s)}] = 0
    BY <2>2, <2>6
  <2>8. A[s] = h[First(s)] + A[s \ {First(s)}] /\ h[First(s)] = 0
    BY <2>3, <2>4, <2>5, <2>6 DEF Part
  <2> QED
    BY <2>3, <2>7, <2>8
<1>2. A[S] = 0
  <2> HIDE DEF A
  <2> QED
    BY <1>1
<1> QED
  BY <1>2, SumIs

\* One more at one element is one more in the sum.
LEMMA SumGrows ==
  ASSUME NEW S, IsFiniteSet(S), NEW h \in [S -> Nat], NEW x \in S
  PROVE  /\ SumOver(h, S) \in Nat
         /\ SumOver([h EXCEPT ![x] = @ + 1], S) = SumOver(h, S) + 1
<1> DEFINE g == [h EXCEPT ![x] = @ + 1]
           A == PartialSums(h, S)
           B == PartialSums(g, S)
           More(s) == IF x \in s THEN 1 ELSE 0
           Grown(s) == A[s] \in Nat /\ B[s] = A[s] + More(s)
           T == {s \in SUBSET S : ~Grown(s)}
<1>1. T = {}
  <2>1. SUFFICES ASSUME T # {} PROVE FALSE
    OBVIOUS
  <2>2. PICK s \in T : \A t \in T : ~(t \subseteq s /\ t # s)
    <3>1. T \in SUBSET SUBSET S
      OBVIOUS
    <3> HIDE DEF T
    <3> QED
      BY <2>1, <3>1, LeastSubset
  <2>3. s \in SUBSET S /\ ~Grown(s)
    OBVIOUS
  <2>4. A[s] = Part(h, A, s)
    BY <2>3, PartialSumsUnfold
  <2>5. B[s] = Part(g, B, s)
    <3> HIDE DEF g
    <3> QED
      BY <2>3, PartialSumsUnfold
  <2> HIDE DEF A, B
  <2>6. s # {}
    BY <2>3, <2>4, <2>5 DEF Part
  <2> DEFINE y == First(s)
             rest == s \ {y}
  <2>7. y \in s /\ y \in S /\ rest \in SUBSET S /\ rest \subseteq s /\ rest # s
    BY <2>3, <2>6, FirstIs
  <2>8. A[rest] \in Nat /\ B[rest] = A[rest] + More(rest)
    <3>1. rest \notin T
      <4> HIDE DEF T, rest
      <4> QED
        BY <2>2, <2>7
    <3> HIDE DEF rest
    <3> QED
      BY <2>7, <3>1
  <2>9. A[s] = h[y] + A[rest] /\ B[s] = g[y] + B[rest]
    BY <2>4, <2>5, <2>6 DEF Part
  <2>10. h[y] \in Nat /\ g[y] = (IF y = x THEN h[y] + 1 ELSE h[y])
    BY <2>7
  <2>11. More(s) = (IF y = x THEN 1 ELSE More(rest)) /\ (y = x => More(rest) = 0) /\ More(rest) \in Nat
    BY <2>7
  <2> HIDE DEF g, y, rest, More
  <2>12. A[s] \in Nat /\ B[s] = A[s] + More(s)
    BY <2>8, <2>9, <2>10, <2>11
  <2> QED
    BY <2>3, <2>12
<1>2. A[S] \in Nat /\ B[S] = A[S] + More(S)
  <2> HIDE DEF A, B, More
  <2> QED
    BY <1>1
<1>3. More(S) = 1
  OBVIOUS
<1>4. SumOver(h, S) = A[S] /\ SumOver(g, S) = B[S]
  <2> HIDE DEF g
  <2> QED
    BY SumIs
<1> QED
  BY <1>2, <1>3, <1>4

-----------------------------------------------------------------------------
\* The requests that the receivers have counted are those that have been served.
CountsAgree == SumOver(handledRequests, Receivers) = SumOver(served, Clients)

\* At first there are none.
LEMMA InitAgrees == Init => CountsAgree
<1> SUFFICES ASSUME Init PROVE CountsAgree
  OBVIOUS
<1>1. IsFiniteSet(Receivers) /\ IsFiniteSet(Clients)
  BY NodesAssumption
<1>2. (\A r \in Receivers : handledRequests[r] = 0) /\ (\A c \in Clients : served[c] = 0)
  BY DEF Init
<1>3. SumOver(handledRequests, Receivers) = 0
  BY <1>1, <1>2, SumOfZeros
<1>4. SumOver(served, Clients) = 0
  BY <1>1, <1>2, SumOfZeros
<1> QED
  BY <1>3, <1>4 DEF CountsAgree

\* transfer() counts one request of one client, and nobody else counts.
LEMMA StepAgrees ==
  ASSUME IInv, CountsAgree, [Next]_vars
  PROVE  CountsAgree'
<1>1. ASSUME UNCHANGED <<handledRequests, served>> PROVE CountsAgree'
  BY <1>1 DEF CountsAgree
<1>2. ASSUME NEW s \in Receivers, Transfer(s) PROVE CountsAgree'
  <2>1. Working(s)
    BY <1>2 DEF Transfer, ReceiverGoto, Working
  <2>2. PICK d \in Clients : d = slot[s][cur[s]].body.ptr
    BY <2>1 DEF IInv, ReceiverInv, StepInv
  <2>3. /\ handledRequests' = [handledRequests EXCEPT ![s] = @ + 1]
        /\ served' = [served EXCEPT ![d] = @ + 1]
    BY <1>2, <2>2 DEF Transfer
  <2>4. handledRequests \in [Receivers -> Nat] /\ served \in [Clients -> Nat]
    BY DEF IInv, AllTypes, ReceiverTypes, HistoryTypes
  <2>5. SumOver([handledRequests EXCEPT ![s] = @ + 1], Receivers) = SumOver(handledRequests, Receivers) + 1
    BY <2>4, NodesAssumption, SumGrows
  <2>6. SumOver([served EXCEPT ![d] = @ + 1], Clients) = SumOver(served, Clients) + 1
    BY <2>4, NodesAssumption, SumGrows
  <2> QED
    BY <2>3, <2>5, <2>6 DEF CountsAgree
<1>3. ASSUME NEW p \in Processes, PassBarrier(p) PROVE UNCHANGED <<handledRequests, served>>
  BY <1>3 DEF PassBarrier, receiverVars, historyVars
<1>4. ASSUME NEW c \in Clients, ClientStep(c) PROVE UNCHANGED <<handledRequests, served>>
  BY <1>4 DEF ClientStep, SendInit, InitReply, SkipIteration, PrepareRequest, PostRequest,
     TakeResponse, EndLoop, SendFinished, FinishedAcknowledged, receiverVars, historyVars
<1>5. ASSUME NEW s \in Receivers, ReceiverStep(s), ~Transfer(s)
      PROVE  UNCHANGED <<handledRequests, served>>
  BY <1>5 DEF ReceiverStep, PostInitReceives, PollInit, PrepareReqBuffer, ReplyInit,
     ReplyAcknowledged, Poll, FillResponse, FinalizeSlot, Repost, CountFinished, historyVars
<1>6. ASSUME NEW c \in Clients, NEW s \in Receivers, RequestArrives(c, s)
      PROVE  UNCHANGED <<handledRequests, served>>
  BY <1>6 DEF RequestArrives, PlaceRequestBody, PlaceRequestType, DeliverRequestSend, historyVars
<1>7. ASSUME NEW s \in Receivers, NEW n \in Nodes, ResponseArrives(s, n)
      PROVE  UNCHANGED <<handledRequests, served>>
  BY <1>7 DEF ResponseArrives, PlaceResponseBody, PlaceTransferFlag, DeliverResponseSend,
     receiverVars, historyVars
<1>8. CASE UNCHANGED vars
  BY <1>1, <1>8 DEF vars, progress, receiverVars, historyVars
<1>9. CASE Next
  <2>1. UNCHANGED <<handledRequests, served>> \/ \E s \in Receivers : Transfer(s)
    BY <1>3, <1>4, <1>5, <1>6, <1>7, <1>9 DEF Next
  <2> QED
    BY <1>1, <1>2, <2>1
<1> QED
  BY <1>8, <1>9

\* When every receiver has returned no client waits for an answer, and what was issued has
\* been served.
LEMMA InvReturnsComplete == IInv /\ CountsAgree => ReceiverReturnsComplete
<1> SUFFICES ASSUME IInv, CountsAgree PROVE ReceiverReturnsComplete
  OBVIOUS
<1>1. NothingLeftAtReturn
  BY InvLeavesNothing
<1>2. ASSUME \A r \in ToSet(Running) : rpc[r] = "done"
      PROVE  SumOver(handledRequests, Receivers) = SumOver(issued, Clients)
  <2>1. PICK r \in ToSet(Running) : TRUE
    <3>1. Len(Running) \in Nat \ {0} /\ ToSet(Running) = {Running[k] : k \in 1 .. Len(Running)}
      BY RunningIsKnown DEF IInv, AllTypes
    <3> QED
      BY <3>1
  <2>2. ASSUME NEW c \in Clients PROVE served[c] = issued[c]
    <3>1. cpc[c] # "await"
      BY <1>1, <1>2, <2>1 DEF NothingLeftAtReturn
    <3> QED
      BY <3>1 DEF IInv, ClientInv
  <2>3. served \in [Clients -> Nat] /\ issued \in [Clients -> 0 .. Requests]
    BY DEF IInv, AllTypes, HistoryTypes
  <2>4. served = issued
    BY <2>2, <2>3
  <2> QED
    BY <2>4 DEF CountsAgree
<1>3. ASSUME \A r \in ToSet(Running) : rpc[r] = "done"
      PROVE  MapThenSumSet(LAMBDA r : handledRequests[r], Receivers)
               = MapThenSumSet(LAMBDA c : issued[c], Clients)
  BY <1>2, <1>3 DEF SumOver
<1> QED
  BY <1>1, <1>3 DEF NothingLeftAtReturn, ReceiverReturnsComplete

-----------------------------------------------------------------------------
\* The state has its types, and a request or FinishedExp never overwrites one that the
\* receiver has not handled (the slot of a client in reqBuffer_).
THEOREM RequestResponseInvHolds == SlotsSuffice /\ Spec => []RequestResponseInv
BY InvariantHolds, InvFreesSlots, PTL

\* No SEND but that of an early Init message finds the shared receive queue empty, although
\* a receive is posted again only after the response (BenchmarkReceiver::finalize()).
THEOREM OnlyInitIsLostHolds == SlotsSuffice /\ Spec => []OnlyInitIsLost
BY InvariantHolds, InvLosesInit, PTL

\* The buffers behind the shared receive queue are never confused, although both use memory
\* indexes from 0 (initPhase() and pollReceiveSRQ()).
THEOREM CompletionsMatchPhaseHolds == SlotsSuffice /\ Spec => []CompletionsMatchPhase
BY InvariantHolds, InvMatchesPhase, PTL

\* Each response that arrives is that of the request its client waits for, with the id that
\* it has asked for, although all clients share the entries of respBuffer_ and the card may
\* read one only after it has been filled in for somebody else.
THEOREM ResponseMatchesRequestHolds == SlotsSuffice /\ Spec => []ResponseMatchesRequest
BY InvariantHolds, ContentHolds, InvMatchesResponses, PTL

\* transfer() finds in a slot that is already EMPTY the request it answers, and in the entry
\* that this request names the response to it.
THEOREM TransferReadsSameRequestHolds == SlotsSuffice /\ Spec => []TransferReadsSameRequest
BY InvariantHolds, ContentHolds, InvReadsSameRequest, PTL

\* A receiver returns only when all clients have finished and no message for it is left, and
\* then the receivers report as many requests as the clients have sent.
THEOREM ReceiverReturnsCompleteHolds == SlotsSuffice /\ Spec => []ReceiverReturnsComplete
<1> SUFFICES ASSUME SlotsSuffice PROVE Spec => []ReceiverReturnsComplete
  OBVIOUS
<1>1. Spec => []IInv
  BY InvariantHolds
<1>2. IInv /\ CountsAgree /\ [Next]_vars => CountsAgree'
  BY StepAgrees
<1> QED
  BY <1>1, <1>2, InitAgrees, InvReturnsComplete, PTL DEF Spec

\* The benchmark keeps the promise of RequestReply, in each of its modes.
THEOREM RequestReplyRefined == SlotsSuffice /\ Spec => RequestReplySpec
<1>1. Init => Abstract!Init
  BY DEF Init, Abstract!Init
<1>2. IInv /\ [Next]_vars => [Abstract!Next]_<<issued, served, answered>>
  BY StepRefines
<1> QED
  BY <1>1, <1>2, InvariantHolds, PTL DEF Spec, RequestReplySpec, Abstract!Spec
=============================================================================
