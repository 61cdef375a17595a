----------------------------- MODULE QueuePairs -----------------------------
(***************************************************************************)
(* The verbs objects of one ReliableRDMA ("rc") or UnreliableRDMA ("ud")   *)
(* object and of its base BaseRDMA: made by the constructors, when         *)
(* connections are set up and when multicast groups are joined, destroyed  *)
(* by the destructors, when a set-up is refused and when a group is left.  *)
(* One thread makes the calls, except that a server may set up connections *)
(* while its own client waits for an answer, which may be its own.         *)
(*                                                                         *)
(* An object is made of others: a queue pair of its protection domain and  *)
(* of its completion queues, for instance.  The library refuses (EBUSY) to *)
(* destroy what is in use, except that it unmaps memory and closes the     *)
(* device in any case.  Of the results of these calls the code takes some  *)
(* for errors, logs one and does not look at the others.                   *)
(***************************************************************************)
EXTENDS Integers, Sequences, SequencesExt, Functions

CONSTANTS
    Transports,   \* "rc", "ud", or both
    ConnIDs,      \* bound: the ids that are supplied (rdmaConnID)
    OwnID,        \* the id of this object, if it is a server, for other servers
    MaxCalls,     \* bound: calls before the destructor
    MaxFaults     \* bound: calls of the library that fail for want of resources

ASSUME QueuePairsAssumption ==
    /\ Transports \subseteq {"rc", "ud"}
    /\ ConnIDs \subseteq Nat /\ OwnID \in Nat
    /\ MaxCalls \in Nat /\ MaxFaults \in Nat

VARIABLES
    transport,        \* the class, chosen once
    phase,            \* of the life of the object
    calls,            \* calls made so far
    faults,           \* history: steps that failed, or whose objects were abandoned
    \* the library
    uses,             \* for each object there is, the objects it is made of
    made,             \* objects made so far, so that each has a number of its own
    todo,             \* the calls of the library that destroy, still to be made
    \* BaseRDMA and the transport
    m_res, m_qps, m_connected, m_srqs, m_udqp,
    m_lastMCastConnKey, m_udpMcastConns,
    rts,              \* the queue pairs of reliable connections that can send
    qp                \* the queue pair of a client that is still connecting

recorded == <<m_res, m_qps, m_connected, m_srqs, m_udqp, m_lastMCastConnKey, m_udpMcastConns, rts>>
queuePairsVars == <<transport, phase, calls, faults, uses, made, todo, recorded, qp>>

Types == {"ib_ctx", "buffer", "pd", "mr", "cq", "qp", "srq", "ah", "channel", "id", "addrinfo", "membership"}
Objects == [type : Types, no : Nat]
nullptr == [type |-> "null", no |-> 0]
Pointers == Objects \cup {nullptr}

Alive == DOMAIN uses
InUse(object) == \E other \in Alive : object \in uses[other]

Pairs == [qp : Pointers, send_cq : Pointers, recv_cq : Pointers]
NoQp == [qp |-> nullptr, send_cq |-> nullptr, recv_cq |-> nullptr]

Groups ==
    [active : BOOLEAN, channel : Pointers, id : Pointers, pd : Pointers, mr : Pointers,
     scq : Pointers, rcq : Pointers, qp : Pointers, membership : Pointers, ah : Pointers]
NoGroup ==
    [active |-> FALSE, channel |-> nullptr, id |-> nullptr, pd |-> nullptr, mr |-> nullptr,
     scq |-> nullptr, rcq |-> nullptr, qp |-> nullptr, membership |-> nullptr, ah |-> nullptr]

\* A call of the library that destroys: the object, and what is done when it is in
\* use: "throw", "log" (and go on), "ignore", or "force" when it is destroyed anyway.
Call(object, busy) == [object |-> object, busy |-> busy]
Calls == [object : Pointers, busy : {"throw", "log", "ignore", "force"}]

\* "base": BaseRDMA is constructed.  "terminated": a destructor has thrown.  "crashed":
\* a null pointer, or memory there is not, was used.  "dangling": an object that is
\* gone was used.
Phases == {"unmade", "base", "running", "destroying", "gone", "terminated", "crashed", "dangling"}
Faults == {"construction", "srq", "queues", "queue pair of an srq", "connect", "join", "leave", "exchange", "self"}

QueuePairsTypeOK ==
    /\ transport \in Transports
    /\ phase \in Phases
    /\ calls \in 0 .. MaxCalls
    /\ faults \in Seq(Faults)
    /\ Alive \subseteq Objects /\ \A object \in Alive : uses[object] \subseteq Objects
    /\ made \in Nat
    /\ todo \in Seq(Calls)
    /\ m_res \in [ib_ctx : Pointers, buffer : Pointers, pd : Pointers, mr : Pointers]
    /\ m_qps \in Seq(Pairs)
    /\ m_connected \subseteq 0 .. Len(m_qps) - 1
    /\ m_srqs \in Seq([shared_rq : Objects, recv_cq : Objects])
    /\ m_udqp \in Pairs
    /\ m_lastMCastConnKey \in Nat
    /\ m_udpMcastConns \in Seq(Groups)
    /\ rts \subseteq Objects
    /\ qp \in Pairs

-----------------------------------------------------------------------------
(***************************************************************************)
(* Making objects.  What a call makes is a sequence of steps; a step maps  *)
(* the objects it makes to those they are made of, and makes none where it *)
(* only changes or asks something.                                         *)
(***************************************************************************)
\* The k-th object from now on.
fresh(type, k) == [type |-> type, no |-> made + k]

One(object, of) == [o \in {object} |-> of]
Change == [o \in {} |-> {}]

\* The objects that the first n steps make, and all of them.
objectsOfFirst(steps, n) == UNION {DOMAIN steps[k] : k \in 1 .. n}
ObjectsOf(steps) == objectsOfFirst(steps, Len(steps))

\* What an object of these steps is made of.
partsOf(steps, object) == steps[CHOOSE k \in DOMAIN steps : object \in DOMAIN steps[k]][object]

\* These objects of the steps exist from now on.  No call makes more objects than it
\* has steps: that many numbers are used.
Exist(steps, objects) ==
    /\ uses' = [o \in Alive \cup objects |-> IF o \in objects THEN partsOf(steps, o) ELSE uses[o]]
    /\ made' = made + Len(steps)

Made(steps) == Exist(steps, ObjectsOf(steps)) /\ UNCHANGED faults

\* The call fails in its k-th step, of which only a part has been made.  An exception
\* leaves the call, and what it has made is left behind.
Fails(steps, k, what) ==
    /\ Len(faults) < MaxFaults /\ faults' = Append(faults, what)
    /\ \E part \in {{}} \cup ((SUBSET DOMAIN steps[k]) \ {DOMAIN steps[k]}) :
         Exist(steps, objectsOfFirst(steps, k - 1) \cup part)

\* The send queue must go; the receive queue may be that of others, too.
destroyCQ(q) == <<Call(q.send_cq, "throw"), Call(q.recv_cq, "log")>>

destroyQP(q) == <<Call(q.qp, "throw")>> \o destroyCQ(q)

-----------------------------------------------------------------------------
(***************************************************************************)
(* The constructors and the destructor                                     *)
(***************************************************************************)
createBuffer ==
    <<One(fresh("ib_ctx", 1), {}),
      One(fresh("buffer", 2), {}),
      One(fresh("pd", 3), {fresh("ib_ctx", 1)}),
      One(fresh("mr", 4), {fresh("pd", 3), fresh("buffer", 2)})>>

\* createCQ, createQP and modifyQPToInit for a queue pair without a shared queue.
createQueues ==
    <<One(fresh("cq", 1), {m_res.ib_ctx}), One(fresh("cq", 2), {m_res.ib_ctx}),
      One(fresh("qp", 3), {m_res.pd, fresh("cq", 1), fresh("cq", 2)}), Change>>
\* The same of UnreliableRDMA, which makes the queue pair ready to send at once.
createUdQueues == createQueues \o <<Change, Change>>

queuePair == [send_cq |-> fresh("cq", 1), recv_cq |-> fresh("cq", 2), qp |-> fresh("qp", 3)]

\* ~BaseRDMA: it does not look at what the library answers.
baseCalls(res) ==
    <<Call(res.mr, "ignore"), Call(res.buffer, "force"),
      Call(res.pd, "ignore"), Call(res.ib_ctx, "force")>>

QueuePairsInit ==
    /\ transport \in Transports
    /\ phase = "unmade"
    /\ calls = 0 /\ faults = << >>
    /\ uses = << >> /\ made = 0 /\ todo = << >>
    /\ m_res = [ib_ctx |-> nullptr, buffer |-> nullptr, pd |-> nullptr, mr |-> nullptr]
    /\ m_qps = << >> /\ m_connected = {} /\ m_srqs = << >> /\ m_udqp = NoQp
    /\ m_lastMCastConnKey = 0 /\ m_udpMcastConns = << >>
    /\ rts = {} /\ qp = NoQp

\* BaseRDMA(), for either transport.  When it throws, no destructor runs; without
\* memory it writes to what mmap has not mapped.
BaseRDMA ==
    /\ phase = "unmade"
    /\ \/ /\ Made(createBuffer)
          /\ m_res' = [ib_ctx |-> fresh("ib_ctx", 1), buffer |-> fresh("buffer", 2),
                       pd |-> fresh("pd", 3), mr |-> fresh("mr", 4)]
          /\ phase' = IF transport = "rc" THEN "running" ELSE "base"
       \/ \E k \in 1 .. 4 :
            /\ Fails(createBuffer, k, "construction")
            /\ phase' = IF k = 2 THEN "crashed" ELSE "gone"
            /\ UNCHANGED m_res
    /\ UNCHANGED <<transport, calls, todo, m_qps, m_connected, m_srqs, m_udqp,
                   m_lastMCastConnKey, m_udpMcastConns, rts, qp>>

\* UnreliableRDMA() makes the one queue pair it has, under id 0.  When it throws,
\* only ~BaseRDMA runs.
UnreliableRDMA ==
    /\ phase = "base"
    /\ \/ /\ Made(createUdQueues)
          /\ m_udqp' = queuePair /\ m_qps' = <<queuePair>>
          /\ phase' = "running"
          /\ UNCHANGED todo
       \/ \E k \in DOMAIN createUdQueues :
            /\ Fails(createUdQueues, k, "construction")
            /\ phase' = "destroying" /\ todo' = baseCalls(m_res)
            /\ UNCHANGED <<m_udqp, m_qps>>
    /\ UNCHANGED <<transport, calls, m_res, m_connected, m_srqs,
                   m_lastMCastConnKey, m_udpMcastConns, rts, qp>>

\* Mutant: the group is not left, and its registration not taken back.
leaveCallsForgetful(group) == IF group.active THEN <<Call(group.ah, "ignore")>> ELSE << >>

\* leaveMCastGroup for the group of an entry: only its first call may throw.
leaveCalls(group) ==
    IF group.active
    THEN <<Call(group.membership, "throw"), Call(group.ah, "ignore"), Call(group.qp, "ignore"),
           Call(group.scq, "ignore"), Call(group.rcq, "ignore"), Call(group.mr, "ignore"),
           Call(group.pd, "ignore"), Call(group.id, "ignore"), Call(group.channel, "force")>>
    ELSE << >>

\* Mutant: the shared receive queues first.
srqCallsFirst(entries, srqs) ==
    [k \in DOMAIN srqs |-> Call(srqs[k].shared_rq, "throw")]
        \o FlattenSeq([k \in DOMAIN entries |->
                          IF entries[k].qp # nullptr THEN destroyQP(entries[k]) ELSE << >>])

\* ReliableRDMA::destroyQPs
destroyQPs(entries, srqs) ==
    FlattenSeq([k \in DOMAIN entries |->
                   IF entries[k].qp # nullptr THEN destroyQP(entries[k]) ELSE << >>])
        \o [k \in DOMAIN srqs |-> Call(srqs[k].shared_rq, "throw")]

\* ~UnreliableRDMA and its destroyQPs: m_udqpMgmt is never made.
destroyUdQPs(groups, q) ==
    FlattenSeq([k \in DOMAIN groups |-> leaveCalls(groups[k])]) \o destroyQP(q)

Ready == phase = "running" /\ todo = << >>

\* The destructors: the queue pairs of the connections and the shared receive queues,
\* or the groups that are still joined and the one queue pair; then the base.
Destruct ==
    /\ Ready /\ qp = NoQp
    /\ phase' = "destroying"
    /\ todo' = (IF transport = "rc"
                THEN destroyQPs(m_qps, m_srqs)
                ELSE destroyUdQPs(m_udpMcastConns, m_udqp))
               \o baseCalls(m_res)
    /\ UNCHANGED <<transport, calls, faults, uses, made, recorded, qp>>

-----------------------------------------------------------------------------
(***************************************************************************)
(* Destroying: the next call of the library                                *)
(***************************************************************************)
\* It is destroyed.
DestroyNext ==
    /\ todo # << >>
    /\ LET call == Head(todo) IN
         /\ call.object \in Alive
         /\ call.busy = "force" \/ ~InUse(call.object)
         /\ uses' = Restrict(uses, Alive \ {call.object})
    /\ todo' = Tail(todo)
    /\ phase' = IF phase = "destroying" /\ Len(todo) = 1 THEN "gone" ELSE phase
    /\ UNCHANGED <<transport, calls, faults, made, recorded, qp>>

\* It is in use; that is logged, or not even looked at.
LeaveBusy ==
    /\ todo # << >> /\ Head(todo).busy \in {"log", "ignore"}
    /\ Head(todo).object \in Alive /\ InUse(Head(todo).object)
    /\ todo' = Tail(todo)
    /\ UNCHANGED <<transport, phase, calls, faults, uses, made, recorded, qp>>

\* The call fails and the code throws.  In a destructor that ends the program.
ThrowBusy ==
    /\ todo # << >> /\ Head(todo).busy = "throw"
    /\ LET object == Head(todo).object IN
         /\ object \in Alive
         /\ \/ InUse(object) /\ UNCHANGED faults
            \/ /\ object.type = "membership" /\ phase = "destroying"
               /\ Len(faults) < MaxFaults /\ faults' = Append(faults, "leave")
    /\ todo' = << >>
    /\ phase' = IF phase = "destroying" THEN "terminated" ELSE phase
    /\ UNCHANGED <<transport, calls, uses, made, recorded, qp>>

\* There is no such object, or no longer: undefined behaviour.
DestroyNothing ==
    /\ todo # << >> /\ Head(todo).object \notin Alive
    /\ todo' = << >>
    /\ phase' = IF Head(todo).object = nullptr THEN "crashed" ELSE "dangling"
    /\ UNCHANGED <<transport, calls, faults, uses, made, recorded, qp>>

-----------------------------------------------------------------------------
(***************************************************************************)
(* Queue pairs of connections                                              *)
(***************************************************************************)
Starts == Ready /\ calls < MaxCalls /\ calls' = calls + 1

nextConnKey == Len(m_qps)

Resized(entries, size, none) ==
    [k \in 1 .. IF Len(entries) < size THEN size ELSE Len(entries) |->
        IF k \in DOMAIN entries THEN entries[k] ELSE none]

\* setQP; id k is at place k + 1.
setQP(id, q) == m_qps' = [Resized(m_qps, id + 1, NoQp) EXCEPT ![id + 1] = q]

Unused(id) == id + 1 \in DOMAIN m_qps => m_qps[id + 1] = NoQp

\* A connection gets a queue pair once; but a server that connects to itself gives its
\* own id to one, while its client keeps another for it.
MayInit(id) == Unused(id) /\ (id = OwnID \/ qp = NoQp)
InitIDs == {id \in ConnIDs \cup {nextConnKey} : MayInit(id)}

\* createSharedReceiveQueue
createSrq == <<One(fresh("srq", 1), {m_res.pd}), One(fresh("cq", 2), {m_res.ib_ctx})>>

CreateSharedReceiveQueue ==
    /\ transport = "rc" /\ Starts /\ qp = NoQp
    /\ \/ /\ Made(createSrq)
          /\ m_srqs' = Append(m_srqs, [shared_rq |-> fresh("srq", 1), recv_cq |-> fresh("cq", 2)])
       \/ \E k \in DOMAIN createSrq : Fails(createSrq, k, "srq") /\ UNCHANGED m_srqs
    /\ UNCHANGED <<transport, phase, todo, m_res, m_qps, m_connected, m_udqp,
                   m_lastMCastConnKey, m_udpMcastConns, rts, qp>>

\* ReliableRDMA::initQP, initQPWithSuppliedID
InitQP(id) ==
    /\ transport = "rc" /\ Starts
    /\ \/ Made(createQueues) /\ setQP(id, queuePair)
       \/ \E k \in DOMAIN createQueues : Fails(createQueues, k, "queues") /\ UNCHANGED m_qps
    /\ UNCHANGED <<transport, phase, todo, m_res, m_connected, m_srqs, m_udqp,
                   m_lastMCastConnKey, m_udpMcastConns, rts, qp>>

\* initQPForSRQ, initQPForSRQWithSuppliedID: the receive queue is that of the srq.
createForSrq(srq) ==
    <<One(fresh("cq", 1), {m_res.ib_ctx}),
      One(fresh("qp", 2), {m_res.pd, fresh("cq", 1), srq.recv_cq, srq.shared_rq}), Change>>

InitQPForSRQ(s, id) ==
    /\ Starts
    /\ \/ /\ Made(createForSrq(m_srqs[s]))
          /\ setQP(id, [qp |-> fresh("qp", 2), send_cq |-> fresh("cq", 1), recv_cq |-> m_srqs[s].recv_cq])
       \/ \E k \in 1 .. 3 :
            /\ Fails(createForSrq(m_srqs[s]), k, IF k = 3 THEN "queue pair of an srq" ELSE "queues")
            /\ UNCHANGED m_qps
    /\ UNCHANGED <<transport, phase, todo, m_res, m_connected, m_srqs, m_udqp,
                   m_lastMCastConnKey, m_udpMcastConns, rts, qp>>

\* UnreliableRDMA::initQPWithSuppliedID: the one queue pair, which there is already.
InitUdQP(id) ==
    /\ transport = "ud" /\ Starts
    /\ setQP(id, m_udqp)
    /\ UNCHANGED <<transport, phase, faults, uses, made, todo, m_res, m_connected, m_srqs,
                   m_udqp, m_lastMCastConnKey, m_udpMcastConns, rts, qp>>

\* connectQP of a reliable connection changes the state of its queue pair only.
ConnectQP(id) ==
    /\ transport = "rc" /\ Starts /\ (id = OwnID \/ qp = NoQp)
    /\ \/ id \in m_connected /\ UNCHANGED <<m_connected, rts, faults>>
       \/ /\ id \notin m_connected /\ m_connected' = m_connected \cup {id}
          /\ rts' = rts \cup {m_qps[id + 1].qp}
          /\ UNCHANGED faults
       \/ /\ id \notin m_connected /\ UNCHANGED <<m_connected, rts>>
          /\ Len(faults) < MaxFaults /\ faults' = Append(faults, "connect")
    /\ UNCHANGED <<transport, phase, uses, made, todo, m_res, m_qps, m_srqs, m_udqp,
                   m_lastMCastConnKey, m_udpMcastConns, qp>>

createHandle == <<One(fresh("ah", 1), {m_res.pd})>>

\* connectQP of UnreliableRDMA makes an address handle that nobody destroys; whether
\* there is one is not looked at.
ConnectUdQP(id) ==
    /\ transport = "ud" /\ Starts /\ (id = OwnID \/ qp = NoQp)
    /\ m_connected' = m_connected \cup {id}
    /\ \/ id \in m_connected /\ UNCHANGED <<faults, uses, made>>
       \/ id \notin m_connected /\ (Made(createHandle) \/ Fails(createHandle, 1, "connect"))
    /\ UNCHANGED <<transport, phase, todo, m_res, m_qps, m_srqs, m_udqp,
                   m_lastMCastConnKey, m_udpMcastConns, rts, qp>>

-----------------------------------------------------------------------------
(***************************************************************************)
(* RDMAClient::connect keeps its new queue pair to itself until the server *)
(* has answered.                                                           *)
(***************************************************************************)
InitOwnQP ==
    /\ transport = "rc" /\ Starts /\ qp = NoQp
    /\ \/ Made(createQueues) /\ qp' = queuePair
       \/ \E k \in DOMAIN createQueues : Fails(createQueues, k, "queues") /\ UNCHANGED qp
    /\ UNCHANGED <<transport, phase, todo, recorded>>

\* Of UnreliableRDMA it gets the one queue pair there is.
InitOwnUdQP ==
    /\ transport = "ud" /\ Starts /\ qp = NoQp
    /\ qp' = m_udqp
    /\ UNCHANGED <<transport, phase, faults, uses, made, todo, recorded>>

\* The server has accepted.  When that was the server of this very object, the entry
\* is taken from the queue pair that the server has connected.
Accepted(id) ==
    /\ Ready /\ qp # NoQp
    /\ setQP(id, qp) /\ qp' = NoQp
    /\ \/ Unused(id) /\ id # OwnID /\ UNCHANGED faults
       \/ /\ id = OwnID /\ id \in m_connected /\ "self" \notin Range(faults)
          /\ faults' = Append(faults, "self")
    /\ UNCHANGED <<transport, phase, calls, uses, made, todo, m_res, m_connected,
                   m_srqs, m_udqp, m_lastMCastConnKey, m_udpMcastConns, rts>>

\* It has refused: the client destroys the queue pair of its local variable, which is
\* not where UnreliableRDMA has left its own.
Refused ==
    /\ Ready /\ qp # NoQp
    /\ todo' = IF transport = "rc" THEN destroyQP(qp) ELSE destroyQP(NoQp)
    /\ qp' = NoQp
    /\ UNCHANGED <<transport, phase, calls, faults, uses, made, recorded>>

\* There was no answer: exchangeProtoMsg throws, and the local variable is gone.
NoAnswer ==
    /\ Ready /\ qp # NoQp
    /\ Len(faults) < MaxFaults /\ faults' = Append(faults, "exchange")
    /\ qp' = NoQp
    /\ UNCHANGED <<transport, phase, calls, uses, made, todo, recorded>>

-----------------------------------------------------------------------------
(***************************************************************************)
(* Multicast groups                                                        *)
(***************************************************************************)
\* Mutant: a later group takes the place of the first.
setMCastConnAtFirst(key, group) ==
    m_udpMcastConns' = [Resized(m_udpMcastConns, 1, NoGroup) EXCEPT ![1] = group]

setMCastConn(key, group) ==
    m_udpMcastConns' = [Resized(m_udpMcastConns, key + 1, NoGroup) EXCEPT ![key + 1] = group]

\* What a group has, in the order in which it is made: the empty steps are the
\* resolution of the address, which fills the rdma_addrinfo, and the arrival of the
\* event of the join.  Both completion queues are asked for before either is tested.
\* The address handle is made in the protection domain of the connections.
groupSteps ==
    LET channel == fresh("channel", 1)   id == fresh("id", 2)    pd == fresh("pd", 4)
        mr == fresh("mr", 5)             scq == fresh("cq", 6)   rcq == fresh("cq", 7)
        pair == fresh("qp", 8)           membership == fresh("membership", 9)
    IN  <<One(channel, {}), One(id, {channel}), One(fresh("addrinfo", 3), {}), Change,
          One(pd, {}), One(mr, {pd, m_res.buffer}),
          [o \in {scq, rcq} |-> {}],
          One(pair, {id, pd, scq, rcq}), One(membership, {pair}), Change,
          One(fresh("ah", 10), {m_res.pd})>>

newGroup ==
    [active |-> TRUE, channel |-> fresh("channel", 1), id |-> fresh("id", 2), pd |-> fresh("pd", 4),
     mr |-> fresh("mr", 5), scq |-> fresh("cq", 6), rcq |-> fresh("cq", 7), qp |-> fresh("qp", 8),
     membership |-> fresh("membership", 9), ah |-> fresh("ah", 10)]

\* joinMCastGroup: the key is taken first, the group is entered when all has gone well.
JoinMCastGroup ==
    /\ transport = "ud" /\ Starts /\ qp = NoQp
    /\ m_lastMCastConnKey' = m_lastMCastConnKey + 1
    /\ \/ /\ Made(groupSteps)
          /\ setMCastConn(m_lastMCastConnKey, newGroup)
       \/ \E k \in DOMAIN groupSteps : Fails(groupSteps, k, "join") /\ UNCHANGED m_udpMcastConns
    /\ UNCHANGED <<transport, phase, todo, m_res, m_qps, m_connected, m_srqs, m_udqp, rts, qp>>

inactive(group) == [group EXCEPT !.active = FALSE]

\* leaveMCastGroup(k): a group that is not joined any more, or whose join failed before
\* a later one, is left alone.  It is inactive once the first call has not thrown.
LeaveMCastGroup(k) ==
    /\ Starts /\ qp = NoQp
    /\ LET group == m_udpMcastConns[k] IN
       \/ /\ todo' = leaveCalls(group)
          /\ m_udpMcastConns' = [m_udpMcastConns EXCEPT ![k] = inactive(group)]
          /\ UNCHANGED faults
       \/ /\ group.active /\ UNCHANGED <<todo, m_udpMcastConns>>
          /\ Len(faults) < MaxFaults /\ faults' = Append(faults, "leave")
    /\ UNCHANGED <<transport, phase, uses, made, m_res, m_qps, m_connected, m_srqs,
                   m_udqp, m_lastMCastConnKey, rts, qp>>

-----------------------------------------------------------------------------
QueuePairsNext ==
    \/ BaseRDMA \/ UnreliableRDMA \/ Destruct
    \/ DestroyNext \/ LeaveBusy \/ ThrowBusy \/ DestroyNothing
    \/ CreateSharedReceiveQueue
    \/ \E id \in InitIDs : InitQP(id) \/ InitUdQP(id)
    \/ \E s \in DOMAIN m_srqs, id \in InitIDs : InitQPForSRQ(s, id)
    \/ \E id \in ConnIDs : Accepted(id)
    \/ \E id \in 0 .. Len(m_qps) - 1 :
         m_qps[id + 1] # NoQp /\ (ConnectQP(id) \/ ConnectUdQP(id))
    \/ InitOwnQP \/ InitOwnUdQP \/ Refused \/ NoAnswer
    \/ JoinMCastGroup
    \/ \E k \in DOMAIN m_udpMcastConns : LeaveMCastGroup(k)

QueuePairsSpec == QueuePairsInit /\ [][QueuePairsNext]_queuePairsVars

-----------------------------------------------------------------------------
(***************************************************************************)
(* Properties                                                              *)
(***************************************************************************)
PointersOf(q) == {q.qp, q.send_cq, q.recv_cq}
ObjectsOfGroup(group) ==
    {group.channel, group.id, group.pd, group.mr, group.scq, group.rcq, group.qp,
     group.membership, group.ah}
Joined == {group \in Range(m_udpMcastConns) : group.active}

\* While the object lives, what its members name exists: connections, shared receive
\* queues and groups that can be used have all their verbs objects.
MembersExist ==
    phase = "running" =>
        /\ {m_res.ib_ctx, m_res.buffer, m_res.pd, m_res.mr} \subseteq Alive
        /\ \A q \in Range(m_qps) \cup {qp, m_udqp} : q # NoQp => PointersOf(q) \subseteq Alive
        /\ \A srq \in Range(m_srqs) : {srq.shared_rq, srq.recv_cq} \subseteq Alive
        /\ \A group \in Joined : ObjectsOfGroup(group) \subseteq Alive

\* A reliable connection that counts as connected can send, unless it is one of the
\* object with itself.
ConnectedCanSend ==
    transport = "rc" /\ "self" \notin Range(faults) =>
        \A id \in m_connected : m_qps[id + 1].qp \in rts

\* Two reliable connections share at most the receive queue of a shared receive queue,
\* and two groups nothing.
NothingIsShared ==
    /\ transport = "rc" =>
         \A j, k \in DOMAIN m_qps :
             /\ j # k /\ m_qps[j] # NoQp /\ m_qps[k] # NoQp
             => PointersOf(m_qps[j]) \cap PointersOf(m_qps[k]) \subseteq {srq.recv_cq : srq \in Range(m_srqs)}
    /\ \A g, h \in Joined : g = h \/ ObjectsOfGroup(g) \cap ObjectsOfGroup(h) = {}

\* As long as nothing has failed, an object outlives those made of it: in particular
\* the memory is not unmapped while it is registered.  Only the device is closed over
\* what is left behind.
UsersGoFirst ==
    faults = << >> => \A object \in Alive : \A used \in uses[object] :
                          used \in Alive \/ used.type = "ib_ctx"

\* No object is destroyed twice.  A destructor ends the program only when a group
\* could not be left, or when a queue pair on a shared receive queue was lost on the
\* way, as that of a server that connects to itself is; a null pointer is destroyed
\* only when a client over UnreliableRDMA is refused.
EndsOrderly ==
    /\ phase # "dangling"
    /\ phase = "terminated" => Range(faults) \cap {"leave", "queue pair of an srq", "self"} # {}
    /\ phase = "crashed" => transport = "ud" \/ faults = <<"construction">>

\* The types, and the five invariants above: what the members name exists and is not
\* shared (createQP, setQP, setMCastConn), and the destructors destroy in an order in
\* which they neither fail nor pull something away (destroyQPs, leaveMCastGroup,
\* ~BaseRDMA).
QueuePairsInv ==
    /\ QueuePairsTypeOK /\ MembersExist /\ ConnectedCanSend /\ NothingIsShared
    /\ UsersGoFirst /\ EndsOrderly

\* What a life in which nothing has failed leaves behind, and no more: the address
\* handles of UnreliableRDMA with the protection domain they keep busy, the address of
\* each group joined, and the completion queue of a shared receive queue that no
\* connection ever used.
NothingElseLeft ==
    phase = "gone" /\ faults = << >> =>
        \A object \in Alive :
            \/ object.type \in {"ah", "addrinfo"}
            \/ object = m_res.pd /\ \E ah \in Alive : ah.type = "ah" /\ object \in uses[ah]
            \/ /\ object \in {srq.recv_cq : srq \in Range(m_srqs)}
               /\ \A q \in Range(m_qps) : q.recv_cq # object

\* The key of a group stands for that group for ever: an entry changes only by being
\* left, and is not made again for another group, not even when joins have failed in
\* between (nextMCastConnKey, setMCastConn).
KeysStay ==
    [][\A k \in DOMAIN m_udpMcastConns :
          /\ k \in DOMAIN m_udpMcastConns'
          /\ m_udpMcastConns'[k] \in {m_udpMcastConns[k], inactive(m_udpMcastConns[k])}]_queuePairsVars
=============================================================================
