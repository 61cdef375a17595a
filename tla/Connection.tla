----------------------------- MODULE Connection -----------------------------
(***************************************************************************)
(* How clients and servers find and connect to each other: the sequencer   *)
(* that gives out node ids (NodeIDSequencer), connect() of the client      *)
(* (RDMAClient, RDMAClientSRQ) and connectQueue() of the server            *)
(* (RDMAServer).  A server is a client too, so two servers may connect to  *)
(* each other at the same time; exactly one of the two requests is to be   *)
(* refused, which one the node ids decide.                                 *)
(*                                                                         *)
(* Every node has one thread that works off its calls (its plan), and      *)
(* every started server a second one that answers connection requests, one *)
(* at a time and under m_connLock.  A queue pair is named by its owner,    *)
(* the node id of the peer and the side that created it.                   *)
(***************************************************************************)
EXTENDS Integers, Sequences, FiniteSets

CONSTANTS
    Nodes,      \* all programs
    Servers,    \* the nodes of type SERVER
    SrqClients, \* the clients that are an RDMAClientSRQ
    Start,      \* the call startServer()
    Scenarios   \* what the nodes do, see ScenariosAssumption

ASSUME NodesAssumption ==
    /\ IsFiniteSet(Nodes)
    /\ Servers \subseteq Nodes /\ SrqClients \subseteq Nodes \ Servers
    /\ Start \notin Nodes

\* plan: the calls of each node, Start or the server to connect to.
\* impatient: the nodes that may run out of retries before a server registers.
\* mayFail: the nodes at which creating a queue pair may fail and, at a server,
\* connecting it.
ASSUME ScenariosAssumption ==
    \A s \in Scenarios :
        /\ s.plan \in [Nodes -> Seq(Servers \cup {Start})]
        /\ \A n \in Nodes \ Servers : \A k \in DOMAIN s.plan[n] : s.plan[n][k] # Start
        /\ s.impatient \subseteq Nodes /\ s.mayFail \subseteq Nodes

VARIABLES
    scenario,   \* what the nodes do, chosen once
    nextNodeID, \* the sequencer: m_nextNodeID
    entries,    \* the sequencer: m_entries, indexed with the node id
    idOf,       \* the sequencer: m_ipPortToNodeIDMapping
    ownId,      \* m_ownNodeID
    pc,         \* where the calling thread is
    sockets,    \* ProtoClient::m_connections, the servers it has a socket to
    connections,\* RDMAClient::m_connections, the node id noted for a server
    flagged,    \* m_NodeIDsQPs, the node ids that are taken care of
    reply,      \* the answer to the connection request, a queue pair or NoQp
    serving,    \* the server's thread runs
    handling,   \* the node whose request the server's thread works on
    qp,         \* all queue pairs: state and remote end
    qps,        \* m_qps, the queue pair for a node id
    connected,  \* m_connected
    results     \* what the calls have returned

sequencerVars == <<nextNodeID, entries, idOf>>
callVars == <<ownId, pc, sockets, connections, reply, results>>
serverVars == <<serving, handling>>
qpVars == <<qp, qps, connected>>
progress == <<sequencerVars, callVars, flagged, serverVars, qpVars>>
vars == <<scenario, progress>>

Ids == 0 .. Cardinality(Nodes) - 1
NoId == -1
NoQp == <<>>
QPs == Nodes \X Ids \X {"client", "server"}

TypeOK ==
    /\ scenario \in Scenarios
    /\ nextNodeID \in Nat /\ entries \in Seq(Nodes)
    /\ idOf \in [Servers -> Ids \cup {NoId}]
    /\ ownId \in [Nodes -> Ids \cup {NoId}]
    /\ pc \in [Nodes -> {"idle", "lookup", "claim", "request", "wait",
                         "adopt", "refused", "thrown"}]
    /\ sockets \in [Nodes -> SUBSET Servers]
    /\ connections \in [Nodes -> [Servers -> Ids]]
    /\ flagged \in [Nodes -> SUBSET Ids]
    /\ reply \in [Nodes -> QPs \cup {NoQp}]
    /\ serving \in [Servers -> BOOLEAN]
    /\ handling \in [Servers -> SUBSET Nodes]
    /\ qp \in [QPs -> [state : {"none", "reset", "init", "rts", "destroyed"},
                       remote : QPs \cup {NoQp}]]
    /\ qps \in [Nodes -> [Ids -> QPs \cup {NoQp}]]
    /\ connected \in [Nodes -> SUBSET Ids]
    /\ results \in [Nodes -> Seq([call : Servers \cup {Start}, ok : BOOLEAN, id : Ids])]

Init ==
    /\ scenario \in Scenarios
    /\ nextNodeID = 0 /\ entries = <<>>
    /\ idOf = [s \in Servers |-> NoId]
    /\ ownId = [n \in Nodes |-> NoId]
    /\ pc = [n \in Nodes |-> "idle"]
    /\ sockets = [n \in Nodes |-> {}]
    /\ connections = [n \in Nodes |-> [s \in Servers |-> 0]]
    /\ flagged = [n \in Nodes |-> {}]
    /\ reply = [n \in Nodes |-> NoQp]
    /\ serving = [s \in Servers |-> FALSE]
    /\ handling = [s \in Servers |-> {}]
    /\ qp = [q \in QPs |-> [state |-> "none", remote |-> NoQp]]
    /\ qps = [n \in Nodes |-> [i \in Ids |-> NoQp]]
    /\ connected = [n \in Nodes |-> {}]
    /\ results = [n \in Nodes |-> <<>>]

-----------------------------------------------------------------------------
\* The call a node is at, and the node id its connect() has found.
HasCall(n) == Len(results[n]) < Len(scenario.plan[n])
Call(n) == scenario.plan[n][Len(results[n]) + 1]
TargetId(n) == connections[n][Call(n)]
ClientQp(n) == <<n, TargetId(n), "client">>

Goto(n, label) == pc' = [pc EXCEPT ![n] = label]

Returns(n, ok, id) ==
    /\ Goto(n, "idle")
    /\ results' = [results EXCEPT ![n] = Append(@, [call |-> Call(n), ok |-> ok, id |-> id])]

\* getNextNodeID(): the id that is given out next.
getNextNodeID == nextNodeID

\* The sequencer answers a NodeIDRequest of n.  Only servers can be looked up
\* later.
NodeIDRequest(n) ==
    /\ nextNodeID' = nextNodeID + 1
    /\ entries' = Append(entries, n)
    /\ idOf' = IF n \in Servers THEN [idOf EXCEPT ![n] = getNextNodeID] ELSE idOf

\* What it answers to a GetNodeIDForIpPortRequest for s: the server the entry of
\* that id names; it must be asked for a server it knows.
GetNodeIDForIpPortRequest(s) == entries[idOf[s] + 1]

\* requestNodeID(), at the start of connect() and of startServer().
Register(n) ==
    /\ pc[n] = "idle" /\ HasCall(n) /\ ownId[n] = NoId
    /\ NodeIDRequest(n)
    /\ ownId' = [ownId EXCEPT ![n] = getNextNodeID]
    /\ UNCHANGED <<pc, sockets, connections, reply, results, flagged, serverVars, qpVars>>

\* startServer()
StartServer(n) ==
    /\ pc[n] = "idle" /\ HasCall(n) /\ ownId[n] # NoId
    /\ Call(n) = Start
    /\ serving' = [serving EXCEPT ![n] = TRUE]
    /\ Returns(n, TRUE, 0)
    /\ UNCHANGED <<sequencerVars, ownId, sockets, connections, reply, flagged, handling, qpVars>>

\* connect() to a server that this node has called connect() for before.
ConnectAgain(n) ==
    /\ pc[n] = "idle" /\ HasCall(n) /\ ownId[n] # NoId
    /\ Call(n) \in sockets[n]
    /\ Returns(n, TRUE, TargetId(n))
    /\ UNCHANGED <<sequencerVars, ownId, sockets, connections, reply, flagged, serverVars, qpVars>>

Connect(n) ==
    /\ pc[n] = "idle" /\ HasCall(n) /\ ownId[n] # NoId
    /\ Call(n) \in Servers \ sockets[n]
    /\ sockets' = [sockets EXCEPT ![n] = @ \cup {Call(n)}]
    /\ Goto(n, "lookup")
    /\ UNCHANGED <<sequencerVars, ownId, connections, reply, results, flagged, serverVars, qpVars>>

\* The sequencer knows the server; its entry must name the server's address.
LookUp(n) ==
    /\ pc[n] = "lookup"
    /\ idOf[Call(n)] # NoId
    /\ IF GetNodeIDForIpPortRequest(Call(n)) = Call(n)
       THEN /\ connections' = [connections EXCEPT ![n][Call(n)] = idOf[Call(n)]]
            /\ Goto(n, "claim")
       ELSE /\ Goto(n, "thrown")
            /\ UNCHANGED connections
    /\ UNCHANGED <<sequencerVars, ownId, sockets, reply, results, flagged, serverVars, qpVars>>

\* All retries have found no such server.
GiveUp(n) ==
    /\ pc[n] = "lookup" /\ n \in scenario.impatient
    /\ idOf[Call(n)] = NoId
    /\ Returns(n, FALSE, 0)
    /\ UNCHANGED <<sequencerVars, ownId, sockets, connections, reply, flagged, serverVars, qpVars>>

\* m_connLock is free at a node when its server thread handles no request.
Unlocked(n) == n \in Servers => handling[n] = {}

\* Under m_connLock: nothing is left to do if the other side has connected first.
Claim(n) ==
    /\ pc[n] = "claim" /\ Unlocked(n)
    /\ flagged' = [flagged EXCEPT ![n] = @ \cup {TargetId(n)}]
    /\ IF TargetId(n) \in flagged[n]
       THEN Returns(n, TRUE, TargetId(n))
       ELSE Goto(n, "request") /\ UNCHANGED results
    /\ UNCHANGED <<sequencerVars, ownId, sockets, connections, reply, serverVars, qpVars>>

Created == [state |-> "init", remote |-> NoQp]

\* Creating the queue pair q fails: there is none, or there is one that could not be
\* changed to INIT.  The exception leaves the only copy of its handle, on the
\* stack, behind: nothing records it.
CreateFails(q) ==
    \/ UNCHANGED qp
    \/ qp' = [qp EXCEPT ![q] = [state |-> "reset", remote |-> NoQp]]

\* The client creates its queue pair and sends the connection request.
Request(n) ==
    /\ pc[n] = "request" /\ n \notin SrqClients
    /\ qp' = [qp EXCEPT ![ClientQp(n)] = Created]
    /\ Goto(n, "wait")
    /\ UNCHANGED <<sequencerVars, ownId, sockets, connections, reply, results, flagged, serverVars, qps, connected>>

\* The same for an SRQ client, which records the queue pair at once.
RequestSrq(n) ==
    /\ pc[n] = "request" /\ n \in SrqClients
    /\ qp' = [qp EXCEPT ![ClientQp(n)] = Created]
    /\ qps' = [qps EXCEPT ![n][TargetId(n)] = ClientQp(n)]
    /\ Goto(n, "wait")
    /\ UNCHANGED <<sequencerVars, ownId, sockets, connections, reply, results, flagged, serverVars, connected>>

\* The client's own queue pair cannot be created: the exception leaves connect().
RequestFails(n) ==
    /\ pc[n] = "request" /\ n \in scenario.mayFail
    /\ CreateFails(ClientQp(n))
    /\ Goto(n, "thrown")
    /\ UNCHANGED <<sequencerVars, ownId, sockets, connections, reply, results, flagged, serverVars, qps, connected>>

\* connectQP(): the queue pair q, just recorded for node id i, is connected to r,
\* unless some queue pair has been connected under that id before.
connectQP(n, i, q, r) ==
    /\ connected' = [connected EXCEPT ![n] = @ \cup {i}]
    /\ qp' = IF i \in connected[n] THEN qp ELSE [qp EXCEPT ![q] = [state |-> "rts", remote |-> r]]

\* Mutant: connectQP() is forgotten.
AdoptUnconnected(n) ==
    /\ pc[n] = "adopt" /\ n \notin SrqClients
    /\ qps' = [qps EXCEPT ![n][TargetId(n)] = ClientQp(n)]
    /\ Returns(n, TRUE, TargetId(n))
    /\ UNCHANGED <<sequencerVars, ownId, sockets, connections, reply, flagged, serverVars, qp, connected>>

\* The request was accepted: the queue pair is recorded and connected.
Adopt(n) ==
    /\ pc[n] = "adopt" /\ n \notin SrqClients
    /\ qps' = [qps EXCEPT ![n][TargetId(n)] = ClientQp(n)]
    /\ connectQP(n, TargetId(n), ClientQp(n), reply[n])
    /\ Returns(n, TRUE, TargetId(n))
    /\ UNCHANGED <<sequencerVars, ownId, sockets, connections, reply, flagged, serverVars>>

\* The SRQ client, whose request was accepted, connects the recorded queue pair.
AdoptSrq(n) ==
    /\ pc[n] = "adopt" /\ n \in SrqClients
    /\ connectQP(n, TargetId(n), ClientQp(n), reply[n])
    /\ Returns(n, TRUE, TargetId(n))
    /\ UNCHANGED <<sequencerVars, ownId, sockets, connections, reply, flagged, serverVars, qps>>

\* Mutant: the queue pair is not destroyed.
RefusedKeeps(n) ==
    /\ pc[n] = "refused" /\ n \notin SrqClients
    /\ Returns(n, TRUE, TargetId(n))
    /\ UNCHANGED <<sequencerVars, ownId, sockets, connections, reply, flagged, serverVars, qpVars>>

\* The request was refused: the queue pair is destroyed, which is no error.
Refused(n) ==
    /\ pc[n] = "refused" /\ n \notin SrqClients
    /\ qp' = [qp EXCEPT ![ClientQp(n)] = [state |-> "destroyed", remote |-> NoQp]]
    /\ Returns(n, TRUE, TargetId(n))
    /\ UNCHANGED <<sequencerVars, ownId, sockets, connections, reply, flagged, serverVars, qps, connected>>

\* The SRQ client does not test for a refusal and connects to the remote end it
\* has not got: m_rconns may have no such element, so this fails or connects the
\* queue pair to nothing.
RefusedSrq(n) ==
    /\ pc[n] = "refused" /\ n \in SrqClients
    /\ \/ /\ Goto(n, "thrown")
          /\ UNCHANGED <<qp, connected, results>>
       \/ /\ connectQP(n, TargetId(n), ClientQp(n), NoQp)
          /\ Returns(n, TRUE, TargetId(n))
    /\ UNCHANGED <<sequencerVars, ownId, sockets, connections, reply, flagged, serverVars, qps>>

Caller(n) ==
    \/ Register(n) \/ StartServer(n) \/ ConnectAgain(n) \/ Connect(n)
    \/ LookUp(n) \/ GiveUp(n) \/ Claim(n) \/ Request(n) \/ RequestSrq(n)
    \/ RequestFails(n) \/ Adopt(n) \/ AdoptSrq(n) \/ Refused(n) \/ RefusedSrq(n)

-----------------------------------------------------------------------------
\* The server s takes the connection request of node n from its socket.
Receives(s, n) ==
    /\ serving[s] /\ handling[s] = {}
    /\ pc[n] = "wait" /\ Call(n) = s

\* Mutant: a node with the smaller id backs off on both sides.
backsOffAlways(s, n) == ownId[n] \in flagged[s]

\* Mutant: nobody backs off.
backsOffNever(s, n) == FALSE

\* Both ends have called connect(): the one with the larger id refuses.
backsOff(s, n) == ownId[n] \in flagged[s] /\ ownId[n] < ownId[s]

\* The queue pair that the server s creates for the node n.
ServerQp(s, n) == <<s, ownId[n], "server">>

Refuse(s, n) ==
    /\ Receives(s, n)
    /\ backsOff(s, n)
    /\ Goto(n, "refused")
    /\ UNCHANGED <<sequencerVars, ownId, sockets, connections, reply, results, flagged, serverVars, qpVars>>

\* connectQueue() takes m_connLock, sets the flag, and creates and records the
\* queue pair.
Accept(s, n) ==
    /\ Receives(s, n)
    /\ ~backsOff(s, n)
    /\ flagged' = [flagged EXCEPT ![s] = @ \cup {ownId[n]}]
    /\ qp' = [qp EXCEPT ![ServerQp(s, n)] = Created]
    /\ qps' = [qps EXCEPT ![s][ownId[n]] = ServerQp(s, n)]
    /\ handling' = [handling EXCEPT ![s] = {n}]
    /\ UNCHANGED <<sequencerVars, callVars, serving, connected>>

\* Mutant: the exception is not caught and ends the server's thread.
AcceptThrows(s, n) ==
    /\ s \in scenario.mayFail
    /\ Receives(s, n)
    /\ ~backsOff(s, n)
    /\ flagged' = [flagged EXCEPT ![s] = @ \cup {ownId[n]}]
    /\ serving' = [serving EXCEPT ![s] = FALSE]
    /\ UNCHANGED <<sequencerVars, callVars, handling, qpVars>>

\* Creating it has failed: false is returned, but the flag stays set, and a queue
\* pair that was not initialized is not destroyed.
AcceptFails(s, n) ==
    /\ s \in scenario.mayFail
    /\ Receives(s, n)
    /\ ~backsOff(s, n)
    /\ flagged' = [flagged EXCEPT ![s] = @ \cup {ownId[n]}]
    /\ CreateFails(ServerQp(s, n))
    /\ Goto(n, "refused")
    /\ UNCHANGED <<sequencerVars, ownId, sockets, connections, reply, results, serverVars, qps, connected>>

\* The rest of connectQueue() and the answer: the queue pair is connected to that
\* of the request, and the lock released.
Connected(s, n) ==
    /\ n \in handling[s]
    /\ connectQP(s, ownId[n], ServerQp(s, n), ClientQp(n))
    /\ reply' = [reply EXCEPT ![n] = ServerQp(s, n)]
    /\ handling' = [handling EXCEPT ![s] = {}]
    /\ Goto(n, "adopt")
    /\ UNCHANGED <<sequencerVars, ownId, sockets, connections, results, flagged, serving, qps>>

\* Connecting it has failed: it stays recorded.
ConnectedFails(s, n) ==
    /\ s \in scenario.mayFail /\ n \in handling[s]
    /\ handling' = [handling EXCEPT ![s] = {}]
    /\ Goto(n, "refused")
    /\ UNCHANGED <<sequencerVars, ownId, sockets, connections, reply, results, flagged, serving, qpVars>>

Handler(s) == \E n \in Nodes :
    \/ Refuse(s, n) \/ Accept(s, n) \/ AcceptFails(s, n)
    \/ Connected(s, n) \/ ConnectedFails(s, n)

-----------------------------------------------------------------------------
Next ==
    /\ (\E n \in Nodes : Caller(n)) \/ (\E s \in Servers : Handler(s))
    /\ UNCHANGED scenario

Spec == Init /\ [][Next]_vars

\* Every thread that can go on does so.
FairSpec ==
    /\ Spec
    /\ \A n \in Nodes : WF_progress(Caller(n))
    /\ \A s \in Servers : WF_progress(Handler(s))

-----------------------------------------------------------------------------
\* Neither of two nodes is on the way to a connection to the other.
Underway(n, m) ==
    \/ pc[n] \in {"request", "wait", "adopt", "refused"} /\ Call(n) = m
    \/ n \in Servers /\ m \in handling[n]
Settled(n, m) == ~Underway(n, m) /\ ~Underway(m, n)

Ready(q) == q # NoQp /\ qp[q].state = "rts"
Paired(q, r) == Ready(q) /\ Ready(r) /\ qp[q].remote = r /\ qp[r].remote = q

\* When two nodes have both recorded a queue pair for each other, and neither is
\* still connecting, these two are connected to each other, unless connecting has
\* failed: simultaneous calls of connect() never leave the ends on different
\* connections.
ConnectionsPaired ==
    \A n, m \in {k \in Nodes : ownId[k] # NoId} :
        LET q == qps[n][ownId[m]]
            r == qps[m][ownId[n]]
        IN  scenario.mayFail = {} /\ Settled(n, m) /\ q # NoQp /\ r # NoQp => Paired(q, r)

Owner(q) == q[1]

Recorded(q) == qps[Owner(q)][q[2]] = q
OfRequest(q) == pc[Owner(q)] \in {"wait", "adopt", "refused"} /\ ClientQp(Owner(q)) = q

\* The queue pair that initQPWithSuppliedID() loses when modifyQPToInit() throws.
Abandoned(q) == qp[q].state = "reset" /\ Owner(q) \in scenario.mayFail

\* One that exists is recorded in m_qps, from where the destructor destroys it, or
\* belongs to a request that is under way; the only one that is ever lost is the one
\* that could not be initialized.  No other way through connect() and connectQueue(),
\* refusals and failures of either side included, loses one.
NoOtherLeaks ==
    \A q \in QPs : qp[q].state \in {"reset", "init", "rts"} =>
        Recorded(q) \/ OfRequest(q) \/ Abandoned(q)

ConnectionInv == TypeOK /\ NoOtherLeaks

\* The thread in connect() and the thread in connectQueue() do not change m_qps,
\* m_lconns, m_rconns and m_connected of a node at the same time.  connectQueue()
\* holds m_connLock for this, connect() does not.
ConnectionTablesGuarded ==
    \A s \in Servers : handling[s] # {} => pc[s] # "adopt"

\* A connection that is ready to send stays what it is: no later connect(), from
\* either side, replaces, destroys or redirects its queue pair.
ConnectionStable ==
    [][\A n \in Nodes, i \in Ids :
          Ready(qps[n][i]) => qps'[n][i] = qps[n][i] /\ qp'[qps[n][i]] = qp[qps[n][i]]]_vars

\* What connect() returned true for.
Promised(n, s) == \E k \in DOMAIN results[n] : results[n][k].ok /\ results[n][k].call = s

\* The node id that connect() returned is that of the server, and the queue pair
\* recorded under it is ready and leads there.
LeadsTo(n, res) ==
    /\ idOf[res.call] = res.id
    /\ Ready(qps[n][res.id])
    /\ Owner(qp[qps[n][res.id]].remote) = res.call

\* When connect() of a client has returned true, the client is connected.  This is
\* for what the programs of the repository do: clients that do not call connect()
\* again once it has failed, and servers that do not fail.  It is not so between
\* two servers: one whose request was refused waits for the other's, see
\* PromiseKept.
ClientIsConnected ==
    \A n \in Nodes \ Servers : \A k \in DOMAIN results[n] :
        /\ scenario.mayFail = {}
        /\ \A j \in 1 .. k : results[n][j].ok
        => LeadsTo(n, results[n][k])

\* A connect() that returned true comes with a connection that works in both
\* directions sooner or later, also when its own request was refused or not sent
\* because the other end was connecting too; unless creating it has failed.
PromiseKept ==
    \A n \in Nodes, s \in Servers :
        (scenario.mayFail = {} /\ Promised(n, s))
            ~> []( /\ idOf[s] # NoId /\ ownId[n] # NoId
                   /\ Paired(qps[n][idOf[s]], qps[s][ownId[n]]))

\* A request waits without a time limit for a server whose thread does not run.
Unanswered(n) == pc[n] = "wait" /\ ~serving[Call(n)]

\* Every call returns or throws, but for a connect() to a server that has
\* registered and not started because it hangs in a connect() of its own: only
\* servers that connect to each other before startServer() wait for ever.
AllReturn ==
    <>(\A n \in Nodes :
          pc[n] = "thrown" \/ ~HasCall(n) \/ (Unanswered(n) /\ Unanswered(Call(n))))
=============================================================================
