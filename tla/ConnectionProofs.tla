--------------------------- MODULE ConnectionProofs ---------------------------
(***************************************************************************)
(* However many servers and clients connect to each other at the same      *)
(* time, two nodes end up with one pair of queues between them: provided   *)
(* that no server connects to itself, which leaks a queue pair             *)
(* (RDMAServer.h:173).                                                     *)
(***************************************************************************)
EXTENDS Connection, FiniteSetTheorems, SequenceTheorems, TLAPS

\* No program of the repository calls connect() with its own address: the queue pair of
\* the client and that of the server would be recorded under the same node id.
NoneToItself ==
    \A s \in Scenarios : \A n \in Nodes : \A k \in DOMAIN s.plan[n] : s.plan[n][k] # n

Registered(n) == ownId[n] # NoId

Labels == {"idle", "lookup", "claim", "request", "wait", "adopt", "refused", "thrown"}
Result == [call : Servers \cup {Start}, ok : BOOLEAN, id : Ids]

\* The queue pairs of n for m: of its own connect(), and of its server.
Cq(n, m) == <<n, ownId[m], "client">>
Sq(n, m) == <<n, ownId[m], "server">>
Rts(r) == [state |-> "rts", remote |-> r]

\* How far n is with connecting to m.
InConnect == {"lookup", "claim", "request", "wait", "adopt", "refused"}
Status(n, m) == IF pc[n] \in InConnect /\ Call(n) = m THEN pc[n] ELSE "apart"

\* Node ids are given out one after the other.
SequencerInv ==
    /\ nextNodeID = Len(entries)
    /\ nextNodeID = Cardinality({n \in Nodes : Registered(n)})
    /\ \A n \in Nodes : Registered(n) => ownId[n] < nextNodeID /\ entries[ownId[n] + 1] = n
    /\ \A s \in Servers : idOf[s] = ownId[s]

\* A node keeps something under the id of another node only.
Peers(n, i) == Registered(n) /\ \E m \in Nodes \ {n} : ownId[m] = i
UsedInv ==
    \A n \in Nodes, i \in Ids : ~Peers(n, i) =>
        /\ qp[<<n, i, "client">>].state = "none" /\ qp[<<n, i, "server">>].state = "none"
        /\ qps[n][i] = NoQp /\ i \notin flagged[n] /\ i \notin connected[n]

\* A node in connect() has looked up the id of the server.
NodeInv(n) ==
    /\ pc[n] \in InConnect => HasCall(n) /\ Registered(n) /\ Call(n) \in sockets[n] \ {n}
    /\ pc[n] \in InConnect \ {"lookup"} =>
            Registered(Call(n)) /\ TargetId(n) = ownId[Call(n)]
    /\ pc[n] = "thrown" => scenario.mayFail # {}
CallInv ==
    /\ \A n \in Nodes : NodeInv(n)
    /\ \A s \in Servers : \A n \in handling[s] : Status(n, s) = "wait" /\ handling[s] = {n}

\* The two queue pairs that the connect() of n to m makes.
PhaseInv(n, m) ==
    LET c == qp[Cq(n, m)]
        s == qp[Sq(m, n)]
    IN  /\ c.state # "none" => m \in sockets[n] /\ connections[n][m] = ownId[m]
        /\ c.state = "none" => s.state = "none"
        /\ n \in SrqClients => c.state # "destroyed"
        /\ c.state = "reset" => n \in scenario.mayFail
        /\ s.state = "reset" => m \in scenario.mayFail
        /\ Status(n, m) \in {"lookup", "claim", "request"} => c.state = "none"
        /\ Status(n, m) \in {"wait", "adopt", "refused"} => c = Created
        /\ Status(n, m) = "wait" =>
              IF n \in handling[m] THEN s = Created ELSE s.state = "none"
        /\ Status(n, m) = "adopt" => s = Rts(Cq(n, m)) /\ reply[n] = Sq(m, n)
        /\ Status(n, m) = "refused" => s.state \in {"none", "reset", "init"}
        /\ Status(n, m) = "refused" /\ scenario.mayFail = {} =>
              n \in Servers /\ s.state = "none"
        /\ Status(n, m) = "apart" =>
              \/ c = Rts(Sq(m, n)) /\ s = Rts(Cq(n, m))
              \/ /\ s.state \in {"none", "reset", "init"}
                 /\ scenario.mayFail = {} => s.state = "none"
                 /\ \/ c.state \in {"none", "reset", "destroyed"}
                    \/ n \in SrqClients /\ scenario.mayFail # {}

\* m_NodeIDsQPs knows who has claimed a connection first; of two that both have, the
\* one with the larger id is served.  A client whose queue pair could not be created
\* leaves its flag behind.
Claimed(n, m) == Status(n, m) = "request" \/ qp[Cq(n, m)].state # "none"
FlagInv(n, m) ==
    /\ Claimed(n, m) \/ qp[Sq(n, m)].state # "none" => ownId[m] \in flagged[n]
    /\ scenario.mayFail = {} /\ ownId[m] \in flagged[n] /\ n \notin Servers => Claimed(n, m)
    /\ ownId[n] \in flagged[m] /\ n \notin Servers =>
          /\ qp[Cq(n, m)].state # "none"
          /\ Status(n, m) = "wait" => n \in handling[m]
    /\ Claimed(n, m) /\ qp[Sq(n, m)].state # "none" => ownId[n] < ownId[m]

\* m_qps and m_connected are about these queue pairs, once they are initialized.
Made(q) == qp[q].state \notin {"none", "reset"}
Kept(n, m) == qp[Cq(n, m)].state = "rts" \/ (n \in SrqClients /\ Made(Cq(n, m)))
RecordInv(n, m) ==
    /\ Made(Sq(n, m)) => qps[n][ownId[m]] = Sq(n, m)
    /\ Kept(n, m) => qps[n][ownId[m]] = Cq(n, m)
    /\ qps[n][ownId[m]] # NoQp => Made(Sq(n, m)) \/ Kept(n, m)
    /\ ownId[m] \in connected[n] =>
          qp[Cq(n, m)].state = "rts" \/ qp[Sq(n, m)].state = "rts"

PairInv(n, m) == PhaseInv(n, m) /\ FlagInv(n, m) /\ RecordInv(n, m)
PairsInv ==
    \A n, m \in Nodes : n # m /\ Registered(n) /\ Registered(m) => PairInv(n, m)

\* What a client has been told is so, until a call fails.
AllOk(seq, k) == \A j \in 1 .. k : seq[j].ok
TrueOf(n, m) == Registered(m) /\ qp[Cq(n, m)].state = "rts"
ResultsTrue(n) ==
    /\ \A k \in DOMAIN results[n] : AllOk(results[n], k) =>
          /\ results[n][k].call \in Servers /\ TrueOf(n, results[n][k].call)
          /\ ownId[results[n][k].call] = results[n][k].id
    /\ AllOk(results[n], Len(results[n])) => \A s \in sockets[n] : Status(n, s) = "apart" => TrueOf(n, s)
ResultInv == scenario.mayFail = {} => \A n \in Nodes \ Servers : ResultsTrue(n)

IInv ==
    /\ TypeOK /\ SequencerInv /\ UsedInv /\ CallInv /\ PairsInv /\ ResultInv
    /\ NoneToItself

-----------------------------------------------------------------------------
\* The parts of TypeOK that the proofs look up.
LEMMA TypeParts ==
  ASSUME TypeOK
  PROVE  /\ \A n \in Nodes : scenario.plan[n] \in Seq(Servers \cup {Start})
         /\ \A n \in Nodes : results[n] \in Seq(Result)
         /\ Servers \subseteq Nodes /\ SrqClients \subseteq Nodes \ Servers
         /\ Start \notin Nodes
         /\ NoQp \notin QPs
<1>1. scenario \in Scenarios /\ scenario.plan \in [Nodes -> Seq(Servers \cup {Start})]
  BY ScenariosAssumption DEF TypeOK
<1>2. results \in [Nodes -> Seq(Result)]
  BY DEF TypeOK, Result
<1>3. ASSUME NEW q \in QPs PROVE q # <<>>
  <2>1. PICK a, b, c : q = <<a, b, c>>
    BY DEF QPs
  <2>2. 1 \in DOMAIN <<a, b, c>> /\ 1 \notin DOMAIN << >>
    OBVIOUS
  <2> QED
    BY <2>1, <2>2
<1> QED
  BY <1>1, <1>2, <1>3, NodesAssumption DEF NoQp

\* A node that is at a call is at one of its plan.
LEMMA CallIsPlanned ==
  ASSUME TypeOK, NEW n \in Nodes, HasCall(n)
  PROVE  Call(n) \in Servers \cup {Start} /\ (NoneToItself => Call(n) # n)
<1>1. /\ results[n] \in Seq(Result)
      /\ scenario.plan[n] \in Seq(Servers \cup {Start})
  BY TypeParts
<1>2. Len(results[n]) \in Nat /\ Len(scenario.plan[n]) \in Nat
  BY <1>1
<1>3. Len(results[n]) + 1 \in 1 .. Len(scenario.plan[n])
  BY <1>2 DEF HasCall
<1>4. Len(results[n]) + 1 \in DOMAIN scenario.plan[n]
  BY <1>1, <1>3
<1>5. Call(n) \in Servers \cup {Start}
  BY <1>1, <1>3 DEF Call
<1>6. scenario \in Scenarios
  BY DEF TypeOK
<1> QED
  BY <1>4, <1>5, <1>6 DEF Call, NoneToItself

\* Node ids are different.
LEMMA IdsDiffer ==
  ASSUME TypeOK, SequencerInv, NEW n \in Nodes, NEW m \in Nodes, Registered(n)
  PROVE  ownId[n] \in Ids /\ ownId[n] # NoId /\ (ownId[n] = ownId[m] <=> n = m)
<1>1. ownId[n] \in Ids \cup {NoId} /\ ownId[m] \in Ids \cup {NoId}
  BY DEF TypeOK
<1>2. ownId[m] = ownId[n] => entries[ownId[m] + 1] = m /\ entries[ownId[n] + 1] = n
  BY DEF SequencerInv, Registered
<1> QED
  BY <1>1, <1>2 DEF Registered

\* The id that a call returns with no connection is one.
LEMMA ZeroIsId ==
  ASSUME NEW n \in Nodes
  PROVE  0 \in Ids /\ Cardinality(Nodes) \in Nat
<1>1. Cardinality(Nodes) \in Nat /\ Cardinality(Nodes) # 0
  BY NodesAssumption, FS_CardinalityType, FS_EmptySet
<1> QED
  BY <1>1 DEF Ids

\* The queue pairs of different pairs of nodes are different.
LEMMA QPsDiffer ==
  ASSUME TypeOK, SequencerInv,
         NEW n \in Nodes, NEW m \in Nodes, NEW x \in Nodes, NEW y \in Nodes,
         Registered(m), Registered(y)
  PROVE  /\ Cq(n, m) \in QPs /\ Sq(n, m) \in QPs
         /\ Cq(n, m) # Sq(x, y)
         /\ Cq(n, m) = Cq(x, y) <=> n = x /\ m = y
         /\ Sq(n, m) = Sq(x, y) <=> n = x /\ m = y
BY IdsDiffer DEF Cq, Sq, QPs

\* Only n moves on, in its call for m; Status says nothing else.
Moves(n, m, label) ==
    \A x, y \in Nodes : Status(x, y)' = IF x = n /\ y = m THEN label ELSE Status(x, y)

\* A node in connect() goes on.
LEMMA GotoMoves ==
  ASSUME TypeOK, NEW n \in Nodes, pc[n] \in InConnect, NEW label \in InConnect,
         Goto(n, label), UNCHANGED <<scenario, results>>
  PROVE  Moves(n, Call(n), label)
<1> SUFFICES ASSUME NEW x \in Nodes, NEW y \in Nodes
             PROVE  Status(x, y)' = IF x = n /\ y = Call(n) THEN label ELSE Status(x, y)
  BY DEF Moves
<1>1. Call(x)' = Call(x)
  BY DEF Call
<1>2. pc'[x] = IF x = n THEN label ELSE pc[x]
  BY DEF Goto, TypeOK
<1> QED
  BY <1>1, <1>2 DEF Status

\* connect() begins.
LEMMA StartMoves ==
  ASSUME TypeOK, NEW n \in Nodes, pc[n] = "idle", NEW label \in InConnect,
         Goto(n, label), UNCHANGED <<scenario, results>>
  PROVE  Moves(n, Call(n), label)
<1> SUFFICES ASSUME NEW x \in Nodes, NEW y \in Nodes
             PROVE  Status(x, y)' = IF x = n /\ y = Call(n) THEN label ELSE Status(x, y)
  BY DEF Moves
<1>1. Call(x)' = Call(x)
  BY DEF Call
<1>2. pc'[x] = IF x = n THEN label ELSE pc[x]
  BY DEF Goto, TypeOK
<1> QED
  BY <1>1, <1>2 DEF Status, InConnect

\* connect() is over, or has thrown.
LEMMA EndMoves ==
  ASSUME TypeOK, NEW n \in Nodes, NEW label \in {"idle", "thrown"}, Goto(n, label),
         UNCHANGED scenario, \A x \in Nodes \ {n} : results'[x] = results[x],
         pc[n] \in InConnect \cup {"idle"}
  PROVE  Moves(n, Call(n), "apart")
<1> SUFFICES ASSUME NEW x \in Nodes, NEW y \in Nodes
             PROVE  Status(x, y)' = IF x = n /\ y = Call(n) THEN "apart" ELSE Status(x, y)
  BY DEF Moves
<1>1. x # n => Call(x)' = Call(x)
  BY DEF Call
<1>2. pc'[x] = IF x = n THEN label ELSE pc[x]
  BY DEF Goto, TypeOK
<1> QED
  BY <1>1, <1>2 DEF Status, InConnect

-----------------------------------------------------------------------------
\* Nothing that the invariant says of x and y has changed.
SamePair(x, y) ==
    /\ Status(x, y)' = Status(x, y)
    /\ qp'[Cq(x, y)] = qp[Cq(x, y)]
    /\ qp'[Sq(x, y)] = qp[Sq(x, y)] /\ qp'[Sq(y, x)] = qp[Sq(y, x)]
    /\ ownId[y] \in flagged'[x] <=> ownId[y] \in flagged[x]
    /\ ownId[x] \in flagged'[y] <=> ownId[x] \in flagged[y]
    /\ qps'[x][ownId[y]] = qps[x][ownId[y]]
    /\ ownId[y] \in connected'[x] <=> ownId[y] \in connected[x]
    /\ y \in sockets[x] => y \in sockets'[x]
    /\ y \in Servers /\ Status(x, y) \notin {"lookup"} => connections'[x][y] = connections[x][y]
    /\ y \in Servers => (x \in handling'[y] <=> x \in handling[y])
    /\ Status(x, y) = "adopt" => reply'[x] = reply[x]

\* What nothing has changed of is as it was.
LEMMA SamePairKeepsInv ==
  ASSUME TypeOK, CallInv, NEW x \in Nodes, NEW y \in Nodes, PairInv(x, y), SamePair(x, y),
         UNCHANGED <<ownId, scenario>>
  PROVE  PairInv(x, y)'
<1>1. /\ Cq(x, y)' = Cq(x, y) /\ Sq(x, y)' = Sq(x, y)
      /\ Cq(y, x)' = Cq(y, x) /\ Sq(y, x)' = Sq(y, x)
  BY DEF Cq, Sq
<1>2. sockets[x] \subseteq Servers
  BY DEF TypeOK
<1>3. Status(x, y) # "apart" => y \in Servers
  BY <1>2 DEF CallInv, NodeInv, Status
<1>4. PhaseInv(x, y)'
  BY <1>1, <1>2, <1>3 DEF PairInv, SamePair, PhaseInv
<1>5. FlagInv(x, y)'
  BY <1>1, <1>3 DEF PairInv, SamePair, FlagInv, Claimed
<1>6. RecordInv(x, y)'
  BY <1>1 DEF PairInv, SamePair, RecordInv, Kept, Made
<1> QED
  BY <1>4, <1>5, <1>6 DEF PairInv

\* An action changes what is said of one pair only.
LEMMA OtherPairs ==
  ASSUME TypeOK, CallInv, PairsInv, UNCHANGED <<ownId, scenario>>,
         NEW n \in Nodes, NEW m \in Nodes,
         \A x, y \in Nodes :
            Registered(x) /\ Registered(y) /\ x # y /\ {x, y} # {n, m} => SamePair(x, y),
         n # m => PairInv(n, m)' /\ PairInv(m, n)'
  PROVE  PairsInv'
<1> SUFFICES ASSUME NEW x \in Nodes, NEW y \in Nodes, x # y, Registered(x)', Registered(y)'
             PROVE  PairInv(x, y)'
  BY DEF PairsInv
<1>1. Registered(x) /\ Registered(y)
  BY DEF Registered
<1>2. PairInv(x, y)
  BY <1>1 DEF PairsInv
<1>3. CASE {x, y} = {n, m}
  <2>1. (x = n /\ y = m) \/ (x = m /\ y = n)
    BY <1>3
  <2>2. CASE x = n /\ y = m
    BY <2>2
  <2>3. CASE x = m /\ y = n
    BY <2>3
  <2> QED
    BY <2>1, <2>2, <2>3
<1>4. CASE {x, y} # {n, m}
  <2>1. SamePair(x, y)
    BY <1>1, <1>4
  <2> QED
    BY <1>2, <2>1, SamePairKeepsInv
<1> QED
  BY <1>3, <1>4

\* Queue pairs that are ready to send stay as they are.
RtsStays == \A q \in QPs : qp[q].state = "rts" => qp'[q] = qp[q]

\* What is said of a node that has not moved.
LEMMA NodeFrame ==
  ASSUME NEW x \in Nodes, NodeInv(x), pc'[x] = pc[x], results'[x] = results[x],
         sockets'[x] = sockets[x], connections'[x] = connections[x],
         UNCHANGED <<ownId, scenario>>
  PROVE  NodeInv(x)'
BY DEF NodeInv, HasCall, Call, Registered, TargetId

\* A step of the thread of n in connect().
LEMMA CallerKeepsCalls ==
  ASSUME TypeOK, SequencerInv, CallInv, NEW n \in Nodes, NEW label, pc[n] # "wait",
         Moves(n, Call(n), label), NodeInv(n)',
         UNCHANGED <<scenario, sequencerVars, ownId, handling>>,
         \A x \in Nodes \ {n} : /\ pc'[x] = pc[x] /\ results'[x] = results[x]
                                /\ sockets'[x] = sockets[x] /\ connections'[x] = connections[x]
  PROVE  SequencerInv' /\ CallInv'
<1>1. SequencerInv'
  BY DEF SequencerInv, sequencerVars, Registered
<1>2. ASSUME NEW x \in Nodes PROVE NodeInv(x)'
  <2>1. CASE x = n
    BY <2>1
  <2>2. CASE x # n
    BY <2>2, NodeFrame DEF CallInv
  <2> QED
    BY <2>1, <2>2
<1>3. ASSUME NEW s \in Servers, NEW x \in handling[s] PROVE Status(x, s)' = "wait" /\ handling[s] = {x}
  <2>1. Status(x, s) = "wait" /\ handling[s] = {x} /\ x \in Nodes /\ s \in Nodes
    BY NodesAssumption DEF CallInv, TypeOK
  <2>2. x # n
    BY <2>1 DEF Status
  <2> QED
    BY <2>1, <2>2 DEF Moves
<1> QED
  BY <1>1, <1>2, <1>3 DEF CallInv

\* A call returns: its result is appended.
LEMMA GotoTypes ==
  ASSUME TypeOK, NEW n \in Nodes, NEW label \in Labels, Goto(n, label)
  PROVE  /\ pc' \in [Nodes -> Labels] /\ pc'[n] = label
         /\ \A x \in Nodes \ {n} : pc'[x] = pc[x]
BY DEF TypeOK, Goto, Labels

\* The results of the calls before stay.
LEMMA ReturnsAppends ==
  ASSUME TypeOK, NEW n \in Nodes, HasCall(n), NEW ok \in BOOLEAN, NEW id \in Ids,
         Returns(n, ok, id)
  PROVE  /\ pc' \in [Nodes -> Labels] /\ pc'[n] = "idle" /\ Goto(n, "idle")
         /\ \A x \in Nodes \ {n} : pc'[x] = pc[x] /\ results'[x] = results[x]
         /\ results' \in [Nodes -> Seq(Result)]
         /\ Len(results[n]) \in Nat /\ Len(results'[n]) = Len(results[n]) + 1
         /\ \A k \in 1 .. Len(results[n]) : results'[n][k] = results[n][k]
         /\ LET r == results'[n][Len(results[n]) + 1]
            IN  r.call = Call(n) /\ (r.ok <=> ok) /\ r.id = id
<1> DEFINE r == [call |-> Call(n), ok |-> ok, id |-> id]
<1>1. r \in Result
  BY CallIsPlanned DEF Result
<1>2. results \in [Nodes -> Seq(Result)]
  BY DEF TypeOK, Result
<1>3. Goto(n, "idle") /\ results' = [results EXCEPT ![n] = Append(@, r)]
  BY DEF Returns
<1>4. r.call = Call(n) /\ r.ok = ok /\ r.id = id
  OBVIOUS
<1> HIDE DEF r
<1>5. results[n] \in Seq(Result) /\ results'[n] = Append(results[n], r)
  BY <1>2, <1>3
<1>6. /\ results'[n] \in Seq(Result)
      /\ Len(results[n]) \in Nat /\ Len(results'[n]) = Len(results[n]) + 1
      /\ \A k \in 1 .. Len(results[n]) : results'[n][k] = results[n][k]
      /\ results'[n][Len(results[n]) + 1] = r
  BY <1>1, <1>5
<1>7. results' \in [Nodes -> Seq(Result)] /\ \A x \in Nodes \ {n} : results'[x] = results[x]
  BY <1>2, <1>3, <1>6
<1> QED
  BY <1>3, <1>4, <1>6, <1>7, GotoTypes DEF Labels

\* What a client has been told stays true.
LEMMA ResultsStay ==
  ASSUME TypeOK, SequencerInv, NEW x \in Nodes \ Servers, ResultsTrue(x), RtsStays,
         UNCHANGED ownId, results'[x] = results[x], sockets'[x] \subseteq sockets[x],
         \A s \in Servers : Status(x, s)' = "apart" => Status(x, s) = "apart"
  PROVE  ResultsTrue(x)'
<1>1. ASSUME NEW s \in Servers, TrueOf(x, s) PROVE TrueOf(x, s)'
  <2>1. Registered(s) /\ Cq(x, s) \in QPs /\ Cq(x, s)' = Cq(x, s) /\ s \in Nodes
    BY <1>1, QPsDiffer, NodesAssumption DEF TrueOf, Cq
  <2> QED
    BY <1>1, <2>1 DEF TrueOf, RtsStays, Registered
<1>2. sockets[x] \subseteq Servers
  BY DEF TypeOK
<1> QED
  BY <1>1, <1>2 DEF ResultsTrue

\* What it is told when a call returns is true.
LEMMA ResultsReturn ==
  ASSUME TypeOK, SequencerInv, NEW n \in Nodes \ Servers, ResultsTrue(n), RtsStays,
         UNCHANGED ownId, HasCall(n), NEW ok \in BOOLEAN, NEW id \in Ids, Returns(n, ok, id),
         sockets'[n] = sockets[n],
         NEW m \in Servers \cup {Start}, Call(n) = m,
         AllOk(results[n], Len(results[n])) /\ ok =>
            m \in Servers /\ TrueOf(n, m)' /\ ownId[m] = id
  PROVE  ResultsTrue(n)'
<1> DEFINE L == Len(results[n])
           r == results[n]
           new == results'[n]
           TrueNow(c) == ownId'[c] # NoId /\ qp'[<<n, ownId'[c], "client">>].state = "rts"
<1>1. /\ L \in Nat /\ Len(new) = L + 1
      /\ \A k \in 1 .. L : new[k] = r[k]
      /\ new[L + 1].call = m
      /\ new[L + 1].ok <=> ok
      /\ new[L + 1].id = id
  BY ReturnsAppends
<1>2. DOMAIN new = 1 .. L + 1 /\ DOMAIN r = 1 .. L
  BY <1>1, TypeParts, ReturnsAppends
<1>3. ASSUME NEW s \in Servers, TrueOf(n, s) PROVE TrueNow(s)
  <2>1. Registered(s) /\ Cq(n, s) \in QPs /\ Cq(n, s)' = Cq(n, s) /\ s \in Nodes
    BY <1>3, QPsDiffer, NodesAssumption DEF TrueOf, Cq
  <2> QED
    BY <1>3, <2>1 DEF TrueOf, RtsStays, Registered, Cq
<1>4. sockets[n] \subseteq Servers
  BY DEF TypeOK
<1>9. /\ \A k \in DOMAIN r : AllOk(r, k) =>
            r[k].call \in Servers /\ TrueOf(n, r[k].call) /\ ownId[r[k].call] = r[k].id
      /\ AllOk(r, L) => \A s \in sockets[n] : Status(n, s) = "apart" => TrueOf(n, s)
      /\ AllOk(r, L) /\ ok => m \in Servers /\ TrueNow(m) /\ ownId[m] = id
  BY DEF ResultsTrue, TrueOf, Registered, Cq
<1>10. \A s \in sockets'[n] \ {m} : Status(n, s) = "apart" /\ s \in sockets[n]
  BY DEF Status
<1>11. ResultsTrue(n)' <=>
        /\ \A k \in DOMAIN new : AllOk(new, k) =>
              new[k].call \in Servers /\ TrueNow(new[k].call) /\ ownId[new[k].call] = new[k].id
        /\ AllOk(new, Len(new)) =>
              \A s \in sockets'[n] : Status(n, s)' = "apart" => TrueNow(s)
  BY DEF ResultsTrue, TrueOf, Cq, Registered
<1> HIDE DEF L, r, new, TrueNow
<1>5. \A k \in 1 .. L : AllOk(new, k) <=> AllOk(r, k)
  BY <1>1 DEF AllOk
<1>6. AllOk(new, L + 1) => AllOk(r, L) /\ ok
  BY <1>1 DEF AllOk
<1>7. ASSUME NEW k \in DOMAIN new, AllOk(new, k), NEW c, c = new[k].call
      PROVE  c \in Servers /\ TrueNow(c) /\ ownId[c] = new[k].id
  <2>1. CASE k \in 1 .. L
    BY <1>1, <1>2, <1>3, <1>5, <1>7, <1>9, <2>1
  <2>2. CASE k = L + 1
    BY <1>1, <1>6, <1>7, <1>9, <2>2
  <2> QED
    BY <1>1, <1>2, <2>1, <2>2
<1>8. ASSUME AllOk(new, L + 1), NEW s \in sockets'[n] PROVE TrueNow(s)
  BY <1>3, <1>4, <1>6, <1>8, <1>9, <1>10
<1> QED
  BY <1>1, <1>7, <1>8, <1>11

\* What is ready to send is recorded, and stays so.
Stable ==
    \A n \in Nodes, i \in Ids :
        Ready(qps[n][i]) => qps'[n][i] = qps[n][i] /\ qp'[qps[n][i]] = qp[qps[n][i]]

\* It suffices that what is ready to send and its records stay.
LEMMA StaysStable ==
  ASSUME IInv, RtsStays,
         \A x, y \in Nodes :
            /\ x # y /\ Registered(x) /\ Registered(y)
            /\ qp[Sq(x, y)].state = "rts" \/ qp[Cq(x, y)].state = "rts"
            => qps'[x][ownId[y]] = qps[x][ownId[y]]
  PROVE  Stable
<1> SUFFICES ASSUME NEW n \in Nodes, NEW i \in Ids, Ready(qps[n][i])
             PROVE  qps'[n][i] = qps[n][i] /\ qp'[qps[n][i]] = qp[qps[n][i]]
  BY DEF Stable
<1>1. qps[n][i] \in QPs /\ qps[n][i] # NoQp /\ qp[qps[n][i]].state = "rts"
  BY DEF IInv, TypeOK, Ready
<1>2. Peers(n, i)
  BY <1>1 DEF IInv, UsedInv
<1>3. PICK m \in Nodes \ {n} : Registered(n) /\ ownId[m] = i
  BY <1>2 DEF Peers
<1>4. Registered(m)
  BY <1>3 DEF Registered, Ids, NoId
<1>5. RecordInv(n, m)
  BY <1>3, <1>4 DEF IInv, PairsInv, PairInv
<1>6. qps[n][i] = Sq(n, m) \/ qps[n][i] = Cq(n, m)
  BY <1>1, <1>3, <1>5 DEF RecordInv, Made
<1> QED
  BY <1>1, <1>3, <1>4, <1>6 DEF RtsStays

\* An action changes what a keeps for b, and how far they have come, and nothing else.
Touches(a, b) ==
    /\ \A x \in Nodes, i \in Ids : ~(x = a /\ i = ownId[b]) =>
          /\ i \in flagged'[x] <=> i \in flagged[x]
          /\ i \in connected'[x] <=> i \in connected[x]
          /\ qps'[x][i] = qps[x][i]
    /\ \A q \in QPs \ {Cq(a, b), Sq(a, b)} : qp'[q] = qp[q]
    /\ \A x, y \in Nodes : {x, y} # {a, b} =>
          /\ Status(x, y)' = Status(x, y)
          /\ y \in sockets[x] => y \in sockets'[x]
          /\ y \in Servers => connections'[x][y] = connections[x][y]
          /\ y \in Servers => (x \in handling'[y] <=> x \in handling[y])
          /\ Status(x, y) = "adopt" => reply'[x] = reply[x]

\* So the rest of the invariant holds when it holds of this pair.
LEMMA TouchesOnePair ==
  ASSUME IInv, NEW a \in Nodes, NEW b \in Nodes, a # b, Registered(a), Registered(b),
         Touches(a, b), UNCHANGED <<ownId, scenario>>, PairInv(a, b)', PairInv(b, a)', RtsStays,
         qp[Sq(a, b)].state = "rts" \/ qp[Cq(a, b)].state = "rts" =>
            qps'[a][ownId[b]] = qps[a][ownId[b]]
  PROVE  UsedInv' /\ PairsInv' /\ Stable
<1>1. /\ ownId[a] \in Ids /\ ownId[b] \in Ids
      /\ \A x \in Nodes : (ownId[x] = ownId[b] <=> x = b) /\ (ownId[x] = ownId[a] <=> x = a)
  BY IdsDiffer DEF IInv
<1>2. ASSUME NEW x \in Nodes, NEW y \in Nodes, Registered(x), Registered(y), x # y, {x, y} # {a, b}
      PROVE  SamePair(x, y)
  <2>1. ownId[x] \in Ids /\ ownId[y] \in Ids
    BY <1>2, IdsDiffer DEF IInv
  <2>2. ~(x = a /\ ownId[y] = ownId[b]) /\ ~(y = a /\ ownId[x] = ownId[b])
    BY <1>1, <1>2
  <2>3. {Cq(x, y), Sq(x, y), Sq(y, x)} \subseteq QPs \ {Cq(a, b), Sq(a, b)}
    BY <1>2, <2>2, QPsDiffer DEF IInv
  <2>4. /\ qp'[Cq(x, y)] = qp[Cq(x, y)]
        /\ qp'[Sq(x, y)] = qp[Sq(x, y)] /\ qp'[Sq(y, x)] = qp[Sq(y, x)]
    BY <2>3 DEF Touches
  <2>5. /\ ownId[y] \in flagged'[x] <=> ownId[y] \in flagged[x]
        /\ ownId[x] \in flagged'[y] <=> ownId[x] \in flagged[y]
        /\ qps'[x][ownId[y]] = qps[x][ownId[y]]
        /\ ownId[y] \in connected'[x] <=> ownId[y] \in connected[x]
    BY <2>1, <2>2 DEF Touches
  <2> QED
    BY <1>2, <2>4, <2>5 DEF Touches, SamePair
<1>3. PairsInv'
  BY <1>2, OtherPairs DEF IInv
<1>4. UsedInv'
  <2> SUFFICES ASSUME NEW x \in Nodes, NEW i \in Ids, ~Peers(x, i)
               PROVE  /\ qp'[<<x, i, "client">>].state = "none"
                      /\ qp'[<<x, i, "server">>].state = "none"
                      /\ qps'[x][i] = NoQp /\ i \notin flagged'[x] /\ i \notin connected'[x]
    BY DEF UsedInv, Peers, Registered, Ids
  <2>1. ~(x = a /\ i = ownId[b])
    BY DEF Peers
  <2>2. {<<x, i, "client">>, <<x, i, "server">>} \subseteq QPs \ {Cq(a, b), Sq(a, b)}
    BY <2>1 DEF QPs, Cq, Sq
  <2> QED
    BY <2>1, <2>2 DEF Touches, IInv, UsedInv
<1>5. \A x, y \in Nodes :
            /\ x # y /\ Registered(x) /\ Registered(y)
            /\ qp[Sq(x, y)].state = "rts" \/ qp[Cq(x, y)].state = "rts"
            => qps'[x][ownId[y]] = qps[x][ownId[y]]
  <2> SUFFICES ASSUME NEW x \in Nodes, NEW y \in Nodes, x # y, Registered(x), Registered(y),
                      ~(x = a /\ y = b)
               PROVE  qps'[x][ownId[y]] = qps[x][ownId[y]]
    OBVIOUS
  <2> QED
    BY <1>1, IdsDiffer DEF Touches, IInv
<1> QED
  BY <1>3, <1>4, <1>5, StaysStable

-----------------------------------------------------------------------------
\* Where a node in connect() is.
LEMMA InConnectIsKnown ==
  ASSUME IInv, NEW n \in Nodes, pc[n] \in InConnect
  PROVE  /\ HasCall(n) /\ Registered(n)
         /\ Call(n) \in Servers \ {n} /\ Call(n) \in Nodes /\ Call(n) \in sockets[n]
         /\ Status(n, Call(n)) = pc[n]
         /\ pc[n] # "lookup" =>
               /\ Registered(Call(n)) /\ TargetId(n) = ownId[Call(n)]
               /\ ClientQp(n) = Cq(n, Call(n))
               /\ PairInv(n, Call(n)) /\ PairInv(Call(n), n)
               /\ Cq(n, Call(n)) \in QPs
<1>1. NodeInv(n) /\ sockets[n] \subseteq Servers
  BY DEF IInv, CallInv, TypeOK
<1>2. /\ HasCall(n) /\ Registered(n)
      /\ Call(n) \in Servers \ {n} /\ Call(n) \in Nodes /\ Call(n) \in sockets[n]
      /\ Status(n, Call(n)) = pc[n]
  BY <1>1, NodesAssumption DEF NodeInv, Status
<1>3. ASSUME pc[n] # "lookup"
      PROVE  /\ Registered(Call(n)) /\ TargetId(n) = ownId[Call(n)]
             /\ ClientQp(n) = Cq(n, Call(n))
             /\ PairInv(n, Call(n)) /\ PairInv(Call(n), n)
             /\ Cq(n, Call(n)) \in QPs
  <2>1. Registered(Call(n)) /\ TargetId(n) = ownId[Call(n)]
    BY <1>1, <1>3 DEF NodeInv
  <2>2. Cq(n, Call(n)) \in QPs
    BY <1>2, <2>1, QPsDiffer DEF IInv
  <2> QED
    BY <1>2, <2>1, <2>2 DEF IInv, PairsInv, ClientQp, Cq
<1> QED
  BY <1>2, <1>3

\* Starting a call, looking up a server and giving up change no queue pair.
LEMMA CallsKeepPairs ==
  ASSUME IInv, NEW n \in Nodes, NEW m \in Nodes,
         UNCHANGED <<ownId, scenario, flagged, qp, qps, connected, handling, reply>>,
         \A x, y \in Nodes : ~(x = n /\ y = m) =>
            /\ Status(x, y)' = Status(x, y)
            /\ y \in sockets[x] => y \in sockets'[x]
            /\ y \in Servers => connections'[x][y] = connections[x][y],
         Status(n, m) \notin {"request", "wait"}, Status(n, m)' \notin {"request", "wait"},
         n # m /\ Registered(n) /\ Registered(m) => PhaseInv(n, m)'
  PROVE  UsedInv' /\ PairsInv' /\ RtsStays /\ Stable
<1>1. RtsStays
  BY DEF RtsStays
<1>2. UsedInv'
  BY DEF IInv, UsedInv, Peers, Registered
<1>3. \A x, y \in Nodes : ~(x = n /\ y = m) => SamePair(x, y)
  BY DEF SamePair
<1>4. ASSUME n # m, Registered(n), Registered(m) PROVE PairInv(n, m)' /\ PairInv(m, n)'
  <2>1. PairInv(n, m) /\ PairInv(m, n)
    BY <1>4 DEF IInv, PairsInv
  <2>2. FlagInv(n, m)' /\ RecordInv(n, m)'
    BY <2>1 DEF PairInv, FlagInv, RecordInv, Claimed, Kept, Made, Cq, Sq
  <2>3. PairInv(m, n)'
    BY <1>3, <1>4, <2>1, SamePairKeepsInv DEF IInv
  <2> QED
    BY <1>4, <2>2, <2>3 DEF PairInv
<1>5. PairsInv'
  <2> SUFFICES ASSUME NEW x \in Nodes, NEW y \in Nodes, x # y, Registered(x), Registered(y)
               PROVE  PairInv(x, y)'
    BY DEF PairsInv, Registered
  <2>1. CASE x = n /\ y = m
    BY <1>4, <2>1
  <2>2. CASE ~(x = n /\ y = m)
    BY <1>3, <2>2, SamePairKeepsInv DEF IInv, PairsInv
  <2> QED
    BY <2>1, <2>2
<1> QED
  BY <1>1, <1>2, <1>5, StaysStable

\* What other clients have been told stays true.
LEMMA ResultsOfOthers ==
  ASSUME IInv, NEW n \in Nodes, NEW m, NEW label, RtsStays, UNCHANGED <<ownId, scenario>>,
         Moves(n, m, label),
         \A x \in Nodes \ {n} : results'[x] = results[x] /\ sockets'[x] = sockets[x],
         n \notin Servers /\ scenario.mayFail = {} => ResultsTrue(n)'
  PROVE  ResultInv'
<1> SUFFICES ASSUME scenario.mayFail = {}, NEW x \in Nodes \ Servers PROVE ResultsTrue(x)'
  BY DEF ResultInv
<1>1. CASE x = n
  BY <1>1
<1>2. CASE x # n
  <2>1. \A s \in Servers : Status(x, s)' = Status(x, s)
    BY <1>2, NodesAssumption DEF Moves
  <2> QED
    BY <1>2, <2>1, ResultsStay DEF IInv, ResultInv
<1> QED
  BY <1>1, <1>2

\* Nothing that has been told changes while a call goes on.
LEMMA ResultsOfNobody ==
  ASSUME IInv, NEW n \in Nodes, NEW m, NEW label, RtsStays,
         UNCHANGED <<ownId, scenario, results, sockets>>, Moves(n, m, label), label # "apart"
  PROVE  ResultInv'
<1> SUFFICES ASSUME scenario.mayFail = {}, NEW x \in Nodes \ Servers PROVE ResultsTrue(x)'
  BY DEF ResultInv
<1>1. \A s \in Servers : Status(x, s)' = "apart" => Status(x, s) = "apart"
  BY NodesAssumption DEF Moves
<1> QED
  BY <1>1, ResultsStay DEF IInv, ResultInv

\* startServer() is a server's.
LEMMA StartServerKeepsInv ==
  ASSUME IInv, NEW n \in Nodes, StartServer(n), UNCHANGED scenario
  PROVE  IInv' /\ Stable
<1>1. HasCall(n) /\ pc[n] = "idle" /\ Registered(n) /\ Call(n) = Start /\ Start \notin Nodes
  BY NodesAssumption DEF StartServer, Registered
<1>2. /\ UNCHANGED <<ownId, scenario, sequencerVars, sockets, connections, reply, flagged, handling,
                     qp, qps, connected>>
      /\ serving' = [serving EXCEPT ![n] = TRUE] /\ Returns(n, TRUE, 0)
  BY DEF StartServer, qpVars
<1>3. n \in Servers
  <2>1. Len(results[n]) + 1 \in DOMAIN scenario.plan[n]
    BY <1>1, TypeParts DEF IInv, HasCall
  <2> QED
    BY <1>1, <2>1, ScenariosAssumption DEF IInv, TypeOK, Call
<1>4. 0 \in Ids
  BY ZeroIsId
<1>5. /\ pc' \in [Nodes -> Labels] /\ pc'[n] = "idle" /\ results' \in [Nodes -> Seq(Result)]
      /\ \A x \in Nodes \ {n} : pc'[x] = pc[x] /\ results'[x] = results[x]
      /\ Goto(n, "idle")
  BY <1>1, <1>2, <1>4, ReturnsAppends DEF IInv
<1>6. Moves(n, Start, "apart")
  BY <1>1, <1>2, <1>5, EndMoves DEF IInv
<1>7. TypeOK'
  BY <1>2, <1>5 DEF IInv, TypeOK, sequencerVars, Labels, Result
<1>8. NodeInv(n)'
  BY <1>5 DEF NodeInv, InConnect
<1>9. SequencerInv' /\ CallInv'
  BY <1>1, <1>2, <1>5, <1>6, <1>8, CallerKeepsCalls DEF IInv
<1>10. /\ \A x, y \in Nodes : Status(x, y)' = Status(x, y)
       /\ Status(n, n) = "apart"
  BY <1>1, <1>6 DEF Moves, Status, InConnect
<1>11. UsedInv' /\ PairsInv' /\ RtsStays /\ Stable
  BY <1>2, <1>10, CallsKeepPairs
<1>12. ResultInv'
  BY <1>2, <1>3, <1>5, <1>6, <1>11, ResultsOfOthers
<1> QED
  BY <1>7, <1>9, <1>11, <1>12 DEF IInv

\* connect() to a server that has been connected to returns what it returned before.
LEMMA ConnectAgainKeepsInv ==
  ASSUME IInv, NEW n \in Nodes, ConnectAgain(n), UNCHANGED scenario
  PROVE  IInv' /\ Stable
<1>1. PICK m \in Servers : m = Call(n) /\ m \in sockets[n]
  BY DEF ConnectAgain, IInv, TypeOK
<1>2. HasCall(n) /\ pc[n] = "idle" /\ Registered(n) /\ m # n
  BY <1>1, CallIsPlanned DEF ConnectAgain, Registered, IInv
<1>3. /\ UNCHANGED <<ownId, scenario, sequencerVars, sockets, connections, reply, flagged, handling,
                     serving, qp, qps, connected>>
      /\ TargetId(n) = connections[n][m] /\ Returns(n, TRUE, TargetId(n))
  BY <1>1 DEF ConnectAgain, qpVars, serverVars, TargetId
<1>4. TargetId(n) \in Ids
  BY <1>3 DEF IInv, TypeOK
<1>5. /\ pc' \in [Nodes -> Labels] /\ pc'[n] = "idle" /\ results' \in [Nodes -> Seq(Result)]
      /\ \A x \in Nodes \ {n} : pc'[x] = pc[x] /\ results'[x] = results[x]
      /\ Goto(n, "idle")
  BY <1>2, <1>3, <1>4, ReturnsAppends DEF IInv
<1>6. Moves(n, m, "apart") /\ m \in Nodes
  BY <1>1, <1>2, <1>3, <1>5, NodesAssumption, EndMoves DEF IInv
<1>7. TypeOK'
  BY <1>3, <1>5 DEF IInv, TypeOK, sequencerVars, Labels, Result
<1>8. NodeInv(n)'
  BY <1>5 DEF NodeInv, InConnect
<1>9. SequencerInv' /\ CallInv'
  BY <1>1, <1>2, <1>3, <1>5, <1>6, <1>8, CallerKeepsCalls DEF IInv
<1>10. /\ \A x, y \in Nodes : Status(x, y)' = Status(x, y)
       /\ Status(n, n) = "apart" /\ Status(n, m) = "apart"
  BY <1>2, <1>6 DEF Moves, Status, InConnect
<1>11. UsedInv' /\ PairsInv' /\ RtsStays /\ Stable
  BY <1>3, <1>10, CallsKeepPairs
<1>12. ASSUME n \notin Servers, scenario.mayFail = {} PROVE ResultsTrue(n)'
  \* What it returned before is still so.
  <2>1. ResultsTrue(n)
    BY <1>12 DEF IInv, ResultInv
  <2>2. ASSUME AllOk(results[n], Len(results[n])) PROVE TrueOf(n, m)' /\ ownId[m] = TargetId(n)
    <3>1. TrueOf(n, m)
      BY <1>1, <1>10, <2>1, <2>2 DEF ResultsTrue
    <3>2. PhaseInv(n, m)
      BY <1>2, <1>6, <3>1 DEF IInv, PairsInv, PairInv, TrueOf
    <3>3. connections[n][m] = ownId[m]
      BY <3>1, <3>2 DEF PhaseInv, TrueOf
    <3> QED
      BY <1>3, <3>1, <3>3 DEF TrueOf, Registered, Cq
  <2> QED
    BY <1>1, <1>2, <1>3, <1>4, <1>11, <1>12, <2>1, <2>2, ResultsReturn DEF IInv
<1>13. ResultInv'
  BY <1>3, <1>5, <1>6, <1>11, <1>12, ResultsOfOthers
<1> QED
  BY <1>7, <1>9, <1>11, <1>13 DEF IInv

\* The server has not registered: connect() fails, and nothing has been made.
LEMMA GiveUpKeepsInv ==
  ASSUME IInv, NEW n \in Nodes, GiveUp(n), UNCHANGED scenario
  PROVE  IInv' /\ Stable
<1>0. pc[n] = "lookup" /\ pc[n] \in InConnect
  BY DEF GiveUp, InConnect
<1>1. PICK m \in Servers \ {n} : m = Call(n) /\ m \in Nodes
  BY <1>0, InConnectIsKnown
<1>2. HasCall(n) /\ Status(n, m) = "lookup"
  BY <1>0, <1>1, InConnectIsKnown
<1>3. /\ UNCHANGED <<ownId, scenario, sequencerVars, sockets, connections, reply, flagged, handling,
                     serving, qp, qps, connected>>
      /\ ~Registered(m) /\ Returns(n, FALSE, 0)
  BY <1>1 DEF GiveUp, qpVars, serverVars, IInv, SequencerInv, Registered
<1>4. 0 \in Ids
  BY ZeroIsId
<1>5. /\ pc' \in [Nodes -> Labels] /\ pc'[n] = "idle" /\ results' \in [Nodes -> Seq(Result)]
      /\ \A x \in Nodes \ {n} : pc'[x] = pc[x] /\ results'[x] = results[x]
      /\ Goto(n, "idle")
  BY <1>2, <1>3, <1>4, ReturnsAppends DEF IInv
<1>6. Moves(n, m, "apart")
  BY <1>0, <1>1, <1>3, <1>5, EndMoves DEF IInv
<1>7. TypeOK'
  BY <1>3, <1>5 DEF IInv, TypeOK, sequencerVars, Labels, Result
<1>8. NodeInv(n)'
  BY <1>5 DEF NodeInv, InConnect
<1>9. SequencerInv' /\ CallInv'
  BY <1>0, <1>1, <1>3, <1>5, <1>6, <1>8, CallerKeepsCalls DEF IInv
<1>10. /\ \A x, y \in Nodes : ~(x = n /\ y = m) => Status(x, y)' = Status(x, y)
       /\ Status(n, m)' = "apart"
  BY <1>1, <1>6 DEF Moves
<1>11. UsedInv' /\ PairsInv' /\ RtsStays /\ Stable
  BY <1>1, <1>2, <1>3, <1>10, CallsKeepPairs
<1>12. ASSUME n \notin Servers, scenario.mayFail = {} PROVE ResultsTrue(n)'
  BY <1>1, <1>2, <1>3, <1>4, <1>11, <1>12, ResultsReturn DEF IInv, ResultInv
<1>13. ResultInv'
  BY <1>3, <1>5, <1>6, <1>11, <1>12, ResultsOfOthers
<1> QED
  BY <1>7, <1>9, <1>11, <1>13 DEF IInv

\* connect() begins with the socket.
LEMMA ConnectKeepsInv ==
  ASSUME IInv, NEW n \in Nodes, Connect(n), UNCHANGED scenario
  PROVE  IInv' /\ Stable
<1>1. PICK m \in Servers : m = Call(n) /\ m \notin sockets[n]
  BY DEF Connect
<1>2. HasCall(n) /\ pc[n] = "idle" /\ Registered(n) /\ m # n /\ m \in Nodes
  BY <1>1, CallIsPlanned, NodesAssumption DEF Connect, Registered, IInv
<1>3. /\ UNCHANGED <<ownId, scenario, sequencerVars, results, connections, reply, flagged, handling,
                     serving, qp, qps, connected>>
      /\ sockets' = [sockets EXCEPT ![n] = @ \cup {m}]
      /\ Goto(n, "lookup")
  BY <1>1 DEF Connect, qpVars, serverVars
<1>4. /\ pc' \in [Nodes -> Labels] /\ pc'[n] = "lookup"
      /\ \A x \in Nodes \ {n} : pc'[x] = pc[x]
  BY <1>3, GotoTypes DEF IInv, Labels
<1>5. Moves(n, m, "lookup")
  BY <1>1, <1>2, <1>3, StartMoves DEF IInv, InConnect
<1>6. /\ m \in sockets'[n] /\ \A x \in Nodes \ {n} : sockets'[x] = sockets[x]
      /\ sockets' \in [Nodes -> SUBSET Servers]
      /\ \A y \in Nodes \ {m} : y \in sockets'[n] <=> y \in sockets[n]
  BY <1>3 DEF IInv, TypeOK
<1>7. TypeOK'
  BY <1>3, <1>4, <1>6 DEF IInv, TypeOK, sequencerVars, Labels
<1>8. NodeInv(n)'
  <2>1. HasCall(n)' /\ Call(n)' = m /\ Registered(n)'
    BY <1>1, <1>2, <1>3 DEF HasCall, Call, Registered
  <2> QED
    BY <1>2, <1>4, <1>6, <2>1 DEF NodeInv, InConnect
<1>9. SequencerInv' /\ CallInv'
  BY <1>1, <1>2, <1>3, <1>4, <1>5, <1>6, <1>8, CallerKeepsCalls DEF IInv
<1>10. /\ \A x, y \in Nodes : ~(x = n /\ y = m) => Status(x, y)' = Status(x, y)
       /\ Status(n, m)' = "lookup" /\ Status(n, m) = "apart"
  BY <1>2, <1>5 DEF Moves, Status, InConnect
<1>11. ASSUME Registered(n), Registered(m) PROVE PhaseInv(n, m)'
  \* There has been no connect() to m before.
  <2>1. PhaseInv(n, m)
    BY <1>2, <1>11 DEF IInv, PairsInv, PairInv
  <2>2. qp[Cq(n, m)].state = "none" /\ qp[Sq(m, n)].state = "none"
    BY <1>1, <2>1 DEF PhaseInv
  <2>3. qp'[Cq(n, m)'].state = "none" /\ qp'[Sq(m, n)'].state = "none"
    BY <1>3, <2>2 DEF Cq, Sq
  <2> QED
    BY <1>10, <2>3 DEF PhaseInv
<1>12. UsedInv' /\ PairsInv' /\ RtsStays /\ Stable
  BY <1>2, <1>3, <1>6, <1>10, <1>11, CallsKeepPairs
<1>13. ASSUME n \notin Servers, scenario.mayFail = {} PROVE ResultsTrue(n)'
  <2>1. ResultsTrue(n)
    BY <1>13 DEF IInv, ResultInv
  <2>2. \A s \in sockets'[n] : s \in Nodes /\ (Status(n, s)' = "apart" => s \in sockets[n] /\ Status(n, s) = "apart")
    BY <1>6, <1>10, NodesAssumption
  <2>3. \A s : TrueOf(n, s)' <=> TrueOf(n, s)
    BY <1>3 DEF TrueOf, Cq, Registered
  <2> QED
    BY <1>3, <2>1, <2>2, <2>3 DEF ResultsTrue
<1>14. ResultInv'
  BY <1>3, <1>5, <1>6, <1>12, <1>13, ResultsOfOthers
<1> QED
  BY <1>7, <1>9, <1>12, <1>14 DEF IInv

\* The entry that the sequencer finds is the server's, so nobody throws here.
LEMMA LookUpKeepsInv ==
  ASSUME IInv, NEW n \in Nodes, LookUp(n), UNCHANGED scenario
  PROVE  IInv' /\ Stable
<1>0. pc[n] = "lookup" /\ pc[n] \in InConnect
  BY DEF LookUp, InConnect
<1>1. PICK m \in Servers \ {n} : m = Call(n) /\ m \in Nodes
  BY <1>0, InConnectIsKnown
<1>2. HasCall(n) /\ Registered(n) /\ Status(n, m) = "lookup" /\ m \in sockets[n]
  BY <1>0, <1>1, InConnectIsKnown
<1>3. /\ Registered(m) /\ idOf[m] = ownId[m] /\ ownId[m] \in Ids
      /\ GetNodeIDForIpPortRequest(m) = m
  <2>1. Registered(m) /\ idOf[m] = ownId[m]
    BY <1>1 DEF LookUp, IInv, SequencerInv, Registered
  <2> QED
    BY <1>1, <2>1, IdsDiffer DEF IInv, SequencerInv, GetNodeIDForIpPortRequest
<1>4. /\ UNCHANGED <<ownId, scenario, sequencerVars, results, sockets, reply, flagged, handling,
                     serving, qp, qps, connected>>
      /\ connections' = [connections EXCEPT ![n][m] = ownId[m]]
      /\ Goto(n, "claim")
  BY <1>1, <1>3 DEF LookUp, qpVars, serverVars
<1>5. /\ pc' \in [Nodes -> Labels] /\ pc'[n] = "claim"
      /\ \A x \in Nodes \ {n} : pc'[x] = pc[x]
  BY <1>4, GotoTypes DEF IInv, Labels
<1>6. Moves(n, m, "claim")
  BY <1>0, <1>1, <1>4, GotoMoves DEF IInv, InConnect
<1>7. /\ connections'[n][m] = ownId[m] /\ \A x \in Nodes \ {n} : connections'[x] = connections[x]
      /\ connections' \in [Nodes -> [Servers -> Ids]]
      /\ \A y \in Servers \ {m} : connections'[n][y] = connections[n][y]
  BY <1>3, <1>4 DEF IInv, TypeOK
<1>8. TypeOK'
  BY <1>4, <1>5, <1>7 DEF IInv, TypeOK, sequencerVars, Labels
<1>9. NodeInv(n)'
  <2>1. HasCall(n)' /\ Call(n)' = m /\ Registered(n)' /\ Registered(m)'
    BY <1>1, <1>2, <1>3, <1>4 DEF HasCall, Call, Registered
  <2> QED
    BY <1>1, <1>2, <1>4, <1>5, <1>7, <2>1 DEF NodeInv, InConnect, TargetId
<1>10. SequencerInv' /\ CallInv'
  BY <1>0, <1>1, <1>4, <1>5, <1>6, <1>7, <1>9, CallerKeepsCalls DEF IInv
<1>11. /\ \A x, y \in Nodes : ~(x = n /\ y = m) => Status(x, y)' = Status(x, y)
       /\ Status(n, m)' = "claim"
  BY <1>1, <1>6 DEF Moves
<1>12. PhaseInv(n, m)'
  <2>1. PhaseInv(n, m)
    BY <1>1, <1>2, <1>3 DEF IInv, PairsInv, PairInv
  <2>2. Cq(n, m)' = Cq(n, m) /\ Sq(m, n)' = Sq(m, n)
    BY <1>4 DEF Cq, Sq
  <2> QED
    BY <1>2, <1>4, <1>11, <2>1, <2>2 DEF PhaseInv
<1>13. UsedInv' /\ PairsInv' /\ RtsStays /\ Stable
  BY <1>1, <1>2, <1>4, <1>7, <1>11, <1>12, CallsKeepPairs
<1>14. ResultInv'
  BY <1>4, <1>6, <1>13, ResultsOfNobody
<1> QED
  BY <1>8, <1>10, <1>13, <1>14 DEF IInv

\* connect() claims the connection; if the server's thread has before, it is done.
LEMMA ClaimKeepsInv ==
  ASSUME IInv, NEW n \in Nodes, Claim(n), UNCHANGED scenario
  PROVE  IInv' /\ Stable
<1>0. pc[n] = "claim" /\ pc[n] \in InConnect
  BY DEF Claim, InConnect
<1>1. PICK m \in Servers \ {n} : m = Call(n) /\ m \in Nodes
  BY <1>0, InConnectIsKnown
<1>2. /\ HasCall(n) /\ Registered(n) /\ Registered(m) /\ TargetId(n) = ownId[m]
      /\ Status(n, m) = "claim" /\ PairInv(n, m) /\ PairInv(m, n) /\ m \in sockets[n]
  BY <1>0, <1>1, InConnectIsKnown
<1>3. ownId[m] \in Ids
  BY <1>1, <1>2, IdsDiffer DEF IInv
<1>4. /\ UNCHANGED <<ownId, scenario, sequencerVars, sockets, connections, reply, handling, serving,
                     qp, qps, connected>>
      /\ flagged' = [flagged EXCEPT ![n] = @ \cup {ownId[m]}]
  BY <1>2 DEF Claim, serverVars, qpVars
<1>5. PICK label \in {"apart", "request"} :
        /\ Moves(n, m, label)
        /\ \A x \in Nodes \ {n} : pc'[x] = pc[x] /\ results'[x] = results[x]
        /\ pc' \in [Nodes -> Labels]
        /\ results' \in [Nodes -> Seq(Result)]
        /\ label = "apart" => /\ ownId[m] \in flagged[n] /\ pc'[n] = "idle"
                              /\ Returns(n, TRUE, ownId[m])
        /\ label = "request" => /\ ownId[m] \notin flagged[n] /\ pc'[n] = "request"
                                /\ results' = results
  <2>1. CASE ownId[m] \in flagged[n]
    <3>1. Returns(n, TRUE, ownId[m])
      BY <1>2, <2>1 DEF Claim
    <3>2. Moves(n, m, "apart")
      BY <1>0, <1>1, <1>2, <1>3, <3>1, ReturnsAppends, EndMoves DEF IInv
    <3> QED
      BY <1>2, <1>3, <2>1, <3>1, <3>2, ReturnsAppends DEF IInv
  <2>2. CASE ownId[m] \notin flagged[n]
    <3>1. Goto(n, "request") /\ results' = results
      BY <1>2, <2>2 DEF Claim
    <3>2. Moves(n, m, "request")
      BY <1>0, <1>1, <3>1, GotoMoves DEF IInv, InConnect
    <3> QED
      BY <2>2, <3>1, <3>2, GotoTypes DEF IInv, TypeOK, Labels, Result
  <2> QED
    BY <2>1, <2>2
<1>6. TypeOK'
  BY <1>3, <1>4, <1>5 DEF IInv, TypeOK, sequencerVars, Labels, Result
<1>7. NodeInv(n)'
  <2>1. label = "request" => HasCall(n)' /\ Call(n)' = m /\ TargetId(n)' = TargetId(n)
    BY <1>1, <1>2, <1>4, <1>5 DEF HasCall, Call, TargetId
  <2> QED
    BY <1>1, <1>2, <1>4, <1>5, <2>1 DEF NodeInv, Registered, InConnect
<1>8. SequencerInv' /\ CallInv'
  BY <1>0, <1>1, <1>4, <1>5, <1>7, CallerKeepsCalls DEF IInv
<1>9. PairInv(n, m)' /\ PairInv(m, n)'
  <2>1. Status(n, m)' = label /\ Status(m, n)' = Status(m, n)
    BY <1>1, <1>5 DEF Moves
  <2>2. /\ Cq(n, m)' = Cq(n, m) /\ Sq(n, m)' = Sq(n, m)
        /\ Cq(m, n)' = Cq(m, n) /\ Sq(m, n)' = Sq(m, n)
    BY <1>4 DEF Cq, Sq
  <2>3. PhaseInv(n, m)' /\ PhaseInv(m, n)'
    BY <1>2, <1>4, <2>1, <2>2 DEF PairInv, PhaseInv
  <2>4. ownId[m] \in flagged'[n] /\ (ownId[n] \in flagged'[m] <=> ownId[n] \in flagged[m])
    BY <1>1, <1>4 DEF IInv, TypeOK
  <2>5. FlagInv(n, m)' /\ FlagInv(m, n)'
    BY <1>2, <1>4, <1>5, <2>1, <2>2, <2>4 DEF PairInv, FlagInv, Claimed
  <2>6. RecordInv(n, m)' /\ RecordInv(m, n)'
    BY <1>2, <1>4, <2>2 DEF PairInv, RecordInv, Kept, Made
  <2> QED
    BY <2>3, <2>5, <2>6 DEF PairInv
<1>10. Touches(n, m)
  BY <1>3, <1>4, <1>5 DEF Touches, Moves, IInv, TypeOK
<1>11. RtsStays
  BY <1>4 DEF RtsStays
<1>12. UsedInv' /\ PairsInv' /\ Stable
  BY <1>1, <1>2, <1>4, <1>9, <1>10, <1>11, TouchesOnePair
<1>13. ResultInv'
  <2> SUFFICES ASSUME scenario.mayFail = {}, NEW x \in Nodes \ Servers PROVE ResultsTrue(x)'
    BY <1>4 DEF ResultInv
  <2>1. ResultsTrue(x)
    BY DEF IInv, ResultInv
  <2>2. CASE x = n /\ label = "apart"
    \* A client claims what it has not claimed before.
    <3>1. ownId[m] \notin flagged[n]
      BY <1>2, <2>2 DEF PairInv, FlagInv, PhaseInv, Claimed
    <3> QED
      BY <1>5, <2>2, <3>1
  <2>3. CASE ~(x = n /\ label = "apart")
    <3>1. \A s \in Servers : Status(x, s)' = "apart" => Status(x, s) = "apart"
      BY <1>5, <2>3, NodesAssumption DEF Moves
    <3> QED
      BY <1>4, <1>5, <1>11, <2>1, <2>3, <3>1, ResultsStay DEF IInv
  <2> QED
    BY <2>2, <2>3
<1> QED
  BY <1>6, <1>8, <1>12, <1>13 DEF IInv

\* Of two nodes that connect to each other, only one is served.
LEMMA OneIsServed ==
  ASSUME IInv, NEW n \in Nodes, NEW m \in Nodes, n # m, Registered(n), Registered(m),
         qp[Sq(m, n)].state # "none"
  PROVE  qp[Sq(n, m)].state = "none"
<1>1. PairInv(n, m) /\ PairInv(m, n)
  BY DEF IInv, PairsInv
<1>2. ownId[n] \in Int /\ ownId[m] \in Int
  BY IdsDiffer DEF IInv, Ids
<1>3. Claimed(n, m)
  BY <1>1 DEF PairInv, PhaseInv, Claimed
<1>4. qp[Sq(n, m)].state # "none" => Claimed(m, n)
  BY <1>1 DEF PairInv, PhaseInv, Claimed
<1> QED
  BY <1>1, <1>2, <1>3, <1>4 DEF PairInv, FlagInv

\* A client serves nobody.
LEMMA ClientServesNobody ==
  ASSUME IInv, NEW n \in Nodes \ Servers, NEW m \in Nodes, n # m, Registered(n), Registered(m)
  PROVE  qp[Sq(n, m)].state = "none"
BY DEF IInv, PairsInv, PairInv, PhaseInv, TypeOK

\* The queue pair of a claim is new.
LEMMA RequestKeepsInv ==
  ASSUME IInv, NEW n \in Nodes, Request(n) \/ RequestSrq(n), UNCHANGED scenario
  PROVE  IInv' /\ Stable
<1>0. pc[n] = "request" /\ pc[n] \in InConnect
  BY DEF Request, RequestSrq, InConnect
<1>1. PICK m \in Servers \ {n} : m = Call(n) /\ m \in Nodes
  BY <1>0, InConnectIsKnown
<1>2. /\ HasCall(n) /\ Registered(n) /\ Registered(m) /\ TargetId(n) = ownId[m]
      /\ Status(n, m) = "request" /\ PairInv(n, m) /\ PairInv(m, n) /\ m \in sockets[n]
      /\ ClientQp(n) = Cq(n, m) /\ Cq(n, m) \in QPs
  BY <1>0, <1>1, InConnectIsKnown
<1>3. ownId[m] \in Ids
  BY <1>1, <1>2, IdsDiffer DEF IInv
<1>4. /\ UNCHANGED <<ownId, scenario, sequencerVars, sockets, connections, reply, handling, serving,
                     results, flagged, connected>>
      /\ qp' = [qp EXCEPT ![Cq(n, m)] = Created]
      /\ qps' = IF n \in SrqClients THEN [qps EXCEPT ![n][ownId[m]] = Cq(n, m)] ELSE qps
      /\ Goto(n, "wait")
  BY <1>2 DEF Request, RequestSrq, serverVars
<1>5. /\ pc' \in [Nodes -> Labels] /\ pc'[n] = "wait"
      /\ \A x \in Nodes \ {n} : pc'[x] = pc[x]
  BY <1>4, GotoTypes DEF IInv, Labels
<1>6. Moves(n, m, "wait")
  BY <1>0, <1>1, <1>4, GotoMoves DEF IInv, InConnect
<1>7. /\ qp' \in [QPs -> [state : {"none", "reset", "init", "rts", "destroyed"}, remote : QPs \cup {NoQp}]]
      /\ qp'[Cq(n, m)] = Created /\ \A q \in QPs \ {Cq(n, m)} : qp'[q] = qp[q]
  BY <1>2, <1>4 DEF IInv, TypeOK, Created
<1>8. /\ qps' \in [Nodes -> [Ids -> QPs \cup {NoQp}]]
      /\ \A x \in Nodes, i \in Ids : ~(x = n /\ i = ownId[m]) => qps'[x][i] = qps[x][i]
      /\ qps'[n][ownId[m]] = IF n \in SrqClients THEN Cq(n, m) ELSE qps[n][ownId[m]]
  BY <1>2, <1>3, <1>4 DEF IInv, TypeOK
<1>9. TypeOK'
  BY <1>4, <1>5, <1>7, <1>8 DEF IInv, TypeOK, sequencerVars, Labels
<1>10. NodeInv(n)'
  <2>1. HasCall(n)' /\ Call(n)' = m /\ TargetId(n)' = TargetId(n)
    BY <1>1, <1>2, <1>4 DEF HasCall, Call, TargetId
  <2> QED
    BY <1>1, <1>2, <1>4, <1>5, <2>1 DEF NodeInv, Registered, InConnect
<1>11. SequencerInv' /\ CallInv'
  BY <1>0, <1>1, <1>4, <1>5, <1>6, <1>10, CallerKeepsCalls DEF IInv
<1>12. PairInv(n, m)' /\ PairInv(m, n)'
  <2>1. Status(n, m)' = "wait" /\ Status(m, n)' = Status(m, n)
    BY <1>1, <1>6 DEF Moves
  <2>2. /\ Cq(n, m)' = Cq(n, m) /\ Sq(n, m)' = Sq(n, m)
        /\ Cq(m, n)' = Cq(m, n) /\ Sq(m, n)' = Sq(m, n)
    BY <1>4 DEF Cq, Sq
  <2>3. /\ qp'[Cq(n, m)] = Created /\ qp'[Sq(n, m)] = qp[Sq(n, m)]
        /\ qp'[Cq(m, n)] = qp[Cq(m, n)] /\ qp'[Sq(m, n)] = qp[Sq(m, n)]
    BY <1>1, <1>2, <1>7, QPsDiffer DEF IInv
  <2>4. qp[Cq(n, m)].state = "none" /\ qp[Sq(m, n)].state = "none"
    BY <1>2 DEF PairInv, PhaseInv
  <2>5. n \notin handling[m]
    BY <1>1, <1>2 DEF IInv, CallInv
  <2>6. connections[n][m] = ownId[m]
    BY <1>1, <1>2 DEF TargetId
  <2>7. PhaseInv(n, m)' /\ PhaseInv(m, n)'
    BY <1>2, <1>4, <2>1, <2>2, <2>3, <2>4, <2>5, <2>6 DEF PairInv, PhaseInv, Created
  <2>8. FlagInv(n, m)' /\ FlagInv(m, n)'
    BY <1>1, <1>2, <1>4, <2>1, <2>2, <2>3, <2>4 DEF PairInv, FlagInv, Claimed, Created
  <2>9. n \in SrqClients => qp[Sq(n, m)].state = "none"
    BY <1>1, <1>2, ClientServesNobody, NodesAssumption
  <2>10. RecordInv(n, m)' /\ RecordInv(m, n)'
    <3>1. Cq(n, m) # NoQp
      BY <1>2, TypeParts DEF IInv
    <3>2. qps'[m][ownId[n]] = qps[m][ownId[n]]
      BY <1>1, <1>2, <1>8, IdsDiffer DEF IInv
    <3>3. RecordInv(m, n)'
      BY <1>2, <1>4, <2>2, <2>3, <3>2 DEF PairInv, RecordInv, Kept, Made
    <3>4. RecordInv(n, m)'
      BY <1>2, <1>4, <1>8, <2>2, <2>3, <2>4, <2>9, <3>1 DEF PairInv, RecordInv, Kept, Made, Created
    <3> QED
      BY <3>3, <3>4
  <2> QED
    BY <2>7, <2>8, <2>10 DEF PairInv
<1>13. Touches(n, m)
  BY <1>4, <1>6, <1>7, <1>8 DEF Touches, Moves
<1>14. qp[Cq(n, m)].state = "none"
  BY <1>2 DEF PairInv, PhaseInv
<1>15. RtsStays
  BY <1>7, <1>14 DEF RtsStays
<1>16. qp[Sq(n, m)].state = "rts" \/ qp[Cq(n, m)].state = "rts" =>
            qps'[n][ownId[m]] = qps[n][ownId[m]]
  BY <1>1, <1>2, <1>8, <1>14, ClientServesNobody, NodesAssumption
<1>17. UsedInv' /\ PairsInv' /\ Stable
  BY <1>1, <1>2, <1>4, <1>12, <1>13, <1>15, <1>16, TouchesOnePair
<1>18. ResultInv'
  BY <1>4, <1>6, <1>15, ResultsOfNobody
<1> QED
  BY <1>9, <1>11, <1>17, <1>18 DEF IInv

\* What a failed creation leaves of a queue pair that there was not.
LEMMA FailedQp ==
  ASSUME TypeOK, NEW q \in QPs, qp[q].state = "none", CreateFails(q)
  PROVE  /\ qp' \in [QPs -> [state : {"none", "reset", "init", "rts", "destroyed"}, remote : QPs \cup {NoQp}]]
         /\ qp'[q].state \in {"none", "reset"}
         /\ \A r \in QPs \ {q} : qp'[r] = qp[r]
<1>1. CASE UNCHANGED qp
  BY <1>1 DEF TypeOK
<1>2. CASE qp' = [qp EXCEPT ![q] = [state |-> "reset", remote |-> NoQp]]
  BY <1>2 DEF TypeOK
<1> QED
  BY <1>1, <1>2 DEF CreateFails

\* A queue pair that cannot be created or initialized has never been recorded.
LEMMA RequestFailsKeepsInv ==
  ASSUME IInv, NEW n \in Nodes, RequestFails(n), UNCHANGED scenario
  PROVE  IInv' /\ Stable
<1>0. pc[n] = "request" /\ pc[n] \in InConnect /\ n \in scenario.mayFail
  BY DEF RequestFails, InConnect
<1>1. PICK m \in Servers \ {n} : m = Call(n) /\ m \in Nodes
  BY <1>0, InConnectIsKnown
<1>2. /\ HasCall(n) /\ Registered(n) /\ Registered(m) /\ TargetId(n) = ownId[m]
      /\ Status(n, m) = "request" /\ PairInv(n, m) /\ PairInv(m, n) /\ m \in sockets[n]
      /\ ClientQp(n) = Cq(n, m) /\ Cq(n, m) \in QPs
  BY <1>0, <1>1, InConnectIsKnown
<1>3. ownId[m] \in Ids
  BY <1>1, <1>2, IdsDiffer DEF IInv
<1>4. /\ UNCHANGED <<ownId, scenario, sequencerVars, sockets, connections, reply, handling, serving,
                     results, flagged, qps, connected>>
      /\ CreateFails(Cq(n, m)) /\ Goto(n, "thrown")
  BY <1>2 DEF RequestFails, serverVars
<1>5. /\ pc' \in [Nodes -> Labels] /\ pc'[n] = "thrown"
      /\ \A x \in Nodes \ {n} : pc'[x] = pc[x]
  BY <1>4, GotoTypes DEF IInv, Labels
<1>6. Moves(n, m, "apart")
  BY <1>0, <1>1, <1>4, EndMoves DEF IInv
<1>7. qp[Cq(n, m)].state = "none" /\ qp[Sq(m, n)].state = "none"
  BY <1>2 DEF PairInv, PhaseInv
<1>8. /\ qp' \in [QPs -> [state : {"none", "reset", "init", "rts", "destroyed"}, remote : QPs \cup {NoQp}]]
      /\ qp'[Cq(n, m)].state \in {"none", "reset"}
      /\ \A q \in QPs \ {Cq(n, m)} : qp'[q] = qp[q]
  BY <1>2, <1>4, <1>7, FailedQp DEF IInv
<1>9. TypeOK'
  BY <1>4, <1>5, <1>8 DEF IInv, TypeOK, sequencerVars, Labels
<1>10. NodeInv(n)'
  BY <1>0, <1>4, <1>5 DEF NodeInv, InConnect
<1>11. SequencerInv' /\ CallInv'
  BY <1>0, <1>1, <1>4, <1>5, <1>6, <1>10, CallerKeepsCalls DEF IInv
<1>12. PairInv(n, m)' /\ PairInv(m, n)'
  <2>1. Status(n, m)' = "apart" /\ Status(m, n)' = Status(m, n)
    BY <1>1, <1>6 DEF Moves
  <2>2. /\ Cq(n, m)' = Cq(n, m) /\ Sq(n, m)' = Sq(n, m)
        /\ Cq(m, n)' = Cq(m, n) /\ Sq(m, n)' = Sq(m, n)
    BY <1>4 DEF Cq, Sq
  <2>3. /\ qp'[Sq(n, m)] = qp[Sq(n, m)]
        /\ qp'[Cq(m, n)] = qp[Cq(m, n)] /\ qp'[Sq(m, n)] = qp[Sq(m, n)]
    BY <1>1, <1>2, <1>8, QPsDiffer DEF IInv
  <2>4. connections[n][m] = ownId[m]
    BY <1>1, <1>2 DEF TargetId
  <2>5. PhaseInv(n, m)' /\ PhaseInv(m, n)'
    BY <1>0, <1>2, <1>4, <1>7, <1>8, <2>1, <2>2, <2>3, <2>4 DEF PairInv, PhaseInv
  <2>6. FlagInv(n, m)' /\ FlagInv(m, n)'
    BY <1>0, <1>1, <1>2, <1>4, <1>7, <2>1, <2>2, <2>3 DEF PairInv, FlagInv, Claimed
  <2>7. RecordInv(n, m)' /\ RecordInv(m, n)'
    BY <1>2, <1>4, <1>7, <1>8, <2>2, <2>3 DEF PairInv, RecordInv, Kept, Made
  <2> QED
    BY <2>5, <2>6, <2>7 DEF PairInv
<1>13. Touches(n, m)
  BY <1>4, <1>6, <1>8 DEF Touches, Moves
<1>14. RtsStays
  BY <1>7, <1>8 DEF RtsStays
<1>15. UsedInv' /\ PairsInv' /\ Stable
  BY <1>1, <1>2, <1>4, <1>12, <1>13, <1>14, TouchesOnePair
<1>16. ResultInv'
  BY <1>0, <1>4 DEF ResultInv
<1> QED
  BY <1>9, <1>11, <1>15, <1>16 DEF IInv

\* The queue pair that the server has connected is the one that is recorded here.
LEMMA AdoptKeepsInv ==
  ASSUME IInv, NEW n \in Nodes, Adopt(n) \/ AdoptSrq(n), UNCHANGED scenario
  PROVE  IInv' /\ Stable
<1>0. pc[n] = "adopt" /\ pc[n] \in InConnect
  BY DEF Adopt, AdoptSrq, InConnect
<1>1. PICK m \in Servers \ {n} : m = Call(n) /\ m \in Nodes
  BY <1>0, InConnectIsKnown
<1>2. /\ HasCall(n) /\ Registered(n) /\ Registered(m) /\ TargetId(n) = ownId[m]
      /\ Status(n, m) = "adopt" /\ PairInv(n, m) /\ PairInv(m, n) /\ m \in sockets[n]
      /\ ClientQp(n) = Cq(n, m) /\ Cq(n, m) \in QPs
  BY <1>0, <1>1, InConnectIsKnown
<1>3. ownId[m] \in Ids /\ Sq(m, n) \in QPs
  BY <1>1, <1>2, IdsDiffer, QPsDiffer DEF IInv
\* The server's queue pair is ready, and there is no other one here.
<1>4. /\ qp[Cq(n, m)] = Created /\ qp[Sq(m, n)] = Rts(Cq(n, m)) /\ reply[n] = Sq(m, n)
      /\ qp[Sq(n, m)].state = "none"
  <2>1. qp[Cq(n, m)] = Created /\ qp[Sq(m, n)] = Rts(Cq(n, m)) /\ reply[n] = Sq(m, n)
    BY <1>2 DEF PairInv, PhaseInv
  <2> QED
    BY <1>1, <1>2, <2>1, OneIsServed DEF Rts
<1>5. ownId[m] \notin connected[n]
  BY <1>2, <1>4 DEF PairInv, RecordInv, Created, Made
<1>6. n \in SrqClients => qps[n][ownId[m]] = Cq(n, m)
  BY <1>2, <1>4 DEF PairInv, RecordInv, Kept, Made, Created
<1>7. /\ UNCHANGED <<ownId, scenario, sequencerVars, sockets, connections, reply, handling, serving,
                     flagged>>
      /\ connected' = [connected EXCEPT ![n] = @ \cup {ownId[m]}]
      /\ qp' = [qp EXCEPT ![Cq(n, m)] = Rts(Sq(m, n))]
      /\ qps' = IF n \in SrqClients THEN qps ELSE [qps EXCEPT ![n][ownId[m]] = Cq(n, m)]
      /\ Returns(n, TRUE, ownId[m])
  BY <1>2, <1>4, <1>5 DEF Adopt, AdoptSrq, connectQP, Rts, serverVars
<1>8. /\ pc' \in [Nodes -> Labels] /\ pc'[n] = "idle" /\ results' \in [Nodes -> Seq(Result)]
      /\ \A x \in Nodes \ {n} : pc'[x] = pc[x] /\ results'[x] = results[x]
      /\ Goto(n, "idle")
  BY <1>2, <1>3, <1>7, ReturnsAppends DEF IInv
<1>9. Moves(n, m, "apart")
  BY <1>0, <1>1, <1>7, <1>8, EndMoves DEF IInv
<1>10. /\ qp' \in [QPs -> [state : {"none", "reset", "init", "rts", "destroyed"}, remote : QPs \cup {NoQp}]]
       /\ qp'[Cq(n, m)] = Rts(Sq(m, n)) /\ \A q \in QPs \ {Cq(n, m)} : qp'[q] = qp[q]
  BY <1>2, <1>3, <1>7 DEF IInv, TypeOK, Rts
<1>11. /\ qps' \in [Nodes -> [Ids -> QPs \cup {NoQp}]]
       /\ \A x \in Nodes, i \in Ids : ~(x = n /\ i = ownId[m]) => qps'[x][i] = qps[x][i]
       /\ qps'[n][ownId[m]] = Cq(n, m)
  BY <1>2, <1>3, <1>6, <1>7 DEF IInv, TypeOK
<1>12. /\ connected' \in [Nodes -> SUBSET Ids] /\ ownId[m] \in connected'[n]
       /\ \A x \in Nodes, i \in Ids : ~(x = n /\ i = ownId[m]) =>
             (i \in connected'[x] <=> i \in connected[x])
  BY <1>3, <1>7 DEF IInv, TypeOK
<1>13. TypeOK'
  <2>1. UNCHANGED <<ownId, scenario, nextNodeID, entries, idOf, sockets, connections, reply, handling,
                    serving, flagged>>
    BY <1>7 DEF sequencerVars
  <2>2. TypeOK
    BY DEF IInv
  <2> QED
    BY <1>8, <1>10, <1>11, <1>12, <2>1, <2>2 DEF TypeOK, Labels, Result
<1>14. NodeInv(n)'
  BY <1>8 DEF NodeInv, InConnect
<1>15. SequencerInv' /\ CallInv'
  BY <1>0, <1>1, <1>7, <1>8, <1>9, <1>14, CallerKeepsCalls DEF IInv
<1>16. /\ Cq(n, m)' = Cq(n, m) /\ Sq(n, m)' = Sq(n, m)
       /\ Cq(m, n)' = Cq(m, n) /\ Sq(m, n)' = Sq(m, n)
  BY <1>7 DEF Cq, Sq
<1>17. PairInv(n, m)' /\ PairInv(m, n)'
  <2>1. Status(n, m)' = "apart" /\ Status(m, n)' = Status(m, n)
    BY <1>1, <1>9 DEF Moves
  <2>2. /\ qp'[Cq(n, m)] = Rts(Sq(m, n)) /\ qp'[Sq(n, m)] = qp[Sq(n, m)]
        /\ qp'[Cq(m, n)] = qp[Cq(m, n)] /\ qp'[Sq(m, n)] = qp[Sq(m, n)]
    BY <1>1, <1>2, <1>10, QPsDiffer DEF IInv
  <2>3. PhaseInv(n, m)' /\ PhaseInv(m, n)'
    BY <1>2, <1>4, <1>7, <1>16, <2>1, <2>2 DEF PairInv, PhaseInv, Created, Rts
  <2>4. FlagInv(n, m)' /\ FlagInv(m, n)'
    BY <1>1, <1>2, <1>4, <1>7, <1>16, <2>1, <2>2 DEF PairInv, FlagInv, Claimed, Created, Rts
  <2>5. /\ qps'[m][ownId[n]] = qps[m][ownId[n]]
        /\ ownId[n] \in connected'[m] <=> ownId[n] \in connected[m]
    BY <1>1, <1>2, <1>11, <1>12, IdsDiffer DEF IInv
  <2>6. RecordInv(m, n)'
    BY <1>2, <1>7, <1>16, <2>2, <2>5 DEF PairInv, RecordInv, Kept, Made
  <2>7. RecordInv(n, m)'
    BY <1>2, <1>4, <1>7, <1>11, <1>16, <2>2 DEF PairInv, RecordInv, Kept, Made, Created, Rts
  <2> QED
    BY <2>3, <2>4, <2>6, <2>7 DEF PairInv
<1>18. Touches(n, m)
  BY <1>7, <1>9, <1>10, <1>11, <1>12 DEF Touches, Moves
<1>19. RtsStays
  BY <1>4, <1>10 DEF RtsStays, Created
<1>20. UsedInv' /\ PairsInv' /\ Stable
  BY <1>1, <1>2, <1>4, <1>7, <1>17, <1>18, <1>19, TouchesOnePair DEF Created
<1>21. ASSUME n \notin Servers, scenario.mayFail = {} PROVE ResultsTrue(n)'
  <2>1. TrueOf(n, m)'
    BY <1>2, <1>7, <1>10, <1>16 DEF TrueOf, Registered, Rts
  <2> QED
    BY <1>1, <1>2, <1>3, <1>7, <1>19, <1>21, <2>1, ResultsReturn DEF IInv, ResultInv
<1>22. ResultInv'
  BY <1>7, <1>8, <1>9, <1>19, <1>21, ResultsOfOthers
<1> QED
  BY <1>13, <1>15, <1>20, <1>22 DEF IInv

\* A request that was refused: the queue pair is destroyed.
LEMMA RefusedKeepsInv ==
  ASSUME IInv, NEW n \in Nodes, Refused(n), UNCHANGED scenario
  PROVE  IInv' /\ Stable
<1>0. pc[n] = "refused" /\ pc[n] \in InConnect /\ n \notin SrqClients
  BY DEF Refused, InConnect
<1>1. PICK m \in Servers \ {n} : m = Call(n) /\ m \in Nodes
  BY <1>0, InConnectIsKnown
<1>2. /\ HasCall(n) /\ Registered(n) /\ Registered(m) /\ TargetId(n) = ownId[m]
      /\ Status(n, m) = "refused" /\ PairInv(n, m) /\ PairInv(m, n) /\ m \in sockets[n]
      /\ ClientQp(n) = Cq(n, m) /\ Cq(n, m) \in QPs
  BY <1>0, <1>1, InConnectIsKnown
<1>3. ownId[m] \in Ids
  BY <1>1, <1>2, IdsDiffer DEF IInv
<1>4. /\ qp[Cq(n, m)] = Created /\ qp[Sq(m, n)].state \in {"none", "reset", "init"}
      /\ scenario.mayFail = {} => n \in Servers /\ qp[Sq(m, n)].state = "none"
  BY <1>2 DEF PairInv, PhaseInv
<1>5. /\ UNCHANGED <<ownId, scenario, sequencerVars, sockets, connections, reply, handling, serving,
                     flagged, qps, connected>>
      /\ qp' = [qp EXCEPT ![Cq(n, m)] = [state |-> "destroyed", remote |-> NoQp]]
      /\ Returns(n, TRUE, ownId[m])
  BY <1>2 DEF Refused, serverVars
<1>6. /\ pc' \in [Nodes -> Labels] /\ pc'[n] = "idle" /\ results' \in [Nodes -> Seq(Result)]
      /\ \A x \in Nodes \ {n} : pc'[x] = pc[x] /\ results'[x] = results[x]
      /\ Goto(n, "idle")
  BY <1>2, <1>3, <1>5, ReturnsAppends DEF IInv
<1>7. Moves(n, m, "apart")
  BY <1>0, <1>1, <1>5, <1>6, EndMoves DEF IInv
<1>8. /\ qp' \in [QPs -> [state : {"none", "reset", "init", "rts", "destroyed"}, remote : QPs \cup {NoQp}]]
      /\ qp'[Cq(n, m)].state = "destroyed" /\ \A q \in QPs \ {Cq(n, m)} : qp'[q] = qp[q]
  BY <1>2, <1>5 DEF IInv, TypeOK
<1>9. TypeOK'
  BY <1>5, <1>6, <1>8 DEF IInv, TypeOK, sequencerVars, Labels, Result
<1>10. NodeInv(n)'
  BY <1>6 DEF NodeInv, InConnect
<1>11. SequencerInv' /\ CallInv'
  BY <1>0, <1>1, <1>5, <1>6, <1>7, <1>10, CallerKeepsCalls DEF IInv
<1>12. PairInv(n, m)' /\ PairInv(m, n)'
  <2>1. Status(n, m)' = "apart" /\ Status(m, n)' = Status(m, n)
    BY <1>1, <1>7 DEF Moves
  <2>2. /\ qp'[Cq(n, m)].state = "destroyed" /\ qp'[Sq(n, m)] = qp[Sq(n, m)]
        /\ qp'[Cq(m, n)] = qp[Cq(m, n)] /\ qp'[Sq(m, n)] = qp[Sq(m, n)]
    BY <1>1, <1>2, <1>8, QPsDiffer DEF IInv
  <2>3. /\ Cq(n, m)' = Cq(n, m) /\ Sq(n, m)' = Sq(n, m)
        /\ Cq(m, n)' = Cq(m, n) /\ Sq(m, n)' = Sq(m, n)
    BY <1>5 DEF Cq, Sq
  <2>4. PhaseInv(n, m)' /\ PhaseInv(m, n)'
    BY <1>0, <1>2, <1>4, <1>5, <2>1, <2>2, <2>3 DEF PairInv, PhaseInv, Created
  <2>5. FlagInv(n, m)' /\ FlagInv(m, n)'
    BY <1>1, <1>2, <1>4, <1>5, <2>1, <2>2, <2>3 DEF PairInv, FlagInv, Claimed, Created
  <2>6. RecordInv(n, m)' /\ RecordInv(m, n)'
    BY <1>0, <1>2, <1>4, <1>5, <2>2, <2>3 DEF PairInv, RecordInv, Kept, Made, Created
  <2> QED
    BY <2>4, <2>5, <2>6 DEF PairInv
<1>13. Touches(n, m)
  BY <1>5, <1>7, <1>8 DEF Touches, Moves
<1>14. RtsStays
  BY <1>4, <1>8 DEF RtsStays, Created
<1>15. UsedInv' /\ PairsInv' /\ Stable
  BY <1>1, <1>2, <1>5, <1>12, <1>13, <1>14, TouchesOnePair
<1>16. ResultInv'
  BY <1>4, <1>5, <1>6, <1>7, <1>14, ResultsOfOthers
<1> QED
  BY <1>9, <1>11, <1>15, <1>16 DEF IInv

\* An SRQ client is refused only by a server that fails.
LEMMA RefusedSrqKeepsInv ==
  ASSUME IInv, NEW n \in Nodes, RefusedSrq(n), UNCHANGED scenario
  PROVE  IInv' /\ Stable
<1>0. pc[n] = "refused" /\ pc[n] \in InConnect /\ n \in SrqClients /\ n \notin Servers
  BY NodesAssumption DEF RefusedSrq, InConnect
<1>1. PICK m \in Servers \ {n} : m = Call(n) /\ m \in Nodes
  BY <1>0, InConnectIsKnown
<1>2. /\ HasCall(n) /\ Registered(n) /\ Registered(m) /\ TargetId(n) = ownId[m]
      /\ Status(n, m) = "refused" /\ PairInv(n, m) /\ PairInv(m, n) /\ m \in sockets[n]
      /\ ClientQp(n) = Cq(n, m) /\ Cq(n, m) \in QPs
  BY <1>0, <1>1, InConnectIsKnown
<1>3. ownId[m] \in Ids
  BY <1>1, <1>2, IdsDiffer DEF IInv
<1>4. /\ qp[Cq(n, m)] = Created /\ qp[Sq(m, n)].state \in {"none", "reset", "init"}
      /\ scenario.mayFail # {}
  BY <1>0, <1>2 DEF PairInv, PhaseInv
<1>5. /\ qp[Sq(n, m)].state = "none"
      /\ ownId[m] \notin connected[n]
  <2>1. qp[Sq(n, m)].state = "none"
    BY <1>0, <1>1, <1>2, ClientServesNobody
  <2> QED
    BY <1>2, <1>4, <2>1 DEF PairInv, RecordInv, Created, Made
<1>6. UNCHANGED <<ownId, scenario, sequencerVars, sockets, connections, reply, handling, serving,
                  flagged, qps>>
  BY DEF RefusedSrq, serverVars
<1>7. \/ Goto(n, "thrown") /\ UNCHANGED <<qp, connected, results>>
      \/ /\ connected' = [connected EXCEPT ![n] = @ \cup {ownId[m]}]
         /\ qp' = [qp EXCEPT ![Cq(n, m)] = Rts(NoQp)]
         /\ Returns(n, TRUE, ownId[m])
  BY <1>2, <1>5 DEF RefusedSrq, connectQP, Rts
<1>8. /\ pc' \in [Nodes -> Labels] /\ results' \in [Nodes -> Seq(Result)]
      /\ \A x \in Nodes \ {n} : pc'[x] = pc[x] /\ results'[x] = results[x]
      /\ pc'[n] \in {"idle", "thrown"} /\ Goto(n, pc'[n])
  <2>1. CASE Goto(n, "thrown") /\ UNCHANGED <<qp, connected, results>>
    BY <2>1, GotoTypes DEF IInv, TypeOK, Labels, Result
  <2>2. CASE Returns(n, TRUE, ownId[m])
    BY <1>2, <1>3, <2>2, ReturnsAppends DEF IInv
  <2> QED
    BY <1>7, <2>1, <2>2
<1>9. Moves(n, m, "apart")
  BY <1>0, <1>1, <1>6, <1>8, EndMoves DEF IInv
<1>10. /\ qp' \in [QPs -> [state : {"none", "reset", "init", "rts", "destroyed"}, remote : QPs \cup {NoQp}]]
       /\ qp'[Cq(n, m)] \in {Created, Rts(NoQp)} /\ \A q \in QPs \ {Cq(n, m)} : qp'[q] = qp[q]
       /\ qp'[Cq(n, m)] = Created => connected' = connected
  <2>1. CASE UNCHANGED <<qp, connected, results>>
    BY <1>4, <2>1 DEF IInv, TypeOK
  <2>2. CASE qp' = [qp EXCEPT ![Cq(n, m)] = Rts(NoQp)]
    BY <1>2, <2>2 DEF IInv, TypeOK, Rts, Created
  <2> QED
    BY <1>7, <2>1, <2>2
<1>11. /\ connected' \in [Nodes -> SUBSET Ids]
       /\ \A x \in Nodes, i \in Ids : ~(x = n /\ i = ownId[m]) =>
             (i \in connected'[x] <=> i \in connected[x])
  <2>1. CASE UNCHANGED <<qp, connected, results>>
    BY <2>1 DEF IInv, TypeOK
  <2>2. CASE connected' = [connected EXCEPT ![n] = @ \cup {ownId[m]}]
    BY <1>3, <2>2 DEF IInv, TypeOK
  <2> QED
    BY <1>7, <2>1, <2>2
<1>12. TypeOK'
  BY <1>6, <1>8, <1>10, <1>11 DEF IInv, TypeOK, sequencerVars, Labels, Result
<1>13. NodeInv(n)'
  BY <1>0, <1>4, <1>6, <1>8 DEF NodeInv, InConnect
<1>14. SequencerInv' /\ CallInv'
  BY <1>0, <1>1, <1>6, <1>8, <1>9, <1>13, CallerKeepsCalls DEF IInv
<1>15. PairInv(n, m)' /\ PairInv(m, n)'
  <2>1. Status(n, m)' = "apart" /\ Status(m, n)' = Status(m, n)
    BY <1>1, <1>9 DEF Moves
  <2>2. /\ qp'[Cq(n, m)] \in {Created, Rts(NoQp)} /\ qp'[Sq(n, m)] = qp[Sq(n, m)]
        /\ qp'[Cq(m, n)] = qp[Cq(m, n)] /\ qp'[Sq(m, n)] = qp[Sq(m, n)]
    BY <1>1, <1>2, <1>10, QPsDiffer DEF IInv
  <2>3. /\ Cq(n, m)' = Cq(n, m) /\ Sq(n, m)' = Sq(n, m)
        /\ Cq(m, n)' = Cq(m, n) /\ Sq(m, n)' = Sq(m, n)
    BY <1>6 DEF Cq, Sq
  <2>4. PhaseInv(n, m)' /\ PhaseInv(m, n)'
    BY <1>0, <1>2, <1>4, <1>6, <2>1, <2>2, <2>3 DEF PairInv, PhaseInv, Created, Rts
  <2>5. FlagInv(n, m)' /\ FlagInv(m, n)'
    BY <1>1, <1>2, <1>4, <1>6, <2>1, <2>2, <2>3 DEF PairInv, FlagInv, Claimed, Created, Rts
  <2>6. ownId[n] \in connected'[m] <=> ownId[n] \in connected[m]
    BY <1>1, <1>2, <1>11, IdsDiffer DEF IInv
  <2>7. RecordInv(m, n)'
    BY <1>2, <1>6, <2>2, <2>3, <2>6 DEF PairInv, RecordInv, Kept, Made
  <2>8. RecordInv(n, m)'
    BY <1>0, <1>2, <1>4, <1>5, <1>6, <1>10, <2>2, <2>3 DEF PairInv, RecordInv, Kept, Made, Created, Rts
  <2> QED
    BY <2>4, <2>5, <2>7, <2>8 DEF PairInv
<1>16. Touches(n, m)
  BY <1>6, <1>9, <1>10, <1>11 DEF Touches, Moves
<1>17. RtsStays
  BY <1>4, <1>10 DEF RtsStays, Created
<1>18. UsedInv' /\ PairsInv' /\ Stable
  BY <1>1, <1>2, <1>6, <1>15, <1>16, <1>17, TouchesOnePair
<1>19. ResultInv'
  BY <1>4, <1>6 DEF ResultInv
<1> QED
  BY <1>12, <1>14, <1>18, <1>19 DEF IInv

-----------------------------------------------------------------------------
\* The request that a server works on.
LEMMA RequestIsKnown ==
  ASSUME IInv, NEW s \in Servers, NEW n \in Nodes, Receives(s, n) \/ n \in handling[s]
  PROVE  /\ s \in Nodes /\ s # n /\ Registered(n) /\ Registered(s)
         /\ pc[n] = "wait" /\ Call(n) = s /\ Status(n, s) = "wait"
         /\ HasCall(n) /\ s \in sockets[n] /\ TargetId(n) = ownId[s]
         /\ ClientQp(n) = Cq(n, s) /\ ServerQp(s, n) = Sq(s, n)
         /\ Cq(n, s) \in QPs /\ Sq(s, n) \in QPs
         /\ PairInv(n, s) /\ PairInv(s, n) /\ ownId[n] \in Ids
         /\ qp[Cq(n, s)] = Created
         /\ n \in handling[s] => handling[s] = {n} /\ qp[Sq(s, n)] = Created
         /\ n \notin handling[s] => handling[s] = {} /\ qp[Sq(s, n)].state = "none"
<1>1. pc[n] = "wait" /\ Call(n) = s
  BY DEF Receives, IInv, CallInv, Status
<1>2. pc[n] \in InConnect
  BY <1>1 DEF InConnect
<1>3. /\ s \in Nodes /\ s # n /\ Registered(n) /\ Registered(s)
      /\ Status(n, s) = "wait" /\ HasCall(n) /\ s \in sockets[n] /\ TargetId(n) = ownId[s]
      /\ ClientQp(n) = Cq(n, s) /\ Cq(n, s) \in QPs /\ PairInv(n, s) /\ PairInv(s, n)
  BY <1>1, <1>2, InConnectIsKnown
<1>4. Sq(s, n) \in QPs /\ ownId[n] \in Ids
  BY <1>3, QPsDiffer, IdsDiffer DEF IInv
<1>5. n \in handling[s] => handling[s] = {n}
  BY DEF IInv, CallInv
<1>6. n \notin handling[s] => handling[s] = {}
  BY DEF Receives
<1>7. /\ qp[Cq(n, s)] = Created
      /\ IF n \in handling[s] THEN qp[Sq(s, n)] = Created ELSE qp[Sq(s, n)].state = "none"
  BY <1>3 DEF PairInv, PhaseInv
<1> QED
  BY <1>1, <1>3, <1>4, <1>5, <1>6, <1>7 DEF ServerQp, Sq

\* A step of the server s with the request of n.
LEMMA HandlerKeepsCalls ==
  ASSUME IInv, NEW s \in Servers, NEW n \in Nodes, Receives(s, n) \/ n \in handling[s],
         NEW label \in {"wait", "adopt", "refused"}, Moves(n, s, label), pc'[n] = label,
         UNCHANGED <<scenario, sequencerVars, ownId, sockets, connections, results>>,
         \A x \in Nodes \ {n} : pc'[x] = pc[x],
         \A t \in Servers \ {s} : handling'[t] = handling[t],
         handling'[s] = {} \/ (handling'[s] = {n} /\ label = "wait")
  PROVE  SequencerInv' /\ CallInv'
<1>1. SequencerInv'
  BY DEF SequencerInv, sequencerVars, Registered, IInv
<1>2. NodeInv(n)'
  <2>1. /\ HasCall(n)' /\ Registered(n)' /\ Registered(s)' /\ Call(n)' = s
        /\ TargetId(n)' = TargetId(n) /\ TargetId(n) = ownId[s] /\ s \in sockets[n] \ {n}
    BY RequestIsKnown DEF HasCall, Call, Registered, TargetId
  <2> QED
    BY <2>1 DEF NodeInv, InConnect
<1>3. ASSUME NEW x \in Nodes PROVE NodeInv(x)'
  <2>1. CASE x = n
    BY <1>2, <2>1
  <2>2. CASE x # n
    BY <2>2, NodeFrame DEF IInv, CallInv
  <2> QED
    BY <2>1, <2>2
<1>4. ASSUME NEW t \in Servers, NEW x \in handling'[t]
      PROVE  Status(x, t)' = "wait" /\ handling'[t] = {x}
  <2>1. CASE t = s
    <3>1. x = n /\ label = "wait" /\ handling'[s] = {n} /\ s \in Nodes
      BY <1>4, <2>1, NodesAssumption
    <3> QED
      BY <2>1, <3>1 DEF Moves
  <2>2. CASE t # s
    <3>1. /\ x \in handling[t] /\ handling[t] = handling'[t] /\ x \in Nodes /\ t \in Nodes
      BY <1>4, <2>2, NodesAssumption DEF IInv, TypeOK
    <3>2. Status(x, t) = "wait" /\ handling[t] = {x}
      BY <3>1 DEF IInv, CallInv
    <3> QED
      BY <2>2, <3>1, <3>2 DEF Moves
  <2> QED
    BY <2>1, <2>2
<1> QED
  BY <1>1, <1>3, <1>4 DEF CallInv

\* A request is refused by the node with the larger id, which has claimed the connection.
LEMMA RefuseKeepsInv ==
  ASSUME IInv, NEW s \in Servers, NEW n \in Nodes, Refuse(s, n), UNCHANGED scenario
  PROVE  IInv' /\ Stable
<1>0. Receives(s, n)
  BY DEF Refuse
<1>1. /\ s \in Nodes /\ s # n /\ Registered(n) /\ Registered(s)
      /\ pc[n] = "wait" /\ Call(n) = s /\ Status(n, s) = "wait"
      /\ PairInv(n, s) /\ PairInv(s, n) /\ ownId[n] \in Ids
      /\ qp[Cq(n, s)] = Created /\ handling[s] = {} /\ qp[Sq(s, n)].state = "none"
  BY <1>0, RequestIsKnown DEF Receives
<1>2. /\ UNCHANGED <<ownId, scenario, sequencerVars, sockets, connections, reply, results, handling,
                     serving, flagged, qp, qps, connected>>
      /\ Goto(n, "refused")
      /\ ownId[n] \in flagged[s] /\ ownId[n] < ownId[s]
  BY DEF Refuse, backsOff, serverVars, qpVars
<1>3. /\ pc' \in [Nodes -> Labels] /\ pc'[n] = "refused"
      /\ \A x \in Nodes \ {n} : pc'[x] = pc[x]
  BY <1>2, GotoTypes DEF IInv, Labels
<1>4. Moves(n, s, "refused")
  BY <1>1, <1>2, GotoMoves DEF IInv, InConnect
<1>5. TypeOK'
  BY <1>1, <1>2, <1>3 DEF IInv, TypeOK, sequencerVars, Labels
<1>6. SequencerInv' /\ CallInv'
  <2>1. handling'[s] = {} /\ \A t \in Servers \ {s} : handling'[t] = handling[t]
    BY <1>1, <1>2
  <2> QED
    BY <1>0, <1>2, <1>3, <1>4, <2>1, HandlerKeepsCalls
<1>7. PairInv(n, s)' /\ PairInv(s, n)'
  <2>1. Status(n, s)' = "refused" /\ Status(s, n)' = Status(s, n)
    BY <1>1, <1>4 DEF Moves
  <2>2. /\ Cq(n, s)' = Cq(n, s) /\ Sq(n, s)' = Sq(n, s)
        /\ Cq(s, n)' = Cq(s, n) /\ Sq(s, n)' = Sq(s, n)
    BY <1>2 DEF Cq, Sq
  \* Only a server that connects to this one too is refused by one that works.
  <2>3. n \in Servers
    BY <1>1, <1>2 DEF PairInv, FlagInv
  <2>4. PhaseInv(n, s)' /\ PhaseInv(s, n)'
    BY <1>1, <1>2, <2>1, <2>2, <2>3 DEF PairInv, PhaseInv
  <2>5. FlagInv(n, s)' /\ FlagInv(s, n)'
    BY <1>1, <1>2, <2>1, <2>2 DEF PairInv, FlagInv, Claimed, Created
  <2>6. RecordInv(n, s)' /\ RecordInv(s, n)'
    BY <1>1, <1>2, <2>2 DEF PairInv, RecordInv, Kept, Made
  <2> QED
    BY <2>4, <2>5, <2>6 DEF PairInv
<1>8. Touches(s, n)
  BY <1>1, <1>2, <1>4 DEF Touches, Moves, IInv, TypeOK
<1>9. RtsStays
  BY <1>2 DEF RtsStays
<1>10. UsedInv' /\ PairsInv' /\ Stable
  BY <1>1, <1>2, <1>7, <1>8, <1>9, TouchesOnePair
<1>11. ResultInv'
  BY <1>2, <1>4, <1>9, ResultsOfNobody
<1> QED
  BY <1>5, <1>6, <1>10, <1>11 DEF IInv

\* The queue pair that the server makes is the only one for the connection.
LEMMA AcceptKeepsInv ==
  ASSUME IInv, NEW s \in Servers, NEW n \in Nodes, Accept(s, n), UNCHANGED scenario
  PROVE  IInv' /\ Stable
<1>0. Receives(s, n)
  BY DEF Accept
<1>1. /\ s \in Nodes /\ s # n /\ Registered(n) /\ Registered(s)
      /\ pc[n] = "wait" /\ Call(n) = s /\ Status(n, s) = "wait"
      /\ PairInv(n, s) /\ PairInv(s, n) /\ ownId[n] \in Ids
      /\ Cq(n, s) \in QPs /\ Sq(s, n) \in QPs /\ ServerQp(s, n) = Sq(s, n)
      /\ qp[Cq(n, s)] = Created /\ handling[s] = {} /\ qp[Sq(s, n)].state = "none"
  BY <1>0, RequestIsKnown DEF Receives
<1>2. /\ UNCHANGED <<ownId, scenario, sequencerVars, sockets, connections, reply, results, serving,
                     pc, connected>>
      /\ flagged' = [flagged EXCEPT ![s] = @ \cup {ownId[n]}]
      /\ qp' = [qp EXCEPT ![Sq(s, n)] = Created]
      /\ qps' = [qps EXCEPT ![s][ownId[n]] = Sq(s, n)]
      /\ handling' = [handling EXCEPT ![s] = {n}]
  BY <1>1 DEF Accept, callVars
<1>3. \A x, y \in Nodes : Status(x, y)' = Status(x, y)
  BY <1>2 DEF Status, Call
<1>4. Moves(n, s, "wait")
  BY <1>1, <1>3 DEF Moves
<1>5. /\ qp' \in [QPs -> [state : {"none", "reset", "init", "rts", "destroyed"}, remote : QPs \cup {NoQp}]]
      /\ qp'[Sq(s, n)] = Created /\ \A q \in QPs \ {Sq(s, n)} : qp'[q] = qp[q]
  BY <1>1, <1>2 DEF IInv, TypeOK, Created
<1>6. /\ qps' \in [Nodes -> [Ids -> QPs \cup {NoQp}]]
      /\ \A x \in Nodes, i \in Ids : ~(x = s /\ i = ownId[n]) => qps'[x][i] = qps[x][i]
      /\ qps'[s][ownId[n]] = Sq(s, n)
  BY <1>1, <1>2 DEF IInv, TypeOK
<1>7. /\ handling' \in [Servers -> SUBSET Nodes] /\ handling'[s] = {n}
      /\ \A t \in Servers \ {s} : handling'[t] = handling[t]
  BY <1>2 DEF IInv, TypeOK
<1>8. /\ flagged' \in [Nodes -> SUBSET Ids] /\ ownId[n] \in flagged'[s]
      /\ \A x \in Nodes, i \in Ids : ~(x = s /\ i = ownId[n]) => (i \in flagged'[x] <=> i \in flagged[x])
  BY <1>1, <1>2 DEF IInv, TypeOK
<1>9. TypeOK'
  BY <1>2, <1>5, <1>6, <1>7, <1>8 DEF IInv, TypeOK, sequencerVars
<1>10. SequencerInv' /\ CallInv'
  BY <1>0, <1>1, <1>2, <1>4, <1>7, HandlerKeepsCalls
\* If the server has claimed the connection too, its id is the smaller one, and its
\* request is refused at the other end.
<1>11. /\ Claimed(s, n) => ownId[s] < ownId[n]
       /\ qp[Cq(s, n)].state # "rts"
  <2>1. Claimed(s, n) => ownId[n] \in flagged[s]
    BY <1>1 DEF PairInv, FlagInv
  <2>2. ownId[n] \in Int /\ ownId[s] \in Int /\ ownId[n] # ownId[s]
    BY <1>1, IdsDiffer DEF IInv, Ids
  <2>3. Claimed(s, n) => ownId[s] < ownId[n]
    BY <2>1, <2>2 DEF Accept, backsOff
  <2>4. qp[Sq(n, s)].state # "none" => ownId[n] < ownId[s]
    BY <1>1 DEF PairInv, FlagInv, Claimed, Created
  <2>5. qp[Cq(s, n)].state = "rts" => Claimed(s, n) /\ qp[Sq(n, s)].state # "none"
    <3>1. s \notin SrqClients
      BY NodesAssumption
    <3> QED
      BY <1>1, <3>1 DEF PairInv, PhaseInv, Claimed, Created, Rts, Status, InConnect
  <2> QED
    BY <2>2, <2>3, <2>4, <2>5
<1>12. PairInv(n, s)' /\ PairInv(s, n)'
  <2>1. Status(n, s)' = "wait" /\ Status(s, n)' = Status(s, n)
    BY <1>1, <1>3
  <2>2. /\ Cq(n, s)' = Cq(n, s) /\ Sq(n, s)' = Sq(n, s)
        /\ Cq(s, n)' = Cq(s, n) /\ Sq(s, n)' = Sq(s, n)
    BY <1>2 DEF Cq, Sq
  <2>3. /\ qp'[Cq(n, s)] = Created /\ qp'[Sq(n, s)] = qp[Sq(n, s)]
        /\ qp'[Cq(s, n)] = qp[Cq(s, n)] /\ qp'[Sq(s, n)] = Created
    BY <1>1, <1>5, QPsDiffer DEF IInv
  <2>4. s \in handling'[n] <=> s \in handling[n]
    BY <1>1, <1>2 DEF IInv, TypeOK
  <2>5. PhaseInv(n, s)'
    BY <1>1, <1>2, <1>7, <2>1, <2>2, <2>3 DEF PairInv, PhaseInv, Created
  <2>6. PhaseInv(s, n)'
    BY <1>1, <1>2, <2>1, <2>2, <2>3, <2>4 DEF PairInv, PhaseInv
  <2>7. ownId[s] \in flagged'[n] <=> ownId[s] \in flagged[n]
    BY <1>1, <1>8, IdsDiffer DEF IInv
  <2>8. FlagInv(n, s)'
    BY <1>1, <1>2, <1>7, <2>1, <2>2, <2>3, <2>7 DEF PairInv, FlagInv, Claimed, Created
  <2>9. FlagInv(s, n)'
    <3>1. Claimed(s, n)' <=> Claimed(s, n)
      BY <2>1, <2>2, <2>3 DEF Claimed
    <3>2. ownId[n] \in flagged'[s]
      BY <1>8
    <3>3. ~(ownId[s] \in flagged'[n] /\ s \notin Servers)
      OBVIOUS
    <3> QED
      BY <1>2, <1>11, <3>1, <3>2, <3>3 DEF FlagInv
  <2>10. qps'[n][ownId[s]] = qps[n][ownId[s]]
    BY <1>1, <1>6, IdsDiffer DEF IInv
  <2>11. RecordInv(n, s)'
    BY <1>1, <1>2, <2>2, <2>3, <2>10 DEF PairInv, RecordInv, Kept, Made
  <2>12. RecordInv(s, n)'
    <3>1. ownId[n] \notin connected[s]
      BY <1>1, <1>11 DEF PairInv, RecordInv, Made
    <3>2. s \notin SrqClients
      BY NodesAssumption
    <3> QED
      BY <1>2, <1>6, <1>11, <2>2, <2>3, <3>1, <3>2 DEF RecordInv, Kept, Made, Created
  <2> QED
    BY <2>5, <2>6, <2>8, <2>9, <2>11, <2>12 DEF PairInv
<1>13. Touches(s, n)
  <2>1. \A x, y \in Nodes : {x, y} # {s, n} /\ y \in Servers => (x \in handling'[y] <=> x \in handling[y])
    BY <1>1, <1>7
  <2> QED
    BY <1>2, <1>3, <1>5, <1>6, <1>8, <2>1 DEF Touches
<1>14. RtsStays
  BY <1>1, <1>5 DEF RtsStays
<1>15. UsedInv' /\ PairsInv' /\ Stable
  BY <1>1, <1>2, <1>11, <1>12, <1>13, <1>14, TouchesOnePair
<1>16. ResultInv'
  BY <1>2, <1>4, <1>14, ResultsOfNobody
<1> QED
  BY <1>9, <1>10, <1>15, <1>16 DEF IInv

\* A queue pair that the server cannot create or initialize is recorded nowhere.
LEMMA AcceptFailsKeepsInv ==
  ASSUME IInv, NEW s \in Servers, NEW n \in Nodes, AcceptFails(s, n), UNCHANGED scenario
  PROVE  IInv' /\ Stable
<1>0. Receives(s, n) /\ s \in scenario.mayFail
  BY DEF AcceptFails
<1>1. /\ s \in Nodes /\ s # n /\ Registered(n) /\ Registered(s)
      /\ pc[n] = "wait" /\ Call(n) = s /\ Status(n, s) = "wait"
      /\ PairInv(n, s) /\ PairInv(s, n) /\ ownId[n] \in Ids
      /\ Cq(n, s) \in QPs /\ Sq(s, n) \in QPs /\ ServerQp(s, n) = Sq(s, n)
      /\ qp[Cq(n, s)] = Created /\ handling[s] = {} /\ qp[Sq(s, n)].state = "none"
  BY <1>0, RequestIsKnown DEF Receives
<1>2. /\ UNCHANGED <<ownId, scenario, sequencerVars, sockets, connections, reply, results, handling,
                     serving, qps, connected>>
      /\ flagged' = [flagged EXCEPT ![s] = @ \cup {ownId[n]}]
      /\ CreateFails(Sq(s, n))
      /\ Goto(n, "refused")
  BY <1>1 DEF AcceptFails, serverVars
<1>3. /\ pc' \in [Nodes -> Labels] /\ pc'[n] = "refused"
      /\ \A x \in Nodes \ {n} : pc'[x] = pc[x]
  BY <1>2, GotoTypes DEF IInv, Labels
<1>4. Moves(n, s, "refused")
  BY <1>1, <1>2, GotoMoves DEF IInv, InConnect
<1>5. /\ qp' \in [QPs -> [state : {"none", "reset", "init", "rts", "destroyed"}, remote : QPs \cup {NoQp}]]
      /\ qp'[Sq(s, n)].state \in {"none", "reset"}
      /\ \A q \in QPs \ {Sq(s, n)} : qp'[q] = qp[q]
  BY <1>1, <1>2, FailedQp DEF IInv
<1>6. /\ flagged' \in [Nodes -> SUBSET Ids] /\ ownId[n] \in flagged'[s]
      /\ \A x \in Nodes, i \in Ids : ~(x = s /\ i = ownId[n]) => (i \in flagged'[x] <=> i \in flagged[x])
  BY <1>1, <1>2 DEF IInv, TypeOK
<1>7. TypeOK'
  BY <1>2, <1>3, <1>5, <1>6 DEF IInv, TypeOK, sequencerVars, Labels
<1>8. SequencerInv' /\ CallInv'
  <2>1. handling'[s] = {} /\ \A t \in Servers \ {s} : handling'[t] = handling[t]
    BY <1>1, <1>2
  <2> QED
    BY <1>0, <1>2, <1>3, <1>4, <2>1, HandlerKeepsCalls
\* If the server has claimed the connection too, its id is the smaller one.
<1>9. Claimed(s, n) => ownId[s] < ownId[n]
  <2>1. Claimed(s, n) => ownId[n] \in flagged[s]
    BY <1>1 DEF PairInv, FlagInv
  <2>2. ownId[n] \in Int /\ ownId[s] \in Int /\ ownId[n] # ownId[s]
    BY <1>1, IdsDiffer DEF IInv, Ids
  <2> QED
    BY <2>1, <2>2 DEF AcceptFails, backsOff
<1>10. PairInv(n, s)' /\ PairInv(s, n)'
  <2>1. Status(n, s)' = "refused" /\ Status(s, n)' = Status(s, n)
    BY <1>1, <1>4 DEF Moves
  <2>2. /\ Cq(n, s)' = Cq(n, s) /\ Sq(n, s)' = Sq(n, s)
        /\ Cq(s, n)' = Cq(s, n) /\ Sq(s, n)' = Sq(s, n)
    BY <1>2 DEF Cq, Sq
  <2>3. /\ qp'[Cq(n, s)] = Created /\ qp'[Sq(n, s)] = qp[Sq(n, s)]
        /\ qp'[Cq(s, n)] = qp[Cq(s, n)]
    BY <1>1, <1>5, QPsDiffer DEF IInv
  <2>4. PhaseInv(n, s)' /\ PhaseInv(s, n)'
    BY <1>0, <1>1, <1>2, <1>5, <2>1, <2>2, <2>3 DEF PairInv, PhaseInv, Created
  <2>5. ownId[s] \in flagged'[n] <=> ownId[s] \in flagged[n]
    BY <1>1, <1>6, IdsDiffer DEF IInv
  <2>6. FlagInv(n, s)'
    BY <1>1, <1>2, <2>1, <2>2, <2>3, <2>5 DEF PairInv, FlagInv, Claimed, Created
  <2>7. FlagInv(s, n)'
    <3>1. Claimed(s, n)' <=> Claimed(s, n)
      BY <2>1, <2>2, <2>3 DEF Claimed
    <3> QED
      BY <1>2, <1>6, <1>9, <3>1 DEF FlagInv
  <2>8. RecordInv(n, s)' /\ RecordInv(s, n)'
    BY <1>1, <1>2, <1>5, <2>2, <2>3 DEF PairInv, RecordInv, Kept, Made
  <2> QED
    BY <2>4, <2>6, <2>7, <2>8 DEF PairInv
<1>11. Touches(s, n)
  BY <1>1, <1>2, <1>4, <1>5, <1>6 DEF Touches, Moves
<1>12. RtsStays
  BY <1>1, <1>5 DEF RtsStays
<1>13. UsedInv' /\ PairsInv' /\ Stable
  BY <1>1, <1>2, <1>10, <1>11, <1>12, TouchesOnePair
<1>14. ResultInv'
  BY <1>2, <1>4, <1>12, ResultsOfNobody
<1> QED
  BY <1>7, <1>8, <1>13, <1>14 DEF IInv

\* The server connects it to that of the request.
LEMMA ConnectedKeepsInv ==
  ASSUME IInv, NEW s \in Servers, NEW n \in Nodes, Connected(s, n), UNCHANGED scenario
  PROVE  IInv' /\ Stable
<1>0. n \in handling[s]
  BY DEF Connected
<1>1. /\ s \in Nodes /\ s # n /\ Registered(n) /\ Registered(s)
      /\ pc[n] = "wait" /\ Call(n) = s /\ Status(n, s) = "wait"
      /\ PairInv(n, s) /\ PairInv(s, n) /\ ownId[n] \in Ids
      /\ Cq(n, s) \in QPs /\ Sq(s, n) \in QPs /\ ServerQp(s, n) = Sq(s, n) /\ ClientQp(n) = Cq(n, s)
      /\ qp[Cq(n, s)] = Created /\ qp[Sq(s, n)] = Created
  BY <1>0, RequestIsKnown
<1>2. qp[Sq(n, s)].state = "none" /\ ownId[n] \notin connected[s]
  <2>1. qp[Sq(n, s)].state = "none"
    BY <1>1, OneIsServed DEF Created
  <2>2. s \notin SrqClients
    BY NodesAssumption
  <2>3. qp[Cq(s, n)].state # "rts"
    BY <1>1, <2>1, <2>2 DEF PairInv, PhaseInv, Created, Rts, Status, InConnect
  <2> QED
    BY <1>1, <2>1, <2>3 DEF PairInv, RecordInv, Created, Made
<1>3. /\ UNCHANGED <<ownId, scenario, sequencerVars, sockets, connections, results, flagged, serving, qps>>
      /\ connected' = [connected EXCEPT ![s] = @ \cup {ownId[n]}]
      /\ qp' = [qp EXCEPT ![Sq(s, n)] = Rts(Cq(n, s))]
      /\ reply' = [reply EXCEPT ![n] = Sq(s, n)]
      /\ handling' = [handling EXCEPT ![s] = {}]
      /\ Goto(n, "adopt")
  BY <1>1, <1>2 DEF Connected, connectQP, Rts
<1>4. /\ pc' \in [Nodes -> Labels] /\ pc'[n] = "adopt"
      /\ \A x \in Nodes \ {n} : pc'[x] = pc[x]
  BY <1>3, GotoTypes DEF IInv, Labels
<1>5. Moves(n, s, "adopt")
  BY <1>1, <1>3, GotoMoves DEF IInv, InConnect
<1>6. /\ qp' \in [QPs -> [state : {"none", "reset", "init", "rts", "destroyed"}, remote : QPs \cup {NoQp}]]
      /\ qp'[Sq(s, n)] = Rts(Cq(n, s)) /\ \A q \in QPs \ {Sq(s, n)} : qp'[q] = qp[q]
  BY <1>1, <1>3 DEF IInv, TypeOK, Rts
<1>7. /\ connected' \in [Nodes -> SUBSET Ids]
      /\ \A x \in Nodes, i \in Ids : ~(x = s /\ i = ownId[n]) =>
            (i \in connected'[x] <=> i \in connected[x])
  BY <1>1, <1>3 DEF IInv, TypeOK
<1>8. /\ handling' \in [Servers -> SUBSET Nodes] /\ handling'[s] = {}
      /\ \A t \in Servers \ {s} : handling'[t] = handling[t]
  BY <1>3 DEF IInv, TypeOK
<1>9. /\ reply' \in [Nodes -> QPs \cup {NoQp}] /\ reply'[n] = Sq(s, n)
      /\ \A x \in Nodes \ {n} : reply'[x] = reply[x]
  BY <1>1, <1>3 DEF IInv, TypeOK
<1>10. TypeOK'
  BY <1>3, <1>4, <1>6, <1>7, <1>8, <1>9 DEF IInv, TypeOK, sequencerVars, Labels
<1>11. SequencerInv' /\ CallInv'
  BY <1>0, <1>3, <1>4, <1>5, <1>8, HandlerKeepsCalls
<1>12. PairInv(n, s)' /\ PairInv(s, n)'
  <2>1. Status(n, s)' = "adopt" /\ Status(s, n)' = Status(s, n)
    BY <1>1, <1>5 DEF Moves
  <2>2. /\ Cq(n, s)' = Cq(n, s) /\ Sq(n, s)' = Sq(n, s)
        /\ Cq(s, n)' = Cq(s, n) /\ Sq(s, n)' = Sq(s, n)
    BY <1>3 DEF Cq, Sq
  <2>3. /\ qp'[Cq(n, s)] = Created /\ qp'[Sq(n, s)] = qp[Sq(n, s)]
        /\ qp'[Cq(s, n)] = qp[Cq(s, n)] /\ qp'[Sq(s, n)] = Rts(Cq(n, s))
    BY <1>1, <1>6, QPsDiffer DEF IInv
  <2>4. s \in handling'[n] <=> s \in handling[n]
    BY <1>1, <1>3 DEF IInv, TypeOK
  <2>5. PhaseInv(n, s)'
    BY <1>1, <1>3, <1>9, <2>1, <2>2, <2>3 DEF PairInv, PhaseInv, Created, Rts
  <2>6. PhaseInv(s, n)'
    <3>1. reply'[s] = reply[s]
      BY <1>1, <1>9
    <3> QED
      BY <1>1, <1>3, <2>1, <2>2, <2>3, <2>4, <3>1 DEF PairInv, PhaseInv
  <2>7. FlagInv(n, s)' /\ FlagInv(s, n)'
    BY <1>1, <1>3, <2>1, <2>2, <2>3 DEF PairInv, FlagInv, Claimed, Created, Rts
  <2>8. ownId[s] \in connected'[n] <=> ownId[s] \in connected[n]
    BY <1>1, <1>7, IdsDiffer DEF IInv
  <2>9. RecordInv(n, s)'
    BY <1>1, <1>3, <2>2, <2>3, <2>8 DEF PairInv, RecordInv, Kept, Made
  <2>10. RecordInv(s, n)'
    BY <1>1, <1>3, <2>2, <2>3 DEF PairInv, RecordInv, Kept, Made, Created, Rts
  <2> QED
    BY <2>5, <2>6, <2>7, <2>9, <2>10 DEF PairInv
<1>13. Touches(s, n)
  <2>1. \A x, y \in Nodes : {x, y} # {s, n} =>
           /\ y \in Servers => (x \in handling'[y] <=> x \in handling[y])
           /\ Status(x, y) = "adopt" => reply'[x] = reply[x]
    <3> SUFFICES ASSUME NEW x \in Nodes, NEW y \in Nodes, {x, y} # {s, n}
                 PROVE  /\ y \in Servers => (x \in handling'[y] <=> x \in handling[y])
                        /\ Status(x, y) = "adopt" => reply'[x] = reply[x]
      OBVIOUS
    <3>1. y = s => x \notin handling[y]
      BY <1>0 DEF IInv, CallInv
    <3>2. Status(x, y) = "adopt" => x # n
      BY <1>1 DEF Status
    <3> QED
      BY <1>8, <1>9, <3>1, <3>2
  <2> QED
    BY <1>3, <1>5, <1>6, <1>7, <2>1 DEF Touches, Moves
<1>14. RtsStays
  BY <1>1, <1>6 DEF RtsStays, Created
<1>15. UsedInv' /\ PairsInv' /\ Stable
  BY <1>1, <1>3, <1>12, <1>13, <1>14, TouchesOnePair
<1>16. ResultInv'
  BY <1>3, <1>5, <1>14, ResultsOfNobody
<1> QED
  BY <1>10, <1>11, <1>15, <1>16 DEF IInv

\* It stays recorded, but is never ready.
LEMMA ConnectedFailsKeepsInv ==
  ASSUME IInv, NEW s \in Servers, NEW n \in Nodes, ConnectedFails(s, n), UNCHANGED scenario
  PROVE  IInv' /\ Stable
<1>0. n \in handling[s] /\ scenario.mayFail # {}
  BY DEF ConnectedFails
<1>1. /\ s \in Nodes /\ s # n /\ Registered(n) /\ Registered(s)
      /\ pc[n] = "wait" /\ Call(n) = s /\ Status(n, s) = "wait"
      /\ PairInv(n, s) /\ PairInv(s, n)
      /\ qp[Cq(n, s)] = Created /\ qp[Sq(s, n)] = Created
  BY <1>0, RequestIsKnown
<1>2. /\ UNCHANGED <<ownId, scenario, sequencerVars, sockets, connections, reply, results, flagged,
                     serving, qp, qps, connected>>
      /\ handling' = [handling EXCEPT ![s] = {}]
      /\ Goto(n, "refused")
  BY DEF ConnectedFails, qpVars
<1>3. /\ pc' \in [Nodes -> Labels] /\ pc'[n] = "refused"
      /\ \A x \in Nodes \ {n} : pc'[x] = pc[x]
  BY <1>2, GotoTypes DEF IInv, Labels
<1>4. Moves(n, s, "refused")
  BY <1>1, <1>2, GotoMoves DEF IInv, InConnect
<1>5. /\ handling' \in [Servers -> SUBSET Nodes] /\ handling'[s] = {}
      /\ \A t \in Servers \ {s} : handling'[t] = handling[t]
  BY <1>2 DEF IInv, TypeOK
<1>6. TypeOK'
  BY <1>2, <1>3, <1>5 DEF IInv, TypeOK, sequencerVars, Labels
<1>7. SequencerInv' /\ CallInv'
  BY <1>0, <1>2, <1>3, <1>4, <1>5, HandlerKeepsCalls
<1>8. PairInv(n, s)' /\ PairInv(s, n)'
  <2>1. Status(n, s)' = "refused" /\ Status(s, n)' = Status(s, n)
    BY <1>1, <1>4 DEF Moves
  <2>2. /\ Cq(n, s)' = Cq(n, s) /\ Sq(n, s)' = Sq(n, s)
        /\ Cq(s, n)' = Cq(s, n) /\ Sq(s, n)' = Sq(s, n)
    BY <1>2 DEF Cq, Sq
  <2>3. s \in handling'[n] <=> s \in handling[n]
    BY <1>1, <1>2 DEF IInv, TypeOK
  <2>4. PhaseInv(n, s)' /\ PhaseInv(s, n)'
    BY <1>0, <1>1, <1>2, <2>1, <2>2, <2>3 DEF PairInv, PhaseInv, Created
  <2>5. FlagInv(n, s)' /\ FlagInv(s, n)'
    BY <1>1, <1>2, <2>1, <2>2 DEF PairInv, FlagInv, Claimed, Created
  <2>6. RecordInv(n, s)' /\ RecordInv(s, n)'
    BY <1>1, <1>2, <2>2 DEF PairInv, RecordInv, Kept, Made
  <2> QED
    BY <2>4, <2>5, <2>6 DEF PairInv
<1>9. Touches(s, n)
  <2>1. \A x, y \in Nodes : {x, y} # {s, n} /\ y \in Servers =>
           (x \in handling'[y] <=> x \in handling[y])
    <3> SUFFICES ASSUME NEW x \in Nodes, NEW y \in Servers, {x, y} # {s, n}
                 PROVE  x \in handling'[y] <=> x \in handling[y]
      OBVIOUS
    <3>1. y = s => x \notin handling[y]
      BY <1>0 DEF IInv, CallInv
    <3> QED
      BY <1>5, <3>1
  <2> QED
    BY <1>2, <1>4, <2>1 DEF Touches, Moves
<1>10. RtsStays
  BY <1>2 DEF RtsStays
<1>11. UsedInv' /\ PairsInv' /\ Stable
  BY <1>1, <1>2, <1>8, <1>9, <1>10, TouchesOnePair
<1>12. ResultInv'
  BY <1>2, <1>4, <1>10, ResultsOfNobody
<1> QED
  BY <1>6, <1>7, <1>11, <1>12 DEF IInv

\* A new node has nothing yet, nor has anybody anything for it.
LEMMA RegisterKeepsInv ==
  ASSUME IInv, NEW n \in Nodes, Register(n), UNCHANGED scenario
  PROVE  IInv' /\ Stable
<1> DEFINE R == {x \in Nodes : Registered(x)}
<1>1. pc[n] = "idle" /\ ~Registered(n) /\ ownId[n] = NoId
  BY DEF Register, Registered
<1>2. /\ UNCHANGED <<scenario, pc, sockets, connections, reply, results, flagged, serving, handling,
                     qp, qps, connected>>
      /\ nextNodeID' = nextNodeID + 1 /\ entries' = Append(entries, n)
      /\ idOf' = IF n \in Servers THEN [idOf EXCEPT ![n] = nextNodeID] ELSE idOf
      /\ ownId' = [ownId EXCEPT ![n] = nextNodeID]
  BY DEF Register, NodeIDRequest, getNextNodeID, serverVars, qpVars
<1>3. /\ IsFiniteSet(R) /\ Cardinality(R) \in Nat /\ Cardinality(R) = nextNodeID
      /\ n \notin R /\ Cardinality(R \cup {n}) = nextNodeID + 1
  <2>1. IsFiniteSet(R)
    BY NodesAssumption, FS_Subset
  <2>2. n \notin R
    BY <1>1
  <2> QED
    BY <2>1, <2>2, FS_CardinalityType, FS_AddElement DEF IInv, SequencerInv
<1>4. nextNodeID \in Ids /\ nextNodeID # NoId
  <2>1. R \cup {n} \subseteq Nodes
    OBVIOUS
  <2>2. Cardinality(R \cup {n}) <= Cardinality(Nodes) /\ Cardinality(Nodes) \in Nat
    BY <2>1, NodesAssumption, FS_Subset, FS_CardinalityType
  <2> QED
    BY <1>3, <2>2 DEF Ids, NoId
<1>5. /\ ownId' \in [Nodes -> Ids \cup {NoId}] /\ ownId'[n] = nextNodeID
      /\ \A x \in Nodes \ {n} : ownId'[x] = ownId[x]
  BY <1>2, <1>4 DEF IInv, TypeOK
<1>6. \A x \in Nodes : ownId[x] # nextNodeID
  <2>1. \A x \in Nodes : ownId[x] = NoId \/ (ownId[x] < nextNodeID /\ ownId[x] \in Ids)
    BY DEF IInv, SequencerInv, TypeOK, Registered
  <2> QED
    BY <1>4, <2>1 DEF Ids
<1>7. \A x, y \in Nodes : Status(x, y)' = Status(x, y)
  BY <1>2 DEF Status, Call
<1>8. /\ entries' \in Seq(Nodes) /\ Len(entries') = Len(entries) + 1 /\ Len(entries) \in Nat
      /\ \A k \in 1 .. Len(entries) : entries'[k] = entries[k]
      /\ entries'[Len(entries) + 1] = n
  BY <1>2 DEF IInv, TypeOK
<1>9. /\ idOf' \in [Servers -> Ids \cup {NoId}]
      /\ \A s \in Servers : idOf'[s] = ownId'[s]
  BY <1>2, <1>4, <1>5, NodesAssumption DEF IInv, TypeOK, SequencerInv
<1>10. TypeOK'
  <2>1. nextNodeID' \in Nat
    BY <1>2, <1>3
  <2> QED
    BY <1>2, <1>5, <1>8, <1>9, <2>1 DEF IInv, TypeOK
<1>11. SequencerInv'
  <2>1. {x \in Nodes : Registered(x)}' = R \cup {n}
    BY <1>4, <1>5 DEF Registered
  <2>2. \A x \in R : ownId[x] + 1 \in 1 .. Len(entries) /\ ownId[x] < nextNodeID
                     /\ entries[ownId[x] + 1] = x
    BY DEF IInv, SequencerInv, TypeOK, Registered, Ids
  <2>3. nextNodeID = Len(entries)
    BY DEF IInv, SequencerInv
  <2>4. ASSUME NEW x \in R \cup {n} PROVE ownId'[x] < nextNodeID' /\ entries'[ownId'[x] + 1] = x
    <3>1. CASE x = n
      BY <1>2, <1>3, <1>5, <1>8, <2>3, <3>1
    <3>2. CASE x \in R /\ x # n
      <4>1. ownId'[x] = ownId[x] /\ ownId[x] < nextNodeID /\ ownId[x] \in Ids
        BY <1>5, <2>2, <3>2 DEF IInv, TypeOK, Registered
      <4> QED
        BY <1>2, <1>3, <1>8, <2>2, <3>2, <4>1 DEF Ids
    <3> QED
      BY <3>1, <3>2
  <2>5. \A x \in Nodes : Registered(x)' <=> x \in R \cup {n}
    BY <2>1
  <2> QED
    BY <1>2, <1>3, <1>8, <1>9, <2>1, <2>3, <2>4, <2>5 DEF SequencerInv
<1>12. CallInv'
  <2>1. ASSUME NEW x \in Nodes PROVE NodeInv(x)'
    <3>1. NodeInv(x)
      BY DEF IInv, CallInv
    <3>2. CASE pc[x] \in InConnect
      <4>1. PICK m \in Nodes : m = Call(x)
        BY <3>2, InConnectIsKnown
      <4>2. Call(x)' = m
        BY <1>2, <4>1 DEF Call
      <4>3. x # n /\ ownId'[x] = ownId[x]
        BY <1>1, <1>5, <3>2 DEF InConnect
      <4>4. Registered(m) => ownId'[m] = ownId[m]
        BY <1>1, <1>5
      <4> QED
        BY <1>2, <3>1, <3>2, <4>1, <4>2, <4>3, <4>4 DEF NodeInv, HasCall, Registered, TargetId
    <3>3. CASE pc[x] \notin InConnect
      BY <1>2, <3>1, <3>3 DEF NodeInv
    <3> QED
      BY <3>2, <3>3
  <2>2. \A s \in Servers : \A x \in handling[s] : Status(x, s)' = "wait"
    BY <1>7, NodesAssumption DEF IInv, CallInv, TypeOK
  <2> QED
    BY <1>2, <2>1, <2>2 DEF IInv, CallInv
<1>13. UsedInv'
  <2> SUFFICES ASSUME NEW x \in Nodes, NEW i \in Ids, Peers(x, i)
               PROVE  Peers(x, i)'
    BY <1>2 DEF IInv, UsedInv, Ids
  <2>1. PICK m \in Nodes \ {x} : ownId[m] = i
    BY DEF Peers
  <2>2. m # n /\ x # n
    BY <1>1, <2>1 DEF Peers, Ids, NoId
  <2> QED
    BY <1>5, <2>1, <2>2 DEF Peers, Registered
<1>14. PairsInv'
  <2> SUFFICES ASSUME NEW x \in Nodes, NEW y \in Nodes, x # y, Registered(x)', Registered(y)'
               PROVE  PairInv(x, y)'
    BY DEF PairsInv
  <2>1. Status(x, y)' = Status(x, y)
    BY <1>7
  <2>2. CASE x # n /\ y # n
    <3>1. ownId'[x] = ownId[x] /\ ownId'[y] = ownId[y]
      BY <1>5, <2>2
    <3>2. PairInv(x, y)
      BY <3>1 DEF IInv, PairsInv, Registered
    <3>3. Cq(x, y)' = Cq(x, y) /\ Sq(x, y)' = Sq(x, y) /\ Sq(y, x)' = Sq(y, x)
      BY <3>1 DEF Cq, Sq
    <3>4. PhaseInv(x, y)'
      BY <1>2, <2>1, <3>1, <3>2, <3>3 DEF PairInv, PhaseInv
    <3>5. FlagInv(x, y)' /\ RecordInv(x, y)'
      BY <1>2, <2>1, <3>1, <3>2, <3>3 DEF PairInv, FlagInv, RecordInv, Claimed, Kept, Made
    <3> QED
      BY <3>4, <3>5 DEF PairInv
  <2>3. CASE x = n \/ y = n
    <3>1. ownId'[x] \in Ids /\ ownId'[y] \in Ids
      BY <1>5 DEF Registered
    <3>2. ~Peers(x, ownId'[y]) /\ ~Peers(y, ownId'[x])
      BY <1>1, <1>5, <1>6, <2>3 DEF Peers
    <3>3. /\ qp'[Cq(x, y)'].state = "none" /\ qp'[Sq(x, y)'].state = "none"
          /\ qp'[Cq(y, x)'].state = "none" /\ qp'[Sq(y, x)'].state = "none"
          /\ qps'[x][ownId'[y]] = NoQp /\ ownId'[y] \notin connected'[x]
          /\ ownId'[y] \notin flagged'[x] /\ ownId'[x] \notin flagged'[y]
      BY <1>2, <3>1, <3>2 DEF IInv, UsedInv, Cq, Sq
    <3>4. Status(x, y) \in {"apart", "lookup"}
      <4>1. NodeInv(x)
        BY DEF IInv, CallInv
      <4>2. ~Registered(x) \/ ~Registered(y)
        BY <1>1, <2>3
      <4> QED
        BY <4>1, <4>2 DEF NodeInv, Status, InConnect
    <3>5. PhaseInv(x, y)'
      BY <2>1, <3>3, <3>4 DEF PhaseInv
    <3>6. FlagInv(x, y)' /\ RecordInv(x, y)'
      BY <2>1, <3>3, <3>4 DEF FlagInv, RecordInv, Claimed, Kept, Made
    <3> QED
      BY <3>5, <3>6 DEF PairInv
  <2> QED
    BY <2>2, <2>3
<1>15. ResultInv'
  <2> SUFFICES ASSUME scenario.mayFail = {}, NEW x \in Nodes \ Servers PROVE ResultsTrue(x)'
    BY <1>2 DEF ResultInv
  <2>1. \A s \in Nodes : TrueOf(x, s) => TrueOf(x, s)' /\ ownId'[s] = ownId[s]
    BY <1>1, <1>2, <1>5 DEF TrueOf, Registered, Cq
  <2>2. ResultsTrue(x) /\ sockets[x] \subseteq Servers
    BY DEF IInv, ResultInv, TypeOK
  <2>3. ASSUME NEW k \in DOMAIN results[x], AllOk(results[x], k), NEW c, c = results[x][k].call
        PROVE  c \in Servers /\ TrueOf(x, c)' /\ ownId'[c] = results[x][k].id
    <3>1. c \in Servers /\ TrueOf(x, c) /\ ownId[c] = results[x][k].id
      BY <2>2, <2>3 DEF ResultsTrue
    <3> QED
      BY <2>1, <3>1, NodesAssumption
  <2>4. \A s \in Servers : Status(x, s)' = Status(x, s)
    BY <1>7, NodesAssumption
  <2>5. AllOk(results[x], Len(results[x])) =>
            \A s \in sockets[x] : Status(x, s)' = "apart" => TrueOf(x, s)'
    BY <2>1, <2>2, <2>4, NodesAssumption DEF ResultsTrue
  <2> QED
    BY <1>2, <2>3, <2>5 DEF ResultsTrue, TrueOf, Registered, Cq
<1>16. Stable
  BY <1>2 DEF Stable
<1> QED
  BY <1>10, <1>11, <1>12, <1>13, <1>14, <1>15, <1>16 DEF IInv

-----------------------------------------------------------------------------
\* In the beginning nobody is registered.
LEMMA InitEstablishesInv ==
  ASSUME NoneToItself, Init
  PROVE  IInv
<1>1. \A n \in Nodes : ~Registered(n) /\ pc[n] = "idle" /\ results[n] = <<>>
  BY DEF Init, Registered
<1>2. TypeOK
  <2>1. <<>> \in Seq(Nodes) /\ <<>> \in Seq([call : Servers \cup {Start}, ok : BOOLEAN, id : Ids])
    OBVIOUS
  <2>2. connections \in [Nodes -> [Servers -> Ids]]
    BY ZeroIsId, NodesAssumption DEF Init
  <2> QED
    BY <2>1, <2>2 DEF Init, TypeOK
<1>3. SequencerInv
  <2>1. {n \in Nodes : Registered(n)} = {}
    BY <1>1
  <2>2. Cardinality({n \in Nodes : Registered(n)}) = 0
    BY <2>1, FS_EmptySet
  <2>3. \A s \in Servers : idOf[s] = ownId[s]
    BY NodesAssumption DEF Init
  <2>4. nextNodeID = Len(entries)
    BY DEF Init
  <2> QED
    BY <1>1, <2>2, <2>3, <2>4 DEF Init, SequencerInv
<1>4. UsedInv
  BY DEF UsedInv, Init, QPs
<1>5. CallInv
  BY <1>1 DEF CallInv, NodeInv, InConnect, Init
<1>6. PairsInv
  BY <1>1 DEF PairsInv
<1>7. ResultInv
  <2>1. \A n \in Nodes : DOMAIN results[n] = {} /\ sockets[n] = {}
    BY <1>1 DEF Init
  <2> QED
    BY <2>1 DEF ResultInv, ResultsTrue
<1> QED
  BY <1>2, <1>3, <1>4, <1>5, <1>6, <1>7 DEF IInv

\* Every step of a caller or a server preserves the invariant.
LEMMA NextKeepsInv ==
  ASSUME IInv, [Next]_vars
  PROVE  IInv' /\ [Stable]_vars
<1>1. CASE UNCHANGED vars
  <2>1. UNCHANGED <<scenario, nextNodeID, entries, idOf, ownId, pc, sockets, connections, reply,
                    results, flagged, serving, handling, qp, qps, connected>>
    BY <1>1 DEF vars, progress, sequencerVars, callVars, serverVars, qpVars
  <2>2. TypeOK' /\ SequencerInv' /\ UsedInv'
    <3>1. TypeOK'
      BY <2>1 DEF IInv, TypeOK
    <3>2. SequencerInv'
      BY <2>1 DEF IInv, SequencerInv, Registered
    <3>3. UsedInv'
      BY <2>1 DEF IInv, UsedInv, Registered, Peers
    <3> QED
      BY <3>1, <3>2, <3>3
  <2>3. \A x, y \in Nodes : Status(x, y)' = Status(x, y)
    BY <2>1 DEF Status, Call
  <2>4. CallInv'
    <3>1. \A x \in Nodes : NodeInv(x)'
      BY <2>1, NodeFrame DEF IInv, CallInv
    <3>2. \A s \in Servers : \A x \in handling[s] : Status(x, s)' = "wait"
      BY <2>3, NodesAssumption DEF IInv, CallInv, TypeOK
    <3> QED
      BY <2>1, <3>1, <3>2 DEF IInv, CallInv
  <2>5. \A x, y \in Nodes : SamePair(x, y)
    BY <2>1, <2>3 DEF SamePair
  <2>6. PairsInv'
    BY <2>1, <2>5, SamePairKeepsInv DEF IInv, PairsInv, Registered
  <2>7. RtsStays
    BY <2>1 DEF RtsStays
  <2>8. ResultInv'
    <3> SUFFICES ASSUME scenario.mayFail = {}, NEW x \in Nodes \ Servers PROVE ResultsTrue(x)'
      BY <2>1 DEF ResultInv
    <3> QED
      BY <2>1, <2>3, <2>7, NodesAssumption, ResultsStay DEF IInv, ResultInv
  <2> QED
    BY <1>1, <2>2, <2>4, <2>6, <2>8 DEF IInv
<1>2. ASSUME NEW n \in Nodes, Caller(n), UNCHANGED scenario PROVE IInv' /\ Stable
  BY <1>2, RegisterKeepsInv, StartServerKeepsInv, ConnectAgainKeepsInv, ConnectKeepsInv,
     LookUpKeepsInv, GiveUpKeepsInv, ClaimKeepsInv, RequestKeepsInv,
     RequestFailsKeepsInv, AdoptKeepsInv, RefusedKeepsInv, RefusedSrqKeepsInv DEF Caller
<1>3. ASSUME NEW s \in Servers, Handler(s), UNCHANGED scenario PROVE IInv' /\ Stable
  BY <1>3, RefuseKeepsInv, AcceptKeepsInv, AcceptFailsKeepsInv, ConnectedKeepsInv,
     ConnectedFailsKeepsInv DEF Handler
<1> QED
  BY <1>1, <1>2, <1>3 DEF Next

\* Nothing is used but for the connection to another node.
LEMMA UsedIsOfAPair ==
  ASSUME IInv, NEW n \in Nodes, NEW i \in Ids, Peers(n, i)
  PROVE  \E m \in Nodes \ {n} :
            Registered(n) /\ Registered(m) /\ ownId[m] = i /\ PairInv(n, m) /\ PairInv(m, n)
<1>1. PICK m \in Nodes \ {n} : Registered(n) /\ ownId[m] = i
  BY DEF Peers
<1>2. Registered(m)
  BY <1>1 DEF Registered, Ids, NoId
<1> QED
  BY <1>1, <1>2 DEF IInv, PairsInv

\* A queue pair exists while it is recorded or its request is under way, but for one
\* that could not be initialized.
LEMMA InvKeepsRecords ==
  ASSUME IInv
  PROVE  NoOtherLeaks
<1> SUFFICES ASSUME NEW q \in QPs, qp[q].state \in {"reset", "init", "rts"}
             PROVE  Recorded(q) \/ OfRequest(q) \/ Abandoned(q)
  BY DEF NoOtherLeaks
<1>1. PICK n \in Nodes, i \in Ids, side \in {"client", "server"} : q = <<n, i, side>>
  BY DEF QPs
<1>2. Owner(q) = n /\ q[2] = i
  BY <1>1 DEF Owner
<1>3. Peers(n, i)
  BY <1>1 DEF IInv, UsedInv
<1>4. PICK m \in Nodes \ {n} : /\ Registered(n) /\ Registered(m) /\ ownId[m] = i
                               /\ PairInv(n, m) /\ PairInv(m, n)
  BY <1>3, UsedIsOfAPair
<1>5. q = Sq(n, m) \/ q = Cq(n, m)
  BY <1>1, <1>4 DEF Sq, Cq
<1>6. CASE qp[q].state = "reset"
  BY <1>2, <1>4, <1>5, <1>6 DEF PairInv, PhaseInv, Abandoned
<1>7. CASE qp[q].state # "reset" /\ q = Sq(n, m)
  BY <1>2, <1>4, <1>7 DEF PairInv, RecordInv, Made, Recorded
<1>8. CASE qp[q].state # "reset" /\ q = Cq(n, m)
  <2>1. CASE Kept(n, m)
    BY <1>2, <1>4, <1>8, <2>1 DEF PairInv, RecordInv, Recorded
  <2>2. CASE ~Kept(n, m)
    <3>1. Status(n, m) \in {"wait", "adopt", "refused"}
      BY <1>4, <1>8, <2>2 DEF PairInv, PhaseInv, Kept, Made, Rts, Status, InConnect
    <3>2. pc[n] \in {"wait", "adopt", "refused"} /\ Call(n) = m
      BY <3>1 DEF Status
    <3>3. ClientQp(n) = Cq(n, m)
      BY <3>2, InConnectIsKnown DEF InConnect
    <3> QED
      BY <1>2, <1>8, <3>2, <3>3 DEF OfRequest
  <2> QED
    BY <2>1, <2>2
<1> QED
  BY <1>5, <1>6, <1>7, <1>8

\* A connect() that is over has left both of its queue pairs, connected to each
\* other, or none that is recorded.
LEMMA InvPairs ==
  ASSUME IInv
  PROVE  ConnectionsPaired
<1> SUFFICES ASSUME NEW n \in Nodes, NEW m \in Nodes, Registered(n), Registered(m),
                    scenario.mayFail = {}, Settled(n, m),
                    qps[n][ownId[m]] # NoQp, qps[m][ownId[n]] # NoQp
             PROVE  Paired(qps[n][ownId[m]], qps[m][ownId[n]])
  BY DEF ConnectionsPaired, Registered
<1>1. n # m
  <2>1. ownId[n] \in Ids /\ \A x \in Nodes \ {n} : ownId[x] # ownId[n]
    BY IdsDiffer DEF IInv
  <2>2. ~Peers(n, ownId[n])
    BY <2>1 DEF Peers
  <2>3. qps[n][ownId[n]] = NoQp
    BY <2>1, <2>2 DEF IInv, UsedInv
  <2> QED
    BY <2>3
<1>2. PairInv(n, m) /\ PairInv(m, n)
  BY <1>1 DEF IInv, PairsInv
<1> DEFINE Ends(x, y) == qp[Cq(x, y)] = Rts(Sq(y, x)) /\ qp[Sq(y, x)] = Rts(Cq(x, y))
           Nothing(x, y) == ~Kept(x, y) /\ qp[Sq(y, x)].state = "none"
<1>3. /\ Status(n, m) \in {"apart", "lookup", "claim"}
      /\ Status(m, n) \in {"apart", "lookup", "claim"}
  BY DEF Settled, Underway, Status, InConnect
<1>4. Ends(n, m) \/ Nothing(n, m)
  BY <1>2, <1>3 DEF PairInv, PhaseInv, Kept, Made
<1>5. Ends(m, n) \/ Nothing(m, n)
  BY <1>2, <1>3 DEF PairInv, PhaseInv, Kept, Made
<1>6. Ends(n, m) \/ Ends(m, n)
  BY <1>2, <1>4, <1>5 DEF PairInv, RecordInv, Made
<1>7. /\ Cq(n, m) # NoQp /\ Sq(n, m) # NoQp
      /\ Cq(m, n) # NoQp /\ Sq(m, n) # NoQp
  BY QPsDiffer, TypeParts DEF IInv
<1>8. CASE Ends(n, m)
  <2>1. qps[n][ownId[m]] = Cq(n, m) /\ qps[m][ownId[n]] = Sq(m, n)
    BY <1>2, <1>8 DEF PairInv, RecordInv, Kept, Made, Rts
  <2> QED
    BY <1>7, <1>8, <2>1 DEF Paired, Ready, Rts
<1>9. CASE Ends(m, n)
  <2>1. qps[n][ownId[m]] = Sq(n, m) /\ qps[m][ownId[n]] = Cq(m, n)
    BY <1>2, <1>9 DEF PairInv, RecordInv, Kept, Made, Rts
  <2> QED
    BY <1>7, <1>9, <2>1 DEF Paired, Ready, Rts
<1> QED
  BY <1>6, <1>8, <1>9

\* What a client has been told is so.
LEMMA InvConnectsClients ==
  ASSUME IInv
  PROVE  ClientIsConnected
<1> SUFFICES ASSUME NEW n \in Nodes \ Servers, NEW k \in DOMAIN results[n],
                    scenario.mayFail = {}, AllOk(results[n], k)
             PROVE  LeadsTo(n, results[n][k])
  BY DEF ClientIsConnected, AllOk
<1>1. PICK s \in Servers : /\ s = results[n][k].call
                           /\ TrueOf(n, s) /\ ownId[s] = results[n][k].id
  BY DEF IInv, ResultInv, ResultsTrue
<1>2. s # n /\ s \in Nodes /\ Registered(s) /\ qp[Cq(n, s)].state = "rts"
  BY <1>1, NodesAssumption DEF TrueOf
<1>3. ownId[s] \in Ids
  BY <1>2, IdsDiffer DEF IInv
<1>4. Registered(n)
  BY <1>2, <1>3 DEF IInv, UsedInv, Peers, Cq
<1>5. PhaseInv(n, s) /\ RecordInv(n, s)
  BY <1>2, <1>4 DEF IInv, PairsInv, PairInv
<1>6. qp[Cq(n, s)] = Rts(Sq(s, n))
  BY <1>2, <1>5 DEF PhaseInv, Created, Status, InConnect
<1>7. qps[n][ownId[s]] = Cq(n, s) /\ Cq(n, s) # NoQp
  BY <1>2, <1>5, QPsDiffer, TypeParts DEF RecordInv, Kept, Made, IInv
<1>8. idOf[s] = ownId[s]
  BY DEF IInv, SequencerInv
<1> QED
  BY <1>1, <1>2, <1>6, <1>7, <1>8 DEF LeadsTo, Ready, Owner, Rts, Sq

-----------------------------------------------------------------------------
\* The inductive invariant holds.
THEOREM InvariantHolds == NoneToItself /\ Spec => []IInv
<1>1. NoneToItself /\ Init => IInv
  BY InitEstablishesInv
<1>2. IInv /\ [Next]_vars => IInv'
  BY NextKeepsInv
<1> QED
  BY <1>1, <1>2, PTL DEF Spec

\* However calls, refusals and failures interleave, the only queue pair that is lost
\* is one whose change to INIT has failed in initQPWithSuppliedID() (connect(),
\* connectQueue() and the destructors of RDMAClient and RDMAServer).
THEOREM ConnectionInvHolds == NoneToItself /\ Spec => []ConnectionInv
<1>1. IInv => ConnectionInv
  BY InvKeepsRecords DEF ConnectionInv, IInv
<1> QED
  BY <1>1, InvariantHolds, PTL

\* When two nodes connect to each other at the same time, the queue pairs that both
\* have recorded are the two ends of one connection (the order of the node ids in
\* RDMAServer::connectQueue()).
THEOREM ConnectionsPairedHolds == NoneToItself /\ Spec => []ConnectionsPaired
<1>1. IInv => ConnectionsPaired
  BY InvPairs
<1> QED
  BY <1>1, InvariantHolds, PTL

\* A client whose connect() has returned true has a connection to that server, under
\* the node id that was returned (RDMAClient::connect()).
THEOREM ClientIsConnectedHolds == NoneToItself /\ Spec => []ClientIsConnected
<1>1. IInv => ClientIsConnected
  BY InvConnectsClients
<1> QED
  BY <1>1, InvariantHolds, PTL

\* A connection that is ready to send is never replaced, destroyed or redirected.
THEOREM ConnectionStableHolds == NoneToItself /\ Spec => ConnectionStable
<1>1. IInv /\ [Next]_vars => [Stable]_vars
  BY NextKeepsInv
<1>2. NoneToItself /\ Spec => [][Stable]_vars
  BY <1>1, InvariantHolds, PTL DEF Spec
<1> QED
  BY <1>2 DEF ConnectionStable, Stable
=============================================================================
