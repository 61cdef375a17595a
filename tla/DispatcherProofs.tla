--------------------------- MODULE DispatcherProofs ---------------------------
(***************************************************************************)
(* However many processes, workers and receivers there are: a response     *)
(* finds the worker that waits for it, a receive is there for every        *)
(* response, and the benchmark with dispatchers keeps the promise of       *)
(* RequestReply.                                                           *)
(***************************************************************************)
EXTENDS Dispatcher, FiniteSetTheorems, SequenceTheorems, WellFoundedInduction, TLAPS

Body == [ptr : Workers \cup {"none"}, msgId : 0 .. Requests]
Request == [worker : Workers, dest : Receivers, id : Nat, msgId : 0 .. Requests]
Entry == [type : {"EMPTY", "ExpMsg"}, msg : [dest : Receivers, id : Nat, msgId : 0 .. Requests]]
Response == [ptr : Workers, id : Nat, copy : Body]

\* The types of all variables.
Types ==
    /\ mode \in Modes
    /\ wpc \in [Workers -> {"fill", "signal", "await", "finish", "done"}]
    /\ i \in [Workers -> 0 .. Requests]
    /\ reqBuffer \in [Workers -> Entry]
    /\ received \in [Workers -> {0, 1}]
    /\ respBuffer \in [Workers -> [flag : {0, 1}, body : Body]]
    /\ finishedTo \in [Workers -> SUBSET Receivers]
    /\ dpc \in [Dispatchers -> {"start", "loop", "scan", "poll", "empty", "release",
                                "finalize", "stopped"}]
    /\ reqId \in [Dispatchers -> Nat]
    /\ transfered \in [Workers -> BOOLEAN]
    /\ responseIdx \in [Dispatchers -> Seq(Workers)]
    /\ srq \in [Dispatchers -> Seq(Workers)] /\ cq \in [Dispatchers -> Seq(Workers)]
    /\ running \in [Dispatchers -> BOOLEAN]
    /\ rpc \in [Receivers -> {"poll", "done"}]
    /\ prepared \in [Receivers -> [0 .. PreparedResponses - 1 -> Body]]
    /\ clientsFinished \in [Receivers -> Nat]
    /\ requests \subseteq Request /\ finished \subseteq Workers \X Receivers
    /\ responses \in [Receivers -> [Dispatchers -> Seq(Response)]]
    /\ rnr \in BOOLEAN
    /\ issued \in [Workers -> 0 .. Requests]
    /\ served \in [Workers -> 0 .. Requests]
    /\ answered \in [Workers -> 0 .. Requests]

\* Where a worker is says how many of its requests are over, and what its entry holds.
WorkerInv(w) ==
    /\ answered[w] = i[w] /\ issued[w] = (IF wpc[w] = "await" THEN i[w] + 1 ELSE i[w])
    /\ wpc[w] \in {"fill", "signal", "await"} <=> i[w] < Requests
    /\ wpc[w] \in {"signal", "await"} =>
          reqBuffer[w].msg.msgId = i[w] + 1 /\ reqBuffer[w].msg.id \in responseIds(w)
    /\ received[w] = 1 => wpc[w] = "await" /\ reqBuffer[w].type = "EMPTY"
    /\ reqBuffer[w].type = "ExpMsg" => wpc[w] = "await"
    /\ transfered[w] => reqBuffer[w].type = "ExpMsg"
    /\ served[w] \in {i[w], issued[w]}
    /\ received[w] = 1 => served[w] = issued[w]
    /\ reqBuffer[w].type = "ExpMsg" /\ ~transfered[w] => served[w] = i[w]

\* A request on its way is the one that its worker has issued last.
RequestInv ==
    \A m \in requests :
        /\ transfered[m.worker] /\ served[m.worker] < issued[m.worker]
        /\ m.msgId = issued[m.worker] /\ m.id \in responseIds(m.worker)
        /\ \A n \in requests : n.worker = m.worker => n = m

\* A response on its way answers it, and lies where no other worker's does.
Answers(b, w) == b.ptr = w /\ b.msgId = issued[w]
PostedInv(r, p, k) ==
    LET x == responses[r][p][k] IN
    /\ transfered[x.ptr] /\ served[x.ptr] = issued[x.ptr]
    /\ x.ptr \in ToSet(Local[p]) /\ x.id \in responseIds(x.ptr)
    /\ Answers(x.copy, x.ptr) /\ prepared[r][x.id] = x.copy
    /\ \A q \in Receivers : \A l \in DOMAIN responses[q][p] :
          responses[q][p][l].ptr = x.ptr => q = r /\ l = k
ResponseInv ==
    \A r \in Receivers, p \in Dispatchers : \A k \in DOMAIN responses[r][p] : PostedInv(r, p, k)

\* The entries of a dispatcher that hold a response.
Filled(p) ==
    ToSet(responseIdx[p]) \cup
        IF SenderPoll = "BUF" THEN {w \in ToSet(Local[p]) : respBuffer[w].flag = 1} ELSE ToSet(cq[p])

AtHead(p, e, label) == dpc[p] = label /\ e = Head(responseIdx[p])

EntryInv(p, e) ==
    LET b == respBuffer[e].body
        w == b.ptr IN
    /\ w \in ToSet(Local[p])
    /\ SenderPoll = "BUF" => w = e
    /\ transfered[w] <=> ~AtHead(p, e, "release") /\ ~AtHead(p, e, "finalize")
    /\ ~AtHead(p, e, "finalize") =>
          /\ Answers(b, w) /\ served[w] = issued[w] /\ wpc[w] = "await" /\ received[w] = 0
    /\ AtHead(p, e, "release") => reqBuffer[w].type = "EMPTY"
    /\ \A f \in Filled(p) : respBuffer[f].body.ptr = w => f = e
    /\ \A r \in Receivers : \A k \in DOMAIN responses[r][p] : responses[r][p][k].ptr # w
FilledInv == \A p \in Dispatchers : \A e \in Filled(p) : EntryInv(p, e)

\* Every entry is in one place: posted, completed or taken up (SRQ).
ThreadInv(p) ==
    /\ reqId[p] \in 1 .. Len(Local[p]) /\ Len(responseIdx[p]) <= Batch
    /\ responseIdx[p] = <<>> <=> dpc[p] \notin {"empty", "release", "finalize"}
    /\ IsInjective(responseIdx[p]) /\ IsInjective(srq[p]) /\ IsInjective(cq[p])
    /\ dpc[p] = "start" => \A w \in ToSet(Local[p]) : ~transfered[w]
    /\ IF SenderPoll = "BUF"
       THEN /\ srq[p] = <<>> /\ cq[p] = <<>> /\ dpc[p] # "finalize"
            /\ \A e \in ToSet(responseIdx[p]) : respBuffer[e].flag = 0
       ELSE IF dpc[p] = "start" THEN srq[p] = <<>> /\ cq[p] = <<>>
       ELSE /\ ToSet(srq[p]) \cup ToSet(cq[p]) \cup ToSet(responseIdx[p]) = ToSet(Local[p])
            /\ ToSet(srq[p]) \cap ToSet(cq[p]) = {}
            /\ ToSet(srq[p]) \cap ToSet(responseIdx[p]) = {}
            /\ ToSet(cq[p]) \cap ToSet(responseIdx[p]) = {}

\* The workers that receiver r has heard of have sent FinishedExp.
Counted(r) == {w \in Workers : r \in finishedTo[w] /\ <<w, r>> \notin finished}
FinishInv ==
    /\ \A w \in Workers : finishedTo[w] # {} => wpc[w] \in {"finish", "done"}
    /\ \A m \in finished : m[2] \in finishedTo[m[1]]
    /\ \A r \in Receivers : clientsFinished[r] = Cardinality(Counted(r))
    /\ \A r \in Receivers : rpc[r] = "done" => clientsFinished[r] = Cardinality(Workers)

IInv ==
    /\ Types /\ (\A w \in Workers : WorkerInv(w))
    /\ RequestInv /\ ResponseInv /\ FilledInv
    /\ (\A p \in Dispatchers : ThreadInv(p))
    /\ FinishInv /\ NoReceiverNotReady

-----------------------------------------------------------------------------
\* Every worker belongs to one process.
LEMMA ProcessIsKnown ==
  ASSUME NEW w \in Workers
  PROVE  /\ Process(w) \in Dispatchers
         /\ \A p \in Dispatchers : w \in ToSet(Local[p]) <=> p = Process(w)
<1>1. PICK p \in Dispatchers : /\ w \in ToSet(Local[p])
                               /\ \A q \in Dispatchers \ {p} : w \notin ToSet(Local[q])
  BY WorkersAssumption
<1>2. Process(w) \in Dispatchers /\ w \in ToSet(Local[Process(w)])
  BY <1>1 DEF Process
<1> QED
  BY <1>1, <1>2

\* The workers of a process, of which there is one at least.
LEMMA LocalIsKnown ==
  ASSUME NEW p \in Dispatchers
  PROVE  /\ Local[p] \in Seq(Workers) /\ Local[p] # <<>> /\ Len(Local[p]) \in Nat \ {0}
         /\ IsInjective(Local[p]) /\ ToSet(Local[p]) \subseteq Workers
<1>1. Local[p] \in Seq(Workers) /\ Local[p] # <<>> /\ IsInjective(Local[p])
  BY WorkersAssumption
<1> QED
  BY <1>1 DEF ToSet

\* Finitely many node ids have a largest one.
LEMMA MaxNodeIdIsKnown ==
  /\ maxNodeId \in Nat \ {0}
  /\ \A w \in Workers : NodeId[w] \in Nat /\ NodeId[w] < maxNodeId
<1> DEFINE Above(w) == {u \in Workers : NodeId[w] < NodeId[u]}
           T == {Above(w) : w \in Workers}
           R == StrictSubsetOrdering(Workers)
<1>1. T \subseteq FiniteSubsetsOf(Workers) /\ T # {}
  <2>1. \A w \in Workers : Above(w) \in SUBSET Workers /\ IsFiniteSet(Above(w))
    BY WorkersAssumption, FS_Subset
  <2>2. \A w \in Workers : Above(w) \in FiniteSubsetsOf(Workers)
    BY <2>1 DEF FiniteSubsetsOf
  <2> HIDE DEF Above
  <2> QED
    BY <2>2, WorkersAssumption
<1>2. \E S \in T : \A U \in T : <<U, S>> \notin R
  <2>1. IsWellFoundedOn(R, FiniteSubsetsOf(Workers))
    BY FS_StrictSubsetOrderingWellFounded
  <2> HIDE DEF T, R
  <2> QED
    BY <1>1, <2>1, WFMin
<1>3. PICK w \in Workers : \A u \in Workers : <<Above(u), Above(w)>> \notin R
  BY <1>2
<1>4. \A u \in Workers : NodeId[u] \in Nat
  BY WorkersAssumption
<1>5. ASSUME NEW u \in Workers PROVE NodeId[u] <= NodeId[w]
  <2>1. SUFFICES ASSUME NodeId[w] < NodeId[u] PROVE FALSE
    BY <1>4
  <2>2. Above(u) \subseteq Above(w) /\ u \in Above(w) /\ u \notin Above(u)
    BY <1>4, <2>1
  <2>3. <<Above(u), Above(w)>> \in R
    BY <2>2 DEF StrictSubsetOrdering
  <2> QED
    BY <1>3, <2>3
<1> DEFINE ids == {NodeId[u] : u \in Workers}
           m == CHOOSE k \in ids : \A u \in Workers : NodeId[u] <= k
<1>6. m \in ids /\ \A u \in Workers : NodeId[u] <= m
  <2>1. NodeId[w] \in ids /\ \A u \in Workers : NodeId[u] <= NodeId[w]
    BY <1>5
  <2> QED
    BY <2>1
<1>7. maxNodeId = 1 + m
  BY DEF maxNodeId
<1>8. m \in Nat
  BY <1>4, <1>6
<1> HIDE DEF m, ids
<1> QED
  BY <1>4, <1>6, <1>7, <1>8

\* The shares that partition() gives to the workers are within the response buffer,
\* and no two workers have an entry in common.
LEMMA SharesAreDisjoint ==
  ASSUME NEW w \in Workers, NEW u \in Workers
  PROVE  /\ responseIds(w) \subseteq 0 .. PreparedResponses - 1
         /\ w # u => responseIds(w) \cap responseIds(u) = {}
<1>1. /\ maxNodeId \in Nat \ {0} /\ share \in Nat /\ PreparedResponses \in Nat
      /\ maxNodeId * share <= PreparedResponses
  <2>1. maxNodeId \in Nat \ {0} /\ PreparedResponses \in Nat /\ share = PreparedResponses \div maxNodeId
    BY MaxNodeIdIsKnown, ShareAssumption DEF share
  <2>2. \A n \in Nat \ {0}, a \in Nat : a \div n \in Nat /\ n * (a \div n) <= a
    OBVIOUS
  <2> QED
    BY <2>1, <2>2
<1>2. \A a, b \in Nat : a < b => (a + 1) * share <= b * share
  BY <1>1
<1>3. \A a \in Nat : a * share \in Nat
  BY <1>1
<1>4. ASSUME NEW v \in Workers
      PROVE  /\ NodeId[v] \in Nat /\ NodeId[v] + 1 <= maxNodeId
             /\ from(NodeId[v]) = NodeId[v] * share
             /\ to(NodeId[v]) <= PreparedResponses - 1
             /\ \A x \in Workers : NodeId[v] < NodeId[x] => to(NodeId[v]) < from(NodeId[x])
  <2>1. NodeId[v] \in Nat /\ NodeId[v] + 1 <= maxNodeId
    BY <1>1, MaxNodeIdIsKnown
  <2>2. (NodeId[v] + 1) * share <= maxNodeId * share
    <3>1. \A a, b \in Nat : a <= b => a * share <= b * share
      BY <1>1
    <3> QED
      BY <1>1, <2>1, <3>1
  <2>3. to(NodeId[v]) <= PreparedResponses - 1
    <3>1. (NodeId[v] + 1) * share \in Nat /\ maxNodeId * share \in Nat
      BY <1>1, <1>3, <2>1
    <3> QED
      BY <1>1, <2>2, <3>1 DEF to
  <2>4. ASSUME NEW x \in Workers, NodeId[v] < NodeId[x] PROVE to(NodeId[v]) < from(NodeId[x])
    <3>1. NodeId[x] \in Nat /\ NodeId[x] < maxNodeId
      BY MaxNodeIdIsKnown
    <3>2. to(NodeId[v]) = (NodeId[v] + 1) * share - 1
      BY <1>1, <2>1, <2>4, <3>1 DEF to
    <3>3. (NodeId[v] + 1) * share <= NodeId[x] * share
      BY <1>2, <2>1, <2>4, <3>1
    <3>4. (NodeId[v] + 1) * share \in Nat /\ NodeId[x] * share \in Nat
      BY <1>3, <2>1, <3>1
    <3> QED
      BY <3>2, <3>3, <3>4 DEF from
  <2> QED
    BY <2>1, <2>3, <2>4 DEF from
<1>5. responseIds(w) \subseteq 0 .. PreparedResponses - 1
  <2>1. from(NodeId[w]) \in Nat
    BY <1>3, <1>4
  <2>2. to(NodeId[w]) \in Int
    BY <1>1, <1>3, <1>4 DEF to
  <2> QED
    BY <1>1, <1>4, <2>1, <2>2 DEF responseIds
<1>6. ASSUME w # u PROVE responseIds(w) \cap responseIds(u) = {}
  <2>1. NodeId[w] # NodeId[u]
    BY <1>6, WorkersAssumption DEF IsInjective
  <2>2. \A v \in Workers : from(NodeId[v]) \in Nat /\ to(NodeId[v]) \in Int
    BY <1>1, <1>3, <1>4 DEF to
  <2>3. NodeId[w] < NodeId[u] \/ NodeId[u] < NodeId[w]
    BY <1>4, <2>1
  <2> QED
    BY <1>4, <2>2, <2>3 DEF responseIds
<1> QED
  BY <1>5, <1>6

\* What the ends of a sequence do to the set of its elements.
LEMMA SetOfAppend ==
  ASSUME NEW S, NEW s \in Seq(S), NEW e \in S, IsInjective(s), e \notin ToSet(s)
  PROVE  /\ Append(s, e) \in Seq(S) /\ Append(s, e) # <<>>
         /\ ToSet(Append(s, e)) = ToSet(s) \cup {e} /\ IsInjective(Append(s, e))
<1> DEFINE t == Append(s, e)
<1>1. /\ t \in Seq(S) /\ Len(s) \in Nat /\ Len(t) = Len(s) + 1
      /\ DOMAIN s = 1 .. Len(s) /\ DOMAIN t = 1 .. Len(s) + 1
      /\ \A k \in 1 .. Len(s) : t[k] = s[k]
      /\ t[Len(s) + 1] = e
  OBVIOUS
<1> HIDE DEF t
<1>2. ToSet(t) = ToSet(s) \cup {e}
  <2>1. ToSet(t) \subseteq ToSet(s) \cup {e}
    BY <1>1 DEF ToSet
  <2>2. ToSet(s) \subseteq ToSet(t) /\ e \in ToSet(t)
    BY <1>1 DEF ToSet
  <2> QED
    BY <2>1, <2>2
<1>3. IsInjective(t)
  BY <1>1 DEF ToSet, IsInjective
<1>4. t # <<>>
  BY <1>1
<1> QED
  BY <1>1, <1>2, <1>3, <1>4 DEF t

\* Without its first element, the other elements of the sequence are left, in order.
LEMMA SetOfTail ==
  ASSUME NEW S, NEW s \in Seq(S), s # <<>>, IsInjective(s)
  PROVE  /\ Head(s) \in S /\ Head(s) \in ToSet(s) /\ Tail(s) \in Seq(S)
         /\ ToSet(Tail(s)) = ToSet(s) \ {Head(s)} /\ IsInjective(Tail(s))
         /\ Len(s) \in Nat \ {0} /\ Len(Tail(s)) = Len(s) - 1
         /\ \A k \in DOMAIN Tail(s) : k + 1 \in DOMAIN s /\ Tail(s)[k] = s[k + 1]
         /\ Tail(s) = <<>> <=> Len(s) = 1
<1> DEFINE t == Tail(s)
<1>1. /\ t \in Seq(S) /\ Len(s) \in Nat \ {0} /\ Len(t) = Len(s) - 1
      /\ DOMAIN s = 1 .. Len(s) /\ DOMAIN t = 1 .. Len(s) - 1
      /\ \A k \in 1 .. Len(s) - 1 : t[k] = s[k + 1]
      /\ Head(s) = s[1] /\ Head(s) \in S
  OBVIOUS
<1> HIDE DEF t
<1>2. Head(s) \in ToSet(s)
  BY <1>1 DEF ToSet
<1>3. ToSet(t) = ToSet(s) \ {Head(s)}
  <2>1. ASSUME NEW k \in DOMAIN t PROVE t[k] \in ToSet(s) \ {Head(s)}
    BY <1>1 DEF ToSet, IsInjective
  <2>2. ASSUME NEW k \in DOMAIN s, s[k] # Head(s) PROVE s[k] \in ToSet(t)
    <3>1. k - 1 \in DOMAIN t /\ t[k - 1] = s[k]
      BY <1>1, <2>2
    <3> QED
      BY <3>1 DEF ToSet
  <2> QED
    BY <2>1, <2>2 DEF ToSet
<1>4. IsInjective(t)
  BY <1>1 DEF IsInjective
<1>5. t = <<>> <=> Len(s) = 1
  BY <1>1
<1>6. \A k \in DOMAIN t : k + 1 \in DOMAIN s /\ t[k] = s[k + 1]
  BY <1>1
<1> QED
  BY <1>1, <1>2, <1>3, <1>4, <1>5, <1>6 DEF t

\* A sequence cut in two: each element is in one of the parts.
LEMMA SetOfParts ==
  ASSUME NEW S, NEW s \in Seq(S), IsInjective(s), NEW n \in 1 .. Len(s)
  PROVE  LET a == SubSeq(s, 1, n)
             b == SubSeq(s, n + 1, Len(s))
         IN  /\ a \in Seq(S) /\ b \in Seq(S) /\ Len(a) = n /\ a # <<>>
             /\ IsInjective(a) /\ IsInjective(b)
             /\ ToSet(a) \cup ToSet(b) = ToSet(s) /\ ToSet(a) \cap ToSet(b) = {}
<1> DEFINE a == SubSeq(s, 1, n)
           b == SubSeq(s, n + 1, Len(s))
<1>0. Len(s) \in Nat /\ DOMAIN s = 1 .. Len(s) /\ n \in Nat /\ n <= Len(s)
  OBVIOUS
<1>1. /\ a \in Seq(S) /\ Len(a) = n /\ DOMAIN a = 1 .. n
      /\ \A k \in DOMAIN a : k \in DOMAIN s /\ a[k] = s[k]
  BY <1>0
<1>2. /\ b \in Seq(S) /\ Len(b) = Len(s) - n /\ DOMAIN b = 1 .. Len(s) - n
      /\ \A k \in DOMAIN b : n + k \in DOMAIN s /\ n + k > n /\ b[k] = s[n + k]
  <2>1. \A L \in Nat : n <= L =>
           /\ n + 1 \in Int /\ (IF n + 1 <= L THEN L - (n + 1) + 1 ELSE 0) = L - n
           /\ \A k \in 1 .. L - n :
                 k \in 1 .. L - (n + 1) + 1 /\ n + 1 + k - 1 = n + k /\ n + k \in 1 .. L /\ n + k > n
    OBVIOUS
  <2>2. PICK L \in Nat : L = Len(s)
    BY <1>0
  <2>3. /\ b \in Seq(S)
        /\ Len(b) = (IF n + 1 <= L THEN L - (n + 1) + 1 ELSE 0)
        /\ \A k \in 1 .. L - (n + 1) + 1 : b[k] = s[n + 1 + k - 1]
    BY <1>0, <2>2, SubSeqProperties
  <2> HIDE DEF b
  <2>4. Len(b) = L - n
    BY <1>0, <2>1, <2>2, <2>3
  <2>5. DOMAIN b = 1 .. L - n
    BY <2>3, <2>4, LenProperties
  <2> QED
    BY <1>0, <2>1, <2>2, <2>3, <2>4, <2>5
<1> HIDE DEF a, b
<1>3. a # <<>>
  BY <1>1
<1>4. IsInjective(a) /\ IsInjective(b)
  <2>1. IsInjective(a)
    BY <1>1 DEF IsInjective
  <2>2. \A k, l \in DOMAIN b : n + k = n + l => k = l
    BY <1>0, <1>2
  <2> QED
    BY <1>2, <2>1, <2>2 DEF IsInjective
<1>5. ToSet(a) \cap ToSet(b) = {}
  BY <1>0, <1>1, <1>2 DEF IsInjective, ToSet
<1>6. ToSet(a) \subseteq ToSet(s) /\ ToSet(b) \subseteq ToSet(s)
  BY <1>0, <1>1, <1>2 DEF ToSet
<1>7. ASSUME NEW k \in 1 .. Len(s) PROVE s[k] \in ToSet(a) \cup ToSet(b)
  <2>1. CASE k <= n
    BY <1>1, <2>1 DEF ToSet
  <2>2. CASE k > n
    <3>1. k - n \in DOMAIN b /\ b[k - n] = s[k]
      BY <1>0, <1>2, <2>2
    <3> QED
      BY <3>1 DEF ToSet
  <2> QED
    BY <1>0, <2>1, <2>2
<1>8. ToSet(s) \subseteq ToSet(a) \cup ToSet(b)
  BY <1>0, <1>7 DEF ToSet
<1> QED
  BY <1>1, <1>2, <1>3, <1>4, <1>5, <1>6, <1>8 DEF a, b

-----------------------------------------------------------------------------
\* A worker whose request is under way waits for the response.
LEMMA TransferedWaits ==
  ASSUME IInv, NEW w \in Workers, transfered[w]
  PROVE  wpc[w] = "await" /\ received[w] = 0 /\ reqBuffer[w].type = "ExpMsg" /\ i[w] < Requests
<1>1. WorkerInv(w) /\ received[w] \in {0, 1}
  BY DEF IInv, Types
<1> QED
  BY <1>1 DEF WorkerInv

\* Responses on their way, and entries that hold one, are for workers of the process.
LEMMA PostedIsKnown ==
  ASSUME IInv, NEW r \in Receivers, NEW p \in Dispatchers, NEW k \in DOMAIN responses[r][p]
  PROVE  /\ responses[r][p] \in Seq(Response) /\ responses[r][p][k] \in Response
         /\ PostedInv(r, p, k)
<1>1. responses[r][p] \in Seq(Response)
  BY DEF IInv, Types
<1> QED
  BY <1>1 DEF IInv, ResponseInv

\* An entry that holds a response belongs to one process, and so does the worker it is for.
LEMMA FilledIsKnown ==
  ASSUME IInv, NEW p \in Dispatchers, NEW e \in Filled(p)
  PROVE  /\ e \in ToSet(Local[p]) /\ e \in Workers /\ EntryInv(p, e)
         /\ respBuffer[e].body.ptr \in Workers /\ respBuffer[e].body.ptr \in ToSet(Local[p])
         /\ \A q \in Dispatchers \ {p} : e \notin Filled(q)
<1>1. \A q \in Dispatchers : \A f \in Filled(q) : f \in ToSet(Local[q])
  <2> SUFFICES ASSUME NEW q \in Dispatchers, NEW f \in Filled(q) PROVE f \in ToSet(Local[q])
    OBVIOUS
  <2>1. EntryInv(q, f) /\ ThreadInv(q)
    BY DEF IInv, FilledInv
  <2>2. CASE SenderPoll = "BUF"
    BY <2>1, <2>2 DEF EntryInv
  <2>3. CASE SenderPoll # "BUF"
    <3>1. f \in ToSet(responseIdx[q]) \/ f \in ToSet(cq[q])
      BY <2>3 DEF Filled
    <3>2. ToSet(<<>>) = {}
      BY DEF ToSet
    <3> QED
      BY <2>1, <2>3, <3>1, <3>2 DEF ThreadInv
  <2> QED
    BY <2>2, <2>3
<1>2. EntryInv(p, e)
  BY DEF IInv, FilledInv
<1>3. e \in ToSet(Local[p]) /\ e \in Workers
  BY <1>1, LocalIsKnown
<1>4. \A q \in Dispatchers \ {p} : e \notin ToSet(Local[q])
  BY <1>3, ProcessIsKnown
<1>5. respBuffer[e].body.ptr \in ToSet(Local[p])
  BY <1>2 DEF EntryInv
<1> QED
  BY <1>1, <1>2, <1>3, <1>4, <1>5, LocalIsKnown

\* The entry that the dispatcher is at.
LEMMA HeadIsKnown ==
  ASSUME IInv, NEW p \in Dispatchers, dpc[p] \in {"empty", "release", "finalize"}
  PROVE  LET e == Head(responseIdx[p]) IN
         /\ responseIdx[p] \in Seq(Workers) /\ responseIdx[p] # <<>> /\ IsInjective(responseIdx[p])
         /\ e \in ToSet(responseIdx[p]) /\ e \in Filled(p) /\ e \in Workers
         /\ workerId(p) = respBuffer[e].body.ptr
<1>1. responseIdx[p] \in Seq(Workers) /\ responseIdx[p] # <<>> /\ IsInjective(responseIdx[p])
  BY DEF IInv, Types, ThreadInv
<1>2. Head(responseIdx[p]) \in ToSet(responseIdx[p]) /\ Head(responseIdx[p]) \in Workers
  BY <1>1, SetOfTail
<1>3. Head(responseIdx[p]) \in Filled(p)
  BY <1>2 DEF Filled
<1>4. EntryInv(p, Head(responseIdx[p]))
  BY <1>3 DEF IInv, FilledInv
<1> QED
  BY <1>1, <1>2, <1>3, <1>4 DEF workerId, EntryInv

\* What an action does not touch stays as the invariant says.
LEMMA WorkerStays ==
  ASSUME NEW w \in Workers, WorkerInv(w), wpc'[w] = wpc[w], i'[w] = i[w],
         reqBuffer'[w] = reqBuffer[w], received'[w] = received[w], issued'[w] = issued[w],
         served'[w] = served[w], answered'[w] = answered[w], transfered'[w] <=> transfered[w]
  PROVE  WorkerInv(w)'
BY DEF WorkerInv

\* Responses on their way stay right while their workers' requests stay under way.
LEMMA PostedStays ==
  ASSUME IInv, UNCHANGED <<responses, prepared>>,
         \A r \in Receivers, p \in Dispatchers : \A k \in DOMAIN responses[r][p] :
            \A w \in Workers : w = responses[r][p][k].ptr =>
               transfered'[w] /\ served'[w] = served[w] /\ issued'[w] = issued[w]
  PROVE  ResponseInv'
<1> SUFFICES ASSUME NEW r \in Receivers, NEW p \in Dispatchers, NEW k \in DOMAIN responses[r][p]
             PROVE  PostedInv(r, p, k)'
  BY DEF ResponseInv
<1>1. PICK w \in Workers : w = responses[r][p][k].ptr /\ PostedInv(r, p, k)
  BY PostedIsKnown DEF Response
<1>2. transfered'[w] /\ served'[w] = served[w] /\ issued'[w] = issued[w]
  BY <1>1
<1> QED
  BY <1>1, <1>2 DEF PostedInv, Answers

\* So does an entry, as long as no other response for its worker appears.
LEMMA EntryStays ==
  ASSUME NEW p \in Dispatchers, NEW e, EntryInv(p, e), UNCHANGED mode,
         respBuffer'[e].body = respBuffer[e].body,
         AtHead(p, e, "release")' <=> AtHead(p, e, "release"),
         AtHead(p, e, "finalize")' <=> AtHead(p, e, "finalize"),
         NEW w, w = respBuffer[e].body.ptr,
         transfered'[w] <=> transfered[w],
         ~AtHead(p, e, "finalize") =>
            issued'[w] = issued[w] /\ served'[w] = served[w] /\ wpc'[w] = wpc[w] /\ received'[w] = received[w],
         AtHead(p, e, "release") => reqBuffer'[w].type = reqBuffer[w].type,
         \A f \in Filled(p)' \ {e} : respBuffer'[f].body.ptr # w,
         \A r \in Receivers : \A k \in DOMAIN responses'[r][p] : responses'[r][p][k].ptr # w
  PROVE  EntryInv(p, e)'
<1>1. SenderPoll' = SenderPoll
  BY DEF SenderPoll
<1> QED
  BY <1>1 DEF EntryInv, Answers

\* Counting is not disturbed while no FinishedExp is sent or counted.
LEMMA FinishStays ==
  ASSUME FinishInv, UNCHANGED <<finishedTo, finished, clientsFinished, rpc>>,
         \A w \in Workers : wpc[w] \in {"finish", "done"} => wpc'[w] \in {"finish", "done"}
  PROVE  FinishInv'
<1>1. \A r \in Receivers : Counted(r)' = Counted(r)
  BY DEF Counted
<1> QED
  BY <1>1 DEF FinishInv

\* A step that leaves a dispatcher's own variables alone.
LEMMA ThreadStays ==
  ASSUME NEW p \in Dispatchers, ThreadInv(p), UNCHANGED mode, reqId'[p] = reqId[p],
         responseIdx'[p] = responseIdx[p], dpc'[p] = dpc[p], srq'[p] = srq[p], cq'[p] = cq[p],
         dpc[p] = "start" => \A w \in ToSet(Local[p]) : transfered'[w] <=> transfered[w],
         SenderPoll = "BUF" => \A e \in ToSet(responseIdx[p]) : respBuffer'[e].flag = respBuffer[e].flag
  PROVE  ThreadInv(p)'
<1>1. SenderPoll' = SenderPoll
  BY DEF SenderPoll
<1> QED
  BY <1>1 DEF ThreadInv

-----------------------------------------------------------------------------
\* While a worker does not wait for a response, nothing under way is its own.
LEMMA WorkerLeavesMessages ==
  ASSUME IInv, NEW w \in Workers, wpc[w] # "await" \/ received[w] = 1,
         UNCHANGED <<mode, dispatcherVars, respBuffer, prepared, requests, responses, rnr, served>>,
         \A u \in Workers \ {w} : wpc'[u] = wpc[u] /\ received'[u] = received[u]
                                  /\ issued'[u] = issued[u] /\ reqBuffer'[u] = reqBuffer[u]
  PROVE  /\ RequestInv' /\ ResponseInv' /\ FilledInv' /\ (\A p \in Dispatchers : ThreadInv(p)')
         /\ NoReceiverNotReady'
<1>1. ~transfered[w]
  BY TransferedWaits
<1>2. /\ UNCHANGED <<mode, dpc, reqId, transfered, responseIdx, srq, cq, running, respBuffer,
                     prepared, requests, responses, rnr, served>>
  BY DEF dispatcherVars
<1>3. RequestInv'
  <2>1. \A m \in requests : m.worker \in Workers \ {w}
    BY <1>1 DEF IInv, RequestInv, Types, Request
  <2> QED
    BY <1>2, <2>1 DEF IInv, RequestInv
<1>4. ResponseInv'
  <2>1. \A r \in Receivers, p \in Dispatchers : \A k \in DOMAIN responses[r][p] :
           responses[r][p][k].ptr # w /\ transfered[responses[r][p][k].ptr]
    BY <1>1, PostedIsKnown DEF PostedInv
  <2> QED
    BY <1>2, <2>1, PostedStays
<1>5. \A p \in Dispatchers : Filled(p)' = Filled(p)
  BY <1>2 DEF Filled, SenderPoll
<1>6. FilledInv'
  <2> SUFFICES ASSUME NEW p \in Dispatchers, NEW e \in Filled(p) PROVE EntryInv(p, e)'
    BY <1>5 DEF FilledInv
  <2>1. PICK u \in Workers : u = respBuffer[e].body.ptr /\ EntryInv(p, e)
    BY FilledIsKnown
  <2>2. ~AtHead(p, e, "finalize") => u # w
    BY <1>1, <2>1 DEF EntryInv
  <2>3. \A label \in {"release", "finalize"} : AtHead(p, e, label)' <=> AtHead(p, e, label)
    BY <1>2 DEF AtHead
  <2>4. AtHead(p, e, "release") => ~AtHead(p, e, "finalize")
    BY DEF AtHead
  <2> QED
    BY <1>2, <1>5, <2>1, <2>2, <2>3, <2>4, EntryStays DEF EntryInv
<1>7. \A p \in Dispatchers : ThreadInv(p)'
  BY <1>2, ThreadStays DEF IInv
<1> QED
  BY <1>2, <1>3, <1>4, <1>6, <1>7 DEF IInv, NoReceiverNotReady

\* The worker fills in its entry.
LEMMA FillRequestKeepsInv ==
  ASSUME IInv, NEW w \in Workers, FillRequest(w), UNCHANGED mode
  PROVE  IInv'
<1>1. PICK r \in Receivers, id \in responseIds(w) :
         reqBuffer' = [reqBuffer EXCEPT ![w].msg = [dest |-> r, id |-> id, msgId |-> i[w] + 1]]
  BY DEF FillRequest
<1>2. /\ wpc[w] = "fill" /\ wpc' = [wpc EXCEPT ![w] = "signal"]
      /\ UNCHANGED <<mode, i, received, respBuffer, finishedTo, dispatcherVars, receiverVars,
                     fabricVars, historyVars>>
  BY DEF FillRequest, WorkerGoto
<1>3. /\ UNCHANGED <<mode, i, received, respBuffer, finishedTo, dpc, reqId, transfered, responseIdx,
                     srq, cq, running, rpc, prepared, clientsFinished, requests, finished,
                     responses, rnr, issued, served, answered>>
  BY <1>2 DEF dispatcherVars, receiverVars, fabricVars, historyVars
<1>4. i[w] + 1 \in 0 .. Requests /\ id \in Nat
  <2>1. i[w] \in Nat /\ i[w] < Requests
    BY <1>2 DEF IInv, WorkerInv, Types
  <2> QED
    BY <2>1, ModeAssumption, SharesAreDisjoint
<1>5. /\ reqBuffer' \in [Workers -> Entry]
      /\ reqBuffer'[w].type = reqBuffer[w].type
      /\ reqBuffer'[w].msg.msgId = i[w] + 1 /\ reqBuffer'[w].msg.id = id
      /\ \A u \in Workers \ {w} : reqBuffer'[u] = reqBuffer[u]
  <2> DEFINE m == [dest |-> r, id |-> id, msgId |-> i[w] + 1]
  <2>1. /\ m \in [dest : Receivers, id : Nat, msgId : 0 .. Requests]
        /\ m.msgId = i[w] + 1 /\ m.id = id
    BY <1>4
  <2>2. reqBuffer' = [reqBuffer EXCEPT ![w].msg = m]
    BY <1>1
  <2> HIDE DEF m
  <2>3. reqBuffer \in [Workers -> Entry]
    BY DEF IInv, Types
  <2>4. reqBuffer'[w] \in Entry /\ reqBuffer'[w].type = reqBuffer[w].type /\ reqBuffer'[w].msg = m
    BY <2>1, <2>2, <2>3 DEF Entry
  <2> QED
    BY <2>1, <2>2, <2>3, <2>4
<1>6. /\ wpc' \in [Workers -> {"fill", "signal", "await", "finish", "done"}] /\ wpc'[w] = "signal"
      /\ \A u \in Workers \ {w} : wpc'[u] = wpc[u]
  BY <1>2 DEF IInv, Types
<1>7. Types'
  BY <1>3, <1>5, <1>6 DEF IInv, Types
<1>8. \A u \in Workers : WorkerInv(u)'
  <2>1. \A u \in Workers \ {w} : WorkerInv(u)'
    BY <1>3, <1>5, <1>6, WorkerStays DEF IInv
  <2>2. WorkerInv(w)'
    BY <1>2, <1>3, <1>5, <1>6 DEF IInv, WorkerInv
  <2> QED
    BY <2>1, <2>2
<1>9. /\ RequestInv' /\ ResponseInv' /\ FilledInv' /\ (\A p \in Dispatchers : ThreadInv(p)')
      /\ NoReceiverNotReady'
  BY <1>2, <1>3, <1>5, <1>6, WorkerLeavesMessages
<1>10. FinishInv'
  BY <1>2, <1>3, <1>6, FinishStays DEF IInv
<1> QED
  BY <1>7, <1>8, <1>9, <1>10 DEF IInv

\* The worker tells the dispatcher that its entry is filled in.
LEMMA SignalDispatcherKeepsInv ==
  ASSUME IInv, NEW w \in Workers, SignalDispatcher(w), UNCHANGED mode
  PROVE  IInv'
<1>1. /\ wpc[w] = "signal" /\ wpc' = [wpc EXCEPT ![w] = "await"]
      /\ reqBuffer' = [reqBuffer EXCEPT ![w].type = "ExpMsg"]
      /\ issued' = [issued EXCEPT ![w] = @ + 1]
      /\ UNCHANGED <<mode, i, received, respBuffer, finishedTo, dispatcherVars, receiverVars,
                     fabricVars, served, answered>>
  BY DEF SignalDispatcher, WorkerGoto
<1>2. /\ UNCHANGED <<mode, i, received, respBuffer, finishedTo, dpc, reqId, transfered, responseIdx,
                     srq, cq, running, rpc, prepared, clientsFinished, requests, finished,
                     responses, rnr, served, answered>>
  BY <1>1 DEF dispatcherVars, receiverVars, fabricVars
<1>3. WorkerInv(w) /\ i[w] \in Nat /\ i[w] < Requests /\ issued[w] = i[w] /\ Requests \in Nat
  BY <1>1, ModeAssumption DEF IInv, WorkerInv, Types
<1>4. /\ issued' \in [Workers -> 0 .. Requests] /\ issued'[w] = i[w] + 1
      /\ \A u \in Workers \ {w} : issued'[u] = issued[u]
  BY <1>1, <1>3 DEF IInv, Types
<1>5. /\ reqBuffer' \in [Workers -> Entry]
      /\ reqBuffer'[w].type = "ExpMsg" /\ reqBuffer'[w].msg = reqBuffer[w].msg
      /\ \A u \in Workers \ {w} : reqBuffer'[u] = reqBuffer[u]
  <2>1. reqBuffer \in [Workers -> Entry]
    BY DEF IInv, Types
  <2>2. /\ reqBuffer'[w] \in Entry /\ reqBuffer'[w].type = "ExpMsg"
        /\ reqBuffer'[w].msg = reqBuffer[w].msg
    BY <1>1, <2>1 DEF Entry
  <2> QED
    BY <1>1, <2>1, <2>2
<1>6. /\ wpc' \in [Workers -> {"fill", "signal", "await", "finish", "done"}] /\ wpc'[w] = "await"
      /\ \A u \in Workers \ {w} : wpc'[u] = wpc[u]
  BY <1>1 DEF IInv, Types
<1>7. Types'
  BY <1>2, <1>4, <1>5, <1>6 DEF IInv, Types
<1>8. \A u \in Workers : WorkerInv(u)'
  <2>1. \A u \in Workers \ {w} : WorkerInv(u)'
    BY <1>2, <1>4, <1>5, <1>6, WorkerStays DEF IInv
  <2>2. received[w] # 1 /\ ~transfered[w] /\ served[w] = i[w]
    BY <1>1, <1>3 DEF WorkerInv
  <2>3. WorkerInv(w)'
    BY <1>1, <1>2, <1>3, <1>4, <1>5, <1>6, <2>2 DEF WorkerInv
  <2> QED
    BY <2>1, <2>3
<1>9. /\ RequestInv' /\ ResponseInv' /\ FilledInv' /\ (\A p \in Dispatchers : ThreadInv(p)')
      /\ NoReceiverNotReady'
  BY <1>1, <1>2, <1>4, <1>5, <1>6, WorkerLeavesMessages
<1>10. FinishInv'
  BY <1>1, <1>2, <1>6, FinishStays DEF IInv
<1> QED
  BY <1>7, <1>8, <1>9, <1>10 DEF IInv

\* The worker takes the response that its mailbox announces.
LEMMA TakeMailboxKeepsInv ==
  ASSUME IInv, NEW w \in Workers, TakeMailbox(w), UNCHANGED mode
  PROVE  IInv'
<1> DEFINE after == IF i[w] + 1 = Requests THEN "finish" ELSE "fill"
<1>1. /\ received[w] = 1 /\ wpc[w] = "await" /\ wpc' = [wpc EXCEPT ![w] = after]
      /\ received' = [received EXCEPT ![w] = 0]
      /\ i' = [i EXCEPT ![w] = @ + 1]
      /\ answered' = [answered EXCEPT ![w] = @ + 1]
      /\ UNCHANGED <<mode, reqBuffer, respBuffer, finishedTo, dispatcherVars, receiverVars,
                     fabricVars, issued, served>>
  BY DEF TakeMailbox, WorkerGoto
<1>2. /\ UNCHANGED <<mode, reqBuffer, respBuffer, finishedTo, dpc, reqId, transfered, responseIdx,
                     srq, cq, running, rpc, prepared, clientsFinished, requests, finished,
                     responses, rnr, issued, served>>
  BY <1>1 DEF dispatcherVars, receiverVars, fabricVars
<1>3. WorkerInv(w) /\ i[w] \in Nat /\ i[w] < Requests /\ answered[w] = i[w] /\ Requests \in Nat
  BY <1>1, ModeAssumption DEF IInv, WorkerInv, Types
<1>4. /\ i' \in [Workers -> 0 .. Requests] /\ i'[w] = i[w] + 1
      /\ answered' \in [Workers -> 0 .. Requests] /\ answered'[w] = i[w] + 1
      /\ \A u \in Workers \ {w} : i'[u] = i[u] /\ answered'[u] = answered[u]
  BY <1>1, <1>3 DEF IInv, Types
<1>5. /\ received' \in [Workers -> {0, 1}] /\ received'[w] = 0
      /\ \A u \in Workers \ {w} : received'[u] = received[u]
  BY <1>1 DEF IInv, Types
<1>6. /\ wpc' \in [Workers -> {"fill", "signal", "await", "finish", "done"}] /\ wpc'[w] = after
      /\ \A u \in Workers \ {w} : wpc'[u] = wpc[u]
  BY <1>1 DEF IInv, Types
<1>7. Types'
  BY <1>2, <1>4, <1>5, <1>6 DEF IInv, Types
<1>8. \A u \in Workers : WorkerInv(u)'
  <2>1. \A u \in Workers \ {w} : WorkerInv(u)'
    BY <1>2, <1>4, <1>5, <1>6, WorkerStays DEF IInv
  <2>2. after \in {"fill", "finish"} /\ (after = "fill" <=> i[w] + 1 < Requests)
    BY <1>3
  <2>3. issued[w] = i[w] + 1 /\ served[w] = issued[w] /\ reqBuffer[w].type = "EMPTY" /\ ~transfered[w]
    BY <1>1, <1>3 DEF WorkerInv
  <2> HIDE DEF after
  <2>4. WorkerInv(w)'
    BY <1>2, <1>3, <1>4, <1>5, <1>6, <2>2, <2>3 DEF WorkerInv
  <2> QED
    BY <2>1, <2>4
<1>9. /\ RequestInv' /\ ResponseInv' /\ FilledInv' /\ (\A p \in Dispatchers : ThreadInv(p)')
      /\ NoReceiverNotReady'
  BY <1>1, <1>2, <1>5, <1>6, WorkerLeavesMessages
<1>10. FinishInv'
  BY <1>1, <1>2, <1>6, FinishStays DEF IInv
<1> QED
  BY <1>7, <1>8, <1>9, <1>10 DEF IInv

\* The worker announces its end to one more receiver.
LEMMA SendFinishedKeepsInv ==
  ASSUME IInv, NEW w \in Workers, SendFinished(w), UNCHANGED mode
  PROVE  IInv'
<1>1. PICK r \in Receivers \ finishedTo[w] :
         /\ finished' = finished \cup {<<w, r>>}
         /\ finishedTo' = [finishedTo EXCEPT ![w] = @ \cup {r}]
  BY DEF SendFinished
<1>2. /\ wpc[w] = "finish"
      /\ wpc' = [wpc EXCEPT ![w] = IF finishedTo'[w] = Receivers THEN "done" ELSE "finish"]
      /\ UNCHANGED <<mode, i, reqBuffer, received, respBuffer, dispatcherVars, receiverVars,
                     requests, responses, rnr, historyVars>>
  BY DEF SendFinished
<1>3. UNCHANGED <<mode, i, reqBuffer, received, respBuffer, dpc, reqId, transfered, responseIdx,
                  srq, cq, running, rpc, prepared, clientsFinished, requests, responses, rnr,
                  issued, served, answered>>
  BY <1>2 DEF dispatcherVars, receiverVars, historyVars
<1>4. /\ wpc' \in [Workers -> {"fill", "signal", "await", "finish", "done"}]
      /\ wpc'[w] \in {"finish", "done"} /\ \A u \in Workers \ {w} : wpc'[u] = wpc[u]
  BY <1>2 DEF IInv, Types
<1>5. /\ finishedTo' \in [Workers -> SUBSET Receivers] /\ finishedTo'[w] = finishedTo[w] \cup {r}
      /\ \A u \in Workers \ {w} : finishedTo'[u] = finishedTo[u]
      /\ finished' \subseteq Workers \X Receivers
  BY <1>1 DEF IInv, Types
<1>6. Types'
  BY <1>3, <1>4, <1>5 DEF IInv, Types
<1>7. \A u \in Workers : WorkerInv(u)'
  <2>1. \A u \in Workers \ {w} : WorkerInv(u)'
    BY <1>3, <1>4, WorkerStays DEF IInv
  <2>2. WorkerInv(w)'
    BY <1>2, <1>3, <1>4 DEF IInv, WorkerInv
  <2> QED
    BY <2>1, <2>2
<1>8. /\ RequestInv' /\ ResponseInv' /\ FilledInv' /\ (\A p \in Dispatchers : ThreadInv(p)')
      /\ NoReceiverNotReady'
  BY <1>2, <1>3, <1>4, WorkerLeavesMessages
<1>9. \A q \in Receivers : Counted(q)' = Counted(q)
  <2> SUFFICES ASSUME NEW q \in Receivers, NEW u \in Workers
               PROVE  (q \in finishedTo'[u] /\ <<u, q>> \notin finished')
                         <=> (q \in finishedTo[u] /\ <<u, q>> \notin finished)
    BY DEF Counted
  <2>1. CASE u # w
    BY <1>1, <1>5, <2>1
  <2>2. CASE u = w /\ q # r
    BY <1>1, <1>5, <2>2
  <2>3. CASE u = w /\ q = r
    BY <1>1, <1>5, <2>3
  <2> QED
    BY <2>1, <2>2, <2>3
<1>10. FinishInv'
  <2>1. \A u \in Workers : finishedTo'[u] # {} => wpc'[u] \in {"finish", "done"}
    BY <1>4, <1>5 DEF IInv, FinishInv
  <2>2. \A m \in finished' : m[2] \in finishedTo'[m[1]]
    <3>1. <<w, r>>[1] = w /\ <<w, r>>[2] = r /\ r \in finishedTo'[w]
      BY <1>5
    <3>2. \A m \in finished : m[1] \in Workers /\ m[2] \in finishedTo[m[1]]
      BY DEF IInv, FinishInv, Types
    <3>3. \A u \in Workers : finishedTo[u] \subseteq finishedTo'[u]
      BY <1>5
    <3> QED
      BY <1>1, <3>1, <3>2, <3>3
  <2> QED
    BY <1>3, <1>9, <2>1, <2>2 DEF IInv, FinishInv
<1> QED
  BY <1>6, <1>7, <1>8, <1>10 DEF IInv

-----------------------------------------------------------------------------
\* Processes share neither workers nor entries: a step in one is not seen by the others.
LEMMA OtherProcessesStay ==
  ASSUME IInv, NEW p \in Dispatchers, UNCHANGED mode,
         \A q \in Dispatchers \ {p} :
            /\ reqId'[q] = reqId[q] /\ responseIdx'[q] = responseIdx[q] /\ dpc'[q] = dpc[q]
            /\ srq'[q] = srq[q] /\ cq'[q] = cq[q]
            /\ \A r \in Receivers : responses'[r][q] = responses[r][q],
         \A w \in Workers \ ToSet(Local[p]) :
            /\ wpc'[w] = wpc[w] /\ received'[w] = received[w] /\ reqBuffer'[w] = reqBuffer[w]
            /\ respBuffer'[w] = respBuffer[w] /\ (transfered'[w] <=> transfered[w])
            /\ issued'[w] = issued[w] /\ served'[w] = served[w]
  PROVE  \A q \in Dispatchers \ {p} : ThreadInv(q)' /\ \A e \in Filled(q)' : EntryInv(q, e)'
<1> SUFFICES ASSUME NEW q \in Dispatchers \ {p}
             PROVE  ThreadInv(q)' /\ \A e \in Filled(q)' : EntryInv(q, e)'
  OBVIOUS
<1>1. ToSet(Local[q]) \subseteq Workers \ ToSet(Local[p])
  BY LocalIsKnown, ProcessIsKnown
<1>2. ThreadInv(q)'
  <2>1. SenderPoll = "BUF" => \A e \in ToSet(responseIdx[q]) : respBuffer'[e].flag = respBuffer[e].flag
    <3>1. \A e \in ToSet(responseIdx[q]) : e \in ToSet(Local[q])
      BY FilledIsKnown DEF Filled
    <3> QED
      BY <1>1, <3>1
  <2> QED
    BY <1>1, <2>1, ThreadStays DEF IInv
<1>3. Filled(q)' = Filled(q)
  BY <1>1 DEF Filled, SenderPoll
<1>4. ASSUME NEW e \in Filled(q) PROVE EntryInv(q, e)'
  <2>1. PICK w \in ToSet(Local[q]) : w = respBuffer[e].body.ptr /\ EntryInv(q, e)
    BY FilledIsKnown
  <2>2. \A f \in Filled(q) : respBuffer'[f].body = respBuffer[f].body
    BY <1>1, FilledIsKnown
  <2>3. \A label \in {"release", "finalize"} : AtHead(q, e, label)' <=> AtHead(q, e, label)
    BY DEF AtHead
  <2>4. \A f \in Filled(q)' \ {e} : respBuffer'[f].body.ptr # w
    BY <1>3, <2>1, <2>2 DEF EntryInv
  <2>5. \A r \in Receivers : \A k \in DOMAIN responses'[r][q] : responses'[r][q][k].ptr # w
    BY <2>1 DEF EntryInv
  <2>6. /\ transfered'[w] <=> transfered[w]
        /\ issued'[w] = issued[w] /\ served'[w] = served[w] /\ wpc'[w] = wpc[w]
        /\ received'[w] = received[w] /\ reqBuffer'[w].type = reqBuffer[w].type
    BY <1>1
  <2> QED
    BY <2>1, <2>2, <2>3, <2>4, <2>5, <2>6, EntryStays
<1> QED
  BY <1>2, <1>3, <1>4

\* The dispatcher posts its receives.
LEMMA StartRunKeepsInv ==
  ASSUME IInv, NEW p \in Dispatchers, StartRun(p), UNCHANGED mode
  PROVE  IInv'
<1>1. /\ dpc[p] = "start" /\ dpc' = [dpc EXCEPT ![p] = "loop"]
      /\ IF SenderPoll = "SRQ" THEN srq' = [srq EXCEPT ![p] = @ \o Local[p]] ELSE UNCHANGED srq
      /\ UNCHANGED <<mode, reqId, transfered, responseIdx, cq, running, workerVars, receiverVars,
                     fabricVars, historyVars>>
  BY DEF StartRun, DispatcherGoto, receiveSRQ
<1>2. UNCHANGED <<mode, wpc, i, reqBuffer, received, respBuffer, finishedTo, reqId, transfered,
                  responseIdx, cq, running, rpc, prepared, clientsFinished, requests, finished,
                  responses, rnr, issued, served, answered>>
  BY <1>1 DEF workerVars, receiverVars, fabricVars, historyVars
<1>3. /\ dpc' \in [Dispatchers -> {"start", "loop", "scan", "poll", "empty", "release",
                                   "finalize", "stopped"}]
      /\ dpc'[p] = "loop" /\ \A q \in Dispatchers \ {p} : dpc'[q] = dpc[q]
  BY <1>1 DEF IInv, Types
<1>4. SenderPoll' = SenderPoll /\ SenderPoll \in {"BUF", "SRQ"}
  BY <1>2, ModeAssumption DEF SenderPoll, IInv, Types, Mode
<1>5. ThreadInv(p) /\ srq[p] = <<>> /\ cq[p] = <<>> /\ responseIdx[p] = <<>>
  BY <1>1, <1>4 DEF IInv, ThreadInv
<1>6. /\ srq' \in [Dispatchers -> Seq(Workers)]
      /\ srq'[p] = (IF SenderPoll = "SRQ" THEN Local[p] ELSE <<>>)
      /\ \A q \in Dispatchers \ {p} : srq'[q] = srq[q]
  <2>1. srq[p] \o Local[p] = Local[p] /\ Local[p] \in Seq(Workers)
    BY <1>5, LocalIsKnown
  <2> QED
    BY <1>1, <1>5, <2>1 DEF IInv, Types
<1>7. Types'
  BY <1>2, <1>3, <1>6 DEF IInv, Types
<1>8. (\A w \in Workers : WorkerInv(w)') /\ RequestInv' /\ ResponseInv' /\ FinishInv' /\ NoReceiverNotReady'
  <2>1. \A r \in Receivers, q \in Dispatchers : \A k \in DOMAIN responses[r][q] :
           transfered[responses[r][q][k].ptr]
    BY PostedIsKnown DEF PostedInv
  <2>2. ResponseInv'
    BY <1>2, <2>1, PostedStays
  <2> QED
    BY <1>2, <2>2, WorkerStays, FinishStays DEF IInv, RequestInv, NoReceiverNotReady
<1>9. \A q \in Dispatchers \ {p} : ThreadInv(q)' /\ \A e \in Filled(q)' : EntryInv(q, e)'
  BY <1>2, <1>3, <1>6, OtherProcessesStay
<1>10. Filled(p)' = {}
  <2>1. Filled(p)' = Filled(p)
    BY <1>2, <1>4 DEF Filled
  <2>2. ASSUME NEW e \in Filled(p) PROVE FALSE
    <3>1. \A w \in ToSet(Local[p]) : ~transfered[w]
      BY <1>1, <1>5 DEF ThreadInv
    <3>2. ~AtHead(p, e, "release") /\ ~AtHead(p, e, "finalize")
      BY <1>1 DEF AtHead
    <3> QED
      BY <3>1, <3>2, FilledIsKnown DEF EntryInv
  <2> QED
    BY <2>1, <2>2
<1>11. ThreadInv(p)'
  <2>1. ToSet(<<>>) = {} /\ IsInjective(<<>>)
    BY DEF ToSet, IsInjective
  <2> QED
    BY <1>1, <1>2, <1>3, <1>4, <1>5, <1>6, <2>1, LocalIsKnown DEF ThreadInv
<1> QED
  BY <1>7, <1>8, <1>9, <1>10, <1>11 DEF IInv, FilledInv

\* The dispatcher looks whether it is to go on.
LEMMA CheckRunningKeepsInv ==
  ASSUME IInv, NEW p \in Dispatchers, CheckRunning(p), UNCHANGED mode
  PROVE  IInv'
<1> DEFINE after == IF running[p] THEN "scan" ELSE "stopped"
<1>1. /\ dpc[p] = "loop" /\ dpc' = [dpc EXCEPT ![p] = after]
      /\ reqId' = [reqId EXCEPT ![p] = 1]
      /\ UNCHANGED <<mode, transfered, responseIdx, srq, cq, running, workerVars, receiverVars,
                     fabricVars, historyVars>>
  BY DEF CheckRunning, DispatcherGoto
<1>2. UNCHANGED <<mode, wpc, i, reqBuffer, received, respBuffer, finishedTo, transfered,
                  responseIdx, srq, cq, running, rpc, prepared, clientsFinished, requests, finished,
                  responses, rnr, issued, served, answered>>
  BY <1>1 DEF workerVars, receiverVars, fabricVars, historyVars
<1>3. /\ dpc' \in [Dispatchers -> {"start", "loop", "scan", "poll", "empty", "release",
                                   "finalize", "stopped"}]
      /\ dpc'[p] \in {"scan", "stopped"} /\ \A q \in Dispatchers \ {p} : dpc'[q] = dpc[q]
  BY <1>1 DEF IInv, Types
<1>4. /\ reqId' \in [Dispatchers -> Nat] /\ reqId'[p] = 1
      /\ \A q \in Dispatchers \ {p} : reqId'[q] = reqId[q]
  BY <1>1 DEF IInv, Types
<1>5. Types'
  BY <1>2, <1>3, <1>4 DEF IInv, Types
<1>6. (\A w \in Workers : WorkerInv(w)') /\ RequestInv' /\ ResponseInv' /\ FinishInv' /\ NoReceiverNotReady'
  <2>1. \A r \in Receivers, q \in Dispatchers : \A k \in DOMAIN responses[r][q] :
           transfered[responses[r][q][k].ptr]
    BY PostedIsKnown DEF PostedInv
  <2>2. ResponseInv'
    BY <1>2, <2>1, PostedStays
  <2> QED
    BY <1>2, <2>2, WorkerStays, FinishStays DEF IInv, RequestInv, NoReceiverNotReady
<1>7. \A q \in Dispatchers \ {p} : ThreadInv(q)' /\ \A e \in Filled(q)' : EntryInv(q, e)'
  BY <1>2, <1>3, <1>4, OtherProcessesStay
<1>8. \A e \in Filled(p)' : EntryInv(p, e)'
  <2>1. Filled(p)' = Filled(p)
    BY <1>2 DEF Filled, SenderPoll
  <2> SUFFICES ASSUME NEW e \in Filled(p) PROVE EntryInv(p, e)'
    BY <2>1
  <2>2. EntryInv(p, e)
    BY FilledIsKnown
  <2>3. \A label \in {"release", "finalize"} : ~AtHead(p, e, label)' /\ ~AtHead(p, e, label)
    BY <1>1, <1>3 DEF AtHead
  <2> QED
    BY <1>2, <2>1, <2>2, <2>3, EntryStays DEF EntryInv
<1>9. ThreadInv(p)'
  <2>1. 1 \in 1 .. Len(Local[p])
    BY LocalIsKnown
  <2> QED
    BY <1>1, <1>2, <1>3, <1>4, <2>1 DEF IInv, ThreadInv, SenderPoll
<1> QED
  BY <1>5, <1>6, <1>7, <1>8, <1>9 DEF IInv, FilledInv

\* The main thread tells the dispatcher to stop.
LEMMA StopRunningKeepsInv ==
  ASSUME IInv, NEW p \in Dispatchers, StopRunning(p), UNCHANGED mode
  PROVE  IInv'
<1>1. UNCHANGED <<mode, wpc, i, reqBuffer, received, respBuffer, finishedTo, dpc, reqId, transfered,
                  responseIdx, srq, cq, rpc, prepared, clientsFinished, requests, finished,
                  responses, rnr, issued, served, answered>>
  BY DEF StopRunning, workerVars, receiverVars, fabricVars, historyVars
<1>2. running' \in [Dispatchers -> BOOLEAN]
  BY DEF StopRunning, IInv, Types
<1>3. Types'
  BY <1>1, <1>2 DEF IInv, Types
<1>4. (\A w \in Workers : WorkerInv(w)') /\ (\A q \in Dispatchers : ThreadInv(q)') /\ FinishInv'
  BY <1>1, WorkerStays, ThreadStays, FinishStays DEF IInv
<1>5. RequestInv' /\ NoReceiverNotReady'
  BY <1>1 DEF IInv, RequestInv, NoReceiverNotReady
<1>6. ResponseInv'
  BY <1>1 DEF IInv, ResponseInv, PostedInv, Answers
<1>7. FilledInv'
  BY <1>1 DEF IInv, FilledInv, Filled, EntryInv, Answers, AtHead, SenderPoll
<1> QED
  BY <1>3, <1>4, <1>5, <1>6, <1>7 DEF IInv

\* The dispatcher looks at an entry of the request array and sends what is new.
LEMMA ScanRequestKeepsInv ==
  ASSUME IInv, NEW p \in Dispatchers, ScanRequest(p), UNCHANGED mode
  PROVE  IInv'
<1>0. ThreadInv(p) /\ reqId[p] \in 1 .. Len(Local[p]) /\ Local[p][reqId[p]] \in ToSet(Local[p])
  <2>1. ThreadInv(p) /\ reqId[p] \in 1 .. Len(Local[p])
    BY DEF IInv, ThreadInv
  <2>2. reqId[p] \in DOMAIN Local[p]
    BY <2>1, LocalIsKnown
  <2> QED
    BY <2>1, <2>2 DEF ToSet
<1>3. PICK w \in Workers : w = Local[p][reqId[p]] /\ w \in ToSet(Local[p])
  BY <1>0, LocalIsKnown
<1> DEFINE msg == reqBuffer[w].msg
           last == reqId[p] = Len(Local[p])
           m == [worker |-> w, dest |-> msg.dest, id |-> msg.id, msgId |-> msg.msgId]
<1>1. /\ dpc[p] = "scan" /\ dpc' = [dpc EXCEPT ![p] = IF last THEN "poll" ELSE "scan"]
      /\ reqId' = [reqId EXCEPT ![p] = IF last THEN @ ELSE @ + 1]
      /\ IF toSend(w)
         THEN requests' = requests \cup {m} /\ transfered' = [transfered EXCEPT ![w] = TRUE]
         ELSE UNCHANGED <<requests, transfered>>
      /\ UNCHANGED <<mode, responseIdx, srq, cq, running, workerVars, receiverVars, finished,
                     responses, rnr, historyVars>>
  BY <1>3 DEF ScanRequest, DispatcherGoto
<1>2. UNCHANGED <<mode, wpc, i, reqBuffer, received, respBuffer, finishedTo, responseIdx, srq, cq,
                  running, rpc, prepared, clientsFinished, finished, responses, rnr,
                  issued, served, answered>>
  BY <1>1 DEF workerVars, receiverVars, historyVars
<1>4. /\ dpc' \in [Dispatchers -> {"start", "loop", "scan", "poll", "empty", "release",
                                   "finalize", "stopped"}]
      /\ dpc'[p] \in {"scan", "poll"} /\ \A q \in Dispatchers \ {p} : dpc'[q] = dpc[q]
  BY <1>1 DEF IInv, Types
<1>5. /\ reqId' \in [Dispatchers -> Nat] /\ reqId'[p] \in 1 .. Len(Local[p])
      /\ \A q \in Dispatchers \ {p} : reqId'[q] = reqId[q]
  <2>1. (IF last THEN reqId[p] ELSE reqId[p] + 1) \in 1 .. Len(Local[p])
    <3>1. PICK L \in Nat : L = Len(Local[p])
      BY LocalIsKnown
    <3> QED
      BY <1>0, <3>1
  <2> HIDE DEF last
  <2> QED
    BY <1>1, <2>1 DEF IInv, Types
<1>6. /\ transfered' \in [Workers -> BOOLEAN]
      /\ \A u \in Workers \ {w} : transfered'[u] <=> transfered[u]
      /\ \A u \in Workers : transfered[u] => transfered'[u]
      /\ transfered'[w] => transfered[w] \/ toSend(w)
  BY <1>1, <1>3 DEF IInv, Types
<1>7. toSend(w) => /\ reqBuffer[w].type = "ExpMsg" /\ ~transfered[w] /\ wpc[w] = "await"
                   /\ served[w] = i[w] /\ issued[w] = i[w] + 1 /\ i[w] \in Nat
                   /\ msg.msgId = issued[w] /\ msg.id \in responseIds(w)
  <2>1. WorkerInv(w) /\ reqBuffer[w].type \in {"EMPTY", "ExpMsg"} /\ i[w] \in Nat
    BY <1>3, ModeAssumption DEF IInv, Types, Entry
  <2> QED
    BY <2>1 DEF toSend, WorkerInv
<1>8. /\ m \in Request /\ m.worker = w
      /\ m.msgId = msg.msgId /\ m.id = msg.id
  BY <1>3 DEF IInv, Types, Entry, Request
<1> HIDE DEF m, msg
<1>9. requests' \subseteq Request
  BY <1>1, <1>8 DEF IInv, Types
<1>10. Types'
  BY <1>2, <1>4, <1>5, <1>6, <1>9 DEF IInv, Types
<1>11. \A u \in Workers : WorkerInv(u)'
  <2>1. \A u \in Workers \ {w} : WorkerInv(u)'
    BY <1>2, <1>6, WorkerStays DEF IInv
  <2>2. WorkerInv(w)'
    <3>1. WorkerInv(w)
      BY <1>3 DEF IInv
    <3>2. CASE toSend(w)
      BY <1>2, <1>7, <3>1, <3>2 DEF WorkerInv
    <3>3. CASE ~toSend(w)
      <4>1. transfered'[w] <=> transfered[w]
        BY <1>1, <3>3
      <4> QED
        BY <1>2, <1>3, <3>1, <4>1, WorkerStays
    <3> QED
      BY <3>2, <3>3
  <2> QED
    BY <2>1, <2>2
<1>12. RequestInv'
  <2>1. CASE toSend(w)
    <3>1. \A n \in requests : n.worker # w /\ n.worker \in Workers
      BY <1>7, <2>1 DEF IInv, RequestInv, Types, Request
    <3>2. /\ transfered'[w] /\ served'[w] < issued'[w] /\ m.msgId = issued'[w]
          /\ m.id \in responseIds(w)
      <4>1. transfered'[w]
        BY <1>1, <1>3, <2>1 DEF IInv, Types
      <4>2. served[w] < issued[w]
        BY <1>7, <2>1
      <4> QED
        BY <1>2, <1>7, <1>8, <2>1, <4>1, <4>2
    <3>3. requests' = requests \cup {m}
      BY <1>1, <2>1
    <3> QED
      BY <1>2, <1>6, <1>8, <3>1, <3>2, <3>3 DEF IInv, RequestInv
  <2>2. CASE ~toSend(w)
    BY <1>1, <1>2, <2>2 DEF IInv, RequestInv
  <2> QED
    BY <2>1, <2>2
<1>13. ResponseInv' /\ FinishInv' /\ NoReceiverNotReady'
  <2>1. \A r \in Receivers, q \in Dispatchers : \A k \in DOMAIN responses[r][q] :
           transfered[responses[r][q][k].ptr]
    BY PostedIsKnown DEF PostedInv
  <2>2. ResponseInv'
    BY <1>2, <1>6, <2>1, PostedStays
  <2> QED
    BY <1>2, <2>2, FinishStays DEF IInv, NoReceiverNotReady
<1>14. \A q \in Dispatchers \ {p} : ThreadInv(q)' /\ \A e \in Filled(q)' : EntryInv(q, e)'
  <2>1. \A u \in Workers \ ToSet(Local[p]) : transfered'[u] <=> transfered[u]
    BY <1>3, <1>6
  <2> QED
    BY <1>2, <1>4, <1>5, <2>1, OtherProcessesStay
<1>15. \A e \in Filled(p)' : EntryInv(p, e)'
  <2>1. Filled(p)' = Filled(p)
    BY <1>2 DEF Filled, SenderPoll
  <2> SUFFICES ASSUME NEW e \in Filled(p) PROVE EntryInv(p, e)'
    BY <2>1
  <2>2. PICK u \in Workers : u = respBuffer[e].body.ptr /\ EntryInv(p, e)
    BY FilledIsKnown
  <2>3. \A label \in {"release", "finalize"} : ~AtHead(p, e, label)' /\ ~AtHead(p, e, label)
    BY <1>1, <1>4 DEF AtHead
  <2>4. transfered[u] /\ (transfered'[u] <=> transfered[u])
    BY <1>6, <2>2, <2>3 DEF EntryInv
  <2> QED
    BY <1>2, <2>1, <2>2, <2>3, <2>4, EntryStays DEF EntryInv
<1>16. ThreadInv(p)'
  BY <1>0, <1>1, <1>2, <1>4, <1>5 DEF ThreadInv, SenderPoll
<1> QED
  BY <1>10, <1>11, <1>12, <1>13, <1>14, <1>15, <1>16 DEF IInv, FilledInv

\* The dispatcher polls: nothing is there, or it takes up entries that hold a response.
LEMMA PollBatchKeepsInv ==
  ASSUME IInv, NEW p \in Dispatchers, PollBatch(p), UNCHANGED mode
  PROVE  IInv'
<1> DEFINE flagged == {w \in ToSet(Local[p]) : respBuffer[w].flag = 1}
           n == IF Len(cq[p]) < Batch THEN Len(cq[p]) ELSE Batch
<1>1. dpc[p] = "poll" /\ \E l \in {"empty", "loop"} : dpc' = [dpc EXCEPT ![p] = l]
  BY DEF PollBatch, DispatcherGoto
<1>2. UNCHANGED <<mode, wpc, i, reqBuffer, received, finishedTo, reqId, transfered, srq, running,
                  rpc, prepared, clientsFinished, requests, finished, responses, rnr,
                  issued, served, answered>>
  BY DEF PollBatch, pollReceiveSRQBatch, workerVars, receiverVars, fabricVars, historyVars
<1>3. ThreadInv(p) /\ responseIdx[p] = <<>> /\ SenderPoll' = SenderPoll /\ SenderPoll \in {"BUF", "SRQ"}
  <2>1. ThreadInv(p)
    BY DEF IInv
  <2>2. responseIdx[p] = <<>>
    BY <1>1, <2>1 DEF ThreadInv
  <2> QED
    BY <1>2, <2>1, <2>2, ModeAssumption DEF SenderPoll, IInv, Types, Mode
<1>4. /\ dpc' \in [Dispatchers -> {"start", "loop", "scan", "poll", "empty", "release",
                                   "finalize", "stopped"}]
      /\ dpc'[p] \in {"empty", "loop"} /\ \A q \in Dispatchers \ {p} : dpc'[q] = dpc[q]
  BY <1>1 DEF IInv, Types
<1>5. ToSet(<<>>) = {} /\ IsInjective(<<>>)
  BY DEF ToSet, IsInjective
\* Whichever entries are taken up: they held a response, and they all still do.
<1>6. SUFFICES /\ responseIdx' \in [Dispatchers -> Seq(Workers)]
               /\ \A q \in Dispatchers \ {p} : responseIdx'[q] = responseIdx[q]
               /\ cq' \in [Dispatchers -> Seq(Workers)]
               /\ \A q \in Dispatchers \ {p} : cq'[q] = cq[q]
               /\ respBuffer' \in [Workers -> [flag : {0, 1}, body : Body]]
               /\ \A w \in Workers : respBuffer'[w].body = respBuffer[w].body
               /\ \A w \in Workers \ ToSet(Local[p]) : respBuffer'[w] = respBuffer[w]
               /\ Filled(p)' = Filled(p)
               /\ ThreadInv(p)'
  <2> SUFFICES ASSUME /\ responseIdx' \in [Dispatchers -> Seq(Workers)]
                      /\ \A q \in Dispatchers \ {p} : responseIdx'[q] = responseIdx[q]
                      /\ cq' \in [Dispatchers -> Seq(Workers)]
                      /\ \A q \in Dispatchers \ {p} : cq'[q] = cq[q]
                      /\ respBuffer' \in [Workers -> [flag : {0, 1}, body : Body]]
                      /\ \A w \in Workers : respBuffer'[w].body = respBuffer[w].body
                      /\ \A w \in Workers \ ToSet(Local[p]) : respBuffer'[w] = respBuffer[w]
                      /\ Filled(p)' = Filled(p)
                      /\ ThreadInv(p)'
               PROVE  IInv'
    OBVIOUS
  <2>1. Types'
    BY <1>2, <1>4 DEF IInv, Types
  <2>2. \A r \in Receivers, q \in Dispatchers : \A k \in DOMAIN responses[r][q] :
           transfered[responses[r][q][k].ptr]
    BY PostedIsKnown DEF PostedInv
  <2>3. ResponseInv'
    BY <1>2, <2>2, PostedStays
  <2>4. (\A w \in Workers : WorkerInv(w)') /\ RequestInv' /\ FinishInv' /\ NoReceiverNotReady'
    BY <1>2, WorkerStays, FinishStays DEF IInv, RequestInv, NoReceiverNotReady
  <2>5. \A q \in Dispatchers \ {p} : ThreadInv(q)' /\ \A e \in Filled(q)' : EntryInv(q, e)'
    BY <1>2, <1>4, OtherProcessesStay
  <2>6. ASSUME NEW e \in Filled(p) PROVE EntryInv(p, e)'
    <3>1. EntryInv(p, e) /\ \A f \in Filled(p) : f \in Workers
      BY FilledIsKnown
    <3>2. \A label \in {"release", "finalize"} : ~AtHead(p, e, label)' /\ ~AtHead(p, e, label)
      BY <1>1, <1>4 DEF AtHead
    <3>3. PICK w \in Workers : w = respBuffer[e].body.ptr
      BY FilledIsKnown
    <3>4. /\ \A f \in Filled(p)' \ {e} : respBuffer'[f].body.ptr # w
          /\ \A r \in Receivers : \A k \in DOMAIN responses'[r][p] : responses'[r][p][k].ptr # w
      BY <1>2, <3>1, <3>3 DEF EntryInv
    <3>5. /\ respBuffer'[e].body = respBuffer[e].body /\ UNCHANGED mode
          /\ transfered'[w] <=> transfered[w]
          /\ issued'[w] = issued[w] /\ served'[w] = served[w] /\ wpc'[w] = wpc[w]
          /\ received'[w] = received[w] /\ reqBuffer'[w].type = reqBuffer[w].type
      BY <1>2, <3>1
    <3> QED
      BY ONLY <3>1, <3>2, <3>3, <3>4, <3>5, EntryStays
  <2> QED
    BY <2>1, <2>3, <2>4, <2>5, <2>6 DEF IInv, FilledInv
<1>7. CASE /\ SenderPoll = "BUF" /\ dpc'[p] = "empty" /\ UNCHANGED <<srq, cq>>
           /\ \E w \in flagged : /\ respBuffer' = [respBuffer EXCEPT ![w].flag = 0]
                                 /\ responseIdx' = [responseIdx EXCEPT ![p] = <<w>>]
  <2>1. PICK w \in flagged : /\ respBuffer' = [respBuffer EXCEPT ![w].flag = 0]
                             /\ responseIdx' = [responseIdx EXCEPT ![p] = <<w>>]
    BY <1>7
  <2>2. w \in ToSet(Local[p]) /\ w \in Workers /\ respBuffer[w].flag = 1
    BY LocalIsKnown
  <2>3. /\ responseIdx' \in [Dispatchers -> Seq(Workers)] /\ responseIdx'[p] = <<w>>
        /\ \A q \in Dispatchers \ {p} : responseIdx'[q] = responseIdx[q]
    BY <2>1, <2>2 DEF IInv, Types
  <2>4. /\ respBuffer' \in [Workers -> [flag : {0, 1}, body : Body]]
        /\ respBuffer'[w].flag = 0 /\ respBuffer'[w].body = respBuffer[w].body
        /\ \A u \in Workers \ {w} : respBuffer'[u] = respBuffer[u]
    <3>1. respBuffer \in [Workers -> [flag : {0, 1}, body : Body]]
      BY DEF IInv, Types
    <3>2. respBuffer'[w] = [respBuffer[w] EXCEPT !.flag = 0]
      BY <2>1, <2>2, <3>1
    <3>3. /\ respBuffer'[w] \in [flag : {0, 1}, body : Body]
          /\ respBuffer'[w].flag = 0 /\ respBuffer'[w].body = respBuffer[w].body
      BY <2>2, <3>1, <3>2
    <3> QED
      BY <2>1, <2>2, <3>1, <3>3
  <2>5. ToSet(<<w>>) = {w} /\ IsInjective(<<w>>) /\ Len(<<w>>) = 1 /\ <<w>> # <<>>
    BY DEF ToSet, IsInjective
  <2>6. Filled(p)' = Filled(p)
    <3>1. Filled(p) = flagged
      BY <1>3, <1>5, <1>7 DEF Filled
    <3>2. Filled(p)' = {w} \cup {u \in ToSet(Local[p]) : respBuffer'[u].flag = 1}
      BY <1>3, <1>7, <2>3, <2>5 DEF Filled
    <3>3. \A u \in ToSet(Local[p]) : u \in Workers
      BY LocalIsKnown
    <3> QED
      BY <2>2, <2>4, <3>1, <3>2, <3>3
  <2>7. ThreadInv(p)'
    <3>1. 1 <= Batch
      BY ModeAssumption
    <3> QED
      BY <1>1, <1>2, <1>3, <1>7, <2>3, <2>4, <2>5, <3>1 DEF ThreadInv
  <2> QED
    BY <1>7, <2>2, <2>3, <2>4, <2>6, <2>7 DEF IInv, Types
<1>8. CASE /\ SenderPoll = "SRQ" /\ dpc'[p] = "empty" /\ UNCHANGED <<srq, respBuffer>>
           /\ n > 0
           /\ responseIdx' = [responseIdx EXCEPT ![p] = SubSeq(cq[p], 1, n)]
           /\ cq' = [cq EXCEPT ![p] = SubSeq(@, n + 1, Len(@))]
  <2> DEFINE a == SubSeq(cq[p], 1, n)
             b == SubSeq(cq[p], n + 1, Len(cq[p]))
  <2>1. cq[p] \in Seq(Workers) /\ IsInjective(cq[p])
    BY <1>3 DEF IInv, Types, ThreadInv
  <2>2. n \in 1 .. Len(cq[p]) /\ n <= Batch
    <3>1. PICK L \in Nat : L = Len(cq[p])
      BY <2>1
    <3> QED
      BY <1>8, <3>1, ModeAssumption
  <2> HIDE DEF n
  <2>3. /\ a \in Seq(Workers) /\ b \in Seq(Workers) /\ Len(a) = n /\ a # <<>>
        /\ IsInjective(a) /\ IsInjective(b)
        /\ ToSet(a) \cup ToSet(b) = ToSet(cq[p]) /\ ToSet(a) \cap ToSet(b) = {}
    BY <2>1, <2>2, SetOfParts
  <2>4. responseIdx' = [responseIdx EXCEPT ![p] = a] /\ cq' = [cq EXCEPT ![p] = b]
    BY <1>8 DEF IInv, Types
  <2> HIDE DEF a, b
  <2>5. /\ responseIdx' \in [Dispatchers -> Seq(Workers)] /\ responseIdx'[p] = a
        /\ \A q \in Dispatchers \ {p} : responseIdx'[q] = responseIdx[q]
        /\ cq' \in [Dispatchers -> Seq(Workers)] /\ cq'[p] = b
        /\ \A q \in Dispatchers \ {p} : cq'[q] = cq[q]
    BY <2>3, <2>4 DEF IInv, Types
  <2>6. Filled(p)' = Filled(p)
    <3>1. Filled(p) = ToSet(cq[p])
      BY <1>3, <1>5, <1>8 DEF Filled
    <3>2. Filled(p)' = ToSet(a) \cup ToSet(b)
      BY <1>3, <1>8, <2>5 DEF Filled
    <3> QED
      BY <2>3, <3>1, <3>2
  <2>7. ThreadInv(p)'
    <3>1. /\ ToSet(srq[p]) \cup ToSet(cq[p]) = ToSet(Local[p])
          /\ ToSet(srq[p]) \cap ToSet(cq[p]) = {}
      BY <1>1, <1>3, <1>5, <1>8 DEF ThreadInv
    <3>2. /\ ToSet(srq'[p]) \cup ToSet(b) \cup ToSet(a) = ToSet(Local[p])
          /\ ToSet(srq'[p]) \cap ToSet(b) = {} /\ ToSet(srq'[p]) \cap ToSet(a) = {}
          /\ ToSet(b) \cap ToSet(a) = {}
      BY <1>8, <2>3, <3>1
    <3> QED
      BY <1>1, <1>2, <1>3, <1>8, <2>2, <2>3, <2>5, <3>2 DEF ThreadInv
  <2> QED
    BY <1>8, <2>5, <2>6, <2>7 DEF IInv, Types
<1>9. CASE dpc'[p] = "loop" /\ UNCHANGED <<responseIdx, srq, cq, respBuffer>>
  <2>1. Filled(p)' = Filled(p)
    BY <1>3, <1>9 DEF Filled
  <2>2. ThreadInv(p)'
    BY <1>1, <1>2, <1>3, <1>9 DEF ThreadInv
  <2> QED
    BY <1>9, <2>1, <2>2 DEF IInv, Types
<1>10. \/ /\ SenderPoll = "BUF" /\ dpc' = [dpc EXCEPT ![p] = "empty"] /\ UNCHANGED <<srq, cq>>
          /\ \E w \in flagged : /\ respBuffer' = [respBuffer EXCEPT ![w].flag = 0]
                                /\ responseIdx' = [responseIdx EXCEPT ![p] = <<w>>]
       \/ /\ SenderPoll = "SRQ" /\ dpc' = [dpc EXCEPT ![p] = "empty"] /\ UNCHANGED <<srq, respBuffer>>
          /\ n > 0
          /\ responseIdx' = [responseIdx EXCEPT ![p] = SubSeq(cq[p], 1, n)]
          /\ cq' = [cq EXCEPT ![p] = SubSeq(@, n + 1, Len(@))]
       \/ dpc' = [dpc EXCEPT ![p] = "loop"] /\ UNCHANGED <<responseIdx, srq, cq, respBuffer>>
  BY DEF PollBatch, pollReceiveSRQBatch, DispatcherGoto, workerVars
<1>11. \A l : dpc' = [dpc EXCEPT ![p] = l] => dpc'[p] = l
  BY DEF IInv, Types
<1> QED
  BY <1>7, <1>8, <1>9, <1>10, <1>11

\* The dispatcher clears the request entry of the worker that the response is for.
LEMMA EmptyRequestKeepsInv ==
  ASSUME IInv, NEW p \in Dispatchers, EmptyRequest(p), UNCHANGED mode
  PROVE  IInv'
<1>1. dpc[p] = "empty"
  BY DEF EmptyRequest, DispatcherGoto
<1>2. PICK h \in Workers : h = Head(responseIdx[p]) /\ h \in Filled(p) /\ workerId(p) = respBuffer[h].body.ptr
  BY <1>1, HeadIsKnown
<1>3. PICK w \in Workers : w = respBuffer[h].body.ptr /\ EntryInv(p, h) /\ w \in ToSet(Local[p])
  BY <1>2, FilledIsKnown
<1>4. /\ transfered[w] /\ served[w] = issued[w] /\ wpc[w] = "await" /\ received[w] = 0
      /\ Answers(respBuffer[h].body, w)
  <2>1. ~AtHead(p, h, "release") /\ ~AtHead(p, h, "finalize")
    BY <1>1 DEF AtHead
  <2> QED
    BY <1>3, <2>1 DEF EntryInv
<1>5. /\ dpc' = [dpc EXCEPT ![p] = "release"]
      /\ transfered' = [transfered EXCEPT ![w] = FALSE]
      /\ reqBuffer' = [reqBuffer EXCEPT ![w].type = "EMPTY"]
      /\ UNCHANGED <<mode, wpc, i, received, respBuffer, finishedTo, reqId, responseIdx, srq, cq,
                     running, rpc, prepared, clientsFinished, requests, finished, responses, rnr,
                     issued, served, answered>>
  BY <1>2, <1>3, <1>4 DEF EmptyRequest, DispatcherGoto, receiverVars, fabricVars, historyVars
<1>6. /\ dpc' \in [Dispatchers -> {"start", "loop", "scan", "poll", "empty", "release",
                                   "finalize", "stopped"}]
      /\ dpc'[p] = "release" /\ \A q \in Dispatchers \ {p} : dpc'[q] = dpc[q]
  BY <1>5 DEF IInv, Types
<1>7. /\ transfered' \in [Workers -> BOOLEAN] /\ ~transfered'[w]
      /\ \A u \in Workers \ {w} : transfered'[u] <=> transfered[u]
  BY <1>5 DEF IInv, Types
<1>8. /\ reqBuffer' \in [Workers -> Entry]
      /\ reqBuffer'[w].type = "EMPTY" /\ reqBuffer'[w].msg = reqBuffer[w].msg
      /\ \A u \in Workers \ {w} : reqBuffer'[u] = reqBuffer[u]
  <2>1. reqBuffer \in [Workers -> Entry]
    BY DEF IInv, Types
  <2>2. /\ reqBuffer'[w] \in Entry /\ reqBuffer'[w].type = "EMPTY"
        /\ reqBuffer'[w].msg = reqBuffer[w].msg
    BY <1>5, <2>1 DEF Entry
  <2> QED
    BY <1>5, <2>1, <2>2
<1>9. Types'
  BY <1>5, <1>6, <1>7, <1>8 DEF IInv, Types
<1>10. \A u \in Workers : WorkerInv(u)'
  <2>1. \A u \in Workers \ {w} : WorkerInv(u)'
    BY <1>5, <1>7, <1>8, WorkerStays DEF IInv
  <2>2. WorkerInv(w)'
    BY <1>4, <1>5, <1>7, <1>8 DEF IInv, WorkerInv
  <2> QED
    BY <2>1, <2>2
<1>11. RequestInv' /\ FinishInv' /\ NoReceiverNotReady'
  <2>1. \A m \in requests : m.worker \in Workers \ {w}
    <3>1. \A m \in requests : m.worker \in Workers /\ served[m.worker] < issued[m.worker]
      BY DEF IInv, RequestInv, Types, Request
    <3>2. ~(served[w] < issued[w])
      BY <1>4, ModeAssumption DEF IInv, Types
    <3> QED
      BY <3>1, <3>2
  <2>2. RequestInv'
    BY <1>5, <1>7, <2>1 DEF IInv, RequestInv
  <2> QED
    BY <1>5, <2>2, FinishStays DEF IInv, NoReceiverNotReady
<1>12. \A r \in Receivers, q \in Dispatchers : \A k \in DOMAIN responses[r][q] :
          responses[r][q][k].ptr # w
  <2>1. \A r \in Receivers, q \in Dispatchers : \A k \in DOMAIN responses[r][q] :
           responses[r][q][k].ptr \in ToSet(Local[q])
    BY PostedIsKnown DEF PostedInv
  <2>2. \A q \in Dispatchers : w \in ToSet(Local[q]) => q = p
    BY <1>3, ProcessIsKnown
  <2> QED
    BY <1>3, <2>1, <2>2 DEF EntryInv
<1>13. ResponseInv'
  <2>1. \A r \in Receivers, q \in Dispatchers : \A k \in DOMAIN responses[r][q] :
           transfered[responses[r][q][k].ptr]
    BY PostedIsKnown DEF PostedInv
  <2> QED
    BY <1>5, <1>7, <1>12, <2>1, PostedStays
<1>14. \A q \in Dispatchers \ {p} : ThreadInv(q)' /\ \A e \in Filled(q)' : EntryInv(q, e)'
  BY <1>3, <1>5, <1>6, <1>7, <1>8, OtherProcessesStay
<1>15. Filled(p)' = Filled(p)
  BY <1>5 DEF Filled, SenderPoll
<1>16. EntryInv(p, h)'
  <2>1. AtHead(p, h, "release")' /\ ~AtHead(p, h, "finalize")'
    BY <1>2, <1>5, <1>6 DEF AtHead
  <2>2. \A f \in Filled(p)' : respBuffer'[f].body.ptr = w => f = h
    BY <1>3, <1>5, <1>15 DEF EntryInv
  <2>3. /\ respBuffer'[h].body.ptr = w /\ (SenderPoll' = "BUF" => w = h)
        /\ Answers(respBuffer[h].body, w)' /\ served'[w] = issued'[w] /\ wpc'[w] = "await"
        /\ received'[w] = 0
    BY <1>3, <1>4, <1>5 DEF EntryInv, Answers, SenderPoll
  <2> QED
    BY <1>3, <1>5, <1>7, <1>8, <1>12, <2>1, <2>2, <2>3 DEF EntryInv
<1>17. ASSUME NEW e \in Filled(p), e # h PROVE EntryInv(p, e)'
  <2>1. PICK u \in Workers : u = respBuffer[e].body.ptr /\ EntryInv(p, e)
    BY FilledIsKnown
  <2>2. \A label \in {"release", "finalize"} : ~AtHead(p, e, label)' /\ ~AtHead(p, e, label)
    BY <1>2, <1>5, <1>17 DEF AtHead
  <2>3. u # w
    BY <1>3, <1>17, <2>1 DEF EntryInv
  <2>4. transfered'[u] <=> transfered[u]
    BY <1>7, <2>3
  <2>5. /\ \A f \in Filled(p)' \ {e} : respBuffer'[f].body.ptr # u
        /\ \A r \in Receivers : \A k \in DOMAIN responses'[r][p] : responses'[r][p][k].ptr # u
    BY <1>5, <1>15, <2>1 DEF EntryInv
  <2> QED
    BY <1>5, <2>1, <2>2, <2>4, <2>5, EntryStays
<1>18. ThreadInv(p)'
  <2>1. ThreadInv(p)
    BY DEF IInv
  <2> QED
    BY <1>1, <1>5, <1>6, <2>1 DEF ThreadInv, SenderPoll
<1> QED
  BY <1>9, <1>10, <1>11, <1>13, <1>14, <1>15, <1>16, <1>17, <1>18 DEF IInv, FilledInv

\* What is left when the dispatcher is through with the first entry of its batch.
LEMMA NextOfBatch ==
  ASSUME IInv, NEW p \in Dispatchers, dpc[p] \in {"release", "finalize"},
         dpc' = [dpc EXCEPT ![p] = afterResponse(p)],
         responseIdx' = [responseIdx EXCEPT ![p] = Tail(@)],
         UNCHANGED <<mode, reqBuffer, respBuffer, transfered, cq, responses, wpc, issued, served>>,
         \A w \in Workers : respBuffer[Head(responseIdx[p])].body.ptr # w => received'[w] = received[w]
  PROVE  LET h == Head(responseIdx[p]) IN
         /\ h \in Workers /\ h \in ToSet(responseIdx[p])
         /\ responseIdx' \in [Dispatchers -> Seq(Workers)]
         /\ \A q \in Dispatchers \ {p} : responseIdx'[q] = responseIdx[q]
         /\ ToSet(responseIdx'[p]) = ToSet(responseIdx[p]) \ {h}
         /\ IsInjective(responseIdx'[p]) /\ Len(responseIdx'[p]) <= Batch
         /\ dpc' \in [Dispatchers -> {"start", "loop", "scan", "poll", "empty", "release",
                                      "finalize", "stopped"}]
         /\ \A q \in Dispatchers \ {p} : dpc'[q] = dpc[q]
         /\ dpc'[p] \in {"loop", "empty"} /\ (responseIdx'[p] = <<>> <=> dpc'[p] = "loop")
         /\ Filled(p)' = Filled(p) \ {h}
         /\ \A e \in Filled(p)' : EntryInv(p, e)'
<1>1. PICK h \in Workers : /\ h = Head(responseIdx[p]) /\ h \in Filled(p) /\ h \in ToSet(responseIdx[p])
                           /\ responseIdx[p] \in Seq(Workers) /\ responseIdx[p] # <<>>
                           /\ IsInjective(responseIdx[p])
  BY HeadIsKnown
<1>2. PICK w \in Workers : w = respBuffer[h].body.ptr /\ EntryInv(p, h)
  BY <1>1, FilledIsKnown
<1>3. ThreadInv(p) /\ SenderPoll' = SenderPoll /\ SenderPoll \in {"BUF", "SRQ"}
  BY ModeAssumption DEF IInv, Types, SenderPoll, Mode
<1>4. /\ Tail(responseIdx[p]) \in Seq(Workers)
      /\ ToSet(Tail(responseIdx[p])) = ToSet(responseIdx[p]) \ {h} /\ IsInjective(Tail(responseIdx[p]))
      /\ Len(responseIdx[p]) \in Nat \ {0} /\ Len(Tail(responseIdx[p])) = Len(responseIdx[p]) - 1
      /\ Tail(responseIdx[p]) = <<>> <=> Len(responseIdx[p]) = 1
  BY <1>1, SetOfTail
<1>5. /\ responseIdx' \in [Dispatchers -> Seq(Workers)] /\ responseIdx'[p] = Tail(responseIdx[p])
      /\ \A q \in Dispatchers \ {p} : responseIdx'[q] = responseIdx[q]
  BY <1>4 DEF IInv, Types
<1>6. /\ dpc' \in [Dispatchers -> {"start", "loop", "scan", "poll", "empty", "release",
                                   "finalize", "stopped"}]
      /\ dpc'[p] = afterResponse(p) /\ \A q \in Dispatchers \ {p} : dpc'[q] = dpc[q]
  BY DEF IInv, Types, afterResponse
<1>7. dpc'[p] \in {"loop", "empty"} /\ (responseIdx'[p] = <<>> <=> dpc'[p] = "loop")
  BY <1>4, <1>5, <1>6 DEF afterResponse
<1>8. Len(responseIdx'[p]) <= Batch
  <2>1. Len(responseIdx[p]) <= Batch
    BY <1>3 DEF ThreadInv
  <2> QED
    BY <1>4, <1>5, <2>1, ModeAssumption
<1>9. Filled(p)' = Filled(p) \ {h}
  <2>1. CASE SenderPoll = "BUF"
    <3>1. respBuffer[h].flag = 0
      BY <1>1, <1>3, <2>1 DEF ThreadInv
    <3> QED
      BY <1>3, <1>4, <1>5, <2>1, <3>1 DEF Filled
  <2>2. CASE SenderPoll = "SRQ"
    <3>1. h \notin ToSet(cq[p])
      BY <1>1, <1>3, <2>2 DEF ThreadInv
    <3> QED
      BY <1>3, <1>4, <1>5, <2>2, <3>1 DEF Filled
  <2> QED
    BY <1>3, <2>1, <2>2
<1>10. ASSUME NEW e \in Filled(p) \ {h} PROVE EntryInv(p, e)'
  <2>1. PICK u \in Workers : u = respBuffer[e].body.ptr /\ EntryInv(p, e)
    BY FilledIsKnown
  <2>2. \A label \in {"release", "finalize"} : ~AtHead(p, e, label)' /\ ~AtHead(p, e, label)
    BY <1>1, <1>7 DEF AtHead
  <2>3. u # w
    BY <1>2, <2>1 DEF EntryInv
  <2>4. received'[u] = received[u]
    BY <1>1, <1>2, <2>3
  <2>5. /\ \A f \in Filled(p)' \ {e} : respBuffer'[f].body.ptr # u
        /\ \A r \in Receivers : \A k \in DOMAIN responses'[r][p] : responses'[r][p][k].ptr # u
    BY <1>9, <2>1 DEF EntryInv
  <2> QED
    BY <2>1, <2>2, <2>4, <2>5, EntryStays
<1> QED
  BY <1>1, <1>4, <1>5, <1>6, <1>7, <1>8, <1>9, <1>10

\* The dispatcher sets the mailbox; with BUF it is then through with the response.
LEMMA ReleaseWorkerKeepsInv ==
  ASSUME IInv, NEW p \in Dispatchers, ReleaseWorker(p), UNCHANGED mode
  PROVE  IInv'
<1>1. dpc[p] = "release"
  BY DEF ReleaseWorker, DispatcherGoto
<1>2. PICK h \in Workers : h = Head(responseIdx[p]) /\ h \in Filled(p) /\ workerId(p) = respBuffer[h].body.ptr
  BY <1>1, HeadIsKnown
<1>3. PICK w \in Workers : w = respBuffer[h].body.ptr /\ EntryInv(p, h) /\ w \in ToSet(Local[p])
  BY <1>2, FilledIsKnown
<1>4. /\ ~transfered[w] /\ served[w] = issued[w] /\ wpc[w] = "await" /\ received[w] = 0
      /\ reqBuffer[w].type = "EMPTY"
  <2>1. AtHead(p, h, "release") /\ ~AtHead(p, h, "finalize")
    BY <1>1, <1>2 DEF AtHead
  <2> QED
    BY <1>3, <2>1 DEF EntryInv
<1>5. /\ dpc' = [dpc EXCEPT ![p] = IF SenderPoll = "SRQ" THEN "finalize" ELSE afterResponse(p)]
      /\ received' = [received EXCEPT ![w] = 1]
      /\ responseIdx' = IF SenderPoll = "SRQ" THEN responseIdx ELSE [responseIdx EXCEPT ![p] = Tail(@)]
      /\ UNCHANGED <<mode, wpc, i, reqBuffer, respBuffer, finishedTo, reqId, transfered, srq, cq,
                     running, rpc, prepared, clientsFinished, requests, finished, responses, rnr,
                     issued, served, answered>>
  BY <1>2, <1>3 DEF ReleaseWorker, DispatcherGoto, receiverVars, fabricVars, historyVars
<1>6. /\ received' \in [Workers -> {0, 1}] /\ received'[w] = 1
      /\ \A u \in Workers \ {w} : received'[u] = received[u]
  BY <1>5 DEF IInv, Types
<1>7. SenderPoll' = SenderPoll /\ SenderPoll \in {"BUF", "SRQ"} /\ ThreadInv(p)
  BY <1>5, ModeAssumption DEF IInv, Types, SenderPoll, Mode
<1>8. \A u \in Workers : WorkerInv(u)'
  <2>1. \A u \in Workers \ {w} : WorkerInv(u)'
    BY <1>5, <1>6, WorkerStays DEF IInv
  <2>2. WorkerInv(w)'
    BY <1>4, <1>5, <1>6 DEF IInv, WorkerInv
  <2> QED
    BY <2>1, <2>2
<1>9. RequestInv' /\ ResponseInv' /\ FinishInv' /\ NoReceiverNotReady'
  <2>1. \A r \in Receivers, q \in Dispatchers : \A k \in DOMAIN responses[r][q] :
           transfered[responses[r][q][k].ptr]
    BY PostedIsKnown DEF PostedInv
  <2>2. ResponseInv'
    BY <1>5, <2>1, PostedStays
  <2> QED
    BY <1>5, <2>2, FinishStays DEF IInv, RequestInv, NoReceiverNotReady
\* With SRQ the entry stays the first of the batch.
<1>10. ASSUME SenderPoll = "SRQ"
       PROVE  /\ responseIdx' \in [Dispatchers -> Seq(Workers)]
              /\ dpc' \in [Dispatchers -> {"start", "loop", "scan", "poll", "empty", "release",
                                           "finalize", "stopped"}]
              /\ \A q \in Dispatchers \ {p} : responseIdx'[q] = responseIdx[q] /\ dpc'[q] = dpc[q]
              /\ \A e \in Filled(p)' : EntryInv(p, e)'
              /\ ThreadInv(p)'
  <2>1. /\ dpc' \in [Dispatchers -> {"start", "loop", "scan", "poll", "empty", "release",
                                     "finalize", "stopped"}]
        /\ dpc'[p] = "finalize" /\ \A q \in Dispatchers \ {p} : dpc'[q] = dpc[q]
    BY <1>5, <1>10 DEF IInv, Types
  <2>2. Filled(p)' = Filled(p)
    BY <1>5, <1>7, <1>10 DEF Filled
  <2>3. EntryInv(p, h)'
    <3>1. AtHead(p, h, "finalize")' /\ ~AtHead(p, h, "release")'
      BY <1>2, <1>5, <1>10, <2>1 DEF AtHead
    <3>2. /\ \A f \in Filled(p)' : respBuffer'[f].body.ptr = w => f = h
          /\ \A r \in Receivers : \A k \in DOMAIN responses'[r][p] : responses'[r][p][k].ptr # w
      BY <1>3, <1>5, <2>2 DEF EntryInv
    <3> QED
      BY <1>3, <1>4, <1>5, <1>7, <1>10, <3>1, <3>2 DEF EntryInv
  <2>4. ASSUME NEW e \in Filled(p), e # h PROVE EntryInv(p, e)'
    <3>1. PICK u \in Workers : u = respBuffer[e].body.ptr /\ EntryInv(p, e)
      BY FilledIsKnown
    <3>2. \A label \in {"release", "finalize"} : ~AtHead(p, e, label)' /\ ~AtHead(p, e, label)
      BY <1>2, <1>5, <1>10, <2>4 DEF AtHead
    <3>3. received'[u] = received[u]
      BY <1>3, <1>6, <2>4, <3>1 DEF EntryInv
    <3>4. /\ \A f \in Filled(p)' \ {e} : respBuffer'[f].body.ptr # u
          /\ \A r \in Receivers : \A k \in DOMAIN responses'[r][p] : responses'[r][p][k].ptr # u
      BY <1>5, <2>2, <3>1 DEF EntryInv
    <3> QED
      BY <1>5, <3>1, <3>2, <3>3, <3>4, EntryStays
  <2>5. ThreadInv(p)'
    BY <1>1, <1>5, <1>7, <1>10, <2>1 DEF ThreadInv
  <2> QED
    BY <1>5, <1>10, <2>1, <2>2, <2>3, <2>4, <2>5 DEF IInv, Types
<1>11. ASSUME SenderPoll = "BUF"
       PROVE  /\ responseIdx' \in [Dispatchers -> Seq(Workers)]
              /\ dpc' \in [Dispatchers -> {"start", "loop", "scan", "poll", "empty", "release",
                                           "finalize", "stopped"}]
              /\ \A q \in Dispatchers \ {p} : responseIdx'[q] = responseIdx[q] /\ dpc'[q] = dpc[q]
              /\ \A e \in Filled(p)' : EntryInv(p, e)'
              /\ ThreadInv(p)'
  <2>1. /\ responseIdx' \in [Dispatchers -> Seq(Workers)]
        /\ \A q \in Dispatchers \ {p} : responseIdx'[q] = responseIdx[q]
        /\ ToSet(responseIdx'[p]) = ToSet(responseIdx[p]) \ {h}
        /\ IsInjective(responseIdx'[p]) /\ Len(responseIdx'[p]) <= Batch
        /\ dpc' \in [Dispatchers -> {"start", "loop", "scan", "poll", "empty", "release",
                                     "finalize", "stopped"}]
        /\ \A q \in Dispatchers \ {p} : dpc'[q] = dpc[q]
        /\ dpc'[p] \in {"loop", "empty"} /\ (responseIdx'[p] = <<>> <=> dpc'[p] = "loop")
        /\ \A e \in Filled(p)' : EntryInv(p, e)'
    <3>1. /\ dpc' = [dpc EXCEPT ![p] = afterResponse(p)]
          /\ responseIdx' = [responseIdx EXCEPT ![p] = Tail(@)]
      BY <1>5, <1>11
    <3>2. \A u \in Workers : respBuffer[Head(responseIdx[p])].body.ptr # u => received'[u] = received[u]
      BY <1>2, <1>3, <1>6
    <3> QED
      BY <1>1, <1>2, <1>5, <3>1, <3>2, NextOfBatch
  <2>2. ThreadInv(p)'
    BY <1>1, <1>5, <1>7, <1>11, <2>1 DEF ThreadInv
  <2> QED
    BY <2>1, <2>2
<1>12. \A q \in Dispatchers \ {p} : ThreadInv(q)' /\ \A e \in Filled(q)' : EntryInv(q, e)'
  BY <1>3, <1>5, <1>6, <1>7, <1>10, <1>11, OtherProcessesStay
<1>13. Types'
  BY <1>5, <1>6, <1>7, <1>10, <1>11 DEF IInv, Types
<1> QED
  BY <1>7, <1>8, <1>9, <1>10, <1>11, <1>12, <1>13 DEF IInv, FilledInv

\* The dispatcher posts the receive of the response again (SRQ).
LEMMA FinalizeResponseKeepsInv ==
  ASSUME IInv, NEW p \in Dispatchers, FinalizeResponse(p), UNCHANGED mode
  PROVE  IInv'
<1> DEFINE h == Head(responseIdx[p])
<1>1. /\ dpc[p] = "finalize" /\ dpc' = [dpc EXCEPT ![p] = afterResponse(p)]
      /\ responseIdx' = [responseIdx EXCEPT ![p] = Tail(@)]
      /\ srq' = [srq EXCEPT ![p] = @ \o <<h>>]
      /\ UNCHANGED <<mode, wpc, i, reqBuffer, received, respBuffer, finishedTo, reqId, transfered, cq,
                     running, rpc, prepared, clientsFinished, requests, finished, responses, rnr,
                     issued, served, answered>>
  BY DEF FinalizeResponse, receiveSRQ, DispatcherGoto, workerVars, receiverVars, fabricVars, historyVars
<1>2. /\ h \in Workers /\ h \in ToSet(responseIdx[p])
      /\ responseIdx' \in [Dispatchers -> Seq(Workers)]
      /\ \A q \in Dispatchers \ {p} : responseIdx'[q] = responseIdx[q]
      /\ ToSet(responseIdx'[p]) = ToSet(responseIdx[p]) \ {h}
      /\ IsInjective(responseIdx'[p]) /\ Len(responseIdx'[p]) <= Batch
      /\ dpc' \in [Dispatchers -> {"start", "loop", "scan", "poll", "empty", "release",
                                   "finalize", "stopped"}]
      /\ \A q \in Dispatchers \ {p} : dpc'[q] = dpc[q]
      /\ dpc'[p] \in {"loop", "empty"} /\ (responseIdx'[p] = <<>> <=> dpc'[p] = "loop")
      /\ \A e \in Filled(p)' : EntryInv(p, e)'
  BY <1>1, NextOfBatch
<1>3. ThreadInv(p) /\ SenderPoll = "SRQ" /\ SenderPoll' = SenderPoll
  <2>1. ThreadInv(p) /\ SenderPoll \in {"BUF", "SRQ"} /\ SenderPoll' = SenderPoll
    BY <1>1, ModeAssumption DEF IInv, Types, SenderPoll, Mode
  <2> QED
    BY <1>1, <2>1 DEF ThreadInv
<1>4. /\ srq' \in [Dispatchers -> Seq(Workers)] /\ IsInjective(srq'[p])
      /\ ToSet(srq'[p]) = ToSet(srq[p]) \cup {h}
      /\ \A q \in Dispatchers \ {p} : srq'[q] = srq[q]
  <2>1. /\ srq[p] \in Seq(Workers) /\ IsInjective(srq[p]) /\ h \notin ToSet(srq[p])
    BY <1>1, <1>2, <1>3 DEF ThreadInv, IInv, Types
  <2>2. srq[p] \o <<h>> = Append(srq[p], h)
    BY <1>2, <2>1
  <2>3. /\ Append(srq[p], h) \in Seq(Workers) /\ IsInjective(Append(srq[p], h))
        /\ ToSet(Append(srq[p], h)) = ToSet(srq[p]) \cup {h}
    BY <1>2, <2>1, SetOfAppend
  <2>4. srq \in [Dispatchers -> Seq(Workers)]
    BY DEF IInv, Types
  <2> HIDE DEF h
  <2> QED
    BY <1>1, <2>2, <2>3, <2>4
<1> HIDE DEF h
<1>5. Types'
  BY <1>1, <1>2, <1>4 DEF IInv, Types
<1>6. (\A w \in Workers : WorkerInv(w)') /\ RequestInv' /\ ResponseInv' /\ FinishInv' /\ NoReceiverNotReady'
  <2>1. \A r \in Receivers, q \in Dispatchers : \A k \in DOMAIN responses[r][q] :
           transfered[responses[r][q][k].ptr]
    BY PostedIsKnown DEF PostedInv
  <2>2. ResponseInv'
    BY <1>1, <2>1, PostedStays
  <2> QED
    BY <1>1, <2>2, WorkerStays, FinishStays DEF IInv, RequestInv, NoReceiverNotReady
<1>7. \A q \in Dispatchers \ {p} : ThreadInv(q)' /\ \A e \in Filled(q)' : EntryInv(q, e)'
  BY <1>1, <1>2, <1>4, OtherProcessesStay
<1>8. ThreadInv(p)'
  <2>1. /\ ToSet(srq'[p]) \cup ToSet(cq'[p]) \cup ToSet(responseIdx'[p]) = ToSet(Local[p])
        /\ ToSet(srq'[p]) \cap ToSet(cq'[p]) = {}
        /\ ToSet(srq'[p]) \cap ToSet(responseIdx'[p]) = {}
        /\ ToSet(cq'[p]) \cap ToSet(responseIdx'[p]) = {}
    BY <1>1, <1>2, <1>3, <1>4 DEF ThreadInv
  <2> QED
    BY <1>1, <1>2, <1>3, <1>4, <2>1 DEF ThreadInv
<1> QED
  BY <1>2, <1>5, <1>6, <1>7, <1>8 DEF IInv, FilledInv

\* The receiver prepares the response in an entry of the worker's share and posts it.
LEMMA HandleRequestKeepsInv ==
  ASSUME IInv, NEW r \in Receivers, HandleRequest(r), UNCHANGED mode
  PROVE  IInv'
<1>1. PICK m \in requests :
         /\ m.dest = r /\ requests' = requests \ {m}
         /\ prepared' = [prepared EXCEPT ![r][m.id] = [ptr |-> m.worker, msgId |-> m.msgId]]
         /\ responses' = [responses EXCEPT ![r][Process(m.worker)] =
               Append(@, [ptr |-> m.worker, id |-> m.id, copy |-> [ptr |-> m.worker, msgId |-> m.msgId]])]
         /\ served' = [served EXCEPT ![m.worker] = @ + 1]
  BY DEF HandleRequest
<1>2. UNCHANGED <<mode, wpc, i, reqBuffer, received, respBuffer, finishedTo, dpc, reqId, transfered,
                  responseIdx, srq, cq, running, rpc, clientsFinished, finished, rnr, issued, answered>>
  BY DEF HandleRequest, workerVars, dispatcherVars
<1>3. m \in Request
  BY DEF IInv, Types
<1>4. PICK w \in Workers : w = m.worker
  BY <1>3 DEF Request
<1>5. PICK p \in Dispatchers : p = Process(w) /\ w \in ToSet(Local[p])
  BY ProcessIsKnown
<1>6. /\ transfered[w] /\ m.msgId = issued[w] /\ m.id \in responseIds(w)
      /\ served[w] < issued[w] /\ served[w] = i[w] /\ issued[w] = i[w] + 1 /\ i[w] \in Nat
      /\ \A n \in requests : n.worker = w => n = m
  <2>1. /\ transfered[w] /\ m.msgId = issued[w] /\ m.id \in responseIds(w) /\ served[w] < issued[w]
        /\ \A n \in requests : n.worker = w => n = m
    BY <1>4 DEF IInv, RequestInv
  <2>2. WorkerInv(w) /\ i[w] \in Nat /\ issued[w] \in Nat
    BY ModeAssumption DEF IInv, Types
  <2>3. wpc[w] = "await"
    BY <2>1, TransferedWaits
  <2> QED
    BY <2>1, <2>2, <2>3 DEF WorkerInv
<1> DEFINE b == [ptr |-> w, msgId |-> issued[w]]
           x == [ptr |-> w, id |-> m.id, copy |-> b]
<1>7. /\ b \in Body /\ Answers(b, w)
      /\ x \in Response /\ x.ptr = w /\ x.id = m.id /\ x.copy = b
      /\ m.id \in 0 .. PreparedResponses - 1
  <2>1. m.id \in 0 .. PreparedResponses - 1
    BY <1>6, SharesAreDisjoint
  <2>2. m.id \in Nat
    BY <1>3 DEF Request
  <2> QED
    BY <2>1, <2>2 DEF IInv, Types, Body, Response, Answers
<1>8. /\ prepared' = [prepared EXCEPT ![r][m.id] = b]
      /\ responses' = [responses EXCEPT ![r][p] = Append(@, x)]
      /\ served' = [served EXCEPT ![w] = @ + 1]
  BY <1>1, <1>4, <1>5, <1>6
<1> HIDE DEF x, b
<1>9. /\ prepared' \in [Receivers -> [0 .. PreparedResponses - 1 -> Body]]
      /\ prepared'[r][m.id] = b
      /\ \A q \in Receivers : \A k \in 0 .. PreparedResponses - 1 :
            (q # r \/ k # m.id) => prepared'[q][k] = prepared[q][k]
  BY <1>7, <1>8 DEF IInv, Types
<1>10. /\ served' \in [Workers -> 0 .. Requests] /\ served'[w] = issued[w]
       /\ \A u \in Workers \ {w} : served'[u] = served[u]
  BY <1>6, <1>8 DEF IInv, Types
<1> DEFINE L == Len(responses[r][p])
<1>11. /\ responses' \in [Receivers -> [Dispatchers -> Seq(Response)]]
       /\ L \in Nat /\ DOMAIN responses[r][p] = 1 .. L /\ DOMAIN responses'[r][p] = 1 .. L + 1
       /\ responses'[r][p][L + 1] = x
       /\ \A k \in 1 .. L : responses'[r][p][k] = responses[r][p][k]
       /\ \A q \in Receivers, d \in Dispatchers : (q # r \/ d # p) => responses'[q][d] = responses[q][d]
  <2>1. responses \in [Receivers -> [Dispatchers -> Seq(Response)]]
    BY DEF IInv, Types
  <2>2. responses'[r][p] = Append(responses[r][p], x) /\ responses[r][p] \in Seq(Response)
    BY <1>8, <2>1
  <2>3. /\ Append(responses[r][p], x) \in Seq(Response) /\ L \in Nat
        /\ DOMAIN responses[r][p] = 1 .. L /\ DOMAIN Append(responses[r][p], x) = 1 .. L + 1
        /\ Append(responses[r][p], x)[L + 1] = x
        /\ \A k \in 1 .. L : Append(responses[r][p], x)[k] = responses[r][p][k]
    BY <1>7, <2>2
  <2>4. /\ responses' \in [Receivers -> [Dispatchers -> Seq(Response)]]
        /\ \A q \in Receivers, d \in Dispatchers : (q # r \/ d # p) => responses'[q][d] = responses[q][d]
    BY <1>8, <2>1, <2>2, <2>3
  <2> QED
    BY <2>2, <2>3, <2>4
<1>12. \E l \in Nat : l = L + 1 /\ l \notin 1 .. L /\ 1 .. L + 1 = (1 .. L) \cup {l}
  BY <1>11
<1>13. PICK l \in Nat : /\ l \notin DOMAIN responses[r][p]
                        /\ DOMAIN responses'[r][p] = DOMAIN responses[r][p] \cup {l}
                        /\ responses'[r][p][l] = x
                        /\ \A k \in DOMAIN responses[r][p] : responses'[r][p][k] = responses[r][p][k]
  BY <1>11, <1>12
<1> HIDE DEF L
<1>14. Types'
  <2>1. requests' \subseteq Request
    BY <1>1 DEF IInv, Types
  <2> QED
    BY <1>2, <1>9, <1>10, <1>11, <2>1 DEF IInv, Types
<1>15. \A u \in Workers : WorkerInv(u)'
  <2>1. \A u \in Workers \ {w} : WorkerInv(u)'
    BY <1>2, <1>10, WorkerStays DEF IInv
  <2>2. WorkerInv(w)'
    BY <1>2, <1>6, <1>10 DEF IInv, WorkerInv
  <2> QED
    BY <2>1, <2>2
<1>16. RequestInv' /\ FinishInv' /\ NoReceiverNotReady' /\ (\A q \in Dispatchers : ThreadInv(q)')
  <2>1. \A n \in requests' : n \in requests /\ n.worker \in Workers \ {w}
    BY <1>1, <1>4, <1>6 DEF IInv, Types, Request
  <2>2. RequestInv'
    BY <1>2, <1>10, <2>1 DEF IInv, RequestInv
  <2> QED
    BY <1>2, <2>2, FinishStays, ThreadStays DEF IInv, NoReceiverNotReady
\* Nothing that was on its way is for w.
<1>17. \A q \in Receivers, d \in Dispatchers : \A k \in DOMAIN responses[q][d] :
          /\ responses[q][d][k].ptr \in Workers \ {w}
          /\ k \in DOMAIN responses'[q][d] /\ responses'[q][d][k] = responses[q][d][k]
  <2> SUFFICES ASSUME NEW q \in Receivers, NEW d \in Dispatchers, NEW k \in DOMAIN responses[q][d]
               PROVE  /\ responses[q][d][k].ptr \in Workers \ {w}
                      /\ k \in DOMAIN responses'[q][d] /\ responses'[q][d][k] = responses[q][d][k]
    OBVIOUS
  <2>1. PICK u \in Workers : u = responses[q][d][k].ptr /\ served[u] = issued[u]
    BY PostedIsKnown DEF PostedInv, Response
  <2>2. ~(issued[w] < issued[w])
    BY <1>6
  <2>3. u # w
    BY <1>6, <2>1, <2>2
  <2> QED
    BY <1>11, <1>13, <2>1, <2>3
<1>18. \A q \in Receivers, d \in Dispatchers : \A k \in DOMAIN responses'[q][d] :
          k \in DOMAIN responses[q][d] \/ (q = r /\ d = p /\ k = l)
  BY <1>11, <1>13
<1>19. ResponseInv'
  <2>1. ASSUME NEW q \in Receivers, NEW d \in Dispatchers, NEW k \in DOMAIN responses[q][d]
        PROVE  PostedInv(q, d, k)'
    <3>1. PICK u \in Workers : /\ u = responses[q][d][k].ptr /\ u # w /\ PostedInv(q, d, k)
                               /\ responses'[q][d][k] = responses[q][d][k]
      BY <1>17, PostedIsKnown
    <3>2. prepared'[q][responses[q][d][k].id] = prepared[q][responses[q][d][k].id]
      <4>1. responses[q][d][k].id \in responseIds(u)
        BY <3>1 DEF PostedInv
      <4> QED
        BY <1>6, <1>9, <3>1, <4>1, SharesAreDisjoint
    <3>3. \A s \in Receivers : \A j \in DOMAIN responses'[s][d] :
             responses'[s][d][j].ptr = u => s = q /\ j = k
      BY <1>7, <1>13, <1>17, <1>18, <3>1 DEF PostedInv
    <3>4. served'[u] = served[u]
      BY <1>10, <3>1
    <3> QED
      BY <1>2, <3>1, <3>2, <3>3, <3>4 DEF PostedInv, Answers
  <2>2. PostedInv(r, p, l)'
    <3>1. \A s \in Receivers : \A j \in DOMAIN responses'[s][p] :
             responses'[s][p][j].ptr = w => s = r /\ j = l
      BY <1>17, <1>18
    <3> QED
      BY <1>2, <1>5, <1>6, <1>7, <1>9, <1>10, <1>13, <3>1 DEF PostedInv, Answers
  <2> QED
    BY <1>18, <2>1, <2>2 DEF ResponseInv
<1>20. \A q \in Dispatchers \ {p} : \A e \in Filled(q)' : EntryInv(q, e)'
  <2>1. \A q \in Dispatchers \ {p} : \A s \in Receivers : responses'[s][q] = responses[s][q]
    BY <1>11
  <2>2. \A u \in Workers \ ToSet(Local[p]) : served'[u] = served[u]
    BY <1>5, <1>10
  <2> QED
    BY <1>2, <2>1, <2>2, OtherProcessesStay
<1>21. \A e \in Filled(p)' : EntryInv(p, e)'
  <2>1. Filled(p)' = Filled(p)
    BY <1>2 DEF Filled, SenderPoll
  <2> SUFFICES ASSUME NEW e \in Filled(p) PROVE EntryInv(p, e)'
    BY <2>1
  <2>2. PICK u \in Workers : u = respBuffer[e].body.ptr /\ EntryInv(p, e)
    BY FilledIsKnown
  <2>3. u # w
    <3>1. AtHead(p, e, "finalize") => ~transfered[u]
      BY <2>2 DEF EntryInv
    <3>2. ~AtHead(p, e, "finalize") => served[u] = issued[u]
      BY <2>2 DEF EntryInv
    <3>3. ~(issued[w] < issued[w])
      BY <1>6
    <3> QED
      BY <1>6, <3>1, <3>2, <3>3
  <2>4. \A label \in {"release", "finalize"} : AtHead(p, e, label)' <=> AtHead(p, e, label)
    BY <1>2 DEF AtHead
  <2>5. \A q \in Receivers : \A k \in DOMAIN responses'[q][p] : responses'[q][p][k].ptr # u
    BY <1>7, <1>13, <1>17, <1>18, <2>2, <2>3 DEF EntryInv
  <2>6. \A f \in Filled(p)' \ {e} : respBuffer'[f].body.ptr # u
    BY <1>2, <2>1, <2>2 DEF EntryInv
  <2>7. served'[u] = served[u]
    BY <1>10, <2>3
  <2> QED
    BY <1>2, <2>2, <2>4, <2>5, <2>6, <2>7, EntryStays
<1> QED
  BY <1>14, <1>15, <1>16, <1>19, <1>20, <1>21 DEF IInv, FilledInv

\* The receiver counts a worker that has finished.
LEMMA CountFinishedKeepsInv ==
  ASSUME IInv, NEW r \in Receivers, CountFinished(r), UNCHANGED mode
  PROVE  IInv'
<1>1. PICK m \in finished : m[2] = r /\ finished' = finished \ {m}
  BY DEF CountFinished
<1>2. /\ rpc[r] = "poll"
      /\ clientsFinished' = [clientsFinished EXCEPT ![r] = @ + 1]
      /\ rpc' = [rpc EXCEPT ![r] = IF clientsFinished[r] + 1 = Cardinality(Workers) THEN "done" ELSE "poll"]
      /\ UNCHANGED <<mode, wpc, i, reqBuffer, received, respBuffer, finishedTo, dpc, reqId, transfered,
                     responseIdx, srq, cq, running, prepared, requests, responses, rnr,
                     issued, served, answered>>
  BY DEF CountFinished, workerVars, dispatcherVars, historyVars
<1>3. PICK w \in Workers : m = <<w, r>> /\ r \in finishedTo[w]
  BY <1>1 DEF IInv, Types, FinishInv
<1>4. /\ clientsFinished' \in [Receivers -> Nat] /\ clientsFinished'[r] = clientsFinished[r] + 1
      /\ \A q \in Receivers \ {r} : clientsFinished'[q] = clientsFinished[q]
      /\ rpc' \in [Receivers -> {"poll", "done"}]
      /\ rpc'[r] = "done" => clientsFinished[r] + 1 = Cardinality(Workers)
      /\ \A q \in Receivers \ {r} : rpc'[q] = rpc[q]
  BY <1>2 DEF IInv, Types
<1>5. Types'
  BY <1>1, <1>2, <1>4 DEF IInv, Types
<1>6. (\A u \in Workers : WorkerInv(u)') /\ (\A q \in Dispatchers : ThreadInv(q)')
  BY <1>2, WorkerStays, ThreadStays DEF IInv
<1>7. RequestInv' /\ NoReceiverNotReady'
  BY <1>2 DEF IInv, RequestInv, NoReceiverNotReady
<1>8. ResponseInv'
  BY <1>2 DEF IInv, ResponseInv, PostedInv, Answers
<1>9. FilledInv'
  BY <1>2 DEF IInv, FilledInv, Filled, EntryInv, Answers, AtHead, SenderPoll
<1>10. FinishInv'
  <2>1. \A q \in Receivers \ {r} : Counted(q)' = Counted(q)
    BY <1>1, <1>2, <1>3 DEF Counted
  <2>2. Counted(r)' = Counted(r) \cup {w} /\ w \notin Counted(r)
    BY <1>1, <1>2, <1>3 DEF Counted
  <2>3. Cardinality(Counted(r)') = Cardinality(Counted(r)) + 1
    <3>1. IsFiniteSet(Counted(r))
      BY WorkersAssumption, FS_Subset DEF Counted
    <3> QED
      BY <2>2, <3>1, FS_AddElement
  <2>4. \A q \in Receivers : clientsFinished'[q] = Cardinality(Counted(q)')
    BY <1>4, <2>1, <2>3 DEF IInv, FinishInv
  <2>5. \A q \in Receivers : rpc'[q] = "done" => clientsFinished'[q] = Cardinality(Workers)
    BY <1>4 DEF IInv, FinishInv
  <2>6. /\ \A u \in Workers : finishedTo'[u] # {} => wpc'[u] \in {"finish", "done"}
        /\ \A n \in finished' : n[2] \in finishedTo'[n[1]]
    BY <1>1, <1>2 DEF IInv, FinishInv
  <2> QED
    BY <2>4, <2>5, <2>6 DEF FinishInv
<1> QED
  BY <1>5, <1>6, <1>7, <1>8, <1>9, <1>10 DEF IInv

-----------------------------------------------------------------------------
\* A response that is on its way finds a receive: were all entries of its process
\* filled, they would hold the responses of all workers, and its own is not there.
LEMMA ReceiveIsLeft ==
  ASSUME IInv, NEW r \in Receivers, NEW p \in Dispatchers, responses[r][p] # <<>>, SenderPoll = "SRQ"
  PROVE  srq[p] # <<>> /\ dpc[p] # "start"
<1> DEFINE L == ToSet(Local[p])
           f == [e \in L |-> respBuffer[e].body.ptr]
<1>1. PICK k \in DOMAIN responses[r][p] : TRUE
  <2>1. responses[r][p] \in Seq(Response)
    BY DEF IInv, Types
  <2>2. 1 \in DOMAIN responses[r][p]
    BY <2>1
  <2> QED
    BY <2>2
<1>2. PICK u \in Workers : u = responses[r][p][k].ptr /\ transfered[u] /\ u \in L
  BY PostedIsKnown DEF PostedInv, Response
<1>3. ThreadInv(p) /\ dpc[p] # "start"
  BY <1>2 DEF IInv, ThreadInv
<1>4. SUFFICES ASSUME srq[p] = <<>> PROVE FALSE
  BY <1>3
<1>5. L = Filled(p)
  <2>1. ToSet(<<>>) = {}
    BY DEF ToSet
  <2> QED
    BY <1>3, <1>4, <2>1 DEF ThreadInv, Filled
<1>6. f \in Injection(L, L)
  <2>1. \A e \in L : f[e] \in L /\ EntryInv(p, e)
    BY <1>5, FilledIsKnown
  <2>2. \A d, e \in L : f[d] = f[e] => d = e
    BY <1>5, <2>1 DEF EntryInv
  <2> QED
    BY <2>1, <2>2 DEF Injection, IsInjective
<1>7. IsFiniteSet(L)
  BY WorkersAssumption, LocalIsKnown, FS_Subset
<1>8. PICK e \in L : f[e] = u
  <2> HIDE DEF L, f
  <2>1. f \in Surjection(L, L)
    BY <1>6, <1>7, FS_Injection
  <2> QED
    BY <1>2, <2>1 DEF Surjection
<1>9. EntryInv(p, e)
  BY <1>5, FilledIsKnown
<1> QED
  BY <1>1, <1>2, <1>8, <1>9 DEF EntryInv

\* The oldest response for a process arrives.
LEMMA DeliverResponseKeepsInv ==
  ASSUME IInv, NEW r \in Receivers, NEW p \in Dispatchers, DeliverResponse(r, p), UNCHANGED mode
  PROVE  IInv'
<1> DEFINE s == responses[r][p]
           m == Head(s)
<1>1. /\ s # <<>> /\ responses' = [responses EXCEPT ![r][p] = Tail(@)]
      /\ UNCHANGED <<mode, wpc, i, reqBuffer, received, finishedTo, dpc, reqId, transfered, responseIdx,
                     running, rpc, prepared, clientsFinished, requests, finished,
                     issued, served, answered>>
  BY DEF DeliverResponse, receiverVars, historyVars
<1>2. /\ SenderPoll' = SenderPoll /\ SenderPoll \in {"BUF", "SRQ"} /\ ThreadInv(p)
      /\ (SenderPoll = "SRQ" => srq[p] # <<>> /\ dpc[p] # "start")
  <2>1. SenderPoll' = SenderPoll /\ SenderPoll \in {"BUF", "SRQ"} /\ ThreadInv(p)
    BY <1>1, ModeAssumption DEF IInv, Types, SenderPoll, Mode
  <2> QED
    BY <1>1, <2>1, ReceiveIsLeft
<1>3. /\ s \in Seq(Response) /\ 1 \in DOMAIN s /\ m = s[1] /\ Tail(s) \in Seq(Response)
      /\ \A k \in DOMAIN Tail(s) : k + 1 \in DOMAIN s /\ k + 1 # 1 /\ k \in Nat /\ Tail(s)[k] = s[k + 1]
  <2>1. s \in Seq(Response)
    BY DEF IInv, Types
  <2>2. /\ 1 \in DOMAIN s /\ m = s[1] /\ Tail(s) \in Seq(Response) /\ Len(s) \in Nat \ {0}
        /\ DOMAIN s = 1 .. Len(s) /\ DOMAIN Tail(s) = 1 .. Len(s) - 1
        /\ \A k \in 1 .. Len(s) - 1 : Tail(s)[k] = s[k + 1]
    BY <1>1, <2>1
  <2> HIDE DEF s, m
  <2> QED
    BY <2>1, <2>2
<1>4. PICK u \in Workers : /\ u = m.ptr /\ PostedInv(r, p, 1) /\ m \in Response
                          /\ 1 \in DOMAIN responses[r][p] /\ responses[r][p][1].ptr = u
  BY <1>3, PostedIsKnown DEF Response
<1> DEFINE b == m.copy
<1>5. /\ transfered[u] /\ served[u] = issued[u] /\ u \in ToSet(Local[p]) /\ Answers(b, u) /\ b \in Body
      /\ prepared[r][m.id] = b
      /\ \A q \in Receivers : \A l \in DOMAIN responses[q][p] :
            responses[q][p][l].ptr = u => q = r /\ l = 1
  BY <1>3, <1>4 DEF PostedInv, Response
<1>6. wpc[u] = "await" /\ received[u] = 0
  BY <1>5, TransferedWaits
<1>7. PICK entry \in Workers : /\ entry = (IF SenderPoll = "BUF" THEN u ELSE Head(srq[p]))
                               /\ entry \in ToSet(Local[p]) /\ entry \notin Filled(p)
  <2>1. CASE SenderPoll = "BUF"
    <3>1. u \notin Filled(p)
      <4> SUFFICES ASSUME u \in Filled(p) PROVE FALSE
        OBVIOUS
      <4>1. EntryInv(p, u)
        BY FilledIsKnown
      <4> QED
        BY ONLY <1>4, <2>1, <4>1, r \in Receivers DEF EntryInv
    <3> QED
      BY <1>5, <2>1, <3>1
  <2>2. CASE SenderPoll = "SRQ"
    <3>1. srq[p] \in Seq(Workers) /\ srq[p] # <<>> /\ IsInjective(srq[p])
      BY <1>2, <2>2 DEF IInv, Types, ThreadInv
    <3>2. Head(srq[p]) \in Workers /\ Head(srq[p]) \in ToSet(srq[p])
      BY <3>1, SetOfTail
    <3>3. Head(srq[p]) \in ToSet(Local[p]) /\ Head(srq[p]) \notin Filled(p)
      BY <1>2, <2>2, <3>2 DEF ThreadInv, Filled
    <3> QED
      BY <2>2, <3>2, <3>3
  <2> QED
    BY <1>2, <2>1, <2>2
<1>8. /\ respBuffer' = [respBuffer EXCEPT ![entry] = [flag |-> 1, body |-> b]]
      /\ srq' = (IF SenderPoll = "SRQ" THEN [srq EXCEPT ![p] = Tail(@)] ELSE srq)
      /\ cq' = (IF SenderPoll = "SRQ" THEN [cq EXCEPT ![p] = Append(@, entry)] ELSE cq)
      /\ UNCHANGED rnr
  BY <1>2, <1>4, <1>5, <1>7 DEF DeliverResponse
<1>9. /\ respBuffer' \in [Workers -> [flag : {0, 1}, body : Body]]
      /\ respBuffer'[entry].flag = 1 /\ respBuffer'[entry].body = b
      /\ \A w \in Workers \ {entry} : respBuffer'[w] = respBuffer[w]
  <2>1. [flag |-> 1, body |-> b] \in [flag : {0, 1}, body : Body]
    BY <1>5
  <2> HIDE DEF b
  <2> QED
    BY <1>8, <2>1 DEF IInv, Types
<1>10. /\ responses' \in [Receivers -> [Dispatchers -> Seq(Response)]] /\ responses'[r][p] = Tail(s)
       /\ \A q \in Receivers, d \in Dispatchers : (q # r \/ d # p) => responses'[q][d] = responses[q][d]
  BY <1>1, <1>3 DEF IInv, Types
\* Every response that is left was there, at a place that tells it from the others.
<1>11. ASSUME NEW q \in Receivers, NEW d \in Dispatchers, NEW k \in DOMAIN responses'[q][d]
       PROVE  \E l \in DOMAIN responses[q][d] :
                 /\ responses'[q][d][k] = responses[q][d][l]
                 /\ l = (IF q = r /\ d = p THEN k + 1 ELSE k)
                 /\ ~(q = r /\ d = p /\ l = 1)
  <2>1. CASE q = r /\ d = p
    <3>1. k + 1 \in DOMAIN responses[q][d] /\ k + 1 # 1 /\ responses'[q][d][k] = responses[q][d][k + 1]
      BY <1>3, <1>10, <2>1
    <3> QED
      BY <2>1, <3>1
  <2>2. CASE q # r \/ d # p
    BY <1>10, <2>2
  <2> QED
    BY <2>1, <2>2
<1> HIDE DEF b, m, s
<1>12. /\ srq' \in [Dispatchers -> Seq(Workers)] /\ cq' \in [Dispatchers -> Seq(Workers)]
       /\ \A q \in Dispatchers \ {p} : srq'[q] = srq[q] /\ cq'[q] = cq[q]
       /\ IsInjective(srq'[p]) /\ IsInjective(cq'[p])
       /\ SenderPoll = "SRQ" =>
             /\ entry \in ToSet(srq[p]) /\ ToSet(srq'[p]) = ToSet(srq[p]) \ {entry}
             /\ ToSet(cq'[p]) = ToSet(cq[p]) \cup {entry}
  <2>1. CASE SenderPoll = "BUF"
    BY <1>2, <1>8, <2>1 DEF IInv, Types, ThreadInv
  <2>2. CASE SenderPoll = "SRQ"
    <3>1. /\ srq \in [Dispatchers -> Seq(Workers)] /\ cq \in [Dispatchers -> Seq(Workers)]
          /\ srq[p] # <<>> /\ IsInjective(srq[p]) /\ IsInjective(cq[p])
      BY <1>2, <2>2 DEF IInv, Types, ThreadInv
    <3>2. /\ entry \in ToSet(srq[p]) /\ Tail(srq[p]) \in Seq(Workers) /\ IsInjective(Tail(srq[p]))
          /\ ToSet(Tail(srq[p])) = ToSet(srq[p]) \ {entry}
      BY <1>7, <2>2, <3>1, SetOfTail
    <3>3. entry \notin ToSet(cq[p])
      BY <1>7, <2>2 DEF Filled
    <3>4. /\ Append(cq[p], entry) \in Seq(Workers) /\ IsInjective(Append(cq[p], entry))
          /\ ToSet(Append(cq[p], entry)) = ToSet(cq[p]) \cup {entry}
      BY <3>1, <3>3, SetOfAppend
    <3>5. /\ srq' \in [Dispatchers -> Seq(Workers)] /\ srq'[p] = Tail(srq[p])
          /\ \A q \in Dispatchers \ {p} : srq'[q] = srq[q]
      BY <1>8, <2>2, <3>1, <3>2
    <3>6. /\ cq' \in [Dispatchers -> Seq(Workers)] /\ cq'[p] = Append(cq[p], entry)
          /\ \A q \in Dispatchers \ {p} : cq'[q] = cq[q]
      BY <1>8, <2>2, <3>1, <3>4
    <3> QED
      BY <3>2, <3>4, <3>5, <3>6
  <2> QED
    BY <1>2, <2>1, <2>2
<1>13. Types'
  BY <1>1, <1>8, <1>9, <1>10, <1>12 DEF IInv, Types
<1>14. (\A w \in Workers : WorkerInv(w)') /\ RequestInv' /\ FinishInv' /\ NoReceiverNotReady'
  BY <1>1, <1>8, WorkerStays, FinishStays DEF IInv, RequestInv, NoReceiverNotReady
<1>15. ResponseInv'
  <2> SUFFICES ASSUME NEW q \in Receivers, NEW d \in Dispatchers, NEW k \in DOMAIN responses'[q][d]
               PROVE  PostedInv(q, d, k)'
    BY DEF ResponseInv
  <2>1. PICK l \in DOMAIN responses[q][d] :
           responses'[q][d][k] = responses[q][d][l] /\ l = (IF q = r /\ d = p THEN k + 1 ELSE k)
    BY <1>11
  <2>2. PICK x \in Response, v \in Workers :
           x = responses[q][d][l] /\ v = x.ptr /\ PostedInv(q, d, l)
    BY PostedIsKnown DEF Response
  <2>3. k \in Nat
    <3>1. responses'[q][d] \in Seq(Response)
      BY <1>10
    <3> QED
      BY <3>1
  <2>4. ASSUME NEW q2 \in Receivers, NEW k2 \in DOMAIN responses'[q2][d], responses'[q2][d][k2].ptr = v
        PROVE  q2 = q /\ k2 = k
    <3>1. PICK l2 \in DOMAIN responses[q2][d] :
             responses'[q2][d][k2] = responses[q2][d][l2] /\ l2 = (IF q2 = r /\ d = p THEN k2 + 1 ELSE k2)
      BY <1>11
    <3>2. q2 = q /\ l2 = l
      BY <2>2, <2>4, <3>1 DEF PostedInv
    <3>3. responses'[q2][d] \in Seq(Response)
      BY <1>10
    <3>4. k2 \in Nat
      BY <3>3
    <3> QED
      BY <2>1, <2>3, <3>1, <3>2, <3>4
  <2>5. /\ transfered[v] /\ served[v] = issued[v] /\ v \in ToSet(Local[d]) /\ x.id \in responseIds(v)
        /\ Answers(x.copy, v) /\ prepared[q][x.id] = x.copy
    BY <2>2 DEF PostedInv
  <2>6. responses'[q][d][k] = x
    BY <2>1, <2>2
  <2>7. /\ transfered'[v] /\ served'[v] = issued'[v]
        /\ Answers(x.copy, v)' /\ prepared'[q][x.id] = x.copy
    BY <1>1, <2>5 DEF Answers
  <2> QED
    BY ONLY <2>2, <2>4, <2>5, <2>6, <2>7 DEF PostedInv
<1>16. \A q \in Dispatchers \ {p} : ThreadInv(q)' /\ \A e \in Filled(q)' : EntryInv(q, e)'
  <2>1. \A w \in Workers \ ToSet(Local[p]) : respBuffer'[w] = respBuffer[w]
    BY <1>7, <1>9
  <2>2. \A q \in Dispatchers \ {p} : \A q2 \in Receivers : responses'[q2][q] = responses[q2][q]
    BY <1>10
  <2> QED
    BY <1>1, <1>12, <2>1, <2>2, OtherProcessesStay
<1>17. Filled(p)' = Filled(p) \cup {entry}
  <2>1. CASE SenderPoll = "BUF"
    <3>1. \A w \in ToSet(Local[p]) : w \in Workers
      BY LocalIsKnown
    <3> QED
      BY <1>1, <1>2, <1>7, <1>9, <2>1, <3>1 DEF Filled
  <2>2. CASE SenderPoll = "SRQ"
    BY <1>1, <1>2, <1>12, <2>2 DEF Filled
  <2> QED
    BY <1>2, <2>1, <2>2
<1>18. \A label \in {"release", "finalize"} : ~AtHead(p, entry, label)'
  <2>1. dpc[p] \in {"release", "finalize"} => Head(responseIdx[p]) \in Filled(p)
    BY HeadIsKnown
  <2> QED
    BY <1>1, <1>7, <2>1 DEF AtHead
<1>19. \A q \in Receivers : \A k \in DOMAIN responses'[q][p] : responses'[q][p][k].ptr # u
  <2> SUFFICES ASSUME NEW q \in Receivers, NEW k \in DOMAIN responses'[q][p]
               PROVE  responses'[q][p][k].ptr # u
    OBVIOUS
  <2>1. PICK l \in DOMAIN responses[q][p] :
           responses'[q][p][k] = responses[q][p][l] /\ ~(q = r /\ l = 1)
    BY <1>11
  <2> QED
    BY <1>5, <2>1
<1>20. \A e \in Filled(p) : respBuffer[e].body.ptr # u
  <2> SUFFICES ASSUME NEW e \in Filled(p) PROVE respBuffer[e].body.ptr # u
    OBVIOUS
  <2>1. EntryInv(p, e)
    BY FilledIsKnown
  <2> QED
    BY <1>3, <1>4, <2>1 DEF EntryInv, s
<1>21. EntryInv(p, entry)'
  <2>1. respBuffer'[entry].body.ptr = u /\ Answers(respBuffer[entry].body, u)'
    BY <1>1, <1>5, <1>9 DEF Answers
  <2>2. \A f \in Filled(p)' : respBuffer'[f].body.ptr = u => f = entry
    <3>1. \A f \in Filled(p) : f \in Workers \ {entry}
      BY <1>7, FilledIsKnown
    <3> QED
      BY <1>9, <1>17, <1>20, <3>1
  <2> QED
    BY <1>1, <1>2, <1>5, <1>6, <1>7, <1>18, <1>19, <2>1, <2>2 DEF EntryInv
<1>22. ASSUME NEW e \in Filled(p) PROVE EntryInv(p, e)'
  <2>1. PICK v \in Workers : v = respBuffer[e].body.ptr /\ EntryInv(p, e) /\ v # u
    BY <1>20, FilledIsKnown
  <2>2. \A f \in Filled(p) : f \in Workers \ {entry} /\ respBuffer'[f] = respBuffer[f]
    BY <1>7, <1>9, FilledIsKnown
  <2>3. \A f \in Filled(p)' \ {e} : respBuffer'[f].body.ptr # v
    BY <1>5, <1>9, <1>17, <2>1, <2>2 DEF EntryInv, Answers
  <2>4. \A label \in {"release", "finalize"} : AtHead(p, e, label)' <=> AtHead(p, e, label)
    BY <1>1 DEF AtHead
  <2>5. \A q \in Receivers : \A k \in DOMAIN responses'[q][p] : responses'[q][p][k].ptr # v
    BY <1>11, <2>1 DEF EntryInv
  <2> QED
    BY <1>1, <2>1, <2>2, <2>3, <2>4, <2>5, EntryStays
<1>23. ThreadInv(p)'
  <2>1. CASE SenderPoll = "BUF"
    <3>1. \A e \in ToSet(responseIdx[p]) : e \in Filled(p) /\ e \in Workers
      BY FilledIsKnown DEF Filled
    <3>2. \A e \in ToSet(responseIdx[p]) : respBuffer'[e].flag = respBuffer[e].flag
      BY <1>7, <1>9, <3>1
    <3> QED
      BY <1>1, <1>2, <1>8, <2>1, <3>2 DEF ThreadInv
  <2>2. CASE SenderPoll = "SRQ"
    <3>1. entry \notin ToSet(responseIdx[p]) /\ entry \notin ToSet(cq[p])
      BY <1>7, <2>2 DEF Filled
    <3>2. /\ ToSet(srq'[p]) \cup ToSet(cq'[p]) \cup ToSet(responseIdx'[p]) = ToSet(Local[p])
          /\ ToSet(srq'[p]) \cap ToSet(cq'[p]) = {}
          /\ ToSet(srq'[p]) \cap ToSet(responseIdx'[p]) = {}
          /\ ToSet(cq'[p]) \cap ToSet(responseIdx'[p]) = {}
      BY <1>1, <1>2, <1>12, <2>2, <3>1 DEF ThreadInv
    <3> QED
      BY <1>1, <1>2, <1>12, <2>2, <3>2 DEF ThreadInv
  <2> QED
    BY <1>2, <2>1, <2>2
<1> QED
  BY <1>13, <1>14, <1>15, <1>16, <1>17, <1>21, <1>22, <1>23 DEF IInv, FilledInv

-----------------------------------------------------------------------------
\* The invariant holds when the workers have run initPhase.
LEMMA InitEstablishesInv == Init => IInv
<1> SUFFICES ASSUME Init PROVE IInv
  OBVIOUS
<1> USE DEF Init
<1>1. ToSet(<<>>) = {} /\ IsInjective(<<>>) /\ <<>> \in Seq(Workers) /\ <<>> \in Seq(Response)
  BY DEF ToSet, IsInjective
<1>2. 0 \in 0 .. Requests /\ 0 < Requests /\ Batch \in Nat
  BY ModeAssumption
<1>3. NoResponse \in Body
  BY <1>2 DEF NoResponse, Body
<1>4. [type |-> "EMPTY", msg |-> NoRequest] \in Entry
  <2>1. NoRequest \in [dest : Receivers, id : Nat, msgId : 0 .. Requests]
    BY <1>2, ModeAssumption DEF NoRequest
  <2> QED
    BY <2>1 DEF Entry
<1>5. Types
  <2> HIDE DEF Init
  <2>1. /\ mode \in Modes /\ wpc \in [Workers -> {"fill", "signal", "await", "finish", "done"}]
        /\ i \in [Workers -> 0 .. Requests] /\ reqBuffer \in [Workers -> Entry]
        /\ received \in [Workers -> {0, 1}] /\ respBuffer \in [Workers -> [flag : {0, 1}, body : Body]]
        /\ finishedTo \in [Workers -> SUBSET Receivers]
    BY <1>2, <1>3, <1>4 DEF Init
  <2>2. /\ dpc \in [Dispatchers -> {"start", "loop", "scan", "poll", "empty", "release",
                                    "finalize", "stopped"}]
        /\ reqId \in [Dispatchers -> Nat] /\ transfered \in [Workers -> BOOLEAN]
        /\ responseIdx \in [Dispatchers -> Seq(Workers)]
        /\ srq \in [Dispatchers -> Seq(Workers)] /\ cq \in [Dispatchers -> Seq(Workers)]
        /\ running \in [Dispatchers -> BOOLEAN]
    BY <1>1 DEF Init
  <2>3. /\ rpc \in [Receivers -> {"poll", "done"}]
        /\ prepared \in [Receivers -> [0 .. PreparedResponses - 1 -> Body]]
        /\ clientsFinished \in [Receivers -> Nat]
        /\ requests \subseteq Request /\ finished \subseteq Workers \X Receivers
        /\ responses \in [Receivers -> [Dispatchers -> Seq(Response)]] /\ rnr \in BOOLEAN
        /\ issued \in [Workers -> 0 .. Requests] /\ served \in [Workers -> 0 .. Requests]
        /\ answered \in [Workers -> 0 .. Requests]
    BY <1>1, <1>2, <1>3 DEF Init
  <2> QED
    BY <2>1, <2>2, <2>3 DEF Types
<1>6. \A w \in Workers : WorkerInv(w)
  BY <1>2 DEF WorkerInv
<1>7. RequestInv /\ NoReceiverNotReady
  BY DEF RequestInv, NoReceiverNotReady
<1>8. ResponseInv
  <2>1. DOMAIN <<>> = {}
    OBVIOUS
  <2> QED
    BY <2>1 DEF ResponseInv
<1>9. FilledInv
  BY <1>1, LocalIsKnown DEF FilledInv, Filled
<1>10. \A p \in Dispatchers : ThreadInv(p)
  <2> SUFFICES ASSUME NEW p \in Dispatchers PROVE ThreadInv(p)
    OBVIOUS
  <2>1. 1 \in 1 .. Len(Local[p]) /\ ToSet(Local[p]) \subseteq Workers
    BY LocalIsKnown
  <2>2. Len(<<>>) <= Batch
    BY <1>2
  <2> QED
    BY <1>1, <2>1, <2>2 DEF ThreadInv
<1>11. FinishInv
  <2>1. \A r \in Receivers : Counted(r) = {}
    BY DEF Counted
  <2> QED
    BY <2>1, FS_EmptySet DEF FinishInv
<1> QED
  BY <1>5, <1>6, <1>7, <1>8, <1>9, <1>10, <1>11 DEF IInv

\* Every step of every thread, and every delivery, keeps it.
LEMMA NextKeepsInv == IInv /\ [Next]_vars => IInv'
<1> SUFFICES ASSUME IInv, [Next]_vars PROVE IInv'
  OBVIOUS
<1>1. CASE Next
  <2>1. ASSUME NEW w \in Workers, WorkerStep(w), UNCHANGED mode PROVE IInv'
    BY <2>1, FillRequestKeepsInv, SignalDispatcherKeepsInv, TakeMailboxKeepsInv,
       SendFinishedKeepsInv DEF WorkerStep
  <2>2. ASSUME NEW p \in Dispatchers, DispatcherStep(p) \/ StopRunning(p), UNCHANGED mode PROVE IInv'
    BY <2>2, StartRunKeepsInv, CheckRunningKeepsInv, ScanRequestKeepsInv, PollBatchKeepsInv,
       EmptyRequestKeepsInv, ReleaseWorkerKeepsInv, FinalizeResponseKeepsInv, StopRunningKeepsInv
       DEF DispatcherStep, HandleResponse
  <2>3. ASSUME NEW r \in Receivers, ReceiverStep(r), UNCHANGED mode PROVE IInv'
    BY <2>3, HandleRequestKeepsInv, CountFinishedKeepsInv DEF ReceiverStep
  <2> QED
    BY <1>1, <2>1, <2>2, <2>3, DeliverResponseKeepsInv DEF Next
<1>2. CASE UNCHANGED vars
  <2>1. UNCHANGED <<mode, wpc, i, reqBuffer, received, respBuffer, finishedTo, dpc, reqId, transfered,
                    responseIdx, srq, cq, running, rpc, prepared, clientsFinished, requests, finished,
                    responses, rnr, issued, served, answered>>
    BY <1>2 DEF vars, progress, workerVars, dispatcherVars, receiverVars, fabricVars, historyVars
  <2>2. Types' /\ RequestInv' /\ NoReceiverNotReady'
    BY <2>1 DEF IInv, Types, RequestInv, NoReceiverNotReady
  <2>3. (\A w \in Workers : WorkerInv(w)') /\ (\A p \in Dispatchers : ThreadInv(p)') /\ FinishInv'
    BY <2>1, WorkerStays, ThreadStays, FinishStays DEF IInv
  <2>4. ResponseInv'
    BY <2>1 DEF IInv, ResponseInv, PostedInv, Answers
  <2>5. FilledInv'
    BY <2>1 DEF IInv, FilledInv, Filled, EntryInv, Answers, AtHead, SenderPoll
  <2> QED
    BY <2>2, <2>3, <2>4, <2>5 DEF IInv
<1> QED
  BY <1>1, <1>2

\* The invariant holds in every state that the program reaches.
THEOREM InvariantHolds == Spec => []IInv
<1>1. Init => IInv
  BY InitEstablishesInv
<1>2. IInv /\ [Next]_vars => IInv'
  BY NextKeepsInv
<1> QED
  BY <1>1, <1>2, PTL DEF Spec

\* All variables keep their types, and a request that is under way is the one that its
\* worker has issued last and waits for.
THEOREM DispatcherInvHolds == Spec => []DispatcherInv
<1>1. IInv => DispatcherInv
  <2> SUFFICES ASSUME IInv PROVE DispatcherInv
    OBVIOUS
  <2>1. RequestIsCurrent
    <3> SUFFICES ASSUME NEW m \in requests
                 PROVE  /\ m.msgId = issued[m.worker] /\ wpc[m.worker] = "await"
                        /\ received[m.worker] = 0 /\ transfered[m.worker]
      BY DEF RequestIsCurrent
    <3>1. PICK w \in Workers : w = m.worker /\ m.msgId = issued[w] /\ transfered[w]
      BY DEF IInv, RequestInv, Types, Request
    <3> QED
      BY <3>1, TransferedWaits
  <2>2. ASSUME NEW p \in Dispatchers, NEW q \in {responseIdx[p], srq[p], cq[p]}
        PROVE  ToSet(q) \subseteq ToSet(Local[p])
    <3>1. ThreadInv(p) /\ SenderPoll \in {"BUF", "SRQ"} /\ ToSet(<<>>) = {}
      BY ModeAssumption DEF IInv, Types, SenderPoll, Mode, ToSet
    <3>2. ToSet(responseIdx[p]) \subseteq ToSet(Local[p])
      BY FilledIsKnown DEF Filled
    <3> QED
      BY <2>2, <3>1, <3>2 DEF ThreadInv
  <2>3. \A r \in Receivers : clientsFinished[r] \in 0 .. Cardinality(Workers)
    <3> SUFFICES ASSUME NEW r \in Receivers PROVE clientsFinished[r] \in 0 .. Cardinality(Workers)
      OBVIOUS
    <3>1. Counted(r) \subseteq Workers
      BY DEF Counted
    <3>2. Cardinality(Counted(r)) \in Nat /\ Cardinality(Workers) \in Nat
          /\ Cardinality(Counted(r)) <= Cardinality(Workers)
      BY <3>1, WorkersAssumption, FS_Subset, FS_CardinalityType
    <3> QED
      BY <3>2 DEF IInv, FinishInv
  <2>4. \A w \in Workers :
           /\ reqBuffer[w].type \in {"EMPTY", "ExpMsg"}
           /\ reqBuffer[w].msg.dest \in Receivers /\ reqBuffer[w].msg.msgId \in 0 .. Requests
           /\ respBuffer[w].flag \in {0, 1} /\ respBuffer[w].body.ptr \in Workers \cup {"none"}
    BY DEF IInv, Types, Entry, Body
  <2>5. \A p \in Dispatchers : reqId[p] \in 1 .. Len(Local[p]) /\ Len(responseIdx[p]) <= Batch
    BY DEF IInv, ThreadInv
  <2>6. clientsFinished \in [Receivers -> 0 .. Cardinality(Workers)]
    BY <2>3 DEF IInv, Types
  <2>7. TypeOK
    BY <2>2, <2>4, <2>5, <2>6 DEF IInv, Types, TypeOK
  <2> QED
    BY <2>1, <2>7 DEF DispatcherInv
<1> QED
  BY <1>1, InvariantHolds, PTL

\* The response that a dispatcher takes up is for a worker of its process that waits for
\* it, and the mailbox of the worker is empty.
THEOREM ResponseFindsItsWorkerHolds == Spec => []ResponseFindsItsWorker
<1>1. IInv => ResponseFindsItsWorker
  <2> SUFFICES ASSUME IInv, NEW p \in Dispatchers, dpc[p] \in {"empty", "release"}
               PROVE  LET w == workerId(p)
                          body == respBuffer[Head(responseIdx[p])].body
                      IN  /\ body = [ptr |-> w, msgId |-> issued[w]]
                          /\ wpc[w] = "await" /\ received[w] = 0
                          /\ dpc[p] = "empty" => transfered[w]
    BY DEF ResponseFindsItsWorker
  <2>1. PICK h \in Workers : /\ h = Head(responseIdx[p]) /\ h \in Filled(p)
                             /\ workerId(p) = respBuffer[h].body.ptr
    BY HeadIsKnown
  <2>2. EntryInv(p, h) /\ respBuffer[h].body \in Body
    BY <2>1, FilledIsKnown DEF IInv, Types
  <2>3. ~AtHead(p, h, "finalize") /\ (AtHead(p, h, "release") <=> dpc[p] = "release")
    BY <2>1 DEF AtHead
  <2>4. respBuffer[h].body = [ptr |-> respBuffer[h].body.ptr, msgId |-> respBuffer[h].body.msgId]
    BY <2>2 DEF Body
  <2> QED
    BY <2>1, <2>2, <2>3, <2>4 DEF EntryInv, Answers
<1> QED
  BY <1>1, InvariantHolds, PTL

\* A receive is there for every response, although it is posted again only after the
\* worker has been released.
THEOREM NoReceiverNotReadyHolds == Spec => []NoReceiverNotReady
<1>1. IInv => NoReceiverNotReady
  BY DEF IInv
<1> QED
  BY <1>1, InvariantHolds, PTL

\* When a receiver is done, no request for it and no response of it is on its way.
THEOREM FinishedIsLastHolds == Spec => []FinishedIsLast
<1>1. IInv => FinishedIsLast
  <2> SUFFICES ASSUME IInv PROVE FinishedIsLast
    OBVIOUS
  <2>1. \A w \in Workers : wpc[w] \in {"finish", "done"} => ~transfered[w]
    BY TransferedWaits
  <2>2. \A q \in requests : q.worker \in Workers /\ transfered[q.worker]
    BY DEF IInv, RequestInv, Types, Request
  <2>3. \A m \in finished : m[1] \in Workers /\ wpc[m[1]] \in {"finish", "done"}
    BY DEF IInv, FinishInv, Types
  <2>4. ASSUME NEW r \in Receivers, rpc[r] = "done" PROVE \A w \in Workers : ~transfered[w]
    <3>1. Counted(r) \subseteq Workers /\ Cardinality(Counted(r)) = Cardinality(Workers)
      BY <2>4 DEF IInv, FinishInv, Counted
    <3>2. Counted(r) = Workers
      BY <3>1, WorkersAssumption, FS_Subset
    <3>3. \A w \in Workers : finishedTo[w] # {}
      BY <3>2 DEF Counted
    <3> QED
      BY <2>1, <3>3 DEF IInv, FinishInv
  <2>5. ASSUME NEW r \in Receivers, rpc[r] = "done", NEW p \in Dispatchers PROVE responses[r][p] = <<>>
    <3>1. responses[r][p] \in Seq(Response)
      BY DEF IInv, Types
    <3>2. \A k \in DOMAIN responses[r][p] : FALSE
      BY <2>4, <2>5, PostedIsKnown DEF PostedInv, Response
    <3>3. responses[r][p] # <<>> => 1 \in DOMAIN responses[r][p]
      BY <3>1
    <3> QED
      BY <3>2, <3>3
  <2> QED
    BY <2>1, <2>2, <2>3, <2>4, <2>5 DEF FinishedIsLast
<1> QED
  BY <1>1, InvariantHolds, PTL

-----------------------------------------------------------------------------
\* What a step means to the clients of RequestReply.
LEMMA StepRefines ==
  ASSUME IInv, [Next]_vars
  PROVE  Abstract!Next \/ UNCHANGED <<issued, served, answered>>
<1>1. ASSUME NEW w \in Workers, WorkerStep(w)
      PROVE  Abstract!Next \/ UNCHANGED <<issued, served, answered>>
  <2>0. WorkerInv(w)
    BY DEF IInv
  <2>1. CASE FillRequest(w)
    BY <2>1 DEF FillRequest, historyVars
  <2>2. CASE SignalDispatcher(w)
    <3>1. wpc[w] = "signal" /\ issued' = [issued EXCEPT ![w] = @ + 1] /\ UNCHANGED <<served, answered>>
      BY <2>2 DEF SignalDispatcher, WorkerGoto
    <3>2. issued[w] = answered[w] /\ issued[w] < Requests
      BY <2>0, <3>1 DEF WorkerInv
    <3> QED
      BY <3>1, <3>2 DEF Abstract!Next, Abstract!Issue
  <2>3. CASE TakeMailbox(w)
    <3>1. /\ received[w] = 1 /\ wpc[w] = "await"
          /\ answered' = [answered EXCEPT ![w] = @ + 1] /\ UNCHANGED <<issued, served>>
      BY <2>3 DEF TakeMailbox, WorkerGoto
    <3>2. answered[w] < served[w]
      <4>1. i[w] \in Nat
        BY ModeAssumption DEF IInv, Types
      <4> QED
        BY <2>0, <3>1, <4>1 DEF WorkerInv
    <3> QED
      BY <3>1, <3>2 DEF Abstract!Next, Abstract!Answer
  <2>4. CASE SendFinished(w)
    BY <2>4 DEF SendFinished, historyVars
  <2> QED
    BY <1>1, <2>1, <2>2, <2>3, <2>4 DEF WorkerStep
<1>2. ASSUME NEW p \in Dispatchers, DispatcherStep(p) \/ StopRunning(p)
      PROVE  UNCHANGED <<issued, served, answered>>
  BY <1>2 DEF DispatcherStep, StopRunning, StartRun, CheckRunning, ScanRequest, PollBatch,
     HandleResponse, EmptyRequest, ReleaseWorker, FinalizeResponse, historyVars
<1>3. ASSUME NEW r \in Receivers, ReceiverStep(r)
      PROVE  Abstract!Next \/ UNCHANGED <<issued, served, answered>>
  <2>1. CASE HandleRequest(r)
    <3>1. PICK m \in requests : served' = [served EXCEPT ![m.worker] = @ + 1]
      BY <2>1 DEF HandleRequest
    <3>2. m.worker \in Workers /\ served[m.worker] < issued[m.worker]
      BY DEF IInv, RequestInv, Types, Request
    <3>3. UNCHANGED <<issued, answered>>
      BY <2>1 DEF HandleRequest
    <3> QED
      BY <3>1, <3>2, <3>3 DEF Abstract!Next, Abstract!Serve
  <2>2. CASE CountFinished(r)
    BY <2>2 DEF CountFinished, historyVars
  <2> QED
    BY <1>3, <2>1, <2>2 DEF ReceiverStep
<1>4. ASSUME NEW r \in Receivers, NEW p \in Dispatchers, DeliverResponse(r, p)
      PROVE  UNCHANGED <<issued, served, answered>>
  BY <1>4 DEF DeliverResponse, historyVars
<1>5. CASE UNCHANGED vars
  BY <1>5 DEF vars, progress, historyVars
<1> QED
  BY <1>1, <1>2, <1>3, <1>4, <1>5 DEF Next

\* One request of a worker under way, each served once and each answered once: workers,
\* dispatchers and receivers keep the promise of RequestReply.
THEOREM RequestReplyRefined == Spec => RequestReplySpec
<1>1. Init => Abstract!Init
  BY DEF Init, Abstract!Init
<1>2. IInv /\ [Next]_vars => [Abstract!Next]_<<issued, served, answered>>
  BY StepRefines
<1> QED
  BY <1>1, <1>2, InvariantHolds, PTL DEF Spec, RequestReplySpec, Abstract!Spec
=============================================================================
