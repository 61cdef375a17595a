# RDMA communication patterns: TLA+ models and proofs

TLA+ modules for the benchmark of RDMA communication patterns in this repository (`src/src`) and for the parts
of its network library (`src/src/net`) that the benchmark stands on. TLC checks the models on small instances;
TLAPS proves some of the results for all values of the constants. Paths below are relative to the repository.

Contents: [1 The system](#1-the-system) · [2 Modules](#2-modules-and-how-they-follow-the-code) ·
[3 Runs](#3-runs) · [4 Assumptions](#4-assumptions-fairness-and-bounds) · [5 Proofs](#5-proofs) ·
[6 Findings](#6-where-code-and-documentation-disagree) · [7 Not modelled](#7-what-is-not-modelled) · [8 Plan](#8-plan)

## 1 The system

Sender threads issue small requests to receiver threads and wait for a response of configurable size. What the
benchmark compares is how requests and responses travel: *written* into memory that the other side polls, or
*sent* to a receive queue. The program has three forms:

| program | form |
|---|---|
| `src/main.cc` | every sender thread has its own connections |
| `src/sharedMemMain.cc` | the responses of all senders of a process travel over one connection into one shared area |
| `src/dispatcherMain.cc` | the senders leave requests in a shared array; one dispatcher thread per process sends them and distributes the responses |

### Inventory

| component (file) | state | operations | hard behaviour | what makes it correct |
|---|---|---|---|---|
| `Barrier` (`utils/Concurrency.h`) | atomics `cntr`, `round` (8 bit) | `wait(finalizer)` | re-use: fast threads enter the next round while slow ones still spin; the counter wraps | nobody leaves early, one finalizer per round, everybody leaves |
| `Worker`, `WorkerGroup` (`utils/Concurrency.h`) | threads | start, wait | none of their own | – |
| `BenchmarkReceiver` | request slots or shared receive queue, response buffer, count of finished clients | `initPhase`, `benchmarkPhase`, `poll`, `finalize`, `transfer` | polls memory that the NIC writes; re-posts receives after the response; phases share one queue | no request is overwritten, lost or served twice; a receive is always posted; it returns when nothing is left |
| `BenchmarkSender` | response area, `recvIds`, transfer flags | `initPhase`, three forms of `benchmarkPhase`, `finalizePhase` | blocking visits to all receivers; shared area; empty iterations | the response taken belongs to the request; all threads return |
| `BenchmarkDispatcher` | request array, mailboxes, `transfered`, its receive queue | `run`, `pollBatch`, `finalize` | three kinds of actors on one array without locks | a request is current when it is sent; a response releases its worker, once |
| send queues (`ReliableRDMA`, `UnreliableRDMA`, `BaseRDMA::checkSignaled`) | `m_countWR`, `m_sendMCastCount`, `batches[]`, send and completion queue | `write`, `read`, `send`, atomics, `requestRead`/`pollSend`, `sendBatch`, `sendMCast` | only some operations are signaled; queues have a size | never overruns; each completion finds its operation |
| allocator (`BaseRDMA`) | lists of free and used regions | `internalAlloc`, `internalFree`, `mergeFreeMem` | long sequences of calls; joining neighbours | no byte in two regions; no fragmentation but what is in use |
| verbs resources (`BaseRDMA`, `ReliableRDMA`, `UnreliableRDMA`) | `m_res`, `m_qps`, `m_srqs`, `m_connected`, `m_udqp`, `m_udpMcastConns` | constructors, `initQP…`, `connectQP`, `createSharedReceiveQueue`, `joinMCastGroup`, `leaveMCastGroup`, destructors | any step of the verbs library may fail half-way; objects are busy while others use them | nothing is used after it is gone, destroyed twice or too early; what is left behind is known |
| connection set-up (`RDMAClient`, `RDMAClientSRQ`, `RDMAServer`) | sockets, `m_NodeIDsQPs`, `m_qps`, `m_connected`, queue pairs | `connect`, `startServer`, `connectQueue` | two servers connect to each other at once; refusal; retries run out; queue creation fails | both ends agree on one pair of queues, none is lost |
| `NodeIDSequencer` | `m_nextNodeID`, entries, address map | register, look up, list | ids index the entries | ids are consecutive; a server is found under its own id |
| `ProtoServer`, `ProtoSocket`, `ProtoClient`, `Thread` | server thread, zmq socket and context | start, request loop, stop, destructor | stop races with the blocking receive; the thread may end by itself | stop returns; requests are answered; no thread is left unjoined |
| RPC handler threads (`RPCVoidHandlerThread`, `RPCHandlerThread`, `RPCMemory`) | ring of receive buffers | start, run, stop, destructor | a completion does not name its buffer; stop while polling | a message is handled once and from the buffer it arrived in |
| `CircBuf` | ring | add, get | full ring | nothing is overwritten |

How they interact: a sender, receiver or dispatcher *is* a client or server of the library (inheritance). Set-up
messages (protocol buffers over zmq) go between clients, servers and the sequencer; afterwards the benchmark
phases talk only through RDMA, that is, through remote writes and send/receive on the connections that the set-up
left in `m_qps`. Threads of one process meet at barriers, in the shared response area and in the dispatcher's array.

## 2 Modules and how they follow the code

`EXTENDS` and `INSTANCE` between the project's modules:

    BarrierProofs -> Barrier -> AbstractBarrier        SendQueueProofs -> SendQueue
    MCBarrier     -> Barrier                           BaseRDMAProofs -> Allocator -> AbstractAllocator
    MCRequestResponse -> RequestResponse -> RequestReply <- Dispatcher <- MCDispatcher, DispatcherProofs
    RequestResponseProofs -> RequestResponse
    ProtoServerProofs -> ProtoServer <- MCProtoServer  BaseRDMAProofs -> QueuePairs <- MCQueuePairs
    RpcHandlerProofs  -> RpcHandler  <- MCRpcHandler   ConnectionProofs -> Connection <- MCConnection

The component modules can be checked and proved about alike: no `RECURSIVE` operator, named assumptions on every
constant, invariants as conjunctions. The `Mutant:` operators in front of some definitions are faulty versions of
them; `PROJECT.json` says which property notices which fault. The specification does not use them.

**Barrier / AbstractBarrier.** Each access of `wait()` to an atomic is one action: load `round`, `fetch_sub` on `cntr`,
reset `cntr`, finalizer, advance `round`, leave the spin loop. `RoundMod` is 256 in the code. `AbstractBarrier` promises
arrivals, one finalizer and departures per round; `Barrier` refines it, with the number of completed rounds and the
set of threads inside as the mapping.

**RequestResponse / RequestReply.** The sender and receiver threads of `main.cc` and `sharedMemMain.cc` from after
`connect` to the end of `finalizePhase`. One module covers the four verb combinations, as the templates do:
`ReceiverPoll` is `BUF` or `SRQ`, `SenderPoll` is `BUF` or `RQ`. Receiver: init phase (post receives, poll all Inits,
reply to each, size and empty the request buffer), then the loop *poll – fill response – mark slot EMPTY – transfer –
re-post receive*, with `FinishedExp` counted. Sender: barrier, Init to each receiver in turn, request loop,
`finalizePhase`. A request slot and a response area are records of type (or flag) and body. A written message takes
two actions, body then type (or flag): `MessageBase` keeps `type` last and the NIC writes in address order. The order
in which `benchmarkPhase` does its steps is the operator `requestSteps`, so that faults of order can be tried.
All clients share the entries of `respBuffer_`, and one random number (`RandNumbers`) gives a request its entry and its
receiver. `FillResponse` fills in the entry that the request names; `Transfer` posts its address. A response of fewer than 220 bytes
is inlined, so its content is copied at the post; that of a larger one is what the entry holds when the response is delivered
(`contentOf`), by when it may have been filled in for another client. The `body` of a response, the request it answers, is history.
`RequestReply` promises that each request is served once and answered once, in that order.

**Dispatcher.** The workers' overload of `benchmarkPhase`, the dispatcher's `run()` (scan the array, send what is new,
poll responses, release the worker, re-post) and the stop by the main thread. Receivers are reduced to what the
dispatcher can tell: they serve any request that has arrived and answer with an entry of the response buffer drawn
from the worker's part (`from`, `to`, translated from `partition`). A response of 220 bytes and more is read from that
entry only when it is delivered (`Inline = FALSE`). It implements `RequestReply` as well.

**SendQueue.** A send queue and the thread that posts to it, in one of four kinds: that of a reliable connection, the one
queue of all connections of `UnreliableRDMA`, that of a multicast group, and that of a connection used by `sendBatch` only.
`checkSignaled` is `mustSignal` and the update of `countWR`, `checkSignaledMCast` is `mustSignalMCast`; the card works off
the queue in order and reports signaled operations; a completion frees the slots up to its own. No constructor sets
`batches[]`, so its first value is a choice (`garbage`).

**Allocator / AbstractAllocator.** The free list as a sequence of regions, the used map as a set. `internalFree` has the
loop of the code with its running `lastOffset`, a function of the position in the list, including the case where no place is
found and the call throws.
`AbstractAllocator` is a set of allocated intervals: a request is granted iff some free run is long enough.

**Connection.** The sequencer, `connect()` and `connectQueue()` for any set of servers and clients, each with a fixed
list of calls (its plan). A call is cut where another thread can come in between: registration, look-up, the test of
`m_NodeIDsQPs` under `m_connLock`, the request, the answer. `connectQueue` is two actions, up to the creation of the
queue pair and from then on, with the lock held in between. A queue pair that cannot be made leaves nothing behind, or one that
no table names (`CreateFails`): `initQPWithSuppliedID` records it only after `modifyQPToInit`, which may throw. At a server the
client is then refused, at a client the exception leaves `connect` (`RequestFails`). A client with a shared receive queue has actions of its own,
because it records its queue pair before the request and does not test whether the request was refused. The count of retries (150, or 50 with a shared receive
queue) is time, not state: an impatient node may give up any time while the server is unknown.

**QueuePairs.** The verbs objects that one `ReliableRDMA` or `UnreliableRDMA` makes and destroys: `uses` gives for each object
that exists the objects it is made of, and the members (`m_res`, `m_qps`, `m_srqs`, …) point to some of them. A constructor or
set-up call is one action, with the step at which it fails, if any, and what it has made until then. A destructor is a list
of calls to the library (`todo`), each an action of its own, because what it does depends on what is still in use:
the object goes, or the code throws, logs, or does not look. A caller may catch the exception and
go on; `MaxFaults` bounds the failures of a life.

**ProtoServer.** Owner, server thread and clients around one ZeroMQ socket. The owner starts, stops, starts again and destroys
the server; every access to `m_running`, `m_kill` or the context between which the other thread can act is an action. ZeroMQ is
external: closing the context makes a blocked `recv` fail with `ETERM` and then waits until the socket is closed. Thread is part
of it: what happens to a `std::thread` nobody has joined when it is deleted.

**RpcHandler.** The handler's loop over its ring (`RPCMemory` with an index that wraps at `IndexMod`), `pollReceiveSRQ` with both tests
of its stop flag, and the owner's start, stop and destruction. A message takes its receive with its first packet and completes
with its last, so that two messages of two packets may complete in another order (`InOrder` says when they cannot).

## 3 Runs

All state counts are distinct states. One invariant of each passing run includes the types of the module.

| run | instance | states | question |
|---|---|---|---|
| `barrier` | 4 threads, 4 rounds, counter modulo 2 | 905 | is `wait()` a barrier that can be re-used? |
| `forms` | 2 clients of one process, 1 or 2 receivers, 2 or 3 requests, ids 0 and 2, two prepared responses; 9 modes: the four pairs of verbs, small and large responses, shared memory, empty mailboxes, two receivers, Init too early | 424,497 | is each request served and answered once; is a slot free when it is written; does each client find the response it has asked for, although all share the response buffer; does the slot still hold the request at `transfer()`; can anything but an Init be lost; is nothing left when a receiver returns; does everybody return, whatever the order of visits? |
| `ids_from_zero` | ids 0 and 1, everything sent | violation | does the receive posted after the response come too late? |
| `dispatch` | 3 workers in 2 processes, 2 requests; responses written, or large ones sent in batches of 2 | 229,708 | is every request current when sent and every worker released once, by its own response; is a receive always posted; does `FinishedExp` overtake nothing? |
| `send_queue` | 24 work requests, queue of 4, batches of up to 3; all four kinds of queue | 3,507 | can the queue overrun, a completion find the wrong operation, or an operation wait for one that never comes? |
| `allocator` | 8 bytes, requests of 1 to 3 | 42,404 | is the free list sorted and joined; is a request refused only for lack of room? |
| `allocator_free` | 8 bytes, requests of 1 and 2 | violation | does releasing a region in use always succeed? |
| `connection` | 2 servers, 2 clients (one with a shared receive queue); 6 scenarios: the servers connect to each other, also with one or both of them starting too late, the clients connect to both, queue pairs fail at servers and clients | 17,587 | do both ends agree on one pair of queues, whatever the order; is one lost; does `true` mean connected, for a client at once, for a server sooner or later? |
| `shared_tables` | a server that connects to another one and has a client | violation | are the tables of connections guarded? |
| `queue_pairs` | both transports, ids 0 and 2, any 5 calls, at most 1 failing step, then the destructor | 596,213 | are users destroyed before what they use, and nothing twice; do members name what exists; what is left behind; does a group's key stay its own? |
| `proto_server` | 2 clients with up to 3 requests; 7 scenarios: started, stopped, started again, started twice, unreadable requests, the port taken | 14,527 | does a start that returned `true` mean bound; is a stop prompt and does it return; are requests answered; what ends the program? |
| `rpc_handler` | 2 clients, ring of 2, index of 4 values, messages of 1 or 2 packets; 6 scenarios | 21,642 | is each message handled once, in order, and from its buffer, across the wrap of the index; do start and stop return; is the thread joined? |

Where a module has a constant `Modes` or `Scenarios`, its variable `mode` or `scenario` is the command line: chosen in the
initial state and never changed, so that one run goes through all of them.

What they show: in the configurations the programs use, the protocols of the three benchmark programs are right –
no request is overwritten or lost, no response is sent twice or to a client that does not wait for it, each holds the id that was
asked for, and all threads return – provided that there is one spare receive (`ids_from_zero`) and that no Init is sent before the
receives are posted (`OnlyInitIsLost`). Not promised is one field: `senderNodeId` of a response of 220 bytes or more may, in
`main.cc` and `sharedMemMain.cc`, be that of another client that has asked for the same entry since (`Answers`). Their clients
do not read it; the dispatcher does, and its workers have parts of the buffer to themselves.

The properties of the library name their exceptions, which are as informative as the rule:

* `ProtoServerInv`: deleting the server ends the program (`std::terminate`) when its thread has ended by itself, because the port
  was taken or a message did not parse, or was started after a stop (`m_kill` is never reset); and a pure virtual call is possible
  when clients still send requests while it is destroyed. `StopReturns`: the owner hangs only when the thread has ended
  without closing its socket.
* `HandledIsReceived`: right when completions come in the order of the receives; the sender of a message may be unset when
  `stopHandler` comes between a completion and the second test of the stop flag.
* `QueuePairsInv`: a destructor ends the program only after a failed `leaveMCastGroup`, or when a queue pair on a shared receive
  queue was lost, which takes a failed state change or a server that connects to itself. A null pointer is destroyed when a
  client over `UnreliableRDMA` is refused. `NothingElseLeft`: address handles, with the protection domain they keep busy, the
  addresses of groups, and the completion queue of an unused shared receive queue are never freed.
* `ConnectionInv`: a queue pair is lost when its change to INIT fails, and only then. `AllReturn` of `connection`: servers that
  connect to each other before they start wait for ever.
* `SignaledReturns`: the first `sendBatch` of a connection waits for ever if `batches[]` happens not to be 0.

*Why the bounds are enough.* A thread's state repeats from request to request, so two requests show every overlap of one
with the next, and three show a flag or slot that is stale by two. Two clients make the interleavings at a receiver;
a third worker is used where a count matters (the workers of a dispatcher). Two receivers are needed for the
order of visits and for the ids. The barrier's threads never differ by more than one round, so modulo 2 is the hardest
case of the wrap-around. The send queue runs through its length six times. Eight bytes hold every arrangement of
three neighbouring regions. Two servers suffice for the race of `connect` with itself, as connections of different
pairs share nothing but the tables that `shared_tables` is about. Two prepared responses suffice for two clients that ask for the
same one, or for different ones. Five calls make two queue pairs on a shared receive queue and
connect them, or join two groups and leave one before another is joined; the ids 0 and 2 leave a hole in `m_qps`. The ring of
the handler is filled twice over and its index wraps; `RingAssumption` says for which lengths it may.

## 4 Assumptions, fairness and bounds

*The fabric* (external to the code). A reliable connection delivers in order and exactly once; a WRITE is placed in
address order, without the remote CPU noticing; a SEND that finds no receive breaks the connection, because the queue
pairs have `rnr_retry = 0` (`ReliableRDMA.cc:656`). Between different connections there is no order. Completions of a queue
come in the order of its work requests. Memory accesses are sequentially consistent: the atomics of `Barrier` and of the
mailboxes are `seq_cst`, the polled words are `volatile`, and the program runs on x86.

*Fairness.* Weak fairness for each thread and for each connection. All waiting in the code is busy polling, so a thread
that can go on is never blocked by another one that does not run; that the operating system schedules every thread and
that a reliable connection delivers is all that is assumed. Nothing assumes that a particular branch of a thread
is taken, or a particular message preferred; the owner of a server or handler makes the calls of its plan. `allocator`,
`queue_pairs` and the violation runs are about safety and have no fairness.

*Deadlock* is checked in the allocator only. All other programs end: their threads return, and the final states have no
successor. That all threads do get there is a liveness property of its own (`AllReturn`, `AllThreadsReturn`).

*One thread.* `ProtoServer` and `RpcHandler` have one thread at a time: an owner who has seen a start fail does not start again before
that thread has ended (the guard on `tpc` in `StartServer` and `StartHandler`).

*Bounds.* `Requests`, `Waits` and `Posts` are parameters of the programs or stand for their length, `MaxCalls` and `MaxFaults` for that
of a life; a scenario's `plan` lists the calls of a node or an owner. History variables (`issued`, `served`, `answered`, `filledFrom`, `results`,
`handled`, `handledLate`, `faults`) only serve to state properties.

## 5 Proofs

TLAPS checks every step; there are no assumptions but the named `ASSUME`s of the component modules.

**BarrierProofs** – for any finite, non-empty set of threads, any number of rounds and any width of the counter with at
least two values (`ThreadsAssumption`, `WaitsAssumption`, `RoundModAssumption`):

* `InvariantHolds`: `BarrierInv` is inductive. It is needed because the properties speak about rounds, which the code does
  not count: the invariant ties `cntr` to the number of threads waiting in the current round, says that a thread that
  spins has loaded the current round or the one just completed, and that the last arriver is alone between its
  `fetch_sub` and the step that advances `round`. One lemma per action shows that it is kept.
* `TypesHold`, `NobodyLeavesEarlyHolds`, `FinalizerRunsOncePerRoundHolds` follow from it.
* `BarrierRefines`: `Spec => AbstractSpec`; `StepRefines` maps each action to an abstract step or a stutter.

**SendQueueProofs** – for any queue length, any length of batches up to it and any number of operations (`MaxWRAssumption`,
`BatchAssumption`, `PostsAssumption`), and for all four kinds of queue:

* `InvariantHolds`: `SendQueueInv` is inductive: between operations nothing signaled is left over, `countWR` bounds what
  occupies the queue, and while the thread waits, its own operation is the only signaled one and the last. Of a queue of
  batches it says that all it holds is the last batch.
* `SendQueueNeverFullHolds`, `CompletionIsOwnHolds` follow.

**ProtoServerProofs** – for any set of clients, any number of requests and any calls of the owner that `ScenariosAssumption`
allows:

* `InvariantHolds`: `IInv` is inductive. `ProtoServerInv` alone is not: it says nothing about where owner and thread are. The
  invariant adds that `m_running` is set exactly while the thread is in its loop, that the owner is where its plan says, that the
  socket is bound from `bind()` to the end of the context, and (`CleanInv`) that after a single start with a free port and
  readable requests the thread is there until it is stopped, and joined: without this, `CrashOnlyAfterMisuse` could not
  exclude `std::terminate`.
* `ProtoServerInvHolds` follows.

**RpcHandlerProofs** – for any ring whose length divides the range of its index, whatever that range
(`RingAssumption`), any finite set of clients (`ClientsAssumption`),
any number of messages of one packet or two, and any calls of the owner:

* `InvariantHolds`: `IInv` is inductive. The code matches a completion with a buffer by counting: `Slot[k]` is the k-th buffer
  that the index will reach, and the invariant says that the completions to poll, the buffers being written to and the receives
  still posted are `Slot[1]`, `Slot[2]`, … in this order, and that the handler holds the last one (`RingInv`, `AlignedInv`). Every
  buffer is in one of these places (`CountInv`), so the ring is never overrun; `OrderInv` says that the messages between
  those a client has had handled and those that are complete are reported, once and in order. What the index does when it wraps
  comes down to five lemmas about `%` (`ModShift`, `ModInjective` and others), which is where `RingAssumption` is needed.
* `RpcHandlerInvHolds`, `HandledIsReceivedHolds` follow. `HandledAtMostOnce` needs no order of completions: each message
  waits in at most one buffer (`HandledOnceInv`), so none is handled twice even if some are handled from the wrong buffer.

**ConnectionProofs** – for any finite set of nodes, any of them servers, and any calls that `ScenariosAssumption` allows, under the
hypothesis `NoneToItself`: no node has a call `connect()` to itself. Without it the theorems are false (section 6), and no program
of the repository does it.

* `InvariantHolds`: `IInv` is inductive. Between two nodes there can be two connections, one from each side's `connect()`, with
  two queue pairs each. `PhaseInv` says for each of them how far its queue pairs are, given where the caller is; a call that is
  over has left both connected to each other, or none that counts. `FlagInv` relates them to `m_NodeIDsQPs`: of two nodes that have both
  claimed the connection, only the one with the larger id serves the other, so only one of the two connections is
  made. `RecordInv` says that `m_qps` and `m_connected` are about that one. `SequencerInv`, that node ids are dense and different,
  makes the entries of different pairs different (`TouchesOnePair`), so that each action has to be looked at for one pair only.
* A queue pair that was lost stays in the state `reset` and is in no table (`NoOtherLeaks`): the call that lost it is over, and `m_NodeIDsQPs`
  keeps it from being made again.
* `ConnectionInvHolds`, `ConnectionsPairedHolds`, `ClientIsConnectedHolds` follow; `ConnectionStableHolds` because each action
  leaves what is ready to send alone.

**DispatcherProofs** – for any processes, workers and receivers, any `Batch`, both ways of polling and small or large responses, as
long as every worker belongs to one process, every process has a worker, node ids differ (`WorkersAssumption`) and a share has
two entries (`ShareAssumption`):

* `InvariantHolds`: `IInv` is inductive. A request that has been issued is in one place: in the entry of its worker, on its way
  to a receiver (`RequestInv`), in a response on its way (`ResponseInv`), in an entry that holds the response (`FilledInv`), or
  announced in the mailbox; `transfered` is set exactly while it is in the three in the middle. The invariant says where each
  worker, its entry and its mailbox are then.
* A large response is read from the receiver's buffer when it is delivered. That the entry still holds it follows from
  `SharesAreDisjoint`: no two workers' parts of `partition()` have an entry in common, and a worker has one request under way.
* Every entry of a dispatcher's response buffer is posted, completed or taken up, in one place only (`ThreadInv`). So there is a
  receive for a response (`ReceiveIsLeft`): otherwise all entries would hold responses, of as many different workers as the
  process has, among them the one whose response is still on its way.
* `DispatcherInvHolds`, `ResponseFindsItsWorkerHolds`, `NoReceiverNotReadyHolds` and `FinishedIsLastHolds` (a receiver that
  has counted all workers is left with none that has a request under way) follow; `RequestReplyRefined`: each action is an
  abstract step or a stutter.

**RequestResponseProofs** – for any clients, receivers, requests and modes that
`NodesAssumption`, `OrderAssumption`, `ModeAssumption` and `ResponseAssumption` allow, under the hypothesis `SlotsSuffice`: when requests are sent, the
request buffer has an entry more than there are clients. Without it the theorems are false, as `ids_from_zero` shows; it holds
whenever no client has the id 0.

* `InvariantHolds`: `IInv` is inductive. The properties speak about one place each, and a message gets there from another one, so
  the invariant follows it round: a client and a receiver have at most one message between them, and it is on the wire
  (`WireInv`), in a completion (`CqInv`) or a polled slot (`SlotInv`), with the receiver (`HeldInv`), on its way back (`BackInv`), or
  in the response area (`AreaInv`) or a completed receive (`RcqInv`) of the client. Each of them says what the client is then
  waiting for (`Pending`, `Asking`, `Served`, `FinSent`), so that a step changes this for one client and one receiver only; the
  lemmas `…Stays` are about all others.
* `PhaseInv`, `SrqInv` and `GreetInv` are about the init phase: a client is past it only when each receiver has replied, and
  a receiver replies to nobody before all are connected. `IndexInv` says that no two receives name the same slot, `CountInv` that
  only the receive of a `FinishedExp` is not posted again, `FinishInv` that `clientsFinished` counts clients, each once.
* That a SEND finds a receive (`ReceivesSuffice`) is a matter of counting: completions are of different clients, and so are the
  `FinishedExp`s counted; together with the client that sends they are at most all clients, the receiver holds one
  receive more, and there is still one left.
* `ContentHolds`: a second invariant, `ContentInv`, inductive relative to the first, follows what is in the responses. While a
  response is on its way its client asks for nothing else, and the entry it names may be filled in for another client, but with
  the same id (`FillKeepsContent`); so what the card reads late still has the id that was asked for (`HeadBrings`), and it has
  the client's own address if it was copied at the post.
* `RequestResponseInvHolds`, `OnlyInitIsLostHolds`, `CompletionsMatchPhaseHolds`, `ResponseMatchesRequestHolds` and
  `TransferReadsSameRequestHolds` follow, the last two with `ContentInv`.
* `ReceiverReturnsCompleteHolds`: a receiver that has returned has counted every client, and what waits for it is of one that it
  has not counted (`InvLeavesNothing`). That the receivers then report as many requests as were sent needs a second invariant,
  `CountsAgree`: the requests counted by all receivers are those served for all clients, because `Transfer` counts one for
  each; once all have returned no client waits, so what it issued has been served. `SumOver` is the sum over a set of threads that
  `MapThenSumSet` stands for. That it exists (`PartialSumsExist`) and grows by one with one of its values (`SumGrows`) is
  proved for every finite set.
* `RequestReplyRefined`: `PostRequest` is an `Issue`, `Transfer` a `Serve`, `TakeResponse` an `Answer`; all else is a stutter.

**BaseRDMAProofs**, the allocator – for a memory of any size and any sizes that are asked for (`MemAssumption`):

* `AllocatorInvariantHolds`: `IInv` is inductive: the free list is sorted and no two regions of it touch (`FreeListCoalesced`), the regions
  in use and those lost are apart from each other and from the free ones (`Apart`), and together they are the memory (`Complete`).
  `AllocatorInv` counts the regions of each byte (`EveryByteOnce`); a step moves a whole region, and what it does to the others
  is easier to say of sets of bytes. `InvByteOnce` gets the counts back.
* The place that `internalFree` takes is found with `lastOffset`, the sum of all offsets before it. It need not be the offset of
  the region before, only not smaller (`LastOffsetBounds`): then the region released lies between its new neighbours
  (`RegionIsInserted`), and joining it with those that it touches leaves gaps everywhere (`NeighboursAreJoined`). The
  same lemma is why a place that is wrong cannot be accepted, and a right one can be refused (section 6, `allocator_free`).
* `AllocatorInvHolds` follows. `AllocatorRefines`: `Spec => AbstractSpec`. A request that is refused finds no run of free bytes
  in the abstract allocator either, since a run of free bytes lies in one region (`RunIsInOneRegion`): regions do not touch.

**BaseRDMAProofs**, the verbs objects – for any ids of connections, any number of calls and any number of failures
(`QueuePairsAssumption`):

* `QueuePairsInvariantHolds`: `QueuePairsInvariant` is inductive. The properties say nothing of the calls that a destructor still has
  to make, nor of objects that one member names and another one's object is made of. So `BaseOK`, `ReliableOK`, `SrqsOK` and
  `UnreliableOK` say of everything a member names that it exists and which objects alone may be made of it (`Only`), as far as no
  failure has left any behind (`NothingLost`); `Numbered` that an object is made of older ones, so that a new one is part of nothing.
* `TodoOK` is about the calls still to be made. The users of an object come before it (`UsersFirst`). Two calls for the same object
  have one for a user between them (`UsedBetween`), so nothing is destroyed twice. A queue that is left because another
  queue pair still uses it is tried again after that one (`TriedAgain`), and of the protection domain only address handles are left
  when its turn comes (`OnlyHandlesLeft`). `Accounted` says of each object that a member names it, that it is to be destroyed, or that it
  may be left.
* A step does one of two things to `uses`: objects are added, each made of given ones (`Grown`), or taken away (`Shrunk`), and the
  lemmas about the parts of the invariant are about these. The list of a destructor is made of one list for each entry of a
  vector; where those lie in it is `Layout`, which exists for any number of them (`FlattenedExists`, `FlattenLayout`).
* `QueuePairsInvHolds` and `NothingElseLeftHolds` follow; `KeysStayHolds` because the key of the next group is behind all entries of
  `m_udpMcastConns` (`KeysBounded`), so that a group is never written over one that is active.

What is said for all lengths of a list, or all finite sets, is proved by a least counterexample: the set of those for which it
fails has a minimum in a well-founded order (`WFMin`), and the step from there to a smaller one is a contradiction. `SumsExist`,
`LastOffsetBounds`, `PartialSumsExist`, `LeastSubset`, `FlattenedExists` and the lemmas that cite them are of this kind; lists and
sets are finite in the model, and the theorems put no bound on their length.

Every invariant and every action property of the passing runs is stated by a theorem. Only model-checked are the liveness
properties (`AllThreadsReturn`, `AllReturn`, `SignaledReturns`, `PromiseKept`, `StopReturns`, `RequestsAnswered`, `CallsReturn`), which are
out of the prover's reach.

## 6 Where code and documentation disagree

Each is a run that TLC is expected to find violated; `PROJECT.json` quotes the lines.

* `ids_from_zero`: with client ids 0..n-1 exactly n receives are posted, and the one used is posted again only after
  the response: a fast client's next request finds none and its connection breaks.
* `allocator_free`: `internalFree` adds up offsets instead of remembering the last one and never accepts the end of the
  list; it throws after it has forgotten the region.
* `shared_tables`: `connectQueue` guards the tables of connections by `m_connLock`, `connect` changes them without it.

More was seen on the way and has no run of its own, as no document or test says otherwise, or the code itself notes it:

* Of two servers that connect to each other, the refused one gets `true` before there is a connection (`RDMAClient.h:249`);
  the other one's request makes it later, which `PromiseKept` is about.
* After a look-up that ran out of retries, a second `connect` finds the socket and returns `true` and node id 0
  (`RDMAClient.h:265`).
* A server that connects to itself not only leaks a queue pair, as `RDMAServer.h:173` says: the one it keeps is never connected,
  because `m_connected` already has its id (`ReliableRDMA.cc:118`).
* A queue pair for which `modifyQPToInit` throws is in no table yet and never destroyed (`ReliableRDMA.cc:50-77`).
* The response buffer of a receiver is shared by all its clients (`BenchmarkReceiver.h:112`), so a large response may carry the
  `senderNodeId` of another one.
* The other exceptions listed in section 3.

No main program of the repository runs into `allocator_free`, `shared_tables` or any of these, but for the shared response
buffer, whose `senderNodeId` they do not read: their servers do not connect, a failed `connect` ends the program, and they use
neither the handler threads nor `UnreliableRDMA`.

## 7 What is not modelled

* `CircBuf`, which no program makes; the receives of `UnreliableRDMA`, which keep no state; the loss of datagrams, which the code
  does not handle; the server's remote memory requests, which no program of the repository sends.
* Unsignaled atomics, which `checkSignaled` does not count (`ReliableRDMA.cc:211`), and operations between `requestRead` and
  `pollSend`, which would take each other's completion (`ReliableRDMA.cc:184`): no caller does either.
* Payloads and latencies: nothing in the code compares them; a body is destination, address, entry and the number of its request.
* Flags, statistics, ssh driver, logging, configuration, result files: no state the protocols depend on.
* Two threads changing one vector or list at the same time: undefined behaviour without outcomes one could list. The
  models show where it can happen (`shared_tables`) or exclude it (the allocator has one caller, although a server would
  answer remote requests from its own thread, `ReliableRDMA.cc:28`), and say so. The same holds for the mutex that
  `ProtoServer.cc:70` unlocks twice.
* Exceptions that end a program (failing `ibv_*` calls in the benchmark phases, a client whose own queue pair cannot be connected), and failing ZeroMQ calls that do so by design.
* Attributes of queue pairs and addresses, and what an adapter does with an address handle of another protection domain
  (`UnreliableRDMA.cc:390`).

## 8 Plan

Done, in this order, the most important behaviour first: Barrier, RequestResponse, Dispatcher, SendQueue, Allocator,
Connection, ProtoServer, RpcHandler, QueuePairs. What is left of the code is listed in section 7.
