----------------------------- MODULE ProtoServer -----------------------------
(***************************************************************************)
(* The request loop that the sequencer and every server inherit: the       *)
(* ProtoServer with the thread it starts (Thread), the ZeroMQ socket the   *)
(* two share (ProtoSocket), and the clients that send it requests and wait *)
(* for the answers (ProtoClient, ProtoSendSocket).                         *)
(*                                                                         *)
(* The owner of the server works off its calls and then destroys it.  It   *)
(* has no way to wake the thread but to close the ZeroMQ context, which    *)
(* blocks until the thread has closed the socket.                          *)
(***************************************************************************)
EXTENDS Integers, Sequences, FiniteSets

CONSTANTS
    Clients,    \* the programs that connect to the server
    Scenarios   \* what owner and clients do, see ScenariosAssumption

Calls == {"startServer", "stopServer"}

\* plan: the calls of the owner.  requests: how many requests each client sends.
\* garbled: the clients whose requests do not parse.  portTaken: another program
\* has bound the port.  orderly: the owner destroys the server only when every
\* client has its answers, as the drivers do.
ASSUME ScenariosAssumption ==
    \A s \in Scenarios :
        /\ s.plan \in Seq(Calls)
        /\ s.requests \in [Clients -> Nat]
        /\ s.garbled \subseteq Clients
        /\ s.portTaken \in BOOLEAN /\ s.orderly \in BOOLEAN

VARIABLES
    scenario,   \* what owner and clients do, chosen once
    \* the owner
    opc,        \* where it is
    results,    \* what its calls have returned
    destroying, \* the destructor has begun
    \* ProtoServer and Thread
    m_running, m_kill,
    m_thread,   \* the std::thread: none, joinable or joined
    tpc,        \* where the thread is
    cur,        \* the client whose request it works on
    \* ProtoSocket
    m_pSocket,  \* none, created, bound (m_isOpen) or closed
    context,    \* none, open, terminating or gone
    inbox,      \* requests in the bound socket
    port,       \* who has bound the port: nobody, self or other
    \* ProtoClient
    request,    \* the client's request: none, sent, delivered or an answer
    left,       \* the requests it still has to send
    \* the process
    crash,      \* how it has been ended, "no" while it runs
    handledLate \* history: requests handled after stop()

ownerVars == <<opc, results, destroying>>
threadVars == <<m_running, m_kill, m_thread, tpc, cur>>
socketVars == <<m_pSocket, context, inbox, port>>
clientVars == <<request, left>>
progress == <<ownerVars, threadVars, socketVars, clientVars, crash, handledLate>>
vars == <<scenario, progress>>

Nobody == "nobody"
Answers == {"NO_ERROR", "ERROR"}
Results == Seq([call : Calls, ok : BOOLEAN])

OwnerTypeOK ==
    /\ opc \in {"idle", "starting", "startFailed?", "stopping", "closing", "joining",
                "deleting", "done"}
    /\ results \in Results
    /\ destroying \in BOOLEAN

ThreadTypeOK ==
    /\ m_running \in BOOLEAN /\ m_kill \in BOOLEAN
    /\ m_thread \in {"none", "joinable", "joined"}
    /\ tpc \in {"none", "bind", "run", "test", "receive", "handle", "send", "leave", "ended"}
    /\ cur \in Clients \cup {Nobody}
    /\ handledLate \in Nat

SocketTypeOK ==
    /\ m_pSocket \in {"none", "created", "bound", "closed"}
    /\ context \in {"none", "open", "terminating", "gone"}
    /\ inbox \subseteq Clients
    /\ port \in {"nobody", "self", "other"}

ClientTypeOK ==
    /\ request \in [Clients -> {"none", "sent", "delivered"} \cup Answers]
    /\ left \in [Clients -> Nat]

TypeOK ==
    /\ scenario \in Scenarios
    /\ OwnerTypeOK /\ ThreadTypeOK /\ SocketTypeOK /\ ClientTypeOK
    /\ crash \in {"no", "terminate", "pure virtual"}

Init ==
    /\ scenario \in Scenarios
    /\ opc = "idle" /\ results = <<>> /\ destroying = FALSE
    /\ m_running = FALSE /\ m_kill = FALSE /\ m_thread = "none"
    /\ tpc = "none" /\ cur = Nobody
    /\ m_pSocket = "none" /\ context = "none" /\ inbox = {}
    /\ port = IF scenario.portTaken THEN "other" ELSE "nobody"
    /\ request = [c \in Clients |-> "none"]
    /\ left = scenario.requests
    /\ crash = "no" /\ handledLate = 0

OwnerGoto(from, to) == opc = from /\ opc' = to
ThreadGoto(from, to) == tpc = from /\ tpc' = to

-----------------------------------------------------------------------------
(***************************************************************************)
(* The owner                                                               *)
(***************************************************************************)
HasCall == Len(results) < Len(scenario.plan)
Call == scenario.plan[Len(results) + 1]
Returns(ok) == results' = Append(results, [call |-> Call, ok |-> ok])

\* startServer() of a server that runs.
StartAgain ==
    /\ opc = "idle" /\ HasCall /\ Call = "startServer"
    /\ m_running
    /\ Returns(TRUE)
    /\ UNCHANGED <<opc, destroying, threadVars, socketVars, clientVars, crash, handledLate>>

\* startServer(): a new socket in a new context, and a new thread.  Those of an
\* earlier start are forgotten: a socket that is still bound keeps the port.  The
\* model has one thread: an owner who has seen a start fail does not call again
\* before that thread has ended.
StartServer ==
    /\ HasCall /\ Call = "startServer" /\ ~m_running
    /\ tpc \in {"none", "ended"}
    /\ OwnerGoto("idle", "starting")
    /\ m_pSocket' = "created" /\ context' = "open" /\ inbox' = {}
    /\ m_thread' = "joinable" /\ tpc' = "bind"
    /\ UNCHANGED <<results, destroying, m_running, m_kill, cur, port, clientVars, crash, handledLate>>

\* Its loop: wait until the thread runs ...
Started ==
    /\ m_running
    /\ OwnerGoto("starting", "idle")
    /\ Returns(TRUE)
    /\ UNCHANGED <<destroying, threadVars, socketVars, clientVars, crash, handledLate>>

NotStartedYet ==
    /\ ~m_running
    /\ OwnerGoto("starting", "startFailed?")
    /\ UNCHANGED <<results, destroying, threadVars, socketVars, clientVars, crash, handledLate>>

\* ... or has been killed, before as well as in this call.
StartFailed ==
    /\ OwnerGoto("startFailed?", IF m_kill THEN "idle" ELSE "starting")
    /\ IF m_kill THEN Returns(FALSE) ELSE UNCHANGED results
    /\ UNCHANGED <<destroying, threadVars, socketVars, clientVars, crash, handledLate>>

\* The destructor: first the parts of the derived classes go, with the thread
\* still running.
Destroy ==
    /\ opc = "idle" /\ ~HasCall /\ ~destroying
    /\ scenario.orderly => \A c \in Clients : left[c] = 0 /\ request[c] = "none"
    /\ destroying' = TRUE
    /\ UNCHANGED <<opc, results, threadVars, socketVars, clientVars, crash, handledLate>>

\* stopServer(), called by the owner or by the destructor: stop() if it runs.
Stopping == IF destroying THEN "deleting" ELSE "idle"

StopServer ==
    /\ IF destroying THEN TRUE ELSE HasCall /\ Call = "stopServer"
    /\ OwnerGoto("idle", IF m_running THEN "stopping" ELSE Stopping)
    /\ m_kill' = (m_kill \/ m_running)
    /\ IF m_running \/ destroying THEN UNCHANGED results ELSE Returns(TRUE)
    /\ UNCHANGED <<destroying, m_running, m_thread, tpc, cur, socketVars, clientVars, crash,
                   handledLate>>

\* closeContext() ...
CloseContext ==
    /\ OwnerGoto("stopping", "closing")
    /\ context' = "terminating"
    /\ UNCHANGED <<results, destroying, threadVars, m_pSocket, inbox, port, clientVars, crash,
                   handledLate>>

\* ... returns when the socket has been closed.
ContextClosed ==
    /\ m_pSocket = "closed"
    /\ OwnerGoto("closing", "joining")
    /\ context' = "gone"
    /\ UNCHANGED <<results, destroying, threadVars, m_pSocket, inbox, port, clientVars, crash,
                   handledLate>>

\* Mutant: the thread is not joined.
JoinNothing ==
    /\ OwnerGoto("joining", Stopping)
    /\ IF destroying THEN UNCHANGED results ELSE Returns(TRUE)
    /\ UNCHANGED <<destroying, threadVars, socketVars, clientVars, crash, handledLate>>

\* join()
Join ==
    /\ tpc = "ended"
    /\ OwnerGoto("joining", Stopping)
    /\ m_thread' = "joined"
    /\ IF destroying THEN UNCHANGED results ELSE Returns(TRUE)
    /\ UNCHANGED <<destroying, m_running, m_kill, tpc, cur, socketVars, clientVars, crash,
                   handledLate>>

\* The rest of the destructor: the socket is closed if it is open, with its
\* context, and the std::thread is deleted, which must not be joinable.
Delete ==
    /\ OwnerGoto("deleting", "done")
    /\ IF m_pSocket = "bound"
       THEN /\ m_pSocket' = "closed" /\ context' = "gone" /\ inbox' = {} /\ port' = "nobody"
       ELSE UNCHANGED socketVars
    /\ crash' = IF m_thread = "joinable" THEN "terminate" ELSE crash
    /\ UNCHANGED <<results, destroying, threadVars, clientVars, handledLate>>

Owner ==
    /\ crash = "no"
    /\ \/ StartAgain \/ StartServer \/ Started \/ NotStartedYet \/ StartFailed
       \/ StopServer \/ CloseContext \/ ContextClosed \/ Join
       \/ Destroy \/ Delete

-----------------------------------------------------------------------------
(***************************************************************************)
(* The server's thread, run()                                              *)
(***************************************************************************)

\* bind(); without the port the thread calls stop() and ends.
Bind ==
    /\ ThreadGoto("bind", IF port = "nobody" THEN "run" ELSE "ended")
    /\ IF port = "nobody"
       THEN m_pSocket' = "bound" /\ port' = "self" /\ UNCHANGED m_kill
       ELSE m_kill' = TRUE /\ UNCHANGED <<m_pSocket, port>>
    /\ UNCHANGED <<ownerVars, m_running, m_thread, cur, context, inbox, clientVars, crash,
                   handledLate>>

Run ==
    /\ ThreadGoto("run", "test")
    /\ m_running' = TRUE
    /\ UNCHANGED <<ownerVars, m_kill, m_thread, cur, socketVars, clientVars, crash, handledLate>>

\* Mutant: the loop ends only when receive() fails.
TestNothing ==
    /\ ThreadGoto("test", "receive")
    /\ UNCHANGED <<ownerVars, m_running, m_kill, m_thread, cur, socketVars, clientVars, crash,
                   handledLate>>

\* while (!killed()).  A thread that leaves here leaves its socket open.
Test ==
    /\ ThreadGoto("test", IF m_kill THEN "leave" ELSE "receive")
    /\ UNCHANGED <<ownerVars, m_running, m_kill, m_thread, cur, socketVars, clientVars, crash,
                   handledLate>>

\* receive() of a message, fairly from all clients; one that does not parse ends
\* the loop.  The socket hands out what it has even when the context is closing.
Receive ==
    \E c \in inbox :
        /\ ThreadGoto("receive", IF c \in scenario.garbled THEN "leave" ELSE "handle")
        /\ inbox' = inbox \ {c}
        /\ cur' = c
        /\ UNCHANGED <<ownerVars, m_running, m_kill, m_thread, m_pSocket, context, port,
                       clientVars, crash, handledLate>>

\* Mutant: the socket is not closed when recv() throws.
ReceiveTermKeepsSocket ==
    /\ context = "terminating"
    /\ ThreadGoto("receive", "leave")
    /\ UNCHANGED <<ownerVars, m_running, m_kill, m_thread, cur, socketVars, clientVars, crash,
                   handledLate>>

\* receive() when recv() throws ETERM: the socket is closed, and what it holds lost.
ReceiveTerm ==
    /\ context = "terminating"
    /\ ThreadGoto("receive", "leave")
    /\ m_pSocket' = "closed" /\ inbox' = {} /\ port' = "nobody"
    /\ UNCHANGED <<ownerVars, m_running, m_kill, m_thread, cur, context, clientVars, crash,
                   handledLate>>

\* handle() is a function of the derived class, which must still be there.
Handle ==
    /\ ThreadGoto("handle", "send")
    /\ crash' = IF destroying THEN "pure virtual" ELSE crash
    /\ handledLate' = IF m_kill THEN handledLate + 1 ELSE handledLate
    /\ UNCHANGED <<ownerVars, m_running, m_kill, m_thread, cur, socketVars, clientVars>>

\* Mutant: the answer goes to no one.
SendNothing ==
    /\ ThreadGoto("send", "test")
    /\ cur' = Nobody
    /\ UNCHANGED <<ownerVars, m_running, m_kill, m_thread, socketVars, clientVars, crash, handledLate>>

\* send() of the answer; the error of a closing context is caught and logged.
Send ==
    /\ ThreadGoto("send", "test")
    /\ \/ \E a \in Answers : request' = [request EXCEPT ![cur] = a]
       \/ context = "terminating" /\ UNCHANGED request
    /\ cur' = Nobody
    /\ UNCHANGED <<ownerVars, m_running, m_kill, m_thread, socketVars, left, crash, handledLate>>

Leave ==
    /\ ThreadGoto("leave", "ended")
    /\ m_running' = FALSE
    /\ UNCHANGED <<ownerVars, m_kill, m_thread, cur, socketVars, clientVars, crash, handledLate>>

Server ==
    /\ crash = "no"
    /\ Bind \/ Run \/ Test \/ Receive \/ ReceiveTerm \/ Handle \/ Send \/ Leave

-----------------------------------------------------------------------------
(***************************************************************************)
(* The clients and ZeroMQ                                                  *)
(***************************************************************************)

\* exchangeProtoMsg(): the request.  Connecting (connectProto) needs no server:
\* ZeroMQ keeps the request until there is one.
SendRequest(c) ==
    /\ request[c] = "none" /\ left[c] > 0
    /\ request' = [request EXCEPT ![c] = "sent"]
    /\ left' = [left EXCEPT ![c] = @ - 1]
    /\ UNCHANGED <<ownerVars, threadVars, socketVars, crash, handledLate>>

\* The answer; an ErrorMessage that is not NO_ERROR throws, and this client sends
\* no more requests.
TakeAnswer(c) ==
    /\ request[c] \in Answers
    /\ request' = [request EXCEPT ![c] = "none"]
    /\ left' = IF request[c] = "ERROR" THEN [left EXCEPT ![c] = 0] ELSE left
    /\ UNCHANGED <<ownerVars, threadVars, socketVars, crash, handledLate>>

\* ZeroMQ passes a request to the socket that is bound to the port; one that has
\* been forgotten takes it too.
Deliver(c) ==
    /\ request[c] = "sent" /\ port = "self"
    /\ request' = [request EXCEPT ![c] = "delivered"]
    /\ inbox' = IF m_pSocket = "bound" THEN inbox \cup {c} ELSE inbox
    /\ UNCHANGED <<ownerVars, threadVars, m_pSocket, context, port, left, crash, handledLate>>

Client(c) == SendRequest(c) \/ TakeAnswer(c)

-----------------------------------------------------------------------------
Next ==
    /\ Owner \/ Server \/ (\E c \in Clients : Client(c) \/ Deliver(c))
    /\ UNCHANGED scenario

Spec == Init /\ [][Next]_vars

\* Threads are scheduled and ZeroMQ delivers; its fair queueing does not let one
\* client starve another, which never matters here as requests are finitely many.
FairSpec ==
    /\ Spec
    /\ WF_progress(Owner) /\ WF_progress(Server)
    /\ \A c \in Clients : WF_progress(Client(c)) /\ WF_progress(Deliver(c))

-----------------------------------------------------------------------------
\* The thread has ended without closing its socket.
SocketLeftOpen == tpc = "ended" /\ m_pSocket = "bound"

\* A server whose start returned true is bound to its port and gets all requests,
\* until it is stopped or started again after its thread has ended over a message.
StartedMeansBound ==
    \A k \in DOMAIN results :
        results[k].call = "startServer" /\ results[k].ok /\ ~m_kill /\ opc = "idle"
            => m_pSocket = "bound" /\ port = "self"

\* Once it has been told to stop, the thread handles one more request at most,
\* and none after a restart, because m_kill is never reset.
StopIsPrompt == handledLate <= 1

\* The process survives the destructor, unless the thread has ended by itself (the
\* port was taken, a message did not parse) or been started after a stop, when
\* nobody has joined it, or clients are still sending requests.
CrashOnlyAfterMisuse ==
    /\ crash = "terminate" =>
          \/ scenario.portTaken \/ scenario.garbled # {}
          \/ \E k \in DOMAIN results : k > 1 /\ results[k].call = "startServer"
    /\ crash = "pure virtual" => ~scenario.orderly

ProtoServerInv ==
    /\ TypeOK
    /\ m_running => tpc \in {"test", "receive", "handle", "send", "leave"}
    /\ context = "gone" => m_pSocket = "closed"
    /\ m_thread = "joined" => tpc = "ended"
    /\ StartedMeansBound /\ StopIsPrompt /\ CrashOnlyAfterMisuse

\* Every request that parses is answered, unless the server is being stopped or its
\* thread has ended.
RequestsAnswered ==
    \A c \in Clients :
        (c \notin scenario.garbled /\ request[c] = "sent") ~>
            (request[c] \notin {"sent", "delivered"} \/ m_kill \/ destroying \/ tpc = "ended")

\* A server that waits for requests when it is stopped, and that nobody sends one,
\* stops: the call returns.  In general the owner gets to its end unless the thread
\* ends without closing its socket: closeContext() then waits for the socket for
\* ever, and startServer() for a thread that has run before it looked.
StopReturns ==
    /\ (/\ opc = "closing" /\ tpc = "receive" /\ inbox = {}
        /\ \A c \in Clients : left[c] = 0 /\ request[c] # "sent")
            ~> (opc # "closing")
    /\ <>[](opc = "done" \/ crash # "no" \/ (SocketLeftOpen /\ opc # "idle"))
=============================================================================
