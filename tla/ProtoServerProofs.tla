--------------------------- MODULE ProtoServerProofs ---------------------------
(***************************************************************************)
(* What a start that returns true means, how fast a stop is, and what can  *)
(* end the program when a server is deleted: for any number of clients and *)
(* requests, and any calls of the owner.                                   *)
(***************************************************************************)
EXTENDS ProtoServer, SequenceTheorems, TLAPS

Starting == opc \in {"starting", "startFailed?"}
Ending == opc \in {"stopping", "closing", "joining"}

\* The owner works off its plan, and destroys the server after the last call.
OwnerInv ==
    /\ Starting => HasCall /\ Call = "startServer"
    /\ Ending /\ ~destroying => HasCall /\ Call = "stopServer"
    /\ destroying => ~HasCall
    /\ opc \in {"deleting", "done"} => destroying
    /\ Ending => m_kill /\ tpc \notin {"none", "bind", "run"}

\* m_running is set while the thread is in its loop; a thread has been started.
ThreadInv ==
    /\ m_running <=> tpc \in {"test", "receive", "handle", "send", "leave"}
    /\ m_thread = "joined" => tpc = "ended"
    /\ m_thread = "none" <=> tpc = "none"
    /\ Starting => m_thread = "joinable"
    /\ tpc # "none" => Starting \/ results # <<>>

\* The socket belongs to the thread from bind() to the end of the context.
SocketInv ==
    /\ context = "gone" => m_pSocket = "closed"
    /\ context = "terminating" => opc = "closing"
    /\ tpc = "bind" => m_pSocket = "created" /\ context = "open"
    /\ ~m_kill /\ tpc \notin {"none", "bind"} /\ opc # "done" =>
            m_pSocket = "bound" /\ port = "self"

\* A start has returned true only when the thread was running.
StartedInv ==
    (\E k \in DOMAIN results : results[k].call = "startServer" /\ results[k].ok) =>
        m_kill \/ Starting \/ tpc \notin {"none", "bind", "run"}

\* A request that is handled after stop() is the last one.
PromptInv ==
    handledLate > 0 => handledLate = 1 /\ m_kill /\ tpc \notin {"receive", "handle"}

\* What the thread works on, or will, has been sent and not been answered.
RequestInv ==
    /\ \A c \in inbox : request[c] = "delivered"
    /\ tpc \in {"handle", "send"} => cur \in Clients \ inbox /\ request[cur] = "delivered"
    /\ scenario.orderly /\ destroying => \A c \in Clients : left[c] = 0 /\ request[c] = "none"

\* The server has been started in the first call only, and nothing makes its thread
\* end by itself.
Clean ==
    /\ ~scenario.portTaken /\ scenario.garbled = {}
    /\ \A k \in DOMAIN results : results[k].call = "startServer" => k = 1
    /\ Starting => results = <<>>

\* Then the thread is there until it is stopped, and joined.
CleanInv ==
    Clean =>
        /\ tpc = "none" => port = "nobody" /\ ~m_kill
        /\ tpc = "bind" => port = "nobody"
        /\ m_thread = "joinable" /\ ~Ending =>
              /\ ~m_kill /\ opc # "deleting" /\ tpc \notin {"leave", "ended"}
              /\ ~Starting => m_running

IInv ==
    /\ TypeOK /\ OwnerInv /\ ThreadInv /\ SocketInv /\ StartedInv /\ PromptInv /\ RequestInv
    /\ CleanInv /\ CrashOnlyAfterMisuse

\* A call returns: its result is appended.
Returned(ok) ==
    /\ results' \in Results /\ results' # <<>>
    /\ Len(results) \in Nat /\ Len(results') = Len(results) + 1
    /\ \A k \in DOMAIN results : k \in DOMAIN results' /\ results'[k] = results[k]
    /\ Len(results) + 1 \in DOMAIN results'
    /\ \A k \in DOMAIN results' : k \in DOMAIN results \/ k = Len(results) + 1
    /\ results = <<>> <=> Len(results) = 0
    /\ results'[Len(results) + 1].call = Call /\ (results'[Len(results) + 1].ok <=> ok)

\* Within the plan, a call that returns adds its result to those before.
LEMMA ReturnsAppends ==
  ASSUME TypeOK, HasCall, NEW ok \in BOOLEAN, Returns(ok)
  PROVE  Returned(ok)
<1> DEFINE Result == [call : Calls, ok : BOOLEAN]
           r == [call |-> Call, ok |-> ok]
<1>1. results \in Seq(Result)
  BY Zenon DEF TypeOK, OwnerTypeOK, Results
<1>3. scenario.plan \in Seq(Calls)
  BY ScenariosAssumption DEF TypeOK
<1>4. Call \in Calls
  BY <1>3 DEF HasCall, Call
<1>5. r \in Result
  BY <1>4
<1>6. results' = Append(results, r)
  BY DEF Returns
<1>7. r.call = Call /\ r.ok = ok
  OBVIOUS
<1> HIDE DEF r, Result
<1>8. /\ results' \in Seq(Result)
      /\ Len(results') = Len(results) + 1
      /\ \A k \in 1 .. Len(results) : results'[k] = results[k]
      /\ results'[Len(results) + 1] = r
  BY <1>1, <1>5, <1>6
<1>10. results' \in Results
  BY <1>8 DEF Result, Results
<1> QED
  BY <1>7, <1>8, <1>10 DEF Returned

\* Nothing has been called or sent.
LEMMA InitEstablishesInv == Init => IInv
<1> SUFFICES ASSUME Init PROVE IInv
  OBVIOUS
<1>1. results \in Results
  BY Zenon, EmptySeq DEF Init, Results
<1>2. left \in [Clients -> Nat]
  BY ScenariosAssumption DEF Init
<1>3. TypeOK
  BY <1>1, <1>2 DEF Init, TypeOK, OwnerTypeOK, ThreadTypeOK, SocketTypeOK, ClientTypeOK
<1>4. OwnerInv /\ ThreadInv /\ SocketInv /\ StartedInv /\ PromptInv /\ RequestInv
  BY DEF Init, OwnerInv, ThreadInv, SocketInv, StartedInv, PromptInv, RequestInv, Starting,
     Ending
<1>5. CleanInv /\ CrashOnlyAfterMisuse
  BY DEF Init, CleanInv, Clean, CrashOnlyAfterMisuse
<1> QED
  BY <1>3, <1>4, <1>5 DEF IInv

\* What each part of the invariant is about: a step that leaves it alone keeps the part.
LEMMA OwnerTypeFrame == OwnerTypeOK /\ UNCHANGED <<opc, results, destroying>> => OwnerTypeOK'
  BY DEF OwnerTypeOK

LEMMA ThreadTypeFrame == ThreadTypeOK /\ UNCHANGED <<m_running, m_kill, m_thread, tpc, cur,
     handledLate>> => ThreadTypeOK'
  BY DEF ThreadTypeOK

LEMMA SocketTypeFrame == SocketTypeOK /\ UNCHANGED <<m_pSocket, context, inbox, port>>
     => SocketTypeOK'
  BY DEF SocketTypeOK

LEMMA ClientTypeFrame == ClientTypeOK /\ UNCHANGED <<request, left>> => ClientTypeOK'
  BY DEF ClientTypeOK

LEMMA OwnerFrame == OwnerInv /\ UNCHANGED <<opc, results, destroying, m_kill, tpc, scenario>> =>
     OwnerInv'
  BY DEF OwnerInv, HasCall, Call, Starting, Ending

LEMMA ThreadFrame == ThreadInv /\ UNCHANGED <<m_running, tpc, m_thread, opc, results>> =>
     ThreadInv'
  BY DEF ThreadInv, Starting

LEMMA SocketFrame == SocketInv /\ UNCHANGED <<context, m_pSocket, opc, tpc, m_kill, port>> =>
     SocketInv'
  BY DEF SocketInv

LEMMA StartedFrame == StartedInv /\ UNCHANGED <<results, m_kill, opc, tpc>> => StartedInv'
  BY DEF StartedInv, Starting

LEMMA PromptFrame == PromptInv /\ UNCHANGED <<handledLate, m_kill, tpc>> => PromptInv'
  BY DEF PromptInv

LEMMA RequestFrame == RequestInv /\ UNCHANGED <<inbox, request, tpc, cur, destroying, left,
     scenario>> => RequestInv'
  BY DEF RequestInv

LEMMA CleanFrame == CleanInv /\ UNCHANGED <<results, opc, tpc, port, m_kill, m_thread, m_running,
     scenario>> => CleanInv'
  BY DEF CleanInv, Clean, Starting, Ending

LEMMA CrashFrame == CrashOnlyAfterMisuse /\ UNCHANGED <<crash, results, scenario>> =>
     CrashOnlyAfterMisuse'
  BY DEF CrashOnlyAfterMisuse

\* The thread runs already.
LEMMA StartAgainKeepsInv == IInv /\ StartAgain /\ UNCHANGED scenario => IInv'
<1> SUFFICES ASSUME IInv, StartAgain, UNCHANGED scenario PROVE IInv'
  OBVIOUS
<1> USE DEF IInv, Starting, Ending, StartAgain, ownerVars, threadVars, socketVars, clientVars
<1>r. Returned(TRUE)
  BY ReturnsAppends
<1>c. Clean' => Clean
  BY <1>r DEF Returned, Clean
<1>1. OwnerTypeOK'
  BY <1>r DEF Returned, TypeOK, OwnerTypeOK
<1>2. OwnerInv'
  BY DEF OwnerInv
<1>3. ThreadInv'
  BY <1>r DEF Returned, ThreadInv
<1>4. StartedInv'
  BY DEF StartedInv, ThreadInv
<1>5. CleanInv'
  BY <1>c DEF CleanInv
<1>6. CrashOnlyAfterMisuse'
  BY <1>r DEF Returned, CrashOnlyAfterMisuse, CleanInv
<1>7. (ThreadTypeOK /\ SocketTypeOK /\ ClientTypeOK /\ SocketInv /\ PromptInv /\ RequestInv)'
  BY ThreadTypeFrame, SocketTypeFrame, ClientTypeFrame, SocketFrame, PromptFrame, RequestFrame
     DEF TypeOK
<1> QED
  BY <1>1, <1>2, <1>3, <1>4, <1>5, <1>6, <1>7 DEF TypeOK

\* The new thread starts with a socket of its own; a clean life has had no other.
LEMMA StartServerKeepsInv == IInv /\ StartServer /\ UNCHANGED scenario => IInv'
<1> SUFFICES ASSUME IInv, StartServer, UNCHANGED scenario PROVE IInv'
  OBVIOUS
<1> USE DEF IInv, Starting, Ending, StartServer, OwnerGoto, ownerVars, threadVars, socketVars,
     clientVars
<1>1. OwnerTypeOK'
  BY DEF TypeOK, OwnerTypeOK
<1>2. ThreadTypeOK'
  BY DEF TypeOK, ThreadTypeOK
<1>3. SocketTypeOK'
  BY DEF TypeOK, SocketTypeOK
<1>4. OwnerInv'
  BY DEF OwnerInv, HasCall, Call
<1>5. ThreadInv'
  BY DEF ThreadInv
<1>6. SocketInv'
  BY DEF SocketInv
<1>7. StartedInv'
  BY DEF StartedInv
<1>8. PromptInv'
  BY DEF PromptInv
<1>9. RequestInv'
  BY DEF RequestInv
<1>10. CleanInv'
  BY DEF CleanInv, Clean, ThreadInv
<1>11. (ClientTypeOK /\ CrashOnlyAfterMisuse)'
  BY ClientTypeFrame, CrashFrame DEF TypeOK
<1> QED
  BY <1>1, <1>2, <1>3, <1>4, <1>5, <1>6, <1>7, <1>8, <1>9, <1>10, <1>11 DEF TypeOK

\* The owner has seen the thread run: it has bound the port.
LEMMA StartedKeepsInv == IInv /\ Started /\ UNCHANGED scenario => IInv'
<1> SUFFICES ASSUME IInv, Started, UNCHANGED scenario PROVE IInv'
  OBVIOUS
<1> USE DEF IInv, Starting, Ending, Started, OwnerGoto, ownerVars, threadVars, socketVars,
     clientVars
<1>r. Returned(TRUE)
  BY ReturnsAppends DEF OwnerInv
<1>c. Clean' => Clean
  BY <1>r DEF Returned, Clean, OwnerInv
<1>1. OwnerTypeOK'
  BY <1>r DEF Returned, TypeOK, OwnerTypeOK
<1>2. OwnerInv'
  BY DEF OwnerInv
<1>3. ThreadInv'
  BY <1>r DEF Returned, ThreadInv
<1>4. SocketInv'
  BY DEF SocketInv
<1>5. StartedInv'
  BY DEF StartedInv, ThreadInv
<1>6. CleanInv'
  BY <1>c DEF CleanInv
<1>7. CrashOnlyAfterMisuse'
  BY <1>r DEF Returned, CrashOnlyAfterMisuse
<1>8. (ThreadTypeOK /\ SocketTypeOK /\ ClientTypeOK /\ PromptInv /\ RequestInv)'
  BY ThreadTypeFrame, SocketTypeFrame, ClientTypeFrame, PromptFrame, RequestFrame DEF TypeOK
<1> QED
  BY <1>1, <1>2, <1>3, <1>4, <1>5, <1>6, <1>7, <1>8 DEF TypeOK

\* The wait for the thread changes nothing else.
LEMMA NotStartedYetKeepsInv == IInv /\ NotStartedYet /\ UNCHANGED scenario => IInv'
<1> SUFFICES ASSUME IInv, NotStartedYet, UNCHANGED scenario PROVE IInv'
  OBVIOUS
<1> USE DEF IInv, Starting, Ending, NotStartedYet, OwnerGoto, ownerVars, threadVars, socketVars,
     clientVars
<1>1. OwnerTypeOK'
  BY DEF TypeOK, OwnerTypeOK
<1>2. OwnerInv'
  BY DEF OwnerInv, HasCall, Call
<1>3. ThreadInv'
  BY DEF ThreadInv
<1>4. SocketInv'
  BY DEF SocketInv
<1>5. StartedInv'
  BY DEF StartedInv
<1>6. CleanInv'
  BY DEF CleanInv, Clean
<1>7. (ThreadTypeOK /\ SocketTypeOK /\ ClientTypeOK /\ PromptInv /\ RequestInv /\
     CrashOnlyAfterMisuse)'
  BY ThreadTypeFrame, SocketTypeFrame, ClientTypeFrame, PromptFrame, RequestFrame, CrashFrame
     DEF TypeOK
<1> QED
  BY <1>1, <1>2, <1>3, <1>4, <1>5, <1>6, <1>7 DEF TypeOK

\* A start fails only when m_kill is set, so not in a clean life.
LEMMA StartFailedKeepsInv == IInv /\ StartFailed /\ UNCHANGED scenario => IInv'
<1> SUFFICES ASSUME IInv, StartFailed, UNCHANGED scenario PROVE IInv'
  OBVIOUS
<1> USE DEF IInv, Starting, Ending, StartFailed, OwnerGoto, ownerVars, threadVars, socketVars,
     clientVars
<1>r. m_kill => Returned(FALSE)
  BY ReturnsAppends DEF OwnerInv
<1>c. Clean' => Clean
  <2>1. CASE m_kill
    BY <1>r, <2>1 DEF Returned, Clean, OwnerInv
  <2>2. CASE ~m_kill
    BY <2>2 DEF Clean
  <2> QED
    BY <2>1, <2>2
<1>1. OwnerTypeOK'
  BY <1>r DEF Returned, TypeOK, OwnerTypeOK
<1>2. OwnerInv'
  BY DEF OwnerInv, HasCall, Call
<1>3. ThreadInv'
  BY <1>r DEF Returned, ThreadInv
<1>4. SocketInv'
  BY DEF SocketInv
<1>5. StartedInv'
  BY DEF StartedInv
<1>6. CleanInv'
  BY <1>c DEF CleanInv
<1>7. CrashOnlyAfterMisuse'
  BY <1>r DEF Returned, CrashOnlyAfterMisuse
<1>8. (ThreadTypeOK /\ SocketTypeOK /\ ClientTypeOK /\ PromptInv /\ RequestInv)'
  BY ThreadTypeFrame, SocketTypeFrame, ClientTypeFrame, PromptFrame, RequestFrame DEF TypeOK
<1> QED
  BY <1>1, <1>2, <1>3, <1>4, <1>5, <1>6, <1>7, <1>8 DEF TypeOK

\* An orderly owner finds no request left.
LEMMA DestroyKeepsInv == IInv /\ Destroy /\ UNCHANGED scenario => IInv'
<1> SUFFICES ASSUME IInv, Destroy, UNCHANGED scenario PROVE IInv'
  OBVIOUS
<1> USE DEF IInv, Starting, Ending, Destroy, ownerVars, threadVars, socketVars, clientVars
<1>1. OwnerTypeOK'
  BY DEF TypeOK, OwnerTypeOK
<1>2. OwnerInv'
  BY DEF OwnerInv, HasCall
<1>3. RequestInv'
  BY DEF RequestInv
<1>4. (ThreadTypeOK /\ SocketTypeOK /\ ClientTypeOK /\ ThreadInv /\ SocketInv /\ StartedInv /\
     PromptInv /\ CleanInv /\ CrashOnlyAfterMisuse)'
  BY ThreadTypeFrame, SocketTypeFrame, ClientTypeFrame, ThreadFrame, SocketFrame, StartedFrame,
     PromptFrame, CleanFrame, CrashFrame DEF TypeOK
<1> QED
  BY <1>1, <1>2, <1>3, <1>4 DEF TypeOK

\* The owner goes on to stop only a thread that is in its loop.
LEMMA StopServerKeepsInv == IInv /\ StopServer /\ UNCHANGED scenario => IInv'
<1> SUFFICES ASSUME IInv, StopServer, UNCHANGED scenario PROVE IInv'
  OBVIOUS
<1> USE DEF IInv, Starting, Ending, StopServer, OwnerGoto, Stopping, ownerVars, threadVars,
     socketVars, clientVars
<1>r. ~m_running /\ ~destroying => Returned(TRUE)
  BY ReturnsAppends
<1>1. OwnerTypeOK'
  BY <1>r DEF Returned, TypeOK, OwnerTypeOK
<1>2. ThreadTypeOK'
  BY DEF TypeOK, ThreadTypeOK
<1>3. OwnerInv'
  BY DEF OwnerInv, ThreadInv, HasCall, Call
<1>4. ThreadInv'
  BY <1>r DEF Returned, ThreadInv
<1>5. SocketInv'
  BY DEF SocketInv
<1>6. StartedInv'
  BY <1>r DEF Returned, StartedInv
<1>7. PromptInv'
  BY DEF PromptInv
<1>8. CleanInv'
  BY <1>r DEF Returned, CleanInv, Clean, ThreadInv
<1>9. CrashOnlyAfterMisuse'
  BY <1>r DEF Returned, CrashOnlyAfterMisuse
<1>10. (SocketTypeOK /\ ClientTypeOK /\ RequestInv)'
  BY SocketTypeFrame, ClientTypeFrame, RequestFrame DEF TypeOK
<1> QED
  BY <1>1, <1>2, <1>3, <1>4, <1>5, <1>6, <1>7, <1>8, <1>9, <1>10 DEF TypeOK

\* From now on the thread may close its socket.
LEMMA CloseContextKeepsInv == IInv /\ CloseContext /\ UNCHANGED scenario => IInv'
<1> SUFFICES ASSUME IInv, CloseContext, UNCHANGED scenario PROVE IInv'
  OBVIOUS
<1> USE DEF IInv, Starting, Ending, CloseContext, OwnerGoto, ownerVars, threadVars, socketVars,
     clientVars
<1>1. OwnerTypeOK'
  BY DEF TypeOK, OwnerTypeOK
<1>2. SocketTypeOK'
  BY DEF TypeOK, SocketTypeOK
<1>3. OwnerInv'
  BY DEF OwnerInv, HasCall, Call
<1>4. ThreadInv'
  BY DEF ThreadInv
<1>5. SocketInv'
  BY DEF SocketInv, OwnerInv
<1>6. StartedInv'
  BY DEF StartedInv
<1>7. CleanInv'
  BY DEF CleanInv, OwnerInv
<1>8. (ThreadTypeOK /\ ClientTypeOK /\ PromptInv /\ RequestInv /\ CrashOnlyAfterMisuse)'
  BY ThreadTypeFrame, ClientTypeFrame, PromptFrame, RequestFrame, CrashFrame DEF TypeOK
<1> QED
  BY <1>1, <1>2, <1>3, <1>4, <1>5, <1>6, <1>7, <1>8 DEF TypeOK

\* The socket has been closed, and no thread binds it again.
LEMMA ContextClosedKeepsInv == IInv /\ ContextClosed /\ UNCHANGED scenario => IInv'
<1> SUFFICES ASSUME IInv, ContextClosed, UNCHANGED scenario PROVE IInv'
  OBVIOUS
<1> USE DEF IInv, Starting, Ending, ContextClosed, OwnerGoto, ownerVars, threadVars, socketVars,
     clientVars
<1>1. OwnerTypeOK'
  BY DEF TypeOK, OwnerTypeOK
<1>2. SocketTypeOK'
  BY DEF TypeOK, SocketTypeOK
<1>3. OwnerInv'
  BY DEF OwnerInv, HasCall, Call
<1>4. ThreadInv'
  BY DEF ThreadInv
<1>5. SocketInv'
  BY DEF SocketInv
<1>6. StartedInv'
  BY DEF StartedInv
<1>7. CleanInv'
  BY DEF CleanInv, OwnerInv
<1>8. (ThreadTypeOK /\ ClientTypeOK /\ PromptInv /\ RequestInv /\ CrashOnlyAfterMisuse)'
  BY ThreadTypeFrame, ClientTypeFrame, PromptFrame, RequestFrame, CrashFrame DEF TypeOK
<1> QED
  BY <1>1, <1>2, <1>3, <1>4, <1>5, <1>6, <1>7, <1>8 DEF TypeOK

\* The thread has ended.
LEMMA JoinKeepsInv == IInv /\ Join /\ UNCHANGED scenario => IInv'
<1> SUFFICES ASSUME IInv, Join, UNCHANGED scenario PROVE IInv'
  OBVIOUS
<1> USE DEF IInv, Starting, Ending, Join, OwnerGoto, Stopping, ownerVars, threadVars, socketVars,
     clientVars
<1>r. ~destroying => Returned(TRUE)
  BY ReturnsAppends DEF OwnerInv
<1>1. OwnerTypeOK'
  BY <1>r DEF Returned, TypeOK, OwnerTypeOK
<1>2. ThreadTypeOK'
  BY DEF TypeOK, ThreadTypeOK
<1>3. OwnerInv'
  BY DEF OwnerInv, HasCall
<1>4. ThreadInv'
  BY <1>r DEF Returned, ThreadInv
<1>5. SocketInv'
  BY DEF SocketInv
<1>6. StartedInv'
  BY DEF StartedInv
<1>7. CleanInv'
  BY DEF CleanInv
<1>8. CrashOnlyAfterMisuse'
  BY <1>r DEF Returned, CrashOnlyAfterMisuse
<1>9. (SocketTypeOK /\ ClientTypeOK /\ PromptInv /\ RequestInv)'
  BY SocketTypeFrame, ClientTypeFrame, PromptFrame, RequestFrame DEF TypeOK
<1> QED
  BY <1>1, <1>2, <1>3, <1>4, <1>5, <1>6, <1>7, <1>8, <1>9 DEF TypeOK

\* A thread that is still joinable has ended by itself.
LEMMA DeleteKeepsInv == IInv /\ Delete /\ UNCHANGED scenario => IInv'
<1> SUFFICES ASSUME IInv, Delete, UNCHANGED scenario PROVE IInv'
  OBVIOUS
<1> USE DEF IInv, Starting, Ending, Delete, OwnerGoto, ownerVars, threadVars, socketVars,
     clientVars
<1>d. m_thread = "joinable" => ~Clean
  BY DEF CleanInv
<1>e. \A k \in DOMAIN results : k = 1 \/ k > 1
  <2>2. DOMAIN results = 1 .. Len(results) /\ Len(results) \in Nat
    OBVIOUS
  <2> QED
    BY <2>2
<1>1. OwnerTypeOK'
  BY DEF TypeOK, OwnerTypeOK
<1>2. SocketTypeOK'
  BY DEF TypeOK, SocketTypeOK
<1>3. OwnerInv'
  BY DEF OwnerInv, HasCall
<1>4. ThreadInv'
  BY DEF ThreadInv
<1>5. SocketInv'
  BY DEF SocketInv
<1>6. StartedInv'
  BY DEF StartedInv
<1>7. RequestInv'
  BY DEF RequestInv
<1>8. CleanInv'
  BY DEF CleanInv, Clean
<1>9. CrashOnlyAfterMisuse'
  BY <1>d, <1>e DEF CrashOnlyAfterMisuse, Clean
<1>10. (ThreadTypeOK /\ ClientTypeOK /\ PromptInv)'
  BY ThreadTypeFrame, ClientTypeFrame, PromptFrame DEF TypeOK
<1> QED
  BY <1>1, <1>2, <1>3, <1>4, <1>5, <1>6, <1>7, <1>8, <1>9, <1>10 DEF TypeOK

\* In a clean life nobody has bound the port before.
LEMMA BindKeepsInv == IInv /\ Bind /\ UNCHANGED scenario => IInv'
<1> SUFFICES ASSUME IInv, Bind, UNCHANGED scenario PROVE IInv'
  OBVIOUS
<1> USE DEF IInv, Starting, Ending, Bind, ThreadGoto, ownerVars, threadVars, socketVars,
     clientVars
<1>1. ThreadTypeOK'
  BY DEF TypeOK, ThreadTypeOK
<1>2. SocketTypeOK'
  BY DEF TypeOK, SocketTypeOK
<1>3. OwnerInv'
  BY DEF OwnerInv, HasCall, Call
<1>4. ThreadInv'
  BY DEF ThreadInv
<1>5. SocketInv'
  BY DEF SocketInv
<1>6. StartedInv'
  BY DEF StartedInv
<1>7. PromptInv'
  BY DEF PromptInv
<1>8. RequestInv'
  BY DEF RequestInv
<1>9. CleanInv'
  BY DEF CleanInv, Clean
<1>10. (OwnerTypeOK /\ ClientTypeOK /\ CrashOnlyAfterMisuse)'
  BY OwnerTypeFrame, ClientTypeFrame, CrashFrame DEF TypeOK
<1> QED
  BY <1>1, <1>2, <1>3, <1>4, <1>5, <1>6, <1>7, <1>8, <1>9, <1>10 DEF TypeOK

\* The thread enters its loop.
LEMMA RunKeepsInv == IInv /\ Run /\ UNCHANGED scenario => IInv'
<1> SUFFICES ASSUME IInv, Run, UNCHANGED scenario PROVE IInv'
  OBVIOUS
<1> USE DEF IInv, Starting, Ending, Run, ThreadGoto, ownerVars, threadVars, socketVars, clientVars
<1>1. ThreadTypeOK'
  BY DEF TypeOK, ThreadTypeOK
<1>2. OwnerInv'
  BY DEF OwnerInv, HasCall, Call
<1>3. ThreadInv'
  BY DEF ThreadInv
<1>4. SocketInv'
  BY DEF SocketInv
<1>5. StartedInv'
  BY DEF StartedInv
<1>6. PromptInv'
  BY DEF PromptInv
<1>7. RequestInv'
  BY DEF RequestInv
<1>8. CleanInv'
  BY DEF CleanInv, Clean
<1>9. (OwnerTypeOK /\ SocketTypeOK /\ ClientTypeOK /\ CrashOnlyAfterMisuse)'
  BY OwnerTypeFrame, SocketTypeFrame, ClientTypeFrame, CrashFrame DEF TypeOK
<1> QED
  BY <1>1, <1>2, <1>3, <1>4, <1>5, <1>6, <1>7, <1>8, <1>9 DEF TypeOK

\* A thread that has been told to stop leaves the loop.
LEMMA TestKeepsInv == IInv /\ Test /\ UNCHANGED scenario => IInv'
<1> SUFFICES ASSUME IInv, Test, UNCHANGED scenario PROVE IInv'
  OBVIOUS
<1> USE DEF IInv, Starting, Ending, Test, ThreadGoto, ownerVars, threadVars, socketVars,
     clientVars
<1>1. ThreadTypeOK'
  BY DEF TypeOK, ThreadTypeOK
<1>2. OwnerInv'
  BY DEF OwnerInv, HasCall, Call
<1>3. ThreadInv'
  BY DEF ThreadInv
<1>4. SocketInv'
  BY DEF SocketInv
<1>5. StartedInv'
  BY DEF StartedInv
<1>6. PromptInv'
  BY DEF PromptInv
<1>7. RequestInv'
  BY DEF RequestInv
<1>8. CleanInv'
  BY DEF CleanInv, Clean
<1>9. (OwnerTypeOK /\ SocketTypeOK /\ ClientTypeOK /\ CrashOnlyAfterMisuse)'
  BY OwnerTypeFrame, SocketTypeFrame, ClientTypeFrame, CrashFrame DEF TypeOK
<1> QED
  BY <1>1, <1>2, <1>3, <1>4, <1>5, <1>6, <1>7, <1>8, <1>9 DEF TypeOK

\* What is taken from the inbox is worked on.
LEMMA ReceiveKeepsInv == IInv /\ Receive /\ UNCHANGED scenario => IInv'
<1> SUFFICES ASSUME IInv, Receive, UNCHANGED scenario PROVE IInv'
  OBVIOUS
<1> PICK c \in inbox :
      /\ ThreadGoto("receive", IF c \in scenario.garbled THEN "leave" ELSE "handle")
      /\ inbox' = inbox \ {c}
      /\ cur' = c
      /\ UNCHANGED <<ownerVars, m_running, m_kill, m_thread, m_pSocket, context, port,
                     clientVars, crash, handledLate>>
  BY DEF Receive
<1> c \in Clients
  BY DEF IInv, TypeOK, SocketTypeOK
<1> USE DEF IInv, Starting, Ending, ThreadGoto, ownerVars, threadVars, socketVars, clientVars
<1>1. ThreadTypeOK'
  BY DEF TypeOK, ThreadTypeOK
<1>2. SocketTypeOK'
  BY DEF TypeOK, SocketTypeOK
<1>3. OwnerInv'
  BY DEF OwnerInv, HasCall, Call
<1>4. ThreadInv'
  BY DEF ThreadInv
<1>5. SocketInv'
  BY DEF SocketInv
<1>6. StartedInv'
  BY DEF StartedInv
<1>7. PromptInv'
  BY DEF PromptInv
<1>8. RequestInv'
  BY DEF RequestInv
<1>9. CleanInv'
  BY DEF CleanInv, Clean
<1>10. (OwnerTypeOK /\ ClientTypeOK /\ CrashOnlyAfterMisuse)'
  BY OwnerTypeFrame, ClientTypeFrame, CrashFrame DEF TypeOK
<1> QED
  BY <1>1, <1>2, <1>3, <1>4, <1>5, <1>6, <1>7, <1>8, <1>9, <1>10 DEF TypeOK

\* The context is closing, so the owner is waiting for the socket.
LEMMA ReceiveTermKeepsInv == IInv /\ ReceiveTerm /\ UNCHANGED scenario => IInv'
<1> SUFFICES ASSUME IInv, ReceiveTerm, UNCHANGED scenario PROVE IInv'
  OBVIOUS
<1> USE DEF IInv, Starting, Ending, ReceiveTerm, ThreadGoto, ownerVars, threadVars, socketVars,
     clientVars
<1>1. ThreadTypeOK'
  BY DEF TypeOK, ThreadTypeOK
<1>2. SocketTypeOK'
  BY DEF SocketTypeOK
<1>3. OwnerInv'
  BY DEF OwnerInv, HasCall, Call
<1>4. ThreadInv'
  BY DEF ThreadInv
<1>5. SocketInv'
  BY DEF SocketInv, OwnerInv
<1>6. StartedInv'
  BY DEF StartedInv
<1>7. PromptInv'
  BY DEF PromptInv
<1>8. RequestInv'
  BY DEF RequestInv
<1>9. CleanInv'
  BY DEF CleanInv, SocketInv
<1>10. (OwnerTypeOK /\ ClientTypeOK /\ CrashOnlyAfterMisuse)'
  BY OwnerTypeFrame, ClientTypeFrame, CrashFrame DEF TypeOK
<1> QED
  BY <1>1, <1>2, <1>3, <1>4, <1>5, <1>6, <1>7, <1>8, <1>9, <1>10 DEF TypeOK

\* A request is handled after stop() only if it was taken before; an orderly owner
\* has not begun to destroy the server.
LEMMA HandleKeepsInv == IInv /\ Handle /\ UNCHANGED scenario => IInv'
<1> SUFFICES ASSUME IInv, Handle, UNCHANGED scenario PROVE IInv'
  OBVIOUS
<1>1. /\ tpc = "handle" /\ tpc' = "send"
      /\ UNCHANGED <<ownerVars, m_running, m_kill, m_thread, cur, socketVars, clientVars>>
      /\ destroying => crash' = "pure virtual"
      /\ ~destroying => crash' = crash
  BY DEF Handle, ThreadGoto
<1>2. /\ m_kill => handledLate' = handledLate + 1
      /\ ~m_kill => handledLate' = handledLate
  BY Zenon DEF Handle
<1>3. m_kill \in BOOLEAN /\ handledLate \in Nat /\ (handledLate > 0 => FALSE)
  BY <1>1 DEF IInv, TypeOK, ThreadTypeOK, PromptInv
<1>4. handledLate = 0
  BY <1>3
<1>5. handledLate' \in {0, 1} /\ (handledLate' = 1 => m_kill)
  BY <1>2, <1>4
<1>a. handledLate' \in Nat
  BY <1>5
<1>b. m_kill' <=> m_kill
  BY <1>1, Zenon
<1>6. ThreadTypeOK'
  BY <1>1, <1>a DEF IInv, TypeOK, ThreadTypeOK
<1>7. crash \in {"no", "terminate", "pure virtual"} /\ crash' \in {"no", "terminate",
      "pure virtual"}
  BY <1>1 DEF IInv, TypeOK
<1>8. OwnerInv' /\ ThreadInv'
  BY <1>1 DEF IInv, OwnerInv, ThreadInv, HasCall, Call, Starting, Ending, ownerVars
<1>9. SocketInv' /\ StartedInv'
  BY <1>1 DEF IInv, SocketInv, StartedInv, ownerVars, socketVars
<1>10. PromptInv'
  <2>1. tpc' \notin {"receive", "handle"}
    BY <1>1
  <2>2. handledLate' > 0 => handledLate' = 1
    BY <1>5
  <2> QED
    BY <1>5, <1>b, <2>1, <2>2, Zenon DEF PromptInv
<1>11. RequestInv'
  BY <1>1 DEF IInv, RequestInv, ownerVars, socketVars, clientVars
<1>12. CleanInv'
  BY <1>1 DEF IInv, CleanInv, Clean, Starting, Ending, ownerVars
<1>13. CrashOnlyAfterMisuse'
  <2>1. destroying => ~scenario.orderly
    BY <1>1 DEF IInv, RequestInv
  <2> QED
    BY <1>1, <2>1 DEF IInv, CrashOnlyAfterMisuse, ownerVars
<1>14. (OwnerTypeOK /\ SocketTypeOK /\ ClientTypeOK)'
  BY <1>1, OwnerTypeFrame, SocketTypeFrame, ClientTypeFrame
     DEF IInv, TypeOK, ownerVars, socketVars, clientVars
<1> QED
  BY <1>6, <1>7, <1>8, <1>9, <1>10, <1>11, <1>12, <1>13, <1>14 DEF IInv, TypeOK

\* The request is answered.
LEMMA SendKeepsInv == IInv /\ Send /\ UNCHANGED scenario => IInv'
<1> SUFFICES ASSUME IInv, Send, UNCHANGED scenario PROVE IInv'
  OBVIOUS
<1> USE DEF IInv, Starting, Ending, Send, ThreadGoto, ownerVars, threadVars, socketVars,
     clientVars
<1>1. ThreadTypeOK'
  BY DEF TypeOK, ThreadTypeOK
<1>2. ClientTypeOK'
  BY DEF TypeOK, ClientTypeOK
<1>3. OwnerInv'
  BY DEF OwnerInv, HasCall, Call
<1>4. ThreadInv'
  BY DEF ThreadInv
<1>5. SocketInv'
  BY DEF SocketInv
<1>6. StartedInv'
  BY DEF StartedInv
<1>7. PromptInv'
  BY DEF PromptInv
<1>8. RequestInv'
  BY DEF RequestInv, TypeOK, ClientTypeOK, SocketTypeOK
<1>9. CleanInv'
  BY DEF CleanInv, Clean
<1>10. (OwnerTypeOK /\ SocketTypeOK /\ CrashOnlyAfterMisuse)'
  BY OwnerTypeFrame, SocketTypeFrame, CrashFrame DEF TypeOK
<1> QED
  BY <1>1, <1>2, <1>3, <1>4, <1>5, <1>6, <1>7, <1>8, <1>9, <1>10 DEF TypeOK

\* The loop ends, which in a clean life only the owner brings about.
LEMMA LeaveKeepsInv == IInv /\ Leave /\ UNCHANGED scenario => IInv'
<1> SUFFICES ASSUME IInv, Leave, UNCHANGED scenario PROVE IInv'
  OBVIOUS
<1> USE DEF IInv, Starting, Ending, Leave, ThreadGoto, ownerVars, threadVars, socketVars,
     clientVars
<1>1. ThreadTypeOK'
  BY DEF TypeOK, ThreadTypeOK
<1>2. OwnerInv'
  BY DEF OwnerInv, HasCall, Call
<1>3. ThreadInv'
  BY DEF ThreadInv
<1>4. SocketInv'
  BY DEF SocketInv
<1>5. StartedInv'
  BY DEF StartedInv
<1>6. PromptInv'
  BY DEF PromptInv
<1>7. RequestInv'
  BY DEF RequestInv
<1>8. CleanInv'
  BY DEF CleanInv, Clean
<1>9. (OwnerTypeOK /\ SocketTypeOK /\ ClientTypeOK /\ CrashOnlyAfterMisuse)'
  BY OwnerTypeFrame, SocketTypeFrame, ClientTypeFrame, CrashFrame DEF TypeOK
<1> QED
  BY <1>1, <1>2, <1>3, <1>4, <1>5, <1>6, <1>7, <1>8, <1>9 DEF TypeOK

\* There is nothing to send when an orderly owner destroys the server.
LEMMA SendRequestKeepsInv ==
  ASSUME IInv, NEW c \in Clients, SendRequest(c), UNCHANGED scenario
  PROVE  IInv'
<1> USE DEF IInv, Starting, Ending, SendRequest, ownerVars, threadVars, socketVars, clientVars
<1>l. left' \in [Clients -> Nat] /\ left[c] > 0 /\ \A d \in Clients \ {c} : left'[d] = left[d]
  <2>1. left \in [Clients -> Nat] /\ left[c] > 0 /\ left' = [left EXCEPT ![c] = left[c] - 1]
    BY Zenon DEF TypeOK, ClientTypeOK
  <2> HIDE DEF SendRequest
  <2> QED
    BY <2>1
<1>1. ClientTypeOK'
  BY <1>l DEF TypeOK, ClientTypeOK
<1>2. RequestInv'
  <2>1. /\ request[c] = "none"
        /\ request \in [Clients -> {"none", "sent", "delivered"} \cup Answers]
        /\ request' = [request EXCEPT ![c] = "sent"]
        /\ UNCHANGED <<inbox, tpc, cur, destroying>>
        /\ inbox \subseteq Clients
    BY DEF TypeOK, ClientTypeOK, SocketTypeOK
  <2>2. ~(scenario.orderly /\ destroying)
    BY DEF RequestInv
  <2> HIDE DEF SendRequest
  <2> QED
    BY <2>1, <2>2 DEF RequestInv
<1>3. (OwnerTypeOK /\ ThreadTypeOK /\ SocketTypeOK /\ OwnerInv /\ ThreadInv /\ SocketInv /\
     StartedInv /\ PromptInv /\ CleanInv /\ CrashOnlyAfterMisuse)'
  BY OwnerTypeFrame, ThreadTypeFrame, SocketTypeFrame, OwnerFrame, ThreadFrame, SocketFrame,
     StartedFrame, PromptFrame, CleanFrame, CrashFrame DEF TypeOK
<1> QED
  BY <1>1, <1>2, <1>3 DEF TypeOK

\* The client is ready for its next request.
LEMMA TakeAnswerKeepsInv ==
  ASSUME IInv, NEW c \in Clients, TakeAnswer(c), UNCHANGED scenario
  PROVE  IInv'
<1> USE DEF IInv, Starting, Ending, TakeAnswer, ownerVars, threadVars, socketVars, clientVars
<1>1. ClientTypeOK'
  BY DEF TypeOK, ClientTypeOK
<1>2. RequestInv'
  BY DEF RequestInv, Answers
<1>3. (OwnerTypeOK /\ ThreadTypeOK /\ SocketTypeOK /\ OwnerInv /\ ThreadInv /\ SocketInv /\
     StartedInv /\ PromptInv /\ CleanInv /\ CrashOnlyAfterMisuse)'
  BY OwnerTypeFrame, ThreadTypeFrame, SocketTypeFrame, OwnerFrame, ThreadFrame, SocketFrame,
     StartedFrame, PromptFrame, CleanFrame, CrashFrame DEF TypeOK
<1> QED
  BY <1>1, <1>2, <1>3 DEF TypeOK

\* The request gets to the inbox, or is lost with a forgotten socket.
LEMMA DeliverKeepsInv ==
  ASSUME IInv, NEW c \in Clients, Deliver(c), UNCHANGED scenario
  PROVE  IInv'
<1> USE DEF IInv, Starting, Ending, Deliver, ownerVars, threadVars, socketVars, clientVars
<1>1. SocketTypeOK'
  BY DEF TypeOK, SocketTypeOK
<1>2. ClientTypeOK'
  BY DEF TypeOK, ClientTypeOK
<1>3. RequestInv'
  BY DEF RequestInv, TypeOK, ClientTypeOK, SocketTypeOK
<1>4. (OwnerTypeOK /\ ThreadTypeOK /\ OwnerInv /\ ThreadInv /\ SocketInv /\ StartedInv /\
     PromptInv /\ CleanInv /\ CrashOnlyAfterMisuse)'
  BY OwnerTypeFrame, ThreadTypeFrame, OwnerFrame, ThreadFrame, SocketFrame, StartedFrame,
     PromptFrame, CleanFrame, CrashFrame DEF TypeOK
<1> QED
  BY <1>1, <1>2, <1>3, <1>4 DEF TypeOK

\* Every step keeps the invariant.
LEMMA NextKeepsInv == IInv /\ [Next]_vars => IInv'
<1> SUFFICES ASSUME IInv, [Next]_vars PROVE IInv'
  OBVIOUS
<1>1. CASE Owner /\ UNCHANGED scenario
  BY <1>1, StartAgainKeepsInv, StartServerKeepsInv, StartedKeepsInv, NotStartedYetKeepsInv,
     StartFailedKeepsInv, StopServerKeepsInv, CloseContextKeepsInv, ContextClosedKeepsInv,
     JoinKeepsInv, DestroyKeepsInv, DeleteKeepsInv DEF Owner
<1>2. CASE Server /\ UNCHANGED scenario
  BY <1>2, BindKeepsInv, RunKeepsInv, TestKeepsInv, ReceiveKeepsInv, ReceiveTermKeepsInv,
     HandleKeepsInv, SendKeepsInv, LeaveKeepsInv DEF Server
<1>3. ASSUME NEW c \in Clients, Client(c) \/ Deliver(c), UNCHANGED scenario PROVE IInv'
  BY <1>3, SendRequestKeepsInv, TakeAnswerKeepsInv, DeliverKeepsInv DEF Client
<1>4. CASE UNCHANGED vars
  <2>1. UNCHANGED <<scenario, crash>> /\ UNCHANGED ownerVars /\ UNCHANGED threadVars
        /\ UNCHANGED socketVars /\ UNCHANGED clientVars /\ UNCHANGED handledLate
    BY <1>4 DEF vars, progress
  <2>2. TypeOK'
    BY <2>1, OwnerTypeFrame, ThreadTypeFrame, SocketTypeFrame, ClientTypeFrame
       DEF IInv, TypeOK, ownerVars, threadVars, socketVars, clientVars
  <2> QED
    BY <2>1, <2>2, OwnerFrame, ThreadFrame, SocketFrame, StartedFrame, PromptFrame,
       RequestFrame, CleanFrame, CrashFrame DEF IInv, ownerVars, threadVars, socketVars,
       clientVars
<1> QED
  BY <1>1, <1>2, <1>3, <1>4 DEF Next

\* The strengthened invariant of a server's life.
THEOREM InvariantHolds == Spec => []IInv
<1> QED
  BY InitEstablishesInv, NextKeepsInv, PTL DEF Spec

\* A start that returned true means a bound socket, a stop is prompt, and only misuse
\* ends the program: for any number of clients and any plan of the owner.
THEOREM ProtoServerInvHolds == Spec => []ProtoServerInv
<1>1. IInv => ProtoServerInv
  <2> SUFFICES ASSUME IInv PROVE ProtoServerInv
    OBVIOUS
  <2>1. StartedMeansBound
    BY DEF IInv, StartedMeansBound, StartedInv, SocketInv, Starting
  <2>2. StopIsPrompt
    <3>1. handledLate \in Nat /\ (handledLate > 0 => handledLate = 1)
      BY Zenon DEF IInv, PromptInv, TypeOK, ThreadTypeOK
    <3> QED
      BY <3>1 DEF StopIsPrompt
  <2> QED
    BY <2>1, <2>2 DEF IInv, ProtoServerInv, ThreadInv, SocketInv
<1> QED
  BY <1>1, InvariantHolds, PTL
==============================================================================
