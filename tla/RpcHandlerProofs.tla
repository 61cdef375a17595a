---------------------------- MODULE RpcHandlerProofs ----------------------------
(***************************************************************************)
(* The handler's ring and the card agree on the buffer of every message,   *)
(* messages are handled once and in order, and the handler's end is clean: *)
(* for any ring whose length divides the range of its index                *)
(* (RingAssumption), any number of clients and messages, and any calls of  *)
(* the owner.                                                              *)
(***************************************************************************)
EXTENDS RpcHandler, FiniteSetTheorems, SequenceTheorems, TLAPS

Starting == opc \in {"starting", "startFailed?"}
Ending == opc \in {"stopping", "joining"}
Holding == tpc \in {"found", "handle", "repost"}
Handling == tpc \in {"found", "handle"}

\* The owner works off its plan; only a stop sets m_kill and clears m_poll.
OwnerInv ==
    /\ Starting => HasCall /\ Call = "startHandler" /\ m_thread = "joinable"
    /\ Ending => HasCall /\ Call = "stopHandler" /\ m_kill
    /\ m_kill => Ending \/ \E k \in DOMAIN results : results[k].call = "stopHandler"
    /\ ~m_poll => m_kill /\ opc = "joining"
    /\ ended # "no" => opc = "done"

\* m_processing is set while the thread is in its loop.
ThreadInv ==
    /\ m_processing <=> tpc \in {"test", "poll", "found", "handle", "repost", "leave"}
    /\ m_thread = "none" <=> tpc = "none"
    /\ m_thread = "joined" => tpc = "ended"
    /\ tpc \in {"leave", "ended"} => m_kill
    /\ Len(wc) = (IF Holding THEN 1 ELSE 0)

\* No start has come after a stop.
NoStop == \A k \in DOMAIN results : results[k].call # "stopHandler"
Once ==
    /\ ~ \E j, k \in DOMAIN results :
            j < k /\ results[j].call = "stopHandler" /\ results[k].call = "startHandler"
    /\ Starting => NoStop

\* Then a thread that can be joined is in its loop until it is stopped.
OnceInv ==
    /\ Once /\ m_thread = "joinable" /\ (opc = "idle" \/ Starting) =>
          NoStop /\ ~m_kill /\ (opc = "idle" => m_processing)
    /\ ended = "terminate" => NoStop \/ ~Once

\* Messages arrive one at a time from each client.
Writing == {c \in Clients : arriving[c] # NoBuffer}
SentInv ==
    \A c \in Clients :
        /\ sent[c] <= scenario.messages[c] /\ arrived[c] <= sent[c]
        /\ c \in Writing => arrived[c] > 0 /\ scenario.packets = 2

\* Every buffer is posted, being written to, reported or held by the handler.
Filled == Len(cq) + Cardinality(Writing)
CountInv == Len(srq) + Filled + Len(wc) = MaxMsgs

\* Slot[k]: the k-th buffer from the next one of the ring.
Position == IF tpc = "found" THEN m_index + 1 ELSE m_index
Slot == [k \in 1 .. MaxMsgs + 1 |-> (Position + k - 1) % MaxMsgs]

\* Receives are posted in the order of the ring, and the handler holds its last buffer.
RingInv ==
    /\ \A k \in 1 .. Len(srq) : srq[k] = Slot[Filled + k]
    /\ tpc \in {"handle", "repost"} => message = Slot[MaxMsgs]

\* So are completions, if they come in that order: the handler holds the right buffer.
AlignedInv ==
    InOrder =>
        /\ \A k \in 1 .. Len(cq) : cq[k].buf = Slot[k]
        /\ \A c \in Writing : arriving[c] = Slot[Len(cq) + 1]
        /\ Holding => wc[1].buf = Slot[MaxMsgs]

\* What has been received is in its buffer until it has been handled.
ContentInv ==
    InOrder =>
        /\ \A k \in 1 .. Len(cq) : content[cq[k].buf] = cq[k].msg
        /\ Handling => content[wc[1].buf] = wc[1].msg

\* The sender is set unless the handler has been told to stop.
SenderInv ==
    /\ tpc = "found" => ibAddr = Unset
    /\ tpc = "handle" => ibAddr = wc[1].sender \/ (ibAddr = Unset /\ m_kill)

\* The messages of a client that the handler has taken, and those that are complete.
Taken == [c \in Clients |->
    IF Handling /\ wc[1].sender = c THEN Len(handled[c]) + 1 ELSE Len(handled[c])]
Completed == [c \in Clients |-> IF c \in Writing THEN arrived[c] - 1 ELSE arrived[c]]

\* Those in between are reported, in order and once.
OrderInv ==
    InOrder =>
        /\ \A c \in Clients : \A k \in DOMAIN handled[c] : handled[c][k] = k
        /\ Handling => wc[1].msg = <<wc[1].sender, Taken[wc[1].sender]>>
        /\ \A k \in 1 .. Len(cq) :
              /\ cq[k].msg = <<cq[k].sender, cq[k].msg[2]>>
              /\ cq[k].msg[2] \in Taken[cq[k].sender] + 1 .. Completed[cq[k].sender]
        /\ \A j, k \in 1 .. Len(cq) :
              j < k /\ cq[j].sender = cq[k].sender => cq[j].msg[2] < cq[k].msg[2]
        /\ \A c \in Clients : \A n \in Taken[c] + 1 .. Completed[c] :
              \E k \in 1 .. Len(cq) : cq[k].msg = <<c, n>>

\* The buffers that the ring will reach before they are posted again, and those of them
\* with a message of c: in whatever order completions come, none is handled twice.
Unhandled == {Slot[k] : k \in 1 .. Filled} \cup (IF Handling THEN {Slot[MaxMsgs]} ELSE {})
Waiting == [c \in Clients |-> {b \in Unhandled : content[b] # NoMessage /\ content[b][1] = c}]
HandledOnceInv ==
    \A c \in Clients : Len(handled[c]) + Cardinality(Waiting[c]) <= Completed[c]

\* An orderly owner ends when everything has arrived.
EndInv ==
    /\ scenario.orderly /\ ended # "no" =>
          \A c \in Clients \ broken : arrived[c] = scenario.messages[c]
    /\ lateWrite => ~scenario.orderly

CardInv ==
    /\ SentInv /\ CountInv /\ RingInv /\ AlignedInv /\ ContentInv /\ SenderInv /\ OrderInv
    /\ HandledOnceInv

IInv == TypeOK /\ OwnerInv /\ ThreadInv /\ OnceInv /\ CardInv /\ EndInv

-----------------------------------------------------------------------------
\* What % and \div mean.
LEMMA DivMod ==
  ASSUME NEW a \in Int, NEW n \in Nat \ {0}
  PROVE  /\ a % n \in 0 .. n - 1 /\ a \div n \in Int
         /\ a = n * (a \div n) + (a % n)
  OBVIOUS

\* A number with remainder r.
LEMMA ModIs ==
  ASSUME NEW n \in Nat \ {0}, NEW q \in Int, NEW r \in 0 .. n - 1
  PROVE  (n * q + r) % n = r
  OBVIOUS

\* One round of the ring.
LEMMA ModShift ==
  ASSUME NEW n \in Nat \ {0}, NEW a \in Int
  PROVE  (a + n) % n = a % n
<1> DEFINE q == a \div n
           r == a % n
<1>1. r \in 0 .. n - 1 /\ q \in Int /\ a = n * q + r
  BY DivMod
<1> HIDE DEF q, r
<1>2. PICK p \in Int : p = q + 1
  BY <1>1
<1>3. (n * p + r) % n = r
  BY <1>1, ModIs
<1>4. a + n = n * p + r
  BY <1>1, <1>2
<1> QED
  BY <1>3, <1>4 DEF r

\* A modulus that n divides does not change the remainder: m_index may overflow.
LEMMA ModMod ==
  ASSUME NEW n \in Nat \ {0}, NEW m \in Nat \ {0}, m % n = 0, NEW a \in Nat, NEW b \in Int
  PROVE  ((a % m) + b) % n = (a + b) % n
<1> DEFINE q == m \div n
           p == a \div m
           s == (a % m) + b
           t == s \div n
<1>1. q \in Int /\ m = n * q
  BY DivMod
<1>2. a % m \in 0 .. m - 1 /\ p \in Int /\ a = m * p + (a % m)
  BY DivMod
<1>3. s \in Int
  BY <1>2
<1>4. t \in Int /\ s % n \in 0 .. n - 1 /\ s = n * t + (s % n)
  BY <1>3, DivMod
<1> HIDE DEF q, p, s, t
<1>5. a + b = m * p + s
  BY <1>2, <1>3 DEF s
<1>6. m * p = n * (q * p)
  BY <1>1, <1>2
<1>7. n * (q * p) + n * t = n * (q * p + t)
  BY <1>1, <1>2, <1>4
<1>8. a + b = n * (q * p + t) + (s % n)
  BY <1>1, <1>2, <1>4, <1>5, <1>6, <1>7
<1>9. PICK u \in Int : u = q * p + t
  BY <1>1, <1>2, <1>4
<1>10. (n * u + (s % n)) % n = s % n
  BY <1>4, ModIs
<1> QED
  BY <1>8, <1>9, <1>10 DEF s

\* n numbers in a row have different remainders.
LEMMA ModInjective ==
  ASSUME NEW n \in Nat \ {0}, NEW a \in Int, NEW i \in 1 .. n, NEW j \in 1 .. n,
         (a + i) % n = (a + j) % n
  PROVE  i = j
<1> DEFINE r == (a + i) % n
           s == (a + j) % n
           p == (a + i) \div n
           q == (a + j) \div n
<1>1. r \in 0 .. n - 1 /\ p \in Int /\ a + i = n * p + r
  BY DivMod
<1>2. s \in 0 .. n - 1 /\ q \in Int /\ a + j = n * q + s
  BY DivMod
<1>3. r = s
  OBVIOUS
<1> HIDE DEF r, s, p, q
<1>4. i - j = n * (p - q)
  BY <1>1, <1>2, <1>3
<1>5. p - q \in Int /\ i - j < n /\ j - i < n
  BY <1>1, <1>2
<1>6. p - q = 0
  BY <1>4, <1>5
<1> QED
  BY <1>1, <1>2, <1>3, <1>6

-----------------------------------------------------------------------------
(***************************************************************************)
(* The owner and the thread's start and end                                *)
(***************************************************************************)
\* A call returns: its result is appended.
Returned ==
    /\ results' \in Results
    /\ Len(results) \in Nat /\ Len(results') = Len(results) + 1
    /\ DOMAIN results = 1 .. Len(results) /\ DOMAIN results' = 1 .. Len(results) + 1
    /\ \A k \in 1 .. Len(results) : results'[k] = results[k]
    /\ results'[Len(results) + 1].call = Call

\* Within the plan, a call that returns adds its result to those before.
LEMMA ReturnsAppends ==
  ASSUME TypeOK, HasCall, NEW ok \in BOOLEAN, Returns(ok)
  PROVE  Returned
<1> DEFINE Result == [call : Calls, ok : BOOLEAN]
           r == [call |-> Call, ok |-> ok]
<1>1. results \in Seq(Result)
  BY Zenon DEF TypeOK, OwnerTypeOK, Results
<1>2. Len(results) \in Nat /\ DOMAIN results = 1 .. Len(results)
  BY <1>1, LenProperties
<1>3. scenario.plan \in Seq(Calls)
  BY ScenariosAssumption DEF TypeOK
<1>4. Call \in Calls
  BY <1>2, <1>3 DEF HasCall, Call
<1>5. r \in Result
  BY <1>4
<1>6. results' = Append(results, r)
  BY DEF Returns
<1>7. r.call = Call
  OBVIOUS
<1> HIDE DEF r, Result
<1>8. /\ results' \in Seq(Result)
      /\ Len(results') = Len(results) + 1
      /\ \A k \in 1 .. Len(results) : results'[k] = results[k]
      /\ results'[Len(results) + 1] = r
  BY <1>1, <1>5, <1>6, AppendProperties
<1>9. DOMAIN results' = 1 .. Len(results')
  BY <1>8, LenProperties
<1>10. results' \in Results
  BY <1>8 DEF Result, Results
<1> QED
  BY <1>2, <1>7, <1>8, <1>9, <1>10 DEF Returned

\* What each part of the invariant is about: a step that leaves it alone keeps the part.
LEMMA OwnerTypeFrame == OwnerTypeOK /\ UNCHANGED ownerVars => OwnerTypeOK'
  BY DEF OwnerTypeOK, ownerVars

LEMMA ThreadTypeFrame == ThreadTypeOK /\ UNCHANGED threadVars => ThreadTypeOK'
  BY DEF ThreadTypeOK, threadVars

LEMMA LoopTypeFrame == LoopTypeOK /\ UNCHANGED loopVars => LoopTypeOK'
  BY DEF LoopTypeOK, loopVars

LEMMA CardTypeFrame == CardTypeOK /\ UNCHANGED cardVars => CardTypeOK'
  BY DEF CardTypeOK, cardVars

LEMMA ClientTypeFrame ==
  ClientTypeOK /\ UNCHANGED <<clientVars, historyVars>> => ClientTypeOK'
  BY DEF ClientTypeOK, clientVars, historyVars

LEMMA OwnerFrame ==
  OwnerInv /\ UNCHANGED <<scenario, ownerVars, m_poll, m_kill, m_thread>> => OwnerInv'
  BY DEF OwnerInv, ownerVars, HasCall, Call, Starting, Ending

LEMMA ThreadFrame == ThreadInv /\ UNCHANGED <<m_processing, m_kill, m_thread, tpc, wc>> => ThreadInv'
  BY DEF ThreadInv, Holding

LEMMA OnceFrame ==
  OnceInv /\ UNCHANGED <<ownerVars, m_processing, m_kill, m_thread>> => OnceInv'
  BY DEF OnceInv, Once, NoStop, Starting, ownerVars

LEMMA EndFrame == EndInv /\ UNCHANGED <<scenario, ended, clientVars, lateWrite>> => EndInv'
  BY DEF EndInv, clientVars

\* The ring and the card are not disturbed by steps of the thread outside of the loop's
\* middle, nor by the owner, who only sets m_kill.
LEMMA CardFrame ==
  ASSUME CardInv, UNCHANGED <<scenario, loopVars, cardVars, clientVars, handled>>,
         tpc' = tpc \/ (~Holding /\ ~Holding'), m_kill => m_kill'
  PROVE  CardInv'
<1> USE DEF CardInv, loopVars, cardVars, clientVars, Holding, Handling
<1>1. UNCHANGED <<Writing, Filled, Handling, Slot, InOrder>>
  BY DEF Writing, Filled, Slot, Position, InOrder
<1>2. UNCHANGED <<Taken, Completed, Unhandled, Waiting>>
  BY <1>1 DEF Taken, Completed, Unhandled, Waiting
<1>3. SentInv' /\ CountInv'
  BY <1>1 DEF SentInv, CountInv
<1>4. RingInv'
  BY <1>1 DEF RingInv
<1>5. AlignedInv'
  BY <1>1 DEF AlignedInv
<1>6. ContentInv'
  BY <1>1 DEF ContentInv
<1>7. SenderInv'
  BY DEF SenderInv
<1>8. OrderInv'
  BY <1>1, <1>2 DEF OrderInv
<1>9. HandledOnceInv'
  BY <1>2 DEF HandledOnceInv
<1> QED
  BY <1>3, <1>4, <1>5, <1>6, <1>7, <1>8, <1>9

\* No step of the owner disturbs the ring and the card.
LEMMA OwnerKeepsCard == IInv /\ Owner /\ UNCHANGED scenario => CardInv'
<1> SUFFICES ASSUME IInv, Owner, UNCHANGED scenario PROVE CardInv'
  OBVIOUS
<1>1. tpc' = tpc \/ (~Holding /\ ~Holding')
  BY DEF Owner, StartAgain, StartHandler, Started, NotStartedYet, StartFailed, StopIdle,
     StopHandler, StopPolling, Join, Destroy, threadVars, Holding
<1>2. m_kill => m_kill'
  BY DEF Owner, StartAgain, StartHandler, Started, NotStartedYet, StartFailed, StopIdle,
     StopHandler, StopPolling, Join, Destroy, threadVars
<1> QED
  BY <1>1, <1>2, CardFrame DEF IInv, Owner, historyVars

\* What the owner's steps may disturb besides EndInv.
OwnerPartOK == OwnerTypeOK /\ ThreadTypeOK /\ OwnerInv /\ ThreadInv /\ OnceInv

\* The thread runs already.
LEMMA StartAgainKeepsInv == IInv /\ StartAgain /\ UNCHANGED <<scenario, wc>> => OwnerPartOK'
<1> SUFFICES ASSUME IInv, StartAgain, UNCHANGED <<scenario, wc>> PROVE OwnerPartOK'
  OBVIOUS
<1> USE DEF IInv, Starting, Ending, StartAgain, OwnerGoto, threadVars
<1>r. Returned
  BY ReturnsAppends
<1>1. OwnerTypeOK'
  BY <1>r DEF Returned, TypeOK, OwnerTypeOK
<1>2. ThreadTypeOK'
  BY <1>r DEF Returned, TypeOK, ThreadTypeOK
<1>3. OwnerInv'
  BY <1>r DEF Returned, OwnerInv, ThreadInv, HasCall, Call
<1>4. ThreadInv'
  BY <1>r DEF Returned, ThreadInv, OwnerInv, Holding
<1>5. OnceInv'
  BY <1>r DEF Returned, OnceInv, Once, NoStop, OwnerInv, ThreadInv, TypeOK, OwnerTypeOK, ThreadTypeOK
<1> QED
  BY <1>1, <1>2, <1>3, <1>4, <1>5 DEF OwnerPartOK

\* A new thread.
LEMMA StartHandlerKeepsInv == IInv /\ StartHandler /\ UNCHANGED <<scenario, wc>> => OwnerPartOK'
<1> SUFFICES ASSUME IInv, StartHandler, UNCHANGED <<scenario, wc>> PROVE OwnerPartOK'
  OBVIOUS
<1> USE DEF IInv, Starting, Ending, StartHandler, OwnerGoto, threadVars
<1>1. OwnerTypeOK'
  BY DEF TypeOK, OwnerTypeOK
<1>2. ThreadTypeOK'
  BY DEF TypeOK, ThreadTypeOK
<1>3. OwnerInv'
  BY DEF OwnerInv, ThreadInv, HasCall, Call
<1>4. ThreadInv'
  BY DEF ThreadInv, OwnerInv, Holding
<1>5. OnceInv'
  BY DEF OnceInv, Once, NoStop, OwnerInv, ThreadInv, TypeOK, OwnerTypeOK, ThreadTypeOK
<1> QED
  BY <1>1, <1>2, <1>3, <1>4, <1>5 DEF OwnerPartOK

\* The owner has seen the thread run.
LEMMA StartedKeepsInv == IInv /\ Started /\ UNCHANGED <<scenario, wc>> => OwnerPartOK'
<1> SUFFICES ASSUME IInv, Started, UNCHANGED <<scenario, wc>> PROVE OwnerPartOK'
  OBVIOUS
<1> USE DEF IInv, Starting, Ending, Started, OwnerGoto, threadVars
<1>r. Returned
  BY ReturnsAppends DEF OwnerInv
<1>1. OwnerTypeOK'
  BY <1>r DEF Returned, TypeOK, OwnerTypeOK
<1>2. ThreadTypeOK'
  BY <1>r DEF Returned, TypeOK, ThreadTypeOK
<1>3. OwnerInv'
  BY <1>r DEF Returned, OwnerInv, ThreadInv, HasCall, Call
<1>4. ThreadInv'
  BY <1>r DEF Returned, ThreadInv, OwnerInv, Holding
<1>5. OnceInv'
  BY <1>r DEF Returned, OnceInv, Once, NoStop, OwnerInv, ThreadInv, TypeOK, OwnerTypeOK, ThreadTypeOK
<1> QED
  BY <1>1, <1>2, <1>3, <1>4, <1>5 DEF OwnerPartOK

\* It has not, yet.
LEMMA NotStartedYetKeepsInv == IInv /\ NotStartedYet /\ UNCHANGED <<scenario, wc>> => OwnerPartOK'
<1> SUFFICES ASSUME IInv, NotStartedYet, UNCHANGED <<scenario, wc>> PROVE OwnerPartOK'
  OBVIOUS
<1> USE DEF IInv, Starting, Ending, NotStartedYet, OwnerGoto, threadVars
<1>1. OwnerTypeOK'
  BY DEF TypeOK, OwnerTypeOK
<1>2. ThreadTypeOK'
  BY DEF TypeOK, ThreadTypeOK
<1>3. OwnerInv'
  BY DEF OwnerInv, ThreadInv, HasCall, Call
<1>4. ThreadInv'
  BY DEF ThreadInv, OwnerInv, Holding
<1>5. OnceInv'
  BY DEF OnceInv, Once, NoStop, OwnerInv, ThreadInv, TypeOK, OwnerTypeOK, ThreadTypeOK
<1> QED
  BY <1>1, <1>2, <1>3, <1>4, <1>5 DEF OwnerPartOK

\* There is no thread in its loop.
LEMMA StopIdleKeepsInv == IInv /\ StopIdle /\ UNCHANGED <<scenario, wc>> => OwnerPartOK'
<1> SUFFICES ASSUME IInv, StopIdle, UNCHANGED <<scenario, wc>> PROVE OwnerPartOK'
  OBVIOUS
<1> USE DEF IInv, Starting, Ending, StopIdle, OwnerGoto, threadVars
<1>r. Returned
  BY ReturnsAppends
<1>1. OwnerTypeOK'
  BY <1>r DEF Returned, TypeOK, OwnerTypeOK
<1>2. ThreadTypeOK'
  BY <1>r DEF Returned, TypeOK, ThreadTypeOK
<1>3. OwnerInv'
  BY <1>r DEF Returned, OwnerInv, ThreadInv, HasCall, Call
<1>4. ThreadInv'
  BY <1>r DEF Returned, ThreadInv, OwnerInv, Holding
<1>5. OnceInv'
  BY <1>r DEF Returned, OnceInv, Once, NoStop, OwnerInv, ThreadInv, TypeOK, OwnerTypeOK, ThreadTypeOK
<1> QED
  BY <1>1, <1>2, <1>3, <1>4, <1>5 DEF OwnerPartOK

\* The thread is told to stop, and stays joinable until it is joined.
LEMMA StopHandlerKeepsInv == IInv /\ StopHandler /\ UNCHANGED <<scenario, wc>> => OwnerPartOK'
<1> SUFFICES ASSUME IInv, StopHandler, UNCHANGED <<scenario, wc>> PROVE OwnerPartOK'
  OBVIOUS
<1> USE DEF IInv, Starting, Ending, StopHandler, OwnerGoto, threadVars
<1>1. OwnerTypeOK'
  BY DEF TypeOK, OwnerTypeOK
<1>2. ThreadTypeOK'
  BY DEF TypeOK, ThreadTypeOK
<1>3. OwnerInv'
  BY DEF OwnerInv, ThreadInv, HasCall, Call
<1>4. ThreadInv'
  BY DEF ThreadInv, OwnerInv, Holding
<1>5. OnceInv'
  BY DEF OnceInv, Once, NoStop, OwnerInv, ThreadInv, TypeOK, OwnerTypeOK, ThreadTypeOK
<1> QED
  BY <1>1, <1>2, <1>3, <1>4, <1>5 DEF OwnerPartOK

\* It no longer waits for messages.
LEMMA StopPollingKeepsInv == IInv /\ StopPolling /\ UNCHANGED <<scenario, wc>> => OwnerPartOK'
<1> SUFFICES ASSUME IInv, StopPolling, UNCHANGED <<scenario, wc>> PROVE OwnerPartOK'
  OBVIOUS
<1> USE DEF IInv, Starting, Ending, StopPolling, OwnerGoto, threadVars
<1>1. OwnerTypeOK'
  BY DEF TypeOK, OwnerTypeOK
<1>2. ThreadTypeOK'
  BY DEF TypeOK, ThreadTypeOK
<1>3. OwnerInv'
  BY DEF OwnerInv, ThreadInv, HasCall, Call
<1>4. ThreadInv'
  BY DEF ThreadInv, OwnerInv, Holding
<1>5. OnceInv'
  BY DEF OnceInv, Once, NoStop, OwnerInv, ThreadInv, TypeOK, OwnerTypeOK, ThreadTypeOK
<1> QED
  BY <1>1, <1>2, <1>3, <1>4, <1>5 DEF OwnerPartOK

\* It has ended.
LEMMA JoinKeepsInv == IInv /\ Join /\ UNCHANGED <<scenario, wc>> => OwnerPartOK'
<1> SUFFICES ASSUME IInv, Join, UNCHANGED <<scenario, wc>> PROVE OwnerPartOK'
  OBVIOUS
<1> USE DEF IInv, Starting, Ending, Join, OwnerGoto, threadVars
<1>r. Returned
  BY ReturnsAppends DEF OwnerInv
<1>1. OwnerTypeOK'
  BY <1>r DEF Returned, TypeOK, OwnerTypeOK
<1>2. ThreadTypeOK'
  BY <1>r DEF Returned, TypeOK, ThreadTypeOK
<1>3. OwnerInv'
  BY <1>r DEF Returned, OwnerInv, ThreadInv, HasCall, Call
<1>4. ThreadInv'
  BY <1>r DEF Returned, ThreadInv, OwnerInv, Holding
<1>5. OnceInv'
  BY <1>r DEF Returned, OnceInv, Once, NoStop, OwnerInv, ThreadInv, TypeOK, OwnerTypeOK, ThreadTypeOK
<1> QED
  BY <1>1, <1>2, <1>3, <1>4, <1>5 DEF OwnerPartOK

\* A start fails only when m_kill is set: a stop has been called before.
LEMMA StartFailedKeepsInv == IInv /\ StartFailed /\ UNCHANGED <<scenario, wc>> => OwnerPartOK'
<1> SUFFICES ASSUME IInv, StartFailed, UNCHANGED <<scenario, wc>> PROVE OwnerPartOK'
  OBVIOUS
<1> USE DEF IInv, Starting, Ending, StartFailed, OwnerGoto, threadVars
<1>1. CASE m_kill
  <2>r. Returned
    BY <1>1, ReturnsAppends DEF OwnerInv
  <2>1. OwnerTypeOK'
    BY <1>1, <2>r DEF Returned, TypeOK, OwnerTypeOK
  <2>2. ThreadTypeOK'
    BY DEF TypeOK, ThreadTypeOK
  <2>3. OwnerInv'
    BY <1>1, <2>r DEF Returned, OwnerInv, ThreadInv, HasCall, Call
  <2>4. ThreadInv'
    BY DEF ThreadInv, Holding
  <2>5. OnceInv'
    BY <1>1, <2>r DEF Returned, OnceInv, Once, NoStop, OwnerInv, ThreadInv
  <2> QED
    BY <2>1, <2>2, <2>3, <2>4, <2>5 DEF OwnerPartOK
<1>2. CASE ~m_kill
  <2>1. OwnerTypeOK'
    BY <1>2 DEF TypeOK, OwnerTypeOK
  <2>2. ThreadTypeOK'
    BY DEF TypeOK, ThreadTypeOK
  <2>3. OwnerInv'
    BY <1>2 DEF OwnerInv, ThreadInv, HasCall, Call
  <2>4. ThreadInv'
    BY DEF ThreadInv, Holding
  <2>5. OnceInv'
    BY <1>2 DEF OnceInv, Once, NoStop, OwnerInv, ThreadInv
  <2> QED
    BY <2>1, <2>2, <2>3, <2>4, <2>5 DEF OwnerPartOK
<1> QED
  BY <1>1, <1>2

\* A handler that is destroyed while its thread is joinable has not been stopped.
LEMMA DestroyKeepsInv == IInv /\ Destroy /\ UNCHANGED <<scenario, wc>> => OwnerPartOK'
<1> SUFFICES ASSUME IInv, Destroy, UNCHANGED <<scenario, wc>> PROVE OwnerPartOK'
  OBVIOUS
<1> USE DEF IInv, Starting, Ending, Destroy, OwnerGoto, threadVars
<1>1. OwnerTypeOK'
  BY DEF TypeOK, OwnerTypeOK
<1>2. ThreadTypeOK'
  BY DEF TypeOK, ThreadTypeOK
<1>3. OwnerInv'
  BY DEF OwnerInv, HasCall, Call
<1>4. ThreadInv'
  BY DEF ThreadInv, Holding
<1>5. OnceInv'
  BY DEF OnceInv, Once, NoStop, OwnerInv
<1> QED
  BY <1>1, <1>2, <1>3, <1>4, <1>5 DEF OwnerPartOK

-----------------------------------------------------------------------------
(***************************************************************************)
(* The ring                                                                *)
(***************************************************************************)
\* Head, Tail and sequences of one element, by index.
LEMMA HeadAndTail ==
  ASSUME NEW S, NEW s \in Seq(S), s # <<>>
  PROVE  /\ Head(s) = s[1] /\ s[1] \in S /\ Len(s) \in Nat /\ Len(s) > 0
         /\ Tail(s) \in Seq(S) /\ Len(Tail(s)) = Len(s) - 1
         /\ \A k \in 1 .. Len(s) - 1 : Tail(s)[k] = s[k + 1]
<1>1. Head(s) = s[1]
  OBVIOUS
<1>2. Len(s) \in Nat \ {0}
  BY EmptySeq
<1> QED
  BY <1>1, <1>2, HeadTailProperties

\* A sequence of one element.
LEMMA OneElement ==
  ASSUME NEW S, NEW x \in S
  PROVE  <<x>> \in Seq(S) /\ Len(<<x>>) = 1 /\ <<x>>[1] = x
  OBVIOUS

\* The parts of completions.
LEMMA CompletionTypes ==
  ASSUME TypeOK
  PROVE  /\ cq \in Seq(Completions) /\ wc \in Seq(Completions)
         /\ \A k \in 1 .. Len(cq) : cq[k] \in Completions /\ cq[k].sender \in Clients
                                    /\ cq[k].buf \in Buffers
         /\ Len(wc) = 1 => wc[1] \in Completions /\ wc[1].sender \in Clients
                           /\ wc[1].buf \in Buffers
<1>1. cq \in Seq(Completions)
  BY DEF TypeOK, CardTypeOK
<1>2. wc \in Seq(Completions)
  BY DEF TypeOK, LoopTypeOK
<1>3. \A k \in 1 .. Len(cq) : cq[k] \in Completions
  BY <1>1, ElementOfSeq
<1>4. Len(wc) = 1 => wc[1] \in Completions
  BY <1>2, ElementOfSeq
<1>5. \A e \in Completions : e.sender \in Clients /\ e.buf \in Buffers
  BY DEF Completions
<1> QED
  BY <1>1, <1>2, <1>3, <1>4, <1>5

\* Positions of the ring are buffers, and MaxMsgs of them in a row are different.
LEMMA SlotIsBuffer ==
  ASSUME TypeOK
  PROVE  /\ Position \in Nat
         /\ \A k \in 1 .. MaxMsgs + 1 : Slot[k] \in Buffers
         /\ \A j, k \in 1 .. MaxMsgs : Slot[j] = Slot[k] => j = k
         /\ Slot[MaxMsgs + 1] = Slot[1]
<1> USE RingAssumption
<1>1. Position \in Nat
  BY DEF TypeOK, LoopTypeOK, Position
<1>2. ASSUME NEW k \in 1 .. MaxMsgs + 1 PROVE Slot[k] \in Buffers
  <2>1. Position + k - 1 \in Int
    BY <1>1
  <2>2. (Position + k - 1) % MaxMsgs \in 0 .. MaxMsgs - 1
    BY <2>1, DivMod
  <2> QED
    BY <2>2 DEF Slot, Buffers
<1>3. ASSUME NEW j \in 1 .. MaxMsgs, NEW k \in 1 .. MaxMsgs, Slot[j] = Slot[k] PROVE j = k
  <2>1. PICK a \in Int : a = Position - 1
    BY <1>1
  <2>2. Position + j - 1 = a + j /\ Position + k - 1 = a + k
    BY <1>1, <2>1
  <2>3. (a + j) % MaxMsgs = (a + k) % MaxMsgs
    <3>1. Slot[j] = (Position + j - 1) % MaxMsgs /\ Slot[k] = (Position + k - 1) % MaxMsgs
      BY DEF Slot
    <3> QED
      BY <1>3, <2>2, <3>1
  <2> QED
    BY <2>1, <2>3, ModInjective
<1>4. Slot[MaxMsgs + 1] = Slot[1]
  <2>1. PICK a \in Int : a = Position
    BY <1>1
  <2>2. (a + MaxMsgs) % MaxMsgs = a % MaxMsgs
    BY ModShift
  <2>3. Position + (MaxMsgs + 1) - 1 = a + MaxMsgs /\ Position + 1 - 1 = a
    BY <1>1, <2>1
  <2>4. /\ Slot[MaxMsgs + 1] = (Position + (MaxMsgs + 1) - 1) % MaxMsgs
        /\ Slot[1] = (Position + 1 - 1) % MaxMsgs
    BY DEF Slot
  <2> QED
    BY <2>2, <2>3, <2>4
<1> QED
  BY <1>1, <1>2, <1>3, <1>4

\* The ring moves on when a completion is polled ...
LEMMA SlotPolled ==
  ASSUME TypeOK, tpc = "poll", tpc' = "found", UNCHANGED m_index
  PROVE  \A k \in 1 .. MaxMsgs : Slot'[k] = Slot[k + 1]
<1> USE RingAssumption
<1>1. m_index \in Nat
  BY DEF TypeOK, LoopTypeOK
<1>2. TAKE k \in 1 .. MaxMsgs
<1>3. Slot'[k] = (m_index + 1 + k - 1) % MaxMsgs
  BY DEF Slot, Position
<1>4. Slot[k + 1] = (m_index + (k + 1) - 1) % MaxMsgs
  BY DEF Slot, Position
<1>5. m_index + 1 + k - 1 = m_index + (k + 1) - 1
  BY <1>1
<1> QED
  BY <1>3, <1>4, <1>5

\* ... not when getNext() gives its buffer, though the index may start again from 0.
LEMMA SlotTaken ==
  ASSUME TypeOK, tpc = "found", tpc' = "handle", m_index' = (m_index + 1) % IndexMod
  PROVE  /\ \A k \in 1 .. MaxMsgs : Slot'[k] = Slot[k]
         /\ m_index % MaxMsgs = Slot[MaxMsgs]
<1> USE RingAssumption
<1>1. m_index \in Nat /\ m_index + 1 \in Nat
  BY DEF TypeOK, LoopTypeOK
<1>2. ASSUME NEW k \in 1 .. MaxMsgs PROVE Slot'[k] = Slot[k]
  <2>1. PICK i \in Nat : i = m_index + 1
    BY <1>1
  <2>2. PICK b \in Int : b = k - 1
    OBVIOUS
  <2>3. ((i % IndexMod) + b) % MaxMsgs = (i + b) % MaxMsgs
    BY ModMod
  <2>4. i % IndexMod \in Int
    BY DivMod
  <2>5. m_index' + k - 1 = (i % IndexMod) + b /\ m_index + 1 + k - 1 = i + b
    BY <1>1, <2>1, <2>2, <2>4
  <2>6. Slot'[k] = (m_index' + k - 1) % MaxMsgs /\ Slot[k] = (m_index + 1 + k - 1) % MaxMsgs
    BY DEF Slot, Position
  <2> QED
    BY <2>3, <2>5, <2>6
<1>3. m_index % MaxMsgs = Slot[MaxMsgs]
  <2>1. PICK a \in Int : a = m_index
    BY <1>1
  <2>2. (a + MaxMsgs) % MaxMsgs = a % MaxMsgs
    BY ModShift
  <2>3. m_index + 1 + MaxMsgs - 1 = a + MaxMsgs
    BY <1>1, <2>1
  <2>4. Slot[MaxMsgs] = (m_index + 1 + MaxMsgs - 1) % MaxMsgs
    BY DEF Slot, Position
  <2> QED
    BY <2>1, <2>2, <2>3, <2>4
<1> QED
  BY <1>2, <1>3

\* The numbers of buffers add up, and a client's completions are counted in Nat.
LEMMA Counts ==
  ASSUME TypeOK, CountInv
  PROVE  /\ IsFiniteSet(Writing) /\ Cardinality(Writing) \in Nat
         /\ Len(srq) \in Nat /\ Len(cq) \in Nat /\ Len(wc) \in Nat /\ Len(wc) <= 1
         /\ Filled \in Nat /\ Filled + Len(wc) <= MaxMsgs /\ Len(cq) <= Filled
<1>1. IsFiniteSet(Writing)
  BY ClientsAssumption, FS_Subset DEF Writing
<1>2. Cardinality(Writing) \in Nat
  BY <1>1, FS_CardinalityType
<1>3. srq \in Seq(Buffers) /\ cq \in Seq(Completions)
  BY DEF TypeOK, CardTypeOK
<1>4. wc \in Seq(Completions)
  BY DEF TypeOK, LoopTypeOK
<1>7. Len(wc) <= 1
  BY DEF TypeOK, LoopTypeOK
<1>5. Len(srq) \in Nat /\ Len(cq) \in Nat /\ Len(wc) \in Nat
  BY <1>3, <1>4, LenProperties
<1>6. Filled \in Nat /\ Len(cq) <= Filled
  BY <1>2, <1>5 DEF Filled
<1>8. Filled + Len(wc) <= MaxMsgs
  BY <1>5, <1>6 DEF CountInv
<1> QED
  BY <1>1, <1>2, <1>5, <1>6, <1>7, <1>8

\* So are its messages that wait in buffers.
LEMMA WaitingIsFinite ==
  ASSUME TypeOK, CountInv, NEW c \in Clients
  PROVE  /\ Unhandled \subseteq Buffers
         /\ IsFiniteSet(Waiting[c]) /\ Cardinality(Waiting[c]) \in Nat
<1>1. IsFiniteSet(Buffers)
  BY RingAssumption, FS_Interval DEF Buffers
<1>2. Unhandled \subseteq Buffers
  BY SlotIsBuffer, Counts, RingAssumption DEF Unhandled
<1>3. Waiting[c] \subseteq Buffers
  BY <1>2 DEF Waiting
<1> QED
  BY <1>1, <1>2, <1>3, FS_Subset, FS_CardinalityType

\* Messages of one packet are never seen half written, and if there are two only one
\* client sends.
LEMMA OneWriter ==
  ASSUME TypeOK, SentInv, InOrder
  PROVE  Writing = {} \/ \E c \in Clients : Writing = {c}
<1>1. CASE scenario.packets = 1
  BY <1>1 DEF SentInv, Writing
<1>2. CASE scenario.packets # 1
  <2> DEFINE S == {c \in Clients : scenario.messages[c] > 0}
  <2>1. IsFiniteSet(S)
    BY ClientsAssumption, FS_Subset
  <2>2. Cardinality(S) = 1
    BY <1>2 DEF InOrder
  <2>3. PICK x : S = {x}
    BY <2>1, <2>2, FS_Singleton
  <2>4. Writing \subseteq S
    <3>1. scenario.messages \in [Clients -> Nat]
      BY ScenariosAssumption DEF TypeOK
    <3> QED
      BY <3>1 DEF SentInv, Writing, TypeOK, ClientTypeOK
  <2> QED
    BY <2>3, <2>4
<1> QED
  BY <1>1, <1>2

\* The same of the client that sends: no other has messages.
LEMMA OneSender ==
  ASSUME TypeOK, InOrder, scenario.packets = 2, NEW c \in Clients, scenario.messages[c] > 0,
         NEW d \in Clients, scenario.messages[d] > 0
  PROVE  c = d
<1> DEFINE S == {e \in Clients : scenario.messages[e] > 0}
<1>1. IsFiniteSet(S)
  BY ClientsAssumption, FS_Subset
<1>2. Cardinality(S) = 1
  BY DEF InOrder
<1>3. PICK x : S = {x}
  BY <1>1, <1>2, FS_Singleton
<1> QED
  BY <1>3

\* No more of a client's messages are handled than have arrived.
LEMMA HandledHaveArrived ==
  ASSUME TypeOK, SentInv, CountInv, HandledOnceInv, NEW c \in Clients
  PROVE  Len(handled[c]) <= arrived[c]
<1>1. Cardinality(Waiting[c]) \in Nat
  BY WaitingIsFinite
<1>2. handled[c] \in Seq(Nat) /\ arrived[c] \in Nat
  BY DEF TypeOK, ClientTypeOK
<1>3. Len(handled[c]) \in Nat
  BY <1>2, LenProperties
<1>4. Completed[c] \in Int /\ Completed[c] <= arrived[c]
  BY <1>2 DEF Completed
<1> QED
  BY <1>1, <1>2, <1>3, <1>4 DEF HandledOnceInv

\* Owner steps.  One that ends orderly waits until all messages have been handled, so
\* they have arrived.
LEMMA OwnerKeepsInv == IInv /\ Owner /\ UNCHANGED scenario => IInv'
<1> SUFFICES ASSUME IInv, Owner, UNCHANGED scenario PROVE IInv'
  OBVIOUS
<1>1. UNCHANGED <<loopVars, cardVars, clientVars, historyVars>>
  BY DEF Owner
<1>2. UNCHANGED <<scenario, wc>>
  BY <1>1 DEF loopVars
<1>3. OwnerPartOK'
  BY <1>2, StartAgainKeepsInv, StartHandlerKeepsInv, StartedKeepsInv, NotStartedYetKeepsInv,
     StartFailedKeepsInv, StopIdleKeepsInv, StopHandlerKeepsInv, StopPollingKeepsInv,
     JoinKeepsInv, DestroyKeepsInv DEF Owner
<1>4. CardInv'
  BY OwnerKeepsCard
<1>5. EndInv'
  <2>1. CASE Destroy
    <3>1. ASSUME scenario.orderly, NEW c \in Clients \ broken
          PROVE  arrived[c] = scenario.messages[c]
      <4>1. Len(handled[c]) = scenario.messages[c]
        BY <2>1, <3>1 DEF Destroy, MayEnd
      <4>2. Len(handled[c]) <= arrived[c]
        BY HandledHaveArrived DEF IInv, CardInv
      <4>3. arrived[c] <= sent[c] /\ sent[c] <= scenario.messages[c]
        BY DEF IInv, CardInv, SentInv
      <4>4. arrived[c] \in Nat /\ sent[c] \in Nat
        BY DEF IInv, TypeOK, ClientTypeOK
      <4>5. scenario.messages[c] \in Nat
        BY ScenariosAssumption DEF IInv, TypeOK
      <4> QED
        BY <4>1, <4>2, <4>3, <4>4, <4>5
    <3> QED
      BY <1>1, <3>1 DEF IInv, EndInv, clientVars, historyVars
  <2>2. CASE ~Destroy
    <3>1. UNCHANGED ended
      BY <2>2 DEF Owner, StartAgain, StartHandler, Started, NotStartedYet, StartFailed,
         StopIdle, StopHandler, StopPolling, Join
    <3> QED
      BY <1>1, <3>1, EndFrame DEF IInv, historyVars
  <2> QED
    BY <2>1, <2>2
<1>6. (LoopTypeOK /\ CardTypeOK /\ ClientTypeOK)'
  BY <1>1, LoopTypeFrame, CardTypeFrame, ClientTypeFrame DEF IInv, TypeOK
<1> QED
  BY <1>3, <1>4, <1>5, <1>6 DEF IInv, TypeOK, OwnerPartOK

-----------------------------------------------------------------------------
(***************************************************************************)
(* The thread                                                              *)
(***************************************************************************)
\* What no step of the thread changes.
HandlerFrame ==
    UNCHANGED <<scenario, ownerVars, m_poll, m_kill, m_thread, content, arriving, clientVars,
                lateWrite>>

\* The thread goes into its loop, or comes to the test of m_kill, or leaves.
LEMMA RunKeepsInv == IInv /\ Run /\ HandlerFrame => IInv'
<1> SUFFICES ASSUME IInv, Run, HandlerFrame PROVE IInv'
  OBVIOUS
<1> USE DEF IInv, Run, ThreadGoto, HandlerFrame
<1>1. ThreadTypeOK'
  BY DEF TypeOK, ThreadTypeOK
<1>2. ThreadInv'
  BY DEF ThreadInv, Holding, loopVars
<1>3. OnceInv'
  BY DEF OnceInv, Once, NoStop, Starting, ownerVars
<1>4. CardInv'
  BY CardFrame DEF cardVars, Holding
<1>5. (OwnerTypeOK /\ LoopTypeOK /\ CardTypeOK /\ ClientTypeOK /\ OwnerInv /\ EndInv)'
  BY OwnerTypeFrame, LoopTypeFrame, CardTypeFrame, ClientTypeFrame, OwnerFrame, EndFrame
     DEF TypeOK, cardVars, historyVars, ownerVars
<1> QED
  BY <1>1, <1>2, <1>3, <1>4, <1>5 DEF TypeOK

\* The test of m_kill touches nothing of the ring.
LEMMA TestKeepsInv == IInv /\ Test /\ HandlerFrame => IInv'
<1> SUFFICES ASSUME IInv, Test, HandlerFrame PROVE IInv'
  OBVIOUS
<1> USE DEF IInv, Test, ThreadGoto, HandlerFrame
<1>1. ThreadTypeOK'
  BY DEF TypeOK, ThreadTypeOK
<1>2. ThreadInv'
  BY DEF ThreadInv, Holding, loopVars
<1>4. CardInv'
  BY CardFrame DEF cardVars, Holding
<1>5. (OwnerTypeOK /\ LoopTypeOK /\ CardTypeOK /\ ClientTypeOK /\ OwnerInv /\ OnceInv /\ EndInv)'
  BY OwnerTypeFrame, LoopTypeFrame, CardTypeFrame, ClientTypeFrame, OwnerFrame, OnceFrame,
     EndFrame DEF TypeOK, cardVars, historyVars, ownerVars
<1> QED
  BY <1>1, <1>2, <1>4, <1>5 DEF TypeOK

\* A poll that finds nothing changes nothing but the place in the loop.
LEMMA PollNothingKeepsInv == IInv /\ PollNothing /\ HandlerFrame => IInv'
<1> SUFFICES ASSUME IInv, PollNothing, HandlerFrame PROVE IInv'
  OBVIOUS
<1> USE DEF IInv, PollNothing, ThreadGoto, HandlerFrame
<1>1. ThreadTypeOK'
  BY DEF TypeOK, ThreadTypeOK
<1>2. ThreadInv'
  BY DEF ThreadInv, Holding, loopVars
<1>4. CardInv'
  BY CardFrame DEF cardVars, Holding
<1>5. (OwnerTypeOK /\ LoopTypeOK /\ CardTypeOK /\ ClientTypeOK /\ OwnerInv /\ OnceInv /\ EndInv)'
  BY OwnerTypeFrame, LoopTypeFrame, CardTypeFrame, ClientTypeFrame, OwnerFrame, OnceFrame,
     EndFrame DEF TypeOK, cardVars, historyVars, ownerVars
<1> QED
  BY <1>1, <1>2, <1>4, <1>5 DEF TypeOK

\* It leaves only when m_kill is set, so not while it should be running.
LEMMA LeaveKeepsInv == IInv /\ Leave /\ HandlerFrame => IInv'
<1> SUFFICES ASSUME IInv, Leave, HandlerFrame PROVE IInv'
  OBVIOUS
<1> USE DEF IInv, Leave, ThreadGoto, HandlerFrame
<1>1. ThreadTypeOK'
  BY DEF TypeOK, ThreadTypeOK
<1>2. ThreadInv'
  BY DEF ThreadInv, Holding, loopVars
<1>3. OnceInv'
  BY DEF OnceInv, Once, NoStop, Starting, ownerVars, ThreadInv
<1>4. CardInv'
  BY CardFrame DEF cardVars, Holding
<1>5. (OwnerTypeOK /\ LoopTypeOK /\ CardTypeOK /\ ClientTypeOK /\ OwnerInv /\ EndInv)'
  BY OwnerTypeFrame, LoopTypeFrame, CardTypeFrame, ClientTypeFrame, OwnerFrame, EndFrame
     DEF TypeOK, cardVars, historyVars, ownerVars
<1> QED
  BY <1>1, <1>2, <1>3, <1>4, <1>5 DEF TypeOK

\* The ring moves on: the oldest completion is that of its next buffer.
LEMMA PollKeepsInv == IInv /\ Poll /\ HandlerFrame => IInv'
<1> SUFFICES ASSUME IInv, Poll, HandlerFrame PROVE IInv'
  OBVIOUS
<1> USE DEF HandlerFrame
<1>t. TypeOK /\ CardInv /\ ThreadInv
  BY DEF IInv
<1>p. tpc = "poll" /\ tpc' = "found" /\ UNCHANGED <<m_processing, m_index, message, srq, handled>>
  BY DEF Poll, ThreadGoto
<1>c. cq \in Seq(Completions) /\ cq # <<>>
  BY <1>t, CompletionTypes DEF Poll
<1>q. /\ Len(cq) \in Nat /\ Len(cq) > 0 /\ cq[1] \in Completions
      /\ cq' \in Seq(Completions) /\ Len(cq') = Len(cq) - 1
      /\ \A k \in 1 .. Len(cq') : cq'[k] = cq[k + 1]
  BY <1>c, HeadAndTail DEF Poll
<1>w. wc' \in Seq(Completions) /\ Len(wc') = 1 /\ wc'[1] = cq[1]
  <2>1. wc' = <<cq[1]>>
    BY <1>c, HeadAndTail DEF Poll
  <2> QED
    BY <1>q, <2>1, OneElement
<1>n. Len(wc) = 0
  BY <1>p, <1>t DEF ThreadInv, Holding
<1>m. Writing' = Writing
  BY DEF Writing
<1>f. Filled' = Filled - 1
  BY <1>m, <1>q, <1>t, Counts DEF Filled, CardInv
<1>s. /\ \A k \in 1 .. MaxMsgs : Slot'[k] = Slot[k + 1]
      /\ Slot[MaxMsgs + 1] = Slot[1]
  BY <1>p, <1>t, SlotPolled, SlotIsBuffer
<1>k. /\ Filled \in Nat /\ Len(srq) \in Nat /\ Len(srq) + Filled = MaxMsgs /\ Len(cq) <= Filled
      /\ MaxMsgs \in Nat /\ MaxMsgs > 0
  BY <1>n, <1>t, Counts, RingAssumption DEF CountInv, CardInv
<1>1. ThreadTypeOK'
  BY <1>p DEF IInv, TypeOK, ThreadTypeOK
<1>2. LoopTypeOK'
  <2>1. ibAddr' = Unset
    BY DEF Poll
  <2> QED
    BY <1>p, <1>t, <1>w, <2>1 DEF TypeOK, LoopTypeOK
<1>3. CardTypeOK'
  BY <1>p, <1>q, <1>t DEF TypeOK, CardTypeOK
<1>4. ThreadInv'
  BY <1>p, <1>t, <1>w DEF ThreadInv, Holding
<1>5. SentInv'
  BY <1>m, <1>t DEF SentInv, CardInv, clientVars
<1>6. CountInv'
  BY <1>f, <1>k, <1>p, <1>w DEF CountInv
<1>7. RingInv'
  <2>1. ASSUME NEW k \in 1 .. Len(srq) PROVE srq[k] = Slot'[Filled' + k]
    <3>1. Filled' + k \in 1 .. MaxMsgs /\ Filled' + k + 1 = Filled + k
      BY <1>f, <1>k, <1>q
    <3>2. Slot'[Filled' + k] = Slot[Filled + k]
      BY <1>s, <3>1
    <3> QED
      BY <1>t, <3>2 DEF RingInv, CardInv
  <2> QED
    BY <1>p, <2>1 DEF RingInv
<1>8. AlignedInv'
  <2> SUFFICES ASSUME InOrder PROVE AlignedInv'
    BY DEF AlignedInv, InOrder
  <2>1. ASSUME NEW k \in 1 .. Len(cq') PROVE cq'[k].buf = Slot'[k]
    <3>1. k + 1 \in 1 .. Len(cq) /\ k \in 1 .. MaxMsgs /\ cq'[k] = cq[k + 1]
      BY <1>k, <1>q
    <3> QED
      BY <1>s, <1>t, <3>1 DEF AlignedInv, CardInv
  <2>2. \A c \in Writing' : arriving'[c] = Slot'[Len(cq') + 1]
    BY <1>k, <1>m, <1>q, <1>s, <1>t DEF AlignedInv, CardInv
  <2>3. wc'[1].buf = Slot'[MaxMsgs]
    BY <1>k, <1>q, <1>s, <1>t, <1>w DEF AlignedInv, CardInv
  <2> QED
    BY <2>1, <2>2, <2>3 DEF AlignedInv
<1>9. ContentInv'
  BY <1>p, <1>q, <1>t, <1>w DEF ContentInv, CardInv, Handling, InOrder
<1>10. SenderInv'
  BY <1>p DEF SenderInv, Poll
<1>11. OrderInv'
  <2> SUFFICES ASSUME InOrder PROVE OrderInv'
    BY DEF OrderInv, InOrder
  <2>o. OrderInv
    BY <1>t DEF CardInv
  <2> DEFINE d == cq[1].sender
             t == Taken[d] + 1
  <2>1. Completed' = Completed
    BY <1>m DEF Completed, clientVars
  <2>2. d \in Clients /\ \A k \in 1 .. Len(cq) : cq[k].sender \in Clients
    BY <1>q, <1>t, CompletionTypes
  <2>3. /\ \A c \in Clients : Taken[c] \in Nat /\ Taken'[c] \in Nat /\ Completed[c] \in Int
        /\ \A c \in Clients \ {d} : Taken'[c] = Taken[c]
        /\ Taken'[d] = t
    <3>1. \A c \in Clients : Len(handled[c]) \in Nat /\ arrived[c] \in Nat
      BY <1>t, LenProperties DEF TypeOK, ClientTypeOK
    <3>2. Taken = [c \in Clients |-> Len(handled[c])]
      BY <1>p DEF Taken, Handling
    <3>3. Taken' = [c \in Clients |-> IF d = c THEN Len(handled[c]) + 1 ELSE Len(handled[c])]
      BY <1>p, <1>w DEF Taken, Handling
    <3> QED
      BY <2>2, <3>1, <3>2, <3>3 DEF Completed
  <2> HIDE DEF d, t
  <2>4. cq[1].msg = <<d, t>> /\ t <= Completed[d]
    <3>1. cq[1].msg = <<d, cq[1].msg[2]>> /\ cq[1].msg[2] \in t .. Completed[d]
      BY <1>q, <2>o DEF OrderInv, d, t
    <3>2. SUFFICES ASSUME cq[1].msg[2] # t PROVE FALSE
      BY <2>2, <2>3, <3>1
    <3>3. t \in t .. Completed[d] /\ t < cq[1].msg[2]
      BY <2>2, <2>3, <3>1, <3>2 
    <3>4. PICK k \in 1 .. Len(cq) : cq[k].msg = <<d, t>>
      BY <2>2, <2>o, <3>3 DEF OrderInv, t
    <3>5. cq[k].msg[2] = t /\ cq[k].sender = d
      BY <2>o, <3>4 DEF OrderInv
    <3>6. 1 < k
      BY <3>2, <3>5
    <3>7. cq[1].msg[2] < cq[k].msg[2]
      BY <1>q, <2>o, <3>5, <3>6 DEF OrderInv, d
    <3> QED
      BY <2>2, <2>3, <3>1, <3>3, <3>5, <3>7
  <2>5. \A c \in Clients : \A k \in DOMAIN handled'[c] : handled'[c][k] = k
    BY <1>p, <2>o DEF OrderInv
  <2>6. wc'[1].msg = <<wc'[1].sender, Taken'[wc'[1].sender]>>
    BY <1>w, <2>3, <2>4 DEF d
  <2>7. ASSUME NEW k \in 1 .. Len(cq')
        PROVE  /\ cq'[k].msg = <<cq'[k].sender, cq'[k].msg[2]>>
               /\ cq'[k].msg[2] \in Taken'[cq'[k].sender] + 1 .. Completed[cq'[k].sender]
    <3>1. k + 1 \in 1 .. Len(cq) /\ 1 \in 1 .. Len(cq) /\ 1 < k + 1 /\ cq'[k] = cq[k + 1]
      BY <1>q
    <3>2. /\ cq[k + 1].msg = <<cq[k + 1].sender, cq[k + 1].msg[2]>>
          /\ cq[k + 1].msg[2] \in Taken[cq[k + 1].sender] + 1 .. Completed[cq[k + 1].sender]
          /\ cq[k + 1].sender = d => cq[1].msg[2] < cq[k + 1].msg[2]
      BY <2>o, <3>1 DEF OrderInv, d
    <3>3. cq[1].msg[2] = t
      BY <2>4
    <3> QED
      BY <2>2, <2>3, <3>1, <3>2, <3>3
  <2>8. ASSUME NEW j \in 1 .. Len(cq'), NEW k \in 1 .. Len(cq'), j < k,
               cq'[j].sender = cq'[k].sender
        PROVE  cq'[j].msg[2] < cq'[k].msg[2]
    <3>1. /\ j + 1 \in 1 .. Len(cq) /\ k + 1 \in 1 .. Len(cq) /\ j + 1 < k + 1
          /\ cq'[j] = cq[j + 1] /\ cq'[k] = cq[k + 1]
      BY <1>q, <2>8
    <3> QED
      BY <2>8, <2>o, <3>1 DEF OrderInv
  <2>9. ASSUME NEW c \in Clients, NEW n \in Taken'[c] + 1 .. Completed[c]
        PROVE  \E k \in 1 .. Len(cq') : cq'[k].msg = <<c, n>>
    <3>1. n \in Taken[c] + 1 .. Completed[c] /\ (c = d => n # t)
      BY <2>2, <2>3 DEF t
    <3>2. PICK k \in 1 .. Len(cq) : cq[k].msg = <<c, n>>
      BY <2>o, <3>1 DEF OrderInv
    <3>3. k # 1
      BY <2>4, <3>1, <3>2
    <3>4. k - 1 \in 1 .. Len(cq') /\ cq'[k - 1] = cq[k]
      BY <1>q, <3>3
    <3> QED
      BY <3>2, <3>4
  <2> QED
    BY <2>1, <2>5, <2>6, <2>7, <2>8, <2>9 DEF OrderInv
<1>12. HandledOnceInv'
  <2>1. Unhandled' = Unhandled
    <3>1. Unhandled = {Slot[k] : k \in 1 .. Filled}
      BY <1>p DEF Unhandled, Handling
    <3>2. Unhandled' = {Slot'[k] : k \in 1 .. Filled - 1} \cup {Slot'[MaxMsgs]}
      BY <1>f, <1>p DEF Unhandled, Handling
    <3>3. \A k \in 1 .. Filled - 1 : Slot'[k] = Slot[k + 1] /\ k + 1 \in 1 .. Filled
      BY <1>k, <1>s
    <3>4. \A k \in 2 .. Filled : Slot[k] = Slot'[k - 1] /\ k - 1 \in 1 .. Filled - 1
      BY <1>k, <1>s
    <3>5. Slot'[MaxMsgs] = Slot[1] /\ 1 \in 1 .. Filled
      BY <1>k, <1>q, <1>s
    <3>6. Unhandled' \subseteq Unhandled
      BY <3>1, <3>2, <3>3, <3>5
    <3>7. \A k \in 1 .. Filled : k = 1 \/ k \in 2 .. Filled
      BY <1>k
    <3>8. Unhandled \subseteq Unhandled'
      BY <3>1, <3>2, <3>4, <3>5, <3>7
    <3> QED
      BY <3>6, <3>8
  <2>2. Waiting' = Waiting
    BY <2>1 DEF Waiting
  <2>3. Completed' = Completed
    BY <1>m DEF Completed, clientVars
  <2> QED
    BY <1>p, <1>t, <2>2, <2>3 DEF HandledOnceInv, CardInv
<1>13. (OwnerTypeOK /\ ClientTypeOK /\ OwnerInv /\ OnceInv /\ EndInv)'
  BY <1>p, OwnerTypeFrame, ClientTypeFrame, OwnerFrame, OnceFrame, EndFrame
     DEF IInv, TypeOK, historyVars, ownerVars
<1> QED
  BY <1>1, <1>2, <1>3, <1>4, <1>5, <1>6, <1>7, <1>8, <1>9, <1>10, <1>11, <1>12, <1>13
     DEF IInv, TypeOK, CardInv

\* getNext() gives the buffer of the completion that has been polled; m_poll may have been
\* cleared, but only by a stop.
LEMMA TakeBufferKeepsInv == IInv /\ TakeBuffer /\ HandlerFrame => IInv'
<1> SUFFICES ASSUME IInv, TakeBuffer, HandlerFrame PROVE IInv'
  OBVIOUS
<1> USE DEF HandlerFrame
<1>t. TypeOK /\ CardInv /\ ThreadInv /\ OwnerInv
  BY DEF IInv
<1>p. tpc = "found" /\ tpc' = "handle" /\ UNCHANGED <<m_processing, wc, srq, cq, handled>>
  BY DEF TakeBuffer, ThreadGoto
<1>i. m_index' = (m_index + 1) % IndexMod /\ message' = m_index % MaxMsgs
  BY DEF TakeBuffer
<1>a. ibAddr' = IF m_poll THEN wc[1].sender ELSE ibAddr
  BY DEF TakeBuffer
<1>m. Writing' = Writing /\ Filled' = Filled
  BY <1>p DEF Writing, Filled
<1>s. (\A k \in 1 .. MaxMsgs : Slot'[k] = Slot[k]) /\ message' = Slot[MaxMsgs]
  BY <1>i, <1>p, <1>t, SlotTaken
<1>k. /\ Filled \in Nat /\ Len(srq) \in Nat /\ Len(srq) + Filled + 1 = MaxMsgs
      /\ Len(cq) \in Nat /\ Len(cq) <= Filled /\ MaxMsgs \in Nat /\ MaxMsgs > 0 /\ Len(wc) = 1
  BY <1>p, <1>t, Counts, RingAssumption DEF CountInv, CardInv, ThreadInv, Holding
<1>1. ThreadTypeOK'
  BY <1>p DEF IInv, TypeOK, ThreadTypeOK
<1>2. LoopTypeOK'
  <2>1. m_index' \in 0 .. IndexMod - 1
    <3>1. m_index + 1 \in Int
      BY <1>t DEF TypeOK, LoopTypeOK
    <3> QED
      BY <1>i, <3>1, DivMod, RingAssumption
  <2>2. ibAddr' \in Clients \cup {Unset}
    BY <1>a, <1>k, <1>t, CompletionTypes DEF TypeOK, LoopTypeOK
  <2>3. message' \in Buffers
    BY <1>k, <1>s, <1>t, SlotIsBuffer
  <2>4. wc \in Seq(Completions) /\ Len(wc) <= 1
    BY <1>t DEF TypeOK, LoopTypeOK
  <2> QED
    BY <1>p, <2>1, <2>2, <2>3, <2>4 DEF LoopTypeOK
<1>4. ThreadInv'
  BY <1>p, <1>t DEF ThreadInv, Holding
<1>5. SentInv' /\ CountInv'
  BY <1>m, <1>p, <1>t DEF SentInv, CountInv, CardInv, clientVars
<1>7. RingInv'
  <2>1. ASSUME NEW k \in 1 .. Len(srq) PROVE srq[k] = Slot'[Filled + k]
    <3>1. Filled + k \in 1 .. MaxMsgs
      BY <1>k
    <3> QED
      BY <1>s, <1>t, <3>1 DEF RingInv, CardInv
  <2>2. message' = Slot'[MaxMsgs]
    BY <1>k, <1>s
  <2> QED
    BY <1>m, <1>p, <2>1, <2>2 DEF RingInv
<1>8. AlignedInv'
  <2> SUFFICES ASSUME InOrder PROVE AlignedInv'
    BY DEF AlignedInv, InOrder
  <2>1. \A k \in 1 .. Len(cq) : cq[k].buf = Slot'[k]
    BY <1>k, <1>s, <1>t DEF AlignedInv, CardInv
  <2>2. \A c \in Writing : arriving[c] = Slot'[Len(cq) + 1]
    BY <1>k, <1>s, <1>t DEF AlignedInv, CardInv
  <2>3. wc[1].buf = Slot'[MaxMsgs]
    BY <1>k, <1>p, <1>s, <1>t DEF AlignedInv, CardInv, Holding
  <2> QED
    BY <1>m, <1>p, <2>1, <2>2, <2>3 DEF AlignedInv
<1>9. ContentInv'
  BY <1>p, <1>t DEF ContentInv, CardInv, Handling, InOrder
<1>10. SenderInv'
  <2>1. CASE m_poll
    BY <1>a, <1>p, <2>1 DEF SenderInv
  <2>2. CASE ~m_poll
    <3>1. m_kill /\ ibAddr = Unset
      BY <1>p, <1>t, <2>2 DEF OwnerInv, SenderInv, CardInv
    <3> QED
      BY <1>a, <1>p, <2>2, <3>1 DEF SenderInv
  <2> QED
    BY <2>1, <2>2
<1>11. Taken' = Taken /\ Completed' = Completed
  BY <1>m, <1>p DEF Taken, Completed, Handling, clientVars
<1>12. OrderInv'
  BY <1>11, <1>p, <1>t DEF OrderInv, CardInv, Handling, InOrder
<1>13. HandledOnceInv'
  <2>1. Unhandled' = Unhandled
    <3>1. \A k \in 1 .. Filled : Slot'[k] = Slot[k]
      BY <1>k, <1>s
    <3>2. Slot'[MaxMsgs] = Slot[MaxMsgs]
      BY <1>k, <1>s
    <3> QED
      BY <1>m, <1>p, <3>1, <3>2 DEF Unhandled, Handling
  <2>2. Waiting' = Waiting
    BY <2>1 DEF Waiting
  <2> QED
    BY <1>11, <1>p, <1>t, <2>2 DEF HandledOnceInv, CardInv
<1>14. (OwnerTypeOK /\ CardTypeOK /\ ClientTypeOK /\ OwnerInv /\ OnceInv /\ EndInv)'
  BY <1>p, OwnerTypeFrame, CardTypeFrame, ClientTypeFrame, OwnerFrame, OnceFrame, EndFrame
     DEF IInv, TypeOK, cardVars, historyVars, ownerVars
<1> QED
  BY <1>1, <1>2, <1>4, <1>5, <1>7, <1>8, <1>9, <1>10, <1>12, <1>13, <1>14
     DEF IInv, TypeOK, CardInv

\* Messages that are in buffers.
LEMMA MessageParts ==
  ASSUME NEW m \in Messages, m # NoMessage
  PROVE  m[1] \in Clients /\ m[2] \in Nat /\ m = <<m[1], m[2]>>
  BY DEF Messages

\* The message in the buffer, if it is complete, is handled: the buffer is not waiting
\* any more, as no other position of the ring is the same buffer.
LEMMA HandleKeepsInv == IInv /\ Handle /\ HandlerFrame => IInv'
<1> SUFFICES ASSUME IInv, Handle, HandlerFrame PROVE IInv'
  OBVIOUS
<1> USE DEF HandlerFrame
<1>t. TypeOK /\ CardInv /\ ThreadInv
  BY DEF IInv
<1>p. tpc = "handle" /\ tpc' = "repost" /\ UNCHANGED <<m_processing, loopVars, srq, cq>>
  BY DEF Handle, ThreadGoto
<1>l. UNCHANGED <<m_index, wc, ibAddr, message>>
  BY <1>p DEF loopVars
<1>m. Writing' = Writing /\ Filled' = Filled /\ Slot' = Slot
  BY <1>l, <1>p DEF Writing, Filled, Slot, Position
<1>k. /\ Filled \in Nat /\ Len(srq) \in Nat /\ Len(srq) + Filled + 1 = MaxMsgs
      /\ Len(cq) \in Nat /\ Len(cq) <= Filled /\ MaxMsgs \in Nat /\ MaxMsgs > 0 /\ Len(wc) = 1
  BY <1>p, <1>t, Counts, RingAssumption DEF CountInv, CardInv, ThreadInv, Holding
<1>b. message = Slot[MaxMsgs] /\ message \in Buffers
  BY <1>k, <1>p, <1>t, SlotIsBuffer DEF RingInv, CardInv
<1>h. handled \in [Clients -> Seq(Nat)] /\ \A c \in Clients : Len(handled[c]) \in Nat
  BY <1>t, LenProperties DEF TypeOK, ClientTypeOK
<1> DEFINE msg == content[message]
<1>c. msg \in Messages
  BY <1>b, <1>t DEF TypeOK, CardTypeOK
<1>e. msg = NoMessage => handled' = handled
  BY DEF Handle
<1>f. ASSUME msg # NoMessage
      PROVE  /\ msg[1] \in Clients /\ msg[2] \in Nat /\ handled' \in [Clients -> Seq(Nat)]
             /\ \A c \in Clients \ {msg[1]} : handled'[c] = handled[c]
             /\ Len(handled'[msg[1]]) = Len(handled[msg[1]]) + 1
             /\ \A k \in 1 .. Len(handled[msg[1]]) : handled'[msg[1]][k] = handled[msg[1]][k]
             /\ handled'[msg[1]][Len(handled[msg[1]]) + 1] = msg[2]
  <2>1. msg[1] \in Clients /\ msg[2] \in Nat
    BY <1>c, <1>f, MessageParts
  <2>2. handled' = [handled EXCEPT ![msg[1]] = Append(@, msg[2])]
    BY <1>f DEF Handle
  <2> HIDE DEF msg
  <2>3. /\ handled'[msg[1]] = Append(handled[msg[1]], msg[2])
        /\ \A c \in Clients \ {msg[1]} : handled'[c] = handled[c]
    BY <1>h, <2>1, <2>2
  <2>4. Append(handled[msg[1]], msg[2]) \in Seq(Nat)
    BY <1>h, <2>1, AppendProperties
  <2>5. handled' \in [Clients -> Seq(Nat)]
    BY <1>h, <2>1, <2>2, <2>4
  <2> QED
    BY <1>h, <2>1, <2>3, <2>5, AppendProperties
<1> HIDE DEF msg
<1>1. ThreadTypeOK'
  BY <1>p DEF IInv, TypeOK, ThreadTypeOK
<1>2. ClientTypeOK'
  <2>1. handled' \in [Clients -> Seq(Nat)]
    BY <1>e, <1>f, <1>h
  <2> QED
    BY <1>t, <2>1 DEF TypeOK, ClientTypeOK, clientVars
<1>4. ThreadInv'
  BY <1>l, <1>p, <1>t DEF ThreadInv, Holding
<1>5. SentInv' /\ CountInv'
  BY <1>l, <1>m, <1>p, <1>t DEF SentInv, CountInv, CardInv, clientVars
<1>7. RingInv'
  BY <1>l, <1>m, <1>p, <1>t DEF RingInv, CardInv
<1>8. AlignedInv'
  BY <1>l, <1>m, <1>p, <1>t DEF AlignedInv, CardInv, Holding, InOrder
<1>9. ContentInv'
  BY <1>p, <1>t DEF ContentInv, CardInv, Handling, InOrder
<1>10. SenderInv'
  BY <1>p DEF SenderInv
<1>11. OrderInv'
  <2> SUFFICES ASSUME InOrder PROVE OrderInv'
    BY DEF OrderInv, InOrder
  <2>o. OrderInv
    BY <1>t DEF CardInv
  <2> DEFINE d == wc[1].sender
             t == Len(handled[d]) + 1
  <2>1. d \in Clients
    BY <1>k, <1>t, CompletionTypes
  <2>2. Taken = [c \in Clients |-> IF d = c THEN Len(handled[c]) + 1 ELSE Len(handled[c])]
    BY <1>p DEF Taken, Handling
  <2>3. Taken' = [c \in Clients |-> Len(handled'[c])]
    BY <1>p DEF Taken, Handling
  <2>4. msg = <<d, t>>
    <3>1. message = wc[1].buf
      BY <1>b, <1>k, <1>p, <1>t DEF AlignedInv, CardInv, Holding
    <3>2. msg = wc[1].msg
      BY <1>p, <1>t, <3>1 DEF ContentInv, CardInv, Handling, msg
    <3>3. wc[1].msg = <<d, Taken[d]>>
      BY <1>p, <2>o DEF OrderInv, Handling
    <3> QED
      BY <2>1, <2>2, <3>2, <3>3
  <2> HIDE DEF d
  <2>5. t \in Nat /\ t > 0
    BY <1>h, <2>1
  <2>6. msg # NoMessage /\ msg[1] = d /\ msg[2] = t
    BY <2>4, <2>5 DEF NoMessage
  <2>7. Taken' = Taken
    BY <1>f, <1>h, <2>1, <2>2, <2>3, <2>6
  <2>8. ASSUME NEW c \in Clients, NEW k \in DOMAIN handled'[c] PROVE handled'[c][k] = k
    <3>1. CASE c = d
      <4>1. DOMAIN handled'[d] = 1 .. Len(handled[d]) + 1
        BY <1>f, <2>1, <2>6, LenProperties
      <4>2. DOMAIN handled[d] = 1 .. Len(handled[d])
        BY <1>h, <2>1, LenProperties
      <4>3. \A i \in DOMAIN handled[d] : handled[d][i] = i
        BY <2>1, <2>o DEF OrderInv
      <4>4. k \in 1 .. Len(handled[d]) \/ k = Len(handled[d]) + 1
        BY <1>h, <2>1, <2>8, <3>1, <4>1
      <4> QED
        BY <1>f, <2>6, <3>1, <4>2, <4>3, <4>4
    <3>2. CASE c # d
      BY <1>f, <2>6, <2>8, <2>o, <3>2 DEF OrderInv
    <3> QED
      BY <3>1, <3>2
  <2>9. Completed' = Completed
    BY <1>m DEF Completed, clientVars
  <2> QED
    BY <1>p, <2>7, <2>8, <2>9, <2>o DEF OrderInv, Handling
<1>12. HandledOnceInv'
  <2>1. Unhandled' = {Slot[k] : k \in 1 .. Filled}
    BY <1>m, <1>p DEF Unhandled, Handling
  <2>2. Unhandled = {Slot[k] : k \in 1 .. Filled} \cup {message}
    BY <1>b, <1>p DEF Unhandled, Handling
  <2>3. message \notin Unhandled'
    <3>1. \A k \in 1 .. Filled : k \in 1 .. MaxMsgs /\ k # MaxMsgs
      BY <1>k
    <3> QED
      BY <1>b, <1>k, <1>t, <2>1, <3>1, SlotIsBuffer
  <2>4. Completed' = Completed
    BY <1>m DEF Completed, clientVars
  <2>5. ASSUME NEW c \in Clients
        PROVE  Len(handled'[c]) + Cardinality(Waiting'[c]) <= Completed[c]
    <3>1. Waiting'[c] \subseteq Waiting[c] \ {message}
      BY <2>1, <2>2, <2>3 DEF Waiting
    <3>2. IsFiniteSet(Waiting[c]) /\ Cardinality(Waiting[c]) \in Nat
      BY <1>t, WaitingIsFinite DEF CardInv
    <3>3. /\ IsFiniteSet(Waiting[c] \ {message})
          /\ Cardinality(Waiting[c] \ {message})
                = IF message \in Waiting[c] THEN Cardinality(Waiting[c]) - 1
                                            ELSE Cardinality(Waiting[c])
      BY <3>2, FS_RemoveElement
    <3>4. IsFiniteSet(Waiting'[c])
          /\ Cardinality(Waiting'[c]) <= Cardinality(Waiting[c] \ {message})
      BY <3>1, <3>3, FS_Subset
    <3>5. Cardinality(Waiting'[c]) \in Nat
      BY <3>4, FS_CardinalityType
    <3>6. Completed[c] \in Int
      BY <1>t DEF Completed, TypeOK, ClientTypeOK
    <3>7. Len(handled[c]) + Cardinality(Waiting[c]) <= Completed[c]
      BY <1>t DEF HandledOnceInv, CardInv
    <3>8. CASE msg # NoMessage /\ msg[1] = c
      <4>1. message \in Waiting[c]
        BY <2>2, <3>8 DEF Waiting, msg
      <4>2. Len(handled'[c]) = Len(handled[c]) + 1
        BY <1>f, <3>8
      <4> QED
        BY <1>h, <3>2, <3>3, <3>4, <3>5, <3>6, <3>7, <4>1, <4>2
    <3>9. CASE ~(msg # NoMessage /\ msg[1] = c)
      <4>1. handled'[c] = handled[c]
        BY <1>e, <1>f, <3>9
      <4>2. Cardinality(Waiting[c] \ {message}) <= Cardinality(Waiting[c])
        BY <3>2, <3>3
      <4>3. Cardinality(Waiting'[c]) <= Cardinality(Waiting[c])
        BY <3>2, <3>3, <3>4, <3>5, <4>2
      <4> QED
        BY <1>h, <3>2, <3>5, <3>6, <3>7, <4>1, <4>3
    <3> QED
      BY <3>8, <3>9
  <2> QED
    BY <2>4, <2>5 DEF HandledOnceInv
<1>13. (OwnerTypeOK /\ LoopTypeOK /\ CardTypeOK /\ OwnerInv /\ OnceInv /\ EndInv)'
  BY <1>p, OwnerTypeFrame, LoopTypeFrame, CardTypeFrame, OwnerFrame, OnceFrame, EndFrame
     DEF IInv, TypeOK, cardVars, ownerVars
<1> QED
  BY <1>1, <1>2, <1>4, <1>5, <1>7, <1>8, <1>9, <1>10, <1>11, <1>12, <1>13
     DEF IInv, TypeOK, CardInv

\* The buffer is posted again: it is the last one of the ring.
LEMMA RepostKeepsInv == IInv /\ Repost /\ HandlerFrame => IInv'
<1> SUFFICES ASSUME IInv, Repost, HandlerFrame PROVE IInv'
  OBVIOUS
<1> USE DEF HandlerFrame
<1>t. TypeOK /\ CardInv /\ ThreadInv
  BY DEF IInv
<1>p. /\ tpc = "repost" /\ tpc' = "test"
      /\ UNCHANGED <<m_processing, m_index, ibAddr, cq, handled>>
      /\ srq' = Append(srq, message) /\ wc' = <<>> /\ message' = NoBuffer
  BY DEF Repost, ThreadGoto
<1>m. Writing' = Writing /\ Filled' = Filled /\ Slot' = Slot
  BY <1>p DEF Writing, Filled, Slot, Position
<1>k. /\ Filled \in Nat /\ Len(srq) \in Nat /\ Len(srq) + Filled + 1 = MaxMsgs
      /\ Len(cq) \in Nat /\ Len(cq) <= Filled /\ MaxMsgs \in Nat /\ MaxMsgs > 0 /\ Len(wc) = 1
  BY <1>p, <1>t, Counts, RingAssumption DEF CountInv, CardInv, ThreadInv, Holding
<1>b. message = Slot[MaxMsgs] /\ message \in Buffers
  BY <1>k, <1>p, <1>t, SlotIsBuffer DEF RingInv, CardInv
<1>q. /\ srq' \in Seq(Buffers) /\ Len(srq') = Len(srq) + 1
      /\ \A k \in 1 .. Len(srq) : srq'[k] = srq[k]
      /\ srq'[Len(srq) + 1] = message
  <2>1. srq \in Seq(Buffers)
    BY <1>t DEF TypeOK, CardTypeOK
  <2> QED
    BY <1>b, <1>p, <2>1, AppendProperties
<1>w. wc' \in Seq(Completions) /\ Len(wc') = 0
  BY <1>p, EmptySeq
<1>1. ThreadTypeOK'
  BY <1>p DEF IInv, TypeOK, ThreadTypeOK
<1>2. LoopTypeOK'
  <2>1. wc' \in Seq(Completions) /\ Len(wc') <= 1
    BY <1>w
  <2> QED
    BY <1>p, <1>t, <2>1 DEF TypeOK, LoopTypeOK
<1>3. CardTypeOK'
  BY <1>p, <1>q, <1>t DEF TypeOK, CardTypeOK
<1>4. ThreadInv'
  BY <1>p, <1>t, <1>w DEF ThreadInv, Holding
<1>5. SentInv'
  BY <1>m, <1>t DEF SentInv, CardInv, clientVars
<1>6. CountInv'
  BY <1>k, <1>m, <1>q, <1>w DEF CountInv
<1>7. RingInv'
  <2>1. ASSUME NEW k \in 1 .. Len(srq') PROVE srq'[k] = Slot[Filled + k]
    <3>1. CASE k = Len(srq) + 1
      <4>1. Filled + k = MaxMsgs
        BY <1>k, <3>1
      <4> QED
        BY <1>b, <1>q, <3>1, <4>1
    <3>2. CASE k # Len(srq) + 1
      <4>1. k \in 1 .. Len(srq)
        BY <1>k, <1>q, <3>2
      <4> QED
        BY <1>q, <1>t, <4>1 DEF RingInv, CardInv
    <3> QED
      BY <3>1, <3>2
  <2> QED
    BY <1>m, <1>p, <2>1 DEF RingInv
<1>8. AlignedInv'
  BY <1>m, <1>p, <1>t DEF AlignedInv, CardInv, Holding, InOrder
<1>9. ContentInv' /\ SenderInv'
  BY <1>p, <1>t DEF ContentInv, SenderInv, CardInv, Handling, InOrder
<1>10. Taken' = Taken /\ Completed' = Completed
  BY <1>m, <1>p DEF Taken, Completed, Handling, clientVars
<1>11. OrderInv'
  BY <1>10, <1>p, <1>t DEF OrderInv, CardInv, Handling, InOrder
<1>12. HandledOnceInv'
  <2>1. Waiting' = Waiting
    BY <1>m, <1>p DEF Waiting, Unhandled, Handling
  <2> QED
    BY <1>10, <1>p, <1>t, <2>1 DEF HandledOnceInv, CardInv
<1>13. (OwnerTypeOK /\ ClientTypeOK /\ OwnerInv /\ OnceInv /\ EndInv)'
  BY <1>p, OwnerTypeFrame, ClientTypeFrame, OwnerFrame, OnceFrame, EndFrame
     DEF IInv, TypeOK, historyVars, ownerVars
<1> QED
  BY <1>1, <1>2, <1>3, <1>4, <1>5, <1>6, <1>7, <1>8, <1>9, <1>11, <1>12, <1>13
     DEF IInv, TypeOK, CardInv

\* Each step of the thread keeps the invariant.
LEMMA HandlerKeepsInv == IInv /\ Handler /\ UNCHANGED scenario => IInv'
  BY RunKeepsInv, TestKeepsInv, PollKeepsInv, PollNothingKeepsInv, TakeBufferKeepsInv,
     HandleKeepsInv, RepostKeepsInv, LeaveKeepsInv DEF Handler, HandlerFrame

-----------------------------------------------------------------------------
(***************************************************************************)
(* The clients and the fabric                                              *)
(***************************************************************************)
\* What no step of a client changes, and what it does to the handler's state.
ClientFrame == UNCHANGED <<scenario, ownerVars, threadVars, loopVars>>

\* What is said of the owner and the thread is left alone by the clients.
LEMMA ClientKeepsHandlerInv ==
  IInv /\ ClientFrame =>
      (OwnerTypeOK /\ ThreadTypeOK /\ LoopTypeOK /\ OwnerInv /\ ThreadInv /\ OnceInv)'
  BY OwnerTypeFrame, ThreadTypeFrame, LoopTypeFrame, OwnerFrame, ThreadFrame, OnceFrame
     DEF IInv, TypeOK, ClientFrame, threadVars, loopVars

\* A client sends no more than it has to.
LEMMA SendKeepsInv ==
  ASSUME IInv, ClientFrame, NEW c \in Clients, Send(c)
  PROVE  IInv'
<1> USE DEF ClientFrame
<1>t. TypeOK /\ CardInv /\ EndInv
  BY DEF IInv
<1>p. /\ sent[c] < scenario.messages[c] /\ sent' = [sent EXCEPT ![c] = @ + 1]
      /\ UNCHANGED <<arrived, broken, handled, lateWrite, srq, cq, content, arriving>>
      /\ UNCHANGED <<tpc, m_index, wc, ibAddr, message, ended, m_kill>>
  BY DEF Send, cardVars, threadVars, loopVars, ownerVars
<1>s. sent \in [Clients -> Nat] /\ arrived \in [Clients -> Nat]
  BY <1>t DEF TypeOK, ClientTypeOK
<1>g. scenario.messages \in [Clients -> Nat]
  BY <1>t, ScenariosAssumption DEF TypeOK
<1>1. ClientTypeOK'
  BY <1>p, <1>t DEF TypeOK, ClientTypeOK
<1>2. CardTypeOK'
  BY <1>p, <1>t, CardTypeFrame DEF TypeOK, cardVars
<1>m. /\ UNCHANGED <<Writing, Filled, Slot, Handling, InOrder, Taken, Completed>>
      /\ UNCHANGED <<Unhandled, Waiting>>
  BY <1>p DEF Writing, Filled, Slot, Position, Handling, InOrder, Taken, Completed, Unhandled,
     Waiting
<1>3. SentInv'
  BY <1>g, <1>m, <1>p, <1>s, <1>t DEF SentInv, CardInv
<1>4. CountInv' /\ RingInv' /\ SenderInv'
  BY <1>m, <1>p, <1>t DEF CountInv, RingInv, SenderInv, CardInv
<1>5. AlignedInv' /\ ContentInv'
  BY <1>m, <1>p, <1>t DEF AlignedInv, ContentInv, CardInv, Holding
<1>6. OrderInv'
  BY <1>m, <1>p, <1>t DEF OrderInv, CardInv
<1>7. HandledOnceInv'
  BY <1>m, <1>p, <1>t DEF HandledOnceInv, CardInv
<1>8. EndInv'
  BY <1>p, <1>t DEF EndInv
<1> QED
  BY <1>1, <1>2, <1>3, <1>4, <1>5, <1>6, <1>7, <1>8, ClientKeepsHandlerInv
     DEF IInv, TypeOK, CardInv

\* What the handler has taken has been complete.
LEMMA TakenAreComplete ==
  ASSUME TypeOK, ThreadInv, CardInv, InOrder, NEW c \in Clients
  PROVE  Taken[c] \in Nat /\ Completed[c] \in Int /\ Taken[c] <= Completed[c]
<1>1. handled[c] \in Seq(Nat) /\ arrived[c] \in Nat
  BY DEF TypeOK, ClientTypeOK
<1>2. Len(handled[c]) \in Nat /\ Completed[c] \in Int
  BY <1>1, LenProperties DEF Completed
<1>3. IsFiniteSet(Waiting[c]) /\ Cardinality(Waiting[c]) \in Nat
  BY WaitingIsFinite DEF CardInv
<1>4. Len(handled[c]) + Cardinality(Waiting[c]) <= Completed[c]
  BY DEF HandledOnceInv, CardInv
<1>5. CASE Handling /\ wc[1].sender = c
  <2>1. Taken[c] = Len(handled[c]) + 1
    BY <1>5 DEF Taken
  <2>2. Len(wc) = 1
    BY <1>5 DEF ThreadInv, Holding, Handling
  <2>3. wc[1].buf = Slot[MaxMsgs] /\ wc[1].buf \in Buffers
    BY <1>5, <2>2, CompletionTypes DEF CardInv, AlignedInv, Holding, Handling
  <2>4. content[wc[1].buf] = <<c, Taken[c]>>
    BY <1>5 DEF CardInv, ContentInv, OrderInv
  <2>5. wc[1].buf \in Unhandled
    BY <1>5, <2>3 DEF Unhandled
  <2>6. <<c, Taken[c]>> # NoMessage /\ <<c, Taken[c]>>[1] = c
    BY <1>2, <2>1 DEF NoMessage
  <2>7. wc[1].buf \in Waiting[c]
    BY <2>4, <2>5, <2>6 DEF Waiting
  <2>8. Cardinality(Waiting[c]) # 0
    BY <1>3, <2>7, FS_EmptySet
  <2> QED
    BY <1>2, <1>3, <1>4, <2>1, <2>8
<1>6. CASE ~(Handling /\ wc[1].sender = c)
  <2>1. Taken[c] = Len(handled[c])
    BY <1>6 DEF Taken
  <2> QED
    BY <1>2, <1>3, <1>4, <2>1
<1> QED
  BY <1>5, <1>6

\* A completion is added for a message that comes next of its client; in order, it is in
\* the buffer that the ring reaches after those of the other completions.
LEMMA CompleteKeepsInv ==
  ASSUME TypeOK, ThreadInv, CardInv, NEW c \in Clients, NEW buf \in Buffers, Complete(c, buf),
         UNCHANGED <<scenario, tpc, m_index, wc, handled>>,
         arrived'[c] = Completed[c] + 1, Completed' = [Completed EXCEPT ![c] = @ + 1],
         Unhandled' \subseteq Unhandled \cup {buf},
         Len(cq) + 1 + Len(wc) <= MaxMsgs,
         InOrder => buf = Slot[Len(cq) + 1] /\ Writing' = {},
         arrived'[c] \in Nat
  PROVE  /\ CardTypeOK => cq' \in Seq(Completions) /\ content' \in [Buffers -> Messages]
         /\ Len(cq') = Len(cq) + 1
         /\ AlignedInv' /\ ContentInv' /\ OrderInv' /\ HandledOnceInv'
<1> DEFINE n == Len(cq) + 1
           msg == <<c, arrived'[c]>>
           e == [sender |-> c, buf |-> buf, msg |-> msg]
<1>1. cq' = Append(cq, e) /\ content' = [content EXCEPT ![buf] = msg]
  BY DEF Complete
<1>2. msg \in Messages /\ msg[2] = arrived'[c] /\ msg[1] = c
  BY DEF Messages
<1>3. e \in Completions /\ e.sender = c /\ e.buf = buf /\ e.msg = msg
  BY <1>2 DEF Completions
<1> HIDE DEF msg, e
<1>4. cq \in Seq(Completions) /\ content \in [Buffers -> Messages]
  BY DEF TypeOK, CardTypeOK
<1>5. /\ cq' \in Seq(Completions) /\ Len(cq') = n /\ Len(cq) \in Nat
      /\ \A k \in 1 .. Len(cq) : cq'[k] = cq[k]
      /\ cq'[n] = e
  BY <1>1, <1>3, <1>4, AppendProperties, LenProperties
<1>6. /\ content' \in [Buffers -> Messages] /\ content'[buf] = msg
      /\ \A b \in Buffers \ {buf} : content'[b] = content[b]
  BY <1>1, <1>2, <1>4
<1>7. Slot' = Slot /\ Handling' = Handling /\ InOrder' = InOrder /\ Taken' = Taken
  BY DEF Slot, Position, Handling, InOrder, Taken
<1>8. ASSUME NEW k \in 1 .. n PROVE k = n \/ k \in 1 .. Len(cq)
  BY <1>5
<1>9. /\ Len(wc) \in Nat /\ (Holding => Len(wc) = 1)
      /\ MaxMsgs \in Nat /\ MaxMsgs > 0
  BY Counts, RingAssumption DEF ThreadInv, CardInv
<1>10. AlignedInv'
  <2> SUFFICES ASSUME InOrder PROVE AlignedInv'
    BY <1>7 DEF AlignedInv
  <2>1. ASSUME NEW k \in 1 .. n PROVE cq'[k].buf = Slot[k]
    BY <1>3, <1>5, <1>8 DEF AlignedInv, CardInv
  <2>2. Holding => wc[1].buf = Slot[MaxMsgs]
    BY DEF AlignedInv, CardInv
  <2> QED
    BY <1>5, <1>7, <2>1, <2>2 DEF AlignedInv, Holding
<1>11. ContentInv'
  <2> SUFFICES ASSUME InOrder PROVE ContentInv'
    BY <1>7 DEF ContentInv
  <2>1. ASSUME NEW k \in 1 .. n PROVE content'[cq'[k].buf] = cq'[k].msg
    <3>1. CASE k = n
      BY <1>3, <1>5, <1>6, <3>1
    <3>2. CASE k # n
      <4>1. k \in 1 .. Len(cq)
        BY <1>8, <3>2
      <4>2. cq[k].buf = Slot[k] /\ cq[k].buf \in Buffers
        BY <4>1, CompletionTypes DEF AlignedInv, CardInv
      <4>3. k \in 1 .. MaxMsgs /\ n \in 1 .. MaxMsgs
        BY <1>5, <1>9
      <4>4. cq[k].buf # buf
        BY <3>2, <4>2, <4>3, SlotIsBuffer
      <4>5. content[cq[k].buf] = cq[k].msg
        BY <4>1 DEF ContentInv, CardInv
      <4> QED
        BY <1>5, <1>6, <4>1, <4>2, <4>4, <4>5
    <3> QED
      BY <3>1, <3>2
  <2>2. ASSUME Handling PROVE content'[wc[1].buf] = wc[1].msg
    <3>1. Holding /\ Len(wc) = 1
      BY <1>9, <2>2 DEF Holding, Handling
    <3>2. wc[1].buf = Slot[MaxMsgs] /\ wc[1].buf \in Buffers
      BY <3>1, CompletionTypes DEF AlignedInv, CardInv
    <3>3. MaxMsgs \in 1 .. MaxMsgs /\ n \in 1 .. MaxMsgs /\ n # MaxMsgs
      BY <1>5, <1>9, <3>1
    <3>4. wc[1].buf # buf
      BY <3>2, <3>3, SlotIsBuffer
    <3> QED
      BY <1>6, <2>2, <3>2, <3>4 DEF ContentInv, CardInv
  <2> QED
    BY <1>5, <1>7, <2>1, <2>2 DEF ContentInv
<1>12. OrderInv'
  <2> SUFFICES ASSUME InOrder PROVE OrderInv'
    BY <1>7 DEF OrderInv
  <2>o. OrderInv
    BY DEF CardInv
  <2>1. \A d \in Clients : Taken[d] \in Nat /\ Completed[d] \in Int /\ Taken[d] <= Completed[d]
    BY TakenAreComplete
  <2>2. /\ Completed'[c] = Completed[c] + 1
        /\ \A d \in Clients \ {c} : Completed'[d] = Completed[d]
    BY DEF Completed
  <2>3. \A k \in 1 .. Len(cq) : cq[k].sender \in Clients
    BY CompletionTypes
  <2>4. ASSUME NEW k \in 1 .. n
        PROVE  /\ cq'[k].msg = <<cq'[k].sender, cq'[k].msg[2]>>
               /\ cq'[k].msg[2] \in Taken[cq'[k].sender] + 1 .. Completed'[cq'[k].sender]
    <3>1. CASE k = n
      <4>1. cq'[k].msg = <<c, Completed'[c]>> /\ cq'[k].sender = c
        BY <1>3, <1>5, <2>2, <3>1 DEF msg
      <4>2. Completed'[c] \in Taken[c] + 1 .. Completed'[c]
        BY <2>1, <2>2
      <4> QED
        BY <4>1, <4>2
    <3>2. CASE k # n
      <4>1. k \in 1 .. Len(cq) /\ cq'[k] = cq[k] /\ cq[k].sender \in Clients
        BY <1>5, <1>8, <2>3, <3>2
      <4>2. /\ cq[k].msg = <<cq[k].sender, cq[k].msg[2]>>
            /\ cq[k].msg[2] \in Taken[cq[k].sender] + 1 .. Completed[cq[k].sender]
        BY <2>o, <4>1 DEF OrderInv
      <4> QED
        BY <2>1, <2>2, <4>1, <4>2
    <3> QED
      BY <3>1, <3>2
  <2>5. ASSUME NEW j \in 1 .. n, NEW k \in 1 .. n, j < k, cq'[j].sender = cq'[k].sender
        PROVE  cq'[j].msg[2] < cq'[k].msg[2]
    <3>1. j \in 1 .. Len(cq) /\ cq'[j] = cq[j] /\ cq[j].sender \in Clients
      BY <1>5, <2>3, <2>5
    <3>2. CASE k = n
      <4>1. cq'[k].msg[2] = Completed[c] + 1 /\ cq'[k].sender = c
        BY <1>2, <1>3, <1>5, <3>2
      <4>2. cq[j].msg[2] \in Taken[c] + 1 .. Completed[c]
        BY <2>5, <2>o, <3>1, <4>1 DEF OrderInv
      <4> QED
        BY <2>1, <3>1, <4>1, <4>2
    <3>3. CASE k # n
      <4>1. k \in 1 .. Len(cq) /\ cq'[k] = cq[k]
        BY <1>5, <1>8, <3>3
      <4> QED
        BY <2>5, <2>o, <3>1, <4>1 DEF OrderInv
    <3> QED
      BY <3>2, <3>3
  <2>6. ASSUME NEW d \in Clients, NEW i \in Taken[d] + 1 .. Completed'[d]
        PROVE  \E k \in 1 .. n : cq'[k].msg = <<d, i>>
    <3>1. CASE d = c /\ i = Completed'[c]
      <4>1. cq'[n].msg = <<d, i>>
        BY <1>3, <1>5, <2>2, <3>1 DEF msg
      <4>2. n \in 1 .. n
        BY <1>5
      <4> QED
        BY <4>1, <4>2
    <3>2. CASE ~(d = c /\ i = Completed'[c])
      <4>1. i \in Taken[d] + 1 .. Completed[d]
        BY <2>1, <2>2, <3>2
      <4>2. PICK k \in 1 .. Len(cq) : cq[k].msg = <<d, i>>
        BY <2>o, <4>1 DEF OrderInv
      <4>3. k \in 1 .. n /\ cq'[k] = cq[k]
        BY <1>5
      <4> QED
        BY <4>2, <4>3
    <3> QED
      BY <3>1, <3>2
  <2>7. /\ \A d \in Clients : \A k \in DOMAIN handled[d] : handled[d][k] = k
        /\ Handling => wc[1].msg = <<wc[1].sender, Taken[wc[1].sender]>>
    BY <2>o DEF OrderInv
  <2>8. UNCHANGED <<handled, wc, Handling, Taken>>
    BY <1>7
  <2>9. Len(cq') = n
    BY <1>5
  <2> HIDE DEF n
  <2> QED
    BY <2>4, <2>5, <2>6, <2>7, <2>8, <2>9 DEF OrderInv
<1>13. HandledOnceInv'
  <2>1. ASSUME NEW d \in Clients
        PROVE  Len(handled[d]) + Cardinality(Waiting'[d]) <= Completed'[d]
    <3>1. IsFiniteSet(Waiting[d]) /\ Cardinality(Waiting[d]) \in Nat
      BY WaitingIsFinite DEF CardInv
    <3>2. Len(handled[d]) \in Nat /\ Completed[d] \in Int
      <4>1. handled[d] \in Seq(Nat) /\ arrived[d] \in Nat
        BY DEF TypeOK, ClientTypeOK
      <4> QED
        BY <4>1, LenProperties DEF Completed
    <3>3. Len(handled[d]) + Cardinality(Waiting[d]) <= Completed[d]
      BY DEF HandledOnceInv, CardInv
    <3>4. Unhandled \subseteq Buffers
      BY WaitingIsFinite DEF CardInv
    <3>5. CASE d = c
      <4>1. Waiting'[c] \subseteq Waiting[c] \cup {buf}
        BY <1>6, <3>4 DEF Waiting
      <4>2. /\ IsFiniteSet(Waiting[c] \cup {buf})
            /\ Cardinality(Waiting[c] \cup {buf})
                  = IF buf \in Waiting[c] THEN Cardinality(Waiting[c])
                                          ELSE Cardinality(Waiting[c]) + 1
        BY <3>1, <3>5, FS_AddElement
      <4>3. /\ IsFiniteSet(Waiting'[c])
            /\ Cardinality(Waiting'[c]) <= Cardinality(Waiting[c] \cup {buf})
        BY <4>1, <4>2, FS_Subset
      <4>4. Cardinality(Waiting'[c]) \in Nat
        BY <4>3, FS_CardinalityType
      <4>5. Cardinality(Waiting'[c]) <= Cardinality(Waiting[c]) + 1
        BY <3>1, <3>5, <4>2, <4>3, <4>4
      <4>6. Completed'[c] = Completed[c] + 1
        BY DEF Completed
      <4> QED
        BY <3>1, <3>2, <3>3, <3>5, <4>4, <4>5, <4>6
    <3>6. CASE d # c
      <4>1. Waiting'[d] \subseteq Waiting[d]
        BY <1>2, <1>6, <3>4, <3>6 DEF Waiting
      <4>2. IsFiniteSet(Waiting'[d]) /\ Cardinality(Waiting'[d]) <= Cardinality(Waiting[d])
        BY <3>1, <4>1, FS_Subset
      <4>3. Cardinality(Waiting'[d]) \in Nat
        BY <4>2, FS_CardinalityType
      <4>4. Completed'[d] = Completed[d]
        BY <3>6 DEF Completed
      <4> QED
        BY <3>1, <3>2, <3>3, <4>2, <4>3, <4>4
    <3> QED
      BY <3>5, <3>6
  <2> QED
    BY <2>1 DEF HandledOnceInv
<1> QED
  BY <1>5, <1>6, <1>10, <1>11, <1>12, <1>13

\* The first packet takes the receive of the ring's next posted buffer.  When an orderly
\* owner has ended no message is left to come.
LEMMA ReceiveTaken ==
  ASSUME IInv, ClientFrame, NEW c \in Clients, FirstPacket(c), srq # <<>>,
         Filled' = Filled + 1
  PROVE  /\ Head(srq) = Slot[Filled + 1] /\ Head(srq) \in Buffers
         /\ Filled + 1 + Len(wc) <= MaxMsgs
         /\ srq' \in Seq(Buffers) /\ ClientTypeOK' /\ CountInv' /\ RingInv' /\ SenderInv' /\ EndInv'
         /\ arrived[c] \in Nat /\ arrived'[c] = arrived[c] + 1
         /\ \A d \in Clients \ {c} : arrived'[d] = arrived[d]
         /\ UNCHANGED <<Slot, InOrder, Handling, Taken>>
<1> USE DEF ClientFrame
<1>t. TypeOK /\ CardInv /\ EndInv
  BY DEF IInv
<1>u. UNCHANGED <<tpc, m_index, wc, ibAddr, message, ended, m_kill>>
  BY DEF threadVars, loopVars, ownerVars
<1>p. /\ arrived[c] < sent[c] /\ c \notin broken
      /\ srq' = Tail(srq) /\ arrived' = [arrived EXCEPT ![c] = @ + 1]
      /\ lateWrite' = (lateWrite \/ ended = "destroyed")
      /\ UNCHANGED <<sent, handled, broken>>
  BY DEF FirstPacket
<1>a. sent \in [Clients -> Nat] /\ arrived \in [Clients -> Nat] /\ lateWrite \in BOOLEAN
  BY <1>t DEF TypeOK, ClientTypeOK
<1>r. arrived'[c] = arrived[c] + 1 /\ \A d \in Clients \ {c} : arrived'[d] = arrived[d]
  BY <1>a, <1>p
<1>q. /\ Head(srq) = srq[1] /\ srq[1] \in Buffers /\ Len(srq) \in Nat /\ Len(srq) > 0
      /\ srq' \in Seq(Buffers) /\ Len(srq') = Len(srq) - 1
      /\ \A k \in 1 .. Len(srq') : srq'[k] = srq[k + 1]
  <2>1. srq \in Seq(Buffers)
    BY <1>t DEF TypeOK, CardTypeOK
  <2> QED
    BY <1>p, <2>1, HeadAndTail
<1>k. /\ Filled \in Nat /\ Len(wc) \in Nat /\ Len(srq) + Filled + Len(wc) = MaxMsgs
      /\ MaxMsgs \in Nat
  BY <1>t, Counts, RingAssumption DEF CountInv, CardInv
<1>m. UNCHANGED <<Slot, InOrder, Handling, Taken>>
  BY <1>p, <1>u DEF Slot, Position, InOrder, Handling, Taken
<1>1. Head(srq) = Slot[Filled + 1] /\ Filled + 1 + Len(wc) <= MaxMsgs
  <2>1. 1 \in 1 .. Len(srq)
    BY <1>q
  <2> QED
    BY <1>k, <1>q, <1>t, <2>1 DEF RingInv, CardInv
<1>2. ClientTypeOK'
  <2>1. arrived' \in [Clients -> Nat] /\ lateWrite' \in BOOLEAN
    BY <1>a, <1>p
  <2> QED
    BY <1>p, <1>t, <2>1 DEF TypeOK, ClientTypeOK
<1>3. CountInv'
  <2>1. Len(wc') = Len(wc)
    BY <1>u
  <2>2. Len(srq') = Len(srq) - 1 /\ Len(srq) \in Nat
    BY <1>q
  <2>3. (Len(srq) - 1) + (Filled + 1) + Len(wc) = MaxMsgs
    BY <1>k, <2>2
  <2> QED
    BY <2>1, <2>2, <2>3 DEF CountInv
<1>4. RingInv'
  <2>1. ASSUME NEW k \in 1 .. Len(srq') PROVE srq'[k] = Slot[Filled' + k]
    <3>1. k + 1 \in 1 .. Len(srq) /\ Filled' + k = Filled + (k + 1) /\ srq'[k] = srq[k + 1]
      BY <1>k, <1>q
    <3> QED
      BY <1>t, <3>1 DEF RingInv, CardInv
  <2> QED
    BY <1>m, <1>t, <1>u, <2>1 DEF RingInv, CardInv
<1>5. SenderInv'
  BY <1>t, <1>u DEF SenderInv, CardInv
<1>6. EndInv'
  <2>1. arrived[c] # scenario.messages[c]
    <3>1. scenario.messages[c] \in Nat
      BY <1>t, ScenariosAssumption DEF TypeOK
    <3>2. sent[c] <= scenario.messages[c]
      BY <1>t DEF SentInv, CardInv
    <3> QED
      BY <1>a, <1>p, <3>1, <3>2
  <2>2. ended = "no" \/ ~scenario.orderly
    BY <1>p, <1>t, <2>1 DEF EndInv
  <2>3. lateWrite' => ~scenario.orderly
    BY <1>p, <1>t, <2>2 DEF EndInv
  <2> QED
    BY <1>u, <2>2, <2>3 DEF EndInv
<1> QED
  BY <1>1, <1>2, <1>3, <1>4, <1>5, <1>6, <1>a, <1>m, <1>q, <1>r

\* A client whose message finds no receive is broken.
LEMMA NoReceiveKeepsInv ==
  ASSUME IInv, ClientFrame, NEW c \in Clients, FirstPacket(c), srq = <<>>
  PROVE  IInv'
<1> USE DEF ClientFrame
<1>t. TypeOK /\ CardInv /\ EndInv
  BY DEF IInv
<1>u. UNCHANGED <<scenario, tpc, loopVars, cardVars, arrived, sent, handled, lateWrite, ended, m_kill>>
  BY DEF FirstPacket, threadVars, loopVars, ownerVars
<1>p. broken' = broken \cup {c}
  BY DEF FirstPacket
<1>1. ClientTypeOK'
  BY <1>p, <1>t, <1>u DEF TypeOK, ClientTypeOK
<1>2. CardTypeOK'
  BY <1>t, <1>u, CardTypeFrame DEF TypeOK
<1>m. /\ UNCHANGED <<Writing, Filled, Slot, Handling, InOrder, Taken, Completed>>
      /\ UNCHANGED <<Unhandled, Waiting>>
  BY <1>u DEF Writing, Filled, Slot, Position, Handling, InOrder, Taken, Completed, Unhandled,
     Waiting, cardVars, loopVars
<1>3. SentInv'
  BY <1>m, <1>t, <1>u DEF SentInv, CardInv
<1>4. CountInv' /\ RingInv' /\ SenderInv'
  BY <1>m, <1>t, <1>u DEF CountInv, RingInv, SenderInv, CardInv, cardVars, loopVars
<1>5. AlignedInv' /\ ContentInv'
  BY <1>m, <1>t, <1>u DEF AlignedInv, ContentInv, CardInv, Holding, cardVars, loopVars
<1>6. OrderInv'
  BY <1>m, <1>t, <1>u DEF OrderInv, CardInv, cardVars, loopVars
<1>7. HandledOnceInv'
  BY <1>m, <1>t, <1>u DEF HandledOnceInv, CardInv
<1>8. EndInv'
  BY <1>p, <1>t, <1>u DEF EndInv
<1> QED
  BY <1>1, <1>2, <1>3, <1>4, <1>5, <1>6, <1>7, <1>8, ClientKeepsHandlerInv
     DEF IInv, TypeOK, CardInv

\* A message of one packet is complete at once.
LEMMA OnlyPacketKeepsInv ==
  ASSUME IInv, ClientFrame, NEW c \in Clients, FirstPacket(c), srq # <<>>, scenario.packets = 1
  PROVE  IInv'
<1> USE DEF ClientFrame
<1> DEFINE buf == Head(srq)
<1>t. TypeOK /\ ThreadInv /\ CardInv
  BY DEF IInv
<1>u. UNCHANGED <<tpc, m_index, wc>>
  BY DEF threadVars, loopVars
<1>p. arrived[c] < sent[c] /\ Complete(c, buf) /\ UNCHANGED <<arriving, sent, handled>>
  BY DEF FirstPacket
<1>w. Writing = {} /\ Writing' = {}
  BY <1>p, <1>t DEF SentInv, CardInv, Writing
<1>k. Len(cq) \in Nat /\ Filled \in Nat /\ Filled = Len(cq) /\ Len(wc) \in Nat
  BY <1>t, <1>w, Counts, FS_EmptySet DEF Filled, CardInv
<1>q. Len(cq') = Len(cq) + 1
  <2>1. cq \in Seq(Completions)
    BY <1>t, CompletionTypes
  <2> QED
    BY <1>p, <2>1 DEF Complete
<1>f. Filled' = Filled + 1
  BY <1>k, <1>q, <1>w, FS_EmptySet DEF Filled
<1>r. /\ buf = Slot[Filled + 1] /\ buf \in Buffers /\ Filled + 1 + Len(wc) <= MaxMsgs
      /\ srq' \in Seq(Buffers) /\ ClientTypeOK' /\ CountInv' /\ RingInv' /\ SenderInv' /\ EndInv'
      /\ arrived[c] \in Nat /\ arrived'[c] = arrived[c] + 1
      /\ \A d \in Clients \ {c} : arrived'[d] = arrived[d]
      /\ UNCHANGED <<Slot, InOrder, Handling, Taken>>
  BY <1>f, ReceiveTaken
<1> HIDE DEF buf
<1>a. arrived \in [Clients -> Nat] /\ sent \in [Clients -> Nat]
  BY <1>t DEF TypeOK, ClientTypeOK
<1>1. Completed = arrived /\ Completed' = arrived' /\ Completed' = [Completed EXCEPT ![c] = @ + 1]
  <2>1. Completed = [d \in Clients |-> arrived[d]] /\ Completed' = [d \in Clients |-> arrived'[d]]
    BY <1>w DEF Completed
  <2>2. arrived' = [arrived EXCEPT ![c] = @ + 1]
    BY DEF FirstPacket
  <2> QED
    BY <1>a, <2>1, <2>2
<1>2. Unhandled' \subseteq Unhandled \cup {buf}
  <2>1. \A k \in 1 .. Filled + 1 : k \in 1 .. Filled \/ k = Filled + 1
    BY <1>k
  <2> QED
    BY <1>f, <1>r, <2>1 DEF Unhandled
<1>3. /\ cq' \in Seq(Completions) /\ content' \in [Buffers -> Messages]
      /\ AlignedInv' /\ ContentInv' /\ OrderInv' /\ HandledOnceInv'
  <2>1. arrived'[c] = Completed[c] + 1 /\ arrived'[c] \in Nat
    BY <1>1, <1>r
  <2>2. Len(cq) + 1 + Len(wc) <= MaxMsgs
    BY <1>k, <1>r
  <2>3. InOrder => buf = Slot[Len(cq) + 1] /\ Writing' = {}
    BY <1>k, <1>r, <1>w
  <2> QED
    BY <1>1, <1>2, <1>p, <1>r, <1>t, <1>u, <2>1, <2>2, <2>3, CompleteKeepsInv DEF TypeOK
<1>4. CardTypeOK'
  BY <1>3, <1>p, <1>r, <1>t DEF TypeOK, CardTypeOK
<1>5. SentInv'
  BY <1>a, <1>p, <1>r, <1>t, <1>w DEF SentInv, CardInv
<1> QED
  BY <1>3, <1>4, <1>5, <1>r, <1>t, ClientKeepsHandlerInv DEF IInv, TypeOK, CardInv

\* The first of two packets: the buffer is being written to, and its old content is gone.
LEMMA FirstOfTwoKeepsInv ==
  ASSUME IInv, ClientFrame, NEW c \in Clients, FirstPacket(c), srq # <<>>, scenario.packets # 1
  PROVE  IInv'
<1> USE DEF ClientFrame
<1> DEFINE buf == Head(srq)
<1>t. TypeOK /\ ThreadInv /\ CardInv
  BY DEF IInv
<1>u. UNCHANGED <<tpc, m_index, wc>>
  BY DEF threadVars, loopVars
<1>p. /\ arrived[c] < sent[c] /\ arriving[c] = NoBuffer
      /\ arriving' = [arriving EXCEPT ![c] = buf]
      /\ content' = [content EXCEPT ![buf] = NoMessage] /\ UNCHANGED <<cq, sent, handled>>
  BY DEF FirstPacket
<1>b. buf \in Buffers
  <2>1. srq \in Seq(Buffers)
    BY <1>t DEF TypeOK, CardTypeOK
  <2> QED
    BY <2>1, HeadAndTail
<1> HIDE DEF buf
<1>y. arriving \in [Clients -> Buffers \cup {NoBuffer}] /\ content \in [Buffers -> Messages]
  BY <1>t DEF TypeOK, CardTypeOK
<1>e. /\ arriving'[c] = buf /\ content'[buf] = NoMessage
      /\ \A d \in Clients \ {c} : arriving'[d] = arriving[d]
      /\ \A b \in Buffers \ {buf} : content'[b] = content[b]
  BY <1>b, <1>p, <1>y
<1>w. Writing' = Writing \cup {c} /\ c \notin Writing
  <2>1. buf # NoBuffer
    BY <1>b, RingAssumption DEF Buffers, NoBuffer
  <2> QED
    BY <1>e, <1>p, <2>1 DEF Writing
<1>k. /\ Len(cq) \in Nat /\ Filled \in Nat /\ Len(wc) \in Nat
      /\ IsFiniteSet(Writing) /\ Cardinality(Writing) \in Nat /\ Filled = Len(cq) + Cardinality(Writing)
  BY <1>t, Counts DEF Filled, CardInv
<1>f. Filled' = Filled + 1
  <2>1. Cardinality(Writing') = Cardinality(Writing) + 1
    BY <1>k, <1>w, FS_AddElement
  <2> QED
    BY <1>k, <1>p, <2>1 DEF Filled
<1>r. /\ buf = Slot[Filled + 1] /\ Filled + 1 + Len(wc) <= MaxMsgs
      /\ srq' \in Seq(Buffers) /\ ClientTypeOK' /\ CountInv' /\ RingInv' /\ SenderInv' /\ EndInv'
      /\ arrived[c] \in Nat /\ arrived'[c] = arrived[c] + 1
      /\ \A d \in Clients \ {c} : arrived'[d] = arrived[d]
      /\ UNCHANGED <<Slot, InOrder, Handling, Taken>>
  BY <1>f, ReceiveTaken DEF buf
<1>a. arrived \in [Clients -> Nat] /\ sent \in [Clients -> Nat]
      /\ scenario.messages \in [Clients -> Nat] /\ scenario.packets = 2
  BY <1>t, ScenariosAssumption DEF TypeOK, ClientTypeOK
<1>1. Completed' = Completed
  BY <1>a, <1>r, <1>w DEF Completed
<1>2. CardTypeOK'
  <2>1. arriving' \in [Clients -> Buffers \cup {NoBuffer}]
    BY <1>b, <1>p, <1>y
  <2>2. content' \in [Buffers -> Messages]
    BY <1>b, <1>p, <1>y DEF Messages
  <2> QED
    BY <1>p, <1>r, <1>t, <2>1, <2>2 DEF TypeOK, CardTypeOK
<1>3. SentInv'
  BY <1>a, <1>p, <1>r, <1>t, <1>w DEF SentInv, CardInv
<1>o. InOrder => Writing = {} /\ buf = Slot[Len(cq) + 1] /\ Len(cq) + 1 + Len(wc) <= MaxMsgs
  <2> SUFFICES ASSUME InOrder PROVE Writing = {}
    BY <1>k, <1>r, FS_EmptySet
  <2>1. ASSUME NEW d \in Writing PROVE FALSE
    <3>1. d \in Clients /\ arrived[d] > 0 /\ arrived[d] <= sent[d] /\ sent[d] <= scenario.messages[d]
      BY <1>t DEF SentInv, CardInv, Writing
    <3>2. scenario.messages[d] > 0
      BY <1>a, <3>1
    <3>3. arrived[c] < sent[c] /\ sent[c] <= scenario.messages[c]
      BY <1>p, <1>t DEF SentInv, CardInv
    <3>4. scenario.messages[c] > 0
      BY <1>a, <3>3
    <3>5. c = d
      BY <1>a, <1>t, <3>1, <3>2, <3>4, OneSender
    <3> QED
      BY <1>w, <3>5
  <2> QED
    BY <2>1
<1>4. AlignedInv'
  <2> SUFFICES ASSUME InOrder PROVE AlignedInv'
    BY <1>r DEF AlignedInv
  <2>1. Writing' = {c} /\ arriving'[c] = Slot[Len(cq) + 1]
    BY <1>e, <1>o, <1>w
  <2> QED
    BY <1>p, <1>r, <1>t, <1>u, <2>1 DEF AlignedInv, CardInv, Holding
<1>5. ContentInv'
  <2> SUFFICES ASSUME InOrder PROVE ContentInv'
    BY <1>r DEF ContentInv
  <2>0. Len(cq) + 1 \in 1 .. MaxMsgs /\ MaxMsgs \in Nat
    BY <1>k, <1>o, RingAssumption
  <2>1. ASSUME NEW k \in 1 .. Len(cq) PROVE content'[cq[k].buf] = cq[k].msg
    <3>1. cq[k].buf = Slot[k] /\ cq[k].buf \in Buffers
      BY <1>t, CompletionTypes DEF AlignedInv, CardInv
    <3>2. k \in 1 .. MaxMsgs /\ k # Len(cq) + 1
      BY <1>k, <2>0
    <3>3. cq[k].buf # buf
      BY <1>o, <1>t, <2>0, <3>1, <3>2, SlotIsBuffer
    <3> QED
      BY <1>e, <1>t, <3>1, <3>3 DEF ContentInv, CardInv
  <2>2. ASSUME Handling PROVE content'[wc[1].buf] = wc[1].msg
    <3>1. Holding /\ Len(wc) = 1
      BY <1>t, <2>2 DEF Holding, Handling, ThreadInv
    <3>2. wc[1].buf = Slot[MaxMsgs] /\ wc[1].buf \in Buffers
      BY <1>t, <3>1, CompletionTypes DEF AlignedInv, CardInv
    <3>3. MaxMsgs \in 1 .. MaxMsgs /\ Len(cq) + 1 # MaxMsgs
      BY <1>k, <1>o, <2>0, <3>1
    <3>4. wc[1].buf # buf
      BY <1>o, <1>t, <2>0, <3>2, <3>3, SlotIsBuffer
    <3> QED
      BY <1>e, <1>t, <2>2, <3>2, <3>4 DEF ContentInv, CardInv
  <2> QED
    BY <1>p, <1>r, <1>u, <2>1, <2>2 DEF ContentInv
<1>6. OrderInv'
  BY <1>1, <1>p, <1>r, <1>t, <1>u DEF OrderInv, CardInv
<1>7. HandledOnceInv'
  <2>1. Unhandled' \subseteq Unhandled \cup {buf}
    <3>1. \A k \in 1 .. Filled + 1 : k \in 1 .. Filled \/ k = Filled + 1
      BY <1>k
    <3> QED
      BY <1>f, <1>r, <3>1 DEF Unhandled
  <2>2. ASSUME NEW d \in Clients
        PROVE  Len(handled[d]) + Cardinality(Waiting'[d]) <= Completed[d]
    <3>1. IsFiniteSet(Waiting[d]) /\ Cardinality(Waiting[d]) \in Nat /\ Unhandled \subseteq Buffers
      BY <1>t, WaitingIsFinite DEF CardInv
    <3>2. Waiting'[d] \subseteq Waiting[d]
      BY <1>e, <2>1, <3>1 DEF Waiting
    <3>3. IsFiniteSet(Waiting'[d]) /\ Cardinality(Waiting'[d]) <= Cardinality(Waiting[d])
      BY <3>1, <3>2, FS_Subset
    <3>4. Cardinality(Waiting'[d]) \in Nat
      BY <3>3, FS_CardinalityType
    <3>5. Len(handled[d]) \in Nat /\ Completed[d] \in Int
      <4>1. handled[d] \in Seq(Nat) /\ arrived[d] \in Nat
        BY <1>t DEF TypeOK, ClientTypeOK
      <4> QED
        BY <4>1, LenProperties DEF Completed
    <3>6. Len(handled[d]) + Cardinality(Waiting[d]) <= Completed[d]
      BY <1>t DEF HandledOnceInv, CardInv
    <3> QED
      BY <3>1, <3>3, <3>4, <3>5, <3>6
  <2> QED
    BY <1>1, <1>p, <2>2 DEF HandledOnceInv
<1> QED
  BY <1>2, <1>3, <1>4, <1>5, <1>6, <1>7, <1>r, <1>t, ClientKeepsHandlerInv
     DEF IInv, TypeOK, CardInv

\* The last packet completes the message in the buffer that it has been writing to.
LEMMA LastPacketKeepsInv ==
  ASSUME IInv, ClientFrame, NEW c \in Clients, LastPacket(c)
  PROVE  IInv'
<1> USE DEF ClientFrame
<1> DEFINE buf == arriving[c]
<1>t. TypeOK /\ ThreadInv /\ CardInv /\ EndInv
  BY DEF IInv
<1>u. UNCHANGED <<tpc, m_index, wc, ibAddr, message, ended, m_kill>>
  BY DEF threadVars, loopVars, ownerVars
<1>p. /\ buf # NoBuffer /\ Complete(c, buf) /\ arriving' = [arriving EXCEPT ![c] = NoBuffer]
      /\ UNCHANGED <<arrived, sent, broken, srq, handled, lateWrite>>
  BY DEF LastPacket
<1>y. arriving \in [Clients -> Buffers \cup {NoBuffer}]
  BY <1>t DEF TypeOK, CardTypeOK
<1>b. buf \in Buffers
  BY <1>p, <1>y
<1>e. arriving'[c] = NoBuffer /\ \A d \in Clients \ {c} : arriving'[d] = arriving[d]
  BY <1>p, <1>y
<1>w. Writing' = Writing \ {c} /\ c \in Writing
  BY <1>e, <1>p DEF Writing
<1>k. /\ Len(cq) \in Nat /\ Filled \in Nat /\ Len(wc) \in Nat /\ IsFiniteSet(Writing)
      /\ Cardinality(Writing) \in Nat /\ Filled = Len(cq) + Cardinality(Writing)
      /\ Filled + Len(wc) <= MaxMsgs /\ MaxMsgs \in Nat
  BY <1>t, Counts, RingAssumption DEF Filled, CardInv
<1>z. Cardinality(Writing) > 0
  BY <1>k, <1>w, FS_EmptySet
<1>q. Len(cq') = Len(cq) + 1
  <2>1. cq \in Seq(Completions)
    BY <1>t, CompletionTypes
  <2> QED
    BY <1>p, <2>1 DEF Complete
<1>f. Filled' = Filled
  <2>1. Cardinality(Writing') = Cardinality(Writing) - 1
    BY <1>k, <1>w, FS_RemoveElement
  <2> QED
    BY <1>k, <1>q, <2>1 DEF Filled
<1>m. UNCHANGED <<Slot, InOrder, Handling>>
  BY <1>u DEF Slot, Position, InOrder, Handling
<1>a. arrived \in [Clients -> Nat]
  BY <1>t DEF TypeOK, ClientTypeOK
<1>o. InOrder => buf = Slot[Len(cq) + 1] /\ Writing' = {}
  <2> SUFFICES ASSUME InOrder PROVE buf = Slot[Len(cq) + 1] /\ Writing' = {}
    OBVIOUS
  <2>1. Writing = {c}
    BY <1>t, <1>w, OneWriter DEF CardInv
  <2> QED
    BY <1>t, <1>w, <2>1 DEF AlignedInv, CardInv
<1> HIDE DEF buf
<1>1. Completed'[c] = Completed[c] + 1 /\ arrived'[c] = Completed[c] + 1 /\ arrived'[c] \in Nat
      /\ Completed' = [Completed EXCEPT ![c] = @ + 1]
  <2>1. Completed[c] = arrived[c] - 1 /\ Completed'[c] = arrived[c]
    BY <1>p, <1>w DEF Completed
  <2>2. \A d \in Clients \ {c} : Completed'[d] = Completed[d]
    BY <1>p, <1>w DEF Completed
  <2>3. Completed' = [d \in Clients |-> Completed'[d]] /\ Completed = [d \in Clients |-> Completed[d]]
    BY DEF Completed
  <2>4. arrived[c] \in Nat /\ arrived[c] = (arrived[c] - 1) + 1
    BY <1>a
  <2>5. Completed'[c] = Completed[c] + 1
    BY <2>1, <2>4
  <2> QED
    BY <1>p, <2>1, <2>2, <2>3, <2>4, <2>5
<1>2. Unhandled' \subseteq Unhandled \cup {buf}
  BY <1>f, <1>m DEF Unhandled
<1>3. /\ cq' \in Seq(Completions) /\ content' \in [Buffers -> Messages]
      /\ AlignedInv' /\ ContentInv' /\ OrderInv' /\ HandledOnceInv'
  <2>1. Len(cq) + 1 + Len(wc) <= MaxMsgs
    BY <1>k, <1>z
  <2> QED
    BY <1>1, <1>2, <1>b, <1>o, <1>p, <1>t, <1>u, <2>1, CompleteKeepsInv DEF TypeOK
<1>4. CardTypeOK'
  <2>1. arriving' \in [Clients -> Buffers \cup {NoBuffer}]
    BY <1>p, <1>y
  <2> QED
    BY <1>3, <1>p, <1>t, <2>1 DEF TypeOK, CardTypeOK
<1>5. ClientTypeOK'
  BY <1>p, <1>t DEF TypeOK, ClientTypeOK
<1>6. SentInv'
  BY <1>p, <1>t, <1>w DEF SentInv, CardInv
<1>7. CountInv' /\ RingInv' /\ SenderInv'
  BY <1>f, <1>m, <1>p, <1>t, <1>u DEF CountInv, RingInv, SenderInv, CardInv
<1>8. EndInv'
  BY <1>p, <1>t, <1>u DEF EndInv
<1> QED
  BY <1>3, <1>4, <1>5, <1>6, <1>7, <1>8, <1>t, ClientKeepsHandlerInv DEF IInv, TypeOK, CardInv

\* Each step of a client, and of the fabric for it, keeps the invariant.
LEMMA ClientKeepsInv ==
  ASSUME IInv, UNCHANGED scenario, NEW c \in Clients, Client(c)
  PROVE  IInv'
<1>1. ClientFrame
  BY DEF Client, ClientFrame
<1>2. CASE Send(c)
  BY <1>1, <1>2, SendKeepsInv
<1>3. CASE FirstPacket(c)
  BY <1>1, <1>3, NoReceiveKeepsInv, OnlyPacketKeepsInv, FirstOfTwoKeepsInv
<1>4. CASE LastPacket(c)
  BY <1>1, <1>4, LastPacketKeepsInv
<1> QED
  BY <1>2, <1>3, <1>4 DEF Client

-----------------------------------------------------------------------------
(***************************************************************************)
(* The theorems                                                            *)
(***************************************************************************)
\* initMemory() has posted the ring in order, and m_index starts at its first buffer.
LEMMA InitEstablishesInv == Init => IInv
<1> SUFFICES ASSUME Init PROVE IInv
  OBVIOUS
<1> USE RingAssumption
<1>1. results \in Results /\ wc \in Seq(Completions) /\ cq \in Seq(Completions)
      /\ Len(wc) = 0 /\ Len(cq) = 0 /\ \A c \in Clients : handled[c] \in Seq(Nat) /\ Len(handled[c]) = 0
  BY EmptySeq DEF Init, Results
<1>2. m_index \in 0 .. IndexMod - 1
  BY DivMod DEF Init
<1>3. srq \in Seq(Buffers) /\ Len(srq) = MaxMsgs /\ \A k \in 1 .. MaxMsgs : srq[k] = k - 1
  BY DEF Init, Buffers
<1>4. OwnerTypeOK /\ ThreadTypeOK
  BY <1>1 DEF Init, OwnerTypeOK, ThreadTypeOK
<1>5. LoopTypeOK
  BY <1>1, <1>2 DEF Init, LoopTypeOK
<1>6. CardTypeOK
  BY <1>1, <1>3 DEF Init, CardTypeOK, Messages
<1>7. ClientTypeOK
  BY <1>1 DEF Init, ClientTypeOK
<1>8. TypeOK
  BY <1>4, <1>5, <1>6, <1>7 DEF Init, TypeOK
<1>9. OwnerInv /\ OnceInv /\ EndInv
  BY DEF Init, OwnerInv, OnceInv, EndInv, Starting, Ending
<1>10. ThreadInv
  BY <1>1 DEF Init, ThreadInv, Holding
<1>11. Writing = {} /\ Cardinality(Writing) = 0 /\ Filled = 0
  <2>1. Writing = {}
    BY DEF Init, Writing
  <2>2. Cardinality(Writing) = 0
    BY <2>1, FS_EmptySet
  <2> QED
    BY <1>1, <2>1, <2>2 DEF Filled
<1>12. SentInv
  BY <1>8, <1>11, ScenariosAssumption DEF Init, SentInv, TypeOK
<1>13. CountInv
  BY <1>1, <1>3, <1>11 DEF CountInv
<1>14. RingInv
  <2>1. ASSUME NEW k \in 1 .. MaxMsgs PROVE Slot[k] = k - 1
    <3>1. PICK a \in Nat : a = MaxMsgs
      OBVIOUS
    <3>2. PICK b \in Int : b = k - 1
      OBVIOUS
    <3>3. ((a % IndexMod) + b) % MaxMsgs = (a + b) % MaxMsgs
      BY ModMod
    <3>4. (b + MaxMsgs) % MaxMsgs = b % MaxMsgs
      BY ModShift
    <3>5. b % MaxMsgs = b
      BY <3>2
    <3>6. a + b = b + MaxMsgs
      BY <3>1
    <3>7. a % IndexMod \in Int
      BY DivMod
    <3>8. (a % IndexMod) + k - 1 = (a % IndexMod) + b
      BY <3>2, <3>7
    <3>9. Position = a % IndexMod
      BY <3>1 DEF Init, Position
    <3>10. Slot[k] = (Position + k - 1) % MaxMsgs
      BY DEF Slot
    <3> QED
      BY <3>2, <3>3, <3>4, <3>5, <3>6, <3>8, <3>9, <3>10
  <2> QED
    BY <1>3, <1>11, <2>1 DEF Init, RingInv
<1>15. AlignedInv /\ ContentInv /\ SenderInv
  BY <1>1, <1>11 DEF Init, AlignedInv, ContentInv, SenderInv, Holding, Handling
<1>16. Taken = [c \in Clients |-> 0] /\ Completed = [c \in Clients |-> 0]
  BY <1>1, <1>11 DEF Init, Taken, Completed, Handling
<1>17. OrderInv
  BY <1>1, <1>16 DEF Init, OrderInv, Handling
<1>18. HandledOnceInv
  <2>1. \A c \in Clients : Waiting[c] = {}
    BY <1>11 DEF Init, Waiting, Unhandled, Handling
  <2>2. ASSUME NEW c \in Clients PROVE Len(handled[c]) + Cardinality(Waiting[c]) <= Completed[c]
    <3>1. Cardinality(Waiting[c]) = 0
      BY <2>1, FS_EmptySet
    <3> QED
      BY <1>1, <1>16, <3>1
  <2> QED
    BY <2>2 DEF HandledOnceInv
<1> QED
  BY <1>8, <1>9, <1>10, <1>12, <1>13, <1>14, <1>15, <1>17, <1>18 DEF IInv, CardInv

\* The invariant is inductive.
LEMMA NextKeepsInv == IInv /\ [Next]_vars => IInv'
<1> SUFFICES ASSUME IInv, [Next]_vars PROVE IInv'
  OBVIOUS
<1>1. CASE Next
  BY <1>1, OwnerKeepsInv, HandlerKeepsInv, ClientKeepsInv DEF Next
<1>2. CASE UNCHANGED vars
  <2>1. UNCHANGED <<scenario, ownerVars, threadVars, loopVars, cardVars, clientVars, historyVars>>
    BY <1>2 DEF vars, progress
  <2>2. CardInv'
    BY <2>1, CardFrame DEF IInv, threadVars, historyVars
  <2>3. EndInv'
    BY <2>1, EndFrame DEF IInv, ownerVars, historyVars
  <2>4. (CardTypeOK /\ ClientTypeOK)'
    BY <2>1, CardTypeFrame, ClientTypeFrame DEF IInv, TypeOK
  <2> QED
    BY <2>1, <2>2, <2>3, <2>4, ClientKeepsHandlerInv DEF IInv, TypeOK, ClientFrame
<1> QED
  BY <1>1, <1>2

\* What the handler, the card and the clients keep true of each other, whatever the order
\* of the completions.
THEOREM InvariantHolds == Spec => []IInv
<1>1. Init => IInv
  BY InitEstablishesInv
<1>2. IInv /\ [Next]_vars => IInv'
  BY NextKeepsInv
<1> QED
  BY <1>1, <1>2, PTL DEF Spec

\* Pending follows the ring: completions, the buffer being written to, receives.
LEMMA RingIsAligned == IInv => RingAligned
<1> SUFFICES ASSUME IInv, InOrder PROVE RingAligned
  BY DEF RingAligned
<1> DEFINE done == [k \in DOMAIN cq |-> cq[k].buf]
           half == IF Writing = {} THEN <<>> ELSE <<arriving[CHOOSE c \in Writing : TRUE]>>
<1>t. TypeOK /\ CardInv /\ ThreadInv
  BY DEF IInv
<1>k. /\ Len(cq) \in Nat /\ Len(srq) \in Nat /\ Len(wc) \in Nat /\ Len(wc) <= 1 /\ Filled \in Nat
      /\ Filled = Len(cq) + Cardinality(Writing) /\ Len(srq) + Filled + Len(wc) = MaxMsgs
  BY <1>t, Counts DEF Filled, CountInv, CardInv
<1>1. /\ done \in Seq(Buffers) /\ Len(done) = Len(cq)
      /\ \A k \in 1 .. Len(cq) : done[k] = Slot[k]
  <2>1. DOMAIN cq = 1 .. Len(cq) /\ \A k \in 1 .. Len(cq) : cq[k].buf \in Buffers
    BY <1>t, CompletionTypes, LenProperties
  <2>2. \A k \in 1 .. Len(cq) : cq[k].buf = Slot[k]
    BY <1>t DEF AlignedInv, CardInv
  <2> QED
    BY <1>k, <2>1, <2>2
<1>2. /\ half \in Seq(Buffers) /\ Len(half) = Cardinality(Writing) /\ Cardinality(Writing) \in Nat
      /\ \A k \in 1 .. Len(half) : half[k] = Slot[Len(cq) + k]
  <2>1. CASE Writing = {}
    BY <2>1, EmptySeq, FS_EmptySet
  <2>2. CASE Writing # {}
    <3>1. PICK c \in Clients : Writing = {c}
      BY <1>t, <2>2, OneWriter DEF CardInv
    <3>2. half = <<arriving[c]>>
      BY <3>1
    <3>3. Cardinality(Writing) = 1
      BY <3>1, FS_Singleton
    <3>4. arriving[c] = Slot[Len(cq) + 1]
      BY <1>t, <3>1 DEF AlignedInv, CardInv
    <3>5. arriving[c] \in Buffers
      BY <1>t, <3>1 DEF Writing, TypeOK, CardTypeOK
    <3> HIDE DEF half
    <3>6. half \in Seq(Buffers) /\ Len(half) = 1 /\ half[1] = arriving[c]
      BY <3>2, <3>5, OneElement
    <3>7. \A k \in 1 .. Len(half) : half[k] = Slot[Len(cq) + k]
      BY <3>4, <3>6
    <3> QED
      BY <3>3, <3>6, <3>7
  <2> QED
    BY <2>1, <2>2
<1>3. srq \in Seq(Buffers) /\ \A k \in 1 .. Len(srq) : srq[k] = Slot[Filled + k]
  BY <1>t DEF TypeOK, CardTypeOK, RingInv, CardInv
<1>4. Pending = (done \o half) \o srq
  BY DEF Pending, Writing
<1> HIDE DEF done, half
<1>5. /\ done \o half \in Seq(Buffers) /\ Len(done \o half) = Filled
      /\ \A k \in 1 .. Filled : (done \o half)[k] = Slot[k]
  <2>1. /\ done \o half \in Seq(Buffers) /\ Len(done \o half) = Len(done) + Len(half)
        /\ \A k \in 1 .. Len(done) + Len(half) :
              (done \o half)[k] = IF k <= Len(done) THEN done[k] ELSE half[k - Len(done)]
    BY <1>1, <1>2, ConcatProperties
  <2>2. ASSUME NEW k \in 1 .. Filled PROVE (done \o half)[k] = Slot[k]
    <3>1. CASE k <= Len(cq)
      BY <1>1, <1>2, <1>k, <2>1, <3>1
    <3>2. CASE ~(k <= Len(cq))
      <4>1. k - Len(cq) \in 1 .. Len(half) /\ Len(cq) + (k - Len(cq)) = k
        BY <1>2, <1>k, <3>2
      <4>2. (done \o half)[k] = half[k - Len(cq)]
        BY <1>1, <1>2, <1>k, <2>1, <3>2
      <4> QED
        BY <1>2, <4>1, <4>2
    <3> QED
      BY <3>1, <3>2
  <2> QED
    BY <1>1, <1>2, <1>k, <2>1, <2>2
<1>6. /\ Pending \in Seq(Buffers) /\ Len(Pending) = Filled + Len(srq)
      /\ \A k \in 1 .. Len(Pending) : Pending[k] = Slot[k]
  <2> DEFINE s == done \o half
  <2>0. s \in Seq(Buffers) /\ Len(s) = Filled /\ \A k \in 1 .. Filled : s[k] = Slot[k]
    BY <1>5
  <2>4. Pending = s \o srq
    BY <1>4
  <2> HIDE DEF s
  <2>1. /\ Pending \in Seq(Buffers) /\ Len(Pending) = Len(s) + Len(srq)
        /\ \A k \in 1 .. Len(s) + Len(srq) :
              Pending[k] = IF k <= Len(s) THEN s[k] ELSE srq[k - Len(s)]
    BY <1>3, <2>0, <2>4, ConcatProperties
  <2>2. ASSUME NEW k \in 1 .. Len(Pending) PROVE Pending[k] = Slot[k]
    <3>1. CASE k <= Filled
      BY <1>k, <2>0, <2>1, <3>1
    <3>2. CASE k > Filled
      <4>1. k - Filled \in 1 .. Len(srq) /\ Filled + (k - Filled) = k
        BY <1>k, <2>0, <2>1, <3>2
      <4>2. Pending[k] = srq[k - Filled]
        BY <1>k, <2>0, <2>1, <3>2
      <4> QED
        BY <1>3, <4>1, <4>2
    <3> QED
      BY <1>k, <3>1, <3>2
  <2> QED
    BY <2>0, <2>1, <2>2
<1>7. Len(Pending) = IF wc = <<>> THEN MaxMsgs ELSE MaxMsgs - 1
  <2>1. wc = <<>> <=> Len(wc) = 0
    BY <1>t, CompletionTypes, EmptySeq
  <2> QED
    BY <1>6, <1>k, <2>1
<1>8. ASSUME NEW k \in DOMAIN Pending PROVE Pending[k] = (Position + k - 1) % MaxMsgs
  <2>1. k \in 1 .. Len(Pending)
    BY <1>6, <1>8, LenProperties
  <2>2. k \in 1 .. MaxMsgs + 1
    BY <1>6, <1>k, <2>1
  <2> QED
    BY <1>6, <2>1, <2>2 DEF Slot
<1> QED
  BY <1>7, <1>8 DEF RingAligned, Position

\* The handler's end is clean: it has been joined, unless it was never stopped or started
\* again, and nothing is written to the ring after an orderly owner has given it back.
LEMMA EndsInOrderHolds == IInv => EndsInOrder
<1> SUFFICES ASSUME IInv PROVE EndsInOrder
  OBVIOUS
<1>1. ended = "terminate" => NoStop \/ ~Once
  BY DEF IInv, OnceInv
<1>2. ended # "no" => ~Starting
  BY DEF IInv, OwnerInv, Starting
<1>3. ended = "terminate" =>
         NoStop \/ \E j, k \in DOMAIN results :
            j < k /\ results[j].call = "stopHandler" /\ results[k].call = "startHandler"
  BY <1>1, <1>2 DEF Once
<1>4. lateWrite => ~scenario.orderly
  BY DEF IInv, EndInv
<1> QED
  BY <1>3, <1>4 DEF EndsInOrder, NoStop

\* The card never reports more than the queue of completions holds, the ring and the card
\* agree on the next buffer, and the handler ends cleanly.
THEOREM RpcHandlerInvHolds == Spec => []RpcHandlerInv
<1>1. IInv => RpcHandlerInv
  <2> SUFFICES ASSUME IInv PROVE RpcHandlerInv
    OBVIOUS
  <2>1. Len(cq) <= CqSize
    <3>1. Len(cq) \in Nat /\ Len(cq) <= Filled /\ Filled \in Nat /\ Len(wc) \in Nat
          /\ Filled + Len(wc) <= MaxMsgs
      BY Counts DEF IInv, CardInv
    <3> QED
      BY <3>1, RingAssumption
  <2>2. m_processing => tpc \in {"test", "poll", "found", "handle", "repost", "leave"}
    BY DEF IInv, ThreadInv
  <2>3. ~m_poll => m_kill /\ opc = "joining"
    BY DEF IInv, OwnerInv
  <2> QED
    BY <2>1, <2>2, <2>3, RingIsAligned, EndsInOrderHolds DEF IInv, RpcHandlerInv
<1> QED
  BY <1>1, InvariantHolds, PTL

\* As long as completions come in the order of the receives, the handler is called with the
\* message that was received, and with each client's messages in order and once.
THEOREM HandledIsReceivedHolds == Spec => []HandledIsReceived
<1>1. IInv => HandledIsReceived
  <2> SUFFICES ASSUME IInv, InOrder PROVE HandledIsReceived
    BY DEF HandledIsReceived
  <2>1. ASSUME tpc = "handle"
        PROVE  /\ message = wc[1].buf /\ content[message] = wc[1].msg
               /\ ibAddr = wc[1].sender \/ (ibAddr = Unset /\ m_kill)
    BY <2>1 DEF IInv, CardInv, RingInv, AlignedInv, ContentInv, SenderInv, Holding, Handling
  <2>2. \A c \in Clients : \A k \in DOMAIN handled[c] : handled[c][k] = k
    BY DEF IInv, CardInv, OrderInv
  <2> QED
    BY <2>1, <2>2 DEF HandledIsReceived
<1> QED
  BY <1>1, InvariantHolds, PTL

\* In whatever order completions come: no message is handled twice.
THEOREM HandledAtMostOnce == Spec => [](\A c \in Clients : Len(handled[c]) <= arrived[c])
<1>1. IInv => \A c \in Clients : Len(handled[c]) <= arrived[c]
  BY HandledHaveArrived DEF IInv, CardInv
<1> QED
  BY <1>1, InvariantHolds, PTL

=============================================================================
