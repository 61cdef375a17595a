-------------------------- MODULE MCRequestResponse --------------------------
(* Two clients and one or two receivers.  The clients run in one process or   *)
(* in two; the node id of a receiver lies between theirs, or theirs start     *)
(* at 0, as when they have registered first.                                  *)
EXTENDS RequestResponse, TLC

CONSTANTS c1, c2, r1, r2, p1, p2

TwoClients == {c1, c2}
OneReceiver == {r1}
TwoReceivers == {r1, r2}
OneProcess == c1 :> p1 @@ c2 :> p1
TwoProcesses == c1 :> p1 @@ c2 :> p2

\* Ids with a gap (a receiver's), and ids of clients that have registered before any
\* receiver.
IdsWithGap == c1 :> 0 @@ c2 :> 2
IdsFromZero == c1 :> 0 @@ c2 :> 1

\* The modes: main.cc with the four pairs of verbs, sharedMemMain.cc, main.cc
\* with empty mailboxes; two receivers; and early Init messages.
Plain(request, response) == [request |-> request, response |-> response, shared |-> FALSE,
                             empty |-> FALSE, inline |-> FALSE, requests |-> 2, receivers |-> 1, early |-> FALSE]
Inlined(request, response) == [Plain(request, response) EXCEPT !.inline = TRUE]
SendSend == {Plain("SEND", "SEND")}
AllForms ==
    {Plain("WRITE", "WRITE"), Inlined("SEND", "WRITE"), [Plain("SEND", "WRITE") EXCEPT !.shared = TRUE],
     [Inlined("WRITE", "SEND") EXCEPT !.requests = 3], [Plain("WRITE", "SEND") EXCEPT !.empty = TRUE],
     [Inlined("WRITE", "WRITE") EXCEPT !.shared = TRUE], Plain("SEND", "SEND"),
     [Inlined("WRITE", "WRITE") EXCEPT !.receivers = 2],
     [Plain("SEND", "SEND") EXCEPT !.early = TRUE]}

OneReceiverOrder == <<r1>>
TwoReceiversOrder == <<r1, r2>>
=============================================================================
