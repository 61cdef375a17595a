---------------------------- MODULE MCProtoServer ----------------------------
(* Two clients; the ways in which a server is started, stopped, restarted and *)
(* destroyed.                                                                  *)
EXTENDS ProtoServer, TLC

CONSTANTS c1, c2

TwoClients == {c1, c2}
Both(n, m) == c1 :> n @@ c2 :> m

Does(plan) == [plan |-> plan, requests |-> Both(2, 1), garbled |-> {}, portTaken |-> FALSE,
               orderly |-> FALSE]
start == "startServer"
stop == "stopServer"

Lives ==
    {[Does(<<start>>) EXCEPT !.orderly = TRUE, !.requests = Both(3, 2)],
     Does(<<start, stop>>), Does(<<start, stop, start>>), Does(<<start, start>>),
     [Does(<<start, stop>>) EXCEPT !.garbled = {c2}],
     [Does(<<start, start>>) EXCEPT !.garbled = {c2}],
     [Does(<<start, stop>>) EXCEPT !.portTaken = TRUE]}
=============================================================================
