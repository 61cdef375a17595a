---------------------------- MODULE MCRpcHandler ----------------------------
(* Two clients and a ring of two buffers with an index of four values.        *)
EXTENDS RpcHandler, TLC

CONSTANTS c1, c2

TwoClients == {c1, c2}
Both(n, m) == c1 :> n @@ c2 :> m

Does(plan, messages, packets) ==
    [plan |-> plan, messages |-> messages, packets |-> packets, orderly |-> FALSE]
start == "startHandler"
stop == "stopHandler"

Lives ==
    {Does(<<start, stop>>, Both(2, 2), 1),
     Does(<<start, stop>>, Both(5, 0), 2),
     Does(<<start, stop>>, Both(1, 2), 2),
     Does(<<stop, start, start, stop, start, stop>>, Both(1, 1), 1),
     Does(<<start>>, Both(1, 1), 1),
     [Does(<<start, stop>>, Both(2, 3), 1) EXCEPT !.orderly = TRUE]}
=============================================================================
