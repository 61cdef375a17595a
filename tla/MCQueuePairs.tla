---------------------------- MODULE MCQueuePairs ----------------------------
(* Either transport, ids of two connections supplied, one failure.            *)
EXTENDS QueuePairs

BothTransports == {"rc", "ud"}
SuppliedIDs == {0, 2}
=============================================================================
