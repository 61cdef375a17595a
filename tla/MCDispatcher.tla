---------------------------- MODULE MCDispatcher ----------------------------
(* One process with three workers, or two processes with two workers and one; *)
(* node ids leave a gap for the dispatchers and the receiver.                 *)
EXTENDS Dispatcher, TLC

CONSTANTS w1, w2, w3, p1, p2, r1, r2

ThreeWorkers == {w1, w2, w3}
OneDispatcher == {p1}
TwoDispatchers == {p1, p2}
OneReceiver == {r1}
TwoReceivers == {r1, r2}
AllLocal == p1 :> <<w1, w2, w3>>
TwoAndOne == p1 :> <<w1, w2>> @@ p2 :> <<w3>>
WrittenAndSent == {[poll |-> "BUF", inline |-> TRUE], [poll |-> "SRQ", inline |-> FALSE]}
Ids == w1 :> 1 @@ w2 :> 2 @@ w3 :> 3
=============================================================================
