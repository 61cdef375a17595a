---------------------------- MODULE RequestReply ----------------------------
(***************************************************************************)
(* What the benchmark promises a client, whatever the verbs: one request   *)
(* under way, each request served once, each served request answered once. *)
(***************************************************************************)
EXTENDS Integers

CONSTANTS Clients, Requests

VARIABLES
    issued,     \* requests a client has sent
    served,     \* requests of the client that a receiver has responded to
    answered    \* responses the client has taken

Init ==
    /\ issued = [c \in Clients |-> 0]
    /\ served = [c \in Clients |-> 0]
    /\ answered = [c \in Clients |-> 0]

Issue(c) ==
    /\ issued[c] = answered[c]
    /\ issued[c] < Requests
    /\ issued' = [issued EXCEPT ![c] = @ + 1]
    /\ UNCHANGED <<served, answered>>

Serve(c) ==
    /\ served[c] < issued[c]
    /\ served' = [served EXCEPT ![c] = @ + 1]
    /\ UNCHANGED <<issued, answered>>

Answer(c) ==
    /\ answered[c] < served[c]
    /\ answered' = [answered EXCEPT ![c] = @ + 1]
    /\ UNCHANGED <<issued, served>>

Next == \E c \in Clients : Issue(c) \/ Serve(c) \/ Answer(c)

Spec == Init /\ [][Next]_<<issued, served, answered>>
=============================================================================
