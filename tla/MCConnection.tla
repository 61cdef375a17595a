---------------------------- MODULE MCConnection ----------------------------
(* Two servers and two clients, and what they call. *)
EXTENDS Connection, TLC

CONSTANTS s1, s2, c1, c2

AllServers == {s1, s2}
AllNodes == {s1, s2, c1, c2}
SharedQueueClient == {c2}

Scenario(plan, impatient, mayFail) ==
    [plan |-> plan @@ [n \in AllNodes |-> <<>>], impatient |-> impatient, mayFail |-> mayFail]

\* Two servers connect to each other and may run out of retries.
Mutual == Scenario(s1 :> <<Start, s2>> @@ s2 :> <<Start, s1>>, AllServers, {})
\* Clients connect to both servers in different orders, one of them again to the
\* first.
TwoClients == Scenario(s1 :> <<Start>> @@ s2 :> <<Start>> @@ c1 :> <<s1, s2>> @@ c2 :> <<s2, s1, s2>>,
                       {c1}, {})
\* Queues fail at the only server and at both clients.
Failing == Scenario(s1 :> <<Start>> @@ c1 :> <<s1>> @@ c2 :> <<s1>>, {}, {s1, c1, c2})
\* They fail at two servers that connect to each other.
FailingServers == Scenario(s1 :> <<Start, s2>> @@ s2 :> <<Start, s1>>, {}, AllServers)
\* A server connects to another one while a client connects to it.
Chain == Scenario(s1 :> <<Start, s2>> @@ s2 :> <<Start>> @@ c1 :> <<s1>>, {}, {})

\* One of two servers that connect to each other, or both, start too late.
OneEarly == Scenario(s1 :> <<s2, Start>> @@ s2 :> <<Start, s1>>, {}, {})
BothEarly == Scenario(s1 :> <<s2, Start>> @@ s2 :> <<s1, Start>>, {}, {})

SixScenarios == {Mutual, TwoClients, Failing, FailingServers, OneEarly, BothEarly}
ChainOnly == {Chain}
=============================================================================
