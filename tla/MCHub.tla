------------------------------- MODULE MCHub -------------------------------
(***************************************************************************)
(* Instances of Hub for TLC.                                               *)
(***************************************************************************)
EXTENDS Hub

CONSTANTS c1, c2, c3, ip1, ip2

TwoClients == {c1, c2}
OneIP      == {ip1}
TwoIPs     == {ip1, ip2}
ThreeClients == {c1, c2, c3}
SameIP     == [c \in Clients |-> ip1]
\* c1 from the first address, everyone else from the second.
OwnIP      == [c \in Clients |-> IF c = c1 THEN ip1 ELSE ip2]
Symmetry   == Permutations(Clients)
OneTopic   == {"ticker"}
TwoTopics  == {"ticker", "trade"}

=============================================================================
