----------------------------- MODULE MCPeerBus -----------------------------
(***************************************************************************)
(* Instances of PeerBus for TLC.  The clients "ann" and "bob" have names of *)
(* their own; "rob" claims the name of "bob".                               *)
(***************************************************************************)
EXTENDS PeerBus

\* Clients.
Ann == {"ann"}
AnnBob == {"ann", "bob"}
AnnBobRob == {"ann", "bob", "rob"}

\* Their names, the links they ask for, and the messages sent.
MCNameOf == [cl \in Clients |-> IF cl = "ann" THEN "A" ELSE "B"]
NoLinks == [cl \in Clients |-> {}]
AnnLinksBob == [cl \in Clients |-> IF cl = "ann" THEN {"B"} ELSE {}]
MCSender == [m \in Msgs |-> "ann"]
ToBob == [m \in Msgs |-> "B"]
BroadcastFirst == [m \in Msgs |-> IF m = 1 THEN Everyone ELSE "B"]

\* Bounds on connections.
TwoButRob == [cl \in Clients |-> IF cl = "rob" THEN 1 ELSE 2]
OneEach == [cl \in Clients |-> 1]
OneAndTwo == [cl \in Clients |-> IF cl = "ann" THEN 1 ELSE 2]
SixEach == [cl \in Clients |-> 6]
ThreeForBob == [cl \in Clients |-> IF cl = "bob" THEN 3 ELSE 1]
============================================================================
