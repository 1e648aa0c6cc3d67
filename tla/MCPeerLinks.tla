---------------------------- MODULE MCPeerLinks ----------------------------
(* PeerLinks with two sockets to one peer and one to another. *)
EXTENDS PeerLinks, TLC

CONSTANTS c1, c2, c3

Ends == (c1 :> "p") @@ (c2 :> "p") @@ (c3 :> "q")
Arrivals == (c1 :> {"inbound"}) @@ (c2 :> {"connect"}) @@ (c3 :> {"outbound"})
=============================================================================
