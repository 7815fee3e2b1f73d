------------------------------ MODULE MCPeers ------------------------------
(* Three addresses: "in" connects to us and listens on "dht", "blk" is      *)
(* blocked.                                                                *)
EXTENDS Peers
MCOutgoing == [a \in Addrs |-> "dht"]
=============================================================================
