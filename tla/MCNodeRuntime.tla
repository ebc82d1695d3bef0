--------------------------- MODULE MCNodeRuntime ----------------------------
(* A node without interlink, and two concurrent callers of Stop.           *)
EXTENDS NodeRuntime

TwoPorts == {"lan_a", "lan_b"}
=============================================================================
