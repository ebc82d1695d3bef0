---------------------------- MODULE MCNodeTable -----------------------------
(* Two source MACs with two sequence numbers each against a table of two   *)
(* entries: insertions beyond the limit, ties on the time stamp, refreshes *)
(* and expiry all happen.                                                  *)
EXTENDS NodeTable
=============================================================================
