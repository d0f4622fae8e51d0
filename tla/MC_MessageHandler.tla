------------------------- MODULE MC_MessageHandler -------------------------
(* Small instance of MessageHandler: two transactions, a DAG growing from *)
(* sequencer 0 to 3, bodies of 1 to 3 bytes, one peer.                     *)
EXTENDS MessageHandler, TLC

CONSTANTS t1, t2, peer1

MCTxs == {t1, t2}
MCPeers == {peer1}
MCBodySize == [k \in 0..3 |-> IF k = 0 THEN 1 ELSE k]
=============================================================================
