--------------------------- MODULE MCTcProxyPump ---------------------------
(* TcProxyPump for TLC: the client sends enough to fill a buffer again      *)
(* behind what a partial write left in it, the server sends one byte.       *)
EXTENDS TcProxyPump

Sends == [d \in Dirs |-> IF d = "C>S" THEN 3 ELSE 1]
=============================================================================
