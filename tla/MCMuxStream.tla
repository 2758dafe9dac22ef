---------------------------- MODULE MCMuxStream ----------------------------
(* A small instance of MuxStream for TLC: a stream window of two units, and  *)
(* at the node twice as much data.                                           *)
EXTENDS MuxStream

NodeWritesMore == [e \in End |-> IF e = Node THEN 4 ELSE 1]
=============================================================================
