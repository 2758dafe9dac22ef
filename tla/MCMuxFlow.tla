----------------------------- MODULE MCMuxFlow -----------------------------
(* Small instances of MuxFlow for TLC: a connection window of two to four    *)
(* frames' payload, and a batch that can overdraw it.                        *)
EXTENDS MuxFlowRefinement, TLC

EqualWindows == [e \in {Server, Node} |-> DefaultWindow]

(* The server is configured with a window below half of the default, so that *)
(* the interval is the first to grant; a node always has the default.        *)
SmallServerWindow == [e \in {Server, Node} |-> IF e = Server THEN 1 ELSE DefaultWindow]

(* The ends differ only in their configured windows.                         *)
Ends == Permutations({Server, Node})
=============================================================================
