--------------------------- MODULE MCHttpExchange ---------------------------
(* A small instance of HttpExchange for TLC: a request and a response of up *)
(* to one unit more than the stream window takes.                            *)
EXTENDS HttpExchange

OneMoreThanTheWindow == [e \in End |-> Window + 1]
=============================================================================
