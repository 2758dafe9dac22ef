--------------------------- MODULE MCSocks5Tunnel ---------------------------
(* A small instance of Socks5Tunnel for TLC: the target and the application  *)
(* have one unit to send, one that the stream window makes wait, and one     *)
(* that could overtake it.                                                   *)
EXTENDS Socks5Tunnel

MoreThanTheWindow == [e \in End |-> IF e = Node THEN Window + 2 ELSE Window + 1]
=============================================================================
