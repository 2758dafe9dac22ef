----------------------------- MODULE MCRegistry -----------------------------
(* Two nodes, three sockets (so that one node reconnects) and two tunnels.   *)
EXTENDS Registry
CONSTANTS c1, c2, s1, s2, s3, t1, t2
Clients == {c1, c2}
Sessions == {s1, s2, s3}
Tunnels == {t1, t2}
=============================================================================
