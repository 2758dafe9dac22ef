---------------------------- MODULE MCStreamUsers ----------------------------
(* One run for the users of a multiplexed stream: a SOCKS5 tunnel            *)
(* (Socks5Tunnel) and a plain HTTP request (HttpExchange), each with the     *)
(* same stream and session below it.  A behaviour is one of the one or one   *)
(* of the other.                                                             *)
EXTENDS MCSocks5Tunnel, HttpExchange

VARIABLE part

UsersInit == part \in {"socks5", "http"} /\ TunnelInit /\ HttpInit

UsersNext ==
  /\ UNCHANGED part
  /\ \/ part = "socks5" /\ TunnelNext /\ UNCHANGED <<exchange, execution>>
     \/ part = "http" /\ HttpNext /\ UNCHANGED <<socket, record, tunnel>>

UsersSpec ==
  /\ UsersInit /\ [][UsersNext]_<<tunnelVars, httpVars, part>>
  /\ \/ part = "socks5" /\ TunnelFairness
     \/ part = "http" /\ HttpFairness

----------------------------------------------------------------------------
(* Types, of the stream, the session and both users.                         *)
UsersTypeOK == TunnelTypeOK /\ HttpTypeOK

(* An application gets one reply, in front of the data, and while it has     *)
(* none an answer is on its way or a timer runs.                             *)
OneReplyInTime ==
  part = "socks5" => OneReplyUntilRemoved /\ UnansweredHasTimer

(* What is passed on is whole: the body of a request, and of a response that *)
(* fits the stream window.                                                   *)
WholeBodies == WholeRequest /\ SmallResponseWhole
=============================================================================
