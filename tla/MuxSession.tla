----------------------------- MODULE MuxSession -----------------------------
(* The WebSocket session a stream lives in, as its two ends see it: what the *)
(* tunnels (Socks5Tunnel) and the requests (HttpExchange) carried by a       *)
(* stream have in common.                                                    *)
EXTENDS MuxStream

VARIABLE session   \* session[e]: "open", "closing" (close() was called) or "closed"

sessionVars == <<stream, wire, session>>

SessionInit == MuxInit /\ session = [e \in End |-> "open"]

SessionTypeOK == MuxTypeOK /\ session \in [End -> {"open", "closing", "closed"}]

(* e's stream and wire after r; a frame given to a socket that is closing    *)
(* goes nowhere.                                                             *)
Outgoing(e, r) == IF session[e] = "open" THEN r.out ELSE << >>
Calls(e, r) == Become(e, [r EXCEPT !.out = Outgoing(e, r)])
Handles(e, r) == Deliver(e, [r EXCEPT !.out = Outgoing(e, r)])

(* A frame of the peer reaches e, whose mux may have the stream or not.      *)
Arrives(e) == session[e] # "closed" /\ wire[Other(e)] # << >>
FrameAt(e) == Incoming(e)
Known(e) == stream[e].registered
Handled(e) == HandleFrame(e, stream[e], FrameAt(e))
Gets(e, type) == Arrives(e) /\ FrameAt(e).type = type /\ Known(e)

(* The server calls ws.close(): what it sends from now on is lost.           *)
ServerCloses ==
  /\ session[Server] = "open"
  /\ session' = [session EXCEPT ![Server] = "closing"]
  /\ UNCHANGED <<stream, wire>>

(* The socket is closed for e, which forgets every stream.                   *)
Closes(e) ==
  /\ session[e] # "closed"
  /\ session' = [session EXCEPT ![e] = "closed"]
  /\ stream' = [stream EXCEPT ![e].state = IF @ = "idle" THEN @ ELSE "closed",
                              ![e].registered = FALSE]
  /\ wire' = [wire EXCEPT ![Other(e)] = << >>]
=============================================================================
