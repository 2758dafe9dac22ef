---------------------------- MODULE HttpExchange ----------------------------
(* One plain HTTP request, end to end: the response to the browser and the   *)
(* record of pendingRequests at the server (proxy-http.ts, ws-server.ts),    *)
(* the stream (MuxSession), and the request at the node (client.ts), which   *)
(* collects the whole body before it calls the target.                       *)
EXTENDS MuxSession

VARIABLES
  exchange,   \* the server's side
  execution   \* the node's side

httpVars == <<stream, wire, session, exchange, execution>>

REQUEST == 1
RESPONSE == 2

(* size: units of the request's body; timer: request_timeout is armed;       *)
(* stage: whose handlers the stream has, none, those of handleHttpRequest or *)
(* those of handleClientResponse, or (a history) handlers that were lost     *)
(* before they answered; chunks: what handleClientResponse's collected;      *)
(* answers: calls of res.writeHead; body: what a forwarded response carried, *)
(* and what the cache then holds.                                            *)
Exchange == [ size : Nat, pending : BOOLEAN, timer : BOOLEAN,
              stage : {"none", "request", "response", "lost"}, chunks : Seq(Nat),
              answers : Nat, forwarded : BOOLEAN, body : Seq(Nat) ]

(* slot: activeRequests has it; state: of the call to the target; body: what *)
(* was sent to the target; answer: the units of the response to send.        *)
Execution == [ slot : BOOLEAN, state : {"none", "collecting", "running", "over"},
               body : Seq(Nat), answer : Nat ]

HttpInit ==
  /\ SessionInit
  /\ exchange = [size |-> 0, pending |-> FALSE, timer |-> FALSE, stage |-> "none",
                 chunks |-> << >>, answers |-> 0, forwarded |-> FALSE, body |-> << >>]
  /\ execution = [slot |-> FALSE, state |-> "none", body |-> << >>, answer |-> 0]

----------------------------------------------------------------------------
(* The server's side.                                                        *)
Settled(x) == [x EXCEPT !.pending = FALSE, !.timer = FALSE]
(* The answers that look at res.headersSent first.                           *)
Answered(x) == x.answers > 0
Answer(x) == IF Answered(x) THEN x ELSE [x EXCEPT !.answers = 1]

Request ==
  /\ session[Server] = "open" /\ stream[Server].state = "idle"
  /\ \E size \in 0..MaxUnits[Server] :
       /\ exchange' = [exchange EXCEPT !.size = size, !.pending = TRUE, !.timer = TRUE,
                                       !.stage = "request"]
       /\ LET headers == SendHeaders(stream[Server], REQUEST, size = 0)
              body(s) == SendData(s, size, TRUE)
          IN Calls(Server, IF size = 0 THEN headers ELSE After(headers, body))
  /\ UNCHANGED <<session, execution>>

(* request_timeout: the stream stays.                                        *)
RequestTimeout ==
  /\ exchange.timer
  /\ exchange' = Settled(Answer(exchange))
  /\ UNCHANGED <<stream, wire, session, execution>>

(* stream._onError in either stage.                                          *)
FailedSilently(x) == x
Failed(x) ==
  CASE x.stage = "request" -> Settled(Answer(x))
    [] x.stage = "response" -> Answer(x)
    [] OTHER -> x

(* HEADERS of the node: handleClientResponse takes the stream over, unless   *)
(* the request has been given up - then the stream is reset.  Either way the *)
(* first handlers have cleared the timer.                                    *)
HandleResponseEarly ==
  /\ Gets(Server, "HEADERS")
  /\ exchange' = [Settled(exchange) EXCEPT !.stage = "response"]
  /\ Handles(Server, Handled(Server))
  /\ UNCHANGED <<session, execution>>

HandleResponse ==
  /\ Gets(Server, "HEADERS")
  /\ IF exchange.pending
       THEN /\ exchange' = [Settled(exchange) EXCEPT !.stage = "response"]
            /\ Handles(Server, Handled(Server))
       ELSE /\ exchange' = Failed([exchange EXCEPT !.timer = FALSE])
            /\ Handles(Server, After(Handled(Server), Reset))
  /\ UNCHANGED <<session, execution>>

(* DATA: _onData collects; _onEnd caches the body, answers the browser -     *)
(* with the body, or 429 over the bandwidth - and closes the stream.         *)
Collected(x, f) ==
  IF x.stage = "response" /\ f.n > 0 THEN [x EXCEPT !.chunks = Append(@, f.n)] ELSE x

ResponseEnds(f) == f.fin /\ exchange.stage = "response"

HandleResponseData ==
  /\ Gets(Server, "DATA")
  /\ LET f == FrameAt(Server)
         x == Collected(exchange, f)
     IN IF ResponseEnds(f)
          THEN /\ \/ exchange' = [x EXCEPT !.answers = @ + 1, !.forwarded = TRUE, !.body = x.chunks]
                  \/ exchange' = Answer(x)
               /\ Handles(Server, After(Handled(Server), Close))
          ELSE exchange' = x /\ Handles(Server, Handled(Server))
  /\ UNCHANGED <<session, execution>>

ServerHandlesRest ==
  /\ Arrives(Server)
  /\ Known(Server) => FrameAt(Server).type = "WINDOW_UPDATE"
  /\ Handles(Server, Handled(Server))
  /\ UNCHANGED <<session, exchange, execution>>

ServerHandles == HandleResponse \/ HandleResponseData \/ ServerHandlesRest

----------------------------------------------------------------------------
(* The node's side.                                                          *)
SendResponse(s, units) ==
  LET headers == SendHeaders(s, RESPONSE, FALSE)
      body(q) == SendData(q, units, TRUE)
  IN After(After(headers, body), Close)

(* executeMuxRequest: the call starts, or the URL is refused with a 400.     *)
Dispatch(r) ==
  \/ /\ execution' = [execution EXCEPT !.slot = TRUE, !.state = "running", !.body = r.stream.got]
     /\ Handles(Node, r)
  \/ /\ execution' = [execution EXCEPT !.state = "over", !.body = r.stream.got, !.answer = 1]
     /\ LET refusal(s) == SendResponse(s, 1) IN Handles(Node, After(r, refusal))

(* handleMuxRequest: busy, or collect the body up to END_STREAM.             *)
HandleMuxRequest ==
  /\ Arrives(Node) /\ FrameAt(Node).type = "HEADERS" /\ ~Known(Node)
  /\ \/ IF FrameAt(Node).fin THEN Dispatch(Handled(Node))
        ELSE execution' = [execution EXCEPT !.state = "collecting"] /\ Handles(Node, Handled(Node))
     \/ /\ execution' = [execution EXCEPT !.state = "over", !.answer = 1]
        /\ LET refusal(s) == SendResponse(s, 1) IN Handles(Node, After(Handled(Node), refusal))
  /\ UNCHANGED <<session, exchange>>

RequestEndsEarly(f) == execution.state = "collecting"
RequestEnds(f) == f.fin /\ execution.state = "collecting"

HandleRequestData ==
  /\ Gets(Node, "DATA")
  /\ IF RequestEnds(FrameAt(Node)) THEN Dispatch(Handled(Node))
     ELSE Handles(Node, Handled(Node)) /\ UNCHANGED execution
  /\ UNCHANGED <<session, exchange>>

(* RST_STREAM has no handler here: the call to the target goes on.           *)
NodeHandlesRest ==
  /\ Arrives(Node)
  /\ Known(Node) => FrameAt(Node).type \in {"WINDOW_UPDATE", "RST_STREAM"}
  /\ ~Known(Node) => FrameAt(Node).type # "HEADERS"
  /\ Handles(Node, Handled(Node))
  /\ UNCHANGED <<session, exchange, execution>>

NodeHandles == HandleMuxRequest \/ HandleRequestData \/ NodeHandlesRest

(* The target answers (or fails or times out: 502, 504), and the node sends  *)
(* the whole response at once.                                               *)
TargetAnswers ==
  /\ execution.state = "running"
  /\ \E units \in 0..MaxUnits[Node] :
       /\ execution' = [execution EXCEPT !.slot = FALSE, !.state = "over", !.answer = units]
       /\ LET answer(s) == SendResponse(s, units) IN Calls(Node, answer(stream[Node]))
  /\ UNCHANGED <<session, exchange>>

(* The target breaks off in the middle of its response: 'end' never fires,   *)
(* and nothing listens to what fires instead.                                *)
TargetAborts ==
  /\ execution.state = "running"
  /\ execution' = [execution EXCEPT !.state = "over"]
  /\ UNCHANGED <<stream, wire, session, exchange>>

----------------------------------------------------------------------------
(* The session: the mux fails every stream, then remove() answers what is    *)
(* pending; after an 'error', only the latter.  At the node cleanupAll.      *)
RequestRemoved(x) == IF x.pending THEN Settled(Answer(x)) ELSE x

ServerLosesSession ==
  Closes(Server) /\ exchange' = RequestRemoved(Failed(exchange)) /\ UNCHANGED execution
ServerSocketError ==
  /\ Closes(Server)
  /\ LET x == RequestRemoved(exchange)
     IN exchange' = IF x.stage = "response" /\ ~Answered(x) THEN [x EXCEPT !.stage = "lost"] ELSE x
  /\ UNCHANGED execution
NodeLosesSession ==
  /\ Closes(Node)
  /\ execution' = [execution EXCEPT !.slot = FALSE, !.state = "over"]
  /\ UNCHANGED exchange
NodeKicked == ServerCloses /\ exchange' = RequestRemoved(exchange) /\ UNCHANGED execution

HttpNext ==
  \/ Request \/ RequestTimeout \/ ServerHandles
  \/ NodeHandles \/ TargetAnswers \/ TargetAborts
  \/ ServerLosesSession \/ ServerSocketError \/ NodeLosesSession \/ NodeKicked

HttpSpec == HttpInit /\ [][HttpNext]_httpVars

(* The sockets deliver, the timer fires, and an end of the session reaches   *)
(* the other end.                                                            *)
HttpFairness ==
  /\ WF_httpVars(ServerHandles)
  /\ WF_httpVars(NodeHandles)
  /\ WF_httpVars(RequestTimeout)
  /\ WF_httpVars(session[Node] # "open" /\ ServerLosesSession)
  /\ WF_httpVars(session[Server] # "open" /\ NodeLosesSession)

HttpFairSpec == HttpSpec /\ HttpFairness

----------------------------------------------------------------------------
HttpTypeOK ==
  /\ SessionTypeOK
  /\ exchange \in Exchange /\ execution \in Execution
  /\ exchange.timer => exchange.pending
  /\ execution.slot => execution.state # "none"

(* The answer of _onEnd does not look at res.headersSent: that the browser   *)
(* is answered once rests on who owns the stream and the record when.        *)
AnsweredOnce == exchange.answers <= 1

(* The target never sees a part of a request's body: the call is made on     *)
(* END_STREAM, and END_STREAM leaves with the last unit.                     *)
WholeRequest ==
  (execution.state = "running" \/ execution.body # << >>)
    => execution.body = Numbered(0, exchange.size)

(* A response that fits the stream window reaches the browser, and the       *)
(* cache, whole.                                                             *)
Whole == exchange.forwarded => exchange.body = Numbered(0, execution.answer)
SmallResponseWhole == execution.answer <= Window => Whole

(* "Cache the complete response": so does one of any size.                   *)
CompleteResponse == Whole

(* Every request is answered - by the target, the timer, or the end of the   *)
(* session - unless an 'error' of the socket finds it between the node's     *)
(* HEADERS and the end of its body.                                          *)
EveryRequestAnswered ==
  exchange.stage # "none" ~> Answered(exchange) \/ exchange.stage = "lost"
=============================================================================
