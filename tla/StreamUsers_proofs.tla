------------------------- MODULE StreamUsers_proofs -------------------------
(* What the users of a stream promise their clients, for any window and any  *)
(* amount of data: a SOCKS5 application gets one reply and behind it the     *)
(* target's data, a browser one answer, a target the whole body; and nothing *)
(* outlives the socket it serves.                                            *)
EXTENDS MCStreamUsers, MuxStream_proofs, FiniteSetTheorems

----------------------------------------------------------------------------
(* The stream in its session.  As in MuxStream_proofs, but what an end sends *)
(* while its socket is closing is lost: what is under way is then what was   *)
(* sent up to some unit, and nothing reaches an end whose socket is closed.  *)
Carrying(e) ==
  LET p == Other(e) IN
  /\ \A i \in 1..Len(stream[p].got) : stream[p].got[i] = i
  /\ Len(stream[p].got) <= Sent(stream[e])
  /\ Listens(stream[p]) /\ session[p] # "closed" =>
       \E hi \in Len(stream[p].got)..Sent(stream[e]) :
         /\ InOrder(wire[e], Len(stream[p].got), hi)
         /\ session[e] = "open" => hi = Sent(stream[e])

SessionOpening ==
  /\ stream[Server].state = "idle" => stream[Node].state = "idle" /\ wire[Server] = << >>
  /\ stream[Node].state = "idle" =>
       /\ wire[Node] = << >> /\ stream[Node] = [NewStream EXCEPT !.registered = FALSE]
       /\ stream[Server].state # "idle" /\ session[Node] # "closed" => Begins(wire[Server])
  /\ stream[Node].state # "idle" => Quiet(wire[Server])

SessionInv ==
  /\ wire \in [End -> Seq(Frame)] /\ stream \in [End -> StreamRecord]
  /\ session \in [End -> {"open", "closing", "closed"}] /\ session[Node] # "closing"
  /\ \A e \in End : Proper(stream[e]) /\ Carrying(e)
  /\ SessionOpening

(* The node's answer is in front of its data.                                *)
Announces(f, n) == f.type = "HEADERS" /\ f.n = n
Said(w, n) == \E j \in 1..Len(w) : Announces(w[j], n)
First(w, n) == \A i \in 1..Len(w) : IsUnit(w[i]) => \E j \in 1..Len(w) : j < i /\ Announces(w[j], n)
AnswerFirst(n) == First(wire[Node], n) /\ (stream[Node].written > 0 => Said(wire[Node], n))

----------------------------------------------------------------------------
(* The SOCKS5 tunnel: what the application read follows from the record.     *)
DataItem(n) == [kind |-> "data", n |-> n]
Unanswered == socket.out = << >> /\ ~socket.ended
Relaying(d) ==
  /\ \A i \in 2..(d + 1) : socket.out[i] = DataItem(i - 1)
  /\ \/ Len(socket.out) = d + 1
     \/ /\ Len(socket.out) = d + 2 /\ socket.out[d + 2] = Reply(UNREACHABLE)
        /\ socket.ended /\ session[Server] # "open"
  /\ ~socket.ended /\ ~socket.closed => d = Len(stream[Server].got)

ReplyInv ==
  /\ socket \in Socket /\ record \in Record
  /\ record.timer => record.pending /\ ~record.ready
  /\ record.pending /\ ~record.ready => Unanswered /\ ~socket.closed /\ record.timer
  /\ record.ready =>
       /\ socket.out # << >> /\ socket.out[1] = Reply(GRANTED)
       /\ \E d \in 0..Len(stream[Server].got) : Relaying(d)
  /\ ~record.ready =>
       \/ Unanswered
       \/ Len(socket.out) = 1 /\ socket.out[1].kind = "reply" /\ socket.ended
  /\ stream[Server].state = "idle" => ~record.pending /\ ~record.ready

TargetInv ==
  /\ tunnel \in Tunnel
  /\ tunnel.slot => tunnel.target \in {"connecting", "open", "dead"}
  /\ tunnel.target = "none" => tunnel.in = << >>
  /\ tunnel.target # "none" => stream[Node].state # "idle"
  /\ tunnel.target \in {"connecting", "open"} =>
       /\ Len(tunnel.in) = Len(stream[Node].got)
       /\ Known(Node) /\ session[Node] = "open"
  /\ Units1To(tunnel.in) /\ Len(tunnel.in) <= Len(stream[Node].got)

(* Until the server has the node's HEADERS they are on their way, once the   *)
(* target is connected, and in front of its data.                            *)
Answering ==
  ~record.ready /\ Known(Server) =>
    /\ stream[Server].got = << >> /\ AnswerFirst(TUNNEL_READY)
    /\ tunnel.target = "open" => Said(wire[Node], TUNNEL_READY)

SocksInv == ReplyInv /\ TargetInv /\ Answering /\ UnansweredHasTimer /\ StreamHasOwner

----------------------------------------------------------------------------
(* The HTTP request: who may answer the browser, what the frames that end a  *)
(* body say of it.                                                           *)
ExchangeInv ==
  /\ exchange \in Exchange /\ exchange.answers <= 1
  /\ exchange.timer => exchange.pending
  /\ exchange.pending => exchange.answers = 0 /\ exchange.stage = "request"
  /\ stream[Server].state = "idle" => exchange.stage = "none" /\ ~exchange.forwarded
  /\ exchange.stage = "none" => exchange.answers = 0 /\ ~exchange.pending

(* While the server has the stream, its chunks are what the stream gave it,  *)
(* and before the node's HEADERS there is nothing to collect.                *)
Collecting ==
  Known(Server) =>
    /\ exchange.chunks = stream[Server].got
    /\ IF exchange.stage = "response" THEN exchange.answers = 0
       ELSE stream[Server].got = << >> /\ AnswerFirst(RESPONSE)

RequestInv ==
  /\ execution \in Execution
  /\ execution.slot => execution.state # "none"
  /\ execution.state = "running" => execution.body = Numbered(0, exchange.size) /\ session[Node] = "open"
  /\ execution.body # << >> => execution.body = Numbered(0, exchange.size)
  /\ stream[Node].state = "idle" =>
       /\ execution.state = "none" \/ session[Node] = "closed"
       /\ execution.state \in {"none", "over"} /\ execution.body = << >>
  /\ stream[Server].state = "idle" => stream[Server].written = 0
  /\ \A i \in 1..Len(wire[Server]) : wire[Server][i].fin =>
       \/ wire[Server][i].type = "HEADERS" /\ exchange.size = 0
       \/ wire[Server][i].type = "DATA" /\ wire[Server][i].n = exchange.size /\ exchange.size > 0

ResponseInv ==
  /\ execution.state # "over" => execution.answer = 0
  /\ stream[Node].written <= execution.answer
  /\ stream[Node].written = 0 => stream[Node].sendWindow >= Window
  /\ \A i \in 1..Len(wire[Node]) : wire[Node][i].fin =>
       /\ wire[Node][i].type = "DATA" /\ execution.state = "over"
       /\ execution.answer <= Window => wire[Node][i].n = execution.answer
  /\ exchange.forwarded =>
       /\ execution.state = "over"
       /\ execution.answer <= Window => exchange.body = Numbered(0, execution.answer)

HttpInv == ExchangeInv /\ Collecting /\ RequestInv /\ ResponseInv

----------------------------------------------------------------------------
SocksRests ==
  /\ socket = [ended |-> FALSE, closed |-> FALSE, out |-> << >>]
  /\ record = [pending |-> FALSE, ready |-> FALSE, timer |-> FALSE]
  /\ tunnel = [slot |-> FALSE, target |-> "none", fin |-> FALSE,
               reported |-> FALSE, hardClose |-> FALSE, in |-> << >>]
HttpRests ==
  /\ exchange = [size |-> 0, pending |-> FALSE, timer |-> FALSE, stage |-> "none",
                 chunks |-> << >>, answers |-> 0, forwarded |-> FALSE, body |-> << >>]
  /\ execution = [slot |-> FALSE, state |-> "none", body |-> << >>, answer |-> 0]

UsersInv ==
  /\ SessionInv
  /\ \/ part = "socks5" /\ SocksInv /\ HttpRests
     \/ part = "http" /\ HttpInv /\ SocksRests

----------------------------------------------------------------------------
LEMMA SessionFacts ==
  ASSUME SessionInv
  PROVE  /\ wire \in [End -> Seq(Frame)] /\ stream \in [End -> StreamRecord]
         /\ session \in [End -> {"open", "closing", "closed"}] /\ session[Node] \in {"open", "closed"}
         /\ \A e \in End : /\ Proper(stream[e]) /\ stream[e] \in StreamRecord /\ wire[e] \in Seq(Frame)
                           /\ Sent(stream[e]) \in Nat /\ Len(stream[e].got) \in Nat
                           /\ stream[e].got \in Seq(Nat) /\ Len(wire[e]) \in Nat
         /\ Server \in End /\ Node \in End /\ Server # Node
         /\ Other(Server) = Node /\ Other(Node) = Server
         /\ \A e \in End : e = Server \/ e = Node
<1>1. ASSUME NEW e \in End
      PROVE  /\ Proper(stream[e]) /\ stream[e] \in StreamRecord /\ wire[e] \in Seq(Frame)
             /\ Sent(stream[e]) \in Nat /\ Len(stream[e].got) \in Nat
             /\ stream[e].got \in Seq(Nat) /\ Len(wire[e]) \in Nat
  <2>1. Proper(stream[e]) /\ stream[e] \in StreamRecord /\ wire[e] \in Seq(Frame)
    BY DEF SessionInv
  <2>2. Sent(stream[e]) \in Nat
    BY <2>1, SentIs DEF Proper
  <2>3. stream[e].got \in Seq(Nat) /\ Len(stream[e].got) \in Nat
    BY <2>1, GotIs
  <2>4. Len(wire[e]) \in Nat
    <3> DEFINE w == wire[e]
    <3>1. w \in Seq(Frame)
      BY <2>1
    <3> HIDE DEF w
    <3>2. Len(w) \in Nat
      BY <3>1
    <3> QED BY <3>2 DEF w
  <2> QED BY <2>1, <2>2, <2>3, <2>4
<1>2. session[Node] \in {"open", "closed"}
  BY DEF SessionInv, End
<1> QED BY <1>1, <1>2, EndsAssumption DEF SessionInv, End, Other

LEMMA Joins ==
  ASSUME NEW w \in Seq(Frame), NEW v \in Seq(Frame)
  PROVE  /\ w \o v \in Seq(Frame) /\ Len(w \o v) = Len(w) + Len(v) /\ Len(w) \in Nat /\ Len(v) \in Nat
         /\ \A i \in 1..Len(w) : (w \o v)[i] = w[i] /\ i \in 1..Len(w \o v)
         /\ \A i \in 1..Len(w \o v) : i \in 1..Len(w) \/ (i - Len(w) \in 1..Len(v) /\ (w \o v)[i] = v[i - Len(w)])
<1> DEFINE z == w \o v
<1>1. /\ z \in Seq(Frame) /\ Len(z) = Len(w) + Len(v)
      /\ \A i \in 1..Len(w) : z[i] = w[i]
      /\ \A i \in 1..Len(z) : i > Len(w) => i - Len(w) \in 1..Len(v) /\ z[i] = v[i - Len(w)]
  BY Appended
<1>2. Len(w) \in Nat /\ Len(v) \in Nat
  OBVIOUS
<1> HIDE DEF z
<1>3. /\ \A i \in 1..Len(w) : z[i] = w[i] /\ i \in 1..Len(z)
      /\ \A i \in 1..Len(z) : i \in 1..Len(w) \/ (i - Len(w) \in 1..Len(v) /\ z[i] = v[i - Len(w)])
  BY <1>1, <1>2
<1> QED BY <1>1, <1>2, <1>3 DEF z

LEMMA QuietJoined ==
  ASSUME NEW w \in Seq(Frame), NEW v \in Seq(Frame), Quiet(v)
  PROVE  /\ Quiet(w) => Quiet(w \o v)
         /\ Begins(w) => Begins(w \o v)
<1> DEFINE z == w \o v
<1>1. /\ z \in Seq(Frame) /\ Len(z) = Len(w) + Len(v) /\ Len(w) \in Nat /\ Len(v) \in Nat
      /\ \A i \in 1..Len(w) : z[i] = w[i] /\ i \in 1..Len(z)
      /\ \A i \in 1..Len(z) : i \in 1..Len(w) \/ (i - Len(w) \in 1..Len(v) /\ z[i] = v[i - Len(w)])
  BY Joins
<1> HIDE DEF z
<1>2. Quiet(w) => Quiet(z)
  BY <1>1 DEF Quiet
<1>3. ASSUME Begins(w) PROVE Begins(z)
  <2>1. w # << >> /\ Opens(w[1]) /\ \A i \in 2..Len(w) : ~Opens(w[i])
    BY <1>3 DEF Begins
  <2>2. 1 \in 1..Len(w)
    BY <2>1
  <2>3. Len(z) # 0 /\ z[1] = w[1]
    BY <1>1, <2>2
  <2>4. z # << >>
    BY <2>3
  <2>5. \A i \in 2..Len(z) : ~Opens(z[i])
    <3>1. ASSUME NEW i \in 2..Len(z) PROVE ~Opens(z[i])
      <4>1. i \in 1..Len(z)
        BY <1>1
      <4>2. CASE i \in 1..Len(w)
        <5>1. i \in 2..Len(w) /\ z[i] = w[i]
          BY <1>1, <4>2
        <5> QED BY <2>1, <5>1
      <4>3. CASE i \notin 1..Len(w)
        <5>1. i - Len(w) \in 1..Len(v) /\ z[i] = v[i - Len(w)]
          BY <1>1, <4>1, <4>3
        <5> QED BY <5>1 DEF Quiet
      <4> QED BY <4>2, <4>3
    <3> QED BY <3>1
  <2> QED BY <2>1, <2>3, <2>4, <2>5 DEF Begins
<1> QED BY <1>2, <1>3 DEF z

(* One call after the other.                                                 *)
Joint(r, q) == Result(q.stream, r.out \o q.out)

LEMMA JointIs ==
  ASSUME NEW r, NEW q
  PROVE  Joint(r, q).stream = q.stream /\ Joint(r, q).out = r.out \o q.out
<1>1. Joint(r, q) = Result(q.stream, r.out \o q.out)
  BY DEF Joint
<1> DEFINE both == Joint(r, q)
           out == r.out \o q.out
<1>2. both = Result(q.stream, out)
  BY <1>1
<1> HIDE DEF both, out
<1>3. both.stream = q.stream /\ both.out = out
  BY <1>2 DEF Result
<1> QED BY <1>3 DEF both, out

LEMMA SendsAfter ==
  ASSUME NEW s, Proper(s), NEW r, Sends(s, r), NEW q, Emits(r.stream, q)
  PROVE  /\ Sends(s, Joint(r, q)) /\ Joint(r, q).stream = q.stream /\ q.stream.state # "idle"
         /\ Joint(r, q).out \in Seq(Frame)
         /\ Joint(r, q) = Result(Joint(r, q).stream, Joint(r, q).out)
         /\ Emits(s, r) => Emits(s, Joint(r, q))
         /\ Quiet(r.out) /\ Quiet(q.out) => Quiet(Joint(r, q).out)
         /\ Listens(q.stream) => r.stream.registered
<1> DEFINE both == Joint(r, q)
<1>0. both = Result(q.stream, r.out \o q.out)
  BY DEF Joint
<1> HIDE DEF both
<1>1. both.stream = q.stream /\ both.out = r.out \o q.out
  BY <1>0 DEF Result
<1>2. /\ Proper(r.stream) /\ Proper(q.stream) /\ r.out \in Seq(Frame) /\ q.out \in Seq(Frame)
      /\ Sent(s) <= Sent(r.stream) /\ Sent(r.stream) <= Sent(q.stream)
      /\ InOrder(r.out, Sent(s), Sent(r.stream)) /\ InOrder(q.out, Sent(r.stream), Sent(q.stream))
      /\ q.stream.registered => r.stream.registered
      /\ q.stream.state # "idle"
  BY DEF Sends, Emits
<1>3. Sent(s) \in Nat /\ Sent(r.stream) \in Nat /\ Sent(q.stream) \in Nat
  BY <1>2, SentIs DEF Proper
<1>4. InOrder(r.out \o q.out, Sent(s), Sent(q.stream))
  BY <1>2, <1>3, OrderAppended
<1>5. r.out \o q.out \in Seq(Frame)
  BY <1>2, Joins
<1>6. Sent(s) <= Sent(q.stream)
  BY <1>2, <1>3
<1>7. Quiet(r.out) /\ Quiet(q.out) => Quiet(both.out)
  BY <1>1, <1>2, QuietJoined
<1>8. both = Result(both.stream, both.out)
  BY <1>0, <1>1
<1>9. Sends(s, both)
  BY <1>1, <1>2, <1>4, <1>5, <1>6 DEF Sends
<1>10. Emits(s, r) => Emits(s, both)
  BY <1>1, <1>2, <1>9 DEF Emits
<1>11. Listens(q.stream) => r.stream.registered
  BY <1>2 DEF Listens
<1> QED BY <1>1, <1>2, <1>7, <1>8, <1>5, <1>9, <1>10, <1>11 DEF both

----------------------------------------------------------------------------
(* The steps of an end: what it sends is appended to its wire if its socket  *)
(* takes it, and what it received is off the wire of the other.              *)
Appends(e, q) ==
  /\ stream' = [stream EXCEPT ![e] = q.stream]
  /\ wire'[e] = wire[e] \o Outgoing(e, q)
  /\ wire' \in [End -> Seq(Frame)] /\ UNCHANGED session

LEMMA SentOut ==
  ASSUME NEW e, NEW q, q.out \in Seq(Frame)
  PROVE  /\ Outgoing(e, q) \in Seq(Frame)
         /\ session[e] = "open" => Outgoing(e, q) = q.out
         /\ session[e] # "open" => Outgoing(e, q) = << >>
         /\ Quiet(q.out) => Quiet(Outgoing(e, q))
BY Signals DEF Outgoing

LEMMA CallsAre ==
  ASSUME SessionInv, NEW e \in End, NEW q, q = Result(q.stream, q.out), q.out \in Seq(Frame),
         Calls(e, q), UNCHANGED session
  PROVE  /\ Appends(e, q) /\ wire'[Other(e)] = wire[Other(e)]
         /\ stream'[e] = q.stream /\ stream'[Other(e)] = stream[Other(e)]
<1> DEFINE p == Other(e)
           r == [q EXCEPT !.out = Outgoing(e, q)]
<1>0. p \in End /\ p # e
  BY OtherEnd
<1>1. Outgoing(e, q) \in Seq(Frame)
  BY SentOut
<1>2. r.stream = q.stream /\ r.out = Outgoing(e, q)
  BY DEF Result
<1>3. wire \in [End -> Seq(Frame)] /\ wire[e] \in Seq(Frame) /\ stream \in [End -> StreamRecord]
  BY SessionFacts
<1>4. wire[e] \o Outgoing(e, q) \in Seq(Frame)
  BY <1>1, <1>3, Joins
<1>5. Become(e, r)
  BY DEF Calls
<1> HIDE DEF r
<1>6. /\ stream' = [stream EXCEPT ![e] = q.stream]
      /\ wire' = [wire EXCEPT ![e] = wire[e] \o Outgoing(e, q)]
  BY <1>2, <1>3, <1>5 DEF Become
<1> DEFINE z == wire[e] \o Outgoing(e, q)
<1>7. z \in Seq(Frame) /\ wire' = [wire EXCEPT ![e] = z]
  BY <1>4, <1>6
<1> HIDE DEF z, p
<1>8. wire' \in [End -> Seq(Frame)] /\ wire'[e] = z /\ wire'[p] = wire[p]
  BY <1>0, <1>3, <1>7
<1>9. stream'[e] = q.stream /\ stream'[p] = stream[p]
  BY <1>0, <1>3, <1>6
<1> QED BY <1>6, <1>8, <1>9 DEF Appends, z, p

LEMMA HandlesAre ==
  ASSUME SessionInv, NEW e \in End, NEW q, q = Result(q.stream, q.out), q.out \in Seq(Frame),
         Handles(e, q), Arrives(e), UNCHANGED session
  PROVE  /\ Appends(e, q) /\ wire'[Other(e)] = Tail(wire[Other(e)])
         /\ stream'[e] = q.stream /\ stream'[Other(e)] = stream[Other(e)]
<1> DEFINE p == Other(e)
           r == [q EXCEPT !.out = Outgoing(e, q)]
<1>0. p \in End /\ p # e
  BY OtherEnd
<1>1. Outgoing(e, q) \in Seq(Frame)
  BY SentOut
<1>2. r.stream = q.stream /\ r.out = Outgoing(e, q)
  BY DEF Result
<1>3. /\ wire \in [End -> Seq(Frame)] /\ wire[e] \in Seq(Frame) /\ wire[p] \in Seq(Frame)
      /\ stream \in [End -> StreamRecord]
  BY <1>0, SessionFacts
<1>4. wire[e] \o Outgoing(e, q) \in Seq(Frame)
  BY <1>1, <1>3, Joins
<1>5. Deliver(e, r) /\ wire[p] # << >>
  BY DEF Handles, Arrives
<1> HIDE DEF r
<1>6. /\ stream' = [stream EXCEPT ![e] = q.stream]
      /\ wire' = [wire EXCEPT ![e] = wire[e] \o Outgoing(e, q), ![p] = Tail(wire[p])]
  BY <1>0, <1>2, <1>3, <1>5 DEF Deliver
<1>7. Tail(wire[p]) \in Seq(Frame)
  BY <1>3, <1>5, TheTail
<1> DEFINE z == wire[e] \o Outgoing(e, q)
           t == Tail(wire[p])
<1>8. z \in Seq(Frame) /\ t \in Seq(Frame) /\ wire' = [wire EXCEPT ![e] = z, ![p] = t]
  BY <1>4, <1>6, <1>7
<1> HIDE DEF z, p, t
<1>9. wire' \in [End -> Seq(Frame)] /\ wire'[e] = z /\ wire'[p] = t
  BY <1>0, <1>3, <1>8
<1>10. stream'[e] = q.stream /\ stream'[p] = stream[p]
  BY <1>0, <1>3, <1>6
<1> QED BY <1>6, <1>9, <1>10 DEF Appends, z, p, t

(* What e sent, with what the call adds.                                     *)
LEMMA SenderCarries ==
  ASSUME SessionInv, NEW e \in End, NEW q, Sends(stream[e], q), Appends(e, q)
  PROVE  Carrying(e)'
<1> DEFINE p == Other(e)
           w == wire[e]
           s == stream[e]
           got == Len(stream[p].got)
<1>0. p \in End /\ p # e
  BY OtherEnd
<1>1. /\ w \in Seq(Frame) /\ got \in Int /\ Sent(s) \in Int /\ Proper(s) /\ Carrying(e)
      /\ stream \in [End -> StreamRecord]
  BY <1>0, SessionFacts DEF SessionInv
<1>2. /\ Proper(q.stream) /\ q.out \in Seq(Frame) /\ Sent(s) <= Sent(q.stream)
      /\ InOrder(q.out, Sent(s), Sent(q.stream)) /\ Sent(q.stream) \in Int
  BY SentIs DEF Sends, Proper
<1>3. stream'[e] = q.stream /\ stream'[p] = stream[p] /\ session' = session /\ wire'[e] = w \o Outgoing(e, q)
  BY <1>0, <1>1 DEF Appends
<1>4. /\ \A i \in 1..Len(stream[p].got) : stream[p].got[i] = i
      /\ got <= Sent(s)
  BY <1>1 DEF Carrying
<1>5. ASSUME Listens(stream[p]), session[p] # "closed"
      PROVE  \E hi \in got..Sent(q.stream) :
               /\ InOrder(w \o Outgoing(e, q), got, hi)
               /\ session[e] = "open" => hi = Sent(q.stream)
  <2>1. PICK hi \in got..Sent(s) : /\ InOrder(w, got, hi) /\ (session[e] = "open" => hi = Sent(s))
    BY <1>1, <1>5 DEF Carrying
  <2>2. CASE session[e] = "open"
    <3>1. Outgoing(e, q) = q.out /\ hi = Sent(s)
      BY <1>2, <2>1, <2>2, SentOut
    <3>2. InOrder(w \o q.out, got, Sent(q.stream))
      <4> HIDE DEF w, s, got
      <4> QED BY <1>1, <1>2, <1>4, <2>1, <3>1, OrderAppended
    <3>3. Sent(q.stream) \in got..Sent(q.stream)
      <4> HIDE DEF s, got
      <4> QED BY <1>1, <1>2, <1>4
    <3> QED BY <3>1, <3>2, <3>3
  <2>3. CASE session[e] # "open"
    <3>1. Outgoing(e, q) = << >>
      BY <1>2, <2>3, SentOut
    <3>2. w \o << >> = w
      <4> HIDE DEF w
      <4> QED BY <1>1
    <3>3. hi \in got..Sent(q.stream)
      <4> HIDE DEF s, got
      <4> QED BY <1>1, <1>2, <2>1
    <3> QED BY <2>1, <2>3, <3>1, <3>2, <3>3
  <2> QED BY <2>2, <2>3
<1>6. got <= Sent(q.stream)
  <2> HIDE DEF s, got
  <2> QED BY <1>1, <1>2, <1>4
<1> QED BY <1>3, <1>4, <1>5, <1>6 DEF Carrying

(* A call of e, which receives nothing by it.                                *)
LEMMA CallerCarries ==
  ASSUME SessionInv, NEW e \in End, NEW q, q.stream.got = stream[e].got,
         Listens(q.stream) => Listens(stream[e]), stream'[e] = q.stream,
         stream'[Other(e)] = stream[Other(e)], wire'[Other(e)] = wire[Other(e)], UNCHANGED session
  PROVE  Carrying(Other(e))'
<1> DEFINE p == Other(e)
<1>0. p \in End /\ Other(p) = e
  BY OtherEnd
<1>1. Carrying(p)
  BY <1>0 DEF SessionInv
<1> HIDE DEF p
<1>2. stream'[p] = stream[p] /\ wire'[p] = wire[p]
  BY DEF p
<1>3. Carrying(p)'
  BY <1>0, <1>1, <1>2 DEF Carrying
<1> QED BY <1>3 DEF p

(* A frame e received: the unit it carries is the next one.                  *)
LEMMA NextUnit ==
  ASSUME SessionInv, NEW e \in End, Arrives(e), Listens(stream[e])
  PROVE  /\ FrameAt(e) \in Frame
         /\ IsUnit(FrameAt(e)) => FrameAt(e).n = Len(stream[e].got) + 1
                                  /\ FrameAt(e).n <= Sent(stream[Other(e)])
<1> DEFINE p == Other(e)
           w == wire[p]
           got == Len(stream[e].got)
<1>0. p \in End /\ Other(p) = e
  BY OtherEnd
<1>1. w \in Seq(Frame) /\ w # << >> /\ got \in Int /\ Sent(stream[p]) \in Int /\ Carrying(p) /\ session[e] # "closed"
  BY <1>0, SessionFacts DEF SessionInv, Arrives
<1>2. FrameAt(e) = Head(w) /\ Head(w) \in Frame
  BY <1>1, TheTail DEF FrameAt, Incoming
<1>3. PICK hi \in got..Sent(stream[p]) : InOrder(w, got, hi)
  BY <1>0, <1>1 DEF Carrying
<1>4. IsUnit(Head(w)) => Head(w).n = got + 1 /\ got + 1 <= hi
  <2> HIDE DEF w, got
  <2> QED BY <1>1, <1>3, OrderTaken
<1>5. IsUnit(FrameAt(e)) => FrameAt(e).n = got + 1 /\ FrameAt(e).n <= Sent(stream[p])
  <2> HIDE DEF w, got
  <2> QED BY <1>1, <1>2, <1>3, <1>4
<1> QED BY <1>2, <1>5

LEMMA ReceiverCarries ==
  ASSUME SessionInv, NEW e \in End, Arrives(e), NEW q, Listens(q.stream) => Listens(stream[e]),
         q.stream.got = IF stream[e].registered /\ IsUnit(FrameAt(e))
                          THEN Append(stream[e].got, FrameAt(e).n) ELSE stream[e].got,
         stream[e].state = "idle" => ~IsUnit(FrameAt(e)),
         stream'[e] = q.stream, stream'[Other(e)] = stream[Other(e)],
         wire'[Other(e)] = Tail(wire[Other(e)]), UNCHANGED session
  PROVE  Carrying(Other(e))'
<1> DEFINE p == Other(e)
           w == wire[p]
           g == stream[e].got
           f == FrameAt(e)
           sent == Sent(stream[p])
<1>0. p \in End /\ Other(p) = e
  BY OtherEnd
<1>1. /\ w \in Seq(Frame) /\ w # << >> /\ g \in Seq(Nat) /\ Len(g) \in Nat /\ sent \in Nat /\ Carrying(p)
      /\ session[e] # "closed" /\ f = Head(w)
  BY <1>0, SessionFacts DEF SessionInv, Arrives, FrameAt, Incoming
<1>2. (\A i \in 1..Len(g) : g[i] = i) /\ Len(g) <= sent
  BY <1>0, <1>1 DEF Carrying
<1>3. /\ \A i \in 1..Len(q.stream.got) : q.stream.got[i] = i
      /\ Len(q.stream.got) <= sent
      /\ Listens(q.stream) =>
           \E hi \in Len(q.stream.got)..sent :
             /\ InOrder(Tail(w), Len(q.stream.got), hi)
             /\ session[p] = "open" => hi = sent
  <2>1. CASE stream[e].registered /\ IsUnit(f)
    <3>1. PICK hi \in Len(g)..sent : InOrder(w, Len(g), hi) /\ (session[p] = "open" => hi = sent)
      BY <1>0, <1>1, <2>1 DEF Carrying, Listens
    <3>2. f.n = Len(g) + 1 /\ Len(g) + 1 <= hi /\ InOrder(Tail(w), Len(g) + 1, hi)
      <4>1. IsUnit(Head(w)) /\ hi \in Int /\ Len(g) \in Int
        BY <1>1, <2>1, <3>1
      <4> HIDE DEF w, g, sent, f
      <4> QED BY <1>1, <3>1, <4>1, OrderTaken
    <3>3. q.stream.got = Append(g, Len(g) + 1)
      BY <2>1, <3>2
    <3>4. /\ Len(Append(g, Len(g) + 1)) = Len(g) + 1
          /\ \A i \in 1..(Len(g) + 1) : Append(g, Len(g) + 1)[i] = IF i <= Len(g) THEN g[i] ELSE Len(g) + 1
      <4>1. Len(g) + 1 \in Nat
        <5> HIDE DEF g
        <5> QED BY <1>1
      <4> DEFINE n == Len(g) + 1
      <4>2. g \in Seq(Nat) /\ n \in Nat
        BY <1>1, <4>1
      <4>3. Len(Append(g, n)) = Len(g) + 1 /\ \A i \in 1..(Len(g) + 1) : Append(g, n)[i] = IF i <= Len(g) THEN g[i] ELSE n
        <5> HIDE DEF g, n
        <5> QED BY <4>2
      <4> QED BY <4>3
    <3>5. \A i \in 1..(Len(g) + 1) : Append(g, Len(g) + 1)[i] = i
      <4> DEFINE a == Append(g, Len(g) + 1)
      <4>1. \A i \in 1..(Len(g) + 1) : a[i] = IF i <= Len(g) THEN g[i] ELSE Len(g) + 1
        BY <3>4
      <4> HIDE DEF a, g
      <4>2. \A i \in 1..(Len(g) + 1) : a[i] = i
        BY <1>1, <1>2, <4>1
      <4> QED BY <4>2 DEF a, g
    <3>6. Len(g) + 1 <= sent /\ hi \in (Len(g) + 1)..sent
      <4> HIDE DEF g, sent
      <4> QED BY <1>1, <3>1, <3>2
    <3>7. Len(q.stream.got) = Len(g) + 1
      BY <3>3, <3>4
    <3>8. \A i \in 1..Len(q.stream.got) : q.stream.got[i] = i
      BY <3>3, <3>5, <3>7
    <3> QED BY <3>1, <3>2, <3>6, <3>7, <3>8
  <2>2. CASE ~(stream[e].registered /\ IsUnit(f))
    <3>1. q.stream.got = g
      BY <2>2
    <3>2. ASSUME Listens(q.stream)
          PROVE  \E hi \in Len(g)..sent : InOrder(Tail(w), Len(g), hi) /\ (session[p] = "open" => hi = sent)
      <4>1. ~IsUnit(f) /\ Listens(stream[e])
        BY <2>2, <3>2 DEF Listens
      <4>2. PICK hi \in Len(g)..sent : InOrder(w, Len(g), hi) /\ (session[p] = "open" => hi = sent)
        BY <1>0, <1>1, <4>1 DEF Carrying
      <4>3. InOrder(Tail(w), Len(g), hi)
        <5>1. hi \in Int /\ Len(g) \in Int
          BY <1>1, <4>2
        <5> HIDE DEF w, g, sent, f
        <5> QED BY <1>1, <4>1, <4>2, <5>1, OrderTaken
      <4> QED BY <4>2, <4>3
    <3> QED BY <1>2, <3>1, <3>2
  <2> QED BY <2>1, <2>2
<1> HIDE DEF p
<1>4. stream'[p] = stream[p] /\ wire'[p] = Tail(wire[p])
  BY DEF p
<1>5. Carrying(p)'
  BY <1>0, <1>3, <1>4 DEF Carrying
<1> QED BY <1>5 DEF p

----------------------------------------------------------------------------
Carried ==
  /\ wire \in [End -> Seq(Frame)] /\ stream \in [End -> StreamRecord]
  /\ session \in [End -> {"open", "closing", "closed"}] /\ session[Node] # "closing"
  /\ \A e \in End : Proper(stream[e]) /\ Carrying(e)

LEMMA BothCarry ==
  ASSUME SessionInv, NEW e \in End, NEW q, Proper(q.stream), Appends(e, q),
         stream'[e] = q.stream, stream'[Other(e)] = stream[Other(e)],
         Carrying(e)', Carrying(Other(e))'
  PROVE  Carried'
<1> DEFINE p == Other(e)
<1>0. p \in End /\ \A d \in End : d = e \/ d = p
  BY OtherEnd DEF End, Other
<1>1. stream \in [End -> StreamRecord] /\ Proper(stream[p])
  BY <1>0, SessionFacts
<1>2. stream' \in [End -> StreamRecord] /\ wire' \in [End -> Seq(Frame)]
  BY <1>1 DEF Appends, Proper
<1>3. session' \in [End -> {"open", "closing", "closed"}] /\ session'[Node] # "closing"
  BY DEF Appends, SessionInv
<1> HIDE DEF p
<1>4. Proper(stream'[e]) /\ Proper(stream'[p]) /\ Carrying(e)' /\ Carrying(p)'
  BY <1>1 DEF p
<1>5. ASSUME NEW d \in End PROVE Proper(stream'[d]) /\ Carrying(d)'
  BY <1>0, <1>4
<1> QED BY <1>2, <1>3, <1>5 DEF Carried

(* A call that opens nothing.                                                *)
LEMMA CallsKeep ==
  ASSUME SessionInv, NEW e \in End, NEW q, q = Result(q.stream, q.out), Calls(e, q), UNCHANGED session,
         Emits(stream[e], q), q.stream.got = stream[e].got, stream[e].state # "idle",
         e = Server => Quiet(q.out)
  PROVE  SessionInv'
<1>1. /\ Sends(stream[e], q) /\ q.out \in Seq(Frame) /\ Proper(q.stream) /\ q.stream.state # "idle"
      /\ (Listens(q.stream) => Listens(stream[e]))
  BY DEF Emits, Sends, Listens
<1>2. /\ Appends(e, q) /\ wire'[Other(e)] = wire[Other(e)]
      /\ stream'[e] = q.stream /\ stream'[Other(e)] = stream[Other(e)]
  BY <1>1, CallsAre
<1>3. Carried'
  BY <1>1, <1>2, SenderCarries, CallerCarries, BothCarry
<1>4. SessionOpening'
  <2>1. CASE e = Server
    <3>1. /\ stream'[Server] = q.stream /\ stream'[Node] = stream[Node] /\ session' = session
          /\ wire'[Server] = wire[Server] \o Outgoing(Server, q) /\ wire'[Node] = wire[Node]
      BY <1>2, <2>1, SessionFacts DEF Appends
    <3>2. /\ Quiet(wire[Server]) => Quiet(wire'[Server])
          /\ Begins(wire[Server]) => Begins(wire'[Server])
      <4>1. wire[Server] \in Seq(Frame) /\ Outgoing(Server, q) \in Seq(Frame) /\ Quiet(Outgoing(Server, q))
        BY <1>1, <2>1, SentOut, SessionFacts
      <4> QED BY <3>1, <4>1, QuietJoined
    <3> QED BY <1>1, <2>1, <3>1, <3>2 DEF SessionInv, SessionOpening
  <2>2. CASE e = Node
    <3>1. stream'[Node] = q.stream /\ stream'[Server] = stream[Server] /\ wire'[Server] = wire[Server]
      BY <1>2, <2>2, SessionFacts
    <3> QED BY <1>1, <2>2, <3>1 DEF SessionInv, SessionOpening
  <2> QED BY <2>1, <2>2 DEF End
<1> QED BY <1>3, <1>4 DEF Carried, SessionInv

(* The server opens: its first frame is the first on its wire.               *)
LEMMA OpeningKeeps ==
  ASSUME SessionInv, NEW q, q = Result(q.stream, q.out), Calls(Server, q), UNCHANGED session,
         Emits(stream[Server], q), q.stream.got = stream[Server].got, stream[Server].state = "idle",
         session[Server] = "open", Begins(q.out)
  PROVE  SessionInv' /\ wire'[Server] = q.out
<1>0. Server \in End
  BY SessionFacts
<1>1. /\ Sends(stream[Server], q) /\ q.out \in Seq(Frame) /\ Proper(q.stream) /\ q.stream.state # "idle"
      /\ (Listens(q.stream) => Listens(stream[Server]))
  BY DEF Emits, Sends, Listens
<1>2. /\ Appends(Server, q) /\ wire'[Other(Server)] = wire[Other(Server)]
      /\ stream'[Server] = q.stream /\ stream'[Other(Server)] = stream[Other(Server)]
  BY <1>0, <1>1, CallsAre
<1>3. Carried'
  BY <1>0, <1>1, <1>2, SenderCarries, CallerCarries, BothCarry
<1>4. wire[Server] = << >> /\ Outgoing(Server, q) = q.out /\ << >> \o q.out = q.out
  BY <1>1, SentOut DEF SessionInv, SessionOpening
<1>5. /\ wire'[Server] = q.out /\ stream'[Node] = stream[Node] /\ wire'[Node] = wire[Node]
      /\ stream'[Server] = q.stream /\ session' = session
  BY <1>2, <1>4, SessionFacts DEF Appends
<1>6. SessionOpening'
  BY <1>1, <1>5 DEF SessionInv, SessionOpening
<1> QED BY <1>3, <1>5, <1>6 DEF Carried, SessionInv

----------------------------------------------------------------------------
(* What handling a frame does to the stream of e.                            *)
LEMMA HandledIs ==
  ASSUME SessionInv, NEW e \in End, Arrives(e)
  PROVE  /\ FrameAt(e) \in Frame /\ Handled(e) = Result(Handled(e).stream, Handled(e).out)
         /\ Sends(stream[e], Handled(e)) /\ Quiet(Handled(e).out) /\ Handled(e).stream.state # "idle"
         /\ Listens(Handled(e).stream) => Listens(stream[e])
         /\ Handled(e).stream.got = IF Known(e) /\ IsUnit(FrameAt(e))
                                      THEN Append(stream[e].got, FrameAt(e).n) ELSE stream[e].got
         /\ stream[e].state = "idle" =>
              /\ e = Node /\ Opens(FrameAt(e)) /\ ~IsUnit(FrameAt(e)) /\ ~Known(e)
              /\ Handled(e) = Result([NewStream EXCEPT !.state =
                                        IF FrameAt(e).fin THEN "half_closed_remote" ELSE "open"], << >>)
         /\ stream[e].state # "idle" => Emits(stream[e], Handled(e)) /\ (Opens(FrameAt(e)) => e = Server)
         /\ stream[e].state # "idle" /\ ~Known(e) => ~Handled(e).stream.registered
         /\ e = Server => stream[e].state # "idle"
<1> DEFINE p == Other(e)
           s == stream[e]
           f == FrameAt(e)
           q == Handled(e)
           w == wire[p]
<1>0. p \in End /\ Other(p) = e
  BY OtherEnd
<1>1. w \in Seq(Frame) /\ w # << >> /\ Proper(s) /\ s \in StreamRecord /\ session[e] # "closed" /\ f = Head(w)
  BY <1>0, SessionFacts DEF Arrives, FrameAt, Incoming
<1>2. f \in Frame /\ f = w[1] /\ 1 \in 1..Len(w)
  <2> HIDE DEF w
  <2> QED BY <1>1, TheTail
<1>3. q = HandleFrame(e, s, f)
  BY DEF Handled
<1>4. q = Result(q.stream, q.out)
  BY DEF Handled, HandleFrame, HandleHeaders, HandleData, HandleReset, HandleWindowUpdate, FlushBuffered,
         Unchanged, Result
<1> HIDE DEF q
<1>5. e = Server => s.state # "idle"
  BY <1>0, <1>1, SessionFacts DEF SessionInv, SessionOpening
<1>6. CASE s.state # "idle"
  <2>1. Opens(f) => e = Server
    <3>1. e = Node => Quiet(w)
      BY <1>6, SessionFacts DEF SessionInv, SessionOpening
    <3> QED BY <1>2, <3>1 DEF Quiet, End
  <2>2. /\ Emits(s, q) /\ Quiet(q.out)
        /\ q.stream.got = IF s.registered /\ IsUnit(f) THEN Append(s.got, f.n) ELSE s.got
    BY <1>1, <1>2, <1>3, <1>6, <2>1, HandleEmits
  <2>3. Sends(s, q) /\ (Listens(q.stream) => Listens(s)) /\ q.stream.state # "idle"
        /\ (~s.registered => ~q.stream.registered)
    BY <2>2 DEF Emits, Sends, Listens
  <2> QED BY <1>2, <1>4, <1>6, <2>1, <2>2, <2>3 DEF Known, q
<1>7. CASE s.state = "idle"
  <2>1. e = Node
    BY <1>5, <1>7 DEF End
  <2>2. /\ stream[Server].state # "idle" /\ Begins(w) /\ Opens(f)
        /\ s = [NewStream EXCEPT !.registered = FALSE]
    BY <1>1, <1>2, <1>7, <2>1, SessionFacts DEF SessionInv, SessionOpening, Begins
  <2> DEFINE state == IF f.fin THEN "half_closed_remote" ELSE "open"
             t == [NewStream EXCEPT !.state = state]
  <2>3. q = Result(t, << >>) /\ ~s.registered
    <3>1. ~s.registered
      BY <2>2 DEF NewStream
    <3> QED BY <1>3, <2>1, <2>2, <3>1, SessionFacts DEF HandleFrame, HandleHeaders, Unchanged, Opens
  <2>4. /\ t \in StreamRecord /\ t.got = << >> /\ t.state \in {"half_closed_remote", "open"}
        /\ s.got = << >> /\ Sent(t) = 0 /\ Sent(s) = 0 /\ Sending(t)
    <3>1. state \in STREAM_STATE /\ state \in {"half_closed_remote", "open"} /\ FALSE \in BOOLEAN
      BY DEF STREAM_STATE
    <3> HIDE DEF state
    <3>2. Unused(t) /\ t.state = state
      BY <3>1, NewIsUnused, UnusedStateChanged
    <3>3. Unused(s)
      BY <2>2, <3>1, NewIsUnused, UnusedRegisteredChanged
    <3> HIDE DEF t
    <3> QED BY <3>1, <3>2, <3>3 DEF Unused
  <2>5. q = Result([NewStream EXCEPT !.state = IF f.fin THEN "half_closed_remote" ELSE "open"], << >>)
    BY <2>3
  <2> HIDE DEF t, state
  <2>6. Proper(t)
    BY <2>4 DEF Proper
  <2>7. InOrder(<< >>, 0, 0) /\ << >> \in Seq(Frame) /\ Quiet(<< >>)
    BY NothingInOrder, Signals
  <2>8. Sends(s, q) /\ Quiet(q.out)
    BY <2>3, <2>4, <2>6, <2>7 DEF Sends, Result
  <2>9. ~IsUnit(f) /\ Listens(s) /\ q.stream.got = s.got /\ q.stream.state # "idle"
    BY <1>7, <2>2, <2>3, <2>4 DEF IsUnit, Opens, Listens, Result
  <2> QED BY <1>2, <1>4, <1>7, <2>1, <2>2, <2>3, <2>5, <2>8, <2>9 DEF Known, q
<1> QED BY <1>6, <1>7

(* A frame is received, and a call may follow in the same step.              *)
LEMMA HandlesKeep ==
  ASSUME SessionInv, NEW e \in End, Arrives(e), NEW q, q = Result(q.stream, q.out), Handles(e, q),
         UNCHANGED session, Sends(stream[e], q), q.stream.got = Handled(e).stream.got,
         Listens(q.stream) => Listens(stream[e]), q.stream.state # "idle", e = Server => Quiet(q.out)
  PROVE  SessionInv'
<1>1. q.out \in Seq(Frame) /\ Proper(q.stream)
  BY DEF Sends
<1>2. /\ Appends(e, q) /\ wire'[Other(e)] = Tail(wire[Other(e)])
      /\ stream'[e] = q.stream /\ stream'[Other(e)] = stream[Other(e)]
  BY <1>1, HandlesAre
<1>3. /\ q.stream.got = IF stream[e].registered /\ IsUnit(FrameAt(e))
                          THEN Append(stream[e].got, FrameAt(e).n) ELSE stream[e].got
      /\ stream[e].state = "idle" => e = Node /\ ~IsUnit(FrameAt(e))
      /\ e = Server => stream[e].state # "idle"
  BY HandledIs DEF Known
<1>4. Carrying(e)'
  BY <1>2, SenderCarries
<1>5. UNCHANGED session
  BY <1>2 DEF Appends
<1>6. Carrying(Other(e))'
  BY <1>2, <1>3, <1>5, ReceiverCarries
<1>7. Carried'
  BY <1>1, <1>2, <1>4, <1>6, BothCarry
<1>8. SessionOpening'
  <2>1. CASE e = Server
    <3>1. /\ stream'[Server] = q.stream /\ stream'[Node] = stream[Node]
          /\ wire'[Server] = wire[Server] \o Outgoing(Server, q)
      BY <1>2, <2>1, SessionFacts DEF Appends
    <3>2. stream[Node].state # "idle" /\ Quiet(wire[Server])
      <4>1. wire[Node] # << >>
        BY <2>1, SessionFacts DEF Arrives
      <4> QED BY <4>1 DEF SessionInv, SessionOpening
    <3>3. Quiet(wire'[Server])
      <4>1. wire[Server] \in Seq(Frame) /\ Outgoing(Server, q) \in Seq(Frame) /\ Quiet(Outgoing(Server, q))
        BY <1>1, <2>1, SentOut, SessionFacts
      <4> QED BY <3>1, <3>2, <4>1, QuietJoined
    <3> QED BY <3>1, <3>2, <3>3 DEF SessionOpening
  <2>2. CASE e = Node
    <3>1. stream'[Node] = q.stream /\ stream'[Server] = stream[Server] /\ wire'[Server] = Tail(wire[Server])
      BY <1>2, <2>2, SessionFacts
    <3>2. wire[Server] \in Seq(Frame) /\ wire[Server] # << >> /\ session[Node] # "closed"
      BY <2>2, SessionFacts DEF Arrives
    <3>3. Begins(wire[Server]) \/ Quiet(wire[Server])
      BY <3>2 DEF SessionInv, SessionOpening
    <3>4. Quiet(Tail(wire[Server])) /\ stream[Server].state # "idle"
      <4> DEFINE w == wire[Server]
      <4>1. \A i \in 1..Len(Tail(w)) : Tail(w)[i] = w[i + 1] /\ i + 1 \in 1..Len(w) /\ i + 1 \in 2..Len(w)
        <5>1. w \in Seq(Frame) /\ w # << >>
          BY <3>2
        <5> HIDE DEF w
        <5>2. Len(w) \in Nat \ {0} /\ Len(Tail(w)) = Len(w) - 1
          BY <5>1, TheTail
        <5> QED BY <5>1, <5>2, TheTail
      <4>2. Begins(w) \/ Quiet(w)
        BY <3>3
      <4>3. stream[Server].state # "idle"
        BY <3>2 DEF SessionInv, SessionOpening
      <4> HIDE DEF w
      <4>4. Quiet(Tail(w))
        BY <4>1, <4>2 DEF Begins, Quiet
      <4> QED BY <4>3, <4>4 DEF w
    <3> QED BY <3>1, <3>4 DEF SessionOpening
  <2> QED BY <2>1, <2>2 DEF End
<1> QED BY <1>7, <1>8 DEF Carried, SessionInv

LEMMA HandledKeeps ==
  ASSUME SessionInv, NEW e \in End, Arrives(e), Handles(e, Handled(e)), UNCHANGED session
  PROVE  /\ SessionInv' /\ Appends(e, Handled(e)) /\ wire'[Other(e)] = Tail(wire[Other(e)])
         /\ stream'[e] = Handled(e).stream /\ stream'[Other(e)] = stream[Other(e)]
<1> DEFINE q == Handled(e)
<1>1. /\ q = Result(q.stream, q.out) /\ Sends(stream[e], q) /\ Quiet(q.out) /\ q.stream.state # "idle"
      /\ (Listens(q.stream) => Listens(stream[e])) /\ Handles(e, q)
  BY HandledIs
<1>2. q.out \in Seq(Frame) /\ q.stream.got = Handled(e).stream.got
  BY <1>1 DEF Sends
<1> HIDE DEF q
<1>3. SessionInv'
  BY <1>1, <1>2, HandlesKeep
<1>4. /\ Appends(e, q) /\ wire'[Other(e)] = Tail(wire[Other(e)])
      /\ stream'[e] = q.stream /\ stream'[Other(e)] = stream[Other(e)]
  BY <1>1, <1>2, HandlesAre
<1> QED BY <1>3, <1>4 DEF q

(* A frame is received, and the call c follows in the same step.             *)
LEMMA HandledThenKeeps ==
  ASSUME SessionInv, NEW e \in End, Arrives(e), NEW c, Emits(Handled(e).stream, c),
         c.stream.got = Handled(e).stream.got, e = Server => Quiet(c.out),
         NEW q, q = Joint(Handled(e), c), Handles(e, q), UNCHANGED session
  PROVE  /\ SessionInv' /\ Appends(e, q) /\ wire'[Other(e)] = Tail(wire[Other(e)])
         /\ stream'[e] = c.stream /\ stream'[Other(e)] = stream[Other(e)]
         /\ q.out = Handled(e).out \o c.out /\ q.stream = c.stream /\ q.out \in Seq(Frame)
<1> DEFINE h == Handled(e)
<1>1. /\ Sends(stream[e], h) /\ Quiet(h.out) /\ h.stream.state # "idle"
      /\ (Listens(h.stream) => Listens(stream[e])) /\ Proper(stream[e])
  BY HandledIs, SessionFacts
<1>2. q = Joint(h, c) /\ c.stream.got = h.stream.got /\ Emits(h.stream, c)
  OBVIOUS
<1> HIDE DEF h
<1>3. /\ Sends(stream[e], q) /\ q.stream = c.stream /\ q.stream.state # "idle"
      /\ q.out = h.out \o c.out /\ q = Result(q.stream, q.out)
      /\ (Quiet(h.out) /\ Quiet(c.out) => Quiet(q.out))
      /\ (Listens(c.stream) => h.stream.registered)
  <2> DEFINE s == stream[e]
  <2>1. Proper(s) /\ Sends(s, h)
    BY <1>1
  <2> HIDE DEF s
  <2>2. /\ Sends(s, q) /\ q.stream = c.stream /\ q.stream.state # "idle"
        /\ q = Result(q.stream, q.out)
        /\ (Quiet(h.out) /\ Quiet(c.out) => Quiet(q.out))
        /\ (Listens(c.stream) => h.stream.registered)
    BY <1>2, <2>1, SendsAfter
  <2>3. q.out = h.out \o c.out
    BY <1>2, JointIs
  <2> QED BY <2>2, <2>3 DEF s
<1>4. q.out \in Seq(Frame) /\ (Listens(q.stream) => Listens(stream[e]))
  BY <1>1, <1>3 DEF Sends, Listens
<1>5. SessionInv'
  BY <1>1, <1>2, <1>3, <1>4, HandlesKeep DEF h
<1>6. /\ Appends(e, q) /\ wire'[Other(e)] = Tail(wire[Other(e)])
      /\ stream'[e] = q.stream /\ stream'[Other(e)] = stream[Other(e)]
  BY <1>3, <1>4, HandlesAre
<1> QED BY <1>3, <1>4, <1>5, <1>6 DEF h

----------------------------------------------------------------------------
(* The end of the session.                                                   *)
Ended(s) == [s EXCEPT !.state = IF s.state = "idle" THEN s.state ELSE "closed", !.registered = FALSE]

LEMMA ClosedStream ==
  ASSUME NEW s, Proper(s)
  PROVE  /\ Proper(Ended(s)) /\ Ended(s) \in StreamRecord /\ ~Ended(s).registered
         /\ Sent(Ended(s)) = Sent(s) /\ Ended(s).got = s.got
         /\ Ended(s).state = (IF s.state = "idle" THEN "idle" ELSE "closed")
         /\ Ended(s).written = s.written /\ Ended(s).sendWindow = s.sendWindow
<1> DEFINE t == Ended(s)
           state == IF s.state = "idle" THEN s.state ELSE "closed"
<1>1. state \in STREAM_STATE /\ s \in StreamRecord /\ t = [s EXCEPT !.state = state, !.registered = FALSE]
  BY DEF STREAM_STATE, Proper, StreamRecord, Ended
<1>2. state = IF s.state = "idle" THEN "idle" ELSE "closed"
  OBVIOUS
<1> HIDE DEF state, t
<1>3. /\ t \in StreamRecord /\ t.state = state /\ ~t.registered /\ t.got = s.got
      /\ t.written = s.written /\ t.sendWindow = s.sendWindow /\ t.bufferedData = s.bufferedData
  BY <1>1 DEF StreamRecord
<1>4. Sent(t) = Sent(s)
  BY <1>3 DEF Sent
<1>5. Sending(t)
  BY <1>3, <1>4 DEF Proper, Sending
<1> QED BY <1>2, <1>3, <1>4, <1>5 DEF Proper, t

LEMMA ClosingKeeps ==
  ASSUME SessionInv, NEW e \in End, Closes(e)
  PROVE  /\ SessionInv'
         /\ session' = [session EXCEPT ![e] = "closed"] /\ session'[e] = "closed"
         /\ session'[Other(e)] = session[Other(e)]
         /\ stream'[Other(e)] = stream[Other(e)] /\ ~stream'[e].registered
         /\ stream'[e].state = (IF stream[e].state = "idle" THEN "idle" ELSE "closed")
         /\ stream'[e].got = stream[e].got /\ stream'[e].written = stream[e].written
         /\ stream'[e].sendWindow = stream[e].sendWindow
         /\ wire'[e] = wire[e] /\ wire'[Other(e)] = << >>
<1> DEFINE p == Other(e)
           s == stream[e]
           t == Ended(s)
<1>0. p \in End /\ p # e /\ Other(p) = e /\ \A d \in End : d = e \/ d = p
  BY OtherEnd DEF End, Other
<1>1. /\ wire \in [End -> Seq(Frame)] /\ stream \in [End -> StreamRecord]
      /\ session \in [End -> {"open", "closing", "closed"}] /\ session[Node] # "closing"
      /\ Proper(s) /\ Proper(stream[p]) /\ Carrying(e) /\ Carrying(p) /\ SessionOpening
  BY <1>0 DEF SessionInv
<1>2. /\ Proper(t) /\ t \in StreamRecord /\ ~t.registered /\ Sent(t) = Sent(s) /\ t.got = s.got
      /\ t.state = (IF s.state = "idle" THEN "idle" ELSE "closed")
      /\ t.written = s.written /\ t.sendWindow = s.sendWindow
  BY <1>1, ClosedStream
<1>3. /\ session' = [session EXCEPT ![e] = "closed"]
      /\ wire' = [wire EXCEPT ![p] = << >>]
      /\ stream' = [stream EXCEPT ![e] = t]
  BY <1>1 DEF Closes, Ended
<1>4. e = Node => (s.state = "idle" => t = s)
  <2> SUFFICES ASSUME e = Node, s.state = "idle" PROVE t = s
    OBVIOUS
  <2>1. s = [NewStream EXCEPT !.registered = FALSE]
    BY <1>1 DEF SessionOpening
  <2>2. s \in StreamRecord
    BY <1>1 DEF Proper
  <2>3. ~s.registered
    BY <2>1 DEF NewStream
  <2>4. s.state = "idle"
    OBVIOUS
  <2> HIDE DEF s
  <2>5. [s EXCEPT !.state = s.state, !.registered = FALSE] = s
    BY <2>2, <2>3 DEF StreamRecord
  <2> QED BY <2>4, <2>5 DEF Ended
<1> HIDE DEF t, s, p
<1>5. /\ wire' \in [End -> Seq(Frame)] /\ wire'[e] = wire[e] /\ wire'[p] = << >>
      /\ stream' \in [End -> StreamRecord] /\ stream'[e] = t /\ stream'[p] = stream[p]
      /\ session' \in [End -> {"open", "closing", "closed"}] /\ session'[e] = "closed" /\ session'[p] = session[p]
  BY <1>0, <1>1, <1>2, <1>3, Signals
<1>6. session'[Node] # "closing"
  BY <1>0, <1>1, <1>5 DEF End
<1>7. Carrying(e)'
  <2>1. /\ \A i \in 1..Len(stream[p].got) : stream[p].got[i] = i
        /\ Len(stream[p].got) <= Sent(s)
        /\ Listens(stream[p]) /\ session[p] # "closed" =>
             \E hi \in Len(stream[p].got)..Sent(s) : InOrder(wire[e], Len(stream[p].got), hi)
    BY <1>1 DEF Carrying, p, s
  <2> QED BY <1>2, <1>5, <2>1 DEF Carrying, p
<1>8. Carrying(p)'
  <2>1. /\ \A i \in 1..Len(s.got) : s.got[i] = i
        /\ Len(s.got) <= Sent(stream[p])
    BY <1>0, <1>1 DEF Carrying, s
  <2> QED BY <1>0, <1>2, <1>5, <2>1 DEF Carrying
<1>9. ASSUME NEW d \in End PROVE Proper(stream'[d]) /\ Carrying(d)'
  BY <1>0, <1>1, <1>2, <1>5, <1>7, <1>8
<1>10. SessionOpening'
  <2>0. << >> = << >> /\ Quiet(<< >>)
    BY Signals
  <2>1. CASE e = Server
    <3>1. p = Node
      BY <2>1, SessionFacts DEF p
    <3>2. /\ stream'[Server] = t /\ stream'[Node] = stream[Node] /\ wire'[Server] = wire[Server]
          /\ wire'[Node] = << >> /\ session'[Node] = session[Node] /\ (t.state = "idle" <=> stream[Server].state = "idle")
      BY <1>2, <1>5, <2>1, <3>1 DEF s
    <3> QED BY <1>1, <3>2 DEF SessionOpening
  <2>2. CASE e = Node
    <3>1. p = Server
      BY <2>2, SessionFacts DEF p
    <3>2. /\ stream'[Server] = stream[Server] /\ stream'[Node] = t /\ wire'[Server] = << >>
          /\ wire'[Node] = wire[Node] /\ session'[Node] = "closed" /\ (t.state = "idle" <=> stream[Node].state = "idle")
          /\ (stream[Node].state = "idle" => t = stream[Node])
      BY <1>2, <1>4, <1>5, <2>2, <3>1 DEF s
    <3> QED BY <1>1, <2>0, <3>2 DEF SessionOpening
  <2> QED BY <2>1, <2>2 DEF End
<1>11. SessionInv'
  BY <1>5, <1>6, <1>9, <1>10 DEF SessionInv
<1> QED BY <1>2, <1>3, <1>5, <1>11 DEF p, s

LEMMA ServerClosingKeeps ==
  ASSUME SessionInv, ServerCloses
  PROVE  /\ SessionInv' /\ UNCHANGED <<stream, wire>> /\ session'[Server] = "closing"
         /\ session'[Node] = session[Node]
<1>1. /\ session' = [session EXCEPT ![Server] = "closing"] /\ UNCHANGED <<stream, wire>>
      /\ session[Server] = "open"
  BY DEF ServerCloses
<1>2. /\ session' \in [End -> {"open", "closing", "closed"}] /\ session'[Server] = "closing"
      /\ session'[Node] = session[Node]
  BY <1>1, SessionFacts
<1>3. ASSUME NEW e \in End PROVE Carrying(e)'
  <2>1. Carrying(e)
    BY DEF SessionInv
  <2>2. /\ (session'[Other(e)] # "closed" => session[Other(e)] # "closed")
        /\ (session'[e] = "open" => session[e] = "open")
    BY <1>1, <1>2, SessionFacts, OtherEnd
  <2> QED BY <1>1, <2>1, <2>2 DEF Carrying
<1>4. SessionOpening'
  BY <1>1, <1>2 DEF SessionInv, SessionOpening
<1> QED BY <1>1, <1>2, <1>3, <1>4 DEF SessionInv

LEMMA SessionRests ==
  ASSUME SessionInv, UNCHANGED <<stream, wire, session>>
  PROVE  SessionInv'
BY DEF SessionInv, SessionOpening, Carrying

LEMMA SessionInvInit == SessionInit => SessionInv
<1> SUFFICES ASSUME SessionInit PROVE SessionInv
  OBVIOUS
<1>1. StreamInv
  BY StreamInvInit DEF SessionInit
<1>2. /\ session \in [End -> {"open", "closing", "closed"}]
      /\ session[Node] # "closing"
  BY DEF SessionInit, End
<1>3. ASSUME NEW e \in End PROVE Carrying(e)
  <2>1. Delivering(e) /\ Proper(stream[Other(e)]) /\ Proper(stream[e])
    BY <1>1, OtherEnd DEF StreamInv
  <2>2. Len(stream[Other(e)].got) \in Nat /\ Sent(stream[e]) \in Nat
    BY <2>1, GotIs, SentIs DEF Proper
  <2>3. Sent(stream[e]) \in Len(stream[Other(e)].got)..Sent(stream[e])
    BY <2>1, <2>2 DEF Delivering
  <2> QED BY <2>1, <2>3 DEF Delivering, Carrying
<1>4. SessionOpening
  BY <1>1 DEF StreamInv, Opening, SessionOpening
<1> QED BY <1>1, <1>2, <1>3, <1>4 DEF StreamInv, SessionInv

----------------------------------------------------------------------------
(* What the calls do besides sending.                                        *)
NoEnd(w) == \A i \in 1..Len(w) : ~w[i].fin
NoUnit(w) == \A i \in 1..Len(w) : ~IsUnit(w[i])

LEMMA ResultIs ==
  \A s, w : Result(s, w).stream = s /\ Result(s, w).out = w
BY DEF Result

LEMMA NothingSent == NoEnd(<< >>) /\ NoUnit(<< >>) /\ Quiet(<< >>) /\ << >> \in Seq(Frame)
BY Signals DEF NoEnd, NoUnit

LEMMA DataIs ==
  \A n, fin : Data(n, fin).type = "DATA" /\ Data(n, fin).n = n /\ Data(n, fin).fin = fin
BY DEF Data

LEMMA OneSent ==
  ASSUME NEW f
  PROVE  /\ NoEnd(<<f>>) <=> ~f.fin
         /\ NoUnit(<<f>>) <=> ~IsUnit(f)
         /\ Quiet(<<f>>) <=> ~Opens(f)
         /\ <<f>> # << >> /\ Len(<<f>>) = 1 /\ <<f>>[1] = f /\ \A i \in 1..Len(<<f>>) : i = 1
         /\ Opens(f) => Begins(<<f>>)
<1> DEFINE w == <<f>>
<1>1. w # << >> /\ Len(w) = 1 /\ w[1] = f /\ \A i \in 1..Len(w) : i = 1
  OBVIOUS
<1>2. 1 \in 1..1 /\ \A i \in 2..1 : FALSE
  OBVIOUS
<1> HIDE DEF w
<1>3. /\ NoEnd(w) <=> ~f.fin
      /\ NoUnit(w) <=> ~IsUnit(f)
      /\ Quiet(w) <=> ~Opens(f)
      /\ Opens(f) => Begins(w)
  BY <1>1, <1>2 DEF NoEnd, NoUnit, Quiet, Begins
<1> QED BY <1>1, <1>3 DEF w

LEMMA HeadersFacts ==
  ASSUME NEW s, Proper(s), NEW n \in Nat, NEW fin \in BOOLEAN
  PROVE  LET q == SendHeaders(s, n, fin) IN
         /\ q = Result(q.stream, q.out) /\ q.stream.written = s.written /\ q.stream.got = s.got
         /\ q.stream.registered = s.registered /\ q.stream.sendWindow = s.sendWindow
         /\ NoUnit(q.out)
         /\ s.state = "closed" => q.stream = s /\ q.out = << >>
         /\ s.state # "closed" => /\ q.out = <<Headers(n, fin)>>
                                  /\ q.stream.state = IF fin THEN "half_closed_local" ELSE "open"
<1> DEFINE q == SendHeaders(s, n, fin)
<1>1. CASE s.state = "closed"
  <2>1. q = Result(s, << >>)
    BY <1>1 DEF SendHeaders, Unchanged
  <2> HIDE DEF q
  <2>2. q.stream = s /\ q.out = << >>
    BY <2>1, ResultIs
  <2>3. q = Result(q.stream, q.out)
    BY <2>1, <2>2
  <2> QED BY <1>1, <2>2, <2>3, NothingSent DEF q
<1>2. CASE s.state # "closed"
  <2> DEFINE state == IF fin THEN "half_closed_local" ELSE "open"
             t == [s EXCEPT !.state = state, !.answered = TRUE]
             f == Headers(n, fin)
  <2>1. q = Result(t, <<f>>)
    BY <1>2 DEF SendHeaders
  <2>2. /\ t.written = s.written /\ t.got = s.got /\ t.registered = s.registered
        /\ t.sendWindow = s.sendWindow /\ t.state = state
    BY DEF Proper, StreamRecord
  <2>3. ~IsUnit(f)
    BY DEF Headers, IsUnit
  <2> HIDE DEF q, t, f
  <2>4. q.stream = t /\ q.out = <<f>>
    BY <2>1, ResultIs
  <2>5. q = Result(q.stream, q.out)
    BY <2>1, <2>4
  <2>6. NoUnit(<<f>>)
    BY <2>3, OneSent
  <2> QED BY <1>2, <2>2, <2>4, <2>5, <2>6 DEF q, f
<1> QED BY <1>1, <1>2

LEMMA CloseFacts ==
  ASSUME NEW s, Proper(s), s.state # "idle"
  PROVE  LET q == Close(s) IN
         /\ q = Result(q.stream, q.out) /\ Emits(s, q) /\ Quiet(q.out) /\ NoUnit(q.out)
         /\ q.stream.written = s.written /\ q.stream.got = s.got /\ q.stream.sendWindow = s.sendWindow
         /\ s.state # "open" => q.out = << >> /\ ~q.stream.registered
         /\ s.state = "open" => q.out = <<Data(0, TRUE)>>
<1> DEFINE q == Close(s)
<1>1. q = Result(q.stream, q.out)
  BY DEF Close, Unchanged, Result
<1>2. /\ Emits(s, q) /\ Quiet(q.out) /\ NoUnit(q.out)
      /\ q.stream.written = s.written /\ q.stream.got = s.got /\ q.stream.sendWindow = s.sendWindow
  BY CloseEmits DEF NoUnit
<1>3. s.state = "open" => q.out = <<Data(0, TRUE)>>
  BY ResultIs DEF Close
<1>4. ASSUME s.state # "open" PROVE q.out = << >> /\ ~q.stream.registered
  <2>1. CASE s.state = "closed"
    <3>1. q = Result(s, << >>)
      BY <2>1 DEF Close, Unchanged
    <3>2. ~s.registered
      BY <2>1 DEF Proper
    <3> QED BY <3>1, <3>2, ResultIs
  <2>2. CASE s.state # "closed"
    <3> DEFINE t == [s EXCEPT !.state = "closed", !.registered = FALSE]
    <3>1. q = Result(t, << >>)
      BY <1>4, <2>2 DEF Close
    <3>2. ~t.registered
      BY DEF Proper, StreamRecord
    <3> HIDE DEF t, q
    <3> QED BY <3>1, <3>2, ResultIs
  <2> QED BY <2>1, <2>2
<1> HIDE DEF q
<1> QED BY <1>1, <1>2, <1>3, <1>4 DEF q

LEMMA ResetFacts ==
  ASSUME NEW s, Proper(s), s.state # "idle"
  PROVE  LET q == Reset(s) IN
         /\ q = Result(q.stream, q.out) /\ Emits(s, q) /\ Quiet(q.out) /\ q.stream.got = s.got
         /\ NoEnd(q.out) /\ ~q.stream.registered
<1> DEFINE q == Reset(s)
<1>1. q = Result(q.stream, q.out)
  BY DEF Reset, Unchanged, Result
<1>2. Emits(s, q) /\ Quiet(q.out) /\ q.stream.got = s.got
  BY ResetEmits
<1>3. CASE s.state = "closed"
  <2>1. q = Result(s, << >>) /\ ~s.registered
    BY <1>3 DEF Reset, Unchanged, Proper
  <2> HIDE DEF q
  <2> QED BY <1>1, <1>2, <2>1, ResultIs, NothingSent DEF q
<1>4. CASE s.state # "closed"
  <2> DEFINE t == [s EXCEPT !.state = "closed", !.registered = FALSE]
             f == Control("RST_STREAM", 0)
  <2>1. q = Result(t, <<f>>)
    BY <1>4 DEF Reset
  <2>2. ~t.registered
    BY DEF Proper, StreamRecord
  <2>3. ~f.fin
    BY DEF Control
  <2> HIDE DEF t, q, f
  <2> QED BY <1>1, <1>2, <2>1, <2>2, <2>3, ResultIs, OneSent DEF q
<1> QED BY <1>3, <1>4

LEMMA CloseTunnelFacts ==
  ASSUME NEW s, Proper(s), s.state # "idle"
  PROVE  LET q == CloseTunnel(s) IN
         /\ q = Result(q.stream, q.out) /\ Emits(s, q) /\ Quiet(q.out) /\ q.stream.got = s.got
         /\ ~q.stream.registered
<1> DEFINE q == CloseTunnel(s)
<1>1. q = Result(q.stream, q.out)
  BY DEF CloseTunnel, Unchanged, Result
<1>2. Emits(s, q) /\ Quiet(q.out) /\ q.stream.got = s.got
  BY CloseTunnelEmits
<1>3. CASE ~s.registered
  <2>1. q = Result(s, << >>)
    BY <1>3 DEF CloseTunnel, Unchanged
  <2> HIDE DEF q
  <2> QED BY <1>1, <1>2, <1>3, <2>1, ResultIs DEF q
<1>4. CASE s.registered
  <2> DEFINE c == Close(s).stream
             t == [c EXCEPT !.state = "closed", !.registered = FALSE]
  <2>1. q = Result(t, Append(Close(s).out, Control("TUNNEL_CLOSE", 0)))
    BY <1>4 DEF CloseTunnel
  <2>2. c \in StreamRecord
    BY CloseEmits DEF Emits, Sends, Proper
  <2> HIDE DEF c, q
  <2>3. ~t.registered
    BY <2>2 DEF StreamRecord
  <2> HIDE DEF t
  <2> QED BY <1>1, <1>2, <2>1, <2>3, ResultIs DEF q
<1> QED BY <1>3, <1>4

LEMMA OpenTunnelFacts ==
  ASSUME NEW s, Proper(s)
  PROVE  LET q == OpenTunnel(s) IN
         /\ q = Result(q.stream, q.out) /\ Emits(s, q) /\ q.stream.got = s.got
         /\ Begins(q.out) /\ q.stream.registered = s.registered
<1> DEFINE q == OpenTunnel(s)
           t == [s EXCEPT !.state = "open"]
           f == Control("TUNNEL_OPEN", 0)
<1>1. q = Result(q.stream, q.out)
  BY DEF OpenTunnel, Result
<1>2. Emits(s, q) /\ q.stream.got = s.got
  BY OpenTunnelEmits
<1>3. q = Result(t, <<f>>)
  BY DEF OpenTunnel
<1>4. t.registered = s.registered
  BY DEF Proper, StreamRecord
<1>5. Opens(f)
  BY DEF Opens, Control
<1> HIDE DEF q, t, f
<1> QED BY <1>1, <1>2, <1>3, <1>4, <1>5, ResultIs, OneSent DEF q

LEMMA SendDataRests ==
  ASSUME NEW s, Proper(s), s.state # "idle", NEW n \in Nat, NEW fin \in BOOLEAN
  PROVE  LET q == SendData(s, n, fin) IN
         /\ q = Result(q.stream, q.out) /\ Emits(s, q) /\ Quiet(q.out) /\ q.stream.got = s.got
         /\ q.stream.registered = s.registered
<1> DEFINE q == SendData(s, n, fin)
<1>1. q = Result(q.stream, q.out)
  BY DEF SendData, Unchanged, Result
<1>2. Emits(s, q) /\ Quiet(q.out) /\ q.stream.got = s.got
  BY SendDataEmits
<1> DEFINE k == Fits(s, n)
           later == Numbered(s.written + k, s.written + n)
           ends == k = n /\ fin
           t == [s EXCEPT !.sendWindow = @ - k, !.bufferedData = @ \o later, !.written = @ + n,
                          !.state = IF ends THEN "half_closed_local" ELSE @]
           out == IF n = 0 THEN <<Data(0, fin)>>
                  ELSE DataFrames(Numbered(s.written, s.written + k), ends)
<1>3. q = Result(s, << >>) \/ q = Result(t, out)
  BY DEF SendData, Unchanged
<1>4. t.registered = s.registered
  BY DEF Proper, StreamRecord
<1> HIDE DEF q, t, out
<1>5. q.stream = s \/ q.stream = t
  BY <1>3, ResultIs
<1> QED BY <1>1, <1>2, <1>4, <1>5 DEF q

(* A body sent whole: the last frame that ends the stream carries its last unit. *)
Body(s, n) == SendData(s, n, TRUE)

IsBody(s, n, q) ==
  /\ q = Result(q.stream, q.out) /\ Emits(s, q) /\ Quiet(q.out) /\ q.stream.got = s.got
  /\ q.stream.registered = s.registered /\ q.stream.written = s.written + n
  /\ q.stream.state = (IF Fits(s, n) = n THEN "half_closed_local" ELSE "open")
  /\ \A i \in 1..Len(q.out) :
       /\ q.out[i].type = "DATA"
       /\ q.out[i].fin => /\ Fits(s, n) = n
                          /\ q.out[i].n = IF n = 0 THEN 0 ELSE s.written + n

LEMMA BodyFacts ==
  ASSUME NEW s, Proper(s), s.state = "open", NEW n \in Nat
  PROVE  IsBody(s, n, Body(s, n))
<1> DEFINE q == SendData(s, n, TRUE)
<1>1. /\ q = Result(q.stream, q.out) /\ Emits(s, q) /\ Quiet(q.out) /\ q.stream.got = s.got
      /\ q.stream.registered = s.registered
  BY SendDataRests
<1> DEFINE k == Fits(s, n)
           now == Numbered(s.written, s.written + k)
           later == Numbered(s.written + k, s.written + n)
           ends == k = n
           t == [s EXCEPT !.sendWindow = @ - k, !.bufferedData = @ \o later, !.written = @ + n,
                          !.state = IF ends THEN "half_closed_local" ELSE @]
           out == IF n = 0 THEN <<Data(0, TRUE)>> ELSE DataFrames(now, ends)
<1>2. q = Result(t, out)
  BY DEF SendData
<1>3. k \in 0..n /\ s.written \in Nat
  BY FitsIs DEF Proper, StreamRecord
<1>4. k = Fits(s, n)
  OBVIOUS
<1> HIDE DEF k
<1>5. now \in Seq(Nat) /\ Len(now) = k /\ \A i \in 1..k : now[i] = s.written + i
  <2>1. k \in Nat
    BY <1>3
  <2> QED BY <1>3, <2>1, NumberedIs
<1> HIDE DEF now, later
<1>6. /\ t.written = s.written + n
      /\ t.state = (IF ends THEN "half_closed_local" ELSE "open")
  BY DEF Proper, StreamRecord
<1>7. \A i \in 1..Len(out) : /\ out[i].type = "DATA"
                             /\ out[i].fin => ends /\ out[i].n = IF n = 0 THEN 0 ELSE s.written + n
  <2>1. CASE n = 0
    <3> DEFINE d == Data(0, TRUE)
    <3>1. out = <<d>> /\ k = 0
      BY <1>3, <2>1
    <3>2. d.type = "DATA" /\ d.n = 0
      BY DEF Data
    <3> HIDE DEF out, d
    <3>3. \A i \in 1..Len(out) : out[i] = d
      BY <3>1, OneSent
    <3> QED BY <2>1, <3>1, <3>2, <3>3
  <2>2. CASE n # 0
    <3>1. out = DataFrames(now, ends)
      BY <2>2
    <3>2. ends \in BOOLEAN /\ (ends => k = n)
      OBVIOUS
    <3>3. out = [i \in 1..k |-> Data(now[i], ends /\ i = k)]
      BY <1>5, <3>1 DEF DataFrames
    <3> HIDE DEF ends, out
    <3>4. Len(out) = k
      BY <1>3, <3>3
    <3>5. ASSUME NEW i \in 1..k
          PROVE  /\ out[i].type = "DATA"
                 /\ out[i].fin => ends /\ out[i].n = s.written + n
      <4>1. out[i] = Data(now[i], ends /\ i = k)
        BY <3>3
      <4> DEFINE g == ends /\ i = k
      <4>2. g => ends /\ i = k
        OBVIOUS
      <4> HIDE DEF g
      <4>3. out[i] = Data(now[i], g)
        BY <4>1 DEF g
      <4>4. out[i].type = "DATA" /\ out[i].n = now[i] /\ out[i].fin = g
        BY <4>3, DataIs
      <4> QED BY <1>5, <3>2, <4>2, <4>4
    <3> QED BY <2>2, <3>4, <3>5
  <2> QED BY <2>1, <2>2
<1>8. q.stream = t /\ q.out = out
  <2> HIDE DEF q, t, out
  <2> QED BY <1>2, ResultIs
<1>9. q = Body(s, n)
  BY DEF Body
<1> HIDE DEF t, out, q
<1>10. IsBody(s, n, q)
  BY <1>1, <1>4, <1>6, <1>7, <1>8 DEF IsBody
<1> QED BY <1>9, <1>10

----------------------------------------------------------------------------
(* Handling a frame writes nothing new and ends nothing.                     *)
LEMMA FlushFacts ==
  ASSUME NEW s \in StreamRecord
  PROVE  LET q == FlushBuffered(s) IN
         /\ q.stream.written = s.written /\ q.stream.registered = s.registered /\ NoEnd(q.out)
         /\ Len(s.bufferedData) = 0 => q.stream.sendWindow = s.sendWindow
<1> DEFINE q == FlushBuffered(s)
           b == s.bufferedData
           k == Fits(s, Len(b))
           now == SubSeq(b, 1, k)
           t == [s EXCEPT !.sendWindow = @ - k, !.bufferedData = SubSeq(@, k + 1, Len(@))]
           out == DataFrames(now, FALSE)
<1>1. b \in Seq(Nat) /\ Len(b) \in Nat /\ s.sendWindow \in Int
  BY DEF StreamRecord
<1>2. k \in 0..Len(b)
  BY <1>1, FitsIs
<1>3. q = Result(t, out)
  BY DEF FlushBuffered
<1> HIDE DEF k
<1>4. now \in Seq(Nat)
  <2> HIDE DEF b
  <2> QED BY <1>1, <1>2
<1>5. t.written = s.written /\ t.registered = s.registered /\ t.sendWindow = s.sendWindow - k
  BY DEF StreamRecord
<1>6. NoEnd(out)
  <2> DEFINE g == FALSE
  <2> HIDE DEF now, g
  <2>1. DataFrames(now, g) = [i \in 1..Len(now) |-> Data(now[i], g /\ i = Len(now))]
    BY DEF DataFrames
  <2> DEFINE d == DataFrames(now, g)
  <2>2. g \in BOOLEAN
    BY DEF g
  <2>3. Len(d) = Len(now)
    BY <1>4, <2>2, DataFramesAre
  <2>4. ASSUME NEW i \in 1..Len(now) PROVE ~d[i].fin
    <3> DEFINE h == g /\ i = Len(now)
    <3>1. ~h
      BY DEF g
    <3> HIDE DEF h
    <3>2. d[i] = Data(now[i], h)
      BY <2>1 DEF h
    <3> QED BY <3>1, <3>2, DataIs
  <2> HIDE DEF d
  <2>5. NoEnd(d)
    BY <2>3, <2>4 DEF NoEnd
  <2> QED BY <2>5 DEF d, g
<1>7. q.stream = t /\ q.out = out
  <2> HIDE DEF q, t, out
  <2> QED BY <1>3, ResultIs
<1> HIDE DEF t, out, q, b
<1>8. Len(b) = 0 => t.sendWindow = s.sendWindow
  BY <1>1, <1>2, <1>5
<1> QED BY <1>5, <1>6, <1>7, <1>8 DEF q, b

LEMMA RestoreFacts ==
  ASSUME NEW s \in StreamRecord
  PROVE  LET q == RestoreWindow(s) IN
         /\ q.stream \in StreamRecord /\ NoEnd(q.out)
         /\ q.stream.written = s.written /\ q.stream.registered = s.registered
         /\ q.stream.sendWindow = s.sendWindow
<1> DEFINE q == RestoreWindow(s)
<1>1. CASE 2 * s.recvWindow < Window
  <2> DEFINE t == [s EXCEPT !.recvWindow = Window]
             f == Control("WINDOW_UPDATE", Window - s.recvWindow)
  <2>1. q = Result(t, <<f>>)
    BY <1>1 DEF RestoreWindow
  <2>2. ~f.fin
    BY DEF Control
  <2>3. t \in StreamRecord /\ t.written = s.written /\ t.registered = s.registered /\ t.sendWindow = s.sendWindow
    <3>1. Window \in Int /\ t = [s EXCEPT !.recvWindow = Window]
      BY WindowAssumption
    <3> HIDE DEF t
    <3> QED BY <3>1, RecvWindowChanged
  <2> HIDE DEF q, t, f
  <2> QED BY <2>1, <2>2, <2>3, ResultIs, OneSent DEF q
<1>2. CASE ~(2 * s.recvWindow < Window)
  <2>1. q = Result(s, << >>)
    BY <1>2 DEF RestoreWindow, Unchanged
  <2> HIDE DEF q
  <2> QED BY <2>1, ResultIs, NothingSent DEF q
<1> QED BY <1>1, <1>2

LEMMA HandleDataFacts ==
  ASSUME NEW s \in StreamRecord, NEW f \in Frame
  PROVE  LET q == HandleData(s, f) IN
         /\ q.stream.written = s.written /\ q.stream.registered = s.registered
         /\ q.stream.sendWindow = s.sendWindow /\ NoEnd(q.out)
         /\ f.fin => q.stream.state = "half_closed_remote"
<1> DEFINE q == HandleData(s, f)
           size == IF f.n = 0 THEN 0 ELSE 1
           u == [s EXCEPT !.recvWindow = @ - size]
           r == RestoreWindow(u)
           t == [r.stream EXCEPT !.got = IF f.n = 0 THEN @ ELSE Append(@, f.n),
                                 !.state = IF f.fin THEN "half_closed_remote" ELSE @]
<1>1. q = Result(t, r.out)
  BY DEF HandleData
<1>2. u \in StreamRecord /\ u.written = s.written /\ u.registered = s.registered /\ u.sendWindow = s.sendWindow
  <2>1. s.recvWindow \in Int /\ size \in Int
    BY DEF StreamRecord
  <2> HIDE DEF size
  <2> DEFINE w == s.recvWindow - size
  <2>2. w \in Int /\ u = [s EXCEPT !.recvWindow = w]
    BY <2>1
  <2> HIDE DEF w, u
  <2> QED BY <2>2, RecvWindowChanged
<1> HIDE DEF u
<1>3. /\ r.stream \in StreamRecord /\ NoEnd(r.out)
      /\ r.stream.written = u.written /\ r.stream.registered = u.registered
      /\ r.stream.sendWindow = u.sendWindow
  BY <1>2, RestoreFacts
<1> HIDE DEF r
<1>4. /\ t.written = r.stream.written /\ t.registered = r.stream.registered
      /\ t.sendWindow = r.stream.sendWindow
      /\ f.fin => t.state = "half_closed_remote"
  BY <1>3 DEF StreamRecord
<1>5. q.stream = t /\ q.out = r.out
  <2> HIDE DEF q, t
  <2> QED BY <1>1, ResultIs
<1> HIDE DEF q, t
<1> QED BY <1>2, <1>3, <1>4, <1>5 DEF q

LEMMA HandleUpdateFacts ==
  ASSUME NEW s, Proper(s), NEW f \in Frame
  PROVE  LET q == HandleWindowUpdate(s, f) IN
         /\ q.stream.written = s.written /\ q.stream.registered = s.registered /\ NoEnd(q.out)
         /\ s.written = 0 => q.stream.sendWindow >= s.sendWindow
<1> DEFINE t == [s EXCEPT !.sendWindow = @ + f.n]
<1>1. s \in StreamRecord /\ f.n \in Nat /\ s.sendWindow \in Int /\ s.written \in Nat /\ Len(s.bufferedData) \in Nat
      /\ Len(s.bufferedData) <= s.written
  BY DEF Proper, StreamRecord, Frame, Sending
<1> DEFINE w == s.sendWindow + f.n
<1>2. w \in Int /\ w >= s.sendWindow /\ t = [s EXCEPT !.sendWindow = w]
  BY <1>1
<1>3. HandleWindowUpdate(s, f) = FlushBuffered(t)
  BY DEF HandleWindowUpdate
<1> HIDE DEF t, w
<1>4. /\ t \in StreamRecord /\ t.bufferedData = s.bufferedData /\ t.written = s.written
      /\ t.registered = s.registered /\ t.sendWindow = w
  BY <1>1, <1>2 DEF StreamRecord
<1> DEFINE q == FlushBuffered(t)
<1>5. /\ q.stream.written = t.written /\ q.stream.registered = t.registered /\ NoEnd(q.out)
      /\ Len(t.bufferedData) = 0 => q.stream.sendWindow = t.sendWindow
  BY <1>4, FlushFacts
<1> HIDE DEF q
<1>6. s.written = 0 => Len(t.bufferedData) = 0
  BY <1>1, <1>4
<1>7. s.written = 0 => q.stream.sendWindow >= s.sendWindow
  BY <1>1, <1>2, <1>4, <1>5, <1>6
<1> QED BY <1>3, <1>4, <1>5, <1>7 DEF q

LEMMA HandleFacts ==
  ASSUME NEW e \in End, NEW s, Proper(s), NEW f \in Frame,
         ~s.registered /\ Opens(f) => e = Server
  PROVE  LET q == HandleFrame(e, s, f) IN
         /\ q.stream.written = s.written /\ NoEnd(q.out)
         /\ s.written = 0 => q.stream.sendWindow >= s.sendWindow
         /\ s.registered /\ f.type # "RST_STREAM" => q.stream.registered
         /\ s.registered /\ f.type = "DATA" /\ f.fin => q.stream.state = "half_closed_remote"
<1> DEFINE q == HandleFrame(e, s, f)
<1>0. s \in StreamRecord /\ s.sendWindow \in Int /\ s.sendWindow >= s.sendWindow
  BY DEF Proper, StreamRecord
<1>1. CASE s.registered /\ f.type = "HEADERS"
  <2> DEFINE t == [s EXCEPT !.state = IF f.fin THEN "half_closed_remote" ELSE "open"]
  <2>1. q = Result(t, << >>)
    BY <1>1 DEF HandleFrame, HandleHeaders, Unchanged
  <2>2. t.written = s.written /\ t.registered = s.registered /\ t.sendWindow = s.sendWindow
    BY <1>0 DEF StreamRecord
  <2> HIDE DEF t, q
  <2>3. q.stream = t /\ q.out = << >>
    BY <2>1, ResultIs
  <2>4. q.stream.sendWindow >= s.sendWindow
    BY <1>0, <2>2, <2>3
  <2>5. f.type # "DATA" /\ q.stream.registered /\ q.stream.written = s.written /\ NoEnd(q.out)
    BY <1>1, <2>2, <2>3, NothingSent
  <2> QED BY <2>4, <2>5 DEF q
<1>2. CASE s.registered /\ f.type = "DATA"
  <2>1. q = HandleData(s, f)
    BY <1>2 DEF HandleFrame
  <2> HIDE DEF q
  <2>2. /\ q.stream.written = s.written /\ q.stream.registered = s.registered
        /\ q.stream.sendWindow = s.sendWindow /\ NoEnd(q.out)
        /\ f.fin => q.stream.state = "half_closed_remote"
    BY <1>0, <2>1, HandleDataFacts
  <2> QED BY <1>0, <1>2, <2>2 DEF q
<1>3. CASE s.registered /\ f.type = "RST_STREAM"
  <2> DEFINE t == [s EXCEPT !.state = "closed", !.registered = FALSE]
  <2>1. q = Result(t, << >>)
    BY <1>3 DEF HandleFrame, HandleReset, Unchanged
  <2>2. t.written = s.written /\ t.sendWindow = s.sendWindow
    BY <1>0 DEF StreamRecord
  <2> HIDE DEF t, q
  <2> QED BY <1>0, <1>3, <2>1, <2>2, ResultIs, NothingSent DEF q
<1>4. CASE s.registered /\ f.type = "WINDOW_UPDATE"
  <2>1. q = HandleWindowUpdate(s, f)
    BY <1>4 DEF HandleFrame
  <2> HIDE DEF q
  <2>2. /\ q.stream.written = s.written /\ q.stream.registered = s.registered /\ NoEnd(q.out)
        /\ s.written = 0 => q.stream.sendWindow >= s.sendWindow
    BY <2>1, HandleUpdateFacts
  <2> QED BY <1>4, <2>2 DEF q
<1>5. CASE ~s.registered /\ f.type = "HEADERS" /\ e = Server
  <2> DEFINE g == Control("RST_STREAM", 0)
  <2>1. q = Result(s, <<g>>)
    BY <1>5, EndsAssumption DEF HandleFrame
  <2>2. ~g.fin
    BY DEF Control
  <2> HIDE DEF g, q
  <2> QED BY <1>0, <1>5, <2>1, <2>2, ResultIs, OneSent DEF q
<1>6. CASE /\ ~(s.registered /\ f.type \in {"HEADERS", "DATA", "RST_STREAM", "WINDOW_UPDATE"})
           /\ ~(~s.registered /\ f.type = "HEADERS" /\ e = Server)
  <2>1. ~(~s.registered /\ Opens(f) /\ e = Node)
    BY EndsAssumption
  <2>2. q = Result(s, << >>)
    BY <1>6, <2>1 DEF HandleFrame, Unchanged
  <2> HIDE DEF q
  <2> QED BY <1>0, <1>6, <2>2, ResultIs, NothingSent DEF q
<1> QED BY <1>1, <1>2, <1>3, <1>4, <1>5, <1>6

----------------------------------------------------------------------------
(* The node's answer on its wire.                                            *)
LEMMA FirstAppended ==
  ASSUME NEW w \in Seq(Frame), NEW v \in Seq(Frame), NEW n
  PROVE  /\ First(w, n) /\ (Said(w, n) \/ First(v, n)) => First(w \o v, n)
         /\ Said(w, n) => Said(w \o v, n)
         /\ Said(v, n) => Said(w \o v, n)
         /\ NoUnit(v) => First(v, n)
<1> DEFINE z == w \o v
<1>1. /\ z \in Seq(Frame) /\ Len(z) = Len(w) + Len(v) /\ Len(w) \in Nat /\ Len(v) \in Nat
      /\ \A i \in 1..Len(w) : z[i] = w[i] /\ i \in 1..Len(z)
      /\ \A i \in 1..Len(z) : i \in 1..Len(w) \/ (i - Len(w) \in 1..Len(v) /\ z[i] = v[i - Len(w)])
  BY Joins
<1>2. \A i \in 1..Len(v) : z[Len(w) + i] = v[i] /\ Len(w) + i \in 1..Len(z)
  <2>1. \A i \in 1..Len(v) : z[Len(w) + i] = v[i]
    BY Appended
  <2> HIDE DEF z
  <2> QED BY <1>1, <2>1
<1> HIDE DEF z
<1>3. Said(w, n) => Said(z, n)
  BY <1>1 DEF Said
<1>4. Said(v, n) => Said(z, n)
  BY <1>2 DEF Said
<1>5. ASSUME First(w, n), Said(w, n) \/ First(v, n) PROVE First(z, n)
  <2>1. ASSUME NEW i \in 1..Len(z), IsUnit(z[i])
        PROVE  \E j \in 1..Len(z) : j < i /\ Announces(z[j], n)
    <3>1. CASE i \in 1..Len(w)
      <4>1. PICK j \in 1..Len(w) : j < i /\ Announces(w[j], n)
        BY <1>1, <1>5, <2>1, <3>1 DEF First
      <4> QED BY <1>1, <4>1
    <3>2. CASE i \notin 1..Len(w)
      <4>1. i - Len(w) \in 1..Len(v) /\ z[i] = v[i - Len(w)] /\ i > Len(w)
        BY <1>1, <3>2
      <4>2. CASE Said(w, n)
        <5>1. PICK j \in 1..Len(w) : Announces(w[j], n)
          BY <4>2 DEF Said
        <5>2. j < i
          BY <1>1, <4>1
        <5> QED BY <1>1, <5>1, <5>2
      <4>3. CASE First(v, n)
        <5>1. PICK j \in 1..Len(v) : j < i - Len(w) /\ Announces(v[j], n)
          BY <2>1, <4>1, <4>3 DEF First
        <5>2. Len(w) + j < i
          BY <1>1, <5>1
        <5> QED BY <1>2, <5>1, <5>2
      <4> QED BY <1>5, <4>2, <4>3
    <3> QED BY <3>1, <3>2
  <2> QED BY <2>1 DEF First
<1>6. NoUnit(v) => First(v, n)
  BY DEF NoUnit, First
<1> QED BY <1>3, <1>4, <1>5, <1>6 DEF z

LEMMA FirstTaken ==
  ASSUME NEW w \in Seq(Frame), w # << >>, NEW n, First(w, n)
  PROVE  /\ ~IsUnit(Head(w))
         /\ ~Announces(Head(w), n) => First(Tail(w), n) /\ (Said(w, n) => Said(Tail(w), n))
<1> DEFINE z == Tail(w)
<1>1. /\ Head(w) = w[1] /\ Len(z) = Len(w) - 1 /\ Len(w) \in Nat \ {0}
      /\ \A i \in 1..Len(z) : z[i] = w[i + 1] /\ i + 1 \in 1..Len(w)
  BY TheTail
<1> HIDE DEF z
<1>2. \A j \in 2..Len(w) : j - 1 \in 1..Len(z) /\ z[j - 1] = w[j]
  <2>1. ASSUME NEW j \in 2..Len(w) PROVE j - 1 \in 1..Len(z) /\ z[j - 1] = w[j]
    <3>1. j - 1 \in 1..Len(z) /\ (j - 1) + 1 = j
      BY <1>1
    <3> QED BY <1>1, <3>1
  <2> QED BY <2>1
<1>3. ~IsUnit(w[1])
  <2>1. 1 \in 1..Len(w) /\ \A j \in 1..Len(w) : ~(j < 1)
    BY <1>1
  <2> QED BY <2>1 DEF First
<1>4. ASSUME ~Announces(w[1], n) PROVE First(z, n) /\ (Said(w, n) => Said(z, n))
  <2>1. \A j \in 1..Len(w) : Announces(w[j], n) => j \in 2..Len(w)
    <3>1. \A j \in 1..Len(w) : j = 1 \/ j \in 2..Len(w)
      BY <1>1
    <3> QED BY <1>4, <3>1
  <2>2. Said(w, n) => Said(z, n)
    BY <1>2, <2>1 DEF Said
  <2>3. ASSUME NEW i \in 1..Len(z), IsUnit(z[i])
        PROVE  \E j \in 1..Len(z) : j < i /\ Announces(z[j], n)
    <3>1. z[i] = w[i + 1] /\ i + 1 \in 1..Len(w)
      BY <1>1
    <3>2. PICK j \in 1..Len(w) : j < i + 1 /\ Announces(w[j], n)
      BY <2>3, <3>1 DEF First
    <3>3. j \in 2..Len(w)
      BY <2>1, <3>2
    <3>4. j - 1 \in 1..Len(z) /\ z[j - 1] = w[j]
      BY <1>2, <3>3
    <3>5. j - 1 < i
      BY <3>2, <3>3
    <3> QED BY <3>2, <3>4, <3>5
  <2> QED BY <2>2, <2>3 DEF First
<1> QED BY <1>1, <1>3, <1>4 DEF z

LEMMA AnswerGrows ==
  ASSUME SessionInv, NEW n, NEW q, Sends(stream[Node], q), Appends(Node, q), AnswerFirst(n),
         q.stream.written = stream[Node].written \/ Said(wire[Node], n)
  PROVE  AnswerFirst(n)' /\ (Said(wire[Node], n) => Said(wire'[Node], n))
<1> DEFINE w == wire[Node]
           out == Outgoing(Node, q)
           s == stream[Node]
<1>1. w \in Seq(Frame) /\ Proper(s) /\ s \in StreamRecord /\ stream \in [End -> StreamRecord] /\ Node \in End
  BY SessionFacts
<1>2. out \in Seq(Frame) /\ (out = q.out \/ out = << >>)
  BY SentOut DEF Sends
<1>3. wire'[Node] = w \o out /\ stream'[Node] = q.stream
  BY <1>1 DEF Appends
<1>4. First(w, n) /\ (s.written > 0 => Said(w, n))
  BY DEF AnswerFirst
<1>5. Said(w, n) \/ NoUnit(out)
  <2>1. SUFFICES ASSUME ~Said(w, n) PROVE NoUnit(out)
    OBVIOUS
  <2>2. s.written = 0 /\ q.stream.written = 0
    <3>1. s.written \in Nat /\ ~(s.written > 0)
      BY <1>1, <1>4, <2>1 DEF StreamRecord
    <3> HIDE DEF s
    <3>2. s.written = 0
      BY <3>1
    <3> QED BY <2>1, <3>2 DEF s
  <2>3. InOrder(q.out, Sent(s), Sent(q.stream)) /\ Proper(q.stream)
    BY DEF Sends
  <2>4. Sent(q.stream) <= 0 /\ Sent(q.stream) \in Int
    <3> DEFINE t == q.stream
    <3>1. t \in StreamRecord /\ Sending(t) /\ t.written = 0
      BY <2>2, <2>3 DEF Proper
    <3> HIDE DEF t
    <3>2. Sent(t) \in Nat /\ Len(t.bufferedData) \in Nat /\ Sent(t) = t.written - Len(t.bufferedData)
      BY <3>1, SentIs DEF Sent
    <3>3. Sent(t) <= 0 /\ Sent(t) \in Int
      BY <3>1, <3>2
    <3> QED BY <3>3 DEF t
  <2>5. q.out \in Seq(Frame)
    BY DEF Sends
  <2>6. ASSUME NEW i \in 1..Len(q.out) PROVE ~IsUnit(q.out[i])
    <3>1. q.out[i].n \in Nat
      BY <2>5, FrameOf
    <3>2. IsUnit(q.out[i]) => q.out[i].n <= Sent(q.stream) /\ q.out[i].n > 0
      BY <2>3 DEF InOrder, IsUnit
    <3> QED BY <2>4, <3>1, <3>2
  <2>7. NoUnit(q.out)
    BY <2>6 DEF NoUnit
  <2> QED BY <1>2, <2>7, NothingSent
<1> HIDE DEF w, out
<1>6. First(w \o out, n) /\ (Said(w, n) => Said(w \o out, n))
  BY <1>1, <1>2, <1>4, <1>5, FirstAppended
<1>7. q.stream.written > 0 => Said(w, n)
  BY <1>4 DEF s, w
<1> QED BY <1>3, <1>6, <1>7 DEF AnswerFirst, w

LEMMA AnswerTaken ==
  ASSUME SessionInv, NEW n, Arrives(Server), AnswerFirst(n)
  PROVE  /\ ~IsUnit(FrameAt(Server))
         /\ wire'[Node] = Tail(wire[Node]) /\ stream'[Node] = stream[Node] /\ ~Announces(FrameAt(Server), n) =>
              AnswerFirst(n)' /\ (Said(wire[Node], n) => Said(wire'[Node], n))
<1> DEFINE w == wire[Node]
<1>1. w \in Seq(Frame) /\ w # << >> /\ FrameAt(Server) = Head(w)
  BY SessionFacts DEF Arrives, FrameAt, Incoming
<1>2. First(w, n) /\ (stream[Node].written > 0 => Said(w, n))
  BY DEF AnswerFirst
<1> HIDE DEF w
<1>3. /\ ~IsUnit(Head(w))
      /\ ~Announces(Head(w), n) => First(Tail(w), n) /\ (Said(w, n) => Said(Tail(w), n))
  BY <1>1, <1>2, FirstTaken
<1> QED BY <1>1, <1>2, <1>3 DEF AnswerFirst, w

----------------------------------------------------------------------------
(* The SOCKS5 tunnel, step by step.                                          *)
(* A step by which the server's stream gets no data and opens nothing.       *)
ServerKept ==
  /\ stream'[Server].got = stream[Server].got
  /\ stream'[Server].registered => stream[Server].registered
  /\ stream'[Server].state = "idle" <=> stream[Server].state = "idle"
  /\ session[Server] # "open" => session'[Server] # "open"

SocketInv == ReplyInv /\ UnansweredHasTimer /\ StreamHasOwner

LEMMA ServerRests ==
  ASSUME SocketInv, UNCHANGED <<socket, record>>, ServerKept
  PROVE  SocketInv'
<1>1. ReplyInv'
  BY DEF ReplyInv, Relaying, Unanswered, SocketInv, ServerKept
<1>2. UnansweredHasTimer' /\ StreamHasOwner'
  BY DEF UnansweredHasTimer, StreamHasOwner, Known, SocketInv, ServerKept
<1> QED BY <1>1, <1>2 DEF SocketInv

LEMMA TargetRests ==
  ASSUME TargetInv, UNCHANGED tunnel, stream'[Node] = stream[Node], session'[Node] = session[Node]
  PROVE  TargetInv'
BY DEF TargetInv, Known, Units1To

LEMMA AnsweringRests ==
  ASSUME Answering, stream[Server].registered' => stream[Server].registered, UNCHANGED record.ready,
         stream'[Server].got = stream[Server].got, wire'[Node] = wire[Node],
         stream'[Node].written = stream[Node].written,
         tunnel'.target = "open" => tunnel.target = "open"
  PROVE  Answering'
BY DEF Answering, AnswerFirst, First, Said, Announces, Known

(* What is written to the application's socket.                              *)
LEMMA WritesFacts ==
  ASSUME NEW k \in Socket, NEW item \in Item
  PROVE  LET w == Writes(k, item) IN
         /\ w \in Socket /\ w.ended = k.ended /\ w.closed = k.closed
         /\ k.closed \/ k.ended => w.out = k.out
         /\ ~k.closed /\ ~k.ended => /\ w.out = Append(k.out, item) /\ Len(w.out) = Len(k.out) + 1
                                     /\ w.out[Len(w.out)] = item
                                     /\ \A i \in 1..Len(k.out) : w.out[i] = k.out[i]
<1> DEFINE w == Writes(k, item)
<1>1. CASE k.closed \/ k.ended
  <2>1. w = k
    BY <1>1 DEF Writes
  <2> QED BY <2>1, <1>1
<1>2. CASE ~(k.closed \/ k.ended)
  <2>1. w = [k EXCEPT !.out = Append(k.out, item)]
    BY <1>2 DEF Writes
  <2>2. k.out \in Seq(Item)
    BY DEF Socket
  <2> DEFINE more == Append(k.out, item)
             out == k.out
  <2>3. more \in Seq(Item) /\ Len(more) = Len(out) + 1 /\ more[Len(more)] = item
        /\ \A i \in 1..Len(out) : more[i] = out[i]
    BY <2>2
  <2>6. w = [k EXCEPT !.out = more]
    BY <2>1
  <2> HIDE DEF more, w
  <2>4. w \in Socket /\ w.ended = k.ended /\ w.closed = k.closed /\ w.out = more
    BY <2>6, <2>3 DEF Socket
  <2>5. /\ w.out = more /\ Len(w.out) = Len(out) + 1 /\ w.out[Len(w.out)] = item
        /\ \A i \in 1..Len(out) : w.out[i] = out[i]
    BY <2>3, <2>4
  <2> QED BY <1>2, <2>4, <2>5 DEF more, w
<1> QED BY <1>1, <1>2

LEMMA EndsFacts ==
  ASSUME NEW k \in Socket
  PROVE  Ends(k) \in Socket /\ Ends(k).ended = TRUE /\ Ends(k).closed = k.closed /\ Ends(k).out = k.out
BY DEF Ends, Socket

LEMMA ReplyIs ==
  \A n \in {GRANTED, GENERAL_FAILURE, UNREACHABLE} :
    Reply(n) \in Item /\ Reply(n).kind = "reply" /\ Reply(n).n = n
BY DEF Reply, Item, GRANTED, GENERAL_FAILURE, UNREACHABLE

LEMMA DataItemIs ==
  \A n \in Nat : DataItem(n) \in Item /\ DataItem(n).kind = "data" /\ DataItem(n).n = n
BY DEF DataItem, Item

LEMMA RefusedFacts ==
  ASSUME NEW k \in Socket, NEW n \in {GENERAL_FAILURE, UNREACHABLE}
  PROVE  LET w == Refused(k, n) IN
         /\ w \in Socket /\ w.ended = TRUE /\ w.closed = k.closed
         /\ k.closed \/ k.ended => w.out = k.out
         /\ ~k.closed /\ ~k.ended => /\ w.out = Append(k.out, Reply(n)) /\ Len(w.out) = Len(k.out) + 1
                                     /\ w.out[Len(w.out)] = Reply(n)
                                     /\ \A i \in 1..Len(k.out) : w.out[i] = k.out[i]
<1> DEFINE v == Writes(k, Reply(n))
           w == Refused(k, n)
<1>1. Reply(n) \in Item
  BY ReplyIs
<1>2. /\ v \in Socket /\ v.ended = k.ended /\ v.closed = k.closed
      /\ k.closed \/ k.ended => v.out = k.out
      /\ ~k.closed /\ ~k.ended => /\ v.out = Append(k.out, Reply(n)) /\ Len(v.out) = Len(k.out) + 1
                                  /\ v.out[Len(v.out)] = Reply(n)
                                  /\ \A i \in 1..Len(k.out) : v.out[i] = k.out[i]
  BY <1>1, WritesFacts
<1>3. w = Ends(v)
  BY DEF Refused
<1> HIDE DEF v, w
<1>4. w \in Socket /\ w.ended = TRUE /\ w.closed = v.closed /\ w.out = v.out
  BY <1>2, <1>3, EndsFacts
<1>5. w.closed = k.closed
  BY <1>2, <1>4
<1>6. k.closed \/ k.ended => w.out = k.out
  BY <1>2, <1>4
<1>7. ~k.closed /\ ~k.ended => /\ w.out = Append(k.out, Reply(n)) /\ Len(w.out) = Len(k.out) + 1
                               /\ w.out[Len(w.out)] = Reply(n)
                               /\ \A i \in 1..Len(k.out) : w.out[i] = k.out[i]
  BY <1>2, <1>4
<1> QED BY <1>4, <1>5, <1>6, <1>7 DEF w

LEMMA DroppedFacts ==
  ASSUME NEW c \in Record
  PROVE  Dropped(c) \in Record /\ Dropped(c).pending = FALSE /\ Dropped(c).timer = FALSE
         /\ Dropped(c).ready = c.ready
BY DEF Dropped, Record

(* An application that waits is refused.                                     *)
LEMMA RefusedOnce ==
  ASSUME NEW k \in Socket, k.out = << >>, ~k.ended, ~k.closed, NEW n \in {GENERAL_FAILURE, UNREACHABLE}
  PROVE  LET w == Refused(k, n) IN
         /\ w \in Socket /\ w.ended = TRUE /\ w.closed = FALSE
         /\ Len(w.out) = 1 /\ w.out # << >> /\ w.out[1].kind = "reply"
<1> DEFINE w == Refused(k, n)
<1>1. /\ w \in Socket /\ w.ended = TRUE /\ w.closed = k.closed
      /\ Len(w.out) = Len(k.out) + 1 /\ w.out[Len(w.out)] = Reply(n)
  BY RefusedFacts
<1>2. Len(k.out) = 0
  OBVIOUS
<1>3. k.closed = FALSE
  BY Zenon DEF Socket
<1> HIDE DEF w
<1>4. Len(w.out) = 1
  BY <1>1, <1>2
<1>5. w.out # << >> /\ w.out[1] = Reply(n)
  BY <1>1, <1>4
<1>6. w.out[1].kind = "reply"
  BY <1>5, ReplyIs
<1> QED BY <1>1, <1>3, <1>4, <1>5, <1>6 DEF w

LEMMA RefusesOnce ==
  ASSUME SocketInv, Unanswered, ~socket.closed, ~record.ready,
         NEW n \in {GENERAL_FAILURE, UNREACHABLE}, socket' = Refused(socket, n),
         record' \in Record, ~record'.pending, ~record'.timer, ~record'.ready, ServerKept
  PROVE  SocketInv'
<1>1. /\ socket' \in Socket /\ socket'.ended = TRUE /\ socket'.closed = FALSE
      /\ Len(socket'.out) = 1 /\ socket'.out # << >> /\ socket'.out[1].kind = "reply"
  BY RefusedOnce DEF SocketInv, ReplyInv, Unanswered
<1>2. ReplyInv'
  BY <1>1 DEF ReplyInv
<1>3. UnansweredHasTimer' /\ StreamHasOwner'
  BY <1>1 DEF UnansweredHasTimer, StreamHasOwner
<1> QED BY <1>2, <1>3 DEF SocketInv

(* end() is called on the socket of a tunnel that is ready.                  *)
LEMMA ReadyEnds ==
  ASSUME SocketInv, record.ready, socket' = Ends(socket), record' \in Record,
         record' = record \/ record' = Dropped(record), ServerKept
  PROVE  SocketInv'
<1>1. socket' \in Socket /\ socket'.ended = TRUE /\ socket'.closed = socket.closed /\ socket'.out = socket.out
  BY EndsFacts DEF SocketInv, ReplyInv
<1>2. record'.ready = record.ready /\ (record'.pending => record.pending) /\ ~record'.timer
  BY DroppedFacts, Zenon DEF SocketInv, ReplyInv
<1>3. /\ socket'.out # << >> /\ socket'.out[1] = Reply(GRANTED)
      /\ (\E d \in 0..Len(stream[Server].got) : Relaying(d))'
  <2>1. PICK d \in 0..Len(stream[Server].got) : Relaying(d)
    BY DEF SocketInv, ReplyInv
  <2>2. d \in 0..Len(stream'[Server].got)
    BY DEF ServerKept
  <2>3. Relaying(d)'
    BY <1>1, <2>1 DEF Relaying, ServerKept
  <2>4. socket.out # << >> /\ socket.out[1] = Reply(GRANTED)
    BY DEF SocketInv, ReplyInv
  <2> QED BY <1>1, <2>2, <2>3, <2>4
<1>4. stream[Server].state # "idle"
  BY DEF SocketInv, ReplyInv
<1>5. ReplyInv'
  BY <1>1, <1>2, <1>3, <1>4 DEF ReplyInv, ServerKept
<1>6. UnansweredHasTimer' /\ StreamHasOwner'
  BY <1>1, <1>2, <1>3, <1>4 DEF UnansweredHasTimer, StreamHasOwner, SocketInv, ServerKept, Known
<1> QED BY <1>5, <1>6 DEF SocketInv

(* ClientManager.remove, which may come after the reply.                     *)
LEMMA Removes ==
  ASSUME SocketInv, ServerKept, session'[Server] # "open",
         socket' = Removed(socket, record).socket, record' = Removed(socket, record).record
  PROVE  SocketInv'
<1>1. CASE ~record.pending
  <2>1. socket' = socket /\ record' = record
    BY <1>1 DEF Removed
  <2> QED BY <2>1, ServerRests
<1>2. CASE record.pending
  <2>1. socket' = Refused(socket, UNREACHABLE) /\ record' = Dropped(record)
    BY <1>2 DEF Removed
  <2>2. record' \in Record /\ record'.pending = FALSE /\ record'.timer = FALSE /\ record'.ready = record.ready
    BY <2>1, DroppedFacts DEF SocketInv, ReplyInv
  <2>3. CASE ~record.ready
    <3>1. Unanswered /\ ~socket.closed
      BY <1>2, <2>3 DEF SocketInv, ReplyInv
    <3> QED BY <2>1, <2>2, <2>3, <3>1, RefusesOnce
  <2>4. CASE record.ready
    <3>1. /\ socket' \in Socket /\ socket'.ended = TRUE /\ socket'.closed = socket.closed
          /\ socket.closed \/ socket.ended => socket'.out = socket.out
          /\ ~socket.closed /\ ~socket.ended =>
               /\ Len(socket'.out) = Len(socket.out) + 1 /\ socket'.out[Len(socket'.out)] = Reply(UNREACHABLE)
               /\ \A i \in 1..Len(socket.out) : socket'.out[i] = socket.out[i]
      <4>1. socket \in Socket /\ UNREACHABLE \in {GENERAL_FAILURE, UNREACHABLE}
        BY DEF SocketInv, ReplyInv
      <4> DEFINE w == Refused(socket, UNREACHABLE)
      <4>2. /\ w \in Socket /\ w.ended = TRUE /\ w.closed = socket.closed
            /\ socket.closed \/ socket.ended => w.out = socket.out
            /\ ~socket.closed /\ ~socket.ended =>
                 /\ w.out = Append(socket.out, Reply(UNREACHABLE)) /\ Len(w.out) = Len(socket.out) + 1
                 /\ w.out[Len(w.out)] = Reply(UNREACHABLE)
                 /\ \A i \in 1..Len(socket.out) : w.out[i] = socket.out[i]
        BY <4>1, RefusedFacts
      <4>3. socket' = w
        BY <2>1
      <4> HIDE DEF w
      <4> QED BY <4>2, <4>3
    <3>2. PICK d \in 0..Len(stream[Server].got) : Relaying(d)
      BY <2>4 DEF SocketInv, ReplyInv
    <3>3. d \in 0..Len(stream'[Server].got) /\ d \in Nat
      BY DEF ServerKept
    <3>4. socket.out # << >> /\ socket.out[1] = Reply(GRANTED) /\ stream[Server].state # "idle"
      BY <2>4 DEF SocketInv, ReplyInv
    <3>5. Relaying(d)' /\ socket'.out # << >> /\ socket'.out[1] = Reply(GRANTED)
      <4>1. CASE socket.closed \/ socket.ended
        BY <3>1, <3>2, <3>4, <4>1 DEF Relaying, ServerKept
      <4>2. CASE ~socket.closed /\ ~socket.ended
        <5>1. Len(socket.out) = d + 1 /\ \A i \in 2..(d + 1) : socket.out[i] = DataItem(i - 1)
          BY <3>2, <4>2 DEF Relaying
        <5>2. Len(socket'.out) = d + 2 /\ socket'.out[d + 2] = Reply(UNREACHABLE)
          BY <3>1, <3>3, <4>2, <5>1
        <5>3. \A i \in 2..(d + 1) : socket'.out[i] = DataItem(i - 1)
          BY <3>1, <3>3, <4>2, <5>1
        <5>4. 1 \in 1..Len(socket.out)
          BY <5>1, <3>3
        <5>5. socket'.out[1] = Reply(GRANTED)
          BY <3>1, <3>4, <4>2, <5>4
        <5>6. socket'.out # << >>
          BY <5>2, <3>3
        <5> QED BY <5>2, <5>3, <5>5, <5>6, <3>1 DEF Relaying
      <4> QED BY <4>1, <4>2
    <3>6. ReplyInv'
      BY <2>2, <2>4, <3>1, <3>3, <3>4, <3>5 DEF ReplyInv, ServerKept
    <3>7. UnansweredHasTimer' /\ StreamHasOwner'
      BY <2>2, <3>1, <3>5, <3>4 DEF UnansweredHasTimer, StreamHasOwner, SocketInv, ServerKept, Known
    <3> QED BY <3>6, <3>7 DEF SocketInv
  <2> QED BY <2>3, <2>4
<1> QED BY <1>1, <1>2

LEMMA NodeHandledFacts ==
  ASSUME SessionInv, Arrives(Node)
  PROVE  LET q == Handled(Node) IN
         /\ q.stream.written = stream[Node].written /\ NoEnd(q.out)
         /\ stream[Node].written = 0 => q.stream.sendWindow >= stream[Node].sendWindow
         /\ Known(Node) /\ FrameAt(Node).type # "RST_STREAM" => q.stream.registered
         /\ Known(Node) /\ FrameAt(Node).type = "DATA" /\ FrameAt(Node).fin =>
              q.stream.state = "half_closed_remote"
<1>1. Proper(stream[Node]) /\ Node \in End /\ Server # Node
  BY SessionFacts
<1>2. /\ FrameAt(Node) \in Frame
      /\ stream[Node].state = "idle" =>
           /\ ~Known(Node)
           /\ Handled(Node) = Result([NewStream EXCEPT !.state =
                                        IF FrameAt(Node).fin THEN "half_closed_remote" ELSE "open"], << >>)
      /\ stream[Node].state # "idle" => (Opens(FrameAt(Node)) => Node = Server)
  BY <1>1, HandledIs
<1>3. CASE stream[Node].state # "idle"
  <2> DEFINE s == stream[Node]
             f == FrameAt(Node)
  <2>1. Handled(Node) = HandleFrame(Node, s, f) /\ Known(Node) = s.registered
    BY DEF Handled, Known
  <2>2. Proper(s) /\ f \in Frame /\ ~Opens(f)
    BY <1>1, <1>2, <1>3
  <2> HIDE DEF s, f
  <2>3. LET q == HandleFrame(Node, s, f) IN
         /\ q.stream.written = s.written /\ NoEnd(q.out)
         /\ s.written = 0 => q.stream.sendWindow >= s.sendWindow
         /\ s.registered /\ f.type # "RST_STREAM" => q.stream.registered
         /\ s.registered /\ f.type = "DATA" /\ f.fin => q.stream.state = "half_closed_remote"
    BY <1>1, <2>2, HandleFacts
  <2> QED BY <2>1, <2>3, Zenon DEF s, f
<1>4. CASE stream[Node].state = "idle"
  <2>1. stream[Node] = [NewStream EXCEPT !.registered = FALSE] /\ Window \in Nat
    BY <1>4, WindowAssumption DEF SessionInv, SessionOpening
  <2>2. stream[Node].written = 0 /\ stream[Node].sendWindow = Window
    BY <2>1 DEF NewStream
  <2> DEFINE state == IF FrameAt(Node).fin THEN "half_closed_remote" ELSE "open"
             t == [NewStream EXCEPT !.state = state]
  <2>3. Handled(Node) = Result(t, << >>) /\ ~Known(Node)
    BY <1>2, <1>4
  <2>4. t.written = 0 /\ t.sendWindow = Window
    BY DEF NewStream
  <2> HIDE DEF t
  <2>5. Handled(Node).stream = t /\ Handled(Node).out = << >>
    BY <2>3, ResultIs
  <2> QED BY <2>1, <2>2, <2>3, <2>4, <2>5, NothingSent
<1> QED BY <1>3, <1>4

(* HEADERS that end nothing.                                                 *)
LEMMA AnnounceFacts ==
  ASSUME NEW s, Proper(s), s.state # "closed", NEW n \in Nat
  PROVE  LET q == SendHeaders(s, n, FALSE) IN
         /\ q = Result(q.stream, q.out) /\ Emits(s, q) /\ q.stream.got = s.got
         /\ q.stream.written = s.written /\ q.stream.registered = s.registered
         /\ q.stream.sendWindow = s.sendWindow /\ q.stream.state = "open"
         /\ Said(q.out, n) /\ First(q.out, n) /\ NoEnd(q.out)
<1> DEFINE q == SendHeaders(s, n, FALSE)
           t == [s EXCEPT !.state = "open", !.answered = TRUE]
           out == <<Headers(n, FALSE)>>
<1>1. q = Result(t, out)
  BY DEF SendHeaders
<1>2. /\ t.written = s.written /\ t.registered = s.registered /\ t.sendWindow = s.sendWindow
      /\ t.state = "open"
  BY DEF Proper, StreamRecord
<1>3. q.stream = t /\ q.out = out
  <2> HIDE DEF q, t, out
  <2> QED BY <1>1, ResultIs
<1>4. Emits(s, q) /\ q.stream.got = s.got
  BY SendHeadersEmits
<1> DEFINE f == Headers(n, FALSE)
<1>5. f.type = "HEADERS" /\ f.n = n /\ f.fin = FALSE
  BY DEF Headers
<1>6. out = <<f>>
  OBVIOUS
<1> HIDE DEF f, q, t, out
<1>7. Len(out) = 1 /\ out[1] = f /\ \A i \in 1..Len(out) : i = 1
  BY <1>6, OneSent
<1>8. 1 \in 1..Len(out) /\ Announces(out[1], n)
  <2>1. Announces(f, n)
    BY <1>5 DEF Announces
  <2>2. Announces(out[1], n)
    BY <2>1, <1>7, Zenon
  <2> QED BY <1>7, <2>2
<1>9. Said(out, n)
  BY <1>8 DEF Said
<1>10. First(out, n) /\ NoEnd(out)
  BY <1>5, <1>7 DEF First, NoEnd, IsUnit
<1> QED BY <1>1, <1>2, <1>3, <1>4, <1>9, <1>10 DEF q

LEMMA RefuseKeeps ==
  ASSUME SessionInv, SocksInv, Refuse
  PROVE  SessionInv' /\ SocksInv'
<1>1. SessionInv' /\ TargetInv' /\ Answering'
  BY SessionRests, TargetRests, AnsweringRests DEF Refuse, SocksInv
<1>2. /\ socket' = Refused(socket, GENERAL_FAILURE) /\ record' = record /\ stream' = stream
      /\ session' = session /\ stream[Server].state = "idle" /\ ~socket.ended /\ ~socket.closed
  BY DEF Refuse, Idle
<1>3. /\ ~record.pending /\ ~record.ready /\ ~record.timer /\ record \in Record /\ Unanswered
  BY <1>2 DEF SocksInv, ReplyInv
<1>4. SocketInv'
  BY <1>2, <1>3, RefusesOnce DEF SocksInv, SocketInv, ServerKept
<1> QED BY <1>1, <1>4 DEF SocksInv, SocketInv

LEMMA ConnectKeeps ==
  ASSUME SessionInv, SocksInv, Connect
  PROVE  SessionInv' /\ SocksInv'
<1> DEFINE q == OpenTunnel(stream[Server])
<1>0. Proper(stream[Server]) /\ Other(Server) = Node /\ Server \in End
  BY SessionFacts
<1>1. /\ q = Result(q.stream, q.out) /\ Emits(stream[Server], q) /\ q.stream.got = stream[Server].got
      /\ Begins(q.out) /\ q.stream.registered = stream[Server].registered
  BY <1>0, OpenTunnelFacts
<1>2. /\ stream[Server].state = "idle" /\ ~socket.ended /\ ~socket.closed /\ session[Server] = "open"
      /\ Calls(Server, q) /\ record' = [record EXCEPT !.pending = TRUE, !.timer = TRUE]
      /\ socket' = socket /\ tunnel' = tunnel /\ session' = session
  BY DEF Connect, Idle
<1> HIDE DEF q
<1>3. SessionInv'
  BY <1>1, <1>2, OpeningKeeps
<1>4. q.out \in Seq(Frame) /\ q.stream.state # "idle"
  BY <1>1 DEF Emits, Sends
<1>5. stream'[Server] = q.stream /\ stream'[Node] = stream[Node] /\ wire'[Node] = wire[Node]
  BY <1>0, <1>1, <1>2, <1>4, CallsAre
<1>6. /\ ~record.pending /\ ~record.ready /\ record \in Record /\ Unanswered /\ socket \in Socket
  BY <1>2 DEF SocksInv, ReplyInv
<1>7. /\ record' \in Record /\ record'.pending = TRUE /\ record'.timer = TRUE
      /\ record'.ready = record.ready
  BY <1>2, <1>6 DEF Record
<1>8. Unanswered'
  BY <1>2, <1>6 DEF Unanswered
<1>9. ReplyInv'
  BY <1>2, <1>4, <1>5, <1>6, <1>7, <1>8 DEF ReplyInv
<1>10. UnansweredHasTimer' /\ StreamHasOwner'
  BY <1>2, <1>7 DEF UnansweredHasTimer, StreamHasOwner
<1>11. TargetInv'
  BY <1>2, <1>5, TargetRests DEF SocksInv
<1>12. Answering'
  BY <1>1, <1>2, <1>5, <1>7, AnsweringRests DEF SocksInv
<1> QED BY <1>3, <1>9, <1>10, <1>11, <1>12 DEF SocksInv

LEMMA TunnelTimeoutKeeps ==
  ASSUME SessionInv, SocksInv, TunnelTimeout
  PROVE  SessionInv' /\ SocksInv'
<1>1. record \in Record /\ record.pending /\ ~record.ready /\ Unanswered /\ ~socket.closed
  BY DEF SocksInv, ReplyInv, TunnelTimeout
<1>2. /\ record' \in Record /\ record'.pending = FALSE /\ record'.timer = FALSE
      /\ record'.ready = record.ready
  BY <1>1, DroppedFacts DEF TunnelTimeout
<1>3. SessionInv' /\ TargetInv' /\ Answering'
  BY <1>2, SessionRests, TargetRests, AnsweringRests DEF TunnelTimeout, SocksInv
<1>4. SocketInv'
  BY <1>1, <1>2, RefusesOnce DEF SocksInv, SocketInv, ServerKept, TunnelTimeout
<1> QED BY <1>3, <1>4 DEF SocksInv, SocketInv

LEMMA IdleTimeoutKeeps ==
  ASSUME SessionInv, SocksInv, IdleTimeout
  PROVE  SessionInv' /\ SocksInv'
<1>1. SessionInv' /\ TargetInv' /\ Answering'
  BY SessionRests, TargetRests, AnsweringRests DEF IdleTimeout, SocksInv
<1>2. SocketInv'
  BY ReadyEnds DEF SocksInv, SocketInv, ServerKept, IdleTimeout, ReplyInv
<1> QED BY <1>1, <1>2 DEF SocksInv, SocketInv

LEMMA ApplicationSendsKeeps ==
  ASSUME SessionInv, SocksInv, ApplicationSends
  PROVE  SessionInv' /\ SocksInv'
<1>1. PICK n \in 1..(MaxUnits[Server] - stream[Server].written) :
        Calls(Server, SendData(stream[Server], n, FALSE))
  BY DEF ApplicationSends
<1>2. /\ record.ready /\ socket' = socket /\ record' = record /\ tunnel' = tunnel /\ session' = session
      /\ stream[Server].state # "idle"
  BY DEF ApplicationSends, SocksInv, ReplyInv
<1>3. Proper(stream[Server]) /\ Other(Server) = Node /\ Server \in End /\ n \in Nat
  BY SessionFacts
<1> DEFINE q == SendData(stream[Server], n, FALSE)
<1>4. /\ q = Result(q.stream, q.out) /\ Emits(stream[Server], q) /\ Quiet(q.out)
      /\ q.stream.got = stream[Server].got /\ q.stream.registered = stream[Server].registered
  <2> DEFINE s == stream[Server]
  <2>1. Proper(s) /\ s.state # "idle" /\ FALSE \in BOOLEAN
    BY <1>2, <1>3
  <2> HIDE DEF s
  <2>2. LET r == SendData(s, n, FALSE) IN
        /\ r = Result(r.stream, r.out) /\ Emits(s, r) /\ Quiet(r.out)
        /\ r.stream.got = s.got /\ r.stream.registered = s.registered
    BY <1>3, <2>1, SendDataRests
  <2> QED BY <2>2 DEF s
<1>5. Calls(Server, q)
  BY <1>1
<1> HIDE DEF q
<1>6. q.out \in Seq(Frame) /\ q.stream.state # "idle"
  BY <1>4 DEF Emits, Sends
<1>7. SessionInv'
  BY <1>2, <1>3, <1>4, <1>5, CallsKeep
<1>8. stream'[Server] = q.stream /\ stream'[Node] = stream[Node]
  BY <1>2, <1>3, <1>4, <1>5, <1>6, CallsAre
<1>9. SocketInv'
  BY <1>2, <1>4, <1>6, <1>8, ServerRests DEF SocksInv, SocketInv, ServerKept
<1>10. TargetInv' /\ Answering'
  BY <1>2, <1>8, TargetRests DEF SocksInv, Answering
<1> QED BY <1>7, <1>9, <1>10 DEF SocksInv, SocketInv

LEMMA SocketClosesKeeps ==
  ASSUME SessionInv, SocksInv, SocketCloses
  PROVE  SessionInv' /\ SocksInv'
<1>1. /\ ~socket.closed /\ socket' = [socket EXCEPT !.closed = TRUE] /\ record' = Dropped(record)
      /\ tunnel' = tunnel /\ session' = session
  BY DEF SocketCloses
<1>2. socket \in Socket /\ record \in Record
  BY DEF SocksInv, ReplyInv
<1>3. /\ socket' \in Socket /\ socket'.closed = TRUE /\ socket'.ended = socket.ended
      /\ socket'.out = socket.out
  BY <1>1, <1>2 DEF Socket
<1>4. /\ record' \in Record /\ record'.pending = FALSE /\ record'.timer = FALSE
      /\ record'.ready = record.ready
  BY <1>1, <1>2, DroppedFacts
<1>5. Proper(stream[Server]) /\ Other(Server) = Node /\ Server \in End
  BY SessionFacts
<1>6. /\ SessionInv' /\ ServerKept /\ stream'[Node] = stream[Node] /\ wire'[Node] = wire[Node]
      /\ stream'[Server].state = "idle" \/ ~stream'[Server].registered
  <2>1. CASE stream[Server].state = "idle"
    BY <1>1, <2>1, SessionRests DEF SocketCloses, ServerKept
  <2>2. CASE stream[Server].state # "idle"
    <3> DEFINE q == CloseTunnel(stream[Server])
    <3>1. /\ q = Result(q.stream, q.out) /\ Emits(stream[Server], q) /\ Quiet(q.out)
          /\ q.stream.got = stream[Server].got /\ ~q.stream.registered
      BY <1>5, <2>2, CloseTunnelFacts
    <3>2. Calls(Server, q)
      BY <2>2 DEF SocketCloses
    <3> HIDE DEF q
    <3>3. q.out \in Seq(Frame) /\ q.stream.state # "idle"
      BY <3>1 DEF Emits, Sends
    <3>4. SessionInv'
      BY <1>1, <1>5, <2>2, <3>1, <3>2, CallsKeep
    <3>5. stream'[Server] = q.stream /\ stream'[Node] = stream[Node] /\ wire'[Node] = wire[Node]
      BY <1>1, <1>5, <3>1, <3>2, <3>3, CallsAre
    <3> QED BY <1>1, <2>2, <3>1, <3>3, <3>4, <3>5 DEF ServerKept
  <2> QED BY <2>1, <2>2
<1>7. ReplyInv'
  <2>1. CASE record.ready
    <3>1. PICK d \in 0..Len(stream[Server].got) : Relaying(d)
      BY <2>1 DEF SocksInv, ReplyInv
    <3>2. Relaying(d)' /\ d \in 0..Len(stream'[Server].got)
      BY <1>1, <1>3, <1>6, <3>1 DEF Relaying, ServerKept
    <3>3. socket.out # << >> /\ socket.out[1] = Reply(GRANTED) /\ stream[Server].state # "idle"
      BY <2>1 DEF SocksInv, ReplyInv
    <3> QED BY <1>3, <1>4, <1>6, <2>1, <3>2, <3>3 DEF ReplyInv, ServerKept
  <2>2. CASE ~record.ready
    BY <1>3, <1>4, <1>6, <2>2 DEF ReplyInv, SocksInv, ServerKept, Unanswered
  <2> QED BY <2>1, <2>2
<1>8. UnansweredHasTimer' /\ StreamHasOwner'
  BY <1>3, <1>4, <1>6 DEF UnansweredHasTimer, StreamHasOwner, Known
<1>9. TargetInv'
  BY <1>1, <1>6, TargetRests DEF SocksInv
<1>10. Answering'
  BY <1>1, <1>4, <1>6, AnsweringRests DEF SocksInv, ServerKept
<1> QED BY <1>6, <1>7, <1>8, <1>9, <1>10 DEF SocksInv

(* A frame reaches the server, which knows the stream or does not.           *)
LEMMA ServerTakes ==
  ASSUME SessionInv, SocksInv, Arrives(Server), Handles(Server, Handled(Server)), UNCHANGED session
  PROVE  /\ SessionInv' /\ wire'[Node] = Tail(wire[Node]) /\ stream'[Node] = stream[Node]
         /\ stream[Server].state # "idle" /\ stream'[Server].state # "idle"
         /\ stream'[Server].registered => stream[Server].registered
         /\ stream'[Server].got = IF Known(Server) /\ IsUnit(FrameAt(Server))
                                    THEN Append(stream[Server].got, FrameAt(Server).n) ELSE stream[Server].got
<1>1. Server \in End /\ Other(Server) = Node
  BY SessionFacts
<1>2. /\ Handled(Server).stream.state # "idle" /\ stream[Server].state # "idle"
      /\ Handled(Server).stream.got = IF Known(Server) /\ IsUnit(FrameAt(Server))
                                    THEN Append(stream[Server].got, FrameAt(Server).n) ELSE stream[Server].got
      /\ ~Known(Server) => ~Handled(Server).stream.registered
  BY <1>1, HandledIs
<1>3. /\ SessionInv' /\ wire'[Node] = Tail(wire[Node]) /\ stream'[Node] = stream[Node]
      /\ stream'[Server] = Handled(Server).stream
  BY <1>1, HandledKeeps
<1> QED BY <1>2, <1>3 DEF Known

(* A frame that does not announce the tunnel leaves the answer on its way.   *)
LEMMA AnsweringTaken ==
  ASSUME SessionInv, SocksInv, Arrives(Server), Handles(Server, Handled(Server)), UNCHANGED session,
         Known(Server), ~Announces(FrameAt(Server), TUNNEL_READY), record'.ready = record.ready, UNCHANGED tunnel
  PROVE  Answering' /\ (~record.ready => ~IsUnit(FrameAt(Server)))
<1>1. /\ wire'[Node] = Tail(wire[Node]) /\ stream'[Node] = stream[Node]
      /\ stream'[Server].got = IF Known(Server) /\ IsUnit(FrameAt(Server))
                                    THEN Append(stream[Server].got, FrameAt(Server).n) ELSE stream[Server].got
  BY ServerTakes
<1>2. CASE record.ready
  BY <1>2 DEF Answering
<1>3. CASE ~record.ready
  <2>1. /\ stream[Server].got = << >> /\ AnswerFirst(TUNNEL_READY)
        /\ tunnel.target = "open" => Said(wire[Node], TUNNEL_READY)
    BY <1>3 DEF SocksInv, Answering
  <2>2. /\ ~IsUnit(FrameAt(Server)) /\ AnswerFirst(TUNNEL_READY)'
        /\ Said(wire[Node], TUNNEL_READY) => Said(wire'[Node], TUNNEL_READY)
    BY <1>1, <2>1, AnswerTaken
  <2>3. stream'[Server].got = << >>
    BY <1>1, <2>1, <2>2
  <2> QED BY <2>1, <2>2, <2>3 DEF Answering, TUNNEL_READY
<1> QED BY <1>2, <1>3

LEMMA OrphanReleasedKeeps ==
  ASSUME SessionInv, SocksInv, OrphanReleased
  PROVE  SessionInv' /\ SocksInv'
<1> DEFINE h == Handled(Server)
           c == Reset(h.stream)
           q == Joint(h, c)
<1>1. /\ Arrives(Server) /\ FrameAt(Server).type = "HEADERS" /\ ~record.pending
      /\ Handles(Server, After(h, Reset)) /\ UNCHANGED <<tunnel, session>>
      /\ socket' = OnError(socket, record).socket /\ record' = OnError(socket, record).record
  BY DEF OrphanReleased, Gets
<1>2. After(h, Reset) = q
  BY DEF After, Joint
<1>3. Server \in End /\ Other(Server) = Node
  BY SessionFacts
<1>4. /\ Sends(stream[Server], h) /\ h.stream.state # "idle" /\ stream[Server].state # "idle"
      /\ h.stream.got = IF Known(Server) /\ IsUnit(FrameAt(Server))
                          THEN Append(stream[Server].got, FrameAt(Server).n) ELSE stream[Server].got
  BY <1>1, <1>3, HandledIs
<1>5. Proper(h.stream) /\ ~IsUnit(FrameAt(Server))
  BY <1>1, <1>4 DEF Sends, IsUnit
<1>6. /\ Emits(h.stream, c) /\ Quiet(c.out) /\ c.stream.got = h.stream.got
      /\ ~c.stream.registered
  BY <1>4, <1>5, ResetFacts
<1>7. Handles(Server, q)
  BY <1>1, <1>2
<1>0. c.stream.state # "idle"
  BY <1>6 DEF Emits
<1> HIDE DEF c, q
<1>8. /\ SessionInv' /\ stream'[Server] = c.stream /\ stream'[Node] = stream[Node]
  BY <1>1, <1>3, <1>6, <1>7, HandledThenKeeps DEF q
<1>9. ServerKept /\ ~stream'[Server].registered
  BY <1>0, <1>1, <1>4, <1>5, <1>6, <1>8 DEF ServerKept
<1>10. SocketInv'
  <2>1. CASE record.ready
    <3>1. socket' = Ends(socket) /\ record' = Dropped(record)
      BY <1>1, <2>1 DEF OnError
    <3>2. record' \in Record
      BY <3>1, DroppedFacts DEF SocksInv, ReplyInv
    <3> QED BY <1>9, <2>1, <3>1, <3>2, ReadyEnds DEF SocksInv, SocketInv
  <2>2. CASE ~record.ready
    <3>1. socket' = socket /\ record' = record
      BY <1>1, <2>2 DEF OnError
    <3> QED BY <1>9, <3>1, ServerRests DEF SocksInv, SocketInv
  <2> QED BY <2>1, <2>2
<1>11. TargetInv'
  BY <1>1, <1>8, TargetRests DEF SocksInv
<1>12. Answering'
  BY <1>9 DEF Answering, Known
<1> QED BY <1>8, <1>10, <1>11, <1>12 DEF SocksInv, SocketInv

LEMMA HandleTunnelReadyKeeps ==
  ASSUME SessionInv, SocksInv, HandleTunnelReady
  PROVE  SessionInv' /\ SocksInv'
<1>1. /\ Arrives(Server) /\ Known(Server) /\ FrameAt(Server).type = "HEADERS" /\ record.pending
      /\ Handles(Server, Handled(Server)) /\ UNCHANGED <<tunnel, session>>
  BY DEF HandleTunnelReady, Says, Gets
<1>2. /\ SessionInv' /\ stream'[Node] = stream[Node]
      /\ stream[Server].state # "idle" /\ stream'[Server].state # "idle"
      /\ stream'[Server].registered => stream[Server].registered
      /\ stream'[Server].got = stream[Server].got
  BY <1>1, ServerTakes DEF IsUnit
<1>3. ServerKept
  BY <1>1, <1>2 DEF ServerKept
<1>4. TargetInv'
  BY <1>1, <1>2, TargetRests DEF SocksInv
<1>5. CASE record.ready
  <2>1. socket' = socket /\ record' = record
    BY <1>5 DEF HandleTunnelReady
  <2>2. SocketInv' /\ Answering'
    BY <1>3, <1>5, <2>1, ServerRests DEF SocksInv, SocketInv, Answering
  <2> QED BY <1>2, <1>4, <2>2 DEF SocksInv, SocketInv
<1>6. CASE ~record.ready
  <2>1. /\ socket' = Writes(socket, Reply(GRANTED))
        /\ record' = [record EXCEPT !.ready = TRUE, !.timer = FALSE]
    BY <1>6 DEF HandleTunnelReady
  <2>2. /\ socket \in Socket /\ record \in Record /\ socket.out = << >> /\ ~socket.ended /\ ~socket.closed
    BY <1>1, <1>6 DEF SocksInv, ReplyInv, Unanswered
  <2>3. record' \in Record /\ record'.pending = record.pending /\ record'.ready = TRUE /\ record'.timer = FALSE
    BY <2>1, <2>2 DEF Record
  <2>4. /\ socket' \in Socket /\ socket'.ended = socket.ended /\ socket'.closed = socket.closed
        /\ Len(socket'.out) = Len(socket.out) + 1 /\ socket'.out[Len(socket'.out)] = Reply(GRANTED)
    <3> DEFINE w == Writes(socket, Reply(GRANTED))
    <3>1. Reply(GRANTED) \in Item
      BY ReplyIs
    <3>2. /\ w \in Socket /\ w.ended = socket.ended /\ w.closed = socket.closed
          /\ Len(w.out) = Len(socket.out) + 1 /\ w.out[Len(w.out)] = Reply(GRANTED)
      BY <2>2, <3>1, WritesFacts
    <3> QED BY <2>1, <3>2
  <2>5. Len(socket'.out) = 1 /\ socket'.out # << >> /\ socket'.out[1] = Reply(GRANTED)
    <3>1. Len(socket.out) = 0
      BY <2>2
    <3>2. Len(socket'.out) = 1
      BY <2>4, <3>1
    <3> QED BY <2>4, <3>2
  <2>6. stream'[Server].got = << >>
    BY <1>1, <1>2, <1>6 DEF SocksInv, Answering
  <2>7. 0 \in 0..Len(stream'[Server].got) /\ Len(stream'[Server].got) = 0
    BY <2>6
  <2>8. Relaying(0)'
    BY <2>5, <2>7 DEF Relaying
  <2>9. ReplyInv'
    BY <1>2, <2>3, <2>4, <2>5, <2>7, <2>8 DEF ReplyInv
  <2>10. UnansweredHasTimer' /\ StreamHasOwner' /\ Answering'
    BY <2>2, <2>3, <2>4, <2>5 DEF UnansweredHasTimer, StreamHasOwner, Answering
  <2> QED BY <1>2, <1>4, <2>9, <2>10 DEF SocksInv
<1> QED BY <1>5, <1>6

LEMMA HandleTunnelErrorKeeps ==
  ASSUME SessionInv, SocksInv, HandleTunnelError
  PROVE  SessionInv' /\ SocksInv'
<1>1. /\ Arrives(Server) /\ Known(Server) /\ FrameAt(Server).type = "HEADERS" /\ record.pending
      /\ Handles(Server, Handled(Server)) /\ UNCHANGED <<tunnel, session>>
      /\ ~Announces(FrameAt(Server), TUNNEL_READY) /\ record' = Dropped(record)
      /\ socket' = IF record.ready THEN Ends(socket) ELSE Refused(socket, GENERAL_FAILURE)
  BY DEF HandleTunnelError, Says, Gets, Announces, TUNNEL_READY, TUNNEL_ERROR
<1>2. /\ SessionInv' /\ stream'[Node] = stream[Node]
      /\ stream[Server].state # "idle" /\ stream'[Server].state # "idle"
      /\ stream'[Server].registered => stream[Server].registered
      /\ stream'[Server].got = stream[Server].got
  BY <1>1, ServerTakes DEF IsUnit
<1>3. ServerKept
  BY <1>1, <1>2 DEF ServerKept
<1>4. TargetInv'
  BY <1>1, <1>2, TargetRests DEF SocksInv
<1>5. /\ record' \in Record /\ record'.pending = FALSE /\ record'.timer = FALSE
      /\ record'.ready = record.ready
  BY <1>1, DroppedFacts DEF SocksInv, ReplyInv
<1>6. Answering'
  BY <1>1, <1>5, AnsweringTaken
<1>7. SocketInv'
  <2>1. CASE record.ready
    BY <1>1, <1>3, <1>5, <2>1, ReadyEnds DEF SocksInv, SocketInv
  <2>2. CASE ~record.ready
    <3>1. Unanswered /\ ~socket.closed
      BY <1>1, <2>2 DEF SocksInv, ReplyInv
    <3> QED BY <1>1, <1>3, <1>5, <2>2, <3>1, RefusesOnce DEF SocksInv, SocketInv
  <2> QED BY <2>1, <2>2
<1> QED BY <1>2, <1>4, <1>6, <1>7 DEF SocksInv, SocketInv

LEMMA ServerMuxKeeps ==
  ASSUME SessionInv, SocksInv, ServerMux
  PROVE  SessionInv' /\ SocksInv'
<1>1. /\ Arrives(Server)
      /\ Known(Server) => FrameAt(Server).type = "WINDOW_UPDATE"
      /\ Handles(Server, Handled(Server)) /\ UNCHANGED <<socket, record, tunnel, session>>
  BY DEF ServerMux
<1>2. /\ SessionInv' /\ stream'[Node] = stream[Node]
      /\ stream[Server].state # "idle" /\ stream'[Server].state # "idle"
      /\ stream'[Server].registered => stream[Server].registered
      /\ stream'[Server].got = stream[Server].got
  BY <1>1, ServerTakes DEF IsUnit
<1>3. SocketInv'
  BY <1>1, <1>2, ServerRests DEF SocksInv, SocketInv, ServerKept
<1>4. TargetInv'
  BY <1>1, <1>2, TargetRests DEF SocksInv
<1>5. Answering'
  <2>1. CASE Known(Server)
    BY <1>1, <2>1, AnsweringTaken DEF Announces
  <2>2. CASE ~Known(Server)
    BY <1>2, <2>2 DEF Answering, Known
  <2> QED BY <2>1, <2>2
<1> QED BY <1>2, <1>3, <1>4, <1>5 DEF SocksInv, SocketInv

(* What a ready tunnel does with the data of a DATA frame.                   *)
LEMMA RelayedFacts ==
  ASSUME NEW k \in Socket, NEW f \in Frame, f.type = "DATA"
  PROVE  LET w == Relayed(k, f) IN
         /\ w \in Socket /\ w.closed = k.closed /\ (k.ended => w.ended)
         /\ k.closed \/ k.ended \/ ~IsUnit(f) => w.out = k.out
         /\ ~k.closed /\ ~k.ended /\ IsUnit(f) =>
              /\ Len(w.out) = Len(k.out) + 1 /\ w.out[Len(w.out)] = DataItem(f.n)
              /\ \A i \in 1..Len(k.out) : w.out[i] = k.out[i]
<1> DEFINE v == IF f.n > 0 THEN Writes(k, DataItem(f.n)) ELSE k
           w == Relayed(k, f)
<1>1. w = IF f.fin THEN Ends(v) ELSE v
  BY DEF Relayed, DataItem
<1>2. f.n \in Nat /\ (IsUnit(f) <=> f.n > 0)
  BY DEF Frame, IsUnit
<1>3. /\ v \in Socket /\ v.closed = k.closed /\ v.ended = k.ended
      /\ k.closed \/ k.ended \/ ~IsUnit(f) => v.out = k.out
      /\ ~k.closed /\ ~k.ended /\ IsUnit(f) =>
           /\ Len(v.out) = Len(k.out) + 1 /\ v.out[Len(v.out)] = DataItem(f.n)
           /\ \A i \in 1..Len(k.out) : v.out[i] = k.out[i]
  <2>1. CASE f.n > 0
    <3> DEFINE x == Writes(k, DataItem(f.n))
    <3>1. DataItem(f.n) \in Item
      BY <1>2, DataItemIs
    <3>2. /\ x \in Socket /\ x.ended = k.ended /\ x.closed = k.closed
          /\ k.closed \/ k.ended => x.out = k.out
          /\ ~k.closed /\ ~k.ended => /\ x.out = Append(k.out, DataItem(f.n)) /\ Len(x.out) = Len(k.out) + 1
                                      /\ x.out[Len(x.out)] = DataItem(f.n)
                                      /\ \A i \in 1..Len(k.out) : x.out[i] = k.out[i]
      BY <3>1, WritesFacts
    <3>3. v = x
      BY <2>1
    <3> HIDE DEF x, v
    <3> QED BY <1>2, <2>1, <3>2, <3>3
  <2>2. CASE ~(f.n > 0)
    <3>1. v = k
      BY <2>2
    <3> HIDE DEF v
    <3> QED BY <1>2, <2>2, <3>1
  <2> QED BY <2>1, <2>2
<1> HIDE DEF v, w
<1>4. CASE f.fin
  <2>1. w = Ends(v)
    BY <1>1, <1>4
  <2>2. w \in Socket /\ w.ended = TRUE /\ w.closed = v.closed /\ w.out = v.out
    BY <1>3, <2>1, EndsFacts
  <2> QED BY <1>3, <2>2 DEF w
<1>5. CASE ~f.fin
  <2>1. w = v
    BY <1>1, <1>5
  <2> QED BY <1>3, <2>1 DEF w
<1> QED BY <1>4, <1>5

LEMMA HandleTunnelDataKeeps ==
  ASSUME SessionInv, SocksInv, HandleTunnelData
  PROVE  SessionInv' /\ SocksInv'
<1> DEFINE f == FrameAt(Server)
           got == stream[Server].got
<1>1. /\ Arrives(Server) /\ Known(Server) /\ f.type = "DATA"
      /\ Handles(Server, Handled(Server)) /\ UNCHANGED <<record, tunnel, session>>
      /\ socket' = IF record.ready THEN Relayed(socket, f) ELSE socket
      /\ ~Announces(f, TUNNEL_READY)
  BY DEF HandleTunnelData, Gets, Announces
<1>2. /\ SessionInv' /\ stream'[Node] = stream[Node]
      /\ stream[Server].state # "idle" /\ stream'[Server].state # "idle"
      /\ stream'[Server].registered => stream[Server].registered
      /\ stream'[Server].got = IF IsUnit(f) THEN Append(got, f.n) ELSE got
  BY <1>1, ServerTakes
<1>3. Answering' /\ (~record.ready => ~IsUnit(f))
  BY <1>1, AnsweringTaken
<1>4. TargetInv'
  BY <1>1, <1>2, TargetRests DEF SocksInv
<1>5. Server \in End /\ Listens(stream[Server]) /\ got \in Seq(Nat) /\ Len(got) \in Nat
  BY <1>1, SessionFacts DEF Known, Listens
<1>6. f \in Frame /\ (IsUnit(f) => f.n = Len(got) + 1)
  BY <1>1, <1>5, NextUnit
<1>7. socket \in Socket /\ record \in Record /\ ~socket.closed
  BY <1>1, <1>2 DEF SocksInv, ReplyInv, StreamHasOwner
<1> HIDE DEF f, got
<1>8. CASE ~record.ready
  <2>1. SocketInv'
    BY <1>1, <1>2, <1>3, <1>8, ServerRests DEF SocksInv, SocketInv, ServerKept, got
  <2> QED BY <1>2, <1>3, <1>4, <2>1 DEF SocksInv, SocketInv
<1>9. CASE record.ready
  <2> DEFINE w == Relayed(socket, f)
  <2>1. /\ w \in Socket /\ w.closed = socket.closed /\ (socket.ended => w.ended)
        /\ socket.closed \/ socket.ended \/ ~IsUnit(f) => w.out = socket.out
        /\ ~socket.closed /\ ~socket.ended /\ IsUnit(f) =>
             /\ Len(w.out) = Len(socket.out) + 1 /\ w.out[Len(w.out)] = DataItem(f.n)
             /\ \A i \in 1..Len(socket.out) : w.out[i] = socket.out[i]
    BY <1>1, <1>6, <1>7, RelayedFacts
  <2>2. socket' = w
    BY <1>1, <1>9
  <2> HIDE DEF w
  <2>3. PICK d \in 0..Len(got) : Relaying(d)
    BY <1>9 DEF SocksInv, ReplyInv, got
  <2>4. /\ \A i \in 2..(d + 1) : socket.out[i] = DataItem(i - 1)
        /\ \/ Len(socket.out) = d + 1
           \/ /\ Len(socket.out) = d + 2 /\ socket.out[d + 2] = Reply(UNREACHABLE)
              /\ socket.ended /\ session[Server] # "open"
        /\ ~socket.ended /\ ~socket.closed => d = Len(got)
        /\ d \in Nat /\ d <= Len(got)
    BY <1>5, <2>3 DEF Relaying, got
  <2>5. socket.out # << >> /\ socket.out[1] = Reply(GRANTED)
    BY <1>9 DEF SocksInv, ReplyInv
  <2> DEFINE got2 == stream'[Server].got
  <2>6. got2 = (IF IsUnit(f) THEN Append(got, f.n) ELSE got)
    BY <1>2
  <2>7. Len(got2) = (IF IsUnit(f) THEN Len(got) + 1 ELSE Len(got))
    BY <1>5, <2>6
  <2> HIDE DEF got2
  <2>8. /\ socket'.out # << >> /\ socket'.out[1] = Reply(GRANTED)
        /\ (\E x \in 0..Len(stream[Server].got) : Relaying(x))'
    <3>1. CASE socket.ended \/ ~IsUnit(f)
      <4>1. w.out = socket.out
        BY <2>1, <3>1
      <4>2. d \in 0..Len(got2)
        BY <1>5, <2>4, <2>7
      <4>3. ~w.ended /\ ~w.closed => d = Len(got2)
        BY <1>7, <2>1, <2>4, <2>7, <3>1
      <4>4. socket.ended => w.ended
        BY <2>1
      <4>5. Relaying(d)'
        BY <1>1, <2>2, <2>4, <4>1, <4>3, <4>4 DEF Relaying, got2
      <4> QED BY <2>2, <2>5, <4>1, <4>2, <4>5 DEF got2
    <3>2. CASE ~socket.ended /\ IsUnit(f)
      <4>1. /\ Len(w.out) = Len(socket.out) + 1 /\ w.out[Len(w.out)] = DataItem(f.n)
            /\ \A i \in 1..Len(socket.out) : w.out[i] = socket.out[i]
        BY <1>7, <2>1, <3>2
      <4>2. d = Len(got) /\ Len(socket.out) = d + 1 /\ f.n = d + 1 /\ Len(got2) = d + 1
        BY <1>6, <1>7, <2>4, <2>7, <3>2
      <4> DEFINE e == d + 1
      <4>3. e \in 0..Len(got2) /\ Len(w.out) = e + 1 /\ w.out[e + 1] = DataItem(e) /\ e = Len(got2)
        BY <2>4, <4>1, <4>2
      <4>4. \A i \in 2..(e + 1) : w.out[i] = DataItem(i - 1)
        <5>1. ASSUME NEW i \in 2..(e + 1) PROVE w.out[i] = DataItem(i - 1)
          <6>1. CASE i = e + 1
            BY <2>4, <4>3, <6>1
          <6>2. CASE i # e + 1
            <7>1. i \in 2..(d + 1) /\ i \in 1..Len(socket.out)
              BY <2>4, <4>2, <6>2
            <7> QED BY <2>4, <4>1, <7>1
          <6> QED BY <6>1, <6>2
        <5> QED BY <5>1
      <4>5. 1 \in 1..Len(socket.out)
        BY <2>4, <4>2
      <4>6. w.out[1] = Reply(GRANTED) /\ w.out # << >>
        <5>1. Len(w.out) # 0
          BY <2>4, <4>1, <4>2
        <5> QED BY <2>5, <4>1, <4>5, <5>1
      <4> HIDE DEF e
      <4>7. Relaying(e)'
        BY <2>2, <4>3, <4>4 DEF Relaying, got2
      <4> QED BY <2>2, <4>3, <4>6, <4>7 DEF got2
    <3> QED BY <3>1, <3>2
  <2>9. /\ record' = record /\ stream[Server].state # "idle" /\ stream'[Server].state # "idle"
    BY <1>1, <1>2
  <2>10. ReplyInv'
    BY <1>9, <2>1, <2>2, <2>8, <2>9 DEF ReplyInv, SocksInv
  <2>11. UnansweredHasTimer' /\ StreamHasOwner'
    BY <1>7, <2>1, <2>2, <2>8 DEF UnansweredHasTimer, StreamHasOwner
  <2> QED BY <1>2, <1>3, <1>4, <2>10, <2>11 DEF SocksInv
<1> QED BY <1>8, <1>9

(* The node's target.                                                        *)
LEMMA TargetFacts ==
  ASSUME SessionInv, TargetInv
  PROVE  /\ tunnel \in Tunnel /\ tunnel.in \in Seq(Nat) /\ Len(tunnel.in) \in Nat
         /\ tunnel.target \in {"none", "connecting", "open", "dead", "closed"}
         /\ Arrives(Node) => session[Node] = "open"
         /\ tunnel.target \in {"connecting", "open"} =>
              /\ Known(Node) /\ session[Node] = "open" /\ stream[Node].state \notin {"idle", "closed"}
         /\ Node \in End /\ Other(Node) = Server /\ Proper(stream[Node])
         /\ Len(stream[Node].got) \in Nat /\ stream[Node].got \in Seq(Nat)
<1>1. tunnel \in Tunnel /\ tunnel.in \in Seq(Nat)
  BY DEF TargetInv, Tunnel
<1>2. Len(tunnel.in) \in Nat
  <2> DEFINE in == tunnel.in
  <2>1. in \in Seq(Nat)
    BY <1>1
  <2> HIDE DEF in
  <2>2. Len(in) \in Nat
    BY <2>1
  <2> QED BY <2>2 DEF in
<1>3. Arrives(Node) => session[Node] = "open"
  BY SessionFacts DEF Arrives
<1>4. /\ Node \in End /\ Other(Node) = Server /\ Proper(stream[Node])
      /\ Len(stream[Node].got) \in Nat /\ stream[Node].got \in Seq(Nat)
  BY SessionFacts
<1>5. tunnel.target \in {"connecting", "open"} =>
        /\ Known(Node) /\ session[Node] = "open" /\ stream[Node].state \notin {"idle", "closed"}
  BY <1>4 DEF TargetInv, Proper, Known
<1>6. tunnel.target \in {"none", "connecting", "open", "dead", "closed"}
  BY <1>1 DEF Tunnel
<1> QED BY <1>1, <1>2, <1>3, <1>4, <1>5, <1>6

(* The other side of a step of the node.                                     *)
LEMMA SocketWaits ==
  ASSUME SocksInv, UNCHANGED <<socket, record, session>>, stream'[Server] = stream[Server]
  PROVE  SocketInv'
BY ServerRests DEF SocksInv, SocketInv, ServerKept

LEMMA AnsweringGrows ==
  ASSUME SessionInv, SocksInv, NEW q, Sends(stream[Node], q), Appends(Node, q),
         stream'[Server] = stream[Server], record' = record,
         q.stream.written = stream[Node].written \/ tunnel.target = "open",
         tunnel'.target = "open" => tunnel.target = "open" \/ Said(wire'[Node], TUNNEL_READY)
  PROVE  Answering'
<1>1. ASSUME ~record.ready, Known(Server)
      PROVE  /\ stream'[Server].got = << >> /\ AnswerFirst(TUNNEL_READY)'
             /\ tunnel'.target = "open" => Said(wire'[Node], TUNNEL_READY)
  <2>1. /\ stream[Server].got = << >> /\ AnswerFirst(TUNNEL_READY)
        /\ tunnel.target = "open" => Said(wire[Node], TUNNEL_READY)
    BY <1>1 DEF SocksInv, Answering
  <2>2. /\ AnswerFirst(TUNNEL_READY)'
        /\ Said(wire[Node], TUNNEL_READY) => Said(wire'[Node], TUNNEL_READY)
    BY <2>1, AnswerGrows
  <2> QED BY <2>1, <2>2
<1> QED BY <1>1 DEF Answering, Known, TUNNEL_READY

Refusal(s) == Joint(SendHeaders(s, TUNNEL_ERROR, FALSE), Close(SendHeaders(s, TUNNEL_ERROR, FALSE).stream))

LEMMA RefusalIs ==
  \A s : After(SendHeaders(s, TUNNEL_ERROR, FALSE), Close) = Refusal(s)
BY DEF After, Refusal, Joint

LEMMA RefusalFacts ==
  ASSUME NEW s, Proper(s)
  PROVE  /\ Refusal(s) = Result(Refusal(s).stream, Refusal(s).out) /\ Emits(s, Refusal(s))
         /\ Refusal(s).stream.got = s.got /\ Refusal(s).stream.written = s.written
<1> DEFINE h == SendHeaders(s, TUNNEL_ERROR, FALSE)
           c == Close(h.stream)
           q == Joint(h, c)
<1>1. q = Refusal(s)
  BY DEF Refusal
<1>2. TUNNEL_ERROR \in Nat /\ FALSE \in BOOLEAN
  BY DEF TUNNEL_ERROR
<1>3. Emits(s, h) /\ h.stream.got = s.got
  BY <1>2, SendHeadersEmits
<1>4. h.stream.written = s.written
  BY <1>2, HeadersFacts
<1>5. Proper(h.stream) /\ h.stream.state # "idle" /\ Sends(s, h)
  BY <1>3 DEF Emits, Sends
<1> HIDE DEF h
<1>6. /\ Emits(h.stream, c) /\ c.stream.got = h.stream.got /\ c.stream.written = h.stream.written
  BY <1>5, CloseFacts
<1> HIDE DEF c
<1>7. /\ q = Result(q.stream, q.out) /\ q.stream = c.stream /\ (Emits(s, h) => Emits(s, q))
  BY <1>5, <1>6, SendsAfter
<1> HIDE DEF q
<1> QED BY <1>1, <1>3, <1>4, <1>6, <1>7

LEMMA HandleMuxTunnelKeeps ==
  ASSUME SessionInv, SocksInv, HandleMuxTunnel
  PROVE  SessionInv' /\ SocksInv'
<1> DEFINE h == Handled(Node)
<1>1. /\ Arrives(Node) /\ FrameAt(Node).type = "TUNNEL_OPEN" /\ ~Known(Node)
      /\ socket' = socket /\ record' = record /\ session' = session
  BY DEF HandleMuxTunnel
<1>2. /\ Node \in End /\ Other(Node) = Server /\ Server # Node /\ session[Node] = "open"
      /\ TargetInv /\ tunnel \in Tunnel
  BY <1>1, SessionFacts, TargetFacts DEF SocksInv
<1>3. stream[Node].state = "idle"
  BY <1>1, <1>2, HandledIs DEF Opens
<1>4. tunnel.target = "none" /\ tunnel.in = << >> /\ ~tunnel.slot
  BY <1>2, <1>3 DEF TargetInv
<1>5. /\ Sends(stream[Node], h) /\ h.stream.state # "idle" /\ h.stream.got = stream[Node].got
      /\ h.stream.written = stream[Node].written
  BY <1>1, <1>2, HandledIs, NodeHandledFacts
<1>6. stream[Node].got = << >>
  <2>1. stream[Node] = [NewStream EXCEPT !.registered = FALSE]
    BY <1>3 DEF SessionInv, SessionOpening
  <2> QED BY <2>1 DEF NewStream
<1>7. CASE tunnel' = [tunnel EXCEPT !.slot = TRUE, !.target = "connecting"] /\ Handles(Node, h)
  <2>1. /\ SessionInv' /\ Appends(Node, h) /\ stream'[Node] = h.stream /\ stream'[Server] = stream[Server]
    BY <1>1, <1>2, <1>7, HandledKeeps
  <2>2. /\ tunnel' \in Tunnel /\ tunnel'.target = "connecting" /\ tunnel'.in = tunnel.in
    BY <1>2, <1>7 DEF Tunnel
  <2>3. h.stream.registered
    <3> DEFINE t == [NewStream EXCEPT !.state = IF FrameAt(Node).fin THEN "half_closed_remote" ELSE "open"]
    <3>1. h = Result(t, << >>)
      BY <1>1, <1>2, <1>3, HandledIs
    <3>2. t.registered
      BY DEF NewStream
    <3> HIDE DEF h, t
    <3> QED BY <3>1, <3>2, ResultIs
  <2>4. TargetInv'
    BY <1>1, <1>2, <1>4, <1>5, <1>6, <2>1, <2>2, <2>3 DEF TargetInv, Known, Units1To
  <2>5. Answering'
    BY <1>1, <1>5, <2>1, <2>2, AnsweringGrows
  <2> QED BY <1>1, <2>1, <2>4, <2>5, SocketWaits DEF SocksInv, SocketInv
<1>8. CASE tunnel' = tunnel /\ Handles(Node, After(h, Refusal))
  <2> DEFINE c == Refusal(h.stream)
             q == Joint(h, c)
  <2>1. q = After(h, Refusal)
    BY DEF Joint, After
  <2>2. Proper(h.stream)
    BY <1>5 DEF Sends
  <2>3. /\ c = Result(c.stream, c.out) /\ Emits(h.stream, c)
        /\ c.stream.got = h.stream.got /\ c.stream.written = h.stream.written
    BY <2>2, RefusalFacts
  <2>4. Handles(Node, q)
    BY <1>8, <2>1
  <2> HIDE DEF c, q
  <2>5. /\ SessionInv' /\ Appends(Node, q) /\ stream'[Node] = c.stream /\ stream'[Server] = stream[Server]
        /\ q.stream = c.stream
    BY <1>1, <1>2, <2>3, <2>4, HandledThenKeeps DEF q
  <2>6. Sends(stream[Node], q)
    <3> HIDE DEF h
    <3>1. Proper(stream[Node])
      BY <1>2, SessionFacts
    <3> QED BY <1>5, <2>3, <3>1, SendsAfter DEF q
  <2>7. c.stream.state # "idle"
    BY <2>3 DEF Emits
  <2>8. TargetInv'
    BY <1>2, <1>4, <1>8, <1>5, <1>6, <2>3, <2>5, <2>7 DEF TargetInv, Units1To
  <2>9. Answering'
    BY <1>1, <1>5, <1>8, <2>3, <2>5, <2>6, AnsweringGrows
  <2> QED BY <1>1, <2>5, <2>8, <2>9, SocketWaits DEF SocksInv, SocketInv
<1> QED BY <1>7, <1>8, RefusalIs DEF HandleMuxTunnel, After

(* A frame reaches the node.                                                 *)
LEMMA NodeTakes ==
  ASSUME SessionInv, SocksInv, Arrives(Node), Handles(Node, Handled(Node)), UNCHANGED session
  PROVE  /\ SessionInv' /\ stream'[Server] = stream[Server] /\ stream'[Node].state # "idle"
         /\ stream'[Node].got = IF Known(Node) /\ IsUnit(FrameAt(Node))
                                  THEN Append(stream[Node].got, FrameAt(Node).n) ELSE stream[Node].got
         /\ Known(Node) /\ FrameAt(Node).type # "RST_STREAM" => stream'[Node].registered
         /\ UNCHANGED record /\ (tunnel'.target = "open" => tunnel.target = "open") => Answering'
<1>1. Node \in End /\ Other(Node) = Server
  BY SessionFacts
<1> DEFINE q == Handled(Node)
<1>2. /\ Sends(stream[Node], q) /\ q.stream.state # "idle"
      /\ q.stream.got = IF Known(Node) /\ IsUnit(FrameAt(Node))
                          THEN Append(stream[Node].got, FrameAt(Node).n) ELSE stream[Node].got
  BY <1>1, HandledIs
<1>3. /\ q.stream.written = stream[Node].written
      /\ Known(Node) /\ FrameAt(Node).type # "RST_STREAM" => q.stream.registered
  BY NodeHandledFacts
<1>4. /\ SessionInv' /\ Appends(Node, q) /\ stream'[Node] = q.stream /\ stream'[Server] = stream[Server]
  BY <1>1, HandledKeeps
<1> HIDE DEF q
<1>5. ASSUME UNCHANGED record, tunnel'.target = "open" => tunnel.target = "open" PROVE Answering'
  BY <1>2, <1>3, <1>4, <1>5, AnsweringGrows
<1> QED BY <1>2, <1>3, <1>4, <1>5

LEMMA OnEndFacts ==
  ASSUME NEW t \in Tunnel
  PROVE  /\ OnEnd(t) \in Tunnel /\ OnEnd(t).target = t.target /\ OnEnd(t).in = t.in
         /\ OnEnd(t).slot = FALSE
<1> DEFINE h == t.target \in {"connecting", "open"}
<1>1. h \in BOOLEAN /\ OnEnd(t) = [t EXCEPT !.slot = FALSE, !.fin = TRUE, !.hardClose = h]
  BY DEF OnEnd
<1> HIDE DEF h
<1> QED BY <1>1 DEF Tunnel

LEMMA DestroyedFacts ==
  ASSUME NEW t \in Tunnel
  PROVE  /\ Destroyed(t) \in Tunnel /\ Destroyed(t).in = t.in /\ Destroyed(t).slot = FALSE
         /\ Destroyed(t).target = IF t.target \in {"connecting", "open"} THEN "dead" ELSE t.target
BY DEF Destroyed, Released, Tunnel

LEMMA TunnelDataFacts ==
  ASSUME NEW t \in Tunnel, NEW f \in Frame, f.type = "DATA"
  PROVE  LET w == TunnelData(t, f) IN
         /\ w \in Tunnel /\ w.target = t.target /\ (w.slot => t.slot)
         /\ w.in = IF IsUnit(f) /\ t.target \in {"connecting", "open"} THEN Append(t.in, f.n) ELSE t.in
<1> DEFINE v == IF f.n > 0 /\ t.target \in {"connecting", "open"} THEN [t EXCEPT !.in = Append(@, f.n)] ELSE t
           w == TunnelData(t, f)
           more == Append(t.in, f.n)
<1>1. w = IF f.fin /\ t.target # "none" THEN OnEnd(v) ELSE v
  BY DEF TunnelData
<1>2. f.n \in Nat /\ (IsUnit(f) <=> f.n > 0) /\ t.in \in Seq(Nat)
  BY DEF Frame, IsUnit, Tunnel
<1>3. more \in Seq(Nat)
  BY <1>2
<1>4. v = IF IsUnit(f) /\ t.target \in {"connecting", "open"} THEN [t EXCEPT !.in = more] ELSE t
  BY <1>2
<1> HIDE DEF v, w
<1>5. /\ v \in Tunnel /\ v.target = t.target /\ (v.slot => t.slot)
      /\ v.in = IF IsUnit(f) /\ t.target \in {"connecting", "open"} THEN more ELSE t.in
  <2> HIDE DEF more
  <2>1. CASE IsUnit(f) /\ t.target \in {"connecting", "open"}
    <3>1. v = [t EXCEPT !.in = more]
      BY <1>4, <2>1
    <3>2. v \in Tunnel /\ v.target = t.target /\ v.in = more /\ v.slot = t.slot
      BY <1>3, <3>1 DEF Tunnel
    <3> QED BY <2>1, <3>2
  <2>2. CASE ~(IsUnit(f) /\ t.target \in {"connecting", "open"})
    <3>1. v = t
      BY <1>4, <2>2
    <3> QED BY <2>2, <3>1
  <2> QED BY <2>1, <2>2
<1>6. CASE f.fin /\ t.target # "none"
  <2>1. w = OnEnd(v)
    BY <1>1, <1>6
  <2>2. w \in Tunnel /\ w.target = v.target /\ w.in = v.in /\ w.slot = FALSE
    BY <1>5, <2>1, OnEndFacts
  <2> QED BY <1>5, <2>2 DEF w
<1>7. CASE ~(f.fin /\ t.target # "none")
  <2>1. w = v
    BY <1>1, <1>7
  <2> QED BY <1>5, <2>1 DEF w
<1> QED BY <1>6, <1>7

LEMMA NodeHandlesDataKeeps ==
  ASSUME SessionInv, SocksInv, NodeHandlesData
  PROVE  SessionInv' /\ SocksInv'
<1> DEFINE f == FrameAt(Node)
           got == stream[Node].got
           got2 == stream'[Node].got
           in == tunnel.in
<1>1. /\ Arrives(Node) /\ Known(Node) /\ f.type = "DATA" /\ Handles(Node, Handled(Node))
      /\ tunnel' = TunnelData(tunnel, f) /\ socket' = socket /\ record' = record /\ session' = session
  BY DEF NodeHandlesData, Gets
<1>2. TargetInv
  BY DEF SocksInv
<1>3. /\ tunnel \in Tunnel /\ in \in Seq(Nat) /\ Len(in) \in Nat /\ session[Node] = "open"
      /\ Node \in End /\ got \in Seq(Nat) /\ Len(got) \in Nat /\ Listens(stream[Node])
      /\ stream[Node].state # "idle"
  <2>1. stream[Node].state # "idle"
    BY <1>1, SessionFacts, HandledIs
  <2> QED BY <1>1, <1>2, <2>1, TargetFacts DEF Known, Listens
<1>4. f \in Frame /\ (IsUnit(f) => f.n = Len(got) + 1)
  BY <1>1, <1>3, NextUnit
<1>5. /\ SessionInv' /\ stream'[Server] = stream[Server] /\ stream'[Node].state # "idle"
      /\ got2 = IF IsUnit(f) THEN Append(got, f.n) ELSE got
      /\ stream'[Node].registered
      /\ (tunnel'.target = "open" => tunnel.target = "open") => Answering'
  BY <1>1, NodeTakes
<1>6. /\ tunnel' \in Tunnel /\ tunnel'.target = tunnel.target /\ (tunnel'.slot => tunnel.slot)
      /\ tunnel'.in = IF IsUnit(f) /\ tunnel.target \in {"connecting", "open"} THEN Append(in, f.n) ELSE in
  BY <1>1, <1>3, <1>4, TunnelDataFacts
<1>7. /\ tunnel.slot => tunnel.target \in {"connecting", "open", "dead"}
      /\ tunnel.target = "none" => in = << >>
      /\ tunnel.target \in {"connecting", "open"} => Len(in) = Len(got)
      /\ \A i \in 1..Len(in) : in[i] = i
      /\ Len(in) <= Len(got)
  BY <1>2 DEF TargetInv, Units1To
<1> DEFINE in2 == tunnel'.in
<1>8. /\ tunnel.target \in {"connecting", "open"} => Len(in2) = Len(got2)
      /\ \A i \in 1..Len(in2) : in2[i] = i
      /\ Len(in2) <= Len(got2)
      /\ tunnel.target = "none" => in2 = << >>
  <2> HIDE DEF f, got, in, in2, got2
  <2>1. Len(got2) = IF IsUnit(f) THEN Len(got) + 1 ELSE Len(got)
    BY <1>3, <1>4, <1>5
  <2>2. CASE IsUnit(f) /\ tunnel.target \in {"connecting", "open"}
    <3>1. in2 = Append(in, f.n) /\ f.n = Len(in) + 1
      BY <1>4, <1>6, <1>7, <2>2 DEF in2
    <3>2. /\ Len(in2) = Len(in) + 1 /\ in2[Len(in) + 1] = f.n
          /\ \A i \in 1..Len(in) : in2[i] = in[i]
      BY <1>3, <3>1
    <3>3. \A i \in 1..Len(in2) : in2[i] = i
      BY <1>3, <1>7, <3>1, <3>2
    <3> QED BY <1>7, <2>1, <2>2, <3>2, <3>3
  <2>3. CASE ~(IsUnit(f) /\ tunnel.target \in {"connecting", "open"})
    <3>1. in2 = in
      BY <1>6, <2>3 DEF in2
    <3> QED BY <1>3, <1>7, <2>1, <2>3, <3>1
  <2> QED BY <2>2, <2>3
<1>9. TargetInv'
  <2> HIDE DEF f
  <2> QED BY <1>1, <1>3, <1>5, <1>6, <1>7, <1>8 DEF TargetInv, Known, Units1To
<1>10. SocketInv'
  BY <1>1, <1>5, SocketWaits
<1> QED BY <1>5, <1>6, <1>9, <1>10 DEF SocksInv, SocketInv

LEMMA NodeHandlesResetKeeps ==
  ASSUME SessionInv, SocksInv, NodeHandlesReset
  PROVE  SessionInv' /\ SocksInv'
<1>1. /\ Arrives(Node) /\ Known(Node) /\ FrameAt(Node).type = "RST_STREAM" /\ Handles(Node, Handled(Node))
      /\ tunnel' = Destroyed(tunnel) /\ socket' = socket /\ record' = record /\ session' = session
  BY DEF NodeHandlesReset, Gets
<1>2. TargetInv
  BY DEF SocksInv
<1>3. tunnel' \in Tunnel /\ tunnel'.in = tunnel.in /\ tunnel'.slot = FALSE
      /\ tunnel'.target = IF tunnel.target \in {"connecting", "open"} THEN "dead" ELSE tunnel.target
  BY <1>1, <1>2, DestroyedFacts DEF TargetInv
<1>4. /\ SessionInv' /\ stream'[Server] = stream[Server] /\ stream'[Node].state # "idle"
      /\ stream'[Node].got = stream[Node].got /\ Answering'
  BY <1>1, <1>3, NodeTakes DEF IsUnit
<1>5. TargetInv'
  BY <1>2, <1>3, <1>4 DEF TargetInv, Units1To
<1> QED BY <1>1, <1>4, <1>5, SocketWaits DEF SocksInv, SocketInv

LEMMA NodeMuxKeeps ==
  ASSUME SessionInv, SocksInv, NodeMux
  PROVE  SessionInv' /\ SocksInv'
<1>1. /\ Arrives(Node) /\ Handles(Node, Handled(Node))
      /\ Known(Node) => FrameAt(Node).type # "RST_STREAM" /\ ~IsUnit(FrameAt(Node))
      /\ tunnel' = tunnel /\ socket' = socket /\ record' = record /\ session' = session
  BY DEF NodeMux, IsUnit
<1>2. TargetInv
  BY DEF SocksInv
<1>3. /\ SessionInv' /\ stream'[Server] = stream[Server] /\ stream'[Node].state # "idle"
      /\ stream'[Node].got = stream[Node].got /\ Answering'
      /\ Known(Node) => stream'[Node].registered
  BY <1>1, NodeTakes
<1>4. TargetInv'
  BY <1>1, <1>2, <1>3 DEF TargetInv, Units1To, Known
<1> QED BY <1>1, <1>3, <1>4, SocketWaits DEF SocksInv, SocketInv

(* The node calls its stream.                                                *)
LEMMA NodeCalls ==
  ASSUME SessionInv, SocksInv, stream[Node].state # "idle", NEW q, q = Result(q.stream, q.out),
         Emits(stream[Node], q), q.stream.got = stream[Node].got, Calls(Node, q),
         UNCHANGED <<socket, record, session>>
  PROVE  /\ SessionInv' /\ SocketInv' /\ Appends(Node, q) /\ Sends(stream[Node], q)
         /\ stream'[Node] = q.stream /\ stream'[Server] = stream[Server] /\ q.stream.state # "idle"
         /\ q.out \in Seq(Frame)
<1>1. Node \in End /\ Other(Node) = Server /\ Server # Node
  BY SessionFacts
<1>2. Sends(stream[Node], q) /\ q.out \in Seq(Frame) /\ q.stream.state # "idle"
  BY DEF Emits, Sends
<1>3. SessionInv'
  BY <1>1, CallsKeep
<1>4. Appends(Node, q) /\ stream'[Node] = q.stream /\ stream'[Server] = stream[Server]
  BY <1>1, <1>2, CallsAre
<1> QED BY <1>2, <1>3, <1>4, SocketWaits

LEMMA TargetConnectsKeeps ==
  ASSUME SessionInv, SocksInv, TargetConnects
  PROVE  SessionInv' /\ SocksInv'
<1> DEFINE s == stream[Node]
           q == SendHeaders(s, TUNNEL_READY, FALSE)
<1>1. /\ tunnel.target = "connecting" /\ tunnel' = [tunnel EXCEPT !.target = "open"]
      /\ Calls(Node, q) /\ UNCHANGED <<socket, record, session>>
  BY DEF TargetConnects
<1>2. /\ tunnel \in Tunnel /\ Known(Node) /\ session[Node] = "open" /\ s.state # "idle" /\ s.state # "closed"
      /\ Proper(s) /\ TUNNEL_READY \in Nat /\ FALSE \in BOOLEAN
  BY <1>1, TargetFacts DEF SocksInv, TUNNEL_READY
<1>3. /\ q = Result(q.stream, q.out) /\ Emits(s, q) /\ q.stream.got = s.got
      /\ q.stream.written = s.written /\ q.stream.registered = s.registered
      /\ Said(q.out, TUNNEL_READY)
  <2> HIDE DEF s
  <2> QED BY <1>2, AnnounceFacts
<1> HIDE DEF q
<1>5. /\ SessionInv' /\ SocketInv' /\ Appends(Node, q) /\ Sends(s, q)
      /\ stream'[Node] = q.stream /\ stream'[Server] = stream[Server] /\ q.out \in Seq(Frame)
      /\ q.stream.state # "idle"
  BY <1>1, <1>2, <1>3, NodeCalls
<1>6. Said(wire'[Node], TUNNEL_READY)
  <2>1. wire'[Node] = wire[Node] \o q.out
    BY <1>2, <1>5, SentOut DEF Appends
  <2>3. wire[Node] \in Seq(Frame)
    BY SessionFacts
  <2> QED BY <1>3, <1>5, <2>1, <2>3, FirstAppended
<1>7. tunnel' \in Tunnel /\ tunnel'.target = "open" /\ tunnel'.in = tunnel.in
  BY <1>1, <1>2 DEF Tunnel
<1>8. Answering'
  BY <1>1, <1>3, <1>5, <1>6, AnsweringGrows
<1>9. TargetInv'
  BY <1>1, <1>2, <1>3, <1>5, <1>7 DEF SocksInv, TargetInv, Known, Units1To
<1> QED BY <1>5, <1>8, <1>9 DEF SocksInv, SocketInv

LEMMA TargetSendsKeeps ==
  ASSUME SessionInv, SocksInv, TargetSends
  PROVE  SessionInv' /\ SocksInv'
<1> DEFINE s == stream[Node]
<1>1. PICK n \in 1..(MaxUnits[Node] - stream[Node].written) : Calls(Node, SendData(s, n, FALSE))
  BY DEF TargetSends
<1>2. /\ tunnel.target = "open" /\ tunnel' = tunnel /\ UNCHANGED <<socket, record, session>>
  BY DEF TargetSends
<1>3. /\ tunnel \in Tunnel /\ Known(Node) /\ s.state # "idle" /\ Proper(s) /\ n \in Nat /\ FALSE \in BOOLEAN
  BY <1>2, TargetFacts DEF SocksInv
<1> DEFINE q == SendData(s, n, FALSE)
<1>4. Calls(Node, q)
  BY <1>1
<1>5. /\ q = Result(q.stream, q.out) /\ Emits(s, q) /\ q.stream.got = s.got
      /\ q.stream.registered = s.registered
  <2> HIDE DEF s
  <2> QED BY <1>3, SendDataRests
<1> HIDE DEF q
<1>6. /\ SessionInv' /\ SocketInv' /\ Appends(Node, q) /\ Sends(s, q)
      /\ stream'[Node] = q.stream /\ stream'[Server] = stream[Server] /\ q.stream.state # "idle"
  BY <1>2, <1>3, <1>4, <1>5, NodeCalls
<1>7. Answering'
  BY <1>2, <1>6, AnsweringGrows
<1>8. TargetInv'
  BY <1>2, <1>3, <1>5, <1>6 DEF SocksInv, TargetInv, Known, Units1To
<1> QED BY <1>6, <1>7, <1>8 DEF SocksInv, SocketInv

(* The target is no longer there to be written to.                           *)
LEMMA TargetGone ==
  ASSUME SessionInv, SocksInv, NEW q, q = Result(q.stream, q.out), Emits(stream[Node], q),
         q.stream.got = stream[Node].got, q.stream.written = stream[Node].written,
         stream[Node].state # "idle", Calls(Node, q), UNCHANGED <<socket, record, session>>,
         tunnel' \in Tunnel, tunnel'.target \in {"dead", "closed"}, tunnel'.in = tunnel.in,
         tunnel'.slot => tunnel'.target = "dead"
  PROVE  SessionInv' /\ SocksInv'
<1>1. /\ SessionInv' /\ SocketInv' /\ Appends(Node, q) /\ Sends(stream[Node], q)
      /\ stream'[Node] = q.stream /\ stream'[Server] = stream[Server] /\ q.stream.state # "idle"
  BY NodeCalls
<1>2. Answering'
  BY <1>1, AnsweringGrows
<1>3. TargetInv'
  BY <1>1 DEF SocksInv, TargetInv, Units1To
<1> QED BY <1>1, <1>2, <1>3 DEF SocksInv, SocketInv

LEMMA FailTunnelKeeps ==
  ASSUME SessionInv, SocksInv, FailTunnel
  PROVE  SessionInv' /\ SocksInv'
<1>1. /\ tunnel.target = "connecting" /\ UNCHANGED <<socket, record, session>>
      /\ tunnel' = [Released(tunnel) EXCEPT !.target = "dead", !.reported = TRUE]
      /\ IF tunnel.reported THEN UNCHANGED <<stream, wire>> ELSE Calls(Node, Refusal(stream[Node]))
  BY RefusalIs DEF FailTunnel
<1>2. /\ tunnel \in Tunnel /\ stream[Node].state # "idle" /\ Proper(stream[Node])
  BY <1>1, TargetFacts DEF SocksInv
<1>3. tunnel' \in Tunnel /\ tunnel'.target = "dead" /\ tunnel'.in = tunnel.in
  BY <1>1, <1>2 DEF Tunnel, Released
<1>4. CASE ~tunnel.reported
  <2> DEFINE q == Refusal(stream[Node])
  <2>1. /\ q = Result(q.stream, q.out) /\ Emits(stream[Node], q)
        /\ q.stream.got = stream[Node].got /\ q.stream.written = stream[Node].written
    BY <1>2, RefusalFacts
  <2>2. Calls(Node, q)
    BY <1>1, <1>4
  <2> HIDE DEF q
  <2> QED BY <1>1, <1>2, <1>3, <2>1, <2>2, TargetGone
<1>5. CASE tunnel.reported
  <2>1. UNCHANGED <<stream, wire, socket, record, session>>
    BY <1>1, <1>5
  <2>2. SessionInv' /\ SocketInv' /\ Answering'
    BY <1>3, <2>1, SessionRests, SocketWaits, AnsweringRests DEF SocksInv
  <2>3. TargetInv'
    BY <1>3, <1>2, <2>1 DEF SocksInv, TargetInv, Units1To
  <2> QED BY <2>2, <2>3 DEF SocksInv, SocketInv
<1> QED BY <1>4, <1>5

LEMMA TargetDiesKeeps ==
  ASSUME SessionInv, SocksInv, TargetDies
  PROVE  SessionInv' /\ SocksInv'
<1>1. /\ tunnel.target \in {"open", "connecting"} /\ UNCHANGED <<stream, wire, socket, record, session>>
      /\ tunnel' = [tunnel EXCEPT !.target = "dead", !.hardClose = FALSE]
  BY DEF TargetDies
<1>2. /\ tunnel \in Tunnel /\ stream[Node].state # "idle"
  BY <1>1, TargetFacts DEF SocksInv
<1>3. tunnel' \in Tunnel /\ tunnel'.target = "dead" /\ tunnel'.in = tunnel.in
  BY <1>1, <1>2 DEF Tunnel
<1>4. SessionInv' /\ SocketInv' /\ Answering'
  BY <1>1, <1>3, SessionRests, SocketWaits, AnsweringRests DEF SocksInv
<1>5. TargetInv'
  BY <1>1, <1>2, <1>3 DEF SocksInv, TargetInv, Units1To
<1> QED BY <1>4, <1>5 DEF SocksInv, SocketInv

LEMMA TargetClosedKeeps ==
  ASSUME SessionInv, SocksInv, TargetClosed
  PROVE  SessionInv' /\ SocksInv'
<1> DEFINE q == Close(stream[Node])
<1>1. /\ tunnel.target \in {"open", "dead"} /\ UNCHANGED <<socket, record, session>>
      /\ tunnel' = [Released(tunnel) EXCEPT !.target = "closed"] /\ Calls(Node, q)
  BY DEF TargetClosed
<1>2. /\ tunnel \in Tunnel /\ stream[Node].state # "idle" /\ Proper(stream[Node])
  BY <1>1, TargetFacts DEF SocksInv, TargetInv
<1>3. tunnel' \in Tunnel /\ tunnel'.target = "closed" /\ tunnel'.in = tunnel.in /\ tunnel'.slot = FALSE
  BY <1>1, <1>2 DEF Tunnel, Released
<1>4. /\ q = Result(q.stream, q.out) /\ Emits(stream[Node], q)
      /\ q.stream.got = stream[Node].got /\ q.stream.written = stream[Node].written
  BY <1>2, CloseFacts
<1> HIDE DEF q
<1> QED BY <1>1, <1>2, <1>3, <1>4, TargetGone

----------------------------------------------------------------------------
(* The session ends.                                                         *)
LEMMA ServerSessionEnds ==
  ASSUME SessionInv, SocksInv, SessionEnds(Server)
  PROVE  SessionInv' /\ SocksInv'
<1>1. Closes(Server) /\ tunnel' = tunnel
  BY DEF SessionEnds
<1>2. Server \in End /\ Other(Server) = Node /\ Server # Node
  BY SessionFacts
<1>3. /\ SessionInv' /\ session'[Server] = "closed" /\ session'[Node] = session[Node]
      /\ stream'[Node] = stream[Node] /\ ~stream'[Server].registered
      /\ stream'[Server].state = (IF stream[Server].state = "idle" THEN "idle" ELSE "closed")
      /\ stream'[Server].got = stream[Server].got
  BY <1>1, <1>2, ClosingKeeps
<1>4. ServerKept
  BY <1>3 DEF ServerKept
<1>5. TargetInv' /\ Answering'
  BY <1>1, <1>3, TargetRests DEF SocksInv, Answering, Known
<1> DEFINE e == OnError(socket, record)
           removed == Removed(e.socket, e.record)
<1>6. socket' = removed.socket /\ record' = removed.record
  BY DEF SessionEnds
<1>7. CASE record.ready
  <2>1. e.socket = Ends(socket) /\ e.record = Dropped(record)
    BY <1>7 DEF OnError
  <2>2. Dropped(record) \in Record /\ ~Dropped(record).pending
    BY DroppedFacts DEF SocksInv, ReplyInv
  <2>3. removed.socket = Ends(socket) /\ removed.record = Dropped(record)
    BY <2>1, <2>2 DEF Removed
  <2>4. SocketInv'
    BY <1>4, <1>6, <1>7, <2>2, <2>3, ReadyEnds DEF SocksInv, SocketInv
  <2> QED BY <1>3, <1>5, <2>4 DEF SocksInv, SocketInv
<1>8. CASE ~record.ready
  <2>1. e.socket = socket /\ e.record = record
    BY <1>8 DEF OnError
  <2>2. SocketInv'
    BY <1>3, <1>4, <1>6, <2>1, Removes DEF SocksInv, SocketInv
  <2> QED BY <1>3, <1>5, <2>2 DEF SocksInv, SocketInv
<1> QED BY <1>7, <1>8

LEMMA SessionFailsKeeps ==
  ASSUME SessionInv, SocksInv, SessionFails
  PROVE  SessionInv' /\ SocksInv'
<1>1. /\ Closes(Server) /\ tunnel' = tunnel
      /\ socket' = Removed(socket, record).socket /\ record' = Removed(socket, record).record
  BY DEF SessionFails
<1>2. Server \in End /\ Other(Server) = Node /\ Server # Node
  BY SessionFacts
<1>3. /\ SessionInv' /\ session'[Server] = "closed" /\ session'[Node] = session[Node]
      /\ stream'[Node] = stream[Node] /\ ~stream'[Server].registered
      /\ stream'[Server].state = (IF stream[Server].state = "idle" THEN "idle" ELSE "closed")
      /\ stream'[Server].got = stream[Server].got
  BY <1>1, <1>2, ClosingKeeps
<1>4. TargetInv' /\ Answering'
  BY <1>1, <1>3, TargetRests DEF SocksInv, Answering, Known
<1>5. SocketInv'
  BY <1>1, <1>3, Removes DEF SocksInv, SocketInv, ServerKept
<1> QED BY <1>3, <1>4, <1>5 DEF SocksInv, SocketInv

LEMMA KickKeeps ==
  ASSUME SessionInv, SocksInv, Kick
  PROVE  SessionInv' /\ SocksInv'
<1>1. /\ ServerCloses /\ tunnel' = tunnel
      /\ socket' = Removed(socket, record).socket /\ record' = Removed(socket, record).record
  BY DEF Kick
<1>2. /\ SessionInv' /\ UNCHANGED <<stream, wire>> /\ session'[Server] = "closing"
      /\ session'[Node] = session[Node]
  BY <1>1, ServerClosingKeeps
<1>3. record'.ready = record.ready
  BY <1>1, DroppedFacts DEF Removed, SocksInv, ReplyInv
<1>4. TargetInv' /\ Answering'
  BY <1>1, <1>2, <1>3, TargetRests, AnsweringRests DEF SocksInv
<1>5. SocketInv'
  BY <1>1, <1>2, Removes DEF SocksInv, SocketInv, ServerKept
<1> QED BY <1>2, <1>4, <1>5 DEF SocksInv, SocketInv

LEMMA NodeSessionEnds ==
  ASSUME SessionInv, SocksInv, SessionEnds(Node)
  PROVE  SessionInv' /\ SocksInv'
<1>1. Node \in End /\ Other(Node) = Server /\ Server # Node
  BY SessionFacts
<1>2. Closes(Node) /\ tunnel' = Destroyed(tunnel) /\ UNCHANGED <<socket, record>>
  BY <1>1 DEF SessionEnds
<1>3. /\ SessionInv' /\ session'[Server] = session[Server] /\ stream'[Server] = stream[Server]
      /\ stream'[Node].state = (IF stream[Node].state = "idle" THEN "idle" ELSE "closed")
      /\ stream'[Node].got = stream[Node].got /\ stream'[Node].written = stream[Node].written
      /\ wire'[Node] = wire[Node]
  BY <1>1, <1>2, ClosingKeeps
<1>4. tunnel' \in Tunnel /\ tunnel'.in = tunnel.in /\ tunnel'.slot = FALSE
      /\ tunnel'.target = IF tunnel.target \in {"connecting", "open"} THEN "dead" ELSE tunnel.target
  BY <1>2, DestroyedFacts DEF SocksInv, TargetInv
<1>5. TargetInv'
  BY <1>3, <1>4 DEF SocksInv, TargetInv, Units1To
<1>6. Answering'
  BY <1>2, <1>3, <1>4, AnsweringRests DEF SocksInv
<1>7. SocketInv'
  BY <1>2, <1>3, ServerRests DEF SocksInv, SocketInv, ServerKept
<1> QED BY <1>3, <1>5, <1>6, <1>7 DEF SocksInv, SocketInv

LEMMA TunnelKeeps ==
  ASSUME SessionInv, SocksInv, TunnelNext
  PROVE  SessionInv' /\ SocksInv'
<1>1. CASE Refuse \/ Connect \/ TunnelTimeout \/ IdleTimeout \/ ApplicationSends \/ SocketCloses
  BY <1>1, RefuseKeeps, ConnectKeeps, TunnelTimeoutKeeps, IdleTimeoutKeeps, ApplicationSendsKeeps,
     SocketClosesKeeps
<1>2. CASE ServerReceives
  BY <1>2, OrphanReleasedKeeps, HandleTunnelReadyKeeps, HandleTunnelErrorKeeps, HandleTunnelDataKeeps,
     ServerMuxKeeps DEF ServerReceives
<1>3. CASE NodeReceives
  BY <1>3, HandleMuxTunnelKeeps, NodeHandlesDataKeeps, NodeHandlesResetKeeps, NodeMuxKeeps DEF NodeReceives
<1>4. CASE TargetConnects \/ FailTunnel \/ TargetSends \/ TargetDies \/ TargetClosed
  BY <1>4, TargetConnectsKeeps, FailTunnelKeeps, TargetSendsKeeps, TargetDiesKeeps, TargetClosedKeeps
<1>5. CASE Kick \/ SessionFails
  BY <1>5, KickKeeps, SessionFailsKeeps
<1>6. CASE \E e \in End : SessionEnds(e)
  <2>1. PICK e \in End : SessionEnds(e)
    BY <1>6
  <2>2. e = Server \/ e = Node
    BY DEF End
  <2> QED BY <2>1, <2>2, ServerSessionEnds, NodeSessionEnds
<1> QED BY <1>1, <1>2, <1>3, <1>4, <1>5, <1>6 DEF TunnelNext

----------------------------------------------------------------------------
(* What the invariant of the tunnel says.                                    *)
LEMMA SessionTypes == SessionInv => SessionTypeOK
<1> SUFFICES ASSUME SessionInv PROVE SessionTypeOK
  OBVIOUS
<1>1. \A e \in End : stream[e].registered => stream[e].state # "closed"
  BY SessionFacts DEF Proper
<1> QED BY <1>1 DEF SessionInv, SessionTypeOK, MuxTypeOK

LEMMA SocksTypes == SessionInv /\ SocksInv => TunnelTypeOK
BY SessionTypes DEF SocksInv, ReplyInv, TargetInv, TunnelTypeOK

LEMMA SocksReplies ==
  ASSUME SocksInv
  PROVE  OneReplyUntilRemoved
<1> DEFINE out == socket.out
<1>1. out \in Seq(Item) /\ Len(out) \in Nat
  <2>1. out \in Seq(Item)
    BY DEF SocksInv, ReplyInv, Socket
  <2> HIDE DEF out
  <2> QED BY <2>1
<1> SUFFICES ASSUME NEW i \in 1..Len(out)
             PROVE  ReplyThenData(i) \/ (i = Len(out) /\ out[i] = Reply(UNREACHABLE) /\ session[Server] # "open")
  BY DEF OneReplyUntilRemoved
<1>2. CASE ~record.ready
  <2>1. out = << >> \/ (Len(out) = 1 /\ out[1].kind = "reply")
    BY <1>2 DEF SocksInv, ReplyInv, Unanswered
  <2>2. Len(out) = 1 /\ out[1].kind = "reply"
    BY <1>1, <2>1
  <2> QED BY <1>1, <2>2 DEF ReplyThenData
<1>3. CASE record.ready
  <2>1. PICK d \in 0..Len(stream[Server].got) : Relaying(d)
    BY <1>3 DEF SocksInv, ReplyInv
  <2>2. out[1] = Reply(GRANTED) /\ Reply(GRANTED).kind = "reply" /\ d \in Nat
    BY <1>3, ReplyIs DEF SocksInv, ReplyInv
  <2>3. /\ \A j \in 2..(d + 1) : out[j] = DataItem(j - 1)
        /\ Len(out) = d + 1 \/ (Len(out) = d + 2 /\ out[d + 2] = Reply(UNREACHABLE) /\ session[Server] # "open")
    BY <2>1 DEF Relaying
  <2> HIDE DEF out
  <2>4. CASE i = 1
    BY <2>2, <2>4 DEF ReplyThenData, out
  <2>5. CASE i \in 2..(d + 1)
    <3>1. out[i] = DataItem(i - 1) /\ i - 1 \in Nat
      BY <2>3, <2>5
    <3>2. out[i].kind = "data"
      BY <3>1, DataItemIs
    <3> QED BY <2>2, <2>5, <3>2 DEF ReplyThenData, out
  <2>6. CASE i = d + 2
    BY <1>1, <2>2, <2>3, <2>6
  <2> QED BY <1>1, <2>2, <2>3, <2>4, <2>5, <2>6
<1> QED BY <1>2, <1>3

LEMMA SocksRelays ==
  ASSUME SessionInv, SocksInv
  PROVE  FaithfulRelay
<1> DEFINE out == socket.out
           data == {j \in 1..Len(out) : out[j].kind = "data"}
<1>1. out \in Seq(Item) /\ Len(out) \in Nat
  <2>1. out \in Seq(Item)
    BY DEF SocksInv, ReplyInv, Socket
  <2> HIDE DEF out
  <2> QED BY <2>1
<1>2. \A e \in End : /\ Sent(stream[e]) <= stream[e].written /\ stream[e].written \in Nat
                     /\ Sent(stream[e]) \in Nat
  <2>1. ASSUME NEW e \in End
        PROVE  /\ Sent(stream[e]) <= stream[e].written /\ stream[e].written \in Nat /\ Sent(stream[e]) \in Nat
    <3> DEFINE s == stream[e]
    <3>1. s \in StreamRecord /\ Sending(s)
      BY SessionFacts DEF Proper
    <3> HIDE DEF s
    <3>2. Sent(s) \in Nat /\ Len(s.bufferedData) \in Nat /\ s.written \in Nat
      BY <3>1, SentIs
    <3>3. Sent(s) <= s.written
      BY <3>2 DEF Sent
    <3> QED BY <3>2, <3>3 DEF s
  <2> QED BY <2>1
<1>3. /\ Server \in End /\ Node \in End
      /\ Len(stream[Node].got) <= Sent(stream[Server]) /\ Len(stream[Server].got) <= Sent(stream[Node])
      /\ Len(stream[Node].got) \in Nat /\ Len(stream[Server].got) \in Nat
  BY SessionFacts DEF SessionInv, Carrying
<1>4. Units1To(tunnel.in) /\ Len(tunnel.in) <= stream[Server].written
  <2>1. Units1To(tunnel.in) /\ Len(tunnel.in) <= Len(stream[Node].got) /\ Len(tunnel.in) \in Nat
    BY TargetFacts DEF SocksInv, TargetInv
  <2> QED BY <1>2, <1>3, <2>1
<1>5. ASSUME NEW i \in data
      PROVE  out[i].n = Cardinality(DataUpTo(i)) /\ out[i].n <= stream[Node].written
  <2>0. i \in 1..Len(out) /\ out[i].kind = "data"
    OBVIOUS
  <2> HIDE DEF data
  <2>1. CASE ~record.ready
    <3>1. out = << >> \/ (Len(out) = 1 /\ out[1].kind = "reply")
      BY <2>1 DEF SocksInv, ReplyInv, Unanswered
    <3> QED BY <1>1, <2>0, <3>1
  <2>2. CASE record.ready
    <3>1. PICK d \in 0..Len(stream[Server].got) : Relaying(d)
      BY <2>2 DEF SocksInv, ReplyInv
    <3>2. out[1] = Reply(GRANTED) /\ d \in Nat /\ d <= Len(stream[Server].got)
      BY <1>3, <2>2, <3>1 DEF SocksInv, ReplyInv
    <3>3. /\ \A j \in 2..(d + 1) : out[j] = DataItem(j - 1)
          /\ Len(out) = d + 1 \/ (Len(out) = d + 2 /\ out[d + 2] = Reply(UNREACHABLE))
      BY <3>1 DEF Relaying
    <3> HIDE DEF out
    <3>4. out[1].kind = "reply" /\ \A j \in 2..(d + 1) : out[j].kind = "data" /\ out[j].n = j - 1
      <4>1. \A j \in 2..(d + 1) : j - 1 \in Nat
        OBVIOUS
      <4> QED BY <3>2, <3>3, <4>1, ReplyIs, DataItemIs
    <3>5. i \in 2..(d + 1)
      <4>1. i # 1
        BY <2>0, <3>4
      <4>2. i # d + 2 \/ Len(out) = d + 1
        BY <2>0, <3>3, ReplyIs
      <4> QED BY <1>1, <2>0, <3>2, <3>3, <4>1, <4>2
    <3>6. DataUpTo(i) = 2..i
      <4>1. \A j \in 1..i : out[j].kind = "data" <=> j # 1
        <5>1. ASSUME NEW j \in 1..i, j # 1 PROVE j \in 2..(d + 1)
          BY <3>2, <3>5, <5>1
        <5> QED BY <3>4, <5>1
      <4>2. DataUpTo(i) = {j \in 1..i : out[j].kind = "data"}
        BY DEF DataUpTo, out
      <4>3. i \in Nat
        BY <3>5
      <4> QED BY <4>1, <4>2, <4>3
    <3>7. Cardinality(2..i) = i - 1
      <4>1. i \in Int /\ 2 \in Int /\ 2 <= i
        BY <3>5, <3>2
      <4>2. Cardinality(2..i) = (IF 2 > i THEN 0 ELSE i - 2 + 1)
        BY <4>1, FS_Interval
      <4> QED BY <4>1, <4>2
    <3>8. out[i].n = i - 1 /\ i - 1 <= d
      BY <3>2, <3>4, <3>5
    <3>9. out[i].n <= stream[Node].written
      BY <1>2, <1>3, <3>2, <3>5, <3>8
    <3> QED BY <3>6, <3>7, <3>8, <3>9
  <2> QED BY <2>1, <2>2
<1>6. DataUpTo(Len(socket.out)) = data
  BY DEF DataUpTo
<1> HIDE DEF data
<1>7. \A i \in DataUpTo(Len(socket.out)) :
        socket.out[i].n = Cardinality(DataUpTo(i)) /\ socket.out[i].n <= stream[Node].written
  BY <1>5, <1>6
<1> QED BY <1>4, <1>7 DEF FaithfulRelay

----------------------------------------------------------------------------
(* The HTTP request, step by step: what the calls send.                      *)
Counted(s) == (\A i \in 1..Len(s) : s[i] = i)

LEMMA CountedIs ==
  ASSUME NEW s \in Seq(Nat), Counted(s)
  PROVE  s = Numbered(0, Len(s))
<1>1. Len(s) \in Nat /\ s = [i \in 1..Len(s) |-> s[i]]
  OBVIOUS
<1>2. Numbered(0, Len(s)) = [i \in 1..Len(s) |-> i]
  BY <1>1 DEF Numbered
<1> QED BY <1>1, <1>2 DEF Counted

LEMMA NothingNumbered == Numbered(0, 0) = << >>
<1>1. << >> \in Seq(Nat) /\ Len(<< >>) = 0 /\ Counted(<< >>)
  BY DEF Counted
<1> QED BY <1>1, CountedIs

LEMMA EndsJoined ==
  ASSUME NEW w \in Seq(Frame), NEW v \in Seq(Frame), NEW i \in 1..Len(w \o v)
  PROVE  \/ i \in 1..Len(w) /\ (w \o v)[i] = w[i]
         \/ i - Len(w) \in 1..Len(v) /\ (w \o v)[i] = v[i - Len(w)]
<1> DEFINE z == w \o v
<1>1. /\ \A j \in 1..Len(w) : z[j] = w[j]
      /\ \A j \in 1..Len(z) : j \in 1..Len(w) \/ (j - Len(w) \in 1..Len(v) /\ z[j] = v[j - Len(w)])
  BY Joins
<1>2. i \in 1..Len(z)
  OBVIOUS
<1> HIDE DEF z
<1>3. \/ i \in 1..Len(w) /\ z[i] = w[i]
      \/ i - Len(w) \in 1..Len(v) /\ z[i] = v[i - Len(w)]
  BY <1>1, <1>2
<1> QED BY <1>3 DEF z

LEMMA NothingToSend ==
  ASSUME NEW s, Proper(s), s.sendWindow >= 0, NEW fin \in BOOLEAN
  PROVE  SendData(s, 0, fin).stream.sendWindow = s.sendWindow
<1> DEFINE q == SendData(s, 0, fin)
           k == Fits(s, 0)
           later == Numbered(s.written + k, s.written + 0)
           ends == k = 0 /\ fin
           t == [s EXCEPT !.sendWindow = @ - k, !.bufferedData = @ \o later, !.written = @ + 0,
                          !.state = IF ends THEN "half_closed_local" ELSE @]
           out == <<Data(0, fin)>>
<1>1. s \in StreamRecord /\ s.sendWindow \in Int
  BY DEF Proper, StreamRecord
<1>2. k = 0
  BY <1>1 DEF Fits
<1> HIDE DEF k
<1>3. q = Result(s, << >>) \/ q = Result(t, out)
  BY DEF SendData, Unchanged, k
<1>4. t.sendWindow = s.sendWindow - k
  BY <1>1 DEF StreamRecord
<1>5. t.sendWindow = s.sendWindow
  BY <1>1, <1>2, <1>4
<1> HIDE DEF q, t, out
<1>6. q.stream = s \/ q.stream = t
  BY <1>3, ResultIs
<1> QED BY <1>5, <1>6 DEF q

(* The node's whole response, sent in one go.                                *)
HeadersAndBody(s, units) ==
  Joint(SendHeaders(s, RESPONSE, FALSE), SendData(SendHeaders(s, RESPONSE, FALSE).stream, units, TRUE))
Responding(s, units) == Joint(HeadersAndBody(s, units), Close(HeadersAndBody(s, units).stream))

LEMMA RespondingIs ==
  \A s, units : SendResponse(s, units) = Responding(s, units)
<1> SUFFICES ASSUME NEW s, NEW units PROVE SendResponse(s, units) = Responding(s, units)
  OBVIOUS
<1> QED BY DEF After, Responding, HeadersAndBody, SendResponse, Joint

(* The end of a frame, if it has one, is that of the whole response.         *)
EndsWith(w, n) == \A i \in 1..Len(w) : w[i].fin => w[i].type = "DATA" /\ w[i].n = n
OnlyData(w) == \A i \in 1..Len(w) : w[i].fin => w[i].type = "DATA"

LEMMA EndsWithJoined ==
  ASSUME NEW w \in Seq(Frame), NEW v \in Seq(Frame), NEW n
  PROVE  /\ EndsWith(w, n) /\ EndsWith(v, n) => EndsWith(w \o v, n)
         /\ OnlyData(w) /\ OnlyData(v) => OnlyData(w \o v)
         /\ NoEnd(w) /\ NoEnd(v) => NoEnd(w \o v)
         /\ NoEnd(w) => EndsWith(w, n) /\ OnlyData(w)
<1> DEFINE z == w \o v
<1>1. \A i \in 1..Len(z) : \/ i \in 1..Len(w) /\ z[i] = w[i]
                           \/ i - Len(w) \in 1..Len(v) /\ z[i] = v[i - Len(w)]
  BY EndsJoined
<1> HIDE DEF z
<1>2. EndsWith(w, n) /\ EndsWith(v, n) => EndsWith(z, n)
  BY <1>1 DEF EndsWith
<1>3. OnlyData(w) /\ OnlyData(v) => OnlyData(z)
  BY <1>1 DEF OnlyData
<1>4. NoEnd(w) /\ NoEnd(v) => NoEnd(z)
  BY <1>1 DEF NoEnd
<1>5. NoEnd(w) => EndsWith(w, n) /\ OnlyData(w)
  BY DEF NoEnd, EndsWith, OnlyData
<1> QED BY <1>2, <1>3, <1>4, <1>5 DEF z

(* A response on a stream that is closed is not sent.                        *)
LEMMA SilentResponse ==
  ASSUME NEW s, s.state = "closed", NEW units
  PROVE  Responding(s, units) = Result(s, << >>)
<1> DEFINE h == SendHeaders(s, RESPONSE, FALSE)
           b == SendData(s, units, TRUE)
           c == Close(s)
<1>1. h = Result(s, << >>) /\ b = Result(s, << >>) /\ c = Result(s, << >>)
  BY DEF SendHeaders, SendData, Close, Unchanged
<1> HIDE DEF h, b, c
<1>2. h.stream = s /\ h.out = << >> /\ b.stream = s /\ b.out = << >> /\ c.stream = s /\ c.out = << >>
  BY <1>1, ResultIs
<1>5. << >> \o << >> = << >>
  OBVIOUS
<1> DEFINE j == HeadersAndBody(s, units)
<1>6. j = Result(s, << >>)
  BY <1>2, <1>5 DEF HeadersAndBody, Joint, h, b
<1> HIDE DEF j
<1>7. j.stream = s /\ j.out = << >>
  BY <1>6, ResultIs
<1> QED BY <1>2, <1>5, <1>7 DEF Responding, Joint, j, c

LEMMA RespondingFacts ==
  ASSUME NEW s, Proper(s), s.state # "idle", NEW units \in Nat
  PROVE  LET q == Responding(s, units) IN
         /\ q = Result(q.stream, q.out) /\ Emits(s, q) /\ q.stream.got = s.got
         /\ First(q.out, RESPONSE) /\ OnlyData(q.out)
         /\ \/ q.stream.written = s.written /\ q.stream.sendWindow = s.sendWindow
            \/ /\ q.stream.written = s.written + units /\ Said(q.out, RESPONSE)
               /\ units = 0 /\ s.sendWindow >= 0 => q.stream.sendWindow = s.sendWindow
         /\ s.written = 0 /\ units <= s.sendWindow => EndsWith(q.out, units)
<1>0. RESPONSE \in Nat
  BY DEF RESPONSE
<1>1. CASE s.state = "closed"
  <2> DEFINE q == Responding(s, units)
  <2>1. q = Result(s, << >>)
    BY <1>1, SilentResponse
  <2> HIDE DEF q
  <2>2. q.stream = s /\ q.out = << >>
    BY <2>1, ResultIs
  <2>3. First(<< >>, RESPONSE) /\ OnlyData(<< >>) /\ EndsWith(<< >>, units)
    BY DEF First, OnlyData, EndsWith
  <2>4. Emits(s, q)
    BY <2>1, UnchangedEmits DEF Unchanged
  <2> QED BY <2>1, <2>2, <2>3, <2>4 DEF q
<1>2. CASE s.state # "closed"
  <2> DEFINE h == SendHeaders(s, RESPONSE, FALSE)
             b == SendData(h.stream, units, TRUE)
             j == Joint(h, b)
             c == Close(j.stream)
             q == Joint(j, c)
  <2>1. q = Responding(s, units)
    BY DEF Responding, HeadersAndBody
  <2>2. /\ Emits(s, h) /\ h.stream.got = s.got /\ h.stream.written = s.written
        /\ h.stream.sendWindow = s.sendWindow /\ h.stream.state = "open"
        /\ Said(h.out, RESPONSE) /\ First(h.out, RESPONSE) /\ NoEnd(h.out)
    BY <1>0, <1>2, AnnounceFacts
  <2>3. Proper(h.stream) /\ Sends(s, h) /\ h.out \in Seq(Frame) /\ h.stream.sendWindow \in Int
        /\ h.stream.written \in Nat
    BY <2>2 DEF Emits, Sends, Proper, StreamRecord
  <2> HIDE DEF h
  <2>4. /\ Emits(h.stream, b) /\ b.stream.got = h.stream.got /\ b.stream.written = h.stream.written + units
        /\ b.stream.state = (IF Fits(h.stream, units) = units THEN "half_closed_local" ELSE "open")
        /\ \A i \in 1..Len(b.out) :
             /\ b.out[i].type = "DATA"
             /\ b.out[i].fin => /\ Fits(h.stream, units) = units
                                /\ b.out[i].n = IF units = 0 THEN 0 ELSE h.stream.written + units
    <3>1. b = Body(h.stream, units)
      BY DEF Body
    <3> HIDE DEF b
    <3>2. IsBody(h.stream, units, b)
      BY <2>2, <2>3, <3>1, BodyFacts
    <3> QED BY <3>2 DEF IsBody
  <2>5. units = 0 /\ h.stream.sendWindow >= 0 => b.stream.sendWindow = h.stream.sendWindow
    BY <2>3, NothingToSend
  <2>6. units <= h.stream.sendWindow => Fits(h.stream, units) = units
    BY DEF Fits
  <2>7. Sends(h.stream, b) /\ b.out \in Seq(Frame) /\ b.stream.state # "idle" /\ Proper(b.stream)
    BY <2>4 DEF Emits, Sends
  <2>8. OnlyData(b.out)
    BY <2>4 DEF OnlyData
  <2>9. h.stream.written = 0 => EndsWith(b.out, units)
    <3> HIDE DEF b
    <3>1. ASSUME h.stream.written = 0, NEW i \in 1..Len(b.out), b.out[i].fin
          PROVE  b.out[i].type = "DATA" /\ b.out[i].n = units
      BY <2>4, <3>1
    <3> QED BY <3>1 DEF EndsWith
  <2> HIDE DEF b
  <2>10. /\ j.out = h.out \o b.out /\ j.stream = b.stream /\ j.out \in Seq(Frame)
         /\ Emits(s, h) => Emits(s, j)
    BY <2>3, <2>4, JointIs, SendsAfter
  <2> HIDE DEF j
  <2>11. Sends(s, j) /\ Proper(j.stream) /\ j.stream.state # "idle"
    BY <2>2, <2>10, <2>7 DEF Emits
  <2>12. /\ c = Result(c.stream, c.out) /\ Emits(j.stream, c) /\ NoUnit(c.out)
         /\ c.stream.written = j.stream.written /\ c.stream.got = j.stream.got
         /\ c.stream.sendWindow = j.stream.sendWindow
         /\ j.stream.state # "open" => c.out = << >>
         /\ j.stream.state = "open" => c.out = <<Data(0, TRUE)>>
    BY <2>11, CloseFacts
  <2>13. c.out \in Seq(Frame)
    BY <2>12 DEF Emits, Sends
  <2>14. OnlyData(c.out) /\ (j.stream.state # "open" => EndsWith(c.out, units))
    <3> DEFINE d == Data(0, TRUE)
    <3>1. d.type = "DATA"
      BY DataIs
    <3>2. c.out = << >> \/ c.out = <<d>>
      BY <2>12
    <3> HIDE DEF d, c
    <3>3. \A i \in 1..Len(<<d>>) : <<d>>[i] = d
      OBVIOUS
    <3> QED BY <2>12, <3>1, <3>2, <3>3 DEF OnlyData, EndsWith, c
  <2> HIDE DEF c
  <2>15. /\ q.out = j.out \o c.out /\ q.stream = c.stream /\ (Emits(s, j) => Emits(s, q))
         /\ q = Result(q.stream, q.out)
    <3>1. q.out = j.out \o c.out /\ q.stream = c.stream
      BY JointIs
    <3>2. (Emits(s, j) => Emits(s, q)) /\ q = Result(q.stream, q.out)
      BY <2>11, <2>12, SendsAfter
    <3> QED BY <3>1, <3>2
  <2> HIDE DEF q
  <2>16. First(j.out, RESPONSE) /\ Said(j.out, RESPONSE)
    BY <2>2, <2>3, <2>7, <2>10, FirstAppended
  <2>17. First(q.out, RESPONSE) /\ Said(q.out, RESPONSE)
    <3> DEFINE x == j.out
               y == c.out
    <3>1. x \in Seq(Frame) /\ y \in Seq(Frame) /\ First(x, RESPONSE) /\ Said(x, RESPONSE) /\ q.out = x \o y
      BY <2>10, <2>13, <2>15, <2>16
    <3> HIDE DEF x, y
    <3> QED BY <3>1, FirstAppended
  <2>18. OnlyData(h.out) /\ EndsWith(h.out, units)
    BY <2>2, <2>3, EndsWithJoined
  <2>19. OnlyData(j.out) /\ (h.stream.written = 0 => EndsWith(j.out, units))
    BY <2>3, <2>7, <2>8, <2>9, <2>10, <2>18, EndsWithJoined
  <2>20. OnlyData(q.out)
    BY <2>10, <2>13, <2>14, <2>15, <2>19, EndsWithJoined
  <2>21. s.written = 0 /\ units <= s.sendWindow => EndsWith(q.out, units)
    <3> SUFFICES ASSUME s.written = 0, units <= s.sendWindow PROVE EndsWith(q.out, units)
      OBVIOUS
    <3>1. j.stream.state # "open" /\ h.stream.written = 0
      BY <2>2, <2>4, <2>6, <2>10
    <3> QED BY <2>10, <2>13, <2>14, <2>15, <2>19, <3>1, EndsWithJoined
  <2>22. q.stream.got = s.got /\ q.stream.written = s.written + units
         /\ (units = 0 /\ s.sendWindow >= 0 => q.stream.sendWindow = s.sendWindow)
    BY <2>2, <2>4, <2>5, <2>10, <2>12, <2>15
  <2>23. Emits(s, q)
    BY <2>2, <2>10, <2>15
  <2> QED BY <2>1, <2>15, <2>17, <2>20, <2>21, <2>22, <2>23
<1> QED BY <1>1, <1>2

(* The record of the exchange.                                               *)
Keeps(x, y) == x.size = y.size /\ x.chunks = y.chunks /\ x.forwarded = y.forwarded /\ x.body = y.body

LEMMA SettledFacts ==
  ASSUME NEW x \in Exchange
  PROVE  /\ Settled(x) \in Exchange /\ Keeps(x, Settled(x)) /\ Settled(x).stage = x.stage
         /\ Settled(x).answers = x.answers /\ Settled(x).pending = FALSE /\ Settled(x).timer = FALSE
BY DEF Settled, Exchange, Keeps

LEMMA AnswerFacts ==
  ASSUME NEW x \in Exchange, x.answers <= 1
  PROVE  /\ Answer(x) \in Exchange /\ Keeps(x, Answer(x)) /\ Answer(x).stage = x.stage
         /\ Answer(x).answers = 1 /\ Answer(x).pending = x.pending /\ Answer(x).timer = x.timer
<1>1. CASE x.answers > 0
  <2>1. Answer(x) = x
    BY <1>1 DEF Answer, Answered
  <2> QED BY <1>1, <2>1 DEF Exchange, Keeps
<1>2. CASE ~(x.answers > 0)
  <2>1. Answer(x) = [x EXCEPT !.answers = 1]
    BY <1>2 DEF Answer, Answered
  <2> QED BY <2>1 DEF Exchange, Keeps
<1> QED BY <1>1, <1>2

LEMMA KeepsTwice ==
  \A x, y, z : Keeps(x, y) /\ Keeps(y, z) => Keeps(x, z)
BY DEF Keeps

LEMMA GivenUpFacts ==
  ASSUME NEW x \in Exchange, x.answers <= 1
  PROVE  LET y == Settled(Answer(x)) IN
         /\ y \in Exchange /\ Keeps(x, y) /\ y.stage = x.stage
         /\ y.answers = 1 /\ y.pending = FALSE /\ y.timer = FALSE
<1>1. Answer(x) \in Exchange /\ Keeps(x, Answer(x)) /\ Answer(x).stage = x.stage /\ Answer(x).answers = 1
  BY AnswerFacts
<1> DEFINE a == Answer(x)
<1> HIDE DEF a
<1>2. a \in Exchange /\ Keeps(x, a) /\ a.stage = x.stage /\ a.answers = 1
  BY <1>1 DEF a
<1>3. /\ Settled(a) \in Exchange /\ Keeps(a, Settled(a)) /\ Settled(a).stage = a.stage
      /\ Settled(a).answers = a.answers /\ Settled(a).pending = FALSE /\ Settled(a).timer = FALSE
  BY <1>2, SettledFacts
<1>4. Keeps(x, Settled(a))
  BY <1>2, <1>3, KeepsTwice
<1> QED BY <1>2, <1>3, <1>4 DEF a

LEMMA FailedFacts ==
  ASSUME NEW x \in Exchange, x.answers <= 1
  PROVE  LET y == Failed(x) IN
         /\ y \in Exchange /\ Keeps(x, y) /\ y.stage = x.stage /\ y.answers <= 1
         /\ x.stage = "none" => y = x
         /\ ~x.pending => ~y.pending
         /\ ~x.timer => ~y.timer
<1>0. x.answers \in Nat
  BY DEF Exchange
<1>1. CASE x.stage = "request"
  <2>1. Failed(x) = Settled(Answer(x))
    BY <1>1 DEF Failed
  <2> DEFINE y == Settled(Answer(x))
  <2>2. /\ y \in Exchange /\ Keeps(x, y) /\ y.stage = x.stage
        /\ y.answers = 1 /\ y.pending = FALSE /\ y.timer = FALSE
    BY GivenUpFacts
  <2> HIDE DEF y
  <2>3. y.answers <= 1 /\ x.stage # "none"
    BY <1>1, <2>2
  <2>4. Failed(x) = y
    BY <2>1 DEF y
  <2> QED BY <2>2, <2>3, <2>4
<1>2. CASE x.stage = "response"
  <2>1. Failed(x) = Answer(x) /\ x.stage # "none"
    BY <1>2 DEF Failed
  <2>2. /\ Answer(x) \in Exchange /\ Keeps(x, Answer(x)) /\ Answer(x).stage = x.stage
        /\ Answer(x).answers = 1 /\ Answer(x).pending = x.pending /\ Answer(x).timer = x.timer
    BY AnswerFacts
  <2> QED BY <2>1, <2>2
<1>3. CASE x.stage \notin {"request", "response"}
  <2>1. Failed(x) = x
    BY <1>3 DEF Failed
  <2> QED BY <2>1 DEF Keeps
<1> QED BY <1>1, <1>2, <1>3

(* remove() settles what is pending, and leaves the rest.                    *)
LEMMA RequestRemovedFacts ==
  ASSUME NEW x \in Exchange, x.answers <= 1, x.timer => x.pending
  PROVE  LET y == RequestRemoved(x) IN
         /\ y \in Exchange /\ Keeps(x, y) /\ y.stage = x.stage /\ y.answers <= 1
         /\ ~y.pending /\ ~y.timer
         /\ ~x.pending => y = x
<1>1. CASE x.pending
  <2> DEFINE y == Settled(Answer(x))
  <2>1. RequestRemoved(x) = y
    BY <1>1 DEF RequestRemoved
  <2>2. /\ y \in Exchange /\ Keeps(x, y) /\ y.stage = x.stage
        /\ y.answers = 1 /\ y.pending = FALSE /\ y.timer = FALSE
    BY GivenUpFacts
  <2> HIDE DEF y
  <2> QED BY <1>1, <2>1, <2>2
<1>2. CASE ~x.pending
  <2>1. RequestRemoved(x) = x
    BY <1>2 DEF RequestRemoved
  <2> QED BY <1>2, <2>1 DEF Keeps
<1> QED BY <1>1, <1>2

----------------------------------------------------------------------------
(* What a step leaves alone.                                                 *)
LEMMA ExchangeRests ==
  ASSUME ExchangeInv, exchange' = exchange, stream'[Server].state = "idle" => stream[Server].state = "idle"
  PROVE  ExchangeInv'
BY DEF ExchangeInv

(* The request is no longer pending.                                         *)
LEMMA ExchangeGivenUp ==
  ASSUME ExchangeInv, exchange' \in Exchange, exchange'.answers <= 1, ~exchange'.pending, ~exchange'.timer,
         Keeps(exchange, exchange'), exchange.stage = "none" => exchange' = exchange,
         exchange'.stage = "none" => exchange.stage = "none",
         stream'[Server].state = "idle" => stream[Server].state = "idle"
  PROVE  ExchangeInv'
BY DEF ExchangeInv, Keeps

(* The frames that end something are not new.                                *)
FromWire(w, v) == \A i \in 1..Len(v) : v[i].fin => \E j \in 1..Len(w) : v[i] = w[j]

LEMMA FromWireFacts ==
  ASSUME NEW w \in Seq(Frame)
  PROVE  /\ FromWire(w, w) /\ FromWire(w, << >>)
         /\ w # << >> => FromWire(w, Tail(w))
         /\ \A v \in Seq(Frame) : NoEnd(v) => FromWire(w, w \o v)
<1>1. FromWire(w, w) /\ FromWire(w, << >>)
  BY DEF FromWire
<1>2. ASSUME w # << >> PROVE FromWire(w, Tail(w))
  BY <1>2, TheTail DEF FromWire
<1>3. ASSUME NEW v \in Seq(Frame), NoEnd(v) PROVE FromWire(w, w \o v)
  <2> DEFINE z == w \o v
  <2>1. \A i \in 1..Len(z) : \/ i \in 1..Len(w) /\ z[i] = w[i]
                             \/ i - Len(w) \in 1..Len(v) /\ z[i] = v[i - Len(w)]
    BY EndsJoined
  <2> HIDE DEF z
  <2>2. FromWire(w, z)
    BY <1>3, <2>1 DEF FromWire, NoEnd
  <2> QED BY <2>2 DEF z
<1> QED BY <1>1, <1>2, <1>3

LEMMA RequestRests ==
  ASSUME RequestInv, execution' = execution, exchange'.size = exchange.size,
         FromWire(wire[Server], wire'[Server]), stream'[Node].state = "idle" => stream[Node].state = "idle",
         session'[Node] = session[Node],
         stream'[Server].state = "idle" => stream[Server].state = "idle" /\ stream'[Server].written = stream[Server].written
  PROVE  RequestInv'
BY DEF RequestInv, FromWire

LEMMA ResponseRests ==
  ASSUME ResponseInv, execution' = execution, exchange'.forwarded = exchange.forwarded,
         exchange'.body = exchange.body, FromWire(wire[Node], wire'[Node]),
         stream'[Node].written = stream[Node].written,
         stream[Node].written = 0 => stream'[Node].sendWindow >= Window
  PROVE  ResponseInv'
BY DEF ResponseInv, FromWire

LEMMA CollectingRests ==
  ASSUME Collecting, exchange'.chunks = exchange.chunks,
         exchange'.stage = exchange.stage /\ (exchange.stage = "response" => exchange'.answers = exchange.answers),
         stream'[Server].registered => stream[Server].registered, stream'[Server].got = stream[Server].got,
         wire'[Node] = wire[Node], stream'[Node].written = stream[Node].written
  PROVE  Collecting'
BY DEF Collecting, AnswerFirst, First, Said, Announces, Known

LEMMA ServerHandledFacts ==
  ASSUME SessionInv, Arrives(Server)
  PROVE  LET q == Handled(Server) IN
         /\ NoEnd(q.out)
         /\ Known(Server) /\ FrameAt(Server).type = "DATA" /\ FrameAt(Server).fin =>
              q.stream.state = "half_closed_remote"
<1>1. Proper(stream[Server]) /\ Server \in End /\ FrameAt(Server) \in Frame
  BY SessionFacts, HandledIs
<1> DEFINE s == stream[Server]
           f == FrameAt(Server)
<1>2. Handled(Server) = HandleFrame(Server, s, f) /\ Known(Server) = s.registered
  BY DEF Handled, Known
<1>3. Proper(s) /\ f \in Frame
  BY <1>1
<1> HIDE DEF s, f
<1>4. LET q == HandleFrame(Server, s, f) IN
       /\ q.stream.written = s.written /\ NoEnd(q.out)
       /\ s.written = 0 => q.stream.sendWindow >= s.sendWindow
       /\ s.registered /\ f.type # "RST_STREAM" => q.stream.registered
       /\ s.registered /\ f.type = "DATA" /\ f.fin => q.stream.state = "half_closed_remote"
  BY <1>1, <1>3, HandleFacts
<1> QED BY <1>2, <1>4, Zenon DEF s, f

(* A frame reaches the server, in whatever stage the request is.             *)
LEMMA ServerGets ==
  ASSUME SessionInv, HttpInv, Arrives(Server), Handles(Server, Handled(Server)), UNCHANGED session,
         execution' = execution, exchange'.size = exchange.size
  PROVE  /\ SessionInv' /\ RequestInv'
         /\ exchange'.forwarded = exchange.forwarded /\ exchange'.body = exchange.body => ResponseInv'
         /\ wire'[Node] = Tail(wire[Node]) /\ stream'[Node] = stream[Node]
         /\ stream[Server].state # "idle" /\ stream'[Server].state # "idle"
         /\ stream'[Server].registered => stream[Server].registered
         /\ stream'[Server].got = IF Known(Server) /\ IsUnit(FrameAt(Server))
                                    THEN Append(stream[Server].got, FrameAt(Server).n) ELSE stream[Server].got
<1>1. Server \in End /\ Other(Server) = Node /\ Server # Node
  BY SessionFacts
<1> DEFINE q == Handled(Server)
<1>2. /\ q.stream.state # "idle" /\ stream[Server].state # "idle" /\ Sends(stream[Server], q)
      /\ q.stream.got = IF Known(Server) /\ IsUnit(FrameAt(Server))
                          THEN Append(stream[Server].got, FrameAt(Server).n) ELSE stream[Server].got
      /\ ~Known(Server) => ~q.stream.registered
  BY <1>1, HandledIs
<1>3. /\ SessionInv' /\ Appends(Server, q) /\ wire'[Node] = Tail(wire[Node]) /\ stream'[Node] = stream[Node]
      /\ stream'[Server] = q.stream
  BY <1>1, HandledKeeps
<1>4. NoEnd(q.out) /\ q.out \in Seq(Frame)
  BY <1>2, ServerHandledFacts DEF Sends
<1> HIDE DEF q
<1>5. FromWire(wire[Server], wire'[Server])
  <2>1. Outgoing(Server, q) \in Seq(Frame) /\ NoEnd(Outgoing(Server, q))
    <3>1. /\ Outgoing(Server, q) \in Seq(Frame)
          /\ session[Server] = "open" => Outgoing(Server, q) = q.out
          /\ session[Server] # "open" => Outgoing(Server, q) = << >>
      BY <1>4, SentOut
    <3> QED BY <1>4, <3>1, NothingSent
  <2>2. wire'[Server] = wire[Server] \o Outgoing(Server, q) /\ wire[Server] \in Seq(Frame)
    BY <1>1, <1>3, SessionFacts DEF Appends
  <2> QED BY <2>1, <2>2, FromWireFacts
<1>6. FromWire(wire[Node], wire'[Node])
  <2>1. wire[Node] \in Seq(Frame) /\ wire[Node] # << >>
    BY <1>1, SessionFacts DEF Arrives
  <2> QED BY <1>3, <2>1, FromWireFacts
<1>7. RequestInv'
  BY <1>2, <1>3, <1>5, RequestRests DEF HttpInv
<1>8. ASSUME exchange'.forwarded = exchange.forwarded /\ exchange'.body = exchange.body
      PROVE  ResponseInv'
  BY <1>3, <1>6, <1>8, ResponseRests DEF HttpInv, ResponseInv
<1> QED BY <1>2, <1>3, <1>7, <1>8 DEF Known

(* The same when the handler makes a call that ends nothing.                 *)
LEMMA ServerGetsThen ==
  ASSUME SessionInv, HttpInv, Arrives(Server), NEW c, Emits(Handled(Server).stream, c),
         c.stream.got = Handled(Server).stream.got, Quiet(c.out), NoEnd(c.out),
         Handles(Server, Joint(Handled(Server), c)), UNCHANGED session,
         execution' = execution, exchange'.size = exchange.size
  PROVE  /\ SessionInv' /\ RequestInv'
         /\ exchange'.forwarded = exchange.forwarded /\ exchange'.body = exchange.body => ResponseInv'
         /\ wire'[Node] = Tail(wire[Node]) /\ stream'[Node] = stream[Node] /\ stream'[Server] = c.stream
         /\ FromWire(wire[Node], wire'[Node])
         /\ stream[Server].state # "idle" /\ stream'[Server].state # "idle"
<1> DEFINE h == Handled(Server)
           q == Joint(h, c)
<1>1. Server \in End /\ Other(Server) = Node /\ Server # Node
  BY SessionFacts
<1>2. /\ Sends(stream[Server], h) /\ h.stream.state # "idle" /\ stream[Server].state # "idle"
      /\ Proper(h.stream) /\ NoEnd(h.out)
  BY <1>1, HandledIs, ServerHandledFacts DEF Sends
<1>3. c.stream.state # "idle"
  BY DEF Emits
<1>4. Handles(Server, q)
  OBVIOUS
<1> HIDE DEF q
<1>5. /\ SessionInv' /\ Appends(Server, q) /\ wire'[Node] = Tail(wire[Node])
      /\ stream'[Server] = c.stream /\ stream'[Node] = stream[Node]
      /\ q.out = h.out \o c.out /\ q.out \in Seq(Frame)
  BY <1>1, <1>4, HandledThenKeeps DEF q
<1>6. FromWire(wire[Server], wire'[Server])
  <2>1. h.out \in Seq(Frame) /\ c.out \in Seq(Frame)
    BY <1>2 DEF Sends, Emits
  <2> DEFINE u == h.out
             v == c.out
  <2>2. u \in Seq(Frame) /\ v \in Seq(Frame) /\ NoEnd(u) /\ NoEnd(v) /\ q.out = u \o v
    BY <1>2, <1>5, <2>1
  <2> HIDE DEF u, v
  <2>3. NoEnd(q.out)
    <3>1. \A n \in {0} : NoEnd(u \o v)
      BY <2>2, EndsWithJoined
    <3> QED BY <2>2, <3>1
  <2>4. /\ Outgoing(Server, q) \in Seq(Frame)
        /\ session[Server] = "open" => Outgoing(Server, q) = q.out
        /\ session[Server] # "open" => Outgoing(Server, q) = << >>
    BY <1>5, SentOut
  <2>5. NoEnd(Outgoing(Server, q))
    BY <2>3, <2>4, NothingSent
  <2>6. wire'[Server] = wire[Server] \o Outgoing(Server, q) /\ wire[Server] \in Seq(Frame)
    BY <1>1, <1>5, SessionFacts DEF Appends
  <2> QED BY <2>4, <2>5, <2>6, FromWireFacts
<1>7. FromWire(wire[Node], wire'[Node])
  <2>1. wire[Node] \in Seq(Frame) /\ wire[Node] # << >>
    BY <1>1, SessionFacts DEF Arrives
  <2> QED BY <1>5, <2>1, FromWireFacts
<1>8. RequestInv'
  BY <1>2, <1>3, <1>5, <1>6, RequestRests DEF HttpInv
<1>9. ASSUME exchange'.forwarded = exchange.forwarded /\ exchange'.body = exchange.body
      PROVE  ResponseInv'
  BY <1>5, <1>7, <1>9, ResponseRests DEF HttpInv, ResponseInv
<1> QED BY <1>2, <1>3, <1>5, <1>7, <1>8, <1>9

(* A frame that is not the node's HEADERS leaves the answer on its way.      *)
LEMMA StillCollecting ==
  ASSUME SessionInv, HttpInv, Arrives(Server), Handles(Server, Handled(Server)), UNCHANGED session,
         execution' = execution, Known(Server), FrameAt(Server).type # "HEADERS",
         exchange'.size = exchange.size, exchange'.stage = exchange.stage, exchange'.answers = exchange.answers,
         exchange'.chunks = IF exchange.stage = "response" /\ IsUnit(FrameAt(Server))
                              THEN Append(exchange.chunks, FrameAt(Server).n) ELSE exchange.chunks
  PROVE  Collecting'
<1>1. /\ wire'[Node] = Tail(wire[Node]) /\ stream'[Node] = stream[Node]
      /\ stream'[Server].got = IF Known(Server) /\ IsUnit(FrameAt(Server))
                                 THEN Append(stream[Server].got, FrameAt(Server).n) ELSE stream[Server].got
  BY ServerGets
<1>2. /\ exchange.chunks = stream[Server].got
      /\ IF exchange.stage = "response" THEN exchange.answers = 0
         ELSE stream[Server].got = << >> /\ AnswerFirst(RESPONSE)
  BY DEF HttpInv, Collecting
<1>3. CASE exchange.stage = "response"
  BY <1>1, <1>2, <1>3 DEF Collecting
<1>4. CASE exchange.stage # "response"
  <2>1. ~IsUnit(FrameAt(Server)) /\ AnswerFirst(RESPONSE)'
    BY <1>1, <1>2, <1>4, AnswerTaken DEF Announces
  <2> QED BY <1>1, <1>2, <1>4, <2>1 DEF Collecting, RESPONSE
<1> QED BY <1>3, <1>4

LEMMA RequestTimeoutKeeps ==
  ASSUME SessionInv, HttpInv, RequestTimeout
  PROVE  SessionInv' /\ HttpInv'
<1>1. /\ exchange.timer /\ exchange' = Settled(Answer(exchange))
      /\ UNCHANGED <<stream, wire, session, execution>>
  BY DEF RequestTimeout
<1>2. /\ exchange \in Exchange /\ exchange.answers <= 1 /\ exchange.stage = "request"
  BY <1>1 DEF HttpInv, ExchangeInv
<1> DEFINE y == Settled(Answer(exchange))
<1>3. /\ y \in Exchange /\ Keeps(exchange, y) /\ y.stage = exchange.stage
      /\ y.answers = 1 /\ y.pending = FALSE /\ y.timer = FALSE
  BY <1>2, GivenUpFacts
<1>4. exchange' = y
  BY <1>1
<1> HIDE DEF y
<1>5. SessionInv'
  BY <1>1, SessionRests
<1>6. ExchangeInv'
  BY <1>1, <1>2, <1>3, <1>4, ExchangeGivenUp DEF HttpInv
<1>7. \A e \in End : wire'[e] = wire[e] /\ FromWire(wire[e], wire'[e])
  BY <1>1, SessionFacts, FromWireFacts
<1>8. Node \in End /\ Server \in End
  BY SessionFacts
<1>9. RequestInv' /\ ResponseInv'
  BY <1>1, <1>3, <1>4, <1>7, <1>8, RequestRests, ResponseRests DEF HttpInv, Keeps, ResponseInv
<1>10. Collecting'
  BY <1>1, <1>2, <1>3, <1>4, CollectingRests DEF HttpInv, Keeps
<1> QED BY <1>5, <1>6, <1>9, <1>10 DEF HttpInv

LEMMA HandleResponseKeeps ==
  ASSUME SessionInv, HttpInv, HandleResponse
  PROVE  SessionInv' /\ HttpInv'
<1>1. /\ Arrives(Server) /\ Known(Server) /\ FrameAt(Server).type = "HEADERS"
      /\ session' = session /\ execution' = execution
  BY DEF HandleResponse, Gets
<1>2. exchange \in Exchange /\ exchange.answers <= 1
  BY DEF HttpInv, ExchangeInv
<1>3. CASE exchange.pending
  <2>1. exchange' = [Settled(exchange) EXCEPT !.stage = "response"] /\ Handles(Server, Handled(Server))
    BY <1>3 DEF HandleResponse
  <2>2. /\ exchange' \in Exchange /\ Keeps(exchange, exchange') /\ exchange'.stage = "response"
        /\ exchange'.answers = exchange.answers /\ ~exchange'.pending /\ ~exchange'.timer
    BY <1>2, <2>1 DEF Settled, Exchange, Keeps
  <2>3. /\ SessionInv' /\ RequestInv' /\ ResponseInv'
        /\ stream[Server].state # "idle" /\ stream'[Server].state # "idle"
        /\ stream'[Server].registered => stream[Server].registered
        /\ stream'[Server].got = stream[Server].got
    BY <1>1, <2>1, <2>2, ServerGets DEF Keeps, IsUnit
  <2>4. exchange.answers = 0 /\ exchange.stage = "request" /\ exchange.chunks = stream[Server].got
    BY <1>1, <1>3 DEF HttpInv, ExchangeInv, Collecting
  <2>5. ExchangeInv'
    BY <2>2, <2>3, <2>4, ExchangeGivenUp DEF HttpInv
  <2>6. Collecting'
    BY <2>2, <2>3, <2>4 DEF Collecting, Keeps
  <2> QED BY <2>3, <2>5, <2>6 DEF HttpInv
<1>4. CASE ~exchange.pending
  <2> DEFINE x == [exchange EXCEPT !.timer = FALSE]
             h == Handled(Server)
             c == Reset(h.stream)
             q == Joint(h, c)
  <2>1. exchange' = Failed(x) /\ Handles(Server, After(h, Reset))
    BY <1>4 DEF HandleResponse
  <2>2. q = After(h, Reset)
    BY DEF Joint, After
  <2>3. /\ x \in Exchange /\ Keeps(exchange, x) /\ x.answers = exchange.answers /\ x.stage = exchange.stage
        /\ x.pending = exchange.pending /\ ~x.timer
    BY <1>2 DEF Exchange, Keeps
  <2>4. exchange.stage = "none" => x = exchange
    BY <1>2, <1>4 DEF Exchange, HttpInv, ExchangeInv
  <2> HIDE DEF x
  <2>5. /\ exchange' \in Exchange /\ Keeps(x, exchange') /\ exchange'.stage = x.stage /\ exchange'.answers <= 1
        /\ x.stage = "none" => exchange' = x
        /\ ~exchange'.pending /\ ~exchange'.timer
    BY <1>2, <1>4, <2>1, <2>3, FailedFacts
  <2>6. Keeps(exchange, exchange')
    BY <2>3, <2>5, KeepsTwice
  <2>7. Server \in End /\ Other(Server) = Node /\ Server # Node
    BY SessionFacts
  <2>8. Proper(h.stream) /\ h.stream.state # "idle"
    BY <1>1, <2>7, HandledIs DEF Sends
  <2>9. /\ Emits(h.stream, c) /\ Quiet(c.out) /\ c.stream.got = h.stream.got
        /\ NoEnd(c.out) /\ ~c.stream.registered
    BY <2>8, ResetFacts
  <2>10. Handles(Server, q)
    BY <2>1, <2>2
  <2> HIDE DEF c
  <2>11. /\ SessionInv' /\ RequestInv' /\ ResponseInv' /\ stream'[Server] = c.stream
         /\ stream[Server].state # "idle" /\ stream'[Server].state # "idle"
    BY <1>1, <2>6, <2>9, <2>10, ServerGetsThen DEF Keeps
  <2>12. ExchangeInv'
    BY <2>3, <2>4, <2>5, <2>6, <2>11, ExchangeGivenUp DEF HttpInv
  <2>13. Collecting'
    BY <2>9, <2>11 DEF Collecting, Known
  <2> QED BY <2>11, <2>12, <2>13 DEF HttpInv
<1> QED BY <1>3, <1>4

LEMMA CountedAppend ==
  ASSUME NEW s \in Seq(Nat), Counted(s)
  PROVE  LET t == Append(s, Len(s) + 1) IN t \in Seq(Nat) /\ Counted(t) /\ Len(t) = Len(s) + 1
<1> DEFINE n == Len(s) + 1
           t == Append(s, n)
<1>1. n \in Nat /\ Len(s) \in Nat
  OBVIOUS
<1>2. t \in Seq(Nat) /\ Len(t) = Len(s) + 1 /\ t[n] = n /\ \A i \in 1..Len(s) : t[i] = s[i]
  BY <1>1
<1> HIDE DEF t
<1>3. Counted(t)
  BY <1>1, <1>2 DEF Counted
<1> QED BY <1>2, <1>3 DEF t

LEMMA CollectedFacts ==
  ASSUME NEW x \in Exchange, NEW f \in Frame, f.type = "DATA"
  PROVE  LET y == Collected(x, f) IN
         /\ y \in Exchange /\ y.size = x.size /\ y.pending = x.pending /\ y.timer = x.timer
         /\ y.stage = x.stage /\ y.answers = x.answers /\ y.forwarded = x.forwarded /\ y.body = x.body
         /\ y.chunks = IF x.stage = "response" /\ IsUnit(f) THEN Append(x.chunks, f.n) ELSE x.chunks
<1>1. f.n \in Nat /\ x.chunks \in Seq(Nat) /\ (IsUnit(f) <=> f.n > 0)
  BY DEF Frame, Exchange, IsUnit
<1>2. CASE x.stage = "response" /\ f.n > 0
  <2>1. Collected(x, f) = [x EXCEPT !.chunks = Append(@, f.n)] /\ Append(x.chunks, f.n) \in Seq(Nat)
    BY <1>1, <1>2 DEF Collected
  <2> QED BY <1>1, <1>2, <2>1 DEF Exchange
<1>3. CASE ~(x.stage = "response" /\ f.n > 0)
  BY <1>1, <1>3 DEF Collected
<1> QED BY <1>2, <1>3

LEMMA ResponseCollected ==
  ASSUME SessionInv, HttpInv, HandleResponseData, ~ResponseEnds(FrameAt(Server))
  PROVE  SessionInv' /\ HttpInv'
<1>1. /\ Arrives(Server) /\ Known(Server) /\ FrameAt(Server).type = "DATA"
      /\ session' = session /\ execution' = execution
      /\ exchange' = Collected(exchange, FrameAt(Server)) /\ Handles(Server, Handled(Server))
  BY DEF HandleResponseData, Gets
<1>2. exchange \in Exchange /\ FrameAt(Server) \in Frame
  BY <1>1, SessionFacts, HandledIs DEF HttpInv, ExchangeInv
<1>3. /\ exchange' \in Exchange /\ exchange'.size = exchange.size /\ exchange'.pending = exchange.pending
      /\ exchange'.timer = exchange.timer /\ exchange'.stage = exchange.stage
      /\ exchange'.answers = exchange.answers /\ exchange'.forwarded = exchange.forwarded
      /\ exchange'.body = exchange.body
      /\ exchange'.chunks = IF exchange.stage = "response" /\ IsUnit(FrameAt(Server))
                              THEN Append(exchange.chunks, FrameAt(Server).n) ELSE exchange.chunks
  BY <1>1, <1>2, CollectedFacts
<1>4. SessionInv' /\ RequestInv' /\ ResponseInv' /\ stream'[Server].state # "idle"
  BY <1>1, <1>3, ServerGets
<1>5. Collecting'
  BY <1>1, <1>3, StillCollecting
<1>6. ExchangeInv'
  BY <1>3, <1>4 DEF HttpInv, ExchangeInv
<1> QED BY <1>4, <1>5, <1>6 DEF HttpInv

(* The frame that ends the response: what was collected is what was sent.    *)
LEMMA ResponseEnded ==
  ASSUME SessionInv, HttpInv, HandleResponseData, ResponseEnds(FrameAt(Server))
  PROVE  SessionInv' /\ HttpInv'
<1> DEFINE f == FrameAt(Server)
           x == Collected(exchange, f)
           h == Handled(Server)
           c == Close(h.stream)
           forwarded == [x EXCEPT !.answers = @ + 1, !.forwarded = TRUE, !.body = x.chunks]
<1>1. /\ Arrives(Server) /\ Known(Server) /\ f.type = "DATA" /\ f.fin /\ exchange.stage = "response"
      /\ session' = session /\ execution' = execution
      /\ exchange' = forwarded \/ exchange' = Answer(x)
      /\ Handles(Server, After(h, Close))
  BY DEF HandleResponseData, Gets, ResponseEnds
<1>2. /\ exchange \in Exchange /\ f \in Frame /\ ~exchange.pending /\ ~exchange.timer
      /\ exchange.answers = 0 /\ exchange.chunks = stream[Server].got
  BY <1>1, SessionFacts, HandledIs DEF HttpInv, ExchangeInv, Collecting
<1>3. /\ x \in Exchange /\ x.size = exchange.size /\ ~x.pending /\ ~x.timer /\ x.stage = "response"
      /\ x.answers = 0 /\ x.forwarded = exchange.forwarded /\ x.body = exchange.body
      /\ x.chunks = IF IsUnit(f) THEN Append(exchange.chunks, f.n) ELSE exchange.chunks
  BY <1>1, <1>2, CollectedFacts
<1>4. Joint(h, c) = After(h, Close)
  BY DEF Joint, After
<1>5. /\ Server \in End /\ Node \in End /\ Other(Server) = Node /\ Other(Node) = Server /\ Server # Node
      /\ stream[Server].got \in Seq(Nat)
  BY SessionFacts
<1>6. Proper(h.stream) /\ h.stream.state = "half_closed_remote"
  BY <1>1, <1>5, HandledIs, ServerHandledFacts DEF Sends
<1>7. /\ Emits(h.stream, c) /\ Quiet(c.out) /\ c.stream.got = h.stream.got
      /\ c.out = << >> /\ ~c.stream.registered
  BY <1>6, CloseFacts
<1>8. NoEnd(c.out)
  BY <1>7, NothingSent
<1>9. Handles(Server, Joint(h, c))
  BY <1>1, <1>4
<1> HIDE DEF c, x
<1>10. /\ exchange' \in Exchange /\ exchange'.size = exchange.size /\ exchange'.stage = "response"
       /\ ~exchange'.pending /\ ~exchange'.timer /\ exchange'.answers = 1
       /\ \/ exchange'.forwarded /\ exchange'.body = x.chunks
          \/ exchange'.forwarded = exchange.forwarded /\ exchange'.body = exchange.body
  <2>1. CASE exchange' = forwarded
    <3>1. x.answers + 1 = 1 /\ x.chunks \in Seq(Nat) /\ 1 \in Nat /\ TRUE \in BOOLEAN
      <4>1. x.answers = 0 /\ x \in Exchange
        BY <1>3
      <4>2. x.chunks \in Seq(Nat)
        BY <4>1 DEF Exchange
      <4> QED BY <4>1, <4>2
    <3>2. exchange' = [x EXCEPT !.answers = 1, !.forwarded = TRUE, !.body = x.chunks]
      BY <2>1, <3>1
    <3>3. /\ exchange' \in Exchange /\ exchange'.size = x.size /\ exchange'.stage = x.stage
          /\ exchange'.pending = x.pending /\ exchange'.timer = x.timer /\ exchange'.answers = 1
          /\ exchange'.body = x.chunks
      BY <1>3, <3>1, <3>2 DEF Exchange
    <3>4. exchange'.forwarded
      BY <1>3, <3>2, Zenon DEF Exchange
    <3> QED BY <1>3, <3>3, <3>4
  <2>2. CASE exchange' = Answer(x)
    <3>1. /\ Answer(x) \in Exchange /\ Keeps(x, Answer(x)) /\ Answer(x).stage = x.stage
          /\ Answer(x).answers = 1 /\ Answer(x).pending = x.pending /\ Answer(x).timer = x.timer
      BY <1>3, AnswerFacts
    <3> QED BY <1>3, <2>2, <3>1 DEF Keeps
  <2> QED BY <1>1, <2>1, <2>2
<1>11. /\ SessionInv' /\ RequestInv'
       /\ exchange'.forwarded = exchange.forwarded /\ exchange'.body = exchange.body => ResponseInv'
       /\ FromWire(wire[Node], wire'[Node]) /\ stream'[Node] = stream[Node] /\ stream'[Server] = c.stream
       /\ stream'[Server].state # "idle"
  BY <1>1, <1>7, <1>8, <1>9, <1>10, ServerGetsThen
<1>12. execution.state = "over" /\ (execution.answer <= Window => f.n = execution.answer)
  <2>1. wire[Node] \in Seq(Frame) /\ wire[Node] # << >> /\ f = Head(wire[Node])
    BY <1>1, <1>5, SessionFacts DEF Arrives, FrameAt, Incoming
  <2>2. f = wire[Node][1] /\ 1 \in 1..Len(wire[Node])
    BY <2>1, TheTail
  <2> HIDE DEF f
  <2> QED BY <1>1, <2>2 DEF HttpInv, ResponseInv
<1>13. ASSUME execution.answer <= Window PROVE x.chunks = Numbered(0, execution.answer)
  <2> DEFINE got == stream[Server].got
  <2>1. Counted(got) /\ Len(got) <= Sent(stream[Node])
    BY <1>5 DEF SessionInv, Carrying, Counted
  <2>2. CASE IsUnit(f)
    <3>1. f.n = Len(got) + 1
      BY <1>1, <1>5, <2>2, NextUnit DEF Listens, Known
    <3>2. x.chunks = Append(got, Len(got) + 1)
      BY <1>2, <1>3, <2>2, <3>1
    <3> HIDE DEF got
    <3>3. x.chunks \in Seq(Nat) /\ Counted(x.chunks) /\ Len(x.chunks) = Len(got) + 1
      BY <1>5, <2>1, <3>2, CountedAppend DEF got
    <3>4. Len(x.chunks) = execution.answer
      BY <1>12, <1>13, <3>1, <3>3
    <3> QED BY <3>3, <3>4, CountedIs
  <2>3. CASE ~IsUnit(f)
    <3>1. f.n = 0 /\ execution.answer = 0
      BY <1>1, <1>2, <1>12, <1>13, <2>3 DEF IsUnit, Frame
    <3>2. Sent(stream[Node]) <= stream[Node].written /\ stream[Node].written <= 0 /\ Sent(stream[Node]) \in Nat
      <4>1. Sent(stream[Node]) \in Nat /\ Len(stream[Node].bufferedData) \in Nat /\ stream[Node].written \in Nat
        BY <1>5, SessionFacts, SentIs DEF Proper
      <4> QED BY <3>1, <4>1 DEF HttpInv, ResponseInv, Sent
    <3>3. x.chunks = got /\ Len(got) \in Nat
      BY <1>2, <1>3, <1>5, <2>3, SessionFacts
    <3>4. Len(got) = 0
      <4> DEFINE n == Len(got)
                 m == Sent(stream[Node])
      <4>1. n \in Nat /\ m \in Nat /\ n <= m /\ m <= stream[Node].written /\ stream[Node].written <= 0
            /\ stream[Node].written \in Nat
        BY <1>5, <2>1, <3>2, <3>3, SessionFacts DEF StreamRecord
      <4> HIDE DEF n, m
      <4> QED BY <4>1 DEF n
    <3> QED BY <1>5, <2>1, <3>1, <3>3, <3>4, CountedIs
  <2> QED BY <2>2, <2>3
<1>14. ResponseInv'
  <2>1. CASE exchange'.forwarded = exchange.forwarded /\ exchange'.body = exchange.body
    BY <1>11, <2>1
  <2>2. CASE exchange'.forwarded /\ exchange'.body = x.chunks
    BY <1>1, <1>11, <1>12, <1>13, <2>2 DEF HttpInv, ResponseInv, FromWire
  <2> QED BY <1>10, <2>1, <2>2
<1>15. ExchangeInv'
  BY <1>10, <1>11 DEF ExchangeInv
<1>16. Collecting'
  BY <1>7, <1>11 DEF Collecting, Known
<1> QED BY <1>11, <1>14, <1>15, <1>16 DEF HttpInv

LEMMA HandleResponseDataKeeps ==
  ASSUME SessionInv, HttpInv, HandleResponseData
  PROVE  SessionInv' /\ HttpInv'
BY ResponseCollected, ResponseEnded

LEMMA ServerHandlesRestKeeps ==
  ASSUME SessionInv, HttpInv, ServerHandlesRest
  PROVE  SessionInv' /\ HttpInv'
<1>1. /\ Arrives(Server) /\ Handles(Server, Handled(Server)) /\ UNCHANGED session
      /\ execution' = execution /\ exchange' = exchange
      /\ Known(Server) => FrameAt(Server).type = "WINDOW_UPDATE"
  BY DEF ServerHandlesRest
<1>2. /\ SessionInv' /\ RequestInv' /\ ResponseInv' /\ stream'[Server].state # "idle"
      /\ stream'[Server].registered => stream[Server].registered
  BY <1>1, ServerGets
<1>3. ExchangeInv'
  BY <1>1, <1>2, ExchangeRests DEF HttpInv
<1>4. Collecting'
  <2>1. CASE Known(Server)
    BY <1>1, <2>1, StillCollecting DEF IsUnit
  <2>2. CASE ~Known(Server)
    BY <1>2, <2>2 DEF Collecting, Known
  <2> QED BY <2>1, <2>2
<1> QED BY <1>2, <1>3, <1>4 DEF HttpInv

----------------------------------------------------------------------------
(* The node's side of the request.                                           *)
LEMMA AnswerGiven ==
  ASSUME SessionInv, NEW n, NEW out \in Seq(Frame), wire'[Node] = wire[Node] \o out, First(out, n),
         AnswerFirst(n), stream'[Node].written = stream[Node].written \/ Said(out, n)
  PROVE  AnswerFirst(n)'
<1> DEFINE w == wire[Node]
           z == wire'[Node]
<1>1. w \in Seq(Frame) /\ z = w \o out
  BY SessionFacts
<1>2. First(w, n) /\ (stream[Node].written > 0 => Said(w, n))
  BY DEF AnswerFirst
<1> HIDE DEF w, z
<1>3. /\ First(z, n)
      /\ Said(w, n) \/ Said(out, n) => Said(z, n)
  BY <1>1, <1>2, FirstAppended
<1>4. stream'[Node].written > 0 => Said(z, n)
  BY <1>2, <1>3
<1> QED BY <1>3, <1>4 DEF AnswerFirst, z

LEMMA ResponseGiven ==
  ASSUME SessionInv, ResponseInv, execution.state # "over", NEW units \in Nat,
         NEW out \in Seq(Frame), OnlyData(out), units <= Window => EndsWith(out, units),
         wire'[Node] = wire[Node] \o out, execution'.state = "over", execution'.answer = units,
         exchange'.forwarded = exchange.forwarded, stream'[Node].written <= units,
         stream'[Node].written = 0 => stream'[Node].sendWindow >= Window
  PROVE  ResponseInv'
<1> DEFINE w == wire[Node]
           z == wire'[Node]
<1>1. w \in Seq(Frame) /\ z = w \o out
  BY SessionFacts
<1>2. NoEnd(w) /\ ~exchange.forwarded
  BY DEF ResponseInv, NoEnd
<1> HIDE DEF w, z
<1>3. OnlyData(z) /\ (units <= Window => EndsWith(z, units))
  BY <1>1, <1>2, EndsWithJoined
<1>4. \A i \in 1..Len(z) : z[i].fin =>
        /\ z[i].type = "DATA" /\ (units <= Window => z[i].n = units)
  BY <1>3 DEF OnlyData, EndsWith
<1> QED BY <1>2, <1>4 DEF ResponseInv, z

LEMMA ResponseStill ==
  ASSUME ResponseInv, execution'.answer = execution.answer,
         execution'.state = execution.state \/ (execution.state # "over" /\ execution'.state # "over"),
         exchange'.forwarded = exchange.forwarded, exchange'.body = exchange.body,
         FromWire(wire[Node], wire'[Node]), stream'[Node].written = stream[Node].written,
         stream[Node].written = 0 => stream'[Node].sendWindow >= Window
  PROVE  ResponseInv'
BY DEF ResponseInv, FromWire

LEMMA RequestServed ==
  ASSUME RequestInv, exchange' = exchange, FromWire(wire[Server], wire'[Server]),
         stream'[Node].state # "idle", stream'[Server] = stream[Server],
         execution' \in Execution, execution'.slot => execution'.state # "none",
         execution'.state = "running" => execution'.body = Numbered(0, exchange.size) /\ session'[Node] = "open",
         execution'.body # << >> => execution'.body = Numbered(0, exchange.size)
  PROVE  RequestInv'
BY DEF RequestInv, FromWire

LEMMA NotOver ==
  ASSUME SessionInv, HttpInv, execution.state # "over"
  PROVE  stream[Node].written = 0 /\ stream[Node].sendWindow >= Window /\ execution.answer = 0
<1>1. stream[Node].written \in Nat /\ execution.answer = 0 /\ stream[Node].written <= 0
  BY SessionFacts DEF HttpInv, ResponseInv, StreamRecord
<1>2. stream[Node].written = 0
  BY <1>1
<1> QED BY <1>1, <1>2 DEF HttpInv, ResponseInv

(* A frame reaches the node.                                                 *)
LEMMA NodeGets ==
  ASSUME SessionInv, HttpInv, Arrives(Node), Handles(Node, Handled(Node)), UNCHANGED session,
         exchange' = exchange
  PROVE  /\ SessionInv' /\ ExchangeInv' /\ Collecting'
         /\ FromWire(wire[Server], wire'[Server]) /\ FromWire(wire[Node], wire'[Node])
         /\ stream'[Server] = stream[Server] /\ stream'[Node] = Handled(Node).stream
         /\ stream'[Node].state # "idle" /\ stream'[Node].written = stream[Node].written
         /\ stream[Node].written = 0 => stream'[Node].sendWindow >= Window
<1> DEFINE q == Handled(Node)
<1>1. Node \in End /\ Other(Node) = Server /\ Server # Node /\ session[Node] \in {"open", "closed"}
      /\ wire[Server] \in Seq(Frame) /\ wire[Node] \in Seq(Frame)
  BY SessionFacts DEF SessionInv
<1>2. /\ SessionInv' /\ Appends(Node, q) /\ wire'[Server] = Tail(wire[Server])
      /\ stream'[Node] = q.stream /\ stream'[Server] = stream[Server]
  BY <1>1, HandledKeeps
<1>3. q.stream.written = stream[Node].written /\ NoEnd(q.out)
      /\ (stream[Node].written = 0 => q.stream.sendWindow >= stream[Node].sendWindow)
  BY NodeHandledFacts
<1>4. q.stream.state # "idle" /\ Sends(stream[Node], q) /\ q.stream \in StreamRecord /\ q.out \in Seq(Frame)
  BY <1>1, HandledIs DEF Sends, Proper
<1>5. stream[Node].written = 0 => stream[Node].sendWindow >= Window
  BY DEF HttpInv, ResponseInv
<1>6. stream[Node].sendWindow \in Int /\ q.stream.sendWindow \in Int /\ Window \in Int
  <2>1. stream[Node] \in StreamRecord
    BY <1>1, SessionFacts
  <2> QED BY <1>4, <2>1, WindowAssumption DEF StreamRecord
<1> HIDE DEF q
<1>7. stream[Node].written = 0 => stream'[Node].sendWindow >= Window
  BY <1>2, <1>3, <1>5, <1>6
<1>8. FromWire(wire[Server], wire'[Server])
  BY <1>1, <1>2, FromWireFacts DEF Arrives
<1>9. FromWire(wire[Node], wire'[Node])
  <2>1. wire'[Node] = wire[Node] \o q.out
    BY <1>1, <1>2, <1>4, SentOut DEF Appends, Arrives
  <2> QED BY <1>1, <1>3, <1>4, <2>1, FromWireFacts
<1>10. ExchangeInv'
  BY <1>2, ExchangeRests DEF HttpInv
<1>11. Collecting'
  <2>1. AnswerFirst(RESPONSE) => AnswerFirst(RESPONSE)'
    BY <1>2, <1>3, <1>4, AnswerGrows
  <2> QED BY <1>2, <2>1 DEF HttpInv, Collecting, RESPONSE, Known
<1> QED BY <1>2, <1>3, <1>4, <1>7, <1>8, <1>9, <1>10, <1>11 DEF q

LEMMA NothingGiven ==
  ASSUME NEW s, NEW q, Sends(s, q), q.stream.written = 0
  PROVE  NoUnit(q.out)
<1> DEFINE t == q.stream
<1>1. InOrder(q.out, Sent(s), Sent(t)) /\ Proper(t) /\ q.out \in Seq(Frame) /\ t.written = 0
  BY DEF Sends
<1> HIDE DEF t
<1>2. Sent(t) \in Nat /\ Len(t.bufferedData) \in Nat /\ Sent(t) = t.written - Len(t.bufferedData)
  BY <1>1, SentIs DEF Sent, Proper
<1>3. Sent(t) <= 0
  BY <1>1, <1>2
<1>4. ASSUME NEW i \in 1..Len(q.out) PROVE ~IsUnit(q.out[i])
  <2>1. q.out[i].n \in Nat
    BY <1>1, FrameOf
  <2>2. IsUnit(q.out[i]) => q.out[i].n <= Sent(t) /\ q.out[i].n > 0
    BY <1>1 DEF InOrder, IsUnit
  <2> QED BY <1>2, <1>3, <2>1, <2>2
<1> QED BY <1>4 DEF NoUnit

(* The node refuses the request on the spot.                                 *)
LEMMA NodeRefuses ==
  ASSUME SessionInv, HttpInv, Arrives(Node), UNCHANGED session, exchange' = exchange,
         execution.state # "over",
         Handles(Node, Joint(Handled(Node), Responding(Handled(Node).stream, 1))),
         execution' \in Execution, execution'.state = "over", execution'.answer = 1,
         execution'.body # << >> => execution'.body = Numbered(0, exchange.size)
  PROVE  SessionInv' /\ HttpInv'
<1> DEFINE h == Handled(Node)
           c == Responding(h.stream, 1)
           q == Joint(h, c)
<1>1. Node \in End /\ Other(Node) = Server /\ Server # Node /\ session[Node] \in {"open", "closed"}
      /\ wire[Server] \in Seq(Frame) /\ wire[Node] \in Seq(Frame)
  BY SessionFacts DEF SessionInv
<1>2. h.stream.written = stream[Node].written /\ NoEnd(h.out)
      /\ (stream[Node].written = 0 => h.stream.sendWindow >= stream[Node].sendWindow)
  BY NodeHandledFacts
<1>3. h.stream.state # "idle" /\ Sends(stream[Node], h) /\ Proper(h.stream) /\ h.out \in Seq(Frame)
  BY <1>1, HandledIs DEF Sends
<1>4. stream[Node].written = 0 /\ stream[Node].sendWindow >= Window
  BY NotOver
<1>5. stream[Node].sendWindow \in Int /\ h.stream.sendWindow \in Int /\ Window \in Nat /\ Window >= 1
  <2>1. stream[Node] \in StreamRecord /\ h.stream \in StreamRecord
    BY <1>1, <1>3, SessionFacts DEF Proper
  <2>2. Window \in Nat /\ Window >= 1
    BY WindowAssumption
  <2> QED BY <2>1, <2>2 DEF StreamRecord
<1>6. Handles(Node, q)
  OBVIOUS
<1>7. /\ Emits(h.stream, c) /\ c.stream.got = h.stream.got
      /\ First(c.out, RESPONSE) /\ OnlyData(c.out)
      /\ \/ c.stream.written = h.stream.written /\ c.stream.sendWindow = h.stream.sendWindow
         \/ c.stream.written = h.stream.written + 1 /\ Said(c.out, RESPONSE)
      /\ h.stream.written = 0 /\ 1 <= h.stream.sendWindow => EndsWith(c.out, 1)
  BY <1>3, RespondingFacts
<1> HIDE DEF c, h, q
<1>8. c.out \in Seq(Frame) /\ c.stream.state # "idle"
  BY <1>7 DEF Emits, Sends
<1>9. /\ SessionInv' /\ Appends(Node, q) /\ wire'[Server] = Tail(wire[Server])
      /\ stream'[Node] = c.stream /\ stream'[Server] = stream[Server]
      /\ q.out = h.out \o c.out /\ q.out \in Seq(Frame)
  BY <1>1, <1>6, <1>7, HandledThenKeeps DEF h, q
<1>10. wire'[Node] = wire[Node] \o q.out
  BY <1>1, <1>9, SentOut DEF Appends, Arrives
<1>11. FromWire(wire[Server], wire'[Server])
  BY <1>1, <1>9, FromWireFacts DEF Arrives
<1>12. h.stream.sendWindow >= Window /\ h.stream.written = 0 /\ EndsWith(c.out, 1)
  BY <1>2, <1>4, <1>5, <1>7
<1>13. OnlyData(q.out) /\ EndsWith(q.out, 1)
  BY <1>2, <1>3, <1>7, <1>8, <1>9, <1>12, EndsWithJoined
<1>14. ResponseInv'
  <2>1. stream'[Node].written <= 1 /\ (stream'[Node].written = 0 => stream'[Node].sendWindow >= Window)
    BY <1>7, <1>9, <1>12
  <2> QED BY <1>9, <1>10, <1>13, <2>1, ResponseGiven DEF HttpInv
<1>15. RequestInv'
  BY <1>8, <1>9, <1>11, RequestServed DEF HttpInv
<1>16. ExchangeInv'
  BY <1>9, ExchangeRests DEF HttpInv
<1>17. Collecting'
  <2> DEFINE n == RESPONSE
             u == h.out
             v == c.out
  <2>1. AnswerFirst(n) => AnswerFirst(n)'
    <3>1. NoUnit(u)
      BY <1>3, <1>12, NothingGiven
    <3>2. u \in Seq(Frame) /\ v \in Seq(Frame) /\ q.out = u \o v /\ First(v, n)
      BY <1>3, <1>7, <1>8, <1>9
    <3>3. stream'[Node].written = stream[Node].written \/ Said(v, n)
      BY <1>2, <1>7, <1>9
    <3> HIDE DEF u, v, n
    <3>4. First(u, n)
      BY <3>1, <3>2, FirstAppended
    <3>5. First(u \o v, n) /\ (Said(v, n) => Said(u \o v, n))
      BY <3>2, <3>4, FirstAppended
    <3>6. First(q.out, n) /\ (stream'[Node].written = stream[Node].written \/ Said(q.out, n))
      BY <3>2, <3>3, <3>5
    <3> QED BY <1>9, <1>10, <3>6, AnswerGiven
  <2> QED BY <1>9, <2>1 DEF HttpInv, Collecting, RESPONSE, Known
<1> QED BY <1>9, <1>14, <1>15, <1>16, <1>17 DEF HttpInv

(* The call to the target starts with the whole body, or is refused.         *)
LEMMA Dispatched ==
  ASSUME SessionInv, HttpInv, Arrives(Node), UNCHANGED session, exchange' = exchange,
         execution.state # "over", Dispatch(Handled(Node)),
         Handled(Node).stream.got = Numbered(0, exchange.size)
  PROVE  SessionInv' /\ HttpInv'
<1> DEFINE h == Handled(Node)
           body == h.stream.got
           running == [execution EXCEPT !.slot = TRUE, !.state = "running", !.body = body]
           refused == [execution EXCEPT !.state = "over", !.body = body, !.answer = 1]
<1>1. session[Node] = "open" /\ Node \in End
  BY SessionFacts DEF Arrives
<1>2. body \in Seq(Nat) /\ execution \in Execution
  <2>1. h.stream \in StreamRecord
    BY <1>1, HandledIs DEF Sends, Proper
  <2> QED BY <2>1, GotIs DEF HttpInv, RequestInv
<1>3. CASE execution' = running /\ Handles(Node, h)
  <2>1. /\ SessionInv' /\ ExchangeInv' /\ Collecting'
        /\ FromWire(wire[Server], wire'[Server]) /\ FromWire(wire[Node], wire'[Node])
        /\ stream'[Server] = stream[Server] /\ stream'[Node] = Handled(Node).stream
        /\ stream'[Node].state # "idle" /\ stream'[Node].written = stream[Node].written
        /\ stream[Node].written = 0 => stream'[Node].sendWindow >= Window
    BY <1>3, NodeGets
  <2> HIDE DEF body
  <2>2. /\ execution' \in Execution /\ execution'.state = "running" /\ execution'.body = body
        /\ execution'.answer = execution.answer
    BY <1>2, <1>3 DEF Execution
  <2>3. RequestInv'
    BY <1>1, <2>1, <2>2, RequestServed DEF HttpInv, body
  <2>4. ResponseInv'
    BY <2>1, <2>2, ResponseStill DEF HttpInv
  <2> QED BY <2>1, <2>3, <2>4 DEF HttpInv
<1>4. CASE execution' = refused /\ LET refusal(s) == SendResponse(s, 1) IN Handles(Node, After(h, refusal))
  <2>1. Handles(Node, Joint(h, Responding(h.stream, 1)))
    BY <1>4, RespondingIs DEF After, Joint
  <2> HIDE DEF body
  <2>2. /\ execution' \in Execution /\ execution'.state = "over" /\ execution'.body = body
        /\ execution'.answer = 1
    BY <1>2, <1>4 DEF Execution
  <2>3. execution'.body = Numbered(0, exchange.size)
    BY <2>2 DEF body
  <2> QED BY <2>1, <2>2, <2>3, NodeRefuses
<1> QED BY <1>3, <1>4 DEF Dispatch

LEMMA HandleMuxRequestKeeps ==
  ASSUME SessionInv, HttpInv, HandleMuxRequest
  PROVE  SessionInv' /\ HttpInv'
<1> DEFINE f == FrameAt(Node)
           collecting == [execution EXCEPT !.state = "collecting"]
           refused == [execution EXCEPT !.state = "over", !.answer = 1]
<1>1. /\ Arrives(Node) /\ f.type = "HEADERS" /\ ~Known(Node) /\ session' = session /\ exchange' = exchange
      /\ \/ f.fin /\ Dispatch(Handled(Node))
         \/ execution' = collecting /\ Handles(Node, Handled(Node))
         \/ /\ execution' = refused
            /\ LET refusal(s) == SendResponse(s, 1) IN Handles(Node, After(Handled(Node), refusal))
  BY DEF HandleMuxRequest
<1>2. /\ Node \in End /\ Server \in End /\ Server # Node /\ Other(Node) = Server
      /\ wire[Server] \in Seq(Frame) /\ session[Node] \in {"open", "closed"}
  BY SessionFacts
<1>3. stream[Node].state = "idle"
  BY <1>1, <1>2, HandledIs DEF Opens
<1>4. Handled(Node).stream.got = << >>
  <2>1. Handled(Node) = Result([NewStream EXCEPT !.state = IF f.fin THEN "half_closed_remote" ELSE "open"], << >>)
    BY <1>1, <1>2, <1>3, HandledIs
  <2> DEFINE s == [NewStream EXCEPT !.state = IF f.fin THEN "half_closed_remote" ELSE "open"]
             h == Handled(Node)
  <2>2. s.got = << >> /\ h = Result(s, << >>)
    BY <2>1 DEF NewStream
  <2> HIDE DEF s, h
  <2> QED BY <2>2, ResultIs DEF h
<1>5. /\ execution.state = "none" /\ execution.body = << >> /\ execution.slot = FALSE
      /\ execution \in Execution
  BY <1>1, <1>2, <1>3 DEF HttpInv, RequestInv, Arrives, Execution
<1>6. CASE f.fin /\ Dispatch(Handled(Node))
  <2>1. f = wire[Server][1] /\ 1 \in 1..Len(wire[Server])
    BY <1>1, <1>2, TheTail DEF Arrives, FrameAt, Incoming
  <2> HIDE DEF f
  <2>2. exchange.size = 0
    BY <1>1, <1>6, <2>1 DEF HttpInv, RequestInv
  <2>3. Handled(Node).stream.got = Numbered(0, exchange.size)
    BY <1>4, <2>2, NothingNumbered
  <2> QED BY <1>1, <1>5, <1>6, <2>3, Dispatched
<1>7. CASE execution' = collecting /\ Handles(Node, Handled(Node))
  <2>1. /\ SessionInv' /\ ExchangeInv' /\ Collecting'
        /\ FromWire(wire[Server], wire'[Server]) /\ FromWire(wire[Node], wire'[Node])
        /\ stream'[Server] = stream[Server]
        /\ stream'[Node].state # "idle" /\ stream'[Node].written = stream[Node].written
        /\ stream[Node].written = 0 => stream'[Node].sendWindow >= Window
    BY <1>1, <1>7, NodeGets
  <2>2. /\ execution' \in Execution /\ execution'.state = "collecting" /\ execution'.body = << >>
        /\ execution'.answer = execution.answer
    BY <1>5, <1>7 DEF Execution
  <2>3. RequestInv'
    BY <1>1, <2>1, <2>2, RequestServed DEF HttpInv
  <2>4. ResponseInv'
    BY <1>1, <1>5, <2>1, <2>2, ResponseStill DEF HttpInv
  <2> QED BY <2>1, <2>3, <2>4 DEF HttpInv
<1>8. CASE /\ execution' = refused
           /\ LET refusal(s) == SendResponse(s, 1) IN Handles(Node, After(Handled(Node), refusal))
  <2>1. Handles(Node, Joint(Handled(Node), Responding(Handled(Node).stream, 1)))
    BY <1>8, RespondingIs DEF After, Joint
  <2>2. /\ execution' \in Execution /\ execution'.state = "over" /\ execution'.body = << >>
        /\ execution'.answer = 1
    BY <1>5, <1>8 DEF Execution
  <2> QED BY <1>1, <1>5, <2>1, <2>2, NodeRefuses
<1> QED BY <1>1, <1>6, <1>7, <1>8

LEMMA HandleRequestDataKeeps ==
  ASSUME SessionInv, HttpInv, HandleRequestData
  PROVE  SessionInv' /\ HttpInv'
<1> DEFINE f == FrameAt(Node)
<1>1. /\ Arrives(Node) /\ f.type = "DATA" /\ Known(Node) /\ session' = session /\ exchange' = exchange
      /\ \/ f.fin /\ execution.state = "collecting" /\ Dispatch(Handled(Node))
         \/ Handles(Node, Handled(Node)) /\ execution' = execution
  BY DEF HandleRequestData, Gets, RequestEnds
<1>2. /\ Node \in End /\ Server \in End /\ Server # Node /\ Other(Node) = Server /\ Other(Server) = Node
      /\ wire[Server] \in Seq(Frame) /\ stream[Node].got \in Seq(Nat)
  BY SessionFacts
<1>3. CASE f.fin /\ execution.state = "collecting" /\ Dispatch(Handled(Node))
  <2>1. f = wire[Server][1] /\ 1 \in 1..Len(wire[Server])
    BY <1>1, <1>2, TheTail DEF Arrives, FrameAt, Incoming
  <2>2. Handled(Node).stream.got = IF IsUnit(f) THEN Append(stream[Node].got, f.n) ELSE stream[Node].got
    BY <1>1, <1>2, HandledIs
  <2>3. Counted(stream[Node].got)
    BY <1>2 DEF SessionInv, Carrying, Counted
  <2>4. IsUnit(f) => f.n = Len(stream[Node].got) + 1
    BY <1>1, <1>2, NextUnit DEF Listens, Known
  <2> HIDE DEF f
  <2>5. f.n = exchange.size /\ exchange.size > 0
    BY <1>1, <1>3, <2>1 DEF HttpInv, RequestInv
  <2>6. IsUnit(f)
    BY <1>1, <2>5 DEF IsUnit
  <2> DEFINE got == stream[Node].got
             t == Append(got, Len(got) + 1)
  <2>7. t \in Seq(Nat) /\ Counted(t) /\ Len(t) = Len(got) + 1
    BY <1>2, <2>3, CountedAppend
  <2>8. Handled(Node).stream.got = t
    BY <2>2, <2>4, <2>6
  <2>9. Len(t) = exchange.size
    BY <2>4, <2>5, <2>6, <2>7
  <2> HIDE DEF t
  <2>10. Handled(Node).stream.got = Numbered(0, exchange.size)
    BY <2>7, <2>8, <2>9, CountedIs
  <2> QED BY <1>1, <1>3, <2>10, Dispatched
<1>4. CASE Handles(Node, Handled(Node)) /\ execution' = execution
  <2>1. /\ SessionInv' /\ ExchangeInv' /\ Collecting'
        /\ FromWire(wire[Server], wire'[Server]) /\ FromWire(wire[Node], wire'[Node])
        /\ stream'[Server] = stream[Server]
        /\ stream'[Node].state # "idle" /\ stream'[Node].written = stream[Node].written
        /\ stream[Node].written = 0 => stream'[Node].sendWindow >= Window
    BY <1>1, <1>4, NodeGets
  <2>2. RequestInv'
    BY <1>1, <1>4, <2>1, RequestRests DEF HttpInv
  <2>3. ResponseInv'
    BY <1>1, <1>4, <2>1, ResponseStill DEF HttpInv
  <2> QED BY <2>1, <2>2, <2>3 DEF HttpInv
<1> QED BY <1>1, <1>3, <1>4

LEMMA NodeHandlesRestKeeps ==
  ASSUME SessionInv, HttpInv, NodeHandlesRest
  PROVE  SessionInv' /\ HttpInv'
<1>1. /\ Arrives(Node) /\ Handles(Node, Handled(Node)) /\ execution' = execution
      /\ session' = session /\ exchange' = exchange
  BY DEF NodeHandlesRest
<1>2. /\ SessionInv' /\ ExchangeInv' /\ Collecting'
      /\ FromWire(wire[Server], wire'[Server]) /\ FromWire(wire[Node], wire'[Node])
      /\ stream'[Server] = stream[Server]
      /\ stream'[Node].state # "idle" /\ stream'[Node].written = stream[Node].written
      /\ stream[Node].written = 0 => stream'[Node].sendWindow >= Window
  BY <1>1, NodeGets
<1>3. RequestInv'
  BY <1>1, <1>2, RequestRests DEF HttpInv
<1>4. ResponseInv'
  BY <1>1, <1>2, ResponseStill DEF HttpInv
<1> QED BY <1>2, <1>3, <1>4 DEF HttpInv

LEMMA TargetAnswersKeeps ==
  ASSUME SessionInv, HttpInv, TargetAnswers
  PROVE  SessionInv' /\ HttpInv'
<1>1. /\ execution.state = "running" /\ session' = session /\ exchange' = exchange
      /\ \E units \in 0..MaxUnits[Node] :
           /\ execution' = [execution EXCEPT !.slot = FALSE, !.state = "over", !.answer = units]
           /\ LET answer(s) == SendResponse(s, units) IN Calls(Node, answer(stream[Node]))
  BY DEF TargetAnswers
<1>2. PICK units \in 0..MaxUnits[Node] :
           /\ execution' = [execution EXCEPT !.slot = FALSE, !.state = "over", !.answer = units]
           /\ LET answer(s) == SendResponse(s, units) IN Calls(Node, answer(stream[Node]))
  BY <1>1
<1>3. /\ Node \in End /\ Server \in End /\ Server # Node /\ Other(Node) = Server /\ Other(Server) = Node
      /\ wire[Server] \in Seq(Frame) /\ wire[Node] \in Seq(Frame)
      /\ Proper(stream[Node]) /\ stream[Node] \in StreamRecord
  BY SessionFacts
<1>4. units \in Nat
  BY WindowAssumption, <1>3
<1> DEFINE s == stream[Node]
           q == Responding(s, units)
<1>5. Calls(Node, q)
  BY <1>2, RespondingIs
<1>6. s.state # "idle" /\ session[Node] = "open" /\ execution.body = Numbered(0, exchange.size)
      /\ execution \in Execution
  BY <1>1, <1>3 DEF HttpInv, RequestInv
<1>7. s.written = 0 /\ s.sendWindow >= Window /\ s.sendWindow \in Int /\ Window \in Nat
  BY <1>1, <1>3, NotOver, WindowAssumption DEF StreamRecord
<1>8. /\ q = Result(q.stream, q.out) /\ Emits(s, q) /\ q.stream.got = s.got
      /\ First(q.out, RESPONSE) /\ OnlyData(q.out)
      /\ \/ q.stream.written = s.written /\ q.stream.sendWindow = s.sendWindow
         \/ /\ q.stream.written = s.written + units /\ Said(q.out, RESPONSE)
            /\ units = 0 /\ s.sendWindow >= 0 => q.stream.sendWindow = s.sendWindow
      /\ s.written = 0 /\ units <= s.sendWindow => EndsWith(q.out, units)
  BY <1>3, <1>4, <1>6, RespondingFacts
<1> HIDE DEF q
<1>9. q.out \in Seq(Frame) /\ q.stream.state # "idle"
  BY <1>8 DEF Emits, Sends
<1>10. /\ SessionInv' /\ Appends(Node, q) /\ wire'[Server] = wire[Server]
       /\ stream'[Node] = q.stream /\ stream'[Server] = stream[Server]
  BY <1>1, <1>3, <1>5, <1>6, <1>8, <1>9, CallsKeep, CallsAre
<1>11. wire'[Node] = wire[Node] \o q.out
  BY <1>3, <1>6, <1>9, <1>10, SentOut DEF Appends
<1>12. /\ execution' \in Execution /\ execution'.state = "over" /\ execution'.answer = units
       /\ execution'.body = execution.body
  BY <1>2, <1>4, <1>6 DEF Execution
<1> HIDE DEF s
<1>13. ResponseInv'
  <2>1. units <= Window => EndsWith(q.out, units)
    BY <1>4, <1>7, <1>8
  <2>2. q.stream.written <= units
    BY <1>4, <1>7, <1>8
  <2>3. q.stream.written = 0 => q.stream.sendWindow >= Window
    <3>1. CASE q.stream.written = s.written /\ q.stream.sendWindow = s.sendWindow
      BY <1>7, <3>1
    <3>2. CASE /\ q.stream.written = s.written + units
               /\ units = 0 /\ s.sendWindow >= 0 => q.stream.sendWindow = s.sendWindow
      <4>1. q.stream.written = 0 => units = 0
        BY <1>4, <1>7, <3>2
      <4>2. s.sendWindow >= 0
        BY <1>7
      <4> QED BY <1>7, <3>2, <4>1, <4>2
    <3> QED BY <1>8, <3>1, <3>2
  <2>4. execution.state # "over" /\ ResponseInv
    BY <1>1 DEF HttpInv
  <2> QED BY <1>1, <1>4, <1>8, <1>9, <1>10, <1>11, <1>12, <2>1, <2>2, <2>3, <2>4, ResponseGiven
<1>14. RequestInv'
  BY <1>1, <1>3, <1>6, <1>9, <1>10, <1>12, FromWireFacts, RequestServed DEF HttpInv
<1>15. ExchangeInv'
  BY <1>1, <1>10, ExchangeRests DEF HttpInv
<1>16. Collecting'
  <2>1. AnswerFirst(RESPONSE) => AnswerFirst(RESPONSE)'
    BY <1>8, <1>9, <1>10, <1>11, AnswerGiven DEF s
  <2> QED BY <1>1, <1>10, <2>1 DEF HttpInv, Collecting, RESPONSE, Known
<1> QED BY <1>10, <1>13, <1>14, <1>15, <1>16 DEF HttpInv

LEMMA TargetAbortsKeeps ==
  ASSUME SessionInv, HttpInv, TargetAborts
  PROVE  SessionInv' /\ HttpInv'
<1>1. /\ execution.state = "running" /\ execution' = [execution EXCEPT !.state = "over"]
      /\ stream' = stream /\ wire' = wire /\ session' = session /\ exchange' = exchange
  BY DEF TargetAborts
<1>2. SessionInv'
  BY <1>1, SessionRests
<1>3. /\ execution' \in Execution /\ execution'.state = "over" /\ execution'.answer = execution.answer
      /\ execution'.body = execution.body
  BY <1>1 DEF HttpInv, RequestInv, Execution
<1>4. RequestInv'
  BY <1>1, <1>3 DEF HttpInv, RequestInv
<1>5. ResponseInv'
  BY <1>1, <1>3 DEF HttpInv, ResponseInv
<1>6. ExchangeInv' /\ Collecting'
  BY <1>1 DEF HttpInv, ExchangeInv, Collecting, AnswerFirst, First, Said, Announces, Known
<1> QED BY <1>2, <1>4, <1>5, <1>6 DEF HttpInv

----------------------------------------------------------------------------
(* The session ends.                                                         *)
LEMMA ServerClosed ==
  ASSUME SessionInv, HttpInv, Closes(Server), execution' = execution,
         exchange' \in Exchange, exchange'.answers <= 1, ~exchange'.pending, ~exchange'.timer,
         Keeps(exchange, exchange'), exchange.stage = "none" => exchange' = exchange,
         exchange'.stage = "none" => exchange.stage = "none"
  PROVE  SessionInv' /\ HttpInv'
<1>1. /\ Server \in End /\ Node \in End /\ Other(Server) = Node /\ Server # Node
      /\ wire[Server] \in Seq(Frame) /\ wire[Node] \in Seq(Frame)
  BY SessionFacts
<1>2. /\ SessionInv' /\ session'[Node] = session[Node]
      /\ stream'[Node] = stream[Node] /\ ~stream'[Server].registered
      /\ stream'[Server].state = (IF stream[Server].state = "idle" THEN "idle" ELSE "closed")
      /\ stream'[Server].written = stream[Server].written
      /\ wire'[Server] = wire[Server] /\ wire'[Node] = << >>
  BY <1>1, ClosingKeeps
<1>3. FromWire(wire[Server], wire'[Server]) /\ FromWire(wire[Node], wire'[Node])
  BY <1>1, <1>2, FromWireFacts
<1>4. stream'[Server].state = "idle" => stream[Server].state = "idle"
  BY <1>2
<1>5. RequestInv' /\ ResponseInv'
  BY <1>2, <1>3, <1>4, RequestRests, ResponseRests DEF HttpInv, Keeps, ResponseInv
<1>6. ExchangeInv'
  BY <1>4, ExchangeGivenUp DEF HttpInv
<1>7. Collecting'
  BY <1>2 DEF Collecting, Known
<1> QED BY <1>2, <1>5, <1>6, <1>7 DEF HttpInv

LEMMA ServerLosesSessionKeeps ==
  ASSUME SessionInv, HttpInv, ServerLosesSession
  PROVE  SessionInv' /\ HttpInv'
<1> DEFINE x == Failed(exchange)
           y == RequestRemoved(x)
<1>1. Closes(Server) /\ exchange' = y /\ execution' = execution
  BY DEF ServerLosesSession
<1>2. /\ exchange \in Exchange /\ exchange.answers <= 1 /\ (exchange.timer => exchange.pending)
      /\ (exchange.stage = "none" => ~exchange.pending)
  BY DEF HttpInv, ExchangeInv
<1>3. /\ x \in Exchange /\ Keeps(exchange, x) /\ x.stage = exchange.stage /\ x.answers <= 1
      /\ exchange.stage = "none" => x = exchange
      /\ ~exchange.pending => ~x.pending
      /\ ~exchange.timer => ~x.timer
  BY <1>2, FailedFacts
<1>4. x.timer => x.pending
  <2>1. CASE exchange.stage = "request"
    <3>1. x = Settled(Answer(exchange))
      BY <2>1 DEF Failed
    <3> QED BY <1>2, <3>1, GivenUpFacts
  <2>2. CASE exchange.stage # "request"
    <3>1. ~exchange.pending
      BY <2>2 DEF HttpInv, ExchangeInv
    <3>2. ~exchange.timer
      BY <1>2, <3>1
    <3> QED BY <1>3, <3>2
  <2> QED BY <2>1, <2>2
<1> HIDE DEF x
<1>5. /\ y \in Exchange /\ Keeps(x, y) /\ y.stage = x.stage /\ y.answers <= 1
      /\ ~y.pending /\ ~y.timer
      /\ ~x.pending => y = x
  BY <1>3, <1>4, RequestRemovedFacts
<1> HIDE DEF y
<1>6. Keeps(exchange, exchange')
  BY <1>1, <1>3, <1>5, KeepsTwice
<1>7. exchange.stage = "none" => exchange' = exchange
  BY <1>1, <1>2, <1>3, <1>5
<1> QED BY <1>1, <1>3, <1>5, <1>6, <1>7, ServerClosed

LEMMA ServerSocketErrorKeeps ==
  ASSUME SessionInv, HttpInv, ServerSocketError
  PROVE  SessionInv' /\ HttpInv'
<1> DEFINE x == RequestRemoved(exchange)
           lost == [x EXCEPT !.stage = "lost"]
<1>1. /\ Closes(Server) /\ execution' = execution
      /\ exchange' = x \/ (exchange' = lost /\ x.stage = "response")
  BY DEF ServerSocketError
<1>2. /\ exchange \in Exchange /\ exchange.answers <= 1 /\ (exchange.timer => exchange.pending)
      /\ (exchange.stage = "none" => ~exchange.pending)
  BY DEF HttpInv, ExchangeInv
<1>3. /\ x \in Exchange /\ Keeps(exchange, x) /\ x.stage = exchange.stage /\ x.answers <= 1
      /\ ~x.pending /\ ~x.timer
      /\ ~exchange.pending => x = exchange
  BY <1>2, RequestRemovedFacts
<1> HIDE DEF x
<1>4. /\ lost \in Exchange /\ Keeps(x, lost) /\ lost.stage = "lost" /\ lost.answers <= 1
      /\ ~lost.pending /\ ~lost.timer
  BY <1>3 DEF Exchange, Keeps
<1>5. Keeps(exchange, lost)
  BY <1>3, <1>4, KeepsTwice
<1> HIDE DEF lost
<1>6. CASE exchange' = x
  BY <1>1, <1>2, <1>3, <1>6, ServerClosed
<1>7. CASE exchange' = lost /\ x.stage = "response"
  <2>1. exchange.stage # "none" /\ exchange'.stage # "none"
    BY <1>3, <1>4, <1>7
  <2> QED BY <1>1, <1>4, <1>5, <1>7, <2>1, ServerClosed
<1> QED BY <1>1, <1>6, <1>7

LEMMA NodeLosesSessionKeeps ==
  ASSUME SessionInv, HttpInv, NodeLosesSession
  PROVE  SessionInv' /\ HttpInv'
<1>1. /\ Closes(Node) /\ exchange' = exchange
      /\ execution' = [execution EXCEPT !.slot = FALSE, !.state = "over"]
  BY DEF NodeLosesSession
<1>2. /\ Server \in End /\ Node \in End /\ Other(Node) = Server /\ Server # Node
      /\ wire[Server] \in Seq(Frame) /\ wire[Node] \in Seq(Frame)
  BY SessionFacts
<1>3. /\ SessionInv' /\ session'[Node] = "closed"
      /\ stream'[Server] = stream[Server]
      /\ stream'[Node].state = (IF stream[Node].state = "idle" THEN "idle" ELSE "closed")
      /\ stream'[Node].written = stream[Node].written
      /\ stream'[Node].sendWindow = stream[Node].sendWindow
      /\ wire'[Node] = wire[Node] /\ wire'[Server] = << >>
  BY <1>1, <1>2, ClosingKeeps
<1>4. /\ execution' \in Execution /\ execution'.state = "over" /\ execution'.answer = execution.answer
      /\ execution'.body = execution.body /\ execution'.slot = FALSE
  BY <1>1 DEF HttpInv, RequestInv, Execution
<1>5. \A i \in 1..Len(wire'[Server]) : FALSE
  BY <1>3
<1>6. RequestInv'
  BY <1>1, <1>3, <1>4, <1>5 DEF HttpInv, RequestInv
<1>7. ResponseInv'
  BY <1>1, <1>3, <1>4 DEF HttpInv, ResponseInv
<1>8. ExchangeInv' /\ Collecting'
  BY <1>1, <1>3 DEF HttpInv, ExchangeInv, Collecting, AnswerFirst, First, Said, Announces, Known
<1> QED BY <1>3, <1>6, <1>7, <1>8 DEF HttpInv

LEMMA NodeKickedKeeps ==
  ASSUME SessionInv, HttpInv, NodeKicked
  PROVE  SessionInv' /\ HttpInv'
<1> DEFINE x == RequestRemoved(exchange)
<1>1. ServerCloses /\ exchange' = x /\ execution' = execution
  BY DEF NodeKicked
<1>2. SessionInv' /\ stream' = stream /\ wire' = wire /\ session'[Node] = session[Node]
  BY <1>1, ServerClosingKeeps
<1>3. /\ exchange \in Exchange /\ exchange.answers <= 1 /\ (exchange.timer => exchange.pending)
      /\ (exchange.stage = "none" \/ exchange.stage = "response" => ~exchange.pending)
  BY DEF HttpInv, ExchangeInv
<1>4. /\ x \in Exchange /\ Keeps(exchange, x) /\ x.stage = exchange.stage /\ x.answers <= 1
      /\ ~x.pending /\ ~x.timer
      /\ ~exchange.pending => x = exchange
  BY <1>3, RequestRemovedFacts
<1> HIDE DEF x
<1>5. \A e \in End : FromWire(wire[e], wire'[e])
  BY <1>2, SessionFacts, FromWireFacts
<1>6. RequestInv' /\ ResponseInv'
  BY <1>1, <1>2, <1>4, <1>5, SessionFacts, RequestRests, ResponseRests DEF HttpInv, Keeps, ResponseInv
<1>7. ExchangeInv'
  BY <1>1, <1>2, <1>3, <1>4, ExchangeGivenUp DEF HttpInv
<1>8. Collecting'
  BY <1>1, <1>2, <1>3, <1>4, CollectingRests DEF HttpInv, Keeps
<1> QED BY <1>2, <1>6, <1>7, <1>8 DEF HttpInv

(* The request leaves: what ends it carries its size.                        *)
Bounding(w, size) ==
  \A i \in 1..Len(w) : w[i].fin =>
    \/ w[i].type = "HEADERS" /\ size = 0
    \/ w[i].type = "DATA" /\ w[i].n = size /\ size > 0

LEMMA HeadersAre ==
  \A n, fin : Headers(n, fin).type = "HEADERS" /\ Headers(n, fin).n = n /\ Headers(n, fin).fin = fin
BY DEF Headers

LEMMA HeadersThatEnd ==
  ASSUME NEW s, Proper(s), s.state # "closed", NEW n \in Nat
  PROVE  LET q == SendHeaders(s, n, TRUE) IN
         /\ q = Result(q.stream, q.out) /\ q.stream.got = s.got
         /\ q.stream.registered = s.registered /\ q.out = <<Headers(n, TRUE)>>
<1>1. PICK fin \in BOOLEAN : fin = TRUE
  OBVIOUS
<1> DEFINE q == SendHeaders(s, n, fin)
<1>2. /\ q = Result(q.stream, q.out) /\ q.stream.got = s.got
      /\ q.stream.registered = s.registered /\ q.out = <<Headers(n, fin)>>
  <2> HIDE DEF q
  <2> QED BY HeadersFacts DEF q
<1> QED BY <1>1, <1>2

LEMMA EmptyRequest ==
  ASSUME NEW s, Proper(s), s.state = "idle"
  PROVE  LET q == SendHeaders(s, REQUEST, TRUE) IN
         /\ q = Result(q.stream, q.out) /\ Emits(s, q) /\ Begins(q.out) /\ q.stream.got = s.got
         /\ q.stream.registered = s.registered /\ Bounding(q.out, 0)
<1> DEFINE q == SendHeaders(s, REQUEST, TRUE)
           f == Headers(REQUEST, TRUE)
<1>1. REQUEST \in Nat /\ TRUE \in BOOLEAN /\ s.state # "closed"
  BY DEF REQUEST
<1>2. /\ q = Result(q.stream, q.out) /\ q.stream.got = s.got /\ q.stream.registered = s.registered
      /\ q.out = <<f>>
  BY <1>1, HeadersThatEnd
<1>3. Emits(s, q)
  BY <1>1, SendHeadersEmits
<1>4. f.type = "HEADERS"
  BY HeadersAre
<1> HIDE DEF q, f
<1>5. Begins(<<f>>) /\ Len(<<f>>) = 1 /\ <<f>>[1] = f
  BY <1>4, OneSent DEF Opens
<1>6. Bounding(q.out, 0)
  BY <1>2, <1>4, <1>5 DEF Bounding
<1> QED BY <1>2, <1>3, <1>5, <1>6 DEF q

WithBody(s, size) ==
  Joint(SendHeaders(s, REQUEST, FALSE), SendData(SendHeaders(s, REQUEST, FALSE).stream, size, TRUE))

LEMMA WholeBodySent ==
  ASSUME NEW s, Proper(s), s.state = "open", s.written = 0, NEW n \in Nat, n # 0
  PROVE  LET q == Body(s, n) IN
         /\ Emits(s, q) /\ Quiet(q.out) /\ q.stream.got = s.got /\ q.stream.registered = s.registered
         /\ \A i \in 1..Len(q.out) : q.out[i].fin => q.out[i].type = "DATA" /\ q.out[i].n = n
<1> DEFINE q == Body(s, n)
<1>1. IsBody(s, n, q)
  BY BodyFacts
<1> HIDE DEF q
<1>2. s.written + n = n
  OBVIOUS
<1> QED BY <1>1, <1>2 DEF IsBody, q

LEMMA WholeRequestSent ==
  ASSUME NEW s, Proper(s), s.state = "idle", s.written = 0, NEW size \in Nat, size # 0
  PROVE  LET q == WithBody(s, size) IN
         /\ q = Result(q.stream, q.out) /\ Emits(s, q) /\ Begins(q.out) /\ q.stream.got = s.got
         /\ q.stream.registered = s.registered /\ Bounding(q.out, size)
<1> DEFINE h == SendHeaders(s, REQUEST, FALSE)
           b == Body(h.stream, size)
           q == Joint(h, b)
           f == Headers(REQUEST, FALSE)
<1>1. REQUEST \in Nat /\ FALSE \in BOOLEAN /\ s.state # "closed" /\ size \in Nat
  BY DEF REQUEST
<1>2. /\ Emits(s, h) /\ h.stream.got = s.got /\ h.stream.written = s.written
      /\ h.stream.registered = s.registered /\ h.stream.state = "open" /\ NoEnd(h.out)
  BY <1>1, AnnounceFacts
<1>3. h.out = <<f>>
  BY <1>1, HeadersFacts
<1>4. f.type = "HEADERS"
  BY HeadersAre
<1>5. Proper(h.stream) /\ Sends(s, h) /\ h.out \in Seq(Frame)
      /\ h.stream.written \in Nat /\ h.stream.sendWindow \in Int
  BY <1>2 DEF Emits, Sends, Proper, StreamRecord
<1>6. q = WithBody(s, size)
  BY DEF WithBody, Body
<1> HIDE DEF h, f
<1>7. /\ Emits(h.stream, b) /\ Quiet(b.out) /\ b.stream.got = h.stream.got
      /\ b.stream.registered = h.stream.registered
      /\ \A i \in 1..Len(b.out) : b.out[i].fin => b.out[i].type = "DATA" /\ b.out[i].n = size
  <2>1. h.stream.written = 0
    BY <1>2
  <2> QED BY <1>2, <1>5, <2>1, WholeBodySent
<1> HIDE DEF b
<1>8. b.out \in Seq(Frame)
  BY <1>7 DEF Emits, Sends
<1>9. /\ q.out = h.out \o b.out /\ q.stream = b.stream
      /\ Emits(s, h) => Emits(s, q)
      /\ q = Result(q.stream, q.out)
  BY <1>5, <1>7, JointIs, SendsAfter
<1> HIDE DEF q
<1>10. Begins(h.out)
  BY <1>3, <1>4, OneSent DEF Opens
<1>11. Begins(q.out)
  BY <1>5, <1>7, <1>8, <1>9, <1>10, QuietJoined
<1>12. Bounding(q.out, size)
  <2> DEFINE u == h.out
             v == b.out
  <2>1. u \in Seq(Frame) /\ v \in Seq(Frame) /\ q.out = u \o v /\ NoEnd(u)
    BY <1>2, <1>5, <1>8, <1>9
  <2>2. ASSUME NEW i \in 1..Len(v), v[i].fin PROVE v[i].type = "DATA" /\ v[i].n = size /\ size > 0
    BY <1>2, <1>7, <2>2
  <2> HIDE DEF u, v
  <2>3. \A i \in 1..Len(u \o v) : \/ i \in 1..Len(u) /\ (u \o v)[i] = u[i]
                                  \/ i - Len(u) \in 1..Len(v) /\ (u \o v)[i] = v[i - Len(u)]
    BY <2>1, EndsJoined
  <2> DEFINE z == u \o v
  <2>4. \A i \in 1..Len(z) : \/ i \in 1..Len(u) /\ z[i] = u[i]
                             \/ i - Len(u) \in 1..Len(v) /\ z[i] = v[i - Len(u)]
    BY <2>3
  <2>5. q.out = z
    BY <2>1
  <2> HIDE DEF z
  <2>6. ASSUME NEW i \in 1..Len(z), z[i].fin
        PROVE  z[i].type = "DATA" /\ z[i].n = size /\ size > 0
    <3>1. CASE i \in 1..Len(u) /\ z[i] = u[i]
      BY <2>1, <2>6, <3>1 DEF NoEnd
    <3>2. CASE i - Len(u) \in 1..Len(v) /\ z[i] = v[i - Len(u)]
      BY <2>2, <2>6, <3>2
    <3> QED BY <2>4, <3>1, <3>2
  <2> QED BY <2>5, <2>6 DEF Bounding
<1> QED BY <1>2, <1>6, <1>7, <1>9, <1>11, <1>12

LEMMA RequestKeeps ==
  ASSUME SessionInv, HttpInv, Request
  PROVE  SessionInv' /\ HttpInv'
<1> DEFINE s == stream[Server]
<1>1. /\ session[Server] = "open" /\ s.state = "idle" /\ session' = session /\ execution' = execution
      /\ \E size \in 0..MaxUnits[Server] :
           /\ exchange' = [exchange EXCEPT !.size = size, !.pending = TRUE, !.timer = TRUE, !.stage = "request"]
           /\ LET headers == SendHeaders(s, REQUEST, size = 0)
                  body(t) == SendData(t, size, TRUE)
              IN Calls(Server, IF size = 0 THEN headers ELSE After(headers, body))
  BY DEF Request
<1>2. PICK size \in 0..MaxUnits[Server] :
           /\ exchange' = [exchange EXCEPT !.size = size, !.pending = TRUE, !.timer = TRUE, !.stage = "request"]
           /\ LET headers == SendHeaders(s, REQUEST, size = 0)
                  body(t) == SendData(t, size, TRUE)
              IN Calls(Server, IF size = 0 THEN headers ELSE After(headers, body))
  BY <1>1
<1>3. /\ Server \in End /\ Node \in End /\ Server # Node /\ Other(Server) = Node /\ Other(Node) = Server
      /\ Proper(s) /\ wire[Node] \in Seq(Frame)
  BY SessionFacts
<1>4. size \in Nat
  BY WindowAssumption, <1>3
<1>5. s.written = 0 /\ exchange.stage = "none" /\ exchange.answers = 0 /\ ~exchange.forwarded
      /\ exchange \in Exchange /\ execution \in Execution
  BY <1>1 DEF HttpInv, ExchangeInv, RequestInv
<1>6. \E q : /\ q = Result(q.stream, q.out) /\ Emits(s, q) /\ Begins(q.out) /\ q.stream.got = s.got
             /\ q.stream.registered = s.registered /\ Bounding(q.out, size) /\ Calls(Server, q)
  <2>1. CASE size = 0
    <3>1. Calls(Server, SendHeaders(s, REQUEST, TRUE))
      BY <1>2, <2>1
    <3> QED BY <1>1, <1>3, <2>1, <3>1, EmptyRequest
  <2>2. CASE size # 0
    <3>1. Calls(Server, WithBody(s, size))
      BY <1>2, <2>2 DEF WithBody, Joint, After
    <3>2. size \in Nat /\ size # 0
      BY <1>4, <2>2
    <3> QED BY <1>1, <1>3, <1>5, <3>1, <3>2, WholeRequestSent
  <2> QED BY <2>1, <2>2
<1>7. PICK q : /\ q = Result(q.stream, q.out) /\ Emits(s, q) /\ Begins(q.out) /\ q.stream.got = s.got
               /\ q.stream.registered = s.registered /\ Bounding(q.out, size) /\ Calls(Server, q)
  BY <1>6
<1>8. q.stream.state # "idle" /\ q.out \in Seq(Frame)
  BY <1>7 DEF Emits, Sends
<1>9. SessionInv' /\ wire'[Server] = q.out
  BY <1>1, <1>7, OpeningKeeps
<1>10. stream'[Server] = q.stream /\ stream'[Node] = stream[Node] /\ wire'[Node] = wire[Node]
  BY <1>1, <1>3, <1>7, <1>8, CallsAre
<1>11. /\ exchange' \in Exchange /\ exchange'.size = size /\ exchange'.pending /\ exchange'.timer
       /\ exchange'.stage = "request" /\ exchange'.answers = 0 /\ exchange'.forwarded = exchange.forwarded
       /\ exchange'.body = exchange.body /\ exchange'.chunks = exchange.chunks
  BY <1>2, <1>4, <1>5 DEF Exchange
<1>12. stream[Node].state = "idle"
  BY <1>1 DEF SessionInv, SessionOpening
<1>13. execution.state # "running" /\ execution.body = << >> /\ (execution.state = "none" \/ session[Node] = "closed")
  BY <1>12 DEF HttpInv, RequestInv
<1>14. RequestInv'
  <2>1. \A i \in 1..Len(wire'[Server]) : wire'[Server][i].fin =>
           \/ wire'[Server][i].type = "HEADERS" /\ exchange'.size = 0
           \/ wire'[Server][i].type = "DATA" /\ wire'[Server][i].n = exchange'.size /\ exchange'.size > 0
    BY <1>7, <1>9, <1>11 DEF Bounding
  <2> QED BY <1>1, <1>5, <1>8, <1>10, <1>12, <1>13, <2>1 DEF HttpInv, RequestInv
<1>15. ResponseInv'
  BY <1>1, <1>3, <1>10, <1>11, FromWireFacts, ResponseRests DEF HttpInv, ResponseInv
<1>16. ExchangeInv'
  BY <1>8, <1>10, <1>11 DEF ExchangeInv
<1>17. Collecting'
  BY <1>5, <1>7, <1>10, <1>11 DEF HttpInv, Collecting, AnswerFirst, First, Said, Announces, Known
<1> QED BY <1>9, <1>14, <1>15, <1>16, <1>17 DEF HttpInv

LEMMA HttpKeeps ==
  ASSUME SessionInv, HttpInv, HttpNext
  PROVE  SessionInv' /\ HttpInv'
<1>1. CASE Request
  BY <1>1, RequestKeeps
<1>2. CASE RequestTimeout
  BY <1>2, RequestTimeoutKeeps
<1>3. CASE ServerHandles
  BY <1>3, HandleResponseKeeps, HandleResponseDataKeeps, ServerHandlesRestKeeps DEF ServerHandles
<1>4. CASE NodeHandles
  BY <1>4, HandleMuxRequestKeeps, HandleRequestDataKeeps, NodeHandlesRestKeeps DEF NodeHandles
<1>5. CASE TargetAnswers
  BY <1>5, TargetAnswersKeeps
<1>6. CASE TargetAborts
  BY <1>6, TargetAbortsKeeps
<1>7. CASE ServerLosesSession
  BY <1>7, ServerLosesSessionKeeps
<1>8. CASE ServerSocketError
  BY <1>8, ServerSocketErrorKeeps
<1>9. CASE NodeLosesSession
  BY <1>9, NodeLosesSessionKeeps
<1>10. CASE NodeKicked
  BY <1>10, NodeKickedKeeps
<1> QED BY <1>1, <1>2, <1>3, <1>4, <1>5, <1>6, <1>7, <1>8, <1>9, <1>10 DEF HttpNext

----------------------------------------------------------------------------
(* Both users together: the one that is not served is at rest.               *)
LEMMA Started ==
  ASSUME SessionInit
  PROVE  /\ wire[Server] = << >> /\ wire[Node] = << >>
         /\ stream[Server] = NewStream /\ stream[Node] = [NewStream EXCEPT !.registered = FALSE]
         /\ \A e \in End : /\ stream[e].state = "idle" /\ stream[e].written = 0 /\ stream[e].got = << >>
                           /\ stream[e].sendWindow = Window /\ wire[e] = << >> /\ session[e] = "open"
<1>1. Server \in End /\ Node \in End /\ Server # Node
  BY EndsAssumption DEF End
<1>2. stream[Server] = NewStream /\ stream[Node] = [NewStream EXCEPT !.registered = FALSE]
  BY <1>1 DEF SessionInit, MuxInit
<1>3. \A e \in End : wire[e] = << >> /\ session[e] = "open"
  BY DEF SessionInit, MuxInit
<1>4. \A e \in End : /\ stream[e].state = "idle" /\ stream[e].written = 0 /\ stream[e].got = << >>
                     /\ stream[e].sendWindow = Window
  BY <1>2 DEF NewStream, End
<1> QED BY <1>1, <1>2, <1>3, <1>4

LEMMA NothingAnnounced ==
  \A n : First(<< >>, n) /\ Counted(<< >>)
BY DEF First, Counted

LEMMA SocksInit ==
  ASSUME SessionInit, SocksRests
  PROVE  SocksInv
<1>1. Server \in End /\ Node \in End
  BY DEF End
<1>2. << >> \in Seq(Item) /\ << >> \in Seq(Nat) /\ Len(<< >>) = 0
  OBVIOUS
<1>3. /\ socket \in Socket /\ socket.out = << >> /\ ~socket.ended /\ ~socket.closed
      /\ record \in Record /\ ~record.pending /\ ~record.ready /\ ~record.timer
  BY <1>2 DEF SocksRests, Socket, Record
<1>4. /\ tunnel \in Tunnel /\ ~tunnel.slot /\ tunnel.target = "none" /\ tunnel.in = << >>
  BY <1>2 DEF SocksRests, Tunnel
<1>5. ReplyInv
  BY <1>1, <1>3, Started DEF ReplyInv, Unanswered
<1>6. TargetInv
  BY <1>1, <1>2, <1>4, Started DEF TargetInv, Units1To
<1>7. Answering
  BY <1>1, <1>4, Started, NothingAnnounced DEF Answering, AnswerFirst
<1>8. UnansweredHasTimer /\ StreamHasOwner
  BY <1>1, <1>3, Started DEF UnansweredHasTimer, StreamHasOwner
<1> QED BY <1>5, <1>6, <1>7, <1>8 DEF SocksInv

LEMMA RestingExchange ==
  ASSUME HttpRests
  PROVE  /\ exchange \in Exchange /\ exchange.stage = "none" /\ exchange.answers = 0
         /\ ~exchange.pending /\ ~exchange.timer /\ ~exchange.forwarded
         /\ exchange.chunks = << >> /\ exchange.body = << >> /\ exchange.size = 0
         /\ execution \in Execution /\ ~execution.slot /\ execution.state = "none"
         /\ execution.body = << >> /\ execution.answer = 0
<1>1. << >> \in Seq(Nat)
  OBVIOUS
<1> QED BY <1>1 DEF HttpRests, Exchange, Execution

LEMMA HttpInvInit ==
  ASSUME SessionInit, HttpRests
  PROVE  HttpInv
<1>1. Server \in End /\ Node \in End /\ Window \in Nat
  BY WindowAssumption DEF End
<1>2. ExchangeInv
  BY <1>1, RestingExchange DEF ExchangeInv
<1>3. Collecting
  BY <1>1, RestingExchange, Started, NothingAnnounced DEF Collecting, AnswerFirst
<1>4. RequestInv
  BY <1>1, RestingExchange, Started DEF RequestInv
<1>5. ResponseInv
  BY <1>1, RestingExchange, Started DEF ResponseInv
<1> QED BY <1>2, <1>3, <1>4, <1>5 DEF HttpInv

LEMMA UsersInvInit == UsersInit => UsersInv
<1> SUFFICES ASSUME UsersInit PROVE UsersInv
  OBVIOUS
<1>1. /\ SessionInit /\ SocksRests /\ HttpRests /\ (part = "socks5" \/ part = "http")
  BY DEF UsersInit, TunnelInit, HttpInit, SocksRests, HttpRests
<1>2. SessionInv
  BY <1>1, SessionInvInit
<1>3. SocksInv /\ HttpInv
  BY <1>1, SocksInit, HttpInvInit
<1> QED BY <1>1, <1>2, <1>3 DEF UsersInv

LEMMA SocksRestsStill ==
  ASSUME SocksRests, UNCHANGED <<socket, record, tunnel>>
  PROVE  SocksRests'
BY DEF SocksRests

LEMMA HttpRestsStill ==
  ASSUME HttpRests, UNCHANGED <<exchange, execution>>
  PROVE  HttpRests'
BY DEF HttpRests

LEMMA UsersStutter ==
  ASSUME UsersInv, UNCHANGED <<tunnelVars, httpVars, part>>
  PROVE  UsersInv'
<1>1. /\ stream' = stream /\ wire' = wire /\ session' = session /\ socket' = socket /\ record' = record
      /\ tunnel' = tunnel /\ exchange' = exchange /\ execution' = execution /\ part' = part
  BY DEF tunnelVars, httpVars
<1>2. SessionInv'
  BY <1>1, SessionRests DEF UsersInv
<1>3. SocksInv => SocksInv'
  <2>1. SocketInv => SocketInv'
    BY <1>1 DEF SocketInv, ReplyInv, Unanswered, Relaying, UnansweredHasTimer, StreamHasOwner, Known
  <2>2. TargetInv => TargetInv'
    BY <1>1 DEF TargetInv, Known
  <2>3. Answering => Answering'
    BY <1>1 DEF Answering, Known, AnswerFirst
  <2> QED BY <2>1, <2>2, <2>3 DEF SocksInv, SocketInv
<1>4. HttpInv => HttpInv'
  <2>1. ExchangeInv => ExchangeInv'
    BY <1>1 DEF ExchangeInv
  <2>2. Collecting => Collecting'
    BY <1>1 DEF Collecting, Known, AnswerFirst
  <2>3. RequestInv => RequestInv'
    BY <1>1 DEF RequestInv
  <2>4. ResponseInv => ResponseInv'
    BY <1>1 DEF ResponseInv
  <2> QED BY <2>1, <2>2, <2>3, <2>4 DEF HttpInv
<1>5. (SocksRests => SocksRests') /\ (HttpRests => HttpRests')
  BY <1>1, SocksRestsStill, HttpRestsStill
<1> QED BY <1>1, <1>2, <1>3, <1>4, <1>5 DEF UsersInv

LEMMA UsersInvNext == UsersInv /\ [UsersNext]_<<tunnelVars, httpVars, part>> => UsersInv'
<1> SUFFICES ASSUME UsersInv, [UsersNext]_<<tunnelVars, httpVars, part>> PROVE UsersInv'
  OBVIOUS
<1>1. CASE part = "socks5" /\ TunnelNext /\ UNCHANGED <<exchange, execution>> /\ part' = part
  <2>1. SessionInv /\ SocksInv /\ HttpRests
    BY <1>1 DEF UsersInv
  <2>2. SessionInv' /\ SocksInv'
    BY <1>1, <2>1, TunnelKeeps
  <2>3. HttpRests'
    BY <1>1, <2>1, HttpRestsStill
  <2> QED BY <1>1, <2>2, <2>3 DEF UsersInv
<1>2. CASE part = "http" /\ HttpNext /\ UNCHANGED <<socket, record, tunnel>> /\ part' = part
  <2>1. SessionInv /\ HttpInv /\ SocksRests
    BY <1>2 DEF UsersInv
  <2>2. SessionInv' /\ HttpInv'
    BY <1>2, <2>1, HttpKeeps
  <2>3. SocksRests'
    BY <1>2, <2>1, SocksRestsStill
  <2> QED BY <1>2, <2>2, <2>3 DEF UsersInv
<1>3. CASE UNCHANGED <<tunnelVars, httpVars, part>>
  BY <1>3, UsersStutter
<1> QED BY <1>1, <1>2, <1>3 DEF UsersNext

----------------------------------------------------------------------------
(* What the invariant says to the clients.                                   *)
LEMMA HttpSafe ==
  ASSUME SessionInv, HttpInv
  PROVE  HttpTypeOK /\ AnsweredOnce /\ WholeBodies
<1>1. HttpTypeOK
  BY SessionTypes DEF HttpTypeOK, HttpInv, ExchangeInv, RequestInv
<1>2. AnsweredOnce
  BY DEF AnsweredOnce, HttpInv, ExchangeInv
<1>3. WholeRequest
  BY DEF WholeRequest, HttpInv, RequestInv
<1>4. SmallResponseWhole
  BY DEF SmallResponseWhole, Whole, HttpInv, ResponseInv
<1> QED BY <1>1, <1>2, <1>3, <1>4 DEF WholeBodies

LEMMA HttpRestsSafe ==
  ASSUME SessionInv, HttpRests
  PROVE  HttpTypeOK /\ AnsweredOnce /\ WholeBodies
<1>1. HttpTypeOK
  BY SessionTypes, RestingExchange DEF HttpTypeOK
<1>2. AnsweredOnce
  BY RestingExchange DEF AnsweredOnce
<1>3. WholeRequest /\ SmallResponseWhole
  BY RestingExchange DEF WholeRequest, SmallResponseWhole, Whole
<1> QED BY <1>1, <1>2, <1>3 DEF WholeBodies

LEMMA SocksRestsSafe ==
  ASSUME SessionInv, SocksRests
  PROVE  TunnelTypeOK /\ FaithfulRelay /\ StreamHasOwner
<1>1. << >> \in Seq(Item) /\ << >> \in Seq(Nat) /\ Len(<< >>) = 0
  OBVIOUS
<1>2. /\ socket \in Socket /\ socket.out = << >> /\ ~socket.closed
      /\ record \in Record /\ ~record.pending /\ ~record.ready /\ ~record.timer
  BY <1>1 DEF SocksRests, Socket, Record
<1>3. /\ tunnel \in Tunnel /\ ~tunnel.slot /\ tunnel.target = "none" /\ tunnel.in = << >>
  BY <1>1 DEF SocksRests, Tunnel
<1>4. TunnelTypeOK
  BY <1>2, <1>3, SessionTypes DEF TunnelTypeOK
<1>5. stream[Server].written \in Nat
  BY SessionFacts DEF StreamRecord
<1>6. FaithfulRelay
  <2>1. Units1To(tunnel.in) /\ Len(tunnel.in) <= stream[Server].written
    BY <1>1, <1>3, <1>5 DEF Units1To
  <2>2. DataUpTo(Len(socket.out)) = {}
    BY <1>1, <1>2 DEF DataUpTo
  <2> QED BY <2>1, <2>2 DEF FaithfulRelay
<1>7. StreamHasOwner
  BY <1>2 DEF StreamHasOwner
<1> QED BY <1>4, <1>6, <1>7

LEMMA UsersSafe ==
  UsersInv => UsersTypeOK /\ OneReplyInTime /\ FaithfulRelay /\ StreamHasOwner /\ AnsweredOnce /\ WholeBodies
<1> SUFFICES ASSUME UsersInv
             PROVE  UsersTypeOK /\ OneReplyInTime /\ FaithfulRelay /\ StreamHasOwner /\ AnsweredOnce /\ WholeBodies
  OBVIOUS
<1>1. CASE part = "socks5" /\ SocksInv /\ HttpRests
  <2>1. TunnelTypeOK /\ OneReplyUntilRemoved /\ FaithfulRelay /\ UnansweredHasTimer /\ StreamHasOwner
    BY <1>1, SocksTypes, SocksReplies, SocksRelays DEF UsersInv, SocksInv
  <2>2. HttpTypeOK /\ AnsweredOnce /\ WholeBodies
    BY <1>1, HttpRestsSafe DEF UsersInv
  <2> QED BY <2>1, <2>2 DEF UsersTypeOK, OneReplyInTime
<1>2. CASE part = "http" /\ HttpInv /\ SocksRests
  <2>1. HttpTypeOK /\ AnsweredOnce /\ WholeBodies
    BY <1>2, HttpSafe DEF UsersInv
  <2>2. TunnelTypeOK /\ FaithfulRelay /\ StreamHasOwner
    BY <1>2, SocksRestsSafe DEF UsersInv
  <2> QED BY <1>2, <2>1, <2>2 DEF UsersTypeOK, OneReplyInTime
<1> QED BY <1>1, <1>2 DEF UsersInv

LEMMA UsersInvAlways == UsersSpec => []UsersInv
BY UsersInvInit, UsersInvNext, PTL DEF UsersSpec

----------------------------------------------------------------------------
(* Whichever user the stream serves, the records of the server and the node  *)
(* keep their types, through every timeout and every end of the session.     *)
THEOREM UsersTypes == UsersSpec => []UsersTypeOK
BY UsersInvAlways, UsersSafe, PTL

(* A SOCKS5 application gets one reply, in front of the data, and while it   *)
(* waits a timer runs: handleTunnelReady, handleTunnelError, the two         *)
(* timeouts and the socket's own end never answer twice.                     *)
THEOREM RepliesOnce == UsersSpec => []OneReplyInTime
BY UsersInvAlways, UsersSafe, PTL

(* The application and the target each read a prefix of what the other       *)
(* wrote, in order, however often the stream buffers and whoever hangs up.   *)
THEOREM RelaysFaithfully == UsersSpec => []FaithfulRelay
BY UsersInvAlways, UsersSafe, PTL

(* No pending tunnel and no stream of the server's outlives the              *)
(* application's socket (releaseStream on 'close').                          *)
THEOREM StreamsOwned == UsersSpec => []StreamHasOwner
BY UsersInvAlways, UsersSafe, PTL

(* The browser is answered at most once, though request_timeout, the node's  *)
(* HEADERS, the end of its body and remove() all answer.                     *)
THEOREM AnswersOnce == UsersSpec => []AnsweredOnce
BY UsersInvAlways, UsersSafe, PTL

(* The target gets the whole body of a request, and the browser and the      *)
(* cache the whole of a response that fits the stream window.                *)
THEOREM BodiesWhole == UsersSpec => []WholeBodies
BY UsersInvAlways, UsersSafe, PTL
=============================================================================
