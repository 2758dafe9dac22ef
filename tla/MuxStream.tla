----------------------------- MODULE MuxStream -----------------------------
(* One stream of the multiplexer, at both of its ends: class Stream of       *)
(* server/lib/stream-mux.ts (client/lib/stream-mux.ts is the same code).     *)
(* An end is a record, and every method of the class an operator from the    *)
(* record before the call to the record after it, so that a handler that     *)
(* makes several calls is their composition.  The socket between the ends is *)
(* reliable and ordered; its connection window is the subject of MuxFlow.    *)
(*                                                                           *)
(* Data is counted in units of MAX_FRAME_SIZE bytes, numbered in the order   *)
(* the application hands them to sendData: a DATA frame carries one unit, or *)
(* nothing.                                                                  *)
EXTENDS Integers, FiniteSets, SequencesExt

CONSTANTS
  Server, Node,   \* the two ends; the server opens the stream
  Window,         \* DEFAULT_INITIAL_WINDOW, in units
  MaxUnits,       \* bound: MaxUnits[e], the units e hands to sendData
  MaxCalls        \* bound: frames on one end's wire when its application makes a call

ASSUME EndsAssumption == Server # Node

End == {Server, Node}

ASSUME WindowAssumption ==
  Window \in Nat \ {0} /\ MaxUnits \in [End -> Nat] /\ MaxCalls \in Nat

Other(e) == IF e = Server THEN Node ELSE Server

STREAM_STATE == {"idle", "open", "half_closed_local", "half_closed_remote", "closed"}
FRAME_TYPE == {"HEADERS", "TUNNEL_OPEN", "TUNNEL_CLOSE", "DATA", "WINDOW_UPDATE", "RST_STREAM"}

(* n is the number of a DATA frame's unit, 0 if it is empty, the increment   *)
(* of a WINDOW_UPDATE, and what HEADERS say; fin is the flag END_STREAM.     *)
Frame == [type : FRAME_TYPE, n : Nat, fin : BOOLEAN]

VARIABLES
  stream,   \* stream[e]: e's Stream and whether its mux still has it
  wire      \* wire[e]: the frames of e its peer has not handled, in order

muxVars == <<stream, wire>>

(* The fields of Stream, its membership in mux.streams, and histories:       *)
(* answered, whether sendHeaders sent a frame; written, the number of units  *)
(* given to sendData; got, those given to _onData.                           *)
StreamRecord == [
  state : STREAM_STATE, registered : BOOLEAN,
  sendWindow : Int, recvWindow : Int,
  bufferedData : Seq(Nat),
  answered : BOOLEAN, written : Nat, got : Seq(Nat) ]

NewStream == [ state |-> "idle", registered |-> TRUE,
               sendWindow |-> Window, recvWindow |-> Window,
               bufferedData |-> << >>,
               answered |-> FALSE, written |-> 0, got |-> << >> ]

(* What a call leaves behind: the Stream, and the frames it gave to          *)
(* _sendFrame, in order.                                                     *)
Result(s, frames) == [stream |-> s, out |-> frames]
After(r, Call(_)) == LET q == Call(r.stream) IN Result(q.stream, r.out \o q.out)
Unchanged(s) == Result(s, << >>)

Headers(n, fin) == [type |-> "HEADERS", n |-> n, fin |-> fin]
Data(unit, fin) == [type |-> "DATA", n |-> unit, fin |-> fin]
Control(type, n) == [type |-> type, n |-> n, fin |-> FALSE]

(* The units u, one frame each; the last one ends the stream if fin.         *)
DataFrames(u, fin) == [i \in 1..Len(u) |-> Data(u[i], fin /\ i = Len(u))]

----------------------------------------------------------------------------
(* The methods an application calls.                                         *)
SendHeaders(s, n, fin) ==
  IF s.state = "closed" THEN Unchanged(s)
  ELSE Result([s EXCEPT !.state = IF fin THEN "half_closed_local" ELSE "open",
                        !.answered = TRUE],
              <<Headers(n, fin)>>)

(* sendData of n units: as many as the stream window takes leave at once,    *)
(* the rest is buffered - and only a call that buffers nothing ends the      *)
(* stream.  (The clamp by the connection window only chooses between the     *)
(* immediate path and the loop, which do the same with a frame's payload.)   *)
Numbered(from, to) == [i \in 1..(to - from) |-> from + i]
Fits(s, n) == IF n <= s.sendWindow THEN n ELSE IF s.sendWindow > 0 THEN s.sendWindow ELSE 0

SendData(s, n, fin) ==
  LET k == Fits(s, n)
      now == Numbered(s.written, s.written + k)
      later == Numbered(s.written + k, s.written + n)
      all == k = n
  IN IF s.state \in {"closed", "half_closed_local"} THEN Unchanged(s)
     ELSE Result([s EXCEPT !.sendWindow = @ - k,
                           !.bufferedData = @ \o later,
                           !.written = @ + n,
                           !.state = IF all /\ fin THEN "half_closed_local" ELSE @],
                 IF n = 0 THEN <<Data(0, fin)>> ELSE DataFrames(now, all /\ fin))

Reset(s) ==
  IF s.state = "closed" THEN Unchanged(s)
  ELSE Result([s EXCEPT !.state = "closed", !.registered = FALSE],
              <<Control("RST_STREAM", 0)>>)

Close(s) ==
  CASE s.state = "closed" -> Unchanged(s)
    [] s.state = "open" -> Result([s EXCEPT !.state = "half_closed_local"], <<Data(0, TRUE)>>)
    [] OTHER -> Result([s EXCEPT !.state = "closed", !.registered = FALSE], << >>)

(* StreamMux.openTunnel on the stream it has just created.                   *)
OpenTunnel(s) == Result([s EXCEPT !.state = "open"], <<Control("TUNNEL_OPEN", 0)>>)

CloseTunnelSilent(s) ==
  IF ~s.registered THEN Unchanged(s)
  ELSE Result([s EXCEPT !.state = "closed", !.registered = FALSE], <<Control("TUNNEL_CLOSE", 0)>>)

CloseTunnelKept(s) ==
  IF ~s.registered THEN Unchanged(s)
  ELSE LET c == Close(s) IN Result(c.stream, Append(c.out, Control("TUNNEL_CLOSE", 0)))

(* StreamMux.closeTunnel: half-close, TUNNEL_CLOSE, and the stream is gone.  *)
CloseTunnel(s) ==
  IF ~s.registered THEN Unchanged(s)
  ELSE LET c == Close(s) IN
       Result([c.stream EXCEPT !.state = "closed", !.registered = FALSE],
              Append(c.out, Control("TUNNEL_CLOSE", 0)))

----------------------------------------------------------------------------
(* Stream._handleFrame.  The callbacks it makes are the application's: the   *)
(* modules that extend this one run them on the result.                      *)
HandleHeaders(s, f) ==
  Unchanged([s EXCEPT !.state = IF f.fin THEN "half_closed_remote" ELSE "open"])

RestoreUnrecorded(s) ==
  IF 2 * s.recvWindow < Window
    THEN Result(s, <<Control("WINDOW_UPDATE", Window - s.recvWindow)>>)
    ELSE Unchanged(s)

RestoreWindow(s) ==
  IF 2 * s.recvWindow < Window
    THEN Result([s EXCEPT !.recvWindow = Window],
                <<Control("WINDOW_UPDATE", Window - s.recvWindow)>>)
    ELSE Unchanged(s)

HandleData(s, f) ==
  LET size == IF f.n = 0 THEN 0 ELSE 1
      r == RestoreWindow([s EXCEPT !.recvWindow = @ - size])
  IN Result([r.stream EXCEPT !.got = IF f.n = 0 THEN @ ELSE Append(@, f.n),
                             !.state = IF f.fin THEN "half_closed_remote" ELSE @],
            r.out)

HandleResetKept(s) == Unchanged([s EXCEPT !.state = "closed"])
HandleReset(s) == Unchanged([s EXCEPT !.state = "closed", !.registered = FALSE])

(* _flushBuffered: whatever the state, as long as the window is open.        *)
FlushBuffered(s) ==
  LET k == Fits(s, Len(s.bufferedData))
  IN Result([s EXCEPT !.sendWindow = @ - k,
                      !.bufferedData = SubSeq(@, k + 1, Len(@))],
            DataFrames(SubSeq(s.bufferedData, 1, k), FALSE))

HandleWindowUpdateNoFlush(s, f) == Unchanged([s EXCEPT !.sendWindow = @ + f.n])
HandleWindowUpdate(s, f) ==
  FlushBuffered([s EXCEPT !.sendWindow = @ + f.n])

(* StreamMux._handleFrame: a frame for a stream the mux does not have is     *)
(* dropped, except one that opens a stream.  At the node that is the         *)
(* server's first frame.  At the server it is a late HEADERS of a stream it  *)
(* retired: dispatchClientStream resets the newcomer (releaseOrphanStream).  *)
Opens(f) == f.type \in {"HEADERS", "TUNNEL_OPEN"}

HandleFrame(e, s, f) ==
  CASE s.registered /\ f.type = "HEADERS" -> HandleHeaders(s, f)
    [] s.registered /\ f.type = "DATA" -> HandleData(s, f)
    [] s.registered /\ f.type = "RST_STREAM" -> HandleReset(s)
    [] s.registered /\ f.type = "WINDOW_UPDATE" -> HandleWindowUpdate(s, f)
    [] ~s.registered /\ f.type = "HEADERS" /\ e = Server ->
         Result(s, <<Control("RST_STREAM", 0)>>)
    [] ~s.registered /\ Opens(f) /\ e = Node ->
         HandleHeaders(NewStream, f)
    [] OTHER -> Unchanged(s)

----------------------------------------------------------------------------
(* The server has created its Stream; the node knows nothing of it.          *)
MuxInit ==
  /\ stream = [e \in End |-> IF e = Server THEN NewStream
                             ELSE [NewStream EXCEPT !.registered = FALSE]]
  /\ wire = [e \in End |-> << >>]

(* End e takes the result r; Deliver also takes the frame that caused it     *)
(* off the peer's wire.                                                      *)
Become(e, r) ==
  /\ stream' = [stream EXCEPT ![e] = r.stream]
  /\ wire' = [wire EXCEPT ![e] = @ \o r.out]

Deliver(e, r) ==
  /\ stream' = [stream EXCEPT ![e] = r.stream]
  /\ wire' = [wire EXCEPT ![e] = @ \o r.out, ![Other(e)] = Tail(@)]

Incoming(e) == Head(wire[Other(e)])

----------------------------------------------------------------------------
(* An application that calls whatever the code somewhere calls, at any time: *)
(* the server opens the stream once; from then on each end may write, close  *)
(* and, at the server, reset or close the tunnel; the node answers once.     *)
Opened(e) == stream[e].state # "idle"
MayCall(e) == Len(wire[e]) < MaxCalls

Open ==
  /\ ~Opened(Server)
  /\ \/ \E fin \in BOOLEAN : Become(Server, SendHeaders(stream[Server], 0, fin))
     \/ Become(Server, OpenTunnel(stream[Server]))

Write(e) ==
  /\ Opened(e) /\ MayCall(e)
  /\ \E n \in 0..(MaxUnits[e] - stream[e].written), fin \in BOOLEAN :
       Become(e, SendData(stream[e], n, fin))

Respond ==
  /\ Opened(Node) /\ MayCall(Node) /\ ~stream[Node].answered
  /\ Become(Node, SendHeaders(stream[Node], 0, FALSE))

CloseStream(e) == Opened(e) /\ MayCall(e) /\ Become(e, Close(stream[e]))

ServerRetires ==
  /\ Opened(Server) /\ MayCall(Server)
  /\ \/ Become(Server, Reset(stream[Server]))
     \/ Become(Server, CloseTunnel(stream[Server]))

Receive(e) ==
  /\ wire[Other(e)] # << >>
  /\ Deliver(e, HandleFrame(e, stream[e], Incoming(e)))

MuxNext ==
  \/ Open
  \/ Respond
  \/ ServerRetires
  \/ \E e \in End : Write(e) \/ CloseStream(e) \/ Receive(e)

MuxSpec == MuxInit /\ [][MuxNext]_muxVars

(* The socket delivers: that is all the fairness there is.                   *)
MuxFairness == \A e \in End : WF_muxVars(Receive(e))
MuxFairSpec == MuxSpec /\ MuxFairness
----------------------------------------------------------------------------
(* Types.                                                                    *)
MuxTypeOK ==
  /\ stream \in [End -> StreamRecord]
  /\ wire \in [End -> Seq(Frame)]
  /\ \A e \in End : stream[e].registered => stream[e].state # "closed"

(* The application gets the peer's data in order, each unit once, whatever   *)
(* is buffered and flushed in between.                                       *)
OrderedDelivery ==
  \A e \in End : \A i \in 1..Len(stream[e].got) :
    stream[e].got[i] = i /\ i <= stream[Other(e)].written

(* While both ends keep the stream, what a sender may send, what is in       *)
(* flight and what is being granted back make up the receiver's window: no   *)
(* grant is lost between the two, the receiver is never overrun, and no two  *)
(* grants are ever under way to one sender.                                  *)
DataIn(frames) == {i \in 1..Len(frames) : frames[i].type = "DATA" /\ frames[i].n > 0}
UpdatesIn(frames) == {i \in 1..Len(frames) : frames[i].type = "WINDOW_UPDATE"}
StreamWindowConserved ==
  \A e \in End :
    LET p == Other(e)
        held == stream[e].sendWindow + Cardinality(DataIn(wire[e]))
    IN "closed" \notin {stream[e].state, stream[p].state} =>
      /\ \/ UpdatesIn(wire[p]) = {} /\ held = stream[p].recvWindow
         \/ \E i \in 1..Len(wire[p]) :
              UpdatesIn(wire[p]) = {i} /\ held + wire[p][i].n = stream[p].recvWindow
      /\ stream[e].sendWindow >= 0 /\ stream[p].recvWindow <= Window

(* Buffered data is never stuck: it leaves unless the peer, or this end,     *)
(* gives the stream up.                                                      *)
BufferDrains ==
  \A e \in End :
    stream[e].bufferedData # << >> ~>
      \/ stream[e].bufferedData = << >>
      \/ \E q \in End : stream[q].state = "closed"
=============================================================================
