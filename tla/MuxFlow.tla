------------------------------ MODULE MuxFlow ------------------------------
(* Connection-level flow control of the stream multiplexer that the server   *)
(* and a node run over one WebSocket: server/lib/stream-mux.ts, of which     *)
(* client/lib/stream-mux.ts is the same code.  Both ends queue frames in a   *)
(* FIFO (_sendBuffer), a flush pass moves a batch of them to the socket when *)
(* the connection window allows it, and the receiver grants the bytes back   *)
(* with WINDOW_UPDATE frames that travel through the same FIFO.              *)
(*                                                                           *)
(* What the streams send is left open (SendData, SendControl): any DATA and  *)
(* any control frame may be queued at any time.  A frame carries no payload; *)
(* it is stamped with two running totals of its sender, so that sizes are    *)
(* differences of neighbours: data, the DATA bytes queued up to and          *)
(* including it, and credit, the window granted up to and including it.      *)
EXTENDS Integers, Sequences

CONSTANTS
  Server, Node,     \* the two ends of the socket
  Sources,          \* the ends that send DATA
  InitialWindow,    \* [Peer -> Nat]: options.connectionWindow || DEFAULT_CONNECTION_WINDOW
  DefaultWindow,    \* DEFAULT_CONNECTION_WINDOW
  MaxFrame,         \* MAX_FRAME_SIZE
  MaxBatch,         \* maxBatchSize of a flush pass
  MaxIncrement,     \* MAX_WINDOW_INCREMENT
  MaxDeferrals,     \* MAX_DEFERRALS
  MaxBytes,         \* bound: DATA bytes one end queues in a behaviour
  MaxFrames         \* bound: frames of one end queued or in flight when a stream adds one

Peer == {Server, Node}

ASSUME PeerAssumption == Server # Node /\ Sources \subseteq Peer

ASSUME SizeAssumption ==
  /\ InitialWindow \in [Peer -> Nat \ {0}]
  /\ {DefaultWindow, MaxFrame, MaxBatch, MaxIncrement} \subseteq Nat \ {0}
  /\ {MaxDeferrals, MaxBytes, MaxFrames} \subseteq Nat
  /\ DefaultWindow + MaxFrame <= MaxIncrement

VARIABLES
  frames,      \* frames[e]: the frames of e that its peer has not handled, in order
  onWire,      \* onWire[e]: how many of them ws.send has taken; the rest is _sendBuffer
  sending,     \* _sending: a flush pass is scheduled, or a ws.send callback will run one
  sendWindow,  \* connectionSendWindow
  recvWindow,  \* connectionRecvWindow
  deferrals,   \* _deferrals
  timer,       \* _backpressureTimer is armed
  handled      \* handled[e]: the totals of e's last handled frame (history)

vars == <<frames, onWire, sending, sendWindow, recvWindow, deferrals, timer, handled>>

Other(e) == IF e = Server THEN Node ELSE Server

FrameType == {"DATA", "WINDOW_UPDATE", "CONTROL"}
Frame == [type : FrameType, data : Nat, credit : Nat]

(* The totals after the i-th frame of e, and what the i-th frame itself      *)
(* carries.                                                                  *)
Stamp(e, i) == IF i = 0 THEN handled[e]
               ELSE [data |-> frames[e][i].data, credit |-> frames[e][i].credit]
Last(e) == Stamp(e, Len(frames[e]))
PayloadSize(e, i) == Stamp(e, i).data - Stamp(e, i - 1).data
Increment(e, i) == Stamp(e, i).credit - Stamp(e, i - 1).credit

(* _sendBuffer.length, and the DATA bytes and the window that travel from e  *)
(* to its peer.                                                              *)
Buffered(e) == Len(frames[e]) - onWire[e]
InFlight(e) == Stamp(e, onWire[e]).data - handled[e].data
Granting(e) == Last(e).credit - handled[e].credit

----------------------------------------------------------------------------
Init ==
  /\ frames = [e \in Peer |-> << >>]
  /\ onWire = [e \in Peer |-> 0]
  /\ sending = [e \in Peer |-> FALSE]
  /\ sendWindow = InitialWindow
  /\ recvWindow = InitialWindow
  /\ deferrals = [e \in Peer |-> 0]
  /\ timer = [e \in Peer |-> FALSE]
  /\ handled = [e \in Peer |-> [data |-> 0, credit |-> 0]]

(* A new frame of e behind its last one: _sendFrame's push.                  *)
NewFrame(e, type, bytes, increment) ==
  [type |-> type, data |-> Last(e).data + bytes, credit |-> Last(e).credit + increment]

(* _sendFrame called by a stream or by ping: the frame is queued and a flush *)
(* pass is scheduled unless one is pending.                                  *)
SendFrame(e, type, bytes) ==
  /\ Len(frames[e]) < MaxFrames
  /\ frames' = [frames EXCEPT ![e] = Append(@, NewFrame(e, type, bytes, 0))]
  /\ sending' = [sending EXCEPT ![e] = TRUE]
  /\ UNCHANGED <<onWire, sendWindow, recvWindow, deferrals, timer, handled>>

(* A DATA frame of a stream, the empty one that carries END_STREAM included. *)
SendData(e) ==
  /\ e \in Sources
  /\ \E bytes \in 0..MaxFrame :
       /\ Last(e).data + bytes <= MaxBytes
       /\ SendFrame(e, "DATA", bytes)

(* HEADERS, TUNNEL_OPEN, RST_STREAM, PING, PONG, a stream's WINDOW_UPDATE.   *)
SendControl(e) == SendFrame(e, "CONTROL", 0)

----------------------------------------------------------------------------
(* One pass of _flushSendBuffer.  A batch is a prefix of the buffer; where   *)
(* it is cut depends on header and JSON lengths, which the model leaves out: *)
(* its DATA payload fits into MaxBatch, unless it is one frame.              *)
BatchBytes(e, n) == Stamp(e, onWire[e] + n).data - Stamp(e, onWire[e]).data
Batches(e) == {n \in 1..Buffered(e) : n = 1 \/ BatchBytes(e, n) <= MaxBatch}
HasData(e, n) == \E i \in onWire[e] + 1 .. onWire[e] + n : frames[e][i].type = "DATA"

ExhaustedBelowZero(e, n) == sendWindow[e] < 0 /\ HasData(e, n)
Exhausted(e, n) == sendWindow[e] <= 0 /\ HasData(e, n)

(* The window is exhausted: the batch is put back, whatever else is in it.   *)
PutBack(e, n, armed) ==
  /\ Exhausted(e, n)
  /\ sending' = [sending EXCEPT ![e] = FALSE]
  /\ timer' = [timer EXCEPT ![e] = armed]
  /\ UNCHANGED <<frames, onWire, sendWindow, recvWindow, deferrals, handled>>

(* The socket holds more than OUTBOUND_HIGH_WATER and the deferral budget is *)
(* not spent: the batch is put back and the retry timer armed.               *)
DeferForever(e, n, armed) ==
  /\ ~Exhausted(e, n)
  /\ deferrals' = [deferrals EXCEPT ![e] = IF @ < MaxDeferrals THEN @ + 1 ELSE 0]
  /\ sending' = [sending EXCEPT ![e] = FALSE]
  /\ timer' = [timer EXCEPT ![e] = TRUE]
  /\ UNCHANGED <<frames, onWire, sendWindow, recvWindow, handled>>

DeferOnceMore(e, n, armed) ==
  /\ ~Exhausted(e, n)
  /\ deferrals[e] <= MaxDeferrals
  /\ deferrals' = [deferrals EXCEPT ![e] = @ + 1]
  /\ sending' = [sending EXCEPT ![e] = FALSE]
  /\ timer' = [timer EXCEPT ![e] = TRUE]
  /\ UNCHANGED <<frames, onWire, sendWindow, recvWindow, handled>>

Defer(e, n, armed) ==
  /\ ~Exhausted(e, n)
  /\ deferrals[e] < MaxDeferrals
  /\ deferrals' = [deferrals EXCEPT ![e] = @ + 1]
  /\ sending' = [sending EXCEPT ![e] = FALSE]
  /\ timer' = [timer EXCEPT ![e] = TRUE]
  /\ UNCHANGED <<frames, onWire, sendWindow, recvWindow, handled>>

(* The batch is debited and given to ws.send, whose callback runs the next   *)
(* pass: sending stays set.                                                  *)
Transmit(e, n, armed) ==
  /\ ~Exhausted(e, n)
  /\ deferrals' = [deferrals EXCEPT ![e] = 0]
  /\ sendWindow' = [sendWindow EXCEPT ![e] = @ - BatchBytes(e, n)]
  /\ onWire' = [onWire EXCEPT ![e] = @ + n]
  /\ sending' = [sending EXCEPT ![e] = TRUE]
  /\ timer' = [timer EXCEPT ![e] = armed]
  /\ UNCHANGED <<frames, recvWindow, handled>>

Pass(e, armed) ==
  \E n \in Batches(e) :
    \/ PutBack(e, n, armed)
    \/ Defer(e, n, armed)
    \/ Transmit(e, n, armed)

Flush(e) ==
  /\ sending[e]
  /\ IF Buffered(e) = 0
       THEN /\ sending' = [sending EXCEPT ![e] = FALSE]
            /\ UNCHANGED <<frames, onWire, sendWindow, recvWindow, deferrals, timer, handled>>
       ELSE Pass(e, timer[e])

(* The retry timer runs a pass itself unless one is pending.                 *)
RetryTimer(e) ==
  /\ timer[e]
  /\ IF ~sending[e] /\ Buffered(e) > 0
       THEN Pass(e, FALSE)
       ELSE /\ timer' = [timer EXCEPT ![e] = FALSE]
            /\ UNCHANGED <<frames, onWire, sending, sendWindow, recvWindow, deferrals, handled>>

----------------------------------------------------------------------------
(* _checkConnectionWindow with w bytes of window left: below half of the     *)
(* default, the window is restored and the difference queued as a grant.     *)
NeedsGrant(w) == 2 * w < DefaultWindow
DeficitDoubled(w) == DefaultWindow + DefaultWindow - w
Deficit(w) == DefaultWindow - w

CheckWindow(e, w, rest) ==
  IF NeedsGrant(w)
    THEN /\ recvWindow' = [recvWindow EXCEPT ![e] = w + Deficit(w)]
         /\ frames' = [rest EXCEPT ![e] = Append(@, NewFrame(e, "WINDOW_UPDATE", 0, Deficit(w)))]
         /\ sending' = [sending EXCEPT ![e] = TRUE]
    ELSE /\ recvWindow' = [recvWindow EXCEPT ![e] = w]
         /\ frames' = rest
         /\ UNCHANGED sending

(* The interval that checks the window every second.                         *)
WindowInterval(e) ==
  /\ NeedsGrant(recvWindow[e])
  /\ CheckWindow(e, recvWindow[e], frames)
  /\ UNCHANGED <<onWire, sendWindow, deferrals, timer, handled>>

(* _handleFrame at e of the first frame its peer p put on the wire.          *)
TakeFrame(p) ==
  /\ onWire' = [onWire EXCEPT ![p] = @ - 1]
  /\ handled' = [handled EXCEPT ![p] = Stamp(p, 1)]
  /\ UNCHANGED <<deferrals, timer>>

Rest(p) == [frames EXCEPT ![p] = Tail(@)]

HandleDataUndebited(e, p) ==
  /\ frames[p][1].type = "DATA"
  /\ CheckWindow(e, recvWindow[e], Rest(p))
  /\ UNCHANGED sendWindow

HandleData(e, p) ==
  /\ frames[p][1].type = "DATA"
  /\ IF PayloadSize(p, 1) > 0
       THEN CheckWindow(e, recvWindow[e] - PayloadSize(p, 1), Rest(p))
       ELSE frames' = Rest(p) /\ UNCHANGED <<recvWindow, sending>>
  /\ UNCHANGED sendWindow

(* A grant inside the accepted range is credited, and a flush the window     *)
(* stopped is resumed; any other increment is ignored.                       *)
HandleGrantNoResume(e, p) ==
  /\ frames[p][1].type = "WINDOW_UPDATE"
  /\ frames' = Rest(p)
  /\ sendWindow' = [sendWindow EXCEPT ![e] = @ + Increment(p, 1)]
  /\ UNCHANGED <<recvWindow, sending>>

HandleGrant(e, p) ==
  /\ frames[p][1].type = "WINDOW_UPDATE"
  /\ frames' = Rest(p)
  /\ IF Increment(p, 1) \in 1..MaxIncrement
       THEN /\ sendWindow' = [sendWindow EXCEPT ![e] = @ + Increment(p, 1)]
            /\ sending' = [sending EXCEPT ![e] = @ \/ Buffered(e) > 0]
       ELSE UNCHANGED <<sendWindow, sending>>
  /\ UNCHANGED recvWindow

(* The other frames concern streams and callbacks, not the connection window.*)
HandleControl(e, p) ==
  /\ frames[p][1].type = "CONTROL"
  /\ frames' = Rest(p)
  /\ UNCHANGED <<sendWindow, recvWindow, sending>>

Receive(e) ==
  LET p == Other(e) IN
  /\ onWire[p] > 0
  /\ TakeFrame(p)
  /\ \/ HandleData(e, p)
     \/ HandleGrant(e, p)
     \/ HandleControl(e, p)

----------------------------------------------------------------------------
Next ==
  \E e \in Peer :
    \/ SendData(e)
    \/ SendControl(e)
    \/ Flush(e)
    \/ RetryTimer(e)
    \/ WindowInterval(e)
    \/ Receive(e)

Spec == Init /\ [][Next]_vars

(* The event loop runs scheduled callbacks, timers fire and the socket       *)
(* delivers what it took: each is weakly fair.  Streams owe no traffic.      *)
Fairness ==
  \A e \in Peer :
    /\ WF_vars(Flush(e))
    /\ WF_vars(RetryTimer(e))
    /\ WF_vars(WindowInterval(e))
    /\ WF_vars(Receive(e))

FairSpec == Spec /\ Fairness

----------------------------------------------------------------------------
(* Types.                                                                    *)
TypeOK ==
  /\ frames \in [Peer -> Seq(Frame)]
  /\ onWire \in [Peer -> Nat]
  /\ \A e \in Peer : onWire[e] <= Len(frames[e])
  /\ sending \in [Peer -> BOOLEAN]
  /\ sendWindow \in [Peer -> Int]
  /\ recvWindow \in [Peer -> Int]
  /\ deferrals \in [Peer -> 0..MaxDeferrals]
  /\ timer \in [Peer -> BOOLEAN]
  /\ handled \in [Peer -> [data : Nat, credit : Nat]]

(* No byte of window is ever lost or invented: what a sender may still send, *)
(* what it has in flight and what is being granted back to it add up to what *)
(* its receiver believes, up to the difference in their configured windows.  *)
(* (The regression _handleFrame's comment describes broke exactly this.)     *)
Conservation ==
  \A e \in Peer :
    LET p == Other(e) IN
    sendWindow[e] + InFlight(e) + Granting(p) - InitialWindow[e]
      = recvWindow[p] - InitialWindow[p]

(* A receiver never has more than its window and one batch in flight towards *)
(* it: the debit comes after the check, so a pass may overdraw the window by *)
(* the batch it sends, and never by more.                                    *)
LargestPass == IF MaxBatch > MaxFrame THEN MaxBatch ELSE MaxFrame
InFlightBounded ==
  \A e \in Peer : InFlight(e) < recvWindow[Other(e)] + InitialWindow[e]
                                 - InitialWindow[Other(e)] + LargestPass

(* The sanity check on increments never rejects a grant the peer computed.   *)
GrantsAccepted ==
  \A e \in Peer : \A i \in 1..Len(frames[e]) :
    frames[e][i].type = "WINDOW_UPDATE" => Increment(e, i) \in 1..MaxIncrement

(* No lost wakeup: queued frames without a scheduled pass wait either for    *)
(* the retry timer or for a window that really is exhausted.                 *)
NoLostWakeup ==
  \A e \in Peer :
    Buffered(e) > 0 /\ ~sending[e] =>
      timer[e] \/ (sendWindow[e] <= 0 /\ HasData(e, Buffered(e)))

(* DATA bytes leave only through an open connection window (issue #119).     *)
DebitNeedsWindow == \A e \in Peer : sendWindow'[e] < sendWindow[e] => sendWindow[e] > 0
DataNeedsWindow == [][DebitNeedsWindow]_vars

(* Every DATA byte that is queued eventually reaches the peer, however full  *)
(* the socket's buffer stays.                                                *)
EveryByteArrives ==
  \A e \in Peer : handled[e].data < Last(e).data ~> handled[e].data = Last(e).data

(* Consumed bytes come back: a sender whose window is exhausted is           *)
(* eventually granted more.                                                  *)
WindowReopens == \A e \in Peer : sendWindow[e] <= 0 ~> sendWindow[e] > 0
=============================================================================
