-------------------------- MODULE MuxStream_proofs --------------------------
(* A stream delivers what its ends write in order, each unit once, for any   *)
(* window, any amount of data and any calls of the two applications.         *)
EXTENDS MuxStream, FiniteSetTheorems, TLAPS

IsUnit(f) == f.type = "DATA" /\ f.n > 0

(* The frames w carry the units lo + 1 .. hi, in order.  (Said without a sum *)
(* or a recursion: none is outside, none is missing, and they ascend.)       *)
InOrder(w, lo, hi) ==
  /\ \A i \in 1..Len(w) : IsUnit(w[i]) => lo < w[i].n /\ w[i].n <= hi
  /\ \A i, j \in 1..Len(w) : i < j /\ IsUnit(w[i]) /\ IsUnit(w[j]) => w[i].n < w[j].n
  /\ \A u \in (lo + 1)..hi : \E i \in 1..Len(w) : IsUnit(w[i]) /\ w[i].n = u

(* What s has sent: all it was given but what is buffered.                   *)
Sent(s) == s.written - Len(s.bufferedData)

(* The buffer holds the newest units, and only waits for a window that is    *)
(* closed: so sendData can never overtake it.                                *)
Sending(s) ==
  /\ Len(s.bufferedData) <= s.written
  /\ \A i \in 1..Len(s.bufferedData) : s.bufferedData[i] = Sent(s) + i
  /\ Len(s.bufferedData) > 0 => s.sendWindow <= 0

Proper(s) == s \in StreamRecord /\ Sending(s) /\ (s.registered => s.state # "closed")

(* What a call of s promises: it sends the next units, in order.             *)
Sends(s, q) ==
  /\ Proper(q.stream) /\ q.out \in Seq(Frame)
  /\ Sent(s) <= Sent(q.stream) /\ InOrder(q.out, Sent(s), Sent(q.stream))

Emits(s, q) ==
  /\ Sends(s, q)
  /\ q.stream.registered => s.registered
  /\ q.stream.state # "idle"

Quiet(w) == \A i \in 1..Len(w) : ~Opens(w[i])

Begins(w) == w # << >> /\ Opens(w[1]) /\ \A i \in 2..Len(w) : ~Opens(w[i])

Listens(s) == s.registered \/ s.state = "idle"

(* From e to its peer: what the peer got, what is under way and what is yet  *)
(* to be sent are all e was given.                                           *)
Delivering(e) ==
  LET p == Other(e) IN
  /\ \A i \in 1..Len(stream[p].got) : stream[p].got[i] = i
  /\ Len(stream[p].got) <= Sent(stream[e])
  /\ Listens(stream[p]) => InOrder(wire[e], Len(stream[p].got), Sent(stream[e]))

(* The stream is opened once, by the server's first frame.                   *)
Opening ==
  /\ stream[Server].state = "idle" =>
       stream[Server].registered /\ stream[Node].state = "idle" /\ wire[Server] = << >>
  /\ stream[Node].state = "idle" =>
       /\ wire[Node] = << >> /\ stream[Node] = [NewStream EXCEPT !.registered = FALSE]
       /\ stream[Server].state # "idle" => Begins(wire[Server])
  /\ stream[Node].state # "idle" => Quiet(wire[Server])

StreamInv ==
  /\ wire \in [End -> Seq(Frame)] /\ stream \in [End -> StreamRecord]
  /\ \A e \in End : Proper(stream[e]) /\ Delivering(e)
  /\ Opening

----------------------------------------------------------------------------
LEMMA OtherEnd ==
  \A e \in End : Other(e) \in End /\ Other(e) # e /\ Other(Other(e)) = e
BY EndsAssumption DEF End, Other

LEMMA Appended ==
  ASSUME NEW S, NEW q \in Seq(S), NEW r \in Seq(S)
  PROVE  /\ q \o r \in Seq(S) /\ Len(q \o r) = Len(q) + Len(r)
         /\ \A i \in 1..Len(q) : (q \o r)[i] = q[i]
         /\ \A i \in 1..Len(r) : (q \o r)[Len(q) + i] = r[i]
         /\ \A i \in 1..Len(q \o r) : i > Len(q) => i - Len(q) \in 1..Len(r) /\ (q \o r)[i] = r[i - Len(q)]
OBVIOUS

LEMMA TheTail ==
  ASSUME NEW S, NEW q \in Seq(S), q # << >>
  PROVE  /\ Head(q) \in S /\ Head(q) = q[1] /\ Tail(q) \in Seq(S) /\ Len(Tail(q)) = Len(q) - 1
         /\ Len(q) \in Nat \ {0}
         /\ \A i \in 1..Len(Tail(q)) : Tail(q)[i] = q[i + 1] /\ i + 1 \in 1..Len(q)
OBVIOUS

LEMMA FrameOf ==
  ASSUME NEW w \in Seq(Frame), NEW i \in 1..Len(w)
  PROVE  w[i] \in Frame /\ w[i].n \in Nat /\ w[i].type \in FRAME_TYPE
<1>1. w[i] \in Frame
  OBVIOUS
<1> QED BY <1>1 DEF Frame

(* Frames that carry no unit carry none of an empty range.                   *)
LEMMA NoUnits ==
  ASSUME NEW w \in Seq(Frame), \A i \in 1..Len(w) : ~IsUnit(w[i]), NEW k \in Int
  PROVE  InOrder(w, k, k)
BY DEF InOrder

(* What is sent after what is under way.                                     *)
LEMMA OrderAppended ==
  ASSUME NEW w \in Seq(Frame), NEW v \in Seq(Frame),
         NEW lo \in Int, NEW mid \in Int, NEW hi \in Int, lo <= mid, mid <= hi,
         InOrder(w, lo, mid), InOrder(v, mid, hi)
  PROVE  InOrder(w \o v, lo, hi)
<1> DEFINE z == w \o v
<1>1. /\ z \in Seq(Frame) /\ Len(z) = Len(w) + Len(v)
      /\ \A i \in 1..Len(w) : z[i] = w[i]
      /\ \A i \in 1..Len(v) : z[Len(w) + i] = v[i]
      /\ \A i \in 1..Len(z) : i > Len(w) => i - Len(w) \in 1..Len(v) /\ z[i] = v[i - Len(w)]
  BY Appended
<1>2. Len(w) \in Nat /\ Len(v) \in Nat
  OBVIOUS
<1> HIDE DEF z
<1>3. \A i \in 1..Len(w) : w[i].n \in Int
  BY FrameOf
<1>4. \A i \in 1..Len(v) : v[i].n \in Int
  BY FrameOf
<1>5. ASSUME NEW i \in 1..Len(z), IsUnit(z[i])
      PROVE  lo < z[i].n /\ z[i].n <= hi /\ (i <= Len(w) => z[i].n <= mid) /\ (i > Len(w) => z[i].n > mid)
  <2>1. CASE i <= Len(w)
    <3>1. i \in 1..Len(w) /\ z[i] = w[i]
      BY <1>1, <1>2, <2>1
    <3> QED BY <1>2, <1>3, <1>5, <2>1, <3>1 DEF InOrder
  <2>2. CASE i > Len(w)
    <3>1. i - Len(w) \in 1..Len(v) /\ z[i] = v[i - Len(w)]
      BY <1>1, <2>2
    <3>2. mid < v[i - Len(w)].n /\ v[i - Len(w)].n <= hi
      BY <1>5, <3>1 DEF InOrder
    <3> QED BY <1>2, <1>4, <2>2, <3>1, <3>2
  <2> QED BY <1>1, <1>2, <2>1, <2>2
<1>6. ASSUME NEW i \in 1..Len(z), NEW j \in 1..Len(z), i < j, IsUnit(z[i]), IsUnit(z[j])
      PROVE  z[i].n < z[j].n
  <2>1. CASE j <= Len(w)
    <3>1. i \in 1..Len(w) /\ j \in 1..Len(w) /\ z[i] = w[i] /\ z[j] = w[j]
      BY <1>1, <1>2, <1>6, <2>1
    <3> QED BY <1>6, <3>1 DEF InOrder
  <2>2. CASE i <= Len(w) /\ j > Len(w)
    <3>1. z[i].n <= mid /\ z[j].n > mid
      BY <1>5, <1>6, <2>2
    <3>2. z \in Seq(Frame)
      BY <1>1
    <3>3. z[i].n \in Int /\ z[j].n \in Int
      BY <3>2, FrameOf
    <3> QED BY <3>1, <3>3
  <2>3. CASE i > Len(w)
    <3>1. /\ i - Len(w) \in 1..Len(v) /\ z[i] = v[i - Len(w)]
          /\ j - Len(w) \in 1..Len(v) /\ z[j] = v[j - Len(w)] /\ i - Len(w) < j - Len(w)
      BY <1>1, <1>2, <1>6, <2>3
    <3> QED BY <1>6, <3>1 DEF InOrder
  <2> QED BY <1>1, <1>2, <2>1, <2>2, <2>3
<1>7. ASSUME NEW u \in (lo + 1)..hi
      PROVE  \E i \in 1..Len(z) : IsUnit(z[i]) /\ z[i].n = u
  <2>1. CASE u <= mid
    <3>0. u \in (lo + 1)..mid
      BY <1>7, <2>1
    <3>1. PICK i \in 1..Len(w) : IsUnit(w[i]) /\ w[i].n = u
      BY <3>0 DEF InOrder
    <3> QED BY <1>1, <1>2, <3>1
  <2>2. CASE u > mid
    <3>0. u \in (mid + 1)..hi
      BY <1>7, <2>2
    <3>1. PICK i \in 1..Len(v) : IsUnit(v[i]) /\ v[i].n = u
      BY <3>0 DEF InOrder
    <3>2. Len(w) + i \in 1..Len(z) /\ z[Len(w) + i] = v[i]
      BY <1>1, <1>2
    <3> QED BY <3>1, <3>2
  <2> QED BY <2>1, <2>2
<1>8. InOrder(z, lo, hi)
  BY <1>5, <1>6, <1>7 DEF InOrder
<1> QED BY <1>8 DEF z

(* The first frame under way, if it carries a unit, carries the next one.    *)
LEMMA OrderTaken ==
  ASSUME NEW w \in Seq(Frame), w # << >>, NEW lo \in Int, NEW hi \in Int, InOrder(w, lo, hi)
  PROVE  /\ ~IsUnit(Head(w)) => InOrder(Tail(w), lo, hi)
         /\ IsUnit(Head(w)) => Head(w).n = lo + 1 /\ lo + 1 <= hi /\ InOrder(Tail(w), lo + 1, hi)
<1> DEFINE z == Tail(w)
<1>1. /\ Head(w) = w[1] /\ Len(z) = Len(w) - 1 /\ Len(w) \in Nat \ {0}
      /\ z \in Seq(Frame) /\ \A i \in 1..Len(z) : z[i] = w[i + 1] /\ i + 1 \in 1..Len(w)
  BY TheTail
<1>2. Len(z) \in Nat /\ 1 \in 1..Len(w)
  BY <1>1
<1> HIDE DEF z
<1>3. \A i \in 1..Len(w) : w[i].n \in Int
  BY FrameOf
<1>4. /\ \A i \in 1..Len(z) : IsUnit(z[i]) => lo < z[i].n /\ z[i].n <= hi
      /\ \A i, j \in 1..Len(z) : i < j /\ IsUnit(z[i]) /\ IsUnit(z[j]) => z[i].n < z[j].n
  <2>1. ASSUME NEW i \in 1..Len(z), IsUnit(z[i]) PROVE lo < z[i].n /\ z[i].n <= hi
    <3>1. z[i] = w[i + 1] /\ i + 1 \in 1..Len(w)
      BY <1>1
    <3> QED BY <2>1, <3>1 DEF InOrder
  <2>2. ASSUME NEW i \in 1..Len(z), NEW j \in 1..Len(z), i < j, IsUnit(z[i]), IsUnit(z[j])
        PROVE  z[i].n < z[j].n
    <3>1. z[i] = w[i + 1] /\ i + 1 \in 1..Len(w) /\ z[j] = w[j + 1] /\ j + 1 \in 1..Len(w) /\ i + 1 < j + 1
      BY <1>1, <1>2, <2>2
    <3> QED BY <2>2, <3>1 DEF InOrder
  <2> QED BY <2>1, <2>2
<1>5. ASSUME NEW u \in (lo + 1)..hi, ~(IsUnit(w[1]) /\ w[1].n = u)
      PROVE  \E i \in 1..Len(z) : IsUnit(z[i]) /\ z[i].n = u
  <2>1. PICK i \in 1..Len(w) : IsUnit(w[i]) /\ w[i].n = u
    BY DEF InOrder
  <2>2. i # 1
    BY <1>5, <2>1
  <2>3. i - 1 \in 1..Len(z) /\ (i - 1) + 1 = i
    BY <1>1, <1>2, <2>2
  <2>4. z[i - 1] = w[i]
    BY <1>1, <2>3
  <2> QED BY <2>1, <2>3, <2>4
<1>6. CASE ~IsUnit(w[1])
  <2>1. InOrder(z, lo, hi)
    BY <1>4, <1>5, <1>6 DEF InOrder
  <2> QED BY <1>1, <1>6, <2>1 DEF z
<1>7. CASE IsUnit(w[1])
  <2>1. lo < w[1].n /\ w[1].n <= hi /\ w[1].n \in Int
    BY <1>2, <1>3, <1>7 DEF InOrder
  <2>2. PICK i \in 1..Len(w) : IsUnit(w[i]) /\ w[i].n = lo + 1
    BY <2>1 DEF InOrder
  <2>3. i = 1
    <3>1. ASSUME 1 < i PROVE FALSE
      <4>1. w[1].n < w[i].n
        BY <1>2, <1>7, <2>2, <3>1 DEF InOrder
      <4> QED BY <2>1, <2>2, <4>1
    <3> QED BY <1>1, <3>1
  <2>4. w[1].n = lo + 1 /\ lo + 1 <= hi
    BY <2>1, <2>2, <2>3
  <2>5. ASSUME NEW j \in 1..Len(z), IsUnit(z[j])
        PROVE  lo + 1 < z[j].n /\ z[j].n <= hi
    <3>1. z[j] = w[j + 1] /\ j + 1 \in 1..Len(w) /\ 1 < j + 1
      BY <1>1, <1>2
    <3>2. w[1].n < w[j + 1].n
      BY <1>2, <1>7, <2>5, <3>1 DEF InOrder
    <3> QED BY <1>4, <2>4, <2>5, <3>1, <3>2
  <2>6. \A u \in (lo + 2)..hi : u \in (lo + 1)..hi /\ u # w[1].n
    BY <2>4
  <2>7. \A u \in (lo + 2)..hi : \E j \in 1..Len(z) : IsUnit(z[j]) /\ z[j].n = u
    BY <1>5, <2>6
  <2>8. InOrder(z, lo + 1, hi)
    <3>1. (lo + 1) + 1 = lo + 2
      OBVIOUS
    <3> QED BY <1>4, <2>5, <2>7, <3>1 DEF InOrder
  <2> QED BY <1>1, <1>7, <2>4, <2>8 DEF z
<1> QED BY <1>6, <1>7
----------------------------------------------------------------------------
(* The units base + 1, base + 2, ..., one frame each.                        *)
LEMMA DataFramesAre ==
  ASSUME NEW u \in Seq(Nat), NEW fin \in BOOLEAN
  PROVE  /\ DataFrames(u, fin) \in Seq(Frame)
         /\ Len(DataFrames(u, fin)) = Len(u)
         /\ \A i \in 1..Len(u) : DataFrames(u, fin)[i].type = "DATA" /\ DataFrames(u, fin)[i].n = u[i]
<1> DEFINE d == DataFrames(u, fin)
<1>1. \A i \in 1..Len(u) : Data(u[i], fin /\ i = Len(u)) \in Frame
  BY DEF Data, Frame, FRAME_TYPE
<1>2. d \in [1..Len(u) -> Frame] /\ \A i \in 1..Len(u) : d[i] = Data(u[i], fin /\ i = Len(u))
  BY <1>1 DEF DataFrames
<1> HIDE DEF d
<1>3. d \in Seq(Frame) /\ Len(d) = Len(u)
  BY <1>2
<1>4. \A i \in 1..Len(u) : d[i].type = "DATA" /\ d[i].n = u[i]
  BY <1>2 DEF Data
<1> QED BY <1>3, <1>4 DEF d

LEMMA UnitsInOrder ==
  ASSUME NEW u \in Seq(Nat), NEW fin \in BOOLEAN, NEW base \in Nat,
         \A i \in 1..Len(u) : u[i] = base + i
  PROVE  /\ DataFrames(u, fin) \in Seq(Frame)
         /\ \A i \in 1..Len(DataFrames(u, fin)) : DataFrames(u, fin)[i].type = "DATA"
         /\ InOrder(DataFrames(u, fin), base, base + Len(u))
<1> DEFINE d == DataFrames(u, fin)
<1>1. d \in Seq(Frame) /\ Len(d) = Len(u) /\ Len(u) \in Nat
  BY DataFramesAre
<1>2. \A i \in 1..Len(u) : d[i].type = "DATA" /\ d[i].n = base + i
  BY DataFramesAre
<1> HIDE DEF d
<1>3. \A i \in 1..Len(d) : IsUnit(d[i]) /\ base < d[i].n /\ d[i].n <= base + Len(u)
  BY <1>1, <1>2 DEF IsUnit
<1>4. \A i, j \in 1..Len(d) : i < j => d[i].n < d[j].n
  BY <1>1, <1>2
<1>5. ASSUME NEW k \in (base + 1)..(base + Len(u))
      PROVE  \E i \in 1..Len(d) : IsUnit(d[i]) /\ d[i].n = k
  <2>1. k - base \in 1..Len(d) /\ base + (k - base) = k
    BY <1>1
  <2> QED BY <1>1, <1>2, <1>3, <2>1
<1>6. InOrder(d, base, base + Len(u))
  BY <1>3, <1>4, <1>5 DEF InOrder
<1>7. \A i \in 1..Len(d) : d[i].type = "DATA"
  BY <1>1, <1>2
<1> QED BY <1>1, <1>6, <1>7 DEF d

LEMMA NumberedIs ==
  ASSUME NEW a \in Nat, NEW k \in Nat
  PROVE  /\ Numbered(a, a + k) \in Seq(Nat) /\ Len(Numbered(a, a + k)) = k
         /\ \A i \in 1..k : Numbered(a, a + k)[i] = a + i
<1> DEFINE q == Numbered(a, a + k)
<1>1. (a + k) - a = k
  OBVIOUS
<1>2. q = [i \in 1..k |-> a + i]
  BY <1>1 DEF Numbered
<1> HIDE DEF q
<1>3. q \in [1..k -> Nat] /\ \A i \in 1..k : q[i] = a + i
  BY <1>2
<1>4. q \in Seq(Nat) /\ Len(q) = k
  BY <1>3
<1> QED BY <1>3, <1>4 DEF q

LEMMA FitsIs ==
  ASSUME NEW s \in StreamRecord, NEW n \in Nat
  PROVE  /\ Fits(s, n) \in 0..n
         /\ Fits(s, n) < n => s.sendWindow - Fits(s, n) <= 0
         /\ s.sendWindow <= 0 => Fits(s, n) = 0
BY DEF Fits, StreamRecord

LEMMA SentIs ==
  ASSUME NEW s \in StreamRecord, Sending(s)
  PROVE  Sent(s) \in Nat /\ Len(s.bufferedData) \in Nat /\ s.written \in Nat
BY DEF StreamRecord, Sending, Sent

(* A call that sends no data: what was sent and buffered stays.              *)
LEMMA SendsNoData ==
  ASSUME NEW s, Proper(s), NEW t \in StreamRecord, NEW out \in Seq(Frame),
         t.written = s.written, t.bufferedData = s.bufferedData, t.sendWindow = s.sendWindow,
         t.registered => s.registered /\ t.state # "closed", t.state # "idle",
         \A i \in 1..Len(out) : ~IsUnit(out[i])
  PROVE  Emits(s, Result(t, out))
<1>1. Sent(t) = Sent(s) /\ Sent(s) \in Nat
  BY SentIs DEF Sent, Proper
<1>2. Proper(t)
  BY <1>1 DEF Proper, Sending
<1>3. InOrder(out, Sent(s), Sent(t))
  BY <1>1, NoUnits
<1> QED BY <1>1, <1>2, <1>3 DEF Emits, Sends, Result

LEMMA Signals ==
  /\ << >> \in Seq(Frame) /\ Quiet(<< >>) /\ \A i \in 1..Len(<< >>) : FALSE
  /\ \A fin \in BOOLEAN : /\ <<Data(0, fin)>> \in Seq(Frame) /\ Quiet(<<Data(0, fin)>>)
                          /\ ~IsUnit(<<Data(0, fin)>>[1])
  /\ \A n \in Nat, fin \in BOOLEAN : <<Headers(n, fin)>> \in Seq(Frame) /\ ~IsUnit(<<Headers(n, fin)>>[1])
  /\ \A type \in {"TUNNEL_OPEN", "TUNNEL_CLOSE", "WINDOW_UPDATE", "RST_STREAM"}, n \in Nat :
       /\ <<Control(type, n)>> \in Seq(Frame) /\ ~IsUnit(<<Control(type, n)>>[1])
       /\ type # "TUNNEL_OPEN" => Quiet(<<Control(type, n)>>)
BY DEF Frame, FRAME_TYPE, Data, Headers, Control, Quiet, Opens, IsUnit
----------------------------------------------------------------------------
(* The calls of applications.                                                *)
LEMMA UnchangedEmits ==
  ASSUME NEW s, Proper(s), s.state # "idle"
  PROVE  Emits(s, Unchanged(s))
BY Signals, SendsNoData DEF Unchanged, Proper

LEMMA SendHeadersEmits ==
  ASSUME NEW s, Proper(s), NEW n \in Nat, NEW fin \in BOOLEAN
  PROVE  Emits(s, SendHeaders(s, n, fin)) /\ SendHeaders(s, n, fin).stream.got = s.got
<1>1. CASE s.state = "closed"
  <2>1. SendHeaders(s, n, fin) = Unchanged(s)
    BY <1>1 DEF SendHeaders
  <2> QED BY <1>1, <2>1, UnchangedEmits DEF Unchanged, Result
<1>2. CASE s.state # "closed"
  <2> DEFINE t == [s EXCEPT !.state = IF fin THEN "half_closed_local" ELSE "open", !.answered = TRUE]
  <2>1. SendHeaders(s, n, fin) = Result(t, <<Headers(n, fin)>>)
    BY <1>2 DEF SendHeaders
  <2>2. /\ t \in StreamRecord /\ t.written = s.written /\ t.bufferedData = s.bufferedData
        /\ t.sendWindow = s.sendWindow /\ t.registered = s.registered /\ t.got = s.got
        /\ t.state \in {"half_closed_local", "open"}
    BY DEF Proper, StreamRecord, STREAM_STATE
  <2>3. <<Headers(n, fin)>> \in Seq(Frame) /\ \A i \in 1..Len(<<Headers(n, fin)>>) : ~IsUnit(<<Headers(n, fin)>>[i])
    BY Signals
  <2> HIDE DEF t
  <2>4. Emits(s, Result(t, <<Headers(n, fin)>>))
    BY <2>2, <2>3, SendsNoData
  <2> QED BY <2>1, <2>2, <2>4 DEF Result
<1> QED BY <1>1, <1>2

LEMMA OpenTunnelEmits ==
  ASSUME NEW s, Proper(s)
  PROVE  Emits(s, OpenTunnel(s)) /\ OpenTunnel(s).stream.got = s.got
<1> DEFINE t == [s EXCEPT !.state = "open"]
<1>1. /\ t \in StreamRecord /\ t.written = s.written /\ t.bufferedData = s.bufferedData
      /\ t.sendWindow = s.sendWindow /\ t.registered = s.registered /\ t.got = s.got
      /\ t.state = "open"
  BY DEF Proper, StreamRecord, STREAM_STATE
<1>2. /\ <<Control("TUNNEL_OPEN", 0)>> \in Seq(Frame)
      /\ \A i \in 1..Len(<<Control("TUNNEL_OPEN", 0)>>) : ~IsUnit(<<Control("TUNNEL_OPEN", 0)>>[i])
  BY Signals
<1>3. OpenTunnel(s) = Result(t, <<Control("TUNNEL_OPEN", 0)>>)
  BY DEF OpenTunnel
<1> HIDE DEF t
<1>4. Emits(s, Result(t, <<Control("TUNNEL_OPEN", 0)>>))
  BY <1>1, <1>2, SendsNoData
<1> QED BY <1>1, <1>3, <1>4 DEF Result

LEMMA ResetEmits ==
  ASSUME NEW s, Proper(s), s.state # "idle"
  PROVE  Emits(s, Reset(s)) /\ Reset(s).stream.got = s.got /\ Quiet(Reset(s).out)
<1>1. CASE s.state = "closed"
  <2>1. Reset(s) = Unchanged(s)
    BY <1>1 DEF Reset
  <2> QED BY <2>1, UnchangedEmits, Signals DEF Unchanged, Result
<1>2. CASE s.state # "closed"
  <2> DEFINE t == [s EXCEPT !.state = "closed", !.registered = FALSE]
  <2>1. Reset(s) = Result(t, <<Control("RST_STREAM", 0)>>)
    BY <1>2 DEF Reset
  <2>2. /\ t \in StreamRecord /\ t.written = s.written /\ t.bufferedData = s.bufferedData
        /\ t.sendWindow = s.sendWindow /\ t.registered = FALSE /\ t.got = s.got
        /\ t.state = "closed"
    BY DEF Proper, StreamRecord, STREAM_STATE
  <2>3. /\ <<Control("RST_STREAM", 0)>> \in Seq(Frame) /\ Quiet(<<Control("RST_STREAM", 0)>>)
        /\ \A i \in 1..Len(<<Control("RST_STREAM", 0)>>) : ~IsUnit(<<Control("RST_STREAM", 0)>>[i])
    BY Signals
  <2> HIDE DEF t
  <2>4. Emits(s, Result(t, <<Control("RST_STREAM", 0)>>))
    BY <2>2, <2>3, SendsNoData
  <2> QED BY <2>1, <2>2, <2>3, <2>4 DEF Result
<1> QED BY <1>1, <1>2

(* close() sends an empty DATA frame or nothing.                             *)
LEMMA CloseEmits ==
  ASSUME NEW s, Proper(s), s.state # "idle"
  PROVE  /\ Emits(s, Close(s)) /\ Close(s).stream.got = s.got /\ Quiet(Close(s).out)
         /\ \A i \in 1..Len(Close(s).out) : ~IsUnit(Close(s).out[i])
         /\ Close(s).stream.written = s.written /\ Close(s).stream.bufferedData = s.bufferedData
         /\ Close(s).stream.sendWindow = s.sendWindow
<1>1. CASE s.state = "closed"
  <2>1. Close(s) = Result(s, << >>)
    BY <1>1 DEF Close, Unchanged
  <2>2. Emits(s, Close(s))
    BY <1>1, <2>1, UnchangedEmits DEF Unchanged
  <2> QED BY <2>1, <2>2, Signals DEF Result
<1>2. CASE s.state = "open"
  <2> DEFINE t == [s EXCEPT !.state = "half_closed_local"]
             out == <<Data(0, TRUE)>>
  <2>1. Close(s) = Result(t, out)
    BY <1>2 DEF Close
  <2>2. /\ t \in StreamRecord /\ t.written = s.written /\ t.bufferedData = s.bufferedData
        /\ t.sendWindow = s.sendWindow /\ t.registered = s.registered /\ t.got = s.got
        /\ t.state = "half_closed_local"
    BY DEF Proper, StreamRecord, STREAM_STATE
  <2>3. out \in Seq(Frame) /\ Quiet(out) /\ \A i \in 1..Len(out) : ~IsUnit(out[i])
    <3>1. TRUE \in BOOLEAN
      OBVIOUS
    <3>2. out \in Seq(Frame) /\ Quiet(out) /\ ~IsUnit(out[1])
      BY <3>1, Signals
    <3>3. \A i \in 1..Len(out) : i = 1
      OBVIOUS
    <3> QED BY <3>2, <3>3
  <2> HIDE DEF t, out
  <2>4. Emits(s, Result(t, out))
    BY <2>2, <2>3, SendsNoData
  <2> QED BY <2>1, <2>2, <2>3, <2>4 DEF Result
<1>3. CASE s.state \notin {"closed", "open"}
  <2> DEFINE t == [s EXCEPT !.state = "closed", !.registered = FALSE]
  <2>1. Close(s) = Result(t, << >>)
    BY <1>3 DEF Close
  <2>2. /\ t \in StreamRecord /\ t.written = s.written /\ t.bufferedData = s.bufferedData
        /\ t.sendWindow = s.sendWindow /\ t.registered = FALSE /\ t.got = s.got
        /\ t.state = "closed"
    BY DEF Proper, StreamRecord, STREAM_STATE
  <2> HIDE DEF t
  <2>3. Emits(s, Result(t, << >>))
    BY <2>2, Signals, SendsNoData
  <2> QED BY <2>1, <2>2, <2>3, Signals DEF Result
<1> QED BY <1>1, <1>2, <1>3

LEMMA CloseTunnelEmits ==
  ASSUME NEW s, Proper(s), s.state # "idle"
  PROVE  /\ Emits(s, CloseTunnel(s)) /\ CloseTunnel(s).stream.got = s.got /\ Quiet(CloseTunnel(s).out)
<1>1. CASE ~s.registered
  <2>1. CloseTunnel(s) = Unchanged(s)
    BY <1>1 DEF CloseTunnel
  <2> QED BY <2>1, UnchangedEmits, Signals DEF Unchanged, Result
<1>2. CASE s.registered
  <2> DEFINE c == Close(s)
             t == [c.stream EXCEPT !.state = "closed", !.registered = FALSE]
             f == Control("TUNNEL_CLOSE", 0)
             out == Append(c.out, f)
  <2>1. CloseTunnel(s) = Result(t, out)
    BY <1>2 DEF CloseTunnel
  <2>2. /\ c.stream \in StreamRecord /\ c.out \in Seq(Frame) /\ Quiet(c.out)
        /\ \A i \in 1..Len(c.out) : ~IsUnit(c.out[i])
        /\ c.stream.written = s.written /\ c.stream.bufferedData = s.bufferedData
        /\ c.stream.sendWindow = s.sendWindow /\ c.stream.got = s.got
    BY CloseEmits DEF Emits, Sends, Proper
  <2>3. f \in Frame /\ ~IsUnit(f) /\ ~Opens(f)
    BY DEF Frame, FRAME_TYPE, Control, IsUnit, Opens
  <2> HIDE DEF c, f
  <2>4. /\ t \in StreamRecord /\ t.written = s.written /\ t.bufferedData = s.bufferedData
        /\ t.sendWindow = s.sendWindow /\ t.registered = FALSE /\ t.got = s.got
        /\ t.state = "closed"
    BY <2>2 DEF StreamRecord, STREAM_STATE
  <2>5. out \in Seq(Frame) /\ \A i \in 1..Len(out) : out[i] = f \/ (i \in 1..Len(c.out) /\ out[i] = c.out[i])
    BY <2>2, <2>3
  <2> HIDE DEF t, out
  <2>6. Quiet(out) /\ \A i \in 1..Len(out) : ~IsUnit(out[i])
    BY <2>2, <2>3, <2>5 DEF Quiet
  <2>7. Emits(s, Result(t, out))
    BY <2>4, <2>5, <2>6, SendsNoData
  <2> QED BY <2>1, <2>4, <2>6, <2>7 DEF Result
<1> QED BY <1>1, <1>2

(* sendData: what fits leaves now, behind nothing - a window that is open    *)
(* has no buffer behind it.                                                  *)
LEMMA SendDataEmits ==
  ASSUME NEW s, Proper(s), s.state # "idle", NEW n \in Nat, NEW fin \in BOOLEAN
  PROVE  Emits(s, SendData(s, n, fin)) /\ SendData(s, n, fin).stream.got = s.got /\ Quiet(SendData(s, n, fin).out)
<1>1. CASE s.state \in {"closed", "half_closed_local"}
  <2>1. SendData(s, n, fin) = Unchanged(s)
    BY <1>1 DEF SendData
  <2> QED BY <2>1, UnchangedEmits, Signals DEF Unchanged, Result
<1>2. CASE s.state \notin {"closed", "half_closed_local"}
  <2> DEFINE k == Fits(s, n)
             now == Numbered(s.written, s.written + k)
             later == Numbered(s.written + k, s.written + n)
             all == k = n
             t == [s EXCEPT !.sendWindow = @ - k, !.bufferedData = @ \o later, !.written = @ + n,
                            !.state = IF all /\ fin THEN "half_closed_local" ELSE @]
             out == IF n = 0 THEN <<Data(0, fin)>> ELSE DataFrames(now, all /\ fin)
  <2>1. SendData(s, n, fin) = Result(t, out)
    BY <1>2 DEF SendData
  <2>2. /\ k \in 0..n /\ (k < n => s.sendWindow - k <= 0) /\ (s.sendWindow <= 0 => k = 0)
        /\ s \in StreamRecord /\ Sent(s) \in Nat /\ s.bufferedData \in Seq(Nat)
        /\ Len(s.bufferedData) \in Nat /\ s.written \in Nat /\ s.sendWindow \in Int
    BY FitsIs, SentIs DEF Proper, StreamRecord
  <2> HIDE DEF k
  <2>3. /\ now \in Seq(Nat) /\ Len(now) = k /\ \A i \in 1..k : now[i] = s.written + i
        /\ later \in Seq(Nat) /\ Len(later) = n - k /\ \A i \in 1..(n - k) : later[i] = s.written + k + i
    <3>1. now \in Seq(Nat) /\ Len(now) = k /\ \A i \in 1..k : now[i] = s.written + i
      <4>1. s.written \in Nat /\ k \in Nat
        BY <2>2
      <4> QED BY <4>1, NumberedIs
    <3> DEFINE x == s.written + k
               m == n - k
    <3>2. x \in Nat /\ m \in Nat /\ s.written + n = x + m
      BY <2>2
    <3>3. later = Numbered(x, x + m)
      BY <3>2
    <3> HIDE DEF x, m, later, now
    <3>4. later \in Seq(Nat) /\ Len(later) = m /\ \A i \in 1..m : later[i] = x + i
      BY <3>2, <3>3, NumberedIs
    <3> QED BY <3>1, <3>4 DEF x, m
  <2>4. all \in BOOLEAN /\ (all /\ fin) \in BOOLEAN
    OBVIOUS
  <2> HIDE DEF now, later, all
  <2>5. /\ t.sendWindow = s.sendWindow - k /\ t.bufferedData = s.bufferedData \o later
        /\ t.written = s.written + n /\ t.got = s.got /\ t.registered = s.registered
        /\ t.state \in {s.state, "half_closed_local"}
    BY <2>2 DEF StreamRecord
  <2>6. t \in StreamRecord
    <3>1. s.bufferedData \o later \in Seq(Nat) /\ s.written + n \in Nat /\ s.sendWindow - k \in Int
      BY <2>2, <2>3
    <3>2. t = [s EXCEPT !.sendWindow = s.sendWindow - k, !.bufferedData = s.bufferedData \o later,
                        !.written = s.written + n,
                        !.state = IF all /\ fin THEN "half_closed_local" ELSE s.state]
      BY <2>2 DEF t, StreamRecord
    <3> QED BY <2>2, <3>1, <3>2 DEF StreamRecord, STREAM_STATE
  <2> HIDE DEF t
  <2> DEFINE b == s.bufferedData
             c == t.bufferedData
  <2>0. /\ Len(c) = Len(b) + (n - k) /\ Len(c) \in Nat
        /\ \A i \in 1..Len(b) : c[i] = b[i]
        /\ \A i \in 1..Len(c) : i > Len(b) => i - Len(b) \in 1..(n - k) /\ c[i] = later[i - Len(b)]
    <3>1. b \in Seq(Nat) /\ c = b \o later /\ later \in Seq(Nat) /\ Len(later) = n - k
      BY <2>2, <2>3, <2>5
    <3> HIDE DEF b, c
    <3>2. /\ Len(c) = Len(b) + Len(later) /\ c \in Seq(Nat)
          /\ \A i \in 1..Len(b) : c[i] = b[i]
          /\ \A i \in 1..Len(c) : i > Len(b) => i - Len(b) \in 1..Len(later) /\ c[i] = later[i - Len(b)]
      BY <3>1, Appended
    <3> QED BY <3>1, <3>2
  <2>7. Sent(t) = Sent(s) + k
    BY <2>0, <2>2, <2>5 DEF Sent
  <2>8. Sending(t)
    <3>1. /\ Len(t.bufferedData) = Len(s.bufferedData) + (n - k)
          /\ \A i \in 1..Len(s.bufferedData) : t.bufferedData[i] = s.bufferedData[i]
          /\ \A i \in 1..Len(t.bufferedData) : i > Len(s.bufferedData) =>
               i - Len(s.bufferedData) \in 1..(n - k) /\ t.bufferedData[i] = later[i - Len(s.bufferedData)]
      BY <2>0
    <3>2. /\ Len(s.bufferedData) <= s.written
          /\ \A i \in 1..Len(s.bufferedData) : s.bufferedData[i] = Sent(s) + i
          /\ Len(s.bufferedData) > 0 => s.sendWindow <= 0
      BY DEF Proper, Sending
    <3>3. Len(t.bufferedData) <= t.written
      BY <2>2, <2>5, <3>1, <3>2
    <3>4. Len(t.bufferedData) > 0 => t.sendWindow <= 0
      BY <2>2, <2>5, <3>1, <3>2
    <3>5. Len(s.bufferedData) > 0 => k = 0
      BY <2>2, <3>2
    <3>6. ASSUME NEW i \in 1..Len(t.bufferedData) PROVE t.bufferedData[i] = Sent(t) + i
      <4>1. CASE i <= Len(s.bufferedData)
        <5>1. i \in 1..Len(s.bufferedData) /\ k = 0
          BY <2>2, <3>5, <4>1
        <5>2. t.bufferedData[i] = Sent(s) + i
          BY <3>1, <3>2, <5>1
        <5> QED BY <2>2, <2>7, <5>1, <5>2
      <4>2. CASE i > Len(s.bufferedData)
        <5>1. t.bufferedData[i] = s.written + k + (i - Len(s.bufferedData))
          BY <2>3, <3>1, <4>2
        <5>2. Sent(s) = s.written - Len(s.bufferedData)
          BY DEF Sent
        <5> QED BY <2>2, <2>7, <5>1, <5>2
      <4> QED BY <2>2, <3>1, <4>1, <4>2
    <3> QED BY <3>3, <3>4, <3>6 DEF Sending
  <2>9. /\ out \in Seq(Frame) /\ Quiet(out) /\ InOrder(out, Sent(s), Sent(t))
    <3>1. CASE n = 0
      <4>1. out = <<Data(0, fin)>> /\ k = 0
        BY <2>2, <3>1
      <4>2. /\ <<Data(0, fin)>> \in Seq(Frame) /\ Quiet(<<Data(0, fin)>>)
            /\ \A i \in 1..Len(<<Data(0, fin)>>) : ~IsUnit(<<Data(0, fin)>>[i])
        BY Signals
      <4>3. Sent(t) = Sent(s)
        BY <2>2, <2>7, <4>1
      <4> HIDE DEF out
      <4>4. out \in Seq(Frame) /\ Quiet(out) /\ \A i \in 1..Len(out) : ~IsUnit(out[i])
        BY <4>1, <4>2
      <4>5. Sent(s) \in Int
        BY <2>2
      <4> QED BY <4>3, <4>4, <4>5, NoUnits
    <3>2. CASE n # 0
      <4>1. out = DataFrames(now, all /\ fin)
        BY <3>2
      <4>2. k # 0 => Len(s.bufferedData) = 0
        BY <2>2 DEF Proper, Sending
      <4>3. \A i \in 1..Len(now) : now[i] = Sent(s) + i
        BY <2>2, <2>3, <4>2 DEF Sent
      <4>4. /\ out \in Seq(Frame) /\ \A i \in 1..Len(out) : out[i].type = "DATA"
            /\ InOrder(out, Sent(s), Sent(s) + Len(now))
        <5>1. now \in Seq(Nat) /\ Sent(s) \in Nat /\ (all /\ fin) \in BOOLEAN
          BY <2>2, <2>3, <2>4
        <5> DEFINE g == all /\ fin
        <5> HIDE DEF g, out
        <5>2. out = DataFrames(now, g) /\ g \in BOOLEAN
          BY <4>1, <5>1 DEF g
        <5> QED BY <4>3, <5>1, <5>2, UnitsInOrder
      <4> QED BY <2>3, <2>7, <4>4 DEF Quiet, Opens
    <3> QED BY <3>1, <3>2
  <2>10. t.registered => t.state # "closed"
    BY <1>2, <2>5
  <2>11. Proper(t) /\ Sent(s) <= Sent(t) /\ t.state # "idle"
    BY <2>2, <2>5, <2>6, <2>7, <2>8, <2>10 DEF Proper
  <2> HIDE DEF out
  <2> QED BY <2>1, <2>5, <2>9, <2>11 DEF Emits, Sends, Result
<1> QED BY <1>1, <1>2
----------------------------------------------------------------------------
(* Frames received.                                                          *)
LEMMA SendWindowChanged ==
  ASSUME NEW s \in StreamRecord, NEW w \in Int, NEW t, t = [s EXCEPT !.sendWindow = w]
  PROVE  /\ t \in StreamRecord /\ t.bufferedData = s.bufferedData
         /\ t.written = s.written /\ t.got = s.got /\ t.registered = s.registered /\ t.state = s.state
BY DEF StreamRecord

LEMMA RecvWindowChanged ==
  ASSUME NEW s \in StreamRecord, NEW w \in Int, NEW t, t = [s EXCEPT !.recvWindow = w]
  PROVE  /\ t \in StreamRecord /\ t.recvWindow = w /\ t.sendWindow = s.sendWindow
         /\ t.bufferedData = s.bufferedData /\ t.written = s.written /\ t.got = s.got
         /\ t.registered = s.registered /\ t.state = s.state
BY DEF StreamRecord

LEMMA PrefixIs ==
  ASSUME NEW q \in Seq(Nat), NEW k \in 0..Len(q)
  PROVE  /\ SubSeq(q, 1, k) \in Seq(Nat) /\ Len(SubSeq(q, 1, k)) = k
         /\ \A i \in 1..k : SubSeq(q, 1, k)[i] = q[i]
<1>1. Len(q) \in Nat /\ k \in Nat
  OBVIOUS
<1>2. SubSeq(q, 1, k) \in Seq(Nat)
  BY <1>1
<1>3. Len(SubSeq(q, 1, k)) = k
  BY <1>1
<1>4. \A i \in 1..k : SubSeq(q, 1, k)[i] = q[i]
  BY <1>1
<1> QED BY <1>2, <1>3, <1>4

LEMMA SuffixIs ==
  ASSUME NEW q \in Seq(Nat), NEW k \in 0..Len(q)
  PROVE  /\ SubSeq(q, k + 1, Len(q)) \in Seq(Nat) /\ Len(SubSeq(q, k + 1, Len(q))) = Len(q) - k
         /\ \A i \in 1..(Len(q) - k) : SubSeq(q, k + 1, Len(q))[i] = q[k + i]
<1> DEFINE n == Len(q)
           m == k + 1
<1>1. n \in Nat /\ k \in Nat /\ m \in 1..(n + 1) /\ n = Len(q) /\ n - m + 1 = n - k
  OBVIOUS
<1> HIDE DEF m, n
<1>2. SubSeq(q, m, n) \in Seq(Nat)
  BY <1>1
<1>3. Len(SubSeq(q, m, n)) = n - m + 1
  BY <1>1
<1>4. ASSUME NEW i \in 1..(n - k) PROVE SubSeq(q, m, n)[i] = q[k + i]
  <2>1. i \in 1..(n - m + 1) /\ m + i - 1 = k + i
    BY <1>1 DEF m
  <2>2. SubSeq(q, m, n)[i] = q[m + i - 1]
    BY <1>1, <2>1
  <2> QED BY <2>1, <2>2
<1> QED BY <1>1, <1>2, <1>3, <1>4 DEF m, n

(* The buffer leaves from its front, as far as the window takes it.          *)
LEMMA FlushEmits ==
  ASSUME NEW s \in StreamRecord, s.registered => s.state # "closed", s.state # "idle",
         Len(s.bufferedData) <= s.written,
         \A i \in 1..Len(s.bufferedData) : s.bufferedData[i] = Sent(s) + i
  PROVE  /\ Emits(s, FlushBuffered(s)) /\ FlushBuffered(s).stream.got = s.got
         /\ Quiet(FlushBuffered(s).out)
<1> DEFINE b == s.bufferedData
           k == Fits(s, Len(b))
           now == SubSeq(b, 1, k)
           rest == SubSeq(b, k + 1, Len(b))
           t == [s EXCEPT !.sendWindow = @ - k, !.bufferedData = rest]
           out == DataFrames(now, FALSE)
<1>1. b \in Seq(Nat) /\ Len(b) \in Nat /\ s.written \in Nat /\ s.sendWindow \in Int
  BY DEF StreamRecord
<1>2. k \in 0..Len(b) /\ (k < Len(b) => s.sendWindow - k <= 0)
  BY <1>1, FitsIs
<1>3. FlushBuffered(s) = Result(t, out)
  <2>1. rest = SubSeq(s.bufferedData, k + 1, Len(s.bufferedData))
    OBVIOUS
  <2>2. t = [s EXCEPT !.sendWindow = s.sendWindow - k, !.bufferedData = rest]
    BY DEF StreamRecord
  <2>3. [s EXCEPT !.sendWindow = @ - k, !.bufferedData = SubSeq(@, k + 1, Len(@))]
          = [s EXCEPT !.sendWindow = s.sendWindow - k, !.bufferedData = rest]
    BY DEF StreamRecord
  <2> QED BY <2>2, <2>3 DEF FlushBuffered
<1> HIDE DEF k
<1>4. /\ now \in Seq(Nat) /\ Len(now) = k /\ \A i \in 1..k : now[i] = b[i]
      /\ rest \in Seq(Nat) /\ Len(rest) = Len(b) - k /\ \A i \in 1..(Len(b) - k) : rest[i] = b[k + i]
  BY <1>1, <1>2, PrefixIs, SuffixIs
<1> HIDE DEF now, rest
<1>5. /\ t \in StreamRecord /\ t.sendWindow = s.sendWindow - k /\ t.bufferedData = rest
      /\ t.written = s.written /\ t.got = s.got /\ t.registered = s.registered /\ t.state = s.state
  <2> DEFINE w == s.sendWindow - k
  <2>1. w \in Int
    BY <1>1, <1>2
  <2>2. t = [s EXCEPT !.sendWindow = w, !.bufferedData = rest]
    OBVIOUS
  <2> HIDE DEF w, t
  <2>3. /\ t \in StreamRecord /\ t.sendWindow = w /\ t.bufferedData = rest
        /\ t.written = s.written /\ t.got = s.got /\ t.registered = s.registered /\ t.state = s.state
    <3>1. s \in StreamRecord /\ rest \in Seq(Nat)
      BY <1>4
    <3> QED BY <2>1, <2>2, <3>1 DEF StreamRecord
  <2> QED BY <2>3 DEF w
<1> HIDE DEF t
<1>6. Sent(s) = s.written - Len(b) /\ Sent(s) \in Nat /\ Sent(t) = Sent(s) + k
  BY <1>1, <1>2, <1>4, <1>5 DEF Sent
<1>7. Sending(t)
  <2>1. Len(t.bufferedData) <= t.written
    BY <1>1, <1>2, <1>4, <1>5
  <2>2. Len(t.bufferedData) > 0 => t.sendWindow <= 0
    BY <1>1, <1>2, <1>4, <1>5
  <2>3. ASSUME NEW i \in 1..Len(t.bufferedData) PROVE t.bufferedData[i] = Sent(t) + i
    <3>1. i \in 1..(Len(b) - k) /\ k + i \in 1..Len(b)
      BY <1>1, <1>2, <1>4, <1>5
    <3>2. b[k + i] = Sent(s) + (k + i)
      BY <3>1
    <3>3. t.bufferedData[i] = b[k + i]
      BY <1>4, <1>5, <3>1
    <3> QED BY <1>2, <1>6, <3>1, <3>2, <3>3
  <2> QED BY <2>1, <2>2, <2>3 DEF Sending
<1>8. /\ out \in Seq(Frame) /\ \A i \in 1..Len(out) : out[i].type = "DATA"
      /\ InOrder(out, Sent(s), Sent(t))
  <2>1. \A i \in 1..Len(now) : now[i] = Sent(s) + i
    <3>1. \A i \in 1..k : i \in 1..Len(b)
      BY <1>1, <1>2
    <3> QED BY <1>4, <3>1
  <2>2. FALSE \in BOOLEAN
    OBVIOUS
  <2>3. /\ out \in Seq(Frame) /\ \A i \in 1..Len(out) : out[i].type = "DATA"
        /\ InOrder(out, Sent(s), Sent(s) + Len(now))
    BY <1>4, <1>6, <2>1, <2>2, UnitsInOrder
  <2> QED BY <1>4, <1>6, <2>3
<1> HIDE DEF out
<1>9. Quiet(out)
  BY <1>8 DEF Quiet, Opens
<1>10. Proper(t) /\ Sent(s) <= Sent(t)
  BY <1>2, <1>5, <1>6, <1>7 DEF Proper
<1> QED BY <1>3, <1>5, <1>8, <1>9, <1>10 DEF Emits, Sends, Result

LEMMA UpdateEmits ==
  ASSUME NEW s, Proper(s), s.state # "idle", NEW f \in Frame
  PROVE  /\ Emits(s, HandleWindowUpdate(s, f)) /\ HandleWindowUpdate(s, f).stream.got = s.got
         /\ Quiet(HandleWindowUpdate(s, f).out)
<1> DEFINE t == [s EXCEPT !.sendWindow = @ + f.n]
<1>1. s \in StreamRecord /\ f.n \in Nat /\ s.sendWindow \in Int
  BY DEF Proper, StreamRecord, Frame
<1>2. /\ t \in StreamRecord /\ t.bufferedData = s.bufferedData /\ t.written = s.written
      /\ t.got = s.got /\ t.registered = s.registered /\ t.state = s.state
  <2> DEFINE w == s.sendWindow + f.n
  <2>1. w \in Int
    BY <1>1
  <2>2. t = [s EXCEPT !.sendWindow = w]
    OBVIOUS
  <2> HIDE DEF w, t
  <2> QED BY <1>1, <2>1, <2>2, SendWindowChanged
<1>3. HandleWindowUpdate(s, f) = FlushBuffered(t)
  BY DEF HandleWindowUpdate
<1> HIDE DEF t
<1>4. Sent(t) = Sent(s)
  BY <1>2 DEF Sent
<1>5. /\ Len(t.bufferedData) <= t.written
      /\ \A i \in 1..Len(t.bufferedData) : t.bufferedData[i] = Sent(t) + i
      /\ t.registered => t.state # "closed"
  BY <1>2, <1>4 DEF Proper, Sending
<1>6. Emits(t, FlushBuffered(t)) /\ FlushBuffered(t).stream.got = t.got /\ Quiet(FlushBuffered(t).out)
  BY <1>2, <1>5, FlushEmits
<1> QED BY <1>2, <1>3, <1>4, <1>6 DEF Emits, Sends

(* A unit received is handed on at once, and a grant for it is sent or not.  *)
LEMMA DataEmits ==
  ASSUME NEW s, Proper(s), s.state # "idle", s.registered, NEW f \in Frame, f.type = "DATA"
  PROVE  /\ Emits(s, HandleData(s, f)) /\ Quiet(HandleData(s, f).out)
         /\ HandleData(s, f).stream.got = IF IsUnit(f) THEN Append(s.got, f.n) ELSE s.got
<1> DEFINE size == IF f.n = 0 THEN 0 ELSE 1
           u == [s EXCEPT !.recvWindow = @ - size]
           r == RestoreWindow(u)
           t == [r.stream EXCEPT !.got = IF f.n = 0 THEN @ ELSE Append(@, f.n),
                                 !.state = IF f.fin THEN "half_closed_remote" ELSE @]
<1>1. s \in StreamRecord /\ f.n \in Nat /\ f.fin \in BOOLEAN /\ size \in Int
      /\ s.recvWindow \in Int /\ s.got \in Seq(Nat) /\ Window \in Nat
  BY WindowAssumption DEF Proper, StreamRecord, Frame
<1>2. HandleData(s, f) = Result(t, r.out)
  BY DEF HandleData
<1> HIDE DEF size
<1>3. /\ u \in StreamRecord /\ u.recvWindow \in Int
      /\ u.written = s.written /\ u.bufferedData = s.bufferedData /\ u.sendWindow = s.sendWindow
      /\ u.registered = s.registered /\ u.got = s.got /\ u.state = s.state
  <2> DEFINE w == s.recvWindow - size
  <2>1. w \in Int
    BY <1>1
  <2>2. u = [s EXCEPT !.recvWindow = w]
    OBVIOUS
  <2> HIDE DEF w, u
  <2>3. s \in StreamRecord
    BY <1>1
  <2> QED BY <2>1, <2>2, <2>3 DEF StreamRecord
<1>4. /\ r.stream \in StreamRecord /\ r.out \in Seq(Frame) /\ Quiet(r.out)
      /\ \A i \in 1..Len(r.out) : ~IsUnit(r.out[i])
      /\ r.stream.written = s.written /\ r.stream.bufferedData = s.bufferedData
      /\ r.stream.sendWindow = s.sendWindow /\ r.stream.registered = s.registered
      /\ r.stream.got = s.got /\ r.stream.state = s.state
  <2>1. /\ u.written = s.written /\ u.bufferedData = s.bufferedData /\ u.sendWindow = s.sendWindow
        /\ u.registered = s.registered /\ u.got = s.got /\ u.state = s.state
    BY <1>3
  <2> HIDE DEF u
  <2>2. CASE 2 * u.recvWindow < Window
    <3> DEFINE g == Window - u.recvWindow
               out == <<Control("WINDOW_UPDATE", g)>>
               v == [u EXCEPT !.recvWindow = Window]
    <3>1. g \in Nat
      BY <1>1, <1>3, <2>2
    <3>2. r = Result(v, out)
      BY <2>2 DEF RestoreWindow
    <3> HIDE DEF g
    <3>3. out \in Seq(Frame) /\ Quiet(out) /\ ~IsUnit(out[1]) /\ \A i \in 1..Len(out) : i = 1
      BY <3>1, Signals
    <3>4. /\ v \in StreamRecord /\ v.written = u.written /\ v.bufferedData = u.bufferedData
          /\ v.sendWindow = u.sendWindow /\ v.registered = u.registered /\ v.got = u.got /\ v.state = u.state
      <4>1. Window \in Int
        BY <1>1
      <4>2. u \in StreamRecord /\ v = [u EXCEPT !.recvWindow = Window]
        BY <1>3
      <4> HIDE DEF v
      <4> QED BY <4>1, <4>2, RecvWindowChanged
    <3> HIDE DEF out, v, r
    <3> QED BY <2>1, <3>2, <3>3, <3>4 DEF Result
  <2>3. CASE ~(2 * u.recvWindow < Window)
    <3>1. r = Result(u, << >>)
      BY <2>3 DEF RestoreWindow, Unchanged
    <3> HIDE DEF r
    <3> QED BY <1>3, <2>1, <3>1, Signals DEF Result
  <2> QED BY <2>2, <2>3
<1> HIDE DEF r
<1>5. /\ t \in StreamRecord /\ t.written = s.written /\ t.bufferedData = s.bufferedData
      /\ t.sendWindow = s.sendWindow /\ t.registered = s.registered
      /\ t.state \in {s.state, "half_closed_remote"}
      /\ t.got = IF f.n = 0 THEN s.got ELSE Append(s.got, f.n)
  <2>1. (IF f.n = 0 THEN s.got ELSE Append(s.got, f.n)) \in Seq(Nat)
    BY <1>1
  <2> DEFINE got == IF f.n = 0 THEN s.got ELSE Append(s.got, f.n)
             state == IF f.fin THEN "half_closed_remote" ELSE s.state
  <2>2. t = [r.stream EXCEPT !.got = got, !.state = state]
    BY <1>4 DEF StreamRecord
  <2>3. got \in Seq(Nat) /\ state \in STREAM_STATE
    BY <1>1, <2>1 DEF StreamRecord, STREAM_STATE
  <2> HIDE DEF got, t
  <2>4. /\ t \in StreamRecord /\ t.written = r.stream.written /\ t.bufferedData = r.stream.bufferedData
        /\ t.sendWindow = r.stream.sendWindow /\ t.registered = r.stream.registered
        /\ t.state = state /\ t.got = got
    BY <1>4, <2>2, <2>3 DEF StreamRecord
  <2> QED BY <1>4, <2>4 DEF got
<1> HIDE DEF t
<1>6. t.registered => t.state # "closed"
  BY <1>5 DEF Proper
<1>7. Emits(s, Result(t, r.out))
  BY <1>4, <1>5, <1>6, SendsNoData
<1>8. IsUnit(f) <=> f.n # 0
  BY <1>1 DEF IsUnit
<1> QED BY <1>2, <1>4, <1>5, <1>7, <1>8 DEF Result
(* A change of state alone.                                                  *)
LEMMA StateChanged ==
  ASSUME NEW s, Proper(s), NEW state \in STREAM_STATE, state # "idle",
         NEW registered \in BOOLEAN, registered => s.registered /\ state # "closed",
         NEW t, t = [s EXCEPT !.state = state, !.registered = registered]
  PROVE  Emits(s, Unchanged(t)) /\ t.got = s.got
<1>1. /\ t \in StreamRecord /\ t.written = s.written /\ t.bufferedData = s.bufferedData
      /\ t.sendWindow = s.sendWindow /\ t.registered = registered /\ t.got = s.got /\ t.state = state
  BY DEF Proper, StreamRecord
<1>2. << >> \in Seq(Frame) /\ \A i \in 1..Len(<< >>) : ~IsUnit(<< >>[i])
  BY Signals
<1> QED BY <1>1, <1>2, SendsNoData DEF Unchanged

LEMMA HandleEmits ==
  ASSUME NEW e \in End, NEW s, Proper(s), s.state # "idle", NEW f \in Frame,
         ~s.registered /\ Opens(f) => e = Server
  PROVE  /\ Emits(s, HandleFrame(e, s, f)) /\ Quiet(HandleFrame(e, s, f).out)
         /\ HandleFrame(e, s, f).stream.got = IF s.registered /\ IsUnit(f) THEN Append(s.got, f.n) ELSE s.got
<1> DEFINE q == HandleFrame(e, s, f)
<1>0. s \in StreamRecord /\ f.type \in FRAME_TYPE /\ f.fin \in BOOLEAN /\ s.registered \in BOOLEAN
  BY DEF Proper, Frame, StreamRecord
<1>1. CASE s.registered /\ f.type = "HEADERS"
  <2> DEFINE state == IF f.fin THEN "half_closed_remote" ELSE "open"
             t == [s EXCEPT !.state = state]
  <2>1. q = Unchanged(t)
    BY <1>1 DEF HandleFrame, HandleHeaders
  <2>2. t = [s EXCEPT !.state = state, !.registered = TRUE] /\ state \in STREAM_STATE
        /\ state \notin {"idle", "closed"}
    BY <1>0, <1>1 DEF StreamRecord, STREAM_STATE
  <2> HIDE DEF state, t
  <2>3. Emits(s, Unchanged(t)) /\ t.got = s.got
    BY <1>1, <2>2, StateChanged
  <2>4. ~IsUnit(f)
    BY <1>1 DEF IsUnit
  <2> HIDE DEF q
  <2> QED BY <2>1, <2>3, <2>4, Signals DEF Unchanged, Result, q
<1>2. CASE s.registered /\ f.type = "DATA"
  <2>1. q = HandleData(s, f)
    BY <1>2 DEF HandleFrame
  <2> QED BY <1>2, <2>1, DataEmits
<1>3. CASE s.registered /\ f.type = "RST_STREAM"
  <2> DEFINE t == [s EXCEPT !.state = "closed", !.registered = FALSE]
  <2>1. q = Unchanged(t)
    BY <1>3 DEF HandleFrame, HandleReset
  <2> HIDE DEF t
  <2>2. "closed" \in STREAM_STATE /\ FALSE \in BOOLEAN
    BY DEF STREAM_STATE
  <2>3. Emits(s, Unchanged(t)) /\ t.got = s.got
    BY <2>2, StateChanged DEF t
  <2>4. ~IsUnit(f)
    BY <1>3 DEF IsUnit
  <2> HIDE DEF q
  <2> QED BY <2>1, <2>3, <2>4, Signals DEF Unchanged, Result, q
<1>4. CASE s.registered /\ f.type = "WINDOW_UPDATE"
  <2>1. q = HandleWindowUpdate(s, f)
    BY <1>4 DEF HandleFrame
  <2>2. ~IsUnit(f)
    BY <1>4 DEF IsUnit
  <2> QED BY <2>1, <2>2, UpdateEmits
<1>5. CASE ~s.registered /\ f.type = "HEADERS" /\ e = Server
  <2> DEFINE out == <<Control("RST_STREAM", 0)>>
  <2>1. q = Result(s, out)
    BY <1>5, EndsAssumption DEF HandleFrame
  <2>2. out \in Seq(Frame) /\ Quiet(out) /\ ~IsUnit(out[1]) /\ \A i \in 1..Len(out) : i = 1
    BY Signals
  <2> HIDE DEF out
  <2>3. Emits(s, Result(s, out))
    BY <1>0, <1>5, <2>2, SendsNoData
  <2> HIDE DEF q
  <2> QED BY <1>5, <2>1, <2>2, <2>3 DEF Result, q
<1>6. CASE /\ ~(s.registered /\ f.type \in {"HEADERS", "DATA", "RST_STREAM", "WINDOW_UPDATE"})
           /\ ~(~s.registered /\ f.type = "HEADERS" /\ e = Server)
  <2>1. ~(~s.registered /\ Opens(f) /\ e = Node)
    BY EndsAssumption
  <2>2. q = Unchanged(s)
    BY <1>6, <2>1 DEF HandleFrame
  <2>3. ~(s.registered /\ IsUnit(f))
    BY <1>6 DEF IsUnit
  <2> HIDE DEF q
  <2> QED BY <2>2, <2>3, UnchangedEmits, Signals DEF Unchanged, Result, q
<1> QED BY <1>0, <1>1, <1>2, <1>3, <1>4, <1>5, <1>6

----------------------------------------------------------------------------
(* The steps.  What a call of e changes is e's stream and the end of e's     *)
(* wire.                                                                     *)
Kept ==
  /\ wire \in [End -> Seq(Frame)] /\ stream \in [End -> StreamRecord]
  /\ \A e \in End : Proper(stream[e]) /\ Delivering(e)

LEMMA GotIs ==
  ASSUME NEW s \in StreamRecord
  PROVE  s.got \in Seq(Nat) /\ Len(s.got) \in Nat
BY DEF StreamRecord

LEMMA BecomeKeeps ==
  ASSUME StreamInv, NEW e \in End, NEW q, Become(e, q), Emits(stream[e], q), q.stream.got = stream[e].got
  PROVE  Kept'
<1> DEFINE p == Other(e)
           s == stream[e]
<1>0. p \in End /\ p # e /\ Other(p) = e /\ \A d \in End : d = e \/ d = p
  BY OtherEnd DEF End, Other
<1>1. /\ wire \in [End -> Seq(Frame)] /\ stream \in [End -> StreamRecord]
      /\ Proper(s) /\ Proper(stream[p]) /\ Delivering(e) /\ Delivering(p)
  BY <1>0 DEF StreamInv
<1>2. q.stream \in StreamRecord /\ Proper(q.stream) /\ q.out \in Seq(Frame)
  BY DEF Emits, Sends, Proper
<1>3. /\ stream' = [stream EXCEPT ![e] = q.stream] /\ wire' = [wire EXCEPT ![e] = wire[e] \o q.out]
  BY <1>1 DEF Become
<1>4. /\ wire' \in [End -> Seq(Frame)] /\ stream' \in [End -> StreamRecord]
      /\ stream'[e] = q.stream /\ wire'[e] = wire[e] \o q.out
      /\ stream'[p] = stream[p] /\ wire'[p] = wire[p]
  <2>1. wire[e] \o q.out \in Seq(Frame)
    BY <1>1, <1>2
  <2> QED BY <1>0, <1>1, <1>2, <1>3, <2>1
<1>5. /\ Sent(s) \in Nat /\ Sent(q.stream) \in Nat /\ Sent(s) <= Sent(q.stream)
      /\ InOrder(q.out, Sent(s), Sent(q.stream)) /\ (Listens(q.stream) => Listens(s))
  BY <1>1, <1>2, SentIs DEF Emits, Sends, Listens, Proper
<1>6. /\ \A i \in 1..Len(stream[p].got) : stream[p].got[i] = i
      /\ Len(stream[p].got) <= Sent(s) /\ Len(stream[p].got) \in Nat
      /\ Listens(stream[p]) => InOrder(wire[e], Len(stream[p].got), Sent(s))
  BY <1>0, <1>1, GotIs DEF Delivering
<1>7. /\ \A i \in 1..Len(s.got) : s.got[i] = i
      /\ Len(s.got) <= Sent(stream[p])
      /\ Listens(s) => InOrder(wire[p], Len(s.got), Sent(stream[p]))
  BY <1>0, <1>1 DEF Delivering
<1>8. Delivering(e)'
  <2>1. Len(stream[p].got) <= Sent(q.stream)
    BY <1>5, <1>6
  <2>2. ASSUME Listens(stream[p]) PROVE InOrder(wire[e] \o q.out, Len(stream[p].got), Sent(q.stream))
    <3>1. wire[e] \in Seq(Frame) /\ InOrder(wire[e], Len(stream[p].got), Sent(s))
      BY <1>1, <1>6, <2>2
    <3>2. /\ Len(stream[p].got) \in Int /\ Sent(s) \in Int /\ Sent(q.stream) \in Int
          /\ Len(stream[p].got) <= Sent(s) /\ Sent(s) <= Sent(q.stream)
      BY <1>5, <1>6
    <3> QED BY <1>2, <1>5, <3>1, <3>2, OrderAppended
  <2> QED BY <1>4, <1>6, <2>1, <2>2 DEF Delivering
<1>9. Delivering(p)'
  BY <1>0, <1>4, <1>5, <1>7 DEF Delivering
<1>10. \A d \in End : Proper(stream'[d])
  BY <1>0, <1>1, <1>2, <1>4
<1> QED BY <1>0, <1>4, <1>8, <1>9, <1>10 DEF Kept, Proper

(* A frame received is taken off the peer's wire, and the unit it carries,   *)
(* which is the next one, handed to the application.                         *)
LEMMA DeliverKeeps ==
  ASSUME StreamInv, NEW e \in End, wire[Other(e)] # << >>, NEW q, Deliver(e, q),
         Sends(stream[e], q), Listens(q.stream) => Listens(stream[e]),
         q.stream.got = IF stream[e].registered /\ IsUnit(Incoming(e))
                          THEN Append(stream[e].got, Incoming(e).n) ELSE stream[e].got,
         stream[e].state = "idle" => ~IsUnit(Incoming(e))
  PROVE  Kept'
<1> DEFINE p == Other(e)
           s == stream[e]
           f == Incoming(e)
<1>0. p \in End /\ p # e /\ Other(p) = e /\ \A d \in End : d = e \/ d = p
  BY OtherEnd DEF End, Other
<1>1. /\ wire \in [End -> Seq(Frame)] /\ stream \in [End -> StreamRecord]
      /\ Proper(s) /\ Proper(stream[p]) /\ Delivering(e) /\ Delivering(p)
  BY <1>0 DEF StreamInv
<1>2. q.stream \in StreamRecord /\ Proper(q.stream) /\ q.out \in Seq(Frame)
  BY DEF Sends, Proper
<1>3. /\ wire[p] \in Seq(Frame) /\ wire[p] # << >> /\ f = Head(wire[p]) /\ Tail(wire[p]) \in Seq(Frame)
      /\ f \in Frame
  BY <1>0, <1>1, TheTail DEF Incoming
<1>4. /\ wire' \in [End -> Seq(Frame)] /\ stream' \in [End -> StreamRecord]
      /\ stream'[e] = q.stream /\ wire'[e] = wire[e] \o q.out
      /\ stream'[p] = stream[p] /\ wire'[p] = Tail(wire[p])
  <2>1. wire[e] \o q.out \in Seq(Frame)
    BY <1>1, <1>2
  <2>2. wire' = [wire EXCEPT ![e] = wire[e] \o q.out, ![p] = Tail(wire[p])]
    BY <1>0, <1>1 DEF Deliver
  <2>3. stream' = [stream EXCEPT ![e] = q.stream]
    BY DEF Deliver
  <2> QED BY <1>0, <1>1, <1>2, <1>3, <2>1, <2>2, <2>3
<1>5. /\ Sent(s) \in Nat /\ Sent(q.stream) \in Nat /\ Sent(s) <= Sent(q.stream)
      /\ InOrder(q.out, Sent(s), Sent(q.stream)) /\ (Listens(q.stream) => Listens(s))
      /\ Sent(stream[p]) \in Nat
  BY <1>1, <1>2, SentIs DEF Sends, Proper
<1>6. /\ \A i \in 1..Len(stream[p].got) : stream[p].got[i] = i
      /\ Len(stream[p].got) <= Sent(s) /\ Len(stream[p].got) \in Nat
      /\ Listens(stream[p]) => InOrder(wire[e], Len(stream[p].got), Sent(s))
  BY <1>0, <1>1, GotIs DEF Delivering
<1>7. /\ \A i \in 1..Len(s.got) : s.got[i] = i
      /\ Len(s.got) <= Sent(stream[p]) /\ Len(s.got) \in Nat /\ s.got \in Seq(Nat)
      /\ Listens(s) => InOrder(wire[p], Len(s.got), Sent(stream[p]))
  BY <1>0, <1>1, GotIs DEF Delivering
<1>8. Delivering(e)'
  <2>1. Len(stream[p].got) <= Sent(q.stream)
    BY <1>5, <1>6
  <2>2. ASSUME Listens(stream[p]) PROVE InOrder(wire[e] \o q.out, Len(stream[p].got), Sent(q.stream))
    <3>1. wire[e] \in Seq(Frame) /\ InOrder(wire[e], Len(stream[p].got), Sent(s))
      BY <1>1, <1>6, <2>2
    <3>2. /\ Len(stream[p].got) \in Int /\ Sent(s) \in Int /\ Sent(q.stream) \in Int
          /\ Len(stream[p].got) <= Sent(s) /\ Sent(s) <= Sent(q.stream)
      BY <1>5, <1>6
    <3> QED BY <1>2, <1>5, <3>1, <3>2, OrderAppended
  <2> QED BY <1>4, <1>6, <2>1, <2>2 DEF Delivering
<1>9. /\ \A i \in 1..Len(q.stream.got) : q.stream.got[i] = i
      /\ Len(q.stream.got) <= Sent(stream[p])
      /\ Listens(q.stream) => InOrder(Tail(wire[p]), Len(q.stream.got), Sent(stream[p]))
  <2>0. Len(s.got) \in Int /\ Sent(stream[p]) \in Int
    BY <1>5, <1>7
  <2>1. CASE s.registered /\ IsUnit(f)
    <3>1. InOrder(wire[p], Len(s.got), Sent(stream[p]))
      BY <1>7, <2>1 DEF Listens
    <3>2. /\ f.n = Len(s.got) + 1 /\ Len(s.got) + 1 <= Sent(stream[p])
          /\ InOrder(Tail(wire[p]), Len(s.got) + 1, Sent(stream[p]))
      BY <1>3, <2>0, <2>1, <3>1, OrderTaken
    <3>3. q.stream.got = Append(s.got, Len(s.got) + 1)
      BY <2>1, <3>2
    <3>4. /\ Len(q.stream.got) = Len(s.got) + 1
          /\ \A i \in 1..Len(q.stream.got) : q.stream.got[i] = IF i <= Len(s.got) THEN s.got[i] ELSE Len(s.got) + 1
      <4> DEFINE g == s.got
                 n == Len(g) + 1
      <4>0. g \in Seq(Nat) /\ Len(g) \in Nat
        BY <1>7
      <4>1. g \in Seq(Nat) /\ n \in Nat /\ q.stream.got = Append(g, n)
        <5>1. q.stream.got = Append(g, n)
          BY <3>3
        <5>2. n \in Nat
          <6> HIDE DEF g
          <6> QED BY <4>0
        <5> HIDE DEF g, n
        <5> QED BY <4>0, <5>1, <5>2
      <4>2. /\ Len(Append(g, n)) = Len(g) + 1
            /\ \A i \in 1..(Len(g) + 1) : Append(g, n)[i] = IF i <= Len(g) THEN g[i] ELSE n
        <5> HIDE DEF g, n
        <5> QED BY <4>1
      <4> QED BY <4>1, <4>2
    <3>5. \A i \in 1..Len(q.stream.got) : q.stream.got[i] = i
      BY <1>7, <3>4
    <3> QED BY <3>2, <3>4, <3>5
  <2>2. CASE ~(s.registered /\ IsUnit(f))
    <3>1. q.stream.got = s.got
      BY <2>2
    <3>2. ASSUME Listens(q.stream) PROVE InOrder(Tail(wire[p]), Len(s.got), Sent(stream[p]))
      <4>1. ~IsUnit(f) /\ Listens(s)
        BY <1>5, <2>2, <3>2 DEF Listens
      <4> QED BY <1>3, <1>7, <2>0, <4>1, OrderTaken
    <3> QED BY <1>7, <3>1, <3>2
  <2> QED BY <2>1, <2>2
<1>10. Delivering(p)'
  BY <1>0, <1>4, <1>9 DEF Delivering
<1>11. \A d \in End : Proper(stream'[d])
  BY <1>0, <1>1, <1>2, <1>4
<1> QED BY <1>0, <1>4, <1>8, <1>10, <1>11 DEF Kept, Proper
----------------------------------------------------------------------------
(* A stream before it has carried data.                                      *)
Unused(s) == /\ s \in StreamRecord /\ s.written = 0 /\ s.bufferedData = << >> /\ s.got = << >>
             /\ Sent(s) = 0 /\ Sending(s)

LEMMA NoDataSent ==
  ASSUME NEW s \in StreamRecord, s.written = 0, s.bufferedData = << >>, s.got = << >>
  PROVE  Unused(s)
<1>1. Len(<< >>) = 0
  OBVIOUS
<1>2. Len(s.bufferedData) = 0
  BY <1>1
<1>3. Sent(s) = s.written - Len(s.bufferedData)
  BY DEF Sent
<1>4. Sent(s) = 0
  BY <1>2, <1>3
<1>5. Sending(s)
  BY <1>2 DEF Sending
<1> QED BY <1>4, <1>5 DEF Unused

LEMMA NewIsUnused == Unused(NewStream) /\ NewStream.state = "idle" /\ NewStream.registered
<1>1. Window \in Int /\ << >> \in Seq(Nat) /\ 0 \in Nat /\ "idle" \in STREAM_STATE
  BY WindowAssumption DEF STREAM_STATE
<1>2. NewStream \in StreamRecord
  BY <1>1 DEF NewStream, StreamRecord
<1>3. /\ NewStream.written = 0 /\ NewStream.bufferedData = << >> /\ NewStream.got = << >>
      /\ NewStream.state = "idle" /\ NewStream.registered
  BY DEF NewStream
<1> QED BY <1>2, <1>3, NoDataSent

LEMMA UnusedRegisteredChanged ==
  ASSUME NEW s, Unused(s), NEW r \in BOOLEAN
  PROVE  LET t == [s EXCEPT !.registered = r] IN Unused(t) /\ t.state = s.state /\ t.registered = r
<1> DEFINE t == [s EXCEPT !.registered = r]
<1>1. /\ t \in StreamRecord /\ t.written = s.written /\ t.bufferedData = s.bufferedData /\ t.got = s.got
      /\ t.state = s.state /\ t.registered = r
  BY DEF Unused, StreamRecord
<1> HIDE DEF t
<1>2. t.written = 0 /\ t.bufferedData = << >> /\ t.got = << >>
  BY <1>1 DEF Unused
<1> QED BY <1>1, <1>2, NoDataSent DEF t

LEMMA UnusedStateChanged ==
  ASSUME NEW s, Unused(s), NEW state \in STREAM_STATE
  PROVE  LET t == [s EXCEPT !.state = state] IN Unused(t) /\ t.state = state /\ t.registered = s.registered
<1> DEFINE t == [s EXCEPT !.state = state]
<1>1. /\ t \in StreamRecord /\ t.written = s.written /\ t.bufferedData = s.bufferedData /\ t.got = s.got
      /\ t.state = state /\ t.registered = s.registered
  BY DEF Unused, StreamRecord
<1> HIDE DEF t
<1>2. t.written = 0 /\ t.bufferedData = << >> /\ t.got = << >>
  BY <1>1 DEF Unused
<1> QED BY <1>1, <1>2, NoDataSent DEF t

LEMMA NothingInOrder == << >> \in Seq(Frame) /\ Len(<< >>) = 0 /\ InOrder(<< >>, 0, 0)
<1>1. << >> \in Seq(Frame) /\ Len(<< >>) = 0
  OBVIOUS
<1>2. \A i \in 1..Len(<< >>) : ~IsUnit(<< >>[i])
  BY <1>1
<1>3. InOrder(<< >>, 0, 0)
  <2> DEFINE w == << >>
  <2>1. w \in Seq(Frame) /\ Len(w) = 0
    BY <1>1
  <2> HIDE DEF w
  <2>2. InOrder(w, 0, 0)
    BY <2>1 DEF InOrder
  <2> QED BY <2>2 DEF w
<1> QED BY <1>1, <1>3

LEMMA StreamInvInit == MuxInit => StreamInv
<1> SUFFICES ASSUME MuxInit PROVE StreamInv
  OBVIOUS
<1> DEFINE idle == [NewStream EXCEPT !.registered = FALSE]
<1>1. /\ NewStream \in StreamRecord /\ idle \in StreamRecord
      /\ \A s \in {NewStream, idle} :
           /\ s.bufferedData = << >> /\ s.written = 0 /\ s.got = << >> /\ s.state = "idle"
           /\ Sent(s) = 0 /\ Sending(s)
      /\ NewStream.registered /\ ~idle.registered
  <2>1. FALSE \in BOOLEAN
    OBVIOUS
  <2>2. Unused(idle) /\ idle.state = "idle" /\ ~idle.registered
    BY <2>1, NewIsUnused, UnusedRegisteredChanged
  <2> HIDE DEF idle
  <2> QED BY <2>2, NewIsUnused DEF Unused
<1>2. /\ stream[Server] = NewStream /\ stream[Node] = idle
      /\ wire[Server] = << >> /\ wire[Node] = << >>
      /\ wire \in [End -> Seq(Frame)] /\ stream \in [End -> StreamRecord]
  BY <1>1, EndsAssumption, Signals DEF MuxInit, End
<1> HIDE DEF idle
<1>3. ASSUME NEW e \in End
      PROVE  Proper(stream[e]) /\ Delivering(e)
  <2>1. stream[e] \in {NewStream, idle} /\ stream[Other(e)] \in {NewStream, idle} /\ wire[e] = << >>
    BY <1>2, OtherEnd DEF End
  <2>2. Len(<< >>) = 0 /\ << >> \in Seq(Frame) /\ 0 \in Int
    OBVIOUS
  <2>3. Sent(stream[e]) = 0
    BY <1>1, <2>1
  <2>4. Proper(stream[e])
    BY <1>1, <2>1 DEF Proper
  <2>5. InOrder(<< >>, 0, 0)
    BY NothingInOrder
  <2>6. Delivering(e)
    BY <1>1, <2>1, <2>2, <2>3, <2>5 DEF Delivering
  <2> QED BY <2>4, <2>6
<1>4. Opening
  BY <1>1, <1>2 DEF Opening, idle
<1> QED BY <1>2, <1>3, <1>4 DEF StreamInv

LEMMA InvFacts ==
  StreamInv =>
    /\ wire \in [End -> Seq(Frame)] /\ stream \in [End -> StreamRecord]
    /\ \A e \in End : Proper(stream[e]) /\ stream[e] \in StreamRecord /\ wire[e] \in Seq(Frame)
    /\ Opening /\ Server \in End /\ Node \in End /\ Server # Node
    /\ Other(Server) = Node /\ Other(Node) = Server
BY EndsAssumption DEF StreamInv, End, Other

(* A call that opens nothing.                                                *)
LEMMA CallKeeps ==
  ASSUME StreamInv, NEW e \in End, NEW q, Become(e, q), Emits(stream[e], q), q.stream.got = stream[e].got,
         stream[e].state # "idle", e = Server => Quiet(q.out)
  PROVE  StreamInv'
<1>1. Kept'
  BY BecomeKeeps
<1>2. /\ stream' = [stream EXCEPT ![e] = q.stream] /\ wire' = [wire EXCEPT ![e] = wire[e] \o q.out]
      /\ q.out \in Seq(Frame) /\ q.stream.state # "idle"
  BY InvFacts DEF Become, Emits, Sends
<1>3. CASE e = Server
  <2>1. /\ stream'[Server] = q.stream /\ stream'[Node] = stream[Node]
        /\ wire'[Server] = wire[Server] \o q.out /\ wire'[Node] = wire[Node]
    BY <1>2, <1>3, InvFacts
  <2> DEFINE w == wire[Server]
             z == w \o q.out
  <2>2. /\ w \in Seq(Frame) /\ z \in Seq(Frame) /\ Len(z) = Len(w) + Len(q.out)
        /\ \A i \in 1..Len(w) : z[i] = w[i]
        /\ \A i \in 1..Len(z) : i > Len(w) => i - Len(w) \in 1..Len(q.out) /\ z[i] = q.out[i - Len(w)]
    <3>1. w \in Seq(Frame) /\ q.out \in Seq(Frame)
      BY <1>2, InvFacts
    <3> HIDE DEF w
    <3> QED BY <3>1, Appended
  <2>3. Len(w) \in Nat /\ Len(q.out) \in Nat /\ Len(z) \in Nat /\ (w # << >> => Len(w) > 0) /\ (Len(z) > 0 => z # << >>)
    <3>1. q.out \in Seq(Frame)
      BY <1>2
    <3> HIDE DEF w, z
    <3> QED BY <2>2, <3>1
  <2> HIDE DEF z, w
  <2>4. \A i \in 1..Len(z) : i > Len(w) => ~Opens(z[i])
    BY <1>3, <2>2 DEF Quiet
  <2>5. Quiet(w) => Quiet(z)
    BY <2>2, <2>3, <2>4 DEF Quiet
  <2>6. Begins(w) => Begins(z)
    <3> SUFFICES ASSUME Begins(w) PROVE Begins(z)
      OBVIOUS
    <3>1. Len(w) > 0 /\ 1 \in 1..Len(w) /\ Len(z) > 0 /\ z # << >>
      BY <2>2, <2>3 DEF Begins
    <3>2. Opens(z[1])
      BY <2>2, <3>1 DEF Begins
    <3>3. ASSUME NEW i \in 2..Len(z) PROVE ~Opens(z[i])
      <4>1. CASE i > Len(w)
        BY <2>3, <2>4, <4>1
      <4>2. CASE i <= Len(w)
        <5>1. i \in 1..Len(w) /\ i \in 2..Len(w)
          BY <2>3, <4>2
        <5> QED BY <2>2, <5>1 DEF Begins
      <4> QED BY <2>3, <4>1, <4>2
    <3> QED BY <3>1, <3>2, <3>3 DEF Begins
  <2>7. Opening'
    BY <1>2, <1>3, <2>1, <2>5, <2>6, InvFacts DEF Opening, w, z
  <2> QED BY <1>1, <2>7 DEF StreamInv, Kept
<1>4. CASE e = Node
  <2>1. /\ stream'[Node] = q.stream /\ stream'[Server] = stream[Server] /\ wire'[Server] = wire[Server]
    BY <1>2, <1>4, InvFacts
  <2>2. Opening'
    BY <1>2, <1>4, <2>1, InvFacts DEF Opening
  <2> QED BY <1>1, <2>2 DEF StreamInv, Kept
<1> QED BY <1>3, <1>4 DEF End

(* The server opens: its first frame is the first on its wire.               *)
LEMMA OpenKeeps ==
  ASSUME StreamInv, NEW q, Become(Server, q), Emits(stream[Server], q), q.stream.got = stream[Server].got,
         stream[Server].state = "idle", NEW f, q.out = <<f>>, Opens(f)
  PROVE  StreamInv'
<1>1. Kept'
  BY BecomeKeeps, InvFacts
<1>2. wire[Server] = << >> /\ stream[Node].state = "idle" /\ q.out \in Seq(Frame) /\ q.stream.state # "idle"
  BY InvFacts DEF Opening, Emits, Sends
<1>3. /\ stream' = [stream EXCEPT ![Server] = q.stream]
      /\ wire' = [wire EXCEPT ![Server] = wire[Server] \o q.out]
  BY InvFacts DEF Become
<1>4. << >> \o q.out = q.out
  BY <1>2
<1>5. /\ stream'[Server] = q.stream /\ stream'[Node] = stream[Node]
      /\ wire'[Server] = <<f>> /\ wire'[Node] = wire[Node]
  BY <1>2, <1>3, <1>4, InvFacts
<1>6. Begins(<<f>>)
  BY DEF Begins
<1>7. Opening'
  BY <1>2, <1>5, <1>6, InvFacts DEF Opening
<1> QED BY <1>1, <1>7 DEF StreamInv, Kept

(* A frame is received.                                                      *)
LEMMA ReceiveKeeps ==
  ASSUME StreamInv, NEW e \in End, Receive(e)
  PROVE  StreamInv'
<1> DEFINE p == Other(e)
           s == stream[e]
           f == Incoming(e)
           q == HandleFrame(e, s, f)
<1>1. /\ wire[p] # << >> /\ Deliver(e, q) /\ f \in Frame /\ f = wire[p][1]
      /\ Tail(wire[p]) \in Seq(Frame) /\ Len(wire[p]) \in Nat \ {0}
      /\ \A i \in 1..Len(Tail(wire[p])) : Tail(wire[p])[i] = wire[p][i + 1] /\ i + 1 \in 1..Len(wire[p])
      /\ Len(Tail(wire[p])) = Len(wire[p]) - 1
  <2>1. wire[p] \in Seq(Frame) /\ wire[p] # << >> /\ f = Head(wire[p])
    BY InvFacts, OtherEnd DEF Receive, Incoming
  <2> QED BY <2>1, TheTail DEF Receive
<1> HIDE DEF q
<1>2. /\ wire' = [wire EXCEPT ![e] = wire[e] \o q.out, ![p] = Tail(wire[p])]
      /\ stream' = [stream EXCEPT ![e] = q.stream]
  BY <1>1, InvFacts, OtherEnd DEF Deliver
<1>3. CASE s.state # "idle"
  <2>1. ~s.registered /\ Opens(f) => e = Server
    <3>1. e = Node => ~Opens(f)
      BY <1>1, <1>3, InvFacts DEF Opening, Quiet
    <3> QED BY <3>1 DEF End
  <2>2. /\ Emits(s, q) /\ Quiet(q.out)
        /\ q.stream.got = IF s.registered /\ IsUnit(f) THEN Append(s.got, f.n) ELSE s.got
    BY <1>1, <1>3, <2>1, InvFacts, HandleEmits DEF q
  <2>3. Sends(s, q) /\ (Listens(q.stream) => Listens(s)) /\ q.stream.state # "idle" /\ q.out \in Seq(Frame)
    BY <2>2 DEF Emits, Sends, Listens
  <2>4. Kept'
    BY <1>1, <1>3, <2>2, <2>3, DeliverKeeps
  <2>5. CASE e = Server
    <3>1. stream[Node].state # "idle" /\ stream[Server].state # "idle"
      BY <1>1, <1>3, <2>5, InvFacts DEF Opening
    <3>2. /\ stream'[Node] = stream[Node] /\ stream'[Server] = q.stream
          /\ wire'[Server] = wire[Server] \o q.out
      BY <1>2, <2>5, InvFacts
    <3>3. Quiet(wire[Server])
      BY <3>1, InvFacts DEF Opening
    <3>4. Quiet(wire[Server] \o q.out)
      <4>1. wire[Server] \in Seq(Frame)
        BY InvFacts
      <4> DEFINE w == wire[Server]
                 z == w \o q.out
      <4>2. /\ Len(z) \in Nat /\ Len(w) \in Nat
            /\ \A i \in 1..Len(w) : z[i] = w[i]
            /\ \A i \in 1..Len(z) : i > Len(w) => i - Len(w) \in 1..Len(q.out) /\ z[i] = q.out[i - Len(w)]
        <5>1. w \in Seq(Frame) /\ q.out \in Seq(Frame)
          BY <2>3, <4>1
        <5> HIDE DEF w
        <5>2. z \in Seq(Frame)
          BY <5>1
        <5>3. Len(z) \in Nat /\ Len(w) \in Nat
          <6> HIDE DEF z
          <6> QED BY <5>1, <5>2
        <5> QED BY <5>1, <5>3, Appended
      <4> HIDE DEF w, z
      <4>3. Quiet(w)
        BY <3>3 DEF w
      <4>4. Quiet(z)
        BY <2>2, <4>2, <4>3 DEF Quiet
      <4> QED BY <4>4 DEF w, z
    <3>5. Opening'
      BY <2>3, <3>1, <3>2, <3>4 DEF Opening
    <3> QED BY <2>4, <3>5 DEF StreamInv, Kept
  <2>6. CASE e = Node
    <3>1. stream[Server].state # "idle" /\ Quiet(wire[Server])
      BY <1>3, <2>6, InvFacts DEF Opening
    <3>2. /\ stream'[Node] = q.stream /\ stream'[Server] = stream[Server]
          /\ wire'[Server] = Tail(wire[Server])
      BY <1>2, <2>6, InvFacts
    <3>3. Quiet(Tail(wire[Server]))
      BY <1>1, <2>6, <3>1, InvFacts DEF Quiet
    <3>4. Opening'
      BY <2>3, <3>1, <3>2, <3>3 DEF Opening
    <3> QED BY <2>4, <3>4 DEF StreamInv, Kept
  <2> QED BY <2>5, <2>6 DEF End
<1>4. CASE s.state = "idle"
  <2>1. e = Node
    BY <1>1, <1>4, InvFacts DEF Opening, End
  <2>2. /\ stream[Server].state # "idle" /\ Begins(wire[Server]) /\ Opens(f)
        /\ s = [NewStream EXCEPT !.registered = FALSE]
    BY <1>1, <1>4, <2>1, InvFacts DEF Opening, Begins
  <2> DEFINE state == IF f.fin THEN "half_closed_remote" ELSE "open"
             t == [NewStream EXCEPT !.state = state]
  <2>3. q = Result(t, << >>)
    <3>1. ~s.registered
      BY <2>2 DEF NewStream
    <3> QED BY <2>1, <2>2, <3>1, InvFacts DEF q, HandleFrame, HandleHeaders, Unchanged, Opens
  <2>4. /\ t \in StreamRecord /\ t.written = 0 /\ t.bufferedData = << >> /\ t.got = << >>
        /\ t.state \in {"half_closed_remote", "open"}
        /\ s.written = 0 /\ s.bufferedData = << >> /\ s.got = << >>
        /\ Sent(t) = 0 /\ Sent(s) = 0 /\ Sending(t)
    <3>1. state \in STREAM_STATE /\ state \in {"half_closed_remote", "open"} /\ FALSE \in BOOLEAN
      BY DEF STREAM_STATE
    <3> HIDE DEF state
    <3>2. Unused(t) /\ t.state = state
      BY <3>1, NewIsUnused, UnusedStateChanged
    <3>3. Unused(s)
      BY <2>2, <3>1, NewIsUnused, UnusedRegisteredChanged
    <3> HIDE DEF t
    <3> QED BY <3>1, <3>2, <3>3 DEF Unused
  <2> HIDE DEF t, state
  <2>5. Sent(t) = 0 /\ Sent(s) = 0 /\ Proper(t)
    BY <2>4 DEF Proper
  <2>6. InOrder(<< >>, 0, 0) /\ << >> \in Seq(Frame)
    BY NothingInOrder
  <2>7. Sends(s, q)
    BY <2>3, <2>5, <2>6 DEF Sends, Result
  <2>8. ~IsUnit(f) /\ Listens(s) /\ q.stream.got = s.got
    BY <1>4, <2>2, <2>3, <2>4 DEF IsUnit, Opens, Listens, Result
  <2>9. Kept'
    BY <1>1, <2>7, <2>8, DeliverKeeps
  <2>10. /\ stream'[Node] = t /\ stream'[Server] = stream[Server]
         /\ wire'[Server] = Tail(wire[Server])
    BY <1>2, <2>1, <2>3, InvFacts DEF Result
  <2>11. Quiet(Tail(wire[Server]))
    BY <1>1, <2>1, <2>2, InvFacts DEF Quiet, Begins
  <2>12. Opening'
    BY <2>2, <2>4, <2>10, <2>11 DEF Opening
  <2> QED BY <2>9, <2>12 DEF StreamInv, Kept
<1> QED BY <1>3, <1>4

----------------------------------------------------------------------------
LEMMA StreamInvNext == StreamInv /\ [MuxNext]_muxVars => StreamInv'
<1> SUFFICES ASSUME StreamInv, [MuxNext]_muxVars PROVE StreamInv'
  OBVIOUS
<1>1. CASE Open
  <2>1. stream[Server].state = "idle" /\ Proper(stream[Server])
    BY <1>1, InvFacts DEF Open, Opened
  <2>2. ASSUME NEW fin \in BOOLEAN, Become(Server, SendHeaders(stream[Server], 0, fin)) PROVE StreamInv'
    <3> DEFINE q == SendHeaders(stream[Server], 0, fin)
    <3>1. Emits(stream[Server], q) /\ q.stream.got = stream[Server].got
      BY <2>1, SendHeadersEmits
    <3>2. q.out = <<Headers(0, fin)>> /\ Opens(Headers(0, fin))
      BY <2>1 DEF SendHeaders, Result, Opens, Headers
    <3> HIDE DEF q
    <3> QED BY <2>1, <2>2, <3>1, <3>2, OpenKeeps DEF q
  <2>3. ASSUME Become(Server, OpenTunnel(stream[Server])) PROVE StreamInv'
    <3> DEFINE q == OpenTunnel(stream[Server])
               f == Control("TUNNEL_OPEN", 0)
    <3>1. Emits(stream[Server], q) /\ q.stream.got = stream[Server].got
      BY <2>1, OpenTunnelEmits
    <3>2. q.out = <<f>> /\ Opens(f)
      BY DEF OpenTunnel, Result, Opens, Control
    <3> HIDE DEF q, f
    <3> QED BY <2>1, <2>3, <3>1, <3>2, OpenKeeps DEF q
  <2> QED BY <1>1, <2>2, <2>3 DEF Open
<1>2. CASE Respond
  <2>1. /\ Become(Node, SendHeaders(stream[Node], 0, FALSE)) /\ stream[Node].state # "idle"
        /\ Proper(stream[Node]) /\ Node \in End /\ Node # Server
    BY <1>2, InvFacts DEF Respond, Opened
  <2>2. /\ Emits(stream[Node], SendHeaders(stream[Node], 0, FALSE))
        /\ SendHeaders(stream[Node], 0, FALSE).stream.got = stream[Node].got
    BY <2>1, SendHeadersEmits
  <2> QED BY <2>1, <2>2, CallKeeps
<1>3. CASE ServerRetires
  <2>1. stream[Server].state # "idle" /\ Proper(stream[Server]) /\ Server \in End
    BY <1>3, InvFacts DEF ServerRetires, Opened
  <2>2. ASSUME Become(Server, Reset(stream[Server])) PROVE StreamInv'
    BY <2>1, <2>2, ResetEmits, CallKeeps
  <2>3. ASSUME Become(Server, CloseTunnel(stream[Server])) PROVE StreamInv'
    BY <2>1, <2>3, CloseTunnelEmits, CallKeeps
  <2> QED BY <1>3, <2>2, <2>3 DEF ServerRetires
<1>4. ASSUME NEW e \in End, Write(e) PROVE StreamInv'
  <2>1. stream[e].state # "idle" /\ Proper(stream[e])
    BY <1>4, InvFacts DEF Write, Opened
  <2>2. PICK n \in 0..(MaxUnits[e] - stream[e].written), fin \in BOOLEAN :
          Become(e, SendData(stream[e], n, fin))
    BY <1>4 DEF Write
  <2>3. n \in Nat
    BY <2>2
  <2> QED BY <2>1, <2>2, <2>3, SendDataEmits, CallKeeps
<1>5. ASSUME NEW e \in End, CloseStream(e) PROVE StreamInv'
  <2>1. stream[e].state # "idle" /\ Proper(stream[e]) /\ Become(e, Close(stream[e]))
    BY <1>5, InvFacts DEF CloseStream, Opened
  <2> QED BY <2>1, CloseEmits, CallKeeps
<1>6. ASSUME NEW e \in End, Receive(e) PROVE StreamInv'
  BY <1>6, ReceiveKeeps
<1>7. CASE UNCHANGED muxVars
  BY <1>7 DEF muxVars, StreamInv, Delivering, Opening
<1> QED BY <1>1, <1>2, <1>3, <1>4, <1>5, <1>6, <1>7 DEF MuxNext

LEMMA InvOrders == StreamInv => MuxTypeOK /\ OrderedDelivery
<1> SUFFICES ASSUME StreamInv PROVE MuxTypeOK /\ OrderedDelivery
  OBVIOUS
<1>1. MuxTypeOK
  BY InvFacts DEF MuxTypeOK, Proper
<1>2. ASSUME NEW e \in End, NEW i \in 1..Len(stream[e].got)
      PROVE  stream[e].got[i] = i /\ i <= stream[Other(e)].written
  <2> DEFINE p == Other(e)
  <2>1. p \in End /\ Other(p) = e
    BY OtherEnd
  <2>2. /\ \A j \in 1..Len(stream[e].got) : stream[e].got[j] = j
        /\ Len(stream[e].got) <= Sent(stream[p])
    BY <2>1 DEF StreamInv, Delivering
  <2>3. /\ Len(stream[p].bufferedData) \in Nat /\ stream[p].written \in Nat
        /\ Sent(stream[p]) = stream[p].written - Len(stream[p].bufferedData)
    BY <2>1, InvFacts, SentIs DEF Proper, Sent
  <2>4. Len(stream[e].got) \in Nat
    BY InvFacts, GotIs
  <2> QED BY <2>2, <2>3, <2>4
<1> QED BY <1>1, <1>2 DEF OrderedDelivery

LEMMA StreamInvAlways == MuxSpec => []StreamInv
BY StreamInvInit, StreamInvNext, PTL DEF MuxSpec

(* The records of both ends, and the frames between them, are what the       *)
(* protocol has, whatever is called; and a stream the mux still has is not   *)
(* closed: whoever closes one takes it out of mux.streams.                   *)
THEOREM MuxTypes == MuxSpec => []MuxTypeOK
BY StreamInvAlways, InvOrders, PTL

(* The applications of a stream get what the other one wrote, in the order   *)
(* it was written and each unit once, whatever the window made sendData      *)
(* buffer and WINDOW_UPDATE frames flush, and whatever is called.            *)
THEOREM DataInOrder == MuxSpec => [](MuxTypeOK /\ OrderedDelivery)
<1> QED BY StreamInvAlways, InvOrders, PTL

----------------------------------------------------------------------------
(* The stream window.  A sum over a wire cannot be reasoned about; but what  *)
(* is under way to a peer that listens is what was sent and not got, and     *)
(* there is one grant under way at most: it takes more than half the window  *)
(* to be granted twice.                                                      *)
NoUpdate(w) == \A i \in 1..Len(w) : w[i].type # "WINDOW_UPDATE"

OneUpdate(w, n) ==
  \E i \in 1..Len(w) :
    /\ w[i].type = "WINDOW_UPDATE" /\ w[i].n = n
    /\ \A j \in 1..Len(w) : w[j].type = "WINDOW_UPDATE" => j = i

Pending(w, n) == (n = 0 /\ NoUpdate(w)) \/ (2 * n > Window /\ OneUpdate(w, n))

Awake(s) == s.state \notin {"idle", "closed"} => s.registered

Balanced(e) ==
  LET p == Other(e) IN
  "closed" \notin {stream[e].state, stream[p].state} =>
    /\ stream[e].sendWindow >= 0 /\ stream[p].recvWindow <= Window
    /\ \E n \in Nat : /\ Pending(wire[p], n)
                     /\ stream[e].sendWindow + Sent(stream[e]) + n
                           = stream[p].recvWindow + Len(stream[p].got)

WindowInv == \A e \in End : Awake(stream[e]) /\ Balanced(e)

(* What a call does to the window: what it sends, it spends.                 *)
Spends(s, q) ==
  /\ NoUpdate(q.out)
  /\ q.stream.recvWindow = s.recvWindow
  /\ q.stream.sendWindow + Sent(q.stream) = s.sendWindow + Sent(s)
  /\ s.sendWindow >= 0 => q.stream.sendWindow >= 0
  /\ s.state = "closed" => q.stream.state = "closed"
  /\ Awake(q.stream)

(* What a frame does to it: a grant adds to it, a unit takes from it, and    *)
(* may be granted again.                                                     *)
Granted(f) == IF f.type = "WINDOW_UPDATE" THEN f.n ELSE 0
Size(f) == IF IsUnit(f) THEN 1 ELSE 0

Takes(s, f, q) ==
  /\ q.stream.sendWindow + Sent(q.stream) = s.sendWindow + Sent(s) + Granted(f)
  /\ s.sendWindow >= 0 => q.stream.sendWindow >= 0
  /\ s.state # "closed" /\ Awake(q.stream)
  /\ \/ NoUpdate(q.out) /\ q.stream.recvWindow = s.recvWindow - Size(f)
     \/ /\ 2 * (s.recvWindow - Size(f)) < Window /\ q.stream.recvWindow = Window
        /\ q.out = <<Control("WINDOW_UPDATE", Window - (s.recvWindow - Size(f)))>>

LEMMA NoUpdates ==
  /\ NoUpdate(<< >>) /\ \A f : f.type # "WINDOW_UPDATE" => NoUpdate(<<f>>)
BY DEF NoUpdate

LEMMA NoUpdateAppended ==
  ASSUME NEW w \in Seq(Frame), NEW v \in Seq(Frame), NoUpdate(w), NoUpdate(v)
  PROVE  NoUpdate(w \o v)
<1> DEFINE z == w \o v
<1>1. /\ z \in Seq(Frame) /\ \A i \in 1..Len(w) : z[i] = w[i]
      /\ \A i \in 1..Len(z) : i > Len(w) => i - Len(w) \in 1..Len(v) /\ z[i] = v[i - Len(w)]
  BY Appended
<1>2. Len(w) \in Nat
  OBVIOUS
<1> HIDE DEF z
<1>3. ASSUME NEW i \in 1..Len(z) PROVE z[i].type # "WINDOW_UPDATE"
  <2>1. i > Len(w) \/ i \in 1..Len(w)
    BY <1>1, <1>2
  <2> QED BY <1>1, <2>1 DEF NoUpdate
<1> QED BY <1>3 DEF NoUpdate, z

LEMMA PendingAppended ==
  ASSUME NEW w \in Seq(Frame), NEW v \in Seq(Frame), NoUpdate(v), NEW n \in Nat, Pending(w, n)
  PROVE  Pending(w \o v, n)
<1>1. CASE NoUpdate(w) /\ n = 0
  BY <1>1, NoUpdateAppended DEF Pending
<1>2. CASE OneUpdate(w, n) /\ 2 * n > Window
  <2> DEFINE z == w \o v
  <2>1. /\ z \in Seq(Frame) /\ Len(z) = Len(w) + Len(v) /\ \A i \in 1..Len(w) : z[i] = w[i]
        /\ \A i \in 1..Len(z) : i > Len(w) => i - Len(w) \in 1..Len(v) /\ z[i] = v[i - Len(w)]
    BY Appended
  <2>2. Len(w) \in Nat /\ Len(v) \in Nat
    OBVIOUS
  <2> HIDE DEF z
  <2>3. PICK i \in 1..Len(w) : /\ w[i].type = "WINDOW_UPDATE" /\ w[i].n = n
                              /\ \A j \in 1..Len(w) : w[j].type = "WINDOW_UPDATE" => j = i
    BY <1>2 DEF OneUpdate
  <2>4. ASSUME NEW j \in 1..Len(z), z[j].type = "WINDOW_UPDATE" PROVE j = i
    <3>1. ~(j > Len(w))
      BY <2>1, <2>4 DEF NoUpdate
    <3>2. j \in 1..Len(w)
      BY <2>1, <2>2, <3>1
    <3> QED BY <2>1, <2>3, <2>4, <3>2
  <2>5. i \in 1..Len(z) /\ z[i] = w[i]
    BY <2>1, <2>2
  <2>6. OneUpdate(z, n)
    BY <2>3, <2>4, <2>5 DEF OneUpdate
  <2> QED BY <1>2, <2>6 DEF Pending, z
<1> QED BY <1>1, <1>2 DEF Pending

LEMMA UpdateAppended ==
  ASSUME NEW w \in Seq(Frame), NoUpdate(w), NEW n \in Nat, 2 * n > Window
  PROVE  Pending(w \o <<Control("WINDOW_UPDATE", n)>>, n)
<1> DEFINE f == Control("WINDOW_UPDATE", n)
           z == w \o <<f>>
<1>1. f \in Frame /\ f.type = "WINDOW_UPDATE" /\ f.n = n
  BY DEF Control, Frame, FRAME_TYPE
<1> HIDE DEF f
<1>2. /\ Len(w) \in Nat /\ Len(z) = Len(w) + 1 /\ z[Len(w) + 1] = f
      /\ \A i \in 1..Len(w) : z[i] = w[i]
  BY <1>1
<1> HIDE DEF z
<1>3. \A j \in 1..Len(z) : j \in 1..Len(w) \/ j = Len(w) + 1
  BY <1>2
<1>4. Len(w) + 1 \in 1..Len(z)
  BY <1>2
<1>5. OneUpdate(z, n)
  BY <1>1, <1>2, <1>3, <1>4 DEF OneUpdate, NoUpdate
<1> QED BY <1>5 DEF Pending, z, f

LEMMA PendingTaken ==
  ASSUME NEW w \in Seq(Frame), w # << >>, NEW n \in Nat, Pending(w, n)
  PROVE  /\ Head(w).type # "WINDOW_UPDATE" => Pending(Tail(w), n)
         /\ Head(w).type = "WINDOW_UPDATE" => n = Head(w).n /\ Pending(Tail(w), 0)
<1> DEFINE z == Tail(w)
<1>1. /\ Head(w) = w[1] /\ Len(z) = Len(w) - 1 /\ Len(w) \in Nat \ {0}
      /\ \A i \in 1..Len(z) : z[i] = w[i + 1] /\ i + 1 \in 1..Len(w)
  BY TheTail
<1>2. Len(z) \in Nat /\ 1 \in 1..Len(w) /\ \A i \in 1..Len(z) : i + 1 # 1
  BY <1>1
<1> HIDE DEF z
<1>3. CASE NoUpdate(w) /\ n = 0
  <2>1. NoUpdate(z) /\ w[1].type # "WINDOW_UPDATE"
    BY <1>1, <1>2, <1>3 DEF NoUpdate
  <2> QED BY <1>1, <1>3, <2>1 DEF Pending, z
<1>4. CASE OneUpdate(w, n) /\ 2 * n > Window
  <2>1. PICK i \in 1..Len(w) : /\ w[i].type = "WINDOW_UPDATE" /\ w[i].n = n
                              /\ \A j \in 1..Len(w) : w[j].type = "WINDOW_UPDATE" => j = i
    BY <1>4 DEF OneUpdate
  <2>2. CASE i = 1
    <3>1. NoUpdate(z)
      BY <1>1, <1>2, <2>1, <2>2 DEF NoUpdate
    <3> QED BY <1>1, <2>1, <2>2, <3>1 DEF Pending, z
  <2>3. CASE i # 1
    <3>1. i - 1 \in 1..Len(z) /\ (i - 1) + 1 = i
      BY <1>1, <2>3
    <3>2. z[i - 1] = w[i]
      BY <1>1, <3>1
    <3>3. ASSUME NEW j \in 1..Len(z), z[j].type = "WINDOW_UPDATE" PROVE j = i - 1
      <4>1. j + 1 = i
        BY <1>1, <2>1, <3>3
      <4> QED BY <4>1
    <3>4. OneUpdate(z, n)
      BY <2>1, <3>1, <3>2, <3>3 DEF OneUpdate
    <3>5. w[1].type # "WINDOW_UPDATE"
      BY <1>2, <2>1, <2>3
    <3> QED BY <1>1, <1>4, <3>4, <3>5 DEF Pending, z
  <2> QED BY <2>2, <2>3
<1> QED BY <1>3, <1>4 DEF Pending

(* Of the units lo + 1 .. hi, in order, there are hi - lo.                   *)
LEMMA InFlight ==
  ASSUME NEW w \in Seq(Frame), NEW lo \in Nat, NEW hi \in Nat, lo <= hi, InOrder(w, lo, hi)
  PROVE  Cardinality(DataIn(w)) = hi - lo
<1> DEFINE S == DataIn(w)
           T == (lo + 1)..hi
           g == [i \in S |-> w[i].n]
<1>1. S \in SUBSET (1..Len(w)) /\ \A i \in S : IsUnit(w[i]) /\ i \in Nat
  BY DEF DataIn, IsUnit
<1>2. \A i \in 1..Len(w) : IsUnit(w[i]) => i \in S
  BY DEF DataIn, IsUnit
<1>3. \A i \in 1..Len(w) : w[i].n \in Nat
  BY FrameOf
<1>4. IsFiniteSet(S)
  <2>1. Len(w) \in Int
    OBVIOUS
  <2>2. IsFiniteSet(1..Len(w))
    BY <2>1, FS_Interval
  <2> QED BY <1>1, <2>2, FS_Subset
<1> HIDE DEF S
<1>5. g \in [S -> T]
  <2>1. \A i \in S : w[i].n \in T
    BY <1>1, <1>3 DEF InOrder
  <2> QED BY <2>1
<1>6. \A i, j \in S : g[i] = g[j] => i = j
  <2> SUFFICES ASSUME NEW i \in S, NEW j \in S, g[i] = g[j], i < j PROVE FALSE
    BY <1>1
  <2>1. w[i].n < w[j].n
    BY <1>1 DEF InOrder
  <2> QED BY <1>1, <1>3, <2>1
<1>7. \A u \in T : \E i \in S : g[i] = u
  BY <1>2 DEF InOrder
<1>8. g \in Bijection(S, T)
  BY <1>5, <1>6, <1>7 DEF Bijection, Injection, Surjection, IsInjective
<1>9. Cardinality(T) = Cardinality(S)
  BY <1>4, <1>8, FS_Bijection DEF ExistsBijection
<1>10. Cardinality(T) = hi - lo
  <2>1. lo + 1 \in Int /\ hi \in Int
    OBVIOUS
  <2>2. Cardinality(T) = IF lo + 1 > hi THEN 0 ELSE hi - (lo + 1) + 1
    BY <2>1, FS_Interval
  <2> QED BY <2>2
<1> QED BY <1>9, <1>10 DEF S

(* What the invariant says of the window is what the property says.          *)
LEMMA InvConserves == StreamInv /\ WindowInv => StreamWindowConserved
<1> SUFFICES ASSUME StreamInv, WindowInv PROVE StreamWindowConserved
  OBVIOUS
<1> SUFFICES ASSUME NEW e \in End, "closed" \notin {stream[e].state, stream[Other(e)].state}
             PROVE
      LET p == Other(e)
          held == stream[e].sendWindow + Cardinality(DataIn(wire[e]))
      IN /\ \/ UpdatesIn(wire[p]) = {} /\ held = stream[p].recvWindow
            \/ \E i \in 1..Len(wire[p]) :
                 UpdatesIn(wire[p]) = {i} /\ held + wire[p][i].n = stream[p].recvWindow
         /\ stream[e].sendWindow >= 0 /\ stream[p].recvWindow <= Window
  BY DEF StreamWindowConserved
<1> DEFINE p == Other(e)
<1>1. /\ p \in End /\ stream[e] \in StreamRecord /\ stream[p] \in StreamRecord
      /\ Proper(stream[e]) /\ wire[e] \in Seq(Frame)
  BY InvFacts, OtherEnd
<1>2. /\ Sent(stream[e]) \in Nat /\ Len(stream[p].got) \in Nat
      /\ stream[e].sendWindow \in Int /\ stream[p].recvWindow \in Int
  BY <1>1, SentIs, GotIs DEF Proper, StreamRecord
<1>3. Listens(stream[p])
  BY <1>1 DEF WindowInv, Awake, Listens
<1>4. InOrder(wire[e], Len(stream[p].got), Sent(stream[e])) /\ Len(stream[p].got) <= Sent(stream[e])
  BY <1>3 DEF StreamInv, Delivering
<1>5. Cardinality(DataIn(wire[e])) = Sent(stream[e]) - Len(stream[p].got)
  BY <1>1, <1>2, <1>4, InFlight
<1>6. PICK n \in Nat : /\ Pending(wire[p], n)
                       /\ stream[e].sendWindow + Sent(stream[e]) + n = stream[p].recvWindow + Len(stream[p].got)
  BY DEF WindowInv, Balanced
<1>7. stream[e].sendWindow >= 0 /\ stream[p].recvWindow <= Window
  BY DEF WindowInv, Balanced
<1> DEFINE held == stream[e].sendWindow + Cardinality(DataIn(wire[e]))
<1>8. held + n = stream[p].recvWindow
  <2> DEFINE sent == Sent(stream[e])
             got == Len(stream[p].got)
             units == Cardinality(DataIn(wire[e]))
  <2>1. /\ sent \in Nat /\ got \in Nat /\ stream[e].sendWindow \in Int /\ units = sent - got
        /\ stream[e].sendWindow + sent + n = stream[p].recvWindow + got
        /\ held = stream[e].sendWindow + units /\ stream[p].recvWindow \in Int
    BY <1>2, <1>5, <1>6
  <2> DEFINE sw == stream[e].sendWindow
             rw == stream[p].recvWindow
  <2>2. /\ sent \in Int /\ got \in Int /\ sw \in Int /\ units \in Int /\ rw \in Int /\ n \in Int
        /\ units = sent - got /\ sw + sent + n = rw + got /\ held = sw + units
    BY <2>1
  <2> HIDE DEF sent, got, units, held, sw, rw
  <2>3. held + n = rw
    BY <2>2
  <2> QED BY <2>3 DEF rw
<1>9. CASE n = 0 /\ NoUpdate(wire[p])
  <2>1. UpdatesIn(wire[p]) = {}
    BY <1>9 DEF NoUpdate, UpdatesIn
  <2>2. held = stream[p].recvWindow
    <3>1. held + 0 = stream[p].recvWindow /\ held \in Int
      BY <1>2, <1>5, <1>8, <1>9
    <3> HIDE DEF held, p
    <3> QED BY <3>1
  <2> QED BY <1>7, <2>1, <2>2
<1>10. CASE OneUpdate(wire[p], n)
  <2>1. PICK i \in 1..Len(wire[p]) :
          /\ wire[p][i].type = "WINDOW_UPDATE" /\ wire[p][i].n = n
          /\ \A j \in 1..Len(wire[p]) : wire[p][j].type = "WINDOW_UPDATE" => j = i
    BY <1>10 DEF OneUpdate
  <2>2. UpdatesIn(wire[p]) = {i}
    BY <2>1 DEF UpdatesIn
  <2> QED BY <1>7, <1>8, <2>1, <2>2
<1> QED BY <1>6, <1>9, <1>10 DEF Pending

----------------------------------------------------------------------------
(* What each call does to the window.                                        *)
LEMMA SpendsNothing ==
  ASSUME NEW s, Proper(s), NEW t, NEW out, NoUpdate(out),
         t.written = s.written, t.bufferedData = s.bufferedData,
         t.sendWindow = s.sendWindow, t.recvWindow = s.recvWindow,
         s.state = "closed" => t.state = "closed", Awake(t)
  PROVE  Spends(s, Result(t, out))
<1>1. Sent(t) = Sent(s)
  BY DEF Sent
<1> QED BY <1>1 DEF Spends, Result

LEMMA UnchangedSpends ==
  ASSUME NEW s, Proper(s), Awake(s)
  PROVE  Spends(s, Unchanged(s))
BY SpendsNothing, NoUpdates DEF Unchanged

LEMMA SendHeadersSpends ==
  ASSUME NEW s, Proper(s), Awake(s), s.state = "idle" => s.registered, NEW n \in Nat, NEW fin \in BOOLEAN
  PROVE  Spends(s, SendHeaders(s, n, fin))
<1>1. CASE s.state = "closed"
  BY <1>1, UnchangedSpends DEF SendHeaders
<1>2. CASE s.state # "closed"
  <2> DEFINE t == [s EXCEPT !.state = IF fin THEN "half_closed_local" ELSE "open", !.answered = TRUE]
  <2>1. SendHeaders(s, n, fin) = Result(t, <<Headers(n, fin)>>)
    BY <1>2 DEF SendHeaders
  <2>2. /\ t.written = s.written /\ t.bufferedData = s.bufferedData /\ t.sendWindow = s.sendWindow
        /\ t.recvWindow = s.recvWindow /\ t.registered = s.registered
    BY DEF Proper, StreamRecord
  <2>3. NoUpdate(<<Headers(n, fin)>>) /\ s.registered
    BY <1>2, NoUpdates DEF Headers, Awake
  <2> HIDE DEF t
  <2> QED BY <1>2, <2>1, <2>2, <2>3, SpendsNothing DEF Awake
<1> QED BY <1>1, <1>2

LEMMA OpenTunnelSpends ==
  ASSUME NEW s, Proper(s), s.registered
  PROVE  Spends(s, OpenTunnel(s))
<1> DEFINE t == [s EXCEPT !.state = "open"]
<1>1. /\ t.written = s.written /\ t.bufferedData = s.bufferedData /\ t.sendWindow = s.sendWindow
      /\ t.recvWindow = s.recvWindow /\ t.registered = s.registered /\ s.state # "closed"
  BY DEF Proper, StreamRecord
<1>2. NoUpdate(<<Control("TUNNEL_OPEN", 0)>>)
  BY NoUpdates DEF Control
<1>3. OpenTunnel(s) = Result(t, <<Control("TUNNEL_OPEN", 0)>>)
  BY DEF OpenTunnel
<1> HIDE DEF t
<1> QED BY <1>1, <1>2, <1>3, SpendsNothing DEF Awake

LEMMA ClosedSpends ==
  ASSUME NEW s, Proper(s), NEW out, NoUpdate(out),
         NEW t, t = [s EXCEPT !.state = "closed", !.registered = FALSE]
  PROVE  Spends(s, Result(t, out))
<1>1. /\ t.written = s.written /\ t.bufferedData = s.bufferedData /\ t.sendWindow = s.sendWindow
      /\ t.recvWindow = s.recvWindow /\ t.state = "closed"
  BY DEF Proper, StreamRecord
<1> QED BY <1>1, SpendsNothing DEF Awake

LEMMA ResetSpends ==
  ASSUME NEW s, Proper(s), Awake(s)
  PROVE  Spends(s, Reset(s))
<1>1. CASE s.state = "closed"
  BY <1>1, UnchangedSpends DEF Reset
<1>2. CASE s.state # "closed"
  <2>1. NoUpdate(<<Control("RST_STREAM", 0)>>)
    BY NoUpdates DEF Control
  <2> QED BY <1>2, <2>1, ClosedSpends DEF Reset
<1> QED BY <1>1, <1>2

LEMMA CloseSpends ==
  ASSUME NEW s, Proper(s), Awake(s)
  PROVE  Spends(s, Close(s))
<1>1. CASE s.state = "closed"
  BY <1>1, UnchangedSpends DEF Close
<1>2. CASE s.state = "open"
  <2> DEFINE t == [s EXCEPT !.state = "half_closed_local"]
             out == <<Data(0, TRUE)>>
  <2>1. /\ t.written = s.written /\ t.bufferedData = s.bufferedData /\ t.sendWindow = s.sendWindow
        /\ t.recvWindow = s.recvWindow /\ t.registered = s.registered
    BY DEF Proper, StreamRecord
  <2>2. NoUpdate(out) /\ s.registered
    BY <1>2, NoUpdates DEF Data, Awake
  <2>3. Close(s) = Result(t, out)
    BY <1>2 DEF Close
  <2> HIDE DEF t
  <2> QED BY <1>2, <2>1, <2>2, <2>3, SpendsNothing DEF Awake
<1>3. CASE s.state \notin {"closed", "open"}
  <2> DEFINE t == [s EXCEPT !.state = "closed", !.registered = FALSE]
  <2>1. Close(s) = Result(t, << >>)
    BY <1>3 DEF Close
  <2> QED BY <2>1, NoUpdates, ClosedSpends
<1> QED BY <1>1, <1>2, <1>3

LEMMA CloseTunnelSpends ==
  ASSUME NEW s, Proper(s), s.state # "idle", Awake(s)
  PROVE  Spends(s, CloseTunnel(s))
<1>1. CASE ~s.registered
  BY <1>1, UnchangedSpends DEF CloseTunnel
<1>2. CASE s.registered
  <2> DEFINE c == Close(s)
             t == [c.stream EXCEPT !.state = "closed", !.registered = FALSE]
             f == Control("TUNNEL_CLOSE", 0)
             out == Append(c.out, f)
  <2>1. CloseTunnel(s) = Result(t, out)
    BY <1>2 DEF CloseTunnel
  <2>2. /\ c.stream \in StreamRecord /\ c.stream.written = s.written
        /\ c.stream.bufferedData = s.bufferedData /\ c.stream.sendWindow = s.sendWindow
        /\ c.stream.recvWindow = s.recvWindow /\ c.out \in Seq(Frame) /\ NoUpdate(c.out)
    BY CloseEmits, CloseSpends DEF Emits, Sends, Proper, Spends
  <2>3. f \in Frame /\ f.type # "WINDOW_UPDATE"
    BY DEF Control, Frame, FRAME_TYPE
  <2> HIDE DEF c, f
  <2>4. \A i \in 1..Len(out) : out[i] = f \/ (i \in 1..Len(c.out) /\ out[i] = c.out[i])
    BY <2>2, <2>3
  <2> HIDE DEF out
  <2>5. NoUpdate(out)
    BY <2>2, <2>3, <2>4 DEF NoUpdate
  <2>6. /\ t.written = s.written /\ t.bufferedData = s.bufferedData
        /\ t.sendWindow = s.sendWindow /\ t.recvWindow = s.recvWindow /\ t.state = "closed"
    BY <2>2 DEF StreamRecord
  <2> HIDE DEF t
  <2> QED BY <2>1, <2>5, <2>6, SpendsNothing DEF Awake
<1> QED BY <1>1, <1>2

LEMMA DataIsNoUpdate ==
  ASSUME NEW u \in Seq(Nat), NEW fin \in BOOLEAN
  PROVE  NoUpdate(DataFrames(u, fin))
<1>1. Len(DataFrames(u, fin)) = Len(u) /\ \A i \in 1..Len(u) : DataFrames(u, fin)[i].type = "DATA"
  BY DataFramesAre
<1> QED BY <1>1 DEF NoUpdate

LEMMA FitsWithin ==
  ASSUME NEW s \in StreamRecord, NEW n \in Nat, s.sendWindow >= 0
  PROVE  s.sendWindow - Fits(s, n) >= 0
BY DEF Fits, StreamRecord

LEMMA SendDataSpends ==
  ASSUME NEW s, Proper(s), Awake(s), s.state # "idle", NEW n \in Nat, NEW fin \in BOOLEAN
  PROVE  Spends(s, SendData(s, n, fin))
<1>1. CASE s.state \in {"closed", "half_closed_local"}
  BY <1>1, UnchangedSpends DEF SendData
<1>2. CASE s.state \notin {"closed", "half_closed_local"}
  <2> DEFINE k == Fits(s, n)
             now == Numbered(s.written, s.written + k)
             later == Numbered(s.written + k, s.written + n)
             all == k = n
             t == [s EXCEPT !.sendWindow = @ - k, !.bufferedData = @ \o later, !.written = @ + n,
                            !.state = IF all /\ fin THEN "half_closed_local" ELSE @]
             out == IF n = 0 THEN <<Data(0, fin)>> ELSE DataFrames(now, all /\ fin)
  <2>1. SendData(s, n, fin) = Result(t, out)
    BY <1>2 DEF SendData
  <2>2. /\ k \in 0..n /\ (s.sendWindow >= 0 => s.sendWindow - k >= 0)
        /\ s \in StreamRecord /\ s.bufferedData \in Seq(Nat)
        /\ s.written \in Nat /\ s.sendWindow \in Int
    BY FitsIs, FitsWithin DEF Proper, StreamRecord
  <2> HIDE DEF k
  <2>3. now \in Seq(Nat) /\ later \in Seq(Nat) /\ Len(later) = n - k
    <3>1. now \in Seq(Nat)
      <4>1. s.written \in Nat /\ k \in Nat
        BY <2>2
      <4> QED BY <4>1, NumberedIs
    <3> DEFINE x == s.written + k
               m == n - k
    <3>2. x \in Nat /\ m \in Nat /\ s.written + n = x + m
      BY <2>2
    <3>3. later = Numbered(x, x + m)
      BY <3>2
    <3> HIDE DEF x, m, later, now
    <3>4. later \in Seq(Nat) /\ Len(later) = m
      BY <3>2, <3>3, NumberedIs
    <3> QED BY <3>1, <3>4 DEF x, m
  <2>4. (all /\ fin) \in BOOLEAN
    OBVIOUS
  <2> HIDE DEF now, later, all
  <2>5. NoUpdate(out)
    <3>1. NoUpdate(<<Data(0, fin)>>)
      BY NoUpdates DEF Data
    <3> QED BY <2>3, <2>4, <3>1, DataIsNoUpdate
  <2>6. /\ t.sendWindow = s.sendWindow - k /\ t.bufferedData = s.bufferedData \o later
        /\ t.written = s.written + n /\ t.registered = s.registered /\ t.recvWindow = s.recvWindow
    BY <2>2 DEF StreamRecord
  <2> HIDE DEF t, out
  <2>7. s.registered
    BY <1>2 DEF Awake
  <2>8. Len(t.bufferedData) = Len(s.bufferedData) + (n - k) /\ Len(s.bufferedData) \in Nat
    <3> DEFINE b == s.bufferedData
    <3>1. b \in Seq(Nat) /\ t.bufferedData = b \o later
      BY <2>2, <2>6
    <3> HIDE DEF b
    <3>2. Len(b \o later) = Len(b) + Len(later)
      BY <2>3, <3>1, Appended
    <3>3. Len(b) \in Nat
      BY <3>1
    <3> QED BY <2>3, <3>1, <3>2, <3>3 DEF b
  <2>9. Sent(t) = Sent(s) + k /\ Sent(s) \in Int
    BY <2>2, <2>6, <2>8 DEF Sent
  <2>10. t.sendWindow + Sent(t) = s.sendWindow + Sent(s)
    BY <2>2, <2>6, <2>9
  <2>11. s.sendWindow >= 0 => t.sendWindow >= 0
    BY <2>2, <2>6
  <2>12. Awake(t)
    BY <2>6, <2>7 DEF Awake
  <2>13. SendData(s, n, fin).stream = t /\ SendData(s, n, fin).out = out
    BY <2>1 DEF Result
  <2> QED BY <1>2, <2>5, <2>6, <2>10, <2>11, <2>12, <2>13 DEF Spends
<1> QED BY <1>1, <1>2

----------------------------------------------------------------------------
(* What each frame does to it.                                               *)
LEMMA FlushSpends ==
  ASSUME NEW s \in StreamRecord, s.registered
  PROVE  /\ FlushBuffered(s).stream.sendWindow + Sent(FlushBuffered(s).stream) = s.sendWindow + Sent(s)
         /\ s.sendWindow >= 0 => FlushBuffered(s).stream.sendWindow >= 0
         /\ FlushBuffered(s).stream.recvWindow = s.recvWindow
         /\ FlushBuffered(s).stream.registered /\ NoUpdate(FlushBuffered(s).out)
<1> DEFINE b == s.bufferedData
           k == Fits(s, Len(b))
           now == SubSeq(b, 1, k)
           rest == SubSeq(b, k + 1, Len(b))
           t == [s EXCEPT !.sendWindow = @ - k, !.bufferedData = rest]
           out == DataFrames(now, FALSE)
<1>1. b \in Seq(Nat) /\ Len(b) \in Nat /\ s.written \in Nat /\ s.sendWindow \in Int
  BY DEF StreamRecord
<1>2. k \in 0..Len(b) /\ (s.sendWindow >= 0 => s.sendWindow - k >= 0)
  BY <1>1, FitsIs, FitsWithin
<1>3. FlushBuffered(s) = Result(t, out)
  <2>1. rest = SubSeq(s.bufferedData, k + 1, Len(s.bufferedData))
    OBVIOUS
  <2>2. t = [s EXCEPT !.sendWindow = s.sendWindow - k, !.bufferedData = rest]
    BY DEF StreamRecord
  <2>3. [s EXCEPT !.sendWindow = @ - k, !.bufferedData = SubSeq(@, k + 1, Len(@))]
          = [s EXCEPT !.sendWindow = s.sendWindow - k, !.bufferedData = rest]
    BY DEF StreamRecord
  <2> QED BY <2>2, <2>3 DEF FlushBuffered
<1> HIDE DEF k
<1>4. now \in Seq(Nat) /\ Len(rest) = Len(b) - k
  BY <1>1, <1>2, PrefixIs, SuffixIs
<1> HIDE DEF now, rest
<1>5. /\ t.sendWindow = s.sendWindow - k /\ t.bufferedData = rest /\ t.written = s.written
      /\ t.registered = s.registered /\ t.recvWindow = s.recvWindow
  BY DEF StreamRecord
<1>6. NoUpdate(out)
  <2>1. FALSE \in BOOLEAN
    OBVIOUS
  <2> QED BY <1>4, <2>1, DataIsNoUpdate
<1> HIDE DEF t, out
<1>7. Sent(t) = Sent(s) + k /\ Sent(s) \in Int
  BY <1>1, <1>2, <1>4, <1>5 DEF Sent
<1>8. FlushBuffered(s).stream = t /\ FlushBuffered(s).out = out
  BY <1>3 DEF Result
<1>9. t.sendWindow + Sent(t) = s.sendWindow + Sent(s)
  BY <1>1, <1>2, <1>5, <1>7
<1> QED BY <1>2, <1>5, <1>6, <1>8, <1>9

LEMMA UpdateTakes ==
  ASSUME NEW s, Proper(s), s.registered, NEW f \in Frame, f.type = "WINDOW_UPDATE"
  PROVE  Takes(s, f, HandleWindowUpdate(s, f))
<1> DEFINE w == s.sendWindow + f.n
           t == [s EXCEPT !.sendWindow = @ + f.n]
           q == HandleWindowUpdate(s, f)
<1>1. s \in StreamRecord /\ f.n \in Nat /\ s.sendWindow \in Int /\ s.state # "closed" /\ s.recvWindow \in Int
  BY DEF Proper, StreamRecord, Frame
<1>2. t = [s EXCEPT !.sendWindow = w] /\ w \in Int
  BY <1>1
<1>3. q = FlushBuffered(t)
  BY DEF HandleWindowUpdate
<1> HIDE DEF q
<1>4. /\ t \in StreamRecord /\ t.registered /\ t.sendWindow = w /\ t.recvWindow = s.recvWindow
      /\ t.written = s.written /\ t.bufferedData = s.bufferedData
  <2> HIDE DEF w, t
  <2> QED BY <1>1, <1>2 DEF StreamRecord
<1> HIDE DEF t
<1>5. Sent(t) = Sent(s) /\ Sent(s) \in Int
  BY <1>1, <1>4, SentIs DEF Sent, Proper
<1>6. /\ q.stream.sendWindow + Sent(q.stream) = t.sendWindow + Sent(t)
      /\ t.sendWindow >= 0 => q.stream.sendWindow >= 0
      /\ q.stream.recvWindow = t.recvWindow /\ q.stream.registered /\ NoUpdate(q.out)
  BY <1>3, <1>4, FlushSpends
<1>7. Granted(f) = f.n /\ Size(f) = 0
  BY DEF Granted, Size, IsUnit
<1>8. q.stream.sendWindow + Sent(q.stream) = s.sendWindow + Sent(s) + Granted(f)
  BY <1>1, <1>4, <1>5, <1>6, <1>7
<1>9. s.sendWindow >= 0 => q.stream.sendWindow >= 0
  BY <1>1, <1>4, <1>6
<1>10. q.stream.recvWindow = s.recvWindow - Size(f)
  BY <1>1, <1>4, <1>6, <1>7
<1> QED BY <1>1, <1>6, <1>8, <1>9, <1>10 DEF Takes, Awake, q

LEMMA DataTakes ==
  ASSUME NEW s, Proper(s), s.registered, NEW f \in Frame, f.type = "DATA"
  PROVE  Takes(s, f, HandleData(s, f))
<1> DEFINE size == IF f.n = 0 THEN 0 ELSE 1
           left == s.recvWindow - size
           u == [s EXCEPT !.recvWindow = @ - size]
           r == RestoreWindow(u)
           t == [r.stream EXCEPT !.got = IF f.n = 0 THEN @ ELSE Append(@, f.n),
                                 !.state = IF f.fin THEN "half_closed_remote" ELSE @]
<1>1. s \in StreamRecord /\ f.n \in Nat /\ size \in Int /\ s.recvWindow \in Int /\ Window \in Nat
      /\ s.state # "closed" /\ Size(f) = size /\ Granted(f) = 0 /\ left \in Int
  BY WindowAssumption DEF Proper, StreamRecord, Frame, Size, IsUnit, Granted
<1>2. HandleData(s, f) = Result(t, r.out)
  BY DEF HandleData
<1>3. u = [s EXCEPT !.recvWindow = left]
  OBVIOUS
<1> HIDE DEF size
<1>4. /\ u \in StreamRecord /\ u.recvWindow = left /\ u.sendWindow = s.sendWindow
      /\ u.written = s.written /\ u.bufferedData = s.bufferedData /\ u.registered
  <2> HIDE DEF left, u
  <2> QED BY <1>1, <1>3 DEF StreamRecord
<1> HIDE DEF u, left
<1>5. /\ r.stream \in StreamRecord /\ r.stream.sendWindow = s.sendWindow /\ r.stream.written = s.written
      /\ r.stream.bufferedData = s.bufferedData /\ r.stream.registered
      /\ \/ NoUpdate(r.out) /\ r.stream.recvWindow = left
         \/ /\ 2 * left < Window /\ r.stream.recvWindow = Window
            /\ r.out = <<Control("WINDOW_UPDATE", Window - left)>>
  <2>1. CASE 2 * left < Window
    <3>1. r = Result([u EXCEPT !.recvWindow = Window], <<Control("WINDOW_UPDATE", Window - left)>>)
      BY <1>4, <2>1 DEF RestoreWindow
    <3> DEFINE v == [u EXCEPT !.recvWindow = Window]
    <3>2. /\ v \in StreamRecord /\ v.recvWindow = Window /\ v.sendWindow = u.sendWindow
          /\ v.bufferedData = u.bufferedData /\ v.written = u.written /\ v.registered = u.registered
      <4>1. Window \in Int /\ u \in StreamRecord /\ v = [u EXCEPT !.recvWindow = Window]
        BY <1>1, <1>4
      <4> HIDE DEF v
      <4> QED BY <4>1, RecvWindowChanged
    <3> HIDE DEF v, r
    <3> QED BY <1>4, <2>1, <3>1, <3>2 DEF Result, v
  <2>2. CASE ~(2 * left < Window)
    <3>1. r = Result(u, << >>)
      BY <1>4, <2>2 DEF RestoreWindow, Unchanged
    <3> HIDE DEF r
    <3> QED BY <1>4, <3>1, NoUpdates DEF Result
  <2> QED BY <2>1, <2>2
<1> HIDE DEF r
<1>6. /\ t.sendWindow = s.sendWindow /\ t.written = s.written /\ t.bufferedData = s.bufferedData
      /\ t.registered /\ t.recvWindow = r.stream.recvWindow
  BY <1>5 DEF StreamRecord
<1> HIDE DEF t
<1>7. Sent(t) = Sent(s) /\ Sent(s) \in Int /\ s.sendWindow \in Int
  BY <1>1, <1>6, SentIs DEF Sent, Proper, StreamRecord
<1>8. HandleData(s, f).stream = t /\ HandleData(s, f).out = r.out
  BY <1>2 DEF Result
<1>9. t.sendWindow + Sent(t) = s.sendWindow + Sent(s) + Granted(f)
  BY <1>1, <1>6, <1>7
<1>10. left = s.recvWindow - Size(f)
  BY <1>1 DEF left
<1> QED BY <1>1, <1>5, <1>6, <1>8, <1>9, <1>10 DEF Takes, Awake

LEMMA NothingTaken ==
  ASSUME NEW s, Proper(s), s.state # "closed", NEW f, f.type # "WINDOW_UPDATE", ~IsUnit(f),
         NEW t, t.written = s.written, t.bufferedData = s.bufferedData,
         t.sendWindow = s.sendWindow, t.recvWindow = s.recvWindow, Awake(t)
  PROVE  Takes(s, f, Unchanged(t))
<1>1. Sent(t) = Sent(s) /\ Sent(s) \in Int /\ s.sendWindow \in Int /\ s.recvWindow \in Int
  BY SentIs DEF Sent, Proper, StreamRecord
<1>2. Granted(f) = 0 /\ Size(f) = 0
  BY DEF Granted, Size
<1>3. /\ t.sendWindow + Sent(t) = s.sendWindow + Sent(s) + Granted(f)
      /\ t.recvWindow = s.recvWindow - Size(f)
  BY <1>1, <1>2
<1> QED BY <1>3, NoUpdates DEF Takes, Unchanged, Result

(* A stream that the mux still has.                                          *)
LEMMA HandleTakes ==
  ASSUME NEW e \in End, NEW s, Proper(s), s.registered, NEW f \in Frame
  PROVE  Takes(s, f, HandleFrame(e, s, f))
<1> DEFINE q == HandleFrame(e, s, f)
<1>0. s \in StreamRecord /\ f.type \in FRAME_TYPE /\ s.state # "closed"
  BY DEF Proper, Frame
<1>1. CASE f.type = "HEADERS"
  <2> DEFINE state == IF f.fin THEN "half_closed_remote" ELSE "open"
             t == [s EXCEPT !.state = state]
  <2>1. q = Unchanged(t)
    BY <1>1 DEF HandleFrame, HandleHeaders
  <2>2. /\ t.written = s.written /\ t.bufferedData = s.bufferedData /\ t.registered
        /\ t.sendWindow = s.sendWindow /\ t.recvWindow = s.recvWindow
    BY <1>0 DEF StreamRecord
  <2>3. f.type # "WINDOW_UPDATE" /\ ~IsUnit(f)
    BY <1>1 DEF IsUnit
  <2> HIDE DEF t, q
  <2>4. Awake(t)
    BY <2>2 DEF Awake
  <2> QED BY <1>0, <2>1, <2>2, <2>3, <2>4, NothingTaken DEF q
<1>2. CASE f.type = "DATA"
  BY <1>2, DataTakes DEF HandleFrame
<1>3. CASE f.type = "RST_STREAM"
  <2> DEFINE t == [s EXCEPT !.state = "closed", !.registered = FALSE]
  <2>1. q = Unchanged(t)
    BY <1>3 DEF HandleFrame, HandleReset
  <2>2. /\ t.written = s.written /\ t.bufferedData = s.bufferedData /\ t.state = "closed"
        /\ t.sendWindow = s.sendWindow /\ t.recvWindow = s.recvWindow
    BY <1>0 DEF StreamRecord
  <2>3. f.type # "WINDOW_UPDATE" /\ ~IsUnit(f)
    BY <1>3 DEF IsUnit
  <2> HIDE DEF t, q
  <2>4. Awake(t)
    BY <2>2 DEF Awake
  <2> QED BY <1>0, <2>1, <2>2, <2>3, <2>4, NothingTaken DEF q
<1>4. CASE f.type = "WINDOW_UPDATE"
  BY <1>4, UpdateTakes DEF HandleFrame
<1>5. CASE f.type \notin {"HEADERS", "DATA", "RST_STREAM", "WINDOW_UPDATE"}
  <2>1. q = Unchanged(s)
    BY <1>5 DEF HandleFrame
  <2>2. f.type # "WINDOW_UPDATE" /\ ~IsUnit(f) /\ Awake(s)
    BY <1>5 DEF IsUnit, Awake
  <2> HIDE DEF q
  <2> QED BY <1>0, <2>1, <2>2, NothingTaken DEF q
<1> QED BY <1>1, <1>2, <1>3, <1>4, <1>5


----------------------------------------------------------------------------
(* The steps: what a call spends leaves the sum as it is, and so does what a *)
(* frame takes and grants.                                                   *)
LEMMA BecomeBalances ==
  ASSUME StreamInv, StreamInv', WindowInv, NEW e \in End, NEW q, Become(e, q),
         Emits(stream[e], q), q.stream.got = stream[e].got, Spends(stream[e], q)
  PROVE  WindowInv'
<1> DEFINE p == Other(e)
           s == stream[e]
<1>0. p \in End /\ p # e /\ Other(p) = e /\ \A d \in End : d = e \/ d = p
  BY OtherEnd DEF End, Other
<1>1. /\ wire \in [End -> Seq(Frame)] /\ stream \in [End -> StreamRecord]
      /\ Proper(s) /\ Proper(stream[p]) /\ wire[e] \in Seq(Frame) /\ wire[p] \in Seq(Frame)
      /\ q.out \in Seq(Frame) /\ Proper(q.stream)
  BY <1>0, InvFacts DEF Emits, Sends
<1>2. /\ stream'[e] = q.stream /\ stream'[p] = stream[p]
      /\ wire'[e] = wire[e] \o q.out /\ wire'[p] = wire[p]
  BY <1>0, <1>1 DEF Become
<1>3. /\ NoUpdate(q.out) /\ q.stream.recvWindow = s.recvWindow
      /\ q.stream.sendWindow + Sent(q.stream) = s.sendWindow + Sent(s)
      /\ (s.sendWindow >= 0 => q.stream.sendWindow >= 0)
      /\ (s.state = "closed" => q.stream.state = "closed") /\ Awake(q.stream)
  BY DEF Spends
<1>4. Awake(stream'[e]) /\ Awake(stream'[p]) /\ Balanced(e) /\ Balanced(p)
  BY <1>0, <1>2, <1>3 DEF WindowInv
<1>5. Balanced(e)'
  <2> SUFFICES ASSUME "closed" \notin {q.stream.state, stream[p].state}
               PROVE  /\ q.stream.sendWindow >= 0 /\ stream[p].recvWindow <= Window
                      /\ \E n \in Nat : /\ Pending(wire[p], n)
                                       /\ q.stream.sendWindow + Sent(q.stream) + n
                                            = stream[p].recvWindow + Len(stream[p].got)
    BY <1>2 DEF Balanced
  <2>1. PICK n \in Nat : /\ Pending(wire[p], n)
                         /\ s.sendWindow + Sent(s) + n = stream[p].recvWindow + Len(stream[p].got)
    BY <1>3, <1>4 DEF Balanced
  <2>2. s.sendWindow >= 0 /\ stream[p].recvWindow <= Window
    BY <1>3, <1>4 DEF Balanced
  <2> QED BY <1>3, <2>1, <2>2
<1>6. Balanced(p)'
  <2> SUFFICES ASSUME "closed" \notin {stream[p].state, q.stream.state}
               PROVE  /\ stream[p].sendWindow >= 0 /\ q.stream.recvWindow <= Window
                      /\ \E n \in Nat : /\ Pending(wire[e] \o q.out, n)
                                       /\ stream[p].sendWindow + Sent(stream[p]) + n
                                            = q.stream.recvWindow + Len(q.stream.got)
    BY <1>0, <1>2 DEF Balanced
  <2>1. PICK n \in Nat : /\ Pending(wire[e], n)
                         /\ stream[p].sendWindow + Sent(stream[p]) + n = s.recvWindow + Len(s.got)
    BY <1>0, <1>3, <1>4 DEF Balanced
  <2>2. stream[p].sendWindow >= 0 /\ s.recvWindow <= Window
    BY <1>0, <1>3, <1>4 DEF Balanced
  <2>3. Pending(wire[e] \o q.out, n)
    BY <1>1, <1>3, <2>1, PendingAppended
  <2> QED BY <1>3, <2>1, <2>2, <2>3
<1> QED BY <1>0, <1>4, <1>5, <1>6 DEF WindowInv

LEMMA DeliverBalances ==
  ASSUME StreamInv, StreamInv', WindowInv, NEW e \in End, wire[Other(e)] # << >>, NEW q, Deliver(e, q),
         Sends(stream[e], q), Takes(stream[e], Incoming(e), q),
         Len(q.stream.got) = Len(stream[e].got) + Size(Incoming(e))
  PROVE  WindowInv'
<1> DEFINE p == Other(e)
           s == stream[e]
           f == Incoming(e)
           left == s.recvWindow - Size(f)
<1>0. p \in End /\ p # e /\ Other(p) = e /\ \A d \in End : d = e \/ d = p
  BY OtherEnd DEF End, Other
<1>1. /\ wire \in [End -> Seq(Frame)] /\ stream \in [End -> StreamRecord]
      /\ Proper(s) /\ Proper(stream[p]) /\ wire[e] \in Seq(Frame) /\ wire[p] \in Seq(Frame)
      /\ q.out \in Seq(Frame) /\ Proper(q.stream) /\ f = Head(wire[p]) /\ f \in Frame
  BY <1>0, InvFacts, TheTail DEF Sends, Incoming
<1>2. /\ stream'[e] = q.stream /\ stream'[p] = stream[p]
      /\ wire'[e] = wire[e] \o q.out /\ wire'[p] = Tail(wire[p])
  BY <1>0, <1>1 DEF Deliver
<1>3. /\ q.stream.sendWindow + Sent(q.stream) = s.sendWindow + Sent(s) + Granted(f)
      /\ (s.sendWindow >= 0 => q.stream.sendWindow >= 0)
      /\ s.state # "closed" /\ Awake(q.stream)
      /\ \/ NoUpdate(q.out) /\ q.stream.recvWindow = left
         \/ /\ 2 * left < Window /\ q.stream.recvWindow = Window
            /\ q.out = <<Control("WINDOW_UPDATE", Window - left)>>
  BY DEF Takes
<1>4. Awake(stream'[e]) /\ Awake(stream'[p]) /\ Balanced(e) /\ Balanced(p)
  BY <1>0, <1>2, <1>3 DEF WindowInv
<1>5. /\ Sent(s) \in Nat /\ Sent(q.stream) \in Nat /\ Sent(stream[p]) \in Nat
      /\ s.sendWindow \in Int /\ q.stream.sendWindow \in Int /\ stream[p].sendWindow \in Int
      /\ s.recvWindow \in Int /\ stream[p].recvWindow \in Int /\ q.stream.recvWindow \in Int
      /\ Len(s.got) \in Nat /\ Len(stream[p].got) \in Nat /\ f.n \in Nat
      /\ Size(f) \in {0, 1} /\ Window \in Nat
  BY <1>1, SentIs, GotIs, WindowAssumption DEF Proper, StreamRecord, Size, Frame
<1>6. Balanced(e)'
  <2> SUFFICES ASSUME "closed" \notin {q.stream.state, stream[p].state}
               PROVE  /\ q.stream.sendWindow >= 0 /\ stream[p].recvWindow <= Window
                      /\ \E n \in Nat : /\ Pending(Tail(wire[p]), n)
                                       /\ q.stream.sendWindow + Sent(q.stream) + n
                                            = stream[p].recvWindow + Len(stream[p].got)
    BY <1>2 DEF Balanced
  <2>1. PICK n \in Nat : /\ Pending(wire[p], n)
                         /\ s.sendWindow + Sent(s) + n = stream[p].recvWindow + Len(stream[p].got)
    BY <1>3, <1>4 DEF Balanced
  <2>2. s.sendWindow >= 0 /\ stream[p].recvWindow <= Window
    BY <1>3, <1>4 DEF Balanced
  <2>3. CASE f.type = "WINDOW_UPDATE"
    <3>1. n = f.n /\ Pending(Tail(wire[p]), 0) /\ Granted(f) = f.n
      BY <1>1, <2>1, <2>3, PendingTaken DEF Granted
    <3>2. q.stream.sendWindow + Sent(q.stream) + 0 = stream[p].recvWindow + Len(stream[p].got)
      BY <1>3, <1>5, <2>1, <3>1
    <3> QED BY <1>3, <2>2, <3>1, <3>2
  <2>4. CASE f.type # "WINDOW_UPDATE"
    <3>1. Pending(Tail(wire[p]), n) /\ Granted(f) = 0
      BY <1>1, <2>1, <2>4, PendingTaken DEF Granted
    <3>2. q.stream.sendWindow + Sent(q.stream) + n = stream[p].recvWindow + Len(stream[p].got)
      BY <1>3, <1>5, <2>1, <3>1
    <3> QED BY <1>3, <2>2, <3>1, <3>2
  <2> QED BY <2>3, <2>4
<1>7. Balanced(p)'
  <2> SUFFICES ASSUME "closed" \notin {stream[p].state, q.stream.state}
               PROVE  /\ stream[p].sendWindow >= 0 /\ q.stream.recvWindow <= Window
                      /\ \E n \in Nat : /\ Pending(wire[e] \o q.out, n)
                                       /\ stream[p].sendWindow + Sent(stream[p]) + n
                                            = q.stream.recvWindow + Len(q.stream.got)
    BY <1>0, <1>2 DEF Balanced
  <2>1. PICK n \in Nat : /\ Pending(wire[e], n)
                         /\ stream[p].sendWindow + Sent(stream[p]) + n = s.recvWindow + Len(s.got)
    BY <1>0, <1>3, <1>4 DEF Balanced
  <2>2. stream[p].sendWindow >= 0 /\ s.recvWindow <= Window
    BY <1>0, <1>3, <1>4 DEF Balanced
  <2>3. Len(q.stream.got) <= Sent(stream[p])
    <3>1. Delivering(p)'
      BY <1>0 DEF StreamInv
    <3> QED BY <1>0, <1>2, <3>1 DEF Delivering
  <2>4. /\ left \in Int /\ stream[p].sendWindow + Sent(stream[p]) + n = left + Len(q.stream.got)
        /\ left <= Window
        /\ 2 * left < Window =>
             /\ ~(2 * n > Window) /\ Window - left \in Nat /\ 2 * (Window - left) > Window
             /\ n = 0 => stream[p].sendWindow + Sent(stream[p]) + (Window - left) = Window + Len(q.stream.got)
    <3> DEFINE sw == stream[p].sendWindow
               sent == Sent(stream[p])
               rw == s.recvWindow
               got == Len(s.got)
               size == Size(f)
    <3>1. /\ sw \in Int /\ sent \in Int /\ rw \in Int /\ got \in Int /\ size \in {0, 1}
          /\ sw >= 0 /\ rw <= Window /\ sw + sent + n = rw + got /\ got + size <= sent
      BY <1>5, <2>1, <2>2, <2>3
    <3>2. left = rw - size /\ Len(q.stream.got) = got + size
      OBVIOUS
    <3>0. Window \in Nat
      BY <1>5
    <3> HIDE DEF sw, sent, rw, got, size, left
    <3>3. /\ rw - size \in Int /\ sw + sent + n = (rw - size) + (got + size)
          /\ rw - size <= Window
          /\ 2 * (rw - size) < Window =>
               /\ ~(2 * n > Window)
               /\ Window - (rw - size) \in Nat /\ 2 * (Window - (rw - size)) > Window
               /\ n = 0 => sw + sent + (Window - (rw - size)) = Window + (got + size)
      BY <3>0, <3>1
    <3> QED BY <3>2, <3>3 DEF sw, sent
  <2> HIDE DEF left
  <2>5. CASE NoUpdate(q.out) /\ q.stream.recvWindow = left
    <3>1. Pending(wire[e] \o q.out, n)
      BY <1>1, <2>1, <2>5, PendingAppended
    <3> QED BY <2>1, <2>2, <2>4, <2>5, <3>1
  <2>6. CASE /\ 2 * left < Window /\ q.stream.recvWindow = Window
             /\ q.out = <<Control("WINDOW_UPDATE", Window - left)>>
    <3> DEFINE g == Window - left
    <3>1. n = 0 /\ NoUpdate(wire[e])
      BY <2>1, <2>4, <2>6 DEF Pending
    <3>2. /\ g \in Nat /\ 2 * g > Window /\ q.out = <<Control("WINDOW_UPDATE", g)>>
          /\ stream[p].sendWindow + Sent(stream[p]) + g = q.stream.recvWindow + Len(q.stream.got)
      BY <2>4, <2>6, <3>1
    <3> HIDE DEF g
    <3>3. Pending(wire[e] \o q.out, g)
      BY <1>1, <3>1, <3>2, UpdateAppended
    <3>4. q.stream.recvWindow <= Window
      BY <1>5, <2>6
    <3> QED BY <2>2, <3>2, <3>3, <3>4
  <2> QED BY <1>3, <2>5, <2>6
<1> QED BY <1>0, <1>4, <1>6, <1>7 DEF WindowInv


LEMMA WindowInvInit == MuxInit => WindowInv
<1> SUFFICES ASSUME MuxInit PROVE WindowInv
  OBVIOUS
<1> SUFFICES ASSUME NEW e \in End PROVE Awake(stream[e]) /\ Balanced(e)
  BY DEF WindowInv
<1> DEFINE p == Other(e)
<1>1. \A d \in End : /\ stream[d].state = "idle" /\ stream[d].sendWindow = Window
                     /\ stream[d].recvWindow = Window /\ stream[d].got = << >>
                     /\ stream[d].bufferedData = << >> /\ stream[d].written = 0 /\ wire[d] = << >>
  BY EndsAssumption DEF MuxInit, NewStream, End
<1>2. p \in End /\ Window \in Nat /\ Len(<< >>) = 0
  BY OtherEnd, WindowAssumption
<1>3. Sent(stream[e]) = 0 /\ Len(stream[p].got) = 0
  BY <1>1, <1>2 DEF Sent
<1>4. Pending(wire[p], 0)
  BY <1>1, <1>2, NoUpdates DEF Pending
<1>5. stream[e].sendWindow + Sent(stream[e]) + 0 = stream[p].recvWindow + Len(stream[p].got)
  BY <1>1, <1>2, <1>3
<1>6. stream[e].sendWindow >= 0 /\ stream[p].recvWindow <= Window
  BY <1>1, <1>2
<1> QED BY <1>1, <1>4, <1>5, <1>6 DEF Balanced, Awake

LEMMA ReceiveBalances ==
  ASSUME StreamInv, StreamInv', WindowInv, NEW e \in End, Receive(e)
  PROVE  WindowInv'
<1> DEFINE p == Other(e)
           s == stream[e]
           f == Incoming(e)
           q == HandleFrame(e, s, f)
<1>1. /\ p \in End /\ wire[p] # << >> /\ Deliver(e, q) /\ f \in Frame /\ f = wire[p][1]
      /\ 1 \in 1..Len(wire[p]) /\ Proper(s) /\ Awake(s) /\ s \in StreamRecord
  <2>1. p \in End /\ wire[p] \in Seq(Frame) /\ wire[p] # << >> /\ f = Head(wire[p])
    BY InvFacts, OtherEnd DEF Receive, Incoming
  <2> QED BY <2>1, TheTail, InvFacts DEF Receive, WindowInv
<1> HIDE DEF q
<1>2. CASE s.state # "idle"
  <2>1. ~s.registered /\ Opens(f) => e = Server
    <3>1. e = Node => ~Opens(f)
      BY <1>1, <1>2, InvFacts DEF Opening, Quiet
    <3> QED BY <3>1 DEF End
  <2>2. /\ Emits(s, q) /\ Sends(s, q)
        /\ q.stream.got = IF s.registered /\ IsUnit(f) THEN Append(s.got, f.n) ELSE s.got
    BY <1>1, <1>2, <2>1, HandleEmits DEF q, Emits
  <2>3. CASE s.registered
    <3>1. Takes(s, f, q)
      BY <1>1, <2>3, HandleTakes DEF q
    <3>2. Len(q.stream.got) = Len(s.got) + Size(f)
      <4> DEFINE g == s.got
      <4>1. g \in Seq(Nat) /\ f.n \in Nat
        BY <1>1, GotIs DEF Frame
      <4> HIDE DEF g
      <4>2. Len(Append(g, f.n)) = Len(g) + 1 /\ Len(g) + 0 = Len(g)
        BY <4>1
      <4> QED BY <2>2, <2>3, <4>2 DEF Size, g
    <3> QED BY <1>1, <2>2, <3>1, <3>2, DeliverBalances
  <2>4. CASE ~s.registered
    <3>1. s.state = "closed" /\ ~(s.registered /\ f.type \in {"HEADERS", "DATA", "RST_STREAM", "WINDOW_UPDATE"})
      BY <1>1, <1>2, <2>4 DEF Awake
    <3>2. q.stream = s
      <4>1. CASE f.type = "HEADERS" /\ e = Server
        BY <2>4, <4>1, EndsAssumption DEF q, HandleFrame, Result
      <4>2. CASE ~(f.type = "HEADERS" /\ e = Server)
        <5>1. ~(~s.registered /\ Opens(f) /\ e = Node)
          BY <2>1, <2>4, EndsAssumption
        <5>2. q = Unchanged(s)
          BY <2>4, <4>2, <5>1 DEF q, HandleFrame
        <5> QED BY <5>2 DEF Unchanged, Result
      <4> QED BY <4>1, <4>2
    <3>3. stream'[e] = s /\ stream'[p] = stream[p] /\ \A d \in End : d = e \/ d = p
      BY <1>1, <3>2, InvFacts, OtherEnd DEF Deliver, End, Other
    <3>4. Other(p) = e /\ Other(e) = p
      BY OtherEnd
    <3> QED BY <3>1, <3>3, <3>4 DEF WindowInv, Balanced
  <2> QED BY <2>3, <2>4
<1>3. CASE s.state = "idle"
  <2>1. e = Node
    BY <1>1, <1>3, InvFacts DEF Opening, End
  <2>2. Opens(f) /\ s = [NewStream EXCEPT !.registered = FALSE]
    BY <1>1, <1>3, <2>1, InvFacts DEF Opening, Begins
  <2> DEFINE state == IF f.fin THEN "half_closed_remote" ELSE "open"
             t == [NewStream EXCEPT !.state = state]
  <2>3. q = Unchanged(t)
    <3>1. ~s.registered
      BY <2>2 DEF NewStream
    <3> QED BY <2>1, <2>2, <3>1, InvFacts DEF q, HandleFrame, HandleHeaders, Opens
  <2>4. /\ t.written = s.written /\ t.bufferedData = s.bufferedData /\ t.sendWindow = s.sendWindow
        /\ t.recvWindow = s.recvWindow /\ t.registered /\ t.got = s.got
    BY <2>2 DEF NewStream
  <2>5. f.type # "WINDOW_UPDATE" /\ ~IsUnit(f)
    BY <2>2 DEF Opens, IsUnit
  <2>6. Proper(t) /\ Sent(t) = Sent(s)
    <3>1. state \in STREAM_STATE /\ state # "closed"
      BY DEF STREAM_STATE
    <3> HIDE DEF state
    <3>2. Unused(t) /\ t.state = state
      BY <3>1, NewIsUnused, UnusedStateChanged
    <3> HIDE DEF t
    <3> QED BY <2>4, <3>1, <3>2 DEF Proper, Unused, Sent
  <2> HIDE DEF t
  <2>7. Takes(s, f, q)
    BY <1>1, <1>3, <2>3, <2>4, <2>5, NothingTaken DEF Awake
  <2>8. Sends(s, q)
    <3>1. Sent(s) \in Int
      BY <1>1, SentIs DEF Proper
    <3>2. InOrder(<< >>, Sent(s), Sent(t)) /\ << >> \in Seq(Frame)
      BY <2>6, <3>1, NoUnits, Signals
    <3> QED BY <2>3, <2>6, <3>1, <3>2 DEF Sends, Unchanged, Result
  <2>9. Len(q.stream.got) = Len(s.got) + Size(f)
    <3>1. Len(s.got) \in Nat
      BY <1>1, GotIs
    <3> QED BY <2>3, <2>4, <2>5, <3>1 DEF Size, Unchanged, Result
  <2> QED BY <1>1, <2>7, <2>8, <2>9, DeliverBalances
<1> QED BY <1>2, <1>3

LEMMA WindowInvNext == StreamInv /\ StreamInv' /\ WindowInv /\ [MuxNext]_muxVars => WindowInv'
<1> SUFFICES ASSUME StreamInv, StreamInv', WindowInv, [MuxNext]_muxVars PROVE WindowInv'
  OBVIOUS
<1>0. /\ Server \in End /\ Node \in End
      /\ \A e \in End : Proper(stream[e]) /\ Awake(stream[e])
  BY InvFacts DEF WindowInv
<1>1. CASE Open
  <2>1. stream[Server].state = "idle" /\ stream[Server].registered /\ 0 \in Nat
    BY <1>1, InvFacts DEF Open, Opened, Opening
  <2> QED BY <1>0, <1>1, <2>1, SendHeadersEmits, SendHeadersSpends, OpenTunnelEmits, OpenTunnelSpends,
             BecomeBalances DEF Open
<1>2. CASE Respond
  <2>1. stream[Node].state # "idle" /\ 0 \in Nat /\ FALSE \in BOOLEAN
    BY <1>2 DEF Respond, Opened
  <2> QED BY <1>0, <1>2, <2>1, SendHeadersEmits, SendHeadersSpends, BecomeBalances DEF Respond
<1>3. CASE ServerRetires
  <2>1. stream[Server].state # "idle"
    BY <1>3 DEF ServerRetires, Opened
  <2> QED BY <1>0, <1>3, <2>1, ResetEmits, ResetSpends, CloseTunnelEmits, CloseTunnelSpends,
             BecomeBalances DEF ServerRetires
<1>4. ASSUME NEW e \in End, Write(e) PROVE WindowInv'
  <2>1. stream[e].state # "idle"
    BY <1>4 DEF Write, Opened
  <2>2. PICK n \in 0..(MaxUnits[e] - stream[e].written), fin \in BOOLEAN :
          Become(e, SendData(stream[e], n, fin))
    BY <1>4 DEF Write
  <2>3. n \in Nat
    BY <2>2
  <2> QED BY <1>0, <2>1, <2>2, <2>3, SendDataEmits, SendDataSpends, BecomeBalances
<1>5. ASSUME NEW e \in End, CloseStream(e) PROVE WindowInv'
  <2>1. stream[e].state # "idle"
    BY <1>5 DEF CloseStream, Opened
  <2> QED BY <1>0, <1>5, <2>1, CloseEmits, CloseSpends, BecomeBalances DEF CloseStream
<1>6. ASSUME NEW e \in End, Receive(e) PROVE WindowInv'
  BY <1>6, ReceiveBalances
<1>7. CASE UNCHANGED muxVars
  BY <1>7 DEF muxVars, WindowInv, Balanced
<1> QED BY <1>1, <1>2, <1>3, <1>4, <1>5, <1>6, <1>7 DEF MuxNext

(* While both ends keep a stream, the window the sender may still use, the   *)
(* units under way and the one grant under way, if any, are the receiver's   *)
(* window: it is never overrun, and no grant is lost, for any window.        *)
THEOREM WindowConserved == MuxSpec => []StreamWindowConserved
<1>1. MuxSpec => [](StreamInv /\ WindowInv)
  BY StreamInvInit, StreamInvNext, WindowInvInit, WindowInvNext, PTL DEF MuxSpec
<1> QED BY <1>1, InvConserves, PTL
=============================================================================
