--------------------------- MODULE MuxFlow_proofs ---------------------------
(* Proofs about MuxFlow: the connection window is conserved, its overdraft   *)
(* is bounded by one batch and no grant is ever rejected, and the whole      *)
(* implements CreditFlow, for every window, frame and batch size and every   *)
(* interleaving of the two ends.                                             *)
EXTENDS MuxFlowRefinement, TLAPS

(* What every frame carries, by its type.                                    *)
FrameWellFormed(e, i) ==
  /\ frames[e][i].type = "DATA" => /\ PayloadSize(e, i) \in 0..MaxFrame
                                   /\ Increment(e, i) = 0
  /\ frames[e][i].type = "WINDOW_UPDATE" => /\ PayloadSize(e, i) = 0
                                            /\ Increment(e, i) \in 1..MaxIncrement
  /\ frames[e][i].type = "CONTROL" => /\ PayloadSize(e, i) = 0
                                      /\ Increment(e, i) = 0

(* The totals of a queue never fall, and grow in DATA bytes only across DATA *)
(* frames: sums over runs of frames, which a step of the prover cannot do by *)
(* induction, stated for all pairs at once.                                  *)
Ordered(e, i, j) ==
  /\ Stamp(e, i).credit <= Stamp(e, j).credit
  /\ Stamp(e, i).data <= Stamp(e, j).data
  /\ (\A k \in i + 1 .. j : frames[e][k].type # "DATA") => Stamp(e, i).data = Stamp(e, j).data

QueueOK(e) ==
  /\ \A i \in 1..Len(frames[e]) : FrameWellFormed(e, i)
  /\ \A i, j \in 0..Len(frames[e]) : i <= j => Ordered(e, i, j)

WindowsOK ==
  \A e \in Peer : recvWindow[e] >= 0 /\ sendWindow[e] + LargestPass > 0

IInv == TypeOK /\ (\A e \in Peer : QueueOK(e)) /\ WindowsOK /\ Conservation

-----------------------------------------------------------------------------
LEMMA OtherPeer == \A e \in Peer : Other(e) \in Peer /\ Other(e) # e /\ Other(Other(e)) = e
  BY PeerAssumption DEF Peer, Other

LEMMA StampType ==
  ASSUME TypeOK, NEW e \in Peer, NEW i \in 0..Len(frames[e])
  PROVE  /\ Stamp(e, i) \in [data : Nat, credit : Nat]
         /\ Stamp(e, i).data \in Nat
         /\ Stamp(e, i).credit \in Nat
<1>1. CASE i = 0
  BY <1>1 DEF Stamp, TypeOK
<1>2. CASE i # 0
  <2>1. frames[e] \in Seq(Frame) /\ i \in 1..Len(frames[e])
    BY <1>2 DEF TypeOK
  <2>2. frames[e][i] \in Frame
    BY <2>1
  <2> QED BY <1>2, <2>2 DEF Stamp, Frame
<1> QED BY <1>1, <1>2

(* The three ways a step can treat the queue of an end: leave it, put a      *)
(* frame behind it, or take the first frame off it.                          *)
Same(e) == frames'[e] = frames[e] /\ handled'[e] = handled[e]
Grow(e, f) == frames'[e] = Append(frames[e], f) /\ handled'[e] = handled[e]
Shrink(e) == /\ Len(frames[e]) > 0
             /\ frames'[e] = Tail(frames[e])
             /\ handled'[e] = Stamp(e, 1)

LEMMA GrowStamps ==
  ASSUME TypeOK, NEW e \in Peer, NEW f \in Frame, Grow(e, f)
  PROVE  /\ Len(frames'[e]) = Len(frames[e]) + 1
         /\ \A i \in 0..Len(frames[e]) : Stamp(e, i)' = Stamp(e, i)
         /\ \A i \in 1..Len(frames[e]) : frames'[e][i] = frames[e][i]
         /\ frames'[e][Len(frames[e]) + 1] = f
         /\ \A i \in Nat : i = Len(frames[e]) + 1
                          => Stamp(e, i)' = [data |-> f.data, credit |-> f.credit]
<1>1. frames[e] \in Seq(Frame)
  BY DEF TypeOK
<1>2. /\ Len(frames'[e]) = Len(frames[e]) + 1
      /\ \A i \in 1..Len(frames[e]) : frames'[e][i] = frames[e][i]
      /\ frames'[e][Len(frames[e]) + 1] = f
  BY <1>1 DEF Grow
<1>3. \A i \in 0..Len(frames[e]) : Stamp(e, i)' = Stamp(e, i)
  BY <1>1, <1>2 DEF Grow, Stamp
<1>4. \A i \in Nat : i = Len(frames[e]) + 1
                    => Stamp(e, i)' = [data |-> f.data, credit |-> f.credit]
  BY <1>1, <1>2 DEF Grow, Stamp
<1> QED BY <1>2, <1>3, <1>4

LEMMA ShrinkStamps ==
  ASSUME TypeOK, NEW e \in Peer, Shrink(e)
  PROVE  /\ Len(frames'[e]) = Len(frames[e]) - 1
         /\ \A i \in 0..Len(frames[e]) - 1 : Stamp(e, i)' = Stamp(e, i + 1)
         /\ \A i \in 1..Len(frames[e]) - 1 : frames'[e][i] = frames[e][i + 1]
<1>1. frames[e] \in Seq(Frame) /\ frames[e] # << >>
  BY DEF TypeOK, Shrink
<1>2. /\ Len(frames'[e]) = Len(frames[e]) - 1
      /\ \A i \in 1..Len(frames[e]) - 1 : frames'[e][i] = frames[e][i + 1]
  BY <1>1 DEF Shrink
<1>3. \A i \in 0..Len(frames[e]) - 1 : Stamp(e, i)' = Stamp(e, i + 1)
  BY <1>1, <1>2 DEF Shrink, Stamp
<1> QED BY <1>2, <1>3

-----------------------------------------------------------------------------
LEMMA SameQueue ==
  ASSUME TypeOK, NEW e \in Peer, QueueOK(e), Same(e)
  PROVE  QueueOK(e)'
  BY DEF Same, QueueOK, FrameWellFormed, Ordered, PayloadSize, Increment, Stamp

LEMMA ShrinkQueue ==
  ASSUME TypeOK, NEW e \in Peer, QueueOK(e), Shrink(e)
  PROVE  QueueOK(e)'
<1> DEFINE n == Len(frames[e])
<1>0. n \in Nat
  BY DEF TypeOK
<1>1. /\ Len(frames'[e]) = n - 1
      /\ \A i \in 0..n - 1 : Stamp(e, i)' = Stamp(e, i + 1)
      /\ \A i \in 1..n - 1 : frames'[e][i] = frames[e][i + 1]
  BY ShrinkStamps
<1>2. ASSUME NEW i \in 1..n - 1
      PROVE  FrameWellFormed(e, i)'
  <2>1. i + 1 \in 1..n /\ i \in 0..n - 1 /\ i - 1 \in 0..n - 1
    BY <1>0
  <2>2. FrameWellFormed(e, i + 1)
    BY <2>1 DEF QueueOK
  <2>3. /\ Stamp(e, i)' = Stamp(e, i + 1)
        /\ Stamp(e, i - 1)' = Stamp(e, i)
        /\ frames'[e][i] = frames[e][i + 1]
    BY <1>1, <2>1
  <2>4. i + 1 - 1 = i
    BY <2>1
  <2> QED BY <2>2, <2>3, <2>4 DEF FrameWellFormed, PayloadSize, Increment
<1>3. ASSUME NEW i \in 0..n - 1, NEW j \in 0..n - 1, i <= j
      PROVE  Ordered(e, i, j)'
  <2>1. i + 1 \in 0..n /\ j + 1 \in 0..n /\ i + 1 <= j + 1
    BY <1>0, <1>3
  <2>2. Ordered(e, i + 1, j + 1)
    BY <2>1 DEF QueueOK
  <2>3. ASSUME \A k \in i + 1 .. j : frames'[e][k].type # "DATA",
               NEW k \in i + 1 + 1 .. j + 1
        PROVE  frames[e][k].type # "DATA"
    <3>1. k - 1 \in i + 1 .. j /\ k - 1 \in 1..n - 1 /\ k - 1 + 1 = k
      BY <1>0, <1>3
    <3> QED BY <1>1, <2>3, <3>1
  <2>4. Stamp(e, i)' = Stamp(e, i + 1) /\ Stamp(e, j)' = Stamp(e, j + 1)
    BY <1>1
  <2> QED BY <2>2, <2>3, <2>4 DEF Ordered
<1> QED BY <1>1, <1>2, <1>3 DEF QueueOK

(* A frame may be put behind a queue when it carries what its type allows.   *)
Appendable(e, f) ==
  /\ f.type = "DATA" => /\ f.data - Last(e).data \in 0..MaxFrame
                        /\ f.credit = Last(e).credit
  /\ f.type = "WINDOW_UPDATE" => /\ f.data = Last(e).data
                                 /\ f.credit - Last(e).credit \in 1..MaxIncrement
  /\ f.type = "CONTROL" => f.data = Last(e).data /\ f.credit = Last(e).credit

LEMMA GrowQueue ==
  ASSUME TypeOK, NEW e \in Peer, QueueOK(e), NEW f \in Frame, Grow(e, f), Appendable(e, f)
  PROVE  QueueOK(e)'
<1> DEFINE n == Len(frames[e])
<1>0. n \in Nat
  BY DEF TypeOK
<1>1. /\ Len(frames'[e]) = n + 1
      /\ \A i \in 0..n : Stamp(e, i)' = Stamp(e, i)
      /\ \A i \in 1..n : frames'[e][i] = frames[e][i]
      /\ frames'[e][n + 1] = f
      /\ \A i \in Nat : i = n + 1 => Stamp(e, i)' = [data |-> f.data, credit |-> f.credit]
  BY GrowStamps
<1>2. /\ f.type \in FrameType /\ f.data \in Nat /\ f.credit \in Nat
      /\ Last(e).data \in Nat /\ Last(e).credit \in Nat
      /\ Last(e) = Stamp(e, n)
  BY <1>0, StampType DEF Frame, Last
<1>3. ASSUME NEW i \in 1..n + 1
      PROVE  FrameWellFormed(e, i)'
  <2>1. CASE i = n + 1
    <3>1. Stamp(e, i)' = [data |-> f.data, credit |-> f.credit] /\ Stamp(e, i - 1)' = Last(e)
      BY <1>0, <1>1, <1>2, <2>1
    <3> QED BY <1>1, <1>2, <2>1, <3>1 DEF FrameWellFormed, PayloadSize, Increment, Appendable
  <2>2. CASE i # n + 1
    <3>1. i \in 1..n /\ i \in 0..n /\ i - 1 \in 0..n
      BY <1>0, <2>2
    <3>2. FrameWellFormed(e, i)
      BY <3>1 DEF QueueOK
    <3>3. Stamp(e, i)' = Stamp(e, i) /\ Stamp(e, i - 1)' = Stamp(e, i - 1)
          /\ frames'[e][i] = frames[e][i]
      BY <1>1, <3>1
    <3> QED BY <3>2, <3>3 DEF FrameWellFormed, PayloadSize, Increment
  <2> QED BY <2>1, <2>2
<1>4. ASSUME NEW i \in 0..n + 1, NEW j \in 0..n + 1, i <= j
      PROVE  Ordered(e, i, j)'
  <2>1. CASE j # n + 1
    <3>1. i \in 0..n /\ j \in 0..n
      BY <1>0, <1>4, <2>1
    <3>2. Ordered(e, i, j)
      BY <1>4, <3>1 DEF QueueOK
    <3>3. Stamp(e, i)' = Stamp(e, i) /\ Stamp(e, j)' = Stamp(e, j)
      BY <1>1, <3>1
    <3>4. \A k \in i + 1 .. j : frames'[e][k] = frames[e][k]
      BY <1>0, <1>1, <3>1
    <3> QED BY <3>2, <3>3, <3>4 DEF Ordered
  <2>2. CASE j = n + 1 /\ i = n + 1
    BY <1>1, <1>2, <2>2 DEF Ordered
  <2>3. CASE j = n + 1 /\ i # n + 1
    <3>1. i \in 0..n /\ n \in 0..n /\ i <= n
      BY <1>0, <2>3
    <3>2. Ordered(e, i, n)
      BY <3>1 DEF QueueOK
    <3>3. /\ Stamp(e, i)' = Stamp(e, i)
          /\ Stamp(e, j)' = [data |-> f.data, credit |-> f.credit]
          /\ Stamp(e, i).data \in Nat /\ Stamp(e, i).credit \in Nat
      BY <1>1, <2>3, <3>1, StampType
    <3>4. Last(e).credit <= f.credit /\ Last(e).data <= f.data
      <4>1. CASE f.type = "DATA"
        <5>1. f.data - Last(e).data \in 0..MaxFrame /\ f.credit = Last(e).credit /\ MaxFrame \in Nat
          BY <4>1, SizeAssumption DEF Appendable
        <5>2. f.data - Last(e).data >= 0
          BY <5>1
        <5> QED BY <1>2, <5>1, <5>2
      <4>2. CASE f.type # "DATA"
        BY <1>2, <4>2 DEF Appendable, FrameType
      <4> QED BY <4>1, <4>2
    <3>5. Stamp(e, i)'.credit <= Stamp(e, j)'.credit /\ Stamp(e, i)'.data <= Stamp(e, j)'.data
      BY <1>2, <3>2, <3>3, <3>4 DEF Ordered
    <3>6. ASSUME \A k \in i + 1 .. j : frames'[e][k].type # "DATA"
          PROVE  Stamp(e, i)'.data = Stamp(e, j)'.data
      <4>1. f.type # "DATA"
        BY <1>0, <1>1, <2>3, <3>1, <3>6
      <4>2. \A k \in i + 1 .. n : frames[e][k].type # "DATA"
        BY <1>0, <1>1, <2>3, <3>1, <3>6
      <4>3. f.data = Last(e).data
        BY <1>2, <4>1 DEF Appendable, FrameType
      <4> QED BY <1>2, <3>2, <3>3, <4>2, <4>3 DEF Ordered
    <3> QED BY <3>5, <3>6 DEF Ordered
  <2> QED BY <2>1, <2>2, <2>3
<1> QED BY <1>1, <1>3, <1>4 DEF QueueOK

-----------------------------------------------------------------------------
(* How the bytes in flight and the window being granted change with a queue. *)
TotalsTyped(e) == InFlight(e) \in Int /\ Granting(e) \in Int

LEMMA TotalsType ==
  ASSUME TypeOK, NEW e \in Peer
  PROVE  TotalsTyped(e)
<1>1. onWire[e] \in 0..Len(frames[e]) /\ Len(frames[e]) \in 0..Len(frames[e])
  BY DEF TypeOK
<1>2. handled[e].data \in Nat /\ handled[e].credit \in Nat
  BY DEF TypeOK
<1>3. Stamp(e, onWire[e]).data \in Nat /\ Stamp(e, Len(frames[e])).credit \in Nat
  BY <1>1, StampType
<1> QED BY <1>2, <1>3 DEF TotalsTyped, InFlight, Granting, Last

LEMMA TotalsTypeNext ==
  ASSUME TypeOK', NEW e \in Peer
  PROVE  TotalsTyped(e)'
<1>1. frames'[e] \in Seq(Frame) /\ onWire'[e] \in Nat /\ onWire'[e] <= Len(frames'[e])
  BY DEF TypeOK
<1>2. handled'[e].data \in Nat /\ handled'[e].credit \in Nat
  BY DEF TypeOK
<1>3. ASSUME NEW i \in 0..Len(frames'[e])
      PROVE  Stamp(e, i)'.data \in Nat /\ Stamp(e, i)'.credit \in Nat
  <2>1. CASE i = 0
    BY <1>2, <2>1 DEF Stamp
  <2>2. CASE i # 0
    <3>1. frames'[e][i] \in Frame
      BY <1>1, <2>2
    <3> QED BY <2>2, <3>1 DEF Stamp, Frame
  <2> QED BY <2>1, <2>2
<1>4. \A i \in Nat : i = onWire'[e] => InFlight(e)' = Stamp(e, i)'.data - handled'[e].data
  BY DEF InFlight, Stamp
<1>5. \A i \in Nat : i = Len(frames'[e]) => Granting(e)' = Stamp(e, i)'.credit - handled'[e].credit
  BY DEF Granting, Last, Stamp
<1>6. Len(frames'[e]) \in Nat
  BY <1>1
<1>7. InFlight(e)' \in Int
  BY <1>1, <1>2, <1>3, <1>4, <1>6
<1>8. Granting(e)' \in Int
  BY <1>1, <1>2, <1>3, <1>5, <1>6
<1> QED BY <1>7, <1>8 DEF TotalsTyped

LEMMA SameTotals ==
  ASSUME NEW e \in Peer, Same(e), onWire'[e] = onWire[e]
  PROVE  InFlight(e)' = InFlight(e) /\ Granting(e)' = Granting(e)
  BY DEF Same, InFlight, Granting, Last, Stamp

LEMMA GrowTotals ==
  ASSUME TypeOK, NEW e \in Peer, NEW f \in Frame, Grow(e, f), onWire'[e] = onWire[e]
  PROVE  /\ InFlight(e)' = InFlight(e)
         /\ Granting(e)' = Granting(e) + f.credit - Last(e).credit
<1>1. onWire[e] \in 0..Len(frames[e]) /\ Len(frames[e]) \in Nat
  BY DEF TypeOK
<1>2. \A i \in Nat : i = onWire'[e] => InFlight(e)' = Stamp(e, i)'.data - handled'[e].data
  BY DEF InFlight, Stamp
<1>3. \A i \in Nat : i = Len(frames'[e]) => Granting(e)' = Stamp(e, i)'.credit - handled'[e].credit
  BY DEF Granting, Last, Stamp
<1>4. InFlight(e)' = InFlight(e)
  BY <1>1, <1>2, GrowStamps DEF Grow, InFlight
<1>5. Granting(e)' = f.credit - handled[e].credit
  BY <1>1, <1>3, GrowStamps DEF Grow
<1>6. /\ f.credit \in Nat
      /\ handled[e].credit \in Nat
      /\ Last(e).credit \in Nat
  <2>1. Len(frames[e]) \in 0..Len(frames[e])
    BY <1>1
  <2>2. Last(e).credit \in Nat
    BY <2>1, StampType DEF Last
  <2>3. handled[e].credit \in Nat
    BY DEF TypeOK
  <2>4. f.credit \in Nat
    BY DEF Frame
  <2> QED BY <2>2, <2>3, <2>4
<1> QED BY <1>4, <1>5, <1>6 DEF Granting

LEMMA ShrinkTotals ==
  ASSUME TypeOK, NEW e \in Peer, Shrink(e), onWire[e] > 0, onWire'[e] = onWire[e] - 1
  PROVE  /\ InFlight(e)' = InFlight(e) - PayloadSize(e, 1)
         /\ Granting(e)' = Granting(e) - Increment(e, 1)
<1> DEFINE n == Len(frames[e])
           o == onWire[e]
<1>1. n \in Nat /\ n > 0 /\ o \in 1..n
  BY DEF TypeOK, Shrink
<1>2. \A i \in Nat : i = onWire'[e] => InFlight(e)' = Stamp(e, i)'.data - handled'[e].data
  BY DEF InFlight, Stamp
<1>3. \A i \in Nat : i = Len(frames'[e]) => Granting(e)' = Stamp(e, i)'.credit - handled'[e].credit
  BY DEF Granting, Last, Stamp
<1>4. Len(frames'[e]) = n - 1 /\ \A i \in 0..n - 1 : Stamp(e, i)' = Stamp(e, i + 1)
  BY ShrinkStamps
<1>5. InFlight(e)' = Stamp(e, o).data - Stamp(e, 1).data
  <2>1. o - 1 \in Nat /\ o - 1 \in 0..n - 1 /\ o - 1 + 1 = o
    BY <1>1
  <2>2. \A i \in Nat : i = o - 1 => InFlight(e)' = Stamp(e, i)'.data - handled'[e].data
    BY <1>2
  <2>3. \A i \in 0..n - 1 : i = o - 1 => Stamp(e, i)' = Stamp(e, o)
    BY <1>4, <2>1
  <2> QED BY <2>1, <2>2, <2>3 DEF Shrink
<1>6. Granting(e)' = Stamp(e, n).credit - Stamp(e, 1).credit
  <2>1. n - 1 \in Nat /\ n - 1 \in 0..n - 1 /\ n - 1 + 1 = n
    BY <1>1
  <2>2. \A i \in Nat : i = n - 1 => Granting(e)' = Stamp(e, i)'.credit - handled'[e].credit
    BY <1>3, <1>4
  <2>3. \A i \in 0..n - 1 : i = n - 1 => Stamp(e, i)' = Stamp(e, n)
    BY <1>4, <2>1
  <2> QED BY <2>1, <2>2, <2>3 DEF Shrink
<1>7. \A i \in {0, 1, o, n} : Stamp(e, i).data \in Nat /\ Stamp(e, i).credit \in Nat
  BY <1>1, StampType
<1>8. Stamp(e, 0) = handled[e]
  BY DEF Stamp
<1>9. /\ PayloadSize(e, 1) = Stamp(e, 1).data - handled[e].data
      /\ Increment(e, 1) = Stamp(e, 1).credit - handled[e].credit
  BY <1>8 DEF PayloadSize, Increment
<1>10. /\ InFlight(e) = Stamp(e, o).data - handled[e].data
       /\ Granting(e) = Stamp(e, n).credit - handled[e].credit
  BY DEF InFlight, Granting, Last
<1>11. InFlight(e)' = InFlight(e) - PayloadSize(e, 1)
  BY <1>5, <1>7, <1>8, <1>9, <1>10
<1>12. Granting(e)' = Granting(e) - Increment(e, 1)
  BY <1>6, <1>7, <1>8, <1>9, <1>10
<1> QED BY <1>11, <1>12

-----------------------------------------------------------------------------
(* A pass sends at most one batch, and without DATA it debits nothing.       *)
LEMMA BatchFacts ==
  ASSUME TypeOK, NEW e \in Peer, QueueOK(e), NEW n \in Batches(e)
  PROVE  /\ n \in Nat \ {0}
         /\ onWire[e] + n \in 0..Len(frames[e])
         /\ BatchBytes(e, n) \in Nat
         /\ BatchBytes(e, n) <= LargestPass
         /\ ~HasData(e, n) => BatchBytes(e, n) = 0
<1> DEFINE o == onWire[e]
<1>1. /\ Len(frames[e]) \in Nat
      /\ o \in 0..Len(frames[e])
      /\ n \in 1..Len(frames[e]) - o
  BY DEF TypeOK, Batches, Buffered
<1>2. o + n \in 0..Len(frames[e]) /\ o + n >= o
  BY <1>1
<1>3. Stamp(e, o).data \in Nat /\ Stamp(e, o + n).data \in Nat
  BY <1>1, <1>2, StampType
<1>4. ASSUME n = 1
      PROVE  BatchBytes(e, n) <= MaxFrame
  <2> SUFFICES ASSUME NEW i \in 1..Len(frames[e]), i = o + 1
               PROVE  BatchBytes(e, n) <= MaxFrame
    BY <1>1, <1>4
  <2>1. i - 1 = o
    BY <1>1
  <2>2. FrameWellFormed(e, i)
    BY DEF QueueOK
  <2>3. frames[e][i] \in Frame
    BY DEF TypeOK
  <2>4. PayloadSize(e, i) <= MaxFrame
    BY <2>2, <2>3, SizeAssumption DEF FrameWellFormed, Frame, FrameType
  <2>5. BatchBytes(e, n) = Stamp(e, i).data - Stamp(e, o).data
    BY <1>4 DEF BatchBytes
  <2> QED BY <2>1, <2>4, <2>5 DEF PayloadSize
<1>5. BatchBytes(e, n) <= LargestPass
  BY <1>3, <1>4, SizeAssumption DEF Batches, LargestPass, BatchBytes
<1>6. ASSUME ~HasData(e, n)
      PROVE  BatchBytes(e, n) = 0
  <2>1. Ordered(e, o, o + n)
    BY <1>1, <1>2 DEF QueueOK
  <2>2. \A k \in o + 1 .. o + n : frames[e][k].type # "DATA"
    BY <1>6 DEF HasData
  <2> QED BY <1>3, <2>1, <2>2 DEF Ordered, BatchBytes
<1>7. BatchBytes(e, n) \in Nat
  <2>1. Ordered(e, o, o + n)
    BY <1>1, <1>2 DEF QueueOK
  <2> QED BY <1>3, <2>1 DEF Ordered, BatchBytes
<1> QED BY <1>1, <1>2, <1>5, <1>6, <1>7

(* What a pass that writes its batch does to what is on its way.             *)
LEMMA TransmitTotals ==
  ASSUME TypeOK, NEW e \in Peer, QueueOK(e), NEW n \in Batches(e), NEW armed,
         Transmit(e, n, armed)
  PROVE  /\ InFlight(e)' = InFlight(e) + BatchBytes(e, n)
         /\ \A q \in Peer : Granting(q)' = Granting(q)
         /\ \A q \in Peer : q # e => InFlight(q)' = InFlight(q)
<1> DEFINE o == onWire[e]
<1>1. o + n \in 0..Len(frames[e]) /\ o \in 0..Len(frames[e])
  BY BatchFacts DEF TypeOK
<1>2. onWire' = [onWire EXCEPT ![e] = @ + n] /\ UNCHANGED <<frames, handled>>
  BY DEF Transmit
<1>3. \A i \in Nat : i = onWire'[e] => InFlight(e)' = Stamp(e, i).data - handled[e].data
  BY <1>2 DEF InFlight, Stamp
<1>4. InFlight(e)' = Stamp(e, o + n).data - handled[e].data
  BY <1>1, <1>2, <1>3 DEF TypeOK
<1>5. Stamp(e, o).data \in Nat /\ Stamp(e, o + n).data \in Nat /\ handled[e].data \in Nat
  BY <1>1, StampType DEF TypeOK
<1>6. InFlight(e)' = InFlight(e) + BatchBytes(e, n)
  BY <1>4, <1>5 DEF InFlight, BatchBytes
<1>7. /\ \A q \in Peer : Granting(q)' = Granting(q)
      /\ \A q \in Peer : q # e => InFlight(q)' = InFlight(q)
  BY <1>2 DEF Granting, InFlight, Last, Stamp, TypeOK
<1> QED BY <1>6, <1>7

-----------------------------------------------------------------------------
(* A frame behind the last one keeps its totals natural.                     *)
LEMMA LastType ==
  ASSUME TypeOK, NEW e \in Peer
  PROVE  Last(e).data \in Nat /\ Last(e).credit \in Nat
<1>1. Len(frames[e]) \in 0..Len(frames[e])
  BY DEF TypeOK
<1> QED BY <1>1, StampType DEF Last

LEMMA NewFrameType ==
  ASSUME TypeOK, NEW e \in Peer, NEW t \in FrameType, NEW b \in Nat, NEW c \in Nat
  PROVE  /\ NewFrame(e, t, b, c) \in Frame
         /\ NewFrame(e, t, b, c).type = t
         /\ NewFrame(e, t, b, c).data - Last(e).data = b
         /\ NewFrame(e, t, b, c).credit - Last(e).credit = c
         /\ b = 0 => NewFrame(e, t, b, c).data = Last(e).data
         /\ c = 0 => NewFrame(e, t, b, c).credit = Last(e).credit
  BY LastType DEF NewFrame, Frame

(* A check of the window at e, with w bytes left, restores it to a positive  *)
(* window and queues what it adds.                                           *)
LEMMA CheckWindowStep ==
  ASSUME TypeOK, NEW e \in Peer, QueueOK(e), NEW w \in Int, w + MaxFrame >= 0,
         NEW rest \in [Peer -> Seq(Frame)], rest[e] = frames[e],
         handled'[e] = handled[e], onWire'[e] = onWire[e], CheckWindow(e, w, rest)
  PROVE  /\ frames' \in [Peer -> Seq(Frame)]
         /\ \A q \in Peer : q # e => frames'[q] = rest[q]
         /\ Len(frames'[e]) >= Len(frames[e])
         /\ recvWindow' \in [Peer -> Int] /\ sending' \in [Peer -> BOOLEAN]
         /\ recvWindow'[e] >= 0
         /\ \A q \in Peer : q # e => recvWindow'[q] = recvWindow[q]
         /\ QueueOK(e)'
         /\ InFlight(e)' = InFlight(e)
         /\ recvWindow'[e] - w = Granting(e)' - Granting(e)
<1>0. Granting(e) \in Int
  BY TotalsType DEF TotalsTyped
<1>1. CASE NeedsGrant(w)
  <2> DEFINE f == NewFrame(e, "WINDOW_UPDATE", 0, Deficit(w))
  <2>1. Deficit(w) \in 1..MaxIncrement /\ Deficit(w) \in Nat
    BY <1>1, SizeAssumption DEF NeedsGrant, Deficit
  <2>2. /\ f \in Frame
        /\ f.type = "WINDOW_UPDATE"
        /\ f.data = Last(e).data
        /\ f.credit - Last(e).credit = Deficit(w)
    BY <2>1, NewFrameType DEF FrameType
  <2>3. /\ recvWindow' = [recvWindow EXCEPT ![e] = w + Deficit(w)]
        /\ frames' = [rest EXCEPT ![e] = Append(@, f)]
        /\ sending' = [sending EXCEPT ![e] = TRUE]
    BY <1>1 DEF CheckWindow
  <2> HIDE DEF f
  <2>4. Appendable(e, f)
    BY <2>1, <2>2 DEF Appendable
  <2>5. frames'[e] = Append(frames[e], f)
    BY <2>3
  <2>6. Grow(e, f)
    BY <2>5 DEF Grow
  <2>7. QueueOK(e)'
    BY <2>2, <2>4, <2>6, GrowQueue
  <2>8. /\ InFlight(e)' = InFlight(e)
        /\ Granting(e)' = Granting(e) + f.credit - Last(e).credit
    BY <2>2, <2>6, GrowTotals
  <2>9. f.credit \in Nat /\ Last(e).credit \in Nat
    BY <2>2, LastType DEF Frame
  <2>10. frames' \in [Peer -> Seq(Frame)] /\ \A q \in Peer : q # e => frames'[q] = rest[q]
    BY <2>2, <2>3
  <2>11. Len(frames'[e]) >= Len(frames[e])
    BY <2>2, <2>5 DEF TypeOK
  <2>12. /\ recvWindow' \in [Peer -> Int] /\ sending' \in [Peer -> BOOLEAN]
         /\ \A q \in Peer : q # e => recvWindow'[q] = recvWindow[q]
         /\ recvWindow'[e] = w + Deficit(w)
    BY <2>1, <2>3 DEF TypeOK
  <2>13. recvWindow'[e] >= 0
    BY <2>12, SizeAssumption DEF Deficit
  <2> QED BY <1>0, <2>1, <2>2, <2>7, <2>8, <2>9, <2>10, <2>11, <2>12, <2>13
<1>2. CASE ~NeedsGrant(w)
  <2>1. recvWindow' = [recvWindow EXCEPT ![e] = w] /\ frames' = rest /\ sending' = sending
    BY <1>2 DEF CheckWindow
  <2>2. Same(e)
    BY <2>1 DEF Same
  <2>3. InFlight(e)' = InFlight(e) /\ Granting(e)' = Granting(e)
    BY <2>2, SameTotals
  <2>4. QueueOK(e)'
    BY <2>2, SameQueue
  <2>5. w >= 0
    BY <1>2, SizeAssumption DEF NeedsGrant
  <2>6. Len(frames'[e]) >= Len(frames[e])
    BY <2>2 DEF Same, TypeOK
  <2> QED BY <1>0, <2>1, <2>3, <2>4, <2>5, <2>6 DEF TypeOK
<1> QED BY <1>1, <1>2

-----------------------------------------------------------------------------
(* The inductive step, one lemma per action.                                 *)
Balance(e, p) ==
  sendWindow[e] + InFlight(e) + Granting(p) - InitialWindow[e]
    = recvWindow[p] - InitialWindow[p]

LEMMA ConservationIsBalance == Conservation <=> \A e \in Peer : Balance(e, Other(e))
  BY DEF Conservation, Balance

LEMMA ConservationIsBalanceNext ==
  Conservation' <=> \A e \in Peer : Balance(e, Other(e))'
  BY DEF Conservation, Balance, Other

BalanceTyped(e, p) ==
  /\ sendWindow[e] \in Int /\ recvWindow[p] \in Int
  /\ InFlight(e) \in Int /\ Granting(p) \in Int
  /\ InitialWindow[e] \in Int /\ InitialWindow[p] \in Int

LEMMA BalanceType ==
  ASSUME IInv, NEW e \in Peer, NEW p \in Peer
  PROVE  BalanceTyped(e, p)
<1>1. TypeOK
  BY DEF IInv
<1>2. InFlight(e) \in Int /\ Granting(p) \in Int
  BY <1>1, TotalsType DEF TotalsTyped
<1>3. sendWindow[e] \in Int /\ recvWindow[p] \in Int
  BY <1>1 DEF TypeOK
<1>4. InitialWindow[e] \in Int /\ InitialWindow[p] \in Int
  BY SizeAssumption
<1> QED BY <1>2, <1>3, <1>4 DEF BalanceTyped

LEMMA InitIInv == Init => IInv
<1> SUFFICES ASSUME Init PROVE IInv
  OBVIOUS
<1>1. \A e \in Peer : /\ frames[e] = << >> /\ Len(frames[e]) = 0
                      /\ onWire[e] = 0
                      /\ handled[e] = [data |-> 0, credit |-> 0]
                      /\ sendWindow[e] = InitialWindow[e] /\ recvWindow[e] = InitialWindow[e]
                      /\ InitialWindow[e] \in Nat \ {0}
  BY SizeAssumption DEF Init
<1>2. TypeOK
  <2>1. frames \in [Peer -> Seq(Frame)] /\ onWire \in [Peer -> Nat]
    BY DEF Init
  <2>2. \A e \in Peer : onWire[e] <= Len(frames[e])
    BY <1>1
  <2>3. sendWindow \in [Peer -> Int] /\ recvWindow \in [Peer -> Int]
    BY SizeAssumption DEF Init
  <2>4. deferrals \in [Peer -> 0..MaxDeferrals]
    BY SizeAssumption DEF Init
  <2>5. handled \in [Peer -> [data : Nat, credit : Nat]]
    BY DEF Init
  <2>6. sending \in [Peer -> BOOLEAN] /\ timer \in [Peer -> BOOLEAN]
    BY DEF Init
  <2> QED BY <2>1, <2>2, <2>3, <2>4, <2>5, <2>6 DEF TypeOK
<1>3. ASSUME NEW e \in Peer
      PROVE  QueueOK(e)
  <2>1. \A i, j \in 0..Len(frames[e]) : i = 0 /\ j = 0
    BY <1>1
  <2>2. Stamp(e, 0) = [data |-> 0, credit |-> 0]
    BY <1>1 DEF Stamp
  <2>3. Ordered(e, 0, 0)
    BY <2>2 DEF Ordered
  <2> QED BY <1>1, <2>1, <2>3 DEF QueueOK
<1>4. WindowsOK
  BY <1>1, SizeAssumption DEF WindowsOK, LargestPass
<1>5. ASSUME NEW e \in Peer
      PROVE  InFlight(e) = 0 /\ Granting(e) = 0
  BY <1>1 DEF InFlight, Granting, Last, Stamp
<1>6. Conservation
  BY <1>1, <1>5, OtherPeer DEF Conservation
<1> QED BY <1>2, <1>3, <1>4, <1>6 DEF IInv

LEMMA QuietStep ==
  ASSUME IInv, TypeOK', UNCHANGED <<frames, onWire, sendWindow, recvWindow, handled>>
  PROVE  IInv'
<1>1. \A e \in Peer : Same(e) /\ onWire'[e] = onWire[e]
  BY DEF Same
<1>2. \A e \in Peer : QueueOK(e)'
  BY <1>1, SameQueue DEF IInv
<1>3. \A e \in Peer : InFlight(e)' = InFlight(e) /\ Granting(e)' = Granting(e)
  BY <1>1, SameTotals
<1>4. \A e \in Peer : Balance(e, Other(e))'
  BY <1>3, OtherPeer, ConservationIsBalance DEF IInv, Balance, Other
<1>5. WindowsOK'
  BY DEF IInv, WindowsOK
<1> QED BY <1>2, <1>4, <1>5, ConservationIsBalanceNext DEF IInv

LEMMA SendFrameStep ==
  ASSUME IInv, NEW e \in Peer, NEW t \in {"DATA", "CONTROL"}, NEW b \in 0..MaxFrame,
         t = "CONTROL" => b = 0, SendFrame(e, t, b)
  PROVE  IInv'
<1> DEFINE f == NewFrame(e, t, b, 0)
<1>0. TypeOK /\ \A q \in Peer : QueueOK(q)
  BY DEF IInv
<1>1. /\ f \in Frame /\ f.type = t
      /\ f.data - Last(e).data = b
      /\ f.credit = Last(e).credit
      /\ b = 0 => f.data = Last(e).data
  <2>1. t \in FrameType
    BY DEF FrameType
  <2>2. b \in Nat /\ 0 \in Nat
    BY SizeAssumption
  <2> QED BY <1>0, <2>1, <2>2, NewFrameType
<1>2. /\ frames' = [frames EXCEPT ![e] = Append(@, f)]
      /\ sending' = [sending EXCEPT ![e] = TRUE]
      /\ UNCHANGED <<onWire, sendWindow, recvWindow, deferrals, timer, handled>>
  BY DEF SendFrame
<1> HIDE DEF f
<1>3. Appendable(e, f)
  BY <1>1 DEF Appendable
<1>4. Grow(e, f) /\ \A q \in Peer : q # e => Same(q)
  BY <1>0, <1>2 DEF Grow, Same, TypeOK
<1>5. \A q \in Peer : QueueOK(q)'
  BY <1>0, <1>1, <1>3, <1>4, GrowQueue, SameQueue
<1>6. \A q \in Peer : InFlight(q)' = InFlight(q) /\ Granting(q)' = Granting(q)
  <2>1. f.credit \in Nat /\ Last(e).credit \in Nat /\ Granting(e) \in Int
    BY <1>0, <1>1, LastType, TotalsType DEF Frame, TotalsTyped
  <2>2. InFlight(e)' = InFlight(e) /\ Granting(e)' = Granting(e) + f.credit - Last(e).credit
    BY <1>0, <1>1, <1>2, <1>4, GrowTotals
  <2>3. Granting(e)' = Granting(e)
    BY <1>1, <2>1, <2>2
  <2>4. \A q \in Peer : q # e => InFlight(q)' = InFlight(q) /\ Granting(q)' = Granting(q)
    BY <1>2, <1>4, SameTotals
  <2> QED BY <2>2, <2>3, <2>4
<1>7. TypeOK'
  <2>1. frames' \in [Peer -> Seq(Frame)]
    BY <1>0, <1>1, <1>2 DEF TypeOK
  <2>2. \A q \in Peer : Len(frames'[q]) >= Len(frames[q])
    BY <1>0, <1>1, <1>2 DEF TypeOK
  <2>3. \A q \in Peer : onWire'[q] <= Len(frames'[q])
    BY <1>0, <1>2, <2>1, <2>2 DEF TypeOK
  <2> QED BY <1>0, <1>2, <2>1, <2>3 DEF TypeOK
<1>8. \A q \in Peer : Balance(q, Other(q))'
  BY <1>2, <1>6, OtherPeer, ConservationIsBalance DEF IInv, Balance, Other
<1>9. WindowsOK'
  BY <1>2 DEF IInv, WindowsOK
<1> QED BY <1>5, <1>7, <1>8, <1>9, ConservationIsBalanceNext DEF IInv

LEMMA FlagsStep ==
  ASSUME TypeOK, UNCHANGED <<frames, onWire, sendWindow, recvWindow, handled>>,
         sending' \in [Peer -> BOOLEAN], timer' \in [Peer -> BOOLEAN],
         deferrals' \in [Peer -> 0..MaxDeferrals]
  PROVE  TypeOK'
<1>1. /\ frames' = frames /\ onWire' = onWire /\ handled' = handled
      /\ sendWindow' = sendWindow /\ recvWindow' = recvWindow
  OBVIOUS
<1>2. frames' \in [Peer -> Seq(Frame)] /\ onWire' \in [Peer -> Nat]
  BY <1>1 DEF TypeOK
<1>3. \A q \in Peer : onWire'[q] <= Len(frames'[q])
  BY <1>1 DEF TypeOK
<1>4. sendWindow' \in [Peer -> Int] /\ recvWindow' \in [Peer -> Int]
  BY <1>1 DEF TypeOK
<1>5. handled' \in [Peer -> [data : Nat, credit : Nat]]
  BY <1>1 DEF TypeOK
<1> QED BY <1>2, <1>3, <1>4, <1>5 DEF TypeOK

LEMMA PassStep ==
  ASSUME IInv, NEW e \in Peer, NEW armed \in BOOLEAN, Pass(e, armed)
  PROVE  IInv'
<1>0. TypeOK /\ QueueOK(e)
  BY DEF IInv
<1> PICK n \in Batches(e) : \/ PutBack(e, n, armed)
                           \/ Defer(e, n, armed)
                           \/ Transmit(e, n, armed)
  BY DEF Pass
<1>1. CASE PutBack(e, n, armed)
  <2>1. sending' \in [Peer -> BOOLEAN] /\ timer' \in [Peer -> BOOLEAN]
    BY <1>0, <1>1 DEF PutBack, TypeOK
  <2>2. UNCHANGED <<frames, onWire, sendWindow, recvWindow, deferrals, handled>>
    BY <1>1 DEF PutBack
  <2>3. deferrals' \in [Peer -> 0..MaxDeferrals]
    BY <1>0, <2>2 DEF TypeOK
  <2>4. TypeOK'
    BY <1>0, <2>1, <2>2, <2>3, FlagsStep
  <2>5. UNCHANGED <<frames, onWire, sendWindow, recvWindow, handled>>
    BY <2>2
  <2> QED BY <2>4, <2>5, QuietStep
<1>2. CASE Defer(e, n, armed)
  <2>1. deferrals[e] + 1 \in 0..MaxDeferrals
    <3>1. deferrals[e] \in 0..MaxDeferrals
      BY <1>0 DEF TypeOK
    <3>2. deferrals[e] < MaxDeferrals
      BY <1>2 DEF Defer
    <3>3. MaxDeferrals \in Nat
      BY SizeAssumption
    <3> QED BY <3>1, <3>2, <3>3
  <2>2. deferrals' \in [Peer -> 0..MaxDeferrals]
    BY <1>0, <1>2, <2>1 DEF Defer, TypeOK
  <2>3. sending' \in [Peer -> BOOLEAN] /\ timer' \in [Peer -> BOOLEAN]
    BY <1>0, <1>2 DEF Defer, TypeOK
  <2>4. UNCHANGED <<frames, onWire, sendWindow, recvWindow, handled>>
    BY <1>2 DEF Defer
  <2> QED BY <1>0, <2>2, <2>3, <2>4, FlagsStep, QuietStep
<1>3. CASE Transmit(e, n, armed)
  <2> DEFINE d == BatchBytes(e, n)
             o == onWire[e]
  <2>1. /\ n \in Nat \ {0} /\ o + n \in 0..Len(frames[e])
        /\ d \in Int /\ d <= LargestPass
        /\ ~HasData(e, n) => d = 0
    BY <1>0, BatchFacts
  <2>2. /\ sendWindow' = [sendWindow EXCEPT ![e] = @ - d]
        /\ onWire' = [onWire EXCEPT ![e] = @ + n]
        /\ deferrals' = [deferrals EXCEPT ![e] = 0]
        /\ UNCHANGED <<frames, recvWindow, handled>>
    BY <1>3 DEF Transmit
  <2>3. /\ InFlight(e)' = InFlight(e) + d
        /\ \A q \in Peer : Granting(q)' = Granting(q)
        /\ \A q \in Peer : q # e => InFlight(q)' = InFlight(q)
    BY <1>0, <1>3, TransmitTotals
  <2> HIDE DEF d
  <2>4. TypeOK'
    <3>1. /\ onWire' \in [Peer -> Nat]
          /\ sendWindow' \in [Peer -> Int]
          /\ deferrals' \in [Peer -> 0..MaxDeferrals]
      <4>1. onWire' \in [Peer -> Nat]
        BY <1>0, <2>1, <2>2 DEF TypeOK
      <4>2. sendWindow' \in [Peer -> Int]
        BY <1>0, <2>1, <2>2 DEF TypeOK
      <4>3. 0 \in 0..MaxDeferrals
        BY SizeAssumption
      <4>4. deferrals' \in [Peer -> 0..MaxDeferrals]
        BY <1>0, <2>2, <4>3 DEF TypeOK
      <4> QED BY <4>1, <4>2, <4>4
    <3>2. \A q \in Peer : onWire'[q] <= Len(frames'[q])
      BY <1>0, <2>1, <2>2 DEF TypeOK
    <3> QED BY <1>0, <1>3, <3>1, <3>2 DEF TypeOK, Transmit
  <2>5. \A q \in Peer : QueueOK(q)'
    <3>1. \A q \in Peer : Same(q)
      BY <2>2 DEF Same
    <3> QED BY <1>0, <3>1, SameQueue DEF IInv
  <2>6. WindowsOK'
    <3>1. sendWindow[e] \in Int /\ LargestPass \in Nat \ {0} /\ sendWindow[e] + LargestPass > 0
      BY <1>0, SizeAssumption DEF IInv, WindowsOK, TypeOK, LargestPass
    <3>2. sendWindow'[e] = sendWindow[e] - d
      BY <1>0, <2>2 DEF TypeOK
    <3>3. d = 0 \/ sendWindow[e] > 0
      BY <1>3, <2>1, <3>1 DEF Transmit, Exhausted
    <3>4. sendWindow'[e] + LargestPass > 0
      BY <2>1, <3>1, <3>2, <3>3
    <3> QED BY <1>0, <2>2, <3>4 DEF IInv, WindowsOK, TypeOK
  <2>7. ASSUME NEW q \in Peer
        PROVE  Balance(q, Other(q))'
    <3> DEFINE p == Other(q)
    <3>1. p \in Peer /\ Balance(q, p) /\ BalanceTyped(q, p)
      BY OtherPeer, ConservationIsBalance, BalanceType DEF IInv
    <3> HIDE DEF p
    <3>2. recvWindow'[p] = recvWindow[p] /\ Granting(p)' = Granting(p)
      BY <2>2, <2>3, <3>1
    <3>3. \/ sendWindow'[q] = sendWindow[q] /\ InFlight(q)' = InFlight(q)
          \/ sendWindow'[q] = sendWindow[q] - d /\ InFlight(q)' = InFlight(q) + d
      BY <1>0, <2>2, <2>3 DEF TypeOK
    <3>4. Balance(q, p)'
      BY <2>1, <3>1, <3>2, <3>3 DEF Balance, BalanceTyped
    <3> QED BY <3>4 DEF p, Balance, Other
  <2> QED BY <2>4, <2>5, <2>6, <2>7, ConservationIsBalanceNext DEF IInv
<1> QED BY <1>1, <1>2, <1>3

LEMMA WindowIntervalStep ==
  ASSUME IInv, NEW e \in Peer, WindowInterval(e)
  PROVE  IInv'
<1>0. TypeOK /\ (\A q \in Peer : QueueOK(q)) /\ WindowsOK
  BY DEF IInv
<1>1. /\ CheckWindow(e, recvWindow[e], frames)
      /\ UNCHANGED <<onWire, sendWindow, deferrals, timer, handled>>
  BY DEF WindowInterval
<1>2. recvWindow[e] \in Int /\ recvWindow[e] + MaxFrame >= 0 /\ frames \in [Peer -> Seq(Frame)]
  <2>1. recvWindow[e] \in Int /\ frames \in [Peer -> Seq(Frame)]
    BY <1>0 DEF TypeOK
  <2>2. recvWindow[e] >= 0
    BY <1>0 DEF WindowsOK
  <2>3. MaxFrame \in Nat
    BY SizeAssumption
  <2> QED BY <2>1, <2>2, <2>3
<1>3. /\ frames' \in [Peer -> Seq(Frame)]
      /\ \A q \in Peer : q # e => frames'[q] = frames[q]
      /\ Len(frames'[e]) >= Len(frames[e])
      /\ recvWindow' \in [Peer -> Int] /\ sending' \in [Peer -> BOOLEAN]
      /\ recvWindow'[e] >= 0
      /\ \A q \in Peer : q # e => recvWindow'[q] = recvWindow[q]
      /\ QueueOK(e)'
      /\ InFlight(e)' = InFlight(e)
      /\ recvWindow'[e] - recvWindow[e] = Granting(e)' - Granting(e)
  BY <1>0, <1>1, <1>2, CheckWindowStep
<1>4. \A q \in Peer : q # e => Same(q) /\ onWire'[q] = onWire[q]
  BY <1>1, <1>3 DEF Same
<1>5. TypeOK'
  <2>1. \A q \in Peer : onWire'[q] <= Len(frames'[q])
    <3> SUFFICES ASSUME NEW q \in Peer PROVE onWire[q] <= Len(frames'[q])
      BY <1>1
    <3>1. onWire[q] \in Nat /\ Len(frames[q]) \in Nat /\ onWire[q] <= Len(frames[q])
      BY <1>0 DEF TypeOK
    <3>2. frames'[q] \in Seq(Frame)
      BY <1>3
    <3>3. Len(frames'[q]) \in Nat
      BY <3>2
    <3>4. Len(frames'[q]) >= Len(frames[q])
      <4>1. CASE q = e
        BY <1>3, <4>1
      <4>2. CASE q # e
        BY <1>3, <3>1, <4>2
      <4> QED BY <4>1, <4>2
    <3> QED BY <3>1, <3>3, <3>4
  <2> QED BY <1>0, <1>1, <1>3, <2>1 DEF TypeOK
<1>6. \A q \in Peer : QueueOK(q)'
  BY <1>0, <1>3, <1>4, SameQueue
<1>7. WindowsOK'
  BY <1>0, <1>1, <1>3 DEF WindowsOK
<1>8. \A q \in Peer : q # e => InFlight(q)' = InFlight(q) /\ Granting(q)' = Granting(q)
  BY <1>4, SameTotals
<1>9. ASSUME NEW q \in Peer
      PROVE  Balance(q, Other(q))'
  <2> DEFINE p == Other(q)
  <2>1. p \in Peer /\ p # q /\ Balance(q, p) /\ BalanceTyped(q, p)
    BY OtherPeer, ConservationIsBalance, BalanceType DEF IInv
  <2> HIDE DEF p
  <2>2. sendWindow'[q] = sendWindow[q] /\ InFlight(q)' = InFlight(q)
    BY <1>1, <1>3, <1>8
  <2>3. Granting(p)' - Granting(p) = recvWindow'[p] - recvWindow[p]
    <3>1. CASE p = e
      BY <1>3, <3>1
    <3>2. CASE p # e
      BY <1>3, <1>8, <2>1, <3>2 DEF BalanceTyped
    <3> QED BY <3>1, <3>2
  <2>4. recvWindow'[p] \in Int
    BY <1>3, <2>1
  <2>5. Granting(p)' \in Int
    BY <1>5, <2>1, TotalsTypeNext DEF TotalsTyped
  <2>6. Balance(q, p)'
    BY <2>1, <2>2, <2>3, <2>4, <2>5 DEF Balance, BalanceTyped
  <2> QED BY <2>6 DEF p, Balance, Other
<1> QED BY <1>5, <1>6, <1>7, <1>9, ConservationIsBalanceNext DEF IInv

LEMMA FlushStep ==
  ASSUME IInv, NEW e \in Peer, Flush(e)
  PROVE  IInv'
<1>1. CASE Buffered(e) = 0
  <2>1. /\ sending' = [sending EXCEPT ![e] = FALSE]
        /\ UNCHANGED <<frames, onWire, sendWindow, recvWindow, deferrals, timer, handled>>
    BY <1>1 DEF Flush
  <2>2. sending' \in [Peer -> BOOLEAN] /\ TypeOK
    BY <2>1 DEF IInv, TypeOK
  <2>3. timer' \in [Peer -> BOOLEAN] /\ deferrals' \in [Peer -> 0..MaxDeferrals]
    BY <2>1, <2>2 DEF TypeOK
  <2> QED BY <2>1, <2>2, <2>3, FlagsStep, QuietStep
<1>2. CASE Buffered(e) # 0
  <2>1. Pass(e, timer[e])
    BY <1>2 DEF Flush
  <2>2. timer[e] \in BOOLEAN
    BY DEF IInv, TypeOK
  <2> QED BY <2>1, <2>2, PassStep
<1> QED BY <1>1, <1>2

LEMMA RetryTimerStep ==
  ASSUME IInv, NEW e \in Peer, RetryTimer(e)
  PROVE  IInv'
<1>1. CASE ~sending[e] /\ Buffered(e) > 0
  <2>1. Pass(e, FALSE)
    BY <1>1 DEF RetryTimer
  <2> QED BY <2>1, PassStep
<1>2. CASE ~(~sending[e] /\ Buffered(e) > 0)
  <2>1. /\ timer' = [timer EXCEPT ![e] = FALSE]
        /\ UNCHANGED <<frames, onWire, sending, sendWindow, recvWindow, deferrals, handled>>
    BY <1>2 DEF RetryTimer
  <2>2. timer' \in [Peer -> BOOLEAN] /\ TypeOK
    BY <2>1 DEF IInv, TypeOK
  <2>3. sending' \in [Peer -> BOOLEAN] /\ deferrals' \in [Peer -> 0..MaxDeferrals]
    BY <2>1, <2>2 DEF TypeOK
  <2> QED BY <2>1, <2>2, <2>3, FlagsStep, QuietStep
<1> QED BY <1>1, <1>2

(* What every handler of a frame from p does at e.                           *)
Handled(e, p) ==
  /\ frames' \in [Peer -> Seq(Frame)] /\ frames'[p] = Tail(frames[p])
  /\ Len(frames'[e]) >= Len(frames[e])
  /\ sending' \in [Peer -> BOOLEAN]
  /\ sendWindow' \in [Peer -> Int] /\ recvWindow' \in [Peer -> Int]
  /\ sendWindow'[p] = sendWindow[p] /\ recvWindow'[p] = recvWindow[p]
  /\ recvWindow'[e] >= 0
  /\ QueueOK(e)'
  /\ InFlight(e)' = InFlight(e)
  /\ sendWindow'[e] = sendWindow[e] + Increment(p, 1)
  /\ sendWindow'[e] >= sendWindow[e]
  /\ recvWindow'[e] - recvWindow[e] + PayloadSize(p, 1) = Granting(e)' - Granting(e)

LEMMA HandledStep ==
  ASSUME IInv, NEW e \in Peer, NEW p \in Peer, p = Other(e), onWire[p] > 0, TakeFrame(p),
         HandleData(e, p) \/ HandleGrant(e, p) \/ HandleControl(e, p)
  PROVE  Handled(e, p)
<1>0. /\ TypeOK /\ QueueOK(e) /\ QueueOK(p) /\ WindowsOK
      /\ p # e
      /\ Granting(e) \in Int /\ sendWindow[e] \in Int /\ recvWindow[e] \in Int
      /\ sendWindow \in [Peer -> Int] /\ recvWindow \in [Peer -> Int]
      /\ recvWindow[e] >= 0
  BY OtherPeer, TotalsType DEF IInv, TotalsTyped, WindowsOK, TypeOK
<1>1. frames[p] \in Seq(Frame) /\ frames[p] # << >> /\ 1 \in 1..Len(frames[p])
  BY <1>0 DEF TypeOK
<1>2. FrameWellFormed(p, 1) /\ frames[p][1].type \in FrameType
  <2>1. frames[p][1] \in Frame
    BY <1>1
  <2> QED BY <1>0, <1>1, <2>1 DEF QueueOK, Frame
<1>3. /\ Rest(p) \in [Peer -> Seq(Frame)]
      /\ Rest(p)[p] = Tail(frames[p])
      /\ Rest(p)[e] = frames[e]
  BY <1>0, <1>1 DEF Rest, TypeOK
<1>4. onWire'[e] = onWire[e] /\ handled'[e] = handled[e]
  BY <1>0 DEF TakeFrame, TypeOK
<1>5. ASSUME HandleData(e, p), PayloadSize(p, 1) > 0
      PROVE  Handled(e, p)
  <2> DEFINE w == recvWindow[e] - PayloadSize(p, 1)
  <2>1. PayloadSize(p, 1) \in 1..MaxFrame /\ Increment(p, 1) = 0
    BY <1>2, <1>5, SizeAssumption DEF HandleData, FrameWellFormed
  <2>2. w \in Int /\ w + MaxFrame >= 0
    BY <1>0, <2>1, SizeAssumption
  <2>3. CheckWindow(e, w, Rest(p)) /\ sendWindow' = sendWindow
    BY <1>5 DEF HandleData
  <2> HIDE DEF w
  <2>4. /\ frames' \in [Peer -> Seq(Frame)]
        /\ \A q \in Peer : q # e => frames'[q] = Rest(p)[q]
        /\ Len(frames'[e]) >= Len(frames[e])
        /\ recvWindow' \in [Peer -> Int] /\ sending' \in [Peer -> BOOLEAN]
        /\ recvWindow'[e] >= 0
        /\ \A q \in Peer : q # e => recvWindow'[q] = recvWindow[q]
        /\ QueueOK(e)'
        /\ InFlight(e)' = InFlight(e)
        /\ recvWindow'[e] - w = Granting(e)' - Granting(e)
    BY <1>0, <1>3, <1>4, <2>2, <2>3, CheckWindowStep
  <2>5. recvWindow'[e] - recvWindow[e] + PayloadSize(p, 1) = Granting(e)' - Granting(e)
    <3>1. recvWindow'[e] \in Int
      BY <2>4
    <3>2. recvWindow'[e] - recvWindow[e] + PayloadSize(p, 1) = recvWindow'[e] - w
      BY <1>0, <2>1, <3>1 DEF w
    <3> QED BY <2>4, <3>2
  <2>6. frames'[p] = Tail(frames[p]) /\ recvWindow'[p] = recvWindow[p]
    BY <1>0, <1>3, <2>4
  <2>7. /\ sendWindow' \in [Peer -> Int] /\ sendWindow'[p] = sendWindow[p]
        /\ sendWindow'[e] = sendWindow[e] + Increment(p, 1)
        /\ sendWindow'[e] >= sendWindow[e]
    BY <1>0, <2>1, <2>3
  <2> QED BY <2>4, <2>5, <2>6, <2>7 DEF Handled
<1>6. ASSUME frames' = Rest(p), recvWindow' = recvWindow, PayloadSize(p, 1) = 0,
             sending' \in [Peer -> BOOLEAN], sendWindow' \in [Peer -> Int],
             Increment(p, 1) \in Nat, sendWindow'[p] = sendWindow[p],
             sendWindow'[e] = sendWindow[e] + Increment(p, 1)
      PROVE  Handled(e, p)
  <2>1. Same(e)
    BY <1>3, <1>4, <1>6 DEF Same
  <2>2. InFlight(e)' = InFlight(e) /\ Granting(e)' = Granting(e)
    BY <1>4, <2>1, SameTotals
  <2>3. QueueOK(e)'
    BY <1>0, <2>1, SameQueue
  <2>4. Len(frames'[e]) >= Len(frames[e])
    BY <1>0, <1>3, <1>6 DEF TypeOK
  <2>5. recvWindow'[e] - recvWindow[e] + PayloadSize(p, 1) = Granting(e)' - Granting(e)
    BY <1>0, <1>6, <2>2
  <2>6. sendWindow'[e] >= sendWindow[e]
    BY <1>0, <1>6
  <2>7. frames' \in [Peer -> Seq(Frame)] /\ frames'[p] = Tail(frames[p])
    BY <1>3, <1>6
  <2> QED BY <1>0, <1>6, <2>2, <2>3, <2>4, <2>5, <2>6, <2>7 DEF Handled
<1>7. CASE HandleData(e, p)
  <2>1. PayloadSize(p, 1) \in 0..MaxFrame /\ Increment(p, 1) = 0
    BY <1>2, <1>7 DEF HandleData, FrameWellFormed
  <2>2. CASE PayloadSize(p, 1) > 0
    BY <1>5, <1>7, <2>2
  <2>3. CASE PayloadSize(p, 1) = 0
    <3>1. frames' = Rest(p) /\ UNCHANGED <<recvWindow, sending, sendWindow>>
      BY <1>7, <2>3 DEF HandleData
    <3>2. sending' \in [Peer -> BOOLEAN]
      BY <1>0, <3>1 DEF TypeOK
    <3> QED BY <1>0, <1>6, <2>1, <2>3, <3>1, <3>2
  <2> QED BY <2>1, <2>2, <2>3, SizeAssumption
<1>8. CASE HandleGrant(e, p)
  <2>1. Increment(p, 1) \in 1..MaxIncrement /\ PayloadSize(p, 1) = 0
    BY <1>2, <1>8 DEF HandleGrant, FrameWellFormed
  <2>2. Increment(p, 1) \in Nat
    BY <2>1, SizeAssumption
  <2>3. /\ frames' = Rest(p)
        /\ sendWindow' = [sendWindow EXCEPT ![e] = @ + Increment(p, 1)]
        /\ sending' = [sending EXCEPT ![e] = @ \/ Buffered(e) > 0]
        /\ UNCHANGED recvWindow
    BY <1>8, <2>1 DEF HandleGrant
  <2>4. sending' \in [Peer -> BOOLEAN]
    BY <1>0, <2>3 DEF TypeOK
  <2>5. /\ sendWindow' \in [Peer -> Int]
        /\ sendWindow'[e] = sendWindow[e] + Increment(p, 1)
        /\ sendWindow'[p] = sendWindow[p]
    BY <1>0, <2>2, <2>3
  <2> QED BY <1>6, <2>1, <2>2, <2>3, <2>4, <2>5
<1>9. CASE HandleControl(e, p)
  <2>1. Increment(p, 1) = 0 /\ PayloadSize(p, 1) = 0
    BY <1>2, <1>9 DEF HandleControl, FrameWellFormed
  <2>2. frames' = Rest(p) /\ UNCHANGED <<sendWindow, recvWindow, sending>>
    BY <1>9 DEF HandleControl
  <2>3. sending' \in [Peer -> BOOLEAN]
    BY <1>0, <2>2 DEF TypeOK
  <2> QED BY <1>0, <1>6, <2>1, <2>2, <2>3
<1> QED BY <1>7, <1>8, <1>9

LEMMA ReceiveStep ==
  ASSUME IInv, NEW e \in Peer, Receive(e)
  PROVE  IInv'
<1> DEFINE p == Other(e)
<1>0. TypeOK /\ QueueOK(p) /\ WindowsOK
  BY OtherPeer DEF IInv
<1>1. p \in Peer /\ p # e /\ Other(p) = e /\ \A q \in Peer : q = e \/ q = p
  BY PeerAssumption DEF Other, Peer
<1>2. /\ onWire[p] > 0 /\ TakeFrame(p)
      /\ HandleData(e, p) \/ HandleGrant(e, p) \/ HandleControl(e, p)
  BY DEF Receive
<1>3. Handled(e, p)
  BY <1>1, <1>2, HandledStep
<1> HIDE DEF p
<1>4. /\ onWire' = [onWire EXCEPT ![p] = @ - 1]
      /\ handled' = [handled EXCEPT ![p] = Stamp(p, 1)]
      /\ UNCHANGED <<deferrals, timer>>
  BY <1>2 DEF TakeFrame
<1>5. /\ onWire[p] \in Nat /\ onWire[p] > 0 /\ onWire[p] <= Len(frames[p])
      /\ onWire[e] \in Nat /\ onWire[e] <= Len(frames[e])
      /\ Len(frames[p]) \in Nat /\ Len(frames[e]) \in Nat
      /\ frames[p] \in Seq(Frame) /\ frames[p] # << >>
  BY <1>0, <1>1, <1>2 DEF TypeOK
<1>6. /\ Shrink(p) /\ onWire'[p] = onWire[p] - 1 /\ onWire'[e] = onWire[e]
      /\ Len(frames'[p]) = Len(frames[p]) - 1
  BY <1>0, <1>1, <1>3, <1>4, <1>5 DEF Shrink, Handled, TypeOK
<1>7. TypeOK'
  <2>1. Stamp(p, 1) \in [data : Nat, credit : Nat]
    BY <1>0, <1>1, <1>5, StampType
  <2>2. handled' \in [Peer -> [data : Nat, credit : Nat]]
    BY <1>0, <1>1, <1>4, <2>1 DEF TypeOK
  <2>3. onWire' \in [Peer -> Nat]
    BY <1>0, <1>1, <1>4, <1>5 DEF TypeOK
  <2>4. Len(frames'[e]) \in Nat /\ Len(frames'[e]) >= Len(frames[e])
    BY <1>3 DEF Handled
  <2>5. \A q \in Peer : onWire'[q] <= Len(frames'[q])
    BY <1>1, <1>5, <1>6, <2>4
  <2>6. deferrals' \in [Peer -> 0..MaxDeferrals] /\ timer' \in [Peer -> BOOLEAN]
    BY <1>0, <1>4 DEF TypeOK
  <2> QED BY <1>3, <2>2, <2>3, <2>5, <2>6 DEF TypeOK, Handled
<1>8. \A q \in Peer : QueueOK(q)'
  <2>1. QueueOK(p)'
    BY <1>0, <1>1, <1>6, ShrinkQueue
  <2> QED BY <1>1, <1>3, <2>1 DEF Handled
<1>9. WindowsOK'
  <2>1. /\ LargestPass \in Nat
        /\ sendWindow[e] \in Int /\ sendWindow[e] + LargestPass > 0
        /\ sendWindow[p] + LargestPass > 0 /\ recvWindow[p] >= 0
    BY <1>0, <1>1, SizeAssumption DEF WindowsOK, LargestPass, TypeOK
  <2>2. sendWindow'[e] \in Int /\ sendWindow'[e] >= sendWindow[e]
    BY <1>3 DEF Handled
  <2>3. sendWindow'[e] + LargestPass > 0
    BY <2>1, <2>2
  <2>4. sendWindow'[p] + LargestPass > 0 /\ recvWindow'[p] >= 0 /\ recvWindow'[e] >= 0
    BY <1>3, <2>1 DEF Handled
  <2> QED BY <1>1, <2>3, <2>4 DEF WindowsOK, LargestPass
<1>10. /\ InFlight(p)' = InFlight(p) - PayloadSize(p, 1)
       /\ Granting(p)' = Granting(p) - Increment(p, 1)
  BY <1>0, <1>1, <1>2, <1>6, ShrinkTotals
<1>11. PayloadSize(p, 1) \in Int /\ Increment(p, 1) \in Int
  <2>1. \A i \in {0, 1} : Stamp(p, i).data \in Nat /\ Stamp(p, i).credit \in Nat
    BY <1>0, <1>1, <1>5, StampType
  <2> QED BY <2>1 DEF PayloadSize, Increment
<1>12. /\ Balance(e, p) /\ BalanceTyped(e, p)
       /\ Balance(p, e) /\ BalanceTyped(p, e)
  <2>1. Other(e) = p
    BY DEF p
  <2> QED BY <1>1, <2>1, ConservationIsBalance, BalanceType DEF IInv
<1>13. Balance(e, p)'
  <2>1. /\ InFlight(e)' = InFlight(e) /\ recvWindow'[p] = recvWindow[p]
        /\ sendWindow'[e] = sendWindow[e] + Increment(p, 1)
    BY <1>3 DEF Handled
  <2> QED BY <1>10, <1>11, <1>12, <2>1 DEF Balance, BalanceTyped
<1>14. Balance(p, e)'
  <2>1. Granting(e)' \in Int /\ recvWindow'[e] \in Int
    BY <1>3, <1>7, TotalsTypeNext DEF Handled, TotalsTyped
  <2>2. sendWindow'[p] = sendWindow[p]
    BY <1>3 DEF Handled
  <2>3. recvWindow'[e] - recvWindow[e] + PayloadSize(p, 1) = Granting(e)' - Granting(e)
    BY <1>3 DEF Handled
  <2> QED BY <1>10, <1>11, <1>12, <2>1, <2>2, <2>3 DEF Balance, BalanceTyped
<1>15. \A q \in Peer : Balance(q, Other(q))'
  <2>1. Other(e)' = p /\ Other(p)' = e
    BY <1>1 DEF p, Other
  <2>2. Balance(e, Other(e))' /\ Balance(p, Other(p))'
    BY <1>13, <1>14, <2>1 DEF Balance
  <2> QED BY <1>1, <2>2
<1> QED BY <1>7, <1>8, <1>9, <1>15, ConservationIsBalanceNext DEF IInv

-----------------------------------------------------------------------------
LEMMA NextIInv == IInv /\ [Next]_vars => IInv'
<1> SUFFICES ASSUME IInv, [Next]_vars PROVE IInv'
  OBVIOUS
<1>1. ASSUME NEW e \in Peer, SendData(e)
      PROVE  IInv'
  <2> PICK bytes \in 0..MaxFrame : SendFrame(e, "DATA", bytes)
    BY <1>1 DEF SendData
  <2> QED BY SendFrameStep
<1>2. ASSUME NEW e \in Peer, SendControl(e)
      PROVE  IInv'
  <2>1. 0 \in 0..MaxFrame
    BY SizeAssumption
  <2> QED BY <1>2, <2>1, SendFrameStep DEF SendControl
<1>3. CASE UNCHANGED vars
  <2>1. TypeOK'
    BY <1>3 DEF IInv, TypeOK, vars
  <2> QED BY <1>3, <2>1, QuietStep DEF vars
<1> QED
  BY <1>1, <1>2, <1>3, FlushStep, RetryTimerStep, WindowIntervalStep, ReceiveStep DEF Next

THEOREM InvariantHolds == Spec => []IInv
<1> QED BY InitIInv, NextIInv, PTL DEF Spec

(* TypeOK: every variable of the multiplexer keeps its type, for every       *)
(* window, frame and batch size.                                             *)
THEOREM TypeCorrect == Spec => []TypeOK
<1>1. IInv => TypeOK
  BY DEF IInv
<1> QED BY <1>1, InvariantHolds, PTL

(* Conservation: no interleaving of the two ends loses or invents a byte of  *)
(* connection window (_flushSendBuffer's debit, _checkConnectionWindow's     *)
(* grant and the WINDOW_UPDATE branch of _handleConnectionFrame agree).      *)
THEOREM WindowConserved == Spec => []Conservation
<1>1. IInv => Conservation
  BY DEF IInv
<1> QED BY <1>1, InvariantHolds, PTL

(* InFlightBounded: the receiver's window and one batch bound what its peer  *)
(* has in flight (the window check of _flushSendBuffer precedes the debit).  *)
THEOREM OverdraftBounded == Spec => []InFlightBounded
<1>1. ASSUME IInv PROVE InFlightBounded
  <2> SUFFICES ASSUME NEW e \in Peer
               PROVE  InFlight(e) < recvWindow[Other(e)] + InitialWindow[e]
                                     - InitialWindow[Other(e)] + LargestPass
    BY DEF InFlightBounded
  <2> DEFINE p == Other(e)
  <2>1. p \in Peer /\ Balance(e, p) /\ BalanceTyped(e, p)
    BY <1>1, OtherPeer, ConservationIsBalance, BalanceType DEF IInv
  <2> HIDE DEF p
  <2>2. TypeOK /\ QueueOK(p) /\ sendWindow[e] + LargestPass > 0
    BY <1>1, <2>1 DEF IInv, WindowsOK
  <2>3. Granting(p) >= 0
    <3>1. Len(frames[p]) \in Nat
      BY <2>1, <2>2 DEF TypeOK
    <3>2. Ordered(p, 0, Len(frames[p]))
      BY <2>2, <3>1 DEF QueueOK
    <3>3. Stamp(p, 0) = handled[p]
      BY DEF Stamp
    <3>4. handled[p].credit <= Last(p).credit /\ handled[p].credit \in Nat
      BY <2>1, <2>2, <3>2, <3>3 DEF Ordered, Last, TypeOK
    <3> QED BY <2>1, <2>2, <3>4, LastType DEF Granting
  <2>4. LargestPass \in Int
    BY SizeAssumption DEF LargestPass
  <2>5. InFlight(e) < recvWindow[p] + InitialWindow[e] - InitialWindow[p] + LargestPass
    BY <2>1, <2>2, <2>3, <2>4 DEF Balance, BalanceTyped
  <2> QED BY <2>5 DEF p
<1> QED BY <1>1, InvariantHolds, PTL

(* GrantsAccepted: the range check on increments (MAX_WINDOW_INCREMENT)      *)
(* never drops a grant that the peer's _checkConnectionWindow computed.      *)
THEOREM NoGrantRejected == Spec => []GrantsAccepted
<1>1. IInv => GrantsAccepted
  BY DEF IInv, QueueOK, FrameWellFormed, GrantsAccepted
<1> QED BY <1>1, InvariantHolds, PTL

-----------------------------------------------------------------------------
(* DataNeedsWindow: a pass debits the connection window only while it is     *)
(* open; no other step lowers it.                                            *)
LEMMA PassNeedsWindow ==
  ASSUME IInv, NEW e \in Peer, NEW armed \in BOOLEAN, Pass(e, armed), NEW q \in Peer,
         sendWindow'[q] < sendWindow[q]
  PROVE  sendWindow[q] > 0
<1>0. TypeOK /\ QueueOK(e)
  BY DEF IInv
<1> PICK n \in Batches(e) : \/ PutBack(e, n, armed)
                           \/ Defer(e, n, armed)
                           \/ Transmit(e, n, armed)
  BY DEF Pass
<1>1. sendWindow[q] \in Int /\ ~(sendWindow[q] < sendWindow[q])
  BY <1>0 DEF TypeOK
<1>2. Transmit(e, n, armed)
  BY <1>1 DEF PutBack, Defer
<1>3. /\ sendWindow' = [sendWindow EXCEPT ![e] = @ - BatchBytes(e, n)]
      /\ ~Exhausted(e, n)
  BY <1>2 DEF Transmit
<1>4. q = e /\ sendWindow'[e] = sendWindow[e] - BatchBytes(e, n)
  BY <1>0, <1>1, <1>3 DEF TypeOK
<1>5. BatchBytes(e, n) # 0
  BY <1>1, <1>4
<1>6. HasData(e, n)
  BY <1>0, <1>5, BatchFacts
<1> QED BY <1>1, <1>3, <1>4, <1>6 DEF Exhausted

LEMMA NextNeedsWindow ==
  IInv /\ [Next]_vars => [DebitNeedsWindow]_vars
<1> SUFFICES ASSUME IInv, Next, NEW q \in Peer, sendWindow'[q] < sendWindow[q]
             PROVE  sendWindow[q] > 0
  BY DEF DebitNeedsWindow
<1>0. sendWindow[q] \in Int /\ ~(sendWindow[q] < sendWindow[q])
  BY DEF IInv, TypeOK
<1>1. ASSUME NEW e \in Peer, SendData(e) \/ SendControl(e) \/ WindowInterval(e)
      PROVE  FALSE
  BY <1>0, <1>1 DEF SendData, SendControl, SendFrame, WindowInterval
<1>2. ASSUME NEW e \in Peer, Receive(e)
      PROVE  FALSE
  <2> DEFINE p == Other(e)
  <2>1. /\ p \in Peer /\ onWire[p] > 0 /\ TakeFrame(p)
        /\ HandleData(e, p) \/ HandleGrant(e, p) \/ HandleControl(e, p)
    BY <1>2, OtherPeer DEF Receive
  <2>2. Handled(e, p)
    BY <2>1, HandledStep
  <2>3. sendWindow'[e] >= sendWindow[e] /\ sendWindow'[p] = sendWindow[p]
        /\ sendWindow'[e] \in Int
    BY <2>2 DEF Handled
  <2>4. q = e \/ q = p
    BY PeerAssumption DEF Other, Peer
  <2> HIDE DEF p
  <2> QED BY <1>0, <2>3, <2>4
<1>3. ASSUME NEW e \in Peer, Flush(e)
      PROVE  sendWindow[q] > 0
  <2>1. timer[e] \in BOOLEAN
    BY DEF IInv, TypeOK
  <2>2. Pass(e, timer[e])
    BY <1>0, <1>3 DEF Flush
  <2> QED BY <2>1, <2>2, PassNeedsWindow
<1>4. ASSUME NEW e \in Peer, RetryTimer(e)
      PROVE  sendWindow[q] > 0
  <2>1. Pass(e, FALSE)
    BY <1>0, <1>4 DEF RetryTimer
  <2> QED BY <2>1, PassNeedsWindow
<1> QED BY <1>1, <1>2, <1>3, <1>4 DEF Next

THEOREM DataWaitsForWindow == Spec => DataNeedsWindow
<1> QED BY InvariantHolds, NextNeedsWindow, PTL DEF Spec, DataNeedsWindow

-----------------------------------------------------------------------------
(* NoLostWakeup: it is inductive on the types alone.                         *)
Awake(e) ==
  Buffered(e) > 0 /\ ~sending[e] =>
    timer[e] \/ (sendWindow[e] <= 0 /\ HasData(e, Buffered(e)))

LEMMA PassAwake ==
  ASSUME TypeOK, NEW e \in Peer, NEW armed \in BOOLEAN, Pass(e, armed)
  PROVE  Awake(e)' /\ \A q \in Peer : q # e /\ Awake(q) => Awake(q)'
<1> PICK n \in Batches(e) : \/ PutBack(e, n, armed)
                           \/ Defer(e, n, armed)
                           \/ Transmit(e, n, armed)
  BY DEF Pass
<1>1. CASE PutBack(e, n, armed)
  <2>1. /\ sendWindow[e] <= 0 /\ HasData(e, n)
        /\ UNCHANGED <<frames, onWire, sendWindow>>
        /\ \A q \in Peer : q # e => sending'[q] = sending[q] /\ timer'[q] = timer[q]
    BY <1>1 DEF PutBack, Exhausted, TypeOK
  <2>2. n <= Buffered(e) /\ n \in Nat /\ Buffered(e) \in Int /\ onWire[e] \in Nat
    BY DEF Batches, Buffered, TypeOK
  <2>3. HasData(e, Buffered(e))
    BY <2>1, <2>2 DEF HasData
  <2> QED BY <2>1, <2>3 DEF Awake, HasData, Buffered
<1>2. CASE Defer(e, n, armed)
  BY <1>2 DEF Defer, Awake, HasData, Buffered, TypeOK
<1>3. CASE Transmit(e, n, armed)
  <2>1. /\ sending'[e] = TRUE
        /\ \A q \in Peer : q # e => /\ sending'[q] = sending[q] /\ timer'[q] = timer[q]
                                    /\ sendWindow'[q] = sendWindow[q] /\ onWire'[q] = onWire[q]
        /\ frames' = frames
    BY <1>3 DEF Transmit, TypeOK
  <2> QED BY <2>1 DEF Awake, HasData, Buffered
<1> QED BY <1>1, <1>2, <1>3

LEMMA NextAwake ==
  ASSUME TypeOK, \A e \in Peer : Awake(e), [Next]_vars
  PROVE  \A e \in Peer : Awake(e)'
<1>1. ASSUME NEW e \in Peer, SendData(e) \/ SendControl(e)
      PROVE  \A q \in Peer : Awake(q)'
  <2> PICK t \in {"DATA", "CONTROL"}, b \in 0..MaxFrame : SendFrame(e, t, b)
    BY <1>1, SizeAssumption DEF SendData, SendControl
  <2>1. /\ sending'[e]
        /\ UNCHANGED <<onWire, sendWindow, timer>>
        /\ \A q \in Peer : q # e => frames'[q] = frames[q] /\ sending'[q] = sending[q]
    BY DEF SendFrame, TypeOK
  <2>2. Awake(e)'
    BY <2>1 DEF Awake
  <2>3. ASSUME NEW q \in Peer, q # e
        PROVE  Awake(q)'
    <3>1. Awake(q) /\ frames'[q] = frames[q] /\ sending'[q] = sending[q]
      BY <2>1, <2>3
    <3> QED BY <2>1, <3>1 DEF Awake, HasData, Buffered
  <2> QED BY <2>2, <2>3
<1>2. ASSUME NEW e \in Peer, Flush(e)
      PROVE  \A q \in Peer : Awake(q)'
  <2>1. CASE Buffered(e) = 0
    <3>1. /\ sending' = [sending EXCEPT ![e] = FALSE]
          /\ UNCHANGED <<frames, onWire, sendWindow, timer>>
      BY <1>2, <2>1 DEF Flush
    <3>2. Awake(e)'
      BY <2>1, <3>1 DEF Awake, Buffered
    <3>3. ASSUME NEW q \in Peer, q # e
          PROVE  Awake(q)'
      <4>1. sending'[q] = sending[q] /\ Awake(q)
        BY <3>1, <3>3 DEF TypeOK
      <4> QED BY <3>1, <4>1 DEF Awake, HasData, Buffered
    <3> QED BY <3>2, <3>3
  <2>2. CASE Buffered(e) # 0
    <3>1. Pass(e, timer[e]) /\ timer[e] \in BOOLEAN
      BY <1>2, <2>2 DEF Flush, TypeOK
    <3> QED BY <3>1, PassAwake
  <2> QED BY <2>1, <2>2
<1>3. ASSUME NEW e \in Peer, RetryTimer(e)
      PROVE  \A q \in Peer : Awake(q)'
  <2>1. CASE ~sending[e] /\ Buffered(e) > 0
    BY <1>3, <2>1, PassAwake DEF RetryTimer
  <2>2. CASE ~(~sending[e] /\ Buffered(e) > 0)
    BY <1>3, <2>2 DEF RetryTimer, Awake, HasData, Buffered, TypeOK
  <2> QED BY <2>1, <2>2
<1>4. ASSUME NEW e \in Peer, WindowInterval(e)
      PROVE  \A q \in Peer : Awake(q)'
  <2>1. /\ sending' = [sending EXCEPT ![e] = TRUE]
        /\ \A q \in Peer : q # e => frames'[q] = frames[q]
        /\ UNCHANGED <<onWire, sendWindow, timer>>
    BY <1>4 DEF WindowInterval, CheckWindow, TypeOK
  <2>2. Awake(e)'
    BY <2>1 DEF Awake, TypeOK
  <2>3. ASSUME NEW q \in Peer, q # e
        PROVE  Awake(q)'
    <3>1. Awake(q) /\ frames'[q] = frames[q] /\ sending'[q] = sending[q]
      BY <2>1, <2>3 DEF TypeOK
    <3> QED BY <2>1, <3>1 DEF Awake, HasData, Buffered
  <2> QED BY <2>2, <2>3
<1>5. ASSUME NEW e \in Peer, Receive(e)
      PROVE  \A q \in Peer : Awake(q)'
  <2> DEFINE p == Other(e)
  <2>1. p \in Peer /\ p # e /\ \A q \in Peer : q = e \/ q = p
    BY PeerAssumption DEF Other, Peer
  <2>2. /\ onWire[p] > 0 /\ TakeFrame(p)
        /\ HandleData(e, p) \/ HandleGrant(e, p) \/ HandleControl(e, p)
    BY <1>5 DEF Receive
  <2> HIDE DEF p
  <2>3. /\ onWire'[p] = onWire[p] - 1 /\ onWire'[e] = onWire[e]
        /\ timer' = timer
        /\ Rest(p)[p] = Tail(frames[p]) /\ Rest(p)[e] = frames[e]
    BY <2>1, <2>2 DEF TakeFrame, Rest, TypeOK
  <2>4. /\ frames'[p] = Tail(frames[p])
        /\ sending'[p] = sending[p] /\ sendWindow'[p] = sendWindow[p]
        /\ \/ sending'[e] = TRUE
           \/ frames'[e] = frames[e] /\ ~(Buffered(e) > 0)
           \/ /\ frames'[e] = frames[e] /\ sending'[e] = sending[e]
              /\ sendWindow'[e] = sendWindow[e]
    <3>1. CASE HandleData(e, p)
      <4>1. CASE CheckWindow(e, recvWindow[e] - PayloadSize(p, 1), Rest(p))
        BY <2>1, <2>3, <3>1, <4>1 DEF HandleData, CheckWindow, TypeOK, Rest
      <4>2. CASE frames' = Rest(p) /\ UNCHANGED <<recvWindow, sending>>
        BY <2>3, <3>1, <4>2 DEF HandleData
      <4> QED BY <3>1, <4>1, <4>2 DEF HandleData
    <3>2. CASE HandleGrant(e, p)
      <4>1. CASE Increment(p, 1) \in 1..MaxIncrement
        <5>1. /\ frames' = Rest(p)
              /\ sendWindow' = [sendWindow EXCEPT ![e] = @ + Increment(p, 1)]
              /\ sending' = [sending EXCEPT ![e] = @ \/ Buffered(e) > 0]
          BY <3>2, <4>1 DEF HandleGrant
        <5>2. sendWindow'[p] = sendWindow[p]
          BY <2>1, <5>1 DEF TypeOK
        <5>3. sending'[p] = sending[p] /\ sending'[e] = (sending[e] \/ Buffered(e) > 0)
          BY <2>1, <5>1 DEF TypeOK
        <5>4. sending'[e] \in BOOLEAN
          BY <5>3
        <5> QED BY <2>3, <5>1, <5>2, <5>3, <5>4
      <4>2. CASE ~(Increment(p, 1) \in 1..MaxIncrement)
        BY <2>3, <3>2, <4>2 DEF HandleGrant
      <4> QED BY <4>1, <4>2
    <3>3. CASE HandleControl(e, p)
      BY <2>3, <3>3 DEF HandleControl
    <3> QED BY <2>2, <3>1, <3>2, <3>3
  <2>5. Awake(e)'
    BY <2>3, <2>4 DEF Awake, HasData, Buffered
  <2>6. Awake(p)'
    <3>1. /\ frames[p] \in Seq(Frame) /\ frames[p] # << >>
          /\ onWire[p] \in Nat /\ onWire[p] <= Len(frames[p])
      BY <2>1, <2>2 DEF TypeOK
    <3>2. /\ Len(frames'[p]) = Len(frames[p]) - 1
          /\ \A i \in 1..Len(frames[p]) - 1 : frames'[p][i] = frames[p][i + 1]
      BY <2>4, <3>1
    <3>3. Buffered(p)' = Buffered(p)
      <4>1. Len(frames[p]) \in Nat
        BY <3>1
      <4>2. Len(frames'[p]) - onWire'[p] = Len(frames[p]) - onWire[p]
        BY <2>3, <3>1, <3>2, <4>1
      <4> QED BY <4>2 DEF Buffered
    <3>4. ASSUME HasData(p, Buffered(p))
          PROVE  HasData(p, Buffered(p))'
      <4>1. PICK i \in onWire[p] + 1 .. Len(frames[p]) : frames[p][i].type = "DATA"
        BY <3>1, <3>4 DEF HasData, Buffered
      <4>2. Len(frames[p]) \in Nat /\ onWire[p] \in Nat /\ onWire[p] > 0
        BY <2>2, <3>1
      <4>3. i - 1 \in onWire'[p] + 1 .. Len(frames'[p])
        BY <2>2, <2>3, <3>1, <3>2, <4>1
      <4>4. frames'[p][i - 1].type = "DATA"
        <5>1. i - 1 \in 1..Len(frames[p]) - 1 /\ i - 1 + 1 = i
          <6>1. i \in Int /\ onWire[p] + 1 <= i /\ i <= Len(frames[p])
            BY <3>1, <4>1
          <6> QED BY <4>2, <6>1
        <5> QED BY <3>2, <4>1, <5>1
      <4>5. onWire'[p] + (Len(frames'[p]) - onWire'[p]) = Len(frames'[p])
        BY <2>2, <2>3, <3>1, <3>2
      <4> QED BY <4>3, <4>4, <4>5 DEF HasData, Buffered
    <3> QED BY <2>1, <2>3, <2>4, <3>3, <3>4 DEF Awake
  <2> QED BY <2>1, <2>5, <2>6
<1>6. CASE UNCHANGED vars
  BY <1>6 DEF vars, Awake, HasData, Buffered
<1> QED BY <1>1, <1>2, <1>3, <1>4, <1>5, <1>6 DEF Next

(* A queue that is not empty always has a pass scheduled, a retry timer, or  *)
(* an exhausted window to wait for (the resume of the WINDOW_UPDATE branch,  *)
(* and the timer of the backpressure branch, are both needed for it).        *)
THEOREM WakeupNeverLost == Spec => []NoLostWakeup
<1>1. Init => \A e \in Peer : Awake(e)
  BY DEF Init, Awake, Buffered
<1>2. TypeOK /\ (\A e \in Peer : Awake(e)) /\ [Next]_vars => (\A e \in Peer : Awake(e))'
  BY NextAwake
<1>3. (\A e \in Peer : Awake(e)) => NoLostWakeup
  BY DEF Awake, NoLostWakeup
<1> QED BY <1>1, <1>2, <1>3, TypeCorrect, PTL DEF Spec

-----------------------------------------------------------------------------
(* MuxFlow implements CreditFlow, for every window, frame and batch size:    *)
(* the invariant gives the bound on a pass and, by Conservation, the room    *)
(* behind every grant.                                                       *)

(* A receiver's window never exceeds what it was configured with or what a   *)
(* check restores it to: needed to bound what its grants add up to.          *)
RecvBounded ==
  \A e \in Peer : recvWindow[e] <= Larger(InitialWindow[e], DefaultWindow)

FlowInv == IInv /\ RecvBounded

-----------------------------------------------------------------------------
LEMMA InitRecvBounded == Init => RecvBounded
  BY SizeAssumption DEF Init, RecvBounded, Larger

(* A check leaves the window it is given or restores the default.            *)
LEMMA CheckWindowBound ==
  ASSUME TypeOK, RecvBounded, NEW e \in Peer, NEW w \in Int, w <= recvWindow[e],
         NEW rest, CheckWindow(e, w, rest)
  PROVE  RecvBounded'
<1>1. recvWindow \in [Peer -> Int] /\ recvWindow[e] <= Larger(InitialWindow[e], DefaultWindow)
  BY DEF TypeOK, RecvBounded
<1>2. InitialWindow[e] \in Int /\ DefaultWindow \in Int
  BY SizeAssumption
<1>3. recvWindow' = [recvWindow EXCEPT ![e] = w] \/ recvWindow' = [recvWindow EXCEPT ![e] = w + Deficit(w)]
  BY DEF CheckWindow
<1>4. w + Deficit(w) = DefaultWindow
  BY <1>2 DEF Deficit
<1>5. recvWindow'[e] = w \/ recvWindow'[e] = DefaultWindow
  BY <1>1, <1>3, <1>4
<1>6. recvWindow'[e] <= Larger(InitialWindow[e], DefaultWindow)
  BY <1>1, <1>2, <1>5 DEF Larger
<1>7. \A q \in Peer : q # e => recvWindow'[q] = recvWindow[q]
  BY <1>1, <1>3
<1> QED BY <1>6, <1>7 DEF RecvBounded

LEMMA NextRecvBounded == FlowInv /\ [Next]_vars => RecvBounded'
<1> SUFFICES ASSUME FlowInv, [Next]_vars PROVE RecvBounded'
  OBVIOUS
<1>0. TypeOK /\ RecvBounded
  BY DEF FlowInv, IInv
<1>1. CASE UNCHANGED recvWindow
  BY <1>0, <1>1 DEF RecvBounded
<1>2. ASSUME NEW e \in Peer, WindowInterval(e)
      PROVE  RecvBounded'
  <2>1. recvWindow[e] \in Int /\ recvWindow[e] <= recvWindow[e]
    BY <1>0 DEF TypeOK
  <2> QED BY <1>0, <1>2, <2>1, CheckWindowBound DEF WindowInterval
<1>3. ASSUME NEW e \in Peer, Receive(e)
      PROVE  RecvBounded'
  <2> DEFINE p == Other(e)
  <2>1. CASE HandleData(e, p) /\ PayloadSize(p, 1) > 0
    <3>1. p \in Peer /\ 1 \in 0..Len(frames[p]) /\ 0 \in 0..Len(frames[p])
      BY <1>0, <1>3, OtherPeer DEF Receive, TypeOK
    <3>2. PayloadSize(p, 1) \in Int
      BY <1>0, <3>1, StampType DEF PayloadSize
    <3>3. recvWindow[e] \in Int
      BY <1>0 DEF TypeOK
    <3>4. CheckWindow(e, recvWindow[e] - PayloadSize(p, 1), Rest(p))
      BY <2>1 DEF HandleData
    <3> QED BY <1>0, <2>1, <3>2, <3>3, <3>4, CheckWindowBound
  <2>2. CASE UNCHANGED recvWindow
    BY <1>1, <2>2
  <2> QED BY <1>3, <2>1, <2>2 DEF Receive, HandleData, HandleGrant, HandleControl
<1>4. ASSUME NEW e \in Peer, SendData(e) \/ SendControl(e) \/ Flush(e) \/ RetryTimer(e)
      PROVE  UNCHANGED recvWindow
  BY <1>4 DEF SendData, SendControl, SendFrame, Flush, RetryTimer, Pass, PutBack, Defer, Transmit
<1> QED BY <1>1, <1>2, <1>3, <1>4 DEF Next, vars

LEMMA FlowInvHolds == Spec => []FlowInv
<1>1. Init => FlowInv
  BY InitIInv, InitRecvBounded DEF FlowInv
<1>2. FlowInv /\ [Next]_vars => FlowInv'
  BY NextIInv, NextRecvBounded DEF FlowInv
<1> QED BY <1>1, <1>2, PTL DEF Spec

-----------------------------------------------------------------------------
(* What a step does to the three totals of one direction.                    *)
Totals(q) == handled[q].data \in Nat /\ InFlight(q) \in Int /\ sendWindow[q] \in Int
Still(q) == Sent(q)' = Sent(q) /\ Arrived(q)' = Arrived(q) /\ Allowed(q)' = Allowed(q)

LEMMA TotalsAlways ==
  ASSUME TypeOK, NEW q \in Peer
  PROVE  Totals(q)
<1>1. handled[q].data \in Nat /\ sendWindow[q] \in Int
  BY DEF TypeOK
<1> QED BY <1>1, TotalsType DEF TotalsTyped, Totals

(* When no direction moves, neither does the flow.                           *)
LEMMA AllStill ==
  ASSUME \A q \in Peer : Still(q)
  PROVE  UNCHANGED Flow!flowVars
  BY DEF Still, Flow!flowVars

LEMMA SameIsStill ==
  ASSUME NEW q \in Peer, handled'[q].data = handled[q].data,
         InFlight(q)' = InFlight(q), sendWindow'[q] = sendWindow[q]
  PROVE  Still(q)
  BY DEF Still, Sent, Arrived, Allowed

LEMMA FlowStarts == Init => Flow!FlowInit
<1> SUFFICES ASSUME Init PROVE Flow!FlowInit
  OBVIOUS
<1>1. ASSUME NEW e \in Peer
      PROVE  Sent(e) = 0 /\ Arrived(e) = 0 /\ Allowed(e) = InitialWindow[e]
  <2>1. handled[e].data = 0 /\ InFlight(e) = 0 /\ sendWindow[e] = InitialWindow[e]
    BY <1>1 DEF Init, InFlight, Stamp
  <2> QED BY <2>1, SizeAssumption DEF Sent, Arrived, Allowed
<1>2. InitialWindow = [e \in Peer |-> InitialWindow[e]]
  BY SizeAssumption
<1> QED BY <1>1, <1>2 DEF Flow!FlowInit

(* A pass puts its batch back, defers it, or sends a batch with DATA from an *)
(* open window, or one without, which moves nothing.                         *)
LEMMA PassFlows ==
  ASSUME IInv, NEW e \in Peer, NEW armed \in BOOLEAN, Pass(e, armed)
  PROVE  Flow!Send(e) \/ UNCHANGED Flow!flowVars
<1>0. TypeOK /\ QueueOK(e)
  BY DEF IInv
<1> PICK n \in Batches(e) : PutBack(e, n, armed) \/ Defer(e, n, armed) \/ Transmit(e, n, armed)
  BY DEF Pass
<1>1. CASE PutBack(e, n, armed) \/ Defer(e, n, armed)
  <2>1. UNCHANGED <<frames, onWire, sendWindow, handled>>
    BY <1>1 DEF PutBack, Defer
  <2>2. \A q \in Peer : InFlight(q)' = InFlight(q)
    BY <2>1 DEF InFlight, Stamp
  <2> QED BY <2>1, <2>2, SameIsStill, AllStill
<1>2. CASE Transmit(e, n, armed)
  <2> DEFINE d == BatchBytes(e, n)
  <2>1. d \in Nat /\ d <= LargestPass /\ (~HasData(e, n) => d = 0)
    BY <1>0, BatchFacts
  <2>2. InFlight(e)' = InFlight(e) + d /\ \A q \in Peer : q # e => InFlight(q)' = InFlight(q)
    BY <1>0, <1>2, TransmitTotals
  <2>3. ~Exhausted(e, n) /\ sendWindow' = [sendWindow EXCEPT ![e] = @ - d] /\ handled' = handled
    BY <1>2 DEF Transmit
  <2> HIDE DEF d
  <2>4. Totals(e)
    BY <1>0, TotalsAlways
  <2>5. sendWindow'[e] = sendWindow[e] - d /\ \A q \in Peer : q # e => sendWindow'[q] = sendWindow[q]
    BY <1>0, <2>3 DEF TypeOK
  <2>6. \A q \in Peer : q # e => Still(q)
    BY <2>2, <2>3, <2>5, SameIsStill
  <2>7. /\ Sent(e)' = Sent(e) + d
        /\ Arrived(e)' = Arrived(e)
        /\ Allowed(e)' = Allowed(e)
    BY <2>1, <2>2, <2>3, <2>4, <2>5 DEF Sent, Arrived, Allowed, Totals
  <2>8. CASE d = 0
    <3>1. Still(e)
      BY <2>4, <2>7, <2>8 DEF Still, Sent, Totals
    <3> QED BY <2>6, <3>1, AllStill
  <2>9. CASE d # 0
    <3>1. d \in 1..LargestPass
      BY <2>1, <2>9, SizeAssumption DEF LargestPass
    <3>2. Sent(e) < Allowed(e)
      BY <2>1, <2>3, <2>4, <2>9 DEF Exhausted, Sent, Allowed, Totals
    <3>3. \A q \in Peer : Arrived(q)' = Arrived(q) /\ Allowed(q)' = Allowed(q)
      BY <2>6, <2>7 DEF Still
    <3>4. [q \in Peer |-> Sent(q)'] = [[q \in Peer |-> Sent(q)] EXCEPT ![e] = @ + d]
      BY <2>6, <2>7 DEF Still
    <3> QED BY <3>1, <3>2, <3>3, <3>4 DEF Flow!Send
  <2> QED BY <2>8, <2>9
<1> QED BY <1>1, <1>2

(* Taking DATA is an arrival; crediting a grant is an allowance, for which   *)
(* Conservation shows that there is room.                                    *)
LEMMA ReceiveFlows ==
  ASSUME FlowInv, NEW e \in Peer, Receive(e)
  PROVE  Flow!Arrive(Other(e)) \/ Flow!Allow(e) \/ UNCHANGED Flow!flowVars
<1> DEFINE p == Other(e)
<1>1. p \in Peer /\ p # e /\ Other(p) = e /\ \A q \in Peer : q = e \/ q = p
  BY PeerAssumption DEF Other, Peer
<1>2. /\ onWire[p] > 0 /\ TakeFrame(p)
      /\ HandleData(e, p) \/ HandleGrant(e, p) \/ HandleControl(e, p)
  BY DEF Receive
<1> DEFINE size == PayloadSize(p, 1)
           inc == Increment(p, 1)
           n == Len(frames[p])
           o == onWire[p]
<1>3. TypeOK /\ IInv /\ QueueOK(p)
  BY <1>1 DEF FlowInv, IInv
<1>4. Handled(e, p)
  BY <1>1, <1>2, <1>3, HandledStep
<1>5. /\ 1 \in 1..n /\ 1 \in 0..n /\ o \in 0..n /\ n \in 0..n /\ 1 <= o /\ 1 <= n
      /\ frames[p][1] \in Frame
  BY <1>1, <1>2, <1>3 DEF TypeOK
<1>6. /\ handled'[p] = Stamp(p, 1) /\ handled'[e] = handled[e]
      /\ onWire'[p] = o - 1 /\ onWire'[e] = onWire[e]
      /\ Shrink(p)
  BY <1>1, <1>2, <1>3, <1>4, <1>5 DEF TakeFrame, TypeOK, Shrink, Handled
<1>7. /\ \A i \in {0, 1, o, n} : Stamp(p, i).data \in Nat /\ Stamp(p, i).credit \in Nat
      /\ Stamp(p, 0) = handled[p]
      /\ Stamp(p, 1).data <= Stamp(p, o).data
      /\ Stamp(p, 1).credit <= Stamp(p, n).credit
  <2>1. Ordered(p, 1, o) /\ Ordered(p, 1, n)
    BY <1>3, <1>5 DEF QueueOK
  <2>2. \A i \in {0, 1, o, n} : Stamp(p, i).data \in Nat /\ Stamp(p, i).credit \in Nat
    BY <1>1, <1>3, <1>5, StampType
  <2> QED BY <2>1, <2>2 DEF Ordered, Stamp
<1>8. /\ size = Stamp(p, 1).data - handled[p].data
      /\ inc = Stamp(p, 1).credit - handled[p].credit
      /\ InFlight(p) = Stamp(p, o).data - handled[p].data
      /\ Granting(p) = Stamp(p, n).credit - handled[p].credit
  BY <1>7 DEF PayloadSize, Increment, InFlight, Granting, Last
<1>9. size \in Int /\ inc \in Int /\ size <= InFlight(p) /\ inc <= Granting(p)
  BY <1>7, <1>8
<1>10. \/ size \in Nat /\ inc = 0
       \/ size = 0 /\ inc \in Nat \ {0}
  BY <1>3, <1>5, <1>9, SizeAssumption DEF QueueOK, FrameWellFormed, Frame, FrameType
<1>11. /\ InFlight(p)' = InFlight(p) - size
       /\ InFlight(e)' = InFlight(e)
       /\ sendWindow'[p] = sendWindow[p] /\ sendWindow'[e] = sendWindow[e] + inc
  BY <1>1, <1>2, <1>3, <1>4, <1>6, ShrinkTotals DEF Handled
<1>12. Totals(p) /\ Totals(e)
  BY <1>1, <1>3, TotalsAlways
<1> HIDE DEF p, size, inc, n, o
<1>13. Sent(p)' = Sent(p) /\ Arrived(p)' = Arrived(p) + size /\ Allowed(p)' = Allowed(p)
  BY <1>6, <1>7, <1>8, <1>9, <1>11, <1>12 DEF Sent, Arrived, Allowed, Totals
<1>14. Sent(e)' = Sent(e) /\ Arrived(e)' = Arrived(e) /\ Allowed(e)' = Allowed(e) + inc
  BY <1>6, <1>9, <1>11, <1>12 DEF Sent, Arrived, Allowed, Totals
<1>15. Sent(p) \in Int /\ Arrived(p) \in Int /\ Allowed(e) \in Int /\ Arrived(e) \in Int
  BY <1>12 DEF Sent, Arrived, Allowed, Totals
<1>16. CASE size = 0 /\ inc = 0
  <2>1. Still(e) /\ Still(p)
    BY <1>13, <1>14, <1>15, <1>16 DEF Still
  <2> QED BY <1>1, <2>1, AllStill
<1>17. CASE size \in Nat \ {0} /\ inc = 0
  <2>1. Arrived(p) + size \in Arrived(p) + 1 .. Sent(p)
    BY <1>9, <1>12, <1>15, <1>17 DEF Sent, Arrived, Totals
  <2>2. Allowed(e)' = Allowed(e)
    BY <1>14, <1>15, <1>17
  <2>3. \A q \in Peer : Sent(q)' = Sent(q) /\ Allowed(q)' = Allowed(q)
    BY <1>1, <1>13, <1>14, <2>2
  <2>4. [q \in Peer |-> Arrived(q)'] = [[q \in Peer |-> Arrived(q)] EXCEPT ![p] = Arrived(p) + size]
    BY <1>1, <1>13, <1>14
  <2>5. Flow!Arrive(p)
    BY <1>1, <2>1, <2>3, <2>4 DEF Flow!Arrive
  <2> QED BY <2>5 DEF p
<1>18. CASE size = 0 /\ inc \in Nat \ {0}
  <2>1. Allowed(e) + inc <= Arrived(e) + Room(e)
    <3>1. Balance(e, p) /\ BalanceTyped(e, p)
      BY <1>1, <1>3, ConservationIsBalance, BalanceType DEF IInv, p
    <3>2. Room(e) = Larger(InitialWindow[p], DefaultWindow) + InitialWindow[e] - InitialWindow[p]
      BY DEF Room, p
    <3>3. recvWindow[p] <= Larger(InitialWindow[p], DefaultWindow)
      BY <1>1 DEF FlowInv, RecvBounded
    <3>4. Larger(InitialWindow[p], DefaultWindow) \in Int
      BY <1>1, SizeAssumption DEF Larger
    <3> QED BY <1>9, <1>12, <1>18, <3>1, <3>2, <3>3, <3>4
            DEF Balance, BalanceTyped, Totals, Sent, Arrived, Allowed
  <2>2. Room(e) \in Int
    BY <1>1, SizeAssumption DEF Room, Larger, p
  <2>3. Allowed(e) + inc \in Allowed(e) + 1 .. Arrived(e) + Room(e)
    BY <1>15, <1>18, <2>1, <2>2
  <2>4. Arrived(p)' = Arrived(p)
    BY <1>13, <1>15, <1>18
  <2>5. \A q \in Peer : Sent(q)' = Sent(q) /\ Arrived(q)' = Arrived(q)
    BY <1>1, <1>13, <1>14, <2>4
  <2>6. [q \in Peer |-> Allowed(q)'] = [[q \in Peer |-> Allowed(q)] EXCEPT ![e] = Allowed(e) + inc]
    BY <1>1, <1>13, <1>14
  <2>7. Flow!Allow(e)
    BY <2>3, <2>5, <2>6 DEF Flow!Allow
  <2> QED BY <2>7
<1> QED BY <1>10, <1>16, <1>17, <1>18

LEMMA StepFlows == FlowInv /\ [Next]_vars => [Flow!FlowNext]_Flow!flowVars
<1> SUFFICES ASSUME FlowInv, [Next]_vars
             PROVE  Flow!FlowNext \/ UNCHANGED Flow!flowVars
  BY DEF Flow!FlowNext, Flow!flowVars
<1>0. IInv /\ TypeOK
  BY DEF FlowInv, IInv
<1>1. ASSUME \A q \in Peer : InFlight(q)' = InFlight(q), UNCHANGED <<handled, sendWindow>>
      PROVE  UNCHANGED Flow!flowVars
  BY <1>1, SameIsStill, AllStill
<1>2. ASSUME NEW e \in Peer, SendData(e) \/ SendControl(e)
      PROVE  UNCHANGED Flow!flowVars
  <2> PICK t \in FrameType, b \in Nat : SendFrame(e, t, b)
    BY <1>2, SizeAssumption DEF SendData, SendControl, FrameType
  <2> DEFINE f == NewFrame(e, t, b, 0)
  <2>1. f \in Frame
    BY <1>0, NewFrameType
  <2>2. frames' = [frames EXCEPT ![e] = Append(@, f)] /\ UNCHANGED <<onWire, sendWindow, handled>>
    BY DEF SendFrame
  <2> HIDE DEF f
  <2>3. Grow(e, f) /\ \A q \in Peer : q # e => Same(q)
    BY <1>0, <2>2 DEF Grow, Same, TypeOK
  <2>4. \A q \in Peer : InFlight(q)' = InFlight(q)
    BY <1>0, <2>1, <2>2, <2>3, GrowTotals, SameTotals
  <2> QED BY <1>1, <2>2, <2>4
<1>3. ASSUME NEW e \in Peer, WindowInterval(e)
      PROVE  UNCHANGED Flow!flowVars
  <2>1. CheckWindow(e, recvWindow[e], frames) /\ UNCHANGED <<onWire, sendWindow, handled>>
    BY <1>3 DEF WindowInterval
  <2>2. /\ recvWindow[e] \in Int /\ recvWindow[e] + MaxFrame >= 0
        /\ frames \in [Peer -> Seq(Frame)] /\ QueueOK(e)
    BY <1>0, SizeAssumption DEF IInv, WindowsOK, TypeOK
  <2>3. InFlight(e)' = InFlight(e) /\ \A q \in Peer : q # e => frames'[q] = frames[q]
    BY <1>0, <2>1, <2>2, CheckWindowStep
  <2>4. \A q \in Peer : InFlight(q)' = InFlight(q)
    BY <2>1, <2>3, SameTotals DEF Same
  <2> QED BY <1>1, <2>1, <2>4
<1>4. ASSUME NEW e \in Peer, Flush(e) \/ RetryTimer(e)
      PROVE  Flow!Send(e) \/ UNCHANGED Flow!flowVars
  <2>1. CASE UNCHANGED <<frames, onWire, sendWindow, handled>>
    <3>1. \A q \in Peer : InFlight(q)' = InFlight(q)
      BY <2>1 DEF InFlight, Stamp
    <3> QED BY <1>1, <2>1, <3>1
  <2>2. CASE Pass(e, timer[e]) \/ Pass(e, FALSE)
    <3>1. timer[e] \in BOOLEAN
      BY <1>0 DEF TypeOK
    <3> QED BY <1>0, <2>2, <3>1, PassFlows
  <2> QED BY <1>4, <2>1, <2>2 DEF Flush, RetryTimer
<1>5. ASSUME NEW e \in Peer, Receive(e)
      PROVE  Flow!FlowNext \/ UNCHANGED Flow!flowVars
  BY <1>5, ReceiveFlows, OtherPeer DEF Flow!FlowNext
<1>6. CASE UNCHANGED vars
  <2>1. \A q \in Peer : InFlight(q)' = InFlight(q)
    BY <1>6 DEF vars, InFlight, Stamp
  <2> QED BY <1>1, <1>6, <2>1 DEF vars
<1> QED BY <1>2, <1>3, <1>4, <1>5, <1>6 DEF Next, Flow!FlowNext

(* ImplementsCreditFlow: the multiplexer's windows, batches, deferrals and   *)
(* grants are a credit-based flow control with room for the larger window,   *)
(* overdrawn by one pass at most (_flushSendBuffer, _checkConnectionWindow). *)
THEOREM CreditFlowImplemented == Spec => ImplementsCreditFlow
<1> QED BY FlowInvHolds, FlowStarts, StepFlows, PTL DEF Spec, ImplementsCreditFlow, Flow!FlowSpec
=============================================================================
