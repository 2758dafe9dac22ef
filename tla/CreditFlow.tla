----------------------------- MODULE CreditFlow -----------------------------
(* What the connection's flow control promises, whatever frames, batches,    *)
(* timers and sockets it is made of: a sender spends credit it was given,    *)
(* overdrawing it by one pass at most; what it sent arrives in order, in     *)
(* pieces; and the receiver gives credit only for room it has.               *)
EXTENDS Integers

CONSTANTS
  Sender,     \* the ends that send
  Credit,     \* [Sender -> Nat]: the bytes each may send at first
  Capacity,   \* [Sender -> Nat]: the bytes its receiver has room for
  Overdraft   \* the bytes one pass may send

VARIABLES
  sent,       \* sent[e]: the bytes e has sent
  arrived,    \* arrived[e]: those its receiver has taken
  allowed     \* allowed[e]: the bytes e may send in all

flowVars == <<sent, arrived, allowed>>

FlowInit ==
  /\ sent = [e \in Sender |-> 0]
  /\ arrived = [e \in Sender |-> 0]
  /\ allowed = Credit

Send(e) ==
  /\ sent[e] < allowed[e]
  /\ \E n \in 1..Overdraft : sent' = [sent EXCEPT ![e] = @ + n]
  /\ UNCHANGED <<arrived, allowed>>

Arrive(e) ==
  /\ \E n \in arrived[e] + 1 .. sent[e] : arrived' = [arrived EXCEPT ![e] = n]
  /\ UNCHANGED <<sent, allowed>>

Allow(e) ==
  /\ \E n \in allowed[e] + 1 .. arrived[e] + Capacity[e] : allowed' = [allowed EXCEPT ![e] = n]
  /\ UNCHANGED <<sent, arrived>>

FlowNext == \E e \in Sender : Send(e) \/ Arrive(e) \/ Allow(e)

FlowSpec == FlowInit /\ [][FlowNext]_flowVars
=============================================================================
