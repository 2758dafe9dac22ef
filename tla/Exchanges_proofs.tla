-------------------------- MODULE Exchanges_proofs --------------------------
(* What passes between server, node and target outside the multiplexed       *)
(* streams, for any number of associations, relays, requests, nodes, targets *)
(* and hops: types, that nothing crosses over in a relay, that the books of  *)
(* admission agree, and that what is reported is true.  One inductive        *)
(* invariant for each part; the parts share no state.                        *)
EXTENDS MCExchanges, FiniteSetTheorems, SequenceTheorems, TLAPS

----------------------------------------------------------------------------
(* Handshakes.  What the application was told while the socket is open       *)
(* follows from the parser's state; where the server has ended it, the       *)
(* message that is to be read next is the one that was refused.              *)
Introduced == IF dialogue.enabled THEN <<"password", "accepted">> ELSE <<"none">>
Dismissed(reply) == IF dialogue.enabled THEN <<"password", "accepted", reply>> ELSE <<"none", reply>>
Unwelcome == ~dialogue.version \/ (dialogue.enabled /\ "password" \notin dialogue.methods)
Unfit == ~dialogue.requestVersion \/ dialogue.address = "other" \/ dialogue.command = "bind"

Telling ==
  CASE state = "greeting" -> told = << >>
    [] state = "auth_sub" -> told = <<"password">> /\ dialogue.enabled /\ "password" \in dialogue.methods
    [] OTHER -> told = Introduced

Refusal ==
  CASE state = "greeting" -> Unwelcome /\ told \in {<< >>, <<"no method">>}
    [] state = "auth_sub" -> /\ told \in {<<"password">>, <<"password", "denied">>}
                             /\ dialogue.enabled /\ "password" \in dialogue.methods
    [] state = "request" -> Unfit /\ told \in {Introduced, Dismissed("no address"), Dismissed("no command")}
    [] OTHER -> told = Introduced

(* Where the message starts that is to be read next.                         *)
Reached ==
  CASE state = "greeting" -> 0
    [] state = "auth_sub" -> GreetingLength
    [] OTHER -> GreetingLength + IF dialogue.enabled THEN CredentialsLength ELSE 0

Tellings ==
  {<< >>, <<"no method">>, <<"none">>, <<"none", "no address">>, <<"none", "no command">>,
   <<"password">>, <<"password", "denied">>, <<"password", "accepted">>,
   <<"password", "accepted", "no address">>, <<"password", "accepted", "no command">>}

HandshakeKinds ==
  /\ dialogue \in Dialogues /\ spoken \in [bytes : Nat, fin : BOOLEAN]
  /\ state \in {"greeting", "auth_sub", "request", "tunnel", "udp"} /\ start \in Nat
  /\ connection \in {"open", "ended", "closed"} /\ told \in Tellings

HandshakeInv ==
  /\ HandshakeKinds
  /\ connection = "open" => Telling
  /\ connection = "ended" => Refusal
  /\ state \in {"tunnel", "udp"} => told = Introduced
  /\ state \notin {"tunnel", "udp"} /\ connection # "closed" => start = Reached
  /\ state \notin {"tunnel", "udp"} /\ connection = "open" /\ ~dialogue.eager => Held(0) < Awaited

LEMMA AppendedAt ==
  ASSUME NEW S, NEW s \in Seq(S), NEW e \in S
  PROVE  /\ Append(s, e) \in Seq(S) /\ Len(Append(s, e)) = Len(s) + 1 /\ Append(s, e)[Len(s) + 1] = e
         /\ Len(s) >= 1 => Append(s, e)[1] = s[1]
         /\ Len(s) >= 2 => Append(s, e)[2] = s[2]
BY AppendProperties

LEMMA Tuples ==
  ASSUME NEW S, NEW s \in Seq(S)
  PROVE  /\ Len(s) = 1 => s = <<s[1]>>
         /\ Len(s) = 2 => s = <<s[1], s[2]>>
         /\ Len(s) = 3 => s = <<s[1], s[2], s[3]>>
OBVIOUS

LEMMA AppendToNone == ASSUME NEW a PROVE Append(<< >>, a) = <<a>>
OBVIOUS

LEMMA AppendToOne ==
  ASSUME NEW a, NEW b
  PROVE  Append(<<a>>, b) = <<a, b>>
<1> DEFINE S == {a, b}
           s == <<a>>
           t == Append(s, b)
<1>1. s \in Seq(S) /\ Len(s) = 1 /\ s[1] = a /\ b \in S
  OBVIOUS
<1> HIDE DEF S, s
<1>2. t \in Seq(S) /\ Len(t) = 2 /\ t[2] = b /\ t[1] = a
  BY SMTT(30), <1>1, AppendedAt
<1> HIDE DEF t
<1>3. t = <<a, b>>
  BY <1>2, Tuples
<1>4. QED
  BY <1>3 DEF s, t

LEMMA AppendToTwo ==
  ASSUME NEW a, NEW b, NEW c
  PROVE  Append(<<a, b>>, c) = <<a, b, c>>
<1> DEFINE S == {a, b, c}
           s == <<a, b>>
           t == Append(s, c)
<1>1. s \in Seq(S) /\ Len(s) = 2 /\ s[1] = a /\ s[2] = b /\ c \in S
  OBVIOUS
<1> HIDE DEF S, s
<1>2. t \in Seq(S) /\ Len(t) = 3 /\ t[3] = c /\ t[1] = a /\ t[2] = b
  BY <1>1, AppendedAt
<1> HIDE DEF t
<1>3. t = <<a, b, c>>
  BY <1>2, Tuples
<1>4. QED
  BY <1>3 DEF s, t

LEMMA Injective ==
  /\ IsInjective(<< >>)
  /\ \A a : IsInjective(<<a>>)
  /\ \A a, b : a # b => IsInjective(<<a, b>>)
  /\ \A a, b, c : a # b /\ a # c /\ b # c => IsInjective(<<a, b, c>>)
<1>1. IsInjective(<< >>)
  BY DEF IsInjective
<1>2. ASSUME NEW a PROVE IsInjective(<<a>>)
  BY DEF IsInjective
<1>3. ASSUME NEW a, NEW b, a # b PROVE IsInjective(<<a, b>>)
  <2>1. DOMAIN <<a, b>> = {1, 2} /\ <<a, b>>[1] = a /\ <<a, b>>[2] = b
    OBVIOUS
  <2>2. QED
    BY <1>3, <2>1 DEF IsInjective
<1>4. ASSUME NEW a, NEW b, NEW c, a # b, a # c, b # c
      PROVE  IsInjective(<<a, b, c>>)
  <2>1. DOMAIN <<a, b, c>> = {1, 2, 3} /\ <<a, b, c>>[1] = a /\ <<a, b, c>>[2] = b /\ <<a, b, c>>[3] = c
    OBVIOUS
  <2>2. QED
    BY <1>4, <2>1 DEF IsInjective
<1>5. QED
  BY <1>1, <1>2, <1>3, <1>4

LEMMA TellingsTyped ==
  ASSUME NEW s \in Tellings
  PROVE  /\ s \in Seq({"none", "password", "no method", "accepted", "denied", "no address", "no command"})
         /\ IsInjective(s)
<1> DEFINE R == {"none", "password", "no method", "accepted", "denied", "no address", "no command"}
<1> HIDE DEF R
<1>1. ASSUME s = << >> PROVE s \in Seq(R) /\ IsInjective(s)
  BY <1>1, Injective
<1>2. ASSUME NEW a \in R, s = <<a>> PROVE s \in Seq(R) /\ IsInjective(s)
  BY <1>2, Injective
<1>3. ASSUME NEW a \in R, NEW b \in R, a # b, s = <<a, b>> PROVE s \in Seq(R) /\ IsInjective(s)
  BY <1>3, Injective
<1>4. ASSUME NEW a \in R, NEW b \in R, NEW c \in R, a # b, a # c, b # c, s = <<a, b, c>>
      PROVE  s \in Seq(R) /\ IsInjective(s)
  BY <1>4, Injective
<1>5. \/ s = << >>
      \/ \E a \in R : s = <<a>>
      \/ \E a, b \in R : a # b /\ s = <<a, b>>
      \/ \E a, b, c \in R : a # b /\ a # c /\ b # c /\ s = <<a, b, c>>
  BY DEF Tellings, R
<1>6. s \in Seq(R) /\ IsInjective(s)
  BY <1>1, <1>2, <1>3, <1>4, <1>5
<1>7. QED
  BY <1>6 DEF R

LEMMA ToSets ==
  /\ ToSet(<< >>) = {}
  /\ \A a : ToSet(<<a>>) = {a}
  /\ \A a, b : ToSet(<<a, b>>) = {a, b}
  /\ \A a, b, c : ToSet(<<a, b, c>>) = {a, b, c}
<1>1. ToSet(<< >>) = {}
  BY DEF ToSet
<1>2. \A a : ToSet(<<a>>) = {a}
  BY DEF ToSet
<1>3. ASSUME NEW a, NEW b PROVE ToSet(<<a, b>>) = {a, b}
  <2>1. DOMAIN <<a, b>> = {1, 2} /\ <<a, b>>[1] = a /\ <<a, b>>[2] = b
    OBVIOUS
  <2>2. QED
    BY <2>1 DEF ToSet
<1>4. ASSUME NEW a, NEW b, NEW c PROVE ToSet(<<a, b, c>>) = {a, b, c}
  <2>1. DOMAIN <<a, b, c>> = {1, 2, 3} /\ <<a, b, c>>[1] = a /\ <<a, b, c>>[2] = b /\ <<a, b, c>>[3] = c
    OBVIOUS
  <2>2. QED
    BY <2>1 DEF ToSet
<1>5. QED
  BY <1>1, <1>2, <1>3, <1>4

LEMMA LengthsTyped ==
  ASSUME HandshakeKinds
  PROVE  /\ GreetingLength \in Nat /\ CredentialsLength \in Nat /\ RequestLength \in Nat
         /\ GreetingLength > 0 /\ CredentialsLength > 0 /\ RequestLength > 5
<1>1. dialogue \in Dialogue
  BY HandshakeAssumption DEF HandshakeKinds
<1>2. AddressLength \in Nat
  BY <1>1 DEF Dialogue, AddressLength
<1>3. IsFiniteSet(dialogue.methods)
  <2>1. IsFiniteSet({"none", "password"})
    <3>1. IsFiniteSet({"none"})
      BY FS_Singleton
    <3>2. IsFiniteSet({"none"} \cup {"password"})
      BY <3>1, FS_AddElement
    <3>3. {"none"} \cup {"password"} = {"none", "password"}
      OBVIOUS
    <3>4. QED
      BY <3>2, <3>3
  <2>2. QED
    BY <1>1, <2>1, FS_Subset DEF Dialogue
<1>4. Cardinality(dialogue.methods) \in Nat
  BY <1>3, FS_CardinalityType
<1>5. QED
  BY <1>1, <1>2, <1>4 DEF GreetingLength, CredentialsLength, RequestLength, Dialogue

LEMMA HandshakeStarts == HandshakeInit => HandshakeInv
<1> SUFFICES ASSUME HandshakeInit PROVE HandshakeInv
  OBVIOUS
<1>1. HandshakeKinds
  BY DEF HandshakeInit, HandshakeKinds, Tellings
<1>2. GreetingLength > 0 /\ GreetingLength \in Nat
  BY <1>1, LengthsTyped
<1>3. QED
  BY <1>1, <1>2 DEF HandshakeInit, HandshakeInv, Telling, Refusal, Reached, Held, Awaited

(* What was said, of each thing that may have been said.                     *)
LEMMA HeardIn ==
  ASSUME NEW x
  PROVE  /\ told = << >> => ~Heard(x)
         /\ told = <<"password">> => (Heard(x) <=> x = "password")
         /\ told = <<"password", "denied">> => (Heard(x) <=> x \in {"password", "denied"})
         /\ told = <<"none">> => (Heard(x) <=> x = "none")
         /\ told = <<"password", "accepted">> => (Heard(x) <=> x \in {"password", "accepted"})
         /\ \A y : told = <<"none", y>> => (Heard(x) <=> x \in {"none", y})
         /\ \A y : told = <<"password", "accepted", y>> => (Heard(x) <=> x \in {"password", "accepted", y})
BY ToSets DEF Heard

LEMMA IntroducedHeard ==
  ASSUME told \in {Introduced, Dismissed("no address"), Dismissed("no command")},
         dialogue.enabled \in BOOLEAN
  PROVE  Heard("password") <=> dialogue.enabled
<1>1. CASE dialogue.enabled
  <2>1. Introduced = <<"password", "accepted">>
    BY <1>1 DEF Introduced
  <2>2. \A y : Dismissed(y) = <<"password", "accepted", y>>
    BY <1>1 DEF Dismissed
  <2>3. QED
    BY <1>1, <2>1, <2>2, HeardIn
<1>2. CASE ~dialogue.enabled
  <2>1. Introduced = <<"none">>
    BY <1>2 DEF Introduced
  <2>2. \A y : Dismissed(y) = <<"none", y>>
    BY <1>2 DEF Dismissed
  <2>3. told = <<"none">> \/ told = <<"none", "no address">> \/ told = <<"none", "no command">>
    BY <2>1, <2>2
  <2>4. ~Heard("password")
    BY <2>3, HeardIn
  <2>5. QED
    BY <1>2, <2>4
<1>3. QED
  BY <1>1, <1>2

LEMMA ReachedIsBoundary ==
  ASSUME HandshakeInv, connection # "closed", state \notin {"tunnel", "udp"}
  PROVE  Reached = Boundary
<1>1. dialogue.enabled \in BOOLEAN
  BY HandshakeAssumption DEF HandshakeInv, HandshakeKinds, Dialogue
<1>2. GreetingLength \in Nat /\ CredentialsLength \in Nat
  BY LengthsTyped DEF HandshakeInv
<1>3. CASE state = "request"
  <2>1. told \in {Introduced, Dismissed("no address"), Dismissed("no command")}
    BY <1>3 DEF HandshakeInv, HandshakeKinds, Telling, Refusal
  <2>2. Heard("password") <=> dialogue.enabled
    BY <1>1, <2>1, IntroducedHeard
  <2>3. QED
    BY <1>2, <1>3, <2>2 DEF Reached, Boundary
<1>4. CASE state \in {"greeting", "auth_sub"}
  BY <1>4 DEF Reached, Boundary
<1>5. QED
  BY <1>3, <1>4 DEF HandshakeInv, HandshakeKinds

(* How far an application may have gone that waits its turn.                 *)
LEMMA TurnOf ==
  ASSUME HandshakeInv, connection = "open", ~dialogue.eager, NEW n \in 1..(Turn - spoken.bytes)
  PROVE  /\ state = "greeting" => spoken.bytes + n <= GreetingLength
         /\ state = "auth_sub" => spoken.bytes + n <= GreetingLength + CredentialsLength
<1>1. GreetingLength \in Nat /\ CredentialsLength \in Nat /\ RequestLength \in Nat /\ spoken.bytes \in Nat
  BY LengthsTyped DEF HandshakeInv, HandshakeKinds
<1>2. CASE state = "greeting"
  <2>1. Turn = GreetingLength
    BY <1>2, HeardIn DEF HandshakeInv, Telling, Turn
  <2>2. QED
    BY <1>1, <1>2, <2>1
<1>3. CASE state = "auth_sub"
  <2>1. Turn = GreetingLength + CredentialsLength
    BY <1>3, HeardIn DEF HandshakeInv, Telling, Turn
  <2>2. QED
    BY <1>1, <1>3, <2>1
<1>4. QED
  BY <1>2, <1>3

LEMMA Spoken ==
  ASSUME HandshakeKinds, NEW n \in Nat, spoken' = [spoken EXCEPT !.bytes = @ + n]
  PROVE  spoken' \in [bytes : Nat, fin : BOOLEAN] /\ spoken'.bytes = spoken.bytes + n /\ spoken.bytes \in Nat
BY DEF HandshakeKinds

(* A chunk that leaves the message incomplete changes nothing else.          *)
LEMMA Incomplete ==
  ASSUME HandshakeInv, NEW n \in Nat, Held(n) < Awaited, Keeps, UNCHANGED <<connection, told, dialogue>>,
         spoken' = [spoken EXCEPT !.bytes = @ + n]
  PROVE  HandshakeInv'
<1>1. HandshakeKinds' /\ spoken'.bytes = spoken.bytes + n /\ spoken.bytes \in Nat
  BY DEF HandshakeInv, HandshakeKinds, Keeps
<1>2. Telling' = Telling /\ Refusal' = Refusal /\ Reached' = Reached /\ Introduced' = Introduced
      /\ Awaited' = Awaited
  BY DEF Telling, Refusal, Reached, Introduced, Unwelcome, Unfit, Keeps, GreetingLength, CredentialsLength,
         Awaited, RequestLength, AddressLength
<1>3. start' = start /\ start \in Nat /\ state' = state /\ connection' = connection /\ told' = told
  BY DEF Keeps, HandshakeInv, HandshakeKinds
<1>4. Held(0)' = Held(n)
  BY <1>1, <1>3 DEF Held
<1>5. QED
  BY <1>1, <1>2, <1>3, <1>4 DEF HandshakeInv

(* A message that is refused: the socket is ended, with a reply or without,  *)
(* or destroyed where it was ended before.                                   *)
LEMMA Refused ==
  ASSUME HandshakeInv, NEW n \in Nat, Keeps, UNCHANGED dialogue, spoken' = [spoken EXCEPT !.bytes = @ + n],
         state \in {"greeting", "auth_sub", "request"}, connection # "closed",
         state = "greeting" => Unwelcome, state = "request" => Unfit,
         NEW reply, EndsSilently \/ Refuses(reply),
         CASE state = "greeting" -> reply = "no method"
           [] state = "auth_sub" -> reply = "denied"
           [] OTHER -> reply \in {"no address", "no command"}
  PROVE  HandshakeInv'
<1>1. spoken' \in [bytes : Nat, fin : BOOLEAN]
  BY Spoken DEF HandshakeInv
<1>2. /\ Introduced' = Introduced /\ Unwelcome' = Unwelcome /\ Unfit' = Unfit /\ Reached' = Reached
      /\ \A r : Dismissed(r)' = Dismissed(r)
  BY DEF Reached, Introduced, Dismissed, Unwelcome, Unfit, Keeps, GreetingLength, CredentialsLength
<1>3. start' = start /\ start \in Nat /\ state' = state /\ dialogue' = dialogue /\ dialogue \in Dialogues
  BY DEF Keeps, HandshakeInv, HandshakeKinds
<1>4. connection' \in {"ended", "closed"} /\ connection \in {"open", "ended"}
  BY DEF EndsSilently, Refuses, Writes, HandshakeInv, HandshakeKinds
<1>5. told' = told \/ (connection = "open" /\ told' = Append(told, reply))
  BY DEF EndsSilently, Refuses, Writes
<1>6. (connection = "open" => Telling) /\ (connection = "ended" => Refusal)
  BY DEF HandshakeInv
<1>7. CASE state = "greeting"
  <2>1. told' \in {<< >>, <<"no method">>}
    BY <1>4, <1>5, <1>6, <1>7, AppendToNone DEF Telling, Refusal
  <2>2. QED
    BY <1>1, <1>2, <1>3, <1>4, <1>7, <2>1 DEF HandshakeInv, HandshakeKinds, Refusal, Tellings
<1>8. CASE state = "auth_sub"
  <2>1. told' \in {<<"password">>, <<"password", "denied">>}
    BY <1>4, <1>5, <1>6, <1>8, AppendToOne DEF Telling, Refusal
  <2>2. dialogue.enabled /\ "password" \in dialogue.methods
    BY <1>4, <1>6, <1>8 DEF Telling, Refusal
  <2>3. QED
    BY <1>1, <1>2, <1>3, <1>4, <1>8, <2>1, <2>2 DEF HandshakeInv, HandshakeKinds, Refusal, Tellings
<1>9. CASE state = "request"
  <2>1. Append(Introduced, reply) = Dismissed(reply)
    BY AppendToOne, AppendToTwo DEF Introduced, Dismissed
  <2>2. told' \in {Introduced, Dismissed("no address"), Dismissed("no command")}
    BY <1>4, <1>5, <1>6, <1>9, <2>1 DEF Telling, Refusal
  <2>3. told' \in Tellings
    BY <2>2 DEF Introduced, Dismissed, Tellings
  <2>4. QED
    BY <1>1, <1>2, <1>3, <1>4, <1>9, <2>2, <2>3 DEF HandshakeInv, HandshakeKinds, Refusal
<1>10. QED
  BY <1>7, <1>8, <1>9

(* The lengths and the turns are the dialogue's.                             *)
LEMMA DialogueFixed ==
  ASSUME UNCHANGED dialogue
  PROVE  /\ GreetingLength' = GreetingLength /\ CredentialsLength' = CredentialsLength
         /\ RequestLength' = RequestLength /\ AddressLength' = AddressLength /\ Introduced' = Introduced
BY DEF GreetingLength, CredentialsLength, RequestLength, AddressLength, Introduced

LEMMA GreetingRead ==
  ASSUME HandshakeInv, NEW n \in 1..(Turn - spoken.bytes), connection # "closed", ReadGreeting(n),
         UNCHANGED dialogue, spoken' = [spoken EXCEPT !.bytes = @ + n]
  PROVE  HandshakeInv'
<1> DEFINE b == spoken.bytes
<1>1. /\ HandshakeKinds /\ n \in Nat /\ state = "greeting" /\ dialogue \in Dialogues
      /\ connection \in {"open", "ended"} /\ start = 0
  <2>1. HandshakeKinds /\ state = "greeting" /\ (state \notin {"tunnel", "udp"} => start = Reached)
    BY DEF HandshakeInv, ReadGreeting
  <2>2. n \in Nat
    OBVIOUS
  <2>3. QED
    BY <2>1, <2>2 DEF HandshakeKinds, Reached
<1>2. GreetingLength \in Nat /\ CredentialsLength \in Nat /\ RequestLength \in Nat /\ b \in Nat
  BY <1>1, LengthsTyped DEF HandshakeKinds
<1>3. spoken' \in [bytes : Nat, fin : BOOLEAN] /\ spoken'.bytes = b + n
  BY <1>1, Spoken
<1>4. dialogue.eager \in BOOLEAN /\ dialogue.enabled \in BOOLEAN /\ dialogue.version \in BOOLEAN
      /\ (dialogue.eager => "password" \notin dialogue.methods)
  BY <1>1, HandshakeAssumption DEF Dialogue
<1>5. connection = "ended" => Unwelcome
  BY <1>1 DEF HandshakeInv, Refusal
<1>6. CASE Held(n) < GreetingLength /\ Keeps /\ UNCHANGED <<connection, told>>
  BY <1>1, <1>6, Incomplete DEF Awaited
<1>7. CASE ~dialogue.version /\ EndsSilently /\ Keeps
  BY <1>1, <1>7, Refused DEF Unwelcome
<1>8. CASE dialogue.enabled /\ "password" \notin dialogue.methods /\ Refuses("no method") /\ Keeps
  BY <1>1, <1>8, Refused DEF Unwelcome
<1>9. CASE /\ dialogue.version /\ ~dialogue.enabled /\ Held(n) >= GreetingLength
           /\ Says("none") /\ Takes(GreetingLength, "request")
  <2>1. connection = "open" /\ told = << >>
    BY <1>1, <1>5, <1>9 DEF Unwelcome, HandshakeInv, Telling
  <2>2. told' = <<"none">> /\ connection' = "open" /\ state' = "request" /\ start' = GreetingLength
    BY <1>1, <1>2, <1>9, <2>1, AppendToNone DEF Says, Writes, Takes
  <2>3. Telling'
    BY <1>9, <2>2 DEF Telling, Introduced
  <2>4. Reached' = start'
    BY <1>2, <1>9, <2>2, DialogueFixed DEF Reached
  <2>5. ~dialogue.eager => Held(0)' < Awaited'
    <3>1. SUFFICES ASSUME ~dialogue.eager PROVE Held(0)' < Awaited'
      OBVIOUS
    <3>2. b + n <= GreetingLength
      BY <1>1, <2>1, <3>1, TurnOf
    <3>3. Held(0)' = b + n - GreetingLength
      BY <1>1, <1>2, <1>3, <2>2 DEF Held
    <3>4. Awaited' = RequestLength /\ RequestLength > 5
      BY <1>1, <2>2, DialogueFixed, LengthsTyped DEF Awaited
    <3>5. QED
      BY <1>1, <1>2, <3>2, <3>3, <3>4
  <2>6. HandshakeKinds'
    BY <1>1, <1>2, <1>3, <2>2 DEF HandshakeKinds, Tellings
  <2>7. QED
    BY <2>2, <2>3, <2>4, <2>5, <2>6 DEF HandshakeInv
<1>10. CASE /\ dialogue.version /\ dialogue.enabled /\ "password" \in dialogue.methods
            /\ Held(n) >= GreetingLength /\ Says("password") /\ Drops(n, "auth_sub")
  <2>1. connection = "open" /\ told = << >> /\ ~dialogue.eager
    BY <1>1, <1>4, <1>5, <1>10 DEF Unwelcome, HandshakeInv, Telling
  <2>2. b + n = GreetingLength
    BY <1>1, <1>2, <1>10, <2>1, TurnOf DEF Held
  <2>3. told' = <<"password">> /\ connection' = "open" /\ state' = "auth_sub" /\ start' = GreetingLength
    BY <1>10, <2>1, <2>2, AppendToNone DEF Says, Writes, Drops
  <2>4. Telling'
    BY <1>10, <2>3 DEF Telling
  <2>5. Reached' = start'
    BY <2>3, DialogueFixed DEF Reached
  <2>6. Held(0)' = 0 /\ Awaited' = CredentialsLength /\ CredentialsLength > 0
    BY <1>1, <1>2, <1>3, <2>2, <2>3, DialogueFixed, LengthsTyped DEF Held, Awaited
  <2>7. HandshakeKinds'
    BY <1>1, <1>2, <1>3, <2>3 DEF HandshakeKinds, Tellings
  <2>8. QED
    BY <2>3, <2>4, <2>5, <2>6, <2>7 DEF HandshakeInv
<1>11. QED
  BY <1>6, <1>7, <1>8, <1>9, <1>10 DEF ReadGreeting

LEMMA CredentialsRead ==
  ASSUME HandshakeInv, NEW n \in 1..(Turn - spoken.bytes), connection # "closed", ReadCredentials(n),
         UNCHANGED dialogue, spoken' = [spoken EXCEPT !.bytes = @ + n]
  PROVE  HandshakeInv'
<1> DEFINE b == spoken.bytes
<1>1. /\ HandshakeKinds /\ n \in Nat /\ state = "auth_sub" /\ dialogue \in Dialogues
      /\ connection \in {"open", "ended"} /\ start = GreetingLength
  <2>1. HandshakeKinds /\ state = "auth_sub" /\ (state \notin {"tunnel", "udp"} => start = Reached)
    BY DEF HandshakeInv, ReadCredentials
  <2>2. n \in Nat
    OBVIOUS
  <2>3. QED
    BY <2>1, <2>2 DEF HandshakeKinds, Reached
<1>2. GreetingLength \in Nat /\ CredentialsLength \in Nat /\ RequestLength \in Nat /\ b \in Nat
  BY <1>1, LengthsTyped DEF HandshakeKinds
<1>3. spoken' \in [bytes : Nat, fin : BOOLEAN] /\ spoken'.bytes = b + n
  BY <1>1, Spoken
<1>4. dialogue.enabled /\ "password" \in dialogue.methods /\ ~dialogue.eager /\ dialogue.eager \in BOOLEAN
  <2>1. dialogue.enabled /\ "password" \in dialogue.methods
    BY <1>1 DEF HandshakeInv, Telling, Refusal
  <2>2. QED
    BY <1>1, <2>1, HandshakeAssumption DEF Dialogue
<1>5. CASE Held(n) < CredentialsLength /\ Keeps /\ UNCHANGED <<connection, told>>
  BY <1>1, <1>5, Incomplete DEF Awaited
<1>6. CASE (EndsSilently \/ Refuses("denied")) /\ Keeps
  BY <1>1, <1>6, Refused
<1>7. CASE Says("accepted") /\ Takes(CredentialsLength, "request") /\ connection = "open"
  <2>1. told = <<"password">>
    BY <1>1, <1>7 DEF HandshakeInv, Telling
  <2>2. /\ told' = <<"password", "accepted">> /\ connection' = "open" /\ state' = "request"
        /\ start' = GreetingLength + CredentialsLength
    BY <1>1, <1>7, <2>1, AppendToOne DEF Says, Writes, Takes
  <2>3. Telling' /\ Reached' = start'
    BY <1>4, <2>2, DialogueFixed DEF Telling, Introduced, Reached
  <2>4. b + n <= GreetingLength + CredentialsLength
    BY <1>1, <1>4, <1>7, TurnOf
  <2>5. Held(0)' = b + n - (GreetingLength + CredentialsLength) /\ Awaited' = RequestLength /\ RequestLength > 5
    BY <1>1, <1>2, <1>3, <2>2, DialogueFixed, LengthsTyped DEF Held, Awaited
  <2>6. Held(0)' < Awaited'
    BY <1>1, <1>2, <2>4, <2>5
  <2>7. HandshakeKinds'
    <3>1. start' \in Nat
      BY <1>2, <2>2
    <3>2. QED
      BY <1>1, <1>3, <2>2, <3>1 DEF HandshakeKinds, Tellings
  <2>8. QED
    BY <2>2, <2>3, <2>6, <2>7 DEF HandshakeInv
<1>8. CASE Says("accepted") /\ Takes(CredentialsLength, "request") /\ connection = "ended"
  <2>1. told' = told /\ connection' = "closed" /\ state' = "request" /\ start' \in Nat
    BY <1>1, <1>2, <1>8 DEF Says, Writes, Takes
  <2>2. QED
    BY <1>1, <1>3, <2>1 DEF HandshakeInv, HandshakeKinds
<1>9. QED
  BY <1>1, <1>5, <1>6, <1>7, <1>8 DEF ReadCredentials

LEMMA RequestRead ==
  ASSUME HandshakeInv, NEW n \in Nat, connection # "closed", ReadRequest(n),
         UNCHANGED dialogue, spoken' = [spoken EXCEPT !.bytes = @ + n]
  PROVE  HandshakeInv'
<1>1. HandshakeKinds /\ state = "request" /\ dialogue \in Dialogues /\ connection \in {"open", "ended"}
  BY DEF HandshakeInv, HandshakeKinds, ReadRequest
<1>2. RequestLength \in Nat /\ RequestLength > 5 /\ spoken.bytes \in Nat /\ start \in Nat
  BY <1>1, LengthsTyped DEF HandshakeKinds
<1>3. spoken' \in [bytes : Nat, fin : BOOLEAN] /\ spoken'.bytes = spoken.bytes + n
  BY <1>1, Spoken
<1>4. CASE Held(n) < 5 /\ Keeps /\ UNCHANGED <<connection, told>>
  <2>1. Held(n) < Awaited
    BY <1>1, <1>2, <1>4 DEF Awaited, Held
  <2>2. QED
    BY <1>4, <2>1, Incomplete
<1>5. CASE ~dialogue.requestVersion /\ EndsSilently /\ Keeps
  BY <1>1, <1>5, Refused DEF Unfit
<1>6. CASE dialogue.address = "other" /\ Refuses("no address") /\ Keeps
  BY <1>1, <1>6, Refused DEF Unfit
<1>7. CASE dialogue.requestVersion /\ dialogue.address # "other" /\ TakeRequest(n)
  <2>1. CASE Held(n) < RequestLength /\ Keeps /\ UNCHANGED <<connection, told>>
    BY <1>1, <2>1, Incomplete DEF Awaited
  <2>2. CASE dialogue.command = "bind" /\ Refuses("no command") /\ Keeps
    BY <1>1, <2>2, Refused DEF Unfit
  <2>3. ASSUME dialogue.command # "bind", UNCHANGED <<connection, told>>,
               NEW next \in {"udp", "tunnel"}, Drops(n, next)
        PROVE  HandshakeInv'
    <3>1. told = Introduced /\ connection = "open"
      BY <1>1, <1>7, <2>3 DEF HandshakeInv, Telling, Refusal, Unfit
    <3>2. state' \in {"udp", "tunnel"} /\ start' \in Nat /\ told' = Introduced' /\ connection' = "open"
      BY <1>2, <2>3, <3>1, DialogueFixed DEF Drops
    <3>3. HandshakeKinds'
      BY <1>1, <1>3, <2>3, <3>2 DEF HandshakeKinds
    <3>4. Telling'
      BY <3>2 DEF Telling
    <3>5. QED
      BY <3>2, <3>3, <3>4 DEF HandshakeInv
  <2>4. QED
    BY <1>7, <2>1, <2>2, <2>3 DEF TakeRequest
<1>8. QED
  BY <1>4, <1>5, <1>6, <1>7 DEF ReadRequest

LEMMA HandedOnKeeps ==
  ASSUME HandshakeInv, NEW n \in Nat, connection # "closed", HandedOn(n),
         UNCHANGED dialogue, spoken' = [spoken EXCEPT !.bytes = @ + n]
  PROVE  HandshakeInv'
<1>1. /\ state \in {"tunnel", "udp"} /\ state' = state /\ connection' = connection /\ told' = told
      /\ told = Introduced /\ Introduced' = Introduced
  BY DialogueFixed DEF HandedOn, HandshakeInv
<1>2. HandshakeKinds'
  <2>1. start' \in Nat /\ spoken' \in [bytes : Nat, fin : BOOLEAN]
    BY Spoken DEF HandshakeInv, HandshakeKinds, HandedOn
  <2>2. QED
    BY <1>1, <2>1 DEF HandshakeInv, HandshakeKinds
<1>3. Telling' /\ Refusal'
  BY <1>1 DEF Telling, Refusal
<1>4. QED
  BY <1>1, <1>2, <1>3 DEF HandshakeInv

(* The socket's own events: nothing is read.                                 *)
LEMMA SocketEvents ==
  ASSUME HandshakeInv, UNCHANGED <<dialogue, state, start, told>>, spoken' = [spoken EXCEPT !.fin = TRUE],
         connection' = connection \/ connection' = "closed"
  PROVE  HandshakeInv'
<1>1. spoken' \in [bytes : Nat, fin : BOOLEAN] /\ spoken'.bytes = spoken.bytes
  BY DEF HandshakeInv, HandshakeKinds
<1>2. HandshakeKinds'
  BY <1>1 DEF HandshakeInv, HandshakeKinds
<1>3. /\ Telling' = Telling /\ Refusal' = Refusal /\ Introduced' = Introduced /\ Reached' = Reached
      /\ Awaited' = Awaited
  BY DialogueFixed DEF Telling, Refusal, Dismissed, Unwelcome, Unfit, Reached, Awaited
<1>4. Held(0)' = Held(0)
  BY <1>1 DEF Held
<1>5. QED
  BY <1>1, <1>2, <1>3, <1>4 DEF HandshakeInv

LEMMA HandshakeStep == HandshakeInv /\ [HandshakeNext]_handshakeVars => HandshakeInv'
<1> SUFFICES ASSUME HandshakeInv, [HandshakeNext]_handshakeVars PROVE HandshakeInv'
  OBVIOUS
<1>1. CASE ChunkSent
  <2>1. PICK n \in 1..(Turn - spoken.bytes) :
          /\ spoken' = [spoken EXCEPT !.bytes = @ + n]
          /\ ReadGreeting(n) \/ ReadCredentials(n) \/ ReadRequest(n) \/ HandedOn(n)
    BY <1>1 DEF ChunkSent
  <2>2. n \in Nat /\ connection # "closed" /\ dialogue' = dialogue
    BY <1>1 DEF ChunkSent
  <2>3. QED
    BY <2>1, <2>2, GreetingRead, CredentialsRead, RequestRead, HandedOnKeeps
<1>2. CASE EndSent \/ HandshakeAborted
  BY <1>2, SocketEvents DEF EndSent, HandshakeAborted
<1>3. CASE UNCHANGED handshakeVars
  <2>1. Telling' = Telling /\ Refusal' = Refusal /\ Introduced' = Introduced /\ Reached' = Reached
        /\ Awaited' = Awaited /\ Held(0)' = Held(0)
    BY <1>3, DialogueFixed DEF handshakeVars, Telling, Refusal, Dismissed, Unwelcome, Unfit, Reached, Awaited, Held
  <2>2. QED
    BY <1>3, <2>1 DEF handshakeVars, HandshakeInv, HandshakeKinds
<1>4. QED
  BY <1>1, <1>2, <1>3 DEF HandshakeNext

LEMMA HandshakeGuarantee == HandshakeInv => HandshakeTypeOK /\ HandshakeInStep
<1> SUFFICES ASSUME HandshakeInv PROVE HandshakeTypeOK /\ HandshakeInStep
  OBVIOUS
<1>1. HandshakeTypeOK
  BY TellingsTyped DEF HandshakeInv, HandshakeKinds, HandshakeTypeOK
<1>2. state \notin {"tunnel", "udp"} /\ connection # "closed" => start = Boundary
  BY ReachedIsBoundary DEF HandshakeInv
<1>3. ASSUME state \in {"tunnel", "udp"}
      PROVE  (dialogue.enabled => Heard("accepted")) /\ told \in {<<"none">>, <<"password", "accepted">>}
  <2>1. told = IF dialogue.enabled THEN <<"password", "accepted">> ELSE <<"none">>
    BY <1>3 DEF HandshakeInv, Introduced
  <2>2. QED
    BY <2>1, HeardIn
<1>4. QED
  BY <1>1, <1>2, <1>3 DEF HandshakeInStep, HandshakeInv

----------------------------------------------------------------------------
(* CONNECT tunnels.  Messages and what the application gets, by type.        *)
ToTarget == [type : {"tunnel_open", "tunnel_data", "tunnel_close"}, n : Nat]
FromTarget == [type : {"tunnel_ready", "tunnel_data", "tunnel_close", "tunnel_error"}, n : Nat]
Item == [type : {"200", "failed", "head", "tunnel_data"}, n : Nat]

TunnelKinds ==
  /\ application \in [head : 0..1, sent : Nat, fin : BOOLEAN, got : Seq(Item)]
  /\ relay \in Relay /\ target \in Target
  /\ nodeWire \in Seq(ToTarget) /\ serverWire \in Seq(FromTarget)
  /\ up \in [server : BOOLEAN, node : BOOLEAN]

(* The relay: nothing has happened before there is a socket; an open one has *)
(* a record, and got nothing before the answer; what waits for the answer    *)
(* are the latest chunks, without a gap.                                     *)
RelayInv ==
  /\ relay.timer => relay.record /\ ~relay.ready
  /\ relay.socket = "none" =>
       /\ ~relay.record /\ ~relay.ready /\ ~relay.idle /\ target.state = "none" /\ application.got = << >>
       /\ nodeWire = << >> /\ serverWire = << >> /\ relay.unread = << >>
  /\ relay.socket = "open" => relay.record /\ up.server
  /\ relay.socket = "open" /\ ~relay.ready => application.got = << >>
  /\ relay.ready => relay.flowing
  /\ relay.unread # << >> => ~relay.flowing
  /\ \A i \in DOMAIN relay.unread : relay.unread[i] = application.sent - Len(relay.unread) + i

(* To the node: one opening, before the target is called; chunks only when   *)
(* the tunnel is ready, one after the other and the latest last; behind a    *)
(* closing nothing is sent any more.                                         *)
NodeWireInv ==
  /\ \A i \in DOMAIN nodeWire : nodeWire[i].type = "tunnel_open" =>
       i = 1 /\ target.state = "none" /\ serverWire = << >> /\ ~relay.ready
  /\ \A i \in DOMAIN nodeWire : nodeWire[i].type = "tunnel_close" =>
       ~relay.record /\ relay.socket = "closed"
  /\ \A i \in DOMAIN nodeWire : IsData(nodeWire[i]) =>
       /\ relay.ready
       /\ i > 1 => IsData(nodeWire[i - 1]) /\ nodeWire[i].n = nodeWire[i - 1].n + 1
       /\ i = Len(nodeWire) /\ up.server => nodeWire[i].n = application.sent

TargetInv ==
  /\ target.listed => target.state # "none"
  /\ target.got # << >> => relay.ready
  /\ Gapless(target.got)
  /\ target.listed /\ target.got # << >> =>
       /\ nodeWire # << >> /\ IsData(nodeWire[1]) => nodeWire[1].n = Last(target.got) + 1
       /\ nodeWire = << >> /\ up.server => Last(target.got) = application.sent

(* From the node: nothing before the call has succeeded but a refusal; then  *)
(* that it has, and the chunks of the target at the place of their numbers.  *)
(* Taken: how many an application that is still there has got.               *)
Taken == IF relay.ready THEN Len(application.got) - 1 - application.head ELSE -1
ServerWireInv ==
  /\ target.state \in {"none", "connecting"} =>
       /\ ~relay.ready /\ target.sent = 0
       /\ \A i \in DOMAIN serverWire : serverWire[i].type = "tunnel_error"
  /\ target.state = "connecting" => serverWire = << >> /\ \A i \in DOMAIN nodeWire : nodeWire[i].type # "tunnel_open"
  /\ \A i \in DOMAIN serverWire : serverWire[i].type = "tunnel_ready" => i = 1 /\ ~relay.ready
  /\ relay.socket = "open" =>
       /\ relay.ready => Taken >= 0 /\ \A i \in DOMAIN application.got : application.got[i].type # "failed"
       /\ \A i \in DOMAIN serverWire : IsData(serverWire[i]) =>
            /\ serverWire[i].n = Taken + i
            /\ ~relay.ready => serverWire[1].type = "tunnel_ready"
       /\ up.node /\ target.state \in {"established", "ending"} =>
            /\ Taken + Len(serverWire) = target.sent
            /\ ~relay.ready => serverWire # << >> /\ serverWire[1].type = "tunnel_ready"

(* What the application has got is clean, but for the last word of the       *)
(* server to a SOCKS5 application when the node is lost.                     *)
GotInv ==
  \/ AnsweredThenFed(application.got)
  \/ /\ ~up.server /\ relay.socks /\ Len(application.got) > 1
     /\ Last(application.got).type = "failed" /\ AnsweredThenFed(Front(application.got))

TunnelInv == TunnelKinds /\ RelayInv /\ NodeWireInv /\ TargetInv /\ ServerWireInv /\ GotInv

LEMMA Joined ==
  ASSUME NEW S, NEW s \in Seq(S), NEW t \in Seq(S)
  PROVE  /\ s \o t \in Seq(S) /\ Len(s \o t) = Len(s) + Len(t)
         /\ \A i \in 1..Len(s) : (s \o t)[i] = s[i]
         /\ \A i \in 1..(Len(s) + Len(t)) : i > Len(s) => (s \o t)[i] = t[i - Len(s)]
OBVIOUS

LEMMA NoneFirst == ASSUME NEW S, NEW t \in Seq(S) PROVE << >> \o t = t
OBVIOUS

LEMMA Dropped ==
  ASSUME NEW S, NEW s \in Seq(S), s # << >>
  PROVE  /\ Tail(s) \in Seq(S) /\ Len(Tail(s)) = Len(s) - 1 /\ Len(s) \in Nat /\ Len(s) > 0
         /\ \A i \in 1..(Len(s) - 1) : Tail(s)[i] = s[i + 1]
         /\ Head(s) = s[1] /\ s[1] \in S
OBVIOUS

LEMMA Repeated ==
  ASSUME NEW S, NEW m \in S, NEW k \in Nat
  PROVE  /\ [i \in 1..k |-> m] \in Seq(S) /\ DOMAIN [i \in 1..k |-> m] = 1..k
         /\ \A j \in 1..k : [i \in 1..k |-> m][j] = m
OBVIOUS

LEMMA WrittenGot ==
  ASSUME TunnelKinds, NEW items \in Seq(Item), Written(items)
  PROVE  /\ application' \in [head : 0..1, sent : Nat, fin : BOOLEAN, got : Seq(Item)]
         /\ application'.sent = application.sent /\ application'.head = application.head
         /\ application'.got = IF relay.socket = "open" THEN application.got \o items ELSE application.got
<1>1. application.got \o items \in Seq(Item)
  BY Joined DEF TunnelKinds
<1>2. QED
  BY <1>1 DEF TunnelKinds, Written

LEMMA SentToNode ==
  ASSUME TunnelKinds, NEW ms \in Seq(ToTarget), ToNode(ms)
  PROVE  /\ nodeWire' \in Seq(ToTarget)
         /\ up.server => nodeWire' = nodeWire \o ms
         /\ ~up.server => nodeWire' = nodeWire
BY Joined DEF TunnelKinds, ToNode

LEMMA SentToServer ==
  ASSUME TunnelKinds, NEW ms \in Seq(FromTarget), ToServer(ms)
  PROVE  /\ serverWire' \in Seq(FromTarget)
         /\ up.node => serverWire' = serverWire \o ms
         /\ ~up.node => serverWire' = serverWire
BY Joined DEF TunnelKinds, ToServer

(* The application's socket is ended or closed, or has been, and the record  *)
(* kept or dropped; closings are sent to the node only with the latter.      *)
Leaves ==
  /\ relay.socket # "none" /\ relay'.socket \in {"ended", "closed"}
  /\ relay.socket = "closed" => relay'.socket = "closed"
  /\ relay'.ready = relay.ready /\ relay'.flowing = relay.flowing /\ relay'.unread = relay.unread
  /\ relay'.record => relay.record
  /\ relay'.timer => relay.timer /\ relay'.record
  /\ application'.sent = application.sent /\ target' = target
  /\ up'.server => up.server
  /\ serverWire' = serverWire \/ serverWire' = << >> \/ (serverWire # << >> /\ serverWire' = Tail(serverWire))
  /\ \E ms \in Seq(ToTarget) :
       /\ nodeWire' = nodeWire \o ms
       /\ \A i \in DOMAIN ms : ms[i].type = "tunnel_close"
       /\ ms # << >> => relay'.socket = "closed" /\ ~relay'.record

LEMMA LeavesRelay ==
  ASSUME TunnelInv, Leaves
  PROVE  RelayInv'
BY DEF TunnelInv, RelayInv, Leaves, TunnelKinds, Relay

LEMMA LeavesWires ==
  ASSUME TunnelInv, TunnelKinds', Leaves
  PROVE  NodeWireInv' /\ TargetInv'
<1>1. PICK ms \in Seq(ToTarget) :
        /\ nodeWire' = nodeWire \o ms
        /\ \A i \in DOMAIN ms : ms[i].type = "tunnel_close"
        /\ ms # << >> => relay'.socket = "closed" /\ ~relay'.record
  BY DEF Leaves
<1>2. nodeWire \in Seq(ToTarget) /\ Len(nodeWire) \in Nat /\ Len(ms) \in Nat /\ Len(nodeWire') = Len(nodeWire) + Len(ms)
  BY <1>1, Joined DEF TunnelInv, TunnelKinds
<1>3. \A i \in 1..Len(nodeWire) : nodeWire'[i] = nodeWire[i]
  BY <1>1, <1>2, Joined
<1>4. \A i \in 1..Len(nodeWire') : i > Len(nodeWire) =>
        nodeWire'[i].type = "tunnel_close" /\ ~relay'.record /\ relay'.socket = "closed"
  <2>1. SUFFICES ASSUME NEW i \in 1..Len(nodeWire'), i > Len(nodeWire)
                 PROVE  nodeWire'[i].type = "tunnel_close" /\ ~relay'.record /\ relay'.socket = "closed"
    OBVIOUS
  <2>2. nodeWire'[i] = ms[i - Len(nodeWire)] /\ i - Len(nodeWire) \in DOMAIN ms
    BY <1>1, <1>2, <2>1, Joined
  <2>3. ms # << >>
    BY <2>2
  <2>4. QED
    BY <1>1, <2>2, <2>3
<1>5. DOMAIN nodeWire = 1..Len(nodeWire) /\ DOMAIN nodeWire' = 1..Len(nodeWire')
  BY <1>2 DEF TunnelKinds
<1>6. ASSUME NEW i \in DOMAIN nodeWire', nodeWire'[i].type = "tunnel_open"
      PROVE  i = 1 /\ target'.state = "none" /\ serverWire' = << >> /\ ~relay'.ready
  <2>1. i \in DOMAIN nodeWire /\ nodeWire[i].type = "tunnel_open"
    BY <1>2, <1>3, <1>4, <1>5, <1>6
  <2>2. QED
    BY <2>1 DEF Leaves, TunnelInv, NodeWireInv
<1>7. ASSUME NEW i \in DOMAIN nodeWire', nodeWire'[i].type = "tunnel_close"
      PROVE  ~relay'.record /\ relay'.socket = "closed"
  <2>1. CASE i \in DOMAIN nodeWire
    BY <1>3, <1>5, <1>7, <2>1 DEF Leaves, TunnelInv, NodeWireInv
  <2>2. QED
    BY <1>2, <1>4, <1>5, <1>7, <2>1
<1>8. ASSUME NEW i \in DOMAIN nodeWire', IsData(nodeWire'[i])
      PROVE  /\ i \in DOMAIN nodeWire /\ IsData(nodeWire[i]) /\ relay'.ready
             /\ i > 1 => IsData(nodeWire'[i - 1]) /\ nodeWire'[i].n = nodeWire'[i - 1].n + 1
             /\ i = Len(nodeWire') /\ up'.server => nodeWire'[i].n = application'.sent
  <2>1. i \in DOMAIN nodeWire /\ IsData(nodeWire[i]) /\ nodeWire'[i] = nodeWire[i]
    BY <1>2, <1>3, <1>4, <1>5, <1>8 DEF IsData
  <2>2. relay'.ready /\ (i > 1 => IsData(nodeWire[i - 1]) /\ nodeWire[i].n = nodeWire[i - 1].n + 1)
    BY <2>1 DEF Leaves, TunnelInv, NodeWireInv
  <2>3. i > 1 => nodeWire'[i - 1] = nodeWire[i - 1]
    BY <1>2, <1>3, <1>5, <2>1
  <2>4. i = Len(nodeWire') => i = Len(nodeWire)
    <3>1. i \in 1..Len(nodeWire)
      BY <1>5, <2>1
    <3>2. QED
      BY <1>2, <3>1
  <2>5. i = Len(nodeWire) /\ up.server => nodeWire[i].n = application.sent
    BY <2>1 DEF TunnelInv, NodeWireInv
  <2>6. QED
    BY <2>1, <2>2, <2>3, <2>4, <2>5 DEF Leaves
<1>9. NodeWireInv'
  BY <1>6, <1>7, <1>8 DEF NodeWireInv
<1>10. TargetInv'
  <2>1. target' = target /\ relay'.ready = relay.ready /\ TargetInv
    BY DEF Leaves, TunnelInv
  <2>2. ASSUME nodeWire' # << >>, IsData(nodeWire'[1])
        PROVE  nodeWire # << >> /\ IsData(nodeWire[1]) /\ nodeWire'[1] = nodeWire[1]
    <3>1. 1 \in DOMAIN nodeWire'
      BY <2>2, <1>2, <1>5 DEF TunnelKinds
    <3>2. 1 \in DOMAIN nodeWire /\ IsData(nodeWire[1])
      BY <1>8, <2>2, <3>1
    <3>3. QED
      BY <1>3, <1>5, <3>2
  <2>3. nodeWire' = << >> => nodeWire = << >>
    BY <1>2
  <2>4. QED
    BY <2>1, <2>2, <2>3 DEF TargetInv, Leaves
<1>11. QED
  BY <1>9, <1>10

LEMMA LeavesServerWire ==
  ASSUME TunnelInv, Leaves
  PROVE  ServerWireInv'
<1>1. PICK ms \in Seq(ToTarget) :
        nodeWire' = nodeWire \o ms /\ \A i \in DOMAIN ms : ms[i].type = "tunnel_close"
  BY DEF Leaves
<1>2. serverWire \in Seq(FromTarget) /\ nodeWire \in Seq(ToTarget)
  BY DEF TunnelInv, TunnelKinds
<1>3. ASSUME NEW i \in DOMAIN serverWire'
      PROVE  \E j \in DOMAIN serverWire : j >= i /\ serverWire'[i] = serverWire[j]
  <2>1. CASE serverWire' = serverWire
    BY <1>2, <1>3, <2>1
  <2>2. CASE serverWire # << >> /\ serverWire' = Tail(serverWire)
    BY <1>2, <1>3, <2>2, Dropped
  <2>3. QED
    BY <1>3, <2>1, <2>2 DEF Leaves
<1>4. target' = target /\ relay'.ready = relay.ready /\ ServerWireInv
  BY DEF Leaves, TunnelInv
<1>5. serverWire = << >> => serverWire' = << >>
  BY DEF Leaves
<1>6. ASSUME \A i \in DOMAIN nodeWire : nodeWire[i].type # "tunnel_open", NEW i \in DOMAIN nodeWire'
      PROVE  nodeWire'[i].type # "tunnel_open"
  <2>1. Len(nodeWire') = Len(nodeWire) + Len(ms) /\ Len(nodeWire) \in Nat /\ Len(ms) \in Nat /\ i \in 1..Len(nodeWire')
    BY <1>1, <1>2, <1>6, Joined
  <2>2. CASE i <= Len(nodeWire)
    BY <1>1, <1>2, <1>6, <2>1, <2>2, Joined
  <2>3. CASE i > Len(nodeWire)
    BY <1>1, <1>2, <2>1, <2>3, Joined
  <2>4. QED
    BY <2>1, <2>2, <2>3
<1>7. relay'.socket # "open"
  BY DEF Leaves
<1>8. ASSUME NEW i \in DOMAIN serverWire', serverWire'[i].type = "tunnel_ready"
      PROVE  i = 1 /\ ~relay'.ready
  <2>1. PICK j \in DOMAIN serverWire : j >= i /\ serverWire'[i] = serverWire[j]
    BY <1>3
  <2>2. j = 1 /\ ~relay.ready
    BY <1>4, <1>8, <2>1 DEF ServerWireInv
  <2>3. i \in Nat /\ i >= 1
    BY <1>2, <1>8, Dropped DEF Leaves
  <2>4. QED
    BY <1>4, <2>1, <2>2, <2>3
<1>9. QED
  BY <1>3, <1>4, <1>5, <1>6, <1>7, <1>8 DEF ServerWireInv

LEMMA LeavesKeeps ==
  ASSUME TunnelInv, TunnelKinds', Leaves, GotInv'
  PROVE  TunnelInv'
BY LeavesRelay, LeavesWires, LeavesServerWire DEF TunnelInv

(* What an application has got stays clean where it gets nothing more, or    *)
(* one word where it had got nothing.                                        *)
LEMMA GotKept ==
  ASSUME TunnelInv, application'.got = application.got, application'.head = application.head,
         up'.server => up.server, relay'.socks = relay.socks
  PROVE  GotInv'
BY DEF TunnelInv, TunnelKinds, GotInv, AnsweredThenFed, IsReply, IsData

LEMMA FirstWord ==
  ASSUME application'.got = <<Message("failed")>>
  PROVE  GotInv'
<1>1. Len(application'.got) = 1 /\ DOMAIN application'.got = {1} /\ application'.got[1] = [type |-> "failed", n |-> 0]
  BY DEF Message
<1>2. QED
  BY <1>1 DEF GotInv, AnsweredThenFed, IsReply, IsData

LEMMA FailedWord ==
  ASSUME TunnelKinds
  PROVE  /\ <<Message("failed")>> \in Seq(Item)
         /\ application.got = << >> => application.got \o <<Message("failed")>> = <<Message("failed")>>
<1>1. <<Message("failed")>> \in Seq(Item)
  BY DEF Message, Item
<1>2. QED
  BY <1>1, NoneFirst

LEMMA EndedSocketIs ==
  ASSUME TunnelInv, relay.socket # "none"
  PROVE  EndedSocket \in {"ended", "closed"} /\ (relay.socket = "closed" => EndedSocket = "closed")
BY DEF EndedSocket, TunnelInv, TunnelKinds, Relay

LEMMA NothingSent ==
  ASSUME TunnelKinds, nodeWire' = nodeWire
  PROVE  \E ms \in Seq(ToTarget) :
           /\ nodeWire' = nodeWire \o ms
           /\ \A i \in DOMAIN ms : ms[i].type = "tunnel_close"
           /\ ms # << >> => relay'.socket = "closed" /\ ~relay'.record
<1>1. << >> \in Seq(ToTarget) /\ nodeWire' = nodeWire \o << >> /\ DOMAIN << >> = {}
  BY DEF TunnelKinds
<1>2. QED
  BY <1>1, Zenon

LEMMA TunnelTimeoutKeeps ==
  ASSUME TunnelInv, TunnelTimeout
  PROVE  TunnelInv'
<1>1. TunnelKinds /\ RelayInv /\ relay.timer /\ relay.socket # "none"
  BY DEF TunnelInv, RelayInv, TunnelTimeout
<1>2. /\ relay' = TimedOut /\ Written(<<Message("failed")>>) /\ up' = up
      /\ target' = target /\ nodeWire' = nodeWire /\ serverWire' = serverWire
  BY DEF TunnelTimeout
<1>3. relay' \in Relay
  BY <1>1, <1>2 DEF TunnelKinds, TimedOut, Relay, EndedSocket
<1>4. TunnelKinds'
  BY <1>1, <1>2, <1>3, FailedWord, WrittenGot DEF TunnelKinds
<1>5. /\ relay'.ready = relay.ready /\ relay'.flowing = relay.flowing /\ relay'.unread = relay.unread
      /\ ~relay'.record /\ ~relay'.timer /\ relay'.socket = EndedSocket /\ relay'.socks = relay.socks
  BY <1>1, <1>2 DEF TimedOut, TunnelKinds, Relay
<1>6. application'.sent = application.sent /\ application'.head = application.head
  BY <1>1, <1>2, FailedWord, WrittenGot
<1>7. Leaves
  BY <1>1, <1>2, <1>5, <1>6, EndedSocketIs, NothingSent DEF Leaves
<1>8. GotInv'
  <2>1. CASE relay.socket = "open"
    <3>1. application.got = << >>
      BY <1>1, <2>1 DEF RelayInv
    <3>2. application'.got = <<Message("failed")>>
      BY <1>1, <1>2, <2>1, <3>1, FailedWord, WrittenGot
    <3>3. QED
      BY <3>2, FirstWord
  <2>2. CASE relay.socket # "open"
    BY <1>2, <1>5, <2>2, GotKept DEF Written
  <2>3. QED
    BY <2>1, <2>2
<1>9. QED
  BY <1>4, <1>7, <1>8, LeavesKeeps

LEMMA IdleFiresKeeps ==
  ASSUME TunnelInv, IdleFires
  PROVE  TunnelInv'
<1>1. TunnelKinds /\ relay.socket # "none"
  BY DEF TunnelInv, RelayInv, IdleFires
<1>2. /\ relay' = [relay EXCEPT !.idle = FALSE, !.socket = EndedSocket]
      /\ UNCHANGED <<application, target, nodeWire, serverWire, up>>
  BY DEF IdleFires
<1>3. relay' \in Relay
  BY <1>1, <1>2 DEF TunnelKinds, Relay, EndedSocket
<1>4. TunnelKinds'
  BY <1>1, <1>2, <1>3 DEF TunnelKinds
<1>5. /\ relay'.ready = relay.ready /\ relay'.flowing = relay.flowing /\ relay'.unread = relay.unread
      /\ relay'.record = relay.record /\ relay'.timer = relay.timer /\ relay'.socket = EndedSocket
      /\ relay'.socks = relay.socks
  BY <1>1, <1>2 DEF TunnelKinds, Relay
<1>6. relay.timer => relay.record
  BY DEF TunnelInv, RelayInv
<1>7. Leaves
  BY <1>1, <1>2, <1>5, <1>6, EndedSocketIs, NothingSent DEF Leaves
<1>8. QED
  BY <1>2, <1>4, <1>5, <1>7, GotKept, LeavesKeeps

LEMMA SocketClosedKeeps ==
  ASSUME TunnelInv, NEW app, NEW events \in 0..2, SocketClosed(app, events),
         app \in {application, [application EXCEPT !.fin = TRUE]}, relay.socket # "none"
  PROVE  TunnelInv'
<1> DEFINE ms == [i \in 1..Closings(events) |-> Message("tunnel_close")]
<1>1. TunnelKinds
  BY DEF TunnelInv
<1>2. /\ application' = app /\ ToNode(ms)
      /\ target' = target /\ serverWire' = serverWire /\ up' = up
  BY DEF SocketClosed
<1>3. Closings(events) \in Nat
  BY DEF Closings
<1>4. ms \in Seq(ToTarget) /\ \A i \in DOMAIN ms : ms[i].type = "tunnel_close"
  <2>1. Message("tunnel_close") \in ToTarget /\ Message("tunnel_close").type = "tunnel_close"
    BY DEF Message, ToTarget
  <2>2. QED
    BY <1>3, <2>1, Repeated
<1>5. ms # << >> => Closings(events) > 0
  BY <1>3
<1> HIDE DEF ms
<1>6. application' \in [head : 0..1, sent : Nat, fin : BOOLEAN, got : Seq(Item)]
      /\ application'.sent = application.sent /\ application'.head = application.head
      /\ application'.got = application.got
  BY <1>1, <1>2 DEF TunnelKinds
<1>7. relay' \in Relay /\ relay'.socket = "closed" /\ relay'.ready = relay.ready
      /\ relay'.flowing = relay.flowing /\ relay'.unread = relay.unread /\ relay'.socks = relay.socks
  BY <1>1 DEF SocketClosed, TunnelKinds, Relay
<1>8. /\ relay'.record => relay.record
      /\ relay'.timer => relay.timer /\ relay'.record
      /\ Closings(events) > 0 => ~relay'.record
  BY <1>1 DEF SocketClosed, TunnelKinds, Relay, TunnelInv, RelayInv
<1>9. /\ nodeWire' \in Seq(ToTarget)
      /\ nodeWire' = nodeWire \o ms \/ nodeWire' = nodeWire
  BY <1>1, <1>2, <1>4, SentToNode DEF TunnelKinds
<1>10. TunnelKinds'
  BY <1>1, <1>2, <1>6, <1>7, <1>9 DEF TunnelKinds
<1>11. \E closings \in Seq(ToTarget) :
         /\ nodeWire' = nodeWire \o closings
         /\ \A i \in DOMAIN closings : closings[i].type = "tunnel_close"
         /\ closings # << >> => relay'.socket = "closed" /\ ~relay'.record
  <2>1. CASE nodeWire' = nodeWire \o ms
    BY <1>4, <1>5, <1>7, <1>8, <2>1
  <2>2. CASE nodeWire' = nodeWire
    BY <1>1, <2>2, NothingSent
  <2>3. QED
    BY <1>9, <2>1, <2>2
<1>12. Leaves
  BY <1>2, <1>6, <1>7, <1>8, <1>11 DEF Leaves
<1>13. QED
  BY <1>2, <1>6, <1>7, <1>10, <1>12, GotKept, LeavesKeeps

LEMMA HandleTunnelEndKeeps ==
  ASSUME TunnelInv, HandleTunnelEnd
  PROVE  TunnelInv'
<1>1. TunnelKinds /\ RelayInv /\ serverWire # << >> /\ relay.socket # "none"
  BY DEF TunnelInv, RelayInv, HandleTunnelEnd, Receives
<1>2. /\ serverWire' = Tail(serverWire) /\ serverWire' \in Seq(FromTarget)
      /\ target' = target /\ nodeWire' = nodeWire /\ up' = up
  BY <1>1, Dropped DEF HandleTunnelEnd, TunnelKinds
<1>3. CASE relay.record
  <2> DEFINE reply == FailureReply(Head(serverWire).type)
  <2>1. relay' = TimedOut /\ Written(reply)
    BY <1>3 DEF HandleTunnelEnd
  <2>2. reply \in Seq(Item) /\ (reply = << >> \/ (reply = <<Message("failed")>> /\ ~relay.ready))
    BY <1>1, FailedWord DEF FailureReply
  <2> HIDE DEF reply
  <2>3. relay' \in Relay
    BY <1>1, <2>1 DEF TunnelKinds, TimedOut, Relay, EndedSocket
  <2>4. /\ relay'.ready = relay.ready /\ relay'.flowing = relay.flowing /\ relay'.unread = relay.unread
        /\ ~relay'.record /\ ~relay'.timer /\ relay'.socket = EndedSocket /\ relay'.socks = relay.socks
    BY <1>1, <2>1 DEF TimedOut, TunnelKinds, Relay
  <2>5. /\ application' \in [head : 0..1, sent : Nat, fin : BOOLEAN, got : Seq(Item)]
        /\ application'.sent = application.sent /\ application'.head = application.head
        /\ application'.got = IF relay.socket = "open" THEN application.got \o reply ELSE application.got
    BY <1>1, <2>1, <2>2, WrittenGot
  <2>6. TunnelKinds'
    BY <1>1, <1>2, <2>3, <2>5 DEF TunnelKinds
  <2>7. Leaves
    BY <1>1, <1>2, <2>4, <2>5, EndedSocketIs, NothingSent DEF Leaves
  <2>8. GotInv'
    <3>1. CASE relay.socket = "open" /\ reply = <<Message("failed")>> /\ ~relay.ready
      <4>1. application'.got = <<Message("failed")>>
        BY <1>1, <2>5, <3>1, FailedWord DEF RelayInv
      <4>2. QED
        BY <4>1, FirstWord
    <3>2. CASE relay.socket # "open" \/ reply = << >>
      <4>1. application'.got = application.got
        BY <1>1, <2>5, <3>2 DEF TunnelKinds
      <4>2. QED
        BY <1>2, <2>4, <2>5, <4>1, GotKept
    <3>3. QED
      BY <2>2, <3>1, <3>2
  <2>9. QED
    BY <2>6, <2>7, <2>8, LeavesKeeps
<1>4. CASE ~relay.record
  <2>1. application' = application /\ relay' = relay
    BY <1>4 DEF HandleTunnelEnd
  <2>2. relay.socket \in {"ended", "closed"} /\ ~relay.timer
    BY <1>1, <1>4 DEF RelayInv, TunnelKinds, Relay
  <2>3. Leaves
    BY <1>1, <1>2, <1>4, <2>1, <2>2, NothingSent DEF Leaves
  <2>4. TunnelKinds'
    BY <1>1, <1>2, <2>1 DEF TunnelKinds
  <2>5. QED
    BY <1>2, <2>1, <2>3, <2>4, GotKept, LeavesKeeps
<1>5. QED
  BY <1>3, <1>4

LEMMA FrontOf ==
  ASSUME NEW S, NEW s \in Seq(S), NEW e \in S
  PROVE  /\ Front(s \o <<e>>) = s /\ Last(s \o <<e>>) = e
         /\ s # << >> => Len(s \o <<e>>) > 1
<1> DEFINE t == s \o <<e>>
<1>1. t \in Seq(S) /\ Len(t) = Len(s) + 1 /\ Len(s) \in Nat /\ (\A i \in 1..Len(s) : t[i] = s[i]) /\ t[Len(s) + 1] = e
  OBVIOUS
<1> HIDE DEF t
<1>2. Front(t) = s
  <2>1. Front(t) = SubSeq(t, 1, Len(s))
    BY <1>1 DEF Front
  <2>2. SubSeq(t, 1, Len(s)) \in Seq(S) /\ Len(SubSeq(t, 1, Len(s))) = Len(s)
        /\ \A i \in 1..Len(s) : SubSeq(t, 1, Len(s))[i] = t[i]
    BY <1>1
  <2>3. SubSeq(t, 1, Len(s)) = s
    BY <1>1, <2>2
  <2>4. QED
    BY <2>1, <2>3
<1>3. Last(t) = e
  BY <1>1 DEF Last
<1>4. s # << >> => Len(t) > 1
  BY <1>1
<1>5. QED
  BY <1>2, <1>3, <1>4 DEF t

(* The last word to a SOCKS5 application that has been answered.             *)
LEMMA LastWord ==
  ASSUME TunnelKinds, TunnelKinds', GotInv, up.server, ~up'.server, relay'.socks,
         application'.got = application.got \o <<Message("failed")>>, application'.head = application.head
  PROVE  GotInv'
<1>1. application.got \in Seq(Item) /\ application'.got \in Seq(Item) /\ Message("failed") \in Item
  BY DEF TunnelKinds, Message, Item
<1>2. AnsweredThenFed(application.got)
  BY DEF GotInv
<1>3. CASE application.got = << >>
  BY <1>3, FailedWord, FirstWord
<1>4. CASE application.got # << >>
  <2>1. Front(application'.got) = application.got /\ Last(application'.got) = Message("failed")
        /\ Len(application'.got) > 1
    BY <1>1, <1>4, FrontOf
  <2>2. AnsweredThenFed(Front(application.got))'
    BY <1>2, <2>1 DEF AnsweredThenFed
  <2>3. QED
    BY <2>1, <2>2 DEF GotInv, Message
<1>5. QED
  BY <1>3, <1>4

LEMMA ServerLosesNodeKeeps ==
  ASSUME TunnelInv, ServerLosesNode
  PROVE  TunnelInv'
<1>1. /\ TunnelKinds /\ RelayInv /\ up.server /\ up' = [up EXCEPT !.server = FALSE] /\ serverWire' = << >>
      /\ target' = target /\ nodeWire' = nodeWire
  BY DEF TunnelInv, ServerLosesNode
<1>2. up' \in [server : BOOLEAN, node : BOOLEAN] /\ ~up'.server /\ serverWire' \in Seq(FromTarget)
  <2>1. up \in [server : BOOLEAN, node : BOOLEAN]
    BY <1>1 DEF TunnelKinds
  <2>2. serverWire' \in Seq(FromTarget)
    BY <1>1
  <2>3. QED
    BY <1>1, <2>1, <2>2
<1>3. CASE relay.record
  <2> DEFINE words == IF relay.socks THEN <<Message("failed")>> ELSE << >>
  <2>1. relay' = RelayRemoved /\ Written(words) /\ relay.socket # "none"
    BY <1>1, <1>3 DEF ServerLosesNode, RelayInv
  <2>2. words \in Seq(Item) /\ (words = << >> \/ (words = <<Message("failed")>> /\ relay.socks))
    BY <1>1, FailedWord
  <2> HIDE DEF words
  <2>3. relay' \in Relay
    BY <1>1, <2>1 DEF TunnelKinds, RelayRemoved, TimedOut, Relay, EndedSocket
  <2>4. /\ relay'.ready = relay.ready /\ relay'.flowing = relay.flowing /\ relay'.unread = relay.unread
        /\ ~relay'.record /\ ~relay'.timer /\ relay'.socket \in {EndedSocket, "closed"} /\ relay'.socks = relay.socks
    BY <1>1, <2>1 DEF TimedOut, RelayRemoved, TunnelKinds, Relay
  <2>5. /\ application' \in [head : 0..1, sent : Nat, fin : BOOLEAN, got : Seq(Item)]
        /\ application'.sent = application.sent /\ application'.head = application.head
        /\ application'.got = IF relay.socket = "open" THEN application.got \o words ELSE application.got
    BY <1>1, <2>1, <2>2, WrittenGot
  <2>6. TunnelKinds'
    BY <1>1, <1>2, <2>3, <2>5 DEF TunnelKinds
  <2>7. relay'.socket \in {"ended", "closed"} /\ (relay.socket = "closed" => relay'.socket = "closed")
    BY <2>1, <2>4, EndedSocketIs
  <2>8. Leaves
    BY <1>1, <1>2, <2>1, <2>4, <2>5, <2>7, NothingSent DEF Leaves
  <2>9. GotInv'
    <3>1. CASE application'.got = application.got
      BY <1>1, <2>4, <2>5, <3>1, GotKept
    <3>2. CASE application'.got = application.got \o <<Message("failed")>> /\ relay.socks
      BY <1>1, <1>2, <2>4, <2>5, <2>6, <3>2, LastWord DEF TunnelInv
    <3>3. application.got \o << >> = application.got
      BY <1>1 DEF TunnelKinds
    <3>4. QED
      BY <2>2, <2>5, <3>1, <3>2, <3>3
  <2>10. QED
    BY <2>6, <2>8, <2>9, LeavesKeeps
<1>4. CASE ~relay.record /\ relay.socket # "none"
  <2>1. application' = application /\ relay' = relay
    BY <1>4 DEF ServerLosesNode
  <2>2. relay.socket \in {"ended", "closed"} /\ ~relay.timer
    BY <1>1, <1>4 DEF RelayInv, TunnelKinds, Relay
  <2>3. Leaves
    BY <1>1, <1>2, <1>4, <2>1, <2>2, NothingSent DEF Leaves
  <2>4. TunnelKinds'
    BY <1>1, <1>2, <2>1 DEF TunnelKinds
  <2>5. QED
    BY <1>1, <2>1, <2>3, <2>4, GotKept, LeavesKeeps
<1>5. CASE relay.socket = "none"
  <2>1. application' = application /\ relay' = relay /\ ~relay.record
    BY <1>1, <1>5 DEF ServerLosesNode, RelayInv
  <2>2. TunnelKinds' /\ GotInv'
    BY <1>1, <1>2, <2>1, GotKept DEF TunnelKinds
  <2>3. RelayInv' /\ NodeWireInv' /\ TargetInv' /\ ServerWireInv'
    BY <1>1, <1>2, <1>5, <2>1 DEF TunnelInv, RelayInv, NodeWireInv, TargetInv, ServerWireInv
  <2>4. QED
    BY <2>2, <2>3 DEF TunnelInv
<1>6. QED
  BY <1>3, <1>4, <1>5

(* A message for an application that is no longer there.                     *)
LEMMA TooLate ==
  ASSUME TunnelInv, serverWire # << >>, serverWire' = Tail(serverWire), relay.socket # "open",
         application' = application, up' = up, target' = target, nodeWire' = nodeWire,
         relay' \in Relay,
         relay'.ready = relay.ready, relay'.flowing = relay.flowing, relay'.unread = relay.unread,
         relay'.record = relay.record, relay'.timer = relay.timer, relay'.socket = relay.socket,
         relay'.socks = relay.socks
  PROVE  TunnelInv'
<1>1. TunnelKinds /\ relay.socket \in {"ended", "closed"} /\ (relay.timer => relay.record)
  BY DEF TunnelInv, RelayInv, TunnelKinds, Relay
<1>2. TunnelKinds'
  BY <1>1, Dropped DEF TunnelKinds
<1>3. Leaves
  BY <1>1, NothingSent DEF Leaves
<1>4. QED
  BY <1>2, <1>3, GotKept, LeavesKeeps

LEMMA ChunkWritten ==
  ASSUME TunnelInv, relay.socket = "open", serverWire # << >>, IsData(serverWire[1]), serverWire' = Tail(serverWire),
         Written(<<Head(serverWire)>>), relay' = [relay EXCEPT !.idle = IdleTimeout],
         target' = target, nodeWire' = nodeWire, up' = up
  PROVE  TunnelInv'
<1> DEFINE m == serverWire[1]
           L == Len(serverWire)
           g == application.got
           h == application.head
<1>1. TunnelKinds /\ RelayInv /\ ServerWireInv /\ relay.record /\ up.server
  BY DEF TunnelInv, RelayInv
<1>2. /\ serverWire' \in Seq(FromTarget) /\ Len(serverWire') = L - 1 /\ L \in Nat /\ L > 0
      /\ \A i \in 1..(L - 1) : serverWire'[i] = serverWire[i + 1]
      /\ Head(serverWire) = m /\ m \in FromTarget /\ DOMAIN serverWire = 1..L /\ DOMAIN serverWire' = 1..(L - 1)
  BY <1>1, Dropped DEF TunnelKinds
<1>3. m \in Item /\ m.type = "tunnel_data"
  BY <1>2 DEF IsData, FromTarget, Item
<1>4. /\ application' \in [head : 0..1, sent : Nat, fin : BOOLEAN, got : Seq(Item)]
      /\ application'.sent = application.sent /\ application'.head = h
      /\ application'.got = g \o <<m>>
  <2>1. <<Head(serverWire)>> \in Seq(Item)
    BY <1>2, <1>3
  <2>2. QED
    BY <1>1, <1>2, <2>1, WrittenGot
<1>5. /\ relay' \in Relay /\ relay'.ready = relay.ready /\ relay'.flowing = relay.flowing
      /\ relay'.unread = relay.unread /\ relay'.record = relay.record /\ relay'.timer = relay.timer
      /\ relay'.socket = relay.socket /\ relay'.socks = relay.socks
  BY <1>1, ConnectAssumption DEF TunnelKinds, Relay
<1>6. TunnelKinds'
  BY <1>1, <1>2, <1>4, <1>5 DEF TunnelKinds
<1>7. relay.ready /\ m.n = Taken + 1 /\ Taken >= 0 /\ Taken = Len(g) - 1 - h
  <2>1. 1 \in DOMAIN serverWire
    BY <1>2
  <2>2. relay.ready
    BY <1>1, <1>3, <2>1 DEF ServerWireInv, IsData
  <2>3. QED
    BY <1>1, <1>3, <2>1, <2>2 DEF ServerWireInv, IsData, Taken
<1>8. g \in Seq(Item) /\ Len(g) \in Nat /\ h \in Nat /\ DOMAIN g = 1..Len(g) /\ Len(g) >= 1 + h
  <2>1. g \in Seq(Item) /\ h \in 0..1
    BY <1>1 DEF TunnelKinds
  <2>2. Len(g) \in Nat /\ DOMAIN g = 1..Len(g)
    BY <2>1
  <2> HIDE DEF g, h
  <2>3. QED
    BY <1>7, <2>1, <2>2
<1>9. /\ Len(application'.got) = Len(g) + 1 /\ DOMAIN application'.got = 1..(Len(g) + 1)
      /\ \A i \in 1..Len(g) : application'.got[i] = g[i]
      /\ application'.got[Len(g) + 1] = m
  <2>1. g \o <<m>> = Append(g, m)
    BY <1>3, <1>8, AppendIsConcat
  <2>2. QED
    BY <1>3, <1>4, <1>8, <2>1, AppendProperties
<1>10. Taken' = Taken + 1
  <2>1. Taken' = Len(application'.got) - 1 - h
    BY <1>4, <1>5, <1>7 DEF Taken
  <2> HIDE DEF g, h
  <2>2. QED
    BY <1>7, <1>8, <1>9, <2>1
<1>11. RelayInv' /\ NodeWireInv' /\ TargetInv'
  BY <1>1, <1>4, <1>5, <1>7 DEF TunnelInv, RelayInv, NodeWireInv, TargetInv
<1>12. GotInv'
  <2>1. AnsweredThenFed(g)
    BY <1>1 DEF TunnelInv, GotInv
  <2>2. g # << >> /\ g[1].type # "failed" /\ 1 \in DOMAIN g
    <3>1. 1 \in DOMAIN g
      BY <1>8
    <3>2. \A i \in DOMAIN application.got : application.got[i].type # "failed"
      BY <1>1, <1>7 DEF ServerWireInv
    <3>3. QED
      BY <1>8, <3>1, <3>2
  <2>3. m.n = (Len(g) + 1) - 1 - h
    <3> HIDE DEF m, g, h
    <3>1. QED
      BY <1>7, <1>8
  <2>4. AnsweredThenFed(application.got)'
    <3> DEFINE s == application'.got
    <3>1. \A i \in DOMAIN s : IsReply(s[i]) <=> i = 1
      BY SMTT(30), <1>3, <1>8, <1>9, <2>1 DEF AnsweredThenFed, IsReply
    <3>2. s[1].type # "failed"
      BY <1>8, <1>9, <2>2
    <3>3. \A i \in DOMAIN s : IsData(s[i]) => s[i].n = i - 1 - h
      <4>1. \A i \in 1..Len(g) : IsData(g[i]) => g[i].n = i - 1 - h
        BY <1>8, <2>1 DEF AnsweredThenFed
      <4>2. DOMAIN s = 1..(Len(g) + 1) /\ (\A i \in 1..Len(g) : s[i] = g[i]) /\ s[Len(g) + 1] = m
        BY <1>9
      <4> HIDE DEF s, g, h, m
      <4>3. ASSUME NEW i \in 1..(Len(g) + 1), IsData(s[i]) PROVE s[i].n = i - 1 - h
        <5>1. CASE i = Len(g) + 1
          BY <2>3, <4>2, <5>1
        <5>2. CASE i # Len(g) + 1
          <6>1. i \in 1..Len(g) /\ s[i] = g[i]
            BY <1>8, <4>2, <4>3, <5>2
          <6>2. QED
            BY <4>1, <4>3, <6>1
        <5>3. QED
          BY <5>1, <5>2
      <4>4. QED
        BY <4>2, <4>3
    <3>4. QED
      BY <1>4, <3>1, <3>2, <3>3 DEF AnsweredThenFed
  <2>5. QED
    BY <2>4 DEF GotInv
<1>13. ServerWireInv'
  <2>1. target'.state \notin {"none", "connecting"}
    BY <1>1, <1>7 DEF ServerWireInv
  <2>2. \A i \in DOMAIN serverWire' : serverWire'[i].type # "tunnel_ready"
    <3>1. \A i \in DOMAIN serverWire : serverWire[i].type # "tunnel_ready"
      BY <1>1, <1>7 DEF ServerWireInv
    <3> HIDE DEF L
    <3>2. QED
      BY <1>2, <3>1
  <2>3. ASSUME NEW i \in DOMAIN serverWire', IsData(serverWire'[i])
        PROVE  serverWire'[i].n = Taken' + i
    <3>1. serverWire'[i] = serverWire[i + 1] /\ i + 1 \in DOMAIN serverWire /\ i \in Nat
      BY <1>2, <2>3
    <3>2. serverWire[i + 1].n = Taken + (i + 1)
      BY <1>1, <2>3, <3>1 DEF ServerWireInv
    <3>3. Taken \in Int
      BY <1>7, <1>8
    <3>4. QED
      BY <1>10, <3>1, <3>2, <3>3
  <2>4. up'.node /\ target'.state \in {"established", "ending"} => Taken' + Len(serverWire') = target'.sent
    <3>1. up.node /\ target.state \in {"established", "ending"} => Taken + L = target.sent
      BY <1>1 DEF ServerWireInv
    <3>2. Taken \in Int
      BY <1>7, <1>8
    <3> HIDE DEF L
    <3>3. QED
      BY <1>2, <1>10, <3>1, <3>2
  <2>5. Taken' >= 0
    <3>1. Taken \in Int
      BY <1>7, <1>8
    <3>2. QED
      BY <1>7, <1>10, <3>1
  <2>6. \A i \in DOMAIN application'.got : application'.got[i].type # "failed"
    <3>1. \A i \in DOMAIN application.got : application.got[i].type # "failed"
      BY <1>1, <1>7 DEF ServerWireInv
    <3>2. QED
      BY <1>3, <1>8, <1>9, <3>1
  <2>7. QED
    BY <1>5, <1>7, <2>1, <2>2, <2>3, <2>4, <2>5, <2>6 DEF ServerWireInv
<1>14. QED
  BY <1>6, <1>11, <1>12, <1>13 DEF TunnelInv

LEMMA HandleTunnelDataKeeps ==
  ASSUME TunnelInv, HandleTunnelData
  PROVE  TunnelInv'
<1>1. TunnelKinds /\ serverWire # << >> /\ Head(serverWire) = serverWire[1] /\ IsData(serverWire[1])
  BY Dropped DEF TunnelInv, TunnelKinds, HandleTunnelData, Receives, IsData
<1>2. relay.socket = "open" => relay.record
  BY DEF TunnelInv, RelayInv
<1>3. CASE relay.socket = "open"
  BY <1>1, <1>2, <1>3, ChunkWritten DEF HandleTunnelData
<1>4. CASE relay.socket # "open"
  <2>1. /\ serverWire' = Tail(serverWire) /\ target' = target /\ nodeWire' = nodeWire /\ up' = up
        /\ application' = application
        /\ relay' = relay \/ relay' = [relay EXCEPT !.idle = IdleTimeout]
    BY <1>4 DEF HandleTunnelData, Written
  <2>2. /\ relay' \in Relay /\ relay'.ready = relay.ready /\ relay'.flowing = relay.flowing
        /\ relay'.unread = relay.unread /\ relay'.record = relay.record /\ relay'.timer = relay.timer
        /\ relay'.socket = relay.socket /\ relay'.socks = relay.socks
    BY <1>1, <2>1, ConnectAssumption DEF TunnelKinds, Relay
  <2>3. QED
    BY <1>1, <1>4, <2>1, <2>2, TooLate
<1>5. QED
  BY <1>3, <1>4

LEMMA AnswerWords ==
  ASSUME NEW h \in 0..1, NEW words,
         words = <<Message("200")>> \o (IF h = 1 THEN <<Message("head")>> ELSE << >>)
  PROVE  /\ words \in Seq(Item) /\ Len(words) = 1 + h /\ DOMAIN words = 1..(1 + h)
         /\ words[1] = Message("200") /\ (h = 1 => words[2] = Message("head"))
<1> DEFINE a == Message("200")
           b == Message("head")
<1>1. a \in Item /\ b \in Item
  BY DEF Message, Item
<1> HIDE DEF a, b
<1>2. CASE h = 0
  <2>1. words = <<a>> \o << >>
    BY <1>2 DEF a
  <2>2. QED
    BY <1>1, <1>2, <2>1 DEF a
<1>3. CASE h = 1
  <2>1. words = <<a>> \o <<b>>
    BY <1>3 DEF a, b
  <2>2. <<a>> \in Seq(Item) /\ <<b>> \in Seq(Item) /\ Len(<<a>>) = 1 /\ Len(<<b>>) = 1 /\ <<a>>[1] = a /\ <<b>>[1] = b
    BY <1>1
  <2> DEFINE s == <<a>>
             t == <<b>>
  <2> HIDE DEF s, t
  <2>3. words = s \o t /\ s \in Seq(Item) /\ t \in Seq(Item) /\ Len(s) = 1 /\ Len(t) = 1 /\ s[1] = a /\ t[1] = b
    BY <2>1, <2>2 DEF s, t
  <2>4. words \in Seq(Item) /\ Len(words) = 2 /\ words[1] = s[1] /\ words[2] = t[1]
    BY <2>3, Joined
  <2>5. QED
    BY <1>3, <2>3, <2>4 DEF a, b
<1>4. QED
  BY <1>2, <1>3

LEMMA ReadyRelay ==
  ASSUME relay \in Relay
  PROVE  [relay EXCEPT !.timer = FALSE, !.ready = TRUE, !.flowing = TRUE,
                       !.unread = << >>, !.idle = IdleTimeout] \in Relay
<1>1. << >> \in Seq(Nat) /\ IdleTimeout \in BOOLEAN
  BY ConnectAssumption
<1> DEFINE e == << >>
<1> HIDE DEF e
<1>2. [relay EXCEPT !.timer = FALSE, !.ready = TRUE, !.flowing = TRUE,
                    !.unread = e, !.idle = IdleTimeout] \in Relay
  BY <1>1 DEF Relay, e
<1>3. QED
  BY <1>2 DEF e

(* The answer: what waited goes to the node, of which nothing was asked but  *)
(* to open.                                                                  *)
LEMMA AnswerFindsNothingSent ==
  ASSUME TunnelInv, serverWire # << >>, serverWire[1].type = "tunnel_ready", relay.record
  PROVE  /\ ~relay.ready /\ nodeWire = << >> /\ target.got = << >>
         /\ target.state \notin {"none", "connecting"} /\ relay.socket # "none"
<1>1. serverWire \in Seq(FromTarget) /\ nodeWire \in Seq(ToTarget)
  BY DEF TunnelInv, TunnelKinds
<1>2. 1 \in DOMAIN serverWire
  BY <1>1
<1>3. ~relay.ready /\ target.state \notin {"none", "connecting"}
  BY <1>2 DEF TunnelInv, ServerWireInv
<1>4. \A i \in DOMAIN nodeWire : nodeWire[i].type \notin {"tunnel_open", "tunnel_close", "tunnel_data"}
  BY <1>3 DEF TunnelInv, NodeWireInv, IsData
<1>5. nodeWire = << >>
  <2>1. SUFFICES ASSUME nodeWire # << >> PROVE FALSE
    OBVIOUS
  <2>2. 1 \in DOMAIN nodeWire /\ nodeWire[1] \in ToTarget
    BY <1>1, <2>1
  <2>3. QED
    BY <1>4, <2>2 DEF ToTarget
<1>6. QED
  BY <1>3, <1>5 DEF TunnelInv, TargetInv, RelayInv

LEMMA ReadyAnswer ==
  ASSUME TunnelInv, serverWire # << >>, serverWire[1].type = "tunnel_ready", relay.record, HandleTunnelReady
  PROVE  TunnelInv'
<1> DEFINE L == Len(serverWire)
           U == relay.unread
           soFar == application.sent
           h == application.head
           words == <<Message("200")>> \o (IF h = 1 THEN <<Message("head")>> ELSE << >>)
           flush == [i \in 1..Len(U) |-> TunnelChunk(U[i])]
<1>1. /\ TunnelKinds /\ RelayInv /\ ServerWireInv /\ up.server
      /\ ~relay.ready /\ nodeWire = << >> /\ target.got = << >>
      /\ target.state \notin {"none", "connecting"} /\ relay.socket # "none"
  BY AnswerFindsNothingSent DEF TunnelInv, HandleTunnelReady, Receives
<1>2. /\ serverWire' = Tail(serverWire) /\ target' = target /\ up' = up
      /\ Written(words) /\ ToNode(flush)
      /\ relay' = [relay EXCEPT !.timer = FALSE, !.ready = TRUE, !.flowing = TRUE,
                                !.unread = << >>, !.idle = IdleTimeout]
  BY DEF HandleTunnelReady
<1>3. /\ serverWire' \in Seq(FromTarget) /\ Len(serverWire') = L - 1 /\ L \in Nat /\ L > 0
      /\ \A i \in 1..(L - 1) : serverWire'[i] = serverWire[i + 1]
      /\ DOMAIN serverWire = 1..L /\ DOMAIN serverWire' = 1..(L - 1)
  BY <1>1, <1>2, Dropped DEF TunnelKinds
<1>4. U \in Seq(Nat) /\ Len(U) \in Nat /\ DOMAIN U = 1..Len(U) /\ soFar \in Nat /\ h \in 0..1
  BY <1>1 DEF TunnelKinds, Relay
<1>5. /\ words \in Seq(Item) /\ Len(words) = 1 + h /\ DOMAIN words = 1..(1 + h)
      /\ words[1] = Message("200") /\ (h = 1 => words[2] = Message("head"))
  BY <1>4, AnswerWords
<1>6. words \in Seq(Item) /\ flush \in Seq(ToTarget) /\ Len(flush) = Len(U) /\ DOMAIN flush = 1..Len(U)
      /\ \A i \in 1..Len(U) : IsData(flush[i]) /\ flush[i].n = U[i]
  <2>2. \A i \in 1..Len(U) : TunnelChunk(U[i]) \in ToTarget /\ IsData(TunnelChunk(U[i])) /\ TunnelChunk(U[i]).n = U[i]
    BY <1>4 DEF TunnelChunk, ToTarget, IsData
  <2> HIDE DEF U
  <2>3. QED
    BY <1>4, <1>5, <2>2
<1> HIDE DEF words, flush, L, U, soFar
<1>7. nodeWire' = flush /\ nodeWire' \in Seq(ToTarget)
  BY <1>1, <1>2, <1>6, SentToNode, NoneFirst
<1>8. /\ application' \in [head : 0..1, sent : Nat, fin : BOOLEAN, got : Seq(Item)]
      /\ application'.sent = application.sent /\ application'.head = application.head
      /\ application'.got = IF relay.socket = "open" THEN application.got \o words ELSE application.got
  BY <1>1, <1>2, <1>6, WrittenGot
<1>9. /\ relay' \in Relay /\ relay'.ready /\ relay'.flowing /\ relay'.unread = << >> /\ ~relay'.timer
      /\ relay'.record = relay.record /\ relay'.socket = relay.socket /\ relay'.socks = relay.socks
  <2>1. relay' = [relay EXCEPT !.timer = FALSE, !.ready = TRUE, !.flowing = TRUE,
                               !.unread = << >>, !.idle = IdleTimeout]
    BY <1>2
  <2>2. relay \in Relay /\ IdleTimeout \in BOOLEAN
    BY <1>1, ConnectAssumption DEF TunnelKinds
  <2>3. relay' \in Relay
    BY <2>1, <2>2, ReadyRelay
  <2>4. QED
    BY <2>1, <2>2, <2>3 DEF Relay
<1>10. TunnelKinds'
  BY <1>1, <1>2, <1>3, <1>7, <1>8, <1>9 DEF TunnelKinds
<1>11. RelayInv'
  BY <1>1, <1>2, <1>9 DEF RelayInv
<1>12. NodeWireInv'
  <2>1. \A i \in 1..Len(U) : U[i] = soFar - Len(U) + i
    BY <1>1, <1>4 DEF RelayInv, U, soFar
  <2>2. \A i \in 1..Len(U) : U[i] \in Nat
    BY <1>4
  <2>3. ASSUME NEW i \in 1..Len(U), i > 1 PROVE IsData(flush[i - 1]) /\ flush[i].n = flush[i - 1].n + 1
    <3>1. i - 1 \in 1..Len(U)
      BY <1>4, <2>3
    <3>2. flush[i].n = soFar - Len(U) + i /\ flush[i - 1].n = soFar - Len(U) + (i - 1)
      BY <1>6, <2>1, <3>1
    <3>3. QED
      BY <1>4, <1>6, <3>1, <3>2
  <2>4. Len(U) > 0 => flush[Len(U)].n = soFar
    <3>1. ASSUME Len(U) > 0 PROVE flush[Len(U)].n = soFar
      <4>1. Len(U) \in 1..Len(U)
        BY <1>4, <3>1
      <4>2. flush[Len(U)].n = soFar - Len(U) + Len(U)
        BY <1>6, <2>1, <4>1
      <4>3. QED
        BY <1>4, <4>2
    <3>2. QED
      BY <3>1
  <2>5. soFar = application'.sent
    BY <1>8 DEF soFar
  <2>6. QED
    <3>1. DOMAIN nodeWire' = 1..Len(U) /\ Len(nodeWire') = Len(U)
      BY <1>6, <1>7
    <3>2. \A i \in 1..Len(U) : nodeWire'[i] = flush[i] /\ flush[i].type = "tunnel_data"
      BY <1>6, <1>7 DEF IsData
    <3>3. ASSUME NEW i \in 1..Len(U)
          PROVE  /\ i > 1 => IsData(nodeWire'[i - 1]) /\ nodeWire'[i].n = nodeWire'[i - 1].n + 1
                 /\ i = Len(nodeWire') => nodeWire'[i].n = application'.sent
      BY <1>4, <1>7, <2>3, <2>4, <2>5, <3>1
    <3>4. QED
      BY <1>9, <3>1, <3>2, <3>3 DEF NodeWireInv
<1>13. TargetInv'
  BY <1>1, <1>2 DEF TargetInv, TunnelInv
<1>14. relay.socket = "open" =>
         /\ application'.got = words /\ Taken' = 0 /\ Taken = -1
         /\ \A i \in DOMAIN application'.got : application'.got[i].type # "failed"
  <2>1. SUFFICES ASSUME relay.socket = "open"
                 PROVE  /\ application'.got = words /\ Taken' = 0 /\ Taken = -1
                        /\ \A i \in DOMAIN application'.got : application'.got[i].type # "failed"
    OBVIOUS
  <2>2. application'.got = words
    BY <1>1, <1>6, <1>8, <2>1, NoneFirst DEF RelayInv
  <2>3. Len(words) = 1 + h /\ \A i \in DOMAIN words : words[i].type # "failed"
    BY <1>4, <1>5 DEF Message
  <2>4. Taken' = Len(words) - 1 - h
    BY <1>8, <1>9, <2>2 DEF Taken
  <2>5. Taken = -1
    BY <1>1 DEF Taken
  <2> HIDE DEF h
  <2>6. QED
    BY <1>4, <2>2, <2>3, <2>4, <2>5
<1>15. GotInv'
  <2>1. CASE relay.socket = "open"
    <3>1. /\ \A i \in DOMAIN words : IsReply(words[i]) <=> i = 1
          /\ words[1].type # "failed" /\ \A i \in DOMAIN words : ~IsData(words[i])
      BY <1>4, <1>5 DEF IsReply, IsData, Message
    <3>2. AnsweredThenFed(application.got)'
      BY <1>14, <2>1, <3>1 DEF AnsweredThenFed
    <3>3. QED
      BY <3>2 DEF GotInv
  <2>2. CASE relay.socket # "open"
    BY <1>2, <1>8, <1>9, <2>2, GotKept
  <2>3. QED
    BY <2>1, <2>2
<1>16. ServerWireInv'
  <2>1. \A i \in DOMAIN serverWire' : serverWire'[i].type # "tunnel_ready"
    <3>1. \A i \in 1..L : serverWire[i].type = "tunnel_ready" => i = 1
      BY <1>1, <1>3 DEF ServerWireInv
    <3>2. QED
      BY <1>3, <3>1
  <2>2. ASSUME relay.socket = "open", NEW i \in DOMAIN serverWire', IsData(serverWire'[i])
        PROVE  serverWire'[i].n = Taken' + i
    <3>1. serverWire'[i] = serverWire[i + 1] /\ i + 1 \in DOMAIN serverWire /\ i \in Nat
      BY <1>3, <2>2
    <3>2. serverWire[i + 1].n = Taken + (i + 1)
      BY <1>1, <2>2, <3>1 DEF ServerWireInv
    <3>3. QED
      BY <1>14, <2>2, <3>1, <3>2
  <2>3. relay.socket = "open" /\ up'.node /\ target'.state \in {"established", "ending"} =>
          Taken' + Len(serverWire') = target'.sent
    <3>1. relay.socket = "open" /\ up.node /\ target.state \in {"established", "ending"} => Taken + L = target.sent
      BY <1>1 DEF ServerWireInv, L
    <3>2. QED
      BY <1>2, <1>3, <1>14, <3>1
  <2>4. QED
    BY <1>1, <1>2, <1>9, <1>14, <2>1, <2>2, <2>3 DEF ServerWireInv
<1>17. QED
  BY <1>10, <1>11, <1>12, <1>13, <1>15, <1>16 DEF TunnelInv

LEMMA HandleTunnelReadyKeeps ==
  ASSUME TunnelInv, HandleTunnelReady
  PROVE  TunnelInv'
<1>1. TunnelKinds /\ serverWire # << >> /\ Head(serverWire) = serverWire[1] /\ serverWire[1].type = "tunnel_ready"
  BY Dropped DEF TunnelInv, TunnelKinds, HandleTunnelReady, Receives
<1>2. CASE relay.record
  BY <1>1, <1>2, ReadyAnswer
<1>3. CASE ~relay.record
  <2>1. /\ serverWire' = Tail(serverWire) /\ target' = target /\ nodeWire' = nodeWire /\ up' = up
        /\ application' = application /\ relay' = relay
    BY <1>3 DEF HandleTunnelReady
  <2>2. relay.socket # "open" /\ relay \in Relay
    BY <1>1, <1>3 DEF TunnelInv, RelayInv, TunnelKinds
  <2>3. QED
    BY <1>1, <2>1, <2>2, TooLate
<1>4. QED
  BY <1>2, <1>3

LEMMA RefuseConnectKeeps ==
  ASSUME TunnelInv, RefuseConnect
  PROVE  TunnelInv'
<1>1. TunnelKinds'
  <2>1. relay' \in Relay
    BY DEF TunnelInv, TunnelKinds, RefuseConnect, Relay
  <2>2. application' = [application EXCEPT !.got = <<Message("failed")>>] /\ <<Message("failed")>> \in Seq(Item)
    BY FailedWord DEF TunnelInv, RefuseConnect
  <2> DEFINE w == <<Message("failed")>>
  <2> HIDE DEF w
  <2>3. application' = [application EXCEPT !.got = w] /\ w \in Seq(Item)
    BY <2>2 DEF w
  <2>4. application' \in [head : 0..1, sent : Nat, fin : BOOLEAN, got : Seq(Item)]
    BY <2>3 DEF TunnelInv, TunnelKinds
  <2>5. QED
    BY <2>1, <2>4 DEF TunnelInv, TunnelKinds, RefuseConnect
<1> USE DEF TunnelInv, TunnelKinds, RefuseConnect, RelayInv
<1>2. RelayInv'
  BY DEF Relay
<1>3. NodeWireInv' /\ TargetInv'
  BY DEF NodeWireInv, TargetInv, Relay
<1>4. ServerWireInv'
  BY DEF ServerWireInv, Relay
<1>5. GotInv'
  <2>1. application'.got = <<Message("failed")>>
    OBVIOUS
  <2>2. QED
    BY <2>1, FirstWord
<1>6. QED
  BY <1>1, <1>2, <1>3, <1>4, <1>5 DEF TunnelInv

(* A tunnel begins: nothing has happened.                                    *)
LEMMA Untouched ==
  ASSUME TunnelInv, relay.socket = "none"
  PROVE  /\ TunnelKinds /\ ~relay.record /\ ~relay.ready /\ ~relay.idle /\ ~relay.timer
         /\ target.state = "none" /\ application.got = << >> /\ nodeWire = << >> /\ serverWire = << >>
         /\ relay.unread = << >> /\ target.got = << >> /\ target.sent = 0 /\ ~target.listed
BY DEF TunnelInv, RelayInv, TargetInv, ServerWireInv

LEMMA OpeningSent ==
  ASSUME TunnelKinds, nodeWire = << >>, up.server, ToNode(<<Message("tunnel_open")>>)
  PROVE  /\ nodeWire' = <<Message("tunnel_open")>> /\ nodeWire' \in Seq(ToTarget)
         /\ DOMAIN nodeWire' = {1} /\ nodeWire'[1].type = "tunnel_open"
<1> DEFINE m == Message("tunnel_open")
<1>1. m \in ToTarget /\ m.type = "tunnel_open"
  BY DEF Message, ToTarget
<1> HIDE DEF m
<1>2. <<m>> \in Seq(ToTarget) /\ DOMAIN <<m>> = {1} /\ <<m>>[1] = m
  BY <1>1
<1>3. nodeWire' = <<m>>
  BY <1>2, NoneFirst DEF ToNode, m
<1>4. QED
  BY <1>1, <1>2, <1>3 DEF m

LEMMA OpenedKeeps ==
  ASSUME TunnelInv, relay.socket = "none", up.server,
         application'.got = << >>,
         application' \in [head : 0..1, sent : Nat, fin : BOOLEAN, got : Seq(Item)],
         relay' \in Relay, relay'.record, ~relay'.ready, relay'.socket # "none", relay'.socket \in {"open", "ended"},
         relay'.unread = << >>, ToNode(<<Message("tunnel_open")>>),
         UNCHANGED <<target, serverWire, up>>
  PROVE  TunnelInv'
<1>1. /\ TunnelKinds /\ target.state = "none" /\ nodeWire = << >> /\ serverWire = << >>
      /\ target.got = << >> /\ target.sent = 0 /\ ~target.listed
  BY Untouched
<1>2. /\ nodeWire' \in Seq(ToTarget) /\ DOMAIN nodeWire' = {1} /\ nodeWire'[1].type = "tunnel_open"
  BY <1>1, OpeningSent
<1>3. TunnelKinds'
  BY <1>1, <1>2 DEF TunnelKinds
<1>4. RelayInv'
  BY <1>1 DEF RelayInv
<1>5. NodeWireInv'
  BY <1>1, <1>2 DEF NodeWireInv, IsData
<1>6. TargetInv'
  BY <1>1 DEF TargetInv, Gapless
<1>7. ServerWireInv'
  BY <1>1 DEF ServerWireInv, IsData
<1>8. GotInv'
  BY DEF GotInv, AnsweredThenFed
<1>9. QED
  BY <1>3, <1>4, <1>5, <1>6, <1>7, <1>8 DEF TunnelInv

LEMMA HandleConnectKeeps ==
  ASSUME TunnelInv, HandleConnect
  PROVE  TunnelInv'
<1>1. PICK head \in 0..1, settled \in BOOLEAN :
        application' = [application EXCEPT !.head = head, !.sent = head] /\ relay' = TunnelOpened(~settled)
  BY DEF HandleConnect
<1>2. TunnelKinds /\ application.got = << >> /\ ~relay.ready /\ relay.socket = "none" /\ relay.unread = << >>
  <2>1. relay.socket = "none"
    BY DEF HandleConnect
  <2>2. QED
    BY <2>1, Untouched
<1>3. application'.got = << >> /\ application' \in [head : 0..1, sent : Nat, fin : BOOLEAN, got : Seq(Item)]
  <2>1. application' = [application EXCEPT !.head = head, !.sent = head] /\ head \in Nat /\ head \in 0..1
    BY <1>1
  <2>2. application \in [head : 0..1, sent : Nat, fin : BOOLEAN, got : Seq(Item)] /\ application.got = << >>
    BY <1>2 DEF TunnelKinds
  <2>3. application' \in [head : 0..1, sent : Nat, fin : BOOLEAN, got : Seq(Item)]
    BY <2>1, <2>2
  <2>4. application'.got = << >>
    BY <2>1, <2>2
  <2>5. QED
    BY <2>3, <2>4
<1>4. relay' \in Relay
  BY <1>1, <1>2 DEF TunnelKinds, TunnelOpened, Relay
<1>5. relay'.record /\ ~relay'.ready /\ relay'.socket = "open" /\ relay'.unread = << >>
  BY <1>1, <1>2 DEF TunnelKinds, TunnelOpened, Relay
<1>6. QED
  BY <1>2, <1>3, <1>4, <1>5, OpenedKeeps DEF HandleConnect

LEMMA HandleSocks5Keeps ==
  ASSUME TunnelInv, HandleSocks5
  PROVE  TunnelInv'
<1>1. TunnelKinds /\ application.got = << >> /\ ~relay.ready /\ relay.socket = "none" /\ relay.unread = << >>
  <2>1. relay.socket = "none"
    BY DEF HandleSocks5
  <2>2. QED
    BY <2>1, Untouched
<1>2. CASE /\ relay' = [TunnelOpened(TRUE) EXCEPT !.socks = TRUE]
           /\ ToNode(<<Message("tunnel_open")>>) /\ UNCHANGED application
  <2>1. relay' \in Relay
    BY <1>1, <1>2 DEF TunnelKinds, TunnelOpened, Relay
  <2>2. relay'.record /\ ~relay'.ready /\ relay'.socket = "open" /\ relay'.unread = << >>
    BY <1>1, <1>2 DEF TunnelKinds, TunnelOpened, Relay
  <2>3. application' = application /\ application \in [head : 0..1, sent : Nat, fin : BOOLEAN, got : Seq(Item)]
    BY <1>1, <1>2 DEF TunnelKinds
  <2>4. QED
    BY <1>1, <1>2, <2>1, <2>2, <2>3, OpenedKeeps DEF HandleSocks5
<1>3. CASE /\ relay' = [TunnelOpened(TRUE) EXCEPT !.socks = TRUE, !.socket = "ended"]
           /\ application' = [application EXCEPT !.got = <<Message("failed")>>] /\ UNCHANGED nodeWire
  <2>1. relay' \in Relay
    BY <1>1, <1>3 DEF TunnelKinds, TunnelOpened, Relay
  <2>2. /\ relay'.record /\ ~relay'.ready /\ relay'.socket = "ended" /\ relay'.unread = << >>
        /\ nodeWire' = nodeWire /\ serverWire' = serverWire /\ target' = target /\ up' = up
    BY <1>1, <1>3 DEF TunnelKinds, TunnelOpened, Relay, HandleSocks5
  <2> DEFINE w == <<Message("failed")>>
  <2>3. w \in Seq(Item)
    BY <1>1, FailedWord
  <2>4. application' = [application EXCEPT !.got = w]
    BY <1>3
  <2> HIDE DEF w
  <2>5. application' \in [head : 0..1, sent : Nat, fin : BOOLEAN, got : Seq(Item)] /\ application'.got = w
    BY <1>1, <2>3, <2>4 DEF TunnelKinds
  <2>6. TunnelKinds'
    BY <1>1, <2>1, <2>2, <2>5 DEF TunnelKinds
  <2>7. /\ target.state = "none" /\ nodeWire = << >> /\ serverWire = << >>
        /\ target.got = << >> /\ target.sent = 0 /\ ~target.listed
    BY <1>1, Untouched
  <2>8. RelayInv' /\ NodeWireInv' /\ TargetInv' /\ ServerWireInv'
    BY <2>2, <2>7 DEF RelayInv, NodeWireInv, TargetInv, ServerWireInv, Gapless
  <2>9. GotInv'
    BY <2>5, FirstWord DEF w
  <2>10. QED
    BY <2>6, <2>8, <2>9 DEF TunnelInv
<1>4. QED
  BY <1>2, <1>3 DEF HandleSocks5

LEMMA ApplicationClosesKeeps ==
  ASSUME TunnelInv, ApplicationCloses
  PROVE  TunnelInv'
<1>1. /\ relay' = relay /\ target' = target /\ nodeWire' = nodeWire /\ serverWire' = serverWire /\ up' = up
      /\ application' = [application EXCEPT !.fin = TRUE] /\ TunnelKinds
  BY DEF ApplicationCloses, TunnelInv
<1>2. application' \in [head : 0..1, sent : Nat, fin : BOOLEAN, got : Seq(Item)]
  BY <1>1 DEF TunnelKinds
<1>3. application'.got = application.got /\ application'.sent = application.sent /\ application'.head = application.head
  BY <1>1 DEF TunnelKinds
<1>4. TunnelKinds'
  BY <1>1, <1>2 DEF TunnelKinds
<1>5. RelayInv' /\ NodeWireInv' /\ TargetInv'
  BY <1>1, <1>3 DEF TunnelInv, RelayInv, NodeWireInv, TargetInv
<1>6. ServerWireInv' /\ GotInv'
  BY <1>1, <1>3, GotKept DEF TunnelInv, ServerWireInv, Taken
<1>7. QED
  BY <1>4, <1>5, <1>6 DEF TunnelInv

LEMMA Extended ==
  ASSUME NEW S, NEW s \in Seq(S), NEW m \in S
  PROVE  /\ s \o <<m>> \in Seq(S) /\ Len(s \o <<m>>) = Len(s) + 1 /\ Len(s) \in Nat
         /\ DOMAIN (s \o <<m>>) = 1..(Len(s) + 1) /\ DOMAIN s = 1..Len(s)
         /\ \A i \in 1..Len(s) : (s \o <<m>>)[i] = s[i]
         /\ (s \o <<m>>)[Len(s) + 1] = m
BY AppendIsConcat, AppendProperties

(* A chunk of the application goes to the node.                              *)
LEMMA ChunkGoesOut ==
  ASSUME TunnelInv, ChunkArrives, relay.ready
  PROVE  TunnelInv'
<1> DEFINE n == application.sent + 1
           c == TunnelChunk(n)
           L == Len(nodeWire)
<1>1. TunnelKinds /\ relay.socket \in {"open", "ended"}
  BY DEF TunnelInv, ChunkArrives
<1>2. /\ application' = [application EXCEPT !.sent = n]
      /\ relay' = [relay EXCEPT !.idle = IdleTimeout] /\ ToNode(<<c>>)
      /\ target' = target /\ serverWire' = serverWire /\ up' = up
  BY DEF ChunkArrives
<1>3. n \in Nat /\ c \in ToTarget /\ IsData(c) /\ c.n = n
  BY <1>1 DEF TunnelKinds, ToTarget, TunnelChunk, IsData
<1>4. application' \in [head : 0..1, sent : Nat, fin : BOOLEAN, got : Seq(Item)]
  BY <1>1, <1>2, <1>3 DEF TunnelKinds
<1>5. application'.got = application.got /\ application'.sent = n /\ application'.head = application.head
  BY <1>1, <1>2 DEF TunnelKinds
<1>6. relay' \in Relay
  BY <1>1, <1>2, ConnectAssumption DEF TunnelKinds, Relay
<1>7. /\ relay'.ready = relay.ready /\ relay'.flowing = relay.flowing /\ relay'.unread = relay.unread
      /\ relay'.record = relay.record /\ relay'.timer = relay.timer /\ relay'.socket = relay.socket
      /\ relay'.socks = relay.socks
  BY <1>1, <1>2 DEF TunnelKinds, Relay
<1>8. /\ \A i \in DOMAIN nodeWire : IsData(nodeWire[i])
      /\ nodeWire \in Seq(ToTarget) /\ L \in Nat /\ DOMAIN nodeWire = 1..L
  <2>1. \A i \in DOMAIN nodeWire : nodeWire[i] \in ToTarget
    BY <1>1 DEF TunnelKinds
  <2>2. \A i \in DOMAIN nodeWire : nodeWire[i].type \notin {"tunnel_open", "tunnel_close"}
    BY <1>1 DEF TunnelInv, NodeWireInv
  <2>3. QED
    BY <1>1, <2>1, <2>2 DEF TunnelKinds, ToTarget, IsData
<1>9. relay.unread = << >>
  BY DEF TunnelInv, RelayInv
<1>10. RelayInv'
  BY <1>1, <1>2, <1>5, <1>7, <1>9 DEF TunnelInv, RelayInv
<1>11. GotInv'
  BY <1>2, <1>5, <1>7, GotKept
<1>12. CASE ~up.server
  <2>1. nodeWire' = nodeWire
    BY <1>2, <1>12 DEF ToNode
  <2>2. TunnelKinds'
    BY <1>1, <1>2, <1>4, <1>6, <2>1 DEF TunnelKinds
  <2>3. NodeWireInv' /\ TargetInv' /\ ServerWireInv'
    BY <1>2, <1>5, <1>7, <1>12, <2>1 DEF TunnelInv, NodeWireInv, TargetInv, ServerWireInv, Taken
  <2>4. QED
    BY <1>10, <1>11, <2>2, <2>3 DEF TunnelInv
<1>13. CASE up.server
  <2> HIDE DEF c, L
  <2>1. nodeWire' = nodeWire \o <<c>>
    BY <1>2, <1>13 DEF ToNode
  <2>2. /\ nodeWire' \in Seq(ToTarget) /\ Len(nodeWire') = L + 1 /\ DOMAIN nodeWire' = 1..(L + 1)
        /\ \A i \in 1..L : nodeWire'[i] = nodeWire[i]
        /\ nodeWire'[L + 1] = c
    BY <1>3, <1>8, <2>1, Extended DEF L
  <2>3. TunnelKinds'
    BY <1>1, <1>2, <1>4, <1>6, <2>2 DEF TunnelKinds
  <2>4. \A i \in DOMAIN nodeWire' : IsData(nodeWire'[i])
    BY <1>3, <1>8, <2>2
  <2>5. L > 0 => nodeWire[L].n = application.sent
    <3>1. ASSUME L > 0 PROVE nodeWire[L].n = application.sent
      <4>1. L \in DOMAIN nodeWire
        BY <1>8, <3>1
      <4>2. QED
        BY <1>8, <1>13, <4>1 DEF TunnelInv, NodeWireInv, L
    <3>2. QED
      BY <3>1
  <2>6. ASSUME NEW i \in 1..(L + 1)
        PROVE  /\ i > 1 => nodeWire'[i].n = nodeWire'[i - 1].n + 1
               /\ i = L + 1 => nodeWire'[i].n = application'.sent
    <3>1. CASE i = L + 1
      <4>1. nodeWire'[i].n = n
        BY <1>3, <2>2, <3>1
      <4>2. i > 1 => i - 1 \in 1..L /\ nodeWire'[i - 1] = nodeWire[L] /\ L > 0
        BY <1>8, <2>2, <3>1
      <4>3. QED
        BY <1>5, <2>5, <4>1, <4>2
    <3>2. CASE i # L + 1
      <4>1. i \in 1..L /\ nodeWire'[i] = nodeWire[i]
        BY <1>8, <2>2, <3>2
      <4>2. i > 1 => i - 1 \in 1..L /\ nodeWire'[i - 1] = nodeWire[i - 1]
        BY <1>8, <2>2, <4>1
      <4>3. i > 1 => nodeWire[i].n = nodeWire[i - 1].n + 1
        BY <1>8, <4>1 DEF TunnelInv, NodeWireInv
      <4>4. QED
        BY <3>2, <4>1, <4>2, <4>3
    <3>3. QED
      BY <3>1, <3>2
  <2>7. NodeWireInv'
    <3>1. \A i \in DOMAIN nodeWire' : nodeWire'[i].type = "tunnel_data"
      BY <2>4 DEF IsData
    <3>2. \A i \in DOMAIN nodeWire' : i > 1 => i - 1 \in DOMAIN nodeWire'
      BY <1>8, <2>2
    <3>3. QED
      BY <1>7, <2>2, <2>4, <2>6, <3>1, <3>2 DEF NodeWireInv
  <2>8. TargetInv'
    <3>1. ASSUME target.listed, target.got # << >>
          PROVE  nodeWire'[1].n = Last(target.got) + 1
      <4>1. CASE L = 0
        <5>1. nodeWire = << >> /\ nodeWire'[1] = c
          BY <1>8, <2>2, <4>1 DEF L
        <5>2. Last(target.got) = application.sent
          BY <1>13, <3>1, <5>1 DEF TunnelInv, TargetInv
        <5>3. QED
          BY <1>3, <5>1, <5>2
      <4>2. CASE L # 0
        <5>1. 1 \in 1..L /\ nodeWire # << >> /\ nodeWire'[1] = nodeWire[1]
          BY <1>8, <2>2, <4>2 DEF L
        <5>2. QED
          BY <1>8, <3>1, <5>1 DEF TunnelInv, TargetInv
      <4>3. QED
        BY <4>1, <4>2
    <3>2. nodeWire' # << >>
      BY <1>8, <2>2
    <3>3. QED
      BY <1>2, <1>7, <3>1, <3>2 DEF TunnelInv, TargetInv
  <2>9. ServerWireInv'
    <3>1. target.state \notin {"none", "connecting"}
      BY DEF TunnelInv, ServerWireInv
    <3>2. QED
      BY <1>2, <1>5, <1>7, <3>1 DEF TunnelInv, ServerWireInv, Taken
  <2>10. QED
    BY <1>10, <1>11, <2>3, <2>7, <2>8, <2>9 DEF TunnelInv
<1>14. QED
  BY <1>12, <1>13

LEMMA ChunkArrivesKeeps ==
  ASSUME TunnelInv, ChunkArrives
  PROVE  TunnelInv'
<1> DEFINE n == application.sent + 1
<1>1. CASE relay.ready
  BY <1>1, ChunkGoesOut
<1>2. CASE ~relay.ready
  <2>1. /\ TunnelKinds /\ application' = [application EXCEPT !.sent = n] /\ relay.socket \in {"open", "ended"}
        /\ target' = target /\ serverWire' = serverWire /\ up' = up /\ ToNode(<< >>)
        /\ relay' = IF relay.flowing THEN relay ELSE [relay EXCEPT !.unread = Append(@, n)]
    BY <1>2 DEF ChunkArrives, TunnelInv
  <2>2. nodeWire' = nodeWire
    <3>1. nodeWire \o << >> = nodeWire
      BY <2>1 DEF TunnelKinds
    <3>2. QED
      BY <2>1, <3>1 DEF ToNode
  <2>3. n \in Nat /\ relay.unread \in Seq(Nat) /\ application.sent \in Nat
    BY <2>1 DEF TunnelKinds, Relay
  <2>4. application' \in [head : 0..1, sent : Nat, fin : BOOLEAN, got : Seq(Item)]
    BY <2>1, <2>3 DEF TunnelKinds
  <2>5. application'.got = application.got /\ application'.sent = n /\ application'.head = application.head
    BY <2>1 DEF TunnelKinds
  <2> DEFINE u == Append(relay.unread, n)
             k == Len(relay.unread)
  <2>6. /\ u \in Seq(Nat) /\ Len(u) = k + 1 /\ k \in Nat /\ DOMAIN u = 1..(k + 1)
        /\ DOMAIN relay.unread = 1..k
        /\ \A i \in 1..k : u[i] = relay.unread[i]
        /\ u[k + 1] = n
    BY <2>3, AppendProperties
  <2>7. \A i \in 1..k : relay.unread[i] = application.sent - k + i
    BY <2>6 DEF TunnelInv, RelayInv
  <2> HIDE DEF u, k, n
  <2>8. \A i \in 1..(k + 1) : u[i] = n - (k + 1) + i
    <3>1. ASSUME NEW i \in 1..(k + 1) PROVE u[i] = n - (k + 1) + i
      <4>1. CASE i = k + 1
        BY <2>3, <2>6, <4>1
      <4>2. CASE i # k + 1
        <5>1. i \in 1..k
          BY <2>6, <4>2
        <5>2. n = application.sent + 1
          BY DEF n
        <5>3. QED
          BY SMTT(30), <2>3, <2>6, <2>7, <5>1, <5>2
      <4>3. QED
        BY <4>1, <4>2
    <3>2. QED
      BY <3>1
  <2>9. /\ relay'.ready = relay.ready /\ relay'.flowing = relay.flowing
        /\ relay'.record = relay.record /\ relay'.timer = relay.timer /\ relay'.socket = relay.socket
        /\ relay'.socks = relay.socks /\ relay'.unread = IF relay.flowing THEN relay.unread ELSE u
    BY <2>1 DEF TunnelKinds, Relay, u
  <2>10. relay' \in Relay
    <3>1. relay.flowing \/ relay' = [relay EXCEPT !.unread = u]
      BY <2>1 DEF u
    <3>2. QED
      BY <2>1, <2>6, <3>1 DEF TunnelKinds, Relay
  <2>11. TunnelKinds'
    BY <2>1, <2>2, <2>4, <2>10 DEF TunnelKinds
  <2>12. relay.flowing => relay.unread = << >>
    BY DEF TunnelInv, RelayInv
  <2>13. RelayInv'
    <3>1. /\ relay.timer => relay.record /\ ~relay.ready
          /\ relay.socket = "open" => relay.record /\ up.server
          /\ relay.socket = "open" /\ ~relay.ready => application.got = << >>
          /\ relay.ready => relay.flowing
      BY DEF TunnelInv, RelayInv
    <3>2. CASE relay.flowing
      BY <2>1, <2>5, <2>9, <2>12, <3>1, <3>2 DEF RelayInv
    <3>3. CASE ~relay.flowing
      <4>1. relay'.unread = u
        BY <2>9, <3>3
      <4>2. \A i \in DOMAIN relay'.unread : relay'.unread[i] = application'.sent - Len(relay'.unread) + i
        BY <2>5, <2>6, <2>8, <4>1
      <4>3. QED
        BY <2>1, <2>5, <2>9, <3>1, <3>3, <4>2 DEF RelayInv
    <3>4. QED
      BY <3>2, <3>3
  <2>14. \A i \in DOMAIN nodeWire : ~IsData(nodeWire[i])
    BY <1>2 DEF TunnelInv, NodeWireInv
  <2>15. NodeWireInv' /\ TargetInv'
    BY <1>2, <2>1, <2>2, <2>9, <2>14 DEF TunnelInv, NodeWireInv, TargetInv
  <2>16. ServerWireInv' /\ GotInv'
    BY <2>1, <2>2, <2>5, <2>9, GotKept DEF TunnelInv, ServerWireInv, Taken
  <2>17. QED
    BY <2>11, <2>13, <2>15, <2>16 DEF TunnelInv
<1>3. QED
  BY <1>1, <1>2

(* The closing of a socket: SocketClosedKeeps has what it does.              *)
LEMMA SocketClosings ==
  ASSUME TunnelInv, ApplicationAborts \/ ApplicationEnds \/ BothEnded
  PROVE  TunnelInv'
BY SocketClosedKeeps DEF ApplicationAborts, ApplicationEnds, BothEnded

(* Steps of the node leave the server alone.                                 *)
LEMMA NodeStep ==
  ASSUME TunnelInv, UNCHANGED <<application, relay, up>>, relay.socket # "none",
         target' \in Target, nodeWire' \in Seq(ToTarget), serverWire' \in Seq(FromTarget),
         NodeWireInv', TargetInv', ServerWireInv'
  PROVE  TunnelInv'
<1>1. TunnelKinds' /\ GotInv'
  BY GotKept DEF TunnelInv, TunnelKinds
<1>2. RelayInv'
  BY DEF TunnelInv, RelayInv
<1>3. QED
  BY <1>1, <1>2 DEF TunnelInv

LEMMA NodeTakes ==
  ASSUME TunnelInv, NEW type, Sent(type), nodeWire' = Tail(nodeWire)
  PROVE  /\ TunnelKinds /\ nodeWire \in Seq(ToTarget) /\ nodeWire # << >> /\ relay.socket # "none"
         /\ nodeWire' \in Seq(ToTarget) /\ Len(nodeWire') = Len(nodeWire) - 1 /\ Len(nodeWire) \in Nat
         /\ DOMAIN nodeWire = 1..Len(nodeWire) /\ DOMAIN nodeWire' = 1..(Len(nodeWire) - 1)
         /\ \A i \in 1..(Len(nodeWire) - 1) : nodeWire'[i] = nodeWire[i + 1]
         /\ 1 \in DOMAIN nodeWire /\ nodeWire[1].type = type /\ Head(nodeWire) = nodeWire[1]
<1>1. TunnelKinds /\ nodeWire \in Seq(ToTarget) /\ nodeWire # << >> /\ relay.socket # "none"
  BY DEF TunnelInv, TunnelKinds, RelayInv, Sent
<1>2. QED
  BY <1>1, Dropped DEF Sent

LEMMA NodeTakesMore ==
  ASSUME TunnelInv, NEW type, Sent(type), nodeWire' = Tail(nodeWire), NEW i \in DOMAIN nodeWire'
  PROVE  /\ i + 1 \in DOMAIN nodeWire /\ i + 1 > 1 /\ nodeWire'[i] = nodeWire[i + 1] /\ i \in Nat
         /\ nodeWire'[i].type # "tunnel_open"
<1>1. i + 1 \in DOMAIN nodeWire /\ i + 1 > 1 /\ nodeWire'[i] = nodeWire[i + 1] /\ i \in Nat
  BY NodeTakes
<1>2. QED
  BY <1>1 DEF TunnelInv, NodeWireInv

LEMMA NodeTakesWire ==
  ASSUME TunnelInv, NEW type, Sent(type), nodeWire' = Tail(nodeWire), UNCHANGED <<application, relay, up>>
  PROVE  NodeWireInv'
<1> DEFINE L == Len(nodeWire)
<1>1. /\ L \in Nat /\ DOMAIN nodeWire = 1..L /\ DOMAIN nodeWire' = 1..(L - 1) /\ Len(nodeWire') = L - 1 /\ L > 0
      /\ \A i \in 1..(L - 1) : nodeWire'[i] = nodeWire[i + 1]
  BY NodeTakes
<1>2. ASSUME NEW i \in DOMAIN nodeWire', IsData(nodeWire'[i])
      PROVE  /\ i > 1 => IsData(nodeWire'[i - 1]) /\ nodeWire'[i].n = nodeWire'[i - 1].n + 1
             /\ i = Len(nodeWire') /\ up.server => nodeWire'[i].n = application.sent
             /\ relay.ready
  <2>1. i + 1 \in DOMAIN nodeWire /\ i + 1 > 1 /\ nodeWire'[i] = nodeWire[i + 1] /\ i \in Nat
    BY <1>2, NodeTakesMore
  <2>2. /\ IsData(nodeWire[(i + 1) - 1]) /\ nodeWire[i + 1].n = nodeWire[(i + 1) - 1].n + 1
        /\ i + 1 = Len(nodeWire) /\ up.server => nodeWire[i + 1].n = application.sent
        /\ relay.ready
    BY <1>2, <2>1 DEF TunnelInv, NodeWireInv
  <2>3. (i + 1) - 1 = i
    BY <2>1
  <2>4. i > 1 => nodeWire'[i - 1] = nodeWire[i]
    BY <1>1, <1>2, <2>1
  <2>5. i = Len(nodeWire') => i + 1 = Len(nodeWire)
    BY <1>1, <2>1
  <2>6. QED
    BY <2>1, <2>2, <2>3, <2>4, <2>5
<1>3. ASSUME NEW i \in DOMAIN nodeWire'
      PROVE  /\ nodeWire'[i].type # "tunnel_open"
             /\ nodeWire'[i].type = "tunnel_close" => ~relay.record /\ relay.socket = "closed"
  <2>1. i + 1 \in DOMAIN nodeWire /\ nodeWire'[i] = nodeWire[i + 1] /\ nodeWire'[i].type # "tunnel_open"
    BY <1>3, NodeTakesMore
  <2>2. QED
    BY <2>1 DEF TunnelInv, NodeWireInv
<1>4. QED
  BY <1>2, <1>3 DEF NodeWireInv

LEMMA HandleTunnelOpenKeeps ==
  ASSUME TunnelInv, HandleTunnelOpen
  PROVE  TunnelInv'
<1>1. Sent("tunnel_open") /\ nodeWire' = Tail(nodeWire) /\ UNCHANGED <<application, relay, up>>
  BY DEF HandleTunnelOpen
<1>2. /\ TunnelKinds /\ nodeWire' \in Seq(ToTarget) /\ relay.socket # "none"
      /\ target.state = "none" /\ serverWire = << >> /\ ~relay.ready /\ target.got = << >> /\ target.sent = 0
  <2>1. target.state = "none" /\ serverWire = << >> /\ ~relay.ready
    BY <1>1, NodeTakes DEF TunnelInv, NodeWireInv
  <2>2. QED
    BY <1>1, <2>1, NodeTakes DEF TunnelInv, TargetInv, ServerWireInv
<1>3. ASSUME NEW i \in DOMAIN nodeWire'
      PROVE  /\ nodeWire'[i].type # "tunnel_open" /\ ~IsData(nodeWire'[i])
             /\ nodeWire'[i].type = "tunnel_close" => ~relay.record /\ relay.socket = "closed"
  <2>1. i + 1 \in DOMAIN nodeWire /\ nodeWire'[i] = nodeWire[i + 1] /\ nodeWire'[i].type # "tunnel_open"
    BY <1>1, <1>3, NodeTakesMore
  <2>2. QED
    BY <1>2, <2>1 DEF TunnelInv, NodeWireInv, IsData
<1>4. NodeWireInv'
  BY <1>1, NodeTakesWire
<1>5. CASE /\ target' = [target EXCEPT !.state = "connecting", !.timer = TRUE, !.listed = TRUE]
           /\ UNCHANGED serverWire
  <2>1. /\ target' \in Target /\ target'.state = "connecting" /\ target'.got = << >> /\ target'.sent = 0
        /\ serverWire' = << >> /\ serverWire' \in Seq(FromTarget)
    BY <1>2, <1>5 DEF TunnelKinds, Target
  <2>2. TargetInv' /\ ServerWireInv'
    BY <1>1, <1>2, <1>3, <2>1 DEF TargetInv, ServerWireInv, TunnelInv, Gapless, Taken
  <2>3. QED
    BY <1>1, <1>2, <1>4, <2>1, <2>2, NodeStep
<1>6. CASE ToServer(<<Message("tunnel_error")>>) /\ UNCHANGED target
  <2> DEFINE m == Message("tunnel_error")
  <2>1. m \in FromTarget /\ m.type = "tunnel_error"
    BY DEF Message, FromTarget
  <2> HIDE DEF m
  <2>2. <<m>> \in Seq(FromTarget) /\ DOMAIN <<m>> = {1} /\ <<m>>[1] = m
    BY <2>1
  <2>3. serverWire' = IF up.node THEN serverWire \o <<m>> ELSE serverWire
    BY <1>6 DEF ToServer, m
  <2>4. serverWire' \in {<< >>, <<m>>}
    BY <1>2, <2>2, <2>3, NoneFirst
  <2>5. serverWire' \in Seq(FromTarget) /\ \A i \in DOMAIN serverWire' : serverWire'[i].type = "tunnel_error"
    <3>1. CASE serverWire' = << >>
      BY <3>1
    <3>2. CASE serverWire' = <<m>>
      BY <2>1, <2>2, <3>2
    <3>3. QED
      BY <2>4, <3>1, <3>2
  <2>6. TargetInv' /\ ServerWireInv'
    BY <1>1, <1>2, <1>6, <2>5 DEF TargetInv, ServerWireInv, TunnelInv, Gapless, Taken, IsData
  <2>7. QED
    BY <1>1, <1>2, <1>4, <1>6, <2>5, <2>6, NodeStep DEF TunnelKinds
<1>7. QED
  BY <1>5, <1>6 DEF HandleTunnelOpen

LEMMA NodeHandlesDataKeeps ==
  ASSUME TunnelInv, NodeHandlesData
  PROVE  TunnelInv'
<1> DEFINE L == Len(nodeWire)
           x == nodeWire[1].n
           u == Append(target.got, x)
           k == Len(target.got)
<1>1. Sent("tunnel_data") /\ nodeWire' = Tail(nodeWire) /\ UNCHANGED <<application, relay, up, serverWire>>
  BY DEF NodeHandlesData
<1>2. /\ TunnelKinds /\ nodeWire' \in Seq(ToTarget) /\ relay.socket # "none" /\ IsData(nodeWire[1]) /\ relay.ready
      /\ 1 \in DOMAIN nodeWire /\ nodeWire[1] \in ToTarget /\ Head(nodeWire) = nodeWire[1]
  BY <1>1, NodeTakes DEF TunnelInv, NodeWireInv, IsData
<1>3. target.state \notin {"none", "connecting"}
  BY <1>2 DEF TunnelInv, ServerWireInv
<1>4. /\ x \in Nat /\ target.got \in Seq(Nat) /\ k \in Nat /\ u \in Seq(Nat) /\ Len(u) = k + 1
      /\ \A i \in 1..k : u[i] = target.got[i]
      /\ u[k + 1] = x /\ k = Len(target.got)
  <2>1. x \in Nat /\ target.got \in Seq(Nat)
    BY <1>2 DEF ToTarget, TunnelKinds, Target
  <2>2. QED
    BY <2>1, AppendProperties
<1>5. target' = IF target.listed THEN [target EXCEPT !.got = u] ELSE target
  BY <1>2 DEF NodeHandlesData
<1> HIDE DEF u
<1>6. target' \in Target /\ target'.state = target.state /\ target'.sent = target.sent /\ target'.listed = target.listed
      /\ target'.got = IF target.listed THEN u ELSE target.got
  BY <1>2, <1>4, <1>5 DEF TunnelKinds, Target
<1>7. /\ L \in Nat /\ DOMAIN nodeWire = 1..L /\ DOMAIN nodeWire' = 1..(L - 1) /\ Len(nodeWire') = L - 1 /\ L > 0
      /\ \A i \in 1..(L - 1) : nodeWire'[i] = nodeWire[i + 1]
  BY <1>1, NodeTakes
<1>8. NodeWireInv'
  BY <1>1, NodeTakesWire
<1>9. TargetInv'
  <2>1. CASE ~target.listed
    BY <1>1, <1>2, <1>6, <2>1 DEF TunnelInv, TargetInv
  <2>2. CASE target.listed
    <3>1. target'.got = u /\ Last(u) = x /\ u # << >>
      BY <1>4, <1>6, <2>2 DEF Last
    <3>2. k > 0 => x = target.got[k] + 1
      <4>1. ASSUME k > 0 PROVE x = target.got[k] + 1
        <5>1. target.got # << >> /\ Last(target.got) = target.got[k]
          BY <1>4, <4>1 DEF Last
        <5>2. nodeWire # << >>
          BY <1>1, NodeTakes
        <5>3. QED
          BY <1>2, <2>2, <5>1, <5>2 DEF TunnelInv, TargetInv
      <4>2. QED
        BY <4>1
    <3>3. Gapless(u)
      <4>1. Gapless(target.got)
        BY DEF TunnelInv, TargetInv
      <4>2. \A i \in 1..(k - 1) : target.got[i + 1] = target.got[i] + 1
        BY <4>1 DEF Gapless
      <4> HIDE DEF k, x
      <4>3. ASSUME NEW i \in 1..k PROVE u[i + 1] = u[i] + 1
        <5>1. CASE i = k
          <6>1. k > 0 /\ k \in Nat /\ k \in 1..k
            BY <4>3, <5>1
          <6>2. u[k + 1] = x /\ x = target.got[k] + 1 /\ u[k] = target.got[k]
            BY <1>4, <3>2, <6>1
          <6>3. QED
            BY <5>1, <6>2
        <5>2. CASE i # k
          <6>1. i \in 1..(k - 1) /\ i + 1 \in 1..k
            BY <1>4, <4>3, <5>2
          <6>2. QED
            BY <1>4, <4>2, <4>3, <6>1
        <5>3. QED
          BY <5>1, <5>2
      <4>4. (k + 1) - 1 = k
        BY <1>4
      <4>5. QED
        BY <1>4, <4>3, <4>4 DEF Gapless
    <3>4. nodeWire' # << >> /\ IsData(nodeWire'[1]) => nodeWire'[1].n = x + 1
      <4>1. ASSUME nodeWire' # << >>, IsData(nodeWire'[1]) PROVE nodeWire'[1].n = x + 1
        <5>1. 2 \in DOMAIN nodeWire /\ nodeWire'[1] = nodeWire[2]
          BY <1>7, <1>2, <4>1
        <5>2. nodeWire[2].n = nodeWire[2 - 1].n + 1
          BY <4>1, <5>1 DEF TunnelInv, NodeWireInv
        <5>3. QED
          BY <5>1, <5>2
      <4>2. QED
        BY <4>1
    <3>5. nodeWire' = << >> /\ up.server => x = application.sent
      <4>1. nodeWire' = << >> => L = 1
        BY SMTT(30), <1>7
      <4>2. L = 1 /\ up.server => nodeWire[1].n = application.sent
        BY <1>2 DEF TunnelInv, NodeWireInv
      <4>3. QED
        BY <4>1, <4>2
    <3>6. QED
      BY <1>1, <1>2, <1>3, <1>6, <3>1, <3>3, <3>4, <3>5 DEF TargetInv
  <2>3. QED
    BY <2>1, <2>2
<1>10. ServerWireInv'
  BY <1>1, <1>3, <1>6 DEF TunnelInv, ServerWireInv, Taken
<1>11. QED
  BY <1>1, <1>2, <1>6, <1>8, <1>9, <1>10, NodeStep DEF TunnelKinds

LEMMA NodeHandlesCloseKeeps ==
  ASSUME TunnelInv, NodeHandlesClose
  PROVE  TunnelInv'
<1>1. Sent("tunnel_close") /\ nodeWire' = Tail(nodeWire) /\ UNCHANGED <<application, relay, up, serverWire>>
  BY DEF NodeHandlesClose
<1>2. /\ TunnelKinds /\ nodeWire' \in Seq(ToTarget) /\ relay.socket = "closed"
  BY <1>1, NodeTakes DEF TunnelInv, NodeWireInv
<1>3. target' = IF target.listed THEN ClosedByServer ELSE target
  BY DEF NodeHandlesClose
<1>4. /\ target' \in Target /\ ~target'.listed /\ target'.got = target.got /\ target'.sent = target.sent
      /\ target'.state = target.state \/ target'.state \notin {"none", "connecting"}
  BY <1>2, <1>3 DEF TunnelKinds, Target, ClosedByServer
<1>5. NodeWireInv'
  BY <1>1, NodeTakesWire
<1>6. TargetInv'
  BY <1>1, <1>2, <1>4 DEF TunnelInv, TargetInv
<1>7. ServerWireInv'
  <2>1. \A i \in DOMAIN nodeWire' : nodeWire'[i].type # "tunnel_open"
    BY <1>1, NodeTakesMore
  <2>2. QED
    BY <1>1, <1>2, <1>4, <2>1 DEF TunnelInv, ServerWireInv, Taken
<1>8. QED
  BY <1>1, <1>2, <1>4, <1>5, <1>6, <1>7, NodeStep DEF TunnelKinds

(* The target's connection speaks: nothing is on its way to open it.         *)
LEMMA TargetSpeaks ==
  ASSUME TunnelInv, target.state \notin {"none"}, UNCHANGED <<application, relay, up, nodeWire>>,
         target' \in Target, target'.got = target.got, target'.listed => target.listed,
         target'.state # "none", serverWire' \in Seq(FromTarget), ServerWireInv'
  PROVE  TunnelInv'
<1>1. TunnelKinds /\ relay.socket # "none" /\ nodeWire \in Seq(ToTarget)
  BY DEF TunnelInv, TunnelKinds, RelayInv
<1>2. \A i \in DOMAIN nodeWire : nodeWire[i].type # "tunnel_open"
  BY DEF TunnelInv, NodeWireInv
<1>3. NodeWireInv'
  BY <1>2 DEF TunnelInv, NodeWireInv
<1>4. TargetInv'
  BY DEF TunnelInv, TargetInv
<1>5. QED
  BY <1>1, <1>3, <1>4, NodeStep

LEMMA TwoWords ==
  ASSUME NEW S, NEW a \in S, NEW b \in S
  PROVE  <<a, b>> \in Seq(S) /\ Len(<<a, b>>) = 2 /\ DOMAIN <<a, b>> = 1..2 /\ <<a, b>>[1] = a /\ <<a, b>>[2] = b
OBVIOUS

LEMMA ConnectedKeeps ==
  ASSUME TunnelInv, Connected
  PROVE  TunnelInv'
<1>1. /\ TunnelKinds /\ target.state = "connecting" /\ serverWire = << >> /\ ~relay.ready /\ target.sent = 0
  BY DEF TunnelInv, ServerWireInv, Connected
<1>2. /\ UNCHANGED <<application, relay, up, nodeWire>> /\ ToServer(<<Message("tunnel_ready")>>)
      /\ target' = [target EXCEPT !.state = IF target.listed THEN "established" ELSE "ending", !.timer = FALSE]
  BY DEF Connected
<1>3. /\ target' \in Target /\ target'.got = target.got /\ target'.listed = target.listed
      /\ target'.state \in {"established", "ending"} /\ target'.sent = 0
  BY <1>1, <1>2 DEF TunnelKinds, Target
<1> DEFINE m == Message("tunnel_ready")
<1>4. m \in FromTarget /\ m.type = "tunnel_ready"
  BY DEF Message, FromTarget
<1> HIDE DEF m
<1>5. <<m>> \in Seq(FromTarget) /\ DOMAIN <<m>> = {1} /\ <<m>>[1] = m /\ Len(<<m>>) = 1
  BY <1>4
<1>6. serverWire' = IF up.node THEN serverWire \o <<m>> ELSE serverWire
  BY <1>2 DEF ToServer, m
<1>7. serverWire' = IF up.node THEN <<m>> ELSE << >>
  BY <1>1, <1>5, <1>6, NoneFirst
<1>8. Taken' = -1
  BY <1>1, <1>2 DEF Taken
<1>9. CASE up.node
  <2>1. serverWire' \in Seq(FromTarget) /\ DOMAIN serverWire' = {1} /\ serverWire'[1].type = "tunnel_ready" /\ Len(serverWire') = 1
    BY <1>4, <1>5, <1>7, <1>9
  <2>2. ServerWireInv'
    BY SMTT(30), <1>1, <1>2, <1>3, <1>8, <2>1 DEF ServerWireInv, IsData
  <2>3. QED
    BY <1>1, <1>2, <1>3, <2>1, <2>2, TargetSpeaks
<1>10. CASE ~up.node
  <2>1. serverWire' = << >> /\ serverWire' \in Seq(FromTarget)
    BY <1>7, <1>10
  <2>2. ServerWireInv'
    BY <1>1, <1>2, <1>3, <1>8, <1>10, <2>1 DEF ServerWireInv, IsData
  <2>3. QED
    BY <1>1, <1>2, <1>3, <2>1, <2>2, TargetSpeaks
<1>11. QED
  BY <1>9, <1>10

(* The connection is gone, and says so.                                      *)
LEMMA GoneKeeps ==
  ASSUME TunnelInv, target.state # "none", target' = Gone, UNCHANGED <<application, relay, up, nodeWire>>,
         NEW ms \in Seq(FromTarget), ToServer(ms),
         \A i \in DOMAIN ms : ms[i].type \in {"tunnel_error", "tunnel_close"}
  PROVE  TunnelInv'
<1> DEFINE L == Len(serverWire)
<1>1. TunnelKinds /\ serverWire \in Seq(FromTarget) /\ L \in Nat /\ Len(ms) \in Nat /\ DOMAIN serverWire = 1..L
      /\ DOMAIN ms = 1..Len(ms)
  BY DEF TunnelInv, TunnelKinds
<1>2. /\ target' \in Target /\ target'.got = target.got /\ ~target'.listed /\ target'.state = "closed"
  BY <1>1 DEF TunnelKinds, Target, Gone
<1>3. serverWire' \in Seq(FromTarget)
  BY <1>1, SentToServer
<1>4. ASSUME NEW i \in DOMAIN serverWire'
      PROVE  \/ i \in DOMAIN serverWire /\ serverWire'[i] = serverWire[i]
             \/ serverWire'[i].type \in {"tunnel_error", "tunnel_close"}
  <2>1. CASE up.node
    <3>1. serverWire' = serverWire \o ms
      BY <2>1 DEF ToServer
    <3>2. i \in 1..(L + Len(ms))
      BY <1>1, <1>4, <3>1, Joined
    <3>3. CASE i <= L
      BY <1>1, <3>1, <3>2, <3>3, Joined
    <3>4. CASE i > L
      <4>1. serverWire'[i] = ms[i - L] /\ i - L \in 1..Len(ms)
        BY <1>1, <3>1, <3>2, <3>4, Joined
      <4>2. QED
        BY <1>1, <4>1
    <3>5. QED
      BY <1>1, <3>2, <3>3, <3>4
  <2>2. CASE ~up.node
    BY <1>4, <2>2 DEF ToServer
  <2>3. QED
    BY <2>1, <2>2
<1>5. ServerWireInv'
  <2>1. \A i \in DOMAIN serverWire' : serverWire'[i].type = "tunnel_ready" => i = 1 /\ ~relay.ready
    BY <1>4 DEF TunnelInv, ServerWireInv
  <2>2. ASSUME relay.socket = "open", NEW i \in DOMAIN serverWire', IsData(serverWire'[i])
        PROVE  /\ serverWire'[i].n = Taken' + i
               /\ ~relay.ready => serverWire'[1].type = "tunnel_ready"
    <3>1. i \in DOMAIN serverWire /\ serverWire'[i] = serverWire[i]
      BY <1>4, <2>2 DEF IsData
    <3>2. serverWire[i].n = Taken + i /\ (~relay.ready => serverWire[1].type = "tunnel_ready")
      BY <2>2, <3>1 DEF TunnelInv, ServerWireInv
    <3>3. 1 \in 1..L
      BY <1>1, <3>1
    <3>4. serverWire'[1] = serverWire[1]
      BY <1>1, <3>3, Joined DEF ToServer
    <3>5. Taken' = Taken
      BY DEF Taken
    <3>6. QED
      BY <3>1, <3>2, <3>4, <3>5
  <2>3. relay.socket = "open" /\ relay.ready => Taken' >= 0 /\ \A i \in DOMAIN application.got : application.got[i].type # "failed"
    BY DEF TunnelInv, ServerWireInv, Taken
  <2>4. QED
    BY <1>2, <2>1, <2>2, <2>3 DEF ServerWireInv
<1>6. QED
  BY <1>2, <1>3, <1>5, TargetSpeaks

LEMMA ClosingWords ==
  /\ <<Message("tunnel_close")>> \in Seq(FromTarget)
  /\ <<Message("tunnel_error"), Message("tunnel_close")>> \in Seq(FromTarget)
  /\ \A i \in DOMAIN <<Message("tunnel_close")>> :
       <<Message("tunnel_close")>>[i].type \in {"tunnel_error", "tunnel_close"}
  /\ \A i \in DOMAIN <<Message("tunnel_error"), Message("tunnel_close")>> :
       <<Message("tunnel_error"), Message("tunnel_close")>>[i].type \in {"tunnel_error", "tunnel_close"}
<1> DEFINE a == Message("tunnel_error")
           b == Message("tunnel_close")
<1>1. a \in FromTarget /\ b \in FromTarget /\ a.type = "tunnel_error" /\ b.type = "tunnel_close"
  BY DEF Message, FromTarget
<1> HIDE DEF a, b
<1>2. <<b>> \in Seq(FromTarget) /\ DOMAIN <<b>> = {1} /\ <<b>>[1] = b
  BY <1>1
<1>3. <<a, b>> \in Seq(FromTarget) /\ DOMAIN <<a, b>> = 1..2 /\ <<a, b>>[1] = a /\ <<a, b>>[2] = b
  BY <1>1, TwoWords
<1>4. \A i \in DOMAIN <<b>> : <<b>>[i].type \in {"tunnel_error", "tunnel_close"}
  BY <1>1, <1>2
<1>5. \A i \in DOMAIN <<a, b>> : <<a, b>>[i].type \in {"tunnel_error", "tunnel_close"}
  BY <1>1, <1>3
<1>6. QED
  BY <1>2, <1>3, <1>4, <1>5 DEF a, b

LEMMA TargetGoes ==
  ASSUME TunnelInv, ConnectFails \/ TargetCloses
  PROVE  TunnelInv'
BY ClosingWords, GoneKeeps DEF ConnectFails, TargetCloses

LEMMA TargetSendsKeeps ==
  ASSUME TunnelInv, TargetSends
  PROVE  TunnelInv'
<1> DEFINE L == Len(serverWire)
           c == TunnelChunk(target.sent + 1)
<1>1. /\ TunnelKinds /\ serverWire \in Seq(FromTarget) /\ L \in Nat /\ DOMAIN serverWire = 1..L
      /\ target.state \in {"established", "ending"} /\ target.sent \in Nat
  BY DEF TunnelInv, TunnelKinds, Target, TargetSends
<1>2. /\ UNCHANGED <<application, relay, up, nodeWire>> /\ ToServer(<<c>>)
      /\ target' = [target EXCEPT !.sent = @ + 1]
  BY DEF TargetSends
<1>3. c \in FromTarget /\ c.n = target.sent + 1 /\ c.type = "tunnel_data"
  BY <1>1 DEF FromTarget, TunnelChunk
<1>4. target' \in Target
  <2>1. target \in Target /\ target' = [target EXCEPT !.sent = target.sent + 1] /\ target.sent + 1 \in Nat
    BY <1>1, <1>2 DEF TunnelKinds
  <2>2. QED
    BY <2>1 DEF Target
<1>5. /\ target'.got = target.got /\ target'.listed = target.listed
      /\ target'.state = target.state /\ target'.sent = target.sent + 1
  BY <1>1, <1>2 DEF TunnelKinds, Target
<1>6. Taken' = Taken
  BY <1>2 DEF Taken
<1> HIDE DEF c
<1>7. CASE up.node
  <2>1. /\ serverWire' \in Seq(FromTarget) /\ Len(serverWire') = L + 1 /\ DOMAIN serverWire' = 1..(L + 1)
        /\ \A i \in 1..L : serverWire'[i] = serverWire[i]
        /\ serverWire'[L + 1] = c
    BY <1>1, <1>2, <1>3, <1>7, Extended DEF ToServer
  <2>2. ASSUME relay.socket = "open"
        PROVE  /\ Taken \in Int /\ Taken + L = target.sent
               /\ ~relay.ready => L > 0 /\ serverWire[1].type = "tunnel_ready"
    <3>1. application.got \in Seq(Item) /\ application.head \in 0..1
      BY <1>1 DEF TunnelKinds
    <3>2. Taken \in Int
      BY <3>1 DEF Taken
    <3>3. /\ Taken + L = target.sent
          /\ ~relay.ready => serverWire # << >> /\ serverWire[1].type = "tunnel_ready"
      BY <1>1, <1>7, <2>2 DEF TunnelInv, ServerWireInv
    <3>4. serverWire # << >> => L > 0
      BY <1>1
    <3>5. QED
      BY <3>2, <3>3, <3>4
  <2>3. \A i \in DOMAIN serverWire' : serverWire'[i].type = "tunnel_ready" => i = 1 /\ ~relay.ready
    <3>1. \A i \in 1..L : serverWire[i].type = "tunnel_ready" => i = 1 /\ ~relay.ready
      BY <1>1 DEF TunnelInv, ServerWireInv
    <3> HIDE DEF L
    <3>2. QED
      BY <1>1, <1>3, <2>1, <3>1
  <2>4. ASSUME relay.socket = "open", NEW i \in DOMAIN serverWire', IsData(serverWire'[i])
        PROVE  serverWire'[i].n = Taken + i
    <3>1. CASE i = L + 1
      <4> HIDE DEF L
      <4>1. QED
        BY <1>1, <1>3, <2>1, <2>2, <2>4, <3>1
    <3>2. CASE i # L + 1
      <4>1. i \in 1..L
        BY <1>1, <2>1, <2>4, <3>2
      <4>2. QED
        BY <1>1, <2>1, <2>4, <4>1 DEF TunnelInv, ServerWireInv
    <3>3. QED
      BY <3>1, <3>2
  <2>5. relay.socket = "open" => Taken + (L + 1) = target'.sent
    <3> HIDE DEF L
    <3>1. QED
      BY <1>1, <1>5, <2>2
  <2>6. relay.socket = "open" /\ ~relay.ready => serverWire' # << >> /\ serverWire'[1].type = "tunnel_ready"
    <3>1. L > 0 => serverWire'[1] = serverWire[1] /\ serverWire' # << >>
      BY <1>1, <2>1
    <3>2. QED
      BY <2>2, <3>1
  <2>7. ServerWireInv'
    <3>1. relay.socket = "open" /\ relay.ready => Taken >= 0 /\ \A i \in DOMAIN application.got : application.got[i].type # "failed"
      BY DEF TunnelInv, ServerWireInv
    <3> HIDE DEF L
    <3>2. QED
      BY <1>1, <1>2, <1>5, <1>6, <2>1, <2>3, <2>4, <2>5, <2>6, <3>1 DEF ServerWireInv
  <2>8. QED
    BY <1>1, <1>2, <1>4, <1>5, <2>1, <2>7, TargetSpeaks
<1>8. CASE ~up.node
  <2>1. serverWire' = serverWire
    BY <1>2, <1>8 DEF ToServer
  <2>2. ServerWireInv'
    BY <1>1, <1>2, <1>5, <1>6, <1>8, <2>1 DEF TunnelInv, ServerWireInv
  <2>3. QED
    BY <1>1, <1>2, <1>4, <1>5, <2>1, <2>2, TargetSpeaks
<1>9. QED
  BY <1>7, <1>8

LEMMA NodeLosesServerKeeps ==
  ASSUME TunnelInv, NodeLosesServer
  PROVE  TunnelInv'
<1>1. /\ TunnelKinds /\ up.node /\ up' = [up EXCEPT !.node = FALSE] /\ nodeWire' = << >>
      /\ application' = application /\ relay' = relay /\ serverWire' = serverWire
      /\ target' = IF target.listed THEN Gone ELSE target
  BY DEF NodeLosesServer, TunnelInv
<1>2. up' \in [server : BOOLEAN, node : BOOLEAN] /\ up'.server = up.server /\ ~up'.node
  BY <1>1 DEF TunnelKinds
<1>3. target' \in Target
  BY <1>1 DEF TunnelKinds, Target, Gone
<1>4. /\ target'.got = target.got /\ ~target'.listed /\ target'.sent = target.sent
      /\ target' = target \/ (target.listed /\ target'.state = "closed")
  BY <1>1 DEF TunnelKinds, Target, Gone
<1>5. TunnelKinds'
  <2>1. nodeWire' \in Seq(ToTarget)
    BY <1>1
  <2>2. QED
    BY <1>1, <1>2, <1>3, <2>1 DEF TunnelKinds
<1>6. RelayInv'
  BY <1>1, <1>2, <1>4 DEF TunnelInv, RelayInv, TargetInv
<1>7. NodeWireInv' /\ TargetInv'
  BY <1>1, <1>4 DEF TunnelInv, NodeWireInv, TargetInv
<1>8. ServerWireInv'
  BY <1>1, <1>2, <1>4 DEF TunnelInv, ServerWireInv, Taken
<1>9. GotInv'
  BY <1>1, <1>2, GotKept
<1>10. QED
  BY <1>5, <1>6, <1>7, <1>8, <1>9 DEF TunnelInv

LEMMA TunnelStarts == ConnectInit => TunnelInv
<1> SUFFICES ASSUME ConnectInit PROVE TunnelInv
  OBVIOUS
<1>1. << >> \in Seq(Item) /\ << >> \in Seq(Nat) /\ << >> \in Seq(ToTarget) /\ << >> \in Seq(FromTarget)
  OBVIOUS
<1>2. application \in [head : 0..1, sent : Nat, fin : BOOLEAN, got : Seq(Item)]
  BY <1>1 DEF ConnectInit
<1>3. relay \in Relay
  BY <1>1 DEF ConnectInit, Relay
<1>4. target \in Target
  BY <1>1 DEF ConnectInit, Target
<1>5. TunnelKinds
  BY <1>1, <1>2, <1>3, <1>4 DEF ConnectInit, TunnelKinds
<1>6. RelayInv /\ NodeWireInv /\ TargetInv /\ ServerWireInv /\ GotInv
  BY DEF ConnectInit, RelayInv, NodeWireInv, TargetInv, ServerWireInv, GotInv, Gapless, AnsweredThenFed
<1>7. QED
  BY <1>5, <1>6 DEF TunnelInv

LEMMA TunnelStep == TunnelInv /\ [ConnectNext]_connectVars => TunnelInv'
<1> SUFFICES ASSUME TunnelInv, [ConnectNext]_connectVars PROVE TunnelInv'
  OBVIOUS
<1>1. CASE UNCHANGED connectVars
  <2>1. UNCHANGED <<application, relay, target, nodeWire, serverWire, up>>
    BY <1>1 DEF connectVars
  <2>2. TunnelKinds' /\ RelayInv' /\ NodeWireInv'
    BY <2>1 DEF TunnelInv, TunnelKinds, RelayInv, NodeWireInv
  <2>3. TargetInv' /\ ServerWireInv' /\ GotInv'
    <3>1. TargetInv' /\ GotInv'
      BY <2>1, GotKept DEF TunnelInv, TargetInv
    <3>2. ServerWireInv'
      BY <2>1 DEF TunnelInv, ServerWireInv, Taken
    <3>3. QED
      BY <3>1, <3>2
  <2>4. QED
    BY <2>2, <2>3 DEF TunnelInv
<1>2. CASE HandleConnect \/ HandleSocks5 \/ RefuseConnect \/ ChunkArrives \/ ApplicationCloses
  BY <1>2, HandleConnectKeeps, HandleSocks5Keeps, RefuseConnectKeeps, ChunkArrivesKeeps, ApplicationClosesKeeps
<1>3. CASE ApplicationAborts \/ ApplicationEnds \/ BothEnded \/ TunnelTimeout \/ IdleFires
  BY <1>3, SocketClosings, TunnelTimeoutKeeps, IdleFiresKeeps
<1>4. CASE ServerReceives
  BY <1>4, HandleTunnelReadyKeeps, HandleTunnelDataKeeps, HandleTunnelEndKeeps DEF ServerReceives
<1>5. CASE Connected \/ ConnectFails \/ TargetSends \/ TargetCloses
  BY <1>5, ConnectedKeeps, TargetGoes, TargetSendsKeeps
<1>6. CASE NodeReceives
  BY <1>6, HandleTunnelOpenKeeps, NodeHandlesDataKeeps, NodeHandlesCloseKeeps DEF NodeReceives
<1>7. CASE ServerLosesNode \/ NodeLosesServer
  BY <1>7, ServerLosesNodeKeeps, NodeLosesServerKeeps
<1>8. QED
  BY <1>1, <1>2, <1>3, <1>4, <1>5, <1>6, <1>7 DEF ConnectNext

LEMMA TunnelGuarantee == TunnelInv => ConnectTypeOK /\ CleanTunnel
<1> SUFFICES ASSUME TunnelInv PROVE ConnectTypeOK /\ CleanTunnel
  OBVIOUS
<1>1. ConnectTypeOK
  BY DEF TunnelInv, TunnelKinds, RelayInv, ConnectTypeOK, Application, Item
<1>2. AnsweredThenFed(BeforeLoss)
  <2> DEFINE g == application.got
  <2>1. CASE AnsweredThenFed(g)
    <3>1. CASE relay.socks /\ ~up.server /\ Len(g) > 1 /\ Last(g).type = "failed"
      <4>1. g \in Seq(Item) /\ Len(g) \in Nat /\ Last(g) = g[Len(g)] /\ Len(g) \in DOMAIN g
        BY <3>1 DEF TunnelInv, TunnelKinds, Last
      <4>2. IsReply(g[Len(g)])
        BY <3>1, <4>1 DEF IsReply
      <4>3. FALSE
        BY <2>1, <3>1, <4>1, <4>2 DEF AnsweredThenFed
      <4>4. QED
        BY <4>3
    <3>2. CASE ~(relay.socks /\ ~up.server /\ Len(g) > 1 /\ Last(g).type = "failed")
      BY <2>1, <3>2 DEF BeforeLoss
    <3>3. QED
      BY <3>1, <3>2
  <2>2. CASE /\ ~up.server /\ relay.socks /\ Len(g) > 1
             /\ Last(g).type = "failed" /\ AnsweredThenFed(Front(g))
    BY <2>2 DEF BeforeLoss
  <2>3. QED
    BY <2>1, <2>2 DEF TunnelInv, GotInv
<1>3. QED
  BY <1>1, <1>2 DEF CleanTunnel, TunnelInv, TargetInv

----------------------------------------------------------------------------
(* UDP relays: an answer is for the association of the socket it came to,    *)
(* and a socket's association never changes once it has one.                 *)
Datagram == [id : Nat, assocId : Association, src : Source, to : Destination]
AnswerFor == {m \in [ assocId : Association \cup {None}, src : Source \cup {None},
                   from : Destination \cup {None}, for : Association \cup {None} ] : m.assocId = m.for}

AssociationsTyped ==
  /\ udpAssociations \in SUBSET Association /\ ended \in SUBSET Association
  /\ udpAssociations \cap ended = {} /\ onUdpData \in Association \cup {None}

WiresTyped ==
  /\ toRelay \in [Relays -> Seq(Datagram)] /\ answers \in [Relays -> Seq(AnswerFor)]
  /\ count \in [datagrams : Nat, answers : Nat]
  /\ \A m \in delivered : m.association = m.for

SocketsTyped ==
  /\ udpClients \in [Relays -> [Association -> 0..MaxSockets]]
  /\ udpSocket \in [Relays -> [SocketId -> UdpSocket]]

(* An open socket, or one whose timer runs, has an association; and one that *)
(* is listed is open, under the association it has.                          *)
SocketsOwned ==
  /\ \A k \in Relays : \A i \in SocketId :
       udpSocket[k][i].open \/ udpSocket[k][i].timer => udpSocket[k][i].association \in Association
  /\ \A k \in Relays : \A a \in Association :
       udpClients[k][a] # 0 =>
         udpSocket[k][udpClients[k][a]].open /\ udpSocket[k][udpClients[k][a]].association = a

UdpInv == AssociationsTyped /\ WiresTyped /\ SocketsTyped /\ SocketsOwned

LEMMA AssociationsKeep ==
  ASSUME UdpInv, NEW a \in Association, HandleUDPAssociate(a) \/ ControlCloses(a)
  PROVE  UdpInv'
BY DEF HandleUDPAssociate, ControlCloses, socketVars, UdpInv, AssociationsTyped, WiresTyped, SocketsTyped, SocketsOwned

LEMMA OneMore ==
  ASSUME NEW S, NEW s \in Seq(S), NEW m \in S
  PROVE  Append(s, m) \in Seq(S)
OBVIOUS

LEMMA OneLess ==
  ASSUME NEW S, NEW s \in Seq(S), s # << >>
  PROVE  Head(s) \in S /\ Tail(s) \in Seq(S)
OBVIOUS

LEMMA Counted ==
  ASSUME NEW c \in [datagrams : Nat, answers : Nat]
  PROVE  /\ [c EXCEPT !.datagrams = @ + 1] \in [datagrams : Nat, answers : Nat]
         /\ [c EXCEPT !.answers = @ + 1] \in [datagrams : Nat, answers : Nat]
<1>1. c.datagrams + 1 \in Nat /\ c.answers + 1 \in Nat
  OBVIOUS
<1> DEFINE d == c.datagrams + 1
           e == c.answers + 1
<1> HIDE DEF d, e
<1>2. [c EXCEPT !.datagrams = d] \in [datagrams : Nat, answers : Nat]
  BY <1>1 DEF d
<1>3. [c EXCEPT !.answers = e] \in [datagrams : Nat, answers : Nat]
  BY <1>1 DEF e
<1>4. QED
  BY <1>2, <1>3 DEF d, e

LEMMA RelayDatagramKeeps ==
  ASSUME UdpInv, NEW a \in Association, NEW s \in Source, NEW d \in Destination, NEW k \in Relays,
         RelayDatagram(a, s, d, k)
  PROVE  UdpInv'
<1> DEFINE m == [id |-> count'.datagrams, assocId |-> a, src |-> s, to |-> d]
<1>1. count' \in [datagrams : Nat, answers : Nat]
  BY Counted DEF RelayDatagram, UdpInv, WiresTyped
<1>2. m \in Datagram
  BY <1>1 DEF Datagram
<1> HIDE DEF m
<1>3. toRelay' = [toRelay EXCEPT ![k] = Append(toRelay[k], m)] /\ toRelay \in [Relays -> Seq(Datagram)]
  BY DEF RelayDatagram, UdpInv, WiresTyped, m
<1>4. toRelay' \in [Relays -> Seq(Datagram)]
  BY <1>2, <1>3, OneMore
<1>5. QED
  BY <1>1, <1>4 DEF RelayDatagram, relayVars, socketVars, UdpInv, AssociationsTyped, WiresTyped, SocketsTyped, SocketsOwned

LEMMA HandleAnswerKeeps ==
  ASSUME UdpInv, NEW k \in Relays, HandleAnswer(k)
  PROVE  UdpInv'
<1>1. answers \in [Relays -> Seq(AnswerFor)] /\ answers[k] # << >> /\ answers' = [answers EXCEPT ![k] = Tail(answers[k])]
  BY DEF HandleAnswer, UdpInv, WiresTyped
<1>2. answers' \in [Relays -> Seq(AnswerFor)] /\ Head(answers[k]) \in AnswerFor
  BY <1>1, OneLess
<1>3. \A m \in delivered' : m.association = m.for
  BY <1>2 DEF HandleAnswer, AssociationOf, AnswerFor, UdpInv, WiresTyped
<1>4. QED
  BY <1>2, <1>3 DEF HandleAnswer, relayVars, socketVars, UdpInv, AssociationsTyped, WiresTyped, SocketsTyped, SocketsOwned

LEMMA Answered ==
  ASSUME UdpInv, NEW k \in Relays, NEW i \in SocketId, NEW d \in Destination \cup {None}
  PROVE  [assocId |-> udpSocket[k][i].association, src |-> udpSocket[k][i].src, from |-> d,
          for |-> udpSocket[k][i].association] \in AnswerFor
BY DEF UdpInv, SocketsTyped, UdpSocket, AnswerFor

LEMMA TargetAnswersKeeps ==
  ASSUME UdpInv, NEW k \in Relays, NEW i \in SocketId, NEW d \in Destination, TargetAnswers(k, i, d)
  PROVE  UdpInv'
<1> DEFINE m == [assocId |-> udpSocket[k][i].association, src |-> udpSocket[k][i].src, from |-> d,
                 for |-> udpSocket[k][i].association]
<1>1. m \in AnswerFor
  BY Answered
<1> HIDE DEF m
<1>2. answers \in [Relays -> Seq(AnswerFor)] /\ answers' \in {answers, [answers EXCEPT ![k] = Append(answers[k], m)]}
  BY DEF TargetAnswers, UdpInv, WiresTyped, m
<1>3. answers' \in [Relays -> Seq(AnswerFor)]
  BY SMTT(30), <1>1, <1>2, OneMore
<1>4. count' \in [datagrams : Nat, answers : Nat]
  BY Counted DEF TargetAnswers, UdpInv, WiresTyped
<1>5. QED
  BY <1>3, <1>4 DEF TargetAnswers, relayVars, socketVars, UdpInv, AssociationsTyped, WiresTyped, SocketsTyped, SocketsOwned

LEMMA TwoLevels ==
  ASSUME NEW A, NEW B, NEW V, NEW f \in [A -> [B -> V]], NEW x \in A, NEW y \in B, NEW v \in V,
         NEW g, g = [f EXCEPT ![x] = [f[x] EXCEPT ![y] = v]]
  PROVE  /\ g \in [A -> [B -> V]] /\ g[x][y] = v
         /\ \A z \in A : \A w \in B : z # x \/ w # y => g[z][w] = f[z][w]
OBVIOUS

(* One socket changes, and keeps its association.                            *)
LEMMA OneSocket ==
  ASSUME UdpInv, NEW k \in Relays, NEW i \in SocketId, NEW socket \in UdpSocket,
         udpSocket' = [udpSocket EXCEPT ![k] = [udpSocket[k] EXCEPT ![i] = socket]]
  PROVE  /\ udpSocket' \in [Relays -> [SocketId -> UdpSocket]]
         /\ udpSocket'[k][i] = socket
         /\ \A j \in Relays : \A l \in SocketId : j # k \/ l # i => udpSocket'[j][l] = udpSocket[j][l]
BY TwoLevels DEF UdpInv, SocketsTyped

LEMMA SendFailsKeeps ==
  ASSUME UdpInv, NEW k \in Relays, NEW i \in SocketId, SendFails(k, i)
  PROVE  UdpInv'
<1> DEFINE m == [assocId |-> udpSocket[k][i].association, src |-> udpSocket[k][i].src, from |-> None,
                 for |-> udpSocket[k][i].association]
           socket == [udpSocket[k][i] EXCEPT !.pending = Front(@)]
<1>1. m \in AnswerFor
  BY Answered
<1>2. socket \in UdpSocket /\ \A f \in {"open", "association", "timer"} : socket[f] = udpSocket[k][i][f]
  <2>1. udpSocket[k][i] \in UdpSocket /\ udpSocket[k][i].pending \in Seq(Nat) /\ udpSocket[k][i].pending # << >>
    BY DEF SendFails, UdpInv, SocketsTyped, UdpSocket
  <2>2. Front(udpSocket[k][i].pending) \in Seq(Nat)
    BY SMTT(30), <2>1 DEF Front
  <2>3. QED
    BY <2>1, <2>2 DEF UdpSocket
<1>3. udpSocket' = [udpSocket EXCEPT ![k] = [udpSocket[k] EXCEPT ![i] = socket]]
  BY DEF SendFails, UdpInv, SocketsTyped
<1> HIDE DEF m, socket
<1>4. answers \in [Relays -> Seq(AnswerFor)] /\ answers' = [answers EXCEPT ![k] = Append(answers[k], m)]
  BY DEF SendFails, UdpInv, WiresTyped, m
<1>5. answers' \in [Relays -> Seq(AnswerFor)]
  BY <1>1, <1>4, OneMore
<1>6. SocketsTyped'
  <2>1. udpSocket' \in [Relays -> [SocketId -> UdpSocket]]
    BY <1>2, <1>3, OneSocket
  <2>2. QED
    BY <2>1 DEF SendFails, UdpInv, SocketsTyped
<1>7. \A j \in Relays : \A l \in SocketId : \A f \in {"open", "association", "timer"} :
        udpSocket'[j][l][f] = udpSocket[j][l][f]
  BY <1>2, <1>3, OneSocket
<1>8. SocketsOwned'
  <2>1. \A j \in Relays : \A l \in SocketId :
          /\ udpSocket'[j][l].open = udpSocket[j][l].open /\ udpSocket'[j][l].timer = udpSocket[j][l].timer
          /\ udpSocket'[j][l].association = udpSocket[j][l].association
    BY <1>7
  <2>2. udpClients' = udpClients /\ \A j \in Relays : \A a \in Association : udpClients[j][a] # 0 => udpClients[j][a] \in SocketId
    BY DEF SendFails, UdpInv, SocketsTyped, SocketId
  <2>3. QED
    BY <2>1, <2>2 DEF UdpInv, SocketsOwned
<1>9. QED
  BY <1>5, <1>6, <1>8 DEF SendFails, relayVars, UdpInv, AssociationsTyped, WiresTyped

(* A socket of an association is closed, and the association's entry goes.   *)
EntryDropped(k, i, still) ==
  /\ udpSocket' = [udpSocket EXCEPT ![k][i].open = FALSE, ![k][i].timer = still]
  /\ udpClients' = [udpClients EXCEPT ![k][udpSocket[k][i].association] = 0]

LEMMA Closed ==
  ASSUME NEW socket \in UdpSocket, NEW still \in BOOLEAN
  PROVE  /\ [socket EXCEPT !.open = FALSE, !.timer = still] \in UdpSocket
         /\ ~[socket EXCEPT !.open = FALSE, !.timer = still].open
         /\ [socket EXCEPT !.open = FALSE, !.timer = still].association = socket.association
BY DEF UdpSocket

LEMMA EntryDroppedKeeps ==
  ASSUME UdpInv, NEW k \in Relays, NEW i \in SocketId, NEW still \in BOOLEAN,
         udpSocket[k][i].open \/ udpSocket[k][i].timer, EntryDropped(k, i, still)
  PROVE  SocketsTyped' /\ SocketsOwned'
<1> DEFINE a == udpSocket[k][i].association
           socket == [udpSocket[k][i] EXCEPT !.open = FALSE, !.timer = still]
<1>1. /\ udpSocket \in [Relays -> [SocketId -> UdpSocket]] /\ a \in Association
      /\ udpClients \in [Relays -> [Association -> 0..MaxSockets]]
  BY DEF UdpInv, SocketsTyped, SocketsOwned
<1>2. socket \in UdpSocket /\ ~socket.open /\ socket.association = a
  <2> DEFINE s == udpSocket[k][i]
  <2>1. s \in UdpSocket
    BY <1>1
  <2> HIDE DEF s
  <2>2. LET c == [s EXCEPT !.open = FALSE, !.timer = still]
        IN c \in UdpSocket /\ ~c.open /\ c.association = s.association
    BY <2>1, Closed
  <2>3. QED
    BY <2>2 DEF s
<1>3. udpSocket' = [udpSocket EXCEPT ![k] = [udpSocket[k] EXCEPT ![i] = socket]]
  BY <1>1 DEF EntryDropped
<1>4. udpClients' = [udpClients EXCEPT ![k] = [udpClients[k] EXCEPT ![a] = 0]] /\ 0 \in 0..MaxSockets
  BY <1>1, UdpAssumption DEF EntryDropped
<1>5. udpSocket[k][i].association = a
  OBVIOUS
<1> HIDE DEF socket, a
<1>6. /\ udpSocket' \in [Relays -> [SocketId -> UdpSocket]]
      /\ udpSocket'[k][i] = socket
      /\ \A j \in Relays : \A l \in SocketId : j # k \/ l # i => udpSocket'[j][l] = udpSocket[j][l]
  BY <1>1, <1>2, <1>3
<1>7. /\ udpClients' \in [Relays -> [Association -> 0..MaxSockets]]
      /\ udpClients'[k][a] = 0
      /\ \A j \in Relays : \A c \in Association : j # k \/ c # a => udpClients'[j][c] = udpClients[j][c]
  BY <1>1, <1>4
<1>8. \A j \in Relays : \A c \in Association : udpClients[j][c] # 0 => udpClients[j][c] \in SocketId
  BY <1>1, UdpAssumption DEF SocketId
<1>9. ASSUME NEW j \in Relays, NEW l \in SocketId, udpSocket'[j][l].open \/ udpSocket'[j][l].timer
      PROVE  udpSocket'[j][l].association \in Association
  <2>1. CASE j = k /\ l = i
    BY <1>1, <1>2, <1>6, <2>1
  <2>2. CASE j # k \/ l # i
    BY <1>6, <1>9, <2>2 DEF UdpInv, SocketsOwned
  <2>3. QED
    BY <2>1, <2>2
<1>10. ASSUME NEW j \in Relays, NEW c \in Association, udpClients'[j][c] # 0
       PROVE  udpSocket'[j][udpClients'[j][c]].open /\ udpSocket'[j][udpClients'[j][c]].association = c
  <2>1. j # k \/ c # a
    BY <1>7, <1>10
  <2>2. udpClients'[j][c] = udpClients[j][c] /\ udpClients[j][c] \in SocketId
    BY <1>7, <1>8, <1>10, <2>1
  <2>3. udpSocket[j][udpClients[j][c]].open /\ udpSocket[j][udpClients[j][c]].association = c
    BY <1>10, <2>2 DEF UdpInv, SocketsOwned
  <2>4. j # k \/ udpClients[j][c] # i
    BY <1>5, <2>1, <2>3
  <2>5. QED
    BY <1>6, <2>2, <2>3, <2>4
<1>11. QED
  BY <1>6, <1>7, <1>9, <1>10 DEF SocketsTyped, SocketsOwned

LEMMA IdleTimerKeeps ==
  ASSUME UdpInv, NEW k \in Relays, NEW i \in SocketId, IdleTimer(k, i)
  PROVE  UdpInv'
<1>1. SocketsTyped' /\ SocketsOwned'
  BY EntryDroppedKeeps DEF IdleTimer, EntryDropped
<1>2. QED
  BY <1>1 DEF IdleTimer, relayVars, UdpInv, AssociationsTyped, WiresTyped

LEMMA SocketErrorKeeps ==
  ASSUME UdpInv, NEW k \in Relays, NEW i \in SocketId, SocketError(k, i)
  PROVE  UdpInv'
<1>1. SocketsTyped' /\ SocketsOwned'
  <2>1. PICK still \in {FALSE, udpSocket[k][i].timer} :
          udpSocket' = [udpSocket EXCEPT ![k][i].open = FALSE, ![k][i].timer = still]
    BY DEF SocketError
  <2>2. still \in BOOLEAN
    BY <2>1 DEF UdpInv, SocketsTyped, UdpSocket
  <2>3. udpSocket[k][i].open /\ udpClients' = [udpClients EXCEPT ![k][udpSocket[k][i].association] = 0]
    BY DEF SocketError
  <2>4. QED
    BY <2>1, <2>2, <2>3, EntryDroppedKeeps DEF EntryDropped
<1>2. QED
  BY <1>1 DEF SocketError, relayVars, UdpInv, AssociationsTyped, WiresTyped

LEMMA RelayLostKeeps ==
  ASSUME UdpInv, NEW k \in Relays, RelayLost(k)
  PROVE  UdpInv'
<1> DEFINE sockets == [i \in SocketId |->
             IF \E a \in Association : udpClients[k][a] = i
               THEN [udpSocket[k][i] EXCEPT !.open = FALSE, !.timer = FALSE] ELSE udpSocket[k][i]]
           none == [a \in Association |-> 0]
<1>1. /\ udpSocket \in [Relays -> [SocketId -> UdpSocket]]
      /\ udpClients \in [Relays -> [Association -> 0..MaxSockets]]
  BY DEF UdpInv, SocketsTyped
<1>2. \A i \in SocketId : /\ sockets[i] \in UdpSocket /\ sockets[i].association = udpSocket[k][i].association
                          /\ sockets[i].open => udpSocket[k][i].open
                          /\ sockets[i].timer => udpSocket[k][i].timer
  <2>1. SUFFICES ASSUME NEW i \in SocketId
                 PROVE  /\ sockets[i] \in UdpSocket /\ sockets[i].association = udpSocket[k][i].association
                        /\ sockets[i].open => udpSocket[k][i].open
                        /\ sockets[i].timer => udpSocket[k][i].timer
    OBVIOUS
  <2>2. udpSocket[k][i] \in UdpSocket
    BY <1>1
  <2> DEFINE s == udpSocket[k][i]
  <2>3. sockets[i] \in {s, [s EXCEPT !.open = FALSE, !.timer = FALSE]}
    OBVIOUS
  <2> HIDE DEF s, sockets
  <2>4. CASE sockets[i] = [s EXCEPT !.open = FALSE, !.timer = FALSE]
    <3>1. s \in UdpSocket
      BY <2>2 DEF s
    <3>2. sockets[i] \in UdpSocket /\ sockets[i].association = s.association /\ ~sockets[i].open /\ ~sockets[i].timer
      BY <2>4, <3>1 DEF UdpSocket
    <3>3. QED
      BY <3>2 DEF s
  <2>5. CASE sockets[i] = s
    BY <2>2, <2>5 DEF s
  <2>6. QED
    BY <2>3, <2>4, <2>5
<1>3. udpSocket' = [udpSocket EXCEPT ![k] = sockets] /\ udpClients' = [udpClients EXCEPT ![k] = none]
  BY DEF RelayLost
<1>4. sockets \in [SocketId -> UdpSocket] /\ none \in [Association -> 0..MaxSockets]
  <2>1. none \in [Association -> 0..MaxSockets]
    BY UdpAssumption
  <2>2. sockets = [i \in SocketId |-> sockets[i]]
    OBVIOUS
  <2> HIDE DEF sockets
  <2>3. QED
    BY <1>2, <2>1, <2>2
<1>5. \A a \in Association : none[a] = 0
  OBVIOUS
<1> HIDE DEF sockets, none
<1>6. SocketsTyped'
  BY <1>1, <1>3, <1>4 DEF SocketsTyped
<1>7. \A j \in Relays : udpSocket'[j] = (IF j = k THEN sockets ELSE udpSocket[j]) /\ udpClients'[j] = (IF j = k THEN none ELSE udpClients[j])
  BY <1>1, <1>3
<1>8. \A j \in Relays : \A i \in SocketId :
        udpSocket'[j][i].open \/ udpSocket'[j][i].timer => udpSocket'[j][i].association \in Association
  BY <1>2, <1>7 DEF UdpInv, SocketsOwned
<1>9. \A j \in Relays : \A a \in Association : udpClients'[j][a] # 0 =>
        udpSocket'[j][udpClients'[j][a]].open /\ udpSocket'[j][udpClients'[j][a]].association = a
  BY <1>5, <1>7 DEF UdpInv, SocketsOwned
<1>10. SocketsOwned'
  BY <1>8, <1>9 DEF SocketsOwned
<1>11. toRelay' \in [Relays -> Seq(Datagram)] /\ answers' \in [Relays -> Seq(AnswerFor)]
  <2> DEFINE e == << >>
  <2>1. e \in Seq(Datagram) /\ e \in Seq(AnswerFor)
    OBVIOUS
  <2> HIDE DEF e
  <2>2. toRelay' = [toRelay EXCEPT ![k] = e] /\ answers' = [answers EXCEPT ![k] = e]
    BY DEF RelayLost, e
  <2>3. QED
    BY <2>1, <2>2 DEF UdpInv, WiresTyped
<1>12. QED
  BY <1>6, <1>10, <1>11 DEF RelayLost, relayVars, UdpInv, AssociationsTyped, WiresTyped

LEMMA HandleUdpDataKeeps ==
  ASSUME UdpInv, NEW k \in Relays, HandleUdpData(k)
  PROVE  UdpInv'
<1> DEFINE m == Head(toRelay[k])
           known == udpClients[k][m.assocId]
           i == IF known # 0 THEN known ELSE CHOOSE j \in Unused(k) : TRUE
           socket == IF known # 0 THEN Reused(udpSocket[k][i])
                     ELSE [udpSocket[k][i] EXCEPT !.open = TRUE, !.association = m.assocId,
                                                  !.src = m.src, !.timer = TRUE]
           final == [socket EXCEPT !.pending = Remembered(@, m.id), !.sent = @ \cup {m.to}]
           a == m.assocId
<1>1. toRelay[k] \in Seq(Datagram) /\ toRelay[k] # << >>
  BY DEF HandleUdpData, UdpInv, WiresTyped
<1>2. m \in Datagram /\ Tail(toRelay[k]) \in Seq(Datagram)
  BY <1>1, OneLess
<1>3. m.id \in Nat /\ a \in Association /\ m.src \in Source /\ m.to \in Destination
  BY <1>2 DEF Datagram
<1>4. /\ known # 0 \/ Unused(k) # {}
      /\ udpClients' = [udpClients EXCEPT ![k][a] = i]
      /\ udpSocket' = [udpSocket EXCEPT ![k][i] = final]
  BY DEF HandleUdpData
<1>5. /\ udpSocket \in [Relays -> [SocketId -> UdpSocket]]
      /\ udpClients \in [Relays -> [Association -> 0..MaxSockets]]
  BY DEF UdpInv, SocketsTyped
<1>6. known \in 0..MaxSockets /\ (known # 0 => known \in SocketId)
  <2> HIDE DEF m
  <2>1. QED
    BY <1>3, <1>5, UdpAssumption DEF SocketId
<1>7. i \in SocketId /\ (known = 0 => udpSocket[k][i].association = None)
  <2> HIDE DEF m, known
  <2>1. CASE known # 0
    BY <1>6, <2>1
  <2>2. CASE known = 0
    <3>1. i \in Unused(k)
      BY <1>4, <2>2
    <3>2. QED
      BY <2>2, <3>1 DEF Unused
  <2>3. QED
    BY <2>1, <2>2
<1>8. known # 0 => udpSocket[k][i].association = a /\ i = known
  BY <1>3 DEF UdpInv, SocketsOwned
<1> HIDE DEF m, i, known
<1>9. /\ socket \in UdpSocket /\ socket.association = a /\ socket.open /\ socket.timer
  <2>1. udpSocket[k][i] \in UdpSocket
    BY <1>5, <1>7
  <2>2. CASE known # 0
    <3>1. socket = [udpSocket[k][i] EXCEPT !.timer = TRUE]
      BY <2>2 DEF Reused
    <3>2. udpSocket[k][i].open
      BY <1>3, <1>8, <2>2 DEF UdpInv, SocketsOwned, known
    <3> HIDE DEF socket
    <3>3. QED
      BY <1>8, <2>1, <2>2, <3>1, <3>2 DEF UdpSocket
  <2>3. CASE known = 0
    <3>1. socket = [udpSocket[k][i] EXCEPT !.open = TRUE, !.association = a, !.src = m.src, !.timer = TRUE]
      BY <2>3
    <3> HIDE DEF socket, a
    <3>2. QED
      BY <1>3, <2>1, <3>1 DEF UdpSocket
  <2>4. QED
    BY <2>2, <2>3
<1> HIDE DEF socket
<1>10. final \in UdpSocket /\ final.association = a /\ final.open
  <2>1. socket.pending \in Seq(Nat) /\ socket.sent \in SUBSET Destination
    BY <1>9 DEF UdpSocket
  <2>2. Remembered(socket.pending, m.id) \in Seq(Nat)
    BY <1>3, <2>1 DEF Remembered
  <2>3. socket.sent \cup {m.to} \in SUBSET Destination
    BY <1>3, <2>1
  <2> DEFINE p == Remembered(socket.pending, m.id)
             t == socket.sent \cup {m.to}
  <2>4. final = [socket EXCEPT !.pending = p, !.sent = t] /\ p \in Seq(Nat) /\ t \in SUBSET Destination
    BY <2>2, <2>3
  <2> HIDE DEF final, p, t
  <2>5. QED
    BY <1>9, <2>4 DEF UdpSocket
<1>11. udpSocket' = [udpSocket EXCEPT ![k] = [udpSocket[k] EXCEPT ![i] = final]]
  BY <1>4, <1>5
<1> HIDE DEF final, a
<1>12. /\ udpSocket' \in [Relays -> [SocketId -> UdpSocket]]
       /\ udpSocket'[k][i] = final
       /\ \A j \in Relays : \A l \in SocketId : j # k \/ l # i => udpSocket'[j][l] = udpSocket[j][l]
  <2>1. final \in UdpSocket
    BY <1>10
  <2>2. QED
    BY <1>5, <1>7, <1>11, <2>1
<1>13. /\ udpClients' \in [Relays -> [Association -> 0..MaxSockets]]
       /\ udpClients'[k][a] = i
       /\ \A j \in Relays : \A c \in Association : j # k \/ c # a => udpClients'[j][c] = udpClients[j][c]
  <2>1. i \in 0..MaxSockets
    BY <1>7, UdpAssumption DEF SocketId
  <2>2. udpClients' = [udpClients EXCEPT ![k] = [udpClients[k] EXCEPT ![a] = i]]
    BY <1>4, <1>5
  <2>3. QED
    BY <1>3, <1>5, <2>1, <2>2, TwoLevels
<1>14. \A j \in Relays : \A c \in Association : udpClients[j][c] # 0 => udpClients[j][c] \in SocketId
  BY <1>5, UdpAssumption DEF SocketId
<1>15. ASSUME NEW j \in Relays, NEW l \in SocketId, udpSocket'[j][l].open \/ udpSocket'[j][l].timer
       PROVE  udpSocket'[j][l].association \in Association
  <2>1. CASE j = k /\ l = i
    BY <1>3, <1>10, <1>12, <2>1
  <2>2. CASE j # k \/ l # i
    BY <1>12, <1>15, <2>2 DEF UdpInv, SocketsOwned
  <2>3. QED
    BY <2>1, <2>2
<1>16. ASSUME NEW j \in Relays, NEW c \in Association, udpClients'[j][c] # 0
       PROVE  udpSocket'[j][udpClients'[j][c]].open /\ udpSocket'[j][udpClients'[j][c]].association = c
  <2>1. CASE j = k /\ c = a
    BY <1>10, <1>12, <1>13, <2>1
  <2>2. CASE j # k \/ c # a
    <3>1. udpClients'[j][c] = udpClients[j][c] /\ udpClients[j][c] \in SocketId
      BY <1>13, <1>14, <1>16, <2>2
    <3>2. udpSocket[j][udpClients[j][c]].open /\ udpSocket[j][udpClients[j][c]].association = c
      BY <1>16, <3>1 DEF UdpInv, SocketsOwned
    <3>3. j # k \/ udpClients[j][c] # i
      BY <1>7, <1>8, <2>2, <3>2, UdpAssumption
    <3>4. QED
      BY <1>12, <3>1, <3>2, <3>3
  <2>3. QED
    BY <2>1, <2>2
<1>17. SocketsTyped' /\ SocketsOwned'
  BY <1>12, <1>13, <1>15, <1>16 DEF SocketsTyped, SocketsOwned
<1>18. toRelay' \in [Relays -> Seq(Datagram)]
  <2>1. toRelay' = [toRelay EXCEPT ![k] = Tail(toRelay[k])]
    BY DEF HandleUdpData
  <2>2. QED
    BY <1>2, <2>1 DEF UdpInv, WiresTyped
<1>19. QED
  BY <1>17, <1>18 DEF HandleUdpData, relayVars, UdpInv, AssociationsTyped, WiresTyped

LEMMA UdpStarts == UdpInit => UdpInv
<1> SUFFICES ASSUME UdpInit PROVE UdpInv
  OBVIOUS
<1>1. << >> \in Seq(Nat) /\ << >> \in Seq(Datagram) /\ << >> \in Seq(AnswerFor) /\ 0 \in 0..MaxSockets
  BY UdpAssumption
<1> DEFINE socket == [open |-> FALSE, association |-> None, src |-> None, pending |-> << >>, timer |-> FALSE, sent |-> {}]
<1>2. socket \in UdpSocket /\ socket.open = FALSE /\ socket.timer = FALSE
  BY <1>1 DEF UdpSocket
<1> HIDE DEF socket
<1>3. SocketsTyped /\ SocketsOwned
  BY <1>1, <1>2 DEF UdpInit, SocketsTyped, SocketsOwned, socket
<1>4. WiresTyped /\ AssociationsTyped
  BY <1>1 DEF UdpInit, WiresTyped, AssociationsTyped
<1>5. QED
  BY <1>3, <1>4 DEF UdpInv

LEMMA UdpStep == UdpInv /\ [UdpNext]_udpVars => UdpInv'
<1> SUFFICES ASSUME UdpInv, [UdpNext]_udpVars PROVE UdpInv'
  OBVIOUS
<1>1. CASE UNCHANGED udpVars
  BY <1>1 DEF udpVars, UdpInv, AssociationsTyped, WiresTyped, SocketsTyped, SocketsOwned
<1>2. CASE \E a \in Association :
             \/ HandleUDPAssociate(a) \/ ControlCloses(a)
             \/ \E s \in Source, d \in Destination, k \in Relays : RelayDatagram(a, s, d, k)
  BY <1>2, AssociationsKeep, RelayDatagramKeeps
<1>3. ASSUME NEW k \in Relays, HandleAnswer(k) \/ HandleUdpData(k) \/ RelayLost(k)
      PROVE  UdpInv'
  BY <1>3, HandleAnswerKeeps, HandleUdpDataKeeps, RelayLostKeeps
<1>4. ASSUME NEW k \in Relays, NEW i \in SocketId,
             \/ SendFails(k, i) \/ IdleTimer(k, i) \/ SocketError(k, i)
             \/ \E d \in Destination : TargetAnswers(k, i, d)
      PROVE  UdpInv'
  BY <1>4, SendFailsKeeps, IdleTimerKeeps, SocketErrorKeeps, TargetAnswersKeeps
<1>5. QED
  BY <1>1, <1>2, <1>3, <1>4 DEF UdpNext

LEMMA UdpGuarantee == UdpInv => UdpTypeOK /\ NoCrossing
BY DEF UdpInv, AssociationsTyped, WiresTyped, SocketsTyped, SocketsOwned, UdpTypeOK, NoCrossing

----------------------------------------------------------------------------
(* Network tests.  A task has no result twice, one that is done has them     *)
(* all, and the server runs one of its own at a time.                        *)
Testers == TestNodes \cup {Here}
TaskStates == {"queued", "running", "done", "forgotten"}
TestTask ==
  [ order : Seq(Testers), state : TaskStates, watchdog : BOOLEAN,
    results : {<< >>} \cup UNION {[D -> [Index -> 0..1]] : D \in SUBSET Testers} ]
TestReport == [task : Nat, index : 0..Targets, error : BOOLEAN]

HasResults(t) == t.results \in [Range(t.order) -> [Index -> 0..1]]
AllDone(t) == \A c \in Range(t.order) : \A i \in Index : t.results[c][i] = 1
TaskInv(k, t) ==
  /\ t \in TestTask /\ t.order \in Orders[k]
  /\ IF t.state = "forgotten" THEN t.results = << >> ELSE HasResults(t)
  /\ t.state = "done" => AllDone(t)

RunsHere(t) == ~OnNodes(t) /\ t.state = "running"
OneRuns(tasks) == \A j, k \in DOMAIN tasks : RunsHere(tasks[j]) /\ RunsHere(tasks[k]) => j = k

TasksInv(tasks) ==
  /\ tasks \in Seq(TestTask) /\ Len(tasks) <= Len(Orders)
  /\ (\A k \in DOMAIN tasks : TaskInv(k, tasks[k]))
  /\ OneRuns(tasks)
WiresInv ==
  /\ session \in [TestNodes -> {"up", "dying", "gone"}]
  /\ tester \in [TestNodes -> [task : Nat, next : 1..Targets + 1]]
  /\ toNode \in [TestNodes -> Seq(Nat)] /\ toServer \in [TestNodes -> Seq(TestReport)]
  /\ \A n \in TestNodes : tester[n].task <= Len(task)
  /\ \A n \in TestNodes : \A i \in DOMAIN toNode[n] : toNode[n][i] \in 1..Len(task)
  /\ \A n \in TestNodes : \A i \in DOMAIN toServer[n] : toServer[n][i].task \in 1..Len(task)
TestInv == TasksInv(task) /\ WiresInv

LEMMA RangeBounded ==
  ASSUME NEW S, NEW s \in Seq(S)
  PROVE  /\ IsFiniteSet(Range(s)) /\ Cardinality(Range(s)) \in Nat /\ Cardinality(Range(s)) <= Len(s)
         /\ Range(s) \subseteq S /\ Len(s) \in Nat
<1>1. s \in [1..Len(s) -> Range(s)] /\ \A y \in Range(s) : \E i \in 1..Len(s) : s[i] = y
  BY DEF Range
<1>2. s \in Surjection(1..Len(s), Range(s))
  BY <1>1 DEF Surjection
<1>0. Len(s) \in Nat
  OBVIOUS
<1>3. IsFiniteSet(1..Len(s)) /\ Cardinality(1..Len(s)) = Len(s)
  BY <1>0, FS_Interval
<1>4. IsFiniteSet(Range(s)) /\ Cardinality(Range(s)) <= Len(s)
  BY <1>2, <1>3, FS_Surjection
<1>5. Range(s) \subseteq S
  BY DEF Range
<1>6. QED
  BY <1>4, <1>5, FS_CardinalityType

LEMMA TimesGrows == ASSUME NEW a \in Nat, NEW b \in Nat, NEW c \in Nat, a <= b PROVE a * c <= b * c
OBVIOUS

(* The tally of a task in which something is missing is below what is        *)
(* expected: so a task that is full has every result.                        *)
LEMMA FullIsAllDone ==
  ASSUME NEW t \in TestTask, HasResults(t), IsFull(t)
  PROVE  AllDone(t)
<1> DEFINE D == Range(t.order)
           all == (D \X Index) \X {1}
           some == ResultsOf(t)
<1>1. t.order \in Seq(Testers)
  BY DEF TestTask
<1>2. IsFiniteSet(D) /\ Cardinality(D) \in Nat /\ Cardinality(D) <= Len(t.order) /\ Len(t.order) \in Nat
  BY <1>1, RangeBounded
<1>3. IsFiniteSet(Index) /\ Cardinality(Index) = Targets /\ Targets \in Nat
  BY FS_Interval, NetworkTestAssumption DEF Index
<1>4. IsFiniteSet({1}) /\ Cardinality({1}) = 1
  BY FS_Singleton
<1>5. some \subseteq all
  <2> SUFFICES ASSUME NEW r \in some PROVE r \in all
    OBVIOUS
  <2>1. DOMAIN t.results = D
    BY DEF HasResults
  <2>2. PICK c \in D, i \in Index : r \in {<<c, i>>} \X (1..t.results[c][i])
    BY <2>1 DEF ResultsOf
  <2>3. t.results[c][i] \in 0..1
    BY DEF HasResults
  <2>4. QED
    BY <2>2, <2>3
<1>6. SUFFICES ASSUME NEW c \in D, NEW i \in Index, t.results[c][i] # 1
               PROVE  FALSE
  BY DEF AllDone
<1>7. <<<<c, i>>, 1>> \in all /\ <<<<c, i>>, 1>> \notin some
  <2>1. t.results[c][i] = 0
    BY <1>6 DEF HasResults
  <2>2. <<<<c, i>>, 1>> \in all
    OBVIOUS
  <2>3. ASSUME <<<<c, i>>, 1>> \in some PROVE FALSE
    <3>1. PICK d \in D, j \in Index : <<<<c, i>>, 1>> \in {<<d, j>>} \X (1..t.results[d][j])
      BY <2>3 DEF ResultsOf, HasResults
    <3>2. c = d /\ i = j /\ 1 \in 1..t.results[d][j]
      BY <3>1
    <3>3. QED
      BY <2>1, <3>2
  <2>4. QED
    BY <2>2, <2>3
<1> HIDE DEF D, all, some
<1>8. IsFiniteSet(D \X Index) /\ Cardinality(D \X Index) = Cardinality(D) * Targets
  BY <1>2, <1>3, FS_Product
<1>9. IsFiniteSet(all) /\ Cardinality(all) = Cardinality(D) * Targets * 1
  BY <1>8, <1>4, FS_Product DEF all
<1>10. Cardinality(all) \in Nat /\ Cardinality(all) <= Len(t.order) * Targets
  <2>1. Cardinality(D) * Targets \in Nat /\ Cardinality(D) * Targets <= Len(t.order) * Targets
    BY <1>2, <1>3, TimesGrows
  <2>2. QED
    BY <1>9, <2>1
<1>11. IsFiniteSet(all \ {<<<<c, i>>, 1>>}) /\ Cardinality(all \ {<<<<c, i>>, 1>>}) = Cardinality(all) - 1
  BY <1>7, <1>9, FS_RemoveElement
<1>12. Cardinality(some) <= Cardinality(all) - 1 /\ Cardinality(some) \in Nat
  <2>1. some \in SUBSET (all \ {<<<<c, i>>, 1>>})
    BY <1>5, <1>7
  <2>2. QED
    BY <1>11, <2>1, FS_Subset, FS_CardinalityType
<1>13. Cardinality(some) >= Len(t.order) * Targets
  BY DEF IsFull, TaskDone, Expect, some
<1>14. Len(t.order) * Targets \in Int
  BY <1>2, <1>3
<1>15. QED
  BY <1>10, <1>12, <1>13, <1>14

(* What happens to one task.                                                 *)
LEMMA ConcludedKeeps ==
  ASSUME NEW k, NEW t, TaskInv(k, t)
  PROVE  /\ TaskInv(k, Concluded(t)) /\ Concluded(t).order = t.order
         /\ Concluded(t).state \in {t.state, "done"} /\ Concluded(t).results = t.results
<1>1. CASE t.state = "running" /\ IsFull(t)
  <2> DEFINE u == [t EXCEPT !.state = "done", !.watchdog = FALSE]
  <2>1. t \in TestTask /\ HasResults(t) /\ t.order \in Orders[k]
    BY <1>1 DEF TaskInv
  <2>2. AllDone(t)
    BY <1>1, <2>1, FullIsAllDone
  <2>3. u \in TestTask /\ u.order = t.order /\ u.results = t.results /\ u.state = "done"
    BY <2>1 DEF TestTask, TaskStates
  <2>4. TaskInv(k, u)
    BY <2>1, <2>2, <2>3 DEF TaskInv, AllDone, HasResults
  <2>5. QED
    BY <1>1, <2>3, <2>4 DEF Concluded
<1>2. CASE ~(t.state = "running" /\ IsFull(t))
  BY <1>2 DEF Concluded
<1>3. QED
  BY <1>1, <1>2

LEMMA FilledKeeps ==
  ASSUME NEW k, NEW t, NEW cs, TaskInv(k, t), t.state # "forgotten"
  PROVE  /\ TaskInv(k, Filled(t, cs)) /\ Filled(t, cs).order = t.order /\ Filled(t, cs).state = t.state
         /\ cs = DOMAIN t.results => AllDone(Filled(t, cs))
<1> DEFINE D == Range(t.order)
           r == [c \in D |-> [i \in Index |-> IF c \in cs /\ t.results[c][i] = 0 THEN 1 ELSE t.results[c][i]]]
           u == Filled(t, cs)
<1>1. t \in TestTask /\ t.results \in [D -> [Index -> 0..1]] /\ t.order \in Orders[k]
  BY DEF TaskInv, HasResults
<1>2. r \in [D -> [Index -> 0..1]]
  BY <1>1
<1>3. D \subseteq Testers
  <2>1. t.order \in Seq(Testers)
    BY <1>1 DEF TestTask
  <2>2. QED
    BY <2>1, RangeBounded
<1>4. u = [t EXCEPT !.results = r]
  BY <1>1 DEF Filled
<1>5. \A c \in D : \A i \in Index : (t.results[c][i] = 1 \/ c \in cs) => r[c][i] = 1
  BY <1>1
<1> HIDE DEF r, D, u
<1>6. r \in UNION {[E -> [Index -> 0..1]] : E \in SUBSET Testers}
  BY <1>2, <1>3
<1>7. u \in TestTask /\ u.results = r /\ u.order = t.order /\ u.state = t.state
  BY <1>1, <1>4, <1>6 DEF TestTask
<1>8. TaskInv(k, u)
  BY <1>1, <1>2, <1>5, <1>7 DEF TaskInv, HasResults, AllDone, D
<1>9. cs = DOMAIN t.results => AllDone(u)
  BY <1>1, <1>5, <1>7 DEF AllDone, D
<1>10. QED
  BY <1>7, <1>8, <1>9 DEF u

LEMMA FinalizedKeeps ==
  ASSUME NEW k, NEW t, NEW cs, TaskInv(k, t), t.state # "forgotten"
  PROVE  /\ TaskInv(k, Finalized(t, cs)) /\ Finalized(t, cs).order = t.order
         /\ Finalized(t, cs).state \in {t.state, "done"}
         /\ cs = DOMAIN t.results => AllDone(Finalized(t, cs))
<1> DEFINE u == Filled(t, cs)
<1>1. TaskInv(k, u) /\ u.order = t.order /\ u.state = t.state /\ (cs = DOMAIN t.results => AllDone(u))
  BY FilledKeeps
<1> HIDE DEF u
<1>2. /\ TaskInv(k, Concluded(u)) /\ Concluded(u).order = u.order
      /\ Concluded(u).state \in {u.state, "done"} /\ Concluded(u).results = u.results
  BY <1>1, ConcludedKeeps
<1>3. AllDone(u) => AllDone(Concluded(u))
  BY <1>2 DEF AllDone
<1>4. Finalized(t, cs) = Concluded(u)
  BY DEF Finalized, u
<1>5. QED
  BY <1>1, <1>2, <1>3, <1>4


(* What happens to the tasks.                                                *)
LEMMA SeqOfFunction ==
  ASSUME NEW S, NEW n \in Nat, NEW s \in [1..n -> S]
  PROVE  s \in Seq(S) /\ Len(s) = n /\ DOMAIN s = 1..n
OBVIOUS

LEMMA TasksAre ==
  ASSUME NEW tasks, TasksInv(tasks)
  PROVE  /\ Len(tasks) \in Nat /\ DOMAIN tasks = 1..Len(tasks) /\ tasks \in [1..Len(tasks) -> TestTask]
         /\ \A k \in 1..Len(tasks) : TaskInv(k, tasks[k])
BY DEF TasksInv

(* Each task stays in order, and those that start to run are one at most.    *)
LEMMA EachKeeps ==
  ASSUME NEW tasks, TasksInv(tasks), NEW f \in [DOMAIN tasks -> TestTask],
         \A k \in DOMAIN tasks : TaskInv(k, f[k]), OneRuns(f)
  PROVE  TasksInv(f) /\ Len(f) = Len(tasks)
<1>1. f \in Seq(TestTask) /\ Len(f) = Len(tasks) /\ DOMAIN f = DOMAIN tasks
  BY TasksAre, SeqOfFunction
<1>2. QED
  BY <1>1 DEF TasksInv

LEMMA ChangedKeeps ==
  ASSUME TasksInv(task), NEW gone
  PROVE  TasksInv(Changed(gone)) /\ Len(Changed(gone)) = Len(task)
<1> DEFINE f == Changed(gone)
<1>1. DOMAIN f = DOMAIN task
  BY DEF Changed
<1>2. ASSUME NEW k \in DOMAIN task
      PROVE  TaskInv(k, f[k]) /\ (RunsHere(f[k]) => RunsHere(task[k]))
  <2>1. TaskInv(k, task[k])
    BY DEF TasksInv
  <2>2. CASE OnNodes(task[k]) /\ task[k].state = "running"
    <3>1. f[k] = Finalized(task[k], gone)
      BY <2>2 DEF Changed
    <3>2. TaskInv(k, f[k]) /\ f[k].order = task[k].order
      BY <2>1, <2>2, <3>1, FinalizedKeeps
    <3>3. QED
      BY <2>2, <3>2 DEF RunsHere, OnNodes
  <2>3. CASE ~(OnNodes(task[k]) /\ task[k].state = "running")
    <3>1. f[k] = task[k]
      BY <2>3 DEF Changed
    <3>2. QED
      BY <2>1, <3>1
  <2>4. QED
    BY <2>2, <2>3
<1>3. f \in [DOMAIN task -> TestTask]
  <2>1. \A k \in DOMAIN task : f[k] \in TestTask
    BY <1>2 DEF TaskInv
  <2>2. QED
    BY <2>1 DEF Changed
<1> HIDE DEF f
<1>4. OneRuns(f)
  BY <1>1, <1>2 DEF OneRuns, TasksInv
<1>5. QED
  BY <1>2, <1>3, <1>4, EachKeeps DEF f

LEMMA KickedKeeps ==
  ASSUME NEW tasks, TasksInv(tasks)
  PROVE  TasksInv(Kicked(tasks)) /\ Len(Kicked(tasks)) = Len(tasks)
<1> DEFINE f == Kicked(tasks)
           mine(s) == {k \in DOMAIN tasks : ~OnNodes(tasks[k]) /\ tasks[k].state = s}
           next == {k \in mine("queued") : mine("running") = {} /\ \A j \in mine("queued") : k <= j}
<1>1. f = [k \in DOMAIN tasks |-> IF k \in next THEN [tasks[k] EXCEPT !.state = "running"] ELSE tasks[k]]
  BY DEF Kicked
<1>2. ASSUME NEW k \in next
      PROVE  /\ k \in DOMAIN tasks /\ tasks[k].state = "queued"
             /\ \A j \in DOMAIN tasks : ~RunsHere(tasks[j])
             /\ \A j \in next : j = k
  <2>1. \A j \in next : j <= k /\ k <= j
    OBVIOUS
  <2>2. DOMAIN tasks \subseteq Nat
    BY TasksAre
  <2>3. \A j \in next : j = k
    BY <2>1, <2>2
  <2>4. QED
    BY <2>3 DEF RunsHere
<1>3. ASSUME NEW k \in next
      PROVE  TaskInv(k, [tasks[k] EXCEPT !.state = "running"])
  <2> DEFINE t == tasks[k]
             u == [t EXCEPT !.state = "running"]
  <2>1. TaskInv(k, t) /\ t.state = "queued"
    BY <1>2 DEF TasksInv
  <2> HIDE DEF t, next
  <2>2. u \in TestTask /\ u.state = "running" /\ u.order = t.order /\ u.results = t.results
    BY <2>1 DEF TaskInv, TestTask, TaskStates
  <2>3. TaskInv(k, u)
    BY <2>1, <2>2 DEF TaskInv, HasResults
  <2>4. QED
    BY <2>3 DEF t
<1> HIDE DEF next, f
<1>4. \A k \in DOMAIN tasks : TaskInv(k, f[k])
  BY <1>1, <1>3 DEF TasksInv
<1>5. f \in [DOMAIN tasks -> TestTask]
  <2>1. \A k \in DOMAIN tasks : f[k] \in TestTask
    BY <1>4 DEF TaskInv
  <2>2. QED
    BY <1>1, <2>1
<1>6. OneRuns(f)
  <2>1. CASE next = {}
    BY <1>1, <2>1 DEF OneRuns, TasksInv
  <2>2. CASE next # {}
    <3>1. PICK k \in next : TRUE
      BY <2>2
    <3>2. \A j \in DOMAIN tasks : RunsHere(f[j]) => j = k
      BY <1>1, <1>2, <3>1
    <3>3. QED
      BY <1>1, <3>2 DEF OneRuns
  <2>3. QED
    BY <2>1, <2>2
<1>7. QED
  BY <1>4, <1>5, <1>6, EachKeeps DEF f

LEMMA OneTaskKeeps ==
  ASSUME TasksInv(task), NEW k \in DOMAIN task, NEW u, TaskInv(k, u), RunsHere(u) => RunsHere(task[k])
  PROVE  TasksInv([task EXCEPT ![k] = u]) /\ Len([task EXCEPT ![k] = u]) = Len(task)
<1> DEFINE f == [task EXCEPT ![k] = u]
<1>1. u \in TestTask
  BY DEF TaskInv
<1>2. task \in [DOMAIN task -> TestTask]
  BY TasksAre
<1>3. /\ f \in [DOMAIN task -> TestTask] /\ f[k] = u /\ DOMAIN f = DOMAIN task
      /\ \A j \in DOMAIN task : j # k => f[j] = task[j]
  BY <1>1, <1>2
<1> HIDE DEF f
<1>4. \A j \in DOMAIN task : TaskInv(j, f[j])
  BY <1>3 DEF TasksInv
<1>5. OneRuns(f)
  BY <1>3 DEF OneRuns, TasksInv
<1>6. QED
  BY <1>3, <1>4, <1>5, EachKeeps DEF f

LEMMA NewTaskKeeps ==
  ASSUME TasksInv(task), Len(task) < Len(Orders), NEW u, TaskInv(Len(task) + 1, u), ~RunsHere(u)
  PROVE  TasksInv(Append(task, u)) /\ Len(Append(task, u)) = Len(task) + 1
<1> DEFINE f == Append(task, u)
           L == Len(task)
<1>1. u \in TestTask /\ task \in Seq(TestTask) /\ L \in Nat /\ DOMAIN task = 1..L
  BY TasksAre DEF TaskInv, TasksInv
<1>2. /\ f \in Seq(TestTask) /\ Len(f) = L + 1 /\ f[L + 1] = u
      /\ \A j \in 1..L : f[j] = task[j]
  BY <1>1, AppendProperties
<1>3. DOMAIN f = 1..(L + 1) /\ Len(Orders) \in Nat
  BY <1>2, NetworkTestAssumption
<1>4. ASSUME NEW j \in DOMAIN f PROVE (j \in 1..L /\ f[j] = task[j]) \/ (j = L + 1 /\ f[j] = u)
  BY <1>1, <1>2, <1>3
<1> HIDE DEF f
<1>5. \A j \in DOMAIN f : TaskInv(j, f[j])
  BY <1>1, <1>4 DEF TasksInv
<1>6. OneRuns(f)
  BY <1>1, <1>4 DEF OneRuns, TasksInv
<1>7. Len(f) <= Len(Orders)
  BY <1>1, <1>2, <1>3
<1>8. QED
  BY <1>2, <1>5, <1>6, <1>7 DEF TasksInv, f


(* One more result of a running task; of a node that was not asked, none.    *)
LEMMA OneEntry ==
  ASSUME NEW D, NEW E, NEW V, NEW f \in [D -> [E -> V]], NEW n, NEW i \in E, NEW v \in V
  PROVE  [f EXCEPT ![n][i] = v] \in [D -> [E -> V]]
<1>1. CASE n \in D
  BY <1>1
<1>2. CASE n \notin D
  BY <1>2
<1>3. QED
  BY <1>1, <1>2

LEMMA ResultKeeps ==
  ASSUME NEW k, NEW t, TaskInv(k, t), t.state = "running", NEW n, NEW i \in Index
  PROVE  LET u == [t EXCEPT !.results[n][i] = 1]
         IN TaskInv(k, u) /\ u.order = t.order /\ u.state = t.state
<1> DEFINE D == Range(t.order)
           r == [t.results EXCEPT ![n][i] = 1]
           u == [t EXCEPT !.results[n][i] = 1]
<1>1. t \in TestTask /\ t.results \in [D -> [Index -> 0..1]] /\ t.order \in Orders[k]
  BY DEF TaskInv, HasResults
<1>2. r \in [D -> [Index -> 0..1]]
  <2>1. 1 \in 0..1
    OBVIOUS
  <2>2. QED
    BY <1>1, <2>1, OneEntry
<1>3. t.order \in Seq(Testers)
  BY <1>1 DEF TestTask
<1>4. D \subseteq Testers
  BY <1>3, RangeBounded
<1>5. u = [t EXCEPT !.results = r]
  BY <1>1 DEF TestTask
<1> HIDE DEF r, D, u
<1>6. r \in UNION {[E -> [Index -> 0..1]] : E \in SUBSET Testers}
  BY <1>2, <1>4
<1>7. u \in TestTask /\ u.results = r /\ u.order = t.order /\ u.state = t.state
  BY <1>1, <1>5, <1>6 DEF TestTask
<1>8. TaskInv(k, u)
  BY <1>1, <1>2, <1>7 DEF TaskInv, HasResults, D
<1>9. QED
  BY <1>7, <1>8 DEF u

LEMMA HandledKeeps ==
  ASSUME NEW k, NEW t, TaskInv(k, t), NEW n, NEW report \in TestReport
  PROVE  /\ TaskInv(k, Handled(t, n, report)) /\ Handled(t, n, report).order = t.order
         /\ Handled(t, n, report).state \in {t.state, "done"}
<1>1. CASE t.state # "running"
  BY <1>1 DEF Handled
<1>2. CASE t.state = "running" /\ report.index # 0
  <2> DEFINE u == [t EXCEPT !.results[n][report.index] = 1]
  <2>1. report.index \in Index
    BY <1>2, NetworkTestAssumption DEF TestReport, Index
  <2>2. TaskInv(k, u) /\ u.order = t.order /\ u.state = t.state
    BY ZenonT(60), <1>2, <2>1, ResultKeeps
  <2>3. Handled(t, n, report) \in {t, Concluded(u)}
    BY <1>2 DEF Handled, Reported
  <2> HIDE DEF u
  <2>4. QED
    BY <2>2, <2>3, ConcludedKeeps
<1>3. CASE t.state = "running" /\ report.index = 0
  BY <1>3, FinalizedKeeps DEF Handled
<1>4. QED
  BY <1>1, <1>2, <1>3

LEMMA HandleReportTasks ==
  ASSUME TestInv, NEW n \in TestNodes, HandleReport(n)
  PROVE  TasksInv(task') /\ Len(task') = Len(task)
<1> DEFINE report == Head(toServer[n])
           k == report.task
           u == Handled(task[k], n, report)
<1>1. toServer[n] \in Seq(TestReport) /\ toServer[n] # << >>
  BY DEF TestInv, WiresInv, HandleReport
<1>2. report \in TestReport /\ report = toServer[n][1] /\ 1 \in DOMAIN toServer[n]
  BY <1>1
<1>3. k \in DOMAIN task
  <2>1. k \in 1..Len(task)
    BY <1>2 DEF TestInv, WiresInv
  <2>2. QED
    BY <2>1, TasksAre DEF TestInv
<1>4. TaskInv(k, task[k])
  BY <1>3 DEF TestInv, TasksInv
<1>5. task' = [task EXCEPT ![k] = u]
  BY DEF HandleReport
<1> HIDE DEF report, k
<1>6. TaskInv(k, u) /\ (RunsHere(u) => RunsHere(task[k]))
  BY <1>2, <1>4, HandledKeeps DEF RunsHere, OnNodes
<1> HIDE DEF u
<1>7. QED
  BY <1>3, <1>5, <1>6, OneTaskKeeps DEF TestInv

LEMMA RunHereTasks ==
  ASSUME TestInv, NEW k \in DOMAIN task, RunHere(k)
  PROVE  TasksInv(task') /\ Len(task') = Len(task)
<1>1. PICK i \in Index : task' = Kicked([task EXCEPT ![k] = Concluded([task[k] EXCEPT !.results[Here][i] = 1])])
  BY DEF RunHere
<1> DEFINE v == [task[k] EXCEPT !.results[Here][i] = 1]
           u == Concluded(v)
           tasks == [task EXCEPT ![k] = u]
<1>2. TaskInv(k, task[k]) /\ RunsHere(task[k]) /\ task[k].state = "running"
  BY DEF TestInv, TasksInv, RunHere, RunsHere
<1>3. TaskInv(k, v)
  BY <1>2, ResultKeeps
<1> HIDE DEF v
<1>4. TaskInv(k, u)
  BY <1>3, ConcludedKeeps
<1> HIDE DEF u
<1>5. TasksInv(tasks) /\ Len(tasks) = Len(task)
  BY <1>2, <1>4, OneTaskKeeps DEF TestInv
<1>6. task' = Kicked(tasks)
  BY <1>1 DEF u, v
<1> HIDE DEF tasks
<1>7. QED
  BY <1>5, <1>6, KickedKeeps

LEMMA WatchdogTasks ==
  ASSUME TestInv, NEW k \in DOMAIN task, Watchdog(k)
  PROVE  TasksInv(task') /\ Len(task') = Len(task)
<1> DEFINE t == [task[k] EXCEPT !.watchdog = FALSE]
           f == Finalized(t, DOMAIN t.results)
           u == IF t.state = "running" THEN [f EXCEPT !.state = "done"] ELSE t
<1>1. task' = [task EXCEPT ![k] = u]
  BY DEF Watchdog
<1>2. TaskInv(k, task[k])
  BY DEF TestInv, TasksInv
<1>3. /\ TaskInv(k, t) /\ t.state = task[k].state /\ t.order = task[k].order
  <2> DEFINE s == task[k]
  <2>1. s \in TestTask
    BY <1>2 DEF TaskInv
  <2> HIDE DEF s
  <2>2. /\ [s EXCEPT !.watchdog = FALSE] \in TestTask /\ [s EXCEPT !.watchdog = FALSE].state = s.state
        /\ [s EXCEPT !.watchdog = FALSE].order = s.order /\ [s EXCEPT !.watchdog = FALSE].results = s.results
    BY <2>1 DEF TestTask
  <2>3. QED
    BY <1>2, <2>2 DEF s, TaskInv, HasResults, AllDone
<1> HIDE DEF t
<1>4. TaskInv(k, u) /\ (RunsHere(u) => RunsHere(task[k]))
  <2>1. CASE t.state = "running"
    <3>1. TaskInv(k, f) /\ f.order = t.order /\ f.state \in {"running", "done"} /\ AllDone(f)
      BY <1>3, <2>1, FinalizedKeeps
    <3> HIDE DEF f
    <3> DEFINE g == [f EXCEPT !.state = "done"]
    <3>2. g \in TestTask /\ g.state = "done" /\ g.order = f.order /\ g.results = f.results
      BY <3>1 DEF TaskInv, TestTask, TaskStates
    <3>3. TaskInv(k, g)
      BY <3>1, <3>2 DEF TaskInv, HasResults, AllDone
    <3>4. ~RunsHere(g)
      BY <3>2 DEF RunsHere
    <3> HIDE DEF g
    <3>5. u = g
      BY <2>1 DEF g
    <3>6. QED
      BY <3>3, <3>4, <3>5
  <2>2. CASE t.state # "running"
    <3>1. u = t
      BY <2>2
    <3>2. QED
      BY <1>3, <2>2, <3>1 DEF RunsHere
  <2>3. QED
    BY <2>1, <2>2
<1> HIDE DEF u
<1>5. QED
  BY <1>1, <1>4, OneTaskKeeps DEF TestInv

LEMMA GCTasks ==
  ASSUME TestInv, NEW k \in DOMAIN task, GC(k)
  PROVE  TasksInv(task') /\ Len(task') = Len(task)
<1> DEFINE t == task[k]
           u == [t EXCEPT !.state = "forgotten", !.results = << >>]
<1>1. t \in TestTask /\ TaskInv(k, t)
  BY DEF TestInv, TasksInv, TaskInv
<1>2. task' = [task EXCEPT ![k] = u]
  <2>1. task \in [DOMAIN task -> TestTask]
    BY TasksAre DEF TestInv
  <2>2. task' = [task EXCEPT ![k] = [[task[k] EXCEPT !.state = "forgotten"] EXCEPT !.results = << >>]]
    BY <2>1 DEF GC
  <2>3. QED
    BY <2>2
<1> HIDE DEF t
<1>3. u \in TestTask /\ u.state = "forgotten" /\ u.order = t.order /\ u.results = << >>
  BY <1>1 DEF TestTask, TaskStates
<1>4. TaskInv(k, u) /\ ~RunsHere(u)
  BY <1>1, <1>3 DEF TaskInv, RunsHere
<1> HIDE DEF u
<1>5. QED
  BY <1>2, <1>4, OneTaskKeeps DEF TestInv


(* A new task.                                                               *)
LEMMA NewIsSound ==
  ASSUME NEW k \in DOMAIN Orders, NEW order \in Orders[k], NEW s \in {"queued", "running"}
  PROVE  LET t == [New(order) EXCEPT !.state = s]
         IN TaskInv(k, t) /\ t.order = order /\ t.state = s /\ (s = "queued" => t = New(order))
<1> DEFINE r == [c \in Range(order) |-> [i \in Index |-> 0]]
           t == [New(order) EXCEPT !.state = s]
<1>1. order \in Seq(Testers)
  <2>1. order \in Seq(TestNodes) \cup {<<Here>>}
    BY NetworkTestAssumption
  <2>2. CASE order \in Seq(TestNodes)
    BY <2>2 DEF Testers
  <2>3. CASE order = <<Here>>
    <3>1. Here \in Testers
      BY DEF Testers
    <3>2. QED
      BY <2>3, <3>1
  <2>4. QED
    BY <2>1, <2>2, <2>3
<1>2. r \in [Range(order) -> [Index -> 0..1]] /\ Range(order) \subseteq Testers
  BY <1>1, RangeBounded
<1>0. New(order) = [order |-> order, state |-> "queued", watchdog |-> FALSE, results |-> r]
  BY DEF New
<1> HIDE DEF r
<1>3. r \in UNION {[E -> [Index -> 0..1]] : E \in SUBSET Testers}
  BY <1>2
<1>4. /\ New(order) \in TestTask /\ New(order).order = order /\ New(order).results = r
      /\ New(order).state = "queued"
  BY <1>0, <1>1, <1>3 DEF TestTask, TaskStates
<1> DEFINE u == New(order)
           v == [u EXCEPT !.state = s]
<1>5. u \in TestTask /\ u.order = order /\ u.results = r /\ u.state = "queued" /\ v = t
  BY <1>4
<1> HIDE DEF u, t
<1>6. v \in TestTask /\ v.order = order /\ v.results = r /\ v.state = s /\ (s = "queued" => v = u)
  BY <1>5 DEF TestTask, TaskStates
<1>7. TaskInv(k, v)
  BY <1>2, <1>6 DEF TaskInv, HasResults
<1>8. QED
  BY <1>5, <1>6, <1>7 DEF t, u

Copies(order, n, id) == [i \in 1..Cardinality({j \in DOMAIN order : order[j] = n}) |-> id]

LEMMA CopiesTyped ==
  ASSUME NEW order \in Seq(Testers), NEW n, NEW id \in Nat
  PROVE  Copies(order, n, id) \in Seq({id})
<1> DEFINE J == {j \in DOMAIN order : order[j] = n}
           m == Cardinality(J)
<1>1. Len(order) \in Nat /\ DOMAIN order = 1..Len(order)
  OBVIOUS
<1>2. IsFiniteSet(1..Len(order))
  BY <1>1, FS_Interval
<1>3. IsFiniteSet(J)
  BY <1>1, <1>2, FS_Subset
<1>4. m \in Nat
  BY <1>3, FS_CardinalityType
<1>5. Copies(order, n, id) = [i \in 1..m |-> id]
  BY DEF Copies
<1> HIDE DEF m
<1>6. QED
  BY <1>4, <1>5

LEMMA SentOut ==
  ASSUME NEW s \in Seq(Nat), NEW id \in Nat, NEW u \in Seq({id}), NEW t, t = s \o u
  PROVE  t \in Seq(Nat) /\ \A i \in DOMAIN t : t[i] = id \/ (i \in DOMAIN s /\ t[i] = s[i])
<1> DEFINE L == Len(s)
           m == Len(u)
<1>1. L \in Nat /\ m \in Nat /\ DOMAIN s = 1..L /\ \A i \in 1..m : u[i] = id
  OBVIOUS
<1>2. /\ t \in Seq(Nat) /\ DOMAIN t = 1..(L + m)
      /\ \A i \in 1..L : t[i] = s[i]
      /\ \A i \in 1..(L + m) : i > L => t[i] = u[i - L]
  OBVIOUS
<1> HIDE DEF L, m
<1>3. ASSUME NEW i \in DOMAIN t PROVE t[i] = id \/ (i \in DOMAIN s /\ t[i] = s[i])
  <2>1. i \in 1..(L + m) /\ i \in Int
    BY <1>1, <1>2
  <2>2. i <= L => i \in 1..L
    BY <1>1, <2>1
  <2>3. i > L => i - L \in 1..m
    BY <1>1, <2>1
  <2>4. i <= L \/ i > L
    BY <1>1, <2>1
  <2>5. QED
    BY <1>1, <1>2, <2>1, <2>2, <2>3, <2>4
<1>4. QED
  BY <1>2, <1>3

LEMMA StartOnNodesKeeps ==
  ASSUME TestInv, Len(task) < Len(Orders), NEW order \in Orders[Len(task) + 1], StartOnNodes(order),
         UNCHANGED <<session, tester, toServer>>
  PROVE  TestInv'
<1> DEFINE id == Len(task) + 1
           v == [New(order) EXCEPT !.state = "running"]
           t == Finalized(v, {n \in TestNodes : session[n] # "up"})
           w == Watched(t)
<1>1. Len(task) \in Nat /\ id \in DOMAIN Orders /\ id \in Nat
  BY TasksAre, NetworkTestAssumption DEF TestInv
<1>2. TaskInv(id, v) /\ v.order = order /\ v.state = "running"
  BY <1>1, NewIsSound
<1>3. order \in Seq(Testers)
  BY <1>2 DEF TaskInv, TestTask
<1>4. task' = Append(task, w)
  BY DEF StartOnNodes
<1>5. \A n \in TestNodes :
        \/ toNode'[n] = toNode[n]
        \/ toNode'[n] = toNode[n] \o Copies(order, n, id)
  BY DEF StartOnNodes, Copies
<1>6. toNode' = [n \in TestNodes |-> toNode'[n]]
  BY DEF StartOnNodes
<1> HIDE DEF v
<1>7. TaskInv(id, t) /\ t.order = order
  BY <1>2, FinalizedKeeps
<1> HIDE DEF t
<1>8. TaskInv(id, w) /\ w.order = order
  <2>1. w \in TestTask /\ w.state = t.state /\ w.order = t.order /\ w.results = t.results
    BY <1>7 DEF Watched, TestTask, TaskInv
  <2>2. QED
    BY <1>7, <2>1 DEF TaskInv, HasResults, AllDone
<1> HIDE DEF w
<1>9. ~RunsHere(w)
  BY <1>8 DEF RunsHere, OnNodes, StartOnNodes
<1>10. TasksInv(task') /\ Len(task') = Len(task) + 1
  BY <1>4, <1>8, <1>9, NewTaskKeeps DEF TestInv
<1>11. ASSUME NEW n \in TestNodes
       PROVE  /\ toNode'[n] \in Seq(Nat)
              /\ \A i \in DOMAIN toNode'[n] : toNode'[n][i] = id \/ (i \in DOMAIN toNode[n] /\ toNode'[n][i] = toNode[n][i])
  <2>1. toNode[n] \in Seq(Nat)
    BY DEF TestInv, WiresInv
  <2>2. CASE toNode'[n] = toNode[n]
    BY <2>1, <2>2
  <2>3. CASE toNode'[n] = toNode[n] \o Copies(order, n, id)
    <3> DEFINE sent0 == toNode[n]
               sent1 == toNode'[n]
               copies == Copies(order, n, id)
    <3>1. sent0 \in Seq(Nat) /\ id \in Nat /\ sent1 = sent0 \o copies /\ copies \in Seq({id})
      BY <1>1, <1>3, <2>1, <2>3, CopiesTyped
    <3> HIDE DEF sent0, sent1, id, copies
    <3>2. sent1 \in Seq(Nat) /\ \A i \in DOMAIN sent1 : sent1[i] = id \/ (i \in DOMAIN sent0 /\ sent1[i] = sent0[i])
      BY <3>1, SentOut
    <3>3. QED
      BY <3>2 DEF sent0, sent1
  <2>4. QED
    BY <1>5, <2>2, <2>3
<1>12. \A n \in TestNodes : \A i \in DOMAIN toNode[n] : toNode[n][i] \in 1..Len(task)
  BY DEF TestInv, WiresInv
<1>13. \A n \in TestNodes : \A i \in DOMAIN toNode'[n] : toNode'[n][i] \in 1..id
  <2>1. id \in 1..id /\ \A m \in 1..Len(task) : m \in 1..id
    BY <1>1
  <2> SUFFICES ASSUME NEW n \in TestNodes, NEW i \in DOMAIN toNode'[n] PROVE toNode'[n][i] \in 1..id
    OBVIOUS
  <2>2. toNode'[n][i] = id \/ (i \in DOMAIN toNode[n] /\ toNode'[n][i] = toNode[n][i])
    BY <1>11
  <2>3. QED
    BY <1>12, <2>1, <2>2
<1>14. toNode' \in [TestNodes -> Seq(Nat)]
  BY <1>6, <1>11
<1>15. \A n \in TestNodes : tester[n].task <= id
  BY <1>1 DEF TestInv, WiresInv
<1>16. \A n \in TestNodes : \A i \in DOMAIN toServer[n] : toServer[n][i].task \in 1..id
  BY <1>1 DEF TestInv, WiresInv
<1> HIDE DEF id
<1>17. Len(task') = id
  BY <1>10 DEF id
<1>18. WiresInv'
  BY <1>13, <1>14, <1>15, <1>16, <1>17 DEF TestInv, WiresInv
<1>19. QED
  BY <1>10, <1>18 DEF TestInv

LEMMA WiresKept ==
  ASSUME TestInv, Len(task') \in Nat, Len(task') >= Len(task), UNCHANGED <<session, tester, toNode, toServer>>
  PROVE  WiresInv'
<1>1. Len(task) \in Nat
  BY TasksAre DEF TestInv
<1>2. \A m \in 1..Len(task) : m \in 1..Len(task')
  BY <1>1
<1>3. \A m \in Nat : m <= Len(task) => m <= Len(task')
  BY <1>1
<1>4. \A n \in TestNodes : tester[n].task \in Nat
  BY DEF TestInv, WiresInv
<1>5. QED
  BY <1>2, <1>3, <1>4 DEF TestInv, WiresInv

LEMMA StartHereKeeps ==
  ASSUME TestInv, Len(task) < Len(Orders), NEW order \in Orders[Len(task) + 1], StartHere(order),
         UNCHANGED <<session, tester, toServer>>
  PROVE  TestInv'
<1> DEFINE id == Len(task) + 1
           u == [New(order) EXCEPT !.state = "queued"]
           tasks == Append(task, u)
<1>1. Len(task) \in Nat /\ id \in DOMAIN Orders
  BY TasksAre, NetworkTestAssumption DEF TestInv
<1>2. TaskInv(id, u) /\ u.state = "queued" /\ u = New(order)
  BY <1>1, NewIsSound
<1>4. task' = Kicked(tasks)
  BY <1>2 DEF StartHere
<1> HIDE DEF u
<1>5. TasksInv(tasks) /\ Len(tasks) = Len(task) + 1
  BY <1>2, NewTaskKeeps DEF TestInv, RunsHere
<1> HIDE DEF tasks
<1>6. TasksInv(task') /\ Len(task') = Len(task) + 1
  BY <1>4, <1>5, KickedKeeps
<1>7. WiresInv'
  BY <1>1, <1>6, WiresKept DEF StartHere
<1>8. QED
  BY <1>6, <1>7 DEF TestInv


(* What passes between the server and the nodes names tasks that exist.      *)
InTasks(s) == \A i \in DOMAIN s : s[i] \in 1..Len(task)
ReportsInTasks(s) == \A i \in DOMAIN s : s[i].task \in 1..Len(task)

LEMMA TailInTasks ==
  ASSUME NEW s \in Seq(Nat), s # << >>, InTasks(s)
  PROVE  /\ Tail(s) \in Seq(Nat) /\ InTasks(Tail(s)) /\ Head(s) \in Nat /\ Head(s) \in 1..Len(task)
<1>1. /\ Tail(s) \in Seq(Nat) /\ DOMAIN Tail(s) = 1..(Len(s) - 1) /\ DOMAIN s = 1..Len(s) /\ Len(s) \in Nat
      /\ Head(s) = s[1] /\ 1 \in DOMAIN s /\ \A i \in 1..(Len(s) - 1) : Tail(s)[i] = s[i + 1]
  OBVIOUS
<1>2. \A i \in 1..(Len(s) - 1) : i + 1 \in 1..Len(s)
  BY <1>1
<1>3. Head(s) \in Nat
  BY <1>1
<1>4. QED
  BY <1>1, <1>2, <1>3 DEF InTasks

LEMMA TailReports ==
  ASSUME NEW s \in Seq(TestReport), s # << >>, ReportsInTasks(s)
  PROVE  Tail(s) \in Seq(TestReport) /\ ReportsInTasks(Tail(s))
<1>1. /\ Tail(s) \in Seq(TestReport) /\ DOMAIN Tail(s) = 1..(Len(s) - 1) /\ DOMAIN s = 1..Len(s) /\ Len(s) \in Nat
      /\ \A i \in 1..(Len(s) - 1) : Tail(s)[i] = s[i + 1]
  OBVIOUS
<1>2. \A i \in 1..(Len(s) - 1) : i + 1 \in 1..Len(s)
  BY <1>1
<1>3. QED
  BY <1>1, <1>2 DEF ReportsInTasks

LEMMA OneReportMore ==
  ASSUME NEW s \in Seq(TestReport), ReportsInTasks(s), NEW m \in TestReport, m.task \in 1..Len(task)
  PROVE  Append(s, m) \in Seq(TestReport) /\ ReportsInTasks(Append(s, m))
<1>1. /\ Append(s, m) \in Seq(TestReport) /\ DOMAIN s = 1..Len(s) /\ Len(s) \in Nat
      /\ DOMAIN Append(s, m) = 1..(Len(s) + 1) /\ Append(s, m)[Len(s) + 1] = m
      /\ \A i \in 1..Len(s) : Append(s, m)[i] = s[i]
  BY AppendProperties
<1>2. \A i \in 1..(Len(s) + 1) : i \in 1..Len(s) \/ i = Len(s) + 1
  BY <1>1
<1>3. QED
  BY <1>1, <1>2 DEF ReportsInTasks

LEMMA WiresAre ==
  ASSUME TestInv, NEW n \in TestNodes
  PROVE  /\ toNode[n] \in Seq(Nat) /\ InTasks(toNode[n])
         /\ toServer[n] \in Seq(TestReport) /\ ReportsInTasks(toServer[n])
         /\ tester[n] \in [task : Nat, next : 1..Targets + 1] /\ tester[n].task <= Len(task)
         /\ Len(task) \in Nat
BY TasksAre DEF TestInv, WiresInv, InTasks, ReportsInTasks

(* One node's wires and runner change, and the task list is as long as it    *)
(* was.                                                                      *)
LEMMA OneNodeChanges ==
  ASSUME TestInv, Len(task') = Len(task), session' \in [TestNodes -> {"up", "dying", "gone"}],
         NEW n \in TestNodes,
         NEW a, a \in Seq(Nat), InTasks(a), toNode' = [toNode EXCEPT ![n] = a],
         NEW b, b \in Seq(TestReport), ReportsInTasks(b), toServer' = [toServer EXCEPT ![n] = b],
         NEW c, c \in [task : Nat, next : 1..Targets + 1], c.task <= Len(task),
         tester' = [tester EXCEPT ![n] = c]
  PROVE  WiresInv'
<1>1. /\ toNode' \in [TestNodes -> Seq(Nat)] /\ \A m \in TestNodes : InTasks(toNode'[m])
  <2>1. toNode \in [TestNodes -> Seq(Nat)]
    BY DEF TestInv, WiresInv
  <2>2. \A m \in TestNodes : InTasks(toNode[m])
    BY WiresAre
  <2>3. QED
    BY <2>1, <2>2
<1>2. /\ toServer' \in [TestNodes -> Seq(TestReport)] /\ \A m \in TestNodes : ReportsInTasks(toServer'[m])
  <2>1. toServer \in [TestNodes -> Seq(TestReport)]
    BY DEF TestInv, WiresInv
  <2>2. \A m \in TestNodes : ReportsInTasks(toServer[m])
    BY WiresAre
  <2>3. QED
    BY <2>1, <2>2
<1>3. tester' \in [TestNodes -> [task : Nat, next : 1..Targets + 1]] /\ \A m \in TestNodes : tester'[m].task <= Len(task)
  <2>1. tester \in [TestNodes -> [task : Nat, next : 1..Targets + 1]]
    BY DEF TestInv, WiresInv
  <2>2. \A m \in TestNodes : tester[m].task <= Len(task)
    BY WiresAre
  <2>3. QED
    BY <2>1, <2>2
<1>4. QED
  BY <1>1, <1>2, <1>3 DEF WiresInv, InTasks, ReportsInTasks

LEMMA NoChange == ASSUME NEW S, NEW V, NEW f \in [S -> V], NEW x \in S PROVE f = [f EXCEPT ![x] = f[x]]
OBVIOUS

LEMMA SameWires ==
  ASSUME TestInv, NEW n \in TestNodes
  PROVE  /\ toNode = [toNode EXCEPT ![n] = toNode[n]] /\ toServer = [toServer EXCEPT ![n] = toServer[n]]
         /\ tester = [tester EXCEPT ![n] = tester[n]]
         /\ session \in [TestNodes -> {"up", "dying", "gone"}]
         /\ \A s \in {"up", "dying", "gone"} :
              [session EXCEPT ![n] = s] \in [TestNodes -> {"up", "dying", "gone"}]
<1>1. /\ toNode \in [TestNodes -> Seq(Nat)] /\ toServer \in [TestNodes -> Seq(TestReport)]
      /\ tester \in [TestNodes -> [task : Nat, next : 1..Targets + 1]]
      /\ session \in [TestNodes -> {"up", "dying", "gone"}]
  BY DEF TestInv, WiresInv
<1>2. toNode = [toNode EXCEPT ![n] = toNode[n]] /\ toServer = [toServer EXCEPT ![n] = toServer[n]]
  BY <1>1, NoChange
<1>3. tester = [tester EXCEPT ![n] = tester[n]]
  BY <1>1, NoChange
<1>4. QED
  BY <1>1, <1>2, <1>3

(* What safeSend() makes of the wire.                                        *)
LEMMA SendWire ==
  ASSUME TestInv, NEW n \in TestNodes, NEW m \in TestReport, m.task \in 1..Len(task), Send(n, m)
  PROVE  \E b \in Seq(TestReport) : ReportsInTasks(b) /\ toServer' = [toServer EXCEPT ![n] = b]
<1>1. CASE session[n] = "up"
  <2>1. toServer' = [toServer EXCEPT ![n] = Append(toServer[n], m)]
    BY <1>1 DEF Send
  <2>2. Append(toServer[n], m) \in Seq(TestReport) /\ ReportsInTasks(Append(toServer[n], m))
    BY WiresAre, OneReportMore
  <2>3. QED
    BY <2>1, <2>2
<1>2. CASE session[n] # "up"
  BY <1>2, WiresAre, SameWires DEF Send
<1>3. QED
  BY <1>1, <1>2


LEMMA ReportTyped ==
  ASSUME NEW k \in 1..Len(task), Len(task) \in Nat, NEW i \in 0..Targets, NEW e \in BOOLEAN
  PROVE  Report(k, i, e) \in TestReport /\ Report(k, i, e).task \in 1..Len(task)
BY DEF Report, TestReport

LEMMA HandleNetTestKeeps ==
  ASSUME TestInv, NEW n \in TestNodes, HandleNetTest(n)
  PROVE  TestInv'
<1> DEFINE k == Head(toNode[n])
           a == Tail(toNode[n])
<1>1. a \in Seq(Nat) /\ InTasks(a) /\ k \in 1..Len(task) /\ k \in Nat /\ k <= Len(task) /\ Len(task) \in Nat
  <2>1. toNode[n] # << >>
    BY DEF HandleNetTest
  <2>2. a \in Seq(Nat) /\ InTasks(a) /\ k \in Nat /\ k \in 1..Len(task) /\ Len(task) \in Nat
    BY <2>1, WiresAre, TailInTasks
  <2> HIDE DEF k
  <2>3. k <= Len(task)
    BY <2>2
  <2>4. QED
    BY <2>2, <2>3
<1>2. toNode' = [toNode EXCEPT ![n] = a] /\ task' = task /\ session' = session
  BY DEF HandleNetTest
<1>3. session' \in [TestNodes -> {"up", "dying", "gone"}]
  BY <1>2, SameWires
<1>4. CASE tester[n].task # 0
  <2>1. Send(n, Report(k, 0, TRUE)) /\ tester' = [tester EXCEPT ![n] = tester[n]]
    BY <1>4, SameWires DEF HandleNetTest
  <2> HIDE DEF k, a
  <2>2. Report(k, 0, TRUE) \in TestReport /\ Report(k, 0, TRUE).task \in 1..Len(task)
    <3>1. 0 \in 0..Targets /\ TRUE \in BOOLEAN
      BY NetworkTestAssumption
    <3>2. QED
      BY <1>1, <3>1, ReportTyped
  <2>3. PICK b \in Seq(TestReport) : ReportsInTasks(b) /\ toServer' = [toServer EXCEPT ![n] = b]
    BY <2>1, <2>2, SendWire
  <2>4. WiresInv'
    BY <1>1, <1>2, <1>3, <2>1, <2>3, WiresAre, OneNodeChanges
  <2>5. QED
    BY <1>2, <2>4 DEF TestInv
<1>5. CASE tester[n].task = 0
  <2> DEFINE c == [task |-> k, next |-> 1]
  <2>1. tester' = [tester EXCEPT ![n] = c] /\ toServer' = [toServer EXCEPT ![n] = toServer[n]]
    BY <1>5, SameWires DEF HandleNetTest
  <2> HIDE DEF k, a
  <2>2. c \in [task : Nat, next : 1..Targets + 1] /\ c.task <= Len(task)
    BY <1>1, NetworkTestAssumption
  <2> HIDE DEF c
  <2>3. WiresInv'
    BY <1>1, <1>2, <1>3, <2>1, <2>2, WiresAre, OneNodeChanges
  <2>4. QED
    BY <1>2, <2>3 DEF TestInv
<1>6. QED
  BY <1>4, <1>5

LEMMA TargetTestedKeeps ==
  ASSUME TestInv, NEW n \in TestNodes, TargetTested(n)
  PROVE  TestInv'
<1> DEFINE r == tester[n]
           i == IF r.next \in Index THEN r.next ELSE 0
           c == IF r.next \in Index THEN [r EXCEPT !.next = r.next + 1] ELSE Idle
<1>1. /\ r \in [task : Nat, next : 1..Targets + 1] /\ r.task <= Len(task) /\ r.task # 0 /\ Len(task) \in Nat
      /\ Targets \in Nat \ {0}
  BY WiresAre, NetworkTestAssumption DEF TargetTested
<1>2. Send(n, Report(r.task, i, FALSE)) /\ tester' = [tester EXCEPT ![n] = c]
  <2>1. tester \in [TestNodes -> [task : Nat, next : 1..Targets + 1]]
    BY DEF TestInv, WiresInv
  <2>2. QED
    BY <2>1 DEF TargetTested
<1>3. task' = task /\ session' = session /\ toNode' = [toNode EXCEPT ![n] = toNode[n]]
  BY SameWires DEF TargetTested
<1>4. session' \in [TestNodes -> {"up", "dying", "gone"}]
  BY <1>3, SameWires
<1> HIDE DEF r
<1>5. r.task \in 1..Len(task) /\ i \in 0..Targets
  <2> DEFINE k == r.task
             L == Len(task)
  <2>1. k \in Nat /\ k # 0 /\ k <= L /\ L \in Nat
    BY <1>1
  <2> HIDE DEF k, L
  <2>2. k \in 1..L
    BY <2>1
  <2>3. i \in 0..Targets
    BY <1>1 DEF Index
  <2>4. QED
    BY <2>2, <2>3 DEF k, L
<1>6. c \in [task : Nat, next : 1..Targets + 1] /\ c.task <= Len(task)
  <2>1. CASE r.next \in Index
    <3> DEFINE x == r.next + 1
    <3>1. x \in 1..Targets + 1
      BY <1>1, <2>1 DEF Index
    <3>2. c = [r EXCEPT !.next = x]
      BY <2>1
    <3> HIDE DEF x
    <3>3. QED
      BY <1>1, <3>1, <3>2
  <2>2. CASE r.next \notin Index
    BY <1>1, <2>2 DEF Idle
  <2>3. QED
    BY <2>1, <2>2
<1> HIDE DEF i, c
<1>7. Report(r.task, i, FALSE) \in TestReport /\ Report(r.task, i, FALSE).task \in 1..Len(task)
  BY <1>1, <1>5, ReportTyped
<1>8. PICK b \in Seq(TestReport) : ReportsInTasks(b) /\ toServer' = [toServer EXCEPT ![n] = b]
  BY <1>2, <1>7, SendWire
<1>9. WiresInv'
  BY <1>2, <1>3, <1>4, <1>6, <1>8, WiresAre, OneNodeChanges
<1>10. QED
  BY <1>3, <1>9 DEF TestInv

LEMMA HandleReportKeeps ==
  ASSUME TestInv, NEW n \in TestNodes, HandleReport(n)
  PROVE  TestInv'
<1> DEFINE b == Tail(toServer[n])
<1>1. TasksInv(task') /\ Len(task') = Len(task)
  BY HandleReportTasks
<1>2. toServer' = [toServer EXCEPT ![n] = b] /\ toServer[n] # << >>
  BY DEF HandleReport
<1>3. session' = session /\ tester' = [tester EXCEPT ![n] = tester[n]] /\ toNode' = [toNode EXCEPT ![n] = toNode[n]]
  BY SameWires DEF HandleReport
<1>4. session' \in [TestNodes -> {"up", "dying", "gone"}]
  BY <1>3, SameWires
<1>5. b \in Seq(TestReport) /\ ReportsInTasks(b)
  BY <1>2, WiresAre, TailReports
<1> HIDE DEF b
<1>6. WiresInv'
  BY <1>1, <1>2, <1>3, <1>4, <1>5, WiresAre, OneNodeChanges
<1>7. QED
  BY <1>1, <1>6 DEF TestInv

LEMMA NoReports == << >> \in Seq(TestReport) /\ ReportsInTasks(<< >>) /\ << >> \in Seq(Nat) /\ InTasks(<< >>)
BY DEF ReportsInTasks, InTasks

LEMMA ComingAndGoing ==
  ASSUME TestInv, NEW n \in TestNodes, NodeDies(n) \/ Removed(n) \/ Returns(n)
  PROVE  TestInv'
<1>1. TasksInv(task') /\ Len(task') = Len(task)
  BY ChangedKeeps DEF TestInv, NodeDies, Removed, Returns
<1>2. PICK s \in {"up", "dying", "gone"} : session' = [session EXCEPT ![n] = s]
  BY DEF NodeDies, Removed, Returns
<1>3. session' \in [TestNodes -> {"up", "dying", "gone"}]
  BY <1>2, SameWires
<1>4. tester' = [tester EXCEPT ![n] = tester[n]]
  BY SameWires DEF NodeDies, Removed, Returns
<1>5. \E a \in Seq(Nat) : InTasks(a) /\ toNode' = [toNode EXCEPT ![n] = a]
  <2>1. toNode' = [toNode EXCEPT ![n] = << >>] \/ toNode' = [toNode EXCEPT ![n] = toNode[n]]
    BY SameWires DEF NodeDies, Removed, Returns
  <2>2. toNode[n] \in Seq(Nat) /\ InTasks(toNode[n])
    BY WiresAre
  <2>3. QED
    BY <2>1, <2>2, NoReports, Zenon
<1>6. \E b \in Seq(TestReport) : ReportsInTasks(b) /\ toServer' = [toServer EXCEPT ![n] = b]
  <2>1. toServer' = [toServer EXCEPT ![n] = << >>] \/ toServer' = [toServer EXCEPT ![n] = toServer[n]]
    BY SameWires DEF NodeDies, Removed, Returns
  <2>2. toServer[n] \in Seq(TestReport) /\ ReportsInTasks(toServer[n])
    BY WiresAre
  <2>3. QED
    BY <2>1, <2>2, NoReports, Zenon
<1>7. PICK a \in Seq(Nat) : InTasks(a) /\ toNode' = [toNode EXCEPT ![n] = a]
  BY <1>5
<1>8. PICK b \in Seq(TestReport) : ReportsInTasks(b) /\ toServer' = [toServer EXCEPT ![n] = b]
  BY <1>6
<1>9. WiresInv'
  BY <1>1, <1>3, <1>4, <1>7, <1>8, WiresAre, OneNodeChanges
<1>10. QED
  BY <1>1, <1>9 DEF TestInv

LEMMA TestStarts == NetworkTestInit => TestInv
<1> SUFFICES ASSUME NetworkTestInit PROVE TestInv
  OBVIOUS
<1>1. task = << >> /\ DOMAIN task = {} /\ Len(task) = 0 /\ task \in Seq(TestTask) /\ Len(Orders) \in Nat
  BY NetworkTestAssumption DEF NetworkTestInit
<1>2. TasksInv(task)
  BY <1>1 DEF TasksInv, OneRuns
<1>3. Idle \in [task : Nat, next : 1..Targets + 1] /\ Idle.task = 0
  BY NetworkTestAssumption DEF Idle
<1>4. /\ session \in [TestNodes -> {"up", "dying", "gone"}]
      /\ tester \in [TestNodes -> [task : Nat, next : 1..Targets + 1]]
      /\ \A n \in TestNodes : tester[n].task = 0
  BY <1>3 DEF NetworkTestInit
<1>5. /\ toNode \in [TestNodes -> Seq(Nat)] /\ toServer \in [TestNodes -> Seq(TestReport)]
      /\ \A n \in TestNodes : DOMAIN toNode[n] = {} /\ DOMAIN toServer[n] = {}
  BY NoReports DEF NetworkTestInit
<1>6. WiresInv
  BY <1>1, <1>4, <1>5 DEF WiresInv
<1>7. QED
  BY <1>2, <1>6 DEF TestInv

LEMMA TestStep == TestInv /\ [NetworkTestNext]_testVars => TestInv'
<1> SUFFICES ASSUME TestInv, [NetworkTestNext]_testVars PROVE TestInv'
  OBVIOUS
<1>1. CASE Start
  BY <1>1, StartOnNodesKeeps, StartHereKeeps DEF Start
<1>2. ASSUME NEW k \in DOMAIN task, RunHere(k) \/ Watchdog(k) \/ GC(k) PROVE TestInv'
  <2>1. TasksInv(task') /\ Len(task') = Len(task)
    BY <1>2, RunHereTasks, WatchdogTasks, GCTasks
  <2>2. UNCHANGED <<session, tester, toNode, toServer>>
    BY <1>2 DEF RunHere, Watchdog, GC
  <2>3. Len(task) \in Nat
    BY TasksAre DEF TestInv
  <2>4. WiresInv'
    BY <2>1, <2>2, <2>3, WiresKept
  <2>5. QED
    BY <2>1, <2>4 DEF TestInv
<1>3. ASSUME NEW n \in TestNodes,
             \/ HandleNetTest(n) \/ TargetTested(n) \/ HandleReport(n)
             \/ NodeDies(n) \/ Removed(n) \/ Returns(n)
      PROVE  TestInv'
  BY <1>3, HandleNetTestKeeps, TargetTestedKeeps, HandleReportKeeps, ComingAndGoing
<1>4. CASE UNCHANGED testVars
  BY <1>4 DEF testVars, TestInv, WiresInv
<1>5. QED
  BY <1>1, <1>2, <1>3, <1>4 DEF NetworkTestNext

LEMMA TestGuarantee == TestInv => NetworkTestTypeOK /\ DoneIsComplete
<1> SUFFICES ASSUME TestInv PROVE NetworkTestTypeOK /\ DoneIsComplete
  OBVIOUS
<1>1. ASSUME NEW n \in TestNodes
      PROVE  tester[n].task \in 0..Len(task) /\ tester[n].next \in 1..Targets + 1
  BY <1>1, WiresAre
<1>2. ASSUME NEW k \in DOMAIN task
      PROVE  /\ task[k].order \in Orders[k] /\ DOMAIN task[k].results \in {{}, Range(task[k].order)}
             /\ task[k].state \in {"queued", "running", "done", "forgotten"}
             /\ \A c \in DOMAIN task[k].results : \A i \in Index :
                  /\ task[k].results[c][i] <= 1
                  /\ task[k].state = "done" => task[k].results[c][i] = 1
  <2> DEFINE t == task[k]
  <2>1. TaskInv(k, t)
    BY DEF TestInv, TasksInv
  <2>2. t.state \in TaskStates
    BY <2>1 DEF TaskInv, TestTask
  <2> HIDE DEF t
  <2>3. CASE t.state = "forgotten"
    BY <2>1, <2>2, <2>3 DEF TaskInv, TaskStates, t
  <2>4. CASE t.state # "forgotten"
    <3>1. t.results \in [Range(t.order) -> [Index -> 0..1]]
      BY <2>1, <2>4 DEF TaskInv, HasResults
    <3>2. \A c \in Range(t.order) : \A i \in Index : t.results[c][i] <= 1
      BY <3>1
    <3>3. QED
      BY <2>1, <2>2, <3>1, <3>2 DEF TaskInv, TaskStates, AllDone, t
  <2>5. QED
    BY <2>3, <2>4
<1>3. Cardinality({k \in DOMAIN task : ~OnNodes(task[k]) /\ task[k].state = "running"}) <= 1
  <2> DEFINE R == {k \in DOMAIN task : ~OnNodes(task[k]) /\ task[k].state = "running"}
  <2>1. \A j, k \in R : j = k
    BY DEF TestInv, TasksInv, OneRuns, RunsHere
  <2> HIDE DEF R
  <2>2. CASE R = {}
    BY <2>2, FS_EmptySet DEF R
  <2>3. CASE R # {}
    <3>1. PICK k \in R : R = {k}
      BY <2>1, <2>3
    <3>2. Cardinality(R) = 1
      BY <3>1, FS_Singleton
    <3>3. QED
      BY <3>2 DEF R
  <2>4. QED
    BY <2>2, <2>3
<1>4. QED
  BY <1>1, <1>2, <1>3 DEF NetworkTestTypeOK, DoneIsComplete

----------------------------------------------------------------------------
(* Probes.  What a ping and the trace of a node report.                      *)
Tools == {"ping", "tcping", "http", "dns", "traceroute"}
ProbeKinds ==
  /\ tool \in Tools /\ runner \in {"server", "node"} /\ sent \in Nat /\ list \in Seq(Nat)
  /\ waiting \subseteq 1..sent /\ timers \subseteq 0..sent
  /\ result \in {"none", "icmp", "tcp", "ok", "failed"}

(* A ping lists just the echoes it got, each for a probe that no longer      *)
(* waits, so never one twice.                                                *)
PingInv == tool = "ping" =>
  /\ sent <= Count /\ Len(list) + Cardinality(waiting) <= sent
  /\ Range(list) = answered /\ Range(list) \cap waiting = {} /\ Range(list) \subseteq 1..sent
  /\ \A i, j \in DOMAIN list : i < j => list[i] # list[j]

(* A node that is not at the end of its trace has listed only hops before    *)
(* the one it is at.                                                         *)
TraceInv == tool = "traceroute" =>
  /\ sent \in 1..MaxHops
  /\ runner = "server" => list = << >>
  /\ runner = "node" =>
       /\ Range(list) = answered /\ \A i, j \in DOMAIN list : i < j => list[i] < list[j]
       /\ Len(list) <= sent
       /\ ~ProbeSettled => Len(list) < sent /\ \A i \in DOMAIN list : list[i] < sent

OthersInv ==
  /\ tool = "http" => sent \in 1..Redirects + 1 /\ Len(list) <= IF ProbeSettled THEN Limit + 1 ELSE Limit
  /\ tool = "dns" => sent \in 1..RecordTypes /\ Len(list) <= IF ProbeSettled THEN sent ELSE sent - 1
  /\ tool = "tcping" => sent = 1 /\ list = << >>

ProbeInv == ProbeKinds /\ PingInv /\ TraceInv /\ OthersInv

LEMMA Listed ==
  ASSUME NEW s \in Seq(Nat), NEW e \in Nat
  PROVE  /\ Append(s, e) \in Seq(Nat) /\ Len(Append(s, e)) = Len(s) + 1 /\ Len(s) \in Nat
         /\ DOMAIN s = 1..Len(s) /\ DOMAIN Append(s, e) = 1..(Len(s) + 1)
         /\ Append(s, e)[Len(s) + 1] = e /\ \A i \in 1..Len(s) : Append(s, e)[i] = s[i]
         /\ Range(Append(s, e)) = Range(s) \cup {e}
<1>1. /\ Append(s, e) \in Seq(Nat) /\ Len(Append(s, e)) = Len(s) + 1 /\ Len(s) \in Nat
      /\ DOMAIN s = 1..Len(s) /\ DOMAIN Append(s, e) = 1..(Len(s) + 1)
      /\ Append(s, e)[Len(s) + 1] = e /\ \A i \in 1..Len(s) : Append(s, e)[i] = s[i]
  BY AppendProperties
<1>2. 1..(Len(s) + 1) = 1..Len(s) \cup {Len(s) + 1}
  BY <1>1
<1>3. Range(Append(s, e)) = Range(s) \cup {e}
  BY <1>1, <1>2 DEF Range
<1>4. QED
  BY <1>1, <1>3

LEMMA NothingListed == Len(<< >>) = 0 /\ << >> \in Seq(Nat) /\ Range(<< >>) = {} /\ DOMAIN << >> = {}
BY DEF Range

LEMMA WaitingFinite ==
  ASSUME ProbeKinds
  PROVE  IsFiniteSet(waiting) /\ Cardinality(waiting) \in Nat
<1>1. sent \in Nat /\ waiting \in SUBSET (1..sent)
  BY DEF ProbeKinds
<1>2. IsFiniteSet(1..sent)
  BY <1>1, FS_Interval
<1>3. QED
  BY <1>1, <1>2, FS_Subset, FS_CardinalityType

LEMMA ProbeStarts == ProbesInit => ProbeInv
<1> SUFFICES ASSUME ProbesInit PROVE ProbeInv
  OBVIOUS
<1>1. ProbeKinds
  BY NothingListed DEF ProbesInit, ProbeKinds, Tools
<1>2. list = << >> /\ answered = {}
  BY DEF ProbesInit
<1>3. PingInv
  <2>1. tool = "ping" => sent = 0 /\ waiting = {}
    BY DEF ProbesInit
  <2>2. Cardinality({}) = 0
    BY FS_EmptySet
  <2>3. Len(list) = 0 /\ Range(list) = {} /\ DOMAIN list = {}
    BY <1>2, NothingListed
  <2>4. tool = "ping" => Len(list) + Cardinality(waiting) <= sent /\ sent <= Count
    BY SMTT(30), <2>1, <2>2, <2>3, ProbesAssumption
  <2>5. QED
    BY <1>2, <2>3, <2>4 DEF PingInv
<1>4. tool # "ping" => sent = 1
  BY DEF ProbesInit
<1>5. TraceInv /\ OthersInv
  BY <1>2, <1>4, NothingListed, ProbesAssumption DEF TraceInv, OthersInv
<1>6. QED
  BY <1>1, <1>3, <1>5 DEF ProbeInv

----------------------------------------------------------------------------
(* Ping.                                                                     *)
LEMMA SendOneKeeps ==
  ASSUME ProbeInv, SendOne
  PROVE  ProbeInv'
<1>1. /\ tool = "ping" /\ tool' = tool /\ sent' = sent + 1 /\ waiting' = waiting \cup {sent + 1}
      /\ UNCHANGED <<runner, timers, list, result, answered>> /\ sent \in Nat /\ sent < Count /\ Count \in Nat
  BY ProbesAssumption DEF SendOne, ProbeInv, ProbeKinds
<1>2. ProbeKinds'
  BY <1>1 DEF ProbeInv, ProbeKinds
<1>3. sent + 1 \notin waiting /\ sent + 1 \notin Range(list)
  BY <1>1 DEF ProbeInv, ProbeKinds, PingInv
<1>4. Cardinality(waiting') = Cardinality(waiting) + 1 /\ Cardinality(waiting) \in Nat
  <2>1. IsFiniteSet(waiting) /\ Cardinality(waiting) \in Nat
    BY WaitingFinite DEF ProbeInv
  <2>2. QED
    BY <1>1, <1>3, <2>1, FS_AddElement
<1>5. PingInv'
  <2>1. /\ Len(list) + Cardinality(waiting) <= sent
        /\ Range(list) = answered /\ Range(list) \cap waiting = {} /\ Range(list) \subseteq 1..sent
        /\ \A i, j \in DOMAIN list : i < j => list[i] # list[j]
        /\ list \in Seq(Nat)
    BY <1>1 DEF ProbeInv, ProbeKinds, PingInv
  <2>2. Len(list) + Cardinality(waiting') <= sent'
    BY <1>1, <1>4, <2>1
  <2>3. Range(list) \cap waiting' = {} /\ Range(list) \subseteq 1..sent' /\ sent' <= Count
    BY <1>1, <1>3, <2>1
  <2>4. QED
    BY <1>1, <2>1, <2>2, <2>3 DEF PingInv
<1>6. QED
  BY <1>1, <1>2, <1>5 DEF ProbeInv, TraceInv, OthersInv

LEMMA EchoKeeps ==
  ASSUME ProbeInv, NEW seq \in 1..Count, Echo(seq)
  PROVE  ProbeInv'
<1> DEFINE L == Len(list)
<1>1. /\ tool = "ping" /\ tool' = tool /\ seq \in waiting /\ waiting' = waiting \ {seq}
      /\ UNCHANGED <<runner, timers, sent>> /\ sent \in Nat /\ list \in Seq(Nat)
      /\ list' = Append(list, seq) /\ answered' = answered \cup {seq} /\ seq \in Nat
  BY ProbesAssumption DEF Echo, Matched, ProbeInv, ProbeKinds
<1>2. result' \in {"none", "icmp", "tcp", "ok", "failed"}
  BY DEF Echo
<1>3. /\ list' \in Seq(Nat) /\ Len(list') = L + 1 /\ L \in Nat
      /\ DOMAIN list = 1..L /\ DOMAIN list' = 1..(L + 1)
      /\ list'[L + 1] = seq /\ \A i \in 1..L : list'[i] = list[i]
      /\ Range(list') = Range(list) \cup {seq}
  BY <1>1, Listed
<1>4. ProbeKinds'
  BY <1>1, <1>2, <1>3 DEF ProbeInv, ProbeKinds
<1>5. Cardinality(waiting') = Cardinality(waiting) - 1 /\ Cardinality(waiting) \in Nat
  <2>1. IsFiniteSet(waiting) /\ Cardinality(waiting) \in Nat
    BY WaitingFinite DEF ProbeInv
  <2>2. QED
    BY <1>1, <2>1, FS_RemoveElement
<1>6. /\ L + Cardinality(waiting) <= sent /\ sent <= Count /\ waiting \subseteq 1..sent
      /\ Range(list) = answered /\ Range(list) \cap waiting = {} /\ Range(list) \subseteq 1..sent
      /\ \A i, j \in DOMAIN list : i < j => list[i] # list[j]
      /\ \A i \in DOMAIN list : list[i] # seq
  <2>1. seq \notin Range(list)
    BY <1>1 DEF ProbeInv, PingInv
  <2>2. \A i \in DOMAIN list : list[i] # seq
    BY <2>1 DEF Range
  <2>3. QED
    BY <1>1, <2>2 DEF ProbeInv, ProbeKinds, PingInv
<1> HIDE DEF L
<1>7. Len(list') + Cardinality(waiting') <= sent
  BY <1>1, <1>3, <1>5, <1>6
<1>8. Range(list') = answered' /\ Range(list') \cap waiting' = {} /\ Range(list') \subseteq 1..sent
  BY <1>1, <1>3, <1>6
<1>9. ASSUME NEW i \in DOMAIN list', NEW j \in DOMAIN list', i < j PROVE list'[i] # list'[j]
  <2>1. i \in 1..L /\ (j \in 1..L \/ j = L + 1)
    BY <1>3, <1>9
  <2>2. QED
    BY <1>3, <1>6, <1>9, <2>1
<1>10. PingInv'
  BY <1>1, <1>6, <1>7, <1>8, <1>9 DEF PingInv
<1>11. QED
  BY <1>1, <1>4, <1>10 DEF ProbeInv, TraceInv, OthersInv

LEMMA PingEnds ==
  ASSUME ProbeInv, Finish \/ IcmpError \/ TcpPing \/ Tcping
  PROVE  ProbeInv'
<1>1. /\ tool \in {"ping", "tcping"} /\ UNCHANGED <<tool, runner, sent, waiting, timers>>
      /\ (list' = list /\ answered' = answered) \/ (list' = << >> /\ answered' = {} /\ tool = "ping")
      /\ result' \in {"none", "icmp", "tcp", "ok", "failed"}
  BY DEF Finish, IcmpError, TcpPing, Tcping, ProbeInv, ProbeKinds
<1>2. ProbeKinds'
  BY <1>1, NothingListed DEF ProbeInv, ProbeKinds
<1>3. PingInv'
  <2>1. CASE list' = list /\ answered' = answered
    BY <1>1, <2>1 DEF ProbeInv, PingInv
  <2>2. CASE list' = << >> /\ answered' = {} /\ tool = "ping"
    <3> DEFINE c == Cardinality(waiting)
               L == Len(list)
    <3>1. L + c <= sent /\ c \in Nat /\ L \in Nat /\ sent \in Nat /\ sent <= Count
      BY <2>2, WaitingFinite DEF ProbeInv, ProbeKinds, PingInv
    <3> HIDE DEF c, L
    <3>2. 0 + c <= sent
      BY <3>1
    <3>3. QED
      BY <1>1, <2>2, <3>1, <3>2, NothingListed DEF PingInv, c
  <2>3. QED
    BY <1>1, <2>1, <2>2
<1>4. TraceInv' /\ OthersInv'
  BY <1>1 DEF ProbeInv, TraceInv, OthersInv
<1>5. QED
  BY <1>2, <1>3, <1>4 DEF ProbeInv


----------------------------------------------------------------------------
(* HTTP and DNS.                                                             *)
LEMMA HttpKeeps ==
  ASSUME ProbeInv, Redirected \/ BodyChunk \/ HttpEnds
  PROVE  ProbeInv'
<1>1. /\ tool = "http" /\ ~ProbeSettled /\ UNCHANGED <<tool, runner, waiting, timers, answered>>
      /\ sent' \in {sent, sent + 1} /\ result' \in {"none", "icmp", "tcp", "ok", "failed"}
  BY DEF Redirected, BodyChunk, HttpEnds, ProbeInv, ProbeKinds
<1>2. sent \in Nat /\ list \in Seq(Nat) /\ sent \in 1..Redirects + 1 /\ Len(list) <= Limit
  BY <1>1 DEF ProbeInv, ProbeKinds, OthersInv
<1>3. /\ list' \in Seq(Nat) /\ Len(list') \in {Len(list), Len(list) + 1} /\ Len(list) \in Nat
      /\ Len(list') > Limit => result' \in {"ok", "failed"}
  <2>1. CASE list' = list
    BY <1>2, <2>1, ProbesAssumption
  <2>2. CASE BodyChunk
    <3>1. list' = Append(list, sent) /\ (Len(list') > Limit => result' = "ok")
      BY <2>2 DEF BodyChunk
    <3>2. QED
      BY <1>2, <3>1, Listed
  <2>3. QED
    BY <2>1, <2>2 DEF Redirected, BodyChunk, HttpEnds
<1>4. sent' \in 1..Redirects + 1
  BY <1>2, ProbesAssumption DEF Redirected, BodyChunk, HttpEnds, Following
<1>5. ProbeKinds'
  <2>1. waiting \subseteq 1..sent' /\ timers \subseteq 0..sent' /\ sent' \in Nat
    BY <1>1, <1>2 DEF ProbeInv, ProbeKinds
  <2>2. QED
    BY <1>1, <1>3, <2>1 DEF ProbeInv, ProbeKinds
<1>6. OthersInv'
  <2> DEFINE m == Len(list')
             l == Len(list)
  <2>1. l \in Nat /\ l <= Limit /\ m \in {l, l + 1} /\ Limit \in Nat /\ (m > Limit => ProbeSettled')
    BY <1>2, <1>3, ProbesAssumption DEF ProbeSettled
  <2> HIDE DEF m, l
  <2>2. m <= Limit + 1 /\ (~ProbeSettled' => m <= Limit)
    BY <2>1
  <2>3. QED
    BY <1>1, <1>4, <2>2 DEF OthersInv, m
<1>7. QED
  BY <1>1, <1>5, <1>6 DEF ProbeInv, PingInv, TraceInv

LEMMA ResolvedKeeps ==
  ASSUME ProbeInv, NEW found \in BOOLEAN, Resolved(found)
  PROVE  ProbeInv'
<1>1. /\ tool = "dns" /\ ~ProbeSettled /\ UNCHANGED <<tool, runner, waiting, timers, answered>>
      /\ sent' \in {sent, sent + 1} /\ result' \in {"none", "icmp", "tcp", "ok", "failed"}
  BY DEF Resolved, ProbeInv, ProbeKinds
<1>2. sent \in Nat /\ list \in Seq(Nat) /\ sent \in 1..RecordTypes /\ Len(list) <= sent - 1
  BY <1>1 DEF ProbeInv, ProbeKinds, OthersInv
<1>3. list' \in Seq(Nat) /\ Len(list') \in {Len(list), Len(list) + 1} /\ Len(list) \in Nat
  <2>1. list' \in {list, Append(list, sent)}
    BY DEF Resolved
  <2>2. QED
    BY <1>2, <2>1, Listed
<1>4. /\ sent' \in 1..RecordTypes
      /\ sent' = sent + 1 \/ (sent' = sent /\ ProbeSettled')
  BY <1>2, ProbesAssumption DEF Resolved, ProbeSettled
<1>5. ProbeKinds'
  <2>1. waiting \subseteq 1..sent' /\ timers \subseteq 0..sent' /\ sent' \in Nat
    BY <1>1, <1>2 DEF ProbeInv, ProbeKinds
  <2>2. QED
    BY <1>1, <1>3, <2>1 DEF ProbeInv, ProbeKinds
<1>6. OthersInv'
  <2> DEFINE m == Len(list')
             l == Len(list)
  <2>1. l \in Nat /\ l <= sent - 1 /\ m \in {l, l + 1} /\ sent \in Nat
    BY <1>2, <1>3
  <2> HIDE DEF m, l
  <2>4. sent' = sent + 1 => m <= sent' /\ m <= sent' - 1
    BY <2>1
  <2>5. sent' = sent => m <= sent'
    BY <2>1
  <2>2. m <= IF ProbeSettled' THEN sent' ELSE sent' - 1
    BY <1>4, <2>4, <2>5
  <2>3. QED
    BY <1>1, <1>4, <2>2 DEF OthersInv, m
<1>7. QED
  BY <1>1, <1>5, <1>6 DEF ProbeInv, PingInv, TraceInv

----------------------------------------------------------------------------
(* Traceroute.  A step that lists nothing leaves sent or is one hop further  *)
(* at least, and leaves the answers to the node alone.                       *)
LEMMA TraceStep ==
  ASSUME ProbeInv, tool = "traceroute", ~ProbeSettled, UNCHANGED <<tool, runner, list>>,
         runner = "node" => answered' = answered,
         sent' \in Nat, sent' >= sent, sent' <= MaxHops,
         result' \in {"none", "icmp", "tcp", "ok", "failed"},
         waiting' \subseteq 1..sent', timers' \subseteq 0..sent'
  PROVE  ProbeInv'
<1>1. sent \in 1..MaxHops /\ sent \in Nat /\ list \in Seq(Nat)
  BY DEF ProbeInv, ProbeKinds, TraceInv
<1>2. ProbeKinds'
  BY DEF ProbeInv, ProbeKinds
<1>3. TraceInv'
  <2>1. sent' \in 1..MaxHops
    BY <1>1, ProbesAssumption
  <2>2. CASE runner = "server"
    BY <2>1, <2>2 DEF ProbeInv, TraceInv
  <2>3. CASE runner = "node"
    <3> DEFINE L == Len(list)
    <3>1. /\ Range(list) = answered /\ \A i, j \in DOMAIN list : i < j => list[i] < list[j]
          /\ L < sent /\ L \in Nat /\ \A i \in DOMAIN list : list[i] < sent /\ list[i] \in Nat
      BY <1>1, <2>3 DEF ProbeInv, TraceInv
    <3> HIDE DEF L
    <3>2. L < sent' /\ L <= sent'
      BY <1>1, <3>1
    <3>3. \A i \in DOMAIN list : list[i] < sent'
      BY <1>1, <3>1
    <3>4. QED
      BY <2>1, <2>3, <3>1, <3>2, <3>3 DEF TraceInv, L
  <2>4. QED
    BY <2>2, <2>3 DEF ProbeInv, ProbeKinds
<1>4. QED
  BY <1>2, <1>3 DEF ProbeInv, PingInv, OthersInv

LEMMA TraceKinds ==
  ASSUME ProbeInv, tool = "traceroute"
  PROVE  /\ sent \in Nat /\ sent \in 1..MaxHops /\ waiting \subseteq 1..sent /\ timers \subseteq 0..sent
         /\ MaxHops \in Nat /\ sent <= MaxHops
<1>1. sent \in 1..MaxHops /\ MaxHops \in Nat
  BY ProbesAssumption DEF ProbeInv, TraceInv
<1>2. QED
  BY <1>1 DEF ProbeInv, ProbeKinds

LEMMA HopTimeoutKeeps ==
  ASSUME ProbeInv, NEW hop \in 1..MaxHops, HopTimeout(hop)
  PROVE  ProbeInv'
<1>1. tool = "traceroute" /\ ~ProbeSettled /\ UNCHANGED <<tool, runner, list, answered>>
  BY DEF HopTimeout
<1>2. CASE sent >= MaxHops
  BY <1>1, <1>2, TraceKinds, TraceStep DEF HopTimeout, ProbeDone
<1>3. CASE ~(sent >= MaxHops)
  <2>1. /\ sent' = sent + 1 /\ waiting' = waiting \cup {sent + 1} /\ result' = result
        /\ timers' = (timers \ {hop}) \cup {sent + 1}
    BY <1>3 DEF HopTimeout
  <2>2. sent' \in Nat /\ sent' >= sent /\ sent' <= MaxHops
    BY <1>1, <1>3, <2>1, TraceKinds
  <2>3. waiting' \subseteq 1..sent' /\ timers' \subseteq 0..sent'
    BY <1>1, <2>1, TraceKinds
  <2>4. result' \in {"none", "icmp", "tcp", "ok", "failed"}
    BY <2>1 DEF ProbeInv, ProbeKinds
  <2>5. QED
    BY <1>1, <2>2, <2>3, <2>4, TraceStep
<1>4. QED
  BY <1>2, <1>3

LEMMA TraceEnds ==
  ASSUME ProbeInv, PingSendFails \/ Watchdog25s
  PROVE  ProbeInv'
BY TraceKinds, TraceStep DEF PingSendFails, Watchdog25s, ProbeDone

(* A message that the server's listeners take.                               *)
LEMMA ServerMessageKeeps ==
  ASSUME ProbeInv, tool = "traceroute", ~ProbeSettled, UNCHANGED <<tool, runner>>,
         NEW reached \in BOOLEAN, ServerMessage(reached)
  PROVE  ProbeInv'
<1> DEFINE c == Cardinality(waiting)
<1>1. runner = "server" /\ list' = list /\ c \in Nat
  BY WaitingFinite DEF ServerMessage, ProbeInv
<1>2. CASE reached \/ sent + c > MaxHops
  BY <1>1, <1>2, TraceKinds, TraceStep DEF ServerMessage, ProbeDone
<1>3. CASE ~(reached \/ sent + c > MaxHops)
  <2>1. /\ sent' = sent + c /\ waiting' = sent + 1..sent' /\ result' = result
        /\ timers' = (timers \ waiting) \cup (sent + 1..sent')
    BY <1>3 DEF ServerMessage
  <2>2. sent' \in Nat /\ sent' >= sent /\ sent' <= MaxHops
    <3> HIDE DEF c
    <3>1. QED
      BY <1>1, <1>3, <2>1, TraceKinds
  <2>3. waiting' \subseteq 1..sent' /\ timers' \subseteq 0..sent'
    BY <2>1, <2>2, TraceKinds
  <2>4. result' \in {"none", "icmp", "tcp", "ok", "failed"}
    BY <2>1 DEF ProbeInv, ProbeKinds
  <2>5. QED
    BY <1>1, <2>2, <2>3, <2>4, TraceStep
<1>4. QED
  BY <1>2, <1>3

LEMMA NodeAnswerKeeps ==
  ASSUME ProbeInv, tool = "traceroute", ~ProbeSettled, UNCHANGED <<tool, runner>>,
         NodeAnswer(sent), answered' = answered \cup {sent}
  PROVE  ProbeInv'
<1> DEFINE L == Len(list)
<1>1. runner = "node" /\ list' = Append(list, sent) /\ list \in Seq(Nat)
  BY DEF NodeAnswer, ProbeInv, ProbeKinds
<1>2. sent \in Nat /\ sent \in 1..MaxHops /\ waiting \subseteq 1..sent /\ timers \subseteq 0..sent /\ MaxHops \in Nat
  BY TraceKinds
<1>3. /\ list' \in Seq(Nat) /\ Len(list') = L + 1 /\ L \in Nat
      /\ DOMAIN list = 1..L /\ DOMAIN list' = 1..(L + 1)
      /\ list'[L + 1] = sent /\ \A i \in 1..L : list'[i] = list[i]
      /\ Range(list') = Range(list) \cup {sent}
  BY <1>1, <1>2, Listed
<1>4. /\ Range(list) = answered /\ \A i, j \in DOMAIN list : i < j => list[i] < list[j]
      /\ L < sent /\ \A i \in DOMAIN list : list[i] < sent
  BY <1>1 DEF ProbeInv, TraceInv
<1> HIDE DEF L
<1>5. ASSUME NEW i \in DOMAIN list', NEW j \in DOMAIN list', i < j PROVE list'[i] < list'[j]
  <2>1. i \in 1..L /\ (j \in 1..L \/ j = L + 1)
    BY <1>3, <1>5
  <2>2. QED
    BY <1>3, <1>4, <1>5, <2>1
<1>6. Range(list') = answered' /\ Len(list') <= sent
  BY <1>2, <1>3, <1>4
<1>7. \A i \in DOMAIN list' : list'[i] <= sent /\ list'[i] \in Nat
  <2> SUFFICES ASSUME NEW i \in DOMAIN list' PROVE list'[i] <= sent /\ list'[i] \in Nat
    OBVIOUS
  <2>1. i \in 1..L \/ i = L + 1
    BY <1>3
  <2>2. list'[i] = sent \/ list'[i] < sent
    BY <1>3, <1>4, <2>1
  <2>3. list'[i] \in Nat
    BY <1>3
  <2>4. QED
    BY <1>2, <2>2, <2>3
<1>8. CASE sent >= Distance \/ sent >= MaxHops
  <2>1. result' = "ok" /\ timers' = {} /\ waiting' = {} /\ sent' = sent
    BY <1>8 DEF NodeAnswer, ProbeDone
  <2>2. ProbeKinds'
    BY <1>3, <2>1 DEF ProbeInv, ProbeKinds
  <2>3. ProbeSettled'
    BY <2>1 DEF ProbeSettled
  <2>4. TraceInv'
    BY <1>1, <1>2, <1>5, <1>6, <2>1, <2>3 DEF TraceInv
  <2>5. QED
    BY <2>2, <2>4 DEF ProbeInv, PingInv, OthersInv
<1>9. CASE ~(sent >= Distance \/ sent >= MaxHops)
  <2>1. /\ sent' = sent + 1 /\ waiting' = (waiting \ {sent}) \cup {sent + 1} /\ result' = result
        /\ timers' = (timers \ {sent}) \cup {sent + 1}
    BY <1>9 DEF NodeAnswer
  <2>2. sent' \in Nat /\ sent' \in 1..MaxHops /\ waiting' \subseteq 1..sent' /\ timers' \subseteq 0..sent'
    BY <1>2, <1>9, <2>1
  <2>3. ProbeKinds'
    BY <1>3, <2>1, <2>2 DEF ProbeInv, ProbeKinds
  <2>4. \A i \in DOMAIN list' : list'[i] < sent'
    BY <1>2, <1>7, <2>1
  <2>5. Len(list') < sent' /\ Len(list') <= sent'
    BY <1>2, <1>3, <1>6, <2>1
  <2>6. TraceInv'
    BY <1>1, <1>5, <1>6, <2>2, <2>4, <2>5 DEF TraceInv
  <2>7. QED
    BY <2>3, <2>6 DEF ProbeInv, PingInv, OthersInv
<1>10. QED
  BY <1>8, <1>9

LEMMA AnswerKeeps ==
  ASSUME ProbeInv, NEW hop \in 1..MaxHops, Answer(hop)
  PROVE  ProbeInv'
<1>1. tool = "traceroute" /\ ~ProbeSettled /\ UNCHANGED <<tool, runner>>
  BY DEF Answer
<1>2. CASE NodeAnswer(hop)
  <2>1. hop = sent /\ answered' = answered \cup {sent}
    BY <1>2 DEF NodeAnswer, OwnHop, Answer
  <2>2. QED
    BY <1>1, <1>2, <2>1, NodeAnswerKeeps
<1>3. CASE ServerMessage(hop >= Distance)
  <2>1. (hop >= Distance) \in BOOLEAN
    OBVIOUS
  <2>2. QED
    BY <1>1, <1>3, <2>1, ServerMessageKeeps
<1>4. QED
  BY <1>2, <1>3 DEF Answer

LEMMA ForeignKeeps ==
  ASSUME ProbeInv, Foreign
  PROVE  ProbeInv'
<1>1. FALSE \in BOOLEAN
  OBVIOUS
<1>2. QED
  BY <1>1, ServerMessageKeeps DEF Foreign

LEMMA ProbeStep == ProbeInv /\ [ProbesNext]_probeVars => ProbeInv'
<1> SUFFICES ASSUME ProbeInv, [ProbesNext]_probeVars PROVE ProbeInv'
  OBVIOUS
<1>1. CASE SendOne \/ Finish \/ IcmpError \/ TcpPing \/ Tcping
  BY <1>1, SendOneKeeps, PingEnds
<1>2. CASE Redirected \/ BodyChunk \/ HttpEnds \/ \E found \in BOOLEAN : Resolved(found)
  BY <1>2, HttpKeeps, ResolvedKeeps
<1>3. CASE Foreign \/ PingSendFails \/ Watchdog25s
  BY <1>3, ForeignKeeps, TraceEnds
<1>4. CASE \E seq \in 1..Count : Echo(seq)
  BY <1>4, EchoKeeps
<1>5. CASE \E hop \in 1..MaxHops : Answer(hop) \/ HopTimeout(hop)
  BY <1>5, AnswerKeeps, HopTimeoutKeeps
<1>6. CASE UNCHANGED probeVars
  BY <1>6 DEF probeVars, ProbeInv, ProbeKinds, PingInv, TraceInv, OthersInv, ProbeSettled
<1>7. QED
  BY <1>1, <1>2, <1>3, <1>4, <1>5, <1>6 DEF ProbesNext

LEMMA ProbeGuarantee == ProbeInv => ProbesTypeOK /\ ReportIsWhatWasSeen
<1> SUFFICES ASSUME ProbeInv PROVE ProbesTypeOK /\ ReportIsWhatWasSeen
  OBVIOUS
<1> DEFINE L == Len(list)
           c == Cardinality(waiting)
<1>1. sent \in Nat /\ L \in Nat /\ c \in Nat /\ tool \in Tools
  BY WaitingFinite DEF ProbeInv, ProbeKinds
<1>2. tool = "ping" => sent \in 0..Count /\ L <= sent
  <2>1. tool = "ping" => sent <= Count /\ L + c <= sent
    BY DEF ProbeInv, PingInv
  <2> HIDE DEF L, c
  <2>2. QED
    BY <1>1, <2>1, ProbesAssumption
<1>3. tool = "traceroute" => sent \in 1..MaxHops /\ L <= sent
  <2>1. tool = "traceroute" => sent \in 1..MaxHops /\ (L <= sent \/ list = << >>)
    BY DEF ProbeInv, ProbeKinds, TraceInv
  <2>2. list = << >> => L = 0
    BY NothingListed
  <2> HIDE DEF L
  <2>3. QED
    BY <1>1, <2>1, <2>2
<1>4. tool = "http" => sent \in 1..Redirects + 1 /\ L <= Limit + 1
  <2>1. tool = "http" => sent \in 1..Redirects + 1 /\ (L <= Limit \/ L <= Limit + 1)
    BY DEF ProbeInv, OthersInv
  <2> HIDE DEF L
  <2>2. QED
    BY <1>1, <2>1, ProbesAssumption
<1>5. tool = "dns" => sent \in 1..RecordTypes /\ L <= RecordTypes
  <2>1. tool = "dns" => sent \in 1..RecordTypes /\ (L <= sent \/ L <= sent - 1)
    BY DEF ProbeInv, OthersInv
  <2> HIDE DEF L
  <2>2. QED
    BY <1>1, <2>1, ProbesAssumption
<1>6. tool = "tcping" => sent \in 1..RecordTypes /\ L <= sent
  <2>1. tool = "tcping" => sent = 1 /\ L = 0
    BY NothingListed DEF ProbeInv, OthersInv
  <2> HIDE DEF L
  <2>2. QED
    BY <1>1, <2>1, ProbesAssumption
<1>7. sent \in CASE tool = "ping" -> 0..Count [] tool = "traceroute" -> 1..MaxHops
              [] tool = "http" -> 1..Redirects + 1 [] OTHER -> 1..RecordTypes
  BY <1>1, <1>2, <1>3, <1>4, <1>5, <1>6 DEF Tools
<1>8. L <= CASE tool = "http" -> Limit + 1 [] tool = "dns" -> RecordTypes [] OTHER -> sent
  BY <1>1, <1>2, <1>3, <1>4, <1>5, <1>6 DEF Tools
<1>9. ProbesTypeOK
  BY <1>7, <1>8 DEF ProbesTypeOK, ProbeInv, ProbeKinds
<1>10. ReportIsWhatWasSeen
  <2>1. CASE tool = "ping"
    BY <2>1 DEF ProbeInv, PingInv, ReportIsWhatWasSeen
  <2>2. CASE tool = "traceroute" /\ runner = "node"
    <3>1. Range(list) = answered /\ \A i, j \in DOMAIN list : i < j => list[i] < list[j]
      BY <2>2 DEF ProbeInv, TraceInv
    <3>2. \A i \in DOMAIN list : list[i] \in Nat
      BY DEF ProbeInv, ProbeKinds
    <3>3. \A i, j \in DOMAIN list : i < j => list[i] # list[j]
      BY <3>1, <3>2
    <3>4. QED
      BY <3>1, <3>3 DEF ReportIsWhatWasSeen
  <2>3. QED
    BY <2>1, <2>2 DEF ReportIsWhatWasSeen
<1>11. QED
  BY <1>9, <1>10

----------------------------------------------------------------------------
(* Updates.  Only a newer version is ever downloaded.                        *)
NewerJob == fetch # "none" => job \in Offers /\ job.version > 1
UpdateInv == UpdateTypeOK /\ ReadyIsVerified /\ NewerJob

LEMMA OfferTyped ==
  ASSUME NEW offer \in Offers
  PROVE  offer.version \in Versions /\ offer.version \in Nat /\ (offer.url => offer # NoJob)
<1>1. offer.version \in Versions /\ offer.version \in Nat
  BY UpdateAssumption
<1>2. NoJob.url = FALSE
  BY DEF NoJob
<1>3. offer.url => offer # NoJob
  BY <1>2, Zenon
<1>4. QED
  BY <1>1, <1>3

LEMMA UpdateStarts == UpdateInit => UpdateInv
BY DEF UpdateInit, UpdateInv, UpdateTypeOK, ReadyIsVerified, NewerJob

LEMMA MetadataArrivesKeeps ==
  ASSUME UpdateInv, NEW offer \in Offers, MetadataArrives(offer)
  PROVE  UpdateInv'
<1>1. /\ latest' = offer.version /\ metadata' = "none"
      /\ UNCHANGED <<downloaded, marker, verified>>
      /\ \/ fetch = "none" /\ fetch' = "asked" /\ job' = offer /\ offer.version > 1 /\ offer.url
         \/ UNCHANGED <<fetch, job>>
  BY DEF MetadataArrives, downloading
<1>2. job' \in Offers \cup {NoJob} /\ (fetch' = "none") = (job' = NoJob)
      /\ fetch' \in {"none", "asked", "answering", "hashing", "lost"}
  BY <1>1, OfferTyped DEF UpdateInv, UpdateTypeOK
<1>3. {latest', downloaded', marker'} \subseteq Versions \cup {0} /\ verified' \subseteq Versions
  BY <1>1, OfferTyped DEF UpdateInv, UpdateTypeOK
<1>4. NewerJob'
  BY <1>1 DEF UpdateInv, NewerJob
<1>5. QED
  BY <1>1, <1>2, <1>3, <1>4 DEF UpdateInv, UpdateTypeOK, ReadyIsVerified

LEMMA HashedKeeps ==
  ASSUME UpdateInv, Hashed
  PROVE  UpdateInv'
<1>1. /\ fetch = "hashing" /\ fetch' = "none" /\ job' = NoJob /\ UNCHANGED <<metadata, latest>>
      /\ job \in Offers /\ job.version > 1
  BY DEF Hashed, UpdateInv, NewerJob
<1>2. job.version \in Versions
  BY <1>1, OfferTyped
<1>3. verified' \subseteq Versions /\ verified \subseteq verified'
  BY <1>2 DEF Hashed, UpdateInv, UpdateTypeOK
<1>4. downloaded' \in Versions \cup {0}
  BY <1>2 DEF Hashed, UpdateInv, UpdateTypeOK
<1>5. \/ marker' = marker
      \/ marker' = job.version /\ verified' = verified \cup {job.version}
  BY DEF Hashed, Pinned
<1>6. marker' \in Versions \cup {0} /\ (marker' # 0 => marker' > 1 /\ marker' \in verified')
  BY <1>1, <1>2, <1>3, <1>5 DEF UpdateInv, UpdateTypeOK, ReadyIsVerified
<1>7. QED
  BY <1>1, <1>3, <1>4, <1>6 DEF UpdateInv, UpdateTypeOK, ReadyIsVerified, NewerJob

LEMMA UpdateStep == UpdateInv /\ [UpdateNext]_updateVars => UpdateInv'
<1> SUFFICES ASSUME UpdateInv, [UpdateNext]_updateVars PROVE UpdateInv'
  OBVIOUS
<1>1. CASE \/ CheckForUpdate \/ MetadataBegins \/ MetadataFails \/ MetadataLost
           \/ DownloadBegins \/ DownloadFails \/ DownloadLost \/ DownloadEnds \/ UNCHANGED updateVars
  <2>1. UNCHANGED <<latest, downloaded, marker, verified>>
    BY <1>1 DEF CheckForUpdate, MetadataBegins, MetadataFails, MetadataLost, DownloadBegins,
                DownloadFails, DownloadLost, DownloadEnds, updateVars
  <2>2. metadata' \in {"none", "asked", "answering", "lost"}
    BY <1>1 DEF CheckForUpdate, MetadataBegins, MetadataFails, MetadataLost, DownloadBegins,
                DownloadFails, DownloadLost, DownloadEnds, updateVars, UpdateInv, UpdateTypeOK
  <2>3. \/ UNCHANGED <<fetch, job>>
        \/ fetch' = "none" /\ job' = NoJob
        \/ fetch # "none" /\ fetch' \in {"asked", "answering", "hashing", "lost"} /\ job' = job
    BY <1>1 DEF CheckForUpdate, MetadataBegins, MetadataFails, MetadataLost, DownloadBegins,
                DownloadFails, DownloadLost, DownloadEnds, updateVars
  <2>4. QED
    BY <2>1, <2>2, <2>3 DEF UpdateInv, UpdateTypeOK, ReadyIsVerified, NewerJob
<1>2. CASE \E offer \in Offers : MetadataArrives(offer)
  BY <1>2, MetadataArrivesKeeps
<1>3. CASE Hashed
  BY <1>3, HashedKeeps
<1>4. QED
  BY <1>1, <1>2, <1>3 DEF UpdateNext

----------------------------------------------------------------------------
(* Admission.  The server's two books of the requests under way agree:       *)
(* BooksAgree is inductive with the types and one more fact, who has not     *)
(* been sent yet has not been answered either, or is out of the game.        *)
Stages == {"new", "refused", "collecting", "sent", "gone"}

RepliesTyped == stage \in [Calls -> Stages] /\ replies \in [Calls -> 0..1]

(* A request that has not been sent yet has no answer.                       *)
UnsentUnanswered == \A r \in Calls : stage[r] \in {"new", "collecting"} => replies[r] = 0

UnderWay(r) == stage[r] = "sent" /\ replies[r] = 0

BooksInv ==
  /\ RepliesTyped /\ UnsentUnanswered
  /\ pending = booked /\ pending \subseteq Calls
  /\ \A r \in Calls : r \in pending <=> UnderWay(r)

----------------------------------------------------------------------------
LEMMA InitBooks == AdmissionInit => BooksInv
BY DEF AdmissionInit, BooksInv, RepliesTyped, UnsentUnanswered, UnderWay, Stages

(* The steps of the server before a request is sent.                         *)
LEMMA ArrivesBooks ==
  ASSUME BooksInv, NEW r \in Calls, Arrives(r) \/ BodyStops(r)
  PROVE  BooksInv'
<1>1. stage[r] \in {"new", "collecting"} /\ replies[r] = 0 /\ r \notin pending
  BY DEF BooksInv, UnsentUnanswered, UnderWay, Arrives, BodyStops
<1>2. /\ \E s \in Stages \ {"new", "sent"} : stage' = [stage EXCEPT ![r] = s] /\ (s = "collecting" => replies' = replies)
      /\ replies' = replies \/ replies' = [replies EXCEPT ![r] = replies[r] + 1]
      /\ pending' = pending /\ booked' = booked
  BY DEF Arrives, BodyStops, Stages
<1>3. PICK s \in Stages \ {"new", "sent"} :
        stage' = [stage EXCEPT ![r] = s] /\ (s = "collecting" => replies' = replies)
  BY <1>2
<1>4. RepliesTyped'
  BY <1>1, <1>2, <1>3 DEF BooksInv, RepliesTyped, Stages
<1>5. UnsentUnanswered'
  BY <1>1, <1>2, <1>3 DEF BooksInv, RepliesTyped, UnsentUnanswered
<1>6. \A q \in Calls : q \in pending' <=> UnderWay(q)'
  BY <1>1, <1>2, <1>3 DEF BooksInv, RepliesTyped, UnderWay
<1>7. QED
  BY <1>2, <1>4, <1>5, <1>6 DEF BooksInv

LEMMA SentBooks ==
  ASSUME BooksInv, NEW r \in Calls, BodyEnds(r)
  PROVE  BooksInv'
<1>1. stage[r] = "collecting" /\ replies[r] = 0
  BY DEF BooksInv, UnsentUnanswered, BodyEnds
<1>2. /\ stage' = [stage EXCEPT ![r] = "sent"] /\ replies' = replies
      /\ pending' = pending \cup {r} /\ booked' = booked \cup {r}
  BY DEF BodyEnds
<1>3. RepliesTyped' /\ UnsentUnanswered'
  BY <1>1, <1>2 DEF BooksInv, RepliesTyped, UnsentUnanswered, Stages
<1>4. \A q \in Calls : q \in pending' <=> UnderWay(q)'
  BY <1>1, <1>2 DEF BooksInv, RepliesTyped, UnderWay
<1>5. QED
  BY <1>2, <1>3, <1>4 DEF BooksInv

(* An answer and the timer settle a request in both books, whichever is      *)
(* first.                                                                    *)
LEMMA SettledBooks ==
  ASSUME BooksInv, NEW r \in pending, Settled(r), Replied(r), stage' = stage
  PROVE  BooksInv'
<1>1. r \in Calls /\ stage[r] = "sent" /\ replies[r] = 0
  BY DEF BooksInv, UnderWay
<1>2. /\ replies' = [replies EXCEPT ![r] = 1]
      /\ pending' = pending \ {r} /\ booked' = booked \ {r}
  BY <1>1 DEF Settled, Replied
<1>3. RepliesTyped' /\ UnsentUnanswered'
  BY <1>1, <1>2 DEF BooksInv, RepliesTyped, UnsentUnanswered
<1>4. \A q \in Calls : q \in pending' <=> UnderWay(q)'
  BY <1>1, <1>2 DEF BooksInv, RepliesTyped, UnderWay
<1>5. QED
  BY <1>2, <1>3, <1>4 DEF BooksInv

LEMMA OthersKeepBooks ==
  ASSUME BooksInv, UNCHANGED <<stage, replies, pending, booked>>
  PROVE  BooksInv'
BY DEF BooksInv, RepliesTyped, UnsentUnanswered, UnderWay

LEMMA StepBooks == BooksInv /\ [AdmissionNext]_admissionVars => BooksInv'
<1> SUFFICES ASSUME BooksInv, [AdmissionNext]_admissionVars PROVE BooksInv'
  OBVIOUS
<1>1. ASSUME NEW r \in Calls, Arrives(r) \/ BodyStops(r) PROVE BooksInv'
  BY <1>1, ArrivesBooks
<1>2. ASSUME NEW r \in Calls, BodyEnds(r) PROVE BooksInv'
  BY <1>2, SentBooks
<1>3. ASSUME NEW r \in Calls, RequestTimesOut(r) PROVE BooksInv'
  BY <1>3, SettledBooks DEF RequestTimesOut
<1>4. ASSUME NEW r \in Calls, CallEnds(r) \/ TargetBreaksOff(r) PROVE BooksInv'
  BY <1>4, OthersKeepBooks DEF CallEnds, TargetBreaksOff, serverSide
<1>5. CASE HandleResponse
  <2> DEFINE r == Head(serverInbox).request
  <2>1. stage' = stage
    BY <1>5 DEF HandleResponse
  <2>2. \/ r \in pending /\ Settled(r) /\ Replied(r)
        \/ UNCHANGED <<pending, booked, replies>>
    BY <1>5 DEF HandleResponse
  <2> HIDE DEF r
  <2>3. QED
    BY <2>1, <2>2, SettledBooks, OthersKeepBooks
<1>6. CASE HandleStats \/ HandleRequest \/ HandleLimits \/ Heartbeat
  BY <1>6, OthersKeepBooks DEF HandleStats, HandleRequest, HandleLimits, Heartbeat, serverSide
<1>7. ASSUME NEW n \in Caps, PushConcurrencyLimit(n) PROVE BooksInv'
  BY <1>7, OthersKeepBooks DEF PushConcurrencyLimit
<1>8. CASE UNCHANGED admissionVars
  BY <1>8, OthersKeepBooks DEF admissionVars
<1>9. QED
  BY <1>1, <1>2, <1>3, <1>4, <1>5, <1>6, <1>7, <1>8 DEF AdmissionNext

(* What the node keeps, and is told.                                         *)
ToAdmit == [type : {"request"}, request : Calls] \cup [type : {"limits"}, limit : Caps]
NodeKinds ==
  /\ nodeInbox \in Seq(ToAdmit) /\ active \subseteq Calls /\ broken \subseteq Calls
  /\ nodeLimit \in Caps \cup {NodeCap} /\ cap \in Caps

AdmissionInv == BooksInv /\ NodeKinds

LEMMA Told ==
  ASSUME NodeKinds
  PROVE  /\ \A r \in Calls : Append(nodeInbox, Request(r)) \in Seq(ToAdmit)
         /\ \A n \in Caps : Append(nodeInbox, LimitsPush(n)) \in Seq(ToAdmit)
         /\ nodeInbox # << >> =>
              /\ Tail(nodeInbox) \in Seq(ToAdmit)
              /\ Head(nodeInbox).type = "request" => Head(nodeInbox).request \in Calls
              /\ Head(nodeInbox).type = "limits" => Head(nodeInbox).limit \in Caps
<1>1. \A r \in Calls : Request(r) \in ToAdmit
  BY DEF Request, ToAdmit
<1>2. \A n \in Caps : LimitsPush(n) \in ToAdmit
  BY DEF LimitsPush, ToAdmit
<1>3. nodeInbox \in Seq(ToAdmit)
  BY DEF NodeKinds
<1>4. \A m \in ToAdmit : Append(nodeInbox, m) \in Seq(ToAdmit)
  BY <1>3
<1>5. nodeInbox # << >> => Tail(nodeInbox) \in Seq(ToAdmit) /\ Head(nodeInbox) \in ToAdmit
  BY <1>3
<1>6. \A m \in ToAdmit : (m.type = "request" => m.request \in Calls) /\ (m.type = "limits" => m.limit \in Caps)
  BY DEF ToAdmit
<1>7. QED
  BY <1>1, <1>2, <1>4, <1>5, <1>6

LEMMA StepKinds == AdmissionInv /\ [AdmissionNext]_admissionVars => NodeKinds'
<1> SUFFICES ASSUME AdmissionInv, [AdmissionNext]_admissionVars PROVE NodeKinds'
  OBVIOUS
<1>1. NodeKinds /\ pending \subseteq Calls
  BY DEF AdmissionInv, BooksInv
<1>2. ASSUME UNCHANGED <<nodeInbox, active, broken, nodeLimit, cap>> PROVE NodeKinds'
  BY <1>1, <1>2 DEF NodeKinds
<1>3. ASSUME NEW r \in Calls, Arrives(r) \/ BodyStops(r) \/ RequestTimesOut(r) PROVE NodeKinds'
  BY <1>2, <1>3 DEF Arrives, BodyStops, RequestTimesOut, nodeSide
<1>4. ASSUME NEW r \in Calls, BodyEnds(r) PROVE NodeKinds'
  BY <1>1, <1>4, Told DEF BodyEnds, nodeSide, NodeKinds
<1>5. ASSUME NEW r \in Calls, CallEnds(r) \/ TargetBreaksOff(r) PROVE NodeKinds'
  BY <1>1, <1>5 DEF CallEnds, TargetBreaksOff, serverSide, NodeKinds
<1>6. CASE HandleResponse \/ HandleStats \/ Heartbeat
  BY <1>2, <1>6 DEF HandleResponse, HandleStats, Heartbeat, nodeSide, serverSide
<1>7. CASE HandleRequest
  <2>1. /\ nodeInbox # << >> /\ Head(nodeInbox).type = "request" /\ nodeInbox' = Tail(nodeInbox)
        /\ active' \in {active, active \cup {Head(nodeInbox).request}}
        /\ UNCHANGED <<broken, nodeLimit, cap>>
    BY <1>7 DEF HandleRequest, serverSide
  <2>2. QED
    BY <1>1, <2>1, Told DEF NodeKinds
<1>8. CASE HandleLimits
  BY <1>1, <1>8, Told DEF HandleLimits, serverSide, NodeKinds
<1>9. ASSUME NEW n \in Caps, PushConcurrencyLimit(n) PROVE NodeKinds'
  BY <1>1, <1>9, Told DEF PushConcurrencyLimit, nodeSide, NodeKinds
<1>10. CASE UNCHANGED admissionVars
  BY <1>2, <1>10 DEF admissionVars
<1>11. QED
  BY <1>3, <1>4, <1>5, <1>6, <1>7, <1>8, <1>9, <1>10 DEF AdmissionNext

LEMMA AdmissionStarts == AdmissionInit => AdmissionInv
<1> SUFFICES ASSUME AdmissionInit PROVE AdmissionInv
  OBVIOUS
<1>1. NodeKinds
  BY AdmissionAssumption DEF AdmissionInit, NodeKinds
<1>2. QED
  BY <1>1, InitBooks DEF AdmissionInv

LEMMA AdmissionStep == AdmissionInv /\ [AdmissionNext]_admissionVars => AdmissionInv'
BY StepBooks, StepKinds DEF AdmissionInv

LEMMA AdmissionGuarantee == AdmissionInv => AdmissionTypeOK /\ BooksAgree
BY DEF AdmissionInv, BooksInv, RepliesTyped, NodeKinds, UnderWay, Stages, AdmissionTypeOK, BooksAgree

----------------------------------------------------------------------------
(* All parts.                                                                *)
ExchangesInv ==
  /\ HandshakeInv /\ TunnelInv /\ UdpInv /\ AdmissionInv
  /\ TestInv /\ ProbeInv /\ UpdateInv

LEMMA ExchangesStarts == ExchangesInit => ExchangesInv
<1> SUFFICES ASSUME ExchangesInit PROVE ExchangesInv
  OBVIOUS
<1>1. HandshakeInit \/ HandshakeRests
  BY DEF ExchangesInit
<1>2. HandshakeRests => HandshakeInit
  <2>1. (CHOOSE d \in Dialogues : TRUE) \in Dialogues
    BY HandshakeAssumption
  <2>2. QED
    BY <2>1 DEF HandshakeRests, HandshakeInit
<1>3. AdmissionInit \/ AdmissionRests
  BY DEF ExchangesInit
<1>4. AdmissionRests => AdmissionInv
  <2> SUFFICES ASSUME AdmissionRests PROVE AdmissionInv
    OBVIOUS
  <2>1. NodeKinds
    BY AdmissionAssumption DEF AdmissionRests, NodeKinds
  <2>2. BooksInv
    BY DEF AdmissionRests, BooksInv, RepliesTyped, UnsentUnanswered, UnderWay, Stages
  <2>3. QED
    BY <2>1, <2>2 DEF AdmissionInv
<1>5. ProbesInit \/ ProbesRest
  BY DEF ExchangesInit
<1>6. ProbesRest => ProbeInv
  <2> SUFFICES ASSUME ProbesRest PROVE ProbeInv
    OBVIOUS
  <2>1. ProbeKinds
    BY NothingListed DEF ProbesRest, ProbeKinds, Tools
  <2>2. QED
    BY <2>1 DEF ProbesRest, ProbeInv, PingInv, TraceInv, OthersInv
<1>7. ConnectInit /\ UdpInit /\ NetworkTestInit /\ UpdateInit
  BY DEF ExchangesInit
<1>8. QED
  BY <1>1, <1>2, <1>3, <1>4, <1>5, <1>6, <1>7, HandshakeStarts, TunnelStarts, UdpStarts, AdmissionStarts,
     TestStarts, ProbeStarts, UpdateStarts DEF ExchangesInv

(* A step of one part leaves the others as they are.                         *)
LEMMA ExchangesStep == ExchangesInv /\ [ExchangesNext]_exchangesVars => ExchangesInv'
<1> SUFFICES ASSUME ExchangesInv, [ExchangesNext]_exchangesVars PROVE ExchangesInv'
  OBVIOUS
<1>1. [HandshakeNext]_handshakeVars
  BY DEF ExchangesNext, Only, exchangesVars
<1>2. [ConnectNext]_connectVars
  BY DEF ExchangesNext, Only, exchangesVars
<1>3. [UdpNext]_udpVars
  BY DEF ExchangesNext, Only, exchangesVars
<1>4. [AdmissionNext]_admissionVars
  BY DEF ExchangesNext, Only, exchangesVars
<1>5. [NetworkTestNext]_testVars
  BY DEF ExchangesNext, Only, exchangesVars
<1>6. [ProbesNext]_probeVars
  BY DEF ExchangesNext, Only, exchangesVars
<1>7. [UpdateNext]_updateVars
  BY DEF ExchangesNext, Only, exchangesVars
<1>8. QED
  BY <1>1, <1>2, <1>3, <1>4, <1>5, <1>6, <1>7, HandshakeStep, TunnelStep, UdpStep, AdmissionStep,
     TestStep, ProbeStep, UpdateStep DEF ExchangesInv

LEMMA ExchangesAlways == ExchangesSpec => []ExchangesInv
BY ExchangesStarts, ExchangesStep, PTL DEF ExchangesSpec

(* In every behaviour, with any number of associations, relays, requests,    *)
(* nodes and targets: every part's state has its type.                       *)
THEOREM ExchangesTypes == ExchangesSpec => []ExchangesTypeOK
<1>1. ExchangesInv => ExchangesTypeOK
  BY HandshakeGuarantee, TunnelGuarantee, UdpGuarantee, AdmissionGuarantee, TestGuarantee, ProbeGuarantee
     DEF ExchangesInv, ExchangesTypeOK, UpdateInv
<1>2. QED
  BY <1>1, ExchangesAlways, PTL

(* In every behaviour nothing crosses over in a relay: a handshake is read   *)
(* as it was sent, the application of a CONNECT tunnel gets one status line  *)
(* and a gapless stream, and an association only what is meant for it.       *)
THEOREM RelaysAreClean == ExchangesSpec => []CleanRelays
<1>1. ExchangesInv => CleanRelays
  BY HandshakeGuarantee, TunnelGuarantee, UdpGuarantee DEF ExchangesInv, CleanRelays
<1>2. QED
  BY <1>1, ExchangesAlways, PTL

(* In every behaviour, for any number of requests and any limits, the two    *)
(* books of the server agree, and hold just the requests that were sent and  *)
(* not answered.                                                             *)
THEOREM BooksAlwaysAgree == ExchangesSpec => []BooksAgree
<1>1. ExchangesInv => BooksAgree
  BY AdmissionGuarantee DEF ExchangesInv
<1>2. QED
  BY <1>1, ExchangesAlways, PTL

(* In every behaviour what is reported is true: a task that is done has      *)
(* every result once, a ping or traceroute of a node reports the answers it  *)
(* got, and an update that is ready was verified.                            *)
THEOREM ReportsAreTrue == ExchangesSpec => []ReportsTrue
<1>1. ExchangesInv => ReportsTrue
  BY TestGuarantee, ProbeGuarantee DEF ExchangesInv, ReportsTrue, UpdateInv
<1>2. QED
  BY <1>1, ExchangesAlways, PTL
=============================================================================
