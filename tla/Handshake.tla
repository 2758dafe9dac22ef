------------------------------ MODULE Handshake ------------------------------
(* The SOCKS5 handshake of one application (proxy-socks5.ts, the socket's    *)
(* 'data' handler): greeting, user and password, request, cut into chunks of *)
(* any size.  Of the bytes only their number counts, and where in them the   *)
(* parser's buffer starts; what follows the request is Socks5Tunnel's and    *)
(* UdpRelay's.                                                               *)
EXTENDS Integers, Sequences, SequencesExt, FiniteSets

CONSTANTS
  Dialogues,   \* what applications may say, and whether the proxy asks who they are
  MaxTail      \* bound: bytes sent behind the request

(* enabled: auth.proxy.enabled; eager: the application does not wait for the *)
(* answer to its greeting, in which it offers no way to say who it is.       *)
Dialogue ==
  [ enabled : BOOLEAN, methods : SUBSET {"none", "password"}, user : Nat, password : Nat,
    version : BOOLEAN, requestVersion : BOOLEAN, command : {"connect", "udp", "bind"},
    address : {"v4", "name", "v6", "other"}, name : Nat, eager : BOOLEAN ]

ASSUME HandshakeAssumption ==
  /\ MaxTail \in Nat /\ Dialogues \subseteq Dialogue /\ Dialogues # {}
  /\ \A d \in Dialogues : d.eager => "password" \notin d.methods

VARIABLES
  dialogue,   \* the application's, chosen at its start
  spoken,       \* bytes it has sent, and whether it has closed its end
  state,      \* the parser's state
  start,      \* the byte the parser's buffer starts at; it ends at spoken.bytes
  connection, \* the server's socket: "open", "ended" by it, or "closed"
  told     \* what the application was told

handshakeVars == <<dialogue, spoken, state, start, connection, told>>

HandshakeInit ==
  /\ dialogue \in Dialogues /\ spoken = [bytes |-> 0, fin |-> FALSE]
  /\ state = "greeting" /\ start = 0 /\ connection = "open" /\ told = << >>

(* Lengths of the messages.                                                  *)
AddressLength ==
  CASE dialogue.address = "v4" -> 4
    [] dialogue.address = "name" -> 1 + dialogue.name
    [] dialogue.address = "v6" -> 16
    [] OTHER -> 0
GreetingLength == 2 + Cardinality(dialogue.methods)
CredentialsLength == 2 + dialogue.user + 1 + dialogue.password
RequestLength == 4 + AddressLength + 2

----------------------------------------------------------------------------
(* The parser, with n more bytes: one message of a chunk is taken, and what  *)
(* is left of the chunk waits for the next.                                  *)
Held(n) == spoken.bytes + n - start

(* write(), and end() after it or not: writing where the socket has been     *)
(* ended is an error that destroys it.                                       *)
Writes(reply, after) ==
  IF connection = "open" THEN told' = Append(told, reply) /\ connection' = after
  ELSE connection' = "closed" /\ UNCHANGED told
Says(reply) == Writes(reply, "open")
Refuses(reply) == Writes(reply, "ended")
EndsSilently == connection' = "ended" /\ UNCHANGED told

Keeps == UNCHANGED <<state, start>>
Takes(length, next) == state' = next /\ start' = start + length
Drops(n, next) == state' = next /\ start' = spoken.bytes + n

ReadGreeting(n) ==
  /\ state = "greeting"
  /\ \/ Held(n) < GreetingLength /\ Keeps /\ UNCHANGED <<connection, told>>
     \/ /\ Held(n) >= GreetingLength
        /\ \/ ~dialogue.version /\ EndsSilently /\ Keeps
           \/ /\ dialogue.version /\ ~dialogue.enabled
              /\ Says("none") /\ Takes(GreetingLength, "request")
           \/ /\ dialogue.version /\ dialogue.enabled /\ "password" \in dialogue.methods
              /\ Says("password") /\ Drops(n, "auth_sub")
           \/ /\ dialogue.version /\ dialogue.enabled /\ "password" \notin dialogue.methods
              /\ Refuses("no method") /\ Keeps

(* resolveSocks5Auth(): right, wrong, or it throws.                          *)
ReadCredentials(n) ==
  /\ state = "auth_sub"
  /\ \/ Held(n) < CredentialsLength /\ Keeps /\ UNCHANGED <<connection, told>>
     \/ /\ Held(n) >= CredentialsLength
        /\ \/ Says("accepted") /\ Takes(CredentialsLength, "request")
           \/ Refuses("denied") /\ Keeps
           \/ EndsSilently /\ Keeps

(* Version and type of address are looked at as soon as five bytes are there.*)
TakeRequest(n) ==
  \/ Held(n) < RequestLength /\ Keeps /\ UNCHANGED <<connection, told>>
  \/ /\ Held(n) >= RequestLength /\ dialogue.command = "udp"
     /\ Drops(n, "udp") /\ UNCHANGED <<connection, told>>
  \/ /\ Held(n) >= RequestLength /\ dialogue.command = "connect"
     /\ Drops(n, "tunnel") /\ UNCHANGED <<connection, told>>
  \/ /\ Held(n) >= RequestLength /\ dialogue.command = "bind"
     /\ Refuses("no command") /\ Keeps

ReadRequest(n) ==
  /\ state = "request"
  /\ \/ Held(n) < 5 /\ Keeps /\ UNCHANGED <<connection, told>>
     \/ /\ Held(n) >= 5
        /\ \/ ~dialogue.requestVersion /\ EndsSilently /\ Keeps
           \/ /\ dialogue.requestVersion /\ dialogue.address = "other"
              /\ Refuses("no address") /\ Keeps
           \/ dialogue.requestVersion /\ dialogue.address # "other" /\ TakeRequest(n)

(* The handshake is over: others listen to the socket.                       *)
HandedOn(n) ==
  /\ state \in {"tunnel", "udp"}
  /\ start' = spoken.bytes + n /\ UNCHANGED <<state, connection, told>>

----------------------------------------------------------------------------
(* The application sends what it may: the message that is its turn, the      *)
(* whole of its messages where it is eager, and behind the request at will;  *)
(* or it goes on although its password was refused.                          *)
Heard(reply) == reply \in ToSet(told)
Turn ==
  IF Heard("accepted") \/ Heard("denied") THEN GreetingLength + CredentialsLength + RequestLength + MaxTail
  ELSE IF Heard("none") \/ dialogue.eager THEN GreetingLength + RequestLength + MaxTail
  ELSE IF Heard("password") THEN GreetingLength + CredentialsLength
  ELSE GreetingLength

ChunkSent ==
  /\ connection # "closed" /\ ~spoken.fin
  /\ \E n \in 1..(Turn - spoken.bytes) :
       /\ spoken' = [spoken EXCEPT !.bytes = @ + n]
       /\ ReadGreeting(n) \/ ReadCredentials(n) \/ ReadRequest(n) \/ HandedOn(n)
  /\ UNCHANGED dialogue

(* Its FIN ends nothing where the server's end is open (allowHalfOpen).      *)
EndSent ==
  /\ connection # "closed" /\ ~spoken.fin
  /\ spoken' = [spoken EXCEPT !.fin = TRUE]
  /\ connection' = IF connection = "ended" THEN "closed" ELSE connection
  /\ UNCHANGED <<dialogue, state, start, told>>

HandshakeAborted ==
  /\ connection # "closed"
  /\ connection' = "closed" /\ spoken' = [spoken EXCEPT !.fin = TRUE]
  /\ UNCHANGED <<dialogue, state, start, told>>

HandshakeNext == ChunkSent \/ EndSent \/ HandshakeAborted
HandshakeSpec == HandshakeInit /\ [][HandshakeNext]_handshakeVars

----------------------------------------------------------------------------
HandshakeTypeOK ==
  /\ dialogue \in Dialogues /\ spoken \in [bytes : Nat, fin : BOOLEAN]
  /\ state \in {"greeting", "auth_sub", "request", "tunnel", "udp"} /\ start \in Nat
  /\ connection \in {"open", "ended", "closed"} /\ IsInjective(told)
  /\ told \in Seq({"none", "password", "no method", "accepted", "denied", "no address", "no command"})

(* Where the message the parser is about to read starts.                     *)
Boundary ==
  CASE state = "greeting" -> 0
    [] state = "auth_sub" -> GreetingLength
    [] state = "request" ->
         GreetingLength + IF Heard("password") THEN CredentialsLength ELSE 0
Awaited ==
  CASE state = "greeting" -> GreetingLength
    [] state = "auth_sub" -> CredentialsLength
    [] state = "request" -> RequestLength

(* However the bytes are cut into chunks, the parser reads every message     *)
(* from its first byte, and an application that waits its turn never waits   *)
(* for an answer to a whole message; a tunnel or a relay is opened for a     *)
(* socket that was refused nothing and, where the proxy asks, has said who   *)
(* it is.                                                                    *)
HandshakeInStep ==
  /\ state \notin {"tunnel", "udp"} /\ connection # "closed" => start = Boundary
  /\ state \notin {"tunnel", "udp"} /\ connection = "open" /\ ~dialogue.eager => Held(0) < Awaited
  /\ state \in {"tunnel", "udp"} =>
       /\ dialogue.enabled => Heard("accepted")
       /\ told \in {<<"none">>, <<"password", "accepted">>}
=============================================================================
