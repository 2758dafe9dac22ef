# A verification project for node-proxy

node-proxy is a proxy gateway: a public server accepts HTTP, HTTPS and SOCKS5
connections and sends each through one of many nodes. A node opens a WebSocket
to the server and keeps it open; every proxied request is a stream of a
multiplexer that runs over it. This directory holds TLA+ modules translated
from the code in `src/`, TLC configurations that check small instances of
them, and TLAPS proofs of what matters most for instances of every size.

Paths below are relative to `src/`. `PROJECT.json` names, for every definition
that models code, the lines it stands for.

- [1 The system](#1-the-system)
- [2 The modules and the code](#2-the-modules-and-the-code)
- [3 The runs](#3-the-runs)
- [4 Where the code and its documentation disagree](#4-where-the-code-and-its-documentation-disagree)
- [5 The proofs](#5-the-proofs)
- [6 What is not modelled](#6-what-is-not-modelled)
- [7 Plan](#7-plan)

## 1 The system

### Components

| component | source | state | operations |
|---|---|---|---|
| connection flow control | `server/lib/stream-mux.ts`, the same code in `client/lib/stream-mux.ts` (class StreamMux) | send queue, pending flush, two connection windows, back-pressure timer | queue a frame, flush a batch, receive, grant window, retry |
| streams | the same files (class Stream) | state, two stream windows, buffered data, membership of the mux | sendHeaders, sendData, close, reset, openTunnel, closeTunnel, the frames received |
| SOCKS5 tunnels | `server/lib/proxy-socks5.ts`, `ws-server.ts`, `client-manager.ts`; `client/client.ts` | the handshake's buffer, application socket, pending record, timers, node's tunnel and target socket | greet, authenticate, connect, ready, error, data, end, four timers, release |
| plain HTTP requests | `server/lib/proxy-http.ts`, `ws-server.ts`; `client/client.ts` | pending record, timer, the stream's handlers, collected body, node's slot | request, response, time out, refuse, abort |
| HTTP CONNECT tunnels | `proxy-http.ts`, `ws-server.ts`, `tls-sni.ts`; `client.ts`, `client-legacy.ts` | pending record, two timers, the node's connection and what it holds back | JSON messages: open, ready, data, close, and the ends of both sockets |
| admission | `proxy-http.ts`, `client-manager.ts`, `ws-server.ts`; `client.ts`, `client-legacy.ts` | the server's two books of a node's requests, the node's last report, the limit at both ends | admit, send, answer, time out, report, change the limit |
| UDP relay | `proxy-socks5.ts`; `client.ts` | associations, the shared handler of answers, the node's socket and timer per association | associate, relay, expire |
| registry and sessions | `client-manager.ts`, `ws-server.ts` | registered socket per node id, shared maps of pending work | register, replace, kick, health check, close, heartbeat |
| circuit breaker, selection | `circuit-breaker.ts`, `router.ts`, `client-manager.ts` | per node: state, failures, window, successes | isAllowed, onSuccess, onFailure, reset, cleanup, updateConfig |
| node's connection | `client/client.ts` | current socket, reconnect timer and attempt, missed pongs | connect, close, error, watchdog, force reconnect |
| response cache | `cache.ts` | entries in order of use | get, set, evict, expire, clear, change of its settings |
| bandwidth limiter | `bandwidth.ts` | global and per-node token buckets, limits | check, refill, set limits |
| traffic storage | `storage.ts`, `client-manager.ts` | in-memory database, dirty flag, file; statistics of sessions | record, collect, save, clean up |
| settings | `settings.ts`, `config.ts` | live configuration, persisted rows | change, reset, start |
| network tests | `server/lib/network-test.ts`, `client/lib/network-test.ts` | tasks with expected and received results; a probe's timers, list and result | start, progress, done, disconnect, watchdog; send, hear, time out |
| audit log, logs | `audit.ts`, `log-hub.ts`, `logger.ts` | buffered entries, files | log, flush, rotate, query |
| users, passwords and rules | `auth.ts`, `web-server.ts`, `proxy-passwords.ts`, `acl.ts`, `domain-router.ts` | accounts with token versions, throttle; passwords with routes; ordered rules and remembered verdicts | log in, log out, change users; create, change, resolve; add, remove, check |
| auto-update | `auto-update.ts` | the check and the download under way, the archive, the marker | check, download, verify, apply |
| the rest | `binary-protocol.ts`, `plugin-manager.ts`, `metrics.ts`, `tls.ts`, `acme.ts`, `swagger.ts`, `web-server.ts`, `server.ts` | | routes, counters, files, external services |

### How they interact

Both processes are single-threaded event loops, so a handler runs to its end;
what interleaves are handlers: of the two ends of a WebSocket, of the sockets of
applications and targets, and of timers. The components meet in three places.

- **The WebSocket.** A proxy handler opens a stream; the frames queue in the
  mux, cross the socket in order, and are handed to the callbacks the other
  end's handlers have set on its stream. Callbacks call back into the same
  stream (close, reset, sendData) before the frame's handling has returned.
- **The shared maps.** `ClientManager.pendingRequests` and `pendingTunnels` hold
  one record per request or tunnel. Proxy handlers insert it and arm its timer;
  whoever answers first - a frame, the timer, the application's socket, the end
  of the session, a kick - clears both.
- **The breaker.** Every outcome is reported by the node's id, which outlives
  the session the request was given to.

Around these are stores that the panel changes while requests use them (limits,
cache, settings, accounts, rules) and that write themselves down behind the
requests' back (statistics, settings, audit log).

### What makes it hard

Grants and data share one queue in each direction. A stream's data may be
buffered when its owner closes it. An answer, a timer, a closed socket and a
lost session race to finish the same record. A node that reconnects has two
sockets at the server for a while, and the old one's close comes late. Numbers
of streams repeat from session to session. Files are written by timers, while a
write may fail and the process may die in the middle of it. What was allowed when
it was remembered - a verdict, a token, a cached response - may not be allowed
any more. `PROJECT.json` lists these hazards
with the line where each bites and the property that watches it.

### What makes each component correct

- Flow control: no byte of window is lost or invented; a receiver is overrun
  by one batch at most; queued frames always have somebody to send them; an
  exhausted window reopens.
- Streams: data arrives in order and once; buffered data leaves; a stream is
  released at both ends.
- Tunnels and requests: one answer, and always one; data only behind a granted
  reply and unchanged; slots, records and streams are given back.
- Registry: a registration belongs to a live socket; a late close harms nobody;
  an application is joined to the stream opened for it.
- Breaker: a node is isolated only on evidence, returns only on successes, and
  does return; a new session does not pay for an old one.
- Limits: never more than was allowed, whatever is changed or times out meanwhile;
  a full node opens again.
- What is remembered (cache, verdicts, routes, tokens): what it says is what would
  be said now, or what was revoked is refused.
- What is written down: a failed write or a crash loses no more than the code
  knows it may lose; a restart has the settings that were in force.
- Jobs (tests, probes, updates): they end, and report what happened.

## 2 The modules and the code

```
CreditFlow <-- MuxFlowRefinement -- MuxFlow --------- MCMuxFlow
                                       +------------- MuxFlow_proofs
MuxStream ------ MCMuxStream, MuxStream_proofs
   +-- MuxSession
         +-- Socks5Tunnel -- MCSocks5Tunnel --+
         +-- HttpExchange -- MCHttpExchange --+-- MCStreamUsers (both users)
                                                     +-- StreamUsers_proofs

Handshake, ConnectTunnel, UdpRelay, Admission,
NetworkTest, Probes, AutoUpdate ----------------------- MCExchanges
                                                             +-- Exchanges_proofs

Registry -- MCRegistry ---------------------------------+
   +-- Registry_proofs                                  |
Storage -- Settings ------------------------------------+-- MCServerState
Bandwidth, Traffic, AuditLog, ProxyPasswords -----------+      |
Lists -- ResponseCache, AccessRules, Accounts ----------+      |
                                       +-- Accounts_proofs     |
                      Registry_proofs, Accounts_proofs --------+-- ServerState_proofs

CircuitBreaker -- MCCircuitBreaker --+-- MCNodeHealth
NodeReconnect -----------------------+-- NodeHealth_proofs (of both)
```

### The connection and its streams

**MuxFlow** is the mux below its streams: each end's queue of frames, of which
the first `onWire` have been given to `ws.send` and the rest is `_sendBuffer`;
the flag `_sending`; both windows; the back-pressure timer. `SendData` and
`SendControl` are `_sendFrame`; `Flush` and `RetryTimer` run a pass of
`_flushSendBuffer`, which puts the batch back (window exhausted), defers it
(socket full) or transmits it; `Receive` is `_handleFrame` with
`_checkConnectionWindow`; `WindowInterval` is the interval timer. How many frames
a pass takes depends on lengths of headers the model leaves out, so a batch is
any prefix whose data fits. A frame is stamped with its sender's running totals
of data and credit, so that the bytes in flight are a difference and no
recursive sum is needed.

**CreditFlow** is what that machinery is for, said without frames, batches,
timers and queues: a sender spends the credit it was given and overdraws it by one
pass at most, what it sent arrives in order, and a receiver gives credit only for
room it has. **MuxFlowRefinement** maps MuxFlow's windows and totals to it and
states `ImplementsCreditFlow`.

**MuxStream** is one stream at both of its ends. Every method of `Stream` is an
operator from the record before to the record after and the frames sent, so
that a handler making three calls is the composition of three operators
(`After`). Data is counted in units of one frame's payload; the stream window
is `Window` units. `MuxNext` lets both applications make any call the code
somewhere makes, in any order.

**MuxSession** adds the session: a socket that is open, closing (what is sent is
lost, what arrives is still handled) or closed (the mux forgets its streams),
separately at each end.

**Socks5Tunnel** is the whole life of a CONNECT. `socket` is the application's
socket and everything written to it, `record` the entry of `pendingTunnels` with
its timer, `tunnel` the node's `activeTunnels` entry and its target. Each action
is one handler, with the frames it sends: for instance `SocketCloses` is the
socket's `close` event, which runs `cleanup()` and the tunnel's own handler.
`Kick`, `SessionEnds` and `SessionFails` are the three ways a session ends at
the server, which differ in whether the streams are told before
`ClientManager.remove` runs.

**HttpExchange** is the same for a plain request: `stage` says whose callbacks
the stream has (those of `handleHttpRequest`, then those of
`handleClientResponse`), `execution` is the node's call to the target.

### Nodes

**Registry** has several nodes, sockets and tunnels: which socket is registered
for a node's id, the map `pendingTunnels` keyed by stream number, the streams of
each session and the tunnel whose handlers they carry. It abstracts a stream to
its existence: what travels on it is the subject of the modules above.

**CircuitBreaker** is `circuit-breaker.ts` with everything that calls it: the
filter of `Router.select`, outcomes reported by `trackSuccess` and `trackError`,
registration, disconnection, the health check's cleanup, the panel. Times are ages
that saturate at `MaxAge`. `recent` and `streak` are histories that the
properties refer to; no guard reads them.

**NodeReconnect** is the other end of the same failures: the node's connection.
`node` is the record of the module variables of `client.ts` - the current socket,
whether the reconnect timer and the heartbeat run, `authenticated`, `missedPongs`,
`connectingSince`, and over which sockets the active requests and tunnels came -
and `socket` the WebSockets, of which all but one are earlier ones whose events
may still come. `OnClose` and `Forced` are compositions of `CleanupAll` and
`ScheduleReconnect` in the order of the code, which matters: the first cancels
the timer that the second starts. That the server answers an `auth` is the fairness
of `AuthOk`; that a connection dies unnoticed is the action `Dies`. With
`heartbeat_interval` 0, which the code allows, there is no watchdog; the model
has one.

### Exchanges outside the streams

**Handshake** is what a SOCKS5 application says before there is a tunnel. The state of
`proxy-socks5.ts` is its own: `state` the parser's, and the buffer `bufs` is the bytes from
`start` to what was sent. The application's bytes are counted, with the real lengths of
the messages, and cut anywhere. It waits for the answer to each message, as the protocol
has it, goes on although it was refused, or (`eager`, offering no password) does not wait.

**ConnectTunnel** is one CONNECT, which the server always speaks over the JSON
messages, or one SOCKS5 tunnel through a node without the multiplexer (`relay.socks`),
which has the same handlers and another `cleanup()`: `relay` is the server's side (socket, record with its timer, idle timer),
`target` the node's, and two queues of messages are between them. The head (the bytes
that came with the request) and the listener that searches them for a server name are
there because they decide which of the first bytes reach the target.

**UdpRelay** has several associations, because the code shares one handler of
answers among them (`onUdpData` is that of the last one), and the node's socket per
association with its idle timer.

**Admission** is how many requests a node gets over the JSON protocol: `pending`
(`pendingRequests`) and `booked` (the registration's set) are the server's two books,
`reported` what the node last said, `cap` and `nodeLimit` the limit at both ends,
which the panel changes through a message of its own.

**NetworkTest** is the table of tasks: tasks of the server, one after the other, and
tasks of nodes, whose reports, disconnects and watchdog all complete the same
results. **Probes** are the tools a task runs, at the server and at the node: ping,
TCP ping, traceroute, the HTTP check with its redirects and the DNS queries, against
a network that answers late, twice or never.

**AutoUpdate** is the check, the download with its checksum, the extraction, the
scripts and the marker for the next start.

### What the server keeps

**Bandwidth** has the two levels of buckets, refilled from a wall clock that may be
set back and ahead; `passed` is the time that has really passed, `ahead` and `back` how
far it was set, and `Advanced` what the clock has gone forward either way. For
`_refill()` a step ahead is time: `WithinLimit` allows for it, and a step back that is
corrected later counts as one ahead. **ResponseCache** knows a
response by the headers it depends on, so that a hit can be compared with what the
origin would have said. A key has the parameters sorted by name, as `makeKey` has them,
and no Range; a response that depends on Range is a part of the content (206). **Traffic** is what is counted (`carried` is a history of what
was really carried) and moved to the storage's rows by the health check, `remove()`
and the end. **Storage** is the in-memory database with its file: every write may
fail and the process may die in the middle of it; **Settings** extends it with the
groups of settings, their live values and their rows, over restarts.
**AuditLog** is the buffered writer with rotation. A write that fails may have written
any first part of its batch, the last entry torn, and the whole batch is put back; a
process may die with entries in its buffer (`lost`). **Accounts** has the users with
roles and token versions and the throttle of logins, whose records have the key of the
code, the address with the user name (`LoginKeys`), so that the same user is counted
and locked for each address apart; **ProxyPasswords** the
passwords with their routes and how a proxy finds one; **AccessRules** the rules, the
remembered verdicts and the domain routes, with addresses of `AddressBits` bits
whose prefixes are compared as the code compares them. **Lists** is JavaScript's
`filter`, which the community modules define by recursion, said without it (`Kept`),
so that the modules which use it can be proved about.

## 3 The runs

| run | what it asks | result |
|---|---|---|
| `mux_flow_safety` | both ends send: conservation, accepted grants, no lost wakeup, and that the session implements credit-based flow control (CreditFlow) | 524 745 states |
| `mux_flow_oneway` | a node sends to a server with a smaller window: every byte arrives, an exhausted window reopens | 157 812 states |
| `mux_flow_twoway` | does a window reopen when both ends send? | refuted (4.1) |
| `mux_stream` | one stream under arbitrary calls: order, conservation, buffered data leaves | 130 673 states |
| `stream_users` | a SOCKS5 tunnel or a plain request over a stream and a session that may end: one reply and in time, faithful relay, owners of streams, slots given back; one answer, whole bodies, every request answered | 164 615 states |
| `socks5_release` | is the stream released at the node too? | refuted (4.2) |
| `http_complete` | a response of any size whole? | refuted (4.3) |
| `exchanges` | SOCKS5 handshakes, tunnels over JSON, UDP relays, admission, tests, probes, updates: clean relays, books that agree, true reports; and all of it ends | 98 829 states |
| `server_state` | registry, limits, cache, statistics, settings and their file, audit log, accounts, passwords, rules | 913 448 states |
| `registry_join` | is a tunnel joined to its own stream? | refuted (4.4) |
| `node_health` | breaker: isolation needs evidence, return needs successes, recovery; node: the reconnect chain is never lost, no work outlives its socket, the node gets back | 64 000 and 44 000 states |
| `breaker_session` | is a new session judged by its own failures? | refuted (4.5) |

`stream_users`, `exchanges`, `server_state` and `node_health` are runs over several
parts that share no state. The variable `part` is chosen at the start; the others rest
in an initial state, and their fairness asks for nothing there. So a behaviour is
one of one part, the number of states is the sum of the parts', and a property of
one part is stated for all behaviours of the run. What parts do share (a stream below
its user, the storage below the settings) is composed in the modules themselves.

### Bounds, and why they are enough

- `mux_flow_*`: windows of 2-3 units against a batch of 2 and frames of 1-2, so
  that a pass can overdraw the window, a window can be exhausted by one or two
  passes, and a grant is due after a single frame; 3 to 5 bytes queued exhaust and reopen
  each window at least once. `MaxFrames` bounds the queue when a stream adds a
  frame, never a grant. `MaxDeferrals` 1 or 0 lets the deferral budget run out.
  The proofs remove these bounds for the safety properties.
- `mux_stream`: a window of two units and up to four units written, so that data
  is buffered, partly flushed, and written behind a buffer; `MaxCalls` bounds
  the frames on the wire when an application makes its next call.
- `stream_users`: a window of one unit, one unit more than that from the
  application and two more from the target: one that waits, one that could
  overtake it. A response is up to two units larger than the window, which is where
  the code changes behaviour (`http_complete`).
- `exchanges`: handshakes with user names and passwords of up to one byte, all types of
  address, and two bytes behind the request; tunnels with two chunks each way, of which the first may be the head;
  two associations through one node, which opens at most two sockets; two requests
  against a node that takes one, with a limit that changes twice; two tasks, on the
  server, on two nodes or twice on the same one, with a node that dies; pings of three,
  a route of three hops of at most five, two redirects and a body one chunk beyond its
  limit; offers that are newer, older, wrong, without a checksum or without an archive.
- `server_state`: three sockets for two nodes, so that a node reconnects while the
  other is registered, and two streams per session, so that numbers collide and
  differ (the two tunnels are alike: `Symmetry`, which no property and no other part
  tells apart); requests of one and two units against bursts of one to three, two ticks of
  time and two steps of the clock, so that it is set ahead, back, and back and ahead again; a cache
  of two entries for seven requests with three keys, one of which asks for a part and
  has its parameters in another order, two under way at once, and a life of one tick or
  until the next sweep; two minutes, of which one is kept; two changes of settings
  between two starts, with a section that gives one of the breaker's two settings; a buffer
  that flushes at two and overflows at three, five entries, two failures at any file operation,
  writes that break off anywhere, and restarts at any time; two users from two
  addresses, with a lock after two failed logins, which lasts two moments, and a clock of
  three (`LastMoment`), so that window and lock both end; one remembered record, so that
  records are dropped; two passwords created beside the configured one; two rules at a time, of
  every kind of condition, over addresses of two bits.
- `node_health`: breaker: two settings that differ in every field, three ticks, two
  requests in flight, three remembered outcomes: every limit is reached and
  passed. Connection: three sockets, so that two earlier ones are still to close
  while the current one works, and the code's three missed pongs.

### Fairness, and why the code justifies it

The event loop runs every scheduled callback, timers fire, and a WebSocket
delivers what it took in order while it is open: weak fairness of `Flush`,
`RetryTimer`, `WindowInterval` and `Receive` in MuxFlow, of `Receive` in
MuxStream, of the handlers of frames and of armed timers in the tunnels and
requests, and of the end of a session at one end once the other has ended it.
In the exchanges: of ConnectTunnel's two timers and of the end of a socket both of
whose ends have closed; of the idle timer of each UDP socket; of the handlers and the
heartbeat in Admission, and of the timeouts of its requests and calls; of the watchdog
of every network test; of every timer of a probe and of the answers of an HTTP check
that is being read; of the failures that the updater's `timeout` events bring. In
NodeReconnect the reconnect timer and the heartbeat fire, a handshake ends
(`handshakeTimeout`), a socket being closed closes (`ws` gives up waiting by
itself), and a server that is reached answers pings and the token. No
application, target or stream owes anything: that the target answers is never
assumed (the node's connection timer answers for it). `Recovery` needs no
fairness: it says what follows if a node keeps succeeding. The parts of `server_state`
have no fairness and no liveness property: what they do is done within a handler.

Deadlock is not checked: once the bounded applications have said all they have
to say, and the timers have run out, a system that rests is right.

## 4 Where the code and its documentation disagree

The first five are runs that TLC refutes; `PROJECT.json` quotes the line of the
repository that says otherwise.

1. **Both windows exhausted** (`stream-mux.ts:681`). A flush pass puts its batch
   back when the window is exhausted and the batch holds data - with the
   WINDOW_UPDATE queued behind that data. When both ends do so at once, each
   keeps back the grant the other waits for.
2. **Stream kept at the node** (`stream-mux.ts:517`). When the target ends first,
   the server's stream is half-closed by the peer when `closeTunnel` retires it;
   no frame that the node acts on is sent, and the node's stream stays in its mux.
3. **Truncated response** (`client/client.ts:768`). `sendData(body, true)` buffers
   what exceeds the stream window; the `close()` that follows sends END_STREAM
   ahead of it. The server forwards, and caches, the first part as the whole.
4. **Another node's stream** (`proxy-socks5.ts:421`). Records are keyed by stream
   numbers that repeat in every session.
5. **Failures of an earlier session** (`client-manager.ts:317`). `add()` resets the
   breaker before the replaced socket's streams have failed; they are counted
   against the new session.

Others are definitions in the modules, each preceded by the sentence it quotes. No
run lists them; named in the `cfg` of the run in parentheses, TLC finds the
counterexample.

- `RestartRestoresAll` in Settings (`server_state`): the group `client` stores only
  the fields of its last change (`settings.ts:247`), against "so it survives restarts"
  (`settings.ts:8`).
- `ResetRestores` in Settings (`server_state`): a reset hands the breaker's and the
  limiter's module the section of the configuration (`settings.ts:287,292`), and
  `updateConfig()` merges it into what is live. There are no defaults for these sections
  in `config.ts`: a section may be missing or give some of the settings, and one
  variable of the environment makes one with a single setting (`config.ts:128-141`). The
  others stay as the panel set them until the next start, against "Restore a group to its
  boot-time (config.yaml/env) value" (`settings.ts:272`). `Given` is what the sections
  give. `RestartRestores` promises these settings only while the group has a row.
- `WithinRealTime` in Bandwidth (`server_state`): a clock that is set ahead, also one that
  takes back a step back, earns the tokens of the whole step at once, where
  `Math.max(0, now - lastRefill)` guards against a step back only (`bandwidth.ts:33`).
  `WithinLimit` counts such steps as time.
- `HitIsExact` in ResponseCache (`server_state`): `set()` takes every status below 400
  (`cache.ts:137`), so also a 206, and the key has no Range (`cache.ts:80-103`), so that a
  part of the content is served to who asks for the whole, or for another part, against
  `cache.ts:157-159`; that HTTP asks no origin to name Range in `Vary` is why
  `_isCacheableResponse` does not notice. Parameters in another order have the same key,
  too (`cache.ts:97-99`). `HitIsRight` leaves out these two and nothing else.
- `LimitInForce` in Bandwidth (`server_state`): a new limit of all nodes does not reach
  buckets that exist (`bandwidth.ts:144`), against "applied live" (`settings.ts:7`).
- `TrafficCountedOnce` in Traffic (`server_state`): what `remove()` stores was stored by
  the health check already (`client-manager.ts:361`), against "totals" (`storage.ts:421`).
- `NewestKept` in AuditLog (`server_state`): the buffer is cut at the end of the newest
  entries (`audit.ts:330`), against the comment above it.
- `TargetIsBlocked` in AccessRules (`server_state`): a rule with nothing but `targetIp`
  denies every request whose target is a name (`acl.ts:275`, against `config.yaml:218`).
- `FaithfulConnect` in ConnectTunnel (`exchanges`): the head is written back to the
  application (`ws-server.ts:799`), and chunks are lost while only the search for the
  server name listens (against `tls-sni.ts:95-101`).
- `OrphanReclaimed` in ConnectTunnel (`exchanges`): an application that leaves before
  `tunnel_ready` leaves its record (`proxy-http.ts:475`, against `ws-server.ts:527`).
- `AnswersParse` in UdpRelay (`exchanges`): the header of an answer is not one its own
  parser accepts (`proxy-socks5.ts:651`).
- `TraceListsAnswers` and `FailedMeansUnreachable` in Probes (`exchanges`): the server's
  traceroute drops routers that answered (against `client/lib/network-test.ts:4`), and a
  ping reports both ports unreachable having asked one (`server/lib/network-test.ts:519`).
- `ChecksGoOn` in AutoUpdate (`exchanges`): a connection closed within the answer leaves
  `checking` set for ever (`auto-update.ts:141-160`, against `:104`). `UpdatesGoOn` names
  the exception.
- `WithinTheLimit` in Admission (`exchanges`, with `FirstCap = 1`): requests whose bodies
  are still being read are not counted (`proxy-http.ts:243`, against
  `client-manager.ts:714`).
- `WindowReopens` with `Sources = {server}` (`mux_flow_oneway`): grants are due at half
  of the compiled-in default, whatever `mux.connection_window` says
  (`stream-mux.ts:991`), so a server with at most half of it exhausts its window before
  the node's grant is due. It needs a configuration the repository does not ship.

Some are stated as exceptions in properties that hold. `remove()` writes a
SOCKS5 failure into established tunnels too (`OneReplyUntilRemoved`, and `BeforeLoss` in
`CleanTunnel`). A SOCKS5 application that sends its request along with its greeting is
parsed only when more bytes come (`eager` in `HandshakeInStep`), and one that closes its
end during the handshake leaves its socket at the server, which has `allowHalfOpen` and no
timer for it (`EndSent`). An `error`
of the socket forgets the streams without telling them, so that a request between
HEADERS and END_STREAM is never answered (`EveryRequestAnswered`). `GetsBack` has
two. The `close` of an earlier socket, if it comes while another is open, cancels
that one's heartbeat and starts the timer; `connect()` then closes the open socket,
whose own `close` comes when the next one is there, and so on
(`client.ts:392`). And a connection that dies between `open` and `auth_ok` is
watched by nothing, for only `auth_ok` starts the heartbeat (`client.ts:550`). A request
whose body does not fit the stream window is sent without END_STREAM, because what is
buffered leaves without it (`stream-mux.ts:343`): the node waits for the end, calls no target,
and the 504 of the timer answers the browser. `WholeBodies` holds for it, as no target gets
a part, and `EveryRequestAnswered` too. A write of the storage that fails is taken for a
done one (`UnsavedIsDirty` excepts it), and a target that breaks off never frees its place
at a node (`AdmissionReopens`).

## 5 The proofs

Eight modules hold theorems, checked by TLAPS with SMT, Zenon and LS4. They assume
what the modules assume of their constants: distinct ends, positive sizes, a default
window that together with one frame does not exceed `MaxIncrement` (1 MB and 16 KB
against 16 MB in the code); limits of the breaker within the bounds of its histories;
at least one pong may be missed; `Nobody` is no node, socket or tunnel; rates and
bursts are natural numbers; an account is locked at least as long as failures are
counted (15 minutes both, `web-server.ts:139-140`) and only by the second failure or a
later one (the code's fifth); rules have an integer priority; the configuration gives
every group of settings a value for each of its fields. One assumption is about somebody
else: origins name in `Vary` the headers a response depends on, unless it is private or an
error (`OriginsAssumption` in ResponseCache); Accept and credentials, of which the key takes
care, and Range, which HTTP has no origin name, are excepted. Without it no cache is right
that looks at `Vary`. With Range this one could be, and is not (section 4).

**MuxFlow.** The safety properties of the runs hold for all windows, frame and
batch sizes, budgets and queue lengths. None is inductive by itself. The invariant
`IInv` adds to the types:

- `QueueOK`: what each type of frame carries, and that the totals of a queue
  never fall and grow in data only across DATA frames, stated for all pairs of
  positions at once, since the prover cannot sum by induction;
- `WindowsOK`: a receive window is not negative, and a send window is overdrawn
  by less than the largest pass;
- `Conservation`.

They depend on each other: the overdraft is bounded because a pass is made only
with an open window; the receive window stays non-negative because conservation
turns that bound into one on what is in flight; and a non-negative receive window
is what keeps increments within the accepted range, without which a grant would
be ignored and conservation broken. `InFlightBounded`, `GrantsAccepted` and
`DataNeedsWindow` follow. `NoLostWakeup` is proved as an invariant on top of
`IInv`, by the same split over actions. `InFlightBounded` and `DataNeedsWindow` are
stated by theorems only; the refinement is what the run checks in their place.

Its refinement, `CreditFlowImplemented`: every step of MuxFlow is a step of
CreditFlow in one direction or leaves it as it is. Of the invariant it takes the bound
on a pass, for `Send`, and `Conservation`, for the room behind an `Allow`; what is new
is `RecvBounded`, that a receiver's window never exceeds what it was given.

**MuxStream.** `DataInOrder`: an application gets what the other end wrote, in order
and each unit once. `OrderedDelivery` speaks of what has arrived; the invariant
`StreamInv` also of what is under way and what is not sent yet. `Sending`: the buffer
holds exactly the newest units, and is only non-empty behind a closed window - so that
`sendData` cannot overtake it. `Delivering`: the frames on the wire carry the units
after those that arrived, up to those sent (`InOrder`, again by positions rather than
sums). `Opening`: the server's first frame is the only one that opens a stream, so that
no late frame makes a second stream that would count anew. Every method has a lemma of
one form, `Emits` or `Sends`, saying which units it puts on the wire; `BecomeKeeps` and
`DeliverKeeps` then hold for all of them. `MuxTypes` is the same argument without the
contents. `WindowConserved` builds on it: by `InOrder` the DATA frames under way are as
many as the units between those sent and those that arrived (`InFlight`, an argument
about cardinalities), so that no sum over a queue is needed. `WindowInv` adds what a
window lacks: `Balanced` says that at most one grant is under way, for more than half
the window, and that it makes the two ends' numbers agree; `Spends` and `Takes` say of
every method what it does to them. That a second grant cannot follow the first before
it arrives is not in the code; it follows from the half-window rule.

**StreamUsers.** The safety of the streams' users, with the session that may end under
them. `SessionInv` is `StreamInv` with a socket that may be closing: what an end sends
then is lost, so that what is under way is only a beginning of what was sent
(`Carrying`), and nothing is promised to an end whose socket is closed. On top of it:

- a SOCKS5 tunnel (`SocksInv`). `ReplyInv`: what the application read is determined by
  the record: nothing while it is pending, the reply and then exactly the data the stream
  gave once it is ready, and a refusal of `remove()` last and only once the session is
  gone. `TargetInv`: the target got what the node's stream got, up to the moment it died.
  `Answering`: before the server has the node's HEADERS no data can reach it, because the
  HEADERS are on the wire in front of every unit (`First`) - this is what makes the first
  item a reply. With `Carrying` the two relays are prefixes.
- an HTTP request (`HttpInv`). `Collecting`: while the server has the stream, its chunks
  are what the stream gave it, and until it has the response's HEADERS there are none;
  this is also why `_onEnd`, which asks nobody, answers first. `RequestInv` and
  `ResponseInv`: a frame that ends a body carries the number of its last unit, so that
  what was collected in front of it is the whole body (`CountedIs`); for the response only
  as long as the window never closed, which is why `WholeBodies` is about responses that
  fit it.

`UsersInv` says that one of the two holds while the other user is at rest. `TunnelKeeps`
and `HttpKeeps` prove that every action keeps it, one lemma per action.

**Registry.** `RegistryStaysSound` and `StaleCloseIsHarmless`, for any number of nodes,
sockets and tunnels. Sessions share the map of records and their numbers collide, so
the invariant has to say what a number still means (`KeysOK`): a record is only ever
under the number of its own stream, so that whoever gives that number up removes it.

**ServerState.** Every invariant of `MCServerState`, and its action properties, in every
behaviour, for any nodes, limits, requests, settings, files, accounts, passwords and
rules: `ServerStateTypes`, `AlwaysServedRight`, `AlwaysDurable`, `AuthorityHolds`,
`RestartsRestore`, `AdminAlwaysRemains`; and `LimitsHold` for the limiter alone.
`ServerInv` has a conjunct for each part; a part has an inductive invariant, kept by every
one of its steps and stronger than what it promises.

- Limiter (`LimiterInv`): `SoundAt` adds what a bucket let through, what it still holds and
  what it has not been refilled for; the sum is bounded by the burst and the rate times
  what the clock has gone forward, and a clock that is set back can only lose time.
- Cache (`CacheInv`): an entry's content was made for a request that has its key, and it
  depends on nothing but what the key tells apart (`Keyed`): that is what `_isCacheableResponse`
  and `Vary` together achieve, Range apart, and why a hit is right for whoever asks. Two
  requests with one key have the same parameters up to the order of their names
  (`Normalized`). One entry for a key, no more than fit, none of the future.
- Rules (`AccessInv`): a list is sorted by priority, and by age within one; edits keep it so
  (`Placed` puts a rule before the first of a lower priority). The first rule that applies
  is then the decisive one, which is how `ServedRight` says it. `Remembered`: a
  verdict is the one that the present list gives for the tags and the hour it was made in.
- Passwords (`PasswordsInv`): no two entries have the same password (`Apart`), so that the
  order in which a proxy tries them does not matter.
- Traffic (`TrafficInv`): minutes to come have carried nothing, and while the storage is
  not open none is complete.
- Settings (`SettingsInv`): what is live is what a start would make of the rows in memory
  (`Restored`), what was live when the file was written is what it would make of the file -
  all of a group that has a row, those settings of another that a reset takes back
  (`Lasting`, `Agree`) - and the two differ only while something is dirty or a write has failed. `RestartsRestore`
  is the step that reads the file.
- Audit log (`AuditInv`): the entries of a file are in order and after those of an older
  file (`FilesInOrder`), those of the buffer behind them all (`BufferBehind`), but for
  those that a failed write had written before (`halfway`); and as long as nothing has failed
  none is missing after the first that is left, but for those that died with a process
  (`lost`). A rotation is shown to be one shift of all files,
  whichever renames succeed (`RotatedIs`).

`AdminAlwaysRemains` has a hypothesis, that no request gives `null` for `enabled`: the
code refuses `false` only, and stores what it is given (`auth.ts:227`), so that `null`
would disable the last administrator. `RestartRestores` leaves out what section 4 names.

**Accounts.** `TokensRevoked` is not inductive, because what refuses a token today may be
that its account is disabled. `TokenInv` says that a revoked token's version is lower than
its account's and that no token's is higher. `ThrottleInv` ties every record of failed
logins to the wrong passwords it has counted (`Running`), and these to the ones before
them, of a window that has passed or a lock that is over (`Spread`, `Rested`); the bound
for a stretch that two windows share follows. It is a bound for one address and one user,
on the clock that the code reads: wrong passwords of several addresses add up, and they are
forgotten with a right one and with a record that is dropped for want of room, in the
property as in the code.

**Exchanges.** `ExchangesTypes`, `RelaysAreClean`, `BooksAlwaysAgree` and
`ReportsAreTrue` speak of the composition, in which the parts share nothing but the
turn. `ExchangesInv` has a conjunct for each part, and every part has a section of its
own in the module: the types, what is inductive, one lemma for each action.

- Handshake: what a client was told follows from the state of the parser, which only
  goes forward; so nobody is answered after being refused, and nothing is handed on
  before the client was asked for it (`AnsweredThenFed`).
- ConnectTunnel: the relay's two directions, each a position in what was written: what
  was sent, what is on the wire, what arrived. The bytes that come with the head of the
  request go first because the target is connected to once.
- UdpRelay: the owner of an association never changes while its socket lives, and an
  answer carries the association it was asked by.
- Admission: the books, and `UnsentUnanswered`, by which a request cannot be settled
  before it was booked.
- NetworkTest: a tally only counts results that are there, so that a full one has all of
  them (an argument about cardinalities); a task that is gone leaves its number to nobody.
- Probes: a waiting probe stands in the list its counter counts; the hops of a trace are
  those before the current one.
- AutoUpdate: what is installed was verified, and is newer than what ran before.

**CircuitBreaker** (in NodeHealth_proofs). `IInv` ties each entry's counters to the histories: the
`failures` of a closed breaker are the newest outcomes, all younger than its
window, and the `successes` of a half-open one are the latest of the node.
The two action properties follow, for any set of nodes, any settings within
the bounds and any change of settings meanwhile.

**NodeReconnect** (in NodeHealth_proofs). `ChainAlive` and `WorkHasSocket` hold for any number of sockets,
that is of earlier sockets whose events are still to come. `WorkHasSocket` is
inductive with the types; `ChainAlive` needs one more fact, `AnsweredLater`: a
socket that is still connecting has not been answered, so that `open` never
makes an accepted session without a watchdog. The handlers that close or force a
reconnect are one lemma each (`AfterClose`, `AfterForce`), which rest on what
`CleanupAll` and `ScheduleReconnect` leave behind in this order.

**Only model-checked**: all liveness (`EveryByteArrives`, `WindowReopens`,
`BufferDrains`, `SlotReleased`, `EveryRequestAnswered`, `RelaysEnd`, `JobsEnd`,
`NodesReturn`), for which the prover has no rules for fairness. Every safety property
of a passing run is stated by a theorem.

## 6 What is not modelled

`PROJECT.json` lists every part with its reason. Parts that are left out:

- the binary protocol (byte layout, imported by nothing), plugins and metrics (foreign
  code, numbers), TLS and ACME (libraries and an external service), the panel's pages
  and the routes that validate a request and call a component.

Inside the modelled parts:

- stream priorities (nothing in the send path reads them), PING and GOAWAY beyond being
  control frames, byte lengths of headers (so frames above 16 KB, which the receiver
  drops, cannot occur: `stream-mux.ts:750` is a hazard without a property);
- the 413 for a large body and the accounting behind the 429; what a name of more than
  one byte, or the bytes of an address, say (`Handshake` counts them);
- a wall clock that is set back, outside the limiter: in the cache, the throttle of logins,
  the rules and the statistics it only goes forward, where a step ahead is as so much time;
- the reconnect delay and its growth, `shutdown`, the persisted metadata of nodes,
  which of the allowed nodes a strategy picks;
- the UDP header's byte layout and fragments, which the code rejects; parsing of the
  system's ping and traceroute; the archive's content;
- parsing, validation and defaults of the configuration; hashing, JWT and the syntax of
  patterns and addresses; logs and statistics beyond the traffic.

## 7 Plan

Done: flow control with its abstract specification, streams, sessions and their users;
the exchanges over JSON and UDP; admission; tests, probes and updates; the registry and
what the server keeps; the breaker; the node's reconnection; the SOCKS5 handshake; and the proofs of section 5.

What a next step would add, in this order:

1. The liveness properties' safe halves, as theorems: for each wait, that somebody is
   enabled or armed to end it (as `NoLostWakeup` and `ChainAlive` are for the mux and the node).
2. A refinement for a SOCKS5 tunnel or a stream: the pair of bytes written and read as an
   abstract pipe, which `DataInOrder` and `RelaysFaithfully` come close to.
3. The 413 and the accounting behind the 429; the metadata of nodes.
