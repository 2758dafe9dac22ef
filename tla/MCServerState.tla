---------------------------- MODULE MCServerState ----------------------------
(* One run for the state the server keeps: sessions and tunnels of nodes     *)
(* (Registry), limits, cache, statistics, settings and their file, the audit *)
(* log, accounts, proxy passwords and access rules.  They share no state, so *)
(* a behaviour here is one of one of them, and the others rest.              *)
EXTENDS MCRegistry, Bandwidth, ResponseCache, Traffic, Settings, AuditLog, Accounts, ProxyPasswords,
        AccessRules

VARIABLE part

stateVars ==
  <<registryVars, bandwidthVars, cacheVars, trafficVars, settingsVars, auditVars, accountsVars,
    passwordVars, accessVars, part>>

(* Bandwidth: limits as high as a burst and lower, with and without a limit  *)
(* for all nodes together.                                                   *)
SomeLimits == {[rate |-> 1, burst |-> 2], [rate |-> 2, burst |-> 2]}
SomeGlobals == {[rate |-> 0, burst |-> 1], [rate |-> 1, burst |-> 3]}

(* ResponseCache: requests for one page that differ in a header or in the    *)
(* order of the parameters, one for another page, and responses of origins   *)
(* that name what they depend on, but for a part of the content.             *)
a1 == [name |-> "a", value |-> 1]
a2 == [name |-> "a", value |-> 2]
b1 == [name |-> "b", value |-> 1]
Asking(query) ==
  [method |-> "GET", path |-> "p", query |-> query,
   headers |-> [accept |-> "html", cookie |-> Absent, language |-> Absent, range |-> Absent]]
SomeRequests ==
  LET plain == Asking(<<a1, b1>>)
  IN {plain, [plain EXCEPT !.headers.accept = "json"], [plain EXCEPT !.headers.cookie = "me"],
      [plain EXCEPT !.headers.language = "de"], [plain EXCEPT !.method = "POST"],
      [Asking(<<b1, a1>>) EXCEPT !.headers.range = "first"], Asking(<<a2>>)}
Content200(depends, vary, private) ==
  [error |-> FALSE, unfit |-> FALSE, depends |-> depends, vary |-> vary, private |-> private]
Honest ==
  {Content200({"accept", "cookie"}, {"accept"}, FALSE), Content200({"language"}, {"language"}, FALSE),
   Content200({"language"}, {}, TRUE), Content200({"range"}, {}, FALSE),
   [Content200({}, {}, FALSE) EXCEPT !.error = TRUE]}

(* Settings: a group with a single setting, one stored whole, of which the   *)
(* configuration gives a part, one stored change by change.                  *)
SomeFields ==
  [routing |-> {"strategy"},
   circuit_breaker |-> {"error_threshold", "window_ms"},
   client |-> {"request_timeout", "tunnel_timeout"}]
SomeKeys == DOMAIN SomeFields
SomeRows == UNION {[fs -> Setting] : fs \in (SUBSET UNION {SomeFields[g] : g \in SomeKeys}) \ {{}}}
Defaults == [g \in SomeKeys |-> [f \in SomeFields[g] |-> 1]]
PartlyGiven == [Defaults EXCEPT !.circuit_breaker = [f \in {"error_threshold"} |-> 1]]

(* AccessRules: rules of every kind of condition, domain rules that overlap. *)
Rule(action, priority, conditions) ==
  conditions @@ [source |-> {}, domain |-> {}, ip |-> {}, port |-> {}, protocol |-> {},
                 tag |-> {}, hours |-> {}, action |-> action, priority |-> priority]
Access(protocol, source, name, address, port) ==
  [protocol |-> protocol, source |-> source, name |-> name, address |-> address, port |-> port]
SomeRules ==
  {Rule("deny", 2, [ip |-> {[address |-> 2, bits |-> 1]}, source |-> {[address |-> 1, bits |-> 2]}]),
   Rule("deny", 1, [domain |-> {1}, hours |-> {1}, port |-> {80}]),
   Rule("allow", 1, [tag |-> {"vip"}, protocol |-> {"udp"}]),
   Rule("deny", 1, [ip |-> {[address |-> 1, bits |-> 0]}]),
   Rule("allow", 2, [port |-> {80}])}
SomeDomainRules ==
  {[pattern |-> {1}, tag |-> "a", priority |-> 0], [pattern |-> {1, 2}, tag |-> "b", priority |-> 0],
   [pattern |-> {1, 2}, tag |-> "c", priority |-> 1]}
SomeAccesses ==
  {Access("http", {1}, {1}, {}, 80), Access("http", {0}, {}, {3}, 80), Access("udp", {}, {}, {1}, 53)}

----------------------------------------------------------------------------
(* A part that rests is in one of its initial states.                        *)
BandwidthRests ==
  /\ wall = 0 /\ passed = 0 /\ ahead = 0 /\ back = 0 /\ enabled = FALSE
  /\ default = CHOOSE l \in Limits : TRUE
  /\ overrides = [c \in Users |-> NoLimit] /\ bucket = [c \in Users |-> NoBucket]
  /\ global = GlobalBucket(CHOOSE l \in Globals : TRUE)
AccountsRest ==
  /\ users = [u \in {WebUser} |-> User("admin", "true")]
  /\ tokens = {} /\ loginFailures = << >> /\ moment = 0
  /\ wrongPasswords = [k \in LoginKeys |-> << >>] /\ revoked = {}

ServerParts ==
  {"registry", "bandwidth", "cache", "traffic", "settings", "audit", "accounts", "passwords", "access"}
ServerStateInit ==
  /\ part \in ServerParts
  /\ RegistryInit /\ CacheInit /\ TrafficInit /\ SettingsInit /\ AuditInit /\ PasswordsInit /\ AccessInit
  /\ part # "cache" => defaultTTL = CHOOSE ttl \in TTLs : TRUE
  /\ IF part = "bandwidth" THEN BandwidthInit ELSE BandwidthRests
  /\ IF part = "accounts" THEN AccountsInit ELSE AccountsRest

Only(p) ==
  /\ part = p /\ UNCHANGED part
  /\ IF p = "registry" THEN TRUE ELSE UNCHANGED registryVars
  /\ IF p = "bandwidth" THEN TRUE ELSE UNCHANGED bandwidthVars
  /\ IF p = "cache" THEN TRUE ELSE UNCHANGED cacheVars
  /\ IF p = "traffic" THEN TRUE ELSE UNCHANGED trafficVars
  /\ IF p = "settings" THEN TRUE ELSE UNCHANGED settingsVars
  /\ IF p = "audit" THEN TRUE ELSE UNCHANGED auditVars
  /\ IF p = "accounts" THEN TRUE ELSE UNCHANGED accountsVars
  /\ IF p = "passwords" THEN TRUE ELSE UNCHANGED passwordVars
  /\ IF p = "access" THEN TRUE ELSE UNCHANGED accessVars

ServerStateNext ==
  \/ Only("registry") /\ RegistryNext
  \/ Only("bandwidth") /\ BandwidthNext
  \/ Only("cache") /\ CacheNext
  \/ Only("traffic") /\ TrafficNext
  \/ Only("settings") /\ SettingsNext
  \/ Only("audit") /\ AuditNext
  \/ Only("accounts") /\ AccountsNext
  \/ Only("passwords") /\ PasswordsNext
  \/ Only("access") /\ AccessNext

(* Two tunnels are alike: no part tells them apart but by their state.       *)
Symmetry == Permutations(Tunnels)

ServerStateSpec == ServerStateInit /\ [][ServerStateNext]_stateVars

----------------------------------------------------------------------------
(* Types, of every part.                                                     *)
ServerStateTypeOK ==
  /\ RegistryTypeOK /\ BandwidthTypeOK /\ CacheTypeOK /\ TrafficTypeOK /\ SettingsTypeOK
  /\ AuditTypeOK /\ AccountsTypeOK /\ PasswordsTypeOK /\ AccessTypeOK

(* What decides about a request is what is meant to: the cache's answer is   *)
(* the origin's to a request that agrees in all it depends on (Range and the *)
(* order of parameters apart), the verdict is of the rules of now, the       *)
(* password leads to its own route.                                          *)
ServedRight == HitIsRight /\ RulesDecide /\ EachToItsRoute

(* What is written down stays: the file of the settings is behind only where *)
(* the timer knows of it or a write failed, the audit log has its entries in *)
(* order, and without a gap but for failures and for what was in the buffer  *)
(* of a process that died, the statistics miss no traffic.                   *)
Durable == UnsavedIsDirty /\ InOrderWithoutGaps /\ NothingUncounted

(* Access that was taken away is gone: a revoked token is refused, and one   *)
(* address cannot try a user's passwords faster than the lock allows.        *)
Authority == TokensRevoked /\ ThrottleBounds
=============================================================================
