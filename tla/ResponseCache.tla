---------------------------- MODULE ResponseCache ----------------------------
(* The cache the HTTP proxy answers GET requests from (cache.ts), with the   *)
(* requests that are on their way to an origin.  A response is known by what *)
(* it depends on: the URL and some of the request's headers.                 *)
EXTENDS Lists, Integers, FiniteSets, Sequences, SequencesExt

CONSTANTS
  Requests,     \* [method, path, query, headers]; query: the sequence of parameters
                \* [name, value]; headers[h] = Absent when h is not sent
  Responses,    \* [error, unfit, depends, vary, private]; unfit: too large or empty;
                \* private: Set-Cookie or a Cache-Control that forbids a shared cache
  Absent,
  TTLs,         \* values of default_ttl; 0: until the next sweep
  MaxSize,
  MaxFetching,  \* bound: requests on their way at once
  MaxTime       \* bound: the clock

(* cookie stands for Authorization, too; a response that depends on range is *)
(* a part of the content (206).                                              *)
Header == {"accept", "cookie", "language", "range"}

ASSUME CacheAssumption ==
  /\ \A req \in Requests : DOMAIN req.headers = Header
  /\ \A resp \in Responses : resp.depends \subseteq Header
  /\ MaxSize \in Nat \ {0} /\ TTLs \subseteq Nat /\ MaxFetching \in Nat /\ MaxTime \in Nat

(* Origins name the headers that a response depends on, unless no shared     *)
(* cache may have it.  Accept and cookies need no name: the key has the one, *)
(* and there is no key with the other.  Range has none in HTTP.              *)
ASSUME OriginsAssumption ==
  \A resp \in Responses :
    resp.error \/ resp.private \/ resp.depends \subseteq {"accept", "cookie", "range"} \cup resp.vary

VARIABLES
  cache,        \* the Map: entries in its order, the oldest first
  defaultTTL,
  fetching,     \* requests the cache had no answer for
  clock

cacheVars == <<cache, defaultTTL, fetching, clock>>

Content(req, depends) ==
  [method |-> req.method, path |-> req.path, query |-> req.query,
   header |-> [h \in depends |-> req.headers[h]]]

(* sort(): by name; parameters of one name stay in their order.              *)
Normalized(query) ==
  [n \in {query[i].name : i \in DOMAIN query} |->
     Kept(query, {i \in DOMAIN query : query[i].name = n})]

(* makeKey(): only GET without credentials has one.                          *)
Key(req) ==
  IF req.method # "GET" \/ req.headers.cookie # Absent THEN Absent
  ELSE [path |-> req.path, query |-> Normalized(req.query), accept |-> req.headers.accept]

(* _isCacheableResponse()                                                    *)
CacheableIgnoringVary(resp) == ~resp.private
Cacheable(resp) == ~resp.private /\ resp.vary \subseteq {"accept"}

Life(e) == IF e.ttl # 0 THEN e.ttl ELSE defaultTTL
Expired(e) == Life(e) > 0 /\ clock - e.createdAt > Life(e)
WithoutEntry(key) == Kept(cache, {i \in DOMAIN cache : cache[i].key # key})
Cached(key) == \E e \in Range(cache) : e.key = key
Entry(key) == CHOOSE e \in Range(cache) : e.key = key

CacheInit ==
  cache = <<>> /\ defaultTTL \in TTLs /\ fetching = {} /\ clock = 0

----------------------------------------------------------------------------
Answered(req) == Cached(Key(req)) /\ ~Expired(Entry(Key(req)))

(* get(): a hit moves to the end of the Map.                                 *)
Hit(req) ==
  /\ Answered(req)
  /\ cache' = Append(WithoutEntry(Key(req)), Entry(Key(req)))
  /\ UNCHANGED <<defaultTTL, fetching, clock>>

Miss(req) ==
  /\ ~Answered(req)
  /\ Cardinality(fetching) < MaxFetching /\ fetching' = fetching \cup {req}
  /\ cache' = WithoutEntry(Key(req))
  /\ UNCHANGED <<defaultTTL, clock>>

(* set(): a full cache loses its first entry, also for a key it has; a key   *)
(* that is still there keeps its place.                                      *)
Full == Len(cache) >= MaxSize
Evicted == IF Full THEN Tail(cache) ELSE cache
StoredEntry(e) ==
  LET rest == Evicted
      same == {i \in DOMAIN rest : rest[i].key = e.key}
  IN IF same = {} THEN Append(rest, e) ELSE [i \in DOMAIN rest |-> IF i \in same THEN e ELSE rest[i]]

Response(req, resp) ==
  /\ req \in fetching
  /\ fetching' = fetching \ {req}
  /\ cache' =
       IF Key(req) # Absent /\ ~resp.error /\ ~resp.unfit /\ Cacheable(resp)
         THEN StoredEntry([key |-> Key(req), content |-> Content(req, resp.depends),
                      depends |-> resp.depends, createdAt |-> clock, ttl |-> defaultTTL])
         ELSE cache
  /\ UNCHANGED <<defaultTTL, clock>>

(* The panel's change of the setting, and its button.                        *)
SetTTL == \E ttl \in TTLs : defaultTTL' = ttl /\ UNCHANGED <<cache, fetching, clock>>
Clear == cache' = <<>> /\ UNCHANGED <<defaultTTL, fetching, clock>>

Sweep ==
  /\ cache' = Kept(cache, {i \in DOMAIN cache : clock - cache[i].createdAt <= cache[i].ttl})
  /\ UNCHANGED <<defaultTTL, fetching, clock>>

Tick ==
  clock < MaxTime /\ clock' = clock + 1 /\ UNCHANGED <<cache, defaultTTL, fetching>>

CacheNext ==
  \/ \E req \in Requests : Hit(req) \/ Miss(req) \/ \E resp \in Responses : Response(req, resp)
  \/ SetTTL \/ Clear \/ Sweep \/ Tick

CacheSpec == CacheInit /\ [][CacheNext]_cacheVars

----------------------------------------------------------------------------
(* The cache never outgrows its size and has one entry for a key.            *)
CacheTypeOK ==
  /\ Len(cache) <= MaxSize
  /\ \A i, j \in DOMAIN cache : cache[i].key = cache[j].key => i = j
  /\ \A e \in Range(cache) : e.key # Absent /\ e.createdAt \in 0..clock /\ e.ttl \in TTLs
  /\ fetching \subseteq Requests /\ clock \in 0..MaxTime

(* Whatever the cache answers, the origin answered to a request of the same  *)
(* method, path and parameters, which had the same values of all headers     *)
(* that the answer depends on, but for Range.                                *)
HitIsRight ==
  \A req \in Requests :
    Answered(req) =>
      LET e == Entry(Key(req))
      IN /\ e.content.method = req.method /\ e.content.path = req.path
         /\ Normalized(e.content.query) = Normalized(req.query)
         /\ \A h \in e.depends \ {"range"} : e.content.header[h] = req.headers[h]

(* "Responses varying on request headers other than Accept are rejected"     *)
(* (cache.ts:157-159): the answer is what the origin would have answered to  *)
(* this very request.  Not so: set() takes a part of the content, and get()  *)
(* gives it to who asked for all of it, or for another part; and an origin   *)
(* for which the order of parameters of different names matters gets none.   *)
HitIsExact ==
  \A req \in Requests :
    Answered(req) =>
      LET e == Entry(Key(req)) IN e.content = Content(req, e.depends)
=============================================================================
