--------------------------- MODULE ProxyPasswords ---------------------------
(* The panel's proxy passwords (proxy-passwords.ts): each gives its user     *)
(* the default pool, the nodes of a tag, or one node; and how the proxy      *)
(* finds the route of the password it is given (auth.ts).                    *)
EXTENDS Integers, Sequences, SequencesExt, FiniteSets

CONSTANTS
  Passwords,       \* passwords, the configured one and node ids among them
  ConfigPassword,  \* auth.proxy.password
  NodeIds,         \* ids of nodes: a node's id is a password too
  RouteTags,       \* tags a password may be limited to
  MaxCreated       \* bound: entries created

ASSUME PasswordsAssumption ==
  ConfigPassword \in Passwords /\ NodeIds \subseteq Passwords /\ MaxCreated \in Nat

VARIABLES
  entries,         \* the stored list
  online,          \* the nodes that are connected
  created          \* ids given so far

passwordVars == <<entries, online, created>>

PasswordsInit == entries = << >> /\ online = {} /\ created = 0

(* What a patch has for a field it does not change.                          *)
Same == {"same"}

(* validateRouting(), of the entry as it would be stored.                    *)
Exclusive(entry) == entry.tag = {} \/ entry.clientId = {}
Taken(password, id) == \E e \in ToSet(entries) : e.password = password /\ e.id # id
UpdateValid(entry, patch) == Exclusive(entry)

Tagging == {{}} \cup {{t} : t \in RouteTags}
Forcing == {{}} \cup {{n} : n \in NodeIds}

(* A generated password is one nobody has.                                   *)
Generated == {p \in Passwords \ (NodeIds \cup {ConfigPassword}) : \A e \in ToSet(entries) : e.password # p}

Create ==
  \E p \in Passwords, tag \in Tagging, clientId \in Forcing, enabled \in BOOLEAN :
    LET entry == [id |-> created, password |-> p, tag |-> tag, clientId |-> clientId, enabled |-> enabled]
    IN /\ created < MaxCreated /\ Exclusive(entry) /\ ~Taken(p, created)
       /\ entries' = Append(entries, entry) /\ created' = created + 1
       /\ UNCHANGED online

(* update(): a field the patch does not have stays.                          *)
PatchedRoute(entry, patch) ==
  [f \in DOMAIN entry |-> IF f \in DOMAIN patch /\ patch[f] # Same THEN patch[f] ELSE entry[f]]

Update(i) ==
  \E p \in Passwords, tag \in Tagging \cup {Same}, clientId \in Forcing \cup {Same}, enabled \in BOOLEAN :
    LET patch == [tag |-> tag, clientId |-> clientId]
        next == [PatchedRoute(entries[i], patch) EXCEPT !.password = p, !.enabled = enabled]
    IN /\ UpdateValid(next, patch) /\ ~Taken(p, next.id)
       /\ entries' = [entries EXCEPT ![i] = next]
       /\ UNCHANGED <<online, created>>

Regenerate(i) ==
  \E p \in Generated : entries' = [entries EXCEPT ![i].password = p] /\ UNCHANGED <<online, created>>

RemovePassword(i) == entries' = RemoveAt(entries, i) /\ UNCHANGED <<online, created>>

NodeChanges(n) ==
  /\ online' = IF n \in online THEN online \ {n} ELSE online \cup {n}
  /\ UNCHANGED <<entries, created>>

PasswordsNext ==
  \/ Create
  \/ \E i \in DOMAIN entries : Update(i) \/ Regenerate(i) \/ RemovePassword(i)
  \/ \E n \in NodeIds : NodeChanges(n)

PasswordsSpec == PasswordsInit /\ [][PasswordsNext]_passwordVars

----------------------------------------------------------------------------
(* _matchProxyCredentials(): the configured pair, the first enabled entry    *)
(* with the password, then a connected node of that id; {} is no access.  An *)
(* entry that holds a bcrypt hash is compared as the password hashed.        *)
Route(tag, clientId) == [tag |-> tag, clientId |-> clientId]
Resolve(configUser, password) ==
  LET first == SelectInSeq(entries, LAMBDA e : e.enabled /\ e.password = password)
  IN IF configUser /\ password = ConfigPassword THEN {Route({}, {})}
     ELSE IF first # 0 THEN {Route(entries[first].tag, entries[first].clientId)}
     ELSE IF password \in online THEN {Route({}, {password})} ELSE {}

PasswordsTypeOK ==
  /\ Len(entries) <= created /\ created \in 0..MaxCreated /\ online \subseteq NodeIds
  /\ \A e \in ToSet(entries) : e.password \in Passwords /\ e.tag \in Tagging /\ e.clientId \in Forcing

(* Whatever was created and changed, an enabled password takes every user to *)
(* the route stored with it and to one route alone: the default pool, a tag  *)
(* or a node, never a tag and a node at once. The configured pair is apart.  *)
EachToItsRoute ==
  \A e \in ToSet(entries), configUser \in BOOLEAN :
    e.enabled /\ ~(configUser /\ e.password = ConfigPassword) =>
      /\ Resolve(configUser, e.password) = {Route(e.tag, e.clientId)}
      /\ Exclusive(e)
=============================================================================
