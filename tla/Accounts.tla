------------------------------ MODULE Accounts ------------------------------
(* The users of the management panel (auth.ts, web-server.ts): user          *)
(* management by the administrators, the tokens of the panel's sessions and  *)
(* the throttle of failed logins. The user store is in memory: a restart is  *)
(* the initial state.                                                        *)
EXTENDS Lists, Integers, Sequences, SequencesExt, FiniteSets

CONSTANTS
  UserNames,       \* user names
  WebUser,         \* the administrator of the configuration
  LoginIps,        \* addresses that logins come from
  LoginFailures,   \* LOGIN_MAX_FAILURES
  LoginWindow,     \* LOGIN_WINDOW_MS
  LoginLock,       \* LOGIN_LOCK_MS
  LoginRecords,    \* entries of loginFailures; the code keeps 1000
  EnabledValues,   \* what a request gives as `enabled`: JSON, not checked
  MaxVersion,      \* bound: tokenVersion
  LastMoment       \* bound: the clock

ASSUME AccountsAssumption ==
  /\ WebUser \in UserNames
  /\ {LoginFailures, LoginWindow, LoginLock, LoginRecords} \subseteq Nat \ {0}
  /\ IsFiniteSet(UserNames) /\ {MaxVersion, LastMoment} \subseteq Nat
  /\ LoginFailures > 1 /\ LoginLock >= LoginWindow
  /\ {"true", "false"} \subseteq EnabledValues /\ EnabledValues \subseteq {"true", "false", "null"}

VARIABLES
  users,           \* the users there are
  tokens,          \* tokens handed out, of the accounts there are
  loginFailures,   \* the Map, in the order of insertion
  moment,          \* Date.now()
  wrongPasswords,  \* history: when a password was found wrong, of an address and a user
  revoked          \* history: tokens of before a logout or a new password

(* The key of the throttle: `${req.ip}|${username}`.                         *)
LoginKeys == [ip : LoginIps, user : UserNames]

accountsVars == <<users, tokens, loginFailures, moment, wrongPasswords, revoked>>

Roles == {"admin", "operator", "viewer"}
User(role, enabled) == [role |-> role, enabled |-> enabled, tokenVersion |-> 0]

(* The configured administrator, and the users of auth.users, one of which   *)
(* may redefine the administrator.                                           *)
AccountsInit ==
  /\ \E extra \in SUBSET UserNames :
       users \in [extra \cup {WebUser} -> {User(r, e) : r \in Roles, e \in {"true", "false"}}]
  /\ tokens = {} /\ loginFailures = << >> /\ moment = 0
  /\ wrongPasswords = [k \in LoginKeys |-> << >>] /\ revoked = {}

Live(u) == u \in DOMAIN users /\ users[u].enabled = "true"
EnabledAdmins == {u \in DOMAIN users : Live(u) /\ users[u].role = "admin"}

----------------------------------------------------------------------------
(* User management; hasPermission() asks the live user of the request, and   *)
(* only the role admin has the permissions user:*.                           *)
AddUser(name, role) ==
  /\ EnabledAdmins # {} /\ name \notin DOMAIN users
  /\ users' = [u \in DOMAIN users \cup {name} |-> IF u = name THEN User(role, "true") ELSE users[u]]
  /\ UNCHANGED <<tokens, loginFailures, moment, wrongPasswords, revoked>>

Issued(name) == {t \in tokens : t.user = name}

(* deleteUser(): the last enabled administrator stays. The tokens of the     *)
(* account are followed no further: nothing is said of an account that later *)
(* gets the same name.                                                       *)
LastAdmin(name) == users[name].role = "admin" /\ Cardinality(EnabledAdmins) <= 1
LastOfRole(name) ==
  users[name].role = "admin" /\ Cardinality({u \in DOMAIN users : users[u].role = "admin"}) <= 1
DeletableOfRole(name) == ~LastOfRole(name)
Deletable(name) == ~LastAdmin(name)
DeleteUser(name) ==
  /\ EnabledAdmins # {} /\ name \in DOMAIN users /\ Deletable(name)
  /\ users' = [u \in DOMAIN users \ {name} |-> users[u]]
  /\ tokens' = tokens \ Issued(name) /\ revoked' = revoked \ Issued(name)
  /\ UNCHANGED <<loginFailures, moment, wrongPasswords>>

(* modifyUser(): a new password also advances the epoch of the tokens.       *)
Refused(name, role, enabled) ==
  /\ name \in EnabledAdmins /\ Cardinality(EnabledAdmins) <= 1
  /\ role \notin {"unchanged", "admin"} \/ enabled = "false"
Modified(user, newPassword, role, enabled) ==
  [role |-> IF role = "unchanged" THEN user.role ELSE role,
   enabled |-> IF enabled = "unchanged" THEN user.enabled ELSE enabled,
   tokenVersion |-> user.tokenVersion + (IF newPassword THEN 1 ELSE 0)]
ModifyUser(name, newPassword, role, enabled) ==
  /\ EnabledAdmins # {} /\ name \in DOMAIN users /\ ~Refused(name, role, enabled)
  /\ newPassword => users[name].tokenVersion < MaxVersion
  /\ users' = [users EXCEPT ![name] = Modified(@, newPassword, role, enabled)]
  /\ revoked' = IF newPassword THEN revoked \cup Issued(name) ELSE revoked
  /\ UNCHANGED <<tokens, loginFailures, moment, wrongPasswords>>

----------------------------------------------------------------------------
(* verifyWebToken() and the middleware: the user exists, is enabled, and has *)
(* the epoch of the token.                                                   *)
Accepted(token) == Live(token.user) /\ users[token.user].tokenVersion = token.ver

(* revokeUserTokens()                                                        *)
RevokedOnlyHere(name) == users
Revoked(name) == [users EXCEPT ![name].tokenVersion = @ + 1]
Logout(token) ==
  /\ token.user \in DOMAIN users /\ users[token.user].tokenVersion = token.ver
  /\ token.ver < MaxVersion
  /\ users' = Revoked(token.user)
  /\ revoked' = revoked \cup Issued(token.user)
  /\ UNCHANGED <<tokens, loginFailures, moment, wrongPasswords>>

Records(key) == {r \in ToSet(loginFailures) : r.key = key}
Locked(key) == \E r \in Records(key) : r.until > moment

(* A failure within the window of the first one adds to its count.           *)
Counted(key) ==
  LET within == {r \in Records(key) : moment - r.first < LoginWindow}
      failures == 1 + (IF within = {} THEN 0 ELSE (CHOOSE r \in within : TRUE).count)
  IN [key |-> key, count |-> failures,
      first |-> IF within = {} THEN moment ELSE (CHOOSE r \in within : TRUE).first,
      until |-> IF failures >= LoginFailures THEN moment + LoginLock ELSE 0]

(* Map.set() keeps the place of a key it has.                                *)
WithFailure(key) ==
  IF Records(key) = {} THEN Append(loginFailures, Counted(key))
  ELSE [i \in DOMAIN loginFailures |->
          IF loginFailures[i].key = key THEN Counted(key) ELSE loginFailures[i]]

(* trimLoginFailures(): locks that are over, then the oldest entries.        *)
Unexpired(records) ==
  Kept(records, {i \in DOMAIN records : records[i].until = 0 \/ records[i].until > moment})
Newest(records) ==
  IF Len(records) <= LoginRecords THEN records
  ELSE SubSeq(records, Len(records) - LoginRecords + 1, Len(records))

LoginFails(key) ==
  /\ ~Locked(key)
  /\ LET records == Unexpired(WithFailure(key))
         dropped == ToSet(records) \ ToSet(Newest(records))
     IN /\ loginFailures' = Newest(records)
        /\ wrongPasswords' = [k \in LoginKeys |->
             IF \E r \in dropped : r.key = k THEN << >>
             ELSE IF k = key THEN Append(wrongPasswords[k], moment) ELSE wrongPasswords[k]]
  /\ UNCHANGED <<users, tokens, moment, revoked>>

LoginSucceeds(key) ==
  /\ ~Locked(key) /\ Live(key.user)
  /\ loginFailures' = Kept(loginFailures, {i \in DOMAIN loginFailures : loginFailures[i].key # key})
  /\ tokens' = tokens \cup {[user |-> key.user, ver |-> users[key.user].tokenVersion]}
  /\ wrongPasswords' = [wrongPasswords EXCEPT ![key] = << >>]
  /\ UNCHANGED <<users, moment, revoked>>

(* Also a clock that is set ahead. It is not set back here.                  *)
AccountsTick == moment < LastMoment /\ moment' = moment + 1
                /\ UNCHANGED <<users, tokens, loginFailures, wrongPasswords, revoked>>

AccountsNext ==
  \/ \E name \in UserNames :
       \/ \E role \in Roles : AddUser(name, role)
       \/ DeleteUser(name)
       \/ \E newPassword \in BOOLEAN, role \in Roles \cup {"unchanged"},
             enabled \in EnabledValues \cup {"unchanged"} :
            ModifyUser(name, newPassword, role, enabled)
  \/ \E token \in tokens : Logout(token)
  \/ \E key \in LoginKeys : LoginFails(key) \/ LoginSucceeds(key)
  \/ AccountsTick

AccountsSpec == AccountsInit /\ [][AccountsNext]_accountsVars

----------------------------------------------------------------------------
AccountsTypeOK ==
  /\ DOMAIN users \subseteq UserNames
  /\ \A u \in DOMAIN users : users[u] \in [role : Roles, enabled : EnabledValues, tokenVersion : 0..MaxVersion]
  /\ tokens \subseteq [user : UserNames, ver : 0..MaxVersion] /\ revoked \subseteq tokens
  /\ Len(loginFailures) <= LoginRecords /\ moment \in 0..LastMoment

(* No request leaves the panel without an administrator who can log in, if   *)
(* it had one: whichever administrators delete, demote or disable each other *)
(* or themselves, in whichever order, where requests give true or false for  *)
(* `enabled`. With null, modifyUser() disables the last one (auth.ts:227).   *)
AdminRemains == [][EnabledAdmins # {} => EnabledAdmins' # {}]_accountsVars

(* A token of before a logout or a new password of its account is refused,   *)
(* whatever was done to the account since, as long as there is that account. *)
TokensRevoked == \A t \in revoked : ~Accepted(t)

(* In a stretch of the clock as long as the window, an address finds a user's *)
(* password wrong at most 2 * (LoginFailures - 1) times: two windows may     *)
(* meet in it, but one of them is then short of the lock, or the lock covers *)
(* the rest. A right password, or a record that was dropped for want of      *)
(* room, starts afresh, and every other address has as many attempts again.  *)
ThrottleBounds ==
  \A key \in LoginKeys, t \in 0..LastMoment :
    Cardinality({i \in DOMAIN wrongPasswords[key] : wrongPasswords[key][i] \in t..(t + LoginWindow - 1)})
      <= 2 * (LoginFailures - 1)
=============================================================================
