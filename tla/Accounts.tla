----------------------------- MODULE Accounts ------------------------------
(***************************************************************************)
(* api-server/src/auth: one e-mail address and the requests that register  *)
(* it, log in, change its password, log out or use a token.  Each SQL      *)
(* statement and each Redis command is a step; the password is compared    *)
(* with the hash that the request's first statement read.                  *)
(***************************************************************************)
EXTENDS Naturals, FiniteSets

CONSTANTS
  Clients,    \* requests for this address
  LockAfter   \* failed logins that lock the account

VARIABLES
  account,    \* the row of table users
  client,     \* what each request does and has read
  tokens,     \* clients whose JWT was issued
  revoked,    \* tokens on the blacklist
  unlocked    \* a lock that had not expired was removed without a login

accountVars == <<account, client, tokens, revoked, unlocked>>

\* "wrong" is a login with a password that never was right.  A changed password
\* is named after the request that set it; the first one is "first".
ClientOps   == {"register", "admin", "login", "wrong", "change", "session"}
ClientEnds  == {"ok", "invalid", "locked", "refused", "failed", "notLocked"}
NoAccount   == [exists |-> FALSE, password |-> "first", mustChange |-> FALSE,
                attempts |-> 0, lock |-> "none"]

AccountInit ==
  /\ account \in {NoAccount} \cup
       {[NoAccount EXCEPT !.exists = TRUE, !.lock = l] : l \in {"none", "expired"}}
  /\ client \in [Clients -> [op : ClientOps, at : {"start"}, hash : {"none"}]]
  /\ tokens = {}
  /\ revoked = {}
  /\ unlocked = FALSE

Moves(c, at) == client' = [client EXCEPT ![c].at = at]
Is(c, ops, at) == client[c].op \in ops /\ client[c].at = at
-----------------------------------------------------------------------------
\* register, and ensureAdminUser at the start of the server: findByEmail.
FindFree(c) ==
  /\ Is(c, {"register", "admin"}, "start")
  /\ Moves(c, IF account.exists THEN "refused" ELSE "insert")
  /\ UNCHANGED <<account, tokens, revoked, unlocked>>

\* INSERT; the address is unique.  A registration ends with a token.
CreateUser(c) ==
  /\ Is(c, {"register", "admin"}, "insert")
  /\ ~ account.exists
  /\ account' = [account EXCEPT !.exists = TRUE, !.mustChange = client[c].op = "admin"]
  /\ tokens' = IF client[c].op = "register" THEN tokens \cup {c} ELSE tokens
  /\ Moves(c, "ok")
  /\ UNCHANGED <<revoked, unlocked>>

AlreadyThere(c) ==
  /\ Is(c, {"register", "admin"}, "insert")
  /\ account.exists
  /\ Moves(c, "failed")
  /\ UNCHANGED <<account, tokens, revoked, unlocked>>
-----------------------------------------------------------------------------
\* login and change-password: findByEmail.
FindUser(c) ==
  /\ Is(c, {"login", "wrong", "change"}, "start")
  /\ client' = [client EXCEPT ![c].hash = account.password,
                              ![c].at = IF ~ account.exists THEN "invalid"
                                        ELSE IF client[c].op = "change" THEN "compare"
                                        ELSE "lockCheck"]
  /\ UNCHANGED <<account, tokens, revoked, unlocked>>

\* isLocked: the SELECT, and the UPDATE that clears an expired lock.
LockCheck(c) ==
  /\ client[c].at = "lockCheck"
  /\ Moves(c, CASE account.lock = "none"    -> "compare"
                [] account.lock = "set"     -> "locked"
                [] account.lock = "expired" -> "clear")
  /\ UNCHANGED <<account, tokens, revoked, unlocked>>

ClearLock(c) ==
  /\ client[c].at = "clear"
  /\ account' = [account EXCEPT !.lock = "none"]
  /\ unlocked' = (unlocked \/ account.lock = "set")
  /\ Moves(c, "compare")
  /\ UNCHANGED <<tokens, revoked>>

\* comparePassword with the hash read before; the client knows the first password.
Compare(c) ==
  /\ client[c].at = "compare"
  /\ LET valid == client[c].op /= "wrong" /\ client[c].hash = "first"
     IN Moves(c, IF client[c].op = "change" THEN IF valid THEN "store" ELSE "invalid"
                 ELSE IF valid THEN "reset" ELSE "count")
  /\ UNCHANGED <<account, tokens, revoked, unlocked>>

CountFailureAbove(c) ==
  /\ client[c].at = "count"
  /\ account' = [account EXCEPT !.attempts = @ + 1]
  /\ Moves(c, IF account'.attempts > LockAfter THEN "lock" ELSE "invalid")
  /\ UNCHANGED <<tokens, revoked, unlocked>>

\* incrementFailedLogin: attempts + 1 RETURNING, then the UPDATE that locks.
CountFailure(c) ==
  /\ client[c].at = "count"
  /\ account' = [account EXCEPT !.attempts = @ + 1]
  /\ Moves(c, IF account'.attempts >= LockAfter THEN "lock" ELSE "invalid")
  /\ UNCHANGED <<tokens, revoked, unlocked>>

Lock(c) ==
  /\ client[c].at = "lock"
  /\ account' = [account EXCEPT !.lock = "set", !.attempts = 0]
  /\ Moves(c, "invalid")
  /\ UNCHANGED <<tokens, revoked, unlocked>>

\* resetFailedLogin, and the token.
LoggedIn(c) ==
  /\ client[c].at = "reset"
  /\ account' = [account EXCEPT !.attempts = 0, !.lock = "none"]
  /\ tokens' = tokens \cup {c}
  /\ Moves(c, "ok")
  /\ UNCHANGED <<revoked, unlocked>>

\* change-password: UPDATE of the row, whatever its password is by now.
StorePassword(c) ==
  /\ client[c].at = "store"
  /\ account' = [account EXCEPT !.password = "changed", !.mustChange = FALSE]
  /\ Moves(c, "ok")
  /\ UNCHANGED <<tokens, revoked, unlocked>>

LockExpires ==
  /\ account.lock = "set"
  /\ account' = [account EXCEPT !.lock = "expired"]
  /\ UNCHANGED <<client, tokens, revoked, unlocked>>
-----------------------------------------------------------------------------
\* authenticate with somebody's token; the check fails open without Redis.
Authenticate(c) ==
  /\ Is(c, {"session"}, "start")
  /\ \E t \in tokens :
       \/ t \notin revoked /\ Moves(c, "logout")
       \/ t \in revoked /\ client' \in {[client EXCEPT ![c].at = at] : at \in {"logout", "refused"}}
  /\ UNCHANGED <<account, tokens, revoked, unlocked>>

\* logout: revokeToken; a failed write is only logged.
Logout(c) ==
  /\ Is(c, {"session"}, "logout")
  /\ \E t \in tokens : revoked' \in {revoked, revoked \cup {t}}
  /\ Moves(c, "ok")
  /\ UNCHANGED <<account, tokens, unlocked>>

\* A statement is rejected: 500.  The failure it counted may thus not lock.
StatementFails(c) ==
  /\ client[c].at \in {"insert", "lockCheck", "clear", "count", "lock", "reset", "store"}
  /\ Moves(c, IF client[c].at = "lock" THEN "notLocked" ELSE "failed")
  /\ UNCHANGED <<account, tokens, revoked, unlocked>>

AccountStep(c) ==
  \/ FindFree(c) \/ CreateUser(c) \/ AlreadyThere(c) \/ FindUser(c) \/ LockCheck(c)
  \/ ClearLock(c) \/ Compare(c) \/ CountFailure(c) \/ Lock(c) \/ LoggedIn(c)
  \/ StorePassword(c) \/ Authenticate(c) \/ Logout(c) \/ StatementFails(c)

AccountNext == LockExpires \/ \E c \in Clients : AccountStep(c)

AccountSpec == AccountInit /\ [][AccountNext]_accountVars
-----------------------------------------------------------------------------
AccountTypeOK ==
  /\ account \in [exists : BOOLEAN, password : {"first", "changed"}, mustChange : BOOLEAN,
                  attempts : Nat, lock : {"none", "set", "expired"}]
  /\ \A c \in Clients :
       client[c].at \in ClientEnds \cup {"start", "insert", "lockCheck", "clear", "compare",
                                       "count", "lock", "reset", "store", "logout"}
  /\ tokens \subseteq Clients /\ revoked \subseteq tokens /\ unlocked \in BOOLEAN

\* However failed logins interleave with each other, with successful ones and
\* with locks, the count is at the limit only while one of them is about to lock
\* the account, unless its statement was rejected.
LimitLocks ==
  account.attempts >= LockAfter => \E c \in Clients : client[c].at \in {"lock", "notLocked"}

\* auth/repository.ts, line 204: "Lock expired" and "clear it": isLocked removes
\* no lock that has not expired.
OnlyExpiredCleared == ~ unlocked
=============================================================================
