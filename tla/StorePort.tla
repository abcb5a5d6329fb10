------------------------------ MODULE StorePort ------------------------------
(***************************************************************************)
(* The three stores an adapter provides (packages/janus/src/auth/port), as *)
(* the reference stores answer (port/memory): every method is one atomic   *)
(* step, from the stores before the call to the stores after it and what   *)
(* it answers.                                                             *)
(*                                                                         *)
(* A refusal is an answer of its own: the code of the error the port names *)
(* and what it says it is about.  Failure is a store that could not        *)
(* answer.  A method that answers nothing answers None.                    *)
(*                                                                         *)
(* A session is named by its id and by the hash of its token, which never  *)
(* changes: one of them stands for both.  What a record holds and no store *)
(* looks into, its fields or a hash, is one value.                         *)
(***************************************************************************)
EXTENDS TokenStore, FiniteSets, SequencesExt

CONSTANTS Type, Login, SessionId, Failure

(* The unique index: a login of one type (user-index.ts, keyOf).           *)
Key == Type \X Login

KeysOf(type, logins) == {type} \X logins

EmptyStores ==
  [users    |-> [id \in UserId |-> None],
   logins   |-> [key \in Key |-> None],
   sessions |-> [id \in SessionId |-> None],
   tokens   |-> [hash \in Hash |-> None],
   tuples   |-> {},                                \* RelationPort's
   deliveries |-> [held |-> <<>>, due |-> <<>>]]   \* QueuePort's

Reply(stores, answer) == [stores |-> stores, answer |-> answer]

LoginTaken(login)                 == [code |-> "LOGIN_TAKEN", about |-> <<login>>]
VersionConflict(expected, actual) == [code |-> "VERSION_CONFLICT", about |-> <<expected, actual>>]
NotFound                          == [code |-> "NOT_FOUND", about |-> <<>>]

-----------------------------------------------------------------------------
(* Users.                                                                  *)

TakenBy(stores, type, logins, id) ==
  {login \in logins : stores.logins[<<type, login>>] \notin {None, id}}

IndexKeys(logins, keys, id) == [key \in Key |-> IF key \in keys THEN id ELSE logins[key]]

insertUser(stores, record) ==
  LET stored == stores.users[record.id]
      taken  == TakenBy(stores, record.type, record.logins, record.id)
  IN  CASE stored # None -> Reply(stores, stored)
        [] stored = None /\ taken # {} -> Reply(stores, LoginTaken(CHOOSE l \in taken : TRUE))
        [] OTHER ->
             Reply([stores EXCEPT
                      !.users[record.id] = record,
                      !.logins = IndexKeys(@, KeysOf(record.type, record.logins), record.id)],
                   record)

findUser(stores, id) == Reply(stores, stores.users[id])

(* The records, in an order of their own: each once.                       *)
findUsers(stores, ids) == Reply(stores, {stores.users[id] : id \in ids} \ {None})

findUserByLogin(stores, type, login) ==
  LET id == stores.logins[<<type, login>>]
  IN  Reply(stores, IF id = None THEN None ELSE stores.users[id])

nextCursor(ids, page) ==
  IF Cardinality(ids) > Len(page) /\ page # <<>> THEN Last(page) ELSE None

listUsers(stores, type, after, limit) ==
  LET ids  == {id \in UserId : /\ stores.users[id] # None
                               /\ stores.users[id].type = type
                               /\ after = None \/ id > after}
      all  == SetToSortSeq(ids, <)
      page == SubSeq(all, 1, IF Len(all) < limit THEN Len(all) ELSE limit)
  IN  Reply(stores, [items |-> page, next |-> nextCursor(ids, page)])

(* What a patch names is written, the rest kept, and the version moves.    *)
applyPatch(stored, patch) ==
  [field \in DOMAIN stored |->
     IF field = "version" THEN stored.version + 1
     ELSE IF field \in DOMAIN patch THEN patch[field] ELSE stored[field]]

updateUser(stores, id, patch, ifVersion) ==
  LET stored  == stores.users[id]
      moves   == "logins" \in DOMAIN patch
      taken   == IF moves THEN TakenBy(stores, stored.type, patch.logins, id) ELSE {}
      written == applyPatch(stored, patch)
      freed   == IndexKeys(stores.logins, KeysOf(stored.type, stored.logins), None)
  IN  IF stored = None THEN Reply(stores, NotFound)
      ELSE IF stored.version # ifVersion
        THEN Reply(stores, VersionConflict(ifVersion, stored.version))
      ELSE IF taken # {} THEN Reply(stores, LoginTaken(CHOOSE l \in taken : TRUE))
      ELSE Reply([stores EXCEPT
                    !.users[id] = written,
                    !.logins = IF moves
                                 THEN IndexKeys(freed, KeysOf(stored.type, patch.logins), id)
                                 ELSE @],
                 written)

deleteUser(stores, id) ==
  LET stored == stores.users[id]
  IN  IF stored = None THEN Reply(stores, FALSE)
      ELSE Reply([stores EXCEPT
                    !.users[id] = None,
                    !.logins = IndexKeys(@, KeysOf(stored.type, stored.logins), None)],
                 TRUE)

-----------------------------------------------------------------------------
(* Sessions.                                                               *)

insertSession(stores, id, record) ==
  Reply(IF stores.sessions[id] # None THEN stores ELSE [stores EXCEPT !.sessions[id] = record],
        None)

findSession(stores, id) == Reply(stores, stores.sessions[id])

Standing(stores, id) == stores.sessions[id] # None /\ stores.sessions[id].revokedAt = None

StandingWrite(stores, id, written) ==
  IF Standing(stores, id)
    THEN Reply([stores EXCEPT !.sessions[id] = written], written)
    ELSE Reply(stores, None)

extendSession(stores, id, expiresAt) ==
  StandingWrite(stores, id, [stores.sessions[id] EXCEPT !.expiresAt = expiresAt])

reauthenticateSession(stores, id, at) ==
  StandingWrite(stores, id, [stores.sessions[id] EXCEPT !.authenticatedAt = at])

Revoked(stores, ids, at) ==
  [stores EXCEPT !.sessions =
     [id \in SessionId |-> IF id \in ids THEN [@[id] EXCEPT !.revokedAt = at] ELSE @[id]]]

(* A revoked one keeps its first instant, and is there all the same.       *)
revokeSession(stores, id, at) ==
  IF stores.sessions[id] = None THEN Reply(stores, FALSE)
  ELSE Reply(IF Standing(stores, id) THEN Revoked(stores, {id}, at) ELSE stores, TRUE)

SessionsOf(stores, userId) ==
  {id \in SessionId : stores.sessions[id] # None /\ stores.sessions[id].userId = userId}

(* except is a set: empty, or the one session spared.                      *)
StandingOf(stores, userId, except) ==
  {id \in SessionsOf(stores, userId) \ except : Standing(stores, id)}

revokeUserSessions(stores, userId, at, except) ==
  LET standing == StandingOf(stores, userId, except)
  IN  Reply(Revoked(stores, standing, at), Cardinality(standing))

deleteSessions(stores, ids) ==
  Reply([stores EXCEPT !.sessions = [id \in SessionId |-> IF id \in ids THEN None ELSE @[id]]],
        Cardinality(ids))

deleteUserSessions(stores, userId) == deleteSessions(stores, SessionsOf(stores, userId))

deleteExpiredSessions(stores, before) ==
  deleteSessions(stores, {id \in SessionId : /\ stores.sessions[id] # None
                                             /\ stores.sessions[id].expiresAt <= before})

-----------------------------------------------------------------------------
(* Tokens: each write is TokenStore's.                                     *)

Changed(before, after) == Cardinality({hash \in Hash : before[hash] # after[hash]})

Tokens(stores, tokens) == [stores EXCEPT !.tokens = tokens]

(* A write of several tokens answers how many it changed.                  *)
Counted(stores, tokens) == Reply(Tokens(stores, tokens), Changed(stores.tokens, tokens))

UnspentOf(stores, userId, kind, except) ==
  {hash \in Hash \ except : /\ Unspent(stores.tokens[hash])
                            /\ stores.tokens[hash].userId = userId
                            /\ stores.tokens[hash].kind = kind}

TokensOf(stores, userId) ==
  {hash \in Hash : stores.tokens[hash] # None /\ stores.tokens[hash].userId = userId}

-----------------------------------------------------------------------------
(* One call of a method, its arguments in the port's order.                *)
Call(method, args) == [method |-> method, args |-> args]

Apply(stores, call) ==
  LET a == call.args
      tokens == stores.tokens
  IN  CASE call.method = "insertUser"      -> insertUser(stores, a[1])
        [] call.method = "findUser"        -> findUser(stores, a[1])
        [] call.method = "findUsers"       -> findUsers(stores, a[1])
        [] call.method = "findUserByLogin" -> findUserByLogin(stores, a[1], a[2])
        [] call.method = "listUsers"       -> listUsers(stores, a[1], a[2], a[3])
        [] call.method = "updateUser"      -> updateUser(stores, a[1], a[2], a[3])
        [] call.method = "deleteUser"      -> deleteUser(stores, a[1])
        [] call.method = "insertSession"   -> insertSession(stores, a[1], a[2])
        [] call.method = "findSessionByTokenHash" -> findSession(stores, a[1])
        [] call.method = "extendSession"   -> extendSession(stores, a[1], a[2])
        [] call.method = "reauthenticateSession"  -> reauthenticateSession(stores, a[1], a[2])
        [] call.method = "revokeSession"   -> revokeSession(stores, a[1], a[2])
        [] call.method = "revokeUserSessions"     -> revokeUserSessions(stores, a[1], a[2], a[3])
        [] call.method = "deleteUserSessions"     -> deleteUserSessions(stores, a[1])
        [] call.method = "deleteExpiredSessions"  -> deleteExpiredSessions(stores, a[1])
        [] call.method = "insertToken"  -> Reply(Tokens(stores, insertToken(tokens, a[1], a[2])), None)
        [] call.method = "consumeToken" ->
             Reply(Tokens(stores, consumeToken(tokens, a[1], a[2], a[3])), Answer(tokens, a[1], a[2]))
        [] call.method = "countAttempt" ->
             LET counted == countAttempt(tokens, a[1], a[2])
             IN  Reply(Tokens(stores, counted), Answer(counted, a[1], a[2]))
        [] call.method = "spendUserTokens"  ->
             Counted(stores, spendUserTokens(tokens, a[1], a[2], a[3], a[4]))
        [] call.method = "deleteUserTokens" -> Counted(stores, deleteUserTokens(tokens, a[1]))
        [] call.method = "deleteExpiredTokens" -> Counted(stores, deleteExpiredTokens(tokens, a[1]))
=============================================================================
