----------------------------- MODULE StoreAdapters -----------------------------
(***************************************************************************)
(* The stores of the four adapters, statement by statement: memory and     *)
(* Redis, whose methods are one step each (a synchronous function, a       *)
(* script), PostgreSQL through Drizzle (janus-drizzle/src/stores), where a *)
(* user is written in one transaction with their logins and a write of     *)
(* several rows locks them one by one, and MongoDB (janus-mongo/src/       *)
(* stores), where a write of several documents writes them one by one and  *)
(* a lapsed one may be dropped at any moment.                              *)
(*                                                                         *)
(* Calls run at once.  What each adapter keeps is not the port's record    *)
(* but a row, a document or a hash: Seen is what the port reads back.      *)
(***************************************************************************)
EXTENDS StorePort

CONSTANTS
  Empty,        \* '' in a Redis hash: null
  Rank,         \* the order of the logins, by their bytes
  TypeRank,     \* the order of the types of entities
  Now           \* the database's clock

VARIABLES
  backend,   \* "memory", "redis", "drizzle" or "mongo"
  kept,      \* what it holds
  calls,     \* the calls made at once, each at one of its statements
  fails      \* the method the database fails, or "nothing"

adapterVars == <<backend, kept, calls, fails>>

(* The Redis scripts test '' where the other stores test null.             *)
Scripts == INSTANCE StorePort WITH None <- Empty

(* The other two ports, whose methods are one step in each adapter.        *)
Tuples == INSTANCE RelationPort
Deliveries == INSTANCE QueuePort

NoTx == [row |-> None, dropped |-> {}, claimed |-> {}, taken |-> {}, left |-> {},
         rows |-> <<>>, locked |-> {}]

Fresh(call) == [call |-> call, at |-> "called", tx |-> NoTx, count |-> 0, answer |-> None]

Done(c, answer) == [Fresh(c.call) EXCEPT !.at = "done", !.answer = answer]

Method(i) == calls[i].call.method
Arg(i, n) == calls[i].call.args[n]
At(i, statement) == calls[i].at = statement

Goes(i, c) == calls' = [calls EXCEPT ![i] = c]
Moves(i, statement) == Goes(i, [calls[i] EXCEPT !.at = statement])
Answers(i, answer) == Goes(i, Done(calls[i], answer))
Keeps(stores) == kept' = stores

-----------------------------------------------------------------------------
(* What a statement throws, made one of the port's errors by what every    *)
(* method runs in: run() of Drizzle and MongoDB, scriptsOver() of Redis.   *)
(* The transaction it was in is rolled back; what MongoDB has written of   *)
(* several documents stays.                                                *)

DriverError  == [code |-> "DRIVER", about |-> <<>>]
DuplicateKey == [code |-> "DUPLICATE_KEY", about |-> <<>>]   \* on an index not collided on on purpose

JanusErrors == {"LOGIN_TAKEN", "VERSION_CONFLICT", "NOT_FOUND"}

(* Mutant: a driver's error is what is not there.                          *)
RunToAbsence(error) == IF error.code \in JanusErrors THEN error ELSE None

run(error) == IF error.code \in JanusErrors THEN error ELSE Failure

Throws(i, error) == Answers(i, run(error))

-----------------------------------------------------------------------------
(* Rows and records (janus-drizzle stores/records.ts).                     *)

Shared == {"id", "type", "schemaVersion", "active", "fields", "logins",
           "emailVerifiedAt", "version", "updatedAt"}

(* No factor and no codes are null columns.                                *)
toSecondFactorColumns(factor) ==
  LET codes == IF factor = None THEN <<>> ELSE factor.recoveryCodes
  IN  (IF factor = None
         THEN [secondFactorMethod |-> None, secondFactorSecret |-> None,
               secondFactorConfirmedAt |-> None, secondFactorLastStep |-> None]
         ELSE [secondFactorMethod |-> factor.method, secondFactorSecret |-> factor.secret,
               secondFactorConfirmedAt |-> factor.confirmedAt,
               secondFactorLastStep |-> factor.lastStep])
      @@ [secondFactorRecoveryCodes |-> IF codes = <<>> THEN None ELSE codes]

toAvatarColumns(avatar) ==
  IF avatar = None THEN [avatarId |-> None, avatarUpdatedAt |-> None]
  ELSE [avatarId |-> avatar.id, avatarUpdatedAt |-> avatar.updatedAt]

(* The columns that what is named sets: of a whole record, a row.          *)
toUserSet(named) ==
  LET has(field) == field \in DOMAIN named
  IN  [field \in Shared \cap DOMAIN named |-> named[field]]
      @@ (IF has("password") THEN [passwordHash |-> named.password] ELSE <<>>)
      @@ (IF has("secondFactor") THEN toSecondFactorColumns(named.secondFactor) ELSE <<>>)
      @@ (IF has("avatar") THEN toAvatarColumns(named.avatar) ELSE <<>>)

toUser(row) ==
  IF row = None THEN None
  ELSE [field \in Shared |-> row[field]]
       @@ [password |-> row.passwordHash,
           secondFactor |->
             IF row.secondFactorMethod = None THEN None
             ELSE [method |-> row.secondFactorMethod, secret |-> row.secondFactorSecret,
                   confirmedAt |-> row.secondFactorConfirmedAt,
                   lastStep |-> row.secondFactorLastStep,
                   recoveryCodes |-> IF row.secondFactorRecoveryCodes = None THEN <<>>
                                     ELSE row.secondFactorRecoveryCodes],
           avatar |-> IF row.avatarId = None THEN None
                      ELSE [id |-> row.avatarId, updatedAt |-> row.avatarUpdatedAt]]

(* A document leaves a null avatar out (janus-mongo stores/records.ts).    *)
toUserDocument(record) ==
  [field \in DOMAIN record \ (IF record.avatar = None THEN {"avatar"} ELSE {}) |-> record[field]]

fromUserDocument(document) ==
  IF document = None THEN None ELSE document @@ [avatar |-> None]

(* A hash holds '' for null, but an address is what it is (replies.ts).    *)
toHash(record) ==
  [field \in DOMAIN record |-> IF record[field] = None THEN Empty ELSE record[field]]

fromHash(hash) ==
  IF hash = Empty THEN None
  ELSE [field \in DOMAIN hash |-> IF hash[field] = Empty THEN None ELSE hash[field]]

(* A document's logins are in its unique index.                            *)
IndexOf(documents) ==
  [key \in Key |->
     LET holders == {id \in UserId : /\ documents[id] # None
                                     /\ key \in KeysOf(documents[id].type, documents[id].logins)}
     IN  IF holders = {} THEN None ELSE CHOOSE id \in holders : TRUE]

Seen(b, stores) ==
  CASE b = "memory" -> stores
    [] b = "drizzle" -> [stores EXCEPT !.users = [id \in UserId |-> toUser(@[id])]]
    [] b = "mongo" -> [stores EXCEPT !.users = [id \in UserId |-> fromUserDocument(@[id])],
                                     !.logins = IndexOf(stores.users)]
    [] b = "redis" -> [stores EXCEPT !.sessions = [id \in SessionId |-> fromHash(@[id])],
                                     !.tokens = [hash \in Hash |-> fromHash(@[hash])]]

(* Before anything is written.                                             *)
Opened(b) ==
  IF b = "redis" THEN [Scripts!EmptyStores EXCEPT !.users = EmptyStores.users,
                                                  !.logins = EmptyStores.logins]
  ELSE EmptyStores

-----------------------------------------------------------------------------
(* One statement, one script, one synchronous function.                    *)

UserReads == {"findUser", "findUsers", "findUserByLogin", "listUsers"}
UserMethods == UserReads \cup {"insertUser", "updateUser", "deleteUser"}

Inserting == {"insertSession", "insertToken"}

(* A hash whose expiry is past is gone as soon as it is written, and void  *)
(* and absent answers are null; a user is the memory store's.              *)
ByScript(stores, call) ==
  IF call.method \in UserMethods THEN Apply(stores, call)
  ELSE IF call.method \in Inserting
    THEN LET inserted == Scripts!Call(call.method, <<call.args[1], toHash(call.args[2])>>)
         IN  Reply(IF call.args[2].expiresAt <= Now THEN stores
                   ELSE Scripts!Apply(stores, inserted).stores, None)
  ELSE LET result  == Scripts!Apply(stores, call)
           reads   == {"findSessionByTokenHash", "extendSession", "reauthenticateSession",
                       "consumeToken", "countAttempt"}
       IN  Reply(result.stores,
                 IF call.method \in reads THEN fromHash(result.answer) ELSE result.answer)

(* What another statement of the call may follow, or another call's        *)
(* transaction hold up.                                                    *)
MANY == {"spendUserTokens", "deleteUserTokens", "revokeUserSessions", "deleteUserSessions"}

Several ==
  CASE backend = "drizzle" -> {"insertUser", "updateUser", "deleteUser", "countAttempt",
                               "deleteExpiredSessions", "deleteExpiredTokens"} \cup MANY
    [] backend = "mongo" -> {"insertUser", "updateUser", "deleteUser", "countAttempt",
                             "insertSession"} \cup MANY
    [] OTHER -> {}

Healthy(i) == Method(i) # fails

Stepped(call) ==
  LET asked == Tuples!Ask(backend, kept.tuples, call)
      ran   == Deliveries!Run(backend, kept.deliveries, call)
  IN  CASE call.method \in Tuples!RelationMethods ->
             Reply([kept EXCEPT !.tuples = asked.tuples], asked.answer)
        [] call.method \in Deliveries!QueueMethods ->
             Reply([kept EXCEPT !.deliveries = ran.queue], ran.answer)
        [] backend = "redis" -> ByScript(kept, call)
        [] call.method \in UserReads /\ backend # "memory" ->
             Reply(kept, Apply(Seen(backend, kept), call).answer)
        [] OTHER -> Apply(kept, call)

-----------------------------------------------------------------------------
(* PostgreSQL: a user's transaction.                                       *)

Tx(i) == calls[i].tx

(* The other calls whose open transaction has written the user, or written *)
(* or deleted the login: PostgreSQL makes whoever meets either wait.       *)
HoldersOfRow(i, id) ==
  {j \in DOMAIN calls \ {i} : Tx(j).row # None /\ Tx(j).row.id = id}

HoldersOfKey(i, key) ==
  {j \in DOMAIN calls \ {i} : key \in Tx(j).dropped \cup Tx(j).claimed}

(* Those that have locked a row of sessions or tokens, until they commit.  *)
HoldersOfDocument(i, d) == {j \in DOMAIN calls \ {i} : d \in Tx(j).locked}

(* The one session or token a method writes: what its where matches, or an *)
(* insert that meets the same key.                                         *)
Meets(i, d) ==
  CASE Method(i) \in {"insertSession", "insertToken", "revokeSession"} -> d = Arg(i, 1)
    [] Method(i) \in {"extendSession", "reauthenticateSession"} ->
         d = Arg(i, 1) /\ Standing(kept, d)
    [] Method(i) = "consumeToken" -> d = Arg(i, 1) /\ Answer(kept.tokens, d, Arg(i, 2)) # None
    [] Method(i) = "countAttempt" -> d = Arg(i, 1) /\ Unspent(Answer(kept.tokens, d, Arg(i, 2)))
    [] OTHER -> FALSE

UserOf(i) == IF Method(i) = "insertUser" THEN Arg(i, 1).id ELSE Arg(i, 1)

(* Sorted: of the logins left to claim, the first.                         *)
NextLogin(i, keys) ==
  CHOOSE key \in keys : \A other \in keys : Rank[key[2]] <= Rank[other[2]]

(* Whom the call waits for, at its next statement.  A row not committed    *)
(* yet is not there for an update or a deletion.                           *)
WaitsFor(i) ==
  CASE At(i, "called") /\ Method(i) = "insertUser" -> HoldersOfRow(i, UserOf(i))
    [] At(i, "called") /\ Method(i) \in {"updateUser", "deleteUser"} ->
         IF kept.users[UserOf(i)] = None THEN {} ELSE HoldersOfRow(i, UserOf(i))
    [] At(i, "claiming") /\ Tx(i).left # {} -> HoldersOfKey(i, NextLogin(i, Tx(i).left))
    [] At(i, "locking") /\ Tx(i).rows # <<>> -> HoldersOfDocument(i, Head(Tx(i).rows))
    [] At(i, "called") /\ backend = "drizzle" ->
         UNION {HoldersOfDocument(i, d) : d \in {e \in SessionId \cup Hash : Meets(i, e)}}
    [] OTHER -> {}

Clear(i) == WaitsFor(i) = {}

OneStep(i) ==
  /\ At(i, "called") /\ Healthy(i) /\ Method(i) \notin Several /\ Clear(i)
  /\ LET result == Stepped(calls[i].call)
     IN  Keeps(result.stores) /\ Answers(i, result.answer)

(* The database may break at any statement, and has before the answer.     *)
Breaks(i) ==
  /\ ~At(i, "done") /\ ~Healthy(i)
  /\ Throws(i, DriverError)
  /\ UNCHANGED kept

Begins(i, row, statement, left) ==
  Goes(i, [calls[i] EXCEPT !.at = statement, !.tx.row = row, !.tx.left = left])

(* on conflict (id) do nothing: a user who is there is read after it.      *)
InsertRow(i) ==
  /\ backend = "drizzle" /\ Method(i) = "insertUser"
  /\ At(i, "called") /\ Clear(i)
  /\ LET record == Arg(i, 1)
     IN  IF kept.users[record.id] # None THEN Moves(i, "rereading")
         ELSE Begins(i, toUserSet(record), "claiming", KeysOf(record.type, record.logins))
  /\ UNCHANGED kept

matches(row, ifVersion) == row # None /\ row.version = ifVersion

(* update ... where id and version, under the row's lock.                  *)
UpdateRow(i) ==
  /\ backend = "drizzle" /\ Method(i) = "updateUser"
  /\ At(i, "called") /\ Clear(i)
  /\ LET row     == kept.users[Arg(i, 1)]
         patch   == Arg(i, 2)
         written == toUserSet(patch) @@ [version |-> row.version + 1] @@ row
     IN  IF ~matches(row, Arg(i, 3)) THEN Moves(i, "rereading")
         ELSE Begins(i, written,
                     IF "logins" \in DOMAIN patch THEN "dropping" ELSE "claiming", {})
  /\ UNCHANGED kept

DropLogins(i) ==
  /\ At(i, "dropping")
  /\ LET row == Tx(i).row
     IN  Goes(i, [calls[i] EXCEPT
                    !.at = "claiming",
                    !.tx.dropped = {key \in Key : kept.logins[key] = row.id},
                    !.tx.left = KeysOf(row.type, row.logins)])
  /\ UNCHANGED kept

(* on conflict do nothing: a login it did not write is somebody else's.    *)
ClaimLogin(i) ==
  /\ At(i, "claiming") /\ Tx(i).left # {} /\ Clear(i)
  /\ LET key  == NextLogin(i, Tx(i).left)
         free == kept.logins[key] = None \/ key \in Tx(i).dropped
         tx   == [Tx(i) EXCEPT !.left = @ \ {key}]
     IN  Goes(i, [calls[i] EXCEPT
                    !.tx = IF free THEN [tx EXCEPT !.claimed = @ \cup {key}]
                                   ELSE [tx EXCEPT !.taken = @ \cup {key}]])
  /\ UNCHANGED kept

RefuseTaken(i) ==
  /\ At(i, "claiming") /\ Healthy(i) /\ Tx(i).left = {} /\ Tx(i).taken # {}
  /\ Throws(i, LoginTaken(NextLogin(i, Tx(i).taken)[2]))
  /\ UNCHANGED kept

CommitUser(i) ==
  /\ At(i, "claiming") /\ Healthy(i) /\ Tx(i).left = {} /\ Tx(i).taken = {}
  /\ LET row == Tx(i).row
     IN  /\ Keeps([kept EXCEPT
                     !.users[row.id] = row,
                     !.logins = IndexKeys(IndexKeys(@, Tx(i).dropped, None), Tx(i).claimed, row.id)])
         /\ Answers(i, toUser(row))

(* An id that wrote nothing: of a retry the user who is there, of an       *)
(* update the version that moved.  Read after the write, by a statement of *)
(* its own.                                                                *)
Reread(i) ==
  /\ At(i, "rereading") /\ Healthy(i)
  /\ LET stored == Seen(backend, kept).users[UserOf(i)]
         taken  == Tx(i).taken
     IN  IF stored # None
           THEN IF Method(i) = "insertUser" THEN Answers(i, stored)
                ELSE Throws(i, VersionConflict(Arg(i, 3), stored.version))
         ELSE IF backend = "mongo" /\ Method(i) = "insertUser"
           THEN Throws(i, IF taken = {} THEN DuplicateKey ELSE LoginTaken(NextLogin(i, taken)[2]))
         ELSE Throws(i, NotFound)
  /\ UNCHANGED kept

(* The logins go with the user: their foreign key cascades, and a          *)
(* document holds its own.                                                 *)
DeleteUser(i) ==
  /\ backend \in {"drizzle", "mongo"} /\ Method(i) = "deleteUser" /\ Healthy(i)
  /\ At(i, "called") /\ Clear(i)
  /\ LET id == Arg(i, 1)
     IN  /\ Keeps([kept EXCEPT
                     !.users[id] = None,
                     !.logins = IndexKeys(@, {key \in Key : @[key] = id}, None)])
         /\ Answers(i, kept.users[id] # None)

-----------------------------------------------------------------------------
(* PostgreSQL: an update or a deletion of several rows (read committed).   *)

InMany(i) == Method(i) \in MANY \cup {"deleteExpiredSessions", "deleteExpiredTokens"}

(* What a write of several rows or documents matches now.                  *)
Matching(i) ==
  CASE Method(i) = "spendUserTokens"    -> UnspentOf(kept, Arg(i, 1), Arg(i, 2), Arg(i, 4))
    [] Method(i) = "deleteUserTokens"   -> TokensOf(kept, Arg(i, 1))
    [] Method(i) = "revokeUserSessions" -> StandingOf(kept, Arg(i, 1), Arg(i, 3))
    [] Method(i) = "deleteUserSessions" -> SessionsOf(kept, Arg(i, 1))
    [] Method(i) = "deleteExpiredSessions" ->
         {d \in SessionId : kept.sessions[d] # None /\ kept.sessions[d].expiresAt <= Arg(i, 1)}
    [] Method(i) = "deleteExpiredTokens" ->
         {d \in Hash : kept.tokens[d] # None /\ kept.tokens[d].expiresAt <= Arg(i, 1)}

OneWritten(i, stores, d) ==
  CASE Method(i) = "spendUserTokens"    -> [stores EXCEPT !.tokens[d].spentAt = Arg(i, 3)]
    [] Method(i) = "revokeUserSessions" -> [stores EXCEPT !.sessions[d].revokedAt = Arg(i, 2)]
    [] Method(i) \in {"deleteUserTokens", "deleteExpiredTokens"} -> [stores EXCEPT !.tokens[d] = None]
    [] OTHER -> [stores EXCEPT !.sessions[d] = None]

(* Mutant: what matched when it began is written, whatever it is now.      *)
StillMatches(i, d) == TRUE

(* Each is matched again as it is written, or its lock is taken.           *)
MatchesNow(i, d) == d \in Matching(i)

(* The rows that match as it begins, in the order the scan meets them.     *)
BeginRows(i) ==
  /\ backend = "drizzle" /\ InMany(i) /\ At(i, "called")
  /\ \E rows \in SetToSeqs(Matching(i)) :
       Goes(i, [calls[i] EXCEPT !.at = "locking", !.tx.rows = rows])
  /\ UNCHANGED kept

(* Each is written under its lock; who waits for it checks it again.       *)
LockNext(i) ==
  /\ At(i, "locking") /\ Tx(i).rows # <<>> /\ Clear(i)
  /\ LET d == Head(Tx(i).rows)
     IN  Goes(i, [calls[i] EXCEPT
                    !.tx.rows = Tail(@),
                    !.tx.locked = IF MatchesNow(i, d) THEN @ \cup {d} ELSE @])
  /\ UNCHANGED kept

CommitRows(i) ==
  /\ At(i, "locking") /\ Healthy(i) /\ Tx(i).rows = <<>>
  /\ Keeps(FoldSet(LAMBDA d, stores : OneWritten(i, stores, d), kept, Tx(i).locked))
  /\ Answers(i, Cardinality(Tx(i).locked))

(* Everyone in a cycle of waits waits on: PostgreSQL ends one of them.     *)
InCycle(i) ==
  \E S \in SUBSET DOMAIN calls :
    i \in S /\ \A j \in S : WaitsFor(j) \cap S # {} /\ \E k \in S : j \in WaitsFor(k)

DeadlockEnds(i) ==
  /\ backend = "drizzle" /\ InCycle(i)
  /\ Throws(i, DriverError)
  /\ UNCHANGED kept

-----------------------------------------------------------------------------
(* MongoDB: one document at a time.                                        *)

(* Another user's logins among these, by the unique index.                 *)
HeldLogins(type, logins, id) ==
  {key \in KeysOf(type, logins) : IndexOf(kept.users)[key] \notin {None, id}}

(* insertOne: a duplicate, of the id or of a login, is read after it.      *)
InsertOne(i) ==
  /\ backend = "mongo" /\ Method(i) = "insertUser" /\ At(i, "called")
  /\ LET record == Arg(i, 1)
         known  == kept.users[record.id] # None
         taken  == IF known THEN {} ELSE HeldLogins(record.type, record.logins, record.id)
     IN  IF known \/ taken # {}
           THEN /\ Goes(i, [calls[i] EXCEPT !.at = "rereading", !.tx.taken = taken])
                /\ UNCHANGED kept
           ELSE /\ Healthy(i)
                /\ Keeps([kept EXCEPT !.users[record.id] = toUserDocument(record)])
                /\ Answers(i, record)

FindOneAndUpdate(i) ==
  /\ backend = "mongo" /\ Method(i) = "updateUser" /\ At(i, "called")
  /\ LET id      == Arg(i, 1)
         patch   == Arg(i, 2)
         stored  == kept.users[id]
         written == patch @@ [version |-> stored.version + 1] @@ stored
         taken   == IF "logins" \in DOMAIN patch
                      THEN HeldLogins(stored.type, patch.logins, id) ELSE {}
     IN  IF ~matches(stored, Arg(i, 3)) THEN Moves(i, "rereading") /\ UNCHANGED kept
         ELSE IF taken # {}
           THEN Healthy(i) /\ Throws(i, LoginTaken(NextLogin(i, taken)[2])) /\ UNCHANGED kept
         ELSE /\ Healthy(i)
              /\ Keeps([kept EXCEPT !.users[id] = written])
              /\ Answers(i, fromUserDocument(written))

(* A session that is there is a retry's; the duplicate is read after it.   *)
InsertSession(i) ==
  /\ backend = "mongo" /\ Method(i) = "insertSession" /\ At(i, "called")
  /\ IF kept.sessions[Arg(i, 1)] = None
       THEN Healthy(i) /\ Keeps(Apply(kept, calls[i].call).stores) /\ Answers(i, None)
       ELSE Moves(i, "rereading session") /\ UNCHANGED kept

RereadSession(i) ==
  /\ At(i, "rereading session") /\ Healthy(i)
  /\ IF kept.sessions[Arg(i, 1)] = None THEN Throws(i, DuplicateKey) ELSE Answers(i, None)
  /\ UNCHANGED kept

BeginMany(i) ==
  /\ backend = "mongo" /\ Method(i) \in MANY /\ At(i, "called")
  /\ Goes(i, [calls[i] EXCEPT !.at = "writing", !.tx.left = Matching(i)])
  /\ UNCHANGED kept

WriteNext(i) ==
  /\ At(i, "writing")
  /\ \E d \in Tx(i).left :
       LET moved == [calls[i] EXCEPT !.tx.left = @ \ {d}]
       IN  IF MatchesNow(i, d)
             THEN Keeps(OneWritten(i, kept, d)) /\ Goes(i, [moved EXCEPT !.count = @ + 1])
             ELSE Goes(i, moved) /\ UNCHANGED kept

EndMany(i) ==
  /\ At(i, "writing") /\ Healthy(i) /\ Tx(i).left = {}
  /\ Answers(i, calls[i].count)
  /\ UNCHANGED kept

-----------------------------------------------------------------------------
(* An attempt is one conditional write in both; a token it does not match, *)
(* spent or not there, is read after it.                                   *)
CountAttempt(i) ==
  /\ backend \in {"drizzle", "mongo"} /\ Method(i) = "countAttempt"
  /\ At(i, "called") /\ Clear(i)
  /\ IF Unspent(Answer(kept.tokens, Arg(i, 1), Arg(i, 2)))
       THEN LET result == Apply(kept, calls[i].call)
            IN  Healthy(i) /\ Keeps(result.stores) /\ Answers(i, result.answer)
       ELSE Moves(i, "reading token") /\ UNCHANGED kept

ReadToken(i) ==
  /\ At(i, "reading token") /\ Healthy(i)
  /\ Answers(i, Answer(kept.tokens, Arg(i, 1), Arg(i, 2)))
  /\ UNCHANGED kept

(* The TTL monitor drops a lapsed session or token when it comes to it.    *)
LapsedSessions == {id \in SessionId : kept.sessions[id] # None /\ kept.sessions[id].expiresAt <= Now}
LapsedTokens   == {hash \in Hash : kept.tokens[hash] # None /\ kept.tokens[hash].expiresAt <= Now}

MonitorDrops ==
  /\ backend = "mongo"
  /\ \/ \E id \in LapsedSessions : Keeps([kept EXCEPT !.sessions[id] = None])
     \/ \E hash \in LapsedTokens : Keeps([kept EXCEPT !.tokens[hash] = None])
  /\ UNCHANGED calls

Statement(i) ==
  \/ OneStep(i) \/ Breaks(i)
  \/ InsertRow(i) \/ UpdateRow(i) \/ DropLogins(i) \/ ClaimLogin(i)
  \/ RefuseTaken(i) \/ CommitUser(i) \/ Reread(i) \/ DeleteUser(i) \/ DeadlockEnds(i)
  \/ BeginRows(i) \/ LockNext(i) \/ CommitRows(i)
  \/ InsertOne(i) \/ FindOneAndUpdate(i) \/ InsertSession(i) \/ RereadSession(i)
  \/ BeginMany(i) \/ WriteNext(i) \/ EndMany(i) \/ CountAttempt(i) \/ ReadToken(i)

AllDone == \A i \in DOMAIN calls : At(i, "done")
=============================================================================
