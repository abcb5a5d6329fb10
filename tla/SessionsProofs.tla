--------------------------- MODULE SessionsProofs ---------------------------
(***************************************************************************)
(* What holds of Sessions for any users, sessions, calls and clocks: its   *)
(* records keep their shape; in Redis the set of a user's sessions names   *)
(* every session there is until the last of them lapses; what ended a      *)
(* session has ended it for good; a step-up's challenge and code stamp one *)
(* session; and a deletion leaves nothing.  There is one inductive         *)
(* invariant for the records and the sets (IInv), and beside it one for    *)
(* each of the last three (OutInv, StampInv, LeftInv).                     *)
(*                                                                         *)
(* SessionsListed alone is not inductive: a set is dropped when Redis's    *)
(* clock passes its expiry, so no session may be left that has lapsed by   *)
(* that clock (KeysAhead); and a call that has begun names a session, or a *)
(* challenge that was issued (Chosen).                                     *)
(***************************************************************************)
EXTENDS Sessions, TLAPS

-----------------------------------------------------------------------------
(* The methods of the token store.                                         *)

(* consumeToken keeps the store a store, and every record evolves.         *)
LEMMA ConsumeEvolves ==
  ASSUME NEW store \in Store, NEW hash \in Hash, NEW kind, NEW at \in Nat
  PROVE  /\ consumeToken(store, hash, kind, at) \in Store
         /\ \A h \in Hash : Evolved(store[h], consumeToken(store, hash, kind, at)[h])
  BY TokenStoreAssumption
  DEF consumeToken, Answer, Unspent, Evolved, Store, TokenRecord

(* countAttempt keeps the store a store, and every record evolves.         *)
LEMMA CountEvolves ==
  ASSUME NEW store \in Store, NEW hash \in Hash, NEW kind
  PROVE  /\ countAttempt(store, hash, kind) \in Store
         /\ \A h \in Hash : Evolved(store[h], countAttempt(store, hash, kind)[h])
  BY TokenStoreAssumption
  DEF countAttempt, Answer, Unspent, Evolved, Store, TokenRecord

(* spendUserTokens keeps the store a store, and every record evolves.      *)
LEMMA SpendUserEvolves ==
  ASSUME NEW store \in Store, NEW userId, NEW kind, NEW at \in Nat, NEW except
  PROVE  /\ spendUserTokens(store, userId, kind, at, except) \in Store
         /\ \A h \in Hash :
              Evolved(store[h], spendUserTokens(store, userId, kind, at, except)[h])
  BY TokenStoreAssumption
  DEF spendUserTokens, Unspent, Evolved, Store, TokenRecord

(* Both deletions keep the store a store, and every record evolves.        *)
LEMMA DeleteEvolves ==
  ASSUME NEW store \in Store, NEW userId, NEW before
  PROVE  /\ deleteUserTokens(store, userId) \in Store
         /\ \A h \in Hash : Evolved(store[h], deleteUserTokens(store, userId)[h])
         /\ deleteExpiredTokens(store, before) \in Store
         /\ \A h \in Hash : Evolved(store[h], deleteExpiredTokens(store, before)[h])
  BY TokenStoreAssumption
  DEF deleteUserTokens, deleteExpiredTokens, Evolved, Store, TokenRecord

(* insertToken changes nothing but the hash it was given, and only when    *)
(* nothing was stored there.                                               *)
LEMMA InsertKeepsOthers ==
  ASSUME NEW store \in Store, NEW hash \in Hash, NEW record \in TokenRecord
  PROVE  /\ insertToken(store, hash, record) \in Store
         /\ \A h \in Hash \ {hash} : insertToken(store, hash, record)[h] = store[h]
         /\ insertToken(store, hash, record)[hash] =
              IF store[hash] = None THEN record ELSE store[hash]
  BY DEF insertToken, Store

-----------------------------------------------------------------------------
(* The inductive invariant.                                                *)

KeysAhead == scene.redis => \A s \in Live(sessions) : sessions[s].expiresAt > keyClock

Chosen ==
  /\ \A a \in Auth : call[a].pc # "idle" => call[a].session \in Session
  /\ \A c \in Confirm : call[c].pc # "idle" => call[c].challenge \in Request
  /\ \A r \in Request : call[r].pc # "idle" => call[r].user \in UserRecord

SessionsTyped ==
  /\ keyClock \in Nat
  /\ sessions \in Sessions
  /\ sessionSet \in [UserId -> KeySet(Session)]

SessionsKept == SessionsTyped /\ SessionsListed /\ KeysAhead

TokensTyped == tokens \in Store /\ tokenSet \in [UserId -> KeySet(Request)]

CallsTyped == call \in [Call -> CallRecord] /\ Chosen

RestTyped ==
  /\ scene \in SceneRecord
  /\ clock \in Nat
  /\ users \in [UserId -> UserRecord]
  /\ tuples \subseteq UserId
  /\ told \in [UserId -> Nat]
  /\ out \subseteq Session

IInv == SessionsKept /\ TokensTyped /\ CallsTyped /\ RestTyped

-----------------------------------------------------------------------------
(* Sets of keys.                                                           *)

(* Whatever a script does to a set leaves it a set with an expiry, or none.*)
LEMMA SetsKept ==
  ASSUME NEW M, NEW set \in KeySet(M), NEW live, NEW m \in M,
         NEW at \in Nat \ {0}, NEW now \in Nat
  PROVE  /\ NoKey \in KeySet(M)
         /\ Prune(set, live) \in KeySet(M)
         /\ ExtendSet(set, at) \in KeySet(M)
         /\ AddMember(set, m, at) \in KeySet(M)
         /\ Expired(set, now) \in KeySet(M)
<1>1. NoKey \in KeySet(M)
  BY DEF NoKey, KeySet, NoExpiry
<1>2. Prune(set, live) \in KeySet(M)
  BY <1>1 DEF Prune, Keeping, KeySet, NoExpiry
<1>3. ExtendSet(set, at) \in KeySet(M)
  BY DEF ExtendSet, KeySet, NoKey, NoExpiry
<1>4. AddMember(set, m, at) \in KeySet(M)
  <2> DEFINE grown == [set EXCEPT !.members = @ \cup {m}]
  <2>1. grown \in [members : SUBSET M, until : Nat] /\ grown.members # {}
    BY DEF KeySet
  <2> HIDE DEF grown
  <2>2. ExtendSet(grown, at) \in KeySet(M)
    BY <2>1 DEF ExtendSet, KeySet, NoKey, NoExpiry
  <2> QED  BY <2>2 DEF AddMember, grown
<1>5. Expired(set, now) \in KeySet(M)
  BY <1>1 DEF Expired
<1> QED  BY <1>1, <1>2, <1>3, <1>4, <1>5

(* So does pruning, whatever is there still.                              *)
LEMMA PruneKept ==
  ASSUME NEW M, NEW set \in KeySet(M), NEW live
  PROVE  Prune(set, live) \in KeySet(M)
  BY DEF Prune, Keeping, KeySet, NoKey, NoExpiry

(* Pruning keeps the members that are there, and their set's expiry.       *)
LEMMA PruneKeeps ==
  ASSUME NEW M, NEW set \in KeySet(M), NEW live, NEW m \in set.members \cap live
  PROVE  m \in Prune(set, live).members /\ Prune(set, live).until = set.until
  BY DEF Prune, Keeping, KeySet

(* An expiry only moves later.                                             *)
LEMMA ExtendKeeps ==
  ASSUME NEW M, NEW set \in KeySet(M), NEW at \in Nat \ {0}, set.members # {}
  PROVE  /\ ExtendSet(set, at).members = set.members
         /\ ExtendSet(set, at).until >= set.until
         /\ ExtendSet(set, at).until >= at
  BY DEF ExtendSet, KeySet, NoKey, NoExpiry

(* A member added is covered by the expiry it came with.                   *)
LEMMA AddKeeps ==
  ASSUME NEW M, NEW set \in KeySet(M), NEW m \in M, NEW at \in Nat \ {0}
  PROVE  /\ AddMember(set, m, at).members = set.members \cup {m}
         /\ AddMember(set, m, at).until >= set.until
         /\ AddMember(set, m, at).until >= at
  BY DEF AddMember, ExtendSet, KeySet, NoKey, NoExpiry

(* A set is there until its expiry.                                        *)
LEMMA ExpiredKeeps ==
  ASSUME NEW M, NEW set \in KeySet(M), NEW now \in Nat, set.until > now
  PROVE  Expired(set, now) = set
  BY DEF Expired, KeySet

-----------------------------------------------------------------------------
(* The session store.                                                      *)

(* Nothing is written on a session but what keeps its user, and in Redis   *)
(* no expiry moves ahead of the set's: then the sets name what is left.    *)
LEMMA FewerListed ==
  ASSUME SessionsTyped, SessionsListed, KeysAhead, SessionsTyped',
         scene'.redis = scene.redis, UNCHANGED keyClock,
         NEW u,
         \A v \in UserId \ {u} : sessionSet'[v] = sessionSet[v],
         \A s \in Live(sessions') :
           /\ s \in Live(sessions)
           /\ sessions'[s].userId = sessions[s].userId
           /\ sessions'[s].expiresAt = sessions[s].expiresAt,
         scene.redis =>
           \A s \in Live(sessions') :
             sessions[s].userId = u =>
               s \in sessionSet'[u].members /\ sessionSet'[u].until >= sessionSet[u].until
  PROVE  SessionsListed' /\ KeysAhead'
<1>1. ASSUME scene.redis, NEW s \in Live(sessions')
      PROVE  LET set == sessionSet'[sessions'[s].userId]
             IN  s \in set.members /\ set.until >= sessions'[s].expiresAt
  <2>1. /\ sessions[s] \in SessionRecord
        /\ sessions[s].userId \in UserId
        /\ sessions[s].expiresAt \in Nat
    BY <1>1 DEF Live, SessionsTyped, Sessions, SessionRecord
  <2>2. /\ s \in sessionSet[sessions[s].userId].members
        /\ sessionSet[sessions[s].userId].until >= sessions[s].expiresAt
    BY <1>1 DEF SessionsListed
  <2>3. /\ sessionSet[sessions[s].userId].until \in Nat
        /\ sessionSet'[sessions[s].userId].until \in Nat
    BY <2>1 DEF SessionsTyped, KeySet
  <2>4. CASE sessions[s].userId = u
    BY <1>1, <2>1, <2>2, <2>3, <2>4
  <2>5. CASE sessions[s].userId # u
    BY <1>1, <2>1, <2>2, <2>5
  <2> QED  BY <2>4, <2>5
<1>2. SessionsListed'
  BY <1>1 DEF SessionsListed
<1>3. KeysAhead'
  BY DEF KeysAhead
<1> QED  BY <1>2, <1>3

(* A session opened is in its user's set, if it has not lapsed already.    *)
LEMMA InsertListed ==
  ASSUME SessionsTyped, SessionsListed, KeysAhead,
         scene'.redis = scene.redis, UNCHANGED keyClock,
         NEW id \in Session, NEW record \in SessionRecord, record.expiresAt # 0,
         InsertSession(id, record)
  PROVE  SessionsTyped' /\ SessionsListed' /\ KeysAhead'
<1> DEFINE u == record.userId
           pruned == Prune(sessionSet[u], Live(sessions))
           added == AddMember(pruned, id, record.expiresAt)
<1>1. /\ u \in UserId
      /\ record.expiresAt \in Nat \ {0}
      /\ sessionSet[u] \in KeySet(Session)
      /\ keyClock \in Nat
  BY DEF SessionsTyped, SessionRecord
<1>2. pruned \in KeySet(Session) /\ added \in KeySet(Session)
  <2>1. pruned \in KeySet(Session)
    BY <1>1, SetsKept
  <2>2. added \in KeySet(Session)
    BY <1>1, <2>1, SetsKept
  <2> QED  BY <2>1, <2>2
<1>3. Expired(added, keyClock) \in KeySet(Session)
  BY <1>1, <1>2, SetsKept
<1>4. /\ sessions' = [insertSession(sessions, id, record) EXCEPT ![id] = Surviving(@)]
      /\ sessionSet' = IF scene.redis
                         THEN [sessionSet EXCEPT ![u] = Expired(added, keyClock)]
                         ELSE sessionSet
  BY DEF InsertSession, Joined
<1> HIDE DEF u, pruned, added
<1>5. insertSession(sessions, id, record) \in Sessions
  BY DEF SessionsTyped, Sessions, insertSession
<1>6. SessionsTyped'
  <2>1. sessions' \in Sessions
    BY <1>4, <1>5 DEF Sessions, Surviving
  <2>2. sessionSet' \in [UserId -> KeySet(Session)]
    BY <1>1, <1>3, <1>4 DEF SessionsTyped
  <2> QED  BY <2>1, <2>2 DEF SessionsTyped
<1>7. \A s \in Session \ {id} : sessions'[s] = sessions[s]
  BY <1>4 DEF SessionsTyped, Sessions, insertSession
<1>8. sessions'[id] = Surviving(IF sessions[id] = None THEN record ELSE sessions[id])
  BY <1>4 DEF SessionsTyped, Sessions, insertSession
<1>9. KeysAhead'
  <2>1. SUFFICES ASSUME scene.redis, NEW s \in Live(sessions')
                 PROVE  sessions'[s].expiresAt > keyClock
    BY DEF KeysAhead
  <2>2. CASE s = id
    <3>1. sessions'[id] # None
      BY <2>1, <2>2 DEF Live
    <3>2. PICK r \in {record, sessions[id]} : sessions'[id] = Surviving(r)
      BY <1>8
    <3>3. r = sessions'[id] /\ ~(r.expiresAt <= keyClock)
      BY <2>1, <3>1, <3>2 DEF Surviving
    <3>4. r \in SessionRecord
      BY <3>1, <3>2, <3>3 DEF SessionsTyped, Sessions
    <3> QED  BY <1>1, <2>2, <3>3, <3>4 DEF SessionRecord
  <2>3. CASE s # id
    BY <1>7, <2>1, <2>3 DEF Live, KeysAhead
  <2> QED  BY <2>2, <2>3
<1>10. SessionsListed'
  <2>1. SUFFICES ASSUME scene.redis, NEW s \in Live(sessions')
                 PROVE  LET set == sessionSet'[sessions'[s].userId]
                        IN  s \in set.members /\ set.until >= sessions'[s].expiresAt
    BY DEF SessionsListed
  <2>2. /\ sessions'[s] \in SessionRecord
        /\ sessions'[s].expiresAt \in Nat
        /\ sessions'[s].userId \in UserId
        /\ sessions'[s].expiresAt > keyClock
    BY <1>6, <1>9, <2>1 DEF SessionsTyped, Sessions, Live, SessionRecord, KeysAhead
  <2>3. added.members = pruned.members \cup {id} /\ added.until >= pruned.until
        /\ added.until >= record.expiresAt
    BY <1>1, <1>2, AddKeeps DEF added
  <2>4. CASE s # id /\ sessions[s].userId # u
    BY <1>4, <1>7, <2>1, <2>4 DEF SessionsListed, Live, SessionsTyped
  <2>5. CASE s # id /\ sessions[s].userId = u
    <3>1. s \in sessionSet[u].members \cap Live(sessions)
          /\ sessionSet[u].until >= sessions[s].expiresAt
      BY <1>7, <2>1, <2>5 DEF SessionsListed, Live
    <3>2. s \in pruned.members /\ pruned.until = sessionSet[u].until
      BY <1>1, <3>1, PruneKeeps DEF pruned
    <3>3. s \in added.members /\ added.until >= sessions[s].expiresAt
      <4>1. added.until \in Nat /\ pruned.until \in Nat /\ sessions[s].expiresAt \in Nat
        BY <1>2, <1>7, <2>1, <2>2, <2>5 DEF KeySet, Live
      <4> QED  BY <2>3, <3>1, <3>2, <4>1
    <3>4. added.until > keyClock
      BY <1>1, <1>2, <1>7, <2>2, <2>5, <3>3 DEF KeySet
    <3>5. Expired(added, keyClock) = added
      BY <1>1, <1>2, <3>4, ExpiredKeeps
    <3> QED  BY <1>1, <1>4, <1>7, <2>1, <2>5, <3>3, <3>5 DEF SessionsTyped, Live
  <2>6. CASE s = id
    <3>1. PICK r \in {record, sessions[id]} :
            sessions'[id] = Surviving(r) /\ (r = record \/ sessions[id] # None)
      BY <1>8
    <3>2. r = sessions'[id]
      BY <2>1, <2>6, <3>1 DEF Surviving, Live
    <3>3. CASE r = record
      <4>1. added.until > keyClock
        BY <1>1, <1>2, <2>2, <2>3, <2>6, <3>2, <3>3 DEF KeySet
      <4>2. Expired(added, keyClock) = added
        BY <1>1, <1>2, <4>1, ExpiredKeeps
      <4>3. sessions'[s].userId = u /\ sessions'[s].expiresAt = record.expiresAt
        BY <2>6, <3>2, <3>3 DEF u
      <4> QED  BY <1>1, <1>4, <2>1, <2>3, <2>6, <4>2, <4>3 DEF SessionsTyped
    <3>4. CASE r = sessions[id] /\ sessions[id] # None
      <4>1. /\ id \in Live(sessions)
            /\ id \in sessionSet[sessions[id].userId].members
            /\ sessionSet[sessions[id].userId].until >= sessions[id].expiresAt
        BY <2>1, <3>4 DEF Live, SessionsListed
      <4>2. CASE sessions[id].userId # u
        BY <1>4, <2>1, <2>2, <2>6, <3>2, <3>4, <4>1, <4>2 DEF SessionsTyped
      <4>3. CASE sessions[id].userId = u
        <5>1. id \in pruned.members /\ pruned.until = sessionSet[u].until
          BY <1>1, <4>1, <4>3, PruneKeeps DEF pruned
        <5>2. /\ added.until \in Nat /\ pruned.until \in Nat
              /\ sessions[id].expiresAt \in Nat /\ sessions[id].expiresAt > keyClock
          BY <1>2, <2>2, <2>6, <3>2, <3>4 DEF KeySet
        <5>3. added.until >= sessions[id].expiresAt /\ added.until > keyClock
          BY <1>1, <2>3, <4>1, <4>3, <5>1, <5>2
        <5>4. Expired(added, keyClock) = added
          BY <1>1, <1>2, <5>3, ExpiredKeeps
        <5> QED  BY <1>1, <1>4, <2>1, <2>3, <2>6, <3>2, <3>4, <4>3, <5>3, <5>4 DEF SessionsTyped
      <4> QED  BY <4>2, <4>3
    <3> QED  BY <3>1, <3>3, <3>4
  <2> QED  BY <2>4, <2>5, <2>6
<1> QED  BY <1>6, <1>9, <1>10

(* A renewal moves the session and its user's set, or drops it at once.    *)
LEMMA ExtendListed ==
  ASSUME SessionsTyped, SessionsListed, KeysAhead,
         scene'.redis = scene.redis, UNCHANGED keyClock,
         NEW id \in Session, NEW at \in Nat \ {0}, Extend(id, at)
  PROVE  SessionsTyped' /\ SessionsListed' /\ KeysAhead'
<1>1. sessions' = [extendSession(sessions, id, at) EXCEPT ![id] = Surviving(@)]
  BY DEF Extend
<1>2. CASE ~Stands(sessions, id)
  <2>1. Surviving(sessions[id]) = sessions[id]
    <3>1. CASE sessions[id] = None \/ ~scene.redis
      BY <3>1 DEF Surviving
    <3>2. CASE sessions[id] # None /\ scene.redis
      <4>1. sessions[id].expiresAt > keyClock
        BY <3>2 DEF KeysAhead, Live
      <4>2. sessions[id].expiresAt \in Nat /\ keyClock \in Nat
        BY <3>2 DEF SessionsTyped, Sessions, SessionRecord
      <4> QED  BY <4>1, <4>2 DEF Surviving
    <3> QED  BY <3>1, <3>2
  <2>2. sessions' = sessions
    BY <1>1, <1>2, <2>1 DEF extendSession, SessionsTyped, Sessions
  <2>3. sessionSet' = sessionSet
    BY <1>2 DEF Extend
  <2> QED  BY <2>2, <2>3 DEF SessionsTyped, SessionsListed, KeysAhead, Live
<1>3. CASE Stands(sessions, id)
  <2> DEFINE u == sessions[id].userId
             record == [sessions[id] EXCEPT !.expiresAt = at]
             later == ExtendSet(sessionSet[u], at)
  <2>1. /\ sessions[id] \in SessionRecord
        /\ id \in Live(sessions)
        /\ u \in UserId
        /\ keyClock \in Nat
        /\ sessionSet[u] \in KeySet(Session)
    BY <1>3 DEF Stands, SessionsTyped, Sessions, SessionRecord, Live
  <2>2. /\ record \in SessionRecord
        /\ record.expiresAt = at
        /\ record.userId = u
    BY <2>1 DEF SessionRecord
  <2>3. later \in KeySet(Session) /\ Expired(later, keyClock) \in KeySet(Session)
    <3>1. later \in KeySet(Session)
      BY <2>1, SetsKept
    <3> QED  BY <2>1, <3>1, SetsKept
  <2>4. /\ sessions'[id] = Surviving(record)
        /\ \A s \in Session \ {id} : sessions'[s] = sessions[s]
    BY <1>1, <1>3 DEF extendSession, SessionsTyped, Sessions
  <2>5. sessionSet' = IF scene.redis
                       THEN [sessionSet EXCEPT ![u] = Expired(later, keyClock)]
                       ELSE sessionSet
    BY <1>3 DEF Extend
  <2> HIDE DEF u, record, later
  <2>6. SessionsTyped'
    <3>1. sessions' \in Sessions
      <4>1. extendSession(sessions, id, at) \in Sessions
        BY <1>3, <2>2 DEF extendSession, SessionsTyped, Sessions, record
      <4> QED  BY <1>1, <4>1 DEF Sessions, Surviving
    <3>2. sessionSet' \in [UserId -> KeySet(Session)]
      BY <2>3, <2>5 DEF SessionsTyped
    <3> QED  BY <3>1, <3>2 DEF SessionsTyped
  <2>7. ASSUME scene.redis, NEW s \in Live(sessions')
        PROVE  /\ sessions'[s].expiresAt > keyClock
               /\ s \in sessionSet'[sessions'[s].userId].members
               /\ sessionSet'[sessions'[s].userId].until >= sessions'[s].expiresAt
    <3>1. s \in Session /\ sessions'[s] # None
      BY <2>7 DEF Live
    <3>2. /\ id \in sessionSet[u].members
      BY <2>1, <2>7 DEF SessionsListed, u
    <3>3. /\ later.members = sessionSet[u].members
          /\ later.until >= sessionSet[u].until
          /\ later.until >= at
      BY <2>1, <3>2, ExtendKeeps DEF later
    <3>4. later.until \in Nat /\ sessionSet[u].until \in Nat
      BY <2>1, <2>3 DEF KeySet
    <3>5. CASE s = id
      <4>1. sessions'[s] = record /\ ~(at <= keyClock)
        BY <2>2, <2>4, <2>7, <3>1, <3>5 DEF Surviving
      <4>2. Expired(later, keyClock) = later
        BY <2>1, <2>3, <3>3, <3>4, <4>1, ExpiredKeeps
      <4> QED  BY <2>1, <2>2, <2>5, <2>7, <3>2, <3>3, <3>5, <4>1, <4>2 DEF SessionsTyped
    <3>6. CASE s # id
      <4>1. /\ sessions'[s] = sessions[s]
            /\ s \in Live(sessions)
            /\ sessions[s].expiresAt \in Nat
            /\ sessions[s].userId \in UserId
        BY <2>4, <3>1, <3>6 DEF Live, SessionsTyped, Sessions, SessionRecord
      <4>2. /\ sessions[s].expiresAt > keyClock
            /\ s \in sessionSet[sessions[s].userId].members
            /\ sessionSet[sessions[s].userId].until >= sessions[s].expiresAt
        BY <2>7, <4>1 DEF SessionsListed, KeysAhead
      <4>3. CASE sessions[s].userId = u
        <5>1. later.until > keyClock /\ later.until >= sessions[s].expiresAt
          BY <2>1, <3>3, <3>4, <4>1, <4>2, <4>3
        <5>2. Expired(later, keyClock) = later
          BY <2>1, <2>3, <5>1, ExpiredKeeps
        <5> QED  BY <2>1, <2>5, <2>7, <3>3, <4>1, <4>2, <4>3, <5>1, <5>2 DEF SessionsTyped
      <4>4. CASE sessions[s].userId # u
        BY <2>5, <2>7, <4>1, <4>2, <4>4 DEF SessionsTyped
      <4> QED  BY <4>3, <4>4
    <3> QED  BY <3>5, <3>6
  <2>8. SessionsListed' /\ KeysAhead'
    BY <2>7 DEF SessionsListed, KeysAhead
  <2> QED  BY <2>6, <2>8
<1> QED  BY <1>2, <1>3

(* Redis's clock drops the sessions that lapse before their user's set.    *)
LEMMA TickListed ==
  ASSUME SessionsTyped, SessionsListed, KeysAhead, KeyTick
  PROVE  SessionsTyped' /\ SessionsListed' /\ KeysAhead'
<1>1. /\ keyClock' = keyClock + 1
      /\ sessions' = deleteSessions(sessions, Lapsed(sessions, keyClock'))
      /\ sessionSet' = [u \in UserId |-> Expired(sessionSet[u], keyClock')]
      /\ scene' = scene
      /\ keyClock' \in Nat
  BY DEF KeyTick, SessionsTyped
<1>2. SessionsTyped'
  <2>1. sessions' \in Sessions
    BY <1>1 DEF SessionsTyped, Sessions, deleteSessions
  <2>2. \A u \in UserId : Expired(sessionSet[u], keyClock') \in KeySet(Session)
    BY <1>1 DEF SessionsTyped, Expired, KeySet, NoKey, NoExpiry
  <2> QED  BY <1>1, <2>1, <2>2 DEF SessionsTyped
<1>3. ASSUME scene.redis, NEW s \in Live(sessions')
      PROVE  /\ sessions'[s].expiresAt > keyClock'
             /\ s \in sessionSet'[sessions'[s].userId].members
             /\ sessionSet'[sessions'[s].userId].until >= sessions'[s].expiresAt
  <2>1. /\ s \in Live(sessions)
        /\ sessions'[s] = sessions[s]
        /\ ~(sessions[s].expiresAt <= keyClock')
    BY <1>1, <1>3 DEF Live, deleteSessions, Lapsed
  <2>2. /\ sessions[s].expiresAt \in Nat
        /\ sessions[s].userId \in UserId
    BY <2>1 DEF Live, SessionsTyped, Sessions, SessionRecord
  <2> DEFINE set == sessionSet[sessions[s].userId]
  <2>3. s \in set.members /\ set.until >= sessions[s].expiresAt
    BY <1>3, <2>1 DEF SessionsListed
  <2>4. set \in KeySet(Session) /\ set.until \in Nat
    BY <2>2 DEF SessionsTyped, KeySet
  <2>5. sessionSet'[sessions[s].userId] = Expired(set, keyClock')
    BY <1>1, <2>2
  <2> HIDE DEF set
  <2>6. Expired(set, keyClock') = set
    BY <1>1, <2>1, <2>2, <2>3, <2>4, ExpiredKeeps
  <2> QED  BY <1>1, <2>1, <2>2, <2>3, <2>5, <2>6
<1> QED  BY <1>1, <1>2, <1>3 DEF SessionsListed, KeysAhead

(* A step that leaves the sets alone, and of each session but its user and *)
(* its expiry.                                                             *)
LEMMA StampListed ==
  ASSUME SessionsTyped, SessionsListed, KeysAhead,
         scene'.redis = scene.redis, UNCHANGED <<keyClock, sessionSet>>,
         NEW ids, NEW id, NEW at \in Nat,
         \/ sessions' = revokeSessions(sessions, ids)
         \/ sessions' = reauthenticateSession(sessions, id, at)
         \/ sessions' = deleteSessions(sessions, ids)
  PROVE  SessionsTyped' /\ SessionsListed' /\ KeysAhead'
<1>1. ASSUME NEW s \in Session
      PROVE  /\ sessions'[s] \in SessionRecord \cup {None}
             /\ \/ sessions'[s] = None
                \/ /\ sessions[s] # None
                   /\ sessions'[s].userId = sessions[s].userId
                   /\ sessions'[s].expiresAt = sessions[s].expiresAt
  <2>1. sessions[s] \in SessionRecord \cup {None}
    BY DEF SessionsTyped, Sessions
  <2>2. CASE sessions' = revokeSessions(sessions, ids)
    BY <2>1, <2>2 DEF revokeSessions, Live, SessionRecord
  <2>3. CASE sessions' = reauthenticateSession(sessions, id, at)
    <3>1. CASE Stands(sessions, id) /\ s = id
      <4>1. sessions'[s] = [sessions[s] EXCEPT !.authenticatedAt = at]
        BY <2>3, <3>1 DEF reauthenticateSession, SessionsTyped, Sessions
      <4>2. sessions[s] \in SessionRecord
        BY <2>1, <3>1 DEF Stands
      <4> QED  BY <3>1, <4>1, <4>2 DEF Stands, SessionRecord
    <3>2. CASE ~(Stands(sessions, id) /\ s = id)
      BY <2>1, <2>3, <3>2 DEF reauthenticateSession, SessionsTyped, Sessions
    <3> QED  BY <3>1, <3>2
  <2>4. CASE sessions' = deleteSessions(sessions, ids)
    BY <2>1, <2>4 DEF deleteSessions
  <2> QED  BY <2>2, <2>3, <2>4
<1>2. sessions' \in Sessions
  <2>1. sessions' = [s \in Session |-> sessions'[s]]
    BY DEF SessionsTyped, Sessions, revokeSessions, reauthenticateSession, deleteSessions
  <2> QED  BY <1>1, <2>1 DEF Sessions
<1>3. SessionsTyped'
  BY <1>2 DEF SessionsTyped
<1>4. \A s \in Live(sessions') :
        /\ s \in Live(sessions)
        /\ sessions'[s].userId = sessions[s].userId
        /\ sessions'[s].expiresAt = sessions[s].expiresAt
  BY <1>1 DEF Live
<1>5. SessionsListed'
  BY <1>4 DEF SessionsListed
<1>6. KeysAhead'
  BY <1>4 DEF KeysAhead
<1> QED  BY <1>3, <1>5, <1>6

(* Signing out everywhere prunes the set of what is gone.                  *)
LEMMA RevokeUserListed ==
  ASSUME SessionsTyped, SessionsListed, KeysAhead,
         scene'.redis = scene.redis, UNCHANGED keyClock,
         NEW u \in UserId, NEW except, RevokeUserSessions(u, except)
  PROVE  SessionsTyped' /\ SessionsListed' /\ KeysAhead'
<1> DEFINE ids == SessionsNamed(u) \ except
           pruned == Prune(sessionSet[u], Live(sessions))
<1>1. /\ sessions' = revokeSessions(sessions, ids)
      /\ sessionSet' = IF scene.redis THEN [sessionSet EXCEPT ![u] = pruned] ELSE sessionSet
  BY DEF RevokeUserSessions
<1>2. sessionSet[u] \in KeySet(Session) /\ pruned \in KeySet(Session)
  BY PruneKept DEF SessionsTyped
<1> HIDE DEF ids, pruned
<1>3. ASSUME NEW s \in Session
      PROVE  /\ sessions'[s] \in SessionRecord \cup {None}
             /\ sessions'[s] # None =>
                  /\ sessions[s] # None
                  /\ sessions'[s].userId = sessions[s].userId
                  /\ sessions'[s].expiresAt = sessions[s].expiresAt
  <2>1. sessions[s] \in SessionRecord \cup {None}
    BY DEF SessionsTyped, Sessions
  <2> QED  BY <1>1, <2>1 DEF revokeSessions, Live, SessionRecord
<1>4. sessions' \in Sessions
  <2>1. sessions' = [s \in Session |-> sessions'[s]]
    BY <1>1 DEF revokeSessions
  <2> QED  BY <1>3, <2>1 DEF Sessions
<1>5. SessionsTyped'
  BY <1>1, <1>2, <1>4 DEF SessionsTyped
<1>6. \A s \in Live(sessions') :
        /\ s \in Live(sessions)
        /\ sessions'[s].userId = sessions[s].userId
        /\ sessions'[s].expiresAt = sessions[s].expiresAt
  BY <1>3 DEF Live
<1>7. ASSUME scene.redis, NEW s \in Live(sessions'), sessions[s].userId = u
      PROVE  s \in sessionSet'[u].members /\ sessionSet'[u].until >= sessionSet[u].until
  <2>1. s \in sessionSet[u].members \cap Live(sessions)
    BY <1>6, <1>7 DEF SessionsListed
  <2>2. s \in pruned.members /\ pruned.until = sessionSet[u].until
    BY <1>2, <2>1, PruneKeeps DEF pruned
  <2>3. sessionSet'[u] = pruned
    BY <1>1, <1>7 DEF SessionsTyped
  <2>4. pruned.until \in Nat
    BY <1>2 DEF KeySet
  <2> QED  BY <2>2, <2>3, <2>4
<1>8. \A v \in UserId \ {u} : sessionSet'[v] = sessionSet[v]
  BY <1>1 DEF SessionsTyped
<1> QED  BY <1>5, <1>6, <1>7, <1>8, FewerListed

(* A deletion that drops the set drops all it must name.                   *)
LEMMA DeleteListed ==
  ASSUME SessionsTyped, SessionsListed, KeysAhead,
         scene'.redis = scene.redis, UNCHANGED keyClock,
         NEW u \in UserId, DeleteSessionsOf(u)
  PROVE  SessionsTyped' /\ SessionsListed' /\ KeysAhead'
<1>1. /\ sessions' = deleteSessions(sessions, SessionsNamed(u))
      /\ sessionSet' = [sessionSet EXCEPT ![u] = NoKey]
  BY DEF DeleteSessionsOf
<1>2. SessionsTyped'
  <2>1. NoKey \in KeySet(Session)
    BY DEF NoKey, KeySet, NoExpiry
  <2>2. sessions' \in Sessions
    BY <1>1 DEF SessionsTyped, Sessions, deleteSessions
  <2> QED  BY <1>1, <2>1, <2>2 DEF SessionsTyped
<1>3. \A s \in Live(sessions') :
        /\ s \in Live(sessions) \ SessionsNamed(u)
        /\ sessions'[s] = sessions[s]
  BY <1>1 DEF Live, deleteSessions
<1>4. scene.redis => \A s \in Live(sessions') : sessions[s].userId # u
  BY <1>3 DEF SessionsListed, SessionsNamed
<1>5. \A v \in UserId \ {u} : sessionSet'[v] = sessionSet[v]
  BY <1>1 DEF SessionsTyped
<1> QED  BY <1>2, <1>3, <1>4, <1>5, FewerListed

-----------------------------------------------------------------------------
(* The token store.                                                        *)

(* A challenge issued is in its user's set of tokens, which has an expiry. *)
LEMMA IssueTyped ==
  ASSUME TokensTyped, keyClock \in Nat, NEW h \in Hash, NEW record \in TokenRecord,
         record.expiresAt # 0, InsertToken(h, record)
  PROVE  TokensTyped'
<1> DEFINE u == record.userId
           there == {x \in Hash : tokens[x] # None}
           added == AddMember(Prune(tokenSet[u], there), h, record.expiresAt)
<1>1. insertToken(tokens, h, record) \in Store
  BY InsertKeepsOthers DEF TokensTyped
<1>2. tokens' \in Store
  BY <1>1 DEF InsertToken, Surviving, Store
<1>3. /\ u \in UserId
      /\ tokenSet[u] \in KeySet(Request)
      /\ record.expiresAt \in Nat \ {0}
      /\ h \in Request
  BY SessionsAssumption DEF TokensTyped, TokenRecord
<1>4. Prune(tokenSet[u], there) \in KeySet(Request)
  BY <1>3, PruneKept
<1>5. added \in KeySet(Request)
  BY <1>3, <1>4, SetsKept
<1>6. Expired(added, keyClock) \in KeySet(Request)
  BY <1>3, <1>5, SetsKept
<1>7. tokenSet' = IF scene.redis
                   THEN [tokenSet EXCEPT ![u] = Expired(added, keyClock)]
                   ELSE tokenSet
  BY DEF InsertToken, Joined
<1> HIDE DEF added
<1> QED  BY <1>2, <1>6, <1>7 DEF TokensTyped

(* Spending and deleting leave the challenges well typed.                  *)
LEMMA SpendTyped ==
  ASSUME TokensTyped, clock \in Nat, NEW u, NEW h \in Hash, NEW except,
         SpendUserTokens(u, except) \/ ConsumeToken(h)
  PROVE  TokensTyped'
<1>1. CASE SpendUserTokens(u, except)
  <2>1. spendUserTokens(tokens, u, "stepUp", clock, except) \in Store
    BY SpendUserEvolves DEF TokensTyped
  <2> QED  BY <1>1, <2>1 DEF SpendUserTokens, TokensTyped, Store
<1>2. CASE ConsumeToken(h)
  BY <1>2, ConsumeEvolves DEF ConsumeToken, TokensTyped
<1> QED  BY <1>1, <1>2

(* A user's tokens deleted, by Redis's set or by row.                      *)
LEMMA ForgottenTyped ==
  ASSUME TokensTyped, NEW u, DeleteTokensOf(u)
  PROVE  TokensTyped'
<1>1. NoKey \in KeySet(Request)
  BY DEF NoKey, KeySet, NoExpiry
<1> QED  BY <1>1 DEF DeleteTokensOf, TokensTyped, Store

(* The tokens Redis's clock passed, or a collection did.                   *)
LEMMA LapsedTyped ==
  ASSUME TokensTyped, NEW before, tokens' = deleteExpiredTokens(tokens, before),
         \/ UNCHANGED tokenSet
         \/ tokenSet' = [u \in UserId |-> Expired(tokenSet[u], before)]
  PROVE  TokensTyped'
<1>1. NoKey \in KeySet(Request)
  BY DEF NoKey, KeySet, NoExpiry
<1>2. tokenSet' \in [UserId -> KeySet(Request)]
  BY <1>1 DEF TokensTyped, Expired
<1> QED  BY <1>2, DeleteEvolves DEF TokensTyped

-----------------------------------------------------------------------------
(* The calls.                                                              *)

(* A call that has begun goes on with what it chose.                       *)
LEMMA GoesTyped ==
  ASSUME CallsTyped, NEW c \in Call, NEW pc \in Pc, Goes(c, pc),
         c \in Auth \cup Confirm \cup Request => call[c].pc # "idle"
  PROVE  CallsTyped'
<1>1. call' = [call EXCEPT ![c].pc = pc]
  BY DEF Goes
<1>2. call[c] \in CallRecord
  BY DEF CallsTyped
<1>3. /\ [call[c] EXCEPT !.pc = pc] \in CallRecord
      /\ [call[c] EXCEPT !.pc = pc].session = call[c].session
      /\ [call[c] EXCEPT !.pc = pc].challenge = call[c].challenge
      /\ [call[c] EXCEPT !.pc = pc].user = call[c].user
  BY <1>2 DEF CallRecord
<1>4. call' \in [Call -> CallRecord]
  BY <1>1, <1>3 DEF CallsTyped
<1>5. \A d \in Call : /\ d # c => call'[d] = call[d]
                      /\ call'[d].session = call[d].session
                      /\ call'[d].challenge = call[d].challenge
                      /\ call'[d].user = call[d].user
  BY <1>1, <1>3 DEF CallsTyped
<1>6. Auth \cup Confirm \cup Request \subseteq Call
  BY DEF Call
<1>7. Chosen'
  BY <1>5, <1>6 DEF Chosen, CallsTyped
<1> QED  BY <1>4, <1>7 DEF CallsTyped

(* The session store, untouched.                                           *)
LEMMA SessionsUntouched ==
  ASSUME SessionsKept, scene'.redis = scene.redis, UNCHANGED <<keyClock, sessionStore>>
  PROVE  SessionsKept'
  BY DEF SessionsKept, SessionsTyped, SessionsListed, KeysAhead, Live, sessionStore

(* The assumptions the steps below use.                                    *)
LEMMA Constants ==
  /\ Lifespan \in Nat /\ Lifespan > 0
  /\ TokenTtl \in Nat /\ TokenTtl > 0
  /\ UserOf \in [Session \cup Request \cup Deletion -> UserId]
  /\ Hash = Request
  /\ Kind = {"stepUp"}
  /\ "" \in Address
  /\ MaxStep \in Nat
  /\ Scene \subseteq SceneRecord
<1>1. {Lifespan, RenewAfter, TokenTtl, CODE_ATTEMPTS} \subseteq Nat \ {0}
  BY SessionsAssumption
<1>2. {Skew, MaxStep} \subseteq Nat
  BY SessionsAssumption
<1>3. Lifespan \in Nat \ {0} /\ TokenTtl \in Nat \ {0} /\ MaxStep \in Nat
  BY <1>1, <1>2
<1>4. Lifespan > 0 /\ TokenTtl > 0
  BY <1>3
<1> QED  BY <1>3, <1>4, SessionsAssumption

(* A call of one flow is a call of no other.                               *)
LEMMA Apart ==
  /\ Session \cap (Auth \cup Confirm \cup Request) = {}
  /\ SignOut \cap (Auth \cup Confirm \cup Request) = {}
  /\ Deletion \cap (Auth \cup Confirm \cup Request) = {}
  /\ Collect \cap (Auth \cup Confirm \cup Request) = {}
  /\ Auth \cap (Confirm \cup Request) = {}
  /\ Confirm \cap Request = {}
<1> DEFINE calls == <<Session, Auth, SignOut, Request, Confirm, Deletion, Collect>>
<1>1. \A i, j \in 1..7 : i # j => calls[i] \cap calls[j] = {}
  BY SessionsAssumption
<1>2. /\ \A j \in {2, 4, 5} : \A i \in {1, 3, 6, 7} : calls[i] \cap calls[j] = {}
      /\ calls[2] \cap calls[4] = {} /\ calls[2] \cap calls[5] = {}
      /\ calls[4] \cap calls[5] = {}
  <2> HIDE DEF calls
  <2> QED  BY <1>1
<1>3. \A j \in {2, 4, 5} : /\ calls[1] \cap calls[j] = {} /\ calls[3] \cap calls[j] = {}
                          /\ calls[6] \cap calls[j] = {} /\ calls[7] \cap calls[j] = {}
  <2> HIDE DEF calls
  <2> QED  BY <1>2
<1>4. /\ Session \cap Auth = {} /\ SignOut \cap Auth = {}
      /\ Deletion \cap Auth = {} /\ Collect \cap Auth = {}
  BY <1>3
<1>5. /\ Session \cap Request = {} /\ SignOut \cap Request = {}
      /\ Deletion \cap Request = {} /\ Collect \cap Request = {}
  BY <1>3
<1>6. /\ Session \cap Confirm = {} /\ SignOut \cap Confirm = {}
      /\ Deletion \cap Confirm = {} /\ Collect \cap Confirm = {}
  BY <1>3
<1>7. Auth \cap Request = {} /\ Auth \cap Confirm = {} /\ Request \cap Confirm = {}
  BY <1>2
<1> QED  BY <1>4, <1>5, <1>6, <1>7

(* A step in which nothing but one call goes on.                           *)
LEMMA OnlyGoes ==
  ASSUME IInv, NEW c \in Call, NEW pc \in Pc, Goes(c, pc),
         c \in Auth \cup Confirm \cup Request => call[c].pc # "idle",
         UNCHANGED <<scene, clocks, users, tuples, sessionStore, tokenStore, history>>
  PROVE  IInv'
<1>1. SessionsKept'
  BY SessionsUntouched DEF IInv, clocks
<1>2. TokensTyped'
  BY DEF IInv, TokensTyped, tokenStore
<1>3. CallsTyped'
  BY GoesTyped DEF IInv
<1>4. RestTyped'
  BY DEF IInv, RestTyped, clocks, history
<1> QED  BY <1>1, <1>2, <1>3, <1>4 DEF IInv

-----------------------------------------------------------------------------
(* The flows, action by action.                                            *)

(* A sign-in opens a session for some user, with an expiry.                *)
LEMMA SignInStep ==
  ASSUME IInv, NEW s \in Session, BeginSignIn(s) \/ OpenSession(s)
  PROVE  IInv'
<1>1. s \in Call /\ s \notin Auth \cup Confirm \cup Request
  BY Apart DEF Call
<1>2. CASE BeginSignIn(s)
  BY <1>1, <1>2, OnlyGoes DEF BeginSignIn, Pc
<1>3. CASE OpenSession(s)
  <2>1. /\ NewSession(UserOf[s], clock) \in SessionRecord
        /\ NewSession(UserOf[s], clock).expiresAt # 0
    <3>1. clock + Lifespan \in Nat /\ clock + Lifespan # 0 /\ clock \in Nat
      <4>1. Lifespan \in Nat /\ Lifespan > 0
        BY Constants
      <4> QED  BY <4>1 DEF IInv, RestTyped
    <3>2. UserOf[s] \in UserId
      BY Constants
    <3> QED  BY <3>1, <3>2 DEF NewSession, SessionRecord
  <2>2. SessionsKept'
    BY <1>3, <2>1, InsertListed DEF IInv, SessionsKept, OpenSession, clocks
  <2>3. CallsTyped'
    BY <1>1, <1>3, GoesTyped DEF IInv, OpenSession, Pc
  <2>4. TokensTyped' /\ RestTyped'
    BY <1>3 DEF IInv, OpenSession, TokensTyped, RestTyped, tokenStore, clocks, history
  <2> QED  BY <2>2, <2>3, <2>4 DEF IInv
<1> QED  BY <1>2, <1>3

(* authenticate renews the session it found to a time that is one.         *)
LEMMA AuthStep ==
  ASSUME IInv, NEW a \in Auth,
         (\E s \in Session : FindSession(a, s)) \/ FindUser(a) \/ ExtendSession(a)
  PROVE  IInv'
<1>1. a \in Call /\ a \notin Confirm \cup Request
  BY Apart DEF Call
<1>2. ASSUME NEW s \in Session, FindSession(a, s)
      PROVE  IInv'
  <2> DEFINE found == [call[a] EXCEPT
                         !.pc = IF Standing(s) THEN "session" ELSE "refused",
                         !.session = s, !.at = clock, !.late = s \in out,
                         !.due = Standing(s) /\ RenewalDue(sessions[s])]
  <2>1. call' = [call EXCEPT ![a] = found]
    BY <1>2 DEF FindSession
  <2>2. call[a] \in CallRecord /\ clock \in Nat
    BY <1>1 DEF IInv, CallsTyped, RestTyped
  <2>3. /\ (Standing(s) /\ RenewalDue(sessions[s])) \in BOOLEAN
        /\ (s \in out) \in BOOLEAN
        /\ (IF Standing(s) THEN "session" ELSE "refused") \in Pc
    BY DEF Standing, Stands, RenewalDue, Pc
  <2>4. found \in CallRecord
    BY <2>2, <2>3, Zenon DEF CallRecord
  <2>5. found.session = s
    BY <2>2 DEF CallRecord
  <2> HIDE DEF found
  <2>6. call' \in [Call -> CallRecord]
    BY <1>1, <2>1, <2>4 DEF IInv, CallsTyped
  <2>7. Chosen'
    <3>1. call'[a].session \in Session
      BY <1>1, <2>1, <2>5 DEF IInv, CallsTyped
    <3>2. \A d \in (Auth \cup Confirm \cup Request) \ {a} : call'[d] = call[d]
      BY <2>1 DEF IInv, CallsTyped, Call
    <3> QED  BY <1>1, <3>1, <3>2 DEF IInv, CallsTyped, Chosen
  <2>8. SessionsKept'
    BY <1>2, SessionsUntouched DEF IInv, FindSession, clocks
  <2>9. TokensTyped' /\ RestTyped'
    BY <1>2 DEF IInv, FindSession, TokensTyped, RestTyped, tokenStore, clocks, history
  <2> QED  BY <2>6, <2>7, <2>8, <2>9 DEF IInv, CallsTyped
<1>3. CASE FindUser(a)
  <2>1. call[a].pc # "idle"
    BY <1>3 DEF FindUser
  <2> QED  BY <1>1, <1>3, <2>1, OnlyGoes DEF FindUser, Pc
<1>4. CASE ExtendSession(a)
  <2>1. call[a] \in CallRecord /\ call[a].pc # "idle" /\ call[a].session \in Session
    BY <1>1, <1>4 DEF IInv, CallsTyped, Chosen, ExtendSession
  <2>2. call[a].at + Lifespan \in Nat \ {0}
    <3>1. call[a].at \in Nat
      BY <2>1 DEF CallRecord
    <3>2. Lifespan \in Nat /\ Lifespan > 0
      BY Constants
    <3> QED  BY <3>1, <3>2
  <2>3. SessionsKept'
    BY <1>4, <2>1, <2>2, ExtendListed DEF IInv, SessionsKept, ExtendSession, clocks
  <2>4. CallsTyped'
    BY <1>1, <1>4, <2>1, GoesTyped DEF IInv, ExtendSession, Pc
  <2>5. TokensTyped' /\ RestTyped'
    BY <1>4 DEF IInv, ExtendSession, TokensTyped, RestTyped, tokenStore, clocks, history
  <2> QED  BY <2>3, <2>4, <2>5 DEF IInv
<1> QED  BY <1>2, <1>3, <1>4

(* A sign-out revokes, and moves no expiry.                                *)
LEMMA SignOutStep ==
  ASSUME IInv, NEW o \in SignOut, (\E s \in Session : FindToSignOut(o, s)) \/ RevokeSession(o)
  PROVE  IInv'
<1>1. o \in Call /\ o \notin Auth \cup Confirm \cup Request
  BY Apart DEF Call
<1>2. ASSUME NEW s \in Session, FindToSignOut(o, s)
      PROVE  IInv'
  <2> DEFINE found == [call[o] EXCEPT !.pc = IF sessions[s] # None THEN "session" ELSE "refused",
                                      !.session = s]
  <2>1. call[o] \in CallRecord
    BY <1>1 DEF IInv, CallsTyped
  <2>2. call' = [call EXCEPT ![o] = found]
    BY <1>1, <1>2, <2>1 DEF FindToSignOut, IInv, CallsTyped, CallRecord
  <2>3. found \in CallRecord
    BY <2>1 DEF CallRecord, Pc
  <2> HIDE DEF found
  <2>4. call' \in [Call -> CallRecord]
    BY <1>1, <2>2, <2>3 DEF IInv, CallsTyped
  <2>5. \A d \in Auth \cup Confirm \cup Request : call'[d] = call[d]
    BY <1>1, <2>2 DEF IInv, CallsTyped, Call
  <2>6. CallsTyped'
    BY <2>4, <2>5 DEF IInv, CallsTyped, Chosen
  <2>7. SessionsKept'
    BY <1>2, SessionsUntouched DEF IInv, FindToSignOut, clocks
  <2>8. TokensTyped' /\ RestTyped'
    BY <1>2 DEF IInv, FindToSignOut, TokensTyped, RestTyped, tokenStore, clocks, history
  <2> QED  BY <2>6, <2>7, <2>8 DEF IInv
<1>3. CASE RevokeSession(o)
  <2>1. SessionsKept'
    BY <1>3, StampListed DEF IInv, SessionsKept, RevokeSession, clocks
  <2>2. CallsTyped'
    BY <1>1, <1>3, GoesTyped DEF IInv, RevokeSession, Pc
  <2>3. TokensTyped' /\ RestTyped'
    BY <1>3 DEF IInv, RevokeSession, TokensTyped, RestTyped, tokenStore, clocks, Live
  <2> QED  BY <2>1, <2>2, <2>3 DEF IInv
<1> QED  BY <1>2, <1>3

(* A sign-out everywhere prunes the set it goes through.                   *)
LEMMA EverywhereStep ==
  ASSUME IInv, NEW u \in UserId, NEW except, SignOutEverywhere(u, except)
  PROVE  IInv'
<1>1. scene \in SceneRecord /\ scene.everywhere \in Nat \ {0}
  BY DEF IInv, RestTyped, SignOutEverywhere, SceneRecord
<1>2. scene' = [scene EXCEPT !.everywhere = @ - 1]
  BY DEF SignOutEverywhere
<1>3. scene' \in SceneRecord /\ scene'.redis = scene.redis
  BY <1>1, <1>2 DEF SceneRecord
<1>4. SessionsKept'
  BY <1>3, RevokeUserListed DEF IInv, SessionsKept, SignOutEverywhere, clocks
<1>5. TokensTyped' /\ CallsTyped'
  BY DEF IInv, SignOutEverywhere, TokensTyped, CallsTyped, Chosen, tokenStore
<1>6. RestTyped'
  BY <1>3 DEF IInv, SignOutEverywhere, RestTyped, clocks, OfUser, Live
<1> QED  BY <1>4, <1>5, <1>6 DEF IInv

(* A challenge is issued for some user, with an expiry.                    *)
LEMMA RequestStep ==
  ASSUME IInv, NEW r \in Request, GetRecord(r) \/ IssueStepUp(r) \/ SpendOthers(r)
  PROVE  IInv'
<1>1. r \in Call /\ r \notin Auth \cup Confirm /\ UserOf[r] \in UserId /\ r \in Hash
  BY Apart, Constants DEF Call
<1>2. CASE GetRecord(r)
  <2> DEFINE read == [call[r] EXCEPT !.pc = "read", !.user = users[UserOf[r]]]
  <2>1. call[r] \in CallRecord /\ users[UserOf[r]] \in UserRecord
    BY <1>1 DEF IInv, CallsTyped, RestTyped
  <2>2. call' = [call EXCEPT ![r] = read]
    BY <1>1, <1>2, <2>1 DEF GetRecord, IInv, CallsTyped, CallRecord
  <2>3. read \in CallRecord
    BY <2>1 DEF CallRecord, Pc
  <2> HIDE DEF read
  <2>4. call' \in [Call -> CallRecord]
    BY <1>1, <2>2, <2>3 DEF IInv, CallsTyped
  <2>5. \A d \in (Auth \cup Confirm \cup Request) \ {r} : call'[d] = call[d]
    BY <2>2 DEF IInv, CallsTyped, Call
  <2>9. call'[r].user \in UserRecord
    BY <1>1, <2>1, <2>2 DEF IInv, CallsTyped, read, CallRecord
  <2>6. CallsTyped'
    BY <1>1, <2>4, <2>5, <2>9 DEF IInv, CallsTyped, Chosen
  <2>7. SessionsKept'
    BY <1>2, SessionsUntouched DEF IInv, GetRecord, clocks
  <2>8. TokensTyped' /\ RestTyped'
    BY <1>2 DEF IInv, GetRecord, TokensTyped, RestTyped, tokenStore, clocks, history
  <2> QED  BY <2>6, <2>7, <2>8 DEF IInv
<1>3. CASE IssueStepUp(r)
  <2> DEFINE address == IF call[r].user.factor THEN "" ELSE call[r].user.email
             token == [kind |-> "stepUp", userId |-> UserOf[r], address |-> address,
                       attempts |-> 0, expiresAt |-> clock + TokenTtl, spentAt |-> None]
  <2>1. call[r] \in CallRecord /\ call[r].pc = "read" /\ clock \in Nat
    BY <1>1, <1>3 DEF IssueStepUp, IInv, CallsTyped, RestTyped
  <2>2. call[r].user \in UserRecord
    BY <1>1, <2>1 DEF IInv, CallsTyped, Chosen
  <2>3. address \in Address
    BY <2>2, Constants DEF UserRecord, Email
  <2>4. token \in TokenRecord /\ token.userId = UserOf[r] /\ token.expiresAt # 0
    <3>1. clock + TokenTtl \in Nat /\ clock + TokenTtl # 0
      <4>1. TokenTtl \in Nat /\ TokenTtl > 0
        BY Constants
      <4> QED  BY <2>1, <4>1
    <3>2. "stepUp" \in Kind
      BY Constants
    <3> QED  BY <1>1, <2>3, <3>1, <3>2 DEF TokenRecord
  <2>5. InsertToken(r, token)
    BY <1>3 DEF IssueStepUp
  <2> HIDE DEF token
  <2>6. TokensTyped'
    BY <1>1, <2>1, <2>4, <2>5, IssueTyped DEF IInv, SessionsKept, SessionsTyped
  <2>7. CallsTyped'
    BY <1>1, <1>3, GoesTyped DEF IInv, IssueStepUp, Pc
  <2>8. SessionsKept' /\ RestTyped'
    BY <1>3, SessionsUntouched DEF IInv, IssueStepUp, RestTyped, clocks, history
  <2> QED  BY <2>6, <2>7, <2>8 DEF IInv
<1>4. CASE SpendOthers(r)
  <2>1. TokensTyped'
    BY <1>1, <1>4, SpendTyped DEF IInv, SpendOthers, RestTyped
  <2>2. CallsTyped'
    BY <1>1, <1>4, GoesTyped DEF IInv, SpendOthers, Pc
  <2>3. SessionsKept' /\ RestTyped'
    BY <1>4, SessionsUntouched DEF IInv, SpendOthers, RestTyped, clocks, history
  <2> QED  BY <2>1, <2>2, <2>3 DEF IInv
<1> QED  BY <1>2, <1>3, <1>4

(* A confirm counts an attempt at a challenge that was issued, ...         *)
LEMMA CountStep ==
  ASSUME IInv, NEW c \in Confirm, NEW r \in Request, NEW s \in Session, NEW code \in 0..MaxStep,
         CountAttempt(c, r, s, code)
  PROVE  IInv'
<1>1. c \in Call /\ c \notin Auth \cup Request /\ r \in Hash
  BY Apart, Constants DEF Call
<1> DEFINE counted == countAttempt(tokens, r, "stepUp")
           token == Answer(counted, r, "stepUp")
           taken == Usable(token) /\ token.attempts <= CODE_ATTEMPTS
           next == [call[c] EXCEPT !.pc = IF taken THEN "counted" ELSE "refused",
                                   !.session = s, !.challenge = r, !.code = code,
                                   !.attempts = IF taken THEN token.attempts ELSE 0,
                                   !.late = s \in out]
<1>2. counted \in Store
  BY <1>1, CountEvolves DEF IInv, TokensTyped
<1>3. /\ tokens' = counted
      /\ call' = [call EXCEPT ![c] = next]
  BY DEF CountAttempt
<1>4. (IF taken THEN token.attempts ELSE 0) \in Nat
  <2>1. CASE taken
    <3>1. token # None
      BY <2>1 DEF Usable, Unspent
    <3>2. token \in TokenRecord
      BY <1>1, <1>2, <3>1 DEF Answer, Store
    <3> QED  BY <2>1, <3>2 DEF TokenRecord
  <2>2. CASE ~taken
    BY <2>2
  <2> QED  BY <2>1, <2>2
<1> HIDE DEF taken, token, counted
<1>5. call[c] \in CallRecord
  BY <1>1 DEF IInv, CallsTyped
<1>6. /\ (s \in out) \in BOOLEAN
      /\ (IF taken THEN "counted" ELSE "refused") \in Pc
  BY DEF Pc
<1>7. next \in CallRecord
  BY <1>4, <1>5, <1>6, Zenon DEF CallRecord
<1>8. next.challenge = r
  BY <1>5 DEF CallRecord
<1> HIDE DEF next
<1>9. call' \in [Call -> CallRecord]
  BY <1>1, <1>3, <1>7 DEF IInv, CallsTyped
<1>10. call'[c].challenge \in Request
  BY <1>1, <1>3, <1>8 DEF IInv, CallsTyped
<1>11. \A d \in (Auth \cup Confirm \cup Request) \ {c} : call'[d] = call[d]
  BY <1>3 DEF IInv, CallsTyped, Call
<1>12. CallsTyped'
  BY <1>1, <1>9, <1>10, <1>11 DEF IInv, CallsTyped, Chosen
<1>13. SessionsKept'
  BY SessionsUntouched DEF IInv, CountAttempt, clocks
<1>14. TokensTyped'
  BY <1>2, <1>3 DEF IInv, CountAttempt, TokensTyped
<1>15. RestTyped'
  BY DEF IInv, CountAttempt, RestTyped, clocks, history
<1> QED  BY <1>12, <1>13, <1>14, <1>15 DEF IInv

(* A code that is accepted leaves a user's record one.                     *)
LEMMA StepWritten ==
  ASSUME NEW user \in UserRecord, NEW code \in 0..MaxStep
  PROVE  [user EXCEPT !.version = @ + 1, !.lastStep = code] \in UserRecord
<1> DEFINE later == [user EXCEPT !.version = @ + 1]
<1>1. later \in UserRecord
  BY DEF UserRecord
<1>2. [later EXCEPT !.lastStep = code] \in UserRecord
  <2> HIDE DEF later
  <2> QED  BY <1>1 DEF UserRecord
<1> QED  BY <1>2


(* ... reads who it is for, and writes their code, ...                     *)
LEMMA CheckStep ==
  ASSUME IInv, NEW c \in Confirm, FindToConfirm(c) \/ CheckCode(c) \/ WriteCode(c)
  PROVE  IInv'
<1>1. c \in Call /\ c \notin Auth \cup Request
  BY Apart DEF Call
<1>2. call[c] \in CallRecord /\ call[c].pc # "idle" /\ call[c].challenge \in Request
  BY <1>1 DEF IInv, CallsTyped, Chosen, FindToConfirm, CheckCode, WriteCode
<1>3. CASE FindToConfirm(c)
  <2>1. (IF PresentsOwn(c) THEN "session" ELSE Refusal(c)) \in Pc
    BY DEF Refusal, Pc
  <2> QED  BY <1>1, <1>2, <1>3, <2>1, OnlyGoes DEF FindToConfirm
<1>4. CASE CheckCode(c)
  <2> DEFINE user == users[UserOf[call[c].challenge]]
             next == [call[c] EXCEPT !.pc = Checked(c, user), !.user = user]
  <2>1. user \in UserRecord
    BY <1>2, Constants DEF IInv, RestTyped
  <2>2. Checked(c, user) \in Pc
    BY DEF Checked, Refusal, Pc
  <2>3. call' = [call EXCEPT ![c] = next]
    BY <1>1, <1>2, <1>4 DEF CheckCode, IInv, CallsTyped, CallRecord
  <2> HIDE DEF user
  <2>4. next \in CallRecord /\ next.challenge = call[c].challenge
    BY <1>2, <2>1, <2>2 DEF CallRecord
  <2> HIDE DEF next
  <2>5. call' \in [Call -> CallRecord]
    BY <1>1, <2>3, <2>4 DEF IInv, CallsTyped
  <2>6. call'[c].challenge \in Request
    BY <1>1, <1>2, <2>3, <2>4 DEF IInv, CallsTyped
  <2>7. \A d \in (Auth \cup Confirm \cup Request) \ {c} : call'[d] = call[d]
    BY <2>3 DEF IInv, CallsTyped, Call
  <2>8. CallsTyped'
    BY <1>1, <2>5, <2>6, <2>7 DEF IInv, CallsTyped, Chosen
  <2>9. SessionsKept'
    BY <1>4, SessionsUntouched DEF IInv, CheckCode, clocks
  <2>10. TokensTyped' /\ RestTyped'
    BY <1>4 DEF IInv, CheckCode, TokensTyped, RestTyped, tokenStore, clocks, history
  <2> QED  BY <2>8, <2>9, <2>10 DEF IInv
<1>5. CASE WriteCode(c)
  <2> DEFINE u == UserOf[call[c].challenge]
             next == [users[u] EXCEPT !.version = @ + 1, !.lastStep = call[c].code]
  <2>1. u \in UserId /\ users[u] \in UserRecord
    BY <1>2, Constants DEF IInv, RestTyped
  <2>2. users' = users \/ users' = [users EXCEPT ![u] = next]
    BY <1>5, <2>1 DEF WriteCode, IInv, RestTyped, UserRecord
  <2>3. next \in UserRecord
    <3>1. call[c].code \in 0..MaxStep
      BY <1>2 DEF CallRecord
    <3> QED  BY <2>1, <3>1, StepWritten
  <2> HIDE DEF next
  <2>4. users' \in [UserId -> UserRecord]
    BY <2>1, <2>2, <2>3 DEF IInv, RestTyped
  <2>5. RestTyped'
    BY <1>5, <2>4 DEF IInv, WriteCode, RestTyped, clocks, history
  <2>6. CallsTyped'
    BY <1>1, <1>2, <1>5, GoesTyped DEF IInv, WriteCode, Pc
  <2>7. SessionsKept'
    BY <1>5, SessionsUntouched DEF IInv, WriteCode, clocks
  <2>8. TokensTyped'
    BY <1>5 DEF IInv, WriteCode, TokensTyped, tokenStore
  <2> QED  BY <2>5, <2>6, <2>7, <2>8 DEF IInv
<1> QED  BY <1>3, <1>4, <1>5

(* ... spends the challenge, and stamps the session.                       *)
LEMMA StampStep ==
  ASSUME IInv, NEW c \in Confirm, SpendChallenge(c) \/ SpendRefused(c) \/ Reauthenticate(c)
  PROVE  IInv'
<1>1. c \in Call /\ c \notin Auth \cup Request
  BY Apart DEF Call
<1>2. call[c].pc # "idle" /\ call[c].challenge \in Hash
  BY Constants DEF IInv, CallsTyped, Chosen, SpendChallenge, SpendRefused, Reauthenticate
<1>3. CallsTyped'
  BY <1>1, <1>2, GoesTyped DEF IInv, SpendChallenge, SpendRefused, Reauthenticate, Pc
<1>4. RestTyped'
  BY DEF IInv, SpendChallenge, SpendRefused, Reauthenticate, RestTyped, clocks, history
<1>5. CASE SpendChallenge(c) \/ SpendRefused(c)
  <2>1. ConsumeToken(call[c].challenge)
    BY <1>5 DEF SpendChallenge, SpendRefused
  <2>2. TokensTyped'
    BY <1>2, <2>1, SpendTyped DEF IInv, RestTyped
  <2>3. SessionsKept'
    BY <1>5, SessionsUntouched DEF IInv, SpendChallenge, SpendRefused, clocks
  <2> QED  BY <1>3, <1>4, <2>2, <2>3 DEF IInv
<1>6. CASE Reauthenticate(c)
  <2>1. SessionsKept'
    BY <1>6, StampListed DEF IInv, SessionsKept, RestTyped, Reauthenticate, clocks
  <2>2. TokensTyped'
    BY <1>6 DEF IInv, Reauthenticate, TokensTyped, tokenStore
  <2> QED  BY <1>3, <1>4, <2>1, <2>2 DEF IInv
<1> QED  BY <1>5, <1>6

-----------------------------------------------------------------------------
(* A deletion, and what else changes the state.                            *)

(* A call of these kinds chooses nothing.                                  *)
LEMMA OtherCall ==
  ASSUME CallsTyped, NEW c \in Call \ (Auth \cup Confirm \cup Request), NEW r \in CallRecord,
         call' = [call EXCEPT ![c] = r]
  PROVE  CallsTyped'
<1>1. call' \in [Call -> CallRecord]
  BY DEF CallsTyped
<1>2. \A d \in Auth \cup Confirm \cup Request : call'[d] = call[d]
  BY DEF CallsTyped, Call
<1> QED  BY <1>1, <1>2 DEF CallsTyped, Chosen

(* A store call that failed is one fewer to come.                          *)
LEMMA FailureSpent ==
  ASSUME scene \in SceneRecord, scene.failures > 0,
         scene' = [scene EXCEPT !.failures = @ - 1]
  PROVE  scene' \in SceneRecord /\ scene'.redis = scene.redis
<1>1. scene.failures - 1 \in Nat
  BY DEF SceneRecord
<1> QED  BY <1>1 DEF SceneRecord

(* A user deleted is a user's record still.                                *)
LEMMA UserGone ==
  ASSUME users \in [UserId -> UserRecord], NEW u \in UserId
  PROVE  [users EXCEPT ![u].present = FALSE] \in [UserId -> UserRecord]
<1>1. [users[u] EXCEPT !.present = FALSE] \in UserRecord
  BY DEF UserRecord
<1> QED  BY <1>1

(* A deletion reads the user, and deletes them.                            *)
LEMMA DeleteStep ==
  ASSUME IInv, NEW d \in Deletion, FindToDelete(d) \/ DeleteUser(d)
  PROVE  IInv'
<1>1. d \in Call \ (Auth \cup Confirm \cup Request)
  BY Apart DEF Call
<1>2. UserOf[d] \in UserId
  BY Constants
<1>3. call[d] \in CallRecord
  BY <1>1 DEF IInv, CallsTyped
<1>4. SessionsKept'
  <2>1. scene'.redis = scene.redis
    BY FailureSpent DEF IInv, RestTyped, FindToDelete, DeleteUser
  <2> QED  BY <2>1, SessionsUntouched DEF IInv, FindToDelete, DeleteUser, clocks
<1>5. TokensTyped'
  BY DEF IInv, FindToDelete, DeleteUser, TokensTyped, tokenStore
<1>6. CASE FindToDelete(d)
  <2> DEFINE found == [call[d] EXCEPT
                         !.pc = IF users[UserOf[d]].present THEN "delete" ELSE "sessions",
                         !.deleted = FALSE,
                         !.quiet = ~users[UserOf[d]].present /\ Quiet(UserOf[d])]
  <2>1. found \in CallRecord
    <3> DEFINE quiet == ~users[UserOf[d]].present /\ Quiet(UserOf[d])
    <3>1. users[UserOf[d]].present \in BOOLEAN /\ quiet \in BOOLEAN
      BY <1>2 DEF IInv, RestTyped, UserRecord, Quiet
    <3> HIDE DEF quiet
    <3> QED  BY <1>3, <3>1 DEF CallRecord, Pc
  <2>2. call' = [call EXCEPT ![d] = found]
    BY <1>6 DEF FindToDelete
  <2> HIDE DEF found
  <2>3. CallsTyped'
    BY <1>1, <2>1, <2>2, OtherCall DEF IInv
  <2>4. RestTyped'
    BY <1>6 DEF IInv, FindToDelete, RestTyped, clocks, history
  <2> QED  BY <1>4, <1>5, <2>3, <2>4 DEF IInv
<1>7. CASE DeleteUser(d)
  <2>1. users' \in [UserId -> UserRecord]
    BY <1>2, <1>7, UserGone DEF IInv, RestTyped, DeleteUser
  <2>2. scene' \in SceneRecord
    BY <1>7, FailureSpent DEF IInv, RestTyped, DeleteUser
  <2>3. RestTyped'
    BY <1>7, <2>1, <2>2 DEF IInv, RestTyped, DeleteUser, clocks, history
  <2>4. ASSUME Goes(d, "failed") PROVE CallsTyped'
    BY <1>1, <2>4, GoesTyped DEF IInv, Pc
  <2>5. ASSUME call' = [call EXCEPT ![d].pc = "sessions",
                                    ![d].deleted = users[UserOf[d]].present]
        PROVE  CallsTyped'
    <3> DEFINE gone == [call[d] EXCEPT !.pc = "sessions",
                                       !.deleted = users[UserOf[d]].present]
    <3>1. users[UserOf[d]].present \in BOOLEAN
      BY <1>2 DEF IInv, RestTyped, UserRecord
    <3>2. gone \in CallRecord
      BY <1>3, <3>1 DEF CallRecord, Pc
    <3>3. call' = [call EXCEPT ![d] = gone]
      BY <1>1, <2>5 DEF IInv, CallsTyped
    <3> HIDE DEF gone
    <3> QED  BY <1>1, <3>2, <3>3, OtherCall DEF IInv
  <2>6. CallsTyped'
    BY <1>7, <2>4, <2>5 DEF DeleteUser
  <2> QED  BY <1>4, <1>5, <2>3, <2>6 DEF IInv
<1> QED  BY <1>6, <1>7

(* A deletion that stops tells of it, and one that goes on does not.       *)
LEMMA StopsTyped ==
  ASSUME IInv, NEW d \in Deletion, NEW pc \in Pc,
         \/ Stops(d, pc) /\ UNCHANGED scene
         \/ Fails(d)
  PROVE  /\ CallsTyped' /\ told' \in [UserId -> Nat]
         /\ scene' \in SceneRecord /\ scene'.redis = scene.redis
<1>1. d \in Call \ (Auth \cup Confirm \cup Request)
  BY Apart DEF Call
<1>2. UserOf[d] \in UserId
  BY Constants
<1>3. Goes(d, pc) \/ Goes(d, "failed")
  BY DEF Stops, Fails
<1>4. CallsTyped'
  BY <1>1, <1>3, GoesTyped DEF IInv, Pc
<1>5. told' \in [UserId -> Nat]
  BY <1>2 DEF IInv, RestTyped, Stops, Fails, Tell
<1>6. scene' \in SceneRecord /\ scene'.redis = scene.redis
  BY FailureSpent DEF IInv, RestTyped, Fails
<1> QED  BY <1>4, <1>5, <1>6

(* What is left of the user goes, a store call at a time.                  *)
LEMMA LeftoversStep ==
  ASSUME IInv, NEW d \in Deletion,
         DeleteUserSessions(d) \/ DeleteUserTokens(d) \/ DeleteEntity(d)
  PROVE  IInv'
<1>1. UserOf[d] \in UserId
  BY Constants
<1>2. \E pc \in Pc : \/ Stops(d, pc) /\ UNCHANGED scene
                     \/ Fails(d)
  BY DEF DeleteUserSessions, DeleteUserTokens, DeleteEntity, Pc
<1>3. /\ CallsTyped' /\ told' \in [UserId -> Nat]
      /\ scene' \in SceneRecord /\ scene'.redis = scene.redis
  BY <1>2, StopsTyped
<1>4. SessionsKept'
  <2>1. CASE UNCHANGED sessionStore
    BY <1>3, <2>1, SessionsUntouched
    DEF IInv, DeleteUserSessions, DeleteUserTokens, DeleteEntity, clocks
  <2>2. CASE DeleteSessionsOf(UserOf[d])
    BY <1>1, <1>3, <2>2, DeleteListed
    DEF IInv, SessionsKept, DeleteUserSessions, DeleteUserTokens, DeleteEntity, clocks
  <2> QED  BY <2>1, <2>2 DEF DeleteUserSessions, DeleteUserTokens, DeleteEntity
<1>5. TokensTyped'
  <2>1. CASE UNCHANGED tokenStore
    BY <2>1 DEF IInv, TokensTyped, tokenStore
  <2>2. CASE DeleteTokensOf(UserOf[d])
    BY <2>2, ForgottenTyped DEF IInv
  <2> QED  BY <2>1, <2>2 DEF DeleteUserSessions, DeleteUserTokens, DeleteEntity
<1>6. RestTyped'
  BY <1>3 DEF IInv, RestTyped, DeleteUserSessions, DeleteUserTokens, DeleteEntity, clocks
<1> QED  BY <1>3, <1>4, <1>5, <1>6 DEF IInv

(* An update writes one user, at the version after.                        *)
LEMMA UpdateStep ==
  ASSUME IInv, NEW u \in UserId, UpdateUser(u)
  PROVE  IInv'
<1>1. scene' \in SceneRecord /\ scene'.redis = scene.redis
  <2>1. scene.updates - 1 \in Nat
    BY DEF IInv, RestTyped, UpdateUser, SceneRecord
  <2> QED  BY <2>1 DEF IInv, RestTyped, UpdateUser, SceneRecord
<1>2. users' \in [UserId -> UserRecord]
  <2>1. PICK active \in BOOLEAN, factor \in BOOLEAN, email \in Email :
          users' = [users EXCEPT ![u] = Updated(@, active, factor, email)]
    BY DEF UpdateUser
  <2>2. users[u] \in UserRecord
    BY DEF IInv, RestTyped
  <2>3. Updated(users[u], active, factor, email) \in UserRecord
    <3> DEFINE user == [users[u] EXCEPT !.active = active, !.factor = factor, !.email = email]
    <3>1. user \in UserRecord
      BY <2>2 DEF UserRecord
    <3>2. Updated(users[u], active, factor, email) = [user EXCEPT !.version = @ + 1]
      BY <2>2 DEF Updated, UserRecord
    <3> HIDE DEF user
    <3> QED  BY <3>1, <3>2 DEF UserRecord
  <2> QED  BY <2>1, <2>3 DEF IInv, RestTyped
<1>3. SessionsKept'
  BY <1>1, SessionsUntouched DEF IInv, UpdateUser, clocks
<1>4. TokensTyped' /\ CallsTyped'
  BY DEF IInv, UpdateUser, TokensTyped, CallsTyped, Chosen, tokenStore
<1>5. RestTyped'
  BY <1>1, <1>2 DEF IInv, UpdateUser, RestTyped, clocks, history
<1> QED  BY <1>3, <1>4, <1>5 DEF IInv

(* A collection deletes what lapsed, where rows do not lapse alone.        *)
LEMMA CollectStep ==
  ASSUME IInv, NEW c \in Collect, CollectSessions(c) \/ CollectTokens(c)
  PROVE  IInv'
<1>1. c \in Call \ (Auth \cup Confirm \cup Request)
  BY Apart DEF Call
<1>2. call[c] \in CallRecord /\ clock \in Nat
  BY <1>1 DEF IInv, CallsTyped, RestTyped
<1>3. RestTyped'
  BY DEF IInv, CollectSessions, CollectTokens, RestTyped, clocks, history
<1>4. CASE CollectSessions(c)
  <2> DEFINE begun == [call[c] EXCEPT !.pc = "tokens", !.at = clock]
  <2>1. begun \in CallRecord
    BY <1>2 DEF CallRecord, Pc
  <2>2. call' = [call EXCEPT ![c] = begun]
    BY <1>1, <1>4 DEF CollectSessions, IInv, CallsTyped
  <2> HIDE DEF begun
  <2>3. CallsTyped'
    BY <1>1, <2>1, <2>2, OtherCall DEF IInv
  <2>4. SessionsKept'
    <3>1. sessions' = deleteSessions(sessions, Lapsed(sessions, clock))
      BY <1>4 DEF CollectSessions
    <3>2. scene'.redis = scene.redis /\ UNCHANGED <<keyClock, sessionSet>>
      BY <1>4 DEF CollectSessions, clocks
    <3> QED  BY <1>2, <3>1, <3>2, StampListed DEF IInv, SessionsKept
  <2>5. TokensTyped'
    BY <1>4 DEF IInv, CollectSessions, TokensTyped, tokenStore
  <2> QED  BY <1>3, <2>3, <2>4, <2>5 DEF IInv
<1>5. CASE CollectTokens(c)
  <2>1. CallsTyped'
    BY <1>1, <1>5, GoesTyped DEF IInv, CollectTokens, Pc
  <2>2. SessionsKept'
    BY <1>5, SessionsUntouched DEF IInv, CollectTokens, clocks
  <2>3. TokensTyped'
    BY <1>5, LapsedTyped DEF IInv, CollectTokens
  <2> QED  BY <1>3, <2>1, <2>2, <2>3 DEF IInv
<1> QED  BY <1>4, <1>5

(* The clocks go on.                                                       *)
LEMMA ClockStep ==
  ASSUME IInv, Tick \/ KeyTick
  PROVE  IInv'
<1>1. CallsTyped'
  BY DEF IInv, Tick, KeyTick, CallsTyped, Chosen
<1>2. RestTyped'
  BY DEF IInv, Tick, KeyTick, RestTyped, history
<1>3. CASE Tick
  <2>1. SessionsKept'
    BY <1>3, SessionsUntouched DEF IInv, Tick
  <2>2. TokensTyped'
    BY <1>3 DEF IInv, Tick, TokensTyped, tokenStore
  <2> QED  BY <1>1, <1>2, <2>1, <2>2 DEF IInv
<1>4. CASE KeyTick
  <2>1. SessionsKept'
    BY <1>4, TickListed DEF IInv, SessionsKept
  <2>2. TokensTyped'
    BY <1>4, LapsedTyped DEF IInv, KeyTick
  <2> QED  BY <1>1, <1>2, <2>1, <2>2 DEF IInv
<1> QED  BY <1>3, <1>4

-----------------------------------------------------------------------------
(* What holds of every behaviour.                                          *)

(* The sessions open at the start are in their user's set.                 *)
LEMMA BeginsTyped == Init => IInv
<1> SUFFICES ASSUME Init PROVE IInv
  OBVIOUS
<1>1. scene \in SceneRecord /\ scene.opened \subseteq Session
  BY Constants DEF Init, SceneRecord
<1>2. Lifespan \in Nat /\ MaxStep \in Nat
  BY Constants
<1>3. \A s \in scene.opened : NewSession(UserOf[s], 1) \in SessionRecord
  <2>1. \A s \in scene.opened : UserOf[s] \in UserId
    BY <1>1, Constants
  <2> QED  BY <1>2, <2>1 DEF NewSession, SessionRecord
<1>4. SessionsKept
  <2>1. sessions \in Sessions
    BY <1>3 DEF Init, Sessions
  <2>2. 1 + Lifespan \in Nat \ {0} /\ 1 + Lifespan > 1
    <3>1. Lifespan > 0
      BY Constants
    <3> QED  BY <1>2, <3>1
  <2>3. sessionSet \in [UserId -> KeySet(Session)]
    BY <1>1, <2>2 DEF Init, KeySet, NoKey, NoExpiry
  <2>4. \A s \in Live(sessions) : /\ s \in scene.opened
                                  /\ sessions[s].userId = UserOf[s]
                                  /\ sessions[s].expiresAt = 1 + Lifespan
    BY DEF Live, Init, NewSession
  <2>5. SessionsListed
    <3> SUFFICES ASSUME scene.redis, NEW s \in Live(sessions)
                 PROVE  LET set == sessionSet[UserOf[s]]
                        IN  s \in set.members /\ set.until >= 1 + Lifespan
      BY <2>4 DEF SessionsListed
    <3>1. UserOf[s] \in UserId
      BY Constants DEF Live
    <3>2. sessionSet[UserOf[s]] = [members |-> {t \in scene.opened : UserOf[t] = UserOf[s]},
                                   until |-> 1 + Lifespan]
      BY <2>4, <3>1 DEF Init
    <3> QED  BY <2>2, <2>4, <3>2
  <2>6. KeysAhead
    BY <2>2, <2>4 DEF KeysAhead, Init
  <2> QED  BY <2>1, <2>3, <2>5, <2>6 DEF SessionsKept, SessionsTyped, Init
<1>5. TokensTyped
  <2>1. NoKey \in KeySet(Request)
    BY DEF NoKey, KeySet, NoExpiry
  <2> QED  BY <2>1, Constants DEF TokensTyped, Init, Store
<1>6. CallsTyped
  <2>1. NewCall \in CallRecord
    BY <1>2 DEF NewCall, CallRecord, Pc
  <2>2. [NewCall EXCEPT !.pc = "open"] \in CallRecord
    BY <2>1 DEF CallRecord, Pc
  <2>3. call \in [Call -> CallRecord]
    BY <2>1, <2>2 DEF Init
  <2>4. \A c \in Auth \cup Confirm \cup Request : call[c].pc = "idle"
    BY <1>1, Apart DEF Init, NewCall, Call
  <2> QED  BY <2>3, <2>4 DEF CallsTyped, Chosen
<1>7. RestTyped
  <2>1. \A factor \in BOOLEAN, email \in Email :
          [present |-> TRUE, active |-> TRUE, factor |-> factor, lastStep |-> 0,
           email |-> email, version |-> 1] \in UserRecord
    BY <1>2 DEF UserRecord
  <2>2. users \in [UserId -> UserRecord]
    BY <2>1 DEF Init
  <2> QED  BY <1>1, <2>2 DEF RestTyped, Init
<1> QED  BY <1>4, <1>5, <1>6, <1>7 DEF IInv

(* Every step keeps it.                                                    *)
LEMMA StepTyped == IInv /\ [Next]_vars => IInv'
<1> SUFFICES ASSUME IInv, [Next]_vars PROVE IInv'
  OBVIOUS
<1>1. CASE UNCHANGED vars
  BY <1>1 DEF vars, IInv, SessionsKept, SessionsTyped, SessionsListed, KeysAhead, TokensTyped,
              CallsTyped, Chosen, RestTyped, Live
<1>2. CASE \E s \in Session : BeginSignIn(s) \/ OpenSession(s)
  BY <1>2, SignInStep
<1>3. CASE \E a \in Auth : \/ \E s \in Session : FindSession(a, s)
                           \/ FindUser(a) \/ ExtendSession(a)
  BY <1>3, AuthStep
<1>4. CASE \E o \in SignOut : RevokeSession(o) \/ \E s \in Session : FindToSignOut(o, s)
  BY <1>4, SignOutStep
<1>5. CASE \E u \in UserId :
             \/ UpdateUser(u)
             \/ \E except \in {{}} \cup {{s} : s \in Session} : SignOutEverywhere(u, except)
  BY <1>5, UpdateStep, EverywhereStep
<1>6. CASE \E r \in Request : GetRecord(r) \/ IssueStepUp(r) \/ SpendOthers(r)
  BY <1>6, RequestStep
<1>7. CASE \E c \in Confirm :
             \/ \E r \in Request, s \in Session, code \in 0..MaxStep : CountAttempt(c, r, s, code)
             \/ FindToConfirm(c) \/ CheckCode(c) \/ WriteCode(c)
             \/ SpendChallenge(c) \/ SpendRefused(c) \/ Reauthenticate(c)
  BY <1>7, CountStep, CheckStep, StampStep
<1>8. CASE \E d \in Deletion :
             \/ FindToDelete(d) \/ DeleteUser(d) \/ DeleteUserSessions(d)
             \/ DeleteUserTokens(d) \/ DeleteEntity(d)
  BY <1>8, DeleteStep, LeftoversStep
<1>9. CASE \E c \in Collect : CollectSessions(c) \/ CollectTokens(c)
  BY <1>9, CollectStep
<1>10. CASE Tick \/ KeyTick
  BY <1>10, ClockStep
<1> QED  BY <1>1, <1>2, <1>3, <1>4, <1>5, <1>6, <1>7, <1>8, <1>9, <1>10 DEF Next

(* Every record keeps its shape, for any users, calls, scenes and clocks:  *)
(* and no set of keys in Redis is ever without an expiry (TypeOK).         *)
THEOREM TypeCorrect == Spec => []TypeOK
<1>1. IInv => TypeOK
  BY DEF IInv, SessionsKept, SessionsTyped, TokensTyped, CallsTyped, RestTyped, TypeOK
<1> QED  BY BeginsTyped, StepTyped, <1>1, PTL DEF Spec

(* In Redis the set of a user's sessions names every session there is, for *)
(* as long as the last of them lasts (SessionsListed): signOutEverywhere   *)
(* and deleteUser miss none, however many calls and users overlap and      *)
(* however far the clocks are apart.                                       *)
THEOREM Listed == Spec => []SessionsListed
<1>1. IInv => SessionsListed
  BY DEF IInv, SessionsKept
<1> QED  BY BeginsTyped, StepTyped, <1>1, PTL DEF Spec

-----------------------------------------------------------------------------
(* What has ended stays ended (OutForGood, NeverBroughtBack).  OutForGood   *)
(* is not inductive alone: a call may have read a session before it ended. *)
(* OutInv says what such a call holds, and what a deletion has done so far.*)

(* A session is opened by the call it is named after, for its user, and    *)
(* presented once it is.                                                   *)
Opened ==
  /\ \A s \in Live(sessions) : call[s].pc = "open" /\ sessions[s].userId = UserOf[s]
  /\ \A c \in Auth \cup SignOut \cup Confirm :
       call[c].pc # "idle" =>
         call[c].session \in Session /\ call[call[c].session].pc = "open"

(* It has read the user, and has still to write on the session.            *)
Holds(c) ==
  \/ c \in Auth /\ call[c].pc = "renew"
  \/ c \in Confirm /\ call[c].pc \in {"write", "spend", "stamp"}

(* The user is gone, and who read them before holds no session of theirs   *)
(* that stands.                                                            *)
Left(u) ==
  /\ ~users[u].present
  /\ \A c \in Auth \cup Confirm :
       Holds(c) /\ UserOf[call[c].session] = u => ~Stands(sessions, call[c].session)

OutEnded ==
  \A s \in out : Left(UserOf[s]) \/ (call[s].pc = "open" /\ ~Stands(sessions, s))

Deleted ==
  \A d \in Deletion :
    /\ call[d].pc = "sessions" => ~users[UserOf[d]].present
    /\ call[d].pc \in {"tokens", "entity"} => Left(UserOf[d])

(* Begun after its session had ended, it is refused before it does         *)
(* anything; and a confirmation's session and challenge are of one user.   *)
Sound(c) ==
  /\ c \in Auth /\ call[c].late =>
       \/ call[c].pc = "refused"
       \/ call[c].pc = "session" /\ ~users[UserOf[call[c].session]].present
  /\ c \in Confirm /\ call[c].late =>
       \/ call[c].pc \in {"burn", "refused"}
       \/ call[c].pc = "counted" /\ call[c].session \in out
       \/ call[c].pc = "session" /\ ~users[UserOf[call[c].session]].present
  /\ c \in Confirm /\ call[c].pc \in {"session", "write", "spend", "stamp", "stamped"} =>
       UserOf[call[c].session] = UserOf[call[c].challenge]

OutInv == Opened /\ OutEnded /\ Deleted /\ \A c \in Call : Sound(c)

-----------------------------------------------------------------------------
(* What no step of Sessions undoes.                                        *)

SessionsMove ==
  \A s \in Live(sessions') :
    \/ /\ s \in Live(sessions) /\ sessions'[s].userId = sessions[s].userId
       /\ Stands(sessions', s) => Stands(sessions, s)
    \/ call[s].pc = "read" /\ call'[s].pc = "open" /\ sessions'[s].userId = UserOf[s]

UsersMove == \A u \in UserId : users'[u].present => users[u].present

(* What holds of every call c after a step.                                *)
CallMoves(c) ==
  /\ c \in Session /\ call[c].pc = "open" => call'[c].pc = "open"
  /\ c \in Request /\ call[c].pc = "done" => call'[c] = call[c]
  /\ c \in Auth \cup SignOut \cup Confirm /\ call'[c].pc # "idle" =>
       \/ call[c].pc # "idle" /\ call'[c].session = call[c].session
       \/ call'[c].session \in Session /\ call[call'[c].session].pc = "open"
  /\ c \in Auth \cup Confirm /\ Holds(c)' =>
       \/ Holds(c) /\ call'[c].session = call[c].session
       \/ users[UserOf[call'[c].session]].present
  /\ c \in Deletion =>
       /\ call'[c].pc = "sessions" => call[c].pc = "sessions" \/ ~users'[UserOf[c]].present
       /\ call'[c].pc \in {"tokens", "entity"} =>
            \/ call[c].pc \in {"tokens", "entity"}
            \/ call[c].pc = "sessions" /\ \A s \in Live(sessions') : sessions'[s].userId # UserOf[c]

CallsMove == \A c \in Call : CallMoves(c)

Only(c) == \A d \in Call \ {c} : call'[d] = call[d]

(* The call goes on, with all it knows.                                    *)
Carries(c, pc) ==
  /\ Only(c)
  /\ call'[c].pc = pc
  /\ call'[c].session = call[c].session
  /\ call'[c].challenge = call[c].challenge
  /\ call'[c].code = call[c].code
  /\ call'[c].user = call[c].user
  /\ call'[c].late = call[c].late
  /\ call'[c].deleted = call[c].deleted
  /\ call'[c].quiet = call[c].quiet

LEMMA GoesCarries ==
  ASSUME CallsTyped, NEW c \in Call, NEW pc, Goes(c, pc)
  PROVE  Carries(c, pc)
<1>1. call[c] \in CallRecord /\ call' = [call EXCEPT ![c].pc = pc]
  BY DEF CallsTyped, Goes
<1>2. call'[c] = [call[c] EXCEPT !.pc = pc] /\ Only(c)
  BY <1>1 DEF CallsTyped, Only
<1> QED  BY <1>1, <1>2 DEF Carries, CallRecord

(* A call that did not move moved well.                                    *)
LEMMA OthersMove ==
  ASSUME UsersMove, NEW c \in Call, call'[c] = call[c],
         UserOf \in [Session \cup Request \cup Deletion -> UserId]
  PROVE  CallMoves(c)
  BY DEF CallMoves, Holds

LEMMA OneMoves ==
  ASSUME UsersMove, NEW c \in Call, Only(c), CallMoves(c)
  PROVE  CallsMove
  BY OthersMove, Constants DEF CallsMove, Only

(* The store of sessions, by any of its methods but an insertion.          *)
LEMMA StoreMoves ==
  ASSUME SessionsTyped, NEW id, NEW ids, NEW at,
         \/ sessions' = sessions
         \/ sessions' = revokeSessions(sessions, ids)
         \/ sessions' = reauthenticateSession(sessions, id, at)
         \/ sessions' = deleteSessions(sessions, ids)
         \/ sessions' = [extendSession(sessions, id, at) EXCEPT ![id] = Surviving(@)]
  PROVE  SessionsMove
<1> SUFFICES ASSUME NEW s \in Live(sessions')
             PROVE  /\ s \in Live(sessions) /\ sessions'[s].userId = sessions[s].userId
                    /\ Stands(sessions', s) => Stands(sessions, s)
  BY DEF SessionsMove
<1>1. s \in Session /\ sessions'[s] # None /\ sessions[s] \in SessionRecord \cup {None}
  BY DEF Live, SessionsTyped, Sessions
<1>2. CASE sessions' = sessions
  BY <1>2
<1>3. CASE sessions' = revokeSessions(sessions, ids)
  BY <1>1, <1>3 DEF revokeSessions, Live, SessionRecord, Stands
<1>4. CASE sessions' = reauthenticateSession(sessions, id, at)
  <2>1. CASE Stands(sessions, id) /\ s = id
    <3>1. sessions'[s] = [sessions[s] EXCEPT !.authenticatedAt = at]
      BY <1>1, <1>4, <2>1 DEF reauthenticateSession, SessionsTyped, Sessions
    <3> QED  BY <1>1, <2>1, <3>1 DEF SessionRecord, Live, Stands
  <2>2. CASE ~(Stands(sessions, id) /\ s = id)
    BY <1>1, <1>4, <2>2 DEF reauthenticateSession, SessionsTyped, Sessions, Live, Stands
  <2> QED  BY <2>1, <2>2
<1>5. CASE sessions' = deleteSessions(sessions, ids)
  BY <1>1, <1>5 DEF deleteSessions, Live, Stands
<1>6. CASE sessions' = [extendSession(sessions, id, at) EXCEPT ![id] = Surviving(@)]
  <2>1. extendSession(sessions, id, at)[s] =
          IF Stands(sessions, id) /\ s = id THEN [sessions[s] EXCEPT !.expiresAt = at]
                                            ELSE sessions[s]
    BY <1>1 DEF extendSession, SessionsTyped, Sessions
  <2>2. DOMAIN extendSession(sessions, id, at) = Session
    BY DEF extendSession, SessionsTyped, Sessions
  <2>3. sessions'[s] = extendSession(sessions, id, at)[s]
    BY <1>1, <1>6, <2>2 DEF Surviving
  <2>4. CASE Stands(sessions, id) /\ s = id
    BY <1>1, <2>1, <2>3, <2>4 DEF SessionRecord, Live, Stands
  <2>5. CASE ~(Stands(sessions, id) /\ s = id)
    BY <1>1, <2>1, <2>3, <2>5 DEF Live, Stands
  <2> QED  BY <2>4, <2>5
<1> QED  BY <1>2, <1>3, <1>4, <1>5, <1>6

Moves == SessionsMove /\ UsersMove /\ CallsMove

(* Nobody is brought back to a session who left before.                    *)
LEMMA LeftStays ==
  ASSUME Opened, Moves, NEW u \in UserId, Left(u), CallsTyped, CallsTyped'
  PROVE  Left(u)'
<1>1. ~users'[u].present
  BY DEF Moves, UsersMove, Left
<1>2. ASSUME NEW c \in Auth \cup Confirm, Holds(c)', UserOf[call'[c].session] = u,
             Stands(sessions', call'[c].session)
      PROVE  FALSE
  <2>1. CallMoves(c)
    BY DEF Moves, CallsMove, Call
  <2>2. Holds(c) /\ call'[c].session = call[c].session
    BY <1>2, <2>1 DEF CallMoves, Left
  <2>3. call[c].pc # "idle"
    BY <2>2 DEF Holds
  <2>4. call[c].session \in Session /\ call[call[c].session].pc = "open"
    BY <2>3 DEF Opened
  <2>5. call[c].session \in Live(sessions')
    BY <1>2, <2>2, <2>4 DEF Live, Stands
  <2>6. Stands(sessions, call[c].session)
    BY <1>2, <2>2, <2>4, <2>5 DEF Moves, SessionsMove
  <2> QED  BY <1>2, <2>2, <2>6 DEF Left
<1> QED  BY <1>1, <1>2 DEF Left

(* The sessions a call that answered has ended in this step.               *)
OutMove ==
  \A s \in out' \ out :
    Left(UserOf[s])' \/ (call'[s].pc = "open" /\ ~Stands(sessions', s))

LEMMA OpenedStays ==
  ASSUME IInv, Opened, Moves
  PROVE  Opened'
<1>1. ASSUME NEW s \in Session, call[s].pc = "open" PROVE call'[s].pc = "open"
  BY <1>1 DEF Moves, CallsMove, CallMoves, Call
<1>2. ASSUME NEW s \in Live(sessions')
      PROVE  call'[s].pc = "open" /\ sessions'[s].userId = UserOf[s]
  <2>1. s \in Session
    BY DEF Live
  <2> QED  BY <1>1, <1>2, <2>1 DEF Moves, SessionsMove, Opened
<1>3. ASSUME NEW c \in Auth \cup SignOut \cup Confirm, call'[c].pc # "idle"
      PROVE  call'[c].session \in Session /\ call'[call'[c].session].pc = "open"
  <2>1. CallMoves(c)
    BY DEF Moves, CallsMove, Call
  <2>2. call'[c].session \in Session /\ call[call'[c].session].pc = "open"
    BY <1>3, <2>1 DEF CallMoves, Opened
  <2> QED  BY <1>1, <2>2
<1> QED  BY <1>2, <1>3 DEF Opened

LEMMA OutStays ==
  ASSUME IInv, IInv', Opened, OutEnded, Moves, OutMove
  PROVE  OutEnded'
<1> SUFFICES ASSUME NEW s \in out'
             PROVE  Left(UserOf[s])' \/ (call'[s].pc = "open" /\ ~Stands(sessions', s))
  BY DEF OutEnded
<1>1. s \in Session /\ UserOf[s] \in UserId
  BY Constants DEF IInv, RestTyped
<1>2. CASE s \notin out
  BY <1>2 DEF OutMove
<1>3. CASE s \in out /\ Left(UserOf[s])
  BY <1>1, <1>3, LeftStays DEF IInv
<1>4. CASE s \in out /\ call[s].pc = "open" /\ ~Stands(sessions, s)
  <2>1. call'[s].pc = "open"
    BY <1>1, <1>4 DEF Moves, CallsMove, CallMoves, Call
  <2>2. ~Stands(sessions', s)
    BY <1>1, <1>4 DEF Moves, SessionsMove, Live, Stands
  <2> QED  BY <2>1, <2>2
<1> QED  BY <1>2, <1>3, <1>4 DEF OutEnded

LEMMA DeletedStays ==
  ASSUME IInv, IInv', Opened, Opened', Deleted, Moves
  PROVE  Deleted'
<1> SUFFICES ASSUME NEW d \in Deletion
             PROVE  /\ call'[d].pc = "sessions" => ~users'[UserOf[d]].present
                    /\ call'[d].pc \in {"tokens", "entity"} => Left(UserOf[d])'
  BY DEF Deleted
<1>1. CallMoves(d) /\ UserOf[d] \in UserId
  BY Constants DEF Moves, CallsMove, Call
<1>2. CASE call'[d].pc = "sessions"
  BY <1>1, <1>2 DEF CallMoves, Deleted, Moves, UsersMove
<1>3. CASE call'[d].pc \in {"tokens", "entity"} /\ call[d].pc \in {"tokens", "entity"}
  <2>1. Left(UserOf[d])
    BY <1>3 DEF Deleted
  <2> QED  BY <1>1, <1>3, <2>1, LeftStays DEF IInv
<1>4. CASE /\ call'[d].pc \in {"tokens", "entity"} /\ call[d].pc = "sessions"
           /\ \A s \in Live(sessions') : sessions'[s].userId # UserOf[d]
  <2>1. ~users'[UserOf[d]].present
    BY <1>1, <1>4 DEF Deleted, Moves, UsersMove
  <2>2. ASSUME NEW c \in Auth \cup Confirm, Holds(c)', UserOf[call'[c].session] = UserOf[d],
               Stands(sessions', call'[c].session)
        PROVE  FALSE
    <3>1. call'[c].session \in Live(sessions')
      BY <2>2 DEF Holds, Opened, Live, Stands
    <3> QED  BY <1>4, <2>2, <3>1 DEF Opened
  <2>3. Left(UserOf[d])'
    BY <2>1, <2>2 DEF Left
  <2> QED  BY <1>4, <2>3
<1> QED  BY <1>1, <1>2, <1>3, <1>4 DEF CallMoves

(* A call that did not move is as sound as it was.                         *)
LEMMA SoundStays ==
  ASSUME UsersMove, out \subseteq out', NEW c \in Call, call'[c] = call[c], Sound(c),
         IInv, Opened
  PROVE  Sound(c)'
<1>1. c \in Auth \cup Confirm /\ call[c].pc # "idle" => UserOf[call[c].session] \in UserId
  BY Constants DEF Opened
<1> QED  BY <1>1 DEF Sound, UsersMove

(* What one call's step is to show: the rest follows.                      *)
LEMMA OneStep ==
  ASSUME IInv, IInv', OutInv, NEW c \in Call, Only(c), SessionsMove, UsersMove, CallMoves(c),
         OutMove, out \subseteq out', Sound(c)'
  PROVE  OutInv'
<1>1. CallsMove
  BY OneMoves
<1>2. Moves
  BY <1>1 DEF Moves
<1>3. Opened'
  BY <1>2, OpenedStays DEF OutInv
<1>4. OutEnded'
  BY <1>2, OutStays DEF OutInv
<1>5. Deleted'
  BY <1>2, <1>3, DeletedStays DEF OutInv
<1>6. \A d \in Call : Sound(d)'
  <2>1. ASSUME NEW d \in Call \ {c} PROVE Sound(d)'
    BY SoundStays DEF OutInv, Only
  <2> QED  BY <2>1
<1> QED  BY <1>3, <1>4, <1>5, <1>6 DEF OutInv

(* So does the step of no call.                                            *)
LEMMA NoStep ==
  ASSUME IInv, IInv', OutInv, call' = call, SessionsMove, UsersMove, OutMove,
         out \subseteq out'
  PROVE  OutInv'
<1>1. CallsMove
  BY OthersMove, Constants DEF CallsMove
<1>2. Moves
  BY <1>1 DEF Moves
<1>3. Opened'
  BY <1>2, OpenedStays DEF OutInv
<1>4. OutEnded'
  BY <1>2, OutStays DEF OutInv
<1>5. Deleted'
  BY <1>2, <1>3, DeletedStays DEF OutInv
<1>6. ASSUME NEW d \in Call PROVE Sound(d)'
  BY SoundStays DEF OutInv
<1> QED  BY <1>3, <1>4, <1>5, <1>6 DEF OutInv

LEMMA AllApart ==
  /\ Session \cap (SignOut \cup Deletion \cup Collect) = {}
  /\ SignOut \cap (Deletion \cup Collect) = {}
  /\ Deletion \cap Collect = {}
<1> DEFINE calls == <<Session, Auth, SignOut, Request, Confirm, Deletion, Collect>>
<1>1. \A i, j \in 1..7 : i # j => calls[i] \cap calls[j] = {}
  BY SessionsAssumption
<1>2. /\ calls[1] \cap calls[3] = {} /\ calls[1] \cap calls[6] = {} /\ calls[1] \cap calls[7] = {}
      /\ calls[3] \cap calls[6] = {} /\ calls[3] \cap calls[7] = {} /\ calls[6] \cap calls[7] = {}
  <2> HIDE DEF calls
  <2> QED  BY <1>1
<1>3. Session \cap SignOut = {} /\ Session \cap Deletion = {} /\ Session \cap Collect = {}
  BY <1>2
<1>4. SignOut \cap Deletion = {} /\ SignOut \cap Collect = {} /\ Deletion \cap Collect = {}
  BY <1>2
<1> QED  BY <1>3, <1>4

-----------------------------------------------------------------------------
(* A sign-in opens a session that was none, for its user.                  *)
LEMMA SignInOut ==
  ASSUME IInv, IInv', OutInv, NEW s \in Session, BeginSignIn(s) \/ OpenSession(s)
  PROVE  OutInv'
<1>1. s \in Call \ (Auth \cup SignOut \cup Request \cup Confirm \cup Deletion)
  BY Apart, AllApart DEF Call
<1>2. UsersMove
  BY DEF UsersMove, BeginSignIn, OpenSession
<1>3. Sound(s)'
  BY <1>1 DEF Sound
<1>4. OutMove /\ out \subseteq out'
  BY DEF OutMove, BeginSignIn, OpenSession, history
<1>5. CASE BeginSignIn(s)
  <2>1. Carries(s, "read") /\ call[s].pc = "idle"
    BY <1>1, <1>5, GoesCarries DEF IInv, BeginSignIn
  <2>2. SessionsMove
    BY <1>5, StoreMoves DEF IInv, SessionsKept, BeginSignIn, sessionStore
  <2>3. CallMoves(s)
    BY <1>1, <2>1 DEF CallMoves, Carries
  <2> QED  BY <1>1, <1>2, <1>3, <1>4, <2>1, <2>2, <2>3, OneStep DEF Carries
<1>6. CASE OpenSession(s)
  <2>1. Carries(s, "open") /\ call[s].pc = "read"
    BY <1>1, <1>6, GoesCarries DEF IInv, OpenSession
  <2>2. sessions[s] = None
    BY <2>1 DEF OutInv, Opened, Live
  <2>3. SessionsMove
    <3> DEFINE record == NewSession(UserOf[s], clock)
    <3>1. sessions' = [[sessions EXCEPT ![s] = record] EXCEPT ![s] = Surviving(@)]
      BY <1>6, <2>2 DEF OpenSession, InsertSession, insertSession
    <3>2. record.userId = UserOf[s]
      BY DEF NewSession
    <3> HIDE DEF record
    <3>3. \A t \in Session \ {s} : sessions'[t] = sessions[t]
      BY <3>1 DEF IInv, SessionsKept, SessionsTyped, Sessions
    <3>4. sessions'[s] = Surviving(record)
      BY <3>1 DEF IInv, SessionsKept, SessionsTyped, Sessions
    <3> QED  BY <2>1, <3>2, <3>3, <3>4 DEF SessionsMove, Live, Stands, Surviving, Carries
  <2>4. CallMoves(s)
    BY <1>1, <2>1 DEF CallMoves, Carries
  <2> QED  BY <1>1, <1>2, <1>3, <1>4, <2>1, <2>3, <2>4, OneStep DEF Carries
<1> QED  BY <1>5, <1>6

(* What a call that begins by presenting a session knows of it.            *)
LEMMA FindCarries ==
  ASSUME IInv, NEW a \in Auth, NEW s \in Session, FindSession(a, s)
  PROVE  /\ Only(a)
         /\ call'[a].pc = IF Standing(s) THEN "session" ELSE "refused"
         /\ call'[a].session = s
         /\ call'[a].late <=> s \in out
<1> DEFINE found == [call[a] EXCEPT !.pc = IF Standing(s) THEN "session" ELSE "refused",
                       !.session = s, !.at = clock, !.late = s \in out,
                       !.due = Standing(s) /\ RenewalDue(sessions[s])]
<1>1. a \in Call /\ call[a] \in CallRecord
  BY DEF IInv, CallsTyped, Call
<1>2. call' = [call EXCEPT ![a] = found]
  BY DEF FindSession
<1>3. /\ found.pc = IF Standing(s) THEN "session" ELSE "refused"
      /\ found.session = s
      /\ found.late = (s \in out)
  BY <1>1 DEF CallRecord
<1> HIDE DEF found
<1>4. Only(a) /\ call'[a] = found
  BY <1>1, <1>2 DEF Only, IInv, CallsTyped
<1> QED  BY <1>3, <1>4

(* A session that stands is nobody's who left.                             *)
LEMMA LateFound ==
  ASSUME IInv, OutInv, NEW s \in Session, s \in out, Stands(sessions, s)
  PROVE  ~users[UserOf[s]].present
  BY DEF OutInv, OutEnded, Left

(* authenticate writes on a session it read standing, or not at all.       *)
LEMMA AuthOut ==
  ASSUME IInv, IInv', OutInv, NEW a \in Auth,
         \/ \E s \in Session : FindSession(a, s)
         \/ FindUser(a) \/ ExtendSession(a)
  PROVE  OutInv'
<1>1. a \in Call \ (Session \cup SignOut \cup Request \cup Confirm \cup Deletion)
  BY Apart, AllApart DEF Call
<1>2. UsersMove
  BY DEF UsersMove, FindSession, FindUser, ExtendSession
<1>3. OutMove /\ out \subseteq out' /\ users' = users /\ out' = out
  BY DEF OutMove, FindSession, FindUser, ExtendSession, history
<1>4. ASSUME NEW s \in Session, FindSession(a, s)
      PROVE  OutInv'
  <2>1. /\ Only(a) /\ call'[a].session = s /\ (call'[a].late <=> s \in out)
        /\ call'[a].pc = IF Standing(s) THEN "session" ELSE "refused"
    BY <1>4, FindCarries
  <2>2. call[s].pc = "open"
    BY <1>4 DEF FindSession, Presents
  <2>3. SessionsMove
    BY <1>4, StoreMoves DEF IInv, SessionsKept, FindSession, sessionStore
  <2>4. CallMoves(a)
    BY <1>1, <2>1, <2>2 DEF CallMoves, Holds
  <2>5. Sound(a)'
    <3>1. SUFFICES ASSUME s \in out, Standing(s)
                   PROVE  ~users[UserOf[s]].present
      BY <1>1, <1>3, <2>1 DEF Sound
    <3> QED  BY <3>1, LateFound DEF Standing
  <2> QED  BY <1>1, <1>2, <1>3, <2>1, <2>3, <2>4, <2>5, OneStep
<1>5. CASE FindUser(a)
  <2>1. PICK pc \in {"refused", "renew", "user"} :
          /\ Goes(a, pc)
          /\ ~users[UserOf[call[a].session]].present => pc = "refused"
    BY <1>5 DEF FindUser, IsSomebody
  <2>2. Carries(a, pc) /\ call[a].pc = "session"
    BY <1>1, <1>5, <2>1, GoesCarries DEF IInv, FindUser
  <2>3. SessionsMove
    BY <1>5, StoreMoves DEF IInv, SessionsKept, FindUser, sessionStore
  <2>4. CallMoves(a)
    BY <1>1, <2>1, <2>2 DEF CallMoves, Holds, Carries
  <2>5. Sound(a)'
    BY <1>1, <1>3, <2>1, <2>2 DEF Sound, Carries, OutInv
  <2> QED  BY <1>1, <1>2, <1>3, <2>2, <2>3, <2>4, <2>5, OneStep DEF Carries
<1>6. CASE ExtendSession(a)
  <2>1. PICK pc \in {"refused", "renewed"} : Goes(a, pc)
    BY <1>6 DEF ExtendSession
  <2>2. Carries(a, pc) /\ call[a].pc = "renew"
    BY <1>1, <1>6, <2>1, GoesCarries DEF IInv, ExtendSession
  <2>3. SessionsMove
    BY <1>6, StoreMoves DEF IInv, SessionsKept, ExtendSession, Extend
  <2>4. CallMoves(a)
    BY <1>1, <2>1, <2>2 DEF CallMoves, Holds, Carries
  <2>5. Sound(a)'
    BY <1>1, <1>3, <2>1, <2>2 DEF Sound, Carries, OutInv
  <2> QED  BY <1>1, <1>2, <1>3, <2>2, <2>3, <2>4, <2>5, OneStep DEF Carries
<1> QED  BY <1>4, <1>5, <1>6

LEMMA SignOutOut ==
  ASSUME IInv, IInv', OutInv, NEW o \in SignOut,
         RevokeSession(o) \/ \E s \in Session : FindToSignOut(o, s)
  PROVE  OutInv'
<1>1. o \in Call \ (Session \cup Auth \cup Request \cup Confirm \cup Deletion)
  BY Apart, AllApart DEF Call
<1>2. UsersMove /\ Sound(o)'
  BY <1>1 DEF UsersMove, Sound, RevokeSession, FindToSignOut
<1>3. ASSUME NEW s \in Session, FindToSignOut(o, s)
      PROVE  OutInv'
  <2>1. /\ Only(o)
        /\ call'[o].pc \in {"session", "refused"}
        /\ call'[o].session = s
    <3> DEFINE pc == IF sessions[s] # None THEN "session" ELSE "refused"
    <3>1. call[o] \in CallRecord
      BY <1>1 DEF IInv, CallsTyped
    <3>2. call' = [call EXCEPT ![o] = [call[o] EXCEPT !.pc = pc, !.session = s]]
      BY <1>1, <1>3 DEF FindToSignOut, IInv, CallsTyped
    <3>3. Only(o) /\ call'[o] = [call[o] EXCEPT !.pc = pc, !.session = s]
      BY <1>1, <3>2 DEF Only, IInv, CallsTyped
    <3> QED  BY <3>1, <3>3 DEF CallRecord
  <2>2. call[s].pc = "open"
    BY <1>3 DEF FindToSignOut, Presents
  <2>3. SessionsMove
    BY <1>3, StoreMoves DEF IInv, SessionsKept, FindToSignOut, sessionStore
  <2>4. CallMoves(o)
    BY <1>1, <2>1, <2>2 DEF CallMoves
  <2>5. OutMove /\ out \subseteq out'
    BY <1>3 DEF OutMove, FindToSignOut, history
  <2> QED  BY <1>1, <1>2, <2>1, <2>3, <2>4, <2>5, OneStep
<1>4. CASE RevokeSession(o)
  <2>1. Carries(o, "done") /\ call[o].pc = "session"
    BY <1>1, <1>4, GoesCarries DEF IInv, RevokeSession
  <2>2. SessionsMove
    BY <1>4, StoreMoves DEF IInv, SessionsKept, RevokeSession
  <2>3. CallMoves(o)
    BY <1>1, <2>1 DEF CallMoves, Carries
  <2>4. OutMove /\ out \subseteq out'
    <3>1. out' = out \cup ({call[o].session} \cap Live(sessions))
      BY <1>4 DEF RevokeSession
    <3>2. ASSUME NEW s \in Live(sessions), s = call[o].session
          PROVE  call'[s].pc = "open" /\ ~Stands(sessions', s)
      <4>1. s \in Session /\ s # o /\ call[s].pc = "open"
        BY <1>1, <3>2 DEF OutInv, Opened, Live
      <4>2. sessions[s] \in SessionRecord
        BY <3>2, <4>1 DEF Live, IInv, SessionsKept, SessionsTyped, Sessions
      <4>3. sessions'[s] = [sessions[s] EXCEPT !.revoked = TRUE]
        BY <1>4, <3>2, <4>1 DEF RevokeSession, revokeSessions
      <4>4. ~Stands(sessions', s)
        BY <4>2, <4>3 DEF SessionRecord, Stands
      <4> QED  BY <2>1, <4>1, <4>4 DEF Carries, Only, Call
    <3> QED  BY <3>1, <3>2 DEF OutMove
  <2> QED  BY <1>1, <1>2, <2>1, <2>2, <2>3, <2>4, OneStep DEF Carries
<1> QED  BY <1>3, <1>4

(* Signing out everywhere reaches them all, in Redis by the user's set.    *)
LEMMA EverywhereOut ==
  ASSUME IInv, IInv', OutInv, NEW u \in UserId,
         NEW except, SignOutEverywhere(u, except)
  PROVE  OutInv'
<1>1. /\ call' = call /\ users' = users
      /\ out' = out \cup (OfUser(sessions, u) \ except)
      /\ sessions' = revokeSessions(sessions, SessionsNamed(u) \ except)
  BY DEF SignOutEverywhere, RevokeUserSessions
<1>2. SessionsMove /\ UsersMove
  BY <1>1, StoreMoves DEF IInv, SessionsKept, UsersMove
<1>3. ASSUME NEW s \in OfUser(sessions, u) \ except
      PROVE  call'[s].pc = "open" /\ ~Stands(sessions', s)
  <2>1. s \in Live(sessions) /\ s \in Session /\ sessions[s].userId = u
    BY DEF OfUser, Live
  <2>2. s \in SessionsNamed(u)
    BY <2>1 DEF SessionsNamed, IInv, SessionsKept, SessionsListed, OfUser
  <2>3. sessions'[s] = [sessions[s] EXCEPT !.revoked = TRUE]
    BY <1>1, <1>3, <2>1, <2>2 DEF revokeSessions
  <2>4. sessions[s] \in SessionRecord
    BY <2>1 DEF Live, IInv, SessionsKept, SessionsTyped, Sessions
  <2>5. ~Stands(sessions', s)
    BY <2>3, <2>4 DEF SessionRecord, Stands
  <2> QED  BY <1>1, <2>1, <2>5 DEF OutInv, Opened
<1>4. OutMove /\ out \subseteq out'
  BY <1>1, <1>3 DEF OutMove
<1> QED  BY <1>1, <1>2, <1>4, NoStep

(* Nothing of what is at stake here is written.                            *)
LEMMA QuietStep ==
  ASSUME IInv, IInv', OutInv, NEW c \in Call, Only(c), CallMoves(c),
         c \notin Auth \cup Confirm, UNCHANGED <<sessions, users, out>>
  PROVE  OutInv'
<1>1. SessionsMove /\ UsersMove /\ OutMove /\ out \subseteq out' /\ Sound(c)'
  BY StoreMoves DEF IInv, SessionsKept, UsersMove, OutMove, Sound
<1> QED  BY <1>1, OneStep

LEMMA RequestOut ==
  ASSUME IInv, IInv', OutInv, NEW r \in Request,
         GetRecord(r) \/ IssueStepUp(r) \/ SpendOthers(r)
  PROVE  OutInv'
<1>1. r \in Call \ (Session \cup SignOut \cup Auth \cup Confirm \cup Deletion)
  BY Apart, AllApart DEF Call
<1>2. call[r] \in CallRecord /\ DOMAIN call = Call
  BY <1>1 DEF IInv, CallsTyped
<1>3. Only(r) /\ call[r].pc # "done"
  <2>1. CASE GetRecord(r)
    BY <1>2, <2>1 DEF GetRecord, Only
  <2>2. CASE IssueStepUp(r) \/ SpendOthers(r)
    BY <1>2, <2>2 DEF IssueStepUp, SpendOthers, Goes, Only
  <2> QED  BY <2>1, <2>2
<1>4. CallMoves(r)
  BY <1>1, <1>3 DEF CallMoves
<1>5. UNCHANGED <<sessions, users, out>>
  BY DEF GetRecord, IssueStepUp, SpendOthers, sessionStore, history
<1> QED  BY <1>1, <1>3, <1>4, <1>5, QuietStep

LEMMA CollectOut ==
  ASSUME IInv, IInv', OutInv, NEW c \in Collect, CollectSessions(c) \/ CollectTokens(c)
  PROVE  OutInv'
<1>1. c \in Call \ (Session \cup SignOut \cup Request \cup Auth \cup Confirm \cup Deletion)
  BY Apart, AllApart DEF Call
<1>2. Only(c)
  <2>1. DOMAIN call = Call
    BY DEF IInv, CallsTyped
  <2>2. CASE CollectSessions(c)
    BY <2>1, <2>2 DEF CollectSessions, Only
  <2>3. CASE CollectTokens(c)
    BY <2>1, <2>3 DEF CollectTokens, Goes, Only
  <2> QED  BY <2>2, <2>3
<1>3. CallMoves(c) /\ Sound(c)'
  BY <1>1 DEF CallMoves, Sound
<1>4. UNCHANGED <<users, out>>
  BY DEF CollectSessions, CollectTokens, history
<1>5. SessionsMove
  BY StoreMoves DEF IInv, SessionsKept, CollectSessions, CollectTokens, sessionStore
<1>6. UsersMove /\ OutMove /\ out \subseteq out'
  BY <1>4 DEF UsersMove, OutMove
<1> QED  BY <1>1, <1>2, <1>3, <1>5, <1>6, OneStep

(* An update keeps who is there; the clocks only end sessions.             *)
LEMMA RestOut ==
  ASSUME IInv, IInv', OutInv, Tick \/ KeyTick \/ \E u \in UserId : UpdateUser(u)
  PROVE  OutInv'
<1>1. call' = call /\ out' = out
  BY DEF Tick, KeyTick, UpdateUser, history
<1>2. SessionsMove
  BY StoreMoves DEF IInv, SessionsKept, Tick, KeyTick, UpdateUser, sessionStore
<1>3. UsersMove
  <2>1. ASSUME NEW u \in UserId, UpdateUser(u)
        PROVE  UsersMove
    <3>1. PICK active \in BOOLEAN, factor \in BOOLEAN, email \in Email :
            users' = [users EXCEPT ![u] = Updated(@, active, factor, email)]
      BY <2>1 DEF UpdateUser
    <3>2. users[u].present /\ DOMAIN users = UserId
      BY <2>1 DEF UpdateUser, IInv, RestTyped
    <3> QED  BY <3>1, <3>2 DEF UsersMove
  <2> QED  BY <2>1 DEF UsersMove, Tick, KeyTick
<1>4. OutMove /\ out \subseteq out'
  BY <1>1 DEF OutMove
<1> QED  BY <1>1, <1>2, <1>3, <1>4, NoStep

(* What a confirmation knows once its attempt is counted.                  *)
LEMMA CountCarries ==
  ASSUME IInv, NEW c \in Confirm, NEW r \in Request, NEW s \in Session,
         NEW code \in 0..MaxStep, CountAttempt(c, r, s, code)
  PROVE  /\ Only(c)
         /\ call'[c].pc \in {"counted", "refused"}
         /\ call'[c].session = s
         /\ call'[c].challenge = r
         /\ call'[c].code = code
         /\ (call'[c].late <=> s \in out)
<1> DEFINE token == Answer(tokens', r, "stepUp")
           taken == Usable(token) /\ token.attempts <= CODE_ATTEMPTS
           counted == [call[c] EXCEPT !.pc = IF taken THEN "counted" ELSE "refused",
                         !.session = s, !.challenge = r, !.code = code,
                         !.attempts = IF taken THEN token.attempts ELSE 0,
                         !.late = s \in out]
<1>1. c \in Call /\ call[c] \in CallRecord
  BY DEF IInv, CallsTyped, Call
<1>2. call' = [call EXCEPT ![c] = counted]
  BY DEF CountAttempt
<1> HIDE DEF taken
<1>3. /\ counted.pc \in {"counted", "refused"}
      /\ counted.session = s /\ counted.challenge = r /\ counted.code = code
      /\ counted.late = (s \in out)
  BY <1>1 DEF CallRecord
<1> HIDE DEF counted
<1>4. Only(c) /\ call'[c] = counted
  BY <1>1, <1>2 DEF Only, IInv, CallsTyped
<1> QED  BY <1>3, <1>4

(* And once its code is checked.                                           *)
LEMMA CheckCarries ==
  ASSUME IInv, NEW c \in Confirm, CheckCode(c)
  PROVE  LET user == users[UserOf[call[c].challenge]] IN
         /\ Only(c)
         /\ call'[c].pc = Checked(c, user)
         /\ call'[c].user = user
         /\ call'[c].session = call[c].session
         /\ call'[c].challenge = call[c].challenge
         /\ call'[c].code = call[c].code
         /\ call'[c].late = call[c].late
<1> DEFINE user == users[UserOf[call[c].challenge]]
           pc == Checked(c, user)
<1>1. c \in Call /\ call[c] \in CallRecord
  BY DEF IInv, CallsTyped, Call
<1>2. call' = [call EXCEPT ![c].pc = pc, ![c].user = user]
  BY DEF CheckCode
<1> HIDE DEF user, pc
<1>3. call' = [call EXCEPT ![c] = [call[c] EXCEPT !.pc = pc, !.user = user]]
  BY <1>1, <1>2 DEF IInv, CallsTyped, CallRecord
<1>4. Only(c) /\ call'[c] = [call[c] EXCEPT !.pc = pc, !.user = user]
  BY <1>1, <1>3 DEF Only, IInv, CallsTyped
<1>5. /\ Only(c)
      /\ call'[c].pc = pc
      /\ call'[c].user = user
      /\ call'[c].session = call[c].session
      /\ call'[c].challenge = call[c].challenge
      /\ call'[c].code = call[c].code
      /\ call'[c].late = call[c].late
  BY <1>1, <1>4 DEF CallRecord
<1> QED  BY <1>5 DEF user, pc

Ways == {"refused", "burn", "refuse", "write", "spend"}

(* A step of the confirmation after it has presented the session.          *)
LEMMA ConfirmOut ==
  ASSUME IInv, IInv', OutInv, NEW c \in Confirm,
         \/ \E r \in Request, s \in Session, code \in 0..MaxStep : CountAttempt(c, r, s, code)
         \/ FindToConfirm(c) \/ CheckCode(c) \/ WriteCode(c)
         \/ SpendChallenge(c) \/ SpendRefused(c) \/ Reauthenticate(c)
  PROVE  OutInv'
<1>1. c \in Call \ (Session \cup SignOut \cup Request \cup Auth \cup Deletion)
  BY Apart, AllApart DEF Call
<1>2. OutMove /\ out \subseteq out' /\ out' = out
  BY DEF OutMove, CountAttempt, FindToConfirm, CheckCode, WriteCode, SpendChallenge,
         SpendRefused, Reauthenticate, history
<1>3. SessionsMove
  BY StoreMoves DEF IInv, SessionsKept, CountAttempt, FindToConfirm, CheckCode, WriteCode,
         SpendChallenge, SpendRefused, Reauthenticate, sessionStore
<1>4. CASE UNCHANGED users
  <2>1. UsersMove
    BY <1>4 DEF UsersMove
  <2>2. ASSUME NEW r \in Request, NEW s \in Session, NEW code \in 0..MaxStep,
               CountAttempt(c, r, s, code)
        PROVE  OutInv'
    <3>1. /\ Only(c)
          /\ call'[c].pc \in {"counted", "refused"}
          /\ call'[c].session = s
          /\ (call'[c].late <=> s \in out)
      BY <2>2, CountCarries
    <3>2. call[s].pc = "open"
      BY <2>2 DEF CountAttempt, Presents
    <3>3. CallMoves(c)
      BY <1>1, <3>1, <3>2 DEF CallMoves, Holds
    <3>4. Sound(c)'
      BY <1>1, <1>2, <3>1 DEF Sound
    <3> QED  BY <1>1, <1>2, <1>3, <2>1, <3>1, <3>3, <3>4, OneStep
  <2>3. CASE FindToConfirm(c)
    <3>1. PICK pc \in {"session", "burn", "refused"} :
            /\ Goes(c, pc)
            /\ pc = "session" => PresentsOwn(c)
      BY <2>3 DEF FindToConfirm, Refusal
    <3>2. Carries(c, pc) /\ call[c].pc = "counted"
      BY <1>1, <2>3, <3>1, GoesCarries DEF IInv, FindToConfirm
    <3>3. CallMoves(c)
      BY <1>1, <3>1, <3>2 DEF CallMoves, Holds, Carries
    <3>4. ASSUME pc = "session"
          PROVE  /\ UserOf[call[c].session] = UserOf[call[c].challenge]
                 /\ call[c].late => ~users[UserOf[call[c].session]].present
      <4>1. call[c].session \in Session /\ Stands(sessions, call[c].session)
            /\ sessions[call[c].session].userId = UserOf[call[c].challenge]
        BY <3>1, <3>2, <3>4 DEF PresentsOwn, Standing, OutInv, Opened
      <4>2. sessions[call[c].session].userId = UserOf[call[c].session]
        BY <4>1 DEF OutInv, Opened, Live, Stands
      <4>3. call[c].late => call[c].session \in out
        BY <1>1, <3>2 DEF OutInv, Sound
      <4> QED  BY <4>1, <4>2, <4>3, LateFound
    <3>5. Sound(c)'
      BY <1>1, <1>4, <3>1, <3>2, <3>4 DEF Sound, Carries
    <3> QED  BY <1>1, <1>2, <1>3, <2>1, <3>2, <3>3, <3>5, OneStep DEF Carries
  <2>4. CASE CheckCode(c)
    <3> DEFINE user == users[UserOf[call[c].challenge]]
    <3>1. /\ Only(c)
          /\ call'[c].pc = Checked(c, user)
          /\ call'[c].session = call[c].session
          /\ call'[c].challenge = call[c].challenge
          /\ call'[c].late = call[c].late
      BY <2>4, CheckCarries
    <3>2. /\ Checked(c, user) \in Ways
          /\ ~user.present => Checked(c, user) \in {"burn", "refused"}
      BY DEF Checked, Refusal, Ways
    <3>3. call[c].pc = "session" /\ UserOf[call[c].session] = UserOf[call[c].challenge]
      BY <1>1, <2>4 DEF CheckCode, OutInv, Sound
    <3>4. CallMoves(c)
      BY <1>1, <3>1, <3>2, <3>3 DEF CallMoves, Holds, Ways
    <3>5. Sound(c)'
      <4>1. call[c].late => ~user.present
        BY <1>1, <3>3 DEF OutInv, Sound
      <4> QED  BY <1>1, <3>1, <3>2, <3>3, <4>1 DEF Sound, Ways
    <3> QED  BY <1>1, <1>2, <1>3, <2>1, <3>1, <3>4, <3>5, OneStep
  <2>5. CASE WriteCode(c) \/ SpendChallenge(c) \/ SpendRefused(c) \/ Reauthenticate(c)
    <3>1. PICK pc \in {"refused", "spend", "stamp", "stamped"} :
            /\ Goes(c, pc)
            /\ \/ pc = "refused"
               \/ pc = "spend" /\ call[c].pc = "write"
               \/ pc = "stamp" /\ call[c].pc = "spend"
               \/ pc = "stamped" /\ call[c].pc = "stamp"
      BY <2>5 DEF WriteCode, SpendChallenge, SpendRefused, Reauthenticate
    <3>2. Carries(c, pc)
      BY <1>1, <3>1, GoesCarries DEF IInv
    <3>3. CallMoves(c)
      <4>1. call[c].pc # "idle"
        BY <2>5 DEF WriteCode, SpendChallenge, SpendRefused, Reauthenticate
      <4> QED  BY <1>1, <3>1, <3>2, <4>1 DEF CallMoves, Holds, Carries
    <3>4. Sound(c)'
      BY <1>1, <3>1, <3>2 DEF Sound, Carries, OutInv
    <3> QED  BY <1>1, <1>2, <1>3, <2>1, <3>2, <3>3, <3>4, OneStep DEF Carries
  <2> QED  BY <2>2, <2>3, <2>4, <2>5
<1>5. CASE ~UNCHANGED users
  <2> DEFINE u == UserOf[call[c].challenge]
  <2>1. /\ call[c].pc = "write" /\ Goes(c, "spend")
        /\ users' = [users EXCEPT ![u].version = @ + 1, ![u].lastStep = call[c].code]
    BY <1>5 DEF CountAttempt, FindToConfirm, CheckCode, WriteCode, SpendChallenge,
                SpendRefused, Reauthenticate
  <2>2. UsersMove
    <3> DEFINE counted == [users EXCEPT ![u].version = @ + 1]
    <3>1. \A v \in UserId : users[v] \in UserRecord
      BY DEF IInv, RestTyped
    <3>2. users' = [counted EXCEPT ![u].lastStep = call[c].code]
      BY <2>1
    <3>3. DOMAIN counted = UserId /\ \A v \in UserId : DOMAIN counted[v] = DOMAIN users[v]
      BY <3>1 DEF UserRecord, IInv, RestTyped
    <3>4. \A v \in UserId : counted[v].present = users[v].present
      BY <3>1 DEF UserRecord, IInv, RestTyped
    <3> HIDE DEF counted
    <3>5. \A v \in UserId : users'[v].present = counted[v].present
      BY <3>1, <3>2, <3>3 DEF UserRecord
    <3> QED  BY <3>4, <3>5 DEF UsersMove
  <2>3. Carries(c, "spend")
    BY <1>1, <2>1, GoesCarries DEF IInv
  <2>4. CallMoves(c)
    BY <1>1, <2>1, <2>3 DEF CallMoves, Holds, Carries
  <2>5. Sound(c)'
    BY <1>1, <2>1, <2>3 DEF Sound, Carries, OutInv
  <2> QED  BY <1>1, <1>2, <1>3, <2>2, <2>3, <2>4, <2>5, OneStep DEF Carries
<1> QED  BY <1>4, <1>5

(* What a deletion knows once it looked for the user.                      *)
LEMMA FoundCarries ==
  ASSUME IInv, NEW d \in Deletion, FindToDelete(d)
  PROVE  /\ Only(d)
         /\ call'[d].pc = IF users[UserOf[d]].present THEN "delete" ELSE "sessions"
         /\ ~call'[d].deleted
         /\ (call'[d].quiet <=> ~users[UserOf[d]].present /\ Quiet(UserOf[d]))
<1> DEFINE pc == IF users[UserOf[d]].present THEN "delete" ELSE "sessions"
           quiet == ~users[UserOf[d]].present /\ Quiet(UserOf[d])
           found == [call[d] EXCEPT !.pc = pc, !.deleted = FALSE, !.quiet = quiet]
<1>1. d \in Call /\ call[d] \in CallRecord
  BY DEF IInv, CallsTyped, Call
<1>2. call' = [call EXCEPT ![d] = found]
  BY DEF FindToDelete
<1> HIDE DEF pc, quiet
<1>3. found.pc = pc /\ found.deleted = FALSE /\ found.quiet = quiet
  BY <1>1 DEF CallRecord
<1> HIDE DEF found
<1>4. Only(d) /\ call'[d] = found
  BY <1>1, <1>2 DEF Only, IInv, CallsTyped
<1>5. ~call'[d].deleted
  BY <1>3, <1>4
<1>6. call'[d].quiet <=> quiet
  BY <1>3, <1>4
<1>7. call'[d].pc = pc
  BY <1>3, <1>4
<1> QED  BY <1>4, <1>5, <1>6, <1>7 DEF pc, quiet

(* And once it deleted them, if it is told so.                             *)
LEMMA GoneCarries ==
  ASSUME IInv, NEW d \in Deletion, DeleteUser(d)
  PROVE  /\ Only(d)
         /\ call'[d].quiet = call[d].quiet
         /\ \/ /\ call'[d].pc = "sessions"
               /\ (call'[d].deleted <=> users[UserOf[d]].present)
               /\ users' = [users EXCEPT ![UserOf[d]].present = FALSE]
            \/ /\ call'[d].pc = "failed"
               /\ call'[d].deleted = call[d].deleted
               /\ users' \in {users, [users EXCEPT ![UserOf[d]].present = FALSE]}
<1>1. d \in Call /\ call[d] \in CallRecord /\ DOMAIN call = Call
  BY DEF IInv, CallsTyped, Call
<1>2. CASE /\ users' = [users EXCEPT ![UserOf[d]].present = FALSE]
           /\ call' = [call EXCEPT ![d].pc = "sessions",
                                   ![d].deleted = users[UserOf[d]].present]
  <2> DEFINE there == users[UserOf[d]].present
             gone == [call[d] EXCEPT !.pc = "sessions", !.deleted = there]
  <2>1. call' = [call EXCEPT ![d].pc = "sessions", ![d].deleted = there]
    BY <1>2
  <2> HIDE DEF there
  <2>2. call' = [call EXCEPT ![d] = gone]
    BY <1>1, <2>1
  <2>3. gone.pc = "sessions" /\ gone.deleted = there /\ gone.quiet = call[d].quiet
    BY <1>1 DEF CallRecord
  <2> HIDE DEF gone
  <2>4. Only(d) /\ call'[d] = gone
    BY <1>1, <2>2 DEF Only
  <2>5. call'[d].deleted <=> there
    BY <2>3, <2>4
  <2> QED  BY <1>2, <2>3, <2>4, <2>5 DEF there
<1>3. CASE /\ users' \in {users, [users EXCEPT ![UserOf[d]].present = FALSE]}
           /\ Goes(d, "failed")
  <2>1. Carries(d, "failed")
    BY <1>1, <1>3, GoesCarries DEF IInv
  <2> QED  BY <1>3, <2>1 DEF Carries
<1> QED  BY <1>2, <1>3 DEF DeleteUser

(* A user deleted stays so.                                                *)
LEMMA GoneMove ==
  ASSUME RestTyped, NEW u \in UserId,
         users' \in {users, [users EXCEPT ![u].present = FALSE]}
  PROVE  UsersMove /\ (users' # users => ~users'[u].present)
<1>1. \A v \in UserId : users[v] \in UserRecord
  BY DEF RestTyped
<1>2. CASE users' = users
  BY <1>2 DEF UsersMove
<1>3. CASE users' = [users EXCEPT ![u].present = FALSE]
  <2>1. users'[u] = [users[u] EXCEPT !.present = FALSE]
    BY <1>3 DEF RestTyped
  <2>2. users'[u].present = FALSE
    BY <1>1, <2>1 DEF UserRecord
  <2>3. \A v \in UserId \ {u} : users'[v] = users[v]
    BY <1>3 DEF RestTyped
  <2> QED  BY <2>2, <2>3 DEF UsersMove
<1> QED  BY <1>2, <1>3

(* A deletion reaches every session of the user, in Redis by their set.    *)
LEMMA DeletionMove ==
  ASSUME IInv, NEW d \in Deletion, DeleteSessionsOf(UserOf[d])
  PROVE  \A s \in Live(sessions') : sessions'[s].userId # UserOf[d]
<1> SUFFICES ASSUME NEW s \in Live(sessions'), sessions'[s].userId = UserOf[d]
             PROVE  FALSE
  OBVIOUS
<1>1. s \in Session /\ s \notin SessionsNamed(UserOf[d]) /\ sessions'[s] = sessions[s]
  BY DEF Live, DeleteSessionsOf, deleteSessions
<1>2. s \in Live(sessions) /\ sessions[s].userId = UserOf[d]
  BY <1>1 DEF Live
<1> QED  BY <1>1, <1>2 DEF SessionsNamed, OfUser, IInv, SessionsKept, SessionsListed

LEMMA DeletionOut ==
  ASSUME IInv, IInv', OutInv, NEW d \in Deletion,
         \/ FindToDelete(d) \/ DeleteUser(d) \/ DeleteUserSessions(d)
         \/ DeleteUserTokens(d) \/ DeleteEntity(d)
  PROVE  OutInv'
<1>1. /\ d \in Call \ (Session \cup SignOut \cup Request \cup Auth \cup Confirm)
      /\ UserOf[d] \in UserId
  BY Apart, AllApart, Constants DEF Call
<1>2. Sound(d)'
  BY <1>1 DEF Sound
<1>3. CASE FindToDelete(d)
  <2>1. /\ Only(d)
        /\ call'[d].pc = IF users[UserOf[d]].present THEN "delete" ELSE "sessions"
    BY <1>3, FoundCarries
  <2>2. UNCHANGED <<sessions, users, out>>
    BY <1>3 DEF FindToDelete, sessionStore, history
  <2>3. CallMoves(d)
    BY <1>1, <2>1, <2>2 DEF CallMoves
  <2> QED  BY <1>1, <2>1, <2>2, <2>3, QuietStep
<1>4. CASE DeleteUser(d)
  <2>1. /\ Only(d)
        /\ \/ call'[d].pc = "sessions" /\ users' = [users EXCEPT ![UserOf[d]].present = FALSE]
           \/ call'[d].pc = "failed"
        /\ users' \in {users, [users EXCEPT ![UserOf[d]].present = FALSE]}
    BY <1>4, GoneCarries
  <2>2. UsersMove
    BY <1>1, <2>1, GoneMove DEF IInv
  <2>3. call'[d].pc = "sessions" => ~users'[UserOf[d]].present
    <3>1. ASSUME users' = [users EXCEPT ![UserOf[d]].present = FALSE]
          PROVE  ~users'[UserOf[d]].present
      <4>1. users[UserOf[d]] \in UserRecord
        BY <1>1 DEF IInv, RestTyped
      <4>2. users'[UserOf[d]] = [users[UserOf[d]] EXCEPT !.present = FALSE]
        BY <1>1, <3>1 DEF IInv, RestTyped
      <4> QED  BY <4>1, <4>2 DEF UserRecord
    <3> QED  BY <2>1, <3>1
  <2>4. CallMoves(d)
    BY <1>1, <2>1, <2>3 DEF CallMoves
  <2>5. SessionsMove
    BY <1>4, StoreMoves DEF IInv, SessionsKept, DeleteUser, sessionStore
  <2>6. OutMove /\ out \subseteq out'
    BY <1>4 DEF OutMove, DeleteUser, history
  <2> QED  BY <1>1, <1>2, <2>1, <2>2, <2>4, <2>5, <2>6, OneStep
<1>5. CASE DeleteUserSessions(d) \/ DeleteUserTokens(d) \/ DeleteEntity(d)
  <2>1. PICK pc \in {"tokens", "entity", "done", "failed"} :
          /\ Goes(d, pc)
          /\ pc = "tokens" => DeleteSessionsOf(UserOf[d]) /\ call[d].pc = "sessions"
          /\ pc = "entity" => call[d].pc = "tokens"
    BY <1>5 DEF DeleteUserSessions, DeleteUserTokens, DeleteEntity, Stops, Fails
  <2>2. Carries(d, pc)
    BY <1>1, <2>1, GoesCarries DEF IInv
  <2>3. UsersMove
    BY <1>5 DEF UsersMove, DeleteUserSessions, DeleteUserTokens, DeleteEntity
  <2>4. pc = "tokens" => \A s \in Live(sessions') : sessions'[s].userId # UserOf[d]
    BY <2>1, DeletionMove
  <2>5. CallMoves(d)
    BY <1>1, <2>1, <2>2, <2>4 DEF CallMoves, Carries
  <2>6. SessionsMove
    BY <1>5, StoreMoves
    DEF IInv, SessionsKept, DeleteUserSessions, DeleteUserTokens, DeleteEntity,
        DeleteSessionsOf, sessionStore
  <2>7. OutMove
    <3>1. CASE out' = out
      BY <3>1 DEF OutMove
    <3>2. CASE /\ call[d].pc = "entity"
               /\ out' = out \cup {s \in Session : UserOf[s] = UserOf[d]}
      <4>1. CallsMove
        BY <1>1, <2>2, <2>3, <2>5, OneMoves DEF Carries
      <4>2. Moves
        BY <2>3, <2>6, <4>1 DEF Moves
      <4>3. Left(UserOf[d])
        BY <3>2 DEF OutInv, Deleted
      <4>4. Left(UserOf[d])'
        BY <1>1, <4>2, <4>3, LeftStays DEF OutInv, IInv
      <4> QED  BY <3>2, <4>4 DEF OutMove, Left
    <3> QED  BY <1>5, <3>1, <3>2 DEF DeleteUserSessions, DeleteUserTokens, DeleteEntity
  <2>8. out \subseteq out'
    BY <1>5 DEF DeleteUserSessions, DeleteUserTokens, DeleteEntity
  <2> QED  BY <1>1, <1>2, <2>2, <2>3, <2>5, <2>6, <2>7, <2>8, OneStep DEF Carries
<1> QED  BY <1>3, <1>4, <1>5

LEMMA BeginsOut == Init => OutInv
<1> SUFFICES ASSUME Init PROVE OutInv
  OBVIOUS
<1>1. scene.opened \subseteq Session
  BY Constants DEF Init, SceneRecord
<1>2. \A c \in Call \ scene.opened : call[c].pc = "idle" /\ call[c].late = FALSE
  BY DEF Init, NewCall
<1>3. \A s \in scene.opened : call[s].pc = "open"
  BY <1>1 DEF Init, NewCall, Call
<1>4. \A c \in Auth \cup SignOut \cup Confirm \cup Deletion : c \in Call \ scene.opened
  BY <1>1, Apart, AllApart DEF Call
<1>5. Opened
  <2>1. \A s \in Live(sessions) : s \in scene.opened /\ sessions[s].userId = UserOf[s]
    BY DEF Live, Init, NewSession
  <2> QED  BY <1>2, <1>3, <1>4, <2>1 DEF Opened
<1>6. OutEnded /\ Deleted
  BY <1>2, <1>4 DEF OutEnded, Deleted, Init
<1>7. \A c \in Call : Sound(c)
  BY <1>2, <1>4 DEF Sound
<1> QED  BY <1>5, <1>6, <1>7 DEF OutInv

LEMMA StepOut == IInv /\ IInv' /\ OutInv /\ [Next]_vars => OutInv'
<1> SUFFICES ASSUME IInv, IInv', OutInv, [Next]_vars PROVE OutInv'
  OBVIOUS
<1>1. CASE UNCHANGED vars
  <2>1. SessionsMove
    BY <1>1, StoreMoves DEF vars, IInv, SessionsKept
  <2>2. call' = call /\ UsersMove /\ OutMove /\ out \subseteq out'
    BY <1>1 DEF vars, UsersMove, OutMove
  <2> QED  BY <2>1, <2>2, NoStep
<1>2. CASE \E s \in Session : BeginSignIn(s) \/ OpenSession(s)
  BY <1>2, SignInOut
<1>3. CASE \E a \in Auth : \/ \E s \in Session : FindSession(a, s)
                           \/ FindUser(a) \/ ExtendSession(a)
  BY <1>3, AuthOut
<1>4. CASE \E o \in SignOut : RevokeSession(o) \/ \E s \in Session : FindToSignOut(o, s)
  BY <1>4, SignOutOut
<1>5. CASE \E u \in UserId :
             \/ UpdateUser(u)
             \/ \E except \in {{}} \cup {{s} : s \in Session} : SignOutEverywhere(u, except)
  BY <1>5, RestOut, EverywhereOut
<1>6. CASE \E r \in Request : GetRecord(r) \/ IssueStepUp(r) \/ SpendOthers(r)
  BY <1>6, RequestOut
<1>7. CASE \E c \in Confirm :
             \/ \E r \in Request, s \in Session, code \in 0..MaxStep : CountAttempt(c, r, s, code)
             \/ FindToConfirm(c) \/ CheckCode(c) \/ WriteCode(c)
             \/ SpendChallenge(c) \/ SpendRefused(c) \/ Reauthenticate(c)
  BY <1>7, ConfirmOut
<1>8. CASE \E d \in Deletion :
             \/ FindToDelete(d) \/ DeleteUser(d) \/ DeleteUserSessions(d)
             \/ DeleteUserTokens(d) \/ DeleteEntity(d)
  BY <1>8, DeletionOut
<1>9. CASE \E c \in Collect : CollectSessions(c) \/ CollectTokens(c)
  BY <1>9, CollectOut
<1>10. CASE Tick \/ KeyTick
  BY <1>10, RestOut
<1> QED  BY <1>1, <1>2, <1>3, <1>4, <1>5, <1>6, <1>7, <1>8, <1>9, <1>10 DEF Next

(* Once a sign-out, a sign-out everywhere or a deletion answered, no       *)
(* request that comes after it is taken for the user by a session it       *)
(* ended, nor is such a session stamped by a step-up (OutForGood), for any *)
(* users, sessions, calls at once and clocks, over rows or Redis.          *)
THEOREM EndedForGood == Spec => []OutForGood
<1>1. OutInv => OutForGood
  BY DEF OutInv, Sound, OutForGood, Call
<1> QED  BY BeginsTyped, StepTyped, BeginsOut, StepOut, <1>1, PTL DEF Spec

(* The steps a call takes itself, and that no step of another touches it.  *)
Acts(c) ==
  \/ c \in Session /\ (BeginSignIn(c) \/ OpenSession(c))
  \/ c \in Auth /\ (\/ \E s \in Session : FindSession(c, s)
                    \/ FindUser(c) \/ ExtendSession(c))
  \/ c \in SignOut /\ (RevokeSession(c) \/ \E s \in Session : FindToSignOut(c, s))
  \/ c \in Request /\ (GetRecord(c) \/ IssueStepUp(c) \/ SpendOthers(c))
  \/ c \in Confirm /\
       (\/ \E r \in Request, s \in Session, code \in 0..MaxStep : CountAttempt(c, r, s, code)
        \/ FindToConfirm(c) \/ CheckCode(c) \/ WriteCode(c)
        \/ SpendChallenge(c) \/ SpendRefused(c) \/ Reauthenticate(c))
  \/ c \in Deletion /\
       (\/ FindToDelete(c) \/ DeleteUser(c) \/ DeleteUserSessions(c)
        \/ DeleteUserTokens(c) \/ DeleteEntity(c))
  \/ c \in Collect /\ (CollectSessions(c) \/ CollectTokens(c))

(* The steps of no call.                                                   *)
Passes ==
  \/ UNCHANGED vars
  \/ Tick \/ KeyTick
  \/ \E u \in UserId :
       \/ UpdateUser(u)
       \/ \E except \in {{}} \cup {{s} : s \in Session} : SignOutEverywhere(u, except)

LEMMA ActsAlone ==
  ASSUME IInv, [Next]_vars
  PROVE  \/ Passes /\ call' = call
         \/ \E c \in Call : Acts(c) /\ Only(c)
<1>1. Passes => call' = call
  BY DEF Passes, vars, Tick, KeyTick, UpdateUser, SignOutEverywhere
<1>2. Passes \/ \E c \in Call : Acts(c)
  BY DEF Next, Passes, Acts, Call
<1>3. ASSUME NEW c \in Call, Acts(c) PROVE Only(c)
  <2>1. DOMAIN call = Call
    BY DEF IInv, CallsTyped
  <2>2. CASE BeginSignIn(c) \/ OpenSession(c)
    BY <2>1, <2>2 DEF Only, BeginSignIn, OpenSession, Goes
  <2>3. CASE \/ \E s \in Session : FindSession(c, s)
             \/ FindUser(c) \/ ExtendSession(c)
    BY <2>1, <2>3 DEF Only, FindSession, FindUser, ExtendSession, Goes
  <2>4. CASE RevokeSession(c) \/ \E s \in Session : FindToSignOut(c, s)
    BY <2>1, <2>4 DEF Only, RevokeSession, FindToSignOut, Goes
  <2>5. CASE GetRecord(c) \/ IssueStepUp(c) \/ SpendOthers(c)
    BY <2>1, <2>5 DEF Only, GetRecord, IssueStepUp, SpendOthers, Goes
  <2>6. CASE \/ \E r \in Request, s \in Session, code \in 0..MaxStep : CountAttempt(c, r, s, code)
             \/ FindToConfirm(c) \/ CheckCode(c) \/ WriteCode(c)
             \/ SpendChallenge(c) \/ SpendRefused(c) \/ Reauthenticate(c)
    BY <2>1, <2>6 DEF Only, CountAttempt, FindToConfirm, CheckCode, WriteCode, SpendChallenge,
                      SpendRefused, Reauthenticate, Goes
  <2>7. CASE \/ FindToDelete(c) \/ DeleteUser(c) \/ DeleteUserSessions(c)
             \/ DeleteUserTokens(c) \/ DeleteEntity(c)
    BY <2>1, <2>7 DEF Only, FindToDelete, DeleteUser, DeleteUserSessions, DeleteUserTokens,
                      DeleteEntity, Stops, Fails, Goes
  <2>8. CASE CollectSessions(c) \/ CollectTokens(c)
    BY <2>1, <2>8 DEF Only, CollectSessions, CollectTokens, Goes
  <2> QED  BY <1>3, <2>2, <2>3, <2>4, <2>5, <2>6, <2>7, <2>8 DEF Acts
<1> QED  BY <1>1, <1>2, <1>3

(* Who goes on from a renewal or a stamp does so by its own write.         *)
LEMMA ActsItself ==
  ASSUME IInv, [Next]_vars, NEW c \in Auth \cup Confirm,
         call[c].pc \in {"renew", "stamp"}, call'[c].pc \in {"renewed", "stamped"}
  PROVE  ExtendSession(c) \/ Reauthenticate(c)
<1>1. c \in Call /\ c \notin Session \cup SignOut \cup Request \cup Deletion \cup Collect
  BY Apart DEF Call
<1>2. Acts(c)
  BY <1>1, ActsAlone DEF Only
<1> QED  BY <1>1, <1>2 DEF Acts, FindSession, Presents, FindUser, CountAttempt, FindToConfirm,
                           CheckCode, WriteCode, SpendChallenge, SpendRefused

(* A renewal or a confirmation that goes through writes on a session that  *)
(* stands, and which no call that answered has ended: what it read before  *)
(* brings nothing back (NeverBroughtBack).                                 *)
THEOREM EndedStayEnded == Spec => NeverBroughtBack
<1>1. IInv /\ OutInv /\ [Next]_vars =>
        [\A c \in Auth \cup Confirm :
           /\ call[c].pc \in {"renew", "stamp"}
           /\ call'[c].pc \in {"renewed", "stamped"}
           => call[c].session \notin out]_vars
  <2> SUFFICES ASSUME IInv, OutInv, [Next]_vars, NEW c \in Auth \cup Confirm,
                      call[c].pc \in {"renew", "stamp"},
                      call'[c].pc \in {"renewed", "stamped"},
                      call[c].session \in out
               PROVE  FALSE
    OBVIOUS
  <2>1. ExtendSession(c) \/ Reauthenticate(c)
    BY ActsItself
  <2>2. Holds(c) /\ Stands(sessions, call[c].session)
    <3>1. /\ c \in Call /\ DOMAIN call = Call /\ call[c] \in CallRecord
      BY DEF IInv, CallsTyped, Call
    <3>2. CASE ExtendSession(c)
      BY <3>1, <3>2 DEF ExtendSession, Goes, Holds, CallRecord
    <3>3. CASE Reauthenticate(c)
      BY <3>1, <3>3 DEF Reauthenticate, Goes, Holds, CallRecord
    <3> QED  BY <2>1, <3>2, <3>3
  <2> QED  BY <2>2 DEF OutInv, OutEnded, Left
<1> QED  BY BeginsTyped, StepTyped, BeginsOut, StepOut, <1>1, PTL DEF Spec, NeverBroughtBack

-----------------------------------------------------------------------------
(* What a confirmation proves (StampsProven).  A code is taken where it is  *)
(* the user's next, by a write at the version it was read at: so what is    *)
(* read is what is there as long as the version is (CodesTaken), and every *)
(* code taken is behind the user's last.                                   *)

Issued == \A c \in Confirm : call[c].pc # "idle" => call[call[c].challenge].pc = "done"

ByApp(c) == call[call[c].challenge].user.factor

Stamping == {c \in Confirm : call[c].pc \in {"stamp", "stamped"}}
Accepting == {c \in Confirm : call[c].pc \in {"spend", "stamp", "stamped"} /\ ByApp(c)}
ChallengeUser(c) == UserOf[call[c].challenge]

SpentOnce ==
  \A c \in Stamping :
    /\ ~Unspent(tokens[call[c].challenge])
    /\ \A d \in Stamping \ {c} : call[c].challenge # call[d].challenge

CodesTaken ==
  /\ \A c \in Confirm :
       call[c].pc = "write" =>
         /\ ByApp(c) /\ call[c].user \in UserRecord
         /\ call[c].code > call[c].user.lastStep
         /\ call[c].user.version <= users[ChallengeUser(c)].version
         /\ call[c].user.version = users[ChallengeUser(c)].version =>
              call[c].user.lastStep = users[ChallengeUser(c)].lastStep
  /\ \A c \in Accepting :
       /\ call[c].code <= users[ChallengeUser(c)].lastStep
       /\ \A d \in Accepting \ {c} :
            ChallengeUser(c) = ChallengeUser(d) => call[c].code # call[d].code

StampInv == Issued /\ SpentOnce /\ CodesTaken

(* A challenge that is there was issued by its call, for its user; and one *)
(* that is spent stays spent.                                              *)
TokenMove(h) ==
  \/ Evolved(tokens[h], tokens'[h])
  \/ /\ IssueStepUp(h)
     /\ tokens'[h] = tokens[h] \/ (tokens'[h] \in TokenRecord /\ tokens'[h].userId = UserOf[h])

LEMMA SameEvolves ==
  ASSUME TokensTyped, NEW h \in Hash, tokens'[h] \in {tokens[h], None}
  PROVE  Evolved(tokens[h], tokens'[h])
<1>1. tokens[h] \in TokenRecord \cup {None}
  BY DEF TokensTyped, Store
<1> QED  BY <1>1 DEF Evolved, TokenRecord

LEMMA TokensMove ==
  ASSUME IInv, IInv', [Next]_vars, NEW h \in Hash
  PROVE  TokenMove(h)
<1>1. h \in Request /\ tokens \in Store /\ clock \in Nat
  BY Constants DEF IInv, TokensTyped, RestTyped
<1>2. CASE Passes
  <2>1. CASE KeyTick
    BY <1>1, <2>1, DeleteEvolves DEF KeyTick, TokenMove
  <2>2. CASE tokens' = tokens
    BY <1>1, <2>2, SameEvolves DEF IInv, TokenMove
  <2> QED  BY <1>2, <2>1, <2>2 DEF Passes, vars, Tick, UpdateUser, SignOutEverywhere, tokenStore
<1>3. ASSUME NEW c \in Call, Acts(c)
      PROVE  TokenMove(h)
  <2>1. CASE tokens'[h] \in {tokens[h], None}
    BY <1>1, <2>1, SameEvolves DEF IInv, TokenMove
  <2>2. ASSUME c \in Confirm, NEW r \in Request, NEW s \in Session, NEW code \in 0..MaxStep,
               CountAttempt(c, r, s, code)
        PROVE  TokenMove(h)
    BY <1>1, <2>2, CountEvolves, Constants DEF CountAttempt, TokenMove
  <2>3. CASE c \in Confirm /\ (SpendChallenge(c) \/ SpendRefused(c))
    <3>1. call[c].challenge \in Hash
      BY <2>3, Constants DEF IInv, CallsTyped, Chosen, SpendChallenge, SpendRefused
    <3>2. tokens' = consumeToken(tokens, call[c].challenge, "stepUp", clock)
      BY <2>3 DEF SpendChallenge, SpendRefused, ConsumeToken
    <3> QED  BY <1>1, <3>1, <3>2, ConsumeEvolves DEF TokenMove
  <2>4. CASE c \in Request /\ SpendOthers(c)
    <3> DEFINE spent == spendUserTokens(tokens, UserOf[c], "stepUp", clock, {c})
    <3>1. tokens'[h] \in {spent[h], tokens[h]}
      BY <2>4, <1>1 DEF SpendOthers, SpendUserTokens
    <3>2. Evolved(tokens[h], spent[h])
      BY <1>1, SpendUserEvolves
    <3> HIDE DEF spent
    <3> QED  BY <2>1, <3>1, <3>2 DEF TokenMove
  <2>5. CASE c \in Request /\ IssueStepUp(c)
    <3> DEFINE record == [kind |-> "stepUp", userId |-> UserOf[c],
                     address |-> IF call[c].user.factor THEN "" ELSE call[c].user.email,
                     attempts |-> 0, expiresAt |-> clock + TokenTtl, spentAt |-> None]
    <3>1. /\ tokens' = [insertToken(tokens, c, record) EXCEPT ![c] = Surviving(@)]
          /\ record.userId = UserOf[c]
      BY <2>5 DEF IssueStepUp, InsertToken
    <3> HIDE DEF record
    <3>2. h # c => tokens'[h] = tokens[h]
      BY <1>1, <3>1 DEF insertToken, Store
    <3>3. tokens'[c] = Surviving(IF tokens[c] = None THEN record ELSE tokens[c])
      BY <1>1, <2>5, <3>1, Constants DEF insertToken, Store
    <3>4. tokens'[c] \in {None, record, tokens[c]}
      BY <3>3 DEF Surviving
    <3>5. CASE h = c /\ tokens'[c] = record /\ record # None
      <4>1. tokens'[c] \in TokenRecord
        BY <1>1, <3>5 DEF IInv, TokensTyped, Store
      <4> QED  BY <2>5, <3>1, <3>5, <4>1 DEF TokenMove
    <3> QED  BY <2>1, <3>2, <3>4, <3>5
  <2>6. CASE c \in Collect /\ CollectTokens(c)
    BY <1>1, <2>6, DeleteEvolves DEF CollectTokens, TokenMove
  <2>7. CASE c \in Deletion /\ DeleteTokensOf(UserOf[c])
    BY <1>1, <2>1, <2>7 DEF DeleteTokensOf
  <2>8. CASE UNCHANGED tokens
    BY <2>1, <2>8
  <2>9. \/ c \in Confirm /\ \E r \in Request, s \in Session, code \in 0..MaxStep :
                               CountAttempt(c, r, s, code)
        \/ c \in Confirm /\ (SpendChallenge(c) \/ SpendRefused(c))
        \/ c \in Request /\ (SpendOthers(c) \/ IssueStepUp(c))
        \/ c \in Collect /\ CollectTokens(c)
        \/ c \in Deletion /\ DeleteTokensOf(UserOf[c])
        \/ UNCHANGED tokens
    BY <1>3 DEF Acts, BeginSignIn, OpenSession, FindSession, FindUser, ExtendSession,
                RevokeSession, FindToSignOut, GetRecord, FindToConfirm, CheckCode, WriteCode,
                Reauthenticate, FindToDelete, DeleteUser, DeleteUserSessions, DeleteUserTokens,
                DeleteEntity, CollectSessions, tokenStore
  <2> QED  BY <2>2, <2>3, <2>4, <2>5, <2>6, <2>7, <2>8, <2>9
<1> QED  BY <1>2, <1>3, ActsAlone

(* What is spent is not unspent but by the call that issues it.            *)
LEMMA SpentStays ==
  ASSUME IInv, IInv', [Next]_vars, NEW h \in Request, ~Unspent(tokens[h]), call[h].pc = "done"
  PROVE  ~Unspent(tokens'[h])
<1>1. TokenMove(h)
  BY TokensMove, Constants
<1>2. ~IssueStepUp(h)
  BY DEF IssueStepUp
<1> QED  BY <1>1, <1>2 DEF TokenMove, Evolved, Unspent

(* A request that is done is over.                                         *)
LEMMA DoneStays ==
  ASSUME IInv, [Next]_vars, NEW r \in Request, call[r].pc = "done"
  PROVE  call'[r] = call[r]
<1>1. r \in Call /\ r \notin Session \cup SignOut \cup Auth \cup Confirm \cup Deletion \cup Collect
  BY Apart DEF Call
<1>2. ~Acts(r)
  BY <1>1 DEF Acts, GetRecord, IssueStepUp, SpendOthers
<1> QED  BY <1>1, <1>2, ActsAlone DEF Only

StepsMove ==
  \A u \in UserId :
    /\ users'[u].lastStep >= users[u].lastStep
    /\ users'[u].version >= users[u].version
    /\ users'[u].version = users[u].version => users'[u].lastStep = users[u].lastStep

(* A user's steps and versions only go up; at one version they are as they *)
(* were.                                                                   *)
LEMMA StepsGoUp ==
  ASSUME IInv, CodesTaken, [Next]_vars
  PROVE  StepsMove
<1>0. \A u \in UserId : users[u] \in UserRecord
  BY DEF IInv, RestTyped
<1>1. \A u \in UserId : users[u].lastStep \in Int /\ users[u].version \in Int
  <2>1. SUFFICES ASSUME NEW u \in UserId
                 PROVE  users[u].lastStep \in Int /\ users[u].version \in Int
    OBVIOUS
  <2>2. users[u].lastStep \in 0..MaxStep /\ users[u].version \in Nat /\ MaxStep \in Nat
    BY <1>0, Constants DEF UserRecord
  <2> QED  BY <2>2
<1>2. CASE UNCHANGED users
  BY <1>1, <1>2 DEF StepsMove
<1>3. ASSUME NEW u \in UserId, UpdateUser(u)
      PROVE  StepsMove
  <2>1. PICK active \in BOOLEAN, factor \in BOOLEAN, email \in Email :
          users' = [users EXCEPT ![u] = Updated(@, active, factor, email)]
    BY <1>3 DEF UpdateUser
  <2>2. users'[u] = Updated(users[u], active, factor, email)
        /\ \A v \in UserId \ {u} : users'[v] = users[v]
    BY <2>1 DEF IInv, RestTyped
  <2>3. users'[u].lastStep = users[u].lastStep /\ users'[u].version = users[u].version + 1
    <3> DEFINE user == [users[u] EXCEPT !.active = active, !.factor = factor, !.email = email]
    <3>1. users'[u] = [user EXCEPT !.version = @ + 1]
      BY <1>0, <2>2 DEF Updated, UserRecord
    <3>2. /\ user \in UserRecord /\ user.lastStep = users[u].lastStep
          /\ user.version = users[u].version
      BY <1>0 DEF UserRecord
    <3> HIDE DEF user
    <3> QED  BY <3>1, <3>2 DEF UserRecord
  <2> QED  BY <1>1, <2>2, <2>3 DEF StepsMove
<1>4. ASSUME NEW d \in Deletion, DeleteUser(d), ~UNCHANGED users
      PROVE  StepsMove
  <2>1. UserOf[d] \in UserId /\ users' = [users EXCEPT ![UserOf[d]].present = FALSE]
    BY <1>4, Constants DEF DeleteUser
  <2>2. users'[UserOf[d]] = [users[UserOf[d]] EXCEPT !.present = FALSE]
        /\ \A v \in UserId \ {UserOf[d]} : users'[v] = users[v]
    BY <2>1 DEF IInv, RestTyped
  <2>3. /\ users'[UserOf[d]].lastStep = users[UserOf[d]].lastStep
        /\ users'[UserOf[d]].version = users[UserOf[d]].version
    BY <1>0, <2>1, <2>2 DEF UserRecord
  <2> QED  BY <1>1, <2>1, <2>2, <2>3 DEF StepsMove
<1>5. ASSUME NEW c \in Confirm, WriteCode(c), ~UNCHANGED users
      PROVE  StepsMove
  <2> DEFINE u == UserOf[call[c].challenge]
             counted == [users[u] EXCEPT !.version = @ + 1]
  <2>1. u \in UserId /\ call[c].code \in Int
    <3>1. call[c].challenge \in Request /\ call[c] \in CallRecord
      BY <1>5 DEF IInv, CallsTyped, Chosen, WriteCode, Call
    <3>2. call[c].code \in 0..MaxStep /\ MaxStep \in Nat
      BY <3>1, Constants DEF CallRecord
    <3>3. u \in UserId
      BY <3>1, Constants
    <3>4. call[c].code \in Int
      BY <3>2
    <3> QED  BY <3>3, <3>4
  <2>2. /\ users[u].version = call[c].user.version
        /\ users' = [users EXCEPT ![u].version = @ + 1, ![u].lastStep = call[c].code]
    BY <1>5 DEF WriteCode, IsAt
  <2>3. /\ users'[u] = [counted EXCEPT !.lastStep = call[c].code]
        /\ \A v \in UserId \ {u} : users'[v] = users[v]
    BY <1>0, <2>1, <2>2 DEF IInv, RestTyped, UserRecord
  <2>4. call[c].code > users[u].lastStep
    BY <1>5, <2>2 DEF CodesTaken, ChallengeUser, WriteCode
  <2>5. counted \in UserRecord /\ counted.version = users[u].version + 1
    BY <1>0, <2>1 DEF UserRecord
  <2> HIDE DEF counted
  <2>6. users'[u].lastStep = call[c].code /\ users'[u].version = users[u].version + 1
    BY <2>3, <2>5 DEF UserRecord
  <2> HIDE DEF u
  <2>7. /\ users'[u].lastStep >= users[u].lastStep
        /\ users'[u].version > users[u].version
    BY <1>1, <2>1, <2>4, <2>6
  <2>8. users[u].version \in Int /\ users'[u].version \in Int
    BY <1>1, <2>1, <2>6
  <2>9. SUFFICES ASSUME NEW v \in UserId
                 PROVE  /\ users'[v].lastStep >= users[v].lastStep
                        /\ users'[v].version >= users[v].version
                        /\ users'[v].version = users[v].version =>
                             users'[v].lastStep = users[v].lastStep
    BY DEF StepsMove
  <2>10. CASE v = u
    BY <2>7, <2>8, <2>10
  <2>11. CASE v # u
    <3>1. users'[v] = users[v]
      BY <2>3, <2>11
    <3> QED  BY <1>1, <3>1
  <2> QED  BY <2>10, <2>11
<1>6. ASSUME Passes PROVE StepsMove
  BY <1>2, <1>3, <1>6 DEF Passes, vars, Tick, KeyTick, SignOutEverywhere
<1>7. ASSUME NEW c \in Call, Acts(c)
      PROVE  StepsMove
  BY <1>2, <1>4, <1>5, <1>7
  DEF Acts, BeginSignIn, OpenSession, FindSession, FindUser, ExtendSession, RevokeSession,
      FindToSignOut, GetRecord, IssueStepUp, SpendOthers, CountAttempt, FindToConfirm, CheckCode,
      SpendChallenge, SpendRefused, Reauthenticate, FindToDelete, DeleteUserSessions,
      DeleteUserTokens, DeleteEntity, CollectSessions, CollectTokens
<1> QED  BY <1>6, <1>7, ActsAlone

(* What a confirmation's own step is to show of it, before the others.     *)
Fresh(c) ==
  /\ call'[c].pc # "idle" => /\ call'[c].challenge \in Request
                             /\ call'[call'[c].challenge].pc = "done"
  /\ c \in Stamping' =>
       /\ ~Unspent(tokens'[call'[c].challenge])
       /\ \A d \in Stamping \ {c} : call'[c].challenge # call[d].challenge
  /\ call'[c].pc = "write" =>
       /\ ByApp(c)' /\ call'[c].user \in UserRecord
       /\ call'[c].code > call'[c].user.lastStep
       /\ call'[c].user.version <= users'[ChallengeUser(c)'].version
       /\ call'[c].user.version = users'[ChallengeUser(c)'].version =>
            call'[c].user.lastStep = users'[ChallengeUser(c)'].lastStep
  /\ c \in Accepting' =>
       /\ call'[c].code <= users'[ChallengeUser(c)'].lastStep
       /\ \A d \in Accepting \ {c} :
            ChallengeUser(c)' = ChallengeUser(d) => call'[c].code # call[d].code

(* A confirmation that did not move stays stamped, or accepted.            *)
LEMMA OthersFresh ==
  ASSUME IInv, IInv', StampInv, StepsMove, [Next]_vars, NEW d \in Confirm, call'[d] = call[d]
  PROVE  /\ Fresh(d)
         /\ ChallengeUser(d)' = ChallengeUser(d)
         /\ d \in Stamping' <=> d \in Stamping
         /\ d \in Accepting' <=> d \in Accepting
<1>1. ChallengeUser(d)' = ChallengeUser(d) /\ (d \in Stamping' <=> d \in Stamping)
  BY DEF ChallengeUser, Stamping
<1>2. CASE call[d].pc = "idle"
  BY <1>1, <1>2 DEF Fresh, Stamping, Accepting
<1>3. CASE call[d].pc # "idle"
  <2>1. call[d].challenge \in Request /\ call[call[d].challenge].pc = "done"
    BY <1>3 DEF IInv, CallsTyped, Chosen, StampInv, Issued
  <2>2. call'[call[d].challenge] = call[call[d].challenge]
    BY <2>1, DoneStays
  <2>3. d \in Accepting' <=> d \in Accepting
    BY <2>2 DEF Accepting, ByApp
  <2>4. /\ ChallengeUser(d) \in UserId
        /\ users[ChallengeUser(d)] \in UserRecord /\ users'[ChallengeUser(d)] \in UserRecord
        /\ call[d] \in CallRecord
    BY <2>1, Constants DEF ChallengeUser, IInv, RestTyped, CallsTyped, Call
  <2>5. /\ users[ChallengeUser(d)].lastStep \in Int /\ users'[ChallengeUser(d)].lastStep \in Int
        /\ users[ChallengeUser(d)].version \in Int /\ users'[ChallengeUser(d)].version \in Int
        /\ call[d].code \in Int
    <3>1. MaxStep \in Nat
      BY Constants
    <3> QED  BY <2>4, <3>1 DEF UserRecord, CallRecord
  <2>6. /\ users'[ChallengeUser(d)].lastStep >= users[ChallengeUser(d)].lastStep
        /\ users'[ChallengeUser(d)].version >= users[ChallengeUser(d)].version
        /\ users'[ChallengeUser(d)].version = users[ChallengeUser(d)].version =>
             users'[ChallengeUser(d)].lastStep = users[ChallengeUser(d)].lastStep
    BY <2>4 DEF StepsMove
  <2>7. d \in Stamping => ~Unspent(tokens'[call[d].challenge])
    BY <2>1, SpentStays DEF StampInv, SpentOnce
  <2>8. d \in Stamping => \A e \in Stamping \ {d} : call[d].challenge # call[e].challenge
    BY DEF StampInv, SpentOnce
  <2>9. call[d].pc = "write" =>
          /\ ByApp(d) /\ call[d].user \in UserRecord
          /\ call[d].code > call[d].user.lastStep
          /\ call[d].user.version <= users'[ChallengeUser(d)].version
          /\ call[d].user.version = users'[ChallengeUser(d)].version =>
               call[d].user.lastStep = users'[ChallengeUser(d)].lastStep
    <3> SUFFICES ASSUME call[d].pc = "write"
                 PROVE  /\ ByApp(d) /\ call[d].user \in UserRecord
                        /\ call[d].code > call[d].user.lastStep
                        /\ call[d].user.version <= users'[ChallengeUser(d)].version
                        /\ call[d].user.version = users'[ChallengeUser(d)].version =>
                             call[d].user.lastStep = users'[ChallengeUser(d)].lastStep
      OBVIOUS
    <3>1. /\ ByApp(d) /\ call[d].user \in UserRecord
          /\ call[d].code > call[d].user.lastStep
          /\ call[d].user.version <= users[ChallengeUser(d)].version
          /\ call[d].user.version = users[ChallengeUser(d)].version =>
               call[d].user.lastStep = users[ChallengeUser(d)].lastStep
      BY DEF StampInv, CodesTaken
    <3>2. call[d].user.version \in Int
      BY <3>1 DEF UserRecord
    <3>3. call[d].user.version <= users'[ChallengeUser(d)].version
      BY <2>5, <2>6, <3>1, <3>2
    <3>4. ASSUME call[d].user.version = users'[ChallengeUser(d)].version
          PROVE  call[d].user.lastStep = users'[ChallengeUser(d)].lastStep
      <4>1. users'[ChallengeUser(d)].version = users[ChallengeUser(d)].version
        BY <2>5, <2>6, <3>1, <3>2, <3>4
      <4> QED  BY <2>6, <3>1, <3>4, <4>1
    <3> QED  BY <3>1, <3>3, <3>4
  <2>10. d \in Accepting =>
           /\ call[d].code <= users'[ChallengeUser(d)].lastStep
           /\ \A e \in Accepting \ {d} :
                ChallengeUser(d) = ChallengeUser(e) => call[d].code # call[e].code
    <3>1. d \in Accepting => call[d].code <= users[ChallengeUser(d)].lastStep
      BY DEF StampInv, CodesTaken
    <3>2. d \in Accepting =>
            \A e \in Accepting \ {d} :
              ChallengeUser(d) = ChallengeUser(e) => call[d].code # call[e].code
      BY DEF StampInv, CodesTaken
    <3>3. d \in Accepting => call[d].code <= users'[ChallengeUser(d)].lastStep
      BY <2>5, <2>6, <3>1
    <3> QED  BY <3>2, <3>3
  <2>11. ByApp(d)' <=> ByApp(d)
    BY <2>2 DEF ByApp
  <2>12. call'[d].pc = "write" =>
           /\ ByApp(d)' /\ call'[d].user \in UserRecord
           /\ call'[d].code > call'[d].user.lastStep
           /\ call'[d].user.version <= users'[ChallengeUser(d)'].version
           /\ call'[d].user.version = users'[ChallengeUser(d)'].version =>
                call'[d].user.lastStep = users'[ChallengeUser(d)'].lastStep
    BY <1>1, <2>9, <2>11
  <2>13. Fresh(d)
    BY <1>1, <2>1, <2>2, <2>3, <2>7, <2>8, <2>10, <2>12 DEF Fresh
  <2> QED  BY <1>1, <2>3, <2>13
<1> QED  BY <1>2, <1>3

(* The invariant of all of them follows from what the one that moved shows.*)
LEMMA FreshKept ==
  ASSUME IInv, IInv', StampInv, StepsMove, [Next]_vars,
         NEW c, \A d \in Confirm \ {c} : call'[d] = call[d],
         c \in Confirm => Fresh(c)
  PROVE  StampInv'
<1>1. ASSUME NEW d \in Confirm PROVE Fresh(d)
  BY OthersFresh
<1>2. ASSUME NEW d \in Confirm \ {c}
      PROVE  /\ ChallengeUser(d)' = ChallengeUser(d)
             /\ call'[d] = call[d]
             /\ d \in Stamping' <=> d \in Stamping
             /\ d \in Accepting' <=> d \in Accepting
  BY OthersFresh
<1>3. Issued'
  BY <1>1 DEF Fresh, Issued
<1>4. SpentOnce'
  <2>1. ASSUME NEW d \in Stamping', NEW e \in Stamping' \ {d}
        PROVE  call'[d].challenge # call'[e].challenge
    <3>1. d \in Confirm /\ e \in Confirm
      BY DEF Stamping
    <3>2. CASE e # c
      <4>1. e \in Stamping /\ call'[e] = call[e]
        BY <1>2, <2>1, <3>1, <3>2
      <4> QED  BY <1>1, <2>1, <3>1, <4>1 DEF Fresh
    <3>3. CASE e = c
      <4>1. d \in Stamping /\ call'[d] = call[d]
        BY <1>2, <2>1, <3>1, <3>3
      <4> QED  BY <1>1, <2>1, <3>1, <3>3, <4>1 DEF Fresh
    <3> QED  BY <3>2, <3>3
  <2>2. ASSUME NEW d \in Stamping' PROVE ~Unspent(tokens'[call'[d].challenge])
    <3>1. d \in Confirm
      BY DEF Stamping
    <3> QED  BY <1>1, <2>2, <3>1 DEF Fresh
  <2> QED  BY <2>1, <2>2 DEF SpentOnce
<1>5. CodesTaken'
  <2>1. ASSUME NEW d \in Accepting', NEW e \in Accepting' \ {d},
               ChallengeUser(d)' = ChallengeUser(e)'
        PROVE  call'[d].code # call'[e].code
    <3>1. d \in Confirm /\ e \in Confirm
      BY DEF Accepting
    <3>2. CASE e # c
      <4>1. e \in Accepting /\ call'[e] = call[e] /\ ChallengeUser(e)' = ChallengeUser(e)
        BY <1>2, <2>1, <3>1, <3>2
      <4> QED  BY <1>1, <2>1, <3>1, <4>1 DEF Fresh
    <3>3. CASE e = c
      <4>1. d \in Accepting /\ call'[d] = call[d] /\ ChallengeUser(d)' = ChallengeUser(d)
        BY <1>2, <2>1, <3>1, <3>3
      <4> QED  BY <1>1, <2>1, <3>1, <3>3, <4>1 DEF Fresh
    <3> QED  BY <3>2, <3>3
  <2>2. ASSUME NEW d \in Accepting' PROVE call'[d].code <= users'[ChallengeUser(d)'].lastStep
    <3>1. d \in Confirm
      BY DEF Accepting
    <3> QED  BY <1>1, <2>2, <3>1 DEF Fresh
  <2> QED  BY <1>1, <2>1, <2>2 DEF CodesTaken, Fresh
<1> QED  BY <1>3, <1>4, <1>5 DEF StampInv

(* A confirmation that stamps nothing, and accepts nothing yet.            *)
LEMMA RefusalFresh ==
  ASSUME IInv, StampInv, [Next]_vars, NEW c \in Confirm, Only(c),
         call'[c].challenge \in Request, call[call'[c].challenge].pc = "done",
         call'[c].pc \in {"idle", "counted", "refused", "session", "burn", "refuse"}
  PROVE  Fresh(c)
<1>1. call'[call'[c].challenge].pc = "done"
  BY DoneStays
<1>2. c \notin Stamping' /\ c \notin Accepting'
  BY DEF Stamping, Accepting
<1> QED  BY <1>1, <1>2 DEF Fresh

(* An app's code goes through where it is the user's next; a challenge     *)
(* where nobody spent it before.                                           *)
LEMMA ConfirmFresh ==
  ASSUME IInv, IInv', StampInv, StepsMove, [Next]_vars, NEW c \in Confirm, Only(c),
         \/ \E r \in Request, s \in Session, code \in 0..MaxStep : CountAttempt(c, r, s, code)
         \/ FindToConfirm(c) \/ CheckCode(c) \/ WriteCode(c)
         \/ SpendChallenge(c) \/ SpendRefused(c) \/ Reauthenticate(c)
  PROVE  Fresh(c)
<1>1. c \in Call /\ c \notin Request
  BY Apart DEF Call
<1>2. ASSUME NEW r \in Request, NEW s \in Session, NEW code \in 0..MaxStep,
             CountAttempt(c, r, s, code)
      PROVE  Fresh(c)
  <2>1. call'[c].pc \in {"counted", "refused"} /\ call'[c].challenge = r
    BY <1>2, CountCarries
  <2>2. call[r].pc = "done"
    BY <1>2 DEF CountAttempt
  <2> QED  BY <2>1, <2>2, RefusalFresh
<1> DEFINE r == call[c].challenge
           u == UserOf[r]
<1>3. ASSUME call[c].pc # "idle"
      PROVE  /\ r \in Request /\ call[r].pc = "done" /\ call'[r] = call[r] /\ u \in UserId
             /\ users[u] \in UserRecord /\ users'[u] \in UserRecord
             /\ call[c] \in CallRecord
  <2>1. r \in Request /\ call[r].pc = "done"
    BY <1>3 DEF IInv, CallsTyped, Chosen, StampInv, Issued
  <2>2. u \in UserId
    BY <2>1, Constants
  <2> QED  BY <1>1, <2>1, <2>2, DoneStays DEF IInv, RestTyped, CallsTyped
<1>4. CASE FindToConfirm(c) \/ SpendRefused(c)
  <2>1. PICK pc \in {"session", "burn", "refused"} : Goes(c, pc)
    BY <1>4 DEF FindToConfirm, SpendRefused, Refusal
  <2>2. Carries(c, pc) /\ call[c].pc # "idle"
    BY <1>1, <1>4, <2>1, GoesCarries DEF IInv, FindToConfirm, SpendRefused
  <2>3. call'[c].challenge \in Request /\ call[call'[c].challenge].pc = "done"
    BY <1>3, <2>2 DEF Carries
  <2>4. call'[c].pc \in {"idle", "counted", "refused", "session", "burn", "refuse"}
    BY <2>1, <2>2 DEF Carries
  <2> QED  BY <2>3, <2>4, RefusalFresh
<1>5. CASE CheckCode(c)
  <2>1. /\ call'[c].pc = Checked(c, users[u])
        /\ call'[c].user = users[u]
        /\ call'[c].challenge = r
        /\ call'[c].code = call[c].code
    BY <1>5, CheckCarries
  <2>2. call[c].pc = "session" /\ users' = users
    BY <1>5 DEF CheckCode
  <2>3. r \in Request /\ call[r].pc = "done" /\ call'[r] = call[r] /\ users[u] \in UserRecord
    BY <1>3, <2>2
  <2>4. CASE Checked(c, users[u]) \in {"burn", "refused", "refuse"}
    BY <2>1, <2>3, <2>4, RefusalFresh
  <2>5. CASE Checked(c, users[u]) = "write"
    <3>1. ByApp(c) /\ Accepted(call[c].code, users[u]) /\ users[u].factor
      BY <2>5 DEF Checked, Refusal, ByApp
    <3>2. call[c].code > users[u].lastStep
      BY <3>1 DEF Accepted
    <3>3. ByApp(c)' /\ ChallengeUser(c)' = u
      BY <2>1, <2>3, <3>1 DEF ByApp, ChallengeUser
    <3>4. users[u].version \in Nat
      BY <2>3 DEF UserRecord
    <3>5. c \notin Stamping' /\ c \notin Accepting'
      BY <2>1, <2>5 DEF Stamping, Accepting
    <3> QED  BY <2>1, <2>2, <2>3, <3>2, <3>3, <3>4, <3>5 DEF Fresh
  <2>6. CASE Checked(c, users[u]) = "spend"
    <3>1. ~ByApp(c)
      BY <2>6 DEF Checked, Refusal, ByApp
    <3>2. ~(ByApp(c)')
      BY <2>1, <2>3, <3>1 DEF ByApp
    <3>3. c \notin Stamping' /\ c \notin Accepting'
      BY <2>1, <2>6, <3>2 DEF Stamping, Accepting
    <3> QED  BY <2>1, <2>3, <2>6, <3>3 DEF Fresh
  <2> QED  BY <2>4, <2>5, <2>6 DEF Checked, Refusal
<1>6. CASE WriteCode(c) \/ SpendChallenge(c) \/ Reauthenticate(c)
  <2>1. PICK pc \in {"refused", "spend", "stamp", "stamped"} :
          /\ Goes(c, pc)
          /\ \/ pc = "refused"
             \/ pc = "spend" /\ WriteCode(c) /\ IsAt(u, call[c].user.version)
             \/ pc = "stamp" /\ SpendChallenge(c) /\ Usable(tokens[r])
             \/ pc = "stamped" /\ Reauthenticate(c)
    <3>1. CASE WriteCode(c)
      BY <3>1 DEF WriteCode
    <3>2. CASE SpendChallenge(c)
      BY <3>2 DEF SpendChallenge
    <3>3. CASE Reauthenticate(c)
      BY <3>3 DEF Reauthenticate
    <3> QED  BY <1>6, <3>1, <3>2, <3>3
  <2>2. /\ call'[c].pc = pc /\ call'[c].challenge = r /\ call'[c].code = call[c].code
        /\ call[c].pc # "idle"
    BY <1>1, <1>6, <2>1, GoesCarries
    DEF IInv, Carries, WriteCode, SpendChallenge, Reauthenticate
  <2>3. r \in Request /\ call[r].pc = "done" /\ call'[r] = call[r] /\ u \in UserId
        /\ users[u] \in UserRecord /\ users'[u] \in UserRecord /\ call[c] \in CallRecord
    BY <1>3, <2>2
  <2>4. (ByApp(c)' <=> ByApp(c)) /\ ChallengeUser(c)' = u /\ ChallengeUser(c) = u
    BY <2>2, <2>3 DEF ByApp, ChallengeUser
  <2>5. CASE pc = "refused"
    BY <2>2, <2>3, <2>5, RefusalFresh
  <2>6. CASE pc = "spend"
    <3>1. call[c].pc = "write" /\ users[u].version = call[c].user.version
      BY <2>1, <2>6 DEF WriteCode, IsAt
    <3>2. /\ call[c].user \in UserRecord
          /\ call[c].code > call[c].user.lastStep
          /\ call[c].user.lastStep = users[u].lastStep
      BY <2>4, <3>1 DEF StampInv, CodesTaken
    <3>3. users'[u].lastStep = call[c].code
      <4> DEFINE later == [users EXCEPT ![u].version = @ + 1]
      <4>1. users' = [later EXCEPT ![u].lastStep = call[c].code]
        BY <2>1, <2>6 DEF WriteCode
      <4>2. u \in DOMAIN later /\ "lastStep" \in DOMAIN later[u]
        BY <2>3 DEF IInv, RestTyped, UserRecord
      <4> HIDE DEF later
      <4> QED  BY <4>1, <4>2
    <3>4. call[c].code \in Int /\ users[u].lastStep \in Int
      <4>1. MaxStep \in Nat
        BY Constants
      <4> QED  BY <2>3, <4>1 DEF CallRecord, UserRecord
    <3>5. ASSUME NEW d \in Accepting \ {c}, u = ChallengeUser(d)
          PROVE  call[c].code # call[d].code
      <4>1. call[d].code <= users[u].lastStep
        BY <3>5 DEF StampInv, CodesTaken
      <4>2. call[d] \in CallRecord /\ MaxStep \in Nat
        BY Constants DEF Accepting, IInv, CallsTyped, Call
      <4>3. call[d].code \in Int
        BY <4>2 DEF CallRecord
      <4> QED  BY <3>2, <3>4, <4>1, <4>3
    <3>6. c \notin Stamping'
      BY <2>2, <2>6 DEF Stamping
    <3>7. call'[c].code <= users'[ChallengeUser(c)'].lastStep
      BY <2>2, <2>4, <3>3, <3>4
    <3> QED  BY <2>2, <2>3, <2>4, <2>6, <3>5, <3>6, <3>7 DEF Fresh
  <2>7. CASE pc \in {"stamp", "stamped"}
    <3>1. call[c].pc \in {"spend", "stamp"} /\ users' = users
      BY <2>1, <2>7 DEF SpendChallenge, Reauthenticate
    <3>2. c \in Accepting' => c \in Accepting
      BY <2>4, <3>1 DEF Accepting
    <3>3. c \in Accepting' =>
            /\ call'[c].code <= users'[ChallengeUser(c)'].lastStep
            /\ \A d \in Accepting \ {c} :
                 ChallengeUser(c)' = ChallengeUser(d) => call'[c].code # call[d].code
      BY <2>2, <2>4, <3>1, <3>2 DEF StampInv, CodesTaken
    <3>4. CASE pc = "stamp"
      <4>1. Unspent(tokens[r])
        BY <2>1, <3>4 DEF Usable
      <4>2. tokens' = [tokens EXCEPT ![r].spentAt = clock]
        <5>1. tokens' = consumeToken(tokens, r, "stepUp", clock)
          BY <2>1, <3>4 DEF SpendChallenge, ConsumeToken
        <5>2. tokens[r] \in TokenRecord
          BY <2>3, <4>1, Constants DEF IInv, TokensTyped, Store, Unspent
        <5>3. tokens[r].kind = "stepUp"
          BY <5>2, Constants DEF TokenRecord
        <5> QED  BY <4>1, <5>1, <5>3 DEF consumeToken, Answer, Unspent
      <4>3. ~Unspent(tokens'[r])
        <5>1. tokens[r] \in TokenRecord /\ r \in DOMAIN tokens
          BY <2>3, <4>1, Constants DEF IInv, TokensTyped, Store, Unspent
        <5>2. tokens'[r] = [tokens[r] EXCEPT !.spentAt = clock]
          BY <4>2, <5>1
        <5>3. tokens'[r].spentAt = clock /\ clock # None
          BY <5>1, <5>2, TokenStoreAssumption DEF TokenRecord, IInv, RestTyped
        <5> QED  BY <5>3 DEF Unspent
      <4>4. \A d \in Stamping \ {c} : r # call[d].challenge
        BY <4>1 DEF StampInv, SpentOnce
      <4> QED  BY <2>2, <2>3, <3>3, <3>4, <4>3, <4>4 DEF Fresh
    <3>5. CASE pc = "stamped"
      <4>1. c \in Stamping /\ tokens' = tokens
        BY <2>1, <3>5 DEF Reauthenticate, Stamping, tokenStore
      <4> QED  BY <2>2, <2>3, <3>3, <3>5, <4>1 DEF Fresh, StampInv, SpentOnce
    <3> QED  BY <2>7, <3>4, <3>5
  <2> QED  BY <2>5, <2>6, <2>7
<1> QED  BY <1>2, <1>4, <1>5, <1>6

LEMMA BeginsStamp == Init => StampInv
<1> SUFFICES ASSUME Init PROVE StampInv
  OBVIOUS
<1>1. \A c \in Confirm : call[c].pc = "idle"
  <2>1. scene.opened \subseteq Session
    BY Constants DEF Init, SceneRecord
  <2>2. \A c \in Confirm : c \in Call /\ c \notin scene.opened
    BY <2>1, Apart DEF Call
  <2> QED  BY <2>2 DEF Init, NewCall
<1> QED  BY <1>1 DEF StampInv, Issued, SpentOnce, CodesTaken, Stamping, Accepting

LEMMA StepStamp == IInv /\ IInv' /\ StampInv /\ [Next]_vars => StampInv'
<1> SUFFICES ASSUME IInv, IInv', StampInv, [Next]_vars PROVE StampInv'
  OBVIOUS
<1>1. StepsMove
  BY StepsGoUp DEF StampInv
<1>2. CASE call' = call
  <2>1. \A d \in Confirm \ {None} : call'[d] = call[d]
    BY <1>2
  <2>2. None \in Confirm => Fresh(None)
    BY <1>1, <1>2, OthersFresh
  <2> QED  BY <1>1, <2>1, <2>2, FreshKept
<1>3. ASSUME NEW c \in Call, Acts(c), Only(c) PROVE StampInv'
  <2>1. \A d \in Confirm \ {c} : call'[d] = call[d]
    BY <1>3 DEF Only, Call
  <2>2. ASSUME c \in Confirm PROVE Fresh(c)
    <3>1. \/ \E r \in Request, s \in Session, code \in 0..MaxStep : CountAttempt(c, r, s, code)
          \/ FindToConfirm(c) \/ CheckCode(c) \/ WriteCode(c)
          \/ SpendChallenge(c) \/ SpendRefused(c) \/ Reauthenticate(c)
      BY <1>3, <2>2, Apart DEF Acts
    <3> QED  BY <1>1, <1>3, <2>2, <3>1, ConfirmFresh
  <2> QED  BY <1>1, <2>1, <2>2, FreshKept
<1> QED  BY <1>2, <1>3, ActsAlone

(* A challenge stamps one session, of its own user, and a code of a user's *)
(* app one session, once, for any users, challenges and calls at once      *)
(* (StampsProven).                                                         *)
THEOREM OneStampEach == Spec => []StampsProven
<1>1. OutInv /\ StampInv => StampsProven
  <2> SUFFICES ASSUME OutInv, StampInv PROVE StampsProven
    OBVIOUS
  <2>1. \A c \in Confirm : call[c].pc = "stamped" =>
          UserOf[call[c].session] = UserOf[call[c].challenge]
    BY DEF OutInv, Sound, Call
  <2>2. \A c, d \in Confirm :
          /\ c # d /\ call[c].pc = "stamped" /\ call[d].pc = "stamped"
          => call[c].challenge # call[d].challenge
    BY DEF StampInv, SpentOnce, Stamping
  <2>3. \A c, d \in Confirm :
          /\ c # d /\ call[c].pc = "stamped" /\ call[d].pc = "stamped"
          /\ UserOf[call[c].challenge] = UserOf[call[d].challenge]
          /\ call[call[c].challenge].user.factor /\ call[call[d].challenge].user.factor
          => call[c].code # call[d].code
    BY DEF StampInv, CodesTaken, Accepting, ByApp, ChallengeUser
  <2> QED  BY <2>1, <2>2, <2>3 DEF StampsProven
<1> QED  BY BeginsTyped, StepTyped, BeginsOut, StepOut, BeginsStamp, StepStamp, <1>1, PTL DEF Spec

-----------------------------------------------------------------------------
(* What a deletion leaves (ReplayLeavesNothing): nothing, as the sets name *)
(* what there is (SessionsListed, TokensListed), nobody who reads the user *)
(* now finds them, and nobody who read them before is still to store.      *)

There(h) == tokens[h] # None

TokensListed ==
  /\ \A h \in Hash : There(h) => tokens[h].userId = UserOf[h]
  /\ scene.redis =>
       \A h \in Hash :
         There(h) => /\ h \in tokenSet[UserOf[h]].members
                     /\ tokenSet[UserOf[h]].until >= tokens[h].expiresAt
                     /\ tokens[h].expiresAt > keyClock

Working == {"sessions", "tokens", "entity"}

Emptied ==
  \A d \in Deletion :
    call[d].quiet /\ call[d].pc \in Working \cup {"done"} =>
      LET u == UserOf[d] IN
        /\ ~users[u].present
        /\ Quiet(u)
        /\ call[d].pc # "sessions" => \A s \in Live(sessions) : UserOf[s] # u
        /\ call[d].pc \in {"entity", "done"} => \A h \in Hash : There(h) => UserOf[h] # u
        /\ call[d].pc = "done" => u \notin tuples

Owes(d) == call[d].deleted /\ call[d].pc \in Working

ToldOnce ==
  /\ \A d \in Deletion :
       /\ call[d].pc = "delete" => ~call[d].deleted /\ ~call[d].quiet
       /\ call[d].deleted => ~users[UserOf[d]].present
       /\ Owes(d) => /\ told[UserOf[d]] = 0
                     /\ \A e \in Deletion \ {d} : UserOf[e] = UserOf[d] => ~Owes(e)
       /\ call[d].deleted /\ call[d].pc \in {"done", "failed"} => told[UserOf[d]] = 1
  /\ \A u \in UserId : told[u] <= 1 /\ (users[u].present => told[u] = 0)

LeftInv == TokensListed /\ Emptied /\ ToldOnce

(* A user who is gone stays gone.                                          *)
LEMMA UsersGo ==
  ASSUME IInv, [Next]_vars
  PROVE  UsersMove
<1>1. \A u \in UserId : users[u] \in UserRecord
  BY DEF IInv, RestTyped
<1>2. CASE UNCHANGED users
  BY <1>2 DEF UsersMove
<1>3. ASSUME NEW u \in UserId, UpdateUser(u) PROVE UsersMove
  <2>1. PICK user : users' = [users EXCEPT ![u] = user]
    BY <1>3 DEF UpdateUser
  <2>2. users[u].present /\ DOMAIN users = UserId
    BY <1>3 DEF UpdateUser, IInv, RestTyped
  <2> QED  BY <2>1, <2>2 DEF UsersMove
<1>4. ASSUME NEW d \in Deletion, DeleteUser(d) PROVE UsersMove
  <2>1. UserOf[d] \in UserId /\ users' \in {users, [users EXCEPT ![UserOf[d]].present = FALSE]}
    BY <1>4, Constants DEF DeleteUser
  <2> QED  BY <2>1, GoneMove DEF IInv
<1>5. ASSUME NEW c \in Confirm, WriteCode(c), ~UNCHANGED users PROVE UsersMove
  <2> DEFINE u == UserOf[call[c].challenge]
             counted == [users EXCEPT ![u].version = @ + 1]
  <2>1. users' = [counted EXCEPT ![u].lastStep = call[c].code]
    BY <1>5 DEF WriteCode
  <2>2. DOMAIN counted = UserId /\ \A v \in UserId : DOMAIN counted[v] = DOMAIN users[v]
    BY <1>1 DEF UserRecord, IInv, RestTyped
  <2>3. \A v \in UserId : counted[v].present = users[v].present
    BY <1>1 DEF UserRecord, IInv, RestTyped
  <2> HIDE DEF counted
  <2>4. \A v \in UserId : users'[v].present = counted[v].present
    BY <1>1, <2>1, <2>2 DEF UserRecord
  <2> QED  BY <2>3, <2>4 DEF UsersMove
<1>6. ASSUME Passes PROVE UsersMove
  BY <1>2, <1>3, <1>6 DEF Passes, vars, Tick, KeyTick, SignOutEverywhere
<1>7. ASSUME NEW c \in Call, Acts(c) PROVE UsersMove
  BY <1>2, <1>4, <1>5, <1>7
  DEF Acts, BeginSignIn, OpenSession, FindSession, FindUser, ExtendSession, RevokeSession,
      FindToSignOut, GetRecord, IssueStepUp, SpendOthers, CountAttempt, FindToConfirm, CheckCode,
      SpendChallenge, SpendRefused, Reauthenticate, FindToDelete, DeleteUserSessions,
      DeleteUserTokens, DeleteEntity, CollectSessions, CollectTokens
<1> QED  BY <1>6, <1>7, ActsAlone

(* Every session there is was there, of the same user, or is opened now.   *)
LEMMA SessionsGo ==
  ASSUME IInv, OutInv, [Next]_vars
  PROVE  \A s \in Live(sessions') :
           \/ s \in Live(sessions) /\ sessions'[s].userId = sessions[s].userId
           \/ s \in Session /\ call[s].pc = "read" /\ sessions'[s].userId = UserOf[s]
<1>1. ASSUME SessionsMove
      PROVE  \A s \in Live(sessions') :
               \/ s \in Live(sessions) /\ sessions'[s].userId = sessions[s].userId
               \/ s \in Session /\ call[s].pc = "read" /\ sessions'[s].userId = UserOf[s]
  BY <1>1 DEF SessionsMove, Live
<1>2. CASE Passes
  <2>1. SessionsMove
    BY <1>2, StoreMoves
    DEF IInv, SessionsKept, Passes, vars, Tick, KeyTick, UpdateUser, SignOutEverywhere,
        RevokeUserSessions, sessionStore
  <2> QED  BY <1>1, <2>1
<1>3. ASSUME NEW c \in Call, Acts(c)
      PROVE  \A s \in Live(sessions') :
               \/ s \in Live(sessions) /\ sessions'[s].userId = sessions[s].userId
               \/ s \in Session /\ call[s].pc = "read" /\ sessions'[s].userId = UserOf[s]
  <2>1. CASE c \in Session /\ OpenSession(c)
    <3> DEFINE record == NewSession(UserOf[c], clock)
    <3>1. call[c].pc = "read" /\ sessions[c] = None
      BY <2>1 DEF OpenSession, OutInv, Opened, Live
    <3>2. sessions' = [[sessions EXCEPT ![c] = record] EXCEPT ![c] = Surviving(@)]
      BY <2>1, <3>1 DEF OpenSession, InsertSession, insertSession
    <3>3. record.userId = UserOf[c]
      BY DEF NewSession
    <3> HIDE DEF record
    <3>4. \A t \in Session \ {c} : sessions'[t] = sessions[t]
      BY <3>2 DEF IInv, SessionsKept, SessionsTyped, Sessions
    <3>5. sessions'[c] = Surviving(record)
      BY <2>1, <3>2 DEF IInv, SessionsKept, SessionsTyped, Sessions
    <3> QED  BY <2>1, <3>1, <3>3, <3>4, <3>5 DEF Live, Surviving
  <2>2. CASE ~(c \in Session /\ OpenSession(c))
    <3>1. SessionsMove
      BY <1>3, <2>2, StoreMoves
      DEF IInv, SessionsKept, Acts, BeginSignIn, FindSession, FindUser, ExtendSession, Extend,
          RevokeSession, FindToSignOut, GetRecord, IssueStepUp, SpendOthers, CountAttempt,
          FindToConfirm, CheckCode, WriteCode, SpendChallenge, SpendRefused, Reauthenticate,
          FindToDelete, DeleteUser, DeleteUserSessions, DeleteSessionsOf, DeleteUserTokens,
          DeleteEntity, CollectSessions, CollectTokens, sessionStore
    <3> QED  BY <1>1, <3>1
  <2> QED  BY <2>1, <2>2
<1> QED  BY <1>2, <1>3, ActsAlone

(* Nobody reads a user who is gone.                                        *)
LEMMA QuietStays ==
  ASSUME IInv, [Next]_vars, NEW u \in UserId, ~users[u].present, Quiet(u)
  PROVE  Quiet(u)'
<1> SUFFICES ASSUME NEW c \in Session \cup Request, UserOf[c] = u, call'[c].pc = "read"
             PROVE  FALSE
  BY DEF Quiet
<1>1. call[c].pc # "read" /\ c \in Call
  BY DEF Quiet, Call
<1>2. Acts(c)
  BY <1>1, ActsAlone DEF Only
<1>3. c \notin Auth \cup SignOut \cup Confirm \cup Deletion \cup Collect
  BY Apart, AllApart
<1>4. call[c] \in CallRecord /\ DOMAIN call = Call
  BY <1>1 DEF IInv, CallsTyped
<1>5. CASE BeginSignIn(c)
  BY <1>5 DEF BeginSignIn
<1>6. CASE GetRecord(c)
  BY <1>6 DEF GetRecord
<1>7. CASE OpenSession(c) \/ IssueStepUp(c) \/ SpendOthers(c)
  <2>1. PICK pc \in {"open", "issued", "done"} : Goes(c, pc)
    BY <1>7 DEF OpenSession, IssueStepUp, SpendOthers
  <2>2. Carries(c, pc)
    BY <1>1, <2>1, GoesCarries DEF IInv
  <2> QED  BY <2>1, <2>2 DEF Carries
<1> QED  BY <1>2, <1>3, <1>5, <1>6, <1>7 DEF Acts

-----------------------------------------------------------------------------
(* In Redis the set of a user names every challenge of theirs.             *)

(* A member joins a set without a loss, if the set has not lapsed.         *)
LEMMA JoinedKeeps ==
  ASSUME NEW M, NEW set \in KeySet(M), NEW live, NEW m \in M, NEW at \in Nat \ {0},
         NEW now \in Nat, NEW joined,
         joined = Expired(AddMember(Prune(set, live), m, at), now)
  PROVE  /\ \A x \in set.members \cap live :
              set.until > now => x \in joined.members /\ joined.until >= set.until
         /\ at > now => m \in joined.members /\ joined.until >= at
<1> DEFINE pruned == Prune(set, live)
           added == AddMember(pruned, m, at)
<1>1. pruned \in KeySet(M)
  BY SetsKept
<1>2. added \in KeySet(M)
  BY <1>1, SetsKept
<1>3. /\ added.members = pruned.members \cup {m}
      /\ added.until >= pruned.until /\ added.until >= at
  BY <1>1, AddKeeps
<1>4. joined = Expired(added, now)
  OBVIOUS
<1>5. pruned.until \in Nat /\ added.until \in Nat
  BY <1>1, <1>2 DEF KeySet
<1> HIDE DEF added
<1>6. ASSUME NEW x \in set.members \cap live, set.until > now
      PROVE  x \in joined.members /\ joined.until >= set.until
  <2>1. x \in pruned.members /\ pruned.until = set.until
    BY PruneKeeps
  <2> HIDE DEF pruned
  <2>2. added.until > now
    BY <1>3, <1>5, <1>6, <2>1
  <2>3. joined = added
    BY <1>2, <1>4, <2>2, ExpiredKeeps
  <2> QED  BY <1>3, <2>1, <2>3
<1>7. ASSUME at > now
      PROVE  m \in joined.members /\ joined.until >= at
  <2> HIDE DEF pruned
  <2>1. added.until > now
    BY <1>3, <1>5, <1>7
  <2>2. joined = added
    BY <1>2, <1>4, <2>1, ExpiredKeeps
  <2> QED  BY <1>3, <2>2
<1> QED  BY <1>6, <1>7

LEMMA RedisStays ==
  ASSUME IInv, [Next]_vars
  PROVE  scene'.redis = scene.redis
<1>1. scene \in SceneRecord
  BY DEF IInv, RestTyped
<1>2. CASE UNCHANGED scene
  BY <1>2
<1>3. CASE \/ scene' = [scene EXCEPT !.updates = @ - 1]
           \/ scene' = [scene EXCEPT !.everywhere = @ - 1]
           \/ scene' = [scene EXCEPT !.failures = @ - 1]
  BY <1>1, <1>3 DEF SceneRecord
<1>4. ASSUME Passes PROVE scene'.redis = scene.redis
  BY <1>2, <1>3, <1>4 DEF Passes, vars, Tick, KeyTick, UpdateUser, SignOutEverywhere
<1>5. ASSUME NEW c \in Call, Acts(c) PROVE scene'.redis = scene.redis
  BY <1>2, <1>3, <1>5
  DEF Acts, BeginSignIn, OpenSession, FindSession, FindUser, ExtendSession, RevokeSession,
      FindToSignOut, GetRecord, IssueStepUp, SpendOthers, CountAttempt, FindToConfirm, CheckCode,
      WriteCode, SpendChallenge, SpendRefused, Reauthenticate, FindToDelete, DeleteUser,
      DeleteUserSessions, DeleteUserTokens, DeleteEntity, CollectSessions, CollectTokens, Fails
<1> QED  BY <1>4, <1>5, ActsAlone

(* What there is of a challenge after a step, and what it was before.      *)
LEMMA ThereBefore ==
  ASSUME IInv, IInv', TokensListed, [Next]_vars, NEW h \in Hash, There(h)'
  PROVE  /\ tokens'[h] \in TokenRecord /\ tokens'[h].userId = UserOf[h]
         /\ \/ IssueStepUp(h)
            \/ There(h) /\ tokens[h] \in TokenRecord /\ tokens'[h].expiresAt = tokens[h].expiresAt
<1>1. TokenMove(h) /\ tokens'[h] \in TokenRecord
  BY TokensMove DEF There, IInv, TokensTyped, Store
<1>2. CASE Evolved(tokens[h], tokens'[h])
  <2>1. There(h) /\ tokens[h] \in TokenRecord
    BY <1>2 DEF Evolved, There, IInv, TokensTyped, Store
  <2> QED  BY <1>1, <1>2, <2>1 DEF Evolved, There, TokensListed
<1>3. CASE IssueStepUp(h)
  BY <1>1, <1>3 DEF TokenMove, TokensListed, There, Evolved
<1> QED  BY <1>1, <1>2, <1>3 DEF TokenMove

LEMMA TokensListedStep ==
  ASSUME IInv, IInv', TokensListed, [Next]_vars
  PROVE  TokensListed'
<1>1. \A h \in Hash : There(h)' => tokens'[h].userId = UserOf[h]
  BY ThereBefore
<1>2. ASSUME scene'.redis, NEW h \in Hash, There(h)'
      PROVE  /\ h \in tokenSet'[UserOf[h]].members
             /\ tokenSet'[UserOf[h]].until >= tokens'[h].expiresAt
             /\ tokens'[h].expiresAt > keyClock'
  <2> DEFINE u == UserOf[h]
             set == tokenSet[u]
  <2>1. /\ h \in Request /\ u \in UserId /\ set \in KeySet(Request)
        /\ tokenSet'[u] \in KeySet(Request) /\ keyClock \in Nat /\ keyClock' \in Nat
        /\ tokens'[h] \in TokenRecord
    BY <1>2, ThereBefore, Constants DEF IInv, TokensTyped, SessionsKept, SessionsTyped
  <2>2. tokens'[h].expiresAt \in Nat /\ set.until \in Nat /\ tokenSet'[u].until \in Nat
    BY <2>1 DEF TokenRecord, KeySet
  <2>3. scene.redis
    BY <1>2, RedisStays
  <2>4. There(h) =>
          /\ h \in set.members /\ set.until >= tokens[h].expiresAt
          /\ tokens[h].expiresAt > keyClock
    BY <2>3 DEF TokensListed
  <2> HIDE DEF set, u
  <2>5. ASSUME There(h), tokens'[h].expiresAt = tokens[h].expiresAt,
               keyClock' = keyClock, tokenSet'[u] = set
        PROVE  /\ h \in tokenSet'[u].members
               /\ tokenSet'[u].until >= tokens'[h].expiresAt
               /\ tokens'[h].expiresAt > keyClock'
    BY <2>4, <2>5
  <2>6. CASE KeyTick
    <3>1. /\ There(h) /\ tokens'[h].expiresAt = tokens[h].expiresAt
          /\ tokens'[h].expiresAt > keyClock'
      <4>1. tokens' = deleteExpiredTokens(tokens, keyClock')
        BY <2>6 DEF KeyTick
      <4>2. tokens[h] # None /\ ~(tokens[h].expiresAt <= keyClock') /\ tokens'[h] = tokens[h]
        BY <1>2, <4>1 DEF deleteExpiredTokens, There
      <4> QED  BY <2>1, <2>2, <4>2 DEF There
    <3>2. tokenSet'[u] = Expired(set, keyClock')
      BY <2>1, <2>6 DEF KeyTick, set
    <3>3. set.until > keyClock'
      BY <2>1, <2>2, <2>4, <3>1
    <3>4. Expired(set, keyClock') = set
      BY <2>1, <3>3, ExpiredKeeps
    <3>5. tokenSet'[u] = set
      BY <3>2, <3>4
    <3> QED  BY <2>4, <3>1, <3>5 DEF u
  <2>7. ASSUME NEW c \in Request, IssueStepUp(c)
        PROVE  /\ h \in tokenSet'[u].members
               /\ tokenSet'[u].until >= tokens'[h].expiresAt
               /\ tokens'[h].expiresAt > keyClock'
    <3> DEFINE record == [kind |-> "stepUp", userId |-> UserOf[c],
                     address |-> IF call[c].user.factor THEN "" ELSE call[c].user.email,
                     attempts |-> 0, expiresAt |-> clock + TokenTtl, spentAt |-> None]
               at == clock + TokenTtl
               live == {g \in Hash : tokens[g] # None}
               joined == Expired(AddMember(Prune(tokenSet[UserOf[c]], live), c, at), keyClock)
    <3>1. /\ tokens' = [insertToken(tokens, c, record) EXCEPT ![c] = Surviving(@)]
          /\ record.userId = UserOf[c] /\ record.expiresAt = at
          /\ tokenSet' = [tokenSet EXCEPT ![UserOf[c]] = joined]
          /\ keyClock' = keyClock
      BY <2>3, <2>7 DEF IssueStepUp, InsertToken, Joined, clocks
    <3>2. at \in Nat \ {0} /\ UserOf[c] \in UserId
      <4>1. clock \in Nat /\ TokenTtl \in Nat /\ TokenTtl > 0 /\ UserOf[c] \in UserId
        BY Constants DEF IInv, RestTyped
      <4> QED  BY <4>1
    <3> HIDE DEF record, live, at
    <3>3. h # c => tokens'[h] = tokens[h]
      BY <2>1, <3>1 DEF insertToken, IInv, TokensTyped, Store
    <3>4. tokens'[c] = Surviving(IF tokens[c] = None THEN record ELSE tokens[c])
      BY <3>1, Constants DEF insertToken, IInv, TokensTyped, Store
    <3>5. tokenSet[UserOf[c]] \in KeySet(Request)
      BY <3>2 DEF IInv, TokensTyped
    <3>6. /\ \A x \in tokenSet[UserOf[c]].members \cap live :
               tokenSet[UserOf[c]].until > keyClock =>
                 x \in joined.members /\ joined.until >= tokenSet[UserOf[c]].until
          /\ at > keyClock => c \in joined.members /\ joined.until >= at
      BY <2>1, <3>2, <3>5, JoinedKeeps
    <3>7. CASE h = c /\ tokens[c] = None
      <4>1. tokens'[h] = record
        BY <1>2, <3>4, <3>7 DEF Surviving, There
      <4>2. record.expiresAt > keyClock
        <5>1. record # None /\ ~(record.expiresAt <= keyClock)
          BY <1>2, <2>3, <3>4, <3>7, <4>1 DEF Surviving, There
        <5> QED  BY <2>1, <2>2, <4>1, <5>1
      <4>3. tokenSet'[u] = joined
        BY <2>1, <3>1, <3>7 DEF u, IInv, TokensTyped
      <4> QED  BY <3>1, <3>6, <3>7, <4>1, <4>2, <4>3
    <3>8. CASE There(h) /\ tokens'[h].expiresAt = tokens[h].expiresAt
      <4>1. h \in live /\ h \in set.members /\ set.until > keyClock
        BY <2>1, <2>2, <2>4, <3>8 DEF live, There
      <4>2. CASE UserOf[c] = u
        <5>1. tokenSet'[u] = joined /\ tokenSet[UserOf[c]] = set
          BY <2>1, <3>1, <4>2 DEF IInv, TokensTyped, set
        <5> HIDE DEF joined
        <5>2. h \in joined.members /\ joined.until >= set.until
          BY <3>6, <4>1, <5>1
        <5> QED  BY <2>2, <2>4, <3>1, <3>8, <5>1, <5>2
      <4>3. CASE UserOf[c] # u
        <5>1. tokenSet'[u] = set
          BY <2>1, <3>1, <4>3 DEF IInv, TokensTyped, set
        <5> QED  BY <2>5, <3>1, <3>8, <5>1
      <4> QED  BY <4>2, <4>3
    <3>9. h = c /\ tokens[c] # None => There(h) /\ tokens'[h] = tokens[h]
      BY <1>2, <3>4 DEF Surviving, There
    <3>10. h # c => There(h) /\ tokens'[h] = tokens[h]
      BY <1>2, <3>3 DEF There
    <3> QED  BY <3>7, <3>8, <3>9, <3>10
  <2>8. ASSUME NEW d \in Deletion, DeleteTokensOf(UserOf[d]), keyClock' = keyClock, ~IssueStepUp(h)
        PROVE  /\ h \in tokenSet'[u].members
               /\ tokenSet'[u].until >= tokens'[h].expiresAt
               /\ tokens'[h].expiresAt > keyClock'
    <3>1. There(h) /\ tokens'[h].expiresAt = tokens[h].expiresAt
      BY <1>2, <2>8, ThereBefore
    <3>2. h \notin tokenSet[UserOf[d]].members
      BY <1>2, <2>3, <2>8 DEF DeleteTokensOf, TokensNamed, There
    <3>3. UserOf[d] # u
      BY <2>4, <3>1, <3>2 DEF set
    <3>4. tokenSet'[u] = set
      BY <2>1, <2>8, <3>3 DEF DeleteTokensOf, IInv, TokensTyped, set
    <3> QED  BY <2>5, <2>8, <3>1, <3>4
  <2>9. ASSUME UNCHANGED <<keyClock, tokenSet>>, ~IssueStepUp(h)
        PROVE  /\ h \in tokenSet'[u].members
               /\ tokenSet'[u].until >= tokens'[h].expiresAt
               /\ tokens'[h].expiresAt > keyClock'
    <3>1. There(h) /\ tokens'[h].expiresAt = tokens[h].expiresAt
      BY <1>2, <2>9, ThereBefore
    <3> QED  BY <2>5, <2>9, <3>1 DEF set
  <2>10. \/ KeyTick
         \/ \E c \in Request : IssueStepUp(c)
         \/ \E d \in Deletion : DeleteTokensOf(UserOf[d]) /\ keyClock' = keyClock
         \/ UNCHANGED <<keyClock, tokenSet>>
    <3>1. ASSUME Passes PROVE KeyTick \/ UNCHANGED <<keyClock, tokenSet>>
      BY <3>1 DEF Passes, vars, Tick, UpdateUser, SignOutEverywhere, tokenStore, clocks
    <3>2. ASSUME NEW c \in Call, Acts(c)
          PROVE  \/ \E r \in Request : IssueStepUp(r)
                 \/ \E d \in Deletion : DeleteTokensOf(UserOf[d]) /\ keyClock' = keyClock
                 \/ UNCHANGED <<keyClock, tokenSet>>
      BY <3>2
      DEF Acts, BeginSignIn, OpenSession, FindSession, FindUser, ExtendSession, RevokeSession,
          FindToSignOut, GetRecord, SpendOthers, SpendUserTokens, CountAttempt, FindToConfirm,
          CheckCode, WriteCode, SpendChallenge, SpendRefused, ConsumeToken, Reauthenticate,
          FindToDelete, DeleteUser, DeleteUserSessions, DeleteUserTokens, DeleteEntity,
          CollectSessions, CollectTokens, tokenStore, clocks
    <3> QED  BY <3>1, <3>2, ActsAlone
  <2>11. CASE IssueStepUp(h)
    BY <2>1, <2>7, <2>11 DEF u
  <2> QED  BY <2>6, <2>7, <2>8, <2>9, <2>10, <2>11 DEF u
<1> QED  BY <1>1, <1>2 DEF TokensListed

-----------------------------------------------------------------------------
(* What a deletion has emptied stays empty, if nobody was about to store.  *)

NoSessions(u) == \A s \in Live(sessions) : UserOf[s] # u
NoTokens(u) == \A h \in Hash : There(h) => UserOf[h] # u

LEMMA EmptyStays ==
  ASSUME IInv, IInv', OutInv, TokensListed, [Next]_vars,
         NEW u \in UserId, ~users[u].present, Quiet(u)
  PROVE  /\ ~users'[u].present
         /\ Quiet(u)'
         /\ NoSessions(u) => NoSessions(u)'
         /\ NoTokens(u) => NoTokens(u)'
         /\ u \notin tuples => u \notin tuples'
<1>1. ~users'[u].present
  BY UsersGo DEF UsersMove
<1>2. Quiet(u)'
  BY QuietStays
<1>3. ASSUME NoSessions(u), NEW s \in Live(sessions') PROVE UserOf[s] # u
  BY <1>3, SessionsGo DEF NoSessions, Quiet
<1>4. ASSUME NoTokens(u), NEW h \in Hash, There(h)' PROVE UserOf[h] # u
  <2>1. CASE IssueStepUp(h)
    BY <2>1 DEF IssueStepUp, Quiet
  <2>2. CASE There(h)
    BY <1>4, <2>2 DEF NoTokens
  <2> QED  BY <1>4, <2>1, <2>2, ThereBefore
<1>5. tuples' \subseteq tuples
  <2>1. ASSUME Passes PROVE tuples' \subseteq tuples
    BY <2>1 DEF Passes, vars, Tick, KeyTick, UpdateUser, SignOutEverywhere
  <2>2. ASSUME NEW c \in Call, Acts(c) PROVE tuples' \subseteq tuples
    BY <2>2
    DEF Acts, BeginSignIn, OpenSession, FindSession, FindUser, ExtendSession, RevokeSession,
        FindToSignOut, GetRecord, IssueStepUp, SpendOthers, CountAttempt, FindToConfirm,
        CheckCode, WriteCode, SpendChallenge, SpendRefused, Reauthenticate, FindToDelete,
        DeleteUser, DeleteUserSessions, DeleteUserTokens, DeleteEntity, CollectSessions,
        CollectTokens
  <2> QED  BY <2>1, <2>2, ActsAlone
<1> QED  BY <1>1, <1>2, <1>3, <1>4, <1>5 DEF NoSessions, NoTokens

(* A deletion's own steps, once it has deleted the user or found nobody.   *)
LEMMA LeftoversCarry ==
  ASSUME IInv, NEW d \in Deletion,
         DeleteUserSessions(d) \/ DeleteUserTokens(d) \/ DeleteEntity(d)
  PROVE  \E pc \in {"tokens", "entity", "done", "failed"} :
           /\ Carries(d, pc)
           /\ Tell(d, pc)
           /\ pc = "tokens" => call[d].pc = "sessions" /\ DeleteSessionsOf(UserOf[d])
           /\ pc = "entity" => call[d].pc = "tokens" /\ DeleteTokensOf(UserOf[d])
           /\ pc = "done" => call[d].pc = "entity" /\ tuples' = tuples \ {UserOf[d]}
<1>1. PICK pc \in {"tokens", "entity", "done", "failed"} :
        /\ Goes(d, pc)
        /\ Tell(d, pc)
        /\ pc = "tokens" => call[d].pc = "sessions" /\ DeleteSessionsOf(UserOf[d])
        /\ pc = "entity" => call[d].pc = "tokens" /\ DeleteTokensOf(UserOf[d])
        /\ pc = "done" => call[d].pc = "entity" /\ tuples' = tuples \ {UserOf[d]}
  <2>1. CASE DeleteUserSessions(d)
    BY <2>1 DEF DeleteUserSessions, Stops, Fails
  <2>2. CASE DeleteUserTokens(d)
    BY <2>2 DEF DeleteUserTokens, Stops, Fails
  <2>3. CASE DeleteEntity(d)
    BY <2>3 DEF DeleteEntity, Stops, Fails
  <2> QED  BY <2>1, <2>2, <2>3
<1>2. Carries(d, pc)
  BY <1>1, GoesCarries DEF IInv, Call
<1> QED  BY <1>1, <1>2

LEMMA EmptiedStep ==
  ASSUME IInv, IInv', OutInv, LeftInv, [Next]_vars
  PROVE  Emptied'
<1> SUFFICES ASSUME NEW d \in Deletion, call'[d].quiet, call'[d].pc \in Working \cup {"done"}
             PROVE  /\ ~users'[UserOf[d]].present
                    /\ Quiet(UserOf[d])'
                    /\ call'[d].pc # "sessions" => NoSessions(UserOf[d])'
                    /\ call'[d].pc \in {"entity", "done"} => NoTokens(UserOf[d])'
                    /\ call'[d].pc = "done" => UserOf[d] \notin tuples'
  BY DEF Emptied, NoSessions, NoTokens
<1> DEFINE u == UserOf[d]
<1>1. u \in UserId /\ d \in Call
      /\ d \notin Session \cup Auth \cup SignOut \cup Request \cup Confirm \cup Collect
  BY Constants, Apart, AllApart DEF Call
<1>2. TokensListed /\ Emptied /\ ToldOnce
  BY DEF LeftInv
<1>3. call[d].quiet /\ call[d].pc \in Working \cup {"done"} =>
        /\ ~users[u].present
        /\ Quiet(u)
        /\ call[d].pc # "sessions" => NoSessions(u)
        /\ call[d].pc \in {"entity", "done"} => NoTokens(u)
        /\ call[d].pc = "done" => u \notin tuples
  BY <1>2 DEF Emptied, NoSessions, NoTokens
<1>4. ~users[u].present /\ Quiet(u) =>
        /\ ~users'[u].present
        /\ Quiet(u)'
        /\ NoSessions(u) => NoSessions(u)'
        /\ NoTokens(u) => NoTokens(u)'
        /\ u \notin tuples => u \notin tuples'
  BY <1>1, <1>2, EmptyStays
<1> HIDE DEF u
<1>5. CASE call'[d] = call[d]
  BY <1>3, <1>4, <1>5 DEF u
<1>6. CASE FindToDelete(d)
  <2>1. /\ call'[d].pc = IF users[u].present THEN "delete" ELSE "sessions"
        /\ (call'[d].quiet <=> ~users[u].present /\ Quiet(u))
    BY <1>6, FoundCarries DEF u
  <2> QED  BY <1>4, <2>1 DEF u
<1>7. CASE DeleteUser(d)
  <2>1. call'[d].quiet = call[d].quiet /\ call[d].pc = "delete"
    BY <1>7, GoneCarries DEF DeleteUser
  <2> QED  BY <1>2, <2>1 DEF ToldOnce
<1>8. CASE DeleteUserSessions(d) \/ DeleteUserTokens(d) \/ DeleteEntity(d)
  <2>1. PICK pc \in {"tokens", "entity", "done", "failed"} :
          /\ Carries(d, pc)
          /\ pc = "tokens" => call[d].pc = "sessions" /\ DeleteSessionsOf(u)
          /\ pc = "entity" => call[d].pc = "tokens" /\ DeleteTokensOf(u)
          /\ pc = "done" => call[d].pc = "entity" /\ tuples' = tuples \ {u}
    BY <1>8, LeftoversCarry DEF u
  <2>2. call[d].quiet /\ call'[d].pc = pc
    BY <2>1 DEF Carries
  <2>3. CASE pc = "tokens"
    <3>1. ASSUME NEW s \in Live(sessions') PROVE UserOf[s] # u
      <4>1. sessions'[s].userId # u
        BY <2>1, <2>3, DeletionMove DEF u
      <4>2. sessions'[s].userId = UserOf[s]
        BY SessionsGo DEF OutInv, Opened
      <4> QED  BY <4>1, <4>2
    <3> QED  BY <1>3, <1>4, <2>1, <2>2, <2>3, <3>1 DEF Working, NoSessions, u
  <2>4. CASE pc = "entity"
    <3>1. ASSUME NEW h \in Hash, There(h)', UserOf[h] = u PROVE FALSE
      <4>1. tokens'[h] = tokens[h] /\ There(h) /\ h \notin TokensNamed(u)
        BY <2>1, <2>4, <3>1 DEF DeleteTokensOf, There
      <4>2. h \in TokensNamed(u)
        BY <1>2, <3>1, <4>1 DEF TokensNamed, TokensListed, There
      <4> QED  BY <4>1, <4>2
    <3> QED  BY <1>3, <1>4, <2>1, <2>2, <2>4, <3>1 DEF Working, NoTokens, u
  <2>5. CASE pc = "done"
    BY <1>3, <1>4, <2>1, <2>2, <2>5 DEF Working, u
  <2> QED  BY <2>1, <2>2, <2>3, <2>4, <2>5 DEF Working
<1>9. call'[d] # call[d] => Acts(d)
  BY <1>1, ActsAlone DEF Only
<1> QED  BY <1>1, <1>5, <1>6, <1>7, <1>8, <1>9 DEF Acts

-----------------------------------------------------------------------------
(* Of a user's deletion the one call that deleted them tells, once.        *)

Tells(d) ==
  /\ call[d].pc = "delete" => ~call[d].deleted /\ ~call[d].quiet
  /\ call[d].deleted => ~users[UserOf[d]].present
  /\ Owes(d) => /\ told[UserOf[d]] = 0
                /\ \A e \in Deletion \ {d} : UserOf[e] = UserOf[d] => ~Owes(e)
  /\ call[d].deleted /\ call[d].pc \in {"done", "failed"} => told[UserOf[d]] = 1

Told(u) == told[u] <= 1 /\ (users[u].present => told[u] = 0)

(* Nobody tells, and nobody comes to owe it.                               *)
LEMMA ToldStays ==
  ASSUME IInv, ToldOnce, UsersMove, told' = told,
         NEW c, \A d \in Deletion \ {c} : call'[d] = call[d],
         c \in Deletion =>
           /\ Owes(c)' => Owes(c)
           /\ call'[c].pc = "delete" => ~call'[c].deleted /\ ~call'[c].quiet
           /\ call'[c].deleted => call[c].deleted
           /\ call'[c].deleted /\ call'[c].pc \in {"done", "failed"} =>
                 call[c].pc \in {"done", "failed"}
  PROVE  ToldOnce'
<1>1. \A d \in Deletion : UserOf[d] \in UserId
  BY Constants
<1>2. \A d \in Deletion : Owes(d)' => Owes(d)
  BY DEF Owes
<1>3. ASSUME NEW d \in Deletion PROVE Tells(d)'
  <2>1. Tells(d)
    BY DEF ToldOnce, Tells
  <2>2. CASE d # c
    BY <1>1, <1>2, <2>1, <2>2 DEF Tells, UsersMove
  <2>3. CASE d = c
    BY <1>1, <1>2, <2>1, <2>3 DEF Tells, UsersMove
  <2> QED  BY <2>2, <2>3
<1>4. \A u \in UserId : Told(u)'
  BY DEF ToldOnce, Told, UsersMove
<1> QED  BY <1>3, <1>4 DEF ToldOnce, Tells, Told

LEMMA ToldStep ==
  ASSUME IInv, IInv', ToldOnce, [Next]_vars
  PROVE  ToldOnce'
<1>1. UsersMove
  BY UsersGo
<1>2. CASE call' = call /\ Passes
  <2>1. told' = told
    BY <1>2 DEF Passes, vars, Tick, KeyTick, UpdateUser, SignOutEverywhere, history
  <2>2. \A d \in Deletion \ {None} : call'[d] = call[d]
    BY <1>2
  <2>3. None \in Deletion =>
          /\ Owes(None)' => Owes(None)
          /\ call'[None].pc = "delete" => ~call'[None].deleted /\ ~call'[None].quiet
          /\ call'[None].deleted => call[None].deleted
          /\ call'[None].deleted /\ call'[None].pc \in {"done", "failed"} =>
                call[None].pc \in {"done", "failed"}
    BY <1>2 DEF Owes, ToldOnce
  <2> QED  BY <1>1, <2>1, <2>2, <2>3, ToldStays
<1>3. ASSUME NEW c \in Call \ Deletion, Acts(c), Only(c) PROVE ToldOnce'
  <2>1. told' = told
    BY <1>3
    DEF Acts, BeginSignIn, OpenSession, FindSession, FindUser, ExtendSession, RevokeSession,
        FindToSignOut, GetRecord, IssueStepUp, SpendOthers, CountAttempt, FindToConfirm,
        CheckCode, WriteCode, SpendChallenge, SpendRefused, Reauthenticate, CollectSessions,
        CollectTokens, history
  <2>2. \A d \in Deletion \ {c} : call'[d] = call[d]
    BY <1>3 DEF Only, Call
  <2> QED  BY <1>1, <1>3, <2>1, <2>2, ToldStays
<1>4. ASSUME NEW d \in Deletion, Acts(d), Only(d) PROVE ToldOnce'
  <2> DEFINE u == UserOf[d]
  <2>1. /\ d \in Call /\ u \in UserId
        /\ d \notin Session \cup Auth \cup SignOut \cup Request \cup Confirm \cup Collect
    BY Constants, Apart, AllApart DEF Call
  <2>2. \A e \in Deletion \ {d} : call'[e] = call[e]
    BY <1>4 DEF Only, Call
  <2>3. /\ users[u] \in UserRecord /\ told \in [UserId -> Nat] /\ call[d] \in CallRecord
        /\ \A e \in Deletion : UserOf[e] \in UserId
    BY <2>1, Constants DEF IInv, RestTyped, CallsTyped
  <2>4. \A e \in Deletion : Tells(e)
    BY DEF ToldOnce, Tells
  <2>5. \A v \in UserId : Told(v)
    BY DEF ToldOnce, Told
  <2>6. CASE FindToDelete(d)
    <3>1. /\ ~call'[d].deleted
          /\ call'[d].pc = IF users[u].present THEN "delete" ELSE "sessions"
          /\ (call'[d].quiet <=> ~users[u].present /\ Quiet(u))
      BY <2>6, FoundCarries
    <3>2. told' = told
      BY <2>6 DEF FindToDelete, history
    <3> QED  BY <1>1, <2>2, <3>1, <3>2, ToldStays DEF Owes
  <2>7. CASE DeleteUser(d)
    <3>1. call[d].pc = "delete" /\ ~call[d].deleted /\ told' = told
      BY <2>4, <2>7 DEF DeleteUser, Tells, history
    <3>2. CASE call'[d].pc = "failed" /\ call'[d].deleted = call[d].deleted
      BY <1>1, <2>2, <3>1, <3>2, ToldStays DEF Owes
    <3>3. CASE /\ call'[d].pc = "sessions"
               /\ (call'[d].deleted <=> users[u].present)
               /\ users' = [users EXCEPT ![u].present = FALSE]
      <4>1. ~users'[u].present
        BY <2>1, <2>3, <3>3 DEF IInv, RestTyped, UserRecord
      <4>2. CASE ~users[u].present
        BY <1>1, <2>2, <3>1, <3>3, <4>2, ToldStays DEF Owes
      <4>3. CASE users[u].present
        <5>1. told[u] = 0
          BY <2>1, <2>5, <4>3 DEF Told
        <5>2. \A e \in Deletion \ {d} : UserOf[e] = u => ~call'[e].deleted
          BY <2>2, <2>4, <4>3 DEF Tells
        <5>3. ASSUME NEW e \in Deletion PROVE Tells(e)'
          <6>1. CASE e = d
            BY <3>1, <3>3, <4>1, <5>1, <5>2, <6>1 DEF Tells, Owes
          <6>2. CASE e # d /\ UserOf[e] = u
            BY <2>2, <2>4, <5>2, <6>2 DEF Tells, Owes
          <6>3. CASE e # d /\ UserOf[e] # u
            BY <1>1, <2>2, <2>3, <2>4, <3>1, <6>3 DEF Tells, Owes, UsersMove
          <6> QED  BY <6>1, <6>2, <6>3
        <5>4. \A v \in UserId : Told(v)'
          BY <1>1, <2>5, <3>1 DEF Told, UsersMove
        <5> QED  BY <5>3, <5>4 DEF ToldOnce, Tells, Told
      <4> QED  BY <4>2, <4>3
    <3> QED  BY <2>7, <3>2, <3>3, GoneCarries
  <2>8. CASE DeleteUserSessions(d) \/ DeleteUserTokens(d) \/ DeleteEntity(d)
    <3>1. PICK pc \in {"tokens", "entity", "done", "failed"} :
            Carries(d, pc) /\ Tell(d, pc)
      BY <2>8, LeftoversCarry
    <3>2. call[d].pc \in Working /\ call'[d].pc = pc /\ call'[d].deleted = call[d].deleted
      BY <2>8, <3>1
      DEF Carries, Working, DeleteUserSessions, DeleteUserTokens, DeleteEntity
    <3>3. CASE ~(call[d].deleted /\ pc \in {"done", "failed"})
      <4>1. told' = told
        BY <3>1, <3>3 DEF Tell
      <4> QED  BY <1>1, <2>2, <3>2, <3>3, <4>1, ToldStays DEF Owes, Working
    <3>4. CASE call[d].deleted /\ pc \in {"done", "failed"}
      <4>1. Owes(d) /\ told[u] = 0 /\ ~users[u].present
        BY <2>4, <3>2, <3>4 DEF Tells, Owes
      <4>2. told'[u] = 1 /\ \A v \in UserId \ {u} : told'[v] = told[v]
        BY <2>1, <2>3, <3>1, <3>4, <4>1 DEF Tell
      <4>3. ~(Owes(d)') /\ \A e \in Deletion \ {d} : UserOf[e] = u => ~Owes(e)
        BY <2>4, <3>2, <3>4, <4>1 DEF Tells, Owes, Working
      <4>4. ~users'[u].present
        BY <1>1, <2>1, <4>1 DEF UsersMove
      <4>5. ASSUME NEW e \in Deletion PROVE Tells(e)'
        <5>1. CASE e = d
          BY <3>2, <3>4, <4>2, <4>3, <4>4, <5>1 DEF Tells
        <5>2. CASE e # d /\ UserOf[e] = u
          BY <2>2, <2>4, <4>2, <4>3, <4>4, <5>2 DEF Tells, Owes
        <5>3. CASE e # d /\ UserOf[e] # u
          <6>1. \A f \in Deletion : Owes(f)' => Owes(f)
            BY <2>2, <4>3 DEF Owes
          <6> QED  BY <1>1, <2>2, <2>3, <2>4, <4>2, <5>3, <6>1 DEF Tells, UsersMove
        <5> QED  BY <5>1, <5>2, <5>3
      <4>6. \A v \in UserId : Told(v)'
        BY <1>1, <2>5, <4>2, <4>4 DEF Told, UsersMove
      <4> QED  BY <4>5, <4>6 DEF ToldOnce, Tells, Told
    <3> QED  BY <3>3, <3>4
  <2> QED  BY <1>4, <2>1, <2>6, <2>7, <2>8 DEF Acts
<1> QED  BY <1>2, <1>3, <1>4, ActsAlone

LEMMA BeginsLeft == Init => LeftInv
<1> SUFFICES ASSUME Init PROVE LeftInv
  OBVIOUS
<1>1. \A d \in Deletion : call[d].pc = "idle" /\ call[d].quiet = FALSE /\ call[d].deleted = FALSE
  <2>1. scene.opened \subseteq Session
    BY Constants DEF Init, SceneRecord
  <2>2. \A d \in Deletion : d \in Call /\ d \notin scene.opened
    BY <2>1, AllApart DEF Call
  <2> QED  BY <2>2 DEF Init, NewCall
<1>2. \A h \in Hash : ~There(h)
  BY Constants DEF Init, There
<1>3. \A u \in UserId : told[u] = 0
  BY DEF Init
<1> QED  BY <1>1, <1>2, <1>3 DEF LeftInv, TokensListed, Emptied, ToldOnce, Owes

LEMMA StepLeft == IInv /\ IInv' /\ OutInv /\ LeftInv /\ [Next]_vars => LeftInv'
  BY TokensListedStep, EmptiedStep, ToldStep DEF LeftInv

(* A deletion that finds nobody leaves nothing of the user, and whoever    *)
(* deletes them tells of it once, for any users, calls at once, failures   *)
(* and replays, over rows or Redis (ReplayLeavesNothing).                  *)
THEOREM NothingLeft == Spec => []ReplayLeavesNothing
<1>1. IInv /\ OutInv /\ LeftInv => ReplayLeavesNothing
  <2> SUFFICES ASSUME IInv, OutInv, LeftInv PROVE ReplayLeavesNothing
    OBVIOUS
  <2>1. ASSUME NEW d \in Deletion, call[d].pc = "done", call[d].quiet
        PROVE  /\ \A s \in Live(sessions) : sessions[s].userId # UserOf[d]
               /\ \A h \in Hash : tokens[h] # None => tokens[h].userId # UserOf[d]
               /\ UserOf[d] \notin tuples
    <3>1. /\ \A s \in Live(sessions) : UserOf[s] # UserOf[d]
          /\ \A h \in Hash : There(h) => UserOf[h] # UserOf[d]
          /\ UserOf[d] \notin tuples
      BY <2>1 DEF LeftInv, Emptied
    <3> QED  BY <3>1 DEF OutInv, Opened, LeftInv, TokensListed, There
  <2>2. ASSUME NEW u \in UserId
        PROVE  /\ told[u] <= 1
               /\ (\E d \in Deletion :
                     UserOf[d] = u /\ call[d].deleted /\ call[d].pc \in {"done", "failed"})
                    => told[u] = 1
    BY DEF LeftInv, ToldOnce
  <2> QED  BY <2>1, <2>2 DEF ReplayLeavesNothing
<1> QED  BY BeginsTyped, StepTyped, BeginsOut, StepOut, BeginsLeft, StepLeft, <1>1, PTL DEF Spec
=============================================================================
