------------------------------ MODULE Sessions ------------------------------
(***************************************************************************)
(* Sessions and what reads, renews, confirms and ends them:                *)
(* auth/sessions/{authenticate,standing,shared-api,open-session}.ts,       *)
(* auth/step-up/{request,open,codes,flows}.ts and auth/users/delete.ts of  *)
(* packages/janus/src, over the stores of rows (memory, Drizzle, Mongo) or *)
(* over Redis, whose keys lapse by Redis's own clock and whose methods by  *)
(* user go through a set of keys kept beside them.                         *)
(*                                                                         *)
(* An `await` is a step boundary and each action is one store call, with   *)
(* the clock it reads.  Who the caller is was proved before BeginSignIn    *)
(* (PasswordSignIn, OneTimeTokens); the counts of AttemptWindow are left   *)
(* out.                                                                    *)
(***************************************************************************)
EXTENDS SessionStore

CONSTANTS Auth,       \* calls of authenticate
          SignOut,    \* calls of signOut
          Request,    \* calls of stepUp.request; each names its challenge
          Confirm,    \* calls of stepUp.confirm
          Deletion,   \* calls of users.delete
          Collect,    \* calls of collectExpired
          UserOf,     \* the user of a sign-in (a session), request or deletion
          Lifespan, RenewAfter, TokenTtl, CODE_ATTEMPTS,
          Skew,       \* how far the two clocks may be apart
          MaxStep,    \* bound: the steps an app's codes are of
          Scene

Call == Session \cup Auth \cup SignOut \cup Request \cup Confirm \cup Deletion \cup Collect

SceneRecord ==
  [redis : BOOLEAN,
   calls : SUBSET Call,         \* those that may overlap
   opened : SUBSET Session,     \* the sessions open at the start
   updates : Nat,               \* bound: writes of a user
   everywhere : Nat,            \* bound: calls of signOutEverywhere
   failures : Nat,              \* bound: store calls of a deletion that fail
   until : Nat]                 \* bound: how far the clocks go

ASSUME SessionsAssumption ==
  /\ Hash = Request
  /\ Kind = {"stepUp"}
  /\ "" \in Address
  /\ LET calls == <<Session, Auth, SignOut, Request, Confirm, Deletion, Collect>>
     IN  \A i, j \in 1..7 : i # j => calls[i] \cap calls[j] = {}
  /\ UserOf \in [Session \cup Request \cup Deletion -> UserId]
  /\ {Lifespan, RenewAfter, TokenTtl, CODE_ATTEMPTS} \subseteq Nat \ {0}
  /\ {Skew, MaxStep} \subseteq Nat
  /\ Scene \subseteq SceneRecord

VARIABLES scene,
          clock,       \* of the processes
          keyClock,    \* of Redis
          users,       \* the users' records
          tuples,      \* the users some permission tuple names
          sessions, sessionSet,   \* the sessions, and Redis's set of them by user
          tokens, tokenSet,       \* the challenges, likewise
          call,        \* how far each call got
          told,        \* history: user.deleted, how often by user
          out          \* history: the sessions a call that answered has ended

vars == <<scene, clock, keyClock, users, tuples, sessions, sessionSet, tokens, tokenSet,
          call, told, out>>

clocks == <<clock, keyClock>>
sessionStore == <<sessions, sessionSet>>
tokenStore == <<tokens, tokenSet>>
history == <<told, out>>

Email == Address \ {""}

UserRecord ==
  [present : BOOLEAN, active : BOOLEAN, factor : BOOLEAN, lastStep : 0..MaxStep,
   email : Email, version : Nat]

Pc ==
  {"idle", "read", "open", "session", "renew", "user", "renewed", "counted", "write", "burn",
   "refuse", "spend", "stamp", "stamped", "issued", "delete", "sessions", "tokens", "entity",
   "failed", "done", "refused"}

CallRecord ==
  [pc : Pc,
   session : Session \cup {None},    \* the one it presents
   at : Nat,                         \* the clock it read with it
   due : BOOLEAN,                    \* its renewal is due
   challenge : Request \cup {None},
   attempts : Nat,                   \* of that challenge, as counted
   code : 0..MaxStep,                \* 0: a wrong one
   user : UserRecord \cup {None},    \* the user as read
   deleted : BOOLEAN,                \* this deletion deleted the user
   late : BOOLEAN,    \* history: it began after a call had ended its session
   quiet : BOOLEAN]   \* history: a replay begun with nothing of the user under way

NewCall == [pc |-> "idle", session |-> None, at |-> 0, due |-> FALSE, challenge |-> None,
            attempts |-> 0, code |-> 0, user |-> None, deleted |-> FALSE, late |-> FALSE,
            quiet |-> FALSE]

NewSession(u, now) ==
  [userId |-> u, authenticatedAt |-> now, expiresAt |-> now + Lifespan, revoked |-> FALSE]

Init ==
  /\ scene \in Scene
  /\ clock = 1 /\ keyClock = 1
  /\ \E factor \in BOOLEAN, email \in Email :
       users = [u \in UserId |->
                  [present |-> TRUE, active |-> TRUE, factor |-> factor, lastStep |-> 0,
                   email |-> email, version |-> 1]]
  /\ tuples = UserId
  /\ sessions = [s \in Session |->
                   IF s \in scene.opened THEN NewSession(UserOf[s], 1) ELSE None]
  /\ sessionSet = [u \in UserId |->
                     LET mine == {s \in scene.opened : UserOf[s] = u}
                     IN  IF scene.redis /\ mine # {}
                           THEN [members |-> mine, until |-> 1 + Lifespan]
                           ELSE NoKey]
  /\ tokens = [r \in Request |-> None]
  /\ tokenSet = [u \in UserId |-> NoKey]
  /\ call = [c \in Call |-> IF c \in scene.opened THEN [NewCall EXCEPT !.pc = "open"] ELSE NewCall]
  /\ told = [u \in UserId |-> 0]
  /\ out = {}

-----------------------------------------------------------------------------
(* The stores, of rows or in Redis.                                        *)

(* A key set to expire in Redis's past is deleted at once.                 *)
Surviving(record) ==
  IF record # None /\ scene.redis /\ record.expiresAt <= keyClock THEN None ELSE record

Joined(sets, u, member, live, at) ==
  IF scene.redis
    THEN [sets EXCEPT ![u] = Expired(AddMember(Prune(@, live), member, at), keyClock)]
    ELSE sets

InsertSession(id, record) ==
  /\ sessions' = [insertSession(sessions, id, record) EXCEPT ![id] = Surviving(@)]
  /\ sessionSet' = Joined(sessionSet, record.userId, id, Live(sessions), record.expiresAt)

(* Mutant: only the session's own keys move.                               *)
ExtendUnlisted(id, at) ==
  /\ sessions' = [extendSession(sessions, id, at) EXCEPT ![id] = Surviving(@)]
  /\ UNCHANGED sessionSet

Extend(id, at) ==
  /\ sessions' = [extendSession(sessions, id, at) EXCEPT ![id] = Surviving(@)]
  /\ sessionSet' = IF scene.redis /\ Stands(sessions, id)
                     THEN [sessionSet EXCEPT ![sessions[id].userId] =
                             Expired(ExtendSet(@, at), keyClock)]
                     ELSE sessionSet

SessionsNamed(u) == IF scene.redis THEN sessionSet[u].members ELSE OfUser(sessions, u)

RevokeUserSessions(u, except) ==
  /\ sessions' = revokeSessions(sessions, SessionsNamed(u) \ except)
  /\ sessionSet' = IF scene.redis
                     THEN [sessionSet EXCEPT ![u] = Prune(@, Live(sessions))]
                     ELSE sessionSet

DeleteSessionsOf(u) ==
  /\ sessions' = deleteSessions(sessions, SessionsNamed(u))
  /\ sessionSet' = [sessionSet EXCEPT ![u] = NoKey]

InsertToken(hash, record) ==
  /\ tokens' = [insertToken(tokens, hash, record) EXCEPT ![hash] = Surviving(@)]
  /\ tokenSet' = Joined(tokenSet, record.userId, hash, {h \in Hash : tokens[h] # None},
                        record.expiresAt)

TokensNamed(u) ==
  IF scene.redis THEN tokenSet[u].members
                 ELSE {h \in Hash : tokens[h] # None /\ tokens[h].userId = u}

SpendUserTokens(u, except) ==
  /\ tokens' = LET spent == spendUserTokens(tokens, u, "stepUp", clock, except)
               IN  [h \in Hash |-> IF h \in TokensNamed(u) THEN spent[h] ELSE tokens[h]]
  /\ UNCHANGED tokenSet

DeleteTokensOf(u) ==
  /\ tokens' = [h \in Hash |-> IF h \in TokensNamed(u) THEN None ELSE tokens[h]]
  /\ tokenSet' = [tokenSet EXCEPT ![u] = NoKey]

(* consumeToken, and whether its answer can be used.                       *)
ConsumeToken(hash) ==
  /\ tokens' = consumeToken(tokens, hash, "stepUp", clock)
  /\ UNCHANGED tokenSet

Usable(token) == Unspent(token) /\ token.expiresAt > clock

(* What a request that presents the token of session s is answered.        *)
Standing(s) == Stands(sessions, s) /\ sessions[s].expiresAt > clock

Goes(c, pc) == call' = [call EXCEPT ![c].pc = pc]

-----------------------------------------------------------------------------
(* Signing in, once the user proved who they are.                          *)

BeginSignIn(s) ==
  /\ s \in scene.calls /\ call[s].pc = "idle"
  /\ users[UserOf[s]].present /\ users[UserOf[s]].active
  /\ Goes(s, "read")
  /\ UNCHANGED <<scene, clocks, users, tuples, sessionStore, tokenStore, history>>

OpenSession(s) ==
  /\ s \in Session /\ call[s].pc = "read"
  /\ InsertSession(s, NewSession(UserOf[s], clock))
  /\ Goes(s, "open")
  /\ UNCHANGED <<scene, clocks, users, tuples, tokenStore, history>>

(* A request presents the token of a session that was opened.              *)
Presents(c, s) ==
  /\ c \in scene.calls /\ call[c].pc = "idle"
  /\ call[s].pc = "open"

-----------------------------------------------------------------------------
(* authenticate: the session, the user, and a renewal that is due.         *)

(* lifespan - (expiresAt - now) >= renewAfter                              *)
RenewalDue(session) == Lifespan + clock >= RenewAfter + session.expiresAt

FindSession(a, s) ==
  /\ a \in Auth /\ Presents(a, s)
  /\ call' = [call EXCEPT ![a] =
                [@ EXCEPT !.pc = IF Standing(s) THEN "session" ELSE "refused",
                          !.session = s, !.at = clock, !.late = s \in out,
                          !.due = Standing(s) /\ RenewalDue(sessions[s])]]
  /\ UNCHANGED <<scene, clocks, users, tuples, sessionStore, tokenStore, history>>

(* Mutant: a user who is gone is taken for who they were.                  *)
IsAnybody(user) == user.active

IsSomebody(user) == user.present /\ user.active

FindUser(a) ==
  /\ a \in Auth /\ call[a].pc = "session"
  /\ Goes(a, IF ~IsSomebody(users[UserOf[call[a].session]]) THEN "refused"
             ELSE IF call[a].due THEN "renew" ELSE "user")
  /\ UNCHANGED <<scene, clocks, users, tuples, sessionStore, tokenStore, history>>

(* To the clock read before the user was: late, it may end it sooner.      *)
ExtendSession(a) ==
  /\ a \in Auth /\ call[a].pc = "renew"
  /\ Extend(call[a].session, call[a].at + Lifespan)
  /\ Goes(a, IF Stands(sessions, call[a].session) THEN "renewed" ELSE "refused")
  /\ UNCHANGED <<scene, clocks, users, tuples, tokenStore, history>>

-----------------------------------------------------------------------------
(* Signing out, here or everywhere.                                        *)

FindToSignOut(o, s) ==
  /\ o \in SignOut /\ Presents(o, s)
  /\ call' = [call EXCEPT ![o].pc = IF sessions[s] # None THEN "session" ELSE "refused",
                          ![o].session = s]
  /\ UNCHANGED <<scene, clocks, users, tuples, sessionStore, tokenStore, history>>

RevokeSession(o) ==
  /\ o \in SignOut /\ call[o].pc = "session"
  /\ sessions' = revokeSessions(sessions, {call[o].session})
  /\ out' = out \cup ({call[o].session} \cap Live(sessions))
  /\ Goes(o, "done")
  /\ UNCHANGED <<scene, clocks, users, tuples, sessionSet, tokenStore, told>>

SignOutEverywhere(u, except) ==
  /\ scene.everywhere > 0
  /\ scene' = [scene EXCEPT !.everywhere = @ - 1]
  /\ RevokeUserSessions(u, except)
  /\ out' = out \cup (OfUser(sessions, u) \ except)
  /\ UNCHANGED <<clocks, users, tuples, tokenStore, call, told>>

-----------------------------------------------------------------------------
(* stepUp.request: a challenge by e-mail, or by app when the factor is     *)
(* active; then every other is spent.                                      *)

GetRecord(r) ==
  /\ r \in Request \cap scene.calls /\ call[r].pc = "idle"
  /\ users[UserOf[r]].present /\ users[UserOf[r]].active
  /\ call' = [call EXCEPT ![r].pc = "read", ![r].user = users[UserOf[r]]]
  /\ UNCHANGED <<scene, clocks, users, tuples, sessionStore, tokenStore, history>>

IssueStepUp(r) ==
  /\ r \in Request /\ call[r].pc = "read"
  /\ InsertToken(r, [kind |-> "stepUp", userId |-> UserOf[r],
                     address |-> IF call[r].user.factor THEN "" ELSE call[r].user.email,
                     attempts |-> 0, expiresAt |-> clock + TokenTtl, spentAt |-> None])
  /\ Goes(r, "issued")
  /\ UNCHANGED <<scene, clocks, users, tuples, sessionStore, history>>

SpendOthers(r) ==
  /\ r \in Request /\ call[r].pc = "issued"
  /\ SpendUserTokens(UserOf[r], {r})
  /\ Goes(r, "done")
  /\ UNCHANGED <<scene, clocks, users, tuples, sessionStore, history>>

-----------------------------------------------------------------------------
(* stepUp.confirm: the attempt is counted, the session and the user are    *)
(* read, the code is checked, the challenge spent and the session stamped. *)

CountAttempt(c, r, s, code) ==
  /\ c \in Confirm /\ Presents(c, s) /\ call[r].pc = "done"
  /\ tokens' = countAttempt(tokens, r, "stepUp")
  /\ LET token == Answer(tokens', r, "stepUp")
         taken == Usable(token) /\ token.attempts <= CODE_ATTEMPTS
     IN  call' = [call EXCEPT ![c] =
                    [@ EXCEPT !.pc = IF taken THEN "counted" ELSE "refused",
                              !.session = s, !.challenge = r, !.code = code,
                              !.attempts = IF taken THEN token.attempts ELSE 0,
                              !.late = s \in out]]
  /\ UNCHANGED <<scene, clocks, users, tuples, sessionStore, tokenSet, history>>

(* A refusal by which the last attempt spends the challenge.               *)
Refusal(c) == IF call[c].attempts = CODE_ATTEMPTS THEN "burn" ELSE "refused"

PresentsOwn(c) ==
  /\ Standing(call[c].session)
  /\ sessions[call[c].session].userId = UserOf[call[c].challenge]

FindToConfirm(c) ==
  /\ c \in Confirm /\ call[c].pc = "counted"
  /\ Goes(c, IF PresentsOwn(c) THEN "session" ELSE Refusal(c))
  /\ UNCHANGED <<scene, clocks, users, tuples, sessionStore, tokenStore, history>>

(* An app's code is accepted once.                                         *)
Accepted(code, user) == IF user.factor THEN code > user.lastStep ELSE code # 0

(* What is done next, by the user as read: an app's code confirms while    *)
(* they have a factor, a mailed one while they have none.                  *)
Checked(c, user) ==
  LET byApp == call[call[c].challenge].user.factor   \* no code hash in its token
  IN  IF ~user.present                               THEN Refusal(c)
      ELSE IF ~user.active \/ byApp # user.factor    THEN "refuse"
      ELSE IF ~Accepted(call[c].code, user)          THEN Refusal(c)
      ELSE IF byApp THEN "write" ELSE "spend"

CheckCode(c) ==
  /\ c \in Confirm /\ call[c].pc = "session"
  /\ LET user == users[UserOf[call[c].challenge]]
     IN  call' = [call EXCEPT ![c].pc = Checked(c, user), ![c].user = user]
  /\ UNCHANGED <<scene, clocks, users, tuples, sessionStore, tokenStore, history>>

IsAt(u, version) == users[u].present /\ users[u].version = version

(* Of two codes accepted at once, the second is a conflict.                *)
WriteCode(c) ==
  /\ c \in Confirm /\ call[c].pc = "write"
  /\ LET u == UserOf[call[c].challenge] IN
       IF IsAt(u, call[c].user.version)
         THEN /\ users' = [users EXCEPT ![u].version = @ + 1, ![u].lastStep = call[c].code]
              /\ Goes(c, "spend")
         ELSE Goes(c, "refused") /\ UNCHANGED users
  /\ UNCHANGED <<scene, clocks, tuples, sessionStore, tokenStore, history>>

(* Refused by who spent it first, and a mailed code by the e-mail it went  *)
(* to; an app's has none.                                                  *)
SentElsewhere(c) ==
  /\ ~call[call[c].challenge].user.factor
  /\ call[call[c].challenge].user.email # call[c].user.email

(* Mutant: what the spend answers is not read.                             *)
SpendChallengeUnread(c) ==
  /\ c \in Confirm /\ call[c].pc = "spend"
  /\ ConsumeToken(call[c].challenge)
  /\ Goes(c, IF SentElsewhere(c) THEN "refused" ELSE "stamp")
  /\ UNCHANGED <<scene, clocks, users, tuples, sessionStore, history>>

SpendChallenge(c) ==
  /\ c \in Confirm /\ call[c].pc = "spend"
  /\ ConsumeToken(call[c].challenge)
  /\ Goes(c, IF Usable(tokens[call[c].challenge]) /\ ~SentElsewhere(c)
               THEN "stamp" ELSE "refused")
  /\ UNCHANGED <<scene, clocks, users, tuples, sessionStore, history>>

(* The last attempt's burn, and the spend of a challenge that is refused   *)
(* whatever its code is.                                                   *)
SpendRefused(c) ==
  /\ c \in Confirm /\ call[c].pc \in {"burn", "refuse"}
  /\ ConsumeToken(call[c].challenge)
  /\ Goes(c, "refused")
  /\ UNCHANGED <<scene, clocks, users, tuples, sessionStore, history>>

Reauthenticate(c) ==
  /\ c \in Confirm /\ call[c].pc = "stamp"
  /\ sessions' = reauthenticateSession(sessions, call[c].session, clock)
  /\ Goes(c, IF Stands(sessions, call[c].session) THEN "stamped" ELSE "refused")
  /\ UNCHANGED <<scene, clocks, users, tuples, sessionSet, tokenStore, history>>

-----------------------------------------------------------------------------
(* users.delete: the user, then what is left of them; the event once the   *)
(* call that deleted them stops, wherever it does.                         *)

(* Nobody of the user is between reading them and storing something.       *)
Quiet(u) == \A c \in Session \cup Request : UserOf[c] = u => call[c].pc # "read"

(* Mutant: a call that finds nobody has nothing to do.                     *)
FindToDeleteOnce(d) ==
  /\ d \in Deletion \cap scene.calls /\ call[d].pc \in {"idle", "failed"}
  /\ LET user == users[UserOf[d]] IN
       call' = [call EXCEPT ![d] =
                  [@ EXCEPT !.pc = IF user.present THEN "delete" ELSE "done",
                            !.deleted = FALSE,
                            !.quiet = ~user.present /\ Quiet(UserOf[d])]]
  /\ UNCHANGED <<scene, clocks, users, tuples, sessionStore, tokenStore, history>>

FindToDelete(d) ==
  /\ d \in Deletion \cap scene.calls /\ call[d].pc \in {"idle", "failed"}
  /\ LET user == users[UserOf[d]] IN
       call' = [call EXCEPT ![d] =
                  [@ EXCEPT !.pc = IF user.present THEN "delete" ELSE "sessions",
                            !.deleted = FALSE,
                            !.quiet = ~user.present /\ Quiet(UserOf[d])]]
  /\ UNCHANGED <<scene, clocks, users, tuples, sessionStore, tokenStore, history>>

(* Its failure throws before the try: no event, though it may be written.  *)
DeleteUser(d) ==
  /\ d \in Deletion /\ call[d].pc = "delete"
  /\ \/ /\ users' = [users EXCEPT ![UserOf[d]].present = FALSE]
        /\ call' = [call EXCEPT ![d].pc = "sessions",
                                ![d].deleted = users[UserOf[d]].present]
        /\ UNCHANGED scene
     \/ /\ scene.failures > 0
        /\ scene' = [scene EXCEPT !.failures = @ - 1]
        /\ users' \in {users, [users EXCEPT ![UserOf[d]].present = FALSE]}
        /\ Goes(d, "failed")
  /\ UNCHANGED <<clocks, tuples, sessionStore, tokenStore, history>>

(* finally: once the call stops, done or failed.                           *)
Tell(d, pc) ==
  told' = IF call[d].deleted /\ pc \in {"done", "failed"}
            THEN [told EXCEPT ![UserOf[d]] = @ + 1] ELSE told

Stops(d, pc) == Goes(d, pc) /\ Tell(d, pc)

(* A store call that fails, made or not.                                   *)
Fails(d) ==
  /\ scene.failures > 0
  /\ scene' = [scene EXCEPT !.failures = @ - 1]
  /\ Stops(d, "failed")

DeleteUserSessions(d) ==
  /\ d \in Deletion /\ call[d].pc = "sessions"
  /\ \/ DeleteSessionsOf(UserOf[d]) /\ Stops(d, "tokens") /\ UNCHANGED scene
     \/ DeleteSessionsOf(UserOf[d]) /\ Fails(d)
     \/ Fails(d) /\ UNCHANGED sessionStore
  /\ UNCHANGED <<clocks, users, tuples, tokenStore, out>>

DeleteUserTokens(d) ==
  /\ d \in Deletion /\ call[d].pc = "tokens"
  /\ \/ DeleteTokensOf(UserOf[d]) /\ Stops(d, "entity") /\ UNCHANGED scene
     \/ DeleteTokensOf(UserOf[d]) /\ Fails(d)
     \/ Fails(d) /\ UNCHANGED tokenStore
  /\ UNCHANGED <<clocks, users, tuples, sessionStore, out>>

DeleteEntity(d) ==
  /\ d \in Deletion /\ call[d].pc = "entity"
  /\ \/ /\ tuples' = tuples \ {UserOf[d]}
        /\ Stops(d, "done")
        /\ out' = out \cup {s \in Session : UserOf[s] = UserOf[d]}
        /\ UNCHANGED scene
     \/ /\ tuples' \in {tuples, tuples \ {UserOf[d]}}
        /\ Fails(d)
        /\ UNCHANGED out
  /\ UNCHANGED <<clocks, users, sessionStore, tokenStore>>

-----------------------------------------------------------------------------
(* setActive, update, a factor activated or disabled: one versioned write. *)
Updated(user, active, factor, email) ==
  [user EXCEPT !.active = active, !.factor = factor, !.email = email, !.version = @ + 1]

UpdateUser(u) ==
  /\ scene.updates > 0 /\ users[u].present
  /\ scene' = [scene EXCEPT !.updates = @ - 1]
  /\ \E active, factor \in BOOLEAN, email \in Email :
       users' = [users EXCEPT ![u] = Updated(@, active, factor, email)]
  /\ UNCHANGED <<clocks, tuples, sessionStore, tokenStore, call, history>>

(* collectExpired, where rows do not lapse on their own: sessions, then    *)
(* tokens, by the clock read first.                                        *)
CollectSessions(c) ==
  /\ c \in Collect \cap scene.calls /\ call[c].pc = "idle" /\ ~scene.redis
  /\ sessions' = deleteSessions(sessions, Lapsed(sessions, clock))
  /\ call' = [call EXCEPT ![c].pc = "tokens", ![c].at = clock]
  /\ UNCHANGED <<scene, clocks, users, tuples, sessionSet, tokenStore, history>>

CollectTokens(c) ==
  /\ c \in Collect /\ call[c].pc = "tokens"
  /\ tokens' = deleteExpiredTokens(tokens, call[c].at)
  /\ Goes(c, "done")
  /\ UNCHANGED <<scene, clocks, users, tuples, sessionStore, tokenSet, history>>

Tick ==
  /\ clock < scene.until
  /\ scene.redis => clock < keyClock + Skew
  /\ clock' = clock + 1
  /\ UNCHANGED <<scene, keyClock, users, tuples, sessionStore, tokenStore, call, history>>

(* Redis drops the keys its clock has passed.                              *)
KeyTick ==
  /\ scene.redis /\ keyClock < scene.until /\ keyClock < clock + Skew
  /\ keyClock' = keyClock + 1
  /\ sessions' = deleteSessions(sessions, Lapsed(sessions, keyClock'))
  /\ tokens' = deleteExpiredTokens(tokens, keyClock')
  /\ sessionSet' = [u \in UserId |-> Expired(sessionSet[u], keyClock')]
  /\ tokenSet' = [u \in UserId |-> Expired(tokenSet[u], keyClock')]
  /\ UNCHANGED <<scene, clock, users, tuples, call, history>>

Next ==
  \/ \E s \in Session : BeginSignIn(s) \/ OpenSession(s)
  \/ \E a \in Auth :
       \/ \E s \in Session : FindSession(a, s)
       \/ FindUser(a) \/ ExtendSession(a)
  \/ \E o \in SignOut : RevokeSession(o) \/ \E s \in Session : FindToSignOut(o, s)
  \/ \E u \in UserId :
       \/ UpdateUser(u)
       \/ \E except \in {{}} \cup {{s} : s \in Session} : SignOutEverywhere(u, except)
  \/ \E r \in Request : GetRecord(r) \/ IssueStepUp(r) \/ SpendOthers(r)
  \/ \E c \in Confirm :
       \/ \E r \in Request, s \in Session, code \in 0..MaxStep : CountAttempt(c, r, s, code)
       \/ FindToConfirm(c) \/ CheckCode(c) \/ WriteCode(c)
       \/ SpendChallenge(c) \/ SpendRefused(c) \/ Reauthenticate(c)
  \/ \E d \in Deletion :
       \/ FindToDelete(d) \/ DeleteUser(d) \/ DeleteUserSessions(d)
       \/ DeleteUserTokens(d) \/ DeleteEntity(d)
  \/ \E c \in Collect : CollectSessions(c) \/ CollectTokens(c)
  \/ Tick \/ KeyTick

Spec == Init /\ [][Next]_vars

-----------------------------------------------------------------------------
(* Every record keeps its shape; and, as KeySet says, no set of keys with  *)
(* members is ever without an expiry (scripts/shared.ts, extendSet).       *)
TypeOK ==
  /\ scene \in SceneRecord
  /\ clock \in Nat /\ keyClock \in Nat
  /\ users \in [UserId -> UserRecord]
  /\ tuples \subseteq UserId
  /\ sessions \in Sessions
  /\ tokens \in Store
  /\ sessionSet \in [UserId -> KeySet(Session)]
  /\ tokenSet \in [UserId -> KeySet(Request)]
  /\ call \in [Call -> CallRecord]
  /\ told \in [UserId -> Nat]
  /\ out \subseteq Session

(* In Redis the set of a user names every session there is, and lapses no  *)
(* sooner than the last of them: what signOutEverywhere and deleteUser     *)
(* reach them by, whatever the renewals, the prunings and the two clocks   *)
(* do (scripts/sessions.ts, "the set of a user's sessions lives as long as *)
(* their longest session").                                                *)
SessionsListed ==
  scene.redis =>
    \A s \in Live(sessions) :
      LET set == sessionSet[sessions[s].userId]
      IN  s \in set.members /\ set.until >= sessions[s].expiresAt

(* Once a sign-out, a sign-out everywhere or a deletion answered, no       *)
(* request that comes after it is taken for the user by a session it ended *)
(* (authenticate.ts), nor is such a session stamped by a step-up.          *)
OutForGood ==
  /\ \A a \in Auth : call[a].pc \in {"user", "renewed"} => ~call[a].late
  /\ \A c \in Confirm : call[c].pc = "stamped" => ~call[c].late

(* A renewal and a confirmation write on no session a call that answered   *)
(* has ended, though they read it standing before: it is never brought     *)
(* back (authenticate.ts:47-53, step-up/flows.ts:85-97).                   *)
NeverBroughtBack ==
  [][\A c \in Auth \cup Confirm :
       /\ call[c].pc \in {"renew", "stamp"}
       /\ call'[c].pc \in {"renewed", "stamped"}
       => call[c].session \notin out]_vars

(* A challenge stamps one session once, of its own user, and a code of     *)
(* their app one session once, through however many challenges and calls   *)
(* at once (step-up/codes.ts, step-up/open.ts).                            *)
StampsProven ==
  LET Stamped == {c \in Confirm : call[c].pc = "stamped"} IN
  \A c \in Stamped :
    /\ UserOf[call[c].session] = UserOf[call[c].challenge]
    /\ \A d \in Stamped \ {c} :
         /\ call[c].challenge # call[d].challenge
         /\ (/\ UserOf[call[c].challenge] = UserOf[call[d].challenge]
             /\ call[call[c].challenge].user.factor
             /\ call[call[d].challenge].user.factor) => call[c].code # call[d].code

(* A deletion that finds nobody, a replay of one that stopped anywhere,    *)
(* leaves nothing of the user once it answered, if nobody was between      *)
(* reading the user and storing something (users/delete.ts:24-36); and     *)
(* user.deleted is sent once, however many calls race, fail and are        *)
(* replayed: by the call that deleted them, as soon as it stops (37-44).   *)
ReplayLeavesNothing ==
  /\ \A d \in Deletion :
       call[d].pc = "done" /\ call[d].quiet =>
         /\ \A s \in Live(sessions) : sessions[s].userId # UserOf[d]
         /\ \A h \in Hash : tokens[h] # None => tokens[h].userId # UserOf[d]
         /\ UserOf[d] \notin tuples
  /\ \A u \in UserId :
       /\ told[u] <= 1
       /\ (\E d \in Deletion :
             UserOf[d] = u /\ call[d].deleted /\ call[d].pc \in {"done", "failed"})
            => told[u] = 1
=============================================================================
