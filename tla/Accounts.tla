------------------------------ MODULE Accounts ------------------------------
(***************************************************************************)
(* Users, what they are found by, and the proof of their e-mail:           *)
(* users/{insert,find-or-create,sign-up,update,fields-patch,record-flows}, *)
(* email-flows/{change-email,change-email-token,verify-email,prove-first}  *)
(* and context/{records,logins} of packages/janus/src/auth, over the user  *)
(* store of UserStore and the token store of TokenStore.                   *)
(*                                                                         *)
(* An `await` is a step boundary and each action is one store call.  The   *)
(* throttles are AttemptWindow's, expiry is OneTimeTokens', the password,  *)
(* the factor and the sessions a first proof ends are PasswordSignIn's,    *)
(* and what a deletion leaves is Sessions'.                                *)
(***************************************************************************)
EXTENDS UserStore

CONSTANTS Create,   \* calls that create a user; each names the id it mints
          Link,     \* calls that send a link; each names its token
          Confirm,  \* calls that redeem one
          Update,   \* calls of update and setActive
          Prove,    \* calls of verifyEmail.proveFirst
          Scene

Call == Create \cup Link \cup Confirm \cup Update \cup Prove

SceneRecord ==
  [login : {"name", "email", "none"},   \* what the type signs in with
   calls : SUBSET Call,                 \* those that may overlap
   inputs : SUBSET Fields,              \* what users are created with
   values : SUBSET Spelled,             \* what they are changed to, or looked up by
   start : SUBSET UserId,               \* the users there are
   deletions : Nat,                     \* bound: users deleted
   failures : Nat]                      \* bound: spends of update that fail

ASSUME AccountsAssumption ==
  /\ Hash = Link
  /\ Kind = {"changeEmail", "verifyEmail"}
  /\ Create \subseteq UserId
  /\ None \notin Call
  /\ Create \cap (Link \cup Confirm \cup Update \cup Prove) = {}
  /\ Link \cap (Confirm \cup Update \cup Prove) = {}
  /\ Confirm \cap (Update \cup Prove) = {} /\ Update \cap Prove = {}
  /\ Scene \subseteq SceneRecord
  /\ \A s \in Scene :
       /\ s.start \cap Create \cap s.calls = {}
       /\ s.login = "email" => \A fields \in s.inputs : fields.email # None

VARIABLES scene,
          users, byLogin,   \* the user store
          tokens,
          call,     \* how far each call got
          proved,   \* history: whose inbox was proved to be which
          left      \* history: the change links out when an update that moved answered

vars == <<scene, users, byLogin, tokens, call, proved, left>>

userStore == <<users, byLogin>>

CallRecord ==
  [pc : {"idle", "input", "insert", "again", "taken", "takenEmail", "created",
         "issue", "spendOthers", "sent", "owner", "read", "write", "spend", "prove",
         "readAgain", "done", "failed", "refused"},
   flow : {"create", "findOrCreate", "signUp", "changeEmail", "verifyEmail", "firstProof",
           "name", "email", "active", "proveFirst", None},
   user : UserId \cup {None},
   value : Spelled \cup {None},       \* the key, the new value, or the address held
   read : UserRecord \cup {None},     \* the record as read
   next : UserRecord \cup {None},     \* and as it is to be written
   link : Link \cup {None},
   retried : BOOLEAN,
   late : BOOLEAN]   \* history: of a link out when an update that moved answered

NewCall == [pc |-> "idle", flow |-> None, user |-> None, value |-> None, read |-> None,
            next |-> None, link |-> None, retried |-> FALSE, late |-> FALSE]

NewUser(fields) ==
  [fields |-> fields, logins |-> loginsOf(scene.login, fields), active |-> TRUE,
   verified |-> FALSE, version |-> 0]

Init ==
  /\ scene \in Scene
  /\ \E fields \in [scene.start -> scene.inputs], verified \in BOOLEAN :
       /\ \A u, v \in scene.start :
            u # v => loginsOf(scene.login, fields[u]) \cap loginsOf(scene.login, fields[v]) = {}
       /\ users = [u \in UserId |->
                     IF u \in scene.start
                       THEN [NewUser(fields[u]) EXCEPT
                               !.verified = verified /\ fields[u].email # None]
                       ELSE None]
       /\ byLogin = [login \in Login |->
                       LET holder == {u \in scene.start :
                                        login \in loginsOf(scene.login, fields[u])}
                       IN  IF holder = {} THEN None ELSE CHOOSE u \in holder : TRUE]
       /\ proved = {p \in UserId \X Login :
                      /\ p[1] \in scene.start /\ verified
                      /\ normalized(fields[p[1]].email) = p[2]}
  /\ tokens = [l \in Link |-> None]
  /\ call = [c \in Call |-> NewCall]
  /\ left = {}

-----------------------------------------------------------------------------
(* What the calls share.                                                   *)

Begins(c) == c \in scene.calls /\ call[c].pc = "idle"

Goes(c, pc) == call' = [call EXCEPT ![c].pc = pc]

(* The record a patch makes of one that was read, at the version after.    *)
Patched(record, fields, active, verified) ==
  [fields |-> fields, logins |-> loginsOf(scene.login, fields), active |-> active,
   verified |-> verified, version |-> record.version + 1]

(* A new e-mail is an unproven one.                                        *)
FieldsPatch(record, fields) ==
  Patched(record, fields, record.active,
          record.verified /\ ~emailChanged(record.fields, fields))

(* updateUser, under the version read; a refusal changes nothing.          *)
Lands(c) ==
  writable(users, byLogin, call[c].user, call[c].next.logins, call[c].read.version)

Write(c) ==
  LET u == call[c].user
      before == users[u]
      after == call[c].next
  IN  IF Lands(c)
        THEN /\ users' = [users EXCEPT ![u] = after]
             /\ byLogin' = reindex(byLogin, u, before.logins, after.logins)
        ELSE UNCHANGED userStore

MovedBy(c) == emailChanged(call[c].read.fields, call[c].next.fields)

-----------------------------------------------------------------------------
(* create, findOrCreate and signUp.send.                                   *)

(* The user a key names: by the login, or by the e-mail without one.       *)
Holder(key) ==
  IF scene.login = "none" THEN holderOfEmail(users, byLogin, key) ELSE byLogin[NormalName[key]]

NamesKey(fields, key) ==
  LET value == IF scene.login = "name" THEN fields.name ELSE fields.email
      rule == IF scene.login = "none" THEN Normal ELSE NormalName
  IN  value # None /\ rule[value] = rule[key]

Answers(c, u) == call' = [call EXCEPT ![c] =
                            [@ EXCEPT !.pc = "done", !.user = u, !.read = users[u]]]

FindHolder(c, key) ==
  /\ c \in Create /\ Begins(c)
  /\ IF Holder(key) # None
       THEN call' = [call EXCEPT ![c] =
                       [@ EXCEPT !.pc = "done", !.flow = "findOrCreate", !.value = key,
                                 !.user = Holder(key), !.read = users[Holder(key)]]]
       ELSE call' = [call EXCEPT ![c] =
                       [@ EXCEPT !.pc = "insert", !.flow = "findOrCreate", !.value = key]]
  /\ UNCHANGED <<scene, userStore, tokens, proved, left>>

(* signUp is for a type whose login is its e-mail.                         *)
BeginInsert(c, flow, value) ==
  /\ c \in Create /\ Begins(c)
  /\ flow = "signUp" => scene.login = "email"
  /\ call' = [call EXCEPT ![c] = [@ EXCEPT !.pc = "insert", !.flow = flow, !.value = value]]
  /\ UNCHANGED <<scene, userStore, tokens, proved, left>>

InsertUser(c, fields) ==
  /\ c \in Create /\ call[c].pc = "insert"
  /\ call[c].flow = "signUp" => NamesKey(fields, call[c].value)
  /\ LET record == NewUser(fields)
         taken == takenBy(byLogin, record.logins, c)
         refused == call[c].flow = "findOrCreate" /\ ~NamesKey(fields, call[c].value)
     IN  IF refused \/ taken
           THEN /\ Goes(c, IF refused \/ call[c].flow = "create" THEN "refused"
                           ELSE IF call[c].flow = "findOrCreate" THEN "again" ELSE "taken")
                /\ UNCHANGED userStore
           ELSE /\ users' = insertUser(users, c, record)
                /\ byLogin' = indexLogins(byLogin, c, record.logins)
                /\ call' = [call EXCEPT ![c] =
                              [@ EXCEPT !.pc = IF call[c].flow = "signUp" THEN "created" ELSE "done",
                                        !.user = c, !.read = record]]
  /\ UNCHANGED <<scene, tokens, proved, left>>

(* Mutant: whoever has the e-mail of the key.                              *)
FoundAgainByEmail(key) == byLogin[Normal[key]]

FoundAgain(key) == Holder(key)

(* Lost a race, or another login is taken: the key is read again.          *)
FindAgain(c) ==
  /\ c \in Create /\ call[c].pc = "again"
  /\ LET u == FoundAgain(call[c].value)
     IN  IF u = None THEN Goes(c, "refused") ELSE Answers(c, u)
  /\ UNCHANGED <<scene, userStore, tokens, proved, left>>

FindTaken(c) ==
  /\ c \in Create /\ call[c].pc = "taken"
  /\ LET u == byLogin[NormalName[call[c].value]]
     IN  IF u = None THEN Goes(c, "takenEmail") ELSE Answers(c, u)
  /\ UNCHANGED <<scene, userStore, tokens, proved, left>>

FindTakenEmail(c) ==
  /\ c \in Create /\ call[c].pc = "takenEmail"
  /\ LET u == holderOfEmail(users, byLogin, call[c].value)
     IN  IF u = None THEN Goes(c, "refused") ELSE Answers(c, u)
  /\ UNCHANGED <<scene, userStore, tokens, proved, left>>

-----------------------------------------------------------------------------
(* Links: signUp's and verifyEmail's to the e-mail there is, changeEmail's *)
(* to the new one, bound to the one it replaces.                           *)

Token(l) ==
  [kind |-> call[l].flow, userId |-> call[l].user, address |-> call[l].value,
   attempts |-> 0, expiresAt |-> 1, spentAt |-> None]

IssueOnSignUp(c, l) ==
  /\ c \in Create /\ call[c].pc = "created"
  /\ l \in Link /\ Begins(l)
  /\ LET sent == [NewCall EXCEPT !.pc = "sent", !.flow = "verifyEmail", !.user = c,
                                 !.value = call[c].read.fields.email, !.read = call[c].read]
     IN  /\ call' = [call EXCEPT ![c].pc = "done", ![l] = sent]
         /\ tokens' = insertToken(tokens, l,
                        [kind |-> "verifyEmail", userId |-> c, address |-> sent.value,
                         attempts |-> 0, expiresAt |-> 1, spentAt |-> None])
  /\ UNCHANGED <<scene, userStore, proved, left>>

Sends(l, flow, u, address) ==
  call' = [call EXCEPT ![l] = [@ EXCEPT !.pc = "issue", !.flow = flow, !.user = u,
                                        !.value = address, !.read = users[u]]]

(* verifyEmail.send, for a user the app knows.                             *)
SendVerify(l, u) ==
  /\ l \in Link /\ Begins(l)
  /\ users[u] # None /\ users[u].fields.email # None
  /\ Sends(l, "verifyEmail", u, users[u].fields.email)
  /\ UNCHANGED <<scene, userStore, tokens, proved, left>>

(* verifyEmail.prepare's send, for an address and whoever holds it.        *)
SendPrepared(l, email) ==
  /\ l \in Link /\ Begins(l)
  /\ LET u == holderOfEmail(users, byLogin, email)
     IN  /\ u # None /\ users[u].active /\ ~users[u].verified
         /\ Sends(l, "verifyEmail", u, users[u].fields.email)
  /\ UNCHANGED <<scene, userStore, tokens, proved, left>>

SendChange(l, u, address) ==
  /\ l \in Link /\ Begins(l)
  /\ users[u] # None /\ users[u].active
  /\ normalized(address) # normalized(users[u].fields.email)
  /\ Sends(l, "changeEmail", u, address)
  /\ UNCHANGED <<scene, userStore, tokens, proved, left>>

Issue(l) ==
  /\ l \in Link /\ call[l].pc = "issue"
  /\ tokens' = insertToken(tokens, l, Token(l))
  /\ Goes(l, IF call[l].flow = "changeEmail" THEN "spendOthers" ELSE "sent")
  /\ UNCHANGED <<scene, userStore, proved, left>>

SpendOthers(l) ==
  /\ l \in Link /\ call[l].pc = "spendOthers"
  /\ tokens' = spendUserTokens(tokens, call[l].user, "changeEmail", 0, {l})
  /\ Goes(l, "sent")
  /\ UNCHANGED <<scene, userStore, proved, left>>

-----------------------------------------------------------------------------
(* verifyEmail.confirm and changeEmail.confirm.                            *)

(* A link is stale once its user's e-mail is another: the one it was sent  *)
(* to, or for a change the one it was asked from.                          *)
Stale(l, record) ==
  IF call[l].flow = "changeEmail"
    THEN emailChanged(record.fields, call[l].read.fields)
    ELSE normalized(record.fields.email) # Normal[call[l].value]

(* Who opened a link had it from the inbox it was sent to.                 *)
SpendLink(c, l, firstProof) ==
  /\ c \in Confirm /\ Begins(c)
  /\ firstProof => call[l].flow = "verifyEmail"
  /\ tokens[l] # None
  /\ tokens' = consumeToken(tokens, l, tokens[l].kind, 0)
  /\ call' = [call EXCEPT ![c] =
                [@ EXCEPT !.pc = IF Unspent(tokens[l]) THEN "owner" ELSE "refused",
                          !.flow = IF firstProof THEN "firstProof" ELSE call[l].flow,
                          !.user = call[l].user, !.link = l, !.late = l \in left]]
  /\ proved' = IF Unspent(tokens[l])
                 THEN proved \cup {<<call[l].user, Normal[call[l].value]>>} ELSE proved
  /\ UNCHANGED <<scene, userStore, left>>

Refuses(c, record) ==
  \/ record = None
  \/ Stale(call[c].link, record)
  \/ call[c].flow = "changeEmail" /\ (record.fields.email = None \/ ~record.active)

FindOwner(c) ==
  /\ c \in Confirm /\ call[c].pc = "owner"
  /\ LET record == users[call[c].user]
     IN  IF Refuses(c, record)
           THEN Goes(c, "refused")
           ELSE call' = [call EXCEPT ![c] =
                           [@ EXCEPT !.pc = IF call[c].flow = "firstProof" /\ ~record.verified
                                              THEN "prove" ELSE "read",
                                     !.read = record]]
  /\ UNCHANGED <<scene, userStore, tokens, proved, left>>

(* Mutant: what was checked before stands.                                 *)
RefusesOnce(c, record) == record = None

(* Checked again on the record that is written.                            *)
RefusesAgain(c, record) ==
  \/ record = None
  \/ Stale(call[c].link, record)
  \/ call[c].flow = "changeEmail" /\ ~record.active

(* The e-mail moves to the address of the link, and is verified by it.     *)
Confirmed(c, record) ==
  IF call[c].flow = "changeEmail"
    THEN Patched(record, [record.fields EXCEPT !.email = call[call[c].link].value],
                 record.active, TRUE)
    ELSE Patched(record, record.fields, record.active, TRUE)

ReadToConfirm(c) ==
  /\ c \in Confirm /\ call[c].pc = "read"
  /\ LET record == users[call[c].user]
     IN  IF RefusesAgain(c, record)
           THEN Goes(c, "refused")
           ELSE call' = [call EXCEPT ![c] = [@ EXCEPT !.pc = "write", !.read = record,
                                                      !.next = Confirmed(c, record)]]
  /\ UNCHANGED <<scene, userStore, tokens, proved, left>>

WriteConfirmed(c) ==
  /\ c \in Confirm /\ call[c].pc = "write" /\ call[c].flow # "firstProof"
  /\ Write(c)
  /\ Goes(c, IF Lands(c) THEN "done" ELSE "refused")
  /\ UNCHANGED <<scene, tokens, proved, left>>

-----------------------------------------------------------------------------
(* verifyEmail.proveFirst, and the proof a confirmation with firstProof    *)
(* writes: under the version of the record that was checked.               *)

(* value is the address of the User the app holds; none, for its id.       *)
ReadActive(p, u, value) ==
  /\ p \in Prove /\ Begins(p)
  /\ LET record == users[u]
         held == IF value = None THEN record.fields.email ELSE value
         refused == \/ record = None \/ ~record.active
                    \/ value # None /\ normalized(record.fields.email) # Normal[value]
     IN  /\ record # None
         /\ call' = [call EXCEPT ![p] =
                       [@ EXCEPT !.pc = IF refused THEN "refused"
                                        ELSE IF record.verified THEN "done" ELSE "prove",
                                 !.flow = "proveFirst", !.user = u, !.value = value,
                                 !.read = record]]
         /\ proved' = IF held = None THEN proved ELSE proved \cup {<<u, Normal[held]>>}
  /\ UNCHANGED <<scene, userStore, tokens, left>>

(* A version conflict is retried once by proveFirst, and then refused.     *)
Conflicts(p) ==
  IF call[p].flow = "proveFirst" /\ ~call[p].retried THEN "readAgain" ELSE "refused"

ReadToProve(p) ==
  /\ p \in Prove \cup Confirm /\ call[p].pc = "prove"
  /\ LET record == users[call[p].user]
     IN  IF record = None THEN Goes(p, "refused")
         ELSE IF record.version # call[p].read.version THEN Goes(p, Conflicts(p))
         ELSE call' = [call EXCEPT ![p] =
                         [@ EXCEPT !.pc = "write",
                                   !.next = Patched(record, record.fields, record.active, TRUE)]]
  /\ UNCHANGED <<scene, userStore, tokens, proved, left>>

WriteProof(p) ==
  /\ p \in Prove \cup Confirm /\ call[p].pc = "write"
  /\ call[p].flow \in {"proveFirst", "firstProof"}
  /\ Write(p)
  /\ Goes(p, IF Lands(p) THEN "done"
             ELSE IF users[call[p].user] = None THEN "refused" ELSE Conflicts(p))
  /\ UNCHANGED <<scene, tokens, proved, left>>

SameEmail(p, record) ==
  /\ record # None /\ record.active
  /\ ~emailChanged(record.fields, call[p].read.fields)

ReadActiveAgain(p) ==
  /\ p \in Prove /\ call[p].pc = "readAgain"
  /\ LET record == users[call[p].user]
     IN  IF ~SameEmail(p, record) THEN Goes(p, "refused")
         ELSE call' = [call EXCEPT ![p] =
                         [@ EXCEPT !.pc = IF record.verified THEN "done" ELSE "prove",
                                   !.read = record, !.retried = TRUE]]
  /\ UNCHANGED <<scene, userStore, tokens, proved, left>>

-----------------------------------------------------------------------------
(* update and setActive; what an update that moved the e-mail spends; and  *)
(* users.delete, whose other steps are in Sessions.                        *)

Change(flow, record, value) ==
  CASE flow = "name"   -> FieldsPatch(record, [record.fields EXCEPT !.name = value])
    [] flow = "email"  -> FieldsPatch(record, [record.fields EXCEPT !.email = value])
    [] flow = "active" -> Patched(record, record.fields, ~record.active, record.verified)

ReadToUpdate(m, u, flow, value) ==
  /\ m \in Update /\ Begins(m)
  /\ users[u] # None
  /\ call' = [call EXCEPT ![m] =
                [@ EXCEPT !.pc = "write", !.flow = flow, !.user = u, !.value = value,
                          !.read = users[u], !.next = Change(flow, users[u], value)]]
  /\ UNCHANGED <<scene, userStore, tokens, proved, left>>

WriteUpdate(m) ==
  /\ m \in Update /\ call[m].pc = "write"
  /\ Write(m)
  /\ Goes(m, IF ~Lands(m) THEN "refused" ELSE IF MovedBy(m) THEN "spend" ELSE "done")
  /\ UNCHANGED <<scene, tokens, proved, left>>

(* The change links that were sent, and answered, to a user.               *)
Out(u) == {l \in Link : call[l].pc = "sent" /\ call[l].flow = "changeEmail" /\ call[l].user = u}

(* Mutant: a move of the e-mail leaves its links.                          *)
SpendNone(m) == tokens

SpendChangeLinks(m) == spendUserTokens(tokens, call[m].user, "changeEmail", 0, {})

Spend(m) ==
  /\ m \in Update /\ call[m].pc = "spend"
  /\ \/ /\ tokens' = SpendChangeLinks(m)
        /\ Goes(m, "done")
        /\ left' = left \cup Out(call[m].user)
        /\ UNCHANGED scene
     \/ /\ scene.failures > 0
        /\ scene' = [scene EXCEPT !.failures = @ - 1]
        /\ tokens' \in {tokens, SpendChangeLinks(m)}
        /\ Goes(m, "failed")
        /\ UNCHANGED left
  /\ UNCHANGED <<userStore, proved>>

DeleteUser(u) ==
  /\ scene.deletions > 0 /\ users[u] # None
  /\ scene' = [scene EXCEPT !.deletions = @ - 1]
  /\ users' = [users EXCEPT ![u] = None]
  /\ byLogin' = dropLogins(byLogin, users[u].logins)
  /\ UNCHANGED <<tokens, call, proved, left>>

Next ==
  \/ \E c \in Create :
       \/ \E key \in scene.values : FindHolder(c, key) \/ BeginInsert(c, "signUp", key)
       \/ BeginInsert(c, "create", None)
       \/ \E fields \in scene.inputs : InsertUser(c, fields)
       \/ FindAgain(c) \/ FindTaken(c) \/ FindTakenEmail(c)
       \/ \E l \in Link : IssueOnSignUp(c, l)
  \/ \E l \in Link :
       \/ \E u \in UserId : SendVerify(l, u)
       \/ \E email \in scene.values : SendPrepared(l, email)
       \/ \E u \in UserId, address \in scene.values : SendChange(l, u, address)
       \/ Issue(l) \/ SpendOthers(l)
  \/ \E c \in Confirm :
       \/ \E l \in Link, firstProof \in BOOLEAN : SpendLink(c, l, firstProof)
       \/ FindOwner(c) \/ ReadToConfirm(c) \/ WriteConfirmed(c)
  \/ \E p \in Prove :
       \/ \E u \in UserId, value \in scene.values \cup {None} : ReadActive(p, u, value)
       \/ ReadActiveAgain(p)
  \/ \E p \in Prove \cup Confirm : ReadToProve(p) \/ WriteProof(p)
  \/ \E m \in Update :
       \/ \E u \in UserId, flow \in {"name", "email", "active"}, value \in scene.values :
            ReadToUpdate(m, u, flow, value)
       \/ WriteUpdate(m) \/ Spend(m)
  \/ \E u \in UserId : DeleteUser(u)

Spec == Init /\ [][Next]_vars

-----------------------------------------------------------------------------
(* Every record keeps its shape.                                           *)
TypeOK ==
  /\ scene \in SceneRecord
  /\ users \in Users
  /\ byLogin \in Index
  /\ tokens \in Store
  /\ call \in [Call -> CallRecord]
  /\ proved \subseteq UserId \X Login
  /\ left \subseteq Link

(* A user is found by each of their logins and by nothing else, and what   *)
(* they sign in with is what their fields say: through creations, changes  *)
(* of either field and deletions that race for one login                   *)
(* (port/memory/user-index.ts, user-update.ts:18-62).                      *)
LoginsIndexed ==
  /\ \A login \in Login, u \in UserId :
       byLogin[login] = u <=> users[u] # None /\ login \in users[u].logins
  /\ \A u \in UserId : users[u] # None => users[u].logins = loginsOf(scene.login, users[u].fields)

(* Who findOrCreate and signUp answer with held the key they were asked    *)
(* for, whether found, created, or found after the write was refused for   *)
(* it, or for another of the new user's logins (find-or-create.ts:84-96,   *)
(* sign-up.ts:72-82).                                                      *)
FoundHoldsKey ==
  \A c \in Create :
    call[c].pc = "done" /\ call[c].flow # "create" =>
      LET byEmail == normalized(call[c].read.fields.email) = Normal[call[c].value]
          byLoginField == NormalName[call[c].value] \in call[c].read.logins
      IN  IF call[c].flow = "signUp" THEN byLoginField \/ byEmail
          ELSE IF scene.login = "none" THEN byEmail ELSE byLoginField

(* What a landed write changed stays until a later one changes it: no two  *)
(* of them that overlap lose the other's (context/records.ts:60-100).      *)
NoLostUpdate ==
  \A m \in Update :
    call[m].pc \in {"spend", "done", "failed"} /\ users[call[m].user] # None =>
      LET Later(flows) ==
            \E d \in Update \cup Confirm :
              /\ call[d].flow \in flows /\ call[d].user = call[m].user
              /\ call[d].pc \in {"spend", "done", "failed"}
              /\ call[d].next.version > call[m].next.version
          user == users[call[m].user]
      IN  CASE call[m].flow = "name"   -> user.fields.name = call[m].value \/ Later({"name"})
            [] call[m].flow = "email"  -> \/ user.fields.email = call[m].value
                                          \/ Later({"email", "changeEmail"})
            [] call[m].flow = "active" -> user.active = call[m].next.active \/ Later({"active"})

(* An e-mail is verified only if its own inbox was proved for that user:   *)
(* whatever moved it, and back, between the proof's reads and its write    *)
(* (verify-email.ts:90-101, change-email.ts:98-116, prove-first.ts:57-88,  *)
(* fields-patch.ts:41-44).  proveFirst marks a user who has no e-mail too; *)
(* the e-mail they get then is not verified by it.                         *)
VerifiedByProof ==
  \A u \in UserId :
    users[u] # None /\ users[u].verified /\ users[u].fields.email # None =>
      <<u, normalized(users[u].fields.email)>> \in proved

(* A link to change the e-mail that was out when an update moved it        *)
(* elsewhere, and answered, is dead for good: a move back to the address   *)
(* it was asked from does not revive it (users/update.ts:41-47).           *)
LeftLinksDead == \A c \in Confirm : call[c].late => call[c].pc = "refused"

=============================================================================
