--------------------------- MODULE OneTimeTokens ---------------------------
(***************************************************************************)
(* Signing in with a code or a link sent by e-mail, as calls that overlap  *)
(* on one token store: sign-in-code.ts, magic-link.ts, email-sign-in.ts    *)
(* and one-time/ of packages/janus/src/auth.                               *)
(*                                                                         *)
(* A SEND issues one secret and then spends every other its user holds; a  *)
(* secret is 32 random bytes, so it is named by the hash it is stored      *)
(* under and each send has its own.  A CONFIRM presents a secret, whoever  *)
(* minted it.  An `await` of the code is a step boundary here: each action *)
(* makes one store call and does what the code computes from its answer.   *)
(***************************************************************************)
EXTENDS TokenStore, FiniteSets

CONSTANTS Confirm,        \* the calls of signInCode.confirm and magicLink.confirm
          CODE_ATTEMPTS,  \* how many codes one challenge takes (5 in the code)
          Ttl,            \* tokenTtlMs, in ticks
          MaxTime         \* bound: the last tick of the clock

User == [active : BOOLEAN, email : Address]

ASSUME OneTimeAssumption ==
  /\ CODE_ATTEMPTS \in Nat \ {0}
  /\ Ttl \in Nat \ {0}
  /\ MaxTime \in Nat
  /\ Kind = {"signInCode", "magicLink"}
  /\ None \notin User

VARIABLES now,      \* the clock every call reads
          tokens,   \* the token store
          users,    \* the user store, as far as these calls read it
          deletion, \* how far users.delete got, for each user
          send,     \* the send of each secret
          confirm   \* the confirm calls

vars == <<now, tokens, users, deletion, send, confirm>>

SendCall ==
  [pc : {"prepared", "issue", "keepOnlyLatest", "sent", "nobody", "failed"},
   kind : Kind \cup {None},
   userId : UserId \cup {None},   \* the holder that was looked up
   address : Address \cup {None}, \* and the e-mail it had
   issued : BOOLEAN]              \* the secret reached the store

ConfirmCall ==
  [pc : {"idle", "findRecord", "burn", "spend", "ownerOf", "finish",
         "signedIn", "refused", "failed"},
   secret : Hash \cup {None},          \* what was presented
   answer : TokenRecord \cup {None},   \* what the store answered for it
   right : BOOLEAN,                    \* the code typed is the one sent
   welcome : BOOLEAN,                  \* the user read may sign in with it
   compared : BOOLEAN,                 \* a code was compared by this call
   redeemed : BOOLEAN]                 \* this call is the one that spent it

TypeOK ==
  /\ now \in 0..MaxTime
  /\ tokens \in Store
  /\ users \in [UserId -> User \cup {None}]
  /\ deletion \in [UserId -> {"no", "tokens", "done"}]
  /\ send \in [Hash -> SendCall]
  /\ confirm \in [Confirm -> ConfirmCall]

Init ==
  /\ now = 0
  /\ tokens = [h \in Hash |-> None]
  /\ users \in [UserId -> {user \in User : user.active}]
  /\ \A u, v \in UserId : users[u].email = users[v].email => u = v
  /\ deletion = [u \in UserId |-> "no"]
  /\ send = [h \in Hash |-> [pc |-> "prepared", kind |-> None, userId |-> None,
                             address |-> None, issued |-> FALSE]]
  /\ confirm = [c \in Confirm |->
                  [pc |-> "idle", secret |-> None, answer |-> None, right |-> FALSE,
                   welcome |-> FALSE, compared |-> FALSE, redeemed |-> FALSE]]

(* Mutant: refuseUnusable reads the expiry and forgets spentAt.            *)
UsableUnread(token, at) == token # None /\ token.expiresAt > at

(* What refuseUnusable lets through: stored, unspent and not lapsed.       *)
Usable(token, at) == Unspent(token) /\ token.expiresAt > at

(* What refuseStale and the inactive user of finishEmailSignIn let through.*)
Welcome(user, address) == user.active /\ user.email = address

-----------------------------------------------------------------------------
(* send: issueSignInCode and issueLink, after prepare counted and minted.  *)

(* signInHolder: nobody and an inactive user get the same answer.          *)
SignInHolder(h) ==
  /\ send[h].pc = "prepared"
  /\ \E kind \in Kind, email \in Address :
       \/ \E u \in UserId :
            /\ users[u] # None
            /\ Welcome(users[u], email)
            /\ send' = [send EXCEPT ![h].pc = "issue", ![h].kind = kind,
                                    ![h].userId = u, ![h].address = email]
       \/ /\ \A u \in UserId : users[u] # None => ~ Welcome(users[u], email)
          /\ send' = [send EXCEPT ![h].pc = "nobody"]
  /\ UNCHANGED <<now, tokens, users, deletion, confirm>>

NewToken(h) ==
  [kind |-> send[h].kind, userId |-> send[h].userId, address |-> send[h].address,
   attempts |-> 0, expiresAt |-> now + Ttl, spentAt |-> None]

IssueOneTime(h) ==
  /\ send[h].pc = "issue"
  /\ tokens' = insertToken(tokens, h, NewToken(h))
  /\ send' = [send EXCEPT ![h].pc = "keepOnlyLatest", ![h].issued = TRUE]
  /\ UNCHANGED <<now, users, deletion, confirm>>

(* Mutant: answered before the others are spent.                           *)
KeepThemAll(h) ==
  /\ send[h].pc = "keepOnlyLatest"
  /\ send' = [send EXCEPT ![h].pc = "sent"]
  /\ UNCHANGED <<now, tokens, users, deletion, confirm>>

KeepOnlyLatest(h) ==
  /\ send[h].pc = "keepOnlyLatest"
  /\ tokens' = spendUserTokens(tokens, send[h].userId, send[h].kind, now, {h})
  /\ send' = [send EXCEPT ![h].pc = "sent"]
  /\ UNCHANGED <<now, users, deletion, confirm>>

(* The store call this send was waiting for threw: nobody is mailed.       *)
SendFails(h) ==
  /\ send[h].pc \in {"issue", "keepOnlyLatest"}
  /\ send' = [send EXCEPT ![h].pc = "failed"]
  /\ UNCHANGED <<now, tokens, users, deletion, confirm>>

-----------------------------------------------------------------------------
(* signInCode.confirm: confirmCode.                                        *)

(* Mutant: a call counted past the last attempt is not refused.            *)
CountAnyAttempt(c) ==
  /\ confirm[c].pc = "idle"
  /\ \E h \in Hash, right \in BOOLEAN :
       LET counted == countAttempt(tokens, h, "signInCode")
           token == Answer(counted, h, "signInCode")
       IN /\ tokens' = counted
          /\ confirm' = [confirm EXCEPT
               ![c].pc = IF Usable(token, now) THEN "findRecord" ELSE "refused",
               ![c].secret = h, ![c].answer = token, ![c].right = right]
  /\ UNCHANGED <<now, users, deletion, send>>

(* countCodeAttempt: counted first, refused after.                         *)
CountCodeAttempt(c) ==
  /\ confirm[c].pc = "idle"
  /\ \E h \in Hash, right \in BOOLEAN :
       LET counted == countAttempt(tokens, h, "signInCode")
           token == Answer(counted, h, "signInCode")
           taken == Usable(token, now) /\ token.attempts <= CODE_ATTEMPTS
       IN /\ tokens' = counted
          /\ confirm' = [confirm EXCEPT
               ![c].pc = IF taken THEN "findRecord" ELSE "refused",
               ![c].secret = h, ![c].answer = token, ![c].right = right]
  /\ UNCHANGED <<now, users, deletion, send>>

(* Mutant: off by one, the attempt after the last would spend it.          *)
IsPastLastAttempt(c) == confirm[c].answer.attempts > CODE_ATTEMPTS

IsLastAttempt(c) == confirm[c].answer.attempts = CODE_ATTEMPTS

(* unknownChallenge, and the wrong code: the last attempt spends it.       *)
RefuseCode(c) == IF IsLastAttempt(c) THEN "burn" ELSE "refused"

(* findRecord: a user gone since compares nothing.                         *)
UnknownChallenge(c) ==
  /\ confirm[c].pc = "findRecord"
  /\ users[confirm[c].answer.userId] = None
  /\ confirm' = [confirm EXCEPT ![c].pc = RefuseCode(c)]
  /\ UNCHANGED <<now, tokens, users, deletion, send>>

(* findRecord, then codeMatches on what was typed.                         *)
CompareCode(c) ==
  LET token == confirm[c].answer
      user == users[token.userId]
  IN /\ confirm[c].pc = "findRecord"
     /\ user # None
     /\ confirm' = [confirm EXCEPT
          ![c].pc = IF confirm[c].right THEN "spend" ELSE RefuseCode(c),
          ![c].compared = TRUE,
          ![c].welcome = Welcome(user, token.address)]
     /\ UNCHANGED <<now, tokens, users, deletion, send>>

(* burnOneTime: its answer is not read.                                    *)
BurnOneTime(c) ==
  /\ confirm[c].pc = "burn"
  /\ tokens' = consumeToken(tokens, confirm[c].secret, "signInCode", now)
  /\ confirm' = [confirm EXCEPT ![c].pc = "refused"]
  /\ UNCHANGED <<now, users, deletion, send>>

(* Mutant: refused by what countAttempt answered, read before the write.   *)
SpendCodeStale(c) ==
  LET spent == Usable(confirm[c].answer, now)
  IN /\ confirm[c].pc = "spend"
     /\ tokens' = consumeToken(tokens, confirm[c].secret, "signInCode", now)
     /\ confirm' = [confirm EXCEPT ![c].pc = IF spent THEN "finish" ELSE "refused",
                                   ![c].redeemed = spent]
     /\ UNCHANGED <<now, users, deletion, send>>

(* spendOneTime of a challenge: the answer is the token BEFORE the write.  *)
SpendCode(c) ==
  LET h == confirm[c].secret
      before == Answer(tokens, h, "signInCode")
      spent == Usable(before, now)
  IN /\ confirm[c].pc = "spend"
     /\ tokens' = consumeToken(tokens, h, "signInCode", now)
     /\ confirm' = [confirm EXCEPT ![c].pc = IF spent THEN "finish" ELSE "refused",
                                   ![c].redeemed = spent]
     /\ UNCHANGED <<now, users, deletion, send>>

-----------------------------------------------------------------------------
(* magicLink.confirm: redeemEmailToken spends first, whatever follows.     *)

SpendLink(c) ==
  /\ confirm[c].pc = "idle"
  /\ \E h \in Hash :
       LET before == Answer(tokens, h, "magicLink")
           spent == Usable(before, now)
       IN /\ tokens' = consumeToken(tokens, h, "magicLink", now)
          /\ confirm' = [confirm EXCEPT
               ![c].pc = IF spent THEN "ownerOf" ELSE "refused",
               ![c].secret = h, ![c].answer = before, ![c].redeemed = spent]
  /\ UNCHANGED <<now, users, deletion, send>>

OwnerOf(c) ==
  LET token == confirm[c].answer
      user == users[token.userId]
  IN /\ confirm[c].pc = "ownerOf"
     /\ confirm' = [confirm EXCEPT
          ![c].pc = IF user = None THEN "refused" ELSE "finish",
          ![c].welcome = user # None /\ Welcome(user, token.address)]
     /\ UNCHANGED <<now, tokens, users, deletion, send>>

(* finishEmailSignIn, with the user this call read.                        *)
Finish(c) ==
  /\ confirm[c].pc = "finish"
  /\ confirm' = [confirm EXCEPT ![c].pc = IF confirm[c].welcome THEN "signedIn"
                                          ELSE "refused"]
  /\ UNCHANGED <<now, tokens, users, deletion, send>>

ConfirmFails(c) ==
  /\ confirm[c].pc \in {"findRecord", "burn", "spend", "ownerOf", "finish"}
  /\ confirm' = [confirm EXCEPT ![c].pc = "failed"]
  /\ UNCHANGED <<now, tokens, users, deletion, send>>

-----------------------------------------------------------------------------
(* What runs beside them.                                                  *)

(* users.update: the e-mail is unique, and may be given up for another.    *)
UpdateUser(u) ==
  /\ users[u] # None
  /\ \E user \in User :
       /\ \A v \in UserId \ {u} : users[v] # None => users[v].email # user.email
       /\ users' = [users EXCEPT ![u] = user]
  /\ UNCHANGED <<now, tokens, deletion, send, confirm>>

(* users.delete: the user, then what names them; a replay starts at the    *)
(* second step.                                                            *)
DeleteUser(u) ==
  /\ users[u] # None
  /\ users' = [users EXCEPT ![u] = None]
  /\ deletion' = [deletion EXCEPT ![u] = "tokens"]
  /\ UNCHANGED <<now, tokens, send, confirm>>

DeleteUserTokens(u) ==
  /\ users[u] = None
  /\ tokens' = deleteUserTokens(tokens, u)
  /\ deletion' = [deletion EXCEPT ![u] = "done"]
  /\ UNCHANGED <<now, users, send, confirm>>

(* collectExpired, or the store's own expiry.                              *)
CollectExpired ==
  /\ tokens' = deleteExpiredTokens(tokens, now)
  /\ UNCHANGED <<now, users, deletion, send, confirm>>

Tick ==
  /\ now < MaxTime
  /\ now' = now + 1
  /\ UNCHANGED <<tokens, users, deletion, send, confirm>>

SendNext(h) ==
  SignInHolder(h) \/ IssueOneTime(h) \/ KeepOnlyLatest(h) \/ SendFails(h)

ConfirmNext(c) ==
  \/ CountCodeAttempt(c) \/ UnknownChallenge(c) \/ CompareCode(c) \/ BurnOneTime(c)
  \/ SpendCode(c) \/ SpendLink(c) \/ OwnerOf(c) \/ Finish(c) \/ ConfirmFails(c)

UserNext(u) == UpdateUser(u) \/ DeleteUser(u) \/ DeleteUserTokens(u)

Next ==
  \/ \E h \in Hash : SendNext(h)
  \/ \E c \in Confirm : ConfirmNext(c)
  \/ \E u \in UserId : UserNext(u)
  \/ CollectExpired
  \/ Tick

Spec == Init /\ [][Next]_vars

-----------------------------------------------------------------------------
(* Properties.                                                             *)

(* Of the calls that redeem one secret at once, exactly one is let on: the *)
(* consumeToken answer of every other one is already spent (spend.ts).     *)
RedeemedOnce ==
  \A c, d \in Confirm :
    (/\ confirm[c].redeemed /\ confirm[d].redeemed
     /\ confirm[c].secret = confirm[d].secret) => c = d

ComparedWith(h) == {c \in Confirm : confirm[c].secret = h /\ confirm[c].compared}

(* A challenge takes CODE_ATTEMPTS codes, however many calls race: a call  *)
(* counted past the last one compares nothing (codes.ts).                  *)
GuessesBounded == \A h \in Hash : Cardinality(ComparedWith(h)) <= CODE_ATTEMPTS

(* Requests that race leave at most one live secret among those that were  *)
(* answered, so mailed: issued first, the others spent after               *)
(* (keepOnlyLatest of email-sign-in.ts).                                   *)
OneLiveSecretSent ==
  \A g, h \in Hash :
    (/\ send[g].pc = "sent" /\ send[h].pc = "sent"
     /\ send[g].userId = send[h].userId /\ send[g].kind = send[h].kind
     /\ Unspent(tokens[g]) /\ Unspent(tokens[h])) => g = h

(* Once every call that counted an attempt has been answered, a challenge  *)
(* whose attempts are used up is spent, right code or wrong (confirmCode,  *)
(* unknownChallenge): no call leaves it live for a sixth.                  *)
LastAttemptSpends ==
  \A h \in Hash :
    (/\ tokens[h] # None
     /\ tokens[h].expiresAt > now
     /\ tokens[h].attempts >= CODE_ATTEMPTS
     /\ \A c \in Confirm : confirm[c].secret = h =>
          confirm[c].pc \in {"signedIn", "refused"})
    => ~ Unspent(tokens[h])

(* The promise of OneUse, kept by this protocol.                           *)
Status(h) ==
  IF \E c \in Confirm : confirm[c].redeemed /\ confirm[c].secret = h THEN "used"
  ELSE IF ~ send[h].issued THEN "unissued"
  ELSE IF Unspent(tokens[h]) THEN "live"
  ELSE "void"

Promise == INSTANCE OneUse WITH
  Secret <- Hash,
  Guesses <- CODE_ATTEMPTS,
  status <- [h \in Hash |-> Status(h)],
  guesses <- [h \in Hash |-> Cardinality(ComparedWith(h))]

(* Every behaviour of the calls is one of the abstract one-use secrets:    *)
(* used at most once, only while live, and never live again.               *)
KeepsPromise == Promise!Spec
-----------------------------------------------------------------------------
(* Why RedeemedOnce and GuessesBounded hold: the inductive invariant.      *)

Guessing(c) == confirm[c].compared \/ confirm[c].pc \in {"findRecord", "burn", "spend"}

SendKnown(h) ==
  /\ send[h].pc \in {"issue", "keepOnlyLatest", "sent"} =>
       /\ send[h].userId \in UserId
       /\ send[h].kind \in Kind
       /\ send[h].address \in Address
  /\ send[h].pc \in {"prepared", "issue", "nobody"} => ~ send[h].issued
  /\ tokens[h] # None =>
       /\ send[h].issued
       /\ tokens[h].userId = send[h].userId
       /\ tokens[h].kind = send[h].kind

(* What a counting call was answered never runs ahead of the store.        *)
CountKnown(c) ==
  /\ confirm[c].answer # None
  /\ confirm[c].answer.attempts \in 1..CODE_ATTEMPTS
  /\ send[confirm[c].secret].issued
  /\ tokens[confirm[c].secret] # None =>
       confirm[c].answer.attempts <= tokens[confirm[c].secret].attempts

ConfirmKnown(c) ==
  /\ confirm[c].pc \in {"idle", "findRecord"} => ~ confirm[c].compared
  /\ confirm[c].pc \in {"idle", "findRecord", "burn", "spend"} => ~ confirm[c].redeemed
  /\ confirm[c].pc # "idle" => confirm[c].secret \in Hash
  /\ confirm[c].pc = "ownerOf" => confirm[c].answer # None
  /\ Guessing(c) => CountKnown(c)
  /\ confirm[c].redeemed => /\ send[confirm[c].secret].issued
                            /\ ~ Unspent(tokens[confirm[c].secret])

SendsKnown == \A h \in Hash : SendKnown(h)
ConfirmsKnown == \A c \in Confirm : ConfirmKnown(c)

(* Each code compared with a secret was counted with a number of its own.  *)
CountsDistinct ==
  \A c, d \in Confirm :
    (/\ Guessing(c) /\ Guessing(d)
     /\ confirm[c].secret = confirm[d].secret
     /\ confirm[c].answer.attempts = confirm[d].answer.attempts) => c = d

Bookkeeping == SendsKnown /\ ConfirmsKnown /\ CountsDistinct

=============================================================================
