--------------------------- MODULE PasswordSignIn ---------------------------
(***************************************************************************)
(* One user's password sign-ins beside whatever writes their password:     *)
(* users/sign-in.ts, second-factor/{challenge,recovery,redeem,enroll,      *)
(* activate,regenerate,disable}.ts, password-written.ts,                   *)
(* users/{change-password,password-flows}.ts,                              *)
(* email-flows/{reset-password,confirm-reset}.ts and first-proof.ts of     *)
(* packages/janus/src/auth, over one user store, one session store and the *)
(* token store of TokenStore.                                              *)
(*                                                                         *)
(* As in OneTimeTokens, an `await` is a step boundary and each action is   *)
(* one store call.  The throttle's count, the events and the clock are     *)
(* left out: nothing lapses here, which only keeps more alive.             *)
(***************************************************************************)
EXTENDS TokenStore, Sequences, FiniteSets

CONSTANTS SignIn,    \* calls of signIn; each names the challenge it may issue
          Confirm,   \* calls of secondFactor.confirm and secondFactor.recover
          Writer,    \* calls that write the password
          Link,      \* calls of resetPassword.request; each names its link
          Keeper,    \* calls that enroll, activate or regenerate the second factor
          Password,
          Secret, RecoveryCode, \* of second factors
          Holder,               \* the user all of them are about
          CODE_ATTEMPTS,
          MaxStep,              \* bound: the steps of the clock
          Scene                 \* which calls overlap, and what they start from

-----------------------------------------------------------------------------
(* A user's second factor as data: what each call writes in place of the   *)
(* factor it read (second-factor/{factor,enroll,activate,regenerate,       *)
(* recovery-codes}.ts, totp.ts).  An app's code is of a secret and of a    *)
(* step of the clock; which steps the drift allows now is left open.  A    *)
(* call mints one secret, and one recovery code where the code mints ten:  *)
(* each is named after the call.                                           *)

AppCode == Secret \X (1..MaxStep)

Factor == [secret : Secret, confirmed : BOOLEAN, lastStep : 0..MaxStep,
           recoveryCodes : SUBSET RecoveryCode]

IsFactor(factor) == factor \in Factor
isActive(factor) == IsFactor(factor) /\ factor.confirmed

(* enroll: no code of its app was accepted yet.                            *)
Enrolled(secret) ==
  [secret |-> secret, confirmed |-> FALSE, lastStep |-> 0, recoveryCodes |-> {}]

(* acceptCode: a code matches the secret, and its step is after lastStep.  *)
AppCodeAccepted(factor, code) ==
  code \in AppCode /\ code[1] = factor.secret /\ code[2] > factor.lastStep

StepTaken(factor, code) == [factor EXCEPT !.lastStep = code[2]]

Activated(factor, code, minted) ==
  [StepTaken(factor, code) EXCEPT !.confirmed = TRUE, !.recoveryCodes = {minted}]

Regenerated(factor, code, minted) ==
  [StepTaken(factor, code) EXCEPT !.recoveryCodes = {minted}]

(* What confirm and recover accept, and what they write.                   *)
Accepts(factor, code) == AppCodeAccepted(factor, code) \/ code \in factor.recoveryCodes

Used(factor, code) ==
  IF code \in factor.recoveryCodes
    THEN [factor EXCEPT !.recoveryCodes = @ \ {code}]
    ELSE StepTaken(factor, code)

-----------------------------------------------------------------------------
Email == Address \ {""}

SceneRecord ==
  [calls : SUBSET (SignIn \cup Confirm \cup Writer \cup Link \cup Keeper),
   updates : Nat,   \* bound: calls of update, setActive and disable
   requireVerifiedEmail : BOOLEAN,
   email : Email,   \* the first one
   stale : BOOLEAN] \* the first hash is another hasher's

ASSUME PasswordSignInAssumption ==
  /\ Hash = SignIn \cup Link
  /\ SignIn \cap (Link \cup Confirm \cup Writer) = {}
  /\ UserId = {Holder}
  /\ Kind = {"secondFactor", "resetPassword"}
  /\ "" \in Address
  /\ None \notin Password
  /\ CODE_ATTEMPTS \in Nat \ {0}
  /\ Scene \subseteq SceneRecord
  /\ MaxStep \in Nat
  /\ Keeper \subseteq Secret /\ Keeper \subseteq RecoveryCode
  /\ None \notin Factor \cup AppCode \cup RecoveryCode
  /\ AppCode \cap RecoveryCode = {}

VARIABLES scene,    \* the calls that may overlap, and what is left of them
          user,     \* the user's record, or None once deleted
          deletion, \* how far users.delete got
          tokens,   \* the token store
          session,  \* the session each call opened
          signIn,
          confirm,
          writer,
          link,
          keeper,
          written   \* history: every password the user has had, in order

vars == <<scene, user, deletion, tokens, session, signIn, confirm, writer, link, keeper, written>>

Caller == SignIn \cup Confirm \cup Writer

UserRecord ==
  [version : Nat, active : BOOLEAN, email : Email, emailVerified : BOOLEAN,
   password : Password \cup {None},
   stale : BOOLEAN,                   \* the hash is another hasher's
   secondFactor : Factor \cup {None}]

ASSUME NoUserAssumption == None \notin UserRecord

SignInCall ==
  [pc : {"idle", "rehash", "finish", "held", "undo", "answered", "refused", "failed"},
   password : Password \cup {None},  \* what was typed
   version : Nat,                    \* of the record it matched
   factor : BOOLEAN]                 \* that record has an active second factor

ConfirmCall ==
  [pc : {"idle", "findRecord", "burn", "spendRefused", "write", "spend", "open",
         "signedIn", "refused", "failed"},
   challenge : SignIn \cup {None},
   code : AppCode \cup RecoveryCode \cup {None},
   attempts : Nat,
   version : Nat,                       \* of the record it read
   factor : Factor \cup {None},         \* and its factor
   accepted : BOOLEAN]                  \* history: its code was written as used

WriterCall ==
  [pc : {"idle", "owner", "read", "write", "revoke", "spend", "finish",
         "done", "refused", "failed"},
   flow : {"change", "reset", "firstProof", None},
   next : Password \cup {None},
   address : Address \cup {None},       \* of the link a reset redeems
   version : Nat,                       \* of the record it read
   toSpend : SUBSET Kind,               \* spends of endWhatThePasswordOpened to come
   unspent : SUBSET Kind,               \* and those that failed
   nth : Nat]                           \* history: which password it wrote

LinkCall ==
  [pc : {"idle", "issue", "keepOnlyLatest", "sent", "nobody", "failed"},
   address : Address \cup {None},
   since : Nat]                         \* history: passwords written when issued

KeeperCall ==
  [pc : {"idle", "write", "done", "refused", "failed"},
   flow : {"enroll", "activate", "regenerate", None},
   code : AppCode \cup {None},
   version : Nat,                       \* of the record it read
   next : Factor \cup {None},           \* what it decided to write
   accepted : BOOLEAN]                  \* history: its code was written as used

TypeOK ==
  /\ scene \in SceneRecord
  /\ user \in UserRecord \cup {None}
  /\ deletion \in {"no", "sessions", "tokens", "done"}
  /\ tokens \in Store
  /\ session \in [Caller -> {"none", "live", "revoked"}]
  /\ signIn \in [SignIn -> SignInCall]
  /\ confirm \in [Confirm -> ConfirmCall]
  /\ writer \in [Writer -> WriterCall]
  /\ link \in [Link -> LinkCall]
  /\ keeper \in [Keeper -> KeeperCall]
  /\ written \in Seq(Password \cup {None})

NewSignIn == [pc |-> "idle", password |-> None, version |-> 0, factor |-> FALSE]

NewConfirm == [pc |-> "idle", challenge |-> None, code |-> None, attempts |-> 0,
               version |-> 0, factor |-> None, accepted |-> FALSE]

NewWriter == [pc |-> "idle", flow |-> None, next |-> None, address |-> None, version |-> 0,
              toSpend |-> {}, unspent |-> {}, nth |-> 0]

NewKeeper == [pc |-> "idle", flow |-> None, code |-> None, version |-> 0, next |-> None,
              accepted |-> FALSE]

(* None, or active since before, its codes unused.                         *)
FirstFactors ==
  {None} \cup [secret : Secret \ Keeper, confirmed : {TRUE}, lastStep : {0},
               recoveryCodes : {RecoveryCode \ Keeper}]

Init ==
  /\ scene \in Scene
  /\ \E password \in Password, verified \in BOOLEAN, factor \in FirstFactors :
       /\ user = [version |-> 1, active |-> TRUE, email |-> scene.email,
                  emailVerified |-> verified, password |-> password, stale |-> scene.stale,
                  secondFactor |-> factor]
       /\ written = <<password>>
  /\ deletion = "no"
  /\ tokens = [h \in Hash |-> None]
  /\ session = [c \in Caller |-> "none"]
  /\ signIn = [s \in SignIn |-> NewSignIn]
  /\ confirm = [c \in Confirm |-> NewConfirm]
  /\ writer = [w \in Writer |-> NewWriter]
  /\ link = [l \in Link |-> [pc |-> "idle", address |-> None, since |-> 0]]
  /\ keeper = [k \in Keeper |-> NewKeeper]

-----------------------------------------------------------------------------
(* The stores.                                                             *)

(* updateUser under the version read: the fields it names are patched, or  *)
(* it is a VERSION_CONFLICT (a NOT_FOUND for a user gone) and none is.     *)
AtVersion(version) == user # None /\ user.version = version

Written(patched) == [patched EXCEPT !.version = @ + 1]

insertSession(c) == session' = [session EXCEPT ![c] = "live"]

revokeUserSessions ==
  session' = [c \in Caller |-> IF session[c] = "live" THEN "revoked" ELSE session[c]]

NewToken(kind, address) ==
  [kind |-> kind, userId |-> Holder, address |-> address, attempts |-> 0,
   expiresAt |-> 1, spentAt |-> None]

-----------------------------------------------------------------------------
(* signIn.                                                                 *)

(* byLogin, the password compared, then what is refused only after it.     *)
VerifyPassword(s) ==
  /\ s \in scene.calls /\ signIn[s].pc = "idle"
  /\ \E password \in Password :
       LET matches == /\ user # None
                      /\ user.password = password
                      /\ user.active
                      /\ scene.requireVerifiedEmail => user.emailVerified
       IN signIn' = [signIn EXCEPT
            ![s] = [pc |-> IF ~ matches THEN "refused"
                           ELSE IF user.stale THEN "rehash" ELSE "finish",
                    password |-> password,
                    version |-> IF matches THEN user.version ELSE 0,
                    factor |-> matches /\ isActive(user.secondFactor)]]
  /\ UNCHANGED <<scene, user, deletion, tokens, session, confirm, writer, link, keeper, written>>

(* Mutant: rewritten whatever the version, with the password verified.     *)
RehashUnversioned(s) ==
  /\ signIn[s].pc = "rehash"
  /\ user' = IF user # None
               THEN Written([user EXCEPT !.stale = FALSE, !.password = signIn[s].password])
               ELSE user
  /\ signIn' = [signIn EXCEPT ![s].pc = IF user = None THEN "failed" ELSE "finish"]
  /\ UNCHANGED <<scene, deletion, tokens, session, confirm, writer, link, keeper, written>>

(* rehashed: losing the race to another write is not this call's failure.  *)
Rehash(s) ==
  /\ signIn[s].pc = "rehash"
  /\ user' = IF AtVersion(signIn[s].version)
               THEN Written([user EXCEPT !.stale = FALSE]) ELSE user
  /\ signIn' = [signIn EXCEPT ![s].pc = IF user = None THEN "failed" ELSE "finish"]
  /\ UNCHANGED <<scene, deletion, tokens, session, confirm, writer, link, keeper, written>>

(* finish of second-factor/flows.ts: a challenge for an active factor.     *)
FinishSignIn(s) ==
  /\ signIn[s].pc = "finish"
  /\ IF signIn[s].factor
       THEN /\ tokens' = insertToken(tokens, s, NewToken("secondFactor", ""))
            /\ UNCHANGED session
       ELSE /\ insertSession(s)
            /\ UNCHANGED tokens
  /\ signIn' = [signIn EXCEPT ![s].pc = "held"]
  /\ UNCHANGED <<scene, user, deletion, confirm, writer, link, keeper, written>>

(* Mutant: the user is not read again.                                     *)
HeldUnread(s) ==
  /\ signIn[s].pc = "held"
  /\ signIn' = [signIn EXCEPT ![s].pc = "answered"]
  /\ UNCHANGED <<scene, user, deletion, tokens, session, confirm, writer, link, keeper, written>>

(* heldByPassword: the user read again, once the sign-in issued.           *)
HeldByPassword(s) ==
  /\ signIn[s].pc = "held"
  /\ signIn' = [signIn EXCEPT
       ![s].pc = IF user # None /\ user.password = signIn[s].password
                   THEN "answered" ELSE "undo"]
  /\ UNCHANGED <<scene, user, deletion, tokens, session, confirm, writer, link, keeper, written>>

EndSignIn(s) ==
  /\ signIn[s].pc = "undo"
  /\ IF signIn[s].factor
       THEN /\ tokens' = consumeToken(tokens, s, "secondFactor", 0)
            /\ UNCHANGED session
       ELSE /\ session' = [session EXCEPT ![s] = IF @ = "live" THEN "revoked" ELSE @]
            /\ UNCHANGED tokens
  /\ signIn' = [signIn EXCEPT ![s].pc = "refused"]
  /\ UNCHANGED <<scene, user, deletion, confirm, writer, link, keeper, written>>

SignInFails(s) ==
  /\ signIn[s].pc \in {"rehash", "finish", "held", "undo"}
  /\ signIn' = [signIn EXCEPT ![s] = [NewSignIn EXCEPT !.pc = "failed"]]
  /\ UNCHANGED <<scene, user, deletion, tokens, session, confirm, writer, link, keeper, written>>

-----------------------------------------------------------------------------
(* secondFactor.confirm and secondFactor.recover.                          *)

(* What a caller may type: a code of what was minted so far; None is one   *)
(* that matches nothing.                                                   *)
Minted == (Secret \cup RecoveryCode) \ {k \in Keeper : keeper[k].pc = "idle"}
TypedAppCode == {code \in AppCode : code[1] \in Minted}
Typed == TypedAppCode \cup (RecoveryCode \cap Minted) \cup {None}

(* openChallenge, its first half: the attempt is counted.                  *)
CountCodeAttempt(c) ==
  /\ c \in scene.calls /\ confirm[c].pc = "idle"
  /\ \E s \in {t \in SignIn : signIn[t].pc = "answered"}, code \in Typed :
       LET counted == countAttempt(tokens, s, "secondFactor")
           token == Answer(counted, s, "secondFactor")
           taken == Unspent(token) /\ token.attempts <= CODE_ATTEMPTS
       IN /\ tokens' = counted
          /\ confirm' = [confirm EXCEPT
               ![c] = [@ EXCEPT !.pc = IF taken THEN "findRecord" ELSE "refused",
                                !.challenge = s, !.code = code,
                                !.attempts = IF taken THEN token.attempts ELSE 0]]
  /\ UNCHANGED <<scene, user, deletion, session, signIn, writer, link, keeper, written>>

(* Its second half, then the code compared, on the record it read: nobody, *)
(* inactive, without a factor any more, or a code that does not match.     *)
CompareCode(c) ==
  LET refuseCode == IF confirm[c].attempts = CODE_ATTEMPTS THEN "burn" ELSE "refused"
  IN /\ confirm[c].pc = "findRecord"
     /\ confirm' = [confirm EXCEPT
          ![c].version = IF user = None THEN 0 ELSE user.version,
          ![c].factor = IF user = None THEN None ELSE user.secondFactor,
          ![c].pc = CASE user = None -> refuseCode
                      [] user # None /\ (~ user.active \/ ~ isActive(user.secondFactor))
                           -> "spendRefused"
                      [] user # None /\ user.active /\ isActive(user.secondFactor)
                           -> IF Accepts(user.secondFactor, confirm[c].code)
                                THEN "write" ELSE refuseCode]
     /\ UNCHANGED <<scene, user, deletion, tokens, session, signIn, writer, link, keeper, written>>

(* The challenge spent by a call that is refused, whoever spends it.       *)
BurnChallenge(c) ==
  /\ confirm[c].pc \in {"burn", "spendRefused"}
  /\ tokens' = consumeToken(tokens, confirm[c].challenge, "secondFactor", 0)
  /\ confirm' = [confirm EXCEPT ![c].pc = "refused"]
  /\ UNCHANGED <<scene, user, deletion, session, signIn, writer, link, keeper, written>>

(* Mutant: written whatever the version.                                   *)
WriteFactorUnversioned(c) ==
  /\ confirm[c].pc = "write" /\ user # None
  /\ user' = Written([user EXCEPT !.secondFactor = Used(confirm[c].factor, confirm[c].code)])
  /\ confirm' = [confirm EXCEPT ![c].pc = "spend", ![c].accepted = TRUE]
  /\ UNCHANGED <<scene, deletion, tokens, session, signIn, writer, link, keeper, written>>

(* The factor written under the version read: of two codes accepted at     *)
(* once, the second write is VERSION_CONFLICT.                             *)
WriteFactor(c) ==
  /\ confirm[c].pc = "write"
  /\ IF AtVersion(confirm[c].version)
       THEN /\ user' = Written([user EXCEPT
                  !.secondFactor = Used(confirm[c].factor, confirm[c].code)])
            /\ confirm' = [confirm EXCEPT ![c].pc = "spend", ![c].accepted = TRUE]
       ELSE /\ confirm' = [confirm EXCEPT ![c].pc = "refused"]
            /\ UNCHANGED user
  /\ UNCHANGED <<scene, deletion, tokens, session, signIn, writer, link, keeper, written>>

SpendChallenge(c) ==
  LET before == Answer(tokens, confirm[c].challenge, "secondFactor")
  IN /\ confirm[c].pc = "spend"
     /\ tokens' = consumeToken(tokens, confirm[c].challenge, "secondFactor", 0)
     /\ confirm' = [confirm EXCEPT ![c].pc = IF Unspent(before) THEN "open" ELSE "refused"]
     /\ UNCHANGED <<scene, user, deletion, session, signIn, writer, link, keeper, written>>

OpenConfirmed(c) ==
  /\ confirm[c].pc = "open"
  /\ insertSession(c)
  /\ confirm' = [confirm EXCEPT ![c].pc = "signedIn"]
  /\ UNCHANGED <<scene, user, deletion, tokens, signIn, writer, link, keeper, written>>

ConfirmFails(c) ==
  /\ confirm[c].pc \in {"findRecord", "burn", "spendRefused", "write", "spend", "open"}
  /\ confirm' = [confirm EXCEPT ![c] = [@ EXCEPT !.pc = "failed", !.version = 0,
                                                  !.factor = None, !.attempts = 0]]
  /\ UNCHANGED <<scene, user, deletion, tokens, session, signIn, writer, link, keeper, written>>

-----------------------------------------------------------------------------
(* What writes the password: changePassword, setPassword, confirmReset and *)
(* proveFirstEmail.                                                        *)

Refuse(w) == writer' = [writer EXCEPT ![w] = [NewWriter EXCEPT !.pc = "refused"]]

(* changePassword and setPassword, the flow "change" here: writeUser reads *)
(* the user, and the first also compares the current password.             *)
BeginChange(w) ==
  /\ w \in scene.calls /\ writer[w].pc = "idle"
  /\ \/ Refuse(w)   \* nobody, or the current password does not match
     \/ /\ user # None
        /\ \E next \in Password :
             writer' = [writer EXCEPT ![w] = [@ EXCEPT
               !.pc = "write", !.flow = "change", !.next = next, !.version = user.version]]
  /\ UNCHANGED <<scene, user, deletion, tokens, session, signIn, confirm, link, keeper, written>>

(* confirmReset: redeemEmailToken spends the link before anything is read. *)
BeginReset(w) ==
  /\ w \in scene.calls /\ writer[w].pc = "idle"
  /\ \E l \in {k \in Link : link[k].pc = "sent"}, next \in Password :
       LET before == Answer(tokens, l, "resetPassword")
       IN /\ tokens' = consumeToken(tokens, l, "resetPassword", 0)
          /\ IF Unspent(before)
               THEN writer' = [writer EXCEPT ![w] = [@ EXCEPT
                      !.pc = "owner", !.flow = "reset", !.next = next,
                      !.address = before.address]]
               ELSE Refuse(w)
  /\ UNCHANGED <<scene, user, deletion, session, signIn, confirm, link, keeper, written>>

OwnerOf(w) ==
  /\ writer[w].pc = "owner"
  /\ IF user # None /\ user.email = writer[w].address
       THEN writer' = [writer EXCEPT ![w].pc = "read"]
       ELSE Refuse(w)
  /\ UNCHANGED <<scene, user, deletion, tokens, session, signIn, confirm, link, keeper, written>>

(* proveFirstEmail, for a code or a link just redeemed (OneTimeTokens) and *)
(* the user read for it: what the squatter opened ends before the write.   *)
BeginFirstProof(w) ==
  /\ w \in scene.calls /\ writer[w].pc = "idle"
  /\ user # None /\ user.active /\ ~ user.emailVerified
  /\ writer' = [writer EXCEPT ![w] = [@ EXCEPT
       !.pc = "revoke", !.flow = "firstProof", !.address = user.email,
       !.version = user.version]]
  /\ UNCHANGED <<scene, user, deletion, tokens, session, signIn, confirm, link, keeper, written>>

(* Mutant: the link's address is not checked again on the record written.  *)
MayWriteStale(w) ==
  /\ user # None
  /\ writer[w].flow = "firstProof" => user.version = writer[w].version

(* What writeUser's callback checks on the record the write replaces.      *)
MayWrite(w) ==
  /\ user # None
  /\ writer[w].flow = "reset" => user.email = writer[w].address
  /\ writer[w].flow = "firstProof" => user.version = writer[w].version

ReadUser(w) ==
  /\ writer[w].pc = "read"
  /\ IF MayWrite(w)
       THEN writer' = [writer EXCEPT ![w].pc = "write", ![w].version = user.version]
       ELSE Refuse(w)
  /\ UNCHANGED <<scene, user, deletion, tokens, session, signIn, confirm, link, keeper, written>>

Patched(w) ==
  LET next == [user EXCEPT !.password = writer[w].next, !.stale = FALSE]
  IN CASE writer[w].flow = "change" -> next
       [] writer[w].flow = "reset" -> [next EXCEPT !.emailVerified = TRUE]
       [] writer[w].flow = "firstProof" ->
            [next EXCEPT !.emailVerified = TRUE, !.secondFactor = None]

(* Mutant: a reset leaves the sessions, as a change does.                  *)
AfterWriteSignedIn(w) == "spend"

(* A reset and a first proof sign the user out everywhere; a change and a  *)
(* set leave the sessions.                                                 *)
AfterWrite(w) == IF writer[w].flow \in {"reset", "firstProof"} THEN "revoke" ELSE "spend"

WritePassword(w) ==
  /\ writer[w].pc = "write"
  /\ IF AtVersion(writer[w].version)
       THEN /\ user' = Written(Patched(w))
            /\ written' = Append(written, writer[w].next)
            /\ writer' = [writer EXCEPT ![w] = [@ EXCEPT
                 !.pc = AfterWrite(w), !.toSpend = Kind, !.nth = Len(written) + 1,
                 !.version = 0, !.next = None]]
       ELSE /\ Refuse(w)
            /\ UNCHANGED <<scene, user, written>>
  /\ UNCHANGED <<scene, deletion, tokens, session, signIn, confirm, link, keeper>>

RevokeUserSessions(w) ==
  /\ writer[w].pc = "revoke"
  /\ revokeUserSessions
  /\ writer' = [writer EXCEPT ![w].pc = "spend", ![w].toSpend = Kind]
  /\ UNCHANGED <<scene, user, deletion, tokens, signIn, confirm, link, keeper, written>>

(* Once both spends settled: on, unless one of them failed.                *)
AfterSpends(w, unspent) ==
  CASE unspent # {} -> "failed"
    [] unspent = {} /\ writer[w].flow # "firstProof" -> "done"
    [] unspent = {} /\ writer[w].flow = "firstProof" ->
         IF writer[w].nth = 0 THEN "read" ELSE "finish"

(* Mutant: the first that fails stops the other.                           *)
EndUntilOneFails(w) ==
  /\ writer[w].pc = "spend"
  /\ \E kind \in writer[w].toSpend, fails \in BOOLEAN :
       LET left == IF fails THEN {} ELSE writer[w].toSpend \ {kind}
           unspent == IF fails THEN {kind} ELSE {}
       IN /\ tokens' = IF fails THEN tokens
                       ELSE spendUserTokens(tokens, Holder, kind, 0, {})
          /\ writer' = [writer EXCEPT ![w] = [@ EXCEPT
               !.toSpend = left, !.unspent = unspent,
               !.pc = IF left = {} THEN AfterSpends(w, unspent) ELSE "spend"]]
  /\ UNCHANGED <<scene, user, deletion, session, signIn, confirm, link, keeper, written>>

(* endWhatThePasswordOpened: both at once, each spends or fails.           *)
EndWhatThePasswordOpened(w) ==
  /\ writer[w].pc = "spend"
  /\ \E kind \in writer[w].toSpend, fails \in BOOLEAN :
       LET left == writer[w].toSpend \ {kind}
           unspent == writer[w].unspent \cup (IF fails THEN {kind} ELSE {})
       IN /\ tokens' = IF fails THEN tokens
                       ELSE spendUserTokens(tokens, Holder, kind, 0, {})
          /\ writer' = [writer EXCEPT ![w] = [@ EXCEPT
               !.toSpend = left, !.unspent = unspent,
               !.pc = IF left = {} THEN AfterSpends(w, unspent) ELSE "spend"]]
  /\ UNCHANGED <<scene, user, deletion, session, signIn, confirm, link, keeper, written>>

(* The e-mail's holder is signed in, no factor asked: it was dropped.      *)
FinishProof(w) ==
  /\ writer[w].pc = "finish"
  /\ insertSession(w)
  /\ writer' = [writer EXCEPT ![w].pc = "done"]
  /\ UNCHANGED <<scene, user, deletion, tokens, signIn, confirm, link, keeper, written>>

WriterFails(w) ==
  /\ writer[w].pc \in {"owner", "read", "write", "revoke", "finish"}
  /\ writer' = [writer EXCEPT ![w] = [NewWriter EXCEPT !.pc = "failed",
                                                    !.nth = writer[w].nth]]
  /\ UNCHANGED <<scene, user, deletion, tokens, session, signIn, confirm, link, keeper, written>>

-----------------------------------------------------------------------------
(* resetPassword.request: issueReset.                                      *)

HolderOfEmail(l) ==
  /\ l \in scene.calls /\ link[l].pc = "idle"
  /\ link' = [link EXCEPT
       ![l] = [@ EXCEPT !.pc = IF user = None THEN "nobody" ELSE "issue",
                        !.address = IF user = None THEN None ELSE user.email]]
  /\ UNCHANGED <<scene, user, deletion, tokens, session, signIn, confirm, writer, keeper, written>>

IssueReset(l) ==
  /\ link[l].pc = "issue"
  /\ tokens' = insertToken(tokens, l, NewToken("resetPassword", link[l].address))
  /\ link' = [link EXCEPT ![l] = [@ EXCEPT !.pc = "keepOnlyLatest", !.since = Len(written)]]
  /\ UNCHANGED <<scene, user, deletion, session, signIn, confirm, writer, keeper, written>>

KeepOnlyLatest(l) ==
  /\ link[l].pc = "keepOnlyLatest"
  /\ tokens' = spendUserTokens(tokens, Holder, "resetPassword", 0, {l})
  /\ link' = [link EXCEPT ![l].pc = "sent"]
  /\ UNCHANGED <<scene, user, deletion, session, signIn, confirm, writer, keeper, written>>

RequestFails(l) ==
  /\ link[l].pc \in {"issue", "keepOnlyLatest"}
  /\ link' = [link EXCEPT ![l].pc = "failed"]
  /\ UNCHANGED <<scene, user, deletion, tokens, session, signIn, confirm, writer, keeper, written>>

-----------------------------------------------------------------------------
(* secondFactor.enroll, activate and regenerateRecoveryCodes.              *)

(* What the callback given to writeUser decides of the factor it reads:    *)
(* the factor to write, or None to refuse.  Between the two, regenerate    *)
(* awaits its count.                                                       *)
Decided(k, flow, code, factor) ==
  CASE flow = "enroll" /\ ~ isActive(factor) -> Enrolled(k)
    [] /\ flow = "activate" /\ IsFactor(factor) /\ ~ isActive(factor)
       /\ AppCodeAccepted(factor, code) -> Activated(factor, code, k)
    [] /\ flow = "regenerate" /\ isActive(factor)
       /\ AppCodeAccepted(factor, code) -> Regenerated(factor, code, k)
    [] OTHER -> None

ReadFactor(k) ==
  /\ k \in scene.calls /\ keeper[k].pc = "idle"
  /\ \E flow \in {"enroll", "activate", "regenerate"}, code \in TypedAppCode \cup {None} :
       LET next == IF user = None THEN None ELSE Decided(k, flow, code, user.secondFactor)
       IN /\ flow = "enroll" <=> code = None
          /\ keeper' = [keeper EXCEPT ![k] =
               IF next = None THEN [@ EXCEPT !.pc = "refused"]
               ELSE [@ EXCEPT !.pc = "write", !.flow = flow, !.code = code,
                              !.version = user.version, !.next = next]]
  /\ UNCHANGED <<scene, user, deletion, tokens, session, signIn, confirm, writer, link, written>>

Kept(k) == user' = Written([user EXCEPT !.secondFactor = keeper[k].next])

(* Mutant: written whatever the version.                                   *)
WriteKeptUnversioned(k) ==
  /\ keeper[k].pc = "write" /\ user # None
  /\ Kept(k)
  /\ keeper' = [keeper EXCEPT ![k] = [@ EXCEPT !.pc = "done", !.next = None,
                                               !.accepted = keeper[k].code # None]]
  /\ UNCHANGED <<scene, deletion, tokens, session, signIn, confirm, writer, link, written>>

WriteKept(k) ==
  /\ keeper[k].pc = "write"
  /\ IF AtVersion(keeper[k].version)
       THEN /\ Kept(k)
            /\ keeper' = [keeper EXCEPT ![k] = [@ EXCEPT !.pc = "done", !.next = None,
                                                         !.accepted = keeper[k].code # None]]
       ELSE /\ keeper' = [keeper EXCEPT ![k] = [NewKeeper EXCEPT !.pc = "refused"]]
            /\ UNCHANGED user
  /\ UNCHANGED <<scene, deletion, tokens, session, signIn, confirm, writer, link, written>>

KeeperFails(k) ==
  /\ keeper[k].pc = "write"
  /\ keeper' = [keeper EXCEPT ![k] = [NewKeeper EXCEPT !.pc = "failed"]]
  /\ UNCHANGED <<scene, user, deletion, tokens, session, signIn, confirm, writer, link, written>>

-----------------------------------------------------------------------------
(* What runs beside them: update, setActive, secondFactor.disable, delete. *)
(* Each decides on the record its write replaces, so one step is all.      *)

UpdateUser ==
  /\ user # None /\ scene.updates > 0
  /\ scene' = [scene EXCEPT !.updates = @ - 1]
  /\ \/ \E email \in Email \ {user.email} :
          user' = Written([user EXCEPT !.email = email, !.emailVerified = FALSE])
     \/ user' = Written([user EXCEPT !.active = ~ @])
  /\ UNCHANGED <<deletion, tokens, session, signIn, confirm, writer, link, keeper, written>>

(* Active or waiting, it goes.                                             *)
DisableFactor ==
  /\ user # None /\ scene.updates > 0
  /\ scene' = [scene EXCEPT !.updates = @ - 1]
  /\ user' = Written([user EXCEPT !.secondFactor = None])
  /\ UNCHANGED <<deletion, tokens, session, signIn, confirm, writer, link, keeper, written>>

DeleteUser ==
  /\ user # None
  /\ user' = None
  /\ deletion' = "sessions"
  /\ UNCHANGED <<scene, tokens, session, signIn, confirm, writer, link, keeper, written>>

DeleteUserSessions ==
  /\ deletion = "sessions"
  /\ session' = [c \in Caller |-> "none"]
  /\ deletion' = "tokens"
  /\ UNCHANGED <<scene, user, tokens, signIn, confirm, writer, link, keeper, written>>

DeleteUserTokens ==
  /\ deletion = "tokens"
  /\ tokens' = deleteUserTokens(tokens, Holder)
  /\ deletion' = "done"
  /\ UNCHANGED <<scene, user, session, signIn, confirm, writer, link, keeper, written>>

SignInNext(s) ==
  \/ VerifyPassword(s) \/ Rehash(s) \/ FinishSignIn(s)
  \/ HeldByPassword(s) \/ EndSignIn(s) \/ SignInFails(s)

ConfirmNext(c) ==
  \/ CountCodeAttempt(c) \/ CompareCode(c) \/ BurnChallenge(c) \/ WriteFactor(c)
  \/ SpendChallenge(c) \/ OpenConfirmed(c) \/ ConfirmFails(c)

WriterNext(w) ==
  \/ BeginChange(w) \/ BeginReset(w) \/ OwnerOf(w) \/ BeginFirstProof(w) \/ ReadUser(w)
  \/ WritePassword(w) \/ RevokeUserSessions(w) \/ EndWhatThePasswordOpened(w)
  \/ FinishProof(w) \/ WriterFails(w)

KeeperNext(k) == ReadFactor(k) \/ WriteKept(k) \/ KeeperFails(k)

LinkNext(l) == HolderOfEmail(l) \/ IssueReset(l) \/ KeepOnlyLatest(l) \/ RequestFails(l)

Next ==
  \/ \E s \in SignIn : SignInNext(s)
  \/ \E c \in Confirm : ConfirmNext(c)
  \/ \E w \in Writer : WriterNext(w)
  \/ \E l \in Link : LinkNext(l)
  \/ \E k \in Keeper : KeeperNext(k)
  \/ UpdateUser \/ DisableFactor \/ DeleteUser \/ DeleteUserSessions \/ DeleteUserTokens

Spec == Init /\ [][Next]_vars

-----------------------------------------------------------------------------
(* Properties.                                                             *)

(* Wrote the password, and spent the tokens of a kind: it answered, or it  *)
(* told its caller that a spend failed, and that was of the other kind.    *)
Ended(w, kind) ==
  /\ writer[w].nth # 0
  /\ \/ writer[w].pc = "done"
     \/ writer[w].pc = "failed" /\ writer[w].unspent # {} /\ kind \notin writer[w].unspent

(* heldByPassword and endWhatThePasswordOpened: whichever order they       *)
(* interleave in, one sees the other.  Once every call that wrote the      *)
(* password ended, and its spend of the challenges did not fail, no        *)
(* challenge a sign-in answered waits for a code that is not of the        *)
(* current password; and a sign-in refused leaves nothing open, neither    *)
(* session nor challenge.                                                  *)
ChallengeHeldByPassword ==
  /\ (/\ \A w \in Writer : writer[w].nth # 0 => Ended(w, "secondFactor")
      /\ deletion \in {"no", "done"}) =>
       \A s \in SignIn :
         (signIn[s].pc = "answered" /\ Unspent(tokens[s])) =>
           user # None /\ user.password = signIn[s].password
  /\ \A s \in SignIn :
       signIn[s].pc = "refused" => session[s] # "live" /\ ~ Unspent(tokens[s])

(* The passwords of the user since a call wrote its own.                   *)
WrittenSince(w) == {written[i] : i \in writer[w].nth..Len(written)}

SignsOut(w) == writer[w].flow \in {"reset", "firstProof"} /\ writer[w].pc = "done"

(* Whoever had the old password is signed out: once a reset or a first     *)
(* proof answered, no session a sign-in answered is live unless its        *)
(* password is one written since (confirm-reset.ts, first-proof.ts).       *)
ResetSignsOut ==
  \A w \in Writer, s \in SignIn :
    (/\ SignsOut(w)
     /\ signIn[s].pc = "answered" /\ session[s] = "live") =>
       signIn[s].password \in WrittenSince(w)

(* No write is lost: the password stored is the last one a call answered   *)
(* it wrote, whatever rehashes or updates ran beside it (writeUser and     *)
(* rehashed write under the version they read).                            *)
LastPasswordStays == user # None => user.password = written[Len(written)]

(* Once a write of the password answered, every link asked for before it   *)
(* is spent: it would replace the password again; and so it is when what   *)
(* failed is the spend of the challenges (password-written.ts).            *)
OlderLinksSpent ==
  \A w \in Writer, l \in Link :
    (/\ Ended(w, "resetPassword")
     /\ link[l].since # 0 /\ link[l].since < writer[w].nth) => ~ Unspent(tokens[l])

(* An e-mail is proved only by a link or a code sent to it: one replaced   *)
(* since is not the one proved (refuseStale, proveFirstEmail).             *)
ProvesItsAddress ==
  [][(user # None /\ user' # None /\ user'.emailVerified /\ ~ user.emailVerified) =>
       /\ user'.email = user.email
       /\ \E w \in Writer : /\ writer[w].pc = "write" /\ writer'[w].nth # writer[w].nth
                            /\ writer[w].address = user.email]_vars

(* The calls a code was accepted from, of the app or for recovery.         *)
AcceptedFrom(code) ==
  {c \in Confirm : confirm[c].accepted /\ confirm[c].code = code}
  \cup {k \in Keeper : keeper[k].accepted /\ keeper[k].code = code}

(* A code is accepted once, through whichever challenge, to activate or to *)
(* regenerate (secondFactor.confirm, recoverWithCode, activate.ts,         *)
(* regenerate.ts), and a challenge opens one session, however many right   *)
(* codes race for it.                                                      *)
CodeAcceptedOnce ==
  /\ \A code \in AppCode \cup RecoveryCode : Cardinality(AcceptedFrom(code)) <= 1
  /\ \A c, d \in Confirm :
       (/\ confirm[c].pc \in {"open", "signedIn"} /\ confirm[d].pc \in {"open", "signedIn"}
        /\ confirm[c].challenge = confirm[d].challenge) => c = d

(* While it is active a factor only moves forward, whoever else reads and  *)
(* writes it: no enrolment takes its place (enroll.ts), no step comes back *)
(* (factor.ts), and a recovery code used or replaced stays so, but for     *)
(* those a call mints as it writes (regenerate.ts).                        *)
MovesForward(before, after) ==
  /\ after.secret = before.secret
  /\ after.confirmed
  /\ after.lastStep >= before.lastStep
  /\ \/ after.recoveryCodes \subseteq before.recoveryCodes
     \/ \E k \in Keeper : keeper[k].pc = "write" /\ keeper'[k].pc = "done"
                          /\ after.recoveryCodes = {k}

FactorMovesForward ==
  [][(/\ user # None /\ user' # None
      /\ isActive(user.secondFactor) /\ user'.secondFactor # None) =>
        MovesForward(user.secondFactor, user'.secondFactor)]_vars
=============================================================================
