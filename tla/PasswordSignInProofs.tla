------------------------ MODULE PasswordSignInProofs ------------------------
(***************************************************************************)
(* Theorems about PasswordSignIn for any number of sign-ins, confirms,     *)
(* writers, links and keepers that overlap, any passwords, addresses and   *)
(* codes, and any scenes.                                                  *)
(***************************************************************************)
EXTENDS PasswordSignIn, TLAPS, FiniteSetTheorems

-----------------------------------------------------------------------------
(* The methods of the token store.                                         *)

(* consumeToken keeps the store a store, and every record evolves.         *)
LEMMA ConsumeEvolves ==
  ASSUME NEW store \in Store, NEW hash \in Hash, NEW kind, NEW at \in Nat
  PROVE  /\ consumeToken(store, hash, kind, at) \in Store
         /\ \A h \in Hash : Evolved(store[h], consumeToken(store, hash, kind, at)[h])
  BY TokenStoreAssumption
  DEF consumeToken, Answer, Unspent, Evolved, Store, TokenRecord

(* countAttempt keeps the store a store, and every record evolves.         *)
LEMMA CountEvolves ==
  ASSUME NEW store \in Store, NEW hash \in Hash, NEW kind
  PROVE  /\ countAttempt(store, hash, kind) \in Store
         /\ \A h \in Hash : Evolved(store[h], countAttempt(store, hash, kind)[h])
  BY TokenStoreAssumption
  DEF countAttempt, Answer, Unspent, Evolved, Store, TokenRecord

(* spendUserTokens keeps the store a store, and every record evolves.      *)
LEMMA SpendUserEvolves ==
  ASSUME NEW store \in Store, NEW userId, NEW kind, NEW at \in Nat, NEW except
  PROVE  /\ spendUserTokens(store, userId, kind, at, except) \in Store
         /\ \A h \in Hash :
              Evolved(store[h], spendUserTokens(store, userId, kind, at, except)[h])
  BY TokenStoreAssumption
  DEF spendUserTokens, Unspent, Evolved, Store, TokenRecord

(* Both deletions keep the store a store, and every record evolves.        *)
LEMMA DeleteEvolves ==
  ASSUME NEW store \in Store, NEW userId, NEW before
  PROVE  /\ deleteUserTokens(store, userId) \in Store
         /\ \A h \in Hash : Evolved(store[h], deleteUserTokens(store, userId)[h])
         /\ deleteExpiredTokens(store, before) \in Store
         /\ \A h \in Hash : Evolved(store[h], deleteExpiredTokens(store, before)[h])
  BY TokenStoreAssumption
  DEF deleteUserTokens, deleteExpiredTokens, Evolved, Store, TokenRecord

(* insertToken changes nothing but the hash it was given, and only when    *)
(* nothing was stored there.                                               *)
LEMMA InsertKeepsOthers ==
  ASSUME NEW store \in Store, NEW hash \in Hash, NEW record \in TokenRecord
  PROVE  /\ insertToken(store, hash, record) \in Store
         /\ \A h \in Hash \ {hash} : insertToken(store, hash, record)[h] = store[h]
         /\ insertToken(store, hash, record)[hash] =
              IF store[hash] = None THEN record ELSE store[hash]
  BY DEF insertToken, Store

(* consumeToken leaves no unspent token of its kind under its hash.        *)
LEMMA ConsumeSpends ==
  ASSUME NEW store \in Store, NEW hash \in Hash, NEW kind, NEW at \in Nat,
         store[hash] # None => store[hash].kind = kind
  PROVE  ~ Unspent(consumeToken(store, hash, kind, at)[hash])
<1>1. at # None
  BY TokenStoreAssumption
<1>2. CASE Unspent(store[hash])
  <2>1. store[hash] \in TokenRecord /\ Answer(store, hash, kind) = store[hash]
    BY <1>2 DEF Answer, Unspent, Store
  <2>2. consumeToken(store, hash, kind, at) = [store EXCEPT ![hash].spentAt = at]
    BY <1>2, <2>1 DEF consumeToken
  <2>3. consumeToken(store, hash, kind, at)[hash].spentAt = at
    BY <2>1, <2>2 DEF Store, TokenRecord
  <2> QED
    BY <1>1, <2>3 DEF Unspent
<1>3. CASE ~ Unspent(store[hash])
  <2>1. ~ Unspent(Answer(store, hash, kind))
    BY <1>3 DEF Answer, Unspent
  <2> QED
    BY <1>3, <2>1 DEF consumeToken
<1> QED
  BY <1>2, <1>3

(* spendUserTokens leaves no unspent token of the user and the kind, but   *)
(* the one it spares.                                                      *)
LEMMA SpendUserSpends ==
  ASSUME NEW store \in Store, NEW userId, NEW kind, NEW at \in Nat, NEW except,
         NEW h \in Hash, h \notin except,
         store[h] # None => store[h].userId = userId /\ store[h].kind = kind
  PROVE  ~ Unspent(spendUserTokens(store, userId, kind, at, except)[h])
BY TokenStoreAssumption DEF spendUserTokens, Unspent, Store, TokenRecord

-----------------------------------------------------------------------------
(* What every call and every record looks like in every state.             *)

(* What a sign-in has opened so far: nothing before finish, and then a     *)
(* challenge when the record had an active factor, a session otherwise.    *)
SignInShape(s) ==
  /\ signIn[s].pc \in {"idle", "rehash", "finish"} => session[s] # "live" /\ tokens[s] = None
  /\ signIn[s].pc \in {"held", "undo", "answered"} =>
       IF signIn[s].factor THEN session[s] # "live" ELSE tokens[s] = None
  /\ signIn[s].pc = "refused" => session[s] # "live" /\ ~ Unspent(tokens[s])

(* A sign-in's name is of its challenge, a link's of its reset link.       *)
TokenShape(h) ==
  tokens[h] # None => tokens[h].kind = IF h \in SignIn THEN "secondFactor" ELSE "resetPassword"

(* A confirm holds a challenge that was answered; once it was spent, it    *)
(* stays so.                                                               *)
ConfirmShape(c) ==
  /\ confirm[c].pc # "idle" =>
       confirm[c].challenge \in SignIn /\ signIn[confirm[c].challenge].pc = "answered"
  /\ confirm[c].accepted =>
       /\ confirm[c].pc \notin {"idle", "findRecord", "write"}
       /\ confirm[c].code \in AppCode \cup RecoveryCode
  /\ confirm[c].pc = "write" =>
       isActive(confirm[c].factor) /\ Accepts(confirm[c].factor, confirm[c].code)
  /\ confirm[c].pc \in {"open", "signedIn"} => ~ Unspent(tokens[confirm[c].challenge])

(* How far a writer is, by whether it wrote.                               *)
WriterShape(w) ==
  /\ writer[w].pc \in {"idle", "owner", "read", "write", "refused"} => writer[w].nth = 0
  /\ writer[w].pc = "owner" => writer[w].flow = "reset"
  /\ writer[w].pc \in {"revoke", "read", "finish"} => writer[w].flow \in {"reset", "firstProof"}
  /\ writer[w].pc \in {"write", "spend", "done"} =>
       writer[w].flow \in {"change", "reset", "firstProof"}
  /\ writer[w].pc \in {"revoke", "spend"} /\ writer[w].nth = 0 => writer[w].flow = "firstProof"
  /\ writer[w].pc \in {"finish", "done"} => writer[w].nth # 0
  /\ writer[w].nth <= Len(written)

LinkShape(l) ==
  /\ link[l].pc \in {"idle", "issue", "nobody"} => tokens[l] = None /\ link[l].since = 0
  /\ link[l].pc = "issue" => link[l].address \in Email
  /\ link[l].since <= Len(written)

KeeperShape(k) ==
  /\ keeper[k].accepted => keeper[k].pc = "done" /\ keeper[k].code \in AppCode
  /\ keeper[k].pc = "write" =>
       /\ keeper[k].next \in Factor
       /\ keeper[k].flow = "enroll" <=> keeper[k].code = None

Shapes ==
  /\ \A s \in SignIn : SignInShape(s)
  /\ \A h \in Hash : TokenShape(h)
  /\ \A c \in Confirm : ConfirmShape(c)
  /\ \A w \in Writer : WriterShape(w)
  /\ \A l \in Link : LinkShape(l)
  /\ \A k \in Keeper : KeeperShape(k)

Base == TypeOK /\ Shapes

(* The records of the calls, one by one.                                   *)
LEMMA TypesHold ==
  ASSUME TypeOK
  PROVE  /\ tokens \in Store
         /\ user # None => user \in UserRecord
         /\ \A s \in SignIn : signIn[s] \in SignInCall /\ s \in Hash
         /\ \A c \in Confirm : confirm[c] \in ConfirmCall
         /\ \A w \in Writer : writer[w] \in WriterCall
         /\ \A l \in Link : link[l] \in LinkCall /\ l \in Hash
         /\ \A k \in Keeper : keeper[k] \in KeeperCall
         /\ Len(written) \in Nat
<1>1. tokens \in Store /\ (user # None => user \in UserRecord)
  BY DEF TypeOK
<1>2. \A s \in SignIn : signIn[s] \in SignInCall /\ s \in Hash
  BY PasswordSignInAssumption DEF TypeOK
<1>3. \A l \in Link : link[l] \in LinkCall /\ l \in Hash
  BY PasswordSignInAssumption DEF TypeOK
<1>4. /\ \A c \in Confirm : confirm[c] \in ConfirmCall
      /\ \A w \in Writer : writer[w] \in WriterCall
      /\ \A k \in Keeper : keeper[k] \in KeeperCall
  BY DEF TypeOK
<1>5. Len(written) \in Nat
  <2>1. written \in Seq(Password \cup {None})
    BY DEF TypeOK
  <2> QED
    BY <2>1
<1> QED
  BY <1>1, <1>2, <1>3, <1>4, <1>5, Zenon

LEMMA InitBase == Init => Base
<1> SUFFICES ASSUME Init PROVE Base
  OBVIOUS
<1>0. scene \in SceneRecord
  BY PasswordSignInAssumption DEF Init
<1>1. PICK password \in Password, verified \in BOOLEAN, factor \in FirstFactors :
        /\ user = [version |-> 1, active |-> TRUE, email |-> scene.email,
                   emailVerified |-> verified, password |-> password, stale |-> scene.stale,
                   secondFactor |-> factor]
        /\ written = <<password>>
  BY DEF Init
<1>2. factor \in Factor \cup {None}
  <2>1. CASE factor # None
    <3>1. PICK secret \in Secret \ Keeper :
            factor = [secret |-> secret, confirmed |-> TRUE, lastStep |-> 0,
                      recoveryCodes |-> RecoveryCode \ Keeper]
      BY <2>1 DEF FirstFactors
    <3>2. MaxStep \in Nat
      BY PasswordSignInAssumption
    <3>3. 0 \in 0..MaxStep /\ RecoveryCode \ Keeper \in SUBSET RecoveryCode
      BY <3>2
    <3> QED
      BY <3>1, <3>3 DEF Factor
  <2> QED
    BY <2>1
<1>3. user \in UserRecord
  BY <1>0, <1>1, <1>2 DEF UserRecord, SceneRecord
<1>4. written \in Seq(Password \cup {None}) /\ Len(written) = 1
  <2>1. password \in Password \cup {None}
    BY <1>1
  <2> QED
    BY <1>1, <2>1
<1>5. tokens \in Store /\ deletion = "no" /\ session \in [Caller -> {"none", "live", "revoked"}]
  BY DEF Init, Store
<1>6. /\ signIn \in [SignIn -> SignInCall] /\ confirm \in [Confirm -> ConfirmCall]
      /\ writer \in [Writer -> WriterCall] /\ link \in [Link -> LinkCall]
      /\ keeper \in [Keeper -> KeeperCall]
  BY DEF Init, NewSignIn, SignInCall, NewConfirm, ConfirmCall, NewWriter, WriterCall,
         LinkCall, NewKeeper, KeeperCall
<1>7. TypeOK
  BY <1>0, <1>3, <1>4, <1>5, <1>6 DEF TypeOK
<1>8. ASSUME NEW s \in SignIn PROVE SignInShape(s)
  <2>1. s \in Hash /\ s \in Caller
    BY PasswordSignInAssumption DEF Caller
  <2>2. signIn[s] = NewSignIn /\ tokens[s] = None /\ session[s] = "none"
    BY <2>1 DEF Init
  <2> QED
    BY <2>2 DEF SignInShape, NewSignIn
<1>9. ASSUME NEW h \in Hash PROVE TokenShape(h)
  BY DEF Init, TokenShape
<1>10. ASSUME NEW l \in Link PROVE LinkShape(l)
  <2>1. l \in Hash
    BY PasswordSignInAssumption
  <2>2. tokens[l] = None /\ link[l].pc = "idle" /\ link[l].since = 0
    BY <2>1 DEF Init
  <2> QED
    BY <1>4, <2>2 DEF LinkShape
<1>11. ASSUME NEW c \in Confirm PROVE ConfirmShape(c)
  <2>1. confirm[c] = NewConfirm
    BY DEF Init
  <2> QED
    BY <2>1 DEF ConfirmShape, NewConfirm
<1>12. ASSUME NEW w \in Writer PROVE WriterShape(w)
  <2>1. writer[w] = NewWriter
    BY DEF Init
  <2> QED
    BY <1>4, <2>1 DEF WriterShape, NewWriter
<1>13. ASSUME NEW k \in Keeper PROVE KeeperShape(k)
  <2>1. keeper[k] = NewKeeper
    BY DEF Init
  <2> QED
    BY <2>1 DEF KeeperShape, NewKeeper
<1> QED
  BY <1>7, <1>8, <1>9, <1>10, <1>11, <1>12, <1>13 DEF Base, Shapes

-----------------------------------------------------------------------------
(* How the user and the tokens move, whoever moves them.                   *)

(* The record left alone, deleted, or written under the next version.      *)
UserMoves ==
  \/ user' = user
  \/ /\ user # None
     /\ user' = None \/ (user' \in UserRecord /\ user'.version = user.version + 1)

TokensEvolve ==
  /\ tokens' \in Store
  /\ \A h \in Hash : Evolved(tokens[h], tokens'[h])

(* A write of the record, whoever makes it.                                *)
LEMMA WrittenTyped ==
  ASSUME NEW patched \in UserRecord
  PROVE  /\ Written(patched) \in UserRecord
         /\ Written(patched).version = patched.version + 1
         /\ Written(patched).email = patched.email
         /\ Written(patched).emailVerified = patched.emailVerified
         /\ Written(patched).password = patched.password
         /\ Written(patched).secondFactor = patched.secondFactor
         /\ Written(patched).active = patched.active
BY DEF Written, UserRecord

LEMMA NewTokenTyped ==
  ASSUME NEW kind \in Kind, NEW address \in Address
  PROVE  /\ NewToken(kind, address) \in TokenRecord
         /\ NewToken(kind, address).kind = kind
         /\ Unspent(NewToken(kind, address))
<1>1. Holder \in UserId
  BY PasswordSignInAssumption
<1>2. NewToken(kind, address) \in TokenRecord
  BY <1>1 DEF NewToken, TokenRecord
<1>3. NewToken(kind, address) # None
  BY <1>2, TokenStoreAssumption
<1> QED
  BY <1>2, <1>3 DEF NewToken, Unspent

(* A store that does not move evolves.                                     *)
LEMMA StillEvolves ==
  ASSUME TypeOK, tokens' = tokens
  PROVE  TokensEvolve
BY DEF TypeOK, Store, TokenRecord, TokensEvolve, Evolved

-----------------------------------------------------------------------------
(* What the steps of a sign-in do to its call, and what they leave.        *)

SignInMoves(s) ==
  /\ signIn'[s] \in SignInCall
  /\ signIn' \in [SignIn -> SignInCall]
  /\ \A t \in SignIn \ {s} : signIn'[t] = signIn[t]

LEMMA VerifyMoves ==
  ASSUME TypeOK, NEW s \in SignIn, VerifyPassword(s)
  PROVE  SignInMoves(s) /\ signIn'[s].pc \in {"refused", "rehash", "finish"}
<1>0. (user # None => user \in UserRecord) /\ signIn \in [SignIn -> SignInCall]
  BY DEF TypeOK
<1>1. PICK password \in Password :
        LET matches == /\ user # None
                       /\ user.password = password
                       /\ user.active
                       /\ scene.requireVerifiedEmail => user.emailVerified
        IN signIn' = [signIn EXCEPT
             ![s] = [pc |-> IF ~ matches THEN "refused"
                            ELSE IF user.stale THEN "rehash" ELSE "finish",
                     password |-> password,
                     version |-> IF matches THEN user.version ELSE 0,
                     factor |-> matches /\ isActive(user.secondFactor)]]
  BY DEF VerifyPassword
<1> DEFINE matches == /\ user # None
                      /\ user.password = password
                      /\ user.active
                      /\ scene.requireVerifiedEmail => user.emailVerified
           pc == IF ~ matches THEN "refused" ELSE IF user.stale THEN "rehash" ELSE "finish"
           version == IF matches THEN user.version ELSE 0
           factor == matches /\ isActive(user.secondFactor)
<1>2. pc \in {"refused", "rehash", "finish"}
  OBVIOUS
<1>3. version \in Nat
  BY <1>0 DEF UserRecord
<1>4. factor \in BOOLEAN
  OBVIOUS
<1>5. signIn' = [signIn EXCEPT ![s] = [pc |-> pc, password |-> password,
                                       version |-> version, factor |-> factor]]
  BY <1>1
<1> HIDE DEF pc, version, factor
<1>6. [pc |-> pc, password |-> password, version |-> version, factor |-> factor] \in SignInCall
  BY <1>2, <1>3, <1>4, Zenon DEF SignInCall
<1>7. signIn'[s] = [pc |-> pc, password |-> password, version |-> version, factor |-> factor]
  BY <1>0, <1>5
<1>8. signIn' \in [SignIn -> SignInCall] /\ \A t \in SignIn \ {s} : signIn'[t] = signIn[t]
  BY <1>0, <1>5, <1>6
<1> QED
  BY <1>2, <1>6, <1>7, <1>8 DEF SignInMoves

(* What a sign-in's later steps keep of it: what was typed, and whether it *)
(* opens a challenge.                                                      *)
LEMMA PcMoves ==
  ASSUME TypeOK, NEW s \in SignIn,
         NEW pc \in {"idle", "rehash", "finish", "held", "undo", "answered", "refused",
                     "failed"},
         signIn' = [signIn EXCEPT ![s].pc = pc]
  PROVE  /\ SignInMoves(s)
         /\ signIn'[s].pc = pc
         /\ signIn'[s].password = signIn[s].password
         /\ signIn'[s].factor = signIn[s].factor
<1>0. signIn \in [SignIn -> SignInCall] /\ signIn[s] \in SignInCall
  BY DEF TypeOK
<1>1. [signIn[s] EXCEPT !.pc = pc] \in SignInCall
  BY <1>0 DEF SignInCall
<1>2. signIn'[s] = [signIn[s] EXCEPT !.pc = pc]
  BY <1>0
<1>3. signIn' \in [SignIn -> SignInCall] /\ \A t \in SignIn \ {s} : signIn'[t] = signIn[t]
  BY <1>0, <1>1
<1>4. /\ signIn'[s].pc = pc /\ signIn'[s].password = signIn[s].password
      /\ signIn'[s].factor = signIn[s].factor
  BY <1>0, <1>2 DEF SignInCall
<1> QED
  BY <1>1, <1>2, <1>3, <1>4 DEF SignInMoves

(* rehashed writes the record it read, its hash made anew, or nothing.     *)
LEMMA RehashWrites ==
  ASSUME TypeOK, NEW s \in SignIn, Rehash(s)
  PROVE  /\ user' \in UserRecord \cup {None}
         /\ \/ user' = user
            \/ /\ user # None /\ user' \in UserRecord
               /\ user'.version = user.version + 1
               /\ user'.email = user.email
               /\ user'.emailVerified = user.emailVerified
               /\ user'.password = user.password
               /\ user'.secondFactor = user.secondFactor
<1>0. user \in UserRecord \cup {None}
  BY DEF TypeOK
<1>1. CASE ~ AtVersion(signIn[s].version)
  BY <1>0, <1>1 DEF Rehash
<1>2. CASE AtVersion(signIn[s].version)
  <2> DEFINE patched == [user EXCEPT !.stale = FALSE]
  <2>1. user \in UserRecord /\ user # None
    BY <1>0, <1>2 DEF AtVersion
  <2>2. /\ patched \in UserRecord /\ patched.version = user.version
        /\ patched.email = user.email /\ patched.emailVerified = user.emailVerified
        /\ patched.password = user.password /\ patched.secondFactor = user.secondFactor
    BY <2>1 DEF UserRecord
  <2>3. user' = Written(patched)
    BY <1>2 DEF Rehash
  <2> HIDE DEF patched
  <2> QED
    BY <2>1, <2>2, <2>3, WrittenTyped
<1> QED
  BY <1>1, <1>2

(* The steps of a sign-in: what they write, and what they never touch.     *)
SignInFrame(s) ==
  /\ UNCHANGED <<scene, deletion, confirm, writer, link, keeper, written>>
  /\ SignInMoves(s)
  /\ UserMoves
  /\ user' # user => /\ user' # None
                     /\ user'.email = user.email
                     /\ user'.emailVerified = user.emailVerified
                     /\ user'.password = user.password
                     /\ user'.secondFactor = user.secondFactor
  /\ tokens' \in Store
  /\ \A h \in Hash \ {s} : tokens'[h] = tokens[h]
  /\ session' \in [Caller -> {"none", "live", "revoked"}]
  /\ \A c \in Caller \ {s} : session'[c] = session[c]

(* What a sign-in answers, and from where it never moves again.            *)
SignInAnswers(s) ==
  /\ signIn[s].pc \notin {"answered", "refused", "failed"}
  /\ signIn'[s].pc = "answered" =>
       /\ user # None /\ user' = user /\ user.password = signIn'[s].password
       /\ tokens' = tokens /\ session' = session

LEMMA SignInSteps ==
  ASSUME Base, NEW s \in SignIn, SignInNext(s)
  PROVE  SignInFrame(s) /\ SignInAnswers(s) /\ SignInShape(s)' /\ TokenShape(s)'
<1>0. /\ TypeOK /\ tokens \in Store /\ s \in Hash /\ s \in Caller
      /\ signIn[s] \in SignInCall
      /\ session \in [Caller -> {"none", "live", "revoked"}]
      /\ SignInShape(s) /\ TokenShape(s)
  BY TypesHold DEF Base, TypeOK, Shapes, Caller
<1>1. CASE VerifyPassword(s)
  <2>1. SignInMoves(s) /\ signIn'[s].pc \in {"refused", "rehash", "finish"}
    BY <1>0, <1>1, VerifyMoves
  <2>2. /\ signIn[s].pc = "idle"
        /\ UNCHANGED <<scene, user, deletion, tokens, session, confirm, writer, link, keeper,
                       written>>
    BY <1>1 DEF VerifyPassword
  <2>3. SignInFrame(s) /\ SignInAnswers(s)
    BY <1>0, <2>1, <2>2 DEF SignInFrame, SignInAnswers, UserMoves
  <2>4. SignInShape(s)' /\ TokenShape(s)'
    BY <1>0, <2>1, <2>2 DEF SignInShape, TokenShape, Unspent
  <2> QED
    BY <2>3, <2>4
<1>2. CASE Rehash(s)
  <2>1. PICK pc \in {"failed", "finish"} : signIn' = [signIn EXCEPT ![s].pc = pc]
    BY <1>2 DEF Rehash
  <2>2. SignInMoves(s) /\ signIn'[s].pc = pc
    BY <1>0, <2>1, PcMoves
  <2>3. /\ signIn[s].pc = "rehash"
        /\ UNCHANGED <<scene, deletion, tokens, session, confirm, writer, link, keeper,
                       written>>
    BY <1>2 DEF Rehash
  <2>4. \/ user' = user
        \/ /\ user # None /\ user' \in UserRecord
           /\ user'.version = user.version + 1
           /\ user'.email = user.email
           /\ user'.emailVerified = user.emailVerified
           /\ user'.password = user.password
           /\ user'.secondFactor = user.secondFactor
    BY <1>0, <1>2, RehashWrites
  <2>5. SignInFrame(s) /\ SignInAnswers(s)
    BY <1>0, <2>2, <2>3, <2>4, NoUserAssumption DEF SignInFrame, SignInAnswers, UserMoves
  <2>6. SignInShape(s)' /\ TokenShape(s)'
    BY <1>0, <2>2, <2>3 DEF SignInShape, TokenShape
  <2> QED
    BY <2>5, <2>6
<1>3. CASE FinishSignIn(s)
  <2>1. /\ SignInMoves(s) /\ signIn'[s].pc = "held"
        /\ signIn'[s].factor = signIn[s].factor
    <3>1. signIn' = [signIn EXCEPT ![s].pc = "held"]
      BY <1>3 DEF FinishSignIn
    <3> QED
      BY <1>0, <3>1, PcMoves
  <2>2. /\ signIn[s].pc = "finish"
        /\ UNCHANGED <<scene, user, deletion, confirm, writer, link, keeper, written>>
        /\ session[s] # "live" /\ tokens[s] = None
    BY <1>0, <1>3 DEF FinishSignIn, SignInShape
  <2>3. CASE signIn[s].factor
    <3> DEFINE token == NewToken("secondFactor", "")
    <3>1. token \in TokenRecord /\ token.kind = "secondFactor"
      BY NewTokenTyped, PasswordSignInAssumption
    <3>2. tokens' = insertToken(tokens, s, token) /\ session' = session
      BY <1>3, <2>3 DEF FinishSignIn
    <3> HIDE DEF token
    <3>3. /\ tokens' \in Store /\ tokens'[s] = token
          /\ \A h \in Hash \ {s} : tokens'[h] = tokens[h]
      BY <1>0, <2>2, <3>1, <3>2, InsertKeepsOthers
    <3>4. SignInFrame(s) /\ SignInAnswers(s)
      BY <1>0, <2>1, <2>2, <3>2, <3>3 DEF SignInFrame, SignInAnswers, UserMoves
    <3>5. SignInShape(s)' /\ TokenShape(s)'
      BY <2>1, <2>2, <2>3, <3>1, <3>2, <3>3 DEF SignInShape, TokenShape
    <3> QED
      BY <3>4, <3>5
  <2>4. CASE ~ signIn[s].factor
    <3>1. tokens' = tokens /\ session' = [session EXCEPT ![s] = "live"]
      BY <1>3, <2>4 DEF FinishSignIn, insertSession
    <3>2. /\ session' \in [Caller -> {"none", "live", "revoked"}]
          /\ \A c \in Caller \ {s} : session'[c] = session[c]
      BY <1>0, <3>1
    <3>3. SignInFrame(s) /\ SignInAnswers(s)
      BY <1>0, <2>1, <2>2, <3>1, <3>2 DEF SignInFrame, SignInAnswers, UserMoves
    <3>4. SignInShape(s)' /\ TokenShape(s)'
      BY <1>0, <2>1, <2>2, <2>4, <3>1 DEF SignInShape, TokenShape
    <3> QED
      BY <3>3, <3>4
  <2> QED
    BY <2>3, <2>4
<1>4. CASE HeldByPassword(s)
  <2>1. PICK pc \in {"answered", "undo"} :
          /\ signIn' = [signIn EXCEPT ![s].pc = pc]
          /\ pc = "answered" => user # None /\ user.password = signIn[s].password
    BY <1>4 DEF HeldByPassword
  <2>2. /\ SignInMoves(s) /\ signIn'[s].pc = pc
        /\ signIn'[s].password = signIn[s].password
        /\ signIn'[s].factor = signIn[s].factor
    BY <1>0, <2>1, PcMoves
  <2>3. /\ signIn[s].pc = "held"
        /\ UNCHANGED <<scene, user, deletion, tokens, session, confirm, writer, link, keeper,
                       written>>
    BY <1>4 DEF HeldByPassword
  <2>4. SignInFrame(s) /\ SignInAnswers(s)
    BY <1>0, <2>1, <2>2, <2>3 DEF SignInFrame, SignInAnswers, UserMoves
  <2>5. SignInShape(s)' /\ TokenShape(s)'
    BY <1>0, <2>2, <2>3 DEF SignInShape, TokenShape
  <2> QED
    BY <2>4, <2>5
<1>5. CASE EndSignIn(s)
  <2>1. SignInMoves(s) /\ signIn'[s].pc = "refused"
    <3>1. signIn' = [signIn EXCEPT ![s].pc = "refused"]
      BY <1>5 DEF EndSignIn
    <3> QED
      BY <1>0, <3>1, PcMoves
  <2>2. /\ signIn[s].pc = "undo"
        /\ UNCHANGED <<scene, user, deletion, confirm, writer, link, keeper, written>>
    BY <1>5 DEF EndSignIn
  <2>3. CASE signIn[s].factor
    <3>1. tokens' = consumeToken(tokens, s, "secondFactor", 0) /\ session' = session
      BY <1>5, <2>3 DEF EndSignIn
    <3>2. tokens' \in Store /\ Evolved(tokens[s], tokens'[s])
      BY <1>0, <3>1, ConsumeEvolves
    <3>3. \A h \in Hash \ {s} : tokens'[h] = tokens[h]
      BY <1>0, <3>1 DEF consumeToken, Store
    <3>4. session[s] # "live"
      BY <1>0, <2>2, <2>3 DEF SignInShape
    <3>5. ~ Unspent(tokens'[s])
      BY <1>0, <3>1, ConsumeSpends DEF TokenShape
    <3>6. SignInFrame(s) /\ SignInAnswers(s)
      BY <1>0, <2>1, <2>2, <3>1, <3>2, <3>3 DEF SignInFrame, SignInAnswers, UserMoves
    <3>7. SignInShape(s)' /\ TokenShape(s)'
      BY <1>0, <2>1, <3>1, <3>2, <3>4, <3>5 DEF SignInShape, TokenShape, Evolved
    <3> QED
      BY <3>6, <3>7
  <2>4. CASE ~ signIn[s].factor
    <3>1. /\ tokens' = tokens
          /\ session' = [session EXCEPT ![s] = IF @ = "live" THEN "revoked" ELSE @]
      BY <1>5, <2>4 DEF EndSignIn
    <3>2. /\ session' \in [Caller -> {"none", "live", "revoked"}]
          /\ session'[s] # "live"
          /\ \A c \in Caller \ {s} : session'[c] = session[c]
      BY <1>0, <3>1
    <3>3. SignInFrame(s) /\ SignInAnswers(s)
      BY <1>0, <2>1, <2>2, <3>1, <3>2 DEF SignInFrame, SignInAnswers, UserMoves
    <3>4. SignInShape(s)' /\ TokenShape(s)'
      BY <1>0, <2>1, <2>2, <2>4, <3>1, <3>2 DEF SignInShape, TokenShape, Unspent
    <3> QED
      BY <3>3, <3>4
  <2> QED
    BY <2>3, <2>4
<1>6. CASE SignInFails(s)
  <2>1. signIn' = [signIn EXCEPT ![s] = [NewSignIn EXCEPT !.pc = "failed"]]
    BY <1>6 DEF SignInFails
  <2>2. SignInMoves(s) /\ signIn'[s].pc = "failed"
    BY <1>0, <2>1 DEF SignInMoves, NewSignIn, SignInCall, TypeOK
  <2>3. /\ signIn[s].pc \in {"rehash", "finish", "held", "undo"}
        /\ UNCHANGED <<scene, user, deletion, tokens, session, confirm, writer, link, keeper,
                       written>>
    BY <1>6 DEF SignInFails
  <2>4. SignInFrame(s) /\ SignInAnswers(s)
    BY <1>0, <2>2, <2>3 DEF SignInFrame, SignInAnswers, UserMoves
  <2>5. SignInShape(s)' /\ TokenShape(s)'
    BY <1>0, <2>2, <2>3 DEF SignInShape, TokenShape
  <2> QED
    BY <2>4, <2>5
<1> QED
  BY <1>1, <1>2, <1>3, <1>4, <1>5, <1>6 DEF SignInNext

-----------------------------------------------------------------------------
(* The same of the steps of a confirm or a recover.                        *)

ConfirmFrame(c) ==
  /\ UNCHANGED <<scene, deletion, signIn, writer, link, keeper, written>>
  /\ confirm' \in [Confirm -> ConfirmCall]
  /\ \A d \in Confirm \ {c} : confirm'[d] = confirm[d]
  /\ TokensEvolve
  /\ session' \in [Caller -> {"none", "live", "revoked"}]
  /\ \A x \in Caller \ {c} : session'[x] = session[x]

(* It writes only the factor, under the version it read.                   *)
ConfirmWrites(c) ==
  \/ user' = user /\ confirm'[c].accepted = confirm[c].accepted
  \/ /\ confirm[c].pc = "write" /\ AtVersion(confirm[c].version)
     /\ user' = Written([user EXCEPT
          !.secondFactor = Used(confirm[c].factor, confirm[c].code)])
     /\ confirm'[c].accepted

ConfirmReads(c) ==
  /\ confirm[c].pc = "idle" => ~ confirm'[c].accepted
  /\ confirm[c].pc # "idle" => confirm'[c].code = confirm[c].code
  /\ confirm'[c].pc = "write" =>
       /\ user # None /\ user' = user
       /\ confirm'[c].version = user.version
       /\ confirm'[c].factor = user.secondFactor

(* It opens a session only once it spent its challenge itself.             *)
ConfirmOpens(c) ==
  confirm'[c].pc \in {"open", "signedIn"} =>
    /\ confirm'[c].challenge = confirm[c].challenge
    /\ \/ confirm[c].pc = "open"
       \/ confirm[c].pc = "spend" /\ Unspent(tokens[confirm[c].challenge])

ConfirmEffects(c) ==
  ConfirmFrame(c) /\ ConfirmWrites(c) /\ ConfirmReads(c) /\ ConfirmOpens(c)

LEMMA CountEffects ==
  ASSUME Base, NEW c \in Confirm, CountCodeAttempt(c)
  PROVE  ConfirmEffects(c) /\ ConfirmShape(c)'
<1>0. /\ TypeOK /\ tokens \in Store /\ ConfirmShape(c)
      /\ confirm \in [Confirm -> ConfirmCall] /\ confirm[c] \in ConfirmCall
  BY TypesHold DEF Base, TypeOK, Shapes
<1>1. PICK s \in {t \in SignIn : signIn[t].pc = "answered"}, code \in Typed :
        LET counted == countAttempt(tokens, s, "secondFactor")
            token == Answer(counted, s, "secondFactor")
            taken == Unspent(token) /\ token.attempts <= CODE_ATTEMPTS
        IN /\ tokens' = counted
           /\ confirm' = [confirm EXCEPT
                ![c] = [@ EXCEPT !.pc = IF taken THEN "findRecord" ELSE "refused",
                                 !.challenge = s, !.code = code,
                                 !.attempts = IF taken THEN token.attempts ELSE 0]]
  BY DEF CountCodeAttempt
<1> DEFINE counted == countAttempt(tokens, s, "secondFactor")
           token == Answer(counted, s, "secondFactor")
           taken == Unspent(token) /\ token.attempts <= CODE_ATTEMPTS
           pc == IF taken THEN "findRecord" ELSE "refused"
           attempts == IF taken THEN token.attempts ELSE 0
<1>2. /\ confirm[c].pc = "idle"
      /\ UNCHANGED <<scene, user, deletion, session, signIn, writer, link, keeper, written>>
  BY DEF CountCodeAttempt
<1>3. s \in SignIn /\ signIn[s].pc = "answered" /\ s \in Hash
  BY PasswordSignInAssumption
<1>4. tokens' = counted /\ TokensEvolve
  BY <1>0, <1>1, <1>3, CountEvolves DEF TokensEvolve
<1>5. pc \in {"findRecord", "refused"} /\ attempts \in Nat
  <2>1. token # None => token \in TokenRecord
    BY <1>3, <1>4 DEF TokensEvolve, Store, Answer
  <2> QED
    BY <2>1 DEF Unspent, TokenRecord
<1>6. code \in AppCode \cup RecoveryCode \cup {None}
  BY DEF Typed, TypedAppCode
<1>7. confirm' = [confirm EXCEPT ![c] = [confirm[c] EXCEPT
                    !.pc = pc, !.challenge = s, !.code = code, !.attempts = attempts]]
  BY <1>1
<1> HIDE DEF pc, attempts, counted, token, taken
<1>8. [confirm[c] EXCEPT !.pc = pc, !.challenge = s, !.code = code, !.attempts = attempts]
        \in ConfirmCall
  BY <1>0, <1>3, <1>5, <1>6, Zenon DEF ConfirmCall
<1>9. /\ confirm'[c].pc = pc /\ confirm'[c].challenge = s
      /\ confirm'[c].accepted = confirm[c].accepted
  BY <1>0, <1>7 DEF ConfirmCall
<1>10. ~ confirm[c].accepted
  BY <1>0, <1>2 DEF ConfirmShape
<1>11. ConfirmFrame(c)
  BY <1>0, <1>2, <1>4, <1>7, <1>8 DEF ConfirmFrame, TypeOK
<1>12. ConfirmWrites(c) /\ ConfirmReads(c) /\ ConfirmOpens(c)
  BY <1>2, <1>5, <1>9, <1>10 DEF ConfirmWrites, ConfirmReads, ConfirmOpens
<1>13. ConfirmShape(c)'
  BY <1>2, <1>3, <1>5, <1>9, <1>10 DEF ConfirmShape
<1> QED
  BY <1>11, <1>12, <1>13 DEF ConfirmEffects

LEMMA CompareEffects ==
  ASSUME Base, NEW c \in Confirm, CompareCode(c)
  PROVE  ConfirmEffects(c) /\ ConfirmShape(c)'
<1>0. /\ TypeOK /\ tokens \in Store /\ ConfirmShape(c)
      /\ confirm \in [Confirm -> ConfirmCall] /\ confirm[c] \in ConfirmCall
      /\ user # None => user \in UserRecord
  BY TypesHold DEF Base, TypeOK, Shapes
<1> DEFINE refuseCode == IF confirm[c].attempts = CODE_ATTEMPTS THEN "burn" ELSE "refused"
           version == IF user = None THEN 0 ELSE user.version
           factor == IF user = None THEN None ELSE user.secondFactor
           accepts == /\ user # None /\ user.active /\ isActive(user.secondFactor)
                      /\ Accepts(user.secondFactor, confirm[c].code)
           pc == CASE user = None -> refuseCode
                   [] user # None /\ (~ user.active \/ ~ isActive(user.secondFactor))
                        -> "spendRefused"
                   [] user # None /\ user.active /\ isActive(user.secondFactor)
                        -> IF Accepts(user.secondFactor, confirm[c].code)
                             THEN "write" ELSE refuseCode
<1>1. /\ confirm[c].pc = "findRecord"
      /\ UNCHANGED <<scene, user, deletion, tokens, session, signIn, writer, link, keeper,
                     written>>
  BY DEF CompareCode
<1>2. confirm' = [confirm EXCEPT ![c] = [confirm[c] EXCEPT
                    !.version = version, !.factor = factor, !.pc = pc]]
  BY <1>0 DEF CompareCode
<1>3. pc \in {"burn", "refused", "spendRefused", "write"} /\ (pc = "write" => accepts)
  OBVIOUS
<1>4. version \in Nat /\ factor \in Factor \cup {None}
  BY <1>0 DEF UserRecord
<1>5. accepts => /\ version = user.version /\ factor = user.secondFactor /\ user # None
                 /\ isActive(factor) /\ Accepts(factor, confirm[c].code)
  OBVIOUS
<1> HIDE DEF pc, version, factor, accepts, refuseCode
<1>6. [confirm[c] EXCEPT !.version = version, !.factor = factor, !.pc = pc] \in ConfirmCall
  BY <1>0, <1>3, <1>4, Zenon DEF ConfirmCall
<1>7. /\ confirm'[c].pc = pc /\ confirm'[c].version = version /\ confirm'[c].factor = factor
      /\ confirm'[c].challenge = confirm[c].challenge /\ confirm'[c].code = confirm[c].code
      /\ confirm'[c].accepted = confirm[c].accepted
  BY <1>0, <1>2 DEF ConfirmCall
<1>8. ~ confirm[c].accepted
  BY <1>0, <1>1 DEF ConfirmShape
<1>9. ConfirmFrame(c)
  BY <1>0, <1>1, <1>2, <1>6, StillEvolves DEF ConfirmFrame, TypeOK
<1>10. ConfirmWrites(c) /\ ConfirmReads(c) /\ ConfirmOpens(c)
  BY <1>1, <1>3, <1>5, <1>7 DEF ConfirmWrites, ConfirmReads, ConfirmOpens
<1>11. ConfirmShape(c)'
  BY <1>0, <1>1, <1>3, <1>5, <1>7, <1>8 DEF ConfirmShape
<1> QED
  BY <1>9, <1>10, <1>11 DEF ConfirmEffects

(* A confirm that moves on, what it read unchanged.                        *)
LEMMA ConfirmPc ==
  ASSUME TypeOK, NEW c \in Confirm,
         NEW pc \in {"idle", "findRecord", "burn", "spendRefused", "write", "spend", "open",
                     "signedIn", "refused", "failed"},
         confirm' = [confirm EXCEPT ![c].pc = pc]
  PROVE  /\ confirm' \in [Confirm -> ConfirmCall]
         /\ \A d \in Confirm \ {c} : confirm'[d] = confirm[d]
         /\ confirm'[c].pc = pc
         /\ confirm'[c].challenge = confirm[c].challenge
         /\ confirm'[c].code = confirm[c].code
         /\ confirm'[c].accepted = confirm[c].accepted
<1>0. confirm \in [Confirm -> ConfirmCall] /\ confirm[c] \in ConfirmCall
  BY DEF TypeOK
<1>1. [confirm[c] EXCEPT !.pc = pc] \in ConfirmCall
  BY <1>0, Zenon DEF ConfirmCall
<1>2. confirm'[c] = [confirm[c] EXCEPT !.pc = pc]
  BY <1>0
<1>3. confirm' \in [Confirm -> ConfirmCall] /\ \A d \in Confirm \ {c} : confirm'[d] = confirm[d]
  BY <1>0, <1>1
<1>4. /\ confirm'[c].pc = pc
      /\ confirm'[c].challenge = confirm[c].challenge
      /\ confirm'[c].code = confirm[c].code
      /\ confirm'[c].accepted = confirm[c].accepted
  BY <1>0, <1>2 DEF ConfirmCall
<1> QED
  BY <1>3, <1>4

LEMMA ConfirmSteps ==
  ASSUME Base, NEW c \in Confirm, ConfirmNext(c)
  PROVE  ConfirmEffects(c) /\ ConfirmShape(c)'
<1>0. /\ TypeOK /\ tokens \in Store /\ ConfirmShape(c) /\ c \in Caller
      /\ confirm \in [Confirm -> ConfirmCall] /\ confirm[c] \in ConfirmCall
      /\ session \in [Caller -> {"none", "live", "revoked"}]
  BY TypesHold DEF Base, TypeOK, Shapes, Caller
<1>1. confirm[c].pc # "idle" =>
        confirm[c].challenge \in SignIn /\ confirm[c].challenge \in Hash
          /\ TokenShape(confirm[c].challenge)
  <2>1. \A s \in SignIn : s \in Hash /\ TokenShape(s)
    BY PasswordSignInAssumption DEF Base, Shapes
  <2> QED
    BY <1>0, <2>1 DEF ConfirmShape
<1>2. CASE CountCodeAttempt(c)
  BY <1>2, CountEffects
<1>3. CASE CompareCode(c)
  BY <1>3, CompareEffects
<1>4. CASE BurnChallenge(c)
  <2>1. /\ confirm[c].pc \in {"burn", "spendRefused"}
        /\ tokens' = consumeToken(tokens, confirm[c].challenge, "secondFactor", 0)
        /\ confirm' = [confirm EXCEPT ![c].pc = "refused"]
        /\ UNCHANGED <<scene, user, deletion, session, signIn, writer, link, keeper, written>>
    BY <1>4 DEF BurnChallenge
  <2>2. /\ confirm' \in [Confirm -> ConfirmCall]
        /\ \A d \in Confirm \ {c} : confirm'[d] = confirm[d]
        /\ confirm'[c].pc = "refused"
        /\ confirm'[c].challenge = confirm[c].challenge
        /\ confirm'[c].code = confirm[c].code
        /\ confirm'[c].accepted = confirm[c].accepted
    BY <1>0, <2>1, ConfirmPc
  <2>3. TokensEvolve
    BY <1>0, <1>1, <2>1, ConsumeEvolves DEF TokensEvolve
  <2>4. ConfirmFrame(c)
    BY <1>0, <2>1, <2>2, <2>3 DEF ConfirmFrame
  <2>5. ConfirmWrites(c) /\ ConfirmReads(c) /\ ConfirmOpens(c)
    BY <2>1, <2>2 DEF ConfirmWrites, ConfirmReads, ConfirmOpens
  <2>6. ConfirmShape(c)'
    BY <1>0, <2>1, <2>2 DEF ConfirmShape
  <2> QED
    BY <2>4, <2>5, <2>6 DEF ConfirmEffects
<1>5. CASE WriteFactor(c) /\ AtVersion(confirm[c].version)
  <2>1. /\ confirm[c].pc = "write"
        /\ user' = Written([user EXCEPT
             !.secondFactor = Used(confirm[c].factor, confirm[c].code)])
        /\ confirm' = [confirm EXCEPT ![c].pc = "spend", ![c].accepted = TRUE]
        /\ UNCHANGED <<scene, deletion, tokens, session, signIn, writer, link, keeper, written>>
    BY <1>5 DEF WriteFactor
  <2>2. confirm'[c] = [confirm[c] EXCEPT !.pc = "spend", !.accepted = TRUE]
    BY <1>0, <2>1
  <2>3. [confirm[c] EXCEPT !.pc = "spend", !.accepted = TRUE] \in ConfirmCall
    BY <1>0, Zenon DEF ConfirmCall
  <2>4. /\ confirm' \in [Confirm -> ConfirmCall]
        /\ \A d \in Confirm \ {c} : confirm'[d] = confirm[d]
    BY <1>0, <2>1, <2>3
  <2>5. /\ confirm'[c].pc = "spend" /\ confirm'[c].accepted
        /\ confirm'[c].challenge = confirm[c].challenge
        /\ confirm'[c].code = confirm[c].code
    BY <1>0, <2>2 DEF ConfirmCall
  <2>6. ConfirmFrame(c)
    BY <1>0, <2>1, <2>4, StillEvolves DEF ConfirmFrame
  <2>7. ConfirmWrites(c) /\ ConfirmReads(c) /\ ConfirmOpens(c)
    BY <1>5, <2>1, <2>5 DEF ConfirmWrites, ConfirmReads, ConfirmOpens
  <2>8. confirm[c].code \in AppCode \cup RecoveryCode
    <3>1. confirm[c].factor \in Factor
      BY <1>0, <2>1 DEF ConfirmShape, isActive, IsFactor
    <3> QED
      BY <1>0, <2>1, <3>1 DEF ConfirmShape, Accepts, AppCodeAccepted, Factor
  <2>9. ConfirmShape(c)'
    BY <1>0, <2>1, <2>5, <2>8 DEF ConfirmShape
  <2> QED
    BY <2>6, <2>7, <2>9 DEF ConfirmEffects
<1>6. CASE WriteFactor(c) /\ ~ AtVersion(confirm[c].version)
  <2>1. /\ confirm[c].pc = "write"
        /\ confirm' = [confirm EXCEPT ![c].pc = "refused"]
        /\ UNCHANGED <<scene, user, deletion, tokens, session, signIn, writer, link, keeper,
                       written>>
    BY <1>6 DEF WriteFactor
  <2>2. /\ confirm' \in [Confirm -> ConfirmCall]
        /\ \A d \in Confirm \ {c} : confirm'[d] = confirm[d]
        /\ confirm'[c].pc = "refused"
        /\ confirm'[c].challenge = confirm[c].challenge
        /\ confirm'[c].code = confirm[c].code
        /\ confirm'[c].accepted = confirm[c].accepted
    BY <1>0, <2>1, ConfirmPc
  <2>3. ConfirmFrame(c)
    BY <1>0, <2>1, <2>2, StillEvolves DEF ConfirmFrame
  <2>4. ConfirmWrites(c) /\ ConfirmReads(c) /\ ConfirmOpens(c)
    BY <2>1, <2>2 DEF ConfirmWrites, ConfirmReads, ConfirmOpens
  <2>5. ConfirmShape(c)'
    BY <1>0, <2>1, <2>2 DEF ConfirmShape
  <2> QED
    BY <2>3, <2>4, <2>5 DEF ConfirmEffects
<1>7. CASE SpendChallenge(c)
  <2>1. PICK pc \in {"open", "refused"} :
          /\ confirm' = [confirm EXCEPT ![c].pc = pc]
          /\ pc = "open" => Unspent(tokens[confirm[c].challenge])
    BY <1>7, Zenon DEF SpendChallenge, Answer, Unspent
  <2>2. /\ confirm[c].pc = "spend"
        /\ tokens' = consumeToken(tokens, confirm[c].challenge, "secondFactor", 0)
        /\ UNCHANGED <<scene, user, deletion, session, signIn, writer, link, keeper, written>>
    BY <1>7 DEF SpendChallenge
  <2>3. /\ confirm' \in [Confirm -> ConfirmCall]
        /\ \A d \in Confirm \ {c} : confirm'[d] = confirm[d]
        /\ confirm'[c].pc = pc
        /\ confirm'[c].challenge = confirm[c].challenge
        /\ confirm'[c].code = confirm[c].code
        /\ confirm'[c].accepted = confirm[c].accepted
    BY <1>0, <2>1, ConfirmPc
  <2>4. TokensEvolve /\ ~ Unspent(tokens'[confirm[c].challenge])
    <3>1. tokens[confirm[c].challenge] # None =>
            tokens[confirm[c].challenge].kind = "secondFactor"
      BY <1>1, <2>2 DEF TokenShape
    <3> QED
      BY <1>0, <1>1, <2>2, <3>1, ConsumeEvolves, ConsumeSpends DEF TokensEvolve
  <2>5. ConfirmFrame(c)
    BY <1>0, <2>2, <2>3, <2>4 DEF ConfirmFrame
  <2>6. ConfirmWrites(c) /\ ConfirmReads(c) /\ ConfirmOpens(c)
    BY <2>1, <2>2, <2>3 DEF ConfirmWrites, ConfirmReads, ConfirmOpens
  <2>7. ConfirmShape(c)'
    BY <1>0, <2>2, <2>3, <2>4 DEF ConfirmShape
  <2> QED
    BY <2>5, <2>6, <2>7 DEF ConfirmEffects
<1>8. CASE OpenConfirmed(c)
  <2>1. /\ confirm[c].pc = "open"
        /\ session' = [session EXCEPT ![c] = "live"]
        /\ confirm' = [confirm EXCEPT ![c].pc = "signedIn"]
        /\ UNCHANGED <<scene, user, deletion, tokens, signIn, writer, link, keeper, written>>
    BY <1>8 DEF OpenConfirmed, insertSession
  <2>2. /\ confirm' \in [Confirm -> ConfirmCall]
        /\ \A d \in Confirm \ {c} : confirm'[d] = confirm[d]
        /\ confirm'[c].pc = "signedIn"
        /\ confirm'[c].challenge = confirm[c].challenge
        /\ confirm'[c].code = confirm[c].code
        /\ confirm'[c].accepted = confirm[c].accepted
    BY <1>0, <2>1, ConfirmPc
  <2>3. ConfirmFrame(c)
    BY <1>0, <2>1, <2>2, StillEvolves DEF ConfirmFrame
  <2>4. ConfirmWrites(c) /\ ConfirmReads(c) /\ ConfirmOpens(c)
    BY <2>1, <2>2 DEF ConfirmWrites, ConfirmReads, ConfirmOpens
  <2>5. ConfirmShape(c)'
    BY <1>0, <2>1, <2>2 DEF ConfirmShape
  <2> QED
    BY <2>3, <2>4, <2>5 DEF ConfirmEffects
<1>9. CASE ConfirmFails(c)
  <2>1. /\ confirm[c].pc \in {"findRecord", "burn", "spendRefused", "write", "spend", "open"}
        /\ confirm' = [confirm EXCEPT ![c] = [@ EXCEPT !.pc = "failed", !.version = 0,
                                                        !.factor = None, !.attempts = 0]]
        /\ UNCHANGED <<scene, user, deletion, tokens, session, signIn, writer, link, keeper,
                       written>>
    BY <1>9 DEF ConfirmFails
  <2>2. confirm'[c] = [confirm[c] EXCEPT !.pc = "failed", !.version = 0, !.factor = None,
                                         !.attempts = 0]
    BY <1>0, <2>1
  <2>3. [confirm[c] EXCEPT !.pc = "failed", !.version = 0, !.factor = None, !.attempts = 0]
          \in ConfirmCall
    BY <1>0, 0 \in Nat, Zenon DEF ConfirmCall
  <2>4. /\ confirm' \in [Confirm -> ConfirmCall]
        /\ \A d \in Confirm \ {c} : confirm'[d] = confirm[d]
    BY <1>0, <2>1, <2>3
  <2>5. /\ confirm'[c].pc = "failed" /\ confirm'[c].accepted = confirm[c].accepted
        /\ confirm'[c].challenge = confirm[c].challenge
        /\ confirm'[c].code = confirm[c].code
    BY <1>0, <2>2 DEF ConfirmCall
  <2>6. ConfirmFrame(c)
    BY <1>0, <2>1, <2>4, StillEvolves DEF ConfirmFrame
  <2>7. ConfirmWrites(c) /\ ConfirmReads(c) /\ ConfirmOpens(c)
    BY <2>1, <2>5 DEF ConfirmWrites, ConfirmReads, ConfirmOpens
  <2>8. ConfirmShape(c)'
    BY <1>0, <2>1, <2>5 DEF ConfirmShape
  <2> QED
    BY <2>6, <2>7, <2>8 DEF ConfirmEffects
<1>10. WriteFactor(c) => (WriteFactor(c) /\ AtVersion(confirm[c].version))
                          \/ (WriteFactor(c) /\ ~ AtVersion(confirm[c].version))
  OBVIOUS
<1> QED
  BY <1>2, <1>3, <1>4, <1>5, <1>6, <1>7, <1>8, <1>9, <1>10 DEF ConfirmNext

-----------------------------------------------------------------------------
(* The same of the steps of a call that writes the password.               *)

(* Wrote the password, and has still to spend the tokens of a kind, or     *)
(* never will: that spend failed, or the call did before its spends.       *)
EndsYet(w, kind) ==
  /\ writer[w].nth # 0
  /\ \/ writer[w].pc = "revoke"
     \/ writer[w].pc = "spend" /\ (kind \in writer[w].toSpend \/ kind \in writer[w].unspent)
     \/ writer[w].pc = "failed" /\ (writer[w].unspent = {} \/ kind \in writer[w].unspent)

(* Holds the address it will prove, and the version it read it under.      *)
Proving(w) ==
  \/ writer[w].flow = "firstProof" /\ writer[w].pc \in {"revoke", "spend", "read", "write"}
  \/ writer[w].flow = "reset" /\ writer[w].pc = "write"

WriterFrame(w) ==
  /\ UNCHANGED <<scene, deletion, signIn, confirm, link, keeper>>
  /\ writer' \in [Writer -> WriterCall]
  /\ \A v \in Writer \ {w} : writer'[v] = writer[v]
  /\ TokensEvolve
  /\ session' \in [Caller -> {"none", "live", "revoked"}]
  /\ \A x \in Caller \ {w} : session'[x] = "live" => session[x] = "live"

WriterWrites(w) ==
  \/ user' = user /\ written' = written /\ writer'[w].nth = writer[w].nth
  \/ /\ writer[w].pc = "write" /\ AtVersion(writer[w].version)
     /\ user' = Written(Patched(w))
     /\ written' = Append(written, writer[w].next)
     /\ writer'[w].nth = Len(written) + 1
     /\ writer'[w].pc = AfterWrite(w) /\ writer'[w].flow = writer[w].flow
     /\ writer'[w].toSpend = Kind

WriterReads(w) ==
  /\ \/ writer'[w].version = 0
     \/ writer'[w].version = writer[w].version
     \/ user # None /\ user' = user /\ writer'[w].version = user.version
  /\ (writer'[w].nth = 0 /\ Proving(w)') =>
       /\ user' = user
       /\ \/ /\ writer[w].nth = 0 /\ Proving(w)
             /\ writer'[w].version = writer[w].version
             /\ writer'[w].address = writer[w].address
          \/ /\ user # None
             /\ writer'[w].version = user.version
             /\ writer'[w].address = user.email

WriterEnds(w) ==
  \A kind \in Kind : EndsYet(w, kind) =>
    EndsYet(w, kind)' \/ tokens' = spendUserTokens(tokens, Holder, kind, 0, {})

(* A reset and a first proof go on once nothing of the user is live.       *)
WriterSignsOut(w) ==
  (/\ writer'[w].nth # 0 /\ writer'[w].flow \in {"reset", "firstProof"}
   /\ writer'[w].pc \in {"spend", "finish", "done"}) =>
     \/ /\ writer[w].nth = writer'[w].nth /\ writer[w].flow = writer'[w].flow
        /\ writer[w].pc \in {"spend", "finish"}
     \/ \A x \in Caller : session'[x] # "live"

WriterEffects(w) ==
  /\ WriterFrame(w) /\ WriterWrites(w) /\ WriterReads(w) /\ WriterEnds(w)
  /\ WriterSignsOut(w)

(* What is typed of a writer that a step needs.                            *)
LEMMA WriterTyped ==
  ASSUME Base, NEW w \in Writer
  PROVE  /\ TypeOK /\ tokens \in Store /\ WriterShape(w) /\ w \in Caller
         /\ writer \in [Writer -> WriterCall] /\ writer[w] \in WriterCall
         /\ session \in [Caller -> {"none", "live", "revoked"}]
         /\ user # None => user \in UserRecord
         /\ writer[w].nth \in Nat /\ Len(written) \in Nat
<1>1. /\ TypeOK /\ tokens \in Store /\ WriterShape(w) /\ w \in Caller
      /\ writer \in [Writer -> WriterCall] /\ writer[w] \in WriterCall
      /\ session \in [Caller -> {"none", "live", "revoked"}]
      /\ Len(written) \in Nat
  BY TypesHold DEF Base, TypeOK, Shapes, Caller
<1>2. user # None => user \in UserRecord
  BY <1>1 DEF TypeOK
<1>3. writer[w].nth \in Nat
  BY <1>1 DEF WriterCall
<1> QED
  BY <1>1, <1>2, <1>3, Zenon

(* A call that refuses has read nothing that it keeps.                     *)
LEMMA RefuseMoves ==
  ASSUME Base, NEW w \in Writer, Refuse(w),
         writer[w].pc \in {"idle", "owner", "read", "write"},
         UNCHANGED <<scene, user, deletion, session, signIn, confirm, link, keeper, written>>,
         TokensEvolve
  PROVE  WriterEffects(w) /\ WriterShape(w)'
<1>0. /\ TypeOK /\ WriterShape(w) /\ writer \in [Writer -> WriterCall]
      /\ session \in [Caller -> {"none", "live", "revoked"}]
      /\ writer[w].nth \in Nat /\ Len(written) \in Nat
  BY WriterTyped
<1>1. writer' = [writer EXCEPT ![w] = [NewWriter EXCEPT !.pc = "refused"]]
  BY DEF Refuse
<1>2. [NewWriter EXCEPT !.pc = "refused"] \in WriterCall
  BY 0 \in Nat, Zenon DEF NewWriter, WriterCall
<1>3. /\ writer' \in [Writer -> WriterCall]
      /\ \A v \in Writer \ {w} : writer'[v] = writer[v]
      /\ writer'[w] = [NewWriter EXCEPT !.pc = "refused"]
  BY <1>0, <1>1, <1>2
<1>4. /\ writer'[w].pc = "refused" /\ writer'[w].nth = 0 /\ writer'[w].version = 0
      /\ writer[w].nth = 0
  BY <1>0, <1>3 DEF NewWriter, WriterShape
<1>5. WriterFrame(w)
  BY <1>0, <1>3 DEF WriterFrame
<1>6. WriterWrites(w) /\ WriterReads(w) /\ WriterEnds(w) /\ WriterSignsOut(w)
  BY <1>4 DEF WriterWrites, WriterReads, WriterEnds, WriterSignsOut, Proving, EndsYet
<1>7. WriterShape(w)'
  BY <1>0, <1>4 DEF WriterShape
<1> QED
  BY <1>5, <1>6, <1>7 DEF WriterEffects

LEMMA BeginChangeEffects ==
  ASSUME Base, NEW w \in Writer, BeginChange(w)
  PROVE  WriterEffects(w) /\ WriterShape(w)'
<1>0. /\ TypeOK /\ WriterShape(w) /\ writer \in [Writer -> WriterCall]
      /\ writer[w] \in WriterCall
      /\ session \in [Caller -> {"none", "live", "revoked"}]
      /\ writer[w].nth \in Nat /\ Len(written) \in Nat
      /\ user # None => user \in UserRecord
  BY WriterTyped
<1>1. /\ writer[w].pc = "idle"
      /\ UNCHANGED <<scene, user, deletion, tokens, session, signIn, confirm, link, keeper,
                     written>>
  BY DEF BeginChange
<1>2. TokensEvolve
  BY <1>0, <1>1, StillEvolves
<1>3. CASE Refuse(w)
  BY <1>1, <1>2, <1>3, RefuseMoves
<1>4. CASE ~ Refuse(w)
  <2>1. user # None /\ user.version \in Nat
    BY <1>0, <1>4 DEF BeginChange, UserRecord
  <2>2. PICK next \in Password :
          writer' = [writer EXCEPT ![w] = [writer[w] EXCEPT
            !.pc = "write", !.flow = "change", !.next = next, !.version = user.version]]
    BY <1>4 DEF BeginChange
  <2>3. [writer[w] EXCEPT !.pc = "write", !.flow = "change", !.next = next,
                          !.version = user.version] \in WriterCall
    BY <1>0, <2>1, Zenon DEF WriterCall
  <2>4. /\ writer' \in [Writer -> WriterCall]
        /\ \A v \in Writer \ {w} : writer'[v] = writer[v]
    BY <1>0, <2>2, <2>3
  <2>5. /\ writer'[w].pc = "write" /\ writer'[w].flow = "change"
        /\ writer'[w].version = user.version /\ writer'[w].nth = writer[w].nth
    BY <1>0, <2>2 DEF WriterCall
  <2>6. WriterFrame(w)
    BY <1>0, <1>1, <1>2, <2>4 DEF WriterFrame
  <2>7. writer[w].nth = 0
    BY <1>0, <1>1 DEF WriterShape
  <2>8. WriterWrites(w) /\ WriterReads(w) /\ WriterEnds(w) /\ WriterSignsOut(w)
    BY <1>1, <2>1, <2>5, <2>7
    DEF WriterWrites, WriterReads, WriterEnds, WriterSignsOut, Proving, EndsYet
  <2>9. WriterShape(w)'
    BY <1>0, <1>1, <2>5, <2>7 DEF WriterShape
  <2> QED
    BY <2>6, <2>8, <2>9 DEF WriterEffects
<1> QED
  BY <1>3, <1>4

LEMMA BeginResetEffects ==
  ASSUME Base, NEW w \in Writer, BeginReset(w)
  PROVE  WriterEffects(w) /\ WriterShape(w)'
<1>0. /\ TypeOK /\ WriterShape(w) /\ writer \in [Writer -> WriterCall]
      /\ writer[w] \in WriterCall /\ tokens \in Store
      /\ session \in [Caller -> {"none", "live", "revoked"}]
      /\ writer[w].nth \in Nat /\ Len(written) \in Nat
  BY WriterTyped
<1>1. /\ writer[w].pc = "idle"
      /\ UNCHANGED <<scene, user, deletion, session, signIn, confirm, link, keeper, written>>
  BY DEF BeginReset
<1>2. PICK l \in {k \in Link : link[k].pc = "sent"}, next \in Password :
        LET before == Answer(tokens, l, "resetPassword")
        IN /\ tokens' = consumeToken(tokens, l, "resetPassword", 0)
           /\ IF Unspent(before)
                THEN writer' = [writer EXCEPT ![w] = [@ EXCEPT
                       !.pc = "owner", !.flow = "reset", !.next = next,
                       !.address = before.address]]
                ELSE Refuse(w)
  BY DEF BeginReset
<1>3. l \in Hash
  BY PasswordSignInAssumption
<1>4. TokensEvolve
  BY <1>0, <1>2, <1>3, ConsumeEvolves DEF TokensEvolve
<1>5. CASE ~ Unspent(Answer(tokens, l, "resetPassword"))
  <2>1. Refuse(w)
    BY <1>2, <1>5
  <2> QED
    BY <1>1, <1>4, <2>1, RefuseMoves
<1>6. CASE Unspent(Answer(tokens, l, "resetPassword"))
  <2>1. Answer(tokens, l, "resetPassword").address \in Address
    BY <1>0, <1>3, <1>6 DEF Unspent, Answer, Store, TokenRecord
  <2>2. PICK address \in Address :
          writer' = [writer EXCEPT ![w] = [writer[w] EXCEPT
            !.pc = "owner", !.flow = "reset", !.next = next, !.address = address]]
    BY <1>2, <1>6, <2>1
  <2>3. [writer[w] EXCEPT !.pc = "owner", !.flow = "reset", !.next = next,
                          !.address = address] \in WriterCall
    BY <1>0, Zenon DEF WriterCall
  <2>4. /\ writer' \in [Writer -> WriterCall]
        /\ \A v \in Writer \ {w} : writer'[v] = writer[v]
    BY <1>0, <2>2, <2>3
  <2>5. /\ writer'[w].pc = "owner" /\ writer'[w].flow = "reset"
        /\ writer'[w].version = writer[w].version /\ writer'[w].nth = writer[w].nth
    BY <1>0, <2>2 DEF WriterCall
  <2>6. WriterFrame(w)
    BY <1>0, <1>1, <1>4, <2>4 DEF WriterFrame
  <2>7. writer[w].nth = 0
    BY <1>0, <1>1 DEF WriterShape
  <2>8. WriterWrites(w) /\ WriterReads(w) /\ WriterEnds(w) /\ WriterSignsOut(w)
    BY <1>1, <2>5, <2>7
    DEF WriterWrites, WriterReads, WriterEnds, WriterSignsOut, Proving, EndsYet
  <2>9. WriterShape(w)'
    BY <1>0, <1>1, <2>5, <2>7 DEF WriterShape
  <2> QED
    BY <2>6, <2>8, <2>9 DEF WriterEffects
<1> QED
  BY <1>5, <1>6

LEMMA OwnerOfEffects ==
  ASSUME Base, NEW w \in Writer, OwnerOf(w)
  PROVE  WriterEffects(w) /\ WriterShape(w)'
<1>0. /\ TypeOK /\ WriterShape(w) /\ writer \in [Writer -> WriterCall]
      /\ writer[w] \in WriterCall
      /\ session \in [Caller -> {"none", "live", "revoked"}]
      /\ writer[w].nth \in Nat /\ Len(written) \in Nat
  BY WriterTyped
<1>1. /\ writer[w].pc = "owner"
      /\ UNCHANGED <<scene, user, deletion, tokens, session, signIn, confirm, link, keeper,
                     written>>
      /\ (writer' = [writer EXCEPT ![w].pc = "read"]) \/ Refuse(w)
  BY DEF OwnerOf
<1>2. TokensEvolve
  BY <1>0, <1>1, StillEvolves
<1>3. CASE Refuse(w)
  BY <1>1, <1>2, <1>3, RefuseMoves
<1>4. CASE writer' = [writer EXCEPT ![w].pc = "read"]
  <2>1. [writer[w] EXCEPT !.pc = "read"] \in WriterCall
    BY <1>0, Zenon DEF WriterCall
  <2>2. /\ writer' \in [Writer -> WriterCall]
        /\ \A v \in Writer \ {w} : writer'[v] = writer[v]
    BY <1>0, <1>4, <2>1
  <2>3. /\ writer'[w].pc = "read" /\ writer'[w].flow = writer[w].flow
        /\ writer'[w].version = writer[w].version /\ writer'[w].nth = writer[w].nth
    BY <1>0, <1>4 DEF WriterCall
  <2>4. writer[w].nth = 0 /\ writer[w].flow = "reset"
    BY <1>0, <1>1 DEF WriterShape
  <2>5. WriterFrame(w)
    BY <1>0, <1>1, <1>2, <2>2 DEF WriterFrame
  <2>6. WriterWrites(w) /\ WriterReads(w) /\ WriterEnds(w) /\ WriterSignsOut(w)
    BY <1>1, <2>3, <2>4
    DEF WriterWrites, WriterReads, WriterEnds, WriterSignsOut, Proving, EndsYet
  <2>7. WriterShape(w)'
    BY <1>0, <1>1, <2>3, <2>4 DEF WriterShape
  <2> QED
    BY <2>5, <2>6, <2>7 DEF WriterEffects
<1> QED
  BY <1>1, <1>3, <1>4

LEMMA BeginFirstProofEffects ==
  ASSUME Base, NEW w \in Writer, BeginFirstProof(w)
  PROVE  WriterEffects(w) /\ WriterShape(w)'
<1>0. /\ TypeOK /\ WriterShape(w) /\ writer \in [Writer -> WriterCall]
      /\ writer[w] \in WriterCall
      /\ session \in [Caller -> {"none", "live", "revoked"}]
      /\ writer[w].nth \in Nat /\ Len(written) \in Nat
      /\ user # None => user \in UserRecord
  BY WriterTyped
<1>1. /\ writer[w].pc = "idle" /\ user # None
      /\ UNCHANGED <<scene, user, deletion, tokens, session, signIn, confirm, link, keeper,
                     written>>
      /\ writer' = [writer EXCEPT ![w] = [writer[w] EXCEPT
           !.pc = "revoke", !.flow = "firstProof", !.address = user.email,
           !.version = user.version]]
  BY DEF BeginFirstProof
<1>2. user.email \in Address /\ user.version \in Nat
  BY <1>0, <1>1 DEF UserRecord, Email
<1>3. [writer[w] EXCEPT !.pc = "revoke", !.flow = "firstProof", !.address = user.email,
                        !.version = user.version] \in WriterCall
  BY <1>0, <1>2, Zenon DEF WriterCall
<1>4. /\ writer' \in [Writer -> WriterCall]
      /\ \A v \in Writer \ {w} : writer'[v] = writer[v]
  BY <1>0, <1>1, <1>3
<1>5. /\ writer'[w].pc = "revoke" /\ writer'[w].flow = "firstProof"
      /\ writer'[w].address = user.email
      /\ writer'[w].version = user.version /\ writer'[w].nth = writer[w].nth
  BY <1>0, <1>1 DEF WriterCall
<1>6. writer[w].nth = 0
  BY <1>0, <1>1 DEF WriterShape
<1>7. WriterFrame(w)
  BY <1>0, <1>1, <1>4, StillEvolves DEF WriterFrame
<1>8. WriterWrites(w) /\ WriterReads(w) /\ WriterEnds(w) /\ WriterSignsOut(w)
  BY <1>1, <1>5, <1>6
  DEF WriterWrites, WriterReads, WriterEnds, WriterSignsOut, Proving, EndsYet
<1>9. WriterShape(w)'
  BY <1>0, <1>1, <1>5, <1>6 DEF WriterShape
<1> QED
  BY <1>7, <1>8, <1>9 DEF WriterEffects

LEMMA ReadUserEffects ==
  ASSUME Base, NEW w \in Writer, ReadUser(w)
  PROVE  WriterEffects(w) /\ WriterShape(w)'
<1>0. /\ TypeOK /\ WriterShape(w) /\ writer \in [Writer -> WriterCall]
      /\ writer[w] \in WriterCall
      /\ session \in [Caller -> {"none", "live", "revoked"}]
      /\ writer[w].nth \in Nat /\ Len(written) \in Nat
      /\ user # None => user \in UserRecord
  BY WriterTyped
<1>1. /\ writer[w].pc = "read"
      /\ UNCHANGED <<scene, user, deletion, tokens, session, signIn, confirm, link, keeper,
                     written>>
  BY DEF ReadUser
<1>2. TokensEvolve
  BY <1>0, <1>1, StillEvolves
<1>3. CASE ~ MayWrite(w)
  <2>1. Refuse(w)
    BY <1>3 DEF ReadUser
  <2> QED
    BY <1>1, <1>2, <2>1, RefuseMoves
<1>4. CASE MayWrite(w)
  <2>1. user # None /\ user.version \in Nat
    BY <1>0, <1>4 DEF MayWrite, UserRecord
  <2>2. writer'[w] = [writer[w] EXCEPT !.pc = "write", !.version = user.version]
    BY <1>0, <1>4 DEF ReadUser
  <2>3. [writer[w] EXCEPT !.pc = "write", !.version = user.version] \in WriterCall
    BY <1>0, <2>1, Zenon DEF WriterCall
  <2>4. /\ writer' \in [Writer -> WriterCall]
        /\ \A v \in Writer \ {w} : writer'[v] = writer[v]
    <3>1. writer' = [writer EXCEPT ![w] =
                       [writer[w] EXCEPT !.pc = "write", !.version = user.version]]
      BY <1>0, <1>4 DEF ReadUser
    <3> QED
      BY <1>0, <2>3, <3>1
  <2>5. /\ writer'[w].pc = "write" /\ writer'[w].flow = writer[w].flow
        /\ writer'[w].address = writer[w].address
        /\ writer'[w].version = user.version /\ writer'[w].nth = writer[w].nth
    BY <1>0, <2>2 DEF WriterCall
  <2>6. writer[w].nth = 0 /\ writer[w].flow \in {"reset", "firstProof"}
    BY <1>0, <1>1 DEF WriterShape
  <2>7. WriterFrame(w)
    BY <1>0, <1>1, <1>2, <2>4 DEF WriterFrame
  <2>8. WriterReads(w)
    <3>1. CASE writer[w].flow = "reset"
      BY <1>1, <1>4, <2>1, <2>5, <2>6, <3>1 DEF WriterReads, Proving, MayWrite
    <3>2. CASE writer[w].flow = "firstProof"
      BY <1>1, <1>4, <2>1, <2>5, <2>6, <3>2 DEF WriterReads, Proving, MayWrite
    <3> QED
      BY <2>6, <3>1, <3>2
  <2>9. WriterWrites(w) /\ WriterEnds(w) /\ WriterSignsOut(w)
    BY <1>1, <2>5, <2>6 DEF WriterWrites, WriterEnds, WriterSignsOut, EndsYet
  <2>10. WriterShape(w)'
    BY <1>0, <1>1, <2>5, <2>6 DEF WriterShape
  <2> QED
    BY <2>7, <2>8, <2>9, <2>10 DEF WriterEffects
<1> QED
  BY <1>3, <1>4

LEMMA WritePasswordEffects ==
  ASSUME Base, NEW w \in Writer, WritePassword(w)
  PROVE  WriterEffects(w) /\ WriterShape(w)'
<1>0. /\ TypeOK /\ WriterShape(w) /\ writer \in [Writer -> WriterCall]
      /\ writer[w] \in WriterCall
      /\ session \in [Caller -> {"none", "live", "revoked"}]
      /\ writer[w].nth \in Nat /\ Len(written) \in Nat
  BY WriterTyped
<1>1. /\ writer[w].pc = "write"
      /\ UNCHANGED <<scene, deletion, tokens, session, signIn, confirm, link, keeper>>
  BY DEF WritePassword
<1>2. TokensEvolve
  BY <1>0, <1>1, StillEvolves
<1>3. CASE ~ AtVersion(writer[w].version)
  <2>1. Refuse(w) /\ UNCHANGED <<user, written>>
    BY <1>3 DEF WritePassword
  <2> QED
    BY <1>1, <1>2, <2>1, RefuseMoves
<1>4. CASE AtVersion(writer[w].version)
  <2>1. /\ user' = Written(Patched(w))
        /\ written' = Append(written, writer[w].next)
    BY <1>4 DEF WritePassword
  <2> DEFINE pc == AfterWrite(w)
             nth == Len(written) + 1
  <2>2. writer[w].flow \in {"change", "reset", "firstProof"} /\ writer[w].nth = 0
    BY <1>0, <1>1 DEF WriterShape
  <2>3. /\ pc \in {"revoke", "spend"}
        /\ pc = "spend" <=> writer[w].flow = "change"
    BY <2>2 DEF AfterWrite
  <2>4. nth \in Nat /\ nth # 0
    BY <1>0
  <2>5. writer' = [writer EXCEPT ![w] = [writer[w] EXCEPT
                     !.pc = pc, !.toSpend = Kind, !.nth = nth, !.version = 0, !.next = None]]
    BY <1>4 DEF WritePassword
  <2>6. AfterWrite(w) = pc
    OBVIOUS
  <2>7. nth = Len(written) + 1
    OBVIOUS
  <2> HIDE DEF pc, nth
  <2>8. [writer[w] EXCEPT !.pc = pc, !.toSpend = Kind, !.nth = nth, !.version = 0,
                          !.next = None] \in WriterCall
    BY <1>0, <2>3, <2>4, 0 \in Nat, Zenon DEF WriterCall
  <2>9. /\ writer' \in [Writer -> WriterCall]
        /\ \A v \in Writer \ {w} : writer'[v] = writer[v]
    BY <1>0, <2>5, <2>8
  <2>10. /\ writer'[w].pc = pc /\ writer'[w].flow = writer[w].flow
         /\ writer'[w].toSpend = Kind
         /\ writer'[w].version = 0 /\ writer'[w].nth = nth
    BY <1>0, <2>5 DEF WriterCall
  <2>11. WriterFrame(w)
    BY <1>0, <1>1, <1>2, <2>9 DEF WriterFrame
  <2>12. WriterWrites(w)
    BY <1>1, <1>4, <2>1, <2>6, <2>7, <2>10 DEF WriterWrites
  <2>13. WriterReads(w) /\ WriterEnds(w) /\ WriterSignsOut(w)
    BY <1>1, <2>2, <2>3, <2>4, <2>10 DEF WriterReads, WriterEnds, WriterSignsOut, EndsYet
  <2>14. Len(written') = Len(written) + 1
    <3>1. written \in Seq(Password \cup {None}) /\ writer[w].next \in Password \cup {None}
      BY <1>0 DEF TypeOK, WriterCall
    <3> QED
      BY <2>1, <3>1
  <2>15. WriterShape(w)'
    <3>1. nth <= Len(written')
      BY <1>0, <2>7, <2>14
    <3> QED
      BY <2>2, <2>3, <2>4, <2>10, <3>1 DEF WriterShape
  <2> QED
    BY <2>11, <2>12, <2>13, <2>15 DEF WriterEffects
<1> QED
  BY <1>3, <1>4

LEMMA RevokeEffects ==
  ASSUME Base, NEW w \in Writer, RevokeUserSessions(w)
  PROVE  WriterEffects(w) /\ WriterShape(w)'
<1>0. /\ TypeOK /\ WriterShape(w) /\ writer \in [Writer -> WriterCall]
      /\ writer[w] \in WriterCall
      /\ session \in [Caller -> {"none", "live", "revoked"}]
      /\ writer[w].nth \in Nat /\ Len(written) \in Nat
  BY WriterTyped
<1>1. /\ writer[w].pc = "revoke"
      /\ UNCHANGED <<scene, user, deletion, tokens, signIn, confirm, link, keeper, written>>
      /\ writer' = [writer EXCEPT ![w].pc = "spend", ![w].toSpend = Kind]
      /\ session' = [c \in Caller |-> IF session[c] = "live" THEN "revoked" ELSE session[c]]
  BY DEF RevokeUserSessions, revokeUserSessions
<1>2. /\ session' \in [Caller -> {"none", "live", "revoked"}]
      /\ \A x \in Caller : session'[x] # "live"
  BY <1>0, <1>1
<1>3. [writer[w] EXCEPT !.pc = "spend", !.toSpend = Kind] \in WriterCall
  BY <1>0, Zenon DEF WriterCall
<1>4. /\ writer' \in [Writer -> WriterCall]
      /\ \A v \in Writer \ {w} : writer'[v] = writer[v]
      /\ writer'[w] = [writer[w] EXCEPT !.pc = "spend", !.toSpend = Kind]
  <2>1. writer' = [writer EXCEPT ![w] = [writer[w] EXCEPT !.pc = "spend", !.toSpend = Kind]]
    BY <1>0, <1>1
  <2> QED
    BY <1>0, <1>3, <2>1
<1>5. /\ writer'[w].pc = "spend" /\ writer'[w].flow = writer[w].flow
      /\ writer'[w].toSpend = Kind /\ writer'[w].address = writer[w].address
      /\ writer'[w].version = writer[w].version /\ writer'[w].nth = writer[w].nth
  BY <1>0, <1>4 DEF WriterCall
<1>6. WriterFrame(w)
  BY <1>0, <1>1, <1>2, <1>4, StillEvolves DEF WriterFrame
<1>7. WriterWrites(w) /\ WriterReads(w) /\ WriterEnds(w) /\ WriterSignsOut(w)
  BY <1>1, <1>2, <1>5
  DEF WriterWrites, WriterReads, WriterEnds, WriterSignsOut, Proving, EndsYet
<1>8. WriterShape(w)'
  BY <1>0, <1>1, <1>5 DEF WriterShape
<1> QED
  BY <1>6, <1>7, <1>8 DEF WriterEffects

LEMMA EndWhatEffects ==
  ASSUME Base, NEW w \in Writer, EndWhatThePasswordOpened(w)
  PROVE  WriterEffects(w) /\ WriterShape(w)'
<1>0. /\ TypeOK /\ WriterShape(w) /\ writer \in [Writer -> WriterCall]
      /\ writer[w] \in WriterCall /\ tokens \in Store
      /\ session \in [Caller -> {"none", "live", "revoked"}]
      /\ writer[w].nth \in Nat /\ Len(written) \in Nat
  BY WriterTyped
<1>1. /\ writer[w].pc = "spend"
      /\ UNCHANGED <<scene, user, deletion, session, signIn, confirm, link, keeper, written>>
  BY DEF EndWhatThePasswordOpened
<1>2. PICK kind \in writer[w].toSpend, fails \in BOOLEAN :
        LET left == writer[w].toSpend \ {kind}
            unspent == writer[w].unspent \cup (IF fails THEN {kind} ELSE {})
        IN /\ tokens' = IF fails THEN tokens
                        ELSE spendUserTokens(tokens, Holder, kind, 0, {})
           /\ writer' = [writer EXCEPT ![w] = [@ EXCEPT
                !.toSpend = left, !.unspent = unspent,
                !.pc = IF left = {} THEN AfterSpends(w, unspent) ELSE "spend"]]
  BY DEF EndWhatThePasswordOpened
<1> DEFINE left == writer[w].toSpend \ {kind}
           unspent == writer[w].unspent \cup (IF fails THEN {kind} ELSE {})
           pc == IF left = {} THEN AfterSpends(w, unspent) ELSE "spend"
<1>3. /\ writer[w].flow \in {"change", "reset", "firstProof"}
      /\ writer[w].nth = 0 => writer[w].flow = "firstProof"
      /\ writer[w].toSpend \in SUBSET Kind /\ writer[w].unspent \in SUBSET Kind
  BY <1>0, <1>1 DEF WriterShape, WriterCall
<1>4. TokensEvolve
  BY <1>0, <1>2, StillEvolves, SpendUserEvolves DEF TokensEvolve
<1>5. left \in SUBSET Kind /\ unspent \in SUBSET Kind
  BY <1>3
<1>6. /\ pc \in {"spend", "failed", "done", "read", "finish"}
      /\ left # {} => pc = "spend"
      /\ (left = {} /\ unspent # {}) => pc = "failed"
      /\ pc = "done" => writer[w].flow # "firstProof"
      /\ pc \in {"read", "finish"} => writer[w].flow = "firstProof"
      /\ pc = "read" => writer[w].nth = 0
      /\ pc = "finish" => writer[w].nth # 0
  <2>1. CASE left # {}
    BY <2>1
  <2>2. CASE left = {} /\ unspent # {}
    BY <2>2 DEF AfterSpends
  <2>3. CASE left = {} /\ unspent = {} /\ writer[w].flow # "firstProof"
    <3>1. pc = "done"
      BY <2>3 DEF AfterSpends
    <3> QED
      BY <2>3, <3>1
  <2>4. CASE left = {} /\ unspent = {} /\ writer[w].flow = "firstProof"
    <3>1. pc = IF writer[w].nth = 0 THEN "read" ELSE "finish"
      BY <2>4 DEF AfterSpends
    <3> HIDE DEF pc, left, unspent
    <3> QED
      BY <2>4, <3>1
  <2> QED
    BY <2>1, <2>2, <2>3, <2>4
<1>7. writer' = [writer EXCEPT ![w] = [writer[w] EXCEPT
                   !.toSpend = left, !.unspent = unspent, !.pc = pc]]
  BY <1>2
<1>8. \A other \in writer[w].toSpend : other # kind => other \in left
  OBVIOUS
<1>9. /\ \A other \in writer[w].unspent : other \in unspent
      /\ ~ fails => tokens' = spendUserTokens(tokens, Holder, kind, 0, {})
      /\ fails => kind \in unspent
  BY <1>2
<1> HIDE DEF left, unspent, pc
<1>10. [writer[w] EXCEPT !.toSpend = left, !.unspent = unspent, !.pc = pc] \in WriterCall
  BY <1>0, <1>5, <1>6, Zenon DEF WriterCall
<1>11. /\ writer' \in [Writer -> WriterCall]
       /\ \A v \in Writer \ {w} : writer'[v] = writer[v]
  BY <1>0, <1>7, <1>10
<1>12. /\ writer'[w].pc = pc /\ writer'[w].flow = writer[w].flow
       /\ writer'[w].toSpend = left /\ writer'[w].address = writer[w].address
       /\ writer'[w].version = writer[w].version /\ writer'[w].nth = writer[w].nth
  BY <1>0, <1>7 DEF WriterCall
<1>13. writer'[w].unspent = unspent
  BY <1>0, <1>7 DEF WriterCall
<1>14. WriterFrame(w)
  BY <1>0, <1>1, <1>4, <1>11 DEF WriterFrame
<1>15. WriterWrites(w) /\ WriterReads(w) /\ WriterSignsOut(w)
  BY <1>1, <1>3, <1>6, <1>12 DEF WriterWrites, WriterReads, WriterSignsOut, Proving
<1>16. WriterEnds(w)
  <2> SUFFICES ASSUME NEW other \in Kind, EndsYet(w, other)
               PROVE  \/ EndsYet(w, other)'
                      \/ tokens' = spendUserTokens(tokens, Holder, other, 0, {})
    BY DEF WriterEnds
  <2>1. /\ writer[w].nth # 0
        /\ other \in writer[w].toSpend \/ other \in writer[w].unspent
    BY <1>1 DEF EndsYet
  <2>2. CASE other \in unspent
    <3>1. pc \in {"spend", "failed"}
      BY <1>6, <2>2
    <3> QED
      BY <1>12, <1>13, <2>1, <2>2, <3>1 DEF EndsYet
  <2>3. CASE other \notin unspent /\ other # kind
    <3>1. other \in left
      BY <1>8, <1>9, <2>1, <2>3
    <3>2. pc = "spend"
      BY <1>6, <3>1
    <3> QED
      BY <1>12, <2>1, <3>1, <3>2 DEF EndsYet
  <2>4. CASE other \notin unspent /\ other = kind
    BY <1>9, <2>4
  <2> QED
    BY <2>2, <2>3, <2>4
<1>17. WriterShape(w)'
  BY <1>0, <1>1, <1>3, <1>6, <1>12 DEF WriterShape
<1> QED
  BY <1>14, <1>15, <1>16, <1>17 DEF WriterEffects

LEMMA FinishProofEffects ==
  ASSUME Base, NEW w \in Writer, FinishProof(w)
  PROVE  WriterEffects(w) /\ WriterShape(w)'
<1>0. /\ TypeOK /\ WriterShape(w) /\ writer \in [Writer -> WriterCall]
      /\ writer[w] \in WriterCall /\ w \in Caller
      /\ session \in [Caller -> {"none", "live", "revoked"}]
      /\ writer[w].nth \in Nat /\ Len(written) \in Nat
  BY WriterTyped
<1>1. /\ writer[w].pc = "finish"
      /\ UNCHANGED <<scene, user, deletion, tokens, signIn, confirm, link, keeper, written>>
      /\ writer' = [writer EXCEPT ![w].pc = "done"]
      /\ session' = [session EXCEPT ![w] = "live"]
  BY DEF FinishProof, insertSession
<1>2. /\ session' \in [Caller -> {"none", "live", "revoked"}]
      /\ \A x \in Caller \ {w} : session'[x] = session[x]
  BY <1>0, <1>1
<1>3. [writer[w] EXCEPT !.pc = "done"] \in WriterCall
  BY <1>0, Zenon DEF WriterCall
<1>4. /\ writer' \in [Writer -> WriterCall]
      /\ \A v \in Writer \ {w} : writer'[v] = writer[v]
      /\ writer'[w] = [writer[w] EXCEPT !.pc = "done"]
  BY <1>0, <1>1, <1>3
<1>5. /\ writer'[w].pc = "done" /\ writer'[w].flow = writer[w].flow
      /\ writer'[w].version = writer[w].version /\ writer'[w].nth = writer[w].nth
  BY <1>0, <1>4 DEF WriterCall
<1>6. WriterFrame(w)
  BY <1>0, <1>1, <1>2, <1>4, StillEvolves DEF WriterFrame
<1>7. WriterWrites(w) /\ WriterReads(w) /\ WriterEnds(w) /\ WriterSignsOut(w)
  BY <1>1, <1>5
  DEF WriterWrites, WriterReads, WriterEnds, WriterSignsOut, Proving, EndsYet
<1>8. WriterShape(w)'
  BY <1>0, <1>1, <1>5 DEF WriterShape
<1> QED
  BY <1>6, <1>7, <1>8 DEF WriterEffects

LEMMA WriterFailsEffects ==
  ASSUME Base, NEW w \in Writer, WriterFails(w)
  PROVE  WriterEffects(w) /\ WriterShape(w)'
<1>0. /\ TypeOK /\ WriterShape(w) /\ writer \in [Writer -> WriterCall]
      /\ writer[w] \in WriterCall
      /\ session \in [Caller -> {"none", "live", "revoked"}]
      /\ writer[w].nth \in Nat /\ Len(written) \in Nat
  BY WriterTyped
<1>1. /\ writer[w].pc \in {"owner", "read", "write", "revoke", "finish"}
      /\ UNCHANGED <<scene, user, deletion, tokens, session, signIn, confirm, link, keeper,
                     written>>
      /\ writer' = [writer EXCEPT ![w] = [NewWriter EXCEPT !.pc = "failed",
                                                           !.nth = writer[w].nth]]
  BY DEF WriterFails
<1>2. [NewWriter EXCEPT !.pc = "failed", !.nth = writer[w].nth] \in WriterCall
  BY <1>0, 0 \in Nat, Zenon DEF NewWriter, WriterCall
<1>3. /\ writer' \in [Writer -> WriterCall]
      /\ \A v \in Writer \ {w} : writer'[v] = writer[v]
      /\ writer'[w] = [NewWriter EXCEPT !.pc = "failed", !.nth = writer[w].nth]
  BY <1>0, <1>1, <1>2
<1>4. /\ writer'[w].pc = "failed" /\ writer'[w].version = 0
      /\ writer'[w].nth = writer[w].nth /\ writer'[w].unspent = {}
  BY <1>3 DEF NewWriter
<1>5. WriterFrame(w)
  BY <1>0, <1>1, <1>3, StillEvolves DEF WriterFrame
<1>6. WriterWrites(w) /\ WriterReads(w) /\ WriterEnds(w) /\ WriterSignsOut(w)
  BY <1>1, <1>4
  DEF WriterWrites, WriterReads, WriterEnds, WriterSignsOut, Proving, EndsYet
<1>7. WriterShape(w)'
  BY <1>0, <1>1, <1>4 DEF WriterShape
<1> QED
  BY <1>5, <1>6, <1>7 DEF WriterEffects

LEMMA WriterSteps ==
  ASSUME Base, NEW w \in Writer, WriterNext(w)
  PROVE  WriterEffects(w) /\ WriterShape(w)'
BY BeginChangeEffects, BeginResetEffects, OwnerOfEffects, BeginFirstProofEffects,
   ReadUserEffects, WritePasswordEffects, RevokeEffects, EndWhatEffects,
   FinishProofEffects, WriterFailsEffects
DEF WriterNext

-----------------------------------------------------------------------------
(* The same of a request for a reset link, of what keeps the second        *)
(* factor, and of what runs beside them all.                               *)

LinkEffects(l) ==
  /\ UNCHANGED <<scene, user, deletion, session, signIn, confirm, writer, keeper, written>>
  /\ link' \in [Link -> LinkCall]
  /\ \A m \in Link \ {l} : link'[m] = link[m]
  /\ tokens' \in Store
  /\ \A h \in Hash \ {l} : Evolved(tokens[h], tokens'[h])
  /\ \/ link'[l].since = link[l].since /\ Evolved(tokens[l], tokens'[l])
     \/ link'[l].since = Len(written)

LEMMA LinkSteps ==
  ASSUME Base, NEW l \in Link, LinkNext(l)
  PROVE  LinkEffects(l) /\ LinkShape(l)' /\ TokenShape(l)'
<1>0. /\ TypeOK /\ tokens \in Store /\ LinkShape(l) /\ TokenShape(l) /\ l \in Hash
      /\ link \in [Link -> LinkCall] /\ link[l] \in LinkCall
      /\ Len(written) \in Nat
  BY TypesHold DEF Base, TypeOK, Shapes
<1>1. CASE HolderOfEmail(l)
  <2>1. /\ link[l].pc = "idle"
        /\ UNCHANGED <<scene, user, deletion, tokens, session, signIn, confirm, writer, keeper,
                       written>>
    BY <1>1 DEF HolderOfEmail
  <2>2. PICK pc \in {"nobody", "issue"}, address \in Address \cup {None} :
          /\ link' = [link EXCEPT ![l] = [link[l] EXCEPT !.pc = pc, !.address = address]]
          /\ pc = "issue" => address \in Email
    <3>1. CASE user = None
      BY <1>1, <3>1 DEF HolderOfEmail
    <3>2. CASE user # None
      <4>1. user.email \in Email
        BY <1>0, <3>2 DEF TypeOK, UserRecord
      <4> QED
        BY <1>1, <3>2, <4>1 DEF HolderOfEmail, Email
    <3> QED
      BY <3>1, <3>2
  <2>3. [link[l] EXCEPT !.pc = pc, !.address = address] \in LinkCall
    BY <1>0, Zenon DEF LinkCall
  <2>4. /\ link' \in [Link -> LinkCall]
        /\ \A m \in Link \ {l} : link'[m] = link[m]
    BY <1>0, <2>2, <2>3
  <2>5. /\ link'[l].pc = pc /\ link'[l].address = address
        /\ link'[l].since = link[l].since
    BY <1>0, <2>2 DEF LinkCall
  <2>6. TokensEvolve
    BY <1>0, <2>1, StillEvolves
  <2>7. LinkEffects(l)
    BY <1>0, <2>1, <2>4, <2>5, <2>6 DEF LinkEffects, TokensEvolve
  <2>8. LinkShape(l)' /\ TokenShape(l)'
    BY <1>0, <2>1, <2>2, <2>5 DEF LinkShape, TokenShape
  <2> QED
    BY <2>7, <2>8
<1>2. CASE IssueReset(l)
  <2> DEFINE token == NewToken("resetPassword", link[l].address)
  <2>1. /\ link[l].pc = "issue" /\ tokens[l] = None
        /\ tokens' = insertToken(tokens, l, token)
        /\ link' = [link EXCEPT ![l] = [link[l] EXCEPT !.pc = "keepOnlyLatest",
                                                       !.since = Len(written)]]
        /\ UNCHANGED <<scene, user, deletion, session, signIn, confirm, writer, keeper, written>>
    BY <1>0, <1>2 DEF IssueReset, LinkShape
  <2>2. token \in TokenRecord /\ token.kind = "resetPassword"
    <3>1. link[l].address \in Address /\ "resetPassword" \in Kind
      BY <1>0, <2>1, PasswordSignInAssumption DEF LinkShape, Email
    <3> QED
      BY <3>1, NewTokenTyped
  <2> HIDE DEF token
  <2>3. /\ tokens' \in Store /\ tokens'[l] = token
        /\ \A h \in Hash \ {l} : tokens'[h] = tokens[h]
    BY <1>0, <2>1, <2>2, InsertKeepsOthers
  <2>4. \A h \in Hash \ {l} : Evolved(tokens[h], tokens'[h])
    BY <1>0, <2>3 DEF Evolved, Store, TokenRecord
  <2>5. [link[l] EXCEPT !.pc = "keepOnlyLatest", !.since = Len(written)] \in LinkCall
    BY <1>0, Zenon DEF LinkCall
  <2>6. /\ link' \in [Link -> LinkCall]
        /\ \A m \in Link \ {l} : link'[m] = link[m]
    BY <1>0, <2>1, <2>5
  <2>7. link'[l].pc = "keepOnlyLatest" /\ link'[l].since = Len(written)
    BY <1>0, <2>1 DEF LinkCall
  <2>8. LinkEffects(l)
    BY <2>1, <2>3, <2>4, <2>6, <2>7 DEF LinkEffects
  <2>9. l \notin SignIn
    BY PasswordSignInAssumption
  <2>10. LinkShape(l)' /\ TokenShape(l)'
    BY <1>0, <2>1, <2>2, <2>3, <2>7, <2>9 DEF LinkShape, TokenShape
  <2> QED
    BY <2>8, <2>10
<1>3. CASE KeepOnlyLatest(l) \/ RequestFails(l)
  <2>1. PICK pc \in {"sent", "failed"} : link' = [link EXCEPT ![l].pc = pc]
    BY <1>3 DEF KeepOnlyLatest, RequestFails
  <2>2. /\ link[l].pc \in {"issue", "keepOnlyLatest"}
        /\ UNCHANGED <<scene, user, deletion, session, signIn, confirm, writer, keeper, written>>
    BY <1>3 DEF KeepOnlyLatest, RequestFails
  <2>3. TokensEvolve
    <3>1. CASE tokens' = tokens
      BY <1>0, <3>1, StillEvolves
    <3>2. CASE tokens' = spendUserTokens(tokens, Holder, "resetPassword", 0, {l})
      BY <1>0, <3>2, SpendUserEvolves DEF TokensEvolve
    <3> QED
      BY <1>3, <3>1, <3>2 DEF KeepOnlyLatest, RequestFails
  <2>4. [link[l] EXCEPT !.pc = pc] \in LinkCall
    BY <1>0, Zenon DEF LinkCall
  <2>5. /\ link' \in [Link -> LinkCall]
        /\ \A m \in Link \ {l} : link'[m] = link[m]
    BY <1>0, <2>1, <2>4
  <2>6. link'[l].pc = pc /\ link'[l].since = link[l].since
    BY <1>0, <2>1 DEF LinkCall
  <2>7. LinkEffects(l)
    BY <1>0, <2>2, <2>3, <2>5, <2>6 DEF LinkEffects, TokensEvolve
  <2>8. LinkShape(l)'
    BY <1>0, <2>2, <2>6 DEF LinkShape
  <2>9. TokenShape(l)'
    BY <1>0, <2>3 DEF TokenShape, TokensEvolve, Evolved
  <2> QED
    BY <2>7, <2>8, <2>9
<1> QED
  BY <1>1, <1>2, <1>3 DEF LinkNext

(* Whatever factor an enrolment, an activation or a regeneration decides   *)
(* on is one.                                                              *)
LEMMA DecidedTyped ==
  ASSUME NEW k \in Keeper, NEW flow, NEW code, NEW factor, Decided(k, flow, code, factor) # None
  PROVE  Decided(k, flow, code, factor) \in Factor
<1>0. /\ MaxStep \in Nat /\ k \in Secret /\ k \in RecoveryCode
  BY PasswordSignInAssumption
<1>1. \A taken \in AppCode : taken[2] \in 0..MaxStep
  BY <1>0 DEF AppCode
<1>2. CASE flow = "enroll" /\ ~ isActive(factor)
  <2>1. Decided(k, flow, code, factor) = Enrolled(k)
    BY <1>2 DEF Decided
  <2>2. 0 \in 0..MaxStep
    BY <1>0
  <2> QED
    BY <1>0, <2>1, <2>2 DEF Enrolled, Factor
<1>3. CASE /\ flow = "activate" /\ IsFactor(factor) /\ ~ isActive(factor)
           /\ AppCodeAccepted(factor, code)
  <2>1. Decided(k, flow, code, factor) = Activated(factor, code, k)
    BY <1>3 DEF Decided
  <2>2. factor \in Factor /\ code[2] \in 0..MaxStep
    BY <1>1, <1>3 DEF IsFactor, AppCodeAccepted
  <2> QED
    BY <1>0, <2>1, <2>2 DEF Activated, StepTaken, Factor
<1>4. CASE /\ flow = "regenerate" /\ isActive(factor)
           /\ AppCodeAccepted(factor, code)
  <2>1. Decided(k, flow, code, factor) = Regenerated(factor, code, k)
    BY <1>4 DEF Decided
  <2>2. factor \in Factor /\ code[2] \in 0..MaxStep
    BY <1>1, <1>4 DEF isActive, IsFactor, AppCodeAccepted
  <2> QED
    BY <1>0, <2>1, <2>2 DEF Regenerated, StepTaken, Factor
<1> QED
  BY <1>2, <1>3, <1>4 DEF Decided

KeeperFrame(k) ==
  /\ UNCHANGED <<scene, deletion, tokens, session, signIn, confirm, writer, link, written>>
  /\ keeper' \in [Keeper -> KeeperCall]
  /\ \A m \in Keeper \ {k} : keeper'[m] = keeper[m]
  /\ keeper[k].pc \in {"idle", "write"}

(* It writes what it decided, under the version it decided on.             *)
KeeperWrites(k) ==
  \/ user' = user /\ ~ keeper'[k].accepted /\ keeper'[k].pc \in {"write", "refused", "failed"}
  \/ /\ keeper[k].pc = "write" /\ AtVersion(keeper[k].version) /\ Kept(k)
     /\ keeper'[k].pc = "done" /\ keeper'[k].flow = keeper[k].flow
     /\ keeper'[k].code = keeper[k].code
     /\ keeper'[k].accepted <=> keeper[k].code # None

KeeperReads(k) ==
  keeper'[k].pc = "write" =>
    /\ user # None /\ user' = user
    /\ keeper'[k].version = user.version
    /\ keeper'[k].next = Decided(k, keeper'[k].flow, keeper'[k].code, user.secondFactor)

KeeperEffects(k) == KeeperFrame(k) /\ KeeperWrites(k) /\ KeeperReads(k)

LEMMA KeeperSteps ==
  ASSUME Base, NEW k \in Keeper, KeeperNext(k)
  PROVE  KeeperEffects(k) /\ KeeperShape(k)'
<1>0. /\ TypeOK /\ KeeperShape(k)
      /\ keeper \in [Keeper -> KeeperCall] /\ keeper[k] \in KeeperCall
      /\ user # None => user \in UserRecord
  BY TypesHold DEF Base, TypeOK, Shapes
<1>1. CASE ReadFactor(k)
  <2>1. /\ keeper[k].pc = "idle" /\ ~ keeper[k].accepted
        /\ UNCHANGED <<scene, user, deletion, tokens, session, signIn, confirm, writer, link,
                       written>>
    BY <1>0, <1>1 DEF ReadFactor, KeeperShape
  <2>2. PICK flow \in {"enroll", "activate", "regenerate"}, code \in TypedAppCode \cup {None} :
          LET next == IF user = None THEN None ELSE Decided(k, flow, code, user.secondFactor)
          IN /\ flow = "enroll" <=> code = None
             /\ keeper' = [keeper EXCEPT ![k] =
                  IF next = None THEN [@ EXCEPT !.pc = "refused"]
                  ELSE [@ EXCEPT !.pc = "write", !.flow = flow, !.code = code,
                                 !.version = user.version, !.next = next]]
    BY <1>1 DEF ReadFactor
  <2> DEFINE next == IF user = None THEN None ELSE Decided(k, flow, code, user.secondFactor)
  <2>3. CASE next = None
    <3>1. keeper' = [keeper EXCEPT ![k] = [keeper[k] EXCEPT !.pc = "refused"]]
      BY <2>2, <2>3
    <3>2. [keeper[k] EXCEPT !.pc = "refused"] \in KeeperCall
      BY <1>0, Zenon DEF KeeperCall
    <3>3. /\ keeper' \in [Keeper -> KeeperCall]
          /\ \A m \in Keeper \ {k} : keeper'[m] = keeper[m]
          /\ keeper'[k] = [keeper[k] EXCEPT !.pc = "refused"]
      BY <1>0, <3>1, <3>2
    <3>4. keeper'[k].pc = "refused" /\ keeper'[k].accepted = keeper[k].accepted
      BY <1>0, <3>3, Zenon DEF KeeperCall
    <3>5. KeeperEffects(k)
      BY <2>1, <3>3, <3>4 DEF KeeperEffects, KeeperFrame, KeeperWrites, KeeperReads
    <3>6. KeeperShape(k)'
      BY <2>1, <3>4 DEF KeeperShape
    <3> QED
      BY <3>5, <3>6
  <2>4. CASE next # None
    <3>1. user # None /\ next = Decided(k, flow, code, user.secondFactor)
      BY <2>4
    <3>2. next \in Factor /\ user.version \in Nat
      BY <1>0, <2>4, <3>1, DecidedTyped DEF UserRecord
    <3>3. code \in AppCode \cup {None}
      BY DEF TypedAppCode
    <3>4. keeper' = [keeper EXCEPT ![k] = [keeper[k] EXCEPT
                       !.pc = "write", !.flow = flow, !.code = code,
                       !.version = user.version, !.next = next]]
      BY <2>2, <2>4
    <3> HIDE DEF next
    <3>5. [keeper[k] EXCEPT !.pc = "write", !.flow = flow, !.code = code,
                            !.version = user.version, !.next = next] \in KeeperCall
      BY <1>0, <3>2, <3>3, Zenon DEF KeeperCall
    <3>6. /\ keeper' \in [Keeper -> KeeperCall]
          /\ \A m \in Keeper \ {k} : keeper'[m] = keeper[m]
          /\ keeper'[k] = [keeper[k] EXCEPT !.pc = "write", !.flow = flow, !.code = code,
                                            !.version = user.version, !.next = next]
      BY <1>0, <3>4, <3>5
    <3>7. /\ keeper'[k].pc = "write" /\ keeper'[k].flow = flow /\ keeper'[k].code = code
          /\ keeper'[k].version = user.version /\ keeper'[k].next = next
      BY <1>0, <3>6 DEF KeeperCall
    <3>8. keeper'[k].accepted = keeper[k].accepted
      BY <1>0, <3>6, Zenon DEF KeeperCall
    <3>9. KeeperEffects(k)
      BY <2>1, <3>1, <3>6, <3>7, <3>8
      DEF KeeperEffects, KeeperFrame, KeeperWrites, KeeperReads
    <3>10. KeeperShape(k)'
      BY <2>1, <2>2, <3>2, <3>7, <3>8 DEF KeeperShape
    <3> QED
      BY <3>9, <3>10
  <2> QED
    BY <2>3, <2>4
<1>2. CASE WriteKept(k) /\ AtVersion(keeper[k].version)
  <2> DEFINE accepted == keeper[k].code # None
  <2>1. /\ keeper[k].pc = "write" /\ Kept(k)
        /\ UNCHANGED <<scene, deletion, tokens, session, signIn, confirm, writer, link, written>>
        /\ keeper' = [keeper EXCEPT ![k] = [keeper[k] EXCEPT !.pc = "done", !.next = None,
                                                             !.accepted = accepted]]
    BY <1>2 DEF WriteKept
  <2>2. accepted \in BOOLEAN /\ (accepted <=> keeper[k].code # None)
    OBVIOUS
  <2>3. accepted => keeper[k].code \in AppCode
    BY <1>0 DEF KeeperCall
  <2> HIDE DEF accepted
  <2>4. [keeper[k] EXCEPT !.pc = "done", !.next = None, !.accepted = accepted] \in KeeperCall
    BY <1>0, <2>2, Zenon DEF KeeperCall
  <2>5. /\ keeper' \in [Keeper -> KeeperCall]
        /\ \A m \in Keeper \ {k} : keeper'[m] = keeper[m]
        /\ keeper'[k] = [keeper[k] EXCEPT !.pc = "done", !.next = None, !.accepted = accepted]
    BY <1>0, <2>1, <2>4
  <2>6. /\ keeper'[k].pc = "done" /\ keeper'[k].flow = keeper[k].flow
        /\ keeper'[k].code = keeper[k].code
    BY <1>0, <2>5 DEF KeeperCall
  <2>7. keeper'[k].accepted = accepted
    BY <1>0, <2>5, Zenon DEF KeeperCall
  <2>8. KeeperEffects(k)
    BY <1>2, <2>1, <2>2, <2>5, <2>6, <2>7
    DEF KeeperEffects, KeeperFrame, KeeperWrites, KeeperReads
  <2>9. KeeperShape(k)'
    BY <2>3, <2>6, <2>7 DEF KeeperShape
  <2> QED
    BY <2>8, <2>9
<1>3. CASE (WriteKept(k) /\ ~ AtVersion(keeper[k].version)) \/ KeeperFails(k)
  <2>1. PICK pc \in {"refused", "failed"} :
          keeper' = [keeper EXCEPT ![k] = [NewKeeper EXCEPT !.pc = pc]]
    BY <1>3 DEF WriteKept, KeeperFails
  <2>2. /\ keeper[k].pc = "write"
        /\ UNCHANGED <<scene, user, deletion, tokens, session, signIn, confirm, writer, link,
                       written>>
    BY <1>3 DEF WriteKept, KeeperFails
  <2>3. [NewKeeper EXCEPT !.pc = pc] \in KeeperCall
    BY 0 \in Nat, Zenon DEF NewKeeper, KeeperCall
  <2>4. /\ keeper' \in [Keeper -> KeeperCall]
        /\ \A m \in Keeper \ {k} : keeper'[m] = keeper[m]
        /\ keeper'[k] = [NewKeeper EXCEPT !.pc = pc]
    BY <1>0, <2>1, <2>3
  <2>5. keeper'[k].pc = pc /\ ~ keeper'[k].accepted
    BY <2>4 DEF NewKeeper
  <2>6. KeeperEffects(k)
    BY <2>2, <2>4, <2>5 DEF KeeperEffects, KeeperFrame, KeeperWrites, KeeperReads
  <2>7. KeeperShape(k)'
    BY <2>5 DEF KeeperShape
  <2> QED
    BY <2>6, <2>7
<1> QED
  BY <1>1, <1>2, <1>3 DEF KeeperNext

BesideNext ==
  UpdateUser \/ DisableFactor \/ DeleteUser \/ DeleteUserSessions \/ DeleteUserTokens

BesideEffects ==
  /\ UNCHANGED <<signIn, confirm, writer, link, keeper, written>>
  /\ scene' \in SceneRecord
  /\ deletion' \in {"no", "sessions", "tokens", "done"}
  /\ UserMoves
  /\ user' # None => /\ user # None
                     /\ user'.password = user.password
                     /\ user'.secondFactor \in {user.secondFactor, None}
                     /\ user'.emailVerified => user.emailVerified
  /\ (user # None /\ user' = None) => deletion' = "sessions"
  /\ TokensEvolve
  /\ deletion' \in {"no", "done"} =>
       deletion' = deletion \/ \A h \in Hash : tokens'[h] = None
  /\ session' \in [Caller -> {"none", "live", "revoked"}]
  /\ \A x \in Caller : session'[x] = "live" => session[x] = "live"

LEMMA BesideSteps ==
  ASSUME Base, BesideNext
  PROVE  BesideEffects
<1>0. /\ TypeOK /\ tokens \in Store /\ scene \in SceneRecord
      /\ deletion \in {"no", "sessions", "tokens", "done"}
      /\ session \in [Caller -> {"none", "live", "revoked"}]
      /\ user # None => user \in UserRecord
  BY TypesHold DEF Base, TypeOK
<1>1. ASSUME user # None, scene.updates > 0
      PROVE  [scene EXCEPT !.updates = @ - 1] \in SceneRecord
  BY <1>0, <1>1 DEF SceneRecord
<1>2. CASE UpdateUser
  <2>1. /\ user # None /\ user \in UserRecord
        /\ UNCHANGED <<deletion, tokens, session, signIn, confirm, writer, link, keeper, written>>
        /\ scene' \in SceneRecord
    BY <1>0, <1>1, <1>2 DEF UpdateUser
  <2>2. /\ user' \in UserRecord /\ user'.version = user.version + 1
        /\ user'.password = user.password
        /\ user'.secondFactor = user.secondFactor
        /\ user'.emailVerified => user.emailVerified
    <3>1. CASE \E email \in Email \ {user.email} :
                 user' = Written([user EXCEPT !.email = email, !.emailVerified = FALSE])
      <4>1. PICK email \in Email :
              user' = Written([user EXCEPT !.email = email, !.emailVerified = FALSE])
        BY <3>1
      <4> DEFINE patched == [user EXCEPT !.email = email, !.emailVerified = FALSE]
      <4>2. patched \in UserRecord
        BY <2>1, Zenon DEF UserRecord
      <4>3. /\ patched.version = user.version /\ patched.password = user.password
            /\ patched.secondFactor = user.secondFactor /\ ~ patched.emailVerified
        BY <2>1 DEF UserRecord
      <4> HIDE DEF patched
      <4> QED
        BY <4>1, <4>2, <4>3, WrittenTyped DEF patched
    <3>2. CASE user' = Written([user EXCEPT !.active = ~ @])
      <4> DEFINE patched == [user EXCEPT !.active = ~ @]
      <4>1. patched \in UserRecord
        BY <2>1 DEF UserRecord
      <4>2. /\ patched.version = user.version /\ patched.password = user.password
            /\ patched.secondFactor = user.secondFactor
            /\ patched.emailVerified = user.emailVerified
        BY <2>1 DEF UserRecord
      <4> HIDE DEF patched
      <4> QED
        BY <3>2, <4>1, <4>2, WrittenTyped DEF patched
    <3> QED
      BY <1>2, <3>1, <3>2 DEF UpdateUser
  <2>3. user' # None
    BY <2>2, NoUserAssumption
  <2>4. UserMoves
    BY <2>1, <2>2 DEF UserMoves
  <2> QED
    BY <1>0, <2>1, <2>2, <2>3, <2>4, StillEvolves DEF BesideEffects
<1>3. CASE DisableFactor
  <2> DEFINE patched == [user EXCEPT !.secondFactor = None]
  <2>1. /\ user # None /\ user \in UserRecord
        /\ UNCHANGED <<deletion, tokens, session, signIn, confirm, writer, link, keeper, written>>
        /\ scene' \in SceneRecord /\ user' = Written(patched)
    BY <1>0, <1>1, <1>3 DEF DisableFactor
  <2>2. patched \in UserRecord
    BY <2>1, Zenon DEF UserRecord
  <2>3. /\ patched.version = user.version /\ patched.password = user.password
        /\ patched.secondFactor = None
        /\ patched.emailVerified = user.emailVerified
    BY <2>1 DEF UserRecord
  <2> HIDE DEF patched
  <2>4. /\ user' \in UserRecord /\ user'.version = user.version + 1
        /\ user'.password = user.password /\ user'.secondFactor = None
        /\ user'.emailVerified = user.emailVerified
    BY <2>1, <2>2, <2>3, WrittenTyped
  <2>5. user' # None
    BY <2>4, NoUserAssumption
  <2>6. UserMoves
    BY <2>1, <2>4 DEF UserMoves
  <2> QED
    BY <1>0, <2>1, <2>4, <2>5, <2>6, StillEvolves DEF BesideEffects
<1>4. CASE DeleteUser
  BY <1>0, <1>4, StillEvolves DEF DeleteUser, BesideEffects, UserMoves
<1>5. CASE DeleteUserSessions
  <2>1. \A x \in Caller : session'[x] = "none"
    BY <1>5 DEF DeleteUserSessions
  <2>2. session' \in [Caller -> {"none", "live", "revoked"}]
    BY <1>5 DEF DeleteUserSessions
  <2>3. /\ deletion' = "tokens"
        /\ UNCHANGED <<scene, user, tokens, signIn, confirm, writer, link, keeper, written>>
    BY <1>5 DEF DeleteUserSessions
  <2> QED
    BY <1>0, <2>1, <2>2, <2>3, StillEvolves DEF BesideEffects, UserMoves
<1>6. CASE DeleteUserTokens
  <2>1. /\ deletion' = "done" /\ tokens' = deleteUserTokens(tokens, Holder)
        /\ UNCHANGED <<scene, user, session, signIn, confirm, writer, link, keeper, written>>
    BY <1>6 DEF DeleteUserTokens
  <2>2. TokensEvolve
    BY <1>0, <2>1, DeleteEvolves DEF TokensEvolve
  <2>3. \A h \in Hash : tokens'[h] = None
    BY <1>0, <2>1, PasswordSignInAssumption DEF deleteUserTokens, Store, TokenRecord
  <2> QED
    BY <1>0, <2>1, <2>2, <2>3 DEF BesideEffects, UserMoves
<1> QED
  BY <1>2, <1>3, <1>4, <1>5, <1>6 DEF BesideNext

-----------------------------------------------------------------------------
(* What each kind of call writes of the user.                              *)

(* A code accepted leaves a factor.                                        *)
LEMMA UsedTyped ==
  ASSUME NEW factor \in Factor, NEW code, Accepts(factor, code)
  PROVE  Used(factor, code) \in Factor
<1>1. CASE code \in factor.recoveryCodes
  BY <1>1 DEF Used, Factor
<1>2. CASE code \notin factor.recoveryCodes
  <2>1. code \in AppCode /\ MaxStep \in Nat
    BY <1>2, PasswordSignInAssumption DEF Accepts, AppCodeAccepted
  <2>2. code[2] \in 0..MaxStep
    BY <2>1 DEF AppCode
  <2> QED
    BY <1>2, <2>2 DEF Used, StepTaken, Factor
<1> QED
  BY <1>1, <1>2

LEMMA ConfirmUser ==
  ASSUME Base, NEW c \in Confirm, ConfirmWrites(c)
  PROVE  /\ UserMoves
         /\ \/ user' = user /\ confirm'[c].accepted = confirm[c].accepted
            \/ /\ confirm[c].pc = "write" /\ AtVersion(confirm[c].version)
               /\ user # None /\ user' \in UserRecord
               /\ user'.version = user.version + 1
               /\ user'.email = user.email
               /\ user'.emailVerified = user.emailVerified
               /\ user'.password = user.password
               /\ user'.secondFactor = Used(confirm[c].factor, confirm[c].code)
               /\ confirm'[c].accepted
<1>1. CASE user' = user /\ confirm'[c].accepted = confirm[c].accepted
  BY <1>1 DEF UserMoves
<1>2. CASE /\ confirm[c].pc = "write" /\ AtVersion(confirm[c].version)
           /\ user' = Written([user EXCEPT
                !.secondFactor = Used(confirm[c].factor, confirm[c].code)])
           /\ confirm'[c].accepted
  <2> DEFINE used == Used(confirm[c].factor, confirm[c].code)
             patched == [user EXCEPT !.secondFactor = used]
  <2>1. user # None /\ user \in UserRecord
    BY <1>2, TypesHold DEF Base, AtVersion
  <2>2. ConfirmShape(c)
    BY DEF Base, Shapes
  <2>3. used \in Factor
    BY <1>2, <2>2, UsedTyped DEF ConfirmShape, isActive, IsFactor
  <2> HIDE DEF used
  <2>4. patched \in UserRecord
    BY <2>1, <2>3, Zenon DEF UserRecord
  <2>5. /\ patched.version = user.version /\ patched.password = user.password
        /\ patched.secondFactor = used /\ patched.email = user.email
        /\ patched.emailVerified = user.emailVerified
    BY <2>1 DEF UserRecord
  <2>6. user' = Written(patched)
    BY <1>2 DEF used
  <2> HIDE DEF patched
  <2>7. /\ user' \in UserRecord /\ user'.version = user.version + 1
        /\ user'.email = user.email /\ user'.emailVerified = user.emailVerified
        /\ user'.password = user.password /\ user'.secondFactor = used
    BY <2>4, <2>5, <2>6, WrittenTyped
  <2>8. UserMoves
    BY <2>1, <2>7 DEF UserMoves
  <2> QED
    BY <1>2, <2>1, <2>7, <2>8 DEF used
<1> QED
  BY <1>1, <1>2 DEF ConfirmWrites

LEMMA WriterUser ==
  ASSUME Base, NEW w \in Writer, WriterWrites(w)
  PROVE  /\ UserMoves
         /\ written' \in Seq(Password \cup {None})
         /\ Len(written') >= Len(written)
         /\ \/ user' = user /\ written' = written /\ writer'[w].nth = writer[w].nth
            \/ /\ writer[w].pc = "write" /\ AtVersion(writer[w].version)
               /\ user # None /\ user' \in UserRecord
               /\ user'.version = user.version + 1
               /\ user'.email = user.email
               /\ user'.password = writer[w].next
               /\ user'.emailVerified =>
                    user.emailVerified \/ writer[w].flow \in {"reset", "firstProof"}
               /\ user'.secondFactor \in {user.secondFactor, None}
               /\ written' = Append(written, writer[w].next)
               /\ Len(written') = Len(written) + 1
               /\ written'[Len(written')] = writer[w].next
               /\ writer'[w].nth = Len(written')
<1>0. /\ written \in Seq(Password \cup {None}) /\ Len(written) \in Nat
      /\ WriterShape(w) /\ writer[w] \in WriterCall
  BY WriterTyped DEF TypeOK
<1>1. CASE user' = user /\ written' = written /\ writer'[w].nth = writer[w].nth
  BY <1>0, <1>1 DEF UserMoves
<1>2. CASE /\ writer[w].pc = "write" /\ AtVersion(writer[w].version)
           /\ user' = Written(Patched(w))
           /\ written' = Append(written, writer[w].next)
           /\ writer'[w].nth = Len(written) + 1
  <2>1. user # None /\ user \in UserRecord
    BY <1>2, TypesHold DEF Base, AtVersion
  <2>2. writer[w].next \in Password \cup {None}
    BY <1>0 DEF WriterCall
  <2>3. writer[w].flow \in {"change", "reset", "firstProof"}
    BY <1>0, <1>2 DEF WriterShape
  <2> DEFINE next == [user EXCEPT !.password = writer[w].next, !.stale = FALSE]
  <2>4. next \in UserRecord
    BY <2>1, <2>2, Zenon DEF UserRecord
  <2>5. /\ next.version = user.version /\ next.password = writer[w].next
        /\ next.secondFactor = user.secondFactor /\ next.email = user.email
        /\ next.emailVerified = user.emailVerified
    BY <2>1 DEF UserRecord
  <2>6. /\ Patched(w) \in UserRecord
        /\ Patched(w).version = user.version /\ Patched(w).password = writer[w].next
        /\ Patched(w).secondFactor \in {user.secondFactor, None}
        /\ Patched(w).email = user.email
        /\ Patched(w).emailVerified =>
             user.emailVerified \/ writer[w].flow \in {"reset", "firstProof"}
    <3>1. CASE writer[w].flow = "change"
      <4>1. Patched(w) = next
        BY <3>1 DEF Patched
      <4> QED
        BY <2>4, <2>5, <4>1
    <3>2. CASE writer[w].flow = "reset"
      <4>1. Patched(w) = [next EXCEPT !.emailVerified = TRUE]
        BY <3>2 DEF Patched
      <4> HIDE DEF next
      <4>2. Patched(w) \in UserRecord
        BY <2>4, <4>1, Zenon DEF UserRecord
      <4>3. /\ Patched(w).version = next.version /\ Patched(w).password = next.password
            /\ Patched(w).secondFactor = next.secondFactor /\ Patched(w).email = next.email
        BY <2>4, <4>1 DEF UserRecord
      <4> QED
        BY <2>5, <3>2, <4>2, <4>3
    <3>3. CASE writer[w].flow = "firstProof"
      <4>1. Patched(w) = [next EXCEPT !.emailVerified = TRUE, !.secondFactor = None]
        BY <3>3 DEF Patched
      <4> HIDE DEF next
      <4>2. Patched(w) \in UserRecord
        BY <2>4, <4>1, Zenon DEF UserRecord
      <4>3. /\ Patched(w).version = next.version /\ Patched(w).password = next.password
            /\ Patched(w).secondFactor = None /\ Patched(w).email = next.email
        BY <2>4, <4>1 DEF UserRecord
      <4> QED
        BY <2>5, <3>3, <4>2, <4>3
    <3> QED
      BY <2>3, <3>1, <3>2, <3>3
  <2>7. /\ user' \in UserRecord /\ user'.version = user.version + 1
        /\ user'.email = user.email /\ user'.password = writer[w].next
        /\ user'.secondFactor \in {user.secondFactor, None}
        /\ user'.emailVerified =>
             user.emailVerified \/ writer[w].flow \in {"reset", "firstProof"}
    BY <1>2, <2>6, WrittenTyped
  <2>8. UserMoves
    BY <2>1, <2>7 DEF UserMoves
  <2>9. /\ written' \in Seq(Password \cup {None})
        /\ Len(written') = Len(written) + 1
        /\ written'[Len(written')] = writer[w].next
    BY <1>0, <1>2, <2>2
  <2> QED
    BY <1>0, <1>2, <2>1, <2>7, <2>8, <2>9
<1> QED
  BY <1>1, <1>2 DEF WriterWrites

LEMMA KeeperUser ==
  ASSUME Base, NEW k \in Keeper, KeeperWrites(k)
  PROVE  /\ UserMoves
         /\ \/ /\ user' = user /\ ~ keeper'[k].accepted
               /\ keeper'[k].pc \in {"write", "refused", "failed"}
            \/ /\ keeper[k].pc = "write" /\ AtVersion(keeper[k].version)
               /\ user # None /\ user' \in UserRecord
               /\ user'.version = user.version + 1
               /\ user'.email = user.email
               /\ user'.emailVerified = user.emailVerified
               /\ user'.password = user.password
               /\ user'.secondFactor = keeper[k].next /\ keeper[k].next \in Factor
               /\ keeper'[k].pc = "done" /\ keeper'[k].flow = keeper[k].flow
               /\ keeper'[k].code = keeper[k].code
               /\ keeper'[k].accepted <=> keeper[k].code # None
<1>1. CASE user' = user /\ ~ keeper'[k].accepted
             /\ keeper'[k].pc \in {"write", "refused", "failed"}
  BY <1>1 DEF UserMoves
<1>2. CASE /\ keeper[k].pc = "write" /\ AtVersion(keeper[k].version) /\ Kept(k)
           /\ keeper'[k].pc = "done" /\ keeper'[k].flow = keeper[k].flow
           /\ keeper'[k].code = keeper[k].code
           /\ keeper'[k].accepted <=> keeper[k].code # None
  <2> DEFINE patched == [user EXCEPT !.secondFactor = keeper[k].next]
  <2>1. user # None /\ user \in UserRecord
    BY <1>2, TypesHold DEF Base, AtVersion
  <2>2. KeeperShape(k)
    BY DEF Base, Shapes
  <2>3. keeper[k].next \in Factor
    BY <1>2, <2>2 DEF KeeperShape
  <2>4. patched \in UserRecord
    BY <2>1, <2>3, Zenon DEF UserRecord
  <2>5. /\ patched.version = user.version /\ patched.password = user.password
        /\ patched.secondFactor = keeper[k].next /\ patched.email = user.email
        /\ patched.emailVerified = user.emailVerified
    BY <2>1 DEF UserRecord
  <2>6. user' = Written(patched)
    BY <1>2 DEF Kept
  <2> HIDE DEF patched
  <2>7. /\ user' \in UserRecord /\ user'.version = user.version + 1
        /\ user'.email = user.email /\ user'.emailVerified = user.emailVerified
        /\ user'.password = user.password /\ user'.secondFactor = keeper[k].next
    BY <2>4, <2>5, <2>6, WrittenTyped
  <2>8. UserMoves
    BY <2>1, <2>7 DEF UserMoves
  <2> QED
    BY <1>2, <2>1, <2>3, <2>7, <2>8
<1> QED
  BY <1>1, <1>2 DEF KeeperWrites

-----------------------------------------------------------------------------
(* Types and shapes, kept by every step: of a call that does not move by   *)
(* what the others leave, of the one that does by its own steps.           *)

LEMMA StillSignIn ==
  ASSUME NEW s \in SignIn, SignInShape(s), signIn'[s] = signIn[s],
         session'[s] = "live" => session[s] = "live", Evolved(tokens[s], tokens'[s])
  PROVE  SignInShape(s)'
BY DEF SignInShape, Evolved, Unspent

LEMMA StillToken ==
  ASSUME NEW h \in Hash, TokenShape(h), Evolved(tokens[h], tokens'[h])
  PROVE  TokenShape(h)'
BY DEF TokenShape, Evolved

LEMMA StillConfirm ==
  ASSUME NEW c \in Confirm, ConfirmShape(c), confirm'[c] = confirm[c],
         \A s \in SignIn : signIn[s].pc = "answered" =>
           signIn'[s].pc = "answered" /\ Evolved(tokens[s], tokens'[s])
  PROVE  ConfirmShape(c)'
BY DEF ConfirmShape, Evolved, Unspent

LEMMA StillWriter ==
  ASSUME Base, NEW w \in Writer, writer'[w] = writer[w],
         Len(written') \in Nat, Len(written') >= Len(written)
  PROVE  WriterShape(w)'
<1>1. WriterShape(w) /\ writer[w].nth \in Nat /\ Len(written) \in Nat
  BY WriterTyped
<1>2. writer[w].nth <= Len(written')
  BY <1>1 DEF WriterShape
<1> QED
  BY <1>1, <1>2 DEF WriterShape

LEMMA StillLink ==
  ASSUME Base, NEW l \in Link, link'[l] = link[l], Evolved(tokens[l], tokens'[l]),
         Len(written') \in Nat, Len(written') >= Len(written)
  PROVE  LinkShape(l)'
<1>1. LinkShape(l) /\ link[l].since \in Nat /\ Len(written) \in Nat
  BY TypesHold DEF Base, Shapes, LinkCall
<1>2. link[l].since <= Len(written')
  BY <1>1 DEF LinkShape
<1> QED
  BY <1>1, <1>2 DEF LinkShape, Evolved

LEMMA StillKeeper ==
  ASSUME NEW k \in Keeper, KeeperShape(k), keeper'[k] = keeper[k]
  PROVE  KeeperShape(k)'
BY DEF KeeperShape

LEMMA MovesTyped ==
  ASSUME TypeOK, UserMoves
  PROVE  user' \in UserRecord \cup {None}
BY DEF TypeOK, UserMoves

LEMMA SignInBase ==
  ASSUME Base, NEW s \in SignIn, SignInNext(s)
  PROVE  Base'
<1>0. /\ SignInFrame(s) /\ SignInAnswers(s) /\ SignInShape(s)' /\ TokenShape(s)'
      /\ TypeOK /\ Shapes /\ Len(written) \in Nat
  BY SignInSteps, TypesHold DEF Base
<1>1. TypeOK'
  BY <1>0, MovesTyped DEF SignInFrame, SignInMoves, TypeOK
<1>2. \A h \in Hash \ {s} : Evolved(tokens[h], tokens'[h])
  BY <1>0 DEF SignInFrame, TypeOK, Store, TokenRecord, Evolved
<1>3. \A t \in SignIn : SignInShape(t)'
  <2> SUFFICES ASSUME NEW t \in SignIn, t # s PROVE SignInShape(t)'
    BY <1>0
  <2>1. t \in Hash \ {s} /\ t \in Caller \ {s} /\ SignInShape(t)
    BY <1>0, PasswordSignInAssumption DEF Caller, Shapes
  <2>2. /\ signIn'[t] = signIn[t] /\ session'[t] = session[t]
        /\ Evolved(tokens[t], tokens'[t])
    BY <1>0, <1>2, <2>1 DEF SignInFrame, SignInMoves
  <2> QED
    BY <2>1, <2>2, StillSignIn
<1>4. \A h \in Hash : TokenShape(h)'
  BY <1>0, <1>2, StillToken DEF Shapes
<1>5. \A c \in Confirm : ConfirmShape(c)'
  <2>1. \A t \in SignIn : signIn[t].pc = "answered" =>
          signIn'[t].pc = "answered" /\ Evolved(tokens[t], tokens'[t])
    <3> SUFFICES ASSUME NEW t \in SignIn, signIn[t].pc = "answered"
                 PROVE  signIn'[t].pc = "answered" /\ Evolved(tokens[t], tokens'[t])
      OBVIOUS
    <3>1. t # s /\ t \in Hash
      BY <1>0, PasswordSignInAssumption DEF SignInAnswers
    <3> QED
      BY <1>0, <1>2, <3>1 DEF SignInFrame, SignInMoves
  <2>2. \A c \in Confirm : ConfirmShape(c) /\ confirm'[c] = confirm[c]
    BY <1>0 DEF Shapes, SignInFrame
  <2> QED
    BY <2>1, <2>2, StillConfirm
<1>6. writer' = writer /\ link' = link /\ keeper' = keeper /\ written' = written
  BY <1>0 DEF SignInFrame
<1>7. \A w \in Writer : WriterShape(w)'
  BY <1>0, <1>6 DEF Shapes, WriterShape
<1>8. \A l \in Link : LinkShape(l)'
  <2> SUFFICES ASSUME NEW l \in Link PROVE LinkShape(l)'
    OBVIOUS
  <2>1. l \in Hash \ {s} /\ LinkShape(l)
    BY <1>0, PasswordSignInAssumption DEF Shapes
  <2> QED
    BY <1>2, <1>6, <2>1 DEF LinkShape, Evolved
<1>9. \A k \in Keeper : KeeperShape(k)'
  BY <1>0, <1>6, StillKeeper DEF Shapes
<1> QED
  BY <1>1, <1>3, <1>4, <1>5, <1>7, <1>8, <1>9 DEF Base, Shapes

(* What follows for the calls that a step does not touch, when the tokens  *)
(* all evolve and nothing but the actor's session begins to live.          *)
LEMMA OthersShape ==
  ASSUME Base, TokensEvolve, signIn' = signIn,
         \A s \in SignIn : session'[s] = "live" => session[s] = "live",
         Len(written') \in Nat, Len(written') >= Len(written)
  PROVE  /\ \A s \in SignIn : SignInShape(s)'
         /\ \A h \in Hash : TokenShape(h)'
         /\ \A c \in Confirm : confirm'[c] = confirm[c] => ConfirmShape(c)'
         /\ \A w \in Writer : writer'[w] = writer[w] => WriterShape(w)'
         /\ \A l \in Link : link'[l] = link[l] => LinkShape(l)'
         /\ \A k \in Keeper : keeper'[k] = keeper[k] => KeeperShape(k)'
<1>0. /\ Shapes
      /\ \A h \in Hash : Evolved(tokens[h], tokens'[h])
      /\ \A s \in SignIn : s \in Hash
      /\ \A l \in Link : l \in Hash
  BY PasswordSignInAssumption DEF Base, TokensEvolve
<1>1. \A s \in SignIn : SignInShape(s)'
  BY <1>0, StillSignIn DEF Shapes
<1>2. \A h \in Hash : TokenShape(h)'
  BY <1>0, StillToken DEF Shapes
<1>3. \A c \in Confirm : confirm'[c] = confirm[c] => ConfirmShape(c)'
  BY <1>0, StillConfirm DEF Shapes
<1>4. \A w \in Writer : writer'[w] = writer[w] => WriterShape(w)'
  BY StillWriter
<1>5. \A l \in Link : link'[l] = link[l] => LinkShape(l)'
  BY <1>0, StillLink
<1>6. \A k \in Keeper : keeper'[k] = keeper[k] => KeeperShape(k)'
  BY <1>0, StillKeeper DEF Shapes
<1> QED
  BY <1>1, <1>2, <1>3, <1>4, <1>5, <1>6

LEMMA ConfirmBase ==
  ASSUME Base, NEW c \in Confirm, ConfirmNext(c)
  PROVE  Base'
<1>0. ConfirmFrame(c) /\ ConfirmWrites(c) /\ ConfirmShape(c)' /\ TypeOK /\ Len(written) \in Nat
  BY ConfirmSteps, TypesHold DEF Base, ConfirmEffects
<1>1. UserMoves
  BY <1>0, ConfirmUser
<1>2. TypeOK'
  BY <1>0, <1>1, MovesTyped DEF ConfirmFrame, TokensEvolve, TypeOK
<1>3. \A s \in SignIn : session'[s] = "live" => session[s] = "live"
  <2>1. \A s \in SignIn : s \in Caller \ {c}
    BY PasswordSignInAssumption DEF Caller
  <2> QED
    BY <1>0, <2>1 DEF ConfirmFrame
<1>4. /\ TokensEvolve /\ signIn' = signIn /\ writer' = writer /\ link' = link
      /\ keeper' = keeper /\ written' = written
      /\ \A d \in Confirm \ {c} : confirm'[d] = confirm[d]
  BY <1>0 DEF ConfirmFrame
<1>5. Len(written') \in Nat /\ Len(written') >= Len(written)
  BY <1>0, <1>4
<1>6. Shapes'
  BY <1>0, <1>3, <1>4, <1>5, OthersShape DEF Shapes
<1> QED
  BY <1>2, <1>6 DEF Base

LEMMA WriterBase ==
  ASSUME Base, NEW w \in Writer, WriterNext(w)
  PROVE  Base'
<1>0. WriterFrame(w) /\ WriterWrites(w) /\ WriterShape(w)' /\ TypeOK /\ Len(written) \in Nat
  BY WriterSteps, TypesHold DEF Base, WriterEffects
<1>1. /\ UserMoves /\ written' \in Seq(Password \cup {None})
      /\ Len(written') >= Len(written)
  BY <1>0, WriterUser
<1>2. TypeOK'
  BY <1>0, <1>1, MovesTyped DEF WriterFrame, TokensEvolve, TypeOK
<1>3. \A s \in SignIn : session'[s] = "live" => session[s] = "live"
  <2>1. \A s \in SignIn : s \in Caller \ {w}
    BY PasswordSignInAssumption DEF Caller
  <2> QED
    BY <1>0, <2>1 DEF WriterFrame
<1>4. /\ TokensEvolve /\ signIn' = signIn /\ confirm' = confirm /\ link' = link
      /\ keeper' = keeper
      /\ \A v \in Writer \ {w} : writer'[v] = writer[v]
  BY <1>0 DEF WriterFrame
<1>5. Len(written') \in Nat
  BY <1>1
<1>6. Shapes'
  BY <1>0, <1>1, <1>3, <1>4, <1>5, OthersShape DEF Shapes
<1> QED
  BY <1>2, <1>6 DEF Base

LEMMA LinkBase ==
  ASSUME Base, NEW l \in Link, LinkNext(l)
  PROVE  Base'
<1>0. /\ LinkEffects(l) /\ LinkShape(l)' /\ TokenShape(l)'
      /\ TypeOK /\ Shapes /\ Len(written) \in Nat
  BY LinkSteps, TypesHold DEF Base
<1>1. TypeOK'
  BY <1>0 DEF LinkEffects, TypeOK
<1>2. /\ \A h \in Hash \ {l} : Evolved(tokens[h], tokens'[h])
      /\ UNCHANGED <<session, signIn, confirm, writer, keeper, written>>
      /\ \A m \in Link \ {l} : link'[m] = link[m]
  BY <1>0 DEF LinkEffects
<1>3. \A s \in SignIn : s \in Hash \ {l}
  BY PasswordSignInAssumption
<1>4. \A s \in SignIn : SignInShape(s)'
  BY <1>0, <1>2, <1>3, StillSignIn DEF Shapes
<1>5. \A h \in Hash : TokenShape(h)'
  BY <1>0, <1>2, StillToken DEF Shapes
<1>6. \A c \in Confirm : ConfirmShape(c)'
  BY <1>0, <1>2, <1>3, StillConfirm DEF Shapes
<1>7. \A w \in Writer : WriterShape(w)'
  BY <1>0, <1>2 DEF Shapes, WriterShape
<1>8. \A m \in Link : LinkShape(m)'
  <2> SUFFICES ASSUME NEW m \in Link, m # l PROVE LinkShape(m)'
    BY <1>0
  <2>1. m \in Hash \ {l} /\ LinkShape(m)
    BY <1>0, PasswordSignInAssumption DEF Shapes
  <2> QED
    BY <1>2, <2>1 DEF LinkShape, Evolved
<1>9. \A k \in Keeper : KeeperShape(k)'
  BY <1>0, <1>2, StillKeeper DEF Shapes
<1> QED
  BY <1>1, <1>4, <1>5, <1>6, <1>7, <1>8, <1>9 DEF Base, Shapes

LEMMA KeeperBase ==
  ASSUME Base, NEW k \in Keeper, KeeperNext(k)
  PROVE  Base'
<1>0. KeeperFrame(k) /\ KeeperWrites(k) /\ KeeperShape(k)' /\ TypeOK /\ Len(written) \in Nat
  BY KeeperSteps, TypesHold DEF Base, KeeperEffects
<1>1. UserMoves
  BY <1>0, KeeperUser
<1>2. TypeOK'
  BY <1>0, <1>1, MovesTyped DEF KeeperFrame, TypeOK
<1>3. /\ UNCHANGED <<tokens, session, signIn, confirm, writer, link, written>>
      /\ \A m \in Keeper \ {k} : keeper'[m] = keeper[m]
  BY <1>0 DEF KeeperFrame
<1>4. TokensEvolve
  BY <1>0, <1>3, StillEvolves
<1>5. Len(written') \in Nat /\ Len(written') >= Len(written)
  BY <1>0, <1>3
<1>6. Shapes'
  BY <1>0, <1>3, <1>4, <1>5, OthersShape DEF Shapes
<1> QED
  BY <1>2, <1>6 DEF Base

LEMMA BesideBase ==
  ASSUME Base, BesideNext
  PROVE  Base'
<1>0. BesideEffects /\ TypeOK /\ Len(written) \in Nat
  BY BesideSteps, TypesHold DEF Base
<1>1. TypeOK'
  BY <1>0, MovesTyped DEF BesideEffects, TokensEvolve, TypeOK
<1>2. /\ UNCHANGED <<signIn, confirm, writer, link, keeper, written>>
      /\ TokensEvolve
      /\ \A s \in SignIn : session'[s] = "live" => session[s] = "live"
  BY <1>0 DEF BesideEffects, Caller
<1>3. Len(written') \in Nat /\ Len(written') >= Len(written)
  BY <1>0, <1>2
<1>4. Shapes'
  BY <1>2, <1>3, OthersShape DEF Shapes
<1> QED
  BY <1>1, <1>4 DEF Base

(* Every step is of one of these kinds.                                    *)
LEMMA StepKinds ==
  ASSUME Next
  PROVE  \/ \E s \in SignIn : SignInNext(s)
         \/ \E c \in Confirm : ConfirmNext(c)
         \/ \E w \in Writer : WriterNext(w)
         \/ \E l \in Link : LinkNext(l)
         \/ \E k \in Keeper : KeeperNext(k)
         \/ BesideNext
BY Zenon DEF Next, BesideNext

LEMMA StepBase == Base /\ [Next]_vars => Base'
<1> SUFFICES ASSUME Base, [Next]_vars PROVE Base'
  OBVIOUS
<1>1. CASE UNCHANGED vars
  BY <1>1
  DEF vars, Base, TypeOK, Shapes, SignInShape, TokenShape, ConfirmShape, WriterShape,
      LinkShape, KeeperShape
<1>2. CASE Next
  BY <1>2, StepKinds, SignInBase, ConfirmBase, WriterBase, LinkBase, KeeperBase, BesideBase
<1> QED
  BY <1>1, <1>2

(* Every variable keeps its type.                                          *)
THEOREM Types == Spec => []TypeOK
<1>1. Base => TypeOK
  BY DEF Base
<1> QED
  BY InitBase, StepBase, <1>1, PTL DEF Spec

-----------------------------------------------------------------------------
(* What a call has read is still so, unless somebody wrote since.          *)

(* A version a call holds is the user's or an older one.                   *)
Behind(version) == user # None => version <= user.version

ConfirmFresh(c) ==
  confirm[c].pc = "write" =>
    /\ Behind(confirm[c].version)
    /\ AtVersion(confirm[c].version) => user.secondFactor = confirm[c].factor

WriterFresh(w) ==
  /\ Behind(writer[w].version)
  /\ (writer[w].nth = 0 /\ Proving(w) /\ AtVersion(writer[w].version)) =>
       user.email = writer[w].address

KeeperFresh(k) ==
  keeper[k].pc = "write" =>
    /\ Behind(keeper[k].version)
    /\ AtVersion(keeper[k].version) =>
         keeper[k].next = Decided(k, keeper[k].flow, keeper[k].code, user.secondFactor)

Fresh ==
  /\ \A c \in Confirm : ConfirmFresh(c)
  /\ \A w \in Writer : WriterFresh(w)
  /\ \A k \in Keeper : KeeperFresh(k)

(* A write leaves every version held behind it.                            *)
LEMMA MovesBehind ==
  ASSUME TypeOK, UserMoves, NEW version \in Nat, Behind(version)
  PROVE  /\ user' # None => version <= user'.version
         /\ (user' # None /\ user'.version = version) => user' = user
<1>1. user # None => user.version \in Nat
  BY DEF TypeOK, UserRecord
<1>2. CASE user' = user
  BY <1>2 DEF Behind
<1>3. CASE user # None /\ user' = None
  BY <1>3
<1>4. CASE user # None /\ user'.version = user.version + 1
  BY <1>1, <1>4 DEF Behind
<1> QED
  BY <1>2, <1>3, <1>4 DEF UserMoves

LEMMA StillFresh ==
  ASSUME Base, Fresh, UserMoves
  PROVE  /\ \A c \in Confirm : confirm'[c] = confirm[c] => ConfirmFresh(c)'
         /\ \A w \in Writer : writer'[w] = writer[w] => WriterFresh(w)'
         /\ \A k \in Keeper : keeper'[k] = keeper[k] => KeeperFresh(k)'
<1>0. TypeOK
  BY DEF Base
<1>1. ASSUME NEW c \in Confirm, confirm'[c] = confirm[c] PROVE ConfirmFresh(c)'
  <2>1. confirm[c].version \in Nat /\ ConfirmFresh(c)
    BY <1>0, TypesHold DEF Fresh, ConfirmCall
  <2> SUFFICES ASSUME confirm[c].pc = "write"
               PROVE  /\ user' # None => confirm[c].version <= user'.version
                      /\ (user' # None /\ user'.version = confirm[c].version) =>
                           user'.secondFactor = confirm[c].factor
    BY <1>1 DEF ConfirmFresh, Behind, AtVersion
  <2>2. Behind(confirm[c].version)
    BY <2>1 DEF ConfirmFresh
  <2>3. /\ user' # None => confirm[c].version <= user'.version
        /\ (user' # None /\ user'.version = confirm[c].version) => user' = user
    BY <1>0, <2>1, <2>2, MovesBehind
  <2> QED
    BY <2>1, <2>3 DEF ConfirmFresh, AtVersion
<1>2. ASSUME NEW w \in Writer, writer'[w] = writer[w] PROVE WriterFresh(w)'
  <2>1. writer[w].version \in Nat /\ WriterFresh(w)
    BY <1>0, TypesHold DEF Fresh, WriterCall
  <2>2. Behind(writer[w].version)
    BY <2>1 DEF WriterFresh
  <2>3. /\ user' # None => writer[w].version <= user'.version
        /\ (user' # None /\ user'.version = writer[w].version) => user' = user
    BY <1>0, <2>1, <2>2, MovesBehind
  <2> QED
    BY <1>2, <2>1, <2>3 DEF WriterFresh, Behind, AtVersion, Proving
<1>3. ASSUME NEW k \in Keeper, keeper'[k] = keeper[k] PROVE KeeperFresh(k)'
  <2>1. keeper[k].version \in Nat /\ KeeperFresh(k)
    BY <1>0, TypesHold DEF Fresh, KeeperCall
  <2> SUFFICES ASSUME keeper[k].pc = "write"
               PROVE  /\ user' # None => keeper[k].version <= user'.version
                      /\ (user' # None /\ user'.version = keeper[k].version) =>
                           keeper[k].next = Decided(k, keeper[k].flow, keeper[k].code,
                                                    user'.secondFactor)
    BY <1>3 DEF KeeperFresh, Behind, AtVersion
  <2>2. Behind(keeper[k].version)
    BY <2>1 DEF KeeperFresh
  <2>3. /\ user' # None => keeper[k].version <= user'.version
        /\ (user' # None /\ user'.version = keeper[k].version) => user' = user
    BY <1>0, <2>1, <2>2, MovesBehind
  <2> QED
    BY <2>1, <2>3 DEF KeeperFresh, AtVersion
<1> QED
  BY <1>1, <1>2, <1>3

LEMMA StepFresh ==
  ASSUME Base, Fresh, Next
  PROVE  Fresh'
<1>0. TypeOK /\ (user # None => user.version \in Nat)
  BY DEF Base, TypeOK, UserRecord
<1>1. ASSUME NEW s \in SignIn, SignInNext(s) PROVE Fresh'
  <2>1. UserMoves /\ confirm' = confirm /\ writer' = writer /\ keeper' = keeper
    BY <1>1, SignInSteps DEF SignInFrame
  <2> QED
    BY <2>1, StillFresh DEF Fresh
<1>2. ASSUME NEW c \in Confirm, ConfirmNext(c) PROVE Fresh'
  <2>1. ConfirmFrame(c) /\ ConfirmWrites(c) /\ ConfirmReads(c)
    BY <1>2, ConfirmSteps DEF ConfirmEffects
  <2>2. UserMoves
    BY <2>1, ConfirmUser
  <2>3. ConfirmFresh(c)'
    <3> SUFFICES ASSUME confirm'[c].pc = "write" PROVE ConfirmFresh(c)'
      BY DEF ConfirmFresh
    <3>1. /\ user # None /\ user' = user
          /\ confirm'[c].version = user.version
          /\ confirm'[c].factor = user.secondFactor
      BY <2>1 DEF ConfirmReads
    <3> QED
      BY <1>0, <3>1 DEF ConfirmFresh, Behind
  <2> QED
    BY <2>1, <2>2, <2>3, StillFresh DEF Fresh, ConfirmFrame
<1>3. ASSUME NEW w \in Writer, WriterNext(w) PROVE Fresh'
  <2>1. WriterFrame(w) /\ WriterWrites(w) /\ WriterReads(w)
    BY <1>3, WriterSteps DEF WriterEffects
  <2>2. UserMoves
    BY <2>1, WriterUser
  <2>3. WriterFresh(w) /\ writer[w].version \in Nat
    BY <1>0, TypesHold DEF Fresh, WriterCall
  <2>4. /\ user' # None => writer[w].version <= user'.version
        /\ (user' # None /\ user'.version = writer[w].version) => user' = user
    BY <1>0, <2>2, <2>3, MovesBehind DEF WriterFresh
  <2>5. user' # None => writer'[w].version <= user'.version
    <3>1. user' # None => user'.version \in Nat
      BY <1>0, <2>2, MovesTyped DEF UserRecord
    <3>2. CASE writer'[w].version = 0
      BY <3>1, <3>2
    <3>3. CASE writer'[w].version = writer[w].version
      BY <2>4, <3>3
    <3>4. CASE user # None /\ user' = user /\ writer'[w].version = user.version
      BY <1>0, <3>4
    <3> QED
      BY <2>1, <3>2, <3>3, <3>4 DEF WriterReads
  <2>6. (writer'[w].nth = 0 /\ Proving(w)' /\ user' # None
         /\ user'.version = writer'[w].version) => user'.email = writer'[w].address
    BY <2>1, <2>3 DEF WriterReads, WriterFresh, AtVersion
  <2>7. WriterFresh(w)'
    BY <2>5, <2>6 DEF WriterFresh, Behind, AtVersion
  <2> QED
    BY <2>1, <2>2, <2>7, StillFresh DEF Fresh, WriterFrame
<1>4. ASSUME NEW l \in Link, LinkNext(l) PROVE Fresh'
  <2>1. user' = user /\ confirm' = confirm /\ writer' = writer /\ keeper' = keeper
    BY <1>4, LinkSteps DEF LinkEffects
  <2>2. UserMoves
    BY <2>1 DEF UserMoves
  <2> QED
    BY <2>1, <2>2, StillFresh DEF Fresh
<1>5. ASSUME NEW k \in Keeper, KeeperNext(k) PROVE Fresh'
  <2>1. KeeperFrame(k) /\ KeeperWrites(k) /\ KeeperReads(k)
    BY <1>5, KeeperSteps DEF KeeperEffects
  <2>2. UserMoves
    BY <2>1, KeeperUser
  <2>3. KeeperFresh(k)'
    <3> SUFFICES ASSUME keeper'[k].pc = "write" PROVE KeeperFresh(k)'
      BY DEF KeeperFresh
    <3>1. /\ user # None /\ user' = user
          /\ keeper'[k].version = user.version
          /\ keeper'[k].next = Decided(k, keeper'[k].flow, keeper'[k].code, user.secondFactor)
      BY <2>1 DEF KeeperReads
    <3> QED
      BY <1>0, <3>1 DEF KeeperFresh, Behind
  <2> QED
    BY <2>1, <2>2, <2>3, StillFresh DEF Fresh, KeeperFrame
<1>6. ASSUME BesideNext PROVE Fresh'
  <2>1. UserMoves /\ confirm' = confirm /\ writer' = writer /\ keeper' = keeper
    BY <1>6, BesideSteps DEF BesideEffects
  <2> QED
    BY <2>1, StillFresh DEF Fresh
<1> QED
  BY StepKinds, <1>1, <1>2, <1>3, <1>4, <1>5, <1>6

FreshInv == Base /\ Fresh

LEMMA InitFresh == Init => FreshInv
<1> SUFFICES ASSUME Init PROVE Fresh
  BY InitBase DEF FreshInv
<1>1. user.version = 1
  BY DEF Init
<1>2. /\ \A c \in Confirm : confirm[c].pc = "idle"
      /\ \A w \in Writer : writer[w].pc = "idle" /\ writer[w].version = 0
                           /\ writer[w].flow = None
      /\ \A k \in Keeper : keeper[k].pc = "idle"
  BY DEF Init, NewConfirm, NewWriter, NewKeeper
<1>3. \A w \in Writer : ~ Proving(w)
  BY <1>2 DEF Proving
<1> QED
  BY <1>1, <1>2, <1>3 DEF Fresh, ConfirmFresh, WriterFresh, KeeperFresh, Behind

LEMMA StepFreshInv == FreshInv /\ [Next]_vars => FreshInv'
<1> SUFFICES ASSUME FreshInv, [Next]_vars PROVE FreshInv'
  OBVIOUS
<1>1. Base'
  BY StepBase DEF FreshInv
<1>2. CASE Next
  BY <1>1, <1>2, StepFresh DEF FreshInv
<1>3. CASE UNCHANGED vars
  BY <1>1, <1>3
  DEF vars, FreshInv, Fresh, ConfirmFresh, WriterFresh, KeeperFresh, Behind, AtVersion, Proving
<1> QED
  BY <1>2, <1>3

-----------------------------------------------------------------------------
(* Who may change what of the user.                                        *)

(* An e-mail is proved only by a call that wrote the password for it.      *)
LEMMA ProvedOfAddress ==
  ASSUME FreshInv, Next, user # None, user' # None, user'.emailVerified, ~ user.emailVerified
  PROVE  /\ user'.email = user.email
         /\ \E w \in Writer : /\ writer[w].pc = "write" /\ writer'[w].nth # writer[w].nth
                              /\ writer[w].address = user.email
<1>0. Base /\ Fresh
  BY DEF FreshInv
<1>1. ASSUME NEW s \in SignIn, SignInNext(s) PROVE FALSE
  BY <1>0, <1>1, SignInSteps DEF SignInFrame
<1>2. ASSUME NEW c \in Confirm, ConfirmNext(c) PROVE FALSE
  <2>1. ConfirmWrites(c)
    BY <1>0, <1>2, ConfirmSteps DEF ConfirmEffects
  <2> QED
    BY <1>0, <2>1, ConfirmUser
<1>3. ASSUME NEW w \in Writer, WriterNext(w)
      PROVE  /\ user'.email = user.email
             /\ writer[w].pc = "write" /\ writer'[w].nth # writer[w].nth
             /\ writer[w].address = user.email
  <2>1. WriterWrites(w)
    BY <1>0, <1>3, WriterSteps DEF WriterEffects
  <2>2. /\ writer[w].pc = "write" /\ AtVersion(writer[w].version)
        /\ user'.email = user.email
        /\ writer[w].flow \in {"reset", "firstProof"}
        /\ Len(written') = Len(written) + 1
        /\ writer'[w].nth = Len(written')
    BY <1>0, <2>1, WriterUser
  <2>3. WriterShape(w) /\ WriterFresh(w) /\ Len(written) \in Nat
    BY <1>0, WriterTyped DEF Fresh
  <2>4. writer[w].nth = 0
    BY <2>2, <2>3 DEF WriterShape
  <2>5. Proving(w)
    BY <2>2 DEF Proving
  <2> QED
    BY <2>2, <2>3, <2>4, <2>5 DEF WriterFresh
<1>4. ASSUME NEW l \in Link, LinkNext(l) PROVE FALSE
  BY <1>0, <1>4, LinkSteps DEF LinkEffects
<1>5. ASSUME NEW k \in Keeper, KeeperNext(k) PROVE FALSE
  <2>1. KeeperWrites(k)
    BY <1>0, <1>5, KeeperSteps DEF KeeperEffects
  <2> QED
    BY <1>0, <2>1, KeeperUser
<1>6. ASSUME BesideNext PROVE FALSE
  BY <1>0, <1>6, BesideSteps DEF BesideEffects
<1> QED
  BY StepKinds, <1>1, <1>2, <1>3, <1>4, <1>5, <1>6

(* An e-mail is proved only by a link or a code sent to it, and one        *)
(* replaced since is not the one proved: confirmReset and proveFirstEmail  *)
(* write under the version of the record whose e-mail they compared.       *)
THEOREM AddressProved == Spec => ProvesItsAddress
<1>1. FreshInv /\ [Next]_vars =>
        [(user # None /\ user' # None /\ user'.emailVerified /\ ~ user.emailVerified) =>
           /\ user'.email = user.email
           /\ \E w \in Writer : /\ writer[w].pc = "write" /\ writer'[w].nth # writer[w].nth
                                /\ writer[w].address = user.email]_vars
  BY ProvedOfAddress
<1> QED
  BY InitFresh, StepFreshInv, <1>1, PTL DEF Spec, ProvesItsAddress

-----------------------------------------------------------------------------
(* A code is accepted once (CodeAcceptedOnce).  It is not inductive alone: *)
(* what keeps a code from being accepted again is what the factor says of  *)
(* it, its last step and the recovery codes left, and that no secret and   *)
(* no recovery code is minted twice.                                       *)

WasAccepted(code) ==
  \/ \E c \in Confirm : confirm[c].accepted /\ confirm[c].code = code
  \/ \E k \in Keeper : keeper[k].accepted /\ keeper[k].code = code

(* A secret, and a recovery code, is a keeper's once it is written.        *)
Enrolls(k) == keeper[k].pc = "done" /\ keeper[k].flow = "enroll"

FactorNow == IF user = None THEN None ELSE user.secondFactor

(* The factor of the user is past every code that was accepted, and knows  *)
(* no secret and no recovery code that no call has written yet.            *)
FactorPast(factor) ==
  /\ \A code \in AppCode :
       (WasAccepted(code) /\ code[1] = factor.secret) => code[2] <= factor.lastStep
  /\ \A code \in factor.recoveryCodes : ~ WasAccepted(code)
  /\ \A k \in Keeper : ~ Enrolls(k) => factor.secret # k
  /\ \A k \in Keeper : keeper[k].pc # "done" => k \notin factor.recoveryCodes

FactorKnown == FactorNow # None => FactorPast(FactorNow)

AcceptedKnown ==
  \A k \in Keeper :
    /\ ~ Enrolls(k) => \A code \in AppCode : WasAccepted(code) => code[1] # k
    /\ keeper[k].pc # "done" => ~ WasAccepted(k)

AcceptedApart ==
  /\ \A c, d \in Confirm :
       (confirm[c].accepted /\ confirm[d].accepted /\ confirm[c].code = confirm[d].code) => c = d
  /\ \A k, m \in Keeper :
       (keeper[k].accepted /\ keeper[m].accepted /\ keeper[k].code = keeper[m].code) => k = m
  /\ \A c \in Confirm, k \in Keeper :
       (confirm[c].accepted /\ keeper[k].accepted) => confirm[c].code # keeper[k].code

CodesKept == FactorKnown /\ AcceptedKnown /\ AcceptedApart

(* A step that accepts no code, and enrols none.                           *)
LEMMA QuietCodes ==
  ASSUME CodesKept,
         \A c \in Confirm : /\ confirm'[c].accepted <=> confirm[c].accepted
                            /\ confirm[c].accepted => confirm'[c].code = confirm[c].code,
         \A k \in Keeper : /\ keeper'[k].accepted <=> keeper[k].accepted
                           /\ keeper[k].accepted => keeper'[k].code = keeper[k].code
                           /\ keeper'[k].pc = "done" <=> keeper[k].pc = "done"
                           /\ keeper[k].pc = "done" => keeper'[k].flow = keeper[k].flow,
         FactorNow' \in {FactorNow, None}
  PROVE  CodesKept'
<1>1. \A code : WasAccepted(code)' <=> WasAccepted(code)
  BY DEF WasAccepted
<1>2. \A k \in Keeper : Enrolls(k)' <=> Enrolls(k)
  BY DEF Enrolls
<1>3. FactorKnown'
  <2> SUFFICES ASSUME FactorNow' # None PROVE FactorPast(FactorNow)'
    BY DEF FactorKnown
  <2>1. FactorNow' = FactorNow /\ FactorPast(FactorNow)
    BY DEF CodesKept, FactorKnown
  <2> HIDE DEF FactorNow
  <2> QED
    BY <1>1, <1>2, <2>1 DEF FactorPast
<1>4. AcceptedKnown'
  BY <1>1, <1>2 DEF CodesKept, AcceptedKnown
<1>5. AcceptedApart'
  BY DEF CodesKept, AcceptedApart
<1> QED
  BY <1>3, <1>4, <1>5 DEF CodesKept

(* A code that a factor accepts was not accepted before, nor is it of what *)
(* no call has written yet.                                                *)
LEMMA AcceptedAnew ==
  ASSUME Base, CodesKept, NEW code,
         FactorNow \in Factor, Accepts(FactorNow, code)
  PROVE  /\ ~ WasAccepted(code)
         /\ code \in AppCode => \A k \in Keeper : ~ Enrolls(k) => code[1] # k
         /\ \A k \in Keeper : keeper[k].pc # "done" => code # k
<1> DEFINE factor == FactorNow
<1>0. /\ FactorPast(factor) /\ factor \in Factor /\ MaxStep \in Nat
      /\ AppCode \cap RecoveryCode = {} /\ Keeper \subseteq RecoveryCode
  BY PasswordSignInAssumption DEF CodesKept, FactorKnown
<1> HIDE DEF factor
<1>1. Accepts(factor, code)
  BY DEF factor
<1>2. CASE AppCodeAccepted(factor, code)
  <2>1. code \in AppCode /\ code[1] = factor.secret /\ code[2] > factor.lastStep
    BY <1>2 DEF AppCodeAccepted
  <2>2. code[2] \in Int /\ factor.lastStep \in Int
    BY <1>0, <2>1 DEF AppCode, Factor
  <2>3. ~ WasAccepted(code)
    BY <1>0, <2>1, <2>2 DEF FactorPast
  <2> QED
    BY <1>0, <2>1, <2>3 DEF FactorPast
<1>3. CASE code \in factor.recoveryCodes
  <2>1. code \in RecoveryCode
    BY <1>0, <1>3 DEF Factor
  <2> QED
    BY <1>0, <1>3, <2>1 DEF FactorPast
<1> QED
  BY <1>1, <1>2, <1>3 DEF Accepts

(* A step that accepts one code, of a factor that it writes as used: what  *)
(* was accepted is told apart by calls, and known of the keepers.          *)
LEMMA OneCode ==
  ASSUME Base, CodesKept, NEW code \in AppCode \cup RecoveryCode,
         FactorNow \in Factor, Accepts(FactorNow, code),
         \A other : WasAccepted(other)' <=> (WasAccepted(other) \/ other = code),
         \A k \in Keeper : Enrolls(k) => Enrolls(k)',
         \A k \in Keeper : keeper[k].pc = "done" => keeper'[k].pc = "done"
  PROVE  AcceptedKnown'
<1>1. /\ code \in AppCode => \A k \in Keeper : ~ Enrolls(k) => code[1] # k
      /\ \A k \in Keeper : keeper[k].pc # "done" => code # k
  BY AcceptedAnew
<1>2. AcceptedKnown
  BY DEF CodesKept
<1> SUFFICES ASSUME NEW k \in Keeper
             PROVE  /\ ~ Enrolls(k)' => \A other \in AppCode : WasAccepted(other)' => other[1] # k
                    /\ keeper'[k].pc # "done" => ~ WasAccepted(k)'
  BY DEF AcceptedKnown
<1>3. ASSUME ~ Enrolls(k)', NEW other \in AppCode, WasAccepted(other)' PROVE other[1] # k
  <2>1. ~ Enrolls(k)
    BY <1>3
  <2>2. WasAccepted(other) \/ other = code
    BY <1>3
  <2> QED
    BY <1>1, <1>2, <2>1, <2>2 DEF AcceptedKnown
<1>4. ASSUME keeper'[k].pc # "done" PROVE ~ WasAccepted(k)'
  <2>1. keeper[k].pc # "done"
    BY <1>4
  <2>2. ~ WasAccepted(k) /\ k # code
    BY <1>1, <1>2, <2>1 DEF AcceptedKnown
  <2> QED
    BY <2>2
<1> QED
  BY <1>3, <1>4

(* A confirm accepts a code: the factor it writes is past it.              *)
LEMMA ConfirmCodes ==
  ASSUME Base, Fresh, CodesKept, NEW c \in Confirm, ConfirmNext(c)
  PROVE  CodesKept'
<1>0. ConfirmFrame(c) /\ ConfirmWrites(c) /\ ConfirmReads(c) /\ ConfirmShape(c)
      /\ ConfirmShape(c)'
  BY ConfirmSteps DEF ConfirmEffects, Base, Shapes
<1>1. /\ keeper' = keeper
      /\ \A d \in Confirm \ {c} : confirm'[d] = confirm[d]
      /\ confirm[c].accepted => confirm'[c].code = confirm[c].code
  BY <1>0 DEF ConfirmFrame, ConfirmReads, ConfirmShape
<1>2. CASE user' = user /\ confirm'[c].accepted = confirm[c].accepted
  <2>1. FactorNow' = FactorNow
    BY <1>2 DEF FactorNow
  <2>2. \A d \in Confirm : /\ confirm'[d].accepted <=> confirm[d].accepted
                           /\ confirm[d].accepted => confirm'[d].code = confirm[d].code
    BY <1>1, <1>2
  <2> QED
    BY <1>1, <2>1, <2>2, QuietCodes
<1>3. CASE /\ confirm[c].pc = "write" /\ AtVersion(confirm[c].version)
           /\ user # None /\ user' \in UserRecord
           /\ user'.secondFactor = Used(confirm[c].factor, confirm[c].code)
           /\ confirm'[c].accepted
  <2>0. PICK factor, code : factor = confirm[c].factor /\ code = confirm[c].code
    OBVIOUS
  <2>1. factor \in Factor /\ Accepts(factor, code) /\ ~ confirm[c].accepted
    BY <1>0, <1>3, <2>0 DEF ConfirmShape, isActive, IsFactor
  <2>2. FactorNow = factor
    BY <1>3, <2>0 DEF Fresh, ConfirmFresh, FactorNow
  <2>3. PICK used : used = Used(factor, code) /\ FactorNow' = used
    BY <1>3, <2>0, NoUserAssumption DEF FactorNow
  <2>4. code \in AppCode \cup RecoveryCode /\ confirm'[c].code = code
    BY <1>0, <1>3, <2>0 DEF ConfirmShape, ConfirmReads
  <2>5. ~ WasAccepted(code)
    BY <2>1, <2>2, AcceptedAnew
  <2>6. /\ FactorPast(factor) /\ MaxStep \in Nat
        /\ AppCode \cap RecoveryCode = {}
    BY <2>1, <2>2, PasswordSignInAssumption DEF CodesKept, FactorKnown
  <2>7. \A other : WasAccepted(other)' <=> (WasAccepted(other) \/ other = code)
    BY <1>1, <1>3, <2>0, <2>1, <2>4 DEF WasAccepted
  <2>8. \A k \in Keeper : (Enrolls(k)' <=> Enrolls(k)) /\ keeper'[k].pc = keeper[k].pc
    BY <1>1 DEF Enrolls
  <2>9. AcceptedKnown'
    <3>1. FactorNow \in Factor /\ Accepts(FactorNow, code)
      BY <2>1, <2>2
    <3> QED
      BY <2>4, <2>7, <2>8, <3>1, OneCode
  <2>10. AcceptedApart'
    <3>1. \A d \in Confirm \ {c} : confirm[d].accepted => confirm[d].code # code
      BY <2>5 DEF WasAccepted
    <3>2. \A k \in Keeper : keeper[k].accepted => keeper[k].code # code
      BY <2>5 DEF WasAccepted
    <3> QED
      BY <1>1, <2>4, <3>1, <3>2 DEF CodesKept, AcceptedApart
  <2>11. FactorPast(used)'
    <3>1. CASE code \in factor.recoveryCodes
      <4>1. /\ used.secret = factor.secret /\ used.lastStep = factor.lastStep
            /\ used.recoveryCodes = factor.recoveryCodes \ {code}
            /\ code \in RecoveryCode
        BY <2>1, <2>3, <3>1 DEF Used, Factor
      <4>2. code \notin AppCode
        BY <2>6, <4>1
      <4> QED
        BY <2>6, <2>7, <2>8, <4>1, <4>2 DEF FactorPast
    <3>2. CASE code \notin factor.recoveryCodes
      <4>1. code \in AppCode /\ code[1] = factor.secret /\ code[2] > factor.lastStep
        BY <2>1, <3>2 DEF Accepts, AppCodeAccepted
      <4>2. /\ used.secret = factor.secret /\ used.lastStep = code[2]
            /\ used.recoveryCodes = factor.recoveryCodes
            /\ factor.recoveryCodes \subseteq RecoveryCode
        BY <2>1, <2>3, <3>2, <4>1 DEF Used, StepTaken, Factor
      <4>3. \A other \in AppCode : other[2] \in Int
        BY <2>6 DEF AppCode
      <4>4. factor.lastStep \in Int
        BY <2>1, <2>6 DEF Factor
      <4>5. code \notin RecoveryCode
        BY <2>6, <4>1
      <4>6. \A other \in AppCode :
              (WasAccepted(other)' /\ other[1] = used.secret) => other[2] <= used.lastStep
        BY <2>6, <2>7, <4>1, <4>2, <4>3, <4>4 DEF FactorPast
      <4>7. /\ \A other \in used.recoveryCodes : ~ WasAccepted(other)'
            /\ \A k \in Keeper : ~ Enrolls(k)' => used.secret # k
            /\ \A k \in Keeper : keeper'[k].pc # "done" => k \notin used.recoveryCodes
        BY <2>6, <2>7, <2>8, <4>2, <4>5 DEF FactorPast
      <4> QED
        BY <4>6, <4>7 DEF FactorPast
    <3> QED
      BY <3>1, <3>2
  <2>12. FactorKnown'
    BY <2>3, <2>11 DEF FactorKnown, FactorPast
  <2> QED
    BY <2>9, <2>10, <2>12 DEF CodesKept
<1> QED
  BY <1>0, <1>2, <1>3, ConfirmUser

(* What a keeper may decide: to enroll where no factor is active, or to    *)
(* accept a code of the factor it read and mint one recovery code.         *)
AcceptsInto(k, code, factor, next) ==
  /\ factor \in Factor /\ code \in AppCode
  /\ code[1] = factor.secret /\ code[2] > factor.lastStep
  /\ next.secret = factor.secret
  /\ next.lastStep = code[2]
  /\ next.recoveryCodes = {k}
  /\ factor.confirmed => next.confirmed

LEMMA DecidedKinds ==
  ASSUME NEW k \in Keeper, NEW flow, NEW code, NEW factor,
         NEW next, next = Decided(k, flow, code, factor), next # None
  PROVE  \/ /\ flow = "enroll" /\ ~ isActive(factor)
            /\ next.secret = k /\ next.recoveryCodes = {}
         \/ flow # "enroll" /\ AcceptsInto(k, code, factor, next)
<1>1. CASE flow = "enroll" /\ ~ isActive(factor)
  <2>1. next = Enrolled(k)
    BY <1>1 DEF Decided
  <2> QED
    BY <1>1, <2>1 DEF Enrolled
<1>2. CASE /\ flow = "activate" /\ IsFactor(factor) /\ ~ isActive(factor)
           /\ AppCodeAccepted(factor, code)
  <2>1. next = Activated(factor, code, k)
    BY <1>2 DEF Decided
  <2>2. factor \in Factor
    BY <1>2 DEF IsFactor
  <2>3. /\ next.secret = factor.secret /\ next.lastStep = code[2]
        /\ next.recoveryCodes = {k} /\ next.confirmed
    BY <2>1, <2>2 DEF Activated, StepTaken, Factor
  <2> QED
    BY <1>2, <2>2, <2>3 DEF AcceptsInto, AppCodeAccepted
<1>3. CASE /\ flow = "regenerate" /\ isActive(factor)
           /\ AppCodeAccepted(factor, code)
  <2>1. next = Regenerated(factor, code, k)
    BY <1>3 DEF Decided
  <2>2. factor \in Factor
    BY <1>3 DEF isActive, IsFactor
  <2>3. /\ next.secret = factor.secret /\ next.lastStep = code[2]
        /\ next.recoveryCodes = {k} /\ next.confirmed = factor.confirmed
    BY <2>1, <2>2 DEF Regenerated, StepTaken, Factor
  <2> QED
    BY <1>3, <2>2, <2>3 DEF AcceptsInto, AppCodeAccepted
<1> QED
  BY <1>1, <1>2, <1>3 DEF Decided

(* A keeper that enrolls accepts no code, and its secret is one no code    *)
(* was accepted of.                                                        *)
LEMMA EnrollCodes ==
  ASSUME Base, CodesKept, NEW k \in Keeper, NEW next,
         keeper[k].pc = "write", keeper[k].flow = "enroll", ~ keeper[k].accepted,
         keeper'[k].pc = "done", keeper'[k].flow = "enroll", ~ keeper'[k].accepted,
         \A m \in Keeper \ {k} : keeper'[m] = keeper[m],
         confirm' = confirm, FactorNow' = next,
         next.secret = k, next.recoveryCodes = {}
  PROVE  CodesKept'
<1>1. \A code : WasAccepted(code)' <=> WasAccepted(code)
  BY DEF WasAccepted
<1>2. Enrolls(k)' /\ ~ Enrolls(k) /\ \A m \in Keeper : ~ Enrolls(m)' => ~ Enrolls(m)
  BY DEF Enrolls
<1>3. AcceptedKnown /\ AcceptedApart
  BY DEF CodesKept
<1>4. AcceptedKnown'
  BY <1>1, <1>2, <1>3 DEF AcceptedKnown
<1>5. AcceptedApart'
  BY <1>3 DEF AcceptedApart
<1>6. FactorPast(next)'
  <2>1. \A code \in AppCode : WasAccepted(code)' => code[1] # k
    BY <1>1, <1>2, <1>3 DEF AcceptedKnown
  <2>2. \A m \in Keeper : ~ Enrolls(m)' => m # k
    BY <1>2
  <2> QED
    BY <2>1, <2>2 DEF FactorPast
<1>7. FactorKnown'
  BY <1>6 DEF FactorKnown, FactorPast
<1> QED
  BY <1>4, <1>5, <1>7 DEF CodesKept

(* One that activates or regenerates accepts a code as a confirm does.     *)
LEMMA AcceptingCodes ==
  ASSUME Base, CodesKept, NEW k \in Keeper, NEW code, NEW next, NEW factor,
         keeper[k].pc = "write", ~ keeper[k].accepted,
         keeper'[k].pc = "done", keeper'[k].flow # "enroll",
         keeper'[k].accepted, keeper'[k].code = code,
         \A m \in Keeper \ {k} : keeper'[m] = keeper[m],
         confirm' = confirm, FactorNow = factor, FactorNow' = next,
         AcceptsInto(k, code, factor, next)
  PROVE  CodesKept'
<1>0. /\ factor \in Factor /\ code \in AppCode
      /\ code[1] = factor.secret /\ code[2] > factor.lastStep
      /\ next.secret = factor.secret /\ next.lastStep = code[2]
      /\ next.recoveryCodes = {k}
  BY DEF AcceptsInto
<1>1. /\ MaxStep \in Nat /\ AppCode \cap RecoveryCode = {} /\ k \in RecoveryCode
      /\ k # code /\ factor # None
  BY <1>0, PasswordSignInAssumption
<1>2. FactorNow \in Factor /\ Accepts(FactorNow, code)
  BY <1>0 DEF Accepts, AppCodeAccepted
<1>3. ~ WasAccepted(code)
  BY <1>2, AcceptedAnew
<1>4. \A other : WasAccepted(other)' <=> (WasAccepted(other) \/ other = code)
  BY DEF WasAccepted
<1>5. /\ \A m \in Keeper : Enrolls(m)' <=> Enrolls(m)
      /\ \A m \in Keeper : keeper[m].pc = "done" => keeper'[m].pc = "done"
  BY DEF Enrolls
<1>6. AcceptedKnown'
  BY <1>0, <1>2, <1>4, <1>5, OneCode
<1>7. AcceptedApart'
  <2>1. \A c \in Confirm : confirm[c].accepted => confirm[c].code # code
    BY <1>3 DEF WasAccepted
  <2>2. \A m \in Keeper \ {k} : keeper[m].accepted => keeper[m].code # code
    BY <1>3 DEF WasAccepted
  <2> QED
    BY <2>1, <2>2 DEF CodesKept, AcceptedApart
<1>8. FactorPast(factor) /\ AcceptedKnown
  BY <1>1 DEF CodesKept, FactorKnown
<1>9. FactorPast(next)'
  <2>1. \A other \in AppCode : other[2] \in Int
    BY <1>1 DEF AppCode
  <2>2. factor.lastStep \in Int
    BY <1>0, <1>1 DEF Factor
  <2>3. \A other \in AppCode :
          (WasAccepted(other)' /\ other[1] = next.secret) => other[2] <= next.lastStep
    BY <1>0, <1>4, <1>8, <2>1, <2>2 DEF FactorPast
  <2>4. \A other \in next.recoveryCodes : ~ WasAccepted(other)'
    <3>1. ~ WasAccepted(k)
      BY <1>8 DEF AcceptedKnown
    <3> QED
      BY <1>0, <1>1, <1>4, <3>1
  <2>5. /\ \A m \in Keeper : ~ Enrolls(m)' => next.secret # m
        /\ \A m \in Keeper : keeper'[m].pc # "done" => m \notin next.recoveryCodes
    BY <1>0, <1>5, <1>8 DEF FactorPast
  <2> QED
    BY <2>3, <2>4, <2>5 DEF FactorPast
<1>10. FactorKnown'
  BY <1>9 DEF FactorKnown, FactorPast
<1> QED
  BY <1>6, <1>7, <1>10 DEF CodesKept

LEMMA KeeperCodes ==
  ASSUME Base, Fresh, CodesKept, NEW k \in Keeper, KeeperNext(k)
  PROVE  CodesKept'
<1>0. KeeperFrame(k) /\ KeeperWrites(k) /\ KeeperShape(k) /\ KeeperFresh(k)
  BY KeeperSteps DEF KeeperEffects, Base, Shapes, Fresh
<1>1. /\ confirm' = confirm /\ \A m \in Keeper \ {k} : keeper'[m] = keeper[m]
      /\ keeper[k].pc \in {"idle", "write"} /\ ~ keeper[k].accepted
  BY <1>0 DEF KeeperFrame, KeeperShape
<1>2. CASE user' = user /\ ~ keeper'[k].accepted
           /\ keeper'[k].pc \in {"write", "refused", "failed"}
  <2>1. FactorNow' = FactorNow
    BY <1>2 DEF FactorNow
  <2>2. \A m \in Keeper : /\ keeper'[m].accepted <=> keeper[m].accepted
                          /\ keeper[m].accepted => keeper'[m].code = keeper[m].code
                          /\ keeper'[m].pc = "done" <=> keeper[m].pc = "done"
                          /\ keeper[m].pc = "done" => keeper'[m].flow = keeper[m].flow
    BY <1>1, <1>2
  <2> QED
    BY <1>1, <2>1, <2>2, QuietCodes
<1>3. CASE /\ keeper[k].pc = "write" /\ AtVersion(keeper[k].version)
           /\ user # None /\ user' \in UserRecord
           /\ user'.secondFactor = keeper[k].next /\ keeper[k].next \in Factor
           /\ keeper'[k].pc = "done" /\ keeper'[k].flow = keeper[k].flow
           /\ keeper'[k].code = keeper[k].code
           /\ keeper'[k].accepted <=> keeper[k].code # None
  <2>0. PICK next, factor, code, flow :
          /\ next = keeper[k].next /\ factor = user.secondFactor
          /\ code = keeper[k].code /\ flow = keeper[k].flow
    OBVIOUS
  <2>1. next = Decided(k, flow, code, factor) /\ next # None
    <3>1. next \in Factor
      BY <1>3, <2>0
    <3> QED
      BY <1>0, <1>3, <2>0, <3>1, PasswordSignInAssumption DEF KeeperFresh
  <2>2. FactorNow = factor /\ FactorNow' = next
    BY <1>3, <2>0, NoUserAssumption DEF FactorNow
  <2>3. flow = "enroll" <=> code = None
    BY <1>0, <1>3, <2>0 DEF KeeperShape
  <2>4. CASE /\ flow = "enroll" /\ ~ isActive(factor)
             /\ next.secret = k /\ next.recoveryCodes = {}
    <3>1. keeper[k].flow = "enroll" /\ keeper'[k].flow = "enroll" /\ ~ keeper'[k].accepted
      BY <1>3, <2>0, <2>3, <2>4
    <3> QED
      BY <1>1, <1>3, <2>2, <2>4, <3>1, EnrollCodes
  <2>5. CASE flow # "enroll" /\ AcceptsInto(k, code, factor, next)
    <3>1. keeper'[k].flow # "enroll" /\ keeper'[k].accepted /\ keeper'[k].code = code
      BY <1>3, <2>0, <2>3, <2>5
    <3> QED
      BY <1>1, <1>3, <2>2, <2>5, <3>1, AcceptingCodes
  <2> QED
    BY <2>1, <2>4, <2>5, DecidedKinds
<1> QED
  BY <1>0, <1>2, <1>3, KeeperUser

(* Whatever moves the user's factor and no code keeps it or drops it.      *)
LEMMA StepCodes ==
  ASSUME Base, Fresh, CodesKept, Next
  PROVE  CodesKept'
<1>1. ASSUME NEW s \in SignIn, SignInNext(s) PROVE CodesKept'
  <2>1. SignInFrame(s)
    BY <1>1, SignInSteps
  <2>2. confirm' = confirm /\ keeper' = keeper
    BY <2>1 DEF SignInFrame
  <2>3. FactorNow' \in {FactorNow, None}
    <3>1. CASE user' = user
      BY <3>1 DEF FactorNow
    <3>2. CASE user' # user
      <4>1. user' # None /\ user'.secondFactor = user.secondFactor /\ user # None
        BY <2>1, <3>2 DEF SignInFrame, UserMoves
      <4> QED
        BY <4>1 DEF FactorNow
    <3> QED
      BY <3>1, <3>2
  <2> QED
    BY <2>2, <2>3, QuietCodes
<1>2. ASSUME NEW w \in Writer, WriterNext(w) PROVE CodesKept'
  <2>1. WriterFrame(w) /\ WriterWrites(w)
    BY <1>2, WriterSteps DEF WriterEffects
  <2>2. confirm' = confirm /\ keeper' = keeper
    BY <2>1 DEF WriterFrame
  <2>3. user' = user \/ (user # None /\ user'.secondFactor \in {user.secondFactor, None})
    BY <2>1, WriterUser
  <2>4. FactorNow' \in {FactorNow, None}
    BY <2>3 DEF FactorNow
  <2> QED
    BY <2>2, <2>4, QuietCodes
<1>3. ASSUME NEW l \in Link, LinkNext(l) PROVE CodesKept'
  <2>1. user' = user /\ confirm' = confirm /\ keeper' = keeper
    BY <1>3, LinkSteps DEF LinkEffects
  <2>2. FactorNow' = FactorNow
    BY <2>1 DEF FactorNow
  <2> QED
    BY <2>1, <2>2, QuietCodes
<1>4. ASSUME BesideNext PROVE CodesKept'
  <2>1. BesideEffects
    BY <1>4, BesideSteps
  <2>2. confirm' = confirm /\ keeper' = keeper
    BY <2>1 DEF BesideEffects
  <2>3. user' # None => user # None /\ user'.secondFactor \in {user.secondFactor, None}
    BY <2>1 DEF BesideEffects
  <2>4. FactorNow' \in {FactorNow, None}
    BY <2>3 DEF FactorNow
  <2> QED
    BY <2>2, <2>4, QuietCodes
<1>5. ASSUME NEW c \in Confirm, ConfirmNext(c) PROVE CodesKept'
  BY <1>5, ConfirmCodes
<1>6. ASSUME NEW k \in Keeper, KeeperNext(k) PROVE CodesKept'
  BY <1>6, KeeperCodes
<1> QED
  BY <1>1, <1>2, <1>3, <1>4, <1>5, <1>6, StepKinds

(* Of the confirms that open a session, no two opened the same challenge.  *)
OpensApart ==
  \A c, d \in Confirm :
    (/\ confirm[c].pc \in {"open", "signedIn"} /\ confirm[d].pc \in {"open", "signedIn"}
     /\ confirm[c].challenge = confirm[d].challenge) => c = d

(* One that spends a challenge finds it unspent; another that opened it    *)
(* had spent it.                                                           *)
LEMMA ConfirmOpensApart ==
  ASSUME Base, OpensApart, NEW c \in Confirm, ConfirmNext(c)
  PROVE  OpensApart'
<1>0. ConfirmFrame(c) /\ ConfirmOpens(c)
  BY ConfirmSteps DEF ConfirmEffects
<1>1. \A d \in Confirm \ {c} : confirm'[d] = confirm[d]
  BY <1>0 DEF ConfirmFrame
<1>2. \A d \in Confirm : ConfirmShape(d)
  BY DEF Base, Shapes
<1>3. ASSUME NEW d \in Confirm \ {c}, confirm'[c].pc \in {"open", "signedIn"},
             confirm[d].pc \in {"open", "signedIn"},
             confirm'[c].challenge = confirm[d].challenge
      PROVE  FALSE
  <2>1. confirm'[c].challenge = confirm[c].challenge
    BY <1>0, <1>3 DEF ConfirmOpens
  <2>2. CASE confirm[c].pc = "open"
    BY <1>3, <2>1, <2>2 DEF OpensApart
  <2>3. CASE confirm[c].pc = "spend" /\ Unspent(tokens[confirm[c].challenge])
    <3>1. ~ Unspent(tokens[confirm[d].challenge])
      BY <1>2, <1>3 DEF ConfirmShape
    <3> QED
      BY <1>3, <2>1, <2>3, <3>1
  <2> QED
    BY <1>0, <1>3, <2>2, <2>3 DEF ConfirmOpens
<1> SUFFICES ASSUME NEW d \in Confirm, NEW e \in Confirm,
                    confirm'[d].pc \in {"open", "signedIn"},
                    confirm'[e].pc \in {"open", "signedIn"},
                    confirm'[d].challenge = confirm'[e].challenge
             PROVE  d = e
  BY DEF OpensApart
<1>4. CASE d = c /\ e # c
  BY <1>1, <1>3, <1>4
<1>5. CASE d # c /\ e = c
  BY <1>1, <1>3, <1>5
<1>6. CASE d # c /\ e # c
  BY <1>1, <1>6 DEF OpensApart
<1> QED
  BY <1>4, <1>5, <1>6

LEMMA StepOpensApart ==
  ASSUME Base, OpensApart, Next
  PROVE  OpensApart'
<1>1. CASE \E c \in Confirm : ConfirmNext(c)
  BY <1>1, ConfirmOpensApart
<1>2. CASE confirm' = confirm
  BY <1>2 DEF OpensApart
<1>3. ASSUME ~ \E c \in Confirm : ConfirmNext(c) PROVE confirm' = confirm
  <2>1. ASSUME NEW s \in SignIn, SignInNext(s) PROVE confirm' = confirm
    BY <2>1, SignInSteps DEF SignInFrame
  <2>2. ASSUME NEW w \in Writer, WriterNext(w) PROVE confirm' = confirm
    BY <2>2, WriterSteps DEF WriterEffects, WriterFrame
  <2>3. ASSUME NEW l \in Link, LinkNext(l) PROVE confirm' = confirm
    BY <2>3, LinkSteps DEF LinkEffects
  <2>4. ASSUME NEW k \in Keeper, KeeperNext(k) PROVE confirm' = confirm
    BY <2>4, KeeperSteps DEF KeeperEffects, KeeperFrame
  <2>5. ASSUME BesideNext PROVE confirm' = confirm
    BY <2>5, BesideSteps DEF BesideEffects
  <2> QED
    BY <1>3, <2>1, <2>2, <2>3, <2>4, <2>5, StepKinds
<1> QED
  BY <1>1, <1>2, <1>3

CodesInv == FreshInv /\ CodesKept /\ OpensApart

LEMMA InitCodes == Init => CodesInv
<1> SUFFICES ASSUME Init PROVE CodesInv
  OBVIOUS
<1>1. FreshInv
  BY InitFresh
<1>2. /\ \A c \in Confirm : confirm[c] = NewConfirm
      /\ \A k \in Keeper : keeper[k] = NewKeeper
  BY DEF Init
<1>3. \A code : ~ WasAccepted(code)
  BY <1>2 DEF WasAccepted, NewConfirm, NewKeeper
<1>4. AcceptedKnown
  BY <1>3 DEF AcceptedKnown
<1>5. AcceptedApart /\ OpensApart
  BY <1>2 DEF AcceptedApart, OpensApart, NewConfirm, NewKeeper
<1>6. FactorKnown
  <2>1. PICK password \in Password, verified \in BOOLEAN, factor \in FirstFactors :
          user = [version |-> 1, active |-> TRUE, email |-> scene.email,
                  emailVerified |-> verified, password |-> password, stale |-> scene.stale,
                  secondFactor |-> factor]
    BY DEF Init
  <2>2. FactorNow \in {factor, None}
    BY <2>1 DEF FactorNow
  <2>3. CASE factor # None
    <3>1. PICK secret \in Secret \ Keeper :
            factor = [secret |-> secret, confirmed |-> TRUE, lastStep |-> 0,
                      recoveryCodes |-> RecoveryCode \ Keeper]
      BY <2>3 DEF FirstFactors
    <3>2. factor.secret \notin Keeper /\ factor.recoveryCodes \cap Keeper = {}
      BY <3>1
    <3>3. FactorPast(factor)
      BY <1>3, <3>2 DEF FactorPast
    <3> QED
      BY <2>2, <3>3 DEF FactorKnown
  <2> QED
    BY <2>2, <2>3 DEF FactorKnown
<1> QED
  BY <1>1, <1>4, <1>5, <1>6 DEF CodesInv, CodesKept

LEMMA StepCodesInv == CodesInv /\ [Next]_vars => CodesInv'
<1> SUFFICES ASSUME CodesInv, [Next]_vars PROVE CodesInv'
  OBVIOUS
<1>0. FreshInv /\ Base /\ Fresh /\ CodesKept /\ OpensApart
  BY DEF CodesInv, FreshInv
<1>1. FreshInv'
  BY <1>0, StepFreshInv
<1>2. CASE Next
  BY <1>0, <1>1, <1>2, StepCodes, StepOpensApart DEF CodesInv
<1>3. CASE UNCHANGED vars
  <2>1. confirm' = confirm /\ keeper' = keeper /\ user' = user
    BY <1>3 DEF vars
  <2>2. FactorNow' = FactorNow
    BY <2>1 DEF FactorNow
  <2>3. CodesKept'
    BY <1>0, <2>1, <2>2, QuietCodes
  <2>4. OpensApart'
    BY <1>0, <2>1 DEF OpensApart
  <2> QED
    BY <1>1, <2>3, <2>4 DEF CodesInv
<1> QED
  BY <1>2, <1>3

(* The calls that accepted a code are at most one.                         *)
LEMMA OneAccepts ==
  ASSUME AcceptedApart, NEW code
  PROVE  Cardinality(AcceptedFrom(code)) <= 1
<1>1. CASE AcceptedFrom(code) = {}
  BY <1>1, FS_EmptySet
<1>2. CASE AcceptedFrom(code) # {}
  <2>1. CASE \E c \in Confirm : confirm[c].accepted /\ confirm[c].code = code
    <3>1. PICK c \in Confirm : confirm[c].accepted /\ confirm[c].code = code
      BY <2>1
    <3>2. AcceptedFrom(code) = {c}
      BY <3>1 DEF AcceptedFrom, AcceptedApart
    <3>3. Cardinality({c}) = 1
      BY FS_Singleton
    <3> QED
      BY <3>2, <3>3
  <2>2. CASE \E k \in Keeper : keeper[k].accepted /\ keeper[k].code = code
    <3>1. PICK k \in Keeper : keeper[k].accepted /\ keeper[k].code = code
      BY <2>2
    <3>2. AcceptedFrom(code) = {k}
      BY <3>1 DEF AcceptedFrom, AcceptedApart
    <3>3. Cardinality({k}) = 1
      BY FS_Singleton
    <3> QED
      BY <3>2, <3>3
  <2> QED
    BY <1>2, <2>1, <2>2 DEF AcceptedFrom
<1> QED
  BY <1>1, <1>2

(* A code is accepted from one call at most, and a challenge opens one     *)
(* session (factor.ts, confirm and recover over a conditional write).      *)
THEOREM AcceptedOnce == Spec => []CodeAcceptedOnce
<1>1. CodesInv => CodeAcceptedOnce
  BY OneAccepts DEF CodesInv, CodesKept, CodeAcceptedOnce, OpensApart
<1> QED
  BY <1>1, InitCodes, StepCodesInv, PTL DEF Spec

-----------------------------------------------------------------------------
(* An active factor moves forward.                                         *)

LEMMA SameForward ==
  ASSUME NEW factor, isActive(factor)
  PROVE  MovesForward(factor, factor)
<1>1. factor \in Factor /\ factor.confirmed /\ MaxStep \in Nat
  BY PasswordSignInAssumption DEF isActive, IsFactor
<1>2. factor.lastStep \in Int
  BY <1>1 DEF Factor
<1> QED
  BY <1>1, <1>2 DEF MovesForward

LEMMA UsedForward ==
  ASSUME NEW factor, NEW code, isActive(factor), Accepts(factor, code)
  PROVE  MovesForward(factor, Used(factor, code))
<1>1. factor \in Factor /\ factor.confirmed /\ MaxStep \in Nat
  BY PasswordSignInAssumption DEF isActive, IsFactor
<1>2. factor.lastStep \in Int
  BY <1>1 DEF Factor
<1> DEFINE used == Used(factor, code)
<1>3. CASE code \in factor.recoveryCodes
  <2>1. /\ used.secret = factor.secret /\ used.confirmed = factor.confirmed
        /\ used.lastStep = factor.lastStep
        /\ used.recoveryCodes = factor.recoveryCodes \ {code}
    BY <1>1, <1>3 DEF Used, Factor
  <2> HIDE DEF used
  <2>2. MovesForward(factor, used)
    BY <1>1, <1>2, <2>1 DEF MovesForward
  <2> QED
    BY <2>2 DEF used
<1>4. CASE code \notin factor.recoveryCodes
  <2>1. code \in AppCode /\ code[2] > factor.lastStep
    BY <1>4 DEF Accepts, AppCodeAccepted
  <2>2. code[2] \in Int
    BY <1>1, <2>1 DEF AppCode
  <2>3. /\ used.secret = factor.secret /\ used.confirmed = factor.confirmed
        /\ used.lastStep = code[2] /\ used.recoveryCodes = factor.recoveryCodes
    BY <1>1, <1>4 DEF Used, StepTaken, Factor
  <2> HIDE DEF used
  <2>4. MovesForward(factor, used)
    BY <1>1, <1>2, <2>1, <2>2, <2>3 DEF MovesForward
  <2> QED
    BY <2>4 DEF used
<1> QED
  BY <1>3, <1>4

(* Every step that leaves the user a factor: a confirm writes the one it   *)
(* read as used, a keeper decided on the one it replaces, and the others   *)
(* keep it.                                                                *)
LEMMA StepForward ==
  ASSUME FreshInv, Next, user # None, user' # None,
         isActive(user.secondFactor), user'.secondFactor # None
  PROVE  MovesForward(user.secondFactor, user'.secondFactor)
<1>0. Base /\ Fresh
  BY DEF FreshInv
<1>1. CASE user'.secondFactor = user.secondFactor
  BY <1>1, SameForward
<1>2. ASSUME NEW c \in Confirm, ConfirmNext(c), user'.secondFactor # user.secondFactor
      PROVE  MovesForward(user.secondFactor, user'.secondFactor)
  <2>1. ConfirmWrites(c) /\ ConfirmShape(c) /\ ConfirmFresh(c)
    BY <1>0, <1>2, ConfirmSteps DEF ConfirmEffects, Base, Shapes, Fresh
  <2>2. /\ confirm[c].pc = "write" /\ AtVersion(confirm[c].version)
        /\ user'.secondFactor = Used(confirm[c].factor, confirm[c].code)
    BY <1>0, <1>2, <2>1, ConfirmUser
  <2>3. /\ user.secondFactor = confirm[c].factor
        /\ Accepts(confirm[c].factor, confirm[c].code)
    BY <2>1, <2>2 DEF ConfirmShape, ConfirmFresh
  <2>4. PICK factor, code : factor = confirm[c].factor /\ code = confirm[c].code
    OBVIOUS
  <2>5. isActive(factor) /\ Accepts(factor, code)
    BY <2>3, <2>4
  <2>6. MovesForward(factor, Used(factor, code))
    BY <2>5, UsedForward
  <2> QED
    BY <2>2, <2>3, <2>4, <2>6
<1>3. ASSUME NEW k \in Keeper, KeeperNext(k), user'.secondFactor # user.secondFactor
      PROVE  MovesForward(user.secondFactor, user'.secondFactor)
  <2>1. KeeperWrites(k) /\ KeeperFresh(k)
    BY <1>0, <1>3, KeeperSteps DEF KeeperEffects, Fresh
  <2>2. /\ keeper[k].pc = "write" /\ AtVersion(keeper[k].version)
        /\ user'.secondFactor = keeper[k].next /\ keeper'[k].pc = "done"
    BY <1>0, <1>3, <2>1, KeeperUser
  <2>3. PICK factor, next, code, flow :
          /\ factor = user.secondFactor /\ next = user'.secondFactor
          /\ code = keeper[k].code /\ flow = keeper[k].flow
    OBVIOUS
  <2>4. next = Decided(k, flow, code, factor) /\ next # None
    BY <2>1, <2>2, <2>3 DEF KeeperFresh
  <2>5. AcceptsInto(k, code, factor, next)
    BY <2>3, <2>4, DecidedKinds
  <2>6. factor.confirmed /\ MaxStep \in Nat
    BY <2>3, PasswordSignInAssumption DEF isActive
  <2>7. factor.lastStep \in Int /\ code[2] \in Int
    BY <2>5, <2>6 DEF AcceptsInto, Factor, AppCode
  <2>8. /\ next.secret = factor.secret /\ next.confirmed
        /\ next.lastStep >= factor.lastStep /\ next.recoveryCodes = {k}
    BY <2>5, <2>6, <2>7 DEF AcceptsInto
  <2> QED
    BY <2>2, <2>3, <2>8 DEF MovesForward
<1>4. ASSUME ~ \E c \in Confirm : ConfirmNext(c), ~ \E k \in Keeper : KeeperNext(k)
      PROVE  user'.secondFactor = user.secondFactor
  <2>1. ASSUME NEW s \in SignIn, SignInNext(s) PROVE user'.secondFactor = user.secondFactor
    <3>1. SignInFrame(s)
      BY <1>0, <2>1, SignInSteps
    <3> QED
      BY <3>1 DEF SignInFrame
  <2>2. ASSUME NEW w \in Writer, WriterNext(w) PROVE user'.secondFactor = user.secondFactor
    <3>1. WriterWrites(w)
      BY <1>0, <2>2, WriterSteps DEF WriterEffects
    <3>2. user' = user \/ user'.secondFactor \in {user.secondFactor, None}
      BY <1>0, <3>1, WriterUser
    <3> QED
      BY <3>2
  <2>3. ASSUME NEW l \in Link, LinkNext(l) PROVE user'.secondFactor = user.secondFactor
    BY <1>0, <2>3, LinkSteps DEF LinkEffects
  <2>4. ASSUME BesideNext PROVE user'.secondFactor = user.secondFactor
    BY <1>0, <2>4, BesideSteps DEF BesideEffects
  <2> QED
    BY <1>4, <2>1, <2>2, <2>3, <2>4, StepKinds
<1> QED
  BY <1>1, <1>2, <1>3, <1>4

(* While it is active a factor only moves forward: enroll, activate,       *)
(* regenerate, confirm and recover each write under the version of the     *)
(* factor they decided on.                                                 *)
THEOREM FactorForward == Spec => FactorMovesForward
<1>1. FreshInv /\ [Next]_vars =>
        [(/\ user # None /\ user' # None
          /\ isActive(user.secondFactor) /\ user'.secondFactor # None) =>
            MovesForward(user.secondFactor, user'.secondFactor)]_vars
  BY StepForward
<1> QED
  BY InitFresh, StepFreshInv, <1>1, PTL DEF Spec, FactorMovesForward

-----------------------------------------------------------------------------
(* What a password opened, once it is another one.                         *)

(* Every answered challenge that waits is of the password stored, or a     *)
(* call that wrote it has still to spend it, or the user is being deleted. *)
ChallengesHeld ==
  \A s \in SignIn :
    (signIn[s].pc = "answered" /\ Unspent(tokens[s])) =>
      \/ user # None /\ user.password = signIn[s].password
      \/ \E w \in Writer : EndsYet(w, "secondFactor")
      \/ deletion \in {"sessions", "tokens"}

(* A call that wrote the password spends every link asked for before.      *)
LinksSpent ==
  \A w \in Writer, l \in Link :
    (/\ writer[w].nth # 0 /\ link[l].since # 0 /\ link[l].since < writer[w].nth
     /\ Unspent(tokens[l])) => EndsYet(w, "resetPassword")

(* Once a reset or a first proof signed everyone out, a session is of a    *)
(* password written since.                                                 *)
SessionsEnded ==
  \A w \in Writer, s \in SignIn :
    (/\ writer[w].nth # 0 /\ writer[w].flow \in {"reset", "firstProof"}
     /\ writer[w].pc \in {"spend", "finish", "done"}
     /\ signIn[s].pc = "answered" /\ session[s] = "live") =>
       signIn[s].password \in WrittenSince(w)

HeldInv == Base /\ LastPasswordStays /\ ChallengesHeld /\ LinksSpent /\ SessionsEnded

LEMMA EvolvedUnspent ==
  ASSUME NEW before, NEW after, Evolved(before, after), Unspent(after)
  PROVE  Unspent(before)
BY DEF Evolved, Unspent

(* What no step of another's touches: the calls of the rest, and their     *)
(* tokens but to spend them.                                               *)
QuietStep ==
  /\ writer' = writer /\ written' = written
  /\ user' = user \/ (user # None /\ user' # None /\ user'.password = user.password)

(* The password stored is the last one written.                            *)
LEMMA StepPassword ==
  ASSUME Base, LastPasswordStays, Next
  PROVE  LastPasswordStays'
<1>1. ASSUME QuietStep PROVE LastPasswordStays'
  BY <1>1 DEF QuietStep, LastPasswordStays
<1>2. ASSUME NEW s \in SignIn, SignInNext(s) PROVE LastPasswordStays'
  <2>1. SignInFrame(s)
    BY <1>2, SignInSteps
  <2>2. QuietStep
    BY <2>1 DEF SignInFrame, UserMoves, QuietStep
  <2> QED
    BY <1>1, <2>2
<1>3. ASSUME NEW c \in Confirm, ConfirmNext(c) PROVE LastPasswordStays'
  <2>1. ConfirmFrame(c) /\ ConfirmWrites(c)
    BY <1>3, ConfirmSteps DEF ConfirmEffects
  <2>2. user' = user \/ (user # None /\ user' # None /\ user'.password = user.password)
    BY <2>1, ConfirmUser, NoUserAssumption
  <2>3. QuietStep
    BY <2>1, <2>2 DEF ConfirmFrame, QuietStep
  <2> QED
    BY <1>1, <2>3
<1>4. ASSUME NEW w \in Writer, WriterNext(w) PROVE LastPasswordStays'
  <2>1. WriterWrites(w)
    BY <1>4, WriterSteps DEF WriterEffects
  <2>2. \/ user' = user /\ written' = written
        \/ user'.password = written'[Len(written')]
    BY <2>1, WriterUser
  <2> QED
    BY <2>2 DEF LastPasswordStays
<1>5. ASSUME NEW l \in Link, LinkNext(l) PROVE LastPasswordStays'
  <2>1. LinkEffects(l)
    BY <1>5, LinkSteps
  <2> QED
    BY <1>1, <2>1 DEF LinkEffects, QuietStep
<1>6. ASSUME NEW k \in Keeper, KeeperNext(k) PROVE LastPasswordStays'
  <2>1. KeeperFrame(k) /\ KeeperWrites(k)
    BY <1>6, KeeperSteps DEF KeeperEffects
  <2>2. user' = user \/ (user # None /\ user' # None /\ user'.password = user.password)
    BY <2>1, KeeperUser, NoUserAssumption
  <2>3. QuietStep
    BY <2>1, <2>2 DEF KeeperFrame, QuietStep
  <2> QED
    BY <1>1, <2>3
<1>7. ASSUME BesideNext PROVE LastPasswordStays'
  <2>1. BesideEffects
    BY <1>7, BesideSteps
  <2> QED
    BY <2>1 DEF BesideEffects, LastPasswordStays
<1> QED
  BY <1>2, <1>3, <1>4, <1>5, <1>6, <1>7, StepKinds

(* One challenge of it: quiet steps leave it held.                         *)
ChallengeHeld(s) ==
  (signIn[s].pc = "answered" /\ Unspent(tokens[s])) =>
    \/ user # None /\ user.password = signIn[s].password
    \/ \E w \in Writer : EndsYet(w, "secondFactor")
    \/ deletion \in {"sessions", "tokens"}

LEMMA QuietHeld ==
  ASSUME NEW s \in SignIn, ChallengeHeld(s), QuietStep, deletion' = deletion,
         signIn'[s] = signIn[s], Unspent(tokens[s])' => Unspent(tokens[s])
  PROVE  ChallengeHeld(s)'
<1>1. \A w \in Writer : EndsYet(w, "secondFactor")' <=> EndsYet(w, "secondFactor")
  BY DEF QuietStep, EndsYet
<1>2. (user # None /\ user.password = signIn[s].password) =>
        (user' # None /\ user'.password = signIn'[s].password)
  BY DEF QuietStep
<1> QED
  BY <1>1, <1>2 DEF ChallengeHeld

(* A write of the password makes its caller the one to end the challenge;  *)
(* who was to end it still is, or ended it.                                *)
LEMMA WriterHeld ==
  ASSUME Base, NEW w \in Writer, WriterNext(w), NEW s \in SignIn, ChallengeHeld(s)
  PROVE  ChallengeHeld(s)'
<1>0. WriterFrame(w) /\ WriterWrites(w) /\ WriterEnds(w)
  BY WriterSteps DEF WriterEffects
<1>1. /\ signIn' = signIn /\ deletion' = deletion /\ TokensEvolve
      /\ \A v \in Writer \ {w} : writer'[v] = writer[v]
  BY <1>0 DEF WriterFrame
<1>2. s \in Hash /\ "secondFactor" \in Kind /\ tokens \in Store /\ UserId = {Holder}
  BY PasswordSignInAssumption, TypesHold DEF Base
<1> SUFFICES ASSUME signIn[s].pc = "answered", Unspent(tokens'[s])
             PROVE  \/ user' # None /\ user'.password = signIn[s].password
                    \/ \E v \in Writer : EndsYet(v, "secondFactor")'
                    \/ deletion \in {"sessions", "tokens"}
  BY <1>1 DEF ChallengeHeld
<1>3. Unspent(tokens[s])
  <2>1. Evolved(tokens[s], tokens'[s])
    BY <1>1, <1>2 DEF TokensEvolve
  <2> QED
    BY <2>1, EvolvedUnspent
<1>4. CASE user # None /\ user.password = signIn[s].password
  <2>1. CASE user' = user
    BY <1>4, <2>1
  <2>2. CASE /\ writer'[w].nth = Len(written) + 1
             /\ writer'[w].pc = AfterWrite(w) /\ writer'[w].toSpend = Kind
    <3>1. writer'[w].nth # 0
      <4>1. Len(written) \in Nat
        BY TypesHold DEF Base
      <4> QED
        BY <2>2, <4>1
    <3>2. writer'[w].pc \in {"revoke", "spend"}
      BY <2>2 DEF AfterWrite
    <3>3. EndsYet(w, "secondFactor")'
      BY <1>2, <2>2, <3>1, <3>2 DEF EndsYet
    <3> QED
      BY <3>3
  <2> QED
    BY <1>0, <2>1, <2>2 DEF WriterWrites
<1>5. ASSUME NEW v \in Writer, EndsYet(v, "secondFactor")
      PROVE  EndsYet(v, "secondFactor")'
  <2>1. CASE v # w
    BY <1>1, <1>5, <2>1 DEF EndsYet
  <2>2. CASE v = w
    <3>1. tokens' # spendUserTokens(tokens, Holder, "secondFactor", 0, {})
      <4>1. TokenShape(s) /\ s \in SignIn
        BY <1>2 DEF Base, Shapes
      <4>2. tokens[s] # None => tokens[s].userId = Holder /\ tokens[s].kind = "secondFactor"
        BY <1>2, <4>1 DEF TokenShape, Store, TokenRecord
      <4>3. ~ Unspent(spendUserTokens(tokens, Holder, "secondFactor", 0, {})[s])
        <5>1. 0 \in Nat /\ s \notin {}
          OBVIOUS
        <5> QED
          BY <1>2, <4>2, <5>1, SpendUserSpends
      <4> QED
        BY <4>3
    <3> QED
      BY <1>0, <1>2, <1>5, <2>2, <3>1 DEF WriterEnds
  <2> QED
    BY <2>1, <2>2
<1> QED
  BY <1>3, <1>4, <1>5 DEF ChallengeHeld

LEMMA StepHeld ==
  ASSUME Base, ChallengesHeld, Next
  PROVE  ChallengesHeld'
<1> SUFFICES ASSUME NEW s \in SignIn PROVE ChallengeHeld(s)'
  BY DEF ChallengesHeld, ChallengeHeld
<1>0. /\ ChallengeHeld(s) /\ s \in Hash /\ TypeOK /\ (user # None => user \in UserRecord)
      /\ \A l \in Link : s # l
  BY PasswordSignInAssumption, TypesHold DEF ChallengesHeld, ChallengeHeld, Base
<1>1. ASSUME TokensEvolve, Unspent(tokens'[s]) PROVE Unspent(tokens[s])
  <2>1. Evolved(tokens[s], tokens'[s])
    BY <1>0, <1>1 DEF TokensEvolve
  <2> QED
    BY <1>1, <2>1, EvolvedUnspent
<1>2. ASSUME NEW t \in SignIn, SignInNext(t) PROVE ChallengeHeld(s)'
  <2>1. SignInFrame(t) /\ SignInAnswers(t)
    BY <1>2, SignInSteps
  <2>2. CASE t = s
    <3>1. signIn'[s].pc = "answered" =>
            user' # None /\ user'.password = signIn'[s].password
      BY <2>1, <2>2 DEF SignInAnswers
    <3> QED
      BY <3>1 DEF ChallengeHeld
  <2>3. CASE t # s
    <3>1. QuietStep /\ deletion' = deletion
      BY <2>1 DEF SignInFrame, UserMoves, QuietStep
    <3>2. signIn'[s] = signIn[s] /\ tokens'[s] = tokens[s]
      BY <1>0, <2>1, <2>3 DEF SignInFrame, SignInMoves
    <3> QED
      BY <1>0, <3>1, <3>2, QuietHeld
  <2> QED
    BY <2>2, <2>3
<1>3. ASSUME NEW c \in Confirm, ConfirmNext(c) PROVE ChallengeHeld(s)'
  <2>1. ConfirmFrame(c) /\ ConfirmWrites(c)
    BY <1>3, ConfirmSteps DEF ConfirmEffects
  <2>2. user' = user \/ (user # None /\ user' # None /\ user'.password = user.password)
    BY <2>1, ConfirmUser, NoUserAssumption
  <2>3. QuietStep /\ deletion' = deletion /\ signIn' = signIn /\ TokensEvolve
    BY <2>1, <2>2 DEF ConfirmFrame, QuietStep
  <2> QED
    BY <1>0, <1>1, <2>3, QuietHeld
<1>4. ASSUME NEW w \in Writer, WriterNext(w) PROVE ChallengeHeld(s)'
  BY <1>0, <1>4, WriterHeld
<1>5. ASSUME NEW l \in Link, LinkNext(l) PROVE ChallengeHeld(s)'
  <2>1. LinkEffects(l)
    BY <1>5, LinkSteps
  <2>2. QuietStep /\ deletion' = deletion /\ signIn' = signIn
    BY <2>1 DEF LinkEffects, QuietStep
  <2>3. Evolved(tokens[s], tokens'[s])
    BY <1>0, <2>1 DEF LinkEffects
  <2>4. Unspent(tokens'[s]) => Unspent(tokens[s])
    BY <2>3, EvolvedUnspent
  <2> QED
    BY <1>0, <2>2, <2>4, QuietHeld
<1>6. ASSUME NEW k \in Keeper, KeeperNext(k) PROVE ChallengeHeld(s)'
  <2>1. KeeperFrame(k) /\ KeeperWrites(k)
    BY <1>6, KeeperSteps DEF KeeperEffects
  <2>2. user' = user \/ (user # None /\ user' # None /\ user'.password = user.password)
    BY <2>1, KeeperUser, NoUserAssumption
  <2>3. QuietStep /\ deletion' = deletion /\ signIn' = signIn /\ tokens' = tokens
    BY <2>1, <2>2 DEF KeeperFrame, QuietStep
  <2> QED
    BY <1>0, <2>3, QuietHeld
<1>7. ASSUME BesideNext PROVE ChallengeHeld(s)'
  <2>1. BesideEffects
    BY <1>7, BesideSteps
  <2>2. writer' = writer /\ signIn' = signIn /\ TokensEvolve
    BY <2>1 DEF BesideEffects
  <2> SUFFICES ASSUME signIn[s].pc = "answered", Unspent(tokens'[s])
               PROVE  \/ user' # None /\ user'.password = signIn[s].password
                      \/ \E v \in Writer : EndsYet(v, "secondFactor")
                      \/ deletion' \in {"sessions", "tokens"}
    BY <2>2 DEF ChallengeHeld, EndsYet
  <2>3. Unspent(tokens[s]) /\ tokens'[s] # None
    BY <1>1, <2>2 DEF Unspent
  <2>4. CASE user # None /\ user.password = signIn[s].password
    BY <2>1, <2>4 DEF BesideEffects
  <2>5. CASE deletion \in {"sessions", "tokens"}
    BY <1>0, <2>1, <2>3, <2>5 DEF BesideEffects
  <2> QED
    BY <1>0, <2>3, <2>4, <2>5 DEF ChallengeHeld
<1> QED
  BY <1>2, <1>3, <1>4, <1>5, <1>6, <1>7, StepKinds

(* A link of it.                                                           *)
LinkSpent(w, l) ==
  (/\ writer[w].nth # 0 /\ link[l].since # 0 /\ link[l].since < writer[w].nth
   /\ Unspent(tokens[l])) => EndsYet(w, "resetPassword")

LEMMA QuietLink ==
  ASSUME NEW w \in Writer, NEW l \in Link, LinkSpent(w, l), writer'[w] = writer[w],
         link'[l].since = link[l].since, Unspent(tokens'[l]) => Unspent(tokens[l])
  PROVE  LinkSpent(w, l)'
BY DEF LinkSpent, EndsYet

LEMMA StepLinks ==
  ASSUME Base, LinksSpent, Next
  PROVE  LinksSpent'
<1> SUFFICES ASSUME NEW w \in Writer, NEW l \in Link PROVE LinkSpent(w, l)'
  BY DEF LinksSpent, LinkSpent
<1>0. /\ LinkSpent(w, l) /\ l \in Hash /\ tokens \in Store
      /\ \A s \in SignIn : s # l
  BY PasswordSignInAssumption, TypesHold DEF LinksSpent, LinkSpent, Base
<1>1. ASSUME TokensEvolve, Unspent(tokens'[l]) PROVE Unspent(tokens[l])
  <2>1. Evolved(tokens[l], tokens'[l])
    BY <1>0, <1>1 DEF TokensEvolve
  <2> QED
    BY <1>1, <2>1, EvolvedUnspent
<1>2. ASSUME NEW s \in SignIn, SignInNext(s) PROVE LinkSpent(w, l)'
  <2>1. SignInFrame(s)
    BY <1>2, SignInSteps
  <2>2. writer' = writer /\ link' = link /\ tokens'[l] = tokens[l]
    BY <1>0, <2>1 DEF SignInFrame
  <2> QED
    BY <1>0, <2>2, QuietLink
<1>3. ASSUME NEW c \in Confirm, ConfirmNext(c) PROVE LinkSpent(w, l)'
  <2>1. writer' = writer /\ link' = link /\ TokensEvolve
    BY <1>3, ConfirmSteps DEF ConfirmEffects, ConfirmFrame
  <2> QED
    BY <1>0, <1>1, <2>1, QuietLink
<1>4. ASSUME NEW v \in Writer, WriterNext(v) PROVE LinkSpent(w, l)'
  <2>1. WriterFrame(v) /\ WriterWrites(v) /\ WriterEnds(v)
    BY <1>4, WriterSteps DEF WriterEffects
  <2>2. link' = link /\ TokensEvolve /\ \A x \in Writer \ {v} : writer'[x] = writer[x]
    BY <2>1 DEF WriterFrame
  <2>3. CASE v # w
    BY <1>0, <1>1, <2>2, <2>3, QuietLink
  <2>4. CASE v = w /\ writer'[w].nth = writer[w].nth
    <3> SUFFICES ASSUME writer[w].nth # 0, link[l].since # 0,
                        link[l].since < writer[w].nth, Unspent(tokens'[l])
                 PROVE  EndsYet(w, "resetPassword")'
      BY <2>2, <2>4 DEF LinkSpent
    <3>1. EndsYet(w, "resetPassword")
      BY <1>0, <1>1, <2>2 DEF LinkSpent
    <3>2. tokens' # spendUserTokens(tokens, Holder, "resetPassword", 0, {})
      <4>1. TokenShape(l) /\ l \notin SignIn /\ UserId = {Holder}
        BY <1>0, PasswordSignInAssumption DEF Base, Shapes
      <4>2. tokens[l] # None => tokens[l].userId = Holder /\ tokens[l].kind = "resetPassword"
        BY <1>0, <4>1 DEF TokenShape, Store, TokenRecord
      <4>3. 0 \in Nat /\ l \notin {}
        OBVIOUS
      <4>4. ~ Unspent(spendUserTokens(tokens, Holder, "resetPassword", 0, {})[l])
        BY <1>0, <4>2, <4>3, SpendUserSpends
      <4> QED
        BY <4>4
    <3>3. "resetPassword" \in Kind
      BY PasswordSignInAssumption
    <3> QED
      BY <2>1, <2>4, <3>1, <3>2, <3>3 DEF WriterEnds
  <2>5. CASE /\ v = w /\ writer'[w].nth = Len(written) + 1
             /\ writer'[w].pc = AfterWrite(w) /\ writer'[w].toSpend = Kind
    <3>1. writer'[w].nth # 0
      <4>1. Len(written) \in Nat
        BY TypesHold DEF Base
      <4> QED
        BY <2>5, <4>1
    <3>2. "resetPassword" \in Kind
      BY PasswordSignInAssumption
    <3>3. writer'[w].pc \in {"revoke", "spend"}
      BY <2>5 DEF AfterWrite
    <3>4. EndsYet(w, "resetPassword")'
      BY <2>5, <3>1, <3>2, <3>3 DEF EndsYet
    <3> QED
      BY <3>4 DEF LinkSpent
  <2> QED
    BY <2>1, <2>3, <2>4, <2>5 DEF WriterWrites
<1>5. ASSUME NEW m \in Link, LinkNext(m) PROVE LinkSpent(w, l)'
  <2>1. LinkEffects(m) /\ WriterShape(w)
    BY <1>5, LinkSteps DEF Base, Shapes
  <2>2. writer' = writer /\ \A x \in Link \ {m} : link'[x] = link[x]
    BY <2>1 DEF LinkEffects
  <2>3. CASE link'[l].since = link[l].since /\ Evolved(tokens[l], tokens'[l])
    <3>1. Unspent(tokens'[l]) => Unspent(tokens[l])
      BY <2>3, EvolvedUnspent
    <3> QED
      BY <1>0, <2>2, <2>3, <3>1, QuietLink
  <2>4. CASE link'[l].since = Len(written)
    <3>1. writer[w].nth <= Len(written) /\ writer[w].nth \in Nat /\ Len(written) \in Nat
      BY <2>1, WriterTyped DEF WriterShape
    <3>2. ~ (link'[l].since < writer'[w].nth)
      BY <2>2, <2>4, <3>1
    <3> QED
      BY <3>2 DEF LinkSpent
  <2>5. CASE l # m
    <3>1. link'[l] = link[l] /\ Evolved(tokens[l], tokens'[l])
      BY <1>0, <2>1, <2>2, <2>5 DEF LinkEffects
    <3> QED
      BY <2>3, <3>1
  <2>6. CASE l = m
    BY <2>1, <2>3, <2>4, <2>6 DEF LinkEffects
  <2> QED
    BY <2>5, <2>6
<1>6. ASSUME NEW k \in Keeper, KeeperNext(k) PROVE LinkSpent(w, l)'
  <2>1. writer' = writer /\ link' = link /\ tokens' = tokens
    BY <1>6, KeeperSteps DEF KeeperEffects, KeeperFrame
  <2> QED
    BY <1>0, <2>1, QuietLink
<1>7. ASSUME BesideNext PROVE LinkSpent(w, l)'
  <2>1. writer' = writer /\ link' = link /\ TokensEvolve
    BY <1>7, BesideSteps DEF BesideEffects
  <2> QED
    BY <1>0, <1>1, <2>1, QuietLink
<1> QED
  BY <1>2, <1>3, <1>4, <1>5, <1>6, <1>7, StepKinds

(* A session of it.                                                        *)
SessionEnded(w, s) ==
  (/\ writer[w].nth # 0 /\ writer[w].flow \in {"reset", "firstProof"}
   /\ writer[w].pc \in {"spend", "finish", "done"}
   /\ signIn[s].pc = "answered" /\ session[s] = "live") =>
     signIn[s].password \in WrittenSince(w)

(* What was written since a call's own stays written since.                *)
LEMMA SinceGrows ==
  ASSUME TypeOK, NEW nth \in Nat \ {0}, NEW password \in Password \cup {None},
         NEW i \in nth..Len(written)
  PROVE  /\ Append(written, password)[i] = written[i]
         /\ i \in nth..Len(Append(written, password))
<1>1. written \in Seq(Password \cup {None}) /\ Len(written) \in Nat
  BY TypesHold DEF TypeOK
<1>2. i \in 1..Len(written)
  BY <1>1
<1> QED
  BY <1>1, <1>2

LEMMA QuietSession ==
  ASSUME NEW w \in Writer, NEW s \in SignIn, SessionEnded(w, s), writer'[w] = writer[w],
         written' = written, signIn'[s] = signIn[s], session'[s] = "live" => session[s] = "live"
  PROVE  SessionEnded(w, s)'
<1>1. WrittenSince(w)' = WrittenSince(w)
  BY DEF WrittenSince
<1> QED
  BY <1>1 DEF SessionEnded

LEMMA StepSessions ==
  ASSUME Base, LastPasswordStays, SessionsEnded, Next
  PROVE  SessionsEnded'
<1> SUFFICES ASSUME NEW w \in Writer, NEW s \in SignIn PROVE SessionEnded(w, s)'
  BY DEF SessionsEnded, SessionEnded
<1>0. /\ SessionEnded(w, s) /\ s \in Caller /\ TypeOK
      /\ \A c \in Confirm \cup Writer : s # c
  BY PasswordSignInAssumption DEF SessionsEnded, SessionEnded, Base, Caller
<1>1. /\ WriterShape(w) /\ writer[w].nth \in Nat /\ Len(written) \in Nat
      /\ writer[w].nth <= Len(written)
  BY WriterTyped DEF WriterShape
<1>2. ASSUME NEW t \in SignIn, SignInNext(t) PROVE SessionEnded(w, s)'
  <2>1. SignInFrame(t) /\ SignInAnswers(t)
    BY <1>2, SignInSteps
  <2>2. writer' = writer /\ written' = written
    BY <2>1 DEF SignInFrame
  <2>3. CASE t = s
    <3> SUFFICES ASSUME writer[w].nth # 0, signIn'[s].pc = "answered"
                 PROVE  signIn'[s].password \in WrittenSince(w)'
      BY <2>2 DEF SessionEnded
    <3>1. signIn'[s].password = written[Len(written)]
      BY <2>1, <2>3 DEF SignInAnswers, LastPasswordStays
    <3>2. Len(written) \in writer[w].nth..Len(written)
      BY <1>1
    <3> QED
      BY <2>2, <3>1, <3>2 DEF WrittenSince
  <2>4. CASE t # s
    <3>1. signIn'[s] = signIn[s] /\ session'[s] = session[s]
      BY <1>0, <2>1, <2>4 DEF SignInFrame, SignInMoves
    <3> QED
      BY <1>0, <2>2, <3>1, QuietSession
  <2> QED
    BY <2>3, <2>4
<1>3. ASSUME NEW c \in Confirm, ConfirmNext(c) PROVE SessionEnded(w, s)'
  <2>1. ConfirmFrame(c)
    BY <1>3, ConfirmSteps DEF ConfirmEffects
  <2>2. writer' = writer /\ written' = written /\ signIn' = signIn /\ session'[s] = session[s]
    BY <1>0, <2>1 DEF ConfirmFrame
  <2> QED
    BY <1>0, <2>2, QuietSession
<1>4. ASSUME NEW v \in Writer, WriterNext(v) PROVE SessionEnded(w, s)'
  <2>1. WriterFrame(v) /\ WriterWrites(v) /\ WriterSignsOut(v)
    BY <1>4, WriterSteps DEF WriterEffects
  <2>2. /\ signIn' = signIn /\ \A x \in Writer \ {v} : writer'[x] = writer[x]
        /\ session'[s] = "live" => session[s] = "live"
    BY <1>0, <2>1 DEF WriterFrame
  <2>3. ASSUME writer'[w].nth = writer[w].nth, writer[w].nth # 0
        PROVE  WrittenSince(w) \subseteq WrittenSince(w)'
    <3>1. CASE written' = written
      BY <2>3, <3>1 DEF WrittenSince
    <3>2. CASE written' = Append(written, writer[v].next)
      <4>1. writer[v].next \in Password \cup {None}
        BY WriterTyped DEF WriterCall
      <4>2. \A i \in writer[w].nth..Len(written) :
              written'[i] = written[i] /\ i \in writer[w].nth..Len(written')
        BY <1>0, <1>1, <2>3, <3>2, <4>1, SinceGrows
      <4> QED
        BY <2>3, <4>2 DEF WrittenSince
    <3> QED
      BY <2>1, <3>1, <3>2 DEF WriterWrites
  <2>4. CASE v # w
    <3>1. writer'[w] = writer[w]
      BY <2>2, <2>4
    <3> QED
      BY <1>0, <2>2, <2>3, <3>1 DEF SessionEnded
  <2>5. CASE v = w
    <3> SUFFICES ASSUME writer'[w].nth # 0, writer'[w].flow \in {"reset", "firstProof"},
                        writer'[w].pc \in {"spend", "finish", "done"},
                        signIn[s].pc = "answered", session'[s] = "live"
                 PROVE  signIn[s].password \in WrittenSince(w)'
      BY <2>2 DEF SessionEnded
    <3>1. /\ writer[w].nth = writer'[w].nth /\ writer[w].flow = writer'[w].flow
          /\ writer[w].pc \in {"spend", "finish"}
      BY <1>0, <2>1, <2>5 DEF WriterSignsOut
    <3>2. signIn[s].password \in WrittenSince(w)
      BY <1>0, <2>2, <3>1 DEF SessionEnded
    <3> QED
      BY <2>3, <3>1, <3>2
  <2> QED
    BY <2>4, <2>5
<1>5. ASSUME NEW l \in Link, LinkNext(l) PROVE SessionEnded(w, s)'
  <2>1. writer' = writer /\ written' = written /\ signIn' = signIn /\ session' = session
    BY <1>5, LinkSteps DEF LinkEffects
  <2> QED
    BY <1>0, <2>1, QuietSession
<1>6. ASSUME NEW k \in Keeper, KeeperNext(k) PROVE SessionEnded(w, s)'
  <2>1. writer' = writer /\ written' = written /\ signIn' = signIn /\ session' = session
    BY <1>6, KeeperSteps DEF KeeperEffects, KeeperFrame
  <2> QED
    BY <1>0, <2>1, QuietSession
<1>7. ASSUME BesideNext PROVE SessionEnded(w, s)'
  <2>1. /\ writer' = writer /\ written' = written /\ signIn' = signIn
        /\ session'[s] = "live" => session[s] = "live"
    BY <1>0, <1>7, BesideSteps DEF BesideEffects
  <2> QED
    BY <1>0, <2>1, QuietSession
<1> QED
  BY <1>2, <1>3, <1>4, <1>5, <1>6, <1>7, StepKinds

LEMMA InitHeld == Init => HeldInv
<1> SUFFICES ASSUME Init PROVE HeldInv
  OBVIOUS
<1>1. Base
  BY InitBase
<1>2. LastPasswordStays
  <2>1. PICK password \in Password, verified \in BOOLEAN, factor \in FirstFactors :
          /\ user = [version |-> 1, active |-> TRUE, email |-> scene.email,
                     emailVerified |-> verified, password |-> password, stale |-> scene.stale,
                     secondFactor |-> factor]
          /\ written = <<password>>
    BY DEF Init
  <2>2. user.password = password /\ Len(written) = 1 /\ written[1] = password
    BY <2>1
  <2> QED
    BY <2>2 DEF LastPasswordStays
<1>3. /\ \A s \in SignIn : signIn[s] = NewSignIn
      /\ \A w \in Writer : writer[w] = NewWriter
  BY DEF Init
<1>4. ChallengesHeld
  BY <1>3 DEF ChallengesHeld, NewSignIn
<1>5. LinksSpent /\ SessionsEnded
  BY <1>3 DEF LinksSpent, SessionsEnded, NewWriter
<1> QED
  BY <1>1, <1>2, <1>4, <1>5 DEF HeldInv

LEMMA StepHeldInv == HeldInv /\ [Next]_vars => HeldInv'
<1> SUFFICES ASSUME HeldInv, [Next]_vars PROVE HeldInv'
  OBVIOUS
<1>0. Base /\ LastPasswordStays /\ ChallengesHeld /\ LinksSpent /\ SessionsEnded
  BY DEF HeldInv
<1>1. Base'
  BY <1>0, StepBase
<1>2. CASE Next
  BY <1>0, <1>1, <1>2, StepPassword, StepHeld, StepLinks, StepSessions DEF HeldInv
<1>3. CASE UNCHANGED vars
  <2>1. /\ user' = user /\ deletion' = deletion /\ tokens' = tokens /\ session' = session
        /\ signIn' = signIn /\ writer' = writer /\ link' = link /\ written' = written
    BY <1>3 DEF vars
  <2>2. LastPasswordStays'
    BY <1>0, <2>1 DEF LastPasswordStays
  <2>3. ChallengesHeld'
    BY <1>0, <2>1 DEF ChallengesHeld, EndsYet
  <2>4. LinksSpent'
    BY <1>0, <2>1 DEF LinksSpent, EndsYet
  <2>5. SessionsEnded'
    BY <1>0, <2>1 DEF SessionsEnded, WrittenSince
  <2> QED
    BY <1>1, <2>2, <2>3, <2>4, <2>5 DEF HeldInv
<1> QED
  BY <1>2, <1>3

(* No write of the password is lost: the one stored is the last one a call *)
(* answered that it wrote (writeUser and rehashed, under the version they  *)
(* read).                                                                  *)
THEOREM NoPasswordLost == Spec => []LastPasswordStays
<1>1. HeldInv => LastPasswordStays
  BY DEF HeldInv
<1> QED
  BY <1>1, InitHeld, StepHeldInv, PTL DEF Spec

(* A challenge answered is of the password stored, once every call that    *)
(* wrote it ended and spent the challenges, whatever became of the links;  *)
(* and a sign-in refused leaves nothing open (heldByPassword,              *)
(* endWhatThePasswordOpened).                                              *)
THEOREM HeldByThePassword == Spec => []ChallengeHeldByPassword
<1>1. HeldInv => ChallengeHeldByPassword
  <2> SUFFICES ASSUME HeldInv PROVE ChallengeHeldByPassword
    OBVIOUS
  <2>1. \A w \in Writer : EndsYet(w, "secondFactor") =>
                            writer[w].nth # 0 /\ ~ Ended(w, "secondFactor")
    BY DEF EndsYet, Ended
  <2>2. ChallengesHeld /\ \A s \in SignIn : SignInShape(s)
    BY DEF HeldInv, Base, Shapes
  <2> QED
    BY <2>1, <2>2 DEF ChallengesHeld, SignInShape, ChallengeHeldByPassword
<1> QED
  BY <1>1, InitHeld, StepHeldInv, PTL DEF Spec

(* Once a write of the password answered, every link asked for before it   *)
(* is spent, and so it is when the spend of the challenges failed          *)
(* (password-written.ts).                                                  *)
THEOREM LinksBeforeSpent == Spec => []OlderLinksSpent
<1>1. HeldInv => OlderLinksSpent
  BY DEF HeldInv, LinksSpent, EndsYet, Ended, OlderLinksSpent
<1> QED
  BY <1>1, InitHeld, StepHeldInv, PTL DEF Spec

(* Once a reset or a first proof answered, whoever had the old password is *)
(* signed out (confirm-reset.ts, first-proof.ts).                          *)
THEOREM SignedOut == Spec => []ResetSignsOut
<1>1. HeldInv => ResetSignsOut
  <2> SUFFICES ASSUME HeldInv, NEW w \in Writer, NEW s \in SignIn, SignsOut(w),
                      signIn[s].pc = "answered", session[s] = "live"
               PROVE  signIn[s].password \in WrittenSince(w)
    BY DEF ResetSignsOut
  <2>1. WriterShape(w) /\ SessionsEnded
    BY DEF HeldInv, Base, Shapes
  <2>2. writer[w].nth # 0
    BY <2>1 DEF WriterShape, SignsOut
  <2> QED
    BY <2>1, <2>2 DEF SessionsEnded, SignsOut
<1> QED
  BY <1>1, InitHeld, StepHeldInv, PTL DEF Spec

=============================================================================
