------------------------ MODULE OneTimeTokensProofs ------------------------
(***************************************************************************)
(* Theorems about OneTimeTokens for any number of secrets, users and       *)
(* overlapping calls, and any CODE_ATTEMPTS and lifetime.                  *)
(***************************************************************************)
EXTENDS OneTimeTokens, TLAPS, FunctionTheorems, FiniteSetTheorems

-----------------------------------------------------------------------------
(* The methods of the token store.                                         *)

(* consumeToken keeps the store a store, and every record evolves.         *)
LEMMA ConsumeEvolves ==
  ASSUME NEW store \in Store, NEW hash \in Hash, NEW kind, NEW at \in Nat
  PROVE  /\ consumeToken(store, hash, kind, at) \in Store
         /\ \A h \in Hash : Evolved(store[h], consumeToken(store, hash, kind, at)[h])
  BY TokenStoreAssumption
  DEF consumeToken, Answer, Unspent, Evolved, Store, TokenRecord

(* countAttempt keeps the store a store, and every record evolves.         *)
LEMMA CountEvolves ==
  ASSUME NEW store \in Store, NEW hash \in Hash, NEW kind
  PROVE  /\ countAttempt(store, hash, kind) \in Store
         /\ \A h \in Hash : Evolved(store[h], countAttempt(store, hash, kind)[h])
  BY TokenStoreAssumption
  DEF countAttempt, Answer, Unspent, Evolved, Store, TokenRecord

(* spendUserTokens keeps the store a store, and every record evolves.      *)
LEMMA SpendUserEvolves ==
  ASSUME NEW store \in Store, NEW userId, NEW kind, NEW at \in Nat, NEW except
  PROVE  /\ spendUserTokens(store, userId, kind, at, except) \in Store
         /\ \A h \in Hash :
              Evolved(store[h], spendUserTokens(store, userId, kind, at, except)[h])
  BY TokenStoreAssumption
  DEF spendUserTokens, Unspent, Evolved, Store, TokenRecord

(* Both deletions keep the store a store, and every record evolves.        *)
LEMMA DeleteEvolves ==
  ASSUME NEW store \in Store, NEW userId, NEW before
  PROVE  /\ deleteUserTokens(store, userId) \in Store
         /\ \A h \in Hash : Evolved(store[h], deleteUserTokens(store, userId)[h])
         /\ deleteExpiredTokens(store, before) \in Store
         /\ \A h \in Hash : Evolved(store[h], deleteExpiredTokens(store, before)[h])
  BY TokenStoreAssumption
  DEF deleteUserTokens, deleteExpiredTokens, Evolved, Store, TokenRecord

(* insertToken changes nothing but the hash it was given, and only when    *)
(* nothing was stored there.                                               *)
LEMMA InsertKeepsOthers ==
  ASSUME NEW store \in Store, NEW hash \in Hash, NEW record \in TokenRecord
  PROVE  /\ insertToken(store, hash, record) \in Store
         /\ \A h \in Hash \ {hash} : insertToken(store, hash, record)[h] = store[h]
         /\ insertToken(store, hash, record)[hash] =
              IF store[hash] = None THEN record ELSE store[hash]
  BY DEF insertToken, Store

(* consumeToken leaves no unspent token of its kind under its hash.        *)
LEMMA ConsumeSpends ==
  ASSUME NEW store \in Store, NEW hash \in Hash, NEW kind, NEW at \in Nat,
         store[hash] # None => store[hash].kind = kind
  PROVE  ~ Unspent(consumeToken(store, hash, kind, at)[hash])
<1>1. at # None
  BY TokenStoreAssumption
<1>2. CASE Unspent(store[hash])
  <2>1. store[hash] \in TokenRecord /\ Answer(store, hash, kind) = store[hash]
    BY <1>2 DEF Answer, Unspent, Store
  <2>2. consumeToken(store, hash, kind, at) = [store EXCEPT ![hash].spentAt = at]
    BY <1>2, <2>1 DEF consumeToken
  <2>3. consumeToken(store, hash, kind, at)[hash].spentAt = at
    BY <2>1, <2>2 DEF Store, TokenRecord
  <2> QED
    BY <1>1, <2>3 DEF Unspent
<1>3. CASE ~ Unspent(store[hash])
  <2>1. ~ Unspent(Answer(store, hash, kind))
    BY <1>3 DEF Answer, Unspent
  <2> QED
    BY <1>3, <2>1 DEF consumeToken
<1> QED
  BY <1>2, <1>3

-----------------------------------------------------------------------------
(* The inductive invariant.                                                *)

IInv == /\ TypeOK /\ Bookkeeping /\ RedeemedOnce /\ OneLiveSecretSent

LEMMA InitIInv == Init => IInv
<1> SUFFICES ASSUME Init PROVE IInv
  OBVIOUS
<1>1. users \in [UserId -> User]
  BY DEF Init
<1>2. users \in [UserId -> User \cup {None}]
  BY <1>1
<1>3. TypeOK
  <2>1. send \in [Hash -> SendCall]
    BY DEF Init, SendCall
  <2>2. confirm \in [Confirm -> ConfirmCall]
    BY DEF Init, ConfirmCall
  <2>3. now \in 0..MaxTime /\ tokens \in Store
    BY OneTimeAssumption DEF Init, Store
  <2>4. deletion \in [UserId -> {"no", "tokens", "done"}]
    BY DEF Init
  <2> QED
    BY <1>2, <2>1, <2>2, <2>3, <2>4 DEF TypeOK
<1> USE TokenStoreAssumption, OneTimeAssumption DEF Init
<1>4. Bookkeeping
  BY DEF Bookkeeping, SendsKnown, SendKnown, ConfirmsKnown, ConfirmKnown, CountsDistinct,
         Guessing
<1>5. RedeemedOnce /\ OneLiveSecretSent
  BY DEF RedeemedOnce, OneLiveSecretSent
<1> QED
  BY <1>3, <1>4, <1>5 DEF IInv

-----------------------------------------------------------------------------
(* How the store moves in every step but IssueOneTime.                     *)
TokensEvolve ==
  /\ tokens' \in Store
  /\ \A h \in Hash : Evolved(tokens[h], tokens'[h])

(* A step that leaves the sends alone keeps what is known of them, and     *)
(* makes no secret live.                                                   *)
LEMMA SendsKept ==
  ASSUME TypeOK, SendsKnown, OneLiveSecretSent, TokensEvolve, send' = send
  PROVE  SendsKnown' /\ OneLiveSecretSent'
BY DEF SendsKnown, SendKnown, OneLiveSecretSent, TokensEvolve, Evolved, Unspent

(* A step that leaves a confirm alone keeps what is known of it.           *)
LEMMA ConfirmKept ==
  ASSUME TypeOK, NEW c \in Confirm, ConfirmKnown(c), TokensEvolve,
         confirm'[c] = confirm[c], \A h \in Hash : send[h].issued => send'[h].issued
  PROVE  ConfirmKnown(c)'
<1>1. CASE confirm[c].pc = "idle"
  BY <1>1 DEF ConfirmKnown, Guessing
<1>2. CASE confirm[c].pc # "idle"
  <2> DEFINE h == confirm[c].secret
  <2>1. h \in Hash /\ Evolved(tokens[h], tokens'[h]) /\ (send[h].issued => send'[h].issued)
    BY <1>2 DEF ConfirmKnown, TokensEvolve
  <2>2. Guessing(c)' => CountKnown(c)'
    <3>1. SUFFICES ASSUME Guessing(c)' PROVE CountKnown(c)'
      OBVIOUS
    <3>2. CountKnown(c)
      BY <3>1 DEF ConfirmKnown, Guessing
    <3>3. tokens[h] # None => tokens[h] \in TokenRecord
      BY <2>1 DEF TypeOK, Store
    <3> QED
      BY <2>1, <3>2, <3>3 DEF CountKnown, Evolved, TokenRecord, TypeOK, ConfirmCall
  <2>3. ~ Unspent(tokens[h]) => ~ Unspent(tokens'[h])
    BY <2>1 DEF Evolved, Unspent
  <2> QED
    BY <1>2, <2>1, <2>2, <2>3 DEF ConfirmKnown
<1> QED
  BY <1>1, <1>2

(* A step that leaves the confirms alone keeps what is known of them.      *)
LEMMA ConfirmsKept ==
  ASSUME TypeOK, ConfirmsKnown, CountsDistinct, RedeemedOnce, TokensEvolve,
         confirm' = confirm, \A h \in Hash : send[h].issued => send'[h].issued
  PROVE  ConfirmsKnown' /\ CountsDistinct' /\ RedeemedOnce'
<1>1. CountsDistinct' /\ RedeemedOnce'
  BY DEF CountsDistinct, RedeemedOnce, Guessing
<1>2. ConfirmsKnown'
  BY ConfirmKept DEF ConfirmsKnown
<1> QED
  BY <1>1, <1>2

(* A step of one confirm: what must be shown of it alone.                  *)
LEMMA OneConfirm ==
  ASSUME TypeOK, ConfirmsKnown, CountsDistinct, RedeemedOnce, TokensEvolve,
         send' = send, NEW c \in Confirm,
         \A d \in Confirm \ {c} : confirm'[d] = confirm[d],
         ConfirmKnown(c)',
         Guessing(c)' => \A d \in Confirm \ {c} :
           Guessing(d) /\ confirm[d].secret = confirm'[c].secret
             => confirm[d].answer.attempts # confirm'[c].answer.attempts,
         confirm'[c].redeemed => \A d \in Confirm \ {c} :
           confirm[d].redeemed => confirm[d].secret # confirm'[c].secret
  PROVE  ConfirmsKnown' /\ CountsDistinct' /\ RedeemedOnce'
<1>1. ConfirmsKnown'
  BY ConfirmKept DEF ConfirmsKnown
<1>2. CountsDistinct'
  BY DEF CountsDistinct, Guessing
<1>3. RedeemedOnce'
  BY DEF RedeemedOnce
<1> QED
  BY <1>1, <1>2, <1>3

(* A step of one confirm that neither counts nor redeems.                  *)
LEMMA QuietConfirm ==
  ASSUME TypeOK, ConfirmsKnown, CountsDistinct, RedeemedOnce, TokensEvolve,
         send' = send, NEW c \in Confirm,
         \A d \in Confirm \ {c} : confirm'[d] = confirm[d],
         confirm[c].pc # "idle", confirm'[c].pc \notin {"idle", "ownerOf", "findRecord"},
         confirm'[c].pc \in {"burn", "spend"} => confirm[c].pc = "findRecord",
         confirm'[c].secret = confirm[c].secret,
         confirm'[c].answer = confirm[c].answer,
         confirm'[c].redeemed = confirm[c].redeemed,
         Guessing(c)' => Guessing(c)
  PROVE  ConfirmsKnown' /\ CountsDistinct' /\ RedeemedOnce'
<1> DEFINE h == confirm[c].secret
<1>1. ConfirmKnown(c)
  BY DEF ConfirmsKnown
<1>2. h \in Hash /\ Evolved(tokens[h], tokens'[h])
  BY <1>1 DEF ConfirmKnown, TokensEvolve
<1>3. ASSUME Guessing(c)' PROVE CountKnown(c)'
  <2>1. CountKnown(c)
    BY <1>1, <1>3 DEF ConfirmKnown
  <2>2. tokens[h] # None => tokens[h] \in TokenRecord
    BY <1>2 DEF TypeOK, Store
  <2> QED
    BY <1>2, <2>1, <2>2 DEF CountKnown, Evolved, TokenRecord, TypeOK, ConfirmCall
<1>4. ConfirmKnown(c)'
  BY <1>1, <1>2, <1>3 DEF ConfirmKnown, Evolved, Unspent
<1>5. Guessing(c)' => \A d \in Confirm \ {c} :
        Guessing(d) /\ confirm[d].secret = confirm'[c].secret
          => confirm[d].answer.attempts # confirm'[c].answer.attempts
  BY DEF CountsDistinct
<1>6. confirm'[c].redeemed => \A d \in Confirm \ {c} :
        confirm[d].redeemed => confirm[d].secret # confirm'[c].secret
  BY DEF RedeemedOnce
<1> QED
  BY <1>4, <1>5, <1>6, OneConfirm

-----------------------------------------------------------------------------
(* Types, one step at a time.                                              *)
LEMMA StepTypeOK ==
  ASSUME TypeOK, SendsKnown, ConfirmsKnown, Next
  PROVE  TypeOK'
<1> USE OneTimeAssumption, TokenStoreAssumption
<1>0. \A c \in Confirm : confirm[c] \in ConfirmCall
  BY DEF TypeOK
<1>1. ASSUME NEW h \in Hash, SignInHolder(h) PROVE TypeOK'
  <2>1. send'[h] \in SendCall
    <3>1. CASE send' = [send EXCEPT ![h].pc = "nobody"]
      BY <3>1 DEF TypeOK, SendCall
    <3>2. ASSUME NEW kind \in Kind, NEW email \in Address, NEW u \in UserId,
                 send' = [send EXCEPT ![h].pc = "issue", ![h].kind = kind,
                                      ![h].userId = u, ![h].address = email]
          PROVE  send'[h] \in SendCall
      <4>1. send'[h] = [send[h] EXCEPT !.pc = "issue", !.kind = kind,
                                       !.userId = u, !.address = email]
        BY <3>2 DEF TypeOK
      <4>2. send[h] \in SendCall
        BY DEF TypeOK
      <4> QED
        BY <4>1, <4>2, Zenon DEF SendCall
    <3> QED
      BY <1>1, <3>1, <3>2 DEF SignInHolder
  <2>2. send' = [send EXCEPT ![h] = send'[h]]
    BY <1>1 DEF SignInHolder, TypeOK
  <2> QED
    BY <1>1, <2>1, <2>2 DEF TypeOK, SignInHolder
<1>2. ASSUME NEW h \in Hash, IssueOneTime(h) PROVE TypeOK'
  <2>1. NewToken(h) \in TokenRecord
    BY <1>2 DEF IssueOneTime, NewToken, TokenRecord, SendsKnown, SendKnown, TypeOK
  <2>2. tokens' \in Store
    BY <1>2, <2>1, InsertKeepsOthers DEF IssueOneTime, TypeOK
  <2>3. send'[h] = [pc |-> "keepOnlyLatest", kind |-> send[h].kind,
                    userId |-> send[h].userId, address |-> send[h].address,
                    issued |-> TRUE]
    BY <1>2 DEF TypeOK, IssueOneTime, SendCall
  <2>4. send'[h] \in SendCall
    BY <2>3 DEF TypeOK, SendCall
  <2> QED
    BY <1>2, <2>2, <2>4 DEF TypeOK, IssueOneTime
<1>3. ASSUME NEW h \in Hash, KeepOnlyLatest(h) PROVE TypeOK'
  <2>1. tokens' \in Store
    BY <1>3, SpendUserEvolves DEF KeepOnlyLatest, TypeOK
  <2> QED
    BY <1>3, <2>1 DEF TypeOK, KeepOnlyLatest, SendCall
<1>4. ASSUME NEW h \in Hash, SendFails(h) PROVE TypeOK'
  BY <1>4 DEF TypeOK, SendFails, SendCall
<1>5. ASSUME NEW c \in Confirm, CountCodeAttempt(c) PROVE TypeOK'
  <2>1. PICK h \in Hash, right \in BOOLEAN :
          LET counted == countAttempt(tokens, h, "signInCode")
              token == Answer(counted, h, "signInCode")
              taken == Usable(token, now) /\ token.attempts <= CODE_ATTEMPTS
          IN /\ tokens' = counted
             /\ confirm' = [confirm EXCEPT
                  ![c].pc = IF taken THEN "findRecord" ELSE "refused",
                  ![c].secret = h, ![c].answer = token, ![c].right = right]
    BY <1>5 DEF CountCodeAttempt
  <2>2. tokens' \in Store
    BY <2>1, CountEvolves DEF TypeOK
  <2>3. Answer(tokens', h, "signInCode") \in TokenRecord \cup {None}
    BY <2>2 DEF Answer, Store
  <2>4. PICK pc \in {"findRecord", "refused"} :
          confirm'[c] = [confirm[c] EXCEPT !.pc = pc, !.secret = h,
                           !.answer = Answer(tokens', h, "signInCode"), !.right = right]
    BY <2>1 DEF TypeOK
  <2>5. confirm'[c] \in ConfirmCall
    BY <1>0, <2>3, <2>4, Zenon DEF ConfirmCall
  <2> QED
    BY <1>5, <2>1, <2>2, <2>5 DEF TypeOK, CountCodeAttempt
<1>6. ASSUME NEW c \in Confirm, UnknownChallenge(c) PROVE TypeOK'
  BY <1>6 DEF TypeOK, UnknownChallenge, RefuseCode, ConfirmCall
<1>7. ASSUME NEW c \in Confirm, CompareCode(c) PROVE TypeOK'
  <2>1. PICK pc \in {"spend", "burn", "refused"}, welcome \in BOOLEAN :
          confirm'[c] = [confirm[c] EXCEPT !.pc = pc, !.compared = TRUE,
                                           !.welcome = welcome]
    BY <1>7 DEF TypeOK, CompareCode, RefuseCode, Welcome
  <2>2. confirm'[c] \in ConfirmCall
    BY <1>0, <2>1, Zenon DEF ConfirmCall
  <2> QED
    BY <1>7, <2>2 DEF TypeOK, CompareCode
<1>8. ASSUME NEW c \in Confirm, BurnOneTime(c) PROVE TypeOK'
  <2>1. confirm[c].secret \in Hash
    BY <1>8 DEF ConfirmsKnown, ConfirmKnown, BurnOneTime
  <2>2. tokens' \in Store
    BY <1>8, <2>1, ConsumeEvolves DEF BurnOneTime, TypeOK
  <2> QED
    BY <1>8, <2>2 DEF TypeOK, BurnOneTime, ConfirmCall
<1>9. ASSUME NEW c \in Confirm, SpendCode(c) PROVE TypeOK'
  <2>1. confirm[c].secret \in Hash
    BY <1>9 DEF ConfirmsKnown, ConfirmKnown, SpendCode
  <2>2. tokens' \in Store
    BY <1>9, <2>1, ConsumeEvolves DEF SpendCode, TypeOK
  <2>3. PICK pc \in {"finish", "refused"}, spent \in BOOLEAN :
          confirm'[c] = [confirm[c] EXCEPT !.pc = pc, !.redeemed = spent]
    BY <1>9 DEF TypeOK, SpendCode, Usable
  <2>4. confirm'[c] \in ConfirmCall
    BY <1>0, <2>3, Zenon DEF ConfirmCall
  <2> QED
    BY <1>9, <2>2, <2>4 DEF TypeOK, SpendCode
<1>10. ASSUME NEW c \in Confirm, SpendLink(c) PROVE TypeOK'
  <2>1. PICK h \in Hash :
          LET before == Answer(tokens, h, "magicLink")
              spent == Usable(before, now)
          IN /\ tokens' = consumeToken(tokens, h, "magicLink", now)
             /\ confirm' = [confirm EXCEPT
                  ![c].pc = IF spent THEN "ownerOf" ELSE "refused",
                  ![c].secret = h, ![c].answer = before, ![c].redeemed = spent]
    BY <1>10 DEF SpendLink
  <2>2. tokens' \in Store
    BY <2>1, ConsumeEvolves DEF TypeOK
  <2>3. Answer(tokens, h, "magicLink") \in TokenRecord \cup {None}
    BY DEF Answer, Store, TypeOK
  <2>4. PICK pc \in {"ownerOf", "refused"}, spent \in BOOLEAN :
          confirm'[c] = [confirm[c] EXCEPT !.pc = pc, !.secret = h,
                           !.answer = Answer(tokens, h, "magicLink"),
                           !.redeemed = spent]
    BY <2>1 DEF TypeOK, Usable
  <2>5. confirm'[c] \in ConfirmCall
    BY <1>0, <2>3, <2>4, Zenon DEF ConfirmCall
  <2> QED
    BY <1>10, <2>1, <2>2, <2>5 DEF TypeOK, SpendLink
<1>11. ASSUME NEW c \in Confirm, OwnerOf(c) PROVE TypeOK'
  <2>1. PICK pc \in {"finish", "refused"}, welcome \in BOOLEAN :
          confirm'[c] = [confirm[c] EXCEPT !.pc = pc, !.welcome = welcome]
    BY <1>11 DEF TypeOK, OwnerOf
  <2>2. confirm'[c] \in ConfirmCall
    BY <1>0, <2>1, Zenon DEF ConfirmCall
  <2> QED
    BY <1>11, <2>2 DEF TypeOK, OwnerOf
<1>12. ASSUME NEW c \in Confirm, Finish(c) PROVE TypeOK'
  BY <1>12 DEF TypeOK, Finish, ConfirmCall
<1>13. ASSUME NEW c \in Confirm, ConfirmFails(c) PROVE TypeOK'
  BY <1>13 DEF TypeOK, ConfirmFails, ConfirmCall
<1>14. ASSUME NEW u \in UserId, UserNext(u) PROVE TypeOK'
  <2>1. CASE UpdateUser(u)
    BY <2>1 DEF UpdateUser, TypeOK
  <2>2. CASE DeleteUser(u)
    BY <2>2 DEF DeleteUser, TypeOK
  <2>3. CASE DeleteUserTokens(u)
    BY <2>3, DeleteEvolves DEF DeleteUserTokens, TypeOK
  <2> QED
    BY <1>14, <2>1, <2>2, <2>3 DEF UserNext
<1>15. ASSUME CollectExpired PROVE TypeOK'
  BY <1>15, DeleteEvolves DEF CollectExpired, TypeOK
<1>16. ASSUME Tick PROVE TypeOK'
  BY <1>16 DEF Tick, TypeOK
<1> QED
  BY <1>1, <1>2, <1>3, <1>4, <1>5, <1>6, <1>7, <1>8, <1>9, <1>10, <1>11, <1>12,
     <1>13, <1>14, <1>15, <1>16
  DEF Next, SendNext, ConfirmNext

-----------------------------------------------------------------------------
(* The invariant, one group of steps at a time.                            *)

(* A store that does not move evolves.                                     *)
LEMMA StillEvolves ==
  ASSUME TypeOK, tokens' = tokens
  PROVE  TokensEvolve
BY DEF TypeOK, Store, TokenRecord, TokensEvolve, Evolved

(* A lookup touches only its own send, and issues nothing.                 *)
LEMMA LookedUp ==
  ASSUME TypeOK, NEW h \in Hash, SignInHolder(h)
  PROVE  /\ send'[h].issued = send[h].issued
         /\ \/ send'[h].pc = "nobody"
            \/ /\ send'[h].pc = "issue"
               /\ send'[h].kind \in Kind
               /\ send'[h].userId \in UserId
               /\ send'[h].address \in Address
<1>1. send[h] \in SendCall
  BY DEF TypeOK
<1>2. CASE send' = [send EXCEPT ![h].pc = "nobody"]
  BY <1>1, <1>2 DEF TypeOK, SendCall
<1>3. CASE \E kind \in Kind, email \in Address, u \in UserId :
             send' = [send EXCEPT ![h].pc = "issue", ![h].kind = kind,
                                  ![h].userId = u, ![h].address = email]
  <2>1. PICK kind \in Kind, email \in Address, u \in UserId :
          send' = [send EXCEPT ![h].pc = "issue", ![h].kind = kind,
                               ![h].userId = u, ![h].address = email]
    BY <1>3
  <2>2. send'[h] = [send[h] EXCEPT !.pc = "issue", !.kind = kind,
                                   !.userId = u, !.address = email]
    BY <2>1 DEF TypeOK
  <2> QED
    BY <1>1, <2>2 DEF SendCall
<1>4. \/ send' = [send EXCEPT ![h].pc = "nobody"]
      \/ \E kind \in Kind, email \in Address, u \in UserId :
           send' = [send EXCEPT ![h].pc = "issue", ![h].kind = kind,
                                ![h].userId = u, ![h].address = email]
  BY Zenon DEF SignInHolder
<1> QED
  BY <1>2, <1>3, <1>4

LEMMA StepSend ==
  ASSUME IInv, NEW h \in Hash, SendNext(h)
  PROVE  Bookkeeping' /\ RedeemedOnce' /\ OneLiveSecretSent'
<1> USE TokenStoreAssumption, OneTimeAssumption
<1>0. TypeOK /\ SendsKnown /\ ConfirmsKnown /\ CountsDistinct
  BY DEF IInv, Bookkeeping
<1>1. CASE SignInHolder(h)
  <2>1. send[h] \in SendCall /\ send[h].pc = "prepared" /\ tokens[h] = None
    BY <1>0, <1>1 DEF SignInHolder, TypeOK, SendsKnown, SendKnown
  <2>2. ~ send[h].issued
    BY <1>0, <2>1 DEF SendsKnown, SendKnown
  <2>3. /\ \A g \in Hash \ {h} : send'[g] = send[g]
        /\ tokens' = tokens /\ confirm' = confirm
    BY <1>0, <1>1 DEF SignInHolder, TypeOK
  <2>4. /\ send'[h].issued = send[h].issued
        /\ \/ send'[h].pc = "nobody"
           \/ /\ send'[h].pc = "issue"
              /\ send'[h].kind \in Kind
              /\ send'[h].userId \in UserId
              /\ send'[h].address \in Address
    BY <1>0, <1>1, LookedUp
  <2>5. TokensEvolve /\ (\A g \in Hash : send[g].issued => send'[g].issued)
    BY <1>0, <2>2, <2>3, StillEvolves
  <2>6. ConfirmsKnown' /\ CountsDistinct' /\ RedeemedOnce'
    BY <1>0, <2>3, <2>5, ConfirmsKept DEF IInv
  <2>7. SendKnown(h)'
    BY <2>1, <2>2, <2>3, <2>4 DEF SendKnown
  <2>8. SendsKnown'
    BY <1>0, <2>3, <2>7 DEF SendsKnown, SendKnown
  <2>9. OneLiveSecretSent'
    BY <2>3, <2>4 DEF OneLiveSecretSent, IInv
  <2> QED
    BY <2>6, <2>8, <2>9 DEF Bookkeeping
<1>2. CASE IssueOneTime(h)
  <2>1. NewToken(h) \in TokenRecord /\ Unspent(NewToken(h))
    BY <1>0, <1>2 DEF IssueOneTime, NewToken, TokenRecord, SendsKnown, SendKnown, TypeOK,
                      Unspent
  <2>2. /\ tokens[h] = None
        /\ tokens'[h] = NewToken(h)
        /\ \A g \in Hash \ {h} : tokens'[g] = tokens[g]
    BY <1>0, <1>2, <2>1, InsertKeepsOthers
    DEF IssueOneTime, TypeOK, SendsKnown, SendKnown
  <2>3. /\ send'[h].pc = "keepOnlyLatest" /\ send'[h].issued
        /\ send'[h].userId = send[h].userId /\ send'[h].kind = send[h].kind
        /\ send'[h].address = send[h].address
        /\ \A g \in Hash \ {h} : send'[g] = send[g]
    BY <1>0, <1>2 DEF IssueOneTime, TypeOK, SendCall
  <2>4. SendsKnown' /\ OneLiveSecretSent'
    <3>1. SendKnown(h)'
      <4>1. SendKnown(h) /\ send[h].pc = "issue"
        BY <1>0, <1>2 DEF IssueOneTime, SendsKnown
      <4> QED
        BY <2>2, <2>3, <4>1 DEF SendKnown, NewToken
    <3>2. SendsKnown'
      BY <1>0, <2>2, <2>3, <3>1 DEF SendsKnown, SendKnown
    <3>3. OneLiveSecretSent'
      BY <2>2, <2>3 DEF OneLiveSecretSent, IInv
    <3> QED
      BY <3>2, <3>3
  <2>5. ~ send[h].issued
    BY <1>0, <1>2 DEF IssueOneTime, SendsKnown, SendKnown
  <2>6. ConfirmsKnown'
    <3> SUFFICES ASSUME NEW c \in Confirm PROVE ConfirmKnown(c)'
      BY DEF ConfirmsKnown
    <3>1. ConfirmKnown(c) /\ confirm' = confirm
      BY <1>0, <1>2 DEF ConfirmsKnown, IssueOneTime
    <3>2. Guessing(c) \/ confirm[c].redeemed => confirm[c].secret \in Hash \ {h}
      BY <2>5, <3>1 DEF ConfirmKnown, CountKnown, Guessing
    <3> QED
      BY <2>2, <2>3, <3>1, <3>2 DEF ConfirmKnown, CountKnown, Guessing
  <2>7. CountsDistinct' /\ RedeemedOnce'
    BY <1>0, <1>2 DEF IssueOneTime, CountsDistinct, RedeemedOnce, Guessing, IInv
  <2> QED
    BY <2>4, <2>6, <2>7 DEF Bookkeeping
<1>3. CASE KeepOnlyLatest(h)
  <2>1. TokensEvolve
    <3>1. tokens \in Store /\ now \in Nat
      BY <1>0 DEF TypeOK
    <3>2. tokens' = spendUserTokens(tokens, send[h].userId, send[h].kind, now, {h})
      BY <1>3 DEF KeepOnlyLatest
    <3> QED
      BY <3>1, <3>2, SpendUserEvolves DEF TokensEvolve
  <2>2. /\ \A g \in Hash \ {h} : send'[g] = send[g]
        /\ send'[h].pc = "sent"
        /\ send'[h].issued = send[h].issued /\ send'[h].userId = send[h].userId
        /\ send'[h].kind = send[h].kind /\ send'[h].address = send[h].address
    BY <1>0, <1>3 DEF KeepOnlyLatest, TypeOK, SendCall
  <2>3. ConfirmsKnown' /\ CountsDistinct' /\ RedeemedOnce'
    BY <1>0, <1>3, <2>1, <2>2, ConfirmsKept DEF KeepOnlyLatest, IInv
  <2>4. SendsKnown'
    <3>1. ASSUME NEW g \in Hash PROVE SendKnown(g)'
      <4>1. SendKnown(g) /\ Evolved(tokens[g], tokens'[g]) /\ send[h].pc = "keepOnlyLatest"
        BY <1>0, <1>3, <2>1 DEF SendsKnown, TokensEvolve, KeepOnlyLatest
      <4> QED
        BY <2>2, <4>1 DEF SendKnown, Evolved
    <3> QED
      BY <3>1 DEF SendsKnown
  <2>5. \A g \in Hash \ {h} :
          (send[g].userId = send[h].userId /\ send[g].kind = send[h].kind)
          => ~ Unspent(tokens'[g])
    BY <1>0, <1>3 DEF KeepOnlyLatest, spendUserTokens, Unspent, SendsKnown, SendKnown,
                      TypeOK, Store, TokenRecord
  <2>6. \A g \in Hash : Unspent(tokens'[g]) => Unspent(tokens[g])
    BY <2>1 DEF TokensEvolve, Evolved, Unspent
  <2>7. OneLiveSecretSent'
    BY <2>2, <2>5, <2>6 DEF OneLiveSecretSent, IInv
  <2> QED
    BY <2>3, <2>4, <2>7 DEF Bookkeeping
<1>4. CASE SendFails(h)
  <2>1. TokensEvolve
    BY <1>0, <1>4, StillEvolves DEF SendFails
  <2>2. /\ \A g \in Hash \ {h} : send'[g] = send[g]
        /\ send'[h].pc = "failed"
        /\ send'[h].issued = send[h].issued /\ send'[h].userId = send[h].userId
        /\ send'[h].kind = send[h].kind /\ send'[h].address = send[h].address
    BY <1>0, <1>4 DEF SendFails, TypeOK, SendCall
  <2>3. ConfirmsKnown' /\ CountsDistinct' /\ RedeemedOnce'
    BY <1>0, <1>4, <2>1, <2>2, ConfirmsKept DEF SendFails, IInv
  <2>4. SendsKnown' /\ OneLiveSecretSent'
    BY <1>0, <1>4, <2>2 DEF SendsKnown, SendKnown, SendFails, OneLiveSecretSent, IInv
  <2> QED
    BY <2>3, <2>4 DEF Bookkeeping
<1> QED
  BY <1>1, <1>2, <1>3, <1>4 DEF SendNext

(* A step that may redeem: it spends a token that no call had redeemed.    *)
LEMMA Redeeming ==
  ASSUME TypeOK, SendsKnown, ConfirmsKnown, CountsDistinct, RedeemedOnce, TokensEvolve,
         send' = send, NEW c \in Confirm, NEW h \in Hash,
         \A d \in Confirm \ {c} : confirm'[d] = confirm[d],
         confirm'[c].secret = h,
         confirm'[c].pc \in {"ownerOf", "finish", "refused"},
         confirm'[c].pc = "ownerOf" => confirm'[c].answer # None,
         confirm'[c].redeemed => Unspent(tokens[h]) /\ ~ Unspent(tokens'[h]),
         \/ ~ confirm'[c].compared
         \/ /\ Guessing(c)
            /\ confirm[c].secret = h /\ confirm[c].pc # "idle"
            /\ confirm'[c].answer = confirm[c].answer
  PROVE  ConfirmsKnown' /\ CountsDistinct' /\ RedeemedOnce'
<1>1. Evolved(tokens[h], tokens'[h])
  BY DEF TokensEvolve
<1>2. confirm'[c].redeemed => \A d \in Confirm \ {c} :
        confirm[d].redeemed => confirm[d].secret # confirm'[c].secret
  BY DEF ConfirmsKnown, ConfirmKnown
<1>3. Guessing(c)' => \A d \in Confirm \ {c} :
        Guessing(d) /\ confirm[d].secret = confirm'[c].secret
          => confirm[d].answer.attempts # confirm'[c].answer.attempts
  BY DEF CountsDistinct, Guessing
<1>4. Guessing(c)' => CountKnown(c)'
  <2> SUFFICES ASSUME Guessing(c)' PROVE CountKnown(c)'
    OBVIOUS
  <2>1. /\ Guessing(c) /\ confirm[c].secret = h /\ confirm'[c].answer = confirm[c].answer
        /\ CountKnown(c)
    BY DEF Guessing, ConfirmsKnown, ConfirmKnown
  <2>2. tokens[h] # None => tokens[h] \in TokenRecord
    BY DEF TypeOK, Store
  <2> QED
    BY <1>1, <2>1, <2>2 DEF CountKnown, Evolved, TokenRecord, TypeOK, ConfirmCall
<1>5. confirm'[c].redeemed => send[h].issued
  BY DEF SendsKnown, SendKnown, Unspent
<1>6. ConfirmKnown(c)'
  BY <1>4, <1>5 DEF ConfirmKnown
<1> QED
  BY <1>2, <1>3, <1>6, OneConfirm

LEMMA StepConfirm ==
  ASSUME IInv, NEW c \in Confirm, ConfirmNext(c)
  PROVE  Bookkeeping' /\ RedeemedOnce' /\ OneLiveSecretSent'
<1> USE TokenStoreAssumption, OneTimeAssumption
<1>0. /\ TypeOK /\ SendsKnown /\ ConfirmsKnown /\ CountsDistinct
      /\ RedeemedOnce /\ OneLiveSecretSent
  BY DEF IInv, Bookkeeping
<1>a. /\ tokens \in Store /\ now \in Nat /\ confirm[c] \in ConfirmCall
      /\ confirm \in [Confirm -> ConfirmCall] /\ ConfirmKnown(c)
  BY <1>0 DEF TypeOK, ConfirmsKnown
<1>b. ASSUME TokensEvolve, send' = send, ConfirmsKnown' /\ CountsDistinct' /\ RedeemedOnce'
      PROVE  Bookkeeping' /\ RedeemedOnce' /\ OneLiveSecretSent'
  BY <1>0, <1>b, SendsKept DEF Bookkeeping
<1>1. CASE CountCodeAttempt(c)
  <2>1. PICK h \in Hash, right \in BOOLEAN :
          LET counted == countAttempt(tokens, h, "signInCode")
              token == Answer(counted, h, "signInCode")
              taken == Usable(token, now) /\ token.attempts <= CODE_ATTEMPTS
          IN /\ tokens' = counted
             /\ confirm' = [confirm EXCEPT
                  ![c].pc = IF taken THEN "findRecord" ELSE "refused",
                  ![c].secret = h, ![c].answer = token, ![c].right = right]
    BY <1>1 DEF CountCodeAttempt
  <2> DEFINE token == Answer(tokens', h, "signInCode")
             taken == Usable(token, now) /\ token.attempts <= CODE_ATTEMPTS
  <2>2. /\ tokens' = countAttempt(tokens, h, "signInCode")
        /\ confirm'[c] = [confirm[c] EXCEPT !.pc = IF taken THEN "findRecord" ELSE "refused",
                            !.secret = h, !.answer = token, !.right = right]
        /\ \A d \in Confirm \ {c} : confirm'[d] = confirm[d]
    BY <1>a, <2>1
  <2>3. TokensEvolve /\ send' = send
    BY <1>1, <1>a, <2>2, CountEvolves DEF CountCodeAttempt, TokensEvolve
  <2> HIDE DEF token, taken
  <2>4. /\ confirm'[c].pc = IF taken THEN "findRecord" ELSE "refused"
        /\ confirm'[c].secret = h /\ confirm'[c].answer = token
        /\ ~ confirm'[c].compared /\ ~ confirm'[c].redeemed
    BY <1>1, <1>a, <2>2 DEF ConfirmCall, ConfirmKnown, CountCodeAttempt
  <2>5. Guessing(c)' => taken
    BY <2>4 DEF Guessing
  <2>6. ASSUME taken
        PROVE  /\ tokens[h] # None /\ tokens[h] \in TokenRecord
               /\ token = tokens'[h] /\ token # None
               /\ token.attempts = tokens[h].attempts + 1
               /\ token.attempts \in 1..CODE_ATTEMPTS
    <3>1. Unspent(token) /\ token = tokens'[h] /\ token.attempts <= CODE_ATTEMPTS
      BY <2>6 DEF taken, token, Usable, Answer, Unspent
    <3>2. Unspent(tokens[h]) /\ tokens[h] \in TokenRecord
      BY <1>a, <2>3, <3>1 DEF TokensEvolve, Evolved, Unspent, Store
    <3>3. tokens'[h].kind = tokens[h].kind
      BY <2>3, <3>1 DEF TokensEvolve, Evolved, Unspent
    <3>4. Answer(tokens, h, "signInCode") = tokens[h]
      BY <3>1, <3>2, <3>3 DEF token, Answer, Unspent
    <3>5. tokens'[h].attempts = tokens[h].attempts + 1
      BY <1>a, <2>2, <3>2, <3>4 DEF countAttempt, Store, TokenRecord
    <3> QED
      BY <3>1, <3>2, <3>5 DEF TokenRecord, Unspent
  <2>7. ConfirmKnown(c)'
    <3>1. taken => send[h].issued
      BY <1>0, <2>6 DEF SendsKnown, SendKnown
    <3>2. taken => CountKnown(c)'
      BY <2>3, <2>4, <2>6, <3>1 DEF CountKnown
    <3> QED
      BY <2>4, <2>5, <3>2 DEF ConfirmKnown
  <2>8. Guessing(c)' => \A d \in Confirm \ {c} :
          Guessing(d) /\ confirm[d].secret = confirm'[c].secret
            => confirm[d].answer.attempts # confirm'[c].answer.attempts
    <3> SUFFICES ASSUME taken, NEW d \in Confirm \ {c}, Guessing(d), confirm[d].secret = h
                 PROVE  confirm[d].answer.attempts # token.attempts
      BY <2>4, <2>5
    <3>1. /\ confirm[d].answer.attempts \in 1..CODE_ATTEMPTS
          /\ confirm[d].answer.attempts <= tokens[h].attempts
      BY <1>0, <2>6 DEF ConfirmsKnown, ConfirmKnown, CountKnown
    <3> QED
      BY <2>6, <3>1 DEF TokenRecord
  <2> QED
    BY <1>0, <1>b, <2>2, <2>3, <2>4, <2>7, <2>8, OneConfirm
<1>2. CASE UnknownChallenge(c)
  <2>1. TokensEvolve /\ send' = send
    BY <1>0, <1>2, StillEvolves DEF UnknownChallenge
  <2>2. /\ \A d \in Confirm \ {c} : confirm'[d] = confirm[d]
        /\ confirm[c].pc = "findRecord" /\ confirm'[c].pc \in {"burn", "refused"}
        /\ confirm'[c].secret = confirm[c].secret
        /\ confirm'[c].answer = confirm[c].answer
        /\ confirm'[c].redeemed = confirm[c].redeemed
    BY <1>2, <1>a DEF UnknownChallenge, RefuseCode, ConfirmCall
  <2>3. Guessing(c)
    BY <2>2 DEF Guessing
  <2> QED
    BY <1>0, <1>b, <2>1, <2>2, <2>3, QuietConfirm
<1>3. CASE CompareCode(c)
  <2>1. TokensEvolve /\ send' = send
    BY <1>0, <1>3, StillEvolves DEF CompareCode
  <2> DEFINE token == confirm[c].answer
             welcome == Welcome(users[token.userId], token.address)
  <2> HIDE DEF welcome
  <2>2. PICK pc \in {"spend", "burn", "refused"} :
          confirm' = [confirm EXCEPT ![c].pc = pc, ![c].compared = TRUE,
                                     ![c].welcome = welcome]
    BY <1>3 DEF CompareCode, RefuseCode, welcome
  <2>3. confirm'[c] = [confirm[c] EXCEPT !.pc = pc, !.compared = TRUE, !.welcome = welcome]
    BY <1>a, <2>2
  <2>4. /\ \A d \in Confirm \ {c} : confirm'[d] = confirm[d]
        /\ confirm[c].pc = "findRecord" /\ confirm'[c].pc \in {"spend", "burn", "refused"}
        /\ confirm'[c].secret = confirm[c].secret
        /\ confirm'[c].answer = confirm[c].answer
        /\ confirm'[c].redeemed = confirm[c].redeemed
    BY <1>3, <1>a, <2>2, <2>3 DEF CompareCode, ConfirmCall
  <2>5. Guessing(c)
    BY <2>4 DEF Guessing
  <2> QED
    BY <1>0, <1>b, <2>1, <2>4, <2>5, QuietConfirm
<1>4. CASE BurnOneTime(c)
  <2>1. confirm[c].secret \in Hash
    BY <1>4, <1>a DEF BurnOneTime, ConfirmKnown
  <2>2. TokensEvolve /\ send' = send
    BY <1>4, <1>a, <2>1, ConsumeEvolves DEF BurnOneTime, TokensEvolve
  <2>3. /\ \A d \in Confirm \ {c} : confirm'[d] = confirm[d]
        /\ confirm[c].pc = "burn" /\ confirm'[c].pc = "refused"
        /\ confirm'[c].secret = confirm[c].secret
        /\ confirm'[c].answer = confirm[c].answer
        /\ confirm'[c].redeemed = confirm[c].redeemed
    BY <1>4, <1>a DEF BurnOneTime, ConfirmCall
  <2>4. Guessing(c)
    BY <2>3 DEF Guessing
  <2> QED
    BY <1>0, <1>b, <2>2, <2>3, <2>4, QuietConfirm
<1>5. CASE OwnerOf(c)
  <2>1. TokensEvolve /\ send' = send
    BY <1>0, <1>5, StillEvolves DEF OwnerOf
  <2> DEFINE token == confirm[c].answer
             user == users[token.userId]
             welcome == user # None /\ Welcome(user, token.address)
  <2> HIDE DEF welcome
  <2>2. PICK pc \in {"finish", "refused"} :
          confirm' = [confirm EXCEPT ![c].pc = pc, ![c].welcome = welcome]
    BY <1>5 DEF OwnerOf, welcome
  <2>3. confirm'[c] = [confirm[c] EXCEPT !.pc = pc, !.welcome = welcome]
    BY <1>a, <2>2
  <2>4. /\ \A d \in Confirm \ {c} : confirm'[d] = confirm[d]
        /\ confirm[c].pc = "ownerOf" /\ confirm'[c].pc \in {"finish", "refused"}
        /\ confirm'[c].secret = confirm[c].secret
        /\ confirm'[c].answer = confirm[c].answer
        /\ confirm'[c].redeemed = confirm[c].redeemed
        /\ confirm'[c].compared = confirm[c].compared
    BY <1>5, <1>a, <2>2, <2>3 DEF OwnerOf, ConfirmCall
  <2>5. Guessing(c)' => Guessing(c)
    BY <2>4 DEF Guessing
  <2> QED
    BY <1>0, <1>b, <2>1, <2>4, <2>5, QuietConfirm
<1>6. CASE Finish(c)
  <2>1. TokensEvolve /\ send' = send
    BY <1>0, <1>6, StillEvolves DEF Finish
  <2>2. /\ \A d \in Confirm \ {c} : confirm'[d] = confirm[d]
        /\ confirm[c].pc = "finish" /\ confirm'[c].pc \in {"signedIn", "refused"}
        /\ confirm'[c].secret = confirm[c].secret
        /\ confirm'[c].answer = confirm[c].answer
        /\ confirm'[c].redeemed = confirm[c].redeemed
        /\ confirm'[c].compared = confirm[c].compared
    BY <1>6, <1>a DEF Finish, ConfirmCall
  <2>3. Guessing(c)' => Guessing(c)
    BY <2>2 DEF Guessing
  <2> QED
    BY <1>0, <1>b, <2>1, <2>2, <2>3, QuietConfirm
<1>7. CASE ConfirmFails(c)
  <2>1. TokensEvolve /\ send' = send
    BY <1>0, <1>7, StillEvolves DEF ConfirmFails
  <2>2. /\ \A d \in Confirm \ {c} : confirm'[d] = confirm[d]
        /\ confirm[c].pc # "idle" /\ confirm'[c].pc = "failed"
        /\ confirm'[c].secret = confirm[c].secret
        /\ confirm'[c].answer = confirm[c].answer
        /\ confirm'[c].redeemed = confirm[c].redeemed
        /\ confirm'[c].compared = confirm[c].compared
    BY <1>7, <1>a DEF ConfirmFails, ConfirmCall
  <2>3. Guessing(c)' => Guessing(c)
    BY <2>2 DEF Guessing
  <2> QED
    BY <1>0, <1>b, <2>1, <2>2, <2>3, QuietConfirm
<1>8. CASE SpendCode(c)
  <2> DEFINE h == confirm[c].secret
             spent == Usable(Answer(tokens, h, "signInCode"), now)
  <2>1. h \in Hash
    BY <1>8, <1>a DEF SpendCode, ConfirmKnown
  <2>2. /\ tokens' = consumeToken(tokens, h, "signInCode", now) /\ send' = send
        /\ confirm' = [confirm EXCEPT ![c].pc = IF spent THEN "finish" ELSE "refused",
                                      ![c].redeemed = spent]
    BY <1>8 DEF SpendCode
  <2>3. TokensEvolve
    BY <1>a, <2>1, <2>2, ConsumeEvolves DEF TokensEvolve
  <2>4. spent => Unspent(tokens[h]) /\ ~ Unspent(tokens'[h])
    BY <1>a, <2>1, <2>2 DEF Usable, Answer, Unspent, consumeToken, Store, TokenRecord
  <2> HIDE DEF spent
  <2>5. confirm'[c] = [confirm[c] EXCEPT !.pc = IF spent THEN "finish" ELSE "refused",
                                         !.redeemed = spent]
    BY <1>a, <2>2
  <2>6. /\ \A d \in Confirm \ {c} : confirm'[d] = confirm[d]
        /\ confirm[c].pc = "spend" /\ confirm'[c].pc \in {"finish", "refused"}
        /\ confirm'[c].secret = h
        /\ confirm'[c].answer = confirm[c].answer
        /\ confirm'[c].redeemed <=> spent
        /\ confirm'[c].compared = confirm[c].compared
    BY <1>8, <1>a, <2>2, <2>5 DEF SpendCode, ConfirmCall
  <2>7. Guessing(c)
    BY <2>6 DEF Guessing
  <2>8. /\ confirm'[c].pc \in {"ownerOf", "finish", "refused"}
        /\ confirm'[c].pc # "ownerOf" /\ confirm[c].pc # "idle"
        /\ confirm'[c].redeemed => Unspent(tokens[h]) /\ ~ Unspent(tokens'[h])
    BY <2>4, <2>6
  <2> HIDE DEF h
  <2> QED
    BY <1>0, <1>b, <2>1, <2>2, <2>3, <2>6, <2>7, <2>8, Redeeming DEF h
<1>9. CASE SpendLink(c)
  <2>1. PICK h \in Hash :
          LET before == Answer(tokens, h, "magicLink")
              spent == Usable(before, now)
          IN /\ tokens' = consumeToken(tokens, h, "magicLink", now)
             /\ confirm' = [confirm EXCEPT
                  ![c].pc = IF spent THEN "ownerOf" ELSE "refused",
                  ![c].secret = h, ![c].answer = before, ![c].redeemed = spent]
    BY <1>9 DEF SpendLink
  <2> DEFINE before == Answer(tokens, h, "magicLink")
             spent == Usable(before, now)
  <2>2. TokensEvolve /\ send' = send
    BY <1>9, <1>a, <2>1, ConsumeEvolves DEF TokensEvolve, SpendLink
  <2>3. spent => before # None /\ Unspent(tokens[h]) /\ ~ Unspent(tokens'[h])
    BY <1>a, <2>1 DEF Usable, Answer, Unspent, consumeToken, Store, TokenRecord
  <2>4. /\ confirm'[c] = [confirm[c] EXCEPT !.pc = IF spent THEN "ownerOf" ELSE "refused",
                            !.secret = h, !.answer = before, !.redeemed = spent]
        /\ \A d \in Confirm \ {c} : confirm'[d] = confirm[d]
    BY <1>a, <2>1
  <2> HIDE DEF before, spent
  <2>5. /\ confirm'[c].pc = IF spent THEN "ownerOf" ELSE "refused"
        /\ confirm'[c].secret = h
        /\ confirm'[c].answer = before
        /\ confirm'[c].redeemed <=> spent
        /\ ~ confirm'[c].compared
    BY <1>9, <1>a, <2>4 DEF SpendLink, ConfirmCall, ConfirmKnown
  <2> QED
    BY <1>0, <1>b, <2>2, <2>3, <2>4, <2>5, Redeeming
<1> QED
  BY <1>1, <1>2, <1>3, <1>4, <1>5, <1>6, <1>7, <1>8, <1>9 DEF ConfirmNext

(* What runs beside the calls moves the store only as a record may move.   *)
LEMMA BesideEvolves ==
  ASSUME IInv, \/ \E u \in UserId : UserNext(u)
               \/ CollectExpired
               \/ Tick
  PROVE  TokensEvolve
<1>1. TypeOK /\ tokens \in Store
  BY DEF IInv, TypeOK
<1>2. CASE tokens' = tokens
  BY <1>1, <1>2, StillEvolves
<1>3. ASSUME NEW u \in UserId, tokens' = deleteUserTokens(tokens, u) PROVE TokensEvolve
  BY <1>1, <1>3, DeleteEvolves DEF TokensEvolve
<1>4. CASE tokens' = deleteExpiredTokens(tokens, now)
  BY <1>1, <1>4, DeleteEvolves DEF TokensEvolve
<1> QED
  BY <1>2, <1>3, <1>4
  DEF UserNext, UpdateUser, DeleteUser, DeleteUserTokens, CollectExpired, Tick

LEMMA StepBeside ==
  ASSUME IInv, \/ \E u \in UserId : UserNext(u)
               \/ CollectExpired
               \/ Tick
  PROVE  Bookkeeping' /\ RedeemedOnce' /\ OneLiveSecretSent'
<1>1. /\ TypeOK /\ SendsKnown /\ ConfirmsKnown /\ CountsDistinct
      /\ RedeemedOnce /\ OneLiveSecretSent
  BY DEF IInv, Bookkeeping
<1>2. send' = send /\ confirm' = confirm
  BY DEF UserNext, UpdateUser, DeleteUser, DeleteUserTokens, CollectExpired, Tick
<1> QED
  BY <1>1, <1>2, BesideEvolves, SendsKept, ConfirmsKept DEF Bookkeeping

LEMMA StepIInv == IInv /\ [Next]_vars => IInv'
<1>1. CASE UNCHANGED vars
  BY <1>1 DEF vars, IInv, TypeOK, Bookkeeping, SendsKnown, SendKnown, ConfirmsKnown,
              ConfirmKnown, CountKnown, Guessing, CountsDistinct, RedeemedOnce,
              OneLiveSecretSent
<1>2. ASSUME IInv, Next PROVE IInv'
  <2>1. TypeOK'
    BY <1>2, StepTypeOK DEF IInv, Bookkeeping
  <2>2. Bookkeeping' /\ RedeemedOnce' /\ OneLiveSecretSent'
    BY <1>2, StepSend, StepConfirm, StepBeside DEF Next
  <2> QED
    BY <2>1, <2>2 DEF IInv
<1> QED
  BY <1>1, <1>2

(* Whatever calls overlap, fail or lapse, what the calls hold agrees with  *)
(* the store they share.                                                   *)
THEOREM Invariant == Spec => []IInv
BY InitIInv, StepIInv, PTL DEF Spec

(* Every variable keeps its type.                                          *)
THEOREM TypeCorrect == Spec => []TypeOK
BY Invariant, PTL DEF IInv

(* One secret signs in once, however many confirms race for it.            *)
THEOREM OnlyOneRedeems == Spec => []RedeemedOnce
BY Invariant, PTL DEF IInv

(* Of the secrets that were mailed to one user, at most one is live.       *)
THEOREM AtMostOneLive == Spec => []OneLiveSecretSent
BY Invariant, PTL DEF IInv

-----------------------------------------------------------------------------
(* Distinct counts in 1..CODE_ATTEMPTS: no more codes than that.           *)
LEMMA GuessesCounted ==
  ASSUME TypeOK, Bookkeeping, NEW h \in Hash
  PROVE  /\ IsFiniteSet(ComparedWith(h))
         /\ Cardinality(ComparedWith(h)) \in Nat
         /\ Cardinality(ComparedWith(h)) <= CODE_ATTEMPTS
<1> DEFINE count == [c \in ComparedWith(h) |-> confirm[c].answer.attempts]
<1>1. CODE_ATTEMPTS \in Nat /\ IsFiniteSet(1..CODE_ATTEMPTS)
      /\ Cardinality(1..CODE_ATTEMPTS) = CODE_ATTEMPTS
  BY OneTimeAssumption, FS_Interval
<1>2. count \in Injection(ComparedWith(h), 1..CODE_ATTEMPTS)
  <2>1. \A c \in ComparedWith(h) :
          /\ c \in Confirm /\ Guessing(c) /\ confirm[c].secret = h
          /\ confirm[c].answer.attempts \in 1..CODE_ATTEMPTS
    BY DEF ComparedWith, Guessing, Bookkeeping, ConfirmsKnown, ConfirmKnown, CountKnown
  <2>2. \A c, d \in ComparedWith(h) : count[c] = count[d] => c = d
    BY <2>1 DEF Bookkeeping, CountsDistinct
  <2>3. count \in [ComparedWith(h) -> 1..CODE_ATTEMPTS]
    BY <2>1
  <2> HIDE DEF count
  <2> QED
    BY <2>2, <2>3 DEF Injection, IsInjective
<1>3. /\ IsFiniteSet(ComparedWith(h))
      /\ Cardinality(ComparedWith(h)) <= CODE_ATTEMPTS
  BY <1>1, <1>2, FS_Injection
<1> QED
  BY <1>3, FS_CardinalityType

LEMMA GuessesBoundedNow == TypeOK /\ Bookkeeping => GuessesBounded
BY GuessesCounted DEF GuessesBounded

LEMMA GuessesBoundedNext == TypeOK' /\ Bookkeeping' => GuessesBounded'
BY GuessesBoundedNow, PTL

(* CODE_ATTEMPTS bounds the codes compared with one challenge, for any     *)
(* number of racing calls.                                                 *)
THEOREM AtMostSoManyGuesses == Spec => []GuessesBounded
<1>1. IInv => GuessesBounded
  BY GuessesBoundedNow DEF IInv
<1> QED
  BY <1>1, Invariant, PTL

-----------------------------------------------------------------------------
(* The last attempt spends (LastAttemptSpends).  A challenge whose         *)
(* attempts are used up is live only while the call that was told it made  *)
(* the last one has still to spend it, or has failed.                      *)
HoldsLast(c, h) ==
  /\ confirm[c].secret = h
  /\ confirm[c].answer # None
  /\ confirm[c].answer.attempts = CODE_ATTEMPTS
  /\ confirm[c].pc \in {"findRecord", "burn", "spend", "failed"}

UsedUp(h) ==
  /\ Unspent(tokens[h])
  /\ tokens[h].expiresAt > now
  /\ tokens[h].attempts >= CODE_ATTEMPTS

LastHeld ==
  \A h \in Hash : UsedUp(h) =>
    /\ tokens[h].kind = "signInCode"
    /\ \E c \in Confirm : HoldsLast(c, h)

(* What a step must do that neither issues nor counts: leave or spend each *)
(* record, and leave who holds a last attempt to it.                       *)
LEMMA LastStill ==
  ASSUME TypeOK, LastHeld, now' \in Nat, now' >= now,
         \A h \in Hash : Unspent(tokens'[h]) => tokens'[h] = tokens[h],
         \A c \in Confirm, h \in Hash :
           UsedUp(h) /\ HoldsLast(c, h) /\ Unspent(tokens'[h]) => HoldsLast(c, h)'
  PROVE  LastHeld'
<1> SUFFICES ASSUME NEW h \in Hash, UsedUp(h)'
             PROVE  /\ tokens'[h].kind = "signInCode"
                    /\ \E c \in Confirm : HoldsLast(c, h)'
  BY DEF LastHeld
<1>1. Unspent(tokens'[h]) /\ tokens'[h] = tokens[h]
  BY DEF UsedUp
<1>2. tokens[h] \in TokenRecord /\ now \in Nat
  BY <1>1, OneTimeAssumption DEF TypeOK, Store, Unspent
<1>3. tokens[h].expiresAt > now
  <2>1. tokens[h].expiresAt > now' /\ tokens[h].expiresAt \in Nat
    BY <1>1, <1>2 DEF UsedUp, TokenRecord
  <2> QED
    BY <1>2, <2>1
<1>4. UsedUp(h)
  BY <1>1, <1>3 DEF UsedUp
<1>5. tokens[h].kind = "signInCode" /\ \E c \in Confirm : HoldsLast(c, h)
  BY <1>4 DEF LastHeld
<1> QED
  BY <1>1, <1>4, <1>5

(* A method that only spends or removes leaves what is unspent as it was.  *)
LEMMA OnlySpends ==
  ASSUME NEW store \in Store, NEW h \in Hash, NEW kind, NEW userId, NEW at \in Nat, NEW except
  PROVE  /\ Unspent(spendUserTokens(store, userId, kind, at, except)[h]) =>
              spendUserTokens(store, userId, kind, at, except)[h] = store[h]
         /\ Unspent(deleteUserTokens(store, userId)[h]) =>
              deleteUserTokens(store, userId)[h] = store[h]
         /\ Unspent(deleteExpiredTokens(store, at)[h]) =>
              deleteExpiredTokens(store, at)[h] = store[h]
BY TokenStoreAssumption
DEF spendUserTokens, deleteUserTokens, deleteExpiredTokens, Unspent, Store, TokenRecord

LEMMA ConsumeOnlySpends ==
  ASSUME NEW store \in Store, NEW hash \in Hash, NEW kind, NEW at \in Nat
  PROVE  \A h \in Hash : Unspent(consumeToken(store, hash, kind, at)[h]) =>
           consumeToken(store, hash, kind, at)[h] = store[h]
BY TokenStoreAssumption DEF consumeToken, Answer, Unspent, Store, TokenRecord

LEMMA LastSend ==
  ASSUME IInv, LastHeld, NEW h \in Hash, SendNext(h)
  PROVE  LastHeld'
<1> USE OneTimeAssumption
<1>0. TypeOK /\ SendsKnown /\ tokens \in Store /\ now \in Nat
  BY DEF IInv, Bookkeeping, TypeOK
<1>1. confirm' = confirm /\ now' = now /\ now' >= now
  <2>1. confirm' = confirm /\ now' = now
    BY Zenon DEF SendNext, SignInHolder, IssueOneTime, KeepOnlyLatest, SendFails
  <2> QED
    BY <1>0, <2>1
<1>2. \A c \in Confirm, g \in Hash : HoldsLast(c, g) => HoldsLast(c, g)'
  BY <1>1 DEF HoldsLast
<1>3. CASE SignInHolder(h) \/ SendFails(h)
  <2>1. tokens' = tokens
    BY <1>3 DEF SignInHolder, SendFails
  <2> QED
    BY <1>0, <1>1, <1>2, <2>1, LastStill
<1>4. CASE KeepOnlyLatest(h)
  <2>1. tokens' = spendUserTokens(tokens, send[h].userId, send[h].kind, now, {h})
    BY <1>4 DEF KeepOnlyLatest
  <2>2. \A g \in Hash : Unspent(tokens'[g]) => tokens'[g] = tokens[g]
    BY <1>0, <2>1, OnlySpends
  <2> QED
    BY <1>0, <1>1, <1>2, <2>2, LastStill
<1>5. CASE IssueOneTime(h)
  <2>1. NewToken(h) \in TokenRecord /\ NewToken(h).attempts = 0
    BY <1>0, <1>5 DEF IssueOneTime, NewToken, TokenRecord, SendsKnown, SendKnown, TypeOK
  <2>2. /\ tokens'[h] = NewToken(h)
        /\ \A g \in Hash \ {h} : tokens'[g] = tokens[g]
    BY <1>0, <1>5, <2>1, InsertKeepsOthers DEF IssueOneTime, SendsKnown, SendKnown
  <2>3. ~ UsedUp(h)'
    BY <2>1, <2>2 DEF UsedUp
  <2>4. \A g \in Hash \ {h} : UsedUp(g)' => UsedUp(g) /\ tokens'[g] = tokens[g]
    BY <1>1, <2>2 DEF UsedUp
  <2> QED
    BY <1>2, <2>3, <2>4 DEF LastHeld
<1> QED
  BY <1>3, <1>4, <1>5 DEF SendNext

(* The attempt that uses a challenge up is told so, and goes on.           *)
LEMMA LastCounted ==
  ASSUME IInv, LastHeld, NEW c \in Confirm, CountCodeAttempt(c)
  PROVE  LastHeld'
<1> USE OneTimeAssumption, TokenStoreAssumption
<1>0. TypeOK /\ tokens \in Store /\ now \in Nat /\ confirm[c] \in ConfirmCall
  BY DEF IInv, TypeOK
<1>1. PICK h \in Hash, right \in BOOLEAN :
        LET counted == countAttempt(tokens, h, "signInCode")
            token == Answer(counted, h, "signInCode")
            taken == Usable(token, now) /\ token.attempts <= CODE_ATTEMPTS
        IN /\ tokens' = counted
           /\ confirm' = [confirm EXCEPT
                ![c].pc = IF taken THEN "findRecord" ELSE "refused",
                ![c].secret = h, ![c].answer = token, ![c].right = right]
  BY DEF CountCodeAttempt
<1> DEFINE token == Answer(tokens', h, "signInCode")
           taken == Usable(token, now) /\ token.attempts <= CODE_ATTEMPTS
<1>2. now' = now /\ \A d \in Confirm \ {c} : confirm'[d] = confirm[d]
  BY <1>0, <1>1 DEF CountCodeAttempt, TypeOK
<1>3. /\ confirm'[c].pc = IF taken THEN "findRecord" ELSE "refused"
      /\ confirm'[c].secret = h /\ confirm'[c].answer = token
  <2>1. confirm'[c] = [confirm[c] EXCEPT
          !.pc = IF taken THEN "findRecord" ELSE "refused",
          !.secret = h, !.answer = token, !.right = right]
    BY <1>0, <1>1 DEF TypeOK
  <2> HIDE DEF token, taken
  <2> QED
    BY <1>0, <2>1 DEF ConfirmCall
<1>4. \A d \in Confirm, g \in Hash : HoldsLast(d, g) => HoldsLast(d, g)'
  <2>1. confirm[c].pc = "idle"
    BY DEF CountCodeAttempt
  <2> QED
    BY <1>2, <2>1 DEF HoldsLast
<1>5. \A g \in Hash \ {h} : tokens'[g] = tokens[g]
  BY <1>0, <1>1 DEF countAttempt, Store
<1>6. ASSUME NEW g \in Hash, UsedUp(g)', UsedUp(g)
      PROVE  /\ tokens'[g].kind = "signInCode"
             /\ \E d \in Confirm : HoldsLast(d, g)'
  <2>1. tokens[g].kind = "signInCode" /\ \E d \in Confirm : HoldsLast(d, g)
    BY <1>6 DEF LastHeld
  <2>2. Evolved(tokens[g], tokens'[g]) /\ tokens'[g] # None
    BY <1>0, <1>1, <1>6, CountEvolves DEF UsedUp, Unspent
  <2>3. tokens'[g].kind = tokens[g].kind
    BY <2>2 DEF Evolved
  <2> QED
    BY <1>4, <2>1, <2>3
<1>7. ASSUME UsedUp(h)', ~ UsedUp(h)
      PROVE  /\ tokens'[h].kind = "signInCode"
             /\ \E d \in Confirm : HoldsLast(d, h)'
  <2>1. tokens'[h] # tokens[h]
    BY <1>2, <1>7 DEF UsedUp
  <2>2. /\ Unspent(tokens[h]) /\ tokens[h] \in TokenRecord
        /\ tokens[h].kind = "signInCode"
        /\ tokens'[h] = [tokens[h] EXCEPT !.attempts = @ + 1]
    BY <1>0, <1>1, <2>1 DEF countAttempt, Answer, Unspent, Store
  <2>3. /\ tokens'[h] \in TokenRecord /\ tokens'[h].kind = "signInCode"
        /\ tokens'[h].expiresAt = tokens[h].expiresAt
        /\ tokens'[h].attempts = tokens[h].attempts + 1
        /\ tokens'[h].spentAt = None
    BY <2>2 DEF TokenRecord, Unspent
  <2>4. tokens'[h].attempts = CODE_ATTEMPTS /\ tokens'[h].expiresAt > now
    <3>1. tokens'[h].attempts >= CODE_ATTEMPTS /\ tokens'[h].expiresAt > now
      BY <1>2, <1>7 DEF UsedUp
    <3>2. ~ (tokens[h].attempts >= CODE_ATTEMPTS)
      BY <1>7, <2>2, <2>3, <3>1 DEF UsedUp
    <3>3. tokens[h].attempts \in Nat
      BY <2>2 DEF TokenRecord
    <3> QED
      BY <2>3, <3>1, <3>2, <3>3
  <2>5. tokens'[h] # None
    BY <2>3
  <2>6. token = tokens'[h]
    BY <2>3, <2>5 DEF Answer
  <2>7. taken
    BY <2>3, <2>4, <2>5, <2>6 DEF Usable, Unspent
  <2>8. HoldsLast(c, h)'
    BY <1>3, <2>4, <2>5, <2>6, <2>7 DEF HoldsLast
  <2> QED
    BY <2>3, <2>8
<1>8. \A g \in Hash \ {h} : UsedUp(g)' => UsedUp(g)
  BY <1>2, <1>5 DEF UsedUp
<1> QED
  BY <1>6, <1>7, <1>8 DEF LastHeld

LEMMA LastConfirm ==
  ASSUME IInv, LastHeld, NEW c \in Confirm, ConfirmNext(c)
  PROVE  LastHeld'
<1> USE OneTimeAssumption
<1>0. /\ TypeOK /\ tokens \in Store /\ now \in Nat /\ confirm[c] \in ConfirmCall
      /\ confirm \in [Confirm -> ConfirmCall] /\ ConfirmKnown(c)
  BY DEF IInv, TypeOK, Bookkeeping, ConfirmsKnown
<1>1. CASE CountCodeAttempt(c)
  BY <1>1, LastCounted
<1> SUFFICES ASSUME ~ CountCodeAttempt(c) PROVE LastHeld'
  BY <1>1
<1>2. /\ now' = now /\ now' \in Nat /\ now' >= now
      /\ \A d \in Confirm \ {c} : confirm'[d] = confirm[d]
  <2>1. now' = now
    BY Zenon DEF ConfirmNext, UnknownChallenge, CompareCode, BurnOneTime, SpendCode, SpendLink,
           OwnerOf, Finish, ConfirmFails
  <2>2. \A d \in Confirm \ {c} : confirm'[d] = confirm[d]
    BY <1>0 DEF ConfirmNext, UnknownChallenge, CompareCode, BurnOneTime, SpendCode, SpendLink,
           OwnerOf, Finish, ConfirmFails
  <2> QED
    BY <1>0, <2>1, <2>2
<1>3. \A d \in Confirm \ {c}, g \in Hash : HoldsLast(d, g) => HoldsLast(d, g)'
  BY <1>2 DEF HoldsLast
<1>4. ASSUME \A g \in Hash : Unspent(tokens'[g]) => tokens'[g] = tokens[g],
             \A g \in Hash : UsedUp(g) /\ HoldsLast(c, g) /\ Unspent(tokens'[g])
                               => HoldsLast(c, g)'
      PROVE  LastHeld'
  <2>1. \A d \in Confirm, g \in Hash :
          UsedUp(g) /\ HoldsLast(d, g) /\ Unspent(tokens'[g]) => HoldsLast(d, g)'
    BY <1>3, <1>4
  <2> QED
    BY <1>0, <1>2, <1>4, <2>1, LastStill
<1>5. CASE UnknownChallenge(c) \/ CompareCode(c)
  <2>1. tokens' = tokens /\ confirm[c].pc = "findRecord"
    BY <1>5 DEF UnknownChallenge, CompareCode
  <2>2. PICK pc, compared, welcome :
          /\ confirm'[c] = [confirm[c] EXCEPT !.pc = pc, !.compared = compared,
                                              !.welcome = welcome]
          /\ pc = RefuseCode(c) \/ pc = "spend"
    <3>1. CASE UnknownChallenge(c)
      <4>1. confirm'[c] = [confirm[c] EXCEPT !.pc = RefuseCode(c)]
        BY <1>0, <3>1 DEF UnknownChallenge
      <4>2. confirm'[c] = [confirm[c] EXCEPT !.pc = RefuseCode(c),
                             !.compared = confirm[c].compared, !.welcome = confirm[c].welcome]
        BY <1>0, <4>1 DEF ConfirmCall
      <4> QED
        BY <4>2
    <3>2. CASE CompareCode(c)
      <4> DEFINE welcome == Welcome(users[confirm[c].answer.userId], confirm[c].answer.address)
      <4> HIDE DEF welcome
      <4>1. confirm' = [confirm EXCEPT
              ![c].pc = IF confirm[c].right THEN "spend" ELSE RefuseCode(c),
              ![c].compared = TRUE,
              ![c].welcome = welcome]
        BY <3>2 DEF CompareCode, welcome
      <4>2. confirm'[c] = [confirm[c] EXCEPT
              !.pc = IF confirm[c].right THEN "spend" ELSE RefuseCode(c),
              !.compared = TRUE, !.welcome = welcome]
        BY <1>0, <4>1
      <4> QED
        BY <4>2
    <3> QED
      BY <1>5, <3>1, <3>2
  <2>3. /\ confirm'[c].pc = pc /\ confirm'[c].secret = confirm[c].secret
        /\ confirm'[c].answer = confirm[c].answer
    BY <1>0, <2>2 DEF ConfirmCall
  <2>4. \A g \in Hash : HoldsLast(c, g) => HoldsLast(c, g)'
    BY <2>2, <2>3 DEF HoldsLast, RefuseCode, IsLastAttempt
  <2> QED
    BY <1>4, <2>1, <2>4
<1>6. CASE BurnOneTime(c) \/ SpendCode(c)
  <2>1. /\ tokens' = consumeToken(tokens, confirm[c].secret, "signInCode", now)
        /\ confirm[c].pc \in {"burn", "spend"}
    BY <1>6 DEF BurnOneTime, SpendCode
  <2>2. confirm[c].secret \in Hash
    BY <1>0, <2>1 DEF ConfirmKnown
  <2>3. \A g \in Hash : Unspent(tokens'[g]) => tokens'[g] = tokens[g]
    BY <1>0, <2>1, <2>2, ConsumeOnlySpends
  <2>4. \A g \in Hash : UsedUp(g) /\ HoldsLast(c, g) => ~ Unspent(tokens'[g])
    <3> SUFFICES ASSUME NEW g \in Hash, UsedUp(g), HoldsLast(c, g)
                 PROVE  ~ Unspent(tokens'[g])
      OBVIOUS
    <3>1. g = confirm[c].secret
      BY DEF HoldsLast
    <3>2. tokens[g].kind = "signInCode"
      BY DEF LastHeld
    <3>3. tokens' = consumeToken(tokens, g, "signInCode", now)
      BY <2>1, <3>1
    <3> QED
      BY <1>0, <3>2, <3>3, ConsumeSpends
  <2> QED
    BY <1>4, <2>3, <2>4
<1>7. CASE SpendLink(c)
  <2>1. PICK h \in Hash : tokens' = consumeToken(tokens, h, "magicLink", now)
    BY <1>7 DEF SpendLink
  <2>2. \A g \in Hash : Unspent(tokens'[g]) => tokens'[g] = tokens[g]
    BY <1>0, <2>1, ConsumeOnlySpends
  <2>3. \A g \in Hash : ~ HoldsLast(c, g)
    BY <1>7 DEF SpendLink, HoldsLast
  <2> QED
    BY <1>4, <2>2, <2>3
<1>8. CASE OwnerOf(c) \/ Finish(c)
  <2>1. tokens' = tokens
    BY <1>8 DEF OwnerOf, Finish
  <2>2. \A g \in Hash : ~ HoldsLast(c, g)
    BY <1>8 DEF OwnerOf, Finish, HoldsLast
  <2> QED
    BY <1>4, <2>1, <2>2
<1>9. CASE ConfirmFails(c)
  <2>1. /\ tokens' = tokens /\ confirm'[c].pc = "failed"
        /\ confirm'[c].secret = confirm[c].secret /\ confirm'[c].answer = confirm[c].answer
    BY <1>0, <1>9 DEF ConfirmFails, ConfirmCall
  <2>2. \A g \in Hash : HoldsLast(c, g) => HoldsLast(c, g)'
    BY <2>1 DEF HoldsLast
  <2> QED
    BY <1>4, <2>1, <2>2
<1> QED
  BY <1>1, <1>5, <1>6, <1>7, <1>8, <1>9 DEF ConfirmNext

LEMMA LastBeside ==
  ASSUME IInv, LastHeld, \/ \E u \in UserId : UserNext(u)
                         \/ CollectExpired
                         \/ Tick
  PROVE  LastHeld'
<1> USE OneTimeAssumption
<1>0. TypeOK /\ tokens \in Store /\ now \in Nat
  BY DEF IInv, TypeOK
<1>1. confirm' = confirm /\ now' \in Nat /\ now' >= now
  BY <1>0 DEF UserNext, UpdateUser, DeleteUser, DeleteUserTokens, CollectExpired, Tick
<1>2. \A c \in Confirm, g \in Hash : HoldsLast(c, g) => HoldsLast(c, g)'
  BY <1>1 DEF HoldsLast
<1>3. \A g \in Hash : Unspent(tokens'[g]) => tokens'[g] = tokens[g]
  <2>1. ASSUME NEW u \in UserId, tokens' = deleteUserTokens(tokens, u)
        PROVE  \A g \in Hash : Unspent(tokens'[g]) => tokens'[g] = tokens[g]
    BY <1>0, <2>1, OnlySpends
  <2>2. CASE tokens' = deleteExpiredTokens(tokens, now)
    BY <1>0, <2>2, OnlySpends
  <2> QED
    BY <2>1, <2>2
    DEF UserNext, UpdateUser, DeleteUser, DeleteUserTokens, CollectExpired, Tick
<1> QED
  BY <1>0, <1>1, <1>2, <1>3, LastStill

LEMMA StepLastHeld == IInv /\ LastHeld /\ [Next]_vars => LastHeld'
<1>1. CASE UNCHANGED vars
  BY <1>1 DEF vars, LastHeld, UsedUp, HoldsLast
<1>2. CASE Next
  BY <1>2, LastSend, LastConfirm, LastBeside DEF Next
<1> QED
  BY <1>1, <1>2

(* Once every call that counted has been answered, a challenge that took   *)
(* CODE_ATTEMPTS codes is spent, however many calls raced for the last     *)
(* one: one of them was told it was, and no other was let past it.         *)
THEOREM NoneAfterTheLast == Spec => []LastAttemptSpends
<1>1. Init => LastHeld
  BY DEF Init, LastHeld, UsedUp, Unspent
<1>2. IInv /\ LastHeld => LastAttemptSpends
  <2> SUFFICES ASSUME LastHeld, NEW h \in Hash,
                      tokens[h] # None, tokens[h].expiresAt > now,
                      tokens[h].attempts >= CODE_ATTEMPTS,
                      \A c \in Confirm : confirm[c].secret = h =>
                        confirm[c].pc \in {"signedIn", "refused"},
                      Unspent(tokens[h])
               PROVE  FALSE
    BY DEF LastAttemptSpends
  <2>1. PICK c \in Confirm : HoldsLast(c, h)
    BY DEF LastHeld, UsedUp
  <2> QED
    BY <2>1 DEF HoldsLast
<1> QED
  BY <1>1, <1>2, Invariant, StepLastHeld, PTL DEF Spec

-----------------------------------------------------------------------------
(* The refinement: every step is a step of OneUse, or changes nothing it   *)
(* sees.                                                                   *)
Used(h) == \E c \in Confirm : confirm[c].redeemed /\ confirm[c].secret = h

Statuses == [h \in Hash |-> Status(h)]
GuessCounts == [h \in Hash |-> Cardinality(ComparedWith(h))]

LEMMA InitPromise == Init => Promise!Init
<1> SUFFICES ASSUME Init PROVE Promise!Init
  OBVIOUS
<1>1. \A h \in Hash : Status(h) = "unissued"
  BY DEF Init, Status
<1>2. \A h \in Hash : ComparedWith(h) = {}
  BY DEF Init, ComparedWith
<1> QED
  BY <1>1, <1>2, FS_EmptySet DEF Promise!Init

(* Secrets that stop being live, while none is redeemed, are void.         *)
LEMMA VoidStep ==
  ASSUME IInv, TokensEvolve, \A h \in Hash : send'[h].issued = send[h].issued,
         \A h \in Hash : Used(h)' <=> Used(h),
         \A h \in Hash : ComparedWith(h)' = ComparedWith(h)
  PROVE  \E S \in SUBSET Hash : Promise!Void(S)
<1> DEFINE S == {h \in Hash : Status(h) = "live" /\ Status(h)' # "live"}
<1>1. \A h \in Hash : Status(h)' = IF h \in S THEN "void" ELSE Status(h)
  <2> SUFFICES ASSUME NEW h \in Hash
               PROVE  Status(h)' = IF h \in S THEN "void" ELSE Status(h)
    OBVIOUS
  <2>1. Unspent(tokens'[h]) => Unspent(tokens[h])
    BY DEF TokensEvolve, Evolved, Unspent
  <2>2. Status(h) = IF Used(h) THEN "used" ELSE IF ~ send[h].issued THEN "unissued"
                    ELSE IF Unspent(tokens[h]) THEN "live" ELSE "void"
    BY DEF Status, Used
  <2>3. Status(h)' = IF Used(h) THEN "used" ELSE IF ~ send[h].issued THEN "unissued"
                     ELSE IF Unspent(tokens'[h]) THEN "live" ELSE "void"
    BY DEF Status, Used
  <2> QED
    BY <2>1, <2>2, <2>3
<1>2. Statuses' = [h \in Hash |-> IF h \in S THEN "void" ELSE Statuses[h]]
  BY <1>1 DEF Statuses
<1>3. GuessCounts' = GuessCounts
  BY DEF GuessCounts
<1> QED
  BY <1>2, <1>3 DEF Promise!Void, Statuses, GuessCounts

(* A confirm that neither compares nor redeems shows OneUse nothing.       *)
LEMMA QuietStep ==
  ASSUME IInv, TokensEvolve, send' = send, NEW c \in Confirm,
         \A d \in Confirm \ {c} : confirm'[d] = confirm[d],
         confirm'[c].compared = confirm[c].compared,
         confirm'[c].redeemed = confirm[c].redeemed,
         \/ confirm'[c].secret = confirm[c].secret
         \/ ~ confirm[c].compared /\ ~ confirm[c].redeemed
  PROVE  \E S \in SUBSET Hash : Promise!Void(S)
<1>1. \A h \in Hash : (Used(h)' <=> Used(h)) /\ ComparedWith(h)' = ComparedWith(h)
  BY DEF Used, ComparedWith
<1> QED
  BY <1>1, VoidStep

(* A code compared is one more guess, and not one too many.                *)
LEMMA GuessStep ==
  ASSUME IInv, IInv', TokensEvolve, send' = send, tokens' = tokens,
         NEW c \in Confirm, NEW h \in Hash, confirm[c].pc = "findRecord",
         \A d \in Confirm \ {c} : confirm'[d] = confirm[d],
         confirm[c].secret = h, confirm'[c].secret = h,
         confirm'[c].redeemed = confirm[c].redeemed,
         ~ confirm[c].compared, confirm'[c].compared
  PROVE  Promise!Guess(h)
<1>1. \A g \in Hash : (Used(g)' <=> Used(g))
  BY DEF Used
<1>2. Statuses' = Statuses
  <2>1. \A g \in Hash : Status(g)' = Status(g)
    BY <1>1 DEF Status, Used
  <2> QED
    BY <2>1 DEF Statuses
<1>3. /\ ComparedWith(h)' = ComparedWith(h) \cup {c}
      /\ c \notin ComparedWith(h)
      /\ \A g \in Hash \ {h} : ComparedWith(g)' = ComparedWith(g)
  BY DEF ComparedWith
<1>4. /\ IsFiniteSet(ComparedWith(h)) /\ Cardinality(ComparedWith(h)) \in Nat
      /\ Cardinality(ComparedWith(h)') <= CODE_ATTEMPTS
  BY GuessesCounted, GuessesBoundedNext DEF IInv, GuessesBounded
<1>5. Cardinality(ComparedWith(h)') = Cardinality(ComparedWith(h)) + 1
  BY <1>3, <1>4, FS_AddElement
<1>6. GuessCounts[h] < CODE_ATTEMPTS
  BY <1>4, <1>5, OneTimeAssumption DEF GuessCounts
<1>7. GuessCounts' = [GuessCounts EXCEPT ![h] = @ + 1]
  BY <1>3, <1>5 DEF GuessCounts
<1>8. Statuses[h] # "unissued"
  <2>1. send[h].issued
    BY DEF IInv, Bookkeeping, ConfirmsKnown, ConfirmKnown, CountKnown, Guessing
  <2> QED
    BY <2>1 DEF Statuses, Status
<1> QED
  BY <1>2, <1>6, <1>7, <1>8 DEF Promise!Guess, Statuses, GuessCounts

(* The one call that redeems a secret found it live.                       *)
LEMMA UseStep ==
  ASSUME IInv, IInv', TokensEvolve, send' = send, NEW c \in Confirm, NEW h \in Hash,
         \A d \in Confirm \ {c} : confirm'[d] = confirm[d],
         \A g \in Hash \ {h} : tokens'[g] = tokens[g],
         confirm'[c].secret = h, confirm'[c].redeemed,
         confirm'[c].compared = confirm[c].compared,
         \/ confirm[c].secret = h
         \/ ~ confirm[c].compared /\ ~ confirm[c].redeemed,
         Unspent(tokens[h])
  PROVE  Promise!Use(h)
<1>1. send[h].issued /\ ~ Used(h)
  BY DEF IInv, Bookkeeping, SendsKnown, SendKnown, ConfirmsKnown, ConfirmKnown, Unspent, Used
<1>2. Used(h)' /\ \A g \in Hash \ {h} : Used(g)' <=> Used(g)
  BY <1>1 DEF Used
<1>3. Status(h) = "live" /\ Status(h)' = "used"
  BY <1>1, <1>2 DEF Status, Used
<1>4. \A g \in Hash \ {h} : Status(g)' = Status(g)
  BY <1>2 DEF Status, Used
<1>5. Statuses' = [Statuses EXCEPT ![h] = "used"] /\ Statuses[h] = "live"
  BY <1>3, <1>4 DEF Statuses
<1>6. \A g \in Hash : ComparedWith(g)' = ComparedWith(g)
  BY DEF ComparedWith
<1>7. GuessCounts' = GuessCounts
  BY <1>6 DEF GuessCounts
<1> QED
  BY <1>5, <1>7 DEF Promise!Use, Statuses, GuessCounts

(* Where one confirm steps, OneUse steps.                                  *)
LEMMA ConfirmPromise ==
  ASSUME IInv, IInv', NEW c \in Confirm, ConfirmNext(c)
  PROVE  Promise!Next
<1>0. /\ TypeOK /\ tokens \in Store /\ now \in Nat
      /\ confirm[c] \in ConfirmCall /\ confirm \in [Confirm -> ConfirmCall]
      /\ ConfirmKnown(c)
  BY OneTimeAssumption DEF IInv, Bookkeeping, TypeOK, ConfirmsKnown
<1>a. ASSUME \E S \in SUBSET Hash : Promise!Void(S) PROVE Promise!Next
  BY <1>a DEF Promise!Next
<1>1. CASE CountCodeAttempt(c)
  <2>0. PICK h \in Hash, right \in BOOLEAN :
          LET counted == countAttempt(tokens, h, "signInCode")
              token == Answer(counted, h, "signInCode")
              taken == Usable(token, now) /\ token.attempts <= CODE_ATTEMPTS
          IN /\ tokens' = counted
             /\ confirm' = [confirm EXCEPT
                  ![c].pc = IF taken THEN "findRecord" ELSE "refused",
                  ![c].secret = h, ![c].answer = token, ![c].right = right]
    BY <1>1 DEF CountCodeAttempt
  <2> DEFINE token == Answer(tokens', h, "signInCode")
             pc == IF Usable(token, now) /\ token.attempts <= CODE_ATTEMPTS
                     THEN "findRecord" ELSE "refused"
  <2>1. /\ tokens' = countAttempt(tokens, h, "signInCode")
        /\ confirm' = [confirm EXCEPT ![c].pc = pc, ![c].secret = h,
                                      ![c].answer = token, ![c].right = right]
    BY <2>0
  <2> HIDE DEF token, pc
  <2>2. TokensEvolve /\ send' = send
    BY <1>0, <1>1, <2>1, CountEvolves DEF CountCodeAttempt, TokensEvolve
  <2>3. /\ confirm'[c] = [confirm[c] EXCEPT !.pc = pc, !.secret = h,
                                            !.answer = token, !.right = right]
        /\ \A d \in Confirm \ {c} : confirm'[d] = confirm[d]
    BY <1>0, <2>1
  <2>4. /\ confirm'[c].compared = confirm[c].compared /\ ~ confirm[c].compared
        /\ confirm'[c].redeemed = confirm[c].redeemed /\ ~ confirm[c].redeemed
    BY <1>0, <1>1, <2>3 DEF CountCodeAttempt, ConfirmKnown, ConfirmCall
  <2> QED
    BY <1>a, <2>2, <2>3, <2>4, QuietStep
<1>2. CASE UnknownChallenge(c) \/ Finish(c) \/ ConfirmFails(c)
  <2>1. TokensEvolve /\ send' = send
    BY <1>0, <1>2, StillEvolves DEF UnknownChallenge, Finish, ConfirmFails
  <2>2. PICK pc : confirm' = [confirm EXCEPT ![c].pc = pc]
    BY <1>2 DEF UnknownChallenge, Finish, ConfirmFails
  <2>3. /\ \A d \in Confirm \ {c} : confirm'[d] = confirm[d]
        /\ confirm'[c].compared = confirm[c].compared
        /\ confirm'[c].redeemed = confirm[c].redeemed
        /\ confirm'[c].secret = confirm[c].secret
    BY <1>0, <2>2 DEF ConfirmCall
  <2> QED
    BY <1>a, <2>1, <2>3, QuietStep
<1>3. CASE OwnerOf(c)
  <2>1. TokensEvolve /\ send' = send
    BY <1>0, <1>3, StillEvolves DEF OwnerOf
  <2>2. PICK pc, welcome : confirm' = [confirm EXCEPT ![c].pc = pc, ![c].welcome = welcome]
    BY <1>3 DEF OwnerOf
  <2>3. /\ confirm'[c] = [confirm[c] EXCEPT !.pc = pc, !.welcome = welcome]
        /\ \A d \in Confirm \ {c} : confirm'[d] = confirm[d]
    BY <1>0, <2>2
  <2>4. /\ confirm'[c].compared = confirm[c].compared
        /\ confirm'[c].redeemed = confirm[c].redeemed
        /\ confirm'[c].secret = confirm[c].secret
    BY <1>0, <2>3 DEF ConfirmCall
  <2> QED
    BY <1>a, <2>1, <2>3, <2>4, QuietStep
<1>4. CASE BurnOneTime(c)
  <2>1. confirm[c].secret \in Hash
    BY <1>0, <1>4 DEF BurnOneTime, ConfirmKnown
  <2>2. TokensEvolve /\ send' = send
    BY <1>0, <1>4, <2>1, ConsumeEvolves DEF BurnOneTime, TokensEvolve
  <2>3. /\ \A d \in Confirm \ {c} : confirm'[d] = confirm[d]
        /\ confirm'[c].compared = confirm[c].compared
        /\ confirm'[c].redeemed = confirm[c].redeemed
        /\ confirm'[c].secret = confirm[c].secret
    BY <1>0, <1>4 DEF BurnOneTime, ConfirmCall
  <2> QED
    BY <1>a, <2>2, <2>3, QuietStep
<1>5. CASE CompareCode(c)
  <2> DEFINE h == confirm[c].secret
  <2>1. TokensEvolve /\ send' = send /\ tokens' = tokens
    BY <1>0, <1>5, StillEvolves DEF CompareCode
  <2>2. PICK pc, welcome :
          confirm' = [confirm EXCEPT ![c].pc = pc, ![c].compared = TRUE,
                                     ![c].welcome = welcome]
    BY <1>5 DEF CompareCode
  <2>3. /\ confirm'[c] = [confirm[c] EXCEPT !.pc = pc, !.compared = TRUE, !.welcome = welcome]
        /\ \A d \in Confirm \ {c} : confirm'[d] = confirm[d]
    BY <1>0, <2>2
  <2>4. /\ confirm'[c].compared /\ confirm'[c].redeemed = confirm[c].redeemed
        /\ confirm'[c].secret = h
    BY <1>0, <2>3 DEF ConfirmCall
  <2>5. /\ h \in Hash /\ confirm[c].pc = "findRecord" /\ ~ confirm[c].compared
    BY <1>0, <1>5 DEF CompareCode, ConfirmKnown
  <2> HIDE DEF h
  <2>6. Promise!Guess(h)
    BY <2>1, <2>3, <2>4, <2>5, GuessStep DEF h
  <2> QED
    BY <2>5, <2>6 DEF Promise!Next
<1>6. CASE SpendCode(c)
  <2> DEFINE h == confirm[c].secret
             spent == Usable(Answer(tokens, h, "signInCode"), now)
  <2>1. h \in Hash /\ ~ confirm[c].redeemed
    BY <1>0, <1>6 DEF SpendCode, ConfirmKnown
  <2>2. /\ tokens' = consumeToken(tokens, h, "signInCode", now) /\ send' = send
        /\ confirm' = [confirm EXCEPT ![c].pc = IF spent THEN "finish" ELSE "refused",
                                      ![c].redeemed = spent]
    BY <1>6 DEF SpendCode
  <2>3. /\ TokensEvolve
        /\ \A g \in Hash \ {h} : tokens'[g] = tokens[g]
    BY <1>0, <2>1, <2>2, ConsumeEvolves DEF TokensEvolve, consumeToken, Store
  <2>4. spent \in BOOLEAN /\ (spent => Unspent(tokens[h]))
    BY DEF Usable, Answer, Unspent
  <2> HIDE DEF spent, h
  <2>5. /\ confirm'[c] = [confirm[c] EXCEPT !.pc = IF spent THEN "finish" ELSE "refused",
                                            !.redeemed = spent]
        /\ \A d \in Confirm \ {c} : confirm'[d] = confirm[d]
    BY <1>0, <2>2
  <2>6. /\ confirm'[c].compared = confirm[c].compared
        /\ confirm'[c].redeemed = spent
        /\ confirm'[c].secret = confirm[c].secret
    BY <1>0, <2>5 DEF ConfirmCall
  <2>7. CASE spent
    <3>1. confirm[c].secret = h
      BY DEF h
    <3>2. Promise!Use(h)
      BY <2>1, <2>2, <2>3, <2>4, <2>5, <2>6, <2>7, <3>1, UseStep
    <3> QED
      BY <2>1, <3>2 DEF Promise!Next
  <2>8. CASE ~ spent
    <3>1. confirm'[c].redeemed = confirm[c].redeemed
      <4>1. confirm[c].redeemed \in BOOLEAN
        BY <1>0 DEF ConfirmCall
      <4>2. confirm[c].redeemed = FALSE /\ spent = FALSE
        BY <2>1, <2>4, <2>8, <4>1
      <4> QED
        BY <2>6, <4>2
    <3> QED
      BY <1>a, <2>2, <2>3, <2>5, <2>6, <3>1, QuietStep
  <2> QED
    BY <2>7, <2>8
<1>7. CASE SpendLink(c)
  <2>1. PICK h \in Hash :
          LET before == Answer(tokens, h, "magicLink")
              spent == Usable(before, now)
          IN /\ tokens' = consumeToken(tokens, h, "magicLink", now)
             /\ confirm' = [confirm EXCEPT
                  ![c].pc = IF spent THEN "ownerOf" ELSE "refused",
                  ![c].secret = h, ![c].answer = before, ![c].redeemed = spent]
    BY <1>7 DEF SpendLink
  <2> DEFINE before == Answer(tokens, h, "magicLink")
             spent == Usable(before, now)
  <2>2. /\ TokensEvolve /\ send' = send
        /\ \A g \in Hash \ {h} : tokens'[g] = tokens[g]
    BY <1>0, <1>7, <2>1, ConsumeEvolves DEF TokensEvolve, SpendLink, consumeToken, Store
  <2>3. spent \in BOOLEAN /\ (spent => Unspent(tokens[h]))
    BY DEF Usable, Answer, Unspent
  <2>4. /\ confirm'[c] = [confirm[c] EXCEPT !.pc = IF spent THEN "ownerOf" ELSE "refused",
                            !.secret = h, !.answer = before, !.redeemed = spent]
        /\ \A d \in Confirm \ {c} : confirm'[d] = confirm[d]
    BY <1>0, <2>1
  <2> HIDE DEF before, spent
  <2>5. /\ confirm'[c].secret = h /\ confirm'[c].redeemed = spent
        /\ confirm'[c].compared = confirm[c].compared
    BY <1>0, <2>4 DEF ConfirmCall
  <2>6. ~ confirm[c].compared /\ ~ confirm[c].redeemed
    BY <1>0, <1>7 DEF SpendLink, ConfirmKnown
  <2>7. CASE spent
    <3>1. Promise!Use(h)
      BY <2>2, <2>3, <2>4, <2>5, <2>6, <2>7, UseStep
    <3> QED
      BY <3>1 DEF Promise!Next
  <2>8. CASE ~ spent
    <3>1. confirm'[c].redeemed = confirm[c].redeemed
      <4>1. confirm[c].redeemed \in BOOLEAN
        BY <1>0 DEF ConfirmCall
      <4>2. confirm[c].redeemed = FALSE /\ spent = FALSE
        BY <2>3, <2>6, <2>8, <4>1
      <4> QED
        BY <2>5, <4>2
    <3> QED
      BY <1>a, <2>2, <2>4, <2>5, <2>6, <3>1, QuietStep
  <2> QED
    BY <2>7, <2>8
<1> QED
  BY <1>1, <1>2, <1>3, <1>4, <1>5, <1>6, <1>7 DEF ConfirmNext

LEMMA StepPromise ==
  ASSUME IInv, IInv', Next
  PROVE  Promise!Next \/ UNCHANGED <<Statuses, GuessCounts>>
<1>0. /\ TypeOK /\ SendsKnown /\ ConfirmsKnown
      /\ tokens \in Store /\ now \in Nat /\ send \in [Hash -> SendCall]
      /\ confirm \in [Confirm -> ConfirmCall]
      /\ \A c \in Confirm : confirm[c] \in ConfirmCall /\ ConfirmKnown(c)
  BY OneTimeAssumption DEF IInv, Bookkeeping, TypeOK, ConfirmsKnown
<1>1. ASSUME NEW h \in Hash, IssueOneTime(h) PROVE Promise!Issue(h)
  <2>1. ~ send[h].issued /\ tokens[h] = None /\ confirm' = confirm
    BY <1>0, <1>1 DEF IssueOneTime, SendsKnown, SendKnown
  <2>2. send'[h].issued /\ \A g \in Hash \ {h} : send'[g] = send[g] /\ tokens'[g] = tokens[g]
    BY <1>0, <1>1 DEF IssueOneTime, SendCall, insertToken, Store
  <2>3. Unspent(tokens'[h])
    <3>1. /\ send[h].kind \in Kind /\ send[h].userId \in UserId
          /\ send[h].address \in Address /\ now + Ttl \in Nat
      BY <1>0, <1>1, OneTimeAssumption DEF IssueOneTime, SendsKnown, SendKnown
    <3>2. NewToken(h) \in TokenRecord
      BY <3>1 DEF NewToken, TokenRecord
    <3>3. tokens' = insertToken(tokens, h, NewToken(h))
      BY <1>1 DEF IssueOneTime
    <3>4. tokens'[h] = NewToken(h)
      BY <1>0, <2>1, <3>2, <3>3, InsertKeepsOthers
    <3>5. NewToken(h) # None /\ NewToken(h).spentAt = None
      BY <3>2, TokenStoreAssumption DEF NewToken
    <3> QED
      BY <3>4, <3>5 DEF Unspent
  <2>4. \A g \in Hash : (Used(g)' <=> Used(g)) /\ ComparedWith(g)' = ComparedWith(g)
    BY <2>1 DEF Used, ComparedWith
  <2>5. ~ Used(h)
    BY <1>0, <2>1 DEF Used, ConfirmKnown
  <2>6. Status(h) = "unissued" /\ Status(h)' = "live"
    BY <2>1, <2>2, <2>3, <2>4, <2>5 DEF Status, Used
  <2>7. \A g \in Hash \ {h} : Status(g)' = Status(g)
    BY <2>2, <2>4 DEF Status, Used
  <2>8. Statuses[h] = "unissued" /\ Statuses' = [Statuses EXCEPT ![h] = "live"]
    BY <2>6, <2>7 DEF Statuses
  <2>9. GuessCounts' = GuessCounts
    BY <2>4 DEF GuessCounts
  <2> QED
    BY <2>8, <2>9 DEF Promise!Issue, Statuses, GuessCounts
<1>2. ASSUME NEW h \in Hash, SignInHolder(h) \/ KeepOnlyLatest(h) \/ SendFails(h)
      PROVE  \E S \in SUBSET Hash : Promise!Void(S)
  <2>1. confirm' = confirm
    BY <1>2 DEF SignInHolder, KeepOnlyLatest, SendFails
  <2>2. TokensEvolve
    <3>1. CASE KeepOnlyLatest(h)
      <4>1. tokens' = spendUserTokens(tokens, send[h].userId, send[h].kind, now, {h})
        BY <3>1 DEF KeepOnlyLatest
      <4> QED
        BY <1>0, <4>1, SpendUserEvolves DEF TokensEvolve
    <3>2. CASE SignInHolder(h) \/ SendFails(h)
      BY <1>0, <3>2, StillEvolves DEF SignInHolder, SendFails
    <3> QED
      BY <1>2, <3>1, <3>2
  <2>3. \A g \in Hash : send'[g].issued = send[g].issued
    <3>1. CASE SignInHolder(h)
      BY <1>0, <3>1, LookedUp DEF SignInHolder
    <3>2. CASE KeepOnlyLatest(h) \/ SendFails(h)
      BY <1>0, <3>2 DEF KeepOnlyLatest, SendFails, SendCall
    <3> QED
      BY <1>2, <3>1, <3>2
  <2>4. \A g \in Hash : (Used(g)' <=> Used(g)) /\ ComparedWith(g)' = ComparedWith(g)
    BY <2>1 DEF Used, ComparedWith
  <2> QED
    BY <2>2, <2>3, <2>4, VoidStep
<1>3. ASSUME \/ \E u \in UserId : UserNext(u)
             \/ CollectExpired
             \/ Tick
      PROVE  \E S \in SUBSET Hash : Promise!Void(S)
  <2>1. send' = send /\ confirm' = confirm
    BY <1>3 DEF UserNext, UpdateUser, DeleteUser, DeleteUserTokens, CollectExpired, Tick
  <2>2. \A g \in Hash : (Used(g)' <=> Used(g)) /\ ComparedWith(g)' = ComparedWith(g)
    BY <2>1 DEF Used, ComparedWith
  <2>3. TokensEvolve
    BY <1>3, BesideEvolves
  <2> QED
    BY <2>1, <2>2, <2>3, VoidStep
<1>4. ASSUME NEW c \in Confirm, ConfirmNext(c) PROVE Promise!Next
  BY <1>4, ConfirmPromise
<1>5. ASSUME NEW h \in Hash, Promise!Issue(h) PROVE Promise!Next
  BY <1>5 DEF Promise!Next
<1>6. ASSUME \E S \in SUBSET Hash : Promise!Void(S) PROVE Promise!Next
  BY <1>6 DEF Promise!Next
<1> QED
  BY <1>1, <1>2, <1>3, <1>4, <1>5, <1>6 DEF Next, SendNext

(* The calls implement OneUse: whatever overlaps, fails or lapses, each    *)
(* secret is used at most once, while live, and takes so many codes.       *)
THEOREM Implements == Spec => KeepsPromise
<1>1. IInv /\ IInv' /\ [Next]_vars =>
       [Promise!Next]_<<[h \in Hash |-> Status(h)],
                        [h \in Hash |-> Cardinality(ComparedWith(h))]>>
  <2>1. CASE UNCHANGED vars
    BY <2>1 DEF vars, Status, ComparedWith
  <2> QED
    BY <2>1, StepPromise DEF Statuses, GuessCounts
<1> QED
  BY <1>1, InitPromise, Invariant, PTL DEF Spec, KeepsPromise, Promise!Spec
=============================================================================
