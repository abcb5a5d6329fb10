----------------------------- MODULE TokenStore -----------------------------
(***************************************************************************)
(* The one-time tokens store (packages/janus/src/auth/port/types/tokens.ts *)
(* and its in-memory implementation, port/memory/tokens.ts): every method  *)
(* is ONE conditional write, so each is an operator from the store before  *)
(* the call to the store after it.  A store maps the hash of a secret to   *)
(* the record kept under it, or to None.                                   *)
(*                                                                         *)
(* What a call ANSWERS is Answer, of the store before the call (consume)   *)
(* or after it (countAttempt), as the port specifies.                      *)
(***************************************************************************)
EXTENDS Integers

CONSTANTS Hash,     \* the hashes of the secrets that may be minted
          UserId,   \* who a token is issued to
          Kind,     \* what a token is for
          Address,  \* the e-mail it was sent to
          None      \* null: no record, and the spentAt of an unspent token

TokenRecord == [kind : Kind, userId : UserId, address : Address,
                attempts : Nat, expiresAt : Nat, spentAt : Nat \cup {None}]

ASSUME TokenStoreAssumption ==
  None \notin TokenRecord \cup Nat \cup Hash \cup UserId \cup Kind \cup Address

Store == [Hash -> TokenRecord \cup {None}]

Unspent(token) == token # None /\ token.spentAt = None

(* The record under a hash, when it is of this kind: another kind's token  *)
(* is not found, nor touched.                                              *)
Answer(tokens, hash, kind) ==
  IF tokens[hash] # None /\ tokens[hash].kind = kind
    THEN tokens[hash]
    ELSE None

insertToken(tokens, hash, record) ==
  IF tokens[hash] # None THEN tokens ELSE [tokens EXCEPT ![hash] = record]

consumeToken(tokens, hash, kind, at) ==
  IF Unspent(Answer(tokens, hash, kind))
    THEN [tokens EXCEPT ![hash].spentAt = at]
    ELSE tokens

countAttempt(tokens, hash, kind) ==
  IF Unspent(Answer(tokens, hash, kind))
    THEN [tokens EXCEPT ![hash].attempts = @ + 1]
    ELSE tokens

(* except is a set here: empty, or the one hash spared.                    *)
spendUserTokens(tokens, userId, kind, at, except) ==
  [h \in Hash |->
     IF /\ Unspent(tokens[h])
        /\ tokens[h].userId = userId
        /\ tokens[h].kind = kind
        /\ h \notin except
       THEN [tokens[h] EXCEPT !.spentAt = at]
       ELSE tokens[h]]

deleteUserTokens(tokens, userId) ==
  [h \in Hash |->
     IF tokens[h] # None /\ tokens[h].userId = userId
       THEN None
       ELSE tokens[h]]

deleteExpiredTokens(tokens, before) ==
  [h \in Hash |->
     IF tokens[h] # None /\ tokens[h].expiresAt <= before
       THEN None
       ELSE tokens[h]]

(* How one record may change under any method but insertToken: dropped, or *)
(* kept with what it was issued for; a spent one is kept as it is.         *)
Evolved(before, after) ==
  \/ after = None
  \/ /\ before # None
     /\ after \in TokenRecord
     /\ after.kind = before.kind
     /\ after.userId = before.userId
     /\ after.address = before.address
     /\ after.expiresAt = before.expiresAt
     /\ after.attempts >= before.attempts
     /\ before.spentAt # None => after = before

=============================================================================
