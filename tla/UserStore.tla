----------------------------- MODULE UserStore -----------------------------
(***************************************************************************)
(* The user store (packages/janus/src/auth/port/types/users.ts, as         *)
(* port/memory/users.ts implements it): the records by id and the unique   *)
(* index of their logins, both written by one synchronous step.  One user  *)
(* type is modelled: another type's logins are keys of their own.          *)
(*                                                                         *)
(* What a user signs in with is written as they spell it, and normalised:  *)
(* an e-mail by one rule, the login field by the type's own.               *)
(***************************************************************************)
EXTENDS TokenStore

CONSTANTS Login,      \* normalised logins
          Normal,     \* normalizeEmail, by spelling
          NormalName  \* password.normalize, by spelling

Spelled == Address

ASSUME UserStoreAssumption ==
  /\ Normal \in [Spelled -> Login]
  /\ NormalName \in [Spelled -> Login]
  /\ None \notin Login

(* The login field of a type that has one beside its e-mail, and the       *)
(* e-mail, which a schema may let be absent.                               *)
Fields == [name : Spelled, email : Spelled \cup {None}]

UserRecord ==
  [fields : Fields, logins : SUBSET Login, active : BOOLEAN, verified : BOOLEAN, version : Nat]

ASSUME NoUserAssumption == None \notin UserRecord

Users == [UserId -> UserRecord \cup {None}]

Index == [Login -> UserId \cup {None}]

normalized(email) == IF email = None THEN None ELSE Normal[email]

emailChanged(before, after) == normalized(before.email) # normalized(after.email)

(* login is which field the type signs in with: "name", "email", or none.  *)
loginsOf(login, fields) ==
  (CASE login = "name"  -> {NormalName[fields.name]}
     [] login = "email" -> {NormalName[fields.email]}
     [] login = "none"  -> {})
  \cup (IF fields.email = None THEN {} ELSE {Normal[fields.email]})

takenBy(byLogin, logins, id) == \E login \in logins : byLogin[login] \notin {None, id}

indexLogins(byLogin, id, logins) ==
  [login \in Login |-> IF login \in logins THEN id ELSE byLogin[login]]

dropLogins(byLogin, logins) ==
  [login \in Login |-> IF login \in logins THEN None ELSE byLogin[login]]

insertUser(users, id, record) ==
  IF users[id] # None THEN users ELSE [users EXCEPT ![id] = record]

(* Mutant: the new logins first, and the kept ones dropped with the old.   *)
reindexDropped(byLogin, id, before, after) ==
  dropLogins(indexLogins(byLogin, id, after), before)

reindex(byLogin, id, before, after) ==
  indexLogins(dropLogins(byLogin, before), id, after)

(* Mutant: whatever the version.                                           *)
writableAnyhow(users, byLogin, id, logins, ifVersion) ==
  users[id] # None /\ ~takenBy(byLogin, logins, id)

(* Refused for a user gone, a version that moved and a login held.         *)
writable(users, byLogin, id, logins, ifVersion) ==
  /\ users[id] # None /\ users[id].version = ifVersion
  /\ ~takenBy(byLogin, logins, id)

(* What findUserByLogin finds, and the one of them whose e-mail it is: a   *)
(* login that only looks like an e-mail is nobody's.                       *)
holderOfEmail(users, byLogin, email) ==
  LET id == byLogin[Normal[email]]
  IN  IF id # None /\ normalized(users[id].fields.email) = Normal[email] THEN id ELSE None
=============================================================================
