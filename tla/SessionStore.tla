---------------------------- MODULE SessionStore ----------------------------
(***************************************************************************)
(* The session store (packages/janus/src/auth/port/types/sessions.ts, as   *)
(* port/memory/sessions.ts, janus-drizzle, janus-mongo and janus-redis     *)
(* implement it): each method is one conditional write.  The hash of the   *)
(* token names the session as its id does: nothing changes it.             *)
(*                                                                         *)
(* The methods by user take the sessions their index names: the rows with  *)
(* that userId, or the members of the user's set in Redis.                 *)
(***************************************************************************)
EXTENDS TokenStore

CONSTANT Session

SessionRecord == [userId : UserId, authenticatedAt : Nat, expiresAt : Nat, revoked : BOOLEAN]

Sessions == [Session -> SessionRecord \cup {None}]

Live(sessions) == {s \in Session : sessions[s] # None}

OfUser(sessions, userId) == {s \in Live(sessions) : sessions[s].userId = userId}

insertSession(sessions, id, record) ==
  IF sessions[id] # None THEN sessions ELSE [sessions EXCEPT ![id] = record]

(* Mutant: a session there is, revoked or not.                             *)
IsThere(sessions, id) == sessions[id] # None

Stands(sessions, id) == sessions[id] # None /\ ~sessions[id].revoked

extendSession(sessions, id, expiresAt) ==
  IF Stands(sessions, id) THEN [sessions EXCEPT ![id].expiresAt = expiresAt] ELSE sessions

reauthenticateSession(sessions, id, at) ==
  IF Stands(sessions, id) THEN [sessions EXCEPT ![id].authenticatedAt = at] ELSE sessions

revokeSessions(sessions, ids) ==
  [s \in Session |->
     IF s \in ids \cap Live(sessions) THEN [sessions[s] EXCEPT !.revoked = TRUE] ELSE sessions[s]]

deleteSessions(sessions, ids) == [s \in Session |-> IF s \in ids THEN None ELSE sessions[s]]

Lapsed(sessions, before) == {s \in Live(sessions) : sessions[s].expiresAt <= before}

-----------------------------------------------------------------------------
(* The set of keys Redis keeps per user beside their sessions, and one     *)
(* beside their tokens (packages/janus-redis/src/scripts/shared.ts): how   *)
(* revokeUserSessions, spendUserTokens and the deletions find what is the  *)
(* user's.  A set is a key of its own, with an expiry of its own, and one  *)
(* left empty is dropped with it.                                          *)

NoExpiry == 0   \* times start at 1

(* With members it has an expiry, or Redis would keep it for ever.         *)
KeySet(Member) ==
  {set \in [members : SUBSET Member, until : Nat] :
     set.until = NoExpiry <=> set.members = {}}

NoKey == [members |-> {}, until |-> NoExpiry]

Keeping(set, members) ==
  IF members = {} THEN NoKey ELSE [set EXCEPT !.members = members]

(* The members whose keys are there still.                                 *)
Prune(set, live) == Keeping(set, set.members \cap live)

(* Later than it would expire, or at all; a set that is no key stays none. *)
ExtendSet(set, at) ==
  IF set # NoKey /\ set.until < at THEN [set EXCEPT !.until = at] ELSE set

AddMember(set, member, at) == ExtendSet([set EXCEPT !.members = @ \cup {member}], at)

Expired(set, now) == IF set.until # NoExpiry /\ set.until <= now THEN NoKey ELSE set
=============================================================================
