------------------------------ MODULE StoreCases ------------------------------
(***************************************************************************)
(* The conformance cases of the stores (packages/janus/src/conformance/    *)
(* cases), as data: what an adapter author runs against their stores.      *)
(*                                                                         *)
(* A case is a sequence of steps.  A step is the calls made at once and    *)
(* what they may answer: the answers of one step, or of the steps kept up  *)
(* to it, are compared by the case as a whole.  Twenty calls at once are   *)
(* Crowd of them here, and twenty-five users five.                         *)
(***************************************************************************)
EXTENDS Naturals, Sequences, FiniteSets, SequencesExt, TLC

CONSTANTS None, Failure, Crowd

Unheard == "unheard"    \* what these calls answer is not looked at
Kept    == "kept"       \* it is compared with what the next steps answer

Call(method, args) == [method |-> method, args |-> args]
Step(calls, judged, allowed) == [calls |-> calls, judged |-> judged, allowed |-> allowed]
(* Its first `sound` steps run before the method fails.                    *)
Case(id, needs, steps) ==
  [id |-> id, needs |-> needs, fails |-> "nothing", sound |-> 0, steps |-> steps]

Runs(method, args)          == Step(<<Call(method, args)>>, Unheard, {})
Keeps(method, args)         == Step(<<Call(method, args)>>, Kept, {})
OneOf(method, args, values) == Step(<<Call(method, args)>>, "judged", {<<v>> : v \in values})
Is(method, args, value)     == OneOf(method, args, {value})
Together(calls, allowed)    == Step(calls, "judged", allowed)
AtOnce(calls)               == Step(calls, Kept, {})

Crowded(call) == [i \in 1..Crowd |-> call]

(* Instants: long lapsed, at and just past a collection's, and to come.    *)
Past == 10
Lapse == 20
Earlier == 30
Now == 50
Later == 51
Far == 99
Farther == 100

-----------------------------------------------------------------------------
(* Records the cases write (fixtures.ts).                                  *)

userRecord(id, login) ==
  [id |-> id, type |-> "user", schemaVersion |-> "1", active |-> TRUE, fields |-> "given",
   logins |-> {login}, password |-> "hash", secondFactor |-> None, avatar |-> None,
   emailVerifiedAt |-> None, version |-> 0, updatedAt |-> Earlier]

sessionRecord(userId) ==
  [userId |-> userId, authenticatedAt |-> Earlier, expiresAt |-> Far, revokedAt |-> None]

tokenRecord(kind, userId) ==
  [kind |-> kind, userId |-> userId, address |-> "address", codeHash |-> None,
   attempts |-> 0, expiresAt |-> Far, spentAt |-> None]

Spent(token, at)      == [token EXCEPT !.spentAt = at]
Attempted(token, n)   == [token EXCEPT !.attempts = n]
RevokedAt(session, at) == [session EXCEPT !.revokedAt = at]

Ada  == userRecord(1, "ada")
Bob  == userRecord(2, "bob")

-----------------------------------------------------------------------------
(* Users.                                                                  *)

Insert(record) == Runs("insertUser", <<record>>)

IdempotentInsert == Case("users.idempotentInsert", {},
  <<Insert(Ada),
    Is("insertUser", <<[Ada EXCEPT !.fields = "changed"]>>, Ada),
    Is("findUser", <<1>>, Ada)>>)

(* Of many sign-ups for one login one is accepted, and one user stored.    *)
Uniqueness ==
  LET record(i) == [userRecord(i, "contested") EXCEPT !.fields = "mine"]
      taken     == [code |-> "LOGIN_TAKEN", about |-> <<"contested">>]
      who       == 1..Crowd
  IN  Case("users.uniqueness", {},
        <<AtOnce([i \in who |-> Call("insertUser", <<record(i)>>)]),
          Together([i \in who |-> Call("findUser", <<i>>)],
            {[i \in who |-> IF i = accepted THEN record(i) ELSE taken]
               \o [i \in who |-> IF i = stored THEN record(i) ELSE None] :
               accepted \in who, stored \in who})>>)

Reads ==
  LET record == [Ada EXCEPT !.fields = "nested", !.emailVerifiedAt = Earlier]
      edge   == userRecord(2, "edge")
      upper  == userRecord(3, "Ada")
      staff  == [userRecord(4, "ada") EXCEPT !.type = "staff"]
  IN  <<Case("users.roundTrip", {},
          <<Is("insertUser", <<record>>, record), Is("findUser", <<1>>, record)>>),
        Case("users.edgeCharacters", {},
          <<Insert(edge), Is("findUser", <<2>>, edge),
            Is("findUserByLogin", <<"user", "edge">>, edge)>>),
        Case("users.absence", {},
          <<Is("findUser", <<1>>, None), Is("findUserByLogin", <<"user", "nobody">>, None),
            Is("listUsers", <<"user", None, 2>>, [items |-> <<>>, next |-> None])>>),
        Case("users.loginBytes", {},
          <<Insert(upper), Insert(Ada), Insert(staff),
            Is("findUserByLogin", <<"user", "Ada">>, upper),
            Is("findUserByLogin", <<"user", "ada">>, Ada),
            Is("findUserByLogin", <<"staff", "ada">>, staff)>>)>>

(* What a patch does to a record, and to one that patches were applied to. *)
Patch(record, patch) == patch @@ [version |-> record.version + 1] @@ record

After(record, patches) ==
  LET after[n \in 0..Len(patches)] ==
        IF n = 0 THEN record ELSE Patch(after[n - 1], patches[n])
  IN  after

(* Each patch under the version it finds; its answer, and a read's.        *)
PatchedInTurn(record, patches) ==
  LET after == After(record, patches)
  IN  <<Is("insertUser", <<record>>, record), Is("findUser", <<record.id>>, record)>>
      \o FlattenSeq([n \in 1..Len(patches) |->
           <<Is("updateUser", <<record.id, patches[n], n - 1>>, after[n]),
             Is("findUser", <<record.id>>, after[n])>>])

Touch == [updatedAt |-> Now]

Versions ==
  LET patch == [updatedAt |-> Now, active |-> FALSE]
      other == [updatedAt |-> Later, active |-> TRUE, fields |-> "overwritten"]
  IN  <<Case("users.versionIncrements", {}, PatchedInTurn(Ada, <<patch>>)),
        Case("users.versionConflict", {},
          <<Insert(Ada), Runs("updateUser", <<1, patch, 0>>),
            Is("updateUser", <<1, other, 0>>, [code |-> "VERSION_CONFLICT", about |-> <<0, 1>>]),
            Is("findUser", <<1>>, Patch(Ada, patch))>>),
        Case("users.unknownUpdate", {},
          <<Is("updateUser", <<1, Touch, 0>>, [code |-> "NOT_FOUND", about |-> <<>>])>>)>>

secondFactor ==
  [method |-> "totp", secret |-> "sealed", confirmedAt |-> None, lastStep |-> None,
   recoveryCodes |-> <<>>]

recoveryCodes == <<"zHc", "Yg2", "mc2">>

Confirmed == [secondFactor EXCEPT !.confirmedAt = Earlier, !.lastStep = 7,
                                  !.recoveryCodes = recoveryCodes]

Named(factor) == [updatedAt |-> Now, secondFactor |-> factor]

SecondFactorSlot == Case("users.secondFactorSlot", {},
  PatchedInTurn([Ada EXCEPT !.secondFactor = secondFactor],
    <<Named(Confirmed), Touch,
      Named([Confirmed EXCEPT !.recoveryCodes = <<"zHc", "mc2">>]),
      Named([Confirmed EXCEPT !.recoveryCodes = <<>>]),
      Named([secondFactor EXCEPT !.recoveryCodes = recoveryCodes]),
      Named(None), Named(secondFactor)>>))

AvatarSlot == Case("users.avatarSlot", {},
  LET set(avatar) == [updatedAt |-> Now, avatar |-> avatar]
  IN  PatchedInTurn([Ada EXCEPT !.avatar = [id |-> "3f9c", updatedAt |-> Earlier]],
        <<Touch, set([id |-> "b7e2", updatedAt |-> Now]), set(None)>>)
      \o <<Is("insertUser", <<Bob>>, Bob)>>)

Patches ==
  LET whole == [Ada EXCEPT !.fields = "kept", !.emailVerifiedAt = Earlier,
                           !.secondFactor = [Confirmed EXCEPT !.recoveryCodes = <<"zHc", "Yg2">>]]
      moves == [updatedAt |-> Now, logins |-> {"moved"}]
  IN  <<Case("users.omission", {},
          PatchedInTurn(whole, <<[updatedAt |-> Now, schemaVersion |-> "2"]>>)),
        Case("users.passwordSlot", {},
          PatchedInTurn(Ada, <<Touch, [updatedAt |-> Later, password |-> None]>>)),
        SecondFactorSlot, AvatarSlot,
        Case("users.loginsMove", {},
          <<Insert(Ada), Insert(Bob), Runs("updateUser", <<1, moves, 0>>),
            Is("findUserByLogin", <<"user", "ada">>, None),
            Is("findUserByLogin", <<"user", "moved">>, Patch(Ada, moves)),
            Is("updateUser", <<2, moves, 0>>, [code |-> "LOGIN_TAKEN", about |-> <<"moved">>]),
            Is("findUser", <<2>>, Bob)>>)>>

Deletion == Case("users.delete", {},
  LET successor == userRecord(3, "ada")
  IN  <<Insert(Ada), Insert(Bob), Is("deleteUser", <<1>>, TRUE), Is("findUser", <<1>>, None),
        Is("findUserByLogin", <<"user", "ada">>, None), Is("deleteUser", <<1>>, FALSE),
        Is("findUser", <<2>>, Bob), Is("insertUser", <<successor>>, successor)>>)

Batches ==
  LET patient == [Ada EXCEPT !.type = "staff"]
  IN  <<Case("users.findUsers", {"findUsers"},
          <<Insert(patient), Insert(Bob), Insert(userRecord(3, "edge")),
            Is("findUsers", <<{1, 2, 4}>>, {patient, Bob})>>),
        Case("users.findUsersNone", {"findUsers"},
          <<Insert(Ada), Is("findUsers", <<{3, 4}>>, {})>>)>>

(* Three of one type by two, newest first, between two of another.         *)
Pagination == Case("users.pagination", {},
  LET staff(id, login) == [userRecord(id, login) EXCEPT !.type = "staff"]
      page(items, next) == [items |-> items, next |-> next]
  IN  <<Insert(userRecord(5, "moved")), Insert(staff(4, "edge")),
        Insert(userRecord(3, "contested")), Insert(staff(2, "bob")), Insert(Ada),
        Is("listUsers", <<"user", None, 2>>, page(<<1, 3>>, 3)),
        Is("listUsers", <<"user", 3, 2>>, page(<<5>>, None)),
        Is("listUsers", <<"user", 0, 3>>, page(<<1, 3, 5>>, None))>>)

userStoreCases ==
  Reads \o <<IdempotentInsert, Uniqueness>> \o Versions \o Patches
    \o <<Deletion, Pagination>> \o Batches

-----------------------------------------------------------------------------
(* Sessions.                                                               *)

Standing == sessionRecord(1)
Signs(id, record) == Runs("insertSession", <<id, record>>)
FindsSession(id, record) == Is("findSessionByTokenHash", <<id>>, record)

SessionInserts == Case("sessions.idempotentInsert", {},
  <<Signs("s1", Standing), Signs("s1", [Standing EXCEPT !.expiresAt = Farther]),
    FindsSession("s1", Standing)>>)

SessionReads ==
  LET revoked == RevokedAt(Standing, Earlier)
      lapsed  == [Standing EXCEPT !.expiresAt = Past]
  IN  Case("sessions.verbatim", {},
        <<Signs("s1", Standing), Signs("s2", revoked), Signs("s3", lapsed),
          FindsSession("s1", Standing), FindsSession("s2", revoked),
          OneOf("findSessionByTokenHash", <<"s3">>, {lapsed, None}),
          FindsSession("s4", None)>>)

(* What extends or confirms a session, and the revoked one it leaves.      *)
StandingCase(id, method, at, written, read) ==
  LET revoked == RevokedAt(Standing, Earlier)
  IN  Case(id, {},
        <<Signs("s1", Standing), Signs("s2", revoked), Is(method, <<"s1", at>>, written)>>
        \o read
        \o <<Is(method, <<"s2", at>>, None), FindsSession("s2", revoked),
             Is(method, <<"s3", at>>, None)>>)

Extension ==
  StandingCase("sessions.extend", "extendSession", Farther,
               [Standing EXCEPT !.expiresAt = Farther], <<>>)

Reauthentication ==
  LET confirmed == [Standing EXCEPT !.authenticatedAt = Now]
  IN  <<StandingCase("sessions.reauthenticate", "reauthenticateSession", Now, confirmed,
                     <<FindsSession("s1", confirmed)>>),
        Case("sessions.reauthenticateRace", {},
          <<Signs("s1", Standing),
            Step(<<Call("reauthenticateSession", <<"s1", Now>>),
                   Call("revokeSession", <<"s1", Now>>)>>, Unheard, {}),
            OneOf("findSessionByTokenHash", <<"s1">>,
                  {RevokedAt(Standing, Now), RevokedAt(confirmed, Now)})>>)>>

SessionDeletion ==
  LET lapsed  == [Standing EXCEPT !.expiresAt = Past]
      revoked == RevokedAt(Standing, Earlier)
      living  == [Standing EXCEPT !.expiresAt = Lapse + 1]
  IN  <<Case("sessions.deleteUser", {},
          <<Signs("s1", Standing), Signs("s2", revoked), Signs("s3", lapsed),
            Signs("s4", sessionRecord(2)),
            Keeps("findSessionByTokenHash", <<"s3">>),
            Together(<<Call("deleteUserSessions", <<1>>)>>, {<<lapsed, 3>>, <<None, 2>>}),
            FindsSession("s1", None), FindsSession("s2", None), FindsSession("s3", None),
            FindsSession("s4", sessionRecord(2)), Is("deleteUserSessions", <<1>>, 0)>>),
        Case("sessions.deleteExpired", {"deleteExpiredSessions"},
          <<Signs("s1", [Standing EXCEPT !.expiresAt = Lapse]), Signs("s2", living),
            Is("deleteExpiredSessions", <<Lapse>>, 1),
            FindsSession("s1", None), FindsSession("s2", living)>>)>>

Revocation ==
  LET once == RevokedAt(Standing, Now)
      already == RevokedAt(Standing, Earlier)
  IN  <<Case("sessions.revoke", {},
          <<Signs("s1", Standing), Is("revokeSession", <<"s1", Now>>, TRUE),
            Is("revokeSession", <<"s1", Later>>, TRUE), FindsSession("s1", once),
            Is("revokeSession", <<"s2", Now>>, FALSE)>>),
        Case("sessions.revokeUser", {},
          <<Signs("s1", Standing), Signs("s2", Standing), Signs("s3", already),
            Signs("s4", sessionRecord(2)),
            Is("revokeUserSessions", <<1, Now, {"s1"}>>, 1),
            FindsSession("s1", Standing), FindsSession("s3", already),
            FindsSession("s4", sessionRecord(2)),
            Is("revokeUserSessions", <<1, Now, {}>>, 1),
            Is("revokeUserSessions", <<3, Now, {}>>, 0)>>)>>

sessionStoreCases ==
  <<SessionInserts, SessionReads, Extension>> \o Reauthentication \o SessionDeletion \o Revocation

-----------------------------------------------------------------------------
(* Tokens.                                                                 *)

KINDS == <<"verifyEmail", "resetPassword", "secondFactor", "signInCode", "magicLink",
           "stepUp", "changeEmail">>

Issues(hash, token) == Runs("insertToken", <<hash, token>>)
Consumes(hash, kind, answer) == Is("consumeToken", <<hash, kind, Now>>, answer)
Counts(hash, kind, answer)   == Is("countAttempt", <<hash, kind>>, answer)

Reset == tokenRecord("resetPassword", 1)
Code  == tokenRecord("signInCode", 1)
Coded == [Code EXCEPT !.codeHash = "code"]

TokenInserts ==
  LET challenge == [tokenRecord("secondFactor", 1) EXCEPT !.address = ""]
      lapsed    == [Reset EXCEPT !.expiresAt = Past]
  IN  <<Case("tokens.challenge", {},
          <<Issues("t1", challenge), Counts("t1", "secondFactor", Attempted(challenge, 1)),
            Consumes("t1", "secondFactor", Attempted(challenge, 1))>>),
        Case("tokens.lapsed", {},
          <<Issues("t1", lapsed), Keeps("consumeToken", <<"t1", "resetPassword", Now>>),
            Together(<<Call("consumeToken", <<"t1", "resetPassword", Now>>)>>,
                     {<<lapsed, Spent(lapsed, Now)>>, <<None, None>>})>>),
        Case("tokens.idempotentInsert", {},
          <<Issues("t1", Reset), Issues("t1", [Reset EXCEPT !.address = "other"]),
            Consumes("t1", "resetPassword", Reset)>>)>>

TokenRedemption ==
  LET verify == tokenRecord("verifyEmail", 1)
  IN  <<Case("tokens.consume", {},
          <<Issues("t1", Reset), Consumes("t1", "resetPassword", Reset),
            Is("consumeToken", <<"t1", "resetPassword", Later>>, Spent(Reset, Now))>>),
        Case("tokens.concurrency", {},
          <<Issues("t1", Reset),
            Together(Crowded(Call("consumeToken", <<"t1", "resetPassword", Now>>)),
              {[i \in 1..Crowd |-> IF i = first THEN Reset ELSE Spent(Reset, Now)] :
                 first \in 1..Crowd})>>),
        Case("tokens.kind", {},
          <<Issues("t1", verify), Consumes("t1", "resetPassword", None),
            Is("consumeToken", <<"t1", "verifyEmail", Later>>, verify),
            Consumes("t2", "resetPassword", None)>>)>>

(* The one spendUserTokens spends, and the answers 0 to it alone.          *)
Spends(userId, kind, except, n) == Is("spendUserTokens", <<userId, kind, Now, except>>, n)

TokenSpending ==
  LET second == Attempted(Code, 2)
      spent  == Spent(Code, Earlier)
      other  == tokenRecord("signInCode", 2)
      spentNow(n, redeemed) == <<n, redeemed>>
  IN  <<Case("tokens.spendUserTokens", {},
          <<Issues("t1", Code), Issues("t2", second), Issues("t3", spent),
            Issues("t4", Reset), Issues("t5", other),
            Spends(1, "signInCode", {}, 2),
            Consumes("t1", "signInCode", Spent(Code, Now)),
            Consumes("t2", "signInCode", Spent(second, Now)),
            Consumes("t3", "signInCode", spent),
            Consumes("t4", "resetPassword", Reset),
            Consumes("t5", "signInCode", other),
            Spends(1, "signInCode", {}, 0), Spends(3, "signInCode", {}, 0)>>),
        Case("tokens.spendUserTokensExcept", {},
          <<Issues("t1", Code), Issues("t2", Code), Issues("t3", Code),
            Spends(1, "signInCode", {"t1"}, 2), Consumes("t1", "signInCode", Code),
            Consumes("t2", "signInCode", Spent(Code, Now)),
            Consumes("t3", "signInCode", Spent(Code, Now))>>),
        Case("tokens.spendUserTokensRace", {},
          <<Issues("t1", Code),
            Together(<<Call("spendUserTokens", <<1, "signInCode", Now, {}>>),
                       Call("consumeToken", <<"t1", "signInCode", Now>>)>>,
                     {spentNow(1, Spent(Code, Now)), spentNow(1, None), spentNow(0, Code)})>>)>>

(* Two kinds of one user, apart: neither is counted, redeemed nor spent as *)
(* the other.                                                              *)
KindsApart(id, kind, token, otherKind, other, crossed) ==
  Case(id, {},
    <<Issues("t1", token), Issues("t2", other)>> \o crossed
    \o <<Spends(1, kind, {}, 1), Consumes("t2", otherKind, other)>>)

TokenKinds ==
  LET stepUp == tokenRecord("stepUp", 1)
      link   == tokenRecord("magicLink", 1)
      change == [tokenRecord("changeEmail", 1) EXCEPT !.codeHash = "code"]
      verify == tokenRecord("verifyEmail", 1)
      coded(kind) == [tokenRecord(kind, 1) EXCEPT !.codeHash = "code"]
  IN  <<Case("tokens.everyKind", {},
          FlattenSeq([i \in DOMAIN KINDS |->
            LET hash == <<"t1", "t2", "t3", "t4", "t5", "t6", "t7">>[i]
            IN  <<Issues(hash, coded(KINDS[i])),
                  Counts(hash, KINDS[i], Attempted(coded(KINDS[i]), 1)),
                  Consumes(hash, KINDS[i], Attempted(coded(KINDS[i]), 1))>>])),
        KindsApart("tokens.stepUpKind", "stepUp", stepUp, "signInCode", Code,
          <<Counts("t1", "signInCode", None), Consumes("t2", "stepUp", None)>>),
        KindsApart("tokens.magicLinkKind", "magicLink", link, "signInCode", Coded,
          <<Consumes("t2", "magicLink", None), Counts("t1", "signInCode", None)>>),
        KindsApart("tokens.changeEmailKind", "changeEmail", change, "verifyEmail", verify,
          <<Consumes("t2", "changeEmail", None), Consumes("t1", "verifyEmail", None),
            Counts("t1", "verifyEmail", None)>>)>>

Attempt == Call("countAttempt", <<"t1", "signInCode">>)
Redeem  == Call("consumeToken", <<"t1", "signInCode", Now>>)

(* What two attempts around a redemption and a read after them may answer: *)
(* the unspent answers count one by one up to the final count, the spent   *)
(* ones carry it.                                                          *)
RaceAnswers ==
  LET counts == 0..2
      token  == {Attempted(Code, n) : n \in counts}
      spent  == {Spent(t, Now) : t \in token}
  IN  {<<first, redeemed, second, final>> \in
         (token \cup spent) \X (token \cup spent) \X (token \cup spent) \X spent :
         LET attempts == {<<1, first>>, <<2, second>>}
             unspent  == {a \in attempts : a[2].spentAt = None}
         IN  /\ {a[2].attempts : a \in unspent} = 1..final.attempts
             /\ Cardinality(unspent) = final.attempts
             /\ \A a \in attempts \ unspent : a[2].attempts = final.attempts}

TokenAttempts ==
  LET factor == tokenRecord("secondFactor", 1)
      spent  == Attempted(Spent(Code, Earlier), 3)
      orders == {p \in [1..Crowd -> 1..Crowd] : {p[i] : i \in 1..Crowd} = 1..Crowd}
  IN  <<Case("tokens.countAttempt", {},
          <<Issues("t1", Coded), Counts("t1", "signInCode", Attempted(Coded, 1)),
            Counts("t1", "signInCode", Attempted(Coded, 2)),
            Consumes("t1", "signInCode", Attempted(Coded, 2))>>),
        Case("tokens.countAttemptConcurrency", {},
          <<Issues("t1", factor),
            Together(Crowded(Call("countAttempt", <<"t1", "secondFactor">>)),
                     {[i \in 1..Crowd |-> Attempted(factor, p[i])] : p \in orders})>>),
        Case("tokens.countAttemptRace", {},
          <<Issues("t1", Code), AtOnce(<<Attempt, Redeem, Attempt>>),
            Together(<<Redeem>>, RaceAnswers)>>),
        Case("tokens.countAttemptSpent", {},
          <<Issues("t1", spent), Issues("t2", Reset),
            Counts("t1", "signInCode", spent), Counts("t1", "signInCode", spent),
            Counts("t2", "signInCode", None), Consumes("t2", "resetPassword", Reset),
            Counts("t3", "signInCode", None)>>)>>

TokenDeletion ==
  LET verify == tokenRecord("verifyEmail", 1)
      other  == tokenRecord("resetPassword", 2)
      lapses(token, at) == [token EXCEPT !.expiresAt = at]
  IN  <<Case("tokens.deleteUser", {},
          <<Issues("t1", Reset), Issues("t2", verify), Issues("t3", Spent(Reset, Earlier)),
            Issues("t4", other), Is("deleteUserTokens", <<1>>, 3),
            Consumes("t1", "resetPassword", None), Consumes("t2", "verifyEmail", None),
            Consumes("t3", "resetPassword", None), Consumes("t4", "resetPassword", other),
            Is("deleteUserTokens", <<1>>, 0)>>),
        Case("tokens.deleteExpired", {"deleteExpiredTokens"},
          LET living == lapses(Reset, Lapse + 1) IN
          <<Issues("t1", lapses(Reset, Lapse)), Issues("t2", lapses(Spent(Reset, Past), Lapse)),
            Issues("t3", living), Issues("t4", Spent(living, Past)),
            Is("deleteExpiredTokens", <<Lapse>>, 2),
            Counts("t1", "resetPassword", None), Counts("t2", "resetPassword", None),
            Counts("t3", "resetPassword", Attempted(living, 1)),
            Counts("t4", "resetPassword", Spent(living, Past)),
            Is("deleteExpiredTokens", <<Lapse>>, 0)>>)>>

tokenStoreCases ==
  TokenInserts \o TokenRedemption \o TokenKinds \o TokenAttempts \o TokenSpending \o TokenDeletion

-----------------------------------------------------------------------------
(* Each method whose honest answer can be nothing, asked of a store that   *)
(* holds something and cannot answer (cases/outage.ts).                    *)
outage(method, needs, args) ==
  [id |-> "outage", needs |-> {"faults"} \cup needs, fails |-> method, sound |-> 3,
   steps |-> <<Insert(Ada), Signs("s1", Standing), Issues("t1", Reset),
               Is(method, args, Failure)>>]

outageCases ==
  <<outage("findUser", {}, <<1>>),
    outage("findUsers", {"findUsers"}, <<{1}>>),
    outage("findUserByLogin", {}, <<"user", "ada">>),
    outage("listUsers", {}, <<"user", None, 10>>),
    outage("findSessionByTokenHash", {}, <<"s1">>),
    outage("extendSession", {}, <<"s1", Farther>>),
    outage("reauthenticateSession", {}, <<"s1", Now>>),
    outage("revokeSession", {}, <<"s1", Now>>),
    outage("revokeUserSessions", {}, <<1, Now, {}>>),
    outage("consumeToken", {}, <<"t1", "resetPassword", Now>>),
    outage("countAttempt", {}, <<"t1", "resetPassword">>),
    outage("spendUserTokens", {}, <<1, "resetPassword", Now, {}>>),
    outage("deleteUser", {}, <<1>>),
    outage("deleteUserSessions", {}, <<1>>),
    outage("deleteUserTokens", {}, <<1>>),
    outage("deleteExpiredTokens", {"deleteExpiredTokens"}, <<Now>>)>>

allCases == userStoreCases \o sessionStoreCases \o tokenStoreCases \o outageCases
=============================================================================
