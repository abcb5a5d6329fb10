------------------------------ MODULE Conformance ------------------------------
(***************************************************************************)
(* The conformance suite run against an adapter (packages/janus/src/       *)
(* conformance/describe.ts): each case on stores of its own, its steps in  *)
(* order, the calls of a step at once.  Beside the suite's cases, races of *)
(* two or three calls, which must answer as some order of the port's       *)
(* atomic methods answers.                                                 *)
(***************************************************************************)
EXTENDS StoreAdapters

CONSTANTS Backends, Crowd

Cases == INSTANCE StoreCases
Ports == INSTANCE PortCases

VARIABLES
  number,      \* the case, of allCases and then of Races
  position,    \* the step it is at
  heard,       \* what the steps kept so far have answered
  opened,      \* the stores as the step began
  dropped      \* the TTL monitor has dropped a record of this case

suiteVars == <<backend, kept, calls, fails, number, position, heard, opened, dropped>>

-----------------------------------------------------------------------------
(* Calls a server makes at once of one user, one token or one session.     *)

Moving(id, logins, version) ==
  Call("updateUser", <<id, [updatedAt |-> Now, logins |-> logins], version>>)
SignsUp(id, logins) ==
  Call("insertUser", <<[Cases!userRecord(id, "ada") EXCEPT !.logins = logins]>>)
Retried == Call("insertUser", <<Cases!Ada>>)
Deleted == Call("deleteUser", <<1>>)
Renamed(value) == Call("updateUser", <<1, [updatedAt |-> Now, fields |-> value], 0>>)
Spending == Call("spendUserTokens", <<1, "signInCode", Now, {}>>)
Opening(id) == Call("insertSession", <<id, Cases!Standing>>)
SignOut == Call("revokeUserSessions", <<1, Now, {}>>)

AtOnce(id, before, racing) ==
  [id |-> id, needs |-> {}, fails |-> "nothing", sound |-> 0,
   steps |-> Append(before, Cases!Step(racing, "serial", {}))]

Two == <<Cases!Insert(Cases!Ada), Cases!Insert(Cases!Bob)>>
Codes == <<Cases!Issues("t1", Cases!Code), Cases!Issues("t2", Cases!Code)>>
SignedIn == <<Cases!Signs("s1", Cases!Standing), Cases!Signs("s2", Cases!Standing)>>

UserRaces ==
  <<AtOnce("swap", Two, <<Moving(1, {"bob"}, 0), Moving(2, {"ada"}, 0)>>),
    AtOnce("claims", Two, <<Moving(1, {"contested", "moved"}, 0), Moving(2, {"contested", "moved"}, 0)>>),
    AtOnce("claim", <<Cases!Insert(Cases!userRecord(1, "moved"))>>,
           <<Moving(1, {"ada"}, 0), SignsUp(3, {"ada", "moved"})>>),
    AtOnce("sign-ups", <<>>,
           <<SignsUp(1, {"ada", "moved"}), SignsUp(2, {"bob", "moved"}), SignsUp(3, {"ada", "bob"})>>),
    AtOnce("retry", <<>>, <<Retried, Retried, SignsUp(2, {"ada"})>>),
    AtOnce("retry of a deleted user", Two, <<Retried, Deleted>>),
    AtOnce("successor", Two, <<Deleted, SignsUp(3, {"ada"}), Moving(2, {"ada"}, 0)>>),
    AtOnce("updates", Two, <<Renamed("one"), Renamed("two"), Deleted>>),
    AtOnce("reads", Two, <<Moving(1, {"moved"}, 0), Call("findUserByLogin", <<"user", "ada">>),
                           Call("findUserByLogin", <<"user", "moved">>)>>)>>

Lapsing == [Cases!Standing EXCEPT !.expiresAt = Cases!Past]
Collected(id, racing, method) ==
  [AtOnce(id, <<Cases!Signs("s1", Lapsing), Cases!Signs("s2", Lapsing),
                Cases!Issues("t1", Cases!Code), Cases!Issues("t2", Cases!Code)>>, racing)
     EXCEPT !.needs = {method}]

OtherRaces ==
  <<Collected("collected sessions",
              <<Call("deleteExpiredSessions", <<Now>>), Call("extendSession", <<"s1", Cases!Farther>>),
                SignOut>>, "deleteExpiredSessions"),
    Collected("collected tokens",
              <<Call("deleteExpiredTokens", <<Cases!Farther>>), Spending, Cases!Redeem>>,
              "deleteExpiredTokens"),
    AtOnce("codes", Codes, <<Spending, Cases!Redeem, Cases!Attempt>>),
    AtOnce("restarts", Codes, <<Spending, Spending, Cases!Redeem>>),
    AtOnce("new code", Codes, <<Spending, Call("insertToken", <<"t3", Cases!Code>>), Cases!Redeem>>),
    AtOnce("forgotten", Codes, <<Call("deleteUserTokens", <<1>>), Cases!Redeem, Cases!Attempt>>),
    AtOnce("sign-out", SignedIn, <<SignOut, Call("extendSession", <<"s1", Cases!Farther>>),
                                   Call("reauthenticateSession", <<"s2", Now>>)>>),
    AtOnce("sign-outs", SignedIn, <<SignOut, SignOut, Call("revokeSession", <<"s1", Now>>)>>),
    AtOnce("signed in again", SignedIn,
           <<Opening("s1"), Call("deleteUserSessions", <<1>>), Opening("s3")>>)>>

All == Cases!allCases \o UserRaces \o OtherRaces
         \o Ports!allRelationCases \o Ports!allWebhookQueueCases

-----------------------------------------------------------------------------
(* Whether an adapter has what a case needs, and the ports it does not     *)
(* provide: users and tuples over Redis (janus-redis conformance.spec.ts), *)
(* deliveries in PostgreSQL or MongoDB.                                    *)
provides(b, need) ==
  CASE need = "faults" -> TRUE
    [] need = "findUsers" -> TRUE
    [] OTHER -> b \in {"memory", "drizzle"}

NotItsOwn(b, n) ==
  LET asked == {call.method : call \in Range(Last(All[n].steps).calls)}
  IN  \/ b = "redis" /\ asked \cap (UserMethods \cup Tuples!RelationMethods) # {}
      \/ b \in {"drizzle", "mongo"} /\ asked \cap Deliveries!QueueMethods # {}

Runnable(b, n) == ~NotItsOwn(b, n) /\ \A need \in All[n].needs : provides(b, need)

Steps == All[number].steps
Current == Steps[position]

OpenCase(b, n) ==
  /\ backend = b /\ number = n
  /\ kept = Opened(b) /\ opened = Opened(b)
  /\ calls = <<>> /\ fails = "nothing"
  /\ position = 0 /\ heard = <<>> /\ dropped = FALSE

Asked == {<<b, n>> \in Backends \X DOMAIN All : Runnable(b, n)}

SuiteInit == \E asked \in Asked : OpenCase(asked[1], asked[2])

Answered == [i \in DOMAIN calls |-> calls[i].answer]

(* What the case compares at this step.                                    *)
Transcript == heard \o Answered

(* The step over, the next begins; the last one runs under its fault.      *)
NextStep ==
  /\ AllDone /\ position < Len(Steps)
  /\ position' = position + 1
  /\ calls' = [i \in DOMAIN Steps[position'].calls |-> Fresh(Steps[position'].calls[i])]
  /\ heard' = IF position > 0 /\ Current.judged = Cases!Kept THEN Transcript
              ELSE IF position > 0 /\ Current.judged = Cases!Unheard THEN heard ELSE <<>>
  /\ opened' = kept
  /\ fails' = IF position' > All[number].sound THEN All[number].fails ELSE "nothing"
  /\ UNCHANGED <<backend, kept, number, dropped>>

CallStep ==
  /\ \E i \in DOMAIN calls : Statement(i)
  /\ UNCHANGED <<backend, fails, number, position, heard, opened, dropped>>

ExpiryStep ==
  /\ MonitorDrops
  /\ dropped' = TRUE
  /\ UNCHANGED <<backend, fails, number, position, heard, opened>>

SuiteNext == NextStep \/ CallStep \/ ExpiryStep

-----------------------------------------------------------------------------
(* A lapsed record that a case reads twice may be dropped between its      *)
(* reads: the suite allows it at the first read only.                      *)
ReadTwice == {"tokens.lapsed", "sessions.deleteUser"}

Judged == position > 0 /\ AllDone /\ Current.judged = "judged"

SuitePasses ==
  Judged => \/ Transcript \in Current.allowed
            \/ dropped /\ All[number].id \in ReadTwice

(* One order of the calls, each an atomic method of the port.              *)
InOrder(order) ==
  LET after[n \in 0..Len(order)] ==
        IF n = 0 THEN [stores |-> Seen(backend, opened), answer |-> None]
        ELSE Apply(after[n - 1].stores, calls[order[n]].call)
  IN  after

(* What a retry found is deleted before it is read: NOT_FOUND of Drizzle,  *)
(* an error of MongoDB.                                                    *)
RetriedNothing(i) ==
  /\ backend = "drizzle" /\ Method(i) = "insertUser"
  /\ calls[i].answer = NotFound

Heard == {i \in DOMAIN calls : calls[i].answer # Failure /\ ~RetriedNothing(i)}

Orders == {order \in [1..Cardinality(Heard) -> Heard] : IsInjective(order)}

(* A conflict may name any of the logins that are taken.                   *)
SameAnswer(method, given, expected) ==
  \/ given = expected
  \/ /\ method \in {"insertUser", "updateUser"}
     /\ "code" \in DOMAIN given /\ "code" \in DOMAIN expected
     /\ given.code = "LOGIN_TAKEN" /\ expected.code = "LOGIN_TAKEN"

(* Two writes of the same documents share what they count.                 *)
CountedBy(answer(_), method) ==
  FoldSet(LAMBDA i, n : n + answer(i), 0, {i \in Heard : Method(i) = method})

Shared2(i) == backend = "mongo" /\ Method(i) \in MANY

AnswersAs(order) ==
  LET after == InOrder(order)
      place(i) == CHOOSE n \in DOMAIN order : order[n] = i
      expected(i) == after[place(i)].answer
      given(i) == calls[i].answer
  IN  /\ after[Len(order)].stores = Seen(backend, kept)
      /\ \A i \in Heard :
           IF Shared2(i) THEN CountedBy(given, Method(i)) = CountedBy(expected, Method(i))
           ELSE SameAnswer(Method(i), given(i), expected(i))

(* Two calls that may make one fail, whole, with nothing of it written:    *)
(* a retry of what is deleted; in PostgreSQL an update that moves logins   *)
(* and another claim of them, or two writes of the same rows, which        *)
(* deadlock.                                                               *)
MovesLogins(i) == Method(i) = "updateUser" /\ "logins" \in DOMAIN Arg(i, 2)

Asks(method) == \E i \in DOMAIN calls : Method(i) = method

MayFail ==
  \/ backend = "drizzle" /\ \E i \in DOMAIN calls : MovesLogins(i)
  \/ backend = "drizzle" /\ \E i, j \in DOMAIN calls : i # j /\ InMany(i) /\ InMany(j)
  \/ backend \in {"drizzle", "mongo"} /\ Asks("insertUser") /\ Asks("deleteUser")
  \/ backend = "mongo" /\ Asks("insertSession") /\ Asks("deleteUserSessions")

RaceOver == position > 0 /\ AllDone /\ Current.judged = "serial"

RacesSerial ==
  RaceOver => /\ \E order \in Orders : AnswersAs(order)
              /\ (Heard # DOMAIN calls => MayFail)
              /\ Cardinality(DOMAIN calls \ Heard) <= 1
=============================================================================
