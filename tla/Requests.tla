-------------------------------- MODULE Requests --------------------------------
(***************************************************************************)
(* One GraphQL server answering its operations (janus-graphql/src): the    *)
(* lazy authentication every field of an operation shares (context.ts),    *)
(* the guard before each field's resolver (directives/guard.ts), the       *)
(* permission checks it asks (directives/permission/enforce.ts) through    *)
(* the request's memo (memo.ts), subscriptions that ask again on every     *)
(* event (directives/apply.ts), connections of graphql-ws (connection),    *)
(* and the renewed cookie on the HTTP response (renewal.ts).               *)
(*                                                                         *)
(* Fields run at once: a field is a task of its operation, and every await *)
(* of its guard is a place where the others, and the world, may move.      *)
(***************************************************************************)
EXTENDS RequestWorld

CONSTANT MaxEvents    \* bound: events of a subscription

VARIABLES
    context,     \* operation -> what authenticate answered, the memo, the events
    task         \* operation -> field -> how far its guard got

Operations == {r \in Requests : app.requests[r].kind # "route"}
Streams(o) == app.requests[o].kind = "subscription"
Root(o)    == app.requests[o].root

NewContext == [asked |-> "no", known |-> Anonymous, memo |-> <<>>, events |-> 0]

NotStarted ==
    [pc |-> "idle", k |-> 0, waits |-> {}, denied |-> FALSE, outcome |-> "none", mark |-> 0]

-----------------------------------------------------------------------------
(* What a field requires: its directives, or the helper can() its resolver *)
(* calls, which asks the memo and answers false to the anonymous.          *)

AskedByHelper(config, field, server) ==
    [open |-> TRUE, types |-> AnyUser, maxAge |-> NoAge,
     permissions |-> [i \in DOMAIN field.asks |->
        PermissionCheckOf(config, Located(field.asks[i], FALSE), field, server)]]

RequiredOf(config, field, server) ==
    IF Guarded(field) THEN RequirementOf(config, field, server)
    ELSE AskedByHelper(config, field, server)

\* An event does not ask a subscription's freshness again: its session stands.
Requirement(o, f) ==
    IF Streams(o) /\ f = Root(o) /\ context[o].events > 0
      THEN [app.requires[f] EXCEPT !.maxAge = NoAge]
      ELSE app.requires[f]

Check(o, f) == Requirement(o, f).permissions[task[o][f].k]

\* A subscription subscribes, then runs every field of each event.
Running(o) ==
    IF Streams(o) /\ context[o].events = 0 THEN {Root(o)} ELSE app.requests[o].fields

(* Mutant: the checks of a subscription ask the memo.                      *)
OnlyCtxSkips(o, check) == check.condition

\* A guard's check in a subscription skips the memo, and so does one whose
\* condition takes a ctx, which a key does not hold.
SkipsMemo(o, check) == (Streams(o) /\ check.onDeny # "no") \/ check.condition

KeyOf(check, id) == <<check.type, id, check.name>>

-----------------------------------------------------------------------------
(* The steps of a task.                                                    *)

Ended(t, outcome) == [t EXCEPT !.pc = "done", !.outcome = outcome, !.waits = {}]

\* Permissions are asked in order, one at a time.
Turn(o, f, k) ==
    LET checks == Requirement(o, f).permissions IN
    IF k > Len(checks) THEN Ended(task[o][f], "resolved")
    ELSE IF checks[k].targets = Nothing THEN Ended(task[o][f], "NOT_FOUND")
    ELSE [task[o][f] EXCEPT !.pc = "load", !.k = k, !.mark = faults]

\* A resolver that runs may set the session cookie, a sign-in or a sign-out, while
\* the response is not sent: a stream's events come after its headers.
Ran(o, f, t) ==
    LET http == app.requests[o].http IN
    /\ task' = [task EXCEPT ![o][f] = t]
    /\ response' = IF /\ t.outcome = "resolved" /\ app.schema[f].signs
                      /\ ~response[http].done
                     THEN [response EXCEPT ![http].sent = Append(@, "own")]
                     ELSE response

Idle == UNCHANGED <<world, connection, phase, could>>

\* The types, then the freshness of the session as it was authenticated.
Judged(required, known) ==
    IF known = Anonymous THEN IF required.open THEN "no" ELSE "UNAUTHENTICATED"
    ELSE IF required.types # AnyUser /\ known.user.type \notin required.types
      THEN "FORBIDDEN"
    ELSE IF required.maxAge # NoAge /\ ~Fresh(known.provenAt, required.maxAge, now)
      THEN "STEP_UP_REQUIRED"
    ELSE "passes"

\* user(): authenticate runs the first time it is asked, once.
Start(o, f) ==
    LET required == Requirement(o, f) IN
    /\ phase[o] = "open" /\ f \in Running(o) /\ task[o][f].pc = "idle"
    /\ IF required.open /\ required.permissions = <<>>
         THEN Ran(o, f, Ended(task[o][f], "resolved")) /\ UNCHANGED context
         ELSE /\ Ran(o, f, [task[o][f] EXCEPT !.pc = "user", !.mark = faults])
              /\ context' = IF context[o].asked = "no"
                              THEN [context EXCEPT ![o].asked = "asking"] ELSE context
    /\ UNCHANGED faults /\ Idle

\* Its answer, or its failure, is every field's from then on.
Settle(o) ==
    /\ context[o].asked = "asking"
    /\ \/ /\ \E known \in Authenticate(session, TokenOf(o)) :
               context' = [context EXCEPT ![o].asked = "answered", ![o].known = known]
          /\ UNCHANGED faults
       \/ /\ TokenOf(o) # None
          /\ Fails /\ context' = [context EXCEPT ![o].asked = "failed"]
    /\ UNCHANGED <<task, response>> /\ Idle

Admit(o, f) ==
    LET judged == Judged(Requirement(o, f), context[o].known)
    IN  /\ task[o][f].pc = "user" /\ context[o].asked \in {"answered", "failed"}
        /\ Ran(o, f, IF context[o].asked = "failed" THEN Ended(task[o][f], "SERVICE_UNAVAILABLE")
                     ELSE IF judged # "passes" THEN Ended(task[o][f], judged)
                     ELSE Turn(o, f, 1))
        /\ UNCHANGED <<context, faults>> /\ Idle

\* The memo holds the promise of a question from the moment it is asked.
NowAsked(o, check) ==
    LET memo  == context[o].memo
        asked == {KeyOf(check, id) : id \in Named(check)}
    IN  IF SkipsMemo(o, check) THEN context
        ELSE [context EXCEPT ![o].memo =
                [key \in DOMAIN memo \cup asked |->
                   IF key \in DOMAIN memo THEN memo[key]
                   ELSE [answer |-> "asking", check |-> check]]]

\* What a memo already answered to the questions of a check.
AlreadyAnswered(o, check, answer) ==
    IF SkipsMemo(o, check) THEN {}
    ELSE {id \in Named(check) :
            /\ KeyOf(check, id) \in DOMAIN context[o].memo
            /\ context[o].memo[KeyOf(check, id)].answer = answer}

\* The objects are found, all at once, before any is asked about.  What a loader
\* throws is the application's own, and masked.
Load(o, f) ==
    LET check == Check(o, f) IN
    /\ task[o][f].pc = "load"
    /\ \/ /\ check.load /\ Fails
          /\ Ran(o, f, Ended(task[o][f], "INTERNAL_SERVER_ERROR"))
          /\ UNCHANGED context
       \/ /\ check.load /\ Named(check) \cap app.missing # {}
          /\ Ran(o, f, Ended(task[o][f], "NOT_FOUND"))
          /\ UNCHANGED <<context, faults>>
       \/ /\ ~check.load \/ Named(check) \cap app.missing = {}
          /\ Ran(o, f, [task[o][f] EXCEPT
                          !.pc = "ask", !.mark = faults,
                          !.waits = Named(check) \ (AlreadyAnswered(o, check, "yes")
                                                      \cup AlreadyAnswered(o, check, "no")),
                          !.denied = AlreadyAnswered(o, check, "no") # {}])
          /\ context' = NowAsked(o, check)
          /\ UNCHANGED faults
    /\ Idle

-----------------------------------------------------------------------------
(* The answers of access.can.                                              *)

Heard(t, id, answer) ==
    IF answer \in {"yes", "no"}
      THEN [t EXCEPT !.waits = @ \ {id}, !.denied = @ \/ answer = "no"]
      ELSE Ended(t, IF answer = "depth" THEN "PERMISSION_DEPTH" ELSE answer)

Waits(o, f, key) ==
    /\ task[o][f].pc = "ask"
    /\ ~SkipsMemo(o, Check(o, f))
    /\ \E id \in task[o][f].waits : KeyOf(Check(o, f), id) = key

\* An answer is remembered; a failure is not, and the next question asks again.
Remembered(memo, key, answer) ==
    IF answer \in {"yes", "no"} THEN [memo EXCEPT ![key].answer = answer]
    ELSE [other \in DOMAIN memo \ {key} |-> memo[other]]

\* What one call answers: what the tuples say, or a failure of the store.
Answered(o, check, id, answer) ==
    \/ /\ answer \in CanAsked(tuples, context[o].known.user, check, id)
       /\ UNCHANGED faults
    \/ answer = "SERVICE_UNAVAILABLE" /\ Fails

\* Every field waiting for the question hears the one call's answer.
AnswerMemo(o, key) ==
    /\ context[o].memo[key].answer = "asking"
    /\ \E answer \in Answers \cup {"SERVICE_UNAVAILABLE"} :
         /\ Answered(o, context[o].memo[key].check, key[2], answer)
         /\ context' = [context EXCEPT ![o].memo = Remembered(@, key, answer)]
         /\ task' = [task EXCEPT ![o] = [f \in DOMAIN @ |->
                       IF Waits(o, f, key) THEN Heard(@[f], key[2], answer) ELSE @[f]]]
    /\ UNCHANGED response /\ Idle

AnswerOwn(o, f, id) ==
    /\ task[o][f].pc = "ask" /\ id \in task[o][f].waits
    /\ SkipsMemo(o, Check(o, f))
    /\ \E answer \in Answers \cup {"SERVICE_UNAVAILABLE"} :
         /\ Answered(o, Check(o, f), id, answer)
         /\ task' = [task EXCEPT ![o][f] = Heard(@, id, answer)]
    /\ UNCHANGED <<context, response>> /\ Idle

\* Every answer is in: one that denies answers for all, else the next is asked.
Proceed(o, f) ==
    /\ task[o][f].pc = "ask" /\ task[o][f].waits = {}
    /\ Ran(o, f, IF task[o][f].denied THEN Ended(task[o][f], Check(o, f).onDeny)
                 ELSE Turn(o, f, task[o][f].k + 1))
    /\ UNCHANGED <<context, faults>> /\ Idle

-----------------------------------------------------------------------------
(* Operations, their connection and their response.                        *)

\* onConnect: the credential of connectionParams when it is a bearer token, else
\* the upgrade request's; accepted once it authenticates.
PresentedBySocket ==
    LET s == app.socket IN
    CASE s.params = "garbled" -> None
      [] s.params = "none"    -> PresentedToken(s)
      [] OTHER                -> s.params

Connect ==
    /\ app.socket # None /\ connection.state = "new"
    /\ \/ /\ \E known \in Authenticate(session, PresentedBySocket) :
               connection' = IF known = Anonymous
                               THEN [state |-> "refused", credential |-> None]
                               ELSE [state |-> "accepted", credential |-> PresentedBySocket]
          /\ UNCHANGED faults
       \/ /\ PresentedBySocket # None
          /\ Fails /\ connection' = [state |-> "failed", credential |-> None]
    /\ UNCHANGED <<world, phase, could, context, task, response>>

\* The context of an operation is built: nothing is asked yet.
Begin(o) ==
    /\ phase[o] = "new"
    /\ OnSocket(o) => connection.state = "accepted"
    /\ phase' = [phase EXCEPT ![o] = "open"]
    /\ could' = Since(o)
    /\ UNCHANGED <<world, connection, context, task, response, faults>>

\* A subscription that was admitted streams; an event refused does not end it.
Finish(o) ==
    /\ phase[o] = "open" /\ \A f \in Running(o) : task[o][f].pc = "done"
    /\ phase' = [phase EXCEPT ![o] =
         IF /\ Streams(o)
            /\ context[o].events < MaxEvents
            /\ context[o].events = 0 => task[o][Root(o)].outcome = "resolved"
           THEN "idle" ELSE "done"]
    /\ UNCHANGED <<world, connection, could, context, task, response, faults>>

Event(o) ==
    /\ phase[o] = "idle"
    /\ phase' = [phase EXCEPT ![o] = "open"]
    /\ could' = Since(o)
    /\ context' = [context EXCEPT ![o].events = @ + 1]
    /\ task' = [task EXCEPT ![o] = [f \in DOMAIN @ |-> NotStarted]]
    /\ UNCHANGED <<world, connection, response, faults>>

\* onResponse, once every operation of the HTTP request has its answer: each
\* context built for it in turn, what it was told awaited before it is looked at.
Respond(o) ==
    LET http == app.requests[o].http
        mine == {other \in Operations : app.requests[other].http = http}
    IN  /\ http # "socket" /\ o \notin response[http].told
        /\ \/ response[http].done
           \/ \A other \in mine : phase[other] \in {"idle", "done"}
        /\ response' = [response EXCEPT ![http] =
             [sent |-> Resent(@.sent, app.requests[o], context[o].known),
              told |-> @.told \cup {o}, done |-> TRUE]]
        /\ UNCHANGED <<world, connection, phase, could, context, task, faults>>

RequestStep ==
    \/ Connect
    \/ \E o \in Operations :
         \/ Begin(o) \/ Settle(o) \/ Finish(o) \/ Event(o) \/ Respond(o)
         \/ \E key \in DOMAIN context[o].memo : AnswerMemo(o, key)
         \/ \E f \in app.requests[o].fields :
              \/ Start(o, f) \/ Admit(o, f) \/ Load(o, f) \/ Proceed(o, f)
              \/ \E id \in task[o][f].waits : AnswerOwn(o, f, id)

-----------------------------------------------------------------------------
(* What an answer says, against the directives as they are written.        *)

WrittenOn(field) ==
    {field.type, field.own}
      \cup UNION {{face.own, face.field} : face \in Range(field.faces)}

UsesOn(places, onType) ==
    UNION {{Located(u, onType) : u \in Range(w.permission)} : w \in places}

\* The uses written on a field's locations: on its type's, and on its own.
UsesOf(field) ==
    UsesOn({field.type} \cup {face.own : face \in Range(field.faces)}, TRUE)
      \cup UsesOn({field.own} \cup {face.field : face \in Range(field.faces)}, FALSE)

HoldsUse(field, use, facts) ==
    LET targets == TargetsOf(PathOf(use), field) IN
    /\ targets # Nothing
    /\ \A id \in targets : <<"yes", use.name, use.type, id>> \in facts

LacksUse(field, use, facts) ==
    LET targets == TargetsOf(PathOf(use), field) IN
    \/ targets = Nothing \/ targets \cap app.missing # {}
    \/ \E id \in targets : <<"no", use.name, use.type, id>> \in facts

TypesAdmit(o, field) ==
    \A w \in WrittenOn(field) : \A types \in w.authenticated :
      types = AnyUser \/ session[TokenOf(o)].user.type \in types

OutageNow(o, t) == context[o].asked = "failed" \/ faults > t.mark

WasHeld(o, f) ==
    LET field == app.schema[f]  facts == could[o] IN
    /\ <<"known">> \in facts
    /\ TypesAdmit(o, field)
    /\ ~(Streams(o) /\ f = Root(o) /\ context[o].events > 0) =>
         \A w \in WrittenOn(field) : \A age \in w.fresh :
           \E other \in AgesOf(o) : other <= age /\ <<"fresh", other>> \in facts
    /\ \A use \in UsesOf(field) : HoldsUse(field, use, facts)

WasDenied(o, f, outcome) ==
    LET field == app.schema[f] IN
    \/ outcome = "FORBIDDEN" /\ ~TypesAdmit(o, field)
    \/ \E use \in UsesOf(field) : /\ use.onDeny = outcome \/ outcome = "NOT_FOUND"
                                  /\ LacksUse(field, use, could[o])

FieldWasTrue(o, f) ==
    LET t == task[o][f]  field == app.schema[f] IN
    /\ t.outcome = "resolved" /\ Guarded(field) => WasHeld(o, f)
    /\ t.outcome = "UNAUTHENTICATED" => <<"anonymous">> \in could[o]
    /\ t.outcome = "STEP_UP_REQUIRED" =>
         \E w \in WrittenOn(field) : \E age \in w.fresh : ProvenBefore(could[o], age)
    /\ t.outcome \in {"FORBIDDEN", "NOT_FOUND"} => WasDenied(o, f, t.outcome)
    /\ t.outcome \in {"SERVICE_UNAVAILABLE", "INTERNAL_SERVER_ERROR"} => OutageNow(o, t)

HiddenWas(o, f) ==
    LET field  == app.schema[f]
        onType == {use \in UsesOf(field) : use.onType}
    IN  (task[o][f].outcome = "FORBIDDEN" /\ TypesAdmit(o, field)) =>
          \/ \E use \in onType : /\ use.onDeny = "FORBIDDEN"
                               /\ LacksUse(field, use, could[o])
          \/ \A use \in onType : HoldsUse(field, use, could[o])
=============================================================================
