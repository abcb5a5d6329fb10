-------------------------------- MODULE Bindings --------------------------------
(***************************************************************************)
(* The permission engine and the requests that ask it: with NoApp, only    *)
(* tuples come and go, and every question is asked of every state; with an *)
(* application, its GraphQL operations and Hono routes are answered while  *)
(* sessions and tuples change.                                             *)
(***************************************************************************)
EXTENDS Requests, Routes

bindingVars ==
    <<model, maxDepth, tuples, app, session, now, connection, phase, response,
      could, changes, faults, context, task, route>>

NoApp == [requests |-> <<>>]

Quiet == UNCHANGED <<app, session, now, connection, phase, response, could,
                     changes, faults, context, task, route>>

NoneServed ==
    /\ Init
    /\ app = NoApp
    /\ session = <<>> /\ now = 0
    /\ connection = [state |-> "none", credential |-> None]
    /\ phase = <<>> /\ response = <<>> /\ could = <<>>
    /\ changes = 0 /\ faults = 0
    /\ context = <<>> /\ task = <<>> /\ route = <<>>

\* A schema no field of which is refused is served, its fields guarded.
Accepted ==
    {given \in Apps : /\ ResolveModel(given.config)
                      /\ SchemaAccepted(given.config, given.schema, given.server)}

\* An application as it is served: its schema wired once, each field with what
\* it requires.
Served(given) ==
    [requires |-> [f \in DOMAIN given.schema |->
                     RequiredOf(given.config, given.schema[f], given.server)],
     schema   |-> given.schema, server |-> given.server, requests |-> given.requests,
     socket   |-> given.socket, missing |-> given.missing]

Serves(given) ==
    /\ model = given.config
    /\ maxDepth = given.maxDepth
    /\ tuples = given.tuples
    /\ app = Served(given)
    /\ session = given.sessions /\ now = 0
    /\ connection = [state |-> "new", credential |-> None]
    /\ phase = [r \in Requests |-> "new"]
    /\ response = [h \in Https |-> [sent |-> <<>>, told |-> {}, done |-> FALSE]]
    /\ could = [r \in Requests |-> {}]
    /\ changes = 0 /\ faults = 0
    /\ context = [o \in Operations |-> NewContext]
    /\ task = [o \in Operations |-> [f \in app.requests[o].fields |-> NotStarted]]
    /\ route = [w \in RouteRequests |-> NewRoute]

ServeInit == NoneServed \/ \E given \in Accepted : Serves(given)

ServeNext ==
    \/ app = NoApp /\ Next /\ Quiet
    \/ app # NoApp /\ \/ WorldStep /\ UNCHANGED <<context, task, route>>
                      \/ RequestStep /\ UNCHANGED route
                      \/ RouteStep /\ UNCHANGED <<context, task>>

Serve == ServeInit /\ [][ServeNext]_bindingVars

-----------------------------------------------------------------------------
\* Every question, of every state of the engine alone (Permissions.tla).
CanFollowsTheModel == app = NoApp => CanFollows

(* Every answer was true at some instant since its request came, or since  *)
(* the event it answers: what a field resolved was held, what it denied    *)
(* was not, and an outage is answered only where a store just failed,      *)
(* never as a denial; each can() reads its tuples at one instant (memo.ts, *)
(* guard.ts, enforce.ts; hono session.ts, fresh.ts, permission.ts).        *)
AnswersWereTrue ==
    app # NoApp =>
      /\ \A o \in Operations : \A f \in Running(o) : FieldWasTrue(o, f)
      /\ \A w \in RouteRequests : RouteWasTrue(w)

(* A field's FORBIDDEN never answers about an object that its type would   *)
(* have answered NOT_FOUND for: unless a FORBIDDEN written on the type, or *)
(* the user's type, denied it, everything the type asks was held           *)
(* (directives/read.ts:57-60).                                             *)
HiddenStaysHidden ==
    app # NoApp => \A o \in Operations : \A f \in Running(o) : HiddenWas(o, f)

(* The session cookie a route or a resolver set is the last one the        *)
(* response sets, a renewed session is sent once however many operations   *)
(* renewed it, and only to a client that presented it as a cookie          *)
(* (renewal.ts, session.ts).                                               *)
OwnCookieWins ==
    app # NoApp =>
      \A h \in Https :
        LET renewals == {i \in DOMAIN response[h].sent : response[h].sent[i] = "renewed"} IN
        renewals # {} =>
          /\ Len(response[h].sent) = 1
          /\ \E r \in Requests : /\ app.requests[r].http = h
                                 /\ app.requests[r].cookie # None
                                 /\ app.requests[r].cookie = TokenOf(r)

(* A schema that was accepted asks nothing that fails by its wiring: no    *)
(* check lacks the ctx of a condition it reaches, or a field of the object *)
(* it is about (directives/permission/validate.ts).                        *)
WiredAtStart ==
    app # NoApp =>
      \A o \in Operations : \A f \in Running(o) :
        task[o][f].outcome \notin {"ctx", "data"}
=============================================================================
