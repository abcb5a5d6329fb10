------------------------------ MODULE RequestWorld ------------------------------
(***************************************************************************)
(* What the requests of an application meet while they are answered        *)
(* (janus-graphql, janus-hono): the sessions authenticate() reads, the     *)
(* tuples access.can() walks, the clock, and the stores that may fail; all *)
(* may change between two steps of a request.                              *)
(*                                                                         *)
(* app is the application one behaviour serves: its wiring (server), its   *)
(* schema, the requests it receives, and the ids no loader finds.  A       *)
(* request has a kind ("query", "subscription" or "route"), the HTTP       *)
(* request it came by, and the credentials that presented.                 *)
(*                                                                         *)
(* A history keeps, for each request being answered, every fact true at    *)
(* some instant since it began: what its answers are judged by.            *)
(***************************************************************************)
EXTENDS Permissions, Directives

CONSTANTS
    Apps,         \* the applications served
    None,
    MaxNow,       \* bound: the clock
    MaxChanges,   \* bound: changes of sessions and tuples
    MaxFaults     \* bound: failed calls of a store or a loader

VARIABLES
    app,
    session,      \* token -> whose it is, when it proved who it is, whether it stands
    now,
    connection,   \* the graphql-ws connection, and the credential it accepted
    phase,        \* request -> "new", "open", "idle" between two events, "done"
    response,     \* HTTP request -> the session cookies it sets, for whom a renewal was
                  \* looked for, and whether it is sent
    could,        \* history: request -> the facts true since it began
    changes, faults

(* What the types of an application's parts say, whatever is then refused: *)
(* directives name a schema's uses; a helper asks about the object in hand;*)
(* a path finds ids; requests present the tokens there are, ask fields of  *)
(* the schema, and a route is alone on its HTTP request.                   *)

AreWritten(uses) ==
    /\ uses \in Seq(Range(uses))
    /\ \A use \in Range(uses) : use.onDeny \in {"NOT_FOUND", "FORBIDDEN"}

AreHelped(uses, field) ==
    /\ uses \in Seq(Range(uses))
    /\ \A use \in Range(uses) :
         /\ use.onDeny = "no"
         /\ use.path # NoPath /\ Held(use.path)
         /\ field.ids["parent"] # {}

IsField(field) ==
    /\ field.faces \in Seq(Range(field.faces))
    /\ \A w \in {field.type, field.own}
                 \cup UNION {{face.own, face.field} : face \in Range(field.faces)} :
         /\ w.fresh \subseteq Nat
         /\ AreWritten(w.permission)
    /\ AreHelped(field.asks, field)
    /\ "nothing" \notin field.ids["parent"] \cup field.ids["args"]

AreSessions(sessions) ==
    /\ None \notin DOMAIN sessions
    /\ sessions \in [DOMAIN sessions ->
         [user : {sessions[token].user : token \in DOMAIN sessions} \ {None},
          provenAt : Nat, live : BOOLEAN, sliding : BOOLEAN]]

IsRequest(given, r) ==
    LET request == given.requests[r]
        tokens  == DOMAIN given.sessions \cup {None}
    IN  /\ request.bearer \in tokens /\ request.cookie \in tokens
        /\ request.kind \in {"query", "subscription", "route"}
        /\ request.kind # "route" => request.fields \subseteq DOMAIN given.schema
        /\ request.kind = "subscription" => request.root \in request.fields
        /\ request.kind = "route" =>
             /\ request.maxAge \in Nat
             /\ request.check # None => "nothing" \notin request.check.targets
             /\ request.http # "socket"
             /\ \A other \in DOMAIN given.requests \ {r} :
                  given.requests[other].http # request.http

IsSocket(given, socket) ==
    LET tokens == DOMAIN given.sessions \cup {None} IN
    /\ socket.bearer \in tokens /\ socket.cookie \in tokens
    /\ socket.params \in {"garbled", "none"} \cup DOMAIN given.sessions

ASSUME AppsAssumption ==
    \A given \in Apps :
      /\ AreSessions(given.sessions)
      /\ "any" \notin given.server.types
      /\ \A f \in DOMAIN given.schema : IsField(given.schema[f])
      /\ \A r \in DOMAIN given.requests : IsRequest(given, r)
      /\ given.socket # None => IsSocket(given, given.socket)

world == <<model, maxDepth, tuples, app, session, now, changes>>

Requests == DOMAIN app.requests
Https    == {app.requests[r].http : r \in Requests}

-----------------------------------------------------------------------------
(* What authenticate() and can() answer.                                   *)

Anonymous == [user |-> None]

\* The first credential present, not the first valid one.
PresentedToken(request) ==
    IF request.bearer # None THEN request.bearer ELSE request.cookie

\* A session of another type than the one kept is anonymous.  Whether it is due
\* for renewal is the session's own story.
Authenticate(sessions, token) ==
    IF token = None \/ ~sessions[token].live THEN {Anonymous}
    ELSE LET s == sessions[token] IN
         IF app.server.kept # {} /\ s.user.type \notin app.server.kept THEN {Anonymous}
         ELSE {[user |-> s.user, provenAt |-> s.provenAt, token |-> token,
                renewed |-> renewed] :
                 renewed \in IF s.sliding THEN BOOLEAN ELSE {FALSE}}

\* assertFresh and fresh(): the session proved who it is less than maxAge ago.
Fresh(provenAt, maxAge, at) == at - provenAt < maxAge

\* A grant, a denial, or why the walk threw.
Answers == {"yes", "no", "depth", "ctx", "data"}

\* The answers access.can may give on one object: the condition's ctx is passed
\* when the check has one, and fields are read when its object was loaded.
CanAsked(stored, user, check, id) ==
    Answers \cap Holds([model |-> model, tuples |-> stored, fields |-> Fields,
           ctx |-> IF check.condition THEN "passes" ELSE "absent",
           subject |-> user, maxDepth |-> maxDepth],
          AnEntity(check.type, id), check.load \/ check.held, check.name)

\* The status of a JanusError's code.
StatusOf(code) ==
    CASE code = "STORE_FAILED"     -> 503
      [] code = "STEP_UP_REQUIRED" -> 403
      [] code = "PERMISSION_DEPTH" -> 500

(* Mutant: the renewal is sent whatever the response sets.                 *)
SetsNoCookie(sent) == FALSE

\* Whether a response sets the session cookie already.
SetsCookie(sent) == sent # <<>>

\* A renewed session is sent again as a cookie, only to a request that presented
\* it as one, and never over a cookie the response sets.
Resent(sent, request, known) ==
    IF known.user # None /\ known.renewed /\ request.cookie = known.token /\ ~SetsCookie(sent)
      THEN Append(sent, "renewed") ELSE sent

-----------------------------------------------------------------------------
(* The facts of one instant about what a request may ask.                  *)

ChecksOf(r) ==
    LET request == app.requests[r] IN
    IF request.kind = "route"
      THEN IF request.check = None THEN {} ELSE {request.check}
      ELSE UNION {Range(app.requires[f].permissions) : f \in request.fields}

AgesOf(r) ==
    LET request == app.requests[r] IN
    (IF request.kind = "route" THEN {request.maxAge}
     ELSE {app.requires[f].maxAge : f \in request.fields}) \ {NoAge}

\* An operation on a connection presents what the connection did.
OnSocket(r) == app.requests[r].http = "socket"

TokenOf(r) ==
    IF OnSocket(r) THEN connection.credential ELSE PresentedToken(app.requests[r])

Named(check) == {id \in check.targets : id # "nothing"}

\* Who an operation is for is asked once: an event of a subscription keeps it.
Identity(facts) == {fact \in facts : fact[1] \in {"anonymous", "known", "proven"}}

KnownBy(r, sessions) ==
    UNION {IF known = Anonymous THEN {<<"anonymous">>}
           ELSE {<<"known">>, <<"proven", known.provenAt>>} :
             known \in Authenticate(sessions, TokenOf(r))}

FreshBy(r, identity, at) ==
    {<<"fresh", age>> :
       age \in {a \in AgesOf(r) :
                 \E fact \in identity : fact[1] = "proven" /\ Fresh(fact[2], a, at)}}

HeldBy(r, stored, sessions) ==
    IF TokenOf(r) = None THEN {}
    ELSE UNION {UNION {{<<answer, check.name, check.type, id>> :
                          answer \in CanAsked(stored, sessions[TokenOf(r)].user, check, id)} :
                         id \in Named(check)} : check \in ChecksOf(r)}

Truths(r, past, stored, sessions, at) ==
    LET identity == Identity(past) \cup KnownBy(r, sessions)
    IN  identity \cup FreshBy(r, identity, at) \cup HeldBy(r, stored, sessions)

\* The history follows every request being answered.
Changed(stored, sessions, at) ==
    could' = [r \in Requests |->
                IF phase[r] = "open"
                  THEN could[r] \cup Truths(r, could[r], stored, sessions, at)
                  ELSE could[r]]

\* The session proved who it is too long ago, and longer yet from now on.
ProvenBefore(facts, age) ==
    \E fact \in facts : fact[1] = "proven" /\ ~Fresh(fact[2], age, now)

Since(r) == [could EXCEPT ![r] = Truths(r, @, tuples, session, now)]

-----------------------------------------------------------------------------
(* What others do meanwhile.                                               *)

RelationChanges(stored) ==
    /\ stored # tuples /\ changes < MaxChanges
    /\ tuples' = stored
    /\ changes' = changes + 1
    /\ Changed(stored, session, now)
    /\ UNCHANGED <<model, maxDepth, app, session, now, connection, phase, response, faults>>

SessionChanges(sessions) ==
    /\ sessions # session /\ changes < MaxChanges
    /\ session' = sessions
    /\ changes' = changes + 1
    /\ Changed(tuples, sessions, now)
    /\ UNCHANGED <<model, maxDepth, tuples, app, now, connection, phase, response, faults>>

\* Time passes where a request asks how long ago.
Tick ==
    /\ now < MaxNow
    /\ \E r \in Requests : AgesOf(r) # {}
    /\ now' = now + 1
    /\ Changed(tuples, session, now + 1)
    /\ UNCHANGED <<model, maxDepth, tuples, app, session, connection, phase, response,
                   changes, faults>>

WorldStep ==
    \/ \E t \in Writable :
         \/ RelationChanges(Written(tuples, {}, {t}))
         \/ RelationChanges(Written(tuples, {t}, {}))
    \/ \E token \in DOMAIN session :
         \/ SessionChanges([session EXCEPT ![token].live = FALSE])
         \/ session[token].live /\ SessionChanges([session EXCEPT ![token].provenAt = now])
    \/ Tick

\* A call of a store, or of a loader, fails.
Fails ==
    /\ faults < MaxFaults
    /\ faults' = faults + 1
=============================================================================
