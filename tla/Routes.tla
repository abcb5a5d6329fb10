--------------------------------- MODULE Routes ---------------------------------
(***************************************************************************)
(* One Hono route behind session(), fresh() and permission() (janus-hono): *)
(* each middleware answers or lets the next run; what an inner one throws  *)
(* is answered by janusErrors(); and once the route ran, session() sends a *)
(* renewed session again as a cookie.                                      *)
(*                                                                         *)
(* A route request is [required, maxAge, check, signs]: check, when there  *)
(* is one, is on a single loaded object; signs is what the route itself    *)
(* does to the session cookie, "in", "out" or "no".                        *)
(***************************************************************************)
EXTENDS RequestWorld

VARIABLE route    \* route request -> where it is, who it is for, its status

RouteRequests == {r \in Requests : app.requests[r].kind = "route"}

NewRoute == [pc |-> "session", known |-> Anonymous, status |-> 0, mark |-> 0]

Unmoved == UNCHANGED <<world, connection, could>>

\* The response is made: what runs after it is session()'s own last step.
Answer(w, status) ==
    route' = [route EXCEPT ![w].pc = "resend", ![w].status = status]

Passes(w, next) == route' = [route EXCEPT ![w].pc = next, ![w].mark = faults]

Receive(w) ==
    /\ phase[w] = "new"
    /\ phase' = [phase EXCEPT ![w] = "open"]
    /\ could' = Since(w)
    /\ UNCHANGED <<world, connection, response, route, faults>>

\* session(): a failure to authenticate is janusErrors()'s 503, with no cookie;
\* an anonymous request is refused when the route requires a user.
Session(w) ==
    LET request == app.requests[w] IN
    /\ phase[w] = "open" /\ route[w].pc = "session"
    /\ \/ /\ \E known \in Authenticate(session, TokenOf(w)) :
               route' = [route EXCEPT ![w] =
                 IF known = Anonymous /\ request.required
                   THEN [@ EXCEPT !.pc = "done", !.status = 401]
                   ELSE [@ EXCEPT !.pc = "fresh", !.known = known]]
          /\ UNCHANGED faults
       \/ /\ TokenOf(w) # None /\ Fails
          /\ route' = [route EXCEPT ![w].pc = "done", ![w].status = StatusOf("STORE_FAILED")]
    /\ UNCHANGED <<phase, response>> /\ Unmoved

\* fresh(): 401 to the anonymous, STEP_UP_REQUIRED to an older session.
FreshEnough(w) ==
    LET request == app.requests[w]  known == route[w].known IN
    /\ route[w].pc = "fresh"
    /\ IF request.maxAge = NoAge THEN Passes(w, "subject")
       ELSE IF known = Anonymous THEN Answer(w, 401)
       ELSE IF Fresh(known.provenAt, request.maxAge, now) THEN Passes(w, "subject")
       ELSE Answer(w, StatusOf("STEP_UP_REQUIRED"))
    /\ UNCHANGED <<phase, response, faults>> /\ Unmoved

\* permission(): the subject, then the object, which is loaded once; what load
\* throws is the application's own.
LoadObject(w) ==
    LET request == app.requests[w] IN
    /\ route[w].pc = "subject"
    /\ IF request.check = None THEN Passes(w, "handler") /\ UNCHANGED faults
       ELSE IF route[w].known = Anonymous THEN Answer(w, 401) /\ UNCHANGED faults
       ELSE \/ Fails /\ Answer(w, 500)
            \/ /\ IF request.check.targets \cap app.missing # {}
                    THEN Answer(w, 404) ELSE Passes(w, "can")
               /\ UNCHANGED faults
    /\ UNCHANGED <<phase, response>> /\ Unmoved

\* A denial is 403; a check that could not answer is never one: what lacks its ctx
\* or a field throws a TypeError, which Hono answers.
CanRoute(w) ==
    LET check == app.requests[w].check IN
    /\ route[w].pc = "can"
    /\ \/ Fails /\ Answer(w, StatusOf("STORE_FAILED"))
       \/ /\ \E id \in check.targets :
               \E answer \in CanAsked(tuples, route[w].known.user, check, id) :
                 CASE answer = "yes"   -> Passes(w, "handler")
                   [] answer = "no"    -> Answer(w, 403)
                   [] answer = "depth" -> Answer(w, StatusOf("PERMISSION_DEPTH"))
                   [] OTHER            -> Answer(w, 500)
          /\ UNCHANGED faults
    /\ UNCHANGED <<phase, response>> /\ Unmoved

\* The route runs.  signOut() revokes before it clears the cookie, so a failure
\* clears nothing; sendSession() sets one.
Handle(w) ==
    LET request == app.requests[w]
        token   == TokenOf(w)
    IN  /\ route[w].pc = "handler"
        /\ \/ /\ request.signs = "out" /\ token # None /\ Fails
              /\ Answer(w, StatusOf("STORE_FAILED"))
              /\ UNCHANGED <<session, could, response>>
           \/ /\ Answer(w, 200)
              /\ response' = IF request.signs = "no" THEN response
                             ELSE [response EXCEPT ![request.http].sent = Append(@, "own")]
              /\ session' = IF request.signs = "out" /\ token # None
                              THEN [session EXCEPT ![token].live = FALSE] ELSE session
              /\ Changed(tuples, session', now)
              /\ UNCHANGED faults
        /\ UNCHANGED <<model, maxDepth, tuples, app, now, changes, connection, phase>>

\* The renewed session, once the route ran.
Resend(w) ==
    LET request == app.requests[w] IN
    /\ route[w].pc = "resend"
    /\ response' = [response EXCEPT ![request.http].sent =
                      Resent(@, request, route[w].known)]
    /\ route' = [route EXCEPT ![w].pc = "done"]
    /\ UNCHANGED <<phase, faults>> /\ Unmoved

Close(w) ==
    /\ phase[w] = "open" /\ route[w].pc = "done"
    /\ phase' = [phase EXCEPT ![w] = "done"]
    /\ response' = [response EXCEPT ![app.requests[w].http].done = TRUE]
    /\ UNCHANGED <<route, faults>> /\ Unmoved

RouteStep ==
    \E w \in RouteRequests :
      \/ Receive(w) \/ Session(w) \/ FreshEnough(w) \/ LoadObject(w) \/ CanRoute(w)
      \/ Handle(w) \/ Resend(w) \/ Close(w)

-----------------------------------------------------------------------------
\* What a status says of the facts true since the request came.
RouteWasTrue(w) ==
    LET request == app.requests[w]  facts == could[w]  status == route[w].status
        asks(answer) == \E id \in request.check.targets :
                          <<answer, request.check.name, request.check.type, id>> \in facts
    IN  /\ status = 200 =>
             /\ request.required => <<"known">> \in facts
             /\ request.maxAge # NoAge => <<"fresh", request.maxAge>> \in facts
             /\ request.check # None => asks("yes")
        /\ status = 401 => <<"anonymous">> \in facts
        /\ status = 403 =>
             \/ request.maxAge # NoAge /\ ProvenBefore(facts, request.maxAge)
             \/ request.check # None /\ asks("no")
        /\ status = 404 => request.check.targets \cap app.missing # {}
        /\ status \in {500, 503} =>
             \/ faults > route[w].mark
             \/ request.check # None /\ \E why \in {"depth", "ctx", "data"} : asks(why)
=============================================================================
