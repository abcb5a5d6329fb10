------------------------------ MODULE MCPermissions ------------------------------
(***************************************************************************)
(* Permissions for TLC: two teams that may hold each other, two documents  *)
(* with a parent, viewers and an owner that is stored or read from a       *)
(* field, and every choice of rules among a few, accepted or refused.      *)
(***************************************************************************)
EXTENDS Bindings, Reverse

\* Every question, of every state of the engine alone (Reverse.tla).
ListAgreesWithCan == app = NoApp => ListAgrees

Holder(type)   == [type |-> type, relation |-> Entity]
SetOf(type, r) == [type |-> type, relation |-> r]

Stored(holders)         == [kind |-> "stored", holders |-> holders]
Read(subject, lookup)   == [kind |-> "fromField", subject |-> subject, lookup |-> lookup]

Name(n)     == [kind |-> "name", name |-> n, test |-> FALSE]
Arrow(r, t) == [kind |-> "arrow", relation |-> r, target |-> t, test |-> FALSE]
When(rule)  == [rule EXCEPT !.test = TRUE]

Declare(viewer, owner, parent, view, edit) ==
    [subjects |-> {"user"},
     types |-> [team |-> [related |-> [member |-> Stored(<<Holder("user"), SetOf("team", "member")>>)],
                          permits |-> [n \in {} |-> <<>>]],
                doc  |-> [related |-> [viewer |-> viewer, owner |-> owner, parent |-> parent],
                          permits |-> [view |-> view, edit |-> edit]]]]

Viewers == {Stored(<<SetOf("team", "member"), Holder("user")>>),
            Stored(<<Holder("user"), SetOf("doc", "owner")>>)}
Owners  == {Stored(<<Holder("user")>>), Read("user", TRUE)}
Parents == {Stored(<<Holder("doc")>>), Read("doc", TRUE)}
Views   == {<<Name("viewer"), Arrow("parent", "view")>>,
            <<Arrow("parent", "edit"), When(Name("viewer"))>>}
Edits   == {<<Name("owner")>>, <<When(Arrow("parent", "view")), Name("view")>>,
            <<Name("view")>>}

\* A permission that reaches itself through names, and a field no lookup reverses.
Looped   == Declare(Stored(<<Holder("user")>>), Stored(<<Holder("user")>>),
                    Stored(<<Holder("doc")>>), <<Name("edit")>>, <<Name("view")>>)
NoLookup == Declare(Stored(<<Holder("user")>>), Stored(<<Holder("user")>>),
                    Read("doc", FALSE), <<Name("viewer"), Arrow("parent", "edit")>>,
                    <<Name("owner")>>)

MCDeclarations ==
    {Declare(v, o, p, view, edit) :
       v \in Viewers, o \in Owners, p \in Parents, view \in Views, edit \in Edits}
      \cup {Looped, NoLookup}

MCIds    == [user |-> {"u1"}, admin |-> {"a1"}, team |-> {"g1", "g2"}, doc |-> {"d1", "d2"}]
MCFields == [doc |-> [d1 |-> [owner |-> "u1", parent |-> "d2"],
                      d2 |-> [owner |-> Nobody, parent |-> "d1"]]]
MCAskers == {AnEntity("user", "u1"),
             [type |-> "team", id |-> "g1", relation |-> "member"]}

\* An older model let a team view a document as one entity.
MCStray == {Tuple(AnEntity("doc", "d1"), "viewer", AnEntity("team", "g1"))}

-----------------------------------------------------------------------------
(* The applications served: a few fields, and the requests that ask at once. *)

U1 == AnEntity("user", "u1")

Library ==
    [subjects |-> {"user", "admin"},
     types |-> [doc |-> [related |-> [viewer |-> Stored(<<Holder("user")>>),
                                      owner  |-> Read("user", FALSE),
                                      parent |-> Read("doc", FALSE)],
                         permits |-> [view  |-> <<Name("viewer")>>,
                                      edit  |-> <<Name("owner"), Name("viewer")>>,
                                      share |-> <<When(Name("viewer"))>>,
                                      print |-> <<Arrow("parent", "share")>>]]]]

Use(name, onDeny) == [name |-> name, type |-> "doc", onDeny |-> onDeny, path |-> NoPath]
At(use, path)     == [use EXCEPT !.path = path]
ByParent(first)   == [root |-> "parent", first |-> first, held |-> FALSE]
OfParent          == [root |-> "parent", first |-> "id", held |-> TRUE]

Plain == [authenticated |-> {}, fresh |-> {}, permission |-> <<>>]
SignedIn(types)  == [Plain EXCEPT !.authenticated = {types}]
Permit(use)      == [Plain EXCEPT !.permission = <<use>>]
Recent(age, w)   == [w EXCEPT !.fresh = {age}]

Field(type, own, parent, args) ==
    [faces |-> <<>>, type |-> type, own |-> own, args |-> {"id"},
     ids |-> [parent |-> parent, args |-> args], asks |-> <<>>, signs |-> FALSE]

MCSchema ==
    [title   |-> Field(Permit(Use("view", "NOT_FOUND")),
                       Permit(At(Use("edit", "FORBIDDEN"), OfParent)), {"d2"}, {}),
     docs    |-> Field(Plain, Permit(Use("view", "NOT_FOUND")), {}, {"d1", "d2"}),
     mine    |-> [Field(Plain, Plain, {"d2"}, {}) EXCEPT
                    !.asks = <<At(Use("view", "no"), OfParent)>>],
     lost    |-> Field(Plain, Permit(Use("view", "FORBIDDEN")), {}, {"d9"}),
     none    |-> Field(Plain, Permit(At(Use("view", "FORBIDDEN"), ByParent("docId"))), {}, {}),
     hello   |-> Field(Plain, Plain, {}, {}),
     audit   |-> Field(SignedIn(AnyUser), SignedIn({"admin"}), {}, {}),
     signOut |-> [Field(Plain, SignedIn(AnyUser), {}, {}) EXCEPT !.signs = TRUE],
     changes |-> Field(Plain, Recent(1, Permit(Use("view", "FORBIDDEN"))), {}, {"d2"}),
     change  |-> [Field(Recent(2, Plain), Recent(1, Plain), {"d2"}, {}) EXCEPT
                    !.faces = <<[own   |-> Recent(3, Plain),
                                 field |-> SignedIn({"user"})]>>],
     printed |-> Field(Plain, Permit(At(Use("print", "FORBIDDEN"), ByParent("docId"))),
                       {"d1"}, {})]

Server == [types |-> {"user", "admin"}, kept |-> {}, access |-> TRUE, loaders |-> {"doc"},
           conditions |-> {"doc"}]

Query(http, bearer, cookie, fields) ==
    [http |-> http, kind |-> "query", bearer |-> bearer, cookie |-> cookie,
     fields |-> fields, root |-> ""]

Subscription(http, bearer, fields) ==
    [http |-> http, kind |-> "subscription", bearer |-> bearer, cookie |-> None,
     fields |-> fields, root |-> "changes"]

RouteOf(http, bearer, cookie, required, maxAge, check, signs) ==
    [http |-> http, kind |-> "route", bearer |-> bearer, cookie |-> cookie,
     required |-> required, maxAge |-> maxAge, check |-> check, signs |-> signs]

Ask(name, id) == [name |-> name, type |-> "doc", onDeny |-> "FORBIDDEN", onType |-> FALSE,
                  targets |-> {id}, held |-> FALSE, load |-> TRUE, condition |-> name = "print"]

SessionOf(type, id) ==
    [user |-> AnEntity(type, id), provenAt |-> 0, live |-> TRUE, sliding |-> type = "user"]

App(requests) ==
    [config |-> Library, maxDepth |-> 4, schema |-> MCSchema, server |-> Server,
     requests |-> requests, socket |-> None, missing |-> {"d9"},
     tuples |-> {Tuple(AnEntity("doc", d), "viewer", U1) : d \in {"d1", "d2"}},
     sessions |-> [t1 |-> SessionOf("user", "u1"), t2 |-> SessionOf("admin", "a1")]]

Batched  == App([q1 |-> Query("h1", None, "t1", {"title", "mine"}),
                 q2 |-> Query("h1", None, "t1", {"signOut"})])
Listed   == App([q1 |-> Query("h1", "t1", "t1", {"docs", "mine"})])
Odd      == App([q1 |-> Query("h1", None, "t2", {"audit", "lost"}),
                 q2 |-> Query("h2", "t1", None, {"audit", "none", "hello"})])
Printed  == App([q1 |-> Query("h1", "t1", None, {"printed"}),
                 w1 |-> RouteOf("h2", "t1", None, FALSE, NoAge, Ask("print", "d1"), "no")])
Deep     == [Printed EXCEPT
               !.maxDepth = 1,
               !.config.types.doc.related.viewer =
                  Stored(<<Holder("user"), SetOf("doc", "viewer")>>),
               !.tuples = {Tuple(AnEntity("doc", "d1"), "viewer", U1),
                           Tuple(AnEntity("doc", "d2"), "viewer",
                                 [type |-> "doc", id |-> "d1", relation |-> "viewer"])}]
Streamed == App([s1 |-> Subscription("h1", "t1", {"changes", "change"})])
Routed   == App([w1 |-> RouteOf("h1", None, "t1", TRUE, 1, Ask("edit", "d2"), "out"),
                 w2 |-> RouteOf("h2", None, None, FALSE, NoAge, None, "in")])
Refusing == App([w1 |-> RouteOf("h1", "t1", None, FALSE, NoAge, Ask("view", "d9"), "out"),
                 w2 |-> RouteOf("h2", None, None, FALSE, 1, None, "no"),
                 w3 |-> RouteOf("h3", None, None, FALSE, NoAge, Ask("view", "d1"), "no")])

Socketed(params, cookie) ==
    [App([s1 |-> Subscription("socket", None, {"changes"})]) EXCEPT
       !.socket = [params |-> params, bearer |-> None, cookie |-> cookie]]

\* What useJanus() refuses to serve: a schema that no request could pass, or one
\* that would fail on every request for want of a condition or a loader.
Refused ==
    {[Printed EXCEPT !.server.conditions = {}],
     [Batched EXCEPT !.server.loaders = {}],
     [Listed EXCEPT !.server.access = FALSE],
     [Odd EXCEPT !.server.kept = {"user"}],
     [Streamed EXCEPT !.schema.change.own.fresh = {0}],
     [Streamed EXCEPT !.schema.changes.args = {}]}

MCApps ==
    {Batched, Listed, Odd, Printed, Deep, Streamed, Routed,
     Refusing, [Listed EXCEPT !.tuples = {Tuple(AnEntity("doc", "d1"), "viewer", U1)}],
     [Listed EXCEPT !.server.kept = {"admin"}]}
      \cup {Socketed("none", "t1"), Socketed("garbled", "t1"), Socketed("t1", None)}
      \cup Refused
=============================================================================
