------------------------------- MODULE Directives -------------------------------
(***************************************************************************)
(* What @authenticated, @fresh and @permission add up to on one field of a *)
(* GraphQL schema, decided when the schema is built                        *)
(* (janus-graphql/src/directives): the locations that apply, what no       *)
(* request could pass and is refused, and the requirement the guard asks   *)
(* for before the field's resolver runs.                                   *)
(*                                                                         *)
(* What is written at a location is [authenticated, fresh, permission]:    *)
(* the sets of user types it names (AnyUser when a use names none), the    *)
(* ages, and the sequence of uses [name, type, onDeny, path].  A field is  *)
(* [faces, type, own, args, ids]: the interfaces its type implements, each *)
(* with its own directives and those of its field; its type's; its own;    *)
(* the arguments it takes; and the ids a path under args or parent finds.  *)
(***************************************************************************)
EXTENDS PermissionModel, Integers, SequencesExt

AnyUser == {"any"}
NoAge   == 0
NoPath  == [root |-> "default"]
Nothing == {"nothing"}     \* a path that finds no id

-----------------------------------------------------------------------------
(* Reading: the locations, outermost first.                                *)

\* What is written on the interfaces and the type, and on the field of each.
OnType(field)  == [i \in DOMAIN field.faces |-> field.faces[i].own] \o <<field.type>>
OnField(field) == [i \in DOMAIN field.faces |-> field.faces[i].field] \o <<field.own>>

\* A use, and whether it was written on a type.
Located(use, onType) ==
    [name |-> use.name, type |-> use.type, onDeny |-> use.onDeny, path |-> use.path,
     onType |-> onType]

UsesAt(locations, onType) ==
    LET uses == FlattenSeq([i \in DOMAIN locations |-> locations[i].permission])
    IN  [j \in DOMAIN uses |-> Located(uses[j], onType)]

(* Mutant: the field's own directives are read before its type's.          *)
FieldFirst(field) == UsesAt(OnField(field), FALSE) \o UsesAt(OnType(field), TRUE)

\* The object a field belongs to is asked about before the field.
Permitted(field) == UsesAt(OnType(field), TRUE) \o UsesAt(OnField(field), FALSE)

ReadField(field) ==
    LET all == Range(OnType(field)) \cup Range(OnField(field)) IN
    [authenticated |-> UNION {w.authenticated : w \in all},
     fresh         |-> UNION {w.fresh : w \in all},
     permission    |-> Permitted(field)]

Guarded(field) ==
    LET read == ReadField(field) IN
    \/ read.authenticated # {} \/ read.fresh # {} \/ read.permission # <<>>

-----------------------------------------------------------------------------
(* The user types and the age.                                             *)

NamedTypes(uses) == {types \in uses : types # AnyUser}

\* Every type: intersected, or any signed-in user when none names any.
TypesOf(uses) ==
    IF NamedTypes(uses) = {} THEN AnyUser
    ELSE {t \in UNION NamedTypes(uses) : \A named \in NamedTypes(uses) : t \in named}

\* The types auth knows, or the one useJanus() keeps.
KnownOf(server) == IF server.kept = {} THEN server.types ELSE server.kept

TypesAccepted(uses, server) ==
    /\ server.kept \subseteq server.types
    /\ \A named \in NamedTypes(uses) : named # {} /\ named \subseteq KnownOf(server)
    /\ TypesOf(uses) # {}

MaxAgeOf(uses) == IF uses = {} THEN NoAge ELSE Min(uses)

AgesAccepted(uses) == \A age \in uses : age > 0

-----------------------------------------------------------------------------
(* One @permission.                                                        *)

\* Where the id is read: as written, else the object's own on a type, and the
\* argument id on a field.
PathOf(use) ==
    IF use.path # NoPath THEN use.path
    ELSE IF use.onType THEN [root |-> "parent", first |-> "id", held |-> TRUE]
    ELSE [root |-> "args", first |-> "id", held |-> FALSE]

PathAccepted(path, field) ==
    /\ path.root \in {"args", "parent"}
    /\ path.root = "args" => path.first \in field.args

\* The value the id is read from is the object itself.
Held(path) == path.root = "parent" /\ path.held

\* The ids a path names; an empty list under parent names nothing to check.
TargetsOf(path, field) ==
    IF path.root = "parent" /\ field.ids["parent"] = {} THEN Nothing
    ELSE field.ids[path.root]

ReadsFields(config, type) ==
    \E r \in RelationNames(config, type) :
      config.types[type].related[r].kind = "fromField"

\* An object named by its id alone, whose type reads its fields, is loaded.
LoaderAccepted(config, use, path, server) ==
    Held(path) \/ use.type \in server.loaders \/ ~ReadsFields(config, use.type)

(* Mutant: arrows are not followed.                                        *)
LeadsByName(config, at) ==
    IF at[2] \notin PermissionNames(config, at[1]) THEN {}
    ELSE {<<at[1], rule.name>> :
            rule \in {r \in Range(config.types[at[1]].permits[at[2]]) : r.kind = "name"}}

\* What deciding a name on a type looks at next: the names its rules hold, and
\* the target of an arrow on every type its relation reaches.
LeadsTo(config, at) ==
    IF at[2] \notin PermissionNames(config, at[1]) THEN {}
    ELSE UNION {IF rule.kind = "name" THEN {<<at[1], rule.name>>}
                ELSE {<<h.type, rule.target>> :
                        h \in HoldersThrough(config.types[at[1]].related[rule.relation])} :
                  rule \in Range(config.types[at[1]].permits[at[2]])}

\* Everything it ever looks at.
Reached(config, type, name) ==
    LET reached[seen \in SUBSET (STRING \X STRING)] ==
          LET more == seen \cup UNION {LeadsTo(config, at) : at \in seen}
          IN  IF more = seen THEN seen ELSE reached[more]
    IN  reached[{<<type, name>>}]

ReachesCondition(config, type, name) ==
    \E at \in Reached(config, type, name) :
      /\ at[2] \in PermissionNames(config, at[1])
      /\ \E rule \in Range(config.types[at[1]].permits[at[2]]) : rule.test

ConditionAccepted(config, use, server) ==
    ReachesCondition(config, use.type, use.name) => use.type \in server.conditions

PermissionAccepted(config, use, field, server) ==
    LET path == PathOf(use) IN
    /\ server.access
    /\ use.type \in DOMAIN config.types
    /\ use.name \in NamesOf(config, use.type)
    /\ PathAccepted(path, field)
    /\ LoaderAccepted(config, use, path, server)
    /\ ConditionAccepted(config, use, server)

\* What the guard asks: on which objects, loaded by whom, with which ctx.
PermissionCheckOf(config, use, field, server) ==
    LET path == PathOf(use) IN
    [name |-> use.name, type |-> use.type, onDeny |-> use.onDeny,
     onType |-> use.onType, targets |-> TargetsOf(path, field),
     held |-> Held(path),
     load |-> ~Held(path) /\ use.type \in server.loaders,
     condition |-> ReachesCondition(config, use.type, use.name)]

-----------------------------------------------------------------------------
(* The requirement of one field, and a schema no field of which is refused. *)

RequirementOf(config, field, server) ==
    LET read == ReadField(field) IN
    [open        |-> FALSE,
     types       |-> TypesOf(read.authenticated),
     maxAge      |-> MaxAgeOf(read.fresh),
     permissions |-> [i \in DOMAIN read.permission |->
                        PermissionCheckOf(config, read.permission[i], field, server)]]

FieldAccepted(config, field, server) ==
    LET read == ReadField(field) IN
    /\ TypesAccepted(read.authenticated, server)
    /\ AgesAccepted(read.fresh)
    /\ \A i \in DOMAIN read.permission :
         PermissionAccepted(config, read.permission[i], field, server)

SchemaAccepted(config, schema, server) ==
    \A f \in DOMAIN schema : FieldAccepted(config, schema[f], server)
=============================================================================
