---------------------------- MODULE PermissionModel ----------------------------
(***************************************************************************)
(* What defineModel() accepts (janus/src/permissions/resolve): the raw     *)
(* declaration of subject types and object types, and the checks that      *)
(* refuse one before any question is asked of it.                          *)
(*                                                                         *)
(* A configuration is                                                      *)
(*   [subjects |-> set of type names,                                      *)
(*    types    |-> [type name -> [related |-> [name -> relation],          *)
(*                                permits |-> [name -> Seq(rule)]]]]       *)
(* A relation is stored, [kind |-> "stored", holders |-> Seq(holder)], or  *)
(* read, [kind |-> "fromField", subject |-> type, lookup |-> BOOLEAN].     *)
(* A holder, like the subject of a tuple, carries the relation "" when it  *)
(* is an entity and a relation's name when it is a subject set.            *)
(* A rule is [kind |-> "name", name, test] or                              *)
(* [kind |-> "arrow", relation, target, test].                             *)
(***************************************************************************)
EXTENDS RelationStore, Functions

RelationNames(config, type) ==
    IF type \in DOMAIN config.types
      THEN DOMAIN config.types[type].related ELSE {}

PermissionNames(config, type) ==
    IF type \in DOMAIN config.types
      THEN DOMAIN config.types[type].permits ELSE {}

NamesOf(config, type) ==
    RelationNames(config, type) \cup PermissionNames(config, type)

IsSubjectType(config, type) ==
    type \in config.subjects \cup DOMAIN config.types

\* Whether a stored relation admits subject: one rule for what grant() writes
\* and for what can() and list() follow.
Admits(holders, subject) ==
    [type |-> subject.type, relation |-> subject.relation] \in Range(holders)

-----------------------------------------------------------------------------
(* The reading of names, relations and rules.                              *)

NamesApart(config) ==
    /\ DOMAIN config.types # {}
    /\ \A t \in DOMAIN config.types :
         RelationNames(config, t) \cap PermissionNames(config, t) = {}

ResolveHolder(config, holder) ==
    IF holder.relation = Entity
      THEN IsSubjectType(config, holder.type)
      ELSE holder.relation \in RelationNames(config, holder.type)

ResolveRelation(config, relation) ==
    IF relation.kind = "fromField"
      THEN IsSubjectType(config, relation.subject)
      ELSE /\ relation.holders # <<>>
           /\ \A h \in Range(relation.holders) : ResolveHolder(config, h)

\* The holders an arrow through relation may meet: what the relation holds, or
\* the type its field names.
HoldersThrough(relation) ==
    IF relation.kind = "fromField"
      THEN {[type |-> relation.subject, relation |-> Entity]}
      ELSE Range(relation.holders)

\* A subject set, or a user type, has no permission an arrow could follow.
ResolveRule(config, type, rule) ==
    IF rule.kind = "name"
      THEN rule.name \in NamesOf(config, type)
      ELSE /\ rule.relation \in RelationNames(config, type)
           /\ \A h \in HoldersThrough(config.types[type].related[rule.relation]) :
                /\ h.relation = Entity
                /\ h.type \in DOMAIN config.types
                /\ rule.target \in NamesOf(config, h.type)

ResolveTypes(config) ==
    \A t \in DOMAIN config.types :
      LET def == config.types[t] IN
        /\ \A r \in DOMAIN def.related : ResolveRelation(config, def.related[r])
        /\ \A p \in DOMAIN def.permits :
             /\ def.permits[p] # <<>>
             /\ \A rule \in Range(def.permits[p]) : ResolveRule(config, t, rule)

-----------------------------------------------------------------------------
(* What no single string can show.                                         *)

\* The permissions of type that p names in its rules.
NamedBy(def, p) ==
    {rule.name : rule \in {r \in Range(def.permits[p]) : r.kind = "name"}}
      \cap DOMAIN def.permits

\* No permission reaches itself through names alone: a set each of whose
\* members names a member of the set is a loop.
RefuseLoops(config) ==
    \A t \in DOMAIN config.types :
      LET def == config.types[t] IN
        \A S \in (SUBSET DOMAIN def.permits) \ {{}} :
          \E p \in S : NamedBy(def, p) \cap S = {}

\* The names that deciding name on an object of type looks at on that same
\* object: through names, and the relation an arrow leaves by.
LooksAt(config, type, name) ==
    LET permits == config.types[type].permits
        next(n) == IF n \in DOMAIN permits
                     THEN {IF r.kind = "name" THEN r.name ELSE r.relation :
                             r \in Range(permits[n])}
                     ELSE {}
        seen[k \in 0 .. Cardinality(NamesOf(config, type))] ==
          IF k = 0 THEN {name}
          ELSE seen[k - 1] \cup UNION {next(n) : n \in seen[k - 1]}
    IN  seen[Cardinality(NamesOf(config, type))]

FieldRead(config, type, name) ==
    /\ type \in DOMAIN config.types
    /\ \E n \in LooksAt(config, type, name) \cap RelationNames(config, type) :
         config.types[type].related[n].kind = "fromField"

\* A field is read from the object a caller passed: what a subject set or an
\* arrow reaches was loaded by nobody, so no rule may need its fields.
RefuseDataBeyondRoot(config) ==
    \A t \in DOMAIN config.types :
      LET def == config.types[t] IN
        /\ \A r \in DOMAIN def.related :
             def.related[r].kind = "stored" =>
               \A h \in Range(def.related[r].holders) :
                 h.relation # Entity => ~FieldRead(config, h.type, h.relation)
        /\ \A p \in DOMAIN def.permits :
             \A rule \in Range(def.permits[p]) :
               rule.kind = "arrow" =>
                 \A h \in HoldersThrough(def.related[rule.relation]) :
                   ~FieldRead(config, h.type, rule.target)

ResolveModel(config) ==
    /\ NamesApart(config)
    /\ ResolveTypes(config)
    /\ RefuseLoops(config)
    /\ RefuseDataBeyondRoot(config)
=============================================================================
