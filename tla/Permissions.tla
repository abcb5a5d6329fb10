------------------------------- MODULE Permissions -------------------------------
(***************************************************************************)
(* The permission engine over a memory relation store (permissions/        *)
(* engine.ts, port/memory.ts): a model that defineModel() accepted, the    *)
(* tuples that grants, revokes and deletions leave, and the questions that *)
(* can() and list() answer about them: can() walks from an object to a     *)
(* subject (permissions/walk.ts), list() from a subject to the objects     *)
(* (permissions/reverse.ts).                                               *)
(*                                                                         *)
(* The two traversals are functions of what they read.                     *)
(* A question q carries the resolved model, the stored tuples, the fields  *)
(* of the objects (what the caller loaded, and what a lookup answers), the *)
(* condition's context ("absent", "passes" or "fails"), the subject and    *)
(* maxDepth.  An answer is "yes", "no", or why the traversal threw:        *)
(*   "depth"  PERMISSION_DEPTH,                                            *)
(*   "ctx"    a condition was reached and no ctx was passed,               *)
(*   "data"   a field was needed of an object nobody passed,               *)
(*   "lookup" a fromField without a lookup was reached backwards.          *)
(*                                                                         *)
(* The holders a store answers are unordered, so a walk has the set of     *)
(* answers that some order gives it.                                       *)
(*                                                                         *)
(* Every question is asked of every state: an invariant compares the two   *)
(* traversals with Derived, the least set of facts the declaration and the *)
(* tuples derive.                                                          *)
(***************************************************************************)
EXTENDS PermissionModel, SequencesExt

Nobody == "null"    \* the field of an object that names no subject

-----------------------------------------------------------------------------
(* can(): the walk stops at the first grant, and at the first throw.       *)

\* What a loop over outs, in any order, may answer.
AnyOrder(outs) ==
    (UNION outs \ {"no"})
      \cup (IF \A out \in outs : "no" \in out THEN {"no"} ELSE {})

\* What a loop over the sequence outs, in its order, may answer.
InOrder(outs) ==
    FoldLeft(LAMBDA acc, out :
               (acc \ {"no"}) \cup (IF "no" \in acc THEN out ELSE {}),
             {"no"}, outs)

FieldOf(q, entity, relation) == q.fields[entity.type][entity.id][relation]

(* Mutant: a check that stopped half-way denies.                           *)
DeniedPastDepth == {"no"}

\* Past maxDepth nothing was decided: PERMISSION_DEPTH, never a denial.
PastDepth == {"depth"}

\* The objects an arrow through relation reaches from node.
Targets(q, node, relation) ==
    LET through == q.model.types[node.entity.type].related[relation] IN
    IF through.kind = "fromField"
      THEN LET id == FieldOf(q, node.entity, relation) IN
           IF id = Nobody THEN {} ELSE {AnEntity(through.subject, id)}
      ELSE {e \in FindEntities(q.tuples, node.entity, relation) :
              Admits(through.holders, e)}

\* holds, below, is the walk itself: what a node answers to a name, so many steps
\* from the object asked about and with these names on the path to it.

\* A relation holds when the tuple is stored, through a subject set holding it,
\* or, read from a field, when the object's field names the subject.
RelationHolds(q, holds, node, name, depth, path) ==
    LET relation == q.model.types[node.entity.type].related[name] IN
    IF relation.kind = "fromField"
      THEN IF ~node.loaded THEN {"data"}
           ELSE IF /\ q.subject.relation = Entity
                   /\ q.subject.type = relation.subject
                   /\ q.subject.id = FieldOf(q, node.entity, name)
                  THEN {"yes"} ELSE {"no"}
    ELSE IF /\ Admits(relation.holders, q.subject)
            /\ Has(q.tuples, node.entity, name, q.subject)
      THEN {"yes"}
      ELSE AnyOrder(
             {holds[[entity |-> EntityOf(set), loaded |-> FALSE],
                    set.relation, depth + 1, path] :
                set \in {s \in FindSubjectSets(q.tuples, node.entity, name) :
                           Admits(relation.holders, s)}})

RuleHolds(q, holds, node, rule, depth, path) ==
    IF rule.test /\ q.ctx = "absent" THEN {"ctx"}
    ELSE IF rule.test /\ q.ctx = "fails" THEN {"no"}
    ELSE IF rule.kind = "name" THEN holds[node, rule.name, depth, path]
    ELSE IF /\ q.model.types[node.entity.type].related[rule.relation].kind = "fromField"
            /\ ~node.loaded
      THEN {"data"}
      ELSE AnyOrder({holds[[entity |-> target, loaded |-> FALSE],
                           rule.target, depth + 1, path] :
                       target \in Targets(q, node, rule.relation)})

AnyEntity == [type : STRING, id : STRING, relation : {Entity}]

Holds(q, object, loaded, asked) ==
    LET holds[node \in [entity : AnyEntity, loaded : BOOLEAN], name \in STRING,
              depth \in Nat, path \in SUBSET (AnyEntity \X STRING)] ==
          IF depth > q.maxDepth THEN PastDepth
          ELSE IF \/ <<node.entity, name>> \in path          \* a cycle in the data
                  \/ name \notin NamesOf(q.model, node.entity.type)
            THEN {"no"}
            ELSE LET onPath == path \cup {<<node.entity, name>>}
                     permits == q.model.types[node.entity.type].permits
                 IN  IF name \in DOMAIN permits
                       THEN InOrder([i \in DOMAIN permits[name] |->
                              RuleHolds(q, holds, node, permits[name][i], depth, onPath)])
                       ELSE RelationHolds(q, holds, node, name, depth, onPath)
    IN  holds[[entity |-> object, loaded |-> loaded], asked, 0, {}]

Can(q, name, object) == Holds(q, object, TRUE, name)

-----------------------------------------------------------------------------
(* The engine, and what it is asked.                                       *)

CONSTANTS
    Declarations,  \* the configurations given to defineModel()
    Ids,           \* the objects of each type and the subjects: type -> ids
    Stray,         \* tuples an older model stored
    Fields,        \* the fields of the objects: type -> id -> relation -> id
    Depths,        \* the maxDepth of a binding
    Askers,        \* the subjects the questions are about
    MaxTuples      \* bound: tuples stored at once

VARIABLES model, maxDepth, tuples

vars == <<model, maxDepth, tuples>>

Objects ==
    UNION {{AnEntity(t, id) : id \in Ids[t]} : t \in DOMAIN model.types}

Sets ==
    UNION {UNION {{[type |-> t, id |-> id, relation |-> r] :
                     r \in RelationNames(model, t)} : id \in Ids[t]} :
             t \in DOMAIN model.types}

Users    == UNION {{AnEntity(t, id) : id \in Ids[t]} : t \in model.subjects}
Subjects == Users \cup Objects \cup Sets

\* What grant(), revoke() and replace() may write: a stored relation, and a
\* holder it admits.
Writable ==
    UNION {UNION {{Tuple(o, r, s) :
                     s \in {x \in Subjects :
                              Admits(model.types[o.type].related[r].holders, x)}} :
                    r \in {n \in RelationNames(model, o.type) :
                             model.types[o.type].related[n].kind = "stored"}} :
             o \in Objects}

Init ==
    /\ model \in {c \in Declarations : ResolveModel(c)}
    /\ maxDepth \in Depths
    /\ tuples \in SUBSET Stray

Grant(t) ==
    /\ Cardinality(tuples) < MaxTuples
    /\ tuples' = Written(tuples, {}, {t})
    /\ UNCHANGED <<model, maxDepth>>

Revoke(t) ==
    /\ tuples' = Written(tuples, {t}, {})
    /\ UNCHANGED <<model, maxDepth>>

\* users.delete and onEntityDeleted: every tuple naming the entity goes.
DeleteEntity(e) ==
    /\ tuples' = WithoutEntity(tuples, e)
    /\ UNCHANGED <<model, maxDepth>>

Next ==
    \/ \E t \in Writable : Grant(t) \/ Revoke(t)
    \/ \E e \in Users \cup Objects : DeleteEntity(e)

Spec == Init /\ [][Next]_vars

-----------------------------------------------------------------------------
(* What holds by the declaration: the facts <<object, name>> that one more *)
(* step derives for the subject of q, and the least set closed under it.   *)

Question(subject, ctx) ==
    [model |-> model, tuples |-> tuples, fields |-> Fields, ctx |-> ctx,
     subject |-> subject, maxDepth |-> maxDepth]

DerivesRelation(q, object, name, facts) ==
    LET relation == model.types[object.type].related[name] IN
    IF relation.kind = "fromField"
      THEN q.subject = AnEntity(relation.subject, FieldOf(q, object, name))
      ELSE \E s \in HoldersOf(tuples, object, name) :
             /\ Admits(relation.holders, s)
             /\ s = q.subject \/ (s.relation # Entity /\ <<EntityOf(s), s.relation>> \in facts)

DerivesRule(q, object, rule, facts) ==
    /\ rule.test => q.ctx = "passes"
    /\ IF rule.kind = "name" THEN <<object, rule.name>> \in facts
       ELSE \E target \in Targets(q, [entity |-> object, loaded |-> TRUE], rule.relation) :
              <<target, rule.target>> \in facts

Names == UNION {{<<o, n>> : n \in NamesOf(model, o.type)} : o \in Objects}

Derives(q, facts) ==
    {f \in Names :
       LET type == model.types[f[1].type] IN
       IF f[2] \in DOMAIN type.permits
         THEN \E rule \in Range(type.permits[f[2]]) : DerivesRule(q, f[1], rule, facts)
         ELSE DerivesRelation(q, f[1], f[2], facts)}

Derived(q) ==
    LET closed[facts \in SUBSET Names] ==
          LET more == Derives(q, facts)
          IN  IF more = facts THEN facts ELSE closed[more]
    IN  closed[{}]

Asked == {Question(s, ctx) : s \in Askers, ctx \in {"passes", "fails"}}

\* A check never grants what does not follow and never denies what does,
\* whatever the cycles in the tuples, the order a store answers holders in, and
\* maxDepth: past it the check throws, and an outage is no denial.  In a model
\* that was accepted it needs no field of an object nobody passed (walk.ts,
\* resolve/refuse-data-beyond-root.ts).
CanFollows ==
    \A q \in Asked : LET facts == Derived(q) IN
      \A f \in Names :
        LET answers == Can(q, f[2], f[1]) IN
          /\ "yes" \in answers => f \in facts
          /\ "no" \in answers => f \notin facts
          /\ "data" \notin answers
=============================================================================
