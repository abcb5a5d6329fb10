------------------------------ MODULE RelationStore ------------------------------
(***************************************************************************)
(* The relation store as its callers see it (permissions/port/memory.ts):  *)
(* a set of tuples, one per notation, the queries the traversals and the   *)
(* writers make of it, and the pages it cuts.                              *)
(*                                                                         *)
(* A tuple relates an object, an entity, to a subject: an entity, or a     *)
(* subject set, which carries the relation its members hold.               *)
(***************************************************************************)
EXTENDS Naturals, Sequences, FiniteSets

Entity == ""       \* the relation of a subject that is a single entity

AnEntity(type, id) == [type |-> type, id |-> id, relation |-> Entity]

EntityOf(subject) == AnEntity(subject.type, subject.id)

Tuple(object, relation, subject) ==
    [object |-> object, relation |-> relation, subject |-> subject]

\* The removals, then the additions, all or nothing.
Written(tuples, remove, add) == (tuples \ remove) \cup add

Has(tuples, object, relation, subject) ==
    Tuple(object, relation, subject) \in tuples

\* Every holder of relation on object; a subject set is not its entity.
HoldersOf(tuples, object, relation) ==
    {t.subject : t \in {x \in tuples : x.object = object /\ x.relation = relation}}

FindEntities(tuples, object, relation) ==
    {s \in HoldersOf(tuples, object, relation) : s.relation = Entity}

FindSubjectSets(tuples, object, relation) ==
    {s \in HoldersOf(tuples, object, relation) : s.relation # Entity}

\* The ids of the objects of a type that subject is directly related to.
FindObjects(tuples, type, relation, subject) ==
    {t.object.id : t \in {x \in tuples : /\ x.object.type = type
                                         /\ x.relation = relation
                                         /\ x.subject = subject}}

\* Every tuple naming entity goes: as the object, as the subject, and as the
\* entity of a subject set.
WithoutEntity(tuples, entity) ==
    {t \in tuples : t.object # entity /\ EntityOf(t.subject) # entity}

\* One page: the first limit members of all that come after the cursor, in the
\* order rank gives, and the cursor of the next page, or None.
PageOf(all, rank, after, limit, None) ==
    LET rest  == {e \in all : after = None \/ rank[e] > rank[after]}
        items == {e \in rest : Cardinality({x \in rest : rank[x] < rank[e]}) < limit}
    IN  [items |-> items,
         next  |-> IF rest = items \/ items = {} THEN None
                   ELSE CHOOSE e \in items : \A x \in items : rank[x] <= rank[e]]
=============================================================================
