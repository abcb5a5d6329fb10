------------------------------ MODULE RelationPort ------------------------------
(***************************************************************************)
(* The relation store of three adapters: the tuples of the memory store    *)
(* (permissions/port/memory.ts), the rows of PostgreSQL (janus-drizzle     *)
(* relations) and the keys of MongoDB (janus-mongo relations).  Each       *)
(* method is one statement here; how the transactions of two writes        *)
(* interleave is Relations'.                                               *)
(*                                                                         *)
(* A subject handed to the port may carry a relation that is undefined,    *)
(* None here: it is its entity, not a set.  An id is a number, and ids are *)
(* ordered as numbers.  A text searched for is what it stands for: the ids *)
(* that contain it, ignoring case, and those it would match as a pattern.  *)
(***************************************************************************)
EXTENDS RelationStore

CONSTANTS None, TypeRank

IsSubjectSet(subject) == subject.relation \notin {Entity, None}

copySubject(subject) ==
  [subject EXCEPT !.relation = IF IsSubjectSet(subject) THEN @ ELSE Entity]

copyTuple(tuple) == [tuple EXCEPT !.subject = copySubject(@)]

rowOf(tuple) ==
  [objectType |-> tuple.object.type, objectId |-> tuple.object.id, relation |-> tuple.relation,
   subjectType |-> tuple.subject.type, subjectId |-> tuple.subject.id,
   subjectRelation |-> IF IsSubjectSet(tuple.subject) THEN tuple.subject.relation ELSE None]

subjectKey(subject) ==
  IF IsSubjectSet(subject) THEN subject
  ELSE [field \in {"type", "id"} |-> subject[field]]

keyOf(tuple) ==
  [object |-> [field \in {"type", "id"} |-> tuple.object[field]],
   relation |-> tuple.relation, subject |-> subjectKey(tuple.subject)]

Encoded(b, tuple) ==
  CASE b = "memory"  -> copyTuple(tuple)
    [] b = "drizzle" -> rowOf(tuple)
    [] b = "mongo"   -> keyOf(tuple)

(* What each keeps, read back column by column.                            *)
ObjectOf(b, x) ==
  IF b = "drizzle" THEN AnEntity(x.objectType, x.objectId) ELSE AnEntity(x.object.type, x.object.id)

NamesASet(b, x) ==
  CASE b = "memory"  -> IsSubjectSet(x.subject)
    [] b = "drizzle" -> x.subjectRelation # None
    [] b = "mongo"   -> "relation" \in DOMAIN x.subject

SubjectOf(b, x) ==
  LET entity == IF b = "drizzle" THEN AnEntity(x.subjectType, x.subjectId)
                ELSE AnEntity(x.subject.type, x.subject.id)
      relation == IF b = "drizzle" THEN x.subjectRelation ELSE x.subject.relation
  IN  IF NamesASet(b, x) THEN [entity EXCEPT !.relation = relation] ELSE entity

-----------------------------------------------------------------------------
Answered(tuples, answer) == [tuples |-> tuples, answer |-> answer]

InvalidCursor == [code |-> "INVALID_CURSOR"]

write(b, tuples, add, remove) ==
  Answered(Written(tuples, {Encoded(b, t) : t \in remove}, {Encoded(b, t) : t \in add}), None)

has(b, tuples, tuple) == Answered(tuples, Encoded(b, tuple) \in tuples)

(* One hop from an object: its subject sets, or its entities.              *)
holding(b, tuples, object, relation, sets) ==
  {SubjectOf(b, x) : x \in {y \in tuples : /\ ObjectOf(b, y) = object /\ y.relation = relation
                                           /\ NamesASet(b, y) = sets}}

findSubjectSets(b, tuples, object, relation) ==
  Answered(tuples, holding(b, tuples, object, relation, TRUE))

findEntities(b, tuples, object, relation) ==
  Answered(tuples, holding(b, tuples, object, relation, FALSE))

(* Escaped, in a pattern.                                                  *)
idMatches(id, search) == search = None \/ id \in search.literal

(* A cursor that holderCursor minted follows a holder.                     *)
holderCursor(holder) == [minted |-> TRUE, follows |-> holder]

(* By type, then by id.                                                    *)
Compared(holder) == 1000 * TypeRank[holder.type] + holder.id

findHolders(b, tuples, object, relation, after, limit, search) ==
  LET found == {h \in holding(b, tuples, object, relation, FALSE) : idMatches(h.id, search)}
      from  == IF after = None THEN None ELSE after.follows
      rank  == [h \in found \cup ({from} \ {None}) |-> Compared(h)]
      page  == PageOf(found, rank, from, limit, None)
  IN  IF after # None /\ ~after.minted THEN Answered(tuples, InvalidCursor)
      ELSE Answered(tuples, [page EXCEPT !.next = IF @ = None THEN None ELSE holderCursor(@)])

findObjects(b, tuples, type, relation, subject, after, limit) ==
  LET ids == {ObjectOf(b, x).id :
                x \in {y \in tuples : /\ ObjectOf(b, y).type = type /\ y.relation = relation
                                      /\ SubjectOf(b, y) = copySubject(subject)}}
      rank == [id \in ids \cup ({after} \ {None}) |-> id]
  IN  Answered(tuples, PageOf(ids, rank, after, limit, None))

deleteEntity(b, tuples, entity) ==
  LET names(x) == entity \in {ObjectOf(b, x), EntityOf(SubjectOf(b, x))}
      deleted  == {x \in tuples : names(x)}
  IN  Answered(tuples \ deleted, Cardinality(deleted))

RelationMethods ==
  {"write", "has", "findSubjectSets", "findEntities", "findHolders", "findObjects", "deleteEntity"}

Ask(b, tuples, call) ==
  LET a == call.args
  IN  CASE call.method = "write"           -> write(b, tuples, a[1], a[2])
        [] call.method = "has"             -> has(b, tuples, a[1])
        [] call.method = "findSubjectSets" -> findSubjectSets(b, tuples, a[1], a[2])
        [] call.method = "findEntities"    -> findEntities(b, tuples, a[1], a[2])
        [] call.method = "findHolders"     -> findHolders(b, tuples, a[1], a[2], a[3], a[4], a[5])
        [] call.method = "findObjects"     -> findObjects(b, tuples, a[1], a[2], a[3], a[4], a[5])
        [] call.method = "deleteEntity"    -> deleteEntity(b, tuples, a[1])
=============================================================================
