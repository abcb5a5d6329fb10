--------------------------------- MODULE Reverse ---------------------------------
(***************************************************************************)
(* list(), which walks from a subject to the objects it holds a name on    *)
(* (permissions/list.ts, reverse.ts): the same questions as Permissions,   *)
(* run backwards over the same tuples.                                     *)
(***************************************************************************)
EXTENDS Permissions

-----------------------------------------------------------------------------
(* list(): a least fixpoint, by rounds.  A name met again on the path      *)
(* answers what the previous round found; a round threads what it found    *)
(* (current), whether it met a loop, and why it threw.                     *)

Round == [found |-> {}, current |-> <<>>, looped |-> FALSE, error |-> ""]

Found(answers, key) == IF key \in DOMAIN answers THEN answers[key] ELSE {}

(* Mutant: a name met again answers nothing, as it does for can().          *)
CutAnswersNothing(previous, key) == {}

\* What a name met again on the path answers: what the previous round found.
CutAnswers(previous, key) == Found(previous, key)

Lookup(q, type, relation, id) ==
    {o \in DOMAIN q.fields[type] : q.fields[type][o][relation] = id}

RECURSIVE Reach(_, _, _, _, _, _)

\* What one holder of a relation adds: the objects held through the sets of
\* holder.type on which the subject holds holder.relation.
ReachSets(q, type, name, holder, round, previous, path) ==
    LET r == Reach(q, holder.type, holder.relation, round, previous, path)
    IN  [r EXCEPT !.found = round.found \cup
           UNION {FindObjects(q.tuples, type, name,
                    [type |-> holder.type, id |-> id, relation |-> holder.relation]) :
                    id \in r.found}]

ReachRelation(q, type, name, round, previous, path) ==
    LET relation == q.model.types[type].related[name]
        asked == /\ q.subject.relation = Entity
                 /\ q.subject.type = relation.subject
        direct == IF Admits(relation.holders, q.subject)
                    THEN FindObjects(q.tuples, type, name, q.subject) ELSE {}
    IN  IF relation.kind = "fromField"
          THEN IF ~asked THEN round
               ELSE IF ~relation.lookup THEN [round EXCEPT !.error = "lookup"]
               ELSE [round EXCEPT !.found = Lookup(q, type, name, q.subject.id)]
          ELSE FoldLeft(LAMBDA r, holder :
                          IF holder.relation = Entity \/ r.error # "" THEN r
                          ELSE ReachSets(q, type, name, holder, r, previous, path),
                        [round EXCEPT !.found = direct], relation.holders)

\* What one holder of an arrow's relation adds: the objects related to an
\* entity of holder.type on which the subject holds the target.
ReachArrow(q, type, rule, holder, round, previous, path) ==
    LET r == Reach(q, holder.type, rule.target, round, previous, path)
        through == q.model.types[type].related[rule.relation]
    IN  IF r.error # "" THEN r
        ELSE IF through.kind = "fromField"
          THEN IF r.found # {} /\ ~through.lookup
                 THEN [r EXCEPT !.error = "lookup"]
                 ELSE [r EXCEPT !.found = round.found \cup
                         UNION {Lookup(q, type, rule.relation, id) : id \in r.found}]
          ELSE [r EXCEPT !.found = round.found \cup
                  UNION {FindObjects(q.tuples, type, rule.relation,
                                     AnEntity(holder.type, id)) : id \in r.found}]

ReachRule(q, type, rule, round, previous, path) ==
    IF rule.test /\ q.ctx = "absent" THEN [round EXCEPT !.error = "ctx"]
    ELSE IF rule.test /\ q.ctx = "fails" THEN round
    ELSE IF rule.kind = "name"
      THEN LET r == Reach(q, type, rule.name, round, previous, path)
           IN  [r EXCEPT !.found = round.found \cup r.found]
      ELSE LET through == q.model.types[type].related[rule.relation]
               met == IF through.kind = "fromField"
                        THEN <<[type |-> through.subject, relation |-> Entity]>>
                        ELSE through.holders
           IN  FoldLeft(LAMBDA r, holder :
                          IF \/ r.error # ""
                             \/ holder.relation # Entity
                             \/ holder.type \notin DOMAIN q.model.types
                            THEN r
                            ELSE ReachArrow(q, type, rule, holder, r, previous, path),
                        round, met)

\* The ids of the objects of type on which the subject holds name, into .found.
Reach(q, type, name, round, previous, path) ==
    LET key == <<type, name>>
        fresh == [round EXCEPT !.found = {}]
    IN  IF round.error # "" THEN round
        ELSE IF key \in DOMAIN round.current
          THEN [round EXCEPT !.found = round.current[key]]
        ELSE IF key \in path
          THEN [round EXCEPT !.found = CutAnswers(previous, key), !.looped = TRUE]
        ELSE IF name \notin NamesOf(q.model, type) THEN fresh
        ELSE LET permits == q.model.types[type].permits
                 r == IF name \in DOMAIN permits
                        THEN FoldLeft(LAMBDA x, rule :
                                        IF x.error # "" THEN x
                                        ELSE ReachRule(q, type, rule, x, previous,
                                                       path \cup {key}),
                                      fresh, permits[name])
                        ELSE ReachRelation(q, type, name, fresh, previous,
                                           path \cup {key})
             IN  [r EXCEPT !.current =
                    [k \in DOMAIN r.current \cup {key} |->
                       IF k = key THEN r.found ELSE r.current[k]]]

\* Whether a round found what the previous one did: nothing more to find.
Same(current, previous) ==
    \A key \in DOMAIN current :
      Cardinality(Found(previous, key)) = Cardinality(current[key])

RECURSIVE Rounds(_, _, _, _, _)

Rounds(q, type, name, n, previous) ==
    IF n > q.maxDepth THEN [ids |-> {}, error |-> "depth"]
    ELSE LET r == Reach(q, type, name, Round, previous, {})
         IN  IF r.error # "" THEN [ids |-> {}, error |-> r.error]
             ELSE IF ~r.looped \/ Same(r.current, previous)
               THEN [ids |-> r.found, error |-> ""]
               ELSE Rounds(q, type, name, n + 1, r.current)

List(q, name, type) == Rounds(q, type, name, 0, <<>>)

-----------------------------------------------------------------------------
\* list() run backwards finds exactly the objects can() grants one by one: its
\* rounds end at the least fixpoint, and on no smaller set.
ListAgrees ==
    \A q \in Asked : LET facts == Derived(q) IN
      \A t \in DOMAIN model.types : \A n \in NamesOf(model, t) :
        LET answer == List(q, n, t) IN
          answer.error = "" =>
            answer.ids = {id \in Ids[t] : <<AnEntity(t, id), n>> \in facts}
=============================================================================
