------------------------------ MODULE PortCases ------------------------------
(***************************************************************************)
(* The conformance cases of the relation store (packages/janus/src/        *)
(* conformance/relations/cases) and of the webhook queue (packages/        *)
(* janus-webhooks/src/conformance/cases), as data of the shape StoreCases  *)
(* gives.  Of twenty-five objects by ten there are five by two; of twenty  *)
(* claims of ten deliveries there are Crowd, of one fewer.                 *)
(***************************************************************************)
EXTENDS StoreCases


Direct == ""

entity(type, id)        == [type |-> type, id |-> id, relation |-> Direct]
set(type, id, relation) == [type |-> type, id |-> id, relation |-> relation]
Spread(type, id)        == [type |-> type, id |-> id, relation |-> None]

tuple(object, relation, subject) ==
  [object |-> object, relation |-> relation, subject |-> subject]

Record == entity("record", 1)
Elsewhere == entity("record", 2)
Staff  == entity("staff", 1)
Viewer(subject) == tuple(Record, "viewer", subject)

Adds(tuples)       == Runs("write", <<tuples, {}>>)
Removes(tuples)    == Runs("write", <<{}, tuples>>)
Stored(t, whether) == Is("has", <<t>>, whether)
Entities(object, relation, found) == Is("findEntities", <<object, relation>>, found)
Sets(object, relation, found)     == Is("findSubjectSets", <<object, relation>>, found)
Objects(type, relation, subject, after, limit, items, next) ==
  Is("findObjects", <<type, relation, subject, after, limit>>, [items |-> items, next |-> next])

-----------------------------------------------------------------------------
RelationReads ==
  LET direct    == Viewer(entity("staff", 3))
      inherited == Viewer(set("team", 4, "member"))
      members   == set("team", 9, "member")
      spread    == Viewer(Spread("staff", 1))
  IN  <<Case("relations.roundTrip", {},
          <<Adds({direct, inherited}), Stored(direct, TRUE), Stored(inherited, TRUE),
            Stored(Viewer(entity("patient", 3)), FALSE), Stored(Viewer(entity("team", 4)), FALSE),
            Stored(tuple(Elsewhere, "viewer", direct.subject), FALSE)>>),
        Case("relations.edgeCharacters", {},
          <<Adds({Viewer(members), Viewer(entity("staff", 9))}), Stored(Viewer(members), TRUE),
            Sets(Record, "viewer", {members}), Entities(Record, "viewer", {entity("staff", 9)}),
            Objects("record", "viewer", entity("staff", 9), None, 10, {1}, None),
            Stored(tuple(Elsewhere, "viewer", members), FALSE)>>),
        Case("relations.undefinedRelation", {},
          <<Adds({spread}), Stored(Viewer(Staff), TRUE),
            Entities(Record, "viewer", {Staff}), Sets(Record, "viewer", {}),
            Objects("record", "viewer", spread.subject, None, 10, {1}, None),
            Objects("record", "viewer", set("staff", 1, "x"), None, 10, {}, None),
            Removes({spread}), Stored(Viewer(Staff), FALSE)>>)>>

RelationAbsence ==
  <<Case("relations.absence", {},
      <<Stored(Viewer(Staff), FALSE), Sets(Record, "viewer", {}), Entities(Record, "viewer", {}),
        Objects("record", "viewer", Staff, None, 10, {}, None),
        Is("deleteEntity", <<Staff>>, 0)>>)>>

(* A store without findHolders is not asked.  The ids of a search: what    *)
(* contains its text, and what its text would match as a pattern.          *)
Minted(holder) == [minted |-> TRUE, follows |-> holder]
NotMinted      == [minted |-> FALSE, follows |-> Staff]

HoldersOf(after, limit, search, items, next) ==
  Is("findHolders", <<Record, "viewer", after, limit, search>>, [items |-> items, next |-> next])

Text(literal, pattern) == [literal |-> literal, pattern |-> pattern]

HolderCases ==
  LET staff(ids) == {entity("staff", id) : id \in ids}
      other      == entity("patient", 1)
      \* Ana, banana, a.b, a_b, a%b, a\b, axb and zed; ANA, a.b, a_b, a%b, a\b, nobody
      searches == <<Text({1, 2}, {1, 2}), Text({3}, 3..7), Text({4}, 3..7), Text({5}, 3..7),
                    Text({6}, {1, 2, 3, 5, 6}), Text({}, {})>>
      found(search) == HoldersOf(None, 2, search, staff(search.literal), None)
  IN  <<Case("relations.findHolders", {},
          <<Adds({Viewer(h) : h \in staff({1, 2, 3})} \cup
                 {Viewer(other), Viewer(set("team", 1, "member")),
                  tuple(Record, "owner", entity("staff", 7)), tuple(Elsewhere, "viewer", entity("staff", 6))}),
            HoldersOf(None, 3, None, {other} \cup staff({1, 2}), Minted(entity("staff", 2))),
            HoldersOf(Minted(entity("staff", 2)), 3, None, staff({3}), None),
            HoldersOf(Minted(entity("staff", 1)), 1, None, staff({2}), Minted(entity("staff", 2)))>>),
        Case("relations.findHolders.search", {},
          <<Adds({Viewer(h) : h \in staff(1..8)})>>
            \o [i \in DOMAIN searches |-> found(searches[i])]),
        Case("relations.findHolders.cursor", {},
          <<Adds({Viewer(Staff)}),
            Is("findHolders", <<Record, "viewer", NotMinted, 5, None>>, [code |-> "INVALID_CURSOR"])>>)>>

RelationWrites ==
  LET parent == tuple(Record, "parent", entity("folder", 1))
      before == tuple(Record, "owner", entity("staff", 1))
      after  == tuple(Record, "owner", entity("staff", 2))
      team   == Viewer(entity("team", 1))
  IN  <<Case("relations.idempotentWrite", {},
          <<Adds({team}), Adds({team}), Removes({Viewer(entity("team", 2))}),
            Entities(Record, "viewer", {team.subject})>>),
        Case("relations.uniqueness", {},
          <<Step(Crowded(Call("write", <<{parent}, {}>>)), Unheard, {}),
            Entities(Record, "parent", {parent.subject})>>),
        Case("relations.removeThenAdd", {},
          <<Adds({before}), Runs("write", <<{after}, {before}>>),
            Stored(before, FALSE), Stored(after, TRUE)>>)>>

RelationTraversal ==
  LET members == set("team", 1, "member")
      leads   == set("team", 1, "lead")
      beside(id) == {tuple(entity("record", id), "viewer", Staff), tuple(entity("record", id + 1), "editor", Staff),
                     tuple(entity("folder", id), "viewer", Staff),
                     tuple(entity("record", id + 1), "viewer", set("staff", 1, "x"))}
      page(after, items, next) == Objects("record", "viewer", Staff, after, 2, items, next)
  IN  <<Case("relations.oneHop", {},
          <<Adds({Viewer(Staff), Viewer(entity("team", 1)), Viewer(members), Viewer(leads),
                  tuple(Record, "editor", set("team", 1, "admin")),
                  tuple(Elsewhere, "viewer", set("team", 2, "member"))}),
            Sets(Record, "viewer", {members, leads}), Entities(Record, "viewer", {Staff, entity("team", 1)})>>),
        Case("relations.objects", {},
          [n \in 1..5 |-> Adds(beside(20 - 2 * n))]
            \o <<page(None, {10, 12}, 12), page(12, {14, 16}, 16), page(16, {18}, None),
                 page(13, {14, 16}, 16)>>)>>

RelationDeletion ==
  LET team  == entity("team", 1)
      other == entity("team", 2)
      staff == tuple(other, "member", Staff)
      set2  == Viewer(set("team", 2, "member"))
  IN  <<Case("relations.deleteEntity", {},
          <<Adds({tuple(team, "member", Staff), tuple(Elsewhere, "team", team),
                  Viewer(set("team", 1, "member")), staff, set2}),
            Is("deleteEntity", <<team>>, 3), Stored(staff, TRUE), Stored(set2, TRUE),
            Is("deleteEntity", <<team>>, 0)>>)>>

relationStoreCases ==
  RelationReads \o RelationAbsence \o HolderCases \o RelationWrites \o RelationTraversal \o RelationDeletion

-----------------------------------------------------------------------------
(* An outage, and after a write's, that it did nothing.                    *)
Seeded == Viewer(Staff)

relationOutage(method, args, then) ==
  [id |-> "outage", needs |-> {"faults"}, fails |-> method, sound |-> 1,
   steps |-> <<Adds({Seeded}), Is(method, args, Failure)>> \o then]

relationOutageCases ==
  LET owner == tuple(Record, "owner", Staff)
  IN  <<relationOutage("write", <<{owner}, {Seeded}>>, <<Stored(Seeded, TRUE), Stored(owner, FALSE)>>),
        relationOutage("has", <<Seeded>>, <<>>),
        relationOutage("findSubjectSets", <<Record, "viewer">>, <<>>),
        relationOutage("findEntities", <<Record, "viewer">>, <<>>),
        relationOutage("findHolders", <<Record, "viewer", None, 10, None>>, <<>>),
        relationOutage("findObjects", <<"record", "viewer", Staff, None, 10>>, <<>>),
        relationOutage("deleteEntity", <<Staff>>, <<>>)>>

allRelationCases == relationStoreCases \o relationOutageCases

-----------------------------------------------------------------------------
(* The queue.  A time counts from T0; a lease is the number of the claim   *)
(* that made it.                                                           *)

LEASE == 30

eventOf(id) == [id |-> id, type |-> "user.created", occurredAt |-> 0 - 1, userType |-> "user"]
Event == eventOf(1)

IdOf(event, endpoint) == <<event.id, event.type, endpoint>>

(* A delivery as its n-th claim answers it.                                *)
Queued(event, endpoint, n, failed) ==
  [id |-> IdOf(event, endpoint), event |-> event, endpoint |-> endpoint, attempts |-> n,
   failed |-> failed, lease |-> n]

Nth(n) == Queued(Event, "crm", n, None)
failed == [status |-> 503, error |-> None]
Retried(failure) == Queued(Event, "crm", 2, failure)

Inserts(event, endpoints, dueAt, new) == Is("insertDeliveries", <<event, endpoints, dueAt>>, new)
Claims(endpoints, now, limit, deliveries) ==
  Is("claimDeliveries", <<endpoints, now, now + LEASE, limit>>, deliveries)
claimAll(endpoints, now, deliveries) == Claims(endpoints, now, 100, deliveries)
Crm(now, deliveries) == claimAll(<<"crm">>, now, deliveries)
Orphans(known, dueBefore, limit, deliveries) ==
  Is("claimOrphanedDeliveries", <<known, dueBefore, LEASE, limit>>, deliveries)
Extends(lease, until, held)           == Is("extendLease", <<IdOf(Event, "crm"), lease, until>>, held)
Schedules(lease, dueAt, failure, held) ==
  Is("scheduleRetry", <<IdOf(Event, "crm"), lease, dueAt, failure>>, held)
Deletes(lease, held)                  == Is("deleteDelivery", <<IdOf(Event, "crm"), lease>>, held)

claimOne == <<Inserts(Event, {"crm"}, 0, 1), Crm(0, <<Nth(1)>>)>>

-----------------------------------------------------------------------------
TYPES ==
  <<"user.created", "user.emailVerified", "user.passwordReset", "user.passwordChanged",
    "user.emailChanged", "user.secondFactorEnabled", "user.secondFactorDisabled",
    "user.recoveryCodesRegenerated", "user.recoveryCodeUsed", "user.newDeviceSignedIn",
    "user.avatarChanged", "user.avatarRemoved", "user.deleted">>

First(event, endpoint) == Queued(event, endpoint, 1, None)
Both == {"crm", "search"}

insertCases ==
  LET round == [Event EXCEPT !.userType = "any bytes"]
      typed(i) == [eventOf(i) EXCEPT !.type = TYPES[i]]
  IN  <<Case("queue.roundTrip", {},
          <<Inserts(round, {"crm"}, 0, 1), Crm(0, <<First(round, "crm")>>)>>),
        Case("queue.everyType", {},
          [i \in DOMAIN TYPES |-> Inserts(typed(i), {"crm"}, 0, 1)]
            \o <<Crm(0, [i \in DOMAIN TYPES |-> First(typed(i), "crm")])>>),
        Case("queue.notBeforeDue", {},
          <<Inserts(Event, {"crm"}, 10, 1), Crm(9, <<>>), Crm(10, <<Nth(1)>>)>>),
        Case("queue.insertIsIdempotent", {},
          <<Inserts(Event, Both, 0, 2), Inserts(Event, Both, 0, 0),
            claimAll(<<"crm", "search">>, 0, <<First(Event, "crm"), First(Event, "search")>>)>>),
        Case("queue.insertNoEndpoint", {}, <<Inserts(Event, {}, 0, 0)>>),
        [id |-> "queue.rejectedInsertLeavesNothing", needs |-> {"faults"},
         fails |-> "insertDeliveries", sound |-> 0,
         steps |-> <<Inserts(Event, {"a", "b", "c"}, 0, Failure),
                     claimAll(<<"a", "b", "c">>, 0, <<>>)>>]>>

claimCases ==
  LET late == eventOf(1) early == eventOf(2) middle == eventOf(3) other == eventOf(4)
  IN  <<Case("queue.endpointsFilter", {},
          <<Inserts(Event, Both, 0, 2), Crm(0, <<Nth(1)>>)>>),
        Case("queue.earliestFirstAndLimit", {},
          <<Inserts(late, {"crm"}, 3, 1), Inserts(early, {"crm"}, 1, 1), Inserts(middle, {"crm"}, 2, 1),
            Claims(<<"crm">>, 10, 2, <<First(early, "crm"), First(middle, "crm")>>),
            Claims(<<"crm">>, 10, 2, <<First(late, "crm")>>),
            Inserts(other, {"search"}, 0, 1), Inserts(other, {"audit"}, 5, 1),
            Claims(<<"audit", "search">>, 10, 1, <<First(other, "audit")>>)>>)>>

queueCases == insertCases \o claimCases

leaseExpiryCases ==
  <<Case("lease.hidden", {}, claimOne \o <<Crm(LEASE - 1, <<>>)>>),
    Case("lease.expires", {}, claimOne \o <<Crm(LEASE, <<Nth(2)>>)>>)>>

leaseReinsertCases ==
  <<Case("lease.insertKeepsClaim", {},
      claimOne \o <<Inserts(Event, {"crm"}, 0, 0), Crm(LEASE - 1, <<>>), Crm(LEASE, <<Nth(2)>>)>>),
    Case("lease.insertKeepsRetry", {},
      claimOne \o <<Schedules(1, 5, failed, TRUE), Inserts(Event, {"crm"}, 0, 0),
                    Crm(4, <<>>), Crm(5, <<Retried(failed)>>)>>)>>

leaseHoldingCases ==
  <<Case("lease.staleLease", {},
      claimOne \o <<Crm(LEASE, <<Nth(2)>>), Extends(1, 10 * LEASE, FALSE),
                    Schedules(1, 0, failed, FALSE), Deletes(1, FALSE),
                    Crm(2 * LEASE - 1, <<>>), Deletes(2, TRUE)>>),
    Case("lease.extend", {},
      claimOne \o <<Extends(1, 3 * LEASE, TRUE), Crm(3 * LEASE - 1, <<>>), Crm(3 * LEASE, <<Nth(2)>>)>>)>>

leaseSettlingCases ==
  LET timedOut == [status |-> None, error |-> "TimeoutError"]
  IN  <<Case("lease.scheduleRetry", {},
          claimOne \o <<Schedules(1, 5, failed, TRUE), Deletes(1, FALSE),
                        Crm(4, <<>>), Crm(5, <<Retried(failed)>>)>>),
        Case("lease.failureRoundTrip", {},
          claimOne \o <<Schedules(1, 0, timedOut, TRUE), Crm(0, <<Retried(timedOut)>>)>>),
        Case("lease.delete", {},
          claimOne \o <<Deletes(1, TRUE), Crm(100 * LEASE, <<>>), Deletes(1, FALSE)>>)>>

(* Each delivery to one of the claims made at once.                        *)
leaseConcurrencyCases ==
  LET who   == 1..Crowd
      claim == Call("claimDeliveries", <<<<"crm">>, 0, LEASE, 1>>)
      shares == {p \in [who -> who] : {p[i] : i \in who} = who}
  IN  <<Case("lease.concurrentClaims", {},
          [i \in 1..(Crowd - 1) |-> Inserts(eventOf(i), {"crm"}, 0, 1)]
            \o <<Together(Crowded(claim),
                   {[i \in who |-> IF p[i] = Crowd THEN <<>>
                                   ELSE <<Queued(eventOf(p[i]), "crm", 1, None)>>] : p \in shares})>>)>>

leaseCases ==
  leaseExpiryCases \o leaseReinsertCases \o leaseHoldingCases \o leaseSettlingCases
    \o leaseConcurrencyCases

(* Of an endpoint no configuration knows, and overdue.                     *)
orphanCases ==
  LET removed(id, n) == Queued(eventOf(id), "removed", n, None)
      three == [id \in 1..3 |-> Inserts(eventOf(id), {"removed"}, 0, 1)]
  IN  <<Case("orphans.onlyUnknownAndOverdue", {},
          <<Inserts(eventOf(1), {"crm"}, 0, 1), Inserts(eventOf(2), {"removed"}, 0, 1),
            Inserts(eventOf(3), {"removed"}, 5, 1),
            Orphans({"crm"}, 1, 10, <<removed(2, 1)>>), Orphans({"crm"}, 1, 10, <<>>)>>),
        Case("orphans.limit", {},
          three \o <<Orphans({}, 0, 2, <<removed(1, 1), removed(2, 1)>>),
                     Orphans({}, 0, 2, <<removed(3, 1)>>)>>)>>

webhookQueueCases == queueCases \o leaseCases \o orphanCases

queueOutage(method, args) ==
  [id |-> "outage", needs |-> {"faults"}, fails |-> method, sound |-> 2,
   steps |-> claimOne \o <<Is(method, args, Failure)>>]

webhookQueueOutageCases ==
  LET seeded == IdOf(Event, "crm")
  IN  <<queueOutage("insertDeliveries", <<eventOf(2), {"crm"}, 0>>),
        queueOutage("claimDeliveries", <<<<"crm">>, LEASE, 2 * LEASE, 10>>),
        queueOutage("claimOrphanedDeliveries", <<{}, LEASE, 2 * LEASE, 10>>),
        queueOutage("extendLease", <<seeded, 1, 2 * LEASE>>),
        queueOutage("scheduleRetry", <<seeded, 1, LEASE, failed>>),
        queueOutage("deleteDelivery", <<seeded, 1>>)>>

allWebhookQueueCases == webhookQueueCases \o webhookQueueOutageCases
=============================================================================
