------------------------------- MODULE QueuePort -------------------------------
(***************************************************************************)
(* What the methods of the webhook queue answer, in memory                 *)
(* (janus-webhooks/src/queue/memory.ts) and over Redis                     *)
(* (janus-webhooks-redis/src/queue.ts, replies.ts): RedisQueue, and the    *)
(* port there, with the order of a claim, the failure a retry remembers    *)
(* and the event each delivery carries.                                    *)
(*                                                                         *)
(* A lease is the number of the claim that made it, the random UUID of     *)
(* this delivery's claim.  Of deliveries due at one instant the event with *)
(* the lower number comes first.                                           *)
(***************************************************************************)
EXTENDS Integers, Sequences, FiniteSets, SequencesExt, TLC

CONSTANTS None, Empty

DeliveryId(event, endpoint) == <<event.id, event.type, endpoint>>

EmptyQueue == [held |-> <<>>, due |-> <<>>]

Told(queue, answer) == [queue |-> queue, answer |-> answer]

(* null is '' in a hash; a lease released is '' too, and a failure that    *)
(* never was has no fields.                                                *)
Null(b) == IF b = "redis" THEN Empty ELSE None

failureFields(b, failed) ==
  [field \in {"status", "error"} |-> IF failed[field] = None THEN Null(b) ELSE failed[field]]

(* A delivery as it is held, before any attempt.                           *)
Inserted(b, event, endpoint) ==
  [event |-> event, endpoint |-> endpoint, attempts |-> 0, lease |-> Null(b)]

readFailure(b, held) ==
  IF {"status", "error"} \cap DOMAIN held = {} THEN None
  ELSE [field \in {"status", "error"} |-> IF held[field] = Null(b) THEN None ELSE held[field]]

toDelivery(b, id, held) ==
  [id |-> id, event |-> held.event, endpoint |-> held.endpoint, attempts |-> held.attempts,
   failed |-> readFailure(b, held), lease |-> held.lease]

-----------------------------------------------------------------------------
(* A delivery that is held, whatever became of it, is kept as it is.       *)
insertDeliveries(b, queue, event, endpoints, dueAt) ==
  LET new == {DeliveryId(event, e) : e \in endpoints} \ DOMAIN queue.held
  IN  Told([held |-> [id \in new |-> Inserted(b, event, id[3])] @@ queue.held,
            due  |-> [id \in new |-> dueAt] @@ queue.due],
           Cardinality(new))

(* Earliest first, of one endpoint.                                        *)
dueOf(queue, endpoint, at) ==
  LET ids == {id \in DOMAIN queue.due : id[3] = endpoint /\ queue.due[id] <= at}
      before(x) == {y \in ids : \/ queue.due[y] < queue.due[x]
                                \/ queue.due[y] = queue.due[x] /\ y[1] < x[1]}
  IN  [i \in 1..Cardinality(ids) |-> CHOOSE x \in ids : Cardinality(before(x)) = i - 1]

(* One more attempt, under a lease of its own.                             *)
claimed(held) == [held EXCEPT !.attempts = @ + 1, !.lease = held.attempts + 1]

(* Endpoint by endpoint, in the order given, up to the limit.              *)
claimFrom(b, queue, endpoints, at, leaseUntil, limit) ==
  LET all  == FlattenSeq([i \in DOMAIN endpoints |-> dueOf(queue, endpoints[i], at)])
      ids  == SubSeq(all, 1, IF Len(all) < limit THEN Len(all) ELSE limit)
      held == [id \in Range(ids) |-> claimed(queue.held[id])]
  IN  Told([held |-> held @@ queue.held,
            due  |-> [id \in Range(ids) |-> leaseUntil] @@ queue.due],
           [i \in DOMAIN ids |-> toDelivery(b, ids[i], held[ids[i]])])

claimDeliveries(b, queue, endpoints, now, leaseUntil, limit) ==
  claimFrom(b, queue, endpoints, now, leaseUntil, limit)

(* The endpoints with deliveries that are not known.                       *)
claimOrphanedDeliveries(b, queue, known, dueBefore, leaseUntil, limit) ==
  claimFrom(b, queue, SetToSeq({id[3] : id \in DOMAIN queue.held} \ known),
            dueBefore, leaseUntil, limit)

leased(b, queue, id, lease) ==
  id \in DOMAIN queue.held /\ lease # Null(b) /\ queue.held[id].lease = lease

extendLease(b, queue, id, lease, until) ==
  IF leased(b, queue, id, lease) THEN Told([queue EXCEPT !.due[id] = until], TRUE)
  ELSE Told(queue, FALSE)

scheduleRetry(b, queue, id, lease, dueAt, failed) ==
  LET held == failureFields(b, failed) @@ [queue.held[id] EXCEPT !.lease = Null(b)]
  IN  IF leased(b, queue, id, lease)
        THEN Told([held |-> [queue.held EXCEPT ![id] = held], due |-> [queue.due EXCEPT ![id] = dueAt]],
                  TRUE)
        ELSE Told(queue, FALSE)

deleteDelivery(b, queue, id, lease) ==
  LET without(f) == [other \in DOMAIN f \ {id} |-> f[other]]
  IN  IF leased(b, queue, id, lease)
        THEN Told([held |-> without(queue.held), due |-> without(queue.due)], TRUE)
        ELSE Told(queue, FALSE)

QueueMethods ==
  {"insertDeliveries", "claimDeliveries", "claimOrphanedDeliveries", "extendLease",
   "scheduleRetry", "deleteDelivery"}

Run(b, queue, call) ==
  LET a == call.args
  IN  CASE call.method = "insertDeliveries" -> insertDeliveries(b, queue, a[1], a[2], a[3])
        [] call.method = "claimDeliveries" -> claimDeliveries(b, queue, a[1], a[2], a[3], a[4])
        [] call.method = "claimOrphanedDeliveries" ->
             claimOrphanedDeliveries(b, queue, a[1], a[2], a[3], a[4])
        [] call.method = "extendLease"     -> extendLease(b, queue, a[1], a[2], a[3])
        [] call.method = "scheduleRetry"   -> scheduleRetry(b, queue, a[1], a[2], a[3], a[4])
        [] call.method = "deleteDelivery"  -> deleteDelivery(b, queue, a[1], a[2])
=============================================================================
