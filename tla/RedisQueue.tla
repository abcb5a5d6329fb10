---------------------------- MODULE RedisQueue -----------------------------
(***************************************************************************)
(* The webhook queue port (packages/janus-webhooks/src/queue/types.ts) and *)
(* its in-memory implementation, queue/memory.ts: each method is atomic,   *)
(* so each is an operator from the queue before the call to the queue      *)
(* after it.  A delivery is one event for one endpoint.                    *)
(*                                                                         *)
(* Then the durable queue of packages/janus-webhooks-redis (queue.ts and   *)
(* scripts.ts): the port over a hash and a member of a sorted set per      *)
(* delivery, and the set of the endpoints with deliveries waiting.  The    *)
(* score of the member is when the delivery is due or, while it is         *)
(* claimed, when its lease ends.                                           *)
(*                                                                         *)
(* Each method of it is one script, and Redis runs nothing beside it; but  *)
(* it rolls back none of a script's writes when a later command fails.  So *)
(* a script is an operator from the keys before it to the keys after it,   *)
(* and beside it the set of what it leaves when it stops half-way.         *)
(*                                                                         *)
(* Times are ticks from now, so a claim, an extension and a retry pass an  *)
(* offset where the code passes a date.  A lease is a random UUID in the   *)
(* code; here it is the number of the claim that made it, which no other   *)
(* claim of the delivery shares.  0 stands for the null lease.             *)
(***************************************************************************)
EXTENDS Integers, FiniteSets

CONSTANTS Delivery, Endpoint, None

-----------------------------------------------------------------------------
(* The port.                                                               *)

Held == [attempts : Nat, lease : Nat, due : Int]

ASSUME WebhookQueueAssumption == None \notin Held

Queue == [Delivery -> Held \cup {None}]

insertDeliveries(queue, inserted) ==
  [d \in Delivery |->
     IF d \in inserted /\ queue[d] = None
       THEN [attempts |-> 0, lease |-> 0, due |-> 0]
       ELSE queue[d]]

(* What a claim as of `at` may take: the leased ones are due at their end. *)
DueAt(queue, at) == {d \in Delivery : queue[d] # None /\ queue[d].due <= at}

claim(queue, claimed, leaseUntil) ==
  [d \in Delivery |->
     IF d \in claimed
       THEN [attempts |-> queue[d].attempts + 1, lease |-> queue[d].attempts + 1,
             due |-> leaseUntil]
       ELSE queue[d]]

Leased(queue, d, lease) == queue[d] # None /\ lease # 0 /\ queue[d].lease = lease

extendLease(queue, d, lease, until) ==
  IF Leased(queue, d, lease) THEN [queue EXCEPT ![d].due = until] ELSE queue

scheduleRetry(queue, d, lease, dueAt) ==
  IF Leased(queue, d, lease)
    THEN [queue EXCEPT ![d] = [attempts |-> @.attempts, lease |-> 0, due |-> dueAt]]
    ELSE queue

deleteDelivery(queue, d, lease) ==
  IF Leased(queue, d, lease) THEN [queue EXCEPT ![d] = None] ELSE queue

-----------------------------------------------------------------------------
(* The keys of Redis.                                                      *)

HashRecord == [attempts : Nat, lease : Nat]

ASSUME RedisQueueAssumption ==
  /\ \A d \in Delivery : d[2] \in Endpoint
  /\ None \notin Int /\ None \notin HashRecord

Keys ==
  [hash : [Delivery -> HashRecord \cup {None}],   \* {p}delivery:{id}
   due : [Delivery -> Int \cup {None}],           \* its score in {p}due:{endpoint}
   endpoints : SUBSET Endpoint]                   \* {p}endpoints

NoKeys == [hash |-> [d \in Delivery |-> None], due |-> [d \in Delivery |-> None],
           endpoints |-> {}]

(* What the port reads of the keys.                                        *)
QueueOf(keys) ==
  [d \in Delivery |->
     IF keys.hash[d] = None THEN None
     ELSE [attempts |-> keys.hash[d].attempts, lease |-> keys.hash[d].lease,
           due |-> keys.due[d]]]

(* ZCARD of an endpoint is not 0.                                          *)
HasMembers(due, e) == \E d \in Delivery : d[2] = e /\ due[d] # None

(* SREM for each of these that has no member left.                         *)
LeaveTheSet(endpoints, due, walked) ==
  {e \in endpoints : e \in walked => HasMembers(due, e)}

-----------------------------------------------------------------------------
(* INSERT_DELIVERIES.                                                      *)

NewOf(keys, inserted) == {d \in inserted : keys.hash[d] = None}

Inserted(keys, inserted) ==
  LET new == NewOf(keys, inserted)
  IN [hash |-> [d \in Delivery |-> IF d \in new THEN [attempts |-> 0, lease |-> 0]
                                   ELSE keys.hash[d]],
      due |-> [d \in Delivery |-> IF d \in new THEN 0 ELSE keys.due[d]],
      endpoints |-> keys.endpoints \cup {d[2] : d \in new}]

(* Under pcall, each write with how to undo it: for those that were tried, *)
(* the member goes, also one that was there with no hash, and the hash,    *)
(* and the endpoint this script added.                                     *)
InsertStops(keys, inserted) ==
  {[keys EXCEPT !.due = [d \in Delivery |-> IF d \in tried THEN None ELSE keys.due[d]]] :
     tried \in SUBSET NewOf(keys, inserted)}
  \cup {Inserted(keys, inserted)}

-----------------------------------------------------------------------------
(* CLAIM_FROM, for CLAIM_DELIVERIES and CLAIM_ORPHANED_DELIVERIES.         *)

InRange(keys, at, among) ==
  {d \in Delivery : d[2] \in among /\ keys.due[d] # None /\ keys.due[d] <= at}

Stale(keys, d) == keys.hash[d] = None

(* Which of those due fill the limit is left open: the order of the        *)
(* endpoints rotates.  The walk ends early only once the limit is reached, *)
(* and drops each stale member it goes past.                               *)
Walks(keys, at, among, limit) ==
  LET range == InRange(keys, at, among)
      held == {d \in range : ~ Stale(keys, d)}
      full(S) == Cardinality(S) = limit
  IN {walk \in [claimed : SUBSET held, dropped : SUBSET (range \ held), walked : SUBSET among] :
        /\ Cardinality(walk.claimed) <= limit
        /\ ~ full(walk.claimed) => /\ walk.claimed = held /\ walk.walked = among
                                   /\ walk.dropped = range \ held
        /\ \A d \in walk.claimed \cup walk.dropped : d[2] \in walk.walked}

Counted(hash, d) == [hash EXCEPT ![d].attempts = @ + 1]
LeasedBy(hash, d) == [hash EXCEPT ![d].lease = hash[d].attempts]

Claimed(keys, walk, leaseUntil) ==
  LET due == [d \in Delivery |-> IF d \in walk.claimed THEN leaseUntil
                                 ELSE IF d \in walk.dropped THEN None ELSE keys.due[d]]
  IN [hash |-> [d \in Delivery |->
                  IF d \in walk.claimed THEN LeasedBy(Counted(keys.hash, d), d)[d]
                  ELSE keys.hash[d]],
      due |-> due,
      endpoints |-> LeaveTheSet(keys.endpoints, due, walk.walked)]

(* So many were claimed, dropped and walked, and of one more the hash was  *)
(* written but not the member: counted, or under a lease nobody was told.  *)
ClaimStops(keys, walk, leaseUntil) ==
  LET cut == [claimed : SUBSET walk.claimed, dropped : SUBSET walk.dropped,
              walked : SUBSET walk.walked]
      further(k, S) == {k} \cup
        UNION {{[k EXCEPT !.hash = Counted(@, d)],
                [k EXCEPT !.hash = LeasedBy(Counted(@, d), d)]} : d \in walk.claimed \ S}
  IN {Claimed(keys, walk, leaseUntil)}
     \cup UNION {further(Claimed(keys, c, leaseUntil), c.claimed) : c \in cut}

-----------------------------------------------------------------------------
(* EXTEND_LEASE, SCHEDULE_RETRY and DELETE_DELIVERY, each under LEASED.    *)

leased(keys, d, lease) == keys.hash[d] # None /\ lease # 0 /\ keys.hash[d].lease = lease

Extended(keys, d, lease, until) ==
  IF leased(keys, d, lease) THEN [keys EXCEPT !.due[d] = until] ELSE keys

Released(keys, d, lease) ==
  IF leased(keys, d, lease) THEN [keys EXCEPT !.hash[d].lease = 0] ELSE keys

Scheduled(keys, d, lease, dueAt) ==
  IF leased(keys, d, lease) THEN [Released(keys, d, lease) EXCEPT !.due[d] = dueAt] ELSE keys

(* Due when the old lease ends, if the member was not written.             *)
ScheduleStops(keys, d, lease, dueAt) ==
  {keys, Released(keys, d, lease), Scheduled(keys, d, lease, dueAt)}

WithoutHash(keys, d) == [keys EXCEPT !.hash[d] = None]
WithoutMember(keys, d) == [keys EXCEPT !.due[d] = None]

Deleted(keys, d, lease) ==
  LET gone == WithoutMember(WithoutHash(keys, d), d)
  IN IF leased(keys, d, lease)
       THEN [gone EXCEPT !.endpoints = LeaveTheSet(@, gone.due, {d[2]})]
       ELSE keys

(* Mutant: the member first.                                               *)
DeleteStopsMemberFirst(keys, d, lease) ==
  IF leased(keys, d, lease)
    THEN {keys, WithoutMember(keys, d), Deleted(keys, d, lease)}
    ELSE {keys}

(* The hash first.                                                         *)
DeleteStops(keys, d, lease) ==
  IF leased(keys, d, lease)
    THEN {keys, WithoutHash(keys, d), WithoutMember(WithoutHash(keys, d), d),
          Deleted(keys, d, lease)}
    ELSE {keys}

-----------------------------------------------------------------------------
(* What no script leaves, whole or stopped: a hash without its member,     *)
(* which no claim would reach, or a member whose endpoint is not in the    *)
(* set, which no sweep would (DELETE_DELIVERY, INSERT_DELIVERIES: undo).   *)
Reached(keys) ==
  \A d \in Delivery :
    /\ keys.hash[d] # None => keys.due[d] # None
    /\ keys.due[d] # None => d[2] \in keys.endpoints
=============================================================================
