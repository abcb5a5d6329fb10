------------------------ MODULE WebhookWorkerProofs ------------------------
(***************************************************************************)
(* What holds of WebhookWorker for any processes, events and endpoints,    *)
(* whatever crashes and whichever command of whichever script fails: every *)
(* delivery Redis keeps can be claimed, none is removed before it was      *)
(* delivered or reported, none is sent twice at once, one claim reports    *)
(* it, and each step is one a durable queue may take (Outbox).             *)
(*                                                                         *)
(* First, what the scripts of RedisQueue do, for any deliveries: each of   *)
(* them, whole, is the method of the port it stands for; each, whole or    *)
(* stopped, keeps every delivery within reach of a claim.                  *)
(*                                                                         *)
(* KeptWithinReach is inductive with the shapes of the keys and of the     *)
(* processes (a lease ends at a number).  That nothing is removed too soon *)
(* is so because a flight that may remove has ended its delivery           *)
(* (EndedFirst); the history only grows.  The rest is of leases: whoever   *)
(* sends has one that outlasts what it waits for (Holds), so that no walk  *)
(* comes near the delivery meanwhile; and a delivery ends once more than   *)
(* there were faults only in the hands of one such holder (EndedOnce).     *)
(*                                                                         *)
(* The last part is of the other worker, MemoryWorker: see there.          *)
(***************************************************************************)
EXTENDS WebhookWorker, FiniteSetTheorems, SequenceTheorems, TLAPS

-----------------------------------------------------------------------------
(* The keys stay the keys they are, and every delivery within reach.       *)

LEMMA InsertedKeeps ==
  ASSUME NEW keys \in Keys, Reached(keys), NEW S \in SUBSET Delivery
  PROVE  Inserted(keys, S) \in Keys /\ Reached(Inserted(keys, S))
<1> DEFINE after == Inserted(keys, S)
<1>1. after \in Keys
  BY RedisQueueAssumption DEF Inserted, NewOf, Keys, HashRecord
<1>2. ASSUME NEW d \in Delivery
      PROVE  /\ after.hash[d] # None => after.due[d] # None
             /\ after.due[d] # None => d[2] \in after.endpoints
  BY RedisQueueAssumption DEF Inserted, NewOf, Keys, Reached
<1> QED
  BY <1>1, <1>2 DEF Reached

LEMMA InsertStopsKeep ==
  ASSUME NEW keys \in Keys, Reached(keys), NEW S \in SUBSET Delivery,
         NEW after \in InsertStops(keys, S)
  PROVE  after \in Keys /\ Reached(after)
<1>1. CASE after = Inserted(keys, S)
  BY <1>1, InsertedKeeps
<1>2. CASE after # Inserted(keys, S)
  <2>1. PICK tried \in SUBSET NewOf(keys, S) :
          after = [keys EXCEPT !.due = [d \in Delivery |-> IF d \in tried THEN None
                                                            ELSE keys.due[d]]]
    BY <1>2 DEF InsertStops
  <2>2. after \in Keys
    BY <2>1 DEF Keys
  <2> QED
    BY <2>1, <2>2 DEF Keys, Reached, NewOf
<1> QED
  BY <1>1, <1>2

LEMMA LeavesOnlyTheEmpty ==
  ASSUME NEW endpoints \in SUBSET Endpoint, NEW due, NEW walked,
         NEW d \in Delivery, due[d] # None, d[2] \in endpoints
  PROVE  d[2] \in LeaveTheSet(endpoints, due, walked)
BY DEF LeaveTheSet, HasMembers

(* The hash of a delivery counted, and of one leased.                      *)
LEMMA CountedIs ==
  ASSUME NEW hash \in [Delivery -> HashRecord \cup {None}],
         NEW d \in Delivery, hash[d] # None
  PROVE  /\ Counted(hash, d) \in [Delivery -> HashRecord \cup {None}]
         /\ Counted(hash, d)[d] = [attempts |-> hash[d].attempts + 1, lease |-> hash[d].lease]
         /\ \A e \in Delivery \ {d} : Counted(hash, d)[e] = hash[e]
<1>1. PICK a \in Nat, l \in Nat : hash[d] = [attempts |-> a, lease |-> l]
  BY DEF HashRecord
<1>2. [hash[d] EXCEPT !.attempts = hash[d].attempts + 1] = [attempts |-> a + 1, lease |-> l]
  BY <1>1
<1>3. Counted(hash, d) = [hash EXCEPT ![d] = [attempts |-> a + 1, lease |-> l]]
  BY <1>2 DEF Counted
<1>4. [attempts |-> a + 1, lease |-> l] \in HashRecord
  BY <1>1 DEF HashRecord
<1> QED
  BY <1>1, <1>3, <1>4

LEMMA LeasedByIs ==
  ASSUME NEW hash \in [Delivery -> HashRecord \cup {None}],
         NEW d \in Delivery, hash[d] # None
  PROVE  /\ LeasedBy(hash, d) \in [Delivery -> HashRecord \cup {None}]
         /\ LeasedBy(hash, d)[d] = [attempts |-> hash[d].attempts, lease |-> hash[d].attempts]
         /\ \A e \in Delivery \ {d} : LeasedBy(hash, d)[e] = hash[e]
<1>1. PICK a \in Nat, l \in Nat : hash[d] = [attempts |-> a, lease |-> l]
  BY DEF HashRecord
<1>2. [hash[d] EXCEPT !.lease = hash[d].attempts] = [attempts |-> a, lease |-> a]
  BY <1>1
<1>3. LeasedBy(hash, d) = [hash EXCEPT ![d] = [attempts |-> a, lease |-> a]]
  BY <1>2 DEF LeasedBy
<1>4. [attempts |-> a, lease |-> a] \in HashRecord
  BY <1>1 DEF HashRecord
<1> QED
  BY <1>1, <1>3, <1>4

(* The hash a claim leaves of what it took.                                *)
LEMMA ClaimedHash ==
  ASSUME NEW hash \in [Delivery -> HashRecord \cup {None}],
         NEW d \in Delivery, hash[d] # None
  PROVE  /\ hash[d].attempts + 1 \in Nat
         /\ LeasedBy(Counted(hash, d), d)[d] =
              [attempts |-> hash[d].attempts + 1, lease |-> hash[d].attempts + 1]
<1> DEFINE counted == Counted(hash, d)
           n == hash[d].attempts + 1
<1>1. n \in Nat /\ hash[d].lease \in Nat
  BY DEF HashRecord
<1>2. /\ counted \in [Delivery -> HashRecord \cup {None}]
      /\ counted[d] = [attempts |-> n, lease |-> hash[d].lease]
  BY CountedIs
<1>3. [attempts |-> n, lease |-> hash[d].lease] \in HashRecord
  BY <1>1 DEF HashRecord
<1>4. counted[d] # None /\ counted[d].attempts = n
  BY <1>2, <1>3, RedisQueueAssumption
<1>5. LeasedBy(counted, d)[d] = [attempts |-> n, lease |-> n]
  <2> HIDE DEF counted, n
  <2> QED  BY <1>2, <1>4, LeasedByIs
<1> QED
  BY <1>1, <1>5

(* What every walk is.                                                     *)
LEMMA WalkIs ==
  ASSUME NEW keys, NEW at, NEW among, NEW limit, NEW walk \in Walks(keys, at, among, limit)
  PROVE  /\ walk.claimed \in SUBSET Delivery /\ walk.dropped \in SUBSET Delivery
         /\ \A d \in walk.claimed : /\ keys.hash[d] # None
                                    /\ keys.due[d] # None /\ keys.due[d] <= at
         /\ \A d \in walk.dropped : keys.hash[d] = None
BY DEF Walks, InRange, Stale

LEMMA ClaimedKeeps ==
  ASSUME NEW keys \in Keys, Reached(keys), NEW walk, NEW leaseUntil \in Int,
         walk.claimed \in SUBSET Delivery,
         \A d \in walk.claimed : keys.hash[d] # None /\ keys.due[d] # None,
         \A d \in walk.dropped : keys.hash[d] = None
  PROVE  /\ Claimed(keys, walk, leaseUntil) \in Keys
         /\ Reached(Claimed(keys, walk, leaseUntil))
<1> DEFINE after == Claimed(keys, walk, leaseUntil)
           due == [d \in Delivery |-> IF d \in walk.claimed THEN leaseUntil
                                      ELSE IF d \in walk.dropped THEN None ELSE keys.due[d]]
           hash == [d \in Delivery |->
                      IF d \in walk.claimed THEN LeasedBy(Counted(keys.hash, d), d)[d]
                      ELSE keys.hash[d]]
<1>1. after = [hash |-> hash, due |-> due,
               endpoints |-> LeaveTheSet(keys.endpoints, due, walk.walked)]
  BY DEF Claimed
<1>2. due \in [Delivery -> Int \cup {None}]
  BY DEF Keys
<1>3. ASSUME NEW d \in walk.claimed
      PROVE  LeasedBy(Counted(keys.hash, d), d)[d] \in HashRecord
  <2>1. keys.hash \in [Delivery -> HashRecord \cup {None}] /\ d \in Delivery
    BY <1>3 DEF Keys
  <2> HIDE DEF after, due, hash
  <2>2. keys.hash[d].attempts + 1 \in Nat
    BY <1>3, <2>1, ClaimedHash
  <2>3. LeasedBy(Counted(keys.hash, d), d)[d] =
          [attempts |-> keys.hash[d].attempts + 1, lease |-> keys.hash[d].attempts + 1]
    BY <1>3, <2>1, ClaimedHash
  <2> QED  BY <2>2, <2>3 DEF HashRecord
<1>4. hash \in [Delivery -> HashRecord \cup {None}]
  BY <1>3 DEF Keys
<1>5. LeaveTheSet(keys.endpoints, due, walk.walked) \subseteq Endpoint
  BY DEF LeaveTheSet, Keys
<1>6. after \in Keys
  <2> HIDE DEF after, due, hash
  <2> QED  BY <1>1, <1>2, <1>4, <1>5 DEF Keys
<1>7. ASSUME NEW d \in Delivery
      PROVE  /\ hash[d] # None => due[d] # None
             /\ due[d] # None => d[2] \in keys.endpoints
  BY <1>7, RedisQueueAssumption DEF Reached
<1>8. ASSUME NEW d \in Delivery, due[d] # None
      PROVE  d[2] \in LeaveTheSet(keys.endpoints, due, walk.walked)
  <2>1. d[2] \in keys.endpoints /\ keys.endpoints \in SUBSET Endpoint
    BY <1>7, <1>8 DEF Keys
  <2> HIDE DEF due
  <2> QED  BY <1>8, <2>1, LeavesOnlyTheEmpty
<1> HIDE DEF due, hash
<1> QED
  BY <1>1, <1>6, <1>7, <1>8 DEF Reached

(* A claim that stopped between the hash of a delivery and its member.     *)
LEMMA FurtherKeeps ==
  ASSUME NEW keys \in Keys, Reached(keys), NEW d \in Delivery, keys.hash[d] # None,
         NEW after \in {[keys EXCEPT !.hash = Counted(keys.hash, d)],
                        [keys EXCEPT !.hash = LeasedBy(Counted(keys.hash, d), d)]}
  PROVE  after \in Keys /\ Reached(after)
<1> DEFINE HashType == [Delivery -> HashRecord \cup {None}]
           counted == Counted(keys.hash, d)
<1>1. keys.hash \in HashType
  BY DEF Keys
<1>2. counted \in HashType /\ counted[d] = [attempts |-> keys.hash[d].attempts + 1,
                                            lease |-> keys.hash[d].lease]
  BY <1>1, CountedIs
<1>3. \A e \in Delivery \ {d} : counted[e] = keys.hash[e]
  BY <1>1, CountedIs
<1>4. counted[d] # None
  BY <1>1, <1>2, RedisQueueAssumption DEF HashRecord
<1>5. LeasedBy(counted, d) \in HashType
  <2> HIDE DEF counted
  <2> QED  BY <1>2, <1>4, LeasedByIs
<1>6. \A e \in Delivery \ {d} : LeasedBy(counted, d)[e] = keys.hash[e]
  <2> HIDE DEF counted
  <2> QED  BY <1>2, <1>3, <1>4, LeasedByIs
<1>7. PICK hash \in HashType : /\ after = [keys EXCEPT !.hash = hash]
                               /\ \A e \in Delivery \ {d} : hash[e] = keys.hash[e]
  <2> HIDE DEF counted
  <2>1. after \in {[keys EXCEPT !.hash = counted], [keys EXCEPT !.hash = LeasedBy(counted, d)]}
    BY DEF counted
  <2> QED  BY <2>1, <1>2, <1>3, <1>5, <1>6
<1>8. /\ after \in Keys /\ after.hash = hash
      /\ after.due = keys.due /\ after.endpoints = keys.endpoints
  BY <1>7 DEF Keys
<1> QED
  BY <1>7, <1>8 DEF Reached

LEMMA ClaimStopsKeep ==
  ASSUME NEW keys \in Keys, Reached(keys), NEW leaseUntil \in Int,
         NEW at, NEW among, NEW limit, NEW walk \in Walks(keys, at, among, limit),
         NEW after \in ClaimStops(keys, walk, leaseUntil)
  PROVE  after \in Keys /\ Reached(after)
<1>1. /\ walk.claimed \in SUBSET Delivery
      /\ \A d \in walk.claimed : keys.hash[d] # None /\ keys.due[d] # None
      /\ \A d \in walk.dropped : keys.hash[d] = None
  BY WalkIs
<1>2. CASE after = Claimed(keys, walk, leaseUntil)
  BY <1>1, <1>2, ClaimedKeeps
<1>3. CASE after # Claimed(keys, walk, leaseUntil)
  <2> DEFINE cut == [claimed : SUBSET walk.claimed, dropped : SUBSET walk.dropped,
                     walked : SUBSET walk.walked]
             further(k, S) == {k} \cup
               UNION {{[k EXCEPT !.hash = Counted(k.hash, d)],
                       [k EXCEPT !.hash = LeasedBy(Counted(k.hash, d), d)]} :
                        d \in walk.claimed \ S}
  <2>1. PICK c \in cut : after \in further(Claimed(keys, c, leaseUntil), c.claimed)
    BY <1>3 DEF ClaimStops
  <2> DEFINE k == Claimed(keys, c, leaseUntil)
  <2>2. /\ c.claimed \in SUBSET walk.claimed
        /\ c.dropped \in SUBSET walk.dropped
    BY <2>1
  <2>3. k \in Keys /\ Reached(k)
    BY <1>1, <2>2, ClaimedKeeps
  <2>4. ASSUME NEW d \in walk.claimed \ c.claimed
        PROVE  d \in Delivery /\ k.hash[d] # None
    BY <1>1, <2>4 DEF Claimed
  <2>5. CASE after = k
    BY <2>3, <2>5
  <2>6. CASE after # k
    <3>1. PICK d \in walk.claimed \ c.claimed :
            after \in {[k EXCEPT !.hash = Counted(k.hash, d)],
                       [k EXCEPT !.hash = LeasedBy(Counted(k.hash, d), d)]}
      <4> HIDE DEF k
      <4> QED  BY <2>1, <2>6 DEF k
    <3> HIDE DEF k
    <3> QED  BY <2>3, <2>4, <3>1, FurtherKeeps
  <2> QED
    BY <2>5, <2>6
<1> QED
  BY <1>2, <1>3

LEMMA ExtendedKeeps ==
  ASSUME NEW keys \in Keys, Reached(keys), NEW d \in Delivery, NEW lease, NEW until \in Int
  PROVE  /\ Extended(keys, d, lease, until) \in Keys
         /\ Reached(Extended(keys, d, lease, until))
<1>1. CASE ~ leased(keys, d, lease)
  BY <1>1 DEF Extended
<1>2. CASE leased(keys, d, lease)
  <2> DEFINE after == [keys EXCEPT !.due[d] = until]
  <2>1. /\ after \in Keys /\ after.hash = keys.hash /\ after.endpoints = keys.endpoints
        /\ \A e \in Delivery : after.due[e] = IF e = d THEN until ELSE keys.due[e]
    BY DEF Keys
  <2>2. keys.due[d] # None
    BY <1>2 DEF leased, Reached
  <2>3. Reached(after)
    <3> HIDE DEF after
    <3> QED  BY <2>1, <2>2, RedisQueueAssumption DEF Reached
  <2> QED
    BY <1>2, <2>1, <2>3 DEF Extended
<1> QED
  BY <1>1, <1>2

LEMMA ReleasedKeeps ==
  ASSUME NEW keys \in Keys, Reached(keys), NEW d \in Delivery, NEW lease
  PROVE  /\ Released(keys, d, lease) \in Keys
         /\ Reached(Released(keys, d, lease))
<1>1. CASE ~ leased(keys, d, lease)
  BY <1>1 DEF Released
<1>2. CASE leased(keys, d, lease)
  <2> DEFINE released == [keys.hash[d] EXCEPT !.lease = 0]
             after == [keys EXCEPT !.hash[d].lease = 0]
  <2>1. keys.hash[d] \in HashRecord
    BY <1>2 DEF leased, Keys
  <2>2. released \in HashRecord
    BY <2>1 DEF HashRecord
  <2>3. after = [keys EXCEPT !.hash[d] = released]
    OBVIOUS
  <2>4. /\ after \in Keys /\ after.due = keys.due /\ after.endpoints = keys.endpoints
        /\ \A e \in Delivery : after.hash[e] = IF e = d THEN released ELSE keys.hash[e]
    <3> HIDE DEF released, after
    <3> QED  BY <2>2, <2>3 DEF Keys
  <2>5. Reached(after)
    <3> HIDE DEF after
    <3> QED  BY <1>2, <2>4 DEF Reached, leased
  <2> QED
    BY <1>2, <2>4, <2>5 DEF Released
<1> QED
  BY <1>1, <1>2

LEMMA ScheduledKeeps ==
  ASSUME NEW keys \in Keys, Reached(keys), NEW d \in Delivery, NEW lease, NEW dueAt \in Int
  PROVE  /\ Scheduled(keys, d, lease, dueAt) \in Keys
         /\ Reached(Scheduled(keys, d, lease, dueAt))
<1>1. CASE ~ leased(keys, d, lease)
  BY <1>1 DEF Scheduled
<1>2. CASE leased(keys, d, lease)
  <2> DEFINE released == Released(keys, d, lease)
             after == [released EXCEPT !.due[d] = dueAt]
  <2>1. released \in Keys /\ Reached(released)
    BY ReleasedKeeps
  <2>2. released.due = keys.due
    BY DEF Released, Keys
  <2> HIDE DEF released
  <2>3. /\ after \in Keys /\ after.hash = released.hash
        /\ after.endpoints = released.endpoints
        /\ \A e \in Delivery : after.due[e] = IF e = d THEN dueAt ELSE released.due[e]
    BY <2>1 DEF Keys
  <2>4. released.due[d] # None
    BY <1>2, <2>2 DEF leased, Reached
  <2>5. Reached(after)
    <3> HIDE DEF after
    <3> QED  BY <2>1, <2>3, <2>4, RedisQueueAssumption DEF Reached
  <2> QED
    BY <1>2, <2>3, <2>5 DEF Scheduled, released
<1> QED
  BY <1>1, <1>2

LEMMA ScheduleStopsKeep ==
  ASSUME NEW keys \in Keys, Reached(keys), NEW d \in Delivery, NEW lease, NEW dueAt \in Int,
         NEW after \in ScheduleStops(keys, d, lease, dueAt)
  PROVE  after \in Keys /\ Reached(after)
BY ReleasedKeeps, ScheduledKeeps DEF ScheduleStops

(* The hash first, then the member: what is left is within reach.          *)
LEMMA WithoutKeeps ==
  ASSUME NEW keys \in Keys, Reached(keys), NEW d \in Delivery
  PROVE  /\ WithoutHash(keys, d) \in Keys /\ Reached(WithoutHash(keys, d))
         /\ WithoutMember(WithoutHash(keys, d), d) \in Keys
         /\ Reached(WithoutMember(WithoutHash(keys, d), d))
<1> DEFINE one == WithoutHash(keys, d)
           two == WithoutMember(one, d)
<1>1. /\ one \in Keys /\ one.due = keys.due /\ one.endpoints = keys.endpoints
      /\ \A e \in Delivery : one.hash[e] = IF e = d THEN None ELSE keys.hash[e]
  BY DEF WithoutHash, Keys
<1>2. Reached(one)
  <2> HIDE DEF one
  <2> QED  BY <1>1 DEF Reached
<1>3. /\ two \in Keys /\ two.hash = one.hash /\ two.endpoints = one.endpoints
      /\ \A e \in Delivery : two.due[e] = IF e = d THEN None ELSE one.due[e]
  <2> HIDE DEF one
  <2> QED  BY <1>1 DEF WithoutMember, Keys
<1>4. Reached(two)
  <2> HIDE DEF one, two
  <2> QED  BY <1>1, <1>2, <1>3 DEF Reached
<1> QED
  BY <1>1, <1>2, <1>3, <1>4

LEMMA DeletedKeeps ==
  ASSUME NEW keys \in Keys, Reached(keys), NEW d \in Delivery, NEW lease
  PROVE  /\ Deleted(keys, d, lease) \in Keys
         /\ Reached(Deleted(keys, d, lease))
<1>1. CASE ~ leased(keys, d, lease)
  BY <1>1 DEF Deleted
<1>2. CASE leased(keys, d, lease)
  <2> DEFINE gone == WithoutMember(WithoutHash(keys, d), d)
             left == LeaveTheSet(gone.endpoints, gone.due, {d[2]})
             after == [gone EXCEPT !.endpoints = left]
  <2>1. gone \in Keys /\ Reached(gone)
    BY WithoutKeeps
  <2> HIDE DEF gone
  <2>2. left \subseteq Endpoint
    BY <2>1 DEF LeaveTheSet, Keys
  <2>3. \A e \in Delivery : gone.due[e] # None => e[2] \in left
    <3> SUFFICES ASSUME NEW e \in Delivery, gone.due[e] # None
                 PROVE  e[2] \in left
      OBVIOUS
    <3>1. e[2] \in gone.endpoints /\ gone.endpoints \in SUBSET Endpoint
      BY <2>1 DEF Reached, Keys
    <3> QED
      BY <3>1, LeavesOnlyTheEmpty
  <2> HIDE DEF left
  <2>4. after \in Keys /\ after.hash = gone.hash /\ after.due = gone.due /\ after.endpoints = left
    BY <2>1, <2>2 DEF Keys
  <2>5. Reached(after)
    <3> HIDE DEF after
    <3> QED  BY <2>1, <2>3, <2>4 DEF Reached
  <2>6. Deleted(keys, d, lease) = after
    BY <1>2 DEF Deleted, gone, left
  <2> QED
    BY <2>4, <2>5, <2>6
<1> QED
  BY <1>1, <1>2

LEMMA DeleteStopsKeep ==
  ASSUME NEW keys \in Keys, Reached(keys), NEW d \in Delivery, NEW lease,
         NEW after \in DeleteStops(keys, d, lease)
  PROVE  after \in Keys /\ Reached(after)
BY WithoutKeeps, DeletedKeeps DEF DeleteStops

-----------------------------------------------------------------------------
(* Each script, whole, is the method of the port.                          *)

(* What the port reads of a delivery that is held.                         *)
LEMMA HeldIs ==
  ASSUME NEW keys \in Keys, Reached(keys), NEW d \in Delivery, keys.hash[d] # None
  PROVE  /\ QueueOf(keys)[d] = [attempts |-> keys.hash[d].attempts,
                                lease |-> keys.hash[d].lease, due |-> keys.due[d]]
         /\ QueueOf(keys)[d] # None
         /\ QueueOf(keys)[d].attempts = keys.hash[d].attempts
         /\ QueueOf(keys)[d].lease = keys.hash[d].lease
         /\ QueueOf(keys)[d].due = keys.due[d]
         /\ keys.hash[d].attempts \in Nat /\ keys.hash[d].lease \in Nat
         /\ keys.due[d] \in Int
<1>1. /\ keys.hash[d].attempts \in Nat /\ keys.hash[d].lease \in Nat
      /\ keys.due[d] \in Int
  BY DEF Keys, HashRecord, Reached
<1>2. QueueOf(keys)[d] = [attempts |-> keys.hash[d].attempts,
                          lease |-> keys.hash[d].lease, due |-> keys.due[d]]
  BY DEF QueueOf
<1>3. QueueOf(keys)[d] \in Held
  BY <1>1, <1>2 DEF Held
<1> QED
  BY <1>1, <1>2, <1>3, WebhookQueueAssumption

LEMMA NotHeldIs ==
  ASSUME NEW keys, NEW d \in Delivery, keys.hash[d] = None
  PROVE  QueueOf(keys)[d] = None
BY DEF QueueOf

LEMMA LeasedIs ==
  ASSUME NEW keys \in Keys, Reached(keys), NEW d \in Delivery, NEW lease
  PROVE  leased(keys, d, lease) <=> Leased(QueueOf(keys), d, lease)
<1>1. CASE keys.hash[d] = None
  BY <1>1, NotHeldIs DEF leased, Leased
<1>2. CASE keys.hash[d] # None
  <2>1. QueueOf(keys)[d] # None /\ QueueOf(keys)[d].lease = keys.hash[d].lease
    BY <1>2, HeldIs
  <2> QED  BY <1>2, <2>1 DEF leased, Leased
<1> QED
  BY <1>1, <1>2

(* INSERT_DELIVERIES inserts those that are not held; stopped at any of    *)
(* its commands it inserted all of them or none, as its undo promises.     *)
THEOREM InsertIsThePort ==
  ASSUME NEW keys \in Keys, Reached(keys), NEW S \in SUBSET Delivery
  PROVE  /\ QueueOf(Inserted(keys, S)) = insertDeliveries(QueueOf(keys), S)
         /\ \A after \in InsertStops(keys, S) :
              QueueOf(after) \in {QueueOf(keys), QueueOf(Inserted(keys, S))}
<1>1. ASSUME NEW d \in Delivery
      PROVE  QueueOf(Inserted(keys, S))[d] = insertDeliveries(QueueOf(keys), S)[d]
  <2>1. CASE keys.hash[d] # None
    <3>1. QueueOf(keys)[d] # None
      BY <2>1, HeldIs
    <3>2. Inserted(keys, S).hash[d] = keys.hash[d] /\ Inserted(keys, S).due[d] = keys.due[d]
      BY <2>1 DEF Inserted, NewOf
    <3> QED
      BY <3>1, <3>2 DEF QueueOf, insertDeliveries
  <2>2. CASE keys.hash[d] = None /\ d \notin S
    <3>1. Inserted(keys, S).hash[d] = None
      BY <2>2 DEF Inserted, NewOf
    <3> QED
      BY <2>2, <3>1 DEF QueueOf, insertDeliveries
  <2>3. CASE keys.hash[d] = None /\ d \in S
    <3>1. /\ Inserted(keys, S).hash[d] = [attempts |-> 0, lease |-> 0]
          /\ Inserted(keys, S).due[d] = 0
      BY <2>3 DEF Inserted, NewOf
    <3>2. [attempts |-> 0, lease |-> 0] # None
      BY RedisQueueAssumption DEF HashRecord
    <3> QED
      BY <2>3, <3>1, <3>2 DEF QueueOf, insertDeliveries
  <2> QED
    BY <2>1, <2>2, <2>3
<1>2. QueueOf(Inserted(keys, S)) = insertDeliveries(QueueOf(keys), S)
  BY <1>1 DEF QueueOf, insertDeliveries
<1>3. ASSUME NEW after \in InsertStops(keys, S), after # Inserted(keys, S)
      PROVE  QueueOf(after) = QueueOf(keys)
  <2>1. PICK tried \in SUBSET NewOf(keys, S) :
          after = [keys EXCEPT !.due = [d \in Delivery |-> IF d \in tried THEN None
                                                            ELSE keys.due[d]]]
    BY <1>3 DEF InsertStops
  <2>2. /\ after.hash = keys.hash
        /\ \A d \in Delivery : keys.hash[d] # None => after.due[d] = keys.due[d]
    BY <2>1 DEF Keys, NewOf
  <2> QED
    BY <2>2 DEF QueueOf
<1> QED
  BY <1>2, <1>3

(* CLAIM_DELIVERIES takes deliveries that are due, no more than the limit, *)
(* and leaves them as the port's claim does; the members it drops on the   *)
(* way are no deliveries.                                                  *)
THEOREM ClaimIsThePort ==
  ASSUME NEW keys \in Keys, Reached(keys), NEW at \in Int, NEW among, NEW limit,
         NEW walk \in Walks(keys, at, among, limit), NEW leaseUntil \in Int
  PROVE  /\ walk.claimed \subseteq DueAt(QueueOf(keys), at)
         /\ QueueOf(Claimed(keys, walk, leaseUntil))
              = claim(QueueOf(keys), walk.claimed, leaseUntil)
<1>1. /\ walk.claimed \in SUBSET Delivery
      /\ \A d \in walk.claimed : keys.hash[d] # None /\ keys.due[d] <= at
      /\ \A d \in walk.dropped : keys.hash[d] = None
  BY WalkIs
<1>2. walk.claimed \subseteq DueAt(QueueOf(keys), at)
  <2> SUFFICES ASSUME NEW d \in walk.claimed
               PROVE  d \in DueAt(QueueOf(keys), at)
    OBVIOUS
  <2>1. /\ d \in Delivery /\ QueueOf(keys)[d] # None
        /\ QueueOf(keys)[d].due = keys.due[d] /\ keys.due[d] <= at
    BY <1>1, HeldIs
  <2> QED
    BY <2>1 DEF DueAt
<1> DEFINE after == Claimed(keys, walk, leaseUntil)
<1>3. ASSUME NEW d \in Delivery
      PROVE  QueueOf(after)[d] = claim(QueueOf(keys), walk.claimed, leaseUntil)[d]
  <2>1. CASE d \in walk.claimed
    <3> DEFINE n == keys.hash[d].attempts + 1
    <3>1. keys.hash[d] # None
      BY <1>1, <2>1
    <3>2. keys.hash \in [Delivery -> HashRecord \cup {None}]
      BY DEF Keys
    <3>3. LeasedBy(Counted(keys.hash, d), d)[d] = [attempts |-> n, lease |-> n] /\ n \in Nat
      BY <3>1, <3>2, ClaimedHash
    <3>4. [attempts |-> n, lease |-> n] # None
      BY <3>3, RedisQueueAssumption DEF HashRecord
    <3>5. after.hash[d] = [attempts |-> n, lease |-> n] /\ after.due[d] = leaseUntil
      BY <2>1, <3>3 DEF Claimed
    <3>6. QueueOf(after)[d] = [attempts |-> n, lease |-> n, due |-> leaseUntil]
      <4> HIDE DEF after, n
      <4> QED  BY <3>4, <3>5 DEF QueueOf
    <3>7. QueueOf(keys)[d].attempts = keys.hash[d].attempts
      BY <3>1, HeldIs
    <3> QED
      BY <2>1, <3>6, <3>7 DEF claim
  <2>2. CASE d \notin walk.claimed
    <3>1. after.hash[d] = keys.hash[d]
      BY <2>2 DEF Claimed
    <3>2. keys.hash[d] # None => after.due[d] = keys.due[d]
      BY <1>1, <2>2 DEF Claimed
    <3> HIDE DEF after
    <3> QED
      BY <2>2, <3>1, <3>2 DEF QueueOf, claim
  <2> QED
    BY <2>1, <2>2
<1>4. QueueOf(after) = claim(QueueOf(keys), walk.claimed, leaseUntil)
  <2> HIDE DEF after
  <2> QED  BY <1>3 DEF QueueOf, claim
<1> QED
  BY <1>2, <1>4

(* EXTEND_LEASE and SCHEDULE_RETRY write under the lease only.             *)
THEOREM ExtendIsThePort ==
  ASSUME NEW keys \in Keys, Reached(keys), NEW d \in Delivery, NEW lease, NEW until \in Int
  PROVE  QueueOf(Extended(keys, d, lease, until)) = extendLease(QueueOf(keys), d, lease, until)
<1>1. CASE ~ leased(keys, d, lease)
  BY <1>1, LeasedIs DEF Extended, extendLease
<1>2. CASE leased(keys, d, lease)
  <2> DEFINE after == [keys EXCEPT !.due[d] = until]
  <2>1. /\ after.hash = keys.hash
        /\ \A e \in Delivery : after.due[e] = IF e = d THEN until ELSE keys.due[e]
    BY DEF Keys
  <2>2. keys.hash[d] # None
    BY <1>2 DEF leased
  <2>3. QueueOf(after)[d] = [QueueOf(keys)[d] EXCEPT !.due = until]
    <3>1. QueueOf(keys)[d] = [attempts |-> keys.hash[d].attempts,
                              lease |-> keys.hash[d].lease, due |-> keys.due[d]]
      BY <2>2, HeldIs
    <3>2. QueueOf(after)[d] = [attempts |-> keys.hash[d].attempts,
                               lease |-> keys.hash[d].lease, due |-> until]
      <4> HIDE DEF after
      <4> QED  BY <2>1, <2>2 DEF QueueOf
    <3> QED
      BY <3>1, <3>2
  <2>4. \A e \in Delivery \ {d} : QueueOf(after)[e] = QueueOf(keys)[e]
    <3> HIDE DEF after
    <3> QED  BY <2>1 DEF QueueOf
  <2> DEFINE extended == [QueueOf(keys)[d] EXCEPT !.due = until]
  <2>5. QueueOf(after) = [QueueOf(keys) EXCEPT ![d] = extended]
    <3>1. QueueOf(after)[d] = extended
      BY <2>3
    <3> HIDE DEF after, extended
    <3> QED  BY <2>4, <3>1 DEF QueueOf
  <2>6. QueueOf(after) = [QueueOf(keys) EXCEPT ![d].due = until]
    BY <2>5
  <2> QED
    BY <1>2, <2>6, LeasedIs DEF Extended, extendLease
<1> QED
  BY <1>1, <1>2

(* Stopped between its two writes, SCHEDULE_RETRY leaves the delivery to   *)
(* whoever claims it once the old lease ends.                              *)
THEOREM RetryIsThePort ==
  ASSUME NEW keys \in Keys, Reached(keys), NEW d \in Delivery, NEW lease, NEW dueAt \in Int
  PROVE  /\ QueueOf(Scheduled(keys, d, lease, dueAt))
              = scheduleRetry(QueueOf(keys), d, lease, dueAt)
         /\ leased(keys, d, lease) =>
              QueueOf(Released(keys, d, lease))
                = scheduleRetry(QueueOf(keys), d, lease, QueueOf(keys)[d].due)
<1>1. CASE ~ leased(keys, d, lease)
  BY <1>1, LeasedIs DEF Scheduled, scheduleRetry
<1>2. CASE leased(keys, d, lease)
  <2> DEFINE one == Released(keys, d, lease)
             two == [one EXCEPT !.due[d] = dueAt]
             hash == [keys.hash[d] EXCEPT !.lease = 0]
             attempts == keys.hash[d].attempts
  <2>1. keys.hash[d] # None
    BY <1>2 DEF leased
  <2>2. attempts \in Nat /\ keys.hash[d].lease \in Nat
    BY <2>1, HeldIs
  <2>3. hash = [attempts |-> attempts, lease |-> 0]
    BY <2>1 DEF Keys, HashRecord
  <2>4. hash # None
    BY <2>2, <2>3, RedisQueueAssumption DEF HashRecord
  <2>5. one = [keys EXCEPT !.hash[d] = hash]
    BY <1>2 DEF Released
  <2>6. /\ one \in Keys /\ one.due = keys.due
        /\ \A e \in Delivery : one.hash[e] = IF e = d THEN hash ELSE keys.hash[e]
    <3>1. one \in Keys
      BY ReleasedKeeps
    <3> HIDE DEF one, hash
    <3> QED  BY <2>5, <3>1 DEF Keys
  <2>7. /\ two.hash = one.hash
        /\ \A e \in Delivery : two.due[e] = IF e = d THEN dueAt ELSE keys.due[e]
    <3> HIDE DEF one, hash
    <3> QED  BY <2>6 DEF Keys
  <2>8. ASSUME NEW keys1, NEW due, keys1.hash = one.hash,
               \A e \in Delivery : keys1.due[e] = IF e = d THEN due ELSE keys.due[e]
        PROVE  QueueOf(keys1) = scheduleRetry(QueueOf(keys), d, lease, due)
    <3> DEFINE scheduled == [attempts |-> attempts, lease |-> 0, due |-> due]
    <3>3. QueueOf(keys1)[d] = [attempts |-> attempts, lease |-> 0, due |-> due]
      <4>1. keys1.hash[d] = hash /\ keys1.due[d] = due
        BY <2>6, <2>8
      <4>2. hash.attempts = attempts /\ hash.lease = 0
        BY <2>3
      <4> HIDE DEF hash, attempts
      <4> QED  BY <2>4, <4>1, <4>2 DEF QueueOf
    <3>4. \A e \in Delivery \ {d} : QueueOf(keys1)[e] = QueueOf(keys)[e]
      <4> HIDE DEF hash, one
      <4> QED  BY <2>6, <2>8 DEF QueueOf
    <3>5. QueueOf(keys1) = [QueueOf(keys) EXCEPT ![d] = scheduled]
      <4>1. QueueOf(keys1)[d] = scheduled
        BY <3>3
      <4> HIDE DEF scheduled
      <4> QED  BY <3>4, <4>1 DEF QueueOf
    <3>6. scheduleRetry(QueueOf(keys), d, lease, due) = [QueueOf(keys) EXCEPT ![d] = scheduled]
      <4>1. Leased(QueueOf(keys), d, lease) /\ QueueOf(keys)[d].attempts = attempts
        BY <1>2, <2>1, LeasedIs, HeldIs
      <4> QED
        BY <4>1 DEF scheduleRetry, QueueOf
    <3> QED
      BY <3>5, <3>6
  <2>9. QueueOf(two) = scheduleRetry(QueueOf(keys), d, lease, dueAt)
    <3> HIDE DEF one, two
    <3> QED  BY <2>7, <2>8
  <2>10. QueueOf(one) = scheduleRetry(QueueOf(keys), d, lease, QueueOf(keys)[d].due)
    <3>1. QueueOf(keys)[d].due = keys.due[d]
      BY <2>1, HeldIs
    <3> HIDE DEF one
    <3> QED  BY <2>6, <2>8, <3>1
  <2> QED
    BY <1>2, <2>9, <2>10 DEF Scheduled
<1> QED
  BY <1>1, <1>2

(* DELETE_DELIVERY removes under the lease only; stopped at any of its     *)
(* commands the delivery is there, or gone.                                *)
THEOREM DeleteIsThePort ==
  ASSUME NEW keys \in Keys, Reached(keys), NEW d \in Delivery, NEW lease
  PROVE  /\ QueueOf(Deleted(keys, d, lease)) = deleteDelivery(QueueOf(keys), d, lease)
         /\ \A after \in DeleteStops(keys, d, lease) :
              QueueOf(after) \in {QueueOf(keys), QueueOf(Deleted(keys, d, lease))}
<1> DEFINE one == WithoutHash(keys, d)
           two == WithoutMember(one, d)
           gone == [QueueOf(keys) EXCEPT ![d] = None]
<1>1. /\ one.due = keys.due
      /\ \A e \in Delivery : one.hash[e] = IF e = d THEN None ELSE keys.hash[e]
  BY DEF WithoutHash, Keys
<1>2. QueueOf(one) = gone
  <2> HIDE DEF one
  <2> QED  BY <1>1 DEF QueueOf
<1>3. one \in Keys
  BY WithoutKeeps
<1>4. /\ two \in Keys /\ two.hash = one.hash
      /\ \A e \in Delivery : two.due[e] = IF e = d THEN None ELSE one.due[e]
  <2> HIDE DEF one
  <2> QED  BY <1>3 DEF WithoutMember, Keys
<1>5. QueueOf(two) = gone
  <2> HIDE DEF one, two
  <2> QED  BY <1>1, <1>4 DEF QueueOf
<1>6. CASE ~ leased(keys, d, lease)
  BY <1>6, LeasedIs DEF Deleted, DeleteStops, deleteDelivery
<1>7. CASE leased(keys, d, lease)
  <2>1. Deleted(keys, d, lease) =
          [two EXCEPT !.endpoints = LeaveTheSet(two.endpoints, two.due, {d[2]})]
    BY <1>7 DEF Deleted
  <2> HIDE DEF two
  <2>2. /\ Deleted(keys, d, lease).hash = two.hash
        /\ Deleted(keys, d, lease).due = two.due
    BY <1>4, <2>1 DEF Keys
  <2>3. QueueOf(Deleted(keys, d, lease)) = gone
    BY <1>5, <2>2 DEF QueueOf
  <2>4. deleteDelivery(QueueOf(keys), d, lease) = gone
    BY <1>7, LeasedIs DEF deleteDelivery
  <2>5. DeleteStops(keys, d, lease) = {keys, one, two, Deleted(keys, d, lease)}
    BY <1>7 DEF DeleteStops, two
  <2> HIDE DEF one, gone
  <2> QED
    BY <1>2, <1>5, <2>3, <2>4, <2>5
<1> QED
  BY <1>6, <1>7

-----------------------------------------------------------------------------
(* The processes.                                                          *)

Free == {concurrency - Cardinality(S) : S \in SUBSET Claim} \cup {0}

ProcessShape ==
  [state : {"running", "closing", "down"}, keys : SUBSET Endpoint,
   claiming : BOOLEAN, age : Nat, free : Free]

FlightShape ==
  [process : Process,
   pc : {"sending", "deleting", "retrying", "extending", "orphaned", "reporting", "removing"},
   left : Int]

RedisKept == redis \in Keys /\ Reached(redis)
ProcessesTyped == process \in [Process -> ProcessShape]

(* A flight that may still remove its delivery has ended it.               *)
EndedFirst ==
  \A c \in Claim :
    (flight[c] # None /\ flight[c].pc \in {"deleting", "reporting", "removing"})
      => ended[c[1]] > 0

FlightsKept ==
  /\ flight \in [Claim -> FlightShape \cup {None}]
  /\ ended \in [Delivery -> Nat]
  /\ EndedFirst

IInv == RedisKept /\ ProcessesTyped /\ FlightsKept

(* What no step does: remove a delivery that has not ended.                *)
RemovedWhenEnded ==
  \A d \in Delivery : (redis.hash[d] # None /\ redis'.hash[d] = None) => ended[d] > 0

-----------------------------------------------------------------------------
(* Numbers and names.                                                      *)

LEMMA Ticks ==
  /\ leaseMs \in Nat /\ Delay \in Nat /\ timeout \in Nat /\ Latency \in Nat
  /\ leaseMs \div 3 \in Int
  /\ orphanGrace \in Nat
BY WebhookWorkerAssumption

LEMMA ClaimsDelivery == \A c \in Claim : c[1] \in Delivery
BY DEF Claim

(* A process as it starts.                                                 *)
LEMMA StartedShape ==
  ASSUME NEW keys \in Configs
  PROVE  /\ Started(keys) \in ProcessShape
         /\ [Started(keys) EXCEPT !.state = "down"] \in ProcessShape
<1>1. keys \in SUBSET Endpoint
  BY WebhookWorkerAssumption
<1> QED
  BY <1>1 DEF Started, ProcessShape, Free


(* A flight that goes on to `pc`, and what is left of the others.          *)
LEMMA FlightGoesOn ==
  ASSUME NEW c \in Claim, NEW pc, NEW left \in Int, flight[c] # None,
         flight \in [Claim -> FlightShape \cup {None}],
         pc \in {"sending", "deleting", "retrying", "extending", "orphaned",
                 "reporting", "removing"},
         To(c, pc, left)
  PROVE  /\ flight' \in [Claim -> FlightShape \cup {None}]
         /\ flight'[c].pc = pc
         /\ \A b \in Claim \ {c} : flight'[b] = flight[b]
<1> DEFINE gone == [flight[c] EXCEPT !.pc = pc, !.left = left]
<1>1. flight[c] \in FlightShape
  OBVIOUS
<1>2. gone \in FlightShape /\ gone.pc = pc
  BY <1>1 DEF FlightShape
<1>3. flight' = [flight EXCEPT ![c] = gone]
  BY DEF To
<1> HIDE DEF gone
<1> QED
  BY <1>2, <1>3

LEMMA FlightSettles ==
  ASSUME NEW c \in Claim, flight \in [Claim -> FlightShape \cup {None}], Settle(c)
  PROVE  /\ flight' \in [Claim -> FlightShape \cup {None}]
         /\ flight'[c] = None
         /\ \A b \in Claim \ {c} : flight'[b] = flight[b]
BY DEF Settle

(* What a claim makes: flights that have removed nothing yet.              *)
LEMMA FlightsBegin ==
  ASSUME NEW p \in Process, NEW S, NEW pc \in {"sending", "orphaned"}, NEW left \in Int,
         flight \in [Claim -> FlightShape \cup {None}],
         flight' = NewFlights(p, S, pc, left)
  PROVE  /\ flight' \in [Claim -> FlightShape \cup {None}]
         /\ \A c \in Claim : flight'[c] = flight[c] \/ flight'[c].pc = pc
<1>1. ASSUME NEW c \in Claim
      PROVE  /\ flight'[c] \in FlightShape \cup {None}
             /\ flight'[c] = flight[c] \/ flight'[c].pc = pc
  BY <1>1 DEF NewFlights, FlightShape
<1> QED
  BY <1>1 DEF NewFlights

-----------------------------------------------------------------------------
(* No script but DELETE_DELIVERY removes a delivery.                       *)

Holding(keys, after) == \A d \in Delivery : keys.hash[d] # None => after.hash[d] # None

LEMMA InsertHolds ==
  ASSUME NEW keys \in Keys, NEW S \in SUBSET Delivery,
         NEW after \in InsertStops(keys, S) \cup {Inserted(keys, S)}
  PROVE  Holding(keys, after)
<1>1. Holding(keys, Inserted(keys, S))
  BY DEF Holding, Inserted, NewOf
<1>2. CASE after # Inserted(keys, S)
  BY <1>2 DEF Holding, InsertStops, Keys
<1> QED
  BY <1>1, <1>2

LEMMA ExtendHolds ==
  ASSUME NEW keys \in Keys, NEW d \in Delivery, NEW lease, NEW until
  PROVE  Holding(keys, Extended(keys, d, lease, until))
BY DEF Holding, Extended, Keys

LEMMA ScheduleHolds ==
  ASSUME NEW keys \in Keys, Reached(keys), NEW d \in Delivery, NEW lease, NEW dueAt,
         NEW after \in ScheduleStops(keys, d, lease, dueAt) \cup {Scheduled(keys, d, lease, dueAt)}
  PROVE  Holding(keys, after)
<1> DEFINE released == Released(keys, d, lease)
<1>1. Holding(keys, released)
  <2>1. CASE ~ leased(keys, d, lease)
    BY <2>1 DEF Released, Holding
  <2>2. CASE leased(keys, d, lease)
    <3> DEFINE hash == [keys.hash[d] EXCEPT !.lease = 0]
    <3>1. keys.hash[d] \in HashRecord
      BY <2>2 DEF leased, Keys
    <3>2. hash # None
      BY <3>1, RedisQueueAssumption DEF HashRecord
    <3>3. released = [keys EXCEPT !.hash[d] = hash]
      BY <2>2 DEF Released
    <3> HIDE DEF hash, released
    <3> QED  BY <3>2, <3>3 DEF Holding, Keys
  <2> QED
    BY <2>1, <2>2
<1>2. Holding(keys, [released EXCEPT !.due[d] = dueAt])
  <2>1. released \in Keys
    BY ReleasedKeeps
  <2> HIDE DEF released
  <2> QED  BY <1>1, <2>1 DEF Holding, Keys
<1> HIDE DEF released
<1>3. Holding(keys, Scheduled(keys, d, lease, dueAt))
  BY <1>2 DEF Scheduled, Holding, released
<1> QED
  BY <1>1, <1>3 DEF ScheduleStops, Holding, released

LEMMA FurtherHolds ==
  ASSUME NEW hash \in [Delivery -> HashRecord \cup {None}], NEW d \in Delivery, hash[d] # None,
         NEW next \in {Counted(hash, d), LeasedBy(Counted(hash, d), d)}
  PROVE  \A e \in Delivery : hash[e] # None => next[e] # None
<1> DEFINE counted == Counted(hash, d)
<1>1. hash[d].attempts \in Nat /\ hash[d].lease \in Nat
  BY DEF HashRecord
<1>2. /\ counted \in [Delivery -> HashRecord \cup {None}]
      /\ counted[d] = [attempts |-> hash[d].attempts + 1, lease |-> hash[d].lease]
      /\ \A e \in Delivery \ {d} : counted[e] = hash[e]
  BY CountedIs
<1>3. counted[d] # None
  BY <1>1, <1>2, RedisQueueAssumption DEF HashRecord
<1>4. LeasedBy(counted, d)[d] # None
  <2>1. LeasedBy(counted, d)[d] =
          [attempts |-> hash[d].attempts + 1, lease |-> hash[d].attempts + 1]
    BY ClaimedHash
  <2> QED
    BY <1>1, <2>1, RedisQueueAssumption DEF HashRecord
<1>5. \A e \in Delivery \ {d} : LeasedBy(counted, d)[e] = hash[e]
  <2> HIDE DEF counted
  <2> QED  BY <1>2, <1>3, LeasedByIs
<1> HIDE DEF counted
<1> QED
  BY <1>2, <1>3, <1>4, <1>5 DEF counted

LEMMA ClaimHolds ==
  ASSUME NEW keys \in Keys, Reached(keys), NEW leaseUntil \in Int,
         NEW at, NEW among, NEW limit, NEW walk \in Walks(keys, at, among, limit),
         NEW after \in ClaimStops(keys, walk, leaseUntil) \cup {Claimed(keys, walk, leaseUntil)}
  PROVE  Holding(keys, after)
<1>1. /\ walk.claimed \in SUBSET Delivery
      /\ \A d \in walk.claimed : keys.hash[d] # None /\ keys.due[d] # None
      /\ \A d \in walk.dropped : keys.hash[d] = None
  BY WalkIs
<1>2. ASSUME NEW c, c.claimed \in SUBSET walk.claimed, c.dropped \in SUBSET walk.dropped
      PROVE  /\ Holding(keys, Claimed(keys, c, leaseUntil))
             /\ Claimed(keys, c, leaseUntil) \in Keys /\ Reached(Claimed(keys, c, leaseUntil))
  <2>1. Claimed(keys, c, leaseUntil) \in Keys /\ Reached(Claimed(keys, c, leaseUntil))
    BY <1>1, <1>2, ClaimedKeeps
  <2>2. ASSUME NEW d \in c.claimed
        PROVE  LeasedBy(Counted(keys.hash, d), d)[d] # None
    <3>1. d \in Delivery /\ keys.hash[d] # None
      BY <1>1, <1>2, <2>2
    <3>2. keys.hash \in [Delivery -> HashRecord \cup {None}]
      BY DEF Keys
    <3> DEFINE n == keys.hash[d].attempts + 1
    <3>3. LeasedBy(Counted(keys.hash, d), d)[d] = [attempts |-> n, lease |-> n] /\ n \in Nat
      BY <3>1, <3>2, ClaimedHash
    <3> HIDE DEF n
    <3> QED  BY <3>3, RedisQueueAssumption DEF HashRecord
  <2>3. Holding(keys, Claimed(keys, c, leaseUntil))
    BY <2>2 DEF Holding, Claimed
  <2> QED
    BY <2>1, <2>3
<1>3. CASE after = Claimed(keys, walk, leaseUntil)
  BY <1>2, <1>3
<1>4. CASE after # Claimed(keys, walk, leaseUntil)
  <2> DEFINE cut == [claimed : SUBSET walk.claimed, dropped : SUBSET walk.dropped,
                     walked : SUBSET walk.walked]
             further(k, S) == {k} \cup
               UNION {{[k EXCEPT !.hash = Counted(k.hash, d)],
                       [k EXCEPT !.hash = LeasedBy(Counted(k.hash, d), d)]} :
                        d \in walk.claimed \ S}
  <2>1. PICK c \in cut : after \in further(Claimed(keys, c, leaseUntil), c.claimed)
    BY <1>4 DEF ClaimStops
  <2> DEFINE k == Claimed(keys, c, leaseUntil)
  <2>2. Holding(keys, k) /\ k \in Keys
    BY <1>2, <2>1
  <2>3. CASE after = k
    BY <2>2, <2>3
  <2>4. CASE after # k
    <3>1. PICK d \in walk.claimed \ c.claimed :
            after \in {[k EXCEPT !.hash = Counted(k.hash, d)],
                       [k EXCEPT !.hash = LeasedBy(Counted(k.hash, d), d)]}
      <4> HIDE DEF k
      <4> QED  BY <2>1, <2>4 DEF k
    <3>2. d \in Delivery /\ keys.hash[d] # None
      BY <1>1, <3>1
    <3>3. k.hash \in [Delivery -> HashRecord \cup {None}] /\ k.hash[d] # None
      <4> HIDE DEF k
      <4> QED  BY <2>2, <3>2 DEF Keys, Holding
    <3> HIDE DEF k
    <3>4. \A hash \in {Counted(k.hash, d), LeasedBy(Counted(k.hash, d), d)} :
            \A e \in Delivery : k.hash[e] # None => hash[e] # None
      BY <3>2, <3>3, FurtherHolds
    <3> QED
      BY <2>2, <3>1, <3>4 DEF Holding, Keys
  <2> QED
    BY <2>3, <2>4
<1> QED
  BY <1>3, <1>4


-----------------------------------------------------------------------------
(* The steps.                                                              *)

(* What an action may do to the queue: its call was made whole, or failed  *)
(* and left any of `stops`.                                                *)
LEMMA CallOutcome ==
  ASSUME NEW whole, NEW stops, RedisKept,
         \A after \in stops \cup {whole} :
           after \in Keys /\ Reached(after) /\ Holding(redis, after),
         (redis' = whole /\ NoFault) \/ Unanswered(stops)
  PROVE  RedisKept' /\ Holding(redis, redis')
<1>1. redis' \in stops \cup {whole, redis}
  BY DEF Unanswered
<1>2. redis \in Keys /\ Reached(redis) /\ Holding(redis, redis)
  BY DEF RedisKept, Holding
<1>3. redis' \in Keys /\ Reached(redis') /\ Holding(redis, redis')
  BY <1>1, <1>2
<1> QED
  BY <1>3 DEF RedisKept, Reached

(* A delivery that is held is not removed, nor is one that is not.         *)
LEMMA HoldingRemovesNone ==
  ASSUME Holding(redis, redis')
  PROVE  RemovedWhenEnded
BY DEF Holding, RemovedWhenEnded

LEMMA AcceptStep ==
  ASSUME IInv, NEW p \in Process, NEW e \in Event, accept(p, e)
  PROVE  IInv' /\ RemovedWhenEnded
<1> DEFINE its == Delivery \cap ({e} \X process[p].keys)
<1>1. redis \in Keys /\ Reached(redis)
  BY DEF IInv, RedisKept
<1>2. \A after \in InsertStops(redis, its) \cup {Inserted(redis, its)} :
        after \in Keys /\ Reached(after) /\ Holding(redis, after)
  <2>1. its \in SUBSET Delivery
    OBVIOUS
  <2> HIDE DEF its
  <2> QED  BY <1>1, <2>1, InsertedKeeps, InsertStopsKeep, InsertHolds
<1>3. RedisKept' /\ Holding(redis, redis')
  <2>1. (redis' = Inserted(redis, its) /\ NoFault) \/ Unanswered(InsertStops(redis, its))
    BY DEF accept
  <2> HIDE DEF its
  <2> QED  BY <1>2, <2>1, CallOutcome DEF IInv
<1>4. UNCHANGED <<process, flight, ended>>
  BY DEF accept
<1>5. ProcessesTyped' /\ FlightsKept'
  BY <1>4 DEF IInv, ProcessesTyped, FlightsKept, EndedFirst
<1> QED
  BY <1>3, <1>5, HoldingRemovesNone DEF IInv

(* A walk claims under a lease that ends at a number of ticks.             *)
LEMMA WalkKeeps ==
  ASSUME RedisKept, NEW at, NEW among, NEW limit, NEW until \in Int,
         NEW walk \in Walks(redis, at, among, limit),
         (redis' = Claimed(redis, walk, until) /\ NoFault)
           \/ Unanswered(ClaimStops(redis, walk, until))
  PROVE  RedisKept' /\ Holding(redis, redis')
<1>1. redis \in Keys /\ Reached(redis)
  BY DEF RedisKept
<1>2. /\ walk.claimed \in SUBSET Delivery
      /\ \A d \in walk.claimed : redis.hash[d] # None /\ redis.due[d] # None
      /\ \A d \in walk.dropped : redis.hash[d] = None
  BY WalkIs
<1>3. Claimed(redis, walk, until) \in Keys /\ Reached(Claimed(redis, walk, until))
  BY <1>1, <1>2, ClaimedKeeps
<1>4. \A after \in ClaimStops(redis, walk, until) \cup {Claimed(redis, walk, until)} :
        after \in Keys /\ Reached(after)
  BY <1>1, <1>3, ClaimStopsKeep
<1>5. \A after \in ClaimStops(redis, walk, until) \cup {Claimed(redis, walk, until)} :
        Holding(redis, after)
  BY <1>1, ClaimHolds
<1> QED
  BY <1>4, <1>5, CallOutcome

LEMMA PumpOnceStep ==
  ASSUME IInv, NEW p \in Process, PumpOnce(p)
  PROVE  IInv' /\ RemovedWhenEnded
<1> DEFINE at == -process[p].age
<1>1. process[p] \in ProcessShape /\ process \in [Process -> ProcessShape]
  BY DEF IInv, ProcessesTyped
<1>2. LeaseEnd(at) \in Int
  BY <1>1, Ticks DEF LeaseEnd, ProcessShape
<1>3. PICK walk \in Walks(redis, at, process[p].keys, process[p].free) :
        \/ /\ redis' = Claimed(redis, walk, LeaseEnd(at))
           /\ flight' = NewFlights(p, walk.claimed, "sending", timeout)
           /\ NoFault
        \/ /\ Unanswered(ClaimStops(redis, walk, LeaseEnd(at)))
           /\ UNCHANGED flight
  BY DEF PumpOnce
<1>4. RedisKept' /\ Holding(redis, redis')
  <2>1. RedisKept
    BY DEF IInv
  <2> HIDE DEF at
  <2> QED  BY <1>2, <1>3, <2>1, WalkKeeps
<1>5. ProcessesTyped'
  <2> DEFINE asked == [process[p] EXCEPT !.claiming = FALSE, !.age = 0, !.free = 0]
  <2>1. asked \in ProcessShape
    BY <1>1 DEF ProcessShape, Free
  <2>2. process' = [process EXCEPT ![p] = asked]
    BY DEF PumpOnce
  <2> HIDE DEF asked
  <2> QED  BY <1>1, <2>1, <2>2 DEF ProcessesTyped
<1>6. FlightsKept'
  <2>1. flight \in [Claim -> FlightShape \cup {None}] /\ UNCHANGED ended
    BY DEF IInv, FlightsKept, PumpOnce
  <2>2. /\ flight' \in [Claim -> FlightShape \cup {None}]
        /\ \A c \in Claim : flight'[c] = flight[c] \/ flight'[c].pc = "sending"
    BY <1>3, <2>1, Ticks, FlightsBegin
  <2> QED
    BY <2>1, <2>2 DEF IInv, FlightsKept, EndedFirst
<1> QED
  BY <1>4, <1>5, <1>6, HoldingRemovesNone DEF IInv

LEMMA SweepStep ==
  ASSUME IInv, NEW p \in Process, Sweep(p)
  PROVE  IInv' /\ RemovedWhenEnded
<1>1. PICK walk \in OrphanWalks(p) :
        \/ /\ redis' = Claimed(redis, walk, leaseMs)
           /\ flight' = NewFlights(p, walk.claimed, "orphaned", 0)
           /\ NoFault
        \/ /\ Unanswered(ClaimStops(redis, walk, leaseMs))
           /\ UNCHANGED flight
  BY DEF Sweep
<1>2. RedisKept' /\ Holding(redis, redis')
  <2>1. RedisKept /\ leaseMs \in Int
    BY Ticks DEF IInv
  <2> QED
    BY <1>1, <2>1, WalkKeeps DEF OrphanWalks
<1>3. FlightsKept'
  <2>1. flight \in [Claim -> FlightShape \cup {None}] /\ UNCHANGED ended
    BY DEF IInv, FlightsKept, Sweep
  <2>2. /\ flight' \in [Claim -> FlightShape \cup {None}]
        /\ \A c \in Claim : flight'[c] = flight[c] \/ flight'[c].pc = "orphaned"
    BY <1>1, <2>1, FlightsBegin
  <2> QED
    BY <2>1, <2>2 DEF IInv, FlightsKept, EndedFirst
<1>4. ProcessesTyped'
  BY DEF IInv, ProcessesTyped, Sweep
<1> QED
  BY <1>2, <1>3, <1>4, HoldingRemovesNone DEF IInv

(* A step of one flight: where it goes, and what it means for the rest.    *)
LEMMA FlightStep ==
  ASSUME IInv, NEW c \in Claim, flight[c] # None, NEW pc, NEW left \in Int,
         pc \in {"sending", "deleting", "retrying", "extending", "orphaned",
                 "reporting", "removing"},
         To(c, pc, left),
         pc \in {"deleting", "reporting", "removing"} => ended'[c[1]] > 0,
         ended' = ended \/ ended' = [ended EXCEPT ![c[1]] = @ + 1]
  PROVE  FlightsKept'
<1>1. /\ flight \in [Claim -> FlightShape \cup {None}] /\ ended \in [Delivery -> Nat]
      /\ EndedFirst
  BY DEF IInv, FlightsKept
<1>2. /\ flight' \in [Claim -> FlightShape \cup {None}]
      /\ flight'[c].pc = pc
      /\ \A b \in Claim \ {c} : flight'[b] = flight[b]
  BY <1>1, FlightGoesOn
<1>3. /\ ended' \in [Delivery -> Nat]
      /\ \A d \in Delivery : ended[d] > 0 => ended'[d] > 0
  BY <1>1, ClaimsDelivery
<1>4. EndedFirst'
  BY <1>1, <1>2, <1>3, ClaimsDelivery DEF EndedFirst
<1> QED
  BY <1>2, <1>3, <1>4 DEF FlightsKept

(* A flight that settles removes nothing more.                             *)
LEMMA SettledStep ==
  ASSUME IInv, NEW c \in Claim, Settle(c), UNCHANGED ended
  PROVE  FlightsKept'
<1>1. /\ flight \in [Claim -> FlightShape \cup {None}] /\ ended \in [Delivery -> Nat]
      /\ EndedFirst
  BY DEF IInv, FlightsKept
<1>2. /\ flight' \in [Claim -> FlightShape \cup {None}] /\ flight'[c] = None
      /\ \A b \in Claim \ {c} : flight'[b] = flight[b]
  BY <1>1, FlightSettles
<1> QED
  BY <1>1, <1>2 DEF FlightsKept, EndedFirst


(* Steps of a flight that call nothing of the queue.                       *)
LEMMA SenderSteps ==
  ASSUME IInv, NEW c \in Claim, Delivered(c) \/ Failed(c) \/ Reported(c)
  PROVE  IInv' /\ RemovedWhenEnded
<1>1. UNCHANGED <<redis, process>>
  BY DEF Delivered, Failed, Reported
<1>2. RedisKept' /\ ProcessesTyped' /\ RemovedWhenEnded
  BY <1>1 DEF IInv, RedisKept, Reached, ProcessesTyped, RemovedWhenEnded
<1>3. /\ flight[c] # None /\ c[1] \in Delivery /\ ended \in [Delivery -> Nat]
      /\ flight[c].pc = "reporting" => ended[c[1]] > 0
  BY ClaimsDelivery DEF IInv, FlightsKept, EndedFirst, Delivered, Failed, Reported
<1>4. CASE Delivered(c)
  <2>1. /\ To(c, "deleting", Latency) /\ Latency \in Int
        /\ ended' = [ended EXCEPT ![c[1]] = @ + 1]
    BY <1>4, Ticks DEF Delivered
  <2>2. ended'[c[1]] > 0
    BY <1>3, <2>1
  <2>3. FlightsKept'
    BY <1>3, <2>1, <2>2, FlightStep
  <2> QED
    BY <1>2, <2>3 DEF IInv
<1>5. CASE Failed(c)
  <2>1. PICK pc \in {"retrying", "extending"} : To(c, pc, Latency)
    BY <1>5 DEF Failed
  <2>2. ended' = ended
    BY <1>5 DEF Failed
  <2>3. /\ pc \in {"sending", "deleting", "retrying", "extending", "orphaned",
                  "reporting", "removing"}
        /\ pc \notin {"deleting", "reporting", "removing"}
        /\ Latency \in Int
    BY Ticks
  <2>4. FlightsKept'
    BY <1>3, <2>1, <2>2, <2>3, FlightStep
  <2> QED
    BY <1>2, <2>4 DEF IInv
<1>6. CASE Reported(c)
  <2>1. To(c, "removing", Latency) /\ UNCHANGED ended /\ flight[c].pc = "reporting"
    BY <1>6 DEF Reported
  <2>2. ended'[c[1]] > 0
    BY <1>3, <2>1
  <2>3. FlightsKept'
    BY <1>3, <2>1, <2>2, Ticks, FlightStep
  <2> QED
    BY <1>2, <2>3 DEF IInv
<1> QED
  BY <1>4, <1>5, <1>6

LEMMA ScheduleRetryStep ==
  ASSUME IInv, NEW c \in Claim, ScheduleRetry(c)
  PROVE  IInv' /\ RemovedWhenEnded
<1>1. redis \in Keys /\ Reached(redis) /\ RedisKept /\ c[1] \in Delivery /\ Delay \in Int
  BY ClaimsDelivery, Ticks DEF IInv, RedisKept
<1>2. \A after \in ScheduleStops(redis, c[1], c[2], Delay)
                     \cup {Scheduled(redis, c[1], c[2], Delay)} :
        after \in Keys /\ Reached(after) /\ Holding(redis, after)
  BY <1>1, ScheduledKeeps, ScheduleStopsKeep, ScheduleHolds
<1>3. /\ \/ redis' = Scheduled(redis, c[1], c[2], Delay) /\ NoFault
         \/ Unanswered(ScheduleStops(redis, c[1], c[2], Delay))
      /\ Settle(c) /\ UNCHANGED <<process, ended>>
  BY DEF ScheduleRetry
<1>4. RedisKept' /\ Holding(redis, redis')
  BY <1>1, <1>2, <1>3, CallOutcome
<1>5. FlightsKept' /\ ProcessesTyped'
  BY <1>3, SettledStep DEF IInv, ProcessesTyped
<1> QED
  BY <1>4, <1>5, HoldingRemovesNone DEF IInv

(* What an extension leaves, answered or not.                              *)
LEMMA ExtensionKeeps ==
  ASSUME RedisKept, NEW c \in Claim,
         \/ redis' = Extended(redis, c[1], c[2], leaseMs) /\ NoFault
         \/ Unanswered({Extended(redis, c[1], c[2], leaseMs)})
  PROVE  RedisKept' /\ Holding(redis, redis')
<1>1. redis \in Keys /\ Reached(redis) /\ c[1] \in Delivery /\ leaseMs \in Int
  BY ClaimsDelivery, Ticks DEF RedisKept
<1> DEFINE after == Extended(redis, c[1], c[2], leaseMs)
<1>2. after \in Keys /\ Reached(after) /\ Holding(redis, after)
  BY <1>1, ExtendedKeeps, ExtendHolds
<1> HIDE DEF after
<1>3. (redis' = after /\ NoFault) \/ Unanswered({after})
  BY DEF after
<1>4. \A other \in {after} \cup {after} :
        other \in Keys /\ Reached(other) /\ Holding(redis, other)
  BY <1>2
<1> QED
  BY <1>3, <1>4, CallOutcome

LEMMA GiveUpStep ==
  ASSUME IInv, NEW c \in Claim, GiveUp(c)
  PROVE  IInv' /\ RemovedWhenEnded
<1>1. RedisKept' /\ Holding(redis, redis')
  BY ExtensionKeeps DEF IInv, GiveUp
<1>2. ProcessesTyped'
  BY DEF IInv, ProcessesTyped, GiveUp
<1>3. FlightsKept'
  <2>1. CASE To(c, "reporting", leaseMs \div 3) /\ ended' = [ended EXCEPT ![c[1]] = @ + 1]
    <3>1. flight[c] # None /\ ended'[c[1]] > 0
      BY <2>1, ClaimsDelivery DEF GiveUp, IInv, FlightsKept
    <3> QED
      BY <2>1, <3>1, Ticks, FlightStep
  <2>2. CASE Settle(c) /\ UNCHANGED ended
    BY <2>2, SettledStep
  <2> QED
    BY <2>1, <2>2 DEF GiveUp
<1> QED
  BY <1>1, <1>2, <1>3, HoldingRemovesNone DEF IInv

LEMMA HeartbeatStep ==
  ASSUME IInv, NEW c \in Claim, Heartbeat(c)
  PROVE  IInv' /\ RemovedWhenEnded
<1>1. RedisKept' /\ Holding(redis, redis')
  BY ExtensionKeeps DEF IInv, Heartbeat
<1>2. /\ flight[c] # None /\ flight[c].pc = "reporting"
      /\ To(c, "reporting", leaseMs \div 3) /\ UNCHANGED <<process, ended>>
  BY DEF Heartbeat
<1>3. ended'[c[1]] > 0
  BY <1>2 DEF IInv, FlightsKept, EndedFirst
<1>4. FlightsKept'
  BY <1>2, <1>3, Ticks, FlightStep
<1>5. ProcessesTyped'
  BY <1>2 DEF IInv, ProcessesTyped
<1> QED
  BY <1>1, <1>4, <1>5, HoldingRemovesNone DEF IInv

(* The one step that removes: its flight has ended the delivery.           *)
LEMMA DeleteStep ==
  ASSUME IInv, NEW c \in Claim, Delete(c)
  PROVE  IInv' /\ RemovedWhenEnded
<1> DEFINE d == c[1]
           whole == Deleted(redis, d, c[2])
<1>1. redis \in Keys /\ Reached(redis) /\ d \in Delivery
  BY ClaimsDelivery DEF IInv, RedisKept
<1>2. \A after \in DeleteStops(redis, d, c[2]) \cup {whole} :
        /\ after \in Keys /\ Reached(after)
        /\ \A e \in Delivery \ {d} : after.hash[e] = redis.hash[e]
  <2>1. \A after \in DeleteStops(redis, d, c[2]) \cup {whole} : after \in Keys /\ Reached(after)
    BY <1>1, DeletedKeeps, DeleteStopsKeep
  <2> DEFINE one == WithoutHash(redis, d)
             two == WithoutMember(one, d)
             three == [two EXCEPT !.endpoints = LeaveTheSet(two.endpoints, two.due, {d[2]})]
  <2>2. /\ two.hash = one.hash /\ three.hash = two.hash
        /\ \A e \in Delivery \ {d} : one.hash[e] = redis.hash[e]
    <3>1. one \in Keys /\ two \in Keys
      BY <1>1, WithoutKeeps
    <3>2. \A e \in Delivery \ {d} : one.hash[e] = redis.hash[e]
      BY <1>1 DEF WithoutHash, Keys
    <3> HIDE DEF one
    <3>3. two.hash = one.hash
      BY <3>1 DEF WithoutMember, Keys
    <3> HIDE DEF two
    <3> QED  BY <3>1, <3>2, <3>3 DEF Keys
  <2>3. DeleteStops(redis, d, c[2]) \cup {whole} \subseteq {redis, one, two, three}
    BY DEF DeleteStops, Deleted
  <2> HIDE DEF one, two, three, whole
  <2> QED  BY <2>1, <2>2, <2>3
<1>3. redis' \in DeleteStops(redis, d, c[2]) \cup {whole, redis}
  BY DEF Delete, Unanswered
<1>4. /\ RedisKept'
      /\ \A e \in Delivery \ {d} : redis'.hash[e] = redis.hash[e]
  <2>1. /\ redis' \in Keys /\ Reached(redis')
        /\ \A e \in Delivery \ {d} : redis'.hash[e] = redis.hash[e]
    <3> HIDE DEF whole
    <3> QED  BY <1>1, <1>2, <1>3
  <2> QED
    BY <2>1 DEF RedisKept, Reached
<1>5. ended[d] > 0
  <2>1. flight[c] # None /\ flight[c].pc \in {"deleting", "reporting", "removing"}
    BY DEF Delete
  <2> QED
    BY <2>1 DEF IInv, FlightsKept, EndedFirst
<1>6. RemovedWhenEnded
  BY <1>4, <1>5 DEF RemovedWhenEnded
<1>7. Settle(c) /\ UNCHANGED <<process, ended>>
  BY DEF Delete
<1>8. FlightsKept' /\ ProcessesTyped'
  BY <1>7, SettledStep DEF IInv, ProcessesTyped
<1> QED
  BY <1>4, <1>6, <1>8 DEF IInv

(* Processes stop and start.                                               *)
LEMMA ProcessSteps ==
  ASSUME IInv, NEW p \in Process,
         AskClaim(p) \/ close(p) \/ Closed(p) \/ Crash(p) \/ Start(p)
  PROVE  IInv' /\ RemovedWhenEnded
<1>1. UNCHANGED <<redis, ended>>
  BY DEF AskClaim, close, Closed, Crash, Start
<1>2. RedisKept' /\ RemovedWhenEnded
  BY <1>1 DEF IInv, RedisKept, Reached, RemovedWhenEnded
<1>3. process \in [Process -> ProcessShape] /\ process[p] \in ProcessShape
  BY DEF IInv, ProcessesTyped
<1>4. ProcessesTyped'
  <2>1. CASE AskClaim(p)
    <3> DEFINE free == concurrency - inFlight(p)
               asked == [process[p] EXCEPT !.claiming = TRUE, !.age = 0, !.free = free]
    <3>1. free \in Free
      BY DEF Free, inFlight, FlightsOf
    <3>2. asked \in ProcessShape
      <4> HIDE DEF free
      <4> QED  BY <1>3, <3>1 DEF ProcessShape
    <3>3. process' = [process EXCEPT ![p] = asked]
      BY <2>1 DEF AskClaim
    <3> HIDE DEF asked
    <3> QED  BY <1>3, <3>2, <3>3 DEF ProcessesTyped
  <2>2. CASE close(p)
    <3> DEFINE closing == [process[p] EXCEPT !.state = "closing"]
    <3>1. closing \in ProcessShape
      BY <1>3 DEF ProcessShape
    <3>2. process' = [process EXCEPT ![p] = closing]
      BY <2>2 DEF close
    <3> HIDE DEF closing
    <3> QED  BY <1>3, <3>1, <3>2 DEF ProcessesTyped
  <2>3. CASE Closed(p)
    <3> DEFINE down == [process[p] EXCEPT !.state = "down"]
    <3>1. down \in ProcessShape
      BY <1>3 DEF ProcessShape
    <3>2. process' = [process EXCEPT ![p] = down]
      BY <2>3 DEF Closed
    <3> HIDE DEF down
    <3> QED  BY <1>3, <3>1, <3>2 DEF ProcessesTyped
  <2>4. CASE Crash(p)
    <3> DEFINE keys == process[p].keys
               down == [Started(keys) EXCEPT !.state = "down"]
    <3>1. down \in ProcessShape
      BY <1>3 DEF Started, ProcessShape, Free
    <3>2. process' = [process EXCEPT ![p] = down]
      BY <2>4 DEF Crash
    <3> HIDE DEF down
    <3> QED  BY <1>3, <3>1, <3>2 DEF ProcessesTyped
  <2>5. CASE Start(p)
    <3>1. PICK keys \in Configs : process' = [process EXCEPT ![p] = Started(keys)]
      BY <2>5 DEF Start
    <3> QED
      BY <1>3, <3>1, StartedShape DEF ProcessesTyped
  <2> QED
    BY <2>1, <2>2, <2>3, <2>4, <2>5
<1>5. FlightsKept'
  <2>1. \A c \in Claim : flight'[c] \in {flight[c], None}
    BY DEF AskClaim, close, Closed, Crash, Start
  <2>2. flight' \in [Claim -> FlightShape \cup {None}]
    BY DEF AskClaim, close, Closed, Crash, Start, IInv, FlightsKept
  <2> QED
    BY <1>1, <2>1, <2>2 DEF IInv, FlightsKept, EndedFirst
<1> QED
  BY <1>2, <1>4, <1>5 DEF IInv


(* Time passes: no score becomes none, no flight goes on.                  *)
LEMMA TickStep ==
  ASSUME IInv, Tick
  PROVE  IInv' /\ RemovedWhenEnded
<1> DEFINE due == [d \in Delivery |-> IF redis.due[d] = None THEN None ELSE Later(redis.due[d])]
<1>1. redis \in Keys /\ Reached(redis)
  BY DEF IInv, RedisKept
<1>2. ASSUME NEW d \in Delivery
      PROVE  due[d] \in Int \cup {None} /\ (due[d] = None <=> redis.due[d] = None)
  <2>1. redis.due[d] \in Int \cup {None}
    BY <1>1 DEF Keys
  <2>2. ASSUME redis.due[d] # None
        PROVE  Later(redis.due[d]) \in Int
    BY <2>1, <2>2 DEF Later
  <2> QED
    BY <2>2, RedisQueueAssumption
<1>3. /\ redis' \in Keys /\ redis'.hash = redis.hash
      /\ redis'.due = due /\ redis'.endpoints = redis.endpoints
  <2>1. due \in [Delivery -> Int \cup {None}]
    BY <1>2
  <2>2. redis' = [redis EXCEPT !.due = due]
    BY DEF Tick
  <2> HIDE DEF due
  <2> QED  BY <1>1, <2>1, <2>2 DEF Keys
<1>4. RedisKept' /\ RemovedWhenEnded
  <2>1. Reached(redis')
    <3> HIDE DEF due
    <3> QED  BY <1>1, <1>2, <1>3 DEF Reached
  <2> QED
    BY <1>3, <2>1 DEF RedisKept, Reached, RemovedWhenEnded
<1>5. ProcessesTyped'
  <2>1. process \in [Process -> ProcessShape]
    BY DEF IInv, ProcessesTyped
  <2>2. ASSUME NEW p \in Process
        PROVE  [process[p] EXCEPT !.age = process[p].age + 1] \in ProcessShape
    BY <2>1 DEF ProcessShape
  <2>3. process' = [p \in Process |-> IF process[p].claiming
                                        THEN [process[p] EXCEPT !.age = process[p].age + 1]
                                        ELSE process[p]]
    BY DEF Tick
  <2> QED
    BY <2>1, <2>2, <2>3 DEF ProcessesTyped
<1>6. FlightsKept'
  <2>1. /\ flight \in [Claim -> FlightShape \cup {None}] /\ ended \in [Delivery -> Nat]
        /\ EndedFirst
    BY DEF IInv, FlightsKept
  <2>2. ASSUME NEW c \in Claim, flight[c] # None
        PROVE  /\ [flight[c] EXCEPT !.left = flight[c].left - 1] \in FlightShape
               /\ [flight[c] EXCEPT !.left = flight[c].left - 1].pc = flight[c].pc
    BY <2>1, <2>2 DEF FlightShape
  <2>3. /\ flight' = [c \in Claim |-> IF flight[c] = None \/ flight[c].pc = "orphaned"
                                        THEN flight[c]
                                        ELSE [flight[c] EXCEPT !.left = flight[c].left - 1]]
        /\ UNCHANGED ended
    BY DEF Tick
  <2>4. ASSUME NEW c \in Claim
        PROVE  /\ flight'[c] \in FlightShape \cup {None}
               /\ flight[c] = None => flight'[c] = None
               /\ flight[c] # None => flight'[c].pc = flight[c].pc
    BY <2>1, <2>2, <2>3
  <2>5. flight' \in [Claim -> FlightShape \cup {None}]
    BY <2>3, <2>4
  <2> QED
    BY <2>1, <2>3, <2>4, <2>5 DEF FlightsKept, EndedFirst
<1> QED
  BY <1>4, <1>5, <1>6 DEF IInv

-----------------------------------------------------------------------------
(* The invariant, and what it gives.                                       *)

LEMMA InitIInv == Init => IInv
<1> SUFFICES ASSUME Init PROVE IInv
  OBVIOUS
<1>1. RedisKept
  BY DEF Init, NoKeys, RedisKept, Keys, Reached
<1>2. ProcessesTyped
  <2>1. {Started(keys) : keys \in Configs} \subseteq ProcessShape
    BY StartedShape
  <2>2. process \in [Process -> {Started(keys) : keys \in Configs}]
    BY DEF Init
  <2> QED
    BY <2>1, <2>2 DEF ProcessesTyped
<1>3. FlightsKept
  BY DEF Init, FlightsKept, EndedFirst
<1> QED
  BY <1>1, <1>2, <1>3 DEF IInv

LEMMA StepIInv ==
  ASSUME IInv, [Next]_vars
  PROVE  IInv' /\ (RemovedWhenEnded \/ UNCHANGED vars)
<1>1. CASE UNCHANGED vars
  BY <1>1 DEF vars, IInv, RedisKept, Reached, ProcessesTyped, FlightsKept, EndedFirst
<1>2. ASSUME NEW p \in Process, Run(p) \/ close(p) \/ Crash(p) \/ \E e \in Event : accept(p, e)
      PROVE  IInv' /\ RemovedWhenEnded
  BY <1>2, AcceptStep, PumpOnceStep, SweepStep, ProcessSteps DEF Run
<1>3. ASSUME NEW c \in Claim, Send(c)
      PROVE  IInv' /\ RemovedWhenEnded
  BY <1>3, SenderSteps, ScheduleRetryStep, GiveUpStep, HeartbeatStep, DeleteStep DEF Send
<1>4. CASE Tick
  BY <1>4, TickStep
<1> QED
  BY <1>1, <1>2, <1>3, <1>4 DEF Next

LEMMA Invariant == Spec => []IInv
<1>1. Init => IInv
  BY InitIInv
<1>2. IInv /\ [Next]_vars => IInv'
  BY StepIInv
<1> QED
  BY <1>1, <1>2, PTL DEF Spec

(* Whichever command of whichever script is refused, and whatever crashes, *)
(* a delivery that Redis holds has its member, and its endpoint is among   *)
(* those a sweep walks: somebody can claim it                              *)
(* (janus-webhooks-redis/scripts.ts).                                      *)
THEOREM AlwaysWithinReach == Spec => []KeptWithinReach
<1>1. IInv => KeptWithinReach
  BY DEF IInv, RedisKept, KeptWithinReach
<1> QED
  BY <1>1, Invariant, PTL

(* No step takes a delivery from the queue before a 2xx was answered or    *)
(* its report was begun (worker/sender.ts: deleteDelivery comes last).     *)
THEOREM NeverLost == Spec => [][RemovedWhenEnded]_vars
<1>1. IInv /\ [Next]_vars => [RemovedWhenEnded]_vars
  BY StepIInv
<1> QED
  BY <1>1, Invariant, PTL DEF Spec

-----------------------------------------------------------------------------
(* Who holds a delivery: its lease outlasts, by a call of the queue while  *)
(* one is still to be made, what its flight waits for.                     *)

Slack(pc) == IF pc \in {"sending", "reporting"} THEN Latency ELSE 0

Holds(c) ==
  /\ flight[c] # None /\ flight[c].pc \in {"sending", "deleting", "reporting", "removing"}
  /\ leased(redis, c[1], c[2])
  /\ redis.due[c[1]] # None
  /\ redis.due[c[1]] > flight[c].left + Slack(flight[c].pc)

CallsInTime ==
  /\ \A p \in Process : process[p].age \in 0..Latency
  /\ \A c \in Claim : flight[c] # None => flight[c].left \in Nat

SendersHold == \A c \in Claim : Sending(c) => Holds(c)

ReportersHold ==
  \A c \in Claim : (faults = 0 /\ flight[c] # None /\ flight[c].pc = "reporting") => Holds(c)

(* A delivery that is kept ended once more than there were faults only     *)
(* while whoever ended it last holds it.                                   *)
EndedAndHeld(d) ==
  /\ ended[d] = faults + 1
  /\ \E c \in Claim : c[1] = d /\ ~ Sending(c) /\ Holds(c)

EndedOnce == \A d \in Delivery : redis.hash[d] # None => (ended[d] <= faults \/ EndedAndHeld(d))

HoldInv ==
  /\ faults \in 0..MaxFaults
  /\ CallsInTime
  /\ SendersHold
  /\ ReportersHold
  /\ EndedOnce

(* A script leaves the hash and the score of a delivery as they were.      *)
Same(keys, after, d) == after.hash[d] = keys.hash[d] /\ after.due[d] = keys.due[d]

LEMMA InsertLeaves ==
  ASSUME NEW keys \in Keys, NEW S \in SUBSET Delivery,
         NEW d \in Delivery, keys.hash[d] # None,
         NEW after \in InsertStops(keys, S) \cup {Inserted(keys, S)}
  PROVE  Same(keys, after, d)
<1>1. CASE after = Inserted(keys, S)
  BY <1>1 DEF Same, Inserted, NewOf
<1>2. CASE after # Inserted(keys, S)
  <2>1. PICK tried \in SUBSET NewOf(keys, S) :
          after = [keys EXCEPT !.due = [e \in Delivery |-> IF e \in tried THEN None
                                                            ELSE keys.due[e]]]
    BY <1>2 DEF InsertStops
  <2>2. d \notin tried
    BY <2>1 DEF NewOf
  <2> QED
    BY <2>1, <2>2 DEF Same, Keys
<1> QED
  BY <1>1, <1>2

(* A walk leaves what it does not claim, the score too if it does not drop *)
(* it; and so what is not due, and has a hash.                             *)
Passed(keys, after, walk, d) ==
  /\ after.hash[d] = keys.hash[d]
  /\ d \notin walk.dropped => after.due[d] = keys.due[d]

LEMMA WalkPasses ==
  ASSUME NEW keys \in Keys, NEW at, NEW among, NEW limit, NEW until,
         NEW walk \in Walks(keys, at, among, limit),
         NEW d \in Delivery, d \notin walk.claimed,
         NEW after \in ClaimStops(keys, walk, until) \cup {Claimed(keys, walk, until)}
  PROVE  Passed(keys, after, walk, d)
<1>1. ASSUME NEW c, c.claimed \in SUBSET walk.claimed, c.dropped \in SUBSET walk.dropped
      PROVE  Passed(keys, Claimed(keys, c, until), walk, d)
  BY <1>1 DEF Passed, Claimed
<1>2. CASE after = Claimed(keys, walk, until)
  BY <1>1, <1>2
<1>3. CASE after # Claimed(keys, walk, until)
  <2> DEFINE cut == [claimed : SUBSET walk.claimed, dropped : SUBSET walk.dropped,
                     walked : SUBSET walk.walked]
             further(k, S) == {k} \cup
               UNION {{[k EXCEPT !.hash = Counted(k.hash, e)],
                       [k EXCEPT !.hash = LeasedBy(Counted(k.hash, e), e)]} :
                        e \in walk.claimed \ S}
  <2>1. PICK c \in cut : after \in further(Claimed(keys, c, until), c.claimed)
    BY <1>3 DEF ClaimStops
  <2> DEFINE k == Claimed(keys, c, until)
  <2>2. Passed(keys, k, walk, d)
    BY <1>1, <2>1
  <2>3. CASE after = k
    BY <2>2, <2>3
  <2>4. CASE after # k
    <3>1. PICK e \in walk.claimed \ c.claimed :
            after \in {[k EXCEPT !.hash = Counted(k.hash, e)],
                       [k EXCEPT !.hash = LeasedBy(Counted(k.hash, e), e)]}
      <4> HIDE DEF k
      <4> QED  BY <2>1, <2>4 DEF k
    <3>2. d # e
      BY <3>1
    <3>3. /\ k = [hash |-> k.hash, due |-> k.due, endpoints |-> k.endpoints]
          /\ k.hash = [b \in Delivery |->
                         IF b \in c.claimed THEN LeasedBy(Counted(keys.hash, b), b)[b]
                         ELSE keys.hash[b]]
      BY DEF Claimed
    <3> HIDE DEF k
    <3>4. Counted(k.hash, e)[d] = k.hash[d] /\ LeasedBy(Counted(k.hash, e), e)[d] = k.hash[d]
      BY <3>2, <3>3 DEF Counted, LeasedBy
    <3>5. after.hash[d] = k.hash[d] /\ after.due[d] = k.due[d]
      BY <3>1, <3>3, <3>4
    <3> QED
      BY <2>2, <3>5 DEF Passed
  <2> QED
    BY <2>3, <2>4
<1> QED
  BY <1>2, <1>3

LEMMA WalkLeaves ==
  ASSUME NEW keys \in Keys, NEW at \in Int, at <= 0, NEW among, NEW limit, NEW until,
         NEW walk \in Walks(keys, at, among, limit),
         NEW d \in Delivery, keys.hash[d] # None, keys.due[d] # None, keys.due[d] > 0,
         NEW after \in ClaimStops(keys, walk, until) \cup {Claimed(keys, walk, until)}
  PROVE  d \notin walk.claimed /\ Same(keys, after, d)
<1>1. d \notin walk.claimed /\ d \notin walk.dropped
  <2>1. keys.due[d] \in Int
    BY DEF Keys
  <2> QED
    BY <2>1, WalkIs
<1>2. Passed(keys, after, walk, d)
  BY <1>1, WalkPasses
<1> QED
  BY <1>1, <1>2 DEF Passed, Same

(* What is called under one lease leaves what is held under another.       *)
LEMMA LeaseLeaves ==
  ASSUME NEW keys \in Keys, NEW b \in Claim, NEW until,
         NEW d \in Delivery, d # b[1] \/ ~ leased(keys, b[1], b[2])
  PROVE  /\ Same(keys, Extended(keys, b[1], b[2], until), d)
         /\ \A after \in ScheduleStops(keys, b[1], b[2], until) :
              Same(keys, after, d)
         /\ Same(keys, Scheduled(keys, b[1], b[2], until), d)
         /\ \A after \in DeleteStops(keys, b[1], b[2]) \cup {Deleted(keys, b[1], b[2])} :
              Same(keys, after, d)
<1>1. b[1] \in Delivery
  BY ClaimsDelivery
<1>2. CASE ~ leased(keys, b[1], b[2])
  BY <1>2 DEF Same, Extended, ScheduleStops, Scheduled, Released, DeleteStops, Deleted
<1>3. CASE d # b[1]
  <2>1. Same(keys, Extended(keys, b[1], b[2], until), d)
    BY <1>3 DEF Same, Extended, Keys
  <2> DEFINE released == Released(keys, b[1], b[2])
  <2>2. Same(keys, released, d) /\ released.due = keys.due
    <3> DEFINE hash == [keys.hash EXCEPT ![b[1]].lease = 0]
    <3>1. hash[d] = keys.hash[d]
      BY <1>3 DEF Keys
    <3>2. released = keys \/ released = [keys EXCEPT !.hash = hash]
      BY DEF Released, Keys
    <3> HIDE DEF released, hash
    <3> QED  BY <3>1, <3>2 DEF Same, Keys
  <2>3. Scheduled(keys, b[1], b[2], until) \in {keys, [released EXCEPT !.due[b[1]] = until]}
    BY DEF Scheduled
  <2>4. Same(keys, [released EXCEPT !.due[b[1]] = until], d)
    <3> DEFINE due == [keys.due EXCEPT ![b[1]] = until]
    <3>1. due[d] = keys.due[d]
      BY <1>3 DEF Keys
    <3>2. [released EXCEPT !.due[b[1]] = until] = [released EXCEPT !.due = due]
      BY <2>2
    <3>3. released = keys \/ released = [keys EXCEPT !.hash[b[1]].lease = 0]
      BY DEF Released
    <3>4. [released EXCEPT !.due = due].due = due /\ [released EXCEPT !.due = due].hash = released.hash
      <4> HIDE DEF due
      <4> QED  BY <3>3 DEF Keys
    <3> HIDE DEF due
    <3> QED  BY <2>2, <3>1, <3>2, <3>4 DEF Same
  <2>5. Same(keys, Scheduled(keys, b[1], b[2], until), d) /\ Same(keys, keys, d)
    <3> HIDE DEF released
    <3> QED  BY <2>3, <2>4 DEF Same
  <2>6. \A after \in ScheduleStops(keys, b[1], b[2], until) : Same(keys, after, d)
    BY <2>2, <2>5 DEF ScheduleStops
  <2> DEFINE one == WithoutHash(keys, b[1])
             two == WithoutMember(one, b[1])
  <2>7. Same(keys, one, d) /\ Same(keys, two, d)
    BY <1>3 DEF Same, WithoutHash, WithoutMember, Keys
  <2>8. Same(keys, [two EXCEPT !.endpoints = LeaveTheSet(two.endpoints, two.due, {b[1][2]})], d)
    <3>1. DOMAIN one = {"hash", "due", "endpoints"} /\ DOMAIN two = {"hash", "due", "endpoints"}
      BY DEF WithoutHash, WithoutMember, Keys
    <3> HIDE DEF two
    <3> DEFINE left == LeaveTheSet(two.endpoints, two.due, {b[1][2]})
    <3>2. [two EXCEPT !.endpoints = left].hash = two.hash
          /\ [two EXCEPT !.endpoints = left].due = two.due
      <4> HIDE DEF left
      <4> QED  BY <3>1
    <3> QED  BY <2>7, <3>2 DEF Same
  <2>9. Same(keys, Deleted(keys, b[1], b[2]), d)
    BY <2>5, <2>8 DEF Deleted
  <2>10. \A after \in DeleteStops(keys, b[1], b[2]) : Same(keys, after, d)
    BY <2>5, <2>7, <2>9 DEF DeleteStops
  <2> QED
    BY <2>1, <2>5, <2>6, <2>9, <2>10
<1> QED
  BY <1>2, <1>3

-----------------------------------------------------------------------------
(* Holders, and what a step leaves of them.                                *)

LEMMA HolderIs ==
  ASSUME IInv, CallsInTime, NEW c \in Claim, Holds(c)
  PROVE  /\ c[1] \in Delivery
         /\ flight[c] \in FlightShape /\ flight[c].left \in Nat
         /\ redis.hash[c[1]] # None /\ redis.due[c[1]] \in Int
         /\ redis.due[c[1]] > 0 /\ redis.due[c[1]] > flight[c].left
<1>1. c[1] \in Delivery /\ redis.due[c[1]] \in Int /\ redis.hash[c[1]] # None
  BY ClaimsDelivery DEF IInv, RedisKept, Keys, Holds, leased
<1>2. flight[c] \in FlightShape /\ flight[c].left \in Nat
  BY DEF IInv, FlightsKept, Holds, CallsInTime
<1>3. Slack(flight[c].pc) \in Nat
  BY Ticks DEF Slack
<1>4. redis.due[c[1]] > flight[c].left + Slack(flight[c].pc)
  BY DEF Holds
<1> QED
  BY <1>1, <1>2, <1>3, <1>4

LEMMA HolderStays ==
  ASSUME NEW c \in Claim, Holds(c), flight'[c] = flight[c], Same(redis, redis', c[1])
  PROVE  Holds(c)'
BY DEF Holds, leased, Same

LEMMA ClaimIs == \A b, c \in Claim : (b[1] = c[1] /\ b[2] = c[2]) => b = c
BY DEF Claim

(* The lease names its claim.                                              *)
LEMMA OneHolder ==
  ASSUME NEW b \in Claim, NEW c \in Claim, b[1] = c[1],
         leased(redis, b[1], b[2]), leased(redis, c[1], c[2])
  PROVE  b = c
<1>1. b[2] = c[2]
  BY DEF leased
<1> QED
  BY <1>1, ClaimIs

(* A step of one flight that calls the queue under its own lease, or not.  *)
OwnCall(b) ==
  \A d \in Delivery : (d # b[1] \/ ~ leased(redis, b[1], b[2])) => Same(redis, redis', d)

OthersFly(b) == \A c \in Claim \ {b} : flight'[c] = flight[c]

LEMMA OthersHold ==
  ASSUME NEW b \in Claim, OwnCall(b), OthersFly(b)
  PROVE  \A c \in Claim \ {b} : Holds(c) => Holds(c)'
<1> SUFFICES ASSUME NEW c \in Claim \ {b}, Holds(c) PROVE Holds(c)'
  OBVIOUS
<1>1. c[1] # b[1] \/ ~ leased(redis, b[1], b[2])
  BY OneHolder DEF Holds
<1>2. Same(redis, redis', c[1])
  BY <1>1, ClaimsDelivery DEF OwnCall
<1> QED
  BY <1>2, HolderStays DEF OthersFly

(* What a step that ends nothing has to show.                              *)
LEMMA NothingEnds ==
  ASSUME IInv, HoldInv, CallsInTime', faults' \in 0..MaxFaults, faults' \in {faults, faults + 1},
         UNCHANGED ended,
         \A c \in Claim : Sending(c)' => Holds(c)',
         \A c \in Claim : (faults' = 0 /\ flight'[c] # None /\ flight'[c].pc = "reporting")
                            => Holds(c)',
         \A c \in Claim : (/\ Holds(c) /\ ~ Sending(c) /\ faults' = faults
                           /\ redis'.hash[c[1]] # None)
                            => Holds(c)' /\ ~ Sending(c)',
         \A d \in Delivery : (redis.hash[d] = None /\ redis'.hash[d] # None) => ended[d] = 0
  PROVE  HoldInv'
<1>1. SendersHold' /\ ReportersHold'
  BY DEF SendersHold, ReportersHold
<1>2. EndedOnce'
  <2> SUFFICES ASSUME NEW d \in Delivery, redis'.hash[d] # None
               PROVE  ended'[d] <= faults' \/ EndedAndHeld(d)'
    BY DEF EndedOnce
  <2>1. ended[d] \in Nat /\ faults \in Nat
    BY DEF IInv, FlightsKept, HoldInv
  <2>2. CASE ended[d] <= faults
    BY <2>1, <2>2
  <2>3. CASE ~ (ended[d] <= faults)
    <3>1. redis.hash[d] # None
      BY <2>1, <2>3
    <3>2. EndedAndHeld(d)
      BY <2>3, <3>1 DEF HoldInv, EndedOnce
    <3>3. ended[d] = faults + 1
      BY <3>2 DEF EndedAndHeld
    <3>4. CASE faults' # faults
      BY <2>1, <3>3, <3>4
    <3>5. CASE faults' = faults
      <4>1. PICK c \in Claim : c[1] = d /\ ~ Sending(c) /\ Holds(c)
        BY <3>2 DEF EndedAndHeld
      <4>2. Holds(c)' /\ ~ Sending(c)'
        BY <3>5, <4>1
      <4> QED
        BY <3>3, <3>5, <4>1, <4>2 DEF EndedAndHeld
    <3> QED
      BY <3>4, <3>5
  <2> QED
    BY <2>2, <2>3
<1> QED
  BY <1>1, <1>2 DEF HoldInv

LEMMA FaultsCount ==
  ASSUME HoldInv, NoFault \/ \E kind : Fault(kind)
  PROVE  faults' \in 0..MaxFaults /\ faults' \in {faults, faults + 1} /\ faults \in Nat
<1>1. MaxFaults \in Nat /\ faults \in 0..MaxFaults
  BY WebhookWorkerAssumption DEF HoldInv
<1> QED
  BY <1>1 DEF NoFault, Fault

(* The same of a step of one flight.                                       *)
LEMMA FlightEndsNothing ==
  ASSUME IInv, HoldInv, NEW b \in Claim, OwnCall(b), OthersFly(b), UNCHANGED <<process, ended>>,
         NoFault \/ \E kind : Fault(kind),
         flight'[b] # None => flight'[b].left \in Nat /\ flight'[b].pc # "sending",
         (faults' = 0 /\ flight'[b] # None /\ flight'[b].pc = "reporting") => Holds(b)',
         (Holds(b) /\ ~ Sending(b) /\ faults' = faults /\ redis'.hash[b[1]] # None) => Holds(b)'
  PROVE  HoldInv'
<1>1. \A c \in Claim \ {b} : Holds(c) => Holds(c)'
  BY OthersHold
<1>2. faults' \in 0..MaxFaults /\ faults' \in {faults, faults + 1} /\ faults \in Nat
  BY FaultsCount
<1>3. CallsInTime'
  BY DEF HoldInv, CallsInTime, OthersFly
<1>4. ~ Sending(b)' /\ \A c \in Claim \ {b} : Sending(c)' <=> Sending(c)
  BY DEF Sending, OthersFly
<1>5. \A c \in Claim : Sending(c)' => Holds(c)'
  BY <1>1, <1>4 DEF HoldInv, SendersHold
<1>6. ASSUME NEW c \in Claim, faults' = 0, flight'[c] # None, flight'[c].pc = "reporting"
      PROVE  Holds(c)'
  <2>1. faults = 0
    BY <1>2, <1>6
  <2>2. CASE c # b
    <3>1. Holds(c)
      BY <1>6, <2>1, <2>2 DEF HoldInv, ReportersHold, OthersFly
    <3> QED
      BY <1>1, <2>2, <3>1
  <2> QED
    BY <1>6, <2>2
<1>7. \A c \in Claim : (/\ Holds(c) /\ ~ Sending(c) /\ faults' = faults
                        /\ redis'.hash[c[1]] # None)
                         => Holds(c)' /\ ~ Sending(c)'
  BY <1>1, <1>4
<1>8. \A d \in Delivery : (redis.hash[d] = None /\ redis'.hash[d] # None) => ended[d] = 0
  <2>1. ASSUME NEW d \in Delivery, redis.hash[d] = None
        PROVE  Same(redis, redis', d)
    BY <2>1 DEF OwnCall, leased
  <2> QED
    BY <2>1 DEF Same
<1> QED
  BY <1>2, <1>3, <1>5, <1>6, <1>7, <1>8, NothingEnds

(* A flight that ends its delivery held it, and holds it.                  *)
LEMMA EndsOnce ==
  ASSUME IInv, HoldInv, NEW b \in Claim, leased(redis, b[1], b[2]), Sending(b) \/ ~ Holds(b)
  PROVE  ended[b[1]] <= faults
<1>1. b[1] \in Delivery /\ redis.hash[b[1]] # None
  BY ClaimsDelivery DEF leased
<1>2. ASSUME NEW c \in Claim, c[1] = b[1], ~ Sending(c), Holds(c) PROVE FALSE
  <2>1. leased(redis, c[1], c[2])
    BY <1>2 DEF Holds
  <2>2. c = b
    BY <1>2, <2>1, OneHolder
  <2> QED
    BY <1>2, <2>2
<1> QED
  BY <1>1, <1>2 DEF HoldInv, EndedOnce, EndedAndHeld

LEMMA FlightEnds ==
  ASSUME IInv, HoldInv, NEW b \in Claim, leased(redis, b[1], b[2]), Sending(b) \/ ~ Holds(b),
         OwnCall(b), OthersFly(b), UNCHANGED <<process, faults>>,
         ended' = [ended EXCEPT ![b[1]] = @ + 1],
         redis'.hash[b[1]] # None,
         flight'[b] # None, flight'[b].left \in Nat, Holds(b)', ~ Sending(b)'
  PROVE  HoldInv'
<1>1. \A c \in Claim \ {b} : Holds(c) => Holds(c)'
  BY OthersHold
<1>2. CallsInTime'
  BY DEF HoldInv, CallsInTime, OthersFly
<1>3. SendersHold' /\ ReportersHold'
  BY <1>1 DEF HoldInv, SendersHold, ReportersHold, Sending, OthersFly
<1>4. EndedOnce'
  <2> SUFFICES ASSUME NEW d \in Delivery, redis'.hash[d] # None
               PROVE  ended'[d] <= faults' \/ EndedAndHeld(d)'
    BY DEF EndedOnce
  <2>1. ended \in [Delivery -> Nat] /\ faults \in Nat
    BY DEF IInv, FlightsKept, HoldInv
  <2>2. CASE d = b[1]
    <3>1. ended[d] <= faults /\ ended'[d] = ended[d] + 1
      BY <2>1, <2>2, EndsOnce
    <3>2. CASE ended'[d] = faults + 1
      BY <2>2, <3>2 DEF EndedAndHeld
    <3> QED
      BY <2>1, <3>1, <3>2
  <2>3. CASE d # b[1]
    <3>1. Same(redis, redis', d) /\ ended'[d] = ended[d]
      BY <2>1, <2>3 DEF OwnCall
    <3>2. CASE ended[d] <= faults
      BY <3>1, <3>2
    <3>3. CASE ~ (ended[d] <= faults)
      <4>1. EndedAndHeld(d)
        BY <3>1, <3>3 DEF HoldInv, EndedOnce, Same
      <4>2. PICK c \in Claim : c[1] = d /\ ~ Sending(c) /\ Holds(c)
        BY <4>1 DEF EndedAndHeld
      <4>3. c # b
        BY <2>3, <4>2
      <4>4. Holds(c)' /\ ~ Sending(c)'
        BY <1>1, <4>2, <4>3 DEF OthersFly, Sending
      <4> QED
        BY <3>1, <4>1, <4>2, <4>4 DEF EndedAndHeld
    <3> QED
      BY <3>2, <3>3
  <2> QED
    BY <2>2, <2>3
<1> QED
  BY <1>2, <1>3, <1>4 DEF HoldInv
-----------------------------------------------------------------------------
(* The steps of a flight.                                                  *)

LEMMA OutcomeIsOwn ==
  ASSUME NEW b \in Claim, NEW whole, NEW stops,
         \A after \in stops \cup {whole}, d \in Delivery :
           (d # b[1] \/ ~ leased(redis, b[1], b[2])) => Same(redis, after, d),
         (redis' = whole /\ NoFault) \/ Unanswered(stops)
  PROVE  OwnCall(b) /\ (NoFault \/ \E kind : Fault(kind))
<1>1. \A d \in Delivery : Same(redis, redis, d)
  BY DEF Same
<1>2. redis' \in stops \cup {whole, redis} /\ (NoFault \/ \E kind : Fault(kind))
  BY DEF Unanswered
<1> QED
  BY <1>1, <1>2 DEF OwnCall

LEMMA QuietCall ==
  ASSUME NEW b \in Claim, UNCHANGED redis
  PROVE  OwnCall(b)
BY DEF OwnCall, Same

LEMMA SettlesHold ==
  ASSUME IInv, HoldInv, NEW b \in Claim, OwnCall(b), Settle(b), UNCHANGED <<process, ended>>,
         NoFault \/ \E kind : Fault(kind),
         ~ (Holds(b) /\ ~ Sending(b) /\ faults' = faults /\ redis'.hash[b[1]] # None)
  PROVE  HoldInv'
<1>1. flight'[b] = None /\ OthersFly(b)
  BY FlightSettles DEF IInv, FlightsKept, OthersFly
<1> QED
  BY <1>1, FlightEndsNothing

LEMMA NoneIsNoFlight == None \notin FlightShape
BY NoneAssumption DEF FlightShape, FlightState

(* Where a flight goes.                                                    *)
LEMMA GoesOn ==
  ASSUME IInv, NEW b \in Claim, flight[b] # None, NEW left \in Int,
         NEW pc \in {"deleting", "retrying", "extending", "reporting", "removing"},
         To(b, pc, left)
  PROVE  /\ OthersFly(b) /\ flight'[b] # None /\ flight'[b].pc = pc /\ flight'[b].left = left
         /\ ~ Sending(b)'
<1>1. flight \in [Claim -> FlightShape \cup {None}] /\ flight[b] \in FlightShape
  BY DEF IInv, FlightsKept
<1> DEFINE gone == [flight[b] EXCEPT !.pc = pc, !.left = left]
<1>2. gone \in FlightShape /\ gone.pc = pc /\ gone.left = left
  BY <1>1 DEF FlightShape
<1>3. flight' = [flight EXCEPT ![b] = gone]
  BY DEF To
<1> HIDE DEF gone
<1>4. flight'[b] = gone /\ OthersFly(b)
  BY <1>1, <1>3 DEF OthersFly
<1>5. gone # None
  BY <1>2, NoneIsNoFlight
<1> QED
  BY <1>2, <1>4, <1>5 DEF Sending

LEMMA HoldDelivered ==
  ASSUME IInv, HoldInv, NEW b \in Claim, Delivered(b)
  PROVE  HoldInv'
<1>1. Sending(b) /\ Holds(b) /\ leased(redis, b[1], b[2])
  BY DEF Delivered, Sending, HoldInv, SendersHold, Holds
<1>2. /\ OthersFly(b) /\ flight'[b] # None /\ flight'[b].pc = "deleting"
      /\ flight'[b].left = Latency /\ ~ Sending(b)'
  BY Ticks, GoesOn DEF Delivered
<1>3. Holds(b)'
  <2>1. redis.due[b[1]] > flight[b].left + Latency /\ flight[b].left \in Nat
        /\ redis.due[b[1]] \in Int
    BY <1>1, HolderIs DEF HoldInv, Holds, Slack, Sending
  <2>2. UNCHANGED redis /\ redis.due[b[1]] > flight'[b].left + 0
    BY <1>2, <2>1, Ticks DEF Delivered
  <2> QED
    BY <1>1, <1>2, <2>2 DEF Holds, Slack, leased
<1>4. UNCHANGED <<redis, process, faults>> /\ ended' = [ended EXCEPT ![b[1]] = @ + 1]
  BY DEF Delivered
<1>5. redis'.hash[b[1]] # None /\ OwnCall(b)
  BY <1>1, <1>4, QuietCall DEF leased
<1>6. flight'[b].left \in Nat
  BY <1>2, Ticks
<1> QED
  BY <1>1, <1>2, <1>3, <1>4, <1>5, <1>6, FlightEnds

LEMMA HoldFailed ==
  ASSUME IInv, HoldInv, NEW b \in Claim, Failed(b)
  PROVE  HoldInv'
<1>1. PICK pc \in {"retrying", "extending"} : To(b, pc, Latency)
  BY DEF Failed
<1>2. /\ OthersFly(b) /\ flight'[b] # None /\ flight'[b].pc = pc
      /\ flight'[b].left = Latency /\ ~ Sending(b)'
  BY <1>1, Ticks, GoesOn DEF Failed
<1>3. UNCHANGED <<redis, process, ended, faults>> /\ Sending(b)
  BY DEF Failed, Sending
<1>4. OwnCall(b) /\ NoFault
  BY <1>3, QuietCall DEF NoFault
<1>5. flight'[b].left \in Nat /\ flight'[b].pc # "sending" /\ flight'[b].pc # "reporting"
  BY <1>1, <1>2, Ticks
<1> QED
  BY <1>2, <1>3, <1>4, <1>5, FlightEndsNothing

LEMMA HoldReported ==
  ASSUME IInv, HoldInv, NEW b \in Claim, Reported(b)
  PROVE  HoldInv'
<1>1. /\ OthersFly(b) /\ flight'[b] # None /\ flight'[b].pc = "removing"
      /\ flight'[b].left = Latency /\ ~ Sending(b)'
  BY Ticks, GoesOn DEF Reported
<1>2. UNCHANGED <<redis, process, ended, faults>> /\ flight[b].pc = "reporting"
  BY DEF Reported
<1>3. OwnCall(b) /\ NoFault
  BY <1>2, QuietCall DEF NoFault
<1>4. ASSUME Holds(b) PROVE Holds(b)'
  <2>1. redis.due[b[1]] > flight[b].left + Latency /\ flight[b].left \in Nat
        /\ redis.due[b[1]] \in Int
    BY <1>2, <1>4, HolderIs DEF HoldInv, Holds, Slack
  <2>2. redis.due[b[1]] > flight'[b].left + 0
    BY <1>1, <2>1, Ticks
  <2> QED
    BY <1>1, <1>2, <1>4, <2>2 DEF Holds, Slack, leased
<1>5. flight'[b].left \in Nat /\ flight'[b].pc # "sending" /\ flight'[b].pc # "reporting"
  BY <1>1, Ticks
<1> QED
  BY <1>1, <1>2, <1>3, <1>4, <1>5, FlightEndsNothing

LEMMA HoldScheduleRetry ==
  ASSUME IInv, HoldInv, NEW b \in Claim, ScheduleRetry(b)
  PROVE  HoldInv'
<1>1. redis \in Keys
  BY DEF IInv, RedisKept
<1>2. \A after \in ScheduleStops(redis, b[1], b[2], Delay)
                     \cup {Scheduled(redis, b[1], b[2], Delay)}, d \in Delivery :
        (d # b[1] \/ ~ leased(redis, b[1], b[2])) => Same(redis, after, d)
  BY <1>1, LeaseLeaves
<1>3. /\ \/ redis' = Scheduled(redis, b[1], b[2], Delay) /\ NoFault
         \/ Unanswered(ScheduleStops(redis, b[1], b[2], Delay))
      /\ Settle(b) /\ UNCHANGED <<process, ended>> /\ flight[b].pc = "retrying"
  BY DEF ScheduleRetry
<1>4. OwnCall(b) /\ (NoFault \/ \E kind : Fault(kind))
  BY <1>2, <1>3, OutcomeIsOwn
<1>5. ~ Holds(b)
  BY <1>3 DEF Holds
<1> QED
  BY <1>3, <1>4, <1>5, SettlesHold

LEMMA HoldDelete ==
  ASSUME IInv, HoldInv, NEW b \in Claim, Delete(b)
  PROVE  HoldInv'
<1>1. redis \in Keys /\ b[1] \in Delivery
  BY ClaimsDelivery DEF IInv, RedisKept
<1>2. \A after \in DeleteStops(redis, b[1], b[2])
                     \cup {Deleted(redis, b[1], b[2])}, d \in Delivery :
        (d # b[1] \/ ~ leased(redis, b[1], b[2])) => Same(redis, after, d)
  BY <1>1, LeaseLeaves
<1>3. /\ \/ redis' = Deleted(redis, b[1], b[2]) /\ NoFault
         \/ Unanswered(DeleteStops(redis, b[1], b[2]))
      /\ Settle(b) /\ UNCHANGED <<process, ended>>
  BY DEF Delete
<1>4. OwnCall(b) /\ (NoFault \/ \E kind : Fault(kind))
  BY <1>2, <1>3, OutcomeIsOwn
<1>5. ~ (Holds(b) /\ ~ Sending(b) /\ faults' = faults /\ redis'.hash[b[1]] # None)
  <2> SUFFICES ASSUME Holds(b), faults' = faults PROVE redis'.hash[b[1]] = None
    OBVIOUS
  <2>1. redis' = Deleted(redis, b[1], b[2])
    BY <1>3 DEF Unanswered, Fault, HoldInv
  <2>2. leased(redis, b[1], b[2])
    BY DEF Holds
  <2> DEFINE two == WithoutMember(WithoutHash(redis, b[1]), b[1])
  <2>3. two.hash[b[1]] = None /\ DOMAIN two = {"hash", "due", "endpoints"}
    BY <1>1 DEF WithoutHash, WithoutMember, Keys
  <2>4. Deleted(redis, b[1], b[2])
          = [two EXCEPT !.endpoints = LeaveTheSet(two.endpoints, two.due, {b[1][2]})]
    BY <2>2 DEF Deleted
  <2> HIDE DEF two
  <2> QED
    BY <2>1, <2>3, <2>4
<1> QED
  BY <1>3, <1>4, <1>5, SettlesHold

-----------------------------------------------------------------------------
(* The extension, and what is reported under it.                           *)

LEMMA ExtensionIsOwn ==
  ASSUME IInv, NEW b \in Claim,
         \/ redis' = Extended(redis, b[1], b[2], leaseMs) /\ NoFault
         \/ Unanswered({Extended(redis, b[1], b[2], leaseMs)})
  PROVE  OwnCall(b) /\ (NoFault \/ \E kind : Fault(kind))
<1> DEFINE after == Extended(redis, b[1], b[2], leaseMs)
<1>1. redis \in Keys
  BY DEF IInv, RedisKept
<1>2. \A other \in {after} \cup {after}, d \in Delivery :
        (d # b[1] \/ ~ leased(redis, b[1], b[2])) => Same(redis, other, d)
  BY <1>1, LeaseLeaves
<1>3. (redis' = after /\ NoFault) \/ Unanswered({after})
  OBVIOUS
<1> HIDE DEF after
<1> QED
  BY <1>2, <1>3, OutcomeIsOwn

LEMMA ExtendedHolds ==
  ASSUME IInv, NEW b \in Claim, leased(redis, b[1], b[2]),
         redis' = Extended(redis, b[1], b[2], leaseMs),
         flight'[b] # None, flight'[b].pc = "reporting", flight'[b].left = leaseMs \div 3
  PROVE  Holds(b)' /\ redis'.hash[b[1]] # None /\ flight'[b].left \in Nat
<1>1. redis \in Keys /\ b[1] \in Delivery
  BY ClaimsDelivery DEF IInv, RedisKept
<1>2. redis'.hash = redis.hash /\ redis'.due[b[1]] = leaseMs
  BY <1>1 DEF Extended, Keys
<1>3. /\ leaseMs \in Int /\ leaseMs > (leaseMs \div 3) + Latency /\ leaseMs \div 3 \in Nat
  BY WebhookWorkerAssumption
<1>4. leaseMs # None
  BY <1>3, RedisQueueAssumption
<1> QED
  BY <1>2, <1>3, <1>4 DEF Holds, Slack, leased

LEMMA HoldGiveUp ==
  ASSUME IInv, HoldInv, NEW b \in Claim, GiveUp(b)
  PROVE  HoldInv'
<1>1. OwnCall(b) /\ (NoFault \/ \E kind : Fault(kind))
  BY ExtensionIsOwn DEF GiveUp
<1>2. flight[b] # None /\ flight[b].pc \in {"extending", "orphaned"} /\ ~ Holds(b)
      /\ UNCHANGED process
  BY DEF GiveUp, Turn, Holds
<1>3. CASE Settle(b) /\ UNCHANGED ended
  BY <1>1, <1>2, <1>3, SettlesHold
<1>4. CASE ~ (Settle(b) /\ UNCHANGED ended)
  <2>1. /\ redis' = Extended(redis, b[1], b[2], leaseMs) /\ NoFault
        /\ leased(redis, b[1], b[2]) /\ To(b, "reporting", leaseMs \div 3)
        /\ ended' = [ended EXCEPT ![b[1]] = @ + 1]
    BY <1>4 DEF GiveUp
  <2>2. /\ OthersFly(b) /\ flight'[b] # None /\ flight'[b].pc = "reporting"
        /\ flight'[b].left = leaseMs \div 3 /\ ~ Sending(b)'
    BY <1>2, <2>1, Ticks, GoesOn
  <2>3. Holds(b)' /\ redis'.hash[b[1]] # None /\ flight'[b].left \in Nat
    BY <2>1, <2>2, ExtendedHolds
  <2> QED
    BY <1>1, <1>2, <2>1, <2>2, <2>3, FlightEnds DEF NoFault
<1> QED
  BY <1>3, <1>4

LEMMA HoldHeartbeat ==
  ASSUME IInv, HoldInv, NEW b \in Claim, Heartbeat(b)
  PROVE  HoldInv'
<1>1. OwnCall(b) /\ (NoFault \/ \E kind : Fault(kind))
  BY ExtensionIsOwn DEF Heartbeat
<1>2. /\ flight[b] # None /\ flight[b].pc = "reporting" /\ To(b, "reporting", leaseMs \div 3)
      /\ UNCHANGED <<process, ended>>
  BY DEF Heartbeat
<1>3. /\ OthersFly(b) /\ flight'[b] # None /\ flight'[b].pc = "reporting"
      /\ flight'[b].left = leaseMs \div 3 /\ ~ Sending(b)'
  BY <1>2, Ticks, GoesOn
<1>4. leaseMs \div 3 \in Nat
  BY WebhookWorkerAssumption
<1>5. ASSUME Holds(b), faults' = faults PROVE Holds(b)'
  <2>1. redis' = Extended(redis, b[1], b[2], leaseMs)
    BY <1>5 DEF Heartbeat, Unanswered, Fault, HoldInv
  <2> QED
    BY <1>3, <1>5, <2>1, ExtendedHolds DEF Holds
<1>6. ASSUME faults' = 0 PROVE Holds(b)'
  <2>1. faults = 0
    BY <1>1, <1>6, FaultsCount
  <2>2. Holds(b)
    BY <1>2, <2>1 DEF HoldInv, ReportersHold
  <2> QED
    BY <1>5, <1>6, <2>1, <2>2
<1> QED
  BY <1>1, <1>2, <1>3, <1>4, <1>5, <1>6, FlightEndsNothing
-----------------------------------------------------------------------------
(* The steps of a process, and time.                                       *)

(* What a claim writes for one it took.                                    *)
LEMMA ClaimHoldsIt ==
  ASSUME IInv, NEW p \in Process, NEW until \in Int, NEW left \in Nat, until > left + Latency,
         NEW at, NEW among, NEW limit, NEW walk \in Walks(redis, at, among, limit),
         redis' = Claimed(redis, walk, until),
         flight' = NewFlights(p, walk.claimed, "sending", left),
         NEW c \in Claim, c[1] \in walk.claimed, c[2] = queue[c[1]].attempts + 1
  PROVE  Holds(c)'
<1> DEFINE d == c[1]
           n == redis.hash[d].attempts + 1
<1>1. redis \in Keys /\ Reached(redis) /\ d \in Delivery /\ redis.hash[d] # None
  BY WalkIs, ClaimsDelivery DEF IInv, RedisKept
<1>2. c[2] = n
  BY <1>1, HeldIs DEF queue
<1>3. n \in Nat /\ LeasedBy(Counted(redis.hash, d), d)[d] = [attempts |-> n, lease |-> n]
  BY <1>1, ClaimedHash DEF Keys
<1>4. redis'.hash[d] = [attempts |-> n, lease |-> n] /\ redis'.due[d] = until
  BY <1>1, <1>3 DEF Claimed
<1>5. c[2] # 0
  <2>1. MaxClaims \in Nat
    BY WebhookWorkerAssumption
  <2> QED
    BY <2>1 DEF Claim
<1>6. [attempts |-> n, lease |-> n] # None /\ until # None
  BY <1>3, RedisQueueAssumption DEF HashRecord
<1>7. flight'[c] = [process |-> p, pc |-> "sending", left |-> left]
  BY DEF NewFlights
<1>8. flight'[c] # None
  BY <1>7, NoneIsNoFlight DEF FlightShape
<1> HIDE DEF n
<1> QED
  BY <1>2, <1>4, <1>5, <1>6, <1>7, <1>8 DEF Holds, Slack, leased

LEMMA HoldWalk ==
  ASSUME IInv, HoldInv, NEW p \in Process, NEW at \in Int, at <= 0, NEW among, NEW limit,
         NEW until \in Int, NEW walk \in Walks(redis, at, among, limit),
         NEW pc \in {"sending", "orphaned"}, NEW left \in Nat,
         pc = "sending" => until > left + Latency,
         \/ /\ redis' = Claimed(redis, walk, until)
            /\ flight' = NewFlights(p, walk.claimed, pc, left)
            /\ NoFault
         \/ /\ Unanswered(ClaimStops(redis, walk, until))
            /\ UNCHANGED flight,
         UNCHANGED ended, \A q \in Process : process'[q].age \in 0..Latency
  PROVE  HoldInv'
<1>1. redis \in Keys /\ flight \in [Claim -> FlightShape \cup {None}]
  BY DEF IInv, RedisKept, FlightsKept
<1>2. faults' \in 0..MaxFaults /\ faults' \in {faults, faults + 1} /\ faults \in Nat
  BY FaultsCount DEF Unanswered
<1>3. redis' \in ClaimStops(redis, walk, until) \cup {Claimed(redis, walk, until), redis}
  BY DEF Unanswered
<1>4. ASSUME NEW c \in Claim, Holds(c)
      PROVE  flight'[c] = flight[c] /\ Holds(c)'
  <2>1. /\ c[1] \in Delivery /\ redis.hash[c[1]] # None /\ redis.due[c[1]] # None
        /\ redis.due[c[1]] > 0
    BY <1>4, HolderIs DEF HoldInv, Holds
  <2>2. c[1] \notin walk.claimed
    BY <1>1, <2>1, WalkLeaves
  <2>3. Same(redis, redis', c[1])
    <3>1. CASE redis' = redis
      BY <3>1 DEF Same
    <3>2. CASE redis' # redis
      BY <1>1, <1>3, <2>1, <3>2, WalkLeaves
    <3> QED
      BY <3>1, <3>2
  <2>4. flight'[c] = flight[c]
    BY <2>2 DEF NewFlights
  <2> QED
    BY <1>4, <2>3, <2>4, HolderStays
<1>5. ASSUME NEW c \in Claim, flight'[c] # flight[c]
      PROVE  /\ flight'[c] = [process |-> p, pc |-> pc, left |-> left]
             /\ c[1] \in walk.claimed /\ c[2] = queue[c[1]].attempts + 1
             /\ redis' = Claimed(redis, walk, until)
             /\ flight' = NewFlights(p, walk.claimed, pc, left)
  BY <1>5 DEF NewFlights
<1>6. \A c \in Claim : Sending(c)' => Holds(c)'
  <2> SUFFICES ASSUME NEW c \in Claim, Sending(c)' PROVE Holds(c)'
    OBVIOUS
  <2>1. CASE flight'[c] = flight[c]
    BY <1>4, <2>1 DEF HoldInv, SendersHold, Sending
  <2>2. CASE flight'[c] # flight[c]
    <3>1. pc = "sending"
      BY <1>5, <2>2 DEF Sending
    <3> QED
      BY <1>5, <2>2, <3>1, ClaimHoldsIt
  <2> QED
    BY <2>1, <2>2
<1>7. \A c \in Claim : (faults' = 0 /\ flight'[c] # None /\ flight'[c].pc = "reporting")
                         => Holds(c)'
  <2> SUFFICES ASSUME NEW c \in Claim, faults' = 0, flight'[c] # None,
                      flight'[c].pc = "reporting"
               PROVE  Holds(c)'
    OBVIOUS
  <2>1. flight'[c] = flight[c]
    BY <1>5
  <2>2. faults = 0
    BY <1>2
  <2> QED
    BY <1>4, <2>1, <2>2 DEF HoldInv, ReportersHold
<1>8. \A c \in Claim : (/\ Holds(c) /\ ~ Sending(c) /\ faults' = faults
                        /\ redis'.hash[c[1]] # None)
                         => Holds(c)' /\ ~ Sending(c)'
  BY <1>4 DEF Sending
<1>9. \A d \in Delivery : (redis.hash[d] = None /\ redis'.hash[d] # None) => ended[d] = 0
  <2> SUFFICES ASSUME NEW d \in Delivery, redis.hash[d] = None PROVE redis'.hash[d] = None
    OBVIOUS
  <2>1. d \notin walk.claimed
    BY WalkIs
  <2>2. CASE redis' = redis
    BY <2>2
  <2>3. CASE redis' # redis
    <3>1. Passed(redis, redis', walk, d)
      BY <1>1, <1>3, <2>1, <2>3, WalkPasses
    <3> QED
      BY <3>1 DEF Passed
  <2> QED
    BY <2>2, <2>3
<1>10. CallsInTime'
  <2>1. \A c \in Claim : flight'[c] # None => flight'[c].left \in Nat
    BY <1>5 DEF HoldInv, CallsInTime
  <2> QED
    BY <2>1 DEF CallsInTime
<1> QED
  BY <1>2, <1>6, <1>7, <1>8, <1>9, <1>10, NothingEnds

LEMMA HoldPumpOnce ==
  ASSUME IInv, HoldInv, NEW p \in Process, PumpOnce(p)
  PROVE  HoldInv'
<1> DEFINE at == -process[p].age
<1>1. process \in [Process -> ProcessShape] /\ process[p] \in ProcessShape
      /\ \A q \in Process : process[q].age \in 0..Latency
  BY DEF IInv, ProcessesTyped, HoldInv, CallsInTime
<1>2. at \in Int /\ at <= 0 /\ LeaseEnd(at) \in Int /\ LeaseEnd(at) > timeout + Latency
      /\ timeout \in Nat
  <2>1. process[p].age \in Int /\ process[p].age >= 0 /\ process[p].age <= Latency
    BY <1>1, Ticks
  <2> QED
    BY <2>1, WebhookWorkerAssumption DEF LeaseEnd
<1>3. PICK walk \in Walks(redis, at, process[p].keys, process[p].free) :
        \/ /\ redis' = Claimed(redis, walk, LeaseEnd(at))
           /\ flight' = NewFlights(p, walk.claimed, "sending", timeout)
           /\ NoFault
        \/ /\ Unanswered(ClaimStops(redis, walk, LeaseEnd(at)))
           /\ UNCHANGED flight
  BY DEF PumpOnce
<1>4. \A q \in Process : process'[q].age \in 0..Latency
  <2> DEFINE asked == [process[p] EXCEPT !.claiming = FALSE, !.age = 0, !.free = 0]
  <2>1. asked.age = 0 /\ 0 \in 0..Latency
    BY <1>1, Ticks DEF ProcessShape
  <2>2. process' = [process EXCEPT ![p] = asked]
    BY DEF PumpOnce
  <2> HIDE DEF asked
  <2> QED
    BY <1>1, <2>1, <2>2
<1>5. UNCHANGED ended
  BY DEF PumpOnce
<1> HIDE DEF at
<1> QED
  BY <1>2, <1>3, <1>4, <1>5, HoldWalk

LEMMA HoldSweep ==
  ASSUME IInv, HoldInv, NEW p \in Process, Sweep(p)
  PROVE  HoldInv'
<1> DEFINE at == -orphanGrace
           among == redis.endpoints \ process[p].keys
           limit == Cardinality(Delivery) + 1
<1>1. at \in Int /\ at <= 0 /\ leaseMs \in Int /\ 0 \in Nat
  BY WebhookWorkerAssumption
<1>2. PICK walk \in Walks(redis, at, among, limit) :
        \/ /\ redis' = Claimed(redis, walk, leaseMs)
           /\ flight' = NewFlights(p, walk.claimed, "orphaned", 0)
           /\ NoFault
        \/ /\ Unanswered(ClaimStops(redis, walk, leaseMs))
           /\ UNCHANGED flight
  BY DEF Sweep, OrphanWalks
<1>3. UNCHANGED ended /\ \A q \in Process : process'[q].age \in 0..Latency
  BY DEF Sweep, HoldInv, CallsInTime
<1> HIDE DEF at, among, limit
<1> QED
  BY <1>1, <1>2, <1>3, HoldWalk

LEMMA HoldAccept ==
  ASSUME IInv, HoldInv, NEW p \in Process, NEW e \in Event, accept(p, e)
  PROVE  HoldInv'
<1> DEFINE its == Delivery \cap ({e} \X process[p].keys)
<1>1. redis \in Keys /\ Reached(redis) /\ its \in SUBSET Delivery
  BY DEF IInv, RedisKept
<1>2. /\ (redis' = Inserted(redis, its) /\ NoFault) \/ Unanswered(InsertStops(redis, its))
      /\ \A d \in its : queue[d] # None \/ ended[d] = 0
      /\ UNCHANGED <<process, flight, ended>>
  BY DEF accept
<1> HIDE DEF its
<1>3. redis' \in InsertStops(redis, its) \cup {Inserted(redis, its), redis}
  BY <1>2 DEF Unanswered
<1>4. faults' \in 0..MaxFaults /\ faults' \in {faults, faults + 1} /\ faults \in Nat
  BY <1>2, FaultsCount DEF Unanswered
<1>5. ASSUME NEW d \in Delivery, redis.hash[d] # None
      PROVE  Same(redis, redis', d)
  <2>1. CASE redis' = redis
    BY <2>1 DEF Same
  <2>2. CASE redis' # redis
    BY <1>1, <1>3, <1>5, <2>2, InsertLeaves
  <2> QED
    BY <2>1, <2>2
<1>6. \A c \in Claim : Holds(c) => Holds(c)'
  <2> SUFFICES ASSUME NEW c \in Claim, Holds(c) PROVE Holds(c)'
    OBVIOUS
  <2>1. c[1] \in Delivery /\ redis.hash[c[1]] # None
    BY ClaimsDelivery DEF Holds, leased
  <2> QED
    BY <1>2, <1>5, <2>1, HolderStays
<1>7. \A c \in Claim : (Sending(c)' <=> Sending(c))
  BY <1>2 DEF Sending
<1>8. \A d \in Delivery : (redis.hash[d] = None /\ redis'.hash[d] # None) => ended[d] = 0
  <2> SUFFICES ASSUME NEW d \in Delivery, redis.hash[d] = None, redis'.hash[d] # None
               PROVE  ended[d] = 0
    OBVIOUS
  <2>1. d \in its
    BY <1>1, <1>3 DEF Inserted, InsertStops, NewOf, Keys
  <2> QED
    BY <1>2, <2>1, NotHeldIs DEF queue
<1>9. CallsInTime'
  BY <1>2 DEF HoldInv, CallsInTime
<1>10. \A c \in Claim : (faults' = 0 /\ flight'[c] # None /\ flight'[c].pc = "reporting")
                          => Holds(c)'
  BY <1>2, <1>4, <1>6 DEF HoldInv, ReportersHold
<1> QED
  BY <1>2, <1>4, <1>6, <1>7, <1>8, <1>9, <1>10, NothingEnds DEF HoldInv, SendersHold

LEMMA HoldProcess ==
  ASSUME IInv, HoldInv, NEW p \in Process,
         AskClaim(p) \/ close(p) \/ Closed(p) \/ Crash(p) \/ Start(p)
  PROVE  HoldInv'
<1>1. process \in [Process -> ProcessShape] /\ process[p] \in ProcessShape
  BY DEF IInv, ProcessesTyped
<1>2. UNCHANGED <<redis, ended>> /\ \A c \in Claim : flight'[c] \in {flight[c], None}
  BY DEF AskClaim, close, Closed, Crash, Start
<1>3. \A q \in Process : process'[q].age \in {process[q].age, 0}
  <2> SUFFICES ASSUME NEW q \in Process PROVE process'[q].age \in {process[q].age, 0}
    OBVIOUS
  <2>1. \A next : process' = [process EXCEPT ![p] = next]
                  => process'[q] = IF q = p THEN next ELSE process[q]
    BY <1>1
  <2>2. CASE AskClaim(p)
    <3> DEFINE free == concurrency - inFlight(p)
    <3>1. [process[p] EXCEPT !.claiming = TRUE, !.age = 0, !.free = free].age = 0
      <4> HIDE DEF free
      <4> QED  BY <1>1 DEF ProcessShape
    <3>2. process' = [process EXCEPT ![p] = [process[p] EXCEPT !.claiming = TRUE, !.age = 0,
                                                               !.free = free]]
      BY <2>2 DEF AskClaim
    <3> HIDE DEF free
    <3> QED
      BY <2>1, <3>1, <3>2
  <2>3. CASE close(p) \/ Closed(p)
    <3>1. PICK state \in {"closing", "down"} :
            process' = [process EXCEPT ![p] = [process[p] EXCEPT !.state = state]]
      BY <2>3 DEF close, Closed
    <3>2. [process[p] EXCEPT !.state = state].age = process[p].age
      BY <1>1 DEF ProcessShape
    <3> QED
      BY <2>1, <3>1, <3>2
  <2>4. CASE Crash(p)
    <3> DEFINE down == [Started(process[p].keys) EXCEPT !.state = "down"]
    <3>1. down.age = 0
      BY DEF Started
    <3>2. process' = [process EXCEPT ![p] = down]
      BY <2>4 DEF Crash
    <3> HIDE DEF down
    <3> QED
      BY <2>1, <3>1, <3>2
  <2>5. CASE Start(p)
    <3>1. PICK keys \in Configs : process' = [process EXCEPT ![p] = Started(keys)]
      BY <2>5 DEF Start
    <3>2. Started(keys).age = 0
      BY DEF Started
    <3> QED
      BY <2>1, <3>1, <3>2
  <2> QED
    BY <2>2, <2>3, <2>4, <2>5
<1>4. CallsInTime'
  <2>1. 0 \in 0..Latency
    BY Ticks
  <2> QED
    BY <1>2, <1>3, <2>1 DEF HoldInv, CallsInTime
<1>5. /\ faults' \in 0..MaxFaults /\ faults' \in {faults, faults + 1} /\ faults \in Nat
      /\ faults' = faults => UNCHANGED flight
  <2>1. NoFault \/ \E kind : Fault(kind)
    BY DEF AskClaim, close, Closed, Crash, Start, NoFault
  <2>2. faults' \in 0..MaxFaults /\ faults' \in {faults, faults + 1} /\ faults \in Nat
    BY <2>1, FaultsCount
  <2>3. Crash(p) => faults' = faults + 1
    BY DEF Crash, Fault
  <2>4. ~ Crash(p) => UNCHANGED flight
    BY DEF AskClaim, close, Closed, Start
  <2> QED
    BY <2>2, <2>3, <2>4
<1>6. ASSUME NEW c \in Claim, Holds(c), flight'[c] = flight[c]
      PROVE  Holds(c)'
  <2>1. Same(redis, redis', c[1])
    BY <1>2 DEF Same
  <2> QED
    BY <1>6, <2>1, HolderStays
<1>7. \A c \in Claim : Sending(c)' => Holds(c)'
  BY <1>2, <1>6 DEF HoldInv, SendersHold, Sending
<1>8. \A c \in Claim : (faults' = 0 /\ flight'[c] # None /\ flight'[c].pc = "reporting")
                         => Holds(c)'
  BY <1>2, <1>5, <1>6 DEF HoldInv, ReportersHold
<1>9. \A c \in Claim : (/\ Holds(c) /\ ~ Sending(c) /\ faults' = faults
                        /\ redis'.hash[c[1]] # None)
                         => Holds(c)' /\ ~ Sending(c)'
  BY <1>5, <1>6 DEF Sending
<1> QED
  BY <1>2, <1>4, <1>5, <1>7, <1>8, <1>9, NothingEnds

(* Time takes as much from a lease as from what its flight waits for.      *)
LEMMA HoldTick ==
  ASSUME IInv, HoldInv, Tick
  PROVE  HoldInv'
<1>1. redis \in Keys /\ flight \in [Claim -> FlightShape \cup {None}]
      /\ process \in [Process -> ProcessShape]
  BY DEF IInv, RedisKept, FlightsKept, ProcessesTyped
<1>2. /\ redis'.hash = redis.hash
      /\ \A d \in Delivery : redis'.due[d] = IF redis.due[d] = None THEN None
                                             ELSE Later(redis.due[d])
      /\ UNCHANGED <<ended, faults>>
  BY <1>1 DEF Tick, Keys
<1>3. ASSUME NEW c \in Claim, flight[c] # None
      PROVE  /\ flight'[c] # None /\ flight'[c].pc = flight[c].pc
             /\ flight'[c].left \in Nat
             /\ flight[c].pc # "orphaned" => flight'[c].left = flight[c].left - 1
  <2>1. flight[c] \in FlightShape /\ flight[c].left \in Nat
    BY <1>1, <1>3 DEF HoldInv, CallsInTime
  <2>2. CASE flight[c].pc = "orphaned"
    BY <1>3, <2>1, <2>2 DEF Tick
  <2>3. CASE flight[c].pc # "orphaned"
    <3> DEFINE next == [flight[c] EXCEPT !.left = flight[c].left - 1]
    <3>1. flight[c].left > 0 /\ flight'[c] = next
      BY <1>3, <2>3 DEF Tick
    <3>2. next \in FlightShape /\ next.pc = flight[c].pc /\ next.left = flight[c].left - 1
      BY <2>1 DEF FlightShape
    <3>3. next # None
      BY <3>2, NoneIsNoFlight
    <3>4. flight[c].left - 1 \in Nat
      BY <2>1, <3>1
    <3> HIDE DEF next
    <3> QED
      BY <3>1, <3>2, <3>3, <3>4
  <2> QED
    BY <2>2, <2>3
<1>4. \A c \in Claim : flight[c] = None => flight'[c] = None
  BY DEF Tick
<1>5. CallsInTime'
  <2>1. ASSUME NEW p \in Process PROVE process'[p].age \in 0..Latency
    <3>1. process[p] \in ProcessShape /\ process[p].age \in 0..Latency /\ Latency \in Nat
      BY <1>1, Ticks DEF HoldInv, CallsInTime
    <3>2. CASE process[p].claiming
      <4>1. process'[p] = [process[p] EXCEPT !.age = process[p].age + 1]
            /\ process[p].age < Latency
        BY <3>2 DEF Tick
      <4>2. process'[p].age = process[p].age + 1
        BY <3>1, <4>1 DEF ProcessShape
      <4> QED
        BY <3>1, <4>1, <4>2
    <3>3. CASE ~ process[p].claiming
      BY <3>1, <3>3 DEF Tick
    <3> QED
      BY <3>2, <3>3
  <2> QED
    BY <1>3, <1>4, <2>1 DEF CallsInTime
<1>6. ASSUME NEW c \in Claim, Holds(c)
      PROVE  Holds(c)'
  <2> DEFINE d == c[1]
             slack == Slack(flight[c].pc)
  <2>1. /\ d \in Delivery /\ flight[c].left \in Nat /\ redis.due[d] \in Int /\ redis.due[d] > 0
        /\ slack \in Nat /\ redis.due[d] > flight[c].left + slack
    BY <1>6, Ticks, HolderIs DEF HoldInv, Holds, Slack
  <2>2. redis'.due[d] = redis.due[d] - 1
    <3>1. redis.due[d] # None /\ -Past \in Int /\ -Past <= 0
      BY <1>6, WebhookWorkerAssumption DEF Holds, Past
    <3> QED
      BY <1>2, <2>1, <3>1 DEF Later
  <2>3. flight'[c] # None /\ flight'[c].pc = flight[c].pc /\ flight'[c].left = flight[c].left - 1
    BY <1>3, <1>6 DEF Holds
  <2>4. redis'.due[d] # None /\ redis'.due[d] > flight'[c].left + slack
    <3>1. redis.due[d] - 1 \in Int
      BY <2>1
    <3> HIDE DEF slack
    <3> QED
      BY <2>1, <2>2, <2>3, <3>1, RedisQueueAssumption
  <2>5. Slack(flight'[c].pc) = slack /\ leased(redis', c[1], c[2])
    BY <1>2, <1>6, <2>3 DEF Slack, leased, Holds
  <2> QED
    BY <1>6, <2>3, <2>4, <2>5 DEF Holds, Slack, leased
<1>7. \A c \in Claim : Sending(c)' <=> Sending(c)
  BY <1>3, <1>4 DEF Sending
<1>8. \A c \in Claim : Sending(c)' => Holds(c)'
  BY <1>6, <1>7 DEF HoldInv, SendersHold
<1>9. \A c \in Claim : (faults' = 0 /\ flight'[c] # None /\ flight'[c].pc = "reporting")
                         => Holds(c)'
  BY <1>2, <1>3, <1>4, <1>6 DEF HoldInv, ReportersHold
<1> QED
  BY <1>2, <1>5, <1>6, <1>7, <1>8, <1>9, NothingEnds DEF HoldInv
-----------------------------------------------------------------------------
(* The lease outlasts the request, and what that gives.                    *)

LEMMA InitHold == Init => HoldInv
<1> SUFFICES ASSUME Init PROVE HoldInv
  OBVIOUS
<1>1. faults \in 0..MaxFaults /\ 0 \in 0..Latency
  BY WebhookWorkerAssumption DEF Init
<1>2. CallsInTime
  <2>1. \A p \in Process : process[p].age = 0
    BY DEF Init, Started
  <2> QED
    BY <1>1, <2>1 DEF Init, CallsInTime
<1>3. SendersHold /\ ReportersHold
  BY DEF Init, SendersHold, ReportersHold, Sending
<1>4. EndedOnce
  BY DEF Init, EndedOnce, NoKeys
<1> QED
  BY <1>1, <1>2, <1>3, <1>4 DEF HoldInv

LEMMA StepHold ==
  ASSUME IInv, HoldInv, [Next]_vars
  PROVE  HoldInv'
<1>1. CASE UNCHANGED vars
  BY <1>1 DEF vars, HoldInv, CallsInTime, SendersHold, ReportersHold, EndedOnce, EndedAndHeld,
              Sending, Holds, leased
<1>2. ASSUME NEW p \in Process, Run(p) \/ close(p) \/ Crash(p) \/ \E e \in Event : accept(p, e)
      PROVE  HoldInv'
  BY <1>2, HoldAccept, HoldPumpOnce, HoldSweep, HoldProcess DEF Run
<1>3. ASSUME NEW c \in Claim, Send(c)
      PROVE  HoldInv'
  BY <1>3, HoldDelivered, HoldFailed, HoldScheduleRetry, HoldGiveUp, HoldHeartbeat,
     HoldReported, HoldDelete DEF Send
<1>4. CASE Tick
  BY <1>4, HoldTick
<1> QED
  BY <1>1, <1>2, <1>3, <1>4 DEF Next

LEMMA AlwaysHeld == Spec => [](IInv /\ HoldInv)
<1>1. Init => IInv /\ HoldInv
  BY InitIInv, InitHold
<1>2. (IInv /\ HoldInv) /\ [Next]_vars => (IInv /\ HoldInv)'
  BY StepIInv, StepHold
<1> QED
  BY <1>1, <1>2, PTL DEF Spec

(* "A lease is longer than the timeout, so no request is sent twice at     *)
(* once" (deliver.ts), for any timeout, latency and lease of which that is *)
(* true, and whatever crashes or is refused: the lease of whoever sends    *)
(* outlasts the request, and names one claim.                              *)
THEOREM SentOnceAtATime == Spec => []OneRequestAtOnce
<1>1. HoldInv => OneRequestAtOnce
  <2> SUFFICES ASSUME HoldInv, NEW b \in Claim, NEW c \in Claim,
                      Sending(b), Sending(c), b[1] = c[1]
               PROVE  b = c
    BY DEF OneRequestAtOnce
  <2>1. leased(redis, b[1], b[2]) /\ leased(redis, c[1], c[2])
    BY DEF HoldInv, SendersHold, Holds
  <2> QED
    BY <2>1, OneHolder
<1> QED
  BY <1>1, AlwaysHeld, PTL

(* Until a call of the queue fails, the heartbeat keeps the lease of       *)
(* whoever reports (sender.ts: giveUp), however long the report takes.     *)
THEOREM ReportedUnderLease == Spec => []ReportedByItsHolder
<1>1. HoldInv => ReportedByItsHolder
  BY DEF HoldInv, ReportersHold, ReportedByItsHolder, Holds
<1> QED
  BY <1>1, AlwaysHeld, PTL

-----------------------------------------------------------------------------
(* What the processes do between them is what a durable queue promises:    *)
(* each step is a step of Outbox, or none.                                 *)

(* An insert, or nothing; a removal; an ending.                            *)
InsertsOnly ==
  /\ Holding(redis, redis') /\ UNCHANGED ended
  /\ faults' \in {faults, faults + 1} /\ faults' \in 0..MaxFaults
  /\ \A d \in Delivery : (redis.hash[d] = None /\ redis'.hash[d] # None) => ended[d] = 0

KeptTheSame(d) == redis.hash[d] = None <=> redis'.hash[d] = None

Removes(d) ==
  /\ redis.hash[d] # None /\ redis'.hash[d] = None /\ ended[d] > 0 /\ UNCHANGED ended
  /\ faults' \in {faults, faults + 1}
  /\ \A e \in Delivery \ {d} : KeptTheSame(e)

Ends(d) ==
  /\ redis.hash[d] # None /\ ended[d] <= faults
  /\ ended' = [ended EXCEPT ![d] = @ + 1] /\ UNCHANGED faults
  /\ \A e \in Delivery : KeptTheSame(e)

OwesNoMore == InsertsOnly \/ \E d \in Delivery : Removes(d) \/ Ends(d)

LEMMA OwnKept ==
  ASSUME NEW b \in Claim, OwnCall(b), NEW d \in Delivery,
         d # b[1] \/ ~ leased(redis, b[1], b[2])
  PROVE  KeptTheSame(d)
BY DEF OwnCall, Same, KeptTheSame

LEMMA OwnAddsNone ==
  ASSUME NEW b \in Claim, OwnCall(b), NEW d \in Delivery, redis.hash[d] = None
  PROVE  redis'.hash[d] = None
BY DEF OwnCall, Same, leased

LEMMA OwnCallOwes ==
  ASSUME HoldInv, NEW b \in Claim, OwnCall(b), NoFault \/ \E kind : Fault(kind),
         Holding(redis, redis'), UNCHANGED ended
  PROVE  OwesNoMore
BY FaultsCount, OwnAddsNone DEF OwesNoMore, InsertsOnly

LEMMA DeleteOwes ==
  ASSUME IInv, HoldInv, NEW b \in Claim, Delete(b)
  PROVE  OwesNoMore
<1>1. redis \in Keys /\ b[1] \in Delivery
  BY ClaimsDelivery DEF IInv, RedisKept
<1>2. \A after \in DeleteStops(redis, b[1], b[2])
                     \cup {Deleted(redis, b[1], b[2])}, d \in Delivery :
        (d # b[1] \/ ~ leased(redis, b[1], b[2])) => Same(redis, after, d)
  BY <1>1, LeaseLeaves
<1>3. /\ (redis' = Deleted(redis, b[1], b[2]) /\ NoFault)
           \/ Unanswered(DeleteStops(redis, b[1], b[2]))
      /\ UNCHANGED ended /\ flight[b] # None /\ flight[b].pc \in {"deleting", "removing"}
  BY DEF Delete
<1>4. OwnCall(b) /\ (NoFault \/ \E kind : Fault(kind))
  BY <1>2, <1>3, OutcomeIsOwn
<1>5. CASE redis.hash[b[1]] # None /\ redis'.hash[b[1]] = None
  <2>1. \A e \in Delivery \ {b[1]} : KeptTheSame(e)
    BY <1>4, OwnKept
  <2>2. ended[b[1]] > 0
    BY <1>3 DEF IInv, FlightsKept, EndedFirst
  <2>3. Removes(b[1])
    BY <1>3, <1>4, <1>5, <2>1, <2>2, FaultsCount DEF Removes
  <2> QED
    BY <1>1, <2>3 DEF OwesNoMore
<1>6. CASE ~ (redis.hash[b[1]] # None /\ redis'.hash[b[1]] = None)
  <2>1. Holding(redis, redis')
    BY <1>4, <1>6, OwnKept DEF Holding, KeptTheSame
  <2> QED
    BY <1>3, <1>4, <2>1, OwnCallOwes
<1> QED
  BY <1>5, <1>6

LEMMA SendOwes ==
  ASSUME IInv, HoldInv, NEW b \in Claim, Send(b)
  PROVE  OwesNoMore
<1>1. b[1] \in Delivery /\ redis \in Keys /\ Reached(redis) /\ RedisKept
      /\ Holding(redis, redis)
  BY ClaimsDelivery DEF IInv, RedisKept, Holding
<1>2. CASE Failed(b) \/ Reported(b)
  <2>1. UNCHANGED <<redis, ended, faults>>
    BY <1>2 DEF Failed, Reported
  <2> QED
    BY <1>1, <2>1, QuietCall, OwnCallOwes DEF NoFault
<1>3. CASE Delivered(b)
  <2>1. Sending(b) /\ leased(redis, b[1], b[2])
    BY <1>3 DEF Delivered, Sending, HoldInv, SendersHold, Holds
  <2>2. ended[b[1]] <= faults /\ redis.hash[b[1]] # None
    BY <2>1, EndsOnce DEF leased
  <2>3. Ends(b[1])
    BY <1>3, <2>2 DEF Delivered, Ends, KeptTheSame
  <2> QED
    BY <1>1, <2>3 DEF OwesNoMore
<1>4. CASE ScheduleRetry(b)
  <2>1. /\ \/ redis' = Scheduled(redis, b[1], b[2], Delay) /\ NoFault
           \/ Unanswered(ScheduleStops(redis, b[1], b[2], Delay))
        /\ UNCHANGED ended
    BY <1>4 DEF ScheduleRetry
  <2>2. \A after \in ScheduleStops(redis, b[1], b[2], Delay)
                       \cup {Scheduled(redis, b[1], b[2], Delay)}, d \in Delivery :
          (d # b[1] \/ ~ leased(redis, b[1], b[2])) => Same(redis, after, d)
    BY <1>1, LeaseLeaves
  <2>3. OwnCall(b) /\ (NoFault \/ \E kind : Fault(kind))
    BY <2>1, <2>2, OutcomeIsOwn
  <2>4. Holding(redis, redis')
    <3>1. Delay \in Int
      BY Ticks
    <3>2. \A after \in ScheduleStops(redis, b[1], b[2], Delay)
                         \cup {Scheduled(redis, b[1], b[2], Delay)} :
            after \in Keys /\ Reached(after) /\ Holding(redis, after)
      BY <1>1, <3>1, ScheduledKeeps, ScheduleStopsKeep, ScheduleHolds
    <3> QED
      BY <1>1, <2>1, <3>2, CallOutcome
  <2> QED
    BY <2>1, <2>3, <2>4, OwnCallOwes
<1>5. CASE GiveUp(b) \/ Heartbeat(b)
  <2>1. \/ redis' = Extended(redis, b[1], b[2], leaseMs) /\ NoFault
        \/ Unanswered({Extended(redis, b[1], b[2], leaseMs)})
    BY <1>5 DEF GiveUp, Heartbeat
  <2>2. OwnCall(b) /\ (NoFault \/ \E kind : Fault(kind)) /\ Holding(redis, redis')
    BY <1>1, <2>1, ExtensionIsOwn, ExtensionKeeps
  <2>3. CASE UNCHANGED ended
    BY <2>2, <2>3, OwnCallOwes
  <2>4. CASE ~ UNCHANGED ended
    <3>1. /\ NoFault /\ leased(redis, b[1], b[2]) /\ ended' = [ended EXCEPT ![b[1]] = @ + 1]
          /\ ~ Holds(b)
      BY <1>5, <2>4 DEF GiveUp, Heartbeat, Turn, Holds
    <3>2. ended[b[1]] <= faults /\ redis.hash[b[1]] # None
      BY <3>1, EndsOnce DEF leased
    <3>3. \A e \in Delivery : KeptTheSame(e)
      BY <2>2, OwnAddsNone DEF KeptTheSame, Holding
    <3>4. Ends(b[1])
      BY <3>1, <3>2, <3>3 DEF Ends, NoFault
    <3> QED
      BY <1>1, <3>4 DEF OwesNoMore
  <2> QED
    BY <2>3, <2>4
<1>6. CASE Delete(b)
  BY <1>6, DeleteOwes
<1> QED
  BY <1>2, <1>3, <1>4, <1>5, <1>6 DEF Send

LEMMA WalkOwes ==
  ASSUME IInv, HoldInv, NEW at, NEW among, NEW limit, NEW until \in Int,
         NEW walk \in Walks(redis, at, among, limit), UNCHANGED ended,
         (redis' = Claimed(redis, walk, until) /\ NoFault)
           \/ Unanswered(ClaimStops(redis, walk, until))
  PROVE  OwesNoMore
<1>1. RedisKept /\ redis \in Keys
  BY DEF IInv, RedisKept
<1>2. Holding(redis, redis')
  BY <1>1, WalkKeeps
<1>3. faults' \in 0..MaxFaults /\ faults' \in {faults, faults + 1}
  BY FaultsCount DEF Unanswered
<1>4. ASSUME NEW d \in Delivery, redis.hash[d] = None
      PROVE  redis'.hash[d] = None
  <2>1. d \notin walk.claimed
    BY <1>4, WalkIs
  <2>2. redis' \in ClaimStops(redis, walk, until) \cup {Claimed(redis, walk, until), redis}
    BY DEF Unanswered
  <2>3. CASE redis' = redis
    BY <1>4, <2>3
  <2>4. CASE redis' # redis
    <3>1. Passed(redis, redis', walk, d)
      BY <1>1, <2>1, <2>2, <2>4, WalkPasses
    <3> QED
      BY <1>4, <3>1 DEF Passed
  <2> QED
    BY <2>3, <2>4
<1> QED
  BY <1>2, <1>3, <1>4 DEF OwesNoMore, InsertsOnly

LEMMA ProcessOwes ==
  ASSUME IInv, HoldInv, NEW p \in Process,
         Run(p) \/ close(p) \/ Crash(p) \/ \E e \in Event : accept(p, e)
  PROVE  OwesNoMore
<1>1. CASE PumpOnce(p)
  <2> DEFINE at == -process[p].age
  <2>1. LeaseEnd(at) \in Int
    <3>1. process[p] \in ProcessShape
      BY DEF IInv, ProcessesTyped
    <3> QED
      BY <3>1, Ticks DEF LeaseEnd, ProcessShape
  <2>2. PICK walk \in Walks(redis, at, process[p].keys, process[p].free) :
          (redis' = Claimed(redis, walk, LeaseEnd(at)) /\ NoFault)
            \/ Unanswered(ClaimStops(redis, walk, LeaseEnd(at)))
    BY <1>1 DEF PumpOnce
  <2>3. UNCHANGED ended
    BY <1>1 DEF PumpOnce
  <2> HIDE DEF at
  <2> QED
    BY <2>1, <2>2, <2>3, WalkOwes
<1>2. CASE Sweep(p)
  <2>1. PICK walk \in OrphanWalks(p) :
          (redis' = Claimed(redis, walk, leaseMs) /\ NoFault)
            \/ Unanswered(ClaimStops(redis, walk, leaseMs))
    BY <1>2 DEF Sweep
  <2>2. UNCHANGED ended /\ leaseMs \in Int
    BY <1>2, Ticks DEF Sweep
  <2> QED
    BY <2>1, <2>2, WalkOwes DEF OrphanWalks
<1>3. CASE AskClaim(p) \/ close(p) \/ Closed(p) \/ Crash(p) \/ Start(p)
  <2>1. UNCHANGED <<redis, ended>> /\ (NoFault \/ \E kind : Fault(kind))
    BY <1>3 DEF AskClaim, close, Closed, Crash, Start, NoFault
  <2>2. Holding(redis, redis')
    BY <2>1 DEF Holding
  <2> QED
    BY <2>1, <2>2, FaultsCount DEF OwesNoMore, InsertsOnly
<1>4. ASSUME NEW e \in Event, accept(p, e) PROVE OwesNoMore
  <2> DEFINE its == Delivery \cap ({e} \X process[p].keys)
  <2>1. redis \in Keys /\ Reached(redis) /\ its \in SUBSET Delivery /\ RedisKept
    BY DEF IInv, RedisKept
  <2>2. /\ (redis' = Inserted(redis, its) /\ NoFault) \/ Unanswered(InsertStops(redis, its))
        /\ \A d \in its : queue[d] # None \/ ended[d] = 0
        /\ UNCHANGED ended
    BY <1>4 DEF accept
  <2> HIDE DEF its
  <2>3. \A after \in InsertStops(redis, its) \cup {Inserted(redis, its)} :
          after \in Keys /\ Reached(after) /\ Holding(redis, after)
    BY <2>1, InsertedKeeps, InsertStopsKeep, InsertHolds
  <2>4. Holding(redis, redis')
    BY <2>1, <2>2, <2>3, CallOutcome
  <2>5. faults' \in 0..MaxFaults /\ faults' \in {faults, faults + 1}
    BY <2>2, FaultsCount DEF Unanswered
  <2>6. ASSUME NEW d \in Delivery, redis.hash[d] = None, redis'.hash[d] # None
        PROVE  ended[d] = 0
    <3>1. redis' \in InsertStops(redis, its) \cup {Inserted(redis, its), redis}
      BY <2>2 DEF Unanswered
    <3>2. d \in its
      BY <2>1, <2>6, <3>1 DEF Inserted, InsertStops, NewOf, Keys
    <3> QED
      BY <2>2, <2>6, <3>2, NotHeldIs DEF queue
  <2> QED
    BY <2>2, <2>4, <2>5, <2>6 DEF OwesNoMore, InsertsOnly
<1> QED
  BY <1>1, <1>2, <1>3, <1>4 DEF Run

LEMMA TickOwes ==
  ASSUME IInv, HoldInv, Tick
  PROVE  OwesNoMore
<1>1. redis'.hash = redis.hash /\ UNCHANGED <<ended, faults>>
  BY DEF IInv, RedisKept, Keys, Tick
<1> QED
  BY <1>1, FaultsCount DEF OwesNoMore, InsertsOnly, Holding, NoFault

(* What an outside sees of a delivery.                                     *)
Seen(keys, endings) ==
  [d \in Delivery |-> IF keys.hash[d] # None THEN "kept"
                      ELSE IF endings[d] = 0 THEN "unknown" ELSE "gone"]

LEMMA SeenIs ==
  ASSUME NEW keys \in Keys, Reached(keys), NEW endings
  PROVE  [d \in Delivery |-> IF QueueOf(keys)[d] # None THEN "kept"
                             ELSE IF endings[d] = 0 THEN "unknown" ELSE "gone"]
           = Seen(keys, endings)
BY HeldIs, NotHeldIs DEF Seen

LEMMA OutboxStep ==
  ASSUME IInv, HoldInv, IInv', OwesNoMore
  PROVE  [Promise!Next]_(Promise!vars)
<1> DEFINE status == [d \in Delivery |-> IF queue[d] # None THEN "kept"
                                         ELSE IF ended[d] = 0 THEN "unknown" ELSE "gone"]
<1>1. status = Seen(redis, ended) /\ status' = Seen(redis', ended')
  BY SeenIs DEF IInv, RedisKept, queue
<1>2. ended \in [Delivery -> Nat] /\ faults \in Nat /\ MaxFaults \in Nat
  BY WebhookWorkerAssumption DEF IInv, FlightsKept, HoldInv
<1>3. CASE InsertsOnly
  <2> DEFINE D == {d \in Delivery : redis.hash[d] = None /\ redis'.hash[d] # None}
  <2>1. status' = [d \in Delivery |-> IF d \in D THEN "kept" ELSE status[d]]
    BY <1>1, <1>3 DEF InsertsOnly, Seen, Holding
  <2>2. \A d \in D : status[d] = "unknown"
    BY <1>1, <1>3 DEF InsertsOnly, Seen
  <2>3. D \in SUBSET Delivery
    OBVIOUS
  <2>4. CASE faults' = faults + 1
    <3>1. faults < MaxFaults /\ UNCHANGED ended
      BY <1>2, <1>3, <2>4 DEF InsertsOnly
    <3>2. Promise!Fault
      <4> HIDE DEF D
      <4> QED  BY <2>1, <2>2, <2>3, <2>4, <3>1 DEF Promise!Fault
    <3> QED
      BY <3>2 DEF Promise!Next
  <2>5. CASE faults' = faults /\ D # {}
    <3>1. UNCHANGED <<ended, faults>>
      BY <1>3, <2>5 DEF InsertsOnly
    <3>2. PICK S \in SUBSET Delivery : S = D
      BY <2>3
    <3>3. Promise!Insert(S)
      <4> HIDE DEF D
      <4> QED  BY <2>1, <2>2, <2>5, <3>1, <3>2 DEF Promise!Insert
    <3> QED
      BY <3>3 DEF Promise!Next
  <2>6. CASE faults' = faults /\ D = {}
    <3>1. UNCHANGED <<ended, faults>>
      BY <1>3, <2>6 DEF InsertsOnly
    <3>2. status' = status
      BY <2>1, <2>6
    <3> QED
      BY <3>1, <3>2 DEF Promise!vars
  <2> QED
    BY <1>3, <2>4, <2>5, <2>6 DEF InsertsOnly
<1>4. ASSUME NEW d \in Delivery, Removes(d)
      PROVE  [Promise!Next]_(Promise!vars)
  <2>1. status[d] = "kept"
    BY <1>1, <1>4 DEF Removes, Seen
  <2>2. status' = [status EXCEPT ![d] = "gone"]
    <3>1. Seen(redis', ended') = [Seen(redis, ended) EXCEPT ![d] = "gone"]
      <4>1. ASSUME NEW e \in Delivery
            PROVE  Seen(redis', ended')[e] = [Seen(redis, ended) EXCEPT ![d] = "gone"][e]
        <5>1. CASE e = d
          BY <1>2, <1>4, <5>1 DEF Removes, Seen
        <5>2. CASE e # d
          BY <1>4, <5>2 DEF Removes, Seen, KeptTheSame
        <5> QED
          BY <5>1, <5>2
      <4> QED
        BY <4>1 DEF Seen
    <3> QED
      <4> HIDE DEF status
      <4> QED  BY <1>1, <3>1
  <2>3. Promise!Remove(d)
    BY <1>4, <2>1, <2>2 DEF Removes, Promise!Remove
  <2> QED
    BY <2>3 DEF Promise!Next
<1>5. ASSUME NEW d \in Delivery, Ends(d)
      PROVE  [Promise!Next]_(Promise!vars)
  <2>1. status[d] = "kept"
    BY <1>1, <1>5 DEF Ends, Seen
  <2>2. status' = status
    BY <1>1, <1>2, <1>5 DEF Ends, Seen, KeptTheSame
  <2>3. Promise!End(d)
    BY <1>5, <2>1, <2>2 DEF Ends, Promise!End
  <2> QED
    BY <2>3 DEF Promise!Next
<1> QED
  BY <1>3, <1>4, <1>5 DEF OwesNoMore

LEMMA StepOwes ==
  ASSUME IInv, HoldInv, [Next]_vars
  PROVE  [Promise!Next]_(Promise!vars)
<1>1. CASE UNCHANGED vars
  BY <1>1 DEF vars, Promise!vars, queue
<1>2. CASE Next
  <2>1. IInv'
    BY <1>2, StepIInv
  <2>2. OwesNoMore
    BY <1>2, ProcessOwes, SendOwes, TickOwes DEF Next
  <2> QED
    BY <2>1, <2>2, OutboxStep
<1> QED
  BY <1>1, <1>2

LEMMA InitOwes == Init => Promise!Init
BY DEF Init, Promise!Init, NoKeys, queue, QueueOf

(* The processes, their claims and the scripts implement a durable queue:  *)
(* a delivery is kept from its insert until it ended, and it ends again    *)
(* only as often as something failed (README, "At least once").            *)
THEOREM ImplementsOutbox == Spec => Promise!Init /\ [][Promise!Next]_(Promise!vars)
<1>1. Init => Promise!Init
  BY InitOwes
<1>2. (IInv /\ HoldInv) /\ [Next]_vars => [Promise!Next]_(Promise!vars)
  BY StepOwes
<1> QED
  BY <1>1, <1>2, AlwaysHeld, PTL DEF Spec

-----------------------------------------------------------------------------
(***************************************************************************)
(* The worker of one process over the queue in memory (MemoryWorker), for  *)
(* any deliveries, any concurrency and any number of retries: once close() *)
(* resolved, every delivery has ended, once.                               *)
(*                                                                         *)
(* The invariant is of the jobs queued: at most one for each thing that    *)
(* waits (a delivery's flight, its insert, the pump, close()), and what    *)
(* the state is while it is queued.  close() may stop the pump because a   *)
(* run that claimed nothing, with a slot free, left nothing due for the    *)
(* first time (Owed): a wake during the run makes it run again, and where  *)
(* one comes between the run's end and its finally, close() does not hold  *)
(* the pump yet and the finally is ahead of it (PumpOk).  The job that     *)
(* hears the pump is idle runs before the next claim's answer does, by the *)
(* hops each has left (IdledFirst).                                        *)
(***************************************************************************)

VARIABLES jobs, place, attempts, inserting, pump, flightOf, reminders, closer, outcome

Mem == INSTANCE MemoryWorker WITH queue <- place, flight <- flightOf, ended <- outcome

(* Its count of a set is the one the library's theorems are about.         *)
LEMMA SameCardinality == \A S : Mem!Cardinality(S) = Cardinality(S)
  BY DEF Mem!Cardinality, Cardinality

-----------------------------------------------------------------------------
(* Which jobs are queued, wherever they are.  A mark says whose a job is.  *)

Mark(job) == <<job.kind, job.of>>

Has(js, K)    == \E i \in DOMAIN js : Mark(js[i]) \in K
Single(js, K) == \A i, j \in DOMAIN js : Mark(js[i]) \in K /\ Mark(js[j]) \in K => i = j

(* Each job of K is before each of L in the queue.                         *)
Before(js, K, L) == \A i, j \in DOMAIN js : Mark(js[i]) \in K /\ Mark(js[j]) \in L => i < j

(* Each job of K runs before each of L: a job that hops goes to the back.  *)
Sooner(js, K, L) ==
  \A i, j \in DOMAIN js : Mark(js[i]) \in K /\ Mark(js[j]) \in L =>
    js[i].hops < js[j].hops \/ (js[i].hops = js[j].hops /\ i < j)

(* What a step of others leaves of the jobs of X.                          *)
Untouched(X) ==
  \A K \in SUBSET X : /\ Has(jobs, K)' <=> Has(jobs, K)
                      /\ Single(jobs, K) => Single(jobs, K)'

OfDelivery == {"listen", "inserted", "done", "elem", "delivered", "failed", "remind", "freed"}

(* The jobs there are, and how often each may hop.                         *)
Jobs ==
  {job \in [kind : Mem!Kinds, of : Delivery \cup {None}, hops : 0..4] :
     /\ job.of \in IF job.kind \in OfDelivery THEN Delivery ELSE {None}
     /\ job.kind \in {"answered", "idled"} => job.hops <= 2
     /\ job.kind \in {"decide", "finally"} => job.hops = 0}

LEMMA JobQueued ==
  ASSUME NEW kind, NEW d, NEW hops, NEW K
  PROVE  /\ Has(Mem!Job(kind, d, hops), K) <=> <<kind, d>> \in K
         /\ Single(Mem!Job(kind, d, hops), K)
         /\ [kind |-> kind, of |-> d, hops |-> hops] \in Jobs => Mem!Job(kind, d, hops) \in Seq(Jobs)
         /\ Mem!Job(kind, d, hops) # <<>>
<1> DEFINE s == Mem!Job(kind, d, hops)
<1>1. DOMAIN s = {1} /\ s[1] = [kind |-> kind, of |-> d, hops |-> hops] /\ s # <<>>
  BY DEF Mem!Job
<1>2. Mark(s[1]) = <<kind, d>>
  BY <1>1 DEF Mark
<1> HIDE DEF s
<1>3. Has(s, K) <=> <<kind, d>> \in K
  BY <1>1, <1>2 DEF Has
<1>4. Single(s, K)
  BY <1>1 DEF Single
<1>5. [kind |-> kind, of |-> d, hops |-> hops] \in Jobs => s \in Seq(Jobs)
  BY DEF s, Mem!Job
<1> QED
  BY <1>1, <1>3, <1>4, <1>5 DEF s

LEMMA NoJobQueued ==
  ASSUME NEW K
  PROVE  ~Has(<<>>, K) /\ Single(<<>>, K) /\ <<>> \in Seq(Jobs)
  BY DEF Has, Single

LEMMA BothQueued ==
  ASSUME NEW s \in Seq(Jobs), NEW t \in Seq(Jobs), NEW K
  PROVE  /\ s \o t \in Seq(Jobs)
         /\ Has(s \o t, K) <=> Has(s, K) \/ Has(t, K)
         /\ Single(s, K) /\ Single(t, K) /\ ~(Has(s, K) /\ Has(t, K)) => Single(s \o t, K)
<1> DEFINE r == s \o t
<1>1. /\ r \in Seq(Jobs) /\ Len(r) = Len(s) + Len(t) /\ Len(s) \in Nat /\ Len(t) \in Nat
      /\ DOMAIN s = 1..Len(s) /\ DOMAIN t = 1..Len(t) /\ DOMAIN r = 1..Len(r)
  OBVIOUS
<1>2. /\ \A i \in DOMAIN s : i \in DOMAIN r /\ r[i] = s[i]
      /\ \A i \in DOMAIN t : Len(s) + i \in DOMAIN r /\ r[Len(s) + i] = t[i]
  OBVIOUS
<1>3. \A i \in DOMAIN r : \/ i \in DOMAIN s /\ r[i] = s[i]
                          \/ i - Len(s) \in DOMAIN t /\ r[i] = t[i - Len(s)]
  OBVIOUS
<1> HIDE DEF r
<1>4. Has(r, K) <=> Has(s, K) \/ Has(t, K)
  <2>1. Has(s, K) \/ Has(t, K) => Has(r, K)
    BY <1>2 DEF Has
  <2>2. Has(r, K) => Has(s, K) \/ Has(t, K)
    BY <1>3 DEF Has
  <2> QED
    BY <2>1, <2>2
<1>5. ASSUME Single(s, K), Single(t, K), ~(Has(s, K) /\ Has(t, K))
      PROVE  Single(r, K)
  BY <1>1, <1>3, <1>5 DEF Single, Has
<1> QED
  BY <1>1, <1>4, <1>5 DEF r

-----------------------------------------------------------------------------
(* A job runs to its next await: it leaves, and queues what it queues.     *)

LEMMA HeadLeaves ==
  ASSUME NEW js \in Seq(Jobs), js # <<>>
  PROVE  /\ Head(js) \in Jobs /\ Head(js) = js[1] /\ 1 \in DOMAIN js
         /\ Tail(js) \in Seq(Jobs)
         /\ \A K : /\ Has(js, K) <=> Mark(Head(js)) \in K \/ Has(Tail(js), K)
                   /\ Single(js, K) => Single(Tail(js), K)
                   /\ Single(js, K) /\ Mark(Head(js)) \in K => ~Has(Tail(js), K)
<1> DEFINE t == Tail(js)
<1>1. /\ Head(js) \in Jobs /\ Head(js) = js[1] /\ 1 \in DOMAIN js
      /\ t \in Seq(Jobs) /\ DOMAIN js = 1..Len(js) /\ Len(js) \in Nat
      /\ DOMAIN t = 1..(Len(js) - 1)
  OBVIOUS
<1>2. \A i \in DOMAIN t : i + 1 \in DOMAIN js /\ t[i] = js[i + 1]
  OBVIOUS
<1>3. \A i \in DOMAIN js \ {1} : i - 1 \in DOMAIN t /\ js[i] = t[i - 1]
  OBVIOUS
<1> HIDE DEF t
<1>4. ASSUME NEW K
      PROVE  /\ Has(js, K) <=> Mark(Head(js)) \in K \/ Has(t, K)
             /\ Single(js, K) => Single(t, K)
             /\ Single(js, K) /\ Mark(Head(js)) \in K => ~Has(t, K)
  <2>1. Has(js, K) => Mark(Head(js)) \in K \/ Has(t, K)
    BY <1>1, <1>3 DEF Has
  <2>2. Mark(Head(js)) \in K \/ Has(t, K) => Has(js, K)
    BY <1>1, <1>2 DEF Has
  <2>3. ASSUME Single(js, K)  PROVE Single(t, K)
    <3> SUFFICES ASSUME NEW i \in DOMAIN t, NEW j \in DOMAIN t, Mark(t[i]) \in K, Mark(t[j]) \in K
                 PROVE  i = j
      BY DEF Single
    <3>1. i + 1 = j + 1
      BY <1>2, <2>3 DEF Single
    <3> QED
      BY <1>1, <3>1
  <2>4. ASSUME Single(js, K), Mark(Head(js)) \in K, Has(t, K)  PROVE FALSE
    <3>1. PICK i \in DOMAIN t : Mark(t[i]) \in K
      BY <2>4 DEF Has
    <3>2. i + 1 = 1
      BY <1>1, <1>2, <2>4, <3>1 DEF Single
    <3> QED
      BY <1>1, <3>2
  <2> QED
    BY <2>1, <2>2, <2>3, <2>4
<1> QED
  BY <1>1, <1>4 DEF t

LEMMA Moves ==
  ASSUME NEW later \in Seq(Jobs), NEW js \in Seq(Jobs), js # <<>>, NEW kind, NEW d,
         Mark(Head(js)) = <<kind, d>>, NEW new \in Seq(Jobs), later = Tail(js) \o new
  PROVE  \A K :
           /\ <<kind, d>> \in K => Has(js, K)
           /\ Has(later, K) => Has(new, K) \/ Has(js, K)
           /\ Has(new, K) => Has(later, K)
           /\ <<kind, d>> \notin K /\ Has(js, K) => Has(later, K)
           /\ Single(js, K) /\ <<kind, d>> \in K /\ Has(later, K) => Has(new, K)
           /\ /\ Single(js, K) /\ Single(new, K)
              /\ Has(new, K) => ~Has(js, K) \/ <<kind, d>> \in K
              => Single(later, K)
<1> SUFFICES ASSUME NEW K
             PROVE  /\ <<kind, d>> \in K => Has(js, K)
                    /\ Has(later, K) => Has(new, K) \/ Has(js, K)
                    /\ Has(new, K) => Has(later, K)
                    /\ <<kind, d>> \notin K /\ Has(js, K) => Has(later, K)
                    /\ Single(js, K) /\ <<kind, d>> \in K /\ Has(later, K) => Has(new, K)
                    /\ /\ Single(js, K) /\ Single(new, K)
                       /\ Has(new, K) => ~Has(js, K) \/ <<kind, d>> \in K
                       => Single(later, K)
  OBVIOUS
<1>1. /\ Tail(js) \in Seq(Jobs) /\ Has(js, K) <=> <<kind, d>> \in K \/ Has(Tail(js), K)
      /\ Single(js, K) => Single(Tail(js), K)
      /\ Single(js, K) /\ <<kind, d>> \in K => ~Has(Tail(js), K)
  BY HeadLeaves
<1>2. /\ Has(later, K) <=> Has(Tail(js), K) \/ Has(new, K)
      /\ Single(Tail(js), K) /\ Single(new, K) /\ ~(Has(Tail(js), K) /\ Has(new, K))
           => Single(later, K)
  <2> DEFINE t == Tail(js)
  <2>1. t \in Seq(Jobs) /\ later = t \o new
    BY <1>1
  <2> HIDE DEF t
  <2>2. /\ Has(t \o new, K) <=> Has(t, K) \/ Has(new, K)
        /\ Single(t, K) /\ Single(new, K) /\ ~(Has(t, K) /\ Has(new, K)) => Single(t \o new, K)
    BY <2>1, BothQueued
  <2> QED
    BY <2>1, <2>2 DEF t
<1> QED
  BY <1>1, <1>2

(* What is queued beside no job that leaves.                               *)
LEMMA Joins ==
  ASSUME NEW js \in Seq(Jobs), NEW new \in Seq(Jobs), NEW later, later = js \o new
  PROVE  /\ later \in Seq(Jobs)
         /\ \A K : /\ Has(later, K) <=> Has(js, K) \/ Has(new, K)
                   /\ /\ Single(js, K) /\ Single(new, K)
                      /\ Has(new, K) => ~Has(js, K)
                      => Single(later, K)
  BY BothQueued

LEMMA JobHops ==
  ASSUME NEW js \in Seq(Jobs), NEW i \in DOMAIN js
  PROVE  js[i] \in Jobs /\ js[i].hops \in 0..4
<1>1. js[i] \in Jobs
  OBVIOUS
<1> QED
  BY <1>1 DEF Jobs

LEMMA OneLess ==
  ASSUME NEW a \in Int, NEW b \in Int
  PROVE  /\ a <= b => a < b \/ a = b
         /\ a < b \/ a = b => a - 1 < b
         /\ a < b => a < b - 1 \/ a = b - 1
  OBVIOUS

(* Orders are kept where only the later kind is queued.                    *)
LEMMA OrderJoins ==
  ASSUME NEW js \in Seq(Jobs), NEW new \in Seq(Jobs), NEW later, later = js \o new,
         NEW K, NEW L, ~Has(new, K)
  PROVE  /\ Before(js, K, L) => Before(later, K, L)
         /\ /\ Sooner(js, K, L)
            /\ \A i \in DOMAIN js, j \in DOMAIN new :
                 Mark(js[i]) \in K /\ Mark(new[j]) \in L => js[i].hops <= new[j].hops
            => Sooner(later, K, L)
<1>1. /\ later \in Seq(Jobs) /\ Len(later) = Len(js) + Len(new) /\ Len(js) \in Nat
      /\ Len(new) \in Nat /\ DOMAIN js = 1..Len(js) /\ DOMAIN new = 1..Len(new)
      /\ DOMAIN later = 1..Len(later)
  OBVIOUS
<1>2. \A i \in DOMAIN later : \/ i \in DOMAIN js /\ later[i] = js[i]
                              \/ /\ i - Len(js) \in DOMAIN new /\ later[i] = new[i - Len(js)]
                                 /\ i > Len(js)
  OBVIOUS
<1>3. \A i \in DOMAIN later : Mark(later[i]) \in K => i \in DOMAIN js /\ later[i] = js[i]
  BY <1>2 DEF Has
<1>4. \A i, j \in DOMAIN later : i \in DOMAIN js /\ j > Len(js) => i < j
  BY <1>1
<1>5. Before(js, K, L) => Before(later, K, L)
  BY <1>2, <1>3, <1>4 DEF Before
<1>6. ASSUME Sooner(js, K, L),
             \A i \in DOMAIN js, j \in DOMAIN new :
               Mark(js[i]) \in K /\ Mark(new[j]) \in L => js[i].hops <= new[j].hops
      PROVE  Sooner(later, K, L)
  <2> SUFFICES ASSUME NEW i \in DOMAIN later, NEW j \in DOMAIN later,
                      Mark(later[i]) \in K, Mark(later[j]) \in L
               PROVE  \/ later[i].hops < later[j].hops
                      \/ later[i].hops = later[j].hops /\ i < j
    BY DEF Sooner
  <2>1. i \in DOMAIN js /\ later[i] = js[i]
    BY <1>3
  <2>2. CASE j \in DOMAIN js /\ later[j] = js[j]
    BY <1>6, <2>1, <2>2 DEF Sooner
  <2>3. CASE j - Len(js) \in DOMAIN new /\ later[j] = new[j - Len(js)] /\ j > Len(js)
    <3>1. later[i].hops <= later[j].hops /\ i < j
      BY <1>4, <1>6, <2>1, <2>3
    <3>2. later[i].hops \in 0..4 /\ later[j].hops \in 0..4
      BY <1>1, JobHops
    <3>3. later[i].hops \in Int /\ later[j].hops \in Int
      BY <3>2
    <3> QED
      BY <3>1, <3>3, OneLess, Zenon
  <2> QED
    BY <1>2, <2>2, <2>3
<1> QED
  BY <1>5, <1>6

(* And kept when a job leaves; nothing is before the one that runs.        *)
LEMMA OrderLeaves ==
  ASSUME NEW js \in Seq(Jobs), js # <<>>, NEW K, NEW L
  PROVE  /\ Before(js, K, L) => Before(Tail(js), K, L)
         /\ Sooner(js, K, L) => Sooner(Tail(js), K, L)
         /\ Before(js, K, L) /\ Mark(Head(js)) \in L => ~Has(js, K)
         /\ Sooner(js, K, L) /\ Mark(Head(js)) \in L /\ Head(js).hops = 0 => ~Has(js, K)
<1> DEFINE t == Tail(js)
<1>1. /\ Head(js) = js[1] /\ 1 \in DOMAIN js
      /\ t \in Seq(Jobs) /\ DOMAIN js = 1..Len(js) /\ Len(js) \in Nat
      /\ DOMAIN t = 1..(Len(js) - 1) /\ \A i \in DOMAIN js : js[i] \in Jobs
  OBVIOUS
<1>2. \A i \in DOMAIN t : i + 1 \in DOMAIN js /\ t[i] = js[i + 1] /\ i \in Nat
  OBVIOUS
<1> HIDE DEF t
<1>3. \A i, j \in DOMAIN t : i + 1 < j + 1 <=> i < j
  BY <1>2
<1>4. Before(js, K, L) => Before(t, K, L)
  BY <1>2, <1>3 DEF Before
<1>5. Sooner(js, K, L) => Sooner(t, K, L)
  BY <1>2, <1>3 DEF Sooner
<1>6. \A i \in DOMAIN js : ~(i < 1) /\ js[i].hops \in Nat
  BY <1>1 DEF Jobs
<1>7. Before(js, K, L) /\ Mark(Head(js)) \in L => ~Has(js, K)
  BY <1>1, <1>6 DEF Before, Has
<1>8. Sooner(js, K, L) /\ Mark(Head(js)) \in L /\ Head(js).hops = 0 => ~Has(js, K)
  <2> SUFFICES ASSUME Sooner(js, K, L), Mark(js[1]) \in L, js[1].hops = 0,
                      NEW i \in DOMAIN js, Mark(js[i]) \in K
               PROVE  FALSE
    BY <1>1 DEF Has
  <2>1. js[i].hops < js[1].hops \/ (js[i].hops = js[1].hops /\ i < 1)
    BY <1>1 DEF Sooner
  <2> QED
    BY <1>6, <2>1
<1> QED
  BY <1>4, <1>5, <1>7, <1>8 DEF t

LEMMA OrderMoves ==
  ASSUME NEW js \in Seq(Jobs), js # <<>>, NEW new \in Seq(Jobs), NEW later,
         later = Tail(js) \o new, NEW K, NEW L, ~Has(new, K)
  PROVE  /\ Before(js, K, L) => Before(later, K, L)
         /\ /\ Sooner(js, K, L)
            /\ \A i \in DOMAIN js, j \in DOMAIN new :
                 Mark(js[i]) \in K /\ Mark(new[j]) \in L => js[i].hops <= new[j].hops
            => Sooner(later, K, L)
<1> DEFINE t == Tail(js)
<1>1. /\ t \in Seq(Jobs) /\ DOMAIN js = 1..Len(js) /\ Len(js) \in Nat
      /\ DOMAIN t = 1..(Len(js) - 1)
      /\ \A i \in DOMAIN t : i + 1 \in DOMAIN js /\ t[i] = js[i + 1]
  OBVIOUS
<1>2. /\ Before(js, K, L) => Before(t, K, L)
      /\ Sooner(js, K, L) => Sooner(t, K, L)
  BY OrderLeaves
<1> HIDE DEF t
<1>3. (\A i \in DOMAIN js, j \in DOMAIN new :
         Mark(js[i]) \in K /\ Mark(new[j]) \in L => js[i].hops <= new[j].hops)
      => \A i \in DOMAIN t, j \in DOMAIN new :
           Mark(t[i]) \in K /\ Mark(new[j]) \in L => t[i].hops <= new[j].hops
  BY <1>1
<1>4. later = t \o new
  BY DEF t
<1>5. /\ Before(t, K, L) => Before(later, K, L)
      /\ /\ Sooner(t, K, L)
         /\ \A i \in DOMAIN t, j \in DOMAIN new :
              Mark(t[i]) \in K /\ Mark(new[j]) \in L => t[i].hops <= new[j].hops
         => Sooner(later, K, L)
  BY <1>1, <1>4, OrderJoins
<1> QED
  BY <1>2, <1>3, <1>5

(* A promise reaction that only passes a settlement on: the job goes to    *)
(* the back, and what runs before what is as it was.                       *)
LEMMA HopKeeps ==
  ASSUME NEW js \in Seq(Jobs), js # <<>>, Head(js).hops > 0, NEW later,
         later = Append(Tail(js), [Head(js) EXCEPT !.hops = @ - 1])
  PROVE  /\ later \in Seq(Jobs)
         /\ \A K : /\ Has(later, K) <=> Has(js, K)
                   /\ Single(js, K) => Single(later, K)
         /\ \A K, L : Sooner(js, K, L) => Sooner(later, K, L)
         /\ \A K, L : Before(js, K, L) /\ Mark(Head(js)) \notin K => Before(later, K, L)
<1> DEFINE job == [Head(js) EXCEPT !.hops = @ - 1]
           t == Tail(js)
<1>1. Head(js) \in Jobs /\ t \in Seq(Jobs)
  OBVIOUS
<1>2. job \in Jobs /\ Mark(job) = Mark(Head(js)) /\ job.hops = Head(js).hops - 1
  BY <1>1 DEF Jobs, Mark
<1>3. <<job>> \in Seq(Jobs) /\ DOMAIN <<job>> = {1} /\ <<job>>[1] = job
  BY <1>2
<1>4. later = t \o <<job>>
  <2> HIDE DEF job, t
  <2>1. Append(t, job) = t \o <<job>>
    BY <1>1, <1>2
  <2> QED
    BY <2>1 DEF job, t
<1> HIDE DEF job, t
<1>5. \A K : /\ Has(<<job>>, K) <=> Mark(Head(js)) \in K
             /\ Single(<<job>>, K)
  BY <1>2, <1>3 DEF Has, Single
<1>6. /\ later \in Seq(Jobs)
      /\ \A K : /\ Has(later, K) <=> Has(t, K) \/ Has(<<job>>, K)
                /\ Single(t, K) /\ Single(<<job>>, K) /\ (Has(<<job>>, K) => ~Has(t, K))
                     => Single(later, K)
  BY <1>1, <1>3, <1>4, Joins
<1>7. \A K : /\ Has(js, K) <=> Mark(Head(js)) \in K \/ Has(t, K)
             /\ Single(js, K) => Single(t, K)
             /\ Single(js, K) /\ Mark(Head(js)) \in K => ~Has(t, K)
  BY HeadLeaves DEF t
<1>8. \A K : /\ Has(later, K) <=> Has(js, K)
             /\ Single(js, K) => Single(later, K)
  BY <1>5, <1>6, <1>7
<1>9. ASSUME NEW K, NEW L, Before(js, K, L), Mark(Head(js)) \notin K
      PROVE  Before(later, K, L)
  BY <1>1, <1>3, <1>4, <1>5, <1>9, OrderMoves DEF t
<1>10. ASSUME NEW K, NEW L, Sooner(js, K, L)
       PROVE  Sooner(later, K, L)
  <2>1. /\ js[1] = Head(js) /\ 1 \in DOMAIN js /\ DOMAIN js = 1..Len(js) /\ Len(js) \in Nat
        /\ DOMAIN t = 1..(Len(js) - 1) /\ \A i \in DOMAIN t : t[i] = js[i + 1]
    BY DEF t
  <2>2. /\ DOMAIN later = 1..Len(js) /\ later[Len(js)] = job
        /\ \A i \in DOMAIN later : i # Len(js) =>
             i \in DOMAIN t /\ later[i] = js[i + 1] /\ i + 1 \in DOMAIN js
    BY <1>1, <1>4, <2>1
  <2>3. \A i \in DOMAIN js : js[i].hops \in Int
    BY JobHops
  <2> SUFFICES ASSUME NEW i \in DOMAIN later, NEW j \in DOMAIN later,
                      Mark(later[i]) \in K, Mark(later[j]) \in L
               PROVE  \/ later[i].hops < later[j].hops
                      \/ later[i].hops = later[j].hops /\ i < j
    BY DEF Sooner
  <2>4. CASE i = Len(js)
    <3>1. Mark(js[1]) \in K /\ later[i].hops = js[1].hops - 1
      BY <1>2, <2>1, <2>2, <2>4
    <3>2. CASE j = Len(js)
      <4>1. js[1].hops < js[1].hops \/ (js[1].hops = js[1].hops /\ 1 < 1)
        BY <1>2, <1>10, <2>1, <2>2, <3>1, <3>2 DEF Sooner
      <4> QED
        BY <2>1, <2>3, <4>1
    <3>3. CASE j # Len(js)
      <4>1. Mark(js[j + 1]) \in L /\ j + 1 \in DOMAIN js /\ later[j].hops = js[j + 1].hops
        BY <2>2, <3>3
      <4>2. js[1].hops < js[j + 1].hops \/ (js[1].hops = js[j + 1].hops /\ 1 < j + 1)
        BY <1>10, <2>1, <3>1, <4>1 DEF Sooner
      <4>3. js[1].hops \in Int /\ js[j + 1].hops \in Int
        BY <2>1, <2>3, <4>1
      <4>4. js[1].hops - 1 < js[j + 1].hops
        BY <4>2, <4>3, OneLess
      <4> QED
        BY <3>1, <4>1, <4>4
    <3> QED
      BY <3>2, <3>3
  <2>5. CASE i # Len(js)
    <3>1. /\ Mark(js[i + 1]) \in K /\ i + 1 \in DOMAIN js /\ later[i].hops = js[i + 1].hops
          /\ i < Len(js)
      BY <2>1, <2>2, <2>5
    <3>2. CASE j = Len(js)
      <4>1. Mark(js[1]) \in L /\ later[j].hops = js[1].hops - 1
        BY <1>2, <2>1, <2>2, <3>2
      <4>2. js[i + 1].hops < js[1].hops
        <5>1. \/ js[i + 1].hops < js[1].hops
              \/ js[i + 1].hops = js[1].hops /\ i + 1 < 1
          BY <1>10, <2>1, <3>1, <4>1 DEF Sooner
        <5> QED
          BY <2>2, <5>1
      <4> QED
        <5>1. js[i + 1].hops \in Int /\ js[1].hops \in Int
          BY <2>1, <2>3, <3>1
        <5>2. js[i + 1].hops < js[1].hops - 1 \/ js[i + 1].hops = js[1].hops - 1
          BY <4>2, <5>1, OneLess
        <5>3. i < j
          BY <2>1, <3>1, <3>2
        <5> QED
          BY <3>1, <4>1, <5>2, <5>3
    <3>3. CASE j # Len(js)
      <4>1. Mark(js[j + 1]) \in L /\ j + 1 \in DOMAIN js /\ later[j].hops = js[j + 1].hops
        BY <2>2, <3>3
      <4>2. \/ js[i + 1].hops < js[j + 1].hops
            \/ js[i + 1].hops = js[j + 1].hops /\ i + 1 < j + 1
        BY <1>10, <3>1, <4>1 DEF Sooner
      <4> QED
        BY <2>1, <2>2, <3>1, <4>1, <4>2
    <3> QED
      BY <3>2, <3>3
  <2> QED
    BY <2>4, <2>5
<1> QED
  BY <1>6, <1>8, <1>9, <1>10

-----------------------------------------------------------------------------
(* The inductive invariant.                                                *)

Its(kind, d) == {<<kind, d>>}
Only(kind)   == {<<kind, None>>}

Pumps      == {"answered", "decide", "finally"} \X {None}
Closers    == {"flush", "afterIdle", "flushed", "stopped", "abandon"} \X {None}
Flights(d) == {"delivered", "failed", "remind", "freed"} \X {d}
MarksOf(d) == OfDelivery \X {d}

Accepted == {d \in Delivery : place[d] # "none"}

(* Due for the first time, and the wake of its insert has been.            *)
Owed == {d \in Delivery : place[d] = "due" /\ attempts[d] = 0 /\ inserting[d] # "pending"}

(* A delivery waits for one job at most, and ends as it leaves the queue.  *)
JobsOf(d) ==
  /\ Single(jobs, Flights(d)) /\ Single(jobs, Its("listen", d))
  /\ Single(jobs, Its("inserted", d)) /\ Single(jobs, Its("elem", d))
  /\ Has(jobs, Flights(d)) <=> flightOf[d] = "settling"
  /\ Has(jobs, Its("listen", d)) => place[d] = "none" /\ outcome[d].times = 0
  /\ Has(jobs, Its("inserted", d)) <=> inserting[d] = "pending"
  /\ Has(jobs, Its("done", d)) \/ Has(jobs, Its("elem", d)) =>
       place[d] # "none" /\ inserting[d] # "pending"
  /\ Has(jobs, Its("delivered", d)) \/ Has(jobs, Its("failed", d)) => place[d] = "leased"
  /\ Has(jobs, Its("remind", d)) => place[d] = "later"
  /\ Has(jobs, Its("freed", d)) => place[d] \in {"later", "gone"}

Placed(d) ==
  /\ place[d] \in {"none", "due"} => flightOf[d] = "none"
  /\ place[d] \in {"later", "gone"} => flightOf[d] \in {"none", "settling"}
  /\ place[d] = "leased" => (flightOf[d] = "none" <=> d \in pump.batch)
  /\ place[d] # "leased" => d \notin pump.batch
  /\ place[d] = "none" => attempts[d] = 0 /\ outcome[d].times \in {0, 1} /\ inserting[d] = "no"
  /\ place[d] \in {"due", "later"} => outcome[d].times = 0 /\ attempts[d] <= Retries
  /\ place[d] \in {"later", "leased"} => attempts[d] > 0
  /\ place[d] = "leased" => outcome[d].times = IF flightOf[d] = "reporting" THEN 1 ELSE 0
  /\ place[d] = "gone" => outcome[d].times = 1
  /\ place[d] # "none" /\ outcome[d].why = "closed" => attempts[d] > 0
  /\ outcome[d].times = 0 => outcome[d].why = "no"

(* close() waits for the inserts that were under way.                      *)
AwaitedInsert(d) ==
  /\ Has(jobs, Its("elem", d)) => closer.pc = "inserting" /\ d \in closer.waiting
  /\ inserting[d] = "pending" =>
       closer.pc = "open" \/ (closer.pc = "inserting" /\ d \in closer.waiting)

DeliveryOk(d) == JobsOf(d) /\ Placed(d) /\ AwaitedInsert(d)

(* The pump has one job while it is pumping, and does not forget what is   *)
(* due: but for a wake between the end of a run and its finally, which     *)
(* close() does not come before.                                           *)
PumpOk ==
  LET flying == Cardinality(Mem!InFlight(flightOf)) IN
  /\ Single(jobs, Pumps)
  /\ pump.pumping <=> Has(jobs, Pumps)
  /\ Has(jobs, Only("answered")) =>
       /\ pump.free \in 1..concurrency /\ flying + pump.free <= concurrency
       /\ Cardinality(pump.batch) <= pump.free
       /\ pump.again \/ pump.batch # {} \/ Owed = {}
  /\ ~Has(jobs, Only("answered")) =>
       /\ pump.batch = {} /\ flying <= concurrency
       /\ pump.claimedNothing => flying < concurrency
  /\ Has(jobs, Only("decide")) => pump.again \/ ~pump.claimedNothing \/ Owed = {}
  /\ Has(jobs, Only("finally")) =>
       \/ ~pump.claimedNothing \/ Owed = {}
       \/ ~pump.held /\ Before(jobs, Only("finally"), Only("flush"))
  /\ pump.held /\ ~pump.pumping => ~pump.claimedNothing \/ Owed = {}
  /\ pump.stopped => Owed = {}

(* What waits until the pump is idle hears of it before it pumps again.    *)
IdledFirst ==
  /\ Single(jobs, Only("idled"))
  /\ Has(jobs, Only("idled")) =>
       /\ ~Has(jobs, Only("decide")) /\ ~Has(jobs, Only("finally"))
       /\ closer.pc \in {"idle", "stop"}
  /\ Sooner(jobs, Only("idled"), Only("answered"))

(* close() is in one place: one job of it is queued, or it awaits.         *)
CloserOk ==
  /\ Single(jobs, Closers) /\ Single(jobs, Only("close"))
  /\ closer.pc = "open" => ~Has(jobs, Closers) /\ closer.waiting = {}
  /\ closer.pc # "open" => ~Has(jobs, Only("close"))
  /\ pump.held <=> closer.pc \notin {"open", "inserting"}
  /\ Has(jobs, Only("flush")) =>
       closer.pc = "busy" \/ (closer.pc = "inserting" /\ closer.waiting = {})
  /\ Has(jobs, Closers) => Has(jobs, Only("flush")) \/ closer.pc = "busy"
  /\ pump.stopped <=> \/ closer.pc \in {"stop", "flights", "closed"}
                      \/ Has(jobs, Only("stopped")) \/ Has(jobs, Only("abandon"))
  /\ \/ closer.pc \in {"flights", "closed"}
     \/ Has(jobs, Only("stopped")) \/ Has(jobs, Only("abandon"))
     \/ pump.stopped /\ Has(jobs, Only("idled"))
     => ~pump.pumping
  /\ Has(jobs, Only("abandon")) \/ closer.pc = "closed" => Mem!InFlight(flightOf) = {}
  /\ Has(jobs, Only("flushed")) \/ (Has(jobs, Only("afterIdle")) /\ closer.nothing) => Owed = {}
  /\ closer.pc = "closed" => \A d \in Delivery : place[d] \in {"none", "gone"}

Shapes ==
  /\ place \in [Delivery -> {"none", "due", "later", "leased", "gone"}]
  /\ attempts \in [Delivery -> 0..Retries + 1]
  /\ inserting \in [Delivery -> {"no", "pending", "resolved"}]
  /\ pump \in [pumping : BOOLEAN, again : BOOLEAN, saturated : BOOLEAN, full : BOOLEAN,
               free : 0..concurrency, batch : SUBSET Delivery,
               claimedNothing : BOOLEAN, held : BOOLEAN, stopped : BOOLEAN]
  /\ flightOf \in [Delivery -> {"none", "sending", "reporting", "settling"}]
  /\ reminders \in SUBSET Delivery
  /\ closer \in [pc : {"open", "inserting", "idle", "any", "stop", "flights", "closed", "busy"},
                 waiting : SUBSET Delivery, nothing : BOOLEAN]
  /\ outcome \in [Delivery -> [times : Nat, why : {"no", "delivered", "retriesRanOut", "closed"}]]

Inv ==
  /\ Shapes /\ jobs \in Seq(Jobs) /\ IsFiniteSet(Accepted)
  /\ \A d \in Delivery : DeliveryOk(d)
  /\ PumpOk /\ IdledFirst /\ CloserOk

LEMMA InvFirst == Mem!Init => Inv
<1> SUFFICES ASSUME Mem!Init PROVE Inv
  OBVIOUS
<1>1. jobs = <<>> /\ \A K : ~Has(jobs, K) /\ Single(jobs, K)
  BY NoJobQueued DEF Mem!Init
<1>2. Accepted = {} /\ Owed = {} /\ Mem!InFlight(flightOf) = {}
  BY DEF Mem!Init, Accepted, Owed, Mem!InFlight
<1>3. IsFiniteSet(Accepted) /\ Cardinality(Mem!InFlight(flightOf)) = 0 /\ Cardinality({}) = 0
  BY <1>2, FS_EmptySet
<1>4. Shapes /\ jobs \in Seq(Jobs)
  BY <1>1, WebhookWorkerAssumption DEF Mem!Init, Shapes, Jobs
<1>5. \A d \in Delivery : DeliveryOk(d)
  BY <1>1, WebhookWorkerAssumption DEF Mem!Init, DeliveryOk, JobsOf, Placed, AwaitedInsert
<1>6. PumpOk
  BY <1>1, <1>2, <1>3, WebhookWorkerAssumption DEF Mem!Init, PumpOk
<1>7. IdledFirst /\ CloserOk
  BY <1>1, <1>2 DEF Mem!Init, IdledFirst, CloserOk, Sooner
<1> QED
  BY <1>3, <1>4, <1>5, <1>6, <1>7 DEF Inv

(* The invariant is worth having.                                          *)
LEMMA InvEndsAll == Inv => Mem!ClosedEndsAll
<1> SUFFICES ASSUME Inv PROVE Mem!ClosedEndsAll
  OBVIOUS
<1>1. ASSUME NEW d \in Delivery
      PROVE  /\ outcome[d].times <= 1
             /\ place[d] # "none" /\ outcome[d].why = "closed" => attempts[d] > 0
             /\ closer.pc = "closed" /\ place[d] # "none" => outcome[d].times = 1
  BY DEF Inv, DeliveryOk, Placed, CloserOk, Shapes
<1> QED
  BY <1>1 DEF Mem!ClosedEndsAll

LEMMA SeqWidens ==
  ASSUME NEW S, NEW T, S \subseteq T, NEW s \in Seq(S)
  PROVE  s \in Seq(T)
  OBVIOUS

LEMMA InvTyped == Inv => Mem!TypeOK
<1> SUFFICES ASSUME Inv PROVE Mem!TypeOK
  OBVIOUS
<1>1. Jobs \subseteq [kind : Mem!Kinds, of : Delivery \cup {None}, hops : 0..4]
  BY DEF Jobs
<1>2. jobs \in Seq([kind : Mem!Kinds, of : Delivery \cup {None}, hops : 0..4])
  BY <1>1, SeqWidens DEF Inv
<1> QED
  BY <1>2 DEF Inv, Shapes, Mem!TypeOK

-----------------------------------------------------------------------------
(* A step of the job queue: what leaves it, and what it queues.            *)

Meets(M, K) == \E m \in M : m \in K
Alone(M, K) == \A m, n \in M : m \in K /\ n \in K => m = n

(* new is the jobs of M, each once; the answer to a claim takes two hops.  *)
Carries(new, M) ==
  /\ new \in Seq(Jobs)
  /\ \A K : Has(new, K) <=> Meets(M, K)
  /\ \A K : Alone(M, K) => Single(new, K)
  /\ \A j \in DOMAIN new : Mark(new[j]) \in Only("answered") => new[j].hops = 2

(* The job of G left, if any, and those of M were queued.                  *)
Queued(G, M) ==
  /\ jobs' \in Seq(Jobs)
  /\ \A K :
       /\ Meets(M, K) => Has(jobs, K)'
       /\ ~Meets(G, K) /\ Has(jobs, K) => Has(jobs, K)'
       /\ ~Meets(M, K) /\ Has(jobs, K)' => Has(jobs, K)
       /\ ~Meets(M, K) /\ Single(jobs, K) => Single(jobs, K)'
       /\ Meets(G, K) => Has(jobs, K)
       /\ Meets(G, K) /\ Single(jobs, K) /\ Has(jobs, K)' => Meets(M, K)
       /\ Alone(M, K) /\ Single(jobs, K) /\ (Meets(G, K) \/ ~Has(jobs, K)) => Single(jobs, K)'
  /\ \A K, L : ~Meets(M, K) /\ Before(jobs, K, L) => Before(jobs, K, L)'
  /\ ~Meets(M, Only("idled")) /\ Sooner(jobs, Only("idled"), Only("answered"))
       => Sooner(jobs, Only("idled"), Only("answered"))'

LEMMA CarriesNone == Carries(<<>>, {})
  BY NoJobQueued DEF Carries, Meets, Alone

LEMMA CarriesOne ==
  ASSUME NEW kind, NEW d, NEW hops, [kind |-> kind, of |-> d, hops |-> hops] \in Jobs,
         kind = "answered" => hops = 2
  PROVE  Carries(Mem!Job(kind, d, hops), {<<kind, d>>})
<1> DEFINE s == Mem!Job(kind, d, hops)
<1>1. DOMAIN s = {1} /\ s[1] = [kind |-> kind, of |-> d, hops |-> hops]
  BY DEF Mem!Job
<1>2. Mark(s[1]) \in Only("answered") => s[1].hops = 2
  BY <1>1 DEF Mark, Only
<1>3. \A K : /\ Has(s, K) <=> <<kind, d>> \in K
             /\ Single(s, K)
  BY JobQueued
<1>4. s \in Seq(Jobs)
  BY JobQueued
<1> HIDE DEF s
<1>5. \A K : Has(s, K) <=> Meets({<<kind, d>>}, K)
  BY <1>3 DEF Meets
<1>6. \A j \in DOMAIN s : Mark(s[j]) \in Only("answered") => s[j].hops = 2
  BY <1>1, <1>2
<1>7. Carries(s, {<<kind, d>>})
  BY <1>3, <1>4, <1>5, <1>6 DEF Carries
<1> QED
  BY <1>7 DEF s

LEMMA CarriesBoth ==
  ASSUME NEW s, NEW t, NEW M, NEW N, Carries(s, M), Carries(t, N), M \cap N = {}
  PROVE  Carries(s \o t, M \cup N)
<1>1. s \in Seq(Jobs) /\ t \in Seq(Jobs)
  BY DEF Carries
<1> DEFINE r == s \o t
<1>2. /\ r \in Seq(Jobs)
      /\ \A K : /\ Has(r, K) <=> Has(s, K) \/ Has(t, K)
                /\ Single(s, K) /\ Single(t, K) /\ ~(Has(s, K) /\ Has(t, K)) => Single(r, K)
  BY <1>1, BothQueued
<1>3. \A i \in DOMAIN r : \/ i \in DOMAIN s /\ r[i] = s[i]
                          \/ i - Len(s) \in DOMAIN t /\ r[i] = t[i - Len(s)]
  BY <1>1
<1> HIDE DEF r
<1>4. \A K : Meets(M \cup N, K) <=> Meets(M, K) \/ Meets(N, K)
  BY DEF Meets
<1>5. ASSUME NEW K, Alone(M \cup N, K)  PROVE Single(r, K)
  <2>1. Alone(M, K) /\ Alone(N, K) /\ ~(Meets(M, K) /\ Meets(N, K))
    BY <1>5 DEF Alone, Meets
  <2> QED
    BY <1>2, <2>1 DEF Carries
<1>6. \A K : Has(r, K) <=> Meets(M \cup N, K)
  BY <1>2, <1>4 DEF Carries
<1>7. \A j \in DOMAIN r : Mark(r[j]) \in Only("answered") => r[j].hops = 2
  BY <1>3 DEF Carries
<1>8. Carries(r, M \cup N)
  BY <1>2, <1>5, <1>6, <1>7 DEF Carries
<1> QED
  BY <1>8 DEF r

LEMMA IdledWait ==
  ASSUME NEW js \in Seq(Jobs), NEW i \in DOMAIN js, Mark(js[i]) \in Only("idled")
  PROVE  js[i].hops \in 0..2
<1>1. js[i] \in Jobs /\ js[i].kind = "idled"
  BY DEF Mark, Only
<1> QED
  BY <1>1 DEF Jobs

(* A job of the application's, or of a timer, or of the network.           *)
LEMMA QueuedCalls ==
  ASSUME jobs \in Seq(Jobs), NEW new, NEW M, Carries(new, M), jobs' = jobs \o new
  PROVE  Queued({}, M)
<1>1. new \in Seq(Jobs)
  BY DEF Carries
<1>2. /\ jobs' \in Seq(Jobs)
      /\ \A K : /\ Has(jobs, K)' <=> Has(jobs, K) \/ Has(new, K)
                /\ Single(jobs, K) /\ Single(new, K) /\ (Has(new, K) => ~Has(jobs, K))
                     => Single(jobs, K)'
  <2>1. /\ jobs' \in Seq(Jobs)
        /\ \A K : /\ Has(jobs', K) <=> Has(jobs, K) \/ Has(new, K)
                  /\ Single(jobs, K) /\ Single(new, K) /\ (Has(new, K) => ~Has(jobs, K))
                       => Single(jobs', K)
    BY <1>1, Joins
  <2> QED
    BY <2>1 DEF Has, Single
<1>3. \A K : ~Meets({}, K) /\ (~Meets(M, K) => Alone(M, K))
  BY DEF Meets, Alone
<1>4. ASSUME NEW K, NEW L, ~Meets(M, K), Before(jobs, K, L)
      PROVE  Before(jobs, K, L)'
  <2>1. ~Has(new, K)
    BY <1>4 DEF Carries
  <2>2. Before(jobs', K, L)
    BY <1>1, <1>4, <2>1, OrderJoins
  <2> QED
    BY <2>2 DEF Before
<1>5. ASSUME ~Meets(M, Only("idled")), Sooner(jobs, Only("idled"), Only("answered"))
      PROVE  Sooner(jobs, Only("idled"), Only("answered"))'
  <2>1. ~Has(new, Only("idled"))
    BY <1>5 DEF Carries
  <2>2. \A i \in DOMAIN jobs, j \in DOMAIN new :
          Mark(jobs[i]) \in Only("idled") /\ Mark(new[j]) \in Only("answered")
            => jobs[i].hops <= new[j].hops
    <3> SUFFICES ASSUME NEW i \in DOMAIN jobs, NEW j \in DOMAIN new,
                        Mark(jobs[i]) \in Only("idled"), Mark(new[j]) \in Only("answered")
                 PROVE  jobs[i].hops <= new[j].hops
      OBVIOUS
    <3>1. jobs[i].hops \in 0..2 /\ new[j].hops = 2
      BY IdledWait DEF Carries
    <3> QED
      BY <3>1
  <2>3. Sooner(jobs', Only("idled"), Only("answered"))
    BY <1>1, <1>5, <2>1, <2>2, OrderJoins
  <2> QED
    BY <2>3 DEF Sooner
<1> QED
  BY <1>2, <1>3, <1>4, <1>5 DEF Queued, Carries

(* A job ran.                                                              *)
LEMMA QueuedRuns ==
  ASSUME jobs \in Seq(Jobs), jobs # <<>>, NEW kind, NEW d, Mark(Head(jobs)) = <<kind, d>>,
         NEW new, NEW M, Carries(new, M), jobs' = Tail(jobs) \o new
  PROVE  Queued({<<kind, d>>}, M)
<1> DEFINE G == {<<kind, d>>}
<1>1. new \in Seq(Jobs) /\ \A K : Meets(G, K) <=> <<kind, d>> \in K
  BY DEF Carries, Meets
<1>2. jobs' \in Seq(Jobs)
  <2> DEFINE t == Tail(jobs)
  <2>1. t \in Seq(Jobs)
    OBVIOUS
  <2> HIDE DEF t
  <2>2. t \o new \in Seq(Jobs)
    BY <1>1, <2>1
  <2> QED
    BY <2>2 DEF t
<1>3. \A K : /\ <<kind, d>> \in K => Has(jobs, K)
             /\ Has(jobs', K) => Has(new, K) \/ Has(jobs, K)
             /\ Has(new, K) => Has(jobs', K)
             /\ <<kind, d>> \notin K /\ Has(jobs, K) => Has(jobs', K)
             /\ Single(jobs, K) /\ <<kind, d>> \in K /\ Has(jobs', K) => Has(new, K)
             /\ /\ Single(jobs, K) /\ Single(new, K)
                /\ Has(new, K) => ~Has(jobs, K) \/ <<kind, d>> \in K
                => Single(jobs', K)
  BY <1>1, <1>2, Moves
<1>4. \A K : (Has(jobs, K)' <=> Has(jobs', K)) /\ (Single(jobs, K)' <=> Single(jobs', K))
  BY DEF Has, Single
<1>5. \A K : ~Meets(M, K) => Alone(M, K)
  BY DEF Meets, Alone
<1>6. ASSUME NEW K, NEW L, ~Meets(M, K), Before(jobs, K, L)
      PROVE  Before(jobs, K, L)'
  <2>1. ~Has(new, K)
    BY <1>6 DEF Carries
  <2>2. Before(jobs', K, L)
    BY <1>1, <1>6, <2>1, OrderMoves
  <2> QED
    BY <2>2 DEF Before
<1>7. ASSUME ~Meets(M, Only("idled")), Sooner(jobs, Only("idled"), Only("answered"))
      PROVE  Sooner(jobs, Only("idled"), Only("answered"))'
  <2>1. ~Has(new, Only("idled"))
    BY <1>7 DEF Carries
  <2>2. \A i \in DOMAIN jobs, j \in DOMAIN new :
          Mark(jobs[i]) \in Only("idled") /\ Mark(new[j]) \in Only("answered")
            => jobs[i].hops <= new[j].hops
    <3> SUFFICES ASSUME NEW i \in DOMAIN jobs, NEW j \in DOMAIN new,
                        Mark(jobs[i]) \in Only("idled"), Mark(new[j]) \in Only("answered")
                 PROVE  jobs[i].hops <= new[j].hops
      OBVIOUS
    <3>1. jobs[i].hops \in 0..2 /\ new[j].hops = 2
      BY IdledWait DEF Carries
    <3> QED
      BY <3>1
  <2>3. Sooner(jobs', Only("idled"), Only("answered"))
    BY <1>1, <1>7, <2>1, <2>2, OrderMoves
  <2> QED
    BY <2>3 DEF Sooner
<1> HIDE DEF G
<1>8. \A K :
       /\ Meets(M, K) => Has(jobs, K)'
       /\ ~Meets(G, K) /\ Has(jobs, K) => Has(jobs, K)'
       /\ ~Meets(M, K) /\ Has(jobs, K)' => Has(jobs, K)
       /\ ~Meets(M, K) /\ Single(jobs, K) => Single(jobs, K)'
       /\ Meets(G, K) => Has(jobs, K)
       /\ Meets(G, K) /\ Single(jobs, K) /\ Has(jobs, K)' => Meets(M, K)
       /\ Alone(M, K) /\ Single(jobs, K) /\ (Meets(G, K) \/ ~Has(jobs, K)) => Single(jobs, K)'
  BY <1>1, <1>3, <1>4, <1>5 DEF Carries
<1> QED
  BY <1>2, <1>6, <1>7, <1>8 DEF Queued, G

LEMMA QueuedLeaves ==
  ASSUME jobs \in Seq(Jobs), jobs # <<>>, NEW kind, NEW d, Mark(Head(jobs)) = <<kind, d>>,
         jobs' = Tail(jobs)
  PROVE  Queued({<<kind, d>>}, {})
<1> DEFINE t == Tail(jobs)
<1>1. t \in Seq(Jobs)
  OBVIOUS
<1> HIDE DEF t
<1>2. t = t \o <<>>
  BY <1>1
<1>3. jobs' = Tail(jobs) \o <<>>
  BY <1>2 DEF t
<1> QED
  BY <1>3, CarriesNone, QueuedRuns

(* What the step has nothing to do with is as it was.                      *)
LEMMA Leaves ==
  ASSUME NEW G, NEW M, Queued(G, M), NEW X, ~Meets(G, X), ~Meets(M, X)
  PROVE  Untouched(X)
<1>1. \A K \in SUBSET X : ~Meets(G, K) /\ ~Meets(M, K)
  BY DEF Meets
<1> QED
  BY <1>1 DEF Queued, Untouched

(* The job that runs, and whose it is.                                     *)
LEMMA RunsHead ==
  ASSUME jobs \in Seq(Jobs), NEW kind, Mem!Runs(kind)
  PROVE  /\ jobs # <<>> /\ Mark(Head(jobs)) = <<kind, Mem!Of>> /\ Head(jobs).hops = 0
         /\ Mem!Of \in IF kind \in OfDelivery THEN Delivery ELSE {None}
         /\ \A K : <<kind, Mem!Of>> \in K => Has(jobs, K)
<1>1. Head(jobs) \in Jobs /\ 1 \in DOMAIN jobs /\ Head(jobs) = jobs[1]
  BY DEF Mem!Runs
<1>2. Mark(Head(jobs)) = <<kind, Mem!Of>>
  BY DEF Mem!Runs, Mark, Mem!Of
<1> QED
  BY <1>1, <1>2 DEF Mem!Runs, Mem!Of, Jobs, Has

-----------------------------------------------------------------------------
(* What a step leaves as it was.                                           *)

LEMMA MarksWithin ==
  /\ \A d : Flights(d) \subseteq MarksOf(d)
  /\ \A d, kind : kind \in OfDelivery => Its(kind, d) \subseteq MarksOf(d)
  /\ \A kind : /\ kind \in {"answered", "decide", "finally"} => Only(kind) \subseteq Pumps
               /\ kind \in {"flush", "afterIdle", "flushed", "stopped", "abandon"}
                    => Only(kind) \subseteq Closers
  BY DEF Flights, MarksOf, Its, OfDelivery, Only, Pumps, Closers

LEMMA JobsOfKept ==
  ASSUME NEW d, Untouched(MarksOf(d))
  PROVE  /\ \A kind \in OfDelivery :
              /\ Has(jobs, Its(kind, d))' <=> Has(jobs, Its(kind, d))
              /\ Single(jobs, Its(kind, d)) => Single(jobs, Its(kind, d))'
         /\ Has(jobs, Flights(d))' <=> Has(jobs, Flights(d))
         /\ Single(jobs, Flights(d)) => Single(jobs, Flights(d))'
  BY MarksWithin DEF Untouched

(* A delivery that no step but a claim concerns.                           *)
LEMMA DeliveryKept ==
  ASSUME Inv, Shapes', NEW d \in Delivery, Untouched(MarksOf(d)),
         \/ /\ place'[d] = place[d] /\ attempts'[d] = attempts[d]
            /\ d \in pump'.batch <=> d \in pump.batch
         \/ /\ place[d] = "due" /\ place'[d] = "leased" /\ attempts'[d] = attempts[d] + 1
            /\ d \in pump'.batch,
         inserting'[d] = inserting[d], flightOf'[d] = flightOf[d], outcome'[d] = outcome[d],
         \/ closer'.pc = closer.pc /\ (d \in closer.waiting => d \in closer'.waiting)
         \/ closer.pc \notin {"open", "inserting"}
         \/ closer.pc = "inserting" /\ closer.waiting = {}
  PROVE  DeliveryOk(d)'
<1>1. JobsOf(d) /\ Placed(d) /\ AwaitedInsert(d)
  BY DEF Inv, DeliveryOk
<1>2. /\ \A kind \in {"listen", "inserted", "done", "elem", "delivered", "failed", "remind", "freed"} :
              /\ Has(jobs, Its(kind, d))' <=> Has(jobs, Its(kind, d))
              /\ Single(jobs, Its(kind, d)) => Single(jobs, Its(kind, d))'
      /\ Has(jobs, Flights(d))' <=> Has(jobs, Flights(d))
      /\ Single(jobs, Flights(d)) => Single(jobs, Flights(d))'
  BY JobsOfKept DEF OfDelivery
<1>3. /\ Has(jobs, Its("delivered", d)) \/ Has(jobs, Its("failed", d))
           \/ Has(jobs, Its("remind", d)) \/ Has(jobs, Its("freed", d)) => place[d] # "due"
  BY <1>1 DEF JobsOf
<1>4. JobsOf(d)'
  BY <1>1, <1>2, <1>3 DEF JobsOf
<1>5. Placed(d)'
  <2>1. attempts[d] \in Nat /\ Retries \in Nat
    BY WebhookWorkerAssumption DEF Inv, Shapes
  <2> QED
    BY <1>1, <2>1 DEF Placed
<1>6. AwaitedInsert(d)'
  BY <1>1, <1>2 DEF AwaitedInsert
<1> QED
  BY <1>4, <1>5, <1>6 DEF DeliveryOk

(* Those in flight are accepted, so they are finitely many.                *)
LEMMA FlightsFinite ==
  ASSUME Inv, NEW F \in SUBSET Mem!InFlight(flightOf)
  PROVE  /\ IsFiniteSet(F) /\ Cardinality(F) \in Nat
         /\ Cardinality(F) <= Cardinality(Mem!InFlight(flightOf))
         /\ F # Mem!InFlight(flightOf) => Cardinality(F) < Cardinality(Mem!InFlight(flightOf))
<1>1. Mem!InFlight(flightOf) \subseteq Accepted
  BY DEF Inv, Mem!InFlight, Accepted, DeliveryOk, Placed
<1>2. IsFiniteSet(Mem!InFlight(flightOf))
  BY <1>1, FS_Subset DEF Inv
<1>3. /\ IsFiniteSet(F) /\ Cardinality(F) <= Cardinality(Mem!InFlight(flightOf))
      /\ Cardinality(Mem!InFlight(flightOf)) = Cardinality(F) => Mem!InFlight(flightOf) = F
  BY <1>2, FS_Subset
<1>4. Cardinality(F) \in Nat /\ Cardinality(Mem!InFlight(flightOf)) \in Nat
  BY <1>2, <1>3, FS_CardinalityType
<1> QED
  BY <1>3, <1>4

(* The pump, where no job of its own runs and none is woken.               *)
LEMMA PumpKept ==
  ASSUME Inv, pump' = pump, Untouched(Pumps), Owed' \subseteq Owed,
         Mem!InFlight(flightOf)' \subseteq Mem!InFlight(flightOf),
         Before(jobs, Only("finally"), Only("flush")) =>
           Before(jobs, Only("finally"), Only("flush"))'
  PROVE  PumpOk'
<1>1. /\ \A kind \in {"answered", "decide", "finally"} :
           Has(jobs, Only(kind))' <=> Has(jobs, Only(kind))
      /\ Has(jobs, Pumps)' <=> Has(jobs, Pumps)
      /\ Single(jobs, Pumps) => Single(jobs, Pumps)'
  BY MarksWithin DEF Untouched
<1>2. Owed = {} => Owed' = {}
  OBVIOUS
<1>3. PICK n, m \in Nat : /\ n = Cardinality(Mem!InFlight(flightOf)) /\ m = Cardinality(Mem!InFlight(flightOf))'
                          /\ m <= n
  BY FlightsFinite
<1>4. concurrency \in Nat /\ pump.free \in Nat
  BY WebhookWorkerAssumption DEF Inv, Shapes
<1>5. /\ m + pump.free <= n + pump.free
      /\ m + pump.free \in Nat /\ n + pump.free \in Nat
  BY <1>3, <1>4
<1>6. PumpOk
  BY DEF Inv
<1>7. /\ n <= concurrency => m <= concurrency
      /\ n < concurrency => m < concurrency
      /\ n + pump.free <= concurrency => m + pump.free <= concurrency
  BY <1>3, <1>4, <1>5
<1> QED
  BY <1>1, <1>2, <1>3, <1>6, <1>7 DEF PumpOk

(* What waits until the pump is idle.                                      *)
LEMMA IdledKept ==
  ASSUME Inv, NEW G, NEW M, Queued(G, M), ~Meets(M, Only("idled")),
         \/ ~Has(jobs, Only("idled"))
         \/ ~Meets(M, Only("decide")) /\ ~Meets(M, Only("finally")) /\ closer'.pc = closer.pc
  PROVE  IdledFirst'
<1>1. IdledFirst
  BY DEF Inv
<1>2. /\ Has(jobs, Only("idled"))' => Has(jobs, Only("idled"))
      /\ Single(jobs, Only("idled"))'
      /\ Sooner(jobs, Only("idled"), Only("answered"))'
  BY <1>1 DEF Queued, IdledFirst
<1>3. Has(jobs, Only("idled")) => /\ ~Has(jobs, Only("decide"))'
                                  /\ ~Has(jobs, Only("finally"))'
                                  /\ closer'.pc = closer.pc
  BY <1>1 DEF Queued, IdledFirst
<1> QED
  BY <1>1, <1>2, <1>3 DEF IdledFirst

(* close(), where the step is none of its own.                             *)
LEMMA CloserKept ==
  ASSUME Inv, closer' = closer, pump'.held = pump.held, pump'.stopped = pump.stopped,
         pump'.pumping => pump.pumping \/ ~pump.stopped,
         Untouched(Closers), Has(jobs, Only("close"))' => Has(jobs, Only("close")) \/ closer.pc = "open",
         Single(jobs, Only("close"))',
         pump'.pumping /\ pump.stopped /\ Has(jobs, Only("idled"))' => Has(jobs, Only("idled")),
         Mem!InFlight(flightOf)' \subseteq Mem!InFlight(flightOf) \/ pump.pumping,
         Has(jobs, Closers) => Owed' \subseteq Owed,
         closer.pc = "closed" => \A d \in Delivery : place'[d] \in {"none", "gone"}
  PROVE  CloserOk'
<1>1. CloserOk
  BY DEF Inv
<1>2. /\ \A kind \in {"flush", "afterIdle", "flushed", "stopped", "abandon"} :
           Has(jobs, Only(kind))' <=> Has(jobs, Only(kind))
      /\ Has(jobs, Closers)' <=> Has(jobs, Closers)
      /\ Single(jobs, Closers) => Single(jobs, Closers)'
  BY MarksWithin DEF Untouched
<1>3. Has(jobs, Only("abandon")) \/ closer.pc = "closed" => Mem!InFlight(flightOf)' = {}
  BY <1>1 DEF CloserOk
<1>4. Has(jobs, Only("flushed")) \/ Has(jobs, Only("afterIdle")) => Has(jobs, Closers)
  BY MarksWithin DEF Has
<1>5. Has(jobs, Closers) /\ Owed = {} => Owed' = {}
  OBVIOUS
<1> QED
  BY <1>1, <1>2, <1>3, <1>4, <1>5 DEF CloserOk

-----------------------------------------------------------------------------
(* The steps of one delivery.                                              *)

LEMMA MarksApart ==
  ASSUME NEW d, NEW M \in SUBSET MarksOf(d)
  PROVE  /\ \A e : e # d => ~Meets(M, MarksOf(e))
         /\ ~Meets(M, Pumps) /\ ~Meets(M, Closers)
         /\ \A kind : kind \notin OfDelivery => ~Meets(M, Only(kind))
<1>1. \A m \in M : m[1] \in OfDelivery /\ m[2] = d
  BY DEF MarksOf
<1>2. \A e : \A m \in MarksOf(e) : m[2] = e
  BY DEF MarksOf
<1>3. \A m \in Pumps \cup Closers : m[1] \notin OfDelivery
  BY DEF Pumps, Closers, OfDelivery
<1>4. \A kind : \A m \in Only(kind) : m[1] = kind
  BY DEF Only
<1> QED
  BY <1>1, <1>2, <1>3, <1>4 DEF Meets

LEMMA NoneApart == \A K : ~Meets({}, K)
  BY DEF Meets

LEMMA DeliveryStep ==
  ASSUME Inv, Shapes', NEW d \in Delivery, NEW G \in SUBSET MarksOf(d),
         NEW M \in SUBSET MarksOf(d), Queued(G, M), pump' = pump, closer' = closer,
         \A e \in Delivery : e # d =>
           /\ place'[e] = place[e] /\ attempts'[e] = attempts[e] /\ inserting'[e] = inserting[e]
           /\ flightOf'[e] = flightOf[e] /\ outcome'[e] = outcome[e],
         DeliveryOk(d)', d \in Owed' => d \in Owed,
         flightOf'[d] = "none" \/ flightOf[d] # "none",
         closer.pc = "closed" => place'[d] \in {"none", "gone"}
  PROVE  Inv'
<1>1. /\ \A e : e # d => Untouched(MarksOf(e))
      /\ Untouched(Pumps) /\ Untouched(Closers)
      /\ Untouched(Only("idled")) /\ Untouched(Only("close"))
  <2>1. "idled" \notin OfDelivery /\ "close" \notin OfDelivery
    BY DEF OfDelivery
  <2> QED
    BY <2>1, MarksApart, Leaves
<1>2. \A e \in Delivery : DeliveryOk(e)'
  <2> SUFFICES ASSUME NEW e \in Delivery, e # d  PROVE DeliveryOk(e)'
    OBVIOUS
  <2> QED
    BY <1>1, DeliveryKept
<1>3. Owed' \subseteq Owed /\ Mem!InFlight(flightOf)' \subseteq Mem!InFlight(flightOf)
  BY DEF Owed, Mem!InFlight
<1>4. IsFiniteSet(Accepted)'
  <2>1. Accepted' \subseteq Accepted \cup {d}
    BY DEF Accepted
  <2>2. IsFiniteSet(Accepted \cup {d})
    BY FS_AddElement DEF Inv
  <2>3. \A T \in SUBSET (Accepted \cup {d}) : IsFiniteSet(T)
    BY <2>2, FS_Subset
  <2>4. IsFiniteSet(Accepted')
    BY <2>1, <2>3
  <2> QED
    BY <2>4 DEF Accepted
<1>5. PumpOk'
  <2>1. "finally" \notin OfDelivery
    BY DEF OfDelivery
  <2>2. ~Meets(M, Only("finally"))
    BY <2>1, MarksApart
  <2>3. Before(jobs, Only("finally"), Only("flush")) =>
          Before(jobs, Only("finally"), Only("flush"))'
    BY <2>2 DEF Queued
  <2> QED
    BY <1>1, <1>3, <2>3, PumpKept
<1>6. IdledFirst'
  <2>1. {"idled", "decide", "finally"} \cap OfDelivery = {}
    BY DEF OfDelivery
  <2>2. \A kind \in {"idled", "decide", "finally"} : ~Meets(M, Only(kind))
    BY <2>1, MarksApart
  <2> QED
    BY <2>2, IdledKept
<1>7. CloserOk'
  <2>1. Single(jobs, Only("close"))' /\ Has(jobs, Only("close"))' => Has(jobs, Only("close"))
    BY <1>1 DEF Inv, CloserOk, Untouched
  <2>2. Has(jobs, Only("idled"))' => Has(jobs, Only("idled"))
    BY <1>1 DEF Untouched
  <2>3. \A e \in Delivery : closer.pc = "closed" => place'[e] \in {"none", "gone"}
    BY DEF Inv, CloserOk
  <2>4. Single(jobs, Only("close"))'
    BY <1>1 DEF Inv, CloserOk, Untouched
  <2> QED
    BY <1>1, <1>3, <2>1, <2>2, <2>3, <2>4, CloserKept
<1>8. jobs' \in Seq(Jobs)
  BY DEF Queued
<1> QED
  BY <1>2, <1>4, <1>5, <1>6, <1>7, <1>8 DEF Inv

(* A job of one delivery's runs, and queues at most one more of it.        *)
LEMMA DeliveryRuns ==
  ASSUME jobs \in Seq(Jobs), NEW kind \in OfDelivery, Mem!Runs(kind)
  PROVE  /\ Mem!Of \in Delivery /\ {<<kind, Mem!Of>>} \subseteq MarksOf(Mem!Of) /\ {} \subseteq MarksOf(Mem!Of)
         /\ jobs' = Tail(jobs) => Queued({<<kind, Mem!Of>>}, {})
         /\ \A next \in OfDelivery, hops \in 0..4 :
              /\ {<<next, Mem!Of>>} \subseteq MarksOf(Mem!Of)
              /\ jobs' = Tail(jobs) \o Mem!Job(next, Mem!Of, hops)
                   => Queued({<<kind, Mem!Of>>}, {<<next, Mem!Of>>})
<1>1. /\ Mem!Of \in Delivery /\ jobs # <<>> /\ Mark(Head(jobs)) = <<kind, Mem!Of>>
  BY RunsHead
<1>2. \A next \in OfDelivery : {<<next, Mem!Of>>} \subseteq MarksOf(Mem!Of)
  BY DEF MarksOf
<1>3. ASSUME NEW next \in OfDelivery, NEW hops \in 0..4,
             jobs' = Tail(jobs) \o Mem!Job(next, Mem!Of, hops)
      PROVE  Queued({<<kind, Mem!Of>>}, {<<next, Mem!Of>>})
  <2>1. [kind |-> next, of |-> Mem!Of, hops |-> hops] \in Jobs /\ next # "answered"
    BY <1>1 DEF Jobs, OfDelivery, Mem!Kinds
  <2>2. Carries(Mem!Job(next, Mem!Of, hops), {<<next, Mem!Of>>})
    BY <2>1, CarriesOne
  <2> QED
    BY <1>1, <1>3, <2>2, QueuedRuns
<1>4. jobs' = Tail(jobs) => Queued({<<kind, Mem!Of>>}, {})
  BY <1>1, QueuedLeaves
<1> QED
  BY <1>1, <1>2, <1>3, <1>4

FlightKinds == {"delivered", "failed", "remind", "freed"}

(* What one mark is among a delivery's.                                    *)
LEMMA OneMark ==
  ASSUME NEW kind, NEW d
  PROVE  /\ \A next : Meets({<<kind, d>>}, Its(next, d)) <=> kind = next
         /\ Meets({<<kind, d>>}, Flights(d)) <=> kind \in FlightKinds
         /\ \A K : Alone({<<kind, d>>}, K)
  BY DEF Meets, Its, Flights, FlightKinds, Alone

LEMMA JobSpent ==
  ASSUME NEW kind, NEW d, Queued({<<kind, d>>}, {})
  PROVE  /\ Has(jobs, Its(kind, d))
         /\ Single(jobs, Its(kind, d)) => ~Has(jobs, Its(kind, d))' /\ Single(jobs, Its(kind, d))'
         /\ \A k : k # kind => /\ Has(jobs, Its(k, d))' <=> Has(jobs, Its(k, d))
                               /\ Single(jobs, Its(k, d)) => Single(jobs, Its(k, d))'
         /\ kind \in FlightKinds =>
              /\ Has(jobs, Flights(d))
              /\ Single(jobs, Flights(d)) => ~Has(jobs, Flights(d))' /\ Single(jobs, Flights(d))'
         /\ kind \notin FlightKinds =>
              /\ Has(jobs, Flights(d))' <=> Has(jobs, Flights(d))
              /\ Single(jobs, Flights(d)) => Single(jobs, Flights(d))'
<1>1. /\ \A next : Meets({<<kind, d>>}, Its(next, d)) <=> kind = next
      /\ Meets({<<kind, d>>}, Flights(d)) <=> kind \in FlightKinds
      /\ \A K : ~Meets({}, K)
  BY OneMark, NoneApart
<1> DEFINE G == {<<kind, d>>}
<1> HIDE DEF G
<1> QED
  BY <1>1 DEF Queued

LEMMA JobFollows ==
  ASSUME NEW kind, NEW d, NEW next, next # kind, Queued({<<kind, d>>}, {<<next, d>>})
  PROVE  /\ Has(jobs, Its(kind, d)) /\ Has(jobs, Its(next, d))'
         /\ Single(jobs, Its(kind, d)) => ~Has(jobs, Its(kind, d))' /\ Single(jobs, Its(kind, d))'
         /\ ~Has(jobs, Its(next, d)) /\ Single(jobs, Its(next, d)) => Single(jobs, Its(next, d))'
         /\ \A k : k # kind /\ k # next => /\ Has(jobs, Its(k, d))' <=> Has(jobs, Its(k, d))
                                           /\ Single(jobs, Its(k, d)) => Single(jobs, Its(k, d))'
         /\ kind \in FlightKinds /\ next \in FlightKinds =>
              /\ Has(jobs, Flights(d)) /\ Has(jobs, Flights(d))'
              /\ Single(jobs, Flights(d)) => Single(jobs, Flights(d))'
         /\ kind \notin FlightKinds /\ next \notin FlightKinds =>
              /\ Has(jobs, Flights(d))' <=> Has(jobs, Flights(d))
              /\ Single(jobs, Flights(d)) => Single(jobs, Flights(d))'
<1>1. /\ \A k : Meets({<<kind, d>>}, Its(k, d)) <=> kind = k
      /\ Meets({<<kind, d>>}, Flights(d)) <=> kind \in FlightKinds
  BY OneMark
<1>2. /\ \A k : Meets({<<next, d>>}, Its(k, d)) <=> next = k
      /\ Meets({<<next, d>>}, Flights(d)) <=> next \in FlightKinds
      /\ \A K : Alone({<<next, d>>}, K)
  BY OneMark
<1> QED
  BY <1>1, <1>2 DEF Queued

LEMMA JobCalled ==
  ASSUME NEW d, NEW next, Queued({}, {<<next, d>>})
  PROVE  /\ Has(jobs, Its(next, d))'
         /\ ~Has(jobs, Its(next, d)) /\ Single(jobs, Its(next, d)) => Single(jobs, Its(next, d))'
         /\ \A k : k # next => /\ Has(jobs, Its(k, d))' <=> Has(jobs, Its(k, d))
                               /\ Single(jobs, Its(k, d)) => Single(jobs, Its(k, d))'
         /\ next \in FlightKinds =>
              /\ Has(jobs, Flights(d))'
              /\ ~Has(jobs, Flights(d)) /\ Single(jobs, Flights(d)) => Single(jobs, Flights(d))'
         /\ next \notin FlightKinds =>
              /\ Has(jobs, Flights(d))' <=> Has(jobs, Flights(d))
              /\ Single(jobs, Flights(d)) => Single(jobs, Flights(d))'
<1>1. /\ \A k : Meets({<<next, d>>}, Its(k, d)) <=> next = k
      /\ Meets({<<next, d>>}, Flights(d)) <=> next \in FlightKinds
      /\ \A K : Alone({<<next, d>>}, K) /\ ~Meets({}, K)
  BY OneMark, NoneApart
<1> QED
  BY <1>1 DEF Queued

(* An attempt waits for one job at a time.                                 *)
LEMMA OneFlight ==
  ASSUME NEW d, NEW kind \in FlightKinds
  PROVE  /\ Single(jobs, Flights(d)) /\ Has(jobs, Its(kind, d)) =>
              \A k \in FlightKinds : k # kind => ~Has(jobs, Its(k, d))
         /\ Single(jobs, Flights(d))' /\ Has(jobs, Its(kind, d))' =>
              \A k \in FlightKinds : k # kind => ~Has(jobs, Its(k, d))'
<1>1. \A k \in FlightKinds : <<k, d>> \in Flights(d)
  BY DEF Flights, FlightKinds
<1>2. \A k, m : m \in Its(k, d) <=> m = <<k, d>>
  BY DEF Its
<1>3. ASSUME NEW js, Single(js, Flights(d)), Has(js, Its(kind, d)), NEW k \in FlightKinds, k # kind,
             Has(js, Its(k, d))
      PROVE  FALSE
  <2>1. PICK i \in DOMAIN js : Mark(js[i]) = <<kind, d>>
    BY <1>2, <1>3 DEF Has
  <2>2. PICK j \in DOMAIN js : Mark(js[j]) = <<k, d>>
    BY <1>2, <1>3 DEF Has
  <2>3. i = j
    BY <1>1, <1>3, <2>1, <2>2 DEF Single
  <2> QED
    BY <1>3, <2>1, <2>2, <2>3
<1>4. \A K : (Has(jobs, K)' <=> Has(jobs', K)) /\ (Single(jobs, K)' <=> Single(jobs', K))
  BY DEF Has, Single
<1> QED
  BY <1>3, <1>4

LEMMA WhichKinds ==
  /\ "delivered" \in FlightKinds /\ "failed" \in FlightKinds
  /\ "remind" \in FlightKinds /\ "freed" \in FlightKinds
  /\ "listen" \notin FlightKinds /\ "inserted" \notin FlightKinds
  /\ "done" \notin FlightKinds /\ "elem" \notin FlightKinds
  BY DEF FlightKinds

LEMMA StepDone == Inv /\ Mem!Done => Inv'
<1> SUFFICES ASSUME Inv, Mem!Done PROVE Inv'
  OBVIOUS
<1>1. /\ Mem!Of \in Delivery /\ {<<"done", Mem!Of>>} \subseteq MarksOf(Mem!Of) /\ {} \subseteq MarksOf(Mem!Of)
      /\ Queued({<<"done", Mem!Of>>}, {})
  BY DeliveryRuns DEF Inv, Mem!Done, OfDelivery
<1>2. PICK d \in Delivery : d = Mem!Of
  BY <1>1
<1>3. Queued({<<"done", d>>}, {}) /\ {<<"done", d>>} \subseteq MarksOf(d) /\ {} \subseteq MarksOf(d)
  BY <1>1, <1>2
<1>4. /\ inserting' = [inserting EXCEPT ![d] = "no"]
      /\ UNCHANGED <<place, attempts, pump, flightOf, reminders, closer, outcome>>
  BY <1>2 DEF Mem!Done
<1>5. Shapes'
  BY <1>4 DEF Inv, Shapes
<1>6. JobsOf(d) /\ Placed(d) /\ AwaitedInsert(d) /\ inserting'[d] = "no"
  BY <1>4 DEF Inv, DeliveryOk, Shapes
<1>7. /\ Has(jobs, Its("done", d))
      /\ \A k : k # "done" => /\ Has(jobs, Its(k, d))' <=> Has(jobs, Its(k, d))
                              /\ Single(jobs, Its(k, d)) => Single(jobs, Its(k, d))'
      /\ Has(jobs, Flights(d))' <=> Has(jobs, Flights(d))
      /\ Single(jobs, Flights(d)) => Single(jobs, Flights(d))'
  BY <1>3, WhichKinds, JobSpent
<1>8. inserting[d] # "pending" /\ place[d] # "none"
  BY <1>6, <1>7 DEF JobsOf
<1>9. JobsOf(d)'
  BY <1>4, <1>6, <1>7, <1>8 DEF JobsOf
<1>10. Placed(d)' /\ AwaitedInsert(d)'
  BY <1>4, <1>6, <1>7, <1>8 DEF Placed, AwaitedInsert
<1>11. \A e \in Delivery : e # d => inserting'[e] = inserting[e]
  BY <1>4 DEF Inv, Shapes
<1>12. closer.pc = "closed" => place'[d] \in {"none", "gone"}
  BY <1>4 DEF Inv, CloserOk
<1>13. d \in Owed' => d \in Owed
  BY <1>4, <1>8 DEF Owed
<1> QED
  BY <1>3, <1>4, <1>5, <1>9, <1>10, <1>11, <1>12, <1>13, DeliveryStep DEF DeliveryOk

LEMMA EndIs ==
  ASSUME Shapes, NEW d \in Delivery, NEW why \in {"delivered", "retriesRanOut", "closed"},
         Mem!End(d, why)
  PROVE  /\ outcome' \in [Delivery -> [times : Nat, why : {"no", "delivered", "retriesRanOut", "closed"}]]
         /\ outcome'[d].times = outcome[d].times + 1 /\ outcome'[d].why = why
         /\ \A e \in Delivery : e # d => outcome'[e] = outcome[e]
<1>1. outcome[d].times \in Nat
  BY DEF Shapes
<1> QED
  BY <1>1 DEF Shapes, Mem!End

LEMMA StepRemind == Inv /\ Mem!Remind => Inv'
<1> SUFFICES ASSUME Inv, Mem!Remind PROVE Inv'
  OBVIOUS
<1>1. Mem!Runs("remind") /\ jobs \in Seq(Jobs) /\ "remind" \in OfDelivery /\ "freed" \in OfDelivery
      /\ 1 \in 0..4
  BY DEF Inv, Mem!Remind, OfDelivery
<1>2. PICK d : d = Mem!Of
  OBVIOUS
<1>3. /\ reminders' = (IF Mem!Closing THEN reminders ELSE reminders \cup {d})
      /\ jobs' = Tail(jobs) \o Mem!Job("freed", d, 1)
      /\ UNCHANGED <<place, attempts, inserting, pump, flightOf, closer, outcome>>
  BY <1>2 DEF Mem!Remind
<1>4. /\ d \in Delivery /\ {<<"remind", d>>} \subseteq MarksOf(d) /\ {<<"freed", d>>} \subseteq MarksOf(d)
      /\ Queued({<<"remind", d>>}, {<<"freed", d>>})
  BY <1>1, <1>2, <1>3, DeliveryRuns
<1>5. Shapes'
  BY <1>3, <1>4 DEF Inv, Shapes
<1>6. JobsOf(d) /\ Placed(d) /\ AwaitedInsert(d)
  BY <1>4 DEF Inv, DeliveryOk
<1>7. /\ Has(jobs, Its("remind", d)) /\ Has(jobs, Flights(d)) /\ Has(jobs, Flights(d))'
      /\ Single(jobs, Flights(d)) => Single(jobs, Flights(d))'
      /\ \A k : k # "remind" /\ k # "freed" =>
           /\ Has(jobs, Its(k, d))' <=> Has(jobs, Its(k, d))
           /\ Single(jobs, Its(k, d)) => Single(jobs, Its(k, d))'
      /\ Single(jobs, Its("remind", d)) => ~Has(jobs, Its("remind", d))'
  BY <1>4, WhichKinds, JobFollows
<1>8. place[d] = "later" /\ flightOf[d] = "settling"
  BY <1>6, <1>7 DEF JobsOf
<1>9. JobsOf(d)'
  BY <1>3, <1>6, <1>7, <1>8 DEF JobsOf
<1>10. Placed(d)' /\ AwaitedInsert(d)'
  BY <1>3, <1>6, <1>7, <1>8 DEF Placed, AwaitedInsert
<1>11. closer.pc = "closed" => place'[d] \in {"none", "gone"}
  BY <1>3, <1>4 DEF Inv, CloserOk
<1>12. d \in Owed' => d \in Owed
  BY <1>3 DEF Owed
<1> QED
  BY <1>3, <1>4, <1>5, <1>8, <1>9, <1>10, <1>11, <1>12, DeliveryStep DEF DeliveryOk

LEMMA StepDelivered == Inv /\ Mem!Delivered => Inv'
<1> SUFFICES ASSUME Inv, Mem!Delivered PROVE Inv'
  OBVIOUS
<1>1. Mem!Runs("delivered") /\ jobs \in Seq(Jobs) /\ "delivered" \in OfDelivery /\ "freed" \in OfDelivery
      /\ 3 \in 0..4
  BY DEF Inv, Mem!Delivered, OfDelivery
<1>2. PICK d : d = Mem!Of
  OBVIOUS
<1>3. /\ place' = [place EXCEPT ![d] = "gone"]
      /\ Mem!End(d, "delivered")
      /\ jobs' = Tail(jobs) \o Mem!Job("freed", d, 3)
      /\ UNCHANGED <<attempts, inserting, pump, flightOf, reminders, closer>>
  BY <1>2 DEF Mem!Delivered
<1>4. /\ d \in Delivery /\ {<<"delivered", d>>} \subseteq MarksOf(d) /\ {<<"freed", d>>} \subseteq MarksOf(d)
      /\ Queued({<<"delivered", d>>}, {<<"freed", d>>})
  BY <1>1, <1>2, <1>3, DeliveryRuns
<1>5. Shapes'
  <2>1. outcome' \in [Delivery -> [times : Nat, why : {"no", "delivered", "retriesRanOut", "closed"}]]
    BY <1>3, <1>4, EndIs DEF Inv
  <2> QED
    BY <1>3, <1>4, <2>1 DEF Inv, Shapes
<1>6. JobsOf(d) /\ Placed(d) /\ AwaitedInsert(d)
  BY <1>4 DEF Inv, DeliveryOk
<1>7. /\ Has(jobs, Its("delivered", d)) /\ Has(jobs, Flights(d)) /\ Has(jobs, Flights(d))'
      /\ Single(jobs, Flights(d)) => Single(jobs, Flights(d))'
      /\ \A k : k # "delivered" /\ k # "freed" =>
           /\ Has(jobs, Its(k, d))' <=> Has(jobs, Its(k, d))
           /\ Single(jobs, Its(k, d)) => Single(jobs, Its(k, d))'
  BY <1>4, WhichKinds, JobFollows
<1>8. place[d] = "leased" /\ flightOf[d] = "settling"
  BY <1>6, <1>7 DEF JobsOf
<1>9. /\ place'[d] = "gone" /\ outcome'[d].times = 1 /\ outcome'[d].why = "delivered"
      /\ \A e \in Delivery : e # d => place'[e] = place[e] /\ outcome'[e] = outcome[e]
  <2>1. outcome[d].times = 0
    BY <1>6, <1>8 DEF Placed
  <2>2. /\ outcome'[d].times = outcome[d].times + 1 /\ outcome'[d].why = "delivered"
        /\ \A e \in Delivery : e # d => outcome'[e] = outcome[e]
    BY <1>3, <1>4, EndIs DEF Inv
  <2>3. place'[d] = "gone" /\ \A e \in Delivery : e # d => place'[e] = place[e]
    BY <1>3, <1>4 DEF Inv, Shapes
  <2> QED
    BY <2>1, <2>2, <2>3
<1>10. ~Has(jobs, Its("delivered", d))' /\ ~Has(jobs, Its("failed", d))'
       /\ ~Has(jobs, Its("remind", d))'
  BY <1>4, <1>6, <1>7, WhichKinds, JobFollows, OneFlight DEF JobsOf
<1>11. JobsOf(d)'
  BY <1>3, <1>6, <1>7, <1>8, <1>9, <1>10 DEF JobsOf
<1>12. Placed(d)' /\ AwaitedInsert(d)'
  BY <1>3, <1>6, <1>7, <1>8, <1>9 DEF Placed, AwaitedInsert
<1>13. d \in Owed' => d \in Owed
  BY <1>9 DEF Owed
<1> QED
  BY <1>3, <1>4, <1>5, <1>8, <1>9, <1>11, <1>12, <1>13, DeliveryStep DEF DeliveryOk

LEMMA StepFailed == Inv /\ Mem!Failed => Inv'
<1> SUFFICES ASSUME Inv, Mem!Failed PROVE Inv'
  OBVIOUS
<1>1. Mem!Runs("failed") /\ jobs \in Seq(Jobs) /\ "failed" \in OfDelivery /\ "remind" \in OfDelivery
      /\ 1 \in 0..4
  BY DEF Inv, Mem!Failed, OfDelivery
<1>2. PICK d : d = Mem!Of
  OBVIOUS
<1>3. /\ UNCHANGED <<attempts, inserting, pump, reminders, closer>>
      /\ \/ /\ attempts[d] <= Retries
            /\ place' = [place EXCEPT ![d] = "later"]
            /\ jobs' = Tail(jobs) \o Mem!Job("remind", d, 1)
            /\ UNCHANGED <<flightOf, outcome>>
         \/ /\ \E why \in {"retriesRanOut", "closed"} : Mem!End(d, why)
            /\ flightOf' = [flightOf EXCEPT ![d] = "reporting"]
            /\ jobs' = Tail(jobs)
            /\ UNCHANGED place
  BY <1>2 DEF Mem!Failed
<1>4. /\ d \in Delivery /\ {<<"failed", d>>} \subseteq MarksOf(d) /\ {<<"remind", d>>} \subseteq MarksOf(d)
      /\ {} \subseteq MarksOf(d)
      /\ jobs' = Tail(jobs) => Queued({<<"failed", d>>}, {})
      /\ jobs' = Tail(jobs) \o Mem!Job("remind", d, 1) => Queued({<<"failed", d>>}, {<<"remind", d>>})
  BY <1>1, <1>2, DeliveryRuns
<1>5. Shapes'
  <2>1. outcome' \in [Delivery -> [times : Nat, why : {"no", "delivered", "retriesRanOut", "closed"}]]
    BY <1>3, <1>4, EndIs DEF Inv, Shapes
  <2>2. UNCHANGED <<attempts, pump, reminders, closer>>
    BY <1>3
  <2>3. /\ place' \in [Delivery -> {"none", "due", "later", "leased", "gone"}]
        /\ inserting' \in [Delivery -> {"no", "pending", "resolved"}]
        /\ flightOf' \in [Delivery -> {"none", "sending", "reporting", "settling"}]
    BY <1>3, <1>4 DEF Inv, Shapes
  <2> QED
    BY <2>1, <2>2, <2>3 DEF Inv, Shapes
<1>6. JobsOf(d) /\ Placed(d) /\ AwaitedInsert(d)
  BY <1>4 DEF Inv, DeliveryOk
<1>7. /\ Has(jobs, Its("failed", d)) /\ Has(jobs, Flights(d))
  BY <1>3, <1>4, WhichKinds, JobFollows, JobSpent
<1>8. place[d] = "leased" /\ flightOf[d] = "settling"
  BY <1>6, <1>7 DEF JobsOf
<1>9. closer.pc # "closed"
  BY <1>4, <1>8 DEF Inv, CloserOk
<1>10. d \notin pump.batch /\ d \notin Owed
  BY <1>6, <1>8 DEF Placed, Owed
<1>11. CASE jobs' = Tail(jobs) \o Mem!Job("remind", d, 1) /\ place' = [place EXCEPT ![d] = "later"]
            /\ attempts[d] <= Retries /\ UNCHANGED <<flightOf, outcome>>
  <2>1. Queued({<<"failed", d>>}, {<<"remind", d>>})
    BY <1>4, <1>11
  <2>2. /\ Has(jobs, Flights(d))' /\ Has(jobs, Its("remind", d))'
        /\ Single(jobs, Flights(d)) => Single(jobs, Flights(d))'
        /\ \A k : k # "failed" /\ k # "remind" =>
             /\ Has(jobs, Its(k, d))' <=> Has(jobs, Its(k, d))
             /\ Single(jobs, Its(k, d)) => Single(jobs, Its(k, d))'
    BY <2>1, WhichKinds, JobFollows
  <2>3. ~Has(jobs, Its("delivered", d))' /\ ~Has(jobs, Its("failed", d))'
        /\ ~Has(jobs, Its("freed", d))'
    BY <1>6, <2>2, WhichKinds, OneFlight DEF JobsOf
  <2>4. /\ place'[d] = "later" /\ \A e \in Delivery : e # d => place'[e] = place[e]
    BY <1>4, <1>11 DEF Inv, Shapes
  <2>5. JobsOf(d)'
    BY <1>3, <1>6, <1>7, <1>8, <1>11, <2>2, <2>3, <2>4 DEF JobsOf
  <2>6. Placed(d)' /\ AwaitedInsert(d)'
    BY <1>3, <1>6, <1>7, <1>8, <1>10, <1>11, <2>2, <2>4 DEF Placed, AwaitedInsert
  <2>7. d \in Owed' => d \in Owed
    BY <2>4 DEF Owed
  <2> QED
    BY <1>3, <1>4, <1>5, <1>8, <1>9, <1>11, <2>1, <2>4, <2>5, <2>6, <2>7, DeliveryStep DEF DeliveryOk
<1>12. CASE /\ \E why \in {"retriesRanOut", "closed"} : Mem!End(d, why)
            /\ flightOf' = [flightOf EXCEPT ![d] = "reporting"]
            /\ jobs' = Tail(jobs)
            /\ UNCHANGED place
  <2>1. Queued({<<"failed", d>>}, {})
    BY <1>4, <1>12
  <2>2. /\ Single(jobs, Flights(d)) => ~Has(jobs, Flights(d))' /\ Single(jobs, Flights(d))'
        /\ \A k : k # "failed" =>
             /\ Has(jobs, Its(k, d))' <=> Has(jobs, Its(k, d))
             /\ Single(jobs, Its(k, d)) => Single(jobs, Its(k, d))'
        /\ Single(jobs, Its("failed", d)) => ~Has(jobs, Its("failed", d))'
    BY <2>1, WhichKinds, JobSpent
  <2>3. /\ flightOf'[d] = "reporting" /\ outcome'[d].times = 1
        /\ \A e \in Delivery : e # d => outcome'[e] = outcome[e] /\ flightOf'[e] = flightOf[e]
    <3>1. outcome[d].times = 0
      BY <1>6, <1>8 DEF Placed
    <3>2. /\ outcome'[d].times = outcome[d].times + 1 /\ \A e \in Delivery : e # d => outcome'[e] = outcome[e]
      BY <1>4, <1>12, EndIs DEF Inv
    <3>3. flightOf'[d] = "reporting" /\ \A e \in Delivery : e # d => flightOf'[e] = flightOf[e]
      BY <1>4, <1>12 DEF Inv, Shapes
    <3> QED
      BY <3>1, <3>2, <3>3
  <2>4. ~Has(jobs, Its("delivered", d))' /\ ~Has(jobs, Its("remind", d))'
        /\ ~Has(jobs, Its("freed", d))'
    BY <1>6, <1>7, <2>2, WhichKinds, OneFlight DEF JobsOf
  <2>5. JobsOf(d)'
    BY <1>3, <1>6, <1>7, <1>8, <1>12, <2>2, <2>3, <2>4 DEF JobsOf
  <2>6. Placed(d)' /\ AwaitedInsert(d)'
    BY <1>3, <1>6, <1>7, <1>8, <1>10, <1>12, <2>2, <2>3 DEF Placed, AwaitedInsert
  <2>7. d \in Owed' => d \in Owed
    BY <1>3, <1>12 DEF Owed
  <2> QED
    BY <1>3, <1>4, <1>5, <1>8, <1>9, <1>12, <2>1, <2>3, <2>5, <2>6, <2>7, DeliveryStep DEF DeliveryOk
<1> QED
  BY <1>3, <1>11, <1>12

LEMMA StepListen == Inv /\ Mem!Listen => Inv'
<1> SUFFICES ASSUME Inv, Mem!Listen PROVE Inv'
  OBVIOUS
<1>1. Mem!Runs("listen") /\ jobs \in Seq(Jobs) /\ "listen" \in OfDelivery /\ "inserted" \in OfDelivery
      /\ 0 \in 0..4
  BY DEF Inv, Mem!Listen, OfDelivery
<1>2. PICK d : d = Mem!Of
  OBVIOUS
<1>3. /\ UNCHANGED <<attempts, pump, flightOf, reminders, closer>>
      /\ \/ /\ Mem!Closing
            /\ Mem!End(d, "closed")
            /\ jobs' = Tail(jobs)
            /\ UNCHANGED <<place, inserting>>
         \/ /\ ~Mem!Closing
            /\ place' = [place EXCEPT ![d] = "due"]
            /\ inserting' = [inserting EXCEPT ![d] = "pending"]
            /\ jobs' = Tail(jobs) \o Mem!Job("inserted", d, 0)
            /\ UNCHANGED outcome
  BY <1>2 DEF Mem!Listen
<1>4. /\ d \in Delivery /\ {<<"listen", d>>} \subseteq MarksOf(d)
      /\ {<<"inserted", d>>} \subseteq MarksOf(d) /\ {} \subseteq MarksOf(d)
      /\ jobs' = Tail(jobs) => Queued({<<"listen", d>>}, {})
      /\ jobs' = Tail(jobs) \o Mem!Job("inserted", d, 0) =>
           Queued({<<"listen", d>>}, {<<"inserted", d>>})
  BY <1>1, <1>2, DeliveryRuns
<1>5. Shapes'
  <2>1. outcome' \in [Delivery -> [times : Nat, why : {"no", "delivered", "retriesRanOut", "closed"}]]
    BY <1>3, <1>4, EndIs DEF Inv, Shapes
  <2>2. UNCHANGED <<attempts, pump, reminders, closer>>
    BY <1>3
  <2>3. /\ place' \in [Delivery -> {"none", "due", "later", "leased", "gone"}]
        /\ inserting' \in [Delivery -> {"no", "pending", "resolved"}]
        /\ flightOf' \in [Delivery -> {"none", "sending", "reporting", "settling"}]
    BY <1>3, <1>4 DEF Inv, Shapes
  <2> QED
    BY <2>1, <2>2, <2>3 DEF Inv, Shapes
<1>6. JobsOf(d) /\ Placed(d) /\ AwaitedInsert(d)
  BY <1>4 DEF Inv, DeliveryOk
<1>7. Has(jobs, Its("listen", d))
  BY <1>3, <1>4, WhichKinds, JobFollows, JobSpent
<1>8. place[d] = "none" /\ outcome[d].times = 0 /\ inserting[d] = "no" /\ flightOf[d] = "none"
  BY <1>6, <1>7 DEF JobsOf, Placed
<1>9. /\ ~Has(jobs, Flights(d)) /\ ~Has(jobs, Its("inserted", d))
      /\ \A k \in {"done", "elem", "delivered", "failed", "remind", "freed"} : ~Has(jobs, Its(k, d))
  BY <1>6, <1>8 DEF JobsOf
<1>10. CASE /\ Mem!Closing
            /\ Mem!End(d, "closed")
            /\ jobs' = Tail(jobs)
            /\ UNCHANGED <<place, inserting>>
  <2>1. Queued({<<"listen", d>>}, {})
    BY <1>4, <1>10
  <2>2. /\ Has(jobs, Flights(d))' <=> Has(jobs, Flights(d))
        /\ Single(jobs, Flights(d)) => Single(jobs, Flights(d))'
        /\ \A k : k # "listen" =>
             /\ Has(jobs, Its(k, d))' <=> Has(jobs, Its(k, d))
             /\ Single(jobs, Its(k, d)) => Single(jobs, Its(k, d))'
        /\ Single(jobs, Its("listen", d)) =>
             ~Has(jobs, Its("listen", d))' /\ Single(jobs, Its("listen", d))'
    BY <2>1, WhichKinds, JobSpent
  <2>3. /\ outcome'[d].times = 1
        /\ \A e \in Delivery : e # d => outcome'[e] = outcome[e]
    BY <1>4, <1>8, <1>10, EndIs DEF Inv
  <2>4. JobsOf(d)'
    BY <1>3, <1>6, <1>8, <1>9, <1>10, <2>2 DEF JobsOf
  <2>5. Placed(d)' /\ AwaitedInsert(d)'
    BY <1>3, <1>6, <1>8, <1>9, <1>10, <2>2, <2>3 DEF Placed, AwaitedInsert
  <2>6. d \in Owed' => d \in Owed
    BY <1>3, <1>10 DEF Owed
  <2> QED
    BY <1>3, <1>4, <1>5, <1>8, <1>10, <2>1, <2>3, <2>4, <2>5, <2>6, DeliveryStep DEF DeliveryOk
<1>11. CASE /\ ~Mem!Closing
            /\ place' = [place EXCEPT ![d] = "due"]
            /\ inserting' = [inserting EXCEPT ![d] = "pending"]
            /\ jobs' = Tail(jobs) \o Mem!Job("inserted", d, 0)
            /\ UNCHANGED outcome
  <2>1. Queued({<<"listen", d>>}, {<<"inserted", d>>})
    BY <1>4, <1>11
  <2>2. /\ Has(jobs, Flights(d))' <=> Has(jobs, Flights(d))
        /\ Single(jobs, Flights(d)) => Single(jobs, Flights(d))'
        /\ \A k : k # "listen" /\ k # "inserted" =>
             /\ Has(jobs, Its(k, d))' <=> Has(jobs, Its(k, d))
             /\ Single(jobs, Its(k, d)) => Single(jobs, Its(k, d))'
        /\ Single(jobs, Its("listen", d)) =>
             ~Has(jobs, Its("listen", d))' /\ Single(jobs, Its("listen", d))'
        /\ Has(jobs, Its("inserted", d))'
        /\ ~Has(jobs, Its("inserted", d)) /\ Single(jobs, Its("inserted", d))
             => Single(jobs, Its("inserted", d))'
    BY <2>1, WhichKinds, JobFollows
  <2>3. /\ place'[d] = "due" /\ inserting'[d] = "pending" /\ closer.pc = "open"
        /\ \A e \in Delivery : e # d => place'[e] = place[e] /\ inserting'[e] = inserting[e]
    BY <1>4, <1>11 DEF Inv, Shapes, Mem!Closing
  <2>4. JobsOf(d)'
    BY <1>3, <1>6, <1>8, <1>9, <1>11, <2>2, <2>3 DEF JobsOf
  <2>5. Placed(d)' /\ AwaitedInsert(d)'
    <3>0. attempts' = attempts /\ pump' = pump /\ flightOf' = flightOf /\ outcome' = outcome
      BY <1>3, <1>11
    <3>1. attempts'[d] = 0 /\ outcome'[d].times = 0 /\ 0 <= Retries
      BY <1>6, <1>8, <3>0, WebhookWorkerAssumption DEF Placed
    <3>2. d \notin pump'.batch /\ flightOf'[d] = "none"
      BY <1>6, <1>8, <3>0 DEF Placed
    <3>3. outcome'[d].why = "no"
      BY <1>6, <1>8, <3>0 DEF Placed
    <3>4. Placed(d)'
      BY <2>3, <3>1, <3>2, <3>3 DEF Placed
    <3>5. AwaitedInsert(d)'
      BY <1>3, <1>9, <2>2, <2>3 DEF AwaitedInsert
    <3> QED
      BY <3>4, <3>5
  <2>6. d \in Owed' => d \in Owed
    BY <2>3 DEF Owed
  <2> QED
    <3>1. UNCHANGED <<attempts, pump, flightOf, closer, outcome>>
      BY <1>3, <1>11
    <3>2. DeliveryOk(d)'
      BY <2>4, <2>5 DEF DeliveryOk
    <3>3. flightOf'[d] = flightOf[d]
      BY <3>1
    <3> QED
      BY <1>4, <1>5, <1>8, <2>1, <2>3, <2>6, <3>1, <3>2, <3>3, DeliveryStep
<1> QED
  BY <1>3, <1>10, <1>11

(* What is queued where no job of the delivery's leaves.                   *)
LEMMA DeliveryCalls ==
  ASSUME jobs \in Seq(Jobs), NEW d \in Delivery, NEW next \in OfDelivery, NEW hops \in 0..4,
         \/ jobs' = jobs \o Mem!Job(next, d, hops)
         \/ jobs = <<>> /\ jobs' = Mem!Job(next, d, hops)
  PROVE  Queued({}, {<<next, d>>}) /\ {} \subseteq MarksOf(d) /\ {<<next, d>>} \subseteq MarksOf(d)
<1>1. [kind |-> next, of |-> d, hops |-> hops] \in Jobs /\ next # "answered"
  BY DEF Jobs, OfDelivery, Mem!Kinds
<1>2. Carries(Mem!Job(next, d, hops), {<<next, d>>})
  BY <1>1, CarriesOne
<1>3. jobs' = jobs \o Mem!Job(next, d, hops)
  <2> DEFINE s == Mem!Job(next, d, hops)
  <2>1. s \in Seq(Jobs)
    BY <1>2 DEF Carries
  <2> HIDE DEF s
  <2>2. s = <<>> \o s
    BY <2>1
  <2> QED
    BY <2>2 DEF s
<1> QED
  BY <1>2, <1>3, QueuedCalls DEF MarksOf

LEMMA QueuedStays ==
  ASSUME jobs \in Seq(Jobs), UNCHANGED jobs
  PROVE  Queued({}, {})
<1>1. jobs = jobs \o <<>>
  OBVIOUS
<1>2. jobs' = jobs \o <<>>
  BY <1>1
<1> QED
  BY <1>2, CarriesNone, QueuedCalls

LEMMA StepCall ==
  ASSUME Inv, NEW d \in Delivery, Mem!Call(d)
  PROVE  Inv'
<1>1. /\ place[d] = "none" /\ outcome[d].times = 0
      /\ jobs' = jobs \o Mem!Job("listen", d, 0)
      /\ UNCHANGED <<place, attempts, inserting, pump, flightOf, reminders, closer, outcome>>
  BY DEF Mem!Call
<1>2. ~Has(jobs, Its("listen", d))
  BY DEF Mem!Call, Has, Its, Mark
<1>3. "listen" \in OfDelivery /\ 0 \in 0..4 /\ jobs \in Seq(Jobs)
  BY DEF OfDelivery, Inv
<1>4. Queued({}, {<<"listen", d>>}) /\ {} \subseteq MarksOf(d) /\ {<<"listen", d>>} \subseteq MarksOf(d)
  BY <1>1, <1>3, DeliveryCalls
<1>5. Shapes'
  BY <1>1 DEF Inv, Shapes
<1>6. JobsOf(d) /\ Placed(d) /\ AwaitedInsert(d)
  BY DEF Inv, DeliveryOk
<1>7. /\ Single(jobs, Its("listen", d)) => Single(jobs, Its("listen", d))'
      /\ \A k : k # "listen" =>
           /\ Has(jobs, Its(k, d))' <=> Has(jobs, Its(k, d))
           /\ Single(jobs, Its(k, d)) => Single(jobs, Its(k, d))'
      /\ Has(jobs, Flights(d))' <=> Has(jobs, Flights(d))
      /\ Single(jobs, Flights(d)) => Single(jobs, Flights(d))'
  BY <1>2, <1>4, WhichKinds, JobCalled
<1>8. JobsOf(d)'
  BY <1>1, <1>6, <1>7 DEF JobsOf
<1>9. Placed(d)' /\ AwaitedInsert(d)'
  BY <1>1, <1>6, <1>7 DEF Placed, AwaitedInsert
<1>10. d \in Owed' => d \in Owed
  BY <1>1 DEF Owed
<1>11. closer.pc = "closed" => place'[d] \in {"none", "gone"}
  BY <1>1
<1>12. DeliveryOk(d)' /\ flightOf'[d] = flightOf[d]
  BY <1>1, <1>8, <1>9 DEF DeliveryOk
<1> QED
  BY <1>1, <1>4, <1>5, <1>10, <1>11, <1>12, DeliveryStep

LEMMA StepResponse ==
  ASSUME Inv, NEW d \in Delivery, Mem!Response(d)
  PROVE  Inv'
<1>1. PICK kind \in {"delivered", "failed"} :
        /\ jobs = <<>> /\ flightOf[d] = "sending"
        /\ jobs' = Mem!Job(kind, d, 2)
        /\ flightOf' = [flightOf EXCEPT ![d] = "settling"]
        /\ UNCHANGED <<place, attempts, inserting, pump, reminders, closer, outcome>>
  BY DEF Mem!Response
<1>2. kind \in OfDelivery /\ 2 \in 0..4 /\ jobs \in Seq(Jobs)
  BY DEF OfDelivery, Inv
<1>3. Queued({}, {<<kind, d>>}) /\ {} \subseteq MarksOf(d) /\ {<<kind, d>>} \subseteq MarksOf(d)
  BY <1>1, <1>2, DeliveryCalls
<1>4. Shapes' /\ flightOf'[d] = "settling" /\ \A e \in Delivery : e # d => flightOf'[e] = flightOf[e]
  BY <1>1 DEF Inv, Shapes
<1>5. JobsOf(d) /\ Placed(d) /\ AwaitedInsert(d)
  BY DEF Inv, DeliveryOk
<1>6. place[d] = "leased" /\ ~Has(jobs, Flights(d)) /\ d \notin pump.batch /\ outcome[d].times = 0
  BY <1>1, <1>5 DEF JobsOf, Placed, Inv, Shapes
<1>7. kind \in FlightKinds
  BY WhichKinds
<1>8. /\ Single(jobs, Flights(d)) => Single(jobs, Flights(d))'
      /\ Has(jobs, Flights(d))' /\ Has(jobs, Its(kind, d))'
      /\ \A k : k # kind =>
           /\ Has(jobs, Its(k, d))' <=> Has(jobs, Its(k, d))
           /\ Single(jobs, Its(k, d)) => Single(jobs, Its(k, d))'
  BY <1>3, <1>6, <1>7, JobCalled
<1>9. ~Has(jobs, Its("remind", d))' /\ ~Has(jobs, Its("freed", d))'
  <2>1. Single(jobs, Flights(d))'
    BY <1>5, <1>8 DEF JobsOf
  <2> QED
    BY <1>7, <1>8, <2>1, WhichKinds, OneFlight
<1>10. \A k : k \in {"listen", "inserted", "done", "elem"} =>
           /\ Has(jobs, Its(k, d))' <=> Has(jobs, Its(k, d))
           /\ Single(jobs, Its(k, d)) => Single(jobs, Its(k, d))'
  BY <1>8
<1>11. JobsOf(d)'
  BY <1>1, <1>4, <1>5, <1>6, <1>8, <1>9, <1>10 DEF JobsOf
<1>12. Placed(d)' /\ AwaitedInsert(d)'
  BY <1>1, <1>4, <1>5, <1>6, <1>10 DEF Placed, AwaitedInsert
<1>13. (d \in Owed' => d \in Owed) /\ closer.pc # "closed"
  BY <1>1, <1>6 DEF Owed, Inv, CloserOk
<1>14. DeliveryOk(d)'
  BY <1>11, <1>12 DEF DeliveryOk
<1>15. flightOf[d] # "none"
  BY <1>1
<1> QED
  BY <1>1, <1>3, <1>4, <1>13, <1>14, <1>15, DeliveryStep

LEMMA StepReported ==
  ASSUME Inv, NEW d \in Delivery, Mem!Reported(d)
  PROVE  Inv'
<1>1. /\ jobs = <<>> /\ flightOf[d] = "reporting"
      /\ place' = [place EXCEPT ![d] = "gone"]
      /\ flightOf' = [flightOf EXCEPT ![d] = "settling"]
      /\ jobs' = Mem!Job("freed", d, 4)
      /\ UNCHANGED <<attempts, inserting, pump, reminders, closer, outcome>>
  BY DEF Mem!Reported
<1>2. "freed" \in OfDelivery /\ 4 \in 0..4 /\ jobs \in Seq(Jobs)
  BY DEF OfDelivery, Inv
<1>3. Queued({}, {<<"freed", d>>}) /\ {} \subseteq MarksOf(d) /\ {<<"freed", d>>} \subseteq MarksOf(d)
  BY <1>1, <1>2, DeliveryCalls
<1>4. /\ Shapes' /\ flightOf'[d] = "settling" /\ place'[d] = "gone"
      /\ \A e \in Delivery : e # d => flightOf'[e] = flightOf[e] /\ place'[e] = place[e]
  BY <1>1 DEF Inv, Shapes
<1>5. JobsOf(d) /\ Placed(d) /\ AwaitedInsert(d)
  BY DEF Inv, DeliveryOk
<1>6. place[d] = "leased" /\ ~Has(jobs, Flights(d)) /\ d \notin pump.batch /\ outcome[d].times = 1
  BY <1>1, <1>5 DEF JobsOf, Placed, Inv, Shapes
<1>7. /\ Single(jobs, Flights(d)) => Single(jobs, Flights(d))'
      /\ Has(jobs, Flights(d))' /\ Has(jobs, Its("freed", d))'
      /\ \A k : k # "freed" =>
           /\ Has(jobs, Its(k, d))' <=> Has(jobs, Its(k, d))
           /\ Single(jobs, Its(k, d)) => Single(jobs, Its(k, d))'
  BY <1>3, <1>6, WhichKinds, JobCalled
<1>8. ~Has(jobs, Its("remind", d))' /\ ~Has(jobs, Its("delivered", d))' /\ ~Has(jobs, Its("failed", d))'
  <2>1. Single(jobs, Flights(d))'
    BY <1>5, <1>7 DEF JobsOf
  <2> QED
    BY <1>7, <2>1, WhichKinds, OneFlight
<1>9. JobsOf(d)'
  BY <1>1, <1>4, <1>5, <1>6, <1>7, <1>8 DEF JobsOf
<1>10. Placed(d)' /\ AwaitedInsert(d)'
  BY <1>1, <1>4, <1>5, <1>6, <1>7 DEF Placed, AwaitedInsert
<1>11. d \notin Owed' /\ flightOf[d] # "none"
  BY <1>1, <1>4 DEF Owed
<1>12. DeliveryOk(d)'
  BY <1>9, <1>10 DEF DeliveryOk
<1> QED
  BY <1>1, <1>3, <1>4, <1>11, <1>12, DeliveryStep

LEMMA StepFallsDue ==
  ASSUME Inv, NEW d \in Delivery, Mem!FallsDue(d)
  PROVE  Inv'
<1>1. /\ jobs = <<>> /\ place[d] = "later" /\ ~pump.held
      /\ place' = [place EXCEPT ![d] = "due"]
      /\ UNCHANGED <<jobs, attempts, inserting, pump, flightOf, reminders, closer, outcome>>
  BY DEF Mem!FallsDue
<1>2. Queued({}, {}) /\ {} \subseteq MarksOf(d)
  BY <1>1, QueuedStays DEF Inv
<1>3. /\ Shapes' /\ place'[d] = "due"
      /\ \A e \in Delivery : e # d => place'[e] = place[e]
  BY <1>1 DEF Inv, Shapes
<1>4. JobsOf(d) /\ Placed(d) /\ AwaitedInsert(d)
  BY DEF Inv, DeliveryOk
<1>5. /\ \A K : ~Has(jobs, K)
      /\ \A K : Has(jobs, K)' <=> Has(jobs, K)
      /\ \A K : Single(jobs, K)' <=> Single(jobs, K)
  BY <1>1 DEF Has, Single
<1>6. flightOf[d] = "none" /\ attempts[d] > 0 /\ closer.pc # "closed"
  BY <1>1, <1>4, <1>5 DEF JobsOf, Placed, Inv, CloserOk
<1>7. JobsOf(d)'
  BY <1>1, <1>3, <1>4, <1>5 DEF JobsOf
<1>8. Placed(d)' /\ AwaitedInsert(d)'
  BY <1>1, <1>3, <1>4, <1>5, <1>6 DEF Placed, AwaitedInsert
<1>9. d \notin Owed'
  <2>1. attempts'[d] # 0
    BY <1>1, <1>6 DEF Inv, Shapes
  <2> QED
    BY <2>1 DEF Owed
<1>10. DeliveryOk(d)' /\ flightOf'[d] = flightOf[d]
  BY <1>1, <1>7, <1>8 DEF DeliveryOk
<1> QED
  BY <1>1, <1>2, <1>3, <1>6, <1>9, <1>10, DeliveryStep

-----------------------------------------------------------------------------
(* Jobs of no delivery: the pump's, and close()'s.                         *)

OwnKinds == Mem!Kinds \ OfDelivery
PumpKinds == {"answered", "decide", "finally"}
CloserKinds == {"flush", "afterIdle", "flushed", "stopped", "abandon"}

LEMMA OwnMarks ==
  ASSUME NEW kind \in OwnKinds
  PROVE  /\ \A d : ~Meets({<<kind, None>>}, MarksOf(d))
         /\ \A k : Meets({<<kind, None>>}, Only(k)) <=> kind = k
         /\ Meets({<<kind, None>>}, Pumps) <=> kind \in PumpKinds
         /\ Meets({<<kind, None>>}, Closers) <=> kind \in CloserKinds
         /\ \A K : Alone({<<kind, None>>}, K)
  BY DEF OwnKinds, MarksOf, Meets, Only, Pumps, Closers, PumpKinds, CloserKinds, Alone

LEMMA OwnWhich ==
  /\ PumpKinds \cup CloserKinds \cup {"idled", "close"} \subseteq OwnKinds
  /\ "answered" \in PumpKinds /\ "decide" \in PumpKinds /\ "finally" \in PumpKinds
  /\ "idled" \notin PumpKinds /\ "close" \notin PumpKinds
  /\ "idled" \notin CloserKinds /\ "close" \notin CloserKinds
  /\ "flush" \in CloserKinds /\ "afterIdle" \in CloserKinds /\ "flushed" \in CloserKinds
  /\ "stopped" \in CloserKinds /\ "abandon" \in CloserKinds
  /\ \A k \in PumpKinds : k \notin CloserKinds
  /\ \A k \in CloserKinds : k \notin PumpKinds
  BY DEF PumpKinds, CloserKinds, OwnKinds, Mem!Kinds, OfDelivery

LEMMA OwnCarries ==
  ASSUME NEW kind \in OwnKinds, NEW hops \in 0..4,
         kind = "answered" => hops = 2, kind = "idled" => hops = 2,
         kind \in {"decide", "finally"} => hops = 0
  PROVE  Carries(Mem!Job(kind, None, hops), {<<kind, None>>})
<1>1. [kind |-> kind, of |-> None, hops |-> hops] \in Jobs
  BY DEF Jobs, OwnKinds
<1> QED
  BY <1>1, CarriesOne

LEMMA OwnRuns ==
  ASSUME jobs \in Seq(Jobs), NEW kind \in OwnKinds, Mem!Runs(kind)
  PROVE  /\ Mem!Of = None /\ jobs # <<>> /\ Mark(Head(jobs)) = <<kind, None>> /\ Head(jobs).hops = 0
         /\ \A K : <<kind, None>> \in K => Has(jobs, K)
         /\ jobs' = Tail(jobs) => Queued({<<kind, None>>}, {})
         /\ \A new, M : Carries(new, M) /\ jobs' = Tail(jobs) \o new
                          => Queued({<<kind, None>>}, M)
<1>1. /\ jobs # <<>> /\ Mark(Head(jobs)) = <<kind, Mem!Of>> /\ Head(jobs).hops = 0
      /\ Mem!Of \in IF kind \in OfDelivery THEN Delivery ELSE {None}
      /\ \A K : <<kind, Mem!Of>> \in K => Has(jobs, K)
  BY RunsHead
<1>2. Mem!Of = None
  BY <1>1 DEF OwnKinds
<1> QED
  BY <1>1, <1>2, QueuedLeaves, QueuedRuns

(* Where only jobs change, of no delivery.                                 *)
LEMMA DeliveriesKept ==
  ASSUME Inv, Shapes', \A d \in Delivery : Untouched(MarksOf(d)),
         pump'.batch = pump.batch, UNCHANGED <<place, attempts, inserting, flightOf, outcome>>,
         \/ closer'.pc = closer.pc /\ closer'.waiting = closer.waiting
         \/ closer.pc \notin {"open", "inserting"}
         \/ closer.pc = "inserting" /\ closer.waiting = {}
  PROVE  /\ \A d \in Delivery : DeliveryOk(d)'
         /\ IsFiniteSet(Accepted)'
         /\ Owed' = Owed /\ Mem!InFlight(flightOf)' = Mem!InFlight(flightOf)
<1>1. \A d \in Delivery : DeliveryOk(d)'
  BY DeliveryKept
<1>2. Accepted' = Accepted
  BY DEF Accepted
<1>3. IsFiniteSet(Accepted')
  BY <1>2 DEF Inv
<1>4. IsFiniteSet(Accepted)'
  BY <1>3 DEF Accepted
<1>5. Owed' = Owed /\ Mem!InFlight(flightOf)' = Mem!InFlight(flightOf)
  BY DEF Owed, Mem!InFlight
<1> QED
  BY <1>1, <1>4, <1>5

(* The microtask queue hops, or nothing happens.                           *)
LEMMA SameKept ==
  ASSUME Inv, UNCHANGED <<place, attempts, inserting, pump, flightOf, reminders, closer, outcome>>,
         jobs' \in Seq(Jobs),
         \A K : /\ Has(jobs, K)' <=> Has(jobs, K)
                /\ Single(jobs, K) => Single(jobs, K)',
         Sooner(jobs, Only("idled"), Only("answered")) =>
           Sooner(jobs, Only("idled"), Only("answered"))',
         Before(jobs, Only("finally"), Only("flush")) =>
           Before(jobs, Only("finally"), Only("flush"))'
  PROVE  Inv'
<1>1. Shapes'
  BY DEF Inv, Shapes
<1>2. \A X : Untouched(X)
  BY DEF Untouched
<1>3. /\ \A d \in Delivery : DeliveryOk(d)'
      /\ IsFiniteSet(Accepted)'
      /\ Owed' = Owed /\ Mem!InFlight(flightOf)' = Mem!InFlight(flightOf)
  BY <1>1, <1>2, DeliveriesKept
<1>4. PumpOk'
  BY <1>2, <1>3, PumpKept
<1>5. IdledFirst'
  BY DEF Inv, IdledFirst
<1>6. CloserOk'
  <2>1. /\ Single(jobs, Only("close"))'
        /\ closer.pc = "closed" => \A d \in Delivery : place'[d] \in {"none", "gone"}
    BY DEF Inv, CloserOk
  <2> QED
    BY <1>2, <1>3, <2>1, CloserKept
<1> QED
  BY <1>1, <1>3, <1>4, <1>5, <1>6 DEF Inv

LEMMA StepHop == Inv /\ Mem!Hop => Inv'
<1> SUFFICES ASSUME Inv, Mem!Hop PROVE Inv'
  OBVIOUS
<1>1. /\ jobs \in Seq(Jobs) /\ jobs # <<>> /\ Head(jobs).hops > 0
      /\ jobs' = Append(Tail(jobs), [Head(jobs) EXCEPT !.hops = @ - 1])
      /\ UNCHANGED <<place, attempts, inserting, pump, flightOf, reminders, closer, outcome>>
  BY DEF Inv, Mem!Hop
<1>2. Mark(Head(jobs)) \notin Only("finally")
  <2>1. Head(jobs) \in Jobs
    BY <1>1
  <2> QED
    BY <1>1, <2>1 DEF Jobs, Mark, Only
<1>3. /\ jobs' \in Seq(Jobs)
      /\ \A K : /\ Has(jobs', K) <=> Has(jobs, K)
                /\ Single(jobs, K) => Single(jobs', K)
      /\ \A K, L : Sooner(jobs, K, L) => Sooner(jobs', K, L)
      /\ \A K, L : Before(jobs, K, L) /\ Mark(Head(jobs)) \notin K => Before(jobs', K, L)
  <2>1. PICK later : later = jobs'
    OBVIOUS
  <2>2. later = Append(Tail(jobs), [Head(jobs) EXCEPT !.hops = @ - 1])
    BY <1>1, <2>1
  <2> QED
    BY <1>1, <2>1, <2>2, HopKeeps
<1>4. /\ \A K : /\ Has(jobs, K)' <=> Has(jobs, K)
                /\ Single(jobs, K) => Single(jobs, K)'
      /\ Sooner(jobs, Only("idled"), Only("answered")) =>
           Sooner(jobs, Only("idled"), Only("answered"))'
      /\ Before(jobs, Only("finally"), Only("flush")) =>
           Before(jobs, Only("finally"), Only("flush"))'
  <2>1. \A K : (Has(jobs, K)' <=> Has(jobs', K)) /\ (Single(jobs, K)' <=> Single(jobs', K))
    BY DEF Has, Single
  <2>2. Sooner(jobs, Only("idled"), Only("answered"))'
          <=> Sooner(jobs', Only("idled"), Only("answered"))
    BY DEF Sooner
  <2>3. Before(jobs, Only("finally"), Only("flush"))'
          <=> Before(jobs', Only("finally"), Only("flush"))
    BY DEF Before
  <2> QED
    BY <1>2, <1>3, <2>1, <2>2, <2>3
<1> QED
  BY <1>1, <1>3, <1>4, SameKept

LEMMA StepStutter == Inv /\ UNCHANGED Mem!vars => Inv'
<1> SUFFICES ASSUME Inv, UNCHANGED Mem!vars PROVE Inv'
  OBVIOUS
<1>1. UNCHANGED <<jobs, place, attempts, inserting, pump, flightOf, reminders, closer, outcome>>
  BY DEF Mem!vars
<1>2. jobs' \in Seq(Jobs)
  BY <1>1 DEF Inv
<1>3. /\ \A K : /\ Has(jobs, K)' <=> Has(jobs, K)
                /\ Single(jobs, K) => Single(jobs, K)'
      /\ Sooner(jobs, Only("idled"), Only("answered")) =>
           Sooner(jobs, Only("idled"), Only("answered"))'
      /\ Before(jobs, Only("finally"), Only("flush")) =>
           Before(jobs, Only("finally"), Only("flush"))'
  BY <1>1 DEF Has, Single, Sooner, Before
<1> QED
  BY <1>1, <1>2, <1>3, SameKept

-----------------------------------------------------------------------------
(* pumpOnce and wake, by what they come to.                                *)

PumpShape ==
  [pumping : BOOLEAN, again : BOOLEAN, saturated : BOOLEAN, full : BOOLEAN,
   free : 0..concurrency, batch : SUBSET Delivery,
   claimedNothing : BOOLEAN, held : BOOLEAN, stopped : BOOLEAN]

Due == {d \in Delivery : place[d] = "due"}

(* No slot is free and the loop decides, or what is due is claimed.        *)
ClaimsFor(p, flying, M) ==
  /\ pump' \in PumpShape
  /\ pump'.pumping = p.pumping /\ pump'.held = p.held /\ pump'.stopped = p.stopped
  /\ pump'.claimedNothing = p.claimedNothing
  /\ \/ /\ M = Only("decide") /\ Cardinality(Mem!InFlight(flying)) >= concurrency
        /\ pump'.batch = {} /\ UNCHANGED <<place, attempts>>
     \/ /\ M = Only("answered") /\ Cardinality(Mem!InFlight(flying)) < concurrency
        /\ pump'.free = concurrency - Cardinality(Mem!InFlight(flying))
        /\ pump'.batch \subseteq Due /\ Cardinality(pump'.batch) <= pump'.free
        /\ pump'.batch = {} => Due = {}
        /\ place' = [d \in Delivery |-> IF d \in pump'.batch THEN "leased" ELSE place[d]]
        /\ attempts' = [d \in Delivery |-> IF d \in pump'.batch THEN attempts[d] + 1
                                           ELSE attempts[d]]

LEMMA BatchIs ==
  ASSUME Inv, NEW free \in Nat \ {0}, NEW S \in Mem!Batches(Due, free)
  PROVE  /\ S \subseteq Due /\ Cardinality(S) <= free
         /\ S = {} => Due = {}
<1>1. Due \subseteq Accepted
  BY DEF Due, Accepted
<1>2. IsFiniteSet(Due)
  BY <1>1, FS_Subset DEF Inv
<1>3. Cardinality(Due) \in Nat
  BY <1>2, FS_CardinalityType
<1>4. /\ S \subseteq Due
      /\ Cardinality(S) = IF Cardinality(Due) < free THEN Cardinality(Due) ELSE free
  <2>1. /\ S \subseteq Due
        /\ Mem!Cardinality(S) = IF Mem!Cardinality(Due) < free THEN Mem!Cardinality(Due) ELSE free
    BY DEF Mem!Batches
  <2> QED
    BY <2>1, SameCardinality
<1>5. ASSUME S = {} PROVE Due = {}
  <2>1. Cardinality(S) = 0
    BY <1>5, FS_EmptySet
  <2>2. Cardinality(Due) = 0
    BY <1>3, <1>4, <2>1
  <2> QED
    BY <1>2, <2>2, FS_EmptySet
<1>6. Cardinality(S) <= free
  BY <1>3, <1>4
<1> QED
  BY <1>4, <1>5, <1>6

LEMMA ConcatTwice ==
  ASSUME NEW s \in Seq(Jobs), NEW t \in Seq(Jobs), NEW r \in Seq(Jobs)
  PROVE  (s \o t) \o r = s \o (t \o r)
  BY ConcatAssociative

LEMMA PumpOnceIs ==
  ASSUME Inv, NEW q \in PumpShape, q.batch = {}, NEW flying, NEW before \in Seq(Jobs),
         Mem!InFlight(flying) \subseteq Mem!InFlight(flightOf),
         NEW after, NEW A, Carries(after, A), ~Meets(A, Pumps),
         Mem!PumpOnce(q, flying, before, after)
  PROVE  \E M, new : /\ ClaimsFor(q, flying, M) /\ Carries(new, M \cup A)
                     /\ jobs' = before \o new
<1>1. PICK f \in Int : f = concurrency - Cardinality(Mem!InFlight(flying)) /\ f <= concurrency
  BY FlightsFinite, WebhookWorkerAssumption
<1>2. after \in Seq(Jobs)
  BY DEF Carries
<1>3. CASE f <= 0
  <2>1. /\ pump' = [q EXCEPT !.again = FALSE, !.saturated = TRUE, !.full = FALSE]
        /\ jobs' = before \o Mem!Job("decide", None, 0) \o after
        /\ UNCHANGED <<place, attempts>>
    <3>1. concurrency - Mem!Cardinality(Mem!InFlight(flying)) <= 0
      BY <1>1, <1>3, SameCardinality
    <3> QED
      BY <3>1 DEF Mem!PumpOnce
  <2>2. Cardinality(Mem!InFlight(flying)) >= concurrency
    BY <1>1, <1>3, FlightsFinite, WebhookWorkerAssumption
  <2>3. ClaimsFor(q, flying, Only("decide"))
    BY <2>1, <2>2 DEF ClaimsFor, PumpShape
  <2>4. Carries(Mem!Job("decide", None, 0), Only("decide"))
    BY OwnCarries, OwnWhich DEF Only
  <2>5. Only("decide") \cap A = {}
    BY DEF Only, Meets, Pumps
  <2>6. PICK new : new = Mem!Job("decide", None, 0) \o after
    OBVIOUS
  <2>7. Carries(new, Only("decide") \cup A)
    BY <2>4, <2>5, <2>6, CarriesBoth
  <2>8. jobs' = before \o new
    BY <1>2, <2>1, <2>4, <2>6, ConcatTwice DEF Carries
  <2> QED
    BY <2>3, <2>7, <2>8
<1>4. CASE f > 0
  <2>1. PICK S \in Mem!Batches(Due, f) :
              /\ pump' = [q EXCEPT !.again = FALSE, !.free = f, !.batch = S]
              /\ place' = [d \in Delivery |-> IF d \in S THEN "leased" ELSE place[d]]
              /\ attempts' = [d \in Delivery |-> IF d \in S THEN attempts[d] + 1
                                                 ELSE attempts[d]]
              /\ jobs' = before \o Mem!Job("answered", None, 2) \o after
    <3>1. PICK S \in Mem!Batches(Due, f) :
                /\ pump' = [q EXCEPT !.again = FALSE,
                                     !.free = concurrency - Cardinality(Mem!InFlight(flying)),
                                     !.batch = S]
                /\ place' = [d \in Delivery |-> IF d \in S THEN "leased" ELSE place[d]]
                /\ attempts' = [d \in Delivery |-> IF d \in S THEN attempts[d] + 1
                                                   ELSE attempts[d]]
                /\ jobs' = before \o Mem!Job("answered", None, 2) \o after
      <4>1. concurrency - Mem!Cardinality(Mem!InFlight(flying)) = f /\ ~(f <= 0)
        BY <1>1, <1>4, SameCardinality
      <4>2. \E S \in Mem!Batches(Due, f) :
                /\ pump' = [q EXCEPT !.again = FALSE,
                                     !.free = concurrency - Mem!Cardinality(Mem!InFlight(flying)),
                                     !.batch = S]
                /\ place' = [d \in Delivery |-> IF d \in S THEN "leased" ELSE place[d]]
                /\ attempts' = [d \in Delivery |-> IF d \in S THEN attempts[d] + 1
                                                   ELSE attempts[d]]
                /\ jobs' = before \o Mem!Job("answered", None, 2) \o after
        BY <4>1 DEF Mem!PumpOnce, Due
      <4> QED
        BY <4>2, SameCardinality
    <3> QED
      BY <1>1, <3>1
  <2>2. f \in Nat \ {0} /\ f \in 0..concurrency /\ Cardinality(Mem!InFlight(flying)) < concurrency
    BY <1>1, <1>4, FlightsFinite, WebhookWorkerAssumption
  <2>3. /\ S \subseteq Due /\ Cardinality(S) <= f
        /\ S = {} => Due = {}
    BY <2>1, <2>2, BatchIs
  <2>4. /\ pump' \in PumpShape /\ pump'.batch = S /\ pump'.free = f
        /\ pump'.pumping = q.pumping /\ pump'.held = q.held /\ pump'.stopped = q.stopped
        /\ pump'.claimedNothing = q.claimedNothing
    <3>1. S \in SUBSET Delivery
      BY <2>3 DEF Due
    <3> QED
      BY <2>1, <2>2, <3>1 DEF PumpShape
  <2>5. ClaimsFor(q, flying, Only("answered"))
    BY <1>1, <2>1, <2>2, <2>3, <2>4 DEF ClaimsFor
  <2>6. Carries(Mem!Job("answered", None, 2), Only("answered"))
    BY OwnCarries, OwnWhich DEF Only
  <2>7. Only("answered") \cap A = {}
    BY DEF Only, Meets, Pumps
  <2>8. PICK new : new = Mem!Job("answered", None, 2) \o after
    OBVIOUS
  <2>9. Carries(new, Only("answered") \cup A)
    BY <2>6, <2>7, <2>8, CarriesBoth
  <2>10. jobs' = before \o new
    BY <1>2, <2>1, <2>6, <2>8, ConcatTwice DEF Carries
  <2> QED
    BY <2>5, <2>9, <2>10
<1>5. f <= 0 \/ f > 0
  BY <1>1
<1> QED
  BY <1>3, <1>4, <1>5

LEMMA PumpOnceEach ==
  ASSUME Inv
  PROVE  \A q, flying, before, after, A :
           /\ q \in PumpShape /\ q.batch = {} /\ before \in Seq(Jobs)
           /\ Mem!InFlight(flying) \subseteq Mem!InFlight(flightOf)
           /\ Carries(after, A) /\ ~Meets(A, Pumps) /\ Mem!PumpOnce(q, flying, before, after)
           => \E M, new : /\ ClaimsFor(q, flying, M) /\ Carries(new, M \cup A)
                          /\ jobs' = before \o new
  BY PumpOnceIs

(* A wake does nothing, has the loop go round again, or pumps.             *)
Woken(p, flying, N) ==
  \/ /\ N = {} /\ UNCHANGED <<place, attempts>> /\ pump' \in PumpShape
     /\ pump'.pumping = p.pumping /\ pump'.held = p.held /\ pump'.stopped = p.stopped
     /\ pump'.claimedNothing = p.claimedNothing /\ pump'.batch = p.batch /\ pump'.free = p.free
     /\ p.stopped \/ (p.pumping /\ pump'.again)
     /\ p.again => pump'.again
  \/ /\ ~p.stopped /\ ~p.pumping /\ pump'.pumping
     /\ \E q \in PumpShape : /\ ClaimsFor(q, flying, N) /\ q.held = p.held /\ ~q.stopped /\ q.pumping
                             /\ q.claimedNothing = p.claimedNothing

LEMMA WakeIs ==
  ASSUME Inv, NEW p \in PumpShape, ~p.pumping => p.batch = {}, NEW flying, NEW before \in Seq(Jobs),
         Mem!InFlight(flying) \subseteq Mem!InFlight(flightOf),
         NEW after, NEW A, Carries(after, A), ~Meets(A, Pumps),
         Mem!wake(p, flying, before, after)
  PROVE  \E N, new : Woken(p, flying, N) /\ Carries(new, N \cup A) /\ jobs' = before \o new
<1>1. Carries(after, {} \cup A)
  OBVIOUS
<1>2. CASE p.stopped
  <2>1. /\ pump' = p /\ jobs' = before \o after /\ UNCHANGED <<place, attempts>>
    BY <1>2 DEF Mem!wake
  <2>2. Woken(p, flying, {})
    BY <1>2, <2>1 DEF Woken
  <2> QED
    BY <1>1, <2>1, <2>2
<1>3. CASE ~p.stopped /\ p.pumping
  <2>1. /\ pump' = [p EXCEPT !.again = TRUE] /\ jobs' = before \o after
        /\ UNCHANGED <<place, attempts>>
    BY <1>3 DEF Mem!wake
  <2>2. Woken(p, flying, {})
    BY <1>3, <2>1 DEF Woken, PumpShape
  <2> QED
    BY <1>1, <2>1, <2>2
<1>4. CASE ~p.stopped /\ ~p.pumping
  <2>1. PICK q : q = [p EXCEPT !.pumping = TRUE]
    OBVIOUS
  <2>2. Mem!PumpOnce(q, flying, before, after)
    BY <1>4, <2>1 DEF Mem!wake
  <2>3. /\ q \in PumpShape /\ q.batch = {} /\ q.held = p.held /\ ~q.stopped /\ q.pumping
        /\ q.claimedNothing = p.claimedNothing
    BY <1>4, <2>1 DEF PumpShape
  <2>4. PICK M, new : /\ ClaimsFor(q, flying, M) /\ Carries(new, M \cup A) /\ jobs' = before \o new
    BY <2>2, <2>3, PumpOnceEach
  <2>5. pump'.pumping
    BY <2>3, <2>4 DEF ClaimsFor
  <2>6. Woken(p, flying, M)
    BY <1>4, <2>3, <2>4, <2>5 DEF Woken
  <2> QED
    BY <2>4, <2>6
<1> QED
  BY <1>2, <1>3, <1>4


LEMMA WakeEach ==
  ASSUME Inv
  PROVE  \A p, flying, before, after, A :
           /\ p \in PumpShape /\ (~p.pumping => p.batch = {}) /\ before \in Seq(Jobs)
           /\ Mem!InFlight(flying) \subseteq Mem!InFlight(flightOf)
           /\ Carries(after, A) /\ ~Meets(A, Pumps) /\ Mem!wake(p, flying, before, after)
           => \E N, new : Woken(p, flying, N) /\ Carries(new, N \cup A) /\ jobs' = before \o new
  BY WakeIs

-----------------------------------------------------------------------------
(* What a claim, and a wake, do to the queue and to the pump.              *)

Claims(d) == /\ place[d] = "due" /\ place'[d] = "leased" /\ attempts'[d] = attempts[d] + 1
             /\ d \in pump'.batch
Stays(d)  == /\ place'[d] = place[d] /\ attempts'[d] = attempts[d]
             /\ d \in pump'.batch <=> d \in pump.batch

LEMMA OnlyApart ==
  /\ Only("decide") # {} /\ Only("answered") # {} /\ Only("decide") # Only("answered")
<1>1. /\ <<"decide", None>> \in Only("decide") /\ <<"answered", None>> \in Only("answered")
      /\ <<"decide", None>> \notin Only("answered")
  BY DEF Only
<1> QED
  BY <1>1

LEMMA ClaimedIs ==
  ASSUME Inv, pump.batch = {}, NEW p, NEW flying, NEW M, ClaimsFor(p, flying, M)
  PROVE  /\ \A d \in Delivery : Stays(d) \/ Claims(d)
         /\ M \in {Only("decide"), Only("answered")}
         /\ place' \in [Delivery -> {"none", "due", "later", "leased", "gone"}]
         /\ attempts' \in [Delivery -> 0..Retries + 1]
         /\ M = Only("answered") /\ pump'.batch = {} => Owed' = {}
<1>1. CASE /\ M = Only("decide") /\ pump'.batch = {} /\ UNCHANGED <<place, attempts>>
  <2>1. M # Only("answered")
    BY <1>1, OnlyApart
  <2>2. \A d \in Delivery : Stays(d)
    BY <1>1 DEF Stays
  <2> QED
    BY <1>1, <2>1, <2>2 DEF Inv, Shapes
<1>2. CASE /\ M = Only("answered")
           /\ pump'.batch \subseteq Due
           /\ pump'.batch = {} => Due = {}
           /\ place' = [d \in Delivery |-> IF d \in pump'.batch THEN "leased" ELSE place[d]]
           /\ attempts' = [d \in Delivery |-> IF d \in pump'.batch THEN attempts[d] + 1
                                              ELSE attempts[d]]
  <2>1. PICK S : S = pump'.batch
    OBVIOUS
  <2>2. /\ S \subseteq Due
        /\ S = {} => Due = {}
        /\ place' = [d \in Delivery |-> IF d \in S THEN "leased" ELSE place[d]]
        /\ attempts' = [d \in Delivery |-> IF d \in S THEN attempts[d] + 1 ELSE attempts[d]]
    BY <1>2, <2>1
  <2>3. \A d \in Delivery :
          \/ /\ place'[d] = place[d] /\ attempts'[d] = attempts[d] /\ d \notin S
          \/ /\ place[d] = "due" /\ place'[d] = "leased" /\ attempts'[d] = attempts[d] + 1
             /\ d \in S
    BY <2>2 DEF Due
  <2>4. \A d \in Delivery : Stays(d) \/ Claims(d)
    BY <2>1, <2>3 DEF Stays, Claims
  <2>5. place' \in [Delivery -> {"none", "due", "later", "leased", "gone"}]
    BY <2>2 DEF Inv, Shapes
  <2>6. attempts' \in [Delivery -> 0..Retries + 1]
    <3>1. \A d \in Delivery : attempts[d] \in 0..Retries + 1
      BY DEF Inv, Shapes
    <3>2. \A d \in S : attempts[d] <= Retries /\ d \in Delivery
      BY <2>2 DEF Inv, DeliveryOk, Placed, Due
    <3>3. \A n \in 0..Retries + 1 : n <= Retries => n + 1 \in 0..Retries + 1
      BY WebhookWorkerAssumption
    <3> QED
      BY <2>2, <3>1, <3>2, <3>3
  <2>7. S = {} => Owed' = {}
    BY <2>2 DEF Owed, Due
  <2> QED
    BY <1>2, <2>1, <2>4, <2>5, <2>6, <2>7
<1> QED
  BY <1>1, <1>2 DEF ClaimsFor

LEMMA StillOwed ==
  ASSUME Inv, \A d \in Delivery : Stays(d) \/ Claims(d), inserting' = inserting
  PROVE  Owed' \subseteq Owed
<1>1. \A d \in Delivery : place'[d] = "due" => place[d] = "due" /\ attempts'[d] = attempts[d]
  BY DEF Stays, Claims
<1> QED
  BY <1>1 DEF Owed

(* Where a job of the pump's is queued.                                    *)
LEMMA PumpsJob ==
  ASSUME NEW js
  PROVE  Has(js, Pumps) <=> \/ Has(js, Only("answered")) \/ Has(js, Only("decide"))
                            \/ Has(js, Only("finally"))
  BY DEF Has, Pumps, Only

LEMMA IdlePump ==
  ASSUME Inv, ~pump.pumping
  PROVE  /\ pump.batch = {} /\ ~Has(jobs, Only("answered")) /\ ~Has(jobs, Only("decide"))
         /\ ~Has(jobs, Only("finally")) /\ ~Has(jobs, Pumps)
         /\ pump.claimedNothing => Cardinality(Mem!InFlight(flightOf)) < concurrency
         /\ Cardinality(Mem!InFlight(flightOf)) <= concurrency
  BY PumpsJob DEF Inv, PumpOk

Alike(p) == /\ p.pumping = pump.pumping /\ p.stopped = pump.stopped /\ p.free = pump.free
            /\ p.batch = pump.batch /\ p.claimedNothing = pump.claimedNothing

LEMMA WokenIs ==
  ASSUME Inv, NEW p, Alike(p), NEW flying, Mem!InFlight(flying) \subseteq Mem!InFlight(flightOf),
         NEW N, Woken(p, flying, N)
  PROVE  /\ pump' \in PumpShape /\ pump'.held = p.held /\ pump'.stopped = pump.stopped
         /\ pump'.claimedNothing = pump.claimedNothing
         /\ place' \in [Delivery -> {"none", "due", "later", "leased", "gone"}]
         /\ attempts' \in [Delivery -> 0..Retries + 1]
         /\ \A d \in Delivery : Stays(d) \/ Claims(d)
         /\ Accepted' = Accepted
         /\ N \in {{}, Only("decide"), Only("answered")}
         /\ N = {} => /\ pump'.pumping <=> pump.pumping
                      /\ pump.stopped \/ (pump.pumping /\ pump'.again)
                      /\ pump'.batch = pump.batch /\ pump'.free = pump.free
         /\ N # {} => ~pump.stopped /\ ~pump.pumping /\ pump'.pumping
         /\ N = Only("answered") =>
              /\ Cardinality(Mem!InFlight(flying)) < concurrency
              /\ pump'.free = concurrency - Cardinality(Mem!InFlight(flying))
              /\ Cardinality(pump'.batch) <= pump'.free
              /\ pump'.batch = {} => Owed' = {}
         /\ N = Only("decide") => /\ pump'.batch = {} /\ ~pump.claimedNothing
                                  /\ Cardinality(Mem!InFlight(flying)) >= concurrency
<1>1. /\ Only("decide") # {} /\ Only("answered") # {} /\ Only("decide") # Only("answered")
  BY OnlyApart
<1>2. ASSUME \A d \in Delivery : Stays(d) \/ Claims(d)
      PROVE  Accepted' = Accepted
  BY <1>2 DEF Stays, Claims, Accepted
<1>3. CASE /\ N = {} /\ UNCHANGED <<place, attempts>> /\ pump' \in PumpShape
           /\ pump'.pumping = p.pumping /\ pump'.held = p.held /\ pump'.stopped = p.stopped
           /\ pump'.claimedNothing = p.claimedNothing /\ pump'.batch = p.batch /\ pump'.free = p.free
           /\ p.stopped \/ (p.pumping /\ pump'.again)
  <2>1. \A d \in Delivery : Stays(d)
    BY <1>3 DEF Stays, Alike
  <2>2. place' = place /\ attempts' = attempts
    BY <1>3
  <2>3. /\ place' \in [Delivery -> {"none", "due", "later", "leased", "gone"}]
        /\ attempts' \in [Delivery -> 0..Retries + 1]
    BY <2>2 DEF Inv, Shapes
  <2>4. Accepted' = Accepted
    BY <1>2, <2>1
  <2> QED
    BY <1>1, <1>3, <2>1, <2>3, <2>4 DEF Alike
<1>4. CASE /\ ~p.stopped /\ ~p.pumping /\ pump'.pumping
           /\ \E q \in PumpShape : /\ ClaimsFor(q, flying, N) /\ q.held = p.held /\ ~q.stopped /\ q.pumping
                                   /\ q.claimedNothing = p.claimedNothing
  <2>1. PICK q : /\ ClaimsFor(q, flying, N) /\ q.held = p.held /\ ~q.stopped /\ q.pumping
                 /\ q.claimedNothing = p.claimedNothing /\ q \in PumpShape
    BY <1>4
  <2>2. ~pump.stopped /\ ~pump.pumping
    BY <1>4 DEF Alike
  <2>3. /\ pump.batch = {}
        /\ pump.claimedNothing => Cardinality(Mem!InFlight(flightOf)) < concurrency
    BY <2>2, IdlePump
  <2>4. /\ \A d \in Delivery : Stays(d) \/ Claims(d)
        /\ N \in {Only("decide"), Only("answered")}
        /\ place' \in [Delivery -> {"none", "due", "later", "leased", "gone"}]
        /\ attempts' \in [Delivery -> 0..Retries + 1]
        /\ N = Only("answered") /\ pump'.batch = {} => Owed' = {}
    BY <2>1, <2>3, ClaimedIs
  <2>5. Accepted' = Accepted
    BY <1>2, <2>4
  <2>6. /\ pump' \in PumpShape /\ pump'.held = p.held
        /\ pump'.claimedNothing = pump.claimedNothing /\ ~pump'.stopped
        /\ N = Only("answered") =>
              /\ Cardinality(Mem!InFlight(flying)) < concurrency
              /\ pump'.free = concurrency - Cardinality(Mem!InFlight(flying))
              /\ Cardinality(pump'.batch) <= pump'.free
        /\ N = Only("decide") => /\ pump'.batch = {}
                                 /\ Cardinality(Mem!InFlight(flying)) >= concurrency
    BY <1>1, <2>1 DEF ClaimsFor, Alike
  <2>7. pump'.stopped = pump.stopped
    <3>1. pump.stopped \in BOOLEAN /\ pump'.stopped \in BOOLEAN
      BY <2>6 DEF Inv, Shapes, PumpShape
    <3> QED
      BY <2>2, <2>6, <3>1
  <2>8. N = Only("decide") => ~pump.claimedNothing
    <3>1. PICK n, m \in Nat : n = Cardinality(Mem!InFlight(flightOf)) /\ m = Cardinality(Mem!InFlight(flying)) /\ m <= n
      BY FlightsFinite
    <3> QED
      BY <2>3, <2>6, <3>1, WebhookWorkerAssumption
  <2> QED
    BY <1>1, <1>4, <2>2, <2>4, <2>5, <2>6, <2>7, <2>8
<1> QED
  BY <1>3, <1>4 DEF Woken
(* The jobs of a step that wakes the pump, but those of the pump's.        *)
LEMMA WokenJobs ==
  ASSUME NEW N, N \in {{}, Only("decide"), Only("answered")}, NEW A, ~Meets(A, Pumps)
  PROVE  /\ Alone(N \cup A, Pumps)
         /\ Meets(N \cup A, Pumps) <=> N # {}
         /\ Meets(N \cup A, Only("answered")) <=> N = Only("answered")
         /\ Meets(N \cup A, Only("decide")) <=> N = Only("decide")
         /\ ~Meets(N \cup A, Only("finally"))
         /\ \A K : (\A m \in K : m[1] \notin PumpKinds) =>
              /\ Meets(N \cup A, K) <=> Meets(A, K)
              /\ Alone(A, K) => Alone(N \cup A, K)
<1>1. \A K : ~Meets(A, K) \/ \E m \in A : m \in K
  BY DEF Meets
<1>2. \A kind \in PumpKinds : <<kind, None>> \notin A /\ <<kind, None>> \in Pumps
  BY DEF Meets, Pumps, PumpKinds
<1>3. \A m \in A : m \notin Pumps
  BY DEF Meets
<1>4. \A kind, m : m \in Only(kind) <=> m = <<kind, None>>
  BY DEF Only
<1>5. \E kinds \in {{}, {"decide"}, {"answered"}} :
        /\ \A m : m \in N <=> \E kind \in kinds : m = <<kind, None>>
        /\ kinds = {} <=> N = {}
        /\ kinds = {"decide"} <=> N = Only("decide")
        /\ kinds = {"answered"} <=> N = Only("answered")
  <2>1. CASE N = {}
    BY <2>1, OnlyApart
  <2>2. CASE N = Only("decide")
    BY <1>4, <2>2, OnlyApart
  <2>3. CASE N = Only("answered")
    BY <1>4, <2>3, OnlyApart
  <2> QED
    BY <2>1, <2>2, <2>3
<1>6. PICK kinds \in {{}, {"decide"}, {"answered"}} :
        /\ \A m : m \in N <=> \E kind \in kinds : m = <<kind, None>>
        /\ kinds = {} <=> N = {}
        /\ kinds = {"decide"} <=> N = Only("decide")
        /\ kinds = {"answered"} <=> N = Only("answered")
  BY <1>5
<1>7. \A m \in N \cup A : m \in A \/ \E kind \in kinds : m = <<kind, None>>
  BY <1>6
<1>8. /\ "decide" \in PumpKinds /\ "answered" \in PumpKinds /\ "finally" \in PumpKinds
  BY DEF PumpKinds
<1>9. Alone(N \cup A, Pumps)
  BY <1>3, <1>6, <1>7 DEF Alone
<1>10. Meets(N \cup A, Pumps) <=> N # {}
  BY <1>2, <1>3, <1>6, <1>7, <1>8 DEF Meets
<1>11. /\ Meets(N \cup A, Only("answered")) <=> N = Only("answered")
       /\ Meets(N \cup A, Only("decide")) <=> N = Only("decide")
       /\ ~Meets(N \cup A, Only("finally"))
  BY <1>2, <1>4, <1>6, <1>7, <1>8 DEF Meets
<1>12. ASSUME NEW K, \A m \in K : m[1] \notin PumpKinds
       PROVE  /\ Meets(N \cup A, K) <=> Meets(A, K)
              /\ Alone(A, K) => Alone(N \cup A, K)
  <2>1. \A m \in N : m \notin K
    BY <1>6, <1>8, <1>12
  <2> QED
    BY <2>1 DEF Meets, Alone
<1> QED
  BY <1>9, <1>10, <1>11, <1>12

(* The pump, woken.                                                        *)
LEMMA PumpWoken ==
  ASSUME Inv, NEW p, Alike(p), NEW N, Woken(p, flightOf', N), NEW G, NEW A,
         Queued(G, N \cup A), ~Meets(G, Pumps), ~Meets(A, Pumps),
         Mem!InFlight(flightOf') \subseteq Mem!InFlight(flightOf),
         pump.stopped => Owed' \subseteq Owed,
         Has(jobs, Only("finally")) =>
           \/ ~pump.claimedNothing \/ Owed' = {}
           \/ ~pump'.held /\ Before(jobs, Only("finally"), Only("flush"))'
  PROVE  PumpOk'
<1>1. /\ pump' \in PumpShape /\ pump'.stopped = pump.stopped
      /\ pump'.claimedNothing = pump.claimedNothing
      /\ N \in {{}, Only("decide"), Only("answered")}
      /\ N = {} => /\ pump'.pumping <=> pump.pumping
                   /\ pump.stopped \/ (pump.pumping /\ pump'.again)
                   /\ pump'.batch = pump.batch /\ pump'.free = pump.free
      /\ N # {} => ~pump.stopped /\ ~pump.pumping /\ pump'.pumping
      /\ N = Only("answered") =>
           /\ Cardinality(Mem!InFlight(flightOf')) < concurrency
           /\ pump'.free = concurrency - Cardinality(Mem!InFlight(flightOf'))
           /\ Cardinality(pump'.batch) <= pump'.free
           /\ pump'.batch = {} => Owed' = {}
      /\ N = Only("decide") => /\ pump'.batch = {} /\ ~pump.claimedNothing
                               /\ Cardinality(Mem!InFlight(flightOf')) >= concurrency
  BY WokenIs
<1>2. PICK n, m \in Nat : /\ n = Cardinality(Mem!InFlight(flightOf)) /\ m = Cardinality(Mem!InFlight(flightOf'))
                          /\ m <= n
  BY FlightsFinite
<1>3. PICK c \in Nat \ {0} : c = concurrency
  BY WebhookWorkerAssumption
<1>4. PumpOk /\ pump.free \in Nat
  BY DEF Inv, Shapes
<1>5. pump.stopped => Owed' = {}
  BY <1>4 DEF PumpOk
<1>6. /\ Alone(N \cup A, Pumps)
      /\ Meets(N \cup A, Pumps) <=> N # {}
      /\ Meets(N \cup A, Only("answered")) <=> N = Only("answered")
      /\ Meets(N \cup A, Only("decide")) <=> N = Only("decide")
      /\ ~Meets(N \cup A, Only("finally"))
  BY <1>1, WokenJobs
<1>7. \A kind \in {"answered", "decide", "finally"} : ~Meets(G, Only(kind))
  BY DEF Meets, Only, Pumps
<1>8. CASE N = {}
  <2>1. /\ \A kind \in {"answered", "decide", "finally"} :
             Has(jobs, Only(kind))' <=> Has(jobs, Only(kind))
        /\ Has(jobs, Pumps)' <=> Has(jobs, Pumps)
        /\ Single(jobs, Pumps) => Single(jobs, Pumps)'
    BY <1>6, <1>7, <1>8, OnlyApart DEF Queued
  <2>2. Single(jobs, Pumps)' /\ (pump'.pumping <=> Has(jobs, Pumps)')
    BY <1>1, <1>4, <1>8, <2>1 DEF PumpOk
  <2>3. Has(jobs, Pumps) => pump'.again \/ Owed' = {}
    BY <1>1, <1>4, <1>5, <1>8 DEF PumpOk
  <2>4. /\ Has(jobs, Only("answered")) => Has(jobs, Pumps)
        /\ Has(jobs, Only("decide")) => Has(jobs, Pumps)
    BY PumpsJob
  <2>5. Has(jobs, Only("answered")) =>
          /\ pump'.free \in 1..concurrency /\ m + pump'.free <= concurrency
          /\ Cardinality(pump'.batch) <= pump'.free
    <3>1. Has(jobs, Only("answered")) =>
            /\ pump.free \in 1..concurrency /\ n + pump.free <= concurrency
            /\ Cardinality(pump.batch) <= pump.free
      BY <1>2, <1>4 DEF PumpOk
    <3>2. n + pump.free <= c => m + pump.free <= c
      BY <1>2, <1>4
    <3> QED
      BY <1>1, <1>3, <1>8, <3>1, <3>2
  <2>6. ~Has(jobs, Only("answered")) =>
          /\ pump'.batch = {} /\ m <= concurrency
          /\ pump'.claimedNothing => m < concurrency
    <3>1. ~Has(jobs, Only("answered")) =>
            /\ pump.batch = {} /\ n <= concurrency
            /\ pump.claimedNothing => n < concurrency
      BY <1>2, <1>4 DEF PumpOk
    <3>2. (n <= c => m <= c) /\ (n < c => m < c)
      BY <1>2
    <3> QED
      BY <1>1, <1>3, <1>8, <3>1, <3>2
  <2>7. pump'.held /\ ~pump'.pumping => ~pump'.claimedNothing \/ Owed' = {}
    BY <1>1, <1>5, <1>8
  <2> QED
    BY <1>1, <1>2, <1>5, <2>1, <2>2, <2>3, <2>4, <2>5, <2>6, <2>7 DEF PumpOk
<1>9. CASE N # {}
  <2>1. /\ ~Has(jobs, Pumps) /\ ~Has(jobs, Only("answered")) /\ ~Has(jobs, Only("decide"))
        /\ ~Has(jobs, Only("finally")) /\ n <= concurrency
    BY <1>1, <1>2, <1>9, IdlePump
  <2>2. Single(jobs, Pumps)' /\ Has(jobs, Pumps)' /\ ~Has(jobs, Only("finally"))'
    BY <1>4, <1>6, <1>9, <2>1 DEF Queued, PumpOk
  <2>3. m <= concurrency
    BY <1>2, <1>3, <2>1
  <2>4. CASE N = Only("answered")
    <3>1. Has(jobs, Only("answered"))' /\ ~Has(jobs, Only("decide"))'
      BY <1>6, <2>1, <2>4, OnlyApart DEF Queued
    <3>2. /\ pump'.free \in 1..concurrency /\ m + pump'.free <= concurrency
          /\ Cardinality(pump'.batch) <= pump'.free
          /\ pump'.batch = {} => Owed' = {}
      BY <1>1, <1>2, <1>3, <2>4
    <3> QED
      BY <1>1, <1>2, <1>9, <2>2, <3>1, <3>2 DEF PumpOk
  <2>5. CASE N = Only("decide")
    <3>1. ~Has(jobs, Only("answered"))'
      BY <1>6, <2>1, <2>5, OnlyApart DEF Queued
    <3>2. pump'.batch = {} /\ ~pump'.claimedNothing
      BY <1>1, <2>5
    <3> QED
      BY <1>1, <1>2, <1>9, <2>2, <2>3, <3>1, <3>2 DEF PumpOk
  <2> QED
    BY <1>1, <1>9, <2>4, <2>5
<1> QED
  BY <1>8, <1>9
(* close() has not come past the inserts it waits for.                     *)
LEMMA EarlyInserts ==
  ASSUME Inv, NEW d \in Delivery, inserting[d] = "pending"
  PROVE  /\ ~pump.held /\ ~pump.stopped /\ ~Has(jobs, Closers) /\ ~Has(jobs, Only("flush"))
         /\ closer.pc \in {"open", "inserting"} /\ ~Has(jobs, Only("idled"))
         /\ closer.pc = "inserting" => d \in closer.waiting
<1>1. /\ closer.pc \in {"open", "inserting"}
      /\ closer.pc = "inserting" => d \in closer.waiting
  BY DEF Inv, DeliveryOk, AwaitedInsert
<1>2. ~pump.held /\ ~Has(jobs, Only("flush")) /\ ~Has(jobs, Closers)
  <2>1. Has(jobs, Only("flush")) => Has(jobs, Closers)
    BY MarksWithin DEF Has
  <2> QED
    BY <1>1, <2>1 DEF Inv, CloserOk
<1>3. ~pump.stopped
  <2>1. Has(jobs, Only("stopped")) \/ Has(jobs, Only("abandon")) => Has(jobs, Closers)
    BY MarksWithin DEF Has
  <2> QED
    BY <1>1, <1>2, <2>1 DEF Inv, CloserOk
<1>4. ~Has(jobs, Only("idled"))
  BY <1>1 DEF Inv, IdledFirst
<1> QED
  BY <1>1, <1>2, <1>3, <1>4

Typed ==
  /\ inserting \in [Delivery -> {"no", "pending", "resolved"}]
  /\ flightOf \in [Delivery -> {"none", "sending", "reporting", "settling"}]
  /\ reminders \in SUBSET Delivery
  /\ closer \in [pc : {"open", "inserting", "idle", "any", "stop", "flights", "closed", "busy"},
                 waiting : SUBSET Delivery, nothing : BOOLEAN]
  /\ outcome \in [Delivery -> [times : Nat, why : {"no", "delivered", "retriesRanOut", "closed"}]]

LEMMA WokenShapes ==
  ASSUME Inv, NEW p, Alike(p), NEW flying, Mem!InFlight(flying) \subseteq Mem!InFlight(flightOf),
         NEW N, Woken(p, flying, N), Typed'
  PROVE  Shapes'
<1>1. /\ pump' \in PumpShape
      /\ place' \in [Delivery -> {"none", "due", "later", "leased", "gone"}]
      /\ attempts' \in [Delivery -> 0..Retries + 1]
  BY WokenIs
<1> QED
  BY <1>1 DEF Shapes, Typed, PumpShape

(* A step that wakes the pump, but for what it is to deliveries and close(). *)
LEMMA WokenKept ==
  ASSUME Inv, NEW p, Alike(p), NEW N, Woken(p, flightOf', N), NEW G, NEW A,
         Queued(G, N \cup A), ~Meets(G, Pumps), ~Meets(A, Pumps), ~Meets(A, Only("idled")),
         Mem!InFlight(flightOf') \subseteq Mem!InFlight(flightOf), Typed',
         pump.stopped => Owed' \subseteq Owed,
         Has(jobs, Only("finally")) =>
           \/ ~pump.claimedNothing \/ Owed' = {}
           \/ ~pump'.held /\ Before(jobs, Only("finally"), Only("flush"))',
         Has(jobs, Only("idled")) => N # Only("decide") /\ closer'.pc = closer.pc,
         \A d \in Delivery : DeliveryOk(d)', CloserOk'
  PROVE  Inv'
<1>1. Accepted' = Accepted /\ N \in {{}, Only("decide"), Only("answered")}
  BY WokenIs
<1>2. Shapes'
  BY WokenShapes
<1>3. IsFiniteSet(Accepted)'
  <2>1. IsFiniteSet(Accepted')
    BY <1>1 DEF Inv
  <2> QED
    BY <2>1 DEF Accepted
<1>4. PumpOk'
  BY PumpWoken
<1>5. IdledFirst'
  <2>1. /\ Meets(N \cup A, Only("decide")) <=> N = Only("decide")
        /\ ~Meets(N \cup A, Only("finally"))
        /\ Meets(N \cup A, Only("idled")) <=> Meets(A, Only("idled"))
    <3>1. \A m \in Only("idled") : m[1] \notin PumpKinds
      BY DEF Only, PumpKinds
    <3> QED
      BY <1>1, <3>1, WokenJobs
  <2> QED
    BY <2>1, IdledKept
<1>6. jobs' \in Seq(Jobs)
  BY DEF Queued
<1> QED
  BY <1>2, <1>3, <1>4, <1>5, <1>6 DEF Inv

(* What such a step leaves of the jobs it does not queue.                  *)
LEMMA WokenLeaves ==
  ASSUME NEW N, N \in {{}, Only("decide"), Only("answered")}, NEW A, ~Meets(A, Pumps),
         NEW G, Queued(G, N \cup A)
  PROVE  /\ \A d \in Delivery : ~Meets(G, MarksOf(d)) /\ ~Meets(A, MarksOf(d)) => Untouched(MarksOf(d))
         /\ ~Meets(G, Closers) /\ ~Meets(A, Closers) => Untouched(Closers)
         /\ ~Meets(G, Only("close")) /\ ~Meets(A, Only("close")) => Untouched(Only("close"))
         /\ ~Meets(G, Only("idled")) /\ ~Meets(A, Only("idled")) => Untouched(Only("idled"))
<1>1. /\ \A d : \A m \in MarksOf(d) : m[1] \notin PumpKinds
      /\ \A m \in Closers \cup Only("close") \cup Only("idled") : m[1] \notin PumpKinds
  BY DEF MarksOf, OfDelivery, PumpKinds, Closers, Only
<1>2. \A K : (\A m \in K : m[1] \notin PumpKinds) => (Meets(N \cup A, K) <=> Meets(A, K))
  BY WokenJobs
<1>3. \A K : (\A m \in K : m[1] \notin PumpKinds) /\ ~Meets(G, K) /\ ~Meets(A, K) => Untouched(K)
  BY <1>2, Leaves
<1> QED
  BY <1>1, <1>3
LEMMA NoneBefore ==
  ASSUME NEW js, NEW K, NEW L, ~Has(js, L)
  PROVE  Before(js, K, L)
  BY DEF Has, Before

LEMMA PumpTyped ==
  ASSUME Inv
  PROVE  pump \in PumpShape /\ (~pump.pumping => pump.batch = {}) /\ Alike(pump)
  BY IdlePump DEF Inv, Shapes, PumpShape, Alike

(* The deliveries a wake only claims, if anything.                         *)
LEMMA WokenOther ==
  ASSUME Inv, Shapes', NEW e \in Delivery, Untouched(MarksOf(e)), Stays(e) \/ Claims(e),
         inserting'[e] = inserting[e], flightOf'[e] = flightOf[e], outcome'[e] = outcome[e],
         \/ closer'.pc = closer.pc /\ (e \in closer.waiting => e \in closer'.waiting)
         \/ closer.pc \notin {"open", "inserting"}
         \/ closer.pc = "inserting" /\ closer.waiting = {}
  PROVE  DeliveryOk(e)'
  BY DeliveryKept DEF Stays, Claims

LEMMA StepInserted == Inv /\ Mem!Inserted => Inv'
<1> SUFFICES ASSUME Inv, Mem!Inserted PROVE Inv'
  OBVIOUS
<1>1. PICK d : d = Mem!Of
  OBVIOUS
<1>2. /\ Mem!Runs("inserted") /\ jobs \in Seq(Jobs)
      /\ Mem!wake(pump, flightOf, Tail(jobs),
              Mem!Job("done", d, 0) \o (IF d \in closer.waiting THEN Mem!Job("elem", d, 0) ELSE <<>>))
      /\ inserting' = [inserting EXCEPT ![d] = "resolved"]
      /\ UNCHANGED <<flightOf, reminders, closer, outcome>>
  BY <1>1 DEF Inv, Mem!Inserted
<1>3. /\ d \in Delivery /\ jobs # <<>> /\ Mark(Head(jobs)) = <<"inserted", d>>
      /\ Has(jobs, Its("inserted", d)) /\ Tail(jobs) \in Seq(Jobs)
  BY <1>1, <1>2, RunsHead, HeadLeaves DEF OfDelivery, Its
<1>4. JobsOf(d) /\ Placed(d) /\ AwaitedInsert(d) /\ inserting[d] = "pending"
  BY <1>3 DEF Inv, DeliveryOk, JobsOf
<1>5. /\ ~pump.held /\ ~pump.stopped /\ ~Has(jobs, Closers) /\ ~Has(jobs, Only("flush"))
      /\ closer.pc \in {"open", "inserting"} /\ ~Has(jobs, Only("idled"))
  BY <1>3, <1>4, EarlyInserts
<1>6. PICK E : E = IF d \in closer.waiting THEN {<<"elem", d>>} ELSE {}
  OBVIOUS
<1>7. PICK A : A = {<<"done", d>>} \cup E
  OBVIOUS
<1>8. PICK after : /\ after = Mem!Job("done", d, 0) \o (IF d \in closer.waiting THEN Mem!Job("elem", d, 0) ELSE <<>>)
                   /\ Mem!wake(pump, flightOf, Tail(jobs), after)
  BY <1>2
<1>9. Carries(after, A)
  <2>1. Carries(IF d \in closer.waiting THEN Mem!Job("elem", d, 0) ELSE <<>>, E)
    <3>1. [kind |-> "elem", of |-> d, hops |-> 0] \in Jobs
      BY <1>3 DEF Jobs, Mem!Kinds, OfDelivery
    <3>2. Carries(Mem!Job("elem", d, 0), {<<"elem", d>>})
      BY <3>1, CarriesOne
    <3> QED
      BY <1>6, <3>2, CarriesNone
  <2>2. [kind |-> "done", of |-> d, hops |-> 0] \in Jobs
    BY <1>3 DEF Jobs, Mem!Kinds, OfDelivery
  <2>3. Carries(Mem!Job("done", d, 0), {<<"done", d>>})
    BY <2>2, CarriesOne
  <2>4. {<<"done", d>>} \cap E = {}
    BY <1>6
  <2> QED
    BY <1>7, <1>8, <2>1, <2>3, <2>4, CarriesBoth
<1>10. A \subseteq MarksOf(d) /\ {<<"inserted", d>>} \subseteq MarksOf(d)
  BY <1>6, <1>7 DEF MarksOf, OfDelivery
<1>11. /\ ~Meets(A, Pumps) /\ ~Meets(A, Closers) /\ ~Meets(A, Only("idled")) /\ ~Meets(A, Only("close"))
       /\ \A e : e # d => ~Meets(A, MarksOf(e))
       /\ ~Meets({<<"inserted", d>>}, Pumps) /\ ~Meets({<<"inserted", d>>}, Closers)
       /\ ~Meets({<<"inserted", d>>}, Only("idled")) /\ ~Meets({<<"inserted", d>>}, Only("close"))
       /\ \A e : e # d => ~Meets({<<"inserted", d>>}, MarksOf(e))
  <2>1. "idled" \notin OfDelivery /\ "close" \notin OfDelivery
    BY DEF OfDelivery
  <2> QED
    BY <1>10, <2>1, MarksApart
<1>12. PICK N, new : Woken(pump, flightOf, N) /\ Carries(new, N \cup A) /\ jobs' = Tail(jobs) \o new
  <2>1. /\ pump \in PumpShape /\ (~pump.pumping => pump.batch = {})
        /\ Mem!InFlight(flightOf) \subseteq Mem!InFlight(flightOf)
    BY PumpTyped
  <2> QED
    BY <1>3, <1>8, <1>9, <1>11, <2>1, WakeEach
<1>13. Queued({<<"inserted", d>>}, N \cup A)
  BY <1>2, <1>3, <1>12, QueuedRuns
<1>14. /\ pump'.held = pump.held /\ pump'.stopped = pump.stopped
       /\ \A e \in Delivery : Stays(e) \/ Claims(e)
       /\ N \in {{}, Only("decide"), Only("answered")}
  BY <1>12, PumpTyped, WokenIs
<1>15. Typed' /\ inserting'[d] = "resolved" /\ \A e \in Delivery : e # d => inserting'[e] = inserting[e]
  BY <1>2, <1>3 DEF Inv, Shapes, Typed
<1>16. Shapes'
  BY <1>12, <1>15, PumpTyped, WokenShapes
<1>17. /\ \A e \in Delivery : e # d => Untouched(MarksOf(e))
       /\ Untouched(Closers) /\ Untouched(Only("close")) /\ Untouched(Only("idled"))
  BY <1>11, <1>13, <1>14, WokenLeaves
<1>18. DeliveryOk(d)'
  <2>1. \A K : (\A m \in K : m[1] \notin PumpKinds) =>
          /\ Meets(N \cup A, K) <=> Meets(A, K)
          /\ Alone(A, K) => Alone(N \cup A, K)
    BY <1>11, <1>14, WokenJobs
  <2>2. \A k \in OfDelivery : \A m \in Its(k, d) : m[1] \notin PumpKinds
    BY DEF OfDelivery, Its, PumpKinds
  <2>3. \A m \in Flights(d) : m[1] \notin PumpKinds
    BY DEF Flights, PumpKinds
  <2>4. /\ \A k \in {"listen", "inserted", "delivered", "failed", "remind", "freed"} : ~Meets(A, Its(k, d))
        /\ ~Meets(A, Flights(d))
        /\ Meets(A, Its("elem", d)) <=> d \in closer.waiting
        /\ Alone(A, Its("elem", d))
    <3>1. \A m \in A : /\ m = <<"done", d>> \/ m = <<"elem", d>>
                       /\ m[1] \in {"done", "elem"}
      BY <1>6, <1>7
    <3>2. <<"elem", d>> \in A <=> d \in closer.waiting
      BY <1>6, <1>7
    <3>3. /\ \A k : \A m \in Its(k, d) : m[1] = k
          /\ \A m \in Flights(d) : m[1] \in {"delivered", "failed", "remind", "freed"}
      BY DEF Its, Flights
    <3>4. \A m : m \in Its("elem", d) <=> m = <<"elem", d>>
      BY DEF Its
    <3>5. /\ \A k \in {"listen", "inserted", "delivered", "failed", "remind", "freed"} : ~Meets(A, Its(k, d))
          /\ ~Meets(A, Flights(d))
      BY <3>1, <3>3 DEF Meets
    <3>6. Meets(A, Its("elem", d)) <=> d \in closer.waiting
      BY <3>2, <3>4 DEF Meets
    <3>7. Alone(A, Its("elem", d))
      BY <3>4 DEF Alone
    <3> QED
      BY <3>5, <3>6, <3>7
  <2>5. /\ \A k \in {"listen", "delivered", "failed", "remind", "freed", "done", "elem"} :
             ~Meets({<<"inserted", d>>}, Its(k, d))
        /\ ~Meets({<<"inserted", d>>}, Flights(d)) /\ Meets({<<"inserted", d>>}, Its("inserted", d))
    BY DEF Meets, Its, Flights
  <2>6. PICK M : M = N \cup A
    OBVIOUS
  <2>7. /\ \A k \in {"listen", "inserted", "delivered", "failed", "remind", "freed"} : ~Meets(M, Its(k, d))
        /\ ~Meets(M, Flights(d))
        /\ Meets(M, Its("elem", d)) <=> d \in closer.waiting
        /\ Alone(M, Its("elem", d))
    <3>1. \A k \in {"listen", "inserted", "delivered", "failed", "remind", "freed", "elem"} :
            k \in OfDelivery
      BY DEF OfDelivery
    <3> QED
      BY <2>1, <2>2, <2>3, <2>4, <2>6, <3>1
  <2>8. ~Has(jobs, Its("elem", d)) /\ Single(jobs, Its("elem", d)) /\ Single(jobs, Its("inserted", d))
    BY <1>4 DEF JobsOf
  <2>9. /\ \A k \in {"listen", "delivered", "failed", "remind", "freed"} :
             /\ Has(jobs, Its(k, d))' <=> Has(jobs, Its(k, d))
             /\ Single(jobs, Its(k, d)) => Single(jobs, Its(k, d))'
        /\ Has(jobs, Flights(d))' <=> Has(jobs, Flights(d))
        /\ Single(jobs, Flights(d)) => Single(jobs, Flights(d))'
        /\ ~Has(jobs, Its("inserted", d))' /\ Single(jobs, Its("inserted", d))'
        /\ Has(jobs, Its("elem", d))' => d \in closer.waiting
        /\ Single(jobs, Its("elem", d))'
    <3>1. Queued({<<"inserted", d>>}, M)
      BY <1>13, <2>6
    <3>2. PICK G : G = {<<"inserted", d>>}
      OBVIOUS
    <3>3. /\ Queued(G, M) /\ ~Meets(G, Flights(d)) /\ Meets(G, Its("inserted", d))
          /\ \A k \in {"listen", "delivered", "failed", "remind", "freed", "done", "elem"} :
               ~Meets(G, Its(k, d))
      BY <2>5, <3>1, <3>2
    <3>4. \A k \in {"listen", "delivered", "failed", "remind", "freed"} :
             /\ Has(jobs, Its(k, d))' <=> Has(jobs, Its(k, d))
             /\ Single(jobs, Its(k, d)) => Single(jobs, Its(k, d))'
      BY <2>7, <3>3 DEF Queued
    <3>5. /\ Has(jobs, Flights(d))' <=> Has(jobs, Flights(d))
          /\ Single(jobs, Flights(d)) => Single(jobs, Flights(d))'
      BY <2>7, <3>3 DEF Queued
    <3>6. ~Has(jobs, Its("inserted", d))' /\ Single(jobs, Its("inserted", d))'
      BY <2>7, <2>8, <3>3 DEF Queued
    <3>7. /\ Has(jobs, Its("elem", d))' => d \in closer.waiting
          /\ Single(jobs, Its("elem", d))'
      BY <2>7, <2>8, <3>3 DEF Queued
    <3> QED
      BY <3>4, <3>5, <3>6, <3>7
  <2>10. flightOf'[d] = flightOf[d] /\ outcome'[d] = outcome[d] /\ closer' = closer
    BY <1>2
  <2>11. place[d] # "none" /\ (Stays(d) \/ Claims(d))
    BY <1>3, <1>4, <1>14 DEF Placed
  <2>12. JobsOf(d)'
    <3>1. \/ place'[d] = place[d]
          \/ place[d] = "due" /\ place'[d] = "leased"
      BY <2>11 DEF Stays, Claims
    <3>2. place[d] = "due" => \A k \in {"delivered", "failed", "remind", "freed"} : ~Has(jobs, Its(k, d))
      BY <1>4 DEF JobsOf
    <3> QED
      BY <1>4, <1>15, <2>9, <2>10, <2>11, <3>1, <3>2 DEF JobsOf
  <2>13. Placed(d)'
    <3>1. attempts[d] \in Nat /\ Retries \in Nat
      BY <1>3, WebhookWorkerAssumption DEF Inv, Shapes
    <3> QED
      BY <1>4, <1>15, <2>10, <2>11, <3>1 DEF Placed, Stays, Claims
  <2>14. AwaitedInsert(d)'
    <3>1. d \in closer.waiting => closer.pc = "inserting"
      BY <1>5 DEF Inv, CloserOk
    <3> QED
      BY <1>15, <2>9, <2>10, <3>1 DEF AwaitedInsert
  <2> QED
    BY <2>12, <2>13, <2>14 DEF DeliveryOk
<1>19. \A e \in Delivery : DeliveryOk(e)'
  <2> SUFFICES ASSUME NEW e \in Delivery, e # d  PROVE DeliveryOk(e)'
    BY <1>18
  <2>1. flightOf'[e] = flightOf[e] /\ outcome'[e] = outcome[e] /\ closer' = closer
    BY <1>2
  <2> QED
    BY <1>14, <1>15, <1>16, <1>17, <2>1, WokenOther
<1>20. ~Has(jobs, Only("flush"))' /\ Mem!InFlight(flightOf)' \subseteq Mem!InFlight(flightOf) /\ flightOf' = flightOf
  <2>1. Only("flush") \subseteq Closers
    BY MarksWithin
  <2> QED
    BY <1>2, <1>5, <1>17, <2>1 DEF Untouched, Mem!InFlight
<1>21. CloserOk'
  <2>1. /\ Has(jobs, Only("close"))' => Has(jobs, Only("close"))
        /\ Single(jobs, Only("close"))'
    BY <1>17 DEF Inv, CloserOk, Untouched
  <2>2. closer' = closer /\ closer.pc # "closed"
    BY <1>2, <1>5
  <2> QED
    BY <1>5, <1>14, <1>17, <1>20, <2>1, <2>2, CloserKept
<1>22. Before(jobs, Only("finally"), Only("flush"))'
  <2>1. ~Has(jobs', Only("flush"))
    BY <1>20 DEF Has
  <2>2. Before(jobs', Only("finally"), Only("flush"))
    BY <2>1, NoneBefore
  <2> QED
    BY <2>2 DEF Before
<1>23. Woken(pump, flightOf', N) /\ Alike(pump) /\ Mem!InFlight(flightOf') \subseteq Mem!InFlight(flightOf)
  BY <1>12, <1>20, PumpTyped
<1> QED
  BY <1>5, <1>11, <1>13, <1>14, <1>15, <1>19, <1>21, <1>22, <1>23, WokenKept
-----------------------------------------------------------------------------
(* Where close() is.                                                       *)

LEMMA OneOf ==
  ASSUME NEW js, Single(js, Closers), NEW kind \in CloserKinds, Has(js, Only(kind))
  PROVE  \A k \in CloserKinds : k # kind => ~Has(js, Only(k))
<1>1. \A k \in CloserKinds : <<k, None>> \in Closers
  BY DEF Closers, CloserKinds
<1>2. \A k, m : m \in Only(k) <=> m = <<k, None>>
  BY DEF Only
<1> SUFFICES ASSUME NEW k \in CloserKinds, k # kind, Has(js, Only(k))  PROVE FALSE
  OBVIOUS
<1>3. PICK i \in DOMAIN js : Mark(js[i]) = <<kind, None>>
  BY <1>2 DEF Has
<1>4. PICK j \in DOMAIN js : Mark(js[j]) = <<k, None>>
  BY <1>2 DEF Has
<1>5. i = j
  BY <1>1, <1>3, <1>4 DEF Single
<1> QED
  BY <1>3, <1>4, <1>5

LEMMA SomeCloser ==
  ASSUME NEW js
  PROVE  Has(js, Closers) <=> \E kind \in CloserKinds : Has(js, Only(kind))
  BY DEF Has, Closers, CloserKinds, Only

LEMMA CloserIs ==
  ASSUME Inv
  PROVE  /\ \A kind \in CloserKinds : Has(jobs, Only(kind)) =>
              /\ ~Has(jobs, Only("close")) /\ closer.pc # "open"
              /\ kind # "flush" => closer.pc = "busy"
              /\ kind = "flush" =>
                   closer.pc = "busy" \/ (closer.pc = "inserting" /\ closer.waiting = {})
              /\ pump.stopped <=> kind \in {"stopped", "abandon"}
         /\ ~Has(jobs, Closers) =>
              /\ pump.stopped <=> closer.pc \in {"stop", "flights", "closed"}
         /\ closer.pc \in {"open", "idle", "any", "stop", "flights", "closed"} => ~Has(jobs, Closers)
         /\ closer.pc = "inserting" /\ closer.waiting # {} => ~Has(jobs, Closers)
         /\ pump.held <=> closer.pc \notin {"open", "inserting"}
         /\ closer.pc # "open" => ~Has(jobs, Only("close"))
         /\ Single(jobs, Closers) /\ Single(jobs, Only("close"))
<1>1. CloserOk
  BY DEF Inv
<1>2. {"flush", "afterIdle", "flushed", "stopped", "abandon"} = CloserKinds
  BY DEF CloserKinds
<1>3. ASSUME NEW kind \in CloserKinds, Has(jobs, Only(kind))
      PROVE  /\ ~Has(jobs, Only("close")) /\ closer.pc # "open"
             /\ kind # "flush" => closer.pc = "busy"
             /\ kind = "flush" =>
                  closer.pc = "busy" \/ (closer.pc = "inserting" /\ closer.waiting = {})
             /\ pump.stopped <=> kind \in {"stopped", "abandon"}
  <2>1. Has(jobs, Closers)
    BY <1>3, SomeCloser
  <2>2. \A k \in CloserKinds : k # kind => ~Has(jobs, Only(k))
    BY <1>1, <1>3, OneOf DEF CloserOk
  <2>3. closer.pc # "open" /\ ~Has(jobs, Only("close"))
    BY <1>1, <2>1 DEF CloserOk
  <2>4. kind # "flush" => closer.pc = "busy"
    BY <1>1, <1>2, <2>1, <2>2 DEF CloserOk
  <2>5. kind = "flush" => closer.pc = "busy" \/ (closer.pc = "inserting" /\ closer.waiting = {})
    BY <1>1, <1>3 DEF CloserOk
  <2>6. pump.stopped <=> kind \in {"stopped", "abandon"}
    <3>1. closer.pc \notin {"stop", "flights", "closed"}
      BY <2>4, <2>5
    <3>2. "stopped" \in CloserKinds /\ "abandon" \in CloserKinds
      BY <1>2
    <3> QED
      BY <1>1, <1>3, <2>2, <3>1, <3>2 DEF CloserOk
  <2> QED
    BY <2>3, <2>4, <2>5, <2>6
<1>4. /\ ~Has(jobs, Closers) => (pump.stopped <=> closer.pc \in {"stop", "flights", "closed"})
      /\ closer.pc \in {"open", "idle", "any", "stop", "flights", "closed"} => ~Has(jobs, Closers)
      /\ closer.pc = "inserting" /\ closer.waiting # {} => ~Has(jobs, Closers)
  <2>1. ~Has(jobs, Closers) => ~Has(jobs, Only("stopped")) /\ ~Has(jobs, Only("abandon"))
    BY <1>2, SomeCloser
  <2> QED
    BY <1>1, <2>1 DEF CloserOk
<1>5. /\ pump.held <=> closer.pc \notin {"open", "inserting"}
      /\ closer.pc # "open" => ~Has(jobs, Only("close"))
      /\ Single(jobs, Closers) /\ Single(jobs, Only("close"))
  BY <1>1 DEF CloserOk
<1> QED
  BY <1>3, <1>4, <1>5

(* Where it is after a step: a job of it queued, of that kind, or it awaits. *)
LEMMA CloserNow ==
  ASSUME Inv, NEW G, NEW M, Queued(G, M), Meets(G, Closers) \/ ~Has(jobs, Closers),
         closer.pc # "open" \/ Meets(G, Only("close")), ~Meets(M, Only("close")),
         closer'.pc # "open",
         NEW kind \in CloserKinds \cup {"none"},
         kind = "none" => ~Meets(M, Closers),
         kind # "none" => Alone(M, Closers) /\ Meets(M, Only(kind)),
         pump'.held <=> closer'.pc # "inserting",
         kind = "flush" => closer'.pc = "busy" \/ (closer'.pc = "inserting" /\ closer'.waiting = {}),
         kind \notin {"none", "flush"} => closer'.pc = "busy",
         pump'.stopped <=> closer'.pc \in {"stop", "flights", "closed"} \/ kind \in {"stopped", "abandon"},
         \/ closer'.pc \in {"flights", "closed"} \/ kind \in {"stopped", "abandon"}
         \/ pump'.stopped /\ Has(jobs, Only("idled"))'
         => ~pump'.pumping,
         kind = "abandon" \/ closer'.pc = "closed" => Mem!InFlight(flightOf)' = {},
         kind = "flushed" \/ (kind = "afterIdle" /\ closer'.nothing) => Owed' = {},
         closer'.pc = "closed" => \A d \in Delivery : place'[d] \in {"none", "gone"}
  PROVE  CloserOk'
<1>1. Single(jobs, Closers) /\ Single(jobs, Only("close"))
      /\ (closer.pc # "open" => ~Has(jobs, Only("close")))
  BY CloserIs
<1>2. {"flush", "afterIdle", "flushed", "stopped", "abandon"} = CloserKinds
  BY DEF CloserKinds
<1>3. Single(jobs, Only("close"))' /\ ~Has(jobs, Only("close"))'
  BY <1>1 DEF Queued
<1>4. Single(jobs, Closers)' /\ (kind = "none" => ~Has(jobs, Closers)')
  BY <1>1 DEF Queued
<1>5. kind # "none" => Has(jobs, Only(kind))'
  BY DEF Queued
<1>6. kind # "none" => \A k \in CloserKinds : k # kind => ~Has(jobs, Only(k))'
  <2>1. kind # "none" => Single(jobs', Closers) /\ Has(jobs', Only(kind)) /\ kind \in CloserKinds
    BY <1>4, <1>5 DEF Single, Has
  <2>2. kind # "none" => \A k \in CloserKinds : k # kind => ~Has(jobs', Only(k))
    BY <2>1, OneOf
  <2> QED
    BY <2>2 DEF Has
<1>7. Has(jobs, Closers)' <=> \E k \in CloserKinds : Has(jobs, Only(k))'
  <2>1. Has(jobs', Closers) <=> \E k \in CloserKinds : Has(jobs', Only(k))
    BY SomeCloser
  <2> QED
    BY <2>1 DEF Has
<1>8. ASSUME NEW k \in CloserKinds
      PROVE  Has(jobs, Only(k))' <=> k = kind
  <2>1. CASE kind = "none"
    <3>1. k # "none"
      BY <1>2
    <3> QED
      BY <1>4, <1>7, <2>1, <3>1
  <2>2. CASE kind # "none"
    BY <1>5, <1>6, <2>2
  <2> QED
    BY <2>1, <2>2
<1>9. Has(jobs, Closers)' <=> kind # "none"
  BY <1>4, <1>7, <1>8
<1>10. /\ Has(jobs, Only("flush"))' <=> kind = "flush"
       /\ Has(jobs, Only("afterIdle"))' <=> kind = "afterIdle"
       /\ Has(jobs, Only("flushed"))' <=> kind = "flushed"
       /\ Has(jobs, Only("stopped"))' <=> kind = "stopped"
       /\ Has(jobs, Only("abandon"))' <=> kind = "abandon"
  BY <1>2, <1>8
<1> QED
  BY <1>3, <1>4, <1>9, <1>10 DEF CloserOk

LEMMA WokenCloser ==
  ASSUME Inv, NEW p, Alike(p), p.held = pump.held, NEW flying, Mem!InFlight(flying) \subseteq Mem!InFlight(flightOf),
         NEW N, Woken(p, flying, N),
         Untouched(Closers), Untouched(Only("close")), Untouched(Only("idled")),
         closer' = closer, Mem!InFlight(flightOf)' \subseteq Mem!InFlight(flightOf),
         Has(jobs, Closers) => Owed' \subseteq Owed
  PROVE  CloserOk'
<1>1. /\ pump'.held = pump.held /\ pump'.stopped = pump.stopped
      /\ N = {} => (pump'.pumping <=> pump.pumping)
      /\ N # {} => ~pump.stopped
      /\ \A d \in Delivery : Stays(d) \/ Claims(d)
  BY WokenIs
<1>2. pump'.pumping => pump.pumping \/ ~pump.stopped
  BY <1>1
<1>3. /\ Has(jobs, Only("close"))' => Has(jobs, Only("close"))
      /\ Single(jobs, Only("close"))'
      /\ Has(jobs, Only("idled"))' => Has(jobs, Only("idled"))
  BY CloserIs DEF Untouched
<1>4. closer.pc = "closed" => \A d \in Delivery : place'[d] \in {"none", "gone"}
  <2>1. closer.pc = "closed" => \A d \in Delivery : place[d] \in {"none", "gone"}
    BY DEF Inv, CloserOk
  <2> QED
    BY <1>1, <2>1 DEF Stays, Claims
<1> QED
  BY <1>1, <1>2, <1>3, <1>4, CloserKept

LEMMA StepReminder ==
  ASSUME Inv, NEW d \in Delivery, Mem!Reminder(d)
  PROVE  Inv'
<1>1. /\ jobs = <<>> /\ jobs \in Seq(Jobs) /\ Mem!wake(pump, flightOf, <<>>, <<>>)
      /\ reminders' = reminders \ {d}
      /\ UNCHANGED <<inserting, flightOf, closer, outcome>>
  BY DEF Inv, Mem!Reminder
<1>2. /\ pump \in PumpShape /\ (~pump.pumping => pump.batch = {}) /\ Alike(pump)
      /\ Mem!InFlight(flightOf) \subseteq Mem!InFlight(flightOf) /\ ~Meets({}, Pumps)
  BY PumpTyped, NoneApart
<1>3. PICK N, new : Woken(pump, flightOf, N) /\ Carries(new, N \cup {}) /\ jobs' = <<>> \o new
  <2>1. PICK none, A : none = <<>> /\ A = {}
    OBVIOUS
  <2>2. /\ none \in Seq(Jobs) /\ Carries(none, A) /\ ~Meets(A, Pumps)
        /\ Mem!wake(pump, flightOf, none, none)
    BY <1>1, <1>2, <2>1, NoJobQueued, CarriesNone
  <2>3. PICK N, new : Woken(pump, flightOf, N) /\ Carries(new, N \cup A) /\ jobs' = none \o new
    BY <1>2, <2>2, WakeEach
  <2> QED
    BY <2>1, <2>3
<1>4. Queued({}, N \cup {})
  BY <1>1, <1>3, QueuedCalls
<1>5. /\ pump'.held = pump.held /\ pump'.stopped = pump.stopped
      /\ \A e \in Delivery : Stays(e) \/ Claims(e)
      /\ N \in {{}, Only("decide"), Only("answered")}
  BY <1>2, <1>3, WokenIs
<1>6. Typed'
  BY <1>1 DEF Inv, Shapes, Typed
<1>7. Shapes'
  BY <1>2, <1>3, <1>6, WokenShapes
<1>8. /\ \A e \in Delivery : Untouched(MarksOf(e))
      /\ Untouched(Closers) /\ Untouched(Only("close")) /\ Untouched(Only("idled"))
  BY <1>4, <1>5, NoneApart, WokenLeaves
<1>9. \A e \in Delivery : DeliveryOk(e)'
  <2> SUFFICES ASSUME NEW e \in Delivery  PROVE DeliveryOk(e)'
    OBVIOUS
  <2>1. inserting'[e] = inserting[e] /\ flightOf'[e] = flightOf[e] /\ outcome'[e] = outcome[e] /\ closer' = closer
    BY <1>1
  <2> QED
    BY <1>5, <1>7, <1>8, <2>1, WokenOther
<1>10. Owed' \subseteq Owed
  BY <1>1, <1>5, StillOwed
<1>11. /\ Woken(pump, flightOf', N) /\ Mem!InFlight(flightOf') \subseteq Mem!InFlight(flightOf)
       /\ Mem!InFlight(flightOf)' \subseteq Mem!InFlight(flightOf)
  BY <1>1, <1>3 DEF Mem!InFlight
<1>12. CloserOk'
  BY <1>1, <1>2, <1>3, <1>8, <1>10, <1>11, WokenCloser
<1>13. ~Has(jobs, Only("finally")) /\ ~Has(jobs, Only("idled"))
  BY <1>1, NoJobQueued
<1> QED
  BY <1>2, <1>4, <1>6, <1>9, <1>10, <1>11, <1>12, <1>13, NoneApart, WokenKept
-----------------------------------------------------------------------------
(* A flight ends.                                                          *)

LEMMA FreedAwaits ==
  ASSUME Inv, NEW flying
  PROVE  \E A :
           /\ Carries(Mem!AwaitsFlight(flying), A)
           /\ \/ A = {} /\ Mem!AwaitsFlight(flying) = <<>>
              \/ A = Only("flush") /\ Mem!AwaitsFlight(flying) # <<>> /\ closer.pc = "any"
              \/ A = Only("abandon") /\ Mem!AwaitsFlight(flying) # <<>> /\ closer.pc = "flights"
                 /\ Mem!InFlight(flying) = {}
<1>1. \A kind \in {"flush", "abandon"} :
        Carries(Mem!Job(kind, None, 1), Only(kind)) /\ Mem!Job(kind, None, 1) # <<>>
  <2> SUFFICES ASSUME NEW kind \in {"flush", "abandon"}
               PROVE  Carries(Mem!Job(kind, None, 1), Only(kind)) /\ Mem!Job(kind, None, 1) # <<>>
    OBVIOUS
  <2>1. kind \in OwnKinds /\ kind \notin {"answered", "idled", "decide", "finally"} /\ 1 \in 0..4
    BY OwnWhich
  <2>2. Carries(Mem!Job(kind, None, 1), {<<kind, None>>})
    BY <2>1, OwnCarries
  <2>3. Mem!Job(kind, None, 1) # <<>>
    BY JobQueued
  <2> QED
    BY <2>2, <2>3 DEF Only
<1>2. PICK after : after = Mem!AwaitsFlight(flying)
  OBVIOUS
<1>3. \/ after = <<>>
      \/ closer.pc = "any" /\ after = Mem!Job("flush", None, 1)
      \/ closer.pc = "flights" /\ Mem!InFlight(flying) = {} /\ after = Mem!Job("abandon", None, 1)
  <2>1. CASE closer.pc = "any" /\ Mem!Of \in closer.waiting
    <3>1. closer.pc # "flights"
      BY <2>1
    <3> QED
      BY <1>2, <2>1, <3>1 DEF Mem!AwaitsFlight
  <2>2. CASE closer.pc = "flights" /\ Mem!InFlight(flying) = {}
    <3>1. closer.pc # "any"
      BY <2>2
    <3> QED
      BY <1>2, <2>2, <3>1 DEF Mem!AwaitsFlight
  <2>3. CASE /\ ~(closer.pc = "any" /\ Mem!Of \in closer.waiting)
             /\ ~(closer.pc = "flights" /\ Mem!InFlight(flying) = {})
    BY <1>2, <2>3 DEF Mem!AwaitsFlight
  <2> QED
    BY <2>1, <2>2, <2>3
<1> QED
  BY <1>1, <1>2, <1>3, CarriesNone

LEMMA FreedDelivery ==
  ASSUME Inv, NEW d \in Delivery, NEW M, Queued({<<"freed", d>>}, M), ~Meets(M, MarksOf(d)),
         Stays(d), flightOf'[d] = "none", inserting'[d] = inserting[d], outcome'[d] = outcome[d],
         \/ closer'.pc = closer.pc /\ closer'.waiting = closer.waiting
         \/ closer.pc \in {"any", "flights"}
  PROVE  DeliveryOk(d)'
<1>1. JobsOf(d) /\ Placed(d) /\ AwaitedInsert(d)
  BY DEF Inv, DeliveryOk
<1>2. PICK G : G = {<<"freed", d>>}
  OBVIOUS
<1>3. /\ \A k \in {"listen", "inserted", "done", "elem", "delivered", "failed", "remind"} :
           ~Meets(G, Its(k, d)) /\ ~Meets(M, Its(k, d))
      /\ Meets(G, Its("freed", d)) /\ ~Meets(M, Its("freed", d))
      /\ Meets(G, Flights(d)) /\ ~Meets(M, Flights(d))
  <2>1. /\ \A k \in OfDelivery : Its(k, d) \subseteq MarksOf(d)
        /\ Flights(d) \subseteq MarksOf(d)
    BY MarksWithin
  <2>2. \A k \in {"listen", "inserted", "done", "elem", "delivered", "failed", "remind", "freed"} :
          k \in OfDelivery
    BY DEF OfDelivery
  <2>3. \A K \in SUBSET MarksOf(d) : ~Meets(M, K)
    BY DEF Meets
  <2>4. /\ \A k \in {"listen", "inserted", "done", "elem", "delivered", "failed", "remind"} :
             ~Meets(G, Its(k, d))
        /\ Meets(G, Its("freed", d)) /\ Meets(G, Flights(d))
    BY <1>2, OneMark, WhichKinds
  <2> QED
    BY <2>1, <2>2, <2>3, <2>4
<1>4. Queued(G, M)
  BY <1>2
<1>5. /\ \A k \in {"listen", "inserted", "done", "elem", "delivered", "failed", "remind"} :
           /\ Has(jobs, Its(k, d))' <=> Has(jobs, Its(k, d))
           /\ Single(jobs, Its(k, d)) => Single(jobs, Its(k, d))'
  BY <1>3, <1>4 DEF Queued
<1>6. /\ Has(jobs, Its("freed", d)) /\ Has(jobs, Flights(d))
      /\ ~Has(jobs, Flights(d))' /\ Single(jobs, Flights(d))'
  BY <1>1, <1>3, <1>4 DEF Queued, JobsOf
<1>7. ~Has(jobs, Its("freed", d))' /\ ~Has(jobs, Its("delivered", d))'
      /\ ~Has(jobs, Its("failed", d))' /\ ~Has(jobs, Its("remind", d))'
  <2>1. \A k \in FlightKinds : Its(k, d) \subseteq Flights(d)
    BY DEF Its, Flights, FlightKinds
  <2>2. \A k \in FlightKinds : ~Has(jobs, Its(k, d))'
    BY <1>6, <2>1 DEF Has
  <2> QED
    BY <2>2, WhichKinds
<1>8. place[d] \in {"later", "gone"} /\ flightOf[d] = "settling"
  BY <1>1, <1>6 DEF JobsOf
<1>9. place'[d] = place[d] /\ attempts'[d] = attempts[d] /\ (d \in pump'.batch <=> d \in pump.batch)
  BY DEF Stays
<1>10. JobsOf(d)'
  BY <1>1, <1>5, <1>6, <1>7, <1>8, <1>9 DEF JobsOf
<1>11. Placed(d)'
  BY <1>1, <1>8, <1>9 DEF Placed
<1>12. AwaitedInsert(d)'
  BY <1>1, <1>5 DEF AwaitedInsert
<1> QED
  BY <1>10, <1>11, <1>12 DEF DeliveryOk

LEMMA FreedCloser ==
  ASSUME Inv, pump'.held = pump.held, pump'.stopped = pump.stopped,
         pump'.pumping => pump.pumping \/ ~pump.stopped,
         \A e \in Delivery : Stays(e) \/ Claims(e), Owed' \subseteq Owed,
         Mem!InFlight(flightOf)' \subseteq Mem!InFlight(flightOf), NEW d,
         NEW N, N \in {{}, Only("decide"), Only("answered")}, NEW A, Queued({<<"freed", d>>}, N \cup A),
         \/ A = {} /\ closer' = closer
         \/ A = Only("flush") /\ closer.pc = "any" /\ closer' = [closer EXCEPT !.pc = "busy"]
         \/ /\ A = Only("abandon") /\ closer.pc = "flights" /\ Mem!InFlight(flightOf)' = {}
            /\ closer' = [closer EXCEPT !.pc = "busy"]
  PROVE  CloserOk'
<1>1. PICK G : G = {<<"freed", d>>}
  OBVIOUS
<1>2. /\ ~Meets(G, Closers) /\ ~Meets(G, Only("close")) /\ ~Meets(G, Only("idled"))
      /\ Queued(G, N \cup A)
  BY <1>1 DEF Meets, Closers, Only
<1>3. CASE A = {} /\ closer' = closer
  <2>1. Untouched(Closers) /\ Untouched(Only("close")) /\ Untouched(Only("idled"))
    BY <1>2, <1>3, NoneApart, WokenLeaves
  <2>2. /\ Has(jobs, Only("close"))' => Has(jobs, Only("close"))
        /\ Single(jobs, Only("close"))'
        /\ Has(jobs, Only("idled"))' => Has(jobs, Only("idled"))
    BY <2>1, CloserIs DEF Untouched
  <2>3. closer.pc = "closed" => \A e \in Delivery : place'[e] \in {"none", "gone"}
    <3>1. closer.pc = "closed" => \A e \in Delivery : place[e] \in {"none", "gone"}
      BY DEF Inv, CloserOk
    <3> QED
      BY <3>1 DEF Stays, Claims
  <2> QED
    BY <1>3, <2>1, <2>2, <2>3, CloserKept
<1>4. ASSUME NEW kind \in {"flush", "abandon"}, A = Only(kind),
             closer' = [closer EXCEPT !.pc = "busy"],
             kind = "flush" => closer.pc = "any",
             kind = "abandon" => closer.pc = "flights" /\ Mem!InFlight(flightOf)' = {}
      PROVE  CloserOk'
  <2>1. closer'.pc = "busy"
    BY <1>4 DEF Inv, Shapes
  <2>2. /\ kind \in CloserKinds /\ kind \in OwnKinds /\ kind \notin PumpKinds /\ kind # "close"
    BY OwnWhich
  <2>3. /\ \A k : Meets(A, Only(k)) <=> kind = k
        /\ ~Meets(A, Pumps) /\ Alone(A, Closers)
    BY <1>4, <2>2, OwnMarks DEF Only
  <2>4. PICK M : M = N \cup A
    OBVIOUS
  <2>5. Alone(M, Closers) /\ Meets(M, Only(kind)) /\ ~Meets(M, Only("close"))
    <3>1. /\ \A m \in Closers : m[1] \notin PumpKinds
          /\ \A k : k \notin PumpKinds => \A m \in Only(k) : m[1] \notin PumpKinds
      BY DEF Closers, Only, PumpKinds
    <3>2. "close" \notin PumpKinds
      BY OwnWhich
    <3> QED
      BY <2>2, <2>3, <2>4, <3>1, <3>2, WokenJobs
  <2>6. Queued(G, M)
    BY <1>2, <2>4
  <2>7. /\ ~Has(jobs, Closers) /\ pump.held /\ closer.pc # "open"
        /\ pump.stopped <=> kind = "abandon"
    BY <1>4, CloserIs
  <2>8. kind = "abandon" => ~pump.pumping
    BY <1>4 DEF Inv, CloserOk
  <2>9. pump'.held /\ (pump'.stopped <=> kind = "abandon") /\ (kind = "abandon" => ~pump'.pumping)
    BY <2>7, <2>8
  <2>10. kind \in CloserKinds \cup {"none"} /\ kind # "none" /\ kind \in {"flush", "abandon"}
    BY <2>2
  <2>11. Meets(G, Closers) \/ ~Has(jobs, Closers)
    BY <2>7
  <2> QED
    BY <1>4, <2>1, <2>5, <2>6, <2>7, <2>9, <2>10, <2>11, CloserNow
<1> QED
  BY <1>3, <1>4
LEMMA StepFreed == Inv /\ Mem!Freed => Inv'
<1> SUFFICES ASSUME Inv, Mem!Freed PROVE Inv'
  OBVIOUS
<1>1. PICK d : d = Mem!Of
  OBVIOUS
<1>2. PICK flying, after :
        /\ flying = [flightOf EXCEPT ![d] = "none"] /\ after = Mem!AwaitsFlight(flying)
        /\ Mem!Runs("freed") /\ jobs \in Seq(Jobs) /\ flightOf' = flying
        /\ closer' = IF after = <<>> THEN closer ELSE [closer EXCEPT !.pc = "busy"]
        /\ IF pump.saturated
             THEN Mem!wake(pump, flying, Tail(jobs), after)
             ELSE /\ jobs' = Tail(jobs) \o after
                  /\ UNCHANGED <<pump, place, attempts>>
        /\ UNCHANGED <<inserting, reminders, outcome>>
  BY <1>1 DEF Inv, Mem!Freed
<1>3. /\ d \in Delivery /\ jobs # <<>> /\ Mark(Head(jobs)) = <<"freed", d>>
      /\ Has(jobs, Its("freed", d)) /\ Tail(jobs) \in Seq(Jobs)
  BY <1>1, <1>2, RunsHead, HeadLeaves DEF OfDelivery, Its
<1>4. place[d] \in {"later", "gone"} /\ flightOf[d] = "settling"
  <2>1. JobsOf(d)
    BY <1>3 DEF Inv, DeliveryOk
  <2>2. Has(jobs, Its("freed", d)) => Has(jobs, Flights(d))
    BY DEF Has, Its, Flights
  <2> QED
    BY <1>3, <2>1, <2>2 DEF JobsOf
<1>5. /\ flightOf'[d] = "none" /\ \A e \in Delivery : e # d => flightOf'[e] = flightOf[e]
      /\ flightOf' \in [Delivery -> {"none", "sending", "reporting", "settling"}]
  BY <1>2, <1>3 DEF Inv, Shapes
<1>6. /\ Mem!InFlight(flying) \subseteq Mem!InFlight(flightOf) /\ Mem!InFlight(flightOf') \subseteq Mem!InFlight(flightOf)
      /\ Mem!InFlight(flightOf)' = Mem!InFlight(flightOf') /\ Mem!InFlight(flying) = Mem!InFlight(flightOf')
      /\ Mem!InFlight(flying) # Mem!InFlight(flightOf)
  <2>1. d \in Mem!InFlight(flightOf) /\ d \notin Mem!InFlight(flightOf')
    BY <1>3, <1>4, <1>5 DEF Mem!InFlight
  <2>2. Mem!InFlight(flightOf)' = Mem!InFlight(flightOf') /\ Mem!InFlight(flying) = Mem!InFlight(flightOf')
    BY <1>2 DEF Mem!InFlight
  <2>3. Mem!InFlight(flightOf') \subseteq Mem!InFlight(flightOf)
    BY <1>5, <2>1 DEF Mem!InFlight
  <2> QED
    BY <2>1, <2>2, <2>3
<1>7. PICK A :
        /\ Carries(after, A)
        /\ \/ A = {} /\ after = <<>>
           \/ A = Only("flush") /\ after # <<>> /\ closer.pc = "any"
           \/ A = Only("abandon") /\ after # <<>> /\ closer.pc = "flights"
              /\ Mem!InFlight(flying) = {}
  BY <1>2, FreedAwaits
<1>8. \/ A = {} /\ closer' = closer
      \/ A = Only("flush") /\ closer.pc = "any" /\ closer' = [closer EXCEPT !.pc = "busy"]
      \/ /\ A = Only("abandon") /\ closer.pc = "flights" /\ Mem!InFlight(flightOf)' = {}
         /\ closer' = [closer EXCEPT !.pc = "busy"]
  BY <1>2, <1>6, <1>7
<1>9. /\ ~Meets(A, Pumps) /\ ~Meets(A, Only("idled")) /\ \A e : ~Meets(A, MarksOf(e))
  <2>1. CASE A = {}
    BY <2>1, NoneApart
  <2>2. ASSUME NEW kind \in {"flush", "abandon"}, A = Only(kind)
        PROVE  /\ ~Meets(A, Pumps) /\ ~Meets(A, Only("idled")) /\ \A e : ~Meets(A, MarksOf(e))
    <3>1. kind \in OwnKinds /\ kind \notin PumpKinds /\ kind # "idled"
      BY OwnWhich
    <3> QED
      BY <2>2, <3>1, OwnMarks DEF Only
  <2> QED
    BY <1>7, <2>1, <2>2
<1>10. Typed' /\ \A e \in Delivery : inserting'[e] = inserting[e] /\ outcome'[e] = outcome[e]
  <2>1. closer' \in [pc : {"open", "inserting", "idle", "any", "stop", "flights", "closed", "busy"},
                 waiting : SUBSET Delivery, nothing : BOOLEAN]
    BY <1>8 DEF Inv, Shapes
  <2> QED
    BY <1>2, <1>5, <2>1 DEF Inv, Shapes, Typed
<1>11. \/ closer'.pc = closer.pc /\ closer'.waiting = closer.waiting
       \/ closer.pc \in {"any", "flights"}
  BY <1>8
<1>12. /\ ~Meets({<<"freed", d>>}, Pumps)
       /\ \A e : e # d => ~Meets({<<"freed", d>>}, MarksOf(e))
  BY DEF Meets, Pumps, MarksOf
<1>13. CASE pump.saturated /\ Mem!wake(pump, flying, Tail(jobs), after)
  <2>1. /\ pump \in PumpShape /\ (~pump.pumping => pump.batch = {}) /\ Alike(pump)
    BY PumpTyped
  <2>2. PICK N, new : Woken(pump, flying, N) /\ Carries(new, N \cup A) /\ jobs' = Tail(jobs) \o new
    BY <1>3, <1>6, <1>7, <1>9, <1>13, <2>1, WakeEach
  <2>3. Queued({<<"freed", d>>}, N \cup A)
    BY <1>2, <1>3, <2>2, QueuedRuns
  <2>4. Woken(pump, flightOf', N)
    BY <1>2, <2>2
  <2>5. /\ pump'.held = pump.held /\ pump'.stopped = pump.stopped
        /\ \A e \in Delivery : Stays(e) \/ Claims(e)
        /\ N \in {{}, Only("decide"), Only("answered")}
        /\ pump'.pumping => pump.pumping \/ ~pump.stopped
        /\ N = Only("decide") => /\ Cardinality(Mem!InFlight(flightOf')) >= concurrency
                                 /\ ~pump.pumping
    <3>1. /\ pump'.held = pump.held /\ pump'.stopped = pump.stopped
          /\ \A e \in Delivery : Stays(e) \/ Claims(e)
          /\ N \in {{}, Only("decide"), Only("answered")}
          /\ N = {} => (pump'.pumping <=> pump.pumping)
          /\ N # {} => ~pump.stopped /\ ~pump.pumping
          /\ N = Only("decide") => Cardinality(Mem!InFlight(flightOf')) >= concurrency
      BY <1>6, <2>1, <2>4, WokenIs
    <3> QED
      BY <3>1, OnlyApart
  <2>6. N # Only("decide")
    <3> SUFFICES ASSUME N = Only("decide") PROVE FALSE
      OBVIOUS
    <3>1. ~pump.pumping /\ Cardinality(Mem!InFlight(flightOf')) >= concurrency
      BY <2>5
    <3>2. Cardinality(Mem!InFlight(flightOf)) <= concurrency
      BY <3>1, IdlePump
    <3>3. PICK n, m \in Nat : n = Cardinality(Mem!InFlight(flightOf)) /\ m = Cardinality(Mem!InFlight(flightOf')) /\ m < n
      BY <1>6, FlightsFinite
    <3> QED
      BY <3>1, <3>2, <3>3, WebhookWorkerAssumption
  <2>7. Shapes'
    BY <1>6, <1>10, <2>1, <2>4, WokenShapes
  <2>8. Owed' \subseteq Owed
    BY <1>2, <2>5, StillOwed
  <2>9. CloserOk'
    BY <1>6, <1>8, <2>3, <2>5, <2>8, FreedCloser
  <2>10. \A e \in Delivery : DeliveryOk(e)'
    <3>1. \A K : (\A m \in K : m[1] \notin PumpKinds) => (Meets(N \cup A, K) <=> Meets(A, K))
      BY <1>9, <2>5, WokenJobs
    <3>2. ~Meets(N \cup A, MarksOf(d))
      <4>1. \A m \in MarksOf(d) : m[1] \notin PumpKinds
        BY DEF MarksOf, OfDelivery, PumpKinds
      <4> QED
        BY <1>9, <3>1, <4>1
    <3>3. Stays(d)
      BY <1>3, <1>4, <2>5 DEF Claims
    <3>4. DeliveryOk(d)'
      <4>1. PICK M : M = N \cup A
        OBVIOUS
      <4>2. Queued({<<"freed", d>>}, M) /\ ~Meets(M, MarksOf(d))
        BY <2>3, <3>2, <4>1
      <4> QED
        BY <1>3, <1>5, <1>10, <1>11, <3>3, <4>2, FreedDelivery
    <3> SUFFICES ASSUME NEW e \in Delivery, e # d  PROVE DeliveryOk(e)'
      BY <3>4
    <3>5. Untouched(MarksOf(e))
      BY <1>9, <1>12, <2>3, <2>5, WokenLeaves
    <3>6. Stays(e) \/ Claims(e)
      BY <2>5
    <3>7. \/ closer'.pc = closer.pc /\ (e \in closer.waiting => e \in closer'.waiting)
          \/ closer.pc \notin {"open", "inserting"}
      BY <1>11
    <3> QED
      BY <1>5, <1>10, <2>7, <3>5, <3>6, <3>7, WokenOther
  <2>11. Has(jobs, Only("finally")) =>
           \/ ~pump.claimedNothing \/ Owed' = {}
           \/ ~pump'.held /\ Before(jobs, Only("finally"), Only("flush"))'
    <3>1. ~Meets(N \cup A, Only("finally"))
      BY <1>9, <2>5, WokenJobs
    <3>2. Before(jobs, Only("finally"), Only("flush")) => Before(jobs, Only("finally"), Only("flush"))'
      BY <2>3, <3>1 DEF Queued
    <3>3. Has(jobs, Only("finally")) =>
            \/ ~pump.claimedNothing \/ Owed = {}
            \/ ~pump.held /\ Before(jobs, Only("finally"), Only("flush"))
      BY DEF Inv, PumpOk
    <3> QED
      BY <2>5, <2>8, <3>2, <3>3
  <2>12. Has(jobs, Only("idled")) => N # Only("decide") /\ closer'.pc = closer.pc
    <3>1. Has(jobs, Only("idled")) => closer.pc \in {"idle", "stop"}
      BY DEF Inv, IdledFirst
    <3> QED
      BY <1>11, <2>6, <3>1
  <2> QED
    BY <1>6, <1>9, <1>10, <1>12, <2>1, <2>3, <2>4, <2>8, <2>9, <2>10, <2>11, <2>12, WokenKept
<1>14. CASE ~pump.saturated /\ jobs' = Tail(jobs) \o after /\ UNCHANGED <<pump, place, attempts>>
  <2>1. Queued({<<"freed", d>>}, A)
    BY <1>2, <1>3, <1>7, <1>14, QueuedRuns
  <2>2. \A e \in Delivery : Stays(e)
    BY <1>14 DEF Stays
  <2>3. Shapes'
    BY <1>10, <1>14 DEF Inv, Shapes, Typed
  <2>4. Owed' \subseteq Owed
    BY <1>2, <2>2, StillOwed
  <2>5. PICK N : N = {} /\ N \in {{}, Only("decide"), Only("answered")}
    OBVIOUS
  <2>6. Queued({<<"freed", d>>}, N \cup A)
    BY <2>1, <2>5
  <2>7. CloserOk'
    <3>1. pump'.held = pump.held /\ pump'.stopped = pump.stopped
          /\ (pump'.pumping => pump.pumping \/ ~pump.stopped)
      BY <1>14
    <3> QED
      BY <1>6, <1>8, <2>2, <2>4, <2>5, <2>6, <3>1, FreedCloser
  <2>8. \A e \in Delivery : DeliveryOk(e)'
    <3>1. DeliveryOk(d)'
      BY <1>3, <1>5, <1>9, <1>10, <1>11, <2>1, <2>2, FreedDelivery
    <3> SUFFICES ASSUME NEW e \in Delivery, e # d  PROVE DeliveryOk(e)'
      BY <3>1
    <3>2. Untouched(MarksOf(e))
      BY <1>9, <1>12, <2>5, <2>6, WokenLeaves
    <3>3. \/ closer'.pc = closer.pc /\ (e \in closer.waiting => e \in closer'.waiting)
          \/ closer.pc \notin {"open", "inserting"}
      BY <1>11
    <3> QED
      BY <1>5, <1>10, <2>2, <2>3, <3>2, <3>3, WokenOther
  <2>9. PumpOk'
    <3>1. Untouched(Pumps)
      BY <1>9, <1>12, <2>1, Leaves
    <3>2. ~Meets(A, Only("finally"))
      BY <1>9 DEF Meets, Pumps, Only
    <3>3. Before(jobs, Only("finally"), Only("flush")) => Before(jobs, Only("finally"), Only("flush"))'
      BY <2>1, <3>2 DEF Queued
    <3> QED
      BY <1>6, <1>14, <2>4, <3>1, <3>3, PumpKept
  <2>10. IdledFirst'
    <3>1. ~Meets(A, Only("decide")) /\ ~Meets(A, Only("finally"))
      BY <1>9 DEF Meets, Pumps, Only
    <3>2. Has(jobs, Only("idled")) => closer'.pc = closer.pc
      BY <1>11 DEF Inv, IdledFirst
    <3> QED
      BY <1>9, <2>1, <3>1, <3>2, IdledKept
  <2>11. IsFiniteSet(Accepted)' /\ jobs' \in Seq(Jobs)
    <3>1. Accepted' = Accepted
      BY <1>14 DEF Accepted
    <3>2. IsFiniteSet(Accepted')
      BY <3>1 DEF Inv
    <3> QED
      BY <2>1, <3>2 DEF Accepted, Queued
  <2> QED
    BY <2>3, <2>7, <2>8, <2>9, <2>10, <2>11 DEF Inv
<1> QED
  BY <1>2, <1>13, <1>14
-----------------------------------------------------------------------------
(* The steps of close() that leave the pump and the deliveries alone.      *)

LEMMA IdledOver ==
  ASSUME Inv, NEW G, NEW M, Queued(G, M), ~Meets(M, Only("idled")), Meets(G, Only("idled"))
  PROVE  IdledFirst'
<1>1. ~Has(jobs, Only("idled"))' /\ Single(jobs, Only("idled"))'
      /\ Sooner(jobs, Only("idled"), Only("answered"))'
  BY DEF Queued, Inv, IdledFirst
<1> QED
  BY <1>1 DEF IdledFirst

LEMMA PlainKept ==
  ASSUME Inv, Shapes', pump' = pump, NEW G, NEW M, Queued(G, M), ~Meets(G, Pumps), ~Meets(M, Pumps),
         ~Meets(M, Only("idled")),
         ~Has(jobs, Only("idled")) \/ Meets(G, Only("idled")) \/ closer'.pc = closer.pc,
         Owed' \subseteq Owed, Mem!InFlight(flightOf)' \subseteq Mem!InFlight(flightOf), IsFiniteSet(Accepted)',
         \A d \in Delivery : DeliveryOk(d)', CloserOk'
  PROVE  Inv'
<1>1. /\ ~Meets(M, Only("finally")) /\ ~Meets(M, Only("decide")) /\ Untouched(Pumps)
  <2>1. Untouched(Pumps)
    BY Leaves
  <2> QED
    BY <2>1 DEF Meets, Pumps, Only
<1>2. PumpOk'
  <2>1. Before(jobs, Only("finally"), Only("flush")) => Before(jobs, Only("finally"), Only("flush"))'
    BY <1>1 DEF Queued
  <2> QED
    BY <1>1, <2>1, PumpKept
<1>3. IdledFirst'
  BY <1>1, IdledKept, IdledOver
<1>4. jobs' \in Seq(Jobs)
  BY DEF Queued
<1> QED
  BY <1>2, <1>3, <1>4 DEF Inv

OneOwn(A) == \E kind \in OwnKinds : A = {<<kind, None>>}

LEMMA OwnApart ==
  ASSUME NEW A, A = {} \/ OneOwn(A)
  PROVE  \A d : ~Meets(A, MarksOf(d))
<1>1. CASE A = {}
  BY <1>1, NoneApart
<1>2. CASE OneOwn(A)
  <2>1. PICK kind \in OwnKinds : A = {<<kind, None>>}
    BY <1>2 DEF OneOwn
  <2> QED
    BY <2>1, OwnMarks
<1> QED
  BY <1>1, <1>2

LEMMA OwnLeaves ==
  ASSUME NEW G, NEW M, Queued(G, M), G = {} \/ OneOwn(G), M = {} \/ OneOwn(M)
  PROVE  \A d \in Delivery : Untouched(MarksOf(d))
<1>1. \A d \in Delivery : ~Meets(G, MarksOf(d)) /\ ~Meets(M, MarksOf(d))
  BY OwnApart
<1> QED
  BY <1>1, Leaves

LEMMA CloseStep ==
  ASSUME Inv, NEW G, NEW M, Queued(G, M), G = {} \/ OneOwn(G), M = {} \/ OneOwn(M),
         ~Meets(G, Pumps), ~Meets(M, Pumps), ~Meets(M, Only("idled")),
         UNCHANGED <<place, attempts, inserting, pump, flightOf, reminders, outcome>>,
         closer' \in [pc : {"open", "inserting", "idle", "any", "stop", "flights", "closed", "busy"},
                      waiting : SUBSET Delivery, nothing : BOOLEAN],
         ~Has(jobs, Only("idled")) \/ Meets(G, Only("idled")) \/ closer'.pc = closer.pc,
         closer.pc \notin {"open", "inserting"} \/ closer' = closer,
         CloserOk'
  PROVE  Inv'
<1>1. Shapes'
  BY DEF Inv, Shapes
<1>2. \A d \in Delivery : Untouched(MarksOf(d))
  BY OwnLeaves
<1>3. /\ \A d \in Delivery : DeliveryOk(d)'
      /\ IsFiniteSet(Accepted)'
      /\ Owed' = Owed /\ Mem!InFlight(flightOf)' = Mem!InFlight(flightOf)
  <2>1. pump'.batch = pump.batch /\ UNCHANGED <<place, attempts, inserting, flightOf, outcome>>
    OBVIOUS
  <2>2. \/ closer'.pc = closer.pc /\ closer'.waiting = closer.waiting
        \/ closer.pc \notin {"open", "inserting"}
    OBVIOUS
  <2> QED
    BY <1>1, <1>2, <2>1, <2>2, DeliveriesKept
<1> QED
  BY <1>1, <1>3, PlainKept

(* What a job of close()'s own is, and what it queues.                     *)
LEMMA CloserMarks ==
  ASSUME NEW kind, kind \in CloserKinds \cup {"idled", "close"}
  PROVE  /\ OneOwn(Only(kind)) /\ ~Meets(Only(kind), Pumps)
         /\ Meets(Only(kind), Closers) <=> kind \in CloserKinds
         /\ \A k : Meets(Only(kind), Only(k)) <=> kind = k
         /\ \A K : Alone(Only(kind), K)
<1>1. kind \in OwnKinds /\ kind \notin PumpKinds
  BY OwnWhich
<1>2. Only(kind) = {<<kind, None>>}
  BY DEF Only
<1> QED
  BY <1>1, <1>2, OwnMarks DEF OneOwn

LEMMA CloserRuns ==
  ASSUME Inv, NEW kind, kind \in CloserKinds \cup {"idled", "close"}, Mem!Runs(kind)
  PROVE  /\ Has(jobs, Only(kind)) /\ Mark(Head(jobs)) \in Only(kind) /\ jobs # <<>>
         /\ jobs' = Tail(jobs) => Queued(Only(kind), {})
         /\ \A next \in CloserKinds, hops \in 0..4 :
              jobs' = Tail(jobs) \o Mem!Job(next, None, hops) => Queued(Only(kind), Only(next))
         /\ \A new, M : Carries(new, M) /\ jobs' = Tail(jobs) \o new => Queued(Only(kind), M)
<1>1. kind \in OwnKinds /\ Only(kind) = {<<kind, None>>} /\ jobs \in Seq(Jobs)
  BY OwnWhich DEF Only, Inv
<1>2. /\ Mark(Head(jobs)) = <<kind, None>> /\ jobs # <<>>
      /\ \A K : <<kind, None>> \in K => Has(jobs, K)
      /\ jobs' = Tail(jobs) => Queued({<<kind, None>>}, {})
      /\ \A new, M : Carries(new, M) /\ jobs' = Tail(jobs) \o new
                       => Queued({<<kind, None>>}, M)
  BY <1>1, OwnRuns
<1>3. \A next \in CloserKinds, hops \in 0..4 : Carries(Mem!Job(next, None, hops), Only(next))
  <2> SUFFICES ASSUME NEW next \in CloserKinds, NEW hops \in 0..4
               PROVE  Carries(Mem!Job(next, None, hops), Only(next))
    OBVIOUS
  <2>1. next \in OwnKinds /\ next \notin {"answered", "idled", "decide", "finally"}
    BY OwnWhich
  <2> QED
    BY <2>1, OwnCarries DEF Only
<1>4. /\ jobs' = Tail(jobs) => Queued(Only(kind), {})
      /\ \A new, M : Carries(new, M) /\ jobs' = Tail(jobs) \o new => Queued(Only(kind), M)
  BY <1>1, <1>2
<1> QED
  BY <1>1, <1>2, <1>3, <1>4

LEMMA StepStopped == Inv /\ Mem!Stopped => Inv'
<1> SUFFICES ASSUME Inv, Mem!Stopped PROVE Inv'
  OBVIOUS
<1>1. /\ Mem!Runs("stopped") /\ "stopped" \in CloserKinds /\ "abandon" \in CloserKinds /\ 1 \in 0..4
      /\ UNCHANGED <<place, attempts, inserting, pump, flightOf, reminders, outcome>>
  BY OwnWhich DEF Mem!Stopped
<1>2. Has(jobs, Only("stopped"))
  BY <1>1, CloserRuns
<1>3. closer.pc = "busy" /\ pump.stopped /\ pump.held /\ ~pump.pumping
  BY <1>1, <1>2, CloserIs DEF Inv, CloserOk
<1>4. ~Has(jobs, Only("idled"))
  BY <1>3 DEF Inv, IdledFirst
<1>5. /\ OneOwn(Only("stopped")) /\ ~Meets(Only("stopped"), Pumps) /\ Meets(Only("stopped"), Closers)
      /\ OneOwn(Only("abandon")) /\ ~Meets(Only("abandon"), Pumps)
      /\ ~Meets(Only("abandon"), Only("idled")) /\ ~Meets(Only("abandon"), Only("close"))
      /\ Meets(Only("abandon"), Only("abandon")) /\ Alone(Only("abandon"), Closers)
  BY <1>1, CloserMarks
<1>6. CASE Mem!InFlight(flightOf) = {} /\ jobs' = Tail(jobs) \o Mem!Job("abandon", None, 1) /\ UNCHANGED closer
  <2>1. Queued(Only("stopped"), Only("abandon"))
    BY <1>1, <1>6, CloserRuns
  <2>2. Mem!InFlight(flightOf)' = {}
    BY <1>1, <1>6 DEF Mem!InFlight
  <2>3. CloserOk'
    <3>1. /\ closer'.pc = "busy" /\ pump'.held /\ pump'.stopped /\ ~pump'.pumping
          /\ "abandon" \in CloserKinds \cup {"none"}
      BY <1>1, <1>3, <1>6
    <3> QED
      BY <1>3, <1>5, <2>1, <2>2, <3>1, CloserNow
  <2>4. closer' = closer /\ closer' \in [pc : {"open", "inserting", "idle", "any", "stop", "flights", "closed", "busy"},
                      waiting : SUBSET Delivery, nothing : BOOLEAN]
    BY <1>6 DEF Inv, Shapes
  <2> QED
    BY <1>1, <1>4, <1>5, <2>1, <2>3, <2>4, CloseStep
<1>7. CASE jobs' = Tail(jobs) /\ closer' = [closer EXCEPT !.pc = "flights"]
  <2>1. Queued(Only("stopped"), {})
    BY <1>1, <1>7, CloserRuns
  <2>2. closer'.pc = "flights" /\ closer' \in [pc : {"open", "inserting", "idle", "any", "stop", "flights", "closed", "busy"},
                      waiting : SUBSET Delivery, nothing : BOOLEAN]
    BY <1>7 DEF Inv, Shapes
  <2>3. CloserOk'
    <3>1. /\ pump'.held /\ pump'.stopped /\ ~pump'.pumping
          /\ "none" \in CloserKinds \cup {"none"}
      BY <1>1, <1>3
    <3> QED
      BY <1>3, <1>5, <2>1, <2>2, <3>1, NoneApart, CloserNow
  <2> QED
    BY <1>1, <1>3, <1>4, <1>5, <2>1, <2>2, <2>3, NoneApart, CloseStep
<1> QED
  BY <1>6, <1>7 DEF Mem!Stopped
(* flush: hold, wake, await.                                               *)
LEMMA FlushWakes ==
  ASSUME Inv, NEW kind \in {"flush", "afterIdle"}, Mem!Runs(kind), Mem!FlushFrom(Tail(jobs)),
         UNCHANGED <<inserting, flightOf, reminders, outcome>>
  PROVE  Inv'
<1>1. PICK p : p = [pump EXCEPT !.held = TRUE]
  OBVIOUS
<1>2. /\ Mem!wake(p, flightOf, Tail(jobs), <<>>)
      /\ closer' = [closer EXCEPT !.pc = "idle"]
  BY <1>1 DEF Mem!FlushFrom
<1>3. PICK after, A : after = <<>> /\ A = {} /\ Carries(after, A) /\ ~Meets(A, Pumps)
                      /\ Mem!wake(p, flightOf, Tail(jobs), after)
  BY <1>2, CarriesNone, NoneApart
<1>4. kind \in CloserKinds /\ kind # "close" /\ kind \in CloserKinds \cup {"idled", "close"}
  BY OwnWhich
<1>5. Has(jobs, Only(kind)) /\ Mark(Head(jobs)) \in Only(kind) /\ jobs # <<>>
  BY <1>4, CloserRuns
<1>6. /\ ~pump.stopped /\ closer.pc # "open" /\ ~Has(jobs, Only("close"))
      /\ closer.pc = "busy" \/ (kind = "flush" /\ closer.pc = "inserting" /\ closer.waiting = {})
  BY <1>4, <1>5, CloserIs
<1>7. ~Has(jobs, Only("idled"))
  BY <1>6 DEF Inv, IdledFirst
<1>8. /\ p \in PumpShape /\ p.held /\ Alike(p) /\ (~p.pumping => p.batch = {})
      /\ Tail(jobs) \in Seq(Jobs) /\ Mem!InFlight(flightOf) \subseteq Mem!InFlight(flightOf)
  <2>1. pump \in PumpShape /\ (~pump.pumping => pump.batch = {})
    BY PumpTyped
  <2>2. jobs \in Seq(Jobs)
    BY DEF Inv
  <2>3. Tail(jobs) \in Seq(Jobs)
    BY <1>5, <2>2, HeadLeaves
  <2> QED
    BY <1>1, <2>1, <2>3 DEF PumpShape, Alike
<1>9. PICK N, new : Woken(p, flightOf, N) /\ Carries(new, N \cup A) /\ jobs' = Tail(jobs) \o new
  <2>1. Carries(after, A) /\ ~Meets(A, Pumps) /\ Mem!wake(p, flightOf, Tail(jobs), after)
    BY <1>3
  <2> QED
    BY <1>8, <2>1, WakeEach
<1>10. Queued(Only(kind), N \cup A)
  BY <1>4, <1>9, CloserRuns
<1>11. /\ pump'.held /\ ~pump'.stopped
       /\ \A d \in Delivery : Stays(d) \/ Claims(d)
       /\ N \in {{}, Only("decide"), Only("answered")}
  <2>1. /\ pump'.held = p.held /\ pump'.stopped = pump.stopped
        /\ \A d \in Delivery : Stays(d) \/ Claims(d)
        /\ N \in {{}, Only("decide"), Only("answered")}
    BY <1>8, <1>9, WokenIs
  <2> QED
    BY <1>6, <1>8, <2>1
<1>12. closer'.pc = "idle" /\ Typed'
  BY <1>2 DEF Inv, Shapes, Typed
<1>13. Shapes'
  BY <1>8, <1>9, <1>12, WokenShapes
<1>14. OneOwn(Only(kind)) /\ ~Meets(Only(kind), Pumps) /\ Meets(Only(kind), Closers)
  BY <1>4, CloserMarks
<1>15. \A d \in Delivery : DeliveryOk(d)'
  <2>1. \A d \in Delivery : Untouched(MarksOf(d))
    <3>1. \A d \in Delivery : ~Meets(Only(kind), MarksOf(d)) /\ ~Meets(A, MarksOf(d))
      BY <1>3, <1>14, OwnApart
    <3> QED
      BY <1>3, <1>10, <1>11, <3>1, WokenLeaves
  <2> SUFFICES ASSUME NEW d \in Delivery  PROVE DeliveryOk(d)'
    OBVIOUS
  <2>2. Untouched(MarksOf(d)) /\ (Stays(d) \/ Claims(d))
    BY <1>11, <2>1
  <2>3. inserting'[d] = inserting[d] /\ flightOf'[d] = flightOf[d] /\ outcome'[d] = outcome[d]
    OBVIOUS
  <2>4. closer.pc \notin {"open", "inserting"} \/ (closer.pc = "inserting" /\ closer.waiting = {})
    BY <1>6
  <2> QED
    BY <1>13, <2>2, <2>3, <2>4, WokenOther
<1>16. CloserOk'
  <2>1. ~Meets(N \cup A, Closers) /\ ~Meets(N \cup A, Only("close"))
    <3>1. \A m \in Closers \cup Only("close") : m[1] \notin PumpKinds
      BY DEF PumpKinds, Closers, Only
    <3>2. ~Meets(A, Closers) /\ ~Meets(A, Only("close"))
      BY <1>3, NoneApart
    <3> QED
      BY <1>3, <1>11, <3>1, <3>2, WokenJobs
  <2>2. PICK M : M = N \cup A
    OBVIOUS
  <2>3. Queued(Only(kind), M) /\ ~Meets(M, Closers) /\ ~Meets(M, Only("close"))
    BY <1>10, <2>1, <2>2
  <2>4. "none" \in CloserKinds \cup {"none"} /\ "none" \notin {"stopped", "abandon"}
    OBVIOUS
  <2> QED
    BY <1>6, <1>11, <1>12, <1>14, <2>3, <2>4, CloserNow
<1>17. Owed' \subseteq Owed
  BY <1>11, StillOwed
<1>18. Has(jobs, Only("finally")) => ~pump.claimedNothing \/ Owed' = {}
  <2>1. Has(jobs, Only("finally")) =>
          \/ ~pump.claimedNothing \/ Owed = {}
          \/ ~pump.held /\ Before(jobs, Only("finally"), Only("flush"))
    BY DEF Inv, PumpOk
  <2>2. CASE kind = "flush"
    <3>1. Before(jobs, Only("finally"), Only("flush")) => ~Has(jobs, Only("finally"))
      BY <1>5, <2>2, OrderLeaves DEF Inv
    <3> QED
      BY <1>17, <2>1, <3>1
  <2>3. CASE kind = "afterIdle"
    <3>1. pump.held
      BY <1>6, <2>3, CloserIs
    <3> QED
      BY <1>17, <2>1, <3>1
  <2> QED
    BY <2>2, <2>3
<1>19. /\ Woken(p, flightOf', N) /\ Mem!InFlight(flightOf') \subseteq Mem!InFlight(flightOf)
       /\ ~Meets(A, Only("idled"))
  BY <1>3, <1>9, NoneApart
<1> QED
  BY <1>3, <1>7, <1>8, <1>10, <1>12, <1>14, <1>15, <1>16, <1>17, <1>18, <1>19, WokenKept

LEMMA StepFlush == Inv /\ Mem!Flush => Inv'
  BY FlushWakes DEF Mem!Flush

CloserShape ==
  [pc : {"open", "inserting", "idle", "any", "stop", "flights", "closed", "busy"},
   waiting : SUBSET Delivery, nothing : BOOLEAN]

LEMMA StepAfterIdle == Inv /\ Mem!AfterIdle => Inv'
<1> SUFFICES ASSUME Inv, Mem!AfterIdle PROVE Inv'
  OBVIOUS
<1>1. /\ Mem!Runs("afterIdle") /\ "afterIdle" \in CloserKinds /\ "flushed" \in CloserKinds /\ 0 \in 0..4
      /\ UNCHANGED <<inserting, flightOf, reminders, outcome>>
  BY OwnWhich DEF Mem!AfterIdle
<1>2. Has(jobs, Only("afterIdle"))
  BY <1>1, CloserRuns
<1>3. closer.pc = "busy" /\ ~pump.stopped /\ pump.held /\ (closer.nothing => Owed = {})
  BY <1>1, <1>2, CloserIs DEF Inv, CloserOk
<1>4. ~Has(jobs, Only("idled"))
  BY <1>3 DEF Inv, IdledFirst
<1>5. /\ OneOwn(Only("afterIdle")) /\ ~Meets(Only("afterIdle"), Pumps) /\ Meets(Only("afterIdle"), Closers)
      /\ OneOwn(Only("flushed")) /\ ~Meets(Only("flushed"), Pumps)
      /\ ~Meets(Only("flushed"), Only("idled")) /\ ~Meets(Only("flushed"), Only("close"))
      /\ Meets(Only("flushed"), Only("flushed")) /\ Alone(Only("flushed"), Closers)
  BY <1>1, CloserMarks
<1>6. CASE /\ closer' = [closer EXCEPT !.pc = "any", !.waiting = Mem!InFlight(flightOf)]
           /\ jobs' = Tail(jobs)
           /\ UNCHANGED <<pump, place, attempts>>
  <2>1. Queued(Only("afterIdle"), {})
    BY <1>1, <1>6, CloserRuns
  <2>2. closer'.pc = "any" /\ closer' \in CloserShape
    <3>1. Mem!InFlight(flightOf) \in SUBSET Delivery
      BY DEF Mem!InFlight
    <3> QED
      BY <1>6, <3>1 DEF Inv, Shapes, CloserShape
  <2>3. CloserOk'
    <3>1. /\ pump'.held /\ ~pump'.stopped
          /\ "none" \in CloserKinds \cup {"none"}
      BY <1>3, <1>6
    <3> QED
      BY <1>3, <1>5, <2>1, <2>2, <3>1, NoneApart, CloserNow
  <2> QED
    BY <1>1, <1>3, <1>4, <1>5, <1>6, <2>1, <2>2, <2>3, NoneApart, CloseStep DEF CloserShape
<1>7. CASE /\ closer.nothing
           /\ jobs' = Tail(jobs) \o Mem!Job("flushed", None, 0)
           /\ UNCHANGED <<pump, place, attempts, closer>>
  <2>1. Queued(Only("afterIdle"), Only("flushed"))
    BY <1>1, <1>7, CloserRuns
  <2>2. Owed' = {}
    BY <1>1, <1>3, <1>7 DEF Owed
  <2>3. CloserOk'
    <3>1. /\ closer'.pc = "busy" /\ pump'.held /\ ~pump'.stopped
          /\ "flushed" \in CloserKinds \cup {"none"}
      BY <1>1, <1>3, <1>7
    <3> QED
      BY <1>3, <1>5, <2>1, <2>2, <3>1, CloserNow
  <2>4. closer' = closer /\ closer' \in CloserShape
    BY <1>7 DEF Inv, Shapes, CloserShape
  <2> QED
    BY <1>1, <1>4, <1>5, <1>7, <2>1, <2>3, <2>4, CloseStep DEF CloserShape
<1>8. CASE Mem!FlushFrom(Tail(jobs))
  BY <1>1, <1>8, FlushWakes
<1>9. Mem!InFlight(flightOf) # {} \/ (Mem!InFlight(flightOf) = {} /\ closer.nothing)
      \/ (Mem!InFlight(flightOf) = {} /\ ~closer.nothing)
  OBVIOUS
<1> QED
  <2>1. CASE Mem!InFlight(flightOf) # {}
    <3>1. ~(Mem!InFlight(flightOf) = {})
      BY <2>1
    <3> QED
      BY <1>6, <2>1, <3>1 DEF Mem!AfterIdle
  <2>2. CASE Mem!InFlight(flightOf) = {} /\ closer.nothing
    BY <1>7, <2>2 DEF Mem!AfterIdle
  <2>3. CASE Mem!InFlight(flightOf) = {} /\ ~closer.nothing
    BY <1>8, <2>3 DEF Mem!AfterIdle
  <2> QED
    BY <2>1, <2>2, <2>3
LEMMA StepIdled == Inv /\ Mem!Idled => Inv'
<1> SUFFICES ASSUME Inv, Mem!Idled PROVE Inv'
  OBVIOUS
<1>1. /\ Mem!Runs("idled") /\ "stopped" \in CloserKinds /\ "afterIdle" \in CloserKinds /\ 0 \in 0..4
      /\ UNCHANGED <<place, attempts, inserting, pump, flightOf, reminders, outcome>>
  BY OwnWhich DEF Mem!Idled
<1>2. Has(jobs, Only("idled"))
  BY <1>1, CloserRuns
<1>3. closer.pc \in {"idle", "stop"}
  BY <1>2 DEF Inv, IdledFirst
<1>4. /\ ~Has(jobs, Closers) /\ pump.held /\ (pump.stopped <=> closer.pc = "stop")
      /\ closer.pc # "open"
  BY <1>3, CloserIs
<1>5. \A kind \in {"stopped", "afterIdle"} :
        /\ OneOwn(Only(kind)) /\ ~Meets(Only(kind), Pumps)
        /\ ~Meets(Only(kind), Only("idled")) /\ ~Meets(Only(kind), Only("close"))
        /\ Meets(Only(kind), Only(kind)) /\ Alone(Only(kind), Closers)
  BY <1>1, CloserMarks
<1>6. /\ OneOwn(Only("idled")) /\ ~Meets(Only("idled"), Pumps) /\ Meets(Only("idled"), Only("idled"))
      /\ ~Meets(Only("idled"), Closers) /\ ~Meets(Only("idled"), Only("close"))
  <2>1. "idled" \notin CloserKinds /\ "idled" # "close"
    BY OwnWhich
  <2> QED
    BY <2>1, CloserMarks
<1>7. CASE closer.pc = "stop" /\ jobs' = Tail(jobs) \o Mem!Job("stopped", None, 0)
           /\ closer' = [closer EXCEPT !.pc = "busy"]
  <2>1. Queued(Only("idled"), Only("stopped"))
    BY <1>1, <1>7, CloserRuns
  <2>2. closer'.pc = "busy" /\ closer' \in CloserShape
    BY <1>7 DEF Inv, Shapes, CloserShape
  <2>3. ~pump.pumping
    BY <1>2, <1>4, <1>7 DEF Inv, CloserOk
  <2>4. CloserOk'
    <3>1. /\ pump'.held /\ pump'.stopped /\ ~pump'.pumping
          /\ "stopped" \in CloserKinds \cup {"none"}
      BY <1>1, <1>4, <1>7, <2>3
    <3> QED
      BY <1>4, <1>5, <2>1, <2>2, <3>1, CloserNow
  <2> QED
    BY <1>1, <1>3, <1>5, <1>6, <2>1, <2>2, <2>4, CloseStep DEF CloserShape
<1>8. CASE jobs' = Tail(jobs) /\ UNCHANGED closer
  <2>1. Queued(Only("idled"), {})
    BY <1>1, <1>8, CloserRuns
  <2>2. Untouched(Closers) /\ Untouched(Only("close"))
    BY <1>6, <2>1, NoneApart, Leaves
  <2>3. Mem!InFlight(flightOf)' \subseteq Mem!InFlight(flightOf) /\ Owed' \subseteq Owed
    BY <1>1 DEF Mem!InFlight, Owed
  <2>4. CloserOk'
    <3>1. /\ pump' = pump /\ closer' = closer
          /\ Has(jobs, Only("close"))' => Has(jobs, Only("close"))
          /\ Single(jobs, Only("close"))'
      BY <1>1, <1>8, <2>2, CloserIs DEF Untouched
    <3>2. closer.pc # "closed"
      BY <1>3
    <3> QED
      BY <1>2, <2>2, <2>3, <3>1, <3>2, CloserKept
  <2>5. closer' = closer /\ closer' \in CloserShape
    BY <1>8 DEF Inv, Shapes, CloserShape
  <2> QED
    BY <1>1, <1>5, <1>6, <2>1, <2>4, <2>5, NoneApart, CloseStep DEF CloserShape
<1>9. CASE /\ closer.pc = "idle" /\ ~pump.pumping
           /\ jobs' = Tail(jobs) \o Mem!Job("afterIdle", None, 0)
           /\ closer' = [closer EXCEPT !.pc = "busy", !.nothing = pump.claimedNothing]
  <2>1. Queued(Only("idled"), Only("afterIdle"))
    BY <1>1, <1>9, CloserRuns
  <2>2. closer'.pc = "busy" /\ closer' \in CloserShape /\ (closer'.nothing => pump.claimedNothing)
    BY <1>9 DEF Inv, Shapes, CloserShape
  <2>3. closer'.nothing => Owed' = {}
    <3>1. Owed' = Owed
      BY <1>1 DEF Owed
    <3> QED
      BY <1>4, <1>9, <2>2, <3>1 DEF Inv, PumpOk
  <2>4. CloserOk'
    <3>1. /\ pump'.held /\ ~pump'.stopped
          /\ "afterIdle" \in CloserKinds \cup {"none"}
      BY <1>1, <1>4, <1>9
    <3> QED
      BY <1>4, <1>5, <2>1, <2>2, <2>3, <3>1, CloserNow
  <2> QED
    BY <1>1, <1>3, <1>5, <1>6, <2>1, <2>2, <2>4, CloseStep DEF CloserShape
<1> QED
  <2>1. CASE closer.pc = "stop"
    BY <1>7, <2>1 DEF Mem!Idled
  <2>2. CASE closer.pc = "idle" /\ pump.pumping
    <3>1. closer.pc # "stop"
      BY <2>2
    <3> QED
      BY <1>8, <2>2, <3>1 DEF Mem!Idled
  <2>3. CASE closer.pc = "idle" /\ ~pump.pumping
    <3>1. closer.pc # "stop"
      BY <2>3
    <3> QED
      BY <1>9, <2>3, <3>1 DEF Mem!Idled
  <2> QED
    BY <1>3, <2>1, <2>2, <2>3

(* Nothing is owed once the flush is over, and the pump stops.             *)
LEMMA StepFlushed == Inv /\ Mem!Flushed => Inv'
<1> SUFFICES ASSUME Inv, Mem!Flushed PROVE Inv'
  OBVIOUS
<1>1. /\ Mem!Runs("flushed") /\ "flushed" \in CloserKinds /\ "stopped" \in CloserKinds /\ 1 \in 0..4
      /\ pump' = [pump EXCEPT !.stopped = TRUE]
      /\ UNCHANGED <<place, attempts, inserting, flightOf, reminders, outcome>>
  BY OwnWhich DEF Mem!Flushed
<1>2. Has(jobs, Only("flushed"))
  BY <1>1, CloserRuns
<1>3. closer.pc = "busy" /\ pump.held /\ Owed = {}
  BY <1>1, <1>2, CloserIs DEF Inv, CloserOk
<1>4. ~Has(jobs, Only("idled"))
  BY <1>3 DEF Inv, IdledFirst
<1>5. /\ OneOwn(Only("flushed")) /\ ~Meets(Only("flushed"), Pumps) /\ Meets(Only("flushed"), Closers)
      /\ ~Meets(Only("flushed"), Only("idled"))
      /\ OneOwn(Only("stopped")) /\ ~Meets(Only("stopped"), Pumps)
      /\ ~Meets(Only("stopped"), Only("idled")) /\ ~Meets(Only("stopped"), Only("close"))
      /\ Meets(Only("stopped"), Only("stopped")) /\ Alone(Only("stopped"), Closers)
  BY <1>1, CloserMarks
<1>6. /\ pump'.stopped /\ pump'.held = pump.held /\ pump'.claimedNothing = pump.claimedNothing
      /\ pump'.batch = pump.batch /\ pump'.free = pump.free /\ pump'.again = pump.again
      /\ pump'.pumping <=> pump.pumping
      /\ pump' \in PumpShape
  BY <1>1 DEF Inv, Shapes, PumpShape
<1>7. Owed' = {} /\ Mem!InFlight(flightOf)' = Mem!InFlight(flightOf)
  BY <1>1, <1>3 DEF Owed, Mem!InFlight
<1>8. ASSUME closer' \in CloserShape, NEW M, Queued(Only("flushed"), M), M = {} \/ M = Only("stopped"),
             CloserOk'
      PROVE  Inv'
  <2>1. /\ M = {} \/ OneOwn(M)
        /\ ~Meets(M, Pumps) /\ ~Meets(M, Only("idled"))
    BY <1>5, <1>8, NoneApart
  <2>2. Shapes'
    BY <1>1, <1>6, <1>8 DEF Inv, Shapes, PumpShape, CloserShape
  <2>3. \A d \in Delivery : DeliveryOk(d)'
    <3>1. \A d \in Delivery : Untouched(MarksOf(d))
      BY <1>5, <1>8, <2>1, OwnLeaves
    <3> QED
      BY <1>1, <1>3, <1>6, <2>2, <3>1, DeliveriesKept
  <2>4. IsFiniteSet(Accepted)'
    <3>1. Accepted' = Accepted
      BY <1>1 DEF Accepted
    <3>2. IsFiniteSet(Accepted')
      BY <3>1 DEF Inv
    <3> QED
      BY <3>2 DEF Accepted
  <2>5. PumpOk'
    <3>1. Untouched(Pumps)
      BY <1>5, <1>8, <2>1, Leaves
    <3>2. /\ \A kind \in {"answered", "decide", "finally"} :
               Has(jobs, Only(kind))' <=> Has(jobs, Only(kind))
          /\ Has(jobs, Pumps)' <=> Has(jobs, Pumps)
          /\ Single(jobs, Pumps) => Single(jobs, Pumps)'
      BY <3>1, MarksWithin DEF Untouched
    <3>3. PumpOk
      BY DEF Inv
    <3> QED
      BY <1>6, <1>7, <3>2, <3>3 DEF PumpOk
  <2>6. IdledFirst'
    BY <1>4, <1>8, <2>1, IdledKept
  <2>7. jobs' \in Seq(Jobs)
    BY <1>8 DEF Queued
  <2> QED
    BY <1>8, <2>2, <2>3, <2>4, <2>5, <2>6, <2>7 DEF Inv
<1>9. ~Has(jobs, Only("idled"))' \/ ~Queued(Only("flushed"), {})
  BY <1>4, NoneApart DEF Queued
<1>10. CASE /\ closer' = [closer EXCEPT !.pc = "stop"]
            /\ jobs' = Tail(jobs)
  <2>1. Queued(Only("flushed"), {})
    BY <1>1, <1>10, CloserRuns
  <2>2. closer'.pc = "stop" /\ closer' \in CloserShape
    BY <1>10 DEF Inv, Shapes, CloserShape
  <2>3. CloserOk'
    <3>1. pump'.held /\ "none" \in CloserKinds \cup {"none"}
      BY <1>3, <1>6
    <3> QED
      BY <1>3, <1>5, <1>6, <1>9, <2>1, <2>2, <3>1, NoneApart, CloserNow
  <2> QED
    BY <1>8, <2>1, <2>2, <2>3
<1>11. CASE /\ ~pump.pumping
            /\ jobs' = Tail(jobs) \o Mem!Job("stopped", None, 1)
            /\ UNCHANGED closer
  <2>1. Queued(Only("flushed"), Only("stopped"))
    BY <1>1, <1>11, CloserRuns
  <2>2. closer'.pc = "busy" /\ closer' \in CloserShape
    BY <1>3, <1>11 DEF Inv, Shapes, CloserShape
  <2>3. CloserOk'
    <3>1. pump'.held /\ ~pump'.pumping /\ "stopped" \in CloserKinds \cup {"none"}
      BY <1>1, <1>3, <1>6, <1>11
    <3> QED
      BY <1>3, <1>5, <1>6, <2>1, <2>2, <3>1, CloserNow
  <2> QED
    BY <1>8, <2>1, <2>2, <2>3
<1> QED
  BY <1>10, <1>11 DEF Mem!Flushed

LEMMA StepClose == Inv /\ Mem!Close => Inv'
<1> SUFFICES ASSUME Inv, Mem!Close PROVE Inv'
  OBVIOUS
<1>1. /\ closer.pc = "open" /\ jobs' = jobs \o Mem!Job("close", None, 0) /\ jobs \in Seq(Jobs)
      /\ UNCHANGED <<place, attempts, inserting, pump, flightOf, reminders, closer, outcome>>
  BY DEF Mem!Close, Mem!Closing, Inv
<1>2. ~Has(jobs, Only("close"))
  BY DEF Mem!Close, Has, Only, Mark
<1>3. /\ OneOwn(Only("close")) /\ ~Meets(Only("close"), Pumps) /\ ~Meets(Only("close"), Closers)
      /\ ~Meets(Only("close"), Only("idled")) /\ Alone(Only("close"), Only("close"))
  <2>1. "close" \notin CloserKinds
    BY OwnWhich
  <2> QED
    BY <2>1, CloserMarks
<1>4. Queued({}, Only("close"))
  <2>1. "close" \in OwnKinds /\ "close" \notin {"answered", "idled", "decide", "finally"} /\ 0 \in 0..4
    BY OwnWhich
  <2>2. Carries(Mem!Job("close", None, 0), Only("close"))
    BY <2>1, OwnCarries DEF Only
  <2> QED
    BY <1>1, <2>2, QueuedCalls
<1>5. Single(jobs, Only("close"))' /\ Untouched(Closers)
  <2>1. Untouched(Closers)
    BY <1>3, <1>4, NoneApart, Leaves
  <2> QED
    BY <1>2, <1>3, <1>4, <2>1, CloserIs DEF Queued
<1>6. ~Has(jobs, Only("idled")) /\ Mem!InFlight(flightOf)' \subseteq Mem!InFlight(flightOf) /\ Owed' \subseteq Owed
  BY <1>1 DEF Inv, IdledFirst, Mem!InFlight, Owed
<1>7. CloserOk'
  <2>1. pump' = pump /\ closer' = closer /\ closer.pc # "closed"
    BY <1>1
  <2>2. ~Has(jobs, Only("idled"))'
    BY <1>3, <1>4, <1>6 DEF Queued
  <2> QED
    BY <1>1, <1>5, <1>6, <2>1, <2>2, CloserKept
<1>8. closer' = closer /\ closer' \in CloserShape
  BY <1>1 DEF Inv, Shapes, CloserShape
<1> QED
  BY <1>1, <1>3, <1>4, <1>6, <1>7, <1>8, NoneApart, CloseStep DEF CloserShape
-----------------------------------------------------------------------------
(* The inserts close() waits for, and the deliveries it gives up.          *)

LEMMA JobLeft ==
  ASSUME NEW kind \in OfDelivery, NEW d, NEW M, Queued({<<kind, d>>}, M), ~Meets(M, MarksOf(d))
  PROVE  /\ Has(jobs, Its(kind, d))
         /\ Single(jobs, Its(kind, d)) => ~Has(jobs, Its(kind, d))' /\ Single(jobs, Its(kind, d))'
         /\ \A k \in OfDelivery : k # kind =>
              /\ Has(jobs, Its(k, d))' <=> Has(jobs, Its(k, d))
              /\ Single(jobs, Its(k, d)) => Single(jobs, Its(k, d))'
         /\ kind \notin FlightKinds =>
              /\ Has(jobs, Flights(d))' <=> Has(jobs, Flights(d))
              /\ Single(jobs, Flights(d)) => Single(jobs, Flights(d))'
<1>1. /\ \A k : Meets({<<kind, d>>}, Its(k, d)) <=> kind = k
      /\ Meets({<<kind, d>>}, Flights(d)) <=> kind \in FlightKinds
  BY OneMark
<1>2. (\A k \in OfDelivery : ~Meets(M, Its(k, d))) /\ ~Meets(M, Flights(d))
  <2>1. \A K \in SUBSET MarksOf(d) : ~Meets(M, K)
    BY DEF Meets
  <2> QED
    BY <2>1, MarksWithin
<1> DEFINE G == {<<kind, d>>}
<1> HIDE DEF G
<1> QED
  BY <1>1, <1>2 DEF Queued

LEMMA StepElem == Inv /\ Mem!Elem => Inv'
<1> SUFFICES ASSUME Inv, Mem!Elem PROVE Inv'
  OBVIOUS
<1>1. PICK d : d = Mem!Of
  OBVIOUS
<1>2. /\ Mem!Runs("elem") /\ jobs \in Seq(Jobs)
      /\ closer' = [closer EXCEPT !.waiting = @ \ {d}]
      /\ jobs' = Tail(jobs) \o (IF closer.waiting = {d} THEN Mem!Job("flush", None, 0) ELSE <<>>)
      /\ UNCHANGED <<place, attempts, inserting, pump, flightOf, reminders, outcome>>
  BY <1>1 DEF Inv, Mem!Elem
<1>3. /\ d \in Delivery /\ jobs # <<>> /\ Mark(Head(jobs)) = <<"elem", d>>
      /\ Has(jobs, Its("elem", d)) /\ "elem" \in OfDelivery
  BY <1>1, <1>2, RunsHead DEF OfDelivery, Its
<1>4. /\ JobsOf(d) /\ Placed(d) /\ AwaitedInsert(d) /\ inserting[d] # "pending" /\ place[d] # "none"
      /\ closer.pc = "inserting" /\ d \in closer.waiting
  BY <1>3 DEF Inv, DeliveryOk, JobsOf, AwaitedInsert
<1>5. /\ closer' \in CloserShape /\ closer'.pc = "inserting" /\ closer'.waiting = closer.waiting \ {d}
      /\ closer.waiting = {d} => closer'.waiting = {}
  BY <1>2, <1>4 DEF Inv, Shapes, CloserShape
<1>6. ~Has(jobs, Closers) /\ ~Has(jobs, Only("idled")) /\ ~pump.held /\ ~pump.stopped
  <2>1. ~Has(jobs, Closers) /\ ~pump.held
    BY <1>4, CloserIs
  <2>2. ~pump.stopped
    BY <1>4, <2>1, CloserIs
  <2> QED
    BY <1>4, <2>1, <2>2 DEF Inv, IdledFirst
<1>7. PICK kind, M :
        /\ kind \in {"none", "flush"}
        /\ kind = "none" => M = {}
        /\ kind = "flush" => M = Only("flush") /\ closer.waiting = {d}
        /\ Queued({<<"elem", d>>}, M)
  <2>1. "flush" \in OwnKinds /\ "flush" \notin {"answered", "idled", "decide", "finally"} /\ 0 \in 0..4
    BY OwnWhich
  <2>2. Carries(Mem!Job("flush", None, 0), Only("flush"))
    BY <2>1, OwnCarries DEF Only
  <2>3. CASE closer.waiting = {d}
    <3>1. jobs' = Tail(jobs) \o Mem!Job("flush", None, 0)
      BY <1>2, <2>3
    <3>2. Queued({<<"elem", d>>}, Only("flush"))
      BY <1>2, <1>3, <2>2, <3>1, QueuedRuns
    <3> QED
      BY <2>3, <3>2
  <2>4. CASE closer.waiting # {d}
    <3>1. jobs' = Tail(jobs) \o <<>>
      BY <1>2, <2>4
    <3>2. Queued({<<"elem", d>>}, {})
      BY <1>2, <1>3, <3>1, CarriesNone, QueuedRuns
    <3> QED
      BY <3>2
  <2> QED
    BY <2>3, <2>4
<1>8. /\ \A e : ~Meets(M, MarksOf(e))
      /\ ~Meets(M, Pumps) /\ ~Meets(M, Only("idled")) /\ ~Meets(M, Only("close"))
      /\ kind = "none" => ~Meets(M, Closers)
      /\ kind = "flush" => Alone(M, Closers) /\ Meets(M, Only("flush"))
  <2>1. CASE kind = "none"
    BY <1>7, <2>1, NoneApart
  <2>2. CASE kind = "flush"
    <3>1. "flush" \in CloserKinds
      BY OwnWhich
    <3>2. OneOwn(Only("flush")) /\ ~Meets(Only("flush"), Pumps)
          /\ ~Meets(Only("flush"), Only("idled")) /\ ~Meets(Only("flush"), Only("close"))
          /\ Meets(Only("flush"), Only("flush")) /\ Alone(Only("flush"), Closers)
      BY <3>1, CloserMarks
    <3> QED
      BY <1>7, <2>2, <3>2, OwnApart
  <2> QED
    BY <1>7, <2>1, <2>2
<1>9. Shapes'
  BY <1>2, <1>5 DEF Inv, Shapes, CloserShape
<1>10. \A e \in Delivery : DeliveryOk(e)'
  <2>1. DeliveryOk(d)'
    <3>1. /\ \A k \in {"listen", "inserted", "done", "delivered", "failed", "remind", "freed"} :
               /\ Has(jobs, Its(k, d))' <=> Has(jobs, Its(k, d))
               /\ Single(jobs, Its(k, d)) => Single(jobs, Its(k, d))'
          /\ Has(jobs, Flights(d))' <=> Has(jobs, Flights(d))
          /\ Single(jobs, Flights(d)) => Single(jobs, Flights(d))'
          /\ Single(jobs, Its("elem", d)) => ~Has(jobs, Its("elem", d))' /\ Single(jobs, Its("elem", d))'
      <4>1. /\ "elem" \notin FlightKinds
            /\ \A k \in {"listen", "inserted", "done", "delivered", "failed", "remind", "freed"} :
                 k \in OfDelivery /\ k # "elem"
        BY DEF FlightKinds, OfDelivery
      <4> QED
        BY <1>3, <1>7, <1>8, <4>1, JobLeft
    <3>2. JobsOf(d)'
      BY <1>2, <1>4, <3>1 DEF JobsOf
    <3>3. Placed(d)'
      BY <1>2, <1>4 DEF Placed
    <3>4. AwaitedInsert(d)'
      BY <1>2, <1>4, <3>1 DEF AwaitedInsert, JobsOf
    <3> QED
      BY <3>2, <3>3, <3>4 DEF DeliveryOk
  <2> SUFFICES ASSUME NEW e \in Delivery, e # d  PROVE DeliveryOk(e)'
    BY <2>1
  <2>2. Untouched(MarksOf(e))
    <3>1. ~Meets({<<"elem", d>>}, MarksOf(e))
      BY DEF Meets, MarksOf
    <3> QED
      BY <1>7, <1>8, <3>1, Leaves
  <2>3. /\ Stays(e) /\ inserting'[e] = inserting[e] /\ flightOf'[e] = flightOf[e] /\ outcome'[e] = outcome[e]
        /\ closer'.pc = closer.pc /\ (e \in closer.waiting => e \in closer'.waiting)
    BY <1>2, <1>4, <1>5 DEF Stays
  <2> QED
    BY <1>9, <2>2, <2>3, WokenOther
<1>11. CloserOk'
  <2>1. ~pump'.held /\ ~pump'.stopped /\ kind \in CloserKinds \cup {"none"} /\ closer.pc # "open"
    BY <1>2, <1>4, <1>6, <1>7 DEF CloserKinds
  <2>2. kind = "flush" => closer'.waiting = {}
    BY <1>5, <1>7
  <2> QED
    BY <1>5, <1>6, <1>7, <1>8, <2>1, <2>2, CloserNow
<1>12. IsFiniteSet(Accepted)' /\ Owed' \subseteq Owed /\ Mem!InFlight(flightOf)' \subseteq Mem!InFlight(flightOf)
  <2>1. Accepted' = Accepted
    BY <1>2 DEF Accepted
  <2>2. IsFiniteSet(Accepted')
    BY <2>1 DEF Inv
  <2>3. Owed' = Owed /\ Mem!InFlight(flightOf)' = Mem!InFlight(flightOf)
    BY <1>2 DEF Owed, Mem!InFlight
  <2> QED
    BY <2>2, <2>3 DEF Accepted
<1>13. ~Meets({<<"elem", d>>}, Pumps) /\ pump' = pump
  BY <1>2 DEF Meets, Pumps
<1> QED
  BY <1>6, <1>7, <1>8, <1>9, <1>10, <1>11, <1>12, <1>13, PlainKept

(* Nothing is in flight or owed any more: what is left is given up.        *)
LEMMA StepAbandonWaiting == Inv /\ Mem!AbandonWaiting => Inv'
<1> SUFFICES ASSUME Inv, Mem!AbandonWaiting PROVE Inv'
  OBVIOUS
<1>1. PICK left :
        /\ left = {d \in Delivery : place[d] \in {"due", "later", "leased"}}
        /\ Mem!Runs("abandon") /\ "abandon" \in CloserKinds
        /\ place' = [d \in Delivery |-> IF d \in left THEN "gone" ELSE place[d]]
        /\ outcome' = [d \in Delivery |-> IF d \in left
                                          THEN [times |-> outcome[d].times + 1, why |-> "closed"]
                                          ELSE outcome[d]]
        /\ closer' = [closer EXCEPT !.pc = "closed"]
        /\ jobs' = Tail(jobs)
        /\ UNCHANGED <<attempts, inserting, pump, flightOf, reminders>>
  BY OwnWhich DEF Mem!AbandonWaiting
<1>2. Has(jobs, Only("abandon")) /\ Queued(Only("abandon"), {})
  BY <1>1, CloserRuns
<1>3. /\ closer.pc = "busy" /\ pump.stopped /\ pump.held /\ ~pump.pumping
      /\ Mem!InFlight(flightOf) = {} /\ Owed = {} /\ pump.batch = {}
  <2>1. closer.pc = "busy" /\ pump.stopped /\ ~pump.pumping /\ Mem!InFlight(flightOf) = {}
    BY <1>1, <1>2, CloserIs DEF Inv, CloserOk
  <2>2. pump.held /\ Owed = {}
    BY <2>1, CloserIs DEF Inv, PumpOk
  <2> QED
    BY <2>1, <2>2, IdlePump
<1>4. ~Has(jobs, Only("idled"))
  BY <1>3 DEF Inv, IdledFirst
<1>5. /\ OneOwn(Only("abandon")) /\ ~Meets(Only("abandon"), Pumps) /\ Meets(Only("abandon"), Closers)
  BY <1>1, CloserMarks
<1>6. closer' \in CloserShape /\ closer'.pc = "closed"
  BY <1>1 DEF Inv, Shapes, CloserShape
<1>7. ASSUME NEW d \in Delivery
      PROVE  /\ JobsOf(d) /\ Placed(d) /\ AwaitedInsert(d) /\ flightOf[d] = "none"
             /\ inserting[d] # "pending" /\ ~Has(jobs, Its("elem", d)) /\ d \notin pump.batch
             /\ \/ /\ d \in left /\ place'[d] = "gone" /\ place[d] # "none" /\ outcome'[d].times = 1
                   /\ attempts[d] > 0
                \/ /\ d \notin left /\ place'[d] = place[d] /\ outcome'[d] = outcome[d]
                   /\ place[d] \in {"none", "gone"}
  <2>1. JobsOf(d) /\ Placed(d) /\ AwaitedInsert(d)
    BY DEF Inv, DeliveryOk
  <2>2. flightOf[d] = "none" /\ d \notin pump.batch
    BY <1>3 DEF Mem!InFlight
  <2>3. inserting[d] # "pending" /\ ~Has(jobs, Its("elem", d))
    BY <1>3, <2>1 DEF AwaitedInsert
  <2>4. place[d] \in {"none", "due", "later", "leased", "gone"} /\ attempts[d] \in Nat
    BY WebhookWorkerAssumption DEF Inv, Shapes
  <2>5. CASE d \in left
    <3>1. place[d] \in {"due", "later"}
      BY <1>1, <2>1, <2>2, <2>5 DEF Placed
    <3>2. outcome[d].times = 0
      BY <2>1, <3>1 DEF Placed
    <3>3. attempts[d] > 0
      <4>1. d \notin Owed
        BY <1>3
      <4>2. place[d] = "due" => attempts[d] # 0
        BY <2>3, <4>1 DEF Owed
      <4> QED
        BY <2>1, <2>4, <3>1, <4>2 DEF Placed
    <3>4. place'[d] = "gone" /\ outcome'[d].times = 1
      BY <1>1, <2>5, <3>2
    <3> QED
      BY <2>1, <2>2, <2>3, <2>5, <3>1, <3>3, <3>4
  <2>6. CASE d \notin left
    <3>1. place'[d] = place[d] /\ outcome'[d] = outcome[d] /\ place[d] \in {"none", "gone"}
      BY <1>1, <2>4, <2>6
    <3> QED
      BY <2>1, <2>2, <2>3, <2>6, <3>1
  <2> QED
    BY <2>5, <2>6
<1>8. Shapes'
  <2>1. outcome' \in [Delivery -> [times : Nat, why : {"no", "delivered", "retriesRanOut", "closed"}]]
    <3>1. \A d \in Delivery : outcome[d] \in [times : Nat, why : {"no", "delivered", "retriesRanOut", "closed"}]
      BY DEF Inv, Shapes
    <3> QED
      BY <1>1, <3>1
  <2>2. place' \in [Delivery -> {"none", "due", "later", "leased", "gone"}]
    BY <1>1 DEF Inv, Shapes
  <2> QED
    BY <1>1, <1>6, <2>1, <2>2 DEF Inv, Shapes, CloserShape
<1>9. \A d \in Delivery : DeliveryOk(d)'
  <2> SUFFICES ASSUME NEW d \in Delivery  PROVE DeliveryOk(d)'
    OBVIOUS
  <2>1. Untouched(MarksOf(d))
    BY <1>2, <1>5, OwnLeaves
  <2>2. /\ \A k \in {"listen", "inserted", "done", "elem", "delivered", "failed", "remind", "freed"} :
              /\ Has(jobs, Its(k, d))' <=> Has(jobs, Its(k, d))
              /\ Single(jobs, Its(k, d)) => Single(jobs, Its(k, d))'
        /\ Has(jobs, Flights(d))' <=> Has(jobs, Flights(d))
        /\ Single(jobs, Flights(d)) => Single(jobs, Flights(d))'
    BY <2>1, JobsOfKept DEF OfDelivery
  <2>3. /\ ~Has(jobs, Flights(d))
        /\ ~Has(jobs, Its("delivered", d)) /\ ~Has(jobs, Its("failed", d))
        /\ ~Has(jobs, Its("remind", d)) /\ ~Has(jobs, Its("freed", d))
    <3>1. ~Has(jobs, Flights(d))
      BY <1>7 DEF JobsOf
    <3>2. \A k \in FlightKinds : Its(k, d) \subseteq Flights(d)
      BY DEF Its, Flights, FlightKinds
    <3>3. \A k \in FlightKinds : ~Has(jobs, Its(k, d))
      BY <3>1, <3>2 DEF Has
    <3> QED
      BY <3>1, <3>3, WhichKinds
  <2>4. UNCHANGED <<attempts, inserting, pump, flightOf>>
    BY <1>1
  <2>5. Has(jobs, Its("listen", d)) => place'[d] = "none" /\ outcome'[d].times = 0
    BY <1>7 DEF JobsOf
  <2>6. JobsOf(d)'
    BY <1>7, <2>2, <2>3, <2>4, <2>5 DEF JobsOf
  <2>7. Placed(d)'
    BY <1>7, <2>4 DEF Placed
  <2>8. AwaitedInsert(d)'
    BY <1>7, <2>2, <2>4 DEF AwaitedInsert
  <2> QED
    BY <2>6, <2>7, <2>8 DEF DeliveryOk
<1>10. /\ IsFiniteSet(Accepted)' /\ Owed' \subseteq Owed
       /\ Mem!InFlight(flightOf)' \subseteq Mem!InFlight(flightOf) /\ Mem!InFlight(flightOf)' = {}
  <2>1. Accepted' \subseteq Accepted
    BY <1>7 DEF Accepted
  <2>2. IsFiniteSet(Accepted')
    BY <2>1, FS_Subset DEF Inv
  <2>3. Owed' \subseteq Owed
    BY <1>7 DEF Owed
  <2>4. Mem!InFlight(flightOf)' = Mem!InFlight(flightOf)
    BY <1>1 DEF Mem!InFlight
  <2> QED
    BY <1>3, <2>2, <2>3, <2>4 DEF Accepted
<1>11. pump' = pump
  BY <1>1
<1>12. CloserOk'
  <2>1. /\ pump'.held /\ pump'.stopped /\ ~pump'.pumping
        /\ "none" \in CloserKinds \cup {"none"} /\ closer.pc # "open"
    BY <1>3, <1>11
  <2>2. \A d \in Delivery : place'[d] \in {"none", "gone"}
    BY <1>7
  <2> QED
    BY <1>2, <1>5, <1>6, <1>10, <2>1, <2>2, NoneApart, CloserNow
<1> QED
  BY <1>2, <1>4, <1>5, <1>8, <1>9, <1>10, <1>11, <1>12, NoneApart, PlainKept

LEMMA NoneSooner ==
  ASSUME NEW js, NEW K, NEW L, ~Has(js, K) \/ ~Has(js, L)
  PROVE  Sooner(js, K, L)
  BY DEF Has, Sooner

(* The pump has one job.                                                   *)
LEMMA OnePump ==
  ASSUME NEW js, Single(js, Pumps), NEW kind \in PumpKinds, Has(js, Only(kind))
  PROVE  \A k \in PumpKinds : k # kind => ~Has(js, Only(k))
<1>1. \A k \in PumpKinds : <<k, None>> \in Pumps
  BY DEF Pumps, PumpKinds
<1>2. \A k, m : m \in Only(k) <=> m = <<k, None>>
  BY DEF Only
<1> SUFFICES ASSUME NEW k \in PumpKinds, k # kind, Has(js, Only(k))  PROVE FALSE
  OBVIOUS
<1>3. PICK i \in DOMAIN js : Mark(js[i]) = <<kind, None>>
  BY <1>2 DEF Has
<1>4. PICK j \in DOMAIN js : Mark(js[j]) = <<k, None>>
  BY <1>2 DEF Has
<1>5. i = j
  BY <1>1, <1>3, <1>4 DEF Single
<1> QED
  BY <1>3, <1>4, <1>5

(* A job of the pump's runs.                                               *)
LEMMA PumpRuns ==
  ASSUME Inv, NEW kind \in PumpKinds, Mem!Runs(kind)
  PROVE  /\ Has(jobs, Only(kind)) /\ Mark(Head(jobs)) \in Only(kind) /\ Head(jobs).hops = 0
         /\ jobs # <<>> /\ jobs \in Seq(Jobs) /\ Tail(jobs) \in Seq(Jobs)
         /\ pump.pumping /\ \A k \in PumpKinds : k # kind => ~Has(jobs, Only(k))
         /\ Has(jobs, Pumps) /\ Single(jobs, Pumps)
         /\ OneOwn(Only(kind)) /\ Meets(Only(kind), Pumps)
         /\ \A k \in OwnKinds : k # kind => ~Meets(Only(kind), Only(k))
         /\ ~Meets(Only(kind), Closers)
         /\ \A d : ~Meets(Only(kind), MarksOf(d))
         /\ \A new, M : Carries(new, M) /\ jobs' = Tail(jobs) \o new => Queued(Only(kind), M)
<1>1. kind \in OwnKinds /\ Only(kind) = {<<kind, None>>} /\ jobs \in Seq(Jobs) /\ kind \notin CloserKinds
  BY OwnWhich DEF Only, Inv
<1>2. /\ Mark(Head(jobs)) = <<kind, None>> /\ jobs # <<>> /\ Head(jobs).hops = 0
      /\ \A K : <<kind, None>> \in K => Has(jobs, K)
      /\ \A new, M : Carries(new, M) /\ jobs' = Tail(jobs) \o new
                       => Queued({<<kind, None>>}, M)
  BY <1>1, OwnRuns
<1>3. \A new, M : Carries(new, M) /\ jobs' = Tail(jobs) \o new => Queued(Only(kind), M)
  BY <1>1, <1>2
<1>4. Tail(jobs) \in Seq(Jobs)
  BY <1>1, <1>2, HeadLeaves
<1>5. Has(jobs, Only(kind)) /\ Has(jobs, Pumps) /\ Mark(Head(jobs)) \in Only(kind)
  BY <1>1, <1>2 DEF Pumps, PumpKinds
<1>6. pump.pumping /\ Single(jobs, Pumps)
  BY <1>5 DEF Inv, PumpOk
<1>7. \A k \in PumpKinds : k # kind => ~Has(jobs, Only(k))
  BY <1>5, <1>6, OnePump
<1>8. /\ OneOwn(Only(kind)) /\ Meets(Only(kind), Pumps) /\ ~Meets(Only(kind), Closers)
      /\ \A k \in OwnKinds : k # kind => ~Meets(Only(kind), Only(k))
      /\ \A d : ~Meets(Only(kind), MarksOf(d))
  <2>1. /\ \A d : ~Meets({<<kind, None>>}, MarksOf(d))
        /\ \A k : Meets({<<kind, None>>}, Only(k)) <=> kind = k
        /\ Meets({<<kind, None>>}, Pumps) /\ ~Meets({<<kind, None>>}, Closers)
    BY <1>1, OwnMarks
  <2>2. PICK G : G = {<<kind, None>>} /\ G = Only(kind)
    BY <1>1
  <2>3. /\ \A d : ~Meets(G, MarksOf(d))
        /\ \A k : Meets(G, Only(k)) <=> kind = k
        /\ Meets(G, Pumps) /\ ~Meets(G, Closers) /\ OneOwn(G)
    BY <1>1, <2>1, <2>2 DEF OneOwn
  <2> QED
    BY <2>2, <2>3
<1> QED
  BY <1>1, <1>2, <1>3, <1>4, <1>5, <1>6, <1>7, <1>8

LEMMA StepFinally == Inv /\ Mem!Finally => Inv'
<1> SUFFICES ASSUME Inv, Mem!Finally PROVE Inv'
  OBVIOUS
<1>1. /\ Mem!Runs("finally") /\ "finally" \in PumpKinds
      /\ pump' = [pump EXCEPT !.pumping = FALSE]
      /\ jobs' = Tail(jobs) \o (IF closer.pc \in {"idle", "stop"} THEN Mem!Job("idled", None, 2)
                                ELSE <<>>)
      /\ UNCHANGED <<place, attempts, inserting, flightOf, reminders, closer, outcome>>
  BY OwnWhich DEF Mem!Finally
<1>2. /\ Has(jobs, Only("finally")) /\ pump.pumping /\ ~Has(jobs, Only("answered"))
      /\ Single(jobs, Pumps) /\ OneOwn(Only("finally")) /\ Meets(Only("finally"), Pumps)
      /\ ~Meets(Only("finally"), Only("idled")) /\ ~Meets(Only("finally"), Only("close"))
      /\ ~Meets(Only("finally"), Closers)
  <2>1. "answered" \in PumpKinds /\ "idled" \in OwnKinds /\ "close" \in OwnKinds
    BY OwnWhich
  <2> QED
    BY <1>1, <2>1, PumpRuns
<1>3. PICK M : /\ M = IF closer.pc \in {"idle", "stop"} THEN Only("idled") ELSE {}
               /\ Queued(Only("finally"), M)
  <2>1. Carries(IF closer.pc \in {"idle", "stop"} THEN Mem!Job("idled", None, 2) ELSE <<>>,
                IF closer.pc \in {"idle", "stop"} THEN Only("idled") ELSE {})
    <3>1. "idled" \in OwnKinds /\ "idled" \notin {"answered", "decide", "finally"} /\ 2 \in 0..4
      BY OwnWhich
    <3>2. Carries(Mem!Job("idled", None, 2), Only("idled"))
      BY <3>1, OwnCarries DEF Only
    <3> QED
      BY <3>2, CarriesNone
  <2> QED
    BY <1>1, <2>1, PumpRuns
<1>4. /\ M = {} \/ OneOwn(M)
      /\ ~Meets(M, Pumps) /\ ~Meets(M, Closers) /\ ~Meets(M, Only("close")) /\ Alone(M, Only("idled"))
      /\ closer.pc \in {"idle", "stop"} \/ ~Meets(M, Only("idled"))
  <2>1. CASE M = {}
    BY <2>1, NoneApart DEF Alone
  <2>2. CASE M = Only("idled") /\ closer.pc \in {"idle", "stop"}
    <3>1. "idled" \notin CloserKinds /\ "idled" # "close"
      BY OwnWhich
    <3> QED
      BY <2>2, <3>1, CloserMarks
  <2> QED
    BY <1>3, <2>1, <2>2
<1>5. ~Has(jobs, Only("idled"))
  BY <1>2 DEF Inv, IdledFirst
<1>6. /\ pump' \in PumpShape /\ ~pump'.pumping /\ pump'.held = pump.held
      /\ pump'.stopped = pump.stopped /\ pump'.batch = pump.batch
      /\ pump'.claimedNothing = pump.claimedNothing
  BY <1>1 DEF Inv, Shapes, PumpShape
<1>7. Shapes'
  BY <1>1, <1>6 DEF Inv, Shapes, PumpShape
<1>8. /\ \A d \in Delivery : DeliveryOk(d)'
      /\ IsFiniteSet(Accepted)'
      /\ Owed' = Owed /\ Mem!InFlight(flightOf)' = Mem!InFlight(flightOf)
  <2>1. \A d \in Delivery : Untouched(MarksOf(d))
    BY <1>2, <1>3, <1>4, OwnLeaves
  <2>2. UNCHANGED <<place, attempts, inserting, flightOf, outcome>> /\ closer' = closer
    BY <1>1
  <2> QED
    BY <1>6, <1>7, <2>1, <2>2, DeliveriesKept
<1>9. /\ ~Has(jobs, Pumps)' /\ Single(jobs, Pumps)'
      /\ ~Has(jobs, Only("answered"))' /\ ~Has(jobs, Only("decide"))' /\ ~Has(jobs, Only("finally"))'
  <2>1. ~Has(jobs, Pumps)' /\ Single(jobs, Pumps)'
    BY <1>2, <1>3, <1>4 DEF Queued
  <2>2. Has(jobs', Pumps) <=> \/ Has(jobs', Only("answered")) \/ Has(jobs', Only("decide"))
                              \/ Has(jobs', Only("finally"))
    BY PumpsJob
  <2> QED
    BY <2>1, <2>2 DEF Has
<1>10. PumpOk'
  <2>1. PumpOk
    BY DEF Inv
  <2>2. /\ pump.batch = {} /\ Cardinality(Mem!InFlight(flightOf)) <= concurrency
        /\ pump.claimedNothing => Cardinality(Mem!InFlight(flightOf)) < concurrency
        /\ pump.held => ~pump.claimedNothing \/ Owed = {}
        /\ pump.stopped => Owed = {}
    BY <1>2, <2>1 DEF PumpOk
  <2> QED
    BY <1>6, <1>8, <1>9, <2>2 DEF PumpOk
<1>11. IdledFirst'
  <2>1. Single(jobs, Only("idled"))' /\ (Has(jobs, Only("idled"))' => closer.pc \in {"idle", "stop"})
    BY <1>3, <1>4, <1>5 DEF Queued, Inv, IdledFirst
  <2>2. Sooner(jobs, Only("idled"), Only("answered"))'
    <3>1. ~Has(jobs', Only("answered"))
      BY <1>9 DEF Has
    <3>2. Sooner(jobs', Only("idled"), Only("answered"))
      BY <3>1, NoneSooner
    <3> QED
      BY <3>2 DEF Sooner
  <2> QED
    BY <1>1, <1>9, <2>1, <2>2 DEF IdledFirst
<1>12. CloserOk'
  <2>1. Untouched(Closers) /\ Untouched(Only("close"))
    BY <1>2, <1>3, <1>4, Leaves
  <2>2. /\ Has(jobs, Only("close"))' => Has(jobs, Only("close"))
        /\ Single(jobs, Only("close"))'
    BY <2>1, CloserIs DEF Untouched
  <2>3. closer' = closer /\ \A d \in Delivery : closer.pc = "closed" => place'[d] \in {"none", "gone"}
    BY <1>1 DEF Inv, CloserOk
  <2> QED
    BY <1>2, <1>6, <1>8, <2>1, <2>2, <2>3, CloserKept
<1>13. jobs' \in Seq(Jobs)
  BY <1>3 DEF Queued
<1> QED
  BY <1>7, <1>8, <1>10, <1>11, <1>12, <1>13 DEF Inv

(* One job for each insert that has resolved.                              *)
LEMMA CarriesElems ==
  ASSUME NEW S \in SUBSET Delivery, IsFiniteSet(S), NEW order \in Mem!SetToSeqs(S), NEW new,
         new = [i \in DOMAIN order |-> Mem!Job("elem", order[i], 0)[1]]
  PROVE  \E M \in SUBSET ({"elem"} \X S) : Carries(new, M)
<1>1. PICK n \in Nat : /\ order \in [1..n -> S]
                       /\ \A i, j \in 1..n : i # j => order[i] # order[j]
  <2>1. Mem!Cardinality(S) \in Nat
    BY FS_CardinalityType, SameCardinality
  <2> QED
    BY <2>1 DEF Mem!SetToSeqs
<1>2. /\ DOMAIN order = 1..n
      /\ \A i \in 1..n : Mem!Job("elem", order[i], 0)[1] = [kind |-> "elem", of |-> order[i], hops |-> 0]
  BY <1>1 DEF Mem!Job
<1>3. /\ new = [i \in 1..n |-> [kind |-> "elem", of |-> order[i], hops |-> 0]]
      /\ DOMAIN new = 1..n
  BY <1>2
<1>4. \A i \in 1..n : [kind |-> "elem", of |-> order[i], hops |-> 0] \in Jobs
  BY <1>1 DEF Jobs, Mem!Kinds, OfDelivery
<1>5. new \in Seq(Jobs)
  BY <1>3, <1>4
<1>6. \A i \in 1..n : Mark(new[i]) = <<"elem", order[i]>>
  BY <1>3 DEF Mark
<1>7. PICK M : M = {<<"elem", order[i]>> : i \in 1..n}
  OBVIOUS
<1>8. M \in SUBSET ({"elem"} \X S)
  BY <1>1, <1>7
<1>9. \A K : Has(new, K) <=> Meets(M, K)
  <2>1. \A i \in DOMAIN new : Mark(new[i]) \in M
    BY <1>3, <1>6, <1>7
  <2>2. \A m \in M : \E i \in DOMAIN new : Mark(new[i]) = m
    BY <1>3, <1>6, <1>7
  <2>3. \A K : Has(new, K) => Meets(M, K)
    BY <2>1 DEF Has, Meets
  <2>4. \A K : Meets(M, K) => Has(new, K)
    BY <2>2 DEF Has, Meets
  <2> QED
    BY <2>3, <2>4
<1>10. ASSUME NEW K, Alone(M, K)  PROVE Single(new, K)
  <2> SUFFICES ASSUME NEW i \in 1..n, NEW j \in 1..n, Mark(new[i]) \in K, Mark(new[j]) \in K
               PROVE  i = j
    BY <1>3 DEF Single
  <2>1. Mark(new[i]) = Mark(new[j])
    BY <1>6, <1>7, <1>10 DEF Alone
  <2>2. order[i] = order[j]
    BY <1>6, <2>1
  <2> QED
    BY <1>1, <2>2
<1>11. \A j \in DOMAIN new : Mark(new[j]) \notin Only("answered")
  BY <1>3, <1>6 DEF Only
<1>12. Carries(new, M)
  BY <1>5, <1>9, <1>10, <1>11 DEF Carries
<1> QED
  BY <1>8, <1>12

(* The jobs of close() as it starts: flush, or those of the inserts.       *)
LEMMA ElemMarks ==
  ASSUME NEW S, NEW M \in SUBSET ({"elem"} \X S)
  PROVE  /\ \A kind : kind # "elem" => ~Meets(M, Only(kind)) /\ \A d : ~Meets(M, Its(kind, d))
         /\ ~Meets(M, Pumps) /\ ~Meets(M, Closers)
         /\ \A d : /\ ~Meets(M, Flights(d))
                   /\ Meets(M, Its("elem", d)) => d \in S
                   /\ Alone(M, Its("elem", d))
<1>1. \A m \in M : m[1] = "elem" /\ m[2] \in S
  OBVIOUS
<1>2. /\ \A kind : \A m \in Only(kind) : m[1] = kind
      /\ \A kind, d : \A m \in Its(kind, d) : m = <<kind, d>> /\ m[1] = kind /\ m[2] = d
      /\ \A m \in Pumps \cup Closers : m[1] # "elem"
      /\ \A d : \A m \in Flights(d) : m[1] # "elem"
  BY DEF Only, Its, Pumps, Closers, Flights
<1>3. \A d : Alone(M, Its("elem", d))
  BY <1>2 DEF Alone
<1>4. \A d : Meets(M, Its("elem", d)) => d \in S
  BY <1>1, <1>2 DEF Meets
<1> QED
  BY <1>1, <1>2, <1>3, <1>4 DEF Meets

LEMMA StepCloses == Inv /\ Mem!Closes => Inv'
<1> SUFFICES ASSUME Inv, Mem!Closes PROVE Inv'
  OBVIOUS
<1>1. PICK waiting, resolved :
        /\ waiting = {d \in Delivery : inserting[d] # "no"}
        /\ resolved = {d \in Delivery : inserting[d] = "resolved"}
        /\ Mem!Runs("close") /\ reminders' = {}
        /\ closer' = [closer EXCEPT !.pc = "inserting", !.waiting = waiting]
        /\ IF waiting = {}
             THEN jobs' = Tail(jobs) \o Mem!Job("flush", None, 0)
             ELSE \E order \in Mem!SetToSeqs(resolved) :
                    jobs' = Tail(jobs) \o [i \in DOMAIN order |-> Mem!Job("elem", order[i], 0)[1]]
        /\ UNCHANGED <<place, attempts, inserting, pump, flightOf, outcome>>
  BY DEF Mem!Closes
<1>2. Has(jobs, Only("close"))
  BY <1>1, CloserRuns
<1>3. /\ closer.pc = "open" /\ ~Has(jobs, Closers) /\ ~pump.held /\ ~pump.stopped
      /\ ~Has(jobs, Only("idled"))
  <2>1. closer.pc = "open"
    BY <1>2, CloserIs
  <2>2. ~Has(jobs, Closers) /\ ~pump.held
    BY <2>1, CloserIs
  <2>3. ~pump.stopped
    BY <2>1, <2>2, CloserIs
  <2> QED
    BY <2>1, <2>2, <2>3 DEF Inv, IdledFirst
<1>4. resolved \subseteq Accepted /\ resolved \subseteq waiting /\ resolved \subseteq Delivery
  BY <1>1 DEF Accepted, Inv, DeliveryOk, Placed
<1>5. PICK kind, M :
        /\ kind \in {"none", "flush"}
        /\ kind = "none" => M \in SUBSET ({"elem"} \X resolved)
        /\ kind = "flush" => M = Only("flush") /\ waiting = {}
        /\ Queued(Only("close"), M)
  <2>1. CASE waiting = {}
    <3>1. "flush" \in CloserKinds /\ 0 \in 0..4
      BY OwnWhich
    <3>2. Queued(Only("close"), Only("flush"))
      BY <1>1, <2>1, <3>1, CloserRuns
    <3> QED
      BY <2>1, <3>2
  <2>2. CASE waiting # {}
    <3>1. PICK order \in Mem!SetToSeqs(resolved) :
            jobs' = Tail(jobs) \o [i \in DOMAIN order |-> Mem!Job("elem", order[i], 0)[1]]
      BY <1>1, <2>2
    <3>2. PICK new : /\ new = [i \in DOMAIN order |-> Mem!Job("elem", order[i], 0)[1]]
                     /\ jobs' = Tail(jobs) \o new
      BY <3>1
    <3>3. IsFiniteSet(resolved)
      BY <1>4, FS_Subset DEF Inv
    <3>4. PICK M \in SUBSET ({"elem"} \X resolved) : Carries(new, M)
      BY <1>4, <3>2, <3>3, CarriesElems
    <3>5. Queued(Only("close"), M)
      BY <1>1, <3>2, <3>4, CloserRuns
    <3> QED
      BY <3>4, <3>5
  <2> QED
    BY <2>1, <2>2
<1>6. /\ ~Meets(M, Pumps) /\ ~Meets(M, Only("idled")) /\ ~Meets(M, Only("close"))
      /\ kind = "none" => ~Meets(M, Closers)
      /\ kind = "flush" => Alone(M, Closers) /\ Meets(M, Only("flush"))
      /\ \A d : /\ ~Meets(M, Flights(d))
                /\ \A k \in OfDelivery : k # "elem" => ~Meets(M, Its(k, d))
                /\ Meets(M, Its("elem", d)) => d \in resolved
                /\ Alone(M, Its("elem", d))
  <2>1. CASE kind = "none"
    BY <1>5, <2>1, ElemMarks
  <2>2. CASE kind = "flush"
    <3>1. "flush" \in CloserKinds
      BY OwnWhich
    <3>2. PICK F : F = Only("flush") /\ M = F
      BY <1>5, <2>2
    <3>3. /\ OneOwn(F) /\ ~Meets(F, Pumps) /\ ~Meets(F, Only("idled")) /\ ~Meets(F, Only("close"))
          /\ Meets(F, Only("flush")) /\ \A K : Alone(F, K)
      BY <3>1, <3>2, CloserMarks
    <3>4. \A d : \A K \in SUBSET MarksOf(d) : ~Meets(F, K)
      BY <3>3, OwnApart DEF Meets
    <3>5. \A d : ~Meets(F, Flights(d)) /\ \A k \in OfDelivery : ~Meets(F, Its(k, d))
      BY <3>4, MarksWithin
    <3>6. "elem" \in OfDelivery
      BY DEF OfDelivery
    <3> QED
      BY <2>2, <3>2, <3>3, <3>5, <3>6
  <2> QED
    BY <1>5, <2>1, <2>2
<1>7. /\ OneOwn(Only("close")) /\ ~Meets(Only("close"), Pumps) /\ ~Meets(Only("close"), Closers)
      /\ ~Meets(Only("close"), Only("idled")) /\ Meets(Only("close"), Only("close"))
  <2>1. "close" \notin CloserKinds /\ "close" # "idled"
    BY OwnWhich
  <2> QED
    BY <2>1, CloserMarks
<1>8. closer' \in CloserShape /\ closer'.pc = "inserting" /\ closer'.waiting = waiting
  <2>1. waiting \in SUBSET Delivery
    BY <1>1
  <2> QED
    BY <1>1, <2>1 DEF Inv, Shapes, CloserShape
<1>9. Shapes'
  BY <1>1, <1>8 DEF Inv, Shapes, CloserShape
<1>10. \A d \in Delivery : DeliveryOk(d)'
  <2> SUFFICES ASSUME NEW d \in Delivery  PROVE DeliveryOk(d)'
    OBVIOUS
  <2>1. JobsOf(d) /\ Placed(d) /\ AwaitedInsert(d)
    BY DEF Inv, DeliveryOk
  <2>2. PICK G : G = Only("close") /\ Queued(G, M) /\ \A K \in SUBSET MarksOf(d) : ~Meets(G, K)
    <3>1. \A K \in SUBSET MarksOf(d) : ~Meets(Only("close"), K)
      BY <1>7, OwnApart DEF Meets
    <3> QED
      BY <1>5, <3>1
  <2>3. /\ \A k \in {"listen", "inserted", "done", "elem", "delivered", "failed", "remind", "freed"} :
              /\ ~Meets(G, Its(k, d))
              /\ k # "elem" => ~Meets(M, Its(k, d))
        /\ ~Meets(G, Flights(d)) /\ ~Meets(M, Flights(d))
    BY <1>6, <2>2, MarksWithin DEF OfDelivery
  <2>4. /\ \A k \in {"listen", "inserted", "done", "delivered", "failed", "remind", "freed"} :
              /\ Has(jobs, Its(k, d))' <=> Has(jobs, Its(k, d))
              /\ Single(jobs, Its(k, d)) => Single(jobs, Its(k, d))'
        /\ Has(jobs, Flights(d))' <=> Has(jobs, Flights(d))
        /\ Single(jobs, Flights(d)) => Single(jobs, Flights(d))'
    BY <2>2, <2>3 DEF Queued
  <2>5. ~Has(jobs, Its("elem", d))
    BY <1>3, <2>1 DEF AwaitedInsert
  <2>6. /\ Has(jobs, Its("elem", d))' => d \in resolved
        /\ Single(jobs, Its("elem", d))'
    BY <1>6, <2>1, <2>2, <2>5 DEF Queued, JobsOf
  <2>7. d \in resolved => inserting[d] = "resolved" /\ place[d] # "none" /\ d \in waiting
    BY <1>1, <1>4 DEF Accepted
  <2>8. UNCHANGED <<place, attempts, inserting, pump, flightOf, outcome>>
    BY <1>1
  <2>9. JobsOf(d)'
    BY <2>1, <2>4, <2>6, <2>7, <2>8 DEF JobsOf
  <2>10. Placed(d)'
    BY <2>1, <2>8 DEF Placed
  <2>11. AwaitedInsert(d)'
    BY <1>1, <1>8, <2>6, <2>7, <2>8 DEF AwaitedInsert
  <2> QED
    BY <2>9, <2>10, <2>11 DEF DeliveryOk
<1>11. CloserOk'
  <2>1. ~pump'.held /\ ~pump'.stopped /\ kind \in CloserKinds \cup {"none"}
    BY <1>1, <1>3, <1>5 DEF CloserKinds
  <2>2. kind = "flush" => closer'.waiting = {}
    BY <1>5, <1>8
  <2> QED
    BY <1>3, <1>5, <1>6, <1>7, <1>8, <2>1, <2>2, CloserNow
<1>12. IsFiniteSet(Accepted)' /\ Owed' \subseteq Owed /\ Mem!InFlight(flightOf)' \subseteq Mem!InFlight(flightOf)
  <2>1. Accepted' = Accepted
    BY <1>1 DEF Accepted
  <2>2. IsFiniteSet(Accepted')
    BY <2>1 DEF Inv
  <2>3. Owed' = Owed /\ Mem!InFlight(flightOf)' = Mem!InFlight(flightOf)
    BY <1>1 DEF Owed, Mem!InFlight
  <2> QED
    BY <2>2, <2>3 DEF Accepted
<1>13. pump' = pump
  BY <1>1
<1> QED
  BY <1>3, <1>5, <1>6, <1>7, <1>9, <1>10, <1>11, <1>12, <1>13, PlainKept

(* The claim's answer: what it claimed is in flight.                       *)
LEMMA StepAnswered == Inv /\ Mem!Answered => Inv'
<1> SUFFICES ASSUME Inv, Mem!Answered PROVE Inv'
  OBVIOUS
<1>1. /\ Mem!Runs("answered") /\ "answered" \in PumpKinds /\ jobs' = Tail(jobs) \o Mem!Job("decide", None, 0)
      /\ UNCHANGED <<place, attempts, inserting, reminders, closer, outcome>>
  BY OwnWhich DEF Mem!Answered
<1>2. PICK B : /\ B = pump.batch
               /\ flightOf' = [d \in Delivery |-> IF d \in B THEN "sending" ELSE flightOf[d]]
  BY DEF Mem!Answered
<1>3. /\ pump' \in PumpShape /\ pump'.batch = {} /\ (pump'.claimedNothing <=> B = {})
      /\ pump'.pumping = pump.pumping /\ pump'.held = pump.held /\ pump'.stopped = pump.stopped
      /\ pump'.again = pump.again
  <2>1. PICK full \in BOOLEAN, nothing \in BOOLEAN :
          /\ nothing <=> B = {}
          /\ pump' = [pump EXCEPT !.claimedNothing = nothing, !.batch = {},
                                  !.saturated = full, !.full = full]
    <3>1. PICK full : full = (Mem!Cardinality(pump.batch) >= pump.free)
      OBVIOUS
    <3>2. PICK nothing : nothing = (pump.batch = {})
      OBVIOUS
    <3>3. full \in BOOLEAN
      <4>1. (Mem!Cardinality(pump.batch) >= pump.free) \in BOOLEAN
        OBVIOUS
      <4> QED
        BY <3>1, <4>1, Zenon
    <3>4. nothing \in BOOLEAN /\ (nothing <=> B = {})
      BY <1>2, <3>2, Zenon
    <3>5. pump' = [pump EXCEPT !.claimedNothing = nothing, !.batch = {},
                               !.saturated = full, !.full = full]
      BY <3>1, <3>2, Zenon DEF Mem!Answered
    <3> QED
      BY <3>3, <3>4, <3>5
  <2>2. pump \in PumpShape
    BY PumpTyped
  <2> QED
    BY <2>1, <2>2 DEF PumpShape
<1>4. /\ Has(jobs, Only("answered")) /\ Single(jobs, Pumps) /\ pump.pumping
      /\ ~Has(jobs, Only("finally"))
      /\ OneOwn(Only("answered")) /\ Meets(Only("answered"), Pumps)
      /\ ~Meets(Only("answered"), Only("idled")) /\ ~Meets(Only("answered"), Only("close"))
      /\ ~Meets(Only("answered"), Closers) /\ jobs # <<>> /\ jobs \in Seq(Jobs)
      /\ Mark(Head(jobs)) \in Only("answered") /\ Head(jobs).hops = 0
      /\ \A new, M : Carries(new, M) /\ jobs' = Tail(jobs) \o new => Queued(Only("answered"), M)
  <2>1. "finally" \in PumpKinds /\ "idled" \in OwnKinds /\ "close" \in OwnKinds
    BY OwnWhich
  <2> QED
    BY <1>1, <2>1, PumpRuns
<1>5. /\ Queued(Only("answered"), Only("decide")) /\ OneOwn(Only("decide"))
      /\ \A k : Meets(Only("decide"), Only(k)) <=> k = "decide"
      /\ ~Meets(Only("decide"), Closers) /\ \A K : Alone(Only("decide"), K)
  <2>1. "decide" \in OwnKinds /\ "decide" \notin {"answered", "idled"} /\ 0 \in 0..4
        /\ "decide" \notin CloserKinds
    BY OwnWhich
  <2>2. PICK D : D = {<<"decide", None>>} /\ D = Only("decide")
    BY DEF Only
  <2>3. Carries(Mem!Job("decide", None, 0), D)
    BY <2>1, <2>2, OwnCarries
  <2>4. /\ OneOwn(D) /\ ~Meets(D, Closers)
        /\ \A k : Meets(D, Only(k)) <=> k = "decide"
        /\ \A K : Alone(D, K)
    BY <2>1, <2>2, OwnMarks DEF OneOwn
  <2>5. Queued(Only("answered"), D)
    BY <1>1, <1>4, <2>3
  <2> QED
    BY <2>2, <2>4, <2>5
<1>6. ~Has(jobs, Only("idled")) /\ ~Has(jobs, Only("idled"))'
  <2>1. ~Has(jobs, Only("idled"))
    BY <1>4, OrderLeaves DEF Inv, IdledFirst
  <2> QED
    BY <1>5, <2>1 DEF Queued
<1>7. PICK n, f, b, c \in Nat :
        /\ n = Cardinality(Mem!InFlight(flightOf)) /\ f = pump.free /\ b = Cardinality(B) /\ c = concurrency
        /\ f >= 1 /\ n + f <= c /\ b <= f /\ IsFiniteSet(B) /\ IsFiniteSet(Mem!InFlight(flightOf))
        /\ pump.again \/ B # {} \/ Owed = {}
  <2>1. B \subseteq Accepted
    BY <1>2 DEF Inv, DeliveryOk, Placed, Accepted, Shapes
  <2>2. IsFiniteSet(B) /\ Cardinality(B) \in Nat
    BY <2>1, FS_Subset, FS_CardinalityType DEF Inv
  <2>3. /\ pump.free \in 1..concurrency /\ Cardinality(Mem!InFlight(flightOf)) + pump.free <= concurrency
        /\ Cardinality(pump.batch) <= pump.free
        /\ pump.again \/ pump.batch # {} \/ Owed = {}
    BY <1>4 DEF Inv, PumpOk
  <2>4. IsFiniteSet(Mem!InFlight(flightOf)) /\ Cardinality(Mem!InFlight(flightOf)) \in Nat
    BY FlightsFinite
  <2>5. concurrency \in Nat
    BY WebhookWorkerAssumption
  <2> QED
    BY <1>2, <2>2, <2>3, <2>4, <2>5
<1>8. B \subseteq Delivery /\ flightOf \in [Delivery -> {"none", "sending", "reporting", "settling"}]
  BY <1>2 DEF Inv, Shapes
<1>9. /\ Cardinality(Mem!InFlight(flightOf)') <= concurrency
      /\ B = {} => Cardinality(Mem!InFlight(flightOf)') < concurrency
  <2>1. Mem!InFlight(flightOf)' = Mem!InFlight(flightOf) \cup B
    BY <1>2, <1>8 DEF Mem!InFlight
  <2>2. PICK F : F = Mem!InFlight(flightOf)
    OBVIOUS
  <2>3. /\ Cardinality(F \cup B) = Cardinality(F) + Cardinality(B) - Cardinality(F \cap B)
        /\ IsFiniteSet(F \cap B)
    BY <1>7, <2>2, FS_Union, FS_Subset
  <2>4. Cardinality(F \cap B) \in Nat
    BY <2>3, FS_CardinalityType
  <2>5. Cardinality(F \cup B) <= n + b
    BY <1>7, <2>2, <2>3, <2>4
  <2>6. PICK m \in Int : m = Cardinality(F \cup B) /\ m <= n + b
    BY <1>7, <2>2, <2>3, <2>4, <2>5
  <2>7. m <= c
    BY <1>7, <2>6
  <2>8. B = {} => m < c
    <3>1. B = {} => F \cup B = F
      OBVIOUS
    <3>2. B = {} => m = n
      BY <1>7, <2>2, <2>6, <3>1
    <3>3. n < c
      BY <1>7
    <3> QED
      BY <3>2, <3>3
  <2> QED
    BY <1>7, <2>1, <2>2, <2>6, <2>7, <2>8
<1>10. Shapes'
  <2>1. flightOf' \in [Delivery -> {"none", "sending", "reporting", "settling"}]
    BY <1>2, <1>8
  <2> QED
    BY <1>1, <1>3, <2>1 DEF Inv, Shapes, PumpShape
<1>11. \A d \in Delivery : DeliveryOk(d)'
  <2> SUFFICES ASSUME NEW d \in Delivery  PROVE DeliveryOk(d)'
    OBVIOUS
  <2>1. Untouched(MarksOf(d))
    BY <1>4, <1>5, OwnLeaves
  <2>2. UNCHANGED <<place, attempts, inserting, outcome>> /\ closer' = closer
    BY <1>1
  <2>3. CASE d \notin B
    <3>1. flightOf'[d] = flightOf[d] /\ (d \in pump'.batch <=> d \in pump.batch)
      BY <1>2, <1>3, <2>3
    <3> QED
      BY <1>10, <2>1, <2>2, <3>1, DeliveryKept
  <2>4. CASE d \in B
    <3>1. JobsOf(d) /\ Placed(d) /\ AwaitedInsert(d)
      BY DEF Inv, DeliveryOk
    <3>2. flightOf'[d] = "sending" /\ d \notin pump'.batch
      BY <1>2, <1>3, <2>4
    <3>3. place[d] = "leased" /\ flightOf[d] = "none"
      BY <1>2, <2>4, <3>1 DEF Placed
    <3>4. /\ \A k \in {"listen", "inserted", "done", "elem", "delivered", "failed", "remind", "freed"} :
                /\ Has(jobs, Its(k, d))' <=> Has(jobs, Its(k, d))
                /\ Single(jobs, Its(k, d)) => Single(jobs, Its(k, d))'
          /\ Has(jobs, Flights(d))' <=> Has(jobs, Flights(d))
          /\ Single(jobs, Flights(d)) => Single(jobs, Flights(d))'
      BY <2>1, JobsOfKept DEF OfDelivery
    <3>5. JobsOf(d)'
      BY <2>2, <3>1, <3>2, <3>3, <3>4 DEF JobsOf
    <3>6. Placed(d)'
      BY <2>2, <3>1, <3>2, <3>3 DEF Placed
    <3>7. AwaitedInsert(d)'
      BY <2>2, <3>1, <3>4 DEF AwaitedInsert
    <3> QED
      BY <3>5, <3>6, <3>7 DEF DeliveryOk
  <2> QED
    BY <2>3, <2>4
<1>12. Owed' = Owed /\ IsFiniteSet(Accepted)'
  <2>1. Accepted' = Accepted /\ Owed' = Owed
    BY <1>1 DEF Accepted, Owed
  <2>2. IsFiniteSet(Accepted')
    BY <2>1 DEF Inv
  <2> QED
    BY <2>1, <2>2 DEF Accepted
<1>13. /\ Single(jobs, Pumps)' /\ Has(jobs, Pumps)' /\ Has(jobs, Only("decide"))'
       /\ ~Has(jobs, Only("answered"))' /\ ~Has(jobs, Only("finally"))'
  <2>1. Single(jobs, Pumps)' /\ Has(jobs, Only("decide"))'
    BY <1>4, <1>5 DEF Queued
  <2>2. Single(jobs', Pumps) /\ Has(jobs', Only("decide"))
    BY <2>1 DEF Single, Has
  <2>3. \A k \in PumpKinds : k # "decide" => ~Has(jobs', Only(k))
    BY <2>2, OwnWhich, OnePump
  <2>4. Has(jobs', Pumps) /\ ~Has(jobs', Only("answered")) /\ ~Has(jobs', Only("finally"))
    BY <2>2, <2>3, OwnWhich, PumpsJob
  <2> QED
    BY <2>1, <2>4 DEF Has
<1>14. PumpOk'
  <2>1. PumpOk
    BY DEF Inv
  <2>2. pump.stopped => Owed = {}
    BY <2>1 DEF PumpOk
  <2>3. pump'.again \/ ~pump'.claimedNothing \/ Owed' = {}
    BY <1>3, <1>7, <1>12
  <2>4. /\ pump'.pumping /\ pump'.batch = {} /\ (pump'.stopped => Owed' = {})
        /\ pump'.claimedNothing => Cardinality(Mem!InFlight(flightOf)') < concurrency
    BY <1>3, <1>4, <1>9, <1>12, <2>2
  <2> QED
    BY <1>9, <1>13, <2>3, <2>4 DEF PumpOk
<1>15. IdledFirst'
  BY <1>5, <1>6, IdledKept
<1>16. CloserOk'
  <2>1. Untouched(Closers) /\ Untouched(Only("close"))
    <3>1. ~Meets(Only("decide"), Only("close"))
      BY <1>5
    <3> QED
      BY <1>4, <1>5, <3>1, Leaves
  <2>2. /\ Has(jobs, Only("close"))' => Has(jobs, Only("close"))
        /\ Single(jobs, Only("close"))'
    BY <2>1, CloserIs DEF Untouched
  <2>3. closer' = closer /\ \A d \in Delivery : closer.pc = "closed" => place'[d] \in {"none", "gone"}
    BY <1>1 DEF Inv, CloserOk
  <2> QED
    BY <1>3, <1>4, <1>6, <1>12, <2>1, <2>2, <2>3, CloserKept
<1>17. jobs' \in Seq(Jobs)
  BY <1>5 DEF Queued
<1> QED
  BY <1>10, <1>11, <1>12, <1>14, <1>15, <1>16, <1>17 DEF Inv

(* Round again, or the loop is over.                                       *)
LEMMA StepDecide == Inv /\ Mem!Decide => Inv'
<1> SUFFICES ASSUME Inv, Mem!Decide PROVE Inv'
  OBVIOUS
<1>1. /\ Mem!Runs("decide") /\ "decide" \in PumpKinds
      /\ UNCHANGED <<inserting, flightOf, reminders, closer, outcome>>
  BY OwnWhich DEF Mem!Decide
<1>2. /\ Has(jobs, Only("decide")) /\ Single(jobs, Pumps) /\ pump.pumping
      /\ ~Has(jobs, Only("finally")) /\ ~Has(jobs, Only("answered"))
      /\ OneOwn(Only("decide")) /\ Meets(Only("decide"), Pumps)
      /\ ~Meets(Only("decide"), Only("idled")) /\ ~Meets(Only("decide"), Only("close"))
      /\ ~Meets(Only("decide"), Closers) /\ jobs # <<>> /\ Tail(jobs) \in Seq(Jobs)
      /\ \A new, M : Carries(new, M) /\ jobs' = Tail(jobs) \o new => Queued(Only("decide"), M)
  <2>1. "finally" \in PumpKinds /\ "answered" \in PumpKinds /\ "idled" \in OwnKinds /\ "close" \in OwnKinds
    BY OwnWhich
  <2> QED
    BY <1>1, <2>1, PumpRuns
<1>3. \A kind \in PumpKinds :
        /\ OneOwn(Only(kind)) /\ ~Meets(Only(kind), Closers) /\ ~Meets(Only(kind), Only("idled"))
        /\ ~Meets(Only(kind), Only("close")) /\ Meets(Only(kind), Only(kind))
        /\ \A K : Alone(Only(kind), K)
  <2> SUFFICES ASSUME NEW kind \in PumpKinds
               PROVE  /\ OneOwn(Only(kind)) /\ ~Meets(Only(kind), Closers)
                      /\ ~Meets(Only(kind), Only("idled"))
                      /\ ~Meets(Only(kind), Only("close")) /\ Meets(Only(kind), Only(kind))
                      /\ \A K : Alone(Only(kind), K)
    OBVIOUS
  <2>1. kind \in OwnKinds /\ kind \notin CloserKinds /\ kind # "idled" /\ kind # "close"
    BY OwnWhich
  <2>2. PICK D : D = {<<kind, None>>} /\ D = Only(kind)
    BY DEF Only
  <2>3. /\ OneOwn(D) /\ ~Meets(D, Closers)
        /\ \A k : Meets(D, Only(k)) <=> kind = k
        /\ \A K : Alone(D, K)
    BY <2>1, <2>2, OwnMarks DEF OneOwn
  <2> QED
    BY <2>1, <2>2, <2>3
<1>4. ~Has(jobs, Only("idled"))
  BY <1>2 DEF Inv, IdledFirst
<1>5. PumpOk /\ pump.batch = {} /\ closer.pc # "closed"
  BY <1>2 DEF Inv, PumpOk, CloserOk
(* But for the pump itself, and what it claims.                            *)
<1>6. ASSUME NEW kind \in PumpKinds, Queued(Only("decide"), Only(kind)), pump' \in PumpShape,
             pump'.pumping, pump'.held = pump.held, pump'.stopped = pump.stopped,
             place' \in [Delivery -> {"none", "due", "later", "leased", "gone"}],
             attempts' \in [Delivery -> 0..Retries + 1],
             \A d \in Delivery : Stays(d) \/ Claims(d), PumpOk'
      PROVE  Inv'
  <2>1. Shapes'
    BY <1>1, <1>6 DEF Inv, Shapes, PumpShape
  <2>2. \A d \in Delivery : DeliveryOk(d)'
    <3> SUFFICES ASSUME NEW d \in Delivery  PROVE DeliveryOk(d)'
      OBVIOUS
    <3>1. Untouched(MarksOf(d))
      BY <1>2, <1>3, <1>6, OwnLeaves
    <3>2. /\ inserting'[d] = inserting[d] /\ flightOf'[d] = flightOf[d] /\ outcome'[d] = outcome[d]
          /\ closer' = closer
      BY <1>1
    <3>3. Stays(d) \/ Claims(d)
      BY <1>6
    <3> QED
      BY <2>1, <3>1, <3>2, <3>3, WokenOther
  <2>3. Owed' \subseteq Owed
    BY <1>1, <1>6, StillOwed
  <2>4. IsFiniteSet(Accepted)' /\ Mem!InFlight(flightOf)' \subseteq Mem!InFlight(flightOf)
    <3>1. Accepted' = Accepted
      BY <1>6 DEF Accepted, Stays, Claims
    <3>2. IsFiniteSet(Accepted')
      BY <3>1 DEF Inv
    <3>3. Mem!InFlight(flightOf)' = Mem!InFlight(flightOf)
      BY <1>1 DEF Mem!InFlight
    <3> QED
      BY <3>2, <3>3 DEF Accepted
  <2>5. ~Meets(Only(kind), Only("idled")) /\ ~Has(jobs, Only("idled"))'
    BY <1>3, <1>4, <1>6 DEF Queued
  <2>6. IdledFirst'
    BY <1>4, <1>6, <2>5, IdledKept
  <2>7. Untouched(Closers) /\ Untouched(Only("close"))
    BY <1>2, <1>3, <1>6, Leaves
  <2>8. CloserOk'
    <3>1. /\ Has(jobs, Only("close"))' => Has(jobs, Only("close"))
          /\ Single(jobs, Only("close"))'
      BY <2>7, CloserIs DEF Untouched
    <3>2. closer' = closer
      BY <1>1
    <3> QED
      BY <1>2, <1>5, <1>6, <2>3, <2>4, <2>5, <2>7, <3>1, <3>2, CloserKept
  <2>9. jobs' \in Seq(Jobs)
    BY <1>6 DEF Queued
  <2> QED
    BY <1>6, <2>1, <2>2, <2>4, <2>6, <2>8, <2>9 DEF Inv
(* The one job of the pump's, after.                                       *)
<1>7. ASSUME NEW kind \in PumpKinds, Queued(Only("decide"), Only(kind))
      PROVE  /\ Single(jobs, Pumps)' /\ Has(jobs, Pumps)'
             /\ \A k \in PumpKinds : Has(jobs, Only(k))' <=> k = kind
  <2>1. Single(jobs, Pumps)' /\ Has(jobs, Only(kind))'
    BY <1>2, <1>3, <1>7 DEF Queued
  <2>2. Single(jobs', Pumps) /\ Has(jobs', Only(kind))
    BY <2>1 DEF Single, Has
  <2>3. \A k \in PumpKinds : k # kind => ~Has(jobs', Only(k))
    BY <2>2, OnePump
  <2>4. Has(jobs', Pumps)
    BY <2>2, PumpsJob DEF PumpKinds
  <2> QED
    BY <2>1, <2>2, <2>3, <2>4 DEF Has
<1>8. CASE /\ pump.stopped \/ ~(pump.full \/ pump.again)
           /\ jobs' = Tail(jobs) \o Mem!Job("finally", None, 0)
           /\ UNCHANGED <<pump, place, attempts>>
  <2>1. "finally" \in PumpKinds /\ "finally" \in OwnKinds /\ "finally" \notin {"answered", "idled"}
        /\ 0 \in 0..4 /\ "decide" \in PumpKinds /\ "answered" \in PumpKinds
    BY OwnWhich
  <2>2. Carries(Mem!Job("finally", None, 0), Only("finally"))
    BY <2>1, OwnCarries DEF Only
  <2>3. Queued(Only("decide"), Only("finally"))
    BY <1>2, <1>8, <2>2
  <2>4. /\ Single(jobs, Pumps)' /\ Has(jobs, Pumps)'
        /\ ~Has(jobs, Only("decide"))' /\ ~Has(jobs, Only("answered"))'
    BY <1>7, <2>1, <2>3
  <2>5. /\ Owed' = Owed /\ Mem!InFlight(flightOf)' = Mem!InFlight(flightOf) /\ pump' = pump
        /\ \A d \in Delivery : Stays(d)
    BY <1>1, <1>8 DEF Owed, Mem!InFlight, Stays
  <2>6. ~pump.claimedNothing \/ Owed = {}
    BY <1>2, <1>5, <1>8 DEF PumpOk
  <2>7. PumpOk'
    BY <1>2, <1>5, <2>4, <2>5, <2>6 DEF PumpOk
  <2>8. /\ pump' \in PumpShape
        /\ place' \in [Delivery -> {"none", "due", "later", "leased", "gone"}]
        /\ attempts' \in [Delivery -> 0..Retries + 1]
    BY <1>8, PumpTyped DEF Inv, Shapes
  <2> QED
    BY <1>2, <1>6, <2>1, <2>3, <2>5, <2>7, <2>8
<1>9. CASE ~pump.stopped /\ Mem!PumpOnce(pump, flightOf, Tail(jobs), <<>>)
  <2>1. PICK M, new : ClaimsFor(pump, flightOf, M) /\ Carries(new, M \cup {}) /\ jobs' = Tail(jobs) \o new
    <3>1. PICK none, A : none = <<>> /\ A = {}
      OBVIOUS
    <3>2. /\ Carries(none, A) /\ ~Meets(A, Pumps) /\ pump \in PumpShape
          /\ Mem!InFlight(flightOf) \subseteq Mem!InFlight(flightOf)
          /\ Mem!PumpOnce(pump, flightOf, Tail(jobs), none)
      BY <1>9, <3>1, CarriesNone, NoneApart, PumpTyped
    <3>3. PICK M, new : ClaimsFor(pump, flightOf, M) /\ Carries(new, M \cup A) /\ jobs' = Tail(jobs) \o new
      BY <1>2, <1>5, <3>2, PumpOnceEach
    <3> QED
      BY <3>1, <3>3
  <2>2. Queued(Only("decide"), M)
    <3>1. M \cup {} = M
      OBVIOUS
    <3>2. Carries(new, M)
      BY <2>1, <3>1
    <3> QED
      BY <1>2, <2>1, <3>2
  <2>3. /\ \A d \in Delivery : Stays(d) \/ Claims(d)
        /\ M \in {Only("decide"), Only("answered")}
        /\ place' \in [Delivery -> {"none", "due", "later", "leased", "gone"}]
        /\ attempts' \in [Delivery -> 0..Retries + 1]
        /\ M = Only("answered") /\ pump'.batch = {} => Owed' = {}
    BY <1>5, <2>1, ClaimedIs
  <2>4. /\ pump' \in PumpShape /\ pump'.pumping /\ pump'.held = pump.held
        /\ pump'.stopped = pump.stopped /\ ~pump'.stopped
        /\ pump'.claimedNothing = pump.claimedNothing
    BY <1>2, <1>9, <2>1 DEF ClaimsFor
  <2>5. PICK n, c \in Nat : /\ n = Cardinality(Mem!InFlight(flightOf)) /\ n = Cardinality(Mem!InFlight(flightOf)')
                            /\ c = concurrency /\ n <= c /\ (pump.claimedNothing => n < c)
    <3>1. Mem!InFlight(flightOf)' = Mem!InFlight(flightOf)
      BY <1>1 DEF Mem!InFlight
    <3>2. /\ Cardinality(Mem!InFlight(flightOf)) <= concurrency
          /\ pump.claimedNothing => Cardinality(Mem!InFlight(flightOf)) < concurrency
      BY <1>2, <1>5 DEF PumpOk
    <3>3. Cardinality(Mem!InFlight(flightOf)) \in Nat /\ concurrency \in Nat
      BY FlightsFinite, WebhookWorkerAssumption
    <3> QED
      BY <3>1, <3>2, <3>3
  <2>6. "decide" \in PumpKinds /\ "answered" \in PumpKinds /\ "finally" \in PumpKinds
    BY OwnWhich
  <2>7. CASE M = Only("decide")
    <3>1. pump'.batch = {} /\ Cardinality(Mem!InFlight(flightOf)) >= concurrency
      BY <2>1, <2>7, OnlyApart DEF ClaimsFor
    <3>2. ~pump'.claimedNothing
      BY <2>4, <2>5, <3>1
    <3>3. /\ Single(jobs, Pumps)' /\ Has(jobs, Pumps)'
          /\ ~Has(jobs, Only("finally"))' /\ ~Has(jobs, Only("answered"))'
      BY <1>7, <2>2, <2>6, <2>7
    <3>4. PumpOk'
      BY <2>4, <2>5, <3>1, <3>2, <3>3 DEF PumpOk
    <3> QED
      BY <1>6, <2>2, <2>3, <2>4, <2>6, <2>7, <3>4
  <2>8. CASE M = Only("answered")
    <3>1. /\ Cardinality(Mem!InFlight(flightOf)) < concurrency
          /\ pump'.free = concurrency - Cardinality(Mem!InFlight(flightOf))
          /\ Cardinality(pump'.batch) <= pump'.free
          /\ pump'.batch = {} => Owed' = {}
      BY <2>1, <2>3, <2>8, OnlyApart DEF ClaimsFor
    <3>2. pump'.free \in 1..concurrency /\ Cardinality(Mem!InFlight(flightOf)') + pump'.free <= concurrency
      <4>1. PICK f : f = pump'.free
        OBVIOUS
      <4>2. n < c /\ f = c - n
        BY <2>5, <3>1, <4>1
      <4>3. f \in 1..c /\ n + f <= c
        BY <4>2
      <4> QED
        BY <2>5, <4>1, <4>3
    <3>3. /\ Single(jobs, Pumps)' /\ Has(jobs, Pumps)' /\ Has(jobs, Only("answered"))'
          /\ ~Has(jobs, Only("finally"))' /\ ~Has(jobs, Only("decide"))'
      BY <1>7, <2>2, <2>6, <2>8
    <3>4. PumpOk'
      BY <2>4, <3>1, <3>2, <3>3 DEF PumpOk
    <3> QED
      BY <1>6, <2>2, <2>3, <2>4, <2>6, <2>8, <3>4
  <2> QED
    BY <2>3, <2>7, <2>8
<1> QED
  BY <1>8, <1>9 DEF Mem!Decide

-----------------------------------------------------------------------------
(* Every step.                                                             *)
LEMMA InvSteps == Inv /\ [Mem!Next]_(Mem!vars) => Inv'
<1> SUFFICES ASSUME Inv, [Mem!Next]_(Mem!vars) PROVE Inv'
  OBVIOUS
<1>1. CASE Mem!RunJob
  BY <1>1, StepHop, StepListen, StepInserted, StepDone, StepElem, StepAnswered, StepDecide,
     StepFinally, StepDelivered, StepFailed, StepRemind, StepFreed, StepCloses, StepFlush,
     StepIdled, StepAfterIdle, StepFlushed, StepStopped, StepAbandonWaiting
     DEF Mem!RunJob
<1>2. CASE Mem!Close
  BY <1>2, StepClose
<1>3. ASSUME NEW d \in Delivery,
             Mem!Call(d) \/ Mem!Response(d) \/ Mem!Reported(d) \/ Mem!FallsDue(d) \/ Mem!Reminder(d)
      PROVE  Inv'
  BY <1>3, StepCall, StepResponse, StepReported, StepFallsDue, StepReminder
<1>4. CASE UNCHANGED Mem!vars
  BY <1>4, StepStutter
<1> QED
  BY <1>1, <1>2, <1>3, <1>4 DEF Mem!Next

(* In every state the worker over the queue in memory reaches, whatever    *)
(* order its jobs, timers and answers come in, and whenever close() comes. *)
THEOREM MemoryInvariant == Mem!Spec => []Inv
<1>1. Mem!Init => Inv
  BY InvFirst
<1>2. Inv /\ [Mem!Next]_(Mem!vars) => Inv'
  BY InvSteps
<1> QED
  BY <1>1, <1>2, PTL DEF Mem!Spec

(* No delivery ends twice, and once close() resolved every one accepted    *)
(* has ended: it was delivered, or reported (drain.ts, flights.ts).  One   *)
(* given up as closed was attempted: close() first sends every delivery    *)
(* due at the call (deliver.ts), whatever the pump was doing.              *)
THEOREM EndsOnceAtClose == Mem!Spec => []Mem!ClosedEndsAll
<1>1. Inv => Mem!ClosedEndsAll
  BY InvEndsAll
<1> QED
  BY <1>1, MemoryInvariant, PTL

(* A job hops four times at most, no claim exceeds the slots there are     *)
(* (pump.ts), and no delivery is claimed more often than it may be retried.*)
THEOREM MemoryTyped == Mem!Spec => []Mem!TypeOK
<1>1. Inv => Mem!TypeOK
  BY InvTyped
<1> QED
  BY <1>1, MemoryInvariant, PTL

=============================================================================
