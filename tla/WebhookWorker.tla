--------------------------- MODULE WebhookWorker ---------------------------
(***************************************************************************)
(* The processes that send the deliveries of one durable queue:            *)
(* packages/janus-webhooks/src/worker/ (index.ts, pump.ts, sender.ts,      *)
(* flights.ts, sweeper.ts, guard.ts) with the listener of deliver.ts.      *)
(*                                                                         *)
(* A process claims under a lease, sends, and then deletes, schedules a    *)
(* retry or gives up; it may crash at any step, and any call of the queue  *)
(* may fail with or without its effect.  A FLIGHT is what one claim        *)
(* became.  Time is counted in ticks; what a timer of the code bounds is a *)
(* countdown that Tick cannot pass.                                        *)
(*                                                                         *)
(* The pump may claim at any time: the poll wakes it, and an insert, a     *)
(* reminder or a freed slot only wakes it sooner.                          *)
(***************************************************************************)
EXTENDS RedisQueue

CONSTANTS Process, Event,
          Configs,     \* the sets of endpoints a process may start with
          concurrency, \* requests in flight per process
          Retries,     \* the length of settings.delays
          Delay,       \* each of them, in ticks
          timeout, leaseMs, orphanGrace,  \* in ticks
          Latency,     \* how long a call of the queue takes at most
          MaxClaims,   \* bound: the claims of one delivery
          Faults,      \* what may go wrong: "crash", "outage"
          MaxFaults,   \* bound: how often it does
          MaxDeploys   \* bound: processes closed, to start with another config

ASSUME WebhookWorkerAssumption ==
  /\ Delivery \subseteq Event \X Endpoint
  /\ Configs \subseteq (SUBSET Endpoint) \ {{}}
  /\ concurrency \in Nat \ {0} /\ Retries \in Nat /\ Delay \in Nat \ {0}
  /\ timeout \in Nat /\ Latency \in Nat /\ orphanGrace \in Nat
  /\ Faults \subseteq {"crash", "outage"}
  /\ leaseMs \in Nat /\ timeout + 2 * Latency < leaseMs
  /\ MaxClaims \in Nat /\ MaxFaults \in Nat /\ MaxDeploys \in Nat

VARIABLES redis,   \* what Redis holds of the queue
          process, \* each process: its state, its endpoints and its pump
          flight,  \* what each claim became, or None
          ended,   \* history: the 2xx and the reports of each delivery
          faults, deploys

vars == <<redis, process, flight, ended, faults, deploys>>

Claim == Delivery \X (1..MaxClaims)
Longest == timeout + Latency + leaseMs + Delay + orphanGrace
Past == Latency + orphanGrace

ProcessRecord ==
  [state : {"running", "closing", "down"},
   keys : SUBSET Endpoint,
   claiming : BOOLEAN,    \* the pump awaits a claim
   age : 0..Latency,      \* asked so many ticks ago
   free : 0..concurrency] \* for so many deliveries

FlightState ==
  {"sending", "deleting", "retrying", "extending", "orphaned", "reporting", "removing"}

Flight ==
  [process : Process,
   pc : FlightState,
   left : 0..Longest]     \* ticks until its timer fires, or its call answers

ASSUME NoneAssumption == None \notin [process : Process, pc : FlightState, left : Int]

queue == QueueOf(redis)

TypeOK ==
  /\ redis \in Keys
  /\ \A d \in Delivery : redis.due[d] # None => redis.due[d] \in -Past..Longest
  /\ process \in [Process -> ProcessRecord]
  /\ flight \in [Claim -> Flight \cup {None}]
  /\ ended \in [Delivery -> Nat]
  /\ faults \in 0..MaxFaults
  /\ deploys \in 0..MaxDeploys

Started(keys) ==
  [state |-> "running", keys |-> keys, claiming |-> FALSE, age |-> 0, free |-> 0]

Init ==
  /\ redis = NoKeys
  /\ process \in [Process -> {Started(keys) : keys \in Configs}]
  /\ flight = [c \in Claim |-> None]
  /\ ended = [d \in Delivery |-> 0]
  /\ faults = 0
  /\ deploys = 0

FlightsOf(p) == {c \in Claim : flight[c] # None /\ flight[c].process = p}

(* The orphans it swept are no flights of the pump's: they take no slot.   *)
Swept(p) == {c \in FlightsOf(p) : c[1][2] \notin process[p].keys}
inFlight(p) == Cardinality(FlightsOf(p) \ Swept(p))

Fault(kind) == kind \in Faults /\ faults < MaxFaults /\ faults' = faults + 1
NoFault == UNCHANGED faults

(* guard.call: the call failed, and was made all the same, or was not, or  *)
(* stopped half-way.                                                       *)
Unanswered(stops) == Fault("outage") /\ redis' \in stops \cup {redis}

To(c, pc, left) == flight' = [flight EXCEPT ![c] = [@ EXCEPT !.pc = pc, !.left = left]]
Settle(c) == flight' = [flight EXCEPT ![c] = None]

NewFlights(p, S, pc, left) ==
  [c \in Claim |-> IF c[1] \in S /\ c[2] = queue[c[1]].attempts + 1
                     THEN [process |-> p, pc |-> pc, left |-> left]
                     ELSE flight[c]]

-----------------------------------------------------------------------------
(* The listener.                                                           *)

(* worker.accept: an event's deliveries inserted, one per endpoint.  One   *)
(* that ended and is gone is not inserted again: an event's id is its own. *)
accept(p, e) ==
  LET its == Delivery \cap ({e} \X process[p].keys)
  IN /\ process[p].state # "down"
     /\ its # {}
     /\ \A d \in its : queue[d] # None \/ ended[d] = 0
     /\ \/ redis' = Inserted(redis, its) /\ NoFault
        \/ Unanswered(InsertStops(redis, its))
     /\ UNCHANGED <<process, flight, ended, deploys>>

-----------------------------------------------------------------------------
(* The pump.                                                               *)

(* pumpOnce, up to its await: nothing is asked while no slot is free.      *)
AskClaim(p) ==
  LET free == concurrency - inFlight(p)
  IN /\ process[p].state = "running"
     /\ ~ process[p].claiming
     /\ free > 0
     /\ process' = [process EXCEPT ![p] = [@ EXCEPT !.claiming = TRUE, !.age = 0,
                                                    !.free = free]]
     /\ UNCHANGED <<redis, flight, ended, faults, deploys>>

ClaimsLeft(S) == \A d \in S : queue[d].attempts < MaxClaims

(* Mutant: hidden for as long as a request may take, and no longer.        *)
LeaseEndTooSoon(at) == at + timeout

(* The lease runs from the instant the claim was asked at.                 *)
LeaseEnd(at) == at + leaseMs

PumpOnce(p) ==
  /\ process[p].claiming
  /\ LET at == -process[p].age
     IN \E walk \in Walks(redis, at, process[p].keys, process[p].free) :
          /\ ClaimsLeft(walk.claimed)
          /\ \/ /\ redis' = Claimed(redis, walk, LeaseEnd(at))
                /\ flight' = NewFlights(p, walk.claimed, "sending", timeout)
                /\ NoFault
             \/ /\ Unanswered(ClaimStops(redis, walk, LeaseEnd(at)))
                /\ UNCHANGED flight
  /\ process' = [process EXCEPT ![p] = [@ EXCEPT !.claiming = FALSE, !.age = 0, !.free = 0]]
  /\ UNCHANGED <<ended, deploys>>

-----------------------------------------------------------------------------
(* The sender.                                                             *)

(* attempt: a 2xx.                                                         *)
Delivered(c) ==
  /\ flight[c] # None /\ flight[c].pc = "sending"
  /\ ended' = [ended EXCEPT ![c[1]] = @ + 1]
  /\ To(c, "deleting", Latency)
  /\ UNCHANGED <<redis, process, faults, deploys>>

(* Mutant: out of retries, it is removed with no report.                   *)
FailedUnreported(c) ==
  /\ flight[c] # None /\ flight[c].pc = "sending"
  /\ To(c, IF c[2] <= Retries THEN "retrying" ELSE "removing", Latency)
  /\ UNCHANGED <<redis, process, ended, faults, deploys>>

(* attempt: anything else, the timeout too.  A delay is left, or is not.   *)
Failed(c) ==
  /\ flight[c] # None /\ flight[c].pc = "sending"
  /\ To(c, IF c[2] <= Retries THEN "retrying" ELSE "extending", Latency)
  /\ UNCHANGED <<redis, process, ended, faults, deploys>>

ScheduleRetry(c) ==
  /\ flight[c] # None /\ flight[c].pc = "retrying"
  /\ \/ redis' = Scheduled(redis, c[1], c[2], Delay) /\ NoFault
     \/ Unanswered(ScheduleStops(redis, c[1], c[2], Delay))
  /\ Settle(c)
  /\ UNCHANGED <<process, ended, deploys>>

(* Of the orphans a process swept, one at a time is given up.              *)
Turn(c) ==
  \/ flight[c].pc = "extending"
  \/ /\ flight[c].pc = "orphaned"
     /\ \A d \in Swept(flight[c].process) : flight[d].pc = "orphaned"

(* giveUp: reported only once the extension answered true.                 *)
GiveUp(c) ==
  LET after == Extended(redis, c[1], c[2], leaseMs)
      held == leased(redis, c[1], c[2])
  IN /\ flight[c] # None /\ Turn(c)
     /\ \/ /\ redis' = after /\ NoFault
           /\ IF held
                THEN /\ To(c, "reporting", leaseMs \div 3)
                     /\ ended' = [ended EXCEPT ![c[1]] = @ + 1]
                ELSE Settle(c) /\ UNCHANGED ended
        \/ Unanswered({after}) /\ Settle(c) /\ UNCHANGED ended
     /\ UNCHANGED <<process, deploys>>

(* Mutant: the timer fires and extends nothing.                            *)
HeartbeatMissed(c) ==
  /\ flight[c] # None /\ flight[c].pc = "reporting" /\ flight[c].left = 0
  /\ To(c, "reporting", leaseMs \div 3)
  /\ UNCHANGED <<redis, process, ended, faults, deploys>>

(* The heartbeat: whatever the extension answers, the next one is due.     *)
Heartbeat(c) ==
  LET after == Extended(redis, c[1], c[2], leaseMs)
  IN /\ flight[c] # None /\ flight[c].pc = "reporting" /\ flight[c].left = 0
     /\ (redis' = after /\ NoFault) \/ Unanswered({after})
     /\ To(c, "reporting", leaseMs \div 3)
     /\ UNCHANGED <<process, ended, deploys>>

(* onGivingUp returned, or threw.                                          *)
Reported(c) ==
  /\ flight[c] # None /\ flight[c].pc = "reporting"
  /\ To(c, "removing", Latency)
  /\ UNCHANGED <<redis, process, ended, faults, deploys>>

(* deleteDelivery: delivered, or given up.                                 *)
Delete(c) ==
  /\ flight[c] # None /\ flight[c].pc \in {"deleting", "removing"}
  /\ \/ redis' = Deleted(redis, c[1], c[2]) /\ NoFault
     \/ Unanswered(DeleteStops(redis, c[1], c[2]))
  /\ Settle(c)
  /\ UNCHANGED <<process, ended, deploys>>

-----------------------------------------------------------------------------
(* The sweeper: each sweep is chained after the one before.                *)

(* As many as there are: ORPHAN_BATCH is not reached.                      *)
OrphanWalks(p) ==
  Walks(redis, -orphanGrace, redis.endpoints \ process[p].keys, Cardinality(Delivery) + 1)

Sweep(p) ==
  /\ process[p].state = "running"
  /\ Swept(p) = {}
  /\ \E walk \in OrphanWalks(p) :
       /\ walk.claimed \cup walk.dropped # {}
       /\ ClaimsLeft(walk.claimed)
       /\ \/ /\ redis' = Claimed(redis, walk, leaseMs)
             /\ flight' = NewFlights(p, walk.claimed, "orphaned", 0)
             /\ NoFault
          \/ /\ Unanswered(ClaimStops(redis, walk, leaseMs))
             /\ UNCHANGED flight
  /\ UNCHANGED <<process, ended, deploys>>

-----------------------------------------------------------------------------
(* Processes stop and start, and time passes.                              *)

(* close(): nothing more is claimed; what was asked for is still sent.     *)
close(p) ==
  /\ process[p].state = "running"
  /\ deploys < MaxDeploys
  /\ deploys' = deploys + 1
  /\ process' = [process EXCEPT ![p].state = "closing"]
  /\ UNCHANGED <<redis, flight, ended, faults>>

(* It resolves once the pump, the sweep and the flights have settled.      *)
Closed(p) ==
  /\ process[p].state = "closing"
  /\ ~ process[p].claiming
  /\ FlightsOf(p) = {}
  /\ process' = [process EXCEPT ![p].state = "down"]
  /\ UNCHANGED <<redis, flight, ended, faults, deploys>>

Crash(p) ==
  /\ process[p].state # "down"
  /\ Fault("crash")
  /\ process' = [process EXCEPT ![p] = [Started(@.keys) EXCEPT !.state = "down"]]
  /\ flight' = [c \in Claim |-> IF c \in FlightsOf(p) THEN None ELSE flight[c]]
  /\ UNCHANGED <<redis, ended, deploys>>

Start(p) ==
  /\ process[p].state = "down"
  /\ \E keys \in Configs : process' = [process EXCEPT ![p] = Started(keys)]
  /\ UNCHANGED <<redis, flight, ended, faults, deploys>>

Later(due) == IF due = -Past THEN due ELSE due - 1

(* No timer is late: a request is aborted at `timeout`, a call of the      *)
(* queue answers within Latency, a heartbeat fires when it is due, and an  *)
(* orphan whose turn it is is given up at once.                            *)
Tick ==
  /\ \A p \in Process : process[p].claiming => process[p].age < Latency
  /\ \A c \in Claim : flight[c] # None =>
       IF flight[c].pc = "orphaned" THEN ~ Turn(c) ELSE flight[c].left > 0
  /\ redis' = [redis EXCEPT !.due = [d \in Delivery |-> IF redis.due[d] = None THEN None
                                                        ELSE Later(redis.due[d])]]
  /\ flight' = [c \in Claim |-> IF flight[c] = None \/ flight[c].pc = "orphaned"
                                  THEN flight[c]
                                  ELSE [flight[c] EXCEPT !.left = @ - 1]]
  /\ process' = [p \in Process |-> IF process[p].claiming
                                     THEN [process[p] EXCEPT !.age = @ + 1]
                                     ELSE process[p]]
  /\ UNCHANGED <<ended, faults, deploys>>

-----------------------------------------------------------------------------
Send(c) ==
  \/ Delivered(c) \/ Failed(c) \/ ScheduleRetry(c) \/ GiveUp(c)
  \/ Heartbeat(c) \/ Reported(c) \/ Delete(c)

Run(p) ==
  \/ AskClaim(p) \/ PumpOnce(p) \/ Sweep(p) \/ Closed(p) \/ Start(p)

Next ==
  \/ \E p \in Process : Run(p) \/ close(p) \/ Crash(p) \/ \E e \in Event : accept(p, e)
  \/ \E c \in Claim : Send(c)
  \/ Tick

Spec == Init /\ [][Next]_vars

(* A poll or a sweep is an interval of its own, a request ends at its      *)
(* timeout, an onGivingUp returns and a process that went down is started  *)
(* again; and time passes.                                                 *)
Fairness ==
  /\ WF_vars(Tick)
  /\ \A p \in Process :
       /\ WF_vars(AskClaim(p)) /\ WF_vars(PumpOnce(p)) /\ WF_vars(Sweep(p))
       /\ WF_vars(Closed(p)) /\ WF_vars(Start(p))
  /\ \A c \in Claim :
       /\ WF_vars(Delivered(c) \/ Failed(c)) /\ WF_vars(Reported(c))
       /\ WF_vars(ScheduleRetry(c) \/ GiveUp(c) \/ Heartbeat(c) \/ Delete(c))

FairSpec == Spec /\ Fairness

-----------------------------------------------------------------------------
(* Properties.                                                             *)

Sending(c) == flight[c] # None /\ flight[c].pc = "sending"

(* A lease is longer than the timeout, "so no request is sent twice at     *)
(* once" (deliver.ts): whoever claims a delivery again, the request of the *)
(* earlier claim has ended.                                                *)
OneRequestAtOnce ==
  \A b, c \in Claim : (Sending(b) /\ Sending(c) /\ b[1] = c[1]) => b = c

(* No other claim takes a delivery being reported (giveUp, the heartbeat), *)
(* until a call of the queue fails.                                        *)
ReportedByItsHolder ==
  \A c \in Claim :
    (faults = 0 /\ flight[c] # None /\ flight[c].pc = "reporting")
      => leased(redis, c[1], c[2])

(* "A delivery that crashes every process it reaches still runs out"       *)
(* (docs/guide/sending.md, queue/types.ts): past the schedule no request   *)
(* is sent.                                                                *)
RunsOut == \A c \in Claim : Sending(c) => c[2] <= Retries + 1

(* A delivery that is kept can be claimed, whichever command of whichever  *)
(* script failed: its member is in the set of its endpoint, and its        *)
(* endpoint among those a sweep walks (janus-webhooks-redis/scripts.ts).   *)
KeptWithinReach == Reached(redis)

(* What a durable queue promises of each delivery.                         *)
Promise == INSTANCE Outbox WITH
  status <- [d \in Delivery |-> IF queue[d] # None THEN "kept"
                                ELSE IF ended[d] = 0 THEN "unknown" ELSE "gone"]

(* Kept until it was delivered or reported, whatever crashes; ended twice  *)
(* only by a fault; and, since every process polls and leases lapse, not   *)
(* kept for ever.                                                          *)
KeepsPromise == Promise!Spec
=============================================================================
