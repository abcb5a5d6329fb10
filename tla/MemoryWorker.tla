---------------------------- MODULE MemoryWorker ----------------------------
(***************************************************************************)
(* The webhook worker of one process with no queue of the caller's, job by *)
(* job: packages/janus-webhooks/src/worker/ (index.ts, pump.ts, flights.ts,*)
(* drain.ts, reminders.ts) over queue/memory.ts, and the listener and      *)
(* close() of deliver.ts.  There is no poll here: a delivery that no wake  *)
(* claims waits for the next wake.                                         *)
(*                                                                         *)
(* `jobs` is the microtask queue of the event loop.  A job runs to its     *)
(* next await; HOPS counts the promise reactions between what resolves a   *)
(* promise and the code that awaits it, as ECMAScript orders them.  Timers *)
(* and answers from the network come once no job is left.  Nothing fails   *)
(* in a queue in memory, and leases are WebhookWorker's.                   *)
(***************************************************************************)
EXTENDS Integers, FiniteSets, SequencesExt

CONSTANTS Delivery, None, concurrency, Retries

ASSUME MemoryWorkerAssumption ==
  /\ None \notin Delivery
  /\ concurrency \in Nat \ {0}
  /\ Retries \in Nat

VARIABLES jobs,
          queue,     \* where each delivery is in the queue
          attempts,  \* its claims so far
          inserting, \* the run of its insert
          pump,      \* PumpState
          flight,    \* the flights of flights.ts
          reminders, \* the timers set for retries
          closer,    \* how far close() got
          ended      \* history: how often it ended, and the last reason

vars == <<jobs, queue, attempts, inserting, pump, flight, reminders, closer, ended>>

Kinds == {"listen", "inserted", "done", "elem", "answered", "decide", "finally",
          "idled", "delivered", "failed", "remind", "freed", "close", "flush",
          "afterIdle", "flushed", "stopped", "abandon"}

TypeOK ==
  /\ jobs \in Seq([kind : Kinds, of : Delivery \cup {None}, hops : 0..4])
  /\ queue \in [Delivery -> {"none", "due", "later", "leased", "gone"}]
  /\ attempts \in [Delivery -> 0..Retries + 1]
  /\ inserting \in [Delivery -> {"no", "pending", "resolved"}]
  /\ pump \in [pumping : BOOLEAN, again : BOOLEAN, saturated : BOOLEAN, full : BOOLEAN,
               free : 0..concurrency, batch : SUBSET Delivery,
               claimedNothing : BOOLEAN, held : BOOLEAN, stopped : BOOLEAN]
  /\ flight \in [Delivery -> {"none", "sending", "reporting", "settling"}]
  /\ reminders \in SUBSET Delivery
  /\ closer \in [pc : {"open", "inserting", "idle", "any", "stop", "flights", "closed", "busy"},
                 waiting : SUBSET Delivery, nothing : BOOLEAN]
  /\ ended \in [Delivery -> [times : Nat, why : {"no", "delivered", "retriesRanOut", "closed"}]]

Init ==
  /\ jobs = <<>>
  /\ queue = [d \in Delivery |-> "none"]
  /\ attempts = [d \in Delivery |-> 0]
  /\ inserting = [d \in Delivery |-> "no"]
  /\ pump = [pumping |-> FALSE, again |-> FALSE, saturated |-> FALSE, full |-> FALSE,
             free |-> 0, batch |-> {}, claimedNothing |-> TRUE, held |-> FALSE,
             stopped |-> FALSE]
  /\ flight = [d \in Delivery |-> "none"]
  /\ reminders = {}
  /\ closer = [pc |-> "open", waiting |-> {}, nothing |-> FALSE]
  /\ ended = [d \in Delivery |-> [times |-> 0, why |-> "no"]]

Job(kind, d, hops) == <<[kind |-> kind, of |-> d, hops |-> hops]>>
Closing == closer.pc # "open"

(* The job at the head, once its last hop is reached.                      *)
Runs(kind) == jobs # <<>> /\ Head(jobs).kind = kind /\ Head(jobs).hops = 0
Of == Head(jobs).of

Hop ==
  /\ jobs # <<>> /\ Head(jobs).hops > 0
  /\ jobs' = Append(Tail(jobs), [Head(jobs) EXCEPT !.hops = @ - 1])
  /\ UNCHANGED <<queue, attempts, inserting, pump, flight, reminders, closer, ended>>

InFlight(flying) == {d \in Delivery : flying[d] # "none"}
End(d, why) == ended' = [ended EXCEPT ![d] = [times |-> @.times + 1, why |-> why]]

-----------------------------------------------------------------------------
(* pump.ts.  Each sets jobs' to before, what it queues, and after.         *)

Batches(due, limit) ==
  {S \in SUBSET due : Cardinality(S) = IF Cardinality(due) < limit
                                         THEN Cardinality(due) ELSE limit}

(* pumpOnce, up to its await: a queue in memory claims before it.          *)
PumpOnce(p, flying, before, after) ==
  LET free == concurrency - Cardinality(InFlight(flying))
      due == {d \in Delivery : queue[d] = "due"}
  IN IF free <= 0
       THEN /\ pump' = [p EXCEPT !.again = FALSE, !.saturated = TRUE, !.full = FALSE]
            /\ jobs' = before \o Job("decide", None, 0) \o after
            /\ UNCHANGED <<queue, attempts>>
       ELSE \E S \in Batches(due, free) :
              /\ pump' = [p EXCEPT !.again = FALSE, !.free = free, !.batch = S]
              /\ queue' = [d \in Delivery |-> IF d \in S THEN "leased" ELSE queue[d]]
              /\ attempts' = [d \in Delivery |-> IF d \in S THEN attempts[d] + 1
                                                 ELSE attempts[d]]
              /\ jobs' = before \o Job("answered", None, 2) \o after

wake(p, flying, before, after) ==
  CASE p.stopped ->
         /\ pump' = p
         /\ jobs' = before \o after
         /\ UNCHANGED <<queue, attempts>>
    [] ~ p.stopped /\ p.pumping ->
         /\ pump' = [p EXCEPT !.again = TRUE]
         /\ jobs' = before \o after
         /\ UNCHANGED <<queue, attempts>>
    [] ~ p.stopped /\ ~ p.pumping ->
         PumpOnce([p EXCEPT !.pumping = TRUE], flying, before, after)

(* The claim's answer: each delivery is started.                           *)
Answered ==
  LET full == Cardinality(pump.batch) >= pump.free
  IN /\ Runs("answered")
     /\ flight' = [d \in Delivery |-> IF d \in pump.batch THEN "sending" ELSE flight[d]]
     /\ pump' = [pump EXCEPT !.claimedNothing = (pump.batch = {}), !.batch = {},
                             !.saturated = full, !.full = full]
     /\ jobs' = Tail(jobs) \o Job("decide", None, 0)
     /\ UNCHANGED <<queue, attempts, inserting, reminders, closer, ended>>

(* The loop of wake: again, or done; no timer is armed in memory.          *)
Decide ==
  /\ Runs("decide")
  /\ IF pump.stopped \/ ~ (pump.full \/ pump.again)
       THEN /\ jobs' = Tail(jobs) \o Job("finally", None, 0)
            /\ UNCHANGED <<pump, queue, attempts>>
       ELSE PumpOnce(pump, flight, Tail(jobs), <<>>)
  /\ UNCHANGED <<inserting, flight, reminders, closer, ended>>

(* Its finally, a job after the loop ended: only now is it not pumping.    *)
Finally ==
  /\ Runs("finally")
  /\ pump' = [pump EXCEPT !.pumping = FALSE]
  /\ jobs' = Tail(jobs) \o (IF closer.pc \in {"idle", "stop"} THEN Job("idled", None, 2)
                            ELSE <<>>)
  /\ UNCHANGED <<queue, attempts, inserting, flight, reminders, closer, ended>>

-----------------------------------------------------------------------------
(* The listener.                                                           *)

(* The application calls it, from whatever job of its own.                 *)
Call(d) ==
  /\ queue[d] = "none" /\ ended[d].times = 0
  /\ \A i \in DOMAIN jobs : ~ (jobs[i].kind = "listen" /\ jobs[i].of = d)
  /\ jobs' = jobs \o Job("listen", d, 0)
  /\ UNCHANGED <<queue, attempts, inserting, pump, flight, reminders, closer, ended>>

(* After close() it is given up at once; else its insert is under way.     *)
Listen ==
  /\ Runs("listen")
  /\ IF Closing
       THEN /\ End(Of, "closed")
            /\ jobs' = Tail(jobs)
            /\ UNCHANGED <<queue, inserting>>
       ELSE /\ queue' = [queue EXCEPT ![Of] = "due"]
            /\ inserting' = [inserting EXCEPT ![Of] = "pending"]
            /\ jobs' = Tail(jobs) \o Job("inserted", Of, 0)
            /\ UNCHANGED ended
  /\ UNCHANGED <<attempts, pump, flight, reminders, closer>>

(* accept, past its await.                                                 *)
Inserted ==
  /\ Runs("inserted")
  /\ wake(pump, flight, Tail(jobs),
          Job("done", Of, 0) \o (IF Of \in closer.waiting THEN Job("elem", Of, 0) ELSE <<>>))
  /\ inserting' = [inserting EXCEPT ![Of] = "resolved"]
  /\ UNCHANGED <<flight, reminders, closer, ended>>

Done ==
  /\ Runs("done")
  /\ inserting' = [inserting EXCEPT ![Of] = "no"]
  /\ jobs' = Tail(jobs)
  /\ UNCHANGED <<queue, attempts, pump, flight, reminders, closer, ended>>

-----------------------------------------------------------------------------
(* The sender, and flights.ts.                                             *)

(* The network answers, or the request times out.                          *)
Response(d) ==
  /\ jobs = <<>>
  /\ flight[d] = "sending"
  /\ \E kind \in {"delivered", "failed"} : jobs' = Job(kind, d, 2)
  /\ flight' = [flight EXCEPT ![d] = "settling"]
  /\ UNCHANGED <<queue, attempts, inserting, pump, reminders, closer, ended>>

Delivered ==
  /\ Runs("delivered")
  /\ queue' = [queue EXCEPT ![Of] = "gone"]
  /\ End(Of, "delivered")
  /\ jobs' = Tail(jobs) \o Job("freed", Of, 3)
  /\ UNCHANGED <<attempts, inserting, pump, flight, reminders, closer>>

(* A delay is left and it is not closing: retried.  Else given up.         *)
Failed ==
  /\ Runs("failed")
  /\ IF attempts[Of] <= Retries /\ ~ Closing
       THEN /\ queue' = [queue EXCEPT ![Of] = "later"]
            /\ jobs' = Tail(jobs) \o Job("remind", Of, 1)
            /\ UNCHANGED <<flight, ended>>
       ELSE /\ End(Of, IF attempts[Of] > Retries THEN "retriesRanOut" ELSE "closed")
            /\ flight' = [flight EXCEPT ![Of] = "reporting"]
            /\ jobs' = Tail(jobs)
            /\ UNCHANGED queue
  /\ UNCHANGED <<attempts, inserting, pump, reminders, closer>>

(* scheduleRetry answered true: no timer is set once closing.              *)
Remind ==
  /\ Runs("remind")
  /\ reminders' = IF Closing THEN reminders ELSE reminders \cup {Of}
  /\ jobs' = Tail(jobs) \o Job("freed", Of, 1)
  /\ UNCHANGED <<queue, attempts, inserting, pump, flight, closer, ended>>

(* onGivingUp returned: removed.                                           *)
Reported(d) ==
  /\ jobs = <<>>
  /\ flight[d] = "reporting"
  /\ queue' = [queue EXCEPT ![d] = "gone"]
  /\ flight' = [flight EXCEPT ![d] = "settling"]
  /\ jobs' = Job("freed", d, 4)
  /\ UNCHANGED <<attempts, inserting, pump, reminders, closer, ended>>

(* What close() awaits of the flights: any of them, or all.                *)
AwaitsFlight(flying) ==
  CASE closer.pc = "any" /\ Of \in closer.waiting -> Job("flush", None, 1)
    [] closer.pc = "flights" /\ InFlight(flying) = {} -> Job("abandon", None, 1)
    [] OTHER -> <<>>

(* The flight leaves `sending`, and a saturated pump is woken.             *)
Freed ==
  LET flying == [flight EXCEPT ![Of] = "none"]
      after == AwaitsFlight(flying)
  IN /\ Runs("freed")
     /\ flight' = flying
     /\ closer' = IF after = <<>> THEN closer ELSE [closer EXCEPT !.pc = "busy"]
     /\ IF pump.saturated
          THEN wake(pump, flying, Tail(jobs), after)
          ELSE /\ jobs' = Tail(jobs) \o after
               /\ UNCHANGED <<pump, queue, attempts>>
     /\ UNCHANGED <<inserting, reminders, ended>>

(* A retry's delay passes; once held, the pump claims as of close().       *)
FallsDue(d) ==
  /\ jobs = <<>>
  /\ queue[d] = "later" /\ ~ pump.held
  /\ queue' = [queue EXCEPT ![d] = "due"]
  /\ UNCHANGED <<jobs, attempts, inserting, pump, flight, reminders, closer, ended>>

Reminder(d) ==
  /\ jobs = <<>>
  /\ d \in reminders /\ queue[d] # "later"
  /\ reminders' = reminders \ {d}
  /\ wake(pump, flight, <<>>, <<>>)
  /\ UNCHANGED <<inserting, flight, closer, ended>>

-----------------------------------------------------------------------------
(* close(): index.ts and drain.ts.                                         *)

Close ==
  /\ ~ Closing
  /\ \A i \in DOMAIN jobs : jobs[i].kind # "close"
  /\ jobs' = jobs \o Job("close", None, 0)
  /\ UNCHANGED <<queue, attempts, inserting, pump, flight, reminders, closer, ended>>

(* Up to Promise.allSettled of the inserts under way.                      *)
Closes ==
  LET waiting == {d \in Delivery : inserting[d] # "no"}
      resolved == {d \in Delivery : inserting[d] = "resolved"}
  IN /\ Runs("close")
     /\ reminders' = {}
     /\ closer' = [closer EXCEPT !.pc = "inserting", !.waiting = waiting]
     /\ IF waiting = {}
          THEN jobs' = Tail(jobs) \o Job("flush", None, 0)
          ELSE \E order \in SetToSeqs(resolved) :
                 jobs' = Tail(jobs) \o [i \in DOMAIN order |-> Job("elem", order[i], 0)[1]]
     /\ UNCHANGED <<queue, attempts, inserting, pump, flight, ended>>

Elem ==
  /\ Runs("elem")
  /\ closer' = [closer EXCEPT !.waiting = @ \ {Of}]
  /\ jobs' = Tail(jobs) \o (IF closer.waiting = {Of} THEN Job("flush", None, 0) ELSE <<>>)
  /\ UNCHANGED <<queue, attempts, inserting, pump, flight, reminders, ended>>

(* flush: hold, wake, and the pump awaited until it is idle.               *)
FlushFrom(before) ==
  /\ wake([pump EXCEPT !.held = TRUE], flight, before, <<>>)
  /\ closer' = [closer EXCEPT !.pc = "idle"]

Flush ==
  /\ Runs("flush")
  /\ FlushFrom(Tail(jobs))
  /\ UNCHANGED <<inserting, flight, reminders, ended>>

(* idle() and stop(), past their await: idle goes on while it pumps.       *)
Idled ==
  /\ Runs("idled")
  /\ CASE closer.pc = "stop" ->
            /\ jobs' = Tail(jobs) \o Job("stopped", None, 0)
            /\ closer' = [closer EXCEPT !.pc = "busy"]
       [] closer.pc = "idle" /\ pump.pumping ->
            /\ jobs' = Tail(jobs)
            /\ UNCHANGED closer
       [] closer.pc = "idle" /\ ~ pump.pumping ->
            /\ jobs' = Tail(jobs) \o Job("afterIdle", None, 0)
            /\ closer' = [closer EXCEPT !.pc = "busy", !.nothing = pump.claimedNothing]
  /\ UNCHANGED <<queue, attempts, inserting, pump, flight, reminders, ended>>

(* Mutant: any() is awaited with no request in flight.                     *)
AfterIdleRaces ==
  /\ Runs("afterIdle")
  /\ IF InFlight(flight) # {} \/ ~ closer.nothing
       THEN /\ closer' = [closer EXCEPT !.pc = "any", !.waiting = InFlight(flight)]
            /\ jobs' = Tail(jobs)
       ELSE /\ jobs' = Tail(jobs) \o Job("flushed", None, 0)
            /\ UNCHANGED closer
  /\ UNCHANGED <<queue, attempts, pump, inserting, flight, reminders, ended>>

AfterIdle ==
  /\ Runs("afterIdle")
  /\ CASE InFlight(flight) # {} ->
            /\ closer' = [closer EXCEPT !.pc = "any", !.waiting = InFlight(flight)]
            /\ jobs' = Tail(jobs)
            /\ UNCHANGED <<pump, queue, attempts>>
       [] InFlight(flight) = {} /\ closer.nothing ->
            /\ jobs' = Tail(jobs) \o Job("flushed", None, 0)
            /\ UNCHANGED <<pump, queue, attempts, closer>>
       [] InFlight(flight) = {} /\ ~ closer.nothing -> FlushFrom(Tail(jobs))
  /\ UNCHANGED <<inserting, flight, reminders, ended>>

(* pump.stop().                                                            *)
Flushed ==
  /\ Runs("flushed")
  /\ pump' = [pump EXCEPT !.stopped = TRUE]
  /\ IF pump.pumping
       THEN /\ closer' = [closer EXCEPT !.pc = "stop"]
            /\ jobs' = Tail(jobs)
       ELSE /\ jobs' = Tail(jobs) \o Job("stopped", None, 1)
            /\ UNCHANGED closer
  /\ UNCHANGED <<queue, attempts, inserting, flight, reminders, ended>>

(* flights.all().                                                          *)
Stopped ==
  /\ Runs("stopped")
  /\ IF InFlight(flight) = {}
       THEN /\ jobs' = Tail(jobs) \o Job("abandon", None, 1)
            /\ UNCHANGED closer
       ELSE /\ closer' = [closer EXCEPT !.pc = "flights"]
            /\ jobs' = Tail(jobs)
  /\ UNCHANGED <<queue, attempts, inserting, pump, flight, reminders, ended>>

(* Mutant: what waits for a retry is left.                                 *)
AbandonDue ==
  /\ Runs("abandon")
  /\ queue' = [d \in Delivery |-> IF queue[d] = "due" THEN "gone" ELSE queue[d]]
  /\ ended' = [d \in Delivery |-> IF queue[d] = "due"
                                    THEN [times |-> ended[d].times + 1, why |-> "closed"]
                                    ELSE ended[d]]
  /\ closer' = [closer EXCEPT !.pc = "closed"]
  /\ jobs' = Tail(jobs)
  /\ UNCHANGED <<attempts, inserting, pump, flight, reminders>>

(* abandonWaiting, and close() resolves.                                   *)
AbandonWaiting ==
  LET left == {d \in Delivery : queue[d] \in {"due", "later", "leased"}}
  IN /\ Runs("abandon")
     /\ queue' = [d \in Delivery |-> IF d \in left THEN "gone" ELSE queue[d]]
     /\ ended' = [d \in Delivery |-> IF d \in left
                                       THEN [times |-> ended[d].times + 1, why |-> "closed"]
                                       ELSE ended[d]]
     /\ closer' = [closer EXCEPT !.pc = "closed"]
     /\ jobs' = Tail(jobs)
     /\ UNCHANGED <<attempts, inserting, pump, flight, reminders>>

-----------------------------------------------------------------------------
RunJob ==
  \/ Hop \/ Listen \/ Inserted \/ Done \/ Elem \/ Answered \/ Decide \/ Finally
  \/ Delivered \/ Failed \/ Remind \/ Freed \/ Closes \/ Flush \/ Idled
  \/ AfterIdle \/ Flushed \/ Stopped \/ AbandonWaiting

Next ==
  \/ RunJob \/ Close
  \/ \E d \in Delivery : Call(d) \/ Response(d) \/ Reported(d) \/ FallsDue(d) \/ Reminder(d)

Spec == Init /\ [][Next]_vars

(* The event loop runs its jobs, a request ends at its timeout and         *)
(* onGivingUp returns.                                                     *)
FairSpec ==
  /\ Spec
  /\ WF_vars(RunJob)
  /\ \A d \in Delivery : WF_vars(Response(d)) /\ WF_vars(Reported(d))

-----------------------------------------------------------------------------
(* Properties.                                                             *)

(* "The first request starts at once" (deliver.ts): with a slot free and   *)
(* no job left, no delivery waits for its first attempt.                   *)
FirstStartsAtOnce ==
  (jobs = <<>> /\ ~ Closing /\ Cardinality(InFlight(flight)) < concurrency) =>
    \A d \in Delivery : queue[d] = "due" => attempts[d] > 0

(* Once close() resolved every delivery accepted has ended, once: it was   *)
(* delivered, or reported (drain.ts, README.md of the package).  close()   *)
(* "first sends every delivery due at the call" (deliver.ts): one given up *)
(* as closed was attempted.                                                *)
ClosedEndsAll ==
  /\ \A d \in Delivery : ended[d].times <= 1
  /\ \A d \in Delivery :
       (queue[d] # "none" /\ ended[d].why = "closed") => attempts[d] > 0
  /\ closer.pc = "closed" =>
       \A d \in Delivery : queue[d] # "none" => ended[d].times = 1

(* close() resolves: no wake it waits on is lost (flush, idle, stop).      *)
CloseResolves == Closing ~> closer.pc = "closed"
=============================================================================
