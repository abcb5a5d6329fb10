------------------------------- MODULE Outbox -------------------------------
(***************************************************************************)
(* What a durable queue promises of each delivery, with no processes and   *)
(* no leases (packages/janus-webhooks/README.md, "At least once"): kept    *)
(* from its insert until it was delivered or reported as given up, ended   *)
(* more often only by a fault, and not kept for ever.                      *)
(***************************************************************************)
EXTENDS Naturals

CONSTANTS Delivery, MaxFaults

VARIABLES status, ended, faults

vars == <<status, ended, faults>>

Init ==
  /\ status = [d \in Delivery |-> "unknown"]
  /\ ended = [d \in Delivery |-> 0]
  /\ faults = 0

(* The deliveries of one event are inserted together.                      *)
Insert(D) ==
  /\ D # {}
  /\ \A d \in D : status[d] = "unknown"
  /\ status' = [d \in Delivery |-> IF d \in D THEN "kept" ELSE status[d]]
  /\ UNCHANGED <<ended, faults>>

(* A 2xx, or a report: once, and once more for each fault.                 *)
End(d) ==
  /\ status[d] = "kept"
  /\ ended[d] <= faults
  /\ ended' = [ended EXCEPT ![d] = @ + 1]
  /\ UNCHANGED <<status, faults>>

(* A fault may strike an insert that was made all the same.                *)
Fault ==
  /\ faults < MaxFaults
  /\ faults' = faults + 1
  /\ \E D \in SUBSET Delivery :
       /\ \A d \in D : status[d] = "unknown"
       /\ status' = [d \in Delivery |-> IF d \in D THEN "kept" ELSE status[d]]
  /\ UNCHANGED ended

(* The same of a removal.                                                  *)
Remove(d) ==
  /\ status[d] = "kept"
  /\ ended[d] > 0
  /\ status' = [status EXCEPT ![d] = "gone"]
  /\ faults' \in {faults, faults + 1}
  /\ UNCHANGED ended

Next ==
  \/ \E D \in SUBSET Delivery : Insert(D)
  \/ \E d \in Delivery : End(d) \/ Remove(d)
  \/ Fault

Spec ==
  /\ Init
  /\ [][Next]_vars
  /\ \A d \in Delivery : WF_vars(status[d] = "kept" /\ ended[d] = 0 /\ End(d))
                         /\ WF_vars(Remove(d))
=============================================================================
