-------------------------- MODULE WebhookDelivery --------------------------
(***************************************************************************)
(* What the webhook outbox promises the rest of QuotaGate: a delivery (one *)
(* event for one webhook) that has been queued stays queued until its      *)
(* endpoint has acknowledged it or it has been given up; a delivery that   *)
(* is done is done for good; a given-up one comes back only by a replay.   *)
(* Nothing here knows of workers, leases, transactions or crashes.         *)
(***************************************************************************)
CONSTANTS Deliveries

VARIABLES phase,   \* of each: "absent", "queued", "done" or "dead"
          acked    \* deliveries some endpoint has answered with 2xx

dvars == <<phase, acked>>

DInit ==
    /\ phase = [d \in Deliveries |-> "absent"]
    /\ acked = {}

\* The deliveries of one publication appear together.
Enqueue(S) ==
    /\ \A d \in S : phase[d] = "absent"
    /\ phase' = [d \in Deliveries |-> IF d \in S THEN "queued" ELSE phase[d]]
    /\ UNCHANGED acked

\* A queued delivery is acknowledged, possibly more than once.
Acknowledge(d) ==
    /\ phase[d] = "queued"
    /\ acked' = acked \union {d}
    /\ UNCHANGED phase

Finish(d) ==
    /\ phase[d] = "queued"
    /\ d \in acked
    /\ phase' = [phase EXCEPT ![d] = "done"]
    /\ UNCHANGED acked

GiveUp(d) ==
    /\ phase[d] = "queued"
    /\ phase' = [phase EXCEPT ![d] = "dead"]
    /\ UNCHANGED acked

Requeue(d) ==
    /\ phase[d] = "dead"
    /\ phase' = [phase EXCEPT ![d] = "queued"]
    /\ UNCHANGED acked

DNext ==
    \/ \E S \in SUBSET Deliveries : Enqueue(S)
    \/ \E d \in Deliveries :
          Acknowledge(d) \/ Finish(d) \/ GiveUp(d) \/ Requeue(d)

DSpec == DInit /\ [][DNext]_dvars
=============================================================================
