------------------------------ MODULE Delivery ------------------------------
(***************************************************************************)
(* What the job queue promises to those who enqueue: a job is tried, one   *)
(* attempt after the other, until an attempt succeeds or MaxAttempts of    *)
(* them have failed, and then it is never tried again.  An attempt is      *)
(* atomic here.  JobQueue.tla is the detailed specification.               *)
(***************************************************************************)
EXTENDS Naturals

CONSTANTS Jobs, MaxAttempts

VARIABLES outcome,   \* what has become of a job
          failures   \* failed attempts of a job

deliveryVars == <<outcome, failures>>

DeliveryInit ==
    /\ outcome = [j \in Jobs |-> "absent"]
    /\ failures = [j \in Jobs |-> 0]

Submit(j) ==
    /\ outcome[j] = "absent"
    /\ outcome' = [outcome EXCEPT ![j] = "waiting"]
    /\ UNCHANGED failures

Succeed(j) ==
    /\ outcome[j] = "waiting"
    /\ outcome' = [outcome EXCEPT ![j] = "done"]
    /\ UNCHANGED failures

\* The last of the attempts that may fail gives the job up.
Fail(j) ==
    /\ outcome[j] = "waiting"
    /\ failures' = [failures EXCEPT ![j] = @ + 1]
    /\ outcome' = [outcome EXCEPT ![j] =
                     IF failures[j] + 1 >= MaxAttempts THEN "failed" ELSE "waiting"]

DeliveryNext == \E j \in Jobs : Submit(j) \/ Succeed(j) \/ Fail(j)

DeliverySpec == DeliveryInit /\ [][DeliveryNext]_deliveryVars
=============================================================================
