----------------------------- MODULE MCJobQueue -----------------------------
(***************************************************************************)
(* Small instances of what the worker drains in batches: the job table     *)
(* (JobQueue, extended), and the unpaid orders (CronBatches).  Neither     *)
(* waits for the other: a behaviour is one of the two, chosen at the       *)
(* start, with the other at rest.                                          *)
(***************************************************************************)
EXTENDS JobQueue

CONSTANTS Orders, TakeReconcile, TakeExpire, Captures        \* CronBatches

VARIABLES
    drained,                                                 \* what a behaviour is about
    order, payment, units, bkash, aged, reconciling, expiring, released  \* CronBatches

batchVars == <<order, payment, units, bkash, aged, reconciling, expiring, released>>

Batches == INSTANCE CronBatches

ASSUME Batches!CronBatchesAssumption

WorkerInit == drained \in {"jobs", "orders"} /\ Init /\ Batches!Init

WorkerNext ==
    /\ \/ drained = "jobs" /\ Next /\ UNCHANGED batchVars
       \/ drained = "orders" /\ Batches!Next /\ UNCHANGED vars
    /\ UNCHANGED drained

\* The fairness of the two.  At rest there is no job and no order: what is enabled then,
\* the cron calls that would find none, is taken when it is chosen.
JobFairness ==
    /\ \A j \in Jobs : WF_vars(BecomesDue(j))
    /\ \A d \in Drainers : WF_vars(drained = "jobs" /\ drain(d)) /\ WF_vars(Continue(d))
    /\ \A d \in Drainers : <>[][~ (Crash(d) \/ MarkDoneThrows(d))]_vars

BatchFairness ==
    /\ \A o \in Orders : WF_batchVars(Batches!Ages(o))
    /\ WF_batchVars(drained = "orders" /\ Batches!reconcile)
    /\ SF_batchVars(Batches!ReconcileNext(TRUE))
    /\ WF_batchVars(drained = "orders" /\ Batches!expireUnpaidOrders)
    /\ SF_batchVars(Batches!ReleaseNext) /\ SF_batchVars(Batches!ExpireNext)

WorkerSpec ==
    WorkerInit /\ [][WorkerNext]_<<vars, batchVars, drained>> /\ JobFairness /\ BatchFairness

----------------------------------------------------------------------------
(* Properties *)

\* Of CronBatches: no order keeps its units for ever by not being paid (reconcile,
\* expireUnpaidOrders).
UnpaidLetsGo == Batches!UnpaidLetsGo
=============================================================================
