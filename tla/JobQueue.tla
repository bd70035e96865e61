------------------------------ MODULE JobQueue ------------------------------
(***************************************************************************)
(* JobsService: the Job table as a queue, drained by cron calls that       *)
(* several workers may serve at the same time.  A drainer selects a due    *)
(* PENDING job, claims it with a conditional update, runs it and writes    *)
(* the result; each of these is a step.                                    *)
(*                                                                         *)
(* Time is abstracted: a job's runAt has come or not.  The drainer takes   *)
(* the due job with the least runAt; here it may take any, so that what    *)
(* holds does not depend on the order.                                     *)
(* SMTP is external: an email is accepted or refused, and a refusal may    *)
(* come after the server has accepted it (a lost answer).  A database      *)
(* statement that throws has changed nothing.                              *)
(***************************************************************************)
EXTENDS Naturals

CONSTANTS Jobs,         \* ids of the jobs that may be enqueued
          Unknown,      \* those whose type handle does not know
          Drainers,     \* cron calls that may run at the same time
          NoJob,
          MaxAttempts,  \* Job.maxAttempts
          Limit,        \* drain's limit
          Crashes,      \* may a drainer end between two of its steps?
          Refusals      \* may SMTP fail?

ASSUME JobQueueAssumption ==
    /\ Unknown \subseteq Jobs
    /\ NoJob \notin Jobs
    /\ MaxAttempts \in Nat \ {0}
    /\ Limit \in Nat \ {0}
    /\ Crashes \in BOOLEAN
    /\ Refusals \in BOOLEAN

VARIABLES
    status,     \* Job.status, "ABSENT": no row
    attempts,   \* Job.attempts
    due,        \* PENDING jobs whose runAt has come
    sent,       \* number of times the email of a job was accepted
    drainer     \* what each drainer is in the middle of

jobVars == <<status, attempts, due>>
vars == <<status, attempts, due, sent, drainer>>

JobStatus == {"PENDING", "PROCESSING", "DONE", "FAILED"}

Drainer == [at : {"idle", "find", "claim", "read", "handle", "done", "failed"},
            job : Jobs \cup {NoJob},
            attempts : Nat,          \* job.attempts as the drainer read it
            left : 0 .. Limit]       \* rounds of the loop still to go

Idle == [at |-> "idle", job |-> NoJob, attempts |-> 0, left |-> 0]

\* The start of a round, with `left` rounds still to go.
Round(left) == [at |-> "find", job |-> NoJob, attempts |-> 0, left |-> left]

\* d goes on at `at`, with job j.
Goes(d, at, j) == drainer' = [drainer EXCEPT ![d].at = at, ![d].job = j]

\* The round is over: the next one begins, or drain returns.
NextRound(d) ==
    drainer' = [drainer EXCEPT ![d] =
                  IF @.left > 1 THEN Round(@.left - 1) ELSE Idle]

Return(d) == drainer' = [drainer EXCEPT ![d] = Idle]

----------------------------------------------------------------------------

\* A new job is due at once.
enqueue(j) ==
    /\ status[j] = "ABSENT"
    /\ status' = [status EXCEPT ![j] = "PENDING"]
    /\ due' = due \cup {j}
    /\ UNCHANGED <<attempts, sent, drainer>>

\* The runAt of a job that was put off comes.
BecomesDue(j) ==
    /\ status[j] = "PENDING"
    /\ j \notin due
    /\ due' = due \cup {j}
    /\ UNCHANGED <<status, attempts, sent, drainer>>

\* A cron call begins.
drain(d) ==
    /\ drainer[d].at = "idle"
    /\ drainer' = [drainer EXCEPT ![d] = Round(Limit)]
    /\ UNCHANGED <<jobVars, sent>>

\* claimNext selects a candidate; without one, drain is done.
FindCandidate(d) ==
    /\ drainer[d].at = "find"
    /\ IF due = {}
         THEN Return(d)
         ELSE \E j \in due : Goes(d, "claim", j)
    /\ UNCHANGED <<jobVars, sent>>

\* Mutant: the update has no status condition.
ClaimAlways(d) ==
    /\ drainer[d].at = "claim"
    /\ status' = [status EXCEPT ![drainer[d].job] = "PROCESSING"]
    /\ due' = due \ {drainer[d].job}
    /\ Goes(d, "read", drainer[d].job)
    /\ UNCHANGED <<attempts, sent>>

\* ... and claims it if it is still PENDING.  When another drainer was faster,
\* claimNext returns null, and that ends the whole drain.
ClaimCandidate(d) ==
    /\ drainer[d].at = "claim"
    /\ LET j == drainer[d].job
       IN  IF status[j] = "PENDING"
             THEN /\ status' = [status EXCEPT ![j] = "PROCESSING"]
                  /\ due' = due \ {j}
                  /\ Goes(d, "read", j)
             ELSE /\ Return(d)
                  /\ UNCHANGED <<status, due>>
    /\ UNCHANGED <<attempts, sent>>

\* The claimed row is read back.
ReadJob(d) ==
    /\ drainer[d].at = "read"
    /\ drainer' = [drainer EXCEPT ![d].at = "handle",
                                  ![d].attempts = attempts[drainer[d].job]]
    /\ UNCHANGED <<jobVars, sent>>

\* The job runs.  Its email is accepted; or nothing needs to be sent (no SMTP
\* server is configured, the order is gone); or it throws, with the email
\* accepted or not.  A job of an unknown type throws.
handle(d) ==
    /\ drainer[d].at = "handle"
    /\ LET j == drainer[d].job
       IN  \/ /\ j \notin Unknown
              /\ sent' = [sent EXCEPT ![j] = @ + 1]
              /\ Goes(d, "done", j) \/ (Refusals /\ Goes(d, "failed", j))
           \/ /\ j \notin Unknown
              /\ Goes(d, "done", j)
              /\ UNCHANGED sent
           \/ /\ Refusals \/ j \in Unknown
              /\ Goes(d, "failed", j)
              /\ UNCHANGED sent
    /\ UNCHANGED jobVars

\* The result of a run that came back.
MarkDone(d) ==
    /\ drainer[d].at = "done"
    /\ status' = [status EXCEPT ![drainer[d].job] = "DONE"]
    /\ NextRound(d)
    /\ UNCHANGED <<attempts, due, sent>>

\* Mutant: one attempt too many.
ExhaustedLate(n) == n > MaxAttempts

Exhausted(n) == n >= MaxAttempts

\* Mutant: the attempt is not counted.
MarkFailedUncounted(d) ==
    /\ drainer[d].at = "failed"
    /\ status' = [status EXCEPT ![drainer[d].job] =
                     IF Exhausted(drainer[d].attempts + 1) THEN "FAILED" ELSE "PENDING"]
    /\ NextRound(d)
    /\ UNCHANGED <<attempts, due, sent>>

\* The result of a run that threw: another attempt later, or the end.
MarkFailed(d) ==
    /\ drainer[d].at = "failed"
    /\ LET j == drainer[d].job
           n == drainer[d].attempts + 1
       IN  /\ attempts' = [attempts EXCEPT ![j] = n]
           /\ status' = [status EXCEPT ![j] = IF Exhausted(n) THEN "FAILED" ELSE "PENDING"]
    /\ NextRound(d)
    /\ UNCHANGED <<due, sent>>

\* The update to DONE throws, inside drain's try: the run counts as failed.
MarkDoneThrows(d) ==
    /\ Crashes
    /\ drainer[d].at = "done"
    /\ Goes(d, "failed", drainer[d].job)
    /\ UNCHANGED <<jobVars, sent>>

\* The worker is restarted, or a statement outside of drain's try throws.
Crash(d) ==
    /\ Crashes
    /\ drainer[d].at # "idle"
    /\ Return(d)
    /\ UNCHANGED <<jobVars, sent>>

----------------------------------------------------------------------------

Init ==
    /\ status = [j \in Jobs |-> "ABSENT"]
    /\ attempts = [j \in Jobs |-> 0]
    /\ due = {}
    /\ sent = [j \in Jobs |-> 0]
    /\ drainer = [d \in Drainers |-> Idle]

\* What a drainer does once it has begun.
Continue(d) ==
    \/ FindCandidate(d) \/ ClaimCandidate(d) \/ ReadJob(d)
    \/ handle(d) \/ MarkDone(d) \/ MarkFailed(d)

Next ==
    \/ \E j \in Jobs : enqueue(j) \/ BecomesDue(j)
    \/ \E d \in Drainers : drain(d) \/ Continue(d) \/ MarkDoneThrows(d) \/ Crash(d)

Spec == Init /\ [][Next]_vars

\* Time passes, the cron keeps calling, and a drain that has begun goes on unless
\* it is cut off; that does not happen to every drain for ever.
Fairness ==
    /\ \A j \in Jobs : WF_vars(BecomesDue(j))
    /\ \A d \in Drainers : WF_vars(drain(d)) /\ WF_vars(Continue(d))
    /\ \A d \in Drainers : <>[][~ (Crash(d) \/ MarkDoneThrows(d))]_vars

FairSpec == Spec /\ Fairness

----------------------------------------------------------------------------
(* Properties *)

TypeOK ==
    /\ status \in [Jobs -> JobStatus \cup {"ABSENT"}]
    /\ attempts \in [Jobs -> Nat]
    /\ due \subseteq Jobs
    /\ sent \in [Jobs -> Nat]
    /\ drainer \in [Drainers -> Drainer]

Runs(d, j) == drainer[d].at \in {"read", "handle", "done", "failed"} /\ drainer[d].job = j

\* "Concurrent drains never double-run a job": two drainers that both selected a
\* job do not both run it, nor does one run what another has finished.
NeverDoubleRun ==
    \A j \in Jobs, d \in Drainers :
        Runs(d, j) => /\ status[j] = "PROCESSING"
                      /\ \A e \in Drainers \ {d} : ~ Runs(e, j)

\* An email goes out at most once per attempt: with n failures on record it was
\* accepted at most n + 1 times, through lost answers, overlap and crashes.
AtMostOncePerAttempt == \A j \in Jobs : sent[j] <= attempts[j] + 1

\* What the claim and the counter of attempts are for: one drainer runs an attempt, and
\* an attempt sends one email.
OncePerAttempt == NeverDoubleRun /\ AtMostOncePerAttempt

Outcome(s) == CASE s = "ABSENT" -> "absent"
                [] s = "DONE" -> "done"
                [] s = "FAILED" -> "failed"
                [] OTHER -> "waiting"

\* The queue delivers as the abstract specification promises: the attempts a
\* drainer read before it ran the job are still those of the row when it writes.
Promise == INSTANCE Delivery WITH outcome <- [j \in Jobs |-> Outcome(status[j])],
                                  failures <- attempts

ImplementsDelivery == Promise!DeliverySpec

\* A job whose drainer ended before it wrote the result: nothing reads lockedAt,
\* and the job stays PROCESSING.
CutOff(j) == status[j] = "PROCESSING" /\ \A d \in Drainers : ~ Runs(d, j)

\* Every job is done or given up in the end, though jobs that always throw are
\* queued before it and are tried again and again, drains overlap and some are
\* cut off; only a job in the hands of a drain at that moment can be lost.
EveryJobEnds ==
    \A j \in Jobs : status[j] = "PENDING" ~> status[j] \in {"DONE", "FAILED"} \/ CutOff(j)
=============================================================================
