--------------------------- MODULE JobQueueProofs ---------------------------
(***************************************************************************)
(* The queue for every set of jobs and of drainers, with refusals and      *)
(* crashes: no job is run twice at once, no email goes out more than once  *)
(* per attempt, and the queue implements Delivery.  The claim makes a      *)
(* drainer the only one to run its job; from that follows what the update  *)
(* of a failed job relies on: that the attempts read before the run are    *)
(* still those of the row.                                                 *)
(***************************************************************************)
EXTENDS JobQueue, TLAPS

\* A drainer that is past the selection has a job.
HasJob == \A d \in Drainers : drainer[d].at \notin {"idle", "find"} => drainer[d].job \in Jobs

\* What a drainer read of its job is still so.
AttemptsCurrent ==
    \A d \in Drainers : drainer[d].at \in {"handle", "done", "failed"}
                            => drainer[d].attempts = attempts[drainer[d].job]

\* A job that is waiting or has just been claimed sent an email only in the
\* attempts on record; nothing at all was sent for an absent one.
SentBefore ==
    /\ \A j \in Jobs : status[j] \in {"ABSENT", "PENDING"} => sent[j] <= attempts[j]
    /\ \A d \in Drainers : drainer[d].at \in {"read", "handle"}
                               => sent[drainer[d].job] <= attempts[drainer[d].job]

DueIsPending == \A j \in due : status[j] = "PENDING"

IInv == /\ TypeOK /\ HasJob /\ NeverDoubleRun /\ AttemptsCurrent
        /\ SentBefore /\ AtMostOncePerAttempt /\ DueIsPending

\* The record of a drainer after a step.
LEMMA GoesType ==
    ASSUME TypeOK, NEW d \in Drainers, NEW j \in Jobs,
           NEW at \in {"claim", "read", "done", "failed"}, Goes(d, at, j)
    PROVE  /\ drainer' \in [Drainers -> Drainer]
           /\ drainer'[d].at = at /\ drainer'[d].job = j
           /\ drainer'[d].attempts = drainer[d].attempts
           /\ \A e \in Drainers : e # d => drainer'[e] = drainer[e]
BY DEF TypeOK, Goes, Drainer

LEMMA ReturnType ==
    ASSUME TypeOK, NEW d \in Drainers, Return(d)
    PROVE  /\ drainer' \in [Drainers -> Drainer]
           /\ drainer'[d].at = "idle"
           /\ \A e \in Drainers : e # d => drainer'[e] = drainer[e]
<1>1. Idle \in Drainer /\ Idle.at = "idle"
    BY JobQueueAssumption DEF JobQueueAssumption, Idle, Drainer
<1> QED
    BY <1>1 DEF TypeOK, Return

LEMMA RoundInType ==
    ASSUME NEW left \in 0 .. Limit
    PROVE  Round(left) \in Drainer /\ Round(left).at = "find"
BY DEF Round, Drainer

LEMMA RoundType ==
    ASSUME TypeOK, NEW d \in Drainers, NextRound(d)
    PROVE  /\ drainer' \in [Drainers -> Drainer]
           /\ drainer'[d].at \in {"idle", "find"}
           /\ \A e \in Drainers : e # d => drainer'[e] = drainer[e]
<1>1. CASE drainer[d].left > 1
  <2> DEFINE left == drainer[d].left - 1
  <2>1. drainer[d].left \in 0 .. Limit
    BY DEF TypeOK, Drainer
  <2>2. left \in 0 .. Limit
    BY <1>1, <2>1, JobQueueAssumption DEF JobQueueAssumption
  <2>3. drainer' = [drainer EXCEPT ![d] = Round(left)]
    BY <1>1 DEF NextRound, TypeOK
  <2> HIDE DEF left
  <2>4. Round(left) \in Drainer /\ Round(left).at = "find"
    BY <2>2, RoundInType
  <2> QED
    BY <2>3, <2>4 DEF TypeOK
<1>2. CASE ~ (drainer[d].left > 1)
    BY <1>2, ReturnType DEF NextRound, Return, TypeOK
<1> QED
    BY <1>1, <1>2

LEMMA InitOK == Init => IInv
<1>1. ASSUME Init PROVE TypeOK
    BY <1>1, JobQueueAssumption DEF JobQueueAssumption, Init, TypeOK, Idle, Drainer
<1> QED
    BY <1>1 DEF Init, IInv, HasJob, NeverDoubleRun, AttemptsCurrent, SentBefore,
                AtMostOncePerAttempt, DueIsPending, Runs, Idle

LEMMA enqueueOK ==
    ASSUME IInv, NEW j \in Jobs, enqueue(j)
    PROVE  IInv'
BY DEF IInv, enqueue, TypeOK, JobStatus, HasJob, NeverDoubleRun, AttemptsCurrent, SentBefore,
       AtMostOncePerAttempt, DueIsPending, Runs

LEMMA BecomesDueOK ==
    ASSUME IInv, NEW j \in Jobs, BecomesDue(j)
    PROVE  IInv'
BY DEF IInv, BecomesDue, TypeOK, JobStatus, HasJob, NeverDoubleRun, AttemptsCurrent, SentBefore,
       AtMostOncePerAttempt, DueIsPending, Runs

\* A drainer that holds no job after its step disturbs nothing.
LEMMA LetsGoOK ==
    ASSUME IInv, NEW d \in Drainers, UNCHANGED <<jobVars, sent>>,
           drainer' \in [Drainers -> Drainer],
           drainer'[d].at \in {"idle", "find"},
           \A e \in Drainers : e # d => drainer'[e] = drainer[e]
    PROVE  IInv'
BY DEF IInv, jobVars, TypeOK, HasJob, NeverDoubleRun, AttemptsCurrent, SentBefore,
       AtMostOncePerAttempt, DueIsPending, Runs

LEMMA drainOK ==
    ASSUME IInv, NEW d \in Drainers, drain(d)
    PROVE  IInv'
<1>1. Limit \in 0 .. Limit
    BY JobQueueAssumption DEF JobQueueAssumption
<1>2. Round(Limit) \in Drainer /\ Round(Limit).at = "find"
    BY <1>1, RoundInType
<1>3. drainer' = [drainer EXCEPT ![d] = Round(Limit)]
    BY DEF drain
<1>4. /\ drainer' \in [Drainers -> Drainer]
      /\ drainer'[d].at = "find"
      /\ \A e \in Drainers : e # d => drainer'[e] = drainer[e]
    BY <1>2, <1>3 DEF IInv, TypeOK
<1> QED
    BY <1>4, LetsGoOK DEF drain

LEMMA ReturnOK ==
    ASSUME IInv, NEW d \in Drainers, Return(d), UNCHANGED <<jobVars, sent>>
    PROVE  IInv'
BY ReturnType, LetsGoOK DEF IInv

LEMMA FindCandidateOK ==
    ASSUME IInv, NEW d \in Drainers, FindCandidate(d)
    PROVE  IInv'
<1>1. CASE due = {}
    BY <1>1, ReturnOK DEF FindCandidate
<1>2. CASE due # {}
  <2>1. PICK j \in due : Goes(d, "claim", j)
    BY <1>2 DEF FindCandidate
  <2>2. j \in Jobs
    BY DEF IInv, TypeOK
  <2>3. /\ drainer' \in [Drainers -> Drainer]
        /\ drainer'[d].at = "claim" /\ drainer'[d].job = j
        /\ \A e \in Drainers : e # d => drainer'[e] = drainer[e]
    BY <2>1, <2>2, GoesType DEF IInv
  <2> QED
    BY <2>2, <2>3 DEF FindCandidate, IInv, jobVars, TypeOK, HasJob, NeverDoubleRun,
       AttemptsCurrent, SentBefore, AtMostOncePerAttempt, DueIsPending, Runs
<1> QED
    BY <1>1, <1>2

\* The claim: while the job was PENDING nobody ran it.
LEMMA ClaimCandidateOK ==
    ASSUME IInv, NEW d \in Drainers, ClaimCandidate(d)
    PROVE  IInv'
<1> DEFINE j == drainer[d].job
<1>1. CASE status[j] = "PENDING"
  <2>1. j \in Jobs
    BY DEF ClaimCandidate, IInv, HasJob
  <2>2. /\ status' = [status EXCEPT ![j] = "PROCESSING"]
        /\ due' = due \ {j}
        /\ attempts' = attempts /\ sent' = sent
        /\ Goes(d, "read", j)
    BY <1>1 DEF ClaimCandidate
  <2>3. /\ drainer' \in [Drainers -> Drainer]
        /\ drainer'[d].at = "read" /\ drainer'[d].job = j
        /\ \A e \in Drainers : e # d => drainer'[e] = drainer[e]
    BY <2>1, <2>2, GoesType DEF IInv
  <2>4. \A e \in Drainers : ~ Runs(e, j)
    BY <1>1, <2>1 DEF IInv, NeverDoubleRun
  <2>5. TypeOK'
    BY <2>1, <2>2, <2>3 DEF IInv, TypeOK, JobStatus
  <2>6. NeverDoubleRun'
    BY <2>1, <2>2, <2>3, <2>4 DEF IInv, TypeOK, NeverDoubleRun, Runs
  <2>7. SentBefore'
    BY <1>1, <2>1, <2>2, <2>3 DEF IInv, TypeOK, SentBefore
  <2>8. HasJob' /\ AttemptsCurrent' /\ AtMostOncePerAttempt' /\ DueIsPending'
    BY <2>1, <2>2, <2>3 DEF IInv, TypeOK, HasJob, AttemptsCurrent, AtMostOncePerAttempt,
                            DueIsPending
  <2> QED
    BY <2>5, <2>6, <2>7, <2>8 DEF IInv
<1>2. CASE status[j] # "PENDING"
    BY <1>2, ReturnOK DEF ClaimCandidate, jobVars
<1> QED
    BY <1>1, <1>2

LEMMA ReadJobOK ==
    ASSUME IInv, NEW d \in Drainers, ReadJob(d)
    PROVE  IInv'
<1> DEFINE j == drainer[d].job
<1>1. j \in Jobs /\ drainer[d].at = "read" /\ attempts[j] \in Nat
    BY DEF ReadJob, IInv, HasJob, TypeOK
<1>2. /\ drainer' \in [Drainers -> Drainer]
      /\ drainer'[d].at = "handle" /\ drainer'[d].job = j
      /\ drainer'[d].attempts = attempts[j]
      /\ \A e \in Drainers : e # d => drainer'[e] = drainer[e]
    BY <1>1 DEF ReadJob, IInv, TypeOK, Drainer
<1> QED
    BY <1>1, <1>2 DEF ReadJob, jobVars, IInv, TypeOK, HasJob, NeverDoubleRun,
       AttemptsCurrent, SentBefore, AtMostOncePerAttempt, DueIsPending, Runs

\* A drainer that goes on with the result of its run.
LEMMA RunOverOK ==
    ASSUME IInv, NEW d \in Drainers, drainer[d].at \in {"handle", "done"},
           NEW at \in {"done", "failed"}, Goes(d, at, drainer[d].job), UNCHANGED jobVars,
           \/ UNCHANGED sent
           \/ /\ drainer[d].at = "handle"
              /\ sent' = [sent EXCEPT ![drainer[d].job] = @ + 1]
    PROVE  IInv'
<1> DEFINE j == drainer[d].job
<1>1. j \in Jobs /\ Runs(d, j)
    BY DEF IInv, HasJob, Runs
<1>2. /\ drainer' \in [Drainers -> Drainer]
      /\ drainer'[d].at = at /\ drainer'[d].job = j
      /\ drainer'[d].attempts = drainer[d].attempts
      /\ \A e \in Drainers : e # d => drainer'[e] = drainer[e]
    BY <1>1, GoesType DEF IInv
<1>3. /\ status[j] = "PROCESSING"
      /\ \A e \in Drainers : e # d => ~ Runs(e, j)
    BY <1>1 DEF IInv, NeverDoubleRun
<1>4. /\ sent' \in [Jobs -> Nat]
      /\ \A i \in Jobs : i # j => sent'[i] = sent[i]
      /\ sent'[j] <= attempts[j] + 1
    BY <1>1 DEF IInv, TypeOK, SentBefore, AtMostOncePerAttempt
<1>5. TypeOK' /\ HasJob' /\ NeverDoubleRun' /\ AttemptsCurrent' /\ DueIsPending'
    BY <1>1, <1>2, <1>3, <1>4 DEF IInv, jobVars, TypeOK, HasJob, NeverDoubleRun,
       AttemptsCurrent, DueIsPending, Runs
<1>6. AtMostOncePerAttempt'
    BY <1>4 DEF IInv, jobVars, AtMostOncePerAttempt
<1>7. SentBefore'
  <2>1. \A i \in Jobs : status'[i] \in {"ABSENT", "PENDING"} => sent'[i] <= attempts'[i]
    BY <1>3, <1>4 DEF IInv, jobVars, SentBefore
  <2>2. ASSUME NEW e \in Drainers, drainer'[e].at \in {"read", "handle"}
        PROVE  sent'[drainer'[e].job] <= attempts'[drainer'[e].job]
    <3>1. e # d /\ drainer'[e] = drainer[e]
        BY <1>2, <2>2
    <3>2. drainer[e].job \in Jobs /\ drainer[e].job # j
        BY <1>3, <2>2, <3>1 DEF IInv, HasJob, Runs
    <3> QED
        BY <1>4, <2>2, <3>1, <3>2 DEF IInv, jobVars, SentBefore
  <2> QED
    BY <2>1, <2>2 DEF SentBefore
<1> QED
    BY <1>5, <1>6, <1>7 DEF IInv

LEMMA handleOK ==
    ASSUME IInv, NEW d \in Drainers, handle(d)
    PROVE  IInv'
<1>1. /\ drainer[d].at = "handle" /\ UNCHANGED jobVars
      /\ \/ Goes(d, "done", drainer[d].job)
         \/ Goes(d, "failed", drainer[d].job)
      /\ \/ UNCHANGED sent
         \/ sent' = [sent EXCEPT ![drainer[d].job] = @ + 1]
    BY DEF handle
<1> QED
    BY <1>1, RunOverOK

LEMMA MarkDoneThrowsOK ==
    ASSUME IInv, NEW d \in Drainers, MarkDoneThrows(d)
    PROVE  IInv'
<1>1. /\ drainer[d].at = "done" /\ UNCHANGED jobVars /\ UNCHANGED sent
      /\ Goes(d, "failed", drainer[d].job)
    BY DEF MarkDoneThrows, jobVars
<1> QED
    BY <1>1, RunOverOK

\* A drainer writes the result of its run; nobody else ran the job.
LEMMA ResultOK ==
    ASSUME IInv, NEW d \in Drainers, drainer[d].at \in {"done", "failed"}, NextRound(d),
           NEW s \in {"DONE", "FAILED", "PENDING"}, NEW n \in Nat,
           status' = [status EXCEPT ![drainer[d].job] = s],
           attempts' = [attempts EXCEPT ![drainer[d].job] = n],
           n >= attempts[drainer[d].job],
           s = "PENDING" => n = attempts[drainer[d].job] + 1,
           UNCHANGED <<due, sent>>
    PROVE  IInv'
<1> DEFINE j == drainer[d].job
<1>1. j \in Jobs /\ Runs(d, j)
    BY DEF IInv, HasJob, Runs
<1>2. /\ drainer' \in [Drainers -> Drainer]
      /\ drainer'[d].at \in {"idle", "find"}
      /\ \A e \in Drainers : e # d => drainer'[e] = drainer[e]
    BY RoundType DEF IInv
<1>3. /\ status[j] = "PROCESSING"
      /\ \A e \in Drainers : e # d => ~ Runs(e, j)
    BY <1>1 DEF IInv, NeverDoubleRun
<1>4. /\ status'[j] = s /\ attempts'[j] = n
      /\ \A i \in Jobs : i # j => status'[i] = status[i] /\ attempts'[i] = attempts[i]
    BY <1>1 DEF IInv, TypeOK
<1>5. TypeOK'
    BY <1>1, <1>2 DEF IInv, TypeOK, JobStatus
<1>6. HasJob' /\ DueIsPending' /\ NeverDoubleRun' /\ AttemptsCurrent'
    BY <1>1, <1>2, <1>3, <1>4 DEF IInv, HasJob, DueIsPending, NeverDoubleRun,
                                  AttemptsCurrent, Runs, TypeOK
<1>7. /\ sent' = sent /\ sent[j] <= attempts[j] + 1
      /\ attempts[j] \in Nat /\ sent[j] \in Nat
    BY <1>1 DEF IInv, AtMostOncePerAttempt, TypeOK
<1>8. AtMostOncePerAttempt'
    BY <1>4, <1>7 DEF IInv, AtMostOncePerAttempt
<1>9. SentBefore'
  <2>1. \A i \in Jobs : status'[i] \in {"ABSENT", "PENDING"} => sent'[i] <= attempts'[i]
    BY <1>4, <1>7 DEF IInv, SentBefore
  <2>2. ASSUME NEW e \in Drainers, drainer'[e].at \in {"read", "handle"}
        PROVE  sent'[drainer'[e].job] <= attempts'[drainer'[e].job]
    <3>1. e # d /\ drainer'[e] = drainer[e]
        BY <1>2, <2>2
    <3>2. drainer[e].job \in Jobs /\ drainer[e].job # j
        BY <1>3, <2>2, <3>1 DEF IInv, HasJob, Runs
    <3> QED
        BY <1>4, <1>7, <2>2, <3>1, <3>2 DEF IInv, SentBefore
  <2> QED
    BY <2>1, <2>2 DEF SentBefore
<1> QED
    BY <1>5, <1>6, <1>8, <1>9 DEF IInv

LEMMA MarkDoneOK ==
    ASSUME IInv, NEW d \in Drainers, MarkDone(d)
    PROVE  IInv'
<1> DEFINE n == attempts[drainer[d].job]
<1>1. drainer[d].job \in Jobs /\ n \in Nat
    BY DEF MarkDone, IInv, HasJob, TypeOK
<1>2. attempts' = [attempts EXCEPT ![drainer[d].job] = n]
    BY <1>1 DEF MarkDone, IInv, TypeOK
<1>3. /\ drainer[d].at = "done" /\ NextRound(d) /\ UNCHANGED <<due, sent>>
      /\ status' = [status EXCEPT ![drainer[d].job] = "DONE"]
    BY DEF MarkDone
<1>4. n >= attempts[drainer[d].job]
    BY <1>1
<1> HIDE DEF n
<1> QED
    BY <1>1, <1>2, <1>3, <1>4, ResultOK

LEMMA MarkFailedOK ==
    ASSUME IInv, NEW d \in Drainers, MarkFailed(d)
    PROVE  IInv'
<1> DEFINE j == drainer[d].job
           n == drainer[d].attempts + 1
           s == IF Exhausted(n) THEN "FAILED" ELSE "PENDING"
<1>1. j \in Jobs /\ attempts[j] \in Nat /\ drainer[d].attempts = attempts[j]
    BY DEF MarkFailed, IInv, HasJob, AttemptsCurrent, TypeOK
<1>2. /\ drainer[d].at = "failed" /\ NextRound(d) /\ UNCHANGED <<due, sent>>
      /\ status' = [status EXCEPT ![j] = s]
      /\ attempts' = [attempts EXCEPT ![j] = n]
    BY DEF MarkFailed
<1>3. /\ s \in {"DONE", "FAILED", "PENDING"} /\ n \in Nat
      /\ n >= attempts[j] /\ n = attempts[j] + 1
    BY <1>1
<1> QED
    BY <1>2, <1>3, ResultOK

LEMMA StepOK == IInv /\ [Next]_vars => IInv'
<1> SUFFICES ASSUME IInv, [Next]_vars PROVE IInv'
    OBVIOUS
<1>1. ASSUME NEW j \in Jobs, enqueue(j) \/ BecomesDue(j) PROVE IInv'
    BY <1>1, enqueueOK, BecomesDueOK
<1>2. ASSUME NEW d \in Drainers, drain(d) PROVE IInv'
    BY <1>2, drainOK
<1>3. ASSUME NEW d \in Drainers, Continue(d) PROVE IInv'
    BY <1>3, FindCandidateOK, ClaimCandidateOK, ReadJobOK, handleOK, MarkDoneOK,
       MarkFailedOK DEF Continue
<1>4. ASSUME NEW d \in Drainers, MarkDoneThrows(d) \/ Crash(d) PROVE IInv'
    BY <1>4, MarkDoneThrowsOK, ReturnOK DEF Crash
<1>5. CASE UNCHANGED vars
    BY <1>5 DEF vars, jobVars, IInv, TypeOK, HasJob, NeverDoubleRun, AttemptsCurrent,
       SentBefore, AtMostOncePerAttempt, DueIsPending, Runs
<1> QED
    BY <1>1, <1>2, <1>3, <1>4, <1>5 DEF Next

LEMMA Invariance == Spec => []IInv
BY InitOK, StepOK, PTL DEF Spec

\* TypeOK of every reachable state.
THEOREM QueueTypes == Spec => []TypeOK
BY Invariance, PTL DEF IInv

\* claimNext's conditional update keeps every two drainers apart.
THEOREM RunsOnce == Spec => []NeverDoubleRun
BY Invariance, PTL DEF IInv

\* An email is accepted at most once per attempt of its job.
THEOREM EmailsOncePerAttempt == Spec => []AtMostOncePerAttempt
BY Invariance, PTL DEF IInv

\* The two together: one drainer runs an attempt, and an attempt sends one email.
THEOREM AttemptsAreSingle == Spec => []OncePerAttempt
BY RunsOnce, EmailsOncePerAttempt, PTL DEF OncePerAttempt
----------------------------------------------------------------------------
(* The refinement: a claim, a run and what it sends are stutters of Delivery; *)
(* the result that is written is its Succeed or its Fail.                     *)

outcomes == [j \in Jobs |-> Outcome(status[j])]

LEMMA InitMaps == Init => Promise!DeliveryInit
BY DEF Init, Promise!DeliveryInit, Outcome

\* What an update of one status does to the outcomes.
LEMMA OutcomeMaps ==
    ASSUME TypeOK, NEW j \in Jobs, NEW s, status' = [status EXCEPT ![j] = s]
    PROVE  outcomes' = [outcomes EXCEPT ![j] = Outcome(s)]
<1>1. outcomes' = [i \in Jobs |-> Outcome(status'[i])]
    BY DEF outcomes
<1>2. status'[j] = s /\ \A i \in Jobs : i # j => status'[i] = status[i]
    BY DEF TypeOK
<1>3. Outcome(status'[j]) = Outcome(s)
    BY <1>2
<1>4. \A i \in Jobs : i # j => Outcome(status'[i]) = Outcome(status[i])
    BY <1>2
<1>5. outcomes = [i \in Jobs |-> Outcome(status[i])]
    BY DEF outcomes
<1> QED
    BY <1>1, <1>3, <1>4, <1>5

LEMMA enqueueMaps ==
    ASSUME IInv, NEW j \in Jobs, enqueue(j)
    PROVE  Promise!Submit(j)
<1>1. outcomes' = [outcomes EXCEPT ![j] = "waiting"]
  <2>1. Outcome("PENDING") = "waiting"
    BY DEF Outcome
  <2>2. status' = [status EXCEPT ![j] = "PENDING"]
    BY DEF enqueue
  <2> QED
    BY <2>1, <2>2, OutcomeMaps DEF IInv
<1>2. outcomes[j] = "absent"
    BY DEF enqueue, outcomes, Outcome
<1> QED
    BY <1>1, <1>2 DEF enqueue, outcomes, Promise!Submit

LEMMA ClaimMaps ==
    ASSUME IInv, NEW d \in Drainers, ClaimCandidate(d)
    PROVE  outcomes' = outcomes /\ UNCHANGED attempts
<1> DEFINE j == drainer[d].job
<1>1. CASE status[j] = "PENDING"
  <2>1. j \in Jobs
    BY DEF ClaimCandidate, IInv, HasJob
  <2>2. status' = [status EXCEPT ![j] = "PROCESSING"]
    BY <1>1 DEF ClaimCandidate
  <2>3. outcomes' = [outcomes EXCEPT ![j] = Outcome("PROCESSING")]
    BY <2>1, <2>2, OutcomeMaps DEF IInv
  <2>4. outcomes[j] = Outcome("PROCESSING")
    BY <1>1, <2>1 DEF outcomes, Outcome
  <2> QED
    BY <2>3, <2>4 DEF outcomes, ClaimCandidate
<1>2. CASE status[j] # "PENDING"
    BY <1>2 DEF ClaimCandidate, outcomes
<1> QED
    BY <1>1, <1>2

\* The job a drainer has a result of is still waiting for it.
LEMMA StillWaiting ==
    ASSUME IInv, NEW d \in Drainers, drainer[d].at \in {"done", "failed"}
    PROVE  /\ drainer[d].job \in Jobs
           /\ outcomes[drainer[d].job] = "waiting"
<1>1. drainer[d].job \in Jobs /\ Runs(d, drainer[d].job)
    BY DEF IInv, HasJob, Runs
<1>2. status[drainer[d].job] = "PROCESSING"
    BY <1>1 DEF IInv, NeverDoubleRun
<1> QED
    BY <1>1, <1>2 DEF outcomes, Outcome

LEMMA MarkDoneMaps ==
    ASSUME IInv, NEW d \in Drainers, MarkDone(d)
    PROVE  \E j \in Jobs : Promise!Succeed(j)
<1> DEFINE j == drainer[d].job
<1>1. j \in Jobs /\ outcomes[j] = "waiting"
    BY StillWaiting DEF MarkDone
<1>2. status' = [status EXCEPT ![j] = "DONE"] /\ UNCHANGED attempts
    BY DEF MarkDone
<1>3. outcomes' = [outcomes EXCEPT ![j] = "done"]
  <2>1. Outcome("DONE") = "done"
    BY DEF Outcome
  <2> QED
    BY <1>1, <1>2, <2>1, OutcomeMaps DEF IInv
<1>4. Promise!Succeed(j)
    BY <1>1, <1>2, <1>3 DEF outcomes, Promise!Succeed
<1> QED
    BY <1>1, <1>4

LEMMA MarkFailedMaps ==
    ASSUME IInv, NEW d \in Drainers, MarkFailed(d)
    PROVE  \E j \in Jobs : Promise!Fail(j)
<1> DEFINE j == drainer[d].job
           n == attempts[j] + 1
<1>1. j \in Jobs /\ outcomes[j] = "waiting" /\ drainer[d].attempts = attempts[j]
    BY StillWaiting DEF MarkFailed, IInv, AttemptsCurrent
<1>2. /\ status' = [status EXCEPT ![j] = IF n >= MaxAttempts THEN "FAILED" ELSE "PENDING"]
      /\ attempts' = [attempts EXCEPT ![j] = n]
    BY <1>1 DEF MarkFailed, Exhausted
<1>3. outcomes' = [outcomes EXCEPT ![j] = IF n >= MaxAttempts THEN "failed" ELSE "waiting"]
  <2>1. Outcome("FAILED") = "failed" /\ Outcome("PENDING") = "waiting"
    BY DEF Outcome
  <2>2. CASE n >= MaxAttempts
    BY <1>1, <1>2, <2>1, <2>2, OutcomeMaps DEF IInv
  <2>3. CASE ~ (n >= MaxAttempts)
    BY <1>1, <1>2, <2>1, <2>3, OutcomeMaps DEF IInv
  <2> QED
    BY <2>2, <2>3
<1>4. Promise!Fail(j)
    BY <1>1, <1>2, <1>3 DEF outcomes, Promise!Fail
<1> QED
    BY <1>1, <1>4

LEMMA StepMaps == IInv /\ [Next]_vars => [Promise!DeliveryNext]_(Promise!deliveryVars)
<1> SUFFICES ASSUME IInv, [Next]_vars
             PROVE  Promise!DeliveryNext \/ (outcomes' = outcomes /\ UNCHANGED attempts)
    BY DEF Promise!deliveryVars, outcomes
<1>1. ASSUME NEW j \in Jobs, enqueue(j) PROVE Promise!DeliveryNext
    BY <1>1, enqueueMaps DEF Promise!DeliveryNext
<1>2. ASSUME NEW d \in Drainers, ClaimCandidate(d)
      PROVE  outcomes' = outcomes /\ UNCHANGED attempts
    BY <1>2, ClaimMaps
<1>3. ASSUME NEW d \in Drainers, MarkDone(d) PROVE Promise!DeliveryNext
    BY <1>3, MarkDoneMaps DEF Promise!DeliveryNext
<1>4. ASSUME NEW d \in Drainers, MarkFailed(d) PROVE Promise!DeliveryNext
    BY <1>4, MarkFailedMaps DEF Promise!DeliveryNext
<1>5. ASSUME NEW j \in Jobs, BecomesDue(j) PROVE outcomes' = outcomes /\ UNCHANGED attempts
    BY <1>5 DEF BecomesDue, outcomes
<1>6. ASSUME NEW d \in Drainers,
             \/ drain(d) \/ FindCandidate(d) \/ ReadJob(d) \/ handle(d)
             \/ MarkDoneThrows(d) \/ Crash(d)
      PROVE  outcomes' = outcomes /\ UNCHANGED attempts
  <2>1. UNCHANGED jobVars
    BY <1>6 DEF drain, FindCandidate, ReadJob, handle, MarkDoneThrows, Crash
  <2> QED
    BY <2>1 DEF jobVars, outcomes
<1>7. CASE UNCHANGED vars
    BY <1>7 DEF vars, jobVars, outcomes
<1> QED
    BY <1>1, <1>2, <1>3, <1>4, <1>5, <1>6, <1>7 DEF Next, Continue

\* The queue implements Delivery: an attempt that is not atomic, is cut off, or
\* overlaps another drain looks like one that is, or like none.
THEOREM Implementation == Spec => ImplementsDelivery
<1>1. Init => Promise!DeliveryInit
    BY InitMaps
<1>2. IInv /\ [Next]_vars => [Promise!DeliveryNext]_(Promise!deliveryVars)
    BY StepMaps
<1> QED
    BY <1>1, <1>2, Invariance, PTL DEF Spec, ImplementsDelivery, Promise!DeliverySpec
=============================================================================
