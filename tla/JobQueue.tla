------------------------------ MODULE JobQueue ------------------------------
(***************************************************************************)
(* The BullMQ queue of in-app notices, with one log row per attempt.       *)
(* Sources: notification/notification.service.ts, the producer and the     *)
(* consumer under notification/queue, and the WebSocket strategy.          *)
(*                                                                         *)
(* The server has one worker for the queue, which takes one job at a time. *)
(* A job whose worker died is put back by BullMQ's check for stalled jobs, *)
(* at most MaxStalls times; that stall costs no attempt.  The delay before *)
(* a retry is not kept: a delayed job is waiting.  A job is named after    *)
(* the request that adds it.                                               *)
(***************************************************************************)
EXTENDS Naturals, Sequences, FiniteSets

CONSTANTS Requests,     \* the requests that add jobs
          MaxAttempts,  \* attempts of a job, 3 in the producer
          MaxStalls     \* BullMQ's maxStalledCount

ASSUME BoundsAssumption == MaxAttempts \in Nat \ {0} /\ MaxStalls \in Nat

VARIABLES job,   \* job[j]: where the job is, its failed attempts, its stalls
          log,   \* log[j]: the statuses of the notification_logs rows of j
          sent   \* sent[j]: how often the socket sent j

queueVars == <<job, log, sent>>

Steps == {"none", "waiting", "create", "send", "mark", "mark_failed", "finish",
          "completed", "failed"}
Fresh == [step |-> "none", attempts |-> 0, stalls |-> 0]

QueueInit ==
  /\ job = [j \in Requests |-> Fresh]
  /\ log = [j \in Requests |-> <<>>]
  /\ sent = [j \in Requests |-> 0]

Active(j) == job[j].step \notin {"none", "waiting", "completed", "failed"}

-----------------------------------------------------------------------------

\* queue.add
Add(j) == job' = [job EXCEPT ![j] = [Fresh EXCEPT !.step = "waiting"]]

Go(j, step) == job' = [job EXCEPT ![j].step = step]

\* Fault: an attempt too many.
AttemptFailedOnceMore(j) ==
  job' = [job EXCEPT ![j] =
            [job[j] EXCEPT !.attempts = job[j].attempts + 1,
                      !.step = IF job[j].attempts < MaxAttempts
                               THEN "waiting" ELSE "failed"]]

\* process rethrows, and BullMQ counts the attempt.
AttemptFailed(j) ==
  job' = [job EXCEPT ![j] =
            [job[j] EXCEPT !.attempts = job[j].attempts + 1,
                      !.step = IF job[j].attempts + 1 < MaxAttempts
                               THEN "waiting" ELSE "failed"]]

\* The worker of the queue is free.
Take(j) ==
  /\ job[j].step = "waiting"
  /\ \A i \in Requests : ~Active(i)
  /\ Go(j, "create")
  /\ UNCHANGED <<log, sent>>

\* Fault: the row is written as if the notice were already sent.
CreateRowOptimistic(j) ==
  /\ job[j].step = "create"
  /\ \/ log' = [log EXCEPT ![j] = Append(@, "SUCCESS")] /\ Go(j, "send")
     \/ AttemptFailed(j) /\ UNCHANGED log
  /\ UNCHANGED sent

CreateRow(j) ==
  /\ job[j].step = "create"
  /\ \/ log' = [log EXCEPT ![j] = Append(@, "PENDING")] /\ Go(j, "send")
     \/ AttemptFailed(j) /\ UNCHANGED log
  /\ UNCHANGED sent

\* strategy.send puts the notice on the socket and cannot fail.
Send(j) ==
  /\ job[j].step = "send"
  /\ sent' = [sent EXCEPT ![j] = @ + 1]
  /\ Go(j, "mark")
  /\ UNCHANGED log

\* The status of the last row.
SetRow(j, status) == log' = [log EXCEPT ![j][Len(log[j])] = status]

Mark(j) ==
  /\ job[j].step = "mark"
  /\ \/ SetRow(j, "SUCCESS") /\ Go(j, "finish")
     \/ Go(j, "mark_failed") /\ UNCHANGED log
  /\ UNCHANGED sent

\* The catch block writes the row once more and throws, whichever error.
MarkFailed(j) ==
  /\ job[j].step = "mark_failed"
  /\ SetRow(j, "FAILED") \/ UNCHANGED log
  /\ AttemptFailed(j)
  /\ UNCHANGED sent

Finish(j) ==
  /\ job[j].step = "finish"
  /\ Go(j, "completed")
  /\ UNCHANGED <<log, sent>>

\* Fault: stalls are not counted.
StallUncounted(j) ==
  /\ Active(j)
  /\ Go(j, "waiting")
  /\ UNCHANGED <<log, sent>>

\* The server died, or the connection to Redis while the job was finishing.
Stall(j) ==
  /\ Active(j)
  /\ job' = [job EXCEPT ![j] =
               [job[j] EXCEPT !.stalls = IF job[j].stalls < MaxStalls
                                           THEN job[j].stalls + 1
                                           ELSE job[j].stalls,
                         !.step = IF job[j].stalls < MaxStalls
                                  THEN "waiting" ELSE "failed"]]
  /\ UNCHANGED <<log, sent>>

Work(j) ==
  Take(j) \/ CreateRow(j) \/ Send(j) \/ Mark(j) \/ MarkFailed(j) \/ Finish(j)

QueueNext == \E j \in Requests : Work(j) \/ Stall(j)

-----------------------------------------------------------------------------
(* Properties *)

QueueTypeOK ==
  /\ job \in [Requests -> [step: Steps, attempts: 0..MaxAttempts, stalls: 0..MaxStalls]]
  /\ log \in [Requests -> Seq({"PENDING", "SUCCESS", "FAILED"})]
  /\ sent \in [Requests -> Nat]

\* No more rows claim success than notices were put on the socket, and a job
\* is completed only after it was sent and with its last row saying so (the
\* rethrow of process: "Crucial for BullMQ to handle retries and backoffs
\* properly").
LogTruthful ==
  \A j \in Requests :
    /\ Cardinality({i \in 1..Len(log[j]) : log[j][i] = "SUCCESS"}) <= sent[j]
    /\ job[j].step = "completed" =>
         sent[j] > 0 /\ log[j] # <<>> /\ log[j][Len(log[j])] = "SUCCESS"

\* A user is told the same thing at most once per attempt and stall.
SendsBounded == \A j \in Requests : sent[j] <= MaxAttempts + MaxStalls
=============================================================================
