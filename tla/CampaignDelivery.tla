--------------------------- MODULE CampaignDelivery ---------------------------
(***************************************************************************)
(* One e-mail campaign from its launch to its verdict: the admin requests  *)
(* (launch, suspend, restart, update, remove), the remote campaigns they   *)
(* create in Brevo, Brevo's delivery webhooks, and the cron job that ends  *)
(* campaigns that are stuck.  Sources: admin/campaign/services/            *)
(* campaign-orchestrator.service.ts, services/campaign-cron.service.ts,    *)
(* controllers/webhook.controller.ts, providers/brevo.provider.ts.         *)
(*                                                                         *)
(* Every handler is cut at its awaits.  None of them catches a failure of  *)
(* its own calls (the cron job only logs it), so a failing call, a failing *)
(* query and a dying server are one action that ends the handler where it  *)
(* stands.  A remote campaign is named after the launch that created it.   *)
(*                                                                         *)
(* Abstracted: the statuses of a delivery log are the three that verdicts  *)
(* tell apart, PENDING, FAILED (with BOUNCED) and REACHED (SENT, DELIVERED, *)
(* OPENED, CLICKED); the seventeen events are classed by the status they   *)
(* map to.  Of the campaign's contents only whether it is scheduled is     *)
(* kept.  Campaigns do not share state, so there is one.                   *)
(***************************************************************************)
EXTENDS FiniteSets, Integers

CONSTANTS Requests,     \* admin requests, each served once
          Kinds,        \* kinds of requests a run admits
          Recipients,   \* e-mail addresses of leads
          Outcomes,     \* classes of events Brevo reports
          MaxCalls,     \* bound on the webhook calls of a behaviour
          Cron,         \* the cron job, as an evaluator
          None,         \* no remote campaign
          Faults        \* whether handlers may break off

ASSUME KindsAssumption == Kinds \subseteq {"launch", "suspend", "restart", "update", "remove"}
ASSUME OutcomesAssumption == Outcomes \subseteq {"PENDING", "REACHED", "FAILED"}
ASSUME FaultsAssumption == Faults \in BOOLEAN
ASSUME MaxCallsAssumption == MaxCalls \in Nat
ASSUME FiniteAssumption == IsFiniteSet(Requests) /\ IsFiniteSet(Recipients)

\* A webhook call: the remote campaign, the recipient and the mapped status.
Events == [remote: Requests, to: Recipients, status: Outcomes]

\* Whoever runs the evaluation of a campaign's status.
Evaluators == Events \cup {Cron}

ASSUME NoneAssumption == None \notin Requests /\ Cron \notin Events

VARIABLES campaign,   \* the row of the campaign and of its emailConfig
          logs,       \* logs[k][m]: the delivery log launch k wrote for m
          remote,     \* remote[k]: status of the campaign launch k created
          pc,         \* pc[r]: the await admin request r has reached
          row,        \* row[r]: the campaign as request r has read it
          step,       \* step[e]: the await evaluator e has reached
          failures,   \* failures[e]: the failed rows e has counted
          allFailed,  \* allFailed[e]: a history variable, see CountFailed
          checked     \* the remote campaign the cron job asks about

adminVars == <<pc, row>>
evaluatorVars == <<step, failures, allFailed, checked>>
vars == <<campaign, logs, remote, adminVars, evaluatorVars>>

Campaign == [status: {"none", "DRAFT", "SCHEDULED", "SUSPENDED", "RUNNING", "COMPLETED",
                      "FAILED", "removed"},
             scheduled: BOOLEAN, provider: Requests \cup {None}]

Init ==
  /\ campaign = [status |-> "none", scheduled |-> FALSE, provider |-> None]
  /\ logs = [k \in Requests |-> [m \in Recipients |-> "none"]]
  /\ remote = [k \in Requests |-> "none"]
  /\ pc = [r \in Requests |-> "new"]
  /\ row = [r \in Requests |-> campaign]
  /\ step = [e \in Evaluators |-> "idle"]
  /\ failures = [e \in Evaluators |-> 0]
  /\ allFailed = [e \in Evaluators |-> FALSE]
  /\ checked = None

Goto(r, label) == pc' = [pc EXCEPT ![r] = label]

\* The rows of the campaign with a status; deleting a campaign deletes them.
Rows(status) ==
  {t \in Requests \X Recipients : campaign.status # "removed" /\ logs[t[1]][t[2]] = status}

AllRows == Rows("PENDING") \cup Rows("REACHED") \cup Rows("FAILED")

\* updateMany.
SetLogs(rows, status) ==
  logs' = [k \in Requests |-> [m \in Recipients |->
             IF <<k, m>> \in rows THEN status ELSE logs[k][m]]]

-----------------------------------------------------------------------------
(* Admin requests *)

\* createCampaign: one insert, with a date or without.
Create ==
  /\ campaign.status = "none"
  /\ \E scheduled \in BOOLEAN :
       campaign' = [status |-> "DRAFT", scheduled |-> scheduled, provider |-> None]
  /\ UNCHANGED <<logs, remote, adminVars, evaluatorVars>>

\* The first query of every handler.  It decides what the handler admits.
Read(r, kind, first, admitted) ==
  /\ kind \in Kinds
  /\ campaign.status # "none" /\ pc[r] = "new"
  /\ row' = [row EXCEPT ![r] = campaign]
  /\ Goto(r, IF campaign.status # "removed" /\ admitted THEN first ELSE "rejected")
  /\ UNCHANGED <<campaign, logs, remote, evaluatorVars>>

\* An update of the row by id, which fails if the row is gone.
UpdateRow(r, changed, next) ==
  /\ IF campaign.status = "removed"
     THEN campaign' = campaign /\ Goto(r, "failed")
     ELSE campaign' = changed /\ Goto(r, next)
  /\ UNCHANGED <<logs, remote, row, evaluatorVars>>

\* finalizeAndLaunch looks at no status.
LaunchRead(r) == Read(r, "launch", "launch_create", TRUE)

\* A campaign created with a date is scheduled by that alone.
LaunchCreate(r) ==
  /\ pc[r] = "launch_create"
  /\ remote' = [remote EXCEPT ![r] = IF row[r].scheduled THEN "queued" ELSE "draft"]
  /\ Goto(r, "launch_save")
  /\ UNCHANGED <<campaign, logs, row, evaluatorVars>>

\* Fault: the id Brevo answered with is not awaited.
LaunchSaveUndefined(r) ==
  /\ pc[r] = "launch_save"
  /\ UpdateRow(r, [campaign EXCEPT !.provider = "undefined"], "launch_send")

LaunchSave(r) ==
  /\ pc[r] = "launch_save"
  /\ UpdateRow(r, [campaign EXCEPT !.provider = r], "launch_send")

\* Fault: a refusal of Brevo is swallowed.
LaunchSendSwallowing(r) ==
  /\ pc[r] = "launch_send"
  /\ \E accepted \in BOOLEAN :
       remote' = IF row[r].scheduled \/ ~accepted THEN remote
                 ELSE [remote EXCEPT ![r] = "sending"]
  /\ Goto(r, "launch_status")
  /\ UNCHANGED <<campaign, logs, row, evaluatorVars>>

\* launchCampaign calls Brevo only if there is no date; Brevo refuses to
\* send a campaign again.
LaunchSend(r) ==
  /\ pc[r] = "launch_send"
  /\ \/ row[r].scheduled /\ remote' = remote /\ Goto(r, "launch_status")
     \/ /\ ~row[r].scheduled
        /\ IF remote[r] \in {"sending", "sent"}
           THEN remote' = remote /\ Goto(r, "failed")
           ELSE remote' = [remote EXCEPT ![r] = "sending"] /\ Goto(r, "launch_status")
  /\ UNCHANGED <<campaign, logs, row, evaluatorVars>>

LaunchStatus(r) ==
  /\ pc[r] = "launch_status"
  /\ UpdateRow(r, [campaign EXCEPT !.status = IF row[r].scheduled THEN "SCHEDULED"
                                              ELSE "RUNNING"],
               "launch_logs")

\* A PENDING row for each lead the group has locally by now.
LaunchLogs(r) ==
  /\ pc[r] = "launch_logs"
  /\ \E leads \in SUBSET Recipients :
       logs' = IF campaign.status = "removed" THEN logs
               ELSE [logs EXCEPT ![r] = [m \in Recipients |->
                       IF m \in leads THEN "PENDING" ELSE "none"]]
  /\ Goto(r, IF campaign.status = "removed" THEN "failed" ELSE "launched")
  /\ UNCHANGED <<campaign, remote, row, evaluatorVars>>

\* changeCampaignStatus, SUSPEND.
SuspendRead(r) ==
  Read(r, "suspend", "suspend_remote",
       campaign.status = "SCHEDULED" /\ campaign.provider # None)

\* Fault: a refusal of Brevo is swallowed.
SuspendRemoteSwallowing(r) ==
  LET k == row[r].provider IN
  /\ pc[r] = "suspend_remote"
  /\ remote' = IF remote[k] = "queued" THEN [remote EXCEPT ![k] = "suspended"] ELSE remote
  /\ Goto(r, "suspend_local")
  /\ UNCHANGED <<campaign, logs, row, evaluatorVars>>

\* Brevo suspends what it has not begun to send; its refusal is thrown.
SuspendRemote(r) ==
  LET k == row[r].provider IN
  /\ pc[r] = "suspend_remote"
  /\ IF remote[k] \in {"queued", "suspended"}
     THEN remote' = [remote EXCEPT ![k] = "suspended"] /\ Goto(r, "suspend_local")
     ELSE remote' = remote /\ Goto(r, "failed")
  /\ UNCHANGED <<campaign, logs, row, evaluatorVars>>

\* The status becomes DRAFT, not SUSPENDED.
SuspendLocal(r) ==
  /\ pc[r] = "suspend_local"
  /\ UpdateRow(r, [campaign EXCEPT !.status = "DRAFT"], "suspended")

\* changeCampaignStatus, RESTART with a date in the future; no action makes a
\* campaign SUSPENDED.
RestartRead(r) ==
  Read(r, "restart", "restart_remote",
       campaign.status \in {"SCHEDULED", "SUSPENDED"} /\ campaign.provider # None)

\* updateMarketingCampaign with a date: Brevo queues what is not sent yet.
Reschedule(k) ==
  /\ remote[k] \notin {"sending", "sent"}
  /\ remote' = [remote EXCEPT ![k] = "queued"]

RestartRemote(r) ==
  LET k == row[r].provider IN
  /\ pc[r] = "restart_remote"
  /\ \/ Reschedule(k) /\ Goto(r, "restart_local")
     \/ remote[k] \in {"sending", "sent"} /\ remote' = remote /\ Goto(r, "failed")
  /\ UNCHANGED <<campaign, logs, row, evaluatorVars>>

RestartLocal(r) ==
  /\ pc[r] = "restart_local"
  /\ UpdateRow(r, [campaign EXCEPT !.status = "SCHEDULED", !.scheduled = TRUE], "done")

\* update: the guard looks at the status once.
UpdateRead(r) ==
  Read(r, "update",
       IF campaign.provider = None THEN "update_local" ELSE "update_remote",
       campaign.status \notin {"RUNNING", "COMPLETED"})

\* updateMarketingCampaign with a date or without, or not called because
\* nothing changes that Brevo knows of.  Brevo refuses to change what it has
\* begun to send.
UpdateRemote(r) ==
  LET k == row[r].provider IN
  /\ pc[r] = "update_remote"
  /\ \/ remote' = remote /\ Goto(r, "update_local")
     \/ remote[k] \in {"sending", "sent"} /\ remote' = remote /\ Goto(r, "failed")
     \/ Reschedule(k) /\ Goto(r, "update_local")
  /\ UNCHANGED <<campaign, logs, row, evaluatorVars>>

\* The payload may leave the date, give one or clear it.
UpdateLocal(r) ==
  /\ pc[r] = "update_local"
  /\ \E scheduled \in BOOLEAN :
       UpdateRow(r, [campaign EXCEPT !.scheduled = scheduled], "done")

RemoveRead(r) == Read(r, "remove", "remove_local", campaign.status # "RUNNING")

RemoveLocal(r) ==
  /\ pc[r] = "remove_local"
  /\ UpdateRow(r, [campaign EXCEPT !.status = "removed"], "done")

Waiting(r) == pc[r] \notin {"new", "launched", "suspended", "done", "rejected", "failed"}

\* A call or a query fails, or the server dies.
BreakOff(r) ==
  /\ Faults
  /\ Waiting(r)
  /\ Goto(r, "failed")
  /\ UNCHANGED <<campaign, logs, remote, row, evaluatorVars>>

Admin(r) ==
  \/ LaunchRead(r)   \/ LaunchCreate(r)  \/ LaunchSave(r)
  \/ LaunchSend(r)   \/ LaunchStatus(r)  \/ LaunchLogs(r)
  \/ SuspendRead(r)  \/ SuspendRemote(r) \/ SuspendLocal(r)
  \/ RestartRead(r)  \/ RestartRemote(r) \/ RestartLocal(r)
  \/ UpdateRead(r)   \/ UpdateRemote(r)  \/ UpdateLocal(r)
  \/ RemoveRead(r)   \/ RemoveLocal(r)

-----------------------------------------------------------------------------
(* Brevo *)

BrevoStarts(k) ==
  /\ remote[k] = "queued"
  /\ remote' = [remote EXCEPT ![k] = "sending"]
  /\ UNCHANGED <<campaign, logs, adminVars, evaluatorVars>>

BrevoFinishes(k) ==
  /\ remote[k] = "sending"
  /\ remote' = [remote EXCEPT ![k] = "sent"]
  /\ UNCHANGED <<campaign, logs, adminVars, evaluatorVars>>

-----------------------------------------------------------------------------
(* Webhooks and the cron job *)

Step(e, label) == step' = [step EXCEPT ![e] = label]

\* Events of one recipient may arrive in any order.  The configuration is
\* looked up by the remote campaign it holds now.
WebhookFind(e) ==
  /\ e \in Events /\ step[e] = "idle"
  /\ Cardinality({f \in Events : step[f] # "idle"}) < MaxCalls
  /\ remote[e.remote] \in {"sending", "sent"}
  /\ Step(e, IF campaign.provider = e.remote /\ campaign.status # "removed"
             THEN "update" ELSE "over")
  /\ UNCHANGED <<campaign, logs, remote, adminVars, failures, allFailed, checked>>

\* updateMany: every row of the recipient, whatever its status is.
WebhookUpdate(e) ==
  /\ step[e] = "update"
  /\ SetLogs({t \in AllRows : t[2] = e.to}, e.status)
  /\ Step(e, "count_pending")
  /\ UNCHANGED <<campaign, remote, adminVars, failures, allFailed, checked>>

WebhookCountPending(e) ==
  /\ step[e] = "count_pending"
  /\ Step(e, IF Rows("PENDING") = {} THEN "count_failed" ELSE "over")
  /\ UNCHANGED <<campaign, logs, remote, adminVars, failures, allFailed, checked>>

\* Fault: the job looks at scheduled campaigns too.
CronFindScheduledToo ==
  /\ step[Cron] = "idle"
  /\ campaign.status \in {"RUNNING", "SCHEDULED"} /\ campaign.provider # None
  /\ checked' = campaign.provider
  /\ Step(Cron, "report")
  /\ UNCHANGED <<campaign, logs, remote, adminVars, failures, allFailed>>

\* The job picks up the campaign if it is RUNNING.
CronFind ==
  /\ step[Cron] = "idle"
  /\ campaign.status = "RUNNING" /\ campaign.provider # None
  /\ checked' = campaign.provider
  /\ Step(Cron, "report")
  /\ UNCHANGED <<campaign, logs, remote, adminVars, failures, allFailed>>

CronReport ==
  /\ step[Cron] = "report"
  /\ Step(Cron, IF remote[checked] \in {"sent", "suspended"} THEN "fail_pending" ELSE "idle")
  /\ UNCHANGED <<campaign, logs, remote, adminVars, failures, allFailed, checked>>

\* count and updateMany: the update changes nothing if the count is zero.
CronFailPending ==
  /\ step[Cron] = "fail_pending"
  /\ SetLogs(Rows("PENDING"), "FAILED")
  /\ Step(Cron, "count_failed")
  /\ UNCHANGED <<campaign, remote, adminVars, failures, allFailed, checked>>

\* The history variable notes whether at this moment every row is a failure.
CountFailed(e) ==
  /\ step[e] = "count_failed"
  /\ failures' = [failures EXCEPT ![e] = Cardinality(Rows("FAILED"))]
  /\ allFailed' = [allFailed EXCEPT ![e] = AllRows = Rows("FAILED")]
  /\ Step(e, "count_total")
  /\ UNCHANGED <<campaign, logs, remote, adminVars, checked>>

\* Fault: one failure is enough.
CountTotalAnyFailure(e) ==
  /\ step[e] = "count_total"
  /\ Step(e, IF failures[e] > 0 THEN "FAILED" ELSE "COMPLETED")
  /\ UNCHANGED <<campaign, logs, remote, adminVars, failures, allFailed, checked>>

CountTotal(e) ==
  LET total == Cardinality(AllRows) IN
  /\ step[e] = "count_total"
  /\ Step(e, IF failures[e] = total /\ total > 0 THEN "FAILED" ELSE "COMPLETED")
  /\ failures' = [failures EXCEPT ![e] = 0]
  /\ UNCHANGED <<campaign, logs, remote, adminVars, allFailed, checked>>

\* The job comes back, a webhook call does not.
Verdict(e) ==
  /\ step[e] \in {"COMPLETED", "FAILED"}
  /\ campaign' = IF campaign.status = "removed" THEN campaign
                 ELSE [campaign EXCEPT !.status = step[e]]
  /\ Step(e, IF e = Cron THEN "idle" ELSE "over")
  /\ allFailed' = [allFailed EXCEPT ![e] = FALSE]
  /\ UNCHANGED <<logs, remote, adminVars, failures, checked>>

\* A query fails or the server dies; Brevo does not repeat the call, the
\* job starts again at its next round.
EvaluatorBreaksOff(e) ==
  /\ Faults
  /\ step[e] \notin {"idle", "over"}
  /\ Step(e, IF e = Cron THEN "idle" ELSE "over")
  /\ failures' = [failures EXCEPT ![e] = 0]
  /\ allFailed' = [allFailed EXCEPT ![e] = FALSE]
  /\ UNCHANGED <<campaign, logs, remote, adminVars, checked>>

CronJob ==
  \/ CronFind \/ CronReport \/ CronFailPending
  \/ CountFailed(Cron) \/ CountTotal(Cron) \/ Verdict(Cron)

Webhook(e) ==
  \/ WebhookFind(e) \/ WebhookUpdate(e) \/ WebhookCountPending(e)
  \/ CountFailed(e) \/ CountTotal(e) \/ Verdict(e)

-----------------------------------------------------------------------------

Next ==
  \/ Create
  \/ \E r \in Requests :
       Admin(r) \/ BreakOff(r) \/ BrevoStarts(r) \/ BrevoFinishes(r)
  \/ \E e \in Events : Webhook(e)
  \/ CronJob
  \/ \E e \in Evaluators : EvaluatorBreaksOff(e)

\* Brevo starts what it has queued when its date has come, and sends what it
\* has started; requests once received are served; the job runs every five
\* minutes, and each of its calls succeeds in one of infinitely many rounds.
\* Nothing is promised of webhooks.
Fairness ==
  /\ \A k \in Requests : WF_vars(BrevoStarts(k)) /\ WF_vars(BrevoFinishes(k))
  /\ \A r \in Requests : WF_vars(Waiting(r) /\ Admin(r))
  /\ WF_vars(CronFind) /\ SF_vars(CronReport) /\ SF_vars(CronFailPending)
  /\ SF_vars(CountFailed(Cron)) /\ SF_vars(CountTotal(Cron)) /\ SF_vars(Verdict(Cron))

Spec == Init /\ [][Next]_vars /\ Fairness

-----------------------------------------------------------------------------
(* Properties *)

\* The type of every variable.
TypeOK ==
  /\ campaign \in Campaign
  /\ logs \in [Requests -> [Recipients -> {"none", "PENDING", "REACHED", "FAILED"}]]
  /\ remote \in [Requests -> {"none", "draft", "queued", "suspended", "sending", "sent"}]
  /\ pc \in [Requests -> {"new", "launched", "suspended", "done", "rejected", "failed", "launch_create",
       "launch_save", "launch_send", "launch_status", "launch_logs", "suspend_remote",
       "suspend_local", "restart_remote", "restart_local", "update_remote",
       "update_local", "remove_local"}]
  /\ row \in [Requests -> Campaign]
  /\ step \in [Evaluators -> {"idle", "over", "report", "update", "count_pending",
       "fail_pending", "count_failed", "count_total", "COMPLETED", "FAILED"}]
  /\ failures \in [Evaluators -> Nat]
  /\ allFailed \in [Evaluators -> BOOLEAN]
  /\ checked \in Requests \cup {None}

\* No campaign gets a verdict before Brevo has begun to send one of its
\* remote campaigns (handleStuckCampaigns, evaluateCampaignStatus).
VerdictNeedsSend ==
  campaign.status \in {"COMPLETED", "FAILED"} =>
    \E k \in Requests : remote[k] \in {"sending", "sent"}

\* A campaign is called FAILED only if there was a moment at which every
\* delivery log it had was a failure, although the failures and the total
\* are counted by two queries with events and a launch in between.
FailedVerdictJustified ==
  \A e \in Evaluators : step[e] = "FAILED" => allFailed[e]

\* Once a suspension has succeeded, Brevo does not send that campaign behind
\* the admin's back, whatever it was about to do when it was called, and
\* though the campaign may be launched again; only an update or a restart
\* takes it up (changeCampaignStatus).
SuspendedIsSilent ==
  (\A r \in Requests : pc[r] \in {"new", "rejected", "launched", "suspended"})
    => \A r \in Requests : pc[r] = "suspended" => remote[row[r].provider] = "suspended"

\* The campaign has the id of a remote campaign whose launch broke off
\* before it sent it: nobody will send it, and the cron job asks about it.
StrandedLaunch ==
  LET k == campaign.provider IN
  k # None /\ pc[k] = "failed" /\ remote[k] = "draft"

\* No campaign stays RUNNING for ever, even if no webhook call ever arrives:
\* the cron job gives it its verdict if no late request changes its status
\* first, and though it may be launched again meanwhile (finalizeAndLaunch
\* has no guard).  The exception is a launch that saved its id over the one
\* that was sent and broke off before its own send (handleStuckCampaigns).
RunningEnds ==
  campaign.status = "RUNNING" ~> campaign.status # "RUNNING" \/ StrandedLaunch

(* What a message says and the code refutes *)

\* "Status change action is only allowed for campaigns that are currently
\* SCHEDULED or SUSPENDED": a suspended campaign can be restarted.
SuspendedCanRestart ==
  [][\A r \in Requests :
       RestartRead(r) /\ campaign.provider # None /\ remote[campaign.provider] = "suspended"
         => pc'[r] = "restart_remote"]_vars

(* The abstract specification *)

\* Brevo may still be asked to change or to suspend what is held.
MailOf(k) ==
  CASE remote[k] = "none" -> "none"
    [] remote[k] \in {"draft", "queued", "suspended"} -> "held"
    [] remote[k] = "sending" -> "going"
    [] remote[k] = "sent" -> "done"

Mails ==
  INSTANCE Mailing WITH Launches <- Requests, mail <- [k \in Requests |-> MailOf(k)],
    entered <- AllRows, judged <- (campaign.status \in {"COMPLETED", "FAILED"}),
    removed <- (campaign.status = "removed")

\* Whatever restarts, updates, suspensions and events do to a campaign, its
\* launches send one mail each, only forward and once, enter their recipients
\* at one moment, and no entry is lost before the campaign is removed.
ImplementsMailing == Mails!Spec
=============================================================================
