------------------------ MODULE CampaignDeliveryProofs ------------------------
(***************************************************************************)
(* CampaignDelivery, for any number of requests, recipients, events and    *)
(* webhook calls.                                                          *)
(*                                                                         *)
(* None of the properties is inductive.  Remotes says which launch stands  *)
(* behind a remote campaign, Begun how a running campaign got to be one,   *)
(* Counted what the first of the two counts of a verdict is still worth at *)
(* the second, and Calm what a suspension may rely on as long as nobody    *)
(* has changed the date of the campaign.                                   *)
(***************************************************************************)
EXTENDS CampaignDelivery, FiniteSetTheorems, TLAPS

USE DEF adminVars, evaluatorVars

Sent == {"sending", "sent"}

\* The launch has created its remote campaign, but not its delivery logs.
Launching == {"launch_save", "launch_send", "launch_status", "launch_logs"}

\* Awaits that follow on a remote campaign.
Addressed == {"suspend_remote", "suspend_local", "suspended", "restart_remote",
              "update_remote"}

\* Nobody asks for a campaign before it is there.  A remote campaign is there
\* as soon as its launch has gone on, and every id that is kept is that of one.
Remotes ==
  /\ campaign.status = "none" => \A r \in Requests : pc[r] = "new"
  /\ \A r \in Requests : pc[r] \in {"new", "launch_create"} => remote[r] = "none"
  /\ \A r \in Requests : pc[r] \in Launching => remote[r] # "none"
  /\ campaign.provider # None => remote[campaign.provider] # "none"
  /\ \A r \in Requests : row[r].provider # None => remote[row[r].provider] # "none"
  /\ \A r \in Requests : pc[r] \in Addressed => row[r].provider # None

\* A launch writes its delivery logs once.
Unlogged ==
  \A r \in Requests : pc[r] \in {"new", "launch_create"} \cup Launching =>
    \A m \in Recipients : logs[r][m] = "none"

AnySent == \E k \in Requests : remote[k] \in Sent

\* Nobody evaluates, and no campaign is running, before Brevo sends.
Begun ==
  /\ campaign.status \in {"RUNNING", "COMPLETED", "FAILED"} => AnySent
  /\ \A r \in Requests :
       pc[r] = "launch_status" /\ ~row[r].scheduled => remote[r] \in Sent
  /\ \A e \in Evaluators : step[e] \notin {"idle", "over"} => AnySent

\* Whoever has counted fewer failures than rows sees fewer than rows.
Counted ==
  /\ \A e \in Evaluators :
       step[e] = "count_total" /\ ~allFailed[e] /\ campaign.status # "removed" =>
         failures[e] < Cardinality(AllRows)
  /\ FailedVerdictJustified

\* A request that may have changed the date has gone through, or has tried.
Undisturbed ==
  \A r \in Requests : pc[r] \notin {"update_local", "restart_local", "done", "failed"}

\* Until then what is scheduled has been so from the start, and is not sent
\* by a launch.
Calm ==
  Undisturbed =>
    /\ \A r \in Requests : pc[r] # "new" => row[r].scheduled = campaign.scheduled
    /\ campaign.status = "SCHEDULED" => campaign.scheduled
    /\ \A r \in Requests :
         /\ pc[r] = "suspend_remote" => campaign.scheduled
         /\ pc[r] \in {"suspend_local", "suspended"} =>
              campaign.scheduled /\ remote[row[r].provider] = "suspended"

IInv == TypeOK /\ Remotes /\ Unlogged /\ Begun /\ Counted /\ Calm
-----------------------------------------------------------------------------

(* Helpers *)

LEMMA EvaluatorKinds == Events \subseteq Evaluators /\ Cron \in Evaluators
  BY DEF Evaluators

\* The rows of a campaign are finitely many.
LEMMA RowsFinite ==
  /\ IsFiniteSet(AllRows)
  /\ \A status : IsFiniteSet(Rows(status)) /\ Cardinality(Rows(status)) \in Nat
<1>1. IsFiniteSet(Requests \X Recipients)
  BY FiniteAssumption, FS_Product
<1>2. AllRows \subseteq Requests \X Recipients
  BY DEF AllRows, Rows
<1>3. ASSUME NEW status PROVE IsFiniteSet(Rows(status)) /\ Cardinality(Rows(status)) \in Nat
  <2>1. Rows(status) \subseteq Requests \X Recipients
    BY DEF Rows
  <2>2. IsFiniteSet(Rows(status))
    BY <1>1, <2>1, FS_Subset
  <2> QED
    BY <2>2, FS_CardinalityType
<1>4. IsFiniteSet(AllRows)
  BY <1>1, <1>2, FS_Subset
<1> QED
  BY <1>3, <1>4

\* What updateMany leaves of the logs.
LEMMA SetLogsTyped ==
  ASSUME TypeOK, NEW status \in {"PENDING", "REACHED", "FAILED"},
         NEW rows \in SUBSET AllRows, SetLogs(rows, status)
  PROVE  /\ logs' \in [Requests -> [Recipients -> {"none", "PENDING", "REACHED", "FAILED"}]]
         /\ \A k \in Requests, m \in Recipients : logs'[k][m] = "none" <=> logs[k][m] = "none"
<1>1. \A k \in Requests, m \in Recipients : <<k, m>> \in AllRows => logs[k][m] # "none"
  BY DEF AllRows, Rows
<1> QED
  BY <1>1 DEF SetLogs, TypeOK

-----------------------------------------------------------------------------
(* Types *)

\* A write of the campaign's row, too, keeps the types.
LEMMA UpdateRowTyped ==
  ASSUME TypeOK, NEW r \in Requests, NEW changed \in Campaign,
         NEW next \in {"launch_send", "launch_logs", "suspended", "done"},
         UpdateRow(r, changed, next)
  PROVE  TypeOK'
<1>1. campaign' \in Campaign
  BY DEF UpdateRow, TypeOK
<1>2. pc' = [pc EXCEPT ![r] = "failed"] \/ pc' = [pc EXCEPT ![r] = next]
  BY DEF UpdateRow, Goto
<1>3. UNCHANGED <<logs, remote, row, step, failures, allFailed, checked>>
  BY DEF UpdateRow, evaluatorVars
<1> QED
  BY <1>1, <1>2, <1>3 DEF TypeOK

LEMMA TypeStep ==
  ASSUME TypeOK, Remotes, [Next]_vars
  PROVE  TypeOK'
<1> USE NoneAssumption, EvaluatorKinds DEF TypeOK, Campaign, Goto, Remotes, Addressed
<1>1. CASE Create
  BY <1>1 DEF Create
<1>2. ASSUME NEW r \in Requests, LaunchRead(r) PROVE TypeOK'
  BY <1>2 DEF LaunchRead, Read
<1>3. ASSUME NEW r \in Requests, LaunchCreate(r) PROVE TypeOK'
  BY <1>3 DEF LaunchCreate
<1>4. ASSUME NEW r \in Requests, LaunchSave(r) PROVE TypeOK'
  <2> DEFINE changed == [campaign EXCEPT !.provider = r]
  <2>1. changed \in Campaign
    OBVIOUS
  <2>2. UpdateRow(r, changed, "launch_send")
    BY <1>4 DEF LaunchSave
  <2> HIDE DEF changed
  <2> QED
    BY <2>1, <2>2, UpdateRowTyped
<1>5. ASSUME NEW r \in Requests, LaunchSend(r) PROVE TypeOK'
  <2>1. remote' = remote \/ remote' = [remote EXCEPT ![r] = "sending"]
    BY <1>5, Zenon DEF LaunchSend
  <2>2. pc' = [pc EXCEPT ![r] = "launch_status"] \/ pc' = [pc EXCEPT ![r] = "failed"]
    BY <1>5, Zenon DEF LaunchSend
  <2>3. UNCHANGED <<campaign, logs, row, evaluatorVars>>
    BY <1>5, Zenon DEF LaunchSend
  <2>4. remote' \in [Requests -> {"none", "draft", "queued", "suspended", "sending", "sent"}]
    BY <2>1
  <2> QED
    BY <2>2, <2>3, <2>4 DEF evaluatorVars
<1>6. ASSUME NEW r \in Requests, LaunchStatus(r) PROVE TypeOK'
  <2> DEFINE changed == [campaign EXCEPT !.status = IF row[r].scheduled THEN "SCHEDULED"
                                                          ELSE "RUNNING"]
  <2>1. changed \in Campaign
    OBVIOUS
  <2>2. UpdateRow(r, changed, "launch_logs")
    BY <1>6 DEF LaunchStatus
  <2> HIDE DEF changed
  <2> QED
    BY <2>1, <2>2, UpdateRowTyped
<1>7. ASSUME NEW r \in Requests, LaunchLogs(r) PROVE TypeOK'
  BY <1>7 DEF LaunchLogs
<1>8. ASSUME NEW r \in Requests, SuspendRead(r) PROVE TypeOK'
  BY <1>8 DEF SuspendRead, Read
<1>9. ASSUME NEW r \in Requests, SuspendRemote(r) PROVE TypeOK'
  BY <1>9 DEF SuspendRemote
<1>10. ASSUME NEW r \in Requests, SuspendLocal(r) PROVE TypeOK'
  <2> DEFINE changed == [campaign EXCEPT !.status = "DRAFT"]
  <2>1. changed \in Campaign
    OBVIOUS
  <2>2. UpdateRow(r, changed, "suspended")
    BY <1>10 DEF SuspendLocal
  <2> HIDE DEF changed
  <2> QED
    BY <2>1, <2>2, UpdateRowTyped
<1>11. ASSUME NEW r \in Requests, RestartRead(r) PROVE TypeOK'
  BY <1>11 DEF RestartRead, Read
<1>12. ASSUME NEW r \in Requests, RestartRemote(r) PROVE TypeOK'
  BY <1>12 DEF RestartRemote, Reschedule
<1>13. ASSUME NEW r \in Requests, RestartLocal(r) PROVE TypeOK'
  <2> DEFINE changed == [campaign EXCEPT !.status = "SCHEDULED", !.scheduled = TRUE]
  <2>1. changed \in Campaign
    OBVIOUS
  <2>2. UpdateRow(r, changed, "done")
    BY <1>13 DEF RestartLocal
  <2> HIDE DEF changed
  <2> QED
    BY <2>1, <2>2, UpdateRowTyped
<1>14. ASSUME NEW r \in Requests, UpdateRead(r) PROVE TypeOK'
  BY <1>14 DEF UpdateRead, Read
<1>15. ASSUME NEW r \in Requests, UpdateRemote(r) PROVE TypeOK'
  BY <1>15 DEF UpdateRemote, Reschedule
<1>16. ASSUME NEW r \in Requests, UpdateLocal(r) PROVE TypeOK'
  <2>1. PICK scheduled \in BOOLEAN :
          UpdateRow(r, [campaign EXCEPT !.scheduled = scheduled], "done")
    BY <1>16 DEF UpdateLocal
  <2>2. [campaign EXCEPT !.scheduled = scheduled] \in Campaign
    OBVIOUS
  <2> QED
    BY <2>1, <2>2, UpdateRowTyped
<1>17. ASSUME NEW r \in Requests, RemoveRead(r) PROVE TypeOK'
  BY <1>17 DEF RemoveRead, Read
<1>18. ASSUME NEW r \in Requests, RemoveLocal(r) PROVE TypeOK'
  <2> DEFINE changed == [campaign EXCEPT !.status = "removed"]
  <2>1. changed \in Campaign
    OBVIOUS
  <2>2. UpdateRow(r, changed, "done")
    BY <1>18 DEF RemoveLocal
  <2> HIDE DEF changed
  <2> QED
    BY <2>1, <2>2, UpdateRowTyped
<1>19. ASSUME NEW r \in Requests, BreakOff(r) PROVE TypeOK'
  BY <1>19 DEF BreakOff, Waiting
<1>20. ASSUME NEW r \in Requests, BrevoStarts(r) PROVE TypeOK'
  BY <1>20 DEF BrevoStarts
<1>21. ASSUME NEW r \in Requests, BrevoFinishes(r) PROVE TypeOK'
  BY <1>21 DEF BrevoFinishes
<1>22. ASSUME NEW e \in Events, WebhookFind(e) PROVE TypeOK'
  BY <1>22 DEF WebhookFind, Step
<1>23. ASSUME NEW e \in Events, WebhookUpdate(e) PROVE TypeOK'
  <2>1. e.status \in {"PENDING", "REACHED", "FAILED"}
    BY OutcomesAssumption DEF Events
  <2>2. SetLogs({t \in AllRows : t[2] = e.to}, e.status)
    BY <1>23 DEF WebhookUpdate
  <2>3. logs' \in [Requests -> [Recipients -> {"none", "PENDING", "REACHED", "FAILED"}]]
    BY <2>1, <2>2, SetLogsTyped
  <2> QED
    BY <1>23, <2>3 DEF WebhookUpdate, Step
<1>24. ASSUME NEW e \in Events, WebhookCountPending(e) PROVE TypeOK'
  BY <1>24 DEF WebhookCountPending, Step
<1>25. CASE CronFind
  BY <1>25 DEF CronFind, Step
<1>26. CASE CronReport
  BY <1>26 DEF CronReport, Step
<1>27. CASE CronFailPending
  <2>1. SetLogs(Rows("PENDING"), "FAILED") /\ Rows("PENDING") \subseteq AllRows
    BY <1>27 DEF CronFailPending, AllRows
  <2>2. logs' \in [Requests -> [Recipients -> {"none", "PENDING", "REACHED", "FAILED"}]]
    BY <2>1, SetLogsTyped
  <2> QED
    BY <1>27, <2>2 DEF CronFailPending, Step
<1>28. ASSUME NEW e \in Evaluators, CountFailed(e) PROVE TypeOK'
  <2>1. Cardinality(Rows("FAILED")) \in Nat
    BY RowsFinite
  <2> QED
    BY <1>28, <2>1 DEF CountFailed, Step
<1>29. ASSUME NEW e \in Evaluators, CountTotal(e) PROVE TypeOK'
  BY <1>29 DEF CountTotal, Step
<1>30. ASSUME NEW e \in Evaluators, Verdict(e) PROVE TypeOK'
  BY <1>30 DEF Verdict, Step
<1>31. ASSUME NEW e \in Evaluators, EvaluatorBreaksOff(e) PROVE TypeOK'
  BY <1>31 DEF EvaluatorBreaksOff, Step
<1>32. CASE UNCHANGED vars
  BY <1>32 DEF vars
<1> QED
  BY <1>1, <1>2, <1>3, <1>4, <1>5, <1>6, <1>7, <1>8, <1>9, <1>10, <1>11,
     <1>12, <1>13, <1>14, <1>15, <1>16, <1>17, <1>18, <1>19, <1>20, <1>21,
     <1>22, <1>23, <1>24, <1>25, <1>26, <1>27, <1>28, <1>29, <1>30, <1>31,
     <1>32 DEF Next, Admin, Webhook, CronJob, Evaluators

-----------------------------------------------------------------------------
(* Remote campaigns *)

LEMMA RemotesStep ==
  ASSUME TypeOK, Remotes, [Next]_vars
  PROVE  Remotes'
<1> USE NoneAssumption DEF TypeOK, Campaign, Goto, Remotes, Addressed, Launching
<1>1. CASE Create
  BY <1>1 DEF Create
<1>2. ASSUME NEW r \in Requests, LaunchRead(r) PROVE Remotes'
  BY <1>2 DEF LaunchRead, Read
<1>3. ASSUME NEW r \in Requests, LaunchCreate(r) PROVE Remotes'
  BY <1>3 DEF LaunchCreate
<1>4. ASSUME NEW r \in Requests, LaunchSave(r) PROVE Remotes'
  BY <1>4 DEF LaunchSave, UpdateRow
<1>5. ASSUME NEW r \in Requests, LaunchSend(r) PROVE Remotes'
  <2>1. \A k \in Requests : remote'[k] = "none" <=> remote[k] = "none"
    BY <1>5 DEF LaunchSend
  <2>2. /\ \E l \in {"launch_status", "failed"} : pc' = [pc EXCEPT ![r] = l]
        /\ pc[r] = "launch_send" /\ UNCHANGED <<campaign, row>>
    BY <1>5 DEF LaunchSend
  <2> QED
    BY <2>1, <2>2
<1>6. ASSUME NEW r \in Requests, LaunchStatus(r) PROVE Remotes'
  <2>1. /\ campaign'.provider = campaign.provider /\ campaign'.status # "none"
        /\ UNCHANGED <<remote, row>>
        /\ pc[r] = "launch_status"
        /\ \E l \in {"launch_logs", "failed"} : pc' = [pc EXCEPT ![r] = l]
    BY <1>6 DEF LaunchStatus, UpdateRow
  <2> QED
    BY <2>1
<1>7. ASSUME NEW r \in Requests, LaunchLogs(r) PROVE Remotes'
  BY <1>7 DEF LaunchLogs
<1>8. ASSUME NEW r \in Requests, SuspendRead(r) PROVE Remotes'
  BY <1>8 DEF SuspendRead, Read
<1>9. ASSUME NEW r \in Requests, SuspendRemote(r) PROVE Remotes'
  <2>1. \A k \in Requests : remote'[k] = "none" <=> remote[k] = "none"
    BY <1>9 DEF SuspendRemote
  <2>2. /\ \E l \in {"suspend_local", "failed"} : pc' = [pc EXCEPT ![r] = l]
        /\ pc[r] \in Addressed /\ UNCHANGED <<campaign, row>>
    BY <1>9 DEF SuspendRemote
  <2> QED
    BY <2>1, <2>2
<1>10. ASSUME NEW r \in Requests, SuspendLocal(r) PROVE Remotes'
  BY <1>10 DEF SuspendLocal, UpdateRow
<1>11. ASSUME NEW r \in Requests, RestartRead(r) PROVE Remotes'
  BY <1>11 DEF RestartRead, Read
<1>12. ASSUME NEW r \in Requests, RestartRemote(r) PROVE Remotes'
  <2>1. \A k \in Requests : remote'[k] = "none" <=> remote[k] = "none"
    BY <1>12 DEF RestartRemote, Reschedule
  <2>2. /\ \E l \in {"restart_local", "failed"} : pc' = [pc EXCEPT ![r] = l]
        /\ pc[r] \in Addressed /\ UNCHANGED <<campaign, row>>
    BY <1>12 DEF RestartRemote, Reschedule
  <2> QED
    BY <2>1, <2>2
<1>13. ASSUME NEW r \in Requests, RestartLocal(r) PROVE Remotes'
  <2>1. /\ campaign'.provider = campaign.provider /\ campaign'.status # "none"
        /\ UNCHANGED <<remote, row>>
        /\ pc[r] = "restart_local"
        /\ \E l \in {"done", "failed"} : pc' = [pc EXCEPT ![r] = l]
    BY <1>13 DEF RestartLocal, UpdateRow
  <2> QED
    BY <2>1
<1>14. ASSUME NEW r \in Requests, UpdateRead(r) PROVE Remotes'
  BY <1>14 DEF UpdateRead, Read
<1>15. ASSUME NEW r \in Requests, UpdateRemote(r) PROVE Remotes'
  <2>1. \A k \in Requests : remote'[k] = "none" <=> remote[k] = "none"
    BY <1>15 DEF UpdateRemote, Reschedule
  <2>2. /\ \E l \in {"update_local", "failed"} : pc' = [pc EXCEPT ![r] = l]
        /\ pc[r] \in Addressed /\ UNCHANGED <<campaign, row>>
    BY <1>15 DEF UpdateRemote, Reschedule
  <2> QED
    BY <2>1, <2>2
<1>16. ASSUME NEW r \in Requests, UpdateLocal(r) PROVE Remotes'
  BY <1>16 DEF UpdateLocal, UpdateRow
<1>17. ASSUME NEW r \in Requests, RemoveRead(r) PROVE Remotes'
  BY <1>17 DEF RemoveRead, Read
<1>18. ASSUME NEW r \in Requests, RemoveLocal(r) PROVE Remotes'
  BY <1>18 DEF RemoveLocal, UpdateRow
<1>19. ASSUME NEW r \in Requests, BreakOff(r) PROVE Remotes'
  BY <1>19 DEF BreakOff, Waiting
<1>20. ASSUME NEW r \in Requests, BrevoStarts(r) PROVE Remotes'
  BY <1>20 DEF BrevoStarts
<1>21. ASSUME NEW r \in Requests, BrevoFinishes(r) PROVE Remotes'
  BY <1>21 DEF BrevoFinishes
<1>22. ASSUME NEW e \in Events, WebhookFind(e) PROVE Remotes'
  BY <1>22 DEF WebhookFind, Step
<1>23. ASSUME NEW e \in Events, WebhookUpdate(e) PROVE Remotes'
  BY <1>23 DEF WebhookUpdate, SetLogs, Step
<1>24. ASSUME NEW e \in Events, WebhookCountPending(e) PROVE Remotes'
  BY <1>24 DEF WebhookCountPending, Step
<1>25. CASE CronFind
  BY <1>25 DEF CronFind, Step
<1>26. CASE CronReport
  BY <1>26 DEF CronReport, Step
<1>27. CASE CronFailPending
  BY <1>27 DEF CronFailPending, SetLogs, Step
<1>28. ASSUME NEW e \in Evaluators, CountFailed(e) PROVE Remotes'
  BY <1>28 DEF CountFailed, Step
<1>29. ASSUME NEW e \in Evaluators, CountTotal(e) PROVE Remotes'
  BY <1>29 DEF CountTotal, Step
<1>30. ASSUME NEW e \in Evaluators, Verdict(e) PROVE Remotes'
  BY <1>30 DEF Verdict, Step
<1>31. ASSUME NEW e \in Evaluators, EvaluatorBreaksOff(e) PROVE Remotes'
  BY <1>31 DEF EvaluatorBreaksOff, Step
<1>32. CASE UNCHANGED vars
  BY <1>32 DEF vars
<1> QED
  BY <1>1, <1>2, <1>3, <1>4, <1>5, <1>6, <1>7, <1>8, <1>9, <1>10, <1>11,
     <1>12, <1>13, <1>14, <1>15, <1>16, <1>17, <1>18, <1>19, <1>20, <1>21,
     <1>22, <1>23, <1>24, <1>25, <1>26, <1>27, <1>28, <1>29, <1>30, <1>31,
     <1>32 DEF Next, Admin, Webhook, CronJob, Evaluators

\* What has been sent stays sent.
LEMMA SentStep ==
  ASSUME TypeOK, Remotes, [Next]_vars, NEW k \in Requests, remote[k] \in Sent
  PROVE  remote'[k] \in Sent
<1> USE NoneAssumption DEF TypeOK, Campaign, Remotes, Addressed, Sent
<1>1. CASE Create
  BY <1>1 DEF Create
<1>2. ASSUME NEW r \in Requests, LaunchRead(r) PROVE remote'[k] \in Sent
  BY <1>2 DEF LaunchRead, Read
<1>3. ASSUME NEW r \in Requests, LaunchCreate(r) PROVE remote'[k] \in Sent
  BY <1>3 DEF LaunchCreate
<1>4. ASSUME NEW r \in Requests, LaunchSave(r) PROVE remote'[k] \in Sent
  BY <1>4 DEF LaunchSave, UpdateRow
<1>5. ASSUME NEW r \in Requests, LaunchSend(r) PROVE remote'[k] \in Sent
  BY <1>5 DEF LaunchSend
<1>6. ASSUME NEW r \in Requests, LaunchStatus(r) PROVE remote'[k] \in Sent
  BY <1>6 DEF LaunchStatus, UpdateRow
<1>7. ASSUME NEW r \in Requests, LaunchLogs(r) PROVE remote'[k] \in Sent
  BY <1>7 DEF LaunchLogs
<1>8. ASSUME NEW r \in Requests, SuspendRead(r) PROVE remote'[k] \in Sent
  BY <1>8 DEF SuspendRead, Read
<1>9. ASSUME NEW r \in Requests, SuspendRemote(r) PROVE remote'[k] \in Sent
  BY <1>9 DEF SuspendRemote
<1>10. ASSUME NEW r \in Requests, SuspendLocal(r) PROVE remote'[k] \in Sent
  BY <1>10 DEF SuspendLocal, UpdateRow
<1>11. ASSUME NEW r \in Requests, RestartRead(r) PROVE remote'[k] \in Sent
  BY <1>11 DEF RestartRead, Read
<1>12. ASSUME NEW r \in Requests, RestartRemote(r) PROVE remote'[k] \in Sent
  BY <1>12 DEF RestartRemote, Reschedule
<1>13. ASSUME NEW r \in Requests, RestartLocal(r) PROVE remote'[k] \in Sent
  BY <1>13 DEF RestartLocal, UpdateRow
<1>14. ASSUME NEW r \in Requests, UpdateRead(r) PROVE remote'[k] \in Sent
  BY <1>14 DEF UpdateRead, Read
<1>15. ASSUME NEW r \in Requests, UpdateRemote(r) PROVE remote'[k] \in Sent
  BY <1>15 DEF UpdateRemote, Reschedule
<1>16. ASSUME NEW r \in Requests, UpdateLocal(r) PROVE remote'[k] \in Sent
  BY <1>16 DEF UpdateLocal, UpdateRow
<1>17. ASSUME NEW r \in Requests, RemoveRead(r) PROVE remote'[k] \in Sent
  BY <1>17 DEF RemoveRead, Read
<1>18. ASSUME NEW r \in Requests, RemoveLocal(r) PROVE remote'[k] \in Sent
  BY <1>18 DEF RemoveLocal, UpdateRow
<1>19. ASSUME NEW r \in Requests, BreakOff(r) PROVE remote'[k] \in Sent
  BY <1>19 DEF BreakOff, Waiting
<1>20. ASSUME NEW r \in Requests, BrevoStarts(r) PROVE remote'[k] \in Sent
  BY <1>20 DEF BrevoStarts
<1>21. ASSUME NEW r \in Requests, BrevoFinishes(r) PROVE remote'[k] \in Sent
  BY <1>21 DEF BrevoFinishes
<1>22. ASSUME NEW e \in Events, WebhookFind(e) PROVE remote'[k] \in Sent
  BY <1>22 DEF WebhookFind, Step
<1>23. ASSUME NEW e \in Events, WebhookUpdate(e) PROVE remote'[k] \in Sent
  BY <1>23 DEF WebhookUpdate, SetLogs, Step
<1>24. ASSUME NEW e \in Events, WebhookCountPending(e) PROVE remote'[k] \in Sent
  BY <1>24 DEF WebhookCountPending, Step
<1>25. CASE CronFind
  BY <1>25 DEF CronFind, Step
<1>26. CASE CronReport
  BY <1>26 DEF CronReport, Step
<1>27. CASE CronFailPending
  BY <1>27 DEF CronFailPending, SetLogs, Step
<1>28. ASSUME NEW e \in Evaluators, CountFailed(e) PROVE remote'[k] \in Sent
  BY <1>28 DEF CountFailed, Step
<1>29. ASSUME NEW e \in Evaluators, CountTotal(e) PROVE remote'[k] \in Sent
  BY <1>29 DEF CountTotal, Step
<1>30. ASSUME NEW e \in Evaluators, Verdict(e) PROVE remote'[k] \in Sent
  BY <1>30 DEF Verdict, Step
<1>31. ASSUME NEW e \in Evaluators, EvaluatorBreaksOff(e) PROVE remote'[k] \in Sent
  BY <1>31 DEF EvaluatorBreaksOff, Step
<1>32. CASE UNCHANGED vars
  BY <1>32 DEF vars
<1> QED
  BY <1>1, <1>2, <1>3, <1>4, <1>5, <1>6, <1>7, <1>8, <1>9, <1>10, <1>11,
     <1>12, <1>13, <1>14, <1>15, <1>16, <1>17, <1>18, <1>19, <1>20, <1>21,
     <1>22, <1>23, <1>24, <1>25, <1>26, <1>27, <1>28, <1>29, <1>30, <1>31,
     <1>32 DEF Next, Admin, Webhook, CronJob, Evaluators

LEMMA BegunStep ==
  ASSUME TypeOK, Remotes, Begun, [Next]_vars
  PROVE  Begun'
<1>0. AnySent => AnySent'
  BY SentStep DEF AnySent
<1>a. \A k \in Requests : remote[k] \in Sent => remote'[k] \in Sent
  BY SentStep
<1> USE NoneAssumption, <1>0, <1>a, EvaluatorKinds DEF TypeOK, Campaign, Goto, Begun, Sent
<1>1. CASE Create
  BY <1>1 DEF Create
<1>2. ASSUME NEW r \in Requests, LaunchRead(r) PROVE Begun'
  BY <1>2 DEF LaunchRead, Read
<1>3. ASSUME NEW r \in Requests, LaunchCreate(r) PROVE Begun'
  BY <1>3 DEF LaunchCreate
<1>4. ASSUME NEW r \in Requests, LaunchSave(r) PROVE Begun'
  BY <1>4 DEF LaunchSave, UpdateRow
<1>5. ASSUME NEW r \in Requests, LaunchSend(r) PROVE Begun'
  BY <1>5 DEF LaunchSend
<1>6. ASSUME NEW r \in Requests, LaunchStatus(r) PROVE Begun'
  <2>1. ~row[r].scheduled => AnySent
    BY <1>6 DEF LaunchStatus, AnySent
  <2> QED
    BY <1>6, <2>1 DEF LaunchStatus, UpdateRow
<1>7. ASSUME NEW r \in Requests, LaunchLogs(r) PROVE Begun'
  BY <1>7 DEF LaunchLogs
<1>8. ASSUME NEW r \in Requests, SuspendRead(r) PROVE Begun'
  BY <1>8 DEF SuspendRead, Read
<1>9. ASSUME NEW r \in Requests, SuspendRemote(r) PROVE Begun'
  BY <1>9 DEF SuspendRemote
<1>10. ASSUME NEW r \in Requests, SuspendLocal(r) PROVE Begun'
  BY <1>10 DEF SuspendLocal, UpdateRow
<1>11. ASSUME NEW r \in Requests, RestartRead(r) PROVE Begun'
  BY <1>11 DEF RestartRead, Read
<1>12. ASSUME NEW r \in Requests, RestartRemote(r) PROVE Begun'
  BY <1>12 DEF RestartRemote, Reschedule
<1>13. ASSUME NEW r \in Requests, RestartLocal(r) PROVE Begun'
  <2>1. /\ campaign'.status \in {"removed", "SCHEDULED"} /\ UNCHANGED <<remote, row, step>>
        /\ pc[r] = "restart_local"
        /\ \E l \in {"done", "failed"} : pc' = [pc EXCEPT ![r] = l]
    BY <1>13 DEF RestartLocal, UpdateRow
  <2> QED
    BY <2>1
<1>14. ASSUME NEW r \in Requests, UpdateRead(r) PROVE Begun'
  BY <1>14 DEF UpdateRead, Read
<1>15. ASSUME NEW r \in Requests, UpdateRemote(r) PROVE Begun'
  BY <1>15 DEF UpdateRemote, Reschedule
<1>16. ASSUME NEW r \in Requests, UpdateLocal(r) PROVE Begun'
  BY <1>16 DEF UpdateLocal, UpdateRow
<1>17. ASSUME NEW r \in Requests, RemoveRead(r) PROVE Begun'
  BY <1>17 DEF RemoveRead, Read
<1>18. ASSUME NEW r \in Requests, RemoveLocal(r) PROVE Begun'
  BY <1>18 DEF RemoveLocal, UpdateRow
<1>19. ASSUME NEW r \in Requests, BreakOff(r) PROVE Begun'
  BY <1>19 DEF BreakOff, Waiting
<1>20. ASSUME NEW r \in Requests, BrevoStarts(r) PROVE Begun'
  BY <1>20 DEF BrevoStarts
<1>21. ASSUME NEW r \in Requests, BrevoFinishes(r) PROVE Begun'
  BY <1>21 DEF BrevoFinishes
<1>22. ASSUME NEW e \in Events, WebhookFind(e) PROVE Begun'
  <2>1. AnySent
    <3>1. e.remote \in Requests
      BY DEF Events
    <3> QED
      BY <1>22, <3>1 DEF WebhookFind, AnySent
  <2> QED
    BY <1>22, <2>1 DEF WebhookFind, Step
<1>23. ASSUME NEW e \in Events, WebhookUpdate(e) PROVE Begun'
  BY <1>23 DEF WebhookUpdate, SetLogs, Step
<1>24. ASSUME NEW e \in Events, WebhookCountPending(e) PROVE Begun'
  BY <1>24 DEF WebhookCountPending, Step
<1>25. CASE CronFind
  BY <1>25 DEF CronFind, Step
<1>26. CASE CronReport
  BY <1>26 DEF CronReport, Step
<1>27. CASE CronFailPending
  BY <1>27 DEF CronFailPending, SetLogs, Step
<1>28. ASSUME NEW e \in Evaluators, CountFailed(e) PROVE Begun'
  BY <1>28 DEF CountFailed, Step
<1>29. ASSUME NEW e \in Evaluators, CountTotal(e) PROVE Begun'
  BY <1>29 DEF CountTotal, Step
<1>30. ASSUME NEW e \in Evaluators, Verdict(e) PROVE Begun'
  BY <1>30 DEF Verdict, Step
<1>31. ASSUME NEW e \in Evaluators, EvaluatorBreaksOff(e) PROVE Begun'
  BY <1>31 DEF EvaluatorBreaksOff, Step
<1>32. CASE UNCHANGED vars
  BY <1>32 DEF vars
<1> QED
  BY <1>1, <1>2, <1>3, <1>4, <1>5, <1>6, <1>7, <1>8, <1>9, <1>10, <1>11,
     <1>12, <1>13, <1>14, <1>15, <1>16, <1>17, <1>18, <1>19, <1>20, <1>21,
     <1>22, <1>23, <1>24, <1>25, <1>26, <1>27, <1>28, <1>29, <1>30, <1>31,
     <1>32 DEF Next, Admin, Webhook, CronJob, Evaluators

-----------------------------------------------------------------------------
(* Delivery logs *)

LEMMA UnloggedStep ==
  ASSUME TypeOK, Unlogged, [Next]_vars
  PROVE  Unlogged'
<1> USE NoneAssumption DEF TypeOK, Campaign, Goto, Unlogged, Launching
<1>1. CASE Create
  BY <1>1 DEF Create
<1>2. ASSUME NEW r \in Requests, LaunchRead(r) PROVE Unlogged'
  BY <1>2 DEF LaunchRead, Read
<1>3. ASSUME NEW r \in Requests, LaunchCreate(r) PROVE Unlogged'
  BY <1>3 DEF LaunchCreate
<1>4. ASSUME NEW r \in Requests, LaunchSave(r) PROVE Unlogged'
  BY <1>4 DEF LaunchSave, UpdateRow
<1>5. ASSUME NEW r \in Requests, LaunchSend(r) PROVE Unlogged'
  BY <1>5 DEF LaunchSend
<1>6. ASSUME NEW r \in Requests, LaunchStatus(r) PROVE Unlogged'
  BY <1>6 DEF LaunchStatus, UpdateRow
<1>7. ASSUME NEW r \in Requests, LaunchLogs(r) PROVE Unlogged'
  BY <1>7 DEF LaunchLogs
<1>8. ASSUME NEW r \in Requests, SuspendRead(r) PROVE Unlogged'
  BY <1>8 DEF SuspendRead, Read
<1>9. ASSUME NEW r \in Requests, SuspendRemote(r) PROVE Unlogged'
  BY <1>9 DEF SuspendRemote
<1>10. ASSUME NEW r \in Requests, SuspendLocal(r) PROVE Unlogged'
  BY <1>10 DEF SuspendLocal, UpdateRow
<1>11. ASSUME NEW r \in Requests, RestartRead(r) PROVE Unlogged'
  BY <1>11 DEF RestartRead, Read
<1>12. ASSUME NEW r \in Requests, RestartRemote(r) PROVE Unlogged'
  <2>1. /\ pc[r] = "restart_remote" /\ UNCHANGED logs
        /\ \E l \in {"restart_local", "failed"} : pc' = [pc EXCEPT ![r] = l]
    BY <1>12 DEF RestartRemote
  <2> QED
    BY <2>1
<1>13. ASSUME NEW r \in Requests, RestartLocal(r) PROVE Unlogged'
  BY <1>13 DEF RestartLocal, UpdateRow
<1>14. ASSUME NEW r \in Requests, UpdateRead(r) PROVE Unlogged'
  BY <1>14 DEF UpdateRead, Read
<1>15. ASSUME NEW r \in Requests, UpdateRemote(r) PROVE Unlogged'
  BY <1>15 DEF UpdateRemote, Reschedule
<1>16. ASSUME NEW r \in Requests, UpdateLocal(r) PROVE Unlogged'
  BY <1>16 DEF UpdateLocal, UpdateRow
<1>17. ASSUME NEW r \in Requests, RemoveRead(r) PROVE Unlogged'
  BY <1>17 DEF RemoveRead, Read
<1>18. ASSUME NEW r \in Requests, RemoveLocal(r) PROVE Unlogged'
  BY <1>18 DEF RemoveLocal, UpdateRow
<1>19. ASSUME NEW r \in Requests, BreakOff(r) PROVE Unlogged'
  BY <1>19 DEF BreakOff, Waiting
<1>20. ASSUME NEW r \in Requests, BrevoStarts(r) PROVE Unlogged'
  BY <1>20 DEF BrevoStarts
<1>21. ASSUME NEW r \in Requests, BrevoFinishes(r) PROVE Unlogged'
  BY <1>21 DEF BrevoFinishes
<1>22. ASSUME NEW e \in Events, WebhookFind(e) PROVE Unlogged'
  BY <1>22 DEF WebhookFind, Step
<1>23. ASSUME NEW e \in Events, WebhookUpdate(e) PROVE Unlogged'
  <2>1. \A k \in Requests, m \in Recipients : logs'[k][m] = "none" <=> logs[k][m] = "none"
    <3>1. e.status \in {"PENDING", "REACHED", "FAILED"}
      BY OutcomesAssumption DEF Events
    <3> QED
      BY <1>23, <3>1, SetLogsTyped DEF WebhookUpdate
  <2> QED
    BY <1>23, <2>1 DEF WebhookUpdate, Step
<1>24. ASSUME NEW e \in Events, WebhookCountPending(e) PROVE Unlogged'
  BY <1>24 DEF WebhookCountPending, Step
<1>25. CASE CronFind
  BY <1>25 DEF CronFind, Step
<1>26. CASE CronReport
  BY <1>26 DEF CronReport, Step
<1>27. CASE CronFailPending
  <2>1. \A k \in Requests, m \in Recipients : logs'[k][m] = "none" <=> logs[k][m] = "none"
    <3>1. Rows("PENDING") \subseteq AllRows
      BY DEF AllRows
    <3> QED
      BY <1>27, <3>1, SetLogsTyped DEF CronFailPending
  <2> QED
    BY <1>27, <2>1 DEF CronFailPending, Step
<1>28. ASSUME NEW e \in Evaluators, CountFailed(e) PROVE Unlogged'
  BY <1>28 DEF CountFailed, Step
<1>29. ASSUME NEW e \in Evaluators, CountTotal(e) PROVE Unlogged'
  BY <1>29 DEF CountTotal, Step
<1>30. ASSUME NEW e \in Evaluators, Verdict(e) PROVE Unlogged'
  BY <1>30 DEF Verdict, Step
<1>31. ASSUME NEW e \in Evaluators, EvaluatorBreaksOff(e) PROVE Unlogged'
  BY <1>31 DEF EvaluatorBreaksOff, Step
<1>32. CASE UNCHANGED vars
  BY <1>32 DEF vars
<1> QED
  BY <1>1, <1>2, <1>3, <1>4, <1>5, <1>6, <1>7, <1>8, <1>9, <1>10, <1>11,
     <1>12, <1>13, <1>14, <1>15, <1>16, <1>17, <1>18, <1>19, <1>20, <1>21,
     <1>22, <1>23, <1>24, <1>25, <1>26, <1>27, <1>28, <1>29, <1>30, <1>31,
     <1>32 DEF Next, Admin, Webhook, CronJob, Evaluators

\* Rows leave with their campaign only.
LEMMA RowsStep ==
  ASSUME TypeOK, Unlogged, [Next]_vars
  PROVE  /\ \A k \in Requests, m \in Recipients : logs[k][m] # "none" => logs'[k][m] # "none"
         /\ campaign.status = "removed" => campaign'.status = "removed"
<1> DEFINE Kept == /\ \A k \in Requests, m \in Recipients : logs[k][m] # "none" => logs'[k][m] # "none"
                   /\ campaign.status = "removed" => campaign'.status = "removed"
<1> SUFFICES Kept
  OBVIOUS
<1> USE DEF TypeOK, Campaign
<1>1. CASE Create
  BY <1>1 DEF Create
<1>2. ASSUME NEW r \in Requests, LaunchRead(r) PROVE Kept
  BY <1>2 DEF LaunchRead, Read
<1>3. ASSUME NEW r \in Requests, LaunchCreate(r) PROVE Kept
  BY <1>3 DEF LaunchCreate
<1>4. ASSUME NEW r \in Requests, LaunchSave(r) PROVE Kept
  BY <1>4 DEF LaunchSave, UpdateRow
<1>5. ASSUME NEW r \in Requests, LaunchSend(r) PROVE Kept
  BY <1>5 DEF LaunchSend
<1>6. ASSUME NEW r \in Requests, LaunchStatus(r) PROVE Kept
  BY <1>6 DEF LaunchStatus, UpdateRow
<1>7. ASSUME NEW r \in Requests, LaunchLogs(r) PROVE Kept
  BY <1>7 DEF LaunchLogs, Unlogged, Launching
<1>8. ASSUME NEW r \in Requests, SuspendRead(r) PROVE Kept
  BY <1>8 DEF SuspendRead, Read
<1>9. ASSUME NEW r \in Requests, SuspendRemote(r) PROVE Kept
  BY <1>9 DEF SuspendRemote
<1>10. ASSUME NEW r \in Requests, SuspendLocal(r) PROVE Kept
  BY <1>10 DEF SuspendLocal, UpdateRow
<1>11. ASSUME NEW r \in Requests, RestartRead(r) PROVE Kept
  BY <1>11 DEF RestartRead, Read
<1>12. ASSUME NEW r \in Requests, RestartRemote(r) PROVE Kept
  BY <1>12 DEF RestartRemote, Reschedule
<1>13. ASSUME NEW r \in Requests, RestartLocal(r) PROVE Kept
  BY <1>13 DEF RestartLocal, UpdateRow
<1>14. ASSUME NEW r \in Requests, UpdateRead(r) PROVE Kept
  BY <1>14 DEF UpdateRead, Read
<1>15. ASSUME NEW r \in Requests, UpdateRemote(r) PROVE Kept
  BY <1>15 DEF UpdateRemote, Reschedule
<1>16. ASSUME NEW r \in Requests, UpdateLocal(r) PROVE Kept
  BY <1>16 DEF UpdateLocal, UpdateRow
<1>17. ASSUME NEW r \in Requests, RemoveRead(r) PROVE Kept
  BY <1>17 DEF RemoveRead, Read
<1>18. ASSUME NEW r \in Requests, RemoveLocal(r) PROVE Kept
  BY <1>18 DEF RemoveLocal, UpdateRow
<1>19. ASSUME NEW r \in Requests, BreakOff(r) PROVE Kept
  BY <1>19 DEF BreakOff, Waiting
<1>20. ASSUME NEW r \in Requests, BrevoStarts(r) PROVE Kept
  BY <1>20 DEF BrevoStarts
<1>21. ASSUME NEW r \in Requests, BrevoFinishes(r) PROVE Kept
  BY <1>21 DEF BrevoFinishes
<1>22. ASSUME NEW e \in Events, WebhookFind(e) PROVE Kept
  BY <1>22 DEF WebhookFind, Step
<1>23. ASSUME NEW e \in Events, WebhookUpdate(e) PROVE Kept
  <2>1. \A k \in Requests, m \in Recipients : logs'[k][m] = "none" <=> logs[k][m] = "none"
    <3>1. e.status \in {"PENDING", "REACHED", "FAILED"}
      BY OutcomesAssumption DEF Events
    <3> QED
      BY <1>23, <3>1, SetLogsTyped DEF WebhookUpdate
  <2> QED
    BY <1>23, <2>1 DEF WebhookUpdate, Step
<1>24. ASSUME NEW e \in Events, WebhookCountPending(e) PROVE Kept
  BY <1>24 DEF WebhookCountPending, Step
<1>25. CASE CronFind
  BY <1>25 DEF CronFind, Step
<1>26. CASE CronReport
  BY <1>26 DEF CronReport, Step
<1>27. CASE CronFailPending
  <2>1. \A k \in Requests, m \in Recipients : logs'[k][m] = "none" <=> logs[k][m] = "none"
    <3>1. Rows("PENDING") \subseteq AllRows
      BY DEF AllRows
    <3> QED
      BY <1>27, <3>1, SetLogsTyped DEF CronFailPending
  <2> QED
    BY <1>27, <2>1 DEF CronFailPending, Step
<1>28. ASSUME NEW e \in Evaluators, CountFailed(e) PROVE Kept
  BY <1>28 DEF CountFailed, Step
<1>29. ASSUME NEW e \in Evaluators, CountTotal(e) PROVE Kept
  BY <1>29 DEF CountTotal, Step
<1>30. ASSUME NEW e \in Evaluators, Verdict(e) PROVE Kept
  BY <1>30 DEF Verdict, Step
<1>31. ASSUME NEW e \in Evaluators, EvaluatorBreaksOff(e) PROVE Kept
  BY <1>31 DEF EvaluatorBreaksOff, Step
<1>32. CASE UNCHANGED vars
  BY <1>32 DEF vars
<1> QED
  BY <1>1, <1>2, <1>3, <1>4, <1>5, <1>6, <1>7, <1>8, <1>9, <1>10, <1>11,
     <1>12, <1>13, <1>14, <1>15, <1>16, <1>17, <1>18, <1>19, <1>20, <1>21,
     <1>22, <1>23, <1>24, <1>25, <1>26, <1>27, <1>28, <1>29, <1>30, <1>31,
     <1>32 DEF Next, Admin, Webhook, CronJob, Evaluators

LEMMA RowsGrow ==
  ASSUME TypeOK, TypeOK', Unlogged, [Next]_vars, campaign'.status # "removed"
  PROVE  Cardinality(AllRows) <= Cardinality(AllRows')
<1>1. IsFiniteSet(AllRows')
  <2>1. IsFiniteSet(Requests \X Recipients)
    BY FiniteAssumption, FS_Product
  <2>2. AllRows' \subseteq Requests \X Recipients
    BY DEF AllRows, Rows
  <2> QED
    BY <2>1, <2>2, FS_Subset
<1>2. AllRows \subseteq AllRows'
  <2>1. \A t \in Requests \X Recipients : logs[t[1]][t[2]] # "none" => logs'[t[1]][t[2]] # "none"
    BY RowsStep
  <2>2. \A t \in Requests \X Recipients :
          logs'[t[1]][t[2]] \in {"none", "PENDING", "REACHED", "FAILED"}
    BY DEF TypeOK
  <2> QED
    BY <2>1, <2>2 DEF AllRows, Rows
<1> QED
  BY <1>1, <1>2, FS_Subset

\* A failure too few is noticed when it is counted.
LEMMA FailuresBelow ==
  ASSUME TypeOK, NEW e \in Evaluators, CountFailed(e)
  PROVE  failures'[e] < Cardinality(AllRows') \/ allFailed'[e]
<1>1. Rows("FAILED") \subseteq AllRows
  BY DEF AllRows
<1>2. /\ Cardinality(Rows("FAILED")) \in Nat /\ Cardinality(AllRows) \in Nat
      /\ Cardinality(Rows("FAILED")) <= Cardinality(AllRows)
      /\ Cardinality(Rows("FAILED")) = Cardinality(AllRows) => AllRows = Rows("FAILED")
  BY <1>1, RowsFinite, FS_Subset, FS_CardinalityType
<1>3. AllRows' = AllRows
  BY DEF CountFailed, AllRows, Rows
<1>4. failures'[e] = Cardinality(Rows("FAILED"))
  BY DEF CountFailed, TypeOK
<1>5. AllRows = Rows("FAILED") => allFailed'[e]
  BY DEF CountFailed, TypeOK
<1> QED
  BY <1>2, <1>3, <1>4, <1>5

LEMMA CountedStep ==
  ASSUME TypeOK, TypeOK', Unlogged, Counted, [Next]_vars
  PROVE  Counted'
<1> DEFINE total == Cardinality(AllRows)
<1>a. /\ total \in Nat
      /\ campaign'.status # "removed" => campaign.status # "removed" /\ total <= total'
  BY RowsFinite, FS_CardinalityType, RowsGrow, RowsStep
<1>b. total' \in Nat
  <2>1. IsFiniteSet(Requests \X Recipients)
    BY FiniteAssumption, FS_Product
  <2>2. AllRows' \subseteq Requests \X Recipients
    BY DEF AllRows, Rows
  <2> QED
    BY <2>1, <2>2, FS_Subset, FS_CardinalityType
<1> HIDE DEF total
<1>c. Counted <=> \A e \in Evaluators :
        /\ step[e] = "count_total" /\ ~allFailed[e] /\ campaign.status # "removed" => failures[e] < total
        /\ step[e] = "FAILED" => allFailed[e]
  BY DEF Counted, FailedVerdictJustified, total
<1>d. Counted' <=> \A e \in Evaluators :
        /\ step'[e] = "count_total" /\ ~allFailed'[e] /\ campaign'.status # "removed" => failures'[e] < total'
        /\ step'[e] = "FAILED" => allFailed'[e]
  BY DEF Counted, FailedVerdictJustified, total
<1>e. failures \in [Evaluators -> Nat] /\ failures' \in [Evaluators -> Nat]
  BY DEF TypeOK
<1>f. ASSUME NEW e \in Evaluators,
             \A f \in Evaluators \ {e} :
               step'[f] = step[f] /\ failures'[f] = failures[f] /\ allFailed'[f] = allFailed[f],
             step'[e] = "count_total" => failures'[e] < total' \/ allFailed'[e],
             step'[e] = "FAILED" => allFailed'[e]
      PROVE  Counted'
  <2>1. ASSUME NEW f \in Evaluators \ {e}, step'[f] = "count_total", ~allFailed'[f],
               campaign'.status # "removed"
        PROVE  failures'[f] < total'
    <3>1. failures[f] < total /\ total <= total'
      BY <1>a, <1>c, <1>f, <2>1
    <3>2. failures'[f] = failures[f] /\ failures[f] \in Nat
      BY <1>e, <1>f
    <3> QED
      BY <1>a, <1>b, <3>1, <3>2
  <2>2. ASSUME NEW f \in Evaluators \ {e}, step'[f] = "FAILED" PROVE allFailed'[f]
    BY <1>c, <1>f, <2>2
  <2> QED
    BY <1>d, <1>f, <2>1, <2>2
<1> USE <1>a, <1>b, <1>c, <1>d, EvaluatorKinds DEF TypeOK
<1>1. CASE Create
  BY <1>1 DEF Create
<1>2. ASSUME NEW r \in Requests, LaunchRead(r) PROVE Counted'
  BY <1>2 DEF LaunchRead, Read
<1>3. ASSUME NEW r \in Requests, LaunchCreate(r) PROVE Counted'
  BY <1>3 DEF LaunchCreate
<1>4. ASSUME NEW r \in Requests, LaunchSave(r) PROVE Counted'
  BY <1>4 DEF LaunchSave, UpdateRow
<1>5. ASSUME NEW r \in Requests, LaunchSend(r) PROVE Counted'
  BY <1>5 DEF LaunchSend
<1>6. ASSUME NEW r \in Requests, LaunchStatus(r) PROVE Counted'
  BY <1>6 DEF LaunchStatus, UpdateRow
<1>7. ASSUME NEW r \in Requests, LaunchLogs(r) PROVE Counted'
  BY <1>7 DEF LaunchLogs
<1>8. ASSUME NEW r \in Requests, SuspendRead(r) PROVE Counted'
  BY <1>8 DEF SuspendRead, Read
<1>9. ASSUME NEW r \in Requests, SuspendRemote(r) PROVE Counted'
  BY <1>9 DEF SuspendRemote
<1>10. ASSUME NEW r \in Requests, SuspendLocal(r) PROVE Counted'
  BY <1>10 DEF SuspendLocal, UpdateRow
<1>11. ASSUME NEW r \in Requests, RestartRead(r) PROVE Counted'
  BY <1>11 DEF RestartRead, Read
<1>12. ASSUME NEW r \in Requests, RestartRemote(r) PROVE Counted'
  BY <1>12 DEF RestartRemote, Reschedule
<1>13. ASSUME NEW r \in Requests, RestartLocal(r) PROVE Counted'
  BY <1>13 DEF RestartLocal, UpdateRow
<1>14. ASSUME NEW r \in Requests, UpdateRead(r) PROVE Counted'
  BY <1>14 DEF UpdateRead, Read
<1>15. ASSUME NEW r \in Requests, UpdateRemote(r) PROVE Counted'
  BY <1>15 DEF UpdateRemote, Reschedule
<1>16. ASSUME NEW r \in Requests, UpdateLocal(r) PROVE Counted'
  BY <1>16 DEF UpdateLocal, UpdateRow
<1>17. ASSUME NEW r \in Requests, RemoveRead(r) PROVE Counted'
  BY <1>17 DEF RemoveRead, Read
<1>18. ASSUME NEW r \in Requests, RemoveLocal(r) PROVE Counted'
  BY <1>18 DEF RemoveLocal, UpdateRow
<1>19. ASSUME NEW r \in Requests, BreakOff(r) PROVE Counted'
  BY <1>19 DEF BreakOff, Waiting
<1>20. ASSUME NEW r \in Requests, BrevoStarts(r) PROVE Counted'
  BY <1>20 DEF BrevoStarts
<1>21. ASSUME NEW r \in Requests, BrevoFinishes(r) PROVE Counted'
  BY <1>21 DEF BrevoFinishes
<1>22. ASSUME NEW e \in Events, WebhookFind(e) PROVE Counted'
  BY <1>22 DEF WebhookFind, Step
<1>23. ASSUME NEW e \in Events, WebhookUpdate(e) PROVE Counted'
  BY <1>23 DEF WebhookUpdate, SetLogs, Step
<1>24. ASSUME NEW e \in Events, WebhookCountPending(e) PROVE Counted'
  BY <1>24 DEF WebhookCountPending, Step
<1>25. CASE CronFind
  BY <1>25 DEF CronFind, Step
<1>26. CASE CronReport
  BY <1>26 DEF CronReport, Step
<1>27. CASE CronFailPending
  BY <1>27 DEF CronFailPending, SetLogs, Step
<1>28. ASSUME NEW e \in Evaluators, CountFailed(e) PROVE Counted'
  <2>1. failures'[e] < total' \/ allFailed'[e]
    BY <1>28, FailuresBelow DEF total
  <2>2. /\ step' = [step EXCEPT ![e] = "count_total"]
        /\ \A f \in Evaluators \ {e} : failures'[f] = failures[f] /\ allFailed'[f] = allFailed[f]
        /\ campaign' = campaign
    BY <1>28 DEF CountFailed, Step
  <2>3. \A f \in Evaluators \ {e} : step'[f] = step[f]
    BY <2>2
  <2>4. step'[e] = "count_total"
    BY <2>2
  <2> QED
    BY <1>f, <2>1, <2>2, <2>3, <2>4
<1>29. ASSUME NEW e \in Evaluators, CountTotal(e) PROVE Counted'
  <2>1. step'[e] = "FAILED" => allFailed'[e]
    <3>1. ASSUME step'[e] = "FAILED" PROVE failures[e] = total /\ total > 0
      BY <1>29, <3>1 DEF CountTotal, Step, total
    <3>2. campaign.status = "removed" => total = 0
      BY FS_EmptySet DEF AllRows, Rows, total
    <3> QED
      BY <1>29, <3>1, <3>2 DEF CountTotal, Step
  <2>2. /\ \A f \in Evaluators \ {e} :
             step'[f] = step[f] /\ failures'[f] = failures[f] /\ allFailed'[f] = allFailed[f]
        /\ step'[e] # "count_total"
    BY <1>29 DEF CountTotal, Step
  <2> QED
    BY <1>f, <2>1, <2>2
<1>30. ASSUME NEW e \in Evaluators, Verdict(e) PROVE Counted'
  <2>1. /\ \A f \in Evaluators \ {e} :
             step'[f] = step[f] /\ failures'[f] = failures[f] /\ allFailed'[f] = allFailed[f]
        /\ step'[e] \in {"idle", "over"}
    <3>1. /\ step' = [step EXCEPT ![e] = IF e = Cron THEN "idle" ELSE "over"]
          /\ failures' = failures /\ allFailed' = [allFailed EXCEPT ![e] = FALSE]
      BY <1>30 DEF Verdict, Step
    <3> QED
      BY <3>1
  <2> QED
    BY <1>f, <2>1
<1>31. ASSUME NEW e \in Evaluators, EvaluatorBreaksOff(e) PROVE Counted'
  <2>1. /\ \A f \in Evaluators \ {e} :
             step'[f] = step[f] /\ failures'[f] = failures[f] /\ allFailed'[f] = allFailed[f]
        /\ step'[e] \in {"idle", "over"}
    <3>1. /\ step' = [step EXCEPT ![e] = IF e = Cron THEN "idle" ELSE "over"]
          /\ failures' = [failures EXCEPT ![e] = 0] /\ allFailed' = [allFailed EXCEPT ![e] = FALSE]
      BY <1>31 DEF EvaluatorBreaksOff, Step
    <3> QED
      BY <3>1
  <2> QED
    BY <1>f, <2>1
<1>32. CASE UNCHANGED vars
  BY <1>32 DEF vars
<1> QED
  BY <1>1, <1>2, <1>3, <1>4, <1>5, <1>6, <1>7, <1>8, <1>9, <1>10, <1>11,
     <1>12, <1>13, <1>14, <1>15, <1>16, <1>17, <1>18, <1>19, <1>20, <1>21,
     <1>22, <1>23, <1>24, <1>25, <1>26, <1>27, <1>28, <1>29, <1>30, <1>31,
     <1>32 DEF Next, Admin, Webhook, CronJob, Evaluators

-----------------------------------------------------------------------------
(* Suspension *)

LEMMA CalmStep ==
  ASSUME TypeOK, Remotes, Calm, [Next]_vars
  PROVE  Calm'
<1> USE NoneAssumption DEF TypeOK, Campaign, Goto, Remotes, Addressed, Launching, Calm, Undisturbed
<1>1. CASE Create
  BY <1>1 DEF Create
<1>2. ASSUME NEW r \in Requests, LaunchRead(r) PROVE Calm'
  BY <1>2 DEF LaunchRead, Read
<1>3. ASSUME NEW r \in Requests, LaunchCreate(r) PROVE Calm'
  BY <1>3 DEF LaunchCreate
<1>4. ASSUME NEW r \in Requests, LaunchSave(r) PROVE Calm'
  BY <1>4 DEF LaunchSave, UpdateRow
<1>5. ASSUME NEW r \in Requests, LaunchSend(r) PROVE Calm'
  <2>1. CASE row[r].scheduled
    BY <1>5, <2>1 DEF LaunchSend
  <2>2. CASE ~row[r].scheduled
    <3>1. /\ \A k \in Requests \ {r} : remote'[k] = remote[k]
          /\ \E l \in {"launch_status", "failed"} : pc' = [pc EXCEPT ![r] = l]
          /\ pc[r] = "launch_send" /\ UNCHANGED <<campaign, row>>
      BY <1>5, <2>2 DEF LaunchSend
    <3>2. Undisturbed' => Undisturbed /\ ~campaign.scheduled
      BY <2>2, <3>1
    <3> QED
      BY <3>1, <3>2
  <2> QED
    BY <2>1, <2>2
<1>6. ASSUME NEW r \in Requests, LaunchStatus(r) PROVE Calm'
  <2>1. /\ campaign'.scheduled = campaign.scheduled /\ UNCHANGED <<remote, row>>
        /\ campaign'.status = "SCHEDULED" => row[r].scheduled
        /\ pc[r] = "launch_status"
        /\ \E l \in {"launch_logs", "failed"} : pc' = [pc EXCEPT ![r] = l]
    BY <1>6 DEF LaunchStatus, UpdateRow
  <2> QED
    BY <2>1
<1>7. ASSUME NEW r \in Requests, LaunchLogs(r) PROVE Calm'
  BY <1>7 DEF LaunchLogs
<1>8. ASSUME NEW r \in Requests, SuspendRead(r) PROVE Calm'
  BY <1>8 DEF SuspendRead, Read
<1>9. ASSUME NEW r \in Requests, SuspendRemote(r) PROVE Calm'
  BY <1>9 DEF SuspendRemote
<1>10. ASSUME NEW r \in Requests, SuspendLocal(r) PROVE Calm'
  BY <1>10 DEF SuspendLocal, UpdateRow
<1>11. ASSUME NEW r \in Requests, RestartRead(r) PROVE Calm'
  BY <1>11 DEF RestartRead, Read
<1>12. ASSUME NEW r \in Requests, RestartRemote(r) PROVE Calm'
  BY <1>12 DEF RestartRemote, Reschedule
<1>13. ASSUME NEW r \in Requests, RestartLocal(r) PROVE Calm'
  BY <1>13 DEF RestartLocal, UpdateRow
<1>14. ASSUME NEW r \in Requests, UpdateRead(r) PROVE Calm'
  BY <1>14 DEF UpdateRead, Read
<1>15. ASSUME NEW r \in Requests, UpdateRemote(r) PROVE Calm'
  BY <1>15 DEF UpdateRemote, Reschedule
<1>16. ASSUME NEW r \in Requests, UpdateLocal(r) PROVE Calm'
  BY <1>16 DEF UpdateLocal, UpdateRow
<1>17. ASSUME NEW r \in Requests, RemoveRead(r) PROVE Calm'
  BY <1>17 DEF RemoveRead, Read
<1>18. ASSUME NEW r \in Requests, RemoveLocal(r) PROVE Calm'
  BY <1>18 DEF RemoveLocal, UpdateRow
<1>19. ASSUME NEW r \in Requests, BreakOff(r) PROVE Calm'
  BY <1>19 DEF BreakOff, Waiting
<1>20. ASSUME NEW r \in Requests, BrevoStarts(r) PROVE Calm'
  BY <1>20 DEF BrevoStarts
<1>21. ASSUME NEW r \in Requests, BrevoFinishes(r) PROVE Calm'
  BY <1>21 DEF BrevoFinishes
<1>22. ASSUME NEW e \in Events, WebhookFind(e) PROVE Calm'
  BY <1>22 DEF WebhookFind, Step
<1>23. ASSUME NEW e \in Events, WebhookUpdate(e) PROVE Calm'
  BY <1>23 DEF WebhookUpdate, SetLogs, Step
<1>24. ASSUME NEW e \in Events, WebhookCountPending(e) PROVE Calm'
  BY <1>24 DEF WebhookCountPending, Step
<1>25. CASE CronFind
  BY <1>25 DEF CronFind, Step
<1>26. CASE CronReport
  BY <1>26 DEF CronReport, Step
<1>27. CASE CronFailPending
  BY <1>27 DEF CronFailPending, SetLogs, Step
<1>28. ASSUME NEW e \in Evaluators, CountFailed(e) PROVE Calm'
  BY <1>28 DEF CountFailed, Step
<1>29. ASSUME NEW e \in Evaluators, CountTotal(e) PROVE Calm'
  BY <1>29 DEF CountTotal, Step
<1>30. ASSUME NEW e \in Evaluators, Verdict(e) PROVE Calm'
  BY <1>30 DEF Verdict, Step
<1>31. ASSUME NEW e \in Evaluators, EvaluatorBreaksOff(e) PROVE Calm'
  BY <1>31 DEF EvaluatorBreaksOff, Step
<1>32. CASE UNCHANGED vars
  BY <1>32 DEF vars
<1> QED
  BY <1>1, <1>2, <1>3, <1>4, <1>5, <1>6, <1>7, <1>8, <1>9, <1>10, <1>11,
     <1>12, <1>13, <1>14, <1>15, <1>16, <1>17, <1>18, <1>19, <1>20, <1>21,
     <1>22, <1>23, <1>24, <1>25, <1>26, <1>27, <1>28, <1>29, <1>30, <1>31,
     <1>32 DEF Next, Admin, Webhook, CronJob, Evaluators

-----------------------------------------------------------------------------

LEMMA Initially == Init => IInv
<1> SUFFICES ASSUME Init PROVE IInv
  OBVIOUS
<1> USE NoneAssumption, EvaluatorKinds DEF Init
<1>1. TypeOK
  BY DEF TypeOK, Campaign
<1>2. Remotes
  BY DEF Remotes, Launching, Addressed
<1>3. Unlogged /\ Counted
  BY DEF Unlogged, Counted, FailedVerdictJustified
<1>4. Begun
  BY DEF Begun
<1>5. Calm
  BY DEF Calm
<1> QED
  BY <1>1, <1>2, <1>3, <1>4, <1>5 DEF IInv

LEMMA SpecIInv == Spec => []IInv
<1>1. ASSUME IInv, [Next]_vars PROVE IInv'
  BY <1>1, TypeStep, RemotesStep, UnloggedStep, BegunStep, CountedStep, CalmStep DEF IInv
<1> QED
  BY <1>1, Initially, PTL DEF Spec

\* Every variable keeps its type.
THEOREM TypeCorrect == Spec => []TypeOK
<1>1. IInv => TypeOK
  BY DEF IInv
<1> QED
  BY <1>1, SpecIInv, PTL

\* A campaign has a verdict only after Brevo has begun to send it.
THEOREM VerdictsFollowSends == Spec => []VerdictNeedsSend
<1>1. IInv => VerdictNeedsSend
  BY DEF IInv, Begun, AnySent, Sent, VerdictNeedsSend
<1> QED
  BY <1>1, SpecIInv, PTL

\* FAILED is only said of a campaign that had nothing but failures.
THEOREM FailedVerdictsAreJustified == Spec => []FailedVerdictJustified
<1>1. IInv => FailedVerdictJustified
  BY DEF IInv, Counted
<1> QED
  BY <1>1, SpecIInv, PTL

\* A suspended campaign is not sent unless its date was changed.
THEOREM SuspensionsHold == Spec => []SuspendedIsSilent
<1>1. IInv => SuspendedIsSilent
  BY DEF IInv, Calm, Undisturbed, SuspendedIsSilent, TypeOK
<1> QED
  BY <1>1, SpecIInv, PTL
-----------------------------------------------------------------------------
(* The mailing *)

\* Nothing of the mailing but its verdict changes.
Kept ==
  /\ \A k \in Requests : MailOf(k)' = MailOf(k)
  /\ AllRows' = AllRows
  /\ campaign'.status = "removed" <=> campaign.status = "removed"

Judged == campaign.status \in {"COMPLETED", "FAILED"}

LEMMA KeptIsStep ==
  ASSUME Kept, Judged' => Judged \/ (AnySent /\ campaign.status # "removed")
  PROVE  [Mails!Next]_(Mails!mailing)
<1>1. [k \in Requests |-> MailOf(k)]' = [k \in Requests |-> MailOf(k)]
  BY DEF Kept
<1>2. CASE ~Judged'
  <2>1. Mails!Reopen
    BY <1>1, <1>2 DEF Kept, Judged, Mails!Reopen
  <2> QED
    BY <2>1 DEF Mails!Next
<1>3. CASE Judged' /\ Judged
  BY <1>1, <1>3 DEF Kept, Judged, Mails!mailing
<1>4. CASE Judged' /\ ~Judged
  <2>1. PICK k \in Requests : remote[k] \in Sent
    BY <1>4 DEF AnySent
  <2>2. [l \in Requests |-> MailOf(l)][k] \in {"going", "done"}
    BY <2>1 DEF MailOf, Sent
  <2>3. Mails!Judge
    BY <1>1, <1>4, <2>2 DEF Kept, Judged, Mails!Judge
  <2> QED
    BY <2>3 DEF Mails!Next
<1> QED
  BY <1>2, <1>3, <1>4

\* A step that leaves the campaign, the logs and Brevo alone.
LEMMA ApartIsStep ==
  ASSUME UNCHANGED <<campaign, logs, remote>>
  PROVE  [Mails!Next]_(Mails!mailing)
<1>1. Kept
  BY DEF Kept, MailOf, AllRows, Rows
<1>2. Judged' => Judged
  BY DEF Judged
<1> QED
  BY <1>1, <1>2, KeptIsStep

\* A step that changes only the row, and neither removes nor judges it.
LEMMA RowIsStep ==
  ASSUME UNCHANGED <<logs, remote>>, Judged' => Judged,
         campaign'.status = "removed" <=> campaign.status = "removed"
  PROVE  [Mails!Next]_(Mails!mailing)
<1>1. Kept
  BY DEF Kept, MailOf, AllRows, Rows
<1> QED
  BY <1>1, KeptIsStep

\* A step that changes the status of one campaign at Brevo: forward, or among
\* those that hold the mail.
LEMMA RemoteIsStep ==
  ASSUME TypeOK, UNCHANGED <<campaign, logs>>, NEW r \in Requests, NEW s,
         remote' = [remote EXCEPT ![r] = s],
         \/ remote[r] \in {"draft", "queued", "suspended"} /\ s \in {"queued", "suspended", "sending"}
         \/ remote[r] = "none" /\ s \in {"draft", "queued"}
         \/ remote[r] = "sending" /\ s = "sent"
  PROVE  [Mails!Next]_(Mails!mailing)
<1> DEFINE mail == [k \in Requests |-> MailOf(k)]
           stage == CASE s \in {"draft", "queued", "suspended"} -> "held"
                      [] s = "sending" -> "going"
                      [] s = "sent" -> "done"
<1>1. AllRows' = AllRows /\ UNCHANGED campaign
  BY DEF AllRows, Rows
<1>2. mail' = [mail EXCEPT ![r] = stage]
  <2>1. \A k \in Requests \ {r} : MailOf(k)' = MailOf(k)
    BY DEF TypeOK, MailOf
  <2>2. MailOf(r)' = stage
    BY DEF TypeOK, MailOf
  <2> HIDE DEF stage
  <2> QED
    BY <2>1, <2>2
<1>3. mail[r] = MailOf(r)
  OBVIOUS
<1>4. CASE remote[r] \in {"draft", "queued", "suspended"} /\ s \in {"queued", "suspended"}
  <2>1. MailOf(r) = "held" /\ stage = "held"
    BY <1>4 DEF MailOf
  <2>2. \A k \in Requests : MailOf(k)' = MailOf(k)
    BY <1>4, <2>1 DEF TypeOK, MailOf
  <2> QED
    BY <1>1, <2>2, KeptIsStep DEF Kept, Judged
<1>5. CASE remote[r] \in {"draft", "queued", "suspended"} /\ s = "sending"
  <2>1. MailOf(r) = "held" /\ stage = "going"
    BY <1>5 DEF MailOf
  <2>2. Mails!Dispatch(r)
    BY <1>1, <1>2, <1>3, <2>1 DEF Mails!Dispatch
  <2> QED
    BY <2>2 DEF Mails!Next
<1>6. CASE remote[r] = "none" /\ s \in {"draft", "queued"}
  <2>1. MailOf(r) = "none" /\ stage = "held"
    BY <1>6 DEF MailOf
  <2>2. Mails!Prepare(r)
    BY <1>1, <1>2, <1>3, <2>1 DEF Mails!Prepare
  <2> QED
    BY <2>2 DEF Mails!Next
<1>7. CASE remote[r] = "sending" /\ s = "sent"
  <2>1. MailOf(r) = "going" /\ stage = "done"
    BY <1>7 DEF MailOf
  <2>2. Mails!Complete(r)
    BY <1>1, <1>2, <1>3, <2>1 DEF Mails!Complete
  <2> QED
    BY <2>2 DEF Mails!Next
<1> QED
  BY <1>4, <1>5, <1>6, <1>7

\* createMany: the entries of the launch, at one moment.
LEMMA LogsAreEntered ==
  ASSUME TypeOK, Remotes, Unlogged, NEW r \in Requests, LaunchLogs(r)
  PROVE  [Mails!Next]_(Mails!mailing)
<1>1. CASE campaign.status = "removed"
  BY <1>1, ApartIsStep DEF LaunchLogs
<1>2. CASE campaign.status # "removed"
  <2>1. PICK leads \in SUBSET Recipients :
          logs' = [logs EXCEPT ![r] = [m \in Recipients |-> IF m \in leads THEN "PENDING" ELSE "none"]]
    BY <1>2 DEF LaunchLogs
  <2>2. UNCHANGED <<campaign, remote>> /\ pc[r] = "launch_logs"
    BY DEF LaunchLogs
  <2>3. \A m \in Recipients : logs[r][m] = "none"
    BY <2>2 DEF Unlogged, Launching
  <2>4. \A t \in AllRows : t[1] # r
    BY <2>3 DEF AllRows, Rows
  <2>5. AllRows' = AllRows \cup ({r} \X leads)
    <3>1. \A k \in Requests \ {r} : logs'[k] = logs[k]
      BY <2>1 DEF TypeOK
    <3>2. \A m \in Recipients : logs'[r][m] = IF m \in leads THEN "PENDING" ELSE "none"
      BY <2>1 DEF TypeOK
    <3>3. \A t \in Requests \X Recipients : t \in AllRows' <=> t \in AllRows \/ t \in {r} \X leads
      BY <1>2, <2>2, <2>4, <3>1, <3>2 DEF AllRows, Rows
    <3>4. AllRows' \subseteq Requests \X Recipients /\ AllRows \subseteq Requests \X Recipients
      BY DEF AllRows, Rows
    <3> QED
      BY <3>3, <3>4
  <2>6. [k \in Requests |-> MailOf(k)]' = [k \in Requests |-> MailOf(k)]
    BY <2>2 DEF MailOf
  <2>7. [k \in Requests |-> MailOf(k)][r] # "none"
    BY <2>2 DEF Remotes, Launching, MailOf, TypeOK
  <2>8. Mails!Enter(r, leads)
    BY <1>2, <2>2, <2>4, <2>5, <2>6, <2>7 DEF Mails!Enter
  <2> QED
    BY <2>8 DEF Mails!Next
<1> QED
  BY <1>1, <1>2

\* updateMany changes what rows say, never which there are.
LEMMA UpdatesAreKept ==
  ASSUME TypeOK, UNCHANGED <<campaign, remote>>,
         NEW status \in {"PENDING", "REACHED", "FAILED"},
         NEW rows \in SUBSET AllRows, SetLogs(rows, status)
  PROVE  [Mails!Next]_(Mails!mailing)
<1>1. /\ logs' \in [Requests -> [Recipients -> {"none", "PENDING", "REACHED", "FAILED"}]]
      /\ \A k \in Requests, m \in Recipients : logs'[k][m] = "none" <=> logs[k][m] = "none"
  BY SetLogsTyped
<1>2. \A t \in Requests \X Recipients : t \in AllRows' <=> t \in AllRows
  <2>1. \A t \in Requests \X Recipients :
          t \in AllRows <=> campaign.status # "removed" /\ logs[t[1]][t[2]] # "none"
    BY DEF AllRows, Rows, TypeOK
  <2>2. \A t \in Requests \X Recipients :
          t \in AllRows' <=> campaign'.status # "removed" /\ logs'[t[1]][t[2]] # "none"
    BY <1>1 DEF AllRows, Rows
  <2> QED
    BY <1>1, <2>1, <2>2
<1>3. AllRows' \subseteq Requests \X Recipients /\ AllRows \subseteq Requests \X Recipients
  BY DEF AllRows, Rows
<1>4. AllRows' = AllRows
  BY <1>2, <1>3
<1>5. \A k \in Requests : MailOf(k)' = MailOf(k)
  BY DEF MailOf
<1> QED
  BY <1>4, <1>5, KeptIsStep DEF Kept, Judged

\* Deleting the campaign deletes its logs.
LEMMA RemovalRemoves ==
  ASSUME TypeOK, NEW r \in Requests, RemoveLocal(r)
  PROVE  [Mails!Next]_(Mails!mailing)
<1>1. CASE campaign.status = "removed"
  BY <1>1, ApartIsStep DEF RemoveLocal, UpdateRow
<1>2. CASE campaign.status # "removed"
  <2>1. campaign'.status = "removed" /\ UNCHANGED <<logs, remote>>
    BY <1>2 DEF RemoveLocal, UpdateRow, TypeOK, Campaign
  <2>2. AllRows' = {}
    BY <2>1 DEF AllRows, Rows
  <2>3. [k \in Requests |-> MailOf(k)]' = [k \in Requests |-> MailOf(k)]
    BY <2>1 DEF MailOf
  <2>4. Mails!Remove
    BY <1>2, <2>1, <2>2, <2>3 DEF Mails!Remove
  <2> QED
    BY <2>4 DEF Mails!Next
<1> QED
  BY <1>1, <1>2

LEMMA VerdictJudges ==
  ASSUME TypeOK, Begun, NEW e \in Evaluators, Verdict(e)
  PROVE  [Mails!Next]_(Mails!mailing)
<1>1. AnySent
  BY DEF Verdict, Begun
<1>2. /\ UNCHANGED <<logs, remote>>
      /\ campaign'.status = "removed" <=> campaign.status = "removed"
  BY DEF Verdict, TypeOK, Campaign
<1>3. Kept
  BY <1>2 DEF Kept, MailOf, AllRows, Rows
<1>4. Judged' => campaign.status # "removed"
  BY <1>2 DEF Judged
<1> QED
  BY <1>1, <1>3, <1>4, KeptIsStep

LEMMA MailingStep ==
  ASSUME TypeOK, Remotes, Unlogged, Begun, [Next]_vars
  PROVE  [Mails!Next]_(Mails!mailing)
<1> DEFINE Follows == [Mails!Next]_(Mails!mailing)
<1> SUFFICES Follows
  OBVIOUS
<1>1. CASE Create
  <2>1. /\ UNCHANGED <<logs, remote>>
        /\ campaign.status # "removed" /\ campaign'.status = "DRAFT"
    BY <1>1 DEF Create
  <2> QED
    BY <2>1, RowIsStep DEF Judged
<1>2. ASSUME NEW r \in Requests,
             LaunchRead(r) \/ SuspendRead(r) \/ RestartRead(r) \/ UpdateRead(r) \/ RemoveRead(r)
                \/ BreakOff(r)
      PROVE  Follows
  <2>1. UNCHANGED <<campaign, logs, remote>>
    BY <1>2 DEF LaunchRead, SuspendRead, RestartRead, UpdateRead, RemoveRead, Read, BreakOff
  <2> QED
    BY <2>1, ApartIsStep
<1>3. ASSUME NEW r \in Requests, LaunchCreate(r) PROVE Follows
  <2>1. remote[r] = "none"
    BY <1>3 DEF Remotes, LaunchCreate
  <2> QED
    BY <1>3, <2>1, RemoteIsStep DEF LaunchCreate
<1>4. ASSUME NEW r \in Requests,
             LaunchSave(r) \/ LaunchStatus(r) \/ SuspendLocal(r) \/ RestartLocal(r) \/ UpdateLocal(r)
      PROVE  Follows
  <2>1. UNCHANGED <<logs, remote>>
    BY <1>4 DEF LaunchSave, LaunchStatus, SuspendLocal, RestartLocal, UpdateLocal, UpdateRow
  <2>2. \/ UNCHANGED campaign
        \/ /\ campaign.status # "removed"
           /\ campaign'.status \in {"SCHEDULED", "RUNNING", "DRAFT", campaign.status}
    BY <1>4 DEF LaunchSave, LaunchStatus, SuspendLocal, RestartLocal, UpdateLocal, UpdateRow,
                TypeOK, Campaign
  <2> QED
    BY <2>1, <2>2, RowIsStep DEF Judged
<1>5. ASSUME NEW r \in Requests, LaunchSend(r) PROVE Follows
  <2>1. remote[r] # "none" /\ UNCHANGED <<campaign, logs>>
    BY <1>5 DEF Remotes, Launching, LaunchSend
  <2>2. \/ remote' = remote
        \/ remote[r] \notin {"sending", "sent"} /\ remote' = [remote EXCEPT ![r] = "sending"]
    BY <1>5 DEF LaunchSend
  <2>3. remote[r] \in {"draft", "queued", "suspended", "sending", "sent"}
    BY <2>1 DEF TypeOK
  <2> QED
    BY <2>1, <2>2, <2>3, ApartIsStep, RemoteIsStep
<1>6. ASSUME NEW r \in Requests, LaunchLogs(r) PROVE Follows
  BY <1>6, LogsAreEntered
<1>7. ASSUME NEW r \in Requests, SuspendRemote(r) \/ RestartRemote(r) \/ UpdateRemote(r)
      PROVE  Follows
  <2> DEFINE k == row[r].provider
  <2>1. k \in Requests /\ remote[k] # "none"
    BY <1>7 DEF Remotes, Addressed, TypeOK, Campaign, SuspendRemote, RestartRemote, UpdateRemote
  <2>2. UNCHANGED <<campaign, logs>>
    BY <1>7 DEF SuspendRemote, RestartRemote, UpdateRemote
  <2>3. \/ remote' = remote
        \/ /\ remote[k] \notin {"sending", "sent"}
           /\ \E s \in {"queued", "suspended"} : remote' = [remote EXCEPT ![k] = s]
    BY <1>7 DEF SuspendRemote, RestartRemote, UpdateRemote, Reschedule
  <2>4. remote[k] \in {"draft", "queued", "suspended", "sending", "sent"}
    BY <2>1 DEF TypeOK
  <2> HIDE DEF k
  <2> QED
    BY <2>1, <2>2, <2>3, <2>4, ApartIsStep, RemoteIsStep
<1>8. ASSUME NEW r \in Requests, RemoveLocal(r) PROVE Follows
  BY <1>8, RemovalRemoves
<1>9. ASSUME NEW r \in Requests, BrevoStarts(r) \/ BrevoFinishes(r) PROVE Follows
  <2>1. \/ remote[r] = "queued" /\ remote' = [remote EXCEPT ![r] = "sending"]
        \/ remote[r] = "sending" /\ remote' = [remote EXCEPT ![r] = "sent"]
    BY <1>9 DEF BrevoStarts, BrevoFinishes
  <2>2. UNCHANGED <<campaign, logs>>
    BY <1>9 DEF BrevoStarts, BrevoFinishes
  <2> QED
    BY <2>1, <2>2, RemoteIsStep
<1>10. ASSUME NEW e \in Events, WebhookUpdate(e) PROVE Follows
  <2>1. e.status \in {"PENDING", "REACHED", "FAILED"}
    BY OutcomesAssumption DEF Events
  <2>2. /\ SetLogs({t \in AllRows : t[2] = e.to}, e.status)
        /\ UNCHANGED <<campaign, remote>>
    BY <1>10 DEF WebhookUpdate
  <2> QED
    BY <2>1, <2>2, UpdatesAreKept
<1>11. CASE CronFailPending
  <2>1. /\ SetLogs(Rows("PENDING"), "FAILED") /\ Rows("PENDING") \subseteq AllRows
        /\ UNCHANGED <<campaign, remote>>
    BY <1>11 DEF CronFailPending, AllRows
  <2> QED
    BY <2>1, UpdatesAreKept
<1>12. ASSUME NEW e \in Evaluators,
              CountFailed(e) \/ CountTotal(e) \/ EvaluatorBreaksOff(e)
       PROVE  Follows
  <2>1. UNCHANGED <<campaign, logs, remote>>
    BY <1>12 DEF CountFailed, CountTotal, EvaluatorBreaksOff
  <2> QED
    BY <2>1, ApartIsStep
<1>13. ASSUME NEW e \in Evaluators, Verdict(e) PROVE Follows
  BY <1>13, VerdictJudges
<1>14. ASSUME NEW e \in Events, WebhookFind(e) \/ WebhookCountPending(e) PROVE Follows
  <2>1. UNCHANGED <<campaign, logs, remote>>
    BY <1>14 DEF WebhookFind, WebhookCountPending
  <2> QED
    BY <2>1, ApartIsStep
<1>15. CASE CronFind \/ CronReport
  <2>1. UNCHANGED <<campaign, logs, remote>>
    BY <1>15 DEF CronFind, CronReport
  <2> QED
    BY <2>1, ApartIsStep
<1>19. CASE UNCHANGED vars
  <2>1. UNCHANGED <<campaign, logs, remote>>
    BY <1>19 DEF vars
  <2> QED
    BY <2>1, ApartIsStep
<1> HIDE DEF Follows
<1>16. ASSUME NEW r \in Requests, Admin(r) PROVE Follows
  BY <1>2, <1>3, <1>4, <1>5, <1>6, <1>7, <1>8, <1>16 DEF Admin
<1>17. ASSUME NEW e \in Events, Webhook(e) PROVE Follows
  <2>1. e \in Evaluators
    BY EvaluatorKinds
  <2> QED
    BY <1>10, <1>12, <1>13, <1>14, <1>17, <2>1 DEF Webhook
<1>18. CASE CronJob
  <2>1. Cron \in Evaluators
    BY EvaluatorKinds
  <2> QED
    BY <1>11, <1>12, <1>13, <1>15, <1>18, <2>1 DEF CronJob
<1> QED
  BY <1>1, <1>2, <1>9, <1>12, <1>16, <1>17, <1>18, <1>19 DEF Next

\* Each launch sends one mail, forward and once, and enters its recipients at
\* one moment; entries stay until the campaign is removed, and it is judged
\* only once a mail is on its way: whatever admins, Brevo, its events and the
\* job do, in any order, and wherever they break off.
THEOREM CampaignImplementsMailing == Spec => ImplementsMailing
<1>1. Init => Mails!Init
  <2> SUFFICES ASSUME Init PROVE Mails!Init
    OBVIOUS
  <2>1. [k \in Requests |-> MailOf(k)] = [k \in Requests |-> "none"]
    BY DEF Init, MailOf
  <2>2. AllRows = {}
    BY DEF Init, AllRows, Rows
  <2> QED
    BY <2>1, <2>2 DEF Init, Mails!Init
<1>2. IInv /\ [Next]_vars => [Mails!Next]_(Mails!mailing)
  BY MailingStep DEF IInv
<1> QED
  BY <1>1, <1>2, SpecIInv, PTL DEF Spec, ImplementsMailing, Mails!Spec
=============================================================================
