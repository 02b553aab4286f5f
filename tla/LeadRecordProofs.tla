--------------------------- MODULE LeadRecordProofs ---------------------------
(***************************************************************************)
(* Proofs about LeadRecord and its queue.  The inductive invariant has     *)
(* five parts: QueueInv counts the sends and the successes of each job by  *)
(* where it is; Inv says what a request knows and who has the locks;       *)
(* FilesInv follows each file from its upload into the row and out of the  *)
(* storage; Progress follows an assignment through its transaction; and    *)
(* HistoryProps is what is wanted of the history and the notices.          *)
(***************************************************************************)
EXTENDS LeadRecord, FiniteSetTheorems, TLAPS

USE NamesAssumption, BoundsAssumption
USE DEF Files, AssignSteps, UpdateSteps, FileSteps, Steps

-----------------------------------------------------------------------------
(* The queue *)

Sent(j) == job[j].step \in {"mark", "mark_failed", "finish", "completed"}

\* How often a job can have been sent, by where it is.
SendsCounted ==
  \A j \in Requests :
    /\ job[j].step # "failed" => job[j].attempts < MaxAttempts
    /\ job[j].step = "none" => sent[j] = 0
    /\ job[j].step = "failed" => sent[j] <= MaxAttempts + MaxStalls
    /\ Sent(j) => sent[j] > 0 /\ sent[j] <= job[j].attempts + job[j].stalls + 1
    /\ job[j].step # "failed" /\ ~Sent(j) => sent[j] <= job[j].attempts + job[j].stalls

\* What the last row of a job says.
RowsFollow ==
  \A j \in Requests :
    /\ job[j].step \in {"send", "mark", "mark_failed"} => log[j] # <<>>
    /\ job[j].step \in {"finish", "completed"} =>
         log[j] # <<>> /\ log[j][Len(log[j])] = "SUCCESS"

QInv == QueueTypeOK /\ SendsCounted /\ RowsFollow

Job == [step: Steps, attempts: 0..MaxAttempts, stalls: 0..MaxStalls]
Statuses == {"PENDING", "SUCCESS", "FAILED"}

\* Only the job j changes, and what it becomes.
Becomes(j, step, attempts, stalls) ==
  /\ job' \in [Requests -> Job]
  /\ \A i \in Requests \ {j} : job'[i] = job[i]
  /\ job'[j].step = step /\ job'[j].attempts = attempts /\ job'[j].stalls = stalls

LEMMA JobWith ==
  ASSUME job \in [Requests -> Job], NEW j \in Requests, NEW new \in Job,
         job' = [job EXCEPT ![j] = new]
  PROVE  Becomes(j, new.step, new.attempts, new.stalls)
  BY DEF Becomes

LEMMA GoBecomes ==
  ASSUME job \in [Requests -> Job], NEW j \in Requests, NEW step \in Steps, Go(j, step)
  PROVE  Becomes(j, step, job[j].attempts, job[j].stalls)
<1> DEFINE new == [job[j] EXCEPT !.step = step]
<1>1. /\ new \in Job /\ new.step = step /\ new.attempts = job[j].attempts
      /\ new.stalls = job[j].stalls
  BY DEF Job
<1>2. job' = [job EXCEPT ![j] = new]
  BY DEF Go
<1> QED
  BY <1>1, <1>2, JobWith

LEMMA AttemptBecomes ==
  ASSUME job \in [Requests -> Job], NEW j \in Requests, job[j].attempts < MaxAttempts,
         AttemptFailed(j)
  PROVE  \E step \in {"waiting", "failed"} :
           /\ Becomes(j, step, job[j].attempts + 1, job[j].stalls)
           /\ step = "waiting" => job[j].attempts + 1 < MaxAttempts
<1> DEFINE step == IF job[j].attempts + 1 < MaxAttempts THEN "waiting" ELSE "failed"
           new == [job[j] EXCEPT !.attempts = job[j].attempts + 1, !.step = step]
<1>1. job[j] \in Job /\ step \in {"waiting", "failed"}
  OBVIOUS
<1>2. job[j].attempts + 1 \in 0..MaxAttempts
  BY DEF Job
<1> HIDE DEF step
<1>3. /\ new \in Job /\ new.step = step /\ new.attempts = job[j].attempts + 1
      /\ new.stalls = job[j].stalls
  BY <1>1, <1>2 DEF Job
<1>4. job' = [job EXCEPT ![j] = new]
  BY DEF AttemptFailed, step
<1>5. Becomes(j, step, job[j].attempts + 1, job[j].stalls)
  BY <1>3, <1>4, JobWith
<1> QED
  BY <1>1, <1>5 DEF step

LEMMA StallBecomes ==
  ASSUME job \in [Requests -> Job], NEW j \in Requests, Stall(j)
  PROVE  \/ /\ job[j].stalls < MaxStalls
            /\ Becomes(j, "waiting", job[j].attempts, job[j].stalls + 1)
         \/ Becomes(j, "failed", job[j].attempts, job[j].stalls)
<1>1. job[j] \in Job
  OBVIOUS
<1>2. CASE job[j].stalls < MaxStalls
  <2> DEFINE new == [job[j] EXCEPT !.stalls = job[j].stalls + 1, !.step = "waiting"]
  <2>1. job[j].stalls + 1 \in 0..MaxStalls
    BY <1>1, <1>2 DEF Job
  <2>2. /\ new \in Job /\ new.step = "waiting" /\ new.attempts = job[j].attempts
        /\ new.stalls = job[j].stalls + 1
    BY <1>1, <2>1 DEF Job
  <2>3. job' = [job EXCEPT ![j] = new]
    BY <1>2 DEF Stall
  <2> QED
    BY <1>2, <2>2, <2>3, JobWith
<1>3. CASE ~(job[j].stalls < MaxStalls)
  <2> DEFINE new == [job[j] EXCEPT !.stalls = job[j].stalls, !.step = "failed"]
  <2>1. /\ new \in Job /\ new.step = "failed" /\ new.attempts = job[j].attempts
        /\ new.stalls = job[j].stalls
    BY <1>1 DEF Job
  <2>2. job' = [job EXCEPT ![j] = new]
    BY <1>3 DEF Stall
  <2> QED
    BY <2>1, <2>2, JobWith
<1> QED
  BY <1>2, <1>3

LEMMA SetRowSets ==
  ASSUME log \in [Requests -> Seq(Statuses)], NEW j \in Requests, log[j] # <<>>,
         NEW status \in Statuses, SetRow(j, status)
  PROVE  /\ log' \in [Requests -> Seq(Statuses)]
         /\ \A i \in Requests \ {j} : log'[i] = log[i]
         /\ Len(log'[j]) = Len(log[j]) /\ log'[j] # <<>>
         /\ log'[j][Len(log'[j])] = status
         /\ \A i \in 1..(Len(log[j]) - 1) : log'[j][i] = log[j][i]
<1> DEFINE new == [log[j] EXCEPT ![Len(log[j])] = status]
<1>1. /\ log[j] \in Seq(Statuses) /\ Len(log[j]) \in 1..Len(log[j])
  OBVIOUS
<1>2. /\ new \in Seq(Statuses) /\ Len(new) = Len(log[j]) /\ new # <<>>
      /\ new[Len(log[j])] = status
      /\ \A i \in 1..(Len(log[j]) - 1) : new[i] = log[j][i]
  BY <1>1
<1>3. log' = [log EXCEPT ![j] = new]
  BY DEF SetRow
<1> QED
  BY <1>2, <1>3

LEMMA QueueStep ==
  ASSUME QInv, NEW j \in Requests, Work(j) \/ Stall(j)
  PROVE  QInv'
<1> USE DEF QInv, QueueTypeOK, SendsCounted, RowsFollow, Sent
<1>0. job \in [Requests -> Job] /\ log \in [Requests -> Seq(Statuses)]
  BY DEF Job, Statuses
<1>n. \A i \in Requests : /\ job[i].attempts \in Nat /\ job[i].attempts <= MaxAttempts
                          /\ job[i].stalls \in Nat /\ job[i].stalls <= MaxStalls
                          /\ job[i].step \in Steps /\ sent[i] \in Nat
  BY <1>0 DEF Job
<1>types. ASSUME job' \in [Requests -> Job], log' \in [Requests -> Seq(Statuses)],
                 sent' \in [Requests -> Nat]
          PROVE  QueueTypeOK'
  BY <1>types DEF Job, Statuses
<1>1. ASSUME Take(j) PROVE QInv'
  <2>1. Becomes(j, "create", job[j].attempts, job[j].stalls)
    BY <1>0, <1>1, GoBecomes DEF Take
  <2>2. QueueTypeOK'
    BY <1>0, <1>1, <2>1, <1>types DEF Take, Becomes
  <2> QED
    BY <1>1, <2>1, <2>2 DEF Take, Becomes
<1>2. ASSUME CreateRow(j) PROVE QInv'
  <2>1. CASE log' = [log EXCEPT ![j] = Append(@, "PENDING")] /\ Go(j, "send")
    <3>1. Becomes(j, "send", job[j].attempts, job[j].stalls)
      BY <1>0, <2>1, GoBecomes
    <3>2. /\ log' \in [Requests -> Seq(Statuses)] /\ log'[j] # <<>>
          /\ \A i \in Requests \ {j} : log'[i] = log[i]
      BY <1>0, <2>1 DEF Statuses
    <3>3. QueueTypeOK'
      BY <1>0, <1>2, <3>1, <3>2, <1>types DEF CreateRow, Becomes
    <3> QED
      BY <1>2, <3>1, <3>2, <3>3 DEF CreateRow, Becomes
  <2>2. CASE AttemptFailed(j) /\ UNCHANGED log
    <3>1. PICK step \in {"waiting", "failed"} :
             /\ Becomes(j, step, job[j].attempts + 1, job[j].stalls)
             /\ step = "waiting" => job[j].attempts + 1 < MaxAttempts
      BY <1>0, <1>2, <2>2, AttemptBecomes DEF CreateRow
    <3>2. QueueTypeOK'
      BY <1>0, <1>2, <2>2, <3>1, <1>types DEF CreateRow, Becomes
    <3>3. SendsCounted'
      <4> SUFFICES ASSUME NEW i \in Requests PROVE SendsCounted!(i)'
        BY DEF SendsCounted
      <4>1. CASE i = j
        BY <1>n, <1>2, <2>2, <3>1, <4>1 DEF CreateRow, Becomes
      <4>2. CASE i # j
        BY <1>2, <3>1, <4>2 DEF CreateRow, Becomes
      <4> QED
        BY <4>1, <4>2
    <3> QED
      BY <1>2, <2>2, <3>1, <3>2, <3>3 DEF CreateRow, Becomes
  <2> QED
    BY <1>2, <2>1, <2>2 DEF CreateRow
<1>3. ASSUME Send(j) PROVE QInv'
  <2>1. Becomes(j, "mark", job[j].attempts, job[j].stalls)
    BY <1>0, <1>3, GoBecomes DEF Send
  <2>2. /\ sent' \in [Requests -> Nat] /\ sent'[j] = sent[j] + 1
        /\ \A i \in Requests \ {j} : sent'[i] = sent[i]
    BY <1>n, <1>3 DEF Send
  <2>3. QueueTypeOK'
    BY <1>0, <1>3, <2>1, <2>2, <1>types DEF Send, Becomes
  <2>4. SendsCounted'
    <3> SUFFICES ASSUME NEW i \in Requests PROVE SendsCounted!(i)'
      BY DEF SendsCounted
    <3>1. CASE i = j
      <4>1. job[j].step \notin {"none", "failed"} /\ ~Sent(j)
        BY <1>3 DEF Send
      <4>2. sent[j] <= job[j].attempts + job[j].stalls /\ job[j].attempts < MaxAttempts
        BY <4>1
      <4>3. /\ job'[j].step = "mark" /\ job'[j].attempts = job[j].attempts
            /\ job'[j].stalls = job[j].stalls
        BY <2>1 DEF Becomes
      <4>4. sent'[j] > 0 /\ sent'[j] <= job'[j].attempts + job'[j].stalls + 1
        <5>1. sent[j] \in Nat /\ job[j].attempts \in Nat /\ job[j].stalls \in Nat
          BY <1>n
        <5> QED
          BY ONLY <2>2, <4>2, <4>3, <5>1
      <4> QED
        BY <3>1, <4>2, <4>3, <4>4
    <3>2. CASE i # j
      BY <2>1, <2>2, <3>2 DEF Becomes
    <3> QED
      BY <3>1, <3>2
  <2> QED
    BY <1>3, <2>1, <2>3, <2>4 DEF Send, Becomes
<1>4. ASSUME Mark(j) PROVE QInv'
  <2>1. CASE SetRow(j, "SUCCESS") /\ Go(j, "finish")
    <3>1. Becomes(j, "finish", job[j].attempts, job[j].stalls)
      BY <1>0, <2>1, GoBecomes
    <3>2. /\ log' \in [Requests -> Seq(Statuses)] /\ log'[j] # <<>>
          /\ \A i \in Requests \ {j} : log'[i] = log[i]
          /\ log'[j][Len(log'[j])] = "SUCCESS"
      BY <1>0, <1>4, <2>1, SetRowSets DEF Mark, Statuses
    <3>3. QueueTypeOK'
      BY <1>0, <1>4, <3>1, <3>2, <1>types DEF Mark, Becomes
    <3> QED
      BY <1>4, <3>1, <3>2, <3>3 DEF Mark, Becomes
  <2>2. CASE Go(j, "mark_failed") /\ UNCHANGED log
    <3>1. Becomes(j, "mark_failed", job[j].attempts, job[j].stalls)
      BY <1>0, <2>2, GoBecomes
    <3>2. QueueTypeOK'
      BY <1>0, <1>4, <2>2, <3>1, <1>types DEF Mark, Becomes
    <3> QED
      BY <1>4, <2>2, <3>1, <3>2 DEF Mark, Becomes
  <2> QED
    BY <1>4, <2>1, <2>2 DEF Mark
<1>5. ASSUME MarkFailed(j) PROVE QInv'
  <2>1. PICK step \in {"waiting", "failed"} :
           /\ Becomes(j, step, job[j].attempts + 1, job[j].stalls)
           /\ step = "waiting" => job[j].attempts + 1 < MaxAttempts
    BY <1>0, <1>5, AttemptBecomes DEF MarkFailed
  <2>2. /\ log' \in [Requests -> Seq(Statuses)]
        /\ \A i \in Requests \ {j} : log'[i] = log[i]
    BY <1>0, <1>5, SetRowSets DEF MarkFailed, Statuses
  <2>3. QueueTypeOK'
    BY <1>0, <1>5, <2>1, <2>2, <1>types DEF MarkFailed, Becomes
  <2>4. SendsCounted'
    <3> SUFFICES ASSUME NEW i \in Requests PROVE SendsCounted!(i)'
      BY DEF SendsCounted
    <3>1. CASE i = j
      BY <1>n, <1>5, <2>1, <3>1 DEF MarkFailed, Becomes
    <3>2. CASE i # j
      BY <1>5, <2>1, <3>2 DEF MarkFailed, Becomes
    <3> QED
      BY <3>1, <3>2
  <2> QED
    BY <1>5, <2>1, <2>2, <2>3, <2>4 DEF MarkFailed, Becomes
<1>6. ASSUME Finish(j) PROVE QInv'
  <2>1. Becomes(j, "completed", job[j].attempts, job[j].stalls)
    BY <1>0, <1>6, GoBecomes DEF Finish
  <2>2. QueueTypeOK'
    BY <1>0, <1>6, <2>1, <1>types DEF Finish, Becomes
  <2> QED
    BY <1>6, <2>1, <2>2 DEF Finish, Becomes
<1>7. ASSUME Stall(j) PROVE QInv'
  <2>1. \/ /\ job[j].stalls < MaxStalls
           /\ Becomes(j, "waiting", job[j].attempts, job[j].stalls + 1)
        \/ Becomes(j, "failed", job[j].attempts, job[j].stalls)
    BY <1>0, <1>7, StallBecomes
  <2>2. QueueTypeOK'
    BY <1>0, <1>7, <2>1, <1>types DEF Stall, Becomes
  <2>3. UNCHANGED <<log, sent>> /\ job[j].step \notin {"none", "failed"}
    BY <1>7 DEF Stall, Active
  <2>4. /\ job'[j].step \in {"waiting", "failed"}
        /\ job'[j].attempts = job[j].attempts
        /\ \/ job'[j].step = "waiting" /\ job'[j].stalls = job[j].stalls + 1
           \/ job'[j].step = "failed"
    BY <2>1 DEF Becomes
  <2>5. SendsCounted!(j)'
    <3>1. job[j].attempts < MaxAttempts /\ sent[j] <= job[j].attempts + job[j].stalls + 1
      BY <1>n, <2>3
    <3>2. sent[j] <= MaxAttempts + MaxStalls
      <4>1. MaxAttempts \in Nat /\ MaxStalls \in Nat
        BY BoundsAssumption
      <4> QED
        BY ONLY <1>n, <3>1, <4>1
    <3>3. ~Sent(j)'
      BY <2>4
    <3>4. CASE job'[j].step = "waiting"
      BY <1>n, <2>3, <2>4, <3>1, <3>3, <3>4
    <3>5. CASE job'[j].step = "failed"
      BY <2>3, <3>2, <3>3, <3>5
    <3> QED
      BY <2>4, <3>4, <3>5
  <2>6. \A i \in Requests \ {j} : job'[i] = job[i]
    BY <2>1 DEF Becomes
  <2>7. SendsCounted'
    BY <2>3, <2>5, <2>6
  <2>8. RowsFollow'
    BY <2>3, <2>4, <2>6
  <2> QED
    BY <2>2, <2>7, <2>8
<1> QED
  BY <1>1, <1>2, <1>3, <1>4, <1>5, <1>6, <1>7 DEF Work

-----------------------------------------------------------------------------
(* What a request knows, and the locks *)

\* The types of what the requests of the lead keep.
LeadTypeOK ==
  /\ pc \in [Requests -> Labels]
  /\ given \in [Requests -> Users \cup Files \cup {None} \cup SUBSET Requests]
  /\ read \in [Requests -> Lead \cup {None}]
  /\ lead \in Lead \cup {None}
  /\ history \in Seq([by: Requests \cup {None}, to: Users \cup {None}])
  /\ holder \in Requests \cup {None}
  /\ sharers \subseteq Requests
  /\ stored \subseteq Files
  /\ told \in [Requests -> Users \cup {None}]
  /\ overtaken \subseteq Requests
  /\ stale \subseteq Requests

Writing == {"assign_history", "assign_notify", "assign_commit"}

\* What a request is about, by the await it has reached.
GivenFits ==
  \A r \in Requests :
    /\ pc[r] = "new" => given[r] = None
    /\ pc[r] \in AssignSteps => given[r] \in Users \cup {None}
    /\ pc[r] \in UpdateSteps \cup {"update_cleanup"} => given[r] \subseteq {r}
    /\ pc[r] \in FileSteps => given[r] \in Files

\* A request that goes on after its check has found the lead.
ReadFits ==
  \A r \in Requests :
    /\ pc[r] \in AssignSteps \cup {"update_timeline", "update_row"} \cup FileSteps
         => read[r] \in Lead
    /\ pc[r] \in AssignSteps => read[r].assignee # given[r]
    /\ pc[r] \in FileSteps => given[r] \in read[r].files

\* Who has the locks of the row, and that they keep it.
LocksFit ==
  /\ \A r \in Requests :
       /\ holder = r <=> pc[r] \in Writing
       /\ r \in sharers => pc[r] = "update_row"
  /\ holder # None \/ sharers # {} => lead # None

Inv == LeadTypeOK /\ GivenFits /\ ReadFits /\ LocksFit

LEMMA AssignedLead ==
  ASSUME NEW row \in Lead, NEW u \in Users \cup {None}
  PROVE  /\ [row EXCEPT !.assignee = u] \in Lead
         /\ [row EXCEPT !.assignee = u].assignee = u
         /\ [row EXCEPT !.assignee = u].files = row.files
  BY DEF Lead

LEMMA WrittenLead ==
  ASSUME NEW row \in Lead, NEW F \in SUBSET Files
  PROVE  /\ [row EXCEPT !.files = F] \in Lead
         /\ [row EXCEPT !.files = F].assignee = row.assignee
         /\ [row EXCEPT !.files = F].files = F
  BY DEF Lead

LEMMA ReadFields ==
  ASSUME NEW row \in Lead
  PROVE  row.assignee \in Users \cup {None} /\ row.files \in SUBSET Files
  BY DEF Lead

\* What the three writers of the row leave there.
LEMMA CommitWrites ==
  ASSUME Inv, NEW r \in Requests, AssignCommit(r)
  PROVE  /\ lead \in Lead /\ given[r] \in Users \cup {None}
         /\ lead' \in Lead /\ lead'.assignee = given[r] /\ lead'.files = lead.files
  BY AssignedLead DEF Inv, LeadTypeOK, GivenFits, LocksFit, Writing, AssignCommit

LEMMA UpdateWrites ==
  ASSUME Inv, NEW r \in Requests, UpdateRow(r), lead # None
  PROVE  /\ lead \in Lead /\ read[r] \in Lead /\ given[r] \subseteq {r}
         /\ lead' \in Lead /\ lead'.assignee = lead.assignee
         /\ given[r] = {} => lead' = lead
         /\ given[r] # {} => lead'.files = read[r].files \cup given[r]
<1>1. lead \in Lead /\ read[r] \in Lead /\ given[r] \subseteq {r}
  BY DEF Inv, LeadTypeOK, GivenFits, ReadFits, UpdateRow
<1>2. read[r].files \cup given[r] \in SUBSET Files
  BY <1>1, ReadFields
<1>3. lead' = IF given[r] = {} THEN lead
              ELSE [lead EXCEPT !.files = read[r].files \cup given[r]]
  BY DEF UpdateRow, Edited
<1> QED
  BY <1>1, <1>2, <1>3, WrittenLead

LEMMA RemovalWrites ==
  ASSUME Inv, NEW r \in Requests, FileUpdate(r), lead # None
  PROVE  /\ lead \in Lead /\ read[r] \in Lead /\ given[r] \in read[r].files
         /\ lead' \in Lead /\ lead'.assignee = lead.assignee
         /\ lead'.files = read[r].files \ {given[r]}
<1>1. lead \in Lead /\ read[r] \in Lead /\ given[r] \in read[r].files
  BY DEF Inv, LeadTypeOK, ReadFits, FileUpdate
<1>2. read[r].files \ {given[r]} \in SUBSET Files
  BY <1>1, ReadFields
<1>3. lead' = [lead EXCEPT !.files = read[r].files \ {given[r]}]
  BY DEF FileUpdate
<1> QED
  BY <1>1, <1>2, <1>3, WrittenLead

\* Every step keeps the types.
LEMMA TypeStep == ASSUME Inv, [Next]_vars PROVE LeadTypeOK'
<1> USE DEF Inv, LeadTypeOK, Labels, GivenFits, ReadFits, LocksFit, Writing
<1>1. ASSUME NEW r \in Requests, AssignFind(r) PROVE LeadTypeOK'
  BY <1>1, ReadFields DEF AssignFind, Goto, queueVars
<1>2. ASSUME NEW r \in Requests, UnassignFind(r) PROVE LeadTypeOK'
  BY <1>2, ReadFields DEF UnassignFind, Goto, queueVars
<1>3. ASSUME NEW r \in Requests, AssignUpdate(r) PROVE LeadTypeOK'
  BY <1>3 DEF AssignUpdate, Goto, queueVars
<1>4. ASSUME NEW r \in Requests, AssignHistory(r) PROVE LeadTypeOK'
  BY <1>4 DEF AssignHistory, Goto, queueVars
<1>5. ASSUME NEW r \in Requests, AssignNotify(r) PROVE LeadTypeOK'
  BY <1>5, ReadFields DEF AssignNotify, Goto, queueVars, Add, Recipient
<1>6. ASSUME NEW r \in Requests, AssignCommit(r) PROVE LeadTypeOK'
  <2>1. lead' \in Lead \cup {None}
    BY <1>6, CommitWrites DEF AssignCommit
  <2> QED
    BY <1>6, <2>1 DEF AssignCommit, Goto, queueVars
<1>7. ASSUME NEW r \in Requests, Upload(r) PROVE LeadTypeOK'
  BY <1>7 DEF Upload, Goto, queueVars
<1>8. ASSUME NEW r \in Requests, UpdateFind(r) PROVE LeadTypeOK'
  BY <1>8 DEF UpdateFind, Goto, queueVars
<1>9. ASSUME NEW r \in Requests, UpdateTimeline(r) PROVE LeadTypeOK'
  BY <1>9 DEF UpdateTimeline, Goto, queueVars
<1>10. ASSUME NEW r \in Requests, UpdateRow(r) PROVE LeadTypeOK'
  <2>1. lead' \in Lead \cup {None}
    BY <1>10, UpdateWrites DEF UpdateRow
  <2> QED
    BY <1>10, <2>1 DEF UpdateRow, Goto, queueVars, MarkStale
<1>11. ASSUME NEW r \in Requests, UpdateCleanup(r) PROVE LeadTypeOK'
  BY <1>11 DEF UpdateCleanup, Goto, queueVars
<1>12. ASSUME NEW r \in Requests, FileFind(r) PROVE LeadTypeOK'
  BY <1>12, ReadFields DEF FileFind, Goto, queueVars
<1>13. ASSUME NEW r \in Requests, FileUpdate(r) PROVE LeadTypeOK'
  <2>1. lead' \in Lead \cup {None}
    BY <1>13, RemovalWrites DEF FileUpdate
  <2> QED
    BY <1>13, <2>1 DEF FileUpdate, Goto, queueVars, MarkStale
<1>14. ASSUME NEW r \in Requests, FileDelete(r) PROVE LeadTypeOK'
  BY <1>14 DEF FileDelete, Goto, queueVars
<1>15. ASSUME NEW r \in Requests, Remove(r) PROVE LeadTypeOK'
  <2>1. history' \in Seq([by: Requests \cup {None}, to: Users \cup {None}])
    BY <1>15, <<>> \in Seq([by: Requests \cup {None}, to: Users \cup {None}]) DEF Remove
  <2> QED
    BY <1>15, <2>1 DEF Remove, Goto, queueVars
<1>16. ASSUME NEW r \in Requests, BreakOff(r) PROVE LeadTypeOK'
  BY <1>16, ReadFields DEF BreakOff, Goto, queueVars, Add, Recipient, Rollback
<1>17. ASSUME QueueNext, UNCHANGED leadVars PROVE LeadTypeOK'
  BY <1>17 DEF leadVars
<1>18. ASSUME UNCHANGED vars PROVE LeadTypeOK'
  BY <1>18 DEF vars, leadVars, queueVars
<1> QED
  BY <1>1, <1>2, <1>3, <1>4, <1>5, <1>6, <1>7, <1>8, <1>9, <1>10, <1>11,
     <1>12, <1>13, <1>14, <1>15, <1>16, <1>17, <1>18
     DEF Next, Assign, Update, RemoveAttachment

\* Every step keeps what a request is about.
LEMMA GivenStep == ASSUME Inv, [Next]_vars PROVE GivenFits'
<1> USE DEF Inv, LeadTypeOK, GivenFits
<1>1. ASSUME NEW r \in Requests, AssignFind(r) PROVE GivenFits'
  BY <1>1 DEF AssignFind, Goto, queueVars
<1>2. ASSUME NEW r \in Requests, UnassignFind(r) PROVE GivenFits'
  BY <1>2 DEF UnassignFind, Goto, queueVars
<1>3. ASSUME NEW r \in Requests, AssignUpdate(r) PROVE GivenFits'
  BY <1>3 DEF AssignUpdate, Goto, queueVars
<1>4. ASSUME NEW r \in Requests, AssignHistory(r) PROVE GivenFits'
  BY <1>4 DEF AssignHistory, Goto, queueVars
<1>5. ASSUME NEW r \in Requests, AssignNotify(r) PROVE GivenFits'
  BY <1>5 DEF AssignNotify, Goto, queueVars, Add, Recipient
<1>6. ASSUME NEW r \in Requests, AssignCommit(r) PROVE GivenFits'
  BY <1>6 DEF AssignCommit, Goto, queueVars
<1>7. ASSUME NEW r \in Requests, Upload(r) PROVE GivenFits'
  BY <1>7 DEF Upload, Goto, queueVars
<1>8. ASSUME NEW r \in Requests, UpdateFind(r) PROVE GivenFits'
  BY <1>8 DEF UpdateFind, Goto, queueVars
<1>9. ASSUME NEW r \in Requests, UpdateTimeline(r) PROVE GivenFits'
  BY <1>9 DEF UpdateTimeline, Goto, queueVars
<1>10. ASSUME NEW r \in Requests, UpdateRow(r) PROVE GivenFits'
  BY <1>10 DEF UpdateRow, Goto, queueVars, MarkStale
<1>11. ASSUME NEW r \in Requests, UpdateCleanup(r) PROVE GivenFits'
  BY <1>11 DEF UpdateCleanup, Goto, queueVars
<1>12. ASSUME NEW r \in Requests, FileFind(r) PROVE GivenFits'
  <2>1. PICK f \in Files : given' = [given EXCEPT ![r] = f] \/ UNCHANGED given
    BY <1>12 DEF FileFind
  <2> QED
    BY <1>12, <2>1 DEF FileFind, Goto
<1>13. ASSUME NEW r \in Requests, FileUpdate(r) PROVE GivenFits'
  BY <1>13 DEF FileUpdate, Goto, queueVars, MarkStale
<1>14. ASSUME NEW r \in Requests, FileDelete(r) PROVE GivenFits'
  BY <1>14 DEF FileDelete, Goto, queueVars
<1>15. ASSUME NEW r \in Requests, Remove(r) PROVE GivenFits'
  BY <1>15 DEF Remove, Goto, queueVars
<1>16. ASSUME NEW r \in Requests, BreakOff(r) PROVE GivenFits'
  BY <1>16 DEF BreakOff, Goto, queueVars, Add, Recipient, Rollback
<1>17. ASSUME QueueNext, UNCHANGED leadVars PROVE GivenFits'
  BY <1>17 DEF leadVars
<1>18. ASSUME UNCHANGED vars PROVE GivenFits'
  BY <1>18 DEF vars, leadVars, queueVars
<1> QED
  BY <1>1, <1>2, <1>3, <1>4, <1>5, <1>6, <1>7, <1>8, <1>9, <1>10, <1>11,
     <1>12, <1>13, <1>14, <1>15, <1>16, <1>17, <1>18
     DEF Next, Assign, Update, RemoveAttachment

\* Every step keeps what a request has found.
LEMMA ReadStep == ASSUME Inv, [Next]_vars PROVE ReadFits'
<1> USE DEF Inv, LeadTypeOK, GivenFits, ReadFits
<1>1. ASSUME NEW r \in Requests, AssignFind(r) PROVE ReadFits'
  BY <1>1, ReadFields DEF AssignFind, Goto, queueVars
<1>2. ASSUME NEW r \in Requests, UnassignFind(r) PROVE ReadFits'
  BY <1>2, ReadFields DEF UnassignFind, Goto, queueVars
<1>3. ASSUME NEW r \in Requests, AssignUpdate(r) PROVE ReadFits'
  BY <1>3 DEF AssignUpdate, Goto, queueVars
<1>4. ASSUME NEW r \in Requests, AssignHistory(r) PROVE ReadFits'
  BY <1>4 DEF AssignHistory, Goto, queueVars
<1>5. ASSUME NEW r \in Requests, AssignNotify(r) PROVE ReadFits'
  BY <1>5, ReadFields DEF AssignNotify, Goto, queueVars, Add, Recipient
<1>6. ASSUME NEW r \in Requests, AssignCommit(r) PROVE ReadFits'
  BY <1>6 DEF AssignCommit, Goto, queueVars
<1>7. ASSUME NEW r \in Requests, Upload(r) PROVE ReadFits'
  BY <1>7 DEF Upload, Goto, queueVars
<1>8. ASSUME NEW r \in Requests, UpdateFind(r) PROVE ReadFits'
  BY <1>8 DEF UpdateFind, Goto, queueVars
<1>9. ASSUME NEW r \in Requests, UpdateTimeline(r) PROVE ReadFits'
  BY <1>9 DEF UpdateTimeline, Goto, queueVars
<1>10. ASSUME NEW r \in Requests, UpdateRow(r) PROVE ReadFits'
  BY <1>10 DEF UpdateRow, Goto, queueVars, MarkStale
<1>11. ASSUME NEW r \in Requests, UpdateCleanup(r) PROVE ReadFits'
  BY <1>11 DEF UpdateCleanup, Goto, queueVars
<1>12. ASSUME NEW r \in Requests, FileFind(r) PROVE ReadFits'
  BY <1>12, ReadFields DEF FileFind, Goto, queueVars
<1>13. ASSUME NEW r \in Requests, FileUpdate(r) PROVE ReadFits'
  BY <1>13 DEF FileUpdate, Goto, queueVars, MarkStale
<1>14. ASSUME NEW r \in Requests, FileDelete(r) PROVE ReadFits'
  BY <1>14 DEF FileDelete, Goto, queueVars
<1>15. ASSUME NEW r \in Requests, Remove(r) PROVE ReadFits'
  BY <1>15 DEF Remove, Goto, queueVars
<1>16. ASSUME NEW r \in Requests, BreakOff(r) PROVE ReadFits'
  BY <1>16, ReadFields DEF BreakOff, Goto, queueVars, Add, Recipient, Rollback
<1>17. ASSUME QueueNext, UNCHANGED leadVars PROVE ReadFits'
  BY <1>17 DEF leadVars
<1>18. ASSUME UNCHANGED vars PROVE ReadFits'
  BY <1>18 DEF vars, leadVars, queueVars
<1> QED
  BY <1>1, <1>2, <1>3, <1>4, <1>5, <1>6, <1>7, <1>8, <1>9, <1>10, <1>11,
     <1>12, <1>13, <1>14, <1>15, <1>16, <1>17, <1>18
     DEF Next, Assign, Update, RemoveAttachment

\* Every step keeps the locks of the row.
LEMMA LocksStep == ASSUME Inv, [Next]_vars PROVE LocksFit'
<1> USE DEF Inv, LeadTypeOK, LocksFit, Writing
<1>1. ASSUME NEW r \in Requests, AssignFind(r) PROVE LocksFit'
  BY <1>1, ReadFields DEF AssignFind, Goto, queueVars
<1>2. ASSUME NEW r \in Requests, UnassignFind(r) PROVE LocksFit'
  BY <1>2, ReadFields DEF UnassignFind, Goto, queueVars
<1>3. ASSUME NEW r \in Requests, AssignUpdate(r) PROVE LocksFit'
  BY <1>3 DEF AssignUpdate, Goto, queueVars
<1>4. ASSUME NEW r \in Requests, AssignHistory(r) PROVE LocksFit'
  BY <1>4 DEF AssignHistory, Goto, queueVars
<1>5. ASSUME NEW r \in Requests, AssignNotify(r) PROVE LocksFit'
  BY <1>5, ReadFields DEF AssignNotify, Goto, queueVars, Add, Recipient
<1>6. ASSUME NEW r \in Requests, AssignCommit(r) PROVE LocksFit'
  <2>1. holder # None \/ sharers # {} => lead' # None
    BY <1>6, CommitWrites DEF AssignCommit
  <2> QED
    BY <1>6, <2>1 DEF AssignCommit, Goto
<1>7. ASSUME NEW r \in Requests, Upload(r) PROVE LocksFit'
  BY <1>7 DEF Upload, Goto, queueVars
<1>8. ASSUME NEW r \in Requests, UpdateFind(r) PROVE LocksFit'
  BY <1>8 DEF UpdateFind, Goto, queueVars
<1>9. ASSUME NEW r \in Requests, UpdateTimeline(r) PROVE LocksFit'
  BY <1>9 DEF UpdateTimeline, Goto, queueVars
<1>10. ASSUME NEW r \in Requests, UpdateRow(r) PROVE LocksFit'
  <2>1. holder # None \/ sharers # {} => lead' # None
    BY <1>10, UpdateWrites DEF UpdateRow
  <2> QED
    BY <1>10, <2>1 DEF UpdateRow, Goto
<1>11. ASSUME NEW r \in Requests, UpdateCleanup(r) PROVE LocksFit'
  BY <1>11 DEF UpdateCleanup, Goto, queueVars
<1>12. ASSUME NEW r \in Requests, FileFind(r) PROVE LocksFit'
  BY <1>12, ReadFields DEF FileFind, Goto, queueVars
<1>13. ASSUME NEW r \in Requests, FileUpdate(r) PROVE LocksFit'
  <2>1. holder # None \/ sharers # {} => lead' # None
    BY <1>13, RemovalWrites DEF FileUpdate
  <2> QED
    BY <1>13, <2>1 DEF FileUpdate, Goto
<1>14. ASSUME NEW r \in Requests, FileDelete(r) PROVE LocksFit'
  BY <1>14 DEF FileDelete, Goto, queueVars
<1>15. ASSUME NEW r \in Requests, Remove(r) PROVE LocksFit'
  BY <1>15 DEF Remove, Goto, queueVars
<1>16. ASSUME NEW r \in Requests, BreakOff(r) PROVE LocksFit'
  BY <1>16, ReadFields DEF BreakOff, Goto, queueVars, Add, Recipient, Rollback
<1>17. ASSUME QueueNext, UNCHANGED leadVars PROVE LocksFit'
  BY <1>17 DEF leadVars
<1>18. ASSUME UNCHANGED vars PROVE LocksFit'
  BY <1>18 DEF vars, leadVars, queueVars
<1> QED
  BY <1>1, <1>2, <1>3, <1>4, <1>5, <1>6, <1>7, <1>8, <1>9, <1>10, <1>11,
     <1>12, <1>13, <1>14, <1>15, <1>16, <1>17, <1>18
     DEF Next, Assign, Update, RemoveAttachment

-----------------------------------------------------------------------------
(* Attachments *)

\* A request whose upload can be in the row.
Written(r) ==
  pc[r] = "updated" \/ (r \in stale /\ pc[r] \in {"update_cleanup", "failed"})

\* Somebody wrote with an old reading that had f, or uploaded f.
Blamed(f) == \E r \in stale : f = r \/ f \in read[r].files

\* What a request has uploaded is there while it may write it.
UploadsStored == \A r \in Requests : pc[r] \in UpdateSteps => given[r] \subseteq stored

\* Only an upload that was written is in the row or was ever read there.
Attached ==
  \A r \in Requests :
    /\ lead # None /\ r \in lead.files => Written(r)
    /\ \A q \in Requests : read[q] \in Lead /\ r \in read[q].files => Written(r)

\* A file that was taken from the row is back only by such a writer.
RemovedBlamed ==
  \A r \in Requests :
    pc[r] = "file_delete" /\ lead # None /\ given[r] \in lead.files => Blamed(given[r])

\* Such a writer has read the lead and reads it no more.
StaleDone ==
  \A r \in stale :
    /\ read[r] \in Lead
    /\ pc[r] \in {"updated", "update_cleanup", "failed", "file_delete", "file_removed"}

FilesInv == UploadsStored /\ Attached /\ RemovedBlamed /\ StaleDone /\ AttachmentsStored

\* Every step keeps the invariant of the files.
LEMMA FilesStep == ASSUME Inv, FilesInv, [Next]_vars PROVE FilesInv'
<1> USE DEF Inv, LeadTypeOK, GivenFits, ReadFits, LocksFit, FilesInv, UploadsStored,
           Attached, RemovedBlamed, StaleDone, AttachmentsStored, Written, Blamed
<1>1. ASSUME NEW r \in Requests, AssignFind(r) PROVE FilesInv'
  BY <1>1 DEF AssignFind, Goto, queueVars
<1>2. ASSUME NEW r \in Requests, UnassignFind(r) PROVE FilesInv'
  BY <1>2 DEF UnassignFind, Goto, queueVars
<1>3. ASSUME NEW r \in Requests, AssignUpdate(r) PROVE FilesInv'
  BY <1>3 DEF AssignUpdate, Goto, queueVars
<1>4. ASSUME NEW r \in Requests, AssignHistory(r) PROVE FilesInv'
  BY <1>4 DEF AssignHistory, Goto, queueVars
<1>5. ASSUME NEW r \in Requests, AssignNotify(r) PROVE FilesInv'
  BY <1>5 DEF AssignNotify, Goto, queueVars
<1>6. ASSUME NEW r \in Requests, AssignCommit(r) PROVE FilesInv'
  <2>1. lead # None /\ lead'.files = lead.files
    BY <1>6, CommitWrites
  <2>2. pc[r] = "assign_commit" /\ pc' = [pc EXCEPT ![r] = "assigned"]
    BY <1>6 DEF AssignCommit, Goto
  <2>3. UNCHANGED <<given, read, stored, stale>>
    BY <1>6 DEF AssignCommit
  <2>4. UploadsStored' /\ StaleDone'
    BY <2>2, <2>3
  <2>5. Attached'
    BY <2>1, <2>2, <2>3
  <2>6. RemovedBlamed' /\ AttachmentsStored'
    BY <2>1, <2>2, <2>3
  <2> QED
    BY <2>4, <2>5, <2>6
<1>7. ASSUME NEW r \in Requests, Upload(r) PROVE FilesInv'
  BY <1>7 DEF Upload, Goto, queueVars
<1>8. ASSUME NEW r \in Requests, UpdateFind(r) PROVE FilesInv'
  BY <1>8 DEF UpdateFind, Goto, queueVars
<1>9. ASSUME NEW r \in Requests, UpdateTimeline(r) PROVE FilesInv'
  BY <1>9 DEF UpdateTimeline, Goto, queueVars
<1>10. ASSUME NEW r \in Requests, UpdateRow(r) PROVE FilesInv'
  BY <1>10, UpdateWrites DEF UpdateRow, Goto, MarkStale
<1>11. ASSUME NEW r \in Requests, UpdateCleanup(r) PROVE FilesInv'
  BY <1>11 DEF UpdateCleanup, Goto
<1>12. ASSUME NEW r \in Requests, FileFind(r) PROVE FilesInv'
  <2>1. PICK f \in Files :
           IF lead # None /\ f \in lead.files
           THEN /\ given' = [given EXCEPT ![r] = f]
                /\ read' = [read EXCEPT ![r] = lead]
                /\ Goto(r, "file_update")
           ELSE Goto(r, "refused") /\ UNCHANGED <<given, read>>
    BY <1>12 DEF FileFind
  <2>2. pc[r] = "new" /\ UNCHANGED <<lead, stored, stale>>
    BY <1>12 DEF FileFind
  <2>3. UploadsStored' /\ StaleDone'
    BY <2>1, <2>2 DEF Goto
  <2>4. Attached'
    BY <2>1, <2>2 DEF Goto
  <2>5. RemovedBlamed' /\ AttachmentsStored'
    BY <2>1, <2>2 DEF Goto
  <2> QED
    BY <2>3, <2>4, <2>5
<1>13. ASSUME NEW r \in Requests, FileUpdate(r) PROVE FilesInv'
  BY <1>13, RemovalWrites DEF FileUpdate, Goto, MarkStale
<1>14. ASSUME NEW r \in Requests, FileDelete(r) PROVE FilesInv'
  BY <1>14 DEF FileDelete, Goto
<1>15. ASSUME NEW r \in Requests, Remove(r) PROVE FilesInv'
  BY <1>15 DEF Remove, Goto, queueVars
<1>16. ASSUME NEW r \in Requests, BreakOff(r) PROVE FilesInv'
  BY <1>16 DEF BreakOff, Goto, queueVars, Rollback
<1>17. ASSUME QueueNext, UNCHANGED leadVars PROVE FilesInv'
  BY <1>17 DEF leadVars
<1>18. ASSUME UNCHANGED vars PROVE FilesInv'
  BY <1>18 DEF vars, leadVars, queueVars
<1> QED
  BY <1>1, <1>2, <1>3, <1>4, <1>5, <1>6, <1>7, <1>8, <1>9, <1>10, <1>11,
     <1>12, <1>13, <1>14, <1>15, <1>16, <1>17, <1>18
     DEF Next, Assign, Update, RemoveAttachment

-----------------------------------------------------------------------------
(* Notices and the history *)

LEMMA AddBecomes ==
  ASSUME job \in [Requests -> Job], NEW j \in Requests, Add(j)
  PROVE  Becomes(j, "waiting", 0, 0)
<1> DEFINE new == [Fresh EXCEPT !.step = "waiting"]
<1>1. new \in Job /\ new.step = "waiting" /\ new.attempts = 0 /\ new.stalls = 0
  BY DEF Job, Fresh
<1>2. job' = [job EXCEPT ![j] = new]
  BY DEF Add
<1> QED
  BY <1>1, <1>2, JobWith

\* A job stays in the queue's books.
LEMMA QueueKeeps ==
  ASSUME QInv, NEW j \in Requests, Work(j) \/ Stall(j)
  PROVE  \A i \in Requests : job'[i].step = "none" <=> job[i].step = "none"
<1>0. job \in [Requests -> Job]
  BY DEF QInv, QueueTypeOK, Job
<1>1. CASE Work(j)
  <2>1. job[j].step \notin {"none", "completed", "failed"}
    BY <1>1 DEF Work, Take, CreateRow, Send, Mark, MarkFailed, Finish
  <2>2. job[j].attempts < MaxAttempts
    BY <2>1 DEF QInv, SendsCounted
  <2>3. \/ \E step \in Steps \ {"none"} : Go(j, step)
        \/ AttemptFailed(j)
    BY <1>1 DEF Work, Take, CreateRow, Send, Mark, MarkFailed, Finish
  <2>4. CASE \E step \in Steps \ {"none"} : Go(j, step)
    BY <1>0, <2>1, <2>4, GoBecomes DEF Becomes
  <2>5. CASE AttemptFailed(j)
    BY <1>0, <2>1, <2>2, <2>5, AttemptBecomes DEF Becomes
  <2> QED
    BY <2>3, <2>4, <2>5
<1>2. CASE Stall(j)
  BY <1>0, <1>2, StallBecomes DEF Becomes, Stall, Active
<1> QED
  BY <1>1, <1>2

\* A job is added by an assignment that got that far, and only once.
JobsNamed ==
  \A r \in Requests :
    job[r].step # "none" => pc[r] \in {"assign_commit", "assigned", "failed"}

\* What the notice of an assignment says.
NoticeSent ==
  \A r \in Requests :
    pc[r] \in {"assign_commit", "assigned"} =>
      job[r].step # "none" /\ told[r] = Recipient(r)

Inserted == {"assign_notify", "assign_commit", "assigned", "failed"}

\* The rows of the history are of different requests, each past its insert.
RowsOnce ==
  /\ \A i, k \in 1..Len(history) : history[i].by = history[k].by => i = k
  /\ \A i \in 1..Len(history) :
       history[i].by # None => pc[history[i].by] \in Inserted

\* The last row is that of the transaction that is under way.
LastRow ==
  \A r \in Requests :
    pc[r] \in {"assign_notify", "assign_commit"} =>
      /\ history # <<>>
      /\ history[Len(history)].by = r
      /\ history[Len(history)].to = given[r]

\* A transaction that was not overtaken knows the assignee it replaces.
ReadCurrent ==
  \A r \in Requests :
    pc[r] \in Writing /\ r \notin overtaken => read[r].assignee = lead.assignee

Progress == JobsNamed /\ NoticeSent /\ RowsOnce /\ LastRow /\ ReadCurrent

\* A row that is appended, and the others.
LEMMA AppendedRow ==
  ASSUME LeadTypeOK, NEW r \in Requests, AssignHistory(r)
  PROVE  /\ Len(history') = Len(history) + 1 /\ Len(history) \in Nat
         /\ history' # <<>>
         /\ \A i \in 1..Len(history) : history'[i] = history[i]
         /\ history'[Len(history) + 1].by = r
         /\ history'[Len(history) + 1].to = given[r]
  BY DEF LeadTypeOK, AssignHistory

LEMMA RowTypes ==
  ASSUME LeadTypeOK
  PROVE  /\ Len(history) \in Nat
         /\ \A i \in 1..Len(history) :
              history[i].by \in Requests \cup {None} /\ history[i].to \in Users \cup {None}
<1> DEFINE HistoryRow == [by: Requests \cup {None}, to: Users \cup {None}]
<1>1. history \in Seq(HistoryRow)
  BY DEF LeadTypeOK
<1> HIDE DEF HistoryRow
<1>2. Len(history) \in Nat /\ \A i \in 1..Len(history) : history[i] \in HistoryRow
  BY <1>1
<1> QED
  BY <1>2 DEF HistoryRow

\* The rows stay as they are while nobody goes back.
LEMMA RowsStay ==
  ASSUME LeadTypeOK, RowsOnce, UNCHANGED history,
         \A q \in Requests : pc[q] \in Inserted => pc'[q] \in Inserted
  PROVE  RowsOnce'
  BY RowTypes DEF RowsOnce

\* Every step keeps the invariant of the assignments.
LEMMA ProgressStep == ASSUME Inv, QInv, Progress, [Next]_vars PROVE Progress'
<1> USE DEF Inv, LeadTypeOK, GivenFits, ReadFits, LocksFit, Writing, Progress,
           JobsNamed, NoticeSent, LastRow, ReadCurrent
<1>0. job \in [Requests -> Job]
  BY DEF QInv, QueueTypeOK, Job
<1>1. ASSUME NEW r \in Requests, AssignFind(r) PROVE Progress'
  <2>1. JobsNamed' /\ NoticeSent'
    BY <1>1 DEF AssignFind, Goto, queueVars, Recipient
  <2>2. RowsOnce'
    BY <1>1, RowsStay DEF AssignFind, Goto, Inserted
  <2>3. LastRow'
    BY <1>1 DEF AssignFind, Goto
  <2>4. ReadCurrent'
    BY <1>1 DEF AssignFind, Goto
  <2> QED
    BY <2>1, <2>2, <2>3, <2>4
<1>2. ASSUME NEW r \in Requests, UnassignFind(r) PROVE Progress'
  <2>1. JobsNamed' /\ NoticeSent'
    BY <1>2 DEF UnassignFind, Goto, queueVars, Recipient
  <2>2. RowsOnce'
    BY <1>2, RowsStay DEF UnassignFind, Goto, Inserted
  <2>3. LastRow'
    BY <1>2 DEF UnassignFind, Goto
  <2>4. ReadCurrent'
    BY <1>2 DEF UnassignFind, Goto
  <2> QED
    BY <2>1, <2>2, <2>3, <2>4
<1>3. ASSUME NEW r \in Requests, AssignUpdate(r) PROVE Progress'
  <2>1. JobsNamed' /\ NoticeSent'
    BY <1>3 DEF AssignUpdate, Goto, queueVars, Recipient
  <2>2. RowsOnce'
    BY <1>3, RowsStay DEF AssignUpdate, Goto, Inserted
  <2>3. LastRow'
    BY <1>3 DEF AssignUpdate, Goto
  <2>4. ReadCurrent'
    BY <1>3 DEF AssignUpdate, Goto
  <2> QED
    BY <2>1, <2>2, <2>3, <2>4
<1>4. ASSUME NEW r \in Requests, AssignHistory(r) PROVE Progress'
  <2>1. JobsNamed' /\ NoticeSent' /\ ReadCurrent'
    BY <1>4 DEF AssignHistory, Goto, queueVars, Recipient
  <2>2. /\ pc[r] = "assign_history" /\ pc' = [pc EXCEPT ![r] = "assign_notify"]
        /\ UNCHANGED given
    BY <1>4 DEF AssignHistory, Goto
  <2> DEFINE n == Len(history)
  <2>3. /\ n \in Nat /\ Len(history') = n + 1 /\ history' # <<>>
        /\ \A i \in 1..n : history'[i] = history[i]
        /\ history'[n + 1].by = r /\ history'[n + 1].to = given[r]
    BY <1>4, AppendedRow
  <2> HIDE DEF n
  <2>4. \A i \in 1..n : history[i].by # r
    BY <2>2 DEF RowsOnce, Inserted, n
  <2>5. LastRow'
    BY <2>2, <2>3
  <2>6. \A i \in 1..n : history[i].by \in Requests \cup {None}
    BY RowTypes DEF n
  <2>7. \A i \in 1..n : history[i].by # None => pc'[history[i].by] \in Inserted
    BY <2>2, <2>4, <2>6 DEF RowsOnce, Inserted, n
  <2>8. \A i \in 1..(n + 1) : i \in 1..n \/ i = n + 1
    BY <2>3
  <2>9. \A i, k \in 1..n : history[i].by = history[k].by => i = k
    BY DEF RowsOnce, n
  <2>10. RowsOnce'
    BY <2>2, <2>3, <2>4, <2>7, <2>8, <2>9 DEF RowsOnce, Inserted
  <2> QED
    BY <2>1, <2>5, <2>10
<1>5. ASSUME NEW r \in Requests, AssignNotify(r) PROVE Progress'
  <2>1. Becomes(r, "waiting", 0, 0)
    BY <1>0, <1>5, AddBecomes DEF AssignNotify
  <2>2. JobsNamed' /\ NoticeSent'
    BY <1>5, <2>1 DEF AssignNotify, Goto, Becomes, Recipient
  <2>3. RowsOnce' /\ LastRow' /\ ReadCurrent'
    BY <1>5, RowsStay DEF AssignNotify, Goto, Inserted
  <2> QED
    BY <2>2, <2>3
<1>6. ASSUME NEW r \in Requests, AssignCommit(r) PROVE Progress'
  BY <1>6, CommitWrites, RowsStay DEF Inserted, AssignCommit, Goto, queueVars, Recipient
<1>7. ASSUME NEW r \in Requests, Upload(r) PROVE Progress'
  BY <1>7, RowsStay DEF Inserted, Upload, Goto, queueVars, Recipient
<1>8. ASSUME NEW r \in Requests, UpdateFind(r) PROVE Progress'
  BY <1>8, RowsStay DEF Inserted, UpdateFind, Goto, queueVars, Recipient
<1>9. ASSUME NEW r \in Requests, UpdateTimeline(r) PROVE Progress'
  <2>1. JobsNamed' /\ NoticeSent'
    BY <1>9 DEF UpdateTimeline, Goto, queueVars, Recipient
  <2>2. RowsOnce'
    BY <1>9, RowsStay DEF UpdateTimeline, Goto, Inserted
  <2>3. LastRow'
    BY <1>9 DEF UpdateTimeline, Goto
  <2>4. ReadCurrent'
    BY <1>9 DEF UpdateTimeline, Goto
  <2> QED
    BY <2>1, <2>2, <2>3, <2>4
<1>10. ASSUME NEW r \in Requests, UpdateRow(r) PROVE Progress'
  BY <1>10, UpdateWrites, RowsStay DEF Inserted, UpdateRow, Goto, queueVars, MarkStale, Recipient
<1>11. ASSUME NEW r \in Requests, UpdateCleanup(r) PROVE Progress'
  BY <1>11, RowsStay DEF Inserted, UpdateCleanup, Goto, queueVars, Recipient
<1>12. ASSUME NEW r \in Requests, FileFind(r) PROVE Progress'
  <2>1. JobsNamed' /\ NoticeSent'
    BY <1>12 DEF FileFind, Goto, queueVars, Recipient
  <2>2. RowsOnce'
    BY <1>12, RowsStay DEF FileFind, Goto, Inserted
  <2>3. LastRow'
    BY <1>12 DEF FileFind, Goto
  <2>4. ReadCurrent'
    BY <1>12 DEF FileFind, Goto
  <2> QED
    BY <2>1, <2>2, <2>3, <2>4
<1>13. ASSUME NEW r \in Requests, FileUpdate(r) PROVE Progress'
  <2>1. lead # None => lead'.assignee = lead.assignee
    BY <1>13, RemovalWrites
  <2>2. /\ lead = None => UNCHANGED lead
        /\ pc[r] = "file_update" /\ holder = None
        /\ UNCHANGED <<given, read, history, told, overtaken, job>>
    BY <1>13 DEF FileUpdate, queueVars
  <2>3. pc' = [pc EXCEPT ![r] = "failed"] \/ pc' = [pc EXCEPT ![r] = "file_delete"]
    BY <1>13 DEF FileUpdate, Goto
  <2>4. JobsNamed' /\ NoticeSent'
    BY <2>2, <2>3 DEF Recipient
  <2>5. RowsOnce'
    BY <2>2, <2>3, RowsStay DEF Inserted
  <2>6. LastRow' /\ ReadCurrent'
    BY <2>1, <2>2, <2>3
  <2> QED
    BY <2>4, <2>5, <2>6
<1>14. ASSUME NEW r \in Requests, FileDelete(r) PROVE Progress'
  BY <1>14, RowsStay DEF Inserted, FileDelete, Goto, queueVars, Recipient
<1>15. ASSUME NEW r \in Requests, Remove(r) PROVE Progress'
  <2>1. JobsNamed' /\ NoticeSent'
    BY <1>15 DEF Remove, Goto, queueVars, Recipient
  <2>2. ASSUME lead = None PROVE RowsOnce'
    <3>1. pc' = [pc EXCEPT ![r] = "failed"] /\ UNCHANGED history
      BY <1>15, <2>2 DEF Remove, Goto
    <3> QED
      BY <3>1, RowsStay DEF Inserted
  <2>3. ASSUME lead # None PROVE RowsOnce'
    BY <1>15, <2>3 DEF Remove, RowsOnce
  <2>4. LastRow' /\ ReadCurrent'
    BY <1>15 DEF Remove, Goto
  <2> QED
    BY <2>1, <2>2, <2>3, <2>4
<1>16. ASSUME NEW r \in Requests, BreakOff(r) PROVE Progress'
  <2>1. \/ UNCHANGED job
        \/ pc[r] = "assign_notify" /\ Becomes(r, "waiting", 0, 0)
    BY <1>0, <1>16, AddBecomes DEF BreakOff
  <2>2. JobsNamed' /\ NoticeSent'
    BY <1>16, <2>1 DEF BreakOff, Goto, Becomes, Recipient
  <2>3. pc' = [pc EXCEPT ![r] = "failed"] \/ pc' = [pc EXCEPT ![r] = "update_cleanup"]
    BY <1>16 DEF BreakOff, Goto
  <2>4. pc[r] \notin {"new", "assigned"} /\ UNCHANGED <<given, read, lead, history, overtaken>>
    BY <1>16 DEF BreakOff
  <2>5. pc'[r] = "failed" \/ pc[r] \in UpdateSteps
    BY <1>16 DEF BreakOff, Goto
  <2>6. RowsOnce'
    BY <2>3, <2>4, <2>5, RowsStay DEF Inserted
  <2>7. LastRow' /\ ReadCurrent'
    BY <2>3, <2>4
  <2> QED
    BY <2>2, <2>6, <2>7
<1>17. ASSUME QueueNext, UNCHANGED leadVars PROVE Progress'
  <2>1. PICK j \in Requests : Work(j) \/ Stall(j)
    BY <1>17 DEF QueueNext
  <2>2. \A i \in Requests : job'[i].step = "none" <=> job[i].step = "none"
    BY <2>1, QueueKeeps
  <2> QED
    BY <1>17, <2>2, RowsStay DEF leadVars, Recipient
<1>18. ASSUME UNCHANGED vars PROVE Progress'
  BY <1>18, RowsStay DEF vars, leadVars, queueVars, Recipient
<1> QED
  BY <1>1, <1>2, <1>3, <1>4, <1>5, <1>6, <1>7, <1>8, <1>9, <1>10, <1>11,
     <1>12, <1>13, <1>14, <1>15, <1>16, <1>17, <1>18
     DEF Next, Assign, Update, RemoveAttachment

HistoryProps == HistoryNamesAssignee /\ HistoryHasNoRepeats /\ ConcernedAreTold

LEMMA SeenSame ==
  ASSUME LeadTypeOK, UNCHANGED history,
         \A q \in Requests : pc'[q] = "assigned" <=> pc[q] = "assigned"
  PROVE  Seen' = Seen
  BY RowTypes DEF Seen

\* What the history tells stays true while it is the same, of the same
\* assignee, with the same notices.
LEMMA PropsStay ==
  ASSUME LeadTypeOK, HistoryProps, UNCHANGED history, overtaken \subseteq overtaken',
         \A q \in Requests : pc'[q] = "assigned" <=> pc[q] = "assigned",
         \A q \in Requests : pc[q] = "assigned" => told'[q] = told[q],
         \A q \in Requests : job[q].step # "none" => job'[q].step # "none",
         lead' # None => lead # None /\ lead'.assignee = lead.assignee
  PROVE  HistoryProps'
<1>1. Seen' = Seen
  BY SeenSame
<1>2. \A i \in Seen : i \in 1..Len(history) /\
        (history[i].by # None => history[i].by \in Requests /\ pc[history[i].by] = "assigned")
  BY RowTypes DEF Seen
<1>3. HistoryNamesAssignee'
  BY <1>1 DEF HistoryProps, HistoryNamesAssignee, AssigneeAfter
<1>4. HistoryHasNoRepeats'
  BY <1>1 DEF HistoryProps, HistoryHasNoRepeats, AssigneeAfter, NextSeen
<1>5. ConcernedAreTold'
  BY <1>1, <1>2 DEF HistoryProps, ConcernedAreTold, AssigneeAfter, NextSeen
<1> QED
  BY <1>3, <1>4, <1>5 DEF HistoryProps

\* A row that is inserted is not to be seen yet.
LEMMA InsertHidden ==
  ASSUME LeadTypeOK, NEW r \in Requests, AssignHistory(r)
  PROVE  /\ Seen' = Seen
         /\ \A i \in Seen : i \in 1..Len(history) /\ history'[i] = history[i]
<1> DEFINE n == Len(history)
<1>1. /\ n \in Nat /\ Len(history') = n + 1
      /\ \A i \in 1..n : history'[i] = history[i]
      /\ history'[n + 1].by = r
  BY AppendedRow
<1>2. pc' = [pc EXCEPT ![r] = "assign_notify"] /\ pc[r] = "assign_history"
  BY DEF AssignHistory, Goto
<1>3. \A i \in 1..n : history[i].by \in Requests \cup {None}
  BY RowTypes
<1>4. r # None /\ pc \in [Requests -> Labels]
  BY DEF LeadTypeOK
<1> HIDE DEF n
<1>5. \A i \in 1..(n + 1) : i \in 1..n \/ i = n + 1
  BY <1>1
<1>6. Seen = {i \in 1..n : history[i].by = None \/ pc[history[i].by] = "assigned"}
  BY DEF Seen, n
<1>7. Seen' = {i \in 1..(n + 1) : history'[i].by = None \/ pc'[history'[i].by] = "assigned"}
  BY <1>1 DEF Seen
<1>8. Seen' = Seen
  BY <1>1, <1>2, <1>3, <1>4, <1>5, <1>6, <1>7
<1> QED
  BY <1>1, <1>6, <1>8 DEF n

LEMMA SeenInsert ==
  ASSUME Inv, QInv, Progress, HistoryProps, NEW r \in Requests, AssignHistory(r)
  PROVE  HistoryProps'
<1>1. UNCHANGED <<lead, told, overtaken, job>>
  BY DEF AssignHistory, queueVars
<1>2. Seen' = Seen /\ \A i \in Seen : i \in 1..Len(history) /\ history'[i] = history[i]
  BY InsertHidden DEF Inv
<1>3. \A i \in Seen \cup {0} : AssigneeAfter(i)' = AssigneeAfter(i)
  BY <1>2 DEF AssigneeAfter
<1>4. \A k, i : NextSeen(k, i)' <=> NextSeen(k, i)
  BY <1>2 DEF NextSeen
<1>5. HistoryNamesAssignee'
  BY <1>1, <1>2, <1>3 DEF HistoryProps, HistoryNamesAssignee
<1>6. HistoryHasNoRepeats'
  BY <1>1, <1>2, <1>3, <1>4 DEF HistoryProps, HistoryHasNoRepeats
<1>7. ConcernedAreTold'
  BY <1>1, <1>2, <1>3, <1>4 DEF HistoryProps, ConcernedAreTold
<1> QED
  BY <1>5, <1>6, <1>7 DEF HistoryProps

\* A transaction that commits adds its row to what is seen, after the others.
LEMMA CommitShows ==
  ASSUME Inv, Progress, NEW r \in Requests, AssignCommit(r), NEW n, n = Len(history)
  PROVE  /\ n \in 1..n /\ history[n].by = r /\ history[n].to = given[r]
         /\ Seen' = Seen \cup {n} /\ n \notin Seen
         /\ \A i \in Seen : i \in 1..n /\ i < n /\ history[i].by # r
<1>0. LeadTypeOK
  BY DEF Inv
<1>1. /\ pc[r] = "assign_commit" /\ pc' = [pc EXCEPT ![r] = "assigned"]
      /\ UNCHANGED history
  BY DEF AssignCommit, Goto
<1>3. history # <<>> /\ history[n].by = r /\ history[n].to = given[r]
  BY <1>1 DEF Progress, LastRow
<1>4. n \in Nat /\ n \in 1..n /\ \A i \in 1..n : history[i].by \in Requests \cup {None}
  BY <1>0, <1>3, RowTypes DEF LeadTypeOK
<1>5. r # None /\ pc \in [Requests -> Labels]
  BY DEF Inv, LeadTypeOK
<1>6. \A i \in 1..n : history[i].by = r => i = n
  BY <1>3, <1>4 DEF Progress, RowsOnce
<1>7. Seen = {i \in 1..n : history[i].by = None \/ pc[history[i].by] = "assigned"}
  BY DEF Seen
<1>8. Seen' = {i \in 1..n : history[i].by = None \/ pc'[history[i].by] = "assigned"}
  BY <1>1 DEF Seen
<1>9. Seen' = Seen \cup {n} /\ n \notin Seen
  BY <1>1, <1>3, <1>4, <1>5, <1>6, <1>7, <1>8
<1>10. \A i \in Seen : i \in 1..n /\ i < n
  BY <1>4, <1>7, <1>9
<1> QED
  BY <1>3, <1>4, <1>6, <1>9, <1>10

LEMMA SeenCommit ==
  ASSUME Inv, QInv, Progress, HistoryProps, NEW r \in Requests, AssignCommit(r)
  PROVE  HistoryProps'
<1> DEFINE n == Len(history)
<1>0. LeadTypeOK
  BY DEF Inv
<1>1. /\ pc[r] = "assign_commit" /\ pc' = [pc EXCEPT ![r] = "assigned"]
      /\ UNCHANGED <<history, told, overtaken, job>>
  BY DEF AssignCommit, Goto, queueVars
<1>2. /\ lead # None /\ lead'.assignee = given[r]
      /\ read[r].assignee # given[r]
  BY <1>1, CommitWrites DEF Inv, ReadFits
<1>shows. /\ n \in 1..n /\ history[n].by = r /\ history[n].to = given[r]
          /\ Seen' = Seen \cup {n} /\ n \notin Seen
          /\ \A i \in Seen : i \in 1..n /\ i < n /\ history[i].by # r
  BY CommitShows
<1>3. history[n].by = r /\ history[n].to = given[r]
  BY <1>shows
<1>4. n \in Nat /\ n \in 1..n
  BY <1>0, <1>shows, RowTypes
<1>6. /\ job[r].step # "none"
      /\ told[r] = IF given[r] = None THEN read[r].assignee ELSE given[r]
      /\ r \notin overtaken => read[r].assignee = lead.assignee
  BY <1>1 DEF Progress, NoticeSent, ReadCurrent, Writing, Recipient
<1>same. n' = n
  BY <1>1
<1> HIDE DEF n
<1>7. Seen' = Seen \cup {n} /\ n \notin Seen
  BY <1>shows
<1>8. \A i \in Seen : i \in 1..n /\ i < n
  BY <1>shows
<1>9. \A i : AssigneeAfter(i)' = AssigneeAfter(i)
  BY <1>1 DEF AssigneeAfter
<1>10. \A i \in Seen, k \in Seen \cup {0} : NextSeen(k, i)' => NextSeen(k, i)
  BY <1>7 DEF NextSeen
<1>11. \A k \in Seen' \cup {0} : NextSeen(k, n)' =>
         k \in Seen \cup {0} /\ AssigneeAfter(k) = lead.assignee
  <2> SUFFICES ASSUME NEW k \in Seen' \cup {0}, NextSeen(k, n)'
               PROVE  k \in Seen \cup {0} /\ AssigneeAfter(k) = lead.assignee
    OBVIOUS
  <2>1. k \in Int /\ k < n /\ \A m \in Seen : m <= k \/ n <= m
    BY <1>4, <1>7, <1>8, <1>same DEF NextSeen
  <2>2. k \in Seen \cup {0} /\ \A m \in Seen : m <= k
    BY <1>4, <1>7, <1>8, <2>1
  <2> QED
    BY <1>2, <2>2 DEF HistoryProps, HistoryNamesAssignee
<1>12. \A i \in Seen, k \in Seen' \cup {0} : NextSeen(k, i)' => k \in Seen \cup {0}
  BY <1>4, <1>7, <1>8 DEF NextSeen
<1>13. HistoryNamesAssignee'
  <2>1. \A i \in Seen' \cup {0} : (\A m \in Seen' : m <= i) => i = n
    BY <1>4, <1>7, <1>8
  <2>2. AssigneeAfter(n) = given[r]
    BY <1>3, <1>4 DEF AssigneeAfter
  <2> QED
    BY <1>2, <1>9, <2>1, <2>2 DEF HistoryNamesAssignee
<1>14. HistoryHasNoRepeats'
  <2> SUFFICES ASSUME NEW k \in Seen' \cup {0}, NEW i \in Seen', NextSeen(k, i)',
                      AssigneeAfter(k)' = history'[i].to
               PROVE  history'[i].by \in overtaken'
    BY DEF HistoryHasNoRepeats
  <2>1. CASE i = n
    BY <1>1, <1>2, <1>3, <1>6, <1>9, <1>11, <1>same, <2>1
  <2>2. CASE i # n
    BY <1>1, <1>7, <1>9, <1>10, <1>12, <2>2 DEF HistoryProps, HistoryHasNoRepeats
  <2> QED
    BY <2>1, <2>2
<1>15. ConcernedAreTold'
  <2> SUFFICES ASSUME NEW k \in Seen' \cup {0}, NEW i \in Seen', NextSeen(k, i)',
                      history'[i].by # None
               PROVE  /\ job'[history'[i].by].step # "none"
                      /\ history'[i].by \notin overtaken' =>
                           told'[history'[i].by] =
                             IF history'[i].to = None THEN AssigneeAfter(k)'
                             ELSE history'[i].to
    BY DEF ConcernedAreTold
  <2>1. CASE i = n
    BY <1>1, <1>2, <1>3, <1>6, <1>9, <1>11, <1>same, <2>1
  <2>2. CASE i # n
    BY <1>1, <1>7, <1>9, <1>10, <1>12, <2>2 DEF HistoryProps, ConcernedAreTold
  <2> QED
    BY <2>1, <2>2
<1> QED
  BY <1>13, <1>14, <1>15 DEF HistoryProps

\* Every step keeps what the history tells.
LEMMA PropsStep == ASSUME Inv, QInv, Progress, HistoryProps, [Next]_vars PROVE HistoryProps'
<1> USE DEF Inv, LeadTypeOK
<1>0. job \in [Requests -> Job]
  BY DEF QInv, QueueTypeOK, Job
<1>1. ASSUME NEW r \in Requests, AssignFind(r) PROVE HistoryProps'
  BY <1>1, PropsStay DEF AssignFind, Goto, queueVars
<1>2. ASSUME NEW r \in Requests, UnassignFind(r) PROVE HistoryProps'
  BY <1>2, PropsStay DEF UnassignFind, Goto, queueVars
<1>3. ASSUME NEW r \in Requests, AssignUpdate(r) PROVE HistoryProps'
  BY <1>3, PropsStay DEF AssignUpdate, Goto, queueVars
<1>4. ASSUME NEW r \in Requests, AssignHistory(r) PROVE HistoryProps'
  BY <1>4, SeenInsert
<1>5. ASSUME NEW r \in Requests, AssignNotify(r) PROVE HistoryProps'
  <2>1. Becomes(r, "waiting", 0, 0)
    BY <1>0, <1>5, AddBecomes DEF AssignNotify
  <2>2. pc[r] # "assigned" /\ pc'[r] # "assigned"
    BY <1>5 DEF AssignNotify, Goto
  <2> QED
    BY <1>5, <2>1, <2>2, PropsStay DEF AssignNotify, Goto, Becomes
<1>6. ASSUME NEW r \in Requests, AssignCommit(r) PROVE HistoryProps'
  BY <1>6, SeenCommit
<1>7. ASSUME NEW r \in Requests, Upload(r) PROVE HistoryProps'
  BY <1>7, PropsStay DEF Upload, Goto, queueVars
<1>8. ASSUME NEW r \in Requests, UpdateFind(r) PROVE HistoryProps'
  BY <1>8, PropsStay DEF UpdateFind, Goto, queueVars
<1>9. ASSUME NEW r \in Requests, UpdateTimeline(r) PROVE HistoryProps'
  BY <1>9, PropsStay DEF UpdateTimeline, Goto, queueVars
<1>10. ASSUME NEW r \in Requests, UpdateRow(r) PROVE HistoryProps'
  <2>1. lead' # None => lead # None /\ lead'.assignee = lead.assignee
    BY <1>10, UpdateWrites DEF UpdateRow
  <2> QED
    BY <1>10, <2>1, PropsStay DEF UpdateRow, Goto, queueVars
<1>11. ASSUME NEW r \in Requests, UpdateCleanup(r) PROVE HistoryProps'
  BY <1>11, PropsStay DEF UpdateCleanup, Goto, queueVars
<1>12. ASSUME NEW r \in Requests, FileFind(r) PROVE HistoryProps'
  BY <1>12, PropsStay DEF FileFind, Goto, queueVars
<1>13. ASSUME NEW r \in Requests, FileUpdate(r) PROVE HistoryProps'
  <2>1. lead' # None => lead # None /\ lead'.assignee = lead.assignee
    BY <1>13, RemovalWrites DEF FileUpdate
  <2> QED
    BY <1>13, <2>1, PropsStay DEF FileUpdate, Goto, queueVars
<1>14. ASSUME NEW r \in Requests, FileDelete(r) PROVE HistoryProps'
  BY <1>14, PropsStay DEF FileDelete, Goto, queueVars
<1>15. ASSUME NEW r \in Requests, Remove(r) PROVE HistoryProps'
  <2>1. ASSUME lead = None PROVE HistoryProps'
    BY <1>15, <2>1, PropsStay DEF Remove, Goto, queueVars
  <2>2. ASSUME lead # None PROVE HistoryProps'
    BY <1>15, <2>2 DEF Remove, HistoryProps, Seen, HistoryNamesAssignee, HistoryHasNoRepeats,
                       ConcernedAreTold
  <2> QED
    BY <2>1, <2>2
<1>16. ASSUME NEW r \in Requests, BreakOff(r) PROVE HistoryProps'
  <2>1. UNCHANGED job \/ Becomes(r, "waiting", 0, 0)
    BY <1>0, <1>16, AddBecomes DEF BreakOff
  <2>2. pc[r] # "assigned" /\ pc'[r] # "assigned"
    BY <1>16 DEF BreakOff, Goto
  <2> QED
    BY <1>16, <2>1, <2>2, PropsStay DEF BreakOff, Goto, Becomes
<1>17. ASSUME QueueNext, UNCHANGED leadVars PROVE HistoryProps'
  <2>1. PICK j \in Requests : Work(j) \/ Stall(j)
    BY <1>17 DEF QueueNext
  <2>2. \A i \in Requests : job'[i].step = "none" <=> job[i].step = "none"
    BY <2>1, QueueKeeps
  <2> QED
    BY <1>17, <2>2, PropsStay DEF leadVars
<1>18. ASSUME UNCHANGED vars PROVE HistoryProps'
  BY <1>18, PropsStay DEF vars, leadVars, queueVars
<1> QED
  BY <1>1, <1>2, <1>3, <1>4, <1>5, <1>6, <1>7, <1>8, <1>9, <1>10, <1>11,
     <1>12, <1>13, <1>14, <1>15, <1>16, <1>17, <1>18
     DEF Next, Assign, Update, RemoveAttachment

-----------------------------------------------------------------------------
(* The rows of the log and the notices *)

Successes(j) == {i \in 1..Len(log[j]) : log[j][i] = "SUCCESS"}

\* A notice that was put on the socket may still be without its row.
SuccessesCounted ==
  \A j \in Requests :
    /\ Cardinality(Successes(j)) <= sent[j]
    /\ job[j].step \in {"mark", "mark_failed"} => Cardinality(Successes(j)) + 1 <= sent[j]

LEMMA SuccessesFinite ==
  ASSUME QInv, NEW j \in Requests
  PROVE  IsFiniteSet(Successes(j)) /\ Cardinality(Successes(j)) \in Nat
<1>1. Len(log[j]) \in Nat
  BY DEF QInv, QueueTypeOK
<1>2. IsFiniteSet(1..Len(log[j]))
  BY <1>1, FS_Interval
<1>3. Successes(j) \subseteq 1..Len(log[j])
  BY DEF Successes
<1> QED
  BY <1>2, <1>3, FS_Subset, FS_CardinalityType

\* The last row of a job is set.
LEMMA SuccessesSet ==
  ASSUME QInv, NEW j \in Requests, log[j] # <<>>, NEW status \in Statuses, SetRow(j, status)
  PROVE  /\ Cardinality(Successes(j)') \in Nat
         /\ Cardinality(Successes(j)') <= Cardinality(Successes(j)) + 1
         /\ status # "SUCCESS" => Cardinality(Successes(j)') <= Cardinality(Successes(j))
         /\ \A i \in Requests \ {j} : Successes(i)' = Successes(i)
<1> DEFINE n == Len(log[j])
<1>1. log \in [Requests -> Seq(Statuses)]
  BY DEF QInv, QueueTypeOK, Statuses
<1>2. /\ \A i \in Requests \ {j} : log'[i] = log[i]
      /\ Len(log'[j]) = n /\ log'[j][n] = status
      /\ \A i \in 1..(n - 1) : log'[j][i] = log[j][i]
  BY <1>1, SetRowSets
<1>3. n \in Nat /\ \A i \in 1..n : i \in 1..(n - 1) \/ i = n
  BY <1>1
<1> HIDE DEF n
<1>4. Successes(j) = {i \in 1..n : log[j][i] = "SUCCESS"}
  BY DEF Successes, n
<1>5. Successes(j)' = {i \in 1..n : log'[j][i] = "SUCCESS"}
  BY <1>2 DEF Successes
<1>6. /\ Successes(j)' \subseteq Successes(j) \cup {n}
      /\ status # "SUCCESS" => Successes(j)' \subseteq Successes(j)
  BY <1>2, <1>3, <1>4, <1>5
<1>7. IsFiniteSet(Successes(j)) /\ Cardinality(Successes(j)) \in Nat
  BY SuccessesFinite
<1>8. /\ IsFiniteSet(Successes(j) \cup {n})
      /\ Cardinality(Successes(j) \cup {n}) <= Cardinality(Successes(j)) + 1
      /\ Cardinality(Successes(j) \cup {n}) \in Nat
  <2>1. /\ IsFiniteSet(Successes(j) \cup {n})
        /\ \/ Cardinality(Successes(j) \cup {n}) = Cardinality(Successes(j))
           \/ Cardinality(Successes(j) \cup {n}) = Cardinality(Successes(j)) + 1
    BY <1>7, FS_AddElement, Zenon
  <2> QED
    BY <1>7, <2>1
<1>9. /\ Cardinality(Successes(j)') <= Cardinality(Successes(j) \cup {n})
      /\ Cardinality(Successes(j)') \in Nat
  BY <1>6, <1>8, FS_Subset, FS_CardinalityType
<1>10. status # "SUCCESS" => Cardinality(Successes(j)') <= Cardinality(Successes(j))
  BY <1>6, <1>7, FS_Subset
<1>11. \A i \in Requests \ {j} : Successes(i)' = Successes(i)
  BY <1>2 DEF Successes
<1> QED
  BY <1>7, <1>8, <1>9, <1>10, <1>11

LEMMA SuccessesStep ==
  ASSUME QInv, SuccessesCounted, NEW j \in Requests, Work(j) \/ Stall(j)
  PROVE  SuccessesCounted'
<1>0. /\ job \in [Requests -> Job]
      /\ \A i \in Requests : Cardinality(Successes(i)) \in Nat /\ sent[i] \in Nat
  BY SuccessesFinite DEF QInv, QueueTypeOK, Job
<1>same. ASSUME UNCHANGED log PROVE \A i \in Requests : Successes(i)' = Successes(i)
  BY <1>same DEF Successes
<1>1. ASSUME Take(j) \/ Finish(j) PROVE SuccessesCounted'
  <2>1. \E step \in {"create", "completed"} : Becomes(j, step, job[j].attempts, job[j].stalls)
    BY <1>0, <1>1, GoBecomes DEF Take, Finish
  <2> QED
    BY <1>1, <1>same, <2>1 DEF Take, Finish, Becomes, SuccessesCounted
<1>2. ASSUME CreateRow(j) PROVE SuccessesCounted'
  <2>1. CASE log' = [log EXCEPT ![j] = Append(@, "PENDING")] /\ Go(j, "send")
    <3>1. Becomes(j, "send", job[j].attempts, job[j].stalls)
      BY <1>0, <2>1, GoBecomes
    <3>2. log \in [Requests -> Seq(Statuses)]
      BY DEF QInv, QueueTypeOK, Statuses
    <3>3. \A i \in Requests : Successes(i)' = Successes(i)
      BY <2>1, <3>2 DEF Successes
    <3> QED
      BY <1>2, <3>1, <3>3 DEF CreateRow, Becomes, SuccessesCounted
  <2>2. CASE AttemptFailed(j) /\ UNCHANGED log
    <3>1. job[j].attempts < MaxAttempts
      BY <1>2 DEF CreateRow, QInv, SendsCounted
    <3>2. \E step \in {"waiting", "failed"} :
             Becomes(j, step, job[j].attempts + 1, job[j].stalls)
      BY <1>0, <2>2, <3>1, AttemptBecomes
    <3> QED
      BY <1>2, <1>same, <2>2, <3>2 DEF CreateRow, Becomes, SuccessesCounted
  <2> QED
    BY <1>2, <2>1, <2>2 DEF CreateRow
<1>3. ASSUME Send(j) PROVE SuccessesCounted'
  <2>1. Becomes(j, "mark", job[j].attempts, job[j].stalls)
    BY <1>0, <1>3, GoBecomes DEF Send
  <2>2. sent'[j] = sent[j] + 1 /\ \A i \in Requests \ {j} : sent'[i] = sent[i]
    BY <1>3 DEF Send, QInv, QueueTypeOK
  <2>3. \A i \in Requests : Successes(i)' = Successes(i)
    BY <1>3, <1>same DEF Send
  <2> SUFFICES ASSUME NEW i \in Requests PROVE SuccessesCounted!(i)'
    BY DEF SuccessesCounted
  <2>4. CASE i = j
    BY <1>0, <2>1, <2>2, <2>3, <2>4 DEF SuccessesCounted, Becomes
  <2>5. CASE i # j
    BY <2>1, <2>2, <2>3, <2>5 DEF SuccessesCounted, Becomes
  <2> QED
    BY <2>4, <2>5
<1>4. ASSUME Mark(j) PROVE SuccessesCounted'
  <2>1. CASE SetRow(j, "SUCCESS") /\ Go(j, "finish")
    <3>1. Becomes(j, "finish", job[j].attempts, job[j].stalls)
      BY <1>0, <2>1, GoBecomes
    <3>2. log[j] # <<>>
      BY <1>4 DEF Mark, QInv, RowsFollow
    <3>3. /\ Cardinality(Successes(j)') \in Nat
          /\ Cardinality(Successes(j)') <= Cardinality(Successes(j)) + 1
          /\ \A i \in Requests \ {j} : Successes(i)' = Successes(i)
      BY <2>1, <3>2, SuccessesSet DEF Statuses
    <3> SUFFICES ASSUME NEW i \in Requests PROVE SuccessesCounted!(i)'
      BY DEF SuccessesCounted
    <3>6. CASE i = j
      BY <1>0, <1>4, <3>1, <3>3, <3>6 DEF SuccessesCounted, Becomes, Mark
    <3>7. CASE i # j
      BY <1>4, <3>1, <3>3, <3>7 DEF SuccessesCounted, Becomes, Mark
    <3> QED
      BY <3>6, <3>7
  <2>2. CASE Go(j, "mark_failed") /\ UNCHANGED log
    <3>1. Becomes(j, "mark_failed", job[j].attempts, job[j].stalls)
      BY <1>0, <2>2, GoBecomes
    <3> QED
      BY <1>4, <1>same, <2>2, <3>1 DEF Mark, Becomes, SuccessesCounted
  <2> QED
    BY <1>4, <2>1, <2>2 DEF Mark
<1>5. ASSUME MarkFailed(j) PROVE SuccessesCounted'
  <2>1. job[j].attempts < MaxAttempts /\ log[j] # <<>>
    BY <1>5 DEF MarkFailed, QInv, SendsCounted, RowsFollow
  <2>2. \E step \in {"waiting", "failed"} :
           Becomes(j, step, job[j].attempts + 1, job[j].stalls)
    BY <1>0, <1>5, <2>1, AttemptBecomes DEF MarkFailed
  <2>3. CASE UNCHANGED log
    BY <1>5, <1>same, <2>2, <2>3 DEF MarkFailed, Becomes, SuccessesCounted
  <2>4. CASE SetRow(j, "FAILED")
    <3>1. /\ Cardinality(Successes(j)') \in Nat
          /\ Cardinality(Successes(j)') <= Cardinality(Successes(j))
          /\ \A i \in Requests \ {j} : Successes(i)' = Successes(i)
      BY <2>1, <2>4, SuccessesSet DEF Statuses
    <3> SUFFICES ASSUME NEW i \in Requests PROVE SuccessesCounted!(i)'
      BY DEF SuccessesCounted
    <3>4. CASE i = j
      BY <1>0, <1>5, <2>2, <3>1, <3>4 DEF SuccessesCounted, Becomes, MarkFailed
    <3>5. CASE i # j
      BY <1>5, <2>2, <3>1, <3>5 DEF SuccessesCounted, Becomes, MarkFailed
    <3> QED
      BY <3>4, <3>5
  <2> QED
    BY <1>5, <2>3, <2>4 DEF MarkFailed
<1>6. ASSUME Stall(j) PROVE SuccessesCounted'
  <2>1. \E step \in {"waiting", "failed"}, stalls \in Nat :
           Becomes(j, step, job[j].attempts, stalls)
    BY <1>0, <1>6, StallBecomes DEF Job
  <2> QED
    BY <1>6, <1>same, <2>1 DEF Stall, Becomes, SuccessesCounted
<1> QED
  BY <1>1, <1>2, <1>3, <1>4, <1>5, <1>6 DEF Work

-----------------------------------------------------------------------------
(* The specification *)

QueueInv == QInv /\ SuccessesCounted

\* Adding a job leaves the books in order: it was never sent.
LEMMA AddStep ==
  ASSUME QueueInv, NEW r \in Requests, job[r].step = "none", Add(r), UNCHANGED <<log, sent>>
  PROVE  QueueInv'
<1>0. job \in [Requests -> Job]
  BY DEF QueueInv, QInv, QueueTypeOK, Job
<1>1. Becomes(r, "waiting", 0, 0)
  BY <1>0, AddBecomes
<1>2. sent[r] = 0 /\ sent \in [Requests -> Nat]
  BY DEF QueueInv, QInv, SendsCounted, QueueTypeOK
<1>3. QueueTypeOK'
  BY <1>1 DEF QueueInv, QInv, QueueTypeOK, Becomes, Job
<1>4. SendsCounted'
  <2> SUFFICES ASSUME NEW j \in Requests PROVE SendsCounted!(j)'
    BY DEF SendsCounted
  <2>1. CASE j = r
    <3>1. /\ job'[j].step = "waiting" /\ job'[j].attempts = 0 /\ job'[j].stalls = 0
          /\ sent'[j] = 0
      BY <1>1, <1>2, <2>1 DEF Becomes
    <3> QED
      BY <3>1 DEF SendsCounted, Sent
  <2>2. CASE j # r
    BY <1>1, <2>2 DEF QueueInv, QInv, SendsCounted, Becomes, Sent
  <2> QED
    BY <2>1, <2>2
<1>5. RowsFollow'
  BY <1>1 DEF QueueInv, QInv, RowsFollow, Becomes
<1>6. SuccessesCounted'
  BY <1>1 DEF QueueInv, SuccessesCounted, Successes, Becomes
<1> QED
  BY <1>3, <1>4, <1>5, <1>6 DEF QueueInv, QInv

LEMMA QueueInvStep ==
  ASSUME QueueInv, Progress, [Next]_vars
  PROVE  QueueInv'
<1>1. CASE UNCHANGED queueVars
  BY <1>1 DEF queueVars, QueueInv, QInv, QueueTypeOK, SendsCounted, Sent, RowsFollow,
              SuccessesCounted, Successes
<1>2. CASE QueueNext
  BY <1>2, QueueStep, SuccessesStep DEF QueueInv, QueueNext
<1>3. ASSUME NEW r \in Requests, Add(r), pc[r] = "assign_notify", UNCHANGED <<log, sent>>
      PROVE  QueueInv'
  BY <1>3, AddStep DEF Progress, JobsNamed
<1>4. ASSUME NEW r \in Requests, Assign(r) PROVE QueueInv'
  BY <1>1, <1>3, <1>4 DEF Assign, AssignFind, UnassignFind, AssignUpdate, AssignHistory,
                          AssignNotify, AssignCommit
<1>5. ASSUME NEW r \in Requests, Update(r) \/ RemoveAttachment(r) \/ Remove(r)
      PROVE  QueueInv'
  BY <1>1, <1>5 DEF Update, RemoveAttachment, Upload, UpdateFind, UpdateTimeline, UpdateRow,
                    UpdateCleanup, FileFind, FileUpdate, FileDelete, Remove
<1>6. ASSUME NEW r \in Requests, BreakOff(r) PROVE QueueInv'
  BY <1>1, <1>3, <1>6 DEF BreakOff, queueVars
<1> QED
  BY <1>1, <1>2, <1>4, <1>5, <1>6 DEF Next, vars

\* The inductive invariant.
IInv == QueueInv /\ Inv /\ FilesInv /\ Progress /\ HistoryProps

LEMMA InitIInv == Init => IInv
<1> SUFFICES ASSUME Init PROVE IInv
  OBVIOUS
<1> USE DEF Init
<1>1. QueueInv
  <2>1. QueueTypeOK
    BY DEF QueueInit, QueueTypeOK, Fresh
  <2>2. SendsCounted /\ RowsFollow
    BY DEF QueueInit, Fresh, SendsCounted, Sent, RowsFollow
  <2>3. \A j \in Requests : Successes(j) = {}
    BY DEF QueueInit, Successes
  <2>4. SuccessesCounted
    <3>1. \A j \in Requests : Cardinality(Successes(j)) = 0
      BY <2>3, FS_EmptySet, Zenon
    <3> QED
      BY <3>1 DEF QueueInit, Fresh, SuccessesCounted
  <2> QED
    BY <2>1, <2>2, <2>4 DEF QueueInv, QInv
<1>2. lead \in Lead /\ lead.files = {Old}
  BY DEF Lead
<1>3. LeadTypeOK
  <2>1. history \in Seq([by: Requests \cup {None}, to: Users \cup {None}])
    <3>1. CASE lead.assignee = None
      BY <3>1, <<>> \in Seq([by: Requests \cup {None}, to: Users \cup {None}])
    <3>2. CASE lead.assignee # None
      BY <1>2, <3>2, ReadFields
    <3> QED
      BY <3>1, <3>2
  <2> QED
    BY <1>2, <2>1 DEF LeadTypeOK, Labels
<1>4. Inv
  BY <1>2, <1>3 DEF Inv, GivenFits, ReadFits, LocksFit, Writing
<1>5. FilesInv
  BY <1>2 DEF FilesInv, UploadsStored, Attached, RemovedBlamed, StaleDone, AttachmentsStored
<1>6. Progress
  BY DEF Progress, JobsNamed, NoticeSent, RowsOnce, LastRow, ReadCurrent, QueueInit, Fresh,
         Writing
<1>7. HistoryProps
  <2>1. CASE lead.assignee = None
    BY <2>1 DEF HistoryProps, HistoryNamesAssignee, HistoryHasNoRepeats, ConcernedAreTold,
                Seen, AssigneeAfter
  <2>2. CASE lead.assignee # None
    <3>1. Seen = {1} /\ Len(history) = 1 /\ history[1] = [by |-> None, to |-> lead.assignee]
      BY <2>2 DEF Seen
    <3> QED
      BY <2>2, <3>1 DEF HistoryProps, HistoryNamesAssignee, HistoryHasNoRepeats,
                        ConcernedAreTold, AssigneeAfter, NextSeen
  <2> QED
    BY <2>1, <2>2
<1> QED
  BY <1>1, <1>4, <1>5, <1>6, <1>7 DEF IInv

LEMMA StepIInv == IInv /\ [Next]_vars => IInv'
<1> SUFFICES ASSUME IInv, [Next]_vars PROVE IInv'
  OBVIOUS
<1>1. QueueInv' /\ Inv'
  BY QueueInvStep, TypeStep, GivenStep, ReadStep, LocksStep DEF IInv, Inv
<1>2. FilesInv'
  BY FilesStep DEF IInv
<1>3. Progress' /\ HistoryProps'
  BY ProgressStep, PropsStep DEF IInv, QueueInv
<1> QED
  BY <1>1, <1>2, <1>3 DEF IInv

LEMMA SpecIInv == Spec => []IInv
  BY InitIInv, StepIInv, PTL DEF Spec

\* Every variable keeps its type.
THEOREM TypeCorrect == Spec => []TypeOK
<1>1. IInv => TypeOK
  BY DEF IInv, QueueInv, QInv, Inv, LeadTypeOK, TypeOK
<1> QED
  BY <1>1, SpecIInv, PTL

\* The last row of the history that can be seen names the assignee of the lead.
THEOREM HistoryCorrect == Spec => []HistoryNamesAssignee
<1>1. IInv => HistoryNamesAssignee
  BY DEF IInv, HistoryProps
<1> QED
  BY <1>1, SpecIInv, PTL

\* Only a request that another one overtook repeats an assignee.
THEOREM RepeatsAreOvertaken == Spec => []HistoryHasNoRepeats
<1>1. IInv => HistoryHasNoRepeats
  BY DEF IInv, HistoryProps
<1> QED
  BY <1>1, SpecIInv, PTL

\* Who gets or loses a lead has a notice in the queue, unless overtaken.
THEOREM NoticesFollowHistory == Spec => []ConcernedAreTold
<1>1. IInv => ConcernedAreTold
  BY DEF IInv, HistoryProps
<1> QED
  BY <1>1, SpecIInv, PTL

\* An attachment without a file is the work of a stale writer.
THEOREM MissingFilesAreBlamed == Spec => []AttachmentsStored
<1>1. IInv => AttachmentsStored
  BY DEF IInv, FilesInv
<1> QED
  BY <1>1, SpecIInv, PTL

\* No log claims more successes than there were notices on the socket, and a
\* completed job was sent and has a last row that says so.
THEOREM LogsAreTruthful == Spec => []LogTruthful
<1>1. ASSUME IInv, NEW j \in Requests
      PROVE  Cardinality({i \in 1..Len(log[j]) : log[j][i] = "SUCCESS"}) <= sent[j]
  BY <1>1 DEF IInv, QueueInv, SuccessesCounted, Successes
<1>2. ASSUME IInv, NEW j \in Requests, job[j].step = "completed"
      PROVE  sent[j] > 0 /\ log[j] # <<>> /\ log[j][Len(log[j])] = "SUCCESS"
  BY <1>2 DEF IInv, QueueInv, QInv, SendsCounted, RowsFollow, Sent
<1>3. IInv => LogTruthful
  BY <1>1, <1>2 DEF LogTruthful
<1> QED
  BY <1>3, SpecIInv, PTL

\* A notice is sent at most once per attempt and stall.
THEOREM SendsAreBounded == Spec => []SendsBounded
<1>1. IInv => SendsBounded
  <2> SUFFICES ASSUME IInv, NEW j \in Requests PROVE sent[j] <= MaxAttempts + MaxStalls
    BY DEF SendsBounded
  <2>1. /\ job[j].attempts \in Nat /\ job[j].attempts <= MaxAttempts
        /\ job[j].stalls \in Nat /\ job[j].stalls <= MaxStalls
        /\ sent[j] \in Nat
    BY DEF IInv, QueueInv, QInv, QueueTypeOK
  <2>2. job[j].step # "failed" => job[j].attempts < MaxAttempts
    BY DEF IInv, QueueInv, QInv, SendsCounted
  <2> QED
    BY <2>1, <2>2 DEF IInv, QueueInv, QInv, SendsCounted, Sent
<1> QED
  BY <1>1, SpecIInv, PTL

\* Attachments leave by their removal or by a writer that had not read them,
\* and return only by a writer that had; an update without uploads is neither.
THEOREM AttachmentsHaveCauses == Spec => AttachmentsChangeForCause
<1> DEFINE Cause ==
      lead # None /\ lead' # None =>
        /\ \A f \in lead.files \ lead'.files :
             \E r \in Requests : WritesFiles(r) /\ (given[r] = f \/ f \notin read[r].files)
        /\ \A f \in lead'.files \ lead.files :
             \E r \in Requests : WritesFiles(r) /\ (f = r \/ f \in read[r].files)
<1>1. ASSUME IInv, [Next]_vars PROVE [Cause]_vars
  <2>0. Inv /\ pc \in [Requests -> Labels]
    BY <1>1 DEF IInv, Inv, LeadTypeOK
  <2>1. ASSUME NEW r \in Requests, UpdateRow(r) PROVE Cause
    <3>1. CASE lead = None \/ given[r] = {}
      BY <2>0, <2>1, <3>1, UpdateWrites
    <3>2. CASE lead # None /\ given[r] # {}
      <4>1. given[r] \subseteq {r} /\ lead'.files = read[r].files \cup given[r]
        BY <2>0, <2>1, <3>2, UpdateWrites
      <4>2. WritesFiles(r)
        BY <2>0, <2>1, <3>2 DEF UpdateRow, Goto, WritesFiles
      <4> QED
        BY <4>1, <4>2
    <3> QED
      BY <3>1, <3>2
  <2>2. ASSUME NEW r \in Requests, FileUpdate(r) PROVE Cause
    <3>1. lead # None => lead'.files = read[r].files \ {given[r]}
      BY <2>0, <2>2, RemovalWrites
    <3>2. WritesFiles(r)
      BY <2>0, <2>2 DEF FileUpdate, Goto, WritesFiles
    <3> QED
      BY <3>1, <3>2
  <2>3. ASSUME NEW r \in Requests, AssignCommit(r) PROVE Cause
    BY <2>0, <2>3, CommitWrites
  <2>4. ASSUME NEW r \in Requests, Remove(r) PROVE Cause
    BY <2>4 DEF Remove
  <2>5. CASE UNCHANGED lead
    BY <2>5
  <2>6. \/ UNCHANGED lead
        \/ \E r \in Requests : UpdateRow(r) \/ FileUpdate(r) \/ AssignCommit(r) \/ Remove(r)
    BY <1>1 DEF Next, Assign, Update, RemoveAttachment, AssignFind, UnassignFind, AssignUpdate,
                AssignHistory, AssignNotify, Upload, UpdateFind, UpdateTimeline, UpdateCleanup,
                FileFind, FileDelete, BreakOff, vars, leadVars
  <2> QED
    BY <2>1, <2>2, <2>3, <2>4, <2>5, <2>6
<1> QED
  BY <1>1, SpecIInv, PTL DEF Spec, AttachmentsChangeForCause

-----------------------------------------------------------------------------
(* The book of assignments *)

\* What has a notice in the queue and what was sent, as a job changes.
LEMMA NoticedSame ==
  ASSUME \A q \in Requests : job'[q].step = "none" <=> job[q].step = "none"
  PROVE  Noticed' = Noticed
  BY DEF Noticed

LEMMA NoticeAdded ==
  ASSUME QInv, NEW r \in Requests, Add(r)
  PROVE  Noticed' = Noticed \cup {r}
<1>1. Becomes(r, "waiting", 0, 0)
  BY AddBecomes DEF QInv, QueueTypeOK, Job
<1> QED
  BY <1>1 DEF Becomes, Noticed

\* The entries are the same if the rows that are seen are.
LEMMA EntriesSame ==
  ASSUME Seen' = Seen, \A i \in Seen : history'[i] = history[i]
  PROVE  Entries' = Entries
  BY DEF Entries

\* Steps that change nothing of the book.
LEMMA BookSame ==
  ASSUME Inv, UNCHANGED <<history, sent>>,
         \A q \in Requests : pc'[q] = "assigned" <=> pc[q] = "assigned",
         \A q \in Requests : job'[q].step = "none" <=> job[q].step = "none",
         lead' = None <=> lead = None,
         lead # None => lead'.assignee = lead.assignee
  PROVE  UNCHANGED Book!book
<1>1. Entries' = Entries
  BY SeenSame, EntriesSame DEF Inv
<1>2. Assignee' = Assignee
  BY DEF Assignee
<1>3. Noticed' = Noticed /\ Delivered' = Delivered
  BY NoticedSame DEF Delivered
<1>4. (lead = None)' = (lead = None)
  OBVIOUS
<1> QED
  BY <1>1, <1>2, <1>3, <1>4 DEF Book!book

\* A notice that is queued, by an assignment or by one that breaks off.
LEMMA BookNotify ==
  ASSUME Inv, QInv, Progress, NEW r \in Requests, Add(r), pc[r] = "assign_notify",
         UNCHANGED <<history, lead, sent>>,
         \A q \in Requests : pc'[q] = "assigned" <=> pc[q] = "assigned"
  PROVE  Book!Next
<1>1. r \notin Noticed
  BY DEF Progress, JobsNamed, Noticed
<1>2. Noticed' = Noticed \cup {r}
  BY NoticeAdded
<1>3. Entries' = Entries
  BY SeenSame, EntriesSame DEF Inv
<1>4. Assignee' = Assignee /\ Delivered' = Delivered /\ (lead = None)' = (lead = None)
  BY DEF Assignee, Delivered
<1>5. Book!Notify(r)
  BY <1>1, <1>2, <1>3, <1>4 DEF Book!Notify
<1> QED
  BY <1>5 DEF Book!Next

LEMMA BookAssign ==
  ASSUME Inv, QInv, Progress, NEW r \in Requests, AssignCommit(r)
  PROVE  Book!Next
<1> DEFINE n == Len(history)
           e == [at |-> n, by |-> r, to |-> given[r]]
<1>1. /\ n \in 1..n /\ history[n].by = r /\ history[n].to = given[r]
      /\ Seen' = Seen \cup {n}
      /\ \A i \in Seen : i \in 1..n /\ i < n /\ history[i].by # r
  BY CommitShows
<1>2. /\ lead # None /\ lead' # None /\ lead'.assignee = given[r]
      /\ given[r] \in Users \cup {None}
  BY CommitWrites, NamesAssumption
<1>3. UNCHANGED <<history, job, sent>> /\ pc[r] = "assign_commit"
  BY DEF AssignCommit, queueVars
<1> HIDE DEF n
<1>4. Entries' = Entries \cup {e} /\ e \in Entries'
  BY <1>1, <1>3 DEF Entries
<1>5. \A d \in Entries : d.by # r /\ d.at < n
  BY <1>1 DEF Entries
<1>6. e.by = r /\ e.to = given[r] /\ e.at = n
  OBVIOUS
<1> HIDE DEF e
<1>7. r \in Noticed
  BY <1>3 DEF Progress, NoticeSent, Noticed
<1>8. Assignee' = given[r] /\ (lead = None)' = (lead = None)
  BY <1>2 DEF Assignee
<1>9. Noticed' = Noticed /\ Delivered' = Delivered
  BY <1>3 DEF Noticed, Delivered
<1>10. Book!Assign(r, given[r])
  BY <1>2, <1>4, <1>5, <1>6, <1>7, <1>8, <1>9 DEF Book!Assign
<1> QED
  BY <1>2, <1>10 DEF Book!Next

LEMMA BookRemove ==
  ASSUME Inv, NEW r \in Requests, Remove(r)
  PROVE  Book!Next \/ UNCHANGED Book!book
<1>1. CASE lead # None
  <2>1. lead' = None /\ history' = <<>> /\ UNCHANGED <<job, sent>>
    BY <1>1 DEF Remove, queueVars
  <2>2. Entries' = {}
    BY <2>1 DEF Entries, Seen
  <2>3. Assignee' = None /\ Noticed' = Noticed /\ Delivered' = Delivered
    BY <2>1 DEF Assignee, Noticed, Delivered
  <2>4. (lead = None) = FALSE /\ (lead = None)' = TRUE
    BY <1>1, <2>1
  <2>5. Book!Remove
    BY <2>2, <2>3, <2>4 DEF Book!Remove
  <2> QED
    BY <2>5 DEF Book!Next
<1>2. CASE lead = None
  BY <1>2, BookSame DEF Inv, LeadTypeOK, Remove, Goto, queueVars
<1> QED
  BY <1>1, <1>2

\* The worker: what was sent stays sent, and only what is queued is sent.
LEMMA BookDeliver ==
  ASSUME Inv, QInv, NEW j \in Requests, Work(j) \/ Stall(j), UNCHANGED leadVars
  PROVE  Book!Next \/ UNCHANGED Book!book
<1>1. Noticed' = Noticed
  BY QueueKeeps, NoticedSame
<1>2. UNCHANGED <<history, pc, lead>>
  BY DEF leadVars
<1>3. Entries' = Entries /\ Assignee' = Assignee /\ (lead = None)' = (lead = None)
  BY <1>2, SeenSame, EntriesSame DEF Inv, Assignee
<1>4. CASE Delivered' = Delivered
  BY <1>1, <1>3, <1>4 DEF Book!book
<1>5. CASE Delivered' # Delivered
  <2>1. Send(j)
    BY <1>5 DEF Work, Take, CreateRow, Mark, MarkFailed, Finish, Stall, Delivered
  <2>2. /\ sent \in [Requests -> Nat] /\ sent' = [sent EXCEPT ![j] = sent[j] + 1]
        /\ job[j].step = "send"
    BY <2>1 DEF QInv, QueueTypeOK, Send
  <2>3. Delivered' = Delivered \cup {j} /\ j \in Noticed
    BY <2>2 DEF Delivered, Noticed
  <2>4. Book!Deliver(j)
    BY <1>1, <1>3, <1>5, <2>3 DEF Book!Deliver
  <2> QED
    BY <2>4 DEF Book!Next
<1> QED
  BY <1>4, <1>5

LEMMA BookStep == IInv /\ [Next]_vars => [Book!Next]_Book!book
<1> SUFFICES ASSUME IInv, [Next]_vars PROVE Book!Next \/ UNCHANGED Book!book
  OBVIOUS
<1>0. Inv /\ QInv /\ Progress /\ pc \in [Requests -> Labels]
  BY DEF IInv, QueueInv, Inv, LeadTypeOK
<1> USE DEF queueVars, Goto
<1>1. ASSUME NEW r \in Requests, AssignFind(r) \/ UnassignFind(r) \/ AssignUpdate(r)
      PROVE  UNCHANGED Book!book
  BY <1>0, <1>1, BookSame DEF AssignFind, UnassignFind, AssignUpdate
<1>2. ASSUME NEW r \in Requests, AssignHistory(r) PROVE UNCHANGED Book!book
  <2>1. Entries' = Entries
    BY <1>0, <1>2, InsertHidden, EntriesSame DEF Inv
  <2>2. UNCHANGED <<lead, job, sent>>
    BY <1>2 DEF AssignHistory
  <2> QED
    BY <2>1, <2>2 DEF Book!book, Assignee, Noticed, Delivered
<1>3. ASSUME NEW r \in Requests, AssignNotify(r) PROVE Book!Next
  BY <1>0, <1>3, BookNotify DEF AssignNotify
<1>4. ASSUME NEW r \in Requests, AssignCommit(r) PROVE Book!Next
  BY <1>0, <1>4, BookAssign
<1>5. ASSUME NEW r \in Requests,
             Upload(r) \/ UpdateFind(r) \/ UpdateTimeline(r) \/ UpdateCleanup(r)
      PROVE  UNCHANGED Book!book
  BY <1>0, <1>5, BookSame DEF Upload, UpdateFind, UpdateTimeline, UpdateCleanup
<1>6. ASSUME NEW r \in Requests, UpdateRow(r) PROVE UNCHANGED Book!book
  <2>1. lead # None => lead' # None /\ lead'.assignee = lead.assignee
    BY <1>0, <1>6, UpdateWrites, NamesAssumption
  <2>2. lead = None => lead' = None
    BY <1>6 DEF UpdateRow
  <2> QED
    BY <1>0, <1>6, <2>1, <2>2, BookSame DEF UpdateRow
<1>7. ASSUME NEW r \in Requests, FileFind(r) \/ FileDelete(r) PROVE UNCHANGED Book!book
  BY <1>0, <1>7, BookSame DEF FileFind, FileDelete
<1>8. ASSUME NEW r \in Requests, FileUpdate(r) PROVE UNCHANGED Book!book
  <2>1. lead # None => lead' # None /\ lead'.assignee = lead.assignee
    BY <1>0, <1>8, RemovalWrites, NamesAssumption
  <2>2. lead = None => lead' = None
    BY <1>8 DEF FileUpdate
  <2> QED
    BY <1>0, <1>8, <2>1, <2>2, BookSame DEF FileUpdate
<1>9. ASSUME NEW r \in Requests, Remove(r) PROVE Book!Next \/ UNCHANGED Book!book
  BY <1>0, <1>9, BookRemove
<1>10. ASSUME NEW r \in Requests, BreakOff(r) PROVE Book!Next \/ UNCHANGED Book!book
  <2>1. \A q \in Requests : pc'[q] = "assigned" <=> pc[q] = "assigned"
    BY <1>0, <1>10 DEF BreakOff
  <2>2. CASE UNCHANGED job
    BY <1>0, <1>10, <2>1, <2>2, BookSame DEF BreakOff
  <2>3. CASE pc[r] = "assign_notify" /\ Add(r)
    BY <1>0, <1>10, <2>1, <2>3, BookNotify DEF BreakOff
  <2> QED
    BY <1>10, <2>2, <2>3 DEF BreakOff
<1>11. ASSUME QueueNext, UNCHANGED leadVars PROVE Book!Next \/ UNCHANGED Book!book
  BY <1>0, <1>11, BookDeliver DEF QueueNext
<1>12. ASSUME UNCHANGED vars PROVE UNCHANGED Book!book
  BY <1>0, <1>12, BookSame DEF vars, leadVars
<1> QED
  BY <1>1, <1>2, <1>3, <1>4, <1>5, <1>6, <1>7, <1>8, <1>9, <1>10, <1>11, <1>12
     DEF Next, Assign, Update, RemoveAttachment

\* An assignment takes effect at one moment: the transactions and the queue
\* implement a book in which the assignee, the last entry and the notice agree.
THEOREM AssignmentsAreAtomic == Spec => ImplementsBook
<1>1. Init => Book!Init
  <2> SUFFICES ASSUME Init PROVE Book!Init
    OBVIOUS
  <2>1. lead \in Lead /\ lead # None /\ lead.assignee \in Users \cup {None}
    BY NamesAssumption DEF Init, Lead
  <2>2. Noticed = {} /\ Delivered = {} /\ Assignee = lead.assignee
    BY <2>1 DEF Init, QueueInit, Fresh, Noticed, Delivered, Assignee
  <2>3. CASE lead.assignee = None
    <3>1. Entries = {}
      BY <2>3 DEF Init, Entries, Seen
    <3> QED
      BY <2>1, <2>2, <2>3, <3>1 DEF Book!Init
  <2>4. CASE lead.assignee # None
    <3>1. Seen = {1} /\ history[1].by = None /\ history[1].to = lead.assignee
      BY <2>4 DEF Init, Seen
    <3>2. Entries = {[at |-> 1, by |-> None, to |-> lead.assignee]}
      BY <3>1 DEF Entries
    <3> QED
      BY <2>1, <2>2, <2>4, <3>2 DEF Book!Init
  <2> QED
    BY <2>3, <2>4
<1> QED
  BY <1>1, BookStep, SpecIInv, PTL DEF Spec, ImplementsBook, Book!Spec
===============================================================================
