----------------------------- MODULE LeadRecord -----------------------------
(***************************************************************************)
(* One lead under concurrent edits: who it is assigned to, the history of  *)
(* its assignments, its attachments in the row and in the storage, and the *)
(* notices its assignments queue.  Sources: admin/lead/lead.service.ts     *)
(* (update, removeAttachment, assignLead, unassignLead, remove),           *)
(* admin/lead/lead.controller.ts (the files), notification.producer.ts.    *)
(*                                                                         *)
(* A process is one HTTP request, cut at its awaits.  The transactions run *)
(* at READ COMMITTED: an UPDATE of the row waits for a transaction that    *)
(* has updated it, an insert that refers to it lets other updates pass but *)
(* holds up a deletion.  The mail of an assignment is queued in the same   *)
(* transaction, its errors are swallowed, and it is not kept; nor are the  *)
(* timeline and fields other than the assignee and the attachments, each   *)
(* of which an update writes by itself.  A file is named after the request *)
(* that uploads it.                                                        *)
(***************************************************************************)
EXTENDS JobQueue

CONSTANTS Users,   \* who can be assigned
          Old,     \* a file the lead was created with
          None     \* "nobody", "no lead", "nothing"

Files == Requests \cup {Old}

\* The columns of the lead.
Lead == [assignee: Users \cup {None}, files: SUBSET Files]

ASSUME NamesAssumption ==
  None \notin Users \cup Files /\ None \notin Lead /\ Old \notin Requests

VARIABLES pc,         \* pc[r]: the await the handler of r has reached
          given,      \* given[r]: the user, the files or the file r names
          read,       \* read[r]: the lead as r has read it
          lead,       \* the row: its assignee and its files, or None
          history,    \* the rows written to lead_assignment_history; those
                      \* of a transaction are seen once it is committed
          holder,     \* the transaction that has updated the row, or None
          sharers,    \* transactions that have inserted rows that refer to it
          stored,     \* the files in the storage
          told,       \* told[r]: the recipient of the notice r queued
          overtaken,  \* history: assignments whose reading was out of date
                      \* when they wrote
          stale       \* history: writers of the attachments of whom the same
                      \* is true, or whose COMMIT was not answered

leadVars == <<pc, given, read, lead, history, holder, sharers, stored, told,
              overtaken, stale>>
vars == <<leadVars, queueVars>>

\* A lead is created with no assignee; it may have been assigned before.
Init ==
  /\ QueueInit
  /\ pc = [r \in Requests |-> "new"]
  /\ given = [r \in Requests |-> None]
  /\ lead \in [assignee: Users \cup {None}, files: {{Old}}]
  /\ read = [r \in Requests |-> None]
  /\ history = IF lead.assignee = None THEN <<>>
               ELSE <<[by |-> None, to |-> lead.assignee]>>
  /\ holder = None
  /\ sharers = {}
  /\ stored = {Old}
  /\ told = [r \in Requests |-> None]
  /\ overtaken = {} /\ stale = {}

Goto(r, label) == pc' = [pc EXCEPT ![r] = label]

-----------------------------------------------------------------------------
(* assignLead and unassignLead: given[r] is a user or None *)

\* Fault: the check for duplicates is missing.
AssignFindAny(r) ==
  /\ pc[r] = "new"
  /\ \E u \in Users :
       IF lead # None
       THEN /\ given' = [given EXCEPT ![r] = u]
            /\ read' = [read EXCEPT ![r] = lead]
            /\ Goto(r, "assign_update")
       ELSE Goto(r, "refused") /\ UNCHANGED <<given, read>>
  /\ UNCHANGED <<lead, history, holder, sharers, stored, told, overtaken, stale,
                 queueVars>>

AssignFind(r) ==
  /\ pc[r] = "new"
  /\ \E u \in Users :
       IF lead # None /\ lead.assignee # u
       THEN /\ given' = [given EXCEPT ![r] = u]
            /\ read' = [read EXCEPT ![r] = lead]
            /\ Goto(r, "assign_update")
       ELSE Goto(r, "refused") /\ UNCHANGED <<given, read>>
  /\ UNCHANGED <<lead, history, holder, sharers, stored, told, overtaken, stale,
                 queueVars>>

UnassignFind(r) ==
  /\ pc[r] = "new"
  /\ IF lead # None /\ lead.assignee # None
     THEN read' = [read EXCEPT ![r] = lead] /\ Goto(r, "assign_update")
     ELSE Goto(r, "refused") /\ UNCHANGED read
  /\ UNCHANGED <<given, lead, history, holder, sharers, stored, told, overtaken,
                 stale, queueVars>>

\* The first statement of the transaction; from here on the row is its own.
AssignUpdate(r) ==
  /\ pc[r] = "assign_update"
  /\ holder = None
  /\ IF lead = None
     THEN Goto(r, "failed") /\ UNCHANGED <<holder, overtaken>>
     ELSE /\ holder' = r
          /\ overtaken' = IF read[r].assignee = lead.assignee THEN overtaken
                          ELSE overtaken \cup {r}
          /\ Goto(r, "assign_history")
  /\ UNCHANGED <<given, read, lead, history, sharers, stored, told, stale, queueVars>>

\* The rows of the history and of the timeline.
AssignHistory(r) ==
  /\ pc[r] = "assign_history"
  /\ history' = Append(history, [by |-> r, to |-> given[r]])
  /\ Goto(r, "assign_notify")
  /\ UNCHANGED <<given, read, lead, holder, sharers, stored, told, overtaken, stale,
                 queueVars>>

\* Who the notice is for: an unassignment tells whom it read as assignee.
Recipient(r) == IF given[r] = None THEN read[r].assignee ELSE given[r]

\* Fault: the notice of an assignment that cannot be queued is forgotten.
AssignNotifySwallowing(r) ==
  /\ pc[r] = "assign_notify"
  /\ \/ Add(r) /\ told' = [told EXCEPT ![r] = Recipient(r)]
     \/ UNCHANGED <<job, told>>
  /\ Goto(r, "assign_commit")
  /\ UNCHANGED <<given, read, lead, history, holder, sharers, stored, overtaken,
                 stale, log, sent>>

AssignNotify(r) ==
  /\ pc[r] = "assign_notify"
  /\ Add(r)
  /\ told' = [told EXCEPT ![r] = Recipient(r)]
  /\ Goto(r, "assign_commit")
  /\ UNCHANGED <<given, read, lead, history, holder, sharers, stored, overtaken,
                 stale, log, sent>>

AssignCommit(r) ==
  /\ pc[r] = "assign_commit"
  /\ lead' = [lead EXCEPT !.assignee = given[r]]
  /\ holder' = None
  /\ Goto(r, "assigned")
  /\ UNCHANGED <<given, read, history, sharers, stored, told, overtaken, stale,
                 queueVars>>

-----------------------------------------------------------------------------
(* update: given[r] is the set of files it uploads *)

\* The controller stores the file of the request before it calls the service.
Upload(r) ==
  /\ pc[r] = "new"
  /\ \E uploads \in {{}, {r}} :
       /\ given' = [given EXCEPT ![r] = uploads]
       /\ stored' = stored \cup uploads
  /\ Goto(r, "update_find")
  /\ UNCHANGED <<read, lead, history, holder, sharers, told, overtaken, stale,
                 queueVars>>

UpdateFind(r) ==
  /\ pc[r] = "update_find"
  /\ read' = [read EXCEPT ![r] = lead]
  /\ Goto(r, IF lead = None THEN "update_cleanup" ELSE "update_timeline")
  /\ UNCHANGED <<given, lead, history, holder, sharers, stored, told, overtaken,
                 stale, queueVars>>

\* If a field changes or files were uploaded, the timeline gets a row; the lead
\* is not there any more, or can no longer be deleted.
UpdateTimeline(r) ==
  /\ pc[r] = "update_timeline"
  /\ \E logged \in BOOLEAN :
       /\ given[r] # {} => logged
       /\ IF logged /\ lead = None THEN Goto(r, "update_cleanup") ELSE Goto(r, "update_row")
       /\ sharers' = IF logged /\ lead # None THEN sharers \cup {r} ELSE sharers
  /\ UNCHANGED <<given, read, lead, history, holder, stored, told, overtaken, stale,
                 queueVars>>

\* A writer of the attachments is stale if they are not what it read.
MarkStale(r, lost) ==
  stale' = IF lost \/ read[r].files # lead.files THEN stale \cup {r} ELSE stale

\* Fault: the whole row is written as it was read.
UpdateRowWhole(r) ==
  /\ pc[r] = "update_row"
  /\ holder = None
  /\ sharers' = sharers \ {r}
  /\ IF lead = None
     THEN Goto(r, "update_cleanup") /\ UNCHANGED <<lead, stale>>
     ELSE /\ lead' = [read[r] EXCEPT !.files = @ \cup given[r]]
          /\ MarkStale(r, FALSE) /\ Goto(r, "updated")
  /\ UNCHANGED <<given, read, history, holder, stored, told, overtaken, queueVars>>

\* Fault: the uploads replace the attachments.
UpdateRowReplacing(r) ==
  /\ pc[r] = "update_row"
  /\ holder = None
  /\ sharers' = sharers \ {r}
  /\ IF lead = None
     THEN Goto(r, "update_cleanup") /\ UNCHANGED <<lead, stale>>
     ELSE /\ lead' = [lead EXCEPT !.files = given[r]]
          /\ MarkStale(r, FALSE) /\ Goto(r, "updated")
  /\ UNCHANGED <<given, read, history, holder, stored, told, overtaken, queueVars>>

\* Without uploads the list is not written: the validation strips the DTO's
\* empty default.
Edited(r) ==
  IF given[r] = {} THEN lead ELSE [lead EXCEPT !.files = read[r].files \cup given[r]]

\* An update of a row that is gone fails.  The answer to the COMMIT that
\* follows may be lost.
UpdateRow(r) ==
  /\ pc[r] = "update_row"
  /\ holder = None
  /\ sharers' = sharers \ {r}
  /\ IF lead = None
     THEN Goto(r, "update_cleanup") /\ UNCHANGED <<lead, stale>>
     ELSE /\ lead' = Edited(r)
          /\ \E lost \in BOOLEAN :
               /\ IF given[r] = {} THEN UNCHANGED stale ELSE MarkStale(r, lost)
               /\ Goto(r, IF lost THEN "update_cleanup" ELSE "updated")
  /\ UNCHANGED <<given, read, history, holder, stored, told, overtaken, queueVars>>

\* The catch block of the controller deletes what the request had stored.
UpdateCleanup(r) ==
  /\ pc[r] = "update_cleanup"
  /\ stored' = stored \ given[r]
  /\ Goto(r, "failed")
  /\ UNCHANGED <<given, read, lead, history, holder, sharers, told, overtaken, stale,
                 queueVars>>

-----------------------------------------------------------------------------
(* removeAttachment: given[r] is the file *)

\* Fault: the file leaves the storage before it leaves the row.
FileFindStorageFirst(r) ==
  /\ pc[r] = "new"
  /\ lead # None
  /\ \E f \in lead.files :
       /\ given' = [given EXCEPT ![r] = f]
       /\ stored' = stored \ {f}
  /\ read' = [read EXCEPT ![r] = lead]
  /\ Goto(r, "file_update")
  /\ UNCHANGED <<lead, history, holder, sharers, told, overtaken, stale, queueVars>>

FileFind(r) ==
  /\ pc[r] = "new"
  /\ \E f \in Files :
       IF lead # None /\ f \in lead.files
       THEN /\ given' = [given EXCEPT ![r] = f]
            /\ read' = [read EXCEPT ![r] = lead]
            /\ Goto(r, "file_update")
       ELSE Goto(r, "refused") /\ UNCHANGED <<given, read>>
  /\ UNCHANGED <<lead, history, holder, sharers, stored, told, overtaken, stale,
                 queueVars>>

FileUpdate(r) ==
  /\ pc[r] = "file_update"
  /\ holder = None
  /\ IF lead = None
     THEN Goto(r, "failed") /\ UNCHANGED <<lead, stale>>
     ELSE /\ lead' = [lead EXCEPT !.files = read[r].files \ {given[r]}]
          /\ MarkStale(r, FALSE)
          /\ Goto(r, "file_delete")
  /\ UNCHANGED <<given, read, history, holder, sharers, stored, told, overtaken,
                 queueVars>>

FileDelete(r) ==
  /\ pc[r] = "file_delete"
  /\ stored' = stored \ {given[r]}
  /\ Goto(r, "file_removed")
  /\ UNCHANGED <<given, read, lead, history, holder, sharers, told, overtaken, stale,
                 queueVars>>

-----------------------------------------------------------------------------

\* remove: the history goes with the lead, the files stay in the storage.
Remove(r) ==
  /\ pc[r] = "new"
  /\ holder = None /\ sharers = {}
  /\ IF lead = None
     THEN Goto(r, "failed") /\ UNCHANGED <<lead, history>>
     ELSE Goto(r, "removed") /\ lead' = None /\ history' = <<>>
  /\ UNCHANGED <<given, read, holder, sharers, stored, told, overtaken, stale,
                 queueVars>>

\* The end of a transaction that is not committed.  Its row of the history is
\* nobody's to see.
Rollback(r) ==
  /\ holder' = IF holder = r THEN None ELSE holder
  /\ sharers' = sharers \ {r}

AssignSteps == {"assign_update", "assign_history", "assign_notify", "assign_commit"}
UpdateSteps == {"update_find", "update_timeline", "update_row"}
FileSteps == {"file_update", "file_delete"}

\* A query that fails, a transaction that takes more than its five seconds, or
\* a server that dies.  A notice may be in the queue by then, or get there
\* later; the catch block of the controller's update may run or not.
BreakOff(r) ==
  /\ pc[r] \in AssignSteps \cup UpdateSteps \cup FileSteps \cup {"update_cleanup"}
  /\ Rollback(r)
  /\ IF pc[r] \in UpdateSteps
     THEN Goto(r, "update_cleanup") \/ Goto(r, "failed")
     ELSE Goto(r, "failed")
  /\ \/ UNCHANGED <<job, told>>
     \/ /\ pc[r] = "assign_notify"
        /\ Add(r)
        /\ told' = [told EXCEPT ![r] = Recipient(r)]
  /\ UNCHANGED <<given, read, lead, history, stored, overtaken, stale, log, sent>>

Assign(r) ==
  \/ AssignFind(r) \/ UnassignFind(r) \/ AssignUpdate(r) \/ AssignHistory(r)
  \/ AssignNotify(r) \/ AssignCommit(r)

Update(r) ==
  \/ Upload(r) \/ UpdateFind(r) \/ UpdateTimeline(r) \/ UpdateRow(r)
  \/ UpdateCleanup(r)

RemoveAttachment(r) == FileFind(r) \/ FileUpdate(r) \/ FileDelete(r)

Next ==
  \/ \E r \in Requests :
       Assign(r) \/ Update(r) \/ RemoveAttachment(r) \/ Remove(r) \/ BreakOff(r)
  \/ QueueNext /\ UNCHANGED leadVars

Spec == Init /\ [][Next]_vars

-----------------------------------------------------------------------------
(* Properties *)

Labels ==
  AssignSteps \cup UpdateSteps \cup FileSteps \cup
  {"new", "refused", "failed", "update_cleanup", "assigned", "updated",
   "file_removed", "removed"}

\* The type of every variable.
TypeOK ==
  /\ QueueTypeOK
  /\ pc \in [Requests -> Labels]
  /\ given \in [Requests -> Users \cup Files \cup {None} \cup SUBSET Requests]
  /\ read \in [Requests -> Lead \cup {None}]
  /\ lead \in Lead \cup {None}
  /\ history \in Seq([by: Requests \cup {None}, to: Users \cup {None}])
  /\ holder \in Requests \cup {None}
  /\ sharers \subseteq Requests
  /\ stored \subseteq Files
  /\ told \in [Requests -> Users \cup {None}]
  /\ overtaken \subseteq Requests
  /\ stale \subseteq Requests

\* The rows of the history others can see, and the assignee after one of
\* them: a lead begins unassigned.
Seen == {i \in 1..Len(history) : history[i].by = None \/ pc[history[i].by] = "assigned"}
AssigneeAfter(i) == IF i = 0 THEN None ELSE history[i].to

\* The row i is the next to be seen after k.
NextSeen(k, i) == k < i /\ \A m \in Seen : m <= k \/ i <= m

\* The last row of the history is the assignee of the lead: assignments take
\* effect in the order of their rows, and no update of other fields undoes
\* one (the row is updated first in the transactions of assignLead and
\* unassignLead, and update writes single fields).
HistoryNamesAssignee ==
  lead # None =>
    \A i \in Seen \cup {0} : (\A m \in Seen : m <= i) => AssigneeAfter(i) = lead.assignee

\* "prevent duplicate log actions": a row that repeats the assignee before it
\* is of a request that another one overtook between its check and its
\* transaction.
HistoryHasNoRepeats ==
  \A k \in Seen \cup {0}, i \in Seen :
    NextSeen(k, i) /\ AssigneeAfter(k) = history[i].to => history[i].by \in overtaken

\* Nobody gets or loses a lead without a notice in the queue to that user,
\* unless the request was overtaken (the trigger inside the transactions).
ConcernedAreTold ==
  \A k \in Seen \cup {0}, i \in Seen :
    LET r == history[i].by IN
      NextSeen(k, i) /\ r # None =>
        /\ job[r].step # "none"
        /\ r \notin overtaken =>
             told[r] = IF history[i].to = None THEN AssigneeAfter(k) ELSE history[i].to

\* An attachment of the lead that is not in the storage was written back by a
\* request with an old reading, or uploaded by one whose COMMIT was not
\* answered (the order of the row and the storage in the controllers).
AttachmentsStored ==
  lead # None =>
    \A f \in lead.files \ stored :
      \E r \in stale : f = r \/ f \in read[r].files

\* A step of r that writes the attachments: a removal's, or that of an update
\* with uploads.
WritesFiles(r) ==
  /\ pc'[r] # pc[r]
  /\ pc[r] = "file_update" \/ (pc[r] = "update_row" /\ given[r] # {})

\* An attachment leaves the lead by its removal, or by a writer that had read
\* the lead before it was there; none returns but by a writer that read it.  An
\* update without uploads never does either.
AttachmentsChangeForCause ==
  [][lead # None /\ lead' # None =>
       /\ \A f \in lead.files \ lead'.files :
            \E r \in Requests : WritesFiles(r) /\ (given[r] = f \/ f \notin read[r].files)
       /\ \A f \in lead'.files \ lead.files :
            \E r \in Requests : WritesFiles(r) /\ (f = r \/ f \in read[r].files)]_vars

(* The abstract specification *)

Assignee == IF lead = None THEN None ELSE lead.assignee
Entries == {[at |-> i, by |-> history[i].by, to |-> history[i].to] : i \in Seen}
Noticed == {r \in Requests : job[r].step # "none"}
Delivered == {r \in Requests : sent[r] > 0}

Book ==
  INSTANCE AssignmentBook WITH gone <- (lead = None), assignee <- Assignee,
    entries <- Entries, noticed <- Noticed, delivered <- Delivered

\* Whatever else is done to the lead meanwhile, an assignment takes effect at
\* one moment, the COMMIT of its transaction: then the assignee, the last row
\* of the history and the notice agree, and before it nothing shows.
ImplementsBook == Book!Spec
=============================================================================
