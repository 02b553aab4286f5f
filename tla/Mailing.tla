------------------------------- MODULE Mailing -------------------------------
(***************************************************************************)
(* What a campaign promises its recipients and whoever reads its figures,  *)
(* without requests, webhooks or a job: each launch sends one mail, once,  *)
(* and enters its recipients once; entries stay until the campaign is      *)
(* removed; and the campaign is not judged before a mail is on its way.    *)
(***************************************************************************)

CONSTANTS Launches, Recipients

VARIABLES mail,      \* mail[k]: where the mail of launch k is
          entered,   \* the entries: by which launch, and for whom
          judged,    \* whether the campaign has a verdict
          removed    \* whether the campaign was removed

mailing == <<mail, entered, judged, removed>>

Init ==
  /\ mail = [k \in Launches |-> "none"]
  /\ entered = {}
  /\ judged = FALSE /\ removed = FALSE

\* Even for a campaign removed meanwhile.
Prepare(k) ==
  /\ mail[k] = "none"
  /\ mail' = [mail EXCEPT ![k] = "held"]
  /\ UNCHANGED <<entered, judged, removed>>

Dispatch(k) ==
  /\ mail[k] = "held"
  /\ mail' = [mail EXCEPT ![k] = "going"]
  /\ UNCHANGED <<entered, judged, removed>>

Complete(k) ==
  /\ mail[k] = "going"
  /\ mail' = [mail EXCEPT ![k] = "done"]
  /\ UNCHANGED <<entered, judged, removed>>

Enter(k, recipients) ==
  /\ ~removed /\ mail[k] # "none"
  /\ \A t \in entered : t[1] # k
  /\ entered' = entered \cup ({k} \X recipients)
  /\ UNCHANGED <<mail, judged, removed>>

Judge ==
  /\ ~removed
  /\ \E k \in Launches : mail[k] \in {"going", "done"}
  /\ judged' = TRUE
  /\ UNCHANGED <<mail, entered, removed>>

\* The campaign is launched again, or taken back.
Reopen ==
  /\ judged' = FALSE
  /\ UNCHANGED <<mail, entered, removed>>

Remove ==
  /\ ~removed /\ removed' = TRUE
  /\ entered' = {} /\ judged' = FALSE
  /\ UNCHANGED mail

Next ==
  \/ \E k \in Launches :
       \/ Prepare(k) \/ Dispatch(k) \/ Complete(k)
       \/ \E recipients \in SUBSET Recipients : Enter(k, recipients)
  \/ Judge \/ Reopen \/ Remove

Spec == Init /\ [][Next]_mailing
=============================================================================
