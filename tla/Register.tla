------------------------------ MODULE Register ------------------------------
(***************************************************************************)
(* What every code, token and session promises, without saying where it is *)
(* kept: a grant is issued at most once, and one that has ended, by use,   *)
(* by revocation, by replacement or with time, has ended for good.         *)
(***************************************************************************)

CONSTANT Grants

VARIABLES valid,  \* what opens something now
          ended   \* what never will again

register == <<valid, ended>>

Init == valid = {} /\ ended = {}

\* A grant may replace others.
Issue(g, replaced) ==
  /\ g \notin valid \cup ended
  /\ replaced \subseteq valid
  /\ valid' = (valid \ replaced) \cup {g}
  /\ ended' = ended \cup replaced

\* What was never issued may be given up, too.
End(grants) ==
  /\ grants \cap ended = {}
  /\ valid' = valid \ grants
  /\ ended' = ended \cup grants

Next ==
  \E grants \in SUBSET Grants : End(grants) \/ \E g \in Grants : Issue(g, grants)

Spec == Init /\ [][Next]_register
=============================================================================
