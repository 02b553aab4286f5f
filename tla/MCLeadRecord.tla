---------------------------- MODULE MCLeadRecord ----------------------------
(* LeadRecord on a few requests and users, which are interchangeable. *)
EXTENDS LeadRecord, TLC

Symmetry == Permutations(Requests) \cup Permutations(Users)
=============================================================================
