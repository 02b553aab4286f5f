---------------------------- MODULE MCAuthSession ----------------------------
(* AuthSession with interchangeable requests, devices and roles. *)
EXTENDS AuthSession, TLC

Symmetry ==
  Permutations(Requests) \cup Permutations(Devices) \cup Permutations(Roles)
=============================================================================
