-------------------------- MODULE MCRolePermissions --------------------------
(* RolePermissions on a few requests and names.  Requests, keys and         *)
(* spellings are interchangeable among themselves.                          *)
EXTENDS RolePermissions, TLC

Symmetry ==
  Permutations(Requests) \cup Permutations(Keys) \cup Permutations(Spellings)
=============================================================================
