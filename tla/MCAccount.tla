----------------------------- MODULE MCAccount -----------------------------
(* Account on a few requests, which are interchangeable.                    *)
EXTENDS Account, TLC

Symmetry == Permutations(Requests)
=============================================================================
