----------------------------- MODULE MCSessions -----------------------------
(***************************************************************************)
(* Instances of Sessions for TLC.                                          *)
(***************************************************************************)
EXTENDS Sessions, TLC

Symmetry == Permutations(Reqs) \cup Permutations(Sids)
              \cup Permutations(Passwords)
=============================================================================
