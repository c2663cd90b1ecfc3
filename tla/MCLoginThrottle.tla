-------------------------- MODULE MCLoginThrottle --------------------------
(***************************************************************************)
(* Instances of LoginThrottle for TLC.                                     *)
(***************************************************************************)
EXTENDS LoginThrottle, TLC

Symmetry == Permutations(Threads) \cup Permutations(Ips)
=============================================================================
