-------------------------------- MODULE MCPage --------------------------------
(***************************************************************************)
(* Instances of Page for TLC.                                              *)
(***************************************************************************)
EXTENDS Page, TLC

Either == Permutations(Streams) \cup Permutations(Lists)
=============================================================================
