------------------------------ MODULE MCPhotos ------------------------------
(***************************************************************************)
(* Instances of Photos for TLC.                                            *)
(***************************************************************************)
EXTENDS Photos, TLC

Symmetry == Permutations(Wines) \cup Permutations(Files) \cup Permutations(Reqs)
=============================================================================
