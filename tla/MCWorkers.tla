------------------------------ MODULE MCWorkers ------------------------------
(***************************************************************************)
(* Instances of Workers, and through it of Favorites, for TLC.             *)
(***************************************************************************)
EXTENDS Workers
=============================================================================
