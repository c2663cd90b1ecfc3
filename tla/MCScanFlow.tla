----------------------------- MODULE MCScanFlow -----------------------------
(***************************************************************************)
(* Instances of ScanFlow for TLC.                                          *)
(***************************************************************************)
EXTENDS ScanFlow

\* The counterexamples in which the user always waits.
AlwaysWaits == ~hasty
=============================================================================
