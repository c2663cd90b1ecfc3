------------------------------ MODULE MCBackup ------------------------------
(***************************************************************************)
(* Instances of Backup for TLC.  Two wines may have the same key, an       *)
(* account may be deleted and created again under its old name.            *)
(***************************************************************************)
EXTENDS Backup, TLC

CONSTANTS w1, w2, w3, ann, ann2, bob, l1

MCWines == {w1, w2, w3}
MCUsers == {ann, ann2, bob}
MCLists == {l1}
MCKey   == [w \in MCWines |-> IF w = w3 THEN "k2" ELSE "k1"]
MCName  == [u \in MCUsers |-> IF u = bob THEN "b" ELSE "a"]
MCTitle == [l \in MCLists |-> "t"]

\* Ids with the same label may be exchanged.
Symmetry == Permutations({w1, w2}) \cup Permutations({ann, ann2})
=============================================================================
