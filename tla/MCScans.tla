------------------------------- MODULE MCScans -------------------------------
(***************************************************************************)
(* Instances of Scans for TLC.  Words of 3 to 5 letters.                   *)
(***************************************************************************)
EXTENDS Scans

clos   == <<"s", "a", "s">>            \* a weak word
asaa   == <<"a", "s", "a", "a">>       \* the shortest word that may be misread
masam  == <<"m", "a", "s", "a", "m">>  \* masas, if misread, loses its last letter
masas  == <<"m", "a", "s", "a", "s">>

SomeBottles == {[name |-> {asaa}, maker |-> {"x"}],
                [name |-> {clos, masam}, maker |-> {"x", "y"}]}
Plurals     == {[name |-> {masas}, maker |-> {"x"}]}
SomeWeak    == {clos}
SomeLetters == {"s"}
SomeForms   == {{}, {"name", "maker"}}
SomeReplies == {{"name", "grape"}, {"grape"}, {"type"}}
SomeTelling == {{"name", "grape"}}
=============================================================================
