--------------------------------- MODULE Page ---------------------------------
(***************************************************************************)
(* The camera and the favorites tab in one page: the tabs switch between   *)
(* them (static/assets/app.js switchView), and the end of a save leaves    *)
(* the one and refreshes the other (static/assets/scan.js).                *)
(***************************************************************************)
EXTENDS Camera, FavoritesPanel

VARIABLE late  \* history: streams that were pending when the scan tab was left, or
               \* that a card's "Retake photo" asked for over another tab

page == <<vars, pvars, late>>

\* switchView to another tab than that of the camera.
GoElsewhere == Leave /\ late' = late \cup Pending

\* The tab bar, which dialogs and cards lie over.
SwitchToScan ==
  /\ dialog = Shut /\ Uncovered /\ OpenScan /\ tab' = "other"
  /\ UNCHANGED <<late, stored, overview, listing, current, detail, cards, gets, dialog, calls, rival>>

\* A button of a card, which may lie over any tab and dialog: the card closes, or one
\* that was filled by hand, or everything that is open.
CardCloses ==
  /\ ~Uncovered
  /\ \/ results' \in {results - 1, results} /\ dialog' = dialog
     \/ results' = 0 /\ dialog' = Shut

\* "Scan the back label".
ScanBackLabel ==
  /\ OpenScan /\ tab' = "other" /\ CardCloses
  /\ UNCHANGED <<late, stored, overview, listing, current, detail, cards, gets, calls, rival>>

SwitchToFavorites ==
  /\ dialog = Shut /\ Uncovered /\ GoElsewhere /\ LoadFavoriteLists /\ tab' = "favorites"
  /\ UNCHANGED <<results, stored, current, detail, cards, gets, dialog, calls, rival>>

SwitchToOther ==
  /\ dialog = Shut /\ Uncovered /\ GoElsewhere /\ tab' = "other"
  /\ UNCHANGED <<results, stored, overview, listing, current, detail, cards, gets, dialog,
                 calls, rival>>

\* "Open existing card".
OpenExisting ==
  /\ GoElsewhere /\ tab' = "other" /\ CardCloses
  /\ UNCHANGED <<stored, overview, listing, current, detail, cards, gets, calls, rival>>

\* A save was answered, wherever the user is by now: its card closes.
SaveEnds ==
  /\ GoElsewhere /\ results' \in {results, results - 1}
  /\ \E c \in calls : Saved(c)

PageInit == Init /\ PanelInit /\ late = {}

OnCamera ==
  /\ Start \/ Stop \/ Capture \/ Captured \/ NoFrame \/ Choose \/ Analysed
     \/ Dismiss \/ Answer
  /\ UNCHANGED <<late, pvars>>

RetakeHere ==
  /\ Retake /\ late' = IF view = "other" THEN late \cup (Pending' \ Pending) ELSE late
  /\ UNCHANGED pvars

PageNext ==
  \/ OnCamera \/ RetakeHere
  \/ PanelNext /\ UNCHANGED <<late, vars>>
  \/ SwitchToScan \/ SwitchToFavorites \/ SwitchToOther \/ ScanBackLabel \/ OpenExisting
  \/ SaveEnds

PageSpec == PageInit /\ [][PageNext]_page

(***************************************************************************)
(* Properties.                                                             *)
(***************************************************************************)

\* app.js switchView, "if (name !== "scan" && W.stopCamera) W.stopCamera()": with
\* another tab open the camera's light is on only for a stream that was still asked
\* for when the scan tab was left, that had a rival, or that a card asked for over
\* the other tab: every way out of the tab switches off what is on.
LitElsewhereWasAsked == view = "other" => Lights \subseteq late \cup rivals
=============================================================================
