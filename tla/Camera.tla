------------------------------- MODULE Camera -------------------------------
(***************************************************************************)
(* The camera of the "Add wine" page (static/assets/scan.js, and the tab   *)
(* switch of app.js).  getUserMedia answers late: between startCamera and  *)
(* its callback the user may stop, flip, capture, or leave the page.  A    *)
(* picture that is taken is analysed, and the analysis, too, is answered   *)
(* late: a card opens over whatever tab is shown by then, and has a        *)
(* "Retake photo" if the label was illegible.  (Cards are not told apart:  *)
(* any of them may have it.)                                               *)
(***************************************************************************)
EXTENDS Naturals, FiniteSets

CONSTANTS
  Streams,    \* getUserMedia calls a behaviour may make
  MaxShots,   \* pictures that may be under way at once
  None

ASSUME CameraAssumption == None \notin Streams /\ MaxShots \in Nat

VARIABLES
  status,     \* stream -> "unused", "asked" (getUserMedia pending), "on", "off"
  stream,     \* the page's variable
  view,       \* the tab shown: "scan" or "other"
  frames,     \* canvas.toBlob calls whose callback is pending
  reading,    \* analyses whose answer is pending
  results,    \* open cards that analyses have opened
  wanted,     \* history: the user's last action started the camera
  rivals      \* history: streams that were pending while another one was

vars == <<status, stream, view, frames, reading, results, wanted, rivals>>

\* A picture is a frame in the making, in analysis, or on a card.
ShotsOK ==
  /\ frames \in Nat /\ reading \in Nat /\ results \in Nat
  /\ frames + reading + results <= MaxShots

TypeOK ==
  /\ ShotsOK
  /\ status \in [Streams -> {"unused", "asked", "on", "off"}]
  /\ stream \in Streams \cup {None}
  /\ view \in {"scan", "other"}
  /\ wanted \in BOOLEAN /\ rivals \subseteq Streams
  /\ stream # None => status[stream] = "on"

Pending == {s \in Streams : status[s] = "asked"}
Lights  == {s \in Streams : status[s] = "on"}   \* the camera's light is on

\* Variant of StopTracks: the variable is cleared, the tracks go on.
StopTracksForgotten(st) == st

\* stopCamera on the statuses st.
StopTracks(st) == IF stream = None THEN st ELSE [st EXCEPT ![stream] = "off"]

StopCamera == status' = StopTracks(status) /\ stream' = None

StartCamera ==
  \E s \in Streams :
    /\ status[s] = "unused"
    /\ status' = [StopTracks(status) EXCEPT ![s] = "asked"]
    /\ stream' = None
    /\ rivals' = IF Pending = {} THEN rivals ELSE rivals \cup Pending \cup {s}

MayShoot  == frames + reading + results < MaxShots
Uncovered == results = 0   \* no card lies over the page

\* "Start camera", flip, the retake of a picture that is being analysed.
Start ==
  /\ view = "scan" /\ Uncovered
  /\ StartCamera
  /\ wanted' = TRUE
  /\ UNCHANGED <<view, frames, reading, results>>

\* The stop button, "Choose a photo", "Add manually", which resets.
Stop ==
  /\ view = "scan" /\ Uncovered
  /\ StopCamera
  /\ wanted' = FALSE
  /\ UNCHANGED <<view, frames, reading, results, rivals>>

\* switchView to the scan tab, by the tab bar or from a card, which closes.
OpenScan ==
  /\ StartCamera
  /\ view' = "scan"
  /\ wanted' = TRUE
  /\ results' \in 0..results
  /\ UNCHANGED <<frames, reading>>

\* Variant of Leave: the camera goes on.
LeaveLit ==
  /\ view' = "other"
  /\ wanted' = FALSE
  /\ results' \in 0..results
  /\ UNCHANGED <<status, stream, frames, reading, rivals>>

\* switchView: to any other tab, by the tab bar or from a card, which closes; a save
\* resets.
Leave ==
  /\ StopCamera
  /\ view' = "other"
  /\ wanted' = FALSE
  /\ results' \in 0..results
  /\ UNCHANGED <<frames, reading, rivals>>

Capture ==
  /\ view = "scan" /\ Uncovered /\ stream # None /\ MayShoot
  /\ frames' = frames + 1
  /\ UNCHANGED <<status, stream, view, reading, results, wanted, rivals>>

\* The frame is there: stopCamera, whatever the page shows by now, and the analysis.
Captured ==
  /\ frames > 0
  /\ frames' = frames - 1 /\ reading' = reading + 1
  /\ StopCamera
  /\ wanted' = FALSE
  /\ UNCHANGED <<view, results, rivals>>

\* Or there is no frame.
NoFrame ==
  /\ frames > 0 /\ frames' = frames - 1
  /\ UNCHANGED <<status, stream, view, reading, results, wanted, rivals>>

\* The file input has a picture, whenever the picker was opened.
Choose ==
  /\ MayShoot
  /\ reading' = reading + 1
  /\ StopCamera
  /\ wanted' = FALSE
  /\ UNCHANGED <<view, frames, results, rivals>>

\* The analysis is answered, or fails.
Analysed ==
  /\ reading > 0
  /\ reading' = reading - 1 /\ results' \in {results, results + 1}
  /\ UNCHANGED <<status, stream, view, frames, wanted, rivals>>

\* A card is closed; Escape closes all.
Dismiss ==
  /\ results' \in 0..results - 1
  /\ UNCHANGED <<status, stream, view, frames, reading, wanted, rivals>>

\* "Retake photo" on a card, in whatever tab: it closes the card, unless another one
\* was closed above it, and opens what the last picture came from, the camera or the
\* picker.
Retake ==
  /\ results > 0 /\ results' \in {results - 1, results}
  /\ \/ StartCamera /\ wanted' = TRUE /\ UNCHANGED <<view, frames, reading>>
     \/ UNCHANGED <<status, stream, view, frames, reading, wanted, rivals>>

Granted(s) ==
  /\ status[s] = "asked"
  /\ status' = [status EXCEPT ![s] = "on"]
  /\ stream' = s
  /\ UNCHANGED <<view, frames, reading, results, wanted, rivals>>

Denied(s) ==
  /\ status[s] = "asked"
  /\ status' = [status EXCEPT ![s] = "off"]
  /\ UNCHANGED <<stream, view, frames, reading, results, wanted, rivals>>

Init ==
  /\ status = [s \in Streams |-> "unused"]
  /\ stream = None /\ view = "other" /\ frames = 0
  /\ reading = 0 /\ results = 0
  /\ wanted = FALSE /\ rivals = {}

Answer == \E s \in Streams : Granted(s) \/ Denied(s)

Next == \/ Start \/ Stop \/ OpenScan \/ Leave \/ Capture \/ Captured \/ NoFrame
        \/ Choose \/ Analysed \/ Dismiss \/ Retake \/ Answer

Spec == Init /\ [][Next]_vars

(***************************************************************************)
(* Properties.                                                             *)
(***************************************************************************)

\* A camera that nobody can switch off any more (its light is on and the page
\* has lost the stream) was opened while another request was pending.
LostStreamHadRival == Lights \ {stream} \subseteq rivals

\* scan.js, btn-choose-photo: "must release the camera stream (green light
\* off) as soon as it is pressed, not keep it running behind the picker".
StopReleasesCamera == ~wanted => Lights = {}
=============================================================================
