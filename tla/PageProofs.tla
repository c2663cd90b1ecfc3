------------------------------ MODULE PageProofs ------------------------------
(***************************************************************************)
(* Proofs about Camera and Page, for any number of getUserMedia calls,     *)
(* lists, answers and writes in flight.                                    *)
(*                                                                         *)
(* LostStreamHadRival says nothing of requests that are still pending, nor *)
(* of the stream the page holds while a late answer may replace it; Rivals *)
(* does: whatever is pending next to another request, or next to a held    *)
(* stream, was a rival.  The camera's part of a page's step is a step of   *)
(* Camera, so what is proved of it holds of the page.  The light and the   *)
(* wines need what is still to come: streams that are pending (Foreseen)   *)
(* and GETs in flight (Alike).                                             *)
(***************************************************************************)
EXTENDS Page, TLAPS, SequenceTheorems

Rivals ==
  /\ \A s, t \in Pending : s # t => s \in rivals
  /\ stream # None => \A s \in Pending : {s, stream} \subseteq rivals

IInv == TypeOK /\ LostStreamHadRival /\ Rivals

LEMMA StopTracksTurnsOff ==
  ASSUME TypeOK
  PROVE  /\ StopTracks(status) \in [Streams -> {"unused", "asked", "on", "off"}]
         /\ \A s \in Streams :
              /\ StopTracks(status)[s] = "on" <=> s \in Lights \ {stream}
              /\ StopTracks(status)[s] = "asked" <=> s \in Pending
              /\ StopTracks(status)[s] = "unused" <=> status[s] = "unused"
BY CameraAssumption DEF TypeOK, StopTracks, Lights, Pending

LEMMA StopCameraKeepsIInv ==
  ASSUME IInv, StopCamera, rivals' = rivals, view' \in {"scan", "other"},
         ShotsOK', wanted' \in BOOLEAN
  PROVE  IInv'
<1>1. status' = StopTracks(status) /\ stream' = None
  BY DEF StopCamera
<1>2. TypeOK'
  BY <1>1, StopTracksTurnsOff DEF IInv, TypeOK
<1>3. Lights' = Lights \ {stream} /\ Pending' = Pending
  BY <1>1, StopTracksTurnsOff DEF IInv, Lights, Pending
<1>4. LostStreamHadRival' /\ Rivals'
  BY <1>1, <1>3 DEF IInv, LostStreamHadRival, Rivals
<1> QED
  BY <1>2, <1>4 DEF IInv

LEMMA StartCameraKeepsIInv ==
  ASSUME IInv, StartCamera, view' \in {"scan", "other"},
         ShotsOK', wanted' \in BOOLEAN
  PROVE  IInv'
<1>1. PICK s \in Streams :
        /\ status[s] = "unused"
        /\ status' = [StopTracks(status) EXCEPT ![s] = "asked"]
        /\ stream' = None
        /\ rivals' = IF Pending = {} THEN rivals ELSE rivals \cup Pending \cup {s}
  BY DEF StartCamera
<1>2. TypeOK'
  BY <1>1, StopTracksTurnsOff DEF IInv, TypeOK, Pending
<1>3. Lights' = Lights \ {stream} /\ Pending' = Pending \cup {s}
  BY <1>1, StopTracksTurnsOff DEF IInv, Lights, Pending
<1>4. LostStreamHadRival' /\ Rivals'
  BY <1>1, <1>3 DEF IInv, LostStreamHadRival, Rivals
<1> QED
  BY <1>2, <1>4 DEF IInv

LEMMA GrantedKeepsIInv ==
  ASSUME IInv, NEW s \in Streams, Granted(s)
  PROVE  IInv'
<1>1. TypeOK'
  BY CameraAssumption DEF IInv, TypeOK, ShotsOK, Granted
<1>2. s \in Pending /\ Lights' = Lights \cup {s} /\ Pending' = Pending \ {s}
  BY DEF IInv, TypeOK, Granted, Lights, Pending
<1>3. stream \in Lights => stream \in rivals
  BY <1>2, CameraAssumption DEF IInv, TypeOK, Rivals, Lights
<1>4. LostStreamHadRival' /\ Rivals'
  BY <1>2, <1>3 DEF IInv, LostStreamHadRival, Rivals, Granted
<1> QED
  BY <1>1, <1>4 DEF IInv

LEMMA DeniedKeepsIInv ==
  ASSUME IInv, NEW s \in Streams, Denied(s)
  PROVE  IInv'
<1>1. TypeOK'
  BY CameraAssumption DEF IInv, TypeOK, ShotsOK, Denied
<1>2. Lights' = Lights /\ Pending' = Pending \ {s}
  BY DEF IInv, TypeOK, Denied, Lights, Pending
<1>3. LostStreamHadRival' /\ Rivals'
  BY <1>2 DEF IInv, LostStreamHadRival, Rivals, Denied
<1> QED
  BY <1>1, <1>3 DEF IInv

\* Cards that close make room.
LEMMA FewerCardsFit ==
  ASSUME ShotsOK, frames' = frames, reading' = reading, results' \in Nat, results' <= results
  PROVE  ShotsOK'
<1>1. MaxShots \in Nat
  BY CameraAssumption
<1>2. frames + reading + results <= MaxShots
  BY DEF ShotsOK
<1>3. frames \in Nat /\ reading \in Nat /\ results \in Nat
  BY DEF ShotsOK
<1>4. ASSUME NEW x \in Nat, x <= results
      PROVE  frames + reading + x <= MaxShots
  BY <1>1, <1>2, <1>3, <1>4
<1> QED
  BY <1>3, <1>4 DEF ShotsOK

\* A card takes the place of its analysis.
LEMMA AnswerFits ==
  ASSUME ShotsOK, reading > 0, frames' = frames, reading' = reading - 1,
         results' \in {results, results + 1}
  PROVE  ShotsOK'
<1>1. MaxShots \in Nat
  BY CameraAssumption
<1>2. frames + reading + results <= MaxShots
  BY DEF ShotsOK
<1>3. frames \in Nat /\ reading \in Nat /\ results \in Nat
  BY DEF ShotsOK
<1>4. ASSUME NEW x \in {results, results + 1}
      PROVE  /\ x \in Nat /\ reading - 1 \in Nat
             /\ frames + (reading - 1) + x <= MaxShots
  BY <1>1, <1>2, <1>3
<1> QED
  BY <1>3, <1>4 DEF ShotsOK

LEMMA NextKeepsIInv == IInv /\ [Next]_vars => IInv'
<1> SUFFICES ASSUME IInv, [Next]_vars
             PROVE  IInv'
  OBVIOUS
<1>1. /\ frames \in Nat /\ reading \in Nat /\ results \in Nat /\ MaxShots \in Nat
      /\ frames + reading + results <= MaxShots
      /\ view \in {"scan", "other"} /\ wanted \in BOOLEAN
  BY CameraAssumption DEF IInv, TypeOK, ShotsOK
<1>0. ShotsOK
  BY DEF IInv, TypeOK
<1>2. ASSUME UNCHANGED <<status, stream, rivals>>, ShotsOK',
             view' \in {"scan", "other"}, wanted' \in BOOLEAN
      PROVE  IInv'
  BY <1>2 DEF IInv, TypeOK, LostStreamHadRival, Rivals, Lights, Pending
<1>3. CASE Start
  <2>1. ShotsOK'
    BY <1>1, <1>3 DEF Start, ShotsOK
  <2> QED
    BY <1>1, <1>3, <2>1, StartCameraKeepsIInv DEF Start
<1>4. CASE Stop
  <2>1. ShotsOK'
    BY <1>1, <1>4 DEF Stop, ShotsOK
  <2> QED
    BY <1>1, <1>4, <2>1, StopCameraKeepsIInv DEF Stop
<1>5. CASE OpenScan
  <2>0. /\ results' \in Nat /\ results' <= results
        /\ frames' = frames /\ reading' = reading
    BY <1>1, <1>5 DEF OpenScan
  <2>1. ShotsOK'
    BY <1>0, <2>0, FewerCardsFit
  <2> QED
    BY <1>1, <1>5, <2>1, StartCameraKeepsIInv DEF OpenScan
<1>6. CASE Leave
  <2>0. /\ results' \in Nat /\ results' <= results
        /\ frames' = frames /\ reading' = reading
    BY <1>1, <1>6 DEF Leave
  <2>1. ShotsOK'
    BY <1>0, <2>0, FewerCardsFit
  <2> QED
    BY <1>1, <1>6, <2>1, StopCameraKeepsIInv DEF Leave
<1>7. CASE Capture
  <2>1. ShotsOK'
    BY <1>1, <1>7 DEF Capture, MayShoot, ShotsOK
  <2> QED
    BY <1>1, <1>2, <1>7, <2>1 DEF Capture
<1>8. CASE Captured
  <2>1. ShotsOK'
    BY <1>1, <1>8 DEF Captured, ShotsOK
  <2> QED
    BY <1>1, <1>8, <2>1, StopCameraKeepsIInv DEF Captured
<1>9. CASE Choose
  <2>1. ShotsOK'
    BY <1>1, <1>9 DEF Choose, MayShoot, ShotsOK
  <2> QED
    BY <1>1, <1>9, <2>1, StopCameraKeepsIInv DEF Choose
<1>10. CASE Analysed
  <2>1. ShotsOK'
    BY <1>0, <1>10, AnswerFits DEF Analysed
  <2> QED
    BY <1>1, <1>2, <1>10, <2>1 DEF Analysed
<1>11. CASE Dismiss
  <2>0. /\ results' \in Nat /\ results' <= results
        /\ frames' = frames /\ reading' = reading
    BY <1>1, <1>11 DEF Dismiss
  <2>1. ShotsOK'
    BY <1>0, <2>0, FewerCardsFit
  <2> QED
    BY <1>1, <1>2, <1>11, <2>1 DEF Dismiss
<1>12. CASE Retake
  <2>0. results' \in Nat /\ results' <= results
    BY <1>1, <1>12 DEF Retake
  <2>1. CASE StartCamera /\ wanted' = TRUE /\ UNCHANGED <<view, frames, reading>>
    <3>1. ShotsOK'
      <4>1. frames' = frames /\ reading' = reading
        BY <1>12, <2>1 DEF Retake
      <4> QED
        BY <1>0, <2>0, <4>1, FewerCardsFit
    <3> QED
      BY <1>1, <2>1, <3>1, StartCameraKeepsIInv
  <2>2. CASE UNCHANGED <<status, stream, view, frames, reading, wanted, rivals>>
    <3>1. ShotsOK'
      <4>1. frames' = frames /\ reading' = reading
        BY <2>2
      <4> QED
        BY <1>0, <2>0, <4>1, FewerCardsFit
    <3> QED
      BY <1>1, <1>2, <2>2, <3>1
  <2> QED
    BY <1>12, <2>1, <2>2 DEF Retake
<1>13. CASE Answer
  BY <1>13, GrantedKeepsIInv, DeniedKeepsIInv DEF Answer
<1>14. CASE UNCHANGED vars
  <2>1. ShotsOK'
    BY <1>1, <1>14 DEF vars, ShotsOK
  <2> QED
    BY <1>1, <1>2, <1>14, <2>1 DEF vars
<1>15. CASE NoFrame
  <2>1. ShotsOK'
    BY <1>1, <1>15 DEF NoFrame, ShotsOK
  <2> QED
    BY <1>1, <1>2, <1>15, <2>1 DEF NoFrame
<1> QED
  BY <1>3, <1>4, <1>5, <1>6, <1>7, <1>8, <1>9, <1>10, <1>11, <1>12, <1>13, <1>14, <1>15 DEF Next

LEMMA IInvHolds == Spec => []IInv
<1>1. Init => IInv
  <2> SUFFICES ASSUME Init
               PROVE  IInv
    OBVIOUS
  <2>1. TypeOK
    <3>1. ShotsOK
      BY CameraAssumption DEF Init, ShotsOK
    <3>2. status \in [Streams -> {"unused", "asked", "on", "off"}]
      BY DEF Init
    <3> QED
      BY <3>1, <3>2 DEF Init, TypeOK
  <2>2. Lights = {} /\ Pending = {} /\ stream = None
    BY DEF Init, Lights, Pending
  <2> QED
    BY <2>1, <2>2 DEF IInv, LostStreamHadRival, Rivals
<1> QED
  BY <1>1, NextKeepsIInv, PTL DEF Spec

\* The variables of scan.js keep their types, and a stream the page holds is on.
THEOREM TypeCorrect == Spec => []TypeOK
BY IInvHolds, PTL DEF IInv

\* A stream that startCamera's callback overwrites, with its light on, was asked
\* for while another request was pending.
THEOREM LostOnlyToRivals == Spec => []LostStreamHadRival
BY IInvHolds, PTL DEF IInv

-----------------------------------------------------------------------------
\* With another tab open, what is lit or asked for was asked for on leaving, or by a card.
Foreseen == view = "other" => Lights \cup Pending \subseteq late \cup rivals

\* The wines of a list that was opened alone, and those on their way, are its own.
Alike ==
  detail /\ ~rival => /\ \A i \in DOMAIN gets : gets[i].id = current.id
                      /\ cards \in Snapshots => cards.id = current.id

PageInv == IInv /\ Foreseen

PanelInv == PanelTypeOK /\ Alike

-----------------------------------------------------------------------------
LEMMA PageStepIsCameraStep == [PageNext]_page => [Next]_vars
<1> SUFFICES ASSUME [PageNext]_page PROVE [Next]_vars
  OBVIOUS
<1>1. CASE OnCamera \/ RetakeHere
  BY <1>1 DEF OnCamera, RetakeHere, Next
<1>2. CASE PanelNext /\ UNCHANGED <<late, vars>>
  BY <1>2
<1>3. CASE SwitchToScan \/ ScanBackLabel
  BY <1>3 DEF SwitchToScan, ScanBackLabel, Next
<1>4. CASE SwitchToFavorites \/ SwitchToOther \/ OpenExisting \/ SaveEnds
  BY <1>4 DEF SwitchToFavorites, SwitchToOther, OpenExisting, SaveEnds, GoElsewhere, Next
<1>5. CASE UNCHANGED page
  BY <1>5 DEF page
<1> QED
  BY <1>1, <1>2, <1>3, <1>4, <1>5 DEF PageNext

LEMMA PageIsCamera == PageSpec => Spec
BY PageStepIsCameraStep, PTL DEF PageSpec, Spec, PageInit

\* scan.js startCamera, app.js switchView: whatever the tabs and saves do, a stream that
\* the page has lost with its light on was asked for beside another one.
THEOREM PageLosesToRivals == PageSpec => []LostStreamHadRival
BY PageIsCamera, LostOnlyToRivals, PTL

-----------------------------------------------------------------------------
LEMMA LeavingForesees ==
  ASSUME IInv, GoElsewhere
  PROVE  Foreseen'
<1>1. status' = StopTracks(status) /\ late' = late \cup Pending /\ rivals' = rivals
  BY DEF GoElsewhere, Leave, StopCamera
<1>2. Lights' = Lights \ {stream} /\ Pending' = Pending
  BY <1>1, StopTracksTurnsOff DEF IInv, Lights, Pending
<1> QED
  BY <1>1, <1>2 DEF IInv, LostStreamHadRival, Foreseen

\* Stopping asks for nothing.
LEMMA StoppingForesees ==
  ASSUME IInv, Foreseen, StopCamera, UNCHANGED <<view, late, rivals>>
  PROVE  Foreseen'
<1>1. Lights' = Lights \ {stream} /\ Pending' = Pending
  BY StopTracksTurnsOff DEF StopCamera, IInv, Lights, Pending
<1> QED
  BY <1>1 DEF Foreseen

LEMMA CameraForesees ==
  ASSUME IInv, Foreseen, OnCamera
  PROVE  Foreseen'
<1>1. late' = late
  BY DEF OnCamera
<1>2. CASE Start
  BY <1>2 DEF Start, Foreseen
<1>3. CASE Stop
  BY <1>3 DEF Stop, Foreseen
<1>4. CASE Capture \/ NoFrame \/ Analysed \/ Dismiss
  BY <1>1, <1>4 DEF Capture, NoFrame, Analysed, Dismiss, Foreseen, Lights, Pending
<1>5. CASE Captured \/ Choose
  BY <1>1, <1>5, StoppingForesees DEF Captured, Choose
<1>6. CASE Answer
  <2>1. PICK s \in Streams : Granted(s) \/ Denied(s)
    BY <1>6 DEF Answer
  <2>2. Lights' \cup Pending' \subseteq Lights \cup Pending
    BY <2>1 DEF Granted, Denied, IInv, TypeOK, Lights, Pending
  <2> QED
    BY <1>1, <2>1, <2>2 DEF Granted, Denied, Foreseen
<1> QED
  BY <1>2, <1>3, <1>4, <1>5, <1>6 DEF OnCamera

\* What a card asks for over another tab is noted.
LEMMA RetakeForesees ==
  ASSUME IInv, Foreseen, RetakeHere
  PROVE  Foreseen'
<1>1. late' = IF view = "other" THEN late \cup (Pending' \ Pending) ELSE late
  BY DEF RetakeHere
<1>2. CASE StartCamera /\ UNCHANGED <<view, frames, reading>>
  <2>1. PICK s \in Streams :
          /\ status' = [StopTracks(status) EXCEPT ![s] = "asked"]
          /\ rivals' = IF Pending = {} THEN rivals ELSE rivals \cup Pending \cup {s}
    BY <1>2 DEF StartCamera
  <2>2. Lights' \subseteq Lights
    BY <2>1, StopTracksTurnsOff DEF IInv, Lights
  <2> QED
    BY <1>1, <1>2, <2>1, <2>2 DEF Foreseen
<1>3. CASE UNCHANGED <<status, stream, view, frames, reading, wanted, rivals>>
  BY <1>1, <1>3 DEF Foreseen, Lights, Pending
<1> QED
  BY <1>2, <1>3 DEF RetakeHere, Retake

LEMMA PageInvHolds == PageSpec => []PageInv
<1>1. PageInit => Foreseen
  BY DEF PageInit, Init, Foreseen, Lights, Pending
<1>2. IInv /\ Foreseen /\ [PageNext]_page => Foreseen'
  <2> SUFFICES ASSUME IInv, Foreseen, [PageNext]_page PROVE Foreseen'
    OBVIOUS
  <2>1. CASE OnCamera
    BY <2>1, CameraForesees
  <2>2. CASE SwitchToScan \/ ScanBackLabel
    BY <2>2 DEF SwitchToScan, ScanBackLabel, OpenScan, Foreseen
  <2>3. CASE SwitchToFavorites \/ SwitchToOther \/ OpenExisting \/ SaveEnds
    BY <2>3, LeavingForesees DEF SwitchToFavorites, SwitchToOther, OpenExisting, SaveEnds
  <2>4. CASE UNCHANGED <<late, vars>>
    BY <2>4 DEF vars, Foreseen, Lights, Pending
  <2>5. CASE RetakeHere
    BY <2>5, RetakeForesees
  <2> QED
    BY <2>1, <2>2, <2>3, <2>4, <2>5 DEF PageNext, page
<1> QED
  BY <1>1, <1>2, PageIsCamera, IInvHolds, PTL DEF PageSpec, PageInv

\* app.js switchView: in another tab the light is on only for a stream that was pending
\* when the scan tab was left, that a card's "Retake photo" asked for over that tab, or
\* that had a rival.
THEOREM LeavingSwitchesOff == PageSpec => []LitElsewhereWasAsked
<1>1. PageInv => LitElsewhereWasAsked
  BY DEF PageInv, Foreseen, LitElsewhereWasAsked
<1> QED
  BY <1>1, PageInvHolds, PTL

-----------------------------------------------------------------------------
LEMMA PanelConstants ==
  /\ MaxGets \in Nat /\ NoList \notin Lists /\ NoList \notin Names /\ Loading # NoList
  /\ NoList \notin Snapshots /\ Loading \notin Snapshots
  /\ \A S \in SUBSET Snapshots : S # Loading
BY PanelAssumption DEF Snapshots

\* What RemoveAt leaves was there before.
LEMMA RemoveAtKeeps ==
  ASSUME NEW S, NEW s \in Seq(S), NEW i \in 1..Len(s)
  PROVE  /\ RemoveAt(s, i) \in Seq(S) /\ Len(RemoveAt(s, i)) = Len(s) - 1
         /\ \A j \in DOMAIN RemoveAt(s, i) : \E k \in DOMAIN s : RemoveAt(s, i)[j] = s[k]
<1> DEFINE a == SubSeq(s, 1, i - 1)
           b == SubSeq(s, i + 1, Len(s))
<1>1. /\ a \in Seq(S) /\ Len(a) = i - 1
      /\ \A j \in 1..i - 1 : a[j] = s[j]
  OBVIOUS
<1>2. /\ b \in Seq(S) /\ Len(b) = Len(s) - i
      /\ \A j \in 1..Len(s) - i : b[j] = s[i + j]
  OBVIOUS
<1>3. RemoveAt(s, i) = a \o b
  BY DEF RemoveAt
<1> HIDE DEF a, b
<1>4. /\ a \o b \in Seq(S) /\ Len(a \o b) = Len(s) - 1
      /\ \A j \in 1..Len(s) - 1 : (a \o b)[j] = IF j <= i - 1 THEN a[j] ELSE b[j - (i - 1)]
  <2>1. /\ a \o b \in Seq(S) /\ Len(a \o b) = Len(a) + Len(b)
        /\ \A j \in 1..Len(a) + Len(b) : (a \o b)[j] = IF j <= Len(a) THEN a[j] ELSE b[j - Len(a)]
    BY <1>1, <1>2, ConcatProperties
  <2>2. Len(a) + Len(b) = Len(s) - 1
    BY <1>1, <1>2
  <2> QED
    BY <1>1, <2>1, <2>2
<1>5. ASSUME NEW j \in 1..Len(s) - 1
      PROVE  \E k \in DOMAIN s : (a \o b)[j] = s[k]
  <2>1. CASE j <= i - 1
    <3>1. j \in 1..i - 1 /\ j \in 1..Len(s)
      BY <2>1
    <3>2. (a \o b)[j] = s[j]
      BY <1>1, <1>4, <2>1, <3>1
    <3> QED
      BY <3>1, <3>2
  <2>2. CASE ~(j <= i - 1)
    <3>1. j - (i - 1) \in 1..Len(s) - i /\ j + 1 \in 1..Len(s) /\ i + (j - (i - 1)) = j + 1
      BY <2>2
    <3>2. (a \o b)[j] = s[j + 1]
      BY <1>2, <1>4, <2>2, <3>1
    <3> QED
      BY <3>1, <3>2
  <2> QED
    BY <2>1, <2>2
<1>6. DOMAIN (a \o b) = 1..Len(s) - 1
  BY <1>4
<1> QED
  BY <1>3, <1>4, <1>5, <1>6

\* A list is opened, by whatever.
LEMMA OpeningKeepsPanel ==
  ASSUME PanelInv, NEW s \in Snapshots, NEW n \in {1, 2}, OpenFavoriteList(s, n),
         UNCHANGED <<stored, overview, listing>>, tab' \in {"favorites", "other"},
         dialog' \in {dialog, Shut}, calls' \subseteq calls
  PROVE  PanelInv'
<1> DEFINE new == [i \in 1..n |-> s]
<1>1. new \in Seq(Snapshots) /\ Len(new) = n /\ \A i \in 1..n : new[i] = s
  OBVIOUS
<1>2. /\ gets \in Seq(Snapshots) /\ gets' = gets \o new /\ Len(gets) + n <= MaxGets
      /\ current' = s /\ detail' = TRUE /\ cards' = Loading
      /\ rival' = \E g \in ToSet(gets) : g.id # s.id
  BY DEF PanelInv, PanelTypeOK, OpenFavoriteList
<1> HIDE DEF new
<1>3. gets' \in Seq(Snapshots) /\ Len(gets') = Len(gets) + n /\ gets' # <<>>
  BY <1>1, <1>2
<1>4. \A i \in DOMAIN gets' : gets'[i] = s \/ \E j \in DOMAIN gets : gets'[i] = gets[j]
  <2> TAKE i \in DOMAIN gets'
  <2>1. i \in 1..Len(gets) + n
    BY <1>3
  <2>2. gets'[i] = IF i <= Len(gets) THEN gets[i] ELSE new[i - Len(gets)]
    BY <1>1, <1>2, <2>1, ConcatProperties
  <2>3. CASE i <= Len(gets)
    <3>1. i \in DOMAIN gets
      BY <1>2, <2>1, <2>3
    <3> QED
      BY <2>2, <2>3, <3>1
  <2>4. CASE ~(i <= Len(gets))
    <3>1. i - Len(gets) \in 1..n
      BY <1>2, <2>1, <2>4
    <3> QED
      BY <1>1, <2>2, <2>4, <3>1
  <2> QED
    BY <2>3, <2>4
<1>5. Alike'
  <2>1. ~rival' => \A j \in DOMAIN gets : gets[j].id = s.id
    BY <1>2 DEF ToSet
  <2> QED
    BY <1>2, <1>4, <2>1, PanelConstants DEF Alike, Snapshots
<1>6. PanelTypeOK'
  <2>1. rival' \in BOOLEAN
    BY <1>2
  <2>2. Len(gets') <= MaxGets
    BY <1>2, <1>3
  <2>3. /\ stored' \in [Lists -> Names \cup {NoList}]
        /\ overview' = Loading \/ overview' \subseteq Snapshots
        /\ listing' \in BOOLEAN /\ (overview' = Loading => listing')
    BY DEF PanelInv, PanelTypeOK
  <2>4. current' \in Snapshots \cup {NoList} /\ (detail' => current' # NoList)
    BY <1>2, PanelConstants
  <2>5. dialog' = Shut \/ dialog' \in [kind: {"rename", "delete", "sheet"}, list: Snapshots]
    BY DEF PanelInv, PanelTypeOK
  <2>6. calls' \subseteq [kind: {"rename", "delete", "sheet"}, list: Snapshots]
                         \cup [kind: {"refresh", "save"}, list: {NoList}]
    BY DEF PanelInv, PanelTypeOK
  <2> QED
    BY <1>2, <1>3, <2>1, <2>2, <2>3, <2>4, <2>5, <2>6 DEF PanelTypeOK, Snapshots
<1> QED
  BY <1>5, <1>6 DEF PanelInv

LEMMA RefreshKeepsPanel ==
  ASSUME PanelInv, NEW n \in {1, 2}, RefreshCurrent(n),
         UNCHANGED <<stored, overview, listing, dialog>>, tab' \in {"favorites", "other"},
         calls' \subseteq calls
  PROVE  PanelInv'
<1>1. CASE current = NoList
  BY <1>1 DEF RefreshCurrent, StayOpen, PanelInv, PanelTypeOK, Alike, Snapshots
<1>2. CASE current # NoList
  <2>1. current \in Snapshots
    BY <1>2 DEF PanelInv, PanelTypeOK
  <2> QED
    BY <1>2, <2>1, OpeningKeepsPanel DEF RefreshCurrent
<1> QED
  BY <1>1, <1>2

LEMMA OverviewKeepsPanel ==
  ASSUME PanelInv, ShowOverview, stored' \in [Lists -> Names \cup {NoList}],
         tab' = tab, dialog' = dialog, calls' \subseteq calls
  PROVE  PanelInv'
BY PanelConstants
   DEF ShowOverview, LoadFavoriteLists, PanelInv, PanelTypeOK, Alike, Snapshots

LEMMA WinesKeepPanel ==
  ASSUME PanelInv, WinesAnswered
  PROVE  PanelInv'
<1>1. PICK i \in 1..MaxGets, found \in BOOLEAN : WinesCame(i, found)
  BY DEF WinesAnswered
<1>2. /\ gets \in Seq(Snapshots) /\ i \in 1..Len(gets) /\ gets' = RemoveAt(gets, i)
      /\ gets[i] \in Snapshots /\ Len(gets) <= MaxGets
      /\ cards' = IF found /\ stored[gets[i].id] # NoList THEN gets[i] ELSE NoList
  BY <1>1 DEF WinesCame, PanelInv, PanelTypeOK
<1>3. /\ gets' \in Seq(Snapshots) /\ Len(gets') <= MaxGets
      /\ \A j \in DOMAIN gets' : \E k \in DOMAIN gets : gets'[j] = gets[k]
  <2>1. /\ RemoveAt(gets, i) \in Seq(Snapshots) /\ Len(RemoveAt(gets, i)) = Len(gets) - 1
        /\ \A j \in DOMAIN RemoveAt(gets, i) : \E k \in DOMAIN gets : RemoveAt(gets, i)[j] = gets[k]
    BY <1>2, RemoveAtKeeps
  <2>2. Len(gets) - 1 <= MaxGets
    BY <1>2, PanelConstants
  <2> QED
    BY <1>2, <2>1, <2>2
<1>4. UNCHANGED <<stored, tab, overview, listing, current, detail, dialog, calls, rival>>
  BY DEF WinesAnswered
<1>5. Alike'
  BY <1>2, <1>3, <1>4, PanelConstants DEF PanelInv, Alike
<1>6. cards' \in Snapshots \cup {NoList} /\ cards' # Loading
  BY <1>2, PanelConstants
<1>7. PanelTypeOK'
  BY <1>3, <1>4, <1>6 DEF PanelInv, PanelTypeOK, Snapshots
<1> QED
  BY <1>5, <1>7 DEF PanelInv

LEMMA RenamedKeepsPanel ==
  ASSUME PanelInv, NEW c \in calls, Renamed(c)
  PROVE  PanelInv'
<1>1. c.list \in Snapshots
  BY DEF PanelInv, PanelTypeOK, Renamed
<1>2. stored' \in [Lists -> Names \cup {NoList}]
  BY <1>1 DEF PanelInv, PanelTypeOK, Renamed, Snapshots
<1>3. /\ dialog' \in {dialog, Shut} /\ calls' \subseteq calls
      /\ current' = c.list /\ rival' = (rival \/ current = NoList \/ current.id # c.list.id)
      /\ UNCHANGED <<tab, overview, listing, detail, cards, gets>>
  BY DEF Renamed, Answered
<1>4. Alike'
  <2>1. ~rival' => ~rival /\ current.id = c.list.id
    BY <1>3, Zenon
  <2>2. rival \in BOOLEAN /\ rival' \in BOOLEAN
    BY <1>3 DEF PanelInv, PanelTypeOK
  <2> QED
    BY <1>3, <2>1, <2>2 DEF PanelInv, Alike, Snapshots
<1>5. PanelTypeOK'
  <2>1. rival' \in BOOLEAN
    BY <1>3 DEF PanelInv, PanelTypeOK
  <2>2. current' \in Snapshots /\ current' # NoList
    BY <1>1, <1>3, PanelConstants
  <2>3. dialog' = Shut \/ dialog' \in [kind: {"rename", "delete", "sheet"}, list: Snapshots]
    BY <1>3 DEF PanelInv, PanelTypeOK
  <2> QED
    BY <1>2, <1>3, <2>1, <2>2, <2>3 DEF PanelInv, PanelTypeOK, Snapshots
<1> QED
  BY <1>4, <1>5 DEF PanelInv

LEMMA AnswersKeepPanel ==
  ASSUME PanelInv, NEW c \in calls,
         Renamed(c) \/ Deleted(c) \/ Changed(c) \/ Refreshed(c) \/ Saved(c) \/ Failed(c)
  PROVE  PanelInv'
<1>1. CASE Deleted(c)
  <2>1. stored' \in [Lists -> Names \cup {NoList}]
    BY <1>1 DEF PanelInv, PanelTypeOK, Deleted
  <2> QED
    BY <1>1, <2>1, OverviewKeepsPanel DEF Deleted, Answered
<1>2. CASE Changed(c)
  <2>1. c.list \in Snapshots /\ tab \in {"favorites", "other"}
    BY <1>2 DEF PanelInv, PanelTypeOK, Changed
  <2>2. PICK n \in {1, 2} : OpenFavoriteList(c.list, n)
    BY <1>2 DEF Changed
  <2>3. dialog' \in {dialog, Shut} /\ calls' \subseteq calls /\ tab' = tab
        /\ UNCHANGED <<stored, overview, listing>>
    BY <1>2 DEF Changed, Answered
  <2> QED
    BY <2>1, <2>2, <2>3, OpeningKeepsPanel
<1>3. CASE Refreshed(c)
  BY <1>3, RefreshKeepsPanel DEF Refreshed, Answered, PanelInv, PanelTypeOK
<1>4. CASE Saved(c)
  BY <1>4, RefreshKeepsPanel DEF Saved, Answered
<1>5. CASE Failed(c)
  BY <1>5 DEF Failed, Answered, PanelInv, PanelTypeOK, Alike, Snapshots
<1> QED
  BY <1>1, <1>2, <1>3, <1>4, <1>5, RenamedKeepsPanel

LEMMA PressesKeepPanel ==
  ASSUME PanelInv, Pick \/ Back \/ OpenDialog \/ CloseDialog \/ Press \/ Elsewhere
  PROVE  PanelInv'
<1>1. CASE Pick
  <2>1. PICK s \in overview : OpenFavoriteList(s, 1)
    BY <1>1 DEF Pick
  <2>2. s \in Snapshots /\ tab' \in {"favorites", "other"}
    BY <1>1 DEF Pick, PanelInv, PanelTypeOK
  <2> QED
    BY <1>1, <2>1, <2>2, OpeningKeepsPanel DEF Pick
<1>2. CASE Back
  <2>1. stored' \in [Lists -> Names \cup {NoList}]
    BY <1>2 DEF Back, PanelInv, PanelTypeOK
  <2> QED
    BY <1>2, <2>1, OverviewKeepsPanel DEF Back
<1>3. CASE OpenDialog
  BY <1>3 DEF OpenDialog, PanelInv, PanelTypeOK, Alike, Snapshots
<1>4. CASE CloseDialog
  BY <1>4 DEF CloseDialog, PanelInv, PanelTypeOK, Alike, Snapshots
<1>5. CASE Press
  <2>1. ASSUME NEW n \in Names, current # NoList
        PROVE  [kind |-> "rename", list |-> [id |-> current.id, name |-> n]]
                 \in [kind: {"rename", "delete", "sheet"}, list: Snapshots]
    BY <2>1 DEF PanelInv, PanelTypeOK, Snapshots
  <2>2. calls' \subseteq calls \cup [kind: {"rename", "delete", "sheet"}, list: Snapshots]
    <3>1. dialog.kind # "none" => dialog \in [kind: {"rename", "delete", "sheet"}, list: Snapshots]
      BY DEF PanelInv, PanelTypeOK, Shut
    <3>2. CASE \E n \in Names :
                 current # NoList /\ Send([kind |-> "rename", list |-> [id |-> current.id, name |-> n]])
      BY <2>1, <3>2 DEF Send
    <3>3. CASE dialog.kind # "none" /\ Send(dialog)
      BY <3>1, <3>3 DEF Send
    <3> QED
      BY <1>5, <3>2, <3>3 DEF Press
  <2>3. dialog' \in {dialog, Shut}
    BY <1>5 DEF Press
  <2>4. UNCHANGED <<stored, tab, overview, listing, current, detail, cards, gets, rival>>
    BY <1>5 DEF Press
  <2> QED
    BY <2>2, <2>3, <2>4 DEF PanelInv, PanelTypeOK, Alike, Snapshots
<1>6. CASE Elsewhere
  <2>1. PICK k \in {"refresh", "save"} : Send([kind |-> k, list |-> NoList])
    BY <1>6 DEF Elsewhere
  <2> QED
    BY <1>6, <2>1 DEF Elsewhere, Send, PanelInv, PanelTypeOK, Alike, Snapshots
<1> QED
  BY <1>1, <1>2, <1>3, <1>4, <1>5, <1>6

LEMMA NextKeepsPanel == PanelInv /\ [PageNext]_page => PanelInv'
<1> SUFFICES ASSUME PanelInv, [PageNext]_page PROVE PanelInv'
  OBVIOUS
<1>1. CASE PanelNext
  <2>1. CASE ListsAnswered
    <3>1. overview' \subseteq Snapshots /\ listing' = FALSE
      BY <2>1 DEF ListsAnswered, ListsCame
    <3>2. overview' # Loading
      BY <3>1, PanelConstants
    <3> QED
      BY <2>1, <3>1, <3>2 DEF ListsAnswered, PanelInv, PanelTypeOK, Alike, Snapshots
  <2> QED
    BY <1>1, <2>1, PressesKeepPanel, AnswersKeepPanel, WinesKeepPanel DEF PanelNext
<1>2. CASE OnCamera \/ RetakeHere \/ UNCHANGED page
  BY <1>2 DEF OnCamera, RetakeHere, page, pvars, PanelInv, PanelTypeOK, Alike, Snapshots
<1>3. CASE SwitchToScan \/ SwitchToOther
  BY <1>3 DEF SwitchToScan, SwitchToOther, PanelInv, PanelTypeOK, Alike, Snapshots
<1>4. CASE SwitchToFavorites
  BY <1>4 DEF SwitchToFavorites, LoadFavoriteLists, PanelInv, PanelTypeOK, Alike, Snapshots
<1>5. CASE SaveEnds
  BY <1>5, AnswersKeepPanel DEF SaveEnds
<1>6. CASE OpenExisting \/ ScanBackLabel
  <2>1. dialog' \in {dialog, Shut}
    BY <1>6 DEF OpenExisting, ScanBackLabel, CardCloses
  <2> QED
    BY <1>6, <2>1 DEF OpenExisting, ScanBackLabel, PanelInv, PanelTypeOK, Alike, Snapshots
<1> QED
  BY <1>1, <1>2, <1>3, <1>4, <1>5, <1>6 DEF PageNext

LEMMA PanelInvHolds == PageSpec => []PanelInv
<1>1. PageInit => PanelInv
  <2> SUFFICES ASSUME PageInit PROVE PanelInv
    OBVIOUS
  <2>1. gets \in Seq(Snapshots) /\ Len(gets) <= MaxGets
    BY PanelConstants DEF PageInit, PanelInit
  <2>2. overview \subseteq Snapshots /\ (overview = Loading => listing)
    BY PanelConstants DEF PageInit, PanelInit
  <2>3. cards \in Snapshots \cup {NoList} /\ cards # Loading
    BY PanelConstants DEF PageInit, PanelInit
  <2> QED
    BY <2>1, <2>2, <2>3 DEF PageInit, PanelInit, PanelInv, PanelTypeOK, Alike, Snapshots
<1> QED
  BY <1>1, NextKeepsPanel, PTL DEF PageSpec

\* app.js: the favorites tab's variables keep their types; what is shown as loading is
\* under way, and a list that is shown is state.currentList.
THEOREM PanelTypeCorrect == PageSpec => []PanelTypeOK
BY PanelInvHolds, PTL DEF PanelInv

\* app.js openFavoriteList: a list's wines stand under another list's name only if
\* something overlapped the opening, with any number of lists and answers.
THEOREM WinesBelong == PageSpec => []WrongWinesHadRival
<1>1. PanelInv => WrongWinesHadRival
  BY DEF PanelInv, Alike, WrongWinesHadRival
<1> QED
  BY <1>1, PanelInvHolds, PTL
=============================================================================
