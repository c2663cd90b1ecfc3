------------------------------ MODULE ScanFlow ------------------------------
(***************************************************************************)
(* The "Add wine" page of one browser (static/assets/scan.js with the form *)
(* of wineform.js): pictures, their analyses in flight, the cards opened   *)
(* from them, and the saves in flight.                                     *)
(*                                                                         *)
(* The page keeps four variables (capturedBlob, isBackLabel, currentForm,  *)
(* pendingBackText) that every callback reads when it RUNS, not when the   *)
(* work it belongs to was started.  Callbacks of older pictures and saves  *)
(* run between any two actions of the user.                                *)
(***************************************************************************)
EXTENDS Naturals, Sequences, SequencesExt

CONSTANTS
  Bottles,
  MaxShots,   \* pictures taken or attached in a behaviour
  MaxCards,   \* cards opened in a behaviour
  MaxWines,   \* wines stored in a behaviour
  Readings,   \* what a label may suggest: a set of sets of fields
  Typed,      \* the value of a field that the user has entered
  Other,      \* the type "other", chosen by the user or suggested by a label
  None        \* nothing: an empty field, a type nobody has chosen (it shows "other")

ASSUME ScanFlowAssumption ==
  {MaxShots, MaxCards, MaxWines} \subseteq Nat

VARIABLES
  shots,   \* pictures: [bottle, side, stage, asBack]
  blob,    \* capturedBlob: index of a picture, or None
  back,    \* isBackLabel
  form,    \* currentForm: index of a form, or None
  text,    \* pendingBackText: the picture it was read from, or None
  fields,  \* forms: field -> picture it was read from, Typed, Other, or None
  cards,   \* "New wine card" modals: [form, kind, save, draft]
  stack,   \* cards that are open, the topmost last
  modal,   \* currentModal
  panel,   \* suggest-panel
  wines,   \* rows stored by the server: [draft, photo]
  asked,   \* the user: bottle whose BACK label the page has asked for, or None
  hasty    \* history: the user did not wait for an analysis or a save to end

vars == <<shots, blob, back, form, text, fields, cards, stack, modal, panel, wines,
          asked, hasty>>
page == <<blob, back, form, text>>

\* name stands for the fields that applySuggestion fills when they are empty, which
\* are all but the type.
Fields == {"name", "wine_type"}

\* "wine_type" in a reading is a type with a name, "other" the type "other".
ASSUME ReadingsAssumption == Readings \subseteq SUBSET (Fields \cup {"other"})

Blank  == [k \in Fields |-> None]

ShotIds == 1..MaxShots
CardIds == 1..MaxCards
Values  == ShotIds \cup {Typed, Other, None}
Draft   == [name: Values, text: ShotIds \cup {None}]

TypeOK ==
  /\ \A i \in DOMAIN shots :
       /\ i \in ShotIds
       /\ shots[i] \in [bottle: Bottles, side: {"front", "back"}, asBack: BOOLEAN,
                       stage: {"attaching", "resizing", "cropping", "server", "over"}]
  /\ blob \in ShotIds \cup {None} /\ text \in ShotIds \cup {None}
  /\ back \in BOOLEAN
  /\ form = None \/ form \in DOMAIN fields
  /\ \A f \in DOMAIN fields : fields[f] \in [Fields -> Values]
  /\ \A c \in DOMAIN cards :
       /\ cards[c].form \in DOMAIN fields
       /\ cards[c].kind \in {"label", "merged", "illegible", "manual"}
       /\ cards[c].save \in {"ready", "posting", "putting"}
       /\ cards[c].draft \in Draft \cup {None}
  /\ \A i \in DOMAIN stack : stack[i] \in DOMAIN cards
  /\ IsInjective(stack)
  /\ modal = None \/ \E i \in DOMAIN stack : stack[i] = modal
  /\ asked \in Bottles \cup {None} /\ hasty \in BOOLEAN
  /\ panel \in {"hidden", "reading", "failed"}
  /\ Len(cards) <= MaxCards /\ Len(wines) <= MaxWines

-----------------------------------------------------------------------------
(***************************************************************************)
(* Helpers.                                                                *)
(***************************************************************************)
InFlight(i) == shots[i].stage # "over"
Saving(c)   == cards[c].save # "ready"

Calm == /\ \A i \in DOMAIN shots : ~InFlight(i)
        /\ \A c \in DOMAIN cards : ~Saving(c)

\* The user acts, at any time; it is noted whether something was in flight.
Acts == hasty' = (hasty \/ ~Calm)

\* An open card covers the page behind it.
OnPage    == stack = <<>>
OnCard(c) == stack # <<>> /\ c = Last(stack)

Close(c) == stack' = Remove(stack, c) /\ modal' = None

\* currentModal.close(), or every backdrop when there is no current modal.
CloseCurrent == IF modal = None THEN stack' = <<>> /\ UNCHANGED modal
                ELSE Close(modal)

\* Variant of ApplySuggestion: the picture read last wins.
ApplyOverwrites(fs, S, i) == [k \in Fields |-> IF k \in S THEN i ELSE fs[k]]

\* The type select always has a value; "other" counts as none.
Fillable(fs, k) == fs[k] = None \/ (k = "wine_type" /\ fs[k] = Other)

\* wineForm.applySuggestion: picture i suggests values for the fields S.
ApplySuggestion(fs, S, i) ==
  [k \in Fields |-> IF ~Fillable(fs, k) THEN fs[k]
                    ELSE IF k \in S THEN i
                    ELSE IF k = "wine_type" /\ "other" \in S THEN Other
                    ELSE fs[k]]

\* openCardWithSuggestion with page variables b (isBackLabel), f (currentForm).
OpenCard(b, f, S, i, given, kind) ==
  LET merge == f # None /\ b
      ours  == IF merge THEN f ELSE Len(fields) + 1 IN
  /\ Len(cards) < MaxCards
  /\ fields' = IF merge THEN [fields EXCEPT ![f] = ApplySuggestion(@, S, i)]
               ELSE Append(fields, ApplySuggestion(Blank, S, i))
  /\ text' = IF ~merge THEN None ELSE IF given THEN i ELSE text
  /\ form' = ours
  /\ cards' = Append(cards, [form |-> ours, save |-> "ready", draft |-> None,
                             kind |-> IF kind = "label" /\ b THEN "merged" ELSE kind])
  /\ stack' = Append(stack, Len(cards) + 1)
  /\ modal' = Len(cards) + 1
  /\ panel' = "hidden"

-----------------------------------------------------------------------------
(***************************************************************************)
(* The user on the page.                                                   *)
(***************************************************************************)

\* A frame of the camera or a chosen file: the back label of the bottle at hand
\* when the page has asked for it, the front label of any bottle otherwise.
Shoot(b) ==
  /\ Acts
  /\ OnPage
  /\ Len(shots) < MaxShots
  /\ asked \in {None, b}
  /\ shots' = Append(shots, [bottle |-> b, stage |-> "resizing", asBack |-> FALSE,
                             side |-> IF asked = None THEN "front" ELSE "back"])
  /\ blob' = IF back THEN blob ELSE Len(shots) + 1
  /\ panel' = "reading"
  /\ UNCHANGED <<back, form, text, fields, cards, stack, modal, wines, asked>>

\* "Retake" under the analysis, and in the card of an illegible label.
Retake ==
  /\ \/ panel = "reading" /\ stack = <<>>
     \/ \E c \in DOMAIN cards : OnCard(c) /\ cards[c].kind = "illegible"
  /\ Acts
  /\ IF modal = None THEN UNCHANGED <<stack, modal>> ELSE Close(modal)
  /\ blob' = None
  /\ panel' = "hidden"
  /\ UNCHANGED <<shots, back, form, text, fields, cards, wines, asked>>

\* "Fill the card by hand" after a failure, and over an illegible label's card.
FillByHand ==
  /\ Acts
  /\ \/ panel = "failed" /\ OnPage
     \/ \E c \in DOMAIN cards : OnCard(c) /\ cards[c].kind = "illegible"
  /\ OpenCard(back, form, {}, None, FALSE, "label")
  /\ UNCHANGED <<shots, blob, back, wines, asked>>

ManualAdd ==
  /\ Acts
  /\ OnPage
  /\ OpenCard(FALSE, None, {}, None, FALSE, "manual")
  /\ blob' = None /\ back' = FALSE
  /\ asked' = None
  /\ UNCHANGED <<shots, wines>>

(***************************************************************************)
(* The user on the topmost card.                                           *)
(***************************************************************************)
ScanBackLabel(c) ==
  /\ Acts
  /\ OnCard(c) /\ cards[c].kind = "label"
  /\ form' = cards[c].form
  /\ back' = TRUE
  /\ CloseCurrent
  /\ asked' = IF shots = <<>> THEN None ELSE Last(shots).bottle
  /\ UNCHANGED <<shots, blob, text, fields, cards, panel, wines>>

\* "Select photo" of a manual card.
Attach(c, b) ==
  /\ Acts
  /\ OnCard(c) /\ cards[c].kind = "manual"
  /\ Len(shots) < MaxShots
  /\ shots' = Append(shots, [bottle |-> b, side |-> "front", stage |-> "attaching",
                             asBack |-> FALSE])
  /\ UNCHANGED <<page, fields, cards, stack, modal, panel, wines, asked>>

\* The user enters a value, or empties a field.
Entries(k) == {Typed, IF k = "wine_type" THEN Other ELSE None}

TypeField(c, k) ==
  /\ Acts
  /\ OnCard(c)
  /\ \E v \in Entries(k) : fields' = [fields EXCEPT ![cards[c].form][k] = v]
  /\ UNCHANGED <<shots, page, cards, stack, modal, panel, wines, asked>>

\* Cancel, the cross, the backdrop, or opening an existing wine from the banner.
Cancel(c) ==
  /\ Acts
  /\ OnCard(c)
  /\ Close(c)
  /\ asked' = None
  /\ UNCHANGED <<shots, page, fields, cards, panel, wines>>

\* Every open modal listens for the key.
Escape ==
  /\ Acts
  /\ ~OnPage
  /\ stack' = <<>> /\ modal' = None
  /\ asked' = None
  /\ UNCHANGED <<shots, page, fields, cards, panel, wines>>

Save(c) ==
  LET fs == fields[cards[c].form] IN
  /\ Acts
  /\ OnCard(c) /\ ~Saving(c)
  /\ fs["name"] # None
  /\ Len(wines) + Len(SelectSeq(cards, LAMBDA d : d.save = "posting")) < MaxWines
  /\ cards' = [cards EXCEPT ![c].save = "posting",
                            ![c].draft = [name |-> fs["name"], text |-> text]]
  /\ UNCHANGED <<shots, page, fields, stack, modal, panel, wines, asked>>

-----------------------------------------------------------------------------
(***************************************************************************)
(* Callbacks of the pictures.                                              *)
(***************************************************************************)
Advance(i, stage) ==
  shots' = [shots EXCEPT ![i].stage = stage,
                         ![i].asBack = stage # "over" /\ shots[i].asBack]

Attached(i) ==
  /\ shots[i].stage = "attaching"
  /\ Advance(i, "over")
  /\ blob' = i
  /\ UNCHANGED <<back, form, text, fields, cards, stack, modal, panel, wines, asked,
                 hasty>>

\* Variant of Resized: the blob is kept whatever label was scanned.
ResizedAlways(i) ==
  /\ shots[i].stage = "resizing"
  /\ Advance(i, "cropping")
  /\ blob' = i
  /\ UNCHANGED <<back, form, text, fields, cards, stack, modal, panel, wines, asked,
                 hasty>>

Resized(i) ==
  /\ shots[i].stage = "resizing"
  /\ Advance(i, "cropping")
  /\ blob' = IF back THEN blob ELSE i
  /\ UNCHANGED <<back, form, text, fields, cards, stack, modal, panel, wines, asked,
                 hasty>>

\* cropToLabel has resolved: the request is sent as the page stands now.
Cropped(i) ==
  /\ shots[i].stage = "cropping"
  /\ shots' = [shots EXCEPT ![i].stage = "server", ![i].asBack = back]
  /\ blob' = IF back THEN blob ELSE i
  /\ UNCHANGED <<back, form, text, fields, cards, stack, modal, panel, wines, asked,
                 hasty>>

\* A legible label suggests values for S; its text is returned for back labels.
Read(i, S) ==
  /\ shots[i].stage = "server"
  /\ Advance(i, "over")
  /\ OpenCard(back, form, S, i, shots[i].asBack, "label")
  /\ UNCHANGED <<blob, back, wines, asked, hasty>>

Illegible(i) ==
  /\ shots[i].stage = "server"
  /\ Advance(i, "over")
  /\ OpenCard(back, form, {}, i, FALSE, "illegible")
  /\ UNCHANGED <<blob, back, wines, asked, hasty>>

\* The picture cannot be read or is too large, or the request fails.
AnalysisFails(i) ==
  /\ InFlight(i)
  /\ Advance(i, "over")
  /\ panel' = IF shots[i].stage = "attaching" THEN panel ELSE "failed"
  /\ UNCHANGED <<page, fields, cards, stack, modal, wines, asked, hasty>>

(***************************************************************************)
(* Callbacks of the saves.                                                 *)
(***************************************************************************)
Row(c) == [draft |-> cards[c].draft, photo |-> None]

\* Variant of Finish: the page keeps what it scanned.
FinishForgets(c) ==
  /\ Close(c)
  /\ panel' = "hidden"
  /\ cards' = [cards EXCEPT ![c].save = "ready", ![c].draft = None]
  /\ asked' = None
  /\ UNCHANGED <<shots, page, fields, hasty>>

\* m.close(), reset().
Finish(c) ==
  /\ Close(c)
  /\ blob' = None /\ back' = FALSE /\ form' = None /\ text' = None
  /\ panel' = "hidden"
  /\ cards' = [cards EXCEPT ![c].save = "ready", ![c].draft = None]
  /\ asked' = None
  /\ UNCHANGED <<shots, fields, hasty>>

\* The wine is stored and there is no photo to send.
SavedWithoutPhoto(c) ==
  /\ cards[c].save = "posting" /\ blob = None
  /\ wines' = Append(wines, Row(c))
  /\ Finish(c)

\* The wine is stored; PUT .../photo carries the blob of this moment.
SavedSendsPhoto(c) ==
  /\ cards[c].save = "posting" /\ blob # None
  /\ wines' = Append(wines, [Row(c) EXCEPT !.photo = blob])
  /\ cards' = [cards EXCEPT ![c].save = "putting"]
  /\ UNCHANGED <<shots, page, fields, stack, modal, panel, asked, hasty>>

\* The PUT has ended; a failure of it is only a toast.
PhotoAnswered(c) ==
  /\ cards[c].save = "putting"
  /\ Finish(c)
  /\ UNCHANGED wines

\* No answer: the wine may be stored or not, and Save is enabled again.
SaveFails(c) ==
  /\ cards[c].save = "posting"
  /\ wines' \in {wines, Append(wines, Row(c))}
  /\ cards' = [cards EXCEPT ![c].save = "ready", ![c].draft = None]
  /\ UNCHANGED <<shots, page, fields, stack, modal, panel, asked, hasty>>

-----------------------------------------------------------------------------
Init ==
  /\ shots = <<>> /\ fields = <<>> /\ cards = <<>> /\ stack = <<>> /\ wines = <<>>
  /\ blob = None /\ form = None /\ text = None /\ modal = None /\ asked = None
  /\ back = FALSE
  /\ panel = "hidden"
  /\ hasty = FALSE

User ==
  \/ \E b \in Bottles : Shoot(b)
  \/ Retake
  \/ FillByHand
  \/ ManualAdd
  \/ Escape
  \/ \E c \in DOMAIN cards :
       \/ ScanBackLabel(c)
       \/ \E b \in Bottles : Attach(c, b)
       \/ \E k \in Fields : TypeField(c, k)
       \/ Cancel(c)
       \/ Save(c)

Callback ==
  \/ \E i \in DOMAIN shots :
       \/ Attached(i)
       \/ Resized(i)
       \/ Cropped(i)
       \/ \E S \in Readings : Read(i, S)
       \/ Illegible(i)
       \/ AnalysisFails(i)
  \/ \E c \in DOMAIN cards :
       \/ SavedWithoutPhoto(c)
       \/ SavedSendsPhoto(c)
       \/ PhotoAnswered(c)
       \/ SaveFails(c)

Next == User \/ Callback

Spec == Init /\ [][Next]_vars

-----------------------------------------------------------------------------
(***************************************************************************)
(* Properties.                                                             *)
(***************************************************************************)

\* README.md, Scanning a bottle: a later picture "merges its data into the
\* same card (front data is never lost)": whatever callbacks run, a field that
\* has a value changes only when the user enters another one.  A type "other" is
\* not kept, wherever it comes from (ChosenTypeIsKept).
FrontDataIsKept ==
  [][\A f \in DOMAIN fields, k \in Fields :
       fields[f][k] \notin {None, Other} =>
         \/ fields'[f][k] = fields[f][k]
         \/ \E c \in DOMAIN cards : TypeField(c, k) /\ cards[c].form = f]_vars

\* wineform.js, applySuggestion: "Only fills fields the user left empty": a type
\* that the user or a label has set to "other" is changed by the user only.
ChosenTypeIsKept ==
  [][\A f \in DOMAIN fields :
       fields[f]["wine_type"] = Other =>
         \/ fields'[f]["wine_type"] = Other
         \/ \E c \in DOMAIN cards : TypeField(c, "wine_type")]_vars

\* README.md, Front label is the wine photo: "its image is never stored as the
\* wine photo", of the back label.  True for a user who has always waited.
FrontLabelIsPhoto ==
  ~hasty => \A w \in DOMAIN wines :
              wines[w].photo # None => shots[wines[w].photo].side = "front"

\* A picture is the photo of one wine: what a save leaves on the page never
\* reaches the next card of a user who has always waited.
PhotoUsedOnce ==
  ~hasty => \A v, w \in DOMAIN wines :
              v # w /\ wines[v].photo # None => wines[v].photo # wines[w].photo

\* README.md, Front label is the wine photo: "only the front label photo is
\* saved as the wine's picture": a wine whose photo request was sent, and whose
\* name was read from a front label, is stored with a photo.
FrontPhotoIsSaved ==
  [][\A c \in DOMAIN cards :
       ~hasty /\ cards[c].save = "posting" /\ SavedWithoutPhoto(c) =>
         cards[c].draft.name \in {Typed} \cup
           {i \in DOMAIN shots : shots[i].side = "back"}]_vars

\* scan.js, openCardWithSuggestion: "When a back-label scan returns, the SAME
\* form (currentForm) is reused": the labels merged into one card are labels of
\* one bottle, for a user who waits and shoots what the page asks for.
CardIsOneBottle ==
  ~hasty => \A f \in DOMAIN fields : \A j, k \in Fields :
              {fields[f][j], fields[f][k]} \subseteq ShotIds =>
                shots[fields[f][j]].bottle = shots[fields[f][k]].bottle

\* scan.js, currentModal: "retake() must close the modal first or the camera
\* restarts behind the backdrop and nothing appears to happen".
RetakeShowsCamera == [][Retake /\ ~hasty' => stack' = <<>>]_vars
=============================================================================
