----------------------------- MODULE ScanProofs -----------------------------
(***************************************************************************)
(* Proofs about a scan: on the page (ScanFlow), for any number of          *)
(* pictures, cards, wines and readings, and on the server (Scans), for any *)
(* names, letters, models' replies and size of the collection.             *)
(*                                                                         *)
(* What a label told stays whatever callbacks run, so the first theorem    *)
(* needs types only.  The photos are right for a user who waits, and the   *)
(* reason is what Patient says: there is never more than one thing in      *)
(* flight, the page knows that a back label is on its way, and a picture   *)
(* that may still become the blob is nobody's photo.                       *)
(*                                                                         *)
(* The server's search compares names by edit distance.  _lev computes a   *)
(* table, and what is proved of it is proved cell by cell (CellByCell):    *)
(* an edit changes the distance to any word by one at most, and words at   *)
(* distance 1 are an edit apart.  So a word that was misread once still    *)
(* matches, the name is as similar as a name can be, and the search gives  *)
(* the wine, or as many others as it may.                                  *)
(***************************************************************************)
EXTENDS ScanFlow, Scans, SequenceTheorems, FiniteSetTheorems, WellFoundedInduction, TLAPS

(***************************************************************************)
(* The page.                                                               *)
(***************************************************************************)
Shot == [bottle: Bottles, side: {"front", "back"}, asBack: BOOLEAN,
         stage: {"attaching", "resizing", "cropping", "server", "over"}]
Form == [Fields -> Values]
Card == [form: Nat, kind: {"label", "merged", "illegible", "manual"},
         save: {"ready", "posting", "putting"}, draft: Draft \cup {None}]
Wine == [draft: Draft \cup {None}, photo: ShotIds \cup {None}]

Types ==
  /\ shots \in Seq(Shot) /\ Len(shots) <= MaxShots
  /\ fields \in Seq(Form) /\ cards \in Seq(Card) /\ wines \in Seq(Wine)
  /\ \A c \in DOMAIN cards : cards[c].form \in DOMAIN fields
  /\ form = None \/ form \in DOMAIN fields
  /\ blob \in ShotIds \cup {None} /\ text \in ShotIds \cup {None}
  /\ back \in BOOLEAN /\ asked \in Bottles \cup {None} /\ hasty \in BOOLEAN

\* There is one thing in flight at most.
OneInFlight ==
  /\ \A c, d \in DOMAIN cards : Saving(c) /\ Saving(d) => c = d
  /\ \A i \in DOMAIN shots, c \in DOMAIN cards : InFlight(i) => ~Saving(c)

\* The page knows that a back label is on its way.
BackIsKnown ==
  /\ asked # None => back
  /\ \A i \in DOMAIN shots : InFlight(i) /\ shots[i].side = "back" =>
                               back /\ shots[i].stage # "attaching"

\* What is, or may be sent as, a photo is a front label's.
PhotosAreFront ==
  /\ blob # None => blob \in DOMAIN shots /\ shots[blob].side = "front"
  /\ \A w \in DOMAIN wines : wines[w].photo # None =>
       wines[w].photo \in DOMAIN shots /\ shots[wines[w].photo].side = "front"

\* What may still be sent as a photo is nobody's photo yet.
PhotosAreApart ==
  /\ \A w \in DOMAIN wines : wines[w].photo # None =>
       /\ wines[w].photo = blob => \E c \in DOMAIN cards : cards[c].save = "putting"
       /\ shots[wines[w].photo].stage \in {"server", "over"}
  /\ \A v, w \in DOMAIN wines :
       v # w /\ wines[v].photo # None => wines[v].photo # wines[w].photo

Patient == OneInFlight /\ BackIsKnown /\ PhotosAreFront /\ PhotosAreApart

PInv == Types /\ (~hasty => Patient)

-----------------------------------------------------------------------------
(***************************************************************************)
(* Types.                                                                  *)
(***************************************************************************)

\* applySuggestion fills fields and changes none that has a value.
LEMMA SuggestionFills ==
  ASSUME NEW fs \in Form, NEW S, NEW i \in ShotIds \cup {None}
  PROVE  /\ ApplySuggestion(fs, S, i) \in Form
         /\ \A k \in Fields : fs[k] \notin {None, Other} => ApplySuggestion(fs, S, i)[k] = fs[k]
BY DEF ApplySuggestion, Fillable, Form, Values

LEMMA BlankIsForm == Blank \in Form
BY DEF Blank, Form, Values

LEMMA DomainsAreIntervals ==
  ASSUME Types
  PROVE  /\ DOMAIN shots = 1..Len(shots) /\ Len(shots) \in Nat /\ DOMAIN shots \subseteq ShotIds
         /\ DOMAIN fields = 1..Len(fields) /\ Len(fields) \in Nat
         /\ DOMAIN cards = 1..Len(cards) /\ Len(cards) \in Nat
         /\ DOMAIN wines = 1..Len(wines) /\ Len(wines) \in Nat
         /\ \A i \in DOMAIN shots : shots[i] \in Shot
         /\ \A f \in DOMAIN fields : fields[f] \in Form
         /\ \A c \in DOMAIN cards : cards[c] \in Card
         /\ \A w \in DOMAIN wines : wines[w] \in Wine
<1> HIDE DEF Shot, Form, Card, Wine
<1>1. MaxShots \in Nat
  BY ScanFlowAssumption
<1> QED
  BY <1>1 DEF Types, ShotIds

LEMMA OpenCardKeepsTypes ==
  ASSUME Types, NEW S, NEW i \in ShotIds \cup {None}, NEW given \in BOOLEAN,
         NEW b \in BOOLEAN, NEW f, f = None \/ f \in DOMAIN fields,
         NEW kind \in {"label", "illegible", "manual"}, OpenCard(b, f, S, i, given, kind)
  PROVE  /\ fields' \in Seq(Form) /\ cards' \in Seq(Card)
         /\ \A c \in DOMAIN cards' : cards'[c].form \in DOMAIN fields'
         /\ form' \in DOMAIN fields' /\ text' \in ShotIds \cup {None}
         /\ \A g \in DOMAIN fields, k \in Fields : fields[g][k] \notin {None, Other} => fields'[g][k] = fields[g][k]
         /\ DOMAIN cards \subseteq DOMAIN cards'
         /\ \A c \in DOMAIN cards' : \/ c \in DOMAIN cards /\ cards'[c] = cards[c]
                                     \/ cards'[c].save = "ready"
         /\ \A c \in DOMAIN cards : cards'[c] = cards[c]
<1> DEFINE merge == f # None /\ b
           ours == IF merge THEN f ELSE Len(fields) + 1
           card == [form |-> ours, save |-> "ready", draft |-> None,
                    kind |-> IF kind = "label" /\ b THEN "merged" ELSE kind]
<1>1. /\ fields' = IF merge THEN [fields EXCEPT ![f] = ApplySuggestion(@, S, i)]
                   ELSE Append(fields, ApplySuggestion(Blank, S, i))
      /\ text' = IF ~merge THEN None ELSE IF given THEN i ELSE text
      /\ form' = ours
      /\ cards' = Append(cards, card)
  BY DEF OpenCard
<1>2. /\ DOMAIN fields = 1..Len(fields) /\ Len(fields) \in Nat
      /\ DOMAIN cards = 1..Len(cards) /\ Len(cards) \in Nat
      /\ fields \in Seq(Form) /\ cards \in Seq(Card)
      /\ \A g \in DOMAIN fields : fields[g] \in Form
      /\ \A c \in DOMAIN cards : cards[c] \in Card /\ cards[c].form \in DOMAIN fields
  BY DomainsAreIntervals DEF Types
<1>3. ApplySuggestion(Blank, S, i) \in Form
  BY BlankIsForm, SuggestionFills
<1>4. /\ fields' \in Seq(Form) /\ DOMAIN fields \subseteq DOMAIN fields' /\ ours \in DOMAIN fields'
      /\ \A g \in DOMAIN fields, k \in Fields : fields[g][k] \notin {None, Other} => fields'[g][k] = fields[g][k]
  <2> HIDE DEF Form
  <2>1. CASE merge
    <3>1. fields' = [fields EXCEPT ![f] = ApplySuggestion(fields[f], S, i)]
      BY <1>1, <2>1
    <3>2. f \in DOMAIN fields /\ ApplySuggestion(fields[f], S, i) \in Form
      BY <1>2, <2>1, SuggestionFills
    <3>3. fields' \in Seq(Form) /\ DOMAIN fields' = DOMAIN fields
      BY <1>2, <3>1, <3>2
    <3>4. \A g \in DOMAIN fields : fields'[g] = IF g = f THEN ApplySuggestion(fields[f], S, i)
                                                ELSE fields[g]
      BY <3>1
    <3> QED
      BY <1>2, <2>1, <3>2, <3>3, <3>4, SuggestionFills
  <2>2. CASE ~merge
    <3>1. fields' = Append(fields, ApplySuggestion(Blank, S, i))
      BY <1>1, <2>2
    <3>2. /\ fields' \in Seq(Form) /\ DOMAIN fields' = 1..Len(fields) + 1
          /\ \A g \in DOMAIN fields : fields'[g] = fields[g]
      BY <1>2, <1>3, <3>1
    <3> QED
      BY <1>2, <2>2, <3>2
  <2> QED
    BY <2>1, <2>2
<1>5. ours \in Nat /\ card \in Card
  BY <1>2 DEF Card
<1> HIDE DEF ours, Card
<1>6. card.form = ours /\ card.save = "ready"
  OBVIOUS
<1> HIDE DEF card
<1>7. /\ cards' \in Seq(Card) /\ DOMAIN cards' = 1..Len(cards) + 1
      /\ cards'[Len(cards) + 1] = card
      /\ \A c \in DOMAIN cards : cards'[c] = cards[c]
  BY <1>1, <1>2, <1>5
<1>8. text' \in ShotIds \cup {None}
  BY <1>1 DEF Types
<1> QED
  BY <1>1, <1>2, <1>4, <1>6, <1>7, <1>8

\* The pictures after one has come to its next stage.
LEMMA AdvanceMoves ==
  ASSUME Types, NEW i \in DOMAIN shots, NEW stage \in {"attaching", "resizing", "cropping", "server", "over"},
         Advance(i, stage)
  PROVE  /\ shots' \in Seq(Shot) /\ DOMAIN shots' = DOMAIN shots /\ Len(shots') = Len(shots)
         /\ shots'[i].side = shots[i].side /\ shots'[i].stage = stage
         /\ \A j \in DOMAIN shots : j # i => shots'[j] = shots[j]
<1>1. shots' = [shots EXCEPT ![i] = [shots[i] EXCEPT !.stage = stage,
                                                   !.asBack = stage # "over" /\ shots[i].asBack]]
  BY DEF Advance
<1>2. shots[i] \in Shot
  BY DomainsAreIntervals
<1>3. [shots[i] EXCEPT !.stage = stage, !.asBack = stage # "over" /\ shots[i].asBack] \in Shot
  BY <1>2 DEF Shot
<1> HIDE DEF Shot
<1>4. shots' \in Seq(Shot) /\ DOMAIN shots' = DOMAIN shots /\ Len(shots') = Len(shots)
  BY <1>1, <1>3 DEF Types
<1> QED
  BY <1>1, <1>2, <1>4 DEF Shot

\* A field that has a value changes only when the user enters another one.
Kept == \A f \in DOMAIN fields, k \in Fields :
          fields[f][k] \notin {None, Other} =>
            \/ fields'[f][k] = fields[f][k]
            \/ \E c \in DOMAIN cards : TypeField(c, k) /\ cards[c].form = f

LEMMA ShootKeepsTypes ==
  ASSUME Types, NEW b \in Bottles, Shoot(b)
  PROVE  Types' /\ Kept
<1> DEFINE shot == [bottle |-> b, stage |-> "resizing", asBack |-> FALSE,
                    side |-> IF asked = None THEN "front" ELSE "back"]
<1>1. /\ shots' = Append(shots, shot) /\ shot \in Shot /\ Len(shots) < MaxShots
      /\ MaxShots \in Nat
  BY ScanFlowAssumption DEF Shoot, Shot
<1> HIDE DEF shot, Shot
<1>2. shots' \in Seq(Shot) /\ Len(shots') = Len(shots) + 1 /\ Len(shots) \in Nat
  BY <1>1 DEF Types
<1>3. blob' \in ShotIds \cup {None} /\ hasty' \in BOOLEAN
  BY <1>1, <1>2 DEF Shoot, Acts, Types, ShotIds
<1>4. Len(shots') <= MaxShots
  BY <1>1, <1>2
<1> QED
  BY <1>2, <1>3, <1>4 DEF Shoot, Types, Kept

LEMMA AttachKeepsTypes ==
  ASSUME Types, NEW c \in DOMAIN cards, NEW b \in Bottles, Attach(c, b)
  PROVE  Types' /\ Kept
<1> DEFINE shot == [bottle |-> b, side |-> "front", stage |-> "attaching", asBack |-> FALSE]
<1>1. /\ shots' = Append(shots, shot) /\ shot \in Shot /\ Len(shots) < MaxShots
      /\ MaxShots \in Nat
  BY ScanFlowAssumption DEF Attach, Shot
<1> HIDE DEF shot, Shot
<1>2. shots' \in Seq(Shot) /\ Len(shots') = Len(shots) + 1 /\ Len(shots) \in Nat
  BY <1>1 DEF Types
<1>3. hasty' \in BOOLEAN /\ Len(shots') <= MaxShots
  BY <1>1, <1>2 DEF Attach, Acts, Types
<1> QED
  BY <1>2, <1>3 DEF Attach, Types, Kept, page

LEMMA TypeFieldKeepsTypes ==
  ASSUME Types, NEW c \in DOMAIN cards, NEW k \in Fields, TypeField(c, k)
  PROVE  Types' /\ Kept
<1> DEFINE g == cards[c].form
<1>1. /\ g \in DOMAIN fields /\ fields[g] \in Form /\ \A f \in DOMAIN fields : fields[f] \in Form
      /\ \E v \in Entries(k) : fields' = [fields EXCEPT ![g] = [fields[g] EXCEPT ![k] = v]]
  BY DomainsAreIntervals DEF TypeField, Types
<1>2. PICK v \in Values : fields' = [fields EXCEPT ![g] = [fields[g] EXCEPT ![k] = v]]
  BY <1>1 DEF Entries, Values
<1>5. [fields[g] EXCEPT ![k] = v] \in Form
  BY <1>1 DEF Form
<1>3. Kept
  BY <1>1, <1>2 DEF Kept, Form
<1> HIDE DEF Form
<1>4. fields' \in Seq(Form) /\ DOMAIN fields' = DOMAIN fields
  BY <1>1, <1>2, <1>5 DEF Types
<1>6. hasty' \in BOOLEAN
  BY DEF TypeField, Acts, Types
<1> QED
  BY <1>3, <1>4, <1>6 DEF TypeField, Types, page

LEMMA SaveKeepsTypes ==
  ASSUME Types, NEW c \in DOMAIN cards, Save(c)
  PROVE  /\ Types' /\ Kept /\ DOMAIN cards' = DOMAIN cards
         /\ cards'[c].save = "posting"
         /\ \A d \in DOMAIN cards : d # c => cards'[d] = cards[d]
<1> DEFINE draft == [name |-> fields[cards[c].form]["name"], text |-> text]
<1>1. cards' = [cards EXCEPT ![c] = [cards[c] EXCEPT !.save = "posting", !.draft = draft]]
  BY DEF Save
<1>2. cards[c] \in Card /\ fields[cards[c].form] \in Form /\ cards[c].form \in DOMAIN fields
  BY DomainsAreIntervals DEF Types
<1>3. draft \in Draft
  BY <1>2 DEF Form, Draft, Fields, Types
<1> HIDE DEF draft
<1>4. [cards[c] EXCEPT !.save = "posting", !.draft = draft] \in Card
      /\ [cards[c] EXCEPT !.save = "posting", !.draft = draft].form = cards[c].form
      /\ [cards[c] EXCEPT !.save = "posting", !.draft = draft].save = "posting"
  BY <1>2, <1>3 DEF Card
<1> HIDE DEF Card
<1>5. cards' \in Seq(Card) /\ DOMAIN cards' = DOMAIN cards
  BY <1>1, <1>4 DEF Types
<1>6. \A d \in DOMAIN cards' : cards'[d].form = cards[d].form
  BY <1>1, <1>4, <1>5
<1>7. hasty' \in BOOLEAN
  BY DEF Save, Acts, Types
<1> QED
  BY <1>1, <1>4, <1>5, <1>6, <1>7 DEF Save, Types, Kept, page

\* A card whose save goes on or ends.
LEMMA SaveMoves ==
  ASSUME Types, NEW c \in DOMAIN cards, NEW s \in {"ready", "putting"},
         \/ cards' = [cards EXCEPT ![c].save = s, ![c].draft = None]
         \/ cards' = [cards EXCEPT ![c].save = s]
  PROVE  /\ cards' \in Seq(Card) /\ DOMAIN cards' = DOMAIN cards
         /\ cards'[c].save = s
         /\ \A d \in DOMAIN cards : cards'[d].form = cards[d].form
         /\ \A d \in DOMAIN cards : d # c => cards'[d] = cards[d]
<1>1. cards[c] \in Card
  BY DomainsAreIntervals
<1>2. PICK new \in Card : /\ cards' = [cards EXCEPT ![c] = new]
                          /\ new.save = s /\ new.form = cards[c].form
  <2>1. CASE cards' = [cards EXCEPT ![c].save = s, ![c].draft = None]
    <3>1. cards' = [cards EXCEPT ![c] = [cards[c] EXCEPT !.save = s, !.draft = None]]
      BY <2>1
    <3>2. [cards[c] EXCEPT !.save = s, !.draft = None] \in Card
      BY <1>1 DEF Card
    <3> QED
      BY <1>1, <3>1, <3>2 DEF Card
  <2>2. CASE cards' = [cards EXCEPT ![c].save = s]
    BY <1>1, <2>2 DEF Card
  <2> QED
    BY <2>1, <2>2
<1> HIDE DEF Card
<1> QED
  BY <1>2 DEF Types

LEMMA RowIsWine ==
  ASSUME Types, NEW c \in DOMAIN cards, NEW p \in ShotIds \cup {None}
  PROVE  /\ Row(c) \in Wine /\ [Row(c) EXCEPT !.photo = p] \in Wine
         /\ Row(c).photo = None /\ [Row(c) EXCEPT !.photo = p].photo = p
<1>1. cards[c] \in Card
  BY DomainsAreIntervals
<1> QED
  BY <1>1 DEF Row, Wine, Card

LEMMA AppendWine ==
  ASSUME Types, NEW x \in Wine, wines' = Append(wines, x)
  PROVE  /\ wines' \in Seq(Wine) /\ DOMAIN wines' = DOMAIN wines \cup {Len(wines) + 1}
         /\ Len(wines) + 1 \notin DOMAIN wines
         /\ wines'[Len(wines) + 1] = x /\ \A w \in DOMAIN wines : wines'[w] = wines[w]
<1> HIDE DEF Wine
<1>1. wines \in Seq(Wine) /\ Len(wines) \in Nat /\ DOMAIN wines = 1..Len(wines)
  BY DomainsAreIntervals DEF Types
<1> QED
  BY <1>1

LEMMA UserKeepsTypes ==
  ASSUME Types, User
  PROVE  Types' /\ Kept
<1>1. CASE Retake
  BY <1>1 DEF Retake, Acts, Types, Kept
<1>2. CASE FillByHand
  <2>1. OpenCard(back, form, {}, None, FALSE, "label") /\ hasty' \in BOOLEAN
    BY <1>2 DEF FillByHand, Acts, Types
  <2> QED
    BY <1>2, <2>1, OpenCardKeepsTypes DEF FillByHand, Types, Kept
<1>3. CASE ManualAdd
  <2>1. OpenCard(FALSE, None, {}, None, FALSE, "manual") /\ hasty' \in BOOLEAN
    BY <1>3 DEF ManualAdd, Acts, Types
  <2> QED
    BY <1>3, <2>1, OpenCardKeepsTypes DEF ManualAdd, Types, Kept
<1>4. ASSUME NEW c \in DOMAIN cards, ScanBackLabel(c)
      PROVE  Types' /\ Kept
  <2>1. asked' \in Bottles \cup {None}
    <3>1. CASE shots = <<>>
      BY <1>4, <3>1 DEF ScanBackLabel
    <3>2. CASE shots # <<>>
      <4>1. Last(shots) = shots[Len(shots)] /\ Len(shots) \in DOMAIN shots
        BY <3>2, DomainsAreIntervals DEF Types, Last
      <4>2. Last(shots) \in Shot
        BY <4>1, DomainsAreIntervals
      <4> QED
        BY <1>4, <3>2, <4>2 DEF ScanBackLabel, Shot
    <3> QED
      BY <3>1, <3>2
  <2>2. form' \in DOMAIN fields /\ hasty' \in BOOLEAN
    BY <1>4 DEF ScanBackLabel, Acts, Types
  <2> QED
    BY <1>4, <2>1, <2>2 DEF ScanBackLabel, Types, Kept
<1>5. ASSUME NEW c \in DOMAIN cards, Cancel(c)
      PROVE  Types' /\ Kept
  BY <1>5 DEF Cancel, Acts, Types, Kept, page
<1>6. CASE Escape
  BY <1>6 DEF Escape, Acts, Types, Kept, page
<1> QED
  BY <1>1, <1>2, <1>3, <1>4, <1>5, <1>6, ShootKeepsTypes, AttachKeepsTypes, TypeFieldKeepsTypes,
     SaveKeepsTypes DEF User

LEMMA CallbackKeepsTypes ==
  ASSUME Types, Callback
  PROVE  Types' /\ Kept
<1>1. ASSUME NEW i \in DOMAIN shots, Attached(i)
      PROVE  Types' /\ Kept
  <2>1. Advance(i, "over") /\ blob' \in ShotIds \cup {None}
    BY <1>1, DomainsAreIntervals DEF Attached
  <2> QED
    BY <1>1, <2>1, AdvanceMoves DEF Attached, Types, Kept
<1>2. ASSUME NEW i \in DOMAIN shots, Resized(i)
      PROVE  Types' /\ Kept
  <2>1. Advance(i, "cropping") /\ blob' \in ShotIds \cup {None}
    BY <1>2, DomainsAreIntervals DEF Resized, Types
  <2> QED
    BY <1>2, <2>1, AdvanceMoves DEF Resized, Types, Kept
<1>3. ASSUME NEW i \in DOMAIN shots, Cropped(i)
      PROVE  Types' /\ Kept
  <2>1. shots' = [shots EXCEPT ![i] = [shots[i] EXCEPT !.stage = "server", !.asBack = back]]
    BY <1>3 DEF Cropped
  <2>2. [shots[i] EXCEPT !.stage = "server", !.asBack = back] \in Shot
    BY DomainsAreIntervals DEF Shot, Types
  <2>3. blob' \in ShotIds \cup {None}
    BY <1>3, DomainsAreIntervals DEF Cropped, Types
  <2> HIDE DEF Shot
  <2>4. shots' \in Seq(Shot) /\ Len(shots') = Len(shots)
    BY <2>1, <2>2 DEF Types
  <2> QED
    BY <1>3, <2>3, <2>4 DEF Cropped, Types, Kept
<1>4. ASSUME NEW i \in DOMAIN shots, NEW S, Read(i, S)
      PROVE  Types' /\ Kept
  <2>1. /\ Advance(i, "over") /\ OpenCard(back, form, S, i, shots[i].asBack, "label")
        /\ i \in ShotIds /\ shots[i].asBack \in BOOLEAN /\ back \in BOOLEAN
    BY <1>4, DomainsAreIntervals DEF Read, Shot, Types
  <2> QED
    <3>1. shots' \in Seq(Shot) /\ Len(shots') = Len(shots)
      BY <2>1, AdvanceMoves
    <3>2. /\ fields' \in Seq(Form) /\ cards' \in Seq(Card)
          /\ \A c \in DOMAIN cards' : cards'[c].form \in DOMAIN fields'
          /\ form' \in DOMAIN fields' /\ text' \in ShotIds \cup {None}
      <4>1. form = None \/ form \in DOMAIN fields
        BY DEF Types
      <4> QED
        BY <2>1, <4>1, OpenCardKeepsTypes
    <3>3. \A g \in DOMAIN fields, k \in Fields :
            fields[g][k] \notin {None, Other} => fields'[g][k] = fields[g][k]
      BY <2>1, OpenCardKeepsTypes DEF Types
    <3> QED
      BY <1>4, <3>1, <3>2, <3>3 DEF Read, Types, Kept
<1>5. ASSUME NEW i \in DOMAIN shots, Illegible(i)
      PROVE  Types' /\ Kept
  <2>1. /\ Advance(i, "over") /\ OpenCard(back, form, {}, i, FALSE, "illegible")
        /\ i \in ShotIds /\ back \in BOOLEAN
    BY <1>5, DomainsAreIntervals DEF Illegible, Types
  <2> QED
    BY <1>5, <2>1, AdvanceMoves, OpenCardKeepsTypes DEF Illegible, Types, Kept
<1>6. ASSUME NEW i \in DOMAIN shots, AnalysisFails(i)
      PROVE  Types' /\ Kept
  BY <1>6, AdvanceMoves DEF AnalysisFails, Types, Kept, page
<1>7. ASSUME NEW c \in DOMAIN cards, Finish(c), wines' \in Seq(Wine)
      PROVE  Types' /\ Kept
  BY <1>7, SaveMoves DEF Finish, Types, Kept
<1>8. ASSUME NEW c \in DOMAIN cards, SavedSendsPhoto(c)
      PROVE  Types' /\ Kept
  <2>1. wines' \in Seq(Wine)
    BY <1>8, RowIsWine, AppendWine DEF SavedSendsPhoto, Types
  <2>2. cards' = [cards EXCEPT ![c].save = "putting"]
    BY <1>8 DEF SavedSendsPhoto
  <2> QED
    BY <1>8, <2>1, <2>2, SaveMoves DEF SavedSendsPhoto, Types, Kept, page
<1>9. ASSUME NEW c \in DOMAIN cards, SaveFails(c)
      PROVE  Types' /\ Kept
  <2>1. wines' \in Seq(Wine)
    BY <1>9, RowIsWine, AppendWine DEF SaveFails, Types
  <2>2. cards' = [cards EXCEPT ![c].save = "ready", ![c].draft = None]
    BY <1>9 DEF SaveFails
  <2> QED
    BY <1>9, <2>1, <2>2, SaveMoves DEF SaveFails, Types, Kept, page
<1>10. ASSUME NEW c \in DOMAIN cards, SavedWithoutPhoto(c) \/ PhotoAnswered(c)
       PROVE  Types' /\ Kept
  BY <1>7, <1>10, RowIsWine, AppendWine DEF SavedWithoutPhoto, PhotoAnswered, Types
<1> QED
  BY <1>1, <1>2, <1>3, <1>4, <1>5, <1>6, <1>8, <1>9, <1>10 DEF Callback

LEMMA InitIsTyped == Init => Types
<1>1. MaxShots \in Nat /\ Len(<<>>) = 0 /\ DOMAIN <<>> = {}
  BY ScanFlowAssumption
<1>2. <<>> \in Seq(Shot) /\ <<>> \in Seq(Form) /\ <<>> \in Seq(Card) /\ <<>> \in Seq(Wine)
  OBVIOUS
<1> HIDE DEF Shot, Form, Card, Wine
<1> SUFFICES ASSUME Init PROVE Types
  OBVIOUS
<1>3. \A c \in DOMAIN cards : cards[c].form \in DOMAIN fields
  BY <1>1 DEF Init
<1>4. Len(shots) <= MaxShots
  BY <1>1 DEF Init
<1> QED
  BY <1>2, <1>3, <1>4 DEF Init, Types

LEMMA TypesHold == Spec => []Types
<1>1. Types /\ [Next]_vars => Types'
  BY UserKeepsTypes, CallbackKeepsTypes DEF Next, vars, Types
<1> QED
  BY <1>1, InitIsTyped, PTL DEF Spec

\* README.md, Scanning a bottle, "front data is never lost": for any number of pictures, cards
\* and readings, whatever callbacks run in whatever order, only the user changes a field that has
\* a value; a type "other" counts as none.
THEOREM LabelsAreKept == Spec => FrontDataIsKept
<1>1. Types /\ [Next]_vars => [Kept]_vars
  BY UserKeepsTypes, CallbackKeepsTypes DEF Next
<1> QED
  BY <1>1, TypesHold, PTL DEF Spec, FrontDataIsKept, Kept

-----------------------------------------------------------------------------
(***************************************************************************)
(* A user who waits.                                                       *)
(***************************************************************************)

LEMMA WaitingIsCalm == Types /\ Acts /\ ~hasty' => ~hasty /\ Calm
BY DEF Acts, Types

LEMMA PhotosOfCalm ==
  ASSUME Calm, Patient, NEW w \in DOMAIN wines, wines[w].photo # None
  PROVE  wines[w].photo # blob
BY DEF Calm, Saving, Patient, PhotosAreApart

\* With nothing in flight a save may begin, and what is on the page may change.
LEMMA CalmStepIsPatient ==
  ASSUME Types, Calm, Patient, UNCHANGED <<shots, wines>>, blob' \in {blob, None},
         asked' # None => back',
         \A c, d \in DOMAIN cards' : Saving(c)' /\ Saving(d)' => c = d
  PROVE  Patient'
<1>1. \A i \in DOMAIN shots' : ~InFlight(i)'
  BY DEF Calm, InFlight
<1>2. OneInFlight' /\ BackIsKnown'
  BY <1>1 DEF OneInFlight, BackIsKnown
<1>3. PhotosAreFront'
  BY DEF Patient, PhotosAreFront
<1>4. PhotosAreApart'
  BY PhotosOfCalm DEF Patient, PhotosAreApart
<1> QED
  BY <1>2, <1>3, <1>4 DEF Patient

\* With nothing in flight a picture may be taken.
LEMMA ShotIsPatient ==
  ASSUME Types, Calm, Patient, NEW shot \in Shot, shots' = Append(shots, shot),
         UNCHANGED <<cards, wines, back, asked>>, blob' \in {blob, Len(shots) + 1},
         blob' # blob => shot.side = "front",
         shot.side = "back" => back /\ shot.stage # "attaching"
  PROVE  Patient'
<1> HIDE DEF Shot
<1>1. /\ DOMAIN shots' = DOMAIN shots \cup {Len(shots) + 1} /\ Len(shots) + 1 \notin DOMAIN shots
      /\ shots'[Len(shots) + 1] = shot /\ \A i \in DOMAIN shots : shots'[i] = shots[i]
  <2>1. shots \in Seq(Shot) /\ DOMAIN shots = 1..Len(shots) /\ Len(shots) \in Nat
    BY DomainsAreIntervals DEF Types
  <2> QED
    BY <2>1
<1>2. OneInFlight'
  BY DEF Calm, OneInFlight, Saving
<1>3. BackIsKnown'
  BY <1>1 DEF Calm, Patient, BackIsKnown, InFlight
<1>4. PhotosAreFront'
  BY <1>1 DEF Patient, PhotosAreFront
<1>5. PhotosAreApart'
  BY <1>1, PhotosOfCalm DEF Patient, PhotosAreFront, PhotosAreApart
<1> QED
  BY <1>2, <1>3, <1>4, <1>5 DEF Patient

LEMMA UserIsPatient ==
  ASSUME Types, ~hasty => Patient, User, ~hasty'
  PROVE  Patient'
<1>1. CASE Acts /\ \E b \in Bottles : Shoot(b)
  <2>1. PICK b \in Bottles : Shoot(b)
    BY <1>1
  <2> DEFINE shot == [bottle |-> b, stage |-> "resizing", asBack |-> FALSE,
                      side |-> IF asked = None THEN "front" ELSE "back"]
  <2>2. Calm /\ Patient
    BY <1>1, WaitingIsCalm
  <2>3. asked # None => back
    BY <2>2 DEF Patient, BackIsKnown
  <2>4. /\ shots' = Append(shots, shot) /\ shot \in Shot /\ UNCHANGED <<cards, wines, back, asked>>
        /\ blob' = IF back THEN blob ELSE Len(shots) + 1
    BY <2>1 DEF Shoot, Shot
  <2>5. shot.stage = "resizing" /\ (shot.side = "back" => back) /\ (~back => shot.side = "front")
    BY <2>3
  <2> HIDE DEF shot
  <2> QED
    BY <2>2, <2>4, <2>5, ShotIsPatient
<1>2. ASSUME Acts, NEW c \in DOMAIN cards, NEW b \in Bottles, Attach(c, b)
      PROVE  Patient'
  <2> DEFINE shot == [bottle |-> b, side |-> "front", stage |-> "attaching", asBack |-> FALSE]
  <2>1. Calm /\ Patient
    BY <1>2, WaitingIsCalm
  <2>2. /\ shots' = Append(shots, shot) /\ shot \in Shot /\ UNCHANGED <<cards, wines, back, asked>>
        /\ blob' = blob
    BY <1>2 DEF Attach, Shot, page
  <2>3. shot.side = "front"
    OBVIOUS
  <2> HIDE DEF shot
  <2> QED
    BY <2>1, <2>2, <2>3, ShotIsPatient
<1>3. ASSUME Acts, UNCHANGED <<shots, wines>>, blob' \in {blob, None}, asked' # None => back',
             cards' = cards
      PROVE  Patient'
  BY <1>3, WaitingIsCalm, CalmStepIsPatient DEF Calm, Saving
<1>4. ASSUME Acts, UNCHANGED <<shots, wines>>, blob' \in {blob, None}, asked' # None => back',
             NEW b \in BOOLEAN, NEW f, f = None \/ f \in DOMAIN fields,
             NEW kind \in {"label", "manual"}, OpenCard(b, f, {}, None, FALSE, kind)
      PROVE  Patient'
  <2>1. \A c \in DOMAIN cards' : \/ c \in DOMAIN cards /\ cards'[c] = cards[c]
                                 \/ cards'[c].save = "ready"
    BY <1>4, OpenCardKeepsTypes
  <2>2. Calm /\ Patient
    BY <1>4, WaitingIsCalm
  <2>3. \A c \in DOMAIN cards' : cards'[c].save = "ready"
    BY <2>1, <2>2 DEF Calm, Saving
  <2> QED
    BY <1>4, <2>2, <2>3, CalmStepIsPatient DEF Saving
<1>5. asked # None /\ ~hasty => back
  BY DEF Patient, BackIsKnown
<1>6. Acts => ~hasty
  BY WaitingIsCalm
<1>7. CASE Retake
  BY <1>3, <1>5, <1>6, <1>7 DEF Retake
<1>8. CASE FillByHand
  BY <1>4, <1>5, <1>6, <1>8 DEF FillByHand, Types
<1>9. CASE ManualAdd
  BY <1>4, <1>9 DEF ManualAdd
<1>10. ASSUME NEW c \in DOMAIN cards, ScanBackLabel(c)
       PROVE  Patient'
  BY <1>3, <1>10 DEF ScanBackLabel
<1>11. ASSUME NEW c \in DOMAIN cards, NEW k \in Fields, TypeField(c, k)
       PROVE  Patient'
  BY <1>3, <1>5, <1>6, <1>11 DEF TypeField, page
<1>12. ASSUME NEW c \in DOMAIN cards, Cancel(c)
       PROVE  Patient'
  BY <1>3, <1>12 DEF Cancel, page
<1>13. ASSUME NEW c \in DOMAIN cards, Save(c)
       PROVE  Patient'
  <2>1. Calm /\ Patient
    BY <1>13, WaitingIsCalm DEF Save
  <2>2. DOMAIN cards' = DOMAIN cards /\ \A d \in DOMAIN cards : d # c => cards'[d].save = "ready"
    BY <1>13, <2>1, SaveKeepsTypes DEF Calm, Saving
  <2>3. UNCHANGED <<shots, wines, blob, back, asked>>
    BY <1>13 DEF Save, page
  <2> QED
    BY <1>5, <2>1, <2>2, <2>3, CalmStepIsPatient DEF Saving, Patient, BackIsKnown
<1>14. CASE Escape
  BY <1>3, <1>14 DEF Escape, page
<1> QED
  BY <1>1, <1>2, <1>14, <1>7, <1>8, <1>9, <1>10, <1>11, <1>12, <1>13 DEF User, Shoot, Attach

\* A picture in flight comes to its next stage; nothing else was in flight.
LEMMA AnalysisIsPatient ==
  ASSUME Types, Patient, NEW i \in DOMAIN shots, InFlight(i),
         DOMAIN shots' = DOMAIN shots, \A j \in DOMAIN shots : j # i => shots'[j] = shots[j],
         shots'[i].side = shots[i].side, shots'[i].stage # "attaching",
         shots[i].stage = "server" => shots'[i].stage = "over",
         UNCHANGED <<back, wines, asked>>,
         \A c \in DOMAIN cards' : \/ c \in DOMAIN cards /\ cards'[c] = cards[c]
                                  \/ cards'[c].save = "ready",
         \A c \in DOMAIN cards : c \in DOMAIN cards' /\ cards'[c] = cards[c],
         \/ blob' = blob
         \/ /\ blob' = i /\ shots[i].stage \in {"attaching", "resizing", "cropping"}
            /\ shots[i].stage # "attaching" => ~back
  PROVE  Patient'
<1>1. \A c \in DOMAIN cards' : cards'[c].save = "ready"
  BY DEF Patient, OneInFlight, Saving
<1>2. OneInFlight'
  BY <1>1 DEF OneInFlight, Saving
<1>3. BackIsKnown'
  BY DEF Patient, BackIsKnown, InFlight
<1>4. shots[i].side \in {"front", "back"}
  BY DomainsAreIntervals DEF Shot
<1>5. PhotosAreFront'
  BY <1>4 DEF Patient, PhotosAreFront, BackIsKnown
<1>6. PhotosAreApart'
  <2>1. \A w \in DOMAIN wines : wines[w].photo = i /\ i # None => shots[i].stage = "server"
    BY DEF Patient, PhotosAreApart, InFlight
  <2>2. \A c \in DOMAIN cards : cards[c].save # "putting"
    BY DEF Patient, OneInFlight, Saving
  <2> QED
    BY <2>1, <2>2 DEF Patient, PhotosAreFront, PhotosAreApart
<1> QED
  BY <1>2, <1>3, <1>5, <1>6 DEF Patient

LEMMA FinishIsPatient ==
  ASSUME Types, Patient, NEW c \in DOMAIN cards, Saving(c), Finish(c),
         wines' = wines \/ wines' = Append(wines, Row(c))
  PROVE  Patient'
<1>1. \A i \in DOMAIN shots : ~InFlight(i)
  BY DEF Patient, OneInFlight
<1>2. /\ DOMAIN cards' = DOMAIN cards /\ \A d \in DOMAIN cards : cards'[d].save = "ready"
  <2>1. cards' = [cards EXCEPT ![c].save = "ready", ![c].draft = None]
    BY DEF Finish
  <2> QED
    BY <2>1, SaveMoves DEF Patient, OneInFlight, Saving
<1>3. /\ \A w \in DOMAIN wines' : wines'[w].photo # None => w \in DOMAIN wines /\ wines'[w] = wines[w]
  <2>1. CASE wines' = wines
    BY <2>1
  <2>2. CASE wines' = Append(wines, Row(c))
    <3>1. Row(c) \in Wine /\ Row(c).photo = None
      BY RowIsWine
    <3> QED
      BY <2>2, <3>1, AppendWine
  <2> QED
    BY <2>1, <2>2
<1>4. blob' = None /\ asked' = None /\ shots' = shots
  BY DEF Finish
<1>5. OneInFlight' /\ BackIsKnown'
  BY <1>1, <1>2, <1>4 DEF OneInFlight, BackIsKnown, Saving, InFlight
<1>6. PhotosAreFront' /\ PhotosAreApart'
  BY <1>3, <1>4, RowIsWine, AppendWine DEF Patient, PhotosAreFront, PhotosAreApart
<1> QED
  BY <1>5, <1>6 DEF Patient

LEMMA SendIsPatient ==
  ASSUME Types, Patient, NEW c \in DOMAIN cards, SavedSendsPhoto(c)
  PROVE  Patient'
<1>1. /\ cards[c].save = "posting" /\ blob # None
      /\ wines' = Append(wines, [Row(c) EXCEPT !.photo = blob])
      /\ cards' = [cards EXCEPT ![c].save = "putting"]
      /\ UNCHANGED <<shots, blob, back, asked>>
  BY DEF SavedSendsPhoto, page
<1>2. /\ DOMAIN cards' = DOMAIN cards /\ cards'[c].save = "putting"
      /\ \A d \in DOMAIN cards : d # c => cards'[d] = cards[d]
  BY <1>1, SaveMoves
<1>3. Saving(c) /\ \A d \in DOMAIN cards : d # c => ~Saving(d)
  BY <1>1 DEF Patient, OneInFlight, Saving
<1>4. \A i \in DOMAIN shots : ~InFlight(i)
  BY <1>3 DEF Patient, OneInFlight
<1>5. /\ DOMAIN wines' = DOMAIN wines \cup {Len(wines) + 1} /\ Len(wines) + 1 \notin DOMAIN wines
      /\ wines'[Len(wines) + 1].photo = blob /\ \A w \in DOMAIN wines : wines'[w] = wines[w]
  BY <1>1, RowIsWine, AppendWine DEF Types
<1>6. OneInFlight' /\ BackIsKnown'
  BY <1>1, <1>2, <1>3, <1>4 DEF OneInFlight, BackIsKnown, Saving, InFlight, Patient
<1>7. PhotosAreFront'
  BY <1>1, <1>5 DEF Patient, PhotosAreFront
<1>8. \A w \in DOMAIN wines : wines[w].photo # None => wines[w].photo # blob
  BY <1>1, <1>3 DEF Patient, PhotosAreApart, Saving
<1>9. shots[blob].stage \in {"server", "over"}
  BY <1>1, <1>4 DEF Patient, PhotosAreFront, InFlight
<1>10. PhotosAreApart'
  BY <1>1, <1>2, <1>5, <1>8, <1>9 DEF Patient, PhotosAreApart
<1> QED
  BY <1>6, <1>7, <1>10 DEF Patient

LEMMA FailureIsPatient ==
  ASSUME Types, Patient, NEW c \in DOMAIN cards, SaveFails(c)
  PROVE  Patient'
<1>1. /\ cards[c].save = "posting" /\ wines' \in {wines, Append(wines, Row(c))}
      /\ cards' = [cards EXCEPT ![c].save = "ready", ![c].draft = None]
      /\ UNCHANGED <<shots, blob, back, asked>>
  BY DEF SaveFails, page
<1>2. \A i \in DOMAIN shots : ~InFlight(i)
  BY <1>1 DEF Patient, OneInFlight, Saving
<1>3. DOMAIN cards' = DOMAIN cards /\ \A d \in DOMAIN cards : cards'[d].save = "ready"
  BY <1>1, SaveMoves DEF Patient, OneInFlight, Saving
<1>4. \A w \in DOMAIN wines' : wines'[w].photo # None => w \in DOMAIN wines /\ wines'[w] = wines[w]
  <2>1. CASE wines' = wines
    BY <2>1
  <2>2. CASE wines' = Append(wines, Row(c))
    <3>1. Row(c) \in Wine /\ Row(c).photo = None
      BY RowIsWine
    <3> QED
      BY <2>2, <3>1, AppendWine
  <2> QED
    BY <1>1, <2>1, <2>2
<1>5. \A d \in DOMAIN cards : cards[d].save # "putting"
  BY <1>1 DEF Patient, OneInFlight, Saving
<1>6. OneInFlight' /\ BackIsKnown'
  BY <1>1, <1>2, <1>3 DEF OneInFlight, BackIsKnown, Saving, InFlight, Patient
<1>7. PhotosAreFront' /\ PhotosAreApart'
  BY <1>1, <1>4, <1>5, RowIsWine, AppendWine DEF Patient, PhotosAreFront, PhotosAreApart
<1> QED
  BY <1>6, <1>7 DEF Patient

LEMMA CallbackIsPatient ==
  ASSUME Types, Patient, Callback
  PROVE  Patient'
<1>1. ASSUME NEW i \in DOMAIN shots, Attached(i) \/ Resized(i) \/ AnalysisFails(i)
      PROVE  Patient'
  <2>1. PICK stage \in {"cropping", "over"} : Advance(i, stage)
    BY <1>1 DEF Attached, Resized, AnalysisFails
  <2>2. InFlight(i) /\ UNCHANGED <<back, wines, asked, cards>>
    BY <1>1 DEF Attached, Resized, AnalysisFails, InFlight, page
  <2>3. \/ blob' = blob
        \/ /\ blob' = i /\ shots[i].stage \in {"attaching", "resizing", "cropping"}
           /\ shots[i].stage # "attaching" => ~back
    BY <1>1 DEF Attached, Resized, AnalysisFails, page
  <2>4. shots[i].stage = "server" => stage = "over"
    BY <1>1, <2>1, AdvanceMoves DEF Attached, Resized, AnalysisFails
  <2> QED
    BY <2>1, <2>2, <2>3, <2>4, AdvanceMoves, AnalysisIsPatient
<1>2. ASSUME NEW i \in DOMAIN shots, Cropped(i)
      PROVE  Patient'
  <2>1. /\ shots' = [shots EXCEPT ![i] = [shots[i] EXCEPT !.stage = "server", !.asBack = back]]
        /\ shots[i].stage = "cropping" /\ UNCHANGED <<back, wines, asked, cards>>
        /\ blob' = IF back THEN blob ELSE i
    BY <1>2 DEF Cropped
  <2>2. shots[i] \in Shot
    BY DomainsAreIntervals
  <2>3. /\ DOMAIN shots' = DOMAIN shots /\ \A j \in DOMAIN shots : j # i => shots'[j] = shots[j]
        /\ shots'[i].side = shots[i].side /\ shots'[i].stage = "server"
    BY <2>1, <2>2 DEF Shot
  <2> QED
    BY <2>1, <2>3, AnalysisIsPatient DEF InFlight
<1>3. ASSUME NEW i \in DOMAIN shots, NEW S, Read(i, S) \/ Illegible(i)
      PROVE  Patient'
  <2>1. /\ Advance(i, "over") /\ shots[i].stage = "server" /\ UNCHANGED <<back, wines, asked, blob>>
        /\ i \in ShotIds /\ back \in BOOLEAN
    BY <1>3, DomainsAreIntervals DEF Read, Illegible, Types
  <2>2. /\ \A c \in DOMAIN cards' : \/ c \in DOMAIN cards /\ cards'[c] = cards[c]
                                    \/ cards'[c].save = "ready"
        /\ \A c \in DOMAIN cards : c \in DOMAIN cards' /\ cards'[c] = cards[c]
    <3>1. CASE Read(i, S)
      <4>1. OpenCard(back, form, S, i, shots[i].asBack, "label") /\ shots[i].asBack \in BOOLEAN
        BY <3>1, DomainsAreIntervals DEF Read, Shot
      <4> QED
        BY <2>1, <4>1, OpenCardKeepsTypes DEF Types
    <3>2. CASE Illegible(i)
      BY <2>1, <3>2, OpenCardKeepsTypes DEF Illegible, Types
    <3> QED
      BY <1>3, <3>1, <3>2
  <2> QED
    BY <2>1, <2>2, AdvanceMoves, AnalysisIsPatient DEF InFlight
<1>4. ASSUME NEW c \in DOMAIN cards, SavedWithoutPhoto(c) \/ PhotoAnswered(c)
      PROVE  Patient'
  BY <1>4, FinishIsPatient DEF SavedWithoutPhoto, PhotoAnswered, Saving
<1> QED
  BY <1>1, <1>2, <1>3, <1>4, SendIsPatient, FailureIsPatient DEF Callback

LEMMA PInvHolds == Spec => []PInv
<1>1. Init => PInv
  <2> SUFFICES ASSUME Init PROVE Patient
    BY InitIsTyped DEF PInv
  <2>1. DOMAIN shots = {} /\ DOMAIN cards = {} /\ DOMAIN wines = {} /\ blob = None /\ asked = None
    BY DEF Init
  <2> QED
    BY <2>1 DEF Patient, OneInFlight, BackIsKnown, PhotosAreFront, PhotosAreApart
<1>2. PInv /\ [Next]_vars => PInv'
  <2> SUFFICES ASSUME PInv, [Next]_vars PROVE PInv'
    OBVIOUS
  <2>1. CASE User
    BY <2>1, UserKeepsTypes, UserIsPatient DEF PInv
  <2>2. CASE Callback
    <3>1. hasty' = hasty
      BY <2>2 DEF Callback, Attached, Resized, Cropped, Read, Illegible, AnalysisFails,
                  SavedWithoutPhoto, SavedSendsPhoto, PhotoAnswered, SaveFails, Finish
    <3> QED
      BY <2>2, <3>1, CallbackKeepsTypes, CallbackIsPatient DEF PInv
  <2>3. CASE UNCHANGED vars
    BY <2>3 DEF vars, PInv, Types, Patient, OneInFlight, BackIsKnown, PhotosAreFront,
                PhotosAreApart, Saving, InFlight
  <2> QED
    BY <2>1, <2>2, <2>3 DEF Next
<1> QED
  BY <1>1, <1>2, PTL DEF Spec

\* README.md, "its image is never stored as the wine photo": no back label becomes a photo, for
\* any number of pictures, cards and wines of a user who waits.
THEOREM BackLabelsAreNoPhotos == Spec => []FrontLabelIsPhoto
<1>1. PInv => FrontLabelIsPhoto
  BY DEF PInv, Patient, PhotosAreFront, FrontLabelIsPhoto
<1> QED
  BY <1>1, PInvHolds, PTL

\* scan.js, what a save leaves on the page: no picture becomes the photo of two wines.
THEOREM PhotosAreUsedOnce == Spec => []PhotoUsedOnce
<1>1. PInv => PhotoUsedOnce
  BY DEF PInv, Patient, PhotosAreApart, PhotoUsedOnce
<1> QED
  BY <1>1, PInvHolds, PTL

-----------------------------------------------------------------------------
(***************************************************************************)
(* The server: edit distance.                                              *)
(***************************************************************************)
\* A set of naturals with 0 and the successor of each of its members has them all.
LEMMA AllNaturals ==
  ASSUME NEW S, 0 \in S, \A n \in Nat : n \in S => n + 1 \in S
  PROVE  \A n \in Nat : n \in S
<1> DEFINE others == {n \in Nat : n \notin S}
<1>1. SUFFICES ASSUME others # {}
               PROVE  FALSE
  OBVIOUS
<1>2. others \subseteq Nat
  OBVIOUS
<1>3. \A m, n \in Nat : m < n => <<m, n>> \in OpToRel(<, Nat)
  BY DEF OpToRel
<1>4. \E n \in others : \A m \in others : ~ (<<m, n>> \in OpToRel(<, Nat))
  <2> HIDE DEF others
  <2> QED
    BY <1>1, <1>2, NatLessThanWellFounded, WFMin
<1>5. PICK n \in others : \A m \in others : ~ (m < n)
  <2> HIDE DEF others
  <2> QED
    BY <1>2, <1>3, <1>4, Zenon
<1>6. n \in Nat /\ n \notin S /\ n # 0 /\ n - 1 \in Nat /\ n - 1 < n
  BY <1>5
<1> QED
  BY <1>5, <1>6

LEMMA LeastOfThree ==
  ASSUME NEW x \in Nat, NEW y \in Nat, NEW z \in Nat
  PROVE  /\ Least({x, y, z}) \in {x, y, z} /\ Least({x, y, z}) \in Nat
         /\ Least({x, y, z}) <= x /\ Least({x, y, z}) <= y /\ Least({x, y, z}) <= z
<1>1. \E m \in {x, y, z} : \A n \in {x, y, z} : m <= n
  <2>1. CASE x <= y /\ x <= z
    BY <2>1
  <2>2. CASE y <= x /\ y <= z
    BY <2>2
  <2>3. CASE z <= x /\ z <= y
    BY <2>3
  <2> QED
    BY <2>1, <2>2, <2>3
<1>2. /\ Least({x, y, z}) \in {x, y, z}
      /\ \A n \in {x, y, z} : Least({x, y, z}) <= n
  BY <1>1 DEF Least
<1> QED
  BY <1>2

LEMMA LeastOfTwo ==
  ASSUME NEW x \in Nat, NEW y \in Nat
  PROVE  /\ Least({x, y}) \in {x, y}
         /\ Least({x, y}) <= x /\ Least({x, y}) <= y
<1>1. \E m \in {x, y} : \A n \in {x, y} : m <= n
  <2>1. CASE x <= y
    BY <2>1
  <2>2. CASE y <= x
    BY <2>2
  <2> QED
    BY <2>1, <2>2
<1> QED
  BY <1>1 DEF Least

\* f begins with start, and each of its values comes from the one before.
Follows(f, n, V, start, step) ==
  f \in [0..n -> V] /\ f[0] = start /\ \A j \in 1..n : f[j] = step[j][f[j - 1]]

\* What is defined from its predecessor exists.
LEMMA Iterates ==
  ASSUME NEW V, NEW start \in V, NEW step \in [Nat -> [V -> V]], NEW n \in Nat
  PROVE  \E f : Follows(f, n, V, start, step)
<1> DEFINE S == {m \in Nat : \E f \in [0..m -> V] :
                     f[0] = start /\ \A j \in 1..m : f[j] = step[j][f[j - 1]]}
<1>1. 0 \in S
  <2> DEFINE f == [j \in 0..0 |-> start]
  <2>1. f \in [0..0 -> V] /\ f[0] = start /\ 1..0 = {}
    OBVIOUS
  <2> HIDE DEF f
  <2> QED
    BY <2>1
<1>2. ASSUME NEW m \in Nat, m \in S
      PROVE  m + 1 \in S
  <2>1. PICK f \in [0..m -> V] : f[0] = start /\ \A j \in 1..m : f[j] = step[j][f[j - 1]]
    BY <1>2
  <2> DEFINE g == [j \in 0..m + 1 |-> IF j = m + 1 THEN step[m + 1][f[m]] ELSE f[j]]
  <2>2. f[m] \in V /\ step[m + 1][f[m]] \in V
    BY <2>1
  <2>3. g \in [0..m + 1 -> V]
    BY <2>2
  <2>4. g[0] = start
    BY <2>1
  <2>5. ASSUME NEW j \in 1..m + 1
        PROVE  g[j] = step[j][g[j - 1]]
    <3>1. g[j - 1] = f[j - 1]
      OBVIOUS
    <3>2. CASE j = m + 1
      BY <3>1, <3>2
    <3>3. CASE j # m + 1
      BY <2>1, <3>1, <3>3
    <3> QED
      BY <3>2, <3>3
  <2> HIDE DEF g
  <2> QED
    BY <2>3, <2>4, <2>5
<1>3. n \in S
  <2> HIDE DEF S
  <2> QED
    BY <1>1, <1>2, AllNaturals
<1> QED
  BY <1>3 DEF Follows

\* A row of _lev's table is what its recursion says.
Solved(f, prev, letter, b) ==
  \A j \in 1..Len(b) : f[j] = Least({prev[j] + 1, f[j - 1] + 1,
                                     prev[j - 1] + (IF letter = b[j] THEN 0 ELSE 1)})

LEMMA NextRowSolves ==
  ASSUME NEW prev, NEW letter, NEW b, Len(b) \in Nat, prev \in [0..Len(b) -> Nat]
  PROVE  /\ NextRow(prev, letter, b) \in [0..Len(b) -> Nat]
         /\ NextRow(prev, letter, b)[0] = prev[0] + 1
         /\ Solved(NextRow(prev, letter, b), prev, letter, b)
<1> DEFINE m == Len(b)
           cost(j) == IF letter = b[j] THEN 0 ELSE 1
           best(j, x) == Least({prev[j] + 1, x + 1, prev[j - 1] + (IF letter = b[j] THEN 0 ELSE 1)})
           step == [j \in Nat |-> [x \in Nat |-> IF j \in 1..m THEN best(j, x) ELSE 0]]
           Solves(f) == f = [j \in 0..m |-> IF j = 0 THEN prev[0] + 1 ELSE best(j, f[j - 1])]
           cur == CHOOSE f : Solves(f)
<1>1. ASSUME NEW j \in 1..m, NEW x \in Nat
      PROVE  best(j, x) \in Nat
  <2>1. /\ prev[j] + 1 \in Nat /\ x + 1 \in Nat
        /\ prev[j - 1] + (IF letter = b[j] THEN 0 ELSE 1) \in Nat
    OBVIOUS
  <2> QED
    BY <2>1, LeastOfThree
<1>2. \E f : Solves(f)
  <2> HIDE DEF best
  <2>1. prev[0] + 1 \in Nat /\ m \in Nat
    OBVIOUS
  <2>a. \A j \in Nat : step[j] = [x \in Nat |-> IF j \in 1..m THEN best(j, x) ELSE 0]
    OBVIOUS
  <2>b. \A j \in Nat : step[j] \in [Nat -> Nat]
    <3> HIDE DEF step, m
    <3> SUFFICES ASSUME NEW j \in Nat PROVE step[j] \in [Nat -> Nat]
      OBVIOUS
    <3>1. \A x \in Nat : (IF j \in 1..m THEN best(j, x) ELSE 0) \in Nat
      BY <1>1
    <3> QED
      BY <2>a, <3>1
  <2>c. step \in [Nat -> [Nat -> Nat]]
    BY <2>b
  <2>2. PICK f \in [0..m -> Nat] :
               f[0] = prev[0] + 1 /\ \A j \in 1..m : f[j] = step[j][f[j - 1]]
    <3> DEFINE start == prev[0] + 1
               V == Nat
    <3> HIDE DEF step, m, start, V
    <3>1. start \in V /\ m \in Nat /\ step \in [Nat -> [V -> V]]
      BY <2>1, <2>c DEF start, V
    <3>2. \E f : Follows(f, m, V, start, step)
      BY <3>1, Iterates
    <3> QED
      BY <3>2 DEF Follows, start, V
  <2>3. ASSUME NEW j \in 0..m, j # 0
        PROVE  step[j][f[j - 1]] = best(j, f[j - 1])
    <3>1. j \in Nat /\ j \in 1..m /\ f[j - 1] \in Nat
      BY <2>1, <2>3
    <3> HIDE DEF step, m
    <3> QED
      BY <2>a, <3>1
  <2>4. f = [j \in 0..m |-> IF j = 0 THEN prev[0] + 1 ELSE best(j, f[j - 1])]
    <3> HIDE DEF step, m
    <3> QED
      BY <2>2, <2>3
  <2> QED
    BY <2>4
<1>3. cur = [j \in 0..m |-> IF j = 0 THEN prev[0] + 1 ELSE best(j, cur[j - 1])]
  <2> HIDE DEF best
  <2> QED
    BY <1>2
<1>4. NextRow(prev, letter, b) = [j \in 0..m |-> cur[j]]
  BY DEF NextRow
<1> HIDE DEF cur
<1>5. NextRow(prev, letter, b) = cur
  BY <1>3, <1>4
<1>6. \A j \in Nat : j \in 0..m => cur[j] \in Nat
  <2> DEFINE S == {j \in Nat : j \in 0..m => cur[j] \in Nat}
  <2>1. 0 \in S
    BY <1>3
  <2>2. ASSUME NEW j \in Nat, j \in S
        PROVE  j + 1 \in S
    <3> SUFFICES ASSUME j + 1 \in 0..m PROVE cur[j + 1] \in Nat
      OBVIOUS
    <3>1. j \in 0..m /\ cur[j] \in Nat /\ j + 1 \in 1..m
      BY <2>2
    <3>2. cur[j + 1] = best(j + 1, cur[j])
      <4> HIDE DEF best
      <4> QED
        BY <1>3, <3>1
    <3> QED
      BY <1>1, <3>1, <3>2
  <2>3. \A j \in Nat : j \in S
    <3> HIDE DEF S
    <3> QED
      BY <2>1, <2>2, AllNaturals
  <2> QED
    BY <2>3
<1>7. cur \in [0..m -> Nat] /\ cur[0] = prev[0] + 1
  <2> HIDE DEF best
  <2>1. cur = [j \in 0..m |-> cur[j]]
    BY <1>3
  <2>2. \A j \in 0..m : cur[j] \in Nat
    BY <1>6
  <2>3. cur \in [0..m -> Nat]
    BY <2>1, <2>2
  <2> QED
    BY <1>3, <2>3
<1>8. \A j \in 1..m : cur[j] = best(j, cur[j - 1])
  <2> HIDE DEF best
  <2> QED
    BY <1>3
<1>9. Solved(cur, prev, letter, b)
  BY <1>8 DEF Solved
<1> HIDE DEF cur
<1> QED
  BY <1>5, <1>7, <1>9

\* The table that _lev computes, row by row.
Table(t, a, b) ==
  /\ t \in [0..Len(a) -> [0..Len(b) -> Nat]]
  /\ \A j \in 0..Len(b) : t[0][j] = j
  /\ \A i \in 1..Len(a) : t[i][0] = t[i - 1][0] + 1
  /\ \A i \in 1..Len(a), j \in 1..Len(b) :
       t[i][j] = Least({t[i - 1][j] + 1, t[i][j - 1] + 1,
                        t[i - 1][j - 1] + (IF a[i] = b[j] THEN 0 ELSE 1)})

LEMMA LevIsInTable ==
  ASSUME NEW a, NEW b, Len(a) \in Nat, Len(b) \in Nat
  PROVE  \E t : Table(t, a, b) /\ Lev(a, b) = t[Len(a)][Len(b)]
<1> DEFINE n == Len(a)
           V == [0..Len(b) -> Nat]
           start == [j \in 0..Len(b) |-> j]
           step == [i \in Nat |-> [r \in V |-> IF i \in 1..n THEN NextRow(r, a[i], b) ELSE r]]
           Solves(f) == f = [i \in 0..n |-> IF i = 0 THEN start ELSE NextRow(f[i - 1], a[i], b)]
           row == CHOOSE f : Solves(f)
<1>1. start \in V /\ n \in Nat
  OBVIOUS
<1>2. \A r \in V, i \in 1..n : NextRow(r, a[i], b) \in V
  BY NextRowSolves
<1>3. \E f : Solves(f)
  <2>1. \A i \in Nat : step[i] = [r \in V |-> IF i \in 1..n THEN NextRow(r, a[i], b) ELSE r]
    OBVIOUS
  <2>2. step \in [Nat -> [V -> V]]
    <3> HIDE DEF V, n
    <3>1. ASSUME NEW i \in Nat
          PROVE  [r \in V |-> IF i \in 1..n THEN NextRow(r, a[i], b) ELSE r] \in [V -> V]
      BY <1>2
    <3> QED
      BY <3>1
  <2>3. PICK f : Follows(f, n, V, start, step)
    <3> HIDE DEF V, n, start, step
    <3> QED
      BY <1>1, <2>2, Iterates
  <2>4. ASSUME NEW i \in 1..n
        PROVE  f[i] = NextRow(f[i - 1], a[i], b)
    <3>1. i \in Nat /\ i - 1 \in 0..n
      BY <1>1
    <3> HIDE DEF V, n, start, step
    <3>2. f[i - 1] \in V /\ f[i] = step[i][f[i - 1]]
      BY <2>3, <3>1 DEF Follows
    <3> DEFINE r == f[i - 1]
    <3> HIDE DEF r
    <3>3. r \in V /\ f[i] = step[i][r]
      BY <3>2 DEF r
    <3>4. step[i] = [q \in V |-> IF i \in 1..n THEN NextRow(q, a[i], b) ELSE q]
      BY <2>1, <3>1
    <3>5. step[i][r] = NextRow(r, a[i], b)
      BY <3>3, <3>4
    <3> QED
      BY <3>3, <3>5 DEF r
  <2>5. f = [i \in 0..n |-> IF i = 0 THEN start ELSE NextRow(f[i - 1], a[i], b)]
    <3>1. \A i \in 0..n : i # 0 => i \in 1..n
      BY <1>1
    <3> HIDE DEF V, n, start, step
    <3>2. f \in [0..n -> V] /\ f[0] = start
      BY <2>3 DEF Follows
    <3>3. \A i \in 0..n : f[i] = IF i = 0 THEN start ELSE NextRow(f[i - 1], a[i], b)
      BY <2>4, <3>1, <3>2
    <3> QED
      BY <3>2, <3>3
  <2> QED
    BY <2>5
<1>4. row = [i \in 0..n |-> IF i = 0 THEN start ELSE NextRow(row[i - 1], a[i], b)]
  <2> HIDE DEF start
  <2> QED
    BY <1>3
<1>5. Lev(a, b) = row[Len(a)][Len(b)]
  BY DEF Lev
<1> HIDE DEF row
<1>6. \A i \in Nat : i \in 0..n => row[i] \in V
  <2> DEFINE S == {i \in Nat : i \in 0..n => row[i] \in V}
  <2>1. 0 \in S
    <3> HIDE DEF V, start
    <3> QED
      BY <1>1, <1>4
  <2>2. ASSUME NEW i \in Nat, i \in S
        PROVE  i + 1 \in S
    <3> HIDE DEF V, start
    <3> SUFFICES ASSUME i + 1 \in 0..n PROVE row[i + 1] \in V
      OBVIOUS
    <3>1. i \in 0..n /\ row[i] \in V /\ i + 1 \in 1..n
      BY <2>2, <1>1
    <3>2. row[i + 1] = NextRow(row[i], a[i + 1], b)
      BY <1>4, <3>1
    <3> QED
      BY <1>2, <3>1, <3>2
  <2>3. \A i \in Nat : i \in S
    <3> HIDE DEF S
    <3> QED
      BY <2>1, <2>2, AllNaturals
  <2> QED
    BY <2>3
<1>7. row \in [0..n -> V] /\ row[0] = start
  <2> HIDE DEF V, start
  <2>1. row = [i \in 0..n |-> row[i]]
    BY <1>4
  <2>2. \A i \in 0..n : row[i] \in V
    BY <1>1, <1>6
  <2> QED
    BY <1>1, <1>4, <2>1, <2>2
<1>8. ASSUME NEW i \in 1..n
      PROVE  /\ row[i - 1] \in V /\ row[i] = NextRow(row[i - 1], a[i], b)
             /\ row[i][0] = row[i - 1][0] + 1
             /\ \A j \in 1..Len(b) : row[i][j] =
                  Least({row[i - 1][j] + 1, row[i][j - 1] + 1,
                         row[i - 1][j - 1] + (IF a[i] = b[j] THEN 0 ELSE 1)})
  <2>1. row[i - 1] \in V /\ row[i] = NextRow(row[i - 1], a[i], b)
    <3> HIDE DEF V, start
    <3>1. i \in 0..n /\ i # 0 /\ i - 1 \in 0..n
      BY <1>1
    <3>2. row[i] = NextRow(row[i - 1], a[i], b)
      BY <1>4, <3>1
    <3> QED
      BY <1>7, <3>1, <3>2
  <2> DEFINE prev == row[i - 1]
             letter == a[i]
  <2> HIDE DEF prev, letter
  <2>2. prev \in [0..Len(b) -> Nat] /\ row[i] = NextRow(prev, letter, b)
    BY <2>1 DEF prev, letter
  <2>3. /\ NextRow(prev, letter, b)[0] = prev[0] + 1
        /\ \A j \in 1..Len(b) : NextRow(prev, letter, b)[j] =
             Least({prev[j] + 1, NextRow(prev, letter, b)[j - 1] + 1,
                    prev[j - 1] + (IF letter = b[j] THEN 0 ELSE 1)})
    <3>1. prev \in [0..Len(b) -> Nat] /\ Len(b) \in Nat
      BY <2>2
    <3>2. NextRow(prev, letter, b)[0] = prev[0] + 1
      BY <3>1, NextRowSolves
    <3>3. \A j \in 1..Len(b) : NextRow(prev, letter, b)[j] =
             Least({prev[j] + 1, NextRow(prev, letter, b)[j - 1] + 1,
                    prev[j - 1] + (IF letter = b[j] THEN 0 ELSE 1)})
      <4>1. Solved(NextRow(prev, letter, b), prev, letter, b)
        BY <3>1, NextRowSolves
      <4> QED
        BY <4>1 DEF Solved
    <3> QED
      BY <3>2, <3>3
  <2> QED
    BY <2>1, <2>2, <2>3 DEF prev, letter
<1>9. Table(row, a, b)
  BY <1>7, <1>8 DEF Table
<1> QED
  BY <1>5, <1>9

LEMMA RemovedLetter ==
  ASSUME NEW A, NEW w \in Seq(A), NEW k \in 1..Len(w)
  PROVE  /\ RemoveAt(w, k) \in Seq(A) /\ Len(RemoveAt(w, k)) = Len(w) - 1
         /\ \A j \in 1..Len(w) - 1 : RemoveAt(w, k)[j] = IF j < k THEN w[j] ELSE w[j + 1]
<1> DEFINE x == SubSeq(w, 1, k - 1)
           y == SubSeq(w, k + 1, Len(w))
<1>1. /\ x \in Seq(A) /\ Len(x) = k - 1 /\ \A j \in 1..k - 1 : x[j] = w[j]
      /\ y \in Seq(A) /\ Len(y) = Len(w) - k /\ \A j \in 1..Len(w) - k : y[j] = w[k + j]
  <2>1. \A j \in 1..Len(w) : w[j] \in A
    OBVIOUS
  <2> QED
    BY <2>1, SubSeqProperties
<1>2. RemoveAt(w, k) = x \o y
  BY DEF RemoveAt
<1> HIDE DEF x, y
<1>3. /\ x \o y \in Seq(A) /\ Len(x \o y) = Len(w) - 1
      /\ \A j \in 1..Len(w) - 1 : (x \o y)[j] = IF j <= k - 1 THEN x[j] ELSE y[j - (k - 1)]
  <2>1. Len(x) + Len(y) = Len(w) - 1
    BY <1>1
  <2>2. /\ x \o y \in Seq(A) /\ Len(x \o y) = Len(x) + Len(y)
        /\ \A j \in 1..Len(x) + Len(y) : (x \o y)[j] = IF j <= Len(x) THEN x[j] ELSE y[j - Len(x)]
    BY <1>1, ConcatProperties
  <2> QED
    BY <1>1, <2>1, <2>2
<1>4. ASSUME NEW j \in 1..Len(w) - 1
      PROVE  (x \o y)[j] = IF j < k THEN w[j] ELSE w[j + 1]
  <2>0. j \in Nat /\ k \in Nat
    OBVIOUS
  <2>1. CASE j < k
    BY <1>1, <1>3, <2>1
  <2>2. CASE ~ (j < k)
    <3>1. j - (k - 1) \in 1..Len(w) - k /\ k + (j - (k - 1)) = j + 1
      BY <2>2
    <3> QED
      BY <1>1, <1>3, <2>2, <3>1
  <2> QED
    BY <2>1, <2>2
<1> QED
  BY <1>2, <1>3, <1>4

LEMMA InsertedLetter ==
  ASSUME NEW A, NEW w \in Seq(A), NEW k \in 1..Len(w) + 1, NEW l \in A
  PROVE  /\ InsertAt(w, k, l) \in Seq(A) /\ Len(InsertAt(w, k, l)) = Len(w) + 1
         /\ \A j \in 1..Len(w) + 1 : InsertAt(w, k, l)[j] =
              IF j < k THEN w[j] ELSE IF j = k THEN l ELSE w[j - 1]
<1> DEFINE x == SubSeq(w, 1, k - 1)
           y == SubSeq(w, k, Len(w))
           xl == x \o <<l>>
<1>1. /\ x \in Seq(A) /\ Len(x) = k - 1 /\ \A j \in 1..k - 1 : x[j] = w[j]
      /\ y \in Seq(A) /\ Len(y) = Len(w) + 1 - k
      /\ \A j \in 1..Len(w) + 1 - k : y[j] = w[k + j - 1]
  <2>1. \A j \in 1..Len(w) : w[j] \in A
    OBVIOUS
  <2> QED
    BY <2>1, SubSeqProperties
<1>2. InsertAt(w, k, l) = xl \o y
  BY DEF InsertAt
<1> HIDE DEF x, y
<1>3. /\ xl \in Seq(A) /\ Len(xl) = k
      /\ \A j \in 1..k : xl[j] = IF j < k THEN w[j] ELSE l
  <2>1. <<l>> \in Seq(A) /\ Len(<<l>>) = 1 /\ <<l>>[1] = l
    OBVIOUS
  <2> QED
    BY <1>1, <2>1, ConcatProperties
<1> HIDE DEF xl
<1>4. /\ xl \o y \in Seq(A) /\ Len(xl \o y) = Len(w) + 1
      /\ \A j \in 1..Len(w) + 1 : (xl \o y)[j] = IF j <= k THEN xl[j] ELSE y[j - k]
  <2>1. Len(xl) + Len(y) = Len(w) + 1
    BY <1>1, <1>3
  <2>2. /\ xl \o y \in Seq(A) /\ Len(xl \o y) = Len(xl) + Len(y)
        /\ \A j \in 1..Len(xl) + Len(y) :
             (xl \o y)[j] = IF j <= Len(xl) THEN xl[j] ELSE y[j - Len(xl)]
    BY <1>1, <1>3, ConcatProperties
  <2> QED
    BY <1>3, <2>1, <2>2, Zenon
<1>5. ASSUME NEW j \in 1..Len(w) + 1
      PROVE  (xl \o y)[j] = IF j < k THEN w[j] ELSE IF j = k THEN l ELSE w[j - 1]
  <2>0. j \in Nat /\ k \in Nat
    OBVIOUS
  <2>1. CASE j <= k
    BY <1>3, <1>4, <2>1
  <2>2. CASE ~ (j <= k)
    <3>1. j - k \in 1..Len(w) + 1 - k /\ k + (j - k) - 1 = j - 1
      BY <2>2
    <3> QED
      BY <1>1, <1>4, <2>2, <3>1
  <2> QED
    BY <2>1, <2>2
<1> QED
  BY <1>2, <1>4, <1>5

LEMMA ReplacedLetter ==
  ASSUME NEW A, NEW w \in Seq(A), NEW k \in 1..Len(w), NEW l \in A
  PROVE  /\ ReplaceAt(w, k, l) \in Seq(A) /\ Len(ReplaceAt(w, k, l)) = Len(w)
         /\ \A j \in 1..Len(w) : ReplaceAt(w, k, l)[j] = IF j = k THEN l ELSE w[j]
BY DEF ReplaceAt

\* What holds at the top and the left edge of a table, and in a cell if in the three
\* cells before it, holds in the whole table.
LEMMA CellByCell ==
  ASSUME NEW n \in Nat, NEW m \in Nat, NEW G,
         \A j \in 0..m : <<0, j>> \in G,
         \A i \in 1..n : <<i - 1, 0>> \in G => <<i, 0>> \in G,
         \A i \in 1..n, j \in 1..m :
           <<i - 1, j>> \in G /\ <<i, j - 1>> \in G /\ <<i - 1, j - 1>> \in G => <<i, j>> \in G
  PROVE  \A i \in 0..n, j \in 0..m : <<i, j>> \in G
<1> DEFINE S == {i \in Nat : i <= n => \A j \in 0..m : <<i, j>> \in G}
<1>1. 0 \in S
  OBVIOUS
<1>2. ASSUME NEW i \in Nat, i \in S
      PROVE  i + 1 \in S
  <2> SUFFICES ASSUME i + 1 <= n PROVE \A j \in 0..m : <<i + 1, j>> \in G
    OBVIOUS
  <2>1. /\ i + 1 \in 1..n /\ (i + 1) - 1 = i /\ \A j \in 0..m : <<i, j>> \in G
    BY <1>2
  <2> DEFINE T == {j \in Nat : j <= m => <<i + 1, j>> \in G}
  <2>2. 0 \in T
    <3>1. <<i, 0>> \in G
      BY <2>1
    <3> QED
      BY <2>1, <3>1
  <2>3. ASSUME NEW j \in Nat, j \in T
        PROVE  j + 1 \in T
    <3> SUFFICES ASSUME j + 1 <= m PROVE <<i + 1, j + 1>> \in G
      OBVIOUS
    <3>1. j + 1 \in 1..m /\ (j + 1) - 1 = j /\ j \in 0..m /\ j + 1 \in 0..m
      OBVIOUS
    <3>2. <<i + 1, j>> \in G /\ <<i, j + 1>> \in G /\ <<i, j>> \in G
      BY <2>1, <2>3, <3>1
    <3> QED
      BY <2>1, <3>1, <3>2
  <2>4. \A j \in Nat : j \in T
    <3> HIDE DEF T
    <3> QED
      BY <2>2, <2>3, AllNaturals
  <2> QED
    BY <2>4
<1>3. \A i \in Nat : i \in S
  <2> HIDE DEF S
  <2> QED
    BY <1>1, <1>2, AllNaturals
<1> SUFFICES ASSUME NEW i \in 0..n, NEW j \in 0..m PROVE <<i, j>> \in G
  OBVIOUS
<1>4. i \in Nat /\ i <= n
  OBVIOUS
<1>5. i \in S
  <2> HIDE DEF S
  <2> QED
    BY <1>3, <1>4
<1> QED
  BY <1>4, <1>5

\* What a table says of two neighbours: a step right or down costs one, a step across
\* costs a letter that differs, and each cell is reached by one of them.
Steps(t, a, b) ==
  /\ \A i \in 0..Len(a), j \in 0..Len(b) : t[i][j] \in Nat
  /\ \A j \in 0..Len(b) : t[0][j] = j
  /\ \A i \in 0..Len(a) : t[i][0] = i
  /\ \A i \in 1..Len(a), j \in 0..Len(b) : t[i][j] <= t[i - 1][j] + 1
  /\ \A i \in 0..Len(a), j \in 1..Len(b) : t[i][j] <= t[i][j - 1] + 1
  /\ \A i \in 1..Len(a), j \in 1..Len(b) :
       /\ t[i][j] <= t[i - 1][j - 1] + 1
       /\ a[i] = b[j] => t[i][j] <= t[i - 1][j - 1]
  /\ \A i \in 1..Len(a), j \in 1..Len(b) :
       \/ t[i][j] = t[i - 1][j] + 1 \/ t[i][j] = t[i][j - 1] + 1
       \/ t[i][j] = t[i - 1][j - 1] + 1
       \/ a[i] = b[j] /\ t[i][j] = t[i - 1][j - 1]

LEMMA TableSteps ==
  ASSUME NEW t, NEW a, NEW b, Len(a) \in Nat, Len(b) \in Nat, Table(t, a, b)
  PROVE  Steps(t, a, b)
<1>1. \A i \in 0..Len(a), j \in 0..Len(b) : t[i][j] \in Nat
  BY DEF Table
<1>2. \A j \in 0..Len(b) : t[0][j] = j
  BY DEF Table
<1>3. \A i \in 0..Len(a) : t[i][0] = i
  <2> DEFINE S == {i \in Nat : i <= Len(a) => t[i][0] = i}
  <2>1. 0 \in S
    BY <1>2
  <2>2. ASSUME NEW i \in Nat, i \in S
        PROVE  i + 1 \in S
    <3> SUFFICES ASSUME i + 1 <= Len(a) PROVE t[i + 1][0] = i + 1
      OBVIOUS
    <3>1. i + 1 \in 1..Len(a) /\ (i + 1) - 1 = i /\ t[i][0] = i
      BY <2>2
    <3>2. t[i + 1][0] = t[(i + 1) - 1][0] + 1
      BY <3>1 DEF Table
    <3> QED
      BY <3>1, <3>2
  <2>3. \A i \in Nat : i \in S
    <3> HIDE DEF S
    <3> QED
      BY <2>1, <2>2, AllNaturals
  <2> QED
    BY <2>3
<1>4. ASSUME NEW i \in 1..Len(a), NEW j \in 1..Len(b)
      PROVE  /\ t[i][j] <= t[i - 1][j] + 1 /\ t[i][j] <= t[i][j - 1] + 1
             /\ t[i][j] <= t[i - 1][j - 1] + 1
             /\ a[i] = b[j] => t[i][j] <= t[i - 1][j - 1]
             /\ \/ t[i][j] = t[i - 1][j] + 1 \/ t[i][j] = t[i][j - 1] + 1
                \/ t[i][j] = t[i - 1][j - 1] + 1
                \/ a[i] = b[j] /\ t[i][j] = t[i - 1][j - 1]
  <2> DEFINE x == t[i - 1][j] + 1
             y == t[i][j - 1] + 1
             d == t[i - 1][j - 1]
             z == d + (IF a[i] = b[j] THEN 0 ELSE 1)
  <2>1. t[i][j] = Least({x, y, z})
    BY DEF Table
  <2>2. t[i - 1][j] \in Nat /\ t[i][j - 1] \in Nat /\ d \in Nat
    <3>1. i - 1 \in 0..Len(a) /\ j - 1 \in 0..Len(b) /\ i \in 0..Len(a) /\ j \in 0..Len(b)
      OBVIOUS
    <3> QED
      BY <1>1, <3>1
  <2> HIDE DEF d
  <2>3. a[i] = b[j] => z = d
    BY <2>2
  <2>4. a[i] # b[j] => z = d + 1
    BY <2>2
  <2>0. x \in Nat /\ y \in Nat /\ z \in Nat
    BY <2>2, <2>3, <2>4
  <2>5. /\ t[i][j] = x \/ t[i][j] = y \/ t[i][j] = z
        /\ t[i][j] <= x /\ t[i][j] <= y /\ t[i][j] <= z
    <3> HIDE DEF x, y, z
    <3> QED
      BY <2>0, <2>1, LeastOfThree
  <2>6. z <= d + 1 /\ (z = d + 1 \/ (a[i] = b[j] /\ z = d))
    <3>1. CASE a[i] = b[j]
      <4>1. z = d
        BY <2>3, <3>1
      <4> HIDE DEF z
      <4> QED
        BY <2>0, <2>2, <3>1, <4>1
    <3>2. CASE a[i] # b[j]
      <4>1. z = d + 1
        BY <2>4, <3>2
      <4> HIDE DEF z
      <4> QED
        BY <2>0, <2>2, <3>2, <4>1
    <3> QED
      BY <3>1, <3>2
  <2> HIDE DEF z
  <2>7. t[i][j] <= d + 1 /\ (a[i] = b[j] => t[i][j] <= d)
    <3>1. t[i][j] \in Nat
      BY <1>1
    <3> QED
      BY <2>0, <2>2, <2>3, <2>5, <2>6, <3>1
  <2>8. t[i][j] <= t[i - 1][j] + 1 /\ t[i][j] <= t[i][j - 1] + 1
    BY <2>5
  <2>9. \/ t[i][j] = t[i - 1][j] + 1 \/ t[i][j] = t[i][j - 1] + 1
        \/ t[i][j] = d + 1
        \/ a[i] = b[j] /\ t[i][j] = d
    BY <2>5, <2>6
  <2> QED
    BY <2>7, <2>8, <2>9 DEF d
<1>5. \A i \in 1..Len(a), j \in 0..Len(b) : t[i][j] <= t[i - 1][j] + 1
  <2> SUFFICES ASSUME NEW i \in 1..Len(a), NEW j \in 0..Len(b)
               PROVE  t[i][j] <= t[i - 1][j] + 1
    OBVIOUS
  <2>1. CASE j = 0
    <3>1. i \in 0..Len(a) /\ i - 1 \in 0..Len(a)
      OBVIOUS
    <3> QED
      BY <1>3, <2>1, <3>1
  <2>2. CASE j # 0
    <3>1. j \in 1..Len(b)
      BY <2>2
    <3> QED
      BY <1>4, <3>1
  <2> QED
    BY <2>1, <2>2
<1>6. \A i \in 0..Len(a), j \in 1..Len(b) : t[i][j] <= t[i][j - 1] + 1
  <2> SUFFICES ASSUME NEW i \in 0..Len(a), NEW j \in 1..Len(b)
               PROVE  t[i][j] <= t[i][j - 1] + 1
    OBVIOUS
  <2>1. CASE i = 0
    <3>1. j \in 0..Len(b) /\ j - 1 \in 0..Len(b)
      OBVIOUS
    <3> QED
      BY <1>2, <2>1, <3>1
  <2>2. CASE i # 0
    <3>1. i \in 1..Len(a)
      BY <2>2
    <3> QED
      BY <1>4, <3>1
  <2> QED
    BY <2>1, <2>2
<1> QED
  BY <1>1, <1>2, <1>3, <1>4, <1>5, <1>6 DEF Steps

Cell(t, a, b, i, j) ==
  /\ t[i][j] \in Nat /\ t[i - 1][j] \in Nat /\ t[i][j - 1] \in Nat /\ t[i - 1][j - 1] \in Nat
  /\ t[i][j] <= t[i - 1][j] + 1 /\ t[i][j] <= t[i][j - 1] + 1
  /\ t[i][j] <= t[i - 1][j - 1] + 1
  /\ a[i] = b[j] => t[i][j] <= t[i - 1][j - 1]
  /\ \/ t[i][j] = t[i - 1][j] + 1
     \/ t[i][j] = t[i][j - 1] + 1
     \/ t[i][j] = t[i - 1][j - 1] + 1
     \/ a[i] = b[j] /\ t[i][j] = t[i - 1][j - 1]

LEMMA CellSteps ==
  ASSUME NEW t, NEW a, NEW b, Len(a) \in Nat, Len(b) \in Nat, Steps(t, a, b),
         NEW i \in 1..Len(a), NEW j \in 1..Len(b)
  PROVE  Cell(t, a, b, i, j)
<1>1. i \in 0..Len(a) /\ i - 1 \in 0..Len(a) /\ j \in 0..Len(b) /\ j - 1 \in 0..Len(b)
  OBVIOUS
<1>2. t[i][j] \in Nat /\ t[i - 1][j] \in Nat /\ t[i][j - 1] \in Nat /\ t[i - 1][j - 1] \in Nat
  BY <1>1 DEF Steps
<1>3. t[i][j] <= t[i - 1][j] + 1 /\ t[i][j] <= t[i][j - 1] + 1
  BY <1>1 DEF Steps
<1> QED
  BY <1>2, <1>3 DEF Steps, Cell

\* Two cells for the same letter differ as those before them do.
LEMMA CheapestStep ==
  ASSUME NEW t0 \in Nat, NEW t1 \in Nat, NEW t2 \in Nat, NEW t3 \in Nat,
         NEW s0 \in Nat, NEW s1 \in Nat, NEW s2 \in Nat, NEW s3 \in Nat, NEW e \in Nat,
         t0 = t1 + 1 \/ t0 = t2 + 1 \/ t0 = t3 + 1 \/ (t0 = t3 /\ s0 <= s3),
         s0 <= s1 + 1, s0 <= s2 + 1, s0 <= s3 + 1, s1 <= t1 + e, s2 <= t2 + e, s3 <= t3 + e
  PROVE  s0 <= t0 + e
OBVIOUS

LEMMA SameLetter ==
  ASSUME NEW s, NEW v, NEW c, NEW h, NEW j, Cell(s, v, c, h, j),
         NEW t, NEW w, NEW i, Cell(t, w, c, i, j), v[h] = w[i], NEW e \in Nat,
         s[h - 1][j] <= t[i - 1][j] + e, s[h][j - 1] <= t[i][j - 1] + e,
         s[h - 1][j - 1] <= t[i - 1][j - 1] + e
  PROVE  s[h][j] <= t[i][j] + e
<1> DEFINE t0 == t[i][j]
           t1 == t[i - 1][j]
           t2 == t[i][j - 1]
           t3 == t[i - 1][j - 1]
           s0 == s[h][j]
           s1 == s[h - 1][j]
           s2 == s[h][j - 1]
           s3 == s[h - 1][j - 1]
<1>1. s0 \in Nat /\ s1 \in Nat /\ s2 \in Nat /\ s3 \in Nat /\ t0 \in Nat /\ t1 \in Nat /\ t2 \in Nat /\ t3 \in Nat
  BY DEF Cell
<1>2. s0 <= s1 + 1 /\ s0 <= s2 + 1 /\ s0 <= s3 + 1
  BY DEF Cell
<1>3. t0 = t1 + 1 \/ t0 = t2 + 1 \/ t0 = t3 + 1 \/ (t0 = t3 /\ s0 <= s3)
  BY Zenon DEF Cell
<1>4. s1 <= t1 + e /\ s2 <= t2 + e /\ s3 <= t3 + e
  OBVIOUS
<1> HIDE DEF s0, s1, s2, s3, t0, t1, t2, t3
<1>5. s0 <= t0 + e
  BY <1>1, <1>2, <1>3, <1>4, CheapestStep
<1> QED
  BY <1>5 DEF s0, t0

\* The cell above is not much higher than the one below it.
LEMMA CellAbove ==
  ASSUME NEW t, NEW a, NEW b, Len(a) \in Nat, Len(b) \in Nat, Steps(t, a, b), NEW i \in 1..Len(a)
  PROVE  \A j \in 0..Len(b) : t[i - 1][j] <= t[i][j] + 1
<1> DEFINE S == {j \in Nat : j <= Len(b) => t[i - 1][j] <= t[i][j] + 1}
<1>1. 0 \in S
  <2>1. t[i][0] = i /\ t[i - 1][0] = i - 1
    <3>1. i \in 0..Len(a) /\ i - 1 \in 0..Len(a)
      OBVIOUS
    <3> QED
      BY <3>1 DEF Steps
  <2> QED
    BY <2>1
<1>2. ASSUME NEW j \in Nat, j \in S
      PROVE  j + 1 \in S
  <2> SUFFICES ASSUME j + 1 <= Len(b) PROVE t[i - 1][j + 1] <= t[i][j + 1] + 1
    OBVIOUS
  <2> DEFINE q == j + 1
  <2>1. q \in 1..Len(b) /\ q - 1 = j
    OBVIOUS
  <2>2. /\ t[i][q] \in Nat /\ t[i - 1][q] \in Nat /\ t[i][q - 1] \in Nat /\ t[i - 1][q - 1] \in Nat
        /\ \/ t[i][q] = t[i - 1][q] + 1 \/ t[i][q] = t[i][q - 1] + 1
           \/ t[i][q] = t[i - 1][q - 1] + 1 \/ t[i][q] = t[i - 1][q - 1]
    <3> HIDE DEF q
    <3>1. Cell(t, a, b, i, q)
      BY <2>1, CellSteps
    <3> QED
      BY <3>1 DEF Cell
  <2>3. t[i - 1][q - 1] <= t[i][q - 1] + 1
    BY <1>2, <2>1
  <2>4. t[i - 1][q] <= t[i - 1][q - 1] + 1
    <3>1. i - 1 \in 0..Len(a)
      OBVIOUS
    <3> HIDE DEF q
    <3> QED
      BY <2>1, <3>1 DEF Steps
  <2> DEFINE t0 == t[i][q]
             t1 == t[i - 1][q]
             t2 == t[i][q - 1]
             t3 == t[i - 1][q - 1]
  <2>5. t1 <= t0 + 1
    <3>1. /\ t0 \in Nat /\ t1 \in Nat /\ t2 \in Nat /\ t3 \in Nat
          /\ t3 <= t2 + 1 /\ t1 <= t3 + 1
      BY <2>2, <2>3, <2>4
    <3>2. t0 = t1 + 1 \/ t0 = t2 + 1 \/ t0 = t3 + 1 \/ t0 = t3
      BY <2>2
    <3> HIDE DEF t0, t1, t2, t3
    <3> QED
      BY <3>1, <3>2
  <2> QED
    BY <2>5
<1>3. \A j \in Nat : j \in S
  <2> HIDE DEF S
  <2> QED
    BY <1>1, <1>2, AllNaturals
<1> QED
  BY <1>3

LEMMA RemovalCosts ==
  ASSUME NEW v, NEW w, NEW c, Len(v) \in Nat, Len(w) \in Nat, Len(c) \in Nat,
         NEW k \in 1..Len(w), Len(v) = Len(w) - 1,
         \A x \in 1..Len(v) : v[x] = IF x < k THEN w[x] ELSE w[x + 1],
         NEW s, Steps(s, v, c), NEW t, Steps(t, w, c)
  PROVE  s[Len(v)][Len(c)] <= t[Len(w)][Len(c)] + 1
<1> DEFINE P(i, j) == /\ i < k => s[i][j] <= t[i][j]
                      /\ i >= k => s[i - 1][j] <= t[i][j] + 1
           G == {p \in (0..Len(w)) \X (0..Len(c)) : P(p[1], p[2])}
<1>1. \A i \in 0..Len(w), j \in 0..Len(c) : <<i, j>> \in G <=> P(i, j)
  OBVIOUS
<1>2. ASSUME NEW j \in 0..Len(c)
      PROVE  P(0, j)
  <2>1. s[0][j] = j /\ t[0][j] = j
    BY DEF Steps
  <2> QED
    BY <2>1
<1>3. ASSUME NEW i \in 1..Len(w)
      PROVE  P(i, 0)
  <2>1. i \in 0..Len(w) /\ i - 1 \in 0..Len(v) /\ (i < k => i \in 0..Len(v))
    OBVIOUS
  <2>2. t[i][0] = i /\ s[i - 1][0] = i - 1 /\ (i < k => s[i][0] = i)
    BY <2>1 DEF Steps
  <2> QED
    BY <2>2
<1>4. ASSUME NEW i \in 1..Len(w), NEW j \in 1..Len(c), P(i - 1, j), P(i, j - 1), P(i - 1, j - 1)
      PROVE  P(i, j)
  <2>1. Cell(t, w, c, i, j)
    BY CellSteps
  <2>2. CASE i < k
    <3>1. i \in 1..Len(v) /\ v[i] = w[i]
      BY <2>2
    <3>2. Cell(s, v, c, i, j)
      BY <3>1, CellSteps
    <3>3. s[i - 1][j] <= t[i - 1][j] /\ s[i][j - 1] <= t[i][j - 1] /\ s[i - 1][j - 1] <= t[i - 1][j - 1]
      BY <1>4, <2>2
    <3>4. /\ s[i - 1][j] <= t[i - 1][j] + 0 /\ s[i][j - 1] <= t[i][j - 1] + 0
          /\ s[i - 1][j - 1] <= t[i - 1][j - 1] + 0
      <4>1. /\ s[i - 1][j] \in Nat /\ s[i][j - 1] \in Nat /\ s[i - 1][j - 1] \in Nat
            /\ t[i - 1][j] \in Nat /\ t[i][j - 1] \in Nat /\ t[i - 1][j - 1] \in Nat
        BY <2>1, <3>2 DEF Cell
      <4>2. \A x, y \in Nat : x <= y => x <= y + 0
        OBVIOUS
      <4> QED
        BY <3>3, <4>1, <4>2, Zenon
    <3>5. s[i][j] <= t[i][j] + 0
      BY <2>1, <3>1, <3>2, <3>4, SameLetter
    <3>6. s[i][j] <= t[i][j]
      BY <2>1, <3>5 DEF Cell
    <3> QED
      BY <2>2, <3>6
  <2>3. CASE i = k
    <3>1. s[i - 1][j] <= t[i - 1][j]
      BY <1>4, <2>3
    <3>2. t[i - 1][j] <= t[i][j] + 1
      BY CellAbove
    <3>3. s[i - 1][j] \in Nat /\ t[i - 1][j] \in Nat /\ t[i][j] \in Nat
      <4>1. i - 1 \in 0..Len(v) /\ j \in 0..Len(c)
        OBVIOUS
      <4> QED
        BY <2>1, <4>1 DEF Steps, Cell
    <3>4. \A p, q, r \in Nat : p <= q /\ q <= r + 1 => p <= r + 1
      OBVIOUS
    <3>5. s[i - 1][j] <= t[i][j] + 1
      BY <3>1, <3>2, <3>3, <3>4, Zenon
    <3> QED
      BY <2>3, <3>5
  <2>4. CASE i > k
    <3> DEFINE h == i - 1
    <3>1. h \in 1..Len(v) /\ v[h] = w[i]
      BY <2>4
    <3>2. Cell(s, v, c, h, j)
      <4> HIDE DEF h
      <4> QED
        BY <3>1, CellSteps
    <3>3. /\ s[h - 1][j] <= t[i - 1][j] + 1 /\ s[h][j - 1] <= t[i][j - 1] + 1
          /\ s[h - 1][j - 1] <= t[i - 1][j - 1] + 1
      BY <1>4, <2>4
    <3>4. s[h][j] <= t[i][j] + 1
      <4> HIDE DEF h
      <4> QED
        BY <2>1, <3>1, <3>2, <3>3, SameLetter
    <3> QED
      BY <2>4, <3>4
  <2> QED
    BY <2>2, <2>3, <2>4
<1>5. \A i \in 0..Len(w), j \in 0..Len(c) : <<i, j>> \in G
  <2>1. \A i \in 1..Len(w), j \in 1..Len(c) :
           <<i - 1, j>> \in G /\ <<i, j - 1>> \in G /\ <<i - 1, j - 1>> \in G => <<i, j>> \in G
    <3> SUFFICES ASSUME NEW i \in 1..Len(w), NEW j \in 1..Len(c),
                        <<i - 1, j>> \in G, <<i, j - 1>> \in G, <<i - 1, j - 1>> \in G
                 PROVE  <<i, j>> \in G
      OBVIOUS
    <3>1. /\ i - 1 \in 0..Len(w) /\ i \in 0..Len(w) /\ j - 1 \in 0..Len(c) /\ j \in 0..Len(c)
      OBVIOUS
    <3> HIDE DEF G, P
    <3> QED
      BY <1>1, <1>4, <3>1
  <2>2. \A i \in 1..Len(w) : i \in 0..Len(w)
    OBVIOUS
  <2>3. 0 \in 0..Len(w) /\ 0 \in 0..Len(c)
    OBVIOUS
  <2> HIDE DEF G, P
  <2>4. \A j \in 0..Len(c) : <<0, j>> \in G
    BY <1>1, <1>2, <2>3
  <2>5. \A i \in 1..Len(w) : <<i - 1, 0>> \in G => <<i, 0>> \in G
    BY <1>1, <1>3, <2>2, <2>3
  <2> QED
    BY <2>1, <2>4, <2>5, CellByCell
<1>6. P(Len(w), Len(c))
  <2>1. Len(w) \in 0..Len(w) /\ Len(c) \in 0..Len(c)
    OBVIOUS
  <2> HIDE DEF G, P
  <2> QED
    BY <1>1, <1>5, <2>1
<1> QED
  BY <1>6

LEMMA InsertionCosts ==
  ASSUME NEW v, NEW w, NEW c, Len(v) \in Nat, Len(w) \in Nat, Len(c) \in Nat,
         NEW k \in 1..Len(w) + 1, Len(v) = Len(w) + 1,
         \A x \in 1..Len(v) : x # k => v[x] = IF x < k THEN w[x] ELSE w[x - 1],
         NEW s, Steps(s, v, c), NEW t, Steps(t, w, c)
  PROVE  s[Len(v)][Len(c)] <= t[Len(w)][Len(c)] + 1
<1> DEFINE P(i, j) == /\ i < k => s[i][j] <= t[i][j]
                      /\ i >= k - 1 => s[i + 1][j] <= t[i][j] + 1
           G == {p \in (0..Len(w)) \X (0..Len(c)) : P(p[1], p[2])}
<1>1. \A i \in 0..Len(w), j \in 0..Len(c) : <<i, j>> \in G <=> P(i, j)
  OBVIOUS
<1>2. ASSUME NEW j \in 0..Len(c)
      PROVE  P(0, j)
  <2>1. s[0][j] = j /\ t[0][j] = j
    BY DEF Steps
  <2>2. s[1][j] <= s[0][j] + 1
    <3>1. 1 \in 1..Len(v) /\ 1 - 1 = 0
      OBVIOUS
    <3>2. s[1][j] <= s[1 - 1][j] + 1
      BY <3>1 DEF Steps
    <3> QED
      BY <3>1, <3>2
  <2> QED
    BY <2>1, <2>2
<1>3. ASSUME NEW i \in 1..Len(w)
      PROVE  P(i, 0)
  <2>1. i \in 0..Len(w) /\ i + 1 \in 0..Len(v) /\ i \in 0..Len(v)
    OBVIOUS
  <2>2. t[i][0] = i /\ s[i + 1][0] = i + 1 /\ s[i][0] = i
    BY <2>1 DEF Steps
  <2> QED
    BY <2>2
<1>4. ASSUME NEW i \in 1..Len(w), NEW j \in 1..Len(c), P(i - 1, j), P(i, j - 1), P(i - 1, j - 1)
      PROVE  P(i, j)
  <2>1. Cell(t, w, c, i, j)
    BY CellSteps
  <2>2. ASSUME i < k
        PROVE  s[i][j] <= t[i][j]
    <3>1. i \in 1..Len(v) /\ v[i] = w[i]
      BY <2>2
    <3>2. Cell(s, v, c, i, j)
      BY <3>1, CellSteps
    <3>3. s[i - 1][j] <= t[i - 1][j] /\ s[i][j - 1] <= t[i][j - 1] /\ s[i - 1][j - 1] <= t[i - 1][j - 1]
      BY <1>4, <2>2
    <3>4. /\ s[i - 1][j] <= t[i - 1][j] + 0 /\ s[i][j - 1] <= t[i][j - 1] + 0
          /\ s[i - 1][j - 1] <= t[i - 1][j - 1] + 0
      <4>1. /\ s[i - 1][j] \in Nat /\ s[i][j - 1] \in Nat /\ s[i - 1][j - 1] \in Nat
            /\ t[i - 1][j] \in Nat /\ t[i][j - 1] \in Nat /\ t[i - 1][j - 1] \in Nat
        BY <2>1, <3>2 DEF Cell
      <4>2. \A x, y \in Nat : x <= y => x <= y + 0
        OBVIOUS
      <4> QED
        BY <3>3, <4>1, <4>2, Zenon
    <3>5. s[i][j] <= t[i][j] + 0
      BY <2>1, <3>1, <3>2, <3>4, SameLetter
    <3> QED
      BY <2>1, <3>2, <3>5 DEF Cell
  <2>3. ASSUME i = k - 1
        PROVE  s[i + 1][j] <= t[i][j] + 1
    <3>1. s[i][j] <= t[i][j]
      BY <2>2, <2>3
    <3>2. i + 1 \in 1..Len(v) /\ (i + 1) - 1 = i /\ i \in 0..Len(v) /\ j \in 0..Len(c) /\ i + 1 \in 0..Len(v)
      OBVIOUS
    <3>3. s[i + 1][j] <= s[(i + 1) - 1][j] + 1
      BY <3>2 DEF Steps
    <3>4. s[i + 1][j] <= s[i][j] + 1
      BY <3>2, <3>3
    <3>5. s[i][j] \in Nat /\ s[i + 1][j] \in Nat /\ t[i][j] \in Nat
      BY <2>1, <3>2 DEF Steps, Cell
    <3>6. \A x, y, z \in Nat : x <= y /\ z <= x + 1 => z <= y + 1
      OBVIOUS
    <3> QED
      BY <3>1, <3>4, <3>5, <3>6, Zenon
  <2>4. ASSUME i >= k
        PROVE  s[i + 1][j] <= t[i][j] + 1
    <3> DEFINE h == i + 1
    <3>1. h \in 1..Len(v) /\ v[h] = w[i] /\ h - 1 = i
      BY <2>4
    <3>2. Cell(s, v, c, h, j)
      <4> HIDE DEF h
      <4> QED
        BY <3>1, CellSteps
    <3>3. /\ s[h - 1][j] <= t[i - 1][j] + 1 /\ s[h][j - 1] <= t[i][j - 1] + 1
          /\ s[h - 1][j - 1] <= t[i - 1][j - 1] + 1
      <4>1. (i - 1) + 1 = h - 1 /\ i - 1 >= k - 1 /\ i >= k - 1
        BY <2>4
      <4> QED
        BY <1>4, <4>1
    <3>4. s[h][j] <= t[i][j] + 1
      <4> HIDE DEF h
      <4> QED
        BY <2>1, <3>1, <3>2, <3>3, SameLetter
    <3> QED
      BY <3>4
  <2>5. i >= k - 1 => i = k - 1 \/ i >= k
    OBVIOUS
  <2> QED
    BY <2>2, <2>3, <2>4, <2>5
<1>5. \A i \in 0..Len(w), j \in 0..Len(c) : <<i, j>> \in G
  <2>1. \A i \in 1..Len(w), j \in 1..Len(c) :
           <<i - 1, j>> \in G /\ <<i, j - 1>> \in G /\ <<i - 1, j - 1>> \in G => <<i, j>> \in G
    <3> SUFFICES ASSUME NEW i \in 1..Len(w), NEW j \in 1..Len(c),
                        <<i - 1, j>> \in G, <<i, j - 1>> \in G, <<i - 1, j - 1>> \in G
                 PROVE  <<i, j>> \in G
      OBVIOUS
    <3>1. /\ i - 1 \in 0..Len(w) /\ i \in 0..Len(w) /\ j - 1 \in 0..Len(c) /\ j \in 0..Len(c)
      OBVIOUS
    <3> HIDE DEF G, P
    <3> QED
      BY <1>1, <1>4, <3>1
  <2>2. \A i \in 1..Len(w) : i \in 0..Len(w)
    OBVIOUS
  <2>3. 0 \in 0..Len(w) /\ 0 \in 0..Len(c)
    OBVIOUS
  <2> HIDE DEF G, P
  <2>4. \A j \in 0..Len(c) : <<0, j>> \in G
    BY <1>1, <1>2, <2>3
  <2>5. \A i \in 1..Len(w) : <<i - 1, 0>> \in G => <<i, 0>> \in G
    BY <1>1, <1>3, <2>2, <2>3
  <2> QED
    BY <2>1, <2>4, <2>5, CellByCell
<1>6. P(Len(w), Len(c))
  <2>1. Len(w) \in 0..Len(w) /\ Len(c) \in 0..Len(c)
    OBVIOUS
  <2> HIDE DEF G, P
  <2> QED
    BY <1>1, <1>5, <2>1
<1> QED
  BY <1>6

LEMMA ReplacementCosts ==
  ASSUME NEW v, NEW w, NEW c, Len(v) \in Nat, Len(w) \in Nat, Len(c) \in Nat,
         NEW k \in 1..Len(w), Len(v) = Len(w),
         \A x \in 1..Len(v) : x # k => v[x] = w[x],
         NEW s, Steps(s, v, c), NEW t, Steps(t, w, c)
  PROVE  s[Len(v)][Len(c)] <= t[Len(w)][Len(c)] + 1
<1> DEFINE P(i, j) == /\ i < k => s[i][j] <= t[i][j]
                      /\ i >= k => s[i][j] <= t[i][j] + 1
           G == {p \in (0..Len(w)) \X (0..Len(c)) : P(p[1], p[2])}
<1>1. \A i \in 0..Len(w), j \in 0..Len(c) : <<i, j>> \in G <=> P(i, j)
  OBVIOUS
<1>2. ASSUME NEW j \in 0..Len(c)
      PROVE  P(0, j)
  <2>1. s[0][j] = j /\ t[0][j] = j
    BY DEF Steps
  <2> QED
    BY <2>1
<1>3. ASSUME NEW i \in 1..Len(w)
      PROVE  P(i, 0)
  <2>1. i \in 0..Len(w) /\ i \in 0..Len(v)
    OBVIOUS
  <2>2. t[i][0] = i /\ s[i][0] = i
    BY <2>1 DEF Steps
  <2> QED
    BY <2>2
<1>4. ASSUME NEW i \in 1..Len(w), NEW j \in 1..Len(c), P(i - 1, j), P(i, j - 1), P(i - 1, j - 1)
      PROVE  P(i, j)
  <2>1. Cell(t, w, c, i, j)
    BY CellSteps
  <2>2. CASE i < k
    <3>1. i \in 1..Len(v) /\ v[i] = w[i]
      BY <2>2
    <3>2. Cell(s, v, c, i, j)
      BY <3>1, CellSteps
    <3>3. s[i - 1][j] <= t[i - 1][j] /\ s[i][j - 1] <= t[i][j - 1] /\ s[i - 1][j - 1] <= t[i - 1][j - 1]
      BY <1>4, <2>2
    <3>4. /\ s[i - 1][j] <= t[i - 1][j] + 0 /\ s[i][j - 1] <= t[i][j - 1] + 0
          /\ s[i - 1][j - 1] <= t[i - 1][j - 1] + 0
      <4>1. /\ s[i - 1][j] \in Nat /\ s[i][j - 1] \in Nat /\ s[i - 1][j - 1] \in Nat
            /\ t[i - 1][j] \in Nat /\ t[i][j - 1] \in Nat /\ t[i - 1][j - 1] \in Nat
        BY <2>1, <3>2 DEF Cell
      <4>2. \A x, y \in Nat : x <= y => x <= y + 0
        OBVIOUS
      <4> QED
        BY <3>3, <4>1, <4>2, Zenon
    <3>5. s[i][j] <= t[i][j] + 0
      BY <2>1, <3>1, <3>2, <3>4, SameLetter
    <3>6. s[i][j] <= t[i][j]
      <4>1. s[i][j] \in Nat /\ t[i][j] \in Nat
        BY <2>1, <3>2 DEF Cell
      <4>2. \A x, y \in Nat : x <= y + 0 => x <= y
        OBVIOUS
      <4> QED
        BY <3>5, <4>1, <4>2, Zenon
    <3> QED
      BY <2>2, <3>6
  <2> DEFINE t0 == t[i][j]
             t1 == t[i - 1][j]
             t2 == t[i][j - 1]
             t3 == t[i - 1][j - 1]
             s0 == s[i][j]
             s1 == s[i - 1][j]
             s2 == s[i][j - 1]
             s3 == s[i - 1][j - 1]
  <2>3. Cell(s, v, c, i, j)
    BY CellSteps
  <2>4. CASE i = k
    <3>1. /\ s0 \in Nat /\ s1 \in Nat /\ s2 \in Nat /\ s3 \in Nat
          /\ t0 \in Nat /\ t1 \in Nat /\ t2 \in Nat /\ t3 \in Nat
          /\ s0 <= s1 + 1 /\ s0 <= s2 + 1 /\ s0 <= s3 + 1
      BY <2>1, <2>3 DEF Cell
    <3>2. t0 = t1 + 1 \/ t0 = t2 + 1 \/ t0 = t3 + 1 \/ t0 = t3
      BY <2>1, Zenon DEF Cell
    <3>3. s1 <= t1 /\ s3 <= t3 /\ s2 <= t2 + 1
      BY <1>4, <2>4
    <3>4. s0 <= t0 + 1
      <4> HIDE DEF t0, t1, t2, t3, s0, s1, s2, s3
      <4> QED
        BY <3>1, <3>2, <3>3
    <3> QED
      BY <2>4, <3>4
  <2>5. CASE i > k
    <3>1. v[i] = w[i]
      BY <2>5
    <3>2. /\ s[i - 1][j] <= t[i - 1][j] + 1 /\ s[i][j - 1] <= t[i][j - 1] + 1
          /\ s[i - 1][j - 1] <= t[i - 1][j - 1] + 1
      BY <1>4, <2>5
    <3>3. s[i][j] <= t[i][j] + 1
      BY <2>1, <2>3, <3>1, <3>2, SameLetter
    <3> QED
      BY <2>5, <3>3
  <2> QED
    BY <2>2, <2>4, <2>5
<1>5. \A i \in 0..Len(w), j \in 0..Len(c) : <<i, j>> \in G
  <2>1. \A i \in 1..Len(w), j \in 1..Len(c) :
           <<i - 1, j>> \in G /\ <<i, j - 1>> \in G /\ <<i - 1, j - 1>> \in G => <<i, j>> \in G
    <3> SUFFICES ASSUME NEW i \in 1..Len(w), NEW j \in 1..Len(c),
                        <<i - 1, j>> \in G, <<i, j - 1>> \in G, <<i - 1, j - 1>> \in G
                 PROVE  <<i, j>> \in G
      OBVIOUS
    <3>1. /\ i - 1 \in 0..Len(w) /\ i \in 0..Len(w) /\ j - 1 \in 0..Len(c) /\ j \in 0..Len(c)
      OBVIOUS
    <3> HIDE DEF G, P
    <3> QED
      BY <1>1, <1>4, <3>1
  <2>2. \A i \in 1..Len(w) : i \in 0..Len(w)
    OBVIOUS
  <2>3. 0 \in 0..Len(w) /\ 0 \in 0..Len(c)
    OBVIOUS
  <2> HIDE DEF G, P
  <2>4. \A j \in 0..Len(c) : <<0, j>> \in G
    BY <1>1, <1>2, <2>3
  <2>5. \A i \in 1..Len(w) : <<i - 1, 0>> \in G => <<i, 0>> \in G
    BY <1>1, <1>3, <2>2, <2>3
  <2> QED
    BY <2>1, <2>4, <2>5, CellByCell
<1>6. P(Len(w), Len(c))
  <2>1. Len(w) \in 0..Len(w) /\ Len(c) \in 0..Len(c)
    OBVIOUS
  <2> HIDE DEF G, P
  <2> QED
    BY <1>1, <1>5, <2>1
<1> QED
  BY <1>6

LEMMA EditsAreWords ==
  ASSUME NEW A, NEW w \in Seq(A), NEW L \in SUBSET A, NEW v \in Edits(w, L)
  PROVE  v \in Seq(A)
<1>1. CASE \E k \in 1..Len(w) : v = RemoveAt(w, k)
  BY <1>1, RemovedLetter
<1>2. CASE \E k \in 1..Len(w), l \in L : v = ReplaceAt(w, k, l)
  BY <1>2, ReplacedLetter
<1>3. CASE \E k \in 1..Len(w) + 1, l \in L : v = InsertAt(w, k, l)
  BY <1>3, InsertedLetter
<1> QED
  BY <1>1, <1>2, <1>3 DEF Edits

\* An edit changes the distance to any other word by one at most.
LEMMA EditCostsOne ==
  ASSUME NEW A, NEW w \in Seq(A), NEW c \in Seq(A), NEW L \in SUBSET A, NEW v \in Edits(w, L)
  PROVE  Lev(v, c) <= Lev(w, c) + 1
<1>1. /\ v \in Seq(A) /\ w \in Seq(A) /\ c \in Seq(A)
      /\ Len(v) \in Nat /\ Len(w) \in Nat /\ Len(c) \in Nat
  BY EditsAreWords
<1>2. PICK t : Table(t, w, c) /\ Lev(w, c) = t[Len(w)][Len(c)]
  BY <1>1, LevIsInTable
<1>3. PICK s : Table(s, v, c) /\ Lev(v, c) = s[Len(v)][Len(c)]
  BY <1>1, LevIsInTable
<1>4. Steps(t, w, c) /\ Steps(s, v, c)
  BY <1>1, <1>2, <1>3, TableSteps
<1>5. ASSUME NEW k \in 1..Len(w), v = RemoveAt(w, k)
      PROVE  s[Len(v)][Len(c)] <= t[Len(w)][Len(c)] + 1
  <2>1. Len(v) = Len(w) - 1 /\ \A x \in 1..Len(w) - 1 : v[x] = IF x < k THEN w[x] ELSE w[x + 1]
    BY <1>5, RemovedLetter
  <2>2. \A x \in 1..Len(v) : v[x] = IF x < k THEN w[x] ELSE w[x + 1]
    BY <2>1
  <2> QED
    BY <1>1, <1>4, <2>1, <2>2, RemovalCosts
<1>6. ASSUME NEW k \in 1..Len(w), NEW l \in L, v = ReplaceAt(w, k, l)
      PROVE  s[Len(v)][Len(c)] <= t[Len(w)][Len(c)] + 1
  <2>1. Len(v) = Len(w) /\ \A x \in 1..Len(w) : v[x] = IF x = k THEN l ELSE w[x]
    <3>1. l \in A
      OBVIOUS
    <3>2. Len(ReplaceAt(w, k, l)) = Len(w)
      BY <3>1, ReplacedLetter
    <3>3. \A x \in 1..Len(w) : ReplaceAt(w, k, l)[x] = IF x = k THEN l ELSE w[x]
      BY <3>1, ReplacedLetter
    <3> QED
      BY <1>6, <3>2, <3>3
  <2>2. \A x \in 1..Len(v) : x # k => v[x] = w[x]
    BY <2>1
  <2> QED
    BY <1>1, <1>4, <2>1, <2>2, ReplacementCosts
<1>7. ASSUME NEW k \in 1..Len(w) + 1, NEW l \in L, v = InsertAt(w, k, l)
      PROVE  s[Len(v)][Len(c)] <= t[Len(w)][Len(c)] + 1
  <2>1. /\ Len(v) = Len(w) + 1
        /\ \A x \in 1..Len(w) + 1 : v[x] = IF x < k THEN w[x] ELSE IF x = k THEN l ELSE w[x - 1]
    BY <1>7, InsertedLetter
  <2>2. \A x \in 1..Len(v) : x # k => v[x] = IF x < k THEN w[x] ELSE w[x - 1]
    BY <2>1
  <2> QED
    BY <1>1, <1>4, <2>1, <2>2, InsertionCosts
<1>8. \/ \E k \in 1..Len(w) : v = RemoveAt(w, k)
      \/ \E k \in 1..Len(w), l \in L : v = ReplaceAt(w, k, l)
      \/ \E k \in 1..Len(w) + 1, l \in L : v = InsertAt(w, k, l)
  BY DEF Edits
<1> QED
  BY <1>2, <1>3, <1>5, <1>6, <1>7, <1>8

LEMMA LevIsNatural ==
  ASSUME NEW a, NEW b, Len(a) \in Nat, Len(b) \in Nat
  PROVE  Lev(a, b) \in Nat
<1>1. PICK t : Table(t, a, b) /\ Lev(a, b) = t[Len(a)][Len(b)]
  BY LevIsInTable
<1>2. Steps(t, a, b) /\ Len(a) \in 0..Len(a) /\ Len(b) \in 0..Len(b)
  BY <1>1, TableSteps
<1> QED
  BY <1>1, <1>2 DEF Steps

LEMMA LevOfItself ==
  ASSUME NEW w, Len(w) \in Nat
  PROVE  Lev(w, w) = 0
<1>1. PICK t : Table(t, w, w) /\ Lev(w, w) = t[Len(w)][Len(w)]
  BY LevIsInTable
<1>2. Steps(t, w, w)
  BY <1>1, TableSteps
<1> DEFINE S == {i \in Nat : i <= Len(w) => t[i][i] = 0}
<1>3. 0 \in S
  BY <1>2 DEF Steps
<1>4. ASSUME NEW i \in Nat, i \in S
      PROVE  i + 1 \in S
  <2> SUFFICES ASSUME i + 1 <= Len(w) PROVE t[i + 1][i + 1] = 0
    OBVIOUS
  <2> DEFINE q == i + 1
  <2>1. q \in 1..Len(w) /\ q - 1 = i
    OBVIOUS
  <2>2. Cell(t, w, w, q, q)
    <3> HIDE DEF q
    <3> QED
      BY <1>2, <2>1, CellSteps
  <2>3. t[i][i] = 0
    BY <1>4
  <2> HIDE DEF q
  <2>4. t[q][q] \in Nat /\ t[q][q] <= t[q - 1][q - 1]
    BY <2>2 DEF Cell
  <2>5. t[q][q] = 0
    BY <2>1, <2>3, <2>4
  <2> QED
    BY <2>5 DEF q
<1>5. \A i \in Nat : i \in S
  <2> HIDE DEF S
  <2> QED
    BY <1>3, <1>4, AllNaturals
<1> QED
  BY <1>1, <1>5

LEMMA SameWord ==
  ASSUME NEW A, NEW v \in Seq(A), NEW w \in Seq(A), Len(v) = Len(w),
         \A x \in 1..Len(w) : v[x] = w[x]
  PROVE  v = w
OBVIOUS

\* What an edit does, another one undoes.
LEMMA EditsAreUndone ==
  ASSUME NEW A, NEW w \in Seq(A), NEW L \in SUBSET A, NEW v \in Edits(w, L)
  PROVE  w \in Edits(v, Range(w))
<1>1. v \in Seq(A) /\ Len(v) \in Nat /\ Len(w) \in Nat
  BY EditsAreWords
<1>2. \A x \in 1..Len(w) : w[x] \in A /\ w[x] \in Range(w)
  BY DEF Range
<1>3. ASSUME NEW k \in 1..Len(w), v = RemoveAt(w, k)
      PROVE  w \in Edits(v, Range(w))
  <2>1. Len(v) = Len(w) - 1 /\ \A x \in 1..Len(w) - 1 : v[x] = IF x < k THEN w[x] ELSE w[x + 1]
    BY <1>3, RemovedLetter
  <2> DEFINE l == w[k]
             u == InsertAt(v, k, l)
  <2>2. k \in 1..Len(v) + 1 /\ l \in A /\ l \in Range(w)
    BY <1>2, <2>1
  <2>0. l = w[k]
    OBVIOUS
  <2> HIDE DEF l
  <2>3. /\ u \in Seq(A) /\ Len(u) = Len(v) + 1
        /\ \A x \in 1..Len(v) + 1 : u[x] = IF x < k THEN v[x] ELSE IF x = k THEN l ELSE v[x - 1]
    BY <1>1, <2>2, InsertedLetter
  <2>4. u \in Edits(v, Range(w))
    BY <2>2 DEF Edits
  <2> HIDE DEF u
  <2>5. Len(u) = Len(w)
    BY <2>1, <2>3
  <2>6. ASSUME NEW x \in 1..Len(w)
        PROVE  u[x] = w[x]
    <3>1. x \in 1..Len(v) + 1
      BY <2>1
    <3>2. CASE x < k
      <4>1. x \in 1..Len(w) - 1
        BY <3>2
      <4> QED
        BY <2>1, <2>3, <3>1, <3>2, <4>1
    <3>3. CASE x = k
      BY <2>3, <2>0, <3>1, <3>3
    <3>4. CASE x > k
      <4>1. x - 1 \in 1..Len(w) - 1 /\ ~ (x - 1 < k) /\ (x - 1) + 1 = x
        BY <3>4
      <4> QED
        BY <2>1, <2>3, <3>1, <3>4, <4>1
    <3> QED
      BY <3>2, <3>3, <3>4
  <2> QED
    BY <2>3, <2>4, <2>5, <2>6, SameWord
<1>4. ASSUME NEW k \in 1..Len(w), NEW l \in L, v = ReplaceAt(w, k, l)
      PROVE  w \in Edits(v, Range(w))
  <2>1. Len(v) = Len(w) /\ \A x \in 1..Len(w) : v[x] = IF x = k THEN l ELSE w[x]
    <3>1. l \in A
      OBVIOUS
    <3>2. Len(ReplaceAt(w, k, l)) = Len(w)
      BY <3>1, ReplacedLetter
    <3>3. \A x \in 1..Len(w) : ReplaceAt(w, k, l)[x] = IF x = k THEN l ELSE w[x]
      BY <3>1, ReplacedLetter
    <3> QED
      BY <1>4, <3>2, <3>3
  <2> DEFINE m == w[k]
             u == ReplaceAt(v, k, m)
  <2>2. k \in 1..Len(v) /\ m \in A /\ m \in Range(w)
    BY <1>2, <2>1
  <2>0. m = w[k]
    OBVIOUS
  <2> HIDE DEF m
  <2>3. /\ u \in Seq(A) /\ Len(u) = Len(v)
        /\ \A x \in 1..Len(v) : u[x] = IF x = k THEN m ELSE v[x]
    <3>1. v \in Seq(A) /\ k \in 1..Len(v) /\ m \in A
      BY <1>1, <2>2
    <3>2. ReplaceAt(v, k, m) \in Seq(A) /\ Len(ReplaceAt(v, k, m)) = Len(v)
      BY <3>1, ReplacedLetter
    <3>3. \A x \in 1..Len(v) : ReplaceAt(v, k, m)[x] = IF x = k THEN m ELSE v[x]
      BY <3>1, ReplacedLetter
    <3> QED
      BY <3>2, <3>3
  <2>4. u \in Edits(v, Range(w))
    BY <2>2 DEF Edits
  <2> HIDE DEF u
  <2>5. Len(u) = Len(w) /\ \A x \in 1..Len(w) : u[x] = w[x]
    BY <2>1, <2>3, <2>0
  <2> QED
    BY <2>3, <2>4, <2>5, SameWord
<1>5. ASSUME NEW k \in 1..Len(w) + 1, NEW l \in L, v = InsertAt(w, k, l)
      PROVE  w \in Edits(v, Range(w))
  <2>1. /\ Len(v) = Len(w) + 1
        /\ \A x \in 1..Len(w) + 1 : v[x] = IF x < k THEN w[x] ELSE IF x = k THEN l ELSE w[x - 1]
    BY <1>5, InsertedLetter
  <2> DEFINE u == RemoveAt(v, k)
  <2>2. k \in 1..Len(v)
    BY <2>1
  <2>3. /\ u \in Seq(A) /\ Len(u) = Len(v) - 1
        /\ \A x \in 1..Len(v) - 1 : u[x] = IF x < k THEN v[x] ELSE v[x + 1]
    BY <1>1, <2>2, RemovedLetter
  <2>4. u \in Edits(v, Range(w))
    BY <2>2 DEF Edits
  <2> HIDE DEF u
  <2>5. Len(u) = Len(w)
    BY <1>1, <2>1, <2>3
  <2>6. ASSUME NEW x \in 1..Len(w)
        PROVE  u[x] = w[x]
    <3>1. x \in 1..Len(v) - 1 /\ x \in 1..Len(w) + 1 /\ x + 1 \in 1..Len(w) + 1
      BY <2>1
    <3>2. CASE x < k
      BY <2>1, <2>3, <3>1, <3>2
    <3>3. CASE ~ (x < k)
      <4>1. ~ (x + 1 < k) /\ x + 1 # k /\ (x + 1) - 1 = x
        BY <3>3
      <4> QED
        BY <2>1, <2>3, <3>1, <3>3, <4>1
    <3> QED
      BY <3>2, <3>3
  <2> QED
    BY <2>3, <2>4, <2>5, <2>6, SameWord
<1>6. \/ \E k \in 1..Len(w) : v = RemoveAt(w, k)
      \/ \E k \in 1..Len(w), l \in L : v = ReplaceAt(w, k, l)
      \/ \E k \in 1..Len(w) + 1, l \in L : v = InsertAt(w, k, l)
  BY DEF Edits
<1> QED
  BY <1>3, <1>4, <1>5, <1>6

\* The first i letters of w and the first j of v are the same ...
Alike(w, v, i, j) == i = j /\ \A x \in 1..i : v[x] = w[x]

\* ... or an edit at k makes them so.
OneApart(w, v, i, j) ==
  \/ i = j /\ \E k \in 1..i : \A x \in 1..i : x # k => v[x] = w[x]
  \/ i = j + 1 /\ \E k \in 1..i : \A x \in 1..j : v[x] = IF x < k THEN w[x] ELSE w[x + 1]
  \/ j = i + 1 /\ \E k \in 1..j : \A x \in 1..j :
                     x # k => v[x] = IF x < k THEN w[x] ELSE w[x - 1]

LEMMA AlikeThenOneApart ==
  ASSUME NEW w, NEW v, NEW i \in Nat \ {0}, NEW j \in Nat \ {0},
         Alike(w, v, i - 1, j) \/ Alike(w, v, i, j - 1) \/ Alike(w, v, i - 1, j - 1)
  PROVE  OneApart(w, v, i, j)
<1>1. CASE Alike(w, v, i - 1, j)
  <2>1. i = j + 1 /\ i \in 1..i /\ \A x \in 1..j : v[x] = w[x] /\ x < i
    BY <1>1 DEF Alike
  <2>2. \A x \in 1..j : v[x] = IF x < i THEN w[x] ELSE w[x + 1]
    BY <2>1
  <2> QED
    BY <2>1, <2>2 DEF OneApart
<1>2. CASE Alike(w, v, i, j - 1)
  <2>1. j = i + 1 /\ j \in 1..j /\ \A x \in 1..j : x # j => v[x] = w[x] /\ x < j
    BY <1>2 DEF Alike
  <2>2. \A x \in 1..j : x # j => v[x] = IF x < j THEN w[x] ELSE w[x - 1]
    BY <2>1
  <2> QED
    BY <2>1, <2>2 DEF OneApart
<1>3. CASE Alike(w, v, i - 1, j - 1)
  <2>1. i = j /\ i \in 1..i /\ \A x \in 1..i : x # i => v[x] = w[x]
    BY <1>3 DEF Alike
  <2> QED
    BY <2>1 DEF OneApart
<1> QED
  BY <1>1, <1>2, <1>3

LEMMA SameLastLetter ==
  ASSUME NEW w, NEW v, NEW i \in Nat \ {0}, NEW j \in Nat \ {0}, w[i] = v[j]
  PROVE  /\ Alike(w, v, i - 1, j - 1) => Alike(w, v, i, j)
         /\ OneApart(w, v, i - 1, j - 1) => OneApart(w, v, i, j)
<1>1. ASSUME Alike(w, v, i - 1, j - 1)
      PROVE  Alike(w, v, i, j)
  <2>1. i = j /\ \A x \in 1..i - 1 : v[x] = w[x]
    BY <1>1 DEF Alike
  <2>2. \A x \in 1..i : x \in 1..i - 1 \/ x = i
    OBVIOUS
  <2> QED
    BY <2>1, <2>2 DEF Alike
<1>2. \A x \in 1..i : x \in 1..i - 1 \/ x = i
  OBVIOUS
<1>3. \A x \in 1..j : x \in 1..j - 1 \/ x = j
  OBVIOUS
<1>4. ASSUME i - 1 = j - 1, NEW k \in 1..i - 1, \A x \in 1..i - 1 : x # k => v[x] = w[x]
      PROVE  OneApart(w, v, i, j)
  <2>1. i = j /\ k \in 1..i
    BY <1>4
  <2>2. \A x \in 1..i : x # k => v[x] = w[x]
    BY <1>2, <1>4, <2>1
  <2> QED
    BY <2>1, <2>2 DEF OneApart
<1>5. ASSUME i - 1 = (j - 1) + 1, NEW k \in 1..i - 1,
             \A x \in 1..j - 1 : v[x] = IF x < k THEN w[x] ELSE w[x + 1]
      PROVE  OneApart(w, v, i, j)
  <2>1. i = j + 1 /\ k \in 1..i /\ ~ (j < k)
    BY <1>5
  <2>2. \A x \in 1..j : v[x] = IF x < k THEN w[x] ELSE w[x + 1]
    BY <1>3, <1>5, <2>1
  <2> QED
    BY <2>1, <2>2 DEF OneApart
<1>6. ASSUME j - 1 = (i - 1) + 1, NEW k \in 1..j - 1,
             \A x \in 1..j - 1 : x # k => v[x] = IF x < k THEN w[x] ELSE w[x - 1]
      PROVE  OneApart(w, v, i, j)
  <2>1. j = i + 1 /\ k \in 1..j /\ ~ (j < k) /\ j - 1 = i
    BY <1>6
  <2>2. \A x \in 1..j : x # k => v[x] = IF x < k THEN w[x] ELSE w[x - 1]
    BY <1>3, <1>6, <2>1
  <2> QED
    BY <2>1, <2>2 DEF OneApart
<1> QED
  BY <1>1, <1>4, <1>5, <1>6 DEF OneApart

LEMMA SmallDistance ==
  ASSUME NEW w, NEW v, Len(w) \in Nat, Len(v) \in Nat
  PROVE  /\ Lev(w, v) = 0 => Alike(w, v, Len(w), Len(v))
         /\ Lev(w, v) = 1 => Alike(w, v, Len(w), Len(v)) \/ OneApart(w, v, Len(w), Len(v))
<1>a. PICK t : Table(t, w, v) /\ Lev(w, v) = t[Len(w)][Len(v)]
  BY LevIsInTable
<1>b. Steps(t, w, v)
  BY <1>a, TableSteps
<1> DEFINE P(i, j) == /\ t[i][j] = 0 => Alike(w, v, i, j)
                      /\ t[i][j] = 1 => Alike(w, v, i, j) \/ OneApart(w, v, i, j)
           G == {p \in (0..Len(w)) \X (0..Len(v)) : P(p[1], p[2])}
<1>1. \A i \in 0..Len(w), j \in 0..Len(v) : <<i, j>> \in G <=> P(i, j)
  OBVIOUS
<1>2. ASSUME NEW j \in 0..Len(v)
      PROVE  P(0, j)
  <2>1. t[0][j] = j
    BY <1>b DEF Steps
  <2>2. j = 0 => Alike(w, v, 0, j)
    BY DEF Alike
  <2>3. j = 1 => OneApart(w, v, 0, j)
    <3>1. 1 \in 1..1 /\ \A x \in 1..1 : x = 1
      OBVIOUS
    <3> QED
      BY <3>1 DEF OneApart
  <2> QED
    BY <2>1, <2>2, <2>3
<1>3. ASSUME NEW i \in 1..Len(w)
      PROVE  P(i, 0)
  <2>1. i \in 0..Len(w)
    OBVIOUS
  <2>2. t[i][0] = i
    BY <1>b, <2>1 DEF Steps
  <2>3. i = 1 => OneApart(w, v, i, 0)
    <3>1. 1 \in 1..1 /\ 1..0 = {}
      OBVIOUS
    <3> QED
      BY <3>1 DEF OneApart
  <2> QED
    BY <2>2, <2>3
<1>4. ASSUME NEW i \in 1..Len(w), NEW j \in 1..Len(v), P(i - 1, j), P(i, j - 1), P(i - 1, j - 1)
      PROVE  P(i, j)
  <2>1. Cell(t, w, v, i, j)
    BY <1>b, CellSteps
  <2>2. /\ t[i][j] \in Nat /\ t[i - 1][j] \in Nat /\ t[i][j - 1] \in Nat /\ t[i - 1][j - 1] \in Nat
    BY <2>1 DEF Cell
  <2>3. i \in Nat \ {0} /\ j \in Nat \ {0}
    OBVIOUS
  <2>4. \A x \in Nat : x + 1 # 0 /\ (x + 1 = 1 => x = 0)
    OBVIOUS
  <2>5. CASE t[i][j] = t[i - 1][j] + 1
    <3>1. t[i][j] # 0 /\ (t[i][j] = 1 => t[i - 1][j] = 0)
      BY <2>2, <2>4, <2>5, Zenon
    <3> QED
      BY <1>4, <2>3, <3>1, AlikeThenOneApart
  <2>6. CASE t[i][j] = t[i][j - 1] + 1
    <3>1. t[i][j] # 0 /\ (t[i][j] = 1 => t[i][j - 1] = 0)
      BY <2>2, <2>4, <2>6, Zenon
    <3> QED
      BY <1>4, <2>3, <3>1, AlikeThenOneApart
  <2>7. CASE t[i][j] = t[i - 1][j - 1] + 1
    <3>1. t[i][j] # 0 /\ (t[i][j] = 1 => t[i - 1][j - 1] = 0)
      BY <2>2, <2>4, <2>7, Zenon
    <3> QED
      BY <1>4, <2>3, <3>1, AlikeThenOneApart
  <2>8. CASE w[i] = v[j] /\ t[i][j] = t[i - 1][j - 1]
    BY <1>4, <2>3, <2>8, SameLastLetter
  <2> QED
    BY <2>1, <2>5, <2>6, <2>7, <2>8 DEF Cell
<1>5. \A i \in 0..Len(w), j \in 0..Len(v) : <<i, j>> \in G
  <2>1. \A i \in 1..Len(w), j \in 1..Len(v) :
           <<i - 1, j>> \in G /\ <<i, j - 1>> \in G /\ <<i - 1, j - 1>> \in G => <<i, j>> \in G
    <3> SUFFICES ASSUME NEW i \in 1..Len(w), NEW j \in 1..Len(v),
                        <<i - 1, j>> \in G, <<i, j - 1>> \in G, <<i - 1, j - 1>> \in G
                 PROVE  <<i, j>> \in G
      OBVIOUS
    <3>1. /\ i - 1 \in 0..Len(w) /\ i \in 0..Len(w) /\ j - 1 \in 0..Len(v) /\ j \in 0..Len(v)
      OBVIOUS
    <3> HIDE DEF G, P
    <3> QED
      BY <1>1, <1>4, <3>1
  <2>2. \A i \in 1..Len(w) : i \in 0..Len(w)
    OBVIOUS
  <2>3. 0 \in 0..Len(w) /\ 0 \in 0..Len(v)
    OBVIOUS
  <2> HIDE DEF G, P
  <2>4. \A j \in 0..Len(v) : <<0, j>> \in G
    BY <1>1, <1>2, <2>3
  <2>5. \A i \in 1..Len(w) : <<i - 1, 0>> \in G => <<i, 0>> \in G
    BY <1>1, <1>3, <2>2, <2>3
  <2> QED
    BY <2>1, <2>4, <2>5, CellByCell
<1>6. P(Len(w), Len(v))
  <2>1. Len(w) \in 0..Len(w) /\ Len(v) \in 0..Len(v)
    OBVIOUS
  <2> HIDE DEF G, P
  <2> QED
    BY <1>1, <1>5, <2>1
<1> QED
  BY <1>a, <1>6

LEMMA RangesAreLetters ==
  ASSUME NEW A, NEW w \in Seq(A)
  PROVE  Range(w) \in SUBSET A /\ w \in Seq(Range(w))
         /\ \A x \in 1..Len(w) : w[x] \in Range(w)
BY DEF Range

LEMMA OneApartIsEdit ==
  ASSUME NEW A, NEW w \in Seq(A), NEW v \in Seq(A), OneApart(w, v, Len(w), Len(v))
  PROVE  v \in Edits(w, Range(v))
<1>1. Len(w) \in Nat /\ Len(v) \in Nat /\ \A x \in 1..Len(v) : v[x] \in A /\ v[x] \in Range(v)
  BY RangesAreLetters
<1>2. ASSUME Len(w) = Len(v), NEW k \in 1..Len(w), \A x \in 1..Len(w) : x # k => v[x] = w[x]
      PROVE  v \in Edits(w, Range(v))
  <2> DEFINE l == v[k]
             u == ReplaceAt(w, k, l)
  <2>1. l \in A /\ l \in Range(v) /\ l = v[k]
    BY <1>1, <1>2
  <2> HIDE DEF l
  <2>2. u \in Seq(A) /\ Len(u) = Len(w) /\ \A x \in 1..Len(w) : u[x] = IF x = k THEN l ELSE w[x]
    <3>1. l \in A /\ k \in 1..Len(w)
      BY <2>1
    <3>2. u \in Seq(A) /\ Len(u) = Len(w)
      BY <3>1, ReplacedLetter
    <3>3. \A x \in 1..Len(w) : u[x] = IF x = k THEN l ELSE w[x]
      BY <3>1, ReplacedLetter
    <3> QED
      BY <3>2, <3>3
  <2>3. u \in Edits(w, Range(v))
    BY <2>1 DEF Edits
  <2> HIDE DEF u
  <2>4. Len(v) = Len(u) /\ \A x \in 1..Len(u) : v[x] = u[x]
    BY <1>2, <2>1, <2>2
  <2> QED
    BY <2>2, <2>3, <2>4, SameWord
<1>3. ASSUME Len(w) = Len(v) + 1, NEW k \in 1..Len(w),
             \A x \in 1..Len(v) : v[x] = IF x < k THEN w[x] ELSE w[x + 1]
      PROVE  v \in Edits(w, Range(v))
  <2> DEFINE u == RemoveAt(w, k)
  <2>1. u \in Seq(A) /\ Len(u) = Len(w) - 1
        /\ \A x \in 1..Len(w) - 1 : u[x] = IF x < k THEN w[x] ELSE w[x + 1]
    BY RemovedLetter
  <2>2. u \in Edits(w, Range(v))
    BY DEF Edits
  <2> HIDE DEF u
  <2>3. Len(u) = Len(v) /\ Len(w) - 1 = Len(v)
    BY <1>1, <1>3, <2>1
  <2>4. \A x \in 1..Len(u) : v[x] = u[x]
    BY <1>3, <2>1, <2>3
  <2> QED
    BY <2>1, <2>2, <2>3, <2>4, SameWord
<1>4. ASSUME Len(v) = Len(w) + 1, NEW k \in 1..Len(v),
             \A x \in 1..Len(v) : x # k => v[x] = IF x < k THEN w[x] ELSE w[x - 1]
      PROVE  v \in Edits(w, Range(v))
  <2> DEFINE l == v[k]
             u == InsertAt(w, k, l)
  <2>1. l \in A /\ l \in Range(v) /\ l = v[k] /\ k \in 1..Len(w) + 1
    BY <1>1, <1>4
  <2> HIDE DEF l
  <2>2. /\ u \in Seq(A) /\ Len(u) = Len(w) + 1
        /\ \A x \in 1..Len(w) + 1 : u[x] = IF x < k THEN w[x] ELSE IF x = k THEN l ELSE w[x - 1]
    <3>1. l \in A /\ k \in 1..Len(w) + 1
      BY <2>1
    <3>2. u \in Seq(A) /\ Len(u) = Len(w) + 1
      BY <3>1, InsertedLetter
    <3>3. \A x \in 1..Len(w) + 1 : u[x] = IF x < k THEN w[x] ELSE IF x = k THEN l ELSE w[x - 1]
      BY <3>1, InsertedLetter
    <3> QED
      BY <3>2, <3>3
  <2>3. u \in Edits(w, Range(v))
    BY <2>1 DEF Edits
  <2> HIDE DEF u
  <2>4. Len(v) = Len(u)
    BY <1>4, <2>2
  <2>5. ASSUME NEW x \in 1..Len(u)
        PROVE  v[x] = u[x]
    <3>1. x \in 1..Len(w) + 1 /\ x \in 1..Len(v)
      BY <1>4, <2>4
    <3>2. CASE x = k
      BY <2>1, <2>2, <3>1, <3>2
    <3>3. CASE x # k
      BY <1>4, <2>2, <3>1, <3>3
    <3> QED
      BY <3>2, <3>3
  <2> QED
    BY <2>2, <2>3, <2>4, <2>5, SameWord
<1> QED
  BY <1>2, <1>3, <1>4 DEF OneApart

\* _lev counts edits: none, one, or two.
LEMMA LevCountsEdits ==
  ASSUME NEW A, NEW w \in Seq(A), NEW u \in Seq(A), NEW v \in Seq(A), NEW L \in SUBSET A,
         NEW M \in SUBSET A,
         v \in Edits(w, L) \/ (u \in Edits(w, M) /\ v \in Edits(u, L))
  PROVE  Lev(w, v) = (IF v = w THEN 0 ELSE IF v \in Edits(w, Range(v)) THEN 1 ELSE 2)
<1>1. Len(w) \in Nat /\ Len(u) \in Nat /\ Len(v) \in Nat
  OBVIOUS
<1>2. /\ Lev(w, v) \in Nat /\ Lev(u, v) \in Nat /\ Lev(v, v) = 0
      /\ Range(w) \in SUBSET A /\ Range(u) \in SUBSET A /\ Range(v) \in SUBSET A
  BY <1>1, LevIsNatural, LevOfItself, RangesAreLetters
<1>3. Lev(w, v) = 0 => v = w
  <2> SUFFICES ASSUME Lev(w, v) = 0 PROVE v = w
    OBVIOUS
  <2>1. Alike(w, v, Len(w), Len(v))
    BY <1>1, SmallDistance
  <2> QED
    BY <2>1, SameWord DEF Alike
<1>4. Lev(w, v) = 1 => v = w \/ v \in Edits(w, Range(v))
  <2> SUFFICES ASSUME Lev(w, v) = 1 PROVE v = w \/ v \in Edits(w, Range(v))
    OBVIOUS
  <2>1. Alike(w, v, Len(w), Len(v)) \/ OneApart(w, v, Len(w), Len(v))
    BY <1>1, SmallDistance
  <2>2. CASE Alike(w, v, Len(w), Len(v))
    BY <2>2, SameWord DEF Alike
  <2>3. CASE OneApart(w, v, Len(w), Len(v))
    BY <2>3, OneApartIsEdit
  <2> QED
    BY <2>1, <2>2, <2>3
<1>5. \A X \in SUBSET A : v \in Edits(w, X) => Lev(w, v) <= 1
  <2> SUFFICES ASSUME NEW X \in SUBSET A, v \in Edits(w, X) PROVE Lev(w, v) <= 1
    OBVIOUS
  <2>1. w \in Edits(v, Range(w))
    BY EditsAreUndone
  <2>2. Lev(w, v) <= Lev(v, v) + 1
    BY <1>2, <2>1, EditCostsOne
  <2> QED
    BY <1>2, <2>2
<1>6. Lev(w, v) <= 2
  <2>1. CASE v \in Edits(w, L)
    <3>1. Lev(w, v) <= 1
      BY <1>5, <2>1
    <3> QED
      BY <1>2, <3>1
  <2>2. CASE u \in Edits(w, M) /\ v \in Edits(u, L)
    <3>1. w \in Edits(u, Range(w)) /\ u \in Edits(v, Range(u))
      BY <2>2, EditsAreUndone
    <3>2. Lev(w, v) <= Lev(u, v) + 1
      BY <1>2, <3>1, EditCostsOne
    <3>3. Lev(u, v) <= Lev(v, v) + 1
      BY <1>2, <3>1, EditCostsOne
    <3> QED
      BY <1>2, <3>2, <3>3
  <2> QED
    BY <2>1, <2>2
<1>7. v = w => Lev(w, v) = 0
  BY <1>2
<1>8. v # w /\ v \in Edits(w, Range(v)) => Lev(w, v) = 1
  BY <1>2, <1>3, <1>5
<1>9. v # w /\ v \notin Edits(w, Range(v)) => Lev(w, v) = 2
  BY <1>2, <1>3, <1>4, <1>6
<1> QED
  BY <1>7, <1>8, <1>9

-----------------------------------------------------------------------------
(***************************************************************************)
(* The server: the search of the collection.                               *)
(***************************************************************************)
LEMMA NumbersBelow ==
  ASSUME NEW n \in Nat
  PROVE  IsFiniteSet(0..n - 1) /\ Cardinality(0..n - 1) = n
<1> DEFINE m == n - 1
<1>1. m \in Int /\ m + 1 = n /\ (0 > m <=> n = 0)
  OBVIOUS
<1>2. IsFiniteSet(0..m) /\ Cardinality(0..m) = IF 0 > m THEN 0 ELSE m - 0 + 1
  <2> HIDE DEF m
  <2> QED
    BY <1>1, FS_Interval
<1>3. (IF 0 > m THEN 0 ELSE m - 0 + 1) = n
  BY <1>1
<1> QED
  BY <1>2, <1>3

\* The elements before q in the order R, and those with fewer than M before them.
Ahead(F, R, q) == {o \in F : <<o, q>> \in R}
Foremost(F, R, M) == {q \in F : Cardinality(Ahead(F, R, q)) < M}

\* Of a finite set in a strict order the foremost are M, unless they are all.
LEMMA BestAreMany ==
  ASSUME NEW F, IsFiniteSet(F), NEW R, NEW M \in Nat,
         \A p \in F : <<p, p>> \notin R,
         \A p, q, r \in F : <<p, q>> \in R /\ <<q, r>> \in R => <<p, r>> \in R,
         \A p, q \in F : p = q \/ <<p, q>> \in R \/ <<q, p>> \in R,
         NEW x \in F, x \notin Foremost(F, R, M)
  PROVE  Cardinality(Foremost(F, R, M)) = M
<1> DEFINE Above(q) == {o \in F : <<o, q>> \in R}
           n == Cardinality(F)
           rank == [q \in F |-> Cardinality(Above(q))]
           Best == {q \in F : Cardinality(Above(q)) < M}
           places == [q \in Best |-> rank[q]]
<1>1. n \in Nat
  BY FS_CardinalityType
<1>2. ASSUME NEW q \in F
      PROVE  /\ IsFiniteSet(Above(q)) /\ Cardinality(Above(q)) \in 0..n - 1
  <2>1. Above(q) \subseteq F /\ q \notin Above(q)
    OBVIOUS
  <2> HIDE DEF Above
  <2>2. /\ IsFiniteSet(Above(q)) /\ Cardinality(Above(q)) <= n
        /\ Cardinality(Above(q)) = n => Above(q) = F
    BY <2>1, FS_Subset
  <2>3. Cardinality(Above(q)) \in Nat /\ Cardinality(Above(q)) # n
    BY <2>1, <2>2, FS_CardinalityType
  <2> QED
    BY <1>1, <2>2, <2>3
<1>3. ASSUME NEW p \in F, NEW q \in F, <<p, q>> \in R
      PROVE  rank[p] # rank[q]
  <2>1. Above(p) \subseteq Above(q) /\ p \in Above(q) /\ p \notin Above(p)
    BY <1>3
  <2>2. IsFiniteSet(Above(q))
    BY <1>2
  <2> HIDE DEF Above
  <2>3. Cardinality(Above(p)) # Cardinality(Above(q))
    BY <2>1, <2>2, FS_Subset
  <2> QED
    BY <2>3
<1>4. rank \in Injection(F, 0..n - 1)
  <2>1. rank \in [F -> 0..n - 1]
    BY <1>2
  <2>2. \A p, q \in F : rank[p] = rank[q] => p = q
    BY <1>3
  <2> HIDE DEF rank
  <2> QED
    BY <2>1, <2>2 DEF Injection, IsInjective
<1>5. rank \in Surjection(F, 0..n - 1)
  <2>1. IsFiniteSet(0..n - 1) /\ Cardinality(0..n - 1) = n
    BY <1>1, NumbersBelow
  <2> HIDE DEF rank
  <2> QED
    BY <1>4, <2>1, FS_Injection
<1>6. M \in 0..n - 1
  <2>1. Cardinality(Above(x)) \in 0..n - 1 /\ ~ (Cardinality(Above(x)) < M)
    BY <1>2 DEF Foremost, Ahead
  <2> HIDE DEF Above, n
  <2> QED
    BY <1>1, <2>1
<1>7. places \in Bijection(Best, 0..M - 1)
  <2>1. places \in [Best -> 0..M - 1]
    <3> SUFFICES ASSUME NEW q \in Best PROVE rank[q] \in 0..M - 1
      OBVIOUS
    <3>1. q \in F /\ rank[q] = Cardinality(Above(q)) /\ Cardinality(Above(q)) < M
      OBVIOUS
    <3>2. Cardinality(Above(q)) \in 0..n - 1
      BY <1>2, <3>1
    <3> HIDE DEF rank, Above, n
    <3> QED
      BY <1>1, <3>1, <3>2
  <2>2. \A p, q \in Best : places[p] = places[q] => p = q
    BY <1>3
  <2>3. ASSUME NEW y \in 0..M - 1
        PROVE  \E q \in Best : places[q] = y
    <3>1. y \in 0..n - 1 /\ y < M
      BY <1>1, <1>6
    <3>2. PICK q \in F : rank[q] = y
      <4> HIDE DEF rank
      <4> QED
        BY <1>5, <3>1 DEF Surjection
    <3>3. q \in Best
      BY <3>1, <3>2
    <3> QED
      BY <3>2, <3>3
  <2> HIDE DEF places, Best
  <2> QED
    BY <2>1, <2>2, <2>3 DEF Bijection, Injection, Surjection, IsInjective
<1>8. Cardinality(Best) = M
  <2>1. IsFiniteSet(0..M - 1) /\ Cardinality(0..M - 1) = M
    BY NumbersBelow
  <2>2. Best \subseteq F
    OBVIOUS
  <2> HIDE DEF places, Best
  <2>3. IsFiniteSet(Best)
    BY <2>2, FS_Subset
  <2>4. ExistsBijection(Best, 0..M - 1)
    BY <1>7 DEF ExistsBijection
  <2> QED
    BY <2>1, <2>3, <2>4, FS_Bijection
<1> QED
  BY <1>8 DEF Foremost, Ahead

\* What the search of the collection does not miss: a match among the newest, unless
\* it finds as many as it may.
LEMMA LookupFinds ==
  ASSUME NEW cs, NEW name, NEW maker, Len(cs) \in Nat, name # {},
         \A j \in 1..Len(cs) : Score(cs[j], name, maker) \in Nat,
         NEW i \in 1..Len(cs), i > Len(cs) - Recent, 2 * Score(cs[i], name, maker) >= Unit
  PROVE  i \in Lookup(cs, name, maker) \/ Cardinality(Lookup(cs, name, maker)) = MaxMatches
<1> DEFINE N == Len(cs)
           sc(j) == Score(cs[j], name, maker)
           compared == {j \in 1..N : j > N - Recent}
           scored == {<<sc(j), j>> : j \in compared}
           found == {p \in scored : 2 * p[1] >= Unit}
           before(p, q) == p[1] > q[1] \/ (p[1] = q[1] /\ p[2] > q[2])
           Best == {q \in found : Cardinality({o \in found : before(o, q)}) < MaxMatches}
           R == {pq \in found \X found : before(pq[1], pq[2])}
           x == <<sc(i), i>>
<1>1. Lookup(cs, name, maker) = {p[2] : p \in Best}
  BY DEF Lookup
<1>2. compared \subseteq 1..N /\ IsFiniteSet(compared) /\ \A j \in compared : sc(j) \in Nat
  <2>1. IsFiniteSet(1..N)
    BY FS_Interval
  <2>2. compared \subseteq 1..N
    OBVIOUS
  <2>3. IsFiniteSet(compared)
    <3> HIDE DEF compared, N
    <3> QED
      BY <2>1, <2>2, FS_Subset
  <2> QED
    BY <2>2, <2>3
<1> HIDE DEF sc
<1>3. \A p \in scored : p[2] \in compared /\ p[2] \in Nat /\ p[1] = sc(p[2]) /\ p[1] \in Nat
                        /\ p = <<p[1], p[2]>>
  <2> SUFFICES ASSUME NEW j \in compared
               PROVE  LET p == <<sc(j), j>> IN
                      p[2] \in compared /\ p[2] \in Nat /\ p[1] = sc(p[2]) /\ p[1] \in Nat
                        /\ p = <<p[1], p[2]>>
    OBVIOUS
  <2>1. sc(j) \in Nat /\ j \in Nat
    BY <1>2
  <2> QED
    BY <2>1
<1>4. IsFiniteSet(scored)
  <2> DEFINE f == [j \in compared |-> <<sc(j), j>>]
  <2>1. f \in Surjection(compared, scored)
    BY DEF Surjection
  <2> HIDE DEF f, compared, scored
  <2> QED
    BY <1>2, <2>1, FS_Surjection
<1>5. found \subseteq scored /\ IsFiniteSet(found)
  <2>1. found \subseteq scored
    OBVIOUS
  <2> HIDE DEF found, scored
  <2> QED
    BY <1>4, <2>1, FS_Subset
<1>6. x \in found
  <2>1. i \in compared /\ x \in scored
    OBVIOUS
  <2>2. x[1] = sc(i) /\ 2 * sc(i) >= Unit
    BY DEF sc
  <2> QED
    BY <2>1, <2>2
<1> HIDE DEF scored, compared
<1>7. \A p, q \in found : <<p, q>> \in R <=> before(p, q)
  <2> HIDE DEF found
  <2> QED
    OBVIOUS
<1> HIDE DEF R
<1>8. \A p \in found : p[1] \in Nat /\ p[2] \in Nat /\ p[2] \in compared /\ p[1] = sc(p[2]) /\ p = <<p[1], p[2]>>
  BY <1>3, <1>5
<1> HIDE DEF found
<1>9. /\ \A p \in found : <<p, p>> \notin R
      /\ \A p, q, r \in found : <<p, q>> \in R /\ <<q, r>> \in R => <<p, r>> \in R
      /\ \A p, q \in found : p = q \/ <<p, q>> \in R \/ <<q, p>> \in R
  <2>1. \A p \in found : ~ before(p, p)
    BY <1>8
  <2>2. ASSUME NEW p \in found, NEW q \in found, NEW r \in found, before(p, q), before(q, r)
        PROVE  before(p, r)
    <3>1. p[1] \in Nat /\ p[2] \in Nat /\ q[1] \in Nat /\ q[2] \in Nat /\ r[1] \in Nat /\ r[2] \in Nat
      BY <1>8
    <3> QED
      BY <2>2, <3>1
  <2>3. ASSUME NEW p \in found, NEW q \in found
        PROVE  p = q \/ before(p, q) \/ before(q, p)
    <3>1. p[1] \in Nat /\ p[2] \in Nat /\ q[1] \in Nat /\ q[2] \in Nat
      BY <1>8
    <3>2. p[1] = q[1] /\ p[2] = q[2] => p = q
      BY <1>8
    <3> QED
      BY <3>1, <3>2
  <2> HIDE DEF before
  <2> QED
    BY <1>7, <2>1, <2>2, <2>3
<1>10. \A q \in found : {o \in found : before(o, q)} = {o \in found : <<o, q>> \in R}
  <2> HIDE DEF before
  <2> QED
    BY <1>7
<1>11. Best = Foremost(found, R, MaxMatches)
  <2> HIDE DEF before
  <2> QED
    BY <1>10 DEF Foremost, Ahead
<1>12. Cardinality(Lookup(cs, name, maker)) = Cardinality(Best) /\ \A p \in Best : p[2] \in Lookup(cs, name, maker)
  <2> DEFINE g == [p \in Best |-> p[2]]
             T == Lookup(cs, name, maker)
  <2>1. Best \subseteq found
    OBVIOUS
  <2> HIDE DEF Best
  <2>2. IsFiniteSet(Best)
    BY <1>5, <2>1, FS_Subset
  <2>3. g \in Surjection(Best, T)
    BY <1>1 DEF Surjection
  <2>4. \A p, q \in Best : g[p] = g[q] => p = q
    <3> SUFFICES ASSUME NEW p \in Best, NEW q \in Best, p[2] = q[2] PROVE p = q
      OBVIOUS
    <3>1. p[1] = q[1] /\ p = <<p[1], p[2]>> /\ q = <<q[1], q[2]>>
      BY <1>8, <2>1
    <3> QED
      BY <3>1
  <2>5. g \in Injection(Best, T)
    <3> HIDE DEF g, T
    <3> QED
      BY <2>3, <2>4 DEF Surjection, Injection, IsInjective
  <2>6. Cardinality(T) = Cardinality(Best)
    <3> HIDE DEF g, T
    <3> QED
      BY <2>2, <2>3, <2>5, FS_Surjection
  <2> QED
    BY <1>1, <2>6
<1>13. CASE x \in Best
  <2>1. x[2] = i
    OBVIOUS
  <2> HIDE DEF Best
  <2> QED
    BY <1>12, <1>13, <2>1
<1>14. CASE x \notin Best
  <2>1. x \notin Foremost(found, R, MaxMatches)
    BY <1>11, <1>14
  <2>2. MaxMatches \in Nat
    BY MatchingAssumption
  <2> HIDE DEF x
  <2>3. Cardinality(Foremost(found, R, MaxMatches)) = MaxMatches
    BY <1>5, <1>6, <1>9, <2>1, <2>2, BestAreMany
  <2> QED
    BY <1>11, <1>12, <2>3
<1> QED
  BY <1>13, <1>14

\* The letters that occur.
Alphabet == Letters \cup UNION {Range(w) : w \in Words}

LEMMA NamesAreWords ==
  ASSUME NEW b \in Wines
  PROVE  IsFiniteSet(b.name) /\ b.name \subseteq Seq(Alphabet) /\ b.name \subseteq Words
<1>1. IsFiniteSet(b.name) /\ \A w \in b.name : w \in Seq(Range(w))
  BY ScansAssumption
<1>2. b.name \subseteq Words
  BY DEF Words
<1>3. ASSUME NEW w \in b.name
      PROVE  w \in Seq(Alphabet)
  <2>1. Range(w) \subseteq Alphabet
    BY <1>2 DEF Alphabet
  <2>2. w \in Seq(Range(w))
    BY <1>1
  <2> QED
    BY <2>1, <2>2
<1> QED
  BY <1>1, <1>2, <1>3

LEMMA TokensAreFew ==
  ASSUME NEW n, IsFiniteSet(n)
  PROVE  IsFiniteSet(Tokens(n))
<1> DEFINE S == {v \in n \ Weak : Len(v) >= 3}
           f == [w \in S |-> Singular(w)]
<1>1. S \subseteq n
  OBVIOUS
<1>2. Tokens(n) = {Singular(w) : w \in S}
  BY DEF Tokens
<1> HIDE DEF S
<1>3. f \in Surjection(S, Tokens(n))
  BY <1>2 DEF Surjection
<1> HIDE DEF f
<1> QED
  BY <1>1, <1>3, FS_Subset, FS_Surjection

LEMMA QuotientIsNatural ==
  ASSUME NEW x \in Nat, NEW d \in Nat \ {0}
  PROVE  x \div d \in Nat
OBVIOUS

LEMMA QuotientReaches ==
  ASSUME NEW x \in Nat, NEW d \in Nat \ {0}, NEW u \in Nat, d * u <= x
  PROVE  x \div d >= u
OBVIOUS

LEMMA QuotientIsLarge ==
  ASSUME NEW k \in Nat, NEW d \in Nat \ {0}, d <= k
  PROVE  (k * Unit) \div d >= Unit
<1>1. k * Unit \in Nat /\ d * Unit <= k * Unit /\ Unit \in Nat
  BY DEF Unit
<1> HIDE DEF Unit
<1> QED
  BY <1>1, QuotientReaches

LEMMA SimilarityOfNames ==
  ASSUME NEW m, NEW n, IsFiniteSet(m), IsFiniteSet(n)
  PROVE  /\ Similarity(m, n) \in Nat
         /\ LET matched == {t \in Tokens(m) : \E u \in Tokens(n) : TokensMatch(u, t)} IN
            /\ Tokens(m) # {} /\ Tokens(n) # {}
            /\ matched = Tokens(m) \/ Tokens(n) \subseteq matched
            => Similarity(m, n) >= Unit
<1> DEFINE ta == Tokens(m)
           tb == Tokens(n)
           matched == {t \in ta : \E u \in tb : TokensMatch(u, t)}
           x == Cardinality(ta)
           y == Cardinality(tb)
           k == Cardinality(matched)
           d == Least({x, y})
<1>1. Similarity(m, n) = IF ta = {} \/ tb = {} THEN 0 ELSE (k * Unit) \div d
  BY DEF Similarity
<1>2. matched \subseteq ta /\ IsFiniteSet(ta) /\ IsFiniteSet(tb)
  BY TokensAreFew
<1> HIDE DEF ta, tb, matched
<1>3. /\ x \in Nat /\ y \in Nat /\ k \in Nat
      /\ ta # {} => x # 0
      /\ tb # {} => y # 0
  BY <1>2, FS_CardinalityType, FS_EmptySet, FS_Subset
<1>4. d \in {x, y} /\ d <= x /\ d <= y
  BY <1>3, LeastOfTwo
<1>5. ta # {} /\ tb # {} => d \in Nat \ {0}
  BY <1>3, <1>4
<1>6. (matched = ta \/ tb \subseteq matched) => d <= k
  <2>1. matched = ta => x = k
    OBVIOUS
  <2>2. tb \subseteq matched => y <= k
    BY <1>2, FS_Subset
  <2> QED
    BY <1>3, <1>4, <2>1, <2>2
<1>7. Similarity(m, n) \in Nat
  <2> HIDE DEF k, d
  <2>1. k * Unit \in Nat
    BY <1>3 DEF Unit
  <2>2. ta # {} /\ tb # {} => (k * Unit) \div d \in Nat
    BY <1>5, <2>1, QuotientIsNatural
  <2> QED
    BY <1>1, <2>2
<1>8. ASSUME ta # {}, tb # {}, matched = ta \/ tb \subseteq matched
      PROVE  Similarity(m, n) >= Unit
  <2> HIDE DEF k, d
  <2>1. (k * Unit) \div d >= Unit
    BY <1>3, <1>5, <1>6, <1>8, QuotientIsLarge
  <2> QED
    BY <1>1, <1>8, <2>1
<1> QED
  BY <1>7, <1>8 DEF ta, tb, matched

\* The words that count in the comparison of names and that it takes as they are.
Plain(w) == Len(w) >= 4 /\ Singular(w) = w

LEMMA PlainTokens ==
  ASSUME NEW n, n \subseteq Seq(Alphabet), \A w \in n : w \in Weak \/ Plain(w)
  PROVE  Tokens(n) = n \ Weak
<1> DEFINE S == {v \in n \ Weak : Len(v) >= 3}
<1>1. Tokens(n) = {Singular(w) : w \in S}
  BY DEF Tokens
<1>2. ASSUME NEW w \in n \ Weak
      PROVE  Len(w) >= 3 /\ Singular(w) = w
  <2>1. Len(w) \in Nat /\ Len(w) >= 4 /\ Singular(w) = w
    BY DEF Plain
  <2> QED
    BY <2>1
<1>3. S = n \ Weak
  BY <1>2
<1> HIDE DEF S
<1>4. {Singular(w) : w \in S} = S
  BY <1>2, <1>3
<1> QED
  BY <1>1, <1>3, <1>4

\* A name as read: without a word, or with one that is an edit away instead.
Misspelt(n, word, as, r) ==
  /\ as = <<>> \/ (word \in n /\ as \in Edits(word, Letters))
  /\ r = (n \ {word}) \cup ({as} \ {<<>>})

\* One misread word, or a missing one, leaves a name as similar as a name can be.
LEMMA MisreadIsSimilar ==
  ASSUME NEW n, IsFiniteSet(n), n \subseteq Seq(Alphabet),
         NEW word, NEW as, NEW r, Misspelt(n, word, as, r),
         \A w \in n \cup r : w \in Weak \/ Plain(w),
         Tokens(n) # {}, Tokens(r) # {}
  PROVE  Similarity(n, r) >= Unit
<1>1. Letters \in SUBSET Alphabet
  BY DEF Alphabet
<1>2. as = <<>> \/ (word \in n /\ word \in Seq(Alphabet) /\ as \in Seq(Alphabet) /\ as \in Edits(word, Letters))
  <2> SUFFICES ASSUME as # <<>> PROVE word \in n /\ word \in Seq(Alphabet) /\ as \in Seq(Alphabet) /\ as \in Edits(word, Letters)
    OBVIOUS
  <2>1. word \in n /\ word \in Seq(Alphabet) /\ as \in Edits(word, Letters)
    BY DEF Misspelt
  <2> QED
    BY <1>1, <2>1, EditsAreWords
<1>3. r = (n \ {word}) \cup ({as} \ {<<>>})
  BY DEF Misspelt
<1>4. r \subseteq Seq(Alphabet) /\ IsFiniteSet(r)
  <2>1. r \subseteq Seq(Alphabet)
    BY <1>2, <1>3
  <2>2. IsFiniteSet(n \cup {as})
    BY FS_AddElement
  <2>3. r \subseteq n \cup {as}
    BY <1>3
  <2> QED
    BY <2>1, <2>2, <2>3, FS_Subset
<1>5. Tokens(n) = n \ Weak /\ Tokens(r) = r \ Weak
  <2>1. Tokens(n) = n \ Weak
    BY PlainTokens
  <2>2. Tokens(r) = r \ Weak
    BY <1>4, PlainTokens
  <2> QED
    BY <2>1, <2>2
<1> DEFINE matched == {t \in Tokens(n) : \E u \in Tokens(r) : TokensMatch(u, t)}
<1>6. \A t \in Tokens(n) : t \in Tokens(r) => t \in matched
  BY DEF TokensMatch
<1>7. CASE as = <<>> \/ as \in Weak
  <2>1. Tokens(r) \subseteq Tokens(n)
    BY <1>3, <1>5, <1>7
  <2>2. Tokens(r) \subseteq matched
    BY <1>6, <2>1
  <2> QED
    BY <1>4, <2>2, SimilarityOfNames
<1>8. CASE as # <<>> /\ as \notin Weak
  <2>1. as \in Tokens(r) /\ as \in r
    BY <1>3, <1>5, <1>8
  <2>0. as \in Seq(Alphabet) /\ word \in Seq(Alphabet)
    BY <1>2, <1>8
  <2>2. Len(as) \in Nat /\ Len(word) \in Nat /\ Len(as) >= 4 /\ Lev(as, word) <= 1 /\ Lev(as, word) \in Nat
    <3>1. Lev(as, word) <= Lev(word, word) + 1
      BY <1>1, <1>2, <1>8, EditCostsOne
    <3>2. Len(as) \in Nat /\ Len(word) \in Nat
      BY <2>0, LenProperties
    <3>3. Lev(word, word) = 0 /\ Lev(as, word) \in Nat
      BY <3>2, LevOfItself, LevIsNatural
    <3>4. Len(as) >= 4
      BY <1>8, <2>1 DEF Plain
    <3>5. Lev(as, word) <= 1
      <4> DEFINE d == Lev(as, word)
                 e == Lev(word, word)
      <4>1. d <= e + 1 /\ e = 0 /\ d \in Nat
        BY <3>1, <3>3
      <4> HIDE DEF d, e
      <4>2. d <= 1
        BY <4>1
      <4> QED
        BY <4>2 DEF d
    <3> QED
      BY <3>2, <3>3, <3>4, <3>5
  <2>3. TokensMatch(as, word)
    <3> DEFINE x == Len(as)
               y == Len(word)
               d == Lev(as, word)
               m == IF x > y THEN x ELSE y
    <3>1. x \in Nat /\ y \in Nat /\ x >= 4 /\ d <= 1 /\ d \in Nat
      BY <2>2
    <3>2. TokensMatch(as, word) <=> (as = word \/ (m >= 4 /\ d <= (IF m <= 6 THEN 1 ELSE 2)))
      BY DEF TokensMatch
    <3> HIDE DEF x, y, d
    <3>3. m >= 4 /\ d <= (IF m <= 6 THEN 1 ELSE 2)
      BY <3>1
    <3> QED
      BY <3>2, <3>3
  <2>4. ASSUME NEW t \in Tokens(n)
        PROVE  t \in matched
    <3>1. CASE t = word
      BY <2>1, <2>3, <3>1
    <3>2. CASE t # word
      <4>1. t \in Tokens(r)
        BY <1>3, <1>5, <3>2
      <4> QED
        BY <1>6, <4>1
    <3> QED
      BY <3>1, <3>2
  <2>5. matched = Tokens(n)
    BY <2>4
  <2> QED
    BY <1>4, <2>5, SimilarityOfNames
<1> QED
  BY <1>7, <1>8

LEMMA NameIsSimilar ==
  ASSUME NEW n, IsFiniteSet(n), Tokens(n) # {}
  PROVE  Similarity(n, n) >= Unit
<1> DEFINE matched == {t \in Tokens(n) : \E u \in Tokens(n) : TokensMatch(u, t)}
<1>1. matched = Tokens(n)
  BY DEF TokensMatch
<1> QED
  BY <1>1, SimilarityOfNames

LEMMA ScoreOfNames ==
  ASSUME NEW b \in Wines, NEW n, IsFiniteSet(n), NEW maker
  PROVE  /\ Score(b, n, maker) \in Nat
         /\ n # {} /\ Similarity(b.name, n) >= Unit => 2 * Score(b, n, maker) >= Unit
<1> DEFINE x == Similarity(b.name, n)
<1>1. x \in Nat
  BY NamesAreWords, SimilarityOfNames
<1> DEFINE likely == maker # {} /\ maker \subseteq b.maker
<1>2. Score(b, n, maker) = IF n = {} THEN (IF likely THEN Unit ELSE 0)
                           ELSE IF likely /\ x < 81 THEN 81 ELSE x
  BY DEF Score
<1> HIDE DEF x, likely
<1>3. Score(b, n, maker) \in Nat
  BY <1>1, <1>2 DEF Unit
<1>4. ASSUME n # {}, x >= Unit
      PROVE  2 * Score(b, n, maker) >= Unit
  <2>1. Score(b, n, maker) = x
    BY <1>1, <1>2, <1>4 DEF Unit
  <2> QED
    BY <1>1, <1>4, <2>1 DEF Unit
<1> QED
  BY <1>3, <1>4 DEF x

-----------------------------------------------------------------------------
(***************************************************************************)
(* The server: what holds in every state of a scan.                        *)
(***************************************************************************)
Stages == {"idle", "vision", "match", "web", "summary", "text", "answered", "failed"}

Requests == [stage: Stages, kind: {"front", "back", "typed"}, form: SUBSET Facts,
             attempts: 0..2, label: SUBSET Facts, clear: BOOLEAN, looked: 0..CellarSize,
             matches: SUBSET (1..CellarSize), web: BOOLEAN, net: SUBSET Facts,
             from: {"summary", "text", Unset}]

ScanTypes ==
  /\ settings \in [ai: BOOLEAN, web: BOOLEAN]
  /\ cellar \in Seq(Wines) /\ Len(cellar) <= CellarSize
  /\ bottle \in Wines \cup {Unset} /\ edits \in 0..MaxEdits
  /\ damage.word \in Words \cup {<<>>}
  /\ scan \in Requests
  /\ scan.matches \subseteq 1..scan.looked /\ scan.looked <= Len(cellar)

\* Nothing is known before a scan begins, and nothing is looked at too early.
Beginnings ==
  /\ scan.stage = "idle" => scan = NoScan /\ bottle = Unset /\ damage = Sound /\ edits = 0
  /\ scan.stage # "idle" => bottle \in Wines
  /\ scan.stage = "vision" => scan.label = {}
  /\ scan.stage \in {"idle", "vision", "match"} => scan.looked = 0
  /\ scan.stage \notin {"answered", "failed"} => scan.net = {}

\* What the light did.
Misreadings ==
  /\ edits = 0 => damage = Sound
  /\ edits # 0 => bottle \in Wines /\ damage.word \in bottle.name
  /\ edits = 1 => damage.as = <<>> \/ damage.as \in Edits(damage.word, Letters)
  /\ edits = 2 => damage.as = <<>> \/ \E u \in Edits(damage.word, Letters) : damage.as \in Edits(u, Letters)

ScanInv == ScanTypes /\ Beginnings /\ Misreadings /\ DuplicateIsWarned

\* What a step of a scan by itself leaves alone.
Onward(s, t) ==
  /\ t \in Requests
  /\ s.stage \in {"vision", "web", "summary", "text"}
  /\ t.kind = s.kind /\ t.form = s.form /\ t.looked = s.looked /\ t.matches = s.matches
  /\ t.stage # "idle"
  /\ t.stage = "vision" => s.stage = "vision"
  /\ t.stage = "match" => s.stage = "vision"
  /\ s.stage # "vision" \/ t.stage = "vision" => t.label = s.label
  /\ t.stage \notin {"answered", "failed"} => t.net = s.net

LEMMA RecalledAdvances ==
  ASSUME NEW s \in Requests, NEW r \in Requests, r.stage \in {"web", "summary"},
         NEW w \in BOOLEAN, s = r \/ s = [r EXCEPT !.web = w]
  PROVE  Onward(r, Recalled(s))
<1>1. /\ s.stage = r.stage /\ s.kind = r.kind /\ s.form = r.form /\ s.looked = r.looked
      /\ s.matches = r.matches /\ s.label = r.label /\ s.net = r.net
  BY DEF Requests
<1>2. CASE Recalled(s) = [s EXCEPT !.stage = "text", !.attempts = 0]
  <2>1. [s EXCEPT !.stage = "text", !.attempts = 0] \in Requests
    <3>1. \A k \in 0..2 : [s EXCEPT !.stage = "text", !.attempts = k] \in Requests
      BY DEF Requests, Stages
    <3> QED
      BY <3>1
  <2>2. Onward(r, [s EXCEPT !.stage = "text", !.attempts = 0])
    BY <1>1, <2>1 DEF Onward, Requests
  <2> QED
    BY <1>2, <2>2
<1>3. CASE Recalled(s) = [s EXCEPT !.stage = "answered"]
  BY <1>1, <1>3 DEF Onward, Requests, Stages
<1> QED
  BY <1>2, <1>3 DEF Recalled

LEMMA AfterAdvances ==
  ASSUME NEW s \in Requests, s.stage \in {"vision", "summary", "text"},
         NEW F \in SUBSET Facts, NEW clear \in BOOLEAN
  PROVE  Onward(s, After(s, F, clear))
<1>1. CASE s.stage = "vision"
  <2>1. After(s, F, clear) = [s EXCEPT !.label = F, !.clear = clear, !.attempts = 0, !.stage = "match"]
    BY <1>1 DEF After
  <2>2. [s EXCEPT !.label = F, !.clear = clear, !.attempts = 0, !.stage = "match"] \in Requests
    <3>1. \A k \in 0..2 : [s EXCEPT !.label = F, !.clear = clear, !.attempts = k, !.stage = "match"] \in Requests
      BY DEF Requests, Stages
    <3> QED
      BY <3>1
  <2>3. Onward(s, [s EXCEPT !.label = F, !.clear = clear, !.attempts = 0, !.stage = "match"])
    BY <1>1, <2>2 DEF Onward, Requests
  <2> QED
    BY <2>1, <2>3
<1>2. CASE s.stage = "summary" /\ F = {}
  <2>1. After(s, F, clear) = Recalled(s)
    BY <1>2 DEF After
  <2> QED
    BY <1>2, <2>1, RecalledAdvances
<1>3. CASE s.stage = "summary" /\ F # {}
  <2>1. After(s, F, clear) = [s EXCEPT !.net = F, !.from = "summary", !.stage = "answered"]
    BY <1>3 DEF After
  <2> QED
    BY <1>3, <2>1 DEF Onward, Requests, Stages
<1>4. CASE s.stage = "text"
  <2>1. After(s, F, clear) = [s EXCEPT !.net = F, !.from = "text", !.stage = "answered"]
    BY <1>4 DEF After
  <2> QED
    BY <1>4, <2>1 DEF Onward, Requests, Stages
<1> QED
  BY <1>1, <1>2, <1>3, <1>4

\* A scan by itself changes nothing else.
Rest == UNCHANGED <<settings, cellar, bottle, damage, edits>>

LEMMA StepAdvances ==
  ASSUME scan \in Requests, Step
  PROVE  Onward(scan, scan') /\ Rest
<1>1. ASSUME NEW F \in Replies, NEW clear \in BOOLEAN, Reply(F, clear)
      PROVE  Onward(scan, scan') /\ Rest
  <2>1. F \in SUBSET Facts /\ scan.stage \in {"vision", "summary", "text"}
        /\ scan' = After(scan, F, clear) /\ Rest
    BY <1>1, ScansAssumption DEF Reply, Asking, Go, Rest
  <2> QED
    BY <2>1, AfterAdvances
<1>2. ASSUME Refused
      PROVE  Onward(scan, scan') /\ Rest
  <2>1. {} \in SUBSET Facts /\ FALSE \in BOOLEAN /\ scan.stage \in {"vision", "summary", "text"}
        /\ scan' = After(scan, {}, FALSE) /\ Rest
    BY <1>2 DEF Refused, Asking, Go, Rest
  <2> QED
    BY <2>1, AfterAdvances
<1>3. ASSUME Overloaded
      PROVE  Onward(scan, scan') /\ Rest
  <2>1. {} \in SUBSET Facts /\ FALSE \in BOOLEAN /\ scan.stage \in {"vision", "summary", "text"} /\ Rest
    BY <1>3 DEF Overloaded, Asking, Go, Rest
  <2>2. CASE scan.attempts < 2
    <3>1. scan' = [scan EXCEPT !.attempts = @ + 1]
      BY <1>3, <2>2 DEF Overloaded, Go
    <3> QED
      BY <2>1, <2>2, <3>1 DEF Onward, Requests, Stages
  <2>3. CASE ~ (scan.attempts < 2)
    <3>1. scan' = After(scan, {}, FALSE)
      BY <1>3, <2>3 DEF Overloaded, Go
    <3> QED
      BY <2>1, <3>1, AfterAdvances
  <2> QED
    BY <2>2, <2>3
<1>4. ASSUME Odd
      PROVE  Onward(scan, scan') /\ Rest
  <2>1. scan.stage \in {"vision", "web", "summary", "text"} /\ Rest
        /\ scan' = [scan EXCEPT !.stage = "failed"]
    BY <1>4 DEF Odd, Asking, Go, Rest
  <2> QED
    BY <2>1 DEF Onward, Requests, Stages
<1>5. ASSUME NEW found \in BOOLEAN, Search(found)
      PROVE  Onward(scan, scan') /\ Rest
  <2>1. scan.stage = "web" /\ Rest
    BY <1>5 DEF Search, Go, Rest
  <2>2. CASE found /\ settings.ai
    <3>1. scan' = [scan EXCEPT !.web = TRUE, !.stage = "summary"]
      BY <1>5, <2>2 DEF Search, Go
    <3> QED
      BY <2>1, <3>1 DEF Onward, Requests, Stages
  <2>3. CASE ~ (found /\ settings.ai)
    <3> DEFINE s == [scan EXCEPT !.web = found]
    <3>1. scan' = Recalled(s)
      BY <1>5, <2>3 DEF Search, Go
    <3>2. s \in Requests
      BY DEF Requests
    <3>3. Onward(scan, Recalled(s))
      BY <2>1, <3>2, RecalledAdvances
    <3> QED
      BY <2>1, <3>1, <3>3
  <2> QED
    BY <2>2, <2>3
<1> QED
  BY <1>1, <1>2, <1>3, <1>4, <1>5 DEF Step

\* What was read is good enough to find the wine by ...
Readable ==
  /\ scan.kind = "front" /\ edits <= 1
  /\ Name(scan) # {} /\ Tokens(bottle.name) # {} /\ Tokens(Reading) # {}
  /\ \A w \in bottle.name \cup Reading : w \in Weak \/ Plain(w)

Findable == scan.stage \notin {"idle", "vision", "match"} /\ Readable

\* ... and it is found, if it is one of the newest.
Found == \A i \in 1..scan.looked :
           i > scan.looked - Recent /\ cellar[i].name = bottle.name =>
             i \in scan.matches \/ Cardinality(scan.matches) = MaxMatches

LEMMA WarnedIfFindable == DuplicateIsWarned <=> (Findable => Found)
BY DEF DuplicateIsWarned, Warned, Findable, Readable, Found, Plain

LEMMA WarnedIfFindableNext == DuplicateIsWarned' <=> (Findable' => Found')
BY DEF DuplicateIsWarned, Warned, Findable, Readable, Found, Plain, Reading, Name

LEMMA LookupIsInTheCollection ==
  ASSUME NEW cs, NEW name, NEW maker, Len(cs) \in Nat
  PROVE  Lookup(cs, name, maker) \subseteq 1..Len(cs)
<1> DEFINE N == Len(cs)
           compared == IF name # {} THEN {i \in 1..N : i > N - Recent} ELSE 1..N
           scored == {<<Score(cs[i], name, maker), i>> : i \in compared}
           found == {p \in scored : 2 * p[1] >= Unit}
           before(p, q) == p[1] > q[1] \/ (p[1] = q[1] /\ p[2] > q[2])
           Best == {q \in found : Cardinality({o \in found : before(o, q)}) < MaxMatches}
<1>1. Lookup(cs, name, maker) = {p[2] : p \in Best}
  BY DEF Lookup
<1>2. \A p \in scored : p[2] \in 1..N
  OBVIOUS
<1>3. Best \subseteq scored
  OBVIOUS
<1> HIDE DEF Best, scored
<1> QED
  BY <1>1, <1>2, <1>3

LEMMA NameIsRead ==
  ASSUME ScanTypes, Misreadings, bottle \in Wines, Readable
  PROVE  /\ IsFiniteSet(Name(scan)) /\ Name(scan) # {}
         /\ Similarity(bottle.name, Name(scan)) >= Unit
<1>1. /\ IsFiniteSet(bottle.name) /\ bottle.name \subseteq Seq(Alphabet)
  BY NamesAreWords
<1>2. /\ Tokens(bottle.name) # {} /\ Tokens(Reading) # {} /\ Name(scan) # {}
      /\ \A w \in bottle.name \cup Reading : w \in Weak \/ Plain(w)
      /\ edits \in {0, 1}
  BY DEF Readable, ScanTypes
<1>3. IsFiniteSet(Reading)
  <2>1. IsFiniteSet(bottle.name \cup {damage.as})
    BY <1>1, FS_AddElement
  <2>2. Reading \subseteq bottle.name \cup {damage.as}
    BY DEF Reading
  <2> QED
    BY <2>1, <2>2, FS_Subset
<1>4. Misspelt(bottle.name, damage.word, damage.as, Reading)
  <2>1. damage.as = <<>> \/ (damage.word \in bottle.name /\ damage.as \in Edits(damage.word, Letters))
    BY <1>2 DEF Misreadings, Sound
  <2> QED
    BY <2>1 DEF Misspelt, Reading
<1>5. Similarity(bottle.name, Reading) >= Unit
  BY <1>1, <1>2, <1>4, MisreadIsSimilar
<1>6. Similarity(bottle.name, bottle.name) >= Unit
  BY <1>1, <1>2, NameIsSimilar
<1>7. Name(scan) = bottle.name \/ Name(scan) = Reading
  BY <1>2 DEF Name
<1> QED
  BY <1>1, <1>2, <1>3, <1>5, <1>6, <1>7

LEMMA ScanInvInit == SInit => ScanInv
<1> SUFFICES ASSUME SInit PROVE ScanInv
  OBVIOUS
<1> USE DEF SInit
<1>1. NoScan \in Requests
  <2>1. 0 \in 0..2 /\ 0 \in 0..CellarSize
    BY ScansAssumption
  <2>2. \A k \in 0..2, l \in 0..CellarSize :
          [stage |-> "idle", kind |-> "front", form |-> {}, attempts |-> k, label |-> {},
           clear |-> FALSE, looked |-> l, matches |-> {}, web |-> FALSE, net |-> {},
           from |-> Unset] \in Requests
    BY DEF Requests, Stages
  <2> QED
    BY <2>1, <2>2 DEF NoScan
<1>2. NoScan.stage = "idle" /\ NoScan.looked = 0 /\ NoScan.matches = {} /\ NoScan.net = {}
  BY DEF NoScan
<1>3. ScanTypes
  <2>1. cellar \in Seq(Wines) /\ Len(cellar) = 0 /\ 0 <= CellarSize
    BY ScansAssumption, EmptySeq
  <2>2. edits \in 0..MaxEdits /\ damage.word \in Words \cup {<<>>}
    BY ScansAssumption DEF Sound
  <2>3. {} \subseteq 1..0
    OBVIOUS
  <2> QED
    BY <1>1, <1>2, <2>1, <2>2, <2>3 DEF ScanTypes
<1>4. Beginnings
  BY <1>2 DEF Beginnings
<1>5. Misreadings
  BY DEF Misreadings
<1>6. DuplicateIsWarned
  <2>1. ~ Findable
    BY <1>2 DEF Findable
  <2> QED
    BY <2>1, WarnedIfFindable
<1> QED
  BY <1>3, <1>4, <1>5, <1>6 DEF ScanInv

LEMMA BeginKeepsScanInv ==
  ASSUME ScanInv, NEW b \in Wines, NEW given \in Forms, NEW clear \in BOOLEAN,
         NEW kind \in {"front", "back", "typed"}, Begin(b, given, kind, clear)
  PROVE  ScanInv'
<1> DEFINE stage == IF kind = "typed" THEN "web" ELSE IF settings.ai THEN "vision" ELSE "match"
<1>1. /\ scan.stage = "idle" /\ scan = NoScan /\ damage = Sound /\ edits = 0 /\ bottle' = b
      /\ scan' = [NoScan EXCEPT !.form = given, !.kind = kind, !.clear = clear, !.stage = stage]
      /\ settings' = settings /\ cellar' = cellar /\ damage' = damage /\ edits' = edits
  BY DEF ScanInv, Beginnings, Begin
<1>2. stage \in {"web", "vision", "match"} /\ (stage = "web" <=> kind = "typed")
  OBVIOUS
<1> HIDE DEF stage
<1>3. /\ scan'.stage = stage /\ scan'.kind = kind /\ scan'.looked = 0 /\ scan'.matches = {}
      /\ scan'.label = {} /\ scan'.net = {}
  BY <1>1 DEF NoScan
<1>4. scan' \in Requests
  <2>1. scan \in Requests /\ given \in SUBSET Facts
    BY ScansAssumption DEF ScanInv, ScanTypes
  <2>2. stage \in Stages
    BY <1>2 DEF Stages
  <2>3. [scan EXCEPT !.form = given, !.kind = kind, !.clear = clear, !.stage = stage] \in Requests
    BY <2>1, <2>2 DEF Requests
  <2> QED
    BY <1>1, <2>3
<1>5. ScanTypes'
  BY <1>1, <1>3, <1>4 DEF ScanInv, ScanTypes
<1>6. Beginnings'
  BY <1>1, <1>2, <1>3 DEF Beginnings
<1>7. Misreadings'
  BY <1>1 DEF Misreadings
<1>8. DuplicateIsWarned'
  <2>1. ~ Findable'
    BY <1>2, <1>3 DEF Findable, Readable
  <2> QED
    BY <2>1, WarnedIfFindableNext
<1> QED
  BY <1>5, <1>6, <1>7, <1>8 DEF ScanInv

LEMMA StoreKeepsScanInv ==
  ASSUME ScanInv, NEW b \in Wines, Store(b)
  PROVE  ScanInv'
<1>1. /\ Len(cellar) < CellarSize /\ cellar' = Append(cellar, b)
      /\ settings' = settings /\ bottle' = bottle /\ damage' = damage /\ edits' = edits /\ scan' = scan
  BY DEF Store
<1>2. /\ cellar \in Seq(Wines) /\ Len(cellar) \in Nat /\ CellarSize \in Nat
      /\ scan \in Requests /\ scan.looked <= Len(cellar)
  BY ScansAssumption, LenProperties DEF ScanInv, ScanTypes
<1>3. cellar' \in Seq(Wines) /\ Len(cellar') = Len(cellar) + 1
      /\ \A i \in 1..Len(cellar) : cellar'[i] = cellar[i]
  BY <1>1, <1>2, AppendProperties
<1>4. scan.looked \in Nat
  BY <1>2 DEF Requests
<1>5. ScanTypes'
  <2>1. Len(cellar') <= CellarSize /\ scan.looked <= Len(cellar')
    BY <1>1, <1>2, <1>3, <1>4
  <2> QED
    BY <1>1, <1>3, <2>1 DEF ScanInv, ScanTypes
<1>6. Beginnings'
  BY <1>1 DEF ScanInv, Beginnings
<1>7. Misreadings'
  BY <1>1 DEF ScanInv, Misreadings
<1>8. DuplicateIsWarned'
  <2>1. Findable' <=> Findable
    BY <1>1 DEF Findable, Readable, Name, Reading
  <2>2. \A i \in 1..scan.looked : cellar'[i] = cellar[i]
    BY <1>2, <1>3, <1>4
  <2>3. Found => Found'
    BY <1>1, <2>2 DEF Found
  <2>4. Findable => Found
    BY WarnedIfFindable DEF ScanInv
  <2> QED
    BY <2>1, <2>3, <2>4, WarnedIfFindableNext
<1> QED
  BY <1>5, <1>6, <1>7, <1>8 DEF ScanInv

LEMMA MisreadKeepsScanInv ==
  ASSUME ScanInv, NEW w \in Words, NEW v, Misread(w, v)
  PROVE  ScanInv'
<1>1. /\ scan.stage = "vision" /\ edits < MaxEdits
      /\ IF edits = 0 THEN w \in bottle.name ELSE w = damage.word /\ damage.as # <<>>
      /\ v \in {<<>>} \cup Edits(IF edits = 0 THEN w ELSE damage.as, Letters)
      /\ damage' = [word |-> w, as |-> v] /\ edits' = edits + 1
      /\ settings' = settings /\ bottle' = bottle /\ cellar' = cellar /\ scan' = scan
  BY DEF Misread
<1>2. /\ edits \in Nat /\ MaxEdits \in Nat /\ bottle \in Wines
      /\ damage'.word = w /\ damage'.as = v
  BY <1>1, ScansAssumption DEF ScanInv, ScanTypes, Beginnings
<1>3. ScanTypes'
  <2>1. edits' \in 0..MaxEdits
    BY <1>1, <1>2
  <2> QED
    BY <1>1, <1>2, <2>1 DEF ScanInv, ScanTypes
<1>4. Beginnings'
  BY <1>1 DEF ScanInv, Beginnings
<1>5. Misreadings'
  <2>1. CASE edits = 0
    <3>1. w \in bottle.name /\ (v = <<>> \/ v \in Edits(w, Letters)) /\ edits' = 1
      BY <1>1, <2>1
    <3> QED
      BY <1>1, <1>2, <3>1 DEF Misreadings
  <2>2. CASE edits = 1
    <3>1. /\ w = damage.word /\ damage.as # <<>> /\ (v = <<>> \/ v \in Edits(damage.as, Letters))
          /\ edits' = 2 /\ w \in bottle.name /\ damage.as \in Edits(w, Letters)
      BY <1>1, <2>2 DEF ScanInv, Misreadings
    <3> QED
      BY <1>1, <1>2, <3>1 DEF Misreadings
  <2>3. CASE edits \notin {0, 1}
    <3>1. edits' \notin {0, 1, 2} /\ w \in bottle.name
      BY <1>1, <1>2, <2>3 DEF ScanInv, Misreadings
    <3> QED
      BY <1>1, <1>2, <3>1 DEF Misreadings
  <2> QED
    BY <2>1, <2>2, <2>3
<1>6. DuplicateIsWarned'
  <2>1. ~ Findable'
    BY <1>1 DEF Findable
  <2> QED
    BY <2>1, WarnedIfFindableNext
<1> QED
  BY <1>3, <1>4, <1>5, <1>6 DEF ScanInv

LEMMA MatchKeepsScanInv ==
  ASSUME ScanInv, Match
  PROVE  ScanInv'
<1> DEFINE m == IF scan.kind = "back" THEN {} ELSE Lookup(cellar, Name(scan), Maker(scan))
<1>1. /\ scan.stage = "match"
      /\ scan' = [scan EXCEPT !.stage = "web", !.looked = Len(cellar), !.matches = m]
      /\ settings' = settings /\ bottle' = bottle /\ cellar' = cellar /\ damage' = damage /\ edits' = edits
  BY DEF Match, Searched
<1>2. /\ cellar \in Seq(Wines) /\ Len(cellar) \in Nat /\ Len(cellar) <= CellarSize
      /\ scan \in Requests /\ bottle \in Wines /\ CellarSize \in Nat
      /\ \A i \in 1..Len(cellar) : cellar[i] \in Wines
  <2>1. cellar \in Seq(Wines) /\ Len(cellar) <= CellarSize /\ scan \in Requests
    BY DEF ScanInv, ScanTypes
  <2>2. Len(cellar) \in Nat /\ \A i \in 1..Len(cellar) : cellar[i] \in Wines
    BY <2>1, LenProperties, ElementOfSeq
  <2>3. bottle \in Wines
    BY <1>1 DEF ScanInv, Beginnings
  <2> QED
    BY <2>1, <2>2, <2>3, ScansAssumption
<1>3. m \subseteq 1..Len(cellar)
  <2>1. Lookup(cellar, Name(scan), Maker(scan)) \subseteq 1..Len(cellar)
    BY <1>2, LookupIsInTheCollection
  <2> QED
    BY <2>1
<1>4. m \subseteq 1..CellarSize /\ Len(cellar) \in 0..CellarSize
  BY <1>2, <1>3
<1>5. m = {} \/ m = Lookup(cellar, Name(scan), Maker(scan))
  OBVIOUS
<1>6. scan.kind = "front" => m = Lookup(cellar, Name(scan), Maker(scan))
  OBVIOUS
<1> HIDE DEF m
<1>7. /\ scan' \in Requests
      /\ scan'.stage = "web" /\ scan'.looked = Len(cellar) /\ scan'.matches = m
      /\ scan'.kind = scan.kind /\ scan'.form = scan.form /\ scan'.label = scan.label
      /\ scan'.net = scan.net
  BY <1>1, <1>2, <1>4 DEF Requests, Stages
<1>8. ScanTypes'
  BY <1>1, <1>2, <1>3, <1>7 DEF ScanInv, ScanTypes
<1>9. Beginnings'
  BY <1>1, <1>7 DEF ScanInv, Beginnings
<1>10. Misreadings'
  BY <1>1 DEF ScanInv, Misreadings
<1>11. ASSUME Findable'
       PROVE  Found'
  <2> DEFINE name == Name(scan)
             maker == Maker(scan)
  <2>1. Readable
    BY <1>1, <1>7, <1>11 DEF Findable, Readable, Name, Reading
  <2>2. IsFiniteSet(name) /\ name # {} /\ Similarity(bottle.name, name) >= Unit /\ scan.kind = "front"
    <3>1. ScanTypes /\ Misreadings /\ bottle \in Wines
      BY <1>2 DEF ScanInv
    <3> QED
      BY <2>1, <3>1, NameIsRead DEF Readable
  <2> HIDE DEF name, maker
  <2>3. \A j \in 1..Len(cellar) : Score(cellar[j], name, maker) \in Nat
    BY <1>2, <2>2, ScoreOfNames
  <2>4. ASSUME NEW i \in 1..Len(cellar), i > Len(cellar) - Recent, cellar[i].name = bottle.name
        PROVE  i \in m \/ Cardinality(m) = MaxMatches
    <3>1. cellar[i] \in Wines /\ Similarity(cellar[i].name, name) >= Unit
      BY <1>2, <2>2, <2>4
    <3>2. 2 * Score(cellar[i], name, maker) >= Unit
      BY <2>2, <3>1, ScoreOfNames
    <3>3. i \in Lookup(cellar, name, maker) \/ Cardinality(Lookup(cellar, name, maker)) = MaxMatches
      BY <1>2, <2>2, <2>3, <2>4, <3>2, LookupFinds
    <3> QED
      BY <1>6, <2>2, <3>3 DEF name, maker
  <2> QED
    BY <1>1, <1>7, <2>4 DEF Found
<1>12. DuplicateIsWarned'
  BY <1>11, WarnedIfFindableNext
<1> QED
  BY <1>8, <1>9, <1>10, <1>12 DEF ScanInv

LEMMA StepKeepsScanInv ==
  ASSUME ScanInv, Step
  PROVE  ScanInv'
<1>1. Onward(scan, scan') /\ Rest
  BY StepAdvances DEF ScanInv, ScanTypes
<1>2. settings' = settings /\ bottle' = bottle /\ cellar' = cellar /\ damage' = damage /\ edits' = edits
  BY <1>1 DEF Rest
<1>3. ScanTypes'
  BY <1>1, <1>2 DEF ScanInv, ScanTypes, Onward
<1>4. Beginnings'
  BY <1>1, <1>2 DEF ScanInv, Beginnings, Onward
<1>5. Misreadings'
  BY <1>2 DEF ScanInv, Misreadings
<1>6. DuplicateIsWarned'
  <2>1. CASE scan.stage = "vision"
    <3>1. scan'.looked = 0
      BY <1>1, <2>1 DEF Onward, ScanInv, Beginnings
    <3>2. Found'
      BY <3>1 DEF Found
    <3> QED
      BY <3>2, WarnedIfFindableNext
  <2>2. CASE scan.stage # "vision"
    <3>1. /\ scan.stage \notin {"idle", "vision", "match"} /\ scan'.kind = scan.kind
          /\ scan'.form = scan.form /\ scan'.label = scan.label /\ scan'.looked = scan.looked
          /\ scan'.matches = scan.matches
      BY <1>1, <2>2 DEF Onward
    <3>2. Findable' => Findable
      BY <1>2, <3>1 DEF Findable, Readable, Name, Reading
    <3>3. Found => Found'
      BY <1>2, <3>1 DEF Found
    <3>4. Findable => Found
      BY WarnedIfFindable DEF ScanInv
    <3> QED
      BY <3>2, <3>3, <3>4, WarnedIfFindableNext
  <2> QED
    BY <2>1, <2>2
<1> QED
  BY <1>3, <1>4, <1>5, <1>6 DEF ScanInv

LEMMA ScanInvHolds == SSpec => []ScanInv
<1>1. ASSUME ScanInv, [SNext]_svars
      PROVE  ScanInv'
  <2>1. ASSUME NEW b \in Wines, NEW given \in Forms, NEW clear \in BOOLEAN,
               NEW kind \in {"front", "back", "typed"}, Begin(b, given, kind, clear)
        PROVE  ScanInv'
    BY <1>1, <2>1, BeginKeepsScanInv
  <2>2. ASSUME NEW b \in Wines, Store(b)
        PROVE  ScanInv'
    BY <1>1, <2>2, StoreKeepsScanInv
  <2>3. ASSUME NEW w \in Words, NEW v, Misread(w, v)
        PROVE  ScanInv'
    BY <1>1, <2>3, MisreadKeepsScanInv
  <2>4. CASE Match
    BY <1>1, <2>4, MatchKeepsScanInv
  <2>5. CASE Step
    BY <1>1, <2>5, StepKeepsScanInv
  <2>6. CASE UNCHANGED svars
    <3>1. ScanTypes' /\ Beginnings' /\ Misreadings'
      BY <1>1, <2>6 DEF svars, ScanInv, ScanTypes, Beginnings, Misreadings
    <3>2. (Findable' <=> Findable) /\ (Found' <=> Found)
      BY <2>6 DEF svars, Findable, Readable, Found, Name, Reading
    <3> QED
      BY <1>1, <3>1, <3>2, WarnedIfFindable, WarnedIfFindableNext DEF ScanInv
  <2> QED
    BY <1>1, <2>1, <2>2, <2>3, <2>4, <2>5, <2>6 DEF SNext
<1> QED
  BY <1>1, ScanInvInit, PTL DEF SSpec

\* Whatever the models reply and whoever saves wines meanwhile, a scan is in one of its
\* stages, with at most three attempts at a model, fields that a card has, and matches
\* among the wines that it looked through (scan.py scan_label, scan_lookup).
THEOREM ScanTypesHold == SSpec => []STypeOK
<1>1. ScanInv => STypeOK
  <2> SUFFICES ASSUME ScanInv PROVE STypeOK
    OBVIOUS
  <2>1. \A i \in DOMAIN cellar : cellar[i] \in Wines
    BY ElementOfSeq, LenProperties DEF ScanInv, ScanTypes
  <2> QED
    BY <2>1 DEF ScanInv, ScanTypes, Requests, Stages, STypeOK
<1> QED
  BY <1>1, ScanInvHolds, PTL

\* scan.py _lookup_existing, "Matching is deliberately LOOSE": for any collection, names,
\* letters and limits, a wine that is among the newest compared is in the matches, or as
\* many others as may be, although the light cost its name a letter or a word.
THEOREM DuplicatesAreWarned == SSpec => []DuplicateIsWarned
<1>1. ScanInv => DuplicateIsWarned
  BY DEF ScanInv
<1> QED
  BY <1>1, ScanInvHolds, PTL

\* scan.py _lev, "Classic Levenshtein edit distance": for words of any length and letters,
\* the last cell of the table is 0 for the word itself, 1 for what an edit makes of it
\* and 2 for what only two do.
THEOREM LevsAreDistances == SSpec => []LevIsDistance
<1>1. ScanInv => LevIsDistance
  <2> SUFFICES ASSUME ScanInv, scan.stage = "vision", edits \in 1..2, damage.as # <<>>
               PROVE  Lev(damage.word, damage.as) =
                        (IF damage.as = damage.word THEN 0
                         ELSE IF damage.as \in Edits(damage.word, Range(damage.as)) THEN 1 ELSE 2)
    BY DEF LevIsDistance
  <2>1. bottle \in Wines /\ damage.word \in bottle.name
    BY DEF ScanInv, Misreadings
  <2>2. damage.word \in Seq(Alphabet) /\ Letters \in SUBSET Alphabet
    BY <2>1, NamesAreWords DEF Alphabet
  <2>3. CASE edits = 1
    <3>1. damage.as \in Edits(damage.word, Letters)
      BY <2>3 DEF ScanInv, Misreadings
    <3>2. damage.as \in Seq(Alphabet)
      BY <2>2, <3>1, EditsAreWords
    <3> QED
      BY <2>2, <3>1, <3>2, LevCountsEdits
  <2>4. CASE edits = 2
    <3>1. PICK u \in Edits(damage.word, Letters) : damage.as \in Edits(u, Letters)
      BY <2>4 DEF ScanInv, Misreadings
    <3>2. u \in Seq(Alphabet)
      BY <2>2, EditsAreWords
    <3>3. damage.as \in Seq(Alphabet)
      BY <2>2, <3>1, <3>2, EditsAreWords
    <3> QED
      BY <2>2, <3>1, <3>2, <3>3, LevCountsEdits
  <2> QED
    BY <2>3, <2>4
<1> QED
  BY <1>1, ScanInvHolds, PTL

\* scan.py, "Label evidence wins over inference; both are only offered for empty fields":
\* in every step, whatever is replied, the source that a scan has for a field stays.
THEOREM LaterOnlyFillsGaps == SSpec => LaterFillsGaps
<1> DEFINE Keeps == \A f \in Facts : Source(f) # Unset => Source(f)' = Source(f)
<1>1. ASSUME ScanInv, [SNext]_svars
      PROVE  [Keeps]_svars
  <2>1. ASSUME NEW b \in Wines, NEW given \in Forms, NEW clear \in BOOLEAN,
               NEW kind \in {"front", "back", "typed"}, Begin(b, given, kind, clear)
        PROVE  Keeps
    <3>1. scan = NoScan
      BY <1>1, <2>1 DEF ScanInv, Beginnings, Begin
    <3>2. scan.form = {} /\ scan.label = {} /\ scan.net = {}
      BY <3>1 DEF NoScan
    <3> QED
      BY <3>2, ScansAssumption DEF Source, Coerced
  <2>2. ASSUME scan' = scan
        PROVE  Keeps
    BY <2>2 DEF Source
  <2>3. CASE Match
    <3> DEFINE m == IF scan.kind = "back" THEN {} ELSE Lookup(cellar, Name(scan), Maker(scan))
    <3>1. scan' = [scan EXCEPT !.stage = "web", !.looked = Len(cellar), !.matches = m]
          /\ scan \in Requests
      BY <1>1, <2>3 DEF Match, Searched, ScanInv, ScanTypes
    <3> HIDE DEF m
    <3>2. scan'.form = scan.form /\ scan'.label = scan.label /\ scan'.net = scan.net
          /\ scan'.from = scan.from
      BY <3>1 DEF Requests
    <3> QED
      BY <3>2 DEF Source
  <2>4. CASE Step
    <3>1. Onward(scan, scan')
      BY <1>1, <2>4, StepAdvances DEF ScanInv, ScanTypes
    <3>2. /\ scan.net = {} /\ scan'.form = scan.form
          /\ scan'.label = scan.label \/ scan.label = {}
      BY <1>1, <3>1 DEF Onward, ScanInv, Beginnings
    <3> QED
      BY <3>2, ScansAssumption DEF Source, Coerced
  <2> QED
    BY <1>1, <2>1, <2>2, <2>3, <2>4 DEF SNext, svars, Store, Misread
<1> QED
  BY <1>1, ScanInvHolds, PTL DEF SSpec, LaterFillsGaps
=============================================================================
