-------------------------------- MODULE Scans --------------------------------
(***************************************************************************)
(* A scan on the server (routers/scan.py, services/enrich.py): the vision  *)
(* model reads the label, the collection is searched for the wine, the     *)
(* internet and the models fill in what is missing.  Other users save      *)
(* wines meanwhile.                                                        *)
(*                                                                         *)
(* A reply of a model is the set of the fields it gives.  Scans do not     *)
(* share anything but the collection, so one scan and the other users'     *)
(* saves show every order.                                                 *)
(***************************************************************************)
EXTENDS Matching

CONSTANTS
  Wines,       \* [name, maker] of the bottles there are
  Letters,     \* what a letter may be taken for
  Facts,       \* what a model may give: the fields of a card
  Strong,      \* name, maker, grape, country, region, vintage
  Forms,       \* what a user may have filled in: sets of fields
  Replies,     \* what a model may reply: sets of fields
  Telling,     \* replies with a grape that _GRAPE_TYPE has
  MaxEdits,    \* edits that the light makes to one word of a label
  CellarSize,  \* wines in the collection
  Unset

\* A name is a finite set of words, and a word a sequence.
ASSUME ScansAssumption ==
  /\ \A b \in Wines : IsFiniteSet(b.name) /\ \A w \in b.name : w \in Seq(Range(w))
  /\ {"name", "maker", "grape", "type"} \subseteq Facts /\ Strong \subseteq Facts
  /\ Forms \cup Replies \subseteq SUBSET Facts
  /\ Telling \subseteq Replies /\ \A F \in Telling : "grape" \in F
  /\ MaxEdits \in Nat /\ CellarSize \in Nat
  /\ Unset \notin Wines /\ Unset \notin {"form", "label", "summary", "text"}

VARIABLES
  settings,  \* what is configured: the models, the web search; nothing changes it
  cellar,    \* the collection, oldest first
  bottle,    \* the one in the user's hand
  damage,    \* a word of its name, and as what the light lets it be read
  edits,     \* history: edits made to it
  scan       \* the request

svars == <<settings, cellar, bottle, damage, edits, scan>>

Words == UNION {b.name : b \in Wines}
Sound == [word |-> <<>>, as |-> <<>>]

NoScan == [stage |-> "idle", kind |-> "front", form |-> {}, attempts |-> 0, label |-> {},
           clear |-> FALSE, looked |-> 0, matches |-> {}, web |-> FALSE, net |-> {},
           from |-> Unset]

STypeOK ==
  /\ settings \in [ai: BOOLEAN, web: BOOLEAN]
  /\ \A i \in DOMAIN cellar : cellar[i] \in Wines
  /\ bottle \in Wines \cup {Unset} /\ edits \in 0..MaxEdits
  /\ damage.word \in Words \cup {<<>>}
  /\ scan \in [stage: {"idle", "vision", "match", "web", "summary", "text", "answered", "failed"},
               kind: {"front", "back", "typed"}, form: SUBSET Facts, attempts: 0..2,
               label: SUBSET Facts, clear: BOOLEAN, looked: 0..CellarSize,
               matches: SUBSET (1..CellarSize), web: BOOLEAN, net: SUBSET Facts,
               from: {"summary", "text", Unset}]
  /\ scan.matches \subseteq 1..scan.looked /\ scan.looked <= Len(cellar)

-----------------------------------------------------------------------------
\* The words one edit away from w, if an edit puts one of the letters.
Edits(w, letters) ==
       {RemoveAt(w, i) : i \in 1..Len(w)}
  \cup {ReplaceAt(w, i, l) : i \in 1..Len(w), l \in letters}
  \cup {InsertAt(w, i, l) : i \in 1..Len(w) + 1, l \in letters}

\* What can be read of a label.
Reading == (bottle.name \ {damage.word}) \cup ({damage.as} \ {<<>>})

Name(s)  == IF "name" \in s.form THEN bottle.name
            ELSE IF "name" \in s.label THEN Reading ELSE {}
Maker(s) == IF "maker" \in s.form \cup s.label THEN bottle.maker ELSE {}

Searched(m) ==
  /\ scan.stage = "match"
  /\ scan' = [scan EXCEPT !.stage = "web", !.looked = Len(cellar), !.matches = m]
  /\ UNCHANGED <<settings, cellar, bottle, damage, edits>>

\* The label was read or not: the search of the collection, but not for a back label.
Match == Searched(IF scan.kind = "back" THEN {} ELSE Lookup(cellar, Name(scan), Maker(scan)))

\* scan_label with a picture of the front or back label, scan_lookup with a typed
\* name or text.
Begin(b, form, kind, clear) ==
  /\ scan.stage = "idle" /\ bottle = Unset
  /\ kind # "typed" => ~clear
  /\ kind = "typed" => form \subseteq {"name", "maker"} /\ (form # {} \/ clear)
  /\ bottle' = b
  /\ scan' = [NoScan EXCEPT !.form = form, !.kind = kind, !.clear = clear,
                            !.stage = IF kind = "typed" THEN "web"
                                      ELSE IF settings.ai THEN "vision" ELSE "match"]
  /\ UNCHANGED <<settings, cellar, damage, edits>>

\* Bad light: a word of the name is read with an edit, or not at all.  (Where nobody
\* reads it, for a back label or a typed name, it does not matter.)
Misread(w, v) ==
  /\ scan.stage = "vision" /\ scan.attempts = 0 /\ edits < MaxEdits
  /\ scan.kind = "front" /\ "name" \notin scan.form
  /\ IF edits = 0 THEN w \in bottle.name ELSE w = damage.word /\ damage.as # <<>>
  /\ v \in {<<>>} \cup Edits(IF edits = 0 THEN w ELSE damage.as, Letters)
  /\ damage' = [word |-> w, as |-> v] /\ edits' = edits + 1
  /\ UNCHANGED <<settings, cellar, bottle, scan>>

\* Somebody saves a wine.
Store(b) ==
  /\ Len(cellar) < CellarSize
  /\ cellar' = Append(cellar, b)
  /\ UNCHANGED <<settings, bottle, damage, edits, scan>>

-----------------------------------------------------------------------------
Go(s) == scan' = s /\ UNCHANGED <<settings, cellar, bottle, damage, edits>>

Asking == settings.ai /\ scan.stage \in {"vision", "summary", "text"}

\* Without results to summarise, the model is asked for what it remembers, if there
\* is anything to ask about.
Recalled(s) ==
  IF settings.ai /\ (s.web \/ s.clear \/ (s.form \cup s.label) \cap Strong # {})
  THEN [s EXCEPT !.stage = "text", !.attempts = 0] ELSE [s EXCEPT !.stage = "answered"]

\* What a reply, or the lack of one, leads to.  F: its fields; clear: it has text.
After(s, F, clear) ==
  CASE s.stage = "vision" -> [s EXCEPT !.label = F, !.clear = clear, !.attempts = 0,
                                          !.stage = "match"]
    [] s.stage = "summary" -> IF F = {} THEN Recalled(s)
                              ELSE [s EXCEPT !.net = F, !.from = "summary", !.stage = "answered"]
    [] s.stage = "text" -> [s EXCEPT !.net = F, !.from = "text", !.stage = "answered"]

\* (The label's text makes a difference only where no strong field was read.)
Reply(F, clear) ==
  /\ Asking /\ (clear => scan.stage = "vision" /\ F \cap Strong = {})
  /\ Go(After(scan, F, clear))

\* Variant of Overloaded: the number of attempts is not limited.
OverloadedAgain == Asking /\ Go([scan EXCEPT !.attempts = (@ + 1) % 3])

\* 429 or 503: two more attempts, after a pause.
Overloaded ==
  /\ Asking
  /\ Go(IF scan.attempts < 2 THEN [scan EXCEPT !.attempts = @ + 1] ELSE After(scan, {}, FALSE))

\* Another status, no connection, no JSON: the scan goes on without.
Refused == Asking /\ Go(After(scan, {}, FALSE))

\* A search that fails finds nothing.
SearchWeb(found) == found => settings.web

\* All searches of one gather.
Search(found) ==
  /\ scan.stage = "web" /\ SearchWeb(found)
  /\ Go(IF found /\ settings.ai THEN [scan EXCEPT !.web = TRUE, !.stage = "summary"]
        ELSE Recalled([scan EXCEPT !.web = found]))

\* JSON of another shape than expected: an AttributeError that nothing catches.
Odd ==
  /\ Asking \/ (scan.stage = "web" /\ settings.web)
  /\ Go([scan EXCEPT !.stage = "failed"])

SInit ==
  /\ settings \in [ai: BOOLEAN, web: BOOLEAN]
  /\ cellar = <<>> /\ bottle = Unset /\ damage = Sound /\ edits = 0 /\ scan = NoScan

Step == \/ \E F \in Replies, clear \in BOOLEAN : Reply(F, clear)
        \/ Overloaded \/ Refused \/ Odd
        \/ \E found \in BOOLEAN : Search(found)

SNext == \/ \E b \in Wines, form \in Forms, clear \in BOOLEAN :
              \E kind \in {"front", "back", "typed"} : Begin(b, form, kind, clear)
         \/ \E b \in Wines : Store(b)
         \/ \E w \in Words :
              \E v \in {<<>>} \cup Edits(w, Letters) \cup Edits(damage.as, Letters) : Misread(w, v)
         \/ Match \/ Step

SSpec == SInit /\ [][SNext]_svars

\* Every call to a model or a search has a timeout, and a match is made, with
\* whatever result.
FairSSpec == SSpec /\ WF_svars(Step) /\ WF_svars(\E m \in SUBSET (1..Len(cellar)) : Searched(m))

-----------------------------------------------------------------------------
\* _coerce: a type that is missing is inferred from a grape of the table.
Coerced(F) == IF F \in Telling THEN F \cup {"type"} ELSE F

\* Variant of Source: the internet is preferred to the label.
SourceNetFirst(f) ==
  IF f \in scan.form THEN "form" ELSE IF f \in Coerced(scan.net) THEN scan.from
  ELSE IF f \in Coerced(scan.label) THEN "label" ELSE Unset

\* {**net_suggestion, **label_fields}, and only what the form lacks.
Source(f) ==
  IF f \in scan.form THEN "form" ELSE IF f \in Coerced(scan.label) THEN "label"
  ELSE IF f \in Coerced(scan.net) THEN scan.from ELSE Unset

-----------------------------------------------------------------------------
(***************************************************************************)
(* Properties.                                                             *)
(***************************************************************************)

\* scan.py _lev, "Classic Levenshtein edit distance": the fewest edits that make
\* one word the other, however the light made them while the label is read.
LevIsDistance ==
  LET w == damage.word
      v == damage.as IN
  scan.stage = "vision" /\ edits \in 1..2 /\ v # <<>> =>
    Lev(w, v) = (IF v = w THEN 0 ELSE IF v \in Edits(w, Range(v)) THEN 1 ELSE 2)

\* A misread letter, or a word left out, does not hide a wine that was in the
\* collection when the label was read and is one of the newest, if its words fit and
\* both names, as read and as it is, have a significant word.
Warned(Fits(_)) ==
  /\ scan.stage \notin {"idle", "vision", "match"} /\ scan.kind = "front" /\ edits <= 1
  /\ Name(scan) # {} /\ Tokens(bottle.name) # {} /\ Tokens(Reading) # {}
  /\ \A w \in bottle.name \cup Reading : w \in Weak \/ Fits(w)
  => \A i \in 1..scan.looked :
       i > scan.looked - Recent /\ cellar[i].name = bottle.name =>
         i \in scan.matches \/ Cardinality(scan.matches) = MaxMatches

\* scan.py _lookup_existing, "Matching is deliberately LOOSE": for words that are long
\* enough to err in and that the plural rule leaves alone, as read and as they are.
DuplicateIsWarned == Warned(LAMBDA w : Len(w) >= 4 /\ Singular(w) = w)

\* scan.py _tokens_match, "a label misread (one dropped/accented letter) would explain
\* the difference": for all words that are long enough.
MisreadIsMatched == Warned(LAMBDA w : Len(w) >= 4)

\* scan.py: "Label evidence wins over inference; both are only offered for empty
\* fields".  The sources come in the order of their worth (the user, the label, the
\* internet, the model's memory): what a scan has of a field is never displaced by
\* what comes later, not even the type, which is inferred for each source by itself.
LaterFillsGaps ==
  [][\A f \in Facts : Source(f) # Unset => Source(f)' = Source(f)]_svars

\* enrich.py _coerce, "Infer the type from the grape/varietal when the model gave
\* neither": a type that somebody states is preferred to one inferred from a grape.
StatedTypeWins ==
  scan.stage = "answered" /\ "type" \in scan.net \ scan.form /\ "type" \notin scan.label =>
    Source("type") = scan.from

\* Every scan is answered, whoever is overloaded or out of reach, unless a reply
\* has a shape that nothing catches.
ScanIsAnswered == scan.stage # "idle" ~> scan.stage \in {"answered", "failed"}
=============================================================================
