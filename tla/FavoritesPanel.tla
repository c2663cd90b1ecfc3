---------------------------- MODULE FavoritesPanel ----------------------------
(***************************************************************************)
(* The favorites tab of the page (static/assets/app.js): the overview of   *)
(* the lists, or one list with its wines.  Answers come in any order, and  *)
(* after the user has left.  Modals cover the page: with one open, nothing *)
(* behind it can be pressed.                                               *)
(*                                                                         *)
(* A button, a card and state.currentList hold a list as some answer       *)
(* described it: a snapshot.  The heading is always state.currentList's    *)
(* name while a list is shown.  A new list only adds a button.             *)
(***************************************************************************)
EXTENDS Naturals, SequencesExt

CONSTANTS
  Lists, Names,
  MaxGets,   \* GETs of wines in flight at once
  MaxCalls,  \* other calls in flight at once
  NoList, Loading

ASSUME PanelAssumption ==
  /\ MaxGets \in Nat /\ MaxCalls \in Nat /\ Loading # NoList
  /\ NoList \notin Lists \cup Names
  /\ {NoList, Loading} \cap [id: Lists, name: Names] = {}
  /\ \A S \in SUBSET [id: Lists, name: Names] : S # Loading

VARIABLES
  stored,    \* the server's names of the lists; NoList: deleted
  tab,       \* "favorites" or "other"
  overview,  \* its buttons, or Loading
  listing,   \* a GET of the overview is in flight; several count as one
  current,   \* state.currentList
  detail,    \* #fav-detail is shown and not #fav-lists
  cards,     \* the list whose wines are shown, Loading, or NoList
  gets,      \* GETs of wines in flight
  dialog,    \* the modal: the list it was opened for, and its kind
  calls,     \* writes in flight
  rival      \* history: since the list was opened, something else was under way

pvars == <<stored, tab, overview, listing, current, detail, cards, gets, dialog, calls, rival>>

Snapshots == [id: Lists, name: Names]
Shut == [kind |-> "none", list |-> NoList]

PanelTypeOK ==
  /\ stored \in [Lists -> Names \cup {NoList}]
  /\ tab \in {"favorites", "other"} /\ detail \in BOOLEAN /\ rival \in BOOLEAN
  /\ overview = Loading \/ overview \subseteq Snapshots
  /\ listing \in BOOLEAN /\ (overview = Loading => listing)
  /\ current \in Snapshots \cup {NoList} /\ (detail => current # NoList)
  /\ cards \in Snapshots \cup {NoList, Loading} /\ (cards = Loading => gets # <<>>)
  /\ gets \in Seq(Snapshots) /\ Len(gets) <= MaxGets
  /\ dialog = Shut \/ dialog \in [kind: {"rename", "delete", "sheet"}, list: Snapshots]
  /\ calls \subseteq [kind: {"rename", "delete", "sheet"}, list: Snapshots]
                     \cup [kind: {"refresh", "save"}, list: {NoList}]

-----------------------------------------------------------------------------
\* Variant of OpenFavoriteList: the wines of the last list stay until the answer.
OpenFavoriteListKeeps(s, n) ==
  /\ Len(gets) + n <= MaxGets
  /\ gets' = gets \o [i \in 1..n |-> s]
  /\ current' = s /\ detail' = TRUE /\ UNCHANGED cards
  /\ rival' = \E g \in ToSet(gets) : g.id # s.id

\* openFavoriteList, n times at once.
OpenFavoriteList(s, n) ==
  /\ Len(gets) + n <= MaxGets
  /\ gets' = gets \o [i \in 1..n |-> s]
  /\ current' = s /\ detail' = TRUE /\ cards' = Loading
  /\ rival' = \E g \in ToSet(gets) : g.id # s.id

StayOpen == UNCHANGED <<current, detail, cards, gets, rival>>

\* refreshCurrent, as far as it is about the panel.
RefreshCurrent(n) ==
  IF current = NoList THEN StayOpen ELSE OpenFavoriteList(current, n)

\* loadFavoriteLists
LoadFavoriteLists == listing' = TRUE /\ overview' = Loading

\* Variant of ShowOverview: the list stays shown.
ShowOverviewBelow ==
  /\ current' = NoList /\ LoadFavoriteLists
  /\ UNCHANGED <<detail, cards, gets, rival>>

\* Back, and what a deletion leads to: the wines stay where nobody sees them.
ShowOverview ==
  /\ current' = NoList /\ detail' = FALSE /\ LoadFavoriteLists
  /\ UNCHANGED <<cards, gets, rival>>

OnPanel == tab = "favorites" /\ dialog = Shut

-----------------------------------------------------------------------------
Pick ==
  /\ OnPanel /\ ~detail /\ overview # Loading
  /\ \E s \in overview : OpenFavoriteList(s, 1)
  /\ UNCHANGED <<stored, tab, overview, listing, dialog, calls>>

Back ==
  /\ OnPanel /\ detail /\ ShowOverview
  /\ UNCHANGED <<stored, tab, dialog, calls>>

\* Rename, delete, or the sheet of a wine.
OpenDialog ==
  /\ OnPanel /\ detail
  /\ \/ \E k \in {"rename", "delete"} : dialog' = [kind |-> k, list |-> current]
     \/ cards \in Snapshots /\ dialog' = [kind |-> "sheet", list |-> cards]
  /\ UNCHANGED <<stored, tab, overview, listing, current, detail, cards, gets, calls, rival>>

CloseDialog ==
  /\ dialog # Shut /\ dialog' = Shut
  /\ UNCHANGED <<stored, tab, overview, listing, current, detail, cards, gets, calls, rival>>

\* A call is sent.  A rename goes to the list that is open now; a confirmation closes.
Send(c) ==
  /\ c \notin calls /\ Cardinality(calls) < MaxCalls
  /\ calls' = calls \cup {c}

Press ==
  /\ \/ /\ dialog.kind = "rename" /\ current # NoList /\ dialog' = dialog
        /\ \E n \in Names : Send([kind |-> "rename", list |-> [id |-> current.id, name |-> n]])
     \/ dialog.kind = "delete" /\ dialog' = Shut /\ Send(dialog)
     \/ dialog.kind = "sheet" /\ dialog' = dialog /\ Send(dialog)
  /\ UNCHANGED <<stored, tab, overview, listing, current, detail, cards, gets, rival>>

\* Elsewhere: a sheet opened from the wines of the collection, or a wine card, which
\* opens over whatever tab is shown when its label was analysed.
Elsewhere ==
  /\ \/ tab = "other" /\ dialog = Shut /\ Send([kind |-> "refresh", list |-> NoList])
     \/ Send([kind |-> "save", list |-> NoList])
  /\ UNCHANGED <<stored, tab, overview, listing, current, detail, cards, gets, dialog, rival>>

-----------------------------------------------------------------------------
Answered(c) == c \in calls /\ calls' = calls \ {c}

\* The answer's name is the heading now, and its list the current one.  The dialog that
\* asked closes; the one that is open may be another.
Renamed(c) ==
  /\ c.kind = "rename" /\ Answered(c) /\ stored[c.list.id] # NoList
  /\ stored' = [stored EXCEPT ![c.list.id] = c.list.name]
  /\ current' = c.list
  /\ rival' = (rival \/ current = NoList \/ current.id # c.list.id)
  /\ dialog' \in {dialog} \cup (IF dialog.kind = "rename" THEN {Shut} ELSE {})
  /\ UNCHANGED <<tab, overview, listing, detail, cards, gets>>

Deleted(c) ==
  /\ c.kind = "delete" /\ Answered(c) /\ stored[c.list.id] # NoList
  /\ stored' = [stored EXCEPT ![c.list.id] = NoList]
  /\ ShowOverview
  /\ UNCHANGED <<tab, dialog>>

\* The sheet reopens the list its card was made for; after the deletion of a wine it
\* closes, and the current one is opened, too.
Changed(c) ==
  /\ c.kind = "sheet" /\ Answered(c)
  /\ \/ OpenFavoriteList(c.list, 1) /\ UNCHANGED dialog
     \/ /\ OpenFavoriteList(c.list, 2)
        /\ dialog' \in {dialog} \cup (IF dialog.kind = "sheet" THEN {Shut} ELSE {})
  /\ UNCHANGED <<stored, tab, overview, listing>>

Refreshed(c) ==
  /\ c.kind = "refresh" /\ Answered(c) /\ RefreshCurrent(1)
  /\ UNCHANGED <<stored, tab, overview, listing, dialog>>

\* A wine card was saved: two refreshes, and the page turns to the collection.
Saved(c) ==
  /\ c.kind = "save" /\ Answered(c) /\ RefreshCurrent(2)
  /\ tab' = "other"
  /\ UNCHANGED <<stored, overview, listing, dialog>>

Failed(c) ==
  /\ Answered(c)
  /\ UNCHANGED <<stored, tab, overview, listing, current, detail, cards, gets, dialog, rival>>

WinesCame(i, found) ==
  /\ i \in DOMAIN gets
  /\ cards' = IF found /\ stored[gets[i].id] # NoList THEN gets[i] ELSE NoList
  /\ gets' = RemoveAt(gets, i)

ListsCame(found) ==
  /\ listing /\ listing' = FALSE
  /\ overview' = IF found THEN {s \in Snapshots : stored[s.id] = s.name} ELSE {}

WinesAnswered ==
  /\ \E i \in 1..MaxGets, found \in BOOLEAN : WinesCame(i, found)
  /\ UNCHANGED <<stored, tab, overview, listing, current, detail, dialog, calls, rival>>

ListsAnswered ==
  /\ \E found \in BOOLEAN : ListsCame(found)
  /\ UNCHANGED <<stored, tab, current, detail, cards, gets, dialog, calls, rival>>

PanelInit ==
  /\ stored \in [Lists -> Names] /\ tab = "other"
  /\ overview = {} /\ listing = FALSE /\ current = NoList /\ detail = FALSE
  /\ cards = NoList /\ gets = <<>> /\ dialog = Shut /\ calls = {} /\ rival = FALSE

PanelNext ==
  \/ Pick \/ Back \/ OpenDialog \/ CloseDialog \/ Press \/ Elsewhere
  \/ \E c \in calls : Renamed(c) \/ Deleted(c) \/ Changed(c) \/ Refreshed(c) \/ Failed(c)
  \/ WinesAnswered \/ ListsAnswered

-----------------------------------------------------------------------------
(***************************************************************************)
(* Properties.                                                             *)
(***************************************************************************)

\* app.js openFavoriteList and the rename's answer: wines of one list under the name
\* of another come from calls that overlapped, be it two openings or a rename that
\* was answered after the user had gone on.
WrongWinesHadRival ==
  detail /\ cards \in Snapshots /\ cards.id # current.id => rival

\* A rename goes to the list whose name the dialog was opened with.
RenameHitsItsList ==
  [][\A c \in calls' \ calls :
       c.kind = "rename" /\ dialog.kind = "rename" => c.list.id = dialog.list.id]_pvars

\* With nothing under way the heading is the list's name, if only this page renames.
HeadingIsName ==
  detail /\ gets = <<>> /\ calls = {} /\ stored[current.id] # NoList =>
    current.name = stored[current.id]
=============================================================================
