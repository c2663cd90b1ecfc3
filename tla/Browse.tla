------------------------------- MODULE Browse -------------------------------
(***************************************************************************)
(* The "Browse" list of static/assets/app.js over GET /api/wines: paging   *)
(* by offset, filters, one request at a time, and the refresh after a      *)
(* write.  Wines are numbered in the order of their creation, the list     *)
(* shows the newest first.  A card is the wine and the kind it was shown   *)
(* with; the filter is a kind or All.                                      *)
(***************************************************************************)
EXTENDS Naturals, Sequences, FiniteSets, FiniteSetsExt, Functions

CONSTANTS
  NumWines,   \* wines that may be created
  Stocked,    \* wines that exist at first
  Kinds, All,
  PageSize,   \* state.limit, 24
  MaxLimit,   \* the largest limit the server accepts, 100
  MaxShown,   \* cards beyond which the user asks for no more
  None

Wines == 1..NumWines
Cards == [wine: Wines, kind: Kinds]
\* A write of this user: the wine and what becomes of it, stored or not yet;
\* fresh if the list is reloaded once it is answered.
Write == [wine: Wines, kind: Kinds \cup {"gone"}, done: BOOLEAN, fresh: BOOLEAN]
\* Why the list may be behind what is stored: a load was dropped or failed, a
\* write's answer was lost, or another user wrote ("lost"); or else this user
\* edited a wine and nothing was reloaded ("edit").
Causes == {"none", "edit", "lost"}
\* GET /api/wines: what is asked for, and the answer.
Query == [filter: Kinds \cup {All}, offset: Nat, limit: Nat, append: BOOLEAN,
          answer: {"none", "page", "error"}, items: Seq(Cards), total: Nat]

ASSUME BrowseAssumption ==
  /\ NumWines \in Nat /\ Stocked \in 0..NumWines
  /\ PageSize \in Nat \ {0} /\ MaxLimit \in Nat /\ MaxShown \in Nat
  /\ PageSize <= MaxLimit
  /\ {All, "new", "gone"} \cap Kinds = {}
  /\ None \notin Write \cup Query

VARIABLES
  db,        \* wine -> kind, "new" before its creation, "gone" after deletion
  filter, offset, loading,   \* state.*
  shown,     \* the cards of #wine-results
  more,      \* "Load more" is visible
  query,     \* GET /api/wines in flight, with its answer once there is one
  saving,    \* a write of this user in flight
  missed     \* history: which of Causes there was since the last load from the
             \* top was sent

vars == <<db, filter, offset, loading, shown, more, query, saving, missed>>

TypeOK ==
  /\ db \in [Wines -> Kinds \cup {"new", "gone"}]
  /\ filter \in Kinds \cup {All} /\ offset \in Nat /\ more \in BOOLEAN
  /\ missed \in Causes
  /\ shown \in Seq(Cards)
  /\ query \in Query \cup {None} /\ loading = (query # None)
  /\ saving \in Write \cup {None}

-----------------------------------------------------------------------------
\* search_wines: the filter, the order by creation (the i-th card is the
\* i-th newest wine), the page.
Hits(f) == {w \in Wines : IF f = All THEN db[w] \in Kinds ELSE db[w] = f}

Matching(f) ==
  LET hit == Hits(f) IN
  [i \in 1..Cardinality(hit) |->
     LET w == CHOOSE w \in hit : Cardinality({v \in hit : v > w}) = i - 1 IN
     [wine |-> w, kind |-> db[w]]]

Page(q) ==
  LET all == Matching(q.filter) IN
  SubSeq(all, q.offset + 1, Min({q.offset + q.limit, Len(all)}))

\* loadWines: nothing while a page is loading.
LoadWines(append, f, off, lim) ==
  IF loading THEN UNCHANGED <<loading, query>>
  ELSE /\ loading' = TRUE
       /\ query' = [filter |-> f, offset |-> off, limit |-> lim, append |-> append,
                    answer |-> "none", items |-> <<>>, total |-> 0]

\* A load from the top, which is dropped while a page is loading.
Reload(f, lim) ==
  /\ offset' = 0
  /\ LoadWines(FALSE, f, 0, lim)
  /\ missed' = IF loading THEN "lost" ELSE "none"

\* A chip, a select or the search box: resetSearch.
ChooseFilter(f) ==
  /\ f # filter
  /\ filter' = f
  /\ Reload(f, PageSize)
  /\ UNCHANGED <<db, shown, more, saving>>

LoadMore ==
  /\ more /\ Len(shown) <= MaxShown
  /\ LoadWines(TRUE, filter, offset, PageSize)
  /\ UNCHANGED <<db, filter, offset, shown, more, saving, missed>>

Writable(w) == IF db[w] = "new" THEN \A v \in 1..w - 1 : db[v] # "new"
               ELSE db[w] \in Kinds

\* Create, edit or delete: the request is sent.  Whoever creates or deletes a
\* wine calls refreshBrowse; an edit calls what the sheet was opened with, and
\* one opened from a favorites list reloads that list only.
Save(w, k, fresh) ==
  /\ saving = None /\ Writable(w)
  /\ k \in Kinds \cup (IF db[w] = "new" THEN {} ELSE {"gone"})
  /\ ~fresh => db[w] # "new" /\ k # "gone"
  /\ saving' = [wine |-> w, kind |-> k, done |-> FALSE, fresh |-> fresh]
  /\ UNCHANGED <<db, filter, offset, loading, shown, more, query, missed>>

\* The server stores it, unless another user was faster.
Store ==
  /\ saving # None /\ ~saving.done
  /\ IF Writable(saving.wine)
     THEN /\ db' = [db EXCEPT ![saving.wine] = saving.kind]
          /\ saving' = [saving EXCEPT !.done = TRUE]
         /\ missed' = IF saving.fresh \/ missed = "lost" THEN missed ELSE "edit"
     ELSE saving' = None /\ UNCHANGED <<db, missed>>
  /\ UNCHANGED <<filter, offset, loading, shown, more, query>>

\* An error, also one on the way back: nothing is reloaded.
SaveFails ==
  /\ saving # None
  /\ saving' = None
  /\ missed' = IF saving.done THEN "lost" ELSE missed
  /\ UNCHANGED <<db, filter, offset, loading, shown, more, query>>

\* The write is answered: refreshCurrent asks for as much as was shown.  A deletion
\* calls it twice: the second load is dropped and would bring nothing else.
Refresh == Reload(filter, Max({PageSize, offset}))

\* Variants of Saved: the refresh does not start at the top of the list.
SavedKeepsOffset ==
  /\ saving # None /\ saving.done
  /\ saving' = None
  /\ IF saving.fresh
     THEN /\ LoadWines(FALSE, filter, offset, Max({PageSize, offset}))
          /\ missed' = IF loading THEN "lost" ELSE "none"
     ELSE UNCHANGED <<loading, query, missed>>
  /\ UNCHANGED <<db, filter, offset, shown, more>>

Saved ==
  /\ saving # None /\ saving.done
  /\ saving' = None
  /\ IF saving.fresh THEN Refresh ELSE UNCHANGED <<offset, loading, query, missed>>
  /\ UNCHANGED <<db, filter, shown, more>>

\* The server answers, or does not; a limit above its maximum is refused.
Serve ==
  /\ query # None /\ query.answer = "none"
  /\ \/ /\ query.limit <= MaxLimit
        /\ query' = [query EXCEPT !.answer = "page", !.items = Page(query),
                                  !.total = Len(Matching(query.filter))]
     \/ query' = [query EXCEPT !.answer = "error"]
  /\ UNCHANGED <<db, filter, offset, loading, shown, more, saving, missed>>

\* Variants of Render: an error leaves loading set; the offset becomes the
\* length of the last page.
RenderThenOnly ==
  /\ query # None /\ query.answer # "none"
  /\ IF query.answer = "page"
     THEN /\ shown' = IF query.append THEN shown \o query.items ELSE query.items
          /\ offset' = offset + Len(query.items)
          /\ more' = (offset' < query.total)
          /\ loading' = FALSE
     ELSE UNCHANGED <<shown, offset, more, loading>>
  /\ query' = None
  /\ missed' = IF query.answer = "error" /\ ~query.append THEN "lost" ELSE missed
  /\ UNCHANGED <<db, filter, saving>>
RenderLastPage ==
  /\ query # None /\ query.answer # "none"
  /\ IF query.answer = "page"
     THEN /\ shown' = IF query.append THEN shown \o query.items ELSE query.items
          /\ offset' = Len(query.items)
          /\ more' = (offset' < query.total)
     ELSE UNCHANGED <<shown, offset, more>>
  /\ loading' = FALSE
  /\ query' = None
  /\ missed' = IF query.answer = "error" /\ ~query.append THEN "lost" ELSE missed
  /\ UNCHANGED <<db, filter, saving>>

\* The callbacks of loadWines: the offset is the page's state by now, not the
\* one that was asked for.
Render ==
  /\ query # None /\ query.answer # "none"
  /\ IF query.answer = "page"
     THEN /\ shown' = IF query.append THEN shown \o query.items ELSE query.items
          /\ offset' = offset + Len(query.items)
          /\ more' = (offset' < query.total)
     ELSE UNCHANGED <<shown, offset, more>>
  /\ loading' = FALSE
  /\ query' = None
  /\ missed' = IF query.answer = "error" /\ ~query.append THEN "lost" ELSE missed
  /\ UNCHANGED <<db, filter, saving>>

Rival ==
  /\ missed' = "lost"
  /\ \E w \in Wines, k \in Kinds \cup {"gone"} :
       /\ Writable(w) /\ (db[w] = "new" => k # "gone")
       /\ db' = [db EXCEPT ![w] = k]
  /\ UNCHANGED <<filter, offset, loading, shown, more, query, saving>>

\* showApp after sign-in: resetSearch.
Init ==
  /\ db \in [Wines -> Kinds \cup {"new"}]
  /\ \A w \in Wines : db[w] # "new" <=> w <= Stocked
  /\ filter = All /\ offset = 0 /\ shown = <<>> /\ more = FALSE /\ saving = None
  /\ missed = "none"
  /\ loading = TRUE
  /\ query = [filter |-> All, offset |-> 0, limit |-> PageSize, append |-> FALSE,
              answer |-> "none", items |-> <<>>, total |-> 0]

User == \/ \E f \in Kinds \cup {All} : ChooseFilter(f)
        \/ LoadMore
        \/ \E w \in Wines, k \in Kinds \cup {"gone"}, fresh \in BOOLEAN : Save(w, k, fresh)

Answered == Store \/ SaveFails \/ Saved \/ Serve \/ Render

Next == User \/ Answered \/ Rival

Spec == Init /\ [][Next]_vars

\* The server answers and the browser runs the callbacks.
FairSpec == Spec /\ WF_vars(Serve) /\ WF_vars(Render) /\ WF_vars(Store) /\ WF_vars(Saved)

-----------------------------------------------------------------------------
(***************************************************************************)
(* Properties.                                                             *)
(***************************************************************************)

Quiet == ~loading /\ saving = None

\* Every card shows a stored wine that matches the filter, as it is now; the
\* newest comes first and none comes twice; and no wine is skipped: one that
\* matches is shown, or it is older than all that are and can still be loaded.
CardsAreTrue ==
  /\ \A i \in 1..Len(shown) :
       shown[i].wine \in Hits(filter) /\ shown[i].kind = db[shown[i].wine]
  /\ \A i, j \in 1..Len(shown) : i < j => shown[i].wine > shown[j].wine
  /\ \A w \in Hits(filter) :
       \/ \E i \in 1..Len(shown) : shown[i].wine = w
       \/ more /\ \A i \in 1..Len(shown) : shown[i].wine > w

\* refreshCurrent (app.js): once every answer is there, the cards are true, with
\* the exceptions of missed: a load was dropped while a page was loading, or
\* failed; the answer to a write was lost; another user wrote; or a wine was
\* edited in a sheet that was opened from a favorites list; and since then
\* nothing was loaded from the top.
ListIsCurrent == Quiet /\ missed = "none" => CardsAreTrue

\* app.js 198-200: "Guaranteed list refresh, callable from any handler (create /
\* delete / edit) regardless of how the wine was opened."  An edit does not call
\* it: TLC finds a counterexample.
RefreshIsGuaranteed == Quiet /\ missed # "lost" => CardsAreTrue

\* "Load more" is there exactly if some of the matching wines are not shown, and
\* what it loads next begins after the last card, with the same exceptions.
MoreIsOffered ==
  Quiet /\ missed = "none" =>
    /\ more = (Len(shown) < Len(Matching(filter)))
    /\ offset = Len(shown)

\* loading, which blocks every later page, does not stay set, whatever fails.
LoadingEnds == []<>~loading
=============================================================================
