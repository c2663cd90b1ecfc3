------------------------------- MODULE Backup -------------------------------
(***************************************************************************)
(* Backup and restore (app/services/backup.py, app/routers/backup.py).     *)
(*                                                                         *)
(* export_backup reads six tables with six SELECTs; under READ COMMITTED   *)
(* each of them sees what other requests have committed meanwhile.         *)
(* import_backup gives every row a new id, matches accounts by username    *)
(* and wines by (name, maker, vintage), and skips rows whose wine, author  *)
(* or list it does not know.  It runs in one transaction on the event      *)
(* loop: one step here (Photos has its files and its locks).               *)
(*                                                                         *)
(* The identity of a row is its id; Name, Key and Title are what import    *)
(* matches on.  All other columns are abstracted to the stars and the body.*)
(***************************************************************************)
EXTENDS Naturals, FiniteSets, FiniteSetsExt, Functions

CONSTANTS
  Users, Wines, Lists,   \* row ids (uuid4); a few of each
  Name, Key, Title,      \* id -> username; (name, maker, vintage); list name
  Stars, Bodies,
  MaxEdits               \* requests of other users in a behaviour

ASSUME BackupAssumption ==
  /\ IsFiniteSet(Users) /\ IsFiniteSet(Wines) /\ IsFiniteSet(Lists)
  /\ DOMAIN Name = Users /\ DOMAIN Key = Wines /\ DOMAIN Title = Lists
  /\ MaxEdits \in Nat

VARIABLES
  db,       \* the committed tables
  archive,  \* the tables in the ZIP, filled SELECT by SELECT
  next,     \* SELECTs done by the export: 0..6; 6: the archive is complete
  steady,   \* history: rows that were there from the start of the export to its end
  merged,   \* history: the archive was merged and nothing was changed since
  edits

bvars == <<db, archive, next, steady, merged, edits>>

Tables == <<"wines", "users", "ratings", "comments", "lists", "items">>

Ratings  == [wine: Wines, user: Users, stars: Stars]
Comments == [wine: Wines, user: Users, body: Bodies, copy: {1, 2}]
Items    == [list: Lists, wine: Wines]
Tabular  == [wines: SUBSET Wines, users: SUBSET Users, ratings: SUBSET Ratings,
             comments: SUBSET Comments, lists: SUBSET Lists, items: SUBSET Items]
Empty    == [wines |-> {}, users |-> {}, ratings |-> {}, comments |-> {},
             lists |-> {}, items |-> {}]

\* Foreign keys and unique constraints of models.py.
Integrity(d) ==
  /\ \A r \in d.ratings : r.wine \in d.wines /\ r.user \in d.users
  /\ \A c \in d.comments : c.wine \in d.wines /\ c.user \in d.users
  /\ \A i \in d.items : i.list \in d.lists /\ i.wine \in d.wines
  /\ \A q, r \in d.ratings : q.wine = r.wine /\ q.user = r.user => q = r
  /\ \A u, v \in d.users : Name[u] = Name[v] => u = v
  /\ \A l, m \in d.lists : Title[l] = Title[m] => l = m

BTypeOK ==
  /\ db \in Tabular /\ archive \in Tabular /\ steady \in Tabular
  /\ next \in 0..6 /\ merged \in BOOLEAN /\ edits \in 0..MaxEdits
  /\ Integrity(db)

-----------------------------------------------------------------------------
(***************************************************************************)
(* Requests of users; each is one transaction.                             *)
(***************************************************************************)
Keep(d, e) == [t \in DOMAIN d |-> d[t] \cap e[t]]

Edit(d) ==
  /\ edits < MaxEdits
  /\ d # db
  /\ db' = d
  /\ steady' = IF next < 6 THEN Keep(steady, d) ELSE steady
  /\ merged' = FALSE
  /\ edits' = edits + 1
  /\ UNCHANGED <<archive, next>>

CreateWine == \E w \in Wines \ (db.wines \cup archive.wines) : Edit([db EXCEPT !.wines = @ \cup {w}])

\* ON DELETE CASCADE and the ORM cascades.
Cascade(d, W, U, L) ==
  [wines |-> d.wines \ W, users |-> d.users \ U, lists |-> d.lists \ L,
   ratings  |-> {r \in d.ratings : r.wine \notin W /\ r.user \notin U},
   comments |-> {c \in d.comments : c.wine \notin W /\ c.user \notin U},
   items    |-> {i \in d.items : i.wine \notin W /\ i.list \notin L}]

DeleteWine == \E w \in db.wines : Edit(Cascade(db, {w}, {}, {}))
DeleteUser == \E u \in db.users : Edit(Cascade(db, {}, {u}, {}))
DeleteList == \E l \in db.lists : Edit(Cascade(db, {}, {}, {l}))

CreateUser == \E u \in Users \ (db.users \cup archive.users) :
  /\ \A v \in db.users : Name[v] # Name[u]
  /\ Edit([db EXCEPT !.users = @ \cup {u}])

CreateList == \E l \in Lists \ (db.lists \cup archive.lists) :
  /\ \A m \in db.lists : Title[m] # Title[l]
  /\ Edit([db EXCEPT !.lists = @ \cup {l}])

Rate == \E w \in db.wines, u \in db.users, s \in Stars :
  Edit([db EXCEPT !.ratings = {r \in @ : ~(r.wine = w /\ r.user = u)}
                              \cup {[wine |-> w, user |-> u, stars |-> s]}])

ClearRating == \E r \in db.ratings : Edit([db EXCEPT !.ratings = @ \ {r}])

AddComment == \E w \in db.wines, u \in db.users, b \in Bodies, n \in {1, 2} :
  Edit([db EXCEPT !.comments =
          @ \cup {[wine |-> w, user |-> u, body |-> b, copy |-> n]}])

DeleteComment == \E c \in db.comments : Edit([db EXCEPT !.comments = @ \ {c}])

AddItem == \E l \in db.lists, w \in db.wines :
  Edit([db EXCEPT !.items = @ \cup {[list |-> l, wine |-> w]}])

RemoveItem == \E i \in db.items : Edit([db EXCEPT !.items = @ \ {i}])

-----------------------------------------------------------------------------
(***************************************************************************)
(* Export.                                                                 *)
(***************************************************************************)
StartExport ==
  /\ next = 6
  /\ archive' = Empty
  /\ next' = 0
  /\ steady' = db
  /\ merged' = FALSE
  /\ UNCHANGED <<db, edits>>

Select ==
  /\ next < 6
  /\ archive' = [archive EXCEPT ![Tables[next + 1]] = db[Tables[next + 1]]]
  /\ next' = next + 1
  /\ UNCHANGED <<db, steady, merged, edits>>

-----------------------------------------------------------------------------
(***************************************************************************)
(* Import.                                                                 *)
(***************************************************************************)

\* Variant of Maps: rows that exist are not looked for.
MapsIgnoreBase(from, base, fresh, label) ==
  {f \in [from -> fresh] :
     /\ \A x \in from : label[f[x]] = label[x]
     /\ \A x, y \in from : label[x] = label[y] => f[x] = f[y]}

\* Maps of archived ids to rows that exist (base) or are inserted (fresh);
\* rows with the same label become one row.
Maps(from, base, fresh, label) ==
  {f \in [from -> base \cup fresh] :
     /\ \A x \in from : label[f[x]] = label[x]
     /\ \A x \in from : (\E y \in base : label[y] = label[x]) => f[x] \in base
     /\ \A x, y \in from : label[x] = label[y] => f[x] = f[y]}

\* Rows of the archive whose wine and author are known.
Known(rows, wineOf, userOf) ==
  {r \in rows : r.wine \in DOMAIN wineOf /\ r.user \in DOMAIN userOf}

\* The first rating of a wine by a user is kept; an existing one wins.  The
\* order of the rows is the database's: every choice is possible.
NewRatings(d, wineOf, userOf) ==
  LET all == {[wine |-> wineOf[r.wine], user |-> userOf[r.user], stars |-> r.stars]
                : r \in Known(archive.ratings, wineOf, userOf)}
      new == {r \in all : \A q \in d.ratings : ~(q.wine = r.wine /\ q.user = r.user)}
  IN {S \in SUBSET new :
        /\ \A r \in new : \E q \in S : q.wine = r.wine /\ q.user = r.user
        /\ \A q, r \in S : q.wine = r.wine /\ q.user = r.user => q = r}

\* Variant of NewComments: a comment is known by its wine and its text.
NewCommentsByText(d, wineOf, userOf) ==
  LET all == {[wine |-> wineOf[r.wine], user |-> userOf[r.user], body |-> r.body,
               copy |-> 1] : r \in Known(archive.comments, wineOf, userOf)}
  IN {c \in all : /\ \A q \in d.comments : ~(q.wine = c.wine /\ q.body = c.body)
                  /\ c = CHOOSE e \in all : e.wine = c.wine /\ e.body = c.body}

\* A comment is known by its wine, its author and its text.
NewComments(d, wineOf, userOf) ==
  {c \in {[wine |-> wineOf[r.wine], user |-> userOf[r.user], body |-> r.body, copy |-> 1]
            : r \in Known(archive.comments, wineOf, userOf)} :
     \A q \in d.comments : ~(q.wine = c.wine /\ q.user = c.user /\ q.body = c.body)}

\* Variant of NewItems: a list that exists is left as it is.
NewItemsOfNewLists(wineOf, listOf) ==
  {[list |-> listOf[i.list], wine |-> wineOf[i.wine]]
     : i \in {j \in archive.items : /\ j.list \in DOMAIN listOf
                                    /\ listOf[j.list] \notin db.lists
                                    /\ j.wine \in DOMAIN wineOf}}

NewItems(wineOf, listOf) ==
  {[list |-> listOf[i.list], wine |-> wineOf[i.wine]]
     : i \in {j \in archive.items : /\ j.list \in DOMAIN listOf
                                    /\ j.wine \in DOMAIN wineOf}}

\* The tables the import starts from; replace keeps the accounts only.
Base(replace) == IF replace THEN [Empty EXCEPT !.users = db.users] ELSE db

Import(replace) ==
  LET d == Base(replace) IN
  /\ next = 6
  /\ \E wineOf \in Maps(archive.wines, d.wines, Wines \ d.wines, Key),
        userOf \in Maps(archive.users, d.users, Users \ d.users, Name),
        listOf \in Maps(archive.lists, d.lists, Lists \ d.lists, Title) :
       \E ratings \in NewRatings(d, wineOf, userOf) :
         db' = [wines    |-> d.wines \cup Range(wineOf),
                users    |-> d.users \cup Range(userOf),
                lists    |-> d.lists \cup Range(listOf),
                ratings  |-> d.ratings \cup ratings,
                comments |-> d.comments \cup NewComments(d, wineOf, userOf),
                items    |-> d.items \cup NewItems(wineOf, listOf)]
  /\ merged' = ~replace
  /\ UNCHANGED <<archive, next, steady, edits>>

\* An id that is drawn for a new row may be one of a row long deleted.
Merge   == Import(FALSE)
Replace == Import(TRUE)

-----------------------------------------------------------------------------
\* A small collection that nobody has touched, or where everybody has rated and
\* commented on every wine and put it on the list; the edits lead on from there.
BInit ==
  /\ \E W \in SUBSET Wines, U \in SUBSET Users, l \in Lists, s \in Stars, b \in Bodies :
       /\ Cardinality(W) = 2 /\ Cardinality(U) = 2
       /\ LET bare == [Empty EXCEPT !.wines = W, !.users = U, !.lists = {l}] IN
          db \in {bare,
                 [bare EXCEPT !.ratings = [wine: W, user: U, stars: {s}],
                              !.comments = [wine: W, user: U, body: {b}, copy: {1}],
                              !.items = [list: {l}, wine: W]]}
  /\ Integrity(db)
  /\ archive = Empty /\ steady = Empty
  /\ next = 6 /\ merged = FALSE /\ edits = 0

Requests ==
  \/ CreateWine \/ DeleteWine
  \/ CreateUser \/ DeleteUser
  \/ CreateList \/ DeleteList
  \/ Rate \/ ClearRating
  \/ AddComment \/ DeleteComment
  \/ AddItem \/ RemoveItem

BNext == Requests \/ StartExport \/ Select \/ Merge \/ Replace

BSpec == BInit /\ [][BNext]_bvars

-----------------------------------------------------------------------------
(***************************************************************************)
(* Properties.                                                             *)
(***************************************************************************)

\* What the rows of d say, whatever their ids.
Content(d) ==
       {<<"wine", Key[w]>> : w \in d.wines}
  \cup {<<"rating", Key[r.wine], Name[r.user], r.stars>> : r \in d.ratings}
  \cup {<<"comment", Key[c.wine], Name[c.user], c.body>> : c \in d.comments}
  \cup {<<"list", Title[l]>> : l \in d.lists}
  \cup {<<"item", Title[i.list], Key[i.wine]>> : i \in d.items}

Distinct(W) == \A v, w \in W : Key[v] = Key[w] => v = w

\* Whatever other requests commit between the SELECTs of an export, a row that
\* was there from its start to its end is restored, with its author, its wine
\* and its list, also when it, its wine or its author has been deleted since
\* (tests/test_backup.py, test_replace_restores_exactly_the_backup and
\* test_comment_authorship_survives_restore).
SteadyRowsAreRestored ==
  [][Replace /\ Distinct(archive.wines) => Content(steady) \subseteq Content(db')]_bvars

\* What an archived rating would say, had its author not rated the wine in d.
Overruled(d) == {<<"rating", Key[r.wine], Name[r.user], s>> : r \in d.ratings, s \in Stars}

\* import_backup, merge: whatever was deleted after the backup comes back, with
\* its author, its wine and its list, although all of them are other rows by now;
\* only a rating gives way to one that its author has given the wine since.
MergeBringsBack ==
  [][Merge /\ Distinct(archive.wines) =>
       Content(steady) \subseteq Content(db') \cup Overruled(db)]_bvars

\* test_merge_is_idempotent_for_the_same_backup: merging an archive once more
\* changes nothing, also an archive whose export was interleaved with edits.
MergeTwiceIsMergeOnce == [][merged /\ Merge /\ Distinct(db.wines) => db' = db]_bvars

\* test_replace_restores_exactly_the_backup: one wine per wine of the backup.
RestoreIsExact ==
  [][Replace => Cardinality(db'.wines) = Cardinality(archive.wines)]_bvars

\* app.js, removeUser: "The account is deleted for everyone. Their ratings and
\* comments stay attached to the wines."
RemovedUserKeepsWords ==
  [][DeleteUser => db'.ratings = db.ratings /\ db'.comments = db.comments]_bvars
=============================================================================
