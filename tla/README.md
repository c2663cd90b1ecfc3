# wine-db: specifications, model checking and proofs

wine-db is a self-hosted wine catalogue: a FastAPI server with SQLAlchemy over
PostgreSQL (or SQLite for development), photo files on disk, AI services for label
reading, and a single-page client in plain JavaScript. This directory specifies the
parts of it whose correctness depends on order, concurrency and failure, checks them
with TLC, and proves the most important results with TLAPS.

    tlc -workers 2 -config Sessions_account.cfg MCSessions.tla     # any run below
    tlapm SessionsProofs.tla                                       # any *Proofs module

`PROJECT.json` lists the components, the runs, the source lines every definition
models, the hazards, the theorems, and for every property of a run a mutated definition
under which TLC must find the property violated. Operators named `<Definition><What>`
(`StopTracksForgotten`, `CheckRecords`) are those mutants and are used nowhere else.

## The system

| Component | State | Operations | What is hard |
|---|---|---|---|
| Accounts and sessions (`security.py`, `routers/auth.py`) | `users` rows, `token_version`, signed cookies | login with rehash, logout, change, reset, create, delete, start | read-modify-write of `token_version`, Argon2 between read and write, commit before or after the answer |
| Login throttle (`routers/auth.py`) | deques of failure times in process memory | check, record, clear, prune | shared by threads without a lock; check and record are apart |
| Rate limiting (`ratelimit.py`) | bucket per client and rule | consume, sweep | window borders, sweep against lazy reset |
| Wines and photos (`routers/wines.py`, `services/images.py`) | `wines` rows, files | create, edit, delete, upload, remove | files are not transactional; async handlers with blocking SQL |
| Ratings, comments (`routers/wines.py`, `detail.js`) | `ratings`, `comments`; the open sheet | rate, clear, comment, edit, delete | check-then-insert; optimistic client, unordered requests |
| Favorites (`routers/favorites.py`, favorites tab of `app.js`) | `favorite_lists`, `favorite_items`; open list, snapshots in buttons and dialogs | create, rename, delete, add, remove; open, back | check-then-insert, case-insensitive names over a case-sensitive constraint; answers that arrive after the user went on |
| Backup (`services/backup.py`) | ZIP archive | export, merge, replace | six SELECTs without a snapshot; matching by name instead of id |
| Browse (`app.js`) | offset, filters, cards, `loading` | page, filter, refresh | requests dropped while loading; offsets over a changing list |
| Scan page (`scan.js`, `wineform.js`) | picture, back-label flag, open form and modal | capture, analyse, back label, retake, save | callbacks that read page state when they run |
| Camera (`scan.js`) | media stream | start, stop, capture, leave the tab | `getUserMedia` answers late |
| Scan endpoints, enrichment (`routers/scan.py`, `services/enrich.py`) | none of their own | vision, lookup, search, merge of sources | precedence of sources, fuzzy matching, retries and fallbacks |
| Event loop, threads, connections (`db.py`, `main.py`) | the loop, a thread pool, a connection pool of fifteen | every request's way through `current_user`, handler and `get_db` | connections held over AI calls, threads that wait for connections, blocking SQL on the loop |
| Shell, schemas, rendering, deployment | settings | wiring | stateless |

How they interact: the client calls the server through `core.js` `request` and learns
of the outcome in promise callbacks, in any order. Every handler gets a database session
from `get_db`, which commits or rolls back in its teardown. Ordinary handlers run in
worker threads, `async` ones on the only event loop. One worker process holds the
throttle and the rate limiter in memory. Photos and backup share the upload directory.

What makes each of them correct:

* sessions: a revoked token never works again; a token that works belongs to somebody
  who knew the current password; every request ends;
* throttle and limiter: no more gets through than stated, nobody is refused without
  having used the budget, nothing stays locked;
* photos: a wine shows a photo that exists, no file is left behind, the server never
  stands still;
* ratings: client and server agree once all answers are there, conflicts have a cause;
* backup: what was there throughout the export is restored, by a replace and by a merge;
* browse: the cards are the newest wines that match, as stored, none twice, none skipped;
* favorites: names are unique, no item outlives its list or wine, every failure has a
  rival, the wines shown belong to the list in the heading;
* threads and connections: every request is answered, a refusal has a cause;
* scans: nothing known of a field is displaced, a wine that is there is found in spite
  of a misread letter, a scan ends;
* scan page and camera: data that was read or typed is not lost, the front label is the
  photo, one card is one bottle, the light goes off.

## Modules

State is modelled by the variables named like the code's, an operation by an action
named like its handler or callback. A handler that waits (for a lock, a commit, an
answer) is several actions with a stage per request; a handler that cannot be
interrupted between its state changes is one.

| Module | Models | Correspondence |
|---|---|---|
| `SessionPromise` | what accounts promise to a client | a token works or is revoked; abstract |
| `Sessions` | `security.py`, `routers/auth.py`, `get_db` | `row` is the committed `users` row, `sess` the cookies, `req` a handler between its SELECT, flush and commit; refines `SessionPromise` by `KeepsPromise` |
| `SessionsProofs` | | theorems about `Sessions` |
| `LoginThrottle` | `_failures` and its helpers in `routers/auth.py` | `dict` and `heap` separate key and deque, because a thread may hold a deque another one has removed; one action per access; `guesses` and `lost`, histories, tell failures apart by age and number. Definitions carry a T (`TInit` to `TSpec`, `TTypeOK`), because one module proves it together with `RateLimit` |
| `RateLimit` | `ratelimit.py`, rules of `main.py` | times relative to now; one action per request; `served`, a history, is the set of requests let through within a window, told apart by age and number |
| `LimitsProofs` | | theorems about `RateLimit` and `LoginThrottle` |
| `Photos`, `PhotosProofs` | `routers/wines.py`, `images.py`, the wine part of the import | `wine` rows, `disk` files, `req` handlers by stage; `HoldsLoop` is the event loop |
| `Ratings` | `set_rating`, `clear_rating`, rating block of `detail.js` | `row`, `shown` and one record per request |
| `Shelf` | what favorites lists promise | every operation at once; abstract |
| `Favorites`, `FavoritesProofs` | `routers/favorites.py` beside `delete_wine` and imports of both modes | `lists`, `wines`, `items` are committed rows, `req` a handler between Look, Flush and Commit; refines `Shelf` by `KeepsShelf` |
| `Workers` | `db.py`'s pool, FastAPI's threads, the loop | extends `Favorites`: `place` is where a request is, from the loop to its end; theorems in `FavoritesProofs` |
| `Matching` | `_fold` to `_lookup_existing` of `routers/scan.py` | pure functions on words, with the real edit distance, whose table is a recursive function |
| `Scans` | `scan_label`, `scan_lookup`, `enrich.py` | extends `Matching`: `scan` is the request, `cellar` the collection; definitions `SInit` to `SSpec` and `STypeOK` carry an S because one module proves it together with `ScanFlow` |
| `Backup` | `services/backup.py` and single-step edits of all six tables | `db` and `archive` are records of tables, rows are records; its definitions `BInit` to `BSpec` and `BTypeOK` carry a B because one module proves it together with `Ratings` |
| `CollectionProofs` | | theorems about `Ratings` and `Backup` |
| `Browse`, `BrowseProofs` | list of `app.js`, `search_wines` | `query` is the request in flight, `shown` the cards |
| `ScanFlow` | `scan.js`, `applySuggestion` of `wineform.js`, modals of `core.js` | page variables under their names, pictures and cards as they pass through the callbacks |
| `ScanProofs` | | theorems about `ScanFlow` and `Scans` |
| `Camera` | camera part of `scan.js`, tab switch of `app.js` | `status` of every `getUserMedia` call, `stream` the page's variable; `frames`, `reading`, `results` count pictures in the making, in analysis and on a card |
| `FavoritesPanel` | favorites tab of `app.js` | `overview`, `current`, `cards` hold snapshots of lists, `gets` and `calls` what is in flight |
| `Page`, `PageProofs` | tab bar and the end of a save | composes `Camera` and `FavoritesPanel`: leaving a tab, by the tab bar, a card or the end of a save, is one step of both; theorems about all three |

`MC<Module>` instantiates a module for TLC, a `.cfg` file says how. Histories, marked so
where they are declared, record what a property compares with and guard nothing.

## Runs

| Run | Shows | Bounds and why they are enough |
|---|---|---|
| `account` | typing, revocation, knowledge of the password, refinement of `SessionPromise` | one account, two requests, two tokens, the answer before the commit: every race of the code is between two requests on one row; three versions and two starts let a version be lowered and reached again |
| `team` | every request ends, with creation and deletion of accounts | two accounts, so that a reset's admin and target differ; the commit before the answer; two requests compete for one row lock |
| `throttle` | how far tried passwords exceed the limit; a lock opens while logins keep coming | two threads, one address, one name, a window of one tick: live and expired entries meet in one deque |
| `limit` | surge below twice the limit, refusals are earned, the table stays small, who keeps trying is served | two clients, two rules of different limit, a sweep interval as long as a window |
| `photo_files` | which photos may be missing, which files left | two requests on two wines, three uploads, both databases: every pair of handlers on one wine and on two, and an import's photo whose write fails |
| `rating` | agreement of sheet and server; causes of conflicts; every click ends | three requests allow insert, delete and insert again; two values of stars allow an update; answers before and after the commit |
| `server` | commits are operations of `Shelf`; clashes and failures have rivals; every request ends or the loop is stopped; refusals have a cause | one word in two spellings, so that an archive may bring none, one or both; one list and one wine that are there before, two requests, two threads and two connections: a request waits for another one at each of lock, loop, thread and connection |
| `scans` | the edit distance, matching, merge of sources, end of a scan | words of three to five letters, two edits, a collection of two with a window of one for the newest; replies with and without a grape that tells the type |
| `page` | lost streams, the light on other tabs, wines under their heading | two `getUserMedia` calls, one picture under way at once (then in analysis, then on a card), two lists, two openings and one other call in flight: a rival of each kind |
| `backup_restore` | exports among edits, merges and replaces in any order | three wines of which two share a key, a user deleted and created again, two edits between the SELECTs |
| `browse` | list and "load more" are right, `loading` is always taken back | two wines of two kinds, pages of one, a server limit of two, other users' writes, edits from sheets of either tab, and failures; three cards may be shown, one more than there are wines |
| `scan_page` | no callback overwrites a field, but for a type "other"; for a user who has always waited the photo is the front label and used once | two pictures (front and back), two cards, two wines, any overlap; one bottle, since the page never sees which bottle a picture shows and only `CardIsOneBottle` tells them apart |

Many properties hold with exceptions that a history names (`overlap`, `stale`, `spilled`,
`torn`, `lost`, `alone`, `missed`, `hasty`, `together`, `beside`, `rival`, `rivals`,
`late`): removing the history from the formula gives the counterexample. So two writers of
one `token_version` revive tokens that a reset has revoked (`overlap`); a refresh during a
page load is lost, and above 100 cards no write refreshes the list, because the server
refuses the limit (`missed`), nor does an edit in a sheet that was opened from a favorites
list (`missed`, too: `RefreshIsGuaranteed` below); two clicks on the stars, or a refresh
that overtakes one, leave sheet and server with different stars (`alone`), and so does, with
FastAPI 0.118 or later, a click that reads before the commit of one that was already
answered; an import whose photo cannot be written leaves a temporary file and goes on
(`spilled`); after "Add manually" during an analysis a back label becomes the photo of the
next wine (`hasty`); and two lists that are opened one after the other show the wines of
whichever answers last (`rival`). After a rollback that follows an unlink a wine names a
file that is gone (`torn`), and a label that is analysed while the user is on another tab
opens a card there whose "Retake photo" lights the camera (`late`).

`TypeOK` is an invariant of `account`, `PanelTypeOK` of `page`, `WTypeOK` of `server`;
those of `Ratings`, `Photos`, `Camera`, `Backup` (`BTypeOK`), `RateLimit`, `LoginThrottle`
(`TTypeOK`), `Scans` (`STypeOK`) and `Browse` are proved; add `TypeOK` to the configuration
of `ScanFlow` to check it there.

### Counterexamples

These formulas state what a document, comment or test of the repository says and the
code does not keep. No run checks them. To see what happens, change the named
configuration as stated and let the formula be all it checks (an invariant, or a
property where it says so).

| Formula | Configuration and changes | What happens |
|---|---|---|
| `ResetLogsOutEverywhere` | `Sessions_account`: `Users = {adm, bob}`, `Outdated = {"old"}`, `EarlyResponse = FALSE`, `MaxBoots = 1` | a logout with an old read lowers the version a reset has raised |
| `LogoutIsFinal` | `Sessions_account`: `Outdated = {"old"}`, `EarlyResponse = FALSE`, `MaxVersion = 4`, `MaxBoots = 1` | a writer with an old read lowers the version: a logged-out token works again |
| `LogoutIsImmediate` | `Sessions_account`: `Outdated = {"old"}`, `MaxBoots = 1` | with FastAPI 0.118 or later, a logout is confirmed before it is committed |
| `OnlyResetsAlterPassword` (property) | as `ResetLogsOutEverywhere` | a login that rehashes puts back the password a reset has replaced |
| `StartKeepsPassword` (property) | `Sessions_account`: `Outdated = {}`, `EarlyResponse = FALSE` | a restart replaces a password changed in the application |
| `FailuresAreKept` | `LoginThrottle_lock`: `SPECIFICATION TSpec`, `MaxFailures = 2` | two threads pop from one deque: a live failure is lost, or the request fails with 500 |
| `DeletedWineLeavesNoFile` | `Photos_files`: `Wines = {w1}` | an upload between the read and the DELETE leaves its file for ever |
| `RestoreIsExact` (property) | `Backup_restore` | a replace folds wines of equal name, maker and vintage |
| `RemovedUserKeepsWords` (property) | `Backup_restore` | removing an account removes its ratings and comments |
| `CardIsOneBottle` | `ScanFlow_page`: `Bottles = {b1, b2}`, `MaxShots = 3`, `MaxCards = 4`, `MaxWines = 1`, `CONSTRAINT AlwaysWaits` | after a cancelled back-label scan two bottles end up on one card |
| `FrontPhotoIsSaved` (property) | as `CardIsOneBottle` | retaking the back label loses the front label |
| `RetakeShowsCamera` (property) | `ScanFlow_page`: `MaxWines = 1`, `CONSTRAINT AlwaysWaits` | Retake leaves a card open over the camera |
| `ChosenTypeIsKept` (property) | `ScanFlow_page` | a type "other" that the user has chosen is overwritten by the next reading |
| `RefreshIsGuaranteed` | `Browse_list` | an edit in a sheet opened from a favorites list leaves Browse as it was |
| `ClashNeedsRace` | `Workers_server` | an import compares exact names: a second list in another case, without overlap |
| `StopReleasesCamera` | `Page_tabs` | the camera comes on after it was stopped |
| `RenameHitsItsList` (property) | `Page_tabs`: `Streams = {s1}`, `MaxShots = 0`, `Names = {n, o}`, `MaxCalls = 2`, no symmetry | the list behind the dialog has changed: another one is renamed |
| `HeadingIsName` | as `RenameHitsItsList` | a sheet opened from a card drawn before the rename reopens the list by its old snapshot |
| `MisreadIsMatched` | `Scans_labels`: `SPECIFICATION SSpec`, `Wines <- Plurals` | the plural rule takes a letter more from one of two words that differ in one |
| `StatedTypeWins` | `Scans_labels`: `SPECIFICATION SSpec` | a type inferred from the label's grape hides the one that the internet states |

`AlwaysWaits` cuts `ScanFlow` to a user who always waits.

Larger or other instances that pass and take longer: `Photos_files` with three requests and two files;
`EndsOrStalls` of `Photos` under `FairSpec`, one file, two requests, both databases; and
`Workers_server` with three requests on one name in one spelling and no wines, under
`WSpec`, without its liveness.

`CHECK_DEADLOCK FALSE` is set because all instances bound something (requests, wines,
pictures) and rightly stop when it is used up; waiting for ever is the subject of the
liveness properties instead.

## Fairness

* `Sessions`, `Photos`, `Ratings`: strong fairness of every request's steps: the thread
  pool and the event loop run what can run, and databases grant a lock in the order of
  the requests for it, so that a handler is not passed over for ever. Clients start
  nothing under fairness and nothing has to fail.
* `LoginThrottle`: a login that has begun runs on, and time passes.
* `RateLimit`: time passes and a client keeps trying: the premise of the property.
* `Browse`: the server answers what was sent and the browser runs the callbacks; a
  connection that hangs for ever is outside (`request` in `core.js` sets no timeout).
* `Workers`: strong fairness of every request's way: a loop that is free takes the next
  callback, threads and connections are handed out in turn, an AI call ends by its
  timeout. What `EndsOrStalls` allows, a loop that is stopped by an import, is a wait
  that no fairness ends.
* `Scans`: every call to a model or a search has a timeout, so a step of the scan happens,
  with whatever answer; nothing makes a call succeed.

## Proofs

All are checked by TLAPS without assumptions other than the named ones on constants.

`SessionsProofs`: `TypeCorrect`, `RevocationLasts`, `SessionsKnow`, `ServerKeepsPromise`,
for any accounts, requests, tokens and versions and both orders of answer and commit. As
`ResetLogsOutEverywhere` shows, revocation holds only where writers of one account did not
overlap, and `RevokedForGood` says so with the history of overlaps. It is not inductive: it
says nothing of a request that holds a version it read earlier. `Serial(u)` adds that at
most one writer is under way on `u`, what it read is still current, no token is ahead
of the row except one answered before its commit, and whoever is up to date knows the
password; further parts describe tokens of changes in flight and accounts being
created. Each action has a lemma, with one step per part of the invariant it can disturb.
`ServerKeepsPromise` maps every step to one of `SessionPromise`: an issue, an expiry, or a
revocation of the accounts the step wrote, which names the tokens that were waiting for
that write. What the abstract step has to leave alone follows from the invariant: on a
serial account a write kills all live tokens of that account and no other token changes.

`LimitsProofs`: of `RateLimit`, `TypesHold`, `SweepSound`, `SurgesAreBounded`,
`RefusalsAreEarned`. A bucket ages unseen between requests, so the invariant
`EndsAfterSweep` relates the end of its window to the last sweep: no window in the table
ended before that sweep, which is younger than the interval after every request. `Budgets`
relates the bucket to the history: while its window lasts, what was let through since its
first request is what it counts, up to the limit, its first request is still in the history,
and what is older is less than the limit; without a live bucket the whole history is less
than the limit. A surge is the sum of both. Of `LoginThrottle`, `ThrottleTypesHold` and
`OvershootsAreBounded`, for any threads, addresses, accounts, deques and limits: within a
window no more wrong passwords of an account are tried than the limit and one per other
thread, besides those that a race dropped (`lost`). `Covered`: a tried password is in the
account's deque or in the hands of a thread that has still to append it there. `Counted`: a
thread that passes the check has seen fewer than the limit in the deque, and is none of
those that hold a failure, verify a password, or are about to pass with a deque which a
success has taken out of the dictionary; so all of these are bounded together.

`PageProofs`: `TypeCorrect`, `LostOnlyToRivals` of `Camera`, `PageLosesToRivals`,
`LeavingSwitchesOff`, `PanelTypeCorrect`, `WinesBelong`. `LostStreamHadRival` says nothing
of requests still pending; `Rivals` adds that whatever is pending next to another request,
or next to a held stream, was a rival. A step of the page is, for the camera, a step of
`Camera` or a stutter, so the theorem about lost streams carries over. For the light,
`Foreseen` adds streams that are pending, so that a late answer finds its stream in `late` or
among the rivals; for the wines, `Alike` adds the answers that are
on their way: as long as nothing overlapped, all of them are of the list in the heading.

`FavoritesProofs`: `ServerKeepsShelf` (any number of requests, threads and connections
implement `Shelf`), `ServerKeepsOrder`, which adds what `Shelf` alone keeps (lemma
`ShelfStaysOrdered`), `ServerClashHadCause`, `ServerFailureHadRival`, and of `Workers`
`PoolsAreNotOverdrawn` and `RefusalsHaveCause`. A commit is an operation of `Shelf` only if
what the handler found at its flush still holds: `Ready` says so for each flushed request,
and `Apart`, that no two flushed requests write what the other one writes or refers to, is
what the locks give and what keeps `Ready`. The statements about races need that
overlapping is seen from both sides, and that whoever wrote what a request has read since
is among those it overlapped. `WInv` relates the place of a request
to the stage of its handler. A request is refused only when somebody holds a connection
and nobody who does can move: then all of them are at a lock, or wait for a thread or for
the AI services. Without the last, whoever holds a lock that another one waits for is an
import on the loop, beside a handler that has its answer and cannot return it (`Stalled`),
or nobody is in a handler at all and what waits for a thread finds none (`Starved`).

`CollectionProofs`: of `Ratings`, `TypeCorrect`, `ConflictsHadRivals`, `SheetIsSynced`.
`Single`: a write outside `together` is the only one, and what it found is current. `Synced`
follows the last request from stage to stage: what the sheet shows is what the request is
going to store. `Exclusive`: whoever has flushed a change still fits the row.
Of `Backup`, `SteadyRowsComeBack`, `MergesBringBack`, `MergingTwiceIsOnce`,
`TablesKeepIntegrity`, for any collection and any number of edits between the SELECTs and after them: what is
deleted once the export has ended stays in `steady`, and both modes must bring it back. The
archive as a whole keeps no foreign key: a wine can be deleted between the SELECT of the
wines and that of the ratings. `Followed` says of what was there throughout that it is in
the archive's table if that one has been read and in the database if not, `Rooted` that
these rows keep their foreign keys among themselves, and `Unique` that each table of the
archive keeps the constraint it was read under, so that no other row takes the place of
a steady one. `Absorbed` is what a merge leaves and a second merge finds: every row of the
archive that can be placed has its like in the tables.

`PhotosProofs`: `TypeCorrect`, `PhotosExist`, `FilesAreNamed`, for any wines, files and
requests and both databases. The two invariants follow files by name, so the strengthening
says whose a name is (`Owned`), that nobody else knows the name of an upload which is not
committed (`Fresh`), that a row which is being inserted is nobody else's (`Births`), that
a row is written by one transaction at a time (`Exclusive`), and that from its flush on a
request knows whether its read is out of date (`Current`).

`ScanProofs`: of `ScanFlow`, `LabelsAreKept`, `BackLabelsAreNoPhotos`, `PhotosAreUsedOnce`, for any
number of pictures, cards, wines and readings. That no callback changes a field needs types
only. A picture reaches a wine through page variables and through callbacks that read them
when they run; `Patient` says why that goes well for a user who waits: there is never more
than one thing in flight (`OneInFlight`), the page knows that a back label is on its way
(`BackIsKnown`), and a picture that may still be sent is nobody's photo yet
(`PhotosAreApart`).
Of `Scans`, `LevsAreDistances`, `DuplicatesAreWarned`, `LaterOnlyFillsGaps`
and `ScanTypesHold`, for any names, letters, replies, limits and size of
the collection. `_lev` is a recursive function, so that there is no RECURSIVE operator in
the way, and what holds in every cell of its table is proved by the least cell in which
it fails (`CellByCell`, from `AllNaturals`, which needs only that the order of the naturals
is well-founded). A table goes up by at most one from a cell to the next (`CellAbove`,
`CellSteps`); hence an edit changes the distance to any word by at most one
(`EditCostsOne`), and whatever is at distance one is an edit away (`SmallDistance`,
`OneApartIsEdit`): `LevCountsEdits`. A word misread once therefore still matches, all
words of one of the two names find their like, and the name as read is as similar as a name can
be (`MisreadIsSimilar`); what is that similar is in the search's result, unless it is full
(`LookupFinds`, from `BestAreMany`: the elements of a finite strict order with fewer than M
before them are M, unless they are all). `ScanInv` carries this from the search to the end
of the scan: what the light did (`Misreadings`), what is still empty at which stage
(`Beginnings`), and the types. That a name has a significant word is part of
`DuplicateIsWarned` for the true name as for the one read: a wine called by weak words
alone (`_WEAK_TOKENS`) is never found by name.

`BrowseProofs`: `CardsAreCurrent`, `MoreContinuesTheCards` and `BrowseTypesHold`, for any
number of wines, kinds, page sizes and limits. The two properties speak of the moments at
which nothing is under way; `ListInv` covers those in between: as long as no refresh was
missed, the cards are a prefix of the server's answer (`InStep`), or the request in flight
brings, from where it starts and with as many rows as it asks for, what makes them one.
`ListIsCurrent` itself does not mention that answer: it says which wines the cards show. So
`MatchingListsHits` proves that the answer lists each matching wine once, newest first.
`Matching` chooses as the i-th the wine with i - 1 newer ones; there is exactly one because
counting the newer ones is injective into as many numbers as there are wines, hence onto
(`NewerCounts`).

Only model-checked: liveness (`RequestsEnd`, `LockOpens`, `RetriesAreServed`,
`ClicksEnd`, `LoadingEnds`, `EndsOrStalls`, `ScanIsAnswered`), because the prover has
neither fairness nor ENABLED. Every invariant and every action property that a run checks is
the statement of a theorem. `ScanFlow`'s `TypeOK` has none: closing a card is `Remove`, a
`SelectSeq`, which tlapm does not expand. The library's induction theorems take an operator, which no
installed prover can instantiate; where induction is needed (`AllNaturals`, `Iterates`)
it is done on a set, by its least element outside. Edit distances above two, which nothing
in the code tells apart, are not characterised.

## Abstractions worth knowing

* A commit is atomic; a transaction sees what is committed (READ COMMITTED). Locks are
  taken at the flush, all at once, so deadlocks between the locks of two transactions,
  which PostgreSQL ends with an error, are not modelled. `Photos` also starts with
  SQLite's single lock, by the variable `database`, which nothing changes.
* Passwords, file contents, stars, bodies and label readings are members of small sets.
* `Sessions`: versions are counted up to `MaxVersion`, server starts up to `MaxBoots`.
* `LoginThrottle`: the clock of `_prune` is read where it is compared. A failure is its age
  and a number, so that those of one moment are told apart.
* `RateLimit`: `/api/health` is exempt, `/healthz` is not and counts as a default
  request. The limiter's lock is not modelled: its code has no await and one event loop.
* `Ratings`: the wine stays; a connection that breaks while the handler runs on is left
  out, so `StarsAreSynced` does not cover it. Whether the answer leaves before the commit
  is chosen at the start (`early`); a commit that fails is then confirmed all the same.
* `Favorites`: an import of either mode brings lists of any names; a replacing one removes
  all others and the wines. The wines and items of the archive are in `Backup`: they have new
  ids and meet no other request. An account is not modelled: lists are shared.
* `Camera` and `Page`: any card an analysis has opened may have a "Retake photo", cards
  filled by hand are not counted, and the file picker may deliver a picture at any time.
  That a card covers the page is used where it keeps the user from the tab bar and the
  camera's buttons; what is beneath it on the favorites tab stays possible. All of these
  only add behaviours.
* `Workers`: the end of `get_db` has a thread limiter of its own in Starlette, so it
  waits for none. Requests that are cancelled are in `Sessions`.
* `Matching` and `Scans`: a name is a set of words without case and accents; an AI's reply
  is the set of fields it gives, so a value that is present but wrong is not told apart.
  `Telling` are the replies with a grape that `enrich.py`'s table has a type for.
  An AI call that times out is `Refused`.
* `FavoritesPanel`: GETs of the overview that are in flight at once count as one, as each
  answer redraws everything. That `Loading` is neither a snapshot nor a set of them is an
  assumption the proof of `PanelTypeCorrect` needs and TLC's values meet.
* `Browse`: a write's answer comes after its commit (`Sessions` has the other order), and
  ratings, which the client does not refresh the list for at all, are not on the cards.
* `ScanFlow`: of the fields there are two: one that a reading fills only when it is empty,
  like all but one, and `wine_type`, whose "other" counts as empty.
* `ScanFlow`: a save that fails may have stored the wine or not; a retry then stores a
  second one, which no property forbids.

## Not modelled

* Application shell, schemas, rendering, build and deployment: stateless wiring, parsing
  and layout. The single worker process that deployment starts is assumed.
* The confidence of a scan and its hint at the back label: formulas of one answer.
* In `enrich.py` and `schemas.py`: clamping of numbers, gauge words, prompts, the parsing
  of HTML and JSON: text handling whose results are the sets of fields of `Scans`.
* `edit_comment`: a SELECT and an UPDATE of one row by its author, which meets a deletion
  as a rename meets one in `Favorites`.
* Account names that differ in case: the same check over the same kind of constraint as
  for lists; a second spelling in `Sessions` would double its states for one insert.
* The throttle's dictionary grows with every address and name ever tried: `LoginThrottle`
  bounds the keys, as every model must.
* Seen while reading: `logout` clears the cookies on the injected response but returns
  another one, so it relies on the version alone; in development mode `bootstrap_admin`
  logs a password other than the one it hashed.

## Plan

1. Hazards without a property: case variants of account names in `Sessions`, and the retry
   of a save whose answer was lost, with the second wine it stores, in `ScanFlow`.
2. `Browse` with facets and ratings on the cards; the detail sheet's photo upload and
   deletion, composed with `Photos`.
3. `Backup`: case variants of account and list names, composed with `Favorites`' locks.
