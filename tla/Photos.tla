------------------------------- MODULE Photos -------------------------------
(***************************************************************************)
(* Wine rows and their photo files (app/routers/wines.py, app/services/    *)
(* images.py, the wine part of app/services/backup.py).                    *)
(*                                                                         *)
(* The row is transactional, the file is not: a handler stores the new     *)
(* file before its transaction commits and unlinks the old one before it   *)
(* commits as well.  Every handler reads the row first; another request    *)
(* may change the row before this one takes its lock at the flush.         *)
(*                                                                         *)
(* upload_photo and import_zip are async functions that use the database   *)
(* and the disk synchronously: they hold the server's only event loop      *)
(* until they return, also while they wait for a row lock.  All other      *)
(* handlers run in worker threads, but go back to the loop before their    *)
(* transaction is committed (get_db, in a thread again).                   *)
(***************************************************************************)
EXTENDS Naturals, FiniteSets

CONSTANTS
  Wines,     \* wine ids (uuid4: never reused)
  Files,     \* file names drawn by store_photo: random, never drawn twice
  Reqs,      \* requests served at the same time
  Databases, \* the kinds of database the server may be deployed with
  None

ASSUME PhotosAssumption ==
  /\ None \notin Files \cup Wines
  /\ Databases \subseteq {"PostgreSQL", "SQLite"}

VARIABLES
  database, \* which one the server is deployed with, never changed:
           \* "PostgreSQL", a lock per row, waited for without limit, or
           \* "SQLite", one lock, given up after the busy timeout
  wine,    \* committed rows: id -> [state, photo]
  disk,    \* name -> "unused", "temp" (half written), "stored", "unlinked"
  home,    \* history: name -> wine it was stored for, or None
  req,     \* request -> what its handler holds
  torn,    \* history: wines whose file was unlinked by a failed transaction
  stale,   \* history: files that a row named when a request with an outdated
           \* read overwrote or deleted it
  spilled  \* history: files left by a transaction or by a write that failed

vars == <<database, wine, disk, home, req, torn, stale, spilled>>

Ops    == {"none", "create", "edit", "upload", "remove", "delete", "import"}
Stages == {"idle", "loaded", "wiped", "temp", "stored", "flushed", "unlinked",
           "leaving"}
Request == [op: Ops, stage: Stages, wine: Wines \cup {None},
            old: Files \cup {None}, new: Files \cup {None}, drops: SUBSET Wines]
Idle == [op |-> "none", stage |-> "idle", wine |-> None, old |-> None,
         new |-> None, drops |-> {}]

TypeOK ==
  /\ database \in Databases
  /\ wine \in [Wines -> [state: {"free", "live", "gone", "wiped"},
                         photo: Files \cup {None}]]
  /\ disk \in [Files -> {"unused", "temp", "stored", "unlinked"}]
  /\ home \in [Files -> Wines \cup {None}]
  /\ req \in [Reqs -> Request]
  /\ \A r \in Reqs : req[r].stage # "idle" => req[r].wine \in Wines
  /\ torn \subseteq Wines /\ stale \subseteq Files /\ spilled \subseteq Files

RowLocks == database = "PostgreSQL"

Live(w) == wine[w].state = "live"

(***************************************************************************)
(* The event loop and the locks.                                           *)
(***************************************************************************)
Async(q)    == q.op \in {"upload", "import"}
HoldsLoop(r) == Async(req[r]) /\ req[r].stage \notin {"idle", "leaving"}
LoopFree(r) == \A o \in Reqs \ {r} : ~HoldsLoop(o)

\* remove with no photo changes no column: SQLAlchemy sends no UPDATE.
Touches(q) == \/ q.op \in {"edit", "upload", "delete"}
              \/ q.op = "remove" /\ q.old # None

\* The rows request r has updated or deleted and not committed.
LockedBy(r) ==
  LET q == req[r] IN
  q.drops \cup
    {w \in {q.wine} : /\ Touches(q)
                      /\ q.stage \in {"flushed", "unlinked", "leaving"}}

\* Requests that block a write of the rows W.
Blockers(r, W) ==
  {o \in Reqs \ {r} :
     IF RowLocks THEN LockedBy(o) \cap W # {}
     ELSE \/ req[o].op \in {"create", "import"}
             /\ req[o].stage \in {"flushed", "leaving"}
          \/ LockedBy(o) # {}}

Move(r, stage) == req' = [req EXCEPT ![r].stage = stage]

Start(r, op, w) ==
  /\ req[r] = Idle
  /\ LoopFree(r)
  /\ req' = [req EXCEPT ![r] = [Idle EXCEPT !.op = op, !.stage = "loaded",
                                  !.wine = w, !.old = wine[w].photo]]
  /\ UNCHANGED <<database, wine, disk, home, torn, stale, spilled>>

\* POST /wines: the new id is drawn by the handler.
CreateWine(r, w) ==
  /\ wine[w].state = "free"
  /\ \A o \in Reqs : req[o].wine # w
  /\ Start(r, "create", w)

\* PATCH /wines/{id}: any column but photo_path.
UpdateWine(r, w)   == Live(w) /\ Start(r, "edit", w)
RemovePhoto(r, w)  == Live(w) /\ Start(r, "remove", w)
DeleteWine(r, w)   == Live(w) /\ Start(r, "delete", w)

\* PUT /wines/{id}/photo; Files bounds the number of uploads of a behaviour.
UploadPhoto(r, w) ==
  /\ Live(w)
  /\ \E f \in Files : disk[f] = "unused"
  /\ Start(r, "upload", w)

\* POST /backup/import of an archive with one new wine.
ImportBackup(r, w) ==
  /\ wine[w].state = "free"
  /\ \A o \in Reqs : req[o].wine # w
  /\ Start(r, "import", w)

\* replace: one DELETE removes every row there is; merge keeps them.
Wipe(r, replace) ==
  /\ req[r].op = "import" /\ req[r].stage = "loaded"
  /\ LET W == IF replace THEN {w \in Wines : Live(w)} ELSE {} IN
     /\ W # {} => Blockers(r, W) = {}
     /\ req' = [req EXCEPT ![r].stage = "wiped", ![r].drops = W]
  /\ UNCHANGED <<database, wine, disk, home, torn, stale, spilled>>

(***************************************************************************)
(* store_photo: write a temporary file, then rename it.                    *)
(***************************************************************************)
WritesFile(q) == \/ q.op = "upload" /\ q.stage = "loaded"
                 \/ q.op = "import" /\ q.stage = "wiped"

WriteTemp(r, f) ==
  /\ WritesFile(req[r])
  /\ disk[f] = "unused"
  /\ disk' = [disk EXCEPT ![f] = "temp"]
  /\ home' = [home EXCEPT ![f] = req[r].wine]
  /\ req' = [req EXCEPT ![r].stage = "temp", ![r].new = f]
  /\ UNCHANGED <<database, wine, torn, stale, spilled>>

Rename(r) ==
  /\ req[r].stage = "temp"
  /\ disk' = [disk EXCEPT ![req[r].new] = "stored"]
  /\ Move(r, "stored")
  /\ UNCHANGED <<database, wine, home, torn, stale, spilled>>

\* import_backup goes on without the photo; what was written of it stays.  (If
\* it fails before that, it goes on at once, as with an archive without photos.)
WriteFails(r) ==
  LET q == req[r] IN
  /\ q.op = "import" /\ q.stage = "temp"
  /\ req' = [req EXCEPT ![r].stage = "stored", ![r].new = None]
  /\ spilled' = spilled \cup {q.new}
  /\ UNCHANGED <<database, wine, disk, home, torn, stale>>

(***************************************************************************)
(* db.flush(): the row is locked; then the old file goes.                  *)
(***************************************************************************)
ReadyToFlush(q) ==
  CASE q.op = "upload" -> q.stage = "stored"
    [] q.op = "import" -> q.stage \in {"wiped", "stored"}
    [] OTHER           -> q.stage = "loaded"

\* The rows that the flush of q writes and has to wait for.
Needs(q) == IF Touches(q) THEN {q.wine} ELSE {}

\* An UPDATE of a deleted row raises StaleDataError; a DELETE only warns.
Vanished(q) == Touches(q) /\ q.op # "delete" /\ ~Live(q.wine)

Waits(r) == /\ ReadyToFlush(req[r])
            /\ Needs(req[r]) # {} \/ (~RowLocks /\ req[r].op # "remove")
            /\ Blockers(r, Needs(req[r])) # {}

\* A new file whose row is not going to be committed.
Spill(q) == spilled' = spilled \cup ({q.new} \ {None})

Flush(r) ==
  LET q == req[r] IN
  /\ ReadyToFlush(q)
  /\ ~Waits(r)
  /\ ~Vanished(q)
  /\ Move(r, "flushed")
  /\ UNCHANGED <<database, wine, disk, home, torn, stale, spilled>>

\* Variant of FlushVanished: an UPDATE that finds no row is waited for.
FlushVanishedWaits(r) ==
  LET q == req[r] IN
  /\ ReadyToFlush(q)
  /\ ~Waits(r)
  /\ Vanished(q)
  /\ Live(q.wine)
  /\ req' = [req EXCEPT ![r] = Idle]
  /\ Spill(q)
  /\ UNCHANGED <<database, wine, disk, home, torn, stale>>

FlushVanished(r) ==
  LET q == req[r] IN
  /\ ReadyToFlush(q)
  /\ ~Waits(r)
  /\ Vanished(q)
  /\ req' = [req EXCEPT ![r] = Idle]
  /\ Spill(q)
  /\ UNCHANGED <<database, wine, disk, home, torn, stale>>

\* An import that is about to delete the rows it finds.
WipeWaits(r) == /\ req[r].op = "import" /\ req[r].stage = "loaded"
                /\ Blockers(r, {w \in Wines : Live(w)}) # {}

\* Variant of LockTimeout: the loop's own requests wait without limit.
LockTimeoutThreadsOnly(r) ==
  /\ ~RowLocks
  /\ ~Async(req[r])
  /\ Waits(r)
  /\ req' = [req EXCEPT ![r] = Idle]
  /\ Spill(req[r])
  /\ UNCHANGED <<database, wine, disk, home, torn, stale>>

\* SQLite: "database is locked" after the busy timeout.
LockTimeout(r) ==
  /\ ~RowLocks
  /\ Waits(r) \/ WipeWaits(r)
  /\ req' = [req EXCEPT ![r] = Idle]
  /\ Spill(req[r])
  /\ UNCHANGED <<database, wine, disk, home, torn, stale>>

Unlinks(q) == q.op \in {"upload", "remove", "delete"}

\* Variants of Unlink: the handler removes the new file; it removes none.
UnlinkForgotten(r) ==
  /\ req[r].stage = "flushed" /\ Unlinks(req[r])
  /\ Move(r, "unlinked")
  /\ UNCHANGED <<database, wine, disk, home, torn, stale, spilled>>
UnlinkNew(r) ==
  LET q == req[r] IN
  /\ q.stage = "flushed" /\ Unlinks(q)
  /\ disk' = IF q.new = None THEN disk ELSE [disk EXCEPT ![q.new] = "unlinked"]
  /\ Move(r, "unlinked")
  /\ UNCHANGED <<database, wine, home, torn, stale, spilled>>

\* delete_photo: a missing file is no error.
Unlink(r) ==
  LET q == req[r] IN
  /\ q.stage = "flushed" /\ Unlinks(q)
  /\ disk' = IF q.old = None THEN disk ELSE [disk EXCEPT ![q.old] = "unlinked"]
  /\ Move(r, "unlinked")
  /\ UNCHANGED <<database, wine, home, torn, stale, spilled>>

\* The handler returns to the loop, which hands the session to get_db.
Return(r) ==
  /\ req[r].stage = IF Unlinks(req[r]) THEN "unlinked" ELSE "flushed"
  /\ LoopFree(r)
  /\ Move(r, "leaving")
  /\ UNCHANGED <<database, wine, disk, home, torn, stale, spilled>>

SetsPhoto(q) == \/ q.op \in {"upload", "create", "import"}
                \/ q.op = "remove" /\ Touches(q)

\* The row after the commit of q.
Stored(q, w) ==
  IF w \in q.drops THEN [state |-> "wiped", photo |-> None]
  ELSE IF w = q.wine /\ SetsPhoto(q) THEN [state |-> "live", photo |-> q.new]
  ELSE IF w = q.wine /\ q.op = "delete" /\ Live(w) THEN [state |-> "gone", photo |-> None]
  ELSE wine[w]

Commit(r) ==
  LET q == req[r] IN
  /\ q.stage = "leaving"
  /\ wine' = [w \in Wines |-> Stored(q, w)]
  /\ torn' = IF Unlinks(q) /\ Touches(q) THEN torn \ {q.wine} ELSE torn
  /\ stale' = IF Unlinks(q) /\ Touches(q) /\ q.old # wine[q.wine].photo
              THEN stale \cup ({wine[q.wine].photo} \ {None}) ELSE stale
  /\ req' = [req EXCEPT ![r] = Idle]
  /\ UNCHANGED <<database, disk, home, spilled>>

\* A database error, a file error outside import_backup, a crash of the server (which fails
\* every request): the transaction is rolled back, the files stay as they are.
Fail(r) ==
  LET q == req[r] IN
  /\ q.stage # "idle"
  /\ req' = [req EXCEPT ![r] = Idle]
  /\ Spill(q)
  /\ torn' = IF q.stage \in {"unlinked", "leaving"} /\ q.old # None /\ Unlinks(q)
             THEN torn \cup {q.wine} ELSE torn
  /\ UNCHANGED <<database, wine, disk, home, stale>>

-----------------------------------------------------------------------------
Init ==
  /\ database \in Databases
  /\ wine \in [Wines -> [state: {"free", "live"}, photo: {None}]]
  /\ disk = [f \in Files |-> "unused"]
  /\ home = [f \in Files |-> None]
  /\ req = [r \in Reqs |-> Idle]
  /\ torn = {} /\ stale = {} /\ spilled = {}

Begin(r, w) ==
  \/ CreateWine(r, w)
  \/ UpdateWine(r, w)
  \/ UploadPhoto(r, w)
  \/ RemovePhoto(r, w)
  \/ DeleteWine(r, w)
  \/ ImportBackup(r, w)

Step(r) ==
  \/ \E replace \in BOOLEAN : Wipe(r, replace)
  \/ \E f \in Files : WriteTemp(r, f)
  \/ Rename(r) \/ WriteFails(r)
  \/ Flush(r)
  \/ FlushVanished(r)
  \/ LockTimeout(r)
  \/ Unlink(r)
  \/ Return(r)
  \/ Commit(r)

Next == \E r \in Reqs : (\E w \in Wines : Begin(r, w)) \/ Step(r) \/ Fail(r)

Spec == Init /\ [][Next]_vars

\* The loop and the threads run every handler on, and a lock is granted in the
\* order of the requests for it; clients start nothing and nothing has to fail.
Fairness == \A r \in Reqs : SF_vars(Step(r))

FairSpec == Spec /\ Fairness

(***************************************************************************)
(* Properties.                                                             *)
(***************************************************************************)

\* A wine that names a photo has it on disk, unless a request that replaces or
\* removes it is about to commit, or failed between the unlink and the commit;
\* the next photo request that commits repairs the wine (wines.py 324-381).
ShownPhotoExists ==
  \A w \in Wines :
    Live(w) /\ wine[w].photo # None /\ w \notin torn =>
      \/ disk[wine[w].photo] = "stored"
      \/ \E r \in Reqs : /\ w \in LockedBy(r) /\ Unlinks(req[r])
                        /\ req[r].stage \in {"unlinked", "leaving"}

\* Every file on disk is named by a wine or about to be, except for the four
\* ways to lose this very file: the transaction that stored it failed, an import
\* could not finish writing it and went on, a request overwrote the row that named
\* it with an outdated read, or an import wiped the wine.
NoLitter ==
  \A f \in Files :
    disk[f] \in {"temp", "stored"} =>
      \/ wine[home[f]].photo = f
      \/ \E r \in Reqs : req[r].new = f
      \/ f \in stale \cup spilled
      \/ wine[home[f]].state = "wiped"

\* The server stands still: a request on the event loop waits for a row lock
\* whose holder has to get back to the event loop before it can commit.
Stalled ==
  \E r, o \in Reqs :
    /\ HoldsLoop(r)
    /\ \/ Waits(r) /\ o \in Blockers(r, Needs(req[r]))
       \/ WipeWaits(r) /\ o \in Blockers(r, {w \in Wines : Live(w)})
    /\ req[o].stage \in {"flushed", "unlinked"}

\* A request that never ends is explained by a stalled loop, with PostgreSQL:
\* SQLite's busy timeout ends every wait, also one on the event loop.
EndsOrStalls ==
  \A r \in Reqs :
    req[r].stage # "idle" ~> req[r].stage = "idle" \/ (RowLocks /\ Stalled)

\* detail.js (confirmation of the deletion): "The wine, its photo, all ratings
\* and all comments will be removed for everyone."
DeletedWineLeavesNoFile ==
  \A f \in Files :
    home[f] # None /\ f \notin spilled =>
      ~(wine[home[f]].state = "gone" /\ disk[f] = "stored"
        /\ \A r \in Reqs : req[r].wine # home[f])
=============================================================================
