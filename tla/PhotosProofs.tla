---------------------------- MODULE PhotosProofs ----------------------------
(***************************************************************************)
(* Proofs about Photos, for any wines, files, requests and both databases. *)
(*                                                                         *)
(* ShownPhotoExists and NoLitter follow files by their names.  What makes  *)
(* them inductive is whose a name is (Owned, Fresh), that nobody else      *)
(* writes a row between the flush and the commit (Exclusive, Current), and *)
(* that a row which is being inserted is nobody else's (Births).           *)
(***************************************************************************)
EXTENDS Photos, TLAPS

Writing == {"flushed", "unlinked", "leaving"}

Whole == /\ \A r \in Reqs : req[r].stage = "idle" => req[r] = Idle
         /\ \A r \in Reqs : req[r].op = "none" => req[r].stage = "idle"
         /\ \A r \in Reqs : req[r].op # "import" => req[r].drops = {}
         /\ \A r \in Reqs : req[r].stage \in {"loaded", "wiped"} => req[r].new = None
         /\ \A r \in Reqs : req[r].stage = "temp" => req[r].new # None
         /\ \A r \in Reqs : req[r].new # None => req[r].op \in {"upload", "import"}
         /\ \A w \in Wines : wine[w].state = "free" => wine[w].photo = None

\* A name that a row or a request holds was drawn for that wine.
Owned ==
  /\ \A w \in Wines : LET f == wine[w].photo IN
       f # None => home[f] = w /\ disk[f] \in {"stored", "unlinked"}
  /\ \A r \in Reqs : LET f == req[r].old IN
       f # None => home[f] = req[r].wine /\ disk[f] \in {"stored", "unlinked"}
  /\ \A r \in Reqs : LET f == req[r].new IN
       f # None => /\ home[f] = req[r].wine
                   /\ disk[f] = IF req[r].stage = "temp" THEN "temp" ELSE "stored"

\* Nobody else knows the name of an upload that is not committed.
Fresh ==
  \A r \in Reqs : LET f == req[r].new IN
    f # None => /\ \A w \in Wines : wine[w].photo # f
                /\ \A o \in Reqs : req[o].old # f /\ (o # r => req[o].new # f)

\* A row that a request inserts is not there before, and nobody else's.
Inserts(q) == q.op \in {"create", "import"}

Births ==
  /\ \A r \in Reqs : Inserts(req[r]) =>
       /\ wine[req[r].wine].state = "free" /\ req[r].old = None
       /\ \A o \in Reqs \ {r} : req[o].wine # req[r].wine
  /\ \A r \in Reqs : \A w \in req[r].drops : wine[w].state # "free"

Exclusive == \A r, o \in Reqs : r # o => LockedBy(r) \cap LockedBy(o) = {}

\* From the flush on, nobody else deletes the row.
Current ==
  \A r \in Reqs : LET q == req[r] IN
    Touches(q) /\ q.stage \in Writing => (q.op # "delete" => Live(q.wine))

Removed(q) == Unlinks(q) /\ q.stage \in {"unlinked", "leaving"} /\ q.old # None

Unlinked == \A r \in Reqs : Removed(req[r]) => disk[req[r].old] = "unlinked"

\* ShownPhotoExists, with the name that the request has removed.
Kept ==
  \A w \in Wines : LET f == wine[w].photo IN
    Live(w) /\ f # None /\ w \notin torn =>
      disk[f] = "stored" \/ \E r \in Reqs : Removed(req[r]) /\ req[r].old = f

\* NoLitter, and whose the file is.
Clean ==
  \A f \in Files : disk[f] \in {"temp", "stored"} =>
    /\ home[f] \in Wines
    /\ \/ wine[home[f]].photo = f
       \/ \E r \in Reqs : req[r].new = f
       \/ f \in stale \cup spilled
       \/ wine[home[f]].state = "wiped"

IInv == /\ TypeOK /\ Whole /\ Owned /\ Fresh /\ Births
        /\ Exclusive /\ Current /\ Unlinked /\ Kept /\ Clean

-----------------------------------------------------------------------------
LEMMA Constants ==
  /\ None \notin Files /\ None \notin Wines
  /\ Idle \in Request /\ Idle.op = "none" /\ Idle.stage = "idle" /\ Idle.wine = None
  /\ Idle.old = None /\ Idle.new = None /\ Idle.drops = {}
BY PhotosAssumption DEF Idle, Request, Ops, Stages

\* A request that takes the place of r's.
LEMMA SetRequest ==
  ASSUME TypeOK, NEW r \in Reqs, NEW q \in Request, req' = [req EXCEPT ![r] = q]
  PROVE  /\ req' \in [Reqs -> Request]
         /\ req'[r] = q /\ \A o \in Reqs : o # r => req'[o] = req[o]
         /\ \A o \in Reqs : o # r => LockedBy(o)' = LockedBy(o)
<1>1. /\ req' \in [Reqs -> Request]
      /\ req'[r] = q /\ \A o \in Reqs : o # r => req'[o] = req[o]
  BY DEF TypeOK
<1> QED
  BY <1>1 DEF LockedBy, Touches

\* A request that goes on without a file, or gives up nothing of what it holds.
LEMMA StageKeepsIInv ==
  ASSUME IInv, NEW r \in Reqs, NEW q \in Request, req' = [req EXCEPT ![r] = q],
         UNCHANGED <<database, wine, disk, home, torn, stale, spilled>>,
         req[r].stage # "idle", q.stage # "idle",
         q.op = req[r].op, q.wine = req[r].wine, q.old = req[r].old, q.new = req[r].new,
         req[r].stage = "temp" <=> q.stage = "temp",
         q.stage \in {"loaded", "wiped"} => q.new = None,
         q.op # "import" => q.drops = {}, \A w \in q.drops : wine[w].state # "free",
         \A o \in Reqs : o # r => LockedBy(o) \cap LockedBy(r)' = {},
         Touches(q) /\ q.stage \in Writing => (q.op # "delete" => Live(q.wine)),
         Removed(q) <=> Removed(req[r])
  PROVE  IInv'
<1>1. /\ req' \in [Reqs -> Request]
      /\ req'[r] = q /\ \A o \in Reqs : o # r => req'[o] = req[o]
      /\ \A o \in Reqs : o # r => LockedBy(o)' = LockedBy(o)
  BY SetRequest DEF IInv
<1>2. TypeOK'
  BY <1>1 DEF IInv, TypeOK
<1>3. Whole'
  BY <1>1 DEF IInv, Whole
<1>4. Owned'
  BY <1>1 DEF IInv, Owned
<1>5. Fresh'
  BY <1>1 DEF IInv, Fresh
<1>6. Births'
  BY <1>1 DEF IInv, Births, Inserts
<1>7. Exclusive'
  BY <1>1 DEF IInv, Exclusive
<1>8. Current'
  <2> SUFFICES ASSUME NEW o \in Reqs, Touches(req'[o]), req'[o].stage \in Writing
               PROVE  req'[o].op # "delete" => Live(req'[o].wine)
    BY DEF Current, Touches, Live
  <2> QED
    BY <1>1 DEF IInv, Current
<1>9. Unlinked' /\ Kept'
  <2>1. \A o \in Reqs : Removed(req[o])' <=> Removed(req[o])
    BY <1>1 DEF Removed, Unlinks
  <2> QED
    BY <1>1, <2>1 DEF IInv, Unlinked, Kept, Live
<1>10. Clean'
  <2>1. \A o \in Reqs : req'[o].new = req[o].new
    BY <1>1
  <2> QED
    BY <2>1 DEF IInv, Clean
<1> QED
  BY <1>2, <1>3, <1>4, <1>5, <1>6, <1>7, <1>8, <1>9, <1>10 DEF IInv

\* A request that ends without a commit.
LEMMA AbandonKeepsIInv ==
  ASSUME IInv, NEW r \in Reqs, req' = [req EXCEPT ![r] = Idle], Spill(req[r]),
         req[r].stage # "idle", UNCHANGED <<database, wine, disk, home, stale>>,
         torn \subseteq torn', torn' \subseteq Wines,
         Removed(req[r]) => req[r].wine \in torn'
  PROVE  IInv'
<1> DEFINE p == req[r]
<1>1. /\ req' \in [Reqs -> Request]
      /\ req'[r] = Idle /\ \A o \in Reqs : o # r => req'[o] = req[o]
      /\ \A o \in Reqs : o # r => LockedBy(o)' = LockedBy(o)
  BY SetRequest, Constants DEF IInv
<1>2. p \in Request /\ p.wine \in Wines
  BY DEF IInv, TypeOK
<1>3. TypeOK'
  <2>1. spilled' \subseteq Files
    BY <1>2 DEF IInv, TypeOK, Spill, Request
  <2> QED
    BY <1>1, <2>1, Constants DEF IInv, TypeOK
<1>4. Whole'
  BY <1>1, Constants DEF IInv, Whole
<1>5. Owned' /\ Fresh'
  BY <1>1, Constants DEF IInv, Owned, Fresh
<1>6. Births'
  <2>1. \A o \in Reqs : Inserts(req[o]) => req[o].wine # None
    BY Constants DEF IInv, TypeOK, Whole, Inserts
  <2> QED
    BY <1>1, <2>1, Constants DEF IInv, Births, Inserts
<1>7. Exclusive' /\ Current'
  <2>1. LockedBy(r)' = {} /\ ~Touches(req'[r])
    BY <1>1, Constants DEF LockedBy, Touches
  <2>2. Exclusive'
    BY <1>1, <2>1 DEF IInv, Exclusive
  <2>3. Current'
    BY <1>1, <2>1 DEF IInv, Current, Touches, Live
  <2> QED
    BY <2>2, <2>3
<1>8. Unlinked' /\ Kept'
  <2>1. /\ \A o \in Reqs : o # r => (Removed(req[o])' <=> Removed(req[o]))
        /\ ~Removed(req[r])'
    BY <1>1, Constants DEF Removed, Unlinks
  <2>2. Unlinked'
    BY <1>1, <2>1 DEF IInv, Unlinked
  <2>3. Kept'
    <3> SUFFICES ASSUME NEW w \in Wines, Live(w), wine[w].photo # None, w \notin torn',
                        disk[wine[w].photo] # "stored"
                 PROVE  \E o \in Reqs : Removed(req[o])' /\ req'[o].old = wine[w].photo
      BY DEF Kept, Live
    <3>1. PICK o \in Reqs : Removed(req[o]) /\ req[o].old = wine[w].photo
      BY DEF IInv, Kept
    <3>2. req[o].wine = w
      BY <3>1 DEF IInv, Owned, Removed
    <3> QED
      BY <1>1, <2>1, <3>1, <3>2
  <2> QED
    BY <2>2, <2>3
<1>9. Clean'
  <2> SUFFICES ASSUME NEW f \in Files, disk[f] \in {"temp", "stored"}
               PROVE  /\ home[f] \in Wines
                      /\ \/ wine[home[f]].photo = f
                         \/ \E o \in Reqs : req'[o].new = f
                         \/ f \in stale \cup spilled'
                         \/ wine[home[f]].state = "wiped"
    BY DEF Clean
  <2>1. p.new = f => f \in spilled'
    BY Constants DEF Spill
  <2>2. spilled \subseteq spilled'
    BY DEF Spill
  <2> QED
    BY <1>1, <2>1, <2>2 DEF IInv, Clean
<1> QED
  BY <1>3, <1>4, <1>5, <1>6, <1>7, <1>8, <1>9 DEF IInv

-----------------------------------------------------------------------------
LEMMA StartKeepsIInv ==
  ASSUME IInv, NEW r \in Reqs, NEW w \in Wines, NEW op \in Ops \ {"none"}, Start(r, op, w),
         IF op \in {"create", "import"}
         THEN wine[w].state = "free" /\ \A o \in Reqs : req[o].wine # w
         ELSE Live(w)
  PROVE  IInv'
<1> DEFINE q == [Idle EXCEPT !.op = op, !.stage = "loaded", !.wine = w, !.old = wine[w].photo]
<1>1. /\ q \in Request /\ q.op = op /\ q.stage = "loaded" /\ q.wine = w
      /\ q.old = wine[w].photo /\ q.new = None /\ q.drops = {}
  BY Constants DEF IInv, TypeOK, Idle, Request, Stages
<1>2. req[r] = Idle /\ req' = [req EXCEPT ![r] = q]
      /\ UNCHANGED <<database, wine, disk, home, torn, stale, spilled>>
  BY DEF Start
<1> HIDE DEF q
<1>3. /\ req' \in [Reqs -> Request]
      /\ req'[r] = q /\ \A o \in Reqs : o # r => req'[o] = req[o]
      /\ \A o \in Reqs : o # r => LockedBy(o)' = LockedBy(o)
  BY <1>1, <1>2, SetRequest DEF IInv
<1>4. TypeOK'
  BY <1>1, <1>2, <1>3 DEF IInv, TypeOK
<1>5. Whole'
  BY <1>1, <1>2, <1>3 DEF IInv, Whole
<1>6. Owned'
  BY <1>1, <1>2, <1>3 DEF IInv, Owned
<1>7. Fresh'
  BY <1>1, <1>2, <1>3 DEF IInv, Fresh
<1>8. Births'
  <2>1. \A o \in Reqs : Inserts(req[o]) => req[o].wine # w
    BY DEF IInv, Births, Inserts, Live
  <2> QED
    BY <1>1, <1>2, <1>3, <2>1 DEF IInv, Births, Inserts, Whole
<1>9. Exclusive' /\ Current'
  <2>1. LockedBy(r)' = {}
    BY <1>1, <1>3 DEF LockedBy
  <2>2. Exclusive'
    BY <1>3, <2>1 DEF IInv, Exclusive
  <2>3. Current'
    BY <1>1, <1>2, <1>3 DEF IInv, Current, Touches, Live, Writing
  <2> QED
    BY <2>2, <2>3
<1>10. Unlinked' /\ Kept'
  <2>1. \A o \in Reqs : Removed(req[o])' <=> Removed(req[o])
    BY <1>1, <1>2, <1>3, Constants DEF Removed, Unlinks
  <2>2. \A o \in Reqs : Removed(req[o]) => req'[o].old = req[o].old
    BY <1>2, <1>3, Constants DEF Removed
  <2> QED
    BY <1>2, <2>1, <2>2 DEF IInv, Unlinked, Kept, Live
<1>11. Clean'
  <2>1. \A o \in Reqs : req'[o].new = req[o].new
    BY <1>1, <1>2, <1>3, Constants
  <2> QED
    BY <1>2, <2>1 DEF IInv, Clean
<1> QED
  BY <1>4, <1>5, <1>6, <1>7, <1>8, <1>9, <1>10, <1>11 DEF IInv

LEMMA BeginKeepsIInv ==
  ASSUME IInv, NEW r \in Reqs, NEW w \in Wines, Begin(r, w)
  PROVE  IInv'
<1>1. PICK op \in Ops \ {"none"} :
        /\ Start(r, op, w)
        /\ IF op \in {"create", "import"}
           THEN wine[w].state = "free" /\ \A o \in Reqs : req[o].wine # w
           ELSE Live(w)
  BY DEF Begin, CreateWine, UpdateWine, UploadPhoto, RemovePhoto, DeleteWine, ImportBackup, Ops
<1> QED
  BY <1>1, StartKeepsIInv

LEMMA WipeKeepsIInv ==
  ASSUME IInv, NEW r \in Reqs, NEW replace \in BOOLEAN, Wipe(r, replace)
  PROVE  IInv'
<1> DEFINE p == req[r]
           W == IF replace THEN {w \in Wines : Live(w)} ELSE {}
           q == [p EXCEPT !.stage = "wiped", !.drops = W]
<1>1. p \in Request /\ p.op = "import" /\ p.stage = "loaded" /\ p.new = None /\ W \subseteq Wines
  BY DEF IInv, TypeOK, Whole, Wipe
<1>2. /\ q \in Request /\ q.stage = "wiped" /\ q.op = p.op /\ q.wine = p.wine
      /\ q.old = p.old /\ q.new = p.new /\ q.drops = W
  BY <1>1 DEF Request, Stages
<1>3. req' = [req EXCEPT ![r] = q]
      /\ UNCHANGED <<database, wine, disk, home, torn, stale, spilled>>
  BY DEF Wipe
<1>4. W # {} => Blockers(r, W) = {}
  BY DEF Wipe
<1>5. \A w \in W : wine[w].state # "free"
  BY DEF Live
<1> HIDE DEF q, W
<1>6. ~Touches(q) /\ ~Removed(q) /\ ~Removed(p)
  BY <1>1, <1>2 DEF Touches, Removed, Unlinks
<1>7. LockedBy(r)' = W
  <2>1. req'[r] = q
    BY <1>2, <1>3, SetRequest DEF IInv
  <2> QED
    BY <1>2, <2>1 DEF LockedBy
<1>8. \A o \in Reqs : o # r => LockedBy(o) \cap W = {}
  BY <1>4 DEF Blockers
<1> QED
  BY <1>1, <1>2, <1>3, <1>5, <1>6, <1>7, <1>8, StageKeepsIInv DEF IInv, TypeOK

LEMMA WriteTempKeepsIInv ==
  ASSUME IInv, NEW r \in Reqs, NEW f \in Files, WriteTemp(r, f)
  PROVE  IInv'
<1> DEFINE p == req[r]
           q == [p EXCEPT !.stage = "temp", !.new = f]
<1>1. /\ p \in Request /\ p.new = None /\ p.wine \in Wines /\ p.op \in {"upload", "import"}
      /\ p.stage \in {"loaded", "wiped"} /\ disk[f] = "unused"
  BY DEF IInv, TypeOK, Whole, WriteTemp, WritesFile
<1>2. /\ q \in Request /\ q.stage = "temp" /\ q.op = p.op /\ q.wine = p.wine
      /\ q.old = p.old /\ q.new = f /\ q.drops = p.drops
  BY <1>1 DEF Request, Stages
<1>3. req' = [req EXCEPT ![r] = q] /\ UNCHANGED <<database, wine, torn, stale, spilled>>
  BY DEF WriteTemp
<1> HIDE DEF q
<1>4. /\ req' \in [Reqs -> Request]
      /\ req'[r] = q /\ \A o \in Reqs : o # r => req'[o] = req[o]
      /\ \A o \in Reqs : o # r => LockedBy(o)' = LockedBy(o)
  BY <1>2, <1>3, SetRequest DEF IInv
<1>5. /\ disk' \in [Files -> {"unused", "temp", "stored", "unlinked"}]
      /\ home' \in [Files -> Wines \cup {None}]
      /\ disk'[f] = "temp" /\ home'[f] = p.wine
      /\ \A g \in Files : g # f => disk'[g] = disk[g] /\ home'[g] = home[g]
  BY <1>1 DEF IInv, TypeOK, WriteTemp
\* Nobody holds an unused name.
<1>6. /\ \A w \in Wines : wine[w].photo # f
      /\ \A o \in Reqs : req[o].old # f /\ req[o].new # f
  BY <1>1, Constants DEF IInv, Owned
<1>7. /\ \A w \in Wines : wine[w].photo \in Files \cup {None}
      /\ \A o \in Reqs : req[o].old \in Files \cup {None} /\ req[o].new \in Files \cup {None}
  BY DEF IInv, TypeOK, Request
<1>8. TypeOK'
  BY <1>1, <1>2, <1>3, <1>4, <1>5 DEF IInv, TypeOK
<1>9. Whole'
  BY <1>1, <1>2, <1>3, <1>4, Constants DEF IInv, Whole
<1>10. Owned'
  BY <1>1, <1>2, <1>3, <1>4, <1>5, <1>6, <1>7 DEF IInv, Owned
<1>11. Fresh'
  BY <1>1, <1>2, <1>3, <1>4, <1>6 DEF IInv, Fresh
<1>12. Births'
  BY <1>2, <1>3, <1>4 DEF IInv, Births, Inserts
<1>13. Exclusive' /\ Current'
  <2>1. LockedBy(r)' \subseteq LockedBy(r)
    BY <1>2, <1>4 DEF LockedBy
  <2>2. Exclusive'
    BY <1>4, <2>1 DEF IInv, Exclusive
  <2>3. Current'
    BY <1>2, <1>3, <1>4 DEF IInv, Current, Touches, Live, Writing
  <2> QED
    BY <2>2, <2>3
<1>14. Unlinked' /\ Kept'
  <2>1. \A o \in Reqs : Removed(req[o])' <=> Removed(req[o])
    BY <1>1, <1>2, <1>4 DEF Removed, Unlinks
  <2>2. \A o \in Reqs : req'[o].old = req[o].old
    BY <1>2, <1>4
  <2>3. Unlinked'
    BY <1>5, <1>6, <1>7, <2>1, <2>2 DEF IInv, Unlinked, Removed
  <2>4. Kept'
    BY <1>3, <1>5, <1>6, <1>7, <2>1, <2>2 DEF IInv, Kept, Live
  <2> QED
    BY <2>3, <2>4
<1>15. Clean'
  <2>1. \A o \in Reqs : req[o].new # None => req'[o].new = req[o].new
    BY <1>1, <1>4
  <2>2. ASSUME NEW g \in Files, g # f, disk[g] \in {"temp", "stored"}
        PROVE  /\ home[g] \in Wines
               /\ \/ wine[home[g]].photo = g
                  \/ \E o \in Reqs : req'[o].new = g
                  \/ g \in stale \cup spilled
                  \/ wine[home[g]].state = "wiped"
    BY <2>1, <2>2, Constants DEF IInv, Clean
  <2>3. req'[r].new = f
    BY <1>2, <1>4
  <2> QED
    BY <1>1, <1>3, <1>5, <2>2, <2>3 DEF Clean
<1> QED
  BY <1>8, <1>9, <1>10, <1>11, <1>12, <1>13, <1>14, <1>15 DEF IInv

\* A file that changes its state, and the request that changes it.
LEMMA FileKeeps ==
  ASSUME IInv, NEW r \in Reqs, NEW q \in Request, req' = [req EXCEPT ![r] = q],
         UNCHANGED <<database, wine, home, torn, stale, spilled>>,
         q.stage \notin {"idle", "loaded", "wiped", "temp"}, req[r].stage # "idle",
         q.op = req[r].op, q.wine = req[r].wine, q.old = req[r].old, q.new = req[r].new,
         q.drops = req[r].drops,
         LockedBy(r)' = LockedBy(r), q.stage \in Writing => req[r].stage \in Writing,
         disk' \in [Files -> {"unused", "temp", "stored", "unlinked"}]
  PROVE  /\ req' \in [Reqs -> Request]
         /\ req'[r] = q /\ \A o \in Reqs : o # r => req'[o] = req[o]
         /\ TypeOK' /\ Whole' /\ Fresh' /\ Births' /\ Exclusive' /\ Current'
<1>1. /\ req' \in [Reqs -> Request]
      /\ req'[r] = q /\ \A o \in Reqs : o # r => req'[o] = req[o]
      /\ \A o \in Reqs : o # r => LockedBy(o)' = LockedBy(o)
  BY SetRequest DEF IInv
<1>2. TypeOK'
  BY <1>1 DEF IInv, TypeOK
<1>3. Whole'
  BY <1>1 DEF IInv, Whole
<1>4. Fresh'
  BY <1>1 DEF IInv, Fresh
<1>5. Births'
  BY <1>1 DEF IInv, Births, Inserts
<1>6. Exclusive'
  BY <1>1 DEF IInv, Exclusive
<1>7. Current'
  BY <1>1 DEF IInv, Current, Touches, Live
<1> QED
  BY <1>1, <1>2, <1>3, <1>4, <1>5, <1>6, <1>7

LEMMA RenameKeepsIInv ==
  ASSUME IInv, NEW r \in Reqs, Rename(r)
  PROVE  IInv'
<1> DEFINE p == req[r]
           q == [p EXCEPT !.stage = "stored"]
           f == p.new
<1>1. p \in Request /\ p.stage = "temp"
  BY DEF IInv, TypeOK, Rename
<1>2. /\ q \in Request /\ q.stage = "stored" /\ q.op = p.op /\ q.wine = p.wine
      /\ q.old = p.old /\ q.new = f /\ q.drops = p.drops
  BY <1>1 DEF Request, Stages
<1>3. /\ req' = [req EXCEPT ![r] = q] /\ UNCHANGED <<database, wine, home, torn, stale, spilled>>
      /\ disk' = [disk EXCEPT ![f] = "stored"]
  BY DEF Rename, Move
<1>4. /\ disk' \in [Files -> {"unused", "temp", "stored", "unlinked"}]
      /\ f \in Files => disk'[f] = "stored"
      /\ \A g \in Files : g # f => disk'[g] = disk[g]
  BY <1>3 DEF IInv, TypeOK
<1> HIDE DEF q
<1>5. LockedBy(r)' = LockedBy(r)
  <2>1. req'[r] = q
    BY <1>2, <1>3, SetRequest DEF IInv
  <2> QED
    BY <1>1, <1>2, <2>1 DEF LockedBy, Touches
<1>6. /\ req' \in [Reqs -> Request]
      /\ req'[r] = q /\ \A o \in Reqs : o # r => req'[o] = req[o]
      /\ TypeOK' /\ Whole' /\ Fresh' /\ Births' /\ Exclusive' /\ Current'
  BY <1>1, <1>2, <1>3, <1>4, <1>5, FileKeeps DEF Writing
<1>7. /\ f # None => /\ \A w \in Wines : wine[w].photo # f
                     /\ \A o \in Reqs : req[o].old # f /\ (o # r => req[o].new # f)
      /\ \A w \in Wines : wine[w].photo \in Files \cup {None}
      /\ \A o \in Reqs : req[o].old \in Files \cup {None} /\ req[o].new \in Files \cup {None}
  BY DEF IInv, Fresh, TypeOK, Request
<1>8. Owned'
  BY <1>1, <1>2, <1>3, <1>4, <1>6, <1>7, Constants DEF IInv, Owned
<1>9. Unlinked' /\ Kept'
  <2>1. \A o \in Reqs : (Removed(req[o])' <=> Removed(req[o])) /\ req'[o].old = req[o].old
    BY <1>1, <1>2, <1>6 DEF Removed, Unlinks
  <2>2. Unlinked'
    BY <1>4, <1>7, <2>1, Constants DEF IInv, Unlinked, Removed
  <2>3. Kept'
    BY <1>3, <1>4, <1>7, <2>1 DEF IInv, Kept, Live
  <2> QED
    BY <2>2, <2>3
<1>10. Clean'
  <2>1. \A o \in Reqs : req'[o].new = req[o].new
    BY <1>2, <1>6
  <2>2. f \in Files => disk[f] = "temp"
    BY <1>1, Constants DEF IInv, Owned
  <2> QED
    BY <1>3, <1>4, <2>1, <2>2 DEF IInv, Clean
<1> QED
  BY <1>6, <1>8, <1>9, <1>10 DEF IInv

LEMMA WriteFailsKeepsIInv ==
  ASSUME IInv, NEW r \in Reqs, WriteFails(r)
  PROVE  IInv'
<1> DEFINE p == req[r]
           q == [p EXCEPT !.stage = "stored", !.new = None]
<1>1. /\ p \in Request /\ p.op = "import" /\ p.stage = "temp" /\ p.wine \in Wines
  BY DEF IInv, TypeOK, WriteFails
<1>2. /\ q \in Request /\ q.stage = "stored" /\ q.op = p.op /\ q.wine = p.wine
      /\ q.old = p.old /\ q.new = None /\ q.drops = p.drops
  BY <1>1 DEF Request, Stages
<1>3. /\ req' = [req EXCEPT ![r] = q] /\ UNCHANGED <<database, wine, disk, home, torn, stale>>
      /\ spilled' = spilled \cup {p.new}
  BY DEF WriteFails
<1> HIDE DEF q
<1>4. /\ req' \in [Reqs -> Request]
      /\ req'[r] = q /\ \A o \in Reqs : o # r => req'[o] = req[o]
      /\ \A o \in Reqs : o # r => LockedBy(o)' = LockedBy(o)
  BY <1>2, <1>3, SetRequest DEF IInv
<1>5. p.new \in Files
  BY <1>1 DEF IInv, Whole, Request
<1>6. TypeOK' /\ Whole'
  BY <1>1, <1>2, <1>3, <1>4, <1>5 DEF IInv, TypeOK, Whole
<1>7. Owned' /\ Fresh' /\ Births'
  <2>1. Owned'
    BY <1>2, <1>3, <1>4 DEF IInv, Owned
  <2>2. Fresh'
    BY <1>2, <1>3, <1>4 DEF IInv, Fresh
  <2>3. Births'
    BY <1>2, <1>3, <1>4 DEF IInv, Births, Inserts
  <2> QED
    BY <2>1, <2>2, <2>3
<1>8. Exclusive' /\ Current'
  <2>1. LockedBy(r)' = LockedBy(r)
    BY <1>1, <1>2, <1>4 DEF LockedBy, Touches
  <2>2. ~Touches(q)
    BY <1>1, <1>2 DEF Touches
  <2>3. Exclusive'
    BY <1>4, <2>1 DEF IInv, Exclusive
  <2>4. Current'
    BY <1>3, <1>4, <2>2 DEF IInv, Current, Touches, Live
  <2> QED
    BY <2>3, <2>4
<1>9. Unlinked' /\ Kept'
  <2>1. \A o \in Reqs : (Removed(req[o])' <=> Removed(req[o])) /\ req'[o].old = req[o].old
    BY <1>1, <1>2, <1>4 DEF Removed, Unlinks
  <2> QED
    BY <1>3, <2>1 DEF IInv, Unlinked, Kept, Live
<1>10. Clean'
  BY <1>2, <1>3, <1>4 DEF IInv, Clean
<1> QED
  BY <1>6, <1>7, <1>8, <1>9, <1>10 DEF IInv

LEMMA UnlinkKeepsIInv ==
  ASSUME IInv, NEW r \in Reqs, Unlink(r)
  PROVE  IInv'
<1> DEFINE p == req[r]
           q == [p EXCEPT !.stage = "unlinked"]
           f == p.old
<1>1. p \in Request /\ p.stage = "flushed" /\ Unlinks(p)
  BY DEF IInv, TypeOK, Unlink
<1>2. /\ q \in Request /\ q.stage = "unlinked" /\ q.op = p.op /\ q.wine = p.wine
      /\ q.old = f /\ q.new = p.new /\ q.drops = p.drops
  BY <1>1 DEF Request, Stages
<1>3. /\ req' = [req EXCEPT ![r] = q] /\ UNCHANGED <<database, wine, home, torn, stale, spilled>>
      /\ disk' = IF f = None THEN disk ELSE [disk EXCEPT ![f] = "unlinked"]
  BY DEF Unlink, Move
<1>4. /\ f \in Files \cup {None}
      /\ disk' \in [Files -> {"unused", "temp", "stored", "unlinked"}]
      /\ f # None => disk'[f] = "unlinked"
      /\ \A g \in Files : g # f => disk'[g] = disk[g]
  BY <1>1, <1>3 DEF IInv, TypeOK, Request
<1> HIDE DEF q
<1>5. LockedBy(r)' = LockedBy(r)
  <2>1. req'[r] = q
    BY <1>2, <1>3, SetRequest DEF IInv
  <2> QED
    BY <1>1, <1>2, <2>1 DEF LockedBy, Touches
<1>6. /\ req' \in [Reqs -> Request]
      /\ req'[r] = q /\ \A o \in Reqs : o # r => req'[o] = req[o]
      /\ TypeOK' /\ Whole' /\ Fresh' /\ Births' /\ Exclusive' /\ Current'
  BY <1>1, <1>2, <1>3, <1>4, <1>5, FileKeeps DEF Writing
<1>7. /\ \A o \in Reqs : req[o].new # None => req[o].new # f
      /\ \A w \in Wines : wine[w].photo \in Files \cup {None}
      /\ \A o \in Reqs : req[o].old \in Files \cup {None} /\ req[o].new \in Files \cup {None}
  BY DEF IInv, Fresh, TypeOK, Request
<1>8. Owned'
  BY <1>1, <1>2, <1>3, <1>4, <1>6, <1>7, Constants DEF IInv, Owned
<1>9. Unlinked' /\ Kept'
  <2>1. \A o \in Reqs : o # r => (Removed(req[o])' <=> Removed(req[o]))
    BY <1>6 DEF Removed, Unlinks
  <2>2. \A o \in Reqs : req'[o].old = req[o].old
    BY <1>2, <1>6
  <2>3. f # None => Removed(req[r])'
    BY <1>1, <1>2, <1>6 DEF Removed, Unlinks
  <2>4. ~Removed(p)
    BY <1>1 DEF Removed
  <2>5. Unlinked'
    BY <1>4, <1>7, <2>1, <2>2, Constants DEF IInv, Unlinked, Removed
  <2>6. Kept'
    BY <1>3, <1>4, <1>7, <2>1, <2>2, <2>3, <2>4 DEF IInv, Kept, Live
  <2> QED
    BY <2>5, <2>6
<1>10. Clean'
  <2>1. \A o \in Reqs : req'[o].new = req[o].new
    BY <1>2, <1>6
  <2> QED
    BY <1>3, <1>4, <2>1, Constants DEF IInv, Clean
<1> QED
  BY <1>6, <1>8, <1>9, <1>10 DEF IInv

LEMMA FlushKeepsIInv ==
  ASSUME IInv, NEW r \in Reqs, Flush(r)
  PROVE  IInv'
<1> DEFINE p == req[r]
           q == [p EXCEPT !.stage = "flushed"]
<1>1. /\ p \in Request /\ p.wine \in Wines /\ p.stage \in {"loaded", "wiped", "stored"}
      /\ p.op # "import" => p.drops = {}
  BY DEF IInv, TypeOK, Whole, Flush, ReadyToFlush
<1>2. /\ q \in Request /\ q.stage = "flushed" /\ q.op = p.op /\ q.wine = p.wine
      /\ q.old = p.old /\ q.new = p.new /\ q.drops = p.drops
  BY <1>1 DEF Request, Stages
<1>3. /\ req' = [req EXCEPT ![r] = q]
      /\ UNCHANGED <<database, wine, disk, home, torn, stale, spilled>>
  BY DEF Flush, Move
<1> HIDE DEF q
<1>4. ~Removed(p) /\ ~Removed(q) /\ (Touches(q) <=> Touches(p))
  BY <1>1, <1>2 DEF Removed, Touches
<1>5. Touches(p) => /\ Blockers(r, {p.wine}) = {}
                    /\ p.op # "delete" => Live(p.wine)
  BY DEF Flush, Waits, Needs, Vanished
<1>6. LockedBy(r)' = p.drops \cup (IF Touches(p) THEN {p.wine} ELSE {})
  <2>1. req'[r] = q
    BY <1>2, <1>3, SetRequest DEF IInv
  <2> QED
    BY <1>2, <1>4, <2>1 DEF LockedBy
<1>7. ASSUME NEW o \in Reqs, o # r
      PROVE  LockedBy(o) \cap LockedBy(r)' = {}
  <2>1. LockedBy(o) \cap p.drops = {}
    BY <1>7 DEF IInv, Exclusive, LockedBy
  <2>2. Touches(p) => LockedBy(o) \cap {p.wine} = {}
    BY <1>5, <1>7 DEF Blockers
  <2> QED
    BY <1>6, <2>1, <2>2
<1>8. \A w \in q.drops : wine[w].state # "free"
  BY <1>1, <1>2, <1>3 DEF IInv, Births, TypeOK
<1>9. Touches(q) => (q.op # "delete" => Live(q.wine))
  BY <1>2, <1>3, <1>4, <1>5
<1> QED
  BY <1>1, <1>2, <1>3, <1>4, <1>7, <1>8, <1>9, StageKeepsIInv

LEMMA ReturnKeepsIInv ==
  ASSUME IInv, NEW r \in Reqs, Return(r)
  PROVE  IInv'
<1> DEFINE p == req[r]
           q == [p EXCEPT !.stage = "leaving"]
<1>1. /\ p \in Request /\ p.stage \in {"flushed", "unlinked"}
      /\ p.stage = "unlinked" <=> Unlinks(p)
      /\ p.op # "import" => p.drops = {}
  BY DEF IInv, TypeOK, Whole, Return
<1>2. /\ q \in Request /\ q.stage = "leaving" /\ q.op = p.op /\ q.wine = p.wine
      /\ q.old = p.old /\ q.new = p.new /\ q.drops = p.drops
  BY <1>1 DEF Request, Stages
<1>3. req' = [req EXCEPT ![r] = q]
      /\ UNCHANGED <<database, wine, disk, home, torn, stale, spilled>>
  BY DEF Return, Move
<1> HIDE DEF q
<1>4. (Removed(q) <=> Removed(p)) /\ (Touches(q) <=> Touches(p))
  BY <1>1, <1>2 DEF Removed, Touches, Unlinks
<1>5. LockedBy(r)' = LockedBy(r)
  <2>1. req'[r] = q
    BY <1>2, <1>3, SetRequest DEF IInv
  <2> QED
    BY <1>1, <1>2, <1>4, <2>1 DEF LockedBy
<1>6. \A o \in Reqs : o # r => LockedBy(o) \cap LockedBy(r) = {}
  BY DEF IInv, Exclusive
<1>7. \A w \in q.drops : wine[w].state # "free"
  BY <1>2 DEF IInv, Births, TypeOK
<1>8. Touches(q) => (q.op # "delete" => Live(q.wine))
  BY <1>1, <1>2, <1>4 DEF IInv, Current, Writing
<1> QED
  BY <1>1, <1>2, <1>3, <1>4, <1>5, <1>6, <1>7, <1>8, StageKeepsIInv

LEMMA EndsKeepIInv ==
  ASSUME IInv, NEW r \in Reqs, FlushVanished(r) \/ LockTimeout(r) \/ Fail(r)
  PROVE  IInv'
<1>1. /\ req' = [req EXCEPT ![r] = Idle] /\ Spill(req[r])
      /\ UNCHANGED <<database, wine, disk, home, stale>>
  BY DEF FlushVanished, LockTimeout, Fail
<1>2. CASE Fail(r)
  <2>1. req[r].stage # "idle" /\ req[r].wine \in Wines
    BY <1>2 DEF Fail, IInv, TypeOK
  <2>2. /\ torn \subseteq torn' /\ torn' \subseteq Wines
        /\ Removed(req[r]) => req[r].wine \in torn'
    BY <1>2, <2>1 DEF Fail, Removed, IInv, TypeOK
  <2> QED
    BY <1>1, <2>1, <2>2, AbandonKeepsIInv
<1>3. CASE FlushVanished(r) \/ LockTimeout(r)
  <2>1. req[r].stage \in {"loaded", "wiped", "stored"} /\ torn' = torn
    BY <1>3 DEF FlushVanished, LockTimeout, Waits, WipeWaits, ReadyToFlush
  <2> QED
    BY <1>1, <2>1, AbandonKeepsIInv DEF Removed, IInv, TypeOK
<1> QED
  BY <1>2, <1>3

-----------------------------------------------------------------------------
LEMMA CommitKeepsIInv ==
  ASSUME IInv, NEW r \in Reqs, Commit(r)
  PROVE  IInv'
<1> DEFINE p == req[r]
           v == p.wine
<1>1. /\ p \in Request /\ p.stage = "leaving" /\ v \in Wines
      /\ p.op # "none" /\ (p.op # "import" => p.drops = {})
  BY DEF IInv, TypeOK, Whole, Commit
<1>2. /\ wine' = [w \in Wines |-> Stored(p, w)]
      /\ torn' = IF Unlinks(p) /\ Touches(p) THEN torn \ {v} ELSE torn
      /\ stale' = IF Unlinks(p) /\ Touches(p) /\ p.old # wine[v].photo
                  THEN stale \cup ({wine[v].photo} \ {None}) ELSE stale
      /\ req' = [req EXCEPT ![r] = Idle] /\ UNCHANGED <<database, disk, home, spilled>>
  BY DEF Commit
<1>3. /\ req' \in [Reqs -> Request]
      /\ req'[r] = Idle /\ \A o \in Reqs : o # r => req'[o] = req[o]
      /\ \A o \in Reqs : o # r => LockedBy(o)' = LockedBy(o)
  BY <1>2, SetRequest, Constants DEF IInv
\* What the commit finds.
<1>4. /\ Inserts(p) => wine[v].state = "free" /\ wine[v].photo = None /\ v \notin p.drops
      /\ Touches(p) => v \in LockedBy(r)
      /\ Touches(p) => /\ p.op # "delete" => Live(v)
                       /\ p.old = wine[v].photo /\ p.old # None /\ Unlinks(p) =>
                            disk[p.old] = "unlinked"
  <2>1. Inserts(p) => wine[v].state = "free" /\ wine[v].photo = None /\ v \notin p.drops
    BY <1>1 DEF IInv, Whole, Births
  <2>2. Touches(p) => v \in LockedBy(r)
    BY <1>1 DEF LockedBy
  <2>3. Touches(p) => (p.op # "delete" => Live(v))
    BY <1>1 DEF IInv, Current, Writing
  <2>4. Unlinks(p) /\ p.old # None => disk[p.old] = "unlinked"
    BY <1>1 DEF IInv, Unlinked, Removed
  <2> QED
    BY <2>1, <2>2, <2>3, <2>4
<1>5. /\ p.new \in Files \cup {None}
      /\ p.new # None => /\ home[p.new] = v /\ disk[p.new] = "stored"
                         /\ p.op \in {"upload", "import"}
                         /\ \A w \in Wines : wine[w].photo # p.new
                         /\ \A o \in Reqs : req[o].old # p.new /\ (o # r => req[o].new # p.new)
  BY <1>1 DEF IInv, Owned, Fresh, Whole, Request
\* Each row after it.
<1>6. ASSUME NEW w \in Wines
      PROVE  \/ wine'[w] = wine[w] /\ w \notin p.drops
                /\ (w = v => p.op \notin {"upload", "create", "import"})
             \/ w \in p.drops /\ wine'[w] = [state |-> "wiped", photo |-> None]
             \/ /\ w = v /\ Touches(p) /\ p.op = "delete"
                /\ wine'[w] = [state |-> "gone", photo |-> None]
             \/ /\ w = v /\ (Inserts(p) \/ (Touches(p) /\ p.op \in {"upload", "remove"}))
                /\ wine'[w] = [state |-> "live", photo |-> p.new] /\ w \notin p.drops
  <2>1. wine'[w] = Stored(p, w)
    BY <1>2
  <2>2. w \in p.drops => p.op = "import"
    BY <1>1
  <2> QED
    BY <2>1, <2>2 DEF Stored, SetsPhoto, Inserts, Touches
<1>7. TypeOK'
  <2>1. ASSUME NEW w \in Wines
        PROVE  wine'[w] \in [state: {"free", "live", "gone", "wiped"}, photo: Files \cup {None}]
    BY <1>5, <1>6 DEF IInv, TypeOK
  <2>2. stale' \subseteq Files
    BY <1>1, <1>2 DEF IInv, TypeOK
  <2> QED
    BY <1>2, <1>3, <2>1, <2>2, Constants DEF IInv, TypeOK
<1>8. Whole'
  <2>1. \A w \in Wines : wine'[w].state = "free" => wine'[w].photo = None
    BY <1>6 DEF IInv, Whole
  <2> QED
    BY <1>3, <2>1, Constants DEF IInv, Whole
<1>9. Owned'
  <2>1. \A w \in Wines : wine'[w].photo \in {None, wine[w].photo} \/ (w = v /\ wine'[w].photo = p.new)
    BY <1>6
  <2> QED
    BY <1>2, <1>3, <1>5, <2>1, Constants DEF IInv, Owned
<1>10. Fresh'
  <2>1. \A w \in Wines : wine'[w].photo \in {None, wine[w].photo, p.new}
    BY <1>6
  <2> QED
    BY <1>3, <1>5, <2>1, Constants DEF IInv, Fresh
<1>11. Births'
  <2>1. ASSUME NEW o \in Reqs, o # r, Inserts(req[o])
        PROVE  /\ wine'[req[o].wine].state = "free"
               /\ req[o].wine # None
    <3>1. /\ wine[req[o].wine].state = "free" /\ req[o].wine # v /\ req[o].wine \in Wines
      BY <1>1, <2>1, Constants DEF IInv, Births, TypeOK, Whole, Inserts
    <3>2. req[o].wine \notin p.drops
      BY <3>1 DEF IInv, Births
    <3> QED
      BY <1>6, <3>1, <3>2, Constants
  <2>2. \A w \in Wines : wine[w].state # "free" => wine'[w].state # "free"
    BY <1>6
  <2>3. \A o \in Reqs : req[o].drops \subseteq Wines
    BY DEF IInv, TypeOK, Request
  <2> QED
    BY <1>3, <2>1, <2>2, <2>3, Constants DEF IInv, Births, Inserts
<1>12. Exclusive'
  <2>1. LockedBy(r)' = {}
    BY <1>3, Constants DEF LockedBy, Touches
  <2> QED
    BY <1>3, <2>1 DEF IInv, Exclusive
\* Nobody else's row that is locked.
<1>13. ASSUME NEW o \in Reqs, o # r, NEW w \in LockedBy(o), w \in Wines
       PROVE  wine'[w] = wine[w]
  <2>1. w \notin p.drops /\ ~(w = v /\ Touches(p))
    BY <1>4, <1>13 DEF IInv, Exclusive, LockedBy
  <2>2. ~(w = v /\ Inserts(p))
    <3>1. w = req[o].wine \/ w \in req[o].drops
      BY DEF LockedBy
    <3> QED
      BY <1>4, <1>13, <3>1 DEF IInv, Births
  <2> QED
    BY <1>6, <1>13, <2>1, <2>2
<1>14. Current'
  <2>1. ASSUME NEW o \in Reqs, o # r, Touches(req[o]), req[o].stage \in Writing
        PROVE  req[o].wine \in Wines /\ wine'[req[o].wine] = wine[req[o].wine]
    <3>1. req[o].wine \in LockedBy(o) /\ req[o].wine \in Wines
      BY <2>1 DEF LockedBy, Writing, IInv, TypeOK
    <3> QED
      BY <1>13, <2>1, <3>1
  <2>2. ~Touches(req'[r])
    BY <1>3, Constants DEF Touches
  <2>3. \A o \in Reqs : Touches(req[o])' <=> Touches(req'[o])
    BY DEF Touches
  <2> SUFFICES ASSUME NEW o \in Reqs, Touches(req'[o]), req'[o].stage \in Writing
               PROVE  req'[o].op # "delete" => wine'[req'[o].wine].state = "live"
    BY <1>2, <2>3 DEF Current, Live
  <2> QED
    BY <1>3, <2>1, <2>2 DEF IInv, Current, Live
<1>15. Unlinked'
  <2>1. \A o \in Reqs : o # r => (Removed(req[o])' <=> Removed(req[o]))
    BY <1>3 DEF Removed, Unlinks
  <2>2. ~Removed(req[r])'
    BY <1>3, Constants DEF Removed
  <2> QED
    BY <1>2, <1>3, <2>1, <2>2 DEF IInv, Unlinked
<1>16. Kept'
  <2> SUFFICES ASSUME NEW w \in Wines, wine'[w].state = "live", wine'[w].photo # None, w \notin torn',
                      disk[wine'[w].photo] # "stored"
               PROVE  \E o \in Reqs : Removed(req'[o]) /\ req'[o].old = wine'[w].photo
    <3>1. \A o \in Reqs : Removed(req[o])' <=> Removed(req'[o])
      BY DEF Removed, Unlinks
    <3> QED
      BY <1>2, <3>1 DEF Kept, Live
  <2>1. wine'[w] = wine[w] /\ (w = v => p.op \notin {"upload", "create", "import"})
    BY <1>5, <1>6
  <2>2. ~(w = v /\ Unlinks(p) /\ Touches(p))
    <3>1. w = v /\ Unlinks(p) /\ Touches(p) => p.op \in {"remove", "delete"}
      BY <2>1 DEF Unlinks
    <3>2. w = v /\ Touches(p) /\ p.op = "delete" => wine'[w].state # "live"
      BY <1>1, <1>2 DEF Stored, SetsPhoto, Live
    <3>3. w = v /\ Touches(p) /\ p.op = "remove" => wine'[w].photo = None
      BY <1>1, <1>2, <1>5 DEF Stored, SetsPhoto
    <3> QED
      BY <3>1, <3>2, <3>3
  <2>3. w \notin torn
    BY <1>2, <2>2
  <2>4. PICK o \in Reqs : Removed(req[o]) /\ req[o].old = wine[w].photo
    BY <2>1, <2>3 DEF IInv, Kept, Live
  <2>5. req[o].wine = w
    BY <2>4 DEF IInv, Owned, Removed
  <2>6. o # r
    BY <2>2, <2>4, <2>5 DEF Removed, Touches, Unlinks
  <2> QED
    BY <1>3, <2>1, <2>4, <2>6
<1>17. Clean'
  <2> SUFFICES ASSUME NEW f \in Files, disk[f] \in {"temp", "stored"}
               PROVE  /\ home[f] \in Wines
                      /\ \/ wine'[home[f]].photo = f
                         \/ \E o \in Reqs : req'[o].new = f
                         \/ f \in stale' \cup spilled
                         \/ wine'[home[f]].state = "wiped"
    BY <1>2 DEF Clean
  <2>1. home[f] \in Wines /\ f # None
    BY Constants DEF IInv, Clean
  <2>2. CASE wine[home[f]].photo = f
    <3>1. home[f] = v /\ Touches(p) => f \in stale' \/ p.op = "edit"
      BY <1>2, <1>4, <2>1, <2>2 DEF Touches, Unlinks
    <3>2. ~(home[f] = v /\ Inserts(p))
      BY <1>4, <2>1, <2>2
    <3> QED
      BY <1>6, <2>1, <2>2, <3>1, <3>2
  <2>3. CASE \E o \in Reqs : req[o].new = f
    <3>1. PICK o \in Reqs : req[o].new = f
      BY <2>3
    <3>2. CASE o # r
      BY <1>3, <2>1, <3>1, <3>2
    <3>3. CASE o = r
      <4>1. home[f] = v /\ p.op \in {"upload", "import"} /\ v \notin p.drops
        BY <1>1, <1>4, <1>5, <2>1, <3>1, <3>3 DEF Inserts
      <4>2. wine'[v].photo = p.new
        BY <1>1, <1>2, <4>1 DEF Stored, SetsPhoto
      <4> QED
        BY <2>1, <3>1, <3>3, <4>1, <4>2
    <3> QED
      BY <3>2, <3>3
  <2>4. CASE f \in stale \cup spilled
    BY <1>2, <2>1, <2>4
  <2>5. CASE wine[home[f]].state = "wiped"
    <3>1. ~(home[f] = v /\ Inserts(p)) /\ ~(home[f] = v /\ Touches(p) /\ p.op # "delete")
      BY <1>4, <2>5 DEF Live
    <3>2. home[f] = v /\ p.op = "delete" => wine'[v] = wine[v]
      BY <1>1, <1>2, <2>5 DEF Stored, SetsPhoto, Live
    <3> QED
      BY <1>6, <2>1, <2>5, <3>1, <3>2
  <2> QED
    BY <2>2, <2>3, <2>4, <2>5 DEF IInv, Clean
<1> QED
  BY <1>7, <1>8, <1>9, <1>10, <1>11, <1>12, <1>14, <1>15, <1>16, <1>17 DEF IInv

-----------------------------------------------------------------------------
LEMMA InitIsIInv == Init => IInv
<1> SUFFICES ASSUME Init PROVE IInv
  OBVIOUS
<1>1. /\ \A r \in Reqs : req[r] = Idle
      /\ \A w \in Wines : wine[w].photo = None /\ wine[w].state \in {"free", "live"}
      /\ \A f \in Files : disk[f] = "unused"
  BY DEF Init
<1>2. TypeOK
  BY Constants DEF Init, TypeOK
<1>3. Whole /\ Owned /\ Fresh
  BY <1>1, Constants DEF Whole, Owned, Fresh
<1>4. Births /\ Current /\ Unlinked
  BY <1>1, Constants DEF Births, Inserts, Current, Unlinked, Removed, Writing
<1>5. Exclusive
  BY <1>1, Constants DEF Exclusive, LockedBy
<1>6. Kept /\ Clean
  BY <1>1 DEF Kept, Clean
<1> QED
  BY <1>2, <1>3, <1>4, <1>5, <1>6 DEF IInv

LEMMA NextKeepsIInv == IInv /\ [Next]_vars => IInv'
<1> SUFFICES ASSUME IInv, [Next]_vars PROVE IInv'
  OBVIOUS
<1>1. ASSUME NEW r \in Reqs, NEW w \in Wines, Begin(r, w) PROVE IInv'
  BY <1>1, BeginKeepsIInv
<1>2. ASSUME NEW r \in Reqs, Step(r) PROVE IInv'
  BY <1>2, WipeKeepsIInv, WriteTempKeepsIInv, RenameKeepsIInv, WriteFailsKeepsIInv, FlushKeepsIInv, EndsKeepIInv,
     UnlinkKeepsIInv, ReturnKeepsIInv, CommitKeepsIInv DEF Step
<1>3. ASSUME NEW r \in Reqs, Fail(r) PROVE IInv'
  BY <1>3, EndsKeepIInv
<1>4. CASE UNCHANGED vars
  <2>1. UNCHANGED <<database, wine, disk, home, req, torn, stale, spilled>>
    BY <1>4 DEF vars
  <2>2. (\A r \in Reqs : LockedBy(r)' = LockedBy(r) /\ (Removed(req[r])' <=> Removed(req[r])))
    BY <2>1 DEF LockedBy, Touches, Removed, Unlinks
  <2>3. TypeOK' /\ Whole' /\ Owned' /\ Fresh' /\ Births'
    BY <2>1 DEF IInv, TypeOK, Whole, Owned, Fresh, Births, Inserts
  <2>4. Exclusive' /\ Current'
    BY <2>1, <2>2 DEF IInv, Exclusive, Current, Touches, Live
  <2>5. Unlinked' /\ Kept' /\ Clean'
    BY <2>1, <2>2 DEF IInv, Unlinked, Kept, Live, Clean
  <2> QED
    BY <2>3, <2>4, <2>5 DEF IInv
<1> QED
  BY <1>1, <1>2, <1>3, <1>4 DEF Next

\* Rows, files and handlers stay in their ranges, with either database.
THEOREM TypeCorrect == Spec => []TypeOK
<1>1. IInv => TypeOK
  BY DEF IInv
<1> QED
  BY InitIsIInv, NextKeepsIInv, <1>1, PTL DEF Spec

\* wines.py upload_photo, delete_wine_photo, delete_wine: a wine that names a photo
\* has it on disk, unless whoever removes it is about to commit, or failed between
\* the unlink and the commit.
THEOREM PhotosExist == Spec => []ShownPhotoExists
<1>1. IInv => ShownPhotoExists
  <2> SUFFICES ASSUME IInv, NEW w \in Wines, Live(w), wine[w].photo # None, w \notin torn,
                      disk[wine[w].photo] # "stored"
               PROVE  \E r \in Reqs : /\ w \in LockedBy(r) /\ Unlinks(req[r])
                                      /\ req[r].stage \in {"unlinked", "leaving"}
    BY DEF ShownPhotoExists
  <2>1. PICK r \in Reqs : Removed(req[r]) /\ req[r].old = wine[w].photo
    BY DEF IInv, Kept
  <2>2. req[r].wine = w
    BY <2>1 DEF IInv, Owned, Removed
  <2> QED
    BY <2>1, <2>2 DEF Removed, LockedBy, Touches, Unlinks
<1> QED
  BY InitIsIInv, NextKeepsIInv, <1>1, PTL DEF Spec

\* images.py store_photo, delete_photo: no file is left behind but the one that a
\* failed transaction or an import's failed write had stored, the one that was named
\* by a row overwritten with an outdated read, and those of wines an import wiped.
THEOREM FilesAreNamed == Spec => []NoLitter
<1>1. IInv => NoLitter
  BY DEF IInv, Clean, NoLitter
<1> QED
  BY InitIsIInv, NextKeepsIInv, <1>1, PTL DEF Spec
=============================================================================
