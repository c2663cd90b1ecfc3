--------------------------- MODULE CollectionProofs ---------------------------
(***************************************************************************)
(* Proofs about what users have in the collection: the ratings of a wine   *)
(* (Ratings) and the backup of everybody's data (Backup).                  *)
(*                                                                         *)
(* Ratings, for any number of requests and stars.                          *)
(* A conflict needs a row that is not what the handler found.  Only two    *)
(* writes in flight at once make that possible, and then both are in       *)
(* together: that a write outside it is the only one, and what it found is *)
(* current (Single), is what is inductive.  The agreement of sheet and     *)
(* server follows the last request from stage to stage (Synced).           *)
(*                                                                         *)
(* Backup, for any tables.  Every table is read by itself, so what the     *)
(* archive has of a row that was always there grows table by table         *)
(* (Followed); that such a row's wine, author and list were always there   *)
(* as well (Rooted) makes the archive consistent about it.  An archive     *)
(* that was merged is absorbed (Absorbed): each of its rows has one of the *)
(* same content.                                                           *)
(***************************************************************************)
EXTENDS Ratings, Backup, TLAPS

Single ==
  \A r \in Writes \ together : /\ Writes = {r}
                               /\ req[r].stage \in {"read", "flushed", "early"} =>
                                    req[r].found = row

\* What the sheet shows before the answer to q.
Aim(q) == /\ q.op = "put" => shown = q.stars
          /\ q.op = "del" => shown = 0

\* How far q has got in storing it.
Due(q) ==
  /\ q.stage \in {"sent", "read", "flushed", "early"} => Aim(q)
  /\ q.stage \in {"read", "flushed", "early"} => q.op \in {"put", "del"} /\ q.found = row
  /\ q.stage = "answered" /\ q.fate = "ok" =>
       IF q.op = "get" THEN q.found = row ELSE shown = row.stars

Synced ==
  alone => /\ \A r, o \in InFlight : r = o
           /\ \A r \in InFlight : Due(req[r])
           /\ InFlight = {} => shown = row.stars

Asked == \A r \in InFlight : /\ r \in Reqs /\ req[r].op # "none"
                             /\ req[r].op = "put" => req[r].stars # 0
                             /\ req[r].found.id = None => req[r].found = Unrated
                             /\ req[r].stage = "early" => early

\* Whoever has flushed a change is alone with it, and still fits the row.
Exclusive ==
  \A r \in Reqs : Open(req[r]) /\ Touches(req[r]) => ~Conflicts(req[r]) /\ ~Locked(r)

IInv == TypeOK /\ Asked /\ Exclusive /\ Single /\ ConflictHadRival /\ Synced

Request == [op: {"none", "put", "del", "get"}, stars: 0..MaxStars,
            stage: {"unused", "sent", "read", "flushed", "early", "answered", "over"},
            found: Row, fate: {"ok", "lost", "conflict"}]

-----------------------------------------------------------------------------
LEMMA Constants ==
  /\ MaxStars \in Nat \ {0} /\ None \notin Reqs
  /\ Unrated \in Row /\ Unused \in Request /\ Fetch \in Request /\ Over \in Request
  /\ Unused.stage = "unused" /\ Over.stage = "over" /\ Fetch.stage = "sent"
  /\ Fetch.found = Unrated /\ Fetch.op = "get" /\ Over.op = "none" /\ Unused.op = "none"
  /\ Unused.fate = "ok" /\ Over.fate = "ok" /\ Fetch.fate = "ok"
  /\ Unrated.id = None /\ Unrated.stars = 0
<1>1. MaxStars \in Nat \ {0} /\ None \notin Reqs /\ 0 \in 0..MaxStars
  BY RatingsAssumption DEF Reqs
<1>2. Unrated \in Row /\ Unrated.id = None /\ Unrated.stars = 0
  BY <1>1 DEF Row, Unrated
<1>3. /\ Unused \in Request /\ Unused.stage = "unused" /\ Unused.op = "none"
      /\ Unused.fate = "ok" /\ Unused.found = Unrated
  BY <1>1, <1>2 DEF Unused, Request
<1>4. /\ Fetch.found = Unrated /\ Fetch \in Request /\ Fetch.stage = "sent" /\ Fetch.op = "get" /\ Fetch.fate = "ok"
      /\ Over \in Request /\ Over.stage = "over" /\ Over.op = "none" /\ Over.fate = "ok"
  <2>1. /\ Fetch.stage = "sent" /\ Fetch.op = "get" /\ Fetch.fate = "ok" /\ Fetch.found = Unrated
        /\ Fetch \in Request
    BY <1>1, <1>2 DEF Fetch, Unused, Request
  <2>2. Over \in Request /\ Over.stage = "over" /\ Over.op = "none" /\ Over.fate = "ok"
    BY <1>1, <1>2 DEF Over, Unused, Request
  <2> QED
    BY <2>1, <2>2
<1> QED
  BY <1>1, <1>2, <1>3, <1>4

\* A request that takes the place of r's.
LEMMA SetRequest ==
  ASSUME TypeOK, NEW r \in Reqs, NEW q \in Request, Set(r, q)
  PROVE  /\ req' \in [Reqs -> Request]
         /\ req'[r] = q /\ \A o \in Reqs : o # r => req'[o] = req[o]
         /\ InFlight' = (InFlight \ {r}) \cup
                          (IF q.stage \notin {"unused", "over"} THEN {r} ELSE {})
         /\ Writes' = (Writes \ {r}) \cup
                        (IF q.stage \notin {"unused", "over"} /\ q.op \in {"put", "del"}
                         THEN {r} ELSE {})
<1>1. /\ req' \in [Reqs -> Request]
      /\ req'[r] = q /\ \A o \in Reqs : o # r => req'[o] = req[o]
  BY DEF TypeOK, Set, Request
<1> QED
  BY <1>1 DEF InFlight, Writes

LEMMA WritesAreRequests == \A r \in Writes : r \in InFlight /\ r \in Reqs
BY DEF Writes, InFlight

\* A request that has flushed nothing takes its place.
LEMMA NotFlushedKeepsExclusive ==
  ASSUME Exclusive, NEW r \in Reqs, row' = row, req'[r].stage \notin {"flushed", "early"},
         \A o \in Reqs : o # r => req'[o] = req[o]
  PROVE  Exclusive'
BY DEF Exclusive, Open, Locked, Conflicts, Touches, Inserts, Updates, Deletes

LEMMA ClickKeepsIInv ==
  ASSUME IInv, NEW r \in Reqs, NEW n \in 1..MaxStars, Click(r, n)
  PROVE  IInv'
<1>1. PICK q \in Request :
        /\ Set(r, q) /\ q.stage = "sent" /\ q.fate = "ok" /\ q.op \in {"put", "del"}
        /\ shown' = IF q.op = "put" THEN q.stars ELSE 0
        /\ (q.op = "put" => q.stars # 0) /\ q.found = Unrated
  <2>1. CASE n = shown
    <3> DEFINE q == [Unused EXCEPT !.op = "del", !.stage = "sent"]
    <3>1. /\ q \in Request /\ q.stage = "sent" /\ q.fate = "ok" /\ q.op = "del"
          /\ q.found = Unrated
      BY Constants DEF Request, Unused
    <3> QED
      BY <2>1, <3>1 DEF Click
  <2>2. CASE n # shown
    <3> DEFINE q == [Unused EXCEPT !.op = "put", !.stage = "sent", !.stars = n]
    <3>0. n \in 0..MaxStars /\ n # 0
      BY Constants
    <3>1. /\ q \in Request /\ q.stage = "sent" /\ q.fate = "ok" /\ q.op = "put"
          /\ q.stars = n /\ q.found = Unrated
      BY <3>0, Constants DEF Request, Unused
    <3> QED
      BY <2>2, <3>0, <3>1 DEF Click
  <2> QED
    BY <2>1, <2>2
<1>2. /\ req' \in [Reqs -> Request] /\ req'[r] = q
      /\ \A o \in Reqs : o # r => req'[o] = req[o]
      /\ InFlight' = InFlight \cup {r} /\ Writes' = Writes \cup {r}
  BY <1>1, SetRequest DEF IInv
<1>3. /\ together' = IF Writes = {} THEN together ELSE together \cup Writes \cup {r}
      /\ alone' = (InFlight = {}) /\ UNCHANGED <<early, row>>
  BY DEF Click
<1>4. TypeOK'
  <2>1. shown' \in 0..MaxStars
    BY <1>1, Constants DEF Request
  <2>2. together' \subseteq Reqs
    BY <1>3 DEF IInv, TypeOK, Writes, InFlight
  <2> QED
    BY <1>2, <1>3, <2>1, <2>2 DEF IInv, TypeOK, Request
<1>5. Single' /\ Asked' /\ Exclusive'
  <2>1. Single'
    BY <1>1, <1>2, <1>3, WritesAreRequests DEF IInv, Single
  <2>2. Asked'
    BY <1>1, <1>2, <1>3 DEF IInv, Asked
  <2>3. Exclusive'
    BY <1>1, <1>2, <1>3, NotFlushedKeepsExclusive DEF IInv
  <2> QED
    BY <2>1, <2>2, <2>3
<1>6. ConflictHadRival'
  BY <1>1, <1>2, <1>3 DEF IInv, ConflictHadRival
<1>7. Synced'
  BY <1>1, <1>2, <1>3 DEF Synced, Due, Aim
<1> QED
  BY <1>4, <1>5, <1>6, <1>7 DEF IInv

LEMMA RefreshKeepsIInv ==
  ASSUME IInv, NEW r \in Reqs, Refresh(r)
  PROVE  IInv'
<1>1. /\ req' \in [Reqs -> Request] /\ req'[r] = Fetch
      /\ \A o \in Reqs : o # r => req'[o] = req[o]
      /\ InFlight' = InFlight \cup {r} /\ Writes' = Writes \ {r}
  BY SetRequest, Constants DEF IInv, Refresh
<1>2. r \notin Writes
  BY Constants DEF Refresh, Upcoming, Writes
<1>3. UNCHANGED <<early, row, shown, together>> /\ alone' = (InFlight = {})
  BY DEF Refresh
<1>4. TypeOK'
  BY <1>1, <1>3 DEF IInv, TypeOK, Request
<1>5. Single' /\ Asked' /\ Exclusive'
  <2>1. Single'
    BY <1>1, <1>2, <1>3, WritesAreRequests DEF IInv, Single
  <2>2. Asked'
    <3>1. req'[r].op = "get" /\ req'[r].found = Unrated
      BY <1>1, Constants
    <3> QED
      BY <1>1, <1>3, <3>1, Constants DEF IInv, Asked
  <2>3. Exclusive'
    BY <1>1, <1>3, Constants, NotFlushedKeepsExclusive DEF IInv
  <2> QED
    BY <2>1, <2>2, <2>3
<1>6. ConflictHadRival'
  BY <1>1, <1>3, Constants DEF IInv, ConflictHadRival
<1>7. Synced'
  <2>1. Due(req[r])'
    BY <1>1, <1>3, Constants DEF Due, Aim
  <2>2. alone' => InFlight' = {r}
    BY <1>1, <1>3
  <2> QED
    <3> SUFFICES ASSUME alone'
                 PROVE  /\ \A a, b \in InFlight' : a = b
                        /\ \A a \in InFlight' : Due(req[a])'
                        /\ InFlight' # {}
      BY DEF Synced
    <3> QED
      BY <2>1, <2>2
<1> QED
  BY <1>4, <1>5, <1>6, <1>7 DEF IInv

\* A step of a request that is in flight and stays the same kind of request.
LEMMA StageKeepsIInv ==
  ASSUME IInv, NEW r \in InFlight, NEW q \in Request, Set(r, q),
         q.stage \in {"read", "flushed", "early", "answered"}, q.stage = "early" => early,
         q.op = req[r].op, q.stars = req[r].stars,
         UNCHANGED <<early, row, shown, together, alone>>,
         q.stage \in {"read", "flushed", "early"} /\ r \in Writes \ together => q.found = row,
         q.fate = "conflict" => r \in together, q.found.id = None => q.found = Unrated,
         alone => Due(q), Exclusive'
  PROVE  IInv'
<1>1. r \in Reqs
  BY DEF InFlight
<1>2. /\ req' \in [Reqs -> Request] /\ req'[r] = q
      /\ \A o \in Reqs : o # r => req'[o] = req[o]
      /\ InFlight' = InFlight /\ Writes' = Writes
  BY <1>1, SetRequest DEF IInv, InFlight, Writes
<1>3. TypeOK'
  BY <1>2 DEF IInv, TypeOK, Request
<1>4. Single' /\ Asked'
  <2>1. Single'
    BY <1>2, WritesAreRequests DEF IInv, Single
  <2>2. Asked'
    BY <1>2 DEF IInv, Asked
  <2> QED
    BY <2>1, <2>2
<1>5. ConflictHadRival'
  BY <1>2 DEF IInv, ConflictHadRival
<1>6. Synced'
  <2> SUFFICES ASSUME alone
               PROVE  /\ \A a, b \in InFlight' : a = b
                      /\ \A a \in InFlight' : Due(req[a])'
                      /\ InFlight' # {}
    BY DEF Synced
  <2>1. \A a \in InFlight : a = r
    BY DEF IInv, Synced
  <2>2. Due(req[r])'
    BY <1>2 DEF Due, Aim
  <2> QED
    BY <1>2, <2>1, <2>2
<1> QED
  BY <1>3, <1>4, <1>5, <1>6 DEF IInv

LEMMA ReadKeepsIInv ==
  ASSUME IInv, NEW r \in Reqs, Read(r)
  PROVE  IInv'
<1> DEFINE s == IF req[r].op = "get" THEN "answered" ELSE "read"
           q == [req[r] EXCEPT !.found = row, !.stage = s]
<1>1. req[r] \in Request /\ row \in Row /\ req[r].stage = "sent" /\ r \in InFlight
  BY DEF IInv, TypeOK, Request, Read, InFlight
<1>2. /\ q \in Request /\ q.stage = s /\ q.found = row /\ q.op = req[r].op
      /\ q.stars = req[r].stars /\ q.fate = req[r].fate
  BY <1>1 DEF Request
<1>3. Set(r, q) /\ UNCHANGED <<early, row, shown, together, alone>>
  BY DEF Read
<1>4. alone => Due(q)
  <2>1. alone => Aim(req[r])
    BY <1>1 DEF IInv, Synced, Due
  <2>2. req[r].op \in {"put", "del", "get"}
    BY <1>1 DEF Request, IInv, Asked
  <2> QED
    BY <1>2, <2>1, <2>2 DEF Due, Aim
<1>5. q.fate = "conflict" => r \in together
  BY <1>2 DEF IInv, ConflictHadRival
<1>6. q.found.id = None => q.found = Unrated
  BY <1>1, <1>2, Constants DEF IInv, TypeOK, Row, Unrated
<1>7. Exclusive'
  <2>1. q.stage \notin {"flushed", "early"}
    BY <1>2
  <2> HIDE DEF q
  <2>2. req'[r] = q /\ \A o \in Reqs : o # r => req'[o] = req[o]
    BY <1>2, <1>3, SetRequest DEF IInv
  <2> QED
    BY <1>3, <2>1, <2>2, NotFlushedKeepsExclusive DEF IInv
<1> HIDE DEF q
<1> QED
  BY <1>1, <1>2, <1>3, <1>4, <1>5, <1>6, <1>7, StageKeepsIInv

LEMMA FlushKeepsIInv ==
  ASSUME IInv, NEW r \in Reqs, Flush(r)
  PROVE  IInv'
<1> DEFINE p == req[r]
<1>1. p \in Request /\ p.stage = "read" /\ r \in InFlight
  BY DEF IInv, TypeOK, Request, Flush, InFlight
<1>2. /\ UNCHANGED <<early, row, shown, together, alone>>
      /\ Set(r, IF Conflicts(p) THEN [p EXCEPT !.stage = "answered", !.fate = "conflict"]
                ELSE [p EXCEPT !.stage = "flushed"])
  BY DEF Flush
<1>3. r \in Writes \ together => p.found = row
  BY <1>1 DEF IInv, Single
<1>4. CASE Conflicts(p)
  <2> DEFINE q == [p EXCEPT !.stage = "answered", !.fate = "conflict"]
  <2>1. /\ q \in Request /\ q.stage = "answered" /\ q.fate = "conflict" /\ q.op = p.op
        /\ q.stars = p.stars /\ q.found = p.found
        /\ Set(r, q)
    BY <1>1, <1>2, <1>4 DEF Request
  <2>2. r \in together
    <3>1. p.op = "put" /\ p.found # row
      BY <1>4 DEF Conflicts, Inserts, Updates
    <3>2. r \in Writes
      BY <1>1, <3>1 DEF Writes
    <3> QED
      BY <1>3, <3>1, <3>2
  <2>3. Due(q)
    BY <2>1 DEF Due
  <2> HIDE DEF q
  <2>4. Exclusive'
    BY <1>1, <1>2, <2>1, SetRequest, NotFlushedKeepsExclusive DEF IInv
  <2>5. q.found.id = None => q.found = Unrated
    BY <1>1, <2>1 DEF IInv, Asked
  <2> QED
    BY <1>1, <1>2, <2>1, <2>2, <2>3, <2>4, <2>5, StageKeepsIInv
<1>5. CASE ~Conflicts(p)
  <2> DEFINE q == [p EXCEPT !.stage = "flushed"]
  <2>1. /\ q \in Request /\ q.stage = "flushed" /\ q.fate = p.fate /\ q.op = p.op
        /\ q.found = p.found /\ q.stars = p.stars /\ Set(r, q)
    BY <1>1, <1>2, <1>5 DEF Request
  <2>2. alone => Due(q)
    BY <1>1, <2>1 DEF IInv, Synced, Due, Aim
  <2>3. q.fate = "conflict" => r \in together
    BY <2>1 DEF IInv, ConflictHadRival
  <2> HIDE DEF q
  <2>4. Exclusive'
    <3>1. req'[r] = q /\ \A o \in Reqs : o # r => req'[o] = req[o]
      BY <2>1, SetRequest DEF IInv
    <3>2. Touches(q) = Touches(p) /\ Conflicts(q) = Conflicts(p) /\ ~Open(p)
      BY <1>1, <2>1 DEF Open, Touches, Conflicts, Inserts, Updates, Deletes
    <3>3. Touches(p) => ~Locked(r)
      BY DEF Flush
    <3>4. /\ \A o \in Reqs : Touches(req[o])' = Touches(req'[o])
          /\ \A o \in Reqs : Conflicts(req[o])' = Conflicts(req'[o])
          /\ \A o \in Reqs : Open(req[o])' = Open(req'[o])
      BY <1>2 DEF Open, Touches, Conflicts, Inserts, Updates, Deletes
    <3>5. ASSUME NEW o \in Reqs, Open(req'[o]), Touches(req'[o])
          PROVE  /\ ~Conflicts(req'[o])
                 /\ \A s \in Reqs \ {o} : ~(Open(req'[s]) /\ Touches(req'[s]))
      BY <1>5, <2>1, <3>1, <3>2, <3>3, <3>5 DEF IInv, Exclusive, Locked
    <3> QED
      BY <3>4, <3>5 DEF Exclusive, Locked
  <2>5. q.found.id = None => q.found = Unrated
    BY <1>1, <2>1 DEF IInv, Asked
  <2> QED
    BY <1>1, <1>2, <1>3, <2>1, <2>2, <2>3, <2>4, <2>5, StageKeepsIInv
<1> QED
  BY <1>4, <1>5

\* What a commit of the only request that matters leaves.
LEMMA StoredIsAimed ==
  ASSUME IInv, NEW r \in InFlight, Open(req[r]), alone
  PROVE  Stored(req[r], r).stars = shown
<1> DEFINE q == req[r]
<1>1. Due(q) /\ row \in Row /\ (row.id = None <=> row.stars = 0)
  BY DEF IInv, Synced, TypeOK
<1>2. q.found = row /\ Aim(q) /\ q.op \in {"put", "del"}
  BY <1>1 DEF Due, Open
<1>3. row = Unrated => row.stars = 0
  BY Constants
<1> HIDE DEF q
<1> SUFFICES Stored(q, r).stars = shown
  BY DEF q
<1>4. CASE q.op = "put"
  BY <1>1, <1>2, <1>4 DEF Stored, Inserts, Updates, Deletes, Aim, Row
<1>5. CASE q.op = "del"
  BY <1>2, <1>3, <1>5, Constants DEF Stored, Inserts, Updates, Deletes, Aim
<1> QED
  BY <1>2, <1>4, <1>5

\* What becomes of a transaction p that has ended.
Told(p, q) == /\ q.stage = "over" => q = Over
              /\ q.stage # "over" => /\ q.stage = "answered" /\ q.op = p.op
                                     /\ q.stars = p.stars /\ q.found = p.found

LEMMA EndedIsTold ==
  ASSUME NEW p \in Request, NEW fate \in {"ok", "lost", "conflict"}
  PROVE  /\ Ended(p, fate) \in Request /\ Told(p, Ended(p, fate))
         /\ Ended(p, fate).fate = IF p.stage = "early" THEN "ok" ELSE fate
<1>1. CASE p.stage = "early"
  BY <1>1, Constants DEF Ended, Told
<1>2. CASE p.stage # "early"
  BY <1>2 DEF Ended, Told, Request
<1> QED
  BY <1>1, <1>2

LEMMA AnswerEarlyKeepsIInv ==
  ASSUME IInv, NEW r \in Reqs, AnswerEarly(r)
  PROVE  IInv'
<1> DEFINE p == req[r]
           q == [p EXCEPT !.stage = "early"]
<1>1. p \in Request /\ p.stage = "flushed" /\ r \in InFlight /\ early
  BY DEF IInv, TypeOK, Request, AnswerEarly, InFlight
<1>2. /\ q \in Request /\ q.stage = "early" /\ q.fate = p.fate /\ q.op = p.op
      /\ q.stars = p.stars /\ q.found = p.found /\ Set(r, q)
      /\ UNCHANGED <<early, row, shown, together, alone>>
  BY <1>1 DEF Request, AnswerEarly
<1> HIDE DEF q
<1>3. req'[r] = q /\ \A o \in Reqs : o # r => req'[o] = req[o]
  BY <1>2, SetRequest DEF IInv
<1>4. Exclusive'
  <2>1. /\ \A o \in Reqs : Touches(req[o])' = Touches(req[o])
        /\ \A o \in Reqs : Conflicts(req[o])' = Conflicts(req[o])
        /\ \A o \in Reqs : Open(req[o])' = Open(req[o])
    BY <1>1, <1>2, <1>3 DEF Open, Touches, Conflicts, Inserts, Updates, Deletes
  <2> QED
    BY <2>1 DEF IInv, Exclusive, Locked
<1>5. alone => Due(q)
  BY <1>1, <1>2 DEF IInv, Synced, Due, Aim
<1>6. r \in Writes \ together => q.found = row
  BY <1>1, <1>2 DEF IInv, Single
<1>7. /\ q.fate = "conflict" => r \in together
      /\ q.found.id = None => q.found = Unrated
  BY <1>1, <1>2 DEF IInv, ConflictHadRival, Asked
<1> QED
  BY <1>1, <1>2, <1>4, <1>5, <1>6, <1>7, StageKeepsIInv

LEMMA CommitKeepsIInv ==
  ASSUME IInv, NEW r \in Reqs, Commit(r)
  PROVE  IInv'
<1> DEFINE p == req[r]
           q == Ended(p, "ok")
<1>1. p \in Request /\ Open(p) /\ r \in InFlight /\ row \in Row
  BY DEF IInv, TypeOK, Request, Commit, Open, InFlight
<1>2. q \in Request /\ q.fate = "ok" /\ Told(p, q) /\ Set(r, q)
  BY <1>1, EndedIsTold DEF Commit
<1>3. row' = Stored(p, r) /\ UNCHANGED <<early, shown, together, alone>>
  BY DEF Commit
<1> HIDE DEF q
<1>4. /\ req' \in [Reqs -> Request] /\ req'[r] = q
      /\ \A o \in Reqs : o # r => req'[o] = req[o]
      /\ InFlight' = IF q.stage = "over" THEN InFlight \ {r} ELSE InFlight
      /\ Writes' \subseteq Writes
  BY <1>1, <1>2, SetRequest DEF IInv, InFlight, Writes, Told
<1>5. \A o \in InFlight : o \in Reqs
  BY DEF InFlight
<1>6. row' \in Row /\ (row'.id = None <=> row'.stars = 0)
  <2>1. p.stars \in 0..MaxStars
    BY <1>1 DEF Request
  <2>2. p.op = "put" => p.stars # 0
    BY <1>1 DEF IInv, Asked
  <2>3. row.id = None <=> row.stars = 0
    BY DEF IInv, TypeOK
  <2>4. CASE Inserts(p)
    BY <1>3, <2>1, <2>2, <2>4, Constants DEF Stored, Inserts, Row
  <2>5. CASE Updates(p) /\ ~Inserts(p)
    <3>1. row.id # None
      BY <1>1, <2>5 DEF Updates, Conflicts, Touches, IInv, Exclusive, Asked
    <3> QED
      BY <1>1, <1>3, <2>1, <2>2, <2>5, <3>1 DEF Stored, Updates, Row
  <2>6. CASE ~Updates(p) /\ ~Inserts(p)
    BY <1>1, <1>3, <2>3, <2>6, Constants DEF Stored
  <2> QED
    BY <2>4, <2>5, <2>6
<1>7. TypeOK'
  BY <1>3, <1>4, <1>6 DEF IInv, TypeOK, Request
<1>8. Single'
  <2>1. ASSUME NEW o \in Writes \ together
        PROVE  Writes = {o} /\ (o # r => p.op \notin {"put", "del"})
    BY <1>1, <2>1 DEF IInv, Single, Writes
  <2>2. p.op \notin {"put", "del"} => row' = row
    BY <1>3 DEF Stored, Inserts, Updates, Deletes
  <2> QED
    BY <1>2, <1>3, <1>4, <1>5, <2>1, <2>2 DEF IInv, Single, Writes, Told
<1>9. ConflictHadRival' /\ Asked' /\ Exclusive'
  <2>1. ConflictHadRival'
    BY <1>2, <1>3, <1>4 DEF IInv, ConflictHadRival
  <2>2. Asked'
    BY <1>1, <1>2, <1>3, <1>4, Constants DEF IInv, Asked, Told
  <2>3. ASSUME row' = row PROVE Exclusive'
    <3>1. req'[r].stage \notin {"flushed", "early"}
      BY <1>2, <1>4 DEF Told
    <3> QED
      BY <1>4, <2>3, <3>1, NotFlushedKeepsExclusive DEF IInv
  <2>4. ASSUME row' # row PROVE Exclusive'
    <3>1. Touches(p)
      BY <1>3, <2>4 DEF Stored, Touches
    <3>2. ~Locked(r)
      BY <1>1, <3>1 DEF IInv, Exclusive
    <3>3. \A o \in Reqs : Open(req'[o]) => ~Touches(req'[o])
      BY <1>2, <1>4, <3>2 DEF Locked, Open, Told
    <3>4. \A o \in Reqs : Touches(req[o])' = Touches(req'[o]) /\ Open(req[o])' = Open(req'[o])
      BY DEF Open, Touches, Inserts, Updates, Deletes
    <3> QED
      BY <3>3, <3>4 DEF Exclusive
  <2> QED
    BY <2>1, <2>2, <2>3, <2>4
<1>10. Synced'
  <2> SUFFICES ASSUME alone
               PROVE  /\ \A a, b \in InFlight' : a = b
                      /\ \A a \in InFlight' : Due(req[a])'
                      /\ InFlight' = {} => shown' = row'.stars
    BY <1>3 DEF Synced
  <2>1. \A a \in InFlight : a = r
    BY <1>1 DEF IInv, Synced
  <2>2. row'.stars = shown /\ p.op # "get"
    BY <1>1, <1>3, StoredIsAimed DEF IInv, Synced, Due, Open
  <2>3. Due(req[r])'
    BY <1>2, <1>3, <1>4, <2>2 DEF Due, Aim, Told
  <2> QED
    BY <1>1, <1>3, <1>4, <2>1, <2>2, <2>3
<1> QED
  BY <1>7, <1>8, <1>9, <1>10 DEF IInv

LEMMA CommitFailsKeepsIInv ==
  ASSUME IInv, NEW r \in Reqs, CommitFails(r)
  PROVE  IInv'
<1> DEFINE p == req[r]
           fate == IF early THEN "ok" ELSE "lost"
           q == Ended(p, fate)
<1>1. p \in Request /\ Open(p) /\ r \in InFlight
  BY DEF IInv, TypeOK, Request, CommitFails, Open, InFlight
<1>2. /\ q \in Request /\ q.fate \in {"ok", "lost"} /\ Told(p, q) /\ Set(r, q)
      /\ ~early => q.fate = "lost" /\ q.stage = "answered"
  <2>1. p.stage = "early" => early
    BY <1>1 DEF IInv, Asked
  <2>2. fate \in {"ok", "lost", "conflict"}
    OBVIOUS
  <2>3. /\ q \in Request /\ Told(p, q)
        /\ q.fate = IF p.stage = "early" THEN "ok" ELSE fate
    BY <1>1, <2>2, EndedIsTold
  <2>4. Set(r, q)
    BY DEF CommitFails
  <2>5. ~early => q.stage = "answered"
    BY <1>1, <2>1 DEF Ended, Request
  <2> QED
    BY <2>1, <2>3, <2>4, <2>5
<1>3. UNCHANGED <<early, row, shown, together>> /\ alone' = (alone /\ ~early)
  BY DEF CommitFails
<1> HIDE DEF q
<1>4. /\ req' \in [Reqs -> Request] /\ req'[r] = q
      /\ \A o \in Reqs : o # r => req'[o] = req[o]
      /\ InFlight' = IF q.stage = "over" THEN InFlight \ {r} ELSE InFlight
      /\ Writes' \subseteq Writes
  BY <1>1, <1>2, SetRequest DEF IInv, InFlight, Writes, Told
<1>5. TypeOK'
  BY <1>3, <1>4 DEF IInv, TypeOK, Request
<1>6. Single' /\ Asked' /\ Exclusive' /\ ConflictHadRival'
  <2>1. Single'
    BY <1>2, <1>3, <1>4, WritesAreRequests DEF IInv, Single, Told
  <2>2. Asked'
    BY <1>1, <1>2, <1>3, <1>4, Constants DEF IInv, Asked, Told
  <2>3. Exclusive'
    BY <1>2, <1>3, <1>4, NotFlushedKeepsExclusive DEF IInv, Told
  <2>4. ConflictHadRival'
    BY <1>2, <1>3, <1>4 DEF IInv, ConflictHadRival
  <2> QED
    BY <2>1, <2>2, <2>3, <2>4
<1>7. Synced'
  <2> SUFFICES ASSUME alone, ~early
               PROVE  /\ \A a, b \in InFlight' : a = b
                      /\ \A a \in InFlight' : Due(req[a])'
                      /\ InFlight' # {}
    BY <1>3 DEF Synced
  <2>1. \A a \in InFlight : a = r
    BY <1>1 DEF IInv, Synced
  <2>2. Due(req[r])'
    BY <1>2, <1>4 DEF Due
  <2> QED
    BY <1>1, <1>2, <1>4, <2>1, <2>2
<1> QED
  BY <1>5, <1>6, <1>7 DEF IInv

LEMMA LoseKeepsIInv ==
  ASSUME IInv, NEW r \in Reqs, Lose(r)
  PROVE  IInv'
<1> DEFINE p == req[r]
           q == [p EXCEPT !.stage = "answered", !.fate = "lost"]
<1>1. p \in Request /\ r \in InFlight
  BY DEF IInv, TypeOK, Request, Lose, InFlight
<1>2. /\ q \in Request /\ q.stage = "answered" /\ q.fate = "lost" /\ q.op = p.op
      /\ q.stars = p.stars /\ q.found = p.found /\ Set(r, q)
      /\ UNCHANGED <<early, row, shown, together, alone>>
  BY <1>1 DEF Request, Lose
<1> HIDE DEF q
<1>3. Exclusive'
  <2>1. req'[r].stage = "answered" /\ \A o \in Reqs : o # r => req'[o] = req[o]
    BY <1>2, SetRequest DEF IInv
  <2> QED
    BY <1>2, <2>1, NotFlushedKeepsExclusive DEF IInv
<1>4. Due(q)
  BY <1>2 DEF Due
<1>5. q.found.id = None => q.found = Unrated
  BY <1>1, <1>2 DEF IInv, Asked
<1> QED
  BY <1>1, <1>2, <1>3, <1>4, <1>5, StageKeepsIInv

LEMMA AnswerKeepsIInv ==
  ASSUME IInv, NEW r \in Reqs, Answer(r)
  PROVE  IInv'
<1> DEFINE p == req[r]
<1>1. p \in Request /\ p.stage = "answered" /\ r \in InFlight
  BY DEF IInv, TypeOK, Request, Answer, InFlight
<1>2. PICK q \in Request :
        /\ Set(r, q) /\ q.fate = "ok" /\ q.stage \in {"sent", "over"}
        /\ q.stage = "sent" => q = Fetch /\ p.fate # "ok" /\ p.op # "get"
        /\ q.stage = "over" => p.fate = "ok" \/ p.op = "get"
        /\ q.op \notin {"put", "del"}
  BY Constants DEF Answer
<1>3. /\ UNCHANGED <<early, row, together>>
      /\ shown' = IF p.op = "get" /\ p.fate = "ok" THEN p.found.stars ELSE shown
      /\ alone' = (alone /\ (p.op = "get" => p.fate = "ok"))
  BY DEF Answer
<1>4. /\ req' \in [Reqs -> Request] /\ req'[r] = q
      /\ \A o \in Reqs : o # r => req'[o] = req[o]
      /\ InFlight' = (InFlight \ {r}) \cup (IF q.stage = "sent" THEN {r} ELSE {})
      /\ Writes' = Writes \ {r}
  BY <1>2, SetRequest DEF IInv
<1>5. TypeOK'
  <2>1. shown' \in 0..MaxStars
    BY <1>1, <1>3 DEF IInv, TypeOK, Request, Row
  <2>2. alone' \in BOOLEAN
    BY <1>3
  <2> QED
    BY <1>3, <1>4, <2>1, <2>2 DEF IInv, TypeOK, Request
<1>6. Single' /\ Asked' /\ Exclusive' /\ ConflictHadRival'
  <2>1. Single'
    BY <1>3, <1>4, WritesAreRequests DEF IInv, Single
  <2>2. Asked'
    BY <1>2, <1>3, <1>4, Constants DEF IInv, Asked
  <2>3. Exclusive'
    <3>1. req'[r].stage \notin {"flushed", "early"}
      BY <1>2, <1>4
    <3> QED
      BY <1>3, <1>4, <3>1, NotFlushedKeepsExclusive DEF IInv
  <2>4. ConflictHadRival'
    BY <1>2, <1>3, <1>4 DEF IInv, ConflictHadRival
  <2> QED
    BY <2>1, <2>2, <2>3, <2>4
<1>7. Synced'
  <2> SUFFICES ASSUME alone'
               PROVE  /\ \A a, b \in InFlight' : a = b
                      /\ \A a \in InFlight' : Due(req[a])'
                      /\ InFlight' = {} => shown' = row'.stars
    BY DEF Synced
  <2>1. alone /\ (p.op = "get" => p.fate = "ok")
    BY <1>3
  <2>2. (\A a \in InFlight : a = r) /\ Due(p)
    BY <1>1, <2>1 DEF IInv, Synced
  <2>3. CASE q.stage = "sent"
    <3>1. Due(req[r])'
      BY <1>2, <1>4, <2>3, Constants DEF Due, Aim
    <3> QED
      BY <1>4, <2>2, <2>3, <3>1
  <2>4. CASE q.stage = "over"
    <3>1. p.fate = "ok"
      BY <1>2, <2>1, <2>4
    <3>2. shown' = row'.stars
      BY <1>1, <1>3, <2>2, <3>1 DEF Due
    <3> QED
      BY <1>4, <2>2, <2>4, <3>2
  <2> QED
    BY <1>2, <2>3, <2>4
<1> QED
  BY <1>5, <1>6, <1>7 DEF IInv

-----------------------------------------------------------------------------
LEMMA InitIsIInv == Init => IInv
<1> SUFFICES ASSUME Init PROVE IInv
  OBVIOUS
<1>1. InFlight = {} /\ Writes = {}
  BY Constants DEF Init, InFlight, Writes
<1>2. \A r \in Reqs : req[r].stage = "unused" /\ req[r].fate = "ok"
  BY Constants DEF Init
<1>3. TypeOK
  BY Constants DEF Init, TypeOK, Request
<1>4. Asked /\ Exclusive /\ Single /\ ConflictHadRival
  BY <1>1, <1>2 DEF Asked, Exclusive, Open, Single, ConflictHadRival
<1>5. Synced
  BY <1>1, Constants DEF Init, Synced
<1> QED
  BY <1>3, <1>4, <1>5 DEF IInv

LEMMA NextKeepsIInv == IInv /\ [Next]_vars => IInv'
<1> SUFFICES ASSUME IInv, [Next]_vars PROVE IInv'
  OBVIOUS
<1>1. ASSUME NEW r \in Reqs, NEW n \in 1..MaxStars, Click(r, n) PROVE IInv'
  BY <1>1, ClickKeepsIInv
<1>2. ASSUME NEW r \in Reqs, Refresh(r) PROVE IInv'
  BY <1>2, RefreshKeepsIInv
<1>3. ASSUME NEW r \in Reqs, Step(r) PROVE IInv'
  BY <1>3, ReadKeepsIInv, FlushKeepsIInv, CommitKeepsIInv, AnswerKeepsIInv DEF Step
<1>4. ASSUME NEW r \in Reqs, AnswerEarly(r) \/ CommitFails(r) \/ Lose(r) PROVE IInv'
  BY <1>4, AnswerEarlyKeepsIInv, CommitFailsKeepsIInv, LoseKeepsIInv
<1>5. CASE UNCHANGED vars
  BY <1>5 DEF vars, IInv, TypeOK, Asked, Exclusive, Single, ConflictHadRival, Synced,
              InFlight, Writes, Due, Aim, Locked, Open, Conflicts, Touches, Inserts, Updates, Deletes
<1> QED
  BY <1>1, <1>2, <1>3, <1>4, <1>5 DEF Next

\* The handlers and callbacks keep every record in its range.
THEOREM TypeCorrect == Spec => []TypeOK
<1>1. IInv => TypeOK
  BY DEF IInv
<1> QED
  BY InitIsIInv, NextKeepsIInv, <1>1, PTL DEF Spec

\* set_rating and clear_rating are refused for a conflict only beside another
\* write of the same user: one after the other they never are.
THEOREM ConflictsHadRivals == Spec => []ConflictHadRival
<1>1. IInv => ConflictHadRival
  BY DEF IInv
<1> QED
  BY InitIsIInv, NextKeepsIInv, <1>1, PTL DEF Spec

\* Once everything is answered and committed, the sheet shows what is stored, if
\* the last request had nothing beside it, whatever was lost or overtaken before,
\* unless a commit failed behind an answer that had left: whether set_rating's
\* answer leaves before get_db's commit or after it.
THEOREM SheetIsSynced == Spec => []StarsAreSynced
<1>1. IInv => StarsAreSynced
  BY DEF IInv, Synced, StarsAreSynced
<1> QED
  BY InitIsIInv, NextKeepsIInv, <1>1, PTL DEF Spec

-----------------------------------------------------------------------------
(***************************************************************************)
(* Backup.                                                                 *)
(***************************************************************************)

\* A table that the export has read contains what was always there; one that it
\* is still to read is in the database as it was.
Followed ==
  /\ steady.wines    \subseteq IF next >= 1 THEN archive.wines ELSE db.wines
  /\ steady.users    \subseteq IF next >= 2 THEN archive.users ELSE db.users
  /\ steady.ratings  \subseteq IF next >= 3 THEN archive.ratings ELSE db.ratings
  /\ steady.comments \subseteq IF next >= 4 THEN archive.comments ELSE db.comments
  /\ steady.lists    \subseteq IF next >= 5 THEN archive.lists ELSE db.lists
  /\ steady.items    \subseteq IF next >= 6 THEN archive.items ELSE db.items

\* Foreign keys, and unique constraints, of a set of tables.
Rooted(d) ==
  /\ \A r \in d.ratings : r.wine \in d.wines /\ r.user \in d.users
  /\ \A c \in d.comments : c.wine \in d.wines /\ c.user \in d.users
  /\ \A i \in d.items : i.list \in d.lists /\ i.wine \in d.wines
Unique(d) ==
  /\ \A q, r \in d.ratings : q.wine = r.wine /\ q.user = r.user => q = r
  /\ \A u, v \in d.users : Name[u] = Name[v] => u = v
  /\ \A l, m \in d.lists : Title[l] = Title[m] => l = m

\* Every row of the archive that an import knows the wine, author and list of has
\* its like in d.
Absorbed(d) ==
  /\ \A w \in archive.wines : \E v \in d.wines : Key[v] = Key[w]
  /\ \A u \in archive.users : \E v \in d.users : Name[v] = Name[u]
  /\ \A l \in archive.lists : \E m \in d.lists : Title[m] = Title[l]
  /\ \A r \in archive.ratings : r.wine \in archive.wines /\ r.user \in archive.users =>
       \E q \in d.ratings : Key[q.wine] = Key[r.wine] /\ Name[q.user] = Name[r.user]
  /\ \A c \in archive.comments : c.wine \in archive.wines /\ c.user \in archive.users =>
       \E q \in d.comments : /\ Key[q.wine] = Key[c.wine] /\ Name[q.user] = Name[c.user]
                             /\ q.body = c.body
  /\ \A i \in archive.items : i.list \in archive.lists /\ i.wine \in archive.wines =>
       \E q \in d.items : Title[q.list] = Title[i.list] /\ Key[q.wine] = Key[i.wine]

BInv ==
  /\ BTypeOK
  /\ Rooted(steady) /\ Unique(archive)
  /\ Followed
  /\ merged => next = 6 /\ Absorbed(db)

\* Tables are records of tables.
LEMMA TablesOf ==
  ASSUME NEW d \in Tabular
  PROVE  /\ d.wines \subseteq Wines /\ d.users \subseteq Users /\ d.lists \subseteq Lists
         /\ d.ratings \subseteq Ratings /\ d.comments \subseteq Comments
         /\ d.items \subseteq Items
         /\ d = [wines |-> d.wines, users |-> d.users, ratings |-> d.ratings,
                 comments |-> d.comments, lists |-> d.lists, items |-> d.items]
         /\ DOMAIN d = {"wines", "users", "ratings", "comments", "lists", "items"}
BY DEF Tabular

LEMMA TabularBy ==
  ASSUME NEW W \in SUBSET Wines, NEW U \in SUBSET Users, NEW R \in SUBSET Ratings,
         NEW C \in SUBSET Comments, NEW L \in SUBSET Lists, NEW I \in SUBSET Items
  PROVE  [wines |-> W, users |-> U, ratings |-> R, comments |-> C, lists |-> L,
          items |-> I] \in Tabular
BY DEF Tabular

\* What stays of d.
LEMMA KeepFields ==
  ASSUME NEW d \in Tabular, NEW e \in Tabular
  PROVE  /\ Keep(d, e) \in Tabular
         /\ Keep(d, e).wines = d.wines \cap e.wines
         /\ Keep(d, e).users = d.users \cap e.users
         /\ Keep(d, e).ratings = d.ratings \cap e.ratings
         /\ Keep(d, e).comments = d.comments \cap e.comments
         /\ Keep(d, e).lists = d.lists \cap e.lists
         /\ Keep(d, e).items = d.items \cap e.items
<1> DEFINE k == [wines |-> d.wines \cap e.wines, users |-> d.users \cap e.users,
                 ratings |-> d.ratings \cap e.ratings,
                 comments |-> d.comments \cap e.comments,
                 lists |-> d.lists \cap e.lists, items |-> d.items \cap e.items]
<1>1. Keep(d, e) = k
  <2> DEFINE T == {"wines", "users", "ratings", "comments", "lists", "items"}
  <2>1. Keep(d, e) = [t \in T |-> d[t] \cap e[t]]
    BY TablesOf DEF Keep
  <2>2. k = [t \in T |-> k[t]]
    OBVIOUS
  <2>3. \A t \in T : k[t] = d[t] \cap e[t]
    OBVIOUS
  <2> QED BY <2>1, <2>2, <2>3
<1>2. k \in Tabular
  BY TablesOf, TabularBy
<1> QED BY <1>1, <1>2

\* A change by a user, to tables that are sound.
LEMMA EditKeeps ==
  ASSUME BInv, NEW d \in Tabular, Integrity(d), Edit(d)
  PROVE  BInv'
<1>1. /\ db' = d /\ merged' = FALSE
      /\ steady' = IF next < 6 THEN Keep(steady, d) ELSE steady
      /\ archive' = archive /\ next' = next
      /\ steady \in Tabular /\ steady' \in Tabular
  BY KeepFields DEF Edit, BInv, BTypeOK
<1>2. BTypeOK'
  <2>1. edits' \in 0..MaxEdits
    BY BackupAssumption DEF Edit, BInv, BTypeOK
  <2> QED BY <1>1, <2>1 DEF BInv, BTypeOK
<1>3. ASSUME next < 6
      PROVE  /\ steady'.wines = steady.wines \cap d.wines
             /\ steady'.users = steady.users \cap d.users
             /\ steady'.ratings = steady.ratings \cap d.ratings
             /\ steady'.comments = steady.comments \cap d.comments
             /\ steady'.lists = steady.lists \cap d.lists
             /\ steady'.items = steady.items \cap d.items
  BY <1>1, <1>3, KeepFields
<1>4. Rooted(steady)'
  <2>1. CASE next < 6
    BY <1>3, <2>1 DEF BInv, Rooted, Integrity
  <2>2. CASE ~(next < 6)
    BY <1>1, <2>2 DEF BInv, Rooted
  <2> QED BY <2>1, <2>2
<1>5. Unique(archive)'
  BY <1>1 DEF BInv, Unique
<1>6. Followed'
  <2>1. CASE next < 6
    BY <1>1, <1>3, <2>1 DEF BInv, Followed
  <2>2. CASE ~(next < 6)
    <3>1. next = 6
      BY <2>2 DEF BInv, BTypeOK
    <3> QED BY <1>1, <3>1 DEF BInv, Followed
  <2> QED BY <2>1, <2>2
<1> QED BY <1>1, <1>2, <1>4, <1>5, <1>6 DEF BInv

\* A cascade leaves no row without its wine, author or list.
LEMMA CascadeIsSound ==
  ASSUME NEW d \in Tabular, Integrity(d), NEW W, NEW U, NEW L
  PROVE  Cascade(d, W, U, L) \in Tabular /\ Integrity(Cascade(d, W, U, L))
<1>1. Cascade(d, W, U, L) \in Tabular
  BY TablesOf, TabularBy DEF Cascade
<1>2. Integrity(Cascade(d, W, U, L))
  BY DEF Integrity, Cascade
<1> QED BY <1>1, <1>2

LEMMA RequestsKeep == BInv /\ Requests => BInv'
<1> SUFFICES ASSUME BInv, Requests PROVE BInv'
  OBVIOUS
<1>1. db \in Tabular /\ Integrity(db)
  BY DEF BInv, BTypeOK
<1>2. /\ db.wines \subseteq Wines /\ db.users \subseteq Users /\ db.lists \subseteq Lists
      /\ db.ratings \subseteq Ratings /\ db.comments \subseteq Comments
      /\ db.items \subseteq Items
  BY <1>1, TablesOf
<1>3. \A W \in SUBSET Wines : [db EXCEPT !.wines = W] \in Tabular
  BY <1>1 DEF Tabular
<1>4. \A U \in SUBSET Users : [db EXCEPT !.users = U] \in Tabular
  BY <1>1 DEF Tabular
<1>5. \A L \in SUBSET Lists : [db EXCEPT !.lists = L] \in Tabular
  BY <1>1 DEF Tabular
<1>6. \A R \in SUBSET Ratings : [db EXCEPT !.ratings = R] \in Tabular
  BY <1>1 DEF Tabular
<1>7. \A C \in SUBSET Comments : [db EXCEPT !.comments = C] \in Tabular
  BY <1>1 DEF Tabular
<1>8. \A I \in SUBSET Items : [db EXCEPT !.items = I] \in Tabular
  BY <1>1 DEF Tabular
<1>9. CASE CreateWine
  <2>1. PICK w \in Wines : Edit([db EXCEPT !.wines = @ \cup {w}])
    BY <1>9 DEF CreateWine
  <2> DEFINE d == [db EXCEPT !.wines = @ \cup {w}]
  <2>2. d \in Tabular
    BY <1>2, <1>3
  <2>3. Integrity(d)
    BY <1>1 DEF Tabular, Integrity
  <2> QED BY <2>1, <2>2, <2>3, EditKeeps
<1>10. CASE DeleteWine \/ DeleteUser \/ DeleteList
  <2>1. PICK W, U, L : Edit(Cascade(db, W, U, L))
    BY <1>10 DEF DeleteWine, DeleteUser, DeleteList
  <2> QED BY <1>1, <2>1, CascadeIsSound, EditKeeps
<1>11. CASE CreateUser
  <2>1. PICK u \in Users : /\ \A v \in db.users : Name[v] # Name[u]
                           /\ Edit([db EXCEPT !.users = @ \cup {u}])
    BY <1>11 DEF CreateUser
  <2> DEFINE d == [db EXCEPT !.users = @ \cup {u}]
  <2>2. d \in Tabular
    BY <1>2, <1>4
  <2>3. Integrity(d)
    BY <1>1, <2>1 DEF Tabular, Integrity
  <2> QED BY <2>1, <2>2, <2>3, EditKeeps
<1>12. CASE CreateList
  <2>1. PICK l \in Lists : /\ \A m \in db.lists : Title[m] # Title[l]
                           /\ Edit([db EXCEPT !.lists = @ \cup {l}])
    BY <1>12 DEF CreateList
  <2> DEFINE d == [db EXCEPT !.lists = @ \cup {l}]
  <2>2. d \in Tabular
    BY <1>2, <1>5
  <2>3. Integrity(d)
    BY <1>1, <2>1 DEF Tabular, Integrity
  <2> QED BY <2>1, <2>2, <2>3, EditKeeps
<1>13. CASE Rate
  <2>1. PICK w \in db.wines, u \in db.users, s \in Stars :
          Edit([db EXCEPT !.ratings = {r \in @ : ~(r.wine = w /\ r.user = u)}
                                      \cup {[wine |-> w, user |-> u, stars |-> s]}])
    BY <1>13 DEF Rate
  <2> DEFINE n == [wine |-> w, user |-> u, stars |-> s]
             R == {r \in db.ratings : ~(r.wine = w /\ r.user = u)} \cup {n}
             d == [db EXCEPT !.ratings = R]
  <2>2. n \in Ratings /\ n.wine = w /\ n.user = u
    BY <1>2 DEF Ratings
  <2>3. R \in SUBSET Ratings
    BY <1>2, <2>2
  <2>4. d \in Tabular
    BY <1>6, <2>3
  <2>5. /\ d.ratings = R /\ d.wines = db.wines /\ d.users = db.users
        /\ d.comments = db.comments /\ d.lists = db.lists /\ d.items = db.items
    BY <1>1 DEF Tabular
  <2>6. /\ \A r \in R : r.wine \in db.wines /\ r.user \in db.users
        /\ \A q, r \in R : q.wine = r.wine /\ q.user = r.user => q = r
    BY <1>1, <2>2 DEF Integrity
  <2> HIDE DEF R, d
  <2>7. Integrity(d)
    BY <1>1, <2>5, <2>6 DEF Integrity
  <2> QED BY <2>1, <2>4, <2>7, EditKeeps DEF d, R
<1>14. CASE ClearRating
  <2>1. PICK r \in db.ratings : Edit([db EXCEPT !.ratings = @ \ {r}])
    BY <1>14 DEF ClearRating
  <2> DEFINE d == [db EXCEPT !.ratings = @ \ {r}]
  <2>2. d \in Tabular
    BY <1>2, <1>6
  <2>3. Integrity(d)
    BY <1>1 DEF Tabular, Integrity
  <2> QED BY <2>1, <2>2, <2>3, EditKeeps
<1>15. CASE AddComment
  <2>1. PICK w \in db.wines, u \in db.users, b \in Bodies, n \in {1, 2} :
          Edit([db EXCEPT !.comments =
                  @ \cup {[wine |-> w, user |-> u, body |-> b, copy |-> n]}])
    BY <1>15 DEF AddComment
  <2> DEFINE c == [wine |-> w, user |-> u, body |-> b, copy |-> n]
             d == [db EXCEPT !.comments = @ \cup {c}]
  <2>2. c \in Comments
    BY <1>2 DEF Comments
  <2>3. d \in Tabular
    BY <1>2, <1>7, <2>2
  <2>4. Integrity(d)
    BY <1>1 DEF Tabular, Integrity
  <2> QED BY <2>1, <2>3, <2>4, EditKeeps
<1>16. CASE DeleteComment
  <2>1. PICK c \in db.comments : Edit([db EXCEPT !.comments = @ \ {c}])
    BY <1>16 DEF DeleteComment
  <2> DEFINE d == [db EXCEPT !.comments = @ \ {c}]
  <2>2. d \in Tabular
    BY <1>2, <1>7
  <2>3. Integrity(d)
    BY <1>1 DEF Tabular, Integrity
  <2> QED BY <2>1, <2>2, <2>3, EditKeeps
<1>17. CASE AddItem
  <2>1. PICK l \in db.lists, w \in db.wines :
          Edit([db EXCEPT !.items = @ \cup {[list |-> l, wine |-> w]}])
    BY <1>17 DEF AddItem
  <2> DEFINE i == [list |-> l, wine |-> w]
             d == [db EXCEPT !.items = @ \cup {i}]
  <2>2. i \in Items
    BY <1>2 DEF Items
  <2>3. d \in Tabular
    BY <1>2, <1>8, <2>2
  <2>4. Integrity(d)
    BY <1>1 DEF Tabular, Integrity
  <2> QED BY <2>1, <2>3, <2>4, EditKeeps
<1>18. CASE RemoveItem
  <2>1. PICK i \in db.items : Edit([db EXCEPT !.items = @ \ {i}])
    BY <1>18 DEF RemoveItem
  <2> DEFINE d == [db EXCEPT !.items = @ \ {i}]
  <2>2. d \in Tabular
    BY <1>2, <1>8
  <2>3. Integrity(d)
    BY <1>1 DEF Tabular, Integrity
  <2> QED BY <2>1, <2>2, <2>3, EditKeeps
<1> QED BY <1>9, <1>10, <1>11, <1>12, <1>13, <1>14, <1>15, <1>16, <1>17, <1>18
        DEF Requests

LEMMA EmptyIsSound ==
  /\ Empty \in Tabular /\ Rooted(Empty) /\ Unique(Empty)
  /\ Empty.wines = {} /\ Empty.users = {} /\ Empty.ratings = {}
  /\ Empty.comments = {} /\ Empty.lists = {} /\ Empty.items = {}
BY TabularBy DEF Empty, Rooted, Unique

LEMMA BackupInit == BInit => BInv
<1> SUFFICES ASSUME BInit PROVE BInv
  OBVIOUS
<1>1. /\ archive = Empty /\ steady = Empty /\ next = 6 /\ merged = FALSE /\ edits = 0
      /\ Integrity(db)
  BY DEF BInit
<1>2. db \in Tabular
  <2>1. PICK W \in SUBSET Wines, U \in SUBSET Users, l \in Lists, s \in Stars, b \in Bodies :
          LET bare == [Empty EXCEPT !.wines = W, !.users = U, !.lists = {l}] IN
          db \in {bare,
                  [bare EXCEPT !.ratings = [wine: W, user: U, stars: {s}],
                               !.comments = [wine: W, user: U, body: {b}, copy: {1}],
                               !.items = [list: {l}, wine: W]]}
    BY DEF BInit
  <2>2. /\ [wine: W, user: U, stars: {s}] \subseteq Ratings
        /\ [wine: W, user: U, body: {b}, copy: {1}] \subseteq Comments
        /\ [list: {l}, wine: W] \subseteq Items
    BY DEF Ratings, Comments, Items
  <2> DEFINE R == [wine: W, user: U, stars: {s}]
             C == [wine: W, user: U, body: {b}, copy: {1}]
             I == [list: {l}, wine: W]
  <2> HIDE DEF R, C, I
  <2>3. \/ db = [wines |-> W, users |-> U, ratings |-> {}, comments |-> {},
                 lists |-> {l}, items |-> {}]
        \/ db = [wines |-> W, users |-> U, ratings |-> R, comments |-> C,
                 lists |-> {l}, items |-> I]
    BY <2>1 DEF Empty, R, C, I
  <2>4. R \in SUBSET Ratings /\ C \in SUBSET Comments /\ I \in SUBSET Items
    BY <2>2 DEF R, C, I
  <2>5. {} \in SUBSET Ratings /\ {} \in SUBSET Comments /\ {} \in SUBSET Items
        /\ {l} \in SUBSET Lists
    OBVIOUS
  <2> QED BY <2>3, <2>4, <2>5, TabularBy
<1>3. BTypeOK
  <2>1. archive \in Tabular /\ steady \in Tabular
    BY <1>1, EmptyIsSound
  <2>2. next \in 0..6 /\ edits \in 0..MaxEdits
    BY <1>1, BackupAssumption
  <2>3. merged \in BOOLEAN
    BY <1>1
  <2> QED BY <1>1, <1>2, <2>1, <2>2, <2>3 DEF BTypeOK
<1>4. Followed
  BY <1>1 DEF Followed
<1> QED BY <1>1, <1>3, <1>4, EmptyIsSound DEF BInv

-----------------------------------------------------------------------------
\* What an import inserts, and where it finds it.
Imported(d, wineOf, userOf, listOf, ratings) ==
  [wines    |-> d.wines \cup Range(wineOf),
   users    |-> d.users \cup Range(userOf),
   lists    |-> d.lists \cup Range(listOf),
   ratings  |-> d.ratings \cup ratings,
   comments |-> d.comments \cup NewComments(d, wineOf, userOf),
   items    |-> d.items \cup NewItems(wineOf, listOf)]

LEMMA MapsOf ==
  ASSUME NEW from, NEW base, NEW fresh, NEW label, NEW f \in Maps(from, base, fresh, label)
  PROVE  /\ f \in [from -> base \cup fresh] /\ DOMAIN f = from
         /\ \A x \in from : f[x] \in Range(f) /\ label[f[x]] = label[x]
         /\ \A x \in from : (\E y \in base : label[y] = label[x]) => f[x] \in base
         /\ Range(f) \subseteq base \cup fresh
BY DEF Maps, Range

\* Matching by a label that was unique keeps it unique.
LEMMA MapsKeepUnique ==
  ASSUME NEW from, NEW base, NEW fresh, NEW label, NEW f \in Maps(from, base, fresh, label),
         \A x, y \in base : label[x] = label[y] => x = y
  PROVE  \A x, y \in base \cup Range(f) : label[x] = label[y] => x = y
<1>1. \A y \in Range(f) : \E a \in from : y = f[a]
  BY DEF Maps, Range
<1>2. /\ \A x \in from : label[f[x]] = label[x]
      /\ \A x \in from : (\E y \in base : label[y] = label[x]) => f[x] \in base
      /\ \A x, y \in from : label[x] = label[y] => f[x] = f[y]
  BY DEF Maps
<1>3. ASSUME NEW x \in base, NEW y \in Range(f), label[x] = label[y] PROVE x = y
  BY <1>1, <1>2, <1>3
<1>4. ASSUME NEW x \in Range(f), NEW y \in Range(f), label[x] = label[y] PROVE x = y
  BY <1>1, <1>2, <1>4
<1> QED BY <1>3, <1>4

\* The rows an import inserts are rows of the archive under their new names.
LEMMA NewRows ==
  ASSUME BInv, NEW d \in Tabular, Integrity(d),
         NEW wineOf \in Maps(archive.wines, d.wines, Wines \ d.wines, Key),
         NEW userOf \in Maps(archive.users, d.users, Users \ d.users, Name),
         NEW listOf \in Maps(archive.lists, d.lists, Lists \ d.lists, Title),
         NEW ratings \in NewRatings(d, wineOf, userOf)
  PROVE  /\ \A q \in ratings : \E r \in archive.ratings :
              /\ r.wine \in archive.wines /\ r.user \in archive.users
              /\ q = [wine |-> wineOf[r.wine], user |-> userOf[r.user], stars |-> r.stars]
         /\ \A q \in NewComments(d, wineOf, userOf) : \E r \in archive.comments :
              /\ r.wine \in archive.wines /\ r.user \in archive.users
              /\ q = [wine |-> wineOf[r.wine], user |-> userOf[r.user], body |-> r.body,
                      copy |-> 1]
         /\ \A q \in NewItems(wineOf, listOf) : \E i \in archive.items :
              /\ i.list \in archive.lists /\ i.wine \in archive.wines
              /\ q = [list |-> listOf[i.list], wine |-> wineOf[i.wine]]
<1>1. DOMAIN wineOf = archive.wines /\ DOMAIN userOf = archive.users
      /\ DOMAIN listOf = archive.lists
  BY MapsOf
<1>2. ASSUME NEW q \in ratings
      PROVE  \E r \in archive.ratings :
               /\ r.wine \in archive.wines /\ r.user \in archive.users
               /\ q = [wine |-> wineOf[r.wine], user |-> userOf[r.user], stars |-> r.stars]
  BY <1>1 DEF NewRatings, Known
<1>3. ASSUME NEW q \in NewComments(d, wineOf, userOf)
      PROVE  \E r \in archive.comments :
               /\ r.wine \in archive.wines /\ r.user \in archive.users
               /\ q = [wine |-> wineOf[r.wine], user |-> userOf[r.user], body |-> r.body,
                       copy |-> 1]
  BY <1>1 DEF NewComments, Known
<1>4. ASSUME NEW q \in NewItems(wineOf, listOf)
      PROVE  \E i \in archive.items :
               /\ i.list \in archive.lists /\ i.wine \in archive.wines
               /\ q = [list |-> listOf[i.list], wine |-> wineOf[i.wine]]
  BY <1>1 DEF NewItems
<1> QED BY <1>2, <1>3, <1>4

\* And every row of the archive that is known has its like afterwards.
LEMMA RowsArrive ==
  ASSUME BInv, NEW d \in Tabular, Integrity(d),
         NEW wineOf \in Maps(archive.wines, d.wines, Wines \ d.wines, Key),
         NEW userOf \in Maps(archive.users, d.users, Users \ d.users, Name),
         NEW listOf \in Maps(archive.lists, d.lists, Lists \ d.lists, Title),
         NEW ratings \in NewRatings(d, wineOf, userOf)
  PROVE  /\ \A r \in archive.ratings : r.wine \in archive.wines /\ r.user \in archive.users =>
              \E q \in d.ratings \cup ratings : q.wine = wineOf[r.wine] /\ q.user = userOf[r.user]
         /\ \A r \in archive.comments : r.wine \in archive.wines /\ r.user \in archive.users =>
              \E q \in d.comments \cup NewComments(d, wineOf, userOf) :
                q.wine = wineOf[r.wine] /\ q.user = userOf[r.user] /\ q.body = r.body
         /\ \A i \in archive.items : i.list \in archive.lists /\ i.wine \in archive.wines =>
              \E q \in NewItems(wineOf, listOf) :
                q.list = listOf[i.list] /\ q.wine = wineOf[i.wine]
<1>1. DOMAIN wineOf = archive.wines /\ DOMAIN userOf = archive.users
      /\ DOMAIN listOf = archive.lists
  BY MapsOf
<1>2. ASSUME NEW r \in archive.ratings, r.wine \in archive.wines, r.user \in archive.users
      PROVE  \E q \in d.ratings \cup ratings : q.wine = wineOf[r.wine] /\ q.user = userOf[r.user]
  <2> DEFINE n == [wine |-> wineOf[r.wine], user |-> userOf[r.user], stars |-> r.stars]
             all == {[wine |-> wineOf[x.wine], user |-> userOf[x.user], stars |-> x.stars]
                       : x \in Known(archive.ratings, wineOf, userOf)}
             new == {x \in all : \A q \in d.ratings : ~(q.wine = x.wine /\ q.user = x.user)}
  <2>1. n \in all /\ n.wine = wineOf[r.wine] /\ n.user = userOf[r.user]
    BY <1>1, <1>2 DEF Known
  <2>2. \A x \in new : \E q \in ratings : q.wine = x.wine /\ q.user = x.user
    BY DEF NewRatings
  <2> HIDE DEF n, all
  <2>3. n \in new \/ \E q \in d.ratings : q.wine = n.wine /\ q.user = n.user
    BY <2>1
  <2> HIDE DEF new
  <2> QED BY <2>1, <2>2, <2>3
<1>3. ASSUME NEW r \in archive.comments, r.wine \in archive.wines, r.user \in archive.users
      PROVE  \E q \in d.comments \cup NewComments(d, wineOf, userOf) :
               q.wine = wineOf[r.wine] /\ q.user = userOf[r.user] /\ q.body = r.body
  <2> DEFINE n == [wine |-> wineOf[r.wine], user |-> userOf[r.user], body |-> r.body,
                   copy |-> 1]
             all == {[wine |-> wineOf[x.wine], user |-> userOf[x.user], body |-> x.body,
                      copy |-> 1] : x \in Known(archive.comments, wineOf, userOf)}
  <2>1. /\ n \in all /\ n.wine = wineOf[r.wine] /\ n.user = userOf[r.user]
        /\ n.body = r.body
    BY <1>1, <1>3 DEF Known
  <2>2. NewComments(d, wineOf, userOf) =
          {c \in all : \A q \in d.comments :
                         ~(q.wine = c.wine /\ q.user = c.user /\ q.body = c.body)}
    BY DEF NewComments
  <2> HIDE DEF n, all
  <2> QED BY <2>1, <2>2
<1>4. ASSUME NEW i \in archive.items, i.list \in archive.lists, i.wine \in archive.wines
      PROVE  \E q \in NewItems(wineOf, listOf) :
               q.list = listOf[i.list] /\ q.wine = wineOf[i.wine]
  <2> DEFINE n == [list |-> listOf[i.list], wine |-> wineOf[i.wine]]
  <2>1. n \in NewItems(wineOf, listOf)
    BY <1>1, <1>4 DEF NewItems
  <2> QED BY <2>1
<1> QED BY <1>2, <1>3, <1>4

\* An import leaves sound tables, with everything in them that it could place.
LEMMA ImportIsSound ==
  ASSUME BInv, NEW d \in Tabular, Integrity(d),
         NEW wineOf \in Maps(archive.wines, d.wines, Wines \ d.wines, Key),
         NEW userOf \in Maps(archive.users, d.users, Users \ d.users, Name),
         NEW listOf \in Maps(archive.lists, d.lists, Lists \ d.lists, Title),
         NEW ratings \in NewRatings(d, wineOf, userOf)
  PROVE  /\ Imported(d, wineOf, userOf, listOf, ratings) \in Tabular
         /\ Integrity(Imported(d, wineOf, userOf, listOf, ratings))
         /\ Absorbed(Imported(d, wineOf, userOf, listOf, ratings))
<1> DEFINE e == Imported(d, wineOf, userOf, listOf, ratings)
           comments == NewComments(d, wineOf, userOf)
           items == NewItems(wineOf, listOf)
<1>1. /\ e.wines = d.wines \cup Range(wineOf) /\ e.users = d.users \cup Range(userOf)
      /\ e.lists = d.lists \cup Range(listOf) /\ e.ratings = d.ratings \cup ratings
      /\ e.comments = d.comments \cup comments /\ e.items = d.items \cup items
  BY DEF Imported
<1>2. /\ d.wines \subseteq Wines /\ d.users \subseteq Users /\ d.lists \subseteq Lists
      /\ d.ratings \subseteq Ratings /\ d.comments \subseteq Comments
      /\ d.items \subseteq Items
  BY TablesOf
<1>3. /\ archive \in Tabular
      /\ archive.ratings \subseteq Ratings /\ archive.comments \subseteq Comments
  BY TablesOf DEF BInv, BTypeOK
<1>4. /\ Range(wineOf) \subseteq Wines /\ Range(userOf) \subseteq Users
      /\ Range(listOf) \subseteq Lists
  BY <1>2, MapsOf
<1>5. /\ \A w \in archive.wines : wineOf[w] \in Range(wineOf) /\ Key[wineOf[w]] = Key[w]
      /\ \A u \in archive.users : userOf[u] \in Range(userOf) /\ Name[userOf[u]] = Name[u]
      /\ \A l \in archive.lists : listOf[l] \in Range(listOf) /\ Title[listOf[l]] = Title[l]
  <2>1. \A w \in archive.wines : wineOf[w] \in Range(wineOf) /\ Key[wineOf[w]] = Key[w]
    BY MapsOf
  <2>2. \A u \in archive.users : userOf[u] \in Range(userOf) /\ Name[userOf[u]] = Name[u]
    BY MapsOf
  <2>3. \A l \in archive.lists : listOf[l] \in Range(listOf) /\ Title[listOf[l]] = Title[l]
    BY MapsOf
  <2> QED BY <2>1, <2>2, <2>3
<1>6. /\ \A q \in ratings : q \in Ratings /\ q.wine \in Range(wineOf) /\ q.user \in Range(userOf)
      /\ \A q \in comments : q \in Comments /\ q.wine \in Range(wineOf) /\ q.user \in Range(userOf)
      /\ \A q \in items : q \in Items /\ q.list \in Range(listOf) /\ q.wine \in Range(wineOf)
  <2>0. /\ \A q \in ratings : \E r \in archive.ratings :
             /\ r.wine \in archive.wines /\ r.user \in archive.users
             /\ q = [wine |-> wineOf[r.wine], user |-> userOf[r.user], stars |-> r.stars]
        /\ \A q \in NewComments(d, wineOf, userOf) : \E r \in archive.comments :
             /\ r.wine \in archive.wines /\ r.user \in archive.users
             /\ q = [wine |-> wineOf[r.wine], user |-> userOf[r.user], body |-> r.body,
                     copy |-> 1]
        /\ \A q \in NewItems(wineOf, listOf) : \E i \in archive.items :
             /\ i.list \in archive.lists /\ i.wine \in archive.wines
             /\ q = [list |-> listOf[i.list], wine |-> wineOf[i.wine]]
    BY NewRows
  <2>1. ASSUME NEW q \in ratings
        PROVE  q \in Ratings /\ q.wine \in Range(wineOf) /\ q.user \in Range(userOf)
    <3>1. PICK r \in archive.ratings :
            /\ r.wine \in archive.wines /\ r.user \in archive.users
            /\ q = [wine |-> wineOf[r.wine], user |-> userOf[r.user], stars |-> r.stars]
      BY <2>0
    <3>2. r.stars \in Stars
      BY <1>3 DEF Ratings
    <3> QED BY <1>4, <1>5, <3>1, <3>2 DEF Ratings
  <2>2. ASSUME NEW q \in comments
        PROVE  q \in Comments /\ q.wine \in Range(wineOf) /\ q.user \in Range(userOf)
    <3>1. PICK r \in archive.comments :
            /\ r.wine \in archive.wines /\ r.user \in archive.users
            /\ q = [wine |-> wineOf[r.wine], user |-> userOf[r.user], body |-> r.body,
                    copy |-> 1]
      BY <2>0
    <3>2. r.body \in Bodies
      BY <1>3 DEF Comments
    <3> QED BY <1>4, <1>5, <3>1, <3>2 DEF Comments
  <2>3. ASSUME NEW q \in items
        PROVE  q \in Items /\ q.list \in Range(listOf) /\ q.wine \in Range(wineOf)
    <3>1. PICK i \in archive.items :
            /\ i.list \in archive.lists /\ i.wine \in archive.wines
            /\ q = [list |-> listOf[i.list], wine |-> wineOf[i.wine]]
      BY <2>0
    <3> QED BY <1>4, <1>5, <3>1 DEF Items
  <2> QED BY <2>1, <2>2, <2>3
<1>7. e \in Tabular
  <2>1. /\ d.wines \cup Range(wineOf) \in SUBSET Wines
        /\ d.users \cup Range(userOf) \in SUBSET Users
        /\ d.lists \cup Range(listOf) \in SUBSET Lists
        /\ d.ratings \cup ratings \in SUBSET Ratings
        /\ d.comments \cup comments \in SUBSET Comments
        /\ d.items \cup items \in SUBSET Items
    BY <1>2, <1>4, <1>6
  <2> QED BY <2>1, TabularBy DEF Imported
<1>8. Integrity(e)
  <2>1. /\ \A r \in e.ratings : r.wine \in e.wines /\ r.user \in e.users
        /\ \A c \in e.comments : c.wine \in e.wines /\ c.user \in e.users
        /\ \A i \in e.items : i.list \in e.lists /\ i.wine \in e.wines
    BY <1>1, <1>6 DEF Integrity
  <2>2. \A q, r \in e.ratings : q.wine = r.wine /\ q.user = r.user => q = r
    <3>1. /\ \A q, r \in ratings : q.wine = r.wine /\ q.user = r.user => q = r
          /\ \A r \in ratings, q \in d.ratings : ~(q.wine = r.wine /\ q.user = r.user)
      BY DEF NewRatings
    <3>2. \A q, r \in d.ratings : q.wine = r.wine /\ q.user = r.user => q = r
      BY DEF Integrity
    <3> QED BY <1>1, <3>1, <3>2
  <2>3. \A u, v \in e.users : Name[u] = Name[v] => u = v
    <3>1. \A u, v \in d.users : Name[u] = Name[v] => u = v
      BY DEF Integrity
    <3> QED BY <1>1, <3>1, MapsKeepUnique
  <2>4. \A l, m \in e.lists : Title[l] = Title[m] => l = m
    <3>1. \A l, m \in d.lists : Title[l] = Title[m] => l = m
      BY DEF Integrity
    <3> QED BY <1>1, <3>1, MapsKeepUnique
  <2> QED BY <2>1, <2>2, <2>3, <2>4 DEF Integrity
<1>9. Absorbed(e)
  <2>1. /\ \A w \in archive.wines : \E v \in e.wines : Key[v] = Key[w]
        /\ \A u \in archive.users : \E v \in e.users : Name[v] = Name[u]
        /\ \A l \in archive.lists : \E m \in e.lists : Title[m] = Title[l]
    BY <1>1, <1>5
  <2>2. ASSUME NEW r \in archive.ratings, r.wine \in archive.wines, r.user \in archive.users
        PROVE  \E q \in e.ratings : Key[q.wine] = Key[r.wine] /\ Name[q.user] = Name[r.user]
    <3>1. PICK q \in d.ratings \cup ratings : q.wine = wineOf[r.wine] /\ q.user = userOf[r.user]
      BY <2>2, RowsArrive
    <3> QED BY <1>1, <1>5, <2>2, <3>1
  <2>3. ASSUME NEW r \in archive.comments, r.wine \in archive.wines, r.user \in archive.users
        PROVE  \E q \in e.comments : /\ Key[q.wine] = Key[r.wine] /\ Name[q.user] = Name[r.user]
                                     /\ q.body = r.body
    <3>1. PICK q \in d.comments \cup comments :
            q.wine = wineOf[r.wine] /\ q.user = userOf[r.user] /\ q.body = r.body
      BY <2>3, RowsArrive
    <3> QED BY <1>1, <1>5, <2>3, <3>1
  <2>4. ASSUME NEW i \in archive.items, i.list \in archive.lists, i.wine \in archive.wines
        PROVE  \E q \in e.items : Title[q.list] = Title[i.list] /\ Key[q.wine] = Key[i.wine]
    <3>1. PICK q \in items : q.list = listOf[i.list] /\ q.wine = wineOf[i.wine]
      BY <2>4, RowsArrive
    <3> QED BY <1>1, <1>5, <2>4, <3>1
  <2> HIDE DEF e
  <2> QED BY <2>1, <2>2, <2>3, <2>4 DEF Absorbed
<1> QED BY <1>7, <1>8, <1>9

LEMMA BaseIsSound ==
  ASSUME BInv, NEW replace \in BOOLEAN
  PROVE  /\ Base(replace) \in Tabular /\ Integrity(Base(replace))
         /\ replace => /\ Base(replace).ratings = {} /\ Base(replace).wines = {}
                       /\ Base(replace).comments = {} /\ Base(replace).items = {}
         /\ ~replace => Base(replace) = db
<1>1. db \in Tabular /\ Integrity(db) /\ db.users \subseteq Users
  BY TablesOf DEF BInv, BTypeOK
<1>2. CASE replace
  <2> DEFINE d == [wines |-> {}, users |-> db.users, ratings |-> {}, comments |-> {},
                   lists |-> {}, items |-> {}]
  <2>1. Base(replace) = d
    BY <1>2 DEF Base, Empty
  <2>2. d \in Tabular
    BY <1>1, TabularBy
  <2>3. Integrity(d)
    BY <1>1 DEF Integrity
  <2>4. d.ratings = {} /\ d.wines = {} /\ d.comments = {} /\ d.items = {}
    OBVIOUS
  <2> HIDE DEF d
  <2> QED BY <1>2, <2>1, <2>2, <2>3, <2>4
<1>3. CASE ~replace
  BY <1>1, <1>3 DEF Base
<1> QED BY <1>2, <1>3

LEMMA ImportOf ==
  ASSUME BInv, NEW replace \in BOOLEAN, Import(replace)
  PROVE  /\ next = 6 /\ merged' = ~replace /\ UNCHANGED <<archive, next, steady, edits>>
         /\ \E wineOf \in Maps(archive.wines, Base(replace).wines, Wines \ Base(replace).wines, Key),
               userOf \in Maps(archive.users, Base(replace).users, Users \ Base(replace).users, Name),
               listOf \in Maps(archive.lists, Base(replace).lists, Lists \ Base(replace).lists, Title) :
              \E ratings \in NewRatings(Base(replace), wineOf, userOf) :
                db' = Imported(Base(replace), wineOf, userOf, listOf, ratings)
BY DEF Import, Imported

LEMMA ImportKeeps ==
  ASSUME BInv, NEW replace \in BOOLEAN, Import(replace)
  PROVE  BInv'
<1> DEFINE d == Base(replace)
<1>1. d \in Tabular /\ Integrity(d)
  BY BaseIsSound
<1>2. /\ next = 6 /\ merged' = ~replace
      /\ archive' = archive /\ next' = next /\ steady' = steady /\ edits' = edits
  BY ImportOf
<1>3. db' \in Tabular /\ Integrity(db') /\ Absorbed(db')
  <2>1. PICK wineOf \in Maps(archive.wines, d.wines, Wines \ d.wines, Key),
             userOf \in Maps(archive.users, d.users, Users \ d.users, Name),
             listOf \in Maps(archive.lists, d.lists, Lists \ d.lists, Title) :
               \E ratings \in NewRatings(d, wineOf, userOf) :
                 db' = Imported(d, wineOf, userOf, listOf, ratings)
    BY ImportOf
  <2>2. PICK ratings \in NewRatings(d, wineOf, userOf) :
          db' = Imported(d, wineOf, userOf, listOf, ratings)
    BY <2>1
  <2> HIDE DEF d
  <2> QED BY <1>1, <2>2, ImportIsSound
<1>4. BTypeOK'
  <2>1. merged' \in BOOLEAN
    BY <1>2
  <2> QED BY <1>2, <1>3, <2>1 DEF BInv, BTypeOK
<1>5. Absorbed(db)'
  BY <1>2, <1>3 DEF Absorbed
<1>6. Rooted(steady)' /\ Unique(archive)'
  BY <1>2 DEF BInv, Rooted, Unique
<1>7. Followed'
  BY <1>2 DEF BInv, Followed
<1> QED BY <1>2, <1>4, <1>5, <1>6, <1>7 DEF BInv

LEMMA StartExportKeeps == BInv /\ StartExport => BInv'
<1> SUFFICES ASSUME BInv, StartExport PROVE BInv'
  OBVIOUS
<1>1. /\ next = 6 /\ archive' = Empty /\ next' = 0 /\ steady' = db /\ merged' = FALSE
      /\ db' = db /\ edits' = edits
      /\ db \in Tabular /\ Integrity(db)
  BY DEF StartExport, BInv, BTypeOK
<1>2. BTypeOK'
  <2>1. archive' \in Tabular /\ steady' \in Tabular /\ merged' \in BOOLEAN
    BY <1>1, EmptyIsSound
  <2>2. next' \in 0..6
    BY <1>1
  <2> QED BY <1>1, <2>1, <2>2 DEF BInv, BTypeOK
<1>3. Rooted(steady)'
  BY <1>1 DEF Rooted, Integrity
<1>4. Unique(archive)'
  BY <1>1, EmptyIsSound DEF Unique
<1>5. Followed'
  BY <1>1 DEF Followed
<1> QED BY <1>1, <1>2, <1>3, <1>4, <1>5 DEF BInv

LEMMA SelectKeeps == BInv /\ Select => BInv'
<1> SUFFICES ASSUME BInv, Select PROVE BInv'
  OBVIOUS
<1>1. /\ next < 6 /\ next' = next + 1 /\ db' = db /\ steady' = steady /\ edits' = edits
      /\ merged' = merged /\ next \in 0..6
      /\ db \in Tabular /\ Integrity(db) /\ archive \in Tabular
  BY DEF Select, BInv, BTypeOK
<1>2. ~merged
  BY <1>1 DEF BInv
<1>3. /\ db.wines \subseteq Wines /\ db.users \subseteq Users /\ db.lists \subseteq Lists
      /\ db.ratings \subseteq Ratings /\ db.comments \subseteq Comments
      /\ db.items \subseteq Items
  BY <1>1, TablesOf
<1>4. /\ next = 0 => archive' = [archive EXCEPT !.wines = db.wines]
      /\ next = 1 => archive' = [archive EXCEPT !.users = db.users]
      /\ next = 2 => archive' = [archive EXCEPT !.ratings = db.ratings]
      /\ next = 3 => archive' = [archive EXCEPT !.comments = db.comments]
      /\ next = 4 => archive' = [archive EXCEPT !.lists = db.lists]
      /\ next = 5 => archive' = [archive EXCEPT !.items = db.items]
  <2>1. /\ Tables[1] = "wines" /\ Tables[2] = "users" /\ Tables[3] = "ratings"
        /\ Tables[4] = "comments" /\ Tables[5] = "lists" /\ Tables[6] = "items"
    BY DEF Tables
  <2>2. archive' = [archive EXCEPT ![Tables[next + 1]] = db[Tables[next + 1]]]
    BY DEF Select
  <2>3. ASSUME NEW k \in 1..6, next + 1 = k, NEW t, Tables[k] = t
        PROVE  archive' = [archive EXCEPT ![t] = db[t]]
    BY <2>2, <2>3
  <2>4. CASE next = 0
    <3>1. next + 1 = 1
      BY <2>4
    <3> QED BY <2>1, <2>3, <3>1, <2>4
  <2>5. CASE next = 1
    <3>1. next + 1 = 2
      BY <2>5
    <3> QED BY <2>1, <2>3, <3>1, <2>5
  <2>6. CASE next = 2
    <3>1. next + 1 = 3
      BY <2>6
    <3> QED BY <2>1, <2>3, <3>1, <2>6
  <2>7. CASE next = 3
    <3>1. next + 1 = 4
      BY <2>7
    <3> QED BY <2>1, <2>3, <3>1, <2>7
  <2>8. CASE next = 4
    <3>1. next + 1 = 5
      BY <2>8
    <3> QED BY <2>1, <2>3, <3>1, <2>8
  <2>9. CASE next = 5
    <3>1. next + 1 = 6
      BY <2>9
    <3> QED BY <2>1, <2>3, <3>1, <2>9
  <2> QED BY <1>1, <2>4, <2>5, <2>6, <2>7, <2>8, <2>9
<1>5. /\ archive' \in Tabular
      /\ archive'.wines = IF next = 0 THEN db.wines ELSE archive.wines
      /\ archive'.users = IF next = 1 THEN db.users ELSE archive.users
      /\ archive'.ratings = IF next = 2 THEN db.ratings ELSE archive.ratings
      /\ archive'.comments = IF next = 3 THEN db.comments ELSE archive.comments
      /\ archive'.lists = IF next = 4 THEN db.lists ELSE archive.lists
      /\ archive'.items = IF next = 5 THEN db.items ELSE archive.items
  <2>1. CASE next = 0
    BY <1>1, <1>3, <1>4, <2>1 DEF Tabular
  <2>2. CASE next = 1
    BY <1>1, <1>3, <1>4, <2>2 DEF Tabular
  <2>3. CASE next = 2
    BY <1>1, <1>3, <1>4, <2>3 DEF Tabular
  <2>4. CASE next = 3
    BY <1>1, <1>3, <1>4, <2>4 DEF Tabular
  <2>5. CASE next = 4
    BY <1>1, <1>3, <1>4, <2>5 DEF Tabular
  <2>6. CASE next = 5
    BY <1>1, <1>3, <1>4, <2>6 DEF Tabular
  <2> QED BY <1>1, <2>1, <2>2, <2>3, <2>4, <2>5, <2>6
<1>6. BTypeOK'
  <2>1. next' \in 0..6
    BY <1>1
  <2>2. merged' \in BOOLEAN
    BY <1>1 DEF BInv, BTypeOK
  <2> QED BY <1>1, <1>5, <2>1, <2>2 DEF BInv, BTypeOK
<1>7. Unique(archive)'
  BY <1>1, <1>5 DEF BInv, Unique, Integrity
<1>8. Rooted(steady)'
  BY <1>1 DEF BInv, Rooted
<1>9. Followed'
  <2>1. /\ (next' >= 1) = (next >= 1 \/ next = 0) /\ (next' >= 2) = (next >= 2 \/ next = 1)
        /\ (next' >= 3) = (next >= 3 \/ next = 2) /\ (next' >= 4) = (next >= 4 \/ next = 3)
        /\ (next' >= 5) = (next >= 5 \/ next = 4) /\ (next' >= 6) = (next >= 6 \/ next = 5)
    BY <1>1
  <2>2. /\ next = 0 => ~(next >= 1)
        /\ next = 1 => ~(next >= 2)
        /\ next = 2 => ~(next >= 3)
        /\ next = 3 => ~(next >= 4)
        /\ next = 4 => ~(next >= 5)
        /\ next = 5 => ~(next >= 6)
    OBVIOUS
  <2> QED BY <1>1, <1>5, <2>1, <2>2 DEF BInv, Followed
<1> QED BY <1>1, <1>2, <1>6, <1>7, <1>8, <1>9 DEF BInv

LEMMA BackupNext == BInv /\ [BNext]_bvars => BInv'
<1> SUFFICES ASSUME BInv, [BNext]_bvars PROVE BInv'
  OBVIOUS
<1>1. CASE Requests
  BY <1>1, RequestsKeep
<1>2. CASE StartExport
  BY <1>2, StartExportKeeps
<1>3. CASE Select
  BY <1>3, SelectKeeps
<1>4. CASE Merge
  BY <1>4, ImportKeeps DEF Merge
<1>5. CASE Replace
  BY <1>5, ImportKeeps DEF Replace
<1>6. CASE UNCHANGED bvars
  BY <1>6 DEF bvars, BInv, BTypeOK, Integrity, Rooted, Unique, Followed, Absorbed
<1> QED BY <1>1, <1>2, <1>3, <1>4, <1>5, <1>6 DEF BNext

-----------------------------------------------------------------------------
LEMMA BackupInvariance == BSpec => []BInv
  BY BackupInit, BackupNext, PTL DEF BSpec

\* The tables keep their foreign keys and their unique constraints, whatever is
\* imported from an archive whose own rows need not fit together.
THEOREM TablesKeepIntegrity == BSpec => []BTypeOK
<1>1. BInv => BTypeOK
  BY DEF BInv
<1> QED BY BackupInvariance, <1>1, PTL

\* A steady rating is the only one of its pair, so that no other row of the
\* archive can take its place.
LEMMA SteadyRating ==
  ASSUME BInv, next = 6, Distinct(archive.wines),
         NEW r \in steady.ratings, NEW x \in archive.ratings,
         x.wine \in archive.wines, x.user \in archive.users,
         Key[x.wine] = Key[r.wine], Name[x.user] = Name[r.user]
  PROVE  x = r
<1>1. /\ r \in archive.ratings /\ r.wine \in archive.wines /\ r.user \in archive.users
  BY DEF BInv, Followed, Rooted
<1>2. x.wine = r.wine
  BY <1>1 DEF Distinct
<1>3. x.user = r.user
  BY <1>1 DEF BInv, Unique
<1> QED BY <1>1, <1>2, <1>3 DEF BInv, Unique

\* An import brings every steady row, but for a rating of a pair that has one.
LEMMA ImportBrings ==
  ASSUME BInv, next = 6, Distinct(archive.wines),
         NEW d \in Tabular, Integrity(d),
         NEW wineOf \in Maps(archive.wines, d.wines, Wines \ d.wines, Key),
         NEW userOf \in Maps(archive.users, d.users, Users \ d.users, Name),
         NEW listOf \in Maps(archive.lists, d.lists, Lists \ d.lists, Title),
         NEW ratings \in NewRatings(d, wineOf, userOf),
         db' = Imported(d, wineOf, userOf, listOf, ratings)
  PROVE  Content(steady) \subseteq Content(db') \cup Overruled(d)
<1>1. /\ \A r \in archive.ratings : r.wine \in archive.wines /\ r.user \in archive.users =>
           \E q \in d.ratings \cup ratings : q.wine = wineOf[r.wine] /\ q.user = userOf[r.user]
      /\ \A r \in archive.comments : r.wine \in archive.wines /\ r.user \in archive.users =>
           \E q \in d.comments \cup NewComments(d, wineOf, userOf) :
             q.wine = wineOf[r.wine] /\ q.user = userOf[r.user] /\ q.body = r.body
      /\ \A i \in archive.items : i.list \in archive.lists /\ i.wine \in archive.wines =>
           \E q \in NewItems(wineOf, listOf) :
             q.list = listOf[i.list] /\ q.wine = wineOf[i.wine]
  <2>1. ASSUME NEW r \in archive.ratings, r.wine \in archive.wines, r.user \in archive.users
        PROVE  \E q \in d.ratings \cup ratings :
                 q.wine = wineOf[r.wine] /\ q.user = userOf[r.user]
    BY <2>1, RowsArrive
  <2>2. ASSUME NEW r \in archive.comments, r.wine \in archive.wines, r.user \in archive.users
        PROVE  \E q \in d.comments \cup NewComments(d, wineOf, userOf) :
                 q.wine = wineOf[r.wine] /\ q.user = userOf[r.user] /\ q.body = r.body
    BY <2>2, RowsArrive
  <2>3. ASSUME NEW i \in archive.items, i.list \in archive.lists, i.wine \in archive.wines
        PROVE  \E q \in NewItems(wineOf, listOf) :
                 q.list = listOf[i.list] /\ q.wine = wineOf[i.wine]
    BY <2>3, RowsArrive
  <2> QED BY <2>1, <2>2, <2>3
<1>2. \A q \in ratings : \E r \in archive.ratings :
        /\ r.wine \in archive.wines /\ r.user \in archive.users
        /\ q = [wine |-> wineOf[r.wine], user |-> userOf[r.user], stars |-> r.stars]
  BY NewRows
<1>3. /\ Range(wineOf) \subseteq db'.wines /\ Range(listOf) \subseteq db'.lists
      /\ db'.ratings = d.ratings \cup ratings
      /\ db'.comments = d.comments \cup NewComments(d, wineOf, userOf)
      /\ NewItems(wineOf, listOf) \subseteq db'.items
  BY DEF Imported
<1>4. /\ steady.wines \subseteq archive.wines /\ steady.users \subseteq archive.users
      /\ steady.ratings \subseteq archive.ratings /\ steady.lists \subseteq archive.lists
      /\ steady.comments \subseteq archive.comments /\ steady.items \subseteq archive.items
  BY DEF BInv, Followed
<1>5. \A w \in archive.wines : wineOf[w] \in Range(wineOf) /\ Key[wineOf[w]] = Key[w]
  BY MapsOf
<1>6. \A u \in archive.users : userOf[u] \in Range(userOf) /\ Name[userOf[u]] = Name[u]
  BY MapsOf
<1>7. \A l \in archive.lists : listOf[l] \in Range(listOf) /\ Title[listOf[l]] = Title[l]
  BY MapsOf
<1>8. ASSUME NEW w \in steady.wines
       PROVE  \E v \in db'.wines : Key[v] = Key[w]
  BY <1>3, <1>4, <1>5
<1>9. ASSUME NEW r \in steady.ratings
       PROVE  \/ \E q \in db'.ratings :
                   Key[q.wine] = Key[r.wine] /\ Name[q.user] = Name[r.user] /\ q.stars = r.stars
              \/ \E q \in d.ratings : Key[q.wine] = Key[r.wine] /\ Name[q.user] = Name[r.user]
  <2>1. r \in archive.ratings /\ r.wine \in archive.wines /\ r.user \in archive.users
    BY <1>4 DEF BInv, Rooted
  <2>2. PICK q \in d.ratings \cup ratings : q.wine = wineOf[r.wine] /\ q.user = userOf[r.user]
    BY <1>1, <2>1
  <2>2a. Key[q.wine] = Key[r.wine] /\ Name[q.user] = Name[r.user]
    BY <1>5, <1>6, <2>1, <2>2
  <2> SUFFICES ASSUME q \notin d.ratings
               PROVE  \E y \in db'.ratings : /\ Key[y.wine] = Key[r.wine]
                                             /\ Name[y.user] = Name[r.user]
                                             /\ y.stars = r.stars
    BY <2>2a
  <2>3. PICK x \in archive.ratings :
          /\ x.wine \in archive.wines /\ x.user \in archive.users
          /\ q = [wine |-> wineOf[x.wine], user |-> userOf[x.user], stars |-> x.stars]
    BY <1>2, <2>2
  <2>4. q.wine = wineOf[x.wine] /\ q.user = userOf[x.user] /\ q.stars = x.stars
    BY <2>3
  <2>5. Key[x.wine] = Key[r.wine] /\ Name[x.user] = Name[r.user]
    BY <1>5, <1>6, <2>1, <2>2, <2>3, <2>4
  <2>6. x = r
    BY <2>3, <2>5, SteadyRating
  <2> QED BY <1>3, <2>2, <2>2a, <2>4, <2>6
<1>10. ASSUME NEW c \in steady.comments
       PROVE  \E q \in db'.comments :
                Key[q.wine] = Key[c.wine] /\ Name[q.user] = Name[c.user] /\ q.body = c.body
  <2>1. c \in archive.comments /\ c.wine \in archive.wines /\ c.user \in archive.users
    BY <1>4 DEF BInv, Rooted
  <2>2. \E q \in d.comments \cup NewComments(d, wineOf, userOf) :
          q.wine = wineOf[c.wine] /\ q.user = userOf[c.user] /\ q.body = c.body
    BY <1>1, <2>1
  <2> QED BY <1>3, <1>5, <1>6, <2>1, <2>2
<1>11. ASSUME NEW l \in steady.lists
       PROVE  \E m \in db'.lists : Title[m] = Title[l]
  BY <1>3, <1>4, <1>7
<1>12. ASSUME NEW i \in steady.items
       PROVE  \E q \in db'.items : Title[q.list] = Title[i.list] /\ Key[q.wine] = Key[i.wine]
  <2>1. i \in archive.items /\ i.list \in archive.lists /\ i.wine \in archive.wines
    BY <1>4 DEF BInv, Rooted
  <2>2. \E q \in NewItems(wineOf, listOf) : q.list = listOf[i.list] /\ q.wine = wineOf[i.wine]
    BY <1>1, <2>1
  <2> QED BY <1>3, <1>5, <1>7, <2>1, <2>2
<1> SUFFICES ASSUME NEW c \in Content(steady) PROVE c \in Content(db') \cup Overruled(d)
  OBVIOUS
<1>13. CASE c \in {<<"wine", Key[w]>> : w \in steady.wines}
  BY <1>8, <1>13 DEF Content
<1>14. CASE c \in {<<"rating", Key[r.wine], Name[r.user], r.stars>> : r \in steady.ratings}
  <2>1. PICK r \in steady.ratings : c = <<"rating", Key[r.wine], Name[r.user], r.stars>>
    BY <1>14
  <2>2. CASE \E q \in db'.ratings :
               Key[q.wine] = Key[r.wine] /\ Name[q.user] = Name[r.user] /\ q.stars = r.stars
    <3>1. PICK q \in db'.ratings :
            Key[q.wine] = Key[r.wine] /\ Name[q.user] = Name[r.user] /\ q.stars = r.stars
      BY <2>2
    <3>2. c = <<"rating", Key[q.wine], Name[q.user], q.stars>>
      BY <2>1, <3>1
    <3> QED BY <3>2 DEF Content
  <2>3. CASE \E q \in d.ratings : Key[q.wine] = Key[r.wine] /\ Name[q.user] = Name[r.user]
    <3>1. PICK q \in d.ratings : Key[q.wine] = Key[r.wine] /\ Name[q.user] = Name[r.user]
      BY <2>3
    <3>2. r.stars \in Stars
      BY TablesOf DEF BInv, BTypeOK, Ratings
    <3>3. c = <<"rating", Key[q.wine], Name[q.user], r.stars>>
      BY <2>1, <3>1
    <3> QED BY <3>2, <3>3 DEF Overruled
  <2> QED BY <1>9, <2>2, <2>3
<1>15. CASE c \in {<<"comment", Key[x.wine], Name[x.user], x.body>> : x \in steady.comments}
  <2>1. PICK x \in steady.comments : c = <<"comment", Key[x.wine], Name[x.user], x.body>>
    BY <1>15
  <2>2. PICK q \in db'.comments :
          Key[q.wine] = Key[x.wine] /\ Name[q.user] = Name[x.user] /\ q.body = x.body
    BY <1>10
  <2>3. c = <<"comment", Key[q.wine], Name[q.user], q.body>>
    BY <2>1, <2>2
  <2> QED BY <2>3 DEF Content
<1>16. CASE c \in {<<"list", Title[l]>> : l \in steady.lists}
  BY <1>11, <1>16 DEF Content
<1>17. CASE c \in {<<"item", Title[i.list], Key[i.wine]>> : i \in steady.items}
  <2>1. PICK i \in steady.items : c = <<"item", Title[i.list], Key[i.wine]>>
    BY <1>17
  <2>2. PICK q \in db'.items : Title[q.list] = Title[i.list] /\ Key[q.wine] = Key[i.wine]
    BY <1>12
  <2>3. c = <<"item", Title[q.list], Key[q.wine]>>
    BY <2>1, <2>2
  <2> QED BY <2>3 DEF Content
<1> QED BY <1>13, <1>14, <1>15, <1>16, <1>17 DEF Content

LEMMA ReplaceRestores ==
  BInv /\ Replace /\ Distinct(archive.wines) => Content(steady) \subseteq Content(db')
<1> SUFFICES ASSUME BInv, Replace, Distinct(archive.wines)
             PROVE  Content(steady) \subseteq Content(db')
  OBVIOUS
<1> DEFINE d == Base(TRUE)
<1>1. d \in Tabular /\ Integrity(d) /\ d.ratings = {}
  BY BaseIsSound
<1>2. Import(TRUE) /\ next = 6
  BY ImportOf DEF Replace
<1>3. PICK wineOf \in Maps(archive.wines, d.wines, Wines \ d.wines, Key),
           userOf \in Maps(archive.users, d.users, Users \ d.users, Name),
           listOf \in Maps(archive.lists, d.lists, Lists \ d.lists, Title) :
             \E ratings \in NewRatings(d, wineOf, userOf) :
               db' = Imported(d, wineOf, userOf, listOf, ratings)
  BY <1>2, ImportOf
<1>4. PICK ratings \in NewRatings(d, wineOf, userOf) :
        db' = Imported(d, wineOf, userOf, listOf, ratings)
  BY <1>3
<1> HIDE DEF d
<1>5. \A c \in Overruled(d) : FALSE
  <2>1. \A r \in d.ratings : FALSE
    BY <1>1
  <2> QED BY <2>1 DEF Overruled
<1> QED BY <1>1, <1>2, <1>4, <1>5, ImportBrings

\* Restoring from a backup brings back every row that stayed in the tables while
\* the export read them one after the other, under the author, the wine and the
\* list it had, whatever else was committed between the SELECTs, and whatever was
\* deleted or written after them.
THEOREM SteadyRowsComeBack == BSpec => SteadyRowsAreRestored
<1>1. BInv => (Replace /\ Distinct(archive.wines) => Content(steady) \subseteq Content(db'))
  BY ReplaceRestores
<1>2. BInv /\ [BNext]_bvars =>
        [Replace /\ Distinct(archive.wines) => Content(steady) \subseteq Content(db')]_bvars
  BY <1>1
<1> QED BY BackupInvariance, <1>1, <1>2, PTL DEF SteadyRowsAreRestored, BSpec

-----------------------------------------------------------------------------
\* A merge from the committed tables.
LEMMA MergeOf ==
  ASSUME BInv, Merge
  PROVE  \E wineOf \in Maps(archive.wines, db.wines, Wines \ db.wines, Key),
            userOf \in Maps(archive.users, db.users, Users \ db.users, Name),
            listOf \in Maps(archive.lists, db.lists, Lists \ db.lists, Title) :
           \E ratings \in NewRatings(db, wineOf, userOf) :
             db' = Imported(db, wineOf, userOf, listOf, ratings)
<1>1. Base(FALSE) = db
  BY BaseIsSound
<1> QED BY <1>1, ImportOf DEF Merge

LEMMA MergeBrings ==
  BInv /\ Merge /\ Distinct(archive.wines) =>
    Content(steady) \subseteq Content(db') \cup Overruled(db)
<1> SUFFICES ASSUME BInv, Merge, Distinct(archive.wines)
             PROVE  Content(steady) \subseteq Content(db') \cup Overruled(db)
  OBVIOUS
<1>1. db \in Tabular /\ Integrity(db) /\ next = 6
  BY ImportOf DEF BInv, BTypeOK, Merge
<1>2. PICK wineOf \in Maps(archive.wines, db.wines, Wines \ db.wines, Key),
           userOf \in Maps(archive.users, db.users, Users \ db.users, Name),
           listOf \in Maps(archive.lists, db.lists, Lists \ db.lists, Title) :
             \E ratings \in NewRatings(db, wineOf, userOf) :
               db' = Imported(db, wineOf, userOf, listOf, ratings)
  BY MergeOf
<1>3. PICK ratings \in NewRatings(db, wineOf, userOf) :
        db' = Imported(db, wineOf, userOf, listOf, ratings)
  BY <1>2
<1> QED BY <1>1, <1>3, ImportBrings

\* A merge brings back what was there throughout the export and has been deleted
\* since, with its author, its wine and its list, whatever ids they have by now;
\* a rating alone gives way to what its author has rated the wine since.
THEOREM MergesBringBack == BSpec => MergeBringsBack
<1>1. BInv => (Merge /\ Distinct(archive.wines) =>
                 Content(steady) \subseteq Content(db') \cup Overruled(db))
  BY MergeBrings
<1>2. BInv /\ [BNext]_bvars =>
        [Merge /\ Distinct(archive.wines) =>
           Content(steady) \subseteq Content(db') \cup Overruled(db)]_bvars
  BY <1>1
<1> QED BY BackupInvariance, <1>1, <1>2, PTL DEF MergeBringsBack, BSpec

LEMMA SecondMerge == BInv /\ merged /\ Merge /\ Distinct(db.wines) => db' = db
<1> SUFFICES ASSUME BInv, merged, Merge, Distinct(db.wines) PROVE db' = db
  OBVIOUS
<1>1. db \in Tabular /\ Integrity(db) /\ Absorbed(db)
  BY DEF BInv, BTypeOK
<1>2. PICK wineOf \in Maps(archive.wines, db.wines, Wines \ db.wines, Key),
           userOf \in Maps(archive.users, db.users, Users \ db.users, Name),
           listOf \in Maps(archive.lists, db.lists, Lists \ db.lists, Title) :
             \E ratings \in NewRatings(db, wineOf, userOf) :
               db' = Imported(db, wineOf, userOf, listOf, ratings)
  BY MergeOf
<1>3. PICK ratings \in NewRatings(db, wineOf, userOf) :
        db' = Imported(db, wineOf, userOf, listOf, ratings)
  BY <1>2
<1>3a. /\ \A q \in ratings : \E r \in archive.ratings :
            /\ r.wine \in archive.wines /\ r.user \in archive.users
            /\ q = [wine |-> wineOf[r.wine], user |-> userOf[r.user], stars |-> r.stars]
       /\ \A q \in NewComments(db, wineOf, userOf) : \E r \in archive.comments :
            /\ r.wine \in archive.wines /\ r.user \in archive.users
            /\ q = [wine |-> wineOf[r.wine], user |-> userOf[r.user], body |-> r.body,
                    copy |-> 1]
       /\ \A q \in NewItems(wineOf, listOf) : \E i \in archive.items :
            /\ i.list \in archive.lists /\ i.wine \in archive.wines
            /\ q = [list |-> listOf[i.list], wine |-> wineOf[i.wine]]
  BY <1>1, NewRows
<1>4. /\ Range(wineOf) \subseteq db.wines
      /\ \A w \in archive.wines : wineOf[w] \in db.wines /\ Key[wineOf[w]] = Key[w]
  <2>1. \A w \in archive.wines : wineOf[w] \in db.wines /\ Key[wineOf[w]] = Key[w]
    BY <1>1, MapsOf DEF Absorbed
  <2> QED BY <2>1, MapsOf DEF Range
<1>5. /\ Range(userOf) \subseteq db.users
      /\ \A u \in archive.users : userOf[u] \in db.users /\ Name[userOf[u]] = Name[u]
  <2>1. \A u \in archive.users : userOf[u] \in db.users /\ Name[userOf[u]] = Name[u]
    BY <1>1, MapsOf DEF Absorbed
  <2> QED BY <2>1, MapsOf DEF Range
<1>6. /\ Range(listOf) \subseteq db.lists
      /\ \A l \in archive.lists : listOf[l] \in db.lists /\ Title[listOf[l]] = Title[l]
  <2>1. \A l \in archive.lists : listOf[l] \in db.lists /\ Title[listOf[l]] = Title[l]
    BY <1>1, MapsOf DEF Absorbed
  <2> QED BY <2>1, MapsOf DEF Range
<1>7. ratings = {}
  <2> SUFFICES ASSUME NEW q \in ratings PROVE FALSE
    OBVIOUS
  <2>1. PICK r \in archive.ratings :
          /\ r.wine \in archive.wines /\ r.user \in archive.users
          /\ q = [wine |-> wineOf[r.wine], user |-> userOf[r.user], stars |-> r.stars]
    <3>1. \A y \in ratings : \E z \in archive.ratings :
            /\ z.wine \in archive.wines /\ z.user \in archive.users
            /\ y = [wine |-> wineOf[z.wine], user |-> userOf[z.user], stars |-> z.stars]
      BY <1>3a
    <3> QED BY <3>1
  <2>2. q.wine = wineOf[r.wine] /\ q.user = userOf[r.user]
    BY <2>1
  <2>3. PICK o \in db.ratings : Key[o.wine] = Key[r.wine] /\ Name[o.user] = Name[r.user]
    BY <1>1, <2>1 DEF Absorbed
  <2>4. o.wine \in db.wines /\ o.user \in db.users
    BY <1>1 DEF Integrity
  <2>5. o.wine = q.wine
    BY <1>4, <2>1, <2>2, <2>3, <2>4 DEF Distinct
  <2>6. o.user = q.user
    BY <1>1, <1>5, <2>1, <2>2, <2>3, <2>4 DEF Integrity
  <2>7. ~(o.wine = q.wine /\ o.user = q.user)
    BY DEF NewRatings
  <2> QED BY <2>5, <2>6, <2>7
<1>8. NewComments(db, wineOf, userOf) = {}
  <2> SUFFICES ASSUME NEW q \in NewComments(db, wineOf, userOf) PROVE FALSE
    OBVIOUS
  <2>1. PICK r \in archive.comments :
          /\ r.wine \in archive.wines /\ r.user \in archive.users
          /\ q = [wine |-> wineOf[r.wine], user |-> userOf[r.user], body |-> r.body,
                  copy |-> 1]
    <3>1. \A y \in NewComments(db, wineOf, userOf) : \E z \in archive.comments :
            /\ z.wine \in archive.wines /\ z.user \in archive.users
            /\ y = [wine |-> wineOf[z.wine], user |-> userOf[z.user], body |-> z.body,
                    copy |-> 1]
      BY <1>3a
    <3> QED BY <3>1
  <2>2. q.wine = wineOf[r.wine] /\ q.user = userOf[r.user] /\ q.body = r.body
    BY <2>1
  <2>3. PICK o \in db.comments : /\ Key[o.wine] = Key[r.wine] /\ Name[o.user] = Name[r.user]
                                 /\ o.body = r.body
    BY <1>1, <2>1 DEF Absorbed
  <2>4. o.wine \in db.wines /\ o.user \in db.users
    BY <1>1 DEF Integrity
  <2>5. o.wine = q.wine
    BY <1>4, <2>1, <2>2, <2>3, <2>4 DEF Distinct
  <2>6. o.user = q.user
    BY <1>1, <1>5, <2>1, <2>2, <2>3, <2>4 DEF Integrity
  <2>7. ~(o.wine = q.wine /\ o.user = q.user /\ o.body = q.body)
    BY DEF NewComments
  <2> QED BY <2>2, <2>3, <2>5, <2>6, <2>7
<1>9. NewItems(wineOf, listOf) \subseteq db.items
  <2> SUFFICES ASSUME NEW q \in NewItems(wineOf, listOf) PROVE q \in db.items
    OBVIOUS
  <2>1. PICK i \in archive.items :
          /\ i.list \in archive.lists /\ i.wine \in archive.wines
          /\ q = [list |-> listOf[i.list], wine |-> wineOf[i.wine]]
    <3>1. \A y \in NewItems(wineOf, listOf) : \E z \in archive.items :
            /\ z.list \in archive.lists /\ z.wine \in archive.wines
            /\ y = [list |-> listOf[z.list], wine |-> wineOf[z.wine]]
      BY <1>3a
    <3> QED BY <3>1
  <2>2. PICK o \in db.items : Title[o.list] = Title[i.list] /\ Key[o.wine] = Key[i.wine]
    BY <1>1, <2>1 DEF Absorbed
  <2>3. o.list \in db.lists /\ o.wine \in db.wines
    BY <1>1 DEF Integrity
  <2>4. o.wine = wineOf[i.wine]
    BY <1>4, <2>1, <2>2, <2>3 DEF Distinct
  <2>5. o.list = listOf[i.list]
    BY <1>1, <1>6, <2>1, <2>2, <2>3 DEF Integrity
  <2>6. o \in Items
    BY <1>1, TablesOf
  <2>7. o = [list |-> o.list, wine |-> o.wine]
    BY <2>6 DEF Items
  <2> QED BY <2>1, <2>2, <2>4, <2>5, <2>7
<1>10. db' = [wines |-> db.wines, users |-> db.users, lists |-> db.lists,
              ratings |-> db.ratings, comments |-> db.comments, items |-> db.items]
  <2>1. /\ db.wines \cup Range(wineOf) = db.wines /\ db.users \cup Range(userOf) = db.users
        /\ db.lists \cup Range(listOf) = db.lists /\ db.ratings \cup ratings = db.ratings
        /\ db.comments \cup NewComments(db, wineOf, userOf) = db.comments
        /\ db.items \cup NewItems(wineOf, listOf) = db.items
    BY <1>4, <1>5, <1>6, <1>7, <1>8, <1>9
  <2> QED BY <1>3, <2>1 DEF Imported
<1> QED BY <1>1, <1>10, TablesOf

\* Merging the same archive once more changes nothing, whatever its export was
\* interleaved with and whichever ids the first merge drew.
THEOREM MergingTwiceIsOnce == BSpec => MergeTwiceIsMergeOnce
<1>1. BInv => (merged /\ Merge /\ Distinct(db.wines) => db' = db)
  BY SecondMerge
<1> QED BY BackupInvariance, <1>1, PTL DEF MergeTwiceIsMergeOnce
=============================================================================
