------------------------------- MODULE Ratings -------------------------------
(***************************************************************************)
(* One user's stars for one wine: the optimistic rating block of the       *)
(* detail sheet (static/assets/detail.js, render.js) over set_rating and   *)
(* clear_rating (app/routers/wines.py).                                    *)
(*                                                                         *)
(* The server runs every request in a thread: it reads the row, inserts,   *)
(* updates or deletes at the flush, and commits later.  Row and unique-key *)
(* locks are held to the end of the transaction, as in PostgreSQL.         *)
(* The browser sends requests at once and gets the answers in any order.   *)
(* FastAPI sends an answer after get_db has committed or before, depending *)
(* on its version: the server may run either.                              *)
(* The wine itself stays (Photos deletes wines).                           *)
(***************************************************************************)
EXTENDS Naturals

CONSTANTS
  MaxReqs,   \* requests that the sheet may send
  MaxStars,  \* 5
  Failures,  \* what may fail on its way: a subset of {"put", "del", "get"}
  None

ASSUME RatingsAssumption ==
  /\ MaxReqs \in Nat /\ MaxStars \in Nat \ {0} /\ None \notin 1..MaxReqs
  /\ Failures \subseteq {"put", "del", "get"}

VARIABLES
  early,     \* the answer leaves before the commit; never changes
  row,       \* the committed row: [id, stars], id is the request that inserted it
  req,       \* request -> [op, stars, stage, found, fate]
  shown,     \* the stars the sheet shows; 0: not rated
  together,  \* history: requests that were in flight with another write
  alone      \* history: the last request was sent with no other in flight or
             \* waiting for its commit, a refresh that it needed was answered, and
             \* no commit has failed that the sheet was told had worked

Reqs == 1..MaxReqs  \* numbered as the sheet sends them

vars == <<early, row, req, shown, together, alone>>

Unrated == [id |-> None, stars |-> 0]
Row     == [id: Reqs \cup {None}, stars: 0..MaxStars]
Unused  == [op |-> "none", stars |-> 0, stage |-> "unused", found |-> Unrated,
            fate |-> "ok"]
Fetch   == [Unused EXCEPT !.op = "get", !.stage = "sent"]
Over    == [Unused EXCEPT !.stage = "over"]

TypeOK ==
  /\ row \in Row /\ (row.id = None <=> row.stars = 0)
  /\ req \in [Reqs -> [op: {"none", "put", "del", "get"}, stars: 0..MaxStars,
                       stage: {"unused", "sent", "read", "flushed", "early", "answered",
                               "over"},
                       found: Row, fate: {"ok", "lost", "conflict"}]]
  /\ shown \in 0..MaxStars /\ together \subseteq Reqs
  /\ {alone, early} \subseteq BOOLEAN

-----------------------------------------------------------------------------
InFlight == {r \in Reqs : req[r].stage \notin {"unused", "over"}}
Writes   == {r \in InFlight : req[r].op \in {"put", "del"}}

Upcoming(r) == req[r] = Unused /\ \A o \in 1..r - 1 : req[o] # Unused

Set(r, q) == req' = [req EXCEPT ![r] = q]

\* A click on the star n: onPick, or onClear if n is what the sheet shows.
Click(r, n) ==
  /\ Upcoming(r)
  /\ IF n = shown
     THEN shown' = 0 /\ Set(r, [Unused EXCEPT !.op = "del", !.stage = "sent"])
     ELSE shown' = n /\ Set(r, [Unused EXCEPT !.op = "put", !.stage = "sent",
                                              !.stars = n])
  /\ together' = IF Writes = {} THEN together ELSE together \cup Writes \cup {r}
  /\ alone' = (InFlight = {})
  /\ UNCHANGED <<early, row>>

\* A comment, an edit or a photo was saved: refresh.
Refresh(r) ==
  /\ Upcoming(r)
  /\ Set(r, Fetch)
  /\ alone' = (InFlight = {})
  /\ UNCHANGED <<early, row, shown, together>>

\* The handler's SELECT; GET has its answer with it.
Read(r) ==
  /\ req[r].stage = "sent"
  /\ Set(r, [req[r] EXCEPT !.found = row,
                           !.stage = IF req[r].op = "get" THEN "answered" ELSE "read"])
  /\ UNCHANGED <<early, row, shown, together, alone>>

Inserts(q) == q.op = "put" /\ q.found = Unrated
Updates(q) == q.op = "put" /\ q.found # Unrated /\ q.found.stars # q.stars
Deletes(q) == q.op = "del" /\ q.found # Unrated
Touches(q) == Inserts(q) \/ Updates(q) \/ Deletes(q)

\* The transactions that have flushed and not ended.
Open(q) == q.stage \in {"flushed", "early"}

Locked(r) == \E o \in Reqs \ {r} : Open(req[o]) /\ Touches(req[o])

\* The unique constraint on (wine, user), and an UPDATE of a row that is gone.
Conflicts(q) == \/ Inserts(q) /\ row # Unrated
                \/ Updates(q) /\ row.id # q.found.id

\* Variant of Flush: set_rating does not look for a rating.
FlushInserts(r) ==
  LET q == req[r]
      conflict == Conflicts(q) \/ (q.op = "put" /\ row # Unrated) IN
  /\ q.stage = "read"
  /\ Touches(q) => ~Locked(r)
  /\ Set(r, IF conflict THEN [q EXCEPT !.stage = "answered", !.fate = "conflict"]
            ELSE [q EXCEPT !.stage = "flushed"])
  /\ UNCHANGED <<early, row, shown, together, alone>>

\* db.flush(): waits for the lock; a conflict rolls back and answers 500.
Flush(r) ==
  LET q == req[r] IN
  /\ q.stage = "read"
  /\ Touches(q) => ~Locked(r)
  /\ Set(r, IF Conflicts(q) THEN [q EXCEPT !.stage = "answered", !.fate = "conflict"]
            ELSE [q EXCEPT !.stage = "flushed"])
  /\ UNCHANGED <<early, row, shown, together, alone>>

\* The row once q's transaction has committed.
Stored(q, r) ==
  IF Inserts(q) THEN [id |-> r, stars |-> q.stars]
  ELSE IF Updates(q) THEN [row EXCEPT !.stars = q.stars]
  ELSE IF Deletes(q) /\ row.id = q.found.id THEN Unrated
  ELSE row

\* The answer of a newer FastAPI reaches the page before the commit; it says that
\* all went well, and the callback changes nothing.
AnswerEarly(r) ==
  /\ early /\ req[r].stage = "flushed"
  /\ Set(r, [req[r] EXCEPT !.stage = "early"])
  /\ UNCHANGED <<early, row, shown, together, alone>>

\* The transaction has ended; whoever has not been told yet will be.
Ended(q, fate) == IF q.stage = "early" THEN Over
                  ELSE [q EXCEPT !.stage = "answered", !.fate = fate]

Commit(r) ==
  /\ Open(req[r])
  /\ row' = Stored(req[r], r)
  /\ Set(r, Ended(req[r], "ok"))
  /\ UNCHANGED <<early, shown, together, alone>>

\* The commit fails: the answer is 500, unless it has left already.
CommitFails(r) ==
  /\ Open(req[r]) /\ req[r].op \in Failures
  /\ Set(r, Ended(req[r], IF early THEN "ok" ELSE "lost"))
  /\ alone' = (alone /\ ~early)
  /\ UNCHANGED <<early, row, shown, together>>

\* The request never arrives, or its answer is lost after the commit.  (Not here:
\* a connection that breaks while the handler runs on.)
Lose(r) ==
  /\ req[r].op \in Failures
  /\ req[r].stage \in {"sent", "answered"} /\ req[r].fate = "ok"
  /\ Set(r, [req[r] EXCEPT !.stage = "answered", !.fate = "lost"])
  /\ UNCHANGED <<early, row, shown, together, alone>>

\* Variant of Answer: the catch of onPick shows the error and leaves it there.
AnswerNoRefresh(r) ==
  LET q == req[r] IN
  /\ q.stage = "answered"
  /\ Set(r, Over)
  /\ shown' = IF q.op = "get" /\ q.fate = "ok" THEN q.found.stars ELSE shown
  /\ alone' = (alone /\ (q.op = "get" => q.fate = "ok"))
  /\ UNCHANGED <<early, row, together>>
\* Variant of Answer: a refresh that fails is asked for again and again.
AnswerAgain(r) ==
  LET q == req[r] IN
  /\ q.stage = "answered"
  /\ Set(r, IF q.fate # "ok" THEN Fetch ELSE Over)
  /\ shown' = IF q.op = "get" /\ q.fate = "ok" THEN q.found.stars ELSE shown
  /\ alone' = (alone /\ (q.op = "get" => q.fate = "ok"))
  /\ UNCHANGED <<early, row, together>>

\* The callbacks: a failed write refreshes the sheet, a failed refresh is only
\* reported.
Answer(r) ==
  LET q == req[r] IN
  /\ q.stage = "answered"
  /\ Set(r, IF q.fate # "ok" /\ q.op # "get"
            THEN Fetch ELSE Over)
  /\ shown' = IF q.op = "get" /\ q.fate = "ok" THEN q.found.stars ELSE shown
  /\ alone' = (alone /\ (q.op = "get" => q.fate = "ok"))
  /\ UNCHANGED <<early, row, together>>

\* The sheet was opened on what is stored.
Init ==
  /\ early \in BOOLEAN
  /\ row = Unrated /\ shown = 0
  /\ req = [r \in Reqs |-> Unused]
  /\ together = {} /\ alone = TRUE

Step(r) == Read(r) \/ Flush(r) \/ Commit(r) \/ Answer(r)

Next == \E r \in Reqs : \/ \E n \in 1..MaxStars : Click(r, n)
                        \/ Refresh(r) \/ Step(r) \/ AnswerEarly(r)
                        \/ CommitFails(r) \/ Lose(r)

Spec == Init /\ [][Next]_vars

\* Threads and callbacks run on, and a lock is granted in turn.
FairSpec == Spec /\ \A r \in Reqs : SF_vars(Step(r))

-----------------------------------------------------------------------------
(***************************************************************************)
(* Properties.                                                             *)
(***************************************************************************)

\* detail.js: "a rating click repaints instantly (no full-card rebuild, no
\* waiting on the server) while the API call syncs the server truth in the
\* background."  Once everything is answered and committed, sheet and server agree,
\* whatever went wrong before, if the last request had nothing beside it, not even
\* the commit of an answered one, and was not answered for a commit that failed.
StarsAreSynced == InFlight = {} /\ alone => shown = row.stars

\* A rating is refused for a conflict only if another one of the same user was
\* under way at the same time: there is no other way into the unique constraint.
ConflictHadRival == \A r \in Reqs : req[r].fate = "conflict" => r \in together

\* A click is answered, whoever holds the row, and whatever fails.
ClicksEnd == \A r \in Reqs : req[r].stage # "unused" ~> req[r].stage = "over"
=============================================================================
