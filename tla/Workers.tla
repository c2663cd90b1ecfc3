------------------------------- MODULE Workers -------------------------------
(***************************************************************************)
(* What a request needs to get on: the event loop, a thread of the pool    *)
(* that FastAPI runs ordinary functions in, and a connection of the        *)
(* engine's pool (db.py).  The requests are those of Favorites, and        *)
(* scan_label, which awaits the AI services.                               *)
(*                                                                         *)
(* current_user is an ordinary dependency: it waits for a connection in a  *)
(* thread, and from its SELECT on the request keeps the connection until   *)
(* get_db ends.  Ordinary handlers run in a thread again, async ones on    *)
(* the loop.  The end of get_db has a thread of its own.                   *)
(***************************************************************************)
EXTENDS Favorites, FiniteSets

CONSTANTS MaxThreads, MaxPool

ASSUME WorkersAssumption == MaxThreads \in Nat \ {0} /\ MaxPool \in Nat \ {0}

VARIABLES
  size,  \* threads and connections there are; nothing changes it
  place  \* where each request is

wvars == <<fvars, size, place>>

Places == {"off", "arrived", "auth", "ready", "body", "loop", "ai", "leaving",
           "gone", "refused"}

At(S) == {r \in Reqs : place[r] \in S}

LoopIsFree == At({"loop"}) = {}
ThreadIsFree == Cardinality(At({"auth", "body"})) < size.threads
Connected == At({"ready", "body", "loop", "ai", "leaving"})

\* Types, and no thread or connection is used twice.
WTypeOK ==
  /\ TypeOK
  /\ size \in [threads: 1..MaxThreads, pool: 1..MaxPool]
  /\ place \in [Reqs -> Places]
  /\ Cardinality(At({"auth", "body"})) <= size.threads
  /\ Cardinality(Connected) <= size.pool

\* import_backup runs on the loop, scan_label leaves it while it waits.
Where(r) == CASE req[r].op \in Imports -> "loop" [] req[r].op = "scan" -> "ai"
              [] OTHER -> "body"

Go(r, p) == place' = [place EXCEPT ![r] = p]
Stay == UNCHANGED fvars

Arrive(r, q) == place[r] = "off" /\ Ask(r, q) /\ Go(r, "arrived") /\ UNCHANGED size

\* A thread for current_user.
Enter(r) ==
  /\ place[r] = "arrived" /\ LoopIsFree /\ ThreadIsFree
  /\ Go(r, "auth") /\ Stay /\ UNCHANGED size

\* Its SELECT; the thread is given back.
Connect(r) ==
  /\ place[r] = "auth" /\ Cardinality(Connected) < size.pool
  /\ Go(r, "ready") /\ Stay /\ UNCHANGED size

\* Variant of Dispatch: the handler runs in a thread of its own.
DispatchAnyway(r) ==
  /\ place[r] = "ready" /\ LoopIsFree
  /\ Go(r, Where(r)) /\ Stay /\ UNCHANGED size

\* The handler starts.
Dispatch(r) ==
  /\ place[r] = "ready" /\ LoopIsFree /\ (Where(r) = "body" => ThreadIsFree)
  /\ Go(r, Where(r)) /\ Stay /\ UNCHANGED size

Work(r) ==
  /\ place[r] \in {"body", "loop"} /\ (Look(r) \/ Wipe(r) \/ Choose(r) \/ Flush(r))
  /\ UNCHANGED <<size, place>>

HasAnswer(r) == req[r].stage \in {"flushed", "over"}

\* The handler's answer reaches the loop.
Return(r) ==
  /\ HasAnswer(r) /\ (place[r] = "loop" \/ (place[r] = "body" /\ LoopIsFree))
  /\ Go(r, "leaving") /\ Stay /\ UNCHANGED size

\* The AI answered or failed; what scan_label does then is in Scans.
Resume(r) ==
  /\ place[r] = "ai" /\ LoopIsFree
  /\ Look(r) /\ Go(r, "leaving") /\ UNCHANGED size

\* get_db ends: commit, and the connection is free.
Leave(r) ==
  /\ place[r] = "leaving"
  /\ IF req[r].stage = "flushed" THEN Commit(r) ELSE Stay
  /\ Go(r, "gone") /\ UNCHANGED size

-----------------------------------------------------------------------------
\* It waits for a lock.
Blocked(r) == Waits(r) /\ (req[r].stage = "open" \/ (req[r].stage = "sent" /\ req[r].op \in Imports))

\* Who has a connection can go on, without an answer of the AI services.
Moves(r) ==
  \/ place[r] = "ready" /\ LoopIsFree /\ (Where(r) = "body" => ThreadIsFree)
  \/ place[r] \in {"body", "loop"} /\ ~HasAnswer(r) /\ ~Blocked(r)
  \/ place[r] = "body" /\ HasAnswer(r) /\ LoopIsFree
  \/ place[r] = "loop" /\ HasAnswer(r)
  \/ place[r] = "leaving"

\* Variant of GiveUp: the pool waits for ever.
GiveUpNever(r) == place[r] = "auth" /\ size.pool = 0 /\ Go(r, "refused") /\ Stay /\ UNCHANGED size

\* Variant of GiveUp: the pool waits no longer than a handler may take.
GiveUpSoon(r) ==
  /\ place[r] = "auth" /\ Cardinality(Connected) >= size.pool
  /\ Go(r, "refused") /\ Stay /\ UNCHANGED size

\* The pool's thirty seconds, which are longer than any step here: TimeoutError, 500.
GiveUp(r) ==
  /\ place[r] = "auth" /\ Cardinality(Connected) >= size.pool
  /\ \A o \in Connected : ~Moves(o)
  /\ Go(r, "refused") /\ Stay /\ UNCHANGED size

WInit ==
  /\ FInit
  /\ size \in [threads: 1..MaxThreads, pool: 1..MaxPool]
  /\ place = [r \in Reqs |-> "off"]

Run(r) == \/ Enter(r) \/ Connect(r) \/ Dispatch(r) \/ Work(r) \/ Return(r)
          \/ Resume(r) \/ Leave(r) \/ GiveUp(r)

WNext == \E r \in Reqs : Run(r) \/ \E q \in Inputs(r) : Arrive(r, q)

WSpec == WInit /\ [][WNext]_wvars

\* The loop, the threads and the pool serve in turn, the database grants locks in
\* turn, and every call to the AI services has a timeout.
FairWSpec == WSpec /\ \A r \in Reqs : SF_wvars(Run(r))

-----------------------------------------------------------------------------
(***************************************************************************)
(* Properties.                                                             *)
(***************************************************************************)

\* The import waits on the loop for a lock whose holder can only commit after the
\* loop has taken its answer.
Stalled == \E r \in At({"loop"}), o \in At({"body"}) :
             Blocked(r) /\ Holds(req[o]) /\ Collide(req[o], req[r])

\* All threads wait for a connection, and a connection waits for a thread.
Starved == /\ ~ThreadIsFree /\ At({"body"}) = {}
           /\ \E r \in At({"ready"}) : Where(r) = "body"

\* Every request ends, unless an import has stopped the loop for ever.
EndsOrStalls == \A r \in Reqs : place[r] # "off" ~>
                  \/ place[r] \in {"gone", "refused"} \/ Stalled

\* A request is refused for want of a connection only while a scan waits for the
\* AI services with a connection in its hands, while the threads are starved, or
\* when the loop has stopped.
RefusalHasCause ==
  [][\A r \in Reqs : place[r] # "refused" /\ place'[r] = "refused" =>
       At({"ai"}) # {} \/ Starved \/ Stalled]_wvars
=============================================================================
