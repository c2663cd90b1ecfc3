------------------------------ MODULE Favorites ------------------------------
(***************************************************************************)
(* Favorites lists (routers/favorites.py) as the transactions they are,    *)
(* beside delete_wine, which removes what is on them, and beside imports,  *)
(* which bring lists of their own.                                         *)
(*                                                                         *)
(* A handler runs its SELECTs (Look), writes at the flush, where it waits  *)
(* for locks and meets the constraints (Flush), and commits when get_db    *)
(* ends (Commit).  Locks are PostgreSQL's: a row that is written or        *)
(* removed excludes everybody, a row that a new item refers to excludes    *)
(* whoever writes it, and equal names and equal items exclude each other.  *)
(* Ids are fresh: a list that request r inserts is <<r, its first name>>,  *)
(* an item is r.                                                           *)
(***************************************************************************)
EXTENDS Naturals

CONSTANTS
  Words, Spellings,  \* a name is a word in one spelling (upper or lower case)
  OldLists,          \* lists that are there at the start
  Wines,
  MaxReqs,           \* requests
  None

ASSUME FavoritesAssumption ==
  /\ MaxReqs \in Nat
  /\ OldLists \cap Wines = {}
  /\ (OldLists \cup Wines) \cap ((1..MaxReqs) \X (Words \X Spellings)) = {}
  /\ None \notin OldLists \cup Wines \cup 1..MaxReqs \cup (Words \X Spellings)
              \cup ((1..MaxReqs) \X (Words \X Spellings))

VARIABLES
  lists,   \* committed: list -> its name, or None
  wines,   \* committed wines
  items,   \* committed items: [list, wine, id]
  req,     \* the requests
  writer,  \* history: list -> the request that wrote its name
  beside   \* history: request -> those whose transaction overlapped its own

Reqs  == 1..MaxReqs
Names == Words \X Spellings
Lists == OldLists \cup (Reqs \X Names)
Ids   == Reqs \cup {None}
Item  == [list: Lists, wine: Wines, id: Ids]

Lower(n) == n[1]

fvars == <<lists, wines, items, req, writer, beside>>

Live == {l \in Lists : lists[l] # None}

Imports == {"replace", "merge"}
Ops == {"create", "rename", "delete", "add", "take", "drop", "read", "scan"} \cup Imports

\* gives: the names that lists are to get; held: what a replacing import deletes.
Request == [op: Ops \cup {"none"}, list: Lists \cup {None}, wine: Wines \cup {None},
            gives: UNION {[L -> Names] : L \in SUBSET Lists},
            found: SUBSET Item, held: SUBSET (Lists \cup Wines),
            stage: {"idle", "sent", "wiped", "open", "flushed", "over"},
            answer: {"none", "ok", "clash", "missing", "failed"}]

\* A request as it arrives.
Sent(op, l, w, f) == [op |-> op, list |-> l, wine |-> w, gives |-> f, found |-> {},
                      held |-> {}, stage |-> "sent", answer |-> "none"]

\* The lists that r inserts under the names S; l under a new name.
Own(r, S) == [l \in {r} \X S |-> l[2]]
Called(l, n) == [m \in {l} |-> n]
Nothing == [l \in {} |-> None]
Given(q) == {q.gives[l] : l \in DOMAIN q.gives}

Idle == [Sent("none", None, None, Nothing) EXCEPT !.stage = "idle"]

TypeOK ==
  /\ lists \in [Lists -> Names \cup {None}] /\ wines \subseteq Wines
  /\ items \subseteq Item
  /\ req \in [Reqs -> Request]
  /\ writer \in [Lists -> Ids] /\ beside \in [Reqs -> SUBSET Reqs]

-----------------------------------------------------------------------------
\* The lists whose ids somebody can have seen.
Known(r) == {l \in Lists \ ({r} \X Names) :
               \/ l \in OldLists
               \/ \E o \in Reqs : /\ req[o].stage \in {"flushed", "over"}
                                  /\ l \in DOMAIN req[o].gives}

\* What a request asks for; "drop" is delete_wine.  Imports bring an archive with
\* lists of any names, in both spellings, too; its wines are not on them and have
\* other ids.
Inputs(r) ==
       {Sent("create", None, None, Own(r, {n})) : n \in Names}
  \cup {Sent("rename", l, None, Called(l, n)) : l \in Known(r), n \in Names}
  \cup {Sent("delete", l, None, Nothing) : l \in Known(r)}
  \cup {Sent(op, l, w, Nothing) : op \in {"add", "take"}, l \in Known(r), w \in Wines}
  \cup {Sent("drop", None, w, Nothing) : w \in Wines}
  \cup {Sent(op, None, None, Own(r, S)) : op \in Imports, S \in SUBSET Names}
  \cup {Sent(op, None, None, Nothing) : op \in {"read", "scan"}}

Ask(r, q) ==
  /\ req[r].stage = "idle" /\ \A o \in 1..r - 1 : req[o].stage # "idle"
  /\ req' = [req EXCEPT ![r] = q]
  /\ UNCHANGED <<lists, wines, items, writer, beside>>

-----------------------------------------------------------------------------
\* The rows that the handler loads: of one item, or of the list it deletes.
Found(q) == {i \in items : /\ q.op \in {"add", "take", "delete"} /\ i.list = q.list
                           /\ q.op # "delete" => i.wine = q.wine}

\* 404: _get_list, or the SELECT for the wine.
Missing(q) ==
  \/ q.op \in {"rename", "delete", "add"} /\ q.list \notin Live
  \/ q.op \in {"add", "drop"} /\ q.wine \notin wines

\* Variant of Clash: names are compared as they are spelled.
ClashExact(q) ==
  /\ q.op \in {"create", "rename"}
  /\ \E l \in Live \ DOMAIN q.gives, n \in Given(q) : lists[l] = n

\* 409: func.lower(FavoriteList.name) == name.lower(), not the list itself.
Clash(q) ==
  /\ q.op \in {"create", "rename"}
  /\ \E l \in Live \ DOMAIN q.gives, n \in Given(q) : Lower(lists[l]) = Lower(n)

\* Variant of Satisfied: add_wine does not look for the item.
SatisfiedBlind(q) ==
  \/ q.op \in {"read", "scan"}
  \/ q.op = "take" /\ Found(q) = {}
  \/ q.op = "rename" /\ lists[q.list] \in Given(q)

\* Nothing to write: the item is there already, or not there; the name is as it was.
Satisfied(q) ==
  \/ q.op \in {"read", "scan"}
  \/ q.op = "add" /\ Found(q) # {}
  \/ q.op = "take" /\ Found(q) = {}
  \/ q.op = "rename" /\ lists[q.list] \in Given(q)

Verdict(q) == IF Missing(q) THEN "missing" ELSE IF Clash(q) THEN "clash"
              ELSE IF Satisfied(q) THEN "ok" ELSE "none"

InTransaction == {o \in Reqs : req[o].stage \in {"wiped", "open", "flushed"}}

Overlap(r) ==
  beside' = [o \in Reqs |-> IF o = r THEN InTransaction
                            ELSE IF o \in InTransaction THEN beside[o] \cup {r}
                            ELSE beside[o]]

Look(r) ==
  LET v == Verdict(req[r]) IN
  /\ req[r].stage = "sent" /\ req[r].op \notin Imports
  /\ req' = [req EXCEPT ![r].answer = v, ![r].found = Found(req[r]),
                        ![r].stage = IF v = "none" THEN "open" ELSE "over"]
  /\ Overlap(r)
  /\ UNCHANGED <<lists, wines, items, writer>>

-----------------------------------------------------------------------------
\* The rows of lists and wines that q writes or removes, those its new item refers
\* to, and the items that come or go with it.
Written(q) == CASE q.op \in {"rename", "delete"} -> {q.list}
                [] q.op = "drop" -> {q.wine}
                [] q.op = "replace" -> IF q.stage = "sent" THEN Live \cup wines ELSE q.held
                [] OTHER -> {}
Referred(q) == IF q.op = "add" THEN {q.list, q.wine} ELSE {}
Touched(q)  == IF q.op \in {"add", "take"} THEN {<<q.list, q.wine>>}
               ELSE {<<i.list, i.wine>> : i \in {j \in items : {j.list, j.wine} \cap Written(q) # {}}}

\* Names that the holder p has taken, or gives up when it commits.
Reserved(p) == (IF p.stage = "flushed" THEN Given(p) ELSE {})
               \cup {lists[l] : l \in Written(p) \cap Lists}

Collide(p, q) ==
  \/ Written(p) \cap (Written(q) \cup Referred(q)) # {}
  \/ Referred(p) \cap Written(q) # {}
  \/ q.stage = "open" /\ Given(q) \cap Reserved(p) # {}
  \/ Touched(p) \cap Touched(q) # {}

Holds(p) == p.stage \in {"wiped", "flushed"} \/ (p.stage = "open" /\ p.op = "replace")

Waits(r) == \E o \in Reqs \ {r} : Holds(req[o]) /\ Collide(req[o], req[r])

\* import_backup: a replacing one begins with DELETEs, each of what it finds.
Wipe(r) ==
  LET q == req[r] IN
  /\ q.stage = "sent" /\ q.op \in Imports /\ ~Waits(r)
  /\ req' = [req EXCEPT ![r].held = Written(q), ![r].stage = "wiped"]
  /\ Overlap(r)
  /\ UNCHANGED <<lists, wines, items, writer>>

\* A list of the archive is left out if its exact name is taken (again).
Choose(r) ==
  LET taken == {lists[l] : l \in Live \ Written(req[r])} IN
  /\ req[r].stage = "wiped"
  /\ req' = [req EXCEPT ![r].stage = "open", ![r].gives = Own(r, Given(req[r]) \ taken)]
  /\ UNCHANGED <<lists, wines, items, writer, beside>>

\* The constraints: a unique name, an UPDATE that finds its row, a unique item
\* whose list and wine are there.  (A DELETE that finds nothing is only a warning.)
Fails(q) ==
  \/ \E l \in Live \ (DOMAIN q.gives \cup Written(q)) : lists[l] \in Given(q)
  \/ q.op = "rename" /\ q.list \notin Live
  \/ q.op = "add" /\ (Found(q) # {} \/ q.list \notin Live \/ q.wine \notin wines)

Flush(r) ==
  LET q == req[r] IN
  /\ q.stage = "open" /\ ~Waits(r)
  /\ req' = [req EXCEPT ![r].stage = IF Fails(q) THEN "over" ELSE "flushed",
                        ![r].answer = IF Fails(q) THEN "failed" ELSE "ok"]
  /\ UNCHANGED <<lists, wines, items, writer, beside>>

Removed(q) == IF q.op \in {"delete", "drop", "replace"} THEN Written(q) ELSE {}

\* Variant of Kept: delete_list removes the items it has loaded, and no others.
KeptLoaded(q) ==
  IF q.op \in {"take", "delete"} THEN items \ q.found
  ELSE {i \in items : {i.list, i.wine} \cap Removed(q) = {}}

\* The items that q leaves: remove_wine deletes the row it found; lists and wines
\* take theirs along (ondelete="CASCADE").
Kept(q) ==
  IF q.op = "take" THEN items \ q.found
  ELSE {i \in items : {i.list, i.wine} \cap Removed(q) = {}}

Commit(r) ==
  LET q == req[r] IN
  /\ q.stage = "flushed"
  /\ lists' = [l \in Lists |-> IF l \in DOMAIN q.gives THEN q.gives[l]
                               ELSE IF l \in Removed(q) THEN None ELSE lists[l]]
  /\ wines' = wines \ Removed(q)
  /\ items' = Kept(q) \cup (IF q.op = "add" THEN {[list |-> q.list, wine |-> q.wine, id |-> r]}
                            ELSE {})
  /\ writer' = [l \in Lists |-> IF l \in DOMAIN q.gives THEN r ELSE writer[l]]
  /\ req' = [req EXCEPT ![r].stage = "over"]
  /\ UNCHANGED beside

-----------------------------------------------------------------------------
\* Lists of different names, with any wines on them.
FInit ==
  /\ \E named \in [OldLists -> Names] :
       /\ \A l, m \in OldLists : Lower(named[l]) = Lower(named[m]) => l = m
       /\ lists = [l \in Lists |-> IF l \in OldLists THEN named[l] ELSE None]
  /\ wines = Wines
  /\ \E on \in SUBSET (OldLists \X Wines) :
       items = {[list |-> p[1], wine |-> p[2], id |-> None] : p \in on}
  /\ req = [r \in Reqs |-> Idle]
  /\ writer = [l \in Lists |-> None] /\ beside = [r \in Reqs |-> {}]

Handle(r) == Look(r) \/ Wipe(r) \/ Choose(r) \/ Flush(r) \/ Commit(r)

FNext == \E r \in Reqs : Handle(r) \/ \E q \in Inputs(r) : Ask(r, q)

FSpec == FInit /\ [][FNext]_fvars

-----------------------------------------------------------------------------
(***************************************************************************)
(* Properties.                                                             *)
(***************************************************************************)

\* favorites.py: "A list with that name already exists", in any case.  Whenever a
\* list gets a name that differs from another list's in its case only, an import has
\* brought it, or the other one was named by a request that overlapped.
ClashHadCause ==
  [][\A l, m \in Live' : l # m /\ lists'[l] # lists[l] /\ Lower(lists'[l]) = Lower(lists'[m]) =>
       req[writer'[l]].op \in Imports \/ writer[m] \in beside[writer'[l]]]_fvars

\* favorites.py: "A list with that name already exists": but for requests that
\* overlap, no two lists have the same name in different cases.
ClashNeedsRace ==
  \A l, m \in Live : l # m /\ Lower(lists[l]) = Lower(lists[m]) =>
    writer[l] # None /\ writer[m] # None /\ writer[l] \in beside[writer[m]]

\* Favorites are answered with 500 only when another request overlapped that wrote
\* the same list, wine, item or name: checks and constraints fit otherwise.
FailureHadRival ==
  \A r \in Reqs : req[r].answer = "failed" =>
    \E o \in beside[r] : \/ req[o].op \in Imports
                         \/ ({req[o].list, req[o].wine} \cap {req[r].list, req[r].wine}) \ {None} # {}
                         \/ Given(req[o]) \cap Given(req[r]) # {}

\* Locks and constraints make every commit one operation of Shelf.
Promise == INSTANCE Shelf
KeepsShelf == Promise!SSpec
=============================================================================
