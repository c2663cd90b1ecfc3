-------------------------------- MODULE Shelf --------------------------------
(***************************************************************************)
(* What favorites lists promise: every operation happens at once, no two   *)
(* lists have one name, and a list holds wines of the collection only.     *)
(***************************************************************************)
CONSTANTS Lists, Wines, Names, Ids, None

VARIABLES
  lists,  \* list -> its name, or None
  wines,  \* the wines of the collection
  items   \* what is on the lists: [list, wine, id]

svars == <<lists, wines, items>>

Item == [list: Lists, wine: Wines, id: Ids]
Live == {l \in Lists : lists[l] # None}

\* models.py FavoriteList, FavoriteItem: names are unique, a wine is on a list
\* once, and an item has its list and its wine.
ShelfIsOrdered ==
  /\ \A l, m \in Live : lists[l] = lists[m] => l = m
  /\ \A i, j \in items : i.list = j.list /\ i.wine = j.wine => i = j
  /\ \A i \in items : i.list \in Live /\ i.wine \in wines

ShelfTyped ==
  /\ lists \in [Lists -> Names \cup {None}] /\ wines \in SUBSET Wines
  /\ items \in SUBSET Item

SInit == ShelfTyped /\ ShelfIsOrdered

\* A new list, or a new name for one.
Name(l, n) ==
  /\ \A m \in Live : lists[m] # n
  /\ lists' = [lists EXCEPT ![l] = n]
  /\ UNCHANGED <<wines, items>>

Put(l, w, id) ==
  /\ l \in Live /\ w \in wines
  /\ \A i \in items : ~(i.list = l /\ i.wine = w)
  /\ items' = items \cup {[list |-> l, wine |-> w, id |-> id]}
  /\ UNCHANGED <<lists, wines>>

Take(S) == items' = items \ S /\ UNCHANGED <<lists, wines>>

\* Lists and wines go, and what was on the lists with them; other lists, F, come.
Exchange(L, W, F) ==
  /\ wines' = wines \ W
  /\ items' = {i \in items : i.list \notin L /\ i.wine \notin W}
  /\ F \cap Live = {}
  /\ lists' \in [Lists -> Names \cup {None}]
  /\ \A l \in Lists \ F : lists'[l] = IF l \in L THEN None ELSE lists[l]
  /\ \A l \in F : lists'[l] # None /\ \A m \in Lists \ {l} : lists'[m] # lists'[l]

SNext ==
  \/ \E S \in SUBSET items : Take(S)
  \/ \E l \in Lists, n \in Names : Name(l, n)
  \/ \E l \in Lists, w \in Wines, id \in Ids : Put(l, w, id)
  \/ \E L \in SUBSET Lists, W \in SUBSET Wines, F \in SUBSET Lists : Exchange(L, W, F)

SSpec == SInit /\ [][SNext]_svars
=============================================================================
