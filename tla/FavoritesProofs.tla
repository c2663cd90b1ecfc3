---------------------------- MODULE FavoritesProofs ----------------------------
(***************************************************************************)
(* Proofs about Favorites and Workers: for any number of requests, lists   *)
(* and wines, with any number of threads and connections, every commit is  *)
(* one operation of Shelf.                                                 *)
(*                                                                         *)
(* What a request found at its flush must still hold when it commits.  Two *)
(* facts carry this: what each flushed request relies on (Ready), and that *)
(* no two flushed requests touch the same rows (Apart), which the locks    *)
(* see to.                                                                 *)
(***************************************************************************)
EXTENDS Workers, FiniteSetTheorems, TLAPS

Flushed == {r \in Reqs : req[r].stage = "flushed"}

\* The arguments fit the operation.
Fits(q, r) ==
  /\ q.op = "create" => \E n \in Names : q.gives = Own(r, {n})
  /\ q.op \in Imports => \E S \in SUBSET Names : q.gives = Own(r, S)
  /\ q.op = "rename" => \E n \in Names : q.gives = Called(q.list, n)
  /\ q.op \notin {"create", "rename"} \cup Imports => q.gives = Nothing
  /\ q.op \in {"rename", "delete", "add", "take"} => q.list \in Lists \ ({r} \X Names)
  /\ q.op = "drop" => q.wine \in Wines
  /\ q.op \in {"add", "take"} => q.wine \in Wines
  /\ q.stage = "wiped" => q.op \in Imports

FTyped == TypeOK /\ \A r \in Reqs : req[r].stage # "idle" => Fits(req[r], r)

\* An id that is not used yet belongs to no list.
Fresh == \A r \in Reqs, n \in Names : req[r].stage # "over" => lists[<<r, n>>] = None

\* What q relies on.
Ready(q) ==
  /\ \A l \in Live \ (DOMAIN q.gives \cup Written(q)) : lists[l] \notin Given(q)
  /\ q.op = "rename" => q.list \in Live
  /\ q.op = "add" => /\ q.list \in Live /\ q.wine \in wines
                     /\ \A i \in items : ~(i.list = q.list /\ i.wine = q.wine)

\* What the locks keep apart.
Apart(p, q) ==
  /\ Written(p) \cap (Written(q) \cup Referred(q)) = {}
  /\ Referred(p) \cap Written(q) = {}
  /\ Given(p) \cap Given(q) = {}
  /\ p.op = "add" /\ q.op = "add" => p.list # q.list \/ p.wine # q.wine

IInv ==
  /\ FTyped /\ Fresh
  /\ \A r \in Flushed : Ready(req[r])
  /\ \A o, r \in Flushed : o # r => Apart(req[o], req[r])

-----------------------------------------------------------------------------
\* The lists that a request inserts are its own.
LEMMA OwnLists ==
  ASSUME NEW r \in Reqs, NEW S \in SUBSET Names
  PROVE  /\ DOMAIN Own(r, S) = {r} \X S
         /\ \A n \in S : <<r, n>> \in DOMAIN Own(r, S) /\ Own(r, S)[<<r, n>>] = n
         /\ \A l \in DOMAIN Own(r, S) : l = <<r, Own(r, S)[l]>> /\ Own(r, S)[l] \in S
         /\ {r} \X S \subseteq Lists
         /\ Own(r, S) \in UNION {[L -> Names] : L \in SUBSET Lists}
<1>1. /\ DOMAIN Own(r, S) = {r} \X S
      /\ \A n \in S : <<r, n>> \in DOMAIN Own(r, S) /\ Own(r, S)[<<r, n>>] = n
      /\ \A l \in DOMAIN Own(r, S) : l = <<r, Own(r, S)[l]>> /\ Own(r, S)[l] \in S
  BY DEF Own
<1>2. {r} \X S \in SUBSET Lists
  BY DEF Lists
<1>3. Own(r, S) \in [{r} \X S -> Names]
  BY DEF Own
<1> QED
  BY <1>1, <1>2, <1>3

LEMMA OneName ==
  ASSUME NEW l \in Lists, NEW n \in Names
  PROVE  Called(l, n) \in UNION {[L -> Names] : L \in SUBSET Lists}
<1>1. {l} \in SUBSET Lists /\ Called(l, n) \in [{l} -> Names]
  BY DEF Called
<1> QED
  BY <1>1

LEMMA NoName == Nothing \in UNION {[L -> Names] : L \in SUBSET Lists} /\ DOMAIN Nothing = {}
<1>1. {} \in SUBSET Lists /\ Nothing \in [{} -> Names]
  BY DEF Nothing
<1> QED
  BY <1>1

\* What a request gives names to: lists of its own, or the one it renames.
LEMMA GivesOf ==
  ASSUME NEW r \in Reqs, NEW q, Fits(q, r)
  PROVE  /\ DOMAIN q.gives \subseteq Lists
         /\ \A l \in DOMAIN q.gives : /\ q.gives[l] \in Names /\ q.gives[l] \in Given(q)
                                      /\ l \in {r} \X Names \/ (q.op = "rename" /\ l = q.list)
         /\ \A l, m \in DOMAIN q.gives : q.gives[l] = q.gives[m] => l = m
         /\ Given(q) \subseteq Names
         /\ \A n \in Given(q) : \E l \in DOMAIN q.gives : q.gives[l] = n
<1>1. CASE q.op = "create" \/ q.op \in Imports
  <2>1. PICK S \in SUBSET Names : q.gives = Own(r, S)
    BY <1>1 DEF Fits
  <2>2. /\ DOMAIN q.gives = {r} \X S /\ {r} \X S \subseteq Lists
        /\ \A l \in DOMAIN q.gives : l = <<r, q.gives[l]>> /\ q.gives[l] \in S
    <3>1. /\ DOMAIN Own(r, S) = {r} \X S /\ {r} \X S \subseteq Lists
          /\ \A l \in DOMAIN Own(r, S) : l = <<r, Own(r, S)[l]>> /\ Own(r, S)[l] \in S
      BY OwnLists
    <3> QED
      BY <2>1, <3>1
  <2>3. \A l, m \in DOMAIN q.gives : q.gives[l] = q.gives[m] => l = m
    <3> SUFFICES ASSUME NEW l \in DOMAIN q.gives, NEW m \in DOMAIN q.gives, q.gives[l] = q.gives[m]
                 PROVE  l = m
      OBVIOUS
    <3>1. l = <<r, q.gives[l]>> /\ m = <<r, q.gives[m]>>
      BY <2>2
    <3> QED
      BY <3>1
  <2>4. ASSUME NEW l \in DOMAIN q.gives
        PROVE  /\ q.gives[l] \in Names /\ q.gives[l] \in Given(q)
               /\ l \in {r} \X Names
    <3>1. l \in {r} \X S /\ q.gives[l] \in S
      BY <2>2
    <3> QED
      BY <2>1, <3>1 DEF Given
  <2>5. \A n \in Given(q) : \E l \in DOMAIN q.gives : q.gives[l] = n
    BY DEF Given
  <2>6. Given(q) \subseteq Names
    BY <2>4 DEF Given
  <2> QED
    BY <2>2, <2>3, <2>4, <2>5, <2>6
<1>2. CASE q.op = "rename"
  <2>1. PICK n \in Names : q.gives = Called(q.list, n)
    BY <1>2 DEF Fits
  <2>2. q.list \in Lists
    BY <1>2 DEF Fits
  <2> QED
    BY <1>2, <2>1, <2>2 DEF Given, Called
<1>3. CASE q.op \notin {"create", "rename"} \cup Imports
  BY <1>3, NoName DEF Fits, Given
<1> QED
  BY <1>1, <1>2, <1>3

LEMMA InputsFit ==
  ASSUME NEW r \in Reqs, NEW q \in Inputs(r)
  PROVE  q \in Request /\ q.stage = "sent" /\ q.answer = "none" /\ Fits(q, r)
<1>1. ASSUME NEW op \in Ops, NEW l \in Lists \cup {None}, NEW w \in Wines \cup {None},
             NEW f \in UNION {[L -> Names] : L \in SUBSET Lists}
      PROVE  /\ Sent(op, l, w, f) \in Request
             /\ Sent(op, l, w, f).op = op /\ Sent(op, l, w, f).list = l
             /\ Sent(op, l, w, f).wine = w /\ Sent(op, l, w, f).gives = f
             /\ Sent(op, l, w, f).stage = "sent" /\ Sent(op, l, w, f).answer = "none"
  BY DEF Sent, Request
<1>2. Known(r) \subseteq Lists \ ({r} \X Names)
  BY DEF Known
<1>3. /\ None \in Lists \cup {None} /\ None \in Wines \cup {None}
      /\ Nothing \in UNION {[L -> Names] : L \in SUBSET Lists}
  BY NoName
<1>4. /\ "create" \in Ops /\ "rename" \in Ops /\ "delete" \in Ops /\ "add" \in Ops
      /\ "take" \in Ops /\ "drop" \in Ops /\ "read" \in Ops /\ "scan" \in Ops
      /\ Imports \subseteq Ops
  BY DEF Ops
<1>6. ASSUME NEW l \in Known(r), NEW n \in Names, q = Sent("rename", l, None, Called(l, n))
      PROVE  q \in Request /\ q.stage = "sent" /\ q.answer = "none" /\ Fits(q, r)
  <2>1. l \in Lists \ ({r} \X Names)
    BY <1>2
  <2>2. Called(l, n) \in UNION {[L -> Names] : L \in SUBSET Lists}
    BY <2>1, OneName
  <2>3. /\ q \in Request /\ q.op = "rename" /\ q.list = l /\ q.gives = Called(l, n)
        /\ q.stage = "sent" /\ q.answer = "none"
    BY <1>1, <1>3, <1>4, <1>6, <2>1, <2>2
  <2> QED
    BY <2>1, <2>3 DEF Fits, Imports
<1>7. ASSUME NEW op \in {"delete", "add", "take"}, NEW l \in Known(r), NEW w \in Wines \cup {None},
             op = "delete" \/ w \in Wines, q = Sent(op, l, w, Nothing)
      PROVE  q \in Request /\ q.stage = "sent" /\ q.answer = "none" /\ Fits(q, r)
  <2>1. l \in Lists \ ({r} \X Names) /\ op \in Ops
    BY <1>2, <1>4
  <2>2. /\ q \in Request /\ q.op = op /\ q.list = l /\ q.wine = w /\ q.gives = Nothing
        /\ q.stage = "sent" /\ q.answer = "none"
    BY <1>1, <1>3, <1>7, <2>1
  <2> QED
    BY <1>7, <2>1, <2>2 DEF Fits, Imports
<1>8. ASSUME NEW op \in {"drop", "read", "scan"}, NEW w \in Wines \cup {None},
             op = "drop" => w \in Wines, q = Sent(op, None, w, Nothing)
      PROVE  q \in Request /\ q.stage = "sent" /\ q.answer = "none" /\ Fits(q, r)
  <2>1. op \in Ops
    BY <1>4
  <2>2. /\ q \in Request /\ q.op = op /\ q.wine = w /\ q.gives = Nothing
        /\ q.stage = "sent" /\ q.answer = "none"
    BY <1>1, <1>3, <1>8, <2>1
  <2> QED
    BY <1>8, <2>2 DEF Fits, Imports
<1>9. ASSUME NEW op \in Imports \cup {"create"}, NEW S \in SUBSET Names,
             op = "create" => \E n \in Names : S = {n}, q = Sent(op, None, None, Own(r, S))
      PROVE  q \in Request /\ q.stage = "sent" /\ q.answer = "none" /\ Fits(q, r)
  <2> DEFINE f == Own(r, S)
  <2>1. f \in UNION {[L -> Names] : L \in SUBSET Lists} /\ op \in Ops /\ q = Sent(op, None, None, f)
    BY <1>4, <1>9, OwnLists
  <2> HIDE DEF f
  <2>3. /\ q \in Request /\ q.op = op /\ q.gives = f
        /\ q.stage = "sent" /\ q.answer = "none"
    BY <1>1, <1>3, <2>1
  <2>2. /\ q \in Request /\ q.op = op /\ q.gives = Own(r, S)
        /\ q.stage = "sent" /\ q.answer = "none"
    BY <2>3 DEF f
  <2> QED
    BY <1>9, <2>2 DEF Fits, Imports
<1>5. CASE \E n \in Names : q = Sent("create", None, None, Own(r, {n}))
  <2>1. PICK n \in Names : q = Sent("create", None, None, Own(r, {n}))
    BY <1>5
  <2>2. {n} \in SUBSET Names /\ "create" \in Imports \cup {"create"}
    OBVIOUS
  <2> QED
    BY <1>9, <2>1, <2>2
<1>10. \/ \E n \in Names : q = Sent("create", None, None, Own(r, {n}))
       \/ \E l \in Known(r), n \in Names : q = Sent("rename", l, None, Called(l, n))
       \/ \E l \in Known(r) : q = Sent("delete", l, None, Nothing)
       \/ \E op \in {"add", "take"}, l \in Known(r), w \in Wines : q = Sent(op, l, w, Nothing)
       \/ \E w \in Wines : q = Sent("drop", None, w, Nothing)
       \/ \E op \in Imports, S \in SUBSET Names : q = Sent(op, None, None, Own(r, S))
       \/ \E op \in {"read", "scan"} : q = Sent(op, None, None, Nothing)
  BY DEF Inputs
<1>15. CASE \E op \in Imports, S \in SUBSET Names : q = Sent(op, None, None, Own(r, S))
  <2>1. PICK op \in Imports, S \in SUBSET Names : q = Sent(op, None, None, Own(r, S))
    BY <1>15
  <2>2. op \in Imports \cup {"create"} /\ op # "create"
    BY DEF Imports
  <2> QED
    BY <1>9, <2>1, <2>2
<1>11. CASE \E op \in {"add", "take"}, l \in Known(r), w \in Wines : q = Sent(op, l, w, Nothing)
  <2>1. PICK op \in {"add", "take"}, l \in Known(r), w \in Wines : q = Sent(op, l, w, Nothing)
    BY <1>11
  <2> QED
    BY <1>7, <2>1
<1>12. CASE \E l \in Known(r) : q = Sent("delete", l, None, Nothing)
  BY <1>3, <1>7, <1>12
<1>13. CASE \E op \in {"read", "scan"} : q = Sent(op, None, None, Nothing)
  BY <1>3, <1>8, <1>13
<1>14. CASE \E w \in Wines : q = Sent("drop", None, w, Nothing)
  BY <1>8, <1>14
<1> QED
  BY <1>5, <1>6, <1>10, <1>11, <1>12, <1>13, <1>14, <1>15

LEMMA IdsAreNew ==
  /\ None \notin Names /\ None \notin Lists /\ None \notin Wines
  /\ Lists \cap Wines = {}
BY FavoritesAssumption DEF Names, Lists, Reqs

LEMMA AskKeepsTypes ==
  ASSUME FTyped, NEW r \in Reqs, NEW q \in Inputs(r), Ask(r, q)
  PROVE  FTyped'
BY InputsFit DEF FTyped, TypeOK, Ask

LEMMA LookKeepsTypes ==
  ASSUME FTyped, NEW r \in Reqs, Look(r)
  PROVE  FTyped'
<1>1. Found(req[r]) \in SUBSET Item /\ Verdict(req[r]) \in {"ok", "clash", "missing", "none"}
  BY DEF FTyped, TypeOK, Found, Verdict
<1>2. req' \in [Reqs -> Request]
  BY <1>1 DEF FTyped, TypeOK, Look, Request
<1>3. beside' \in [Reqs -> SUBSET Reqs]
  BY DEF FTyped, TypeOK, Look, Overlap, InTransaction
<1>4. \A o \in Reqs : req'[o].stage # "idle" => Fits(req'[o], o)
  BY DEF FTyped, TypeOK, Look, Request, Fits
<1> QED
  BY <1>2, <1>3, <1>4 DEF FTyped, TypeOK, Look

LEMMA WipeKeepsTypes ==
  ASSUME FTyped, NEW r \in Reqs, Wipe(r)
  PROVE  FTyped'
<1>1. Written(req[r]) \in SUBSET (Lists \cup Wines)
  BY DEF FTyped, TypeOK, Wipe, Written, Live, Imports
<1>2. req' \in [Reqs -> Request]
  BY <1>1 DEF FTyped, TypeOK, Wipe, Request
<1>3. beside' \in [Reqs -> SUBSET Reqs]
  BY DEF FTyped, TypeOK, Wipe, Overlap, InTransaction
<1>4. \A o \in Reqs : req'[o].stage # "idle" => Fits(req'[o], o)
  BY DEF FTyped, TypeOK, Wipe, Request, Fits
<1> QED
  BY <1>2, <1>3, <1>4 DEF FTyped, TypeOK, Wipe

LEMMA ChooseKeepsTypes ==
  ASSUME FTyped, NEW r \in Reqs, Choose(r)
  PROVE  FTyped'
<1> DEFINE q == req[r]
<1>1. PICK S \in SUBSET Names :
        req' = [req EXCEPT ![r] = [q EXCEPT !.stage = "open", !.gives = Own(r, S)]]
  <2>1. Given(q) \subseteq Names
    BY GivesOf DEF FTyped, Choose
  <2> QED
    BY <2>1 DEF Choose
<1>2. q \in Request /\ q.op \in Imports /\ Own(r, S) \in UNION {[L -> Names] : L \in SUBSET Lists}
  BY OwnLists DEF FTyped, TypeOK, Choose, Fits
<1> DEFINE p == [q EXCEPT !.stage = "open", !.gives = Own(r, S)]
<1>3. p \in Request /\ p.op = q.op /\ p.gives = Own(r, S)
  BY <1>2 DEF Request
<1>4. Fits(p, r)
  BY <1>2, <1>3 DEF Fits, Imports
<1> HIDE DEF p
<1>5. req' \in [Reqs -> Request] /\ \A o \in Reqs : req'[o] = IF o = r THEN p ELSE req[o]
  BY <1>1, <1>3 DEF p, FTyped, TypeOK
<1> QED
  BY <1>4, <1>5 DEF FTyped, TypeOK, Choose

LEMMA FlushKeepsTypes ==
  ASSUME FTyped, NEW r \in Reqs, Flush(r)
  PROVE  FTyped'
<1>1. PICK s \in {"over", "flushed"}, a \in {"failed", "ok"} :
        req' = [req EXCEPT ![r] = [req[r] EXCEPT !.stage = s, !.answer = a]]
  BY DEF Flush
<1> DEFINE p == [req[r] EXCEPT !.stage = s, !.answer = a]
<1>2. req[r] \in Request /\ Fits(req[r], r)
  BY DEF FTyped, TypeOK, Flush
<1>3. /\ p \in Request /\ p.stage = s
      /\ p.op = req[r].op /\ p.list = req[r].list /\ p.wine = req[r].wine /\ p.gives = req[r].gives
  BY <1>2 DEF Request
<1> HIDE DEF p
<1>4. Fits(p, r)
  BY <1>2, <1>3 DEF Fits
<1>5. req' \in [Reqs -> Request] /\ \A o \in Reqs : req'[o] = IF o = r THEN p ELSE req[o]
  BY <1>1, <1>3 DEF p, FTyped, TypeOK
<1> QED
  BY <1>4, <1>5 DEF FTyped, TypeOK, Flush

LEMMA CommitKeepsTypes ==
  ASSUME FTyped, NEW r \in Reqs, Commit(r)
  PROVE  FTyped'
<1> DEFINE q == req[r]
<1>1. q \in Request /\ Fits(q, r) /\ q.stage = "flushed"
  BY DEF FTyped, TypeOK, Commit
<1>2. lists' \in [Lists -> Names \cup {None}] /\ wines' \subseteq Wines
  BY <1>1, GivesOf DEF FTyped, TypeOK, Commit
<1>3. items' \subseteq Item
  <2>1. Kept(q) \subseteq items
    BY DEF Kept
  <2>2. q.op = "add" => [list |-> q.list, wine |-> q.wine, id |-> r] \in Item
    BY <1>1 DEF Fits, Item, Ids
  <2> QED
    BY <2>1, <2>2 DEF FTyped, TypeOK, Commit
<1>4. writer' \in [Lists -> Ids]
  BY DEF FTyped, TypeOK, Commit, Ids
<1> DEFINE p == [q EXCEPT !.stage = "over"]
<1>5. /\ p \in Request /\ p.stage = "over"
      /\ p.op = q.op /\ p.list = q.list /\ p.wine = q.wine /\ p.gives = q.gives
  BY <1>1 DEF Request
<1>6. req' = [req EXCEPT ![r] = p]
  BY DEF Commit
<1> HIDE DEF p, q
<1>7. Fits(p, r)
  BY <1>1, <1>5 DEF Fits
<1>8. req' \in [Reqs -> Request] /\ \A o \in Reqs : req'[o] = IF o = r THEN p ELSE req[o]
  BY <1>5, <1>6 DEF FTyped, TypeOK
<1> QED
  BY <1>2, <1>3, <1>4, <1>7, <1>8 DEF FTyped, TypeOK, Commit

-----------------------------------------------------------------------------
\* A step that stores nothing and flushes nobody.
LEMMA QuietStep ==
  ASSUME IInv, FTyped', UNCHANGED <<lists, wines, items>>,
         \A o \in Reqs : req'[o].stage = "flushed" => req'[o] = req[o],
         \A o \in Reqs : req'[o].stage # "over" => req[o].stage # "over"
  PROVE  IInv'
<1>1. Live' = Live
  BY DEF Live
<1>2. \A o \in Flushed' : o \in Flushed /\ req'[o] = req[o]
  BY DEF Flushed
<1>3. Fresh'
  BY DEF IInv, Fresh
<1>4. ASSUME NEW o \in Flushed'
      PROVE  /\ Written(req[o])' = Written(req[o]) /\ Referred(req[o])' = Referred(req[o])
             /\ Given(req[o])' = Given(req[o])
  BY <1>1, <1>2 DEF Given, Written, Referred
<1>5. ASSUME NEW o \in Flushed'
      PROVE  Ready(req[o])'
  BY <1>1, <1>2, <1>4 DEF IInv, Ready
<1>6. ASSUME NEW o \in Flushed', NEW r \in Flushed', o # r
      PROVE  Apart(req[o], req[r])'
  <2>1. Apart(req[o], req[r]) /\ req'[o] = req[o] /\ req'[r] = req[r]
    BY <1>2, <1>6 DEF IInv
  <2>2. /\ Written(req[o])' = Written(req[o]) /\ Referred(req[o])' = Referred(req[o])
        /\ Written(req[r])' = Written(req[r]) /\ Referred(req[r])' = Referred(req[r])
        /\ Given(req[o])' = Given(req[o]) /\ Given(req[r])' = Given(req[r])
    BY <1>4
  <2> QED
    BY <2>1, <2>2 DEF Apart
<1> QED
  BY <1>3, <1>5, <1>6 DEF IInv

\* The locks: whoever flushes is apart from all who have.
LEMMA LocksKeepApart ==
  ASSUME NEW r \in Reqs, req[r].stage = "open", ~Waits(r), NEW o \in Flushed, o # r
  PROVE  Apart(req[o], req[r])
<1>1. ~Collide(req[o], req[r])
  BY DEF Waits, Holds, Flushed
<1>2. Given(req[o]) \subseteq Reserved(req[o])
  BY DEF Reserved, Flushed
<1>3. req[o].op = "add" /\ req[r].op = "add" =>
        /\ Touched(req[o]) = {<<req[o].list, req[o].wine>>}
        /\ Touched(req[r]) = {<<req[r].list, req[r].wine>>}
  BY DEF Touched
<1> QED
  BY <1>1, <1>2, <1>3 DEF Collide, Apart

LEMMA FlushKeepsIInv ==
  ASSUME IInv, NEW r \in Reqs, Flush(r)
  PROVE  IInv'
<1> DEFINE q == req[r]
<1>1. FTyped'
  BY FlushKeepsTypes DEF IInv
<1>2. CASE Fails(q)
  <2>1. \A o \in Reqs : o # r => req'[o] = req[o]
    BY DEF Flush, IInv, FTyped, TypeOK
  <2>2. req'[r].stage = "over"
    BY <1>2 DEF Flush, IInv, FTyped, TypeOK, Request
  <2> QED
    BY <1>1, <2>1, <2>2, QuietStep DEF Flush
<1>3. CASE ~Fails(q)
  <2> DEFINE p == [q EXCEPT !.stage = "flushed", !.answer = "ok"]
  <2>1. q \in Request /\ q.stage = "open"
    BY DEF Flush, IInv, FTyped, TypeOK
  <2>2. req' = [req EXCEPT ![r] = p]
    BY <1>3 DEF Flush
  <2>3. /\ req'[r] = p /\ \A o \in Reqs : o # r => req'[o] = req[o]
        /\ p.stage = "flushed"
        /\ p.op = q.op /\ p.list = q.list /\ p.wine = q.wine /\ p.gives = q.gives
        /\ p.held = q.held
    BY <2>1, <2>2 DEF IInv, FTyped, TypeOK, Request
  <2> HIDE DEF p
  <2>4. Flushed' = Flushed \cup {r} /\ r \notin Flushed
    BY <2>1, <2>3 DEF Flushed
  <2>5. lists' = lists /\ wines' = wines /\ items' = items /\ Live' = Live
    BY DEF Flush, Live
  <2>6. Written(p) = Written(q) /\ Referred(p) = Referred(q) /\ Given(p) = Given(q)
    BY <2>1, <2>3 DEF Written, Referred, Given
  <2>7. Fresh'
    BY <2>1, <2>3, <2>5 DEF IInv, Fresh
  <2>8. Ready(req[r])'
    <3>1. \A l \in Live \ (DOMAIN p.gives \cup Written(p)) : lists[l] \notin Given(p)
      BY <1>3, <2>3, <2>6 DEF Fails
    <3>2. p.op = "rename" => p.list \in Live
      BY <1>3, <2>3 DEF Fails
    <3>3. p.op = "add" => /\ p.list \in Live /\ p.wine \in wines
                          /\ \A i \in items : ~(i.list = p.list /\ i.wine = p.wine)
      BY <1>3, <2>3 DEF Fails, Found
    <3>4. Written(req[r])' = Written(p) /\ Given(req[r])' = Given(p)
      BY <2>3, <2>5 DEF Written, Given
    <3> QED
      BY <2>3, <2>5, <3>1, <3>2, <3>3, <3>4 DEF Ready
  <2>9. ASSUME NEW o \in Flushed
        PROVE  /\ Ready(req[o])'
               /\ Apart(req[o], req[r])' /\ Apart(req[r], req[o])'
    <3>1. o # r /\ o \in Reqs /\ req'[o] = req[o]
      BY <2>3, <2>4 DEF Flushed
    <3>2. Ready(req[o])'
      BY <2>5, <3>1 DEF IInv, Ready, Given, Written
    <3>3. Apart(req[o], q)
      BY <2>1, <3>1, LocksKeepApart DEF Flush
    <3>4. /\ Written(req[o])' = Written(req[o]) /\ Referred(req[o])' = Referred(req[o])
          /\ Written(req[r])' = Written(q) /\ Referred(req[r])' = Referred(q)
          /\ Given(req[o])' = Given(req[o]) /\ Given(req[r])' = Given(q)
      BY <2>3, <2>5, <2>6, <3>1 DEF Written, Referred, Given
    <3> QED
      BY <2>3, <3>1, <3>2, <3>3, <3>4 DEF Apart
  <2>10. ASSUME NEW o \in Flushed, NEW s \in Flushed, o # s
         PROVE  Apart(req[o], req[s])'
    <3>1. o # r /\ s # r /\ req'[o] = req[o] /\ req'[s] = req[s]
      BY <2>3, <2>4 DEF Flushed
    <3> QED
      BY <2>5, <2>10, <3>1 DEF IInv, Apart, Given, Written, Referred
  <2> QED
    BY <1>1, <2>3, <2>4, <2>7, <2>8, <2>9, <2>10 DEF IInv
<1> QED
  BY <1>2, <1>3

-----------------------------------------------------------------------------
\* What a commit makes of the lists.
LEMMA CommitLists ==
  ASSUME IInv, NEW r \in Reqs, Commit(r)
  PROVE  /\ req[r] \in Request /\ Fits(req[r], r) /\ req[r].stage = "flushed"
         /\ r \in Flushed /\ \A n \in Names : <<r, n>> \notin Live
         /\ Removed(req[r]) \subseteq Written(req[r])
         /\ Live' = (Live \ Removed(req[r])) \cup DOMAIN req[r].gives
         /\ \A l \in Live' : lists'[l] = IF l \in DOMAIN req[r].gives THEN req[r].gives[l]
                                       ELSE lists[l]
<1> DEFINE q == req[r]
<1>1. q \in Request /\ Fits(q, r) /\ q.stage = "flushed" /\ r \in Flushed
  BY DEF Commit, IInv, FTyped, TypeOK, Flushed
<1>2. \A n \in Names : <<r, n>> \notin Live
  BY <1>1 DEF IInv, Fresh, Live
<1>3. Removed(q) \subseteq Written(q)
  BY DEF Removed
<1>4. \A l \in Lists : lists'[l] = IF l \in DOMAIN q.gives THEN q.gives[l]
                                 ELSE IF l \in Removed(q) THEN None ELSE lists[l]
  BY DEF Commit
<1>5. DOMAIN q.gives \subseteq Lists /\ \A l \in DOMAIN q.gives : q.gives[l] # None
  BY <1>1, GivesOf, IdsAreNew
<1> HIDE DEF q
<1>6. Live' = (Live \ Removed(q)) \cup DOMAIN q.gives
  BY <1>4, <1>5 DEF Live
<1>7. \A l \in Live' : lists'[l] = IF l \in DOMAIN q.gives THEN q.gives[l] ELSE lists[l]
  BY <1>4 DEF Live
<1> QED
  BY <1>1, <1>2, <1>3, <1>6, <1>7 DEF q

LEMMA CommitKeepsIInv ==
  ASSUME IInv, NEW r \in Reqs, Commit(r)
  PROVE  IInv'
<1> DEFINE q == req[r]
<1>1. FTyped'
  BY CommitKeepsTypes DEF IInv
<1>2. req'[r].stage = "over" /\ \A o \in Reqs : o # r => req'[o] = req[o]
  BY DEF Commit, IInv, FTyped, TypeOK, Request
<1>3. Flushed' = Flushed \ {r} /\ \A o \in Flushed' : req'[o] = req[o]
  BY <1>2 DEF Flushed
<1>4. Ready(q) /\ Removed(q) \subseteq Written(q) /\ Fits(q, r)
  BY CommitLists DEF IInv
<1>5. Fresh'
  <2> SUFFICES ASSUME NEW o \in Reqs, NEW n \in Names, req'[o].stage # "over"
               PROVE  lists'[<<o, n>>] = None
    BY DEF Fresh
  <2>1. o # r /\ lists[<<o, n>>] = None /\ <<o, n>> \in Lists
    BY <1>2 DEF IInv, Fresh, Lists
  <2>2. <<o, n>> \notin DOMAIN q.gives
    <3>1. \A l \in DOMAIN q.gives : l \in {r} \X Names \/ (q.op = "rename" /\ l = q.list)
      BY <1>4, GivesOf
    <3>2. q.op = "rename" => q.list # <<o, n>>
      BY <1>4, <2>1 DEF Ready, Live
    <3> QED
      BY <2>1, <3>1, <3>2
  <2> QED
    BY <2>1, <2>2 DEF Commit
<1>6. ASSUME NEW o \in Flushed'
      PROVE  Ready(req[o])'
  <2> DEFINE p == req[o]
  <2>1. o \in Flushed /\ o # r /\ req'[o] = p /\ Ready(p) /\ Apart(q, p) /\ p.stage = "flushed"
    BY <1>3, CommitLists DEF IInv, Flushed
  <2>2. Written(req[o])' = Written(p) /\ Given(req[o])' = Given(p)
    BY <2>1 DEF Written, Given
  <2>3. ASSUME NEW l \in Live' \ (DOMAIN p.gives \cup Written(p))
        PROVE  lists'[l] \notin Given(p)
    <3>1. l \in DOMAIN q.gives => lists'[l] \in Given(q)
      BY <1>4, CommitLists, GivesOf
    <3>2. l \notin DOMAIN q.gives => l \in Live /\ lists'[l] = lists[l]
      BY CommitLists
    <3> QED
      BY <2>1, <2>3, <3>1, <3>2 DEF Ready, Apart
  <2>4. p.op = "rename" => p.list \in Live'
    BY <1>4, <2>1, CommitLists DEF Ready, Apart, Written
  <2>5. p.op = "add" => p.list \in Live' /\ p.wine \in wines'
    <3>1. wines' = wines \ Removed(q)
      BY DEF Commit
    <3>2. p.op = "add" => Referred(p) = {p.list, p.wine} /\ p.list \in Live /\ p.wine \in wines
      BY <2>1 DEF Ready, Referred
    <3> QED
      BY <1>4, <2>1, <3>1, <3>2, CommitLists DEF Apart
  <2>6. p.op = "add" => \A i \in items' : ~(i.list = p.list /\ i.wine = p.wine)
    <3>1. Kept(q) \subseteq items
      BY DEF Kept
    <3>2. \A i \in items' : i \in items \/ (q.op = "add" /\ i.list = q.list /\ i.wine = q.wine)
      BY <3>1 DEF Commit
    <3> QED
      BY <2>1, <3>2 DEF Ready, Apart
  <2> HIDE DEF p
  <2> QED
    BY <2>1, <2>2, <2>3, <2>4, <2>5, <2>6 DEF Ready
<1>7. ASSUME NEW o \in Flushed', NEW s \in Flushed', o # s
      PROVE  Apart(req[o], req[s])'
  <2>1. /\ req'[o] = req[o] /\ req'[s] = req[s] /\ Apart(req[o], req[s])
        /\ req[o].stage = "flushed" /\ req[s].stage = "flushed"
    BY <1>3, <1>7 DEF IInv, Flushed
  <2> QED
    BY <2>1 DEF Apart, Given, Written, Referred
<1> QED
  BY <1>1, <1>5, <1>6, <1>7 DEF IInv

-----------------------------------------------------------------------------
LEMMA CommitIsOperation ==
  ASSUME IInv, NEW r \in Reqs, Commit(r)
  PROVE  [Promise!SNext]_(Promise!svars)
<1> DEFINE q == req[r]
<1>1. q \in Request /\ q.stage = "flushed" /\ Fits(q, r) /\ Ready(q) /\ \A n \in Names : <<r, n>> \notin Live
  BY CommitLists DEF IInv
<1>2. /\ lists' = [l \in Lists |-> IF l \in DOMAIN q.gives THEN q.gives[l]
                                 ELSE IF l \in Removed(q) THEN None ELSE lists[l]]
      /\ wines' = wines \ Removed(q)
      /\ items' = Kept(q) \cup (IF q.op = "add" THEN {[list |-> q.list, wine |-> q.wine, id |-> r]}
                              ELSE {})
  BY DEF Commit
<1>3. /\ lists \in [Lists -> Names \cup {None}] /\ wines \subseteq Wines /\ items \subseteq Item
      /\ Promise!Live = Live
  BY DEF IInv, FTyped, TypeOK, Promise!Live, Live
<1>4. \A i \in items : i.list \in Lists /\ i.wine \in Wines
  BY <1>3 DEF Item
<1> HIDE DEF q
<1>5. CASE q.op \in {"create", "rename"}
  <2>1. PICK l \in Lists, n \in Names : /\ DOMAIN q.gives = {l} /\ q.gives[l] = n
                                        /\ Given(q) = {n}
    <3>1. CASE q.op = "create"
      <4>1. PICK n \in Names : q.gives = Own(r, {n})
        BY <1>1, <3>1 DEF Fits
      <4>2. DOMAIN Own(r, {n}) = {<<r, n>>} /\ Own(r, {n})[<<r, n>>] = n /\ <<r, n>> \in Lists
        BY DEF Own, Lists
      <4>3. Given(q) = {n}
        BY <4>1, <4>2 DEF Given
      <4> QED
        BY <4>1, <4>2, <4>3
    <3>2. CASE q.op = "rename"
      <4>1. PICK n \in Names : q.gives = Called(q.list, n)
        BY <1>1, <3>2 DEF Fits
      <4>2. q.list \in Lists
        BY <1>1, <3>2 DEF Fits
      <4> QED
        BY <4>1, <4>2 DEF Given, Called
    <3> QED
      BY <1>5, <3>1, <3>2
  <2>2. Removed(q) = {} /\ Kept(q) = items
    BY <1>5 DEF Removed, Kept
  <2>3. wines' = wines /\ items' = items /\ lists' = [lists EXCEPT ![l] = n]
    BY <1>2, <1>3, <1>5, <2>1, <2>2
  <2>4. CASE lists[l] = n
    BY <1>3, <2>3, <2>4 DEF Promise!svars
  <2>5. CASE lists[l] # n
    <3>1. Written(q) \subseteq {l}
      BY <1>1, <1>5, <2>1 DEF Written, Fits, Called
    <3>2. \A m \in Live : lists[m] # n
      BY <1>1, <2>1, <2>5, <3>1 DEF Ready
    <3>3. Promise!Name(l, n)
      BY <1>3, <2>3, <3>2 DEF Promise!Name
    <3> QED
      BY <3>3 DEF Promise!SNext
  <2> QED
    BY <2>4, <2>5
<1>6. CASE q.op = "add"
  <2>1. DOMAIN q.gives = {} /\ Removed(q) = {} /\ q.list \in Lists /\ q.wine \in Wines
    BY <1>1, <1>6, NoName DEF Removed, Fits, Imports
  <2>2. Kept(q) = items
    BY <1>6, <2>1 DEF Kept
  <2>3. lists' = lists /\ wines' = wines
        /\ items' = items \cup {[list |-> q.list, wine |-> q.wine, id |-> r]}
    BY <1>2, <1>3, <1>6, <2>1, <2>2
  <2>4. Promise!Put(q.list, q.wine, r)
    BY <1>1, <1>3, <1>6, <2>3 DEF Ready, Promise!Put
  <2> QED
    BY <2>1, <2>4 DEF Promise!SNext, Ids
<1>7. CASE q.op = "take"
  <2>1. DOMAIN q.gives = {} /\ Removed(q) = {} /\ Kept(q) = items \ q.found
    BY <1>1, <1>7, NoName DEF Removed, Kept, Fits, Imports
  <2>2. lists' = lists /\ wines' = wines /\ items' = items \ (items \cap q.found)
    BY <1>2, <1>3, <1>7, <2>1
  <2>3. Promise!Take(items \cap q.found)
    BY <2>2 DEF Promise!Take
  <2> QED
    BY <2>3 DEF Promise!SNext
<1>8. CASE q.op \in {"delete", "drop"} \cup Imports
  <2> DEFINE L == Removed(q) \cap Lists
             W == Removed(q) \cap Wines
             F == DOMAIN q.gives
  <2>1. Removed(q) \subseteq Lists \cup Wines
    <3>1. q.held \subseteq Lists \cup Wines
      BY <1>1 DEF Request
    <3> QED
      BY <1>1, <1>8, <3>1 DEF Removed, Written, Fits, Imports
  <2>2. Kept(q) = {i \in items : i.list \notin L /\ i.wine \notin W}
    BY <1>4, <1>8, <2>1, IdsAreNew DEF Kept, Imports
  <2>3. wines' = wines \ W /\ items' = {i \in items : i.list \notin L /\ i.wine \notin W}
    BY <1>2, <1>3, <1>8, <2>1, <2>2 DEF Imports
  <2>4. \A l \in F : l \in {r} \X Names
    BY <1>1, <1>8, GivesOf DEF Imports
  <2>5. F \subseteq Lists /\ F \cap Live = {}
    BY <1>1, <2>4, GivesOf
  <2>6. lists' \in [Lists -> Names \cup {None}]
    BY CommitKeepsTypes DEF IInv, FTyped, TypeOK
  <2>7. \A l \in Lists \ F : lists'[l] = IF l \in L THEN None ELSE lists[l]
    BY <1>2
  <2>8. ASSUME NEW l \in F, NEW m \in Lists \ {l}
        PROVE  lists'[l] # None /\ lists'[m] # lists'[l]
    <3>1. lists'[l] = q.gives[l] /\ q.gives[l] \in Names /\ q.gives[l] \in Given(q)
      BY <1>1, <1>2, <2>5, GivesOf
    <3>2. CASE m \in F
      <4>1. lists'[m] = q.gives[m] /\ l # m
        BY <1>2, <2>5, <2>8, <3>2
      <4>2. \A x, y \in DOMAIN q.gives : q.gives[x] = q.gives[y] => x = y
        BY <1>1, GivesOf
      <4>3. l \in DOMAIN q.gives /\ m \in DOMAIN q.gives
        BY <2>8, <3>2
      <4> QED
        BY <3>1, <4>1, <4>2, <4>3, IdsAreNew
    <3>3. CASE m \notin F /\ m \in Live \ Written(q)
      <4>1. lists[m] \notin Given(q)
        BY <1>1, <3>3 DEF Ready
      <4> QED
        BY <2>7, <3>1, <3>3, <4>1, IdsAreNew
    <3>4. CASE m \notin F /\ m \notin Live \ Written(q)
      <4>1. m \in Live => m \in L
        BY <1>8, <3>4 DEF Written, Removed, Imports
      <4>2. lists'[m] = None
        BY <2>7, <3>4, <4>1 DEF Live
      <4> QED
        BY <3>1, <4>2, IdsAreNew
    <3> QED
      BY <3>1, <3>2, <3>3, <3>4, IdsAreNew
  <2> HIDE DEF L, W, F
  <2>9. Promise!Exchange(L, W, F)
    <3>1. F \cap Promise!Live = {}
      BY <1>3, <2>5
    <3>2. \A l \in F : lists'[l] # None /\ \A m \in Lists \ {l} : lists'[m] # lists'[l]
      <4> SUFFICES ASSUME NEW l \in F
                   PROVE  lists'[l] # None /\ \A m \in Lists \ {l} : lists'[m] # lists'[l]
        OBVIOUS
      <4>1. lists'[l] # None
        <5>1. lists'[l] = q.gives[l] /\ q.gives[l] \in Names
          BY <1>1, <1>2, <2>5, GivesOf DEF F
        <5> QED
          BY <5>1, IdsAreNew
      <4> QED
        BY <2>8, <4>1
    <3> QED
      BY <2>3, <2>6, <2>7, <3>1, <3>2 DEF Promise!Exchange
  <2>10. L \in SUBSET Lists /\ W \in SUBSET Wines /\ F \in SUBSET Lists
    BY <2>5 DEF L, W
  <2> QED
    BY <2>9, <2>10 DEF Promise!SNext
<1>9. CASE q.op \in {"read", "scan", "none"}
  <2>1. DOMAIN q.gives = {} /\ Removed(q) = {} /\ Kept(q) = items
    BY <1>1, <1>9, NoName DEF Removed, Kept, Fits, Imports
  <2> QED
    BY <1>2, <1>3, <1>9, <2>1 DEF Promise!svars
<1> QED
  BY <1>1, <1>5, <1>6, <1>7, <1>8, <1>9 DEF Request, Ops, Imports

-----------------------------------------------------------------------------
LEMMA InitIsTyped == FInit => IInv
<1> SUFFICES ASSUME FInit PROVE IInv
  OBVIOUS
<1>1. Idle \in Request /\ Idle.stage = "idle"
  BY NoName DEF Idle, Sent, Request
<1>2. /\ lists \in [Lists -> Names \cup {None}]
      /\ \A r \in Reqs, n \in Names : lists[<<r, n>>] = None
  BY FavoritesAssumption DEF FInit, Lists, Reqs, Names
<1>3. items \subseteq Item
  BY DEF FInit, Item, Lists, Ids
<1>4. FTyped
  BY <1>1, <1>2, <1>3 DEF FInit, FTyped, TypeOK, Ids
<1>5. Flushed = {}
  BY <1>1 DEF FInit, Flushed
<1> QED
  BY <1>2, <1>4, <1>5 DEF IInv, Fresh

LEMMA InitIsShelf == FInit => Promise!SInit
<1> SUFFICES ASSUME FInit PROVE Promise!SInit
  OBVIOUS
<1>1. Promise!ShelfTyped
  BY InitIsTyped DEF IInv, FTyped, TypeOK, Promise!ShelfTyped, Promise!Item, Item
<1>2. PICK named \in [OldLists -> Names] :
        /\ \A l, m \in OldLists : Lower(named[l]) = Lower(named[m]) => l = m
        /\ lists = [l \in Lists |-> IF l \in OldLists THEN named[l] ELSE None]
  BY DEF FInit
<1>3. Promise!Live = OldLists /\ \A l \in OldLists : lists[l] = named[l]
  BY <1>2, IdsAreNew DEF Promise!Live, Lists
<1>4. \A l, m \in OldLists : lists[l] = lists[m] => l = m
  BY <1>2, <1>3 DEF Lower
<1>5. /\ \A i \in items : i.list \in OldLists /\ i.wine \in wines
      /\ \A i, j \in items : i.list = j.list /\ i.wine = j.wine => i = j
  BY DEF FInit
<1> QED
  BY <1>1, <1>3, <1>4, <1>5 DEF Promise!SInit, Promise!ShelfIsOrdered

LEMMA NextKeepsIInv == IInv /\ [FNext]_fvars => IInv'
<1> SUFFICES ASSUME IInv, [FNext]_fvars PROVE IInv'
  OBVIOUS
<1>1. ASSUME NEW r \in Reqs, NEW q \in Inputs(r), Ask(r, q)
      PROVE  IInv'
  <2>1. FTyped'
    BY <1>1, AskKeepsTypes DEF IInv
  <2>2. req[r].stage = "idle" /\ req'[r].stage = "sent" /\ \A o \in Reqs : o # r => req'[o] = req[o]
    BY <1>1, InputsFit DEF Ask, IInv, FTyped, TypeOK
  <2> QED
    BY <1>1, <2>1, <2>2, QuietStep DEF Ask
<1>2. ASSUME NEW r \in Reqs, Look(r)
      PROVE  IInv'
  <2>1. FTyped'
    BY <1>2, LookKeepsTypes DEF IInv
  <2>2. /\ req[r].stage = "sent" /\ req'[r].stage \in {"open", "over"}
        /\ \A o \in Reqs : o # r => req'[o] = req[o]
    BY <1>2 DEF Look, IInv, FTyped, TypeOK, Request
  <2> QED
    BY <1>2, <2>1, <2>2, QuietStep DEF Look
<1>3. ASSUME NEW r \in Reqs, Wipe(r)
      PROVE  IInv'
  <2>1. FTyped'
    BY <1>3, WipeKeepsTypes DEF IInv
  <2>2. /\ req[r].stage = "sent" /\ req'[r].stage = "wiped"
        /\ \A o \in Reqs : o # r => req'[o] = req[o]
    BY <1>3 DEF Wipe, IInv, FTyped, TypeOK, Request
  <2> QED
    BY <1>3, <2>1, <2>2, QuietStep DEF Wipe
<1>4. ASSUME NEW r \in Reqs, Choose(r)
      PROVE  IInv'
  <2>1. FTyped'
    BY <1>4, ChooseKeepsTypes DEF IInv
  <2>2. /\ req[r].stage = "wiped" /\ req'[r].stage = "open"
        /\ \A o \in Reqs : o # r => req'[o] = req[o]
    BY <1>4 DEF Choose, IInv, FTyped, TypeOK, Request
  <2> QED
    BY <1>4, <2>1, <2>2, QuietStep DEF Choose
<1>5. CASE UNCHANGED fvars
  <2>1. FTyped'
    BY <1>5 DEF fvars, IInv, FTyped, TypeOK
  <2> QED
    BY <1>5, <2>1, QuietStep DEF fvars
<1> QED
  BY <1>1, <1>2, <1>3, <1>4, <1>5, FlushKeepsIInv, CommitKeepsIInv DEF FNext, Handle

LEMMA NextIsOperation == IInv /\ [FNext]_fvars => [Promise!SNext]_(Promise!svars)
<1> SUFFICES ASSUME IInv, [FNext]_fvars PROVE [Promise!SNext]_(Promise!svars)
  OBVIOUS
<1>1. ASSUME NEW r \in Reqs, Commit(r)
      PROVE  [Promise!SNext]_(Promise!svars)
  BY <1>1, CommitIsOperation
<1>2. ASSUME NEW r \in Reqs,
             Look(r) \/ Wipe(r) \/ Choose(r) \/ Flush(r) \/ \E q \in Inputs(r) : Ask(r, q)
      PROVE  UNCHANGED Promise!svars
  BY <1>2 DEF Look, Wipe, Choose, Flush, Ask, Promise!svars
<1>3. CASE UNCHANGED fvars
  BY <1>3 DEF fvars, Promise!svars
<1> QED
  BY <1>1, <1>2, <1>3 DEF FNext, Handle

\* Each operation leaves the shelf in order.
LEMMA OperationsKeepOrder ==
  ASSUME Promise!ShelfTyped, Promise!ShelfIsOrdered, Promise!SNext
  PROVE  Promise!ShelfTyped' /\ Promise!ShelfIsOrdered'
<1>1. CASE \E l \in Lists, n \in Names : Promise!Name(l, n)
  BY <1>1, IdsAreNew DEF Promise!ShelfTyped, Promise!ShelfIsOrdered, Promise!Name, Promise!Live
<1>2. CASE \E l \in Lists, w \in Wines, id \in Ids : Promise!Put(l, w, id)
  <2>1. PICK l \in Lists, w \in Wines, id \in Ids : Promise!Put(l, w, id)
    BY <1>2
  <2>2. Promise!Live' = Promise!Live /\ Promise!ShelfTyped'
    BY <2>1 DEF Promise!ShelfTyped, Promise!Put, Promise!Live, Promise!Item
  <2>3. ASSUME NEW i \in items', NEW j \in items', i.list = j.list, i.wine = j.wine
        PROVE  i = j
    BY <2>1, <2>3 DEF Promise!ShelfIsOrdered, Promise!Put
  <2> QED
    BY <2>1, <2>2, <2>3 DEF Promise!ShelfIsOrdered, Promise!Put
<1>3. CASE \E S \in SUBSET items : Promise!Take(S)
  BY <1>3 DEF Promise!ShelfTyped, Promise!ShelfIsOrdered, Promise!Take, Promise!Live
<1>4. CASE \E L \in SUBSET Lists, W \in SUBSET Wines, F \in SUBSET Lists :
             Promise!Exchange(L, W, F)
  <2>1. PICK L \in SUBSET Lists, W \in SUBSET Wines, F \in SUBSET Lists :
          Promise!Exchange(L, W, F)
    BY <1>4
  <2>2. /\ Promise!Live' = (Promise!Live \ L) \cup F /\ F \cap Promise!Live = {}
        /\ \A m \in Promise!Live' \ F : lists'[m] = lists[m] /\ m \in Promise!Live
    BY <2>1 DEF Promise!Exchange, Promise!Live
  <2>3. \A l \in F, m \in Promise!Live' : m # l => lists'[m] # lists'[l]
    BY <2>1 DEF Promise!Exchange, Promise!Live
  <2>4. Promise!ShelfTyped' /\ items' \subseteq items
    BY <2>1 DEF Promise!ShelfTyped, Promise!Exchange, Promise!Item
  <2>5. \A l, m \in Promise!Live' : lists'[l] = lists'[m] => l = m
    BY <2>2, <2>3 DEF Promise!ShelfIsOrdered
  <2>6. \A k \in items' : k.list \in Promise!Live' /\ k.wine \in wines'
    BY <2>1, <2>2 DEF Promise!ShelfIsOrdered, Promise!Exchange
  <2> QED
    BY <2>4, <2>5, <2>6 DEF Promise!ShelfIsOrdered
<1> QED
  BY <1>1, <1>2, <1>3, <1>4 DEF Promise!SNext

LEMMA ShelfStaysOrdered == Promise!SSpec => []Promise!ShelfIsOrdered
<1>1. Promise!SInit => Promise!ShelfTyped /\ Promise!ShelfIsOrdered
  BY DEF Promise!SInit
<1>2. Promise!ShelfTyped /\ Promise!ShelfIsOrdered /\ [Promise!SNext]_(Promise!svars)
        => (Promise!ShelfTyped /\ Promise!ShelfIsOrdered)'
  <2> SUFFICES ASSUME Promise!ShelfTyped, Promise!ShelfIsOrdered, [Promise!SNext]_(Promise!svars)
               PROVE  Promise!ShelfTyped' /\ Promise!ShelfIsOrdered'
    OBVIOUS
  <2>1. CASE Promise!SNext
    BY <2>1, OperationsKeepOrder
  <2>2. CASE UNCHANGED Promise!svars
    BY <2>2 DEF Promise!svars, Promise!ShelfTyped, Promise!ShelfIsOrdered, Promise!Live
  <2> QED
    BY <2>1, <2>2
<1> QED
  BY <1>1, <1>2, PTL DEF Promise!SSpec

\* favorites.py, db.py: however requests overlap, what they commit is what Shelf allows.
THEOREM FavoritesKeepShelf == FSpec => KeepsShelf
<1>1. FInit => IInv /\ Promise!SInit
  BY InitIsTyped, InitIsShelf
<1> QED
  BY <1>1, NextKeepsIInv, NextIsOperation, PTL DEF FSpec, KeepsShelf, Promise!SSpec

\* Workers only delays requests.
LEMMA WorkersAreFavorites == WSpec => FSpec
<1>1. WInit => FInit
  BY DEF WInit
<1>2. [WNext]_wvars => [FNext]_fvars
  <2> SUFFICES ASSUME [WNext]_wvars PROVE [FNext]_fvars
    OBVIOUS
  <2>1. ASSUME NEW r \in Reqs, Run(r)
        PROVE  [FNext]_fvars
    BY <2>1 DEF Run, Enter, Connect, Dispatch, Work, Return, Resume, Leave, GiveUp, Stay,
                Handle, FNext
  <2>2. ASSUME NEW r \in Reqs, NEW q \in Inputs(r), Arrive(r, q)
        PROVE  [FNext]_fvars
    BY <2>2 DEF Arrive, FNext
  <2>3. CASE UNCHANGED wvars
    BY <2>3 DEF wvars
  <2> QED
    BY <2>1, <2>2, <2>3 DEF WNext
<1> QED
  BY <1>1, <1>2, PTL DEF WSpec, FSpec

\* db.py, main.py: with any number of threads and connections, too.
THEOREM ServerKeepsShelf == WSpec => KeepsShelf
BY WorkersAreFavorites, FavoritesKeepShelf, PTL

\* models.py: so no two lists ever share a name, no wine is on a list twice, and no
\* item outlives its list or its wine.
THEOREM ServerKeepsOrder == WSpec => []Promise!ShelfIsOrdered
BY ServerKeepsShelf, ShelfStaysOrdered, PTL DEF KeepsShelf

-----------------------------------------------------------------------------
(***************************************************************************)
(* Races.  What a handler looked for and did not find may be there when it *)
(* flushes, but then somebody beside it brought it (Foreseen).             *)
(***************************************************************************)

Rival(r) ==
  \E o \in beside[r] : \/ req[o].op \in Imports
                       \/ ({req[o].list, req[o].wine} \cap {req[r].list, req[r].wine}) \ {None} # {}
                       \/ Given(req[o]) \cap Given(req[r]) # {}

\* The name of m was written beside r.
WrittenBeside(m, r) == writer[m] # None /\ writer[m] \in beside[r] /\ r \in beside[writer[m]]

Foreseen(r) ==
  LET q == req[r] IN
  /\ q.op \in {"create", "rename"} =>
       \A m \in Live \ DOMAIN q.gives, n \in Given(q) :
         Lower(lists[m]) = Lower(n) => WrittenBeside(m, r)
  /\ q.op \in Imports /\ q.stage # "wiped" =>
       \A m \in Live \ Written(q) : lists[m] \in Given(q) => WrittenBeside(m, r)
  /\ q.op \in {"rename", "add"} /\ q.list \notin Live => Rival(r)
  /\ q.op = "add" /\ q.wine \notin wines => Rival(r)
  /\ q.op = "add" /\ Found(q) # {} => Rival(r)

\* Who wrote a name has ended, and it is the name it gave.
WritersEnded ==
  \A m \in Lists : writer[m] # None =>
    /\ req[writer[m]].stage = "over"
    /\ m \in Live => lists[m] \in Given(req[writer[m]])

Mutual == \A o, r \in InTransaction : o # r => o \in beside[r]

\* Only those who have looked are beside anybody.
Begun == \A o \in Reqs : \A p \in beside[o] : req[p].stage \notin {"idle", "sent"}

FailedEnded == \A r \in Reqs : req[r].answer = "failed" => req[r].stage = "over"

RInv ==
  /\ WritersEnded /\ Mutual /\ Begun /\ FailedEnded
  /\ \A r \in InTransaction : Foreseen(r)
  /\ FailureHadRival

\* A step that stores nothing, where who is beside whom only grows, except for the
\* request r, which was nobody's writer and beside nobody before.
LEMMA RacesAreKept ==
  ASSUME IInv, RInv, FTyped', NEW r \in Reqs,
         UNCHANGED <<lists, wines, items, writer>>,
         req[r].stage # "over",
         \A o \in Reqs : o # r => req'[o] = req[o] /\ beside[o] \subseteq beside'[o],
         r \in InTransaction => beside[r] \subseteq beside'[r],
         \/ req[r].stage = "idle"
         \/ /\ req'[r].op = req[r].op /\ req'[r].list = req[r].list /\ req'[r].wine = req[r].wine
            /\ req[r].op \in Imports \/ req'[r].gives = req[r].gives,
         Begun',
         req'[r].answer = "failed" => req'[r].stage = "over" /\ Rival(r)',
         \A o \in InTransaction' \ {r} : r \in InTransaction' =>
           o \in beside'[r] /\ r \in beside'[o],
         r \in InTransaction' => Foreseen(r)'
  PROVE  RInv'
<1>1. /\ Live' = Live
      /\ \A o \in Reqs \ {r} : o \in InTransaction' <=> o \in InTransaction
  BY DEF Live, InTransaction
<1>2. \A m \in Lists : writer[m] # None => writer[m] # r /\ writer[m] \in Reqs
  BY DEF RInv, WritersEnded, IInv, FTyped, TypeOK, Ids
<1>3. \A o \in Reqs : o # r \/ req[r].stage # "idle" =>
                      /\ req'[o].op = req[o].op /\ req'[o].list = req[o].list
                      /\ req'[o].wine = req[o].wine
                      /\ req[o].op \in Imports \/ req'[o].gives = req[o].gives
                      /\ req[o].op \in Imports \/ Given(req[o])' = Given(req[o])
  BY DEF Given
<1>4. \A o \in Reqs : beside[o] \subseteq Reqs
  BY DEF IInv, FTyped, TypeOK
<1>5. ASSUME NEW o \in Reqs, o # r, Rival(o)
      PROVE  Rival(o)'
  <2>1. \A p \in beside[o] : p \in Reqs /\ req[p].stage # "idle" /\ p \in beside'[o]
    BY <1>4, <1>5 DEF RInv, Begun
  <2> QED
    BY <1>3, <1>5, <2>1 DEF Rival
<1>6. ASSUME NEW o \in Reqs, o # r, NEW m \in Lists, WrittenBeside(m, o)
      PROVE  WrittenBeside(m, o)'
  BY <1>2, <1>6 DEF WrittenBeside
<1>7. WritersEnded'
  BY <1>1, <1>2 DEF RInv, WritersEnded
<1>8. Mutual'
  BY <1>1 DEF RInv, Mutual, InTransaction
<1>9. FailedEnded'
  BY DEF RInv, FailedEnded
<1>10. ASSUME NEW o \in InTransaction'
       PROVE  Foreseen(o)'
  <2>1. CASE o = r
    BY <1>10, <2>1
  <2>2. CASE o # r
    <3>1. o \in Reqs /\ o \in InTransaction /\ req'[o] = req[o] /\ Foreseen(o)
      BY <1>1, <2>2 DEF InTransaction, RInv
    <3>2. \A m \in Live : m \in Lists
      BY DEF Live
    <3>3. /\ Found(req[o])' = Found(req[o]) /\ Given(req[o])' = Given(req[o])
          /\ req[o].stage # "sent" /\ Written(req[o])' = Written(req[o])
      BY <1>1, <3>1 DEF Found, Given, InTransaction, Written
    <3> QED
      BY <1>1, <1>5, <1>6, <2>2, <3>1, <3>2, <3>3 DEF Foreseen
  <2> QED
    BY <2>1, <2>2
<1>11. FailureHadRival'
  <2> SUFFICES ASSUME NEW o \in Reqs, req'[o].answer = "failed"
               PROVE  Rival(o)'
    BY DEF FailureHadRival, Rival
  <2>1. o # r => Rival(o)
    BY DEF RInv, FailureHadRival, Rival
  <2> QED
    BY <1>5, <2>1
<1> QED
  BY <1>7, <1>8, <1>9, <1>10, <1>11 DEF RInv

LEMMA OverlapIsMutual ==
  ASSUME IInv, NEW r \in Reqs, r \notin InTransaction, Overlap(r),
         \A o \in Reqs : o # r => req'[o] = req[o]
  PROVE  /\ \A o \in Reqs : o # r => beside[o] \subseteq beside'[o]
         /\ \A o \in InTransaction' \ {r} : o \in beside'[r] /\ r \in beside'[o]
BY DEF Overlap, InTransaction

LEMMA AskKeepsRaces ==
  ASSUME IInv, RInv, NEW r \in Reqs, NEW q \in Inputs(r), Ask(r, q)
  PROVE  RInv'
<1>1. q.stage = "sent" /\ q.answer = "none"
  BY InputsFit
<1>2. req'[r] = q /\ req[r].stage = "idle" /\ \A o \in Reqs : o # r => req'[o] = req[o]
  BY DEF Ask, IInv, FTyped, TypeOK
<1>3. r \notin InTransaction /\ r \notin InTransaction'
  BY <1>1, <1>2 DEF InTransaction
<1>4. UNCHANGED <<lists, wines, items, writer, beside>>
  BY DEF Ask
<1>5. Begun'
  BY <1>2, <1>4 DEF RInv, Begun, IInv, FTyped, TypeOK
<1>6. FTyped'
  BY AskKeepsTypes DEF IInv
<1> QED
  BY <1>1, <1>2, <1>3, <1>4, <1>5, <1>6, RacesAreKept

LEMMA LookKeepsRaces ==
  ASSUME IInv, RInv, NEW r \in Reqs, Look(r)
  PROVE  RInv'
<1> DEFINE v == Verdict(req[r])
<1>1. /\ req[r].stage = "sent" /\ v \in {"ok", "clash", "missing", "none"}
      /\ req[r].op \notin Imports
  BY DEF Look, Verdict
<1>2. /\ req'[r].op = req[r].op /\ req'[r].list = req[r].list /\ req'[r].wine = req[r].wine
      /\ req'[r].gives = req[r].gives /\ req'[r].answer = v
      /\ req'[r].stage = IF v = "none" THEN "open" ELSE "over"
      /\ \A o \in Reqs : o # r => req'[o] = req[o]
  BY DEF Look, IInv, FTyped, TypeOK, Request
<1>3. r \notin InTransaction
  BY <1>1 DEF InTransaction
<1>4. UNCHANGED <<lists, wines, items, writer>> /\ Overlap(r) /\ Live' = Live
  BY DEF Look, Live
<1>5. Begun'
  <2>1. \A o \in Reqs : \A p \in beside'[o] : p \in InTransaction \cup beside[o] \cup {r}
    BY <1>4 DEF Overlap, InTransaction
  <2> QED
    BY <1>2, <2>1 DEF RInv, Begun, InTransaction, IInv, FTyped, TypeOK
<1>6. ASSUME v = "none"
      PROVE  Foreseen(r)'
  <2>1. ~Missing(req[r]) /\ ~Clash(req[r]) /\ ~Satisfied(req[r])
    BY <1>6 DEF Verdict
  <2>2. Found(req[r])' = Found(req[r]) /\ Given(req[r])' = Given(req[r])
    BY <1>2, <1>4 DEF Found, Given
  <2> QED
    BY <1>1, <1>2, <1>4, <2>1, <2>2 DEF Foreseen, Missing, Clash, Satisfied
<1>7. FTyped'
  BY LookKeepsTypes DEF IInv
<1>8. r \in InTransaction' => v = "none"
  BY <1>2 DEF InTransaction
<1> HIDE DEF v
<1> QED
  BY <1>1, <1>2, <1>3, <1>4, <1>5, <1>6, <1>7, <1>8, OverlapIsMutual, RacesAreKept

LEMMA WipeKeepsRaces ==
  ASSUME IInv, RInv, NEW r \in Reqs, Wipe(r)
  PROVE  RInv'
<1>1. req[r].stage = "sent" /\ req[r].op \in Imports
  BY DEF Wipe
<1>2. /\ req'[r].op = req[r].op /\ req'[r].list = req[r].list /\ req'[r].wine = req[r].wine
      /\ req'[r].gives = req[r].gives /\ req'[r].answer = req[r].answer
      /\ req'[r].stage = "wiped"
      /\ \A o \in Reqs : o # r => req'[o] = req[o]
  BY DEF Wipe, IInv, FTyped, TypeOK, Request
<1>3. r \notin InTransaction
  BY <1>1 DEF InTransaction
<1>4. UNCHANGED <<lists, wines, items, writer>> /\ Overlap(r) /\ Live' = Live
  BY DEF Wipe, Live
<1>5. Begun'
  <2>1. \A o \in Reqs : \A p \in beside'[o] : p \in InTransaction \cup beside[o] \cup {r}
    BY <1>4 DEF Overlap, InTransaction
  <2> QED
    BY <1>2, <2>1 DEF RInv, Begun, InTransaction, IInv, FTyped, TypeOK
<1>6. Foreseen(r)'
  BY <1>1, <1>2, <1>4 DEF Foreseen, Imports
<1>7. FTyped'
  BY WipeKeepsTypes DEF IInv
<1>8. req[r].answer # "failed"
  BY <1>1 DEF RInv, FailedEnded
<1> QED
  BY <1>1, <1>2, <1>3, <1>4, <1>5, <1>6, <1>7, <1>8, OverlapIsMutual, RacesAreKept

LEMMA ChooseKeepsRaces ==
  ASSUME IInv, RInv, NEW r \in Reqs, Choose(r)
  PROVE  RInv'
<1>1. req[r].stage = "wiped" /\ req[r].op \in Imports /\ Fits(req[r], r)
  BY DEF Choose, IInv, FTyped, Fits
<1>2. /\ req'[r].op = req[r].op /\ req'[r].list = req[r].list /\ req'[r].wine = req[r].wine
      /\ req'[r].answer = req[r].answer /\ req'[r].stage = "open" /\ req'[r].held = req[r].held
      /\ \A o \in Reqs : o # r => req'[o] = req[o]
  BY DEF Choose, IInv, FTyped, TypeOK, Request
<1>3. r \in InTransaction /\ InTransaction' = InTransaction
  BY <1>1, <1>2 DEF InTransaction
<1>4. UNCHANGED <<lists, wines, items, writer, beside>> /\ Live' = Live
  BY DEF Choose, Live
<1>5. Begun'
  BY <1>2, <1>4 DEF RInv, Begun, IInv, FTyped, TypeOK
<1>6. Foreseen(r)'
  <2> DEFINE S == Given(req[r]) \ {lists[l] : l \in Live \ Written(req[r])}
  <2>1. S \in SUBSET Names /\ req'[r].gives = Own(r, S)
    BY <1>1, GivesOf DEF Choose, IInv, FTyped, TypeOK, Request
  <2>2. Given(req[r])' \subseteq S
    <3> HIDE DEF S
    <3>1. \A l \in DOMAIN Own(r, S) : Own(r, S)[l] \in S
      BY <2>1, OwnLists
    <3> QED
      BY <2>1, <3>1 DEF Given
  <2>3. Written(req[r])' = Written(req[r])
    BY <1>1, <1>2, <1>4 DEF Written, Imports
  <2>4. \A m \in Live \ Written(req[r]) : lists[m] \notin S
    OBVIOUS
  <2> QED
    BY <1>1, <1>2, <1>4, <2>2, <2>3, <2>4 DEF Foreseen, Imports
<1>7. FTyped'
  BY ChooseKeepsTypes DEF IInv
<1>8. req[r].answer # "failed"
  BY <1>1 DEF RInv, FailedEnded
<1>9. \A o \in InTransaction' \ {r} : o \in beside'[r] /\ r \in beside'[o]
  BY <1>3, <1>4 DEF RInv, Mutual
<1> QED
  BY <1>1, <1>2, <1>4, <1>5, <1>6, <1>7, <1>8, <1>9, RacesAreKept

LEMMA FlushKeepsRaces ==
  ASSUME IInv, RInv, NEW r \in Reqs, Flush(r)
  PROVE  RInv'
<1> DEFINE q == req[r]
<1>1. q.stage = "open" /\ r \in InTransaction /\ Foreseen(r)
  BY DEF Flush, InTransaction, RInv
<1>2. /\ req'[r].op = q.op /\ req'[r].list = q.list /\ req'[r].wine = q.wine
      /\ req'[r].gives = q.gives /\ req'[r].held = q.held /\ req'[r].found = q.found
      /\ req'[r].stage = IF Fails(q) THEN "over" ELSE "flushed"
      /\ req'[r].answer = IF Fails(q) THEN "failed" ELSE "ok"
      /\ \A o \in Reqs : o # r => req'[o] = req[o]
  BY DEF Flush, IInv, FTyped, TypeOK, Request
<1>3. UNCHANGED <<lists, wines, items, writer, beside>> /\ Live' = Live
  BY DEF Flush, Live
<1>4. Begun'
  BY <1>2, <1>3 DEF RInv, Begun, IInv, FTyped, TypeOK
<1>5. Fails(q) => Rival(r)
  <2>1. ASSUME NEW l \in Live \ (DOMAIN q.gives \cup Written(q)), lists[l] \in Given(q)
        PROVE  Rival(r)
    <3>1. q.op \in {"create", "rename"} \cup Imports
      BY <1>1, <2>1, NoName DEF Given, IInv, FTyped, Fits, Flush
    <3>2. WrittenBeside(l, r)
      BY <1>1, <2>1, <3>1 DEF Foreseen
    <3>3. l \in Lists /\ l \in Live
      BY DEF Live
    <3> QED
      BY <2>1, <3>2, <3>3 DEF RInv, WritersEnded, WrittenBeside, Rival
  <2>2. q.op = "rename" /\ q.list \notin Live => Rival(r)
    BY <1>1 DEF Foreseen
  <2>3. q.op = "add" /\ (Found(q) # {} \/ q.list \notin Live \/ q.wine \notin wines) => Rival(r)
    BY <1>1 DEF Foreseen
  <2> QED
    BY <2>1, <2>2, <2>3 DEF Fails
<1>6. \A o \in Reqs : Given(req[o])' = Given(req[o]) /\ req'[o].op = req[o].op
                   /\ req'[o].list = req[o].list /\ req'[o].wine = req[o].wine
  BY <1>2 DEF Given
<1>7. Rival(r) => Rival(r)'
  BY <1>3, <1>6 DEF Rival, IInv, FTyped, TypeOK
<1>8. Foreseen(r)'
  <2>1. /\ Found(req[r])' = Found(q) /\ Given(req[r])' = Given(q)
        /\ Written(req[r])' = Written(q)
    BY <1>1, <1>2, <1>3 DEF Found, Given, Written
  <2> QED
    BY <1>1, <1>2, <1>3, <1>7, <2>1 DEF Foreseen, WrittenBeside
<1>9. FTyped'
  BY FlushKeepsTypes DEF IInv
<1>10. \A o \in InTransaction' \ {r} : o \in beside'[r] /\ r \in beside'[o]
  BY <1>1, <1>2, <1>3 DEF RInv, Mutual, InTransaction
<1> QED
  BY <1>1, <1>2, <1>3, <1>4, <1>5, <1>7, <1>8, <1>9, <1>10, RacesAreKept

LEMMA CommitKeepsRaces ==
  ASSUME IInv, RInv, NEW r \in Reqs, Commit(r)
  PROVE  RInv'
<1> DEFINE q == req[r]
<1>1. /\ q \in Request /\ Fits(q, r) /\ q.stage = "flushed" /\ r \in InTransaction
      /\ Foreseen(r)
  BY CommitLists DEF RInv, InTransaction
<1>2. /\ Live' = (Live \ Removed(q)) \cup DOMAIN q.gives
      /\ \A l \in Live' : lists'[l] = IF l \in DOMAIN q.gives THEN q.gives[l] ELSE lists[l]
  BY CommitLists
<1>3. /\ req'[r].stage = "over"
      /\ \A o \in Reqs : o # r => req'[o] = req[o]
      /\ \A o \in Reqs : /\ req'[o].op = req[o].op /\ req'[o].list = req[o].list
                         /\ req'[o].wine = req[o].wine /\ req'[o].gives = req[o].gives
                         /\ req'[o].held = req[o].held /\ req'[o].answer = req[o].answer
  BY DEF Commit, IInv, FTyped, TypeOK, Request
<1>4. InTransaction' = InTransaction \ {r} /\ beside' = beside
  BY <1>3 DEF InTransaction, Commit
<1>5. \A m \in Lists : writer'[m] = IF m \in DOMAIN q.gives THEN r ELSE writer[m]
  BY DEF Commit, IInv, FTyped, TypeOK
<1>6. r # None /\ \A m \in Live' : m \in Lists
  BY FavoritesAssumption DEF Reqs, Live
<1>7. \A o \in Reqs : Given(req[o])' = Given(req[o])
  BY <1>3 DEF Given
<1> HIDE DEF q
<1>8. \A o \in Reqs : Rival(o) => Rival(o)'
  BY <1>3, <1>4, <1>7 DEF Rival, IInv, FTyped, TypeOK
<1>9. ASSUME NEW x \in InTransaction, x # r
      PROVE  r \in beside[x] /\ x \in beside[r]
  BY <1>1, <1>9 DEF RInv, Mutual
<1>10. ASSUME NEW x \in InTransaction, x # r, NEW m \in Live',
              m \in Live => m \in DOMAIN q.gives \/ WrittenBeside(m, x)
       PROVE  WrittenBeside(m, x)'
  <2>1. CASE m \in DOMAIN q.gives
    BY <1>4, <1>5, <1>6, <1>9, <1>10, <2>1 DEF WrittenBeside
  <2>2. CASE m \notin DOMAIN q.gives
    <3>1. m \in Live /\ writer'[m] = writer[m]
      BY <1>2, <1>5, <1>6, <2>2
    <3> QED
      BY <1>4, <1>10, <2>2, <3>1 DEF WrittenBeside
  <2> QED
    BY <2>1, <2>2
<1>11. WritersEnded'
  <2>1. ASSUME NEW m \in Lists, m \in DOMAIN q.gives
        PROVE  writer'[m] = r /\ (m \in Live' => lists'[m] \in Given(q))
    BY <1>1, <1>2, <1>5, <2>1, GivesOf
  <2>2. ASSUME NEW m \in Lists, m \notin DOMAIN q.gives
        PROVE  writer'[m] = writer[m] /\ (m \in Live' => m \in Live /\ lists'[m] = lists[m])
    BY <1>2, <1>5, <2>2
  <2>3. ASSUME NEW m \in Lists, writer[m] # None
        PROVE  /\ writer[m] \in Reqs /\ req[writer[m]].stage = "over"
               /\ m \in Live => lists[m] \in Given(req[writer[m]])
    BY <2>3 DEF RInv, WritersEnded, IInv, FTyped, TypeOK, Ids
  <2>4. \A o \in Reqs : req[o].stage = "over" => req'[o].stage = "over"
    BY <1>3
  <2>5. ASSUME NEW m \in Lists, NEW w, w = writer'[m], w # None
        PROVE  /\ req'[w].stage = "over"
               /\ m \in Live' => lists'[m] \in {req'[w].gives[l] : l \in DOMAIN req'[w].gives}
    <3>1. \A o \in Reqs : {req'[o].gives[l] : l \in DOMAIN req'[o].gives} = Given(req[o])
      BY <1>3 DEF Given
    <3>2. CASE m \in DOMAIN q.gives
      BY <1>3, <2>1, <2>5, <3>1, <3>2 DEF q
    <3>3. CASE m \notin DOMAIN q.gives
      <4>1. w = writer[m] /\ (m \in Live' => m \in Live /\ lists'[m] = lists[m])
        BY <2>2, <2>5, <3>3
      <4>2. w \in Reqs /\ req[w].stage = "over" /\ (m \in Live => lists[m] \in Given(req[w]))
        BY <2>3, <2>5, <4>1
      <4>3. Given(req[w]) = {req'[w].gives[l] : l \in DOMAIN req'[w].gives}
        BY <3>1, <4>2
      <4> QED
        BY <2>4, <4>1, <4>2, <4>3
    <3> QED
      BY <3>2, <3>3
  <2> QED
    BY <2>5 DEF WritersEnded, Given
<1>12. Mutual'
  BY <1>4 DEF RInv, Mutual
<1>13. Begun'
  BY <1>3, <1>4 DEF RInv, Begun, IInv, FTyped, TypeOK
<1>14. FailedEnded'
  BY <1>3 DEF RInv, FailedEnded
<1>15. FailureHadRival'
  BY <1>3, <1>8 DEF RInv, FailureHadRival, Rival
<1>16. ASSUME NEW x \in InTransaction'
       PROVE  Foreseen(x)'
  <2> DEFINE p == req[x]
  <2>1. /\ x \in InTransaction /\ x # r /\ x \in Reqs /\ p \in Request /\ Fits(p, x)
        /\ req'[x] = p /\ Foreseen(x)
    BY <1>3, <1>4 DEF InTransaction, RInv, IInv, FTyped, TypeOK
  <2>2. r \in beside'[x] /\ req'[r].op = q.op /\ req'[r].list = q.list /\ req'[r].wine = q.wine
    BY <1>3, <1>4, <1>9, <2>1 DEF q
  <2>3. q.op \in Imports => Rival(x)'
    BY <2>2 DEF Rival
  <2>4. ({q.list, q.wine} \cap {p.list, p.wine}) \ {None} # {} => Rival(x)'
    BY <2>1, <2>2 DEF Rival
  <2>5. p.op \in {"create", "rename"} =>
          \A m \in Live' \ DOMAIN p.gives, n \in Given(p) :
            Lower(lists'[m]) = Lower(n) => WrittenBeside(m, x)'
    <3> SUFFICES ASSUME p.op \in {"create", "rename"}, NEW m \in Live' \ DOMAIN p.gives,
                        NEW n \in Given(p), Lower(lists'[m]) = Lower(n)
                 PROVE  WrittenBeside(m, x)'
      OBVIOUS
    <3>1. m \in Live => m \in DOMAIN q.gives \/ WrittenBeside(m, x)
      BY <1>2, <2>1 DEF Foreseen
    <3> QED
      BY <1>10, <2>1, <3>1
  <2>6. p.op \in Imports /\ p.stage # "wiped" =>
          \A m \in Live' \ Written(p) : lists'[m] \in Given(p) => WrittenBeside(m, x)'
    <3> SUFFICES ASSUME p.op \in Imports, p.stage # "wiped", NEW m \in Live' \ Written(p),
                        lists'[m] \in Given(p)
                 PROVE  WrittenBeside(m, x)'
      OBVIOUS
    <3>1. m \in Live => m \in DOMAIN q.gives \/ WrittenBeside(m, x)
      BY <1>2, <2>1 DEF Foreseen
    <3> QED
      BY <1>10, <2>1, <3>1
  <2>7. p.op \in {"rename", "add"} /\ p.list \notin Live' => Rival(x)'
    <3> SUFFICES ASSUME p.op \in {"rename", "add"}, p.list \notin Live'
                 PROVE  Rival(x)'
      OBVIOUS
    <3>1. p.list \in Lists /\ p.list # None /\ p.list \notin Wines
      BY <2>1, IdsAreNew DEF Fits
    <3>2. CASE p.list \notin Live
      BY <1>8, <2>1, <3>2 DEF Foreseen
    <3>3. CASE p.list \in Removed(q)
      BY <1>1, <2>3, <2>4, <3>1, <3>3 DEF Removed, Written, Fits, Imports
    <3> QED
      BY <1>2, <3>2, <3>3
  <2>8. p.op = "add" /\ p.wine \notin wines' => Rival(x)'
    <3> SUFFICES ASSUME p.op = "add", p.wine \notin wines'
                 PROVE  Rival(x)'
      OBVIOUS
    <3>1. p.wine \in Wines /\ p.wine # None /\ p.wine \notin Lists
      BY <2>1, IdsAreNew DEF Fits
    <3>2. CASE p.wine \notin wines
      BY <1>8, <2>1, <3>2 DEF Foreseen
    <3>3. CASE p.wine \in Removed(q)
      BY <1>1, <2>3, <2>4, <3>1, <3>3 DEF Removed, Written, Fits, Imports
    <3> QED
      BY <3>2, <3>3 DEF Commit, q
  <2>9. p.op = "add" /\ Found(req[x])' # {} => Rival(x)'
    <3> SUFFICES ASSUME p.op = "add", NEW i \in items', i.list = p.list, i.wine = p.wine
                 PROVE  Rival(x)'
      BY <2>1 DEF Found
    <3>1. p.list # None
      BY <2>1, IdsAreNew DEF Fits
    <3>2. CASE i \in items
      BY <1>8, <2>1, <3>2 DEF Foreseen, Found
    <3>3. CASE q.op = "add" /\ i.list = q.list
      BY <2>4, <3>1, <3>3
    <3>4. i \in items \/ (q.op = "add" /\ i.list = q.list)
      BY DEF Commit, Kept, q
    <3> QED
      BY <3>2, <3>3, <3>4
  <2>10. Given(req[x])' = Given(p) /\ Written(req[x])' = Written(p)
    BY <1>7, <2>1 DEF Written, InTransaction
  <2> HIDE DEF p
  <2> QED
    BY <2>1, <2>5, <2>6, <2>7, <2>8, <2>9, <2>10 DEF Foreseen
<1> QED
  BY <1>11, <1>12, <1>13, <1>14, <1>15, <1>16 DEF RInv

\* A commit that makes a clash.
LEMMA CommitClash ==
  ASSUME IInv, RInv, NEW r \in Reqs, Commit(r), NEW l \in Live', NEW m \in Live', l # m,
         lists'[l] # lists[l], Lower(lists'[l]) = Lower(lists'[m])
  PROVE  req[writer'[l]].op \in Imports \/ writer[m] \in beside[writer'[l]]
<1> DEFINE q == req[r]
<1>1. /\ Fits(q, r) /\ q.stage = "flushed" /\ r \in InTransaction /\ Foreseen(r)
  BY CommitLists DEF RInv, InTransaction
<1>2. l \in DOMAIN q.gives /\ lists'[l] \in Given(q)
  BY CommitLists, GivesOf
<1>3. writer'[l] = r
  BY <1>2 DEF Commit, Live
<1>4. q.op \in {"create", "rename"} \cup Imports
  BY <1>1, <1>2, NoName DEF Fits
<1>5. CASE q.op \in {"create", "rename"}
  <2>1. m \notin DOMAIN q.gives
    <3>1. CASE q.op = "create"
      <4>1. PICK n \in Names : q.gives = Own(r, {n})
        BY <1>1, <3>1 DEF Fits
      <4>2. DOMAIN q.gives = {<<r, n>>}
        BY <4>1 DEF Own
      <4> QED
        BY <1>2, <4>2
    <3>2. CASE q.op = "rename"
      BY <1>1, <1>2, <3>2 DEF Fits, Called
    <3> QED
      BY <1>5, <3>1, <3>2
  <2>2. m \in Live /\ lists'[m] = lists[m]
    BY <2>1, CommitLists
  <2>3. WrittenBeside(m, r)
    BY <1>1, <1>2, <1>5, <2>1, <2>2 DEF Foreseen
  <2> QED
    BY <1>3, <2>3 DEF WrittenBeside
<1> QED
  BY <1>3, <1>4, <1>5

LEMMA InitHasNoRaces == FInit => RInv
<1> SUFFICES ASSUME FInit PROVE RInv
  OBVIOUS
<1>1. InTransaction = {} /\ \A r \in Reqs : req[r].answer = "none" /\ req[r].stage = "idle"
  BY DEF FInit, InTransaction, Idle, Sent
<1> QED
  BY <1>1 DEF FInit, RInv, WritersEnded, Mutual, Begun, FailedEnded, FailureHadRival

LEMMA NextKeepsRaces == IInv /\ RInv /\ [FNext]_fvars => RInv'
<1> SUFFICES ASSUME IInv, RInv, [FNext]_fvars PROVE RInv'
  OBVIOUS
<1>1. ASSUME NEW r \in Reqs, Handle(r)
      PROVE  RInv'
  BY <1>1, LookKeepsRaces, WipeKeepsRaces, ChooseKeepsRaces, FlushKeepsRaces, CommitKeepsRaces
     DEF Handle
<1>2. ASSUME NEW r \in Reqs, NEW q \in Inputs(r), Ask(r, q)
      PROVE  RInv'
  BY <1>2, AskKeepsRaces
<1>3. CASE UNCHANGED fvars
  <2>1. /\ lists' = lists /\ wines' = wines /\ items' = items /\ req' = req
        /\ writer' = writer /\ beside' = beside /\ Live' = Live
    BY <1>3 DEF fvars, Live
  <2>2. \A o \in Reqs : /\ Given(req[o])' = Given(req[o]) /\ Found(req[o])' = Found(req[o])
                       /\ Written(req[o])' = Written(req[o])
    BY <2>1 DEF Given, Found, Written
  <2>3. \A o \in Reqs : /\ Rival(o) => Rival(o)'
                       /\ \A m \in Live : WrittenBeside(m, o) => WrittenBeside(m, o)'
    <3>1. \A o \in Reqs : beside[o] \subseteq Reqs
      BY DEF IInv, FTyped, TypeOK
    <3> QED
      BY <2>1, <2>2, <3>1 DEF Rival, WrittenBeside
  <2>4. \A o \in InTransaction' : o \in InTransaction /\ Foreseen(o)'
    <3> SUFFICES ASSUME NEW o \in InTransaction'
                 PROVE  o \in InTransaction /\ Foreseen(o)'
      OBVIOUS
    <3>1. o \in Reqs /\ o \in InTransaction /\ Foreseen(o)
      BY <2>1 DEF InTransaction, RInv
    <3> QED
      BY <2>1, <2>2, <2>3, <3>1 DEF Foreseen
  <2>5. WritersEnded'
    BY <2>1 DEF RInv, WritersEnded, Given
  <2>6. Mutual' /\ Begun' /\ FailedEnded'
    BY <2>1, <2>4 DEF RInv, Mutual, Begun, FailedEnded
  <2>7. FailureHadRival'
    BY <2>1, <2>2, <2>3 DEF RInv, FailureHadRival, Rival
  <2> QED
    BY <2>4, <2>5, <2>6, <2>7 DEF RInv
<1> QED
  BY <1>1, <1>2, <1>3 DEF FNext

LEMMA RacesAlways == FSpec => []RInv
<1>1. FInit => IInv /\ RInv
  BY InitIsTyped, InitHasNoRaces
<1>2. (IInv /\ RInv) /\ [FNext]_fvars => (IInv /\ RInv)'
  BY NextKeepsIInv, NextKeepsRaces
<1> QED
  BY <1>1, <1>2, PTL DEF FSpec

LEMMA ClashIsCommitted ==
  ASSUME IInv, RInv, [FNext]_fvars, NEW l \in Live', NEW m \in Live', l # m,
         lists'[l] # lists[l], Lower(lists'[l]) = Lower(lists'[m])
  PROVE  req[writer'[l]].op \in Imports \/ writer[m] \in beside[writer'[l]]
<1>1. \E r \in Reqs : Commit(r)
  BY DEF FNext, Handle, Look, Wipe, Choose, Flush, Ask, fvars
<1> QED
  BY <1>1, CommitClash

\* favorites.py create_list, update_list: a list gets a name that differs from another's in its
\* case only by an import, or if the requests that named them overlapped, with any number of
\* requests, threads and connections.
THEOREM ServerClashHadCause == WSpec => ClashHadCause
<1>1. IInv /\ RInv /\ [FNext]_fvars =>
        [\A l, m \in Live' :
           l # m /\ lists'[l] # lists[l] /\ Lower(lists'[l]) = Lower(lists'[m]) =>
             req[writer'[l]].op \in Imports \/ writer[m] \in beside[writer'[l]]]_fvars
  BY ClashIsCommitted
<1>2. FSpec => []IInv
  BY InitIsTyped, NextKeepsIInv, PTL DEF FSpec
<1>3. FSpec => ClashHadCause
  BY <1>1, <1>2, RacesAlways, PTL DEF FSpec, ClashHadCause
<1> QED
  BY <1>3, WorkersAreFavorites, PTL

\* favorites.py: nobody who is alone is answered 500, whatever came before.
THEOREM ServerFailureHadRival == WSpec => []FailureHadRival
<1>1. RInv => FailureHadRival
  BY DEF RInv
<1> QED
  BY <1>1, WorkersAreFavorites, RacesAlways, PTL

-----------------------------------------------------------------------------
(***************************************************************************)
(* Threads and connections.  A request that holds rows has begun and has a *)
(* connection (Placed), so whoever blocks a request with a connection has  *)
(* one, too, and the reason why nobody moves is found by going from one to *)
(* the next.                                                               *)
(***************************************************************************)

\* How far a request is, and where.
PlacedAt(r) ==
  /\ place[r] = "off" => req[r].stage = "idle"
  /\ place[r] \in {"arrived", "auth", "ready", "refused", "ai"} => req[r].stage = "sent"
  /\ place[r] = "ai" => req[r].op = "scan"
  /\ place[r] = "loop" => req[r].op \in Imports
  /\ place[r] = "body" => req[r].op \notin {"scan"} \cup Imports
  /\ place[r] = "leaving" => HasAnswer(r)
  /\ place[r] = "gone" => req[r].stage = "over"

Placed ==
  /\ \A r \in Reqs : PlacedAt(r)
  /\ \A r, o \in At({"loop"}) : r = o

WInv == WTypeOK /\ Placed

\* The places that count: those with a thread, those with a connection.
Threads == {"auth", "body"}
Connections == {"ready", "body", "loop", "ai", "leaving"}

LEMMA AtIsFinite ==
  ASSUME NEW S
  PROVE  IsFiniteSet(At(S)) /\ Cardinality(At(S)) \in Nat
<1>1. IsFiniteSet(Reqs) /\ At(S) \in SUBSET Reqs
  BY FavoritesAssumption, FS_Interval DEF Reqs, At
<1>2. IsFiniteSet(At(S))
  BY <1>1, FS_Subset
<1> QED
  BY <1>2, FS_CardinalityType

\* Who goes to a place that counts was counted already, or there was room.
LEMMA RoomIsKept ==
  ASSUME place \in [Reqs -> Places], NEW r \in Reqs, NEW p \in Places, Go(r, p),
         NEW S, NEW n \in Nat, Cardinality(At(S)) <= n,
         p \in S => place[r] \in S \/ Cardinality(At(S)) < n
  PROVE  Cardinality(At(S)') <= n
<1>1. At(S)' = IF p \in S THEN At(S) \cup {r} ELSE At(S) \ {r}
  BY DEF Go, At
<1>2. IsFiniteSet(At(S)) /\ Cardinality(At(S)) \in Nat
  BY AtIsFinite
<1>3. CASE p \in S
  <2>1. Cardinality(At(S) \cup {r})
          = IF r \in At(S) THEN Cardinality(At(S)) ELSE Cardinality(At(S)) + 1
    BY <1>2, FS_AddElement
  <2>2. r \in At(S) <=> place[r] \in S
    BY DEF At
  <2> QED
    BY <1>1, <1>2, <1>3, <2>1, <2>2
<1>4. CASE p \notin S
  <2>1. Cardinality(At(S) \ {r})
          = IF r \in At(S) THEN Cardinality(At(S)) - 1 ELSE Cardinality(At(S))
    BY <1>2, FS_RemoveElement
  <2> QED
    BY <1>1, <1>2, <1>4, <2>1
<1> QED
  BY <1>3, <1>4

\* A step of Workers counts threads and connections right.
LEMMA GoKeepsRoom ==
  ASSUME WTypeOK, TypeOK', NEW r \in Reqs, NEW p \in Places, Go(r, p), UNCHANGED size,
         p \in Threads => place[r] \in Threads \/ ThreadIsFree,
         p \in Connections => place[r] \in Connections \/ Cardinality(Connected) < size.pool
  PROVE  WTypeOK'
<1>1. place' \in [Reqs -> Places]
  BY DEF WTypeOK, Go
<1>2. size.threads \in Nat /\ size.pool \in Nat
  BY DEF WTypeOK
<1>3. Cardinality(At(Threads)') <= size.threads
  BY <1>2, RoomIsKept DEF WTypeOK, ThreadIsFree, Threads
<1>4. Cardinality(At(Connections)') <= size.pool
  BY <1>2, RoomIsKept DEF WTypeOK, Connected, Connections
<1> QED
  BY <1>1, <1>3, <1>4 DEF WTypeOK, Threads, Connected, Connections

\* Who is elsewhere stays as it was.
LEMMA OthersStayPlaced ==
  ASSUME WInv, WTypeOK', NEW r \in Reqs,
         \A o \in Reqs \ {r} : req'[o] = req[o] /\ place'[o] = place[o],
         PlacedAt(r)', place'[r] = "loop" => place[r] = "loop" \/ LoopIsFree
  PROVE  WInv'
<1>1. ASSUME NEW o \in Reqs
      PROVE  PlacedAt(o)'
  BY DEF WInv, Placed, PlacedAt, HasAnswer
<1>2. ASSUME NEW o \in At({"loop"})', NEW x \in At({"loop"})'
      PROVE  o = x
  BY DEF WInv, Placed, At, LoopIsFree
<1> QED
  BY <1>1, <1>2 DEF WInv, Placed

LEMMA RunKeepsWInv ==
  ASSUME IInv, IInv', WInv, NEW r \in Reqs, Run(r)
  PROVE  WInv'
<1> DEFINE q == req[r]
<1>1. /\ TypeOK /\ TypeOK' /\ req \in [Reqs -> Request] /\ q \in Request
      /\ place \in [Reqs -> Places] /\ PlacedAt(r)
  BY DEF IInv, FTyped, WInv, Placed, WTypeOK, TypeOK
<1>2. ASSUME NEW p \in Places, Go(r, p), Stay, UNCHANGED size,
             p \in Threads => place[r] \in Threads \/ ThreadIsFree,
             p \in Connections => place[r] \in Connections \/ Cardinality(Connected) < size.pool,
             p = "loop" => LoopIsFree,
             PlacedAt(r)'
      PROVE  WInv'
  <2>1. WTypeOK'
    BY <1>1, <1>2, GoKeepsRoom DEF WInv
  <2>2. req' = req /\ place' = [place EXCEPT ![r] = p]
    BY <1>2 DEF Stay, fvars, Go
  <2> QED
    BY <1>1, <1>2, <2>1, <2>2, OthersStayPlaced
<1>3. CASE Enter(r)
  BY <1>1, <1>2, <1>3 DEF Enter, Go, Stay, fvars, PlacedAt, HasAnswer, Places, Threads, Connections
<1>4. CASE Connect(r)
  BY <1>1, <1>2, <1>4 DEF Connect, Go, Stay, fvars, PlacedAt, HasAnswer, Places, Threads, Connections
<1>5. CASE Dispatch(r)
  <2>1. Where(r) \in {"body", "loop", "ai"}
    BY DEF Where
  <2>2. PlacedAt(r)'
    BY <1>1, <1>5, <2>1 DEF Dispatch, Where, Go, Stay, fvars, PlacedAt, Imports
  <2> QED
    BY <1>1, <1>2, <1>5, <2>1, <2>2 DEF Dispatch, Places, Threads, Connections
<1>6. CASE Return(r)
  BY <1>1, <1>2, <1>6 DEF Return, Go, Stay, fvars, PlacedAt, HasAnswer, Places, Threads, Connections
<1>7. CASE GiveUp(r)
  BY <1>1, <1>2, <1>7 DEF GiveUp, Go, Stay, fvars, PlacedAt, HasAnswer, Places, Threads, Connections
<1>8. CASE Work(r)
  <2>1. /\ place' = place /\ size' = size /\ place[r] \in {"body", "loop"}
        /\ \A o \in Reqs \ {r} : req'[o] = req[o]
        /\ req'[r].op = q.op
    BY <1>1, <1>8 DEF Work, Look, Wipe, Choose, Flush, Request
  <2>2. WTypeOK'
    BY <1>1, <2>1 DEF WInv, WTypeOK, At, Connected
  <2> QED
    BY <1>1, <2>1, <2>2, OthersStayPlaced DEF PlacedAt
<1>9. CASE Resume(r)
  <2>1. /\ Go(r, "leaving") /\ place[r] = "ai" /\ size' = size /\ q.op = "scan"
    BY <1>1, <1>9 DEF Resume, PlacedAt
  <2>2. Verdict(q) = "ok"
    BY <2>1 DEF Verdict, Missing, Clash, Satisfied
  <2>3. req' = [req EXCEPT ![r].answer = "ok", ![r].found = Found(q), ![r].stage = "over"]
    BY <1>9, <2>2 DEF Resume, Look
  <2>4. WTypeOK'
    BY <1>1, <2>1, GoKeepsRoom DEF WInv, Places, Threads, Connections
  <2> QED
    BY <1>1, <2>1, <2>3, <2>4, OthersStayPlaced DEF PlacedAt, HasAnswer, Go, Request
<1>10. CASE Leave(r)
  <2>1. Go(r, "gone") /\ place[r] = "leaving" /\ size' = size
    BY <1>10 DEF Leave
  <2>2. /\ req'[r].stage = "over" /\ \A o \in Reqs \ {r} : req'[o] = req[o]
    BY <1>1, <1>10, <2>1 DEF Leave, Commit, Stay, fvars, PlacedAt, HasAnswer, Request
  <2>3. WTypeOK'
    BY <1>1, <2>1, GoKeepsRoom DEF WInv, Places, Threads, Connections
  <2> QED
    BY <1>1, <2>1, <2>2, <2>3, OthersStayPlaced DEF PlacedAt, Go
<1> QED
  BY <1>3, <1>4, <1>5, <1>6, <1>7, <1>8, <1>9, <1>10 DEF Run

LEMMA ArriveKeepsWInv ==
  ASSUME IInv, IInv', WInv, NEW r \in Reqs, NEW q \in Inputs(r), Arrive(r, q)
  PROVE  WInv'
<1>1. Go(r, "arrived") /\ size' = size /\ req' = [req EXCEPT ![r] = q] /\ q.stage = "sent"
  BY InputsFit DEF Arrive, Ask
<1>2. TypeOK' /\ req \in [Reqs -> Request] /\ place \in [Reqs -> Places]
  BY DEF IInv, FTyped, TypeOK, WInv, WTypeOK
<1>3. WTypeOK'
  BY <1>1, <1>2, GoKeepsRoom DEF WInv, Places, Threads, Connections
<1> QED
  BY <1>1, <1>2, <1>3, OthersStayPlaced DEF PlacedAt, Go

LEMMA InitIsPlaced == WInit => WInv
<1> SUFFICES ASSUME WInit PROVE WInv
  OBVIOUS
<1>1. TypeOK /\ \A r \in Reqs : req[r].stage = "idle" /\ place[r] = "off"
  BY InitIsTyped DEF WInit, FInit, Idle, Sent, IInv, FTyped
<1>2. At({"auth", "body"}) = {} /\ Connected = {} /\ At({"loop"}) = {}
  BY <1>1 DEF At, Connected
<1>3. size.threads >= 0 /\ size.pool >= 0 /\ place \in [Reqs -> Places]
  BY DEF WInit, Places
<1>4. WTypeOK
  BY <1>1, <1>2, <1>3, FS_EmptySet DEF WInit, WTypeOK
<1> QED
  BY <1>1, <1>2, <1>4 DEF WInv, Placed, PlacedAt

LEMMA NextKeepsWInv == IInv /\ IInv' /\ WInv /\ [WNext]_wvars => WInv'
<1> SUFFICES ASSUME IInv, IInv', WInv, [WNext]_wvars PROVE WInv'
  OBVIOUS
<1>1. CASE UNCHANGED wvars
  BY <1>1 DEF wvars, fvars, WInv, WTypeOK, TypeOK, Placed, PlacedAt, HasAnswer, At, Connected
<1> QED
  BY <1>1, RunKeepsWInv, ArriveKeepsWInv DEF WNext

LEMMA WInvHolds == WSpec => [](IInv /\ WInv)
<1>1. WInit => IInv /\ WInv
  BY InitIsTyped, InitIsPlaced DEF WInit
<1>2. FSpec => []IInv
  BY InitIsTyped, NextKeepsIInv, PTL DEF FSpec
<1> QED
  BY <1>1, <1>2, NextKeepsWInv, WorkersAreFavorites, PTL DEF WSpec

\* db.py, favorites.py: whatever the number of threads and connections, no thread and no
\* connection serves two requests.
THEOREM PoolsAreNotOverdrawn == WSpec => []WTypeOK
BY WInvHolds, PTL DEF WInv

\* Who holds rows is in a handler or on its way out.
LEMMA HoldersAreConnected ==
  ASSUME IInv, WInv, NEW r \in Reqs, Holds(req[r])
  PROVE  place[r] \in {"body", "loop", "leaving"}
BY DEF Holds, WInv, WTypeOK, Places, Placed, PlacedAt

\* If nobody who has a connection moves, and nobody waits for the AI services, the loop
\* waits for a lock or the threads for connections.
LEMMA NobodyMoves ==
  ASSUME IInv, WInv, At({"ai"}) = {}, Connected # {}, \A o \in Connected : ~Moves(o)
  PROVE  Starved \/ Stalled
<1> SUFFICES ASSUME ~Stalled PROVE Starved
  OBVIOUS
<1>1. \A o \in Connected : o \in Reqs /\ place[o] \in {"ready", "body", "loop"}
  BY DEF Connected, At, Moves
<1>2. \A o \in Reqs : Holds(req[o]) => o \in Connected /\ place[o] \in {"body", "loop"}
  BY <1>1, HoldersAreConnected DEF Connected, At
<1>3. ASSUME NEW r \in At({"body", "loop"}), ~HasAnswer(r)
      PROVE  \E o \in Reqs \ {r} : /\ Blocked(r) /\ Holds(req[o]) /\ Collide(req[o], req[r])
                                   /\ place[o] \in {"body", "loop"}
  <2>1. r \in Connected /\ Blocked(r)
    BY <1>3 DEF Connected, At, Moves
  <2> QED
    BY <1>2, <2>1 DEF Blocked, Waits
<1>4. LoopIsFree
  <2> SUFFICES ASSUME NEW r \in At({"loop"}) PROVE FALSE
    BY DEF LoopIsFree
  <2>1. ~HasAnswer(r) /\ r \in At({"body", "loop"})
    BY DEF Connected, At, Moves
  <2>2. PICK o \in Reqs \ {r} : /\ Blocked(r) /\ Holds(req[o]) /\ Collide(req[o], req[r])
                                /\ place[o] \in {"body", "loop"}
    BY <1>3, <2>1
  <2>3. o \in At({"body"})
    BY <2>2 DEF WInv, Placed, At
  <2> QED
    BY <2>2, <2>3 DEF Stalled
<1>5. At({"body"}) = {}
  <2> SUFFICES ASSUME NEW r \in At({"body"}) PROVE FALSE
    OBVIOUS
  <2>1. \A o \in At({"body"}) : ~HasAnswer(o) /\ o \in At({"body", "loop"})
    BY <1>4 DEF Connected, At, Moves
  <2>2. PICK o \in Reqs : Holds(req[o]) /\ place[o] \in {"body", "loop"}
    BY <1>3, <2>1
  <2>3. o \in At({"body"})
    BY <1>4, <2>2 DEF At, LoopIsFree
  <2>4. Fits(req[o], o) /\ req[o].op \notin Imports
    BY <2>2, <2>3 DEF IInv, FTyped, WInv, Placed, PlacedAt, At, Holds
  <2>5. HasAnswer(o)
    BY <2>2, <2>4 DEF Holds, Fits, HasAnswer, Imports
  <2> QED
    BY <2>1, <2>3, <2>5
<1>6. PICK r \in At({"ready"}) : r \in Connected
  BY <1>1, <1>4, <1>5 DEF At, LoopIsFree
<1>7. Where(r) = "body" /\ ~ThreadIsFree
  BY <1>4, <1>6 DEF At, Moves
<1> QED
  BY <1>5, <1>6, <1>7 DEF Starved

LEMMA RefusalIsLast ==
  ASSUME IInv, WInv, [WNext]_wvars, NEW r \in Reqs, place[r] # "refused", place'[r] = "refused"
  PROVE  At({"ai"}) # {} \/ Starved \/ Stalled
<1>1. place \in [Reqs -> Places]
  BY DEF WInv, WTypeOK
<1>2. ASSUME NEW o \in Reqs, Run(o)
      PROVE  o = r /\ GiveUp(o)
  <2>1. place'[r] # place[r] /\ place'[r] = "refused"
    OBVIOUS
  <2> QED
    BY <1>1, <1>2, <2>1 DEF Run, Enter, Connect, Dispatch, Where, Work, Return, Resume, Leave,
                            GiveUp, Go
<1>3. ASSUME NEW o \in Reqs, NEW q \in Inputs(o), Arrive(o, q)
      PROVE  FALSE
  BY <1>1, <1>3 DEF Arrive, Go
<1>4. GiveUp(r)
  BY <1>2, <1>3 DEF WNext, wvars
<1>5. Connected # {}
  BY <1>4, FS_EmptySet DEF GiveUp, WInv, WTypeOK
<1> QED
  BY <1>4, <1>5, NobodyMoves DEF GiveUp

\* db.py create_engine, deps.py current_user: whatever the number of threads and connections, a
\* request is refused for want of a connection only while a scan waits for the AI services with
\* one in its hands, the threads are starved, or an import has stopped the loop.
THEOREM RefusalsHaveCause == WSpec => RefusalHasCause
<1>1. IInv /\ WInv /\ [WNext]_wvars =>
        [\A r \in Reqs : place[r] # "refused" /\ place'[r] = "refused" =>
           At({"ai"}) # {} \/ Starved \/ Stalled]_wvars
  BY RefusalIsLast
<1> QED
  BY <1>1, WInvHolds, PTL DEF WSpec, RefusalHasCause
=============================================================================
