---------------------------- MODULE BrowseProofs ----------------------------
(***************************************************************************)
(* Proofs about Browse: once nothing is on its way and no refresh was      *)
(* missed, the cards are the newest wines of the database that match, none *)
(* twice, none skipped, none outdated, and "Load more" continues right     *)
(* after them.  search_wines orders the wines by counting the newer ones;  *)
(* that this lists each of them once is NewerCounts and MatchingListsHits. *)
(*                                                                         *)
(* Both need to know what a page in flight will become.  The view is fresh *)
(* while the database is as the last load from the top will find it.  Then *)
(* either the cards are in step with the database (InStep), or a load from *)
(* the top will replace them; and a page to be appended starts where the   *)
(* cards end.                                                              *)
(***************************************************************************)
EXTENDS Browse, FiniteSetTheorems, SequenceTheorems, TLAPS

\* Nothing was stored that no load from the top is to fetch.
Fresh == missed = "none" /\ ~(saving # None /\ saving.done /\ saving.fresh)

\* The cards are the first wines that match, and the offset is their number.
InStep ==
  /\ Len(shown) <= Len(Matching(filter))
  /\ shown = SubSeq(Matching(filter), 1, Len(shown))
  /\ more = (Len(shown) < Len(Matching(filter)))
  /\ offset = Len(shown)

\* The answer, if it is there, is the page of the database as it is now.
Accurate ==
  query.answer = "page" => /\ query.items = Page(query)
                           /\ query.total = Len(Matching(query.filter))

\* What is asked for continues the cards, or replaces them from the top.
OnTheWay ==
  /\ query.filter = filter /\ query.offset = offset
  /\ IF query.append THEN InStep ELSE offset = 0
  /\ Accurate

\* The types of a request in flight.
Asked ==
  /\ query.append \in BOOLEAN /\ query.answer \in {"none", "page", "error"}
  /\ query.offset \in Nat /\ query.limit \in Nat /\ Len(query.items) \in Nat

\* The invariant: the types, and what the page shows and asks for while fresh.
ListInv ==
  /\ offset \in Nat /\ loading \in BOOLEAN /\ missed \in Causes
  /\ saving \in Write \cup {None}
  /\ IF loading THEN Asked ELSE query = None
  /\ Fresh => IF loading THEN OnTheWay ELSE InStep

-----------------------------------------------------------------------------
\* Min and Max of two numbers.
LEMMA TwoNumbers ==
  ASSUME NEW a \in Nat, NEW b \in Nat
  PROVE  /\ Min({a, b}) = IF a <= b THEN a ELSE b
         /\ Max({a, b}) \in Nat
<1>1. /\ \E x \in {a, b} : \A y \in {a, b} : x =< y
      /\ \E x \in {a, b} : \A y \in {a, b} : x >= y
  OBVIOUS
<1>2. Min({a, b}) \in {a, b} /\ \A y \in {a, b} : Min({a, b}) =< y
  BY <1>1 DEF Min
<1>3. Max({a, b}) \in {a, b}
  BY <1>1 DEF Max
<1> QED BY <1>2, <1>3

\* The wines that match are finitely many.
LEMMA HitsAreFinite ==
  ASSUME NEW f
  PROVE  IsFiniteSet(Hits(f)) /\ Cardinality(Hits(f)) \in Nat
<1>1. IsFiniteSet(Wines)
  BY BrowseAssumption, FS_Interval DEF Wines
<1>2. IsFiniteSet(Hits(f))
  BY <1>1, FS_Subset DEF Hits
<1> QED BY <1>2, FS_CardinalityType

\* The members of H that are newer than w.
Newer(H, w) == {v \in H : v > w}

\* As many numbers as there are from 0 to n - 1.
LEMMA NumbersBelow ==
  ASSUME NEW n \in Nat
  PROVE  IsFiniteSet(0..n - 1) /\ Cardinality(0..n - 1) = n
<1> DEFINE m == n - 1
<1>1. m \in Int /\ m + 1 = n /\ (0 > m <=> n = 0)
  OBVIOUS
<1>2. IsFiniteSet(0..m) /\ Cardinality(0..m) = IF 0 > m THEN 0 ELSE m - 0 + 1
  <2> HIDE DEF m
  <2> QED BY <1>1, FS_Interval
<1> QED BY <1>1, <1>2

\* Counting the newer ones numbers a finite set from its newest on: every number
\* below its size is the count of exactly one member, and an older one counts more.
LEMMA NewerCounts ==
  ASSUME NEW H, H \subseteq Nat, IsFiniteSet(H), NEW n, n = Cardinality(H)
  PROVE  /\ \A w \in H : Cardinality(Newer(H, w)) \in 0..n - 1
         /\ \A w, v \in H : w < v => Cardinality(Newer(H, v)) < Cardinality(Newer(H, w))
         /\ \A y \in 0..n - 1 : \E w \in H : Cardinality(Newer(H, w)) = y
<1> DEFINE rank == [w \in H |-> Cardinality(Newer(H, w))]
<1>1. n \in Nat
  BY FS_CardinalityType
<1>2. ASSUME NEW w \in H
      PROVE  IsFiniteSet(Newer(H, w)) /\ Cardinality(Newer(H, w)) \in 0..n - 1
  <2>1. Newer(H, w) \subseteq H /\ w \notin Newer(H, w)
    BY DEF Newer
  <2>2. /\ IsFiniteSet(Newer(H, w)) /\ Cardinality(Newer(H, w)) <= n
        /\ Cardinality(Newer(H, w)) = n => Newer(H, w) = H
    BY <2>1, FS_Subset
  <2>3. Cardinality(Newer(H, w)) \in Nat /\ Cardinality(Newer(H, w)) # n
    BY <2>1, <2>2, FS_CardinalityType
  <2> QED BY <1>1, <2>2, <2>3
<1>3. ASSUME NEW w \in H, NEW v \in H, w < v
      PROVE  Cardinality(Newer(H, v)) < Cardinality(Newer(H, w))
  <2>1. Newer(H, v) \subseteq Newer(H, w) /\ v \in Newer(H, w) /\ v \notin Newer(H, v)
    <3>1. w \in Nat /\ v \in Nat
      OBVIOUS
    <3>2. \A u \in H : u > v => u > w
      <4> SUFFICES ASSUME NEW u \in H, u > v PROVE u > w
        OBVIOUS
      <4>1. u \in Nat
        OBVIOUS
      <4> QED BY <1>3, <3>1, <4>1
    <3>3. v > w /\ ~ v > v
      BY <1>3, <3>1
    <3> QED BY <3>2, <3>3 DEF Newer
  <2>2. IsFiniteSet(Newer(H, w))
    BY <1>2
  <2>3. /\ Cardinality(Newer(H, v)) <= Cardinality(Newer(H, w))
        /\ Cardinality(Newer(H, v)) # Cardinality(Newer(H, w))
    BY <2>1, <2>2, FS_Subset
  <2>4. Cardinality(Newer(H, v)) \in Int /\ Cardinality(Newer(H, w)) \in Int
    BY <1>1, <1>2
  <2> QED BY <2>3, <2>4
<1>4. rank \in Injection(H, 0..n - 1)
  <2>1. rank \in [H -> 0..n - 1]
    BY <1>2
  <2>2. ASSUME NEW w \in H, NEW v \in H, rank[w] = rank[v] PROVE w = v
    <3>1. Cardinality(Newer(H, w)) = Cardinality(Newer(H, v))
      BY <2>2
    <3>2. Cardinality(Newer(H, w)) \in Int /\ Cardinality(Newer(H, v)) \in Int
      BY <1>1, <1>2
    <3>3. ~ w < v /\ ~ v < w
      BY <1>3, <3>1, <3>2
    <3> QED BY <3>3
  <2> HIDE DEF rank
  <2> QED BY <2>1, <2>2 DEF Injection, IsInjective
<1>5. rank \in Surjection(H, 0..n - 1)
  <2>1. IsFiniteSet(0..n - 1) /\ Cardinality(0..n - 1) = n
    BY <1>1, NumbersBelow
  <2> HIDE DEF rank
  <2> QED BY <1>4, <2>1, FS_Injection
<1>6. ASSUME NEW y \in 0..n - 1
      PROVE  \E w \in H : Cardinality(Newer(H, w)) = y
  <2>1. PICK w \in H : rank[w] = y
    <3> HIDE DEF rank
    <3> QED BY <1>5 DEF Surjection
  <2> QED BY <2>1
<1> QED BY <1>2, <1>3, <1>6

\* search_wines answers with every wine that matches, as it is, newest first.
LEMMA MatchingListsHits ==
  ASSUME NEW f
  PROVE  /\ Matching(f) \in Seq({[wine |-> w, kind |-> db[w]] : w \in Hits(f)})
         /\ Len(Matching(f)) \in Nat
         /\ \A i \in 1..Len(Matching(f)) :
               Matching(f)[i].wine \in Hits(f) /\ Matching(f)[i].kind = db[Matching(f)[i].wine]
         /\ \A i, j \in 1..Len(Matching(f)) :
               i < j => Matching(f)[i].wine > Matching(f)[j].wine
         /\ \A w \in Hits(f) : \E i \in 1..Len(Matching(f)) : Matching(f)[i].wine = w
<1> DEFINE H == Hits(f)
           n == Cardinality(H)
           at(i) == CHOOSE w \in H : Cardinality(Newer(H, w)) = i - 1
           card(i) == [wine |-> at(i), kind |-> db[at(i)]]
           all == [i \in 1..n |-> card(i)]
           S == {[wine |-> w, kind |-> db[w]] : w \in H}
<1>1. IsFiniteSet(H) /\ n \in Nat /\ H \subseteq Nat
  <2>1. Wines \subseteq Nat
    BY BrowseAssumption DEF Wines
  <2>2. Hits(f) \subseteq Wines
    BY DEF Hits
  <2> QED BY <2>1, <2>2, HitsAreFinite
<1>2. Matching(f) = all
  BY DEF Matching, Newer
<1>3. ASSUME NEW i \in 1..n
      PROVE  at(i) \in H /\ Cardinality(Newer(H, at(i))) = i - 1
  <2>1. i - 1 \in 0..n - 1
    BY <1>1
  <2>2. \E w \in H : Cardinality(Newer(H, w)) = i - 1
    <3> HIDE DEF H, n
    <3> QED BY <1>1, <2>1, NewerCounts DEF n
  <2> HIDE DEF H, n
  <2> QED BY <2>2
<1> HIDE DEF H, at
<1>4. ASSUME NEW i \in 1..n, NEW j \in 1..n, i < j
      PROVE  at(i) > at(j)
  <2>1. at(i) \in H /\ at(j) \in H /\ at(i) \in Nat /\ at(j) \in Nat
    BY <1>1, <1>3
  <2>2. Cardinality(Newer(H, at(i))) = i - 1 /\ Cardinality(Newer(H, at(j))) = j - 1
    BY <1>3
  <2>3. at(i) # at(j) /\ ~ at(i) < at(j)
    <3>1. at(i) < at(j) => Cardinality(Newer(H, at(j))) < Cardinality(Newer(H, at(i)))
      BY <1>1, <2>1, NewerCounts
    <3>2. i \in Int /\ j \in Int /\ ~ j - 1 < i - 1 /\ i - 1 # j - 1
      BY <1>1, <1>4
    <3> QED BY <3>1, <3>2, <2>2
  <2> QED BY <2>1, <2>3
<1>5. ASSUME NEW w \in H
      PROVE  \E i \in 1..n : at(i) = w
  <2>1. Cardinality(Newer(H, w)) \in 0..n - 1
    BY <1>1, NewerCounts
  <2>2. PICK i \in 1..n : Cardinality(Newer(H, w)) = i - 1
    <3>1. Cardinality(Newer(H, w)) + 1 \in 1..n
      BY <1>1, <2>1
    <3>2. Cardinality(Newer(H, w)) = (Cardinality(Newer(H, w)) + 1) - 1
      BY <1>1, <2>1
    <3> QED BY <3>1, <3>2
  <2>3. at(i) \in H /\ Cardinality(Newer(H, at(i))) = Cardinality(Newer(H, w))
    BY <1>3, <2>2
  <2>4. ~ at(i) < w /\ ~ w < at(i)
    <3>1. /\ at(i) < w => Cardinality(Newer(H, w)) < Cardinality(Newer(H, at(i)))
          /\ w < at(i) => Cardinality(Newer(H, at(i))) < Cardinality(Newer(H, w))
      BY <1>1, <2>3, NewerCounts
    <3>2. Cardinality(Newer(H, w)) \in Int
      BY <1>1, <2>1
    <3> QED BY <2>3, <3>1, <3>2
  <2>5. w \in Nat /\ at(i) \in Nat
    BY <1>1, <2>3
  <2> QED BY <2>2, <2>4, <2>5
<1>6. \A i \in 1..n : all[i].wine = at(i) /\ all[i].kind = db[at(i)]
  OBVIOUS
<1>7. \A i \in 1..n : card(i) \in S
  BY <1>3
<1> HIDE DEF n, card, S
<1>8. all \in Seq(S)
  BY <1>1, <1>7
<1>9. Len(all) = n
  BY <1>1, <1>8, LenProperties
<1> HIDE DEF all
<1> QED
  <2>1. Matching(f) \in Seq(S) /\ Len(Matching(f)) = n
    BY <1>2, <1>8, <1>9
  <2>2. \A i \in 1..n : Matching(f)[i].wine \in Hits(f)
                        /\ Matching(f)[i].kind = db[Matching(f)[i].wine]
    BY <1>2, <1>3, <1>6 DEF H
  <2>3. \A i, j \in 1..n : i < j => Matching(f)[i].wine > Matching(f)[j].wine
    BY <1>2, <1>4, <1>6
  <2>4. \A w \in Hits(f) : \E i \in 1..n : Matching(f)[i].wine = w
    BY <1>2, <1>5, <1>6 DEF H
  <2> QED BY <1>1, <2>1, <2>2, <2>3, <2>4 DEF S, H

\* So the answer is a sequence.
LEMMA MatchingIsSeq ==
  ASSUME NEW f
  PROVE  /\ Len(Matching(f)) \in Nat
         /\ \E S : Matching(f) \in Seq(S)
BY MatchingListsHits

\* So is a page of it, wherever it starts.
LEMMA PageLen ==
  ASSUME NEW q, q.offset \in Nat, q.limit \in Nat
  PROVE  Len(Page(q)) \in Nat
<1> DEFINE all == Matching(q.filter)
           n   == Min({q.offset + q.limit, Len(all)})
<1>1. PICK S : all \in Seq(S)
  BY MatchingIsSeq
<1>2. Len(all) \in Nat
  BY MatchingIsSeq
<1>3. n \in 0..Len(all)
  <2>1. q.offset + q.limit \in Nat
    OBVIOUS
  <2> QED BY <2>1, <1>2, TwoNumbers
<1>4. \A i \in (q.offset + 1)..n : all[i] \in S
  <2>1. \A i \in (q.offset + 1)..n : i \in 1..Len(all)
    BY <1>2, <1>3
  <2> QED BY <2>1, <1>1, ElementOfSeq
<1> HIDE DEF all, n
<1>5. Len(SubSeq(all, q.offset + 1, n)) = IF q.offset + 1 <= n THEN n - (q.offset + 1) + 1 ELSE 0
  BY <1>3, <1>2, <1>4, SubSeqProperties
<1>6. Page(q) = SubSeq(all, q.offset + 1, n)
  BY DEF Page, all, n
<1> QED BY <1>5, <1>6, <1>3, <1>2

\* A page that starts where a prefix ends prolongs it; one from the top is one.
LEMMA PageProlongs ==
  ASSUME NEW q, q.offset \in Nat, q.limit \in Nat,
         q.offset <= Len(Matching(q.filter))
  PROVE  LET all == Matching(q.filter)
             to  == q.offset + Len(Page(q))
         IN  /\ Len(Page(q)) \in Nat
             /\ to <= Len(all)
             /\ SubSeq(all, 1, q.offset) \o Page(q) = SubSeq(all, 1, to)
             /\ q.offset = 0 => Page(q) = SubSeq(all, 1, to)
<1> DEFINE all == Matching(q.filter)
           len == Len(all)
           k   == q.offset
           n   == IF k + q.limit <= len THEN k + q.limit ELSE len
<1>1. PICK S : all \in Seq(S)
  BY MatchingIsSeq
<1>2. len \in Nat /\ k \in Nat /\ k <= len
  BY MatchingIsSeq
<1>3. /\ n \in k..len
      /\ Page(q) = SubSeq(all, k + 1, n)
  <2>1. Min({k + q.limit, len}) = n
    <3>1. k + q.limit \in Nat
      BY <1>2
    <3> QED BY <3>1, <1>2, TwoNumbers
  <2>2. Page(q) = SubSeq(all, k + 1, n)
    BY <2>1 DEF Page
  <2>3. n \in k..len
    BY <1>2
  <2> QED BY <2>2, <2>3
<1> HIDE DEF n, len, all
<1>4. \A i \in (k + 1)..n : all[i] \in S
  <2>1. DOMAIN all = 1..len /\ \A i \in 1..len : all[i] \in S
    BY <1>1, LenProperties, ElementOfSeq DEF len
  <2>2. \A i \in (k + 1)..n : i \in 1..len
    BY <1>2, <1>3
  <2> QED BY <2>1, <2>2
<1>5. Len(Page(q)) = n - k
  <2>1. k + 1 \in Int /\ n \in Int
    BY <1>2, <1>3
  <2>2. Len(SubSeq(all, k + 1, n)) = IF k + 1 <= n THEN n - (k + 1) + 1 ELSE 0
    BY <2>1, <1>4, SubSeqProperties
  <2> QED BY <2>2, <1>2, <1>3
<1>6. SubSeq(all, 1, k) \o SubSeq(all, k + 1, n) = SubSeq(all, 1, n)
  <2>1. 1 \in 1..Len(all) + 1 /\ k \in (1 - 1)..Len(all) /\ n \in k..Len(all)
    BY <1>2, <1>3 DEF len
  <2> QED BY <2>1, <1>1, ConcatAdjacentSubSeq
<1>7. k + Len(Page(q)) = n /\ Len(Page(q)) \in Nat /\ n <= len
  BY <1>5, <1>2, <1>3
<1>8. k = 0 => Page(q) = SubSeq(all, 1, n)
  BY <1>3
<1> QED BY <1>3, <1>6, <1>7, <1>8 DEF all, len

\* The first n of a sequence are n.
LEMMA PrefixLen ==
  ASSUME NEW f, NEW n \in Nat, n <= Len(Matching(f))
  PROVE  Len(SubSeq(Matching(f), 1, n)) = n
<1>1. PICK S : Matching(f) \in Seq(S)
  BY MatchingIsSeq
<1>2. Len(Matching(f)) \in Nat
  BY MatchingIsSeq
<1>3. \A i \in 1..n : Matching(f)[i] \in S
  BY <1>1, <1>2, ElementOfSeq
<1>4. Len(SubSeq(Matching(f), 1, n)) = IF 1 <= n THEN n - 1 + 1 ELSE 0
  BY <1>3, SubSeqProperties
<1> QED BY <1>4

-----------------------------------------------------------------------------
LEMMA ListInit == Init => ListInv
<1> SUFFICES ASSUME Init PROVE ListInv
  OBVIOUS
<1>1. OnTheWay
  BY BrowseAssumption DEF Init, OnTheWay, Accurate
<1>2. Asked
  <2>1. Len(<<>>) \in Nat
    OBVIOUS
  <2> QED BY <2>1, BrowseAssumption DEF Init, Asked
<1> QED BY <1>1, <1>2 DEF Init, ListInv, Causes

\* A load is sent from the top, when the page was idle: it will replace all.
LEMMA LoadFromTop ==
  ASSUME ListInv, NEW lim \in Nat, LoadWines(FALSE, filter', 0, lim),
         offset' = 0, missed' = IF loading THEN "lost" ELSE "none",
         saving' \in Write \cup {None}
  PROVE  ListInv'
<1>1. loading' = TRUE
  BY DEF LoadWines, ListInv
<1>2. CASE loading
  <2>1. query' = query
    BY <1>2 DEF LoadWines
  <2> QED BY <1>1, <1>2, <2>1 DEF ListInv, Fresh, Asked, Causes
<1>3. CASE ~loading
  <2>1. query' = [filter |-> filter', offset |-> 0, limit |-> lim, append |-> FALSE,
                  answer |-> "none", items |-> <<>>, total |-> 0]
    BY <1>3 DEF LoadWines
  <2>2. OnTheWay'
    BY <2>1 DEF OnTheWay, Accurate
  <2>3. Asked'
    <3>1. Len(<<>>) \in Nat
      OBVIOUS
    <3> QED BY <2>1, <3>1 DEF Asked
  <2> QED BY <1>1, <1>3, <2>2, <2>3 DEF ListInv, Fresh, Causes
<1> QED BY <1>2, <1>3 DEF ListInv

\* The same cards are in step as long as they, the filter and the wines stay.
LEMMA StillInStep ==
  ASSUME InStep, UNCHANGED <<db, filter, offset, shown, more>>
  PROVE  InStep'
<1>1. Matching(filter)' = Matching(filter)
  BY DEF Matching, Hits
<1> QED BY <1>1 DEF InStep

LEMMA StillOnTheWay ==
  ASSUME OnTheWay, UNCHANGED <<db, filter, offset, shown, more, query>>
  PROVE  OnTheWay'
<1>1. Matching(query.filter)' = Matching(query.filter)
  BY DEF Matching, Hits
<1>2. Page(query)' = Page(query)
  BY <1>1 DEF Page
<1>3. InStep => InStep'
  BY StillInStep
<1> QED BY <1>1, <1>2, <1>3 DEF OnTheWay, Accurate

LEMMA LoadMoreKeeps == ListInv /\ LoadMore => ListInv'
<1> SUFFICES ASSUME ListInv, LoadMore PROVE ListInv'
  OBVIOUS
<1>0. UNCHANGED <<db, filter, offset, shown, more, saving, missed>>
  BY DEF LoadMore
<1>1. CASE loading
  <2>1. UNCHANGED <<loading, query>>
    BY <1>1 DEF LoadMore, LoadWines
  <2>2. OnTheWay => OnTheWay'
    BY <2>1, <1>0, StillOnTheWay
  <2> QED BY <1>0, <1>1, <2>1, <2>2 DEF ListInv, Fresh, Asked
<1>2. CASE ~loading
  <2>1. /\ loading' = TRUE
        /\ query' = [filter |-> filter, offset |-> offset, limit |-> PageSize,
                     append |-> TRUE, answer |-> "none", items |-> <<>>, total |-> 0]
    BY <1>2 DEF LoadMore, LoadWines
  <2>2. InStep => InStep'
    BY <1>0, StillInStep
  <2>3. InStep => OnTheWay'
    BY <1>0, <2>1, <2>2, BrowseAssumption DEF OnTheWay, Accurate
  <2>4. Asked'
    <3>1. Len(<<>>) \in Nat
      OBVIOUS
    <3> QED BY <1>2, <2>1, <3>1, BrowseAssumption DEF Asked, ListInv
  <2> QED BY <1>0, <1>2, <2>1, <2>3, <2>4 DEF ListInv, Fresh
<1> QED BY <1>1, <1>2 DEF ListInv

LEMMA ServeKeeps == ListInv /\ Serve => ListInv'
<1> SUFFICES ASSUME ListInv, Serve PROVE ListInv'
  OBVIOUS
<1>0. UNCHANGED <<db, filter, offset, loading, shown, more, saving, missed>>
  BY DEF Serve
<1>1. loading
  BY DEF Serve, ListInv
<1>2. CASE query' = [query EXCEPT !.answer = "error"]
  <2>1. Asked'
    BY <1>1, <1>2 DEF ListInv, Asked
  <2>2. OnTheWay => OnTheWay'
    <3>1. InStep => InStep'
      BY <1>0, StillInStep
    <3> QED BY <1>0, <1>2, <3>1 DEF OnTheWay, Accurate
  <2> QED BY <1>0, <1>1, <1>2, <2>1, <2>2 DEF ListInv, Fresh
<1>3. CASE query' = [query EXCEPT !.answer = "page", !.items = Page(query),
                                  !.total = Len(Matching(query.filter))]
  <2>0. /\ query'.filter = query.filter /\ query'.offset = query.offset
        /\ query'.limit = query.limit /\ query'.append = query.append
        /\ query'.items = Page(query) /\ query'.total = Len(Matching(query.filter))
    BY <1>3
  <2>1. Asked'
    <3>1. query.offset \in Nat /\ query.limit \in Nat /\ query.append \in BOOLEAN
      BY <1>1 DEF ListInv, Asked
    <3>2. Len(Page(query)) \in Nat
      BY <3>1, PageLen
    <3> QED BY <1>3, <2>0, <3>1, <3>2 DEF Asked
  <2>2. Matching(query.filter)' = Matching(query.filter) /\ Page(query)' = Page(query)
    <3>1. Matching(query.filter)' = Matching(query.filter)
      BY <1>0, <2>0 DEF Matching, Hits
    <3> QED BY <3>1, <2>0 DEF Page
  <2>3. OnTheWay => OnTheWay'
    <3>1. InStep => InStep'
      BY <1>0, StillInStep
    <3> QED BY <1>0, <2>0, <2>2, <3>1 DEF OnTheWay, Accurate
  <2> QED BY <1>0, <1>1, <2>1, <2>3 DEF ListInv, Fresh
<1> QED BY <1>2, <1>3 DEF Serve

\* The cards that a page leaves behind are in step.
LEMMA PageIsInStep ==
  ASSUME ListInv, OnTheWay, Render, query.answer = "page"
  PROVE  InStep'
<1> DEFINE all == Matching(filter)
           to  == offset + Len(Page(query))
<1>1. /\ query.filter = filter /\ query.offset = offset /\ offset \in Nat
      /\ query.limit \in Nat /\ Len(all) \in Nat
      /\ offset <= Len(all)
  <2>1. loading
    BY DEF Render, ListInv
  <2>2. Len(all) \in Nat
    BY MatchingIsSeq
  <2>3. CASE query.append
    BY <2>1, <2>2, <2>3 DEF OnTheWay, ListInv, InStep, Asked
  <2>4. CASE ~query.append
    BY <2>1, <2>2, <2>4 DEF OnTheWay, ListInv, Asked
  <2> QED BY <2>3, <2>4
<1>2. /\ Len(Page(query)) \in Nat /\ to <= Len(all) /\ to \in Nat
      /\ SubSeq(all, 1, offset) \o Page(query) = SubSeq(all, 1, to)
      /\ offset = 0 => Page(query) = SubSeq(all, 1, to)
  <2>1. query.offset \in Nat /\ query.offset <= Len(Matching(query.filter))
    BY <1>1
  <2>2. LET whole == Matching(query.filter)
            end   == query.offset + Len(Page(query))
        IN  /\ Len(Page(query)) \in Nat
            /\ end <= Len(whole)
            /\ SubSeq(whole, 1, query.offset) \o Page(query) = SubSeq(whole, 1, end)
            /\ query.offset = 0 => Page(query) = SubSeq(whole, 1, end)
    BY <1>1, <2>1, PageProlongs
  <2>3. to = query.offset + Len(Page(query)) /\ all = Matching(query.filter)
    BY <1>1
  <2> QED BY <1>1, <2>2, <2>3
<1>3. query.items = Page(query) /\ query.total = Len(all)
  BY <1>1 DEF OnTheWay, Accurate
<1>4. shown' = SubSeq(all, 1, to)
  <2>1. CASE query.append
    <3>1. shown = SubSeq(all, 1, offset)
      BY <2>1 DEF OnTheWay, InStep
    <3> QED BY <2>1, <3>1, <1>2, <1>3 DEF Render
  <2>2. CASE ~query.append
    BY <2>2, <1>2, <1>3 DEF OnTheWay, Render
  <2> QED BY <2>1, <2>2
<1>5. offset' = to /\ more' = (to < Len(all))
  BY <1>3 DEF Render
<1>6. Len(shown') = to
  BY <1>2, <1>4, PrefixLen
<1>7. Matching(filter)' = all
  BY DEF Render, Matching, Hits
<1> HIDE DEF all, to
<1> QED BY <1>2, <1>4, <1>5, <1>6, <1>7 DEF InStep

LEMMA RenderKeeps == ListInv /\ Render => ListInv'
<1> SUFFICES ASSUME ListInv, Render PROVE ListInv'
  OBVIOUS
<1>0. UNCHANGED <<db, filter, saving>> /\ query' = None /\ loading' = FALSE
  BY DEF Render
<1>1. loading
  BY DEF Render, ListInv
<1>2. missed' \in Causes /\ (missed' = "none" => missed = "none")
  BY DEF Render, ListInv, Causes
<1>3. Fresh' => Fresh
  BY <1>0, <1>2 DEF Fresh, ListInv
<1>4. CASE query.answer = "page"
  <2>1. offset' \in Nat
    BY <1>1, <1>4 DEF Render, ListInv, Asked
  <2>2. Fresh => InStep'
    BY <1>1, <1>4, PageIsInStep DEF ListInv
  <2> QED BY <1>0, <1>2, <1>3, <2>1, <2>2 DEF ListInv
<1>5. CASE query.answer # "page"
  <2>1. UNCHANGED <<shown, offset, more>>
    BY <1>5 DEF Render
  <2>2. InStep => InStep'
    BY <1>0, <2>1, StillInStep
  <2>3. Fresh' => query.append
    BY <1>1, <1>5 DEF Render, Fresh, ListInv, Asked
  <2>4. Fresh' => InStep'
    BY <1>1, <1>3, <2>2, <2>3 DEF ListInv, OnTheWay
  <2> QED BY <1>0, <1>2, <2>1, <2>4 DEF ListInv
<1> QED BY <1>4, <1>5

\* Save, Store, SaveFails: the page is as it was; what is stored ends freshness
\* until the write is answered.
LEMMA WriteKeeps ==
  ASSUME ListInv,
         \/ Store \/ SaveFails
         \/ \E w \in Wines, k \in Kinds \cup {"gone"}, fresh \in BOOLEAN : Save(w, k, fresh)
  PROVE  ListInv'
<1>0. UNCHANGED <<filter, offset, loading, shown, more, query>> /\ missed' \in Causes
  BY DEF Save, Store, SaveFails, ListInv, Causes
<1>1. ASSUME NEW v \in Write, ~v.done, saving' = v PROVE ~(saving' # None /\ saving'.done)
  BY <1>1
<1>2. ASSUME UNCHANGED db, saving' \in Write \cup {None}, Fresh' => Fresh PROVE ListInv'
  <2>1. OnTheWay => OnTheWay'
    BY <1>0, <1>2, StillOnTheWay
  <2>2. InStep => InStep'
    BY <1>0, <1>2, StillInStep
  <2> QED BY <1>0, <1>2, <2>1, <2>2 DEF ListInv, Asked
<1>3. CASE \E w \in Wines, k \in Kinds \cup {"gone"}, fresh \in BOOLEAN : Save(w, k, fresh)
  <2>1. UNCHANGED <<db, missed>> /\ saving = None /\ saving' \in Write
    BY <1>3 DEF Save, Write
  <2> QED BY <2>1, <1>0, <1>2 DEF Fresh
<1>4. CASE SaveFails
  <2>1. UNCHANGED db /\ saving' = None /\ (missed' = "none" => missed = "none" /\ ~saving.done)
    BY <1>4 DEF SaveFails
  <2> QED BY <2>1, <1>0, <1>2 DEF Fresh
<1>5. CASE Store
  <2>1. saving \in Write /\ ~saving.done
    BY <1>5 DEF Store, ListInv
  <2>2. CASE saving' = None /\ UNCHANGED <<db, missed>>
    BY <2>1, <2>2, <1>0, <1>2 DEF Fresh
  <2>3. CASE /\ saving' = [saving EXCEPT !.done = TRUE]
             /\ missed' = IF saving.fresh \/ missed = "lost" THEN missed ELSE "edit"
    <3>1. saving' \in Write /\ saving'.done /\ saving'.fresh = saving.fresh
      BY <2>1, <2>3 DEF Write
    <3>2. saving.fresh \/ missed' # "none"
      BY <2>3
    <3>3. ~Fresh'
      BY <3>1, <3>2, BrowseAssumption DEF Fresh
    <3> QED BY <1>0, <3>1, <3>3 DEF ListInv, Asked
  <2> QED BY <1>5, <2>2, <2>3 DEF Store
<1> QED BY <1>3, <1>4, <1>5

LEMMA StutterKeeps == ListInv /\ UNCHANGED vars => ListInv'
<1> SUFFICES ASSUME ListInv, UNCHANGED vars PROVE ListInv'
  OBVIOUS
<1>0. UNCHANGED <<db, filter, offset, loading, shown, more, query, saving, missed>>
  BY DEF vars
<1>1. (OnTheWay => OnTheWay') /\ (InStep => InStep')
  BY <1>0, StillOnTheWay, StillInStep
<1> QED BY <1>0, <1>1 DEF ListInv, Asked, Fresh

LEMMA ListNext == ListInv /\ [Next]_vars => ListInv'
<1> SUFFICES ASSUME ListInv, [Next]_vars PROVE ListInv'
  OBVIOUS
<1>1. ASSUME NEW f \in Kinds \cup {All}, ChooseFilter(f) PROVE ListInv'
  <2>1. LoadWines(FALSE, filter', 0, PageSize)
    BY <1>1 DEF ChooseFilter, Reload
  <2> QED BY <1>1, <2>1, LoadFromTop, BrowseAssumption DEF ChooseFilter, Reload, ListInv
<1>2. CASE Saved
  <2>1. CASE saving.fresh
    <3>1. LoadWines(FALSE, filter', 0, Max({PageSize, offset}))
      BY <1>2, <2>1 DEF Saved, Refresh, Reload, LoadWines
    <3>2. Max({PageSize, offset}) \in Nat
      BY TwoNumbers, BrowseAssumption DEF ListInv
    <3> QED BY <1>2, <2>1, <3>1, <3>2, LoadFromTop DEF Saved, Refresh, Reload
  <2>2. CASE ~saving.fresh
    <3>1. UNCHANGED <<db, filter, offset, loading, shown, more, query, missed>> /\ saving' = None
      BY <1>2, <2>2 DEF Saved
    <3>2. (OnTheWay => OnTheWay') /\ (InStep => InStep')
      BY <3>1, StillOnTheWay, StillInStep
    <3> QED BY <2>2, <3>1, <3>2 DEF ListInv, Asked, Fresh
  <2> QED BY <2>1, <2>2
<1>3. CASE Rival
  BY <1>3 DEF Rival, ListInv, Asked, Fresh, Causes
<1>4. CASE LoadMore
  BY <1>4, LoadMoreKeeps
<1>5. CASE Serve
  BY <1>5, ServeKeeps
<1>6. CASE Render
  BY <1>6, RenderKeeps
<1>7. CASE \/ Store \/ SaveFails
          \/ \E w \in Wines, k \in Kinds \cup {"gone"}, fresh \in BOOLEAN : Save(w, k, fresh)
  BY <1>7, WriteKeeps
<1>8. CASE UNCHANGED vars
  BY <1>8, StutterKeeps
<1> QED BY <1>1, <1>2, <1>3, <1>4, <1>5, <1>6, <1>7, <1>8 DEF Next, User, Answered

LEMMA ListHolds == Spec => []ListInv
BY ListInit, ListNext, PTL DEF Spec

\* Quiet without a missed refresh is fresh, and nothing is loading.
LEMMA QuietInStep == ListInv /\ Quiet /\ missed = "none" => InStep
BY DEF ListInv, Quiet, Fresh

\* A prefix of what matches shows the wines themselves: none twice, none outdated
\* and none skipped.
LEMMA PrefixIsCurrent == InStep => CardsAreTrue
<1> SUFFICES ASSUME InStep PROVE CardsAreTrue
  OBVIOUS
<1> DEFINE all == Matching(filter)
           n == Len(shown)
<1>1. /\ Len(all) \in Nat
      /\ \A i \in 1..Len(all) : all[i].wine \in Hits(filter) /\ all[i].kind = db[all[i].wine]
      /\ \A i, j \in 1..Len(all) : i < j => all[i].wine > all[j].wine
      /\ \A w \in Hits(filter) : \E i \in 1..Len(all) : all[i].wine = w
  BY MatchingListsHits
<1>2. PICK S : all \in Seq(S)
  BY MatchingIsSeq
<1> HIDE DEF all
<1>3. n \in 0..Len(all) /\ shown = SubSeq(all, 1, n)
  BY <1>1 DEF InStep, all
<1>4. \A i \in 1..n : i \in 1..Len(all) /\ shown[i] = all[i]
  <2>1. \A i \in 1..n : i \in 1..Len(all)
    BY <1>1, <1>3
  <2>2. \A i \in 1..n : all[i] \in S
    BY <1>2, <2>1, ElementOfSeq
  <2>3. \A i \in 1..n : SubSeq(all, 1, n)[i] = all[1 + i - 1]
    BY <1>3, <2>2, SubSeqProperties
  <2>4. \A i \in 1..n : 1 + i - 1 = i
    BY <1>3
  <2> QED BY <1>3, <2>1, <2>3, <2>4
<1>5. ASSUME NEW w \in Hits(filter), \A i \in 1..n : shown[i].wine # w
      PROVE  more /\ \A i \in 1..n : shown[i].wine > w
  <2>1. PICK j \in 1..Len(all) : all[j].wine = w
    BY <1>1
  <2>2. j \notin 1..n
    BY <1>4, <1>5, <2>1
  <2>3. n < j /\ n < Len(all)
    BY <1>1, <1>3, <2>2
  <2>4. more
    BY <2>3 DEF InStep, all
  <2>5. ASSUME NEW i \in 1..n PROVE shown[i].wine > w
    <3>1. i < j
      BY <1>3, <2>3
    <3> QED BY <1>1, <1>4, <2>1, <3>1
  <2> QED BY <2>4, <2>5
<1> QED BY <1>1, <1>4, <1>5 DEF CardsAreTrue

\* refreshBrowse: once every answer is there and no refresh was missed, the
\* cards are the newest wines of the database that match the filter, as they are
\* now, none twice and none skipped, whatever was chosen, loaded and written
\* before, in every order of the answers.
THEOREM CardsAreCurrent == Spec => []ListIsCurrent
<1>1. ListInv => ListIsCurrent
  BY QuietInStep, PrefixIsCurrent DEF ListIsCurrent
<1> QED BY <1>1, ListHolds, PTL

\* loadWines: then "Load more" is offered exactly if wines are left, and what it
\* asks for begins after the last card.
THEOREM MoreContinuesTheCards == Spec => []MoreIsOffered
<1>1. ListInv => MoreIsOffered
  BY QuietInStep DEF MoreIsOffered, InStep
<1> QED BY <1>1, ListHolds, PTL

-----------------------------------------------------------------------------
(***************************************************************************)
(* The types.  A card is a wine with a kind because a page takes it from   *)
(* what matches, and what matches a filter has a kind.                     *)
(***************************************************************************)
Typed ==
  /\ db \in [Wines -> Kinds \cup {"new", "gone"}]
  /\ filter \in Kinds \cup {All} /\ more \in BOOLEAN
  /\ shown \in Seq(Cards)
  /\ loading => query \in Query

\* search_wines answers with cards.
LEMMA PageIsCards ==
  ASSUME NEW q, q.filter \in Kinds \cup {All}, q.offset \in Nat, q.limit \in Nat
  PROVE  Len(Matching(q.filter)) \in Nat /\ Page(q) \in Seq(Cards)
<1> DEFINE all == Matching(q.filter)
           n == Min({q.offset + q.limit, Len(all)})
           S == {[wine |-> w, kind |-> db[w]] : w \in Hits(q.filter)}
<1>1. S \subseteq Cards
  BY DEF Hits, Cards
<1>2. all \in Seq(S) /\ Len(all) \in Nat
  BY MatchingListsHits
<1>3. q.offset + 1 \in Int /\ n \in Int /\ n <= Len(all)
  <2>1. q.offset + q.limit \in Nat
    OBVIOUS
  <2> QED BY <2>1, <1>2, TwoNumbers
<1> HIDE DEF all, n, S
<1>4. \A i \in (q.offset + 1)..n : all[i] \in Cards
  <2>1. \A i \in (q.offset + 1)..n : i \in 1..Len(all)
    BY <1>2, <1>3
  <2> QED BY <2>1, <1>1, <1>2, ElementOfSeq
<1>5. SubSeq(all, q.offset + 1, n) \in Seq(Cards)
  BY <1>3, <1>4, SubSeqProperties
<1>6. Page(q) = SubSeq(all, q.offset + 1, n)
  BY DEF Page, all, n
<1> QED BY <1>2, <1>5, <1>6 DEF all

LEMMA TypedInit == Init => Typed
<1> SUFFICES ASSUME Init PROVE Typed
  OBVIOUS
<1>1. <<>> \in Seq(Cards)
  OBVIOUS
<1>2. query \in Query
  BY <1>1, BrowseAssumption DEF Init, Query
<1> QED BY <1>1, <1>2 DEF Init, Typed

\* What is asked for is a request.
LEMMA LoadIsTyped ==
  ASSUME Typed, NEW append \in BOOLEAN, NEW f \in Kinds \cup {All}, NEW off \in Nat,
         NEW lim \in Nat, LoadWines(append, f, off, lim)
  PROVE  loading' => query' \in Query
<1>1. CASE loading
  BY <1>1 DEF LoadWines, Typed
<1>2. CASE ~loading
  <2>1. <<>> \in Seq(Cards)
    OBVIOUS
  <2>2. query' = [filter |-> f, offset |-> off, limit |-> lim, append |-> append,
                  answer |-> "none", items |-> <<>>, total |-> 0]
    BY <1>2 DEF LoadWines
  <2> DEFINE e == <<>>
  <2>3. e \in Seq(Cards)
    BY <2>1
  <2>4. query' = [filter |-> f, offset |-> off, limit |-> lim, append |-> append,
                  answer |-> "none", items |-> e, total |-> 0]
    BY <2>2
  <2> HIDE DEF e
  <2> QED BY <2>3, <2>4 DEF Query
<1> QED BY <1>1, <1>2

LEMMA TypedNext == ListInv /\ Typed /\ [Next]_vars => Typed'
<1> SUFFICES ASSUME ListInv, Typed, [Next]_vars PROVE Typed'
  OBVIOUS
<1>0. offset \in Nat /\ saving \in Write \cup {None}
  BY DEF ListInv
<1>1. ASSUME NEW f \in Kinds \cup {All}, ChooseFilter(f) PROVE Typed'
  <2>1. loading' => query' \in Query
    BY <1>1, LoadIsTyped, BrowseAssumption DEF ChooseFilter, Reload
  <2> QED BY <1>1, <2>1 DEF ChooseFilter, Reload, Typed
<1>2. CASE LoadMore
  <2>1. LoadWines(TRUE, filter, offset, PageSize) /\ filter \in Kinds \cup {All}
    BY <1>2 DEF LoadMore, Typed
  <2>2. loading' => query' \in Query
    BY <1>0, <2>1, LoadIsTyped, BrowseAssumption
  <2> QED BY <1>2, <2>2 DEF LoadMore, Typed
<1>3. ASSUME NEW w \in Wines, NEW k \in Kinds \cup {"gone"}, NEW fresh \in BOOLEAN,
             Save(w, k, fresh)
      PROVE  Typed'
  BY <1>3 DEF Save, Typed
<1>4. CASE Store
  <2>1. saving \in Write
    BY <1>0, <1>4 DEF Store
  <2>2. saving.wine \in Wines /\ saving.kind \in Kinds \cup {"new", "gone"}
    BY <2>1 DEF Write
  <2>3. db' \in [Wines -> Kinds \cup {"new", "gone"}]
    BY <1>4, <2>2 DEF Store, Typed
  <2> QED BY <1>4, <2>3 DEF Store, Typed
<1>5. CASE SaveFails
  BY <1>5 DEF SaveFails, Typed
<1>6. CASE Saved
  <2>1. Max({PageSize, offset}) \in Nat
    BY <1>0, TwoNumbers, BrowseAssumption
  <2>2. saving.fresh => LoadWines(FALSE, filter, 0, Max({PageSize, offset}))
    BY <1>6 DEF Saved, Refresh, Reload
  <2>3. loading' => query' \in Query
    <3>1. CASE saving.fresh
      BY <2>1, <2>2, <3>1, LoadIsTyped DEF Typed
    <3>2. CASE ~saving.fresh
      BY <1>6, <3>2 DEF Saved, Typed
    <3> QED BY <3>1, <3>2
  <2> QED BY <1>6, <2>3 DEF Saved, Typed
<1>7. CASE Serve
  <2>0. UNCHANGED <<db, filter, offset, loading, shown, more, saving, missed>>
    BY <1>7 DEF Serve
  <2>1. query \in Query
    BY <1>7 DEF Serve, ListInv, Typed
  <2>2. Len(Matching(query.filter)) \in Nat /\ Page(query) \in Seq(Cards)
    BY <2>1, PageIsCards DEF Query
  <2>3. query' \in Query
    <3>1. CASE query' = [query EXCEPT !.answer = "error"]
      BY <2>1, <3>1 DEF Query
    <3>2. CASE query' = [query EXCEPT !.answer = "page", !.items = Page(query),
                                      !.total = Len(Matching(query.filter))]
      BY <2>1, <2>2, <3>2 DEF Query
    <3> QED BY <1>7, <3>1, <3>2 DEF Serve
  <2> QED BY <2>0, <2>3 DEF Typed
<1>8. CASE Render
  <2>1. query \in Query
    BY <1>8 DEF Render, ListInv, Typed
  <2>2. query.items \in Seq(Cards) /\ shown \in Seq(Cards)
    BY <2>1 DEF Query, Typed
  <2>3. shown \o query.items \in Seq(Cards)
    BY <2>2
  <2>4. shown' \in Seq(Cards)
    BY <1>8, <2>2, <2>3 DEF Render
  <2>5. more' \in BOOLEAN
    <3>1. CASE query.answer = "page"
      BY <1>8, <3>1 DEF Render
    <3>2. CASE query.answer # "page"
      BY <1>8, <3>2 DEF Render, Typed
    <3> QED BY <3>1, <3>2
  <2> QED BY <1>8, <2>4, <2>5 DEF Render, Typed
<1>9. CASE Rival
  <2>1. db' \in [Wines -> Kinds \cup {"new", "gone"}]
    BY <1>9 DEF Rival, Typed
  <2> QED BY <1>9, <2>1 DEF Rival, Typed
<1>10. CASE UNCHANGED vars
  BY <1>10 DEF vars, Typed
<1> QED BY <1>1, <1>2, <1>3, <1>4, <1>5, <1>6, <1>7, <1>8, <1>9, <1>10 DEF Next, User, Answered

\* Every variable keeps its type; a request is in flight exactly while the flag
\* loading is set.
THEOREM BrowseTypesHold == Spec => []TypeOK
<1>1. Spec => []Typed
  BY ListHolds, TypedInit, TypedNext, PTL DEF Spec
<1>2. ListInv /\ Typed => TypeOK
  <2> SUFFICES ASSUME ListInv, Typed PROVE TypeOK
    OBVIOUS
  <2>1. loading = (query # None)
    BY BrowseAssumption DEF ListInv, Typed
  <2> QED BY <2>1 DEF ListInv, Typed, TypeOK
<1> QED BY <1>1, <1>2, ListHolds, PTL
=============================================================================
