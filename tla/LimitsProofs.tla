------------------------------ MODULE LimitsProofs ------------------------------
(***************************************************************************)
(* Proofs about RateLimit, for any clients, rules and times, and about     *)
(* LoginThrottle, for any threads, addresses and accounts.                 *)
(*                                                                         *)
(* RateLimit.  StaleIsSwept speaks of the moment after a request.  Between *)
(* requests a bucket ages without being looked at, so the invariant        *)
(* relates the end of its window to the last sweep: no window ended before *)
(* that sweep.  What a bucket counts and what was let through are two      *)
(* things: the budget of a key (Budget) tells the requests since its       *)
(* window began, which are as many as it counts, from the earlier ones,    *)
(* which are fewer than the limit as the first of a window is a window's   *)
(* length old when the next one begins.                                    *)
(*                                                                         *)
(* LoginThrottle.  Of an account's wrong passwords those that no race      *)
(* dropped (Tried) are in its deque (Listed) or in the hands of a thread   *)
(* that has still to append them where it counts (Recording).  A thread    *)
(* that passes the check has seen fewer than the limit in the deque, and   *)
(* it is none of those threads, nor of those that have passed the check    *)
(* already (Verifying), nor of those that will pass it with a deque that a *)
(* success took out of the dictionary (Passing): so what was tried, what   *)
(* is being verified and what will be are bounded together (Counted).      *)
(***************************************************************************)
EXTENDS RateLimit, LoginThrottle, FiniteSetTheorems, TLAPS

EndsAfterSweep ==
  /\ swept \in 0..SweepEvery
  /\ answer # None => swept < SweepEvery
  /\ buckets \in [Keys -> {None} \cup Bucket]
  /\ \A k \in Keys : buckets[k] # None => buckets[k].due >= 0 - swept

LEMMA RulesAreTyped ==
  /\ Len(Rules) \in Nat /\ DOMAIN Rules = 1..Len(Rules)
  /\ \A i \in DOMAIN Rules : /\ Rules[i].name \in RuleNames
                             /\ Rules[i].limit \in Nat \ {0} /\ Rules[i].window \in Nat \ {0}
<1> DEFINE Typed == [name: RuleNames, limit: Nat \ {0}, window: Nat \ {0},
                     matches: SUBSET Requests]
<1>1. Rules \in Seq(Typed)
  BY RateLimitAssumption
<1>2. \A t \in Typed : /\ t.name \in RuleNames
                       /\ t.limit \in Nat \ {0} /\ t.window \in Nat \ {0}
  OBVIOUS
<1> HIDE DEF Typed
<1>3. /\ Len(Rules) \in Nat /\ DOMAIN Rules = 1..Len(Rules)
      /\ \A i \in DOMAIN Rules : Rules[i] \in Typed
  BY <1>1
<1> QED
  BY <1>2, <1>3

LEMMA WindowIsNat ==
  ASSUME NEW k \in Keys
  PROVE  Rule(k[2]).window \in Nat \ {0} /\ Rule(k[2]).limit \in Nat \ {0}
<1>1. k[2] \in RuleNames
  BY DEF Keys
<1>2. PICK i \in DOMAIN Rules : Rules[i].name = k[2]
  BY <1>1 DEF RuleNames
<1>3. \E j \in DOMAIN Rules : Rule(k[2]) = Rules[j]
  BY <1>2 DEF Rule
<1> QED
  BY <1>3, RulesAreTyped

\* _consume leaves a bucket whose window has not ended or is new.
LEMMA ConsumedIsLive ==
  ASSUME NEW k \in Keys, NEW b \in {None} \cup Bucket
  PROVE  Consumed(k, b) \in Bucket /\ Consumed(k, b).due >= 0
BY WindowIsNat DEF Consumed, Bucket

\* After the sweep of a request the invariant holds of the new last_sweep.
LEMMA SweptIsBehind ==
  ASSUME EndsAfterSweep, NEW k \in Keys
  PROVE  /\ Swept[k] \in {None} \cup Bucket
         /\ Swept[k] # None =>
              Swept[k].due >= 0 - (IF swept < SweepEvery THEN swept ELSE 0)
<1>1. CASE swept < SweepEvery
  BY <1>1 DEF EndsAfterSweep, Swept
<1>2. CASE ~(swept < SweepEvery)
  <2>1. Swept[k] = IF buckets[k] # None /\ buckets[k].due < 0 THEN None ELSE buckets[k]
    BY <1>2 DEF Swept
  <2> QED
    BY <1>2, <2>1 DEF EndsAfterSweep, Bucket
<1> QED
  BY <1>1, <1>2

LEMMA RequestKeepsBehind ==
  ASSUME EndsAfterSweep, NEW c \in Clients, NEW r \in Requests, Request(c, r)
  PROVE  EndsAfterSweep'
<1> DEFINE k == <<c, Match(r).name>>
           b == Consumed(k, Swept[k])
           since == IF swept < SweepEvery THEN swept ELSE 0
<1>1. /\ buckets' = [Swept EXCEPT ![k] = b]
      /\ swept' = since
  BY DEF Request
<1>2. since \in 0..SweepEvery /\ since < SweepEvery
  BY RateLimitAssumption DEF EndsAfterSweep
<1>3. DOMAIN Swept = Keys
  BY DEF EndsAfterSweep, Swept
<1>4. ASSUME NEW j \in Keys
      PROVE  /\ buckets'[j] \in {None} \cup Bucket
             /\ buckets'[j] # None => buckets'[j].due >= 0 - since
  <2>1. CASE j = k
    <3>1. Swept[j] \in {None} \cup Bucket
      BY SweptIsBehind
    <3>2. buckets'[j] = Consumed(j, Swept[j])
      BY <1>1, <1>3, <2>1
    <3>3. buckets'[j] \in Bucket /\ buckets'[j].due >= 0
      BY <3>1, <3>2, ConsumedIsLive
    <3> QED
      BY <3>3, <1>2 DEF Bucket
  <2>2. CASE j # k
    <3>1. buckets'[j] = Swept[j]
      BY <1>1, <1>3, <2>2
    <3> QED
      BY <3>1, SweptIsBehind
  <2> QED
    BY <2>1, <2>2
<1>5. buckets' \in [Keys -> {None} \cup Bucket]
  <2>1. buckets' = [j \in Keys |-> buckets'[j]]
    BY <1>1, <1>3
  <2> QED
    BY <2>1, <1>4
<1> QED
  BY <1>1, <1>2, <1>4, <1>5 DEF EndsAfterSweep

LEMMA TickKeepsBehind ==
  ASSUME EndsAfterSweep, Tick
  PROVE  EndsAfterSweep'
<1>1. swept' \in 0..SweepEvery /\ answer' = None
  BY RateLimitAssumption DEF EndsAfterSweep, Tick
<1>2. ASSUME NEW k \in Keys
      PROVE  /\ buckets'[k] \in {None} \cup Bucket
             /\ buckets'[k] # None => buckets'[k].due >= 0 - swept'
  <2>1. buckets'[k] = IF buckets[k] = None \/ buckets[k].due = -SweepEvery
                      THEN buckets[k] ELSE [buckets[k] EXCEPT !.due = @ - 1]
    BY DEF Tick
  <2>2. buckets[k] \in {None} \cup Bucket /\ swept \in 0..SweepEvery
    BY DEF EndsAfterSweep
  <2>3. CASE buckets[k] = None
    BY <2>1, <2>3
  <2>4. CASE buckets[k] # None
    <3>1. buckets[k].due \in Int /\ buckets[k].due >= 0 - swept
      BY <2>2, <2>4 DEF EndsAfterSweep, Bucket
    <3>2. swept' = IF swept = SweepEvery THEN swept ELSE swept + 1
      BY DEF Tick
    <3>3. CASE buckets[k].due = -SweepEvery
      BY <2>1, <2>2, <3>1, <3>2, <3>3, RateLimitAssumption
    <3>4. CASE buckets[k].due # -SweepEvery
      <4>1. buckets'[k] \in Bucket /\ buckets'[k].due = buckets[k].due - 1
        BY <2>1, <2>2, <2>4, <3>4 DEF Bucket
      <4>2. SweepEvery \in Nat
        BY RateLimitAssumption
      <4> QED
        BY <2>2, <3>1, <3>2, <3>4, <4>1, <4>2
    <3> QED
      BY <3>3, <3>4
  <2> QED
    BY <2>3, <2>4
<1>3. buckets' \in [Keys -> {None} \cup Bucket]
  <2>1. buckets' = [k \in Keys |-> buckets'[k]]
    BY DEF Tick
  <2> QED
    BY <2>1, <1>2
<1> QED
  BY <1>1, <1>2, <1>3 DEF EndsAfterSweep

LEMMA EndsAlwaysAfterSweep == Spec => []EndsAfterSweep
<1>1. Init => EndsAfterSweep
  BY RateLimitAssumption DEF Init, EndsAfterSweep
<1>2. EndsAfterSweep /\ [Next]_vars => EndsAfterSweep'
  <2> SUFFICES ASSUME EndsAfterSweep, [Next]_vars
               PROVE  EndsAfterSweep'
    OBVIOUS
  <2>1. CASE Tick
    BY <2>1, TickKeepsBehind
  <2>2. ASSUME NEW c \in Clients, NEW r \in Requests, Request(c, r)
        PROVE  EndsAfterSweep'
    BY <2>2, RequestKeepsBehind
  <2>3. ASSUME NEW c \in Clients, NEW r \in Requests, Health(c, r)
        PROVE  EndsAfterSweep'
    BY <2>3 DEF Health, vars, EndsAfterSweep
  <2>4. CASE UNCHANGED vars
    BY <2>4 DEF vars, EndsAfterSweep
  <2> QED
    BY <2>1, <2>2, <2>3, <2>4 DEF Next
<1> QED
  BY <1>1, <1>2, PTL DEF Spec

\* The table holds no bucket whose window ended SweepEvery ago, once a request of
\* anybody was handled (_sweep, ratelimit.py).
THEOREM SweepSound == Spec => []StaleIsSwept
<1>1. EndsAfterSweep => StaleIsSwept
  BY RateLimitAssumption DEF EndsAfterSweep, StaleIsSwept, Bucket
<1> QED
  BY <1>1, EndsAlwaysAfterSweep, PTL

-----------------------------------------------------------------------------
Live(b) == b # None /\ b.due > 0

\* Of S, what was let through since the window of b began.
Since(k, b, S) == {s \in S : s.age <= Rule(k[2]).window - b.due}

Served(k) == [age: 0..Rule(k[2]).window - 1, nr: Nat]
OfNow(S) == {s \in S : s.age = 0}
Newest(S) == [age |-> 0, nr |-> Cardinality(OfNow(S))]

Budget(k, b, S) ==
  LET limit == Rule(k[2]).limit
      window == Rule(k[2]).window IN
  /\ IsFiniteSet(S) /\ S \subseteq Served(k)
  /\ \A s \in OfNow(S) : s.nr < Cardinality(OfNow(S))
  /\ b # None => b \in Bucket /\ b.due <= window /\ b.count \in 1..limit + 1
  /\ Live(b) => /\ Cardinality(Since(k, b, S)) = IF b.count <= limit THEN b.count ELSE limit
                /\ \E s \in S : s.age = window - b.due
                /\ Cardinality(S \ Since(k, b, S)) < limit
  /\ ~Live(b) => Cardinality(S) < limit /\ OfNow(S) = {}

Budgets ==
  /\ DOMAIN served = Keys
  /\ \A k \in Keys : Budget(k, buckets[k], served[k])
  /\ answer # None => answer.key \in Keys /\ answer.ok \in BOOLEAN
  /\ RefusalIsEarned

-----------------------------------------------------------------------------
\* Every request but the exempt ones has a first rule that matches it.
LEMMA FirstRuleMatches ==
  ASSUME NEW r \in Requests, r \notin Exempt
  PROVE  Match(r).name \in RuleNames /\ Rule(Match(r).name) = Match(r)
<1> DEFINE fits == {i \in 1..Len(Rules) : r \in Rules[i].matches}
<1>1. Len(Rules) \in fits /\ fits \subseteq Nat
  BY RateLimitAssumption, RulesAreTyped
<1>2. PICK i \in fits : \A j \in fits : ~(<<j, i>> \in OpToRel(<, Nat))
  BY <1>1, NatLessThanWellFounded, WFMin
<1>3. \A j \in 1..i - 1 : r \notin Rules[j].matches
  <2> SUFFICES ASSUME NEW j \in 1..i - 1, r \in Rules[j].matches PROVE FALSE
    OBVIOUS
  <2>1. j \in fits /\ j < i /\ i \in Nat /\ j \in Nat
    BY RulesAreTyped
  <2> QED
    BY <1>2, <2>1 DEF OpToRel
<1>4. PICK n \in DOMAIN Rules : Match(r) = Rules[n]
  BY <1>3, RulesAreTyped DEF Match
<1>5. Rule(Rules[n].name) = Rules[n]
  BY RateLimitAssumption DEF Rule
<1> QED
  BY <1>4, <1>5, RulesAreTyped

\* A tick makes no two requests one.
LEMMA OlderKeepsCount ==
  ASSUME NEW k \in Keys, NEW T \in SUBSET Served(k), IsFiniteSet(T)
  PROVE  LET U == {Older(s) : s \in T} IN IsFiniteSet(U) /\ Cardinality(U) = Cardinality(T)
<1> DEFINE U == {Older(s) : s \in T}
           f == [s \in T |-> Older(s)]
<1>1. \A s, t \in T : Older(s) = Older(t) => s = t
  <2> SUFFICES ASSUME NEW s \in T, NEW t \in T, Older(s) = Older(t) PROVE s = t
    OBVIOUS
  <2>1. s \in Served(k) /\ t \in Served(k)
    OBVIOUS
  <2>2. Older(s).age = s.age + 1 /\ Older(s).nr = s.nr /\ Older(t).age = t.age + 1 /\ Older(t).nr = t.nr
    BY <2>1 DEF Older, Served
  <2>3. s.age \in Int /\ t.age \in Int
    BY <2>1 DEF Served
  <2>4. s.age = t.age /\ s.nr = t.nr
    BY <2>2, <2>3
  <2> QED
    BY <2>1, <2>4 DEF Served
<1>2. f \in Bijection(T, U)
  BY <1>1 DEF Bijection, Injection, Surjection, IsInjective
<1> QED
  BY <1>2, FS_Bijection DEF ExistsBijection

LEMMA PartsAreFinite ==
  ASSUME NEW S, IsFiniteSet(S), NEW T \in SUBSET S
  PROVE  /\ IsFiniteSet(T) /\ IsFiniteSet(S \ T)
         /\ Cardinality(T) \in Nat /\ Cardinality(S \ T) \in Nat /\ Cardinality(S) \in Nat
         /\ Cardinality(S) = Cardinality(T) + Cardinality(S \ T)
<1>1. IsFiniteSet(T) /\ IsFiniteSet(S \ T)
  BY FS_Subset
<1>2. S = T \cup (S \ T) /\ T \cap (S \ T) = {}
  OBVIOUS
<1>3. Cardinality(T \cup (S \ T))
        = Cardinality(T) + Cardinality(S \ T) - Cardinality(T \cap (S \ T))
  BY <1>1, FS_Union
<1>4. Cardinality(T \cup (S \ T)) = Cardinality(S) /\ Cardinality(T \cap (S \ T)) = 0
  BY <1>2, FS_EmptySet
<1> QED
  BY <1>1, <1>3, <1>4, FS_CardinalityType

\* A sweep removes no bucket that counts.
LEMMA SweepKeepsBudget ==
  ASSUME NEW k \in Keys, EndsAfterSweep, NEW S, Budget(k, buckets[k], S)
  PROVE  Budget(k, Swept[k], S)
<1>1. Swept[k] = buckets[k] \/ (Swept[k] = None /\ ~Live(buckets[k]))
  <2>1. CASE swept < SweepEvery
    BY <2>1 DEF Swept
  <2>2. CASE ~(swept < SweepEvery)
    <3>1. Swept[k] = IF buckets[k] # None /\ buckets[k].due < 0 THEN None ELSE buckets[k]
      BY <2>2 DEF Swept
    <3>2. buckets[k] # None => buckets[k].due \in Int
      BY DEF EndsAfterSweep, Bucket
    <3> QED
      BY <3>1, <3>2 DEF Live
  <2> QED
    BY <2>1, <2>2
<1> QED
  BY <1>1 DEF Budget, Live

LEMMA NewestIsNew ==
  ASSUME NEW k \in Keys, NEW S, IsFiniteSet(S), S \subseteq Served(k),
         \A s \in OfNow(S) : s.nr < Cardinality(OfNow(S))
  PROVE  /\ LetThrough(S) = S \cup {Newest(S)} /\ Newest(S) \notin S
         /\ Newest(S) \in Served(k) /\ Newest(S).age = 0
         /\ IsFiniteSet(LetThrough(S)) /\ LetThrough(S) \subseteq Served(k)
         /\ \A s \in OfNow(LetThrough(S)) : s.nr < Cardinality(OfNow(LetThrough(S)))
<1> DEFINE n == Cardinality(OfNow(S))
<1>1. LetThrough(S) = S \cup {Newest(S)}
  BY DEF LetThrough, OfNow, Newest
<1>2. IsFiniteSet(OfNow(S)) /\ n \in Nat
  BY PartsAreFinite DEF OfNow
<1>3. Newest(S).age = 0 /\ Newest(S).nr = n
  BY DEF Newest
<1>4. Newest(S) \notin S
  BY <1>2, <1>3 DEF OfNow
<1>5. Newest(S) \in Served(k)
  BY <1>2, WindowIsNat DEF Served, Newest
<1>6. IsFiniteSet(S \cup {Newest(S)})
  BY FS_AddElement
<1>7. OfNow(LetThrough(S)) = OfNow(S) \cup {Newest(S)}
  BY <1>1, <1>3 DEF OfNow
<1>8. Newest(S) \notin OfNow(S)
  BY <1>4 DEF OfNow
<1>9. Cardinality(OfNow(S) \cup {Newest(S)}) = n + 1
  BY <1>2, <1>8, FS_AddElement
<1>10. \A s \in OfNow(S) : s.nr \in Nat
  BY DEF OfNow, Served
<1>11. \A s \in OfNow(LetThrough(S)) : s.nr < Cardinality(OfNow(LetThrough(S)))
  BY <1>2, <1>3, <1>7, <1>9, <1>10
<1> QED
  BY <1>1, <1>3, <1>4, <1>5, <1>6, <1>11

\* _consume: what is let through is what the bucket counts, and who is refused finds the
\* whole limit used.
LEMMA ConsumedKeepsBudget ==
  ASSUME NEW k \in Keys, NEW b, NEW S, Budget(k, b, S)
  PROVE  LET ok == Consumed(k, b).count <= Rule(k[2]).limit IN
         /\ Budget(k, Consumed(k, b), IF ok THEN LetThrough(S) ELSE S)
         /\ ~ok => Cardinality(S) >= Rule(k[2]).limit
<1> DEFINE limit == Rule(k[2]).limit
           window == Rule(k[2]).window
           new == Newest(S)
           c == Consumed(k, b)
<1>1. limit \in Nat \ {0} /\ window \in Nat \ {0}
  BY WindowIsNat
<1>2. IsFiniteSet(S) /\ S \subseteq Served(k) /\ \A s \in S : s.age \in 0..window - 1
  BY DEF Budget, Served
<1>3. /\ LetThrough(S) = S \cup {new} /\ new \notin S /\ new \in Served(k)
      /\ IsFiniteSet(LetThrough(S)) /\ LetThrough(S) \subseteq Served(k)
      /\ \A s \in OfNow(LetThrough(S)) : s.nr < Cardinality(OfNow(LetThrough(S)))
  BY NewestIsNew DEF Budget
<1>4. new.age = 0
  BY DEF Newest
<1>5. None \notin Bucket
  BY RateLimitAssumption
<1>6. CASE ~Live(b)
  <2>1. c = [due |-> window, count |-> 1]
    BY <1>6, <1>1 DEF Live, Consumed, Budget, Bucket
  <2>2. c \in Bucket /\ Live(c) /\ c.count <= limit
    BY <1>1, <1>5, <2>1 DEF Live, Bucket
  <2>3. \A s \in S : s.age # 0
    BY <1>6 DEF Budget, OfNow
  <2>4. Since(k, c, LetThrough(S)) = {new}
    BY <1>1, <1>2, <1>3, <1>4, <2>1, <2>3 DEF Since
  <2>5. LetThrough(S) \ Since(k, c, LetThrough(S)) = S
    BY <1>3, <2>4
  <2>6. Cardinality(Since(k, c, LetThrough(S))) = 1
    BY <2>4, FS_Singleton
  <2>7. Cardinality(S) < limit
    BY <1>6 DEF Budget
  <2>8. /\ c.due <= window /\ c.count \in 1..limit + 1
        /\ new \in LetThrough(S) /\ new.age = window - c.due
    BY <1>1, <1>3, <1>4, <2>1
  <2>9. c.count = 1
    BY <2>1
  <2> HIDE DEF c
  <2>10. Budget(k, c, LetThrough(S))
    BY <1>3, <2>2, <2>5, <2>6, <2>7, <2>8, <2>9 DEF Budget
  <2> QED
    BY <2>2, <2>10 DEF c
<1>7. CASE Live(b)
  <2> DEFINE now == Since(k, b, S)
  <2>1. /\ b \in Bucket /\ b.due \in 1..window /\ b.count \in 1..limit + 1
        /\ Cardinality(now) = IF b.count <= limit THEN b.count ELSE limit
        /\ \E s \in S : s.age = window - b.due
        /\ Cardinality(S \ now) < limit
    BY <1>1, <1>7 DEF Budget, Live, Bucket
  <2>2. /\ c = [b EXCEPT !.count = IF @ > limit THEN @ ELSE @ + 1]
        /\ c \in Bucket /\ c.due = b.due /\ Live(c)
        /\ c.count = IF b.count > limit THEN b.count ELSE b.count + 1
    BY <1>1, <1>5, <1>7, <2>1 DEF Live, Consumed, Bucket
  <2>3. IsFiniteSet(now) /\ Cardinality(now) \in Nat /\ now \subseteq S
    BY <1>2, PartsAreFinite DEF Since
  <2>4. CASE b.count < limit
    <3>1. Since(k, c, LetThrough(S)) = now \cup {new}
      BY <1>1, <1>3, <1>4, <2>1, <2>2 DEF Since
    <3>2. LetThrough(S) \ (now \cup {new}) = S \ now
      BY <1>3
    <3>3. Cardinality(now \cup {new}) = Cardinality(now) + 1
      BY <1>3, <2>3, FS_AddElement
    <3>4. c.count = b.count + 1 /\ c.count <= limit /\ Cardinality(now \cup {new}) = c.count
      BY <1>1, <2>1, <2>2, <2>4, <3>3
    <3>5. c.due <= window /\ c.count \in 1..limit + 1 /\ \E s \in LetThrough(S) : s.age = window - c.due
      BY <1>1, <1>3, <2>1, <2>2, <3>4
    <3> HIDE DEF now, c
    <3>6. Budget(k, c, LetThrough(S))
      BY <1>3, <2>1, <2>2, <3>1, <3>2, <3>4, <3>5 DEF Budget
    <3> QED
      BY <3>4, <3>6 DEF c
  <2>5. CASE ~(b.count < limit)
    <3>1. c.count = limit + 1 /\ Cardinality(now) = limit
      BY <1>1, <2>1, <2>2, <2>5
    <3>2. Since(k, c, S) = now
      BY <2>2 DEF Since
    <3>3. Cardinality(S) >= limit
      <4>1. Cardinality(now) <= Cardinality(S)
        BY <1>2, <2>3, FS_Subset
      <4> QED
        BY <3>1, <4>1
    <3>4. \A s \in OfNow(S) : s.nr < Cardinality(OfNow(S))
      BY DEF Budget
    <3>5. /\ c.due <= window /\ c.count \in 1..limit + 1 /\ ~(c.count <= limit)
          /\ \E s \in S : s.age = window - c.due
      BY <1>1, <2>1, <2>2, <3>1
    <3> HIDE DEF now, c
    <3>6. Budget(k, c, S)
      BY <1>2, <2>1, <2>2, <3>1, <3>2, <3>4, <3>5 DEF Budget
    <3> QED
      BY <3>3, <3>5, <3>6 DEF c
  <2> QED
    BY <2>4, <2>5
<1> QED
  BY <1>6, <1>7

\* Time ends windows, and what is a window's length old is forgotten.
LEMMA TimeKeepsBudget ==
  ASSUME NEW k \in Keys, NEW b \in {None} \cup Bucket, NEW S, Budget(k, b, S), NEW c,
         \/ c = b /\ ~Live(b)
         \/ b # None /\ c = [b EXCEPT !.due = @ - 1]
  PROVE  Budget(k, c, Aged(S, Rule(k[2]).window))
<1> DEFINE limit == Rule(k[2]).limit
           window == Rule(k[2]).window
           kept == {s \in S : s.age + 1 < window}
           aged == Aged(S, window)
           IsOlder(T) == {Older(s) : s \in T}
<1>1. limit \in Nat \ {0} /\ window \in Nat \ {0}
  BY WindowIsNat
<1>2. IsFiniteSet(S) /\ S \subseteq Served(k)
  BY DEF Budget
<1>3. \A s \in S : /\ s.age \in 0..window - 1 /\ s.nr \in Nat
                   /\ Older(s).age = s.age + 1 /\ Older(s).nr = s.nr
                   /\ Older(s) = [age |-> s.age + 1, nr |-> s.nr]
  BY <1>2 DEF Served, Older
<1>4. kept \subseteq S /\ aged = IsOlder(kept)
  BY DEF Aged
<1>5. ASSUME NEW T \in SUBSET S
      PROVE  IsFiniteSet(IsOlder(T)) /\ Cardinality(IsOlder(T)) = Cardinality(T)
  BY <1>2, OlderKeepsCount, PartsAreFinite
<1>6. IsFiniteSet(aged) /\ aged \subseteq Served(k) /\ OfNow(aged) = {}
  <2>1. ASSUME NEW s \in kept
        PROVE  Older(s) \in Served(k) /\ Older(s).age # 0
    BY <1>1, <1>3 DEF Served
  <2> QED
    BY <1>4, <1>5, <2>1 DEF OfNow
<1>7. CASE ~Live(b)
  <2>1. Cardinality(aged) < limit
    <3>1. Cardinality(aged) = Cardinality(kept) /\ Cardinality(kept) <= Cardinality(S)
      BY <1>2, <1>4, <1>5, FS_Subset
    <3>2. Cardinality(S) < limit /\ Cardinality(S) \in Nat /\ Cardinality(kept) \in Nat
      BY <1>2, <1>4, <1>7, PartsAreFinite DEF Budget
    <3> QED
      BY <1>1, <3>1, <3>2
  <2>2. ~Live(c) /\ c # None => c \in Bucket /\ c.due <= window /\ c.count \in 1..limit + 1
    BY <1>1, <1>7 DEF Live, Budget, Bucket
  <2>3. ~Live(c)
    BY <1>7 DEF Live, Bucket
  <2> HIDE DEF aged
  <2>4. Budget(k, c, aged)
    BY <1>6, <2>1, <2>2, <2>3 DEF Budget
  <2> QED
    BY <2>4 DEF aged
<1>8. CASE Live(b)
  <2> DEFINE now == Since(k, b, S)
  <2>1. /\ b \in Bucket /\ b.due \in 1..window /\ b.count \in 1..limit + 1
        /\ Cardinality(now) = IF b.count <= limit THEN b.count ELSE limit
        /\ Cardinality(S \ now) < limit
    BY <1>1, <1>8 DEF Budget, Live, Bucket
  <2>2. PICK first \in S : first.age = window - b.due
    BY <1>8 DEF Budget
  <2>3. c \in Bucket /\ c.due = b.due - 1 /\ c.count = b.count
    BY <1>8, <2>1 DEF Bucket
  <2>4. c # None
    BY <2>3, RateLimitAssumption
  <2>5. CASE b.due = 1
    <3>1. now = S
      BY <1>1, <1>3, <2>5 DEF Since
    <3>2. first \notin kept
      BY <1>1, <2>2, <2>5
    <3>3. Cardinality(S \ {first}) = Cardinality(S) - 1 /\ IsFiniteSet(S \ {first})
      BY <1>2, FS_RemoveElement
    <3>4. Cardinality(kept) <= Cardinality(S \ {first})
      BY <3>2, <3>3, FS_Subset
    <3>5. Cardinality(S) <= limit /\ Cardinality(S) \in Nat /\ Cardinality(kept) \in Nat
      <4>1. Cardinality(S) \in Nat /\ Cardinality(kept) \in Nat
        BY <1>2, <1>4, FS_Subset, FS_CardinalityType
      <4>2. Cardinality(S) = Cardinality(now)
        BY <3>1
      <4> HIDE DEF now
      <4> QED
        BY <1>1, <2>1, <4>1, <4>2
    <3>6. Cardinality(aged) < limit
      <4>1. Cardinality(aged) = Cardinality(kept)
        BY <1>4, <1>5
      <4> QED
        BY <1>1, <3>3, <3>4, <3>5, <4>1
    <3>7. ~Live(c)
      BY <2>3, <2>5 DEF Live
    <3>8. c.due <= window
      BY <1>1, <2>1, <2>3
    <3> HIDE DEF aged
    <3>9. Budget(k, c, aged)
      BY <1>6, <2>1, <2>3, <3>6, <3>7, <3>8 DEF Budget
    <3> QED
      BY <3>9 DEF aged
  <2>6. CASE b.due > 1
    <3>1. Live(c) /\ c.due \in 1..window
      BY <1>1, <2>1, <2>3, <2>4, <2>6 DEF Live
    <3>2. now \subseteq kept /\ first \in kept
      BY <1>1, <1>3, <2>1, <2>2, <2>6 DEF Since
    <3>3. Since(k, c, aged) = IsOlder(now)
      <4>1. \A s \in kept : s \in now <=> Older(s).age <= window - c.due
        BY <1>1, <1>3, <2>1, <2>3 DEF Since
      <4> QED
        BY <1>4, <3>2, <4>1 DEF Since
    <3>4. aged \ Since(k, c, aged) \subseteq IsOlder(kept \ now)
      BY <1>4, <3>3
    <3>5. Cardinality(aged \ Since(k, c, aged)) < limit
      <4>1. /\ IsFiniteSet(IsOlder(kept \ now))
            /\ Cardinality(IsOlder(kept \ now)) = Cardinality(kept \ now)
        BY <1>5
      <4>2. Cardinality(aged \ Since(k, c, aged)) <= Cardinality(kept \ now)
        BY <3>4, <4>1, FS_Subset
      <4>3. IsFiniteSet(S \ now) /\ Cardinality(S \ now) \in Nat /\ now \subseteq S
        BY <1>2, PartsAreFinite DEF Since
      <4>4. Cardinality(kept \ now) <= Cardinality(S \ now)
        BY <4>3, FS_Subset
      <4>5. Cardinality(kept \ now) \in Nat /\ Cardinality(aged \ Since(k, c, aged)) \in Nat
        BY <1>2, <1>6, PartsAreFinite DEF Since
      <4> QED
        BY <1>1, <2>1, <4>2, <4>3, <4>4, <4>5
    <3>6. Cardinality(Since(k, c, aged)) = IF c.count <= limit THEN c.count ELSE limit
      BY <1>5, <2>1, <2>3, <3>2, <3>3
    <3>7. \E s \in aged : s.age = window - c.due
      <4>1. Older(first) \in aged /\ Older(first).age = first.age + 1
        BY <1>3, <1>4, <3>2
      <4> QED
        BY <1>1, <2>1, <2>2, <2>3, <4>1
    <3>8. c.due <= window
      BY <1>1, <3>1
    <3> HIDE DEF aged
    <3>9. Budget(k, c, aged)
      BY <1>6, <2>1, <2>3, <3>1, <3>5, <3>6, <3>7, <3>8 DEF Budget
    <3> QED
      BY <3>9 DEF aged
  <2> QED
    BY <2>1, <2>5, <2>6
<1> QED
  BY <1>7, <1>8

LEMMA RequestKeepsBudgets ==
  ASSUME EndsAfterSweep, Budgets, NEW c \in Clients, NEW r \in Requests, Request(c, r)
  PROVE  Budgets'
<1> DEFINE k == <<c, Match(r).name>>
           b == Consumed(k, Swept[k])
           ok == b.count <= Rule(k[2]).limit
<1>1. k \in Keys /\ Rule(k[2]) = Match(r)
  BY FirstRuleMatches DEF Request, Keys
<1>2. /\ buckets' = [Swept EXCEPT ![k] = b]
      /\ answer' = [key |-> k, ok |-> ok]
      /\ served' = IF ok THEN [served EXCEPT ![k] = LetThrough(@)] ELSE served
  BY <1>1 DEF Request
<1>3. DOMAIN Swept = Keys /\ DOMAIN served = Keys
  BY DEF EndsAfterSweep, Swept, Budgets
<1>4. ASSUME NEW j \in Keys
      PROVE  Budget(j, Swept[j], served[j])
  BY SweepKeepsBudget DEF Budgets
<1>5. /\ Budget(k, b, IF ok THEN LetThrough(served[k]) ELSE served[k])
      /\ ~ok => Cardinality(served[k]) >= Rule(k[2]).limit
  BY <1>1, <1>4, ConsumedKeepsBudget
<1> HIDE DEF b, k
<1>6. ASSUME NEW j \in Keys
      PROVE  Budget(j, buckets'[j], served'[j])
  <2>1. CASE j = k
    <3>1. buckets'[j] = b
      BY <1>2, <1>3, <2>1
    <3>2. served'[j] = IF ok THEN LetThrough(served[k]) ELSE served[k]
      BY <1>2, <1>3, <2>1
    <3> QED
      BY <1>5, <2>1, <3>1, <3>2
  <2>2. CASE j # k
    <3>1. buckets'[j] = Swept[j]
      BY <1>2, <1>3, <2>2
    <3>2. served'[j] = served[j]
      BY <1>2, <1>3, <2>2
    <3> QED
      BY <1>4, <3>1, <3>2
  <2> QED
    BY <2>1, <2>2
<1>7. DOMAIN served' = Keys
  BY <1>2, <1>3
<1>8. ~ok => served'[k] = served[k]
  BY <1>2
<1>9. answer'.key = k /\ answer'.ok = ok /\ ok \in BOOLEAN
  BY <1>2
<1>10. RefusalIsEarned'
  BY <1>5, <1>8, <1>9 DEF RefusalIsEarned
<1> QED
  BY <1>1, <1>6, <1>7, <1>9, <1>10 DEF Budgets

LEMMA TickKeepsBudgets ==
  ASSUME EndsAfterSweep, Budgets, Tick
  PROVE  Budgets'
<1>1. ASSUME NEW k \in Keys
      PROVE  Budget(k, buckets'[k], served'[k])
  <2>1. buckets'[k] = IF buckets[k] = None \/ buckets[k].due = -SweepEvery
                      THEN buckets[k] ELSE [buckets[k] EXCEPT !.due = @ - 1]
    BY DEF Tick
  <2>2. served'[k] = Aged(served[k], Rule(k[2]).window)
    BY DEF Tick
  <2>3. buckets[k] \in {None} \cup Bucket /\ Budget(k, buckets[k], served[k])
    BY DEF EndsAfterSweep, Budgets
  <2>4. \/ buckets'[k] = buckets[k] /\ ~Live(buckets[k])
        \/ buckets[k] # None /\ buckets'[k] = [buckets[k] EXCEPT !.due = @ - 1]
    BY <2>1, RateLimitAssumption DEF Live
  <2> QED
    BY <2>2, <2>3, <2>4, TimeKeepsBudget
<1>2. DOMAIN served' = Keys /\ answer' = None
  BY DEF Tick
<1> QED
  BY <1>1, <1>2 DEF Budgets, RefusalIsEarned

LEMMA BudgetsHold == Spec => []Budgets
<1>1. Init => Budgets
  <2> SUFFICES ASSUME Init PROVE Budgets
    OBVIOUS
  <2>1. ASSUME NEW k \in Keys
        PROVE  Budget(k, None, {})
    BY FS_EmptySet, WindowIsNat DEF Budget, Live, OfNow
  <2> QED
    BY <2>1 DEF Init, Budgets, RefusalIsEarned
<1>2. EndsAfterSweep /\ Budgets /\ [Next]_vars => Budgets'
  <2> SUFFICES ASSUME EndsAfterSweep, Budgets, [Next]_vars PROVE Budgets'
    OBVIOUS
  <2>1. CASE Tick
    BY <2>1, TickKeepsBudgets
  <2>2. ASSUME NEW c \in Clients, NEW r \in Requests, Request(c, r)
        PROVE  Budgets'
    BY <2>2, RequestKeepsBudgets
  <2>3. CASE UNCHANGED vars
    BY <2>3 DEF vars, Budgets, RefusalIsEarned
  <2> QED
    BY <2>1, <2>2, <2>3 DEF Next, Health
<1> QED
  BY <1>1, <1>2, EndsAlwaysAfterSweep, PTL DEF Spec

\* Buckets and history keep their types.
THEOREM TypesHold == Spec => []TypeOK
<1>1. EndsAfterSweep /\ Budgets => TypeOK
  <2> SUFFICES ASSUME EndsAfterSweep, Budgets PROVE TypeOK
    OBVIOUS
  <2>1. ASSUME NEW k \in Keys, buckets[k] # None
        PROVE  buckets[k].due \in -SweepEvery..Rule(k[2]).window
    <3>1. /\ buckets[k] \in Bucket /\ buckets[k].due >= 0 - swept /\ swept \in 0..SweepEvery
          /\ buckets[k].due <= Rule(k[2]).window
      BY <2>1 DEF EndsAfterSweep, Budgets, Budget
    <3>2. Rule(k[2]).window \in Nat /\ SweepEvery \in Nat
      BY WindowIsNat, RateLimitAssumption
    <3> QED
      BY <3>1, <3>2 DEF Bucket
  <2>2. \A k \in Keys : buckets[k] # None => buckets[k].count \in 1..Rule(k[2]).limit + 1
    BY DEF Budgets, Budget
  <2>3. \A k \in Keys : served[k] \subseteq [age: 0..Rule(k[2]).window - 1, nr: Nat]
    BY DEF Budgets, Budget, Served
  <2> QED
    BY <2>1, <2>2, <2>3 DEF TypeOK, Budgets, EndsAfterSweep
<1> QED
  BY <1>1, EndsAlwaysAfterSweep, BudgetsHold, PTL

\* ratelimit.py _consume: less than twice the limit gets through within any window's length.
THEOREM SurgesAreBounded == Spec => []SurgeIsBounded
<1>1. Budgets => SurgeIsBounded
  <2> SUFFICES ASSUME Budgets, NEW k \in Keys
               PROVE  Cardinality(served[k]) <= 2 * Rule(k[2]).limit - 1
    BY DEF SurgeIsBounded
  <2> DEFINE S == served[k]
             b == buckets[k]
             limit == Rule(k[2]).limit
             since == Since(k, b, S)
  <2>1. IsFiniteSet(S) /\ limit \in Nat \ {0} /\ Budget(k, b, S) /\ since \in SUBSET S
    BY WindowIsNat DEF Budgets, Budget, Since
  <2>2. Cardinality(S) = Cardinality(since) + Cardinality(S \ since)
        /\ Cardinality(since) \in Nat /\ Cardinality(S \ since) \in Nat
    BY <2>1, PartsAreFinite
  <2>3. CASE Live(b)
    <3>1. /\ Cardinality(since) = IF b.count <= limit THEN b.count ELSE limit
          /\ Cardinality(S \ since) < limit /\ b.count \in 1..limit + 1
      BY <2>1, <2>3 DEF Budget, Live
    <3> HIDE DEF since
    <3> QED
      BY <2>1, <2>2, <3>1
  <2>4. CASE ~Live(b)
    <3>1. Cardinality(S) < limit
      BY <2>1, <2>4 DEF Budget
    <3> HIDE DEF since
    <3> QED
      BY <2>1, <2>2, <3>1
  <2> QED
    BY <2>3, <2>4
<1> QED
  BY <1>1, BudgetsHold, PTL

\* ratelimit.py _consume, _sweep: who is refused has used the whole limit of that rule within the
\* last window, alone.
THEOREM RefusalsAreEarned == Spec => []RefusalIsEarned
BY BudgetsHold, PTL DEF Budgets

-----------------------------------------------------------------------------
(***************************************************************************)
(* LoginThrottle: what its threads are about.                              *)
(***************************************************************************)

\* A thread has a deque in hand, and that deque is no longer the one of its key.
InUse(r) == r.pc \in {"test", "pop", "ready"}
Stale(t, n) == InUse(thr[t]) /\ thr[t].key = n /\ thr[t].held # dict[n]

\* Logins of account n that have passed the check; that will pass it with a deque that is
\* no longer the account's; that have a failure to record where it counts.
Verifying(n) == {t \in Threads : thr[t].pc = "verify" /\ thr[t].name = n}
Passing(n) == {t \in Threads : thr[t].phase = "check" /\ Stale(t, n)}
Recording(n) ==
  {t \in Threads : thr[t].phase = "record" /\ thr[t].name = n /\ ~Stale(t, n)}

Tried(n) == guesses[n] \ lost[n]
Listed(n) == IF dict[n] = Nil THEN {} ELSE Range(heap[dict[n]])

Histories ==
  /\ guesses \in [Names -> SUBSET Times] /\ lost \in [Names -> SUBSET Times]
  /\ \A n \in Names : IsFiniteSet(guesses[n]) /\ IsFiniteSet(lost[n])

ThrottleTyped ==
  /\ dict \in [LoginKeys -> Deques \cup {Nil}]
  /\ heap \in [Deques -> Seq(Times \cup {Expired})]
  /\ thr \in [Threads -> ThreadState]
  /\ Histories

InTurn(r) ==
  /\ r.pc # "idle" => r.ip \in Ips /\ r.name \in Names /\ r.key \in {r.ip, r.name}
  /\ r.pc \in {"idle", "verify", "clear"} => r.phase = "check"
  /\ IF InUse(r) THEN r.held \in Deques ELSE r.held = Nil

Owned ==
  /\ \A k, l \in LoginKeys : dict[k] # Nil /\ dict[k] = dict[l] => k = l
  /\ \A t \in Threads, k \in LoginKeys :
       thr[t].held # Nil /\ dict[k] = thr[t].held => k = thr[t].key

Settled == ThrottleTyped /\ Owned /\ \A t \in Threads : InTurn(thr[t])

Covered(n) == Tried(n) \subseteq {thr[t].fail : t \in Recording(n)} \cup Listed(n)

Counted(n) ==
  Cardinality(Tried(n)) + Cardinality(Verifying(n)) + Cardinality(Passing(n))
    <= MaxFailures + Cardinality(Threads) - 1

ThrottleInv == Settled /\ \A n \in Names : Covered(n) /\ Counted(n)

-----------------------------------------------------------------------------
LEMMA LimitIsNat ==
  /\ MaxFailures \in Nat \ {0} /\ Window \in Nat
  /\ Cardinality(Threads) \in Nat
BY LoginThrottleAssumption, FS_CardinalityType

\* An image of a finite set is finite and no larger.
LEMMA ImageIsSmaller ==
  ASSUME NEW S, IsFiniteSet(S), NEW f, DOMAIN f = S
  PROVE  LET T == {f[x] : x \in S} IN
           IsFiniteSet(T) /\ Cardinality(T) <= Cardinality(S)
<1> DEFINE T == {f[x] : x \in S}
           g == [x \in S |-> f[x]]
<1>1. g \in Surjection(S, T)
  BY DEF Surjection
<1> HIDE DEF T, g
<1>2. IsFiniteSet(T) /\ Cardinality(T) <= Cardinality(S)
  BY <1>1, FS_Surjection
<1> QED
  BY <1>2 DEF T

\* What is in a sequence.
LEMMA ListIsFinite ==
  ASSUME NEW S, NEW s \in Seq(S)
  PROVE  IsFiniteSet(Range(s)) /\ Cardinality(Range(s)) <= Len(s) /\ Range(s) \subseteq S
<1>1. Len(s) \in Nat /\ DOMAIN s = 1..Len(s) /\ Range(s) = {s[i] : i \in 1..Len(s)}
  BY DEF Range
<1>2. IsFiniteSet(1..Len(s)) /\ Cardinality(1..Len(s)) = Len(s)
  BY <1>1, FS_Interval
<1>3. IsFiniteSet({s[i] : i \in 1..Len(s)})
      /\ Cardinality({s[i] : i \in 1..Len(s)}) <= Cardinality(1..Len(s))
  BY <1>1, <1>2, ImageIsSmaller
<1> QED
  BY <1>1, <1>2, <1>3

LEMMA AppendAdds ==
  ASSUME NEW S, NEW s \in Seq(S), NEW e \in S
  PROVE  Append(s, e) \in Seq(S) /\ Range(s) \cup {e} \subseteq Range(Append(s, e))
<1>1. /\ Append(s, e) \in Seq(S) /\ Len(Append(s, e)) = Len(s) + 1
      /\ Append(s, e)[Len(s) + 1] = e
      /\ \A i \in 1..Len(s) : Append(s, e)[i] = s[i]
  OBVIOUS
<1>2. Len(s) \in Nat /\ DOMAIN s = 1..Len(s) /\ DOMAIN Append(s, e) = 1..Len(s) + 1
  BY <1>1
<1> QED
  BY <1>1, <1>2 DEF Range

LEMMA TailDropsHead ==
  ASSUME NEW S, NEW s \in Seq(S), s # <<>>
  PROVE  /\ Head(s) \in S /\ Tail(s) \in Seq(S)
         /\ Range(s) \subseteq {Head(s)} \cup Range(Tail(s))
<1>1. /\ Head(s) = s[1] /\ Tail(s) \in Seq(S) /\ Len(s) \in Nat \ {0}
      /\ DOMAIN s = 1..Len(s) /\ DOMAIN Tail(s) = 1..Len(s) - 1 /\ Head(s) \in S
      /\ \A i \in 1..Len(s) - 1 : Tail(s)[i] = s[i + 1]
  OBVIOUS
<1>2. ASSUME NEW i \in 1..Len(s), i # 1
      PROVE  s[i] \in Range(Tail(s))
  <2>1. i - 1 \in 1..Len(s) - 1 /\ (i - 1) + 1 = i
    BY <1>1, <1>2
  <2>2. Tail(s)[i - 1] = s[i]
    BY <1>1, <2>1
  <2> QED
    BY <1>1, <2>1, <2>2 DEF Range
<1> QED
  BY <1>1, <1>2 DEF Range

-----------------------------------------------------------------------------
\* Helpers of the model.

\* The defaultdict of Get finds a deque that nobody has.
LEMMA DequeIsFree ==
  ASSUME ThrottleTyped, NEW k \in LoginKeys, dict[k] = Nil
  PROVE  \E d \in Deques : d \notin Range(dict) \cup Held
<1> DEFINE Used == {dict[l] : l \in LoginKeys \ {k}}
           D == [l \in LoginKeys \ {k} |-> dict[l]]
           H == [t \in Threads |-> thr[t].held]
<1>1. /\ IsFiniteSet(LoginKeys) /\ IsFiniteSet(Threads) /\ IsFiniteSet(Deques)
      /\ Cardinality(LoginKeys) + Cardinality(Threads) <= Cardinality(Deques)
      /\ Cardinality(LoginKeys) \in Nat /\ Cardinality(Threads) \in Nat
      /\ Cardinality(Deques) \in Nat
  BY LoginThrottleAssumption, FS_CardinalityType DEF LoginKeys
<1>2. IsFiniteSet(LoginKeys \ {k}) /\ Cardinality(LoginKeys \ {k}) = Cardinality(LoginKeys) - 1
  BY <1>1, FS_RemoveElement
<1>3. IsFiniteSet(Used) /\ Cardinality(Used) <= Cardinality(LoginKeys) - 1
  <2>1. LET T == {D[l] : l \in LoginKeys \ {k}} IN
          IsFiniteSet(T) /\ Cardinality(T) <= Cardinality(LoginKeys \ {k})
    BY <1>2, ImageIsSmaller
  <2>2. {D[l] : l \in LoginKeys \ {k}} = Used
    OBVIOUS
  <2> QED
    BY <1>2, <2>1, <2>2
<1>4. IsFiniteSet(Held) /\ Cardinality(Held) <= Cardinality(Threads)
  <2>1. LET T == {H[t] : t \in Threads} IN
          IsFiniteSet(T) /\ Cardinality(T) <= Cardinality(Threads)
    BY <1>1, ImageIsSmaller
  <2>2. {H[t] : t \in Threads} = Held
    BY DEF Held
  <2> QED
    BY <2>1, <2>2
<1> HIDE DEF Used
<1>5. /\ IsFiniteSet(Used \cup Held) /\ Cardinality(Used \cup Held) < Cardinality(Deques)
  <2>1. /\ Cardinality(Used) \in Nat /\ Cardinality(Held) \in Nat
        /\ IsFiniteSet(Used \cap Held)
    BY <1>3, <1>4, FS_CardinalityType, FS_Intersection
  <2>2. Cardinality(Used \cap Held) \in Nat
    BY <2>1, FS_CardinalityType
  <2>3. /\ IsFiniteSet(Used \cup Held)
        /\ Cardinality(Used \cup Held) =
             Cardinality(Used) + Cardinality(Held) - Cardinality(Used \cap Held)
    BY <1>3, <1>4, FS_Union
  <2> QED
    BY <1>1, <1>3, <1>4, <2>1, <2>2, <2>3
<1>6. PICK d \in Deques : d \notin Used \cup Held
  <2> SUFFICES ASSUME Deques \subseteq Used \cup Held PROVE FALSE
    OBVIOUS
  <2>1. Cardinality(Deques) <= Cardinality(Used \cup Held)
    BY <1>5, FS_Subset
  <2>2. Cardinality(Used \cup Held) \in Nat
    BY <1>5, FS_CardinalityType
  <2> QED
    BY <1>1, <1>5, <2>1, <2>2
<1>7. d # Nil
  BY LoginThrottleAssumption
<1>8. d \notin Range(dict)
  <2>1. DOMAIN dict = LoginKeys
    BY DEF ThrottleTyped
  <2> QED
    BY <1>6, <1>7, <2>1 DEF Range, Used
<1> QED
  BY <1>6, <1>8

\* A new wrong password is not taken for another one.
LEMMA NowIsNew ==
  ASSUME ThrottleTyped
  PROVE  Now \in Times /\ Now \notin Failures
<1> DEFINE Recent == {f \in Failures : f.age = 0}
           used == {f.nr : f \in Recent}
           U == [f \in Recent |-> f.nr]
           N == Cardinality(used)
           Told == [n \in Names |-> guesses[n] \cup lost[n]]
           Carried == [t \in Threads |-> thr[t].fail]
           Waiting == [d \in Deques |-> Range(heap[d])]
<1>1. IsFiniteSet(Names) /\ IsFiniteSet(Threads) /\ IsFiniteSet(Deques)
  BY LoginThrottleAssumption, FS_Subset
<1> DEFINE A == UNION {guesses[n] \cup lost[n] : n \in Names}
           B == {thr[t].fail : t \in Threads}
           C == UNION {Range(heap[d]) : d \in Deques}
<1>2. IsFiniteSet(A)
  <2>1. IsFiniteSet({Told[n] : n \in Names})
    BY <1>1, ImageIsSmaller
  <2>2. {Told[n] : n \in Names} = {guesses[n] \cup lost[n] : n \in Names}
    OBVIOUS
  <2>3. \A n \in Names : IsFiniteSet(guesses[n] \cup lost[n])
    BY FS_Union DEF ThrottleTyped, Histories
  <2> QED
    BY <2>1, <2>2, <2>3, FS_UNION
<1>3. IsFiniteSet(B)
  <2>1. IsFiniteSet({Carried[t] : t \in Threads})
    BY <1>1, ImageIsSmaller
  <2>2. {Carried[t] : t \in Threads} = B
    OBVIOUS
  <2> QED
    BY <2>1, <2>2
<1>4. IsFiniteSet(C)
  <2>1. IsFiniteSet({Waiting[d] : d \in Deques})
    BY <1>1, ImageIsSmaller
  <2>2. {Waiting[d] : d \in Deques} = {Range(heap[d]) : d \in Deques}
    OBVIOUS
  <2>3. ASSUME NEW d \in Deques PROVE IsFiniteSet(Range(heap[d]))
    <3>1. heap[d] \in Seq(Times \cup {Expired})
      BY DEF ThrottleTyped
    <3> QED
      BY <3>1, ListIsFinite
  <2> QED
    BY <2>1, <2>2, <2>3, FS_UNION
<1>5. Failures = A \cup B \cup C
  BY DEF Failures
<1> HIDE DEF A, B, C
<1>6. IsFiniteSet(Failures)
  <2>1. IsFiniteSet(A \cup B)
    BY <1>2, <1>3, FS_Union
  <2> QED
    BY <1>4, <1>5, <2>1, FS_Union
<1>7. IsFiniteSet(used)
  <2>1. IsFiniteSet(Recent)
    BY <1>6, FS_Subset
  <2>2. IsFiniteSet({U[f] : f \in Recent})
    BY <2>1, ImageIsSmaller
  <2>3. {U[f] : f \in Recent} = used
    OBVIOUS
  <2> QED
    BY <2>2, <2>3
<1> HIDE DEF used
<1>8. N \in Nat /\ IsFiniteSet(0..N) /\ Cardinality(0..N) = N + 1
  BY <1>7, FS_CardinalityType, FS_Interval
<1>9. \E i \in 0..N : i \notin used
  <2> SUFFICES ASSUME 0..N \subseteq used PROVE FALSE
    OBVIOUS
  <2>1. Cardinality(0..N) <= N
    BY <1>7, FS_Subset
  <2> QED
    BY <1>8, <2>1
<1>10. PICK i \in 0..N : i \notin used /\ Now = [age |-> 0, nr |-> i]
  BY <1>9 DEF Now, used
<1>11. Now \in Times
  BY <1>8, <1>10, LimitIsNat DEF Times
<1>12. Now.age = 0 /\ Now.nr \notin used
  BY <1>10
<1> QED
  BY <1>11, <1>12 DEF used

\* What a step leaves in a deque that is still in the dictionary.
LEMMA HeapKeeps ==
  ASSUME NEW h, Heap(h), h \in [Deques -> Seq(Times \cup {Expired})]
  PROVE  /\ heap' \in [Deques -> Seq(Times \cup {Expired})]
         /\ \A k \in DOMAIN dict' : dict'[k] \in Deques => heap'[dict'[k]] = h[dict'[k]]
<1>1. <<>> \in Seq(Times \cup {Expired})
  OBVIOUS
<1> QED
  BY <1>1 DEF Heap, Range

\* A step of one thread.
LEMMA SetChangesOne ==
  ASSUME ThrottleTyped, NEW t \in Threads, NEW r \in ThreadState, Set(t, r)
  PROVE  /\ thr' \in [Threads -> ThreadState] /\ thr'[t] = r
         /\ \A u \in Threads : u # t => thr'[u] = thr[u]
BY DEF Set, ThrottleTyped

-----------------------------------------------------------------------------
\* Threads, keys and deques.

LEMMA StepSettles ==
  ASSUME Settled, NEW t \in Threads, NEW r \in ThreadState, Set(t, r),
         dict' = dict, heap' \in [Deques -> Seq(Times \cup {Expired})], Histories',
         InTurn(r),
         r.held # Nil => \/ r.held = thr[t].held /\ r.key = thr[t].key
                         \/ r.key \in LoginKeys /\ r.held = dict[r.key]
  PROVE  Settled'
<1>1. /\ thr' \in [Threads -> ThreadState] /\ thr'[t] = r
      /\ \A u \in Threads : u # t => thr'[u] = thr[u]
  BY SetChangesOne DEF Settled
<1>2. ThrottleTyped'
  BY <1>1 DEF Settled, ThrottleTyped
<1>3. ASSUME NEW u \in Threads PROVE InTurn(thr'[u])
  BY <1>1 DEF Settled
<1>4. ASSUME NEW u \in Threads, NEW k \in LoginKeys, thr'[u].held # Nil, dict[k] = thr'[u].held
      PROVE  k = thr'[u].key
  <2>1. CASE u = t
    BY <1>1, <1>4, <2>1 DEF Settled, Owned
  <2>2. CASE u # t
    BY <1>1, <1>4, <2>2 DEF Settled, Owned
  <2> QED
    BY <2>1, <2>2
<1> QED
  BY <1>2, <1>3, <1>4 DEF Settled, Owned

LEMMA HistoriesStay ==
  ASSUME Settled, UNCHANGED <<guesses, lost>>
  PROVE  Histories'
BY DEF Settled, ThrottleTyped, Histories

\* A history with one more.
LEMMA HistoryGrows ==
  ASSUME NEW H \in [Names -> SUBSET Times], \A n \in Names : IsFiniteSet(H[n]),
         NEW S \in SUBSET Names, NEW f \in Times, NEW G,
         G = [n \in Names |-> IF n \in S THEN H[n] \cup {f} ELSE H[n]]
  PROVE  G \in [Names -> SUBSET Times] /\ \A n \in Names : IsFiniteSet(G[n])
BY FS_AddElement

LEMMA SettledFacts ==
  ASSUME Settled, NEW t \in Threads
  PROVE  /\ thr[t] \in ThreadState /\ InTurn(thr[t])
         /\ heap \in [Deques -> Seq(Times \cup {Expired})]
         /\ dict \in [LoginKeys -> Deques \cup {Nil}]
         /\ Histories /\ ThrottleTyped
BY DEF Settled, ThrottleTyped

LEMMA IdleIsState == Idle \in ThreadState /\ InTurn(Idle)
BY DEF Idle, ThreadState, InTurn, InUse, Expired

LEMMA BeginSettles ==
  ASSUME Settled, NEW t \in Threads, NEW ip \in Ips, NEW name \in Names, NEW good \in BOOLEAN,
         Begin(t, ip, name, good)
  PROVE  Settled'
<1> DEFINE r == [Idle EXCEPT !.pc = "get", !.ip = ip, !.name = name, !.good = good, !.key = ip]
<1>1. r \in ThreadState /\ InTurn(r) /\ r.held = Nil
  BY DEF Idle, ThreadState, InTurn, InUse, Expired, LoginKeys
<1>2. Set(t, r) /\ dict' = dict /\ Heap(heap) /\ UNCHANGED <<guesses, lost>>
  BY DEF Begin
<1>3. heap' \in [Deques -> Seq(Times \cup {Expired})] /\ Histories'
  BY <1>2, SettledFacts, HeapKeeps, HistoriesStay
<1> HIDE DEF r
<1> QED
  BY <1>1, <1>2, <1>3, StepSettles

LEMMA TestSettles ==
  ASSUME Settled, NEW t \in Threads, Test(t)
  PROVE  Settled'
<1> DEFINE s == heap[thr[t].held]
           r == [thr[t] EXCEPT !.pc = IF s # <<>> /\ Head(s) = Expired THEN "pop" ELSE "ready"]
<1>1. /\ r \in ThreadState /\ InTurn(r) /\ r.held = thr[t].held /\ r.key = thr[t].key
  BY SettledFacts DEF ThreadState, InTurn, InUse, Test
<1>2. Set(t, r) /\ dict' = dict /\ Heap(heap) /\ UNCHANGED <<guesses, lost>>
  BY SettledFacts DEF Test, Set, Settled, ThrottleTyped
<1>3. heap' \in [Deques -> Seq(Times \cup {Expired})] /\ Histories'
  BY <1>2, SettledFacts, HeapKeeps, HistoriesStay
<1> HIDE DEF r
<1> QED
  BY <1>1, <1>2, <1>3, StepSettles

\* The thread after a key of its loop.
LEMMA OnwardSettles ==
  ASSUME Settled, NEW t \in Threads, thr[t].pc # "idle",
         NEW a \in ThreadState, InTurn(a), a.held = Nil
  PROVE  /\ Onward(t, a) \in ThreadState /\ InTurn(Onward(t, a))
         /\ Onward(t, a).held = Nil
<1> DEFINE r == [thr[t] EXCEPT !.pc = "get", !.key = thr[t].name, !.held = Nil]
<1>1. r \in ThreadState /\ InTurn(r) /\ r.held = Nil
  BY SettledFacts DEF ThreadState, InTurn, InUse, LoginKeys
<1> QED
  BY <1>1 DEF Onward

LEMMA CheckSettles ==
  ASSUME Settled, NEW t \in Threads, Check(t)
  PROVE  Settled'
<1> DEFINE a == [thr[t] EXCEPT !.pc = "verify", !.held = Nil]
           r == IF Len(heap[thr[t].held]) >= MaxFailures THEN Idle ELSE Onward(t, a)
<1>1. a \in ThreadState /\ InTurn(a) /\ a.held = Nil /\ thr[t].pc # "idle"
  BY SettledFacts DEF ThreadState, InTurn, InUse, Check
<1>2. r \in ThreadState /\ InTurn(r) /\ r.held = Nil
  <2> HIDE DEF a
  <2>1. Idle.held = Nil
    BY DEF Idle
  <2> QED
    BY <1>1, <2>1, OnwardSettles, IdleIsState
<1>3. Set(t, r) /\ dict' = dict /\ Heap(heap) /\ UNCHANGED <<guesses, lost>>
  BY DEF Check
<1>4. heap' \in [Deques -> Seq(Times \cup {Expired})] /\ Histories'
  BY <1>3, SettledFacts, HeapKeeps, HistoriesStay
<1> HIDE DEF r
<1> QED
  BY <1>2, <1>3, <1>4, StepSettles

LEMMA RecordSettles ==
  ASSUME Settled, NEW t \in Threads, Record(t)
  PROVE  Settled'
<1> DEFINE r == Onward(t, Idle)
           d == thr[t].held
           h == [heap EXCEPT ![d] = Append(@, thr[t].fail)]
<1>1. r \in ThreadState /\ InTurn(r) /\ r.held = Nil
  BY OnwardSettles, IdleIsState DEF Record, Idle
<1>2. Set(t, r) /\ dict' = dict /\ Heap(h) /\ UNCHANGED <<guesses, lost>>
  BY DEF Record
<1>3. h \in [Deques -> Seq(Times \cup {Expired})]
  <2>1. d \in Deques /\ thr[t].fail \in Times \cup {Expired}
    BY SettledFacts DEF Record, InTurn, InUse, ThreadState
  <2> QED
    BY <2>1, SettledFacts, AppendAdds
<1> HIDE DEF h
<1>4. heap' \in [Deques -> Seq(Times \cup {Expired})] /\ Histories'
  BY <1>2, <1>3, HeapKeeps, HistoriesStay
<1> HIDE DEF r
<1> QED
  BY <1>1, <1>2, <1>4, StepSettles

LEMMA PopSettles ==
  ASSUME Settled, NEW t \in Threads, Pop(t)
  PROVE  Settled'
<1> DEFINE d == thr[t].held
           F == Times \cup {Expired}
<1>1. thr[t] \in ThreadState /\ InTurn(thr[t]) /\ thr[t].pc = "pop" /\ d \in Deques
  BY SettledFacts DEF Pop, InTurn, InUse
<1>2. guesses' = guesses /\ dict' = dict
  BY DEF Pop
<1>3. CASE heap[d] = <<>>
  <2>1. Set(t, Idle) /\ Heap(heap)
    BY <1>3 DEF Pop
  <2>2. Histories'
    <3>1. CASE thr[t].phase = "record" /\ thr[t].fail # Expired
      <4> DEFINE m == thr[t].name
                 f == thr[t].fail
      <4>1. lost' = [lost EXCEPT ![m] = @ \cup {f}] /\ m \in Names /\ f \in Times
        BY <1>1, <1>3, <3>1 DEF Pop, InTurn, ThreadState
      <4>2. DOMAIN lost = Names
        BY SettledFacts DEF Histories
      <4>3. lost' = [n \in Names |-> IF n \in {m} THEN lost[n] \cup {f} ELSE lost[n]]
        BY <4>1, <4>2
      <4>4. /\ {m} \in SUBSET Names /\ lost \in [Names -> SUBSET Times]
            /\ \A n \in Names : IsFiniteSet(lost[n])
        BY <4>1, SettledFacts DEF Histories
      <4>5. f \in Times
        BY <4>1
      <4> HIDE DEF m, f
      <4>6. lost' \in [Names -> SUBSET Times] /\ \A n \in Names : IsFiniteSet(lost'[n])
        BY <4>3, <4>4, <4>5, HistoryGrows
      <4> QED
        BY <1>2, <4>6, SettledFacts DEF Histories
    <3>2. CASE ~(thr[t].phase = "record" /\ thr[t].fail # Expired)
      <4>1. lost' = lost
        BY <1>3, <3>2 DEF Pop
      <4> QED
        BY <1>2, <4>1, HistoriesStay
    <3> QED
      BY <3>1, <3>2
  <2>3. heap' \in [Deques -> Seq(F)]
    BY <2>1, SettledFacts, HeapKeeps
  <2>4. Idle.held = Nil
    BY DEF Idle
  <2> QED
    BY <1>2, <2>1, <2>2, <2>3, <2>4, IdleIsState, StepSettles
<1>4. CASE heap[d] # <<>>
  <2> DEFINE r == [thr[t] EXCEPT !.pc = "test"]
             f == Head(heap[d])
             h == [heap EXCEPT ![d] = Tail(@)]
             S == IF f # Expired THEN {n \in Names : dict[n] = d} ELSE {}
  <2>1. /\ r \in ThreadState /\ InTurn(r) /\ r.held = thr[t].held /\ r.key = thr[t].key
    BY <1>1 DEF ThreadState, InTurn, InUse
  <2>2. Set(t, r) /\ Heap(h)
    BY <1>4, SettledFacts DEF Pop, Set, ThrottleTyped
  <2>3. heap[d] \in Seq(F) /\ f \in F /\ h \in [Deques -> Seq(F)]
    BY <1>1, <1>4, SettledFacts, TailDropsHead
  <2>4. lost' = [n \in Names |-> IF n \in S THEN lost[n] \cup {f} ELSE lost[n]]
    BY <1>4 DEF Pop
  <2>5. Histories'
    <3>1. CASE f = Expired
      <4>1. lost' = lost
        BY <2>4, <3>1, SettledFacts DEF Histories
      <4> QED
        BY <1>2, <4>1, HistoriesStay
    <3>2. CASE f # Expired
      <4>1. f \in Times /\ S \in SUBSET Names
        BY <2>3, <3>2
      <4> HIDE DEF f, S
      <4>2. lost \in [Names -> SUBSET Times] /\ \A n \in Names : IsFiniteSet(lost[n])
        BY SettledFacts DEF Histories
      <4>3. lost' \in [Names -> SUBSET Times] /\ \A n \in Names : IsFiniteSet(lost'[n])
        BY <2>4, <4>1, <4>2, HistoryGrows
      <4> QED
        BY <1>2, <4>3, SettledFacts DEF Histories
    <3> QED
      BY <3>1, <3>2
  <2> HIDE DEF h
  <2>6. heap' \in [Deques -> Seq(F)]
    BY <2>2, <2>3, HeapKeeps
  <2> HIDE DEF r
  <2> QED
    BY <1>2, <2>1, <2>2, <2>5, <2>6, StepSettles
<1> QED
  BY <1>3, <1>4

LEMMA VerifySettles ==
  ASSUME Settled, NEW t \in Threads, Verify(t)
  PROVE  Settled'
<1>1. thr[t] \in ThreadState /\ InTurn(thr[t]) /\ thr[t].pc = "verify"
  BY SettledFacts DEF Verify
<1>2. dict' = dict /\ lost' = lost /\ Heap(heap)
  BY DEF Verify
<1>3. heap' \in [Deques -> Seq(Times \cup {Expired})]
  BY <1>2, SettledFacts, HeapKeeps
<1>4. CASE thr[t].good
  <2> DEFINE r == [thr[t] EXCEPT !.pc = "clear", !.key = thr[t].ip]
  <2>1. r \in ThreadState /\ InTurn(r) /\ r.held = Nil
    BY <1>1 DEF ThreadState, InTurn, InUse, LoginKeys
  <2>2. Set(t, r) /\ guesses' = guesses
    BY <1>4 DEF Verify
  <2> HIDE DEF r
  <2> QED
    BY <1>2, <1>3, <2>1, <2>2, HistoriesStay, StepSettles
<1>5. CASE ~thr[t].good
  <2> DEFINE m == thr[t].name
             f == Now
             r == [thr[t] EXCEPT !.pc = "get", !.phase = "record", !.key = thr[t].ip, !.fail = f]
  <2>1. f \in Times
    BY SettledFacts, NowIsNew
  <2>2. m \in Names
    BY <1>1 DEF InTurn
  <2>3. Set(t, r) /\ guesses' = [guesses EXCEPT ![m] = @ \cup {f}]
    BY <1>5 DEF Verify
  <2> HIDE DEF f
  <2>4. r \in ThreadState /\ InTurn(r) /\ r.held = Nil
    BY <1>1, <2>1 DEF ThreadState, InTurn, InUse, LoginKeys
  <2>5. Histories'
    <3>1. DOMAIN guesses = Names
      BY SettledFacts DEF Histories
    <3>2. guesses' = [n \in Names |-> IF n \in {m} THEN guesses[n] \cup {f} ELSE guesses[n]]
      BY <2>3, <3>1
    <3>3. /\ {m} \in SUBSET Names /\ guesses \in [Names -> SUBSET Times]
          /\ \A n \in Names : IsFiniteSet(guesses[n])
      BY <2>2, SettledFacts DEF Histories
    <3> HIDE DEF m
    <3>4. guesses' \in [Names -> SUBSET Times] /\ \A n \in Names : IsFiniteSet(guesses'[n])
      BY <2>1, <3>2, <3>3, HistoryGrows
    <3> QED
      BY <1>2, <3>4, SettledFacts DEF Histories
  <2> HIDE DEF r
  <2> QED
    BY <1>2, <1>3, <2>3, <2>4, <2>5, StepSettles
<1> QED
  BY <1>4, <1>5

\* What the defaultdict makes is nobody else's.
LEMMA GetMakes ==
  ASSUME Settled, NEW t \in Threads, Get(t), dict[thr[t].key] = Nil
  PROVE  \E d \in Deques :
           /\ d \notin Range(dict) \cup Held
           /\ dict' = [dict EXCEPT ![thr[t].key] = d]
           /\ Set(t, [thr[t] EXCEPT !.pc = "test", !.held = d])
<1> DEFINE k == thr[t].key
           d == CHOOSE d \in Deques : d \notin Range(dict) \cup Held
<1>1. k \in LoginKeys
  BY SettledFacts DEF Get, InTurn, LoginKeys
<1>2. \E e \in Deques : e \notin Range(dict) \cup Held
  BY <1>1, SettledFacts, DequeIsFree
<1>3. d \in Deques /\ d \notin Range(dict) \cup Held
  BY <1>2
<1>4. dict' = [dict EXCEPT ![k] = d] /\ Set(t, [thr[t] EXCEPT !.pc = "test", !.held = d])
  BY DEF Get
<1> QED
  BY <1>3, <1>4

LEMMA GetSettles ==
  ASSUME Settled, NEW t \in Threads, Get(t)
  PROVE  Settled'
<1> DEFINE k == thr[t].key
<1>1. /\ thr[t] \in ThreadState /\ InTurn(thr[t]) /\ thr[t].pc = "get" /\ k \in LoginKeys
  BY SettledFacts DEF Get, InTurn, LoginKeys
<1>2. Heap(heap) /\ UNCHANGED <<guesses, lost>>
  BY DEF Get
<1>3. heap' \in [Deques -> Seq(Times \cup {Expired})] /\ Histories'
  BY <1>2, SettledFacts, HeapKeeps, HistoriesStay
<1>4. CASE dict[k] # Nil
  <2> DEFINE r == [thr[t] EXCEPT !.pc = "test", !.held = dict[k]]
  <2>1. Set(t, r) /\ dict' = dict
    BY <1>4 DEF Get
  <2>2. dict[k] \in Deques
    BY <1>1, <1>4, SettledFacts
  <2>3. r \in ThreadState /\ InTurn(r) /\ r.key = k /\ r.held = dict[r.key]
    BY <1>1, <2>2 DEF ThreadState, InTurn, InUse
  <2> HIDE DEF r
  <2> QED
    BY <1>1, <1>3, <2>1, <2>3, StepSettles
<1>5. CASE dict[k] = Nil
  <2>1. PICK d \in Deques : /\ d \notin Range(dict) \cup Held
                            /\ dict' = [dict EXCEPT ![k] = d]
                            /\ Set(t, [thr[t] EXCEPT !.pc = "test", !.held = d])
    BY <1>5, GetMakes
  <2> DEFINE r == [thr[t] EXCEPT !.pc = "test", !.held = d]
  <2>2. r \in ThreadState /\ InTurn(r) /\ r.key = k /\ r.held = d
    BY <1>1 DEF ThreadState, InTurn, InUse
  <2> HIDE DEF r
  <2>3. /\ thr' \in [Threads -> ThreadState] /\ thr'[t] = r
        /\ \A u \in Threads : u # t => thr'[u] = thr[u]
    BY <2>1, <2>2, SetChangesOne DEF Settled, r
  <2>4. /\ dict' \in [LoginKeys -> Deques \cup {Nil}] /\ dict'[k] = d
        /\ \A l \in LoginKeys : l # k => dict'[l] = dict[l]
    BY <1>1, <2>1, SettledFacts
  <2>5. /\ \A l \in LoginKeys : dict[l] # d
        /\ \A u \in Threads : thr[u].held # d
    BY <2>1, SettledFacts DEF Range, Held
  <2>6. ThrottleTyped'
    BY <1>3, <2>3, <2>4 DEF ThrottleTyped
  <2>7. \A u \in Threads : InTurn(thr'[u])
    BY <2>2, <2>3 DEF Settled
  <2>8. \A l, m \in LoginKeys : dict'[l] # Nil /\ dict'[l] = dict'[m] => l = m
    BY <2>4, <2>5 DEF Settled, Owned
  <2>9. ASSUME NEW u \in Threads, NEW l \in LoginKeys, thr'[u].held # Nil, dict'[l] = thr'[u].held
        PROVE  l = thr'[u].key
    <3>1. CASE u = t
      BY <2>2, <2>3, <2>4, <2>5, <2>9, <3>1
    <3>2. CASE u # t
      BY <2>3, <2>4, <2>5, <2>9, <3>2 DEF Settled, Owned
    <3> QED
      BY <3>1, <3>2
  <2> QED
    BY <2>6, <2>7, <2>8, <2>9 DEF Settled, Owned
<1> QED
  BY <1>4, <1>5

LEMMA ClearSettles ==
  ASSUME Settled, NEW t \in Threads, Clear(t)
  PROVE  Settled'
<1> DEFINE k == thr[t].key
           r == IF k = thr[t].ip THEN [thr[t] EXCEPT !.key = thr[t].name] ELSE Idle
<1>1. /\ thr[t] \in ThreadState /\ InTurn(thr[t]) /\ thr[t].pc = "clear" /\ k \in LoginKeys
  BY SettledFacts DEF Clear, InTurn, LoginKeys
<1>2. r \in ThreadState /\ InTurn(r) /\ r.held = Nil
  <2>1. CASE k = thr[t].ip
    BY <1>1, <2>1 DEF ThreadState, InTurn, InUse, LoginKeys
  <2>2. CASE k # thr[t].ip
    BY <2>2, IdleIsState DEF Idle
  <2> QED
    BY <2>1, <2>2
<1>3. Set(t, r) /\ Heap(heap) /\ dict' = [dict EXCEPT ![k] = Nil]
  <2>1. thr' = [thr EXCEPT ![t] = IF k = thr[t].ip THEN [@ EXCEPT !.key = thr[t].name]
                                 ELSE Idle]
        /\ Heap(heap) /\ dict' = [dict EXCEPT ![k] = Nil]
    BY DEF Clear
  <2>2. thr' = [thr EXCEPT ![t] = r]
    BY <2>1, SettledFacts DEF ThrottleTyped
  <2> QED
    BY <2>1, <2>2 DEF Set
<1> HIDE DEF r
<1>4. heap' \in [Deques -> Seq(Times \cup {Expired})]
  BY <1>3, SettledFacts, HeapKeeps
<1>5. Histories'
  <2>1. /\ guesses' = IF k \in Names THEN [guesses EXCEPT ![k] = {}] ELSE guesses
        /\ lost' = IF k \in Names THEN [lost EXCEPT ![k] = {}] ELSE lost
    BY DEF Clear
  <2>2. IsFiniteSet({})
    BY FS_EmptySet
  <2> QED
    BY <2>1, <2>2, SettledFacts DEF Histories
<1>6. /\ thr' \in [Threads -> ThreadState] /\ thr'[t] = r
      /\ \A u \in Threads : u # t => thr'[u] = thr[u]
  BY <1>2, <1>3, SetChangesOne DEF Settled
<1>7. /\ dict' \in [LoginKeys -> Deques \cup {Nil}]
      /\ \A l \in LoginKeys : dict'[l] # Nil => dict'[l] = dict[l]
  BY <1>1, <1>3, SettledFacts
<1>8. ThrottleTyped'
  BY <1>4, <1>5, <1>6, <1>7 DEF ThrottleTyped
<1>9. \A u \in Threads : InTurn(thr'[u])
  BY <1>2, <1>6 DEF Settled
<1>10. Owned'
  <2>1. ASSUME NEW u \in Threads, NEW l \in LoginKeys, thr'[u].held # Nil, dict'[l] = thr'[u].held
        PROVE  l = thr'[u].key
    <3>1. u # t /\ thr'[u] = thr[u]
      BY <1>2, <1>6, <2>1
    <3> QED
      BY <1>7, <2>1, <3>1 DEF Settled, Owned
  <2>2. \A l, m \in LoginKeys : dict'[l] # Nil /\ dict'[l] = dict'[m] => l = m
    BY <1>7 DEF Settled, Owned
  <2> QED
    BY <2>1, <2>2 DEF Owned
<1> QED
  BY <1>8, <1>9, <1>10 DEF Settled

\* A failure after a tick; a set of them.
LEMMA LaterIsTime ==
  ASSUME NEW f \in Times \cup {Expired}
  PROVE  Later(f) \in Times \cup {Expired} /\ Later(Expired) = Expired
<1>1. Window \in Nat
  BY LimitIsNat
<1>2. Later(Expired) = Expired
  BY <1>1 DEF Later, Expired
<1>3. ASSUME f \in Times PROVE Later(f) \in Times \cup {Expired}
  <2>1. f.age \in 0..Window /\ f.nr \in Nat /\ f = [age |-> f.age, nr |-> f.nr]
    BY <1>3 DEF Times
  <2>2. CASE f.age < Window
    <3>1. Later(f) = [age |-> f.age + 1, nr |-> f.nr]
      BY <2>1, <2>2 DEF Later
    <3> QED
      BY <1>1, <2>1, <2>2, <3>1 DEF Times
  <2>3. CASE ~(f.age < Window)
    BY <2>3 DEF Later
  <2> QED
    BY <2>2, <2>3
<1> QED
  BY <1>2, <1>3

LEMMA AgedIsHistory ==
  ASSUME NEW S \in SUBSET Times, IsFiniteSet(S)
  PROVE  AllLater(S) \in SUBSET Times /\ IsFiniteSet(AllLater(S))
<1> DEFINE L == [f \in S |-> Later(f)]
<1>1. IsFiniteSet({L[f] : f \in S})
  BY ImageIsSmaller
<1>2. {L[f] : f \in S} = {Later(f) : f \in S}
  OBVIOUS
<1>3. AllLater(S) \subseteq {Later(f) : f \in S}
  BY DEF AllLater
<1>4. AllLater(S) \in SUBSET Times
  BY LaterIsTime DEF AllLater
<1> QED
  BY <1>1, <1>2, <1>3, <1>4, FS_Subset

LEMMA TimeSettles ==
  ASSUME Settled, TimePasses
  PROVE  Settled'
<1>1. /\ dict' = dict
      /\ heap' = [d \in Deques |-> [i \in DOMAIN heap[d] |-> Later(heap[d][i])]]
      /\ thr' = [t \in Threads |-> [thr[t] EXCEPT !.fail = Later(@)]]
      /\ guesses' = [n \in Names |-> AllLater(guesses[n])]
      /\ lost' = [n \in Names |-> AllLater(lost[n])]
  BY DEF TimePasses
<1>2. heap' \in [Deques -> Seq(Times \cup {Expired})]
  <2>1. ASSUME NEW d \in Deques PROVE heap'[d] \in Seq(Times \cup {Expired})
    <3>1. /\ heap[d] \in Seq(Times \cup {Expired})
          /\ heap'[d] = [i \in DOMAIN heap[d] |-> Later(heap[d][i])]
      BY <1>1, SettledFacts DEF Settled, ThrottleTyped
    <3>2. DOMAIN heap[d] = 1..Len(heap[d]) /\ Len(heap[d]) \in Nat
      BY <3>1
    <3>3. \A i \in 1..Len(heap[d]) : heap'[d][i] \in Times \cup {Expired}
      BY <3>1, <3>2, LaterIsTime
    <3>4. heap'[d] = [i \in 1..Len(heap[d]) |-> heap'[d][i]]
      BY <3>1, <3>2
    <3> QED
      BY <3>2, <3>3, <3>4
  <2> QED
    BY <1>1, <2>1
<1>3. ASSUME NEW t \in Threads
      PROVE  /\ thr'[t] \in ThreadState /\ InTurn(thr'[t])
             /\ thr'[t].held = thr[t].held /\ thr'[t].key = thr[t].key
  <2>1. /\ thr[t] \in ThreadState /\ InTurn(thr[t])
        /\ thr'[t] = [thr[t] EXCEPT !.fail = Later(thr[t].fail)]
    BY <1>1, SettledFacts
  <2>2. Later(thr[t].fail) \in Times \cup {Expired}
    BY <2>1, LaterIsTime DEF ThreadState
  <2> QED
    BY <2>1, <2>2 DEF ThreadState, InTurn, InUse
<1>4. Histories'
  <2>1. \A n \in Names : /\ AllLater(guesses[n]) \in SUBSET Times /\ IsFiniteSet(AllLater(guesses[n]))
                         /\ AllLater(lost[n]) \in SUBSET Times /\ IsFiniteSet(AllLater(lost[n]))
    BY AgedIsHistory DEF Settled, ThrottleTyped, Histories
  <2> QED
    BY <1>1, <2>1 DEF Histories
<1>5. thr' \in [Threads -> ThreadState]
  BY <1>1, <1>3
<1>6. ThrottleTyped'
  BY <1>1, <1>2, <1>4, <1>5 DEF Settled, ThrottleTyped
<1>7. Owned'
  BY <1>1, <1>3 DEF Settled, Owned
<1> QED
  BY <1>3, <1>6, <1>7 DEF Settled

LEMMA PartsOfAccount ==
  ASSUME Settled, NEW n \in Names
  PROVE  /\ IsFiniteSet(Tried(n)) /\ Cardinality(Tried(n)) \in Nat
         /\ IsFiniteSet(Verifying(n)) /\ Cardinality(Verifying(n)) \in Nat
         /\ IsFiniteSet(Passing(n)) /\ Cardinality(Passing(n)) \in Nat
         /\ IsFiniteSet(Recording(n)) /\ Cardinality(Recording(n)) \in Nat
<1>1. IsFiniteSet(Tried(n))
  <2>1. IsFiniteSet(guesses[n])
    BY DEF Settled, ThrottleTyped, Histories
  <2> QED
    BY <2>1, FS_Difference DEF Tried
<1>2. IsFiniteSet(Verifying(n)) /\ IsFiniteSet(Passing(n)) /\ IsFiniteSet(Recording(n))
  BY LoginThrottleAssumption, FS_Subset DEF Verifying, Passing, Recording
<1> QED
  BY <1>1, <1>2, FS_CardinalityType

\* Threads before the check's end, in it and after it are not the same ones.
LEMMA ThreadsApart ==
  ASSUME NEW n, NEW t \in Threads,
         t \notin Recording(n) \cup Verifying(n) \cup Passing(n),
         Settled
  PROVE  /\ Cardinality(Recording(n)) + Cardinality(Verifying(n)) + Cardinality(Passing(n))
              <= Cardinality(Threads) - 1
         /\ IsFiniteSet(Recording(n)) /\ Cardinality(Recording(n)) \in Nat
         /\ IsFiniteSet(Verifying(n)) /\ Cardinality(Verifying(n)) \in Nat
         /\ IsFiniteSet(Passing(n)) /\ Cardinality(Passing(n)) \in Nat
<1> DEFINE R == Recording(n)
           V == Verifying(n)
           P == Passing(n)
<1>1. R \subseteq Threads \ {t} /\ V \subseteq Threads \ {t} /\ P \subseteq Threads \ {t}
  BY DEF Recording, Verifying, Passing
<1>2. R \cap V = {} /\ (R \cup V) \cap P = {}
  <2>1. ASSUME NEW u \in Threads, thr[u].pc = "verify"
        PROVE  thr[u].phase = "check" /\ ~InUse(thr[u])
    BY <2>1, SettledFacts DEF InTurn, InUse
  <2> QED
    BY <2>1 DEF Recording, Verifying, Passing, Stale
<1> HIDE DEF R, V, P
<1>3. IsFiniteSet(Threads \ {t}) /\ Cardinality(Threads \ {t}) = Cardinality(Threads) - 1
  BY LoginThrottleAssumption, FS_RemoveElement
<1>4. IsFiniteSet(R) /\ IsFiniteSet(V) /\ IsFiniteSet(P)
  BY <1>1, <1>3, FS_Subset
<1>5. Cardinality(R) \in Nat /\ Cardinality(V) \in Nat /\ Cardinality(P) \in Nat
  BY <1>4, FS_CardinalityType
<1>6. Cardinality({}) = 0
  BY FS_EmptySet
<1>7. IsFiniteSet(R \cup V) /\ Cardinality(R \cup V) = Cardinality(R) + Cardinality(V)
  <2>1. /\ IsFiniteSet(R \cup V)
        /\ Cardinality(R \cup V) = Cardinality(R) + Cardinality(V) - Cardinality(R \cap V)
    BY <1>4, FS_Union
  <2>2. R \cap V = {}
    BY <1>2
  <2>3. Cardinality(R \cup V) = Cardinality(R) + Cardinality(V) - 0
    BY <1>6, <2>1, <2>2
  <2> QED
    BY <1>5, <2>1, <2>3
<1>8. Cardinality((R \cup V) \cup P) = Cardinality(R) + Cardinality(V) + Cardinality(P)
  <2>1. Cardinality((R \cup V) \cup P) =
          Cardinality(R \cup V) + Cardinality(P) - Cardinality((R \cup V) \cap P)
    BY <1>4, <1>7, FS_Union
  <2> QED
    <3>1. Cardinality((R \cup V) \cap P) = 0
      BY <1>2, <1>6
    <3> QED
      BY <1>5, <1>7, <2>1, <3>1
<1>9. Cardinality((R \cup V) \cup P) <= Cardinality(Threads \ {t})
  <2>1. (R \cup V) \cup P \in SUBSET (Threads \ {t})
    BY <1>1
  <2> QED
    BY <1>3, <2>1, FS_Subset
<1> QED
  BY <1>3, <1>4, <1>5, <1>8, <1>9 DEF R, V, P

-----------------------------------------------------------------------------
\* One account: its failures, and the threads about it.

LEMMA CountShrinks ==
  ASSUME Settled, NEW n \in Names, Counted(n), Tried(n)' \subseteq Tried(n),
         Verifying(n)' \subseteq Verifying(n), Passing(n)' \subseteq Passing(n)
  PROVE  Counted(n)'
<1>1. IsFiniteSet(Tried(n)) /\ IsFiniteSet(Verifying(n)) /\ IsFiniteSet(Passing(n))
  BY PartsOfAccount
<1>2. /\ IsFiniteSet(Tried(n)') /\ Cardinality(Tried(n)') <= Cardinality(Tried(n))
      /\ IsFiniteSet(Verifying(n)') /\ Cardinality(Verifying(n)') <= Cardinality(Verifying(n))
      /\ IsFiniteSet(Passing(n)') /\ Cardinality(Passing(n)') <= Cardinality(Passing(n))
  BY <1>1, FS_Subset
<1>3. /\ Cardinality(Tried(n)) \in Nat /\ Cardinality(Tried(n)') \in Nat
      /\ Cardinality(Verifying(n)) \in Nat /\ Cardinality(Verifying(n)') \in Nat
      /\ Cardinality(Passing(n)) \in Nat /\ Cardinality(Passing(n)') \in Nat
  BY <1>1, <1>2, FS_CardinalityType
<1>4. Cardinality(Tried(n)) + Cardinality(Verifying(n)) + Cardinality(Passing(n))
        <= MaxFailures + Cardinality(Threads) - 1
  BY DEF Counted
<1>5. Cardinality(Tried(n)') + Cardinality(Verifying(n)') + Cardinality(Passing(n)')
        <= MaxFailures + Cardinality(Threads) - 1
  BY <1>2, <1>3, <1>4, LimitIsNat
<1> QED
  BY <1>5 DEF Counted

\* A step of one thread leaves the others where they are.
LEMMA OthersStay ==
  ASSUME Settled, NEW n \in Names, NEW t \in Threads, NEW r \in ThreadState, Set(t, r),
         dict'[n] = dict[n], NEW u \in Threads, u # t
  PROVE  /\ u \in Verifying(n)' <=> u \in Verifying(n)
         /\ u \in Passing(n)' <=> u \in Passing(n)
         /\ u \in Recording(n)' <=> u \in Recording(n)
         /\ thr'[u] = thr[u]
<1>1. thr'[u] = thr[u]
  BY SetChangesOne DEF Settled
<1> QED
  BY <1>1 DEF Verifying, Passing, Recording, Stale

LEMMA StepCounts ==
  ASSUME Settled, NEW n \in Names, NEW t \in Threads, NEW r \in ThreadState, Set(t, r),
         dict'[n] = dict[n], Counted(n), Tried(n)' \subseteq Tried(n),
         r.pc = "verify" /\ r.name = n => t \in Verifying(n),
         r.phase = "check" /\ InUse(r) /\ r.key = n /\ r.held # dict[n] => t \in Passing(n)
  PROVE  Counted(n)'
<1>1. thr'[t] = r
  BY SetChangesOne DEF Settled
<1>2. Verifying(n)' \subseteq Verifying(n)
  <2> SUFFICES ASSUME NEW u \in Threads, u \in Verifying(n)' PROVE u \in Verifying(n)
    BY DEF Verifying
  <2>1. CASE u = t
    BY <1>1, <2>1 DEF Verifying
  <2>2. CASE u # t
    BY <2>2, OthersStay
  <2> QED
    BY <2>1, <2>2
<1>3. Passing(n)' \subseteq Passing(n)
  <2> SUFFICES ASSUME NEW u \in Threads, u \in Passing(n)' PROVE u \in Passing(n)
    BY DEF Passing
  <2>1. CASE u = t
    BY <1>1, <2>1 DEF Passing, Stale
  <2>2. CASE u # t
    BY <2>2, OthersStay
  <2> QED
    BY <2>1, <2>2
<1> QED
  BY <1>2, <1>3, CountShrinks

LEMMA StepCovers ==
  ASSUME Settled, NEW n \in Names, NEW t \in Threads, NEW r \in ThreadState, Set(t, r),
         dict'[n] = dict[n], Covered(n), Tried(n)' \subseteq Tried(n),
         \A g \in Tried(n)' : g \in Listed(n) => g \in Listed(n)',
         t \in Recording(n) /\ thr[t].fail \in Tried(n)'
           => \/ thr[t].fail \in Listed(n)'
              \/ /\ r.phase = "record" /\ r.name = n /\ r.fail = thr[t].fail
                 /\ ~(InUse(r) /\ r.key = n /\ r.held # dict[n])
  PROVE  Covered(n)'
<1>1. thr'[t] = r
  BY SetChangesOne DEF Settled
<1>2. ASSUME NEW g \in Tried(n)'
      PROVE  g \in Listed(n)' \/ \E u \in Recording(n)' : g = thr'[u].fail
  <2>1. CASE g \in Listed(n)
    BY <2>1
  <2>2. CASE g \notin Listed(n)
    <3>1. PICK u \in Recording(n) : g = thr[u].fail
      BY <1>2, <2>2 DEF Covered
    <3>2. u \in Threads
      BY <3>1 DEF Recording
    <3>3. CASE u = t
      <4>1. CASE g \in Listed(n)'
        BY <4>1
      <4>2. CASE g \notin Listed(n)'
        <5>1. /\ r.phase = "record" /\ r.name = n /\ r.fail = g
              /\ ~(InUse(r) /\ r.key = n /\ r.held # dict[n])
          BY <1>2, <3>1, <3>3, <4>2
        <5>2. t \in Recording(n)' /\ thr'[t].fail = g
          BY <1>1, <5>1 DEF Recording, Stale
        <5> QED
          BY <5>2
      <4> QED
        BY <4>1, <4>2
    <3>4. CASE u # t
      <4>1. u \in Recording(n)' /\ thr'[u] = thr[u]
        BY <3>1, <3>2, <3>4, OthersStay
      <4> QED
        BY <3>1, <4>1
    <3> QED
      BY <3>3, <3>4
  <2> QED
    BY <2>1, <2>2
<1> QED
  BY <1>2 DEF Covered

\* A deque that nobody writes to keeps the failures of its account.
LEMMA ListStays ==
  ASSUME Settled, NEW n \in Names, NEW h \in [Deques -> Seq(Times \cup {Expired})], Heap(h),
         dict' \in [LoginKeys -> Deques \cup {Nil}], dict'[n] = dict[n],
         dict[n] \in Deques => h[dict[n]] = heap[dict[n]]
  PROVE  Listed(n)' = Listed(n)
<1>1. n \in LoginKeys /\ dict[n] \in Deques \cup {Nil}
  BY SettledFacts DEF LoginKeys, Settled, ThrottleTyped
<1>2. CASE dict[n] = Nil
  BY <1>2 DEF Listed
<1>3. CASE dict[n] \in Deques
  <2>1. heap'[dict'[n]] = h[dict'[n]]
    BY <1>1, <1>3, HeapKeeps
  <2>2. dict[n] # Nil
    BY <1>3, LoginThrottleAssumption
  <2>3. Listed(n)' = Range(heap'[dict'[n]])
    BY <2>2 DEF Listed
  <2> QED
    BY <1>3, <2>1, <2>2, <2>3 DEF Listed
<1> QED
  BY <1>1, <1>2, <1>3

\* Keys are addresses or names, never both.
LEMMA KeyOfName ==
  ASSUME Settled, NEW n \in Names, NEW t \in Threads, thr[t].pc # "idle", thr[t].key = n
  PROVE  thr[t].name = n /\ thr[t].ip # n
BY SettledFacts, LoginThrottleAssumption DEF InTurn

LEMMA BeginCounts ==
  ASSUME ThrottleInv, NEW n \in Names, NEW t \in Threads, NEW ip \in Ips, NEW name \in Names,
         NEW good \in BOOLEAN, Begin(t, ip, name, good)
  PROVE  Covered(n)' /\ Counted(n)'
<1> DEFINE r == [Idle EXCEPT !.pc = "get", !.ip = ip, !.name = name, !.good = good, !.key = ip]
<1>1. Settled /\ Covered(n) /\ Counted(n)
  BY DEF ThrottleInv
<1>2. r \in ThreadState /\ r.pc = "get"
  BY DEF Idle, ThreadState, Expired, LoginKeys
<1>3. Set(t, r) /\ dict' = dict /\ Heap(heap) /\ UNCHANGED <<guesses, lost>>
  BY DEF Begin
<1>4. t \notin Recording(n)
  BY <1>1, SettledFacts DEF Begin, Recording, InTurn
<1>5. Tried(n)' = Tried(n) /\ Listed(n)' = Listed(n)
  BY <1>1, <1>3, SettledFacts, ListStays DEF Tried
<1>6. ~InUse(r)
  BY <1>2 DEF InUse
<1> HIDE DEF r
<1>7. Covered(n)'
  BY <1>1, <1>2, <1>3, <1>4, <1>5, StepCovers
<1>8. Counted(n)'
  BY <1>1, <1>2, <1>3, <1>5, <1>6, StepCounts
<1> QED
  BY <1>7, <1>8

LEMMA TestCounts ==
  ASSUME ThrottleInv, NEW n \in Names, NEW t \in Threads, Test(t)
  PROVE  Covered(n)' /\ Counted(n)'
<1> DEFINE s == heap[thr[t].held]
           pc == IF s # <<>> /\ Head(s) = Expired THEN "pop" ELSE "ready"
           r == [thr[t] EXCEPT !.pc = pc]
<1>1. Settled /\ Covered(n) /\ Counted(n)
  BY DEF ThrottleInv
<1>2. thr[t] \in ThreadState /\ thr[t].pc = "test"
  BY <1>1, SettledFacts DEF Test
<1>3. /\ r \in ThreadState /\ r.pc \in {"pop", "ready"} /\ r.held = thr[t].held
      /\ r.key = thr[t].key /\ r.phase = thr[t].phase /\ r.name = thr[t].name
      /\ r.fail = thr[t].fail
  BY <1>2 DEF ThreadState
<1>4. Set(t, r) /\ dict' = dict /\ Heap(heap) /\ UNCHANGED <<guesses, lost>>
  BY <1>1, SettledFacts DEF Test, Set, ThrottleTyped
<1>5. Tried(n)' = Tried(n) /\ Listed(n)' = Listed(n)
  BY <1>1, <1>4, SettledFacts, ListStays DEF Tried
<1>6. InUse(thr[t]) /\ InUse(r)
  BY <1>2, <1>3 DEF InUse
<1> HIDE DEF r
<1>7. Covered(n)'
  <2>1. t \in Recording(n) =>
          /\ r.phase = "record" /\ r.name = n /\ r.fail = thr[t].fail
          /\ ~(InUse(r) /\ r.key = n /\ r.held # dict[n])
    BY <1>3, <1>6 DEF Recording, Stale
  <2> QED
    BY <1>1, <1>3, <1>4, <1>5, <2>1, StepCovers
<1>8. Counted(n)'
  <2>1. r.phase = "check" /\ r.key = n /\ r.held # dict[n] => t \in Passing(n)
    BY <1>3, <1>6 DEF Passing, Stale
  <2> QED
    BY <1>1, <1>3, <1>4, <1>5, <2>1, StepCounts
<1> QED
  BY <1>7, <1>8

\* The check of an account whose deque the thread has: fewer failures are listed than the
\* limit, and the others tried are still to be recorded.
LEMMA TriedIsListed ==
  ASSUME ThrottleInv, NEW n \in Names, dict[n] \in Deques, Len(heap[dict[n]]) < MaxFailures
  PROVE  Cardinality(Tried(n)) <= Cardinality(Recording(n)) + MaxFailures - 1
<1> DEFINE F == [t \in Recording(n) |-> thr[t].fail]
           P == {F[t] : t \in Recording(n)}
           L == Range(heap[dict[n]])
<1>1. IsFiniteSet(Recording(n)) /\ Cardinality(Recording(n)) \in Nat
  BY PartsOfAccount DEF ThrottleInv
<1>2. IsFiniteSet(P) /\ Cardinality(P) <= Cardinality(Recording(n)) /\ Cardinality(P) \in Nat
  BY <1>1, ImageIsSmaller, FS_CardinalityType
<1>3. /\ IsFiniteSet(L) /\ Cardinality(L) <= MaxFailures - 1 /\ Cardinality(L) \in Nat
  <2>1. heap[dict[n]] \in Seq(Times \cup {Expired})
    BY DEF ThrottleInv, Settled, ThrottleTyped
  <2>2. IsFiniteSet(L) /\ Cardinality(L) <= Len(heap[dict[n]]) /\ Len(heap[dict[n]]) \in Nat
    BY <2>1, ListIsFinite
  <2> QED
    BY <2>2, FS_CardinalityType, LimitIsNat
<1>4. Tried(n) \subseteq P \cup L
  <2>1. dict[n] # Nil
    BY LoginThrottleAssumption
  <2>2. P = {thr[t].fail : t \in Recording(n)}
    OBVIOUS
  <2> QED
    BY <2>1, <2>2 DEF ThrottleInv, Covered, Listed
<1> HIDE DEF P, L
<1>5. IsFiniteSet(P \cup L) /\ Cardinality(P \cup L) <= Cardinality(P) + Cardinality(L)
  <2>1. /\ IsFiniteSet(P \cup L)
        /\ Cardinality(P \cup L) = Cardinality(P) + Cardinality(L) - Cardinality(P \cap L)
    BY <1>2, <1>3, FS_Union
  <2>2. Cardinality(P \cap L) \in Nat
    BY <1>2, FS_Intersection, FS_CardinalityType
  <2> QED
    BY <1>2, <1>3, <2>1, <2>2
<1>6. Cardinality(Tried(n)) <= Cardinality(P \cup L)
  BY <1>4, <1>5, FS_Subset
<1>7. Cardinality(Tried(n)) \in Nat /\ Cardinality(P \cup L) \in Nat
  BY <1>5, PartsOfAccount, FS_CardinalityType DEF ThrottleInv
<1> QED
  BY <1>1, <1>2, <1>3, <1>5, <1>6, <1>7, LimitIsNat

LEMMA CheckCounts ==
  ASSUME ThrottleInv, NEW n \in Names, NEW t \in Threads, Check(t)
  PROVE  Covered(n)' /\ Counted(n)'
<1> DEFINE a == [thr[t] EXCEPT !.pc = "verify", !.held = Nil]
           full == Len(heap[thr[t].held]) >= MaxFailures
           r == IF full THEN Idle ELSE Onward(t, a)
<1>1. Settled /\ Covered(n) /\ Counted(n)
  BY DEF ThrottleInv
<1>2. /\ thr[t] \in ThreadState /\ thr[t].pc = "ready" /\ thr[t].phase = "check"
      /\ InTurn(thr[t]) /\ InUse(thr[t])
  BY <1>1, SettledFacts DEF Check, InUse
<1>3. a \in ThreadState /\ InTurn(a) /\ a.held = Nil /\ a.pc = "verify" /\ a.name = thr[t].name
  BY <1>2 DEF ThreadState, InTurn, InUse
<1>4. r \in ThreadState /\ InTurn(r) /\ ~InUse(r)
      /\ (r.pc = "verify" => ~full /\ r = a /\ thr[t].key # thr[t].ip)
  <2> HIDE DEF a
  <2>1. Idle.held = Nil /\ Idle.pc = "idle"
    BY DEF Idle
  <2>2. /\ Onward(t, a) \in ThreadState /\ InTurn(Onward(t, a)) /\ Onward(t, a).held = Nil
        /\ (Onward(t, a).pc = "verify" => Onward(t, a) = a /\ thr[t].key # thr[t].ip)
    <3>1. /\ Onward(t, a) \in ThreadState /\ InTurn(Onward(t, a)) /\ Onward(t, a).held = Nil
      BY <1>1, <1>2, <1>3, OnwardSettles
    <3>2. thr[t].key = thr[t].ip => Onward(t, a).pc = "get"
      BY <1>2 DEF Onward, ThreadState
    <3>3. thr[t].key # thr[t].ip => Onward(t, a) = a
      BY DEF Onward
    <3> QED
      BY <3>1, <3>2, <3>3
  <2>3. r \in ThreadState /\ InTurn(r) /\ r.held = Nil
    BY <2>1, <2>2, IdleIsState
  <2>4. ~InUse(r)
    BY <2>3, LoginThrottleAssumption DEF InTurn
  <2> QED
    BY <2>1, <2>2, <2>3, <2>4
<1>5. Set(t, r) /\ dict' = dict /\ Heap(heap) /\ UNCHANGED <<guesses, lost>>
  BY DEF Check
<1>6. Tried(n)' = Tried(n) /\ Listed(n)' = Listed(n)
  BY <1>1, <1>5, SettledFacts, ListStays DEF Tried
<1>7. t \notin Recording(n) /\ t \notin Verifying(n)
  BY <1>2 DEF Recording, Verifying
<1> HIDE DEF r, a
<1>8. Covered(n)'
  BY <1>1, <1>4, <1>5, <1>6, <1>7, StepCovers
<1>9. Counted(n)'
  <2>1. CASE ~(r.pc = "verify" /\ r.name = n)
    BY <1>1, <1>4, <1>5, <1>6, <2>1, StepCounts
  <2>2. CASE r.pc = "verify" /\ r.name = n
    <3>1. thr[t].name = n /\ thr[t].key = n /\ ~full
      BY <1>2, <1>3, <1>4, <2>2 DEF InTurn
    <3>2. thr'[t] = r
      BY <1>1, <1>4, <1>5, SetChangesOne DEF Settled
    <3>3. Verifying(n)' = Verifying(n) \cup {t}
      <4>1. ASSUME NEW u \in Threads
            PROVE  u \in Verifying(n)' <=> u \in Verifying(n) \/ u = t
        <5>1. CASE u = t
          BY <2>2, <3>2, <5>1 DEF Verifying
        <5>2. CASE u # t
          BY <1>1, <1>4, <1>5, <5>2, OthersStay
        <5> QED
          BY <5>1, <5>2
      <4> QED
        BY <4>1 DEF Verifying
    <3>4. Passing(n)' = Passing(n) \ {t}
      <4>1. ASSUME NEW u \in Threads
            PROVE  u \in Passing(n)' <=> u \in Passing(n) /\ u # t
        <5>1. CASE u = t
          BY <1>4, <3>2, <5>1 DEF Passing, Stale
        <5>2. CASE u # t
          BY <1>1, <1>4, <1>5, <5>2, OthersStay
        <5> QED
          BY <5>1, <5>2
      <4> QED
        BY <4>1 DEF Passing
    <3>5. /\ IsFiniteSet(Verifying(n)) /\ Cardinality(Verifying(n)) \in Nat
          /\ IsFiniteSet(Passing(n)) /\ Cardinality(Passing(n)) \in Nat
          /\ Cardinality(Tried(n)) \in Nat /\ Cardinality(Recording(n)) \in Nat
      BY <1>1, PartsOfAccount
    <3>6. /\ Cardinality(Verifying(n)') = Cardinality(Verifying(n)) + 1
          /\ Cardinality(Passing(n)') =
               IF t \in Passing(n) THEN Cardinality(Passing(n)) - 1 ELSE Cardinality(Passing(n))
      <4>1. Cardinality(Verifying(n) \cup {t}) = Cardinality(Verifying(n)) + 1
        BY <1>7, <3>5, FS_AddElement
      <4>2. Cardinality(Passing(n) \ {t}) =
              IF t \in Passing(n) THEN Cardinality(Passing(n)) - 1 ELSE Cardinality(Passing(n))
        BY <3>5, FS_RemoveElement
      <4> QED
        BY <3>3, <3>4, <4>1, <4>2
    <3>7. CASE t \in Passing(n)
      <4>1. Cardinality(Tried(n)) + Cardinality(Verifying(n)) + Cardinality(Passing(n))
              <= MaxFailures + Cardinality(Threads) - 1
        BY <1>1 DEF Counted
      <4>2. Cardinality(Tried(n)') + Cardinality(Verifying(n)') + Cardinality(Passing(n)')
              <= MaxFailures + Cardinality(Threads) - 1
        BY <1>6, <3>5, <3>6, <3>7, <4>1, LimitIsNat
      <4> QED
        BY <4>2 DEF Counted
    <3>8. CASE t \notin Passing(n)
      <4>1. thr[t].held = dict[n] /\ thr[t].held \in Deques
        BY <1>2, <3>1, <3>8 DEF Passing, Stale, InTurn
      <4>2. Cardinality(Tried(n)) <= Cardinality(Recording(n)) + MaxFailures - 1
        <5>1. Len(heap[dict[n]]) < MaxFailures
          <6>1. heap[dict[n]] \in Seq(Times \cup {Expired})
            BY <1>1, <4>1 DEF Settled, ThrottleTyped
          <6>2. Len(heap[dict[n]]) \in Nat
            BY <6>1
          <6> QED
            BY <3>1, <4>1, <6>2, LimitIsNat
        <5> QED
          BY <4>1, <5>1, TriedIsListed
      <4>3. Cardinality(Recording(n)) + Cardinality(Verifying(n)) + Cardinality(Passing(n))
              <= Cardinality(Threads) - 1
        BY <1>1, <1>7, <3>8, ThreadsApart
      <4>4. Cardinality(Tried(n)') + Cardinality(Verifying(n)') + Cardinality(Passing(n)')
              <= MaxFailures + Cardinality(Threads) - 1
        BY <1>6, <3>5, <3>6, <3>8, <4>2, <4>3, LimitIsNat
      <4> QED
        BY <4>4 DEF Counted
    <3> QED
      BY <3>7, <3>8
  <2> QED
    BY <2>1, <2>2
<1> QED
  BY <1>8, <1>9

LEMMA VerifyCounts ==
  ASSUME ThrottleInv, NEW n \in Names, NEW t \in Threads, Verify(t)
  PROVE  Covered(n)' /\ Counted(n)'
<1>1. Settled /\ Covered(n) /\ Counted(n)
  BY DEF ThrottleInv
<1>2. /\ thr[t] \in ThreadState /\ thr[t].pc = "verify" /\ thr[t].phase = "check"
      /\ InTurn(thr[t]) /\ ~InUse(thr[t]) /\ thr[t].held = Nil
  BY <1>1, SettledFacts DEF Verify, InTurn, InUse
<1>3. dict' = dict /\ lost' = lost /\ Heap(heap)
  BY DEF Verify
<1>4. Listed(n)' = Listed(n)
  BY <1>1, <1>3, SettledFacts, ListStays
<1>5. t \notin Recording(n) /\ t \notin Passing(n)
  BY <1>2 DEF Recording, Passing, Stale
<1>6. CASE thr[t].good \/ thr[t].name # n
  <2> DEFINE r == thr'[t]
  <2>1. /\ Set(t, r) /\ r \in ThreadState /\ r.pc \in {"get", "clear"} /\ r.phase \in {"check", "record"}
        /\ Tried(n)' = Tried(n)
    <3>1. CASE thr[t].good
      <4> DEFINE q == [thr[t] EXCEPT !.pc = "clear", !.key = thr[t].ip]
      <4>1. q \in ThreadState /\ q.pc = "clear"
        BY <1>2 DEF ThreadState, InTurn, LoginKeys
      <4>2. Set(t, q) /\ guesses' = guesses
        BY <3>1 DEF Verify
      <4> HIDE DEF q
      <4>3. r = q
        BY <1>1, <4>1, <4>2, SetChangesOne DEF Settled
      <4> HIDE DEF r
      <4> QED
        BY <1>3, <4>1, <4>2, <4>3 DEF Tried, ThreadState
    <3>2. CASE ~thr[t].good
      <4> DEFINE f == Now
                 q == [thr[t] EXCEPT !.pc = "get", !.phase = "record", !.key = thr[t].ip, !.fail = f]
      <4>1. f \in Times
        BY <1>1, NowIsNew DEF Settled
      <4>2. Set(t, q) /\ guesses' = [guesses EXCEPT ![thr[t].name] = @ \cup {f}]
        BY <3>2 DEF Verify
      <4> HIDE DEF f
      <4>3. q \in ThreadState /\ q.pc = "get"
        BY <1>2, <4>1 DEF ThreadState, InTurn, LoginKeys
      <4> HIDE DEF q
      <4>4. r = q
        BY <1>1, <4>2, <4>3, SetChangesOne DEF Settled
      <4>5. guesses'[n] = guesses[n]
        BY <1>1, <1>6, <3>2, <4>2, SettledFacts DEF Histories
      <4> HIDE DEF r
      <4> QED
        BY <1>3, <4>2, <4>3, <4>4, <4>5 DEF Tried, ThreadState
    <3> QED
      BY <3>1, <3>2
  <2>2. ~InUse(r)
    BY <2>1 DEF InUse
  <2> HIDE DEF r
  <2>3. Covered(n)'
    BY <1>1, <1>3, <1>4, <1>5, <2>1, StepCovers
  <2>4. Counted(n)'
    BY <1>1, <1>3, <2>1, <2>2, StepCounts
  <2> QED
    BY <2>3, <2>4
<1>7. CASE ~thr[t].good /\ thr[t].name = n
  <2> DEFINE f == Now
             r == [thr[t] EXCEPT !.pc = "get", !.phase = "record", !.key = thr[t].ip, !.fail = f]
  <2>1. f \in Times
    BY <1>1, NowIsNew DEF Settled
  <2>2. Set(t, r) /\ guesses' = [guesses EXCEPT ![n] = @ \cup {f}]
    BY <1>7 DEF Verify
  <2> HIDE DEF f
  <2>3. /\ r \in ThreadState /\ r.pc = "get" /\ r.phase = "record" /\ r.name = n /\ r.fail = f
    BY <1>2, <1>7, <2>1 DEF ThreadState, InTurn, LoginKeys
  <2>4. ~InUse(r)
    BY <2>3 DEF InUse
  <2> HIDE DEF r
  <2>5. thr'[t] = r /\ guesses'[n] = guesses[n] \cup {f}
    BY <1>1, <2>2, <2>3, SetChangesOne, SettledFacts DEF Histories, Settled
  <2>6. t \in Recording(n)'
    BY <2>3, <2>4, <2>5 DEF Recording, Stale
  <2>7. Tried(n)' \subseteq Tried(n) \cup {f}
    BY <1>3, <2>5 DEF Tried
  <2>8. ASSUME NEW g \in Tried(n)'
        PROVE  g \in Listed(n)' \/ \E u \in Recording(n)' : g = thr'[u].fail
    <3>1. CASE g = f
      BY <2>3, <2>5, <2>6, <3>1
    <3>2. CASE g \in Listed(n)
      BY <1>4, <3>2
    <3>3. CASE g # f /\ g \notin Listed(n)
      <4>1. PICK u \in Recording(n) : g = thr[u].fail
        BY <1>1, <2>7, <2>8, <3>3 DEF Covered
      <4>2. u \in Threads /\ u # t
        BY <1>5, <4>1 DEF Recording
      <4>3. u \in Recording(n)' /\ thr'[u] = thr[u]
        BY <1>1, <1>3, <2>2, <2>3, <4>1, <4>2, OthersStay
      <4> QED
        BY <4>1, <4>3
    <3> QED
      BY <3>1, <3>2, <3>3
  <2>9. Covered(n)'
    BY <2>8 DEF Covered
  <2>10. Verifying(n)' \subseteq Verifying(n) \ {t} /\ Passing(n)' \subseteq Passing(n)
    <3>1. ASSUME NEW u \in Threads
          PROVE  /\ u \in Verifying(n)' => u \in Verifying(n) /\ u # t
                 /\ u \in Passing(n)' => u \in Passing(n)
      <4>1. CASE u = t
        BY <2>3, <2>5, <4>1 DEF Verifying, Passing
      <4>2. CASE u # t
        BY <1>1, <1>3, <2>2, <2>3, <4>2, OthersStay
      <4> QED
        BY <4>1, <4>2
    <3> QED
      BY <3>1 DEF Verifying, Passing
  <2>11. t \in Verifying(n)
    BY <1>2, <1>7 DEF Verifying
  <2>12. /\ IsFiniteSet(Verifying(n)) /\ Cardinality(Verifying(n)) \in Nat
         /\ IsFiniteSet(Passing(n)) /\ Cardinality(Passing(n)) \in Nat
         /\ IsFiniteSet(Tried(n)) /\ Cardinality(Tried(n)) \in Nat
    BY <1>1, PartsOfAccount
  <2>13. Cardinality(Tried(n)') \in Nat /\ Cardinality(Tried(n)') <= Cardinality(Tried(n)) + 1
    <3>1. /\ IsFiniteSet(Tried(n) \cup {f})
          /\ Cardinality(Tried(n) \cup {f}) \in {Cardinality(Tried(n)), Cardinality(Tried(n)) + 1}
      BY <2>12, FS_AddElement
    <3>2. IsFiniteSet(Tried(n)') /\ Cardinality(Tried(n)') <= Cardinality(Tried(n) \cup {f})
      BY <2>7, <3>1, FS_Subset
    <3>3. Cardinality(Tried(n)') \in Nat
      BY <3>2, FS_CardinalityType
    <3> QED
      BY <2>12, <3>1, <3>2, <3>3
  <2>14. /\ Cardinality(Verifying(n)') \in Nat
         /\ Cardinality(Verifying(n)') <= Cardinality(Verifying(n)) - 1
    <3>1. /\ IsFiniteSet(Verifying(n) \ {t})
          /\ Cardinality(Verifying(n) \ {t}) = Cardinality(Verifying(n)) - 1
      BY <2>11, <2>12, FS_RemoveElement
    <3>2. /\ IsFiniteSet(Verifying(n)')
          /\ Cardinality(Verifying(n)') <= Cardinality(Verifying(n) \ {t})
      BY <2>10, <3>1, FS_Subset
    <3>3. Cardinality(Verifying(n)') \in Nat
      BY <3>2, FS_CardinalityType
    <3> QED
      BY <3>1, <3>2, <3>3
  <2>15. Cardinality(Passing(n)') \in Nat /\ Cardinality(Passing(n)') <= Cardinality(Passing(n))
    BY <2>10, <2>12, FS_Subset, FS_CardinalityType
  <2>16. Cardinality(Tried(n)') + Cardinality(Verifying(n)') + Cardinality(Passing(n)')
           <= MaxFailures + Cardinality(Threads) - 1
    <3>1. Cardinality(Tried(n)) + Cardinality(Verifying(n)) + Cardinality(Passing(n))
            <= MaxFailures + Cardinality(Threads) - 1
      BY <1>1 DEF Counted
    <3> QED
      BY <2>12, <2>13, <2>14, <2>15, <3>1, LimitIsNat
  <2> QED
    BY <2>9, <2>16 DEF Counted
<1> QED
  BY <1>6, <1>7

LEMMA RecordCounts ==
  ASSUME ThrottleInv, NEW n \in Names, NEW t \in Threads, Record(t)
  PROVE  Covered(n)' /\ Counted(n)'
<1> DEFINE r == Onward(t, Idle)
           d == thr[t].held
           f == thr[t].fail
           h == [heap EXCEPT ![d] = Append(@, f)]
           F == Times \cup {Expired}
<1>1. Settled /\ Covered(n) /\ Counted(n)
  BY DEF ThrottleInv
<1>2. /\ thr[t] \in ThreadState /\ thr[t].pc = "ready" /\ thr[t].phase = "record"
      /\ InTurn(thr[t]) /\ InUse(thr[t]) /\ d \in Deques /\ f \in F
  BY <1>1, SettledFacts DEF Record, InUse, InTurn, ThreadState
<1>3. /\ Set(t, r) /\ dict' = dict /\ Heap(h) /\ UNCHANGED <<guesses, lost>>
  BY DEF Record
<1>4. r \in ThreadState /\ r.held = Nil /\ InTurn(r)
  BY <1>1, <1>2, OnwardSettles, IdleIsState DEF Idle
<1>5. IF thr[t].key = thr[t].ip
      THEN /\ r.pc = "get" /\ r.phase = "record" /\ r.name = thr[t].name /\ r.fail = f
      ELSE r = Idle
  BY <1>2 DEF Onward, ThreadState
<1>6. r.pc \in {"get", "idle"} /\ ~InUse(r)
  BY <1>5 DEF Idle, InUse
<1>7. heap[d] \in Seq(F) /\ Append(heap[d], f) \in Seq(F)
      /\ Range(heap[d]) \cup {f} \subseteq Range(Append(heap[d], f))
  <2>1. heap[d] \in Seq(F)
    BY <1>1, <1>2, SettledFacts
  <2> HIDE DEF F, f, d
  <2> QED
    BY <1>2, <2>1, AppendAdds
<1>8. h \in [Deques -> Seq(F)]
  BY <1>1, <1>2, <1>7, SettledFacts
<1>9. dict \in [LoginKeys -> Deques \cup {Nil}]
  BY <1>1, SettledFacts
<1>10. Listed(n) \subseteq Listed(n)' /\ (dict[n] = d => f \in Listed(n)')
  <2>1. CASE dict[n] = d
    <3>1. heap'[dict'[n]] = h[d] /\ h[d] = Append(heap[d], f)
      <4>1. h[d] = Append(heap[d], f)
        BY <1>1, <1>2, SettledFacts
      <4>2. n \in DOMAIN dict' /\ dict'[n] = d
        BY <1>3, <1>9, <2>1 DEF LoginKeys
      <4> HIDE DEF h
      <4> QED
        BY <1>2, <1>3, <1>8, <4>1, <4>2, HeapKeeps
    <3>2. d # Nil
      BY <1>2, LoginThrottleAssumption
    <3>3. Listed(n) = Range(heap[d]) /\ Listed(n)' = Range(Append(heap[d], f))
      BY <1>3, <2>1, <3>1, <3>2 DEF Listed
    <3> QED
      BY <1>7, <3>3
  <2>2. CASE dict[n] # d
    <3>1. dict[n] \in Deques => h[dict[n]] = heap[dict[n]]
      BY <1>1, <2>2, SettledFacts
    <3> HIDE DEF h
    <3>2. Listed(n)' = Listed(n)
      BY <1>1, <1>3, <1>8, <1>9, <3>1, ListStays
    <3> QED
      BY <2>2, <3>2
  <2> QED
    BY <2>1, <2>2
<1>11. Tried(n)' = Tried(n)
  BY <1>3 DEF Tried
<1>12. t \in Recording(n) =>
         \/ f \in Listed(n)'
         \/ r.phase = "record" /\ r.name = n /\ r.fail = f
  <2> SUFFICES ASSUME t \in Recording(n)
               PROVE  \/ f \in Listed(n)'
                      \/ r.phase = "record" /\ r.name = n /\ r.fail = f
    OBVIOUS
  <2>1. thr[t].name = n /\ ~Stale(t, n)
    BY DEF Recording
  <2>2. CASE thr[t].key = thr[t].ip
    BY <1>5, <2>1, <2>2
  <2>3. CASE thr[t].key # thr[t].ip
    <3>1. thr[t].key = n
      BY <1>2, <2>1, <2>3 DEF InTurn
    <3>2. dict[n] = d
      BY <1>2, <2>1, <3>1 DEF Stale
    <3> QED
      BY <1>10, <3>2
  <2> QED
    BY <2>2, <2>3
<1> HIDE DEF r, h
<1>13. Covered(n)'
  BY <1>1, <1>3, <1>4, <1>6, <1>10, <1>11, <1>12, StepCovers
<1>14. Counted(n)'
  BY <1>1, <1>3, <1>4, <1>6, <1>11, StepCounts
<1> QED
  BY <1>13, <1>14

LEMMA PopCounts ==
  ASSUME ThrottleInv, NEW n \in Names, NEW t \in Threads, Pop(t)
  PROVE  Covered(n)' /\ Counted(n)'
<1> DEFINE d == thr[t].held
           F == Times \cup {Expired}
<1>1. Settled /\ Covered(n) /\ Counted(n)
  BY DEF ThrottleInv
<1>2. /\ thr[t] \in ThreadState /\ thr[t].pc = "pop" /\ d \in Deques
      /\ InTurn(thr[t]) /\ InUse(thr[t])
  BY <1>1, SettledFacts DEF Pop, InUse, InTurn
<1>3. guesses' = guesses /\ dict' = dict
  BY DEF Pop
<1>4. Expired \notin guesses[n]
  <2>1. guesses[n] \subseteq Times /\ Window \in Nat
    BY <1>1, SettledFacts, LimitIsNat DEF Histories
  <2> QED
    BY <2>1 DEF Times, Expired
<1>5. DOMAIN lost = Names /\ dict \in [LoginKeys -> Deques \cup {Nil}]
      /\ heap \in [Deques -> Seq(F)]
  BY <1>1, SettledFacts DEF Histories
<1>6. CASE heap[d] = <<>>
  <2>1. Set(t, Idle) /\ Heap(heap)
        /\ lost' = IF thr[t].phase = "record" /\ thr[t].fail # Expired
                   THEN [lost EXCEPT ![thr[t].name] = @ \cup {thr[t].fail}]
                   ELSE lost
    BY <1>6 DEF Pop
  <2>2. lost[n] \subseteq lost'[n]
        /\ (thr[t].phase = "record" /\ thr[t].name = n /\ thr[t].fail # Expired
              => thr[t].fail \in lost'[n])
    BY <1>5, <2>1
  <2>3. Tried(n)' \subseteq Tried(n)
        /\ (t \in Recording(n) => thr[t].fail \notin Tried(n)')
    BY <1>3, <1>4, <2>2 DEF Tried, Recording
  <2>4. Listed(n)' = Listed(n)
    BY <1>1, <1>3, <1>5, <2>1, ListStays
  <2>5. Idle \in ThreadState /\ Idle.pc = "idle" /\ ~InUse(Idle)
    BY IdleIsState DEF Idle, InUse
  <2>6. Covered(n)'
    BY <1>1, <1>3, <2>1, <2>3, <2>4, <2>5, StepCovers
  <2>7. Counted(n)'
    BY <1>1, <1>3, <2>1, <2>3, <2>5, StepCounts
  <2> QED
    BY <2>6, <2>7
<1>7. CASE heap[d] # <<>>
  <2> DEFINE r == [thr[t] EXCEPT !.pc = "test"]
             f == Head(heap[d])
             h == [heap EXCEPT ![d] = Tail(@)]
  <2>1. /\ r \in ThreadState /\ r.pc = "test" /\ r.held = d /\ r.key = thr[t].key
        /\ r.phase = thr[t].phase /\ r.name = thr[t].name /\ r.fail = thr[t].fail
    BY <1>2 DEF ThreadState
  <2>2. /\ Set(t, r) /\ Heap(h)
        /\ lost' = [m \in Names |-> IF dict[m] = d /\ f # Expired THEN lost[m] \cup {f} ELSE lost[m]]
    BY <1>1, <1>7, SettledFacts DEF Pop, Set, ThrottleTyped
  <2>3. /\ f \in F /\ Tail(heap[d]) \in Seq(F)
        /\ Range(heap[d]) \subseteq {f} \cup Range(Tail(heap[d]))
    BY <1>2, <1>5, <1>7, TailDropsHead
  <2>4. h \in [Deques -> Seq(F)] /\ h[d] = Tail(heap[d])
    BY <1>2, <1>5, <2>3
  <2>5. Tried(n)' \subseteq Tried(n) /\ (dict[n] = d => f \notin Tried(n)')
    BY <1>3, <1>4, <2>2 DEF Tried
  <2>6. \A g \in Tried(n)' : g \in Listed(n) => g \in Listed(n)'
    <3>1. CASE dict[n] = d
      <4>1. heap'[dict'[n]] = h[d]
        <5>1. n \in DOMAIN dict' /\ dict'[n] = d
          BY <1>3, <1>5, <3>1 DEF LoginKeys
        <5> HIDE DEF h
        <5> QED
          BY <1>2, <2>2, <2>4, <5>1, HeapKeeps
      <4>2. d # Nil
        BY <1>2, LoginThrottleAssumption
      <4>3. Listed(n) = Range(heap[d]) /\ Listed(n)' = Range(Tail(heap[d]))
        BY <1>3, <2>4, <3>1, <4>1, <4>2 DEF Listed
      <4> QED
        BY <2>3, <2>5, <3>1, <4>3
    <3>2. CASE dict[n] # d
      <4>1. dict[n] \in Deques => h[dict[n]] = heap[dict[n]]
        BY <1>5, <3>2
      <4> HIDE DEF h
      <4>2. Listed(n)' = Listed(n)
        BY <1>1, <1>3, <1>5, <2>2, <2>4, <4>1, ListStays
      <4> QED
        BY <4>2
    <3> QED
      BY <3>1, <3>2
  <2>7. InUse(r)
    BY <2>1 DEF InUse
  <2> HIDE DEF r
  <2>8. Covered(n)'
    <3>1. t \in Recording(n) =>
            /\ r.phase = "record" /\ r.name = n /\ r.fail = thr[t].fail
            /\ ~(InUse(r) /\ r.key = n /\ r.held # dict[n])
      BY <1>2, <2>1 DEF Recording, Stale
    <3> QED
      BY <1>1, <1>3, <2>1, <2>2, <2>5, <2>6, <3>1, StepCovers
  <2>9. Counted(n)'
    <3>1. r.phase = "check" /\ r.key = n /\ r.held # dict[n] => t \in Passing(n)
      BY <1>2, <2>1 DEF Passing, Stale
    <3> QED
      BY <1>1, <1>3, <2>1, <2>2, <2>5, <3>1, StepCounts
  <2> QED
    BY <2>8, <2>9
<1> QED
  BY <1>6, <1>7

LEMMA GetCounts ==
  ASSUME ThrottleInv, NEW n \in Names, NEW t \in Threads, Get(t)
  PROVE  Covered(n)' /\ Counted(n)'
<1> DEFINE k == thr[t].key
<1>1. Settled /\ Covered(n) /\ Counted(n)
  BY DEF ThrottleInv
<1>2. /\ thr[t] \in ThreadState /\ InTurn(thr[t]) /\ thr[t].pc = "get" /\ k \in LoginKeys
      /\ ~InUse(thr[t])
  BY <1>1, SettledFacts DEF Get, InTurn, LoginKeys, InUse
<1>3. Heap(heap) /\ UNCHANGED <<guesses, lost>> /\ Tried(n)' = Tried(n)
  BY DEF Get, Tried
<1>4. /\ dict \in [LoginKeys -> Deques \cup {Nil}] /\ n \in LoginKeys
      /\ heap \in [Deques -> Seq(Times \cup {Expired})]
  BY <1>1, SettledFacts DEF LoginKeys
\* The thread has the deque e, which the dictionary has for its key after the step.
<1>5. PICK e \in Deques : /\ Set(t, [thr[t] EXCEPT !.pc = "test", !.held = e])
                          /\ dict' \in [LoginKeys -> Deques \cup {Nil}] /\ dict'[k] = e
                          /\ \A l \in LoginKeys : l # k => dict'[l] = dict[l]
                          /\ dict[k] = e \/ (dict[k] = Nil /\ e \notin Held)
  <2>1. CASE dict[k] # Nil
    <3>1. Set(t, [thr[t] EXCEPT !.pc = "test", !.held = dict[k]]) /\ dict' = dict
      BY <2>1 DEF Get
    <3>2. dict[k] \in Deques
      BY <1>2, <1>4, <2>1
    <3> QED
      BY <1>4, <3>1, <3>2
  <2>2. CASE dict[k] = Nil
    <3>1. PICK d \in Deques : /\ d \notin Range(dict) \cup Held
                              /\ dict' = [dict EXCEPT ![k] = d]
                              /\ Set(t, [thr[t] EXCEPT !.pc = "test", !.held = d])
      BY <1>1, <2>2, GetMakes
    <3>2. /\ dict' \in [LoginKeys -> Deques \cup {Nil}] /\ dict'[k] = d
          /\ \A l \in LoginKeys : l # k => dict'[l] = dict[l]
      BY <1>2, <1>4, <3>1
    <3> QED
      BY <2>2, <3>1, <3>2
  <2> QED
    BY <2>1, <2>2
<1> DEFINE r == [thr[t] EXCEPT !.pc = "test", !.held = e]
<1>6. /\ r \in ThreadState /\ r.pc = "test" /\ r.held = e /\ r.key = k
      /\ r.phase = thr[t].phase /\ r.name = thr[t].name /\ r.fail = thr[t].fail
  BY <1>2 DEF ThreadState
<1>7. Set(t, r)
  BY <1>5
<1> HIDE DEF r
<1>8. thr'[t] = r /\ \A u \in Threads : u # t => thr'[u] = thr[u]
  BY <1>1, <1>6, <1>7, SetChangesOne DEF Settled
\* Who has no deque, or another one than the dictionary had, has no new one.
<1>9. ASSUME NEW u \in Threads, u # t
      PROVE  Stale(u, n)' <=> Stale(u, n)
  <2>1. CASE k # n
    BY <1>4, <1>5, <1>8, <1>9, <2>1 DEF Stale
  <2>2. CASE k = n /\ dict[k] = e
    BY <1>4, <1>5, <1>8, <1>9, <2>2 DEF Stale
  <2>3. CASE k = n /\ dict[k] = Nil /\ e \notin Held
    <3>1. thr[u].held # e
      BY <2>3 DEF Held
    <3>2. InUse(thr[u]) => thr[u].held # Nil
      BY <1>1, SettledFacts, LoginThrottleAssumption DEF InTurn
    <3> QED
      BY <1>5, <1>8, <1>9, <2>3, <3>1, <3>2 DEF Stale
  <2> QED
    BY <1>5, <2>1, <2>2, <2>3
<1>10. ~Stale(t, n)'
  BY <1>5, <1>6, <1>8 DEF Stale
<1>11. /\ Verifying(n)' \subseteq Verifying(n) /\ Passing(n)' \subseteq Passing(n)
       /\ \A u \in Recording(n) : u \in Recording(n)' /\ thr'[u].fail = thr[u].fail
  <2>1. ASSUME NEW u \in Threads
        PROVE  /\ u \in Verifying(n)' => u \in Verifying(n)
               /\ u \in Passing(n)' => u \in Passing(n)
               /\ u \in Recording(n) => u \in Recording(n)' /\ thr'[u].fail = thr[u].fail
    <3>1. CASE u = t
      BY <1>6, <1>8, <1>10, <3>1 DEF Verifying, Passing, Recording
    <3>2. CASE u # t
      BY <1>8, <1>9, <3>2 DEF Verifying, Passing, Recording
    <3> QED
      BY <3>1, <3>2
  <2> QED
    BY <2>1 DEF Verifying, Passing, Recording
<1>12. Listed(n) \subseteq Listed(n)'
  <2>1. CASE dict[n] = Nil
    BY <2>1 DEF Listed
  <2>2. CASE dict[n] # Nil
    <3>1. dict'[n] = dict[n]
      BY <1>4, <1>5, <2>2
    <3> QED
      BY <1>1, <1>3, <1>4, <1>5, <3>1, ListStays
  <2> QED
    BY <2>1, <2>2
<1>13. Covered(n)'
  BY <1>1, <1>3, <1>11, <1>12 DEF Covered
<1>14. Counted(n)'
  BY <1>1, <1>3, <1>11, CountShrinks
<1> QED
  BY <1>13, <1>14

LEMMA ClearCounts ==
  ASSUME ThrottleInv, NEW n \in Names, NEW t \in Threads, Clear(t)
  PROVE  Covered(n)' /\ Counted(n)'
<1> DEFINE k == thr[t].key
           r == IF k = thr[t].ip THEN [thr[t] EXCEPT !.key = thr[t].name] ELSE Idle
<1>1. Settled /\ Covered(n) /\ Counted(n)
  BY DEF ThrottleInv
<1>2. /\ thr[t] \in ThreadState /\ InTurn(thr[t]) /\ thr[t].pc = "clear" /\ k \in LoginKeys
      /\ thr[t].phase = "check" /\ ~InUse(thr[t])
  BY <1>1, SettledFacts DEF Clear, InTurn, LoginKeys, InUse
<1>3. r \in ThreadState /\ r.pc \in {"clear", "idle"}
  <2>1. CASE k = thr[t].ip
    BY <1>2, <2>1 DEF ThreadState, InTurn, LoginKeys
  <2>2. CASE k # thr[t].ip
    BY <2>2, IdleIsState DEF Idle
  <2> QED
    BY <2>1, <2>2
<1>4. Set(t, r) /\ Heap(heap) /\ dict' = [dict EXCEPT ![k] = Nil]
  <2>1. thr' = [thr EXCEPT ![t] = IF k = thr[t].ip THEN [@ EXCEPT !.key = thr[t].name]
                                 ELSE Idle]
        /\ Heap(heap) /\ dict' = [dict EXCEPT ![k] = Nil]
    BY DEF Clear
  <2>2. thr' = [thr EXCEPT ![t] = r]
    BY <1>1, <2>1, SettledFacts DEF ThrottleTyped
  <2> QED
    BY <2>1, <2>2 DEF Set
<1> HIDE DEF r
<1>5. ~InUse(r) /\ t \notin Recording(n) /\ t \notin Verifying(n) /\ t \notin Passing(n)
  BY <1>2, <1>3 DEF InUse, Recording, Verifying, Passing, Stale
<1>6. /\ dict \in [LoginKeys -> Deques \cup {Nil}] /\ n \in LoginKeys
      /\ dict' \in [LoginKeys -> Deques \cup {Nil}]
      /\ heap \in [Deques -> Seq(Times \cup {Expired})]
  BY <1>1, <1>2, <1>4, SettledFacts DEF LoginKeys
<1>7. CASE k # n
  <2>1. dict'[n] = dict[n]
    BY <1>4, <1>6, <1>7
  <2>2. guesses'[n] = guesses[n] /\ lost'[n] = lost[n]
    BY <1>1, <1>7, SettledFacts DEF Clear, Histories
  <2>3. Tried(n)' = Tried(n) /\ Listed(n)' = Listed(n)
    BY <1>1, <1>4, <1>6, <2>1, <2>2, ListStays DEF Tried
  <2>4. Covered(n)'
    BY <1>1, <1>3, <1>4, <1>5, <2>1, <2>3, StepCovers
  <2>5. Counted(n)'
    BY <1>1, <1>3, <1>4, <1>5, <2>1, <2>3, StepCounts
  <2> QED
    BY <2>4, <2>5
<1>8. CASE k = n
  <2>1. Tried(n)' = {}
    <3>1. guesses'[n] = {}
      BY <1>1, <1>8, SettledFacts DEF Clear, Histories
    <3> QED
      BY <3>1 DEF Tried
  <2>2. Covered(n)'
    BY <2>1 DEF Covered
  <2>3. thr'[t] = r /\ \A u \in Threads : u # t => thr'[u] = thr[u]
    BY <1>1, <1>3, <1>4, SetChangesOne DEF Settled
  \* The others that are in the check or past it are fewer than the threads.
  <2>4. /\ Cardinality(Verifying(n)') \in Nat /\ Cardinality(Passing(n)') \in Nat
        /\ Cardinality(Verifying(n)') + Cardinality(Passing(n)') <= Cardinality(Threads) - 1
    <3>1. Verifying(n)' \in SUBSET (Threads \ {t}) /\ Passing(n)' \in SUBSET (Threads \ {t})
      BY <1>3, <1>5, <2>3 DEF Verifying, Passing, Stale
    <3>2. Verifying(n)' \cap Passing(n)' = {}
      BY DEF Verifying, Passing, Stale, InUse
    <3>3. IsFiniteSet(Threads \ {t}) /\ Cardinality(Threads \ {t}) = Cardinality(Threads) - 1
      BY LoginThrottleAssumption, FS_RemoveElement
    <3> DEFINE V == Verifying(n)'
               P == Passing(n)'
    <3>4. V \in SUBSET (Threads \ {t}) /\ P \in SUBSET (Threads \ {t}) /\ V \cap P = {}
      BY <3>1, <3>2
    <3> SUFFICES /\ Cardinality(V) \in Nat /\ Cardinality(P) \in Nat
                 /\ Cardinality(V) + Cardinality(P) <= Cardinality(Threads) - 1
      OBVIOUS
    <3> HIDE DEF V, P
    <3>5. IsFiniteSet(V) /\ IsFiniteSet(P)
      BY <3>3, <3>4, FS_Subset
    <3>6. Cardinality(V) \in Nat /\ Cardinality(P) \in Nat
      BY <3>5, FS_CardinalityType
    <3>7. Cardinality(V \cup P) = Cardinality(V) + Cardinality(P) - Cardinality(V \cap P)
      BY <3>5, FS_Union
    <3>8. Cardinality(V \cap P) = 0
      BY <3>4, FS_EmptySet
    <3>9. Cardinality(V \cup P) <= Cardinality(Threads \ {t})
      <4>1. V \cup P \in SUBSET (Threads \ {t})
        BY <3>4
      <4> QED
        BY <3>3, <4>1, FS_Subset
    <3> QED
      BY <3>3, <3>6, <3>7, <3>8, <3>9
  <2>5. Cardinality(Tried(n)') = 0
    BY <2>1, FS_EmptySet
  <2>6. Cardinality(Tried(n)') + Cardinality(Verifying(n)') + Cardinality(Passing(n)')
          <= MaxFailures + Cardinality(Threads) - 1
    BY <2>4, <2>5, LimitIsNat
  <2> QED
    BY <2>2, <2>6 DEF Counted
<1> QED
  BY <1>7, <1>8

LEMMA TimeCounts ==
  ASSUME ThrottleInv, NEW n \in Names, TimePasses
  PROVE  Covered(n)' /\ Counted(n)'
<1>1. Settled /\ Covered(n) /\ Counted(n)
  BY DEF ThrottleInv
<1>2. /\ dict' = dict
      /\ guesses'[n] = AllLater(guesses[n]) /\ lost'[n] = AllLater(lost[n])
      /\ heap' = [d \in Deques |-> [i \in DOMAIN heap[d] |-> Later(heap[d][i])]]
  BY DEF TimePasses
<1>3. ASSUME NEW t \in Threads
      PROVE  /\ thr'[t].pc = thr[t].pc /\ thr'[t].phase = thr[t].phase
             /\ thr'[t].name = thr[t].name /\ thr'[t].key = thr[t].key
             /\ thr'[t].held = thr[t].held /\ thr'[t].fail = Later(thr[t].fail)
  <2>1. thr[t] \in ThreadState /\ thr'[t] = [thr[t] EXCEPT !.fail = Later(thr[t].fail)]
    BY <1>1, SettledFacts DEF TimePasses
  <2> QED
    BY <2>1 DEF ThreadState
<1>4. /\ Verifying(n)' = Verifying(n) /\ Passing(n)' = Passing(n)
      /\ Recording(n)' = Recording(n)
  <2>1. Verifying(n)' = Verifying(n)
    BY <1>3 DEF Verifying
  <2>2. \A t \in Threads : Stale(t, n)' <=> Stale(t, n)
    BY <1>2, <1>3 DEF Stale, InUse
  <2> QED
    BY <1>3, <2>1, <2>2 DEF Passing, Recording
\* What is tried and not lost after the tick was so before.
<1>5. ASSUME NEW g \in Tried(n)' PROVE \E f \in Tried(n) : g = Later(f)
  <2>1. g \in AllLater(guesses[n]) /\ g \notin AllLater(lost[n])
    BY <1>2, <1>5 DEF Tried
  <2>2. PICK f \in guesses[n] : g = Later(f) /\ g # Expired
    BY <2>1 DEF AllLater
  <2>3. f \notin lost[n]
    BY <2>1, <2>2 DEF AllLater
  <2> QED
    BY <2>2, <2>3 DEF Tried
<1>6. ASSUME NEW f \in Listed(n) PROVE Later(f) \in Listed(n)'
  <2>1. dict[n] # Nil /\ f \in Range(heap[dict[n]])
    BY <1>6 DEF Listed
  <2>2. dict[n] \in Deques
    BY <1>1, <2>1, SettledFacts DEF LoginKeys, Settled, ThrottleTyped
  <2>3. heap'[dict[n]] = [i \in DOMAIN heap[dict[n]] |-> Later(heap[dict[n]][i])]
    BY <1>2, <2>2
  <2>4. Later(f) \in Range(heap'[dict[n]])
    BY <2>1, <2>3 DEF Range
  <2> QED
    BY <1>2, <2>1, <2>4 DEF Listed
<1>7. Covered(n)'
  <2>1. ASSUME NEW g \in Tried(n)'
        PROVE  g \in Listed(n)' \/ \E u \in Recording(n)' : g = thr'[u].fail
    <3>1. PICK f \in Tried(n) : g = Later(f)
      BY <1>5
    <3>2. CASE f \in Listed(n)
      BY <1>6, <3>1, <3>2
    <3>3. CASE f \notin Listed(n)
      <4>1. PICK u \in Recording(n) : f = thr[u].fail
        BY <1>1, <3>3 DEF Covered
      <4>2. thr'[u].fail = Later(f)
        BY <1>3, <4>1 DEF Recording
      <4> QED
        BY <1>4, <3>1, <4>1, <4>2
    <3> QED
      BY <3>2, <3>3
  <2> QED
    BY <2>1 DEF Covered
<1>8. IsFiniteSet(Tried(n)') /\ Cardinality(Tried(n)') <= Cardinality(Tried(n))
      /\ Cardinality(Tried(n)') \in Nat
  <2> DEFINE L == [f \in Tried(n) |-> Later(f)]
             I == {L[f] : f \in Tried(n)}
  <2>1. IsFiniteSet(Tried(n)) /\ Cardinality(Tried(n)) \in Nat
    BY <1>1, PartsOfAccount
  <2>2. IsFiniteSet(I) /\ Cardinality(I) <= Cardinality(Tried(n))
    BY <2>1, ImageIsSmaller
  <2>3. Tried(n)' \subseteq I
    BY <1>5
  <2> HIDE DEF I
  <2>4. IsFiniteSet(Tried(n)') /\ Cardinality(Tried(n)') <= Cardinality(I)
    BY <2>2, <2>3, FS_Subset
  <2>5. Cardinality(I) \in Nat /\ Cardinality(Tried(n)') \in Nat
    BY <2>2, <2>4, FS_CardinalityType
  <2> QED
    BY <2>1, <2>2, <2>4, <2>5
<1>9. Cardinality(Tried(n)') + Cardinality(Verifying(n)') + Cardinality(Passing(n)')
        <= MaxFailures + Cardinality(Threads) - 1
  <2>1. Cardinality(Tried(n)) + Cardinality(Verifying(n)) + Cardinality(Passing(n))
          <= MaxFailures + Cardinality(Threads) - 1
    BY <1>1 DEF Counted
  <2>2. /\ Cardinality(Verifying(n)) \in Nat /\ Cardinality(Passing(n)) \in Nat
        /\ Cardinality(Tried(n)) \in Nat
    BY <1>1, PartsOfAccount
  <2> QED
    BY <1>4, <1>8, <2>1, <2>2, LimitIsNat
<1> QED
  BY <1>7, <1>9 DEF Counted

-----------------------------------------------------------------------------
LEMMA ThrottleStarts == TInit => ThrottleInv
<1> SUFFICES ASSUME TInit PROVE ThrottleInv
  OBVIOUS
<1>1. ThrottleTyped
  <2>1. <<>> \in Seq(Times \cup {Expired}) /\ Idle \in ThreadState /\ IsFiniteSet({})
    BY IdleIsState, FS_EmptySet
  <2> QED
    BY <2>1 DEF TInit, ThrottleTyped, Histories
<1>2. Settled
  <2>1. \A t \in Threads : thr[t] = Idle /\ thr[t].held = Nil
    BY DEF TInit, Idle
  <2>2. \A k \in LoginKeys : dict[k] = Nil
    BY DEF TInit
  <2> QED
    BY <1>1, <2>1, <2>2, IdleIsState DEF Settled, Owned
<1>3. ASSUME NEW n \in Names PROVE Covered(n) /\ Counted(n)
  <2>1. Tried(n) = {}
    BY DEF TInit, Tried
  <2>2. Verifying(n) = {} /\ Passing(n) = {}
    BY DEF TInit, Verifying, Passing, Stale, InUse, Idle
  <2>3. Cardinality({}) = 0
    BY FS_EmptySet
  <2>4. Cardinality(Tried(n)) + Cardinality(Verifying(n)) + Cardinality(Passing(n))
          <= MaxFailures + Cardinality(Threads) - 1
    BY <2>1, <2>2, <2>3, LimitIsNat
  <2> QED
    BY <2>1, <2>4 DEF Covered, Counted
<1> QED
  BY <1>2, <1>3 DEF ThrottleInv

LEMMA StepKeepsThrottle ==
  ASSUME ThrottleInv, NEW t \in Threads, Step(t)
  PROVE  ThrottleInv'
<1>1. Settled
  BY DEF ThrottleInv
<1>2. Settled'
  BY <1>1, GetSettles, TestSettles, PopSettles, CheckSettles, VerifySettles, RecordSettles,
     ClearSettles DEF Step
<1>3. ASSUME NEW n \in Names PROVE Covered(n)' /\ Counted(n)'
  <2>1. CASE Get(t)
    BY <2>1, GetCounts
  <2>2. CASE Test(t)
    BY <2>2, TestCounts
  <2>3. CASE Pop(t)
    BY <2>3, PopCounts
  <2>4. CASE Check(t)
    BY <2>4, CheckCounts
  <2>5. CASE Verify(t)
    BY <2>5, VerifyCounts
  <2>6. CASE Record(t)
    BY <2>6, RecordCounts
  <2>7. CASE Clear(t)
    BY <2>7, ClearCounts
  <2> QED
    BY <2>1, <2>2, <2>3, <2>4, <2>5, <2>6, <2>7 DEF Step
<1> QED
  BY <1>2, <1>3 DEF ThrottleInv

LEMMA ThrottleHolds == TSpec => []ThrottleInv
<1>1. ThrottleInv /\ [TNext]_tvars => ThrottleInv'
  <2> SUFFICES ASSUME ThrottleInv, [TNext]_tvars PROVE ThrottleInv'
    OBVIOUS
  <2>1. CASE TimePasses
    <3>1. Settled'
      BY <2>1, TimeSettles DEF ThrottleInv
    <3>2. \A n \in Names : Covered(n)' /\ Counted(n)'
      BY <2>1, TimeCounts
    <3> QED
      BY <3>1, <3>2 DEF ThrottleInv
  <2>2. ASSUME NEW t \in Threads, NEW ip \in Ips, NEW name \in Names, NEW good \in BOOLEAN,
               Begin(t, ip, name, good)
        PROVE  ThrottleInv'
    <3>1. Settled'
      BY <2>2, BeginSettles DEF ThrottleInv
    <3>2. \A n \in Names : Covered(n)' /\ Counted(n)'
      BY <2>2, BeginCounts
    <3> QED
      BY <3>1, <3>2 DEF ThrottleInv
  <2>3. ASSUME NEW t \in Threads, Step(t) PROVE ThrottleInv'
    BY <2>3, StepKeepsThrottle
  <2>4. CASE UNCHANGED tvars
    <3>1. dict' = dict /\ heap' = heap /\ thr' = thr /\ guesses' = guesses /\ lost' = lost
      BY <2>4 DEF tvars
    <3>2. Settled'
      BY <3>1 DEF ThrottleInv, Settled, ThrottleTyped, Histories, Owned
    <3>3. ASSUME NEW n \in Names PROVE Covered(n)' /\ Counted(n)'
      <4>1. /\ Tried(n)' = Tried(n) /\ Listed(n)' = Listed(n) /\ Recording(n)' = Recording(n)
            /\ Verifying(n)' = Verifying(n) /\ Passing(n)' = Passing(n)
        BY <3>1 DEF Tried, Listed, Recording, Verifying, Passing, Stale
      <4>2. Covered(n) /\ Counted(n)
        BY DEF ThrottleInv
      <4>3. Covered(n)'
        BY <3>1, <4>1, <4>2 DEF Covered
      <4>4. Counted(n)'
        BY <4>1, <4>2 DEF Counted
      <4> QED
        BY <4>3, <4>4
    <3> QED
      BY <3>2, <3>3 DEF ThrottleInv
  <2> QED
    BY <2>1, <2>2, <2>3, <2>4 DEF TNext
<1> QED
  BY <1>1, ThrottleStarts, PTL DEF TSpec

\* auth.py _failures: keys have deques of their own, and a failure is a time within the
\* window or an expired one, whatever the threads do between each other's accesses.
THEOREM ThrottleTypesHold == TSpec => []TTypeOK
<1>1. ThrottleInv => TTypeOK
  <2> SUFFICES ASSUME ThrottleInv PROVE TTypeOK
    OBVIOUS
  <2>1. ASSUME NEW d \in Deques PROVE Range(heap[d]) \subseteq Times \cup {Expired}
    <3>1. heap[d] \in Seq(Times \cup {Expired})
      BY DEF ThrottleInv, Settled, ThrottleTyped
    <3> QED
      BY <3>1, ListIsFinite
  <2> QED
    BY <2>1 DEF TTypeOK, ThrottleInv, Settled, ThrottleTyped, Histories, Owned
<1> QED
  BY <1>1, ThrottleHolds, PTL

\* auth.py _check_locked, _record_failure: the passwords tried on one account within a
\* window, but for those whose failures a race dropped, exceed the limit by no more than the
\* other threads.
THEOREM OvershootsAreBounded == TSpec => []OvershootIsBounded
<1>1. ThrottleInv => OvershootIsBounded
  <2> SUFFICES ASSUME ThrottleInv, NEW n \in Names
               PROVE  Cardinality(guesses[n] \ lost[n]) <= MaxFailures + Cardinality(Threads) - 1
    BY DEF OvershootIsBounded
  <2>1. Counted(n) /\ Settled
    BY DEF ThrottleInv
  <2>2. /\ Cardinality(Tried(n)) \in Nat /\ Cardinality(Verifying(n)) \in Nat
        /\ Cardinality(Passing(n)) \in Nat
    BY <2>1, PartsOfAccount
  <2>3. Cardinality(Tried(n)) <= MaxFailures + Cardinality(Threads) - 1
    BY <2>1, <2>2, LimitIsNat DEF Counted
  <2> QED
    BY <2>3 DEF Tried
<1> QED
  BY <1>1, ThrottleHolds, PTL
=============================================================================
