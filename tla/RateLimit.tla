------------------------------ MODULE RateLimit ------------------------------
(***************************************************************************)
(* The rate limiter of app/ratelimit.py with the rules of app/main.py: a   *)
(* fixed window per client and rule, begun by its first request.  Its      *)
(* handler runs on the event loop without an await, so a request is one    *)
(* step.  Times are relative to now, in ticks, and capped where older      *)
(* values make no difference.                                              *)
(***************************************************************************)
EXTENDS Integers, Sequences, FiniteSets

CONSTANTS
  Clients,
  Requests,    \* kinds of request: a path with a method
  Exempt,      \* the health check
  Rules,       \* sequence of [name, limit, window, matches]; the last takes all
  SweepEvery,  \* 300 s
  None

RuleNames == {Rules[i].name : i \in DOMAIN Rules}
Bucket == [due: Int, count: Int]  \* ticks to reset_at; requests in the window

ASSUME RateLimitAssumption ==
  /\ Exempt \subseteq Requests /\ SweepEvery \in Nat \ {0}
  /\ Rules \in Seq([name: RuleNames, limit: Nat \ {0}, window: Nat \ {0},
                    matches: SUBSET Requests])
  /\ Rules # <<>> /\ Requests \ Exempt \subseteq Rules[Len(Rules)].matches
  /\ \A i, j \in DOMAIN Rules : Rules[i].name = Rules[j].name => i = j
  /\ None \notin Bucket

VARIABLES
  buckets,   \* <<client, rule name>> -> None or a bucket
  swept,     \* ticks since last_sweep
  answer,    \* history: the last step's answer, None after a tick
  served     \* history: key -> the requests let through within a window: [age,
             \* nr], with nr the number of those of that moment before it

vars == <<buckets, swept, answer, served>>

Keys == Clients \X RuleNames
Rule(name) == Rules[CHOOSE i \in DOMAIN Rules : Rules[i].name = name]

TypeOK ==
  /\ swept \in 0..SweepEvery
  /\ \A k \in Keys :
       /\ buckets[k] # None =>
            /\ buckets[k].due \in -SweepEvery..Rule(k[2]).window
            /\ buckets[k].count \in 1..Rule(k[2]).limit + 1
       /\ served[k] \subseteq [age: 0..Rule(k[2]).window - 1, nr: Nat]
  /\ answer # None => answer.key \in Keys /\ answer.ok \in BOOLEAN

-----------------------------------------------------------------------------
\* A request is let through, and a tick passes, in the history of one key.
LetThrough(S) == S \cup {[age |-> 0, nr |-> Cardinality({s \in S : s.age = 0})]}
Older(s) == [s EXCEPT !.age = @ + 1]
Aged(S, window) == {Older(s) : s \in {t \in S : t.age + 1 < window}}

\* _match: the first rule whose prefixes and methods fit.
Match(r) == Rules[CHOOSE i \in DOMAIN Rules :
                    /\ r \in Rules[i].matches
                    /\ \A j \in 1..i - 1 : r \notin Rules[j].matches]

\* Variant of Swept: a window that is about to end is swept too.
SweptEarly ==
  IF swept < SweepEvery THEN buckets
  ELSE [k \in Keys |-> IF buckets[k] # None /\ buckets[k].due <= 1 THEN None
                       ELSE buckets[k]]
\* Variant of Swept: only the buckets that are used again are looked at.
SweptNever == buckets

\* _sweep: the buckets after it.
Swept ==
  IF swept < SweepEvery THEN buckets
  ELSE [k \in Keys |-> IF buckets[k] # None /\ buckets[k].due < 0 THEN None
                       ELSE buckets[k]]

\* Variant of Consumed: a refused request begins a new window.
ConsumedAnew(k, b) ==
  LET full == b # None /\ b.due > 0 /\ b.count >= Rule(k[2]).limit IN
  IF b = None \/ b.due <= 0 THEN [due |-> Rule(k[2]).window, count |-> 1]
  ELSE [b EXCEPT !.count = IF full THEN Rule(k[2]).limit + 1 ELSE @ + 1,
                 !.due = IF full THEN Rule(k[2]).window ELSE @]

\* _consume: the bucket of key k after the request, given the one it finds; a
\* count above the limit is one value.
Consumed(k, b) ==
  IF b = None \/ b.due <= 0 THEN [due |-> Rule(k[2]).window, count |-> 1]
  ELSE [b EXCEPT !.count = IF @ > Rule(k[2]).limit THEN @ ELSE @ + 1]

\* __call__ for a request that some rule counts.
Request(c, r) ==
  LET k == <<c, Match(r).name>>
      b == Consumed(k, Swept[k])
      ok == b.count <= Match(r).limit IN
  /\ r \notin Exempt
  /\ buckets' = [Swept EXCEPT ![k] = b]
  /\ swept' = IF swept < SweepEvery THEN swept ELSE 0
  /\ answer' = [key |-> k, ok |-> ok]
  /\ served' = IF ok THEN [served EXCEPT ![k] = LetThrough(@)] ELSE served

\* The health check passes uncounted.
Health(c, r) ==
  /\ r \in Exempt
  /\ UNCHANGED vars

Tick ==
  /\ buckets' = [k \in Keys |->
                   IF buckets[k] = None \/ buckets[k].due = -SweepEvery THEN buckets[k]
                   ELSE [buckets[k] EXCEPT !.due = @ - 1]]
  /\ swept' = IF swept = SweepEvery THEN swept ELSE swept + 1
  /\ served' = [k \in Keys |-> Aged(served[k], Rule(k[2]).window)]
  /\ answer' = None

\* last_sweep is 0.0 on a clock whose origin is arbitrary.
Init ==
  /\ buckets = [k \in Keys |-> None]
  /\ swept \in 0..SweepEvery
  /\ answer = None
  /\ served = [k \in Keys |-> {}]

Next == Tick \/ \E c \in Clients, r \in Requests : Request(c, r) \/ Health(c, r)

Spec == Init /\ [][Next]_vars

\* Time passes, and every client keeps trying.
FairSpec == /\ Spec /\ WF_vars(Tick)
            /\ \A c \in Clients, r \in Requests : WF_vars(Request(c, r))

-----------------------------------------------------------------------------
(***************************************************************************)
(* Properties.                                                             *)
(***************************************************************************)

\* What gets through within any window's length is less than twice the limit,
\* where two windows meet, whatever was swept in between.
SurgeIsBounded ==
  \A k \in Keys : Cardinality(served[k]) <= 2 * Rule(k[2]).limit - 1

\* A client is refused only if it alone has used the whole budget of that rule
\* within the last window: neither other clients, other rules nor its own refused
\* requests count against it.
RefusalIsEarned ==
  answer # None /\ ~answer.ok
    => Cardinality(served[answer.key]) >= Rule(answer.key[2]).limit

\* Requests of anybody keep the table small: once one was handled, no bucket is
\* left whose window ended SweepEvery ago.
StaleIsSwept ==
  answer # None => \A k \in Keys : buckets[k] # None => buckets[k].due > -SweepEvery

\* Refused requests do not put off the end of the window: who keeps trying is
\* served again and again.
RetriesAreServed ==
  \A k \in Keys : (\E r \in Requests \ Exempt : Match(r).name = k[2])
                    => []<>(answer # None /\ answer.key = k /\ answer.ok)
=============================================================================
