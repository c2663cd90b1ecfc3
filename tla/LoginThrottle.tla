---------------------------- MODULE LoginThrottle ----------------------------
(***************************************************************************)
(* The login throttle of app/routers/auth.py: deques of failure times per  *)
(* address and per username, used by the worker threads without a lock.    *)
(*                                                                         *)
(* The time of a failure is its age in ticks and a number that tells it    *)
(* from the others of that tick, so that time needs no bound; all times    *)
(* before the window are one value.  Deques have an identity: a thread may *)
(* hold one that another thread has taken out of the dictionary.  The      *)
(* clock of _prune is read where it is compared; that of _record_failure   *)
(* is read once, before both keys, so that a failure may be old when it    *)
(* arrives.                                                                *)
(***************************************************************************)
EXTENDS Naturals, Sequences, FiniteSets, SequencesExt

CONSTANTS
  Threads, Ips, Names,
  Deques,         \* at least one per key and one per thread
  MaxFailures,    \* _MAX_FAILURES
  Window,         \* _FAIL_WINDOW_SECONDS, in ticks
  Nil

ASSUME LoginThrottleAssumption ==
  /\ MaxFailures \in Nat \ {0} /\ Window \in Nat
  /\ IsFiniteSet(Threads) /\ IsFiniteSet(Ips \cup Names) /\ IsFiniteSet(Deques)
  /\ Cardinality(Deques) >= Cardinality(Ips \cup Names) + Cardinality(Threads)
  /\ Ips \cap Names = {}  \* the keys are "ip:..." and "user:..."
  /\ Nil \notin Ips \cup Names \cup Deques

VARIABLES
  dict,     \* _failures: key -> deque or Nil
  heap,     \* deque -> its failures, oldest first
  thr,      \* thread -> [pc, ip, name, good, phase, key, held, fail]
  guesses,  \* history: name -> the wrong passwords tried within a window and since a
            \* success
  lost      \* history: name -> the failures of that time dropped early or not recorded

tvars == <<dict, heap, thr, guesses, lost>>

LoginKeys == Ips \cup Names
Expired == [age |-> Window + 1, nr |-> 0]
Times == [age: 0..Window, nr: Nat]
Idle == [pc |-> "idle", ip |-> Nil, name |-> Nil, good |-> FALSE,
         phase |-> "check", key |-> Nil, held |-> Nil, fail |-> Expired]

\* A failure after a tick.
Later(f) == IF f.age < Window THEN [f EXCEPT !.age = @ + 1] ELSE Expired

\* The time of a failure that happens now: one that nothing has.
Failures ==
  (UNION {guesses[n] \cup lost[n] : n \in Names}) \cup {thr[t].fail : t \in Threads}
    \cup (UNION {Range(heap[d]) : d \in Deques})
Now ==
  LET used == {f.nr : f \in {g \in Failures : g.age = 0}} IN
  [age |-> 0, nr |-> CHOOSE i \in 0..Cardinality(used) : i \notin used]

ThreadState ==
  [pc: {"idle", "get", "test", "pop", "ready", "verify", "clear"},
   ip: Ips \cup {Nil}, name: Names \cup {Nil}, good: BOOLEAN,
   phase: {"check", "record"}, key: LoginKeys \cup {Nil},
   held: Deques \cup {Nil}, fail: Times \cup {Expired}]

TTypeOK ==
  /\ dict \in [LoginKeys -> Deques \cup {Nil}]
  /\ \A k, l \in LoginKeys : dict[k] # Nil /\ dict[k] = dict[l] => k = l
  /\ \A d \in Deques : Range(heap[d]) \subseteq Times \cup {Expired}
  /\ thr \in [Threads -> ThreadState]
  /\ \A n \in Names : guesses[n] \cup lost[n] \subseteq Times

-----------------------------------------------------------------------------
\* The heap h after the step; a deque that nothing refers to is gone.
Heap(h) ==
  heap' = [d \in Deques |->
             IF d \in Range(dict') \cup {thr'[t].held : t \in Threads} THEN h[d]
             ELSE <<>>]

Set(t, r) == thr' = [thr EXCEPT ![t] = r]

\* POST /auth/login: the address is checked first, then the username.
Begin(t, ip, name, good) ==
  /\ thr[t].pc = "idle"
  /\ Set(t, [Idle EXCEPT !.pc = "get", !.ip = ip, !.name = name, !.good = good,
                         !.key = ip])
  /\ UNCHANGED <<dict, guesses, lost>>
  /\ Heap(heap)

Held == {thr[t].held : t \in Threads}

\* bucket = _failures[key]: a defaultdict makes the deque it does not find.
Get(t) ==
  LET k == thr[t].key IN
  /\ thr[t].pc = "get"
  /\ IF dict[k] # Nil
     THEN /\ Set(t, [thr[t] EXCEPT !.pc = "test", !.held = dict[k]])
          /\ UNCHANGED dict
     ELSE LET d == CHOOSE d \in Deques : d \notin Range(dict) \cup Held IN
          /\ dict' = [dict EXCEPT ![k] = d]
          /\ Set(t, [thr[t] EXCEPT !.pc = "test", !.held = d])
  /\ Heap(heap)
  /\ UNCHANGED <<guesses, lost>>

\* while bucket and now - bucket[0] > _FAIL_WINDOW_SECONDS
Test(t) ==
  LET s == heap[thr[t].held] IN
  /\ thr[t].pc = "test"
  /\ thr' = [thr EXCEPT ![t].pc = IF s # <<>> /\ Head(s) = Expired THEN "pop" ELSE "ready"]
  /\ UNCHANGED <<dict, guesses, lost>>
  /\ Heap(heap)

\* bucket.popleft(): of whatever is first by now; an empty deque raises, and the
\* handler ends there, with what it had still to record.
Pop(t) ==
  LET d == thr[t].held IN
  /\ thr[t].pc = "pop"
  /\ UNCHANGED <<dict, guesses>>
  /\ IF heap[d] = <<>>
     THEN /\ Set(t, Idle)
          /\ Heap(heap)
          /\ lost' = IF thr[t].phase = "record" /\ thr[t].fail # Expired
                     THEN [lost EXCEPT ![thr[t].name] = @ \cup {thr[t].fail}]
                     ELSE lost
     ELSE /\ thr' = [thr EXCEPT ![t].pc = "test"]
          /\ Heap([heap EXCEPT ![d] = Tail(@)])
          /\ lost' = [n \in Names |->
                        IF dict[n] = d /\ Head(heap[d]) # Expired
                        THEN lost[n] \cup {Head(heap[d])} ELSE lost[n]]

\* The next key of the handler's loop, or what follows the loop.
Onward(t, after) ==
  IF thr[t].key = thr[t].ip
  THEN [thr[t] EXCEPT !.pc = "get", !.key = thr[t].name, !.held = Nil]
  ELSE after

\* Variants of Check: one failure too many is let through; a refusal is a
\* failure too.
CheckOneMore(t) ==
  /\ thr[t].pc = "ready" /\ thr[t].phase = "check"
  /\ Set(t, IF Len(heap[thr[t].held]) > MaxFailures THEN Idle
            ELSE Onward(t, [thr[t] EXCEPT !.pc = "verify", !.held = Nil]))
  /\ UNCHANGED <<dict, guesses, lost>>
  /\ Heap(heap)
CheckRecords(t) ==
  LET d == thr[t].held
      full == Len(heap[d]) >= MaxFailures IN
  /\ thr[t].pc = "ready" /\ thr[t].phase = "check"
  /\ Set(t, IF full THEN Idle
            ELSE Onward(t, [thr[t] EXCEPT !.pc = "verify", !.held = Nil]))
  /\ UNCHANGED <<dict, guesses, lost>>
  /\ Heap(IF full THEN [heap EXCEPT ![d] = Append(Tail(@), [age |-> 0, nr |-> 0])] ELSE heap)

\* _check_locked: too many failures end the login with 429.
Check(t) ==
  /\ thr[t].pc = "ready" /\ thr[t].phase = "check"
  /\ Set(t, IF Len(heap[thr[t].held]) >= MaxFailures THEN Idle
            ELSE Onward(t, [thr[t] EXCEPT !.pc = "verify", !.held = Nil]))
  /\ UNCHANGED <<dict, guesses, lost>>
  /\ Heap(heap)

\* verify_password; a wrong one is recorded, a right one clears both keys.
Verify(t) ==
  LET r == thr[t] IN
  /\ r.pc = "verify"
  /\ IF r.good
     THEN /\ Set(t, [r EXCEPT !.pc = "clear", !.key = r.ip])
          /\ UNCHANGED guesses
     ELSE /\ Set(t, [r EXCEPT !.pc = "get", !.phase = "record", !.key = r.ip,
                               !.fail = Now])
          /\ guesses' = [guesses EXCEPT ![r.name] = @ \cup {Now}]
  /\ UNCHANGED <<dict, lost>>
  /\ Heap(heap)

\* _prune(key).append(now)
Record(t) ==
  /\ thr[t].pc = "ready" /\ thr[t].phase = "record"
  /\ Set(t, Onward(t, Idle))
  /\ UNCHANGED <<dict, guesses, lost>>
  /\ Heap([heap EXCEPT ![thr[t].held] = Append(@, thr[t].fail)])

\* _failures.pop(key, None)
Clear(t) ==
  LET k == thr[t].key IN
  /\ thr[t].pc = "clear"
  /\ dict' = [dict EXCEPT ![k] = Nil]
  /\ thr' = [thr EXCEPT ![t] = IF k = thr[t].ip THEN [@ EXCEPT !.key = thr[t].name]
                               ELSE Idle]
  /\ guesses' = IF k \in Names THEN [guesses EXCEPT ![k] = {}] ELSE guesses
  /\ lost' = IF k \in Names THEN [lost EXCEPT ![k] = {}] ELSE lost
  /\ Heap(heap)

AllLater(S) == {Later(f) : f \in S} \ {Expired}

TimePasses ==
  /\ heap' = [d \in Deques |-> [i \in DOMAIN heap[d] |-> Later(heap[d][i])]]
  /\ guesses' = [n \in Names |-> AllLater(guesses[n])]
  /\ lost' = [n \in Names |-> AllLater(lost[n])]
  /\ thr' = [t \in Threads |-> [thr[t] EXCEPT !.fail = Later(@)]]
  /\ UNCHANGED dict

TInit ==
  /\ dict = [k \in LoginKeys |-> Nil]
  /\ heap = [d \in Deques |-> <<>>]
  /\ thr = [t \in Threads |-> Idle]
  /\ guesses = [n \in Names |-> {}] /\ lost = [n \in Names |-> {}]

Step(t) == \/ Get(t) \/ Test(t) \/ Pop(t) \/ Check(t) \/ Verify(t) \/ Record(t)
           \/ Clear(t)

TNext ==
  \/ TimePasses
  \/ \E t \in Threads :
       \/ \E ip \in Ips, name \in Names, good \in BOOLEAN : Begin(t, ip, name, good)
       \/ Step(t)

TSpec == TInit /\ [][TNext]_tvars

\* Time passes, and a login that has begun runs on.
FairTSpec == TSpec /\ WF_tvars(TimePasses) /\ \A t \in Threads : WF_tvars(Step(t))

-----------------------------------------------------------------------------
(***************************************************************************)
(* Properties.                                                             *)
(***************************************************************************)

\* Concurrent logins pass the check together, before any of them records its
\* failure: the passwords tried on one account within a window, but for those
\* whose failures a race dropped, exceed the limit by no more than the other
\* threads.
OvershootIsBounded ==
  \A n \in Names :
    Cardinality(guesses[n] \ lost[n]) <= MaxFailures + Cardinality(Threads) - 1

Locked(n) == dict[n] # Nil /\ Len(SelectSeq(heap[dict[n]], LAMBDA f : f # Expired)) >= MaxFailures

\* An account is never locked for good, however many logins are tried: a refused
\* login adds no failure.
LockOpens == \A n \in Names : []<>~Locked(n)

\* Dockerfile: "One worker keeps the in-process rate limiter and login throttle
\* coherent": no failure leaves its deque before its window is over.
FailuresAreKept == \A n \in Names : lost[n] = {}
=============================================================================
