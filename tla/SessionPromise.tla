--------------------------- MODULE SessionPromise ---------------------------
(***************************************************************************)
(* What an account's sessions promise, without rows and versions: a token  *)
(* is live from its issue until every live token of its account dies at    *)
(* once or it expires by itself, and a dead token never lives again.  The  *)
(* promise is given per account and ends for an account ("unknown") once   *)
(* requests that write the account have overlapped.                        *)
(***************************************************************************)
CONSTANTS Users, Sids, None

VARIABLES
  owner,  \* token -> account, or None
  state,  \* token -> "unused", "pending", "live", "dead", "unknown"
  loose   \* accounts for which nothing is promised any more

vars == <<owner, state, loose>>

Init ==
  /\ owner = [s \in Sids |-> None]
  /\ state = [s \in Sids |-> "unused"]
  /\ loose = {}

\* A token leaves the server: usable at once, once its password change is
\* stored, or already overtaken by a revocation.
Issue(s, u, how) ==
  /\ owner[s] = None
  /\ owner' = [owner EXCEPT ![s] = u]
  /\ state' = [state EXCEPT ![s] = IF u \in loose THEN "unknown" ELSE how]
  /\ UNCHANGED loose

\* All live tokens of the accounts R die; the tokens N were waiting for that.
Revoke(R, N, more) ==
  /\ N \subseteq {s \in Sids : owner[s] \in R /\ state[s] = "pending"}
  /\ loose' = loose \cup more
  /\ state' = [s \in Sids |->
       IF owner[s] = None THEN "unused"
       ELSE IF owner[s] \in loose' THEN "unknown"
       ELSE IF s \in N THEN "live"
       ELSE IF owner[s] \in R /\ state[s] = "live" THEN "dead"
       ELSE state[s]]
  /\ UNCHANGED owner

Expire(s) ==
  /\ owner[s] # None
  /\ owner' = [owner EXCEPT ![s] = None]
  /\ state' = [state EXCEPT ![s] = "unused"]
  /\ UNCHANGED loose

Next ==
  \/ \E s \in Sids, u \in Users, how \in {"pending", "live", "dead"} :
       Issue(s, u, how)
  \/ \E R, more \in SUBSET Users, N \in SUBSET Sids : Revoke(R, N, more)
  \/ \E s \in Sids : Expire(s)

Spec == Init /\ [][Next]_vars
=============================================================================
