----------------------------- MODULE MCRateLimit -----------------------------
(***************************************************************************)
(* Instances of RateLimit for TLC.                                         *)
(***************************************************************************)
EXTENDS RateLimit, TLC

AllRequests == {"login", "wines", "health"}
MCExempt == {"health"}

\* A small budget for what matters and one for everything, as main.py has them.
MCRules == << [name |-> "auth", limit |-> 2, window |-> 2, matches |-> {"login"}],
              [name |-> "default", limit |-> 1, window |-> 2,
               matches |-> {"login", "wines"}] >>
=============================================================================
