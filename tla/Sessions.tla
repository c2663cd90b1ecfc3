------------------------------ MODULE Sessions ------------------------------
(***************************************************************************)
(* Accounts, passwords and session tokens of the wine-db server            *)
(* (app/security.py, app/routers/auth.py).                                 *)
(*                                                                         *)
(* A session token is a signed JWT; the server keeps no session table.  A  *)
(* token carries the token_version of its account at the time of issue and *)
(* is accepted while that number equals the one in the users row, so       *)
(* "revoke every session" is "store a larger token_version".  The store is *)
(* user.token_version += 1 on an ORM object: the row is read early in the  *)
(* request, the new value is computed in Python (Argon2 runs in between)   *)
(* and UPDATE ... SET token_version = <value> is sent later.  PostgreSQL   *)
(* runs at READ COMMITTED and SQLite takes its lock at the UPDATE, so the  *)
(* value that was read may be stale when it is written back.               *)
(*                                                                         *)
(* One request is one transaction.  Its steps: read the rows, flush the    *)
(* UPDATE (which takes the row lock), commit in the teardown of get_db,    *)
(* answer the client.  FastAPI up to 0.117 commits before it answers,      *)
(* from 0.118 on it answers first; requirements.txt admits both.           *)
(***************************************************************************)
EXTENDS Naturals

CONSTANTS
  Users,          \* account ids (uuid4: never reused)
  Admin,          \* the account seeded from the environment
  Reqs,           \* requests served at the same time
  Sids,           \* session tokens outstanding at the same time
  Passwords,
  None,
  Outdated,       \* kinds of hash whose parameters needs_rehash rejects
  EarlyResponse,  \* TRUE: the answer leaves before the commit
  MaxVersion,     \* bound on token_version
  MaxBoots        \* bound on server starts

\* A stored hash comes from .env, from an older release, or from this code.
Kinds == {"env", "old", "app"}

ASSUME SessionsAssumption ==
  /\ Admin \in Users
  /\ None \notin Users \cup Sids \cup Passwords
  /\ None \notin [usr: Users, tv: Nat, pwd: Passwords]
  /\ Outdated \subseteq Kinds \ {"app"}
  /\ EarlyResponse \in BOOLEAN
  /\ MaxVersion \in Nat
  /\ MaxBoots \in Nat

VARIABLES
  status,     \* id -> "free" (not created yet), "live", "gone" (deleted)
  row,        \* id -> committed columns of the users row
  sess,       \* token -> what it carries, or None
  req,        \* request -> what its handler holds
  env,        \* the password behind ADMIN_PASSWORD_HASH
  boots,      \* number of server starts
  revokedBy,  \* history: what first revoked the token, or "none"
  overlap     \* history: accounts whose writers were not serial

vars == <<status, row, sess, req, env, boots, revokedBy, overlap>>

Row    == [pwd: Passwords, kind: Kinds, tv: Nat]
Token  == [usr: Users, tv: Nat, pwd: Passwords]
Stages == {"idle", "authed", "loaded", "flushed", "answered", "committed"}
Ops    == {"none", "login", "logout", "change", "reset", "create", "delete"}
Causes == {"none", "logout", "other", "change", "reset", "boot"}
Request == [stage: Stages, op: Ops, usr: Users, tv: Nat,
            pwd: Passwords \cup {None}, kind: Kinds, sid: Sids \cup {None}]

Idle == [stage |-> "idle", op |-> "none", usr |-> Admin, tv |-> 0,
         pwd |-> None, kind |-> "app", sid |-> None]

\* The operations that hold a password once their rows are read.
HoldsPassword(q) == /\ q.op \in {"login", "change", "reset", "create"}
                    /\ q.stage \notin {"idle", "authed"}

TypeOK ==
  /\ status \in [Users -> {"free", "live", "gone"}]
  /\ row \in [Users -> Row]
  /\ sess \in [Sids -> Token \cup {None}]
  /\ req \in [Reqs -> Request]
  /\ \A r \in Reqs : HoldsPassword(req[r]) => req[r].pwd \in Passwords
  /\ env \in Passwords
  /\ boots \in Nat
  /\ revokedBy \in [Sids -> Causes]
  /\ overlap \subseteq Users

(***************************************************************************)
(* What a request does to the users row.                                   *)
(***************************************************************************)

Owner(s) == IF sess[s] = None THEN None ELSE sess[s].usr

\* security.py current_user: the row exists and carries the token's version.
Authenticates(s) ==
  /\ sess[s] # None
  /\ status[sess[s].usr] = "live"
  /\ sess[s].tv = row[sess[s].usr].tv

Bumps(q)  == q.op \in {"logout", "change", "reset"}
Rehash(q) == q.op = "login" /\ q.kind \in Outdated
Writes(q) == Bumps(q) \/ Rehash(q)
Issues(q) == q.op \in {"login", "change"}

\* Variant of IssuedVersion: login counts a version ahead.
IssuedVersionAhead(q) == q.tv + 1

\* The token version and the password in the token that request q issues.
IssuedVersion(q) == IF q.op = "change" THEN q.tv + 1 ELSE q.tv
IssuedToken(q)   == [usr |-> q.usr, tv |-> IssuedVersion(q), pwd |-> q.pwd]

\* Variants of Updated: a logout, and a reset, that forget token_version += 1.
UpdatedLogoutKeepsVersion(q) ==
  [pwd  |-> IF q.op \in {"change", "reset"} \/ Rehash(q) THEN q.pwd
            ELSE row[q.usr].pwd,
   kind |-> IF q.op \in {"change", "reset"} \/ Rehash(q) THEN "app"
            ELSE row[q.usr].kind,
   tv   |-> IF q.op \in {"change", "reset"} THEN q.tv + 1 ELSE row[q.usr].tv]
UpdatedResetKeepsVersion(q) ==
  [pwd  |-> IF q.op \in {"change", "reset"} \/ Rehash(q) THEN q.pwd
            ELSE row[q.usr].pwd,
   kind |-> IF q.op \in {"change", "reset"} \/ Rehash(q) THEN "app"
            ELSE row[q.usr].kind,
   tv   |-> IF q.op \in {"change", "logout"} THEN q.tv + 1 ELSE row[q.usr].tv]

\* The columns after the UPDATE of q: SQLAlchemy writes the changed ones only.
Updated(q) ==
  [pwd  |-> IF q.op \in {"change", "reset"} \/ Rehash(q) THEN q.pwd
            ELSE row[q.usr].pwd,
   kind |-> IF q.op \in {"change", "reset"} \/ Rehash(q) THEN "app"
            ELSE row[q.usr].kind,
   tv   |-> IF Bumps(q) THEN q.tv + 1 ELSE row[q.usr].tv]

\* A transaction that has read the row and has not ended.
Active(r)  == req[r].stage \in {"loaded", "flushed", "answered"}
Writer(r, u) == Active(r) /\ req[r].usr = u /\ Writes(req[r])

\* login sends its UPDATE only when the session commits.
HoldsLock(r) == req[r].stage \in {"flushed", "answered"} /\ req[r].op # "login"
Locked(u)    == \E r \in Reqs : HoldsLock(r) /\ req[r].usr = u

\* History: q starts to write an account that somebody else is writing.
Overlaps(q) ==
  IF /\ Writes(q)
     /\ \/ \E r \in Reqs : Writer(r, q.usr)
        \/ q.tv # row[q.usr].tv
  THEN {q.usr} ELSE {}

Load(r, q) ==
  /\ Bumps(q) => q.tv < MaxVersion
  /\ req' = [req EXCEPT ![r] = q]
  /\ overlap' = overlap \cup Overlaps(q)
  /\ UNCHANGED <<status, row, sess, env, boots, revokedBy>>

(***************************************************************************)
(* The handlers, up to the point where they have read what they use.       *)
(***************************************************************************)

\* POST /login: the row's hash and token_version come from one SELECT.
Login(r, u) ==
  /\ req[r] = Idle
  /\ status[u] = "live"
  /\ Load(r, [stage |-> "loaded", op |-> "login", usr |-> u, tv |-> row[u].tv,
              pwd |-> row[u].pwd, kind |-> row[u].kind, sid |-> None])

\* POST /logout: a token that no longer authenticates changes nothing.
Logout(r, s) ==
  /\ req[r] = Idle
  /\ Authenticates(s)
  /\ LET u == sess[s].usr IN
     Load(r, [stage |-> "loaded", op |-> "logout", usr |-> u, tv |-> row[u].tv,
              pwd |-> None, kind |-> "app", sid |-> s])

\* POST /password: current_user's row is the one whose hash is verified.
ChangePassword(r, s, p) ==
  /\ req[r] = Idle
  /\ Authenticates(s)
  /\ LET u == sess[s].usr IN
     Load(r, [stage |-> "loaded", op |-> "change", usr |-> u, tv |-> row[u].tv,
              pwd |-> p, kind |-> "app", sid |-> None])

\* The admin endpoints authenticate with a SELECT of their own (require_admin).
AdminEnters(r, s, op) ==
  /\ req[r] = Idle
  /\ Authenticates(s)
  /\ sess[s].usr = Admin
  /\ req' = [req EXCEPT ![r] = [Idle EXCEPT !.stage = "authed", !.op = op,
                   !.tv = IF op = "reset" THEN row[Admin].tv ELSE 0]]
  /\ UNCHANGED <<status, row, sess, env, boots, revokedBy, overlap>>

\* Variant of ResetPassword: the new password never reaches the row.
ResetPasswordForgotten(r, u, p) ==
  /\ req[r].stage = "authed" /\ req[r].op = "reset"
  /\ status[u] = "live"
  /\ Load(r, [req[r] EXCEPT !.stage = "loaded", !.usr = u,
              !.tv = IF u = Admin THEN req[r].tv ELSE row[u].tv])

\* PUT /users/{id}/password reads the target; the admin's own row is already
\* in the identity map and keeps the values read by require_admin.
ResetPassword(r, u, p) ==
  /\ req[r].stage = "authed" /\ req[r].op = "reset"
  /\ status[u] = "live"
  /\ Load(r, [req[r] EXCEPT !.stage = "loaded", !.usr = u, !.pwd = p,
              !.tv = IF u = Admin THEN req[r].tv ELSE row[u].tv])

\* DELETE /users/{id}: neither oneself nor the admin.
DeleteUser(r, u) ==
  /\ req[r].stage = "authed" /\ req[r].op = "delete"
  /\ status[u] = "live"
  /\ u # Admin
  /\ Load(r, [req[r] EXCEPT !.stage = "loaded", !.usr = u])

\* POST /users: a new id, token_version at its default.
CreateUser(r, u, p) ==
  /\ req[r].stage = "authed" /\ req[r].op = "create"
  /\ status[u] = "free"
  /\ \A o \in Reqs : ~(Active(o) /\ req[o].usr = u)
  /\ Load(r, [req[r] EXCEPT !.stage = "loaded", !.usr = u, !.pwd = p])

\* 403, 404, 409 or 422 from an admin endpoint.
Refuse(r) ==
  /\ req[r].stage = "authed"
  /\ req' = [req EXCEPT ![r] = Idle]
  /\ UNCHANGED <<status, row, sess, env, boots, revokedBy, overlap>>

(***************************************************************************)
(* The common end of a request: flush, commit, answer, or fail.            *)
(***************************************************************************)

\* Variant of Flush: an UPDATE that finds no row is waited for.
FlushWaitsForRow(r) ==
  /\ req[r].stage = "loaded" /\ req[r].op # "login"
  /\ ~Locked(req[r].usr)
  /\ Bumps(req[r]) => status[req[r].usr] # "gone"
  /\ req' = [req EXCEPT ![r].stage = "flushed"]
  /\ UNCHANGED <<status, row, sess, env, boots, revokedBy, overlap>>

\* db.flush(): waits for the row lock; an UPDATE that finds no row raises
\* StaleDataError and the transaction rolls back.
Flush(r) ==
  /\ req[r].stage = "loaded" /\ req[r].op # "login"
  /\ ~Locked(req[r].usr)
  /\ req' = [req EXCEPT ![r] =
               IF Bumps(req[r]) /\ status[req[r].usr] = "gone" THEN Idle
               ELSE [req[r] EXCEPT !.stage = "flushed"]]
  /\ UNCHANGED <<status, row, sess, env, boots, revokedBy, overlap>>

\* The stage in which the transaction commits.
ReadyToCommit(r) ==
  LET q == req[r] IN
  IF EarlyResponse THEN q.stage = "answered"
  ELSE \/ q.stage = "flushed"
       \/ q.stage = "loaded" /\ q.op = "login" /\ ~Locked(q.usr)

AfterCommit(r) == IF EarlyResponse THEN Idle
                  ELSE [req[r] EXCEPT !.stage = "committed"]

\* History: a committed bump by q revokes every outstanding token of its
\* account but the one q issues itself.
OwnToken(q) == IF q.op = "change" THEN q.sid ELSE None
Cause(q, s) == IF q.op = "logout" /\ s # q.sid THEN "other" ELSE q.op
Revoke(q) ==
  revokedBy' = [s \in Sids |->
                  IF /\ revokedBy[s] = "none"
                     /\ sess[s] # None
                     /\ s # OwnToken(q)
                     /\ Owner(s) = q.usr
                  THEN Cause(q, s) ELSE revokedBy[s]]

CommitUpdate(r) ==
  LET q == req[r] IN
  /\ ReadyToCommit(r)
  /\ q.op \in {"login", "logout", "change", "reset"}
  /\ q.op = "login" => ~Locked(q.usr)
  /\ status[q.usr] = "live"
  /\ row' = [row EXCEPT ![q.usr] = Updated(q)]
  /\ IF Bumps(q) THEN Revoke(q) ELSE UNCHANGED revokedBy
  /\ req' = [req EXCEPT ![r] = AfterCommit(r)]
  /\ UNCHANGED <<status, sess, env, boots, overlap>>

CommitCreate(r) ==
  LET q == req[r] IN
  /\ ReadyToCommit(r)
  /\ q.op = "create"
  /\ status' = [status EXCEPT ![q.usr] = "live"]
  /\ row' = [row EXCEPT ![q.usr] = [pwd |-> q.pwd, kind |-> "app", tv |-> 1]]
  /\ req' = [req EXCEPT ![r] = AfterCommit(r)]
  /\ UNCHANGED <<sess, env, boots, revokedBy, overlap>>

CommitDelete(r) ==
  /\ ReadyToCommit(r)
  /\ req[r].op = "delete"
  /\ status' = [status EXCEPT ![req[r].usr] = "gone"]
  /\ req' = [req EXCEPT ![r] = AfterCommit(r)]
  /\ UNCHANGED <<row, sess, env, boots, revokedBy, overlap>>

\* The answer reaches the client; login and change carry a new token.
Answerable(q) ==
  IF EarlyResponse
  THEN q.stage = IF q.op = "login" THEN "loaded" ELSE "flushed"
  ELSE q.stage = "committed"

AfterAnswer(q, s) == IF EarlyResponse
                     THEN [q EXCEPT !.stage = "answered", !.sid = s] ELSE Idle

Answer(r) ==
  LET q == req[r] IN
  /\ Answerable(q)
  /\ ~Issues(q)
  /\ req' = [req EXCEPT ![r] = AfterAnswer(q, q.sid)]
  /\ UNCHANGED <<status, row, sess, env, boots, revokedBy, overlap>>

AnswerWithToken(r, s) ==
  LET q == req[r] IN
  /\ Answerable(q)
  /\ Issues(q)
  /\ sess[s] = None
  /\ sess' = [sess EXCEPT ![s] = IssuedToken(q)]
  /\ req' = [req EXCEPT ![r] = AfterAnswer(q, s)]
  /\ UNCHANGED <<status, row, env, boots, revokedBy, overlap>>

\* With every slot of Sids taken (a bound of the model) the answer is lost.
AnswerLost(r) ==
  LET q == req[r] IN
  /\ Answerable(q)
  /\ Issues(q)
  /\ \A s \in Sids : sess[s] # None
  /\ req' = [req EXCEPT ![r] = AfterAnswer(q, None)]
  /\ UNCHANGED <<status, row, sess, env, boots, revokedBy, overlap>>

\* login has locked nothing yet: its UPDATE may find the row deleted.
CommitStale(r) ==
  /\ ReadyToCommit(r)
  /\ req[r].op = "login"
  /\ status[req[r].usr] = "gone"
  /\ req' = [req EXCEPT ![r] = Idle]
  /\ UNCHANGED <<status, row, sess, env, boots, revokedBy, overlap>>

\* History: a token of a version that was never stored has left the server.
Strays(q) == IF q.stage = "answered" /\ q.op = "change" /\ q.sid # None
             THEN {q.usr} ELSE {}

\* A database error or a cancelled request: get_db rolls back.
Fail(r) ==
  /\ Active(r)
  /\ req' = [req EXCEPT ![r] = Idle]
  /\ overlap' = overlap \cup Strays(req[r])
  /\ UNCHANGED <<status, row, sess, env, boots, revokedBy>>

\* A token reaches its exp, or its holder forgets it.
Expire(s) ==
  /\ sess[s] # None
  /\ \A r \in Reqs : req[r].sid # s
  /\ sess' = [sess EXCEPT ![s] = None]
  /\ revokedBy' = [revokedBy EXCEPT ![s] = "none"]
  /\ UNCHANGED <<status, row, req, env, boots, overlap>>

(***************************************************************************)
(* Server start: every request in flight is lost and bootstrap_admin       *)
(* compares the stored hash with the one in the environment.               *)
(***************************************************************************)
Restart(p) ==
  LET stored == [pwd |-> row[Admin].pwd, kind |-> row[Admin].kind]
      wanted == [pwd |-> p, kind |-> "env"]
  IN
  /\ boots < MaxBoots
  /\ boots' = boots + 1
  /\ req' = [r \in Reqs |-> Idle]
  /\ overlap' = overlap \cup UNION {Strays(req[r]) : r \in Reqs}
  /\ env' = p
  /\ IF stored = wanted
     THEN UNCHANGED <<row, revokedBy>>
     ELSE /\ row[Admin].tv < MaxVersion
          /\ row' = [row EXCEPT ![Admin] = [pwd |-> p, kind |-> "env",
                                            tv |-> row[Admin].tv + 1]]
          /\ Revoke([op |-> "boot", usr |-> Admin, sid |-> None])
  /\ UNCHANGED <<status, sess>>

-----------------------------------------------------------------------------
Init ==
  /\ env \in Passwords
  /\ status \in {f \in [Users -> {"free", "live"}] : f[Admin] = "live"}
  /\ row = [u \in Users |-> [pwd |-> env, tv |-> 1,
                             kind |-> IF u = Admin THEN "env" ELSE "old"]]
  /\ sess = [s \in Sids |-> None]
  /\ req = [r \in Reqs |-> Idle]
  /\ boots = 1
  /\ revokedBy = [s \in Sids |-> "none"]
  /\ overlap = {}

Serve(r) ==
  \/ \E u \in Users, p \in Passwords : ResetPassword(r, u, p)
  \/ \E u \in Users, p \in Passwords : CreateUser(r, u, p)
  \/ \E u \in Users : DeleteUser(r, u)
  \/ Refuse(r)
  \/ Flush(r)
  \/ CommitUpdate(r)
  \/ CommitCreate(r)
  \/ CommitDelete(r)
  \/ CommitStale(r)
  \/ Answer(r)
  \/ \E s \in Sids : AnswerWithToken(r, s)
  \/ AnswerLost(r)

Next ==
  \/ \E r \in Reqs, u \in Users : Login(r, u)
  \/ \E r \in Reqs, s \in Sids : Logout(r, s)
  \/ \E r \in Reqs, s \in Sids, p \in Passwords : ChangePassword(r, s, p)
  \/ \E r \in Reqs, s \in Sids, op \in {"reset", "create", "delete"} :
       AdminEnters(r, s, op)
  \/ \E r \in Reqs : Serve(r)
  \/ \E r \in Reqs : Fail(r)
  \/ \E s \in Sids : Expire(s)
  \/ \E p \in Passwords : Restart(p)

Spec == Init /\ [][Next]_vars

\* The server runs every handler to its end, and the database grants a row
\* lock in the order of the requests for it; users and failures are not fair.
Fairness ==
  \A r \in Reqs :
    /\ WF_vars(Refuse(r))
    /\ SF_vars(Flush(r))
    /\ SF_vars(CommitUpdate(r))
    /\ WF_vars(CommitCreate(r) \/ CommitDelete(r) \/ CommitStale(r))
    /\ WF_vars(Answer(r) \/ AnswerLost(r) \/ \E s \in Sids : AnswerWithToken(r, s))

FairSpec == Spec /\ Fairness

(***************************************************************************)
(* Properties.                                                             *)
(***************************************************************************)

\* A token that a logout, a password change, a reset or a rotation at server
\* start has revoked never authenticates again, on every account whose
\* writing requests never overlapped (security.py current_user, auth.py).
RevokedForGood ==
  \A s \in Sids :
    revokedBy[s] # "none" /\ sess[s].usr \notin overlap => ~Authenticates(s)

\* On such an account a token that authenticates was issued to somebody who
\* proved the password that opens the account now: no session outlives the
\* password it was opened with, also not one being issued during the change.
SessionKnowsPassword ==
  \A s \in Sids :
    Authenticates(s) /\ sess[s].usr \notin overlap
      => sess[s].pwd = row[sess[s].usr].pwd

\* Every request ends: the row lock is always released, also when the row is
\* deleted or the server restarts meanwhile.
RequestsEnd == \A r \in Reqs : req[r].stage # "idle" ~> req[r].stage = "idle"

(***************************************************************************)
(* The promise of SessionPromise, kept by every account whose writing      *)
(* requests never overlapped.                                              *)
(***************************************************************************)
\* The token of a password change that is answered and not committed yet.
Pending(s) == \E r \in Reqs : /\ req[r].stage = "answered"
                              /\ req[r].op = "change"
                              /\ req[r].sid = s

TokenState(s) == IF sess[s] = None THEN "unused"
                 ELSE IF sess[s].usr \in overlap THEN "unknown"
                 ELSE IF Pending(s) THEN "pending"
                 ELSE IF Authenticates(s) THEN "live"
                 ELSE "dead"

Promise == INSTANCE SessionPromise WITH
             owner <- [s \in Sids |-> Owner(s)],
             state <- [s \in Sids |-> TokenState(s)],
             loose <- overlap

\* Refinement: every step of the server is a step of the promise.
KeepsPromise == Promise!Spec

(***************************************************************************)
(* What the documentation and the tests say, and overlapping requests or   *)
(* the order of answer and commit refute.                                  *)
(***************************************************************************)

\* auth.py reset_user_password: "a reset immediately logs them out everywhere".
ResetLogsOutEverywhere ==
  \A s \in Sids : revokedBy[s] = "reset" => ~Authenticates(s)

\* auth.py logout: "Bumping the user's token version invalidates it
\* immediately": the token that was logged out never authenticates again.
LogoutIsFinal ==
  \A s \in Sids : revokedBy[s] = "logout" => ~Authenticates(s)

\* test_auth.py: "A captured cookie must stop working the moment the user
\* logs out": once logout is answered its token does not authenticate.
LogoutIsImmediate ==
  \A r \in Reqs :
    req[r].op = "logout" /\ req[r].stage \in {"answered", "committed"}
      => ~Authenticates(req[r].sid)

\* auth.py reset_user_password: "they must sign in with the new password": no
\* step but a change, a reset or a server start alters the password.
OnlyResetsAlterPassword ==
  [][\A u \in Users :
       row'[u].pwd # row[u].pwd =>
         \/ boots' # boots
         \/ \E r \in Reqs : /\ req[r].usr = u
                            /\ req[r].op \in {"change", "reset", "create"}
                            /\ req'[r].stage # req[r].stage]_vars

\* security.py bootstrap_admin: "keep the configured hash (rotating it when the
\* env hash changes)": a start with the same environment keeps the password.
StartKeepsPassword ==
  [][boots' # boots /\ env' = env => row'[Admin].pwd = row[Admin].pwd]_vars
=============================================================================
