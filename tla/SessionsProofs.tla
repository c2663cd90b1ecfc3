--------------------------- MODULE SessionsProofs ---------------------------
(***************************************************************************)
(* Proofs about Sessions, for any number of accounts, requests and tokens. *)
(*                                                                         *)
(* RevokedForGood and SessionKnowsPassword are not inductive: they say     *)
(* nothing of a request that holds a version it read earlier.  Serial(u)   *)
(* adds what is true of the requests and tokens of an account u whose      *)
(* writers never overlapped: there is one writer at most, what it read is  *)
(* still current, no token is ahead of the row except the one of a change  *)
(* that is answered before it commits, and whoever is up to date knows the *)
(* password.                                                               *)
(***************************************************************************)
EXTENDS Sessions, TLAPS

\* A request that may still hand out or already handed out a token.
LoginOn(r, u)  == /\ req[r].op = "login" /\ req[r].usr = u
                  /\ req[r].stage \in {"loaded", "answered", "committed"}
ChangedOn(r, u) == /\ req[r].op = "change" /\ req[r].usr = u
                   /\ req[r].stage = "committed"
AheadOn(r, s)  == /\ req[r].op = "change" /\ req[r].stage = "answered"
                  /\ req[r].sid = s

OneWriter(u) ==
  \A r, o \in Reqs : Writer(r, u) /\ Writer(o, u) => r = o
CurrentRead(u) ==
  \A r \in Reqs : Writer(r, u) => req[r].tv = row[u].tv
TokensBehind(u) ==
  \A s \in Sids : sess[s] # None /\ Owner(s) = u =>
    \/ sess[s].tv <= row[u].tv
    \/ \E r \in Reqs : AheadOn(r, s)
UpToDateKnows(u) ==
  \A s \in Sids : sess[s] # None /\ Owner(s) = u /\ sess[s].tv = row[u].tv
    => sess[s].pwd = row[u].pwd
LoginsKnow(u) ==
  \A r \in Reqs : LoginOn(r, u) =>
    /\ req[r].tv <= row[u].tv
    /\ req[r].tv = row[u].tv => req[r].pwd = row[u].pwd
ChangesKnow(u) ==
  \A r \in Reqs : ChangedOn(r, u) =>
    /\ req[r].tv + 1 <= row[u].tv
    /\ req[r].tv + 1 = row[u].tv => req[r].pwd = row[u].pwd
RevokedBehind(u) ==
  \A s \in Sids : revokedBy[s] # "none" /\ Owner(s) = u
    => sess[s].tv < row[u].tv

Serial(u) == /\ OneWriter(u) /\ CurrentRead(u) /\ TokensBehind(u)
             /\ UpToDateKnows(u) /\ LoginsKnow(u) /\ ChangesKnow(u)
             /\ RevokedBehind(u)

\* True of every account: tokens of changes in flight, revoked tokens,
\* accounts that are being created.
AheadTokens ==
  \A r \in Reqs, s \in Sids : AheadOn(r, s) => sess[s] = IssuedToken(req[r])
RevokedOutstanding ==
  \A s \in Sids : revokedBy[s] # "none" => sess[s] # None
FreeUntouched ==
  \A u \in Users : status[u] = "free" =>
    /\ \A s \in Sids : Owner(s) # u
    /\ \A r \in Reqs : /\ req[r].usr = u
                       /\ req[r].stage \notin {"idle", "authed"}
                       => req[r].op = "create"
CreatesFree ==
  \A r \in Reqs : Active(r) /\ req[r].op = "create" =>
    /\ status[req[r].usr] = "free"
    /\ \A o \in Reqs : Active(o) /\ req[o].usr = req[r].usr => o = r

\* login has nothing to flush before its commit.
LoginsUnflushed ==
  \A r \in Reqs : req[r].op = "login" => req[r].stage # "flushed"

IInv ==
  /\ TypeOK
  /\ LoginsUnflushed
  /\ AheadTokens
  /\ RevokedOutstanding
  /\ FreeUntouched
  /\ CreatesFree
  /\ \A u \in Users \ overlap : Serial(u)
-----------------------------------------------------------------------------
\* A well-formed request stays one when its stage, owner, password, version or
\* token are replaced by values of the right type.
LEMMA IdleType == Idle \in Request /\ ~HoldsPassword(Idle)
  BY SessionsAssumption DEF Idle, Request, Stages, Ops, Kinds, HoldsPassword

\* Loading a well-typed request keeps the state well typed.
LEMMA LoadType ==
  ASSUME TypeOK, NEW r \in Reqs, NEW q \in Request,
         HoldsPassword(q) => q.pwd \in Passwords, Load(r, q)
  PROVE  TypeOK'
  <1>1. req' \in [Reqs -> Request]
    BY DEF TypeOK, Load
  <1>2. \A o \in Reqs : HoldsPassword(req[o])' => req'[o].pwd \in Passwords
    BY DEF TypeOK, Load, HoldsPassword
  <1>3. overlap' \subseteq Users
    BY DEF TypeOK, Load, Overlaps, Request
  <1>4. QED
    BY <1>1, <1>2, <1>3 DEF TypeOK, Load

LEMMA UpdatedType ==
  ASSUME TypeOK, NEW r \in Reqs, req[r].stage \notin {"idle", "authed"}
  PROVE  Updated(req[r]) \in Row
  <1>1. req[r] \in Request /\ row[req[r].usr] \in Row
    BY DEF TypeOK, Request
  <1>2. req[r].op \in {"login", "change", "reset"} => req[r].pwd \in Passwords
    BY DEF TypeOK, HoldsPassword
  <1>3. QED
    BY <1>1, <1>2 DEF Updated, Row, Request, Kinds, Rehash, Bumps

\* Every value of revokedBy is one of Causes.
LEMMA RevokeType ==
  ASSUME TypeOK, NEW q, q.op \in {"logout", "change", "reset", "boot"}, Revoke(q)
  PROVE  revokedBy' \in [Sids -> Causes]
  BY DEF TypeOK, Revoke, Cause, Causes

LEMMA TypeInductive == TypeOK /\ [Next]_vars => TypeOK'
  <1> SUFFICES ASSUME TypeOK, [Next]_vars PROVE TypeOK'
    OBVIOUS
  <1> USE SessionsAssumption, IdleType
  <1>1. ASSUME NEW r \in Reqs, NEW u \in Users, Login(r, u) PROVE TypeOK'
    <2> DEFINE q == [stage |-> "loaded", op |-> "login", usr |-> u,
                     tv |-> row[u].tv, pwd |-> row[u].pwd,
                     kind |-> row[u].kind, sid |-> None]
    <2>1. q \in Request /\ q.pwd \in Passwords
      BY DEF TypeOK, Row, Request, Stages, Ops
    <2>2. Load(r, q)
      BY <1>1 DEF Login
    <2>3. QED
      BY <2>1, <2>2, LoadType
  <1>2. ASSUME NEW r \in Reqs, NEW s \in Sids, Logout(r, s) PROVE TypeOK'
    <2> DEFINE u == sess[s].usr
               q == [stage |-> "loaded", op |-> "logout", usr |-> u,
                     tv |-> row[u].tv, pwd |-> None, kind |-> "app", sid |-> s]
    <2>1. u \in Users
      BY <1>2 DEF TypeOK, Logout, Authenticates, Token
    <2>2. q \in Request /\ ~HoldsPassword(q)
      BY <2>1 DEF TypeOK, Row, Request, Stages, Ops, Kinds, HoldsPassword
    <2>3. Load(r, q)
      BY <1>2 DEF Logout
    <2>4. QED
      BY <2>2, <2>3, LoadType
  <1>3. ASSUME NEW r \in Reqs, NEW s \in Sids, NEW p \in Passwords,
               ChangePassword(r, s, p)
        PROVE TypeOK'
    <2> DEFINE u == sess[s].usr
               q == [stage |-> "loaded", op |-> "change", usr |-> u,
                     tv |-> row[u].tv, pwd |-> p, kind |-> "app", sid |-> None]
    <2>1. u \in Users
      BY <1>3 DEF TypeOK, ChangePassword, Authenticates, Token
    <2>2. q \in Request /\ q.pwd \in Passwords
      BY <2>1 DEF TypeOK, Row, Request, Stages, Ops, Kinds
    <2>3. Load(r, q)
      BY <1>3 DEF ChangePassword
    <2>4. QED
      BY <2>2, <2>3, LoadType
  <1>4. ASSUME NEW r \in Reqs, NEW s \in Sids,
               NEW op \in {"reset", "create", "delete"}, AdminEnters(r, s, op)
        PROVE TypeOK'
    <2> DEFINE q == [Idle EXCEPT !.stage = "authed", !.op = op,
                       !.tv = IF op = "reset" THEN row[Admin].tv ELSE 0]
    <2>1. row[Admin].tv \in Nat
      BY DEF TypeOK, Row
    <2>2. q \in Request /\ q.stage = "authed"
      BY <2>1 DEF Idle, Request, Stages, Ops, Kinds
    <2>3. req' = [req EXCEPT ![r] = q]
      BY <1>4 DEF AdminEnters
    <2>4. ~HoldsPassword(req[r])' /\ req' \in [Reqs -> Request]
      BY <2>2, <2>3 DEF TypeOK, HoldsPassword
    <2>5. QED
      BY <1>4, <2>3, <2>4 DEF TypeOK, AdminEnters, HoldsPassword
  <1>5. ASSUME NEW r \in Reqs, NEW u \in Users, NEW p \in Passwords,
               ResetPassword(r, u, p)
        PROVE TypeOK'
    <2> DEFINE q == [req[r] EXCEPT !.stage = "loaded", !.usr = u, !.pwd = p,
                       !.tv = IF u = Admin THEN req[r].tv ELSE row[u].tv]
    <2>1. q \in Request /\ q.pwd \in Passwords
      BY DEF TypeOK, Request, Stages, Row
    <2>2. Load(r, q)
      BY <1>5 DEF ResetPassword
    <2>3. QED
      BY <2>1, <2>2, LoadType
  <1>6. ASSUME NEW r \in Reqs, NEW u \in Users, DeleteUser(r, u) PROVE TypeOK'
    <2> DEFINE q == [req[r] EXCEPT !.stage = "loaded", !.usr = u]
    <2>1. q \in Request /\ q.op = "delete"
      BY <1>6 DEF TypeOK, Request, Stages, DeleteUser
    <2>2. Load(r, q)
      BY <1>6 DEF DeleteUser
    <2>3. QED
      BY <2>1, <2>2, LoadType DEF HoldsPassword
  <1>7. ASSUME NEW r \in Reqs, NEW u \in Users, NEW p \in Passwords,
               CreateUser(r, u, p)
        PROVE TypeOK'
    <2> DEFINE q == [req[r] EXCEPT !.stage = "loaded", !.usr = u, !.pwd = p]
    <2>1. q \in Request /\ q.pwd \in Passwords
      BY DEF TypeOK, Request, Stages
    <2>2. Load(r, q)
      BY <1>7 DEF CreateUser
    <2>3. QED
      BY <2>1, <2>2, LoadType
  <1>8. ASSUME NEW r \in Reqs, Refuse(r) PROVE TypeOK'
    BY <1>8 DEF TypeOK, Refuse, HoldsPassword
  <1>9. ASSUME NEW r \in Reqs, Flush(r) PROVE TypeOK'
    <2>1. req'[r] \in Request /\ (HoldsPassword(req[r])' => req'[r].pwd \in Passwords)
      BY <1>9 DEF TypeOK, Flush, Request, Stages, HoldsPassword
    <2>2. QED
      BY <1>9, <2>1 DEF TypeOK, Flush, HoldsPassword
  <1>10. ASSUME NEW r \in Reqs PROVE AfterCommit(r) \in Request
    BY DEF TypeOK, AfterCommit, Request, Stages
  <1>11. ASSUME NEW r \in Reqs, req' = [req EXCEPT ![r] = AfterCommit(r)],
                req[r].stage \notin {"idle", "authed"}
         PROVE /\ req' \in [Reqs -> Request]
               /\ \A o \in Reqs : HoldsPassword(req[o])' => req'[o].pwd \in Passwords
    BY <1>10, <1>11 DEF TypeOK, AfterCommit, HoldsPassword, Request
  <1>12. ASSUME NEW r \in Reqs, ReadyToCommit(r)
         PROVE req[r].stage \notin {"idle", "authed"}
    BY <1>12 DEF ReadyToCommit
  <1>13. ASSUME NEW r \in Reqs, CommitUpdate(r) PROVE TypeOK'
    <2>1. row' \in [Users -> Row]
      BY <1>12, <1>13, UpdatedType DEF TypeOK, CommitUpdate, Request
    <2>2. revokedBy' \in [Sids -> Causes]
      BY <1>13, RevokeType DEF TypeOK, CommitUpdate, Bumps
    <2>3. QED
      BY <1>11, <1>12, <1>13, <2>1, <2>2 DEF TypeOK, CommitUpdate
  <1>14. ASSUME NEW r \in Reqs, CommitCreate(r) PROVE TypeOK'
    <2>1. req[r].pwd \in Passwords /\ req[r].usr \in Users
      BY <1>12, <1>14 DEF TypeOK, CommitCreate, HoldsPassword, Request
    <2>2. QED
      BY <1>11, <1>12, <1>14, <2>1 DEF TypeOK, CommitCreate, Row, Kinds
  <1>15. ASSUME NEW r \in Reqs, CommitDelete(r) PROVE TypeOK'
    BY <1>11, <1>12, <1>15 DEF TypeOK, CommitDelete
  <1>16. ASSUME NEW r \in Reqs, CommitStale(r) PROVE TypeOK'
    BY <1>16 DEF TypeOK, CommitStale, HoldsPassword
  <1>17. ASSUME NEW r \in Reqs, NEW s \in Sids \cup {None}, Answerable(req[r]),
                req' = [req EXCEPT ![r] = AfterAnswer(req[r], s)]
         PROVE /\ req' \in [Reqs -> Request]
               /\ \A o \in Reqs : HoldsPassword(req[o])' => req'[o].pwd \in Passwords
    <2>1. AfterAnswer(req[r], s) \in Request
      BY DEF TypeOK, AfterAnswer, Request, Stages
    <2>2. req[r].stage \notin {"idle", "authed"}
      BY <1>17 DEF Answerable
    <2>3. QED
      BY <1>17, <2>1, <2>2 DEF TypeOK, AfterAnswer, HoldsPassword, Request
  <1>18. ASSUME NEW r \in Reqs, Answer(r) PROVE TypeOK'
    BY <1>17, <1>18 DEF TypeOK, Answer, Request
  <1>19. ASSUME NEW r \in Reqs, AnswerLost(r) PROVE TypeOK'
    BY <1>17, <1>19 DEF TypeOK, AnswerLost
  <1>20. ASSUME NEW r \in Reqs, NEW s \in Sids, AnswerWithToken(r, s) PROVE TypeOK'
    <2>1. IssuedToken(req[r]) \in Token
      BY <1>20 DEF TypeOK, AnswerWithToken, IssuedToken, IssuedVersion, Token,
                   Request, Issues, Answerable, HoldsPassword
    <2>2. QED
      BY <1>17, <1>20, <2>1 DEF TypeOK, AnswerWithToken
  <1>21. ASSUME NEW r \in Reqs, Fail(r) PROVE TypeOK'
    BY <1>21 DEF TypeOK, Fail, Strays, HoldsPassword, Request
  <1>22. ASSUME NEW s \in Sids, Expire(s) PROVE TypeOK'
    BY <1>22 DEF TypeOK, Expire, Causes, HoldsPassword
  <1>23. ASSUME NEW p \in Passwords, Restart(p) PROVE TypeOK'
    <2>1. row' \in [Users -> Row]
      BY <1>23 DEF TypeOK, Restart, Row, Kinds
    <2>2. revokedBy' \in [Sids -> Causes]
      BY <1>23, RevokeType DEF TypeOK, Restart
    <2>3. overlap' \subseteq Users
      BY <1>23 DEF TypeOK, Restart, Strays, Request
    <2>4. QED
      BY <1>23, <2>1, <2>2, <2>3 DEF TypeOK, Restart, HoldsPassword
  <1>24. CASE UNCHANGED vars
    BY <1>24 DEF TypeOK, vars, HoldsPassword
  <1>25. QED
    BY <1>1, <1>2, <1>3, <1>4, <1>5, <1>6, <1>7, <1>8, <1>9, <1>13, <1>14,
       <1>15, <1>16, <1>18, <1>19, <1>20, <1>21, <1>22, <1>23, <1>24
       DEF Next, Serve

LEMMA TypeInit == Init => TypeOK
  BY SessionsAssumption, IdleType
     DEF Init, TypeOK, Row, Kinds, Causes

\* Every reachable state of the server is well typed.
THEOREM TypeCorrect == Spec => []TypeOK
  BY TypeInit, TypeInductive, PTL DEF Spec

-----------------------------------------------------------------------------
(***************************************************************************)
(* The inductive step.  Most steps only move one request on; KeepsSerial   *)
(* says when such a step preserves what IInv says of rows and tokens.      *)
(***************************************************************************)
LEMMA KeepsSerial ==
  ASSUME IInv, NEW r \in Reqs, NEW q \in Request,
         req' = [req EXCEPT ![r] = q],
         UNCHANGED <<row, sess, revokedBy>>,
         overlap \subseteq overlap',
         q.stage \notin {"idle", "authed"} =>
           /\ Active(r)
           /\ q.op = req[r].op /\ q.usr = req[r].usr /\ q.tv = req[r].tv
           /\ q.pwd = req[r].pwd /\ q.kind = req[r].kind,
         q.stage = "committed" => q.op # "change",
         \A s \in Sids : AheadOn(r, s) =>
           \/ q.stage = "answered" /\ q.op = "change" /\ q.sid = s
           \/ req[r].usr \in overlap',
         \A s \in Sids : q.stage = "answered" /\ q.op = "change" /\ q.sid = s
           => AheadOn(r, s)
  PROVE  /\ AheadTokens' /\ RevokedOutstanding'
         /\ \A u \in Users \ overlap' : Serial(u)'
  <1> USE DEF IInv
  <1>1. req \in [Reqs -> Request] /\ req' \in [Reqs -> Request] /\ req'[r] = q
        /\ \A o \in Reqs : o # r => req'[o] = req[o]
    BY DEF TypeOK
  <1>2. \A o \in Reqs, s \in Sids : AheadOn(o, s)' =>
          AheadOn(o, s) /\ IssuedToken(req[o])' = IssuedToken(req[o])
    BY <1>1 DEF AheadOn, IssuedToken, IssuedVersion
  <1>3. AheadTokens'
    BY <1>2 DEF AheadTokens
  <1>4. RevokedOutstanding'
    BY DEF RevokedOutstanding
  <1>5. ASSUME NEW u \in Users \ overlap' PROVE Serial(u)'
    <2>1. Serial(u)
      OBVIOUS
    <2>2. \A o \in Reqs : Writer(o, u)' => Writer(o, u) /\ req'[o].tv = req[o].tv
      BY <1>1 DEF Writer, Active, Writes, Bumps, Rehash
    <2>3. OneWriter(u)' /\ CurrentRead(u)'
      BY <2>1, <2>2 DEF Serial, OneWriter, CurrentRead
    <2>4. ASSUME NEW s \in Sids, sess[s] # None, Owner(s) = u,
                 NEW o \in Reqs, AheadOn(o, s)
          PROVE  AheadOn(o, s)'
      <3>1. sess[s] = IssuedToken(req[o])
        BY <2>4 DEF AheadTokens
      <3>2. req[o].usr = u
        BY <2>4, <3>1 DEF IssuedToken, Owner
      <3>3. QED
        BY <1>1, <2>4, <3>2 DEF AheadOn
    <2>5. TokensBehind(u)'
      BY <2>1, <2>4 DEF Serial, TokensBehind, Owner
    <2>6. UpToDateKnows(u)' /\ RevokedBehind(u)'
      BY <2>1 DEF Serial, UpToDateKnows, RevokedBehind, Owner
    <2>7. LoginsKnow(u)'
      <3>1. \A o \in Reqs : LoginOn(o, u)' =>
              LoginOn(o, u) /\ req'[o].tv = req[o].tv /\ req'[o].pwd = req[o].pwd
        BY <1>1 DEF LoginOn, Active, LoginsUnflushed
      <3>2. QED
        BY <2>1, <3>1 DEF Serial, LoginsKnow
    <2>8. ChangesKnow(u)'
      BY <1>1, <2>1 DEF Serial, ChangesKnow, ChangedOn
    <2>9. QED
      BY <2>3, <2>5, <2>6, <2>7, <2>8 DEF Serial
  <1>6. QED
    BY <1>3, <1>4, <1>5

\* The same for the facts about accounts that are being created.
LEMMA KeepsFree ==
  ASSUME IInv, NEW r \in Reqs, NEW q \in Request,
         req' = [req EXCEPT ![r] = q],
         q.stage \notin {"idle", "authed"} =>
           req[r].stage \notin {"idle", "authed"} /\ q.op = req[r].op
             /\ q.usr = req[r].usr,
         Active(r)' => Active(r),
         \A u \in Users : status'[u] = "free" <=> status[u] = "free",
         UNCHANGED sess
  PROVE  FreeUntouched' /\ CreatesFree'
  <1>1. req \in [Reqs -> Request] /\ req'[r] = q
        /\ \A o \in Reqs : o # r => req'[o] = req[o]
    BY DEF IInv, TypeOK
  <1>2. FreeUntouched'
    BY <1>1 DEF IInv, FreeUntouched, Owner
  <1>3. \A o \in Reqs : Active(o)' =>
          Active(o) /\ req'[o].op = req[o].op /\ req'[o].usr = req[o].usr
    BY <1>1 DEF Active
  <1>4. \A o \in Reqs : req[o].usr \in Users
    BY <1>1 DEF Request
  <1>5. CreatesFree'
    BY <1>3, <1>4 DEF IInv, CreatesFree
  <1>6. QED
    BY <1>2, <1>5

\* A request that has read the current row of its account.
LEMMA LoadInv ==
  ASSUME IInv, NEW r \in Reqs, NEW q \in Request, ~Active(r), q.stage = "loaded",
         Load(r, q),
         q.op = "create" =>
           /\ status[q.usr] = "free"
           /\ \A o \in Reqs : ~(Active(o) /\ req[o].usr = q.usr),
         q.op # "create" => status[q.usr] = "live",
         q.op = "login" => q.tv = row[q.usr].tv /\ q.pwd = row[q.usr].pwd
  PROVE  /\ AheadTokens' /\ RevokedOutstanding' /\ FreeUntouched' /\ CreatesFree'
         /\ \A u \in Users \ overlap' : Serial(u)'
  <1> USE DEF IInv
  <1>1. /\ req \in [Reqs -> Request] /\ req'[r] = q /\ req' \in [Reqs -> Request]
        /\ \A o \in Reqs : o # r => req'[o] = req[o]
        /\ UNCHANGED <<status, row, sess, revokedBy>>
        /\ overlap' = overlap \cup Overlaps(q)
    BY DEF TypeOK, Load
  <1>2. \A o \in Reqs, s \in Sids : AheadOn(o, s)' <=> AheadOn(o, s)
    BY <1>1 DEF AheadOn, Active
  <1>3. AheadTokens'
    BY <1>1, <1>2 DEF AheadTokens, AheadOn, IssuedToken, IssuedVersion
  <1>4. RevokedOutstanding'
    BY <1>1 DEF RevokedOutstanding
  <1>5. FreeUntouched'
    BY <1>1 DEF FreeUntouched, Owner
  <1>6. \A o \in Reqs : o # r => (Active(o)' <=> Active(o))
    BY <1>1 DEF Active
  <1>7. \A o \in Reqs : Active(o) /\ status[req[o].usr] = "free" => req[o].op = "create"
    BY <1>1 DEF FreeUntouched, Active, Request
  <1>8. CreatesFree'
    <2> SUFFICES ASSUME NEW c \in Reqs, Active(c)', req'[c].op = "create"
                 PROVE  /\ status'[req'[c].usr] = "free"
                        /\ \A o \in Reqs : Active(o)' /\ req'[o].usr = req'[c].usr
                             => o = c
      BY DEF CreatesFree
    <2>1. CASE c = r
      BY <1>1, <1>6, <2>1
    <2>2. CASE c # r
      <3>1. Active(c) /\ req[c].op = "create" /\ status[req[c].usr] = "free"
        BY <1>1, <1>6, <2>2 DEF CreatesFree
      <3>2. q.usr # req[c].usr
        BY <1>1, <2>2, <3>1
      <3>3. QED
        BY <1>1, <1>6, <2>2, <3>1, <3>2 DEF CreatesFree
    <2>3. QED
      BY <2>1, <2>2
  <1>9. ASSUME NEW u \in Users \ overlap' PROVE Serial(u)'
    <2>1. Serial(u) /\ u \notin Overlaps(q)
      BY <1>1
    <2>2. q.usr = u /\ Writes(q) =>
            q.tv = row[u].tv /\ \A o \in Reqs : ~Writer(o, u)
      BY <2>1 DEF Overlaps
    <2>3. \A o \in Reqs : o # r => (Writer(o, u)' <=> Writer(o, u))
      BY <1>1, <1>6 DEF Writer
    <2>4. Writer(r, u)' => q.usr = u /\ Writes(q)
      BY <1>1 DEF Writer
    <2>5. OneWriter(u)'
      BY <2>1, <2>2, <2>3, <2>4 DEF Serial, OneWriter
    <2>6. CurrentRead(u)'
      BY <1>1, <2>1, <2>2, <2>3, <2>4 DEF Serial, CurrentRead
    <2>7. TokensBehind(u)'
      BY <1>1, <1>2, <2>1 DEF Serial, TokensBehind, Owner
    <2>8. UpToDateKnows(u)' /\ RevokedBehind(u)'
      BY <1>1, <2>1 DEF Serial, UpToDateKnows, RevokedBehind, Owner
    <2>9. LoginsKnow(u)'
      <3>1. row[u].tv \in Nat
        BY DEF TypeOK, Row
      <3>2. QED
        BY <1>1, <2>1, <3>1 DEF Serial, LoginsKnow, LoginOn
    <2>10. ChangesKnow(u)'
      BY <1>1, <2>1 DEF Serial, ChangesKnow, ChangedOn
    <2>11. QED
      BY <2>5, <2>6, <2>7, <2>8, <2>9, <2>10 DEF Serial
  <1>10. QED
    BY <1>3, <1>4, <1>5, <1>8, <1>9

\* A commit writes the row; every token of the account falls behind, except
\* the one that the committing request issued for the new version.
LEMMA CommitUpdateInv ==
  ASSUME IInv, NEW r \in Reqs, CommitUpdate(r)
  PROVE  /\ AheadTokens' /\ RevokedOutstanding' /\ FreeUntouched' /\ CreatesFree'
         /\ \A u \in Users \ overlap' : Serial(u)'
  <1> USE DEF IInv
  <1> DEFINE q == req[r]
             v == req[r].usr
  <1>1. /\ req \in [Reqs -> Request] /\ q \in Request /\ v \in Users
        /\ req' = [req EXCEPT ![r] = AfterCommit(r)]
        /\ row' = [row EXCEPT ![v] = Updated(q)]
        /\ row \in [Users -> Row]
        /\ UNCHANGED <<status, sess, overlap>>
    BY DEF TypeOK, CommitUpdate, Request
  <1>2. /\ q.op \in {"login", "logout", "change", "reset"}
        /\ Active(r) /\ (q.op = "login" => q.stage # "flushed")
        /\ status[v] = "live"
    <2>1. q.stage \in {"loaded", "flushed", "answered"}
      BY DEF CommitUpdate, ReadyToCommit
    <2>2. q.op = "login" => q.stage # "flushed"
      BY DEF LoginsUnflushed
    <2>3. QED
      BY <2>1, <2>2 DEF CommitUpdate, Active
  <1>3. /\ req'[r] = Idle \/ (/\ req'[r].stage = "committed"
                              /\ req'[r] = [q EXCEPT !.stage = "committed"])
        /\ \A o \in Reqs : o # r => req'[o] = req[o]
    BY <1>1 DEF AfterCommit, Request
  <1>4. \A o \in Reqs, s \in Sids : AheadOn(o, s)' <=> AheadOn(o, s) /\ o # r
    BY <1>1, <1>3 DEF AheadOn, Idle
  <1>5. AheadTokens'
    BY <1>1, <1>3, <1>4 DEF AheadTokens, IssuedToken, IssuedVersion
  <1>6. \A s \in Sids : revokedBy'[s] # revokedBy[s] =>
          Bumps(q) /\ sess[s] # None /\ s # OwnToken(q) /\ Owner(s) = v
    BY DEF CommitUpdate, Revoke, TypeOK
  <1>7. RevokedOutstanding'
    BY <1>1, <1>6 DEF RevokedOutstanding
  <1>8. FreeUntouched'
    <2>1. \A o \in Reqs : req'[o].stage \notin {"idle", "authed"} =>
            \/ o = r /\ req'[o].usr = v
            \/ req'[o] = req[o]
      BY <1>1, <1>3 DEF Idle, Request
    <2>2. QED
      BY <1>1, <1>2, <2>1 DEF FreeUntouched, Owner
  <1>9. CreatesFree'
    BY <1>1, <1>2, <1>3 DEF CreatesFree, Active, Idle
  <1>10. ASSUME NEW u \in Users \ overlap' PROVE Serial(u)'
    <2>1. Serial(u) /\ row[u].tv \in Nat
      BY <1>1 DEF Row
    <2>2. \A o \in Reqs : Writer(o, u)' => o # r /\ Writer(o, u)
      BY <1>1, <1>3 DEF Writer, Active, Idle
    <2>3. CASE u # v
      <3>1. row'[u] = row[u]
        BY <1>1, <2>3
      <3>2. OneWriter(u)' /\ CurrentRead(u)'
        BY <1>1, <1>3, <2>1, <2>2, <3>1 DEF Serial, OneWriter, CurrentRead
      <3>3. ASSUME NEW s \in Sids, sess[s] # None, Owner(s) = u,
                   NEW o \in Reqs, AheadOn(o, s)
            PROVE  AheadOn(o, s)'
        <4>1. sess[s] = IssuedToken(req[o])
          BY <3>3 DEF AheadTokens
        <4>2. o # r
          BY <2>3, <3>3, <4>1 DEF IssuedToken, Owner
        <4>3. QED
          BY <1>4, <3>3, <4>2
      <3>4. TokensBehind(u)'
        BY <1>1, <2>1, <3>1, <3>3 DEF Serial, TokensBehind, Owner
      <3>5. UpToDateKnows(u)'
        BY <1>1, <2>1, <3>1 DEF Serial, UpToDateKnows, Owner
      <3>6. RevokedBehind(u)'
        BY <1>1, <1>6, <2>1, <2>3, <3>1 DEF Serial, RevokedBehind, Owner
      <3>7. LoginsKnow(u)' /\ ChangesKnow(u)'
        <4>1. \A o \in Reqs : LoginOn(o, u)' => LoginOn(o, u) /\ req'[o] = req[o]
          BY <1>1, <1>3, <2>3 DEF LoginOn, Idle, Request
        <4>2. \A o \in Reqs : ChangedOn(o, u)' =>
                ChangedOn(o, u) /\ req'[o] = req[o]
          BY <1>1, <1>3, <2>3 DEF ChangedOn, Idle, Request
        <4>3. QED
          BY <2>1, <3>1, <4>1, <4>2 DEF Serial, LoginsKnow, ChangesKnow
      <3>8. QED
        BY <3>2, <3>4, <3>5, <3>6, <3>7 DEF Serial
    <2>4. CASE u = v /\ ~Bumps(q)
      <3>1. q.op = "login" /\ LoginOn(r, u)
        BY <1>2, <2>4 DEF Bumps, LoginOn, Active
      <3>2. q.tv = row[u].tv \/ ~Rehash(q)
        BY <1>2, <2>1, <2>4 DEF Serial, CurrentRead, Writer, Writes
      <3>3. row'[u].pwd = row[u].pwd /\ row'[u].tv = row[u].tv
        BY <1>1, <2>1, <2>4, <3>1, <3>2
           DEF Updated, Serial, LoginsKnow, Bumps
      <3>4. OneWriter(u)' /\ CurrentRead(u)'
        BY <1>1, <1>3, <2>1, <2>2, <3>3 DEF Serial, OneWriter, CurrentRead
      <3>5. \A o \in Reqs, s \in Sids : AheadOn(o, s) => AheadOn(o, s)'
        BY <1>4, <3>1 DEF AheadOn
      <3>6. TokensBehind(u)'
        BY <1>1, <2>1, <3>3, <3>5 DEF Serial, TokensBehind, Owner
      <3>7. UpToDateKnows(u)'
        BY <1>1, <2>1, <3>3 DEF Serial, UpToDateKnows, Owner
      <3>8. RevokedBehind(u)'
        BY <1>1, <1>6, <2>1, <2>4, <3>3 DEF Serial, RevokedBehind, Owner
      <3>9. LoginsKnow(u)'
        <4>1. \A o \in Reqs : LoginOn(o, u)' =>
                LoginOn(o, u) /\ req'[o].tv = req[o].tv /\ req'[o].pwd = req[o].pwd
          BY <1>1, <1>3, <3>1 DEF LoginOn, Idle, Request
        <4>2. QED
          BY <2>1, <3>3, <4>1 DEF Serial, LoginsKnow
      <3>10. ChangesKnow(u)'
        <4>1. \A o \in Reqs : ChangedOn(o, u)' =>
                ChangedOn(o, u) /\ req'[o] = req[o]
          BY <1>1, <1>3, <3>1 DEF ChangedOn, Idle, Request
        <4>2. QED
          BY <2>1, <3>3, <4>1 DEF Serial, ChangesKnow
      <3>11. QED
        BY <3>4, <3>6, <3>7, <3>8, <3>9, <3>10 DEF Serial
    <2>5. CASE u = v /\ Bumps(q)
      <3>1. Writer(r, u)
        BY <1>2, <2>5 DEF Writer, Writes
      <3>2. q.tv = row[u].tv
        BY <2>1, <3>1 DEF Serial, CurrentRead
      <3>3. row'[u].tv = row[u].tv + 1
            /\ (q.op = "change" => row'[u].pwd = q.pwd)
        BY <1>1, <2>5, <3>2 DEF Updated
      <3>4. \A o \in Reqs : ~Writer(o, u)'
        BY <2>1, <2>2, <3>1 DEF Serial, OneWriter
      <3>5. OneWriter(u)' /\ CurrentRead(u)'
        BY <3>4 DEF OneWriter, CurrentRead
      <3>6. ASSUME NEW s \in Sids, sess[s] # None, Owner(s) = u,
                   ~(sess[s].tv <= row[u].tv)
            PROVE  /\ AheadOn(r, s) /\ sess[s].tv = row'[u].tv
                   /\ sess[s].pwd = row'[u].pwd
        <4>1. PICK o \in Reqs : AheadOn(o, s)
          BY <2>1, <3>6 DEF Serial, TokensBehind
        <4>2. sess[s] = IssuedToken(req[o])
          BY <4>1 DEF AheadTokens
        <4>3. Writer(o, u)
          BY <3>6, <4>1, <4>2
             DEF AheadOn, Writer, Writes, Bumps, Active, IssuedToken, Owner
        <4>4. o = r
          BY <2>1, <3>1, <4>3 DEF Serial, OneWriter
        <4>5. QED
          BY <3>2, <3>3, <4>1, <4>2, <4>4
             DEF AheadOn, IssuedToken, IssuedVersion
      <3>7. \A s \in Sids : sess[s] # None => sess[s].tv \in Nat
        BY DEF TypeOK, Token
      <3>8. TokensBehind(u)'
        BY <1>1, <2>1, <3>3, <3>6, <3>7 DEF TokensBehind, Owner
      <3>9. UpToDateKnows(u)'
        BY <1>1, <2>1, <3>3, <3>6, <3>7 DEF UpToDateKnows, Owner
      <3>10. RevokedBehind(u)'
        <4> SUFFICES ASSUME NEW s \in Sids, revokedBy'[s] # "none", Owner(s)' = u
                     PROVE  sess'[s].tv < row'[u].tv
          BY DEF RevokedBehind
        <4>1. Owner(s) = u
          BY <1>1 DEF Owner
        <4>2. CASE revokedBy[s] # "none"
          BY <1>1, <2>1, <3>3, <3>7, <4>1, <4>2
             DEF Serial, RevokedBehind, RevokedOutstanding
        <4>3. CASE revokedBy[s] = "none"
          <5>1. sess[s] # None /\ s # OwnToken(q)
            BY <1>6, <4>3
          <5>2. ~AheadOn(r, s)
            BY <5>1 DEF AheadOn, OwnToken
          <5>3. QED
            BY <1>1, <2>1, <3>3, <3>6, <3>7, <4>1, <5>1, <5>2
        <4>4. QED
          BY <4>2, <4>3
      <3>11. LoginsKnow(u)'
        <4>1. \A o \in Reqs : LoginOn(o, u)' => LoginOn(o, u) /\ req'[o] = req[o]
                                                /\ req[o].tv \in Nat
          BY <1>1, <1>3, <2>5 DEF LoginOn, Idle, Bumps, Request
        <4>2. QED
          BY <2>1, <3>3, <4>1 DEF Serial, LoginsKnow
      <3>12. ChangesKnow(u)'
        <4>1. \A o \in Reqs : ChangedOn(o, u)' =>
                \/ o = r /\ q.op = "change" /\ req'[o].tv = q.tv /\ req'[o].pwd = q.pwd
                \/ ChangedOn(o, u) /\ req'[o] = req[o] /\ req[o].tv \in Nat
          BY <1>1, <1>3 DEF ChangedOn, Idle, Request
        <4>2. QED
          BY <2>1, <3>2, <3>3, <4>1 DEF Serial, ChangesKnow
      <3>13. QED
        BY <3>5, <3>8, <3>9, <3>10, <3>11, <3>12 DEF Serial
    <2>6. QED
      BY <2>3, <2>4, <2>5
  <1>11. QED
    BY <1>5, <1>7, <1>8, <1>9, <1>10

\* A new account has no tokens and no request that reads it.
LEMMA CommitCreateInv ==
  ASSUME IInv, NEW r \in Reqs, CommitCreate(r)
  PROVE  /\ AheadTokens' /\ RevokedOutstanding' /\ FreeUntouched' /\ CreatesFree'
         /\ \A u \in Users \ overlap' : Serial(u)'
  <1> USE DEF IInv
  <1> DEFINE q == req[r]
             v == req[r].usr
  <1>1. /\ req \in [Reqs -> Request] /\ q \in Request /\ v \in Users
        /\ req' = [req EXCEPT ![r] = AfterCommit(r)]
        /\ row \in [Users -> Row] /\ status \in [Users -> {"free", "live", "gone"}]
        /\ status' = [status EXCEPT ![v] = "live"]
        /\ \A u \in Users : u # v => row'[u] = row[u]
        /\ row' \in [Users -> Row]
        /\ UNCHANGED <<sess, revokedBy, overlap>>
        /\ q.op = "create" /\ Active(r)
    <2>1. q.stage \in {"loaded", "flushed", "answered"} /\ q.op = "create"
      BY DEF CommitCreate, ReadyToCommit
    <2>2. q.pwd \in Passwords
      BY <2>1 DEF TypeOK, HoldsPassword
    <2>3. QED
      BY <2>1, <2>2 DEF TypeOK, CommitCreate, Request, Active, Row, Kinds
  <1>2. status[v] = "free"
    BY <1>1 DEF CreatesFree
  <1>3. \A s \in Sids : Owner(s) # v
    BY <1>1, <1>2 DEF FreeUntouched
  <1>4. \A o \in Reqs : req[o].usr = v /\ req[o].stage \notin {"idle", "authed"}
          => req[o].op = "create"
    BY <1>1, <1>2 DEF FreeUntouched
  <1>5. /\ req'[r].op \in {"create", "none"} /\ ~Active(r)'
        /\ (req'[r].stage # "idle" => req'[r].usr = v)
        /\ \A o \in Reqs : o # r => req'[o] = req[o]
    BY <1>1 DEF AfterCommit, Request, Active, Idle
  <1>6. \A o \in Reqs, s \in Sids : AheadOn(o, s)' <=> AheadOn(o, s)
    BY <1>1, <1>5 DEF AheadOn
  <1>7. AheadTokens'
    BY <1>1, <1>5, <1>6 DEF AheadTokens, AheadOn, IssuedToken, IssuedVersion
  <1>8. RevokedOutstanding'
    BY <1>1 DEF RevokedOutstanding
  <1>9. FreeUntouched'
    BY <1>1, <1>5 DEF FreeUntouched, Owner
  <1>10. CreatesFree'
    <2>1. \A o \in Reqs : Active(o)' => o # r /\ Active(o) /\ req'[o] = req[o]
      BY <1>5 DEF Active
    <2>2. \A o \in Reqs : o # r /\ Active(o) => req[o].usr # v
      BY <1>1 DEF CreatesFree
    <2>3. QED
      BY <1>1, <2>1, <2>2 DEF CreatesFree, Request
  <1>11. ASSUME NEW u \in Users \ overlap' PROVE Serial(u)'
    <2>1. Serial(u)
      BY <1>1
    <2>2. \A o \in Reqs : Writer(o, u)' => Writer(o, u) /\ req'[o] = req[o]
      BY <1>5 DEF Writer, Active
    <2>3. \A o \in Reqs : LoginOn(o, u)' => LoginOn(o, u) /\ req'[o] = req[o]
      BY <1>5 DEF LoginOn
    <2>4. \A o \in Reqs : ChangedOn(o, u)' => ChangedOn(o, u) /\ req'[o] = req[o]
      BY <1>5 DEF ChangedOn
    <2>5. CASE u # v
      <3>1. row'[u] = row[u]
        BY <1>1, <2>5
      <3>2. OneWriter(u)' /\ CurrentRead(u)'
        BY <2>1, <2>2, <3>1 DEF Serial, OneWriter, CurrentRead
      <3>3. TokensBehind(u)'
        BY <1>1, <1>6, <2>1, <3>1 DEF Serial, TokensBehind, Owner
      <3>4. UpToDateKnows(u)' /\ RevokedBehind(u)'
        BY <1>1, <2>1, <3>1 DEF Serial, UpToDateKnows, RevokedBehind, Owner
      <3>5. LoginsKnow(u)' /\ ChangesKnow(u)'
        BY <2>1, <2>3, <2>4, <3>1 DEF Serial, LoginsKnow, ChangesKnow
      <3>6. QED
        BY <3>2, <3>3, <3>4, <3>5 DEF Serial
    <2>6. CASE u = v
      <3>1. \A o \in Reqs : ~Writer(o, u)'
        BY <1>4, <2>2, <2>6 DEF Writer, Active, Writes, Bumps, Rehash
      <3>2. \A o \in Reqs : ~LoginOn(o, u)' /\ ~ChangedOn(o, u)'
        BY <1>4, <2>3, <2>4, <2>6 DEF LoginOn, ChangedOn
      <3>3. \A s \in Sids : Owner(s)' # u
        BY <1>1, <1>3, <2>6 DEF Owner
      <3>4. QED
        BY <3>1, <3>2, <3>3 DEF Serial, OneWriter, CurrentRead, TokensBehind,
             UpToDateKnows, LoginsKnow, ChangesKnow, RevokedBehind, Owner
    <2>7. QED
      BY <2>5, <2>6
  <1>12. QED
    BY <1>7, <1>8, <1>9, <1>10, <1>11

\* A token that leaves the server is behind the row, or up to date with the
\* password of the row, or ahead with the change that is about to commit.
LEMMA AnswerWithTokenInv ==
  ASSUME IInv, NEW r \in Reqs, NEW s \in Sids, AnswerWithToken(r, s)
  PROVE  /\ AheadTokens' /\ RevokedOutstanding' /\ FreeUntouched' /\ CreatesFree'
         /\ \A u \in Users \ overlap' : Serial(u)'
  <1> USE DEF IInv
  <1> DEFINE q == req[r]
             v == req[r].usr
  <1>1. /\ req \in [Reqs -> Request] /\ q \in Request /\ v \in Users
        /\ req' = [req EXCEPT ![r] = AfterAnswer(q, s)]
        /\ sess[s] = None /\ sess' = [sess EXCEPT ![s] = IssuedToken(q)]
        /\ sess \in [Sids -> Token \cup {None}]
        /\ UNCHANGED <<status, row, revokedBy, overlap>>
        /\ q.op \in {"login", "change"}
        /\ q.stage \in {"loaded", "flushed", "committed"}
        /\ (EarlyResponse => q.stage = IF q.op = "login" THEN "loaded" ELSE "flushed")
        /\ (~EarlyResponse => q.stage = "committed")
    BY DEF TypeOK, AnswerWithToken, Request, Issues, Answerable
  <1>2. /\ \A o \in Reqs : o # r => req'[o] = req[o]
        /\ \/ ~EarlyResponse /\ req'[r].stage = "idle"
           \/ /\ EarlyResponse /\ req'[r].stage = "answered" /\ req'[r].sid = s
              /\ req'[r].op = q.op /\ req'[r].usr = q.usr /\ req'[r].tv = q.tv
              /\ req'[r].pwd = q.pwd /\ req'[r].kind = q.kind
    BY <1>1, SessionsAssumption DEF AfterAnswer, Idle, Request
  <1>3. IssuedToken(q) # None /\ IssuedToken(q).usr = v
    <2>1. q.pwd \in Passwords
      BY <1>1 DEF TypeOK, HoldsPassword
    <2>2. IssuedVersion(q) \in Nat
      BY <1>1 DEF IssuedVersion, Request
    <2>3. QED
      BY <1>1, <2>1, <2>2, SessionsAssumption DEF IssuedToken
  <1>4. \A x \in Sids : x # s => sess'[x] = sess[x] /\ Owner(x)' = Owner(x)
    BY <1>1 DEF Owner
  <1>5. Owner(s) = None /\ Owner(s)' = v /\ sess'[s] = IssuedToken(q)
    BY <1>1, <1>3 DEF Owner
  <1>6. \A o \in Reqs, x \in Sids : AheadOn(o, x) => x # s /\ o # r
    BY <1>1, SessionsAssumption
       DEF AheadTokens, IssuedToken, IssuedVersion, TypeOK, HoldsPassword,
           Request, AheadOn
  <1>7. \A o \in Reqs, x \in Sids : AheadOn(o, x)' =>
          \/ o # r /\ AheadOn(o, x)
          \/ o = r /\ x = s /\ q.op = "change" /\ EarlyResponse
    BY <1>1, <1>2 DEF AheadOn
  <1>8. AheadTokens'
    BY <1>1, <1>2, <1>4, <1>5, <1>6, <1>7
       DEF AheadTokens, IssuedToken, IssuedVersion, Request
  <1>9. RevokedOutstanding'
    BY <1>1, <1>3 DEF RevokedOutstanding
  <1>10. status[v] # "free"
    BY <1>1 DEF FreeUntouched
  <1>11. FreeUntouched'
    <2>1. \A o \in Reqs : req'[o].stage \notin {"idle", "authed"} =>
            \/ o = r /\ req'[o].usr = v
            \/ req'[o] = req[o]
      BY <1>1, <1>2 
    <2>2. QED
      BY <1>1, <1>4, <1>5, <1>10, <2>1 DEF FreeUntouched
  <1>12. CreatesFree'
    <2>1. \A o \in Reqs : Active(o)' =>
            Active(o) /\ req'[o].usr = req[o].usr /\ req'[o].op = req[o].op
      BY <1>1, <1>2 DEF Active
    <2>2. QED
      BY <1>1, <2>1 DEF CreatesFree, Request
  <1>13. ASSUME NEW u \in Users \ overlap' PROVE Serial(u)'
    <2>1. Serial(u) /\ row[u].tv \in Nat
      BY <1>1 DEF TypeOK, Row
    <2>2. \A o \in Reqs : Writer(o, u)' => Writer(o, u) /\ req'[o].tv = req[o].tv
      BY <1>1, <1>2 DEF Writer, Active, Writes, Bumps, Rehash
    <2>3. OneWriter(u)' /\ CurrentRead(u)'
      BY <1>1, <2>1, <2>2 DEF Serial, OneWriter, CurrentRead
    <2>4. LoginsKnow(u)'
      <3>1. \A o \in Reqs : LoginOn(o, u)' =>
              LoginOn(o, u) /\ req'[o].tv = req[o].tv /\ req'[o].pwd = req[o].pwd
        BY <1>1, <1>2 DEF LoginOn
      <3>2. QED
        BY <1>1, <2>1, <3>1 DEF Serial, LoginsKnow
    <2>5. ChangesKnow(u)'
      <3>1. \A o \in Reqs : ChangedOn(o, u)' => ChangedOn(o, u) /\ req'[o] = req[o]
        BY <1>1, <1>2 DEF ChangedOn
      <3>2. QED
        BY <1>1, <2>1, <3>1 DEF Serial, ChangesKnow
    <2>6. RevokedBehind(u)'
      <3>1. revokedBy[s] = "none"
        BY <1>1 DEF RevokedOutstanding
      <3>2. QED
        BY <1>1, <1>4, <2>1, <3>1 DEF Serial, RevokedBehind
    <2>7. u = v => \/ /\ AheadOn(r, s)'
                      /\ IssuedToken(q).tv = row[u].tv + 1
                   \/ /\ IssuedToken(q).tv <= row[u].tv
                      /\ IssuedToken(q).tv = row[u].tv
                           => IssuedToken(q).pwd = row[u].pwd
      <3> SUFFICES ASSUME u = v PROVE
                   \/ /\ AheadOn(r, s)'
                      /\ IssuedToken(q).tv = row[u].tv + 1
                   \/ /\ IssuedToken(q).tv <= row[u].tv
                      /\ IssuedToken(q).tv = row[u].tv
                           => IssuedToken(q).pwd = row[u].pwd
        OBVIOUS
      <3>1. CASE q.op = "login"
        <4>1. LoginOn(r, u)
          BY <1>1, <3>1 DEF LoginOn
        <4>2. QED
          BY <2>1, <3>1, <4>1 DEF Serial, LoginsKnow, IssuedToken, IssuedVersion
      <3>2. CASE q.op = "change" /\ ~EarlyResponse
        <4>1. ChangedOn(r, u)
          BY <1>1, <3>2 DEF ChangedOn
        <4>2. QED
          BY <2>1, <3>2, <4>1 DEF Serial, ChangesKnow, IssuedToken, IssuedVersion
      <3>3. CASE q.op = "change" /\ EarlyResponse
        <4>1. Writer(r, u)
          BY <1>1, <3>3 DEF Writer, Active, Writes, Bumps
        <4>2. q.tv = row[u].tv
          BY <2>1, <4>1 DEF Serial, CurrentRead
        <4>3. AheadOn(r, s)'
          BY <1>1, <1>2, <3>3 DEF AheadOn, Request
        <4>4. QED
          BY <3>3, <4>2, <4>3 DEF IssuedToken, IssuedVersion
      <3>4. QED
        BY <1>1, <3>1, <3>2, <3>3, SessionsAssumption
    <2>8. \A o \in Reqs, x \in Sids : AheadOn(o, x) => AheadOn(o, x)'
      BY <1>2, <1>6 DEF AheadOn
    <2>9. TokensBehind(u)'
      <3> SUFFICES ASSUME NEW x \in Sids, sess'[x] # None, Owner(x)' = u
                   PROVE  \/ sess'[x].tv <= row'[u].tv
                          \/ \E o \in Reqs : AheadOn(o, x)'
        BY DEF TokensBehind
      <3>1. CASE x = s
        BY <1>1, <1>5, <2>7, <3>1
      <3>2. CASE x # s
        BY <1>1, <1>4, <2>1, <2>8, <3>2 DEF Serial, TokensBehind
      <3>3. QED
        BY <3>1, <3>2
    <2>10. UpToDateKnows(u)'
      <3> SUFFICES ASSUME NEW x \in Sids, sess'[x] # None, Owner(x)' = u,
                          sess'[x].tv = row'[u].tv
                   PROVE  sess'[x].pwd = row'[u].pwd
        BY DEF UpToDateKnows
      <3>1. CASE x = s
        BY <1>1, <1>5, <2>1, <2>7, <3>1
      <3>2. CASE x # s
        BY <1>1, <1>4, <2>1, <3>2 DEF Serial, UpToDateKnows
      <3>3. QED
        BY <3>1, <3>2
    <2>11. QED
      BY <2>3, <2>4, <2>5, <2>6, <2>9, <2>10 DEF Serial
  <1>14. QED
    BY <1>8, <1>9, <1>11, <1>12, <1>13

LEMMA ExpireInv ==
  ASSUME IInv, NEW s \in Sids, Expire(s)
  PROVE  /\ AheadTokens' /\ RevokedOutstanding' /\ FreeUntouched' /\ CreatesFree'
         /\ \A u \in Users \ overlap' : Serial(u)'
  <1> USE DEF IInv
  <1>1. /\ sess' = [sess EXCEPT ![s] = None]
        /\ revokedBy' = [revokedBy EXCEPT ![s] = "none"]
        /\ sess \in [Sids -> Token \cup {None}] /\ revokedBy \in [Sids -> Causes]
        /\ UNCHANGED <<status, row, req, overlap>>
        /\ \A r \in Reqs : req[r].sid # s
    BY DEF TypeOK, Expire
  <1>2. \A x \in Sids : x # s =>
          sess'[x] = sess[x] /\ Owner(x)' = Owner(x) /\ revokedBy'[x] = revokedBy[x]
    BY <1>1 DEF Owner
  <1>3. sess'[s] = None /\ Owner(s)' = None /\ revokedBy'[s] = "none"
    BY <1>1 DEF Owner
  <1>4. \A o \in Reqs, x \in Sids : AheadOn(o, x)' <=> AheadOn(o, x) /\ x # s
    BY <1>1 DEF AheadOn
  <1>5. AheadTokens'
    BY <1>1, <1>2, <1>4 DEF AheadTokens, IssuedToken, IssuedVersion
  <1>6. RevokedOutstanding'
    BY <1>2, <1>3 DEF RevokedOutstanding
  <1>7. FreeUntouched'
    BY <1>1, <1>2, <1>3, SessionsAssumption DEF FreeUntouched
  <1>8. CreatesFree'
    BY <1>1 DEF CreatesFree, Active
  <1>9. ASSUME NEW u \in Users \ overlap' PROVE Serial(u)'
    <2>1. Serial(u)
      BY <1>1
    <2>2. OneWriter(u)' /\ CurrentRead(u)' /\ LoginsKnow(u)' /\ ChangesKnow(u)'
      BY <1>1, <2>1 DEF Serial, OneWriter, CurrentRead, LoginsKnow, ChangesKnow,
           Writer, Active, Writes, Bumps, Rehash, LoginOn, ChangedOn
    <2>3. TokensBehind(u)'
      BY <1>1, <1>2, <1>3, <1>4, <2>1 DEF Serial, TokensBehind
    <2>4. UpToDateKnows(u)' /\ RevokedBehind(u)'
      BY <1>1, <1>2, <1>3, <2>1 DEF Serial, UpToDateKnows, RevokedBehind
    <2>5. QED
      BY <2>2, <2>3, <2>4 DEF Serial
  <1>10. QED
    BY <1>5, <1>6, <1>7, <1>8, <1>9

\* At a server start no request is left; a rotated hash outdates every token
\* of the admin.
LEMMA RestartInv ==
  ASSUME IInv, NEW p \in Passwords, Restart(p)
  PROVE  /\ AheadTokens' /\ RevokedOutstanding' /\ FreeUntouched' /\ CreatesFree'
         /\ \A u \in Users \ overlap' : Serial(u)'
  <1> USE DEF IInv
  <1> DEFINE q == [op |-> "boot", usr |-> Admin, sid |-> None]
  <1>1. /\ req' = [r \in Reqs |-> Idle]
        /\ UNCHANGED <<status, sess>>
        /\ row \in [Users -> Row] /\ row' \in [Users -> Row]
        /\ \A r \in Reqs : Strays(req[r]) \subseteq overlap'
        /\ overlap \subseteq overlap'
        /\ sess \in [Sids -> Token \cup {None}]
    BY SessionsAssumption DEF TypeOK, Restart, Row, Kinds
  <1>2. \/ UNCHANGED <<row, revokedBy>>
        \/ /\ \A u \in Users : u # Admin => row'[u] = row[u]
           /\ row'[Admin].tv = row[Admin].tv + 1
           /\ \A s \in Sids : revokedBy'[s] # revokedBy[s] =>
                sess[s] # None /\ Owner(s) = Admin
    BY <1>1, SessionsAssumption DEF Restart, Revoke, TypeOK
  <1>3. \A r \in Reqs : req'[r].stage = "idle"
    BY <1>1 DEF Idle
  <1>4. AheadTokens'
    BY <1>3 DEF AheadTokens, AheadOn
  <1>5. RevokedOutstanding'
    BY <1>1, <1>2 DEF RevokedOutstanding
  <1>6. FreeUntouched'
    BY <1>1, <1>3 DEF FreeUntouched, Owner
  <1>7. CreatesFree'
    BY <1>3 DEF CreatesFree, Active
  <1>8. ASSUME NEW u \in Users \ overlap' PROVE Serial(u)'
    <2>1. Serial(u) /\ row[u].tv \in Nat
      BY <1>1 DEF Row
    <2>2. OneWriter(u)' /\ CurrentRead(u)' /\ LoginsKnow(u)' /\ ChangesKnow(u)'
      BY <1>3 DEF OneWriter, CurrentRead, LoginsKnow, ChangesKnow, Writer,
           Active, LoginOn, ChangedOn
    <2>3. ASSUME NEW s \in Sids, sess[s] # None, Owner(s) = u
          PROVE  sess[s].tv <= row[u].tv /\ sess[s].tv \in Nat
      <3>1. \A r \in Reqs : ~AheadOn(r, s)
        <4> SUFFICES ASSUME NEW r \in Reqs, AheadOn(r, s) PROVE FALSE
          OBVIOUS
        <4>1. sess[s] = IssuedToken(req[r])
          BY DEF AheadTokens
        <4>2. u \in Strays(req[r])
          BY <2>3, <4>1, SessionsAssumption
             DEF AheadOn, IssuedToken, Strays, Owner
        <4>3. QED
          BY <1>1, <4>2
      <3>2. QED
        BY <1>1, <2>1, <2>3, <3>1 DEF Serial, TokensBehind, Token
    <2>4. CASE row'[u] = row[u]
              /\ \A s \in Sids : Owner(s) = u => revokedBy'[s] = revokedBy[s]
      BY <1>1, <2>1, <2>2, <2>3, <2>4 DEF Serial, TokensBehind, UpToDateKnows,
         RevokedBehind, Owner
    <2>5. CASE row'[u].tv = row[u].tv + 1
      <3>1. TokensBehind(u)' /\ UpToDateKnows(u)'
        BY <1>1, <2>1, <2>3, <2>5 DEF TokensBehind, UpToDateKnows, Owner
      <3>2. RevokedBehind(u)'
        BY <1>1, <1>5, <2>1, <2>3, <2>5
           DEF RevokedBehind, RevokedOutstanding, Owner
      <3>3. QED
        BY <2>2, <3>1, <3>2 DEF Serial
    <2>6. QED
      BY <1>1, <1>2, <2>4, <2>5
  <1>9. QED
    BY <1>4, <1>5, <1>6, <1>7, <1>8

LEMMA UnflushedStep == IInv /\ [Next]_vars => LoginsUnflushed'
  <1> SUFFICES ASSUME IInv, [Next]_vars PROVE LoginsUnflushed'
    OBVIOUS
  <1> USE DEF IInv
  <1>1. ASSUME NEW r \in Reqs, NEW q \in Request, req' = [req EXCEPT ![r] = q],
               ~(q.op = "login" /\ q.stage = "flushed")
        PROVE LoginsUnflushed'
    BY <1>1 DEF LoginsUnflushed, TypeOK
  <1>2. TypeOK'
    BY TypeInductive
  <1>3. ASSUME NEW r \in Reqs, req' = [req EXCEPT ![r] = req'[r]],
               ~(req'[r].op = "login" /\ req'[r].stage = "flushed")
        PROVE LoginsUnflushed'
    BY <1>2, <1>3 DEF LoginsUnflushed, TypeOK
  <1>4. ASSUME NEW r \in Reqs, NEW q, q.stage # "flushed", Load(r, q)
        PROVE LoginsUnflushed'
    BY <1>3, <1>4 DEF Load, TypeOK
  <1>5. ASSUME NEW r \in Reqs, NEW u \in Users, Login(r, u) PROVE LoginsUnflushed'
    BY <1>4, <1>5 DEF Login
  <1>6. ASSUME NEW r \in Reqs, NEW s \in Sids, Logout(r, s) PROVE LoginsUnflushed'
    BY <1>4, <1>6 DEF Logout
  <1>7. ASSUME NEW r \in Reqs, NEW s \in Sids, NEW p \in Passwords,
               ChangePassword(r, s, p) PROVE LoginsUnflushed'
    BY <1>4, <1>7 DEF ChangePassword
  <1>8. ASSUME NEW r \in Reqs, NEW s \in Sids,
               NEW op \in {"reset", "create", "delete"}, AdminEnters(r, s, op)
        PROVE LoginsUnflushed'
    BY <1>3, <1>8 DEF AdminEnters, TypeOK, Idle
  <1>9. ASSUME NEW r \in Reqs, Serve(r) PROVE LoginsUnflushed'
    <2>1. ASSUME NEW u \in Users, NEW p \in Passwords,
                 ResetPassword(r, u, p) \/ CreateUser(r, u, p)
          PROVE LoginsUnflushed'
      <3>1. req[r] \in Request
        BY DEF TypeOK
      <3>2. CASE ResetPassword(r, u, p)
        BY <1>4, <3>1, <3>2 DEF ResetPassword, Request
      <3>3. CASE CreateUser(r, u, p)
        BY <1>4, <3>1, <3>3 DEF CreateUser, Request
      <3>4. QED
        BY <2>1, <3>2, <3>3
    <2>2. ASSUME NEW u \in Users, DeleteUser(r, u) PROVE LoginsUnflushed'
      <3>1. req[r] \in Request
        BY DEF TypeOK
      <3>2. QED
        BY <1>4, <2>2, <3>1 DEF DeleteUser, Request
    <2>3. CASE Refuse(r)
      BY <1>3, <2>3 DEF Refuse, TypeOK, Idle
    <2>4. CASE Flush(r)
      <3>1. req[r] \in Request
        BY DEF TypeOK
      <3>2. \/ req' = [req EXCEPT ![r] = Idle]
            \/ req' = [req EXCEPT ![r] = [req[r] EXCEPT !.stage = "flushed"]]
        BY <2>4 DEF Flush
      <3>3. Idle \in Request /\ Idle.op = "none"
            /\ [req[r] EXCEPT !.stage = "flushed"] \in Request
            /\ [req[r] EXCEPT !.stage = "flushed"].op # "login"
        BY <2>4, <3>1, IdleType DEF Flush, Request, Stages, Idle
      <3>4. QED
        BY <1>1, <3>2, <3>3
    <2>5. CASE CommitUpdate(r) \/ CommitCreate(r) \/ CommitDelete(r)
      <3>1. req' = [req EXCEPT ![r] = AfterCommit(r)] /\ req \in [Reqs -> Request]
        BY <2>5 DEF CommitUpdate, CommitCreate, CommitDelete, TypeOK
      <3>2. AfterCommit(r).stage # "flushed"
        BY <3>1 DEF AfterCommit, Idle, Request
      <3>3. QED
        BY <1>3, <3>1, <3>2
    <2>6. CASE CommitStale(r)
      BY <1>3, <2>6 DEF CommitStale, TypeOK, Idle
    <2>7. ASSUME NEW s, req' = [req EXCEPT ![r] = AfterAnswer(req[r], s)]
          PROVE  LoginsUnflushed'
      <3>1. req \in [Reqs -> Request]
        BY DEF TypeOK
      <3>2. AfterAnswer(req[r], s).stage # "flushed"
        BY <3>1 DEF AfterAnswer, Idle, Request
      <3>3. QED
        BY <1>3, <2>7, <3>1, <3>2
    <2>8. CASE \/ Answer(r) \/ AnswerLost(r)
               \/ \E s \in Sids : AnswerWithToken(r, s)
      BY <2>7, <2>8 DEF Answer, AnswerLost, AnswerWithToken
    <2>9. QED
      BY <1>9, <2>1, <2>2, <2>3, <2>4, <2>5, <2>6, <2>7, <2>8 DEF Serve
  <1>10. ASSUME NEW r \in Reqs, Fail(r) PROVE LoginsUnflushed'
    BY <1>3, <1>10 DEF Fail, TypeOK, Idle
  <1>11. ASSUME NEW s \in Sids, Expire(s) PROVE LoginsUnflushed'
    BY <1>11 DEF Expire, LoginsUnflushed
  <1>12. ASSUME NEW p \in Passwords, Restart(p) PROVE LoginsUnflushed'
    BY <1>12 DEF Restart, LoginsUnflushed, Idle
  <1>13. CASE UNCHANGED vars
    BY <1>13 DEF vars, LoginsUnflushed
  <1>14. QED
    BY <1>5, <1>6, <1>7, <1>8, <1>9, <1>10, <1>11, <1>12, <1>13 DEF Next

\* Every step preserves the invariant.
LEMMA Inductive == IInv /\ [Next]_vars => IInv'
  <1> SUFFICES ASSUME IInv, [Next]_vars PROVE IInv'
    OBVIOUS
  <1> DEFINE Kept == /\ AheadTokens' /\ RevokedOutstanding'
                     /\ FreeUntouched' /\ CreatesFree'
                     /\ \A u \in Users \ overlap' : Serial(u)'
  <1>1. TypeOK /\ TypeOK' /\ LoginsUnflushed'
    BY TypeInductive, UnflushedStep DEF IInv
  <1>2. /\ req \in [Reqs -> Request] /\ req' \in [Reqs -> Request]
        /\ row \in [Users -> Row]
        /\ \A r \in Reqs : req[r] \in Request /\ req'[r] \in Request
    BY <1>1 DEF TypeOK
  <1>3. SUFFICES Kept
    BY <1>1 DEF IInv
  <1>4. ASSUME NEW r \in Reqs, NEW u \in Users, Login(r, u) PROVE Kept
    <2>1. LET q == [stage |-> "loaded", op |-> "login", usr |-> u, tv |-> row[u].tv,
                    pwd |-> row[u].pwd, kind |-> row[u].kind, sid |-> None]
          IN q \in Request /\ Load(r, q)
      BY <1>2, <1>4 DEF Login, Request, Stages, Ops, Row
    <2>2. ~Active(r) /\ status[u] = "live"
      BY <1>4 DEF Login, Active, Idle
    <2>3. QED
      BY <2>1, <2>2, LoadInv
  <1>5. ASSUME NEW r \in Reqs, NEW s \in Sids, Logout(r, s) PROVE Kept
    <2> DEFINE u == sess[s].usr
    <2>1. u \in Users /\ status[u] = "live"
      BY <1>1, <1>5 DEF Logout, Authenticates, TypeOK, Token
    <2>2. LET q == [stage |-> "loaded", op |-> "logout", usr |-> u, tv |-> row[u].tv,
                    pwd |-> None, kind |-> "app", sid |-> s]
          IN q \in Request /\ Load(r, q)
      BY <1>2, <1>5, <2>1 DEF Logout, Request, Stages, Ops, Row, Kinds
    <2>3. ~Active(r)
      BY <1>5 DEF Logout, Active, Idle
    <2>4. QED
      BY <2>1, <2>2, <2>3, LoadInv
  <1>6. ASSUME NEW r \in Reqs, NEW s \in Sids, NEW p \in Passwords,
               ChangePassword(r, s, p)
        PROVE  Kept
    <2> DEFINE u == sess[s].usr
    <2>1. u \in Users /\ status[u] = "live"
      BY <1>1, <1>6 DEF ChangePassword, Authenticates, TypeOK, Token
    <2>2. LET q == [stage |-> "loaded", op |-> "change", usr |-> u, tv |-> row[u].tv,
                    pwd |-> p, kind |-> "app", sid |-> None]
          IN q \in Request /\ Load(r, q)
      BY <1>2, <1>6, <2>1 DEF ChangePassword, Request, Stages, Ops, Row, Kinds
    <2>3. ~Active(r)
      BY <1>6 DEF ChangePassword, Active, Idle
    <2>4. QED
      BY <2>1, <2>2, <2>3, LoadInv
  <1>7. ASSUME NEW r \in Reqs, NEW q \in Request, req' = [req EXCEPT ![r] = q],
               q.stage \in {"idle", "authed"}, ~Active(r),
               UNCHANGED <<status, row, sess, revokedBy, overlap>>
        PROVE  Kept
    <2>1. ~Active(r)' /\ \A s \in Sids : ~AheadOn(r, s)
      BY <1>2, <1>7 DEF Active, AheadOn
    <2>2. QED
      BY <1>7, <2>1, KeepsSerial, KeepsFree
  <1>8. ASSUME NEW r \in Reqs, NEW s \in Sids,
               NEW op \in {"reset", "create", "delete"}, AdminEnters(r, s, op)
        PROVE  Kept
    <2>1. req'[r].stage = "authed" /\ req' = [req EXCEPT ![r] = req'[r]] /\ ~Active(r)
      BY <1>2, <1>8 DEF AdminEnters, Idle, Active
    <2>2. UNCHANGED <<status, row, sess, revokedBy, overlap>>
      BY <1>8 DEF AdminEnters
    <2>3. QED
      BY <1>2, <1>7, <2>1, <2>2
  <1>9. ASSUME NEW r \in Reqs, NEW u \in Users, NEW p \in Passwords,
               ResetPassword(r, u, p)
        PROVE  Kept
    <2>1. PICK q \in Request : /\ Load(r, q) /\ q.stage = "loaded" /\ q.op = "reset"
                               /\ q.usr = u
      <3> DEFINE q == [req[r] EXCEPT !.stage = "loaded", !.usr = u, !.pwd = p,
                         !.tv = IF u = Admin THEN req[r].tv ELSE row[u].tv]
      <3>1. Load(r, q) /\ req[r].op = "reset"
        BY <1>9 DEF ResetPassword
      <3>2. q \in Request
        BY <1>2 DEF Request, Stages, Row
      <3>3. q.stage = "loaded" /\ q.op = "reset" /\ q.usr = u
        BY <1>2, <3>1 DEF Request
      <3>4. QED
        BY <3>1, <3>2, <3>3
    <2>2. ~Active(r) /\ status[u] = "live"
      BY <1>9 DEF ResetPassword, Active
    <2>3. QED
      BY <2>1, <2>2, LoadInv
  <1>10. ASSUME NEW r \in Reqs, NEW u \in Users, NEW p \in Passwords,
                CreateUser(r, u, p)
         PROVE  Kept
    <2>1. PICK q \in Request : /\ Load(r, q) /\ q.stage = "loaded" /\ q.op = "create"
                               /\ q.usr = u
      <3> DEFINE q == [req[r] EXCEPT !.stage = "loaded", !.usr = u, !.pwd = p]
      <3>1. Load(r, q) /\ req[r].op = "create"
        BY <1>10 DEF CreateUser
      <3>2. q \in Request
        BY <1>2 DEF Request, Stages
      <3>3. q.stage = "loaded" /\ q.op = "create" /\ q.usr = u
        BY <1>2, <3>1 DEF Request
      <3>4. QED
        BY <3>1, <3>2, <3>3
    <2>2. ~Active(r) /\ status[u] = "free"
          /\ \A o \in Reqs : ~(Active(o) /\ req[o].usr = u)
      BY <1>10 DEF CreateUser, Active
    <2>3. QED
      BY <2>1, <2>2, LoadInv
  <1>11. ASSUME NEW r \in Reqs, NEW u \in Users, DeleteUser(r, u) PROVE Kept
    <2>1. PICK q \in Request : /\ Load(r, q) /\ q.stage = "loaded" /\ q.op = "delete"
                               /\ q.usr = u
      <3> DEFINE q == [req[r] EXCEPT !.stage = "loaded", !.usr = u]
      <3>1. Load(r, q) /\ req[r].op = "delete"
        BY <1>11 DEF DeleteUser
      <3>2. q \in Request
        BY <1>2 DEF Request, Stages
      <3>3. q.stage = "loaded" /\ q.op = "delete" /\ q.usr = u
        BY <1>2, <3>1 DEF Request
      <3>4. QED
        BY <3>1, <3>2, <3>3
    <2>2. ~Active(r) /\ status[u] = "live"
      BY <1>11 DEF DeleteUser, Active
    <2>3. QED
      BY <2>1, <2>2, LoadInv
  <1>12. ASSUME NEW r \in Reqs, Refuse(r) PROVE Kept
    BY <1>7, <1>12, IdleType DEF Refuse, Idle, Active
  <1>13. ASSUME NEW r \in Reqs, NEW q \in Request, req' = [req EXCEPT ![r] = q],
                \/ q = Idle
                \/ /\ Active(r) /\ q.stage \in {"flushed", "answered", "committed"}
                   /\ q.op = req[r].op /\ q.usr = req[r].usr /\ q.tv = req[r].tv
                   /\ q.pwd = req[r].pwd /\ q.kind = req[r].kind
                   /\ q.stage = "committed" => q.op # "change"
                   /\ q.stage = "answered" /\ q.op = "change" => q.sid = None,
                \A s \in Sids : ~AheadOn(r, s),
                UNCHANGED <<row, sess, revokedBy, overlap>>,
                \A u \in Users : status'[u] = "free" <=> status[u] = "free"
         PROVE  Kept
    <2>1. \A s \in Sids : ~(q.stage = "answered" /\ q.op = "change" /\ q.sid = s)
      BY <1>13, SessionsAssumption DEF Idle
    <2>2. q.stage \notin {"idle", "authed"} =>
            /\ Active(r) /\ req[r].stage \notin {"idle", "authed"}
            /\ q.op = req[r].op /\ q.usr = req[r].usr /\ q.tv = req[r].tv
            /\ q.pwd = req[r].pwd /\ q.kind = req[r].kind
      BY <1>13 DEF Idle, Active
    <2>3. q.stage = "committed" => q.op # "change"
      BY <1>13 DEF Idle
    <2>4. Active(r)' => Active(r)
      BY <1>2, <1>13 DEF Idle, Active
    <2>5. /\ AheadTokens' /\ RevokedOutstanding'
          /\ \A u \in Users \ overlap' : Serial(u)'
      BY <1>13, <2>1, <2>2, <2>3, KeepsSerial
    <2>6. FreeUntouched' /\ CreatesFree'
      BY <1>13, <2>2, <2>4, KeepsFree
    <2>7. QED
      BY <2>5, <2>6
  <1>14. ASSUME NEW r \in Reqs, Flush(r) PROVE Kept
    <2> DEFINE q == [req[r] EXCEPT !.stage = "flushed"]
    <2>1. \/ req' = [req EXCEPT ![r] = Idle]
          \/ req' = [req EXCEPT ![r] = q]
      BY <1>14 DEF Flush
    <2>2. /\ Active(r) /\ \A s \in Sids : ~AheadOn(r, s)
          /\ UNCHANGED <<status, row, sess, revokedBy, overlap>>
      BY <1>14 DEF Flush, Active, AheadOn
    <2>3. /\ q \in Request /\ q.stage = "flushed"
          /\ q.op = req[r].op /\ q.usr = req[r].usr /\ q.tv = req[r].tv
          /\ q.pwd = req[r].pwd /\ q.kind = req[r].kind
      BY <1>2 DEF Request, Stages
    <2>4. QED
      BY <1>13, <2>1, <2>2, <2>3, IdleType
  <1>15. ASSUME NEW r \in Reqs, CommitDelete(r) PROVE Kept
    <2> DEFINE q == AfterCommit(r)
    <2>1. /\ req' = [req EXCEPT ![r] = q] /\ req[r].op = "delete" /\ Active(r)
          /\ status' = [status EXCEPT ![req[r].usr] = "gone"]
          /\ UNCHANGED <<row, sess, revokedBy, overlap>>
      BY <1>15 DEF CommitDelete, ReadyToCommit, Active
    <2>2. status[req[r].usr] # "free"
      BY <1>2, <2>1 DEF IInv, FreeUntouched, Active, Request
    <2>3. \A u \in Users : status'[u] = "free" <=> status[u] = "free"
      BY <1>1, <2>1, <2>2 DEF TypeOK
    <2>4. q \in Request /\ \/ q = Idle
                           \/ /\ q.stage = "committed"
                              /\ q.op = req[r].op /\ q.usr = req[r].usr
                              /\ q.tv = req[r].tv /\ q.pwd = req[r].pwd
                              /\ q.kind = req[r].kind
      BY <1>2, IdleType DEF AfterCommit, Request, Stages
    <2>5. \A s \in Sids : ~AheadOn(r, s)
      BY <2>1 DEF AheadOn
    <2>6. QED
      BY <1>13, <2>1, <2>3, <2>4, <2>5
  <1>16. ASSUME NEW r \in Reqs, CommitStale(r) PROVE Kept
    <2>1. /\ req' = [req EXCEPT ![r] = Idle] /\ req[r].op = "login"
          /\ UNCHANGED <<status, row, sess, revokedBy, overlap>>
      BY <1>16 DEF CommitStale
    <2>2. \A s \in Sids : ~AheadOn(r, s)
      BY <2>1 DEF AheadOn
    <2>3. QED
      BY <1>13, <2>1, <2>2, IdleType
  <1>17. ASSUME NEW r \in Reqs, NEW i \in Sids \cup {None}, Answerable(req[r]),
                req' = [req EXCEPT ![r] = AfterAnswer(req[r], i)],
                req[r].op = "change" => i = None,
                UNCHANGED <<status, row, sess, revokedBy, overlap>>
         PROVE  Kept
    <2> DEFINE q == AfterAnswer(req[r], i)
    <2>1. \A s \in Sids : ~AheadOn(r, s)
      BY <1>17 DEF Answerable, AheadOn
    <2>2. CASE EarlyResponse
      <3>1. /\ q \in Request /\ q.stage = "answered" /\ q.sid = i
            /\ q.op = req[r].op /\ q.usr = req[r].usr /\ q.tv = req[r].tv
            /\ q.pwd = req[r].pwd /\ q.kind = req[r].kind
        BY <1>2, <1>17, <2>2 DEF AfterAnswer, Request, Stages
      <3>2. Active(r)
        BY <1>17, <2>2 DEF Answerable, Active
      <3>3. QED
        BY <1>13, <1>17, <2>1, <3>1, <3>2
    <2>3. CASE ~EarlyResponse
      <3>1. q = Idle
        BY <2>3 DEF AfterAnswer
      <3>2. QED
        BY <1>13, <1>17, <2>1, <3>1, IdleType
    <2>4. QED
      BY <2>2, <2>3, SessionsAssumption
  <1>18. ASSUME NEW r \in Reqs, Answer(r) PROVE Kept
    BY <1>2, <1>17, <1>18 DEF Answer, Issues, Request
  <1>19. ASSUME NEW r \in Reqs, AnswerLost(r) PROVE Kept
    BY <1>17, <1>19 DEF AnswerLost
  <1>20. ASSUME NEW r \in Reqs, Fail(r) PROVE Kept
    <2>1. /\ req' = [req EXCEPT ![r] = Idle] /\ Active(r)
          /\ overlap' = overlap \cup Strays(req[r])
          /\ UNCHANGED <<status, row, sess, revokedBy>>
      BY <1>20 DEF Fail
    <2>2. \A s \in Sids : AheadOn(r, s) => req[r].usr \in overlap'
      BY <2>1, SessionsAssumption DEF AheadOn, Strays
    <2>3. Idle.stage = "idle" /\ Idle.op = "none" /\ ~Active(r)'
      BY <1>2, <2>1 DEF Idle, Active
    <2>4. /\ AheadTokens' /\ RevokedOutstanding'
          /\ \A u \in Users \ overlap' : Serial(u)'
      BY <2>1, <2>2, <2>3, IdleType, KeepsSerial
    <2>5. FreeUntouched' /\ CreatesFree'
      BY <2>1, <2>3, IdleType, KeepsFree
    <2>6. QED
      BY <2>4, <2>5
  <1>21. CASE UNCHANGED vars
    BY <1>21 DEF vars, IInv, AheadTokens, RevokedOutstanding, FreeUntouched,
       CreatesFree, Serial, OneWriter, CurrentRead, TokensBehind, UpToDateKnows,
       LoginsKnow, ChangesKnow, RevokedBehind, AheadOn, LoginOn, ChangedOn,
       Writer, Active, Owner
  <1>22. ASSUME NEW r \in Reqs, Serve(r) PROVE Kept
    BY <1>9, <1>10, <1>11, <1>12, <1>14, <1>15, <1>16, <1>18, <1>19, <1>22,
       CommitUpdateInv, CommitCreateInv, AnswerWithTokenInv DEF Serve
  <1>23. QED
    BY <1>4, <1>5, <1>6, <1>8, <1>20, <1>21, <1>22, ExpireInv, RestartInv DEF Next

LEMMA InitInv == Init => IInv
  <1> SUFFICES ASSUME Init PROVE IInv
    OBVIOUS
  <1>1. \A r \in Reqs : req[r].stage = "idle" /\ req[r].op = "none"
    BY DEF Init, Idle
  <1>2. \A s \in Sids : sess[s] = None /\ Owner(s) = None /\ revokedBy[s] = "none"
    BY DEF Init, Owner
  <1>3. LoginsUnflushed /\ AheadTokens /\ RevokedOutstanding /\ CreatesFree
    BY <1>1, <1>2 DEF LoginsUnflushed, AheadTokens, AheadOn, RevokedOutstanding,
       CreatesFree, Active
  <1>4. FreeUntouched
    BY <1>1, <1>2, SessionsAssumption DEF FreeUntouched
  <1>5. ASSUME NEW u \in Users PROVE Serial(u)
    BY <1>1, <1>2 DEF Serial, OneWriter, CurrentRead, TokensBehind, UpToDateKnows,
       LoginsKnow, ChangesKnow, RevokedBehind, LoginOn, ChangedOn, Writer, Active
  <1>6. QED
    BY <1>3, <1>4, <1>5, TypeInit DEF IInv

\* The invariant holds in every reachable state.
LEMMA Invariance == Spec => []IInv
  BY InitInv, Inductive, PTL DEF Spec

\* A revoked token never authenticates again, however many accounts, requests
\* and tokens there are, as long as the writers of its account were serial.
THEOREM RevocationLasts == Spec => []RevokedForGood
  <1>1. IInv => RevokedForGood
    <2> SUFFICES ASSUME IInv, NEW s \in Sids, revokedBy[s] # "none",
                        sess[s].usr \notin overlap
                 PROVE  ~Authenticates(s)
      BY DEF RevokedForGood
    <2>1. sess[s] \in Token
      BY DEF IInv, RevokedOutstanding, TypeOK
    <2>2. sess[s].usr \in Users \ overlap /\ Owner(s) = sess[s].usr
          /\ sess[s].tv \in Nat /\ row[sess[s].usr].tv \in Nat
      BY <2>1, SessionsAssumption DEF Token, Owner, IInv, TypeOK, Row
    <2>3. sess[s].tv < row[sess[s].usr].tv
      BY <2>2 DEF IInv, Serial, RevokedBehind
    <2>4. QED
      BY <2>2, <2>3 DEF Authenticates
  <1>2. QED
    BY <1>1, Invariance, PTL

\* A token that authenticates was issued for the password that opens its
\* account now, on every account whose writers were serial.
THEOREM SessionsKnow == Spec => []SessionKnowsPassword
  <1>1. IInv => SessionKnowsPassword
    <2> SUFFICES ASSUME IInv, NEW s \in Sids, Authenticates(s),
                        sess[s].usr \notin overlap
                 PROVE  sess[s].pwd = row[sess[s].usr].pwd
      BY DEF SessionKnowsPassword
    <2>1. sess[s] # None /\ sess[s] \in Token /\ sess[s].tv = row[sess[s].usr].tv
      BY DEF IInv, TypeOK, Authenticates
    <2>2. sess[s].usr \in Users \ overlap /\ Owner(s) = sess[s].usr
      BY <2>1 DEF Token, Owner
    <2>3. QED
      BY <2>1, <2>2 DEF IInv, Serial, UpToDateKnows
  <1>2. QED
    BY <1>1, Invariance, PTL

-----------------------------------------------------------------------------
(***************************************************************************)
(* The refinement of SessionPromise.  A step that issues no token and ends *)
(* none is a revocation, if only of nothing: what is to show is which      *)
(* tokens it revokes (R) and which ones had been waiting for it (N).       *)
(***************************************************************************)
LEMMA OwnerType ==
  ASSUME TypeOK, NEW s \in Sids
  PROVE  IF sess[s] = None THEN Owner(s) = None
         ELSE Owner(s) \in Users /\ Owner(s) # None /\ Owner(s) = sess[s].usr
  BY SessionsAssumption DEF TypeOK, Token, Owner

LEMMA RevokeStep ==
  ASSUME TypeOK, TypeOK', UNCHANGED sess, overlap \subseteq overlap',
         NEW R \in SUBSET Users, NEW N \in SUBSET Sids,
         \A s \in N : Owner(s) \in R /\ TokenState(s) = "pending",
         \A s \in Sids : sess[s] # None /\ Owner(s) \notin overlap' =>
           TokenState(s)' = IF s \in N THEN "live"
                            ELSE IF Owner(s) \in R /\ TokenState(s) = "live" THEN "dead"
                            ELSE TokenState(s)
  PROVE  Promise!Next
<1> DEFINE own == [s \in Sids |-> Owner(s)]
           old == [s \in Sids |-> TokenState(s)]
           new == [s \in Sids |-> TokenState(s)']
           rev == [s \in Sids |->
                     IF own[s] = None THEN "unused"
                     ELSE IF own[s] \in overlap' THEN "unknown"
                     ELSE IF s \in N THEN "live"
                     ELSE IF own[s] \in R /\ old[s] = "live" THEN "dead"
                     ELSE old[s]]
<1>1. overlap' = overlap \cup overlap' /\ overlap' \in SUBSET Users
  BY DEF TypeOK
<1>2. \A s \in Sids : Owner(s)' = Owner(s)
  BY DEF Owner
<1>3. ASSUME NEW s \in Sids PROVE new[s] = rev[s]
  <2>1. CASE sess[s] = None
    <3>1. own[s] = None /\ TokenState(s)' = "unused"
      BY <2>1, OwnerType DEF TokenState
    <3> QED BY <3>1
  <2>2. CASE sess[s] # None /\ Owner(s) \in overlap'
    <3>1. own[s] # None /\ own[s] \in overlap'
      BY <2>2, OwnerType
    <3>2. TokenState(s)' = "unknown"
      BY <2>2, OwnerType DEF TokenState
    <3> QED BY <3>1, <3>2
  <2>3. CASE sess[s] # None /\ Owner(s) \notin overlap'
    <3>1. own[s] # None /\ own[s] \notin overlap'
      BY <2>3, OwnerType
    <3> QED BY <2>3, <3>1
  <2> QED BY <2>1, <2>2, <2>3
<1>4. new = rev
  BY <1>3
<1>5. N \subseteq {s \in Sids : own[s] \in R /\ old[s] = "pending"}
  OBVIOUS
<1> HIDE DEF new, rev
<1>6. Promise!Revoke(R, N, overlap')
  <2>1. [s \in Sids |-> TokenState(s)]' = rev
    BY <1>4 DEF new
  <2>2. [s \in Sids |-> Owner(s)]' = own
    BY <1>2
  <2> QED BY <1>1, <1>5, <2>1, <2>2 DEF Promise!Revoke, rev
<1> QED BY <1>1, <1>6 DEF Promise!Next

\* A step that changes neither what authenticates nor what is pending, except
\* on accounts for which nothing is promised any more.
LEMMA QuietStep ==
  ASSUME TypeOK, TypeOK', UNCHANGED sess, overlap \subseteq overlap',
         \A s \in Sids : sess[s] # None /\ Owner(s) \notin overlap' =>
           /\ Authenticates(s)' <=> Authenticates(s)
           /\ Pending(s)' <=> Pending(s)
  PROVE  Promise!Next
<1>1. ASSUME NEW s \in Sids, sess[s] # None, Owner(s) \notin overlap'
      PROVE  TokenState(s)' = TokenState(s)
  <2>1. sess[s].usr \notin overlap' /\ sess[s].usr \notin overlap
    BY <1>1, OwnerType
  <2> QED BY <1>1, <2>1 DEF TokenState
<1> QED
  <2>1. {} \in SUBSET Users /\ {} \in SUBSET Sids
    OBVIOUS
  <2>2. \A s \in Sids : sess[s] # None /\ Owner(s) \notin overlap' =>
          TokenState(s)' = IF s \in {} THEN "live"
                           ELSE IF Owner(s) \in {} /\ TokenState(s) = "live" THEN "dead"
                           ELSE TokenState(s)
    BY <1>1
  <2> QED BY <2>1, <2>2, RevokeStep

\* What is pending after one request has moved on.
LEMMA PendingFrame ==
  ASSUME TypeOK, NEW r \in Reqs, NEW q, req' = [req EXCEPT ![r] = q]
  PROVE  /\ \A s \in Sids : AheadOn(r, s)' <=>
              q.op = "change" /\ q.stage = "answered" /\ q.sid = s
         /\ \A s \in Sids : Pending(s)' <=>
              AheadOn(r, s)' \/ \E o \in Reqs \ {r} : AheadOn(o, s)
         /\ \A s \in Sids : Pending(s) <=> \E o \in Reqs : AheadOn(o, s)
<1>1. req'[r] = q /\ \A o \in Reqs \ {r} : req'[o] = req[o]
  BY DEF TypeOK
<1> QED BY <1>1 DEF AheadOn, Pending

\* A request that moves on and leaves the rows as they are.
LEMMA MoveStep ==
  ASSUME TypeOK, TypeOK', NEW r \in Reqs, NEW q, req' = [req EXCEPT ![r] = q],
         UNCHANGED <<sess, status, row>>, overlap \subseteq overlap',
         \A s \in Sids : AheadOn(r, s) => sess[s] # None /\ Owner(s) \in overlap',
         \A s \in Sids : ~(q.op = "change" /\ q.stage = "answered" /\ q.sid = s)
  PROVE  Promise!Next
<1>1. \A s \in Sids : Authenticates(s)' <=> Authenticates(s)
  BY DEF Authenticates
<1>2. \A s \in Sids : Owner(s) \notin overlap' => (Pending(s)' <=> Pending(s))
  BY PendingFrame
<1> QED BY <1>1, <1>2, QuietStep

LEMMA CommitUpdatePromise ==
  ASSUME IInv, TypeOK', NEW r \in Reqs, CommitUpdate(r)
  PROVE  Promise!Next
<1> DEFINE q == req[r]
           u == req[r].usr
           N == {s \in Sids : AheadOn(r, s) /\ u \notin overlap}
           R == IF Bumps(q) THEN {u} ELSE {}
<1>1. /\ TypeOK /\ q \in Request /\ u \in Users /\ row[u].tv \in Nat
      /\ UNCHANGED <<sess, status, overlap>>
      /\ req' = [req EXCEPT ![r] = AfterCommit(r)]
      /\ row' = [row EXCEPT ![u] = Updated(q)] /\ row \in [Users -> Row]
      /\ Active(r) /\ status[u] = "live"
  BY DEF IInv, TypeOK, CommitUpdate, Request, Row, ReadyToCommit, Active
<1>2. \A s \in Sids : /\ Pending(s)' <=> \E o \in Reqs \ {r} : AheadOn(o, s)
                      /\ Pending(s) <=> \E o \in Reqs : AheadOn(o, s)
  <2>1. AfterCommit(r).stage # "answered"
    BY <1>1 DEF AfterCommit, Idle, Request
  <2> QED BY <1>1, <2>1, PendingFrame
<1>3. \A o \in Reqs, s \in Sids : AheadOn(o, s) =>
        /\ sess[s] = IssuedToken(req[o]) /\ Owner(s) = req[o].usr
        /\ sess[s].tv = req[o].tv + 1 /\ sess[s].usr = req[o].usr /\ sess[s] # None
        /\ Writer(o, req[o].usr)
  <2> SUFFICES ASSUME NEW o \in Reqs, NEW s \in Sids, AheadOn(o, s)
               PROVE  /\ sess[s] = IssuedToken(req[o]) /\ Owner(s) = req[o].usr
                      /\ sess[s].tv = req[o].tv + 1 /\ sess[s].usr = req[o].usr
                      /\ sess[s] # None /\ Writer(o, req[o].usr)
    OBVIOUS
  <2>1. sess[s] = IssuedToken(req[o])
    BY DEF IInv, AheadTokens
  <2>2. sess[s] # None
    <3>1. req[o].pwd \in Passwords /\ req[o] \in Request
      BY <1>1 DEF AheadOn, TypeOK, HoldsPassword
    <3>2. IssuedToken(req[o]) \in Token
      BY <3>1 DEF IssuedToken, IssuedVersion, Token, Request
    <3> QED BY <2>1, <3>2, SessionsAssumption DEF Token
  <2>3. Writer(o, req[o].usr)
    BY DEF AheadOn, Writer, Active, Writes, Bumps
  <2>4. sess[s].tv = req[o].tv + 1 /\ sess[s].usr = req[o].usr
    BY <2>1 DEF AheadOn, IssuedToken, IssuedVersion
  <2> QED BY <2>1, <2>2, <2>3, <2>4 DEF Owner
<1>4. ASSUME NEW s \in Sids, sess[s] # None, Owner(s) # u \/ ~Bumps(q)
      PROVE  /\ Authenticates(s)' <=> Authenticates(s)
             /\ Pending(s)' <=> Pending(s)
  <2>1. ~AheadOn(r, s)
    BY <1>3, <1>4 DEF AheadOn, Bumps
  <2>2. sess[s].usr \in Users /\ row'[sess[s].usr].tv = row[sess[s].usr].tv
    BY <1>1, <1>4, OwnerType DEF Updated
  <2> QED BY <1>1, <1>2, <2>1, <2>2 DEF Authenticates
<1>5. ASSUME Bumps(q), u \notin overlap, NEW s \in Sids, sess[s] # None, Owner(s) = u
      PROVE  /\ ~Pending(s)'
             /\ Pending(s) <=> AheadOn(r, s)
             /\ Authenticates(s)' <=> AheadOn(r, s)
  <2>1. Serial(u) /\ Writer(r, u)
    BY <1>1, <1>5 DEF IInv, Writer, Writes
  <2>2. q.tv = row[u].tv /\ row'[u].tv = row[u].tv + 1
    BY <1>1, <1>5, <2>1 DEF Serial, CurrentRead, Updated
  <2>3. \A o \in Reqs : AheadOn(o, s) => o = r
    BY <1>3, <1>5, <2>1 DEF Serial, OneWriter
  <2>4. CASE AheadOn(r, s)
    <3>1. sess[s].tv = row'[u].tv /\ sess[s].usr = u
      BY <1>3, <2>2, <2>4
    <3> QED BY <1>1, <1>2, <1>5, <2>3, <2>4, <3>1 DEF Authenticates
  <2>5. CASE ~AheadOn(r, s)
    <3>1. sess[s].tv <= row[u].tv /\ sess[s].tv \in Nat /\ sess[s].usr = u
      BY <1>1, <1>5, <2>1, <2>3, <2>5, OwnerType DEF Serial, TokensBehind, TypeOK, Token
    <3> QED BY <1>1, <1>2, <2>2, <2>3, <2>5, <3>1 DEF Authenticates
  <2> QED BY <2>4, <2>5
<1>6. ASSUME NEW s \in Sids, sess[s] # None, Owner(s) \notin overlap'
      PROVE  TokenState(s)' = IF s \in N THEN "live"
                              ELSE IF Owner(s) \in R /\ TokenState(s) = "live" THEN "dead"
                              ELSE TokenState(s)
  <2>1. sess[s].usr \notin overlap' /\ sess[s].usr \notin overlap /\ Owner(s) = sess[s].usr
    BY <1>1, <1>6, OwnerType
  <2>2. CASE Owner(s) # u \/ ~Bumps(q)
    <3>1. ~AheadOn(r, s) /\ Owner(s) \notin R
      BY <1>3, <2>2 DEF AheadOn, Bumps
    <3> QED BY <1>1, <1>4, <1>6, <2>1, <2>2, <3>1 DEF TokenState
  <2>3. CASE Owner(s) = u /\ Bumps(q)
    <3>1. u \notin overlap
      BY <2>1, <2>3
    <3>2. /\ ~Pending(s)' /\ (Pending(s) <=> AheadOn(r, s))
          /\ Authenticates(s)' <=> AheadOn(r, s)
      BY <1>5, <1>6, <2>3, <3>1
    <3>3. (s \in N <=> AheadOn(r, s)) /\ Owner(s) \in R
      BY <2>3, <3>1
    <3> HIDE DEF N, R
    <3> QED BY <1>1, <1>6, <2>1, <3>2, <3>3 DEF TokenState
  <2> QED BY <2>2, <2>3
<1>7. ASSUME NEW s \in N PROVE Owner(s) \in R /\ TokenState(s) = "pending"
  <2>1. sess[s] # None /\ Owner(s) = u /\ sess[s].usr = u /\ u \notin overlap
    BY <1>3
  <2>2. Pending(s) /\ Bumps(q)
    BY <1>2, <1>7 DEF AheadOn, Bumps
  <2> QED BY <2>1, <2>2 DEF TokenState
<1> HIDE DEF N, R
<1>8. N \in SUBSET Sids /\ R \in SUBSET Users
  BY <1>1 DEF N, R
<1> QED BY <1>1, <1>6, <1>7, <1>8, RevokeStep

\* No token belongs to an account that is being created.
LEMMA CommitCreatePromise ==
  ASSUME IInv, TypeOK', NEW r \in Reqs, CommitCreate(r)
  PROVE  Promise!Next
<1> DEFINE u == req[r].usr
<1>1. /\ TypeOK /\ u \in Users /\ Active(r) /\ req[r].op = "create"
      /\ UNCHANGED <<sess, overlap>> /\ req' = [req EXCEPT ![r] = AfterCommit(r)]
      /\ \A v \in Users : v # u => status'[v] = status[v] /\ row'[v] = row[v]
  BY DEF IInv, TypeOK, CommitCreate, Request, ReadyToCommit, Active
<1>2. \A s \in Sids : Owner(s) # u
  BY <1>1 DEF IInv, CreatesFree, FreeUntouched
<1>3. \A s \in Sids : sess[s] # None => (Authenticates(s)' <=> Authenticates(s))
  BY <1>1, <1>2, OwnerType DEF Authenticates
<1>4. \A s \in Sids : Pending(s)' <=> Pending(s)
  <2>1. AfterCommit(r).stage # "answered" /\ \A s \in Sids : ~AheadOn(r, s)
    BY <1>1 DEF AfterCommit, Idle, TypeOK, Request, AheadOn
  <2>2. \A s \in Sids : ~AheadOn(r, s)'
    BY <1>1, <2>1 DEF AheadOn, TypeOK
  <2>3. TypeOK /\ req' = [req EXCEPT ![r] = AfterCommit(r)]
    BY <1>1
  <2>4. \A s \in Sids : /\ Pending(s)' <=> AheadOn(r, s)' \/ \E o \in Reqs \ {r} : AheadOn(o, s)
                        /\ Pending(s) <=> \E o \in Reqs : AheadOn(o, s)
    BY <2>3, PendingFrame
  <2> QED BY <2>1, <2>2, <2>4
<1> QED BY <1>1, <1>3, <1>4, QuietStep

\* A deleted account revokes all its tokens.
LEMMA CommitDeletePromise ==
  ASSUME IInv, TypeOK', NEW r \in Reqs, CommitDelete(r)
  PROVE  Promise!Next
<1> DEFINE u == req[r].usr
<1>1. /\ TypeOK /\ u \in Users /\ req[r].op = "delete"
      /\ UNCHANGED <<sess, row, overlap>> /\ req' = [req EXCEPT ![r] = AfterCommit(r)]
      /\ status'[u] = "gone" /\ \A v \in Users : v # u => status'[v] = status[v]
  BY DEF IInv, TypeOK, CommitDelete, Request
<1>2. \A s \in Sids : Pending(s)' <=> Pending(s)
  <2>1. AfterCommit(r).stage # "answered" /\ \A s \in Sids : ~AheadOn(r, s)
    BY <1>1 DEF AfterCommit, Idle, TypeOK, Request, AheadOn
  <2> QED BY <1>1, <2>1, PendingFrame
<1>3. ASSUME NEW s \in Sids, sess[s] # None, Owner(s) \notin overlap'
      PROVE  TokenState(s)' = IF s \in {} THEN "live"
                              ELSE IF Owner(s) \in {u} /\ TokenState(s) = "live" THEN "dead"
                              ELSE TokenState(s)
  <2>1. sess[s].usr \notin overlap' /\ sess[s].usr \notin overlap
        /\ Owner(s) = sess[s].usr /\ sess[s].usr \in Users
    BY <1>1, <1>3, OwnerType
  <2>2. Owner(s) = u => ~Authenticates(s)'
    BY <1>1, <2>1 DEF Authenticates
  <2>3. Owner(s) # u => (Authenticates(s)' <=> Authenticates(s))
    BY <1>1, <2>1 DEF Authenticates
  <2> QED BY <1>1, <1>2, <1>3, <2>1, <2>2, <2>3 DEF TokenState
<1>4. {} \in SUBSET Sids /\ {u} \in SUBSET Users
  BY <1>1
<1> QED BY <1>1, <1>3, <1>4, RevokeStep

\* bootstrap_admin: a rotation revokes the admin's tokens; whatever was answered
\* and not committed has become a stray.
LEMMA RestartPromise ==
  ASSUME IInv, TypeOK', NEW p \in Passwords, Restart(p)
  PROVE  Promise!Next
<1> DEFINE R == IF row' = row THEN {} ELSE {Admin}
<1>1. /\ TypeOK /\ UNCHANGED <<sess, status>> /\ overlap \subseteq overlap'
      /\ req' = [r \in Reqs |-> Idle]
      /\ \A v \in Users : v # Admin => row'[v] = row[v]
      /\ row' # row => row'[Admin].tv = row[Admin].tv + 1
      /\ row[Admin].tv \in Nat
  BY SessionsAssumption DEF IInv, TypeOK, Restart, Row
<1>2. \A s \in Sids : ~Pending(s)'
  BY <1>1 DEF Pending, Idle
<1>3. ASSUME NEW s \in Sids, sess[s] # None, Owner(s) \notin overlap', NEW o \in Reqs
      PROVE  ~AheadOn(o, s)
  <2> SUFFICES ASSUME AheadOn(o, s) PROVE FALSE
    OBVIOUS
  <2>1. Owner(s) = req[o].usr
    <3>1. sess[s] = IssuedToken(req[o])
      BY DEF IInv, AheadTokens
    <3> QED BY <1>1, <1>3, <3>1, OwnerType DEF IssuedToken
  <2>2. req[o].usr \in Strays(req[o])
    BY SessionsAssumption DEF AheadOn, Strays
  <2>3. Strays(req[o]) \subseteq overlap'
    BY DEF Restart
  <2> QED BY <1>3, <2>1, <2>2, <2>3
<1>4. ASSUME NEW s \in Sids, sess[s] # None, Owner(s) \notin overlap'
      PROVE  TokenState(s)' = IF s \in {} THEN "live"
                              ELSE IF Owner(s) \in R /\ TokenState(s) = "live" THEN "dead"
                              ELSE TokenState(s)
  <2>1. sess[s].usr \notin overlap' /\ sess[s].usr \notin overlap
        /\ Owner(s) = sess[s].usr /\ sess[s].usr \in Users /\ sess[s].tv \in Nat
    BY <1>1, <1>4, OwnerType DEF TypeOK, Token
  <2>2. ~Pending(s)
    BY <1>3, <1>4 DEF Pending, AheadOn
  <2>3. Owner(s) \in R => ~Authenticates(s)'
    <3>1. SUFFICES ASSUME Owner(s) = Admin, row' # row PROVE ~Authenticates(s)'
      OBVIOUS
    <3>2. sess[s].tv <= row[Admin].tv
      BY <1>1, <1>3, <1>4, <2>1, <3>1, SessionsAssumption DEF IInv, Serial, TokensBehind
    <3> QED BY <1>1, <2>1, <3>1, <3>2 DEF Authenticates
  <2>4. Owner(s) \notin R => (Authenticates(s)' <=> Authenticates(s))
    BY <1>1, <2>1 DEF Authenticates
  <2> HIDE DEF R
  <2> QED BY <1>1, <1>2, <1>4, <2>1, <2>2, <2>3, <2>4 DEF TokenState
<1>5. {} \in SUBSET Sids /\ R \in SUBSET Users
  BY SessionsAssumption
<1> HIDE DEF R
<1>6. /\ \A s \in {} : Owner(s) \in R /\ TokenState(s) = "pending"
      /\ \A s \in Sids : sess[s] # None /\ Owner(s) \notin overlap' =>
           TokenState(s)' = IF s \in {} THEN "live"
                            ELSE IF Owner(s) \in R /\ TokenState(s) = "live" THEN "dead"
                            ELSE TokenState(s)
  BY <1>4
<1>7. TypeOK /\ UNCHANGED sess /\ overlap \subseteq overlap'
  BY <1>1
<1> QED BY <1>5, <1>6, <1>7, RevokeStep

\* A database error or a cancelled request.
LEMMA FailPromise ==
  ASSUME IInv, TypeOK', NEW r \in Reqs, Fail(r)
  PROVE  Promise!Next
<1>1. /\ TypeOK /\ req' = [req EXCEPT ![r] = Idle]
      /\ UNCHANGED <<sess, status, row>> /\ overlap' = overlap \cup Strays(req[r])
  BY DEF IInv, Fail
<1>2. ASSUME NEW s \in Sids, AheadOn(r, s)
      PROVE  sess[s] # None /\ Owner(s) \in overlap'
  <2>1. sess[s] = IssuedToken(req[r])
    BY <1>2 DEF IInv, AheadTokens
  <2>2. IssuedToken(req[r]) \in Token
    BY <1>1, <1>2 DEF AheadOn, TypeOK, HoldsPassword, IssuedToken, IssuedVersion,
                      Token, Request
  <2>3. sess[s] # None /\ Owner(s) = req[r].usr
    BY <2>1, <2>2, SessionsAssumption DEF Token, Owner, IssuedToken
  <2>4. req[r].usr \in Strays(req[r])
    BY <1>2, SessionsAssumption DEF AheadOn, Strays
  <2> QED BY <1>1, <2>3, <2>4
<1>3. Idle.stage = "idle"
  BY DEF Idle
<1> QED BY <1>1, <1>2, <1>3, MoveStep

\* A token is issued: live, pending, dead or, on a loose account, unknown.
LEMMA AnswerPromise ==
  ASSUME IInv, IInv', NEW r \in Reqs, NEW s \in Sids, AnswerWithToken(r, s)
  PROVE  Promise!Next
<1> DEFINE q == req[r]
           u == req[r].usr
           own == [x \in Sids |-> Owner(x)]
           old == [x \in Sids |-> TokenState(x)]
           new == [x \in Sids |-> TokenState(x)']
           how == IF u \in overlap THEN "dead" ELSE TokenState(s)'
<1>1. /\ TypeOK /\ TypeOK' /\ q \in Request /\ u \in Users
      /\ sess[s] = None /\ sess'[s] = IssuedToken(q) /\ sess'[s].usr = u
      /\ \A x \in Sids : x # s => sess'[x] = sess[x]
      /\ UNCHANGED <<status, row, overlap>>
      /\ req' = [req EXCEPT ![r] = AfterAnswer(q, s)]
      /\ q.stage # "answered"
  BY DEF IInv, TypeOK, AnswerWithToken, Request, Answerable, IssuedToken
<1>2. IssuedToken(q) \in Token /\ IssuedToken(q) # None
  <2>1. q.pwd \in Passwords /\ q.tv \in Nat
    BY <1>1 DEF AnswerWithToken, Issues, TypeOK, HoldsPassword, Answerable, Request
  <2> QED BY <1>1, <2>1, SessionsAssumption DEF IssuedToken, IssuedVersion, Token
<1>3. own[s] = None /\ Owner(s)' = u /\ \A x \in Sids : x # s => Owner(x)' = Owner(x)
  BY <1>1, <1>2 DEF Owner
<1>4. ASSUME NEW x \in Sids, x # s PROVE TokenState(x)' = TokenState(x)
  <2>1. ~AheadOn(r, x) /\ ~AheadOn(r, x)'
    <3>1. ~AheadOn(r, x)
      BY <1>1 DEF AheadOn
    <3>2. AfterAnswer(q, s).stage = "answered" => AfterAnswer(q, s).sid = s
      BY <1>1 DEF AfterAnswer, Idle, Request
    <3>3. AheadOn(r, x)' => AfterAnswer(q, s).stage = "answered" /\ AfterAnswer(q, s).sid = x
      BY <1>1 DEF AheadOn, TypeOK
    <3> QED BY <1>4, <3>1, <3>2, <3>3
  <2>2. Pending(x)' <=> Pending(x)
    BY <1>1, <2>1, PendingFrame
  <2>3. Authenticates(x)' <=> Authenticates(x)
    BY <1>1, <1>4 DEF Authenticates
  <2> QED BY <1>1, <1>4, <2>2, <2>3 DEF TokenState
<1>5. TokenState(s)' = (IF u \in overlap THEN "unknown" ELSE how)
      /\ how \in {"pending", "live", "dead"}
  BY <1>1, <1>2 DEF TokenState
<1> HIDE DEF how
<1>6. Promise!Issue(s, u, how)
  <2>1. [x \in Sids |-> Owner(x)]' = [own EXCEPT ![s] = u]
    BY <1>3
  <2>2. [x \in Sids |-> TokenState(x)]'
          = [old EXCEPT ![s] = IF u \in overlap THEN "unknown" ELSE how]
    BY <1>4, <1>5
  <2> QED BY <1>1, <1>3, <2>1, <2>2 DEF Promise!Issue
<1> QED BY <1>1, <1>5, <1>6 DEF Promise!Next

LEMMA ExpirePromise ==
  ASSUME IInv, NEW s \in Sids, Expire(s)
  PROVE  Promise!Next
<1> DEFINE own == [x \in Sids |-> Owner(x)]
           old == [x \in Sids |-> TokenState(x)]
<1>1. /\ TypeOK /\ sess[s] # None /\ sess'[s] = None
      /\ \A x \in Sids : x # s => sess'[x] = sess[x]
      /\ UNCHANGED <<status, row, req, overlap>>
  BY DEF IInv, TypeOK, Expire
<1>2. own[s] # None /\ Owner(s)' = None /\ \A x \in Sids : x # s => Owner(x)' = Owner(x)
  BY <1>1, OwnerType DEF Owner
<1>3. TokenState(s)' = "unused"
  BY <1>1 DEF TokenState
<1>4. \A x \in Sids : x # s => TokenState(x)' = TokenState(x)
  BY <1>1 DEF TokenState, Pending, Authenticates
<1>5. Promise!Expire(s)
  <2>1. [x \in Sids |-> Owner(x)]' = [own EXCEPT ![s] = None]
    BY <1>2
  <2>2. [x \in Sids |-> TokenState(x)]' = [old EXCEPT ![s] = "unused"]
    BY <1>3, <1>4
  <2> QED BY <1>1, <1>2, <2>1, <2>2 DEF Promise!Expire
<1> QED BY <1>5 DEF Promise!Next

LEMMA StepIsPromised == IInv /\ IInv' /\ [Next]_vars => [Promise!Next]_(Promise!vars)
<1> SUFFICES ASSUME IInv, IInv', [Next]_vars PROVE [Promise!Next]_(Promise!vars)
  OBVIOUS
<1>1. TypeOK /\ TypeOK'
  BY DEF IInv
<1>2. ASSUME NEW r \in Reqs, NEW q, req' = [req EXCEPT ![r] = q],
             UNCHANGED <<sess, status, row>>, overlap \subseteq overlap',
             req[r].stage # "answered" \/ req[r].op # "change",
             q.stage # "answered" \/ q.op # "change" \/ q.sid = None
      PROVE  Promise!Next
  <2>1. \A s \in Sids : ~AheadOn(r, s)
    BY <1>2 DEF AheadOn
  <2>2. \A s \in Sids : ~(q.op = "change" /\ q.stage = "answered" /\ q.sid = s)
    BY <1>2, SessionsAssumption
  <2> QED BY <1>1, <1>2, <2>1, <2>2, MoveStep
<1>3. ASSUME NEW r \in Reqs, NEW q, Load(r, q), q.stage = "loaded",
             req[r].stage \in {"idle", "authed"}
      PROVE  Promise!Next
  BY <1>2, <1>3 DEF Load
<1>4. Idle.stage = "idle" /\ Idle.op = "none" /\ Idle.sid = None
  BY DEF Idle
<1>5. \A r \in Reqs : req[r] \in Request
  BY <1>1 DEF TypeOK
<1>6. ASSUME NEW r \in Reqs, NEW u \in Users, Login(r, u) PROVE Promise!Next
  BY <1>3, <1>4, <1>6 DEF Login
<1>7. ASSUME NEW r \in Reqs, NEW s \in Sids, Logout(r, s) PROVE Promise!Next
  BY <1>3, <1>4, <1>7 DEF Logout
<1>8. ASSUME NEW r \in Reqs, NEW s \in Sids, NEW p \in Passwords, ChangePassword(r, s, p)
      PROVE  Promise!Next
  BY <1>3, <1>4, <1>8 DEF ChangePassword
<1>9. ASSUME NEW r \in Reqs, NEW s \in Sids, NEW op, AdminEnters(r, s, op)
      PROVE  Promise!Next
  BY <1>2, <1>4, <1>9 DEF AdminEnters, Idle
<1>10. ASSUME NEW r \in Reqs, NEW u, NEW p, ResetPassword(r, u, p)
       PROVE  Promise!Next
  BY <1>3, <1>5, <1>10 DEF ResetPassword, Request
<1>11. ASSUME NEW r \in Reqs, NEW u, NEW p, CreateUser(r, u, p)
       PROVE  Promise!Next
  BY <1>3, <1>5, <1>11 DEF CreateUser, Request
<1>12. ASSUME NEW r \in Reqs, NEW u, DeleteUser(r, u) PROVE Promise!Next
  BY <1>3, <1>5, <1>12 DEF DeleteUser, Request
<1>13. ASSUME NEW r \in Reqs, Refuse(r) PROVE Promise!Next
  BY <1>2, <1>4, <1>13 DEF Refuse
<1>14. ASSUME NEW r \in Reqs, Flush(r) PROVE Promise!Next
  <2>1. PICK q : req' = [req EXCEPT ![r] = q] /\ q.stage # "answered"
    <3>1. Idle.stage # "answered" /\ [req[r] EXCEPT !.stage = "flushed"].stage # "answered"
      BY <1>4, <1>5 DEF Request
    <3> QED BY <1>14, <3>1 DEF Flush
  <2> QED BY <1>2, <1>14, <2>1 DEF Flush
<1>15. ASSUME NEW r \in Reqs, CommitStale(r) PROVE Promise!Next
  BY <1>2, <1>4, <1>15 DEF CommitStale
<1>16. ASSUME NEW r \in Reqs, Answer(r) PROVE Promise!Next
  <2>1. AfterAnswer(req[r], req[r].sid).op \in {req[r].op, "none"} /\ req[r].op # "change"
    BY <1>4, <1>5, <1>16 DEF Answer, Issues, AfterAnswer, Request
  <2> QED BY <1>2, <1>16, <2>1 DEF Answer
<1>17. ASSUME NEW r \in Reqs, AnswerLost(r) PROVE Promise!Next
  <2>1. AfterAnswer(req[r], None).sid = None /\ req[r].stage # "answered"
    BY <1>4, <1>5, <1>17 DEF AnswerLost, Answerable, AfterAnswer, Request
  <2> QED BY <1>2, <1>17, <2>1 DEF AnswerLost
<1>18. ASSUME NEW r \in Reqs, Serve(r) PROVE Promise!Next
  BY <1>1, <1>10, <1>11, <1>12, <1>13, <1>14, <1>15, <1>16, <1>17, <1>18,
     CommitUpdatePromise, CommitCreatePromise, CommitDeletePromise, AnswerPromise
     DEF Serve
<1>19. CASE UNCHANGED vars
  BY <1>19 DEF vars, Promise!vars, Owner, TokenState, Pending, Authenticates
<1> QED BY <1>1, <1>6, <1>7, <1>8, <1>9, <1>18, <1>19, FailPromise, ExpirePromise,
           RestartPromise DEF Next

LEMMA InitIsPromised == Init => Promise!Init
<1> SUFFICES ASSUME Init PROVE Promise!Init
  OBVIOUS
<1>1. \A s \in Sids : Owner(s) = None /\ TokenState(s) = "unused"
  BY DEF Init, Owner, TokenState
<1> QED BY <1>1 DEF Promise!Init, Init

\* The server implements SessionPromise, for any accounts, requests and tokens:
\* a token of an account whose writers were serial lives from its issue, or from
\* the commit it waited for, to the first revocation, and never again.
THEOREM ServerKeepsPromise == Spec => KeepsPromise
BY Invariance, InitIsPromised, StepIsPromised, PTL DEF Spec, KeepsPromise, Promise!Spec
=============================================================================
