------------------------- MODULE AccessControlProofs -------------------------
(***************************************************************************)
(* Proofs about AccessControl, for any accounts, founders, requests and    *)
(* lifetimes: how long rights outlive an account or a role, and who can    *)
(* have made an administrator.                                             *)
(***************************************************************************)
EXTENDS AccessControl, TLAPS

USE AccessAssumption DEF AccessAssumption, people, clocks, Roles, IsAdmin

\* An account that is live now has not stopped being so.
Present ==
    \A u \in Users : /\ account[u] = "active" => liveAgo[u] = 0
                     /\ IsAdmin(u) => adminAgo[u] = 0

\* What a token of a kind, role and remaining life says of its user's past.
TokenTrue(t) ==
    /\ t.kind = "refresh" => liveAgo[t.user] <= RefreshLife - t.left + Delay
    /\ t.kind = "access"  => liveAgo[t.user] <= AccessLife - t.left + Delay
    /\ t.role = "admin"   => /\ adminAgo[t.user] <= AccessLife - t.left + Delay
                             /\ role[t.user] = "admin"

\* The same of what a call has read: its user was live when it began, an
\* administrator if it says so, and a promotion was asked for by another one.
CallTrue(c) ==
    /\ liveAgo[c.user] <= c.age
    /\ c.op = "issue" /\ c.role = "admin" => adminAgo[c.user] <= c.age /\ role[c.user] = "admin"
    /\ c.op = "grant" => adminAgo[c.by] <= AccessLife + Delay + c.age /\ c.by # c.user

IInv ==
    /\ TypeOK /\ Present
    /\ \A t \in tokens : TokenTrue(t)
    /\ \A r \in Requests : call[r] # None => CallTrue(call[r])

\* None is no call.
LEMMA NoneIsNoCall == None \notin Calls
  BY DEF Calls

LEMMA InitEstablishes == Init => IInv
  BY DEF Init, IInv, TypeOK, Present, Stale

\* The step by which a role or an account changes: what is known of the past
\* stays known.
LEMMA LiveStep ==
  ASSUME TypeOK, Present, NEW a \in [Users -> {"unborn", "active", "deleted", "gone"}],
         NEW o \in [Users -> Roles], Live(a, o), account' = a, role' = o
  PROVE  /\ liveAgo' \in [Users -> 0..Stale] /\ adminAgo' \in [Users -> 0..Stale]
         /\ \A u \in Users : liveAgo'[u] <= liveAgo[u] /\ adminAgo'[u] <= adminAgo[u]
         /\ Present'
<1>0. Stale \in Nat
  BY DEF Stale
<1>1. /\ liveAgo' = [u \in Users |-> IF a[u] = "active" THEN 0 ELSE liveAgo[u]]
      /\ adminAgo' = [u \in Users |-> IF a[u] = "active" /\ o[u] = "admin" THEN 0
                                      ELSE adminAgo[u]]
  BY DEF Live
<1>2. /\ liveAgo \in [Users -> 0..Stale] /\ adminAgo \in [Users -> 0..Stale]
  BY DEF TypeOK
<1>3. ASSUME NEW u \in Users
      PROVE  /\ liveAgo'[u] \in 0..Stale /\ adminAgo'[u] \in 0..Stale
             /\ liveAgo'[u] <= liveAgo[u] /\ adminAgo'[u] <= adminAgo[u]
  BY <1>0, <1>1, <1>2
<1>4. Present'
  BY <1>0, <1>1, <1>2 DEF TypeOK, Present
<1> QED BY <1>0, <1>1, <1>3, <1>4

LEMMA TokenShape ==
  ASSUME NEW t \in Tokens
  PROVE  /\ t.user \in Users /\ t.left \in Nat /\ t.left >= 1
         /\ \/ t.kind = "access" /\ t.left <= AccessLife
            \/ t.kind = "refresh" /\ t.left <= RefreshLife /\ t.role = "none"
  BY DEF Tokens

LEMMA CallShape ==
  ASSUME NEW c \in Calls
  PROVE  /\ c.user \in Users /\ c.by \in Users /\ c.role \in Roles
         /\ c.age \in Nat /\ c.age <= Delay /\ c.op \in {"issue", "grant"}
  BY DEF Calls

\* If nobody's past moves away and no administrator is demoted, all that tokens and
\* calls say stays true.
LEMMA PastKept ==
  ASSUME IInv,
         liveAgo' \in [Users -> 0..Stale], adminAgo' \in [Users -> 0..Stale],
         \A u \in Users : liveAgo'[u] <= liveAgo[u] /\ adminAgo'[u] <= adminAgo[u],
         \A u \in Users : role[u] = "admin" => role'[u] = "admin"
  PROVE  /\ \A t \in tokens : TokenTrue(t)'
         /\ \A r \in Requests : call[r] # None => \A c \in Calls : c = call[r] => CallTrue(c)'
<1>0. Stale \in Nat
  BY DEF Stale
<1>1. ASSUME NEW t \in tokens PROVE TokenTrue(t)'
  <2>1. t \in Tokens /\ TokenTrue(t)
    BY DEF IInv, TypeOK
  <2>2. /\ t.user \in Users /\ t.left \in Nat
        /\ liveAgo[t.user] \in Nat /\ adminAgo[t.user] \in Nat
        /\ liveAgo'[t.user] \in Nat /\ adminAgo'[t.user] \in Nat
    BY <1>0, <2>1, TokenShape DEF IInv, TypeOK
  <2> QED BY <2>1, <2>2 DEF TokenTrue
<1>2. ASSUME NEW r \in Requests, call[r] # None, NEW c \in Calls, c = call[r]
      PROVE  CallTrue(c)'
  <2>1. CallTrue(c)
    BY <1>2 DEF IInv
  <2>2. /\ c.user \in Users /\ c.by \in Users /\ c.age \in Nat
        /\ liveAgo[c.user] \in Nat /\ adminAgo[c.user] \in Nat /\ adminAgo[c.by] \in Nat
        /\ liveAgo'[c.user] \in Nat /\ adminAgo'[c.user] \in Nat /\ adminAgo'[c.by] \in Nat
    BY <1>0, <1>2, CallShape DEF IInv, TypeOK
  <2> QED BY <2>1, <2>2 DEF CallTrue
<1> QED BY <1>1, <1>2

\* Accounts that begin, end or return.
LEMMA BecomeStep ==
  ASSUME IInv, NEW u \in Users, NEW s \in {"unborn", "active", "deleted", "gone"}, Become(u, s)
  PROVE  IInv'
<1>1. /\ account' = [account EXCEPT ![u] = s] /\ Live(account', role)
      /\ UNCHANGED <<role, tokens, call>>
  BY DEF Become
<1>2. account' \in [Users -> {"unborn", "active", "deleted", "gone"}] /\ role \in [Users -> Roles]
  BY <1>1 DEF IInv, TypeOK
<1>3. /\ liveAgo' \in [Users -> 0..Stale] /\ adminAgo' \in [Users -> 0..Stale]
      /\ \A w \in Users : liveAgo'[w] <= liveAgo[w] /\ adminAgo'[w] <= adminAgo[w]
      /\ Present'
  BY <1>1, <1>2, LiveStep DEF IInv
<1>4. TypeOK'
  BY <1>1, <1>2, <1>3 DEF IInv, TypeOK
<1>5. \A t \in tokens' : TokenTrue(t)'
  BY <1>1, <1>3, PastKept
<1>6. ASSUME NEW r \in Requests, call'[r] # None PROVE CallTrue(call[r])'
  <2>1. call[r] \in Calls /\ call' = call
    BY <1>1, <1>6 DEF IInv, TypeOK
  <2> QED BY <1>1, <1>3, <1>6, <2>1, PastKept
<1> QED BY <1>3, <1>4, <1>5, <1>6 DEF IInv

\* A call that begins: what it has read is so now.
LEMMA CallStep ==
  ASSUME IInv, NEW r \in Requests, NEW op \in {"issue", "grant"}, NEW u \in Users, NEW by \in Users,
         account[u] = "active", Call(r, op, u, by),
         op = "grant" => adminAgo[by] <= AccessLife + Delay /\ by # u
  PROVE  IInv'
<1> DEFINE c == [op |-> op, user |-> u, by |-> by, role |-> role[u], age |-> 0]
<1>1. call' = [call EXCEPT ![r] = c] /\ UNCHANGED <<account, role, tokens, liveAgo, adminAgo>>
  BY DEF Call
<1>2. c \in Calls
  BY DEF Calls, IInv, TypeOK
<1>3. TypeOK'
  BY <1>1, <1>2 DEF IInv, TypeOK
<1>4. CallTrue(c)'
  BY <1>1 DEF CallTrue, IInv, Present
<1>5. Present' /\ \A t \in tokens' : TokenTrue(t)'
  BY <1>1 DEF IInv, Present, TokenTrue
<1>6. ASSUME NEW q \in Requests, call'[q] # None PROVE CallTrue(call[q])'
  <2>1. CASE q = r
    BY <1>1, <1>4, <2>1 DEF IInv, TypeOK
  <2>2. CASE q # r
    BY <1>1, <1>6, <2>2 DEF IInv, TypeOK, CallTrue
  <2> QED BY <2>1, <2>2
<1> QED BY <1>3, <1>5, <1>6 DEF IInv

LEMMA GiveAdminAsks == Asks["giveAdmin"] = "admin"
<1>1. /\ "giveAdmin" \in DOMAIN UsersController
      /\ UsersController["giveAdmin"] = "admin"
  BY DEF UsersController
<1> QED BY <1>1 DEF Asks, Controllers, Joined

LEMMA BeginSteps ==
  ASSUME IInv, NEW r \in Requests, IssueRead(r) \/ GrantCheck(r)
  PROVE  IInv'
<1>1. CASE IssueRead(r)
  BY <1>1, CallStep DEF IssueRead
<1>2. CASE GrantCheck(r)
  <2>1. PICK t \in tokens, u \in Users : /\ Passes(t, "giveAdmin") /\ account[u] = "active"
                                         /\ role[u] # "admin" /\ Call(r, "grant", u, t.user)
    BY <1>2 DEF GrantCheck
  <2>2. t \in Tokens /\ TokenTrue(t) /\ t.role = "admin"
    BY <2>1, GiveAdminAsks DEF IInv, TypeOK, Passes, RolesGuard
  <2>3. t.user \in Users /\ t.left \in Nat /\ adminAgo[t.user] \in Nat
    BY <2>2, TokenShape DEF IInv, TypeOK, Stale
  <2>4. adminAgo[t.user] <= AccessLife + Delay /\ t.user # u
    BY <2>1, <2>2, <2>3 DEF TokenTrue
  <2> QED BY <2>1, <2>3, <2>4, CallStep
<1> QED BY <1>1, <1>2

\* The facts of a call that is under way.
LEMMA CallFacts ==
  ASSUME IInv, NEW r \in Requests, call[r] # None
  PROVE  /\ call[r] \in Calls /\ CallTrue(call[r])
         /\ liveAgo[call[r].user] \in Nat /\ adminAgo[call[r].user] \in Nat
         /\ adminAgo[call[r].by] \in Nat
<1>1. call[r] \in Calls /\ CallTrue(call[r])
  BY DEF IInv, TypeOK
<1> QED BY <1>1, CallShape DEF IInv, TypeOK, Stale

\* A call that returns leaves the others as they were.
LEMMA ReturnKeeps ==
  ASSUME IInv, NEW r \in Requests, Return(r), UNCHANGED <<account, role, liveAgo, adminAgo>>
  PROVE  /\ call' \in [Requests -> Calls \cup {None}]
         /\ \A q \in Requests : call'[q] # None => CallTrue(call[q])'
<1>1. call' = [call EXCEPT ![r] = None]
  BY DEF Return
<1>2. call' \in [Requests -> Calls \cup {None}]
  BY <1>1 DEF IInv, TypeOK
<1>3. ASSUME NEW q \in Requests, call'[q] # None PROVE CallTrue(call[q])'
  <2>1. call'[q] = call[q]
    BY <1>1, <1>3 DEF IInv, TypeOK
  <2> QED BY <1>3, <2>1 DEF IInv, CallTrue
<1> QED BY <1>2, <1>3

LEMMA FailureStep ==
  ASSUME IInv, NEW r \in Requests, Failure(r)
  PROVE  IInv'
<1>1. Return(r) /\ UNCHANGED <<account, role, tokens, liveAgo, adminAgo>>
  BY DEF Failure
<1>2. Present' /\ \A t \in tokens' : TokenTrue(t)'
  BY <1>1 DEF IInv, Present, TokenTrue
<1> QED BY <1>1, <1>2, ReturnKeeps DEF IInv, TypeOK

\* The tokens that are issued say what the call has read.
LEMMA IssueStep ==
  ASSUME IInv, NEW r \in Requests, Issue(r)
  PROVE  IInv'
<1> DEFINE c == call[r]
           a == [user |-> c.user, kind |-> "access", role |-> c.role, left |-> AccessLife]
           f == [user |-> c.user, kind |-> "refresh", role |-> "none", left |-> RefreshLife]
<1>1. /\ c # None /\ c.op = "issue" /\ Return(r) /\ tokens' = tokens \cup {a, f}
      /\ UNCHANGED <<account, role, liveAgo, adminAgo>>
  BY DEF Issue, Under
<1>2. /\ c \in Calls /\ CallTrue(c) /\ c.user \in Users /\ c.role \in Roles /\ c.age \in Nat
      /\ c.age <= Delay /\ liveAgo[c.user] \in Nat /\ adminAgo[c.user] \in Nat
  BY <1>1, CallFacts, CallShape
<1> HIDE DEF c
<1>3. a \in Tokens /\ f \in Tokens
  BY <1>2 DEF Tokens
<1>4. TokenTrue(a)
  BY <1>1, <1>2 DEF TokenTrue, CallTrue
<1>5. TokenTrue(f)
  BY <1>1, <1>2 DEF TokenTrue, CallTrue
<1>6. \A t \in tokens' : t \in Tokens /\ TokenTrue(t)'
  <2> SUFFICES ASSUME NEW t \in tokens' PROVE t \in Tokens /\ TokenTrue(t)'
    OBVIOUS
  <2>1. t \in Tokens /\ TokenTrue(t)
    BY <1>1, <1>3, <1>4, <1>5 DEF IInv, TypeOK
  <2> QED BY <1>1, <2>1 DEF TokenTrue
<1>7. Present'
  BY <1>1 DEF IInv, Present
<1> QED BY <1>1, <1>6, <1>7, ReturnKeeps DEF IInv, TypeOK

\* A promotion makes no token and no call say too much.
LEMMA GrantStep ==
  ASSUME IInv, NEW r \in Requests, Grant(r)
  PROVE  IInv'
<1>1. /\ call[r] # None /\ call' = [call EXCEPT ![r] = None]
      /\ role' = (IF account[call[r].user] # "gone" THEN [role EXCEPT ![call[r].user] = "admin"]
                  ELSE role)
      /\ Live(account, role') /\ UNCHANGED <<account, tokens>>
  BY DEF Grant, Under, Return
<1>2. call[r].user \in Users
  BY <1>1, CallShape DEF IInv, TypeOK
<1>3. /\ account \in [Users -> {"unborn", "active", "deleted", "gone"}]
      /\ role' \in [Users -> Roles]
      /\ \A u \in Users : role[u] = "admin" => role'[u] = "admin"
  BY <1>1, <1>2 DEF IInv, TypeOK
<1>4. /\ liveAgo' \in [Users -> 0..Stale] /\ adminAgo' \in [Users -> 0..Stale]
      /\ \A u \in Users : liveAgo'[u] <= liveAgo[u] /\ adminAgo'[u] <= adminAgo[u]
      /\ Present'
  BY <1>1, <1>3, LiveStep DEF IInv
<1>5. \A t \in tokens' : TokenTrue(t)'
  BY <1>1, <1>3, <1>4, PastKept
<1>6. ASSUME NEW q \in Requests, call'[q] # None PROVE CallTrue(call[q])'
  <2>1. call'[q] = call[q] /\ call[q] # None /\ call[q] \in Calls
    BY <1>1, <1>6 DEF IInv, TypeOK
  <2> QED BY <1>3, <1>4, <2>1, PastKept
<1>7. TypeOK'
  <2>1. call' \in [Requests -> Calls \cup {None}]
    BY <1>1 DEF IInv, TypeOK
  <2> QED BY <1>1, <1>3, <1>4, <2>1 DEF IInv, TypeOK
<1> QED BY <1>4, <1>5, <1>6, <1>7 DEF IInv

\* A second ages everything that is not so now, calls as well as tokens.
LEMMA TickStep ==
  ASSUME IInv, Tick
  PROVE  IInv'
<1>0. Stale \in Nat
  BY DEF Stale
<1>1. /\ call' = [r \in Requests |-> IF call[r] = None THEN None ELSE [call[r] EXCEPT !.age = @ + 1]]
      /\ \A r \in Requests : call[r] # None => call[r].age < Delay
      /\ tokens' = Older /\ UNCHANGED <<account, role>>
      /\ liveAgo' = [u \in Users |-> IF account[u] = "active" \/ liveAgo[u] = Stale THEN liveAgo[u]
                                     ELSE liveAgo[u] + 1]
      /\ adminAgo' = [u \in Users |-> IF IsAdmin(u) \/ adminAgo[u] = Stale THEN adminAgo[u]
                                      ELSE adminAgo[u] + 1]
  BY DEF Tick
<1>2. liveAgo \in [Users -> 0..Stale] /\ adminAgo \in [Users -> 0..Stale]
  BY DEF IInv, TypeOK
<1>3. ASSUME NEW u \in Users
      PROVE  /\ liveAgo[u] \in Nat /\ adminAgo[u] \in Nat
             /\ liveAgo'[u] \in 0..Stale /\ liveAgo'[u] <= liveAgo[u] + 1
             /\ adminAgo'[u] \in 0..Stale /\ adminAgo'[u] <= adminAgo[u] + 1
  BY <1>0, <1>1, <1>2
<1>4. liveAgo' \in [Users -> 0..Stale] /\ adminAgo' \in [Users -> 0..Stale]
  BY <1>0, <1>1, <1>3
<1>5. Present'
  BY <1>1 DEF IInv, Present
<1>6. ASSUME NEW t \in tokens' PROVE t \in Tokens /\ TokenTrue(t)'
  <2>1. PICK o \in tokens : o.left > 1 /\ t = [o EXCEPT !.left = @ - 1]
    BY <1>1 DEF Older
  <2>2. o \in Tokens /\ TokenTrue(o)
    BY DEF IInv, TypeOK
  <2>3. /\ t.user = o.user /\ t.kind = o.kind /\ t.role = o.role /\ t.left = o.left - 1
        /\ t \in Tokens
    BY <2>1, <2>2 DEF Tokens
  <2>4. /\ o.user \in Users /\ o.left \in Nat
        /\ liveAgo'[o.user] \in Nat /\ adminAgo'[o.user] \in Nat
    BY <1>0, <1>3, <2>2, TokenShape
  <2> QED BY <1>1, <1>3, <2>2, <2>3, <2>4 DEF TokenTrue
<1>7. ASSUME NEW r \in Requests, call'[r] # None
      PROVE  call'[r] \in Calls /\ CallTrue(call[r])'
  <2> DEFINE c == call[r]
             d == call'[r]
  <2>1. /\ c # None /\ c \in Calls /\ CallTrue(c) /\ c.age < Delay
        /\ d = [c EXCEPT !.age = @ + 1]
    BY <1>1, <1>7 DEF IInv, TypeOK
  <2> HIDE DEF c, d
  <2>2. /\ d.user = c.user /\ d.by = c.by /\ d.role = c.role /\ d.op = c.op
        /\ d.age = c.age + 1 /\ d \in Calls
    BY <2>1 DEF Calls
  <2>3. /\ c.user \in Users /\ c.by \in Users /\ c.age \in Nat
        /\ liveAgo'[c.user] \in Nat /\ adminAgo'[c.user] \in Nat /\ adminAgo'[c.by] \in Nat
    BY <1>0, <1>3, <2>1, CallShape
  <2>4. /\ liveAgo'[d.user] <= d.age
        /\ d.op = "issue" /\ d.role = "admin" => adminAgo'[d.user] <= d.age /\ role'[d.user] = "admin"
        /\ d.op = "grant" => adminAgo'[d.by] <= AccessLife + Delay + d.age /\ d.by # d.user
    BY <1>1, <1>3, <2>1, <2>2, <2>3 DEF CallTrue
  <2> QED BY <2>2, <2>4 DEF CallTrue, d
<1>8. call' \in [Requests -> Calls \cup {None}]
  BY <1>1, <1>7
<1>9. TypeOK'
  BY <1>1, <1>4, <1>6, <1>8 DEF IInv, TypeOK
<1> QED BY <1>5, <1>6, <1>7, <1>9 DEF IInv

\* What tokens and calls say of the past is true in every reachable state.
THEOREM AccessInvariance == Spec => []IInv
<1>1. IInv /\ [Next]_vars => IInv'
  <2> SUFFICES ASSUME IInv, [Next]_vars PROVE IInv' OBVIOUS
  <2>1. CASE UNCHANGED vars
    BY <2>1 DEF IInv, TypeOK, Present, TokenTrue, CallTrue, vars
  <2>2. ASSUME NEW r \in Requests,
               IssueRead(r) \/ Issue(r) \/ GrantCheck(r) \/ Grant(r) \/ Failure(r)
        PROVE  IInv'
    BY <2>2, BeginSteps, IssueStep, GrantStep, FailureStep
  <2>3. ASSUME NEW u \in Users, SignUp(u) \/ DeleteMe(u) \/ RecoverMe(u) \/ HardDelete(u)
        PROVE  IInv'
    BY <2>3, BecomeStep DEF SignUp, DeleteMe, RecoverMe, HardDelete
  <2> QED BY <2>1, <2>2, <2>3, TickStep DEF Next
<1> QED BY InitEstablishes, <1>1, PTL DEF Spec

\* Every variable keeps its type.
THEOREM AccessTypeCorrect == Spec => []TypeOK
  BY AccessInvariance, PTL DEF IInv

\* Nobody is served as an administrator later than an access token's life and one
\* request after being one, nor at all later than a refresh token's.
THEOREM RightsDoEnd == Spec => []RightsEnd
<1>1. IInv => RightsEnd
  <2> SUFFICES ASSUME IInv, NEW t \in tokens, NEW h \in Handlers, Passes(t, h)
               PROVE  CASE Asks[h] = "admin" -> adminAgo[t.user] <= AccessLife + Delay
                        [] Asks[h] = "token" -> liveAgo[t.user] <= RefreshLife + Delay
                        [] OTHER -> TRUE
    BY DEF RightsEnd
  <2>1. t \in Tokens /\ TokenTrue(t)
    BY DEF IInv, TypeOK
  <2>2. t.user \in Users /\ t.left \in Nat
        /\ liveAgo[t.user] \in Nat /\ adminAgo[t.user] \in Nat
    BY <2>1, TokenShape DEF IInv, TypeOK, Stale
  <2>3. liveAgo[t.user] <= RefreshLife + Delay
    BY <2>1, <2>2, TokenShape DEF TokenTrue
  <2>4. Asks[h] = "admin" => adminAgo[t.user] <= AccessLife + Delay
    BY <2>1, <2>2 DEF TokenTrue, Passes, RolesGuard
  <2> QED BY <2>3, <2>4
<1> QED BY <1>1, AccessInvariance, PTL

\* The only step that changes a role is the UPDATE of give-admin.
LEMMA RoleChanges ==
  ASSUME IInv, [Next]_vars, NEW u \in Users, role'[u] # role[u]
  PROVE  \E r \in Requests : /\ call[r] # None /\ call[r].user = u /\ call[r].op = "grant"
                             /\ call[r] \in Calls /\ CallTrue(call[r])
<1>1. PICK r \in Requests : Grant(r)
  BY DEF Next, vars, IssueRead, Issue, GrantCheck, Failure, SignUp, DeleteMe, RecoverMe,
     HardDelete, Become, Call, Tick
<1>2. call[r] # None /\ call[r] \in Calls /\ CallTrue(call[r]) /\ call[r].op = "grant"
  BY <1>1 DEF Grant, Under, IInv, TypeOK
<1>3. call[r].user = u
  BY <1>1, <1>2, CallShape DEF Grant, IInv, TypeOK
<1> QED BY <1>2, <1>3

\* Only another account that was an administrator not long ago makes one.
THEOREM AdminsMakeAdmins == Spec => AdminsByAdmins
<1>1. IInv /\ [Next]_vars =>
        [\A u \in Users : role'[u] # role[u] =>
           \E w \in Users \ {u} : adminAgo[w] <= AccessLife + 2 * Delay]_vars
  <2> SUFFICES ASSUME IInv, [Next]_vars, NEW u \in Users, role'[u] # role[u]
               PROVE  \E w \in Users \ {u} : adminAgo[w] <= AccessLife + 2 * Delay
    OBVIOUS
  <2>1. PICK r \in Requests : /\ call[r] # None /\ call[r].user = u /\ call[r].op = "grant"
                             /\ call[r] \in Calls /\ CallTrue(call[r])
    BY RoleChanges
  <2>2. call[r].by \in Users /\ call[r].age \in Nat /\ call[r].age <= Delay
        /\ adminAgo[call[r].by] \in Nat
    BY <2>1, CallShape, CallFacts
  <2>3. call[r].by # u /\ adminAgo[call[r].by] <= AccessLife + 2 * Delay
    BY <2>1, <2>2 DEF CallTrue
  <2> QED BY <2>2, <2>3
<1> QED BY <1>1, AccessInvariance, PTL DEF Spec, AdminsByAdmins

\* Nobody is promoted who was not live within the promoting request.
THEOREM PromotionsAreOfLiveAccounts == Spec => PromotedWhileLive
<1>1. IInv /\ [Next]_vars =>
        [\A u \in Users : role'[u] # role[u] => liveAgo[u] <= Delay]_vars
  <2> SUFFICES ASSUME IInv, [Next]_vars, NEW u \in Users, role'[u] # role[u]
               PROVE  liveAgo[u] <= Delay
    OBVIOUS
  <2>1. PICK r \in Requests : /\ call[r] # None /\ call[r].user = u /\ call[r].op = "grant"
                             /\ call[r] \in Calls /\ CallTrue(call[r])
    BY RoleChanges
  <2> QED BY <2>1, CallShape, CallFacts DEF CallTrue
<1> QED BY <1>1, AccessInvariance, PTL DEF Spec, PromotedWhileLive
=============================================================================
