---------------------------- MODULE AccessControl ----------------------------
(***************************************************************************)
(* Who may do what, and for how long after it stopped being true: the two  *)
(* guards every HTTP call passes, the role they take from a signed token   *)
(* and not from the database, the operations that hand out tokens, end     *)
(* accounts and make administrators, each with the time between what it    *)
(* reads and what it does.                                                 *)
(***************************************************************************)
EXTENDS Integers

CONSTANTS
    Users,          \* account ids
    Founders,       \* the accounts made administrators by hand
    Requests,       \* calls of login, refresh, signup and give-admin
    AccessLife,     \* seconds of the model an access token is valid (15 minutes)
    RefreshLife,    \* the same for a refresh token (90 days)
    Delay,          \* the longest a request is under way, in the same seconds
    None            \* no call

ASSUME AccessAssumption ==
    /\ Founders \subseteq Users
    /\ AccessLife \in Nat \ {0} /\ RefreshLife \in Nat \ {0} /\ Delay \in Nat
    /\ AccessLife <= RefreshLife
    /\ None \notin [op : {"issue", "grant"}, user : Users, by : Users, role : {"admin", "regular"}, age : Nat]

VARIABLES
    account,    \* account[u]: unborn, active, deleted (deletedAt is set) or gone
    role,       \* role[u]: the role column
    tokens,     \* the tokens that jwtService.verify still accepts
    call,       \* call[r]: an operation between its read and its effect
    liveAgo,    \* liveAgo[u]: seconds since the account was last active, at most Stale
    adminAgo    \* adminAgo[u]: since it was last an active administrator

people == <<account, role>>
clocks == <<liveAgo, adminAgo>>
vars   == <<people, tokens, call, clocks>>

Roles  == {"admin", "regular"}
Tokens == [user : Users, kind : {"access"}, role : Roles, left : 1..AccessLife]
          \cup [user : Users, kind : {"refresh"}, role : {"none"}, left : 1..RefreshLife]
Calls  == [op : {"issue", "grant"}, user : Users, by : Users, role : Roles, age : 0..Delay]

\* More than any bound below: whatever happened longer ago.
Stale == AccessLife + RefreshLife + 2 * Delay + 1

-----------------------------------------------------------------------------
(* The guards                                                                *)

\* What the decorators of each controller's handlers ask of a caller.
UsersController ==
    [getAllExisting |-> "token", getOne |-> "token", updateOne |-> "token", deleteMe |-> "token",
     recoverUser |-> "nothing", recreateUser |-> "nothing", getActiveUsers |-> "token",
     getAll |-> "admin", deleteOneHard |-> "admin", giveAdmin |-> "admin",
     increaseBalance |-> "admin", decreaseBalance |-> "admin", transferMoney |-> "admin"]

AuthController ==
    [signup |-> "nothing", login |-> "nothing", refreshTokens |-> "nothing", logout |-> "token",
     sendOtp |-> "nothing", verifyOtp |-> "nothing"]

AvatarController == [uploadAvatar |-> "token", deleteAvatar |-> "token"]

BalanceResetController == [resetBallance |-> "admin"]

Joined(f, g) ==
    [h \in DOMAIN f \cup DOMAIN g |-> IF h \in DOMAIN f THEN f[h] ELSE g[h]]

Controllers ==
    Joined(UsersController, Joined(AuthController, Joined(AvatarController, BalanceResetController)))

\* Mutant: give-admin without its decorator.
AsksLess == [Controllers EXCEPT !["giveAdmin"] = "token"]

Asks == Controllers
Handlers == DOMAIN Asks

\* AuthGuard: unless the handler is public, a token that verifies; of either kind,
\* since both are signed with one secret and the kind is not looked at.
AuthGuard(t, h) == Asks[h] # "nothing" => t \in tokens

\* Mutant: a request without a role is let through.
RolesGuardLenient(t, h) == Asks[h] = "admin" => t.role \in {"admin", "none"}

\* RolesGuard: the role the token was signed with; a refresh token has none.
RolesGuard(t, h) == Asks[h] = "admin" => t.role = "admin"

\* Both guards, in the order of AppModule's providers.
Passes(t, h) == AuthGuard(t, h) /\ RolesGuard(t, h)

-----------------------------------------------------------------------------

Init ==
    /\ account = [u \in Users |-> IF u \in Founders THEN "active" ELSE "unborn"]
    /\ role = [u \in Users |-> IF u \in Founders THEN "admin" ELSE "regular"]
    /\ tokens = {} /\ call = [r \in Requests |-> None]
    /\ liveAgo = [u \in Users |-> IF u \in Founders THEN 0 ELSE Stale]
    /\ adminAgo = liveAgo

IsAdmin(u) == account[u] = "active" /\ role[u] = "admin"

\* An account that is live, or a live administrator, is so now; history is kept
\* for the others.
Live(newAccount, newRole) ==
    /\ liveAgo' = [u \in Users |-> IF newAccount[u] = "active" THEN 0 ELSE liveAgo[u]]
    /\ adminAgo' = [u \in Users |-> IF newAccount[u] = "active" /\ newRole[u] = "admin" THEN 0
                                    ELSE adminAgo[u]]

Become(u, state) ==
    /\ account' = [account EXCEPT ![u] = state]
    /\ Live([account EXCEPT ![u] = state], role)
    /\ UNCHANGED <<role, tokens, call>>

Call(r, op, u, by) ==
    /\ call[r] = None
    /\ call' = [call EXCEPT ![r] = [op |-> op, user |-> u, by |-> by, role |-> role[u], age |-> 0]]
    /\ UNCHANGED <<people, tokens, clocks>>

Under(r, op) == call[r] # None /\ call[r].op = op
Return(r) == call' = [call EXCEPT ![r] = None]

\* login, refresh and signup read (or have just inserted) a live account...
IssueRead(r) == \E u \in Users : account[u] = "active" /\ Call(r, "issue", u, u)

\* ... and sign, with what they read, tokens the caller gets if the refresh
\* token's row can be saved; Sessions takes these awaits apart.
Issue(r) ==
    /\ Under(r, "issue") /\ Return(r)
    /\ account[call[r].user] # "gone"
    /\ tokens' = tokens \cup
          {[user |-> call[r].user, kind |-> "access", role |-> call[r].role, left |-> AccessLife],
           [user |-> call[r].user, kind |-> "refresh", role |-> "none", left |-> RefreshLife]}
    /\ UNCHANGED <<people, clocks>>

\* Mutant: the account is looked up with its soft-deleted rows and not asked.
GrantCheckAnyRow(r) ==
    \E t \in tokens, u \in Users :
        /\ Passes(t, "giveAdmin")
        /\ account[u] \in {"active", "deleted"} /\ role[u] # "admin"
        /\ Call(r, "grant", u, t.user)

\* giveAdmin: the account has to be live and not an administrator yet...
GrantCheck(r) ==
    \E t \in tokens, u \in Users :
        /\ Passes(t, "giveAdmin")
        /\ account[u] = "active" /\ role[u] # "admin"
        /\ Call(r, "grant", u, t.user)

\* ... when it is looked at; the UPDATE only asks for the id.
Grant(r) ==
    LET u == call[r].user IN
    /\ Under(r, "grant") /\ Return(r)
    /\ role' = IF account[u] # "gone" THEN [role EXCEPT ![u] = "admin"] ELSE role
    /\ Live(account, role') /\ UNCHANGED <<account, tokens>>

\* A statement is rejected, the foreign key objects or the process dies.
Failure(r) ==
    /\ call[r] # None /\ Return(r)
    /\ UNCHANGED <<people, tokens, clocks>>

SignUp(u) == account[u] = "unborn" /\ Become(u, "active")

DeleteMe(u) ==
    /\ \E t \in tokens : t.user = u /\ Passes(t, "deleteMe")
    /\ account[u] = "active" /\ Become(u, "deleted")

RecoverMe(u) == account[u] = "deleted" /\ Become(u, "active")

\* The row goes: by an administrator's deleteUserHard, or by recreate-me, which
\* replaces a deleted account by one with another id.
HardDelete(u) ==
    /\ \/ account[u] \in {"active", "deleted"} /\ \E t \in tokens : Passes(t, "deleteOneHard")
       \/ account[u] = "deleted"
    /\ Become(u, "gone")

\* Mutant: a token is accepted in the second it expires.
OlderKept == {[t EXCEPT !.left = @ - 1] : t \in tokens}

\* verify refuses a token from the second of its exp on.
Older == {[t EXCEPT !.left = @ - 1] : t \in {t \in tokens : t.left > 1}}

\* A second passes.
Tick ==
    LET Count(ago, now) == [u \in Users |-> IF now[u] \/ ago[u] = Stale THEN ago[u] ELSE ago[u] + 1] IN
    /\ \A r \in Requests : call[r] # None => call[r].age < Delay
    /\ call' = [r \in Requests |-> IF call[r] = None THEN None ELSE [call[r] EXCEPT !.age = @ + 1]]
    /\ tokens' = Older
    /\ liveAgo' = Count(liveAgo, [u \in Users |-> account[u] = "active"])
    /\ adminAgo' = Count(adminAgo, [u \in Users |-> IsAdmin(u)])
    /\ UNCHANGED people

Next ==
    \/ \E r \in Requests : IssueRead(r) \/ Issue(r) \/ GrantCheck(r) \/ Grant(r) \/ Failure(r)
    \/ \E u \in Users : SignUp(u) \/ DeleteMe(u) \/ RecoverMe(u) \/ HardDelete(u)
    \/ Tick

Spec == Init /\ [][Next]_vars

-----------------------------------------------------------------------------
(* Properties                                                                *)

TypeOK ==
    /\ account \in [Users -> {"unborn", "active", "deleted", "gone"}]
    /\ role \in [Users -> Roles]
    /\ tokens \subseteq Tokens
    /\ call \in [Requests -> Calls \cup {None}]
    /\ liveAgo \in [Users -> 0..Stale] /\ adminAgo \in [Users -> 0..Stale]

\* No guard asks the database: how long a caller is still served after its account
\* or its role has ended. A handler for administrators serves nobody who was not an
\* active one within an access token's 15 minutes and one request; a handler that
\* asks for a token, nobody whose account was not active within 90 days and one
\* request, for the guard takes refresh tokens as well.
RightsEnd ==
    \A t \in tokens, h \in Handlers : Passes(t, h) =>
        CASE Asks[h] = "admin" -> adminAgo[t.user] <= AccessLife + Delay
          [] Asks[h] = "token" -> liveAgo[t.user] <= RefreshLife + Delay
          [] OTHER -> TRUE

\* An account becomes an administrator only by the doing of another one that was
\* an active administrator when its own token's role was read: at most 15 minutes and
\* two requests before.
AdminsByAdmins ==
    [][\A u \in Users : role'[u] # role[u] =>
          \E w \in Users \ {u} : adminAgo[w] <= AccessLife + 2 * Delay]_vars

\* give-admin says 'user not found' of accounts that are not live; one deleted
\* between its check and its UPDATE is promoted all the same, but none that was
\* deleted before.
PromotedWhileLive ==
    [][\A u \in Users : role'[u] # role[u] => liveAgo[u] <= Delay]_vars
=============================================================================
