------------------------------- MODULE Sessions -------------------------------
(***************************************************************************)
(* The refresh tokens of auth.service.ts and what users.service.ts does to *)
(* them: login, refresh, logout and delete-me as the sequences of awaits   *)
(* they are, over the rows of refresh_token_entity.                        *)
(*                                                                         *)
(* A refresh token is a JWT whose payload is its user and the second it    *)
(* was signed in, so two of them signed for one user in one second are the *)
(* same string; the column has no unique constraint, and the string is all *)
(* the code looks a row up by.                                             *)
(***************************************************************************)
EXTENDS Integers, FiniteSets

CONSTANTS
    Users,          \* account ids
    Requests,       \* HTTP calls; each may become any of the four operations
    Lifetime,       \* seconds of the model a token is valid for (90 days)
    MaxClock,       \* bound of the model: the clock stops there
    Faults,         \* which of FaultKinds may happen
    None            \* no value

FaultKinds == {"db", "crash"}

ASSUME SessionsAssumption ==
    /\ Lifetime \in Nat /\ MaxClock \in Nat
    /\ Faults \subseteq FaultKinds
    /\ IsFiniteSet(Requests)
    /\ None \notin Users \cup [user : Users, iat : Nat]

Tokens == [user : Users, iat : 0..MaxClock]
TokensOf(u) == {t \in Tokens : t.user = u}

VARIABLES
    account,    \* account[u]: active, deleted (deletedAt is set) or gone
    sessions,   \* sessions[t]: the committed rows whose refreshToken is t
    minted,     \* minted[t]: the rows ever inserted with t
    clock,      \* the second the service's clock shows
    pc,         \* pc[r]: the await the request has reached
    who,        \* who[r]: the account the request is about
    token,      \* token[r]: the refresh token it presented, then the one it signed
    alive,      \* alive[r]: the user it read was there and not deleted
    taken,      \* taken[r]: the rows its uncommitted DELETE has locked
    rotated,    \* rotated[r]: the token r's committed refresh consumed
    admitted    \* admitted[u]: None until delete-me purged u's tokens, then how
                \* many requests had already read the live account

locals == <<pc, who, token, alive, taken>>
vars   == <<account, sessions, minted, clock, locals, rotated, admitted>>

\* "failed": an error of the code's own; "interrupted": a statement or an answer lost.
Ended == {"done", "refused", "failed", "interrupted"}

Init ==
    /\ account = [u \in Users |-> "active"]
    /\ sessions = [t \in Tokens |-> IF t.iat = 0 THEN 1 ELSE 0]
    /\ minted = sessions
    /\ clock = 0
    /\ pc = [r \in Requests |-> "idle"]
    /\ who = [r \in Requests |-> None] /\ token = [r \in Requests |-> None]
    /\ alive = [r \in Requests |-> FALSE] /\ taken = [r \in Requests |-> 0]
    /\ rotated = [r \in Requests |-> None]
    /\ admitted = [u \in Users |-> None]

Goto(r, label) == pc' = [pc EXCEPT ![r] = label]
Answer(r, label) == Goto(r, label) /\ UNCHANGED <<who, token, alive, taken>>

\* A statement has taken effect: its answer comes, or is lost on the way.
Reach(r, label) == Goto(r, label) \/ ("db" \in Faults /\ Goto(r, "interrupted"))

\* Rows of t that an open transaction has deleted: another DELETE waits for it.
Held(t) == \E r \in Requests : pc[r] = "commit" /\ token[r] = t

\* Mutant: the user is looked up with its soft-deleted rows.
RememberDeleted(r, u, t, label) ==
    /\ who' = [who EXCEPT ![r] = u] /\ token' = [token EXCEPT ![r] = t]
    /\ alive' = [alive EXCEPT ![r] = account[u] # "gone"]
    /\ Goto(r, label)
    /\ UNCHANGED <<account, sessions, minted, clock, taken, rotated, admitted>>

\* What is read about the user: the account as it is now.
Remember(r, u, t, label) ==
    /\ who' = [who EXCEPT ![r] = u] /\ token' = [token EXCEPT ![r] = t]
    /\ alive' = [alive EXCEPT ![r] = account[u] = "active"]
    /\ Goto(r, label)
    /\ UNCHANGED <<account, sessions, minted, clock, taken, rotated, admitted>>

Refuse(r) ==
    /\ pc[r] = "idle" /\ Answer(r, "refused")
    /\ UNCHANGED <<account, sessions, minted, clock, rotated, admitted>>

-----------------------------------------------------------------------------
(* login                                                                     *)

\* The account is read once, before bcrypt is awaited; a wrong password, an
\* unknown phone or a deletedAt refuses.
LoginRead(r) ==
    /\ pc[r] = "idle"
    /\ \E u \in Users : account[u] = "active" /\ Remember(r, u, None, "sign")

LoginRefused(r) == (\E u \in Users : account[u] # "active") /\ Refuse(r)

-----------------------------------------------------------------------------
(* refresh                                                                   *)

Valid(t) == sessions[t] > 0 /\ clock <= t.iat + Lifetime

\* findRefreshToken with its user; a soft-deleted user is joined as null.
RefreshFind(r) ==
    /\ pc[r] = "idle"
    /\ \E t \in Tokens : Valid(t) /\ Remember(r, t.user, t, "delete")

RefreshRefused(r) == (\E t \in Tokens : minted[t] > 0 /\ ~Valid(t)) /\ Refuse(r)

\* Mutant: deleteRefreshToken is called without queryRunner.manager, so the DELETE
\* commits by itself.
RefreshDeleteAutocommit(r) ==
    /\ pc[r] = "delete" /\ ~Held(token[r]) /\ sessions[token[r]] > 0
    /\ sessions' = [sessions EXCEPT ![token[r]] = 0]
    /\ Answer(r, "commit")
    /\ UNCHANGED <<account, minted, clock, rotated, admitted>>

\* deleteRefreshToken: every row with this string, once nobody else holds them.
RefreshDelete(r) ==
    /\ pc[r] = "delete" /\ ~Held(token[r]) /\ sessions[token[r]] > 0
    /\ taken' = [taken EXCEPT ![r] = sessions[token[r]]]
    /\ Goto(r, "commit")
    /\ UNCHANGED <<account, sessions, minted, clock, who, token, alive, rotated, admitted>>

\* Mutant: the number of affected rows is not looked at.
RefreshLostIgnored(r) ==
    /\ pc[r] = "delete" /\ ~Held(token[r]) /\ sessions[token[r]] = 0
    /\ Answer(r, "commit")
    /\ UNCHANGED <<account, sessions, minted, clock, rotated, admitted>>

\* Mutant: a DELETE that finds nothing tries again.
RefreshLostRetry(r) ==
    /\ pc[r] = "delete" /\ ~Held(token[r]) /\ sessions[token[r]] = 0
    /\ UNCHANGED vars

\* No row was affected: another request was faster.
RefreshLost(r) ==
    /\ pc[r] = "delete" /\ ~Held(token[r]) /\ sessions[token[r]] = 0
    /\ Answer(r, "refused")
    /\ UNCHANGED <<account, sessions, minted, clock, rotated, admitted>>

RefreshCommit(r) ==
    /\ pc[r] = "commit"
    /\ sessions' = [sessions EXCEPT ![token[r]] = @ - taken[r]]
    /\ rotated' = [rotated EXCEPT ![r] = token[r]]
    /\ taken' = [taken EXCEPT ![r] = 0] /\ Reach(r, "sign")
    /\ UNCHANGED <<account, minted, clock, who, token, alive, admitted>>

-----------------------------------------------------------------------------
(* generateUserTokens, for login and for refresh                             *)

Sign(r) ==
    /\ pc[r] = "sign" /\ alive[r]
    /\ token' = [token EXCEPT ![r] = [user |-> who[r], iat |-> clock]]
    /\ Goto(r, "save")
    /\ UNCHANGED <<account, sessions, minted, clock, who, alive, taken, rotated, admitted>>

\* token.user is null: a TypeError after the commit; the catch block's rollback
\* finds no transaction and the token is already spent.
SignFailure(r) ==
    /\ pc[r] = "sign" /\ ~alive[r]
    /\ Answer(r, "failed")
    /\ UNCHANGED <<account, sessions, minted, clock, rotated, admitted>>

\* Mutant: no foreign key.
SaveUnchecked(r) ==
    /\ pc[r] = "save"
    /\ sessions' = [sessions EXCEPT ![token[r]] = @ + 1]
    /\ minted' = [minted EXCEPT ![token[r]] = @ + 1]
    /\ Answer(r, "done")
    /\ UNCHANGED <<account, clock, rotated, admitted>>

\* The INSERT; the foreign key only asks that the user's row exist.
Save(r) ==
    /\ pc[r] = "save" /\ account[who[r]] # "gone"
    /\ sessions' = [sessions EXCEPT ![token[r]] = @ + 1]
    /\ minted' = [minted EXCEPT ![token[r]] = @ + 1]
    /\ Reach(r, "done")
    /\ UNCHANGED <<account, clock, who, token, alive, taken, rotated, admitted>>

SaveFailure(r) ==
    /\ pc[r] = "save" /\ account[who[r]] = "gone"
    /\ Answer(r, "failed")
    /\ UNCHANGED <<account, sessions, minted, clock, rotated, admitted>>

-----------------------------------------------------------------------------
(* logout and delete-me                                                      *)

\* Mutant: one row is taken off without looking whether there is one.
RemoveUnchecked(ts) ==
    /\ \A t \in ts : ~Held(t)
    /\ sessions' = [t \in Tokens |-> IF t \in ts THEN sessions[t] - 1 ELSE sessions[t]]

\* DELETE of the rows of a set of tokens, outside any transaction.
Remove(ts) ==
    /\ \A t \in ts : ~Held(t)
    /\ sessions' = [t \in Tokens |-> IF t \in ts THEN 0 ELSE sessions[t]]

Logout(r) ==
    /\ pc[r] = "idle"
    /\ \E t \in Tokens :
          /\ minted[t] > 0 /\ Remove({t})
          /\ Reach(r, IF sessions[t] > 0 THEN "done" ELSE "refused")
    /\ UNCHANGED <<account, minted, clock, who, token, alive, taken, rotated, admitted>>

DeleteRead(r) ==
    /\ pc[r] = "idle"
    /\ \E u \in Users : account[u] = "active" /\ Remember(r, u, None, "softdelete")

DeleteSoftly(r) ==
    /\ pc[r] = "softdelete"
    /\ \/ account[who[r]] # "gone" /\ Reach(r, "purge")
          /\ account' = [account EXCEPT ![who[r]] = "deleted"]
       \/ account[who[r]] = "gone" /\ Goto(r, "done") /\ UNCHANGED account
    /\ UNCHANGED <<sessions, minted, clock, who, token, alive, taken, rotated, admitted>>

\* The requests that have read u as a live account and may still save a token.
Underway(u) ==
    {r \in Requests : who[r] = u /\ alive[r] /\ pc[r] \in {"delete", "commit", "sign", "save"}}

DeletePurge(r) ==
    /\ pc[r] = "purge"
    /\ Remove(TokensOf(who[r]))
    /\ Reach(r, "done")
    /\ admitted' = [admitted EXCEPT ![who[r]] =
                       IF account[who[r]] = "deleted" THEN Cardinality(Underway(who[r])) ELSE @]
    /\ UNCHANGED <<account, minted, clock, who, token, alive, taken, rotated>>

-----------------------------------------------------------------------------
(* The rest of the system and the environment                                *)

\* recoverUser: deletedAt is cleared.
Recover(u) ==
    /\ account[u] = "deleted"
    /\ account' = [account EXCEPT ![u] = "active"]
    /\ admitted' = [admitted EXCEPT ![u] = None]
    /\ UNCHANGED <<sessions, minted, clock, locals, rotated>>

\* deleteUserHard and recreateUser: the row goes and its tokens with it.
HardDelete(u) ==
    /\ account[u] # "gone"
    /\ Remove(TokensOf(u))
    /\ account' = [account EXCEPT ![u] = "gone"]
    /\ UNCHANGED <<minted, clock, locals, rotated, admitted>>

\* A statement fails: inside the transaction it is rolled back, after it the
\* caller is left with what has been committed.
StatementFailure(r) ==
    /\ "db" \in Faults
    /\ pc[r] \in {"delete", "commit", "save", "softdelete", "purge"}
    /\ Goto(r, "interrupted") /\ taken' = [taken EXCEPT ![r] = 0]
    /\ UNCHANGED <<account, sessions, minted, clock, who, token, alive, rotated, admitted>>

Crash ==
    /\ "crash" \in Faults
    /\ \E r \in Requests : pc[r] \notin Ended \cup {"idle"}
    /\ pc' = [r \in Requests |-> IF pc[r] \in Ended \cup {"idle"} THEN pc[r] ELSE "interrupted"]
    /\ taken' = [r \in Requests |-> 0]
    /\ UNCHANGED <<account, sessions, minted, clock, who, token, alive, rotated, admitted>>

Tick ==
    /\ clock < MaxClock /\ clock' = clock + 1
    /\ UNCHANGED <<account, sessions, minted, locals, rotated, admitted>>

Arrive(r) ==
    \/ LoginRead(r) \/ LoginRefused(r) \/ RefreshFind(r) \/ RefreshRefused(r)
    \/ Logout(r) \/ DeleteRead(r)

Step(r) ==
    \/ RefreshDelete(r) \/ RefreshLost(r) \/ RefreshCommit(r)
    \/ Sign(r) \/ SignFailure(r) \/ Save(r) \/ SaveFailure(r)
    \/ DeleteSoftly(r) \/ DeletePurge(r)

Next ==
    \/ \E r \in Requests : Arrive(r) \/ Step(r) \/ StatementFailure(r)
    \/ \E u \in Users : Recover(u) \/ HardDelete(u)
    \/ Crash \/ Tick

Spec == Init /\ [][Next]_vars

\* Every await of a request that was let in is answered; a DELETE that waits
\* for another's rows gets them when that transaction ends.
FairSpec == Spec /\ \A r \in Requests : SF_vars(Step(r))

-----------------------------------------------------------------------------
(* Properties                                                                *)

TypeOK ==
    /\ account \in [Users -> {"active", "deleted", "gone"}]
    /\ sessions \in [Tokens -> Nat] /\ minted \in [Tokens -> Nat]
    /\ clock \in 0..MaxClock
    /\ pc \in [Requests -> {"idle", "delete", "commit", "sign", "save", "softdelete",
                            "purge"} \cup Ended]
    /\ who \in [Requests -> Users \cup {None}]
    /\ token \in [Requests -> Tokens \cup {None}]
    /\ alive \in [Requests -> BOOLEAN] /\ taken \in [Requests -> Nat]
    /\ rotated \in [Requests -> Tokens \cup {None}]
    /\ admitted \in [Users -> Nat \cup {None}]

\* A refresh token is good for one refresh: of the requests that present one
\* string at the same time, no more are served than rows were ever inserted
\* with it, however their find, delete and commit overlap.
RefreshAtMostOnce ==
    \A t \in Tokens : Cardinality({r \in Requests : rotated[r] = t}) <= minted[t]

\* A session never outlives its account's row, although logins and refreshes
\* insert theirs long after they read the account.
NoSessionWithoutAccount ==
    \A t \in Tokens : sessions[t] > 0 => account[t.user] # "gone"

\* Nobody loses a session to a refresh that does not commit, be it refused, failed,
\* rolled back or overtaken: a token's rows go when a refresh of it commits, and then
\* just those its DELETE had found and none inserted since, or by a logout that
\* presents it, by the purge of its user's delete-me, or with the user's row.
OnlyCommitsSpend ==
    [][\A t \in Tokens : sessions'[t] < sessions[t] =>
          \/ \E r \in Requests : /\ pc[r] = "commit" /\ rotated'[r] = t
                                 /\ sessions'[t] = sessions[t] - taken[r]
          \/ \E r \in Requests : pc[r] = "idle" /\ pc'[r] \in {"done", "interrupted"}
          \/ \E r \in Requests : /\ pc[r] = "purge" /\ who[r] = t.user
                                 /\ pc'[r] \in {"done", "interrupted"}
          \/ account[t.user] # "gone" /\ account'[t.user] = "gone"]_vars

\* The rows of u's tokens, numbered token by token.
Rows(u) == UNION {{t} \X (1..sessions[t]) : t \in TokensOf(u)}

\* How many sessions can survive delete-me: while the account stays deleted, no
\* more than the logins and refreshes that had already read it as live when its
\* tokens were purged; nothing that arrives later adds one.
SurvivorsWereUnderway ==
    \A u \in Users : account[u] = "deleted" /\ admitted[u] # None =>
        Cardinality(Rows(u)) + Cardinality(Underway(u)) <= admitted[u]

\* Every request that was let in is answered, also when several of them delete
\* the same rows.
RequestEnds == \A r \in Requests : pc[r] # "idle" ~> pc[r] \in Ended
=============================================================================
