---------------------------- MODULE SessionsProofs ----------------------------
(***************************************************************************)
(* Proofs about Sessions, for any accounts, finite set of requests,        *)
(* lifetime and faults: a token serves no oftener than it was inserted and *)
(* is spent by nothing that does not commit, no session outlives its       *)
(* account's row, and no more sessions survive delete-me than requests it  *)
(* overtook.                                                               *)
(***************************************************************************)
EXTENDS Sessions, FiniteSetTheorems, TLAPS

USE SessionsAssumption DEF Ended, Goto, Answer, Reach

\* What a request knows at each await, and what its uncommitted DELETE holds: at
\* least one row of its token, which nobody else holds.
Local(r) ==
    /\ pc[r] \in {"delete", "commit", "save"} => token[r] \in Tokens /\ token[r].user = who[r]
    /\ pc[r] \in {"delete", "commit", "sign", "save", "softdelete", "purge"} => who[r] \in Users
    /\ pc[r] = "commit" => taken[r] >= 1 /\ taken[r] <= sessions[token[r]]
    /\ pc[r] = "save" => alive[r]

OneHolder ==
    \A q, r \in Requests : pc[q] = "commit" /\ pc[r] = "commit" /\ token[q] = token[r] => q = r

Rotations(t) == {r \in Requests : rotated[r] = t}

\* Every row ever inserted with t is still there, or has served a refresh at most once.
Accounted(t) == Cardinality(Rotations(t)) + sessions[t] <= minted[t]

IInv ==
    /\ TypeOK /\ NoSessionWithoutAccount
    /\ \A r \in Requests : Local(r)
    /\ OneHolder
    /\ \A t \in Tokens : Accounted(t)

LEMMA TokenShape == \A t \in Tokens : t.user \in Users /\ t.iat \in 0..MaxClock
  BY DEF Tokens

LEMMA NoneIsNoToken == None \notin Tokens
  BY DEF Tokens, SessionsAssumption

LEMMA RequestsFinite ==
  ASSUME NEW S \in SUBSET Requests
  PROVE  IsFiniteSet(S) /\ Cardinality(S) \in Nat
BY FS_Subset, FS_CardinalityType DEF SessionsAssumption

LEMMA InitEstablishes == Init => IInv
<1> SUFFICES ASSUME Init PROVE IInv
  OBVIOUS
<1>1. TypeOK
  BY DEF Init, TypeOK, SessionsAssumption
<1>2. \A t \in Tokens : Accounted(t)
  <2> SUFFICES ASSUME NEW t \in Tokens PROVE Accounted(t)
    OBVIOUS
  <2>1. Rotations(t) = {}
    BY NoneIsNoToken DEF Init, Rotations
  <2> QED BY <1>1, <2>1, FS_EmptySet DEF Init, Accounted, TypeOK
<1> QED BY <1>1, <1>2, TokenShape
      DEF Init, IInv, NoSessionWithoutAccount, Local, OneHolder

\* Nothing but a commit rotates a token: without one, rows only have to be
\* inserted when they appear.
LEMMA StillAccounted ==
  ASSUME IInv, TypeOK', UNCHANGED rotated,
         \A t \in Tokens : sessions'[t] - sessions[t] <= minted'[t] - minted[t]
  PROVE  \A t \in Tokens : Accounted(t)'
<1>1. \A t : Rotations(t)' = Rotations(t)
  BY DEF Rotations
<1> SUFFICES ASSUME NEW t \in Tokens PROVE Accounted(t)'
  OBVIOUS
<1>2. /\ sessions[t] \in Nat /\ minted[t] \in Nat /\ sessions'[t] \in Nat /\ minted'[t] \in Nat
      /\ Cardinality(Rotations(t)) \in Nat /\ Accounted(t)
  BY RequestsFinite DEF IInv, TypeOK, Rotations
<1>3. Cardinality(Rotations(t))' = Cardinality(Rotations(t))
  BY <1>1
<1> QED BY <1>2, <1>3 DEF Accounted

\* A request that reads its account, or is refused at once.
LEMMA ReadSteps ==
  ASSUME IInv, NEW r \in Requests,
         LoginRead(r) \/ LoginRefused(r) \/ RefreshFind(r) \/ RefreshRefused(r) \/ DeleteRead(r)
  PROVE  IInv'
<1>1. \/ \E u \in Users, t \in Tokens \cup {None}, l \in {"sign", "delete", "softdelete"} :
            pc[r] = "idle" /\ (l = "delete" => t \in Tokens /\ t.user = u) /\ Remember(r, u, t, l)
      \/ Refuse(r)
  BY TokenShape DEF LoginRead, LoginRefused, RefreshFind, RefreshRefused, DeleteRead
<1>2. /\ pc[r] = "idle" /\ UNCHANGED <<account, sessions, minted, clock, taken, rotated, admitted>>
      /\ \A q \in Requests \ {r} : UNCHANGED <<pc[q], who[q], token[q], alive[q]>>
      /\ pc'[r] \in {"sign", "delete", "softdelete", "refused"}
      /\ pc'[r] # "refused" => who'[r] \in Users
      /\ pc'[r] = "delete" => token'[r] \in Tokens /\ token'[r].user = who'[r]
  BY <1>1 DEF Remember, Refuse, IInv, TypeOK
<1>3. TypeOK'
  <2>1. CASE Refuse(r)
    BY <2>1 DEF Refuse, IInv, TypeOK
  <2>2. ASSUME NEW u \in Users, NEW t \in Tokens \cup {None},
               NEW l \in {"sign", "delete", "softdelete"}, Remember(r, u, t, l)
        PROVE  TypeOK'
    <3>1. /\ who' = [who EXCEPT ![r] = u] /\ token' = [token EXCEPT ![r] = t]
          /\ alive' = [alive EXCEPT ![r] = account[u] = "active"]
          /\ pc' = [pc EXCEPT ![r] = l]
      BY <2>2 DEF Remember
    <3>2. alive' \in [Requests -> BOOLEAN]
      BY <3>1, Zenon DEF IInv, TypeOK
    <3>3. who' \in [Requests -> Users \cup {None}] /\ token' \in [Requests -> Tokens \cup {None}]
      BY <3>1 DEF IInv, TypeOK
    <3> QED BY <1>2, <3>1, <3>2, <3>3 DEF IInv, TypeOK
  <2> QED BY <1>1, <2>1, <2>2
<1>4. NoSessionWithoutAccount'
  BY <1>2 DEF IInv, NoSessionWithoutAccount
<1>5. (\A q \in Requests : Local(q)') /\ OneHolder'
  BY <1>2 DEF IInv, Local, OneHolder
<1>6. \A t \in Tokens : Accounted(t)'
  BY <1>2, <1>3, StillAccounted DEF IInv, TypeOK
<1> QED BY <1>3, <1>4, <1>5, <1>6 DEF IInv

\* The DELETE of a refresh takes hold of all rows of its token, or finds none.
LEMMA DeleteSteps ==
  ASSUME IInv, NEW r \in Requests, RefreshDelete(r) \/ RefreshLost(r)
  PROVE  IInv'
<1>1. /\ pc[r] = "delete" /\ token[r] \in Tokens
      /\ \/ /\ pc' = [pc EXCEPT ![r] = "commit"] /\ ~Held(token[r]) /\ sessions[token[r]] > 0
            /\ taken' = [taken EXCEPT ![r] = sessions[token[r]]]
         \/ pc' = [pc EXCEPT ![r] = "refused"] /\ UNCHANGED taken
      /\ UNCHANGED <<account, sessions, minted, clock, who, token, alive, rotated, admitted>>
  BY DEF RefreshDelete, RefreshLost, IInv, Local
<1>2. TypeOK'
  BY <1>1 DEF IInv, TypeOK
<1>3. NoSessionWithoutAccount'
  BY <1>1 DEF IInv, TypeOK, NoSessionWithoutAccount
<1>4. \A q \in Requests : Local(q)'
  BY <1>1 DEF IInv, TypeOK, Local
<1>5. OneHolder'
  BY <1>1 DEF IInv, TypeOK, OneHolder, Held
<1>6. \A t \in Tokens : Accounted(t)'
  BY <1>1, <1>2, StillAccounted DEF IInv, TypeOK
<1> QED BY <1>2, <1>3, <1>4, <1>5, <1>6 DEF IInv

\* A commit trades at least one row for the request that it now counts as served.
LEMMA CommitStep ==
  ASSUME IInv, NEW r \in Requests, RefreshCommit(r)
  PROVE  IInv'
<1> DEFINE s == token[r]
<1>1. /\ pc[r] = "commit" /\ s \in Tokens /\ taken[r] \in Nat /\ taken[r] >= 1
      /\ sessions[s] \in Nat /\ taken[r] <= sessions[s]
      /\ sessions' = [sessions EXCEPT ![s] = sessions[s] - taken[r]]
      /\ rotated' = [rotated EXCEPT ![r] = s]
      /\ taken' = [taken EXCEPT ![r] = 0]
      /\ pc' = [pc EXCEPT ![r] = "sign"] \/ pc' = [pc EXCEPT ![r] = "interrupted"]
      /\ UNCHANGED <<account, minted, clock, who, token, alive, admitted>>
  BY DEF RefreshCommit, IInv, Local, TypeOK
<1>2. TypeOK'
  BY <1>1 DEF IInv, TypeOK
<1>3. NoSessionWithoutAccount'
  BY <1>1 DEF IInv, TypeOK, NoSessionWithoutAccount
<1>4. \A q \in Requests : Local(q)'
  BY <1>1 DEF IInv, TypeOK, Local, OneHolder
<1>5. OneHolder'
  BY <1>1 DEF IInv, TypeOK, OneHolder
<1>6. ASSUME NEW t \in Tokens PROVE Accounted(t)'
  <2>1. /\ IsFiniteSet(Rotations(t)) /\ Cardinality(Rotations(t)) \in Nat
        /\ Cardinality(Rotations(t)') \in Nat
    <3>1. Rotations(t) \in SUBSET Requests /\ Rotations(t)' \in SUBSET Requests
      BY DEF Rotations
    <3> QED BY <3>1, RequestsFinite
  <2>2. /\ minted'[t] = minted[t] /\ minted[t] \in Nat /\ sessions[t] \in Nat /\ Accounted(t)
    BY <1>1 DEF IInv, TypeOK
  <2>3. CASE t = s
    <3>1. Rotations(t)' = Rotations(t) \cup {r}
      BY <1>1, <2>3 DEF IInv, TypeOK, Rotations
    <3>2. Cardinality(Rotations(t) \cup {r}) <= Cardinality(Rotations(t)) + 1
      <4>1. Cardinality(Rotations(t) \cup {r}) =
              IF r \in Rotations(t) THEN Cardinality(Rotations(t)) ELSE Cardinality(Rotations(t)) + 1
        BY <2>1, FS_AddElement, Zenon
      <4> QED BY <2>1, <4>1
    <3>3. sessions'[t] = sessions[t] - taken[r]
      BY <1>1, <2>3 DEF IInv, TypeOK
    <3> QED BY <1>1, <2>1, <2>2, <3>1, <3>2, <3>3 DEF Accounted
  <2>4. CASE t # s
    <3>1. Rotations(t)' \subseteq Rotations(t)
      BY <1>1, <2>4 DEF IInv, TypeOK, Rotations
    <3>2. Cardinality(Rotations(t)') <= Cardinality(Rotations(t))
      BY <2>1, <3>1, FS_Subset
    <3>3. sessions'[t] = sessions[t]
      BY <1>1, <2>4 DEF IInv, TypeOK
    <3> QED BY <2>1, <2>2, <3>2, <3>3 DEF Accounted
  <2> QED BY <2>3, <2>4
<1> QED BY <1>2, <1>3, <1>4, <1>5, <1>6 DEF IInv

\* The new token, or the reason why there is none.
LEMMA SignSteps ==
  ASSUME IInv, NEW r \in Requests, Sign(r) \/ SignFailure(r) \/ SaveFailure(r)
  PROVE  IInv'
<1>1. \/ /\ pc[r] = "sign" /\ alive[r] /\ pc' = [pc EXCEPT ![r] = "save"]
         /\ token' = [token EXCEPT ![r] = [user |-> who[r], iat |-> clock]]
      \/ /\ (pc[r] = "sign" /\ ~alive[r]) \/ (pc[r] = "save" /\ account[who[r]] = "gone")
         /\ pc' = [pc EXCEPT ![r] = "failed"] /\ UNCHANGED token
  BY DEF Sign, SignFailure, SaveFailure
<1>2. UNCHANGED <<account, sessions, minted, clock, who, alive, taken, rotated, admitted>>
  BY DEF Sign, SignFailure, SaveFailure
<1>3. pc[r] \in {"sign", "save"} /\ who[r] \in Users /\ [user |-> who[r], iat |-> clock] \in Tokens
  BY <1>1 DEF IInv, TypeOK, Local, Tokens
<1>4. TypeOK'
  BY <1>1, <1>2, <1>3 DEF IInv, TypeOK
<1>5. NoSessionWithoutAccount'
  BY <1>1, <1>2 DEF IInv, TypeOK, NoSessionWithoutAccount
<1>6. \A q \in Requests : Local(q)'
  BY <1>1, <1>2, <1>3 DEF IInv, TypeOK, Local
<1>7. OneHolder'
  BY <1>1, <1>2, <1>3 DEF IInv, TypeOK, OneHolder
<1>8. \A t \in Tokens : Accounted(t)'
  BY <1>2, <1>4, StillAccounted DEF IInv, TypeOK
<1> QED BY <1>4, <1>5, <1>6, <1>7, <1>8 DEF IInv

\* The INSERT: the row's account is there, and rows a DELETE has taken stay.
LEMMA SaveStep ==
  ASSUME IInv, NEW r \in Requests, Save(r)
  PROVE  IInv'
<1>1. /\ pc[r] = "save" /\ account[who[r]] # "gone"
      /\ token[r] \in Tokens /\ token[r].user = who[r]
      /\ sessions' = [sessions EXCEPT ![token[r]] = @ + 1]
      /\ minted' = [minted EXCEPT ![token[r]] = @ + 1]
      /\ pc' = [pc EXCEPT ![r] = "done"] \/ pc' = [pc EXCEPT ![r] = "interrupted"]
      /\ UNCHANGED <<account, clock, who, token, alive, taken, rotated, admitted>>
  BY DEF Save, IInv, Local
<1>2. TypeOK'
  BY <1>1 DEF IInv, TypeOK
<1>3. NoSessionWithoutAccount'
  BY <1>1 DEF IInv, TypeOK, NoSessionWithoutAccount
<1>4. \A q \in Requests : Local(q)'
  BY <1>1 DEF IInv, TypeOK, Local
<1>5. OneHolder'
  BY <1>1 DEF IInv, TypeOK, OneHolder
<1>6. \A t \in Tokens : Accounted(t)'
  BY <1>1, <1>2, StillAccounted DEF IInv, TypeOK
<1> QED BY <1>2, <1>3, <1>4, <1>5, <1>6 DEF IInv

\* Rows are deleted by whoever does not rotate, but none that an open DELETE holds.
LEMMA RemoveSteps ==
  ASSUME IInv, NEW ts \in SUBSET Tokens, Remove(ts), UNCHANGED <<minted, rotated>>,
         TypeOK', NoSessionWithoutAccount',
         \A q \in Requests : /\ pc'[q] = pc[q] \/ pc'[q] \in {"done", "refused", "interrupted"}
                             /\ UNCHANGED <<who[q], token[q], taken[q], alive[q]>>
  PROVE  IInv'
<1>1. \A t \in Tokens : sessions[t] \in Nat /\ sessions'[t] = IF t \in ts THEN 0 ELSE sessions[t]
  BY DEF Remove, IInv, TypeOK
<1>2. \A q \in Requests : pc[q] = "commit" => token[q] \notin ts
  BY DEF Remove, Held
<1>3. \A q \in Requests : Local(q)'
  BY <1>1, <1>2 DEF IInv, Local
<1>4. OneHolder'
  BY DEF IInv, OneHolder
<1>5. \A t \in Tokens : Accounted(t)'
  BY <1>1, StillAccounted DEF IInv, TypeOK
<1> QED BY <1>3, <1>4, <1>5 DEF IInv

\* What a DELETE of rows leaves of the sessions.
LEMMA RemoveLeaves ==
  ASSUME IInv, NEW ts \in SUBSET Tokens, Remove(ts)
  PROVE  /\ sessions' \in [Tokens -> Nat]
         /\ \A t \in Tokens : sessions'[t] > 0 => sessions[t] > 0 /\ t \notin ts
<1>1. sessions' = [t \in Tokens |-> IF t \in ts THEN 0 ELSE sessions[t]]
  BY DEF Remove
<1>2. \A t \in Tokens : sessions[t] \in Nat
  BY DEF IInv, TypeOK
<1> QED BY <1>1, <1>2

LEMMA LogoutStep ==
  ASSUME IInv, NEW r \in Requests, Logout(r)
  PROVE  IInv'
<1>1. PICK t \in Tokens, l \in {"done", "refused", "interrupted"} :
        /\ pc[r] = "idle" /\ Remove({t}) /\ pc' = [pc EXCEPT ![r] = l]
        /\ UNCHANGED <<account, minted, clock, who, token, alive, taken, rotated, admitted>>
  BY DEF Logout
<1>2. /\ sessions' \in [Tokens -> Nat] /\ \A s \in Tokens : sessions'[s] > 0 => sessions[s] > 0
  BY <1>1, RemoveLeaves
<1>3. TypeOK'
  BY <1>1, <1>2 DEF IInv, TypeOK
<1>4. NoSessionWithoutAccount'
  BY <1>1, <1>2 DEF IInv, TypeOK, NoSessionWithoutAccount
<1>5. \A q \in Requests : /\ pc'[q] = pc[q] \/ pc'[q] \in {"done", "refused", "interrupted"}
                          /\ UNCHANGED <<who[q], token[q], taken[q], alive[q]>>
  BY <1>1 DEF IInv, TypeOK
<1> QED BY <1>1, <1>3, <1>4, <1>5, RemoveSteps

LEMMA PurgeStep ==
  ASSUME IInv, NEW r \in Requests, DeletePurge(r)
  PROVE  IInv'
<1>1. /\ pc[r] = "purge" /\ who[r] \in Users /\ Remove(TokensOf(who[r]))
      /\ pc' = [pc EXCEPT ![r] = "done"] \/ pc' = [pc EXCEPT ![r] = "interrupted"]
      /\ UNCHANGED <<account, minted, clock, who, token, alive, taken, rotated>>
  BY DEF DeletePurge, IInv, Local
<1>2. TokensOf(who[r]) \in SUBSET Tokens
  BY DEF TokensOf
<1>3. /\ sessions' \in [Tokens -> Nat] /\ \A s \in Tokens : sessions'[s] > 0 => sessions[s] > 0
  BY <1>1, <1>2, RemoveLeaves
<1>4. admitted' \in [Users -> Nat \cup {None}]
  <2>1. Underway(who[r]) \in SUBSET Requests
    BY DEF Underway
  <2>2. Cardinality(Underway(who[r])) \in Nat
    BY <2>1, RequestsFinite
  <2> QED BY <1>1, <2>2 DEF DeletePurge, IInv, TypeOK
<1>5. TypeOK'
  BY <1>1, <1>3, <1>4 DEF IInv, TypeOK
<1>6. NoSessionWithoutAccount'
  BY <1>1, <1>3 DEF IInv, TypeOK, NoSessionWithoutAccount
<1>7. \A q \in Requests : /\ pc'[q] = pc[q] \/ pc'[q] \in {"done", "refused", "interrupted"}
                          /\ UNCHANGED <<who[q], token[q], taken[q], alive[q]>>
  BY <1>1 DEF IInv, TypeOK
<1> QED BY <1>1, <1>2, <1>5, <1>6, <1>7, RemoveSteps

\* An account's row goes for good, and its tokens' rows with it.
LEMMA HardDeleteStep ==
  ASSUME IInv, NEW u \in Users, HardDelete(u)
  PROVE  IInv'
<1>1. /\ Remove(TokensOf(u)) /\ account' = [account EXCEPT ![u] = "gone"]
      /\ UNCHANGED <<minted, clock, pc, who, token, alive, taken, rotated, admitted>>
  BY DEF HardDelete, locals
<1>2. TokensOf(u) \in SUBSET Tokens
  BY DEF TokensOf
<1>3. /\ sessions' \in [Tokens -> Nat]
      /\ \A s \in Tokens : sessions'[s] > 0 => sessions[s] > 0 /\ s \notin TokensOf(u)
  BY <1>1, <1>2, RemoveLeaves
<1>4. TypeOK'
  BY <1>1, <1>3 DEF IInv, TypeOK
<1>5. NoSessionWithoutAccount'
  BY <1>1, <1>3, TokenShape DEF IInv, TypeOK, NoSessionWithoutAccount, TokensOf
<1> QED BY <1>1, <1>2, <1>4, <1>5, RemoveSteps DEF IInv, TypeOK

\* An account that has a row is soft-deleted or recovered.
LEMMA SoftSteps ==
  ASSUME IInv, (\E r \in Requests : DeleteSoftly(r)) \/ (\E u \in Users : Recover(u))
  PROVE  IInv'
<1>1. /\ \/ UNCHANGED account
         \/ \E u \in Users, state \in {"active", "deleted"} :
               account[u] # "gone" /\ account' = [account EXCEPT ![u] = state]
      /\ \/ UNCHANGED pc
         \/ \E r \in Requests : /\ pc[r] = "softdelete"
                               /\ \E l \in {"purge", "done", "interrupted"} : pc' = [pc EXCEPT ![r] = l]
      /\ admitted' = admitted \/ \E u \in Users : admitted' = [admitted EXCEPT ![u] = None]
      /\ UNCHANGED <<sessions, minted, clock, who, token, alive, taken, rotated>>
  <2>1. ASSUME NEW r \in Requests, DeleteSoftly(r) PROVE <1>1!:
    BY <2>1 DEF DeleteSoftly, IInv, Local
  <2>2. ASSUME NEW u \in Users, Recover(u) PROVE <1>1!:
    BY <2>2 DEF Recover, locals
  <2> QED BY <2>1, <2>2
<1>2. TypeOK'
  BY <1>1 DEF IInv, TypeOK
<1>3. NoSessionWithoutAccount'
  BY <1>1, TokenShape DEF IInv, TypeOK, NoSessionWithoutAccount
<1>5. (\A q \in Requests : Local(q)') /\ OneHolder'
  BY <1>1 DEF IInv, TypeOK, Local, OneHolder
<1>6. \A t \in Tokens : Accounted(t)'
  BY <1>1, <1>2, StillAccounted DEF IInv, TypeOK
<1> QED BY <1>2, <1>3, <1>5, <1>6 DEF IInv

\* Faults end requests and their transactions; the clock only goes on.
LEMMA FaultSteps ==
  ASSUME IInv, (\E r \in Requests : StatementFailure(r)) \/ Crash \/ Tick
  PROVE  IInv'
<1>1. /\ \A q \in Requests : \/ pc'[q] = pc[q] /\ (pc[q] = "commit" => taken'[q] = taken[q])
                            \/ pc'[q] = "interrupted"
      /\ pc' \in [Requests -> {"idle", "delete", "commit", "sign", "save", "softdelete",
                               "purge"} \cup Ended]
      /\ taken' \in [Requests -> Nat] /\ clock' \in 0..MaxClock
      /\ UNCHANGED <<account, sessions, minted, who, token, alive, rotated, admitted>>
  <2>1. ASSUME NEW r \in Requests, StatementFailure(r) PROVE <1>1!:
    BY <2>1 DEF StatementFailure, IInv, TypeOK
  <2>2. CASE Crash
    BY <2>2 DEF Crash, IInv, TypeOK
  <2>3. CASE Tick
    BY <2>3 DEF Tick, IInv, TypeOK, locals, SessionsAssumption
  <2> QED BY <2>1, <2>2, <2>3
<1>2. TypeOK'
  BY <1>1 DEF IInv, TypeOK
<1>3. NoSessionWithoutAccount'
  BY <1>1 DEF IInv, NoSessionWithoutAccount
<1>4. (\A q \in Requests : Local(q)') /\ OneHolder'
  BY <1>1 DEF IInv, Local, OneHolder
<1>5. \A t \in Tokens : Accounted(t)'
  BY <1>1, <1>2, StillAccounted DEF IInv, TypeOK
<1> QED BY <1>2, <1>3, <1>4, <1>5 DEF IInv

\* Rows, tokens and accounts agree in every behaviour, fair or not.
THEOREM SessionsInvariance == Spec => []IInv
<1>1. IInv /\ [Next]_vars => IInv'
  <2> SUFFICES ASSUME IInv, [Next]_vars PROVE IInv'
    OBVIOUS
  <2>1. CASE UNCHANGED vars
    <3>1. TypeOK' /\ NoSessionWithoutAccount'
      BY <2>1 DEF vars, locals, IInv, TypeOK, NoSessionWithoutAccount
    <3>2. (\A q \in Requests : Local(q)') /\ OneHolder'
      BY <2>1 DEF vars, locals, IInv, Local, OneHolder
    <3>3. \A t \in Tokens : Accounted(t)'
      BY <2>1, <3>1, StillAccounted DEF vars, locals, IInv, TypeOK
    <3> QED BY <3>1, <3>2, <3>3 DEF IInv
  <2>2. ASSUME NEW r \in Requests, Arrive(r) \/ Step(r) PROVE IInv'
    BY <2>2, ReadSteps, LogoutStep, DeleteSteps, CommitStep, SignSteps, SaveStep, SoftSteps, PurgeStep
       DEF Arrive, Step
  <2>3. ASSUME NEW u \in Users, Recover(u) \/ HardDelete(u) PROVE IInv'
    BY <2>3, SoftSteps, HardDeleteStep
  <2>4. CASE (\E r \in Requests : StatementFailure(r)) \/ Crash \/ Tick
    BY <2>4, FaultSteps
  <2> QED BY <2>1, <2>2, <2>3, <2>4 DEF Next
<1> QED BY InitEstablishes, <1>1, PTL DEF Spec

\* Every variable keeps its type; rows are never counted below zero.
THEOREM SessionsTypeCorrect == Spec => []TypeOK
<1>1. IInv => TypeOK
  BY DEF IInv
<1> QED BY <1>1, SessionsInvariance, PTL

\* A token string serves no more refreshes than rows were inserted with it.
THEOREM TokensServeOnce == Spec => []RefreshAtMostOnce
<1>1. IInv => RefreshAtMostOnce
  <2> SUFFICES ASSUME IInv, NEW t \in Tokens
               PROVE  Cardinality({r \in Requests : rotated[r] = t}) <= minted[t]
    BY DEF RefreshAtMostOnce
  <2>1. Cardinality({r \in Requests : rotated[r] = t}) \in Nat
    BY RequestsFinite
  <2>2. sessions[t] \in Nat /\ minted[t] \in Nat
    BY DEF IInv, TypeOK
  <2> QED BY <2>1, <2>2 DEF IInv, Accounted, Rotations
<1> QED BY <1>1, SessionsInvariance, PTL

\* No row of refresh_token_entity survives its user's row.
THEOREM SessionsEndWithTheRow == Spec => []NoSessionWithoutAccount
<1>1. IInv => NoSessionWithoutAccount
  BY DEF IInv
<1> QED BY <1>1, SessionsInvariance, PTL

\* What a step spends of a token, it spends in one of the four ways.
LEMMA StepSpends ==
  ASSUME IInv, Next, NEW t \in Tokens, sessions'[t] < sessions[t]
  PROVE  \/ \E r \in Requests : /\ pc[r] = "commit" /\ rotated'[r] = t
                                /\ sessions'[t] = sessions[t] - taken[r]
         \/ \E r \in Requests : pc[r] = "idle" /\ pc'[r] \in {"done", "interrupted"}
         \/ \E r \in Requests : /\ pc[r] = "purge" /\ who[r] = t.user
                                /\ pc'[r] \in {"done", "interrupted"}
         \/ account[t.user] # "gone" /\ account'[t.user] = "gone"
<1> DEFINE Spent == sessions'[t] < sessions[t]
<1>0. sessions[t] \in Nat /\ Spent
  BY DEF IInv, TypeOK
<1> HIDE DEF Spent
<1>1. ~UNCHANGED sessions
  BY <1>0 DEF Spent
<1>2. ASSUME NEW r \in Requests, RefreshCommit(r)
      PROVE  /\ pc[r] = "commit" /\ rotated'[r] = t /\ sessions'[t] = sessions[t] - taken[r]
  <2>1. /\ pc[r] = "commit" /\ token[r] \in Tokens
        /\ sessions' = [sessions EXCEPT ![token[r]] = @ - taken[r]]
        /\ rotated' = [rotated EXCEPT ![r] = token[r]]
    BY <1>2 DEF RefreshCommit, IInv, Local
  <2>2. token[r] = t
    BY <1>0, <2>1 DEF IInv, TypeOK, Spent
  <2> QED BY <2>1, <2>2 DEF IInv, TypeOK
<1>3. ASSUME NEW r \in Requests, Save(r) PROVE FALSE
  <2>1. token[r] \in Tokens /\ sessions' = [sessions EXCEPT ![token[r]] = @ + 1]
    BY <1>3 DEF Save, IInv, Local
  <2> QED BY <1>0, <2>1 DEF IInv, TypeOK, Spent
<1>4. ASSUME NEW r \in Requests, Logout(r)
      PROVE  pc[r] = "idle" /\ pc'[r] \in {"done", "interrupted"}
  <2>1. PICK q \in Tokens :
          /\ pc[r] = "idle" /\ Remove({q})
          /\ Reach(r, IF sessions[q] > 0 THEN "done" ELSE "refused")
    BY <1>4 DEF Logout
  <2>2. q = t
    BY <1>0, <2>1 DEF Remove, Spent
  <2>3. sessions[t] > 0
    <3>1. sessions'[t] = 0
      BY <2>1, <2>2 DEF Remove
    <3> QED BY <1>0, <3>1 DEF Spent
  <2> QED BY <2>1, <2>2, <2>3 DEF IInv, TypeOK
<1>5. ASSUME NEW r \in Requests, DeletePurge(r)
      PROVE  pc[r] = "purge" /\ who[r] = t.user /\ pc'[r] \in {"done", "interrupted"}
  <2>1. pc[r] = "purge" /\ Remove(TokensOf(who[r])) /\ Reach(r, "done")
    BY <1>5 DEF DeletePurge
  <2>2. t \in TokensOf(who[r])
    BY <1>0, <2>1 DEF Remove, Spent
  <2> QED BY <2>1, <2>2 DEF TokensOf, IInv, TypeOK
<1>6. ASSUME NEW u \in Users, HardDelete(u)
      PROVE  account[t.user] # "gone" /\ account'[t.user] = "gone"
  <2>1. account[u] # "gone" /\ Remove(TokensOf(u)) /\ account' = [account EXCEPT ![u] = "gone"]
    BY <1>6 DEF HardDelete
  <2>2. t \in TokensOf(u)
    BY <1>0, <2>1 DEF Remove, Spent
  <2> QED BY <2>1, <2>2 DEF TokensOf, IInv, TypeOK
<1>7. ASSUME NEW r \in Requests, Arrive(r) \/ Step(r)
      PROVE  RefreshCommit(r) \/ Save(r) \/ Logout(r) \/ DeletePurge(r)
  BY <1>1, <1>7 DEF Arrive, Step, LoginRead, LoginRefused, RefreshFind, RefreshRefused, Refuse, Remember,
       DeleteRead, RefreshDelete, RefreshLost, Sign, SignFailure, SaveFailure, DeleteSoftly
<1>8. ASSUME NEW r \in Requests, StatementFailure(r) PROVE FALSE
  BY <1>1, <1>8 DEF StatementFailure
<1>9. ASSUME NEW u \in Users, Recover(u) PROVE FALSE
  BY <1>1, <1>9 DEF Recover
<1>10. ~Crash /\ ~Tick
  BY <1>1 DEF Crash, Tick
<1>11. CASE \E r \in Requests : RefreshCommit(r) \/ Save(r) \/ Logout(r) \/ DeletePurge(r)
  BY <1>2, <1>3, <1>4, <1>5, <1>11
<1>12. CASE \E u \in Users : HardDelete(u)
  BY <1>6, <1>12
<1> QED BY <1>7, <1>8, <1>9, <1>10, <1>11, <1>12 DEF Next

\* An uncommitted refresh costs nobody a session, and a committed one just what
\* its DELETE had found.
THEOREM SpentByCommits == Spec => OnlyCommitsSpend
<1> DEFINE Sound == \A t \in Tokens : sessions'[t] < sessions[t] =>
              \/ \E r \in Requests : /\ pc[r] = "commit" /\ rotated'[r] = t
                                     /\ sessions'[t] = sessions[t] - taken[r]
              \/ \E r \in Requests : pc[r] = "idle" /\ pc'[r] \in {"done", "interrupted"}
              \/ \E r \in Requests : /\ pc[r] = "purge" /\ who[r] = t.user
                                     /\ pc'[r] \in {"done", "interrupted"}
              \/ account[t.user] # "gone" /\ account'[t.user] = "gone"
<1>1. IInv /\ [Next]_vars => [Sound]_vars
  BY StepSpends
<1> QED BY <1>1, SessionsInvariance, PTL DEF Spec, OnlyCommitsSpend

-----------------------------------------------------------------------------
(* How many sessions survive delete-me.                                      *)

\* A live account has nothing on record; a purged one has room for its rows and
\* for everybody who may still add one.
Admitted(u) ==
    /\ account[u] = "active" => admitted[u] = None
    /\ account[u] = "deleted" /\ admitted[u] # None =>
          Cardinality(Rows(u)) + Cardinality(Underway(u)) <= admitted[u]

LEMMA IntervalFinite ==
  ASSUME NEW m \in Nat, NEW n \in Nat
  PROVE  IsFiniteSet(m..n)
<1>1. m \in Int /\ n \in Int
  OBVIOUS
<1> QED BY <1>1, FS_Interval, Zenon

\* An account has finitely many tokens, one for each second.
LEMMA TokensOfFinite ==
  ASSUME NEW u
  PROVE  IsFiniteSet(TokensOf(u))
<1> DEFINE f == [t \in TokensOf(u) |-> t.iat]
<1>1. f \in [TokensOf(u) -> 0..MaxClock]
  BY TokenShape DEF TokensOf
<1>2. ASSUME NEW s \in TokensOf(u), NEW t \in TokensOf(u), f[s] = f[t] PROVE s = t
  BY <1>2 DEF TokensOf, Tokens
<1>3. f \in Injection(TokensOf(u), 0..MaxClock)
  BY <1>1, <1>2 DEF Injection, IsInjective
<1>4. IsFiniteSet(0..MaxClock)
  BY IntervalFinite DEF SessionsAssumption
<1> QED BY <1>3, <1>4, FS_Injection

\* Finitely many rows, whatever the counts.
LEMMA RowsFinite ==
  ASSUME NEW f \in [Tokens -> Nat], NEW u
  PROVE  LET S == UNION {{t} \X (1..f[t]) : t \in TokensOf(u)}
         IN  IsFiniteSet(S) /\ Cardinality(S) \in Nat
<1> DEFINE Of(t) == {t} \X (1..f[t])
           All == {Of(t) : t \in TokensOf(u)}
           g == [t \in TokensOf(u) |-> Of(t)]
<1>1. IsFiniteSet(All)
  <2>1. g \in Surjection(TokensOf(u), All)
    BY DEF Surjection
  <2> QED BY <2>1, TokensOfFinite, FS_Surjection
<1>2. ASSUME NEW t \in TokensOf(u) PROVE IsFiniteSet(Of(t))
  <2>1. f[t] \in Nat
    BY DEF TokensOf
  <2>2. IsFiniteSet(1..f[t])
    BY <2>1, IntervalFinite
  <2>3. IsFiniteSet({t})
    BY FS_Singleton
  <2> QED BY <2>2, <2>3, FS_Product
<1>3. IsFiniteSet(UNION All)
  <2>1. \A T \in All : IsFiniteSet(T)
    BY <1>2
  <2> HIDE DEF All
  <2> QED BY <1>1, <2>1, FS_UNION
<1> QED BY <1>3, FS_CardinalityType

\* Where neither rows nor candidates are added, the bound stays good.
LEMMA NoMore ==
  ASSUME TypeOK, TypeOK', NEW u \in Users, Admitted(u), admitted'[u] = admitted[u],
         account'[u] = account[u] \/ account'[u] = "gone"
            \/ (account[u] = "active" /\ account'[u] = "deleted"),
         account[u] = "deleted" => Underway(u)' \subseteq Underway(u),
         \A t \in TokensOf(u) : sessions'[t] <= sessions[t]
  PROVE  Admitted(u)'
<1>1. (account'[u] = "active") => admitted'[u] = None
  BY DEF Admitted
<1>2. ASSUME account'[u] = "deleted", admitted'[u] # None
      PROVE  Cardinality(Rows(u)') + Cardinality(Underway(u)') <= admitted'[u]
  <2>1. account[u] = "deleted" /\ admitted[u] # None /\ admitted[u] \in Nat
    BY <1>2 DEF Admitted, TypeOK
  <2>2. IsFiniteSet(Rows(u)) /\ Cardinality(Rows(u)) \in Nat
    BY RowsFinite DEF Rows, TypeOK
  <2>3. Cardinality(Rows(u)') \in Nat
    BY RowsFinite DEF Rows, TypeOK
  <2>4. Rows(u)' \subseteq Rows(u)
    <3>1. \A t \in TokensOf(u) : 1..sessions'[t] \subseteq 1..sessions[t]
      BY DEF TypeOK, TokensOf
    <3> QED BY <3>1 DEF Rows
  <2>5. Cardinality(Rows(u)') <= Cardinality(Rows(u))
    BY <2>2, <2>4, FS_Subset
  <2>6. /\ IsFiniteSet(Underway(u)) /\ Cardinality(Underway(u)) \in Nat
        /\ Cardinality(Underway(u)') \in Nat
    <3>1. Underway(u) \in SUBSET Requests /\ Underway(u)' \in SUBSET Requests
      BY DEF Underway
    <3> QED BY <3>1, RequestsFinite
  <2>7. Cardinality(Underway(u)') <= Cardinality(Underway(u))
    BY <2>1, <2>6, FS_Subset
  <2> QED BY <1>2, <2>1, <2>2, <2>3, <2>5, <2>6, <2>7 DEF Admitted
<1> QED BY <1>1, <1>2 DEF Admitted

\* Saving turns a candidate into a row.
LEMMA SaveAdmits ==
  ASSUME IInv, TypeOK', NEW r \in Requests, Save(r), NEW u \in Users, Admitted(u)
  PROVE  Admitted(u)'
<1> DEFINE s == token[r]
<1>1. /\ pc[r] = "save" /\ alive[r] /\ s \in Tokens /\ s.user = who[r] /\ sessions[s] \in Nat
      /\ sessions' = [sessions EXCEPT ![s] = sessions[s] + 1]
      /\ pc' = [pc EXCEPT ![r] = "done"] \/ pc' = [pc EXCEPT ![r] = "interrupted"]
      /\ UNCHANGED <<account, who, alive, admitted>>
  BY DEF Save, IInv, Local, TypeOK
<1>2. Underway(u)' = Underway(u) \ {r}
  BY <1>1 DEF IInv, TypeOK, Underway
<1>3. CASE who[r] # u
  <2>1. \A t \in TokensOf(u) : sessions'[t] <= sessions[t]
    BY <1>1, <1>3 DEF IInv, TypeOK, TokensOf
  <2>2. TypeOK
    BY DEF IInv
  <2> QED BY <1>1, <1>2, <2>1, <2>2, NoMore
<1>4. CASE who[r] = u /\ account[u] = "deleted" /\ admitted[u] # None
  <2> DEFINE row == <<s, sessions[s] + 1>>
  <2>1. s \in TokensOf(u) /\ r \in Underway(u)
    BY <1>1, <1>4 DEF TokensOf, Underway
  <2>2. Rows(u)' = Rows(u) \cup {row}
    <3>1. \A t \in TokensOf(u) : sessions[t] \in Nat
      BY DEF IInv, TypeOK, TokensOf
    <3>2. \A t \in TokensOf(u) : sessions'[t] = IF t = s THEN sessions[t] + 1 ELSE sessions[t]
      BY <1>1 DEF IInv, TypeOK, TokensOf
    <3>3. \A n \in Nat : 1..(n+1) = (1..n) \cup {n+1}
      OBVIOUS
    <3>4. 1..(sessions[s] + 1) = (1..sessions[s]) \cup {sessions[s] + 1}
      BY <1>1, <3>3
    <3>5. \A p : p \in Rows(u)' <=> \E t \in TokensOf(u) : p \in {t} \X (1..sessions'[t])
      BY DEF Rows
    <3>6. \A p : p \in Rows(u) <=> \E t \in TokensOf(u) : p \in {t} \X (1..sessions[t])
      BY DEF Rows
    <3>7. ASSUME NEW p PROVE p \in Rows(u)' <=> p \in Rows(u) \/ p = row
      <4>1. ASSUME p \in Rows(u)' PROVE p \in Rows(u) \/ p = row
        <5>1. PICK t \in TokensOf(u) : p \in {t} \X (1..sessions'[t])
          BY <3>5, <4>1
        <5>2. CASE t = s
          BY <2>1, <3>2, <3>4, <3>6, <5>1, <5>2
        <5>3. CASE t # s
          BY <3>2, <3>6, <5>1, <5>3
        <5> QED BY <5>2, <5>3
      <4>2. ASSUME p \in Rows(u) PROVE p \in Rows(u)'
        <5>1. PICK t \in TokensOf(u) : p \in {t} \X (1..sessions[t])
          BY <3>6, <4>2
        <5>2. 1..sessions[t] \subseteq 1..sessions'[t]
          BY <3>1, <3>2
        <5> QED BY <3>5, <5>1, <5>2
      <4>3. ASSUME p = row PROVE p \in Rows(u)'
        <5>1. row \in {s} \X (1..sessions'[s])
          BY <2>1, <3>2, <3>4
        <5> QED BY <2>1, <3>5, <4>3, <5>1
      <4> QED BY <4>1, <4>2, <4>3
    <3> QED BY <3>7
  <2>3. IsFiniteSet(Rows(u)) /\ Cardinality(Rows(u)) \in Nat
    BY RowsFinite DEF IInv, TypeOK, Rows
  <2>4. Cardinality(Rows(u)') \in Nat /\ Cardinality(Rows(u)') <= Cardinality(Rows(u)) + 1
    <3>1. Cardinality(Rows(u) \cup {row}) =
            IF row \in Rows(u) THEN Cardinality(Rows(u)) ELSE Cardinality(Rows(u)) + 1
      BY <2>3, FS_AddElement, Zenon
    <3> QED BY <2>2, <2>3, <3>1
  <2>5. Cardinality(Underway(u)) \in Nat /\ Cardinality(Underway(u)') = Cardinality(Underway(u)) - 1
    <3>1. Underway(u) \in SUBSET Requests
      BY DEF Underway
    <3>2. IsFiniteSet(Underway(u)) /\ Cardinality(Underway(u)) \in Nat
      BY <3>1, RequestsFinite
    <3>3. Cardinality(Underway(u) \ {r}) =
            IF r \in Underway(u) THEN Cardinality(Underway(u)) - 1 ELSE Cardinality(Underway(u))
      BY <3>2, FS_RemoveElement, Zenon
    <3> QED BY <1>2, <2>1, <3>2, <3>3
  <2>6. admitted[u] \in Nat
    BY <1>4 DEF IInv, TypeOK
  <2> QED BY <1>1, <1>4, <2>3, <2>4, <2>5, <2>6 DEF Admitted
<1>5. CASE who[r] = u /\ ~(account[u] = "deleted" /\ admitted[u] # None)
  BY <1>1, <1>5 DEF Admitted
<1> QED BY <1>3, <1>4, <1>5

\* A purge takes every row and puts on record who may still add one.
LEMMA PurgeAdmits ==
  ASSUME IInv, TypeOK', NEW r \in Requests, DeletePurge(r), NEW u \in Users, Admitted(u)
  PROVE  Admitted(u)'
<1>1. /\ pc[r] = "purge" /\ who[r] \in Users /\ Remove(TokensOf(who[r]))
      /\ pc' = [pc EXCEPT ![r] = "done"] \/ pc' = [pc EXCEPT ![r] = "interrupted"]
      /\ UNCHANGED <<account, who, alive>>
      /\ admitted' = [admitted EXCEPT ![who[r]] =
           IF account[who[r]] = "deleted" THEN Cardinality(Underway(who[r])) ELSE admitted[who[r]]]
  BY DEF DeletePurge, IInv, Local
<1>2. Underway(u)' = Underway(u)
  BY <1>1 DEF IInv, TypeOK, Underway
<1>3. \A t \in Tokens : sessions'[t] = IF t \in TokensOf(who[r]) THEN 0 ELSE sessions[t]
  BY <1>1 DEF Remove
<1>4. CASE who[r] = u /\ account[u] = "deleted"
  <2>1. admitted'[u] = Cardinality(Underway(u))
    BY <1>1, <1>4 DEF IInv, TypeOK
  <2>2. Rows(u)' = {}
    <3>1. \A t \in TokensOf(u) : 1..sessions'[t] = {}
      BY <1>3, <1>4 DEF TokensOf
    <3> QED BY <3>1 DEF Rows
  <2>3. Cardinality(Underway(u)) \in Nat
    <3>1. Underway(u) \in SUBSET Requests
      BY DEF Underway
    <3> QED BY <3>1, RequestsFinite
  <2>4. Cardinality(Rows(u)') = 0
    BY <2>2, FS_EmptySet
  <2> QED BY <1>1, <1>2, <1>4, <2>1, <2>3, <2>4 DEF Admitted
<1>5. CASE ~(who[r] = u /\ account[u] = "deleted")
  <2>1. admitted'[u] = admitted[u]
    BY <1>1, <1>5 DEF IInv, TypeOK
  <2>2. \A t \in TokensOf(u) : sessions'[t] <= sessions[t]
    BY <1>3 DEF IInv, TypeOK, TokensOf
  <2>3. TypeOK
    BY DEF IInv
  <2> QED BY <1>1, <1>2, <2>1, <2>2, <2>3, NoMore
<1> QED BY <1>4, <1>5

\* Every other step of a request adds neither a row nor, while the account is
\* deleted, a candidate: whoever reads it now does not find it alive.
LEMMA RequestAdmits ==
  ASSUME IInv, TypeOK', NEW r \in Requests, Arrive(r) \/ Step(r) \/ StatementFailure(r),
         ~Save(r), ~DeletePurge(r), NEW u \in Users, Admitted(u)
  PROVE  Admitted(u)'
<1>1. TypeOK
  BY DEF IInv
<1>2. ASSUME NEW t \in Tokens \cup {None}, NEW v \in Users, NEW l, Remember(r, v, t, l), pc[r] = "idle"
      PROVE  Admitted(u)'
  <2>1. UNCHANGED <<account, sessions, admitted>>
    BY <1>2 DEF Remember
  <2>2. \A q \in Requests \ {r} : pc'[q] = pc[q] /\ who'[q] = who[q] /\ alive'[q] = alive[q]
    BY <1>2, <1>1 DEF Remember, Goto, TypeOK
  <2>3. who'[r] = v
    BY <1>2, <1>1 DEF Remember, TypeOK
  <2>4. alive'[r] = (account[v] = "active")
    BY <1>2, <1>1, Zenon DEF Remember, TypeOK
  <2>5. account[u] = "deleted" => Underway(u)' \subseteq Underway(u)
    <3> SUFFICES ASSUME account[u] = "deleted", NEW q \in Underway(u)' PROVE q \in Underway(u)
      OBVIOUS
    <3>1. q \in Requests /\ who'[q] = u /\ alive'[q] /\ pc'[q] \in {"delete", "commit", "sign", "save"}
      BY DEF Underway
    <3>2. q # r
      BY <2>3, <2>4, <3>1
    <3> QED BY <2>2, <3>1, <3>2 DEF Underway
  <2>6. \A t1 \in TokensOf(u) : sessions'[t1] <= sessions[t1]
    BY <1>1, <2>1 DEF TypeOK, TokensOf
  <2> QED BY <1>1, <2>1, <2>5, <2>6, NoMore
<1>3. CASE LoginRead(r) \/ RefreshFind(r) \/ DeleteRead(r)
  <2>1. CASE LoginRead(r)
    BY <2>1, <1>2 DEF LoginRead
  <2>2. CASE RefreshFind(r)
    BY <2>2, <1>2, TokenShape DEF RefreshFind
  <2>3. CASE DeleteRead(r)
    BY <2>3, <1>2 DEF DeleteRead
  <2> QED BY <1>3, <2>1, <2>2, <2>3
<1>4. ASSUME UNCHANGED <<who, alive, admitted>>,
             UNCHANGED account \/ \E v \in Users : account[v] # "gone" /\ account' = [account EXCEPT ![v] = "deleted"],
             \A t \in Tokens : sessions'[t] <= sessions[t],
             \A q \in Requests : pc'[q] \in {"delete", "commit", "sign", "save"}
                                    => pc[q] \in {"delete", "commit", "sign", "save"}
      PROVE  Admitted(u)'
  <2>1. Underway(u)' \subseteq Underway(u)
    BY <1>4 DEF Underway
  <2>2. \/ account'[u] = account[u]
        \/ account[u] = "active" /\ account'[u] = "deleted"
    BY <1>1, <1>4 DEF TypeOK
  <2>3. \A t \in TokensOf(u) : sessions'[t] <= sessions[t]
    BY <1>4 DEF TokensOf
  <2> QED BY <1>1, <1>4, <2>1, <2>2, <2>3, NoMore
<1>5. CASE LoginRefused(r) \/ RefreshRefused(r) \/ RefreshDelete(r) \/ RefreshLost(r)
           \/ Sign(r) \/ SignFailure(r) \/ SaveFailure(r) \/ DeleteSoftly(r) \/ StatementFailure(r)
  <2>1. /\ UNCHANGED <<who, alive, admitted, sessions>>
        /\ \E l \in {"refused", "failed", "interrupted", "commit", "save", "purge", "done"} :
              /\ pc' = [pc EXCEPT ![r] = l]
              /\ l \in {"commit", "save"} => pc[r] \in {"delete", "sign"}
        /\ UNCHANGED account \/ \E v \in Users : account[v] # "gone" /\ account' = [account EXCEPT ![v] = "deleted"]
    BY <1>5 DEF LoginRefused, RefreshRefused, Refuse, RefreshDelete, RefreshLost, Sign, SignFailure,
                SaveFailure, DeleteSoftly, StatementFailure, IInv, Local
  <2>2. \A t \in Tokens : sessions'[t] <= sessions[t]
    BY <1>1, <2>1 DEF TypeOK
  <2>3. \A q \in Requests : pc'[q] \in {"delete", "commit", "sign", "save"}
                               => pc[q] \in {"delete", "commit", "sign", "save"}
    BY <1>1, <2>1 DEF TypeOK
  <2> QED BY <1>4, <2>1, <2>2, <2>3
<1>6. CASE RefreshCommit(r)
  <2>1. /\ UNCHANGED <<account, who, alive, admitted>> /\ pc[r] = "commit"
        /\ pc' = [pc EXCEPT ![r] = "sign"] \/ pc' = [pc EXCEPT ![r] = "interrupted"]
        /\ taken[r] \in Nat
        /\ sessions' = [sessions EXCEPT ![token[r]] = @ - taken[r]]
    BY <1>1, <1>6 DEF RefreshCommit, TypeOK
  <2>2. \A t \in Tokens : sessions'[t] <= sessions[t]
    BY <1>1, <2>1 DEF TypeOK
  <2>3. \A q \in Requests : pc'[q] \in {"delete", "commit", "sign", "save"}
                               => pc[q] \in {"delete", "commit", "sign", "save"}
    BY <1>1, <2>1 DEF TypeOK
  <2> QED BY <1>4, <2>1, <2>2, <2>3
<1>7. CASE Logout(r)
  <2>1. PICK t \in Tokens, l \in {"done", "refused", "interrupted"} :
          /\ Remove({t}) /\ pc' = [pc EXCEPT ![r] = l]
          /\ UNCHANGED <<account, who, alive, admitted>>
    BY <1>7 DEF Logout
  <2>2. \A t1 \in Tokens : sessions'[t1] <= sessions[t1]
    BY <1>1, <2>1 DEF Remove, TypeOK
  <2>3. \A q \in Requests : pc'[q] \in {"delete", "commit", "sign", "save"}
                               => pc[q] \in {"delete", "commit", "sign", "save"}
    BY <1>1, <2>1 DEF TypeOK
  <2> QED BY <1>4, <2>1, <2>2, <2>3
<1> QED BY <1>3, <1>5, <1>6, <1>7 DEF Arrive, Step

\* Account operations, faults and time.
LEMMA EnvironmentAdmits ==
  ASSUME IInv, TypeOK', Crash \/ Tick \/ (\E v \in Users : Recover(v) \/ HardDelete(v)) \/ UNCHANGED vars,
         NEW u \in Users, Admitted(u)
  PROVE  Admitted(u)'
<1>1. TypeOK
  BY DEF IInv
<1>2. CASE Crash \/ Tick \/ UNCHANGED vars
  <2>1. UNCHANGED <<account, sessions, who, alive, admitted>>
    BY <1>2 DEF Crash, Tick, vars, locals
  <2>2. \A q \in Requests : pc'[q] = pc[q] \/ pc'[q] = "interrupted"
    BY <1>2 DEF Crash, Tick, vars, locals
  <2>3. Underway(u)' \subseteq Underway(u)
    BY <2>1, <2>2 DEF Underway
  <2>4. \A t \in TokensOf(u) : sessions'[t] <= sessions[t]
    BY <1>1, <2>1 DEF TypeOK, TokensOf
  <2> QED BY <1>1, <2>1, <2>3, <2>4, NoMore
<1>3. ASSUME NEW v \in Users, Recover(v) \/ HardDelete(v) PROVE Admitted(u)'
  <2>1. UNCHANGED <<pc, who, alive>>
    BY <1>3 DEF Recover, HardDelete, locals
  <2>2. Underway(u)' = Underway(u)
    BY <2>1 DEF Underway
  <2>3. \A t \in TokensOf(u) : sessions'[t] <= sessions[t]
    BY <1>1, <1>3 DEF Recover, HardDelete, Remove, TypeOK, TokensOf
  <2>4. CASE admitted'[u] = admitted[u] /\ account'[u] \in {account[u], "gone"}
    BY <1>1, <2>2, <2>3, <2>4, NoMore
  <2>5. CASE admitted'[u] = None
    BY <2>5 DEF Admitted
  <2>6. \/ admitted'[u] = None
        \/ admitted'[u] = admitted[u] /\ account'[u] \in {account[u], "gone"}
    BY <1>1, <1>3 DEF Recover, HardDelete, TypeOK
  <2> QED BY <2>4, <2>5, <2>6
<1> QED BY <1>2, <1>3

\* Whoever adds a session to a deleted account had read it alive before its
\* tokens were purged.
THEOREM SurvivorsAreBounded == Spec => []SurvivorsWereUnderway
<1> DEFINE Bound == \A u \in Users : Admitted(u)
<1>1. Init => Bound
  BY DEF Init, Admitted
<1>2. IInv /\ IInv' /\ Bound /\ [Next]_vars => Bound'
  <2> SUFFICES ASSUME IInv, TypeOK', Bound, [Next]_vars, NEW u \in Users PROVE Admitted(u)'
    BY DEF IInv
  <2>1. Admitted(u)
    OBVIOUS
  <2> HIDE DEF Bound
  <2>2. ASSUME NEW r \in Requests, Arrive(r) \/ Step(r) \/ StatementFailure(r) PROVE Admitted(u)'
    BY <2>1, <2>2, SaveAdmits, PurgeAdmits, RequestAdmits
  <2>3. CASE Crash \/ Tick \/ (\E v \in Users : Recover(v) \/ HardDelete(v)) \/ UNCHANGED vars
    BY <2>1, <2>3, EnvironmentAdmits
  <2> QED BY <2>2, <2>3 DEF Next
<1>3. IInv /\ Bound => SurvivorsWereUnderway
  BY DEF Admitted, SurvivorsWereUnderway
<1> HIDE DEF Bound
<1> QED BY <1>1, <1>2, <1>3, SessionsInvariance, PTL DEF Spec
=============================================================================
