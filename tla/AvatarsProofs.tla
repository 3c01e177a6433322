---------------------------- MODULE AvatarsProofs ----------------------------
(***************************************************************************)
(* Proofs about Avatars, for any users, requests and limits: the rows and  *)
(* the bucket agree, files without a row have a reason, and the limit is    *)
(* passed together or not at all.                                          *)
(***************************************************************************)
EXTENDS Avatars, FiniteSetTheorems, TLAPS

USE AvatarsAssumption DEF AvatarsAssumption, Ended, lists

\* Where an upload stands: its file is in the bucket from its PUT on, and its row,
\* once there, is its caller's until the account goes.
Upload(f) ==
    /\ pc[f] \in {"idle", "put", "delete", "group", "refused"} => f \notin bucket
    /\ pc[f] = "save" => f \in bucket
    /\ avatar[f] # None => f \in bucket /\ pc[f] = "done" /\ avatar[f].owner = call[f].user

IInv ==
    /\ TypeOK /\ LinksAreGood /\ UnlinkedFilesExplained
    /\ avatar = [f \in Requests |-> avatar[f]] /\ call = [r \in Requests |-> call[r]]
    /\ \A f \in Requests : Upload(f)

LEMMA InitEstablishes == Init => IInv
  BY DEF Init, IInv, TypeOK, LinksAreGood, UnlinkedFilesExplained, Upload

\* An upload that counts, a deletion that finds its row.
LEMMA ArriveStep ==
  ASSUME IInv, NEW r \in Requests, Count(r) \/ Find(r)
  PROVE  IInv'
<1>1. PICK u \in Users, g \in Requests, l \in {"put", "delete", "refused"} :
        /\ pc[r] = "idle" /\ pc' = [pc EXCEPT ![r] = l]
        /\ call' = [call EXCEPT ![r] = [user |-> u, file |-> g]]
        /\ alongside' \in [Requests -> SUBSET Requests]
        /\ UNCHANGED <<account, avatar, bucket, found, shown>>
  <2>1. CASE Count(r)
    <3>1. PICK u \in Users : /\ Called(r, u, r) /\ alongside' = [alongside EXCEPT ![r] = Started(u)]
                            /\ Goto(r, IF Cardinality(LiveOf(u)) >= Limit THEN "refused" ELSE "put")
      BY <2>1 DEF Count
    <3>2. Started(u) \in SUBSET Requests
      BY DEF Started
    <3>3. alongside' \in [Requests -> SUBSET Requests]
      BY <3>1, <3>2 DEF IInv, TypeOK
    <3>4. (IF Cardinality(LiveOf(u)) >= Limit THEN "refused" ELSE "put") \in {"put", "delete", "refused"}
      OBVIOUS
    <3> QED BY <2>1, <3>1, <3>3, <3>4 DEF Count, Called, Goto
  <2>2. CASE Find(r)
    BY <2>2 DEF Find, Called, Goto, IInv, TypeOK
  <2> QED BY <2>1, <2>2
<1>2. TypeOK'
  BY <1>1 DEF IInv, TypeOK
<1>3. LinksAreGood'
  BY <1>1 DEF IInv, TypeOK, LinksAreGood, Upload
<1>4. UnlinkedFilesExplained'
  BY <1>1 DEF IInv, TypeOK, UnlinkedFilesExplained, Upload
<1>5. \A f \in Requests : Upload(f)'
  BY <1>1 DEF IInv, TypeOK, Upload
<1>6. avatar' = [f \in Requests |-> avatar'[f]] /\ call' = [q \in Requests |-> call'[q]]
  BY <1>1 DEF IInv
<1> QED BY <1>2, <1>3, <1>4, <1>5, <1>6 DEF IInv

\* The PUT, and what becomes of its failure.
LEMMA PutSteps ==
  ASSUME IInv, NEW r \in Requests, Put(r) \/ PutFailure(r)
  PROVE  IInv'
<1>1. /\ pc[r] = "put"
      /\ \/ pc' = [pc EXCEPT ![r] = "save"] /\ bucket' = bucket \cup {r}
         \/ pc' = [pc EXCEPT ![r] = "failed"] /\ bucket' \in {bucket, bucket \cup {r}}
      /\ UNCHANGED <<account, avatar, call, alongside, found, shown>>
  BY DEF Put, PutFailure, Goto
<1>2. TypeOK'
  BY <1>1 DEF IInv, TypeOK
<1>3. LinksAreGood'
  BY <1>1 DEF IInv, TypeOK, LinksAreGood, Upload
<1>4. UnlinkedFilesExplained'
  <2> SUFFICES ASSUME NEW f \in bucket', avatar'[f] = None
               PROVE  pc'[f] \in {"save", "failed"} \/ call'[f].user \notin account'
    BY DEF UnlinkedFilesExplained
  <2>1. CASE f = r
    BY <1>1, <2>1 DEF IInv, TypeOK
  <2>2. CASE f # r
    <3>1. f \in bucket /\ avatar[f] = None /\ pc'[f] = pc[f]
      BY <1>1, <2>2 DEF IInv, TypeOK
    <3> QED BY <1>1, <3>1 DEF IInv, UnlinkedFilesExplained
  <2> QED BY <2>1, <2>2
<1>5. \A f \in Requests : Upload(f)'
  BY <1>1 DEF IInv, TypeOK, Upload
<1>6. avatar' = [f \in Requests |-> avatar'[f]] /\ call' = [q \in Requests |-> call'[q]]
  BY <1>1 DEF IInv
<1> QED BY <1>2, <1>3, <1>4, <1>5, <1>6 DEF IInv

\* The row names a file that is there.
LEMMA SaveStep ==
  ASSUME IInv, NEW r \in Requests, Save(r)
  PROVE  IInv'
<1>1. /\ pc[r] = "save" /\ call[r].user \in account /\ pc' = [pc EXCEPT ![r] = "done"]
      /\ avatar' = [avatar EXCEPT ![r] = [owner |-> call[r].user, deleted |-> FALSE]]
      /\ UNCHANGED <<account, bucket, call, alongside, found, shown>>
  BY DEF Save, Goto
<1>2. TypeOK'
  BY <1>1 DEF IInv, TypeOK
<1>3. LinksAreGood'
  BY <1>1 DEF IInv, TypeOK, LinksAreGood, Upload
<1>4. UnlinkedFilesExplained'
  <2> SUFFICES ASSUME NEW f \in bucket', avatar'[f] = None
               PROVE  pc'[f] \in {"save", "failed"} \/ call'[f].user \notin account'
    BY DEF UnlinkedFilesExplained
  <2>1. [owner |-> call[r].user, deleted |-> FALSE] \in [owner : Users, deleted : BOOLEAN]
    BY <1>1 DEF IInv, TypeOK
  <2>2. f # r
    BY <1>1, <2>1 DEF IInv
  <2> QED BY <1>1, <2>2 DEF IInv, TypeOK, UnlinkedFilesExplained
<1>5. \A f \in Requests : Upload(f)'
  BY <1>1 DEF IInv, TypeOK, Upload
<1>6. avatar' = [f \in Requests |-> avatar'[f]] /\ call' = [q \in Requests |-> call'[q]]
  BY <1>1 DEF IInv
<1> QED BY <1>2, <1>3, <1>4, <1>5, <1>6 DEF IInv

\* A soft deletion leaves the row's link alone.
LEMMA DeleteStep ==
  ASSUME IInv, NEW r \in Requests, Delete(r)
  PROVE  IInv'
<1>1. /\ pc[r] = "delete"
      /\ \/ /\ avatar[call[r].file] # None /\ pc' = [pc EXCEPT ![r] = "done"]
            /\ avatar' = [avatar EXCEPT ![call[r].file].deleted = TRUE]
         \/ pc' = [pc EXCEPT ![r] = "refused"] /\ UNCHANGED avatar
      /\ UNCHANGED <<account, bucket, call, alongside, found, shown>>
  BY DEF Delete, Goto
<1>2. ASSUME NEW f \in Requests
      PROVE  \/ avatar'[f] = avatar[f]
             \/ /\ avatar[f] # None /\ avatar'[f] # None
                /\ avatar[f] \in [owner : account, deleted : BOOLEAN]
                /\ avatar'[f] = [owner |-> avatar[f].owner, deleted |-> TRUE]
  <2>1. CASE avatar'[f] # avatar[f]
    <3>1. /\ f = call[r].file /\ avatar[f] # None
          /\ avatar' = [avatar EXCEPT ![f].deleted = TRUE]
      BY <1>1, <2>1 DEF IInv
    <3>2. avatar[f] \in [owner : account, deleted : BOOLEAN] /\ account \subseteq Users
      BY <3>1 DEF IInv, TypeOK
    <3>3. avatar'[f] = [avatar[f] EXCEPT !.deleted = TRUE]
      BY <3>1 DEF IInv
    <3>4. avatar'[f] = [owner |-> avatar[f].owner, deleted |-> TRUE]
      BY <3>2, <3>3
    <3>5. avatar'[f] \in [owner : Users, deleted : BOOLEAN]
      BY <3>2, <3>4
    <3> QED BY <3>1, <3>2, <3>4, <3>5
  <2> QED BY <2>1
<1>3. avatar' = [f \in Requests |-> avatar'[f]] /\ call' = [q \in Requests |-> call'[q]]
  BY <1>1 DEF IInv
<1>4. pc' \in [Requests -> {"idle", "put", "save", "delete", "group"} \cup Ended]
  BY <1>1 DEF IInv, TypeOK
<1>5. TypeOK'
  <2>1. \A f \in Requests : avatar'[f] # None => avatar'[f] \in [owner : account, deleted : BOOLEAN]
    <3> SUFFICES ASSUME NEW f \in Requests, avatar'[f] # None
                 PROVE  avatar'[f] \in [owner : account, deleted : BOOLEAN]
      OBVIOUS
    <3>1. CASE avatar'[f] = avatar[f]
      BY <3>1 DEF IInv, TypeOK
    <3>2. CASE /\ avatar[f] \in [owner : account, deleted : BOOLEAN]
               /\ avatar'[f] = [owner |-> avatar[f].owner, deleted |-> TRUE]
      BY <3>2
    <3> QED BY <1>2, <3>1, <3>2
  <2> QED BY <1>1, <1>4, <2>1 DEF IInv, TypeOK
<1>6. LinksAreGood'
  BY <1>1, <1>2 DEF IInv, LinksAreGood
<1>7. UnlinkedFilesExplained'
  <2> SUFFICES ASSUME NEW f \in bucket', avatar'[f] = None
               PROVE  pc'[f] \in {"save", "failed"} \/ call'[f].user \notin account'
    BY DEF UnlinkedFilesExplained
  <2>1. f \in Requests /\ avatar[f] = None
    BY <1>1, <1>2 DEF IInv, TypeOK
  <2>2. f # r
    BY <1>1, <2>1 DEF IInv, Upload
  <2> QED BY <1>1, <2>1, <2>2 DEF IInv, TypeOK, UnlinkedFilesExplained
<1>8. ASSUME NEW f \in Requests PROVE Upload(f)'
  <2>1. avatar'[f] # None => avatar[f] # None /\ avatar'[f].owner = avatar[f].owner
    <3>1. CASE avatar'[f] = avatar[f]
      BY <3>1
    <3>2. CASE avatar[f] # None /\ avatar'[f] = [owner |-> avatar[f].owner, deleted |-> TRUE]
      BY <3>2
    <3> QED BY <1>2, <3>1, <3>2
  <2>2. pc'[f] = pc[f] \/ (pc[f] = "delete" /\ pc'[f] \in {"done", "refused"})
    BY <1>1 DEF IInv, TypeOK
  <2> QED BY <1>1, <2>1, <2>2 DEF IInv, Upload
<1> QED BY <1>3, <1>5, <1>6, <1>7, <1>8 DEF IInv

\* The list of active users links what live rows link.
LEMMA ListSteps ==
  ASSUME IInv, NEW r \in Requests, FindActive(r) \/ Group(r)
  PROVE  IInv'
<1>1. /\ \/ pc[r] = "idle" /\ pc' = [pc EXCEPT ![r] = "group"]
         \/ pc[r] = "group" /\ (pc' = [pc EXCEPT ![r] = "done"] \/ pc' = [pc EXCEPT ![r] = "failed"])
      /\ UNCHANGED <<account, avatar, bucket, call, alongside>>
  BY DEF FindActive, Group, Goto
<1>2. /\ found' \in [Requests -> SUBSET Users] /\ shown' \in [Requests -> SUBSET Requests]
      /\ \A q \in Requests : shown'[q] \subseteq bucket
  <2>1. CASE FindActive(r)
    BY <2>1 DEF FindActive, IInv, TypeOK, LinksAreGood
  <2>2. CASE Group(r)
    <3> DEFINE with == {u \in found[r] : LiveOf(u) # {}}
    <3>1. PICK newest \in [with -> Requests] :
            /\ \A u \in with : newest[u] \in LiveOf(u)
            /\ shown' = [shown EXCEPT ![r] = {newest[u] : u \in with}]
      BY <2>2 DEF Group
    <3>2. {newest[u] : u \in with} \subseteq Requests
      BY <3>1
    <3>3. {newest[u] : u \in with} \subseteq bucket
      <4>1. \A f \in Requests : avatar[f] # None => f \in bucket
        BY DEF IInv, LinksAreGood
      <4>2. \A u \in with : newest[u] \in Requests /\ avatar[newest[u]] # None
        BY <3>1 DEF LiveOf, IsLive
      <4> QED BY <4>1, <4>2
    <3> HIDE DEF with
    <3> QED BY <2>2, <3>1, <3>2, <3>3 DEF Group, IInv, TypeOK, LinksAreGood
  <2> QED BY <2>1, <2>2
<1>3. TypeOK' /\ LinksAreGood'
  BY <1>1, <1>2 DEF IInv, TypeOK, LinksAreGood
<1>4. UnlinkedFilesExplained'
  BY <1>1 DEF IInv, TypeOK, UnlinkedFilesExplained, Upload
<1>5. \A f \in Requests : Upload(f)'
  BY <1>1 DEF IInv, TypeOK, Upload
<1>6. avatar' = [f \in Requests |-> avatar'[f]] /\ call' = [q \in Requests |-> call'[q]]
  BY <1>1 DEF IInv
<1> QED BY <1>3, <1>4, <1>5, <1>6 DEF IInv

\* The rows of a deleted account go, its files stay.
LEMMA CascadeStep ==
  ASSUME IInv, NEW u \in Users, DeleteAccount(u)
  PROVE  IInv'
<1>1. /\ u \in account /\ account' = account \ {u}
      /\ avatar' = [f \in Requests |-> IF avatar[f] # None /\ avatar[f].owner = u THEN None
                                       ELSE avatar[f]]
      /\ UNCHANGED <<bucket, pc, call, alongside, found, shown>>
  BY DEF DeleteAccount
<1>2. TypeOK'
  BY <1>1 DEF IInv, TypeOK
<1>3. LinksAreGood'
  BY <1>1 DEF IInv, TypeOK, LinksAreGood, Upload
<1>4. UnlinkedFilesExplained'
  BY <1>1 DEF IInv, TypeOK, UnlinkedFilesExplained, Upload
<1>5. \A f \in Requests : Upload(f)'
  BY <1>1 DEF IInv, TypeOK, Upload
<1>6. avatar' = [f \in Requests |-> avatar'[f]] /\ call' = [q \in Requests |-> call'[q]]
  BY <1>1 DEF IInv
<1> QED BY <1>2, <1>3, <1>4, <1>5, <1>6 DEF IInv

\* A failure before the row leaves the file.
LEMMA FailureStep ==
  ASSUME IInv, NEW r \in Requests, Failure(r)
  PROVE  IInv'
<1>1. /\ pc[r] \in {"save", "delete", "group"} /\ pc' = [pc EXCEPT ![r] = "failed"]
      /\ UNCHANGED <<account, avatar, bucket, call, alongside, found, shown>>
  BY DEF Failure, Goto
<1>2. TypeOK'
  BY <1>1 DEF IInv, TypeOK
<1>3. LinksAreGood'
  BY <1>1 DEF IInv, TypeOK, LinksAreGood, Upload
<1>4. UnlinkedFilesExplained'
  BY <1>1 DEF IInv, TypeOK, UnlinkedFilesExplained, Upload
<1>5. \A f \in Requests : Upload(f)'
  BY <1>1 DEF IInv, TypeOK, Upload
<1>6. avatar' = [f \in Requests |-> avatar'[f]] /\ call' = [q \in Requests |-> call'[q]]
  BY <1>1 DEF IInv
<1> QED BY <1>2, <1>3, <1>4, <1>5, <1>6 DEF IInv

\* Rows and bucket stay in step whatever fails between the two.
THEOREM AvatarsInvariance == Spec => []IInv
<1>1. IInv /\ [Next]_vars => IInv'
  <2> SUFFICES ASSUME IInv, [Next]_vars PROVE IInv' OBVIOUS
  <2>1. CASE UNCHANGED vars
    BY <2>1 DEF IInv, TypeOK, LinksAreGood, UnlinkedFilesExplained, Upload, vars
  <2>2. CASE Next
    BY <2>2, ArriveStep, PutSteps, SaveStep, DeleteStep, ListSteps, CascadeStep, FailureStep
       DEF Next
  <2> QED BY <2>1, <2>2
<1> QED BY InitEstablishes, <1>1, PTL DEF Spec

\* Every variable keeps its type, and every row has its account.
THEOREM AvatarsTypeCorrect == Spec => []TypeOK
  BY AvatarsInvariance, PTL DEF IInv

\* No row and no answer links a file that is not in the bucket.
THEOREM LinksStayGood == Spec => []LinksAreGood
  BY AvatarsInvariance, PTL DEF IInv

\* A file without a row is that of an unfinished or failed upload, or its account
\* is gone.
THEOREM FilesAreExplained == Spec => []UnlinkedFilesExplained
  BY AvatarsInvariance, PTL DEF IInv

-----------------------------------------------------------------------------
(* The limit.                                                                *)

\* The uploads of a user that are live or may still be. Of any of them, one met all
\* the others but Limit when it checked: the last to check.
Reach(u) == LiveOf(u) \cup Started(u)

Crowded(u) ==
    \A S \in SUBSET Reach(u) : S # {} =>
        \E f \in S : Cardinality(S \ alongside[f]) <= Limit

LEMMA RequestsFinite ==
  ASSUME NEW S \in SUBSET Requests
  PROVE  IsFiniteSet(S) /\ Cardinality(S) \in Nat
BY FS_Subset, FS_CardinalityType

LEMMA OneMore ==
  ASSUME NEW S, IsFiniteSet(S), NEW x
  PROVE  IsFiniteSet(S \cup {x}) /\ Cardinality(S \cup {x}) <= Cardinality(S) + 1
<1>1. Cardinality(S) \in Nat
  BY FS_CardinalityType
<1>2. /\ IsFiniteSet(S \cup {x})
      /\ Cardinality(S \cup {x}) = IF x \in S THEN Cardinality(S) ELSE Cardinality(S) + 1
  BY FS_AddElement
<1> QED BY <1>1, <1>2

\* Nothing but a check adds to what a user may still have.
LEMMA ReachShrinks ==
  ASSUME IInv, [Next]_vars, \A r \in Requests : ~Count(r), NEW u \in Users
  PROVE  Reach(u)' \subseteq Reach(u) /\ alongside' = alongside
<1> USE DEF Reach, LiveOf, IsLive, Started, IInv, TypeOK
<1>1. CASE UNCHANGED vars
  BY <1>1 DEF vars
<1>2. ASSUME NEW r \in Requests, Put(r) \/ PutFailure(r) \/ FindActive(r) \/ Group(r) \/ Failure(r)
      PROVE  Reach(u)' \subseteq Reach(u) /\ alongside' = alongside
  BY <1>2 DEF Put, PutFailure, FindActive, Group, Failure, Goto
<1>3. ASSUME NEW r \in Requests, Save(r)
      PROVE  Reach(u)' \subseteq Reach(u) /\ alongside' = alongside
  BY <1>3 DEF Save, Goto
<1>4. ASSUME NEW r \in Requests, Find(r)
      PROVE  Reach(u)' \subseteq Reach(u) /\ alongside' = alongside
  BY <1>4 DEF Find, Goto, Called
<1>5. ASSUME NEW r \in Requests, Delete(r)
      PROVE  Reach(u)' \subseteq Reach(u) /\ alongside' = alongside
  BY <1>5 DEF Delete, Goto
<1>6. ASSUME NEW v \in Users, DeleteAccount(v)
      PROVE  Reach(u)' \subseteq Reach(u) /\ alongside' = alongside
  BY <1>6 DEF DeleteAccount
<1> QED BY <1>1, <1>2, <1>3, <1>4, <1>5, <1>6 DEF Next

\* An upload that checks meets all of the user's but the live ones, of which there
\* are less than Limit.
LEMMA CountCrowds ==
  ASSUME IInv, NEW r \in Requests, Count(r), NEW u \in Users, Crowded(u)
  PROVE  Crowded(u)'
<1>1. PICK v \in Users :
        /\ pc[r] = "idle" /\ call' = [call EXCEPT ![r] = [user |-> v, file |-> r]]
        /\ alongside' = [alongside EXCEPT ![r] = Started(v)]
        /\ pc' = [pc EXCEPT ![r] = IF Cardinality(LiveOf(v)) >= Limit THEN "refused" ELSE "put"]
        /\ UNCHANGED <<account, avatar, bucket, found, shown>>
  BY DEF Count, Called, Goto
<1>2. /\ r \notin Reach(u) /\ LiveOf(u)' = LiveOf(u) /\ LiveOf(u) \in SUBSET Requests
      /\ Reach(u) \in SUBSET Requests
  BY <1>1 DEF IInv, Upload, Reach, LiveOf, IsLive, Started
<1>3. Reach(u)' \subseteq Reach(u) \cup {r}
  BY <1>1, <1>2 DEF IInv, TypeOK, Reach, Started
<1>4. r \in Reach(u)' => v = u /\ Cardinality(LiveOf(u)) < Limit
  <2>1. r \in Reach(u)' => r \in Started(u)'
    BY <1>2 DEF Reach
  <2>2. r \in Started(u)' => v = u /\ pc'[r] # "refused"
    BY <1>1 DEF Started, IInv, TypeOK
  <2>3. Cardinality(LiveOf(u)) \in Nat
    BY <1>2, RequestsFinite
  <2> QED BY <1>1, <2>1, <2>2, <2>3 DEF IInv, TypeOK
<1> SUFFICES ASSUME NEW S \in SUBSET (Reach(u)'), S # {}
             PROVE  \E f \in S : Cardinality(S \ alongside'[f]) <= Limit
  BY DEF Crowded
<1>5. CASE r \notin S
  <2>1. PICK f \in S : Cardinality(S \ alongside[f]) <= Limit
    BY <1>3, <1>5 DEF Crowded
  <2>2. alongside'[f] = alongside[f]
    BY <1>1, <1>5, <2>1 DEF IInv, TypeOK
  <2> QED BY <2>1, <2>2
<1>6. CASE r \in S
  <2>1. v = u /\ Cardinality(LiveOf(u)) < Limit
    BY <1>4, <1>6
  <2>2. alongside'[r] = Started(u)
    BY <1>1, <2>1 DEF IInv, TypeOK
  <2>3. S \ alongside'[r] \subseteq LiveOf(u) \cup {r}
    BY <1>3, <2>2 DEF Reach
  <2>4. IsFiniteSet(LiveOf(u)) /\ Cardinality(LiveOf(u)) \in Nat
    BY <1>2, RequestsFinite
  <2>5. /\ IsFiniteSet(LiveOf(u) \cup {r})
        /\ Cardinality(LiveOf(u) \cup {r}) <= Cardinality(LiveOf(u)) + 1
    BY <2>4, OneMore
  <2>6. /\ Cardinality(S \ alongside'[r]) <= Cardinality(LiveOf(u) \cup {r})
        /\ Cardinality(S \ alongside'[r]) \in Nat /\ Cardinality(LiveOf(u) \cup {r}) \in Nat
    BY <2>3, <2>5, FS_Subset, FS_CardinalityType
  <2>7. Cardinality(S \ alongside'[r]) <= Limit
    BY <2>1, <2>4, <2>5, <2>6
  <2> QED BY <1>6, <2>7
<1> QED BY <1>5, <1>6

\* Whoever is over the limit got there by uploads that were under way together.
THEOREM OverTheLimitTogether == Spec => []OverLimitOnlyTogether
<1> DEFINE AllCrowded == \A u \in Users : Crowded(u)
<1>1. Init => AllCrowded
  <2> SUFFICES ASSUME Init, NEW u \in Users PROVE Crowded(u)
    OBVIOUS
  <2>1. Reach(u) = {}
    BY DEF Init, Reach, LiveOf, IsLive, Started
  <2> QED BY <2>1 DEF Crowded
<1>2. IInv /\ AllCrowded /\ [Next]_vars => AllCrowded'
  <2> SUFFICES ASSUME IInv, AllCrowded, [Next]_vars, NEW u \in Users PROVE Crowded(u)'
    OBVIOUS
  <2>1. CASE \E r \in Requests : Count(r)
    BY <2>1, CountCrowds
  <2>2. CASE \A r \in Requests : ~Count(r)
    BY <2>2, ReachShrinks DEF Crowded
  <2> QED BY <2>1, <2>2
<1>3. AllCrowded => OverLimitOnlyTogether
  <2> SUFFICES ASSUME AllCrowded, NEW u \in Users, Cardinality(LiveOf(u)) > Limit
               PROVE  \E f \in LiveOf(u) :
                        Cardinality(LiveOf(u) \cap alongside[f]) >= Cardinality(LiveOf(u)) - Limit
    BY DEF OverLimitOnlyTogether
  <2> DEFINE live == LiveOf(u)
  <2>1. live \in SUBSET Requests /\ live \in SUBSET Reach(u)
    BY DEF LiveOf, Reach
  <2>2. IsFiniteSet(live) /\ Cardinality(live) \in Nat
    BY <2>1, RequestsFinite
  <2>3. live # {}
    BY FS_EmptySet
  <2>4. PICK f \in live : Cardinality(live \ alongside[f]) <= Limit
    BY <2>1, <2>3 DEF Crowded
  <2> HIDE DEF live
  <2>5. Cardinality(live \ alongside[f]) = Cardinality(live) - Cardinality(live \cap alongside[f])
    BY <2>2, FS_Difference
  <2>6. Cardinality(live \ alongside[f]) \in Nat /\ Cardinality(live \cap alongside[f]) \in Nat
    BY <2>1, RequestsFinite
  <2>7. Cardinality(live \cap alongside[f]) >= Cardinality(live) - Limit
    BY <2>2, <2>4, <2>5, <2>6
  <2> QED BY <2>7 DEF live
<1> QED BY <1>1, <1>2, <1>3, AvatarsInvariance, PTL DEF Spec
=============================================================================
