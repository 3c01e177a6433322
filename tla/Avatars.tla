------------------------------- MODULE Avatars --------------------------------
(***************************************************************************)
(* Uploads and deletions of avatars: a limit that is checked before the    *)
(* upload is awaited, a file in S3 that comes before its row in            *)
(* avatar_entity, and rows that go with their account; and the list of     *)
(* active users with their avatars, which takes two queries. An upload's   *)
(* file has a random name, so it is named by its request.                  *)
(***************************************************************************)
EXTENDS Integers, FiniteSets

CONSTANTS
    Users, Requests,
    Limit,      \* avatars a user may have (5)
    Active,     \* avatars an active user has more of (2)
    None        \* no row, no call

ASSUME AvatarsAssumption ==
    /\ Limit \in Nat \ {0} /\ Active \in Nat
    /\ IsFiniteSet(Requests)
    /\ None \notin [owner : Users, deleted : BOOLEAN]

VARIABLES
    account,    \* the users with a row in users_entity, soft-deleted or not
    avatar,     \* avatar[f]: owner of the row that links file f, live or soft-deleted
    bucket,     \* the files in S3
    pc, call,   \* the await each request has reached, its caller and its avatar
    alongside,  \* alongside[f]: uploads of f's owner past their check when f's checked
    found,      \* found[r]: the active users r's first query returned
    shown       \* shown[r]: the avatars r's list has been answered with

lists == <<found, shown>>
vars  == <<account, avatar, bucket, pc, call, alongside, lists>>

Ended == {"done", "refused", "failed"}

Init ==
    /\ account = Users
    /\ avatar = [f \in Requests |-> None] /\ bucket = {}
    /\ pc = [r \in Requests |-> "idle"] /\ call = [r \in Requests |-> None]
    /\ alongside = [f \in Requests |-> {}]
    /\ found = alongside /\ shown = alongside

Goto(r, label) == pc' = [pc EXCEPT ![r] = label]
Called(r, u, f) == call' = [call EXCEPT ![r] = [user |-> u, file |-> f]]

IsLive(f)  == avatar[f] # None /\ ~avatar[f].deleted
LiveOf(u)  == {f \in Requests : IsLive(f) /\ avatar[f].owner = u}
Started(u) == {r \in Requests : pc[r] \in {"put", "save"} /\ call[r].user = u}

-----------------------------------------------------------------------------
(* uploadAvatar                                                              *)

\* Mutant: the limit itself is let through.
CountOneMore(r) ==
    /\ pc[r] = "idle"
    /\ \E u \in Users :
          /\ Called(r, u, r) /\ alongside' = [alongside EXCEPT ![r] = Started(u)]
          /\ Goto(r, IF Cardinality(LiveOf(u)) > Limit THEN "refused" ELSE "put")
    /\ UNCHANGED <<account, avatar, bucket, lists>>

\* The caller is whoever the token names, whatever became of the account.
Count(r) ==
    /\ pc[r] = "idle"
    /\ \E u \in Users :
          /\ Called(r, u, r) /\ alongside' = [alongside EXCEPT ![r] = Started(u)]
          /\ Goto(r, IF Cardinality(LiveOf(u)) >= Limit THEN "refused" ELSE "put")
    /\ UNCHANGED <<account, avatar, bucket, lists>>

Put(r) ==
    /\ pc[r] = "put" /\ Goto(r, "save")
    /\ bucket' = bucket \cup {r}
    /\ UNCHANGED <<account, avatar, call, alongside, lists>>

\* Mutant: the callback resolves whatever S3 said.
PutFailureIgnored(r) ==
    /\ pc[r] = "put"
    /\ Goto(r, "save") /\ UNCHANGED bucket
    /\ UNCHANGED <<account, avatar, call, alongside, lists>>

\* S3 refuses, or its answer is lost when the file is there already.
PutFailure(r) ==
    /\ pc[r] = "put" /\ Goto(r, "failed")
    /\ bucket' \in {bucket, bucket \cup {r}}
    /\ UNCHANGED <<account, avatar, call, alongside, lists>>

\* Mutant: the row has no foreign key to its user.
SaveUnowned(r) ==
    /\ pc[r] = "save" /\ Goto(r, "done")
    /\ avatar' = [avatar EXCEPT ![r] = [owner |-> call[r].user, deleted |-> FALSE]]
    /\ UNCHANGED <<account, bucket, call, alongside, lists>>

Save(r) ==
    /\ pc[r] = "save" /\ call[r].user \in account /\ Goto(r, "done")
    /\ avatar' = [avatar EXCEPT ![r] = [owner |-> call[r].user, deleted |-> FALSE]]
    /\ UNCHANGED <<account, bucket, call, alongside, lists>>

-----------------------------------------------------------------------------
(* deleteAvatar                                                              *)

\* The row has to be there, live and the caller's.
Find(r) ==
    /\ pc[r] = "idle"
    /\ \E u \in Users, f \in Requests :
          /\ Called(r, u, f)
          /\ Goto(r, IF f \in LiveOf(u) THEN "delete" ELSE "refused")
    /\ UNCHANGED <<account, avatar, bucket, alongside, lists>>

\* Mutant: the row is deleted for good.
DeleteForGood(r) ==
    /\ pc[r] = "delete" /\ Goto(r, "done")
    /\ avatar' = [avatar EXCEPT ![call[r].file] = None]
    /\ UNCHANGED <<account, bucket, call, alongside, lists>>

\* softDelete by id: again if somebody did it before; the file stays in S3.
Delete(r) ==
    /\ pc[r] = "delete"
    /\ \/ /\ avatar[call[r].file] # None /\ Goto(r, "done")
          /\ avatar' = [avatar EXCEPT ![call[r].file].deleted = TRUE]
       \/ avatar[call[r].file] = None /\ Goto(r, "refused") /\ UNCHANGED avatar
    /\ UNCHANGED <<account, bucket, call, alongside, lists>>

-----------------------------------------------------------------------------
(* getActiveUsers                                                            *)

\* The live users of an age range that have more than a few live avatars.
FindActive(r) ==
    /\ pc[r] = "idle" /\ Goto(r, "group")
    /\ \E some \in SUBSET {u \in account : Cardinality(LiveOf(u)) > Active} :
          found' = [found EXCEPT ![r] = some]
    /\ UNCHANGED <<account, avatar, bucket, call, alongside, shown>>

\* A live avatar, the newest, of each of them that still has one; if nobody has,
\* or nobody was found, the call fails.
Group(r) ==
    LET with == {u \in found[r] : LiveOf(u) # {}} IN
    /\ pc[r] = "group" /\ Goto(r, IF with = {} THEN "failed" ELSE "done")
    /\ \E newest \in [with -> Requests] :
          /\ \A u \in with : newest[u] \in LiveOf(u)
          /\ shown' = [shown EXCEPT ![r] = {newest[u] : u \in with}]
    /\ UNCHANGED <<account, avatar, bucket, call, alongside, found>>

-----------------------------------------------------------------------------

\* The DELETE of a user, by an admin or recreate-me, cascades to its avatars.
DeleteAccount(u) ==
    /\ u \in account /\ account' = account \ {u}
    /\ avatar' = [f \in Requests |-> IF avatar[f] # None /\ avatar[f].owner = u THEN None
                                     ELSE avatar[f]]
    /\ UNCHANGED <<bucket, pc, call, alongside, lists>>

\* The foreign key objects, a statement is rejected or the process dies.
Failure(r) ==
    /\ pc[r] \in {"save", "delete", "group"} /\ Goto(r, "failed")
    /\ UNCHANGED <<account, avatar, bucket, call, alongside, lists>>

Next ==
    \/ \E r \in Requests :
          \/ Count(r) \/ Put(r) \/ PutFailure(r) \/ Save(r)
          \/ Find(r) \/ Delete(r) \/ FindActive(r) \/ Group(r) \/ Failure(r)
    \/ \E u \in Users : DeleteAccount(u)

Spec == Init /\ [][Next]_vars

-----------------------------------------------------------------------------
(* Properties                                                                *)

TypeOK ==
    /\ account \subseteq Users /\ bucket \subseteq Requests
    /\ \A f \in Requests : avatar[f] # None => avatar[f] \in [owner : account, deleted : BOOLEAN]
    /\ pc \in [Requests -> {"idle", "put", "save", "delete", "group"} \cup Ended]
    /\ \A r \in Requests : call[r] # None => call[r] \in [user : Users, file : Requests]
    /\ alongside \in [Requests -> SUBSET Requests]
    /\ found \in [Requests -> SUBSET Users] /\ shown \in [Requests -> SUBSET Requests]

\* A user is over the limit of 'you have reached maximum avatars count' only by
\* uploads that were under way together: by as many as one of them met.
OverLimitOnlyTogether ==
    \A u \in Users : LET live == LiveOf(u) IN
        Cardinality(live) > Limit =>
            \E f \in live : Cardinality(live \cap alongside[f]) >= Cardinality(live) - Limit

\* No row, soft-deleted ones included, and no list of active users links a file
\* that is not in the bucket, whichever of the two stores failed.
LinksAreGood ==
    /\ \A f \in Requests : avatar[f] # None => f \in bucket
    /\ \A r \in Requests : shown[r] \subseteq bucket

\* A file no row links is that of an upload that has not ended or failed, or its
\* account was deleted: no other path loses one.
UnlinkedFilesExplained ==
    \A f \in bucket : avatar[f] = None => pc[f] \in {"save", "failed"} \/ call[f].user \notin account
=============================================================================
