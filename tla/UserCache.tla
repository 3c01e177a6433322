------------------------------ MODULE UserCache -------------------------------
(***************************************************************************)
(* The two Redis keys that hold an account's row, users:<id> and users:all, *)
(* read through by findUserById and getAllExistingUsers for 30 seconds and  *)
(* deleted by some of the operations that write the row, most of them       *)
(* before they write it.                                                    *)
(***************************************************************************)
EXTENDS Integers, Sequences

CONSTANTS
    Requests,   \* HTTP calls; each may become any operation
    TTL,        \* seconds of the model an entry lives (30 s)
    Delay,      \* the longest a request is under way, in the same seconds
    None        \* no entry, no call

AwaitNames == {"lookup", "select", "fill", "drop user", "drop all", "find", "write", "insert",
               "clear user", "clear all"}

\* The awaits of each operation that touch the keys or the row, in order.
Awaits ==
    [me       |-> <<"lookup", "select", "fill">>,
     list     |-> <<"lookup", "select", "fill">>,
     update   |-> <<"drop user", "drop all", "find", "write">>,
     delete   |-> <<"drop user", "drop all", "find", "write">>,
     hard     |-> <<"drop user", "find", "write">>,
     recover  |-> <<"drop all", "find", "write">>,
     recreate |-> <<"drop all", "find", "write", "insert">>,
     admin    |-> <<"find", "write">>,
     money    |-> <<"write">>,      \* increaseBalance, decreaseBalance, the reset
     signup   |-> <<"insert">>,
     transfer |-> <<"write", "clear user", "clear all">>]   \* of its sender

ASSUME UserCacheAssumption ==
    /\ TTL \in Nat \ {0} /\ Delay \in Nat
    /\ None \notin Nat /\ None \notin Seq(AwaitNames)
    /\ None \notin [version : Nat, by : Requests, left : Nat]
    /\ None \notin [op : DOMAIN Awaits, age : Nat, began : Nat, selected : Nat \cup {None}]

Keys == {"user", "all"}

VARIABLES
    versions,   \* the states the account's row went through, the present one last
    age,        \* age[v]: seconds since version v was replaced, at most Stale
    cache,      \* cache[k]: the version Redis holds, its filler and its seconds left
    call,       \* call[r]: operation, age, version it began at, version it selected
    todo,       \* todo[r]: the awaits left, None before the call
    served,     \* served[r]: the version a read answered with
    cleared,    \* cleared[k]: the newest version a transfer has deleted the key for
    late        \* late[k]: readers that held an older version at that moment

vars == <<versions, age, cache, call, todo, served, cleared, late>>

Newest == Len(versions)
Stale  == TTL + Delay

\* The DEL of a key before the write, and after a transfer's.
DropOf  == [user |-> "drop user", all |-> "drop all"]
ClearOf == [user |-> "clear user", all |-> "clear all"]

KeyOf(op) == IF op = "list" THEN "all" ELSE "user"

\* The states of the account in which the operation goes on.
Wanted(op) == CASE op \in {"update", "delete", "admin"} -> {"live"}
                [] op = "hard"                          -> {"live", "deleted"}
                [] op \in {"recover", "recreate"}       -> {"deleted"}

\* The state its UPDATE or DELETE leaves the row in.
After(op) == CASE op = "delete"               -> "deleted"
               [] op = "recover"              -> "live"
               [] op \in {"hard", "recreate"} -> "gone"
               [] OTHER                       -> versions[Newest]

Init ==
    /\ versions \in {<<"live">>, <<"deleted">>} /\ age = <<0>>
    /\ cache = [k \in Keys |-> None] /\ cleared = [k \in Keys |-> 1]
    /\ late = [k \in Keys |-> {}]
    /\ call = [r \in Requests |-> None] /\ todo = [r \in Requests |-> None]
    /\ served = [r \in Requests |-> None]

-----------------------------------------------------------------------------

Arrive(r) ==
    /\ todo[r] = None
    /\ \E op \in DOMAIN Awaits :
          /\ todo' = [todo EXCEPT ![r] = Awaits[op]]
          /\ call' = [call EXCEPT ![r] =
                        [op |-> op, age |-> 0, began |-> Newest, selected |-> None]]
    /\ UNCHANGED <<versions, age, cache, served, cleared, late>>

At(r, await) == todo[r] # None /\ todo[r] # <<>> /\ Head(todo[r]) = await

\* The request goes on; its locals end with it.
Proceed(r, rest) ==
    /\ todo' = [todo EXCEPT ![r] = rest]
    /\ call' = IF rest = <<>> THEN [call EXCEPT ![r] = None] ELSE call

Key(r) == KeyOf(call[r].op)

\* Mutant: a cached null is answered.
HitEvenNull(r) ==
    LET entry == cache[Key(r)] IN
    /\ At(r, "lookup") /\ entry # None
    /\ Proceed(r, <<>>) /\ served' = [served EXCEPT ![r] = entry.version]
    /\ UNCHANGED <<versions, age, cache, cleared, late>>

\* JSON null is falsy, an empty list is not.
Answers(k, entry) == entry # None /\ (k = "user" => versions[entry.version] = "live")

Hit(r) ==
    LET entry == cache[Key(r)] IN
    /\ At(r, "lookup") /\ Answers(Key(r), entry)
    /\ Proceed(r, <<>>) /\ served' = [served EXCEPT ![r] = entry.version]
    /\ UNCHANGED <<versions, age, cache, cleared, late>>

Miss(r) ==
    /\ At(r, "lookup") /\ ~Answers(Key(r), cache[Key(r)])
    /\ Proceed(r, Tail(todo[r]))
    /\ UNCHANGED <<versions, age, cache, served, cleared, late>>

Select(r) ==
    /\ At(r, "select")
    /\ todo' = [todo EXCEPT ![r] = Tail(todo[r])]
    /\ call' = [call EXCEPT ![r].selected = Newest]
    /\ UNCHANGED <<versions, age, cache, served, cleared, late>>

\* Mutant: minutes instead of seconds.
FillForLong(r) ==
    /\ At(r, "fill") /\ Proceed(r, <<>>)
    /\ cache' = [cache EXCEPT ![Key(r)] =
                   [version |-> call[r].selected, by |-> r, left |-> 60 * TTL]]
    /\ served' = [served EXCEPT ![r] = call[r].selected]
    /\ UNCHANGED <<versions, age, cleared, late>>

\* SET key EX 30, whatever the key holds by now.
Fill(r) ==
    /\ At(r, "fill") /\ Proceed(r, <<>>)
    /\ cache' = [cache EXCEPT ![Key(r)] =
                   [version |-> call[r].selected, by |-> r, left |-> TTL]]
    /\ served' = [served EXCEPT ![r] = call[r].selected]
    /\ UNCHANGED <<versions, age, cleared, late>>

-----------------------------------------------------------------------------

\* DEL before the write.
Drop(r, k) ==
    /\ At(r, DropOf[k]) /\ Proceed(r, Tail(todo[r]))
    /\ cache' = [cache EXCEPT ![k] = None]
    /\ UNCHANGED <<versions, age, served, cleared, late>>

\* The readers about to store a version older than v in k.
Holding(k, v) == {s \in Requests : At(s, "fill") /\ Key(s) = k /\ call[s].selected < v}

\* Mutant: the transfer does not delete users:all.
ClearUserOnly(r, k) ==
    /\ At(r, ClearOf[k]) /\ Proceed(r, Tail(todo[r]))
    /\ cache' = [cache EXCEPT !["user"] = None]
    /\ cleared' = [cleared EXCEPT ![k] = call[r].selected]
    /\ late' = [late EXCEPT ![k] = Holding(k, call[r].selected)]
    /\ UNCHANGED <<versions, age, served>>

\* DEL after the commit.
Clear(r, k) ==
    /\ At(r, ClearOf[k]) /\ Proceed(r, Tail(todo[r]))
    /\ cache' = [cache EXCEPT ![k] = None]
    /\ cleared' = [cleared EXCEPT ![k] = IF @ < call[r].selected THEN call[r].selected ELSE @]
    /\ late' = [late EXCEPT ![k] = @ \cup Holding(k, call[r].selected)]
    /\ UNCHANGED <<versions, age, served>>

Find(r) ==
    /\ At(r, "find")
    /\ Proceed(r, IF versions[Newest] \in Wanted(call[r].op) THEN Tail(todo[r]) ELSE <<>>)
    /\ UNCHANGED <<versions, age, cache, served, cleared, late>>

\* The row, or the table around it, has a new version.
Change(r, status) ==
    /\ versions' = Append(versions, status) /\ age' = Append(age, 0)
    /\ todo' = [todo EXCEPT ![r] = Tail(@)]
    /\ call' = IF Tail(todo[r]) = <<>> THEN [call EXCEPT ![r] = None]
               ELSE [call EXCEPT ![r].selected = Newest + 1]
    /\ UNCHANGED <<cache, served, cleared, late>>

Write(r) == At(r, "write") /\ versions[Newest] # "gone" /\ Change(r, After(call[r].op))

\* affected is 0.
WriteNothing(r) ==
    /\ At(r, "write") /\ versions[Newest] = "gone" /\ Proceed(r, <<>>)
    /\ UNCHANGED <<versions, age, cache, served, cleared, late>>

\* A new account: the list changes, this account does not.
Insert(r) == At(r, "insert") /\ Change(r, versions[Newest])

\* The three DELs of a transfer are sent together: one may fail and the others
\* still be carried out.
ClearFails(r, k) ==
    /\ At(r, ClearOf[k]) /\ Proceed(r, Tail(todo[r]))
    /\ UNCHANGED <<versions, age, cache, served, cleared, late>>

\* An await is rejected, the process dies, or a check of another module refuses.
Failure(r) ==
    /\ todo[r] \notin {None, <<>>} /\ Proceed(r, <<>>)
    /\ UNCHANGED <<versions, age, cache, served, cleared, late>>

\* A second passes; Redis forgets what has none left.
Tick ==
    /\ \A r \in Requests : call[r] # None => call[r].age < Delay
    /\ call' = [r \in Requests |-> IF call[r] = None THEN None
                                   ELSE [call[r] EXCEPT !.age = @ + 1]]
    /\ age' = [v \in DOMAIN age |-> IF v = Newest \/ age[v] = Stale THEN age[v] ELSE age[v] + 1]
    /\ cache' = [k \in Keys |-> IF cache[k] = None \/ cache[k].left = 1 THEN None
                                ELSE [cache[k] EXCEPT !.left = @ - 1]]
    /\ UNCHANGED <<versions, todo, served, cleared, late>>

Next ==
    \/ \E r \in Requests :
          \/ Arrive(r) \/ Hit(r) \/ Miss(r) \/ Select(r) \/ Fill(r)
          \/ Find(r) \/ Write(r) \/ WriteNothing(r) \/ Insert(r) \/ Failure(r)
          \/ \E k \in Keys : Drop(r, k) \/ Clear(r, k) \/ ClearFails(r, k)
    \/ Tick

Spec == Init /\ [][Next]_vars

-----------------------------------------------------------------------------
(* Properties                                                                *)

TypeOK ==
    /\ versions \in Seq({"live", "deleted", "gone"}) /\ Newest > 0
    /\ age \in [1..Newest -> 0..Stale]
    /\ \A k \in Keys : \/ cache[k] = None
                       \/ cache[k] \in [version : 1..Newest, by : Requests, left : 1..TTL]
    /\ cleared \in [Keys -> 1..Newest] /\ late \in [Keys -> SUBSET Requests]
    /\ \A r \in Requests :
          /\ call[r] # None <=> todo[r] \notin {None, <<>>}
          /\ call[r] # None => call[r] \in [op : DOMAIN Awaits, age : 0..Delay, began : 1..Newest,
                                            selected : 1..Newest \cup {None}]
          /\ served[r] \in 1..Newest \cup {None}

Serves(r) == served'[r] # served[r]

\* Whatever writes, readers and refills interleave, an answer is the row as it was
\* less than the entry's lifetime plus one request ago, if not as it is.
FreshAnswers ==
    [][\A r \in Requests : Serves(r) => served'[r] = Newest \/ age[served'[r]] < Stale]_vars

\* GET /users/me answers 'no such user' only if that was so during the request:
\* a null is stored in Redis but never answered from there.
NobodyIsMissing ==
    [][\A r \in Requests :
          Serves(r) /\ Key(r) = "user" /\ versions[served'[r]] # "live" =>
             served'[r] >= call[r].began]_vars

\* Once a transfer has deleted a key, the key holds a row from before that
\* transfer only if a reader that had selected it by then stored it after.
OnlyLateReadersUndoATransfer ==
    \A k \in Keys : cache[k] # None /\ cache[k].version < cleared[k] => cache[k].by \in late[k]
=============================================================================
