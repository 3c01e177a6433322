---------------------------- MODULE UserCacheProofs ----------------------------
(***************************************************************************)
(* Proofs about UserCache, for any requests, lifetime and delay: what a    *)
(* reader holds is no older than its call, what Redis holds no older than  *)
(* that and its lifetime, and what a transfer deleted comes back only from *)
(* a reader that was at it then.                                           *)
(***************************************************************************)
EXTENDS UserCache, SequenceTheorems, TLAPS

States == {"live", "deleted", "gone"}

\* What is left to do of a cached read, of a transfer and of any other call.
ReaderRests ==
    LET all == Awaits["me"] IN {all, Tail(all), Tail(Tail(all))}
TransferRests ==
    LET all == Awaits["transfer"] IN {all, Tail(all), Tail(Tail(all))}
OtherAwaits   == {"drop user", "drop all", "find", "write", "insert"}

Rest(op) == IF op \in {"me", "list"} THEN ReaderRests
            ELSE IF op = "transfer" THEN TransferRests
            ELSE Seq(OtherAwaits) \ {<<>>}

Ops == DOMAIN Awaits

CallRecords == [op : Ops, age : 0..Delay, began : 1..Newest, selected : 1..Newest \cup {None}]

\* A reader about to store a row holds one that was selected during its call, and is
\* known to every transfer that has deleted the key since.
HoldsFresh(r) ==
    LET v == call[r].selected IN
    /\ v \in 1..Newest /\ v >= call[r].began /\ age[v] <= call[r].age
    /\ v < cleared[Key(r)] => r \in late[Key(r)]

Clearing(r) == At(r, "clear user") \/ At(r, "clear all")

Known(r) ==
    /\ call[r] = None => todo[r] \in {None, <<>>}
    /\ call[r] # None => call[r] \in CallRecords /\ todo[r] \in Rest(call[r].op)
    /\ At(r, "fill") => HoldsFresh(r)
    /\ Clearing(r) => call[r].selected \in 1..Newest
    /\ served[r] \in 1..Newest \cup {None}

\* An entry was at most a request old when its lifetime began.
Entry(k) ==
    cache[k] # None =>
       /\ cache[k] \in [version : 1..Newest, by : Requests, left : 1..TTL]
       /\ age[cache[k].version] + cache[k].left <= Stale
       /\ cache[k].version < cleared[k] => cache[k].by \in late[k]

Row ==
    /\ versions \in Seq(States) /\ Newest > 0
    /\ age \in [1..Newest -> 0..Stale] /\ age[Newest] = 0
    /\ cleared \in [Keys -> 1..Newest] /\ late \in [Keys -> SUBSET Requests]

IInv ==
    /\ Row
    /\ todo = [r \in Requests |-> todo[r]] /\ call = [r \in Requests |-> call[r]]
    /\ cache = [k \in Keys |-> cache[k]] /\ served = [r \in Requests |-> served[r]]
    /\ \A k \in Keys : Entry(k)
    /\ \A r \in Requests : Known(r)

-----------------------------------------------------------------------------
(* The awaits of an operation.                                               *)

LEMMA OneLeft ==
  ASSUME NEW S, NEW u \in Seq(S), Len(u) = 1
  PROVE  u # <<>> /\ Tail(u) = <<>> /\ Head(u) = u[1]
<1>1. u # <<>> /\ Head(u) = u[1]
  OBVIOUS
<1>2. Tail(u) \in Seq(S) /\ Len(Tail(u)) = 0
  OBVIOUS
<1>3. \A v \in Seq(S) : Len(v) = 0 => v = <<>>
  OBVIOUS
<1>4. Tail(u) = <<>>
  BY <1>2, <1>3, Zenon
<1> QED BY <1>1, <1>4

LEMMA TwoLeft ==
  ASSUME NEW S, NEW t \in Seq(S), Len(t) = 2
  PROVE  /\ t # <<>> /\ Head(t) = t[1]
         /\ Tail(t) \in Seq(S) /\ Tail(t) # <<>> /\ Head(Tail(t)) = t[2] /\ Tail(Tail(t)) = <<>>
<1>1. t # <<>> /\ Head(t) = t[1]
  OBVIOUS
<1>2. Tail(t) \in Seq(S) /\ Len(Tail(t)) = 1
  OBVIOUS
<1>3. Tail(t)[1] = t[2]
  BY <1>1, <1>2
<1>4. Tail(t) # <<>> /\ Tail(Tail(t)) = <<>> /\ Head(Tail(t)) = Tail(t)[1]
  BY <1>2, OneLeft, Zenon
<1> QED BY <1>1, <1>2, <1>3, <1>4, Zenon

LEMMA ThreeLeft ==
  ASSUME NEW S, NEW s \in Seq(S), Len(s) = 3
  PROVE  /\ s # <<>> /\ Head(s) = s[1]
         /\ Tail(s) \in Seq(S) /\ Tail(s) # <<>> /\ Head(Tail(s)) = s[2]
         /\ Tail(Tail(s)) \in Seq(S) /\ Tail(Tail(s)) # <<>> /\ Head(Tail(Tail(s))) = s[3]
         /\ Tail(Tail(Tail(s))) = <<>>
<1>1. s # <<>> /\ Head(s) = s[1]
  OBVIOUS
<1>2. Tail(s) \in Seq(S) /\ Len(Tail(s)) = 2
  OBVIOUS
<1>3. \A i \in 1..Len(Tail(s)) : Tail(s)[i] = s[i + 1]
  BY <1>1, HeadTailProperties
<1>4. Tail(s)[1] = s[2] /\ Tail(s)[2] = s[3]
  BY <1>2, <1>3
<1>5. /\ Tail(s) # <<>> /\ Head(Tail(s)) = Tail(s)[1]
      /\ Tail(Tail(s)) \in Seq(S) /\ Tail(Tail(s)) # <<>>
      /\ Head(Tail(Tail(s))) = Tail(s)[2] /\ Tail(Tail(Tail(s))) = <<>>
  BY <1>2, TwoLeft, Zenon
<1> QED BY <1>1, <1>2, <1>4, <1>5, Zenon

LEMMA ReaderNext ==
  ASSUME NEW s \in ReaderRests
  PROVE  /\ s \in Seq(AwaitNames) /\ s # <<>>
         /\ \/ Head(s) = "lookup" /\ Tail(s) \in ReaderRests /\ Head(Tail(s)) = "select"
            \/ Head(s) = "select" /\ Tail(s) \in ReaderRests /\ Head(Tail(s)) = "fill"
            \/ Head(s) = "fill" /\ Tail(s) = <<>>
<1> DEFINE all == Awaits["me"]
<1>1. /\ all \in Seq(AwaitNames) /\ Len(all) = 3
      /\ all[1] = "lookup" /\ all[2] = "select" /\ all[3] = "fill"
  BY DEF Awaits, AwaitNames
<1> HIDE DEF all
<1>2. ReaderRests = {all, Tail(all), Tail(Tail(all))}
  BY DEF ReaderRests, all
<1> QED BY <1>1, <1>2, ThreeLeft

LEMMA TransferNext ==
  ASSUME NEW s \in TransferRests
  PROVE  /\ s \in Seq(AwaitNames) /\ s # <<>>
         /\ \/ Head(s) = "write" /\ Tail(s) \in TransferRests /\ Head(Tail(s)) = "clear user"
            \/ Head(s) = "clear user" /\ Tail(s) \in TransferRests /\ Head(Tail(s)) = "clear all"
            \/ Head(s) = "clear all" /\ Tail(s) = <<>>
<1> DEFINE all == Awaits["transfer"]
<1>1. /\ all \in Seq(AwaitNames) /\ Len(all) = 3
      /\ all[1] = "write" /\ all[2] = "clear user" /\ all[3] = "clear all"
  BY DEF Awaits, AwaitNames
<1> HIDE DEF all
<1>2. TransferRests = {all, Tail(all), Tail(Tail(all))}
  BY DEF TransferRests, all
<1> QED BY <1>1, <1>2, ThreeLeft

LEMMA OtherNext ==
  ASSUME NEW s \in Seq(OtherAwaits) \ {<<>>}
  PROVE  s \in Seq(AwaitNames) /\ Head(s) \in OtherAwaits /\ Tail(s) \in Seq(OtherAwaits)
<1>1. Head(s) \in OtherAwaits /\ Tail(s) \in Seq(OtherAwaits)
  BY HeadTailProperties
<1>2. OtherAwaits \in SUBSET AwaitNames
  BY DEF OtherAwaits, AwaitNames
<1>3. s \in Seq(AwaitNames)
  BY <1>2
<1> QED BY <1>1, <1>3

LEMMA AwaitsShape ==
  ASSUME NEW op \in Ops
  PROVE  Awaits[op] \in Rest(op) /\ Head(Awaits[op]) \notin {"fill", "clear user", "clear all"}
<1>1. Ops = {"me", "list", "update", "delete", "hard", "recover", "recreate", "admin",
             "money", "signup", "transfer"}
  BY DEF Awaits, Ops
<1>2. Awaits["list"] = Awaits["me"]
  BY DEF Awaits
<1>3. /\ Awaits["update"] \in Seq(OtherAwaits) /\ Awaits["delete"] \in Seq(OtherAwaits)
      /\ Awaits["hard"] \in Seq(OtherAwaits) /\ Awaits["recover"] \in Seq(OtherAwaits)
      /\ Awaits["recreate"] \in Seq(OtherAwaits) /\ Awaits["admin"] \in Seq(OtherAwaits)
      /\ Awaits["money"] \in Seq(OtherAwaits) /\ Awaits["signup"] \in Seq(OtherAwaits)
  BY DEF Awaits, OtherAwaits
<1>4. /\ Awaits["update"] # <<>> /\ Awaits["delete"] # <<>> /\ Awaits["hard"] # <<>>
      /\ Awaits["recover"] # <<>> /\ Awaits["recreate"] # <<>> /\ Awaits["admin"] # <<>>
      /\ Awaits["money"] # <<>> /\ Awaits["signup"] # <<>>
  BY DEF Awaits
<1>5. CASE op \notin {"me", "list", "transfer"}
  <2>1. Awaits[op] \in Seq(OtherAwaits) \ {<<>>}
    BY <1>1, <1>3, <1>4, <1>5
  <2> QED BY <1>5, <2>1, OtherNext DEF Rest, OtherAwaits
<1>6. CASE op \in {"me", "list", "transfer"}
  <2>1. Head(Awaits["me"]) = "lookup" /\ Head(Awaits["transfer"]) = "write"
    BY DEF Awaits
  <2> QED BY <1>2, <1>6, <2>1 DEF Rest, ReaderRests, TransferRests
<1> QED BY <1>5, <1>6

\* What a call under way is at, and who can be at it.
LEMMA Places ==
  ASSUME NEW op \in Ops, NEW s \in Rest(op)
  PROVE  /\ s \in Seq(AwaitNames) /\ s # <<>> /\ s # None
         /\ Tail(s) # <<>> => Tail(s) \in Rest(op)
         /\ Head(s) \in {"lookup", "select", "fill"} <=> op \in {"me", "list"}
         /\ Head(s) = "lookup" => Tail(s) # <<>> /\ Head(Tail(s)) = "select"
         /\ Head(s) = "select" => Tail(s) # <<>> /\ Head(Tail(s)) = "fill"
         /\ Head(s) = "fill" => Tail(s) = <<>>
         /\ Head(s) \in {"clear user", "clear all"} => op = "transfer"
         /\ Tail(s) # <<>> /\ Head(Tail(s)) = "fill" => Head(s) = "select"
         /\ Tail(s) # <<>> /\ Head(Tail(s)) \in {"clear user", "clear all"} =>
               Head(s) \in {"write", "clear user", "clear all"}
<1>1. CASE op \in {"me", "list"}
  <2>1. s \in ReaderRests
    BY <1>1 DEF Rest
  <2> QED BY <1>1, <2>1, ReaderNext, UserCacheAssumption DEF Rest
<1>2. CASE op = "transfer"
  <2>1. s \in TransferRests
    BY <1>2 DEF Rest
  <2> QED BY <1>2, <2>1, TransferNext, UserCacheAssumption DEF Rest
<1>3. CASE op \notin {"me", "list", "transfer"}
  <2>1. s \in Seq(OtherAwaits) \ {<<>>} /\ Rest(op) = Seq(OtherAwaits) \ {<<>>}
    BY <1>3 DEF Rest
  <2>2. Tail(s) # <<>> => Head(Tail(s)) \in OtherAwaits
    BY <2>1, OtherNext
  <2> QED BY <1>3, <2>1, <2>2, OtherNext, UserCacheAssumption DEF OtherAwaits
<1> QED BY <1>1, <1>2, <1>3

-----------------------------------------------------------------------------
(* Calls.                                                                    *)

LEMMA NoneIsNoCall ==
  ASSUME NEW n \in Nat, NEW c \in [op : Ops, age : 0..Delay, began : 1..n, selected : 1..n \cup {None}]
  PROVE  c # None
<1>1. c \in [op : DOMAIN Awaits, age : Nat, began : Nat, selected : Nat \cup {None}]
  BY UserCacheAssumption DEF Ops
<1> QED BY <1>1, UserCacheAssumption

\* What is known of a call under way.
LEMMA UnderWay ==
  ASSUME IInv, NEW r \in Requests, todo[r] # None, todo[r] # <<>>
  PROVE  /\ call[r] # None /\ call[r] \in CallRecords /\ call[r].op \in Ops
         /\ todo[r] \in Rest(call[r].op)
BY DEF IInv, Known, CallRecords

\* A call that goes on from another await than its SELECT or its write, or ends.
LEMMA GoesOn ==
  ASSUME IInv, NEW r \in Requests, NEW rest, todo[r] # None, todo[r] # <<>>, Proceed(r, rest),
         rest = <<>> \/ (rest = Tail(todo[r]) /\ Head(todo[r]) \notin {"select", "write"})
  PROVE  /\ todo' = [q \in Requests |-> todo'[q]] /\ call' = [q \in Requests |-> call'[q]]
         /\ \A q \in Requests \ {r} : todo'[q] = todo[q] /\ call'[q] = call[q]
         /\ call'[r] = None => todo'[r] = <<>>
         /\ call'[r] # None => call'[r] = call[r] /\ call'[r] \in CallRecords
                               /\ todo'[r] \in Rest(call'[r].op)
         /\ ~At(r, "fill")' /\ (Clearing(r)' => Clearing(r) /\ call'[r] = call[r])
<1>1. /\ call[r] # None /\ call[r] \in CallRecords /\ call[r].op \in Ops
      /\ todo[r] \in Rest(call[r].op)
  BY UnderWay
<1>2. /\ todo = [q \in Requests |-> todo[q]] /\ call = [q \in Requests |-> call[q]]
  BY DEF IInv
<1>3. todo' = [todo EXCEPT ![r] = rest] /\ todo'[r] = rest
  BY <1>2, Zenon DEF Proceed
<1>4. call' = IF rest = <<>> THEN [call EXCEPT ![r] = None] ELSE call
  BY DEF Proceed
<1>5. /\ todo' = [q \in Requests |-> todo'[q]] /\ call' = [q \in Requests |-> call'[q]]
      /\ \A q \in Requests \ {r} : todo'[q] = todo[q] /\ call'[q] = call[q]
  BY <1>2, <1>3, <1>4
<1>6. CASE rest = <<>>
  <2>1. call'[r] = None /\ todo'[r] = <<>>
    BY <1>2, <1>3, <1>4, <1>6
  <2> QED BY <1>5, <2>1 DEF At, Clearing
<1>7. CASE rest # <<>>
  <2>1. call' = call /\ todo'[r] = Tail(todo[r]) /\ Tail(todo[r]) # <<>>
        /\ Head(todo[r]) \notin {"select", "write"}
    BY <1>3, <1>4, <1>7
  <2>2. /\ Tail(todo[r]) \in Rest(call[r].op)
        /\ Head(Tail(todo[r])) # "fill"
        /\ Head(Tail(todo[r])) \in {"clear user", "clear all"} =>
              Head(todo[r]) \in {"clear user", "clear all"}
    BY <1>1, <2>1, Places
  <2> QED BY <1>1, <1>5, <2>1, <2>2 DEF At, Clearing
<1> QED BY <1>6, <1>7

\* The other calls stay known, if a transfer's DEL remembers the readers it met.
LEMMA StillKnown ==
  ASSUME IInv, NEW r \in Requests, NEW rest, todo[r] # None, todo[r] # <<>>, Proceed(r, rest),
         rest = <<>> \/ (rest = Tail(todo[r]) /\ Head(todo[r]) \notin {"select", "write"}),
         UNCHANGED <<versions, age>>,
         \A q \in Requests : At(q, "fill") /\ call[q].selected < cleared'[Key(q)] =>
                                q \in late'[Key(q)],
         \A q \in Requests : served'[q] \in 1..Newest \cup {None}
  PROVE  /\ \A q \in Requests : Known(q)'
         /\ todo' = [q \in Requests |-> todo'[q]] /\ call' = [q \in Requests |-> call'[q]]
<1>1. /\ todo' = [q \in Requests |-> todo'[q]] /\ call' = [q \in Requests |-> call'[q]]
      /\ \A q \in Requests \ {r} : todo'[q] = todo[q] /\ call'[q] = call[q]
      /\ call'[r] = None => todo'[r] = <<>>
      /\ call'[r] # None => call'[r] = call[r] /\ call'[r] \in CallRecords
                            /\ todo'[r] \in Rest(call'[r].op)
      /\ ~At(r, "fill")' /\ (Clearing(r)' => Clearing(r) /\ call'[r] = call[r])
  BY GoesOn
<1>2. Newest' = Newest /\ CallRecords' = CallRecords
  BY DEF Newest, CallRecords
<1> SUFFICES ASSUME NEW q \in Requests PROVE Known(q)'
  BY <1>1
<1>3. Known(q)
  BY DEF IInv
<1>4. CASE q = r
  BY <1>1, <1>2, <1>3, <1>4 DEF Known
<1>5. CASE q # r
  <2>1. todo'[q] = todo[q] /\ call'[q] = call[q]
    BY <1>1, <1>5
  <2>2. At(q, "fill")' => HoldsFresh(q)'
    BY <1>2, <1>3, <2>1 DEF Known, HoldsFresh, At, Key
  <2>3. Clearing(q)' => call'[q].selected \in 1..Newest'
    BY <1>2, <1>3, <2>1 DEF Known, Clearing, At
  <2> QED BY <1>2, <1>3, <2>1, <2>2, <2>3 DEF Known
<1> QED BY <1>4, <1>5

-----------------------------------------------------------------------------
(* The steps.                                                                *)

LEMMA Constants == TTL \in Nat \ {0} /\ Delay \in Nat /\ Stale \in Nat /\ Stale = TTL + Delay
  BY UserCacheAssumption DEF Stale

LEMMA NewestIsNat == IInv => Newest \in Nat \ {0}
  BY DEF IInv, Row, Newest

LEMMA Names ==
  ASSUME NEW k \in Keys
  PROVE  DropOf[k] \in {"drop user", "drop all"} /\ ClearOf[k] \in {"clear user", "clear all"}
<1>1. CASE k = "user"
  BY <1>1 DEF DropOf, ClearOf
<1>2. CASE k = "all"
  BY <1>2 DEF DropOf, ClearOf
<1> QED BY <1>1, <1>2 DEF Keys

LEMMA InitEstablishes == Init => IInv
<1> SUFFICES ASSUME Init PROVE IInv
  OBVIOUS
<1>1. versions \in Seq(States) /\ Newest = 1
  <2>1. CASE versions = <<"live">>
    BY <2>1 DEF States, Newest
  <2>2. CASE versions = <<"deleted">>
    BY <2>2 DEF States, Newest
  <2> QED BY <2>1, <2>2 DEF Init
<1>2. age \in [1..1 -> 0..Stale] /\ age[1] = 0
  BY Constants DEF Init
<1>3. Row
  BY <1>1, <1>2 DEF Init, Row
<1>4. \A k \in Keys : Entry(k)
  BY DEF Init, Entry
<1>5. \A r \in Requests : Known(r)
  BY DEF Init, Known, At, Clearing
<1> QED BY <1>3, <1>4, <1>5 DEF Init, IInv

\* Nothing about the row changes, and entries only go.
LEMMA OnlyDropped ==
  ASSUME IInv, UNCHANGED <<versions, age, cleared, late>>,
         cache' = cache \/ (\E k \in Keys : cache' = [cache EXCEPT ![k] = None])
  PROVE  Row' /\ (\A k \in Keys : Entry(k)') /\ cache' = [k \in Keys |-> cache'[k]]
<1>1. Newest' = Newest
  BY DEF Newest
<1>2. /\ cache' = [k \in Keys |-> cache'[k]]
      /\ \A k \in Keys : cache'[k] = cache[k] \/ cache'[k] = None
  BY DEF IInv
<1>3. Row'
  BY <1>1 DEF IInv, Row
<1>4. \A k \in Keys : Entry(k)'
  BY <1>1, <1>2 DEF IInv, Entry
<1> QED BY <1>2, <1>3, <1>4

LEMMA QuietSteps ==
  ASSUME IInv, NEW r \in Requests, NEW k \in Keys,
         Hit(r) \/ Miss(r) \/ Find(r) \/ WriteNothing(r) \/ Failure(r) \/ Drop(r, k)
            \/ ClearFails(r, k)
  PROVE  IInv'
<1>1. /\ todo[r] # None /\ todo[r] # <<>> /\ UNCHANGED <<versions, age, cleared, late>>
      /\ \/ Proceed(r, <<>>)
         \/ Proceed(r, Tail(todo[r])) /\ Head(todo[r]) \notin {"select", "write"}
      /\ cache' = cache \/ cache' = [cache EXCEPT ![k] = None]
      /\ \/ UNCHANGED served
         \/ /\ cache[Key(r)] # None
            /\ served' = [served EXCEPT ![r] = cache[Key(r)].version]
  BY Names DEF Hit, Miss, Find, WriteNothing, Failure, Drop, ClearFails, At, Answers
<1>2. Key(r) \in Keys
  BY DEF Key, KeyOf, Keys
<1>3. /\ served' = [q \in Requests |-> served'[q]]
      /\ \A q \in Requests : served'[q] \in 1..Newest \cup {None}
  BY <1>1, <1>2 DEF IInv, Known, Entry
<1>4. \A q \in Requests : At(q, "fill") /\ call[q].selected < cleared'[Key(q)] =>
                              q \in late'[Key(q)]
  BY <1>1 DEF IInv, Known, HoldsFresh
<1>5. /\ \A q \in Requests : Known(q)'
      /\ todo' = [q \in Requests |-> todo'[q]] /\ call' = [q \in Requests |-> call'[q]]
  BY <1>1, <1>3, <1>4, StillKnown
<1>6. Row' /\ (\A j \in Keys : Entry(j)') /\ cache' = [j \in Keys |-> cache'[j]]
  BY <1>1, OnlyDropped
<1> QED BY <1>3, <1>5, <1>6 DEF IInv

LEMMA ClearStep ==
  ASSUME IInv, NEW r \in Requests, NEW k \in Keys, Clear(r, k)
  PROVE  IInv'
<1> DEFINE v == call[r].selected
<1>1. /\ todo[r] # None /\ todo[r] # <<>> /\ Proceed(r, Tail(todo[r])) /\ Clearing(r)
      /\ Head(todo[r]) \notin {"select", "write"}
      /\ cache' = [cache EXCEPT ![k] = None]
      /\ cleared' = [cleared EXCEPT ![k] = IF @ < v THEN v ELSE @]
      /\ late' = [late EXCEPT ![k] = @ \cup Holding(k, v)]
      /\ UNCHANGED <<versions, age, served>>
  BY Names DEF Clear, At, Clearing
<1>2. v \in 1..Newest /\ Newest' = Newest /\ Newest \in Nat
  BY <1>1, NewestIsNat DEF IInv, Known, Newest
<1>3. /\ Row' /\ cache' = [j \in Keys |-> cache'[j]]
  BY <1>1, <1>2 DEF IInv, Row, Holding
<1>4. \A j \in Keys \ {k} : cleared'[j] = cleared[j] /\ late'[j] = late[j] /\ cache'[j] = cache[j]
  BY <1>1 DEF IInv, Row
<1>5. \A j \in Keys : Entry(j)'
  <2>1. cache'[k] = None
    BY <1>1 DEF IInv
  <2> QED BY <1>1, <1>2, <1>4, <2>1 DEF IInv, Entry
<1>6. ASSUME NEW q \in Requests, At(q, "fill"), call[q].selected < cleared'[Key(q)]
      PROVE  q \in late'[Key(q)]
  <2>1. Key(q) \in Keys /\ HoldsFresh(q)
    BY <1>6 DEF Key, KeyOf, Keys, IInv, Known
  <2>2. CASE Key(q) # k
    BY <1>4, <1>6, <2>1, <2>2 DEF HoldsFresh
  <2>3. CASE Key(q) = k
    <3>1. /\ cleared'[k] = IF cleared[k] < v THEN v ELSE cleared[k]
          /\ late'[k] = late[k] \cup Holding(k, v)
      BY <1>1 DEF IInv, Row
    <3> QED BY <1>6, <2>1, <2>3, <3>1 DEF HoldsFresh, Holding
  <2> QED BY <2>2, <2>3
<1>7. \A q \in Requests : served'[q] \in 1..Newest \cup {None}
  BY <1>1 DEF IInv, Known
<1>8. /\ \A q \in Requests : Known(q)'
      /\ todo' = [q \in Requests |-> todo'[q]] /\ call' = [q \in Requests |-> call'[q]]
  BY <1>1, <1>6, <1>7, StillKnown
<1> QED BY <1>1, <1>3, <1>5, <1>8 DEF IInv

LEMMA FillStep ==
  ASSUME IInv, NEW r \in Requests, Fill(r)
  PROVE  IInv'
<1> PICK k \in Keys : k = Key(r)
  BY DEF Key, KeyOf, Keys
<1>1. /\ todo[r] # None /\ todo[r] # <<>> /\ Proceed(r, <<>>) /\ HoldsFresh(r)
      /\ cache' = [cache EXCEPT ![k] = [version |-> call[r].selected, by |-> r, left |-> TTL]]
      /\ served' = [served EXCEPT ![r] = call[r].selected]
      /\ UNCHANGED <<versions, age, cleared, late>>
  BY DEF Fill, At, IInv, Known
<1>2. Newest' = Newest /\ Newest \in Nat
  BY NewestIsNat, <1>1 DEF Newest
<1>3. call[r] \in CallRecords
  BY <1>1, UnderWay
<1>4. Row' /\ cache' = [j \in Keys |-> cache'[j]] /\ served' = [q \in Requests |-> served'[q]]
  BY <1>1, <1>2 DEF IInv, Row
<1>5. Entry(k)'
  <2>1. cache'[k] = [version |-> call[r].selected, by |-> r, left |-> TTL]
    BY <1>1, <1>2 DEF IInv
  <2>2. call[r].age \in 0..Delay /\ age[call[r].selected] \in 0..Stale
    BY <1>1, <1>3 DEF CallRecords, HoldsFresh, IInv, Row
  <2> QED BY <1>1, <1>2, <2>1, <2>2, Constants DEF Entry, HoldsFresh
<1>6. \A j \in Keys \ {k} : Entry(j)'
  BY <1>1, <1>2 DEF IInv, Entry
<1>7. \A q \in Requests : At(q, "fill") /\ call[q].selected < cleared'[Key(q)] =>
                              q \in late'[Key(q)]
  BY <1>1 DEF IInv, Known, HoldsFresh
<1>8. \A q \in Requests : served'[q] \in 1..Newest \cup {None}
  BY <1>1 DEF IInv, Known, HoldsFresh
<1>9. /\ \A q \in Requests : Known(q)'
      /\ todo' = [q \in Requests |-> todo'[q]] /\ call' = [q \in Requests |-> call'[q]]
  BY <1>1, <1>7, <1>8, StillKnown
<1> QED BY <1>4, <1>5, <1>6, <1>9 DEF IInv

LEMMA ArriveStep ==
  ASSUME IInv, NEW r \in Requests, Arrive(r)
  PROVE  IInv'
<1>1. PICK op \in DOMAIN Awaits :
        /\ todo' = [todo EXCEPT ![r] = Awaits[op]]
        /\ call' = [call EXCEPT ![r] = [op |-> op, age |-> 0, began |-> Newest, selected |-> None]]
  BY DEF Arrive
<1>2. UNCHANGED <<versions, age, cache, served, cleared, late>> /\ Newest' = Newest
  BY DEF Arrive, Newest
<1>3. /\ todo' = [q \in Requests |-> todo'[q]] /\ call' = [q \in Requests |-> call'[q]]
      /\ \A q \in Requests \ {r} : todo'[q] = todo[q] /\ call'[q] = call[q]
      /\ todo'[r] = Awaits[op]
      /\ call'[r] = [op |-> op, age |-> 0, began |-> Newest, selected |-> None]
  BY <1>1 DEF IInv
<1>4. Row' /\ (\A k \in Keys : Entry(k)') /\ cache' = [k \in Keys |-> cache'[k]]
  BY <1>2, OnlyDropped
<1>5. Known(r)'
  <2>1. op \in Ops /\ Awaits[op] \in Rest(op)
    BY AwaitsShape DEF Ops
  <2>2. call'[r] \in CallRecords' /\ call'[r] # None
    BY <1>2, <1>3, <2>1, Constants, NewestIsNat, UserCacheAssumption DEF CallRecords, Ops
  <2>3. ~At(r, "fill")' /\ ~Clearing(r)'
    BY <1>3, <2>1, AwaitsShape DEF At, Clearing
  <2>4. served'[r] \in 1..Newest' \cup {None}
    BY <1>2 DEF IInv, Known
  <2> QED BY <1>3, <2>1, <2>2, <2>3, <2>4 DEF Known
<1>6. ASSUME NEW q \in Requests \ {r}
      PROVE  Known(q)'
  BY <1>2, <1>3, <1>6 DEF IInv, Known, HoldsFresh, CallRecords, At, Clearing, Key
<1> QED BY <1>2, <1>3, <1>4, <1>5, <1>6 DEF IInv

\* What a reader selects is the newest there is, so no transfer can have deleted the
\* key for a newer one.
LEMMA SelectStep ==
  ASSUME IInv, NEW r \in Requests, Select(r)
  PROVE  IInv'
<1>1. /\ todo[r] # None /\ todo[r] # <<>> /\ Head(todo[r]) = "select"
      /\ todo' = [todo EXCEPT ![r] = Tail(todo[r])]
      /\ call' = [call EXCEPT ![r].selected = Newest]
      /\ UNCHANGED <<versions, age, cache, served, cleared, late>> /\ Newest' = Newest
  BY DEF Select, At, Newest
<1>2. /\ call[r] # None /\ call[r] \in CallRecords /\ call[r].op \in Ops
      /\ todo[r] \in Rest(call[r].op)
  BY <1>1, UnderWay
<1>3. /\ todo' = [q \in Requests |-> todo'[q]] /\ call' = [q \in Requests |-> call'[q]]
      /\ \A q \in Requests \ {r} : todo'[q] = todo[q] /\ call'[q] = call[q]
      /\ todo'[r] = Tail(todo[r]) /\ call'[r] = [call[r] EXCEPT !.selected = Newest]
  BY <1>1 DEF IInv
<1>4. Row' /\ (\A k \in Keys : Entry(k)') /\ cache' = [k \in Keys |-> cache'[k]]
  BY <1>1, OnlyDropped
<1>5. Known(r)'
  <2>1. Tail(todo[r]) \in Rest(call[r].op) /\ Head(Tail(todo[r])) = "fill"
    BY <1>1, <1>2, Places
  <2>2. /\ call'[r] \in CallRecords' /\ call'[r] # None /\ call'[r].selected = Newest
        /\ call'[r].op = call[r].op /\ call'[r].age \in Nat /\ call'[r].began <= Newest
    BY <1>1, <1>2, <1>3, NewestIsNat, Constants, UserCacheAssumption DEF CallRecords, Ops
  <2>3. HoldsFresh(r)'
    <3>1. Key(r)' \in Keys /\ cleared[Key(r)'] <= Newest /\ age[Newest] = 0
      BY DEF Key, KeyOf, Keys, IInv, Row
    <3> QED BY <1>1, <2>2, <3>1, NewestIsNat DEF HoldsFresh, IInv, Row
  <2> QED BY <1>1, <1>3, <2>1, <2>2, <2>3 DEF IInv, Known, At, Clearing
<1>6. ASSUME NEW q \in Requests \ {r}
      PROVE  Known(q)'
  BY <1>1, <1>3, <1>6 DEF IInv, Known, HoldsFresh, CallRecords, At, Clearing, Key
<1> QED BY <1>1, <1>3, <1>4, <1>5, <1>6 DEF IInv

LEMMA FunctionIsSequence ==
  ASSUME NEW S, NEW n \in Nat, NEW f \in [1..n -> S]
  PROVE  f \in Seq(S)
OBVIOUS

\* The row's new version is nobody's yet, so nothing that was known of the old ones
\* changes.
LEMMA ChangeStep ==
  ASSUME IInv, NEW r \in Requests, NEW status \in States,
         At(r, "write") \/ At(r, "insert"), Change(r, status)
  PROVE  IInv'
<1> PICK n \in Nat \ {0} : n = Newest
  BY NewestIsNat
<1>1. /\ todo[r] # None /\ todo[r] # <<>> /\ Head(todo[r]) \in {"write", "insert"}
      /\ versions' = Append(versions, status) /\ age' = Append(age, 0)
      /\ todo' = [todo EXCEPT ![r] = Tail(@)]
      /\ call' = IF Tail(todo[r]) = <<>> THEN [call EXCEPT ![r] = None]
                 ELSE [call EXCEPT ![r].selected = n + 1]
      /\ UNCHANGED <<cache, served, cleared, late>>
  BY DEF Change, At
<1>2. /\ call[r] # None /\ call[r] \in CallRecords /\ call[r].op \in Ops
      /\ todo[r] \in Rest(call[r].op)
  BY <1>1, UnderWay
<1>3. versions' \in Seq(States) /\ Newest' = n + 1
  BY <1>1 DEF IInv, Row, Newest
<1>4. /\ age' \in [1..n + 1 -> 0..Stale] /\ age'[n + 1] = 0
      /\ \A v \in 1..n : age'[v] = age[v]
  <2>1. n \in Nat /\ age \in [1..n -> 0..Stale] /\ 0 \in 0..Stale
    BY Constants DEF IInv, Row
  <2>2. age' = Append(age, 0)
    BY <1>1
  <2>3. age \in Seq(0..Stale)
    BY <2>1, FunctionIsSequence, Zenon
  <2>4. Len(age) = n
    BY <2>1
  <2>5. /\ age' \in Seq(0..Stale) /\ Len(age') = n + 1 /\ age'[n + 1] = 0
        /\ \A v \in 1..n : age'[v] = age[v]
    BY <2>1, <2>2, <2>3, <2>4, AppendProperties
  <2>6. age' \in [1..n + 1 -> 0..Stale]
    BY <2>5, LenProperties
  <2> QED BY <2>5, <2>6
<1>5. /\ todo' = [q \in Requests |-> todo'[q]] /\ call' = [q \in Requests |-> call'[q]]
      /\ \A q \in Requests \ {r} : todo'[q] = todo[q] /\ call'[q] = call[q]
      /\ todo'[r] = Tail(todo[r])
      /\ call'[r] = IF Tail(todo[r]) = <<>> THEN None ELSE [call[r] EXCEPT !.selected = n + 1]
  BY <1>1 DEF IInv
<1>6. Row'
  BY <1>1, <1>3, <1>4 DEF IInv, Row
<1>7. \A k \in Keys : Entry(k)'
  BY <1>1, <1>3, <1>4 DEF IInv, Entry
<1>8. ASSUME NEW q \in Requests PROVE served'[q] \in 1..Newest' \cup {None}
  BY <1>1, <1>3 DEF IInv, Known
<1>9. Known(r)'
  <2>1. CASE Tail(todo[r]) = <<>>
    BY <1>5, <1>8, <2>1 DEF Known, At, Clearing
  <2>2. CASE Tail(todo[r]) # <<>>
    <3>1. call'[r] \in CallRecords' /\ call'[r].selected = n + 1 /\ call'[r].op = call[r].op
      BY <1>2, <1>3, <1>5, <2>2 DEF CallRecords
    <3>3. call'[r] # None
      BY <1>3, <3>1, NoneIsNoCall DEF CallRecords
    <3>2. Tail(todo[r]) \in Rest(call[r].op) /\ Head(Tail(todo[r])) # "fill"
      BY <1>1, <1>2, <2>2, Places
    <3>4. todo'[r] \in Rest(call'[r].op) /\ ~At(r, "fill")'
      BY <1>5, <3>1, <3>2 DEF At
    <3>5. call'[r].selected \in 1..Newest'
      BY <1>3, <3>1
    <3> QED BY <1>8, <3>1, <3>3, <3>4, <3>5 DEF Known
  <2> QED BY <2>1, <2>2
<1>10. ASSUME NEW q \in Requests \ {r}
       PROVE  Known(q)'
  <2>0. todo'[q] = todo[q] /\ call'[q] = call[q] /\ Known(q)
    BY <1>5 DEF IInv
  <2>1. call'[q] # None => call'[q] \in CallRecords'
    BY <1>3, <2>0 DEF Known, CallRecords
  <2>2. At(q, "fill")' => HoldsFresh(q)'
    BY <1>1, <1>3, <1>4, <2>0 DEF Known, HoldsFresh, At, Key
  <2>3. Clearing(q)' => call'[q].selected \in 1..Newest'
    <3>1. Clearing(q)' => Clearing(q)
      BY <2>0 DEF At, Clearing
    <3>2. Clearing(q) => call[q].selected \in 1..n + 1
      BY <2>0 DEF Known
    <3> QED BY <1>3, <2>0, <3>1, <3>2
  <2> QED BY <1>8, <2>0, <2>1, <2>2, <2>3 DEF Known
<1> QED BY <1>1, <1>5, <1>6, <1>7, <1>9, <1>10 DEF IInv

\* A second makes versions, calls and entries older together.
LEMMA TickStep ==
  ASSUME IInv, Tick
  PROVE  IInv'
<1>1. UNCHANGED <<versions, todo, served, cleared, late>> /\ Newest' = Newest
  BY DEF Tick, Newest
<1>2. Newest \in Nat \ {0} /\ age \in [1..Newest -> 0..Stale] /\ DOMAIN age = 1..Newest
  BY NewestIsNat DEF IInv, Row
<1>3. age' = [v \in 1..Newest |-> IF v = Newest \/ age[v] = Stale THEN age[v] ELSE age[v] + 1]
  BY <1>2 DEF Tick
<1>4. age' \in [1..Newest -> 0..Stale] /\ age'[Newest] = 0
  BY <1>2, <1>3, Constants DEF IInv, Row
<1>5. \A v \in 1..Newest : age'[v] <= age[v] + 1
  BY <1>2, <1>3
<1>6. Row'
  BY <1>1, <1>4 DEF IInv, Row
<1>7. ASSUME NEW k \in Keys PROVE Entry(k)'
  <2>1. cache'[k] = IF cache[k] = None \/ cache[k].left = 1 THEN None
                    ELSE [cache[k] EXCEPT !.left = @ - 1]
    BY DEF Tick
  <2>2. CASE cache'[k] = None
    BY <2>2 DEF Entry
  <2>3. CASE cache'[k] # None
    <3>1. /\ cache[k] \in [version : 1..Newest, by : Requests, left : 1..TTL]
          /\ age[cache[k].version] + cache[k].left <= Stale
          /\ cache[k].version < cleared[k] => cache[k].by \in late[k]
      BY <2>1, <2>3 DEF IInv, Entry
    <3>2. /\ cache'[k] \in [version : 1..Newest, by : Requests, left : 1..TTL]
          /\ cache'[k].version = cache[k].version /\ cache'[k].by = cache[k].by
          /\ cache'[k].left = cache[k].left - 1
      BY <2>1, <2>3, <3>1, Constants
    <3>3. age'[cache[k].version] \in Nat /\ age[cache[k].version] \in Nat
      BY <1>2, <1>4, <3>1, Constants
    <3>4. age'[cache'[k].version] + cache'[k].left <= Stale
      BY <1>5, <3>1, <3>2, <3>3, Constants
    <3> QED BY <1>1, <3>1, <3>2, <3>4 DEF Entry
  <2> QED BY <2>2, <2>3
<1>8. ASSUME NEW q \in Requests PROVE Known(q)'
  <2>1. call'[q] = IF call[q] = None THEN None ELSE [call[q] EXCEPT !.age = @ + 1]
    BY DEF Tick
  <2>2. CASE call[q] = None
    BY <1>1, <2>1, <2>2 DEF IInv, Known, At, Clearing
  <2>3. CASE call[q] # None
    <3>1. call[q] \in CallRecords /\ call[q].age < Delay
      BY <2>3 DEF IInv, Known, Tick
    <3>2. /\ call'[q] \in CallRecords /\ call'[q].age = call[q].age + 1
          /\ call'[q].op = call[q].op /\ call'[q].began = call[q].began
          /\ call'[q].selected = call[q].selected
      <4>1. call[q].age \in 0..Delay /\ call[q].age + 1 \in 0..Delay
        BY <3>1, Constants DEF CallRecords
      <4> QED BY <2>1, <2>3, <3>1, <4>1 DEF CallRecords
    <3>4. call'[q] # None
      BY <1>2, <3>2, NoneIsNoCall DEF CallRecords
    <3>3. At(q, "fill")' => HoldsFresh(q)'
      <4> SUFFICES ASSUME At(q, "fill") PROVE HoldsFresh(q)'
        BY <1>1 DEF At
      <4>1. HoldsFresh(q) /\ Key(q)' = Key(q)
        BY <3>2 DEF IInv, Known, Key
      <4>2. age[call[q].selected] \in Nat /\ age'[call[q].selected] \in Nat /\ call[q].age \in Nat
        BY <1>2, <1>4, <3>1, <4>1, Constants DEF HoldsFresh, CallRecords
      <4> QED BY <1>1, <1>5, <3>2, <4>1, <4>2 DEF HoldsFresh
    <3> QED BY <1>1, <2>3, <3>2, <3>3, <3>4 DEF IInv, Known, At, Clearing, CallRecords
  <2> QED BY <2>2, <2>3
<1>9. call' = [q \in Requests |-> call'[q]] /\ cache' = [k \in Keys |-> cache'[k]]
  BY DEF Tick
<1> QED BY <1>1, <1>6, <1>7, <1>8, <1>9 DEF IInv

-----------------------------------------------------------------------------
(* Theorems.                                                                 *)

\* Calls and entries stay as fresh as they say, whatever reads, writes, DELs,
\* failures and seconds interleave.
THEOREM UserCacheInvariance == Spec => []IInv
<1>1. IInv /\ [Next]_vars => IInv'
  <2> SUFFICES ASSUME IInv, [Next]_vars PROVE IInv'
    OBVIOUS
  <2>1. CASE UNCHANGED vars
    BY <2>1 DEF vars, IInv, Row, Entry, Known, HoldsFresh, Clearing, At, Key, CallRecords, Newest
  <2>2. ASSUME NEW r \in Requests,
               Arrive(r) \/ Hit(r) \/ Miss(r) \/ Select(r) \/ Fill(r) \/ Find(r)
                 \/ WriteNothing(r) \/ Failure(r)
        PROVE  IInv'
    <3>1. "all" \in Keys
      BY DEF Keys
    <3> QED BY <2>2, <3>1, ArriveStep, SelectStep, FillStep, QuietSteps
  <2>3. ASSUME NEW r \in Requests, Write(r) \/ Insert(r)
        PROVE  IInv'
    <3>1. versions[Newest] \in States
      BY NewestIsNat DEF IInv, Row, Newest
    <3>2. After(call[r].op) \in States
      BY <3>1 DEF After, States
    <3> QED BY <2>3, <3>1, <3>2, ChangeStep DEF Write, Insert
  <2>4. ASSUME NEW r \in Requests, NEW k \in Keys, Drop(r, k) \/ Clear(r, k) \/ ClearFails(r, k)
        PROVE  IInv'
    BY <2>4, QuietSteps, ClearStep
  <2>5. CASE Tick
    BY <2>5, TickStep
  <2> QED BY <2>1, <2>2, <2>3, <2>4, <2>5 DEF Next
<1> QED BY InitEstablishes, <1>1, PTL DEF Spec

\* Every variable keeps its type; a call is recorded as long as it has awaits left.
THEOREM UserCacheTypeCorrect == Spec => []TypeOK
<1>1. IInv => TypeOK
  <2> SUFFICES ASSUME IInv PROVE TypeOK
    OBVIOUS
  <2>1. versions \in Seq({"live", "deleted", "gone"}) /\ Newest > 0
    BY DEF IInv, Row, States
  <2>2. ASSUME NEW r \in Requests
        PROVE  /\ call[r] # None <=> todo[r] \notin {None, <<>>}
               /\ call[r] # None => call[r] \in CallRecords
               /\ served[r] \in 1..Newest \cup {None}
    <3>1. call[r] # None => call[r].op \in Ops /\ todo[r] \in Rest(call[r].op)
      BY DEF IInv, Known, CallRecords
    <3>2. call[r] # None => todo[r] \notin {None, <<>>}
      BY <3>1, Places
    <3> QED BY <3>2 DEF IInv, Known
  <2> QED BY <2>1, <2>2 DEF TypeOK, IInv, Row, Entry, CallRecords, Ops
<1> QED BY <1>1, UserCacheInvariance, PTL

\* What a transfer deleted is brought back only by a reader that was at it then.
THEOREM TransfersAreSeen == Spec => []OnlyLateReadersUndoATransfer
<1>1. IInv => OnlyLateReadersUndoATransfer
  BY DEF IInv, Entry, OnlyLateReadersUndoATransfer
<1> QED BY <1>1, UserCacheInvariance, PTL

\* Only a hit and a fill answer.
LEMMA Answered ==
  ASSUME IInv, [Next]_vars, NEW r \in Requests, Serves(r)
  PROVE  Hit(r) \/ Fill(r)
<1>1. \A q \in Requests \ {r} : ~Hit(q) /\ ~Fill(q)
  BY DEF Serves, Hit, Fill, IInv
<1>2. ~UNCHANGED served
  BY DEF Serves
<1> QED BY <1>1, <1>2 DEF Next, vars, Arrive, Miss, Select, Find, Write, WriteNothing, Insert,
      Change, Failure, Drop, Clear, ClearFails, Tick

\* No answer is older than an entry's lifetime and a request.
THEOREM AnswersAreFresh == Spec => FreshAnswers
<1>1. IInv /\ [Next]_vars =>
        [\A r \in Requests : Serves(r) => served'[r] = Newest \/ age[served'[r]] < Stale]_vars
  <2> SUFFICES ASSUME IInv, [Next]_vars, NEW r \in Requests, Serves(r)
               PROVE  age[served'[r]] < Stale
    OBVIOUS
  <2>1. CASE Hit(r)
    <3>1. PICK k \in Keys : k = Key(r)
      BY DEF Key, KeyOf, Keys
    <3>2. cache[k] # None /\ served'[r] = cache[k].version
      BY <2>1, <3>1 DEF Hit, Answers, IInv
    <3>3. /\ cache[k].left \in 1..TTL /\ age[cache[k].version] \in 0..Stale
          /\ age[cache[k].version] + cache[k].left <= Stale
      BY <3>2 DEF IInv, Row, Entry
    <3> QED BY <3>2, <3>3, Constants
  <2>2. CASE Fill(r)
    <3>1. served'[r] = call[r].selected /\ HoldsFresh(r) /\ call[r] \in CallRecords
      BY <2>2, UnderWay DEF Fill, At, IInv, Known
    <3>2. call[r].age \in 0..Delay /\ age[call[r].selected] \in 0..Stale
      BY <3>1 DEF CallRecords, HoldsFresh, IInv, Row
    <3> QED BY <3>1, <3>2, Constants DEF HoldsFresh
  <2> QED BY <2>1, <2>2, Answered
<1> QED BY <1>1, UserCacheInvariance, PTL DEF Spec, FreshAnswers

\* 'No such user' is answered only if that was so during the request.
THEOREM NullsAreNotServed == Spec => NobodyIsMissing
<1>1. IInv /\ [Next]_vars =>
        [\A r \in Requests :
           Serves(r) /\ Key(r) = "user" /\ versions[served'[r]] # "live" =>
              served'[r] >= call[r].began]_vars
  <2> SUFFICES ASSUME IInv, [Next]_vars, NEW r \in Requests, Serves(r), Key(r) = "user",
                      versions[served'[r]] # "live"
               PROVE  served'[r] >= call[r].began
    OBVIOUS
  <2>1. ~Hit(r)
    BY DEF Hit, Answers, IInv
  <2>2. Fill(r)
    BY <2>1, Answered
  <2>3. served'[r] = call[r].selected /\ HoldsFresh(r)
    BY <2>2 DEF Fill, At, IInv, Known
  <2> QED BY <2>3 DEF HoldsFresh
<1> QED BY <1>1, UserCacheInvariance, PTL DEF Spec, NobodyIsMissing
=============================================================================
