---------------------------- MODULE AccountsProofs ----------------------------
(***************************************************************************)
(* Proofs about Accounts, for any finite sets of phones and requests, any  *)
(* logins and codes: identities stay unique, a code or flag serves only    *)
(* those who read it together, no account is lost from the books, and what *)
(* it takes for recreate-me to spare a live one.                           *)
(***************************************************************************)
EXTENDS Accounts, FiniteSetTheorems, TLAPS

USE AccountsAssumption DEF AccountsAssumption, Ended

Labels == {"idle", "compare", "dropcode", "mark", "check", "flag", "unflag",
           "find", "restore", "erase", "insert", "lookup", "update"} \cup Ended
Running == Labels \ (Ended \cup {"idle"})
Readers == {"dropcode", "unflag"}

\* What the body b of a request says when the request has reached l.
Fits(l, b) ==
    /\ l \in {"compare", "dropcode", "mark"} => b.op = "verify"
    /\ l \in {"check", "insert"} => b.op \in {"signup", "recreate"}
    /\ l \in {"flag", "unflag"} => b.op \in {"signup", "recover", "recreate"}
    /\ l \in {"find", "restore"} => b.op = "recover"
    /\ l = "erase" => b.op = "recreate"
    /\ l \in {"lookup", "update"} <=> b.op = "update"

\* A request erases once, right before its INSERT.
ErasedOnce(r) == erased[r] => pc[r] \in {"insert"} \cup Ended

Calls ==
    /\ pc \in [Requests -> Labels]
    /\ call = [r \in Requests |-> call[r]]
    /\ \A r \in Requests : /\ call[r] \in IF pc[r] \in Running THEN AllBodies ELSE {None}
                           /\ pc[r] \in Running => Fits(pc[r], call[r])
                           /\ ErasedOnce(r)

\* Whether there is a code or a flag of p to delete.
Stored(l, p) == IF l = "dropcode" THEN otp[p] # None ELSE verified[p]

\* Nobody has deleted what is still there, and whoever is about to delete what
\* somebody has deleted already was about to do so at that time.
Redis ==
    /\ otp \in [Phones -> Codes \cup {None}] /\ verified \in [Phones -> BOOLEAN]
    /\ together \in [Readers -> [Phones -> SUBSET Requests]]
    /\ \A l \in Readers, p \in Phones : Stored(l, p) => together[l][p] = {}
    /\ \A l \in Readers, r \in Requests : pc[r] = l =>
          together[l][call[r].phone] = {} \/ r \in together[l][call[r].phone]

Row(p) == row[p] = None \/ row[p] \in [id : 0..nextId - 1, login : Logins, deleted : BOOLEAN]

Rows ==
    /\ row = [p \in Phones |-> row[p]] /\ \A p \in Phones : Row(p)
    /\ nextId \in Nat \ {0} /\ purged \in Nat
    /\ erased \in [Requests -> BOOLEAN]
    /\ UniqueIdentity /\ EveryAccountAccountedFor

IInv == Calls /\ Redis /\ Rows

LEMMA FirstShape == DOMAIN First = {"verify", "signup", "recover", "recreate", "update"}
  BY DEF First

LEMMA BodyShape ==
  ASSUME NEW b \in AllBodies
  PROVE  /\ b.op \in DOMAIN First
         /\ b.op # "update" => b.phone \in Phones
         /\ b.op \in {"signup", "recreate"} => b.login \in Logins
         /\ b.op = "verify" => b.code \in Codes
<1>1. CASE b \in Updates
  BY <1>1, FirstShape DEF Updates
<1>2. CASE b \notin Updates
  <2>1. PICK o \in DOMAIN First \ {"update"}, p \in Phones : b \in Bodies(o, p)
    BY <1>2 DEF AllBodies
  <2>2. b.op = o /\ b.phone = p
    BY <2>1 DEF Bodies
  <2>3. o \in {"signup", "recreate"} => b.login \in Logins
    BY <2>1 DEF Bodies
  <2>4. o = "verify" => b.code \in Codes
    BY <2>1 DEF Bodies
  <2> QED BY <2>2, <2>3, <2>4
<1> QED BY <1>1, <1>2

\* Bodies stay bodies when an account is added.
LEMMA BodiesGrow ==
  ASSUME nextId \in Nat, nextId' \in {nextId, nextId + 1}
  PROVE  AllBodies \subseteq AllBodies'
<1>1. ASSUME NEW i \in 0..nextId - 1 PROVE i \in 0..nextId' - 1
  <2>1. CASE nextId' = nextId
    BY <2>1
  <2>2. CASE nextId' = nextId + 1
    <3>1. i \in 0..nextId
      OBVIOUS
    <3>2. nextId' - 1 = nextId
      BY <2>2
    <3> QED BY <3>1, <3>2
  <2> QED BY <2>1, <2>2
<1>2. Updates \subseteq Updates'
  BY <1>1 DEF Updates
<1> QED BY <1>2 DEF AllBodies

LEMMA NoneIsNoUser ==
  ASSUME NEW i \in Nat, NEW name \in Logins
  PROVE  User(i, name) # None
<1>1. User(i, name) \in [id : Nat, login : Logins, deleted : BOOLEAN]
  BY DEF User
<1> QED BY <1>1

LEMMA TypesFollow == IInv => TypeOK
<1> SUFFICES ASSUME IInv PROVE TypeOK
  OBVIOUS
<1>1. pc \in [Requests -> Labels]
  BY DEF IInv, Calls
<1>2. ASSUME NEW r \in Requests
      PROVE  call[r] \in IF pc[r] \in Ended \cup {"idle"} THEN {None} ELSE AllBodies
  <2>1. pc[r] \in Running <=> pc[r] \notin Ended \cup {"idle"}
    BY <1>1 DEF Labels, Running
  <2>2. call[r] \in IF pc[r] \in Running THEN AllBodies ELSE {None}
    BY DEF IInv, Calls
  <2> QED BY <2>1, <2>2
<1>3. /\ otp \in [Phones -> Codes \cup {None}] /\ verified \in [Phones -> BOOLEAN]
      /\ together \in [{"dropcode", "unflag"} -> [Phones -> SUBSET Requests]]
  BY DEF IInv, Redis, Readers
<1>4. /\ nextId \in Nat \ {0} /\ purged \in Nat /\ erased \in [Requests -> BOOLEAN]
      /\ \A p \in Phones : Row(p)
  BY DEF IInv, Rows
<1>5. \A p \in Phones : \/ row[p] = None
                         \/ row[p] \in [id : 0..nextId - 1, login : Logins, deleted : BOOLEAN]
  BY <1>4 DEF Row
<1>6. \A r \in Requests : call[r] \in
          IF pc[r] \in Ended \cup {"idle"} THEN {None}
          ELSE AllBodies
  BY <1>2
<1>7. pc \in [Requests -> {"idle", "compare", "dropcode", "mark", "check", "flag", "unflag",
                          "find", "restore", "erase", "insert", "lookup", "update"} \cup Ended]
  BY <1>1 DEF Labels
<1> QED BY <1>3, <1>4, <1>5, <1>6, <1>7 DEF TypeOK

LEMMA InitEstablishes == Init => IInv
<1> SUFFICES ASSUME Init PROVE IInv
  OBVIOUS
<1>1. Calls
  BY DEF Init, Calls, Labels, Running, ErasedOnce
<1>2. Redis
  <2>1. together = [l \in Readers |-> [p \in Phones |-> {}]]
    BY DEF Init, Readers
  <2> QED BY <2>1 DEF Init, Redis
<1>3. PICK p \in Phones, name \in Logins :
        row = [q \in Phones |-> IF q = p THEN User(0, name) ELSE None]
  BY DEF Init
<1>4. User(0, name) # None
  BY NoneIsNoUser
<1>5. EveryAccountAccountedFor
  <2>1. {q \in Phones : row[q] # None} = {p}
    BY <1>3, <1>4
  <2>2. {r \in Requests : erased[r]} = {}
    BY DEF Init
  <2>3. Cardinality({p}) = 1 /\ Cardinality({}) = 0
    BY FS_Singleton, FS_EmptySet
  <2>4. nextId = 1 /\ purged = 0
    BY DEF Init
  <2> QED BY <2>1, <2>2, <2>3, <2>4 DEF EveryAccountAccountedFor
<1>6. Rows
  <2>1. nextId = 1 /\ purged = 0 /\ erased \in [Requests -> BOOLEAN]
    BY DEF Init
  <2>2. User(0, name) \in [id : 0..0, login : Logins, deleted : BOOLEAN]
    BY DEF User
  <2>3. \A q \in Phones : Row(q)
    BY <1>3, <2>1, <2>2 DEF Row
  <2>4. UniqueIdentity
    BY <1>3 DEF UniqueIdentity
  <2>5. row = [q \in Phones |-> row[q]]
    BY <1>3
  <2> QED BY <1>5, <2>1, <2>3, <2>4, <2>5 DEF Rows
<1> QED BY <1>1, <1>2, <1>6 DEF IInv

\* A request goes on to l, or ends there.
LEMMA GotoKeeps ==
  ASSUME IInv, NEW r \in Requests, NEW l \in Labels \ {"idle"}, pc[r] \in Running, Goto(r, l),
         l \in Running => Fits(l, call[r]), nextId' \in {nextId, nextId + 1},
         \A q \in Requests \ {r} : erased'[q] = erased[q],
         erased'[r] => l \in {"insert"} \cup Ended
  PROVE  Calls'
<1>1. /\ pc' = [pc EXCEPT ![r] = l] /\ pc \in [Requests -> Labels]
      /\ call' = IF l \in Ended THEN [call EXCEPT ![r] = None] ELSE call
      /\ call = [q \in Requests |-> call[q]] /\ call[r] \in AllBodies
  BY DEF Goto, IInv, Calls
<1>2. pc' \in [Requests -> Labels] /\ call' = [q \in Requests |-> call'[q]]
  BY <1>1
<1>3. AllBodies \subseteq AllBodies'
  BY BodiesGrow DEF IInv, Rows
<1>4. ASSUME NEW q \in Requests
      PROVE  /\ call'[q] \in IF pc'[q] \in Running THEN AllBodies' ELSE {None}
             /\ pc'[q] \in Running => Fits(pc'[q], call'[q])
             /\ ErasedOnce(q)'
  <2>1. CASE q = r
    <3>1. pc'[q] = l /\ call'[q] = IF l \in Ended THEN None ELSE call[r]
      BY <1>1, <2>1
    <3>2. CASE l \in Ended
      BY <2>1, <3>1, <3>2 DEF ErasedOnce, Running
    <3>3. CASE l \notin Ended
      <4>1. l \in Running
        BY <3>3 DEF Running
      <4> QED BY <1>1, <1>3, <2>1, <3>1, <3>3, <4>1 DEF ErasedOnce
    <3> QED BY <3>2, <3>3
  <2>2. CASE q # r
    <3>1. pc'[q] = pc[q] /\ call'[q] = call[q] /\ erased'[q] = erased[q]
      BY <1>1, <2>2
    <3>2. /\ call[q] \in IF pc[q] \in Running THEN AllBodies ELSE {None}
          /\ pc[q] \in Running => Fits(pc[q], call[q])
          /\ ErasedOnce(q)
      BY DEF IInv, Calls
    <3> QED BY <1>3, <3>1, <3>2 DEF ErasedOnce
  <2> QED BY <2>1, <2>2
<1> QED BY <1>2, <1>4 DEF Calls

\* What a request under way knows.
LEMMA Knows ==
  ASSUME IInv, NEW r \in Requests, pc[r] \in Running
  PROVE  /\ call[r] \in AllBodies /\ Fits(pc[r], call[r]) /\ ErasedOnce(r)
         /\ pc[r] \notin {"lookup", "update"} => call[r].phone \in Phones
         /\ call[r].op \in {"signup", "recreate"} => call[r].login \in Logins
         /\ call[r].op = "verify" => call[r].code \in Codes
<1>1. call[r] \in AllBodies /\ Fits(pc[r], call[r]) /\ ErasedOnce(r)
  BY DEF IInv, Calls
<1>2. pc[r] \notin {"lookup", "update"} => call[r].op # "update"
  BY <1>1 DEF Fits
<1> QED BY <1>1, <1>2, BodyShape

\* Going on moves the request's own label, keeps its body until it ends, and
\* leaves every other request alone.
LEMMA GotoFrame ==
  ASSUME IInv, NEW r \in Requests, NEW l, Goto(r, l)
  PROVE  /\ pc'[r] = l /\ (l \notin Ended => call'[r] = call[r])
         /\ \A q \in Requests \ {r} : pc'[q] = pc[q] /\ call'[q] = call[q]
BY DEF Goto, IInv, Calls

\* The rows stay as they are when nothing about them changes.
LEMMA RowsKept ==
  ASSUME IInv, UNCHANGED <<row, nextId, purged, erased>>
  PROVE  Rows'
BY DEF IInv, Rows, Row, UniqueIdentity, EveryAccountAccountedFor

-----------------------------------------------------------------------------
(* Redis: the code, the flag, and who read them together.                    *)

\* A request goes on to a DEL only if there is something to delete.
LEMMA RedisKept ==
  ASSUME IInv, NEW r \in Requests, NEW l, Goto(r, l), UNCHANGED redis,
         l \in Readers => call[r].phone \in Phones /\ Stored(l, call[r].phone)
  PROVE  Redis'
<1>1. UNCHANGED <<otp, verified, together>>
  BY DEF redis
<1>2. ASSUME NEW k \in Readers, NEW q \in Requests, pc'[q] = k
      PROVE  together[k][call'[q].phone] = {} \/ q \in together[k][call'[q].phone]
  <2>1. CASE q = r
    <3>1. l = k /\ call'[q] = call[r]
      BY <1>2, <2>1, GotoFrame DEF Readers
    <3> QED BY <3>1 DEF IInv, Redis
  <2>2. CASE q # r
    <3>1. pc[q] = k /\ call'[q] = call[q]
      BY <1>2, <2>2, GotoFrame
    <3> QED BY <3>1 DEF IInv, Redis
  <2> QED BY <2>1, <2>2
<1> QED BY <1>1, <1>2 DEF IInv, Redis, Stored

\* A DEL: after it there is nothing to read, and everybody at it shares it.
LEMMA SpendKeeps ==
  ASSUME IInv, NEW r \in Requests, NEW l \in Readers, pc[r] = l,
         NEW p \in Phones, p = call[r].phone,
         NEW m, m \notin Readers, Goto(r, m), Spend(l, p),
         otp' \in [Phones -> Codes \cup {None}], verified' \in [Phones -> BOOLEAN],
         ~Stored(l, p)', \A k \in Readers, q \in Phones : Stored(k, q)' => Stored(k, q)
  PROVE  Redis' /\ r \in together'[l][p]
<1> DEFINE W == {q \in Requests : pc[q] = l /\ call[q].phone = p}
<1>2. /\ together \in [Readers -> [Phones -> SUBSET Requests]]
      /\ together' = [together EXCEPT ![l][p] = IF @ = {} THEN W ELSE @]
  BY DEF Spend, IInv, Redis
<1>3. /\ together' \in [Readers -> [Phones -> SUBSET Requests]]
      /\ together'[l][p] = IF together[l][p] = {} THEN W ELSE together[l][p]
      /\ \A k \in Readers, q \in Phones : k # l \/ q # p => together'[k][q] = together[k][q]
  BY <1>2
<1>4. ASSUME NEW q \in Requests, pc[q] = l, call[q].phone = p
      PROVE  q \in together'[l][p]
  <2>1. q \in W
    BY <1>4
  <2>2. together[l][p] = {} \/ q \in together[l][p]
    BY <1>4 DEF IInv, Redis
  <2> QED BY <1>3, <2>1, <2>2
<1>5. ASSUME NEW k \in Readers, NEW q \in Phones, Stored(k, q)'
      PROVE  together'[k][q] = {}
  <2>1. Stored(k, q) /\ (k # l \/ q # p)
    BY <1>5
  <2> QED BY <1>3, <2>1 DEF IInv, Redis
<1>6. ASSUME NEW k \in Readers, NEW q \in Requests, pc'[q] = k
      PROVE  together'[k][call'[q].phone] = {} \/ q \in together'[k][call'[q].phone]
  <2>1. q # r /\ pc[q] = k /\ call'[q] = call[q]
    BY <1>6, GotoFrame
  <2>2. call[q].phone \in Phones
    BY <2>1, Knows DEF Readers, Running, Labels
  <2>3. CASE k = l /\ call[q].phone = p
    BY <1>4, <2>1, <2>3
  <2>4. CASE ~(k = l /\ call[q].phone = p)
    BY <1>3, <2>1, <2>2, <2>4 DEF IInv, Redis
  <2> QED BY <2>3, <2>4
<1>7. r \in together'[l][p]
  BY <1>4
<1> QED BY <1>3, <1>5, <1>6, <1>7 DEF Redis

\* A new code or flag is everybody's again.
LEMMA RenewKeeps ==
  ASSUME IInv, NEW l \in Readers, NEW p \in Phones, Renew(l, p),
         otp' \in [Phones -> Codes \cup {None}], verified' \in [Phones -> BOOLEAN],
         \A k \in Readers, q \in Phones : (k # l \/ q # p) /\ Stored(k, q)' => Stored(k, q),
         \A r \in Requests : pc'[r] \in Readers => pc'[r] = pc[r] /\ call'[r] = call[r]
  PROVE  Redis'
<1>1. /\ together \in [Readers -> [Phones -> SUBSET Requests]]
      /\ together' = [together EXCEPT ![l][p] = {}]
  BY DEF Renew, IInv, Redis
<1>2. /\ together' \in [Readers -> [Phones -> SUBSET Requests]]
      /\ together'[l][p] = {}
      /\ \A k \in Readers, q \in Phones : k # l \/ q # p => together'[k][q] = together[k][q]
  BY <1>1
<1>3. ASSUME NEW k \in Readers, NEW q \in Phones, Stored(k, q)'
      PROVE  together'[k][q] = {}
  BY <1>2, <1>3 DEF IInv, Redis
<1>4. ASSUME NEW k \in Readers, NEW q \in Requests, pc'[q] = k
      PROVE  together'[k][call'[q].phone] = {} \/ q \in together'[k][call'[q].phone]
  <2>1. pc[q] = k /\ call'[q] = call[q]
    BY <1>4
  <2>2. call[q].phone \in Phones
    BY <2>1, Knows DEF Readers, Running, Labels
  <2> QED BY <1>2, <2>1, <2>2 DEF IInv, Redis
<1> QED BY <1>2, <1>3, <1>4 DEF Redis

\* The codes and flags are what they were, or fewer, and nobody goes on to a DEL.
LEMMA ExpiryKeeps ==
  ASSUME IInv, UNCHANGED together,
         \A r \in Requests : pc'[r] \in Readers => pc'[r] = pc[r] /\ call'[r] = call[r],
         otp' \in [Phones -> Codes \cup {None}], verified' \in [Phones -> BOOLEAN],
         \A k \in Readers, q \in Phones : Stored(k, q)' => Stored(k, q)
  PROVE  Redis'
<1>1. ASSUME NEW k \in Readers, NEW q \in Requests, pc'[q] = k
      PROVE  together'[k][call'[q].phone] = {} \/ q \in together'[k][call'[q].phone]
  <2>1. pc[q] = k /\ call'[q] = call[q]
    BY <1>1
  <2> QED BY <2>1 DEF IInv, Redis
<1> QED BY <1>1 DEF IInv, Redis

\* verify-otp's DEL of the code and the DEL of the flag.
LEMMA Deletes ==
  ASSUME IInv, NEW r \in Requests, DropCode(r) \/ Unflag(r)
  PROVE  Redis' /\ r \in together'[pc[r]][call[r].phone]
<1>1. pc[r] \in Readers /\ pc[r] \in Running
  BY DEF DropCode, Unflag, Readers, Running, Labels
<1>6. call[r].phone \in Phones /\ Fits(pc[r], call[r])
  BY <1>1, Knows DEF Readers
<1>2. PICK p \in Phones : p = call[r].phone
  BY <1>6
<1>3. otp \in [Phones -> Codes \cup {None}] /\ verified \in [Phones -> BOOLEAN]
  BY DEF IInv, Redis
<1>4. CASE DropCode(r)
  <2>1. /\ otp' = [otp EXCEPT ![p] = None] /\ verified' = verified /\ Spend("dropcode", p)
        /\ pc[r] = "dropcode"
    BY <1>2, <1>4 DEF DropCode
  <2>2. PICK m \in {"mark", "failed"} : Goto(r, m)
    BY <1>4 DEF DropCode, Reach
  <2>3. otp' \in [Phones -> Codes \cup {None}] /\ otp'[p] = None
    BY <1>2, <1>3, <2>1
  <2>4. \A k \in Readers, q \in Phones : Stored(k, q)' => Stored(k, q)
    BY <1>2, <1>3, <2>1 DEF Stored
  <2>5. ~Stored("dropcode", p)'
    BY <2>3 DEF Stored
  <2>6. m \notin Readers
    BY DEF Readers
  <2> QED BY <1>1, <1>2, <1>3, <2>1, <2>2, <2>3, <2>4, <2>5, <2>6, SpendKeeps
<1>5. CASE Unflag(r)
  <2>1. /\ verified' = [verified EXCEPT ![p] = FALSE] /\ otp' = otp /\ Spend("unflag", p)
        /\ pc[r] = "unflag"
    BY <1>2, <1>5 DEF Unflag
  <2>2. PICK m \in {"insert", "find", "erase", "failed"} : Goto(r, m)
    <3>1. call[r].op \in {"signup", "recover", "recreate"}
      BY <1>6, <2>1 DEF Fits
    <3> QED BY <1>5, <3>1 DEF Unflag, Reach, Paid
  <2>3. verified' \in [Phones -> BOOLEAN]
    BY <1>3, <2>1, Zenon
  <2>4. \A k \in Readers, q \in Phones : Stored(k, q)' => Stored(k, q)
    BY <1>2, <1>3, <2>1 DEF Stored
  <2>5. ~Stored("unflag", p)'
    <3>1. verified'[p] = FALSE
      BY <1>2, <1>3, <2>1
    <3> QED BY <3>1 DEF Stored
  <2>6. m \notin Readers
    BY DEF Readers
  <2> QED BY <1>1, <1>2, <1>3, <2>1, <2>2, <2>3, <2>4, <2>5, <2>6, SpendKeeps
<1> QED BY <1>4, <1>5

\* verify-otp.
LEMMA VerifySteps ==
  ASSUME IInv, NEW r \in Requests, Compare(r) \/ DropCode(r) \/ Mark(r)
  PROVE  IInv'
<1>1. PICK l \in {"refused", "dropcode", "mark", "done", "failed"} :
        /\ pc[r] \in {"compare", "dropcode", "mark"} /\ Goto(r, l)
        /\ l = "dropcode" => Compare(r) /\ otp[call[r].phone] = call[r].code
  BY DEF Compare, DropCode, Mark, Continue, Reach
<1>2. pc[r] \in Running /\ l \in Labels \ {"idle"}
  BY <1>1 DEF Running, Labels
<1>3. call[r].op = "verify" /\ call[r].phone \in Phones /\ call[r].code \in Codes /\ ~erased[r]
  BY <1>1, <1>2, Knows DEF Fits, ErasedOnce
<1>4. Redis'
  <2>1. CASE Compare(r)
    <3>1. l = "dropcode" => Stored(l, call[r].phone)
      BY <1>1, <1>3 DEF Stored
    <3> QED BY <1>1, <1>3, <2>1, <3>1, RedisKept DEF Compare, Readers
  <2>2. CASE DropCode(r)
    BY <2>2, Deletes
  <2>3. CASE Mark(r)
    <3>1. /\ verified' = [verified EXCEPT ![call[r].phone] = TRUE] /\ otp' = otp
          /\ Renew("unflag", call[r].phone)
      BY <2>3 DEF Mark
    <3>5. PICK m \in {"done", "failed"} : Goto(r, m)
      BY <2>3 DEF Mark, Reach
    <3>2. verified' \in [Phones -> BOOLEAN] /\ otp' \in [Phones -> Codes \cup {None}]
      BY <3>1, Zenon DEF IInv, Redis
    <3>6. PICK p \in Phones : p = call[r].phone
      BY <1>3
    <3>3. \A k \in Readers, q \in Phones : (k # "unflag" \/ q # p) /\ Stored(k, q)' => Stored(k, q)
      BY <3>1, <3>6 DEF IInv, Redis, Stored, Readers
    <3>4. \A q \in Requests : pc'[q] \in Readers => pc'[q] = pc[q] /\ call'[q] = call[q]
      BY <3>5, GotoFrame DEF Readers
    <3> QED BY <3>1, <3>2, <3>3, <3>4, <3>6, RenewKeeps DEF Readers
  <2> QED BY <2>1, <2>2, <2>3
<1>5. UNCHANGED <<row, nextId, purged, erased>>
  BY DEF Compare, DropCode, Mark, users, redis
<1>6. Fits(l, call[r])
  BY <1>1, <1>3 DEF Fits
<1>7. Calls'
  BY <1>1, <1>2, <1>3, <1>5, <1>6, GotoKeeps
<1> QED BY <1>4, <1>5, <1>7, RowsKept DEF IInv

\* The checks of signup, recover-me, recreate-me and update-me, the flag, and all
\* that ends a request.
LEMMA CheckSteps ==
  ASSUME IInv, NEW r \in Requests,
         \/ Check(r) \/ Flag(r) \/ Unflag(r) \/ Find(r) \/ InsertConflict(r)
         \/ Lookup(r) \/ UpdateRefused(r) \/ Failure(r)
  PROVE  IInv'
<1>1. pc[r] \in Running
  <2>1. pc[r] \in Labels
    BY DEF IInv, Calls
  <2> QED BY <2>1 DEF Check, Flag, Unflag, Find, InsertConflict, Lookup, UpdateRefused, Failure,
             Running, Labels
<1>2. /\ pc[r] \notin {"lookup", "update"} => call[r].phone \in Phones
      /\ Fits(pc[r], call[r]) /\ ErasedOnce(r)
  BY <1>1, Knows
<1>3. UNCHANGED <<row, nextId, purged, erased>>
  BY DEF Check, Flag, Unflag, Find, InsertConflict, Lookup, UpdateRefused, Failure, users
<1>4. PICK l \in Labels \ {"idle"} :
        /\ Goto(r, l) /\ (l \in Running => Fits(l, call[r]))
        /\ erased[r] => l \in {"insert"} \cup Ended
        /\ l \in Readers => Flag(r) /\ l = "unflag" /\ Stored(l, call[r].phone)
  <2>1. CASE Check(r)
    BY <1>2, <2>1 DEF Check, Continue, Fits, ErasedOnce, Labels, Readers, Running
  <2>2. CASE Flag(r)
    BY <1>2, <2>2 DEF Flag, Continue, Fits, ErasedOnce, Labels, Readers, Running, Stored
  <2>3. CASE Unflag(r)
    BY <1>2, <2>3 DEF Unflag, Reach, Paid, Fits, ErasedOnce, Labels, Readers, Running
  <2>4. CASE Find(r)
    BY <1>2, <2>4 DEF Find, Continue, Fits, ErasedOnce, Labels, Readers, Running
  <2>5. CASE InsertConflict(r)
    BY <1>2, <2>5 DEF InsertConflict, Fits, Labels, Readers, Running
  <2>6. CASE Failure(r)
    BY <1>2, <2>6 DEF Failure, Fits, Labels, Readers, Running
  <2>7. CASE Lookup(r)
    BY <1>2, <2>7 DEF Lookup, Continue, Fits, ErasedOnce, Labels, Readers, Running
  <2>8. CASE UpdateRefused(r)
    BY <1>2, <2>8 DEF UpdateRefused, Fits, Labels, Readers, Running
  <2> QED BY <2>1, <2>2, <2>3, <2>4, <2>5, <2>6, <2>7, <2>8
<1>5. Calls'
  BY <1>1, <1>3, <1>4, GotoKeeps
<1>6. Redis'
  <2>1. CASE Unflag(r)
    BY <2>1, Deletes
  <2>2. CASE ~Unflag(r)
    <3>1. UNCHANGED redis
      BY <2>2 DEF Check, Flag, Find, InsertConflict, Lookup, UpdateRefused, Failure
    <3>2. l \in Readers => call[r].phone \in Phones
      BY <1>2, <1>4 DEF Flag
    <3> QED BY <1>4, <3>1, <3>2, RedisKept
  <2> QED BY <2>1, <2>2
<1> QED BY <1>3, <1>5, <1>6, RowsKept DEF IInv

-----------------------------------------------------------------------------
(* The rows.                                                                 *)

\* The rows of the phones and the requests that erased one, counted.
Kept   == {p \in Phones : row[p] # None}
Erased == {r \in Requests : erased[r]}

LEMMA CountsFinite ==
  ASSUME NEW S, S \in SUBSET Phones \/ S \in SUBSET Requests
  PROVE  IsFiniteSet(S) /\ Cardinality(S) \in Nat
BY FS_Subset, FS_CardinalityType

LEMMA Counted ==
  ASSUME IInv
  PROVE  /\ nextId = Cardinality(Kept) + Cardinality(Erased) + purged
         /\ IsFiniteSet(Kept) /\ IsFiniteSet(Erased)
         /\ Cardinality(Kept) \in Nat /\ Cardinality(Erased) \in Nat
         /\ nextId \in Nat /\ purged \in Nat
<1>1. nextId = Cardinality(Kept) + Cardinality(Erased) + purged
  BY DEF IInv, Rows, EveryAccountAccountedFor, Kept, Erased
<1>2. /\ IsFiniteSet(Kept) /\ IsFiniteSet(Erased)
      /\ Cardinality(Kept) \in Nat /\ Cardinality(Erased) \in Nat
  BY CountsFinite DEF Kept, Erased
<1> QED BY <1>1, <1>2 DEF IInv, Rows

\* The books balance after a step that moves the sum as it moves the id generator.
LEMMA StillCounted ==
  ASSUME nextId' = Cardinality(Kept') + Cardinality(Erased') + purged'
  PROVE  EveryAccountAccountedFor'
BY DEF EveryAccountAccountedFor, Kept, Erased

\* The phone q and the login name are free for the row of p, which moves there.
FreeFor(p, q, name) == \A o \in Phones \ {p} : row[o] # None => o # q /\ row[o].login # name
Moved(p, q, new) ==
    row' = [o \in Phones |-> IF o = q THEN new ELSE IF o = p THEN None ELSE row[o]]

\* An UPDATE moves one row, with the same id, and takes nobody's phone or login:
\* update-me's, recover-me's and delete-me's.
LEMMA RowMoved ==
  ASSUME IInv, NEW p \in Phones, NEW q \in Phones, NEW name \in Logins, NEW d \in BOOLEAN,
         row[p] # None, FreeFor(p, q, name),
         Moved(p, q, [id |-> row[p].id, login |-> name, deleted |-> d]),
         UNCHANGED <<nextId, purged, erased>>
  PROVE  Rows'
<1> DEFINE new == [id |-> row[p].id, login |-> name, deleted |-> d]
<1>1. row = [o \in Phones |-> row[o]] /\ nextId \in Nat \ {0}
  BY DEF IInv, Rows
<1>2. row[p] \in [id : 0..nextId - 1, login : Logins, deleted : BOOLEAN]
  BY DEF IInv, Rows, Row
<1>3. /\ row' = [o \in Phones |-> row'[o]]
      /\ \A o \in Phones : row'[o] = IF o = q THEN new ELSE IF o = p THEN None ELSE row[o]
  BY DEF Moved
<1>4. new \in [id : 0..nextId - 1, login : Logins, deleted : BOOLEAN]
  BY <1>2
<1>5. new # None
  <2>1. new \in [id : Nat, login : Logins, deleted : BOOLEAN]
    BY <1>1, <1>4
  <2> QED BY <2>1
<1>6. \A o \in Phones : Row(o)'
  BY <1>3, <1>4 DEF IInv, Rows, Row
<1>7. UniqueIdentity'
  <2>1. \A o \in Phones \ {p} : row[o] # None => row[o].id # row[p].id /\ row[o].login # name
    BY DEF FreeFor, IInv, Rows, UniqueIdentity
  <2> QED BY <1>3, <2>1 DEF IInv, Rows, UniqueIdentity
<1>8. EveryAccountAccountedFor'
  <2>1. Kept' = (Kept \ {p}) \cup {q} /\ p \in Kept /\ q \notin Kept \ {p} /\ Erased' = Erased
    BY <1>3, <1>5 DEF FreeFor, Kept, Erased
  <2>2. IsFiniteSet(Kept \ {p}) /\ Cardinality(Kept \ {p}) = Cardinality(Kept) - 1
    BY <2>1, Counted, FS_RemoveElement
  <2>3. Cardinality(Kept') = Cardinality(Kept \ {p}) + 1
    BY <2>1, <2>2, FS_AddElement
  <2>4. Cardinality(Kept') = Cardinality(Kept)
    BY <2>2, <2>3, Counted
  <2> QED BY <2>1, <2>4, Counted, StillCounted
<1> QED BY <1>3, <1>6, <1>7, <1>8 DEF IInv, Rows

\* recover-me's UPDATE and delete-me's change a row and nothing it is known by.
LEMMA SameIdentities ==
  ASSUME IInv, NEW p \in Phones, NEW d \in BOOLEAN, row[p] # None,
         row' = [row EXCEPT ![p].deleted = d], UNCHANGED <<nextId, purged, erased>>
  PROVE  Rows'
<1>1. row = [q \in Phones |-> row[q]]
  BY DEF IInv, Rows
<1>2. row[p] \in [id : 0..nextId - 1, login : Logins, deleted : BOOLEAN]
  BY DEF IInv, Rows, Row
<1>3. row[p].login \in Logins
  BY <1>2
<1>4. [row[p] EXCEPT !.deleted = d] = [id |-> row[p].id, login |-> row[p].login, deleted |-> d]
  BY <1>2
<1>5. row' = [row EXCEPT ![p] = [row[p] EXCEPT !.deleted = d]]
  BY <1>1
<1>6. Moved(p, p, [id |-> row[p].id, login |-> row[p].login, deleted |-> d])
  BY <1>1, <1>4, <1>5 DEF Moved
<1>7. FreeFor(p, p, row[p].login)
  BY DEF FreeFor, IInv, Rows, UniqueIdentity
<1> QED BY <1>3, <1>6, <1>7, RowMoved

LEMMA RestoreStep ==
  ASSUME IInv, NEW r \in Requests, Restore(r)
  PROVE  IInv'
<1> DEFINE p == call[r].phone
<1>1. /\ pc[r] = "restore" /\ UNCHANGED <<nextId, purged, erased, otp, verified, together>>
      /\ \/ row[p] # None /\ row' = [row EXCEPT ![p].deleted = FALSE] /\ Reach(r, "done")
         \/ Goto(r, "failed") /\ UNCHANGED row
  BY DEF Restore, redis
<1>2. pc[r] \in Running
  BY <1>1 DEF Running, Labels
<1>3. p \in Phones /\ ~erased[r]
  BY <1>1, <1>2, Knows DEF ErasedOnce
<1>4. PICK l \in {"done", "failed"} : Goto(r, l)
  BY <1>1 DEF Reach
<1>5. Calls'
  BY <1>1, <1>2, <1>4, GotoKeeps DEF Labels, Running
<1>6. Redis'
  BY <1>1, <1>4, RedisKept DEF Readers, redis
<1>7. Rows'
  BY <1>1, <1>3, SameIdentities, RowsKept
<1> QED BY <1>5, <1>6, <1>7 DEF IInv

LEMMA UpdateStep ==
  ASSUME IInv, NEW r \in Requests, Update(r)
  PROVE  IInv'
<1>1. /\ pc[r] = "update" /\ UNCHANGED <<nextId, purged, erased, otp, verified, together>>
      /\ Reach(r, "done")
  BY DEF Update, redis
<1>2. PICK p \in Home(call[r].user), q \in Phones, name \in Logins :
        /\ \A o \in Phones \ {p} : row[o] # None => o # q /\ row[o].login # name
        /\ row' = [row EXCEPT ![p] = None, ![q] = [row[p] EXCEPT !.login = name]]
  BY DEF Update
<1>3. p \in Phones /\ row[p] # None
  BY DEF Home
<1>4. row[p] \in [id : 0..nextId - 1, login : Logins, deleted : BOOLEAN]
  BY <1>3 DEF IInv, Rows, Row
<1>5. /\ [row[p] EXCEPT !.login = name] = [id |-> row[p].id, login |-> name, deleted |-> row[p].deleted]
      /\ row[p].deleted \in BOOLEAN
  BY <1>4
<1>11. FreeFor(p, q, name) /\ Moved(p, q, [id |-> row[p].id, login |-> name, deleted |-> row[p].deleted])
  BY <1>2, <1>3, <1>5 DEF FreeFor, Moved, IInv, Rows
<1>6. Rows'
  BY <1>1, <1>3, <1>5, <1>11, RowMoved
<1>7. PICK l \in {"done", "failed"} : Goto(r, l)
  BY <1>1 DEF Reach
<1>8. pc[r] \in Running
  BY <1>1 DEF Running, Labels
<1>9. Calls'
  BY <1>1, <1>7, <1>8, GotoKeeps DEF Labels, Running
<1>10. Redis'
  BY <1>1, <1>7, RedisKept DEF Readers, redis
<1> QED BY <1>6, <1>9, <1>10 DEF IInv

\* One row less and one erased or purged more: recreate-me's DELETE and the
\* administrator's.
LEMMA RowRemoved ==
  ASSUME IInv, NEW p \in Phones, row[p] # None, row' = [row EXCEPT ![p] = None],
         erased' \in [Requests -> BOOLEAN], UNCHANGED nextId, purged' \in Nat,
         Cardinality(Erased') + purged' = Cardinality(Erased) + purged + 1,
         Cardinality(Erased') \in Nat
  PROVE  Rows'
<1>1. row' = [q \in Phones |-> row'[q]] /\ \A q \in Phones : row'[q] = IF q = p THEN None ELSE row[q]
  BY DEF IInv, Rows
<1>2. Kept' = Kept \ {p} /\ p \in Kept
  BY <1>1 DEF Kept
<1>3. Cardinality(Kept') = Cardinality(Kept) - 1
  BY <1>2, Counted, FS_RemoveElement
<1>4. EveryAccountAccountedFor'
  BY <1>3, Counted, StillCounted
<1>5. (\A q \in Phones : Row(q)') /\ UniqueIdentity'
  BY <1>1 DEF IInv, Rows, Row, UniqueIdentity
<1> QED BY <1>1, <1>4, <1>5 DEF IInv, Rows

\* recreate-me's DELETE.
LEMMA EraseStep ==
  ASSUME IInv, NEW r \in Requests, Erase(r)
  PROVE  IInv'
<1> DEFINE p == call[r].phone
<1>1. /\ pc[r] = "erase" /\ UNCHANGED <<nextId, purged, otp, verified, together>>
      /\ \/ /\ row[p] # None /\ row' = [row EXCEPT ![p] = None]
            /\ erased' = [erased EXCEPT ![r] = TRUE] /\ Reach(r, "insert")
         \/ Goto(r, "failed") /\ UNCHANGED <<row, erased>>
  BY DEF Erase, redis
<1>2. pc[r] \in Running
  BY <1>1 DEF Running, Labels
<1>3. p \in Phones /\ ~erased[r] /\ call[r].op = "recreate"
  BY <1>1, <1>2, Knows DEF Fits, ErasedOnce
<1>4. PICK l \in {"insert", "failed"} : Goto(r, l)
  BY <1>1 DEF Reach
<1>5. Redis'
  BY <1>1, <1>4, RedisKept DEF Readers, redis
<1>6. CASE UNCHANGED <<row, erased>>
  <2>1. Calls'
    BY <1>1, <1>2, <1>3, <1>4, <1>6, GotoKeeps DEF Fits, Labels
  <2> QED BY <1>1, <1>5, <1>6, <2>1, RowsKept DEF IInv
<1>7. CASE row[p] # None /\ row' = [row EXCEPT ![p] = None] /\ erased' = [erased EXCEPT ![r] = TRUE]
  <2>1. erased' \in [Requests -> BOOLEAN] /\ \A q \in Requests : erased'[q] <=> erased[q] \/ q = r
    BY <1>7 DEF IInv, Rows
  <2>2. \A q \in Requests \ {r} : erased'[q] = erased[q]
    BY <1>7 DEF IInv, Rows
  <2>3. Calls'
    BY <1>1, <1>2, <1>3, <1>4, <1>7, <2>2, GotoKeeps DEF Fits, Labels
  <2>4. Erased' = Erased \cup {r} /\ r \notin Erased
    BY <1>3, <2>1 DEF Erased
  <2>5. Cardinality(Erased') = Cardinality(Erased) + 1
    BY <2>4, Counted, FS_AddElement
  <2>6. Rows'
    <3>1. /\ Cardinality(Erased') + purged' = Cardinality(Erased) + purged + 1
          /\ Cardinality(Erased') \in Nat /\ purged' \in Nat
      BY <1>1, <2>5, Counted
    <3> QED BY <1>1, <1>3, <1>7, <2>1, <3>1, RowRemoved
  <2> QED BY <1>5, <2>3, <2>6 DEF IInv
<1> QED BY <1>1, <1>6, <1>7

\* The INSERT of signup and recreate-me: a new id, and a login nobody has.
LEMMA InsertStep ==
  ASSUME IInv, NEW r \in Requests, Insert(r)
  PROVE  IInv'
<1> DEFINE p == call[r].phone
           n == call[r].login
<1>1. /\ pc[r] = "insert" /\ row[p] = None /\ ~Taken(n) /\ Reach(r, "done")
      /\ row' = [row EXCEPT ![p] = User(nextId, n)] /\ nextId' = nextId + 1
      /\ UNCHANGED <<purged, otp, verified, together, erased>>
  BY DEF Insert, redis
<1>2. pc[r] \in Running
  BY <1>1 DEF Running, Labels
<1>3. p \in Phones /\ n \in Logins
  BY <1>1, <1>2, Knows DEF Fits
<1>14. PICK l \in {"done", "failed"} : Goto(r, l)
  BY <1>1 DEF Reach
<1>4. Redis'
  BY <1>1, <1>14, RedisKept DEF Readers, redis
<1>5. Calls'
  BY <1>1, <1>2, <1>14, GotoKeeps DEF Running, Labels
<1>6. nextId \in Nat \ {0} /\ User(nextId, n) # None
  BY <1>3, NoneIsNoUser DEF IInv, Rows
<1>7. /\ row' = [q \in Phones |-> row'[q]]
      /\ \A q \in Phones : row'[q] = IF q = p THEN User(nextId, n) ELSE row[q]
  BY <1>1, <1>3 DEF IInv, Rows
<1>8. ASSUME NEW q \in Phones, row[q] # None
      PROVE  /\ row[q].id \in 0..nextId - 1 /\ row[q].login # n
             /\ row[q] \in [id : 0..nextId' - 1, login : Logins, deleted : BOOLEAN]
  <2>1. row[q] \in [id : 0..nextId - 1, login : Logins, deleted : BOOLEAN]
    BY <1>8 DEF IInv, Rows, Row
  <2>2. row[q].login # n
    BY <1>1, <1>8 DEF Taken
  <2>3. 0..nextId - 1 \subseteq 0..nextId' - 1
    BY <1>1, <1>6
  <2> QED BY <2>1, <2>2, <2>3
<1>9. User(nextId, n) \in [id : 0..nextId' - 1, login : Logins, deleted : BOOLEAN]
  BY <1>1, <1>3, <1>6 DEF User
<1>10. \A q \in Phones : Row(q)'
  BY <1>7, <1>8, <1>9 DEF Row
<1>11. UniqueIdentity'
  <2>1. User(nextId, n).login = n /\ User(nextId, n).id = nextId
    BY DEF User
  <2>2. \A q \in Phones : row[q] # None => row[q].id # nextId /\ row[q].login # n
    BY <1>6, <1>8
  <2> QED BY <1>7, <2>1, <2>2 DEF IInv, Rows, UniqueIdentity
<1>12. EveryAccountAccountedFor'
  <2>1. Kept' = Kept \cup {p} /\ p \notin Kept /\ Erased' = Erased
    BY <1>1, <1>3, <1>6, <1>7 DEF Kept, Erased
  <2>2. Cardinality(Kept') = Cardinality(Kept) + 1
    BY <2>1, Counted, FS_AddElement
  <2> QED BY <1>1, <2>1, <2>2, Counted, StillCounted
<1>13. Rows'
  BY <1>1, <1>6, <1>7, <1>10, <1>11, <1>12 DEF IInv, Rows
<1> QED BY <1>4, <1>5, <1>13 DEF IInv

\* A request arrives with any body.
LEMMA ArriveStep ==
  ASSUME IInv, NEW r \in Requests, Arrive(r)
  PROVE  IInv'
<1>1. PICK body \in AllBodies :
        /\ pc[r] = "idle" /\ call' = [call EXCEPT ![r] = body]
        /\ pc' = [pc EXCEPT ![r] = First[body.op]]
        /\ UNCHANGED <<row, nextId, purged, otp, verified, together, erased>>
  BY DEF Arrive, users, redis
<1>2. /\ First[body.op] \in {"compare", "check", "flag", "lookup"}
      /\ Fits(First[body.op], body)
  BY BodyShape, FirstShape DEF First, Fits
<1>3. pc' \in [Requests -> Labels] /\ call' = [q \in Requests |-> call'[q]]
  BY <1>1, <1>2 DEF IInv, Calls, Labels
<1>4. ASSUME NEW q \in Requests
      PROVE  /\ call'[q] \in IF pc'[q] \in Running THEN AllBodies ELSE {None}
             /\ pc'[q] \in Running => Fits(pc'[q], call'[q])
             /\ ErasedOnce(q)'
  <2>1. CASE q = r
    <3>1. pc'[q] = First[body.op] /\ call'[q] = body
      BY <1>1, <2>1 DEF IInv, Calls
    <3>2. First[body.op] \in Running
      BY <1>2 DEF Running, Labels
    <3>3. ~erased[r]
      BY <1>1 DEF IInv, Calls, ErasedOnce
    <3> QED BY <1>1, <1>2, <2>1, <3>1, <3>2, <3>3 DEF ErasedOnce
  <2>2. CASE q # r
    <3>1. pc'[q] = pc[q] /\ call'[q] = call[q]
      BY <1>1, <2>2 DEF IInv, Calls
    <3> QED BY <1>1, <3>1 DEF IInv, Calls, ErasedOnce
  <2> QED BY <2>1, <2>2
<1>5. Calls'
  <2>1. AllBodies \subseteq AllBodies'
    BY <1>1, BodiesGrow DEF IInv, Rows
  <2> QED BY <1>3, <1>4, <2>1 DEF Calls
<1>6. Redis'
  <2>1. \A q \in Requests : pc'[q] \in Readers => pc'[q] = pc[q] /\ call'[q] = call[q]
    BY <1>1, <1>2 DEF IInv, Calls, Readers
  <2>2. UNCHANGED <<otp, verified, together>>
    BY <1>1
  <2>3. \A k \in Readers, p \in Phones : Stored(k, p)' => Stored(k, p)
    BY <2>2 DEF Stored
  <2>4. otp' \in [Phones -> Codes \cup {None}] /\ verified' \in [Phones -> BOOLEAN]
    BY <2>2 DEF IInv, Redis
  <2> QED BY <2>1, <2>2, <2>3, <2>4, ExpiryKeeps
<1> QED BY <1>1, <1>5, <1>6, RowsKept DEF IInv

\* The requests stay as they are while the owner, an administrator or Redis acts.
LEMMA CallsKept ==
  ASSUME IInv, UNCHANGED <<pc, call, nextId, erased>>
  PROVE  Calls'
<1>1. AllBodies \subseteq AllBodies'
  BY BodiesGrow DEF IInv, Rows
<1> QED BY <1>1 DEF IInv, Calls, ErasedOnce

LEMMA PhoneSteps ==
  ASSUME IInv, NEW p \in Phones, SendOtp(p) \/ Expire(p) \/ SoftDelete(p) \/ HardDelete(p)
  PROVE  IInv'
<1>1. UNCHANGED <<pc, call, erased, nextId>>
  BY DEF SendOtp, Expire, SoftDelete, HardDelete, users, redis
<1>2. otp \in [Phones -> Codes \cup {None}] /\ verified \in [Phones -> BOOLEAN]
  BY DEF IInv, Redis
<1>3. Redis'
  <2>1. CASE SendOtp(p)
    <3>1. PICK c \in Codes : otp' = [otp EXCEPT ![p] = c]
      BY <2>1 DEF SendOtp
    <3>2. otp' \in [Phones -> Codes \cup {None}] /\ verified' = verified /\ Renew("dropcode", p)
      BY <1>2, <2>1, <3>1 DEF SendOtp
    <3>3. \A k \in Readers, q \in Phones : (k # "dropcode" \/ q # p) /\ Stored(k, q)' => Stored(k, q)
      BY <1>2, <3>1, <3>2 DEF Stored
    <3> QED BY <1>1, <1>2, <3>2, <3>3, RenewKeeps DEF Readers
  <2>2. CASE Expire(p)
    <3>1. /\ otp' \in [Phones -> Codes \cup {None}]
          /\ \A q \in Phones : otp'[q] # None => otp[q] # None
      BY <1>2, <2>2 DEF Expire
    <3>2. verified' = verified \/ verified' = [verified EXCEPT ![p] = FALSE]
      BY <2>2 DEF Expire
    <3>3. verified' \in [Phones -> BOOLEAN]
      BY <1>2, <3>2, Zenon
    <3>4. \A q \in Phones : verified'[q] => verified[q]
      BY <1>2, <3>2
    <3>5. \A k \in Readers, q \in Phones : Stored(k, q)' => Stored(k, q)
      BY <3>1, <3>4 DEF Stored
    <3> QED BY <1>1, <2>2, <3>1, <3>3, <3>5, ExpiryKeeps DEF Expire
  <2>3. CASE SoftDelete(p) \/ HardDelete(p)
    <3>1. UNCHANGED <<otp, verified, together>>
      BY <2>3 DEF SoftDelete, HardDelete, redis
    <3> QED BY <1>1, <1>2, <3>1, ExpiryKeeps DEF Stored
  <2> QED BY <2>1, <2>2, <2>3
<1>4. Rows'
  <2>1. CASE SoftDelete(p)
    BY <1>1, <2>1, SameIdentities DEF SoftDelete
  <2>2. CASE HardDelete(p)
    <3>1. row[p] # None /\ row' = [row EXCEPT ![p] = None] /\ purged' = purged + 1
      BY <2>2 DEF HardDelete
    <3>2. Erased' = Erased /\ erased' \in [Requests -> BOOLEAN]
      BY <1>1 DEF Erased, IInv, Rows
    <3>3. /\ Cardinality(Erased') + purged' = Cardinality(Erased) + purged + 1
          /\ Cardinality(Erased') \in Nat /\ purged' \in Nat
      BY <3>1, <3>2, Counted
    <3> QED BY <1>1, <3>1, <3>2, <3>3, RowRemoved
  <2>3. CASE SendOtp(p) \/ Expire(p)
    BY <1>1, <2>3, RowsKept DEF SendOtp, Expire, users
  <2> QED BY <2>1, <2>2, <2>3
<1> QED BY <1>1, <1>3, <1>4, CallsKept DEF IInv

\* Requests, flags and rows agree in every behaviour.
THEOREM AccountsInvariance == Spec => []IInv
<1>1. IInv /\ [Next]_vars => IInv'
  <2> SUFFICES ASSUME IInv, [Next]_vars PROVE IInv'
    OBVIOUS
  <2>1. CASE UNCHANGED vars
    <3>1. UNCHANGED <<row, nextId, purged, otp, verified, together, pc, call, erased>>
      BY <2>1 DEF vars, users, redis
    <3>2. Redis'
      BY <3>1 DEF IInv, Redis, Stored
    <3> QED BY <3>1, <3>2, CallsKept, RowsKept DEF IInv
  <2>2. ASSUME NEW r \in Requests, Arrive(r) \/ Step(r) \/ Failure(r) PROVE IInv'
    BY <2>2, ArriveStep, VerifySteps, CheckSteps, RestoreStep, EraseStep, InsertStep,
       UpdateStep DEF Step
  <2>3. ASSUME NEW p \in Phones, SendOtp(p) \/ Expire(p) \/ SoftDelete(p) \/ HardDelete(p)
        PROVE  IInv'
    BY <2>3, PhoneSteps
  <2> QED BY <2>1, <2>2, <2>3 DEF Next
<1> QED BY InitEstablishes, <1>1, PTL DEF Spec

\* Every variable keeps its type; a request that has ended has dropped its body.
THEOREM AccountsTypeCorrect == Spec => []TypeOK
BY TypesFollow, AccountsInvariance, PTL

\* No two accounts ever share a login or an id.
THEOREM IdentitiesStayUnique == Spec => []UniqueIdentity
<1>1. IInv => UniqueIdentity
  BY DEF IInv, Rows
<1> QED BY <1>1, AccountsInvariance, PTL

\* Accounts opened are accounts there, erased by a recreate-me, each once, or
\* deleted by an administrator.
THEOREM AccountsAddUp == Spec => []EveryAccountAccountedFor
<1>1. IInv => EveryAccountAccountedFor
  BY DEF IInv, Rows
<1> QED BY <1>1, AccountsInvariance, PTL

\* Two requests are served by one code or one flag only if both had read it when
\* the first of them deleted it.
THEOREM ServedTogether == Spec => SpentTogether
<1> DEFINE Sound == \A r \in Requests :
              pc[r] \in {"dropcode", "unflag"} /\ pc'[r] \in {"mark", "find", "erase", "insert"} =>
                  r \in together'[pc[r]][call[r].phone]
<1>1. IInv /\ [Next]_vars => [Sound]_vars
  <2> SUFFICES ASSUME IInv, Next, NEW r \in Requests, pc[r] \in {"dropcode", "unflag"},
                      pc'[r] \in {"mark", "find", "erase", "insert"}
               PROVE  r \in together'[pc[r]][call[r].phone]
    OBVIOUS
  <2>1. pc'[r] # pc[r]
    OBVIOUS
  <2>2. ASSUME NEW q \in Requests, Arrive(q) \/ Step(q) \/ Failure(q)
        PROVE  q = r /\ (DropCode(r) \/ Unflag(r))
    <3>1. q = r
      BY <2>1, <2>2 DEF Arrive, Step, Failure, Compare, DropCode, Mark, Check, Flag, Unflag, Find,
            Restore, Erase, Insert, InsertConflict, Lookup, Update, UpdateRefused, Continue, Reach,
            Goto, IInv, Calls
    <3>2. ~Failure(r)
      BY GotoFrame DEF Failure
    <3> QED BY <2>2, <3>1, <3>2 DEF Arrive, Step, Compare, Mark, Check, Flag, Find,
            Restore, Erase, Insert, InsertConflict, Lookup, Update, UpdateRefused
  <2>3. ASSUME NEW p \in Phones, SendOtp(p) \/ Expire(p) \/ SoftDelete(p) \/ HardDelete(p) PROVE FALSE
    BY <2>1, <2>3 DEF SendOtp, Expire, SoftDelete, HardDelete
  <2> QED BY <2>2, <2>3, Deletes DEF Next
<1> QED BY <1>1, AccountsInvariance, PTL DEF Spec, SpentTogether

-----------------------------------------------------------------------------
(* When recreate-me spares live accounts                                     *)

\* A recreate-me that has passed its check and not yet reached its INSERT.
Replacing(r) == pc[r] \in {"flag", "unflag", "erase"} /\ call[r].op = "recreate"

\* Beside it runs no recover-me and no other recreate-me of its phone, nor an
\* update-me that had found the account before its delete-me.  Nothing in the code
\* sees to it: one verified flag may be read by both before either deletes it.
RecreatesAlone ==
    \A r \in Requests : Replacing(r) =>
        \A q \in Requests \ {r} :
            /\ pc[q] \in Running /\ call[q].op \in {"recover", "recreate"} =>
                  call[q].phone # call[r].phone
            /\ pc[q] = "update" => call[r].phone \notin Home(call[q].user)

\* Nor does an administrator delete the account it is about to replace.
PurgesElsewhere ==
    \A r \in Requests : Replacing(r) /\ row'[call[r].phone] = None => purged' = purged

\* Past its check, a recreate-me still has a soft-deleted account before it.
StillDeleted == \A r \in Requests : Replacing(r) => IsDeleted(call[r].phone)

LEMMA ReplacingKnows ==
  ASSUME IInv, NEW r \in Requests, Replacing(r)
  PROVE  pc[r] \in Running /\ call[r].phone \in Phones
<1>1. pc[r] \in Running
  BY DEF Replacing, Running, Labels
<1> QED BY <1>1, Knows DEF Replacing

\* Whoever is replacing after a step of another request was so before.
LEMMA ReplacersStay ==
  ASSUME IInv, NEW r \in Requests, NEW l, Goto(r, l), l \notin {"flag", "unflag", "erase"},
         NEW q \in Requests, Replacing(q)'
  PROVE  q # r /\ Replacing(q) /\ call'[q] = call[q]
BY GotoFrame DEF Replacing

\* Steps that keep the rows: a request comes to replace an account only by finding
\* it soft-deleted.
LEMMA IdleSteps ==
  ASSUME IInv, StillDeleted, row' = row, NEW r \in Requests, Arrive(r) \/ Step(r) \/ Failure(r)
  PROVE  StillDeleted'
<1>1. ASSUME NEW q \in Requests, Replacing(q)'
      PROVE  call'[q] = call[q] /\ (Replacing(q) \/ IsDeleted(call[q].phone))
  <2>1. CASE Arrive(r)
    <3>1. PICK body \in AllBodies :
            call' = [call EXCEPT ![r] = body] /\ pc' = [pc EXCEPT ![r] = First[body.op]]
      BY <2>1 DEF Arrive
    <3>2. q # r
      BY <1>1, <3>1 DEF Replacing, First, IInv, Calls
    <3>3. pc'[q] = pc[q] /\ call'[q] = call[q]
      BY <3>1, <3>2 DEF IInv, Calls
    <3> QED BY <1>1, <3>3 DEF Replacing
  <2>2. CASE Step(r) \/ Failure(r)
    <3>1. PICK l \in Labels : Goto(r, l)
      BY <2>2, Knows DEF Step, Failure, Compare, DropCode, Mark, Check, Flag, Unflag, Find, Restore, Erase,
            Insert, InsertConflict, Lookup, Update, UpdateRefused, Continue, Reach, Paid, Fits, Running, Labels
    <3>2. CASE q # r
      <4>1. pc'[q] = pc[q] /\ call'[q] = call[q]
        BY <3>1, <3>2, GotoFrame
      <4> QED BY <1>1, <4>1 DEF Replacing
    <3>3. CASE q = r
      <4>1. /\ pc'[q] = l /\ l \in {"flag", "unflag", "erase"} /\ call'[q] = call[q]
            /\ call[q].op = "recreate"
        BY <1>1, <3>1, <3>3, GotoFrame DEF Replacing
      <4>2. Check(r) \/ Flag(r) \/ Unflag(r)
        BY <2>2, <3>3, <4>1, GotoFrame DEF Step, Failure, Compare, DropCode, Mark, Find, Restore, Erase,
              Insert, InsertConflict, Lookup, Update, UpdateRefused, Continue, Reach
      <4>3. CASE Check(r)
        <5>1. IF IsDeleted(call[q].phone) THEN TRUE ELSE Goto(r, "refused")
          BY <3>3, <4>1, <4>3 DEF Check, Continue
        <5>2. ~Goto(r, "refused")
          BY <3>3, <4>1, GotoFrame
        <5> QED BY <4>1, <5>1, <5>2
      <4>4. CASE Flag(r) \/ Unflag(r)
        BY <3>3, <4>1, <4>4 DEF Flag, Unflag, Replacing
      <4> QED BY <4>1, <4>2, <4>3, <4>4
    <3> QED BY <3>2, <3>3
  <2> QED BY <2>1, <2>2
<1>2. ASSUME NEW q \in Requests, Replacing(q)' PROVE IsDeleted(call'[q].phone)
  BY <1>1, <1>2 DEF StillDeleted
<1> QED BY <1>2 DEF StillDeleted, IsDeleted

\* The steps that change a row: none takes the soft-deleted account from under
\* another's recreate-me, for restorations and erasures are of other phones, an
\* update moves another account, and an INSERT needs a free phone.
LEMMA RowSteps ==
  ASSUME IInv, StillDeleted, RecreatesAlone, NEW r \in Requests,
         Restore(r) \/ Erase(r) \/ Insert(r) \/ Update(r)
  PROVE  StillDeleted'
<1>1. PICK l \in {"done", "failed", "insert"} : Goto(r, l)
  BY DEF Restore, Erase, Insert, Update, Reach
<1>2. ASSUME NEW q \in Requests, Replacing(q)' PROVE IsDeleted(call[q].phone)'
  <2>1. q # r /\ Replacing(q) /\ call'[q] = call[q]
    BY <1>1, <1>2, ReplacersStay
  <2>2. PICK p \in Phones : p = call[q].phone
    BY <2>1, ReplacingKnows
  <2>3. row[p] # None /\ row[p].deleted
    BY <2>1, <2>2 DEF StillDeleted, IsDeleted
  <2>4. CASE Restore(r) \/ Erase(r)
    <3>1. pc[r] \in Running /\ call[r].op \in {"recover", "recreate"}
      BY <2>4, Knows DEF Restore, Erase, Fits, Running, Labels
    <3>2. call[r].phone # p
      BY <2>1, <2>2, <3>1 DEF RecreatesAlone
    <3>3. row'[p] = row[p]
      BY <2>4, <3>2 DEF Restore, Erase, IInv, Rows
    <3> QED BY <2>1, <2>2, <2>3, <3>3 DEF IsDeleted
  <2>5. CASE Insert(r)
    <3>1. row'[p] = row[p]
      BY <2>3, <2>5 DEF Insert, IInv, Rows
    <3> QED BY <2>1, <2>2, <2>3, <3>1 DEF IsDeleted
  <2>6. CASE Update(r)
    <3>1. PICK h \in Home(call[r].user), o \in Phones, name \in Logins :
            /\ \A i \in Phones \ {h} : row[i] # None => i # o /\ row[i].login # name
            /\ row' = [row EXCEPT ![h] = None, ![o] = [row[h] EXCEPT !.login = name]]
      BY <2>6 DEF Update
    <3>2. pc[r] = "update" /\ p \notin Home(call[r].user)
      BY <2>1, <2>2, <2>6 DEF Update, RecreatesAlone
    <3>3. p # h /\ p # o
      BY <2>3, <3>1, <3>2
    <3>4. row'[p] = row[p]
      BY <3>1, <3>3 DEF IInv, Rows
    <3> QED BY <2>1, <2>2, <2>3, <3>4 DEF IsDeleted
  <2> QED BY <2>4, <2>5, <2>6
<1> QED BY <1>2 DEF StillDeleted

\* delete-me only makes more accounts soft-deleted.
LEMMA PhonesKeepDeleted ==
  ASSUME IInv, StillDeleted, PurgesElsewhere, NEW p \in Phones,
         SendOtp(p) \/ Expire(p) \/ SoftDelete(p) \/ HardDelete(p)
  PROVE  StillDeleted'
<1>1. UNCHANGED <<pc, call>>
  BY DEF SendOtp, Expire, SoftDelete, HardDelete
<1>2. ASSUME NEW r \in Requests, Replacing(r)' PROVE IsDeleted(call[r].phone)'
  <2>1. Replacing(r) /\ call'[r] = call[r]
    BY <1>1, <1>2 DEF Replacing
  <2>2. PICK q \in Phones : q = call[r].phone
    BY <2>1, ReplacingKnows
  <2>3. row[q] # None /\ row[q].deleted
    BY <2>1, <2>2 DEF StillDeleted, IsDeleted
  <2>4. row'[q] = row[q]
    <3>1. CASE SendOtp(p) \/ Expire(p)
      BY <3>1 DEF SendOtp, Expire, users
    <3>2. CASE SoftDelete(p)
      BY <2>3, <3>2 DEF SoftDelete, IInv, Rows
    <3>3. CASE HardDelete(p)
      <4>1. purged' # purged
        BY <3>3 DEF HardDelete, IInv, Rows
      <4>2. row'[q] # None
        BY <2>1, <2>2, <4>1 DEF PurgesElsewhere
      <4> QED BY <3>3, <4>2 DEF HardDelete, IInv, Rows
    <3> QED BY <3>1, <3>2, <3>3
  <2> QED BY <2>1, <2>2, <2>3, <2>4 DEF IsDeleted
<1> QED BY <1>2 DEF StillDeleted

\* A row that is set again without changing its id is still there.
LEMMA SameId ==
  ASSUME IInv, NEW p \in Phones, NEW d \in BOOLEAN, row[p] # None,
         row' = [row EXCEPT ![p].deleted = d]
  PROVE  row'[p] # None /\ row'[p].id = row[p].id
<1>1. row[p] \in [id : 0..nextId - 1, login : Logins, deleted : BOOLEAN] /\ nextId \in Nat
  BY DEF IInv, Rows, Row
<1>2. row'[p] = [id |-> row[p].id, login |-> row[p].login, deleted |-> d]
  BY <1>1 DEF IInv, Rows
<1>3. row'[p] \in [id : Nat, login : Logins, deleted : BOOLEAN]
  BY <1>1, <1>2
<1> QED BY <1>2, <1>3

\* It is enough for recreate-me to spare every live account that no recover-me, no
\* other recreate-me, no earlier update-me and no hard delete meets it at its
\* account: signups, delete-mes, verifications, failures and lost answers beside
\* it, and anything on other phones, do it no harm.
THEOREM OnlyRacesDestroyAccounts ==
    Spec /\ []RecreatesAlone /\ [][PurgesElsewhere]_vars => LiveAccountsSurvive
<1> DEFINE Spared(p) == \/ \E q \in Phones : row'[q] # None /\ row'[q].id = row[p].id
                       \/ purged' > purged
           Sound == \A p \in Phones : row[p] # None /\ ~row[p].deleted =>
              \/ \E q \in Phones : row'[q] # None /\ row'[q].id = row[p].id
              \/ purged' > purged
<1>1. Init => StillDeleted
  BY DEF Init, StillDeleted, Replacing
<1>2. IInv /\ StillDeleted /\ RecreatesAlone /\ [Next]_vars /\ [PurgesElsewhere]_vars => StillDeleted'
  <2> SUFFICES ASSUME IInv, StillDeleted, RecreatesAlone, [Next]_vars, [PurgesElsewhere]_vars
               PROVE  StillDeleted'
    OBVIOUS
  <2>1. CASE UNCHANGED vars
    BY <2>1 DEF vars, users, StillDeleted, Replacing, IsDeleted
  <2>2. CASE Next /\ PurgesElsewhere
    <3>1. ASSUME NEW r \in Requests, Arrive(r) \/ Step(r) \/ Failure(r) PROVE StillDeleted'
      <4>1. CASE Restore(r) \/ Erase(r) \/ Insert(r) \/ Update(r)
        BY <4>1, RowSteps
      <4>2. CASE ~(Restore(r) \/ Erase(r) \/ Insert(r) \/ Update(r))
        <5>1. row' = row
          BY <3>1, <4>2 DEF Arrive, Step, Failure, Compare, DropCode, Mark, Check, Flag, Unflag, Find,
                InsertConflict, Lookup, UpdateRefused, users
        <5> QED BY <3>1, <5>1, IdleSteps
      <4> QED BY <4>1, <4>2
    <3> QED BY <2>2, <3>1, PhonesKeepDeleted DEF Next
  <2> QED BY <2>1, <2>2
<1>3. IInv /\ StillDeleted /\ [Next]_vars => [Sound]_vars
  <2> SUFFICES ASSUME IInv, StillDeleted, Next, NEW p \in Phones, row[p] # None, ~row[p].deleted
               PROVE  Spared(p)
    OBVIOUS
  <2>0. ASSUME row'[p] = row[p] PROVE Spared(p)
    BY <2>0
  <2>1. ASSUME NEW r \in Requests, Erase(r) PROVE Spared(p)
    <3>1. pc[r] = "erase" /\ call[r].op = "recreate"
      BY <2>1, Knows DEF Erase, Fits, Running, Labels
    <3>2. p # call[r].phone
      BY <3>1 DEF StillDeleted, Replacing, IsDeleted
    <3>3. row'[p] = row[p]
      BY <2>1, <3>2 DEF Erase, IInv, Rows
    <3> QED BY <2>0, <3>3
  <2>2. ASSUME NEW r \in Requests, Restore(r) PROVE Spared(p)
    <3>1. CASE p = call[r].phone /\ row' = [row EXCEPT ![p].deleted = FALSE]
      BY <3>1, SameId
    <3>2. CASE ~(p = call[r].phone /\ row' = [row EXCEPT ![p].deleted = FALSE])
      <4>1. row'[p] = row[p]
        BY <2>2, <3>2 DEF Restore, IInv, Rows
      <4> QED BY <2>0, <4>1
    <3> QED BY <3>1, <3>2
  <2>3. ASSUME NEW r \in Requests, Insert(r) PROVE Spared(p)
    <3>1. row'[p] = row[p]
      BY <2>3 DEF Insert, IInv, Rows
    <3> QED BY <2>0, <3>1
  <2>4. ASSUME NEW r \in Requests, Update(r) PROVE Spared(p)
    <3>1. PICK h \in Home(call[r].user), o \in Phones, name \in Logins :
            /\ \A i \in Phones \ {h} : row[i] # None => i # o /\ row[i].login # name
            /\ row' = [row EXCEPT ![h] = None, ![o] = [row[h] EXCEPT !.login = name]]
      BY <2>4 DEF Update
    <3>2. h \in Phones /\ row[h] # None
      BY DEF Home
    <3>3. CASE p = h
      <4>1. row[h] \in [id : 0..nextId - 1, login : Logins, deleted : BOOLEAN] /\ nextId \in Nat
        BY <3>2 DEF IInv, Rows, Row
      <4>2. row'[o] = [id |-> row[h].id, login |-> name, deleted |-> row[h].deleted]
        BY <3>1, <3>2, <4>1 DEF IInv, Rows
      <4>3. row'[o] \in [id : Nat, login : Logins, deleted : BOOLEAN]
        BY <4>1, <4>2
      <4>4. row'[o] # None /\ row'[o].id = row[p].id
        BY <3>3, <4>2, <4>3
      <4> QED BY <4>4
    <3>4. CASE p # h
      <4>1. row'[p] = row[p]
        BY <3>1, <3>4 DEF IInv, Rows
      <4> QED BY <2>0, <4>1
    <3> QED BY <3>3, <3>4
  <2>5. ASSUME NEW r \in Requests, Arrive(r) \/ Step(r) \/ Failure(r),
               ~(Erase(r) \/ Restore(r) \/ Insert(r) \/ Update(r))
        PROVE  row' = row
    BY <2>5 DEF Arrive, Step, Failure, Compare, DropCode, Mark, Check, Flag, Unflag, Find,
                InsertConflict, Lookup, UpdateRefused, users
  <2>6. ASSUME NEW q \in Phones, SendOtp(q) \/ Expire(q) \/ SoftDelete(q) \/ HardDelete(q)
        PROVE  Spared(p)
    <3>1. CASE SoftDelete(q)
      <4>1. CASE p = q
        BY <3>1, <4>1, SameId DEF SoftDelete
      <4>2. CASE p # q
        BY <2>0, <3>1, <4>2 DEF SoftDelete, IInv, Rows
      <4> QED BY <4>1, <4>2
    <3>2. CASE HardDelete(q)
      BY <3>2 DEF HardDelete, IInv, Rows
    <3>3. CASE SendOtp(q) \/ Expire(q)
      BY <2>0, <3>3 DEF SendOtp, Expire, users
    <3> QED BY <2>6, <3>1, <3>2, <3>3
  <2> QED BY <2>0, <2>1, <2>2, <2>3, <2>4, <2>5, <2>6 DEF Next
<1>4. Spec /\ []RecreatesAlone /\ [][PurgesElsewhere]_vars => []StillDeleted
  BY <1>1, <1>2, AccountsInvariance, PTL DEF Spec
<1> QED BY <1>3, <1>4, AccountsInvariance, PTL DEF Spec, LiveAccountsSurvive
=============================================================================
