------------------------- MODULE NotificationsProofs --------------------------
(***************************************************************************)
(* Proofs about Notifications, for any users, logins, sockets, transfers   *)
(* and redeliveries: who is told, of what, and how often it is recorded.   *)
(***************************************************************************)
EXTENDS Notifications, TLAPS

USE NotificationsAssumption DEF NotificationsAssumption, Sides

\* The news is under the logins its parties have borne, a socket in a room its user
\* has borne the login of.
Named(t) ==
    pc[t] # "idle" => \A side \in Sides : <<transfer[t][side], transfer[t].names[side]>> \in held

Borne == \A u \in Users : login[u] # None => <<u, login[u]>> \in held

Seated(s) == socket[s] # None => <<socket[s].user, socket[s].room>> \in held

\* How often a copy of the event was recorded or is about to be, by where it is in
\* Kafka; and only a committed transfer has one.
Recorded(e) ==
    LET started == saved[e] + inserts[e] IN
    /\ topic[e] = "nothing" => started = 0
    /\ topic[e] = "stored" => started <= again[e]
    /\ topic[e] \in {"handled", "acknowledged"} => started <= 1 + again[e]
    /\ again[e] <= redeliveries
    /\ topic[e] # "nothing" => pc[e[1]] = "done"

Told(t) == \E u \in Users, side \in Sides : <<u, t, side>> \in told

IInv ==
    /\ TypeOK /\ ToldByLogin /\ Borne
    /\ socket = [s \in Sockets |-> socket[s]] /\ transfer = [t \in Transfers |-> transfer[t]]
    /\ \A s \in Sockets : Seated(s)
    /\ \A t \in Transfers : Named(t) /\ (Told(t) => pc[t] = "done")
    /\ \A e \in Copies : Recorded(e)

\* A copy is one of a transfer.
LEMMA CopiesOfTransfers == \A e \in Copies : e[1] \in Transfers
  BY DEF Copies

LEMMA InitEstablishes == Init => IInv
  BY DEF Init, IInv, TypeOK, ToldByLogin, Borne, Seated, Named, Recorded, Told

\* Logins and sockets.
LEMMA PeopleSteps ==
  ASSUME IInv,
         \/ \E u \in Users : Rename(u) \/ Leave(u)
         \/ \E s \in Sockets : Connect(s) \/ Disconnect(s)
  PROVE  IInv'
<1>1. /\ login' \in [Users -> Logins \cup {None}] /\ held \subseteq held'
      /\ held' \subseteq Users \X Logins /\ changes' \in 0..MaxChanges
      /\ UNCHANGED <<transfer, pc, topic, again, inserts, saved, told, redeliveries>>
  <2>1. ASSUME NEW u \in Users, Rename(u) PROVE <1>1!:
    BY <2>1 DEF Rename, kafka, service, IInv, TypeOK
  <2>2. ASSUME NEW u \in Users, Leave(u) PROVE <1>1!:
    BY <2>2 DEF Leave, kafka, service, IInv, TypeOK
  <2>3. ASSUME NEW s \in Sockets, Connect(s) \/ Disconnect(s) PROVE <1>1!:
    BY <2>3 DEF Connect, Disconnect, people, kafka, service, IInv, TypeOK
  <2> QED BY <2>1, <2>2, <2>3
<1>2. ASSUME NEW s \in Sockets, socket'[s] # None
      PROVE  /\ socket'[s] \in [user : Users, room : Logins]
             /\ <<socket'[s].user, socket'[s].room>> \in held'
  <2>1. CASE socket'[s] = socket[s]
    BY <1>1, <1>2, <2>1 DEF IInv, TypeOK, Seated
  <2>2. CASE socket'[s] # socket[s]
    <3>1. PICK token \in Tokens : socket'[s] = [user |-> token.user, room |-> token.login]
      <4>1. CASE \E u \in Users : Rename(u) \/ Leave(u)
        BY <2>2, <4>1 DEF Rename, Leave
      <4>2. ASSUME NEW q \in Sockets, Connect(q)
            PROVE  \E token \in Tokens : socket'[s] = [user |-> token.user, room |-> token.login]
        BY <2>2, <4>2 DEF Connect, IInv
      <4>3. ASSUME NEW q \in Sockets, Disconnect(q) PROVE FALSE
        BY <1>2, <2>2, <4>3 DEF Disconnect, IInv
      <4> QED BY <4>1, <4>2, <4>3
    <3>2. PICK pair \in held : token = [user |-> pair[1], login |-> pair[2]]
      BY <3>1 DEF Tokens
    <3>3. pair[1] \in Users /\ pair[2] \in Logins /\ pair = <<pair[1], pair[2]>>
      BY <3>2 DEF IInv, TypeOK
    <3>4. token.user = pair[1] /\ token.login = pair[2]
      BY <3>2
    <3> QED BY <1>1, <3>1, <3>2, <3>3, <3>4
  <2> QED BY <2>1, <2>2
<1>3. TypeOK'
  BY <1>1, <1>2 DEF IInv, TypeOK
<1>4. ToldByLogin' /\ \A s \in Sockets : Seated(s)'
  BY <1>1, <1>2 DEF IInv, ToldByLogin, Seated
<1>5. /\ \A t \in Transfers : Named(t)' /\ (Told(t)' => pc'[t] = "done")
      /\ \A e \in Copies : Recorded(e)'
  BY <1>1 DEF IInv, Named, Recorded, Told
<1>6. socket' = [s \in Sockets |-> socket'[s]] /\ transfer' = [t \in Transfers |-> transfer'[t]]
  BY <1>1 DEF Rename, Leave, Connect, Disconnect, IInv
<1>7. Borne'
  <2>1. ASSUME NEW u \in Users, Rename(u) PROVE Borne'
    BY <2>1 DEF Rename, IInv, TypeOK, Borne
  <2>2. ASSUME NEW u \in Users, Leave(u) PROVE Borne'
    BY <2>2 DEF Leave, IInv, TypeOK, Borne
  <2>3. ASSUME NEW s \in Sockets, Connect(s) \/ Disconnect(s) PROVE Borne'
    BY <2>3 DEF Connect, Disconnect, people, IInv, Borne
  <2> QED BY <2>1, <2>2, <2>3
<1> QED BY <1>3, <1>4, <1>5, <1>6, <1>7 DEF IInv

\* The transfer is checked: its names are of its parties.
LEMMA CheckStep ==
  ASSUME IInv, NEW t \in Transfers, Check(t)
  PROVE  IInv'
<1>1. PICK token \in Tokens, u \in Users :
        /\ login[u] # None
        /\ transfer' = [transfer EXCEPT ![t] =
             [sender |-> token.user, receiver |-> u,
              names |-> [sender |-> token.login, receiver |-> login[u]]]]
  BY DEF Check
<1>2. /\ pc[t] = "idle" /\ pc' = [pc EXCEPT ![t] = "checked"]
      /\ UNCHANGED <<login, changes, held, socket, topic, again, inserts, saved, told, redeliveries>>
  BY DEF Check, people, kafka, service
<1>3. PICK pair \in held : token = [user |-> pair[1], login |-> pair[2]]
  BY <1>1 DEF Tokens
<1>4. /\ token.user \in Users /\ token.login \in Logins /\ <<token.user, token.login>> \in held
  <2>1. pair[1] \in Users /\ pair[2] \in Logins /\ pair = <<pair[1], pair[2]>>
    BY <1>3 DEF IInv, TypeOK
  <2> QED BY <1>3, <2>1
<1>5. login[u] \in Logins /\ <<u, login[u]>> \in held
  BY <1>1 DEF IInv, TypeOK, Borne
<1>6. /\ transfer'[t].sender = token.user /\ transfer'[t].receiver = u
      /\ transfer'[t].names = [sender |-> token.login, receiver |-> login[u]]
  BY <1>1 DEF IInv
<1>7. /\ transfer'[t].names \in [Sides -> Logins]
      /\ transfer'[t].names["sender"] = token.login /\ transfer'[t].names["receiver"] = login[u]
  BY <1>4, <1>5, <1>6
<1>8. transfer'[t] \in [sender : Users, receiver : Users, names : [Sides -> Logins]]
  <2>1. transfer'[t] = [sender |-> token.user, receiver |-> u, names |-> transfer'[t].names]
    BY <1>1, <1>6 DEF IInv
  <2> QED BY <1>4, <1>7, <2>1
<1>9. \A q \in Transfers : q # t => transfer'[q] = transfer[q] /\ pc'[q] = pc[q]
  BY <1>1, <1>2 DEF IInv, TypeOK
<1>10. pc' \in [Transfers -> {"idle", "checked", "committed", "done", "failed", "silent"}] /\ pc'[t] = "checked"
  BY <1>2 DEF IInv, TypeOK
<1>11. TypeOK'
  BY <1>2, <1>8, <1>9, <1>10 DEF IInv, TypeOK
<1>12. ~Told(t) /\ \A e \in Copies : e[1] = t => topic[e] = "nothing"
  BY <1>2 DEF IInv, Recorded
<1>13. ToldByLogin' /\ Borne' /\ \A s \in Sockets : Seated(s)'
  BY <1>2, <1>9, <1>12 DEF IInv, ToldByLogin, Borne, Seated, Told
<1>14. Named(t)'
  <2>1. transfer'[t]["sender"] = token.user /\ transfer'[t]["receiver"] = u
    BY <1>6
  <2> QED BY <1>2, <1>4, <1>5, <1>7, <2>1 DEF Named
<1>15. ASSUME NEW q \in Transfers PROVE Named(q)' /\ (Told(q)' => pc'[q] = "done")
  BY <1>2, <1>9, <1>12, <1>14 DEF IInv, Named, Told
<1>17. ASSUME NEW e \in Copies PROVE Recorded(e)'
  BY <1>2, <1>9, <1>12, CopiesOfTransfers DEF IInv, Recorded
<1>16. socket' = [s \in Sockets |-> socket'[s]] /\ transfer' = [q \in Transfers |-> transfer'[q]]
  BY <1>1, <1>2 DEF IInv
<1> QED BY <1>11, <1>13, <1>15, <1>16, <1>17 DEF IInv

\* What is left of the transfer: it commits, stops or sends its event.
LEMMA TransferSteps ==
  ASSUME IInv, NEW t \in Transfers, Commit(t) \/ Stop(t) \/ Emit(t)
  PROVE  IInv'
<1>1. /\ pc[t] \in {"checked", "committed"}
      /\ \E l \in {"committed", "failed", "silent", "done"} : pc' = [pc EXCEPT ![t] = l]
      /\ UNCHANGED <<login, changes, held, socket, transfer, topic, again, inserts, saved, told,
                     redeliveries>>
  BY DEF Commit, Stop, Emit, people, kafka, service, IInv, TypeOK
<1>2. TypeOK'
  BY <1>1 DEF IInv, TypeOK
<1>3. ToldByLogin' /\ Borne' /\ \A s \in Sockets : Seated(s)'
  BY <1>1 DEF IInv, ToldByLogin, Borne, Seated
<1>4. \A q \in Transfers : q # t => pc'[q] = pc[q]
  BY <1>1 DEF IInv, TypeOK
<1>5. ASSUME NEW q \in Transfers PROVE Named(q)' /\ (Told(q)' => pc'[q] = "done")
  BY <1>1, <1>4 DEF IInv, Named, Told
<1>6. ASSUME NEW e \in Copies PROVE Recorded(e)'
  BY <1>1, <1>4, CopiesOfTransfers DEF IInv, Recorded
<1> QED BY <1>1, <1>2, <1>3, <1>5, <1>6 DEF IInv

\* A copy is stored, acknowledged, or one of its inserts ends.
LEMMA EventSteps ==
  ASSUME IInv, NEW e \in Copies, Store(e) \/ Acknowledge(e) \/ Save(e) \/ SaveFailure(e)
  PROVE  IInv'
<1>1. UNCHANGED <<login, changes, held, socket, transfer, pc, again, told, redeliveries>>
  BY DEF Store, Acknowledge, Save, SaveFailure, people, kafka, service
<1>2. ASSUME NEW q \in Copies
      PROVE  /\ topic[q] \in {"nothing", "stored", "handled", "acknowledged"}
             /\ saved[q] \in Nat /\ inserts[q] \in Nat /\ again[q] \in Nat /\ Recorded(q)
             /\ redeliveries \in Nat /\ redeliveries <= MaxRedeliveries
  BY DEF IInv, TypeOK
<1>3. /\ topic' \in [Copies -> {"nothing", "stored", "handled", "acknowledged"}]
      /\ saved' \in [Copies -> Nat] /\ inserts' \in [Copies -> Nat]
  <2>1. /\ topic \in [Copies -> {"nothing", "stored", "handled", "acknowledged"}]
        /\ saved \in [Copies -> Nat] /\ inserts \in [Copies -> Nat]
    BY DEF IInv, TypeOK
  <2> QED BY <2>1 DEF Store, Acknowledge, Save, SaveFailure, kafka, service
<1>4. ASSUME NEW q \in Copies PROVE Recorded(q)'
  <2>1. CASE q # e
    <3>1. topic'[q] = topic[q] /\ saved'[q] = saved[q] /\ inserts'[q] = inserts[q]
      BY <2>1 DEF Store, Acknowledge, Save, SaveFailure, kafka, service, IInv, TypeOK
    <3> QED BY <1>1, <1>2, <3>1 DEF Recorded
  <2>2. CASE q = e /\ Store(e)
    BY <1>1, <1>2, <2>2 DEF Store, service, Recorded, IInv, TypeOK
  <2>3. CASE q = e /\ Acknowledge(e)
    BY <1>1, <1>2, <2>3 DEF Acknowledge, service, Recorded, IInv, TypeOK
  <2>4. CASE q = e /\ Save(e)
    BY <1>1, <1>2, <2>4 DEF Save, kafka, Recorded, IInv, TypeOK
  <2>5. CASE q = e /\ SaveFailure(e)
    BY <1>1, <1>2, <2>5 DEF SaveFailure, kafka, Recorded, IInv, TypeOK
  <2> QED BY <2>1, <2>2, <2>3, <2>4, <2>5
<1>5. {inserts, saved}' \subseteq [Copies -> 0..MaxRedeliveries + 1]
  <2>1. ASSUME NEW q \in Copies
        PROVE  inserts'[q] \in 0..MaxRedeliveries + 1 /\ saved'[q] \in 0..MaxRedeliveries + 1
    BY <1>1, <1>2, <1>3, <1>4 DEF Recorded
  <2> QED BY <1>3, <2>1
<1>6. TypeOK'
  BY <1>1, <1>3, <1>5 DEF IInv, TypeOK
<1>7. /\ ToldByLogin' /\ Borne' /\ \A s \in Sockets : Seated(s)'
      /\ \A t \in Transfers : Named(t)' /\ (Told(t)' => pc'[t] = "done")
  BY <1>1 DEF IInv, ToldByLogin, Borne, Seated, Named, Told
<1> QED BY <1>1, <1>4, <1>6, <1>7 DEF IInv

\* The event is handled: who sits in a room named after a party is told.
LEMMA DeliverStep ==
  ASSUME IInv, NEW e \in Copies, Deliver(e)
  PROVE  IInv'
<1> DEFINE t == e[1]
<1>0. t \in Transfers
  BY CopiesOfTransfers
<1>1. /\ topic[e] = "stored" /\ topic' = [topic EXCEPT ![e] = "handled"]
      /\ inserts' = [inserts EXCEPT ![e] = @ + 1]
      /\ UNCHANGED <<login, changes, held, socket, transfer, pc, again, saved, redeliveries>>
  BY DEF Deliver, people
<1>2. pc[t] = "done" /\ Named(t)
  BY <1>0, <1>1 DEF IInv, Recorded
<1>3. transfer[t] \in [sender : Users, receiver : Users, names : [Sides -> Logins]]
  BY <1>0, <1>2 DEF IInv, TypeOK
<1>4. ASSUME NEW x \in told', x \notin told
      PROVE  \E u \in Users, side \in Sides :
               /\ x = <<u, t, side>>
               /\ \E n \in Logins : <<u, n>> \in held /\ <<transfer[t][side], n>> \in held
  <2>1. PICK side \in Sides, s \in Sockets :
          s \in Room(transfer[t].names[side]) /\ x = <<socket[s].user, t, side>>
    BY <1>4 DEF Deliver, Room
  <2>2. /\ s \in Sockets /\ socket[s] # None /\ socket[s].room = transfer[t].names[side]
    BY <2>1 DEF Room
  <2>3. /\ socket[s].user \in Users /\ socket[s].room \in Logins
        /\ <<socket[s].user, socket[s].room>> \in held
    BY <2>2 DEF IInv, TypeOK, Seated
  <2>4. <<transfer[t][side], transfer[t].names[side]>> \in held
    BY <1>2 DEF Named
  <2> QED BY <2>1, <2>2, <2>3, <2>4
<1>5. told' \subseteq Users \X Transfers \X Sides
  <2>1. ASSUME NEW x \in told' PROVE x \in Users \X Transfers \X Sides
    <3>1. CASE x \in told
      BY <3>1 DEF IInv, TypeOK
    <3>2. CASE x \notin told
      BY <1>0, <1>4, <3>2
    <3> QED BY <3>1, <3>2
  <2> QED BY <2>1
<1>6. ASSUME NEW q \in Copies
      PROVE  /\ topic'[q] \in {"nothing", "stored", "handled", "acknowledged"}
             /\ inserts'[q] \in 0..MaxRedeliveries + 1 /\ Recorded(q)'
  <2>1. /\ topic[q] \in {"nothing", "stored", "handled", "acknowledged"}
        /\ saved[q] \in Nat /\ inserts[q] \in Nat /\ again[q] \in Nat /\ Recorded(q)
        /\ redeliveries \in Nat /\ redeliveries <= MaxRedeliveries
    BY DEF IInv, TypeOK
  <2>2. /\ topic'[q] = IF q = e THEN "handled" ELSE topic[q]
        /\ inserts'[q] = IF q = e THEN inserts[q] + 1 ELSE inserts[q]
    BY <1>1 DEF IInv, TypeOK
  <2>3. Recorded(q)'
    <3>1. CASE q = e
      BY <1>1, <1>2, <2>1, <2>2, <3>1 DEF Recorded
    <3>2. CASE q # e
      BY <1>1, <2>1, <2>2, <3>2 DEF Recorded
    <3> QED BY <3>1, <3>2
  <2> QED BY <1>1, <2>1, <2>2, <2>3 DEF Recorded
<1>10. TypeOK'
  <2>1. inserts' \in [Copies -> 0..MaxRedeliveries + 1]
    BY <1>1, <1>6 DEF IInv, TypeOK
  <2> QED BY <1>1, <1>5, <2>1 DEF IInv, TypeOK
<1>7. ToldByLogin'
  <2> SUFFICES ASSUME NEW u \in Users, NEW q \in Transfers, NEW side \in Sides, <<u, q, side>> \in told'
               PROVE  \E n \in Logins : <<u, n>> \in held' /\ <<transfer'[q][side], n>> \in held'
    BY DEF ToldByLogin
  <2>1. CASE <<u, q, side>> \in told
    BY <1>1, <2>1 DEF IInv, ToldByLogin
  <2>2. CASE <<u, q, side>> \notin told
    <3>1. PICK w \in Users, z \in Sides :
            /\ <<u, q, side>> = <<w, t, z>>
            /\ \E n \in Logins : <<w, n>> \in held /\ <<transfer[t][z], n>> \in held
      BY <1>4, <2>2
    <3>2. u = w /\ q = t /\ side = z
      BY <3>1
    <3> QED BY <1>1, <3>1, <3>2
  <2> QED BY <2>1, <2>2
<1>8. Borne' /\ \A s \in Sockets : Seated(s)'
  BY <1>1 DEF IInv, Borne, Seated
<1>9. ASSUME NEW q \in Transfers PROVE Named(q)' /\ (Told(q)' => pc'[q] = "done")
  <2>1. CASE q = t
    BY <1>1, <1>2, <2>1 DEF Named
  <2>2. CASE q # t
    <3>1. \A u \in Users, side \in Sides : <<u, q, side>> \in told' => <<u, q, side>> \in told
      <4> SUFFICES ASSUME NEW u \in Users, NEW side \in Sides, <<u, q, side>> \in told', <<u, q, side>> \notin told
                   PROVE  FALSE
        OBVIOUS
      <4>1. PICK w \in Users, z \in Sides : <<u, q, side>> = <<w, t, z>>
        BY <1>4
      <4> QED BY <2>2, <4>1
    <3> QED BY <1>1, <3>1 DEF IInv, Named, Told
  <2> QED BY <2>1, <2>2
<1> QED BY <1>1, <1>6, <1>7, <1>8, <1>9, <1>10 DEF IInv

\* What was handled and not acknowledged may come again, and be recorded again.
LEMMA RedeliverStep ==
  ASSUME IInv, Rebalance \/ Restart
  PROVE  IInv'
<1>1. PICK back \in SUBSET Unacknowledged : Redeliver(back)
  <2>1. CASE Rebalance
    BY <2>1 DEF Rebalance
  <2>2. CASE Restart
    BY <2>2 DEF Restart
  <2> QED BY <2>1, <2>2
<1>2. /\ redeliveries \in Nat /\ redeliveries < MaxRedeliveries /\ redeliveries' = redeliveries + 1
      /\ socket' = socket \/ socket' = [s \in Sockets |-> None]
      /\ UNCHANGED <<login, changes, held, transfer, pc, inserts, saved, told>>
  BY <1>1 DEF Redeliver, Rebalance, Restart, people, service, IInv, TypeOK
<1>3. ASSUME NEW q \in Copies
      PROVE  /\ topic'[q] \in {"nothing", "stored", "handled", "acknowledged"}
             /\ again'[q] \in 0..MaxRedeliveries /\ Recorded(q)'
  <2>1. /\ topic[q] \in {"nothing", "stored", "handled", "acknowledged"}
        /\ saved[q] \in Nat /\ inserts[q] \in Nat /\ again[q] \in Nat /\ Recorded(q)
    BY DEF IInv, TypeOK
  <2>2. /\ topic'[q] = IF q \in back THEN "stored" ELSE topic[q]
        /\ again'[q] = IF q \in back THEN again[q] + 1 ELSE again[q]
        /\ q \in back => topic[q] = "handled"
    BY <1>1 DEF Redeliver, Unacknowledged
  <2>3. CASE q \in back
    BY <1>2, <2>1, <2>2, <2>3 DEF Recorded
  <2>4. CASE q \notin back
    BY <1>2, <2>1, <2>2, <2>4 DEF Recorded
  <2> QED BY <2>3, <2>4
<1>4. TypeOK'
  <2>1. /\ topic' \in [Copies -> {"nothing", "stored", "handled", "acknowledged"}]
        /\ again' \in [Copies -> 0..MaxRedeliveries]
    BY <1>1, <1>3 DEF Redeliver
  <2> QED BY <1>2, <2>1 DEF IInv, TypeOK
<1>5. /\ ToldByLogin' /\ Borne' /\ \A s \in Sockets : Seated(s)'
      /\ \A t \in Transfers : Named(t)' /\ (Told(t)' => pc'[t] = "done")
  BY <1>2 DEF IInv, ToldByLogin, Borne, Seated, Named, Told
<1> QED BY <1>2, <1>3, <1>4, <1>5 DEF IInv

\* Parties, rooms, events and documents agree in every behaviour, fair or not.
THEOREM NotificationsInvariance == Spec => []IInv
<1>1. IInv /\ [Next]_vars => IInv'
  <2> SUFFICES ASSUME IInv, [Next]_vars PROVE IInv'
    OBVIOUS
  <2>1. CASE UNCHANGED vars
    <3>1. UNCHANGED <<login, changes, held, socket, transfer, pc, topic, again, inserts, saved, told,
                     redeliveries>>
      BY <2>1 DEF vars, people, kafka, service
    <3> QED BY <3>1 DEF IInv, TypeOK, ToldByLogin, Borne, Seated, Named, Recorded, Told
  <2>2. CASE Next
    BY <2>2, PeopleSteps, CheckStep, TransferSteps, DeliverStep, EventSteps, RedeliverStep DEF Next
  <2> QED BY <2>1, <2>2
<1> QED BY InitEstablishes, <1>1, PTL DEF Spec

\* Every variable keeps its type.
THEOREM NotificationsTypeCorrect == Spec => []TypeOK
<1>1. IInv => TypeOK
  BY DEF IInv
<1> QED BY <1>1, NotificationsInvariance, PTL

\* Who is told of a transfer has borne a login that its party has borne.
THEOREM ToldByLoginOnly == Spec => []ToldByLogin
<1>1. IInv => ToldByLogin
  BY DEF IInv
<1> QED BY <1>1, NotificationsInvariance, PTL

\* What is told or recorded has happened.
THEOREM NewsStaysTrue == Spec => []NewsIsTrue
<1>1. IInv => NewsIsTrue
  <2> SUFFICES ASSUME IInv PROVE NewsIsTrue
    OBVIOUS
  <2>1. ASSUME NEW e \in Copies, saved[e] > 0 PROVE pc[e[1]] = "done"
    <3>1. saved[e] \in Nat /\ inserts[e] \in Nat /\ Recorded(e)
      BY DEF IInv, TypeOK
    <3> QED BY <2>1, <3>1 DEF Recorded
  <2>2. \A t \in Transfers : Told(t) => pc[t] = "done"
    BY DEF IInv
  <2> QED BY <2>1, <2>2 DEF NewsIsTrue, Told
<1> QED BY <1>1, NotificationsInvariance, PTL

\* Copies and redeliveries are all that repeats a recording, whatever number of
\* them Kafka brings about.
THEOREM RecordedForDeliveries == Spec => []RecordedPerDelivery
<1>1. IInv => RecordedPerDelivery
  <2> SUFFICES ASSUME IInv, NEW e \in Copies
               PROVE  saved[e] + inserts[e] <= IF topic[e] = "nothing" THEN 0 ELSE 1 + again[e]
    BY DEF RecordedPerDelivery
  <2>1. /\ saved[e] \in Nat /\ inserts[e] \in Nat /\ again[e] \in Nat /\ Recorded(e)
        /\ topic[e] \in {"nothing", "stored", "handled", "acknowledged"}
    BY DEF IInv, TypeOK
  <2> QED BY <2>1 DEF Recorded
<1> QED BY <1>1, NotificationsInvariance, PTL
=============================================================================
