---------------------------- MODULE Notifications -----------------------------
(***************************************************************************)
(* What becomes of a transfer's news: the logins it is addressed by, taken *)
(* from an access token and a row before the transfer, the event in Kafka, *)
(* the consumer of the notification service, the websocket rooms named     *)
(* after logins and the history in MongoDB.                                *)
(***************************************************************************)
EXTENDS Integers, FiniteSets

CONSTANTS
    Users, Logins, Sockets, Transfers,
    MaxCopies,          \* bound of the model: how often Kafka stores one event
    MaxChanges,         \* bound of the model: renames and ends of accounts
    MaxRedeliveries,    \* bound of the model: restarts and rebalances
    None                \* no login, no socket, no transfer

ASSUME NotificationsAssumption ==
    /\ {MaxCopies, MaxChanges, MaxRedeliveries} \subseteq Nat /\ None \notin Logins

\* The copies of its event that a transfer may leave in Kafka, in their order.
Copies == Transfers \X (1..MaxCopies)

VARIABLES
    login,      \* login[u]: the login in u's row, None when there is no row
    changes,    \* renames and ends of accounts so far
    held,       \* the pairs <<u, n>> such that u has ever had login n
    socket,     \* socket[s]: the user behind it and the room it has joined
    transfer,   \* transfer[t]: its parties and the logins it took for them
    pc,         \* pc[t]: how far transferMoney is
    topic,      \* topic[e]: what has become of that copy in Kafka
    again,      \* again[e]: how often Kafka has handed it out once more
    inserts,    \* inserts[e]: inserts started for it, neither landed nor lost
    saved,      \* saved[e]: documents it has left in MongoDB
    told,       \* <<u, t, side>>: u's socket was told of t as that side
    redeliveries    \* restarts of the service and rebalances of its consumers

people  == <<login, changes, held>>
kafka   == <<topic, again>>
service == <<inserts, saved, told>>
vars    == <<people, socket, transfer, pc, kafka, service, redeliveries>>

Sides == {"sender", "receiver"}

Init ==
    /\ login \in {f \in [Users -> Logins] : \A u, w \in Users : u # w => f[u] # f[w]}
    /\ changes = 0 /\ held = {<<u, login[u]>> : u \in Users}
    /\ socket = [s \in Sockets |-> None]
    /\ transfer = [t \in Transfers |-> None] /\ pc = [t \in Transfers |-> "idle"]
    /\ topic = [e \in Copies |-> "nothing"] /\ again = [e \in Copies |-> 0]
    /\ inserts = again /\ saved = again /\ told = {} /\ redeliveries = 0

-----------------------------------------------------------------------------
(* Logins and tokens                                                         *)

\* updateUser, within the unique constraint; signup of who has no account any more.
Rename(u) ==
    /\ changes < MaxChanges /\ changes' = changes + 1
    /\ \E n \in Logins :
          /\ \A w \in Users : login[w] # n
          /\ login' = [login EXCEPT ![u] = n] /\ held' = held \cup {<<u, n>>}
    /\ UNCHANGED <<socket, transfer, pc, kafka, service, redeliveries>>

\* deleteUserHard or recreate-me: the row is gone and its login free for others.
Leave(u) ==
    /\ changes < MaxChanges /\ changes' = changes + 1
    /\ login[u] # None /\ login' = [login EXCEPT ![u] = None]
    /\ UNCHANGED <<held, socket, transfer, pc, kafka, service, redeliveries>>

\* The access tokens a client may hold: each was signed while its user had its
\* login. There is no clock, so any of them may still be within its 15 minutes.
Tokens == {[user |-> pair[1], login |-> pair[2]] : pair \in held}

\* Mutant: the room is chosen by the client.
ConnectAnywhere(s) ==
    /\ socket[s] = None
    /\ \E token \in Tokens, n \in Logins :
          socket' = [socket EXCEPT ![s] = [user |-> token.user, room |-> n]]
    /\ UNCHANGED <<people, transfer, pc, kafka, service, redeliveries>>

\* handleConnection: the token is looked at once, the socket outlives it.
Connect(s) ==
    /\ socket[s] = None
    /\ \E token \in Tokens :
          socket' = [socket EXCEPT ![s] = [user |-> token.user, room |-> token.login]]
    /\ UNCHANGED <<people, transfer, pc, kafka, service, redeliveries>>

Disconnect(s) ==
    /\ socket[s] # None /\ socket' = [socket EXCEPT ![s] = None]
    /\ UNCHANGED <<people, transfer, pc, kafka, service, redeliveries>>

-----------------------------------------------------------------------------
(* transferMoney, its money left to Transfers                                *)

\* Mutant: the receiver's login is not taken from the row.
CheckNameless(t) ==
    /\ pc[t] = "idle" /\ pc' = [pc EXCEPT ![t] = "checked"]
    /\ \E token \in Tokens, u \in Users :
          /\ u # token.user /\ login[u] # None
          /\ transfer' = [transfer EXCEPT ![t] =
               [sender |-> token.user, receiver |-> u,
                names |-> [sender |-> token.login, receiver |-> None]]]
    /\ UNCHANGED <<people, socket, kafka, service, redeliveries>>

\* The sender's login is the token's, the receiver's that of the row read.
Check(t) ==
    /\ pc[t] = "idle" /\ pc' = [pc EXCEPT ![t] = "checked"]
    /\ \E token \in Tokens, u \in Users :
          /\ u # token.user /\ login[u] # None
          /\ transfer' = [transfer EXCEPT ![t] =
               [sender |-> token.user, receiver |-> u,
                names |-> [sender |-> token.login, receiver |-> login[u]]]]
    /\ UNCHANGED <<people, socket, kafka, service, redeliveries>>

Commit(t) ==
    /\ pc[t] = "checked" /\ pc' = [pc EXCEPT ![t] = "committed"]
    /\ UNCHANGED <<people, socket, transfer, kafka, service, redeliveries>>

\* The transfer is refused or rolled back, or the process dies around its commit.
Stop(t) ==
    /\ pc[t] \in {"checked", "committed"}
    /\ pc' = [pc EXCEPT ![t] = IF pc[t] = "checked" THEN "failed" ELSE "silent"]
    /\ UNCHANGED <<people, socket, transfer, kafka, service, redeliveries>>

\* Mutant: the event is sent before the commit.
EmitEarly(t) ==
    /\ \/ pc[t] = "checked" /\ topic' = [e \in Copies |-> IF e = <<t, 1>> THEN "stored" ELSE topic[e]]
          /\ UNCHANGED pc
       \/ pc[t] = "committed" /\ pc' = [pc EXCEPT ![t] = "done"] /\ UNCHANGED topic
    /\ UNCHANGED <<people, socket, transfer, again, service, redeliveries>>

\* emit is not awaited: the answer is given whether Kafka ever gets the event or not.
Emit(t) ==
    /\ pc[t] = "committed" /\ pc' = [pc EXCEPT ![t] = "done"]
    /\ UNCHANGED <<people, socket, transfer, kafka, service, redeliveries>>

-----------------------------------------------------------------------------
(* Kafka                                                                     *)

\* The broker stores what the producer has sent; more than once when an
\* acknowledgement was lost, as the producer is not idempotent and sends again.
Store(e) ==
    /\ pc[e[1]] = "done" /\ topic[e] = "nothing"
    /\ e[2] > 1 => topic[<<e[1], e[2] - 1>>] # "nothing"
    /\ topic' = [topic EXCEPT ![e] = "stored"]
    /\ UNCHANGED <<people, socket, transfer, pc, again, service, redeliveries>>

\* Copies that were handled and not acknowledged are handed out again.
Redeliver(back) ==
    /\ redeliveries < MaxRedeliveries /\ redeliveries' = redeliveries + 1
    /\ topic' = [e \in Copies |-> IF e \in back THEN "stored" ELSE topic[e]]
    /\ again' = [e \in Copies |-> IF e \in back THEN again[e] + 1 ELSE again[e]]

Unacknowledged == {e \in Copies : topic[e] = "handled"}

\* The consumer group is rebalanced or a commit of offsets fails, and the service
\* does not even notice.
Rebalance ==
    /\ \E back \in SUBSET Unacknowledged : Redeliver(back)
    /\ UNCHANGED <<people, socket, transfer, pc, service>>

-----------------------------------------------------------------------------
(* The notification service                                                  *)

Room(n) == {s \in Sockets : socket[s] # None /\ socket[s].room = n}

\* sendNotification: both rooms are told and the insert is started.
Deliver(e) ==
    /\ topic[e] = "stored" /\ topic' = [topic EXCEPT ![e] = "handled"]
    /\ told' = told \cup UNION {{<<socket[s].user, e[1], side>> :
                                    s \in Room(transfer[e[1]].names[side])} : side \in Sides}
    /\ inserts' = [inserts EXCEPT ![e] = @ + 1]
    /\ UNCHANGED <<people, socket, transfer, pc, again, saved, redeliveries>>

\* Mutant: the offset may be committed before the message is handled.
AcknowledgeFetched(e) ==
    /\ topic[e] \in {"stored", "handled"} /\ topic' = [topic EXCEPT ![e] = "acknowledged"]
    /\ UNCHANGED <<people, socket, transfer, pc, again, service, redeliveries>>

\* The consumer commits the offset of what it has handled.
Acknowledge(e) ==
    /\ topic[e] = "handled" /\ topic' = [topic EXCEPT ![e] = "acknowledged"]
    /\ UNCHANGED <<people, socket, transfer, pc, again, service, redeliveries>>

Save(e) ==
    /\ inserts[e] > 0 /\ inserts' = [inserts EXCEPT ![e] = @ - 1]
    /\ saved' = [saved EXCEPT ![e] = @ + 1]
    /\ UNCHANGED <<people, socket, transfer, pc, kafka, told, redeliveries>>

\* Mutant: a failed insert fails the handler, so the event comes again.
SaveFailureRetried(e) ==
    /\ inserts[e] > 0 /\ inserts' = [inserts EXCEPT ![e] = @ - 1]
    /\ saved[e] < 3 /\ saved' \in {saved, [saved EXCEPT ![e] = @ + 1]}
    /\ topic' = [topic EXCEPT ![e] = "stored"]
    /\ UNCHANGED <<people, socket, transfer, pc, again, told, redeliveries>>

\* MongoDB refuses, or the insert is lost with the service that sent it: the error
\* is at most logged.  One whose answer alone is lost has landed: that is Save.
SaveFailure(e) ==
    /\ inserts[e] > 0 /\ inserts' = [inserts EXCEPT ![e] = @ - 1]
    /\ UNCHANGED <<people, socket, transfer, pc, kafka, saved, told, redeliveries>>

\* The service dies and starts again: its sockets are gone, Kafka hands out what was
\* not acknowledged, and the inserts it has sent land or not.
Restart ==
    /\ socket' = [s \in Sockets |-> None] /\ Redeliver(Unacknowledged)
    /\ UNCHANGED <<people, transfer, pc, service>>

Next ==
    \/ \E u \in Users : Rename(u) \/ Leave(u)
    \/ \E s \in Sockets : Connect(s) \/ Disconnect(s)
    \/ \E t \in Transfers : Check(t) \/ Commit(t) \/ Stop(t) \/ Emit(t)
    \/ \E e \in Copies :
          Store(e) \/ Deliver(e) \/ Acknowledge(e) \/ Save(e) \/ SaveFailure(e)
    \/ Rebalance \/ Restart

Spec == Init /\ [][Next]_vars

\* The consumer goes on with what it is given.
FairSpec == Spec /\ \A e \in Copies : WF_vars(Deliver(e)) /\ WF_vars(Acknowledge(e))

-----------------------------------------------------------------------------
(* Properties                                                                *)

TypeOK ==
    /\ login \in [Users -> Logins \cup {None}] /\ held \subseteq Users \X Logins
    /\ changes \in 0..MaxChanges
    /\ \A s \in Sockets : socket[s] # None => socket[s] \in [user : Users, room : Logins]
    /\ \A t \in Transfers : IF pc[t] = "idle" THEN transfer[t] = None
          ELSE transfer[t] \in [sender : Users, receiver : Users, names : [Sides -> Logins]]
    /\ pc \in [Transfers -> {"idle", "checked", "committed", "done", "failed", "silent"}]
    /\ topic \in [Copies -> {"nothing", "stored", "handled", "acknowledged"}]
    /\ again \in [Copies -> 0..MaxRedeliveries] /\ redeliveries \in 0..MaxRedeliveries
    /\ {inserts, saved} \subseteq [Copies -> 0..MaxRedeliveries + 1]
    /\ told \subseteq Users \X Transfers \X Sides

\* Somebody is told of a transfer as a party of it only under a login that party
\* has borne and so has she: a login that changed hands, by a rename or the end of
\* an account, can mislead the news and nothing else can.
ToldByLogin ==
    \A u \in Users, t \in Transfers, side \in Sides : <<u, t, side>> \in told =>
        \E n \in Logins : <<u, n>> \in held /\ <<transfer[t][side], n>> \in held

\* Nobody is told of a transfer, and none is recorded, unless it has committed.
NewsIsTrue ==
    /\ \A e \in Copies : saved[e] > 0 => pc[e[1]] = "done"
    /\ \A u \in Users, t \in Transfers, side \in Sides : <<u, t, side>> \in told => pc[t] = "done"

\* MongoDB holds a transfer at most once for every copy of its event that Kafka has
\* stored, and once more for every time Kafka has handed that copy out again: the
\* handler itself repeats nothing, whatever becomes of its inserts.
RecordedPerDelivery ==
    \A e \in Copies : saved[e] + inserts[e] <= IF topic[e] = "nothing" THEN 0 ELSE 1 + again[e]

\* What Kafka has stored is handled in the end and only then acknowledged, through
\* restarts, rebalances and resends.
EventIsHandled ==
    \A e \in Copies : topic[e] = "stored" ~> (topic[e] = "handled" /\ <>(topic[e] = "acknowledged"))
=============================================================================
