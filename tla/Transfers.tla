------------------------------ MODULE Transfers ------------------------------
(***************************************************************************)
(* The money core of user-service: transferMoney as the sequence of awaits *)
(* it is, next to the single-statement balance operations, the account     *)
(* lifecycle and the balance-reset job, over PostgreSQL rows at READ       *)
(* COMMITTED.                                                              *)
(*                                                                         *)
(* A row has a committed version (balance) and a newest version (newest).  *)
(* An UPDATE needs the row's lock, evaluates its WHERE on the version it   *)
(* finds once it has the lock, and keeps the lock until its transaction    *)
(* ends; a statement outside a transaction is one step.                    *)
(***************************************************************************)
EXTENDS Integers, FiniteSets, Functions

CONSTANTS
    Users, Founders, Opening, Requests, Amounts,    \* as in Ledger
    Resets,         \* the slots of the reset-balance consumer
    PoolSize,       \* connections of the DataSource's pool
    MaxBalance,     \* bound of the model: no deposit goes beyond it
    Faults,         \* which of FaultKinds the environment may inject
    NoTx            \* the owner of a row nobody has locked

FaultKinds == {"begin", "db", "ack", "redis", "crash"}

ASSUME TransfersAssumption ==
    /\ IsFiniteSet(Users)
    /\ Founders \subseteq Users
    /\ Opening \in Nat
    /\ Amounts \subseteq Nat
    /\ PoolSize \in Nat /\ MaxBalance \in Nat
    /\ Faults \subseteq FaultKinds
    /\ Requests \cap Resets = {}
    /\ Users \cap (Requests \cup Resets) = {}
    /\ NoTx \notin Users \cup Requests \cup Resets

VARIABLES
    status, balance, applied,   \* as in Ledger
    newest,     \* newest[u]: the row's latest version, committed or not
    lock,       \* lock[u]: the transaction that holds the row
    pc,         \* pc[r]: the await transferMoney has reached
    call,       \* call[r]: its sender, receiver and amount
    conn,       \* the requests that hold a pooled connection
    emitted,    \* the requests that emitted transfer-completed
    scan,       \* scan[w]: the rows in the snapshot of w's UPDATE, {} when idle
    target      \* target[w]: the row the UPDATE is at, of the rows left

rows  == <<status, balance, newest, lock>>
reset == <<scan, target>>
flow  == <<pc, call, conn, applied, emitted>>
vars  == <<rows, reset, flow>>

\* The ledger sees the committed rows and nothing of locks, newer versions or
\* requests under way.
L == INSTANCE Ledger WITH status <- status, balance <- balance, applied <- applied
Exists(u) == L!Exists(u)
Txns == Requests \cup Resets

NoCall == [from |-> NoTx, to |-> NoTx, amount |-> 0]

InTransaction == {"debit", "credit", "commit"}
AfterCommit   == {"invalidate", "emit"}
Ended         == {"executed", "rejected", "failed", "crashed"}

Init ==
    /\ L!LedgerInit
    /\ newest = balance
    /\ lock = [u \in Users |-> NoTx]
    /\ pc = [r \in Requests |-> "idle"]
    /\ call = [r \in Requests |-> NoCall]
    /\ conn = {} /\ emitted = {}
    /\ scan = [w \in Resets |-> {}]
    /\ target = [w \in Resets |-> NoTx]

-----------------------------------------------------------------------------
(* What PostgreSQL does when a set of transactions ends.                     *)

LockedBy(ts) == {u \in Users : lock[u] \in ts}
Unlock(ts)   == lock' = [u \in Users |-> IF lock[u] \in ts THEN NoTx ELSE lock[u]]

\* COMMIT: the newest versions become the committed ones.
Install(t) ==
    /\ balance' = [u \in Users |-> IF lock[u] = t THEN newest[u] ELSE balance[u]]
    /\ Unlock({t})
    /\ UNCHANGED <<status, newest>>

\* ROLLBACK, or a session that is lost: the newest versions vanish.
Undo(ts) ==
    /\ newest' = [u \in Users |-> IF lock[u] \in ts THEN balance[u] ELSE newest[u]]
    /\ Unlock(ts)
    /\ UNCHANGED <<status, balance>>

\* An UPDATE of row u inside transaction t.
Write(t, u, v) ==
    /\ newest' = [newest EXCEPT ![u] = v]
    /\ lock' = [lock EXCEPT ![u] = t]
    /\ UNCHANGED <<status, balance>>

Goto(r, label) == pc' = [pc EXCEPT ![r] = label]

\* The finally block and the return: the connection is released, the locals go.
Finish(r, outcome) ==
    /\ Goto(r, outcome)
    /\ conn' = conn \ {r} /\ call' = [call EXCEPT ![r] = NoCall]

-----------------------------------------------------------------------------
(* transferMoney                                                             *)

Sender(r)   == call[r].from
Receiver(r) == call[r].to
Amount(r)   == call[r].amount

\* Mutant: the sender's id is not taken from the token.
CheckAnonymous(r) ==
    /\ pc[r] = "idle"
    /\ \E to \in Users, a \in Amounts :
          /\ status[to] = "active"
          /\ call' = [call EXCEPT ![r] = [from |-> NoTx, to |-> to, amount |-> a]]
          /\ Goto(r, "begin")
    /\ UNCHANGED <<rows, reset, conn, applied, emitted>>

\* The self-transfer test and the SELECT of a live receiver.  The sender comes
\* from an access token, so it may have been deleted since the token was signed.
Check(r) ==
    /\ pc[r] = "idle"
    /\ \E from, to \in Users, a \in Amounts :
          /\ status[from] # "unborn"
          /\ \/ /\ from # to /\ status[to] = "active"
                /\ call' = [call EXCEPT ![r] = [from |-> from, to |-> to, amount |-> a]]
                /\ Goto(r, "begin")
             \/ /\ from = to \/ status[to] # "active"
                /\ Goto(r, "rejected") /\ UNCHANGED call
    /\ UNCHANGED <<rows, reset, conn, applied, emitted>>

\* createQueryRunner and startTransaction wait for a connection of the pool.
Begin(r) ==
    /\ pc[r] = "begin"
    /\ Cardinality(conn) < PoolSize
    /\ conn' = conn \cup {r} /\ Goto(r, "debit")
    /\ UNCHANGED <<rows, reset, call, applied, emitted>>

\* startTransaction stands before the try: when START TRANSACTION fails, no
\* finally block gives the connection back.
BeginFailure(r) ==
    /\ "begin" \in Faults
    /\ pc[r] = "begin"
    /\ Cardinality(conn) < PoolSize
    /\ conn' = conn \cup {r} /\ Goto(r, "failed")
    /\ call' = [call EXCEPT ![r] = NoCall]
    /\ UNCHANGED <<rows, reset, applied, emitted>>

\* Mutant: the catch block forgets rollbackTransaction.
NoRollBack(r) ==
    /\ Finish(r, "failed")
    /\ UNCHANGED <<rows, reset, applied, emitted>>

\* Mutant: the catch block swallows the error.
RollBackSwallowed(r) ==
    /\ Undo({r}) /\ Finish(r, "executed")
    /\ UNCHANGED <<reset, applied, emitted>>

\* The catch block before the commit: rollbackTransaction, then rethrow.
RollBack(r) ==
    /\ Undo({r}) /\ Finish(r, "failed")
    /\ UNCHANGED <<reset, applied, emitted>>

\* Mutant: decreaseBalance loses its balance >= amount condition.
DebitUnchecked(r) ==
    /\ pc[r] = "debit"
    /\ Exists(Sender(r)) /\ lock[Sender(r)] = NoTx
    /\ Write(r, Sender(r), newest[Sender(r)] - Amount(r))
    /\ Goto(r, "credit")
    /\ UNCHANGED <<reset, call, conn, applied, emitted>>

\* Mutant: decreaseBalance is called without queryRunner.manager, so the debit
\* commits by itself.
DebitAutocommit(r) ==
    /\ pc[r] = "debit"
    /\ Exists(Sender(r)) /\ lock[Sender(r)] = NoTx
    /\ balance[Sender(r)] >= Amount(r)
    /\ balance' = [balance EXCEPT ![Sender(r)] = @ - Amount(r)]
    /\ newest' = [newest EXCEPT ![Sender(r)] = @ - Amount(r)]
    /\ Goto(r, "credit")
    /\ UNCHANGED <<status, lock, reset, call, conn, applied, emitted>>

\* decreaseBalance(sender) changed a row.
Debit(r) ==
    /\ pc[r] = "debit"
    /\ Exists(Sender(r)) /\ lock[Sender(r)] = NoTx
    /\ balance[Sender(r)] >= Amount(r)
    /\ Write(r, Sender(r), newest[Sender(r)] - Amount(r))
    /\ Goto(r, "credit")
    /\ UNCHANGED <<reset, call, conn, applied, emitted>>

\* decreaseBalance(sender) affected no row; a committed version that does not
\* match the WHERE is skipped without waiting for its lock.
DebitRefused(r) ==
    /\ pc[r] = "debit"
    /\ ~Exists(Sender(r)) \/ balance[Sender(r)] < Amount(r)
    /\ RollBack(r)

\* increaseBalance(receiver): its WHERE looks at the id only.
Credit(r) ==
    /\ pc[r] = "credit"
    /\ Exists(Receiver(r)) /\ lock[Receiver(r)] = NoTx
    /\ Write(r, Receiver(r), newest[Receiver(r)] + Amount(r))
    /\ Goto(r, "commit")
    /\ UNCHANGED <<reset, call, conn, applied, emitted>>

CreditRefused(r) ==
    /\ pc[r] = "credit" /\ ~Exists(Receiver(r))
    /\ RollBack(r)

\* A statement of the transaction fails: lost connection, statement error.
StatementFailure(r) ==
    /\ "db" \in Faults /\ pc[r] \in InTransaction
    /\ RollBack(r)

Commit(r) ==
    /\ pc[r] = "commit"
    /\ Install(r) /\ applied' = applied \cup {r}
    /\ Goto(r, "invalidate")
    /\ UNCHANGED <<reset, call, conn, emitted>>

\* The COMMIT took effect but its answer was lost: the catch block's ROLLBACK
\* finds nothing to undo and the caller is told the transfer failed.
CommitAckLost(r) ==
    /\ "ack" \in Faults /\ pc[r] = "commit"
    /\ Install(r) /\ applied' = applied \cup {r}
    /\ Finish(r, "failed")
    /\ UNCHANGED <<reset, emitted>>

\* The three DELs of Promise.all.
Invalidate(r) ==
    /\ pc[r] = "invalidate" /\ Goto(r, "emit")
    /\ UNCHANGED <<rows, reset, call, conn, applied, emitted>>

\* Mutant: a failed invalidation makes the request start over.
InvalidateRetry(r) ==
    /\ "redis" \in Faults /\ pc[r] = "invalidate" /\ Goto(r, "debit")
    /\ UNCHANGED <<rows, reset, call, conn, applied, emitted>>

\* A DEL is rejected: rollbackTransaction throws, for no transaction is open,
\* and nothing is emitted.
InvalidateFailure(r) ==
    /\ "redis" \in Faults /\ pc[r] = "invalidate"
    /\ Finish(r, "failed")
    /\ UNCHANGED <<rows, reset, applied, emitted>>

Emit(r) ==
    /\ pc[r] = "emit"
    /\ emitted' = emitted \cup {r} /\ Finish(r, "executed")
    /\ UNCHANGED <<rows, reset, applied>>

-----------------------------------------------------------------------------
(* The balance-reset job: UPDATE users_entity SET balance = 0, all rows.     *)

Running(w) == target[w] # NoTx

\* Mutant: the statement skips the rows it finds locked.
LeftUnlocked(w, u) == {v \in scan[w] : Exists(v) /\ lock[v] = NoTx} \ {u}

Left(w, u) == {v \in scan[w] : Exists(v) /\ lock[v] # w} \ {u}
NextRow(w, u) ==
    IF Left(w, u) = {} THEN target' = [target EXCEPT ![w] = w]
                       ELSE \E v \in Left(w, u) : target' = [target EXCEPT ![w] = v]

\* The statement takes its snapshot; it meets the rows in the table's order,
\* which the model leaves open.  target[w] = w once every row has been met.
ResetStart(w) ==
    /\ ~Running(w)
    /\ scan' = [scan EXCEPT ![w] = {u \in Users : Exists(u)}]
    /\ \/ \E u \in scan'[w] : target' = [target EXCEPT ![w] = u]
       \/ scan'[w] = {} /\ target' = [target EXCEPT ![w] = w]
    /\ UNCHANGED <<rows, flow>>

ResetRow(w) ==
    /\ target[w] \in scan[w]
    /\ Exists(target[w]) /\ lock[target[w]] = NoTx
    /\ Write(w, target[w], 0)
    /\ NextRow(w, target[w])
    /\ UNCHANGED <<scan, flow>>

\* The row was deleted for good while the statement waited for it.
ResetSkip(w) ==
    /\ target[w] \in scan[w] /\ ~Exists(target[w])
    /\ NextRow(w, target[w])
    /\ UNCHANGED <<rows, scan, flow>>

ResetIdle(ws) ==
    /\ scan' = [w \in Resets |-> IF w \in ws THEN {} ELSE scan[w]]
    /\ target' = [w \in Resets |-> IF w \in ws THEN NoTx ELSE target[w]]

ResetCommit(w) ==
    /\ target[w] = w
    /\ Install(w) /\ ResetIdle({w})
    /\ UNCHANGED flow

\* process() swallows the error: the job counts as done, nothing was reset.
ResetFailure(w) ==
    /\ "db" \in Faults /\ Running(w)
    /\ Undo({w}) /\ ResetIdle({w})
    /\ UNCHANGED flow

-----------------------------------------------------------------------------
(* Deadlocks between transactions                                            *)

\* The row an unfinished UPDATE is at, and the transaction that holds it.
Wanted(t) ==
    IF t \in Requests THEN IF pc[t] = "debit"  THEN {Sender(t)}
                      ELSE IF pc[t] = "credit" THEN {Receiver(t)} ELSE {}
    ELSE {target[t]} \cap scan[t]

Blockers(t) == {lock[u] : u \in Wanted(t)} \ {NoTx, t}

\* t waits in a cycle: every member of the set waits for a member.
Deadlocked(t) ==
    \E ring \in SUBSET Txns : t \in ring /\ UNION {Blockers(x) : x \in ring} = ring

\* PostgreSQL's deadlock detector picks a victim and fails its statement.
DeadlockVictim(r) == Deadlocked(r) /\ RollBack(r)

ResetVictim(w) ==
    /\ Deadlocked(w)
    /\ Undo({w}) /\ ResetIdle({w})
    /\ UNCHANGED flow

-----------------------------------------------------------------------------
(* Single statements outside any transaction, and the process dying          *)

Unlocked(u) == lock[u] = NoTx

\* increaseBalance and decreaseBalance of the caller's own account.
IncreaseBalance(u, a) ==
    /\ Exists(u) /\ Unlocked(u)
    /\ a > 0 /\ balance[u] + a <= MaxBalance
    /\ balance' = [balance EXCEPT ![u] = @ + a]
    /\ newest' = [newest EXCEPT ![u] = balance'[u]]
    /\ UNCHANGED <<status, lock, reset, flow>>

DecreaseBalance(u, a) ==
    /\ Exists(u) /\ Unlocked(u)
    /\ a > 0 /\ balance[u] >= a
    /\ balance' = [balance EXCEPT ![u] = @ - a]
    /\ newest' = [newest EXCEPT ![u] = balance'[u]]
    /\ UNCHANGED <<status, lock, reset, flow>>

SetStatus(u, s) ==
    /\ Unlocked(u) /\ status' = [status EXCEPT ![u] = s]
    /\ UNCHANGED <<balance, newest, lock, reset, flow>>

CreateUser(u) == status[u] = "unborn"  /\ SetStatus(u, "active")
SoftDelete(u) == status[u] = "active"  /\ SetStatus(u, "deleted")
Restore(u)    == status[u] = "deleted" /\ SetStatus(u, "active")
HardDelete(u) == Exists(u)             /\ SetStatus(u, "gone")

InFlight == {r \in Requests : pc[r] \notin Ended \cup {"idle"}}

\* The user-service process dies: its connections and its requests with it.
Crash ==
    /\ "crash" \in Faults
    /\ InFlight # {} \/ \E w \in Resets : Running(w)
    /\ Undo(Txns) /\ ResetIdle(Resets)
    /\ pc' = [r \in Requests |-> IF r \in InFlight THEN "crashed" ELSE pc[r]]
    /\ call' = [r \in Requests |-> NoCall] /\ conn' = {}
    /\ UNCHANGED <<applied, emitted>>

-----------------------------------------------------------------------------

Step(r) ==
    \/ Begin(r)
    \/ Debit(r) \/ DebitRefused(r) \/ Credit(r) \/ CreditRefused(r)
    \/ Commit(r) \/ Invalidate(r) \/ Emit(r) \/ DeadlockVictim(r)

Failure(r) ==
    \/ BeginFailure(r) \/ StatementFailure(r) \/ CommitAckLost(r) \/ InvalidateFailure(r)

ResetStep(w) == ResetRow(w) \/ ResetSkip(w) \/ ResetCommit(w) \/ ResetVictim(w)

Account(u) ==
    \/ CreateUser(u) \/ SoftDelete(u) \/ Restore(u) \/ HardDelete(u)
    \/ \E a \in Amounts : IncreaseBalance(u, a) \/ DecreaseBalance(u, a)

Next ==
    \/ \E r \in Requests : Check(r) \/ Step(r) \/ Failure(r)
    \/ \E w \in Resets : ResetStart(w) \/ ResetStep(w) \/ ResetFailure(w)
    \/ \E u \in Users : Account(u)
    \/ Crash

Spec == Init /\ [][Next]_vars

(* A request that was let in keeps being served: each await is answered, and *)
(* a wait for a row lock or for a pooled connection is first come first      *)
(* served in PostgreSQL and in pg-pool, so one that is offered again and     *)
(* again is taken in the end.  Nothing obliges a client to call, a fault to  *)
(* happen or a job to start.                                                 *)
Fairness ==
    /\ \A r \in Requests : SF_vars(Step(r))
    /\ \A w \in Resets : SF_vars(ResetStep(w))

FairSpec == Spec /\ Fairness

-----------------------------------------------------------------------------
(* Properties                                                                *)

\* Every variable has its type; money is an integer here, its sign is a
\* property of its own.
TypeOK ==
    /\ status \in [Users -> {"unborn", "active", "deleted", "gone"}]
    /\ balance \in [Users -> Int] /\ newest \in [Users -> Int]
    /\ lock \in [Users -> Txns \cup {NoTx}]
    /\ pc \in [Requests -> {"idle", "begin"} \cup InTransaction \cup AfterCommit \cup Ended]
    /\ call \in [Requests -> [from : Users, to : Users, amount : Amounts] \cup {NoCall}]
    /\ conn \in SUBSET Requests
    /\ applied \in SUBSET Requests /\ emitted \in SUBSET Requests
    /\ scan \in [Resets -> SUBSET Users]
    /\ target \in [Resets -> Users \cup Resets \cup {NoTx}]

\* Nobody ever has a negative balance, committed or about to be, however
\* transfers, withdrawals and resets of one account overlap: the WHERE of
\* decreaseBalance is the only thing that guards it.
NonNegative == \A u \in Users : balance[u] >= 0 /\ newest[u] >= 0

\* A row is locked only by a transaction that is still under way and at a
\* point where it may hold that row, and an unlocked row shows its committed
\* version; so no rollback, lost session, deadlock or crash leaves a row
\* locked or half-written behind a finished request.  Connections go back to
\* the pool too, but for the one whose START TRANSACTION failed: its request has
\* moved no money.
NothingLeftBehind ==
    /\ \A u \in Users :
          \/ lock[u] = NoTx /\ newest[u] = balance[u]
          \/ \E r \in Requests : lock[u] = r /\ \/ pc[r] = "credit" /\ u = Sender(r)
                                                \/ pc[r] = "commit" /\ u \in {Sender(r), Receiver(r)}
          \/ \E w \in Resets : lock[u] = w /\ Running(w) /\ u \in scan[w]
    /\ \A r \in conn : \/ r \in InFlight
                       \/ pc[r] = "failed" /\ r \notin applied /\ "begin" \in Faults

\* What is between a debit and its commit: a transfer under way has its sender
\* debited by exactly the amount and, before it commits, its receiver credited
\* by exactly the same, both rows locked by it and still there; a reset has
\* zeroed what it has locked, and has locked every surviving row of its
\* snapshot when it is about to commit.
InFlightAccounts ==
    /\ \A u \in Users : lock[u] # NoTx => Exists(u)
    /\ \A r \in Requests :
          /\ pc[r] \in {"begin"} \cup InTransaction =>
                /\ call[r] # NoCall /\ Sender(r) # Receiver(r)
          /\ pc[r] \in {"credit", "commit"} =>
                /\ lock[Sender(r)] = r
                /\ newest[Sender(r)] = balance[Sender(r)] - Amount(r)
          /\ pc[r] = "commit" =>
                /\ lock[Receiver(r)] = r
                /\ newest[Receiver(r)] = balance[Receiver(r)] + Amount(r)
    /\ \A w \in Resets :
          /\ \A u \in Users : lock[u] = w => newest[u] = 0
          /\ \A u \in scan[w] : status[u] # "unborn"
          /\ target[w] = w => \A u \in scan[w] : Exists(u) => lock[u] = w

\* What the caller and notification-service are told agrees with the ledger:
\* "executed" and the event only after a committed transfer, "rejected" never
\* after one, and "failed" only after one whose COMMIT answer or whose cache
\* invalidation went wrong.
HonestOutcome ==
    /\ emitted \subseteq applied
    /\ \A r \in Requests :
          /\ pc[r] \in AfterCommit \cup {"executed"} => r \in applied
          /\ pc[r] \in {"idle", "begin", "rejected"} \cup InTransaction => r \notin applied
          /\ pc[r] = "executed" <=> r \in emitted
          /\ pc[r] = "failed" /\ r \in applied => Faults \cap {"ack", "redis"} # {}

Total == SumFunctionOnSet(balance, {u \in Users : Exists(u)})

\* No step of any transfer, be it a commit, a rollback, a lost answer, a
\* deadlock victim or a crash half way, creates or destroys money.
TransfersConserve == [][flow' # flow => Total' = Total]_vars

\* When a reset commits, every account its snapshot saw is at zero, and no
\* transfer is under way that has already debited or credited one of them: the
\* job leaves neither money in the accounts nor money in flight between them.
ResetLeavesNothing ==
    [][\A w \in Resets : target[w] = w /\ balance' # balance /\ target'[w] = NoTx =>
          /\ \A u \in scan[w] : Exists(u) => balance'[u] = 0
          /\ \A r \in Requests : pc[r] \in {"credit", "commit"} =>
                /\ Sender(r) \notin scan[w]
                /\ pc[r] = "commit" => Receiver(r) \notin scan[w]]_vars

\* The committed rows behave like the ledger: indivisible, at most once per
\* request, never overdrawn.
ImplementsLedger == L!LedgerSpec

\* Every transfer that was let in is answered, and every reset statement ends,
\* although they wait for each other's rows and may deadlock.
TransferEnds == \A r \in Requests : r \in InFlight ~> pc[r] \in Ended
ResetEnds    == \A w \in Resets : Running(w) ~> ~Running(w)

\* The answers documented for transferMoney: an error answer reads "transfer
\* failed", so the caller may take it that no money moved.
FailedMeansNotApplied == \A r \in Requests : pc[r] = "failed" => r \notin applied

\* "receiver not found" is the answer when the receiver is not a live account,
\* so no transfer is committed to a soft-deleted one.
ReceiverIsLive == [][\A r \in applied' \ applied : status[Receiver(r)] = "active"]_vars
=============================================================================
