------------------------------- MODULE Ledger -------------------------------
(***************************************************************************)
(* What the money operations of user-service promise, seen from the        *)
(* committed rows of users_entity: every account opens at zero, a deposit, *)
(* a withdrawal or a transfer takes effect in one indivisible step, a      *)
(* transfer request takes effect at most once, and nobody can spend money  *)
(* that is not there.  Transfers.tla is shown to implement this.           *)
(***************************************************************************)
EXTENDS Integers

CONSTANTS
    Users,          \* the ids users_entity ever holds
    Founders,       \* the accounts that exist at the start
    Opening,        \* the balance of each founder
    Requests,       \* transferMoney calls
    Amounts         \* the sums the DTOs let through

VARIABLES
    status,         \* status[u]: no row yet, live, soft-deleted, hard-deleted
    balance,        \* balance[u]: the committed balance column
    applied         \* the requests whose transfer has been committed

ledgerVars == <<status, balance, applied>>

Exists(u) == status[u] \in {"active", "deleted"}

LedgerInit ==
    /\ status = [u \in Users |-> IF u \in Founders THEN "active" ELSE "unborn"]
    /\ balance = [u \in Users |-> IF u \in Founders THEN Opening ELSE 0]
    /\ applied = {}

\* A row appears with the column's default, lives, and may disappear for good.
Lifecycle(u) ==
    /\ \/ status[u] = "unborn"  /\ status' = [status EXCEPT ![u] = "active"]
       \/ status[u] = "active"  /\ status' = [status EXCEPT ![u] = "deleted"]
       \/ status[u] = "deleted" /\ status' = [status EXCEPT ![u] = "active"]
       \/ Exists(u)             /\ status' = [status EXCEPT ![u] = "gone"]
    /\ UNCHANGED <<balance, applied>>

\* increaseBalance: a positive amount arrives from outside.
Deposit(u, a) ==
    /\ Exists(u)
    /\ balance' = [balance EXCEPT ![u] = @ + a]
    /\ UNCHANGED <<status, applied>>

\* decreaseBalance: an amount leaves, if it is there.
Withdraw(u, a) ==
    /\ Exists(u) /\ balance[u] >= a
    /\ balance' = [balance EXCEPT ![u] = @ - a]
    /\ UNCHANGED <<status, applied>>

\* transferMoney: both sides change together, once per request.
Move(r, from, to, a) ==
    /\ r \notin applied /\ applied' = applied \cup {r}
    /\ from # to /\ Exists(from) /\ Exists(to) /\ balance[from] >= a
    /\ balance' = [balance EXCEPT ![from] = @ - a, ![to] = @ + a]
    /\ UNCHANGED status

\* resetBalance: a set of existing rows drops to zero together.
Reset(rows) ==
    /\ \A u \in rows : Exists(u)
    /\ balance' = [u \in Users |-> IF u \in rows THEN 0 ELSE balance[u]]
    /\ UNCHANGED <<status, applied>>

LedgerNext ==
    \/ \E u \in Users : Lifecycle(u)
    \/ \E u \in Users, a \in Amounts : Deposit(u, a) \/ Withdraw(u, a)
    \/ \E r \in Requests, from, to \in Users, a \in Amounts : Move(r, from, to, a)
    \/ \E rows \in SUBSET Users : Reset(rows)

LedgerSpec == LedgerInit /\ [][LedgerNext]_ledgerVars
=============================================================================
