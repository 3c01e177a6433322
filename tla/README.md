# Specification of hp-chat-backend

This directory holds TLA+ models of the two NestJS services of the repository,
the TLC configurations that check them on small instances, and TLAPS proofs of
what matters most for every instance. Every definition is translated from the
code under `src/`; `PROJECT.json` maps each one to its lines.

## The system

`user-service` (HTTP) keeps accounts, sessions, balances and avatars.
`notification-service` (Kafka consumer, websockets) sends SMS codes and pushes
transfer notifications. A shared library holds the authentication guards.
PostgreSQL, Redis, BullMQ, Kafka, S3, MongoDB and the SMS gateway are external
and modelled from how the code uses them.

| Component | State | Operations | Talks to | What makes it correct |
|---|---|---|---|---|
| Money (`users.service.ts:312-420`, `users.repository.ts:149-180`) | `users_entity.balance`, row locks of open transactions | transferMoney, increaseBalance, decreaseBalance, reset | PostgreSQL transaction, Redis DELs, Kafka emit | conserved, never negative, answers and events match commits, no deadlock for good |
| Sessions (`auth.service.ts:100-239`, `users.service.ts:124-149`) | `refresh_token_entity` | login, refresh, logout, delete-me, hard delete | PostgreSQL, JWT clock | a token serves once, a deleted account has no session |
| Accounts (`auth.service.ts:41-98, 241-263`, `users.service.ts:151-222`) | `otp:*` and `phone-verified:*` in Redis, rows of `users_entity` | send-otp, verify-otp, signup, recover-me, recreate-me, update-me, hard delete | Redis TTLs, PostgreSQL unique constraints, Kafka (SMS) | unique identities, one code or flag serves once, live accounts survive |
| User cache (`users.service.ts:47-122`) | `users:<id>`, `users:all` in Redis, TTL 30 s | cached reads, updateUser | Redis, PostgreSQL | staleness ends with the TTL |
| Balance-reset queue (`features/balance-reset`) | BullMQ job, its place, its lock, how often it stalled | cron and admin POST add, consumer runs | Redis, money | every accepted job is settled, and resets a bounded number of times |
| Avatars (`features/avatar`, `providers/files/s3`) | `avatar_entity`, S3 objects | upload, delete, get-active-users | PostgreSQL, S3 | at most five, no row and no answer without an object |
| Notifications (`notification-service`) | websocket rooms, MongoDB history | connect, transfer-completed, send-sms-otp | Kafka, MongoDB, SMS gateway | who is told and what is recorded, once for each delivery |
| Guards (`libs/auth`, the controllers' decorators) | none; the token carries role and user, for 15 minutes or 90 days | authenticate, authorise | JWT | rights end soon after role or account, administrators are made by administrators |
| Admin operations | as above | give-admin, delete-one-hard | PostgreSQL | acts on the account that was checked |

Controllers, DTOs, migrations and Swagger declarations keep no state. What they
declare enters the models as input ranges (a transfer amount may be 0,
`transfer-money.dto.ts`), as what each handler asks of its caller (`Asks`) and as
guards (unique phone and login, cascading foreign key). `delete-one-hard` passes its whole request body as the id
(`users.controller.ts`), so over HTTP it may not find anyone; the models contain
the service method it calls.

What is hard here is that nothing but `transferMoney` and `refreshTokens` uses a
transaction, and even these do part of their work outside it. Every other
operation is a chain of awaits: read, decide, then write to Redis or PostgreSQL
with what was read. `PROJECT.json` lists under "hazards" where this bites.

## Modules

* `Ledger` - what the money operations promise, on committed rows alone: every
  deposit, withdrawal, transfer and reset is one indivisible step, a transfer
  request takes effect at most once, nobody is overdrawn.
* `Transfers` - the same operations as the code performs them. A request's `pc`
  is the await it has reached (`begin`, `debit`, `credit`, `commit`,
  `invalidate`, `emit`); a row has a committed version `balance[u]`, a newest
  version `newest[u]` and a `lock[u]`. An UPDATE takes the lock, re-evaluates its
  WHERE and keeps the lock until COMMIT or ROLLBACK (READ COMMITTED, the default
  TypeORM asks for); an UPDATE whose WHERE the committed version fails is
  skipped without waiting. Statements outside transactions are one step. A reset
  visits the rows of its snapshot in any order. Deadlocked transactions lose a
  victim. `Faults` selects: `begin` (START TRANSACTION fails outside the try),
  `db` (a statement fails), `ack` (COMMIT works, its answer is lost), `redis` (a
  DEL is rejected), `crash` (the process dies).
* `Sessions` - login, refresh, logout and delete-me over the bag of refresh-token
  rows. A token is its user and the second it was signed in, because that is all
  its payload holds: two of one second are equal strings and the code deletes by
  string. The user is read once per request (`alive`) and used after later awaits.
  A statement that took effect may lose its answer all the same (`Reach`).
* `Accounts` - the SMS code, the phone-verified flag and the three account
  operations it authorises; each test, each DEL and each write is its own step, and
  with `MayFail` each is rejected, or takes effect and its answer is lost (`Reach`).
  Beside them update-me (`Lookup`, `Update`), which writes whatever phone and login its
  body asks for without any flag, and the deletions by the owner and by an administrator.
  `together` is a history variable: who had read a code or a flag, and was about to
  delete it, when it was first deleted.
* `UserCache` - one account's row as the sequence of versions it went through, and
  the two Redis keys that copy one of them. `Awaits` lists, for each operation, the
  DELs, the check, the write and the reads in the order of its handler. `age` and
  `left` count seconds, so the clock needs no bound. What is answered is recorded in
  `served`; `cleared` and `late` remember what a transfer's DEL met.
* `Avatars` - the check of the limit, the PUT to S3 and the row as three steps, the
  two steps of a deletion, the cascade of a deleted account, and the two queries of
  getActiveUsers with whatever happens between them.
* `Notifications` - a transfer's parties and the logins it is announced under, its event
  in Kafka (`stored`, `handled`, `acknowledged`), the rooms of the sockets and the inserts
  into MongoDB. The producer is not configured idempotent, so Kafka may keep several
  copies of one event (`Copies`, `Store`), and it hands out again what was handled but
  not acknowledged: after a restart, which also loses the sockets, or after a rebalance or
  a failed commit of offsets, which the service does not notice (`Rebalance`). A
  login changes hands by a rename or by the end of its account (`Leave`).
  Access tokens have no clock here: any login a user has had may still be in one.
* `AccessControl` - `Asks` is the table of what the decorators of every handler ask;
  `AuthGuard` and `RolesGuard` are evaluated on it and on the tokens that still
  verify. Logins and give-admin are two steps each, with what they read in `call`;
  the end of a token and the age of a call are seconds under one clock. `liveAgo` and
  `adminAgo` count since when an account is no longer live, or a live administrator,
  and stop at `Stale`, so the clock needs no bound.
* `ResetRequests` - what a request to reset the balances may count on: it is settled
  in the end, strikes a limited number of times, and after it is settled only if a
  worker was lost.
* `ResetQueue` - the BullMQ queue: `job[j]` is the job's place in Redis (delayed,
  waiting, active, completed, failed), `hand[j]` the await its `process()` has
  reached, `orphans[j]` the UPDATEs PostgreSQL carries out for workers that died, and
  `zombies[j]` the calls of `process()` that have lost their lock and keep their slot
  until their UPDATE ends. What one UPDATE does to the rows is in `Transfers`.
* `TransfersProofs`, `SessionsProofs`, `AccountsProofs`, `UserCacheProofs`,
  `AvatarsProofs`, `NotificationsProofs`, `AccessControlProofs`, `ResetQueueProofs` -
  the theorems about the module each is named after.
* `MCTransfers`, `MCSessions`, `MCAccounts`, `MCUserCache`, `MCAvatars`,
  `MCNotifications`, `MCAccessControl`, `MCResetQueue` - values for TLC.

`Ledger` is instantiated by `Transfers`, which shares its variables `status`,
`balance` and `applied`; the refinement mapping is the identity on them.
`ResetRequests` is instantiated by `ResetQueue` with a mapping that forgets: `Phase`
takes delayed, waiting and active for "open", completed and failed for "settled", and
a job Redis never took for one that was not asked for yet. Operators
named in a comment as "Mutant" are deliberately wrong variants of the definition
that follows them; no specification uses them. They are there to show that each
property does depend on the code: putting one in place of the right definition
makes TLC find the property violated ("mutants" in `PROJECT.json`).

## Runs

| Run | Question | Instance |
|---|---|---|
| `transfers_safety` | Do concurrent transfers, withdrawals, resets and deletions with every fault keep the money right, and refine `Ledger`? | 2 accounts (one born during the run), 2 transfers, 1 reset slot, amounts 0-2, deposits up to a balance of 2 |
| `transfers_live` | Does every transfer and every reset end, although they wait for each other's rows? | 2 accounts, 2 transfers, 1 reset slot, amount 1, crashes |
| `transfers_failed_answer` | Does an error answer mean that no money moved? **No.** | amount 1, Redis failures only |
| `transfers_dead_receiver` | Is the credited receiver always a live account? **No.** | amount 1, no faults |
| `sessions` | Is a token served once, who can add sessions to a deleted account, does a refresh that does not commit cost a session, is every request answered? | 1 account, 3 requests, 3 seconds, tokens valid for 1, failures, lost answers and crashes |
| `accounts_safety` | Do identities stay unique, whom can one code or flag serve, and is every account accounted for? | 2 phones, 2 logins, 1 code, 3 requests, any await may fail or lose its answer |
| `accounts_recreate` | Does recreate-me leave live accounts alone? **No.** | 1 phone, 1 login, no failures |
| `cache_safety` | How old can a cached answer be, and is a null ever wrong? | 1 account, 3 requests, lifetime 2, requests of at most 1 second, failures |
| `avatars_safety` | How far over the limit can uploads go, and do the bucket and the rows agree? | 2 users, 4 requests, limit 2, active from 2 avatars on, failures of both stores |
| `notifications` | Who is told of a transfer, how often is it recorded, and is every stored event handled? | 2 users, 2 logins, 3 changes of logins, 1 transfer, 1 socket, 2 copies of the event, 1 restart or rebalance |
| `access_safety` | How long do rights outlive what gave them, and who can make an administrator? | 2 users, 1 of them administrator from the start, 2 calls, lifetimes 2 and 3, calls of at most 1 second |
| `reset_queue` | Is every accepted job settled, how often does it strike, and does the queue refine `ResetRequests`? | 3 jobs, 2 slots, 1 stall, 2 losses |

**Bounds.** Two transfers over two accounts already give the opposite-order
deadlock, the race for one sender's money and the race of two credits; the reset is
the third party that locks both rows. Two rows have at most two holders, so every ring
is one of two transactions, and two transfers never wait for a pool of two connections:
larger rings and the wait for a connection are covered by the theorem
`NobodyWaitsInVain` alone, as a liveness run with three of either is too large.
Amounts 0, 1 and 2 against balances of at most 4 contain the empty transfer, the
transfer of everything and the one that is a unit short. `MaxBalance` bounds
deposits only. Three session requests are what the races need: two that compete
and one delete-me, or a straggler, the delete-me and a later arrival; clock and
lifetime let a token expire and let two be signed in one second and in different
ones; no statement of that module looks at two accounts, so one is enough. Three
account requests allow a verification and the two operations that share it, or a
verification, an operation and the update-me that takes its phone or login away; phones
that were verified before leave all three to race. One code is enough, because a newer
one that equals the older is deleted by the older one's call just the same. An ended
account request drops its body. Three cache requests are
a slow reader, the writer that overtakes it and the reader that is served; keys of
different accounts never meet except in `users:all`, where another account's arrival
(`signup`) is a new version. `Delay` stands for how long a request may take, which the
code does not limit: `FreshAnswers` holds with whatever it is. Four uploads put a user
two over a limit of two; five requests were tried once and change nothing. One transfer
and one socket suffice for `notifications`, because events and sockets do not
influence each other; two logins and three changes let a login go from one user to the
other, and the first user take another; two copies and one redelivery let an event be
recorded three times. Two users suffice
for `access_safety`: one who makes and one who is made, each of whom may leave; its
lifetimes of 2 and 3 differ from each other and from `Delay`, and two calls let a
promotion overlap with the login that carries it or with another promotion. Three jobs
over two slots leave one waiting, two losses let a job be taken from two workers in
turn, or let both slots be held by calls that have lost their lock, and with one stall
allowed (BullMQ's default, as the module sets none) a job is then given up. Requests are interchangeable and safety runs use that symmetry; the runs
with a temporal property do not.
`CHECK_DEADLOCK FALSE` in the session, avatar and queue runs: requests and jobs are
used once, so the model stops when they are all answered or settled.

**Fairness.** A request that was let in keeps running: `SF` on its next step
(`FairSpec` of `Transfers` and `Sessions`). Weak fairness would allow a waiting
UPDATE to be passed over for ever by others that take the same lock; PostgreSQL's
lock queue and pg-pool's queue of pending clients are first come first served, so
strong fairness is what they provide. Reset statements and the deadlock detector
are part of these steps. Clients, faults, cron ticks and crashes carry no fairness.
In `Notifications` only the Kafka consumer (`Deliver`, `Acknowledge`) is weakly fair:
nothing else can disable it for ever, since `MaxRedeliveries` bounds the restarts and
rebalances. Neither a send nor an insert need end. In `ResetQueue` a dead process is
started again, BullMQ's timers (`Promote`, `Stalled`) and its worker (`Take`, the end of
an awaited UPDATE, the report) are weakly fair: each stays enabled until it is taken or
the process dies, and `MaxLosses` bounds that. So is `ZombieEnds`: a call of `process()`
whose lock is lost awaits its UPDATE like any other, and frees its slot only when that
ends; were it to hang for ever, as many of them as there are slots would stop the queue,
in the model as in the code. The UPDATE of a dead process, which nobody awaits, need not
end.

## What the runs show

The money core holds up: no lost update, no negative balance, no money created or
destroyed by any transfer step including crashes, lost COMMIT answers and
deadlocks; a reset leaves nothing behind in the accounts it saw. `HonestOutcome`
says exactly how far answers may be trusted: an "executed" transfer and an emitted
event are always committed, a "failed" one is committed only after a lost COMMIT
answer or a failed invalidation. The clause about Redis failures is only a condition on
which faults can be met, true by itself in a run with all of them; what it says with
fewer is in the theorem. `NothingLeftBehind` allows a leaked connection only to a
transfer that failed without having moved anything, and only when START TRANSACTION
itself can fail, which is outside the try.

A cached answer is never older than the entry's 30 seconds plus the time its reader
took, whatever operation forgets to delete the keys or deletes them before it writes;
after a transfer, which deletes them last, only a reader that had already selected
the old row can bring it back; and a cached null is never answered. Uploads exceed the
limit of five by as many as were under way together; no row and no list of
active users links a file that is not in the bucket, while files outlive failed
uploads and deleted accounts.
Nobody hears of a transfer that has not committed. It is recorded at most once for each
copy of its event in Kafka and each time that copy is handed out again
(`RecordedPerDelivery`): the handler repeats nothing by itself, and protects from no
repetition either. That a stored event is handled in the end (`EventIsHandled`) is not to
say that it is recorded, as the insert is not awaited. Since rooms are named after logins, a socket that
joined before a rename can be told another account's news (`ToldByLogin` says that
this needs a login both have borne).

Refresh tokens serve once however often their row's string was issued. delete-me
leaves sessions behind, but no more than the logins and refreshes that were under way
when it purged (`SurvivorsWereUnderway`); a recovered account has them again. A refresh
that fails, is refused or rolled back costs nobody a session, and one that commits just
those its DELETE had found (`OnlyCommitsSpend`); that its INSERT may then fail and leave
the user without a token is what the code does.

A code or a flag may serve several requests, since each is read one await before it is
deleted, but only requests that had all read it when the first of them deleted it
(`SpentTogether`). A phone on an account is not always a verified one: update-me takes
any phone nobody else has. Phones, logins and ids stay unique through all of this, and
every account that is gone was erased by one recreate-me or one administrator.

The guards look at nothing but the token. An administrator's rights last 15 minutes
and the time of the login that read the role; those of anybody else up to 90 days
and a request, because the guard takes a refresh token wherever it takes an access
token and does not ask for its row. give-admin may promote an account deleted
between its check and its UPDATE, and such an account is an administrator if it comes
back, but the doing is always that of another administrator of the last minutes.

The queue settles every job it has accepted, with a dead or slow worker too. It does
so without the three attempts the jobs ask for: `process()` returns normally whatever
happened, so a failed reset waits for the next turn of the cron (`AgainOnlyIfLost`). (If
Redis rejects the report of a completion with an error of its own, BullMQ may take its
failed path and use an attempt after all; that is not modelled. A Redis out of reach is.)
A lost worker's UPDATE may strike after its job was settled; a job strikes at most
`1 + MaxStalled` times.

Disagreements with what the code, its answers or its API documentation say
("findings"):

1. A Redis failure after the commit is answered as a failed transfer, whose money
   has moved and whose notification is never sent: the rejected DEL leads to the catch
   block, whose ROLLBACK of a committed transaction throws in its turn, so the caller gets
   that error.
2. A receiver deleted after its check, at any moment before its credit, is still credited.
3. recreate-me can erase an account recover-me has just restored, since both can
   read one phone-verified flag and the DELETE does not look at `deletedAt`.

Two more facts the models show without a statement in the repository to hold
against them: recreate-me erases the old account before it finds out that the new
login is taken, and a refresh in the very second its token was signed issues the
same string again.

## What is proved

For any values of the constants, from the assumption of the module alone:

`TransfersProofs` (`TransfersAssumption`: the identifiers are distinct, accounts are
finitely many, amounts are naturals):

* `Invariance`: `Spec => []IInv`, where `IInv` is the conjunction of `TypeOK`,
  `NonNegative`, `NothingLeftBehind`, `InFlightAccounts` and `HonestOutcome`, with
  one lemma per action or group of actions that end alike. `InFlightAccounts` is the
  strengthening: without "the sender's row is locked by the request and differs
  from its committed version by exactly the amount" a commit could install
  anything, and without "an unlocked row shows its committed version"
  (`NothingLeftBehind`) the WHERE of the debit would say nothing about the version
  it writes. TLC checks every part of it first, in `transfers_safety`.
* its corollaries `TypeCorrect`, `NeverOverdrawn`, `NothingIsLeftBehind`,
  `InFlightBalanced`, `OutcomesAreHonest`;
* `ResetIsTotal`, the action property of the reset;
* `Refinement`: `Spec => L!LedgerSpec`. A commit, also one whose answer is lost, is
  `Ledger!Move`; a reset's commit is `Ledger!Reset` of the rows it has locked; single
  statements are `Deposit`, `Withdraw` and `Lifecycle`; all else stutters.
* `MoneyIsConserved` (`TransfersConserve`): of a transfer's steps only the commit changes
  a committed row, and a `Ledger!Move` takes from one row what it gives another. What
  remains is that the sum of finitely many balances stays the same then. The module's
  first section shows what `SumFunctionOnSet`, a fold by a recursive function, returns:
  nothing for the empty set, and for any other set any one member's balance plus the sum
  of the rest (`SumRemove`, `SumMoved`). The induction it takes is done with sets: among
  the subsets of a finite set for which a statement is false there is one with no smaller
  such subset (`MinimalSubset`).
* `NobodyWaitsInVain` (`NoStandstill`), for finitely many requests and resets, at least
  one connection and no failing START TRANSACTION (each of which keeps a connection for
  good): any requests and resets under way that wait for nobody but each other include
  one whose next step is possible. `CanStep` restates the guards of `Step` and
  `ResetStep`; `WaitsFor` is the holder of the row, or everybody with a connection.
  Whoever holds a connection or a row is itself under way, so if nobody in such a
  set could move, its smallest part that is closed in the same way would be a ring
  (`ClosedSetHasRing`), and the deadlock detector takes a member of a ring as its victim.
  It is the safety core of `TransferEnds` and `ResetEnds`: what fairness has to add is
  only that a step possible again and again is taken.
* `FailedMeansNothingMoved` and `OnlyLateDeletionsArePaid` say exactly when findings 1
  and 2 can happen: an error answer is to be trusted unless a COMMIT's answer or a DEL is
  lost, and a transfer is paid to a soft-deleted account only if that was deleted between
  the transfer's check and its credit (`NoLateDeletion` is the hypothesis; `StillLive`
  the invariant that follows from it).

`AccessControlProofs` (`AccessAssumption`: lifetimes are positive, an access token's is
the shorter one): `AccessInvariance` and from it `AccessTypeCorrect`, `RightsDoEnd`,
`AdminsMakeAdmins` and `PromotionsAreOfLiveAccounts`. `RightsEnd` is not inductive: the
strengthening says of each token how long ago its user was live, or an administrator,
by the life it has left (`TokenTrue`), and the same of each call by its age
(`CallTrue`); a promotion's author is known to be another user because whoever has a
token with the role has the role in the database, and the promoted one had not.

`ResetQueueProofs` (`ResetQueueAssumption`): `QueueInvariance`, `QueueTypeCorrect`,
`NoRetryOfFailures`, and `QueueRefinement`, the safety half of
`ImplementsResetRequests`: the initial state and every step of the queue is one of
`ResetRequests` or a stutter. `Counted` is the strengthening: UPDATEs that struck, are
awaited or were left behind are together no more than were sent, and those no more
than one and one per stall.

`AvatarsProofs` (`AvatarsAssumption`: finitely many requests): `AvatarsInvariance`,
`AvatarsTypeCorrect`, `LinksStayGood` and `FilesAreExplained`. `Upload` is the
strengthening: an upload's file is in the bucket from its PUT on, and a row is its
caller's. `OverTheLimitTogether` rests on an invariant of its own, `Crowded`: among any
of a user's uploads that are live or may still be, one (the last to check) met all the
others but `Limit`. Only a check adds to these uploads, and it finds fewer than `Limit`
of them live.

`SessionsProofs` (`SessionsAssumption`: finitely many requests, `None` is no user and no
token): `SessionsInvariance`, `SessionsTypeCorrect`, `TokensServeOnce`
(`RefreshAtMostOnce`), `SessionsEndWithTheRow` and the action property `SpentByCommits`
(`OnlyCommitsSpend`). The strengthening is a sum: for each token string, the refreshes it has served and the rows
it still has are together no more than the rows inserted with it (`Accounted`). It needs
that an uncommitted DELETE has taken at least one row that is still counted (`Local`)
and that no two hold the same rows (`OneHolder`). `SurvivorsAreBounded`
(`SurvivorsWereUnderway`) counts again: the rows of a user's tokens, numbered token by
token (`Rows`), and the requests that may still add one. After the purge a step adds a
row only by ending such a request, and no request joins them, because only one that has
read the account as live may go on to an INSERT (`Local`) and it is not live while this
counts; `Admitted` adds that a live account has nothing on record.

`AccountsProofs` (`AccountsAssumption`: finitely many phones and requests):
`AccountsInvariance`, `AccountsTypeCorrect`, `IdentitiesStayUnique`, `AccountsAddUp` and
the action property `ServedTogether` (`SpentTogether`). The strengthening says which
operations a request can be running at each await (`Fits`), that nobody has deleted a
code or a flag that is still there and that whoever is about to delete one that is gone
was about to do so when it went (`Redis`), and that a request erases at most once, right
before its INSERT (`ErasedOnce`). `OnlyRacesDestroyAccounts` is a sufficient condition
for what finding 3 shows to fail: as long as no recover-me, no second recreate-me and no
earlier update-me meets a recreate-me at its account (`RecreatesAlone`), and no
administrator deletes that account meanwhile (`PurgesElsewhere`), live accounts survive,
whatever signups, delete-mes, verifications, failures and lost answers run beside it and
whatever happens on other phones. Each of the four can destroy a live account. The
invariant, `StillDeleted`, is that a recreate-me past its check still has a soft-deleted
account before it.

`UserCacheProofs` (`UserCacheAssumption`: the lifetime is positive, `None` is no number,
record or list of awaits): `UserCacheInvariance`, `UserCacheTypeCorrect`,
`TransfersAreSeen`, and the action properties `AnswersAreFresh` and `NullsAreNotServed`.
Neither bound is inductive alone: a reader about to fill a key holds a version that was
replaced no longer ago than the reader has been under way, and is in `late` if a
transfer has deleted the key for a newer one (`HoldsFresh`); of an entry, the age of its
version and its seconds left never exceed `TTL + Delay` (`Entry`).

`NotificationsProofs` (`NotificationsAssumption`): `NotificationsInvariance`,
`NotificationsTypeCorrect`, `ToldByLoginOnly`, `NewsStaysTrue` and `RecordedForDeliveries`. The
strengthening places each pair of user and login that a row, a room or an event names
among those ever borne (`Borne`, `Seated`, `Named`), and counts the inserts a copy of an
event has led to by where that copy is in Kafka (`Recorded`).

Only model-checked is what must eventually happen, as it rests on fairness, which the
prover has no rules for: `TransferEnds`, `ResetEnds`, `RequestEnds`, `EventIsHandled` and
the fair half of `ImplementsResetRequests`. Every other property of a run that passes is
a theorem, and each of the three that fail has one with a condition under which it
holds. That `CanStep` is when a step is enabled is read off the guards, not proved.

## Plan

Done: every module above with its runs, the refinements of `Ledger` and
`ResetRequests`, and the proofs about all eight components. Left: a composition of
`ResetQueue` with `Transfers`, so that a job's UPDATE meets the transfers row by row; at
present each is checked with the other's steps abstracted.

## Not modelled

* The SMS gateway (`sms.service.ts`): one HTTP GET for each event, with no state of
  ours; whether a failed one is repeated is decided inside `@nestjs/microservices` and
  kafkajs, not by this code.
* ThrottlerGuard's counters, which live in a library's memory and only refuse.
* Swagger declarations, the wording of answers and logs, the validation of formats.
* Migrations and configuration, beyond the constraints named above.
* get-all, one SELECT with paging that changes nothing and whose result nobody uses.
