------------------------------ MODULE ResetQueue ------------------------------
(***************************************************************************)
(* The BullMQ queue reset-balance: jobs added by the cron and by           *)
(* administrators, the consumer that runs their UPDATE, and what becomes   *)
(* of a job when the UPDATE fails, Redis is out of reach or the process    *)
(* dies under it.  The UPDATE itself is modelled in Transfers.             *)
(***************************************************************************)
EXTENDS Integers, FiniteSets

CONSTANTS
    Jobs,           \* calls of resetBalance
    Concurrency,    \* jobs one worker has in hand at a time (5)
    MaxStalled,     \* how often a job may stall before BullMQ gives it up (1)
    MaxLosses       \* bound of the model: deaths of the process and lost locks

ASSUME ResetQueueAssumption ==
    /\ Concurrency \in Nat \ {0} /\ MaxStalled \in Nat /\ MaxLosses \in Nat

VARIABLES
    job,            \* job[j]: where it is in Redis
    hand,           \* hand[j]: the await its process() has reached, if a worker has it
    orphans,        \* orphans[j]: UPDATEs under way whose process is dead
    zombies,        \* zombies[j]: process() calls whose lock is lost, still at their UPDATE
    starts,         \* starts[j]: UPDATEs ever sent for it
    strikes,        \* strikes[j]: those that committed
    stalls,         \* stalls[j]: how often BullMQ found it without a worker
    losses,         \* deaths of the process and locks it could not renew
    alive           \* whether the process with cron, queue and worker runs

counts == <<starts, strikes, stalls>>
left   == <<orphans, zombies>>
vars   == <<job, hand, left, counts, losses, alive>>

Settled == {"completed", "failed"}

Init ==
    /\ job = [j \in Jobs |-> "new"] /\ hand = [j \in Jobs |-> "none"]
    /\ orphans = [j \in Jobs |-> 0] /\ zombies = orphans
    /\ starts = orphans /\ strikes = orphans /\ stalls = orphans
    /\ losses = 0 /\ alive = TRUE

Move(j, place)  == job' = [job EXCEPT ![j] = place]
Work(j, await)  == hand' = [hand EXCEPT ![j] = await]
Inc(f, j)       == [f EXCEPT ![j] = @ + 1]

-----------------------------------------------------------------------------
(* BalanceResetService                                                       *)

\* The cron's and the administrators' add, with its delay of two seconds.
Add(j) ==
    /\ alive /\ job[j] = "new" /\ Move(j, "delayed")
    /\ UNCHANGED <<hand, left, counts, losses, alive>>

\* Redis is out of reach, or only its answer is lost; the caller gets the error,
\* the cron waits for its next turn.
AddFailure(j) ==
    /\ alive /\ job[j] = "new" /\ \E place \in {"refused", "delayed"} : Move(j, place)
    /\ UNCHANGED <<hand, left, counts, losses, alive>>

\* The delay has passed.
Promote(j) ==
    /\ alive /\ job[j] = "delayed" /\ Move(j, "waiting")
    /\ UNCHANGED <<hand, left, counts, losses, alive>>

-----------------------------------------------------------------------------
(* ResetBalanceConsumer                                                      *)

\* A lost lock does not free its slot: process() has not returned yet.
SlotsTaken == Cardinality({k \in Jobs : hand[k] # "none"})
              + Cardinality(UNION {{k} \X (1..zombies[k]) : k \in Jobs})

\* Mutant: the UPDATE is not awaited.
TakeUnawaited(j) ==
    /\ alive /\ job[j] = "waiting"
    /\ SlotsTaken < Concurrency
    /\ Move(j, "active") /\ Work(j, "return")
    /\ starts' = Inc(starts, j) /\ orphans' = Inc(orphans, j)
    /\ UNCHANGED <<zombies, strikes, stalls, losses, alive>>

\* A free slot of the worker calls process(), which sends the UPDATE.
Take(j) ==
    /\ alive /\ job[j] = "waiting"
    /\ SlotsTaken < Concurrency
    /\ Move(j, "active") /\ Work(j, "update") /\ starts' = Inc(starts, j)
    /\ UNCHANGED <<left, strikes, stalls, losses, alive>>

Update(j) ==
    /\ hand[j] = "update" /\ Work(j, "return") /\ strikes' = Inc(strikes, j)
    /\ UNCHANGED <<job, left, starts, stalls, losses, alive>>

\* Mutant: the error is thrown on, so BullMQ makes another attempt.
UpdateFailureThrown(j) ==
    /\ hand[j] = "update" /\ Work(j, "none") /\ Move(j, "delayed")
    /\ UNCHANGED <<left, counts, losses, alive>>

\* The UPDATE is rejected, its answer is lost or no row was affected: logged, and
\* process() returns as after a success.
UpdateFailure(j) ==
    /\ hand[j] = "update" /\ Work(j, "return")
    /\ strikes' \in {strikes, Inc(strikes, j)}
    /\ UNCHANGED <<job, left, starts, stalls, losses, alive>>

\* process() has returned: the job is completed and removed, its attempts unused.
Complete(j) ==
    /\ hand[j] = "return" /\ Work(j, "none") /\ Move(j, "completed")
    /\ UNCHANGED <<left, counts, losses, alive>>

\* Redis cannot be told so.
CompleteFailure(j) ==
    /\ hand[j] = "return" /\ Work(j, "none")
    /\ UNCHANGED <<job, left, counts, losses, alive>>

-----------------------------------------------------------------------------
(* BullMQ and the environment                                                *)

\* Mutant: a job may stall any number of times.
StalledForEver(j) ==
    /\ alive /\ job[j] = "active" /\ hand[j] = "none" /\ stalls[j] <= MaxStalled + 1
    /\ stalls' = Inc(stalls, j) /\ Move(j, "waiting")
    /\ UNCHANGED <<hand, left, starts, strikes, losses, alive>>

\* An active job whose lock nobody renews is handed out again, without its delay
\* and without counting as an attempt; one that stalls too often is failed.
Stalled(j) ==
    /\ alive /\ job[j] = "active" /\ hand[j] = "none"
    /\ stalls' = Inc(stalls, j)
    /\ Move(j, IF stalls[j] < MaxStalled THEN "waiting" ELSE "failed")
    /\ UNCHANGED <<hand, left, starts, strikes, losses, alive>>

\* The process dies; PostgreSQL goes on with the UPDATEs it has been sent.
Die ==
    /\ alive /\ alive' = FALSE /\ losses < MaxLosses /\ losses' = losses + 1
    /\ orphans' = [j \in Jobs |-> orphans[j] + zombies[j]
                                  + (IF hand[j] = "update" THEN 1 ELSE 0)]
    /\ zombies' = [j \in Jobs |-> 0] /\ hand' = [j \in Jobs |-> "none"]
    /\ UNCHANGED <<job, counts>>

\* The lock of a job cannot be renewed in time while its UPDATE runs: BullMQ takes
\* the job for lost, and nothing this call of process() says of it counts any more;
\* but the call goes on and keeps its slot.
LoseLock(j) ==
    /\ hand[j] = "update" /\ losses < MaxLosses /\ losses' = losses + 1
    /\ Work(j, "none") /\ zombies' = Inc(zombies, j)
    /\ UNCHANGED <<job, orphans, counts, alive>>

Restart ==
    /\ ~alive /\ alive' = TRUE
    /\ UNCHANGED <<job, hand, left, counts, losses>>

\* The UPDATE of a dead process commits or fails, at whatever time.
OrphanEnds(j) ==
    /\ orphans[j] > 0 /\ orphans' = [orphans EXCEPT ![j] = @ - 1]
    /\ strikes' \in {strikes, Inc(strikes, j)}
    /\ UNCHANGED <<job, hand, zombies, starts, stalls, losses, alive>>

\* The UPDATE of a call whose lock was lost does; the call returns, BullMQ refuses
\* its answer and the slot is free.
ZombieEnds(j) ==
    /\ zombies[j] > 0 /\ zombies' = [zombies EXCEPT ![j] = @ - 1]
    /\ strikes' \in {strikes, Inc(strikes, j)}
    /\ UNCHANGED <<job, hand, orphans, starts, stalls, losses, alive>>

Process(j) == Update(j) \/ UpdateFailure(j)
Return(j)  == Complete(j) \/ CompleteFailure(j)

Next ==
    \/ \E j \in Jobs :
          \/ Add(j) \/ AddFailure(j) \/ Promote(j) \/ Take(j)
          \/ Process(j) \/ Return(j) \/ Stalled(j) \/ LoseLock(j)
          \/ OrphanEnds(j) \/ ZombieEnds(j)
    \/ Die \/ Restart

Spec == Init /\ [][Next]_vars

\* A process that died is started again, and one that lives goes on; an UPDATE
\* that somebody awaits ends, whether his lock is lost or not.
FairSpec ==
    /\ Spec /\ WF_vars(Restart)
    /\ \A j \in Jobs : /\ WF_vars(Promote(j)) /\ WF_vars(Take(j)) /\ WF_vars(Process(j))
                       /\ WF_vars(Return(j)) /\ WF_vars(Stalled(j))
                       /\ WF_vars(ZombieEnds(j))

-----------------------------------------------------------------------------
(* Properties                                                                *)

TypeOK ==
    /\ job \in [Jobs -> {"new", "refused", "delayed", "waiting", "active"} \cup Settled]
    /\ hand \in [Jobs -> {"none", "update", "return"}]
    /\ {orphans, zombies} \subseteq [Jobs -> 0..MaxLosses]
    /\ {starts, strikes, stalls} \subseteq [Jobs -> 0..MaxStalled + 1]
    /\ losses \in 0..MaxLosses /\ alive \in BOOLEAN

\* A reset is carried out again only when its worker was lost: a failed one never is,
\* the attempts and the back-off it was added with notwithstanding.
AgainOnlyIfLost == \A j \in Jobs : starts[j] <= 1 + stalls[j]

\* Seen from the accounts: where in Redis an open job is does not matter, nor
\* does who asked.
Phase == [j \in Jobs |-> IF job[j] \in {"new", "refused"} THEN "new"
                        ELSE IF job[j] \in Settled THEN "settled" ELSE "open"]

R == INSTANCE ResetRequests WITH
        MaxStrikes <- 1 + MaxStalled, phase <- Phase, disturbed <- losses > 0

\* Every accepted job is settled, through failures, losses and stalls; it resets the
\* balances at most twice, and after it is settled only by an UPDATE whose
\* worker died or lost the job.
ImplementsResetRequests == R!RequestsSpec
=============================================================================
