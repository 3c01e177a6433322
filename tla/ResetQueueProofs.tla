--------------------------- MODULE ResetQueueProofs ---------------------------
(***************************************************************************)
(* Proofs about ResetQueue, for any jobs, concurrency and limits: its      *)
(* invariants and the safety part of its refinement of ResetRequests.      *)
(***************************************************************************)
EXTENDS ResetQueue, TLAPS

\* What keeps the counts together: an UPDATE is sent once, and once more for each
\* time the job was found stalled; it has struck, is waited for or was left behind,
\* but never two of these; and only a loss leaves one behind.
Counted(j) ==
    /\ starts[j] <= 1 + stalls[j]
    /\ job[j] \in {"delayed", "waiting", "failed"} => starts[j] <= stalls[j]
    /\ job[j] \in {"new", "refused"} => starts[j] = 0
    /\ job[j] # "failed" => stalls[j] <= MaxStalled
    /\ hand[j] # "none" => job[j] = "active"
    /\ strikes[j] + orphans[j] + zombies[j] + (IF hand[j] = "update" THEN 1 ELSE 0)
         <= starts[j]
    /\ orphans[j] + zombies[j] <= losses

IInv == TypeOK /\ \A j \in Jobs : Counted(j)

USE ResetQueueAssumption DEF ResetQueueAssumption, Settled, Move, Work, Inc, counts, left

LEMMA InitEstablishes == Init => IInv
  BY DEF Init, IInv, TypeOK, Counted

\* The steps of the queue itself.
LEMMA QueueSteps ==
  ASSUME IInv, NEW j \in Jobs, Add(j) \/ AddFailure(j) \/ Promote(j) \/ Take(j)
  PROVE  IInv'
<1>1. CASE Add(j)
  BY <1>1 DEF IInv, TypeOK, Counted, Add
<1>2. CASE AddFailure(j)
  BY <1>2 DEF IInv, TypeOK, Counted, AddFailure
<1>3. CASE Promote(j)
  BY <1>3 DEF IInv, TypeOK, Counted, Promote
<1>4. CASE Take(j)
  <2>1. hand[j] = "none" /\ starts[j] <= stalls[j] /\ stalls[j] <= MaxStalled
    BY <1>4 DEF IInv, TypeOK, Counted, Take
  <2> QED BY <1>4, <2>1 DEF IInv, TypeOK, Counted, Take
<1> QED BY <1>1, <1>2, <1>3, <1>4

\* The steps of the consumer and what becomes of its answer.
LEMMA ConsumerSteps ==
  ASSUME IInv, NEW j \in Jobs, Process(j) \/ Return(j)
  PROVE  IInv'
<1>1. CASE Process(j)
  BY <1>1 DEF IInv, TypeOK, Counted, Process, Update, UpdateFailure
<1>2. CASE Return(j)
  BY <1>2 DEF IInv, TypeOK, Counted, Return, Complete, CompleteFailure
<1> QED BY <1>1, <1>2

\* Stalls, losses and what they leave behind.
LEMMA LossSteps ==
  ASSUME IInv,
         Die \/ Restart \/ \E j \in Jobs : Stalled(j) \/ LoseLock(j) \/ OrphanEnds(j) \/ ZombieEnds(j)
  PROVE  IInv'
<1>1. CASE Die
  <2>1. /\ losses \in Nat /\ losses' = losses + 1 /\ losses < MaxLosses
        /\ alive' = FALSE /\ hand' = [j \in Jobs |-> "none"]
        /\ orphans' = [j \in Jobs |-> orphans[j] + zombies[j]
                                       + (IF hand[j] = "update" THEN 1 ELSE 0)]
        /\ zombies' = [j \in Jobs |-> 0]
        /\ UNCHANGED <<job, starts, strikes, stalls>>
    BY <1>1 DEF IInv, TypeOK, Die
  <2>2. \A j \in Jobs : /\ orphans[j] \in Nat /\ zombies[j] \in Nat
                         /\ orphans[j] + zombies[j] <= losses
    BY DEF IInv, TypeOK, Counted
  <2>3. {orphans, zombies}' \subseteq [Jobs -> 0..MaxLosses]
    <3>1. ASSUME NEW j \in Jobs
          PROVE  orphans[j] + zombies[j] + (IF hand[j] = "update" THEN 1 ELSE 0)
                   \in 0..MaxLosses
      <4>1. orphans[j] \in Nat /\ zombies[j] \in Nat /\ orphans[j] + zombies[j] <= losses
        BY <2>2
      <4> QED BY <2>1, <4>1
    <3>2. orphans' \in [Jobs -> 0..MaxLosses]
      BY <2>1, <3>1
    <3>3. zombies' \in [Jobs -> 0..MaxLosses]
      BY <2>1
    <3> QED BY <3>2, <3>3
  <2>4. TypeOK'
    <3>1. hand' \in [Jobs -> {"none", "update", "return"}]
      BY <2>1
    <3>2. losses' \in 0..MaxLosses
      BY <2>1
    <3>3. alive' \in BOOLEAN
      BY <2>1
    <3>4. job' \in [Jobs -> {"new", "refused", "delayed", "waiting", "active"} \cup Settled]
      BY <2>1 DEF IInv, TypeOK
    <3>5. {starts, strikes, stalls}' \subseteq [Jobs -> 0..MaxStalled + 1]
      <4>1. {starts, strikes, stalls} \subseteq [Jobs -> 0..MaxStalled + 1]
        BY DEF IInv, TypeOK
      <4>2. starts' = starts /\ strikes' = strikes /\ stalls' = stalls
        BY <2>1
      <4> QED BY <4>1, <4>2
    <3> QED BY <2>3, <3>1, <3>2, <3>3, <3>4, <3>5 DEF TypeOK
  <2>5. ASSUME NEW j \in Jobs PROVE Counted(j)'
    <3>1. orphans[j] \in Nat /\ zombies[j] \in Nat /\ strikes[j] \in Nat /\ starts[j] \in Nat /\ Counted(j)
      BY DEF IInv, TypeOK
    <3> QED BY <2>1, <3>1 DEF Counted
  <2> QED BY <2>4, <2>5 DEF IInv
<1>2. CASE Restart
  BY <1>2 DEF IInv, TypeOK, Counted, Restart
<1>3. ASSUME NEW j \in Jobs, Stalled(j) PROVE IInv'
  BY <1>3 DEF IInv, TypeOK, Counted, Stalled
<1>4. ASSUME NEW j \in Jobs, LoseLock(j) PROVE IInv'
  BY <1>4 DEF IInv, TypeOK, Counted, LoseLock
<1>5. ASSUME NEW j \in Jobs, OrphanEnds(j) PROVE IInv'
  BY <1>5 DEF IInv, TypeOK, Counted, OrphanEnds
<1>6. ASSUME NEW j \in Jobs, ZombieEnds(j) PROVE IInv'
  BY <1>6 DEF IInv, TypeOK, Counted, ZombieEnds
<1> QED BY <1>1, <1>2, <1>3, <1>4, <1>5, <1>6

\* The counts stay together in every behaviour, fair or not.
THEOREM QueueInvariance == Spec => []IInv
<1>1. IInv /\ [Next]_vars => IInv'
  <2> SUFFICES ASSUME IInv, [Next]_vars PROVE IInv' OBVIOUS
  <2>1. CASE UNCHANGED vars
    BY <2>1 DEF IInv, TypeOK, Counted, vars
  <2>2. CASE Next
    BY <2>2, QueueSteps, ConsumerSteps, LossSteps DEF Next
  <2> QED BY <2>1, <2>2
<1> QED BY InitEstablishes, <1>1, PTL DEF Spec

\* Every variable keeps its type.
THEOREM QueueTypeCorrect == Spec => []TypeOK
  BY QueueInvariance, PTL DEF IInv

\* process() returning normally after an error means that no UPDATE is ever sent
\* again for a reason other than a lost worker.
THEOREM NoRetryOfFailures == Spec => []AgainOnlyIfLost
<1>1. IInv => AgainOnlyIfLost
  BY DEF IInv, Counted, AgainOnlyIfLost
<1> QED BY <1>1, QueueInvariance, PTL

\* What a job's step means to its request, and to all the others: nothing.
LEMMA PhaseStep ==
  ASSUME IInv, NEW j \in Jobs, NEW p, job' = [job EXCEPT ![j] = p]
  PROVE  Phase' = [Phase EXCEPT ![j] = IF p \in {"new", "refused"} THEN "new"
                                       ELSE IF p \in Settled THEN "settled" ELSE "open"]
  BY DEF IInv, TypeOK, Phase

\* An UPDATE, answered for or left behind, is a strike its request allows.
LEMMA StrikeStep ==
  ASSUME IInv, NEW j \in Jobs, hand[j] = "update" \/ orphans[j] > 0 \/ zombies[j] > 0,
         strikes' \in {strikes, [strikes EXCEPT ![j] = @ + 1]},
         UNCHANGED <<job, losses>>
  PROVE  [R!Strike(j)]_<<Phase, strikes, losses > 0>>
<1>1. Phase' = Phase
  BY DEF Phase
<1>2. strikes[j] < 1 + MaxStalled
  <2>1. /\ strikes[j] \in Nat /\ orphans[j] \in Nat /\ zombies[j] \in Nat
        /\ starts[j] \in 0..MaxStalled + 1
        /\ Counted(j)
    BY DEF IInv, TypeOK
  <2> QED BY <2>1 DEF Counted
<1>3. Phase[j] = "open" \/ (Phase[j] = "settled" /\ losses > 0)
  <2>1. /\ strikes[j] \in Nat /\ orphans[j] \in Nat /\ zombies[j] \in Nat
        /\ losses \in Nat /\ Counted(j)
    BY DEF IInv, TypeOK
  <2> QED BY <2>1 DEF Counted, Phase
<1> QED BY <1>1, <1>2, <1>3 DEF R!Strike

\* Every step of the queue is a step of the requests or none: safety of the
\* refinement ImplementsResetRequests; its fairness is left to the run.
THEOREM QueueRefinement ==
  Spec => R!RequestsInit /\ [][R!RequestsNext]_<<Phase, strikes, losses > 0>>
<1>1. Init => R!RequestsInit
  BY DEF Init, R!RequestsInit, Phase
<1>2. IInv /\ [Next]_vars => [R!RequestsNext]_<<Phase, strikes, losses > 0>>
  <2> SUFFICES ASSUME IInv, [Next]_vars
               PROVE  [R!RequestsNext]_<<Phase, strikes, losses > 0>>
    OBVIOUS
  <2> USE DEF R!RequestsNext
  <2>1. CASE UNCHANGED vars
    BY <2>1 DEF vars, Phase
  <2>2. ASSUME NEW j \in Jobs, Add(j) PROVE R!Accept(j)
    BY <2>2, PhaseStep DEF Add, R!Accept, Phase
  <2>3. ASSUME NEW j \in Jobs, AddFailure(j)
        PROVE  R!Accept(j) \/ UNCHANGED <<Phase, strikes, losses>>
    <3>1. PICK place \in {"refused", "delayed"} : job' = [job EXCEPT ![j] = place]
      BY <2>3 DEF AddFailure
    <3>2. /\ job[j] = "new" /\ Phase[j] = "new" /\ UNCHANGED <<strikes, losses>>
      BY <2>3 DEF AddFailure, Phase
    <3>3. CASE place = "delayed"
      BY <3>1, <3>2, <3>3, PhaseStep DEF R!Accept
    <3>4. CASE place = "refused"
      BY <3>1, <3>2, <3>4 DEF Phase
    <3> QED BY <3>1, <3>3, <3>4
  <2>4. ASSUME NEW j \in Jobs, Promote(j) \/ Take(j)
        PROVE  UNCHANGED <<Phase, strikes, losses>>
    <3>1. CASE Promote(j)
      BY <3>1 DEF Promote, Phase
    <3>2. CASE Take(j)
      BY <3>2 DEF Take, Phase
    <3> QED BY <2>4, <3>1, <3>2
  <2>5. ASSUME NEW j \in Jobs, Process(j)
        PROVE  [R!Strike(j)]_<<Phase, strikes, losses > 0>>
    BY <2>5, StrikeStep DEF Process, Update, UpdateFailure
  <2>6. ASSUME NEW j \in Jobs, OrphanEnds(j) \/ ZombieEnds(j)
        PROVE  [R!Strike(j)]_<<Phase, strikes, losses > 0>>
    BY <2>6, StrikeStep DEF OrphanEnds, ZombieEnds
  <2>7. ASSUME NEW j \in Jobs, Return(j)
        PROVE  R!Settle(j) \/ UNCHANGED <<Phase, strikes, losses>>
    <3>1. Phase[j] = "open"
      BY <2>7 DEF Return, Complete, CompleteFailure, IInv, Counted, Phase
    <3>2. CASE Complete(j)
      BY <3>1, <3>2, PhaseStep DEF Complete, R!Settle
    <3>3. CASE CompleteFailure(j)
      BY <3>3 DEF CompleteFailure, Phase
    <3> QED BY <2>7, <3>2, <3>3 DEF Return
  <2>8. ASSUME NEW j \in Jobs, Stalled(j)
        PROVE  R!Settle(j) \/ UNCHANGED <<Phase, strikes, losses>>
    <3>1. Phase[j] = "open"
      BY <2>8 DEF Stalled, Phase
    <3>2. CASE stalls[j] < MaxStalled
      BY <2>8, <3>2 DEF Stalled, Phase
    <3>3. CASE ~(stalls[j] < MaxStalled)
      BY <2>8, <3>1, <3>3, PhaseStep DEF Stalled, R!Settle
    <3> QED BY <3>2, <3>3
  <2>9. ASSUME Die \/ \E j \in Jobs : LoseLock(j) PROVE R!Disturb
    <3>1. losses \in Nat /\ losses' = losses + 1
      BY <2>9 DEF IInv, TypeOK, Die, LoseLock
    <3> QED BY <2>9, <3>1 DEF Die, LoseLock, R!Disturb, Phase
  <2>10. ASSUME Restart PROVE UNCHANGED <<Phase, strikes, losses>>
    BY <2>10 DEF Restart, Phase
  <2> QED BY <2>1, <2>2, <2>3, <2>4, <2>5, <2>6, <2>7, <2>8, <2>9, <2>10 DEF Next
<1> QED BY <1>1, <1>2, QueueInvariance, PTL DEF Spec
=============================================================================
