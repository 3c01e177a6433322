---------------------------- MODULE ResetRequests ----------------------------
(***************************************************************************)
(* What a request to reset the balances may count on, seen from the        *)
(* accounts: once accepted it is settled in the end; it strikes a limited  *)
(* number of times, never before it is accepted and, as long as no worker  *)
(* was lost, never after it is settled.  ResetQueue is shown to implement  *)
(* this.                                                                   *)
(***************************************************************************)
EXTENDS Integers

CONSTANTS
    Jobs,           \* requests to reset
    MaxStrikes      \* how often one of them may set the balances to zero

VARIABLES
    phase,          \* phase[j]: asked for or not, settled
    strikes,        \* strikes[j]: how often it has reset the balances
    disturbed       \* a worker has died or lost its job

requestVars == <<phase, strikes, disturbed>>

RequestsInit ==
    /\ phase = [j \in Jobs |-> "new"] /\ strikes = [j \in Jobs |-> 0]
    /\ disturbed = FALSE

Accept(j) ==
    /\ phase[j] = "new" /\ phase' = [phase EXCEPT ![j] = "open"]
    /\ UNCHANGED <<strikes, disturbed>>

Strike(j) ==
    /\ phase[j] = "open" \/ (phase[j] = "settled" /\ disturbed)
    /\ strikes[j] < MaxStrikes /\ strikes' = [strikes EXCEPT ![j] = @ + 1]
    /\ UNCHANGED <<phase, disturbed>>

Settle(j) ==
    /\ phase[j] = "open" /\ phase' = [phase EXCEPT ![j] = "settled"]
    /\ UNCHANGED <<strikes, disturbed>>

Disturb == disturbed' = TRUE /\ UNCHANGED <<phase, strikes>>

RequestsNext == Disturb \/ \E j \in Jobs : Accept(j) \/ Strike(j) \/ Settle(j)

RequestsSpec ==
    /\ RequestsInit /\ [][RequestsNext]_requestVars
    /\ \A j \in Jobs : WF_requestVars(Settle(j))
=============================================================================
