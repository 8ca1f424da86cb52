---------------------------- MODULE BoundedRetry ----------------------------
(***************************************************************************)
(* What the durable queue promises about retries, without saying how: a    *)
(* job is handed out to somebody at most as often as its budget allows,    *)
(* it is buried only once the budget is spent, and a buried job is never   *)
(* handed out again.  JobQueue implements it.                              *)
(***************************************************************************)
EXTENDS Naturals

CONSTANTS
  Jobs,
  Budgets   \* how often a job may be handed out at most

VARIABLES phase,    \* where each job is in its life
          budget,   \* how often it may be handed out
          runs      \* how often it was handed out

vars == <<phase, budget, runs>>

Phases == {"new", "live", "buried", "gone"}

Init ==
  /\ phase = [j \in Jobs |-> "new"]
  /\ budget = [j \in Jobs |-> 0]
  /\ runs = [j \in Jobs |-> 0]

Create(j, b) ==
  /\ phase[j] = "new"
  /\ b >= 1
  /\ phase' = [phase EXCEPT ![j] = "live"]
  /\ budget' = [budget EXCEPT ![j] = b]
  /\ UNCHANGED runs

HandOut(j) ==
  /\ phase[j] = "live"
  /\ runs[j] < budget[j]
  /\ runs' = [runs EXCEPT ![j] = @ + 1]
  /\ UNCHANGED <<phase, budget>>

Bury(j) ==
  /\ phase[j] = "live"
  /\ runs[j] = budget[j]
  /\ phase' = [phase EXCEPT ![j] = "buried"]
  /\ UNCHANGED <<budget, runs>>

\* Retention and tenant deletion forget jobs whatever their phase.
Forget(S) ==
  /\ \A j \in S : phase[j] \in {"live", "buried"}
  /\ phase' = [j \in Jobs |-> IF j \in S THEN "gone" ELSE phase[j]]
  /\ budget' = [j \in Jobs |-> IF j \in S THEN 0 ELSE budget[j]]
  /\ UNCHANGED runs

Next ==
  \/ \E j \in Jobs : \/ \E b \in Budgets : Create(j, b)
                     \/ HandOut(j)
                     \/ Bury(j)
  \/ \E S \in SUBSET Jobs : Forget(S)

Spec == Init /\ [][Next]_vars
=============================================================================
