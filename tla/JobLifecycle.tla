---------------------------- MODULE JobLifecycle ----------------------------
(***************************************************************************)
(* What the job engine promises its callers, with neither queues, threads, *)
(* a lock nor a condition variable: every job has one life, exclusive jobs *)
(* run alone after the pool drained, urgent jobs start first, and after    *)
(* termination nothing starts any more.                                    *)
(*                                                                         *)
(* JobEngine.tla refines this module.                                      *)
(***************************************************************************)
EXTENDS Integers, FiniteSets

CONSTANTS
  Jobs,        \* job ids; an id names one job for the life of the process
  Exclusive,   \* the jobs whose request is exclusive
  Priority,    \* the priority of each request, the lowest value is the most urgent
  Capacity     \* an upper bound on the jobs that run together

VARIABLES
  state,       \* the JobState of each record; "Absent" before, "Pruned" after
  terminated   \* shutdown() ran

lifecycleVars == <<state, terminated>>

Terminal == {"Succeeded", "Failed", "Cancelled"}
JobStates == {"Absent", "Queued", "Running", "Pruned"} \cup Terminal

InState(s) == {j \in Jobs : state[j] = s}
Active == {j \in Jobs : state[j] \in {"Queued", "Running"}}

LifecycleInit ==
  /\ state = [j \in Jobs |-> "Absent"]
  /\ terminated = FALSE

-----------------------------------------------------------------------------
(* A submitted job waits for its turn, or is turned away by an engine that *)
(* is terminated.                                                          *)
Submit(j) ==
  /\ state[j] = "Absent"
  /\ state' = [state EXCEPT ![j] = IF terminated THEN "Cancelled" ELSE "Queued"]
  /\ UNCHANGED terminated

(* Whether j may start now: an exclusive job needs the engine for itself;  *)
(* the others stand back while an exclusive job runs or waits, and go in   *)
(* order of urgency.                                                       *)
MayStart(j) ==
  /\ state[j] = "Queued"
  /\ InState("Running") \cap Exclusive = {}
  /\ IF j \in Exclusive
       THEN InState("Running") = {}
       ELSE /\ InState("Queued") \cap Exclusive = {}
            /\ Cardinality(InState("Running")) < Capacity
            /\ \A k \in InState("Queued") : Priority[j] <= Priority[k]

Start(j) ==
  /\ ~terminated
  /\ MayStart(j)
  /\ state' = [state EXCEPT ![j] = "Running"]
  /\ UNCHANGED terminated

(* A body that runs ends in one of the terminal states.                    *)
End(j) ==
  /\ state[j] = "Running"
  /\ \E s \in Terminal : state' = [state EXCEPT ![j] = s]
  /\ UNCHANGED terminated

(* Cancelling a job that still waits is immediate.                         *)
CancelQueued(j) ==
  /\ state[j] = "Queued"
  /\ state' = [state EXCEPT ![j] = "Cancelled"]
  /\ UNCHANGED terminated

(* Termination cancels whatever waits, in the same step, and is final.     *)
Terminate ==
  /\ ~terminated
  /\ terminated' = TRUE
  /\ state' = [j \in Jobs |-> IF state[j] = "Queued" THEN "Cancelled" ELSE state[j]]

(* Records are dropped only when they are terminal.                        *)
Prune(S) ==
  /\ S # {}
  /\ \A j \in S : state[j] \in Terminal
  /\ state' = [j \in Jobs |-> IF j \in S THEN "Pruned" ELSE state[j]]
  /\ UNCHANGED terminated

LifecycleNext ==
  \/ \E j \in Jobs : Submit(j) \/ Start(j) \/ End(j) \/ CancelQueued(j)
  \/ Terminate
  \/ \E S \in SUBSET Jobs : Prune(S)

LifecycleSpec == LifecycleInit /\ [][LifecycleNext]_lifecycleVars

=============================================================================
