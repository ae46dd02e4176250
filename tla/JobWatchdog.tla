----------------------------- MODULE JobWatchdog -----------------------------
(***************************************************************************)
(* The wall-clock watchdog of the job engine (job_engine.cpp,              *)
(* watchdogLoop): one detached thread that looks at the map of armed       *)
(* deadlines, sleeps until one of them, and fires the cancellation of a    *)
(* job whose budget elapsed. JobEngine.tla lets any armed deadline fire;   *)
(* here time passes and the thread chooses.                                *)
(***************************************************************************)
EXTENDS Integers, FiniteSets, FiniteSetsExt

CONSTANTS
  Jobs,      \* ids of the jobs with a budget: numbers, as the map is ordered by id
  Budgets,   \* values of request.timeoutMs
  MaxTime    \* the clock of the model stops here, and no deadline lies beyond it

ASSUME WatchdogAssumption ==
  /\ IsFiniteSet(Jobs) /\ Jobs \subseteq Nat \ {0}
  /\ Budgets \subseteq Nat \ {0}
  /\ MaxTime \in Nat \ {0}

VARIABLES
  now,       \* nowUnixMs()
  phase,     \* of each job: idle, running, over, gone (its record is removed)
  deadline,  \* m_jobDeadlines, 0 where there is no entry
  flagged,   \* jobs whose cancel flag is set
  dog,       \* looking, parked, timed, cancelling, logging
  until,     \* what a timed wait waits for
  fire       \* the job being fired, 0: none

vars == <<now, phase, deadline, flagged, dog, until, fire>>
jobVars == <<phase, deadline, flagged>>
dogVars == <<dog, until, fire>>

Armed == {j \in Jobs : deadline[j] # 0}

Init ==
  /\ now = 1
  /\ phase = [j \in Jobs |-> "idle"]
  /\ deadline = [j \in Jobs |-> 0]
  /\ flagged = {}
  /\ dog = "looking" /\ until = 0 /\ fire = 0

Tick ==
  /\ now < MaxTime
  /\ now' = now + 1
  /\ UNCHANGED <<jobVars, dogVars>>

(* m_cv.notify_all() reaches the watchdog if it sleeps.                    *)
Woken == IF dog \in {"parked", "timed"} THEN "looking" ELSE dog

(* runOperatorJob() arms the budget and notifies, under the mutex.         *)
BugArm(j) ==
  /\ phase[j] = "idle"
  /\ phase' = [phase EXCEPT ![j] = "running"]
  /\ \E budget \in {n \in Budgets : now + n <= MaxTime} :
       deadline' = [deadline EXCEPT ![j] = now + budget]
  /\ UNCHANGED <<now, flagged, dog, until, fire>>

Arm(j) ==
  /\ phase[j] = "idle"
  /\ phase' = [phase EXCEPT ![j] = "running"]
  /\ \E budget \in {n \in Budgets : now + n <= MaxTime} :
       deadline' = [deadline EXCEPT ![j] = now + budget]
  /\ dog' = Woken
  /\ UNCHANGED <<now, flagged, until, fire>>

(* finishJobLocked(): the budget is spent; the flag goes with the record.  *)
Finish(j) ==
  /\ phase[j] = "running"
  /\ phase' = [phase EXCEPT ![j] = "over"]
  /\ deadline' = [deadline EXCEPT ![j] = 0]
  /\ UNCHANGED <<now, flagged, dogVars>>

Prune(j) ==
  /\ phase[j] = "over"
  /\ phase' = [phase EXCEPT ![j] = "gone"]
  /\ UNCHANGED <<now, deadline, flagged, dogVars>>

(* shutdown() clears the deadlines and sets every flag itself.             *)
Shutdown ==
  /\ Armed # {}
  /\ deadline' = [j \in Jobs |-> 0]
  /\ flagged' = flagged \cup {j \in Jobs : phase[j] = "running"}
  /\ dog' = Woken
  /\ UNCHANGED <<now, phase, until, fire>>

(* Any other notify_all on the engine's only condition variable.           *)
Notify ==
  /\ dog' = Woken
  /\ UNCHANGED <<now, jobVars, until, fire>>

-----------------------------------------------------------------------------
(* One round of the loop under the mutex. The entry it looks at is the     *)
(* first of the map, and the map is ordered by job id.                     *)
First == Min(Armed)

Park ==
  /\ dog = "looking" /\ Armed = {}
  /\ dog' = "parked"
  /\ UNCHANGED <<now, jobVars, until, fire>>

SleepUntilFirst ==
  /\ dog = "looking" /\ Armed # {}
  /\ now < deadline[First]
  /\ dog' = "timed" /\ until' = deadline[First]
  /\ UNCHANGED <<now, jobVars, fire>>

IsDue(j) == deadline[j] <= now

Fire ==
  /\ dog = "looking" /\ Armed # {}
  /\ IsDue(First)
  /\ dog' = "cancelling" /\ fire' = First
  /\ deadline' = [deadline EXCEPT ![First] = 0]
  /\ UNCHANGED <<now, phase, flagged, until>>

BugWaitElapses == FALSE /\ UNCHANGED vars

WaitElapses ==
  /\ dog = "timed" /\ now >= until
  /\ dog' = "looking"
  /\ UNCHANGED <<now, jobVars, until, fire>>

(* cancel( fire ), outside the mutex in which the deadline was taken: the  *)
(* job may have finished in between, and then nothing happens.             *)
CancelFired ==
  LET cancelled == phase[fire] = "running"
  IN
  /\ dog = "cancelling"
  /\ dog' = IF cancelled THEN "logging" ELSE "looking"
  /\ flagged' = IF cancelled THEN flagged \cup {fire} ELSE flagged
  /\ fire' = IF cancelled THEN fire ELSE 0
  /\ UNCHANGED <<now, phase, deadline, until>>

(* After the hook ran, a third critical section explains the cancellation  *)
(* in the record, if there still is one.                                   *)
LogFired ==
  /\ dog = "logging"
  /\ dog' = "looking" /\ fire' = 0
  /\ UNCHANGED <<now, jobVars, until>>

WatchdogStep == Park \/ SleepUntilFirst \/ Fire \/ WaitElapses \/ CancelFired \/ LogFired

Next ==
  \/ Tick \/ Shutdown \/ Notify \/ WatchdogStep
  \/ \E j \in Jobs : Arm(j) \/ Finish(j) \/ Prune(j)

Spec == Init /\ [][Next]_vars

(* The thread runs and time passes; no body has to end, and nobody else    *)
(* has to notify.                                                          *)
FairSpec == Spec /\ WF_vars(WatchdogStep) /\ WF_vars(Tick)

-----------------------------------------------------------------------------
TypeOK ==
  /\ now \in 1 .. MaxTime
  /\ phase \in [Jobs -> {"idle", "running", "over", "gone"}]
  /\ deadline \in [Jobs -> Nat]
  /\ flagged \subseteq Jobs
  /\ dog \in {"looking", "parked", "timed", "cancelling", "logging"}
  /\ until \in Nat /\ fire \in Jobs \cup {0}
  /\ dog \in {"cancelling", "logging"} => fire \in Jobs

(* No budget is forgotten: as long as a job runs its deadline is armed and *)
(* the watchdog does not sleep without a timeout, or the job is being      *)
(* fired, or its flag is set, whatever shutdown, other budgets and other   *)
(* ends do to the map in between.                                          *)
NoBudgetForgotten ==
  \A j \in Jobs : phase[j] = "running" =>
     \/ j \in Armed /\ dog # "parked"
     \/ j \in flagged
     \/ dog = "cancelling" /\ fire = j

(* A job that outlives its budget is cancelled in the end.                 *)
BudgetEnforced ==
  \A j \in Jobs : phase[j] = "running" ~> phase[j] # "running" \/ j \in flagged

=============================================================================
