-------------------------- MODULE JobWatchdogProofs --------------------------
(***************************************************************************)
(* Theorems about JobWatchdog.tla, for any jobs, budgets and clock.        *)
(***************************************************************************)
EXTENDS JobWatchdog, WellFoundedInduction, TLAPS

(* A nonempty set of natural numbers has a least element, which Min finds. *)
LEMMA MinOfNats ==
  ASSUME NEW I, I \subseteq Nat, I # {}
  PROVE  Min(I) \in I /\ \A x \in I : Min(I) <= x
<1>1. PICK m \in I : \A y \in I : ~ <<y, m>> \in OpToRel(<, Nat)
  BY NatLessThanWellFounded, WFMin
<1>2. ASSUME NEW y \in I PROVE m <= y
  <2>1. ~ <<y, m>> \in {ss \in Nat \X Nat : ss[1] < ss[2]}
    BY <1>1 DEF OpToRel
  <2>2. <<y, m>> \in Nat \X Nat
    OBVIOUS
  <2>3. ~ y < m
    BY <2>1, <2>2
  <2>. QED BY <2>3
<1>. QED BY <1>2 DEF Min

USE DEF vars, jobVars, dogVars

(* The entry the watchdog looks at is an armed one.                        *)
LEMMA FirstIsArmed ==
  ASSUME Armed # {}
  PROVE  First \in Armed
<1>1. Armed \subseteq Nat
  BY WatchdogAssumption DEF Armed
<1>. QED BY <1>1, MinOfNats DEF First

LEMMA TypeInductive == TypeOK /\ [Next]_vars => TypeOK'
<1>. SUFFICES ASSUME TypeOK, [Next]_vars PROVE TypeOK'
  OBVIOUS
<1>. USE WatchdogAssumption DEF TypeOK
<1>1. CASE Tick
  BY <1>1 DEF Tick
<1>2. CASE Shutdown
  BY <1>2 DEF Shutdown, Woken
<1>3. CASE Notify
  BY <1>3 DEF Notify, Woken
<1>4. CASE Park
  BY <1>4 DEF Park
<1>5. CASE SleepUntilFirst
  <2>1. First \in Jobs
    BY <1>5, FirstIsArmed DEF SleepUntilFirst, Armed
  <2>. QED BY <1>5, <2>1 DEF SleepUntilFirst
<1>6. CASE Fire
  <2>1. First \in Jobs
    BY <1>6, FirstIsArmed DEF Fire, Armed
  <2>. QED BY <1>6, <2>1 DEF Fire
<1>7. CASE WaitElapses
  BY <1>7 DEF WaitElapses
<1>8. CASE CancelFired
  BY <1>8 DEF CancelFired
<1>9. CASE LogFired
  BY <1>9 DEF LogFired
<1>10. ASSUME NEW j \in Jobs, Arm(j) PROVE TypeOK'
  BY <1>10 DEF Arm, Woken
<1>11. ASSUME NEW j \in Jobs, Finish(j) \/ Prune(j) PROVE TypeOK'
  <2>1. CASE Finish(j)
    BY <2>1 DEF Finish
  <2>2. CASE Prune(j)
    BY <2>2 DEF Prune
  <2>. QED BY <1>11, <2>1, <2>2
<1>12. CASE UNCHANGED vars
  BY <1>12
<1>. QED BY <1>1, <1>2, <1>3, <1>4, <1>5, <1>6, <1>7, <1>8, <1>9, <1>10, <1>11, <1>12
       DEF Next, WatchdogStep

LEMMA BudgetInductive ==
  ASSUME TypeOK, NoBudgetForgotten, [Next]_vars
  PROVE  NoBudgetForgotten'
<1>. SUFFICES ASSUME NEW i \in Jobs, phase'[i] = "running"
              PROVE  \/ (i \in Armed /\ dog # "parked")'
                     \/ i \in flagged'
                     \/ dog' = "cancelling" /\ fire' = i
  BY DEF NoBudgetForgotten
<1>. USE DEF TypeOK, NoBudgetForgotten, Armed
<1>1. CASE Tick
  BY <1>1 DEF Tick
<1>2. CASE Shutdown
  BY <1>2 DEF Shutdown
<1>3. CASE Notify
  BY <1>3 DEF Notify, Woken
<1>4. CASE Park
  BY <1>4 DEF Park
<1>5. CASE SleepUntilFirst
  BY <1>5 DEF SleepUntilFirst
<1>6. CASE Fire
  <2>1. First \in Jobs
    BY <1>6, FirstIsArmed DEF Fire
  <2>. QED BY <1>6, <2>1 DEF Fire
<1>7. CASE WaitElapses
  BY <1>7 DEF WaitElapses
<1>8. CASE CancelFired
  BY <1>8 DEF CancelFired
<1>9. CASE LogFired
  BY <1>9 DEF LogFired
<1>10. ASSUME NEW j \in Jobs, Arm(j) PROVE i \in flagged' \/ (i \in Armed /\ dog # "parked")' \/ (dog' = "cancelling" /\ fire' = i)
  <2>1. PICK budget \in Budgets : deadline' = [deadline EXCEPT ![j] = now + budget]
    BY <1>10 DEF Arm
  <2>2. now + budget # 0
    BY <2>1, WatchdogAssumption
  <2>. QED BY <1>10, <2>1, <2>2 DEF Arm, Woken
<1>11. ASSUME NEW j \in Jobs, Finish(j) \/ Prune(j)
       PROVE i \in flagged' \/ (i \in Armed /\ dog # "parked")' \/ (dog' = "cancelling" /\ fire' = i)
  BY <1>11 DEF Finish, Prune
<1>12. CASE UNCHANGED vars
  BY <1>12
<1>. QED BY <1>1, <1>2, <1>3, <1>4, <1>5, <1>6, <1>7, <1>8, <1>9, <1>10, <1>11, <1>12
       DEF Next, WatchdogStep

(* The budget of a running job is armed before a watchdog that is awake or *)
(* sleeps with a timeout, is being fired, or has set the flag of the job:  *)
(* for any number of jobs, whichever of them share the one watchdog.       *)
THEOREM BudgetsAreKept == Spec => []NoBudgetForgotten
<1>1. Init => TypeOK /\ NoBudgetForgotten
  BY WatchdogAssumption DEF Init, TypeOK, NoBudgetForgotten
<1>. QED BY <1>1, TypeInductive, BudgetInductive, PTL DEF Spec

=============================================================================
