------------------------- MODULE JobEngineEndsProofs -------------------------
(***************************************************************************)
(* Theorems about how jobs of JobEngine.tla end: what cancel(), the        *)
(* watchdog, shutdown() and the workers leave in the maps of the engine,   *)
(* how often they call a hook and the listener, and whom they still have   *)
(* to wake. They rest on the queues and slots of JobEngineProofs.          *)
(***************************************************************************)
EXTENDS JobEngineProofs

USE DEF vars, queueVars, poolVars, recordVars, threadVars, callVars, shutdownVars, history

Over == Terminal \cup {"Pruned"}

(* The worker that is past its pick holds a running job.                   *)
LEMMA HeldIsRunning ==
  ASSUME IInv, NEW t \in Threads, Executing(t)
  PROVE  cur[t] \in Jobs /\ state[cur[t]] = "Running"
BY DEF IInv, SlotsMatchRecords, Running, InState

(* A job that is picked comes from a queue.                                *)
LEMMA HeadIsQueued ==
  ASSUME IInv, NEW j \in Jobs, TryPickJob(j)
  PROVE  state[j] = "Queued"
<1>1. PICK O, X : O = Queued \ Exclusive /\ X = Queued \cap Exclusive
  OBVIOUS
<1>2. QueuesWellFormed /\ Holds(O, X)
  BY <1>1 DEF IInv, QueueInv
<1>3. (PickExclusive(j) => j \in X) /\ (PickByPriority(j) => j \in O)
  BY <1>2, PickEntries
<1>. QED BY <1>1, <1>3 DEF TryPickJob, Queued, InState

-----------------------------------------------------------------------------
(* Flags, bodies and deadlines.                                            *)

RecordsOf(j) ==
  /\ state[j] \notin {"Queued", "Running"} =>
       cancelFlag[j] = "none" /\ body[j] = "none" /\ j \notin deadlines
  /\ state[j] = "Queued" => cancelFlag[j] = "none" /\ j \notin deadlines
  /\ state[j] \in {"Absent", "Queued"} => j \notin asked
  /\ state[j] = "Running" => (j \in asked <=> cancelFlag[j] = "set")

RecordsInv == \A j \in Jobs : RecordsOf(j)

(* cancel() of the user and of the watchdog.                               *)
LEMMA CancelKeepsRecords ==
  ASSUME TypeOK, RecordsInv, NEW j \in Jobs, CancelLocked(j)
  PROVE  RecordsInv'
<1>1. CASE CancelQueued(j)
  BY <1>1 DEF TypeOK, RecordsInv, RecordsOf, CancelQueued
<1>2. CASE CancelRunning(j)
  BY <1>2 DEF TypeOK, RecordsInv, RecordsOf, CancelRunning, TakeHook
<1>. QED BY <1>1, <1>2 DEF CancelLocked

LEMMA WorkerKeepsRecords ==
  ASSUME IInv, RecordsInv, NEW t \in Threads, WorkerStep(t)
  PROVE  RecordsInv'
<1>. USE DEF IInv, TypeOK
<1>1. CASE WorkerPicks(t)
  <2>1. PICK j \in Jobs : TryPickJob(j)
    BY <1>1 DEF WorkerPicks
  <2>2. state[j] = "Queued"
    BY <2>1, HeadIsQueued
  <2>. QED BY <1>1, <2>1, <2>2 DEF RecordsInv, RecordsOf, WorkerPicks, TryPickJob
<1>2. CASE RunOperatorJob(t)
  <2>1. cur[t] \in Jobs /\ state[cur[t]] = "Running"
    BY <1>2, HeldIsRunning DEF RunOperatorJob, Executing
  <2>. QED BY <1>2, <2>1 DEF RecordsInv, RecordsOf, RunOperatorJob, ArmedFlag
<1>3. CASE FinishTerminal(t)
  <2>1. cur[t] \in Jobs /\ state[cur[t]] = "Running" /\ outcome[t] \in Terminal
    BY <1>3, HeldIsRunning DEF FinishTerminal, Executing
  <2>. QED BY <1>3, <2>1 DEF RecordsInv, RecordsOf, FinishTerminal, FinishJobLocked, Terminal
<1>4. CASE WorkerSleeps(t) \/ WorkerExits(t) \/ BodyEnds(t) \/ UnknownAlgorithm(t)
           \/ WorkerNotes(t) \/ WorkerWakes(t)
  <2>1. UNCHANGED <<state, recordVars, asked>>
    BY <1>4 DEF WorkerSleeps, WorkerExits, BodyEnds, UnknownAlgorithm, WorkerNotes, WorkerWakes
  <2>. QED BY <2>1 DEF RecordsInv, RecordsOf
<1>. QED BY <1>1, <1>2, <1>3, <1>4 DEF WorkerStep

LEMMA RequestKeepsRecords ==
  ASSUME IInv, RecordsInv, Request
  PROVE  RecordsInv'
<1>. USE DEF IInv, TypeOK
<1>1. ASSUME NEW j \in Jobs, SubmitWithId(j) PROVE RecordsInv'
  BY <1>1 DEF RecordsInv, RecordsOf, SubmitWithId
<1>2. ASSUME NEW j \in Jobs, Cancel(j) PROVE RecordsInv'
  BY <1>2, CancelKeepsRecords DEF Cancel
<1>3. ASSUME NEW j \in Jobs, WaitForJob(j) PROVE RecordsInv'
  BY <1>3 DEF RecordsInv, RecordsOf, WaitForJob
<1>4. ASSUME NEW j \in Jobs, WatchdogPops(j) PROVE RecordsInv'
  BY <1>4 DEF RecordsInv, RecordsOf, WatchdogPops
<1>5. ASSUME NEW S \in SUBSET Prunable, Prune(S) PROVE RecordsInv'
  BY <1>5 DEF RecordsInv, RecordsOf, Prune, Terminal
<1>6. ASSUME NEW n \in PoolSizes, SetMaxWorkers(n) PROVE RecordsInv'
  BY <1>6 DEF RecordsInv, RecordsOf, SetMaxWorkers
<1>7. CASE Shutdown
  <2>1. Drained = Queued
    BY DrainedIsQueued
  <2>. QED BY <1>7, <2>1 DEF RecordsInv, RecordsOf, Shutdown, Queued, Running, InState
<1>. QED BY <1>1, <1>2, <1>3, <1>4, <1>5, <1>6, <1>7 DEF Request

(* The steps that only call somebody change no record.                     *)
LEMMA CallsKeepRecords ==
  ASSUME (\E j \in Jobs : CallStep(j)) \/ ShutdownStep
  PROVE  UNCHANGED <<state, queueVars, poolVars, recordVars, terminated, asked>>
<1>1. ASSUME NEW j \in Jobs, CallStep(j)
      PROVE  UNCHANGED <<state, queueVars, poolVars, recordVars, terminated, asked>>
  BY <1>1 DEF CallStep, SubmitWakes, SubmitNotes, CancelRunsHook, CancelWakes, CancelNotes, WaiterLooks
<1>2. ASSUME ShutdownStep
      PROVE  UNCHANGED <<state, queueVars, poolVars, recordVars, terminated, asked>>
  BY <1>2 DEF ShutdownStep, ShutdownWakes, ShutdownReturns, ShutdownRunsHook, ShutdownNotes
<1>. QED BY <1>1, <1>2

LEMMA RecordsInductive ==
  ASSUME IInv, RecordsInv, [Next]_vars
  PROVE  RecordsInv'
<1>1. CASE WatchdogCancels
  <2>1. CASE CancelLocked(watchdog)
    BY <1>1, <2>1, CancelKeepsRecords DEF WatchdogCancels, IInv, TypeOK
  <2>2. CASE UNCHANGED <<state, recordVars, asked>>
    BY <2>2 DEF RecordsInv, RecordsOf
  <2>. QED BY <1>1, <2>1, <2>2 DEF WatchdogCancels
<1>2. CASE (\E j \in Jobs : CallStep(j)) \/ ShutdownStep
  BY <1>2, CallsKeepRecords DEF RecordsInv, RecordsOf
<1>3. CASE UNCHANGED vars
  BY <1>3 DEF RecordsInv, RecordsOf
<1>. QED BY <1>1, <1>2, <1>3, WorkerKeepsRecords, RequestKeepsRecords DEF Next

LEMMA RecordsAlways == Spec => [](IInv /\ RecordsInv)
<1>1. Init => RecordsInv
  BY DEF Init, RecordsInv, RecordsOf
<1>2. IInv /\ RecordsInv /\ [Next]_vars => IInv' /\ RecordsInv'
  BY InvInductive, RecordsInductive
<1>. QED BY <1>1, <1>2, InvInitially, PTL DEF Spec

(* A cancellation accepted while the job ran is in the flag its body       *)
(* reads, and no flag is set that nobody asked for (job_engine.cpp:985).   *)
THEOREM CancelsReachTheBody == Spec => []CancelNotLost
<1>1. RecordsInv => CancelNotLost
  BY DEF RecordsInv, RecordsOf, CancelNotLost, Running, InState
<1>. QED BY <1>1, RecordsAlways, PTL

(* The maps of the engine hold nothing of a job that is over, however it   *)
(* ended (finishJobLocked, cancel, shutdown).                              *)
THEOREM MapsAreCleared == Spec => []NothingLeftBehind
<1>1. IInv /\ RecordsInv => NothingLeftBehind
  BY DEF RecordsInv, RecordsOf, NothingLeftBehind, Active, Queued, Running, InState
<1>. QED BY <1>1, RecordsAlways, PTL

(* A refused or finished resize brings no thread back (#684).              *)
THEOREM NoThreadReturns == Spec => NoResurrection
<1>1. TypeOK /\ [Next]_vars =>
        [terminated => \A t \in Threads : pc[t] = "unspawned" => pc'[t] = "unspawned"]_vars
  <2>. SUFFICES ASSUME TypeOK, [Next]_vars, terminated, NEW t \in Threads, pc[t] = "unspawned"
                PROVE  pc'[t] = "unspawned"
    OBVIOUS
  <2>. USE DEF TypeOK
  <2>1. ASSUME NEW u \in Threads, WorkerStep(u) PROVE pc'[t] = "unspawned"
    <3>1. CASE WorkerPicks(u) \/ WorkerSleeps(u)
      BY <3>1 DEF WorkerPicks, WorkerSleeps
    <3>2. CASE RunOperatorJob(u)
      BY <3>2 DEF RunOperatorJob, NotifyAll
    <3>3. CASE BodyEnds(u) \/ UnknownAlgorithm(u)
      <4>1. pc[u] = "body" /\ pc' = [pc EXCEPT ![u] = "ended"]
        BY <3>3 DEF BodyEnds, UnknownAlgorithm
      <4>. QED BY <4>1
    <3>4. CASE WorkerExits(u) \/ FinishTerminal(u) \/ WorkerNotes(u) \/ WorkerWakes(u)
      BY <3>4 DEF WorkerExits, FinishTerminal, WorkerNotes, WorkerWakes, NotifyAll
    <3>. QED BY <2>1, <3>1, <3>2, <3>3, <3>4 DEF WorkerStep
  <2>2. ASSUME NEW j \in Jobs, CallStep(j) PROVE pc'[t] = "unspawned"
    <3>1. pc' = NotifyAll(pc) \/ pc' = pc
      BY <2>2 DEF CallStep, SubmitWakes, SubmitNotes, CancelRunsHook, CancelWakes, CancelNotes, WaiterLooks
    <3>. QED BY <3>1 DEF NotifyAll
  <2>3. CASE ShutdownStep
    BY <2>3 DEF ShutdownStep, ShutdownWakes, ShutdownReturns, ShutdownRunsHook, ShutdownNotes, NotifyAll
  <2>4. CASE WatchdogCancels
    BY <2>4 DEF WatchdogCancels
  <2>5. CASE Request
    <3>1. ASSUME NEW n \in PoolSizes, SetMaxWorkers(n) PROVE pc'[t] = "unspawned"
      BY <3>1 DEF SetMaxWorkers, EnsureWorkers, NotifyAll
    <3>2. ASSUME NEW j \in Jobs, SubmitWithId(j) \/ Cancel(j) \/ WaitForJob(j) \/ WatchdogPops(j)
          PROVE  pc' = pc
      BY <3>2 DEF SubmitWithId, Cancel, WaitForJob, WatchdogPops
    <3>3. ASSUME (\E S \in SUBSET Prunable : Prune(S)) \/ Shutdown PROVE pc' = pc
      BY <3>3 DEF Prune, Shutdown
    <3>. QED BY <2>5, <3>1, <3>2, <3>3 DEF Request
  <2>6. CASE UNCHANGED vars
    BY <2>6
  <2>. QED BY <2>1, <2>2, <2>3, <2>4, <2>5, <2>6 DEF Next
<1>. QED BY <1>1, TypeCorrect, PTL DEF Spec, NoResurrection

-----------------------------------------------------------------------------
(* The transient capacity.                                                 *)

(* Giving back the unit of a job, and adding one.                          *)
LEMMA ReleaseBalances ==
  ASSUME TypeOK, allowance = Cardinality(backed), NEW j \in Jobs, ReleaseTransient(j)
  PROVE  backed' = backed \ {j} /\ allowance' = Cardinality(backed')
<1>1. IsFiniteSet(backed) /\ Cardinality(backed) \in Nat
  BY JobsAssumption, FS_Subset, FS_CardinalityType DEF TypeOK
<1>2. CASE j \in backed
  <2>1. Cardinality(backed \ {j}) = Cardinality(backed) - 1
    BY <1>1, <1>2, FS_RemoveElement
  <2>2. Cardinality(backed) # 0
    BY <1>1, <1>2, FS_EmptySet
  <2>. QED BY <1>1, <1>2, <2>1, <2>2 DEF ReleaseTransient
<1>3. CASE j \notin backed
  <2>1. backed \ {j} = backed
    BY <1>3
  <2>. QED BY <1>3, <2>1 DEF ReleaseTransient
<1>. QED BY <1>2, <1>3

LEMMA CancelBalances ==
  ASSUME TypeOK, TransientBalanced, NEW j \in Jobs, CancelLocked(j), UNCHANGED terminated
  PROVE  TransientBalanced'
<1>. SUFFICES ASSUME ~ terminated PROVE (backed \subseteq Active /\ allowance = Cardinality(backed))'
  BY DEF TransientBalanced
<1>1. CASE CancelQueued(j)
  <2>1. backed' = backed \ {j} /\ allowance' = Cardinality(backed')
    BY <1>1, ReleaseBalances DEF CancelQueued, TransientBalanced
  <2>2. state' = [state EXCEPT ![j] = "Cancelled"]
    BY <1>1 DEF CancelQueued
  <2>. QED BY <2>1, <2>2 DEF TransientBalanced, TypeOK, Active, Queued, Running, InState
<1>2. CASE CancelRunning(j)
  BY <1>2 DEF CancelRunning, TransientBalanced, Active, Queued, Running, InState
<1>. QED BY <1>1, <1>2 DEF CancelLocked

LEMMA BalanceInductive ==
  ASSUME IInv, TransientBalanced, [Next]_vars
  PROVE  TransientBalanced'
<1>. USE DEF IInv
<1>1. ASSUME NEW t \in Threads, WorkerStep(t) PROVE TransientBalanced'
  <2>1. CASE WorkerPicks(t)
    <3>1. PICK j \in Jobs : state' = [state EXCEPT ![j] = "Running"]
      BY <2>1 DEF WorkerPicks, TryPickJob
    <3>2. UNCHANGED <<backed, allowance, terminated>>
      BY <2>1 DEF WorkerPicks
    <3>. QED BY <3>1, <3>2 DEF TransientBalanced, TypeOK, Active, Queued, Running, InState
  <2>2. CASE FinishTerminal(t)
    <3>1. cur[t] \in Jobs
      BY <2>2, HeldIsRunning DEF FinishTerminal, Executing
    <3>2. ~ terminated => backed' = backed \ {cur[t]} /\ allowance' = Cardinality(backed')
      BY <2>2, <3>1, ReleaseBalances DEF FinishTerminal, FinishJobLocked, TransientBalanced
    <3>3. state' = [state EXCEPT ![cur[t]] = outcome[t]] /\ UNCHANGED terminated
      BY <2>2 DEF FinishTerminal
    <3>. QED BY <3>1, <3>2, <3>3 DEF TransientBalanced, TypeOK, Active, Queued, Running, InState
  <2>3. CASE \/ WorkerSleeps(t) \/ WorkerExits(t) \/ RunOperatorJob(t) \/ BodyEnds(t)
             \/ UnknownAlgorithm(t) \/ WorkerNotes(t) \/ WorkerWakes(t)
    <3>1. UNCHANGED <<state, poolVars, terminated>>
      BY <2>3 DEF WorkerSleeps, WorkerExits, RunOperatorJob, BodyEnds, UnknownAlgorithm,
                  WorkerNotes, WorkerWakes
    <3>. QED BY <3>1 DEF TransientBalanced, Active, Queued, Running, InState
  <2>. QED BY <1>1, <2>1, <2>2, <2>3 DEF WorkerStep
<1>2. ASSUME NEW j \in Jobs, SubmitWithId(j) PROVE TransientBalanced'
  <2>1. CASE terminated
    BY <1>2, <2>1 DEF SubmitWithId, TransientBalanced
  <2>2. CASE ~ terminated
    <3>1. /\ state' = [state EXCEPT ![j] = "Queued"] /\ state[j] = "Absent"
          /\ allowance' = IF IsBacked(j) THEN allowance + 1 ELSE allowance
          /\ backed' = IF IsBacked(j) THEN backed \cup {j} ELSE backed
      BY <1>2, <2>2 DEF SubmitWithId
    <3>2. backed \subseteq Active /\ allowance = Cardinality(backed) /\ j \notin backed
      BY <2>2, <3>1 DEF TransientBalanced, Active, Queued, Running, InState
    <3>3. Cardinality(backed \cup {j}) = Cardinality(backed) + 1
      BY <3>2, JobsAssumption, FS_Subset, FS_AddElement DEF TypeOK
    <3>4. backed' \subseteq Active'
      BY <3>1, <3>2 DEF TypeOK, Active, Queued, Running, InState
    <3>. QED BY <3>1, <3>2, <3>3, <3>4 DEF TransientBalanced
  <2>. QED BY <2>1, <2>2
<1>3. ASSUME NEW j \in Jobs, Cancel(j) PROVE TransientBalanced'
  BY <1>3, CancelBalances DEF Cancel
<1>4. CASE WatchdogCancels
  <2>1. CASE CancelLocked(watchdog)
    BY <1>4, <2>1, CancelBalances DEF WatchdogCancels, TypeOK
  <2>2. CASE UNCHANGED <<state, poolVars>>
    BY <1>4, <2>2 DEF WatchdogCancels, TransientBalanced, Active, Queued, Running, InState
  <2>. QED BY <1>4, <2>1, <2>2 DEF WatchdogCancels
<1>5. ASSUME NEW j \in Jobs, WaitForJob(j) \/ WatchdogPops(j) PROVE TransientBalanced'
  BY <1>5 DEF WaitForJob, WatchdogPops, TransientBalanced, Active, Queued, Running, InState
<1>6. ASSUME NEW S \in SUBSET Prunable, Prune(S) PROVE TransientBalanced'
  BY <1>6 DEF Prune, TransientBalanced, Active, Queued, Running, InState, Terminal
<1>7. ASSUME NEW n \in PoolSizes, SetMaxWorkers(n) PROVE TransientBalanced'
  BY <1>7 DEF SetMaxWorkers, TransientBalanced, Active, Queued, Running, InState
<1>8. CASE Shutdown
  BY <1>8 DEF Shutdown, TransientBalanced
<1>9. CASE (\E j \in Jobs : CallStep(j)) \/ ShutdownStep
  BY <1>9, CallsKeepRecords DEF TransientBalanced, Active, Queued, Running, InState
<1>10. CASE UNCHANGED vars
  BY <1>10 DEF TransientBalanced, Active, Queued, Running, InState
<1>. QED BY <1>1, <1>2, <1>3, <1>4, <1>5, <1>6, <1>7, <1>8, <1>9, <1>10 DEF Next, Request

(* Each unit of transient capacity belongs to one nested job that is       *)
(* queued or running, whichever way such jobs end (#798).                  *)
THEOREM CapacityIsReturned == Spec => []TransientBalanced
<1>1. Init => TransientBalanced
  BY FS_EmptySet DEF Init, TransientBalanced
<1>. QED BY <1>1, BalanceInductive, InvAlways, PTL DEF Spec

-----------------------------------------------------------------------------
(* Hooks.                                                                  *)

Cancelled(j) == state[j] \in {"Cancelled", "Pruned"}

(* The calls of the hook made or owed, and who may owe one.                *)
HookCalls(j) ==
  hookRuns[j] + (IF body[j] = "hook" THEN 1 ELSE 0)
    + (IF cancelPc[j] \in {"hook", "hookThenWake"} THEN 1 ELSE 0)
    + (IF j \in shutdownHooks THEN 1 ELSE 0)

HooksOf(j) ==
  /\ HookCalls(j) <= 1
  /\ state[j] = "Absent" => HookCalls(j) = 0 /\ cancelPc[j] = "none"
  /\ cancelPc[j] = "hook" => j \in asked
  /\ cancelPc[j] \in {"hookThenWake", "wake", "note"} => Cancelled(j)
  /\ j \in shutdownHooks \/ hookRuns[j] > 0 => j \in asked \/ Cancelled(j)

HooksInv == \A j \in Jobs : HooksOf(j)

USE DEF Cancelled

LEMMA CancelKeepsHooks ==
  ASSUME TypeOK, RecordsInv, HooksInv, NEW j \in Jobs, CancelLocked(j),
         UNCHANGED <<shutdownVars, hookRuns>>
  PROVE  HooksInv'
<1>. SUFFICES ASSUME NEW i \in Jobs PROVE HooksOf(i)'
  BY DEF HooksInv
<1>. USE DEF TypeOK, HooksInv, HooksOf, HookCalls
<1>1. CASE CancelQueued(j)
  BY <1>1 DEF CancelQueued
<1>2. CASE CancelRunning(j)
  BY <1>2 DEF CancelRunning, TakeHook
<1>. QED BY <1>1, <1>2 DEF CancelLocked

LEMMA WorkerKeepsHooks ==
  ASSUME IInv, HooksInv, NEW t \in Threads, WorkerStep(t)
  PROVE  HooksInv'
<1>. SUFFICES ASSUME NEW i \in Jobs PROVE HooksOf(i)'
  BY DEF HooksInv
<1>. USE DEF IInv, TypeOK
<1>1. CASE WorkerPicks(t)
  <2>1. PICK j \in Jobs : TryPickJob(j)
    BY <1>1 DEF WorkerPicks
  <2>2. state[j] = "Queued" /\ state' = [state EXCEPT ![j] = "Running"]
    BY <2>1, HeadIsQueued DEF TryPickJob
  <2>3. UNCHANGED <<body, hookRuns, cancelPc, shutdownHooks, asked>>
    BY <1>1 DEF WorkerPicks
  <2>. QED BY <2>2, <2>3 DEF HooksInv, HooksOf, HookCalls
<1>2. CASE FinishTerminal(t)
  <2>1. cur[t] \in Jobs /\ state[cur[t]] = "Running" /\ outcome[t] \in Terminal
    BY <1>2, HeldIsRunning DEF FinishTerminal, Executing
  <2>2. /\ state' = [state EXCEPT ![cur[t]] = outcome[t]]
        /\ body' = [body EXCEPT ![cur[t]] = "none"]
        /\ UNCHANGED <<hookRuns, cancelPc, shutdownHooks, asked>>
    BY <1>2 DEF FinishTerminal, FinishJobLocked
  <2>. QED BY <2>1, <2>2 DEF HooksInv, HooksOf, HookCalls, Terminal
<1>3. CASE \/ WorkerSleeps(t) \/ WorkerExits(t) \/ RunOperatorJob(t) \/ BodyEnds(t)
           \/ UnknownAlgorithm(t) \/ WorkerNotes(t) \/ WorkerWakes(t)
  <2>1. UNCHANGED <<state, body, hookRuns, cancelPc, shutdownHooks, asked>>
    BY <1>3 DEF WorkerSleeps, WorkerExits, RunOperatorJob, BodyEnds, UnknownAlgorithm,
                WorkerNotes, WorkerWakes
  <2>. QED BY <2>1 DEF HooksInv, HooksOf, HookCalls
<1>. QED BY <1>1, <1>2, <1>3 DEF WorkerStep

LEMMA CallsKeepHooks ==
  ASSUME TypeOK, HooksInv, (\E j \in Jobs : CallStep(j)) \/ ShutdownStep
  PROVE  HooksInv'
<1>. SUFFICES ASSUME NEW i \in Jobs PROVE HooksOf(i)'
  BY DEF HooksInv
<1>0. UNCHANGED <<state, body, asked>>
  BY CallsKeepRecords
<1>. USE DEF TypeOK, HooksInv, HooksOf, HookCalls
<1>1. ASSUME NEW j \in Jobs, CallStep(j) PROVE HooksOf(i)'
  <2>1. CASE CancelRunsHook(j)
    BY <1>0, <2>1 DEF CancelRunsHook, AfterHook
  <2>2. CASE CancelWakes(j)
    BY <1>0, <2>2 DEF CancelWakes
  <2>3. CASE CancelNotes(j)
    BY <1>0, <2>3 DEF CancelNotes
  <2>4. CASE SubmitWakes(j) \/ SubmitNotes(j) \/ WaiterLooks(j)
    <3>1. UNCHANGED <<hookRuns, cancelPc, shutdownHooks>>
      BY <2>4 DEF SubmitWakes, SubmitNotes, WaiterLooks
    <3>. QED BY <1>0, <3>1
  <2>. QED BY <1>1, <2>1, <2>2, <2>3, <2>4 DEF CallStep
<1>2. ASSUME NEW j \in Jobs, ShutdownRunsHook(j) PROVE HooksOf(i)'
  BY <1>0, <1>2 DEF ShutdownRunsHook
<1>3. ASSUME ShutdownWakes \/ ShutdownReturns \/ \E j \in Jobs : ShutdownNotes(j) PROVE HooksOf(i)'
  <2>1. UNCHANGED <<hookRuns, cancelPc, shutdownHooks>>
    BY <1>3 DEF ShutdownWakes, ShutdownReturns, ShutdownNotes
  <2>. QED BY <1>0, <2>1
<1>. QED BY <1>1, <1>2, <1>3 DEF ShutdownStep

LEMMA RequestKeepsHooks ==
  ASSUME IInv, RecordsInv, HooksInv, Request
  PROVE  HooksInv'
<1>. USE DEF IInv, TypeOK, HooksInv, HooksOf, HookCalls
<1>1. ASSUME NEW j \in Jobs, SubmitWithId(j), NEW i \in Jobs PROVE HooksOf(i)'
  <2>1. /\ state[j] = "Absent" /\ state'[j] # "Absent"
        /\ \A k \in Jobs : k # j => state'[k] = state[k] /\ body'[k] = body[k]
        /\ UNCHANGED <<hookRuns, cancelPc, shutdownHooks, asked>>
    <3>1. CASE terminated
      BY <1>1, <3>1 DEF SubmitWithId
    <3>2. CASE ~ terminated
      BY <1>1, <3>2 DEF SubmitWithId
    <3>. QED BY <3>1, <3>2
  <2>2. HooksOf(i) /\ hookRuns[i] \in Nat
    OBVIOUS
  <2>3. CASE i = j
    BY <2>1, <2>2, <2>3
  <2>4. CASE i # j
    BY <2>1, <2>2, <2>4
  <2>. QED BY <2>3, <2>4
<1>2. ASSUME NEW j \in Jobs, Cancel(j) PROVE HooksInv'
  BY <1>2, CancelKeepsHooks DEF Cancel
<1>3. ASSUME NEW j \in Jobs, WaitForJob(j) \/ WatchdogPops(j), NEW i \in Jobs PROVE HooksOf(i)'
  <2>1. UNCHANGED <<state, body, hookRuns, cancelPc, shutdownHooks, asked>>
    BY <1>3 DEF WaitForJob, WatchdogPops
  <2>. QED BY <2>1
<1>4. ASSUME NEW S \in SUBSET Prunable, Prune(S), NEW i \in Jobs PROVE HooksOf(i)'
  BY <1>4 DEF Prune, Terminal
<1>5. ASSUME NEW n \in PoolSizes, SetMaxWorkers(n), NEW i \in Jobs PROVE HooksOf(i)'
  BY <1>5 DEF SetMaxWorkers
<1>6. ASSUME Shutdown, NEW i \in Jobs PROVE HooksOf(i)'
  <2>1. Drained = Queued
    BY DrainedIsQueued
  <2>2. RecordsOf(i) /\ HooksOf(i)
    BY DEF RecordsInv
  <2>. QED BY <1>6, <2>1, <2>2 DEF RecordsOf, Shutdown, Queued, Running, InState
<1>. QED BY <1>1, <1>2, <1>3, <1>4, <1>5, <1>6 DEF Request

LEMMA HooksInductive ==
  ASSUME IInv, RecordsInv, HooksInv, [Next]_vars
  PROVE  HooksInv'
<1>1. CASE WatchdogCancels
  <2>1. CASE CancelLocked(watchdog)
    BY <1>1, <2>1, CancelKeepsHooks DEF WatchdogCancels, IInv, TypeOK
  <2>2. CASE UNCHANGED <<state, body, cancelPc, asked>>
    BY <1>1, <2>2 DEF WatchdogCancels, HooksInv, HooksOf, HookCalls
  <2>. QED BY <1>1, <2>1, <2>2 DEF WatchdogCancels
<1>2. CASE UNCHANGED vars
  BY <1>2 DEF HooksInv, HooksOf, HookCalls
<1>. QED BY <1>1, <1>2, WorkerKeepsHooks, CallsKeepHooks, RequestKeepsHooks DEF Next, IInv

LEMMA HooksAlways == Spec => [](IInv /\ RecordsInv /\ HooksInv)
<1>1. Init => HooksInv
  BY DEF Init, HooksInv, HooksOf, HookCalls
<1>2. IInv /\ RecordsInv /\ HooksInv /\ [Next]_vars => IInv' /\ RecordsInv' /\ HooksInv'
  BY InvInductive, RecordsInductive, HooksInductive
<1>3. Init => RecordsInv
  BY DEF Init, RecordsInv, RecordsOf
<1>. QED BY <1>1, <1>2, <1>3, InvInitially, PTL DEF Spec

(* The user, the watchdog and shutdown() call the hook of a job at most    *)
(* once between them, and only after one of them took the job.             *)
THEOREM HooksRunOnce == Spec => []HookOnce
<1>1. HooksInv => HookOnce
  BY DEF HooksInv, HooksOf, HookCalls, HookOnce
<1>. QED BY <1>1, HooksAlways, PTL

-----------------------------------------------------------------------------
(* The listener.                                                           *)

Noting(j) == \E t \in Threads : pc[t] = "noting" /\ cur[t] = j

(* The times the listener heard or is to hear that the job is over.        *)
EndCalls(j) ==
  told[j] + (IF submitPc[j] \in {"refused", "note"} THEN 1 ELSE 0)
    + (IF cancelPc[j] \in {"hookThenWake", "wake", "note"} THEN 1 ELSE 0)
    + (IF j \in shutdownNotes THEN 1 ELSE 0)
    + (IF Noting(j) THEN 1 ELSE 0)

EndsOf(j) ==
  /\ EndCalls(j) <= 1
  /\ EndCalls(j) > 0 => state[j] \in Over
  /\ state[j] = "Absent" => submitPc[j] = "none"

EndsInv ==
  /\ \A j \in Jobs : EndsOf(j)
  /\ \A t, u \in Threads :
       pc[t] = "noting" /\ pc[u] = "noting" /\ cur[t] = cur[u] => t = u

(* A step after which the same threads are about to notify of the same     *)
(* jobs.                                                                   *)
SameNoting == \A t \in Threads : /\ pc'[t] = "noting" <=> pc[t] = "noting"
                                 /\ pc[t] = "noting" => cur'[t] = cur[t]

LEMMA NotingUnchanged ==
  ASSUME SameNoting
  PROVE  \A j \in Jobs : Noting(j)' <=> Noting(j)
BY DEF SameNoting, Noting

LEMMA WakingKeepsNoting ==
  ASSUME TypeOK, UNCHANGED cur, pc' = pc \/ pc' = NotifyAll(pc)
  PROVE  SameNoting
BY DEF TypeOK, NotifyAll, SameNoting

LEMMA GrowingKeepsNoting ==
  ASSUME TypeOK, UNCHANGED cur, NEW n,
         pc' = EnsureWorkers(n) \/ pc' = NotifyAll(EnsureWorkers(n))
  PROVE  SameNoting
<1>1. CASE pc' = EnsureWorkers(n)
  BY <1>1 DEF TypeOK, EnsureWorkers, SameNoting
<1>2. CASE pc' = NotifyAll(EnsureWorkers(n))
  BY <1>2 DEF TypeOK, EnsureWorkers, NotifyAll, SameNoting
<1>. QED BY <1>1, <1>2

(* What a job that is not over says about its calls.                       *)
LEMMA NoCallsYet ==
  ASSUME TypeOK, EndsInv, NEW j \in Jobs, state[j] \notin Over
  PROVE  /\ EndCalls(j) = 0 /\ told[j] = 0 /\ ~ Noting(j) /\ j \notin shutdownNotes
         /\ submitPc[j] \notin {"refused", "note"} /\ cancelPc[j] \notin {"hookThenWake", "wake", "note"}
<1>1. told[j] \in Nat /\ EndsOf(j)
  BY DEF TypeOK, EndsInv
<1>2. EndCalls(j) \in Nat
  BY <1>1 DEF EndCalls
<1>3. EndCalls(j) = 0
  BY <1>1, <1>2 DEF EndsOf
<1>. QED BY <1>1, <1>3 DEF EndCalls

LEMMA CancelKeepsEnds ==
  ASSUME TypeOK, HooksInv, EndsInv, NEW j \in Jobs, CancelLocked(j),
         UNCHANGED <<threadVars, submitPc, shutdownVars, told>>
  PROVE  EndsInv'
<1>1. \A i \in Jobs : Noting(i)' <=> Noting(i)
  BY DEF Noting
<1>. SUFFICES ASSUME NEW i \in Jobs PROVE EndsOf(i)'
  BY DEF EndsInv
<1>. USE DEF TypeOK, EndsInv, EndsOf, EndCalls, Over
<1>2. CASE CancelQueued(j)
  <2>1. /\ state[j] = "Queued" /\ state' = [state EXCEPT ![j] = "Cancelled"]
        /\ \A k \in Jobs : k # j => cancelPc'[k] = cancelPc[k]
    BY <1>2 DEF CancelQueued
  <2>2. CASE i = j
    <3>1. state[j] \notin Terminal \cup {"Pruned"}
      BY <2>1 DEF Terminal
    <3>. HIDE DEF EndsInv, EndCalls
    <3>2. /\ told[j] = 0 /\ ~ Noting(j) /\ j \notin shutdownNotes
          /\ submitPc[j] \notin {"refused", "note"}
      BY <3>1, NoCallsYet
    <3>. QED BY <1>1, <2>1, <2>2, <3>2 DEF EndCalls, Terminal
  <2>3. CASE i # j
    BY <1>1, <2>1, <2>3
  <2>. QED BY <2>2, <2>3
<1>3. CASE CancelRunning(j)
  <2>1. /\ state' = state /\ state[j] = "Running"
        /\ \A k \in Jobs : k # j => cancelPc'[k] = cancelPc[k]
        /\ cancelPc'[j] \in {cancelPc[j], "hook"}
    BY <1>3 DEF CancelRunning, TakeHook
  <2>2. EndsOf(i) /\ told[i] \in Nat
    OBVIOUS
  <2>3. CASE i # j \/ cancelPc'[j] = cancelPc[j]
    BY <1>1, <2>1, <2>2, <2>3
  <2>4. CASE i = j /\ cancelPc'[j] = "hook"
    BY <1>1, <2>1, <2>2, <2>4
  <2>. QED BY <2>1, <2>3, <2>4
<1>. QED BY <1>2, <1>3 DEF CancelLocked

LEMMA WorkerKeepsEnds ==
  ASSUME IInv, EndsInv, NEW t \in Threads, WorkerStep(t)
  PROVE  EndsInv'
<1>. USE DEF IInv, TypeOK
<1>1. CASE WorkerPicks(t)
  <2>1. PICK j \in Jobs : TryPickJob(j) /\ cur' = [cur EXCEPT ![t] = j]
    BY <1>1 DEF WorkerPicks
  <2>2. state[j] = "Queued" /\ state' = [state EXCEPT ![j] = "Running"]
    BY <2>1, HeadIsQueued DEF TryPickJob
  <2>3. SameNoting
    BY <1>1, <2>1 DEF WorkerPicks, SameNoting
  <2>4. UNCHANGED <<told, submitPc, cancelPc, shutdownNotes>>
    BY <1>1 DEF WorkerPicks
  <2>5. ASSUME NEW i \in Jobs PROVE EndsOf(i)'
    BY <2>2, <2>3, <2>4, NotingUnchanged DEF EndsInv, EndsOf, EndCalls, Over, Terminal
  <2>. QED BY <2>3, <2>5 DEF EndsInv, SameNoting
<1>2. CASE FinishTerminal(t)
  <2>1. cur[t] \in Jobs /\ state[cur[t]] = "Running" /\ outcome[t] \in Terminal
    BY <1>2, HeldIsRunning DEF FinishTerminal, Executing
  <2>2. /\ state' = [state EXCEPT ![cur[t]] = outcome[t]]
        /\ pc[t] = "ended" /\ pc' = [pc EXCEPT ![t] = "noting"]
        /\ UNCHANGED <<cur, told, submitPc, cancelPc, shutdownNotes>>
    BY <1>2 DEF FinishTerminal
  <2>3. EndCalls(cur[t]) = 0 /\ ~ Noting(cur[t])
    BY <2>1, NoCallsYet DEF Over, Terminal
  <2>4. \A i \in Jobs : i # cur[t] => (Noting(i)' <=> Noting(i))
    BY <2>2 DEF Noting
  <2>5. ASSUME NEW i \in Jobs PROVE EndsOf(i)'
    <3>1. CASE i = cur[t]
      <4>1. /\ told[i] = 0 /\ i \notin shutdownNotes
            /\ submitPc[i] \notin {"refused", "note"} /\ cancelPc[i] \notin {"hookThenWake", "wake", "note"}
        BY <2>1, <3>1, NoCallsYet DEF Over, Terminal
      <4>2. state'[i] \in Over /\ state'[i] # "Absent"
        BY <2>1, <2>2, <3>1 DEF Over, Terminal
      <4>. QED BY <2>2, <4>1, <4>2 DEF EndsOf, EndCalls
    <3>2. CASE i # cur[t]
      BY <2>1, <2>2, <2>4, <3>2 DEF EndsInv, EndsOf, EndCalls
    <3>. QED BY <3>1, <3>2
  <2>6. \A u \in Threads : pc[u] = "noting" => cur[u] # cur[t]
    BY <2>3 DEF Noting
  <2>. QED BY <2>2, <2>5, <2>6 DEF EndsInv
<1>3. CASE WorkerNotes(t)
  <2>1. /\ pc[t] = "noting" /\ pc' = [pc EXCEPT ![t] = "waking"] /\ cur[t] \in Jobs
        /\ told' = [told EXCEPT ![cur[t]] = @ + 1]
        /\ UNCHANGED <<cur, state, submitPc, cancelPc, shutdownNotes>>
    BY <1>3 DEF WorkerNotes
  <2>2. Noting(cur[t]) /\ ~ Noting(cur[t])'
    BY <2>1 DEF Noting, EndsInv
  <2>3. \A i \in Jobs : i # cur[t] => (Noting(i)' <=> Noting(i))
    BY <2>1 DEF Noting
  <2>4. ASSUME NEW i \in Jobs PROVE EndsOf(i)'
    <3>1. CASE i = cur[t]
      BY <2>1, <2>2, <3>1 DEF EndsInv, EndsOf, EndCalls
    <3>2. CASE i # cur[t]
      BY <2>1, <2>3, <3>2 DEF EndsInv, EndsOf, EndCalls
    <3>. QED BY <3>1, <3>2
  <2>. QED BY <2>1, <2>4 DEF EndsInv
<1>4. CASE \/ WorkerSleeps(t) \/ WorkerExits(t) \/ RunOperatorJob(t) \/ BodyEnds(t)
           \/ UnknownAlgorithm(t) \/ WorkerWakes(t)
  <2>1. UNCHANGED <<state, told, submitPc, cancelPc, shutdownNotes>>
    BY <1>4 DEF WorkerSleeps, WorkerExits, RunOperatorJob, BodyEnds, UnknownAlgorithm, WorkerWakes
  <2>2. SameNoting
    <3>1. CASE WorkerExits(t)
      BY <3>1 DEF WorkerExits, NotifyAll, SameNoting
    <3>5. CASE WorkerSleeps(t)
      <4>1. pc[t] = "ready" /\ pc' = [pc EXCEPT ![t] = "asleep"] /\ cur' = cur
        BY <3>5 DEF WorkerSleeps
      <4>. QED BY <4>1 DEF SameNoting
    <3>2. CASE RunOperatorJob(t)
      <4>1. /\ pc[t] = "picked" /\ cur' = cur
            /\ pc' = [NotifyAll(pc) EXCEPT ![t] = "body"] \/ pc' = [pc EXCEPT ![t] = "body"]
        BY <3>2 DEF RunOperatorJob
      <4>2. CASE pc' = [pc EXCEPT ![t] = "body"]
        BY <4>1, <4>2 DEF SameNoting
      <4>3. CASE pc' = [NotifyAll(pc) EXCEPT ![t] = "body"]
        BY <4>1, <4>3 DEF NotifyAll, SameNoting
      <4>. QED BY <4>1, <4>2, <4>3
    <3>3. CASE BodyEnds(t) \/ UnknownAlgorithm(t)
      <4>1. pc[t] = "body" /\ pc' = [pc EXCEPT ![t] = "ended"] /\ cur' = cur
        BY <3>3 DEF BodyEnds, UnknownAlgorithm
      <4>. QED BY <4>1 DEF SameNoting
    <3>4. CASE WorkerWakes(t)
      BY <3>4 DEF WorkerWakes, NotifyAll, SameNoting
    <3>. QED BY <1>4, <3>1, <3>2, <3>3, <3>4, <3>5
  <2>3. ASSUME NEW i \in Jobs PROVE EndsOf(i)'
    BY <2>1, <2>2, NotingUnchanged DEF EndsInv, EndsOf, EndCalls
  <2>. QED BY <2>2, <2>3 DEF EndsInv, SameNoting
<1>. QED BY <1>1, <1>2, <1>3, <1>4 DEF WorkerStep

LEMMA CallsKeepEnds ==
  ASSUME TypeOK, EndsInv, (\E j \in Jobs : CallStep(j)) \/ ShutdownStep
  PROVE  EndsInv'
<1>0. state' = state
  BY CallsKeepRecords
<1>1. SameNoting
  <2>1. UNCHANGED cur /\ (pc' = pc \/ pc' = NotifyAll(pc))
    BY DEF CallStep, ShutdownStep, SubmitWakes, SubmitNotes, CancelRunsHook, CancelWakes, CancelNotes,
           WaiterLooks, ShutdownWakes, ShutdownReturns, ShutdownRunsHook, ShutdownNotes
  <2>. QED BY <2>1, WakingKeepsNoting
<1>2. \A i \in Jobs : Noting(i)' <=> Noting(i)
  BY <1>1, NotingUnchanged
<1>3. ASSUME NEW i \in Jobs PROVE EndsOf(i)'
  <2>. USE DEF TypeOK, EndsInv, EndsOf, EndCalls
  <2>1. ASSUME NEW j \in Jobs, CallStep(j) PROVE EndsOf(i)'
    <3>1. CASE SubmitWakes(j)
      BY <1>0, <1>2, <3>1 DEF SubmitWakes
    <3>2. CASE SubmitNotes(j)
      BY <1>0, <1>2, <3>2 DEF SubmitNotes
    <3>3. CASE CancelRunsHook(j)
      BY <1>0, <1>2, <3>3 DEF CancelRunsHook, AfterHook
    <3>4. CASE CancelWakes(j)
      BY <1>0, <1>2, <3>4 DEF CancelWakes
    <3>5. CASE CancelNotes(j)
      <4>1. /\ cancelPc[j] = "note" /\ UNCHANGED <<submitPc, shutdownNotes>>
            /\ told' = [told EXCEPT ![j] = @ + 1] /\ cancelPc' = [cancelPc EXCEPT ![j] = "none"]
        BY <3>5 DEF CancelNotes
      <4>2. CASE i = j
        <5>1. told'[i] = told[i] + 1 /\ cancelPc'[i] = "none" /\ told[i] \in Nat
          BY <4>1, <4>2
        <5>. QED BY <1>0, <1>2, <4>1, <4>2, <5>1
      <4>3. CASE i # j
        <5>1. told'[i] = told[i] /\ cancelPc'[i] = cancelPc[i]
          BY <4>1, <4>3
        <5>. QED BY <1>0, <1>2, <4>1, <5>1
      <4>. QED BY <4>2, <4>3
    <3>6. CASE WaiterLooks(j)
      <4>1. UNCHANGED <<told, submitPc, cancelPc, shutdownNotes>>
        BY <3>6 DEF WaiterLooks
      <4>. QED BY <1>0, <1>2, <4>1
    <3>. QED BY <2>1, <3>1, <3>2, <3>3, <3>4, <3>5, <3>6 DEF CallStep
  <2>2. ASSUME NEW j \in Jobs, ShutdownNotes(j) PROVE EndsOf(i)'
    <3>1. /\ j \in shutdownNotes /\ UNCHANGED <<submitPc, cancelPc>>
          /\ told' = [told EXCEPT ![j] = @ + 1] /\ shutdownNotes' = shutdownNotes \ {j}
      BY <2>2 DEF ShutdownNotes
    <3>2. CASE i = j
      <4>1. told'[i] = told[i] + 1 /\ i \notin shutdownNotes' /\ told[i] \in Nat
        BY <3>1, <3>2
      <4>. QED BY <1>0, <1>2, <3>1, <3>2, <4>1
    <3>3. CASE i # j
      <4>1. told'[i] = told[i] /\ (i \in shutdownNotes' <=> i \in shutdownNotes)
        BY <3>1, <3>3
      <4>. QED BY <1>0, <1>2, <3>1, <4>1
    <3>. QED BY <3>2, <3>3
  <2>3. ASSUME ShutdownWakes \/ ShutdownReturns \/ \E j \in Jobs : ShutdownRunsHook(j) PROVE EndsOf(i)'
    <3>1. UNCHANGED <<told, submitPc, cancelPc, shutdownNotes>>
      BY <2>3 DEF ShutdownWakes, ShutdownReturns, ShutdownRunsHook
    <3>. QED BY <1>0, <1>2, <3>1
  <2>. QED BY <2>1, <2>2, <2>3 DEF ShutdownStep
<1>. QED BY <1>1, <1>3 DEF EndsInv, SameNoting

LEMMA RequestKeepsEnds ==
  ASSUME IInv, HooksInv, EndsInv, Request
  PROVE  EndsInv'
<1>. USE DEF IInv, TypeOK
<1>1. ASSUME NEW j \in Jobs, SubmitWithId(j) PROVE EndsInv'
  <2>1. SameNoting
    <3>1. UNCHANGED cur /\ (pc' = pc \/ \E n : pc' = EnsureWorkers(n))
      BY <1>1 DEF SubmitWithId
    <3>. QED BY <3>1, WakingKeepsNoting, GrowingKeepsNoting
  <2>2. /\ state[j] = "Absent"
        /\ \/ state'[j] = "Cancelled" /\ submitPc'[j] = "refused"
           \/ state'[j] = "Queued" /\ submitPc'[j] = "wake"
        /\ \A k \in Jobs : k # j => state'[k] = state[k] /\ submitPc'[k] = submitPc[k]
        /\ UNCHANGED <<told, cancelPc, shutdownNotes>>
    <3>1. CASE terminated
      BY <1>1, <3>1 DEF SubmitWithId
    <3>2. CASE ~ terminated
      BY <1>1, <3>2 DEF SubmitWithId
    <3>. QED BY <3>1, <3>2
  <2>3. ASSUME NEW i \in Jobs PROVE EndsOf(i)'
    <3>1. Noting(i)' <=> Noting(i)
      BY <2>1, NotingUnchanged
    <3>2. CASE i = j
      <4>1. /\ told[i] = 0 /\ ~ Noting(i) /\ i \notin shutdownNotes
            /\ cancelPc[i] \notin {"hookThenWake", "wake", "note"}
        BY <2>2, <3>2, NoCallsYet DEF Over, Terminal
      <4>. QED BY <2>2, <3>1, <3>2, <4>1 DEF EndsOf, EndCalls, Over, Terminal
    <3>3. CASE i # j
      BY <2>2, <3>1, <3>3 DEF EndsInv, EndsOf, EndCalls
    <3>. QED BY <3>2, <3>3
  <2>. QED BY <2>1, <2>3 DEF EndsInv, SameNoting
<1>2. ASSUME NEW j \in Jobs, Cancel(j) PROVE EndsInv'
  BY <1>2, CancelKeepsEnds DEF Cancel
<1>3. ASSUME NEW j \in Jobs, WaitForJob(j) \/ WatchdogPops(j) PROVE EndsInv'
  <2>1. UNCHANGED <<state, pc, cur, told, submitPc, cancelPc, shutdownNotes>>
    BY <1>3 DEF WaitForJob, WatchdogPops
  <2>2. \A i \in Jobs : EndsOf(i) => EndsOf(i)'
    BY <2>1 DEF EndsOf, EndCalls, Noting
  <2>. QED BY <2>1, <2>2 DEF EndsInv
<1>4. ASSUME NEW S \in SUBSET Prunable, Prune(S) PROVE EndsInv'
  <2>1. UNCHANGED <<pc, cur, told, submitPc, cancelPc, shutdownNotes>>
    BY <1>4 DEF Prune
  <2>2. \A i \in Jobs : /\ state[i] \in Over => state'[i] \in Over
                        /\ state'[i] = "Absent" => state[i] = "Absent"
    BY <1>4 DEF Prune, Over, Terminal
  <2>3. \A i \in Jobs : EndsOf(i) => EndsOf(i)'
    BY <2>1, <2>2 DEF EndsOf, EndCalls, Noting
  <2>. QED BY <2>1, <2>3 DEF EndsInv
<1>5. ASSUME NEW n \in PoolSizes, SetMaxWorkers(n) PROVE EndsInv'
  <2>1. SameNoting
    BY <1>5, GrowingKeepsNoting DEF SetMaxWorkers
  <2>2. UNCHANGED <<state, told, submitPc, cancelPc, shutdownNotes>>
    BY <1>5 DEF SetMaxWorkers
  <2>3. ASSUME NEW i \in Jobs PROVE EndsOf(i)'
    BY <2>1, <2>2, NotingUnchanged DEF EndsInv, EndsOf, EndCalls
  <2>. QED BY <2>1, <2>3 DEF EndsInv, SameNoting
<1>6. CASE Shutdown
  <2>1. Drained = Queued
    BY DrainedIsQueued
  <2>2. /\ state' = [i \in Jobs |-> IF i \in Queued THEN "Cancelled" ELSE state[i]]
        /\ shutdownNotes' = Queued
        /\ UNCHANGED <<pc, cur, told, submitPc, cancelPc>>
    BY <1>6, <2>1 DEF Shutdown
  <2>3. \A i \in Jobs : Noting(i)' <=> Noting(i)
    BY <2>2 DEF Noting
  <2>4. ASSUME NEW i \in Jobs PROVE EndsOf(i)'
    <3>1. CASE i \in Queued
      <4>1. state[i] = "Queued" /\ state'[i] = "Cancelled"
        BY <2>2, <3>1 DEF Queued, InState
      <4>2. /\ told[i] = 0 /\ ~ Noting(i)
            /\ submitPc[i] \notin {"refused", "note"} /\ cancelPc[i] \notin {"hookThenWake", "wake", "note"}
        BY <4>1, NoCallsYet DEF Over, Terminal
      <4>. QED BY <2>2, <2>3, <4>1, <4>2 DEF EndsOf, EndCalls, Over, Terminal
    <3>2. CASE i \notin Queued
      <4>1. state'[i] = state[i] /\ i \notin shutdownNotes'
        BY <2>2, <3>2
      <4>2. EndsOf(i) /\ told[i] \in Nat
        BY DEF EndsInv
      <4>3. EndCalls(i)' <= EndCalls(i) /\ EndCalls(i) \in Nat /\ EndCalls(i)' \in Nat
        <5>1. told'[i] = told[i] /\ submitPc'[i] = submitPc[i] /\ cancelPc'[i] = cancelPc[i]
          BY <2>2
        <5>. HIDE DEF IInv, TypeOK
        <5>2. CASE i \in shutdownNotes
          BY <2>3, <4>1, <4>2, <5>1, <5>2 DEF EndCalls
        <5>3. CASE i \notin shutdownNotes
          BY <2>3, <4>1, <4>2, <5>1, <5>3 DEF EndCalls
        <5>. QED BY <5>2, <5>3
      <4>. QED BY <2>2, <4>1, <4>2, <4>3 DEF EndsOf
    <3>. QED BY <3>1, <3>2
  <2>. QED BY <2>2, <2>4 DEF EndsInv
<1>. QED BY <1>1, <1>2, <1>3, <1>4, <1>5, <1>6 DEF Request

LEMMA EndsInductive ==
  ASSUME IInv, HooksInv, EndsInv, [Next]_vars
  PROVE  EndsInv'
<1>1. CASE WatchdogCancels
  <2>1. CASE CancelLocked(watchdog)
    BY <1>1, <2>1, CancelKeepsEnds DEF WatchdogCancels, IInv, TypeOK
  <2>2. CASE UNCHANGED <<state, cancelPc>>
    BY <1>1, <2>2 DEF WatchdogCancels, EndsInv, EndsOf, EndCalls, Noting
  <2>. QED BY <1>1, <2>1, <2>2 DEF WatchdogCancels
<1>2. CASE UNCHANGED vars
  BY <1>2 DEF EndsInv, EndsOf, EndCalls, Noting
<1>. QED BY <1>1, <1>2, WorkerKeepsEnds, CallsKeepEnds, RequestKeepsEnds DEF Next, IInv

LEMMA EndsAlways == Spec => [](IInv /\ RecordsInv /\ HooksInv /\ EndsInv)
<1>1. Init => RecordsInv /\ HooksInv
  BY DEF Init, RecordsInv, RecordsOf, HooksInv, HooksOf, HookCalls
<1>2. Init => EndsInv
  BY DEF Init, EndsInv, EndsOf, EndCalls, Noting
<1>3. IInv /\ RecordsInv /\ HooksInv /\ EndsInv /\ [Next]_vars =>
        IInv' /\ RecordsInv' /\ HooksInv' /\ EndsInv'
  BY InvInductive, RecordsInductive, HooksInductive, EndsInductive
<1>. QED BY <1>1, <1>2, <1>3, InvInitially, PTL DEF Spec

(* The listener hears of the end of a job at most once, and not before the *)
(* record says so, whoever of submit, cancel, shutdown and worker ended it.*)
THEOREM EndsAreToldOnce == Spec => []ToldOnce
<1>1. IInv /\ EndsInv => ToldOnce
  <2>. SUFFICES ASSUME TypeOK, EndsInv, NEW j \in Jobs
                PROVE  told[j] <= 1 /\ (told[j] = 1 => state[j] \in Over)
    BY DEF IInv, ToldOnce, Over
  <2>1. told[j] \in Nat /\ EndsOf(j)
    BY DEF TypeOK, EndsInv
  <2>2. EndCalls(j) \in Nat /\ told[j] <= EndCalls(j)
    BY <2>1 DEF EndCalls
  <2>. QED BY <2>1, <2>2 DEF EndsOf
<1>. QED BY <1>1, EndsAlways, PTL

-----------------------------------------------------------------------------
(* The condition variable.                                                 *)

SomeoneSleeps == \E t \in Threads : pc[t] = "asleep"

(* A worker that sleeps while a job could be picked is still to be woken,  *)
(* and so are the others who sleep on the same condition variable.         *)
WakeInv ==
  /\ SomeoneSleeps /\ ~NothingToPick => WakeupOwed
  /\ SomeoneSleeps /\ terminated => shutdownPc = "wake"
  /\ \A j \in Jobs : wait[j] = "asleep" /\ state[j] \in Terminal => WakeupOwed
  /\ \A j \in Jobs : state[j] = "Absent" => wait[j] = "none"

(* notify_all().                                                           *)
LEMMA NobodySleeps ==
  ASSUME TypeOK, WakeInv, \A t \in Threads : pc'[t] # "asleep", WakeWaiters, UNCHANGED state
  PROVE  WakeInv'
<1>1. \A j \in Jobs : wait'[j] # "asleep" /\ (wait[j] = "none" => wait'[j] = "none")
  BY DEF WakeWaiters, TypeOK
<1>. QED BY <1>1 DEF WakeInv, SomeoneSleeps

LEMMA NotifyAllWakes ==
  \A t \in Threads : NotifyAll(pc)[t] # "asleep"
BY DEF NotifyAll

(* A step that changes neither what can be picked nor who sleeps, and      *)
(* keeps the debts.                                                        *)
LEMMA DebtsRemain ==
  ASSUME WakeInv, WakeupOwed => WakeupOwed', SomeoneSleeps' => SomeoneSleeps,
         UNCHANGED <<queueVars, running, exclusiveRunning, allowance, maxWorkers,
                     terminated, shutdownPc, wait>>,
         \A j \in Jobs : state'[j] = state[j] \/ state'[j] \notin Terminal \cup {"Absent"}
  PROVE  WakeInv'
<1>1. NothingToPick' <=> NothingToPick
  BY DEF NothingToPick
<1>. QED BY <1>1 DEF WakeInv

LEMMA CancelKeepsWakes ==
  ASSUME TypeOK, EndsInv, WakeInv, NEW j \in Jobs, CancelLocked(j),
         UNCHANGED <<maxWorkers, threadVars, submitPc, shutdownVars, wait>>
  PROVE  WakeInv'
<1>1. CASE CancelQueued(j)
  <2>1. /\ state[j] = "Queued" /\ state' = [state EXCEPT ![j] = "Cancelled"]
        /\ cancelPc' = [cancelPc EXCEPT ![j] = IF body[j] = "hook" THEN "hookThenWake" ELSE "wake"]
    BY <1>1 DEF CancelQueued
  <2>2. cancelPc'[j] \in {"hookThenWake", "wake"}
    BY <2>1 DEF TypeOK
  <2>3. WakeupOwed'
    BY <2>2 DEF WakeupOwed
  <2>. QED BY <2>1, <2>3 DEF TypeOK, WakeInv, SomeoneSleeps
<1>2. CASE CancelRunning(j)
  <2>1. /\ state[j] = "Running" /\ state' = state /\ UNCHANGED <<queueVars, poolVars>>
        /\ \A k \in Jobs : k # j => cancelPc'[k] = cancelPc[k]
    BY <1>2 DEF CancelRunning, TakeHook, TypeOK
  <2>2. cancelPc[j] \notin {"hookThenWake", "wake"}
    BY <2>1, NoCallsYet DEF Over, Terminal
  <2>3. WakeupOwed => WakeupOwed'
    BY <2>1, <2>2 DEF WakeupOwed
  <2>. QED BY <2>1, <2>3, DebtsRemain DEF SomeoneSleeps
<1>. QED BY <1>1, <1>2 DEF CancelLocked

LEMMA WorkerKeepsWakes ==
  ASSUME IInv, WakeInv, NEW t \in Threads, WorkerStep(t)
  PROVE  WakeInv'
<1>. USE DEF IInv, TypeOK
<1>1. CASE WorkerPicks(t)
  <2>1. PICK j \in Jobs : TryPickJob(j)
    BY <1>1 DEF WorkerPicks
  <2>2. ~ NothingToPick
    <3>1. running \in Nat /\ queuedCount \in Int /\ maxWorkers + allowance \in Int
      BY PoolAssumption
    <3>. HIDE DEF IInv, TypeOK
    <3>2. CASE PickExclusive(j)
      BY <2>1, <3>1, <3>2 DEF TryPickJob, PickExclusive, NothingToPick
    <3>3. CASE PickByPriority(j)
      BY <2>1, <3>1, <3>3 DEF TryPickJob, PickByPriority, NothingToPick
    <3>. QED BY <2>1, <3>2, <3>3 DEF TryPickJob
  <2>3. /\ pc[t] = "ready" /\ pc' = [pc EXCEPT ![t] = "picked"] /\ ~ terminated
        /\ state' = [state EXCEPT ![j] = "Running"]
        /\ UNCHANGED <<submitPc, cancelPc, shutdownPc, terminated, wait>>
    BY <1>1, <2>1 DEF WorkerPicks, TryPickJob
  <2>4. WakeupOwed => WakeupOwed'
    BY <2>3 DEF WakeupOwed
  <2>5. SomeoneSleeps' => SomeoneSleeps
    BY <2>3 DEF SomeoneSleeps
  <2>. QED BY <2>2, <2>3, <2>4, <2>5 DEF WakeInv, Terminal
<1>2. CASE WorkerSleeps(t)
  <2>1. /\ NothingToPick /\ ~ terminated /\ pc[t] = "ready" /\ pc' = [pc EXCEPT ![t] = "asleep"]
        /\ UNCHANGED <<state, queueVars, poolVars, maxWorkers, callVars, shutdownVars, wait>>
    BY <1>2 DEF WorkerSleeps
  <2>2. NothingToPick'
    BY <2>1 DEF NothingToPick
  <2>3. WakeupOwed => WakeupOwed'
    BY <2>1 DEF WakeupOwed
  <2>. QED BY <2>1, <2>2, <2>3 DEF WakeInv
<1>3. CASE WorkerExits(t)
  <2>1. \A u \in Threads : pc'[u] # "asleep"
    BY <1>3, NotifyAllWakes DEF WorkerExits, NotifyAll
  <2>. QED BY <1>3, <2>1, NobodySleeps DEF WorkerExits
<1>4. CASE RunOperatorJob(t)
  <2>1. CASE cur[t] \in Budgeted
    <3>1. \A u \in Threads : pc'[u] # "asleep"
      <4>1. pc' = [NotifyAll(pc) EXCEPT ![t] = "body"]
        BY <1>4, <2>1 DEF RunOperatorJob
      <4>. QED BY <4>1, NotifyAllWakes DEF NotifyAll
    <3>2. WakeWaiters /\ state' = state
      BY <1>4, <2>1 DEF RunOperatorJob
    <3>. QED BY <3>1, <3>2, NobodySleeps
  <2>2. CASE cur[t] \notin Budgeted
    <3>1. /\ pc[t] = "picked" /\ pc' = [pc EXCEPT ![t] = "body"]
          /\ UNCHANGED <<state, queueVars, poolVars, maxWorkers, callVars, shutdownVars, wait>>
      BY <1>4, <2>2 DEF RunOperatorJob
    <3>2. (WakeupOwed => WakeupOwed') /\ (SomeoneSleeps' => SomeoneSleeps)
      BY <3>1 DEF WakeupOwed, SomeoneSleeps
    <3>. QED BY <3>1, <3>2, DebtsRemain
  <2>. QED BY <2>1, <2>2
<1>5. CASE BodyEnds(t) \/ UnknownAlgorithm(t)
  <2>1. /\ pc[t] = "body" /\ pc' = [pc EXCEPT ![t] = "ended"]
        /\ UNCHANGED <<state, queueVars, poolVars, maxWorkers, callVars, shutdownVars, wait>>
    BY <1>5 DEF BodyEnds, UnknownAlgorithm
  <2>2. (WakeupOwed => WakeupOwed') /\ (SomeoneSleeps' => SomeoneSleeps)
    BY <2>1 DEF WakeupOwed, SomeoneSleeps
  <2>. QED BY <2>1, <2>2, DebtsRemain
<1>6. CASE FinishTerminal(t)
  <2>1. cur[t] \in Jobs /\ state[cur[t]] = "Running" /\ outcome[t] \in Terminal
    BY <1>6, HeldIsRunning DEF FinishTerminal, Executing
  <2>2. /\ pc[t] = "ended" /\ pc' = [pc EXCEPT ![t] = "noting"]
        /\ state' = [state EXCEPT ![cur[t]] = outcome[t]]
        /\ UNCHANGED <<shutdownVars, wait>>
    BY <1>6 DEF FinishTerminal
  <2>3. WakeupOwed' /\ (SomeoneSleeps' => SomeoneSleeps)
    BY <2>2 DEF WakeupOwed, SomeoneSleeps
  <2>4. \A j \in Jobs : state'[j] = "Absent" => state[j] = "Absent"
    BY <2>1, <2>2 DEF Terminal
  <2>. QED BY <2>2, <2>3, <2>4 DEF WakeInv
<1>7. CASE WorkerNotes(t)
  <2>1. /\ pc[t] = "noting" /\ pc' = [pc EXCEPT ![t] = "waking"]
        /\ UNCHANGED <<state, queueVars, poolVars, maxWorkers, callVars, shutdownVars, wait>>
    BY <1>7 DEF WorkerNotes
  <2>2. WakeupOwed' /\ (SomeoneSleeps' => SomeoneSleeps)
    BY <2>1 DEF WakeupOwed, SomeoneSleeps
  <2>. QED BY <2>1, <2>2, DebtsRemain
<1>8. CASE WorkerWakes(t)
  <2>1. \A u \in Threads : pc'[u] # "asleep"
    BY <1>8 DEF WorkerWakes, NotifyAll
  <2>. QED BY <1>8, <2>1, NobodySleeps DEF WorkerWakes
<1>. QED BY <1>1, <1>2, <1>3, <1>4, <1>5, <1>6, <1>7, <1>8 DEF WorkerStep

LEMMA CallsKeepWakes ==
  ASSUME TypeOK, WakeInv, (\E j \in Jobs : CallStep(j)) \/ ShutdownStep
  PROVE  WakeInv'
<1>0. UNCHANGED <<state, queueVars, poolVars, terminated>>
  BY CallsKeepRecords
<1>1. ASSUME NEW j \in Jobs, SubmitWakes(j) \/ CancelWakes(j) PROVE WakeInv'
  <2>1. pc' = NotifyAll(pc) /\ WakeWaiters
    BY <1>1 DEF SubmitWakes, CancelWakes
  <2>. QED BY <1>0, <2>1, NotifyAllWakes, NobodySleeps
<1>2. CASE ShutdownWakes
  <2>1. pc' = NotifyAll(pc) /\ WakeWaiters
    BY <1>2 DEF ShutdownWakes
  <2>. QED BY <1>0, <2>1, NotifyAllWakes, NobodySleeps
<1>3. ASSUME NEW j \in Jobs, SubmitNotes(j) \/ CancelRunsHook(j) \/ CancelNotes(j) PROVE WakeInv'
  <2>1. UNCHANGED <<pc, maxWorkers, shutdownPc, wait>>
    BY <1>3 DEF SubmitNotes, CancelRunsHook, CancelNotes
  <2>2. WakeupOwed => WakeupOwed'
    <3>1. CASE SubmitNotes(j)
      BY <2>1, <3>1 DEF SubmitNotes, WakeupOwed, TypeOK
    <3>2. CASE CancelRunsHook(j)
      BY <2>1, <3>2 DEF CancelRunsHook, AfterHook, WakeupOwed, TypeOK
    <3>3. CASE CancelNotes(j)
      BY <2>1, <3>3 DEF CancelNotes, WakeupOwed, TypeOK
    <3>. QED BY <1>3, <3>1, <3>2, <3>3
  <2>. QED BY <1>0, <2>1, <2>2, DebtsRemain DEF SomeoneSleeps
<1>4. ASSUME NEW j \in Jobs, WaiterLooks(j) PROVE WakeInv'
  <2>1. UNCHANGED <<pc, maxWorkers, callVars, shutdownVars>>
    BY <1>4 DEF WaiterLooks
  <2>2. (WakeupOwed' <=> WakeupOwed) /\ (SomeoneSleeps' <=> SomeoneSleeps)
    BY <2>1 DEF WakeupOwed, SomeoneSleeps
  <2>3. NothingToPick' <=> NothingToPick
    BY <1>0, <2>1 DEF NothingToPick
  <2>4. wait[j] = "ready" /\ \A i \in Jobs : i # j => wait'[i] = wait[i]
    BY <1>4 DEF WaiterLooks, TypeOK
  <2>5. ASSUME state[j] \in Terminal PROVE wait'[j] = "true"
    <3>1. wait' = [wait EXCEPT ![j] = CASE state[j] \in Terminal -> "true"
                                        [] state[j] = "Pruned" -> "false"
                                        [] OTHER -> "asleep"]
      BY <1>4 DEF WaiterLooks
    <3>2. state[j] # "Pruned"
      BY <2>5 DEF Terminal
    <3>3. (CASE state[j] \in Terminal -> "true"
             [] state[j] = "Pruned" -> "false"
             [] OTHER -> "asleep") = "true"
      BY <2>5, <3>2, Zenon
    <3>4. wait' = [wait EXCEPT ![j] = "true"]
      BY <3>1, <3>3, Zenon
    <3>. QED BY <3>4 DEF TypeOK
  <2>6. state[j] # "Absent"
    BY <2>4 DEF WakeInv
  <2>. QED BY <1>0, <2>1, <2>2, <2>3, <2>4, <2>5, <2>6 DEF WakeInv
<1>5. ASSUME ShutdownReturns \/ \E j \in Jobs : ShutdownRunsHook(j) \/ ShutdownNotes(j) PROVE WakeInv'
  <2>1. /\ UNCHANGED <<pc, maxWorkers, callVars, wait>>
        /\ shutdownPc = "calls" /\ shutdownPc' \in {"calls", "done"}
    BY <1>5 DEF ShutdownReturns, ShutdownRunsHook, ShutdownNotes
  <2>2. (WakeupOwed' <=> WakeupOwed) /\ (SomeoneSleeps' <=> SomeoneSleeps)
    BY <2>1 DEF WakeupOwed, SomeoneSleeps
  <2>3. NothingToPick' <=> NothingToPick
    BY <1>0, <2>1 DEF NothingToPick
  <2>. QED BY <1>0, <2>1, <2>2, <2>3 DEF WakeInv
<1>. QED BY <1>1, <1>2, <1>3, <1>4, <1>5 DEF CallStep, ShutdownStep

LEMMA RequestKeepsWakes ==
  ASSUME IInv, EndsInv, WakeInv, Request
  PROVE  WakeInv'
<1>. USE DEF IInv, TypeOK
<1>1. ASSUME NEW j \in Jobs, SubmitWithId(j) PROVE WakeInv'
  <2>0. state[j] = "Absent" /\ submitPc[j] = "none"
    BY <1>1 DEF SubmitWithId, EndsInv, EndsOf
  <2>1. CASE terminated
    <3>1. /\ state' = [state EXCEPT ![j] = "Cancelled"]
          /\ submitPc' = [submitPc EXCEPT ![j] = "refused"]
          /\ UNCHANGED <<queueVars, poolVars, pc, maxWorkers, cancelPc, shutdownVars, wait>>
      BY <1>1, <2>1 DEF SubmitWithId
    <3>2. (WakeupOwed => WakeupOwed') /\ (SomeoneSleeps' <=> SomeoneSleeps)
      BY <2>0, <3>1 DEF WakeupOwed, SomeoneSleeps
    <3>3. NothingToPick' <=> NothingToPick
      BY <3>1 DEF NothingToPick
    <3>. QED BY <2>0, <3>1, <3>2, <3>3 DEF WakeInv
  <2>2. CASE ~ terminated
    <3>1. /\ state' = [state EXCEPT ![j] = "Queued"]
          /\ submitPc' = [submitPc EXCEPT ![j] = "wake"]
          /\ UNCHANGED <<shutdownVars, wait>>
      BY <1>1, <2>2 DEF SubmitWithId
    <3>2. WakeupOwed'
      BY <3>1 DEF WakeupOwed
    <3>. QED BY <2>0, <2>2, <3>1, <3>2 DEF WakeInv
  <2>. QED BY <2>1, <2>2
<1>2. ASSUME NEW j \in Jobs, Cancel(j) PROVE WakeInv'
  BY <1>2, CancelKeepsWakes DEF Cancel
<1>3. ASSUME NEW j \in Jobs, WaitForJob(j) PROVE WakeInv'
  <2>1. /\ UNCHANGED <<state, queueVars, poolVars, pc, maxWorkers, callVars, shutdownVars>>
        /\ state[j] # "Absent"
        /\ wait' = [wait EXCEPT ![j] = IF state[j] \in Terminal THEN "true" ELSE "asleep"]
    BY <1>3 DEF WaitForJob
  <2>2. (WakeupOwed' <=> WakeupOwed) /\ (SomeoneSleeps' <=> SomeoneSleeps)
    BY <2>1 DEF WakeupOwed, SomeoneSleeps
  <2>3. NothingToPick' <=> NothingToPick
    BY <2>1 DEF NothingToPick
  <2>4. \A i \in Jobs : /\ i # j => wait'[i] = wait[i]
                        /\ wait'[j] = IF state[j] \in Terminal THEN "true" ELSE "asleep"
    BY <2>1
  <2>. QED BY <2>1, <2>2, <2>3, <2>4 DEF WakeInv
<1>4. ASSUME NEW j \in Jobs, WatchdogPops(j) PROVE WakeInv'
  <2>1. UNCHANGED <<state, queueVars, poolVars, pc, maxWorkers, callVars, shutdownVars, wait>>
    BY <1>4 DEF WatchdogPops
  <2>. QED BY <2>1, DebtsRemain DEF WakeupOwed, SomeoneSleeps
<1>5. ASSUME NEW S \in SUBSET Prunable, Prune(S) PROVE WakeInv'
  <2>1. UNCHANGED <<queueVars, poolVars, pc, maxWorkers, callVars, shutdownVars, wait>>
    BY <1>5 DEF Prune
  <2>2. \A j \in Jobs : state'[j] = state[j] \/ state'[j] \notin Terminal \cup {"Absent"}
    BY <1>5 DEF Prune, Terminal
  <2>. QED BY <2>1, <2>2, DebtsRemain DEF WakeupOwed, SomeoneSleeps
<1>6. ASSUME NEW n \in PoolSizes, SetMaxWorkers(n) PROVE WakeInv'
  <2>1. \A u \in Threads : pc'[u] # "asleep"
    BY <1>6 DEF SetMaxWorkers, NotifyAll
  <2>. QED BY <1>6, <2>1, NobodySleeps DEF SetMaxWorkers
<1>7. CASE Shutdown
  <2>1. /\ shutdownPc' = "wake" /\ UNCHANGED wait
        /\ state' = [j \in Jobs |-> IF j \in Drained THEN "Cancelled" ELSE state[j]]
    BY <1>7 DEF Shutdown
  <2>2. WakeupOwed'
    BY <2>1 DEF WakeupOwed
  <2>3. \A j \in Jobs : state'[j] = "Absent" => state[j] = "Absent"
    BY <2>1
  <2>. QED BY <2>1, <2>2, <2>3 DEF WakeInv
<1>. QED BY <1>1, <1>2, <1>3, <1>4, <1>5, <1>6, <1>7 DEF Request

LEMMA WakesInductive ==
  ASSUME IInv, EndsInv, WakeInv, [Next]_vars
  PROVE  WakeInv'
<1>1. CASE WatchdogCancels
  <2>1. CASE CancelLocked(watchdog)
    BY <1>1, <2>1, CancelKeepsWakes DEF WatchdogCancels, IInv, TypeOK
  <2>2. CASE UNCHANGED <<state, queueVars, poolVars, cancelPc>>
    <3>1. UNCHANGED <<pc, maxWorkers, submitPc, shutdownVars, wait>>
      BY <1>1 DEF WatchdogCancels
    <3>. QED BY <2>2, <3>1, DebtsRemain DEF WakeupOwed, SomeoneSleeps
  <2>. QED BY <1>1, <2>1, <2>2 DEF WatchdogCancels
<1>2. CASE UNCHANGED vars
  BY <1>2, DebtsRemain DEF WakeupOwed, SomeoneSleeps
<1>. QED BY <1>1, <1>2, WorkerKeepsWakes, CallsKeepWakes, RequestKeepsWakes DEF Next, IInv

(* No notify_all is missing: who sleeps on the condition variable although *)
(* there is something to do for him is still to be notified, whatever came *)
(* between the change and its notification.                                *)
THEOREM WakeupsAreNotLost == Spec => []NoLostWakeup
<1>1. Init => WakeInv
  BY DEF Init, WakeInv, SomeoneSleeps, Terminal
<1>2. WakeInv => NoLostWakeup
  BY DEF WakeInv, SomeoneSleeps, NoLostWakeup
<1>3. (IInv /\ RecordsInv /\ HooksInv /\ EndsInv) /\ WakeInv /\ [Next]_vars => WakeInv'
  BY WakesInductive
<1>. QED BY <1>1, <1>2, <1>3, EndsAlways, PTL DEF Spec

=============================================================================
