------------------------------ MODULE JobEngine ------------------------------
(***************************************************************************)
(* The job engine of src/src/jobs/job_engine.{h,cpp}: one mutex, one       *)
(* condition variable that everybody sleeps on and everybody notifies with *)
(* notify_all, a queue per priority, a queue of exclusive jobs, and a pool *)
(* of detached worker threads.                                             *)
(*                                                                         *)
(* One action is one critical section of the mutex, or one call made       *)
(* outside of it: a cancel hook, a terminal notification, a notify_all.    *)
(* What a call still owes after it released the mutex is kept in submitPc, *)
(* cancelPc, the shutdown variables and the pc of the worker, so that any  *)
(* other actor may step in between.                                        *)
(***************************************************************************)
EXTENDS Integers, FiniteSets, Sequences, SequencesExt

CONSTANTS
  Jobs,                \* job ids, never used twice
  NoJob,               \* no job
  Exclusive,           \* jobs whose request.exclusive is set
  Priority,            \* request.priority, the lowest value is picked first
  Parent,              \* the job whose body submits this one, NoJob: an outside caller
  Awaiting,            \* jobs whose body blocks until the jobs it submitted are over
  Callable,            \* jobs submitted with an executor of their own ...
  Hooked,              \* ... and those of them that also bring a cancel hook
  Unknown,             \* jobs whose algorithm id resolves to nothing
  Budgeted,            \* jobs with request.timeoutMs > 0
  Awaited,             \* jobs somebody calls waitForJob() on, without a timeout
  Prunable,            \* jobs whose records somebody removes
  PoolSizes,           \* the sizes setMaxWorkers() is called with
  MinWorkers,          \* kMinWorkers
  MaxWorkersOverride,  \* kMaxWorkersOverride
  MaxTransient         \* kMaxTransientWorkers

ASSUME JobsAssumption ==
  /\ IsFiniteSet(Jobs)
  /\ NoJob \notin Jobs
  /\ Exclusive \subseteq Jobs /\ Awaiting \subseteq Jobs /\ Budgeted \subseteq Jobs
  /\ Awaited \subseteq Jobs /\ Prunable \subseteq Jobs
  /\ Hooked \subseteq Callable /\ Callable \subseteq Jobs
  /\ Unknown \subseteq Jobs \ Callable
  /\ Priority \in [Jobs -> Int]
  /\ Parent \in [Jobs -> Jobs \cup {NoJob}]

ASSUME PoolAssumption ==
  /\ MinWorkers \in Nat \ {0}
  /\ MaxWorkersOverride \in Nat /\ MinWorkers <= MaxWorkersOverride
  /\ MaxTransient \in Nat
  /\ PoolSizes \subseteq Int

(* m_workers only grows, one thread at a time, up to the largest           *)
(* m_maxWorkers + m_transientAllowance: thread t is its t-th element.      *)
Threads == 1 .. MaxWorkersOverride + MaxTransient

Terminal == {"Succeeded", "Failed", "Cancelled"}
JobStates == {"Absent", "Queued", "Running", "Pruned"} \cup Terminal

VARIABLES
  state,             \* JobState of the record; Absent: no record yet, Pruned: none any more
  queue,             \* m_queueBuckets read in its order: by priority, FIFO within one
  exclusiveQueue,    \* m_exclusiveQueue
  queuedCount,       \* m_queuedCount
  running,           \* m_running
  exclusiveRunning,  \* m_exclusiveRunning
  allowance,         \* m_transientAllowance
  backed,            \* m_transientBacked
  maxWorkers,        \* m_maxWorkers
  terminated,        \* m_terminated, which m_stop and m_generation follow
  cancelFlag,        \* m_cancelFlags: no entry, an entry that is clear, or set
  body,              \* m_jobBodies: no entry, an executor, or one with its hook
  deadlines,         \* keys of m_jobDeadlines
  watchdog,          \* the job whose budget elapsed and that the watchdog is cancelling
  pc,                \* where each worker thread is
  cur,               \* the job it picked
  outcome,           \* the TerminalOutcome it computed, before it takes the mutex again
  submitPc,          \* what submitWithId() of this job still owes
  cancelPc,          \* what the cancel() that took effect on this job still owes
  shutdownPc,        \* where shutdown() is
  shutdownHooks,     \* hooks shutdown() took and has not called yet
  shutdownNotes,     \* cancelled records it has not notified yet
  wait,              \* the caller of waitForJob() on this job
  asked,             \* history: cancellation was accepted while the job ran
  hookRuns,          \* history: how often the hook of the job was called
  told               \* history: how often the listener heard that the job is over

queueVars == <<queue, exclusiveQueue, queuedCount>>
poolVars == <<running, exclusiveRunning, allowance, backed>>
recordVars == <<cancelFlag, body, deadlines>>
threadVars == <<pc, cur, outcome>>
callVars == <<submitPc, cancelPc>>
shutdownVars == <<terminated, shutdownPc, shutdownHooks, shutdownNotes>>
history == <<asked, hookRuns, told>>
vars == <<state, queueVars, poolVars, maxWorkers, recordVars, watchdog,
          threadVars, callVars, shutdownVars, wait, history>>

Init ==
  /\ state = [j \in Jobs |-> "Absent"]
  /\ queue = <<>> /\ exclusiveQueue = <<>> /\ queuedCount = 0
  /\ running = 0 /\ exclusiveRunning = FALSE
  /\ allowance = 0 /\ backed = {}
  /\ maxWorkers = MinWorkers
  /\ cancelFlag = [j \in Jobs |-> "none"]
  /\ body = [j \in Jobs |-> "none"]
  /\ deadlines = {} /\ watchdog = NoJob
  /\ pc = [t \in Threads |-> "unspawned"]
  /\ cur = [t \in Threads |-> NoJob]
  /\ outcome = [t \in Threads |-> "none"]
  /\ submitPc = [j \in Jobs |-> "none"]
  /\ cancelPc = [j \in Jobs |-> "none"]
  /\ terminated = FALSE /\ shutdownPc = "none"
  /\ shutdownHooks = {} /\ shutdownNotes = {}
  /\ wait = [j \in Jobs |-> "none"]
  /\ asked = {}
  /\ hookRuns = [j \in Jobs |-> 0]
  /\ told = [j \in Jobs |-> 0]

InState(s) == {j \in Jobs : state[j] = s}
Queued == InState("Queued")
Running == InState("Running")
Active == Queued \cup Running

-----------------------------------------------------------------------------
(* Helpers that run under the mutex.                                       *)

(* m_cv.notify_all(): every sleeper has to look again.                     *)
NotifyAll(threads) == [t \in Threads |-> IF threads[t] = "asleep" THEN "ready" ELSE threads[t]]
WakeWaiters == wait' = [j \in Jobs |-> IF wait[j] = "asleep" THEN "ready" ELSE wait[j]]

(* The pool grows to n workers, never shrinks, and stays as it is once the *)
(* engine is terminated.                                                   *)
BugEnsureWorkers(n) == [t \in Threads |-> IF t <= n /\ pc[t] = "unspawned" THEN "ready" ELSE pc[t]]
EnsureWorkers(n) ==
  [t \in Threads |-> IF ~terminated /\ t <= n /\ pc[t] = "unspawned" THEN "ready" ELSE pc[t]]

(* An exclusive job goes to the exclusive FIFO, another one behind the     *)
(* last queued job that is at least as urgent.                             *)
Ahead(j) == {i \in DOMAIN queue : Priority[queue[i]] <= Priority[j]}

EnqueueJob(j) ==
  /\ IF j \in Exclusive
       THEN exclusiveQueue' = Append(exclusiveQueue, j) /\ UNCHANGED queue
       ELSE queue' = InsertAt(queue, Cardinality(Ahead(j)) + 1, j) /\ UNCHANGED exclusiveQueue
  /\ queuedCount' = queuedCount + 1

(* dequeueJobLocked() searches the one queue the job belongs to and        *)
(* changes nothing if it is not in there.                                  *)
BugDequeueJob(j) ==
  /\ queue' = RemoveFirst(queue, j)
  /\ queuedCount' = queuedCount - 1
  /\ UNCHANGED exclusiveQueue

DequeueJob(j) ==
  LET mine == IF j \in Exclusive THEN exclusiveQueue ELSE queue
  IN /\ queue' = IF j \in Exclusive THEN queue ELSE RemoveFirst(queue, j)
     /\ exclusiveQueue' = IF j \in Exclusive THEN RemoveFirst(exclusiveQueue, j) ELSE exclusiveQueue
     /\ queuedCount' = IF j \in ToSet(mine) THEN queuedCount - 1 ELSE queuedCount

(* A job submitted on a worker thread brings +1 capacity, up to a bound,   *)
(* and takes it along when it goes.                                        *)
BugIsBacked(j) == FALSE
IsBacked(j) == Parent[j] # NoJob /\ allowance < MaxTransient

BugReleaseTransient(j) == UNCHANGED <<backed, allowance>>
ReleaseTransient(j) ==
  /\ backed' = backed \ {j}
  /\ allowance' = IF j \in backed /\ allowance > 0 THEN allowance - 1 ELSE allowance

-----------------------------------------------------------------------------
(* submitWithId(), called by an outsider or from the body of the parent.   *)

Caller(j) ==
  \/ Parent[j] = NoJob
  \/ \E t \in Threads : pc[t] = "body" /\ cur[t] = Parent[j]

SubmitWithId(j) ==
  LET raised == IF IsBacked(j) THEN allowance + 1 ELSE allowance
  IN /\ state[j] = "Absent"
     /\ Caller(j)
     /\ IF terminated
          THEN /\ state' = [state EXCEPT ![j] = "Cancelled"]
               /\ submitPc' = [submitPc EXCEPT ![j] = "refused"]
               /\ UNCHANGED <<queueVars, allowance, backed, body, pc>>
          ELSE /\ state' = [state EXCEPT ![j] = "Queued"]
               /\ submitPc' = [submitPc EXCEPT ![j] = "wake"]
               /\ body' = [body EXCEPT ![j] = IF j \in Hooked THEN "hook"
                                              ELSE IF j \in Callable THEN "executor" ELSE "none"]
               /\ EnqueueJob(j)
               /\ allowance' = raised
               /\ backed' = IF IsBacked(j) THEN backed \cup {j} ELSE backed
               /\ pc' = EnsureWorkers(maxWorkers + raised)
     /\ UNCHANGED <<running, exclusiveRunning, maxWorkers, cancelFlag, deadlines, watchdog,
                    cur, outcome, cancelPc, shutdownVars, wait, history>>

(* notify_all, and notify() of the record the engine refused.              *)
BugSubmitWakes(j) ==
  /\ submitPc[j] \in {"wake", "refused"}
  /\ submitPc' = [submitPc EXCEPT ![j] = IF @ = "refused" THEN "note" ELSE "none"]
  /\ UNCHANGED <<state, queueVars, poolVars, maxWorkers, recordVars, watchdog, pc, wait,
                 cur, outcome, cancelPc, shutdownVars, history>>

SubmitWakes(j) ==
  /\ submitPc[j] \in {"wake", "refused"}
  /\ submitPc' = [submitPc EXCEPT ![j] = IF @ = "refused" THEN "note" ELSE "none"]
  /\ pc' = NotifyAll(pc)
  /\ WakeWaiters
  /\ UNCHANGED <<state, queueVars, poolVars, maxWorkers, recordVars, watchdog,
                 cur, outcome, cancelPc, shutdownVars, history>>

SubmitNotes(j) ==
  /\ submitPc[j] = "note"
  /\ submitPc' = [submitPc EXCEPT ![j] = "none"]
  /\ told' = [told EXCEPT ![j] = @ + 1]
  /\ UNCHANGED <<state, queueVars, poolVars, maxWorkers, recordVars, watchdog,
                 threadVars, cancelPc, shutdownVars, wait, asked, hookRuns>>

-----------------------------------------------------------------------------
(* cancel(): a queued job is over at once; a running one gets its flag set *)
(* and loses its hook to this call.                                        *)

CancelQueued(j) ==
  /\ state[j] = "Queued"
  /\ DequeueJob(j)
  /\ state' = [state EXCEPT ![j] = "Cancelled"]
  /\ cancelPc' = [cancelPc EXCEPT ![j] = IF body[j] = "hook" THEN "hookThenWake" ELSE "wake"]
  /\ body' = [body EXCEPT ![j] = "none"]
  /\ cancelFlag' = [cancelFlag EXCEPT ![j] = "none"]
  /\ ReleaseTransient(j)
  /\ UNCHANGED <<running, exclusiveRunning, deadlines, asked>>

BugTakeHook(j) ==
  /\ cancelPc' = [cancelPc EXCEPT ![j] = IF body[j] = "hook" THEN "hook" ELSE @]
  /\ UNCHANGED body

TakeHook(j) ==
  /\ cancelPc' = [cancelPc EXCEPT ![j] = IF body[j] = "hook" THEN "hook" ELSE @]
  /\ body' = [body EXCEPT ![j] = IF @ = "hook" THEN "executor" ELSE @]

BugCancelRunning(j) ==
  /\ state[j] = "Running"
  /\ state' = [state EXCEPT ![j] = "Cancelled"]
  /\ cancelFlag' = [cancelFlag EXCEPT ![j] = "set"]
  /\ asked' = asked \cup {j}
  /\ TakeHook(j)
  /\ UNCHANGED <<queueVars, poolVars, deadlines>>

CancelRunning(j) ==
  /\ state[j] = "Running"
  /\ cancelFlag' = [cancelFlag EXCEPT ![j] = "set"]
  /\ asked' = asked \cup {j}
  /\ TakeHook(j)
  /\ UNCHANGED <<state, queueVars, poolVars, deadlines>>

CancelLocked(j) == CancelQueued(j) \/ CancelRunning(j)

Cancel(j) ==
  /\ CancelLocked(j)
  /\ UNCHANGED <<maxWorkers, watchdog, threadVars, submitPc, shutdownVars, wait, hookRuns, told>>

BugAfterHook(step) == "none"
AfterHook(step) == IF step = "hook" THEN "none" ELSE "wake"

CancelRunsHook(j) ==
  /\ cancelPc[j] \in {"hook", "hookThenWake"}
  /\ hookRuns' = [hookRuns EXCEPT ![j] = @ + 1]
  /\ cancelPc' = [cancelPc EXCEPT ![j] = AfterHook(@)]
  /\ UNCHANGED <<state, queueVars, poolVars, maxWorkers, recordVars, watchdog,
                 threadVars, submitPc, shutdownVars, wait, asked, told>>

CancelWakes(j) ==
  /\ cancelPc[j] = "wake"
  /\ cancelPc' = [cancelPc EXCEPT ![j] = "note"]
  /\ pc' = NotifyAll(pc)
  /\ WakeWaiters
  /\ UNCHANGED <<state, queueVars, poolVars, maxWorkers, recordVars, watchdog,
                 cur, outcome, submitPc, shutdownVars, history>>

CancelNotes(j) ==
  /\ cancelPc[j] = "note"
  /\ cancelPc' = [cancelPc EXCEPT ![j] = "none"]
  /\ told' = [told EXCEPT ![j] = @ + 1]
  /\ UNCHANGED <<state, queueVars, poolVars, maxWorkers, recordVars, watchdog,
                 threadVars, submitPc, shutdownVars, wait, asked, hookRuns>>

(* The watchdog takes a deadline that passed out of the map and calls      *)
(* cancel() after it released the mutex. Which deadlines have passed is    *)
(* the subject of JobWatchdog.tla; here any armed one may.                 *)
WatchdogPops(j) ==
  /\ watchdog = NoJob
  /\ j \in deadlines
  /\ watchdog' = j
  /\ deadlines' = deadlines \ {j}
  /\ UNCHANGED <<state, queueVars, poolVars, maxWorkers, cancelFlag, body,
                 threadVars, callVars, shutdownVars, wait, history>>

WatchdogCancels ==
  /\ watchdog # NoJob
  /\ watchdog' = NoJob
  /\ IF state[watchdog] \in {"Queued", "Running"}
       THEN CancelLocked(watchdog)
       ELSE UNCHANGED <<state, queueVars, poolVars, recordVars, cancelPc, asked>>
  /\ UNCHANGED <<maxWorkers, threadVars, submitPc, shutdownVars, wait, hookRuns, told>>

-----------------------------------------------------------------------------
(* workerLoop() and runOperatorJob().                                      *)

(* tryPickJobLocked() takes the exclusive job whose turn it is, if nothing *)
(* runs. (Its loops drop queue entries whose job is not queued any more;   *)
(* QueueMatchesRecords says that there are none, so a scan takes the head.) *)
BugPickExclusive(j) ==
  /\ exclusiveQueue # <<>>
  /\ j = Head(exclusiveQueue)
  /\ exclusiveQueue' = Tail(exclusiveQueue)
  /\ exclusiveRunning' = TRUE
  /\ UNCHANGED queue

PickExclusive(j) ==
  /\ exclusiveQueue # <<>> /\ running = 0
  /\ j = Head(exclusiveQueue)
  /\ exclusiveQueue' = Tail(exclusiveQueue)
  /\ exclusiveRunning' = TRUE
  /\ UNCHANGED queue

(* If no exclusive job waits it takes the most urgent other one, if there  *)
(* is room.                                                                *)
BugPickByPriority(j) ==
  /\ running < maxWorkers + allowance
  /\ queue # <<>>
  /\ j = Head(queue)
  /\ queue' = Tail(queue)
  /\ exclusiveRunning' = (j \in Exclusive)
  /\ UNCHANGED exclusiveQueue

PickByPriority(j) ==
  /\ exclusiveQueue = <<>>
  /\ running < maxWorkers + allowance
  /\ queue # <<>>
  /\ j = Head(queue)
  /\ queue' = Tail(queue)
  /\ exclusiveRunning' = (j \in Exclusive)
  /\ UNCHANGED exclusiveQueue

NothingToPick ==
  \/ queuedCount = 0
  \/ exclusiveRunning
  \/ exclusiveQueue # <<>> /\ running > 0
  \/ exclusiveQueue = <<>> /\ (running >= maxWorkers + allowance \/ queue = <<>>)

TryPickJob(j) ==
  /\ queuedCount > 0 /\ ~exclusiveRunning
  /\ PickExclusive(j) \/ PickByPriority(j)
  /\ state' = [state EXCEPT ![j] = "Running"]
  /\ queuedCount' = queuedCount - 1
  /\ running' = running + 1

WorkerPicks(t) ==
  /\ pc[t] = "ready" /\ ~terminated
  /\ \E j \in Jobs : /\ TryPickJob(j)
                     /\ cur' = [cur EXCEPT ![t] = j]
  /\ pc' = [pc EXCEPT ![t] = "picked"]
  /\ UNCHANGED <<allowance, backed, maxWorkers, recordVars, watchdog, outcome,
                 callVars, shutdownVars, wait, history>>

WorkerSleeps(t) ==
  /\ pc[t] = "ready" /\ ~terminated
  /\ NothingToPick
  /\ pc' = [pc EXCEPT ![t] = "asleep"]
  /\ UNCHANGED <<state, queueVars, poolVars, maxWorkers, recordVars, watchdog,
                 cur, outcome, callVars, shutdownVars, wait, history>>

WorkerExits(t) ==
  /\ pc[t] = "ready" /\ terminated
  /\ pc' = [NotifyAll(pc) EXCEPT ![t] = "exited"]
  /\ WakeWaiters
  /\ UNCHANGED <<state, queueVars, poolVars, maxWorkers, recordVars, watchdog,
                 cur, outcome, callVars, shutdownVars, history>>

(* First section of runOperatorJob(): adopt the flag a cancel() that came  *)
(* first left, or create one, and arm the wall-clock budget.               *)
BugArmedFlag(flag) == "clear"
ArmedFlag(flag) == IF flag = "none" THEN "clear" ELSE flag

RunOperatorJob(t) ==
  LET j == cur[t]
  IN /\ pc[t] = "picked"
     /\ cancelFlag' = [cancelFlag EXCEPT ![j] = ArmedFlag(@)]
     /\ IF j \in Budgeted
          THEN /\ deadlines' = deadlines \cup {j}
               /\ pc' = [NotifyAll(pc) EXCEPT ![t] = "body"]
               /\ WakeWaiters
          ELSE /\ pc' = [pc EXCEPT ![t] = "body"]
               /\ UNCHANGED <<deadlines, wait>>
     /\ UNCHANGED <<state, queueVars, poolVars, maxWorkers, body, watchdog,
                    cur, outcome, callVars, shutdownVars, history>>

(* The body waits for the jobs it submitted if it is of the kind that      *)
(* does, and it is not in the middle of a submit.                          *)
BodyMayEnd(j) ==
  \A c \in Jobs : Parent[c] = j =>
     /\ submitPc[c] = "none"
     /\ j \in Awaiting => state[c] \notin {"Queued", "Running"}

(* The body returned a result, threw the Cancelled code, or threw anything *)
(* else; in the last case the flag decides, read here, before the mutex.   *)
BodyEnds(t) ==
  LET j == cur[t]
  IN /\ pc[t] = "body" /\ j \notin Unknown
     /\ BodyMayEnd(j)
     /\ pc' = [pc EXCEPT ![t] = "ended"]
     /\ \E end \in {"returns", "reportsCancelled", "throws"} :
          outcome' = [outcome EXCEPT ![t] =
                        CASE end = "returns" -> "Succeeded"
                          [] end = "reportsCancelled" -> "Cancelled"
                          [] end = "throws" -> IF cancelFlag[j] = "set" THEN "Cancelled" ELSE "Failed"]
     /\ UNCHANGED <<state, queueVars, poolVars, maxWorkers, recordVars, watchdog,
                    cur, callVars, shutdownVars, wait, history>>

(* No executor, no operator, no fallback: the job fails, its flag unread.  *)
UnknownAlgorithm(t) ==
  /\ pc[t] = "body" /\ cur[t] \in Unknown
  /\ pc' = [pc EXCEPT ![t] = "ended"]
  /\ outcome' = [outcome EXCEPT ![t] = "Failed"]
  /\ UNCHANGED <<state, queueVars, poolVars, maxWorkers, recordVars, watchdog,
                 cur, callVars, shutdownVars, wait, history>>

(* finishJobLocked(): the slot and everything the engine keeps per job.    *)
BugFinishJobLocked(j) ==
  /\ running' = IF running > 0 THEN running - 1 ELSE running
  /\ exclusiveRunning' = (exclusiveRunning /\ j \notin Exclusive)
  /\ ReleaseTransient(j)
  /\ body' = [body EXCEPT ![j] = "none"]
  /\ cancelFlag' = [cancelFlag EXCEPT ![j] = "none"]
  /\ UNCHANGED deadlines

FinishJobLocked(j) ==
  /\ running' = IF running > 0 THEN running - 1 ELSE running
  /\ exclusiveRunning' = (exclusiveRunning /\ j \notin Exclusive)
  /\ ReleaseTransient(j)
  /\ body' = [body EXCEPT ![j] = "none"]
  /\ cancelFlag' = [cancelFlag EXCEPT ![j] = "none"]
  /\ deadlines' = deadlines \ {j}

(* finishTerminal(): the record gets its terminal state in the same        *)
(* critical section.                                                       *)
FinishTerminal(t) ==
  /\ pc[t] = "ended"
  /\ pc' = [pc EXCEPT ![t] = "noting"]
  /\ state' = [state EXCEPT ![cur[t]] = outcome[t]]
  /\ outcome' = [outcome EXCEPT ![t] = "none"]
  /\ FinishJobLocked(cur[t])
  /\ UNCHANGED <<queueVars, maxWorkers, watchdog, cur, callVars, shutdownVars, wait, history>>

WorkerNotes(t) ==
  /\ pc[t] = "noting"
  /\ pc' = [pc EXCEPT ![t] = "waking"]
  /\ told' = [told EXCEPT ![cur[t]] = @ + 1]
  /\ UNCHANGED <<state, queueVars, poolVars, maxWorkers, recordVars, watchdog,
                 cur, outcome, callVars, shutdownVars, wait, asked, hookRuns>>

BugWorkerWakes(t) ==
  /\ pc[t] = "waking"
  /\ pc' = [pc EXCEPT ![t] = "ready"]
  /\ cur' = [cur EXCEPT ![t] = NoJob]
  /\ UNCHANGED <<state, queueVars, poolVars, maxWorkers, recordVars, watchdog, wait,
                 outcome, callVars, shutdownVars, history>>

WorkerWakes(t) ==
  /\ pc[t] = "waking"
  /\ pc' = [NotifyAll(pc) EXCEPT ![t] = "ready"]
  /\ WakeWaiters
  /\ cur' = [cur EXCEPT ![t] = NoJob]
  /\ UNCHANGED <<state, queueVars, poolVars, maxWorkers, recordVars, watchdog,
                 outcome, callVars, shutdownVars, history>>

-----------------------------------------------------------------------------
(* shutdown(): one critical section, then a notify_all, the hooks, the     *)
(* notifications and a wait for the workers that gives up at its deadline. *)

BugDrained == Active
Drained == {j \in ToSet(queue) \cup ToSet(exclusiveQueue) : state[j] = "Queued"}

Shutdown ==
  LET drained == Drained
  IN /\ ~terminated
     /\ terminated' = TRUE
     /\ shutdownPc' = "wake"
     /\ deadlines' = {}
     /\ cancelFlag' = [j \in Jobs |-> IF j \in drained THEN "none"
                                      ELSE IF state[j] = "Running" \/ cancelFlag[j] # "none" THEN "set"
                                      ELSE "none"]
     /\ asked' = asked \cup Running
     /\ shutdownHooks' = {j \in Jobs : body[j] = "hook"}
     /\ body' = [j \in Jobs |-> IF j \in drained THEN "none"
                                ELSE IF body[j] = "hook" THEN "executor" ELSE body[j]]
     /\ state' = [j \in Jobs |-> IF j \in drained THEN "Cancelled" ELSE state[j]]
     /\ shutdownNotes' = drained
     /\ queue' = <<>> /\ exclusiveQueue' = <<>> /\ queuedCount' = 0
     /\ UNCHANGED <<poolVars, maxWorkers, watchdog, threadVars, callVars, wait, hookRuns, told>>

BugShutdownWakes ==
  /\ shutdownPc = "wake"
  /\ shutdownPc' = "calls"
  /\ UNCHANGED <<state, queueVars, poolVars, maxWorkers, recordVars, watchdog, threadVars, wait,
                 callVars, terminated, shutdownHooks, shutdownNotes, history>>

ShutdownWakes ==
  /\ shutdownPc = "wake"
  /\ shutdownPc' = "calls"
  /\ pc' = NotifyAll(pc)
  /\ WakeWaiters
  /\ UNCHANGED <<state, queueVars, poolVars, maxWorkers, recordVars, watchdog, cur, outcome,
                 callVars, terminated, shutdownHooks, shutdownNotes, history>>

ShutdownRunsHook(j) ==
  /\ shutdownPc = "calls" /\ j \in shutdownHooks
  /\ shutdownHooks' = shutdownHooks \ {j}
  /\ hookRuns' = [hookRuns EXCEPT ![j] = @ + 1]
  /\ UNCHANGED <<state, queueVars, poolVars, maxWorkers, recordVars, watchdog, threadVars,
                 callVars, terminated, shutdownPc, shutdownNotes, wait, asked, told>>

ShutdownNotes(j) ==
  /\ shutdownPc = "calls" /\ shutdownHooks = {} /\ j \in shutdownNotes
  /\ shutdownNotes' = shutdownNotes \ {j}
  /\ told' = [told EXCEPT ![j] = @ + 1]
  /\ UNCHANGED <<state, queueVars, poolVars, maxWorkers, recordVars, watchdog, threadVars,
                 callVars, terminated, shutdownPc, shutdownHooks, wait, asked, hookRuns>>

(* Every worker reported its exit, or the join timeout passed.             *)
ShutdownReturns ==
  /\ shutdownPc = "calls" /\ shutdownHooks = {} /\ shutdownNotes = {}
  /\ shutdownPc' = "done"
  /\ UNCHANGED <<state, queueVars, poolVars, maxWorkers, recordVars, watchdog, threadVars,
                 callVars, terminated, shutdownHooks, shutdownNotes, wait, history>>

-----------------------------------------------------------------------------
(* The other calls.                                                        *)

BugClamped(n) == IF n < MinWorkers THEN MinWorkers ELSE n
Clamped(n) == IF n < MinWorkers THEN MinWorkers
              ELSE IF n > MaxWorkersOverride THEN MaxWorkersOverride ELSE n

SetMaxWorkers(n) ==
  /\ maxWorkers' = Clamped(n)
  /\ pc' = NotifyAll(EnsureWorkers(Clamped(n) + allowance))
  /\ WakeWaiters
  /\ UNCHANGED <<state, queueVars, poolVars, recordVars, watchdog, cur, outcome,
                 callVars, shutdownVars, history>>

(* pruneCompleted(), removeCompleted() and clearCompleted().               *)
Prune(S) ==
  /\ S # {} /\ \A j \in S : state[j] \in Terminal
  /\ state' = [j \in Jobs |-> IF j \in S THEN "Pruned" ELSE state[j]]
  /\ UNCHANGED <<queueVars, poolVars, maxWorkers, recordVars, watchdog, threadVars,
                 callVars, shutdownVars, wait, history>>

(* waitForJob() of one outside caller per job.                             *)
WaitForJob(j) ==
  /\ j \in Awaited /\ wait[j] = "none" /\ state[j] \notin {"Absent", "Pruned"}
  /\ wait' = [wait EXCEPT ![j] = IF state[j] \in Terminal THEN "true" ELSE "asleep"]
  /\ UNCHANGED <<state, queueVars, poolVars, maxWorkers, recordVars, watchdog, threadVars,
                 callVars, shutdownVars, history>>

(* Woken, it looks again: a record that is gone counts as finished but is  *)
(* answered false.                                                         *)
WaiterLooks(j) ==
  /\ wait[j] = "ready"
  /\ wait' = [wait EXCEPT ![j] = CASE state[j] \in Terminal -> "true"
                                   [] state[j] = "Pruned" -> "false"
                                   [] OTHER -> "asleep"]
  /\ UNCHANGED <<state, queueVars, poolVars, maxWorkers, recordVars, watchdog, threadVars,
                 callVars, shutdownVars, history>>

-----------------------------------------------------------------------------
WorkerStep(t) ==
  \/ WorkerPicks(t) \/ WorkerSleeps(t) \/ WorkerExits(t)
  \/ RunOperatorJob(t) \/ BodyEnds(t) \/ UnknownAlgorithm(t)
  \/ FinishTerminal(t) \/ WorkerNotes(t) \/ WorkerWakes(t)

CallStep(j) ==
  \/ SubmitWakes(j) \/ SubmitNotes(j)
  \/ CancelRunsHook(j) \/ CancelWakes(j) \/ CancelNotes(j)
  \/ WaiterLooks(j)

ShutdownStep ==
  \/ ShutdownWakes \/ ShutdownReturns
  \/ \E j \in Jobs : ShutdownRunsHook(j) \/ ShutdownNotes(j)

Request ==
  \/ \E j \in Jobs : SubmitWithId(j) \/ Cancel(j) \/ WaitForJob(j) \/ WatchdogPops(j)
  \/ \E S \in SUBSET Prunable : Prune(S)
  \/ \E n \in PoolSizes : SetMaxWorkers(n)
  \/ Shutdown

Next ==
  \/ \E t \in Threads : WorkerStep(t)
  \/ \E j \in Jobs : CallStep(j)
  \/ ShutdownStep
  \/ WatchdogCancels
  \/ Request

(* A thread that can step does so, and so does a call that was made: the   *)
(* bodies end, the hooks and the listener return. Nobody has to call       *)
(* anything, and no budget has to elapse.                                  *)
Fairness ==
  /\ \A t \in Threads : WF_vars(WorkerStep(t))
  /\ \A j \in Jobs : WF_vars(CallStep(j))
  /\ WF_vars(ShutdownStep)
  /\ WF_vars(WatchdogCancels)

Spec == Init /\ [][Next]_vars
FairSpec == Spec /\ Fairness

-----------------------------------------------------------------------------
(* Correctness.                                                            *)

TypeOK ==
  /\ state \in [Jobs -> JobStates]
  /\ queue \in Seq(Jobs) /\ exclusiveQueue \in Seq(Jobs) /\ queuedCount \in Int
  /\ running \in Nat /\ exclusiveRunning \in BOOLEAN
  /\ allowance \in 0 .. MaxTransient /\ backed \subseteq Jobs
  /\ maxWorkers \in MinWorkers .. MaxWorkersOverride
  /\ cancelFlag \in [Jobs -> {"none", "clear", "set"}]
  /\ body \in [Jobs -> {"none", "executor", "hook"}]
  /\ deadlines \subseteq Jobs /\ watchdog \in Jobs \cup {NoJob}
  /\ pc \in [Threads -> {"unspawned", "ready", "asleep", "picked", "body", "ended",
                         "noting", "waking", "exited"}]
  /\ cur \in [Threads -> Jobs \cup {NoJob}]
  /\ outcome \in [Threads -> Terminal \cup {"none"}]
  /\ \A t \in Threads : /\ pc[t] \in {"picked", "body", "ended", "noting", "waking"} => cur[t] \in Jobs
                        /\ pc[t] = "ended" => outcome[t] \in Terminal
  /\ submitPc \in [Jobs -> {"none", "wake", "refused", "note"}]
  /\ cancelPc \in [Jobs -> {"none", "hook", "hookThenWake", "wake", "note"}]
  /\ terminated \in BOOLEAN
  /\ shutdownPc \in {"none", "wake", "calls", "done"}
  /\ shutdownHooks \subseteq Jobs /\ shutdownNotes \subseteq Jobs
  /\ wait \in [Jobs -> {"none", "asleep", "ready", "true", "false"}]
  /\ asked \subseteq Jobs
  /\ hookRuns \in [Jobs -> Nat] /\ told \in [Jobs -> Nat]

Executing(t) == pc[t] \in {"picked", "body", "ended"}

(* An exclusive job never shares the engine with another running job,      *)
(* however picks, finishes, cancels and resizes interleave.                *)
ExclusiveAlone == \A j \in Running \cap Exclusive : Running = {j}

(* Every running record is on exactly one worker and m_running counts the  *)
(* running records, so no slot of the pool is lost or used twice.          *)
SlotsMatchRecords ==
  /\ running = Cardinality(Running)
  /\ \A t \in Threads : Executing(t) => cur[t] \in Running
  /\ \A j \in Running : \E t \in Threads : Executing(t) /\ cur[t] = j
  /\ \A t, u \in Threads : Executing(t) /\ Executing(u) /\ cur[t] = cur[u] => t = u

(* The two queues hold every queued record once, in the order in which     *)
(* they are to be picked, and nothing else, and m_queuedCount is their     *)
(* length: the count a worker tests never hides a job nor invents one.     *)
QueueMatchesRecords ==
  /\ ToSet(queue) = Queued \ Exclusive
  /\ ToSet(exclusiveQueue) = Queued \cap Exclusive
  /\ queuedCount = Len(queue) + Len(exclusiveQueue)
  /\ queuedCount = Cardinality(Queued)
  /\ \A i, k \in DOMAIN queue : i < k => Priority[queue[i]] <= Priority[queue[k]]

(* While the engine is open every unit of transient capacity belongs to    *)
(* one nested job that is still queued or running: a job that finishes or  *)
(* is cancelled takes its unit along (#798).                               *)
TransientBalanced ==
  ~terminated => /\ backed \subseteq Active
                 /\ allowance = Cardinality(backed)

(* A cancel() that was accepted while the job ran is seen by the body,     *)
(* also when it came between the pick and the first section of             *)
(* runOperatorJob(), or from shutdown() or the watchdog; and no running    *)
(* job finds its flag set that nobody asked to stop.                       *)
CancelNotLost == \A j \in Running : j \in asked <=> cancelFlag[j] = "set"

(* A job that is over, or not yet there, owns no flag, no body and no      *)
(* deadline in the maps of the engine.                                     *)
NothingLeftBehind ==
  \A j \in Jobs \ Active : cancelFlag[j] = "none" /\ body[j] = "none" /\ j \notin deadlines

(* cancel(), the watchdog and shutdown() may all reach for the hook of one *)
(* job; it is called at most once, and only if one of them took the job.   *)
HookOnce ==
  \A j \in Jobs :
    /\ hookRuns[j] + (IF body[j] = "hook" THEN 1 ELSE 0)
         + (IF cancelPc[j] \in {"hook", "hookThenWake"} THEN 1 ELSE 0)
         + (IF j \in shutdownHooks THEN 1 ELSE 0) <= 1
    /\ hookRuns[j] > 0 => j \in asked \/ state[j] \in {"Cancelled", "Pruned"}

(* The listener hears at most once that a job is over, and never before    *)
(* the record says so: whoever ends the job is the one that notifies.      *)
ToldOnce == \A j \in Jobs : told[j] <= 1 /\ (told[j] = 1 => state[j] \in Terminal \cup {"Pruned"})

(* A terminated engine brings no worker thread to life again (#684).       *)
NoResurrection ==
  [][terminated => \A t \in Threads : pc[t] = "unspawned" => pc'[t] = "unspawned"]_vars

(* What the engine promises its callers: the behaviour of JobLifecycle.    *)
Lifecycle == INSTANCE JobLifecycle WITH Capacity <- MaxWorkersOverride + MaxTransient
ImplementsLifecycle == Lifecycle!LifecycleSpec

(* No wakeup is lost, although every notify_all comes some steps after the *)
(* critical section it belongs to: while a worker sleeps and a job could   *)
(* be picked, somebody is awake to pick it or still owes the notify_all; a *)
(* worker that sleeps in a terminated engine, and a waiter whose job is    *)
(* over, are still to be notified.                                         *)
WakeupOwed ==
  \/ \E j \in Jobs : submitPc[j] = "wake" \/ cancelPc[j] \in {"hookThenWake", "wake"}
  \/ \E t \in Threads : pc[t] \in {"noting", "waking"}
  \/ shutdownPc = "wake"

NoLostWakeup ==
  /\ (\E t \in Threads : pc[t] = "asleep") /\ ~NothingToPick =>
       WakeupOwed \/ \E t \in Threads : pc[t] = "ready"
  /\ terminated => shutdownPc = "wake" \/ \A t \in Threads : pc[t] # "asleep"
  /\ \A j \in Jobs : wait[j] = "asleep" /\ state[j] \in Terminal => WakeupOwed

(* A body that submits a job and blocks on it never deadlocks the pool     *)
(* (#798): the nested job always comes to its end.                         *)
NestedJobsEnd ==
  \A j \in Jobs : Parent[j] # NoJob /\ state[j] = "Queued" ~> state[j] \in Terminal \cup {"Pruned"}

(* The end of every job is reported, whoever brought it about.             *)
EndIsReported == \A j \in Jobs : state[j] \in Terminal ~> told[j] = 1

(* waitForJob() returns: the wakeup that goes with the end of the job is   *)
(* not lost, although hooks and the listener run between the two.          *)
WaitersReturn == \A j \in Jobs : wait[j] = "asleep" ~> wait[j] \in {"true", "false"}

(* After shutdown() every worker leaves.                                   *)
PoolDrains == terminated ~> \A t \in Threads : pc[t] \in {"unspawned", "exited"}

=============================================================================
