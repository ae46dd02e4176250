----------------------------- MODULE TaskCenter -----------------------------
(***************************************************************************)
(* The life of the tasks of src/src/processing/framework/task_center.cpp:  *)
(* admission, launching, job records, cancellation, the cancel watchdog,   *)
(* auto-retry, structured ownership, completion callbacks and shutdown.    *)
(*                                                                         *)
(* TaskCenter changes its maps under one mutex and calls the engine, the   *)
(* listeners and the callbacks outside of it. One action is one critical   *)
(* section, or one call made outside. What a thread still has to do before *)
(* the call it is in returns is the sequence todo[thread], its head first: *)
(* any other thread may step in between two of them. The engine appears as *)
(* the state of its jobs; JobEngine.tla is its model.                      *)
(*                                                                         *)
(* A task starts as a step of one pipeline, as a submitJob() of an outside *)
(* caller or of the body of another task, or as a retryTask() of a task    *)
(* that is over. The n-th attempt to run task t is the job <<t, n>>: the   *)
(* task a job belongs to is what its id and its clientTag say.             *)
(***************************************************************************)
EXTENDS Integers, FiniteSets, Sequences, SequencesExt

CONSTANTS
  Tasks,             \* task ids
  NoTask, NoJob,     \* no task, no job
  Pipelines,         \* the pipelines that may be submitted: the parents of each step
  Singles,           \* tasks that an outside caller submits
  Submitter,         \* the task whose body submits this one, NoTask: nobody's
  RetryOf,           \* the task this one is the retry of, NoTask: none
  Cancellable,       \* tasks that somebody cancels
  Watched,           \* tasks that somebody wants to be told the end of
  Flaky,             \* tasks whose worker process may crash: transient errors
  Unresolved,        \* tasks whose placeholders may not resolve
  Pressure,          \* the memory pressure a pass may find, a subset of BOOLEAN
  Callers,           \* threads that call TaskCenter from outside
  Watchdog,          \* the thread of watchdogMain()
  GlobalMax,         \* the global concurrency limit
  MaxTransient,      \* kMaxTransientChildren
  MaxAutoRetries,    \* m_maxAutoRetries
  MayShutDown        \* whether shutdown() is called

ASSUME TasksAssumption ==
  /\ IsFiniteSet(Tasks) /\ NoTask \notin Tasks
  /\ Singles \cup Cancellable \cup Watched \cup Flaky \cup Unresolved \subseteq Tasks
  /\ \A g \in Pipelines : DOMAIN g \subseteq Tasks /\ g \in [DOMAIN g -> SUBSET DOMAIN g]
  /\ Submitter \in [Tasks -> Tasks \cup {NoTask}]
  /\ RetryOf \in [Tasks -> Tasks \cup {NoTask}]
  /\ Pressure \in (SUBSET BOOLEAN) \ {{}}
  /\ GlobalMax \in Nat \ {0} /\ MaxTransient \in Nat /\ MaxAutoRetries \in Nat
  /\ MayShutDown \in BOOLEAN

Jobs == Tasks \X (1 .. MaxAutoRetries + 1)

ASSUME ThreadsAssumption ==
  /\ NoJob \notin Jobs
  /\ Watchdog \notin Callers
  /\ Jobs \cap (Callers \cup {Watchdog}) = {}

(* The thread that runs job j is called j.                                 *)
Threads == Callers \cup {Watchdog} \cup Jobs
TaskOf(j) == j[1]

Final == {"Completed", "Failed", "Canceled"}
ReadyLike == {"Queued", "WaitingResource"}
ActiveStates == {"Dispatching", "Running", "Cancelling"}
JobEnds == {"Succeeded", "Failed", "Crashed", "Cancelled"}

VARIABLES
  status,      \* TaskStatus, Absent: not in m_tasks
  auto,        \* autoDispatch: manual, auto, or armed with a request (hasJobRequest)
  parents,     \* parentTaskIds
  owner,       \* ownerTaskId
  jobId,       \* jobId
  attempts,    \* autoRetryAttempts
  missing,     \* m_incompleteParentCount
  ready,       \* the keys of m_readySerial, each with its entry in m_readyHeap
  gate,        \* how it was last launched: by a slot, or by transientBypass
  staged,      \* m_pendingLaunches
  orphans,     \* m_pendingOwnedCancels
  mapped,      \* the keys of m_taskByJobId
  callback,    \* the completion callback of the task
  down,        \* m_isShuttingDown
  rearm,       \* the timer that repeats a pass held by memory pressure runs
  todo,        \* what each thread has yet to do in the call it is in
  job,         \* the engine's jobs; Crashed: Failed with a transient error
  stop,        \* jobs whose cancel flag is set
  engineDown   \* the engine is terminated

graphVars == <<parents, owner, missing>>
admissionVars == <<ready, gate, staged, rearm>>
taskVars == <<status, auto, jobId, attempts, graphVars, admissionVars, orphans, mapped>>
engineVars == <<job, stop, engineDown>>
vars == <<taskVars, callback, down, todo, engineVars>>

Init ==
  /\ status = [t \in Tasks |-> "Absent"]
  /\ auto = [t \in Tasks |-> "manual"]
  /\ parents = [t \in Tasks |-> {}]
  /\ owner = [t \in Tasks |-> NoTask]
  /\ jobId = [t \in Tasks |-> NoJob]
  /\ attempts = [t \in Tasks |-> 0]
  /\ missing = [t \in Tasks |-> 0]
  /\ ready = {} /\ staged = {} /\ orphans = {} /\ mapped = {}
  /\ gate = [t \in Tasks |-> "none"]
  /\ callback = [t \in Tasks |-> "none"]
  /\ down = FALSE /\ rearm = FALSE
  /\ todo = [th \in Threads |-> <<>>]
  /\ job = [j \in Jobs |-> "Absent"]
  /\ stop = {} /\ engineDown = FALSE

-----------------------------------------------------------------------------
(* What a thread still has to do.                                          *)

Do(op) == [op |-> op, arg |-> NoTask, state |-> "none"]
DoFor(op, x) == [op |-> op, arg |-> x, state |-> "none"]
Record(op, j, s) == [op |-> op, arg |-> j, state |-> s]
ForEach(op, S) == SetToSeq({DoFor(op, x) : x \in S})

Idle(th) == todo[th] = <<>>
At(th, op) == todo[th] # <<>> /\ Head(todo[th]).op = op
Arg(th) == Head(todo[th]).arg
State(th) == Head(todo[th]).state

Call(th, steps) == Idle(th) /\ todo' = [todo EXCEPT ![th] = steps]
Then(th, steps) == todo' = [todo EXCEPT ![th] = steps \o Tail(@)]
Done(th) == Then(th, <<>>)

-----------------------------------------------------------------------------
(* Helpers that run under the mutex. A section computes the statuses s it  *)
(* leaves behind, and ends with an admission pass over them.               *)

Live(s, t) == s[t] \notin Final \cup {"Absent"}
Active(s) == {t \in Tasks : s[t] \in ActiveStates}
Set(t, new) == [status EXCEPT ![t] = new]
WorkerOriginated(t) == Submitter[t] # NoTask

BugParentsSatisfied(s, t) == \A p \in parents'[t] : s[p] \notin {"Failed", "Canceled"}
ParentsSatisfied(s, t) == \A p \in parents'[t] : s[p] \in {"Absent", "Completed"}
IsLaunchCandidate(s, t) ==
  s[t] \in ReadyLike /\ auto'[t] # "manual" /\ jobId'[t] = NoJob /\ ParentsSatisfied(s, t)

(* An owner that reaches a final status stages its live children for       *)
(* flushOwnedCancels().                                                    *)
BugJoin == UNCHANGED orphans
Join ==
  orphans' = orphans \cup
    {c \in Tasks : /\ Live(status, c) /\ owner[c] # NoTask
                   /\ Live(status, owner[c]) /\ status'[owner[c]] \in Final}

(* The descendants of t, along data edges to live tasks and along          *)
(* ownership edges: what every set has that takes in t's children and its  *)
(* own.                                                                    *)
Children(s, S) ==
  {c \in Tasks : owner[c] \in S \/ (Live(s, c) /\ parents[c] \cap S # {})}
ClosedBelow(s, t, S) == Children(s, {t}) \cup Children(s, S) \subseteq S
Descendants(s, t) == {c \in Tasks \ {t} : \A S \in SUBSET Tasks : ClosedBelow(s, t, S) => c \in S}

(* A target without a job is over at once, another one is Cancelling until *)
(* its job says what became of it.                                         *)
Cascade(s, targets) ==
  [t \in Tasks |-> IF t \notin targets \/ ~ Live(s, t) THEN s[t]
                   ELSE IF jobId[t] = NoJob THEN "Canceled" ELSE "Cancelling"]
JobsToCancel(s, targets) ==
  {jobId[t] : t \in {u \in Tasks : u \in targets /\ Live(s, u) /\ jobId[u] # NoJob}}
BugForgotten(s, targets) == {}
BugToldEarly(s, targets) == {t \in targets : Live(s, t)}
CanceledAtOnce(s, targets) == {t \in Tasks : t \in targets /\ Live(s, t) /\ jobId[t] = NoJob}

(* The launched candidates are Dispatching and staged, the held ones wait. *)
Launch(s, listed, candidates, through, launched, failing) ==
  /\ status' = [t \in Tasks |->
       IF t \in failing THEN "Failed"
       ELSE IF t \in launched THEN "Dispatching"
       ELSE IF t \in candidates THEN "WaitingResource"
       ELSE IF t \in listed THEN "Queued" ELSE s[t]]
  /\ gate' = [t \in Tasks |-> IF t \in launched \cap through THEN "transient"
                           ELSE IF t \in launched THEN "slot" ELSE gate[t]]
  /\ staged' = staged \cup {<<t, attempts'[t] + 1>> : t \in launched}
  /\ ready' = candidates \ (launched \cup failing)

(* processNextQueuedTasks(): a candidate that a worker submitted passes    *)
(* every gate while MaxTransient allows; the others need a global slot, no *)
(* memory pressure, and the gates of profile, isolation, memory budget,    *)
(* dimensions and I/O, which hold a candidate only while something else is *)
(* active: which of them they hold, and in which order the heap yields the *)
(* candidates, is left open. One with a placeholder that does not resolve  *)
(* fails instead. (The candidates that a bounded pass does not get to keep *)
(* Queued, which nothing tells from WaitingResource.)                      *)
PassBefore(timers, s, queued) ==
  LET listed == {t \in queued : s[t] \in ReadyLike}
      candidates == {t \in listed : IsLaunchCandidate(s, t)}
      active == Active(s)
      room == MaxTransient - Cardinality({t \in active : gate[t] = "transient"})
      transient == {t \in candidates : WorkerOriginated(t)}
  IN IF down
     THEN status' = s /\ ready' = listed /\ rearm' = timers /\ UNCHANGED <<gate, staged>>
     ELSE \E high \in Pressure, through \in SUBSET transient, normal \in SUBSET candidates :
       \E failing \in SUBSET ((through \cup normal) \cap Unresolved) :
       LET launched == (through \cup normal) \ failing
           held == candidates \ (launched \cup failing)
       IN /\ through \cap normal = {}
          /\ Cardinality(through \ failing) <= room
          /\ through = transient \/ Cardinality(through \ failing) = room
          /\ normal # {} => ~ high /\ Cardinality(active \cup (normal \ failing)) <= GlobalMax
                           /\ Cardinality(active) < GlobalMax
          /\ active = {} /\ ~ high => held = {} \/ launched # {}
          /\ Launch(s, listed, candidates, through, launched, failing)
          /\ rearm' = (timers \/ (high /\ held # {} /\ active \cup launched = {}))

Pass(s, queued) == PassBefore(rearm, s, queued) /\ Join

Flush == <<Do("flush"), Do("signals")>>

-----------------------------------------------------------------------------
(* Submission.                                                             *)

(* registerParentLinksLocked() for the tasks that enter the map.           *)
Missing(s, above) == Cardinality({p \in above : s[p] \notin {"Absent", "Completed"}})

BugRefuses == FALSE
Refuses == down

(* Neither in m_tasks nor about to be put there by a call that was made:   *)
(* ids are given out once.                                                 *)
Fresh(t) ==
  /\ status[t] = "Absent"
  /\ \A th \in Callers : /\ At(th, "resubmit") => Arg(th) # t
                         /\ At(th, "enterPipeline") => t \notin DOMAIN Arg(th)

(* submitPipeline() looks at m_isShuttingDown before it takes the mutex,   *)
(* and not again.                                                          *)
SubmitPipeline(u, g) ==
  /\ ~ Refuses /\ \A t \in DOMAIN g : Fresh(t)
  /\ Call(u, <<DoFor("enterPipeline", g)>>)
  /\ UNCHANGED <<taskVars, callback, down, engineVars>>

EnterPipeline(u) ==
  LET g == Arg(u)
      steps == DOMAIN g
      s == [t \in Tasks |-> IF t \in steps THEN "Queued" ELSE status[t]]
  IN /\ At(u, "enterPipeline")
     /\ auto' = [t \in Tasks |-> IF t \in steps THEN "auto" ELSE auto[t]]
     /\ parents' = [t \in Tasks |-> IF t \in steps THEN g[t] ELSE parents[t]]
     /\ missing' = [t \in Tasks |-> IF t \in steps THEN Missing(s, g[t]) ELSE missing[t]]
     /\ UNCHANGED <<owner, jobId, attempts>>
     /\ Pass(s, ready \cup {t \in steps : IsLaunchCandidate(s, t)})
     /\ Then(u, Flush)
     /\ UNCHANGED <<mapped, callback, down, engineVars>>

(* enqueueTask(), with autoDispatch or (submitJobImpl()) armed in a section *)
(* to come. A submission on a worker thread is owned by the task the job   *)
(* of that thread is mapped to.                                            *)
Enqueue(th, t, how) ==
  LET s == Set(t, "Queued")
  IN /\ ~ Refuses
     /\ auto' = [auto EXCEPT ![t] = how]
     /\ owner' = [owner EXCEPT ![t] = IF th \in mapped THEN TaskOf(th) ELSE NoTask]
     /\ missing' = [missing EXCEPT ![t] = Missing(s, parents[t])]
     /\ UNCHANGED <<parents, jobId, attempts>>
     /\ Pass(s, IF IsLaunchCandidate(s, t) THEN ready \cup {t} ELSE ready)
     /\ UNCHANGED <<mapped, callback, down, engineVars>>

SubmitJob(th, t) ==
  /\ Fresh(t)
  /\ IF th \in Callers
       THEN t \in Singles
       ELSE th \in Jobs /\ Submitter[t] = TaskOf(th) /\ job[th] = "Running"
  /\ Enqueue(th, t, "manual")
  /\ Call(th, Flush \o <<DoFor("arm", t)>>)

Arms(t) == IF down THEN "Canceled" ELSE status[t]

Arm(th) ==
  LET t == Arg(th)
      s == [status EXCEPT ![t] = Arms(t)]
  IN /\ At(th, "arm")
     /\ auto' = [auto EXCEPT ![t] = IF down THEN @ ELSE "armed"]
     /\ UNCHANGED <<graphVars, jobId, attempts>>
     /\ Pass(s, IF ~ down /\ IsLaunchCandidate(s, t) THEN ready \cup {t} ELSE ready)
     /\ Then(th, Flush \o <<DoFor("armed", t)>>)
     /\ UNCHANGED <<mapped, callback, down, engineVars>>

Armed(th) ==
  /\ At(th, "armed")
  /\ Then(th, IF down THEN <<DoFor("fire", Arg(th))>> ELSE <<>>)
  /\ UNCHANGED <<taskVars, callback, down, engineVars>>

(* retryTask() reads which parents the new task keeps in one critical      *)
(* section, and submits it in another one: as a job if the old task was    *)
(* one, or was launched, and else as the step it was.                      *)
RetryTask(u, t) ==
  LET old == RetryOf[t]
  IN /\ old # NoTask /\ status[old] \in Final /\ Fresh(t)
     /\ parents' = [parents EXCEPT ![t] =
          {p \in parents[old] : status[p] = "Completed" \/ Live(status, p)}]
     /\ Call(u, <<DoFor("resubmit", t)>>)
     /\ UNCHANGED <<status, auto, jobId, attempts, owner, missing, admissionVars, orphans, mapped,
                    callback, down, engineVars>>

HasRequest(t) == auto[t] = "armed" \/ gate[t] # "none"

Resubmit(th) ==
  LET t == Arg(th)
  IN /\ At(th, "resubmit")
     /\ \/ /\ Refuses
           /\ Done(th)
           /\ UNCHANGED <<taskVars, callback, down, engineVars>>
        \/ /\ HasRequest(RetryOf[t])
           /\ Enqueue(th, t, "manual")
           /\ Then(th, Flush \o <<DoFor("arm", t)>>)
        \/ /\ ~ HasRequest(RetryOf[t])
           /\ Enqueue(th, t, "auto")
           /\ Then(th, Flush)

-----------------------------------------------------------------------------
(* flushPendingLaunches(): outside of the mutex, launch by launch.         *)

FlushPendingLaunches(th) ==
  /\ At(th, "flush")
  /\ staged' = {}
  /\ Then(th, IF down THEN <<>> ELSE ForEach("register", staged))
  /\ UNCHANGED <<status, auto, jobId, attempts, graphVars, ready, gate, rearm, orphans, mapped,
                 callback, down, engineVars>>

(* The job is mapped before the engine knows it, and older jobs of the     *)
(* task are not any more.                                                  *)
Retired(j) == {k \in mapped : TaskOf(k) = TaskOf(j) /\ k # j}

Register(th) ==
  LET j == Arg(th)
      t == TaskOf(j)
  IN /\ At(th, "register")
     /\ IF Live(status, t)
          THEN /\ mapped' = (mapped \ Retired(j)) \cup {j}
               /\ jobId' = [jobId EXCEPT ![t] = j]
               /\ Then(th, <<DoFor("submit", j), DoFor("link", j)>>)
          ELSE Done(th) /\ UNCHANGED <<mapped, jobId>>
     /\ UNCHANGED <<status, auto, attempts, graphVars, admissionVars, orphans, callback, down,
                    engineVars>>

(* A terminated engine answers with the record of a cancelled job.         *)
SubmitWithId(th) ==
  LET j == Arg(th)
  IN /\ At(th, "submit")
     /\ job' = [job EXCEPT ![j] = IF engineDown THEN "Cancelled" ELSE "Queued"]
     /\ Then(th, IF engineDown THEN <<Record("record", j, "Cancelled")>> ELSE <<>>)
     /\ UNCHANGED <<taskVars, callback, down, stop, engineDown>>

(* A task that was canceled while its job was submitted takes the job      *)
(* along; nobody else will finalize it.                                    *)
BugOvertaken(t) == status[t] = "Cancelling"
Overtaken(t) == status[t] \in {"Canceled", "Cancelling"}

Link(th) ==
  LET j == Arg(th)
      t == TaskOf(j)
  IN /\ At(th, "link")
     /\ IF Overtaken(t)
          THEN /\ mapped' = mapped \ {j}
               /\ status' = [status EXCEPT ![t] = "Canceled"]
               /\ Then(th, IF status[t] = "Cancelling"
                             THEN <<DoFor("stop", j), Do("signals"), DoFor("fire", t)>>
                             ELSE <<DoFor("stop", j)>>)
               /\ UNCHANGED jobId
          ELSE /\ jobId' = [jobId EXCEPT ![t] = j]
               /\ Then(th, <<DoFor("snapshot", j)>>)
               /\ UNCHANGED <<mapped, status>>
     /\ Join
     /\ UNCHANGED <<auto, attempts, graphVars, admissionVars, callback, down, engineVars>>

(* The catch-up record, copied here and delivered later.                   *)
Snapshot(th) ==
  LET j == Arg(th)
  IN /\ At(th, "snapshot")
     /\ Then(th, <<Record("record", j, job[j])>>)
     /\ UNCHANGED <<taskVars, callback, down, engineVars>>

-----------------------------------------------------------------------------
(* Job records.                                                            *)

(* onJobRecord(): a job that is not mapped is taken back by its clientTag  *)
(* while its task is live and tracks no other job.                         *)
Recovers(j) == Live(status, TaskOf(j)) /\ jobId[TaskOf(j)] \in {NoJob, j}

OnJobRecord(th) ==
  LET j == Arg(th)
      known == j \in mapped
  IN /\ At(th, "record")
     /\ IF known \/ Recovers(j)
          THEN Then(th, <<Record("process", j, State(th))>>)
          ELSE Done(th)
     /\ IF ~ known /\ Recovers(j)
          THEN /\ mapped' = mapped \cup {j}
               /\ jobId' = [jobId EXCEPT ![TaskOf(j)] = j]
          ELSE UNCHANGED <<mapped, jobId>>
     /\ UNCHANGED <<status, auto, attempts, graphVars, admissionVars, orphans, callback, down,
                    engineVars>>

(* processJobRecord(): a Running record, or one that carries progress,     *)
(* says that a worker has started.                                         *)
Started(t) == status[t] \in ReadyLike \cup {"Dispatching"}

ProcessJobRecord(th) ==
  LET j == Arg(th)
      t == TaskOf(j)
      over == State(th) \in JobEnds
  IN /\ At(th, "process")
     /\ \E tick \in BOOLEAN :
          /\ State(th) = "Running" => tick
          /\ State(th) = "Queued" => ~ tick
          /\ IF tick /\ Started(t)
               THEN /\ status' = [status EXCEPT ![t] = "Running"]
                    /\ ready' = ready \ {t}
               ELSE UNCHANGED <<status, ready>>
     /\ Then(th, IF over /\ Live(status, t)
                   THEN <<Record("mark", j, State(th)), DoFor("forget", j)>> ELSE <<>>)
     /\ UNCHANGED <<auto, jobId, attempts, graphVars, gate, staged, rearm, orphans, mapped,
                    callback, down, engineVars>>

(* markTaskCompleted(): children whose last parent this was are promoted.  *)
BugPromoted(s, t) == {}
Promoted(s, t) ==
  {c \in Tasks : t \in parents[c] /\ missing[c] = 1 /\ IsLaunchCandidate(s, c)}

MarkTaskCompleted(th, t) ==
  LET s == Set(t, "Completed")
  IN /\ missing' = [c \in Tasks |-> IF t \in parents[c] /\ missing[c] > 0
                                    THEN missing[c] - 1 ELSE missing[c]]
     /\ mapped' = mapped \ {jobId[t]}
     /\ UNCHANGED <<auto, jobId, attempts, parents, owner>>
     /\ Pass(s, ready \cup Promoted(s, t))
     /\ Then(th, Flush \o <<DoFor("fire", t)>>)

(* shouldAutoRetryLocked(), and the task goes back to the queue without    *)
(* its job.                                                                *)
BugShouldAutoRetry(t, end) == end = "Crashed" /\ attempts[t] < MaxAutoRetries
ShouldAutoRetry(t, end) ==
  end = "Crashed" /\ attempts[t] < MaxAutoRetries /\ status[t] # "Cancelling"

OwnJob(t) == {jobId[t]} \ {NoJob}

AutoRetry(th, t) ==
  LET s == Set(t, "Queued")
  IN /\ attempts' = [attempts EXCEPT ![t] = @ + 1]
     /\ jobId' = [jobId EXCEPT ![t] = NoJob]
     /\ mapped' = mapped \ OwnJob(t)
     /\ UNCHANGED <<auto, graphVars>>
     /\ Pass(s, IF IsLaunchCandidate(s, t) THEN ready \cup {t} ELSE ready)
     /\ Then(th, ForEach("cancel", OwnJob(t)) \o Flush)

(* markTaskFailed() past the retry, and markTaskCanceled(): the engine's   *)
(* job goes along, and so does everybody who depends on the task.          *)
BugEndings(t, s, below) == s
Endings(t, s, below) == Cascade(s, below)

MarkTaskEnded(th, t, new) ==
  LET s == Set(t, new)
      below == Descendants(s, t)
  IN /\ mapped' = mapped \ OwnJob(t)
     /\ UNCHANGED <<auto, jobId, attempts, graphVars>>
     /\ Pass(Endings(t, s, below), ready)
     /\ Then(th, ForEach("cancel", OwnJob(t) \cup JobsToCancel(s, below)) \o Flush
                 \o <<DoFor("fire", t)>> \o ForEach("fire", CanceledAtOnce(s, below)))

Mark(th) ==
  LET t == TaskOf(Arg(th))
      end == State(th)
  IN /\ At(th, "mark")
     /\ IF ~ Live(status, t)
          THEN /\ Done(th)
               /\ UNCHANGED <<taskVars>>
        ELSE IF end = "Succeeded" THEN MarkTaskCompleted(th, t)
        ELSE IF end = "Cancelled" THEN MarkTaskEnded(th, t, "Canceled")
        ELSE IF ShouldAutoRetry(t, end) THEN AutoRetry(th, t)
        ELSE MarkTaskEnded(th, t, "Failed")
     /\ UNCHANGED <<callback, down, engineVars>>

Forget(th) ==
  /\ At(th, "forget")
  /\ mapped' = mapped \ {Arg(th)}
  /\ Done(th)
  /\ UNCHANGED <<status, auto, jobId, attempts, graphVars, admissionVars, orphans,
                 callback, down, engineVars>>

-----------------------------------------------------------------------------
(* Cancellation.                                                           *)

(* cancelTask() of a live task: its descendants go with it.                *)
CancelLocked(t) ==
  /\ UNCHANGED <<auto, jobId, attempts, graphVars>>
  /\ Pass(Cascade(status, {t} \cup Descendants(status, t)), ready)
  /\ UNCHANGED <<mapped, callback, down, engineVars>>

CancelSteps(t) ==
  LET targets == {t} \cup Descendants(status, t)
  IN ForEach("cancel", JobsToCancel(status, targets)) \o Flush
     \o ForEach("fire", CanceledAtOnce(status, targets))

CancelTask(u, t) ==
  /\ t \in Cancellable /\ Live(status, t)
  /\ CancelLocked(t)
  /\ Call(u, CancelSteps(t))

(* JobEngine::cancel(): a queued job is over and its record delivered on   *)
(* this thread, a running one gets its flag, another one answers false.    *)
CancelJob(th) ==
  LET j == Arg(th)
  IN /\ At(th, "cancel") \/ At(th, "stop")
     /\ job' = [job EXCEPT ![j] = IF @ = "Queued" THEN "Cancelled" ELSE @]
     /\ stop' = IF job[j] = "Running" THEN stop \cup {j} ELSE stop
     /\ Then(th, IF job[j] = "Queued" THEN <<Record("record", j, "Cancelled")>>
                 ELSE IF job[j] # "Running" /\ At(th, "cancel") THEN <<DoFor("strand", TaskOf(j))>>
                 ELSE <<>>)
     /\ UNCHANGED <<taskVars, callback, down, engineDown>>

(* dispatchPendingCancels() finalizes a task whose job cannot be cancelled *)
(* any more.                                                               *)
Strand(th) ==
  LET t == Arg(th)
  IN /\ At(th, "strand")
     /\ IF status[t] = "Cancelling"
          THEN /\ status' = [status EXCEPT ![t] = "Canceled"]
               /\ jobId' = [jobId EXCEPT ![t] = NoJob]
               /\ mapped' = mapped \ OwnJob(t)
               /\ Then(th, <<Do("signals"), DoFor("fire", t)>>)
          ELSE Done(th) /\ UNCHANGED <<status, jobId, mapped>>
     /\ Join
     /\ UNCHANGED <<auto, attempts, graphVars, admissionVars, callback, down, engineVars>>

(* flushPendingSignals() drains the orphans until there are none.          *)
FlushOwnedCancels(th) ==
  LET targets == orphans \cup UNION {Descendants(status, c) : c \in orphans}
      s == Cascade(status, targets)
  IN /\ At(th, "signals")
     /\ IF orphans = {}
          THEN Done(th) /\ UNCHANGED <<status, ready, orphans>>
          ELSE /\ status' = s
               /\ ready' = {t \in ready : s[t] \in ReadyLike}
               /\ orphans' = {c \in Tasks : /\ Live(status, c) /\ owner[c] # NoTask
                                            /\ Live(status, owner[c]) /\ s[owner[c]] \in Final}
               /\ Then(th, ForEach("cancel", JobsToCancel(status, targets))
                           \o ForEach("fire", CanceledAtOnce(status, targets)) \o <<Do("signals")>>)
     /\ UNCHANGED <<auto, jobId, attempts, graphVars, gate, staged, rearm, mapped,
                    callback, down, engineVars>>

(* enforceCancelDeadlines(): tasks whose window for a record has passed.   *)
(* (onJobRecord() runs it too, on whatever thread it is on.)               *)
Detached(late) == {jobId[t] : t \in late}

EnforceCancelDeadlines ==
  \E late \in (SUBSET {t \in Tasks : status[t] = "Cancelling"}) \ {{}} :
    /\ ~ down
    /\ status' = [t \in Tasks |-> IF t \in late THEN "Canceled" ELSE status[t]]
    /\ mapped' = mapped \ Detached(late)
    /\ Join
    /\ Call(Watchdog, <<Do("signals")>> \o ForEach("fire", late))
    /\ UNCHANGED <<auto, jobId, attempts, graphVars, admissionVars, callback, down, engineVars>>

-----------------------------------------------------------------------------
(* Completion callbacks.                                                   *)

AddTaskCompletionCallback(u, t) ==
  /\ Idle(u) /\ t \in Watched
  /\ callback[t] = "none" /\ status[t] # "Absent"
  /\ callback' = [callback EXCEPT ![t] = IF status[t] \in Final THEN "told" ELSE "waits"]
  /\ UNCHANGED <<taskVars, down, todo, engineVars>>

FireTaskCompletionCallbacks(th) ==
  /\ At(th, "fire")
  /\ callback' = [callback EXCEPT ![Arg(th)] = IF @ = "waits" THEN "told" ELSE @]
  /\ Done(th)
  /\ UNCHANGED <<taskVars, down, engineVars>>

-----------------------------------------------------------------------------
(* shutdown(): cancel everything, join the watchdog and the engine, then   *)
(* finalize what is left.                                                  *)

Shutdown(u) ==
  /\ MayShutDown /\ ~ down
  /\ down' = TRUE
  /\ Call(u, <<Do("joinWatchdog"), Do("cancelAll"), Do("closeEngine"), Do("joinWorkers"),
               Do("finalize")>>)
  /\ UNCHANGED <<taskVars, callback, engineVars>>

JoinWatchdog(th) ==
  /\ At(th, "joinWatchdog") /\ Idle(Watchdog)
  /\ staged' = {}
  /\ Done(th)
  /\ UNCHANGED <<status, auto, jobId, attempts, graphVars, ready, gate, rearm, orphans, mapped,
                 callback, down, engineVars>>

CancelAllForShutdown(th) ==
  /\ At(th, "cancelAll")
  /\ Then(th, ForEach("cancelTask", {t \in Tasks : Live(status, t)}))
  /\ UNCHANGED <<taskVars, callback, down, engineVars>>

CancelForShutdown(th) ==
  LET t == Arg(th)
  IN /\ At(th, "cancelTask")
     /\ IF Live(status, t)
          THEN CancelLocked(t) /\ Then(th, CancelSteps(t))
          ELSE /\ Done(th)
               /\ UNCHANGED <<taskVars, callback, down, engineVars>>

(* JobEngine::shutdown() delivers the records of the jobs it takes out of  *)
(* the queue on this thread, and waits for the others.                     *)
CloseEngine(th) ==
  LET queued == {j \in Jobs : job[j] = "Queued"}
  IN /\ At(th, "closeEngine")
     /\ engineDown' = TRUE
     /\ stop' = stop \cup {j \in Jobs : job[j] = "Running"}
     /\ job' = [j \in Jobs |-> IF j \in queued THEN "Cancelled" ELSE job[j]]
     /\ Then(th, SetToSeq({Record("record", j, "Cancelled") : j \in queued}))
     /\ UNCHANGED <<taskVars, callback, down>>

JoinWorkers(th) ==
  /\ At(th, "joinWorkers")
  /\ \A j \in Jobs : job[j] # "Running" /\ Idle(j)
  /\ Done(th)
  /\ UNCHANGED <<taskVars, callback, down, engineVars>>

Finalize(th) ==
  LET left == {t \in Tasks : Live(status, t)}
  IN /\ At(th, "finalize")
     /\ status' = [t \in Tasks |-> IF t \in left THEN "Canceled" ELSE status[t]]
     /\ ready' = {}
     /\ Join
     /\ Then(th, <<Do("signals")>> \o ForEach("fire", left) \o <<Do("clear")>>)
     /\ UNCHANGED <<auto, jobId, attempts, graphVars, gate, staged, rearm, mapped,
                    callback, down, engineVars>>

ClearCallbacks(th) ==
  /\ At(th, "clear")
  /\ callback' = [t \in Tasks |-> IF callback[t] = "waits" THEN "dropped" ELSE callback[t]]
  /\ Done(th)
  /\ UNCHANGED <<taskVars, down, engineVars>>

-----------------------------------------------------------------------------
(* The timer, on the thread of a caller; more than one may run.            *)
TimerFires(u) ==
  /\ rearm
  /\ UNCHANGED <<auto, jobId, attempts, graphVars>>
  /\ \E others \in BOOLEAN : PassBefore(others, status, ready)
  /\ Join
  /\ Call(u, Flush)
  /\ UNCHANGED <<mapped, callback, down, engineVars>>

(* The engine: a worker starts a queued job, and ends it.                  *)
JobStarts(j) ==
  /\ job[j] = "Queued" /\ ~ engineDown
  /\ job' = [job EXCEPT ![j] = "Running"]
  /\ Call(j, <<Record("record", j, "Running")>>)
  /\ UNCHANGED <<taskVars, callback, down, stop, engineDown>>

JobEndsAs(j, end) ==
  /\ job[j] = "Running"
  /\ end = "Crashed" => TaskOf(j) \in Flaky
  /\ end = "Cancelled" => j \in stop
  /\ job' = [job EXCEPT ![j] = end]
  /\ Call(j, <<Record("record", j, end)>>)
  /\ UNCHANGED <<taskVars, callback, down, stop, engineDown>>

ThreadStep(th) ==
  \/ EnterPipeline(th) \/ Arm(th) \/ Armed(th) \/ Resubmit(th)
  \/ FlushPendingLaunches(th) \/ Register(th) \/ SubmitWithId(th) \/ Link(th) \/ Snapshot(th)
  \/ OnJobRecord(th) \/ ProcessJobRecord(th) \/ Mark(th) \/ Forget(th)
  \/ CancelJob(th) \/ Strand(th) \/ FlushOwnedCancels(th) \/ FireTaskCompletionCallbacks(th)
  \/ JoinWatchdog(th) \/ CancelAllForShutdown(th) \/ CancelForShutdown(th)
  \/ CloseEngine(th) \/ JoinWorkers(th) \/ Finalize(th) \/ ClearCallbacks(th)

Calls(u) ==
  \/ \E g \in Pipelines : SubmitPipeline(u, g)
  \/ Shutdown(u) \/ TimerFires(u)
  \/ \E t \in Tasks : \/ SubmitJob(u, t) \/ RetryTask(u, t) \/ CancelTask(u, t)
                      \/ AddTaskCompletionCallback(u, t)

Next ==
  \/ \E u \in Callers : Calls(u)
  \/ \E th \in Threads : ThreadStep(th)
  \/ \E j \in Jobs : \/ JobStarts(j) \/ \E end \in JobEnds : JobEndsAs(j, end)
                     \/ \E t \in Tasks : SubmitJob(j, t)
  \/ EnforceCancelDeadlines

Spec == Init /\ [][Next]_vars

(* A caller finishes the call it is in; the worker threads and the        *)
(* watchdog do not all stop while one of them has something to do. Nobody  *)
(* has to call anything.                                                   *)
Background ==
  \/ \E th \in Threads \ Callers : ThreadStep(th)
  \/ \E j \in Jobs : JobStarts(j) \/ \E end \in JobEnds : JobEndsAs(j, end)
  \/ EnforceCancelDeadlines

FairSpec ==
  /\ Spec
  /\ \A u \in Callers : WF_vars(ThreadStep(u))
  /\ WF_vars(Background)

-----------------------------------------------------------------------------
(* Some thread still has to take this step.                                *)
OnTodo(step) == \E th \in Threads : \E i \in DOMAIN todo[th] : todo[th][i] = step

(* Type correctness. In particular a task is not retried more often than   *)
(* m_maxAutoRetries allows (m_incompleteParentCount, the retry budget).    *)
TypeOK ==
  /\ status \in [Tasks -> ReadyLike \cup ActiveStates \cup Final \cup {"Absent"}]
  /\ auto \in [Tasks -> {"manual", "auto", "armed"}] /\ parents \in [Tasks -> SUBSET Tasks]
  /\ owner \in [Tasks -> Tasks \cup {NoTask}] /\ jobId \in [Tasks -> Jobs \cup {NoJob}]
  /\ attempts \in [Tasks -> 0 .. MaxAutoRetries] /\ missing \in [Tasks -> 0 .. Cardinality(Tasks)]
  /\ ready \subseteq Tasks /\ orphans \subseteq Tasks
  /\ gate \in [Tasks -> {"none", "slot", "transient"}] /\ staged \subseteq Jobs /\ mapped \subseteq Jobs
  /\ callback \in [Tasks -> {"none", "waits", "told", "dropped"}]
  /\ down \in BOOLEAN /\ rearm \in BOOLEAN /\ engineDown \in BOOLEAN
  /\ job \in [Jobs -> JobEnds \cup {"Absent", "Queued", "Running"}] /\ stop \subseteq Jobs
  /\ DOMAIN todo = Threads

(* Whoever asked to be told the end of a task is told: a callback that     *)
(* waits on a task that is over is on some thread's way to                 *)
(* fireTaskCompletionCallbacks(), whichever of the ends it was (record,    *)
(* cancel, cascade, watchdog, strand, shutdown), and shutdown() drops      *)
(* none.                                                                   *)
EndIsTold ==
  \A t \in Tasks :
    /\ callback[t] # "dropped"
    /\ callback[t] = "waits" /\ status[t] \in Final =>
         OnTodo(DoFor("fire", t)) \/ OnTodo(DoFor("armed", t))

(* A completion callback is told of a task only when the task is over for  *)
(* good: not of an attempt that is repeated, nor of a task that is still   *)
(* Cancelling.                                                             *)
OnlyTheEndIsTold == \A t \in Tasks : callback[t] = "told" => status[t] \in Final

(* A job that may still run, and that nobody has told to stop.             *)
JobLive(j) == job[j] \in {"Queued", "Running"} /\ j \notin stop

(* No job runs for nobody: a job of a task that is over is being cancelled *)
(* by some thread, or on its way from flushPendingLaunches() to the check  *)
(* that cancels it.                                                        *)
Supervised ==
  \A j \in Jobs : JobLive(j) /\ status[TaskOf(j)] \in Final =>
     \E op \in {"cancel", "stop", "link"} : OnTodo(DoFor(op, j))

(* Structured ownership: a task does not outlive the task that submitted   *)
(* it from its body. When the owner is over the child is over too, or is   *)
(* being cancelled, or is staged for a flushOwnedCancels() to come.        *)
JoinRule ==
  \A c \in Tasks : Live(status, c) /\ owner[c] # NoTask =>
     \/ Live(status, owner[c])
     \/ status[c] = "Cancelling"
     \/ c \in orphans /\ OnTodo(Do("signals"))

(* A task of a pipeline is launched, runs and completes only when every    *)
(* task it takes its inputs from has completed.                            *)
ParentsFirst ==
  \A t \in Tasks : status[t] \in ActiveStates \cup {"Completed"} =>
     \A p \in parents[t] : status[p] = "Completed"

(* No task waits for inputs that will never come: an end other than        *)
(* Completed reaches every task that waits for it in the critical section  *)
(* it happens in.                                                          *)
NeverBehindDeadParent ==
  \A t \in Tasks : status[t] \in ReadyLike =>
     \A p \in parents[t] : status[p] \notin {"Failed", "Canceled"}

(* "Re-evaluated on every terminal transition; never drops work"           *)
(* (task_center.h, WaitingResource): a task that may be launched does not  *)
(* wait while nothing is active, no timer is set and no thread is in a     *)
(* call.                                                                   *)
NeverStarves ==
  (\E t \in Tasks : /\ status[t] \in ReadyLike /\ auto[t] # "manual" /\ jobId[t] = NoJob
                    /\ \A p \in parents[t] : status[p] \in {"Absent", "Completed"})
    => Active(status) # {} \/ rearm \/ down \/ \E th \in Threads : ~ Idle(th)

(* Once shutdown() has returned and every call is over, no task is live,   *)
(* no callback waits and no job is left in the engine.                     *)
ShutdownLeavesNothing ==
  down /\ (\A th \in Threads : Idle(th)) =>
    /\ \A t \in Tasks : ~ Live(status, t) /\ callback[t] # "waits"
    /\ \A j \in Jobs : job[j] \notin {"Queued", "Running"}

(* A task that is over stays what it is, and one that is being cancelled   *)
(* is neither revived by a late record nor repeated: it only ends.         *)
OneWay ==
  [][\A t \in Tasks :
       /\ status[t] \in Final => status'[t] = status[t]
       /\ status[t] = "Cancelling" => status'[t] \in Final \cup {"Cancelling"}]_vars

(* Every task that was accepted ends, whether its job succeeds, fails,     *)
(* crashes and is repeated, or is cancelled, and whatever its parents do.  *)
TasksEnd == (\E t \in Tasks : Live(status, t)) ~> (\A t \in Tasks : ~ Live(status, t))

=============================================================================
