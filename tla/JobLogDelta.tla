------------------------------ MODULE JobLogDelta ------------------------------
(***************************************************************************)
(* How the log lines of one running job get from its record in JobEngine   *)
(* to the log of its task in TaskCenter: appendLog(), the log and progress *)
(* callbacks and finishTerminal() of src/src/jobs/job_engine.cpp, and      *)
(* onJobRecord() and processJobRecord() of src/src/processing/framework/   *)
(* task_center.cpp.                                                        *)
(*                                                                         *)
(* A line is its index in the sequence of all lines ever appended. A       *)
(* record copied under the engine's mutex is delivered after the mutex was *)
(* released, on the thread that copied it: the worker, an operator thread  *)
(* that logs, or the thread that submitted the job (its catch-up           *)
(* snapshot). TaskCenter takes its own mutex anew for each thing it does.  *)
(***************************************************************************)
EXTENDS Integers, Sequences, SequencesExt, FiniteSets

CONSTANTS
  Worker,         \* the worker thread that runs the job
  Loggers,        \* operator threads that call back, the worker may be one
  Submitter,      \* the thread that submitted the job
  MaxLogLines,    \* kMaxJobLogLines
  LogKeepLines,   \* kJobLogKeepLines
  MaxLines        \* bound: lines of the job, its last one included

ASSUME LogAssumption ==
  /\ Submitter \notin Loggers \cup {Worker}
  /\ MaxLogLines \in Nat /\ LogKeepLines \in 1 .. MaxLogLines
  /\ MaxLines \in Nat \ {0, 1}

Threads == Loggers \cup {Worker, Submitter}

VARIABLES
  over,        \* the job's record is terminal
  total,       \* lines appended; the last one is total
  dropped,     \* droppedLogLines: logLines holds dropped + 1 .. total
  cursor,      \* m_deltaLogCursor of the job, 0: no entry
  timedOut,    \* the watchdog appended its line
  caughtUp,    \* the submitter took its snapshot
  pc,          \* where each thread is in delivering a record
  record,      \* the record each thread delivers
  newLines,    \* the lines each thread has yet to append to the task
  forwarded,   \* m_forwardedLogCounts of the task, 0: no entry
  taskOver,    \* the task is terminal
  taskLog,     \* the lines in the task's log, in their order
  released     \* history: m_forwardedLogCounts lost its entry

engineVars == <<over, total, dropped, cursor, timedOut>>
vars == <<engineVars, caughtUp, pc, record, newLines, forwarded, taskOver, taskLog, released>>

\* A record with the lines from + 1 .. to: a delta starts at its
\* logLinesOffset, a copy of the whole record behind droppedLogLines.
Record(from, to, terminal) == [from |-> from, to |-> to, terminal |-> terminal]

\* the worker has appended "Started" and delivers that record
Init ==
  /\ over = FALSE /\ total = 1 /\ dropped = 0 /\ cursor = 0
  /\ timedOut = FALSE /\ caughtUp = FALSE
  /\ pc = [t \in Threads |-> IF t = Worker THEN "check" ELSE "idle"]
  /\ record = [t \in Threads |-> Record(0, 1, FALSE)]
  /\ newLines = [t \in Threads |-> <<>>]
  /\ forwarded = 0 /\ taskOver = FALSE /\ taskLog = <<>> /\ released = FALSE

-----------------------------------------------------------------------------
\* what appendLog() leaves of droppedLogLines: the oldest block goes
DroppedBy(n) == IF n - dropped > MaxLogLines THEN n - LogKeepLines ELSE dropped

AppendLog ==
  /\ total' = total + 1
  /\ dropped' = DroppedBy(total + 1)

Notify(t, r) ==
  /\ pc' = [pc EXCEPT ![t] = "check"]
  /\ record' = [record EXCEPT ![t] = r]

BugUnshippedFrom == total' - 1

\* where the lines start that were not shipped yet and are retained still
UnshippedFrom == IF cursor > dropped' THEN cursor ELSE dropped'

\* the log callback ships the lines appended since the previous one
LogCallback(t) ==
  /\ t \in Loggers /\ pc[t] = "idle" /\ ~ over /\ total < MaxLines - 1
  /\ AppendLog
  /\ cursor' = total'
  /\ Notify(t, Record(UnshippedFrom, total', FALSE))
  /\ UNCHANGED <<over, timedOut, caughtUp, newLines, forwarded, taskOver, taskLog, released>>

\* the progress callback copies the whole record
ProgressCallback(t) ==
  /\ t \in Loggers /\ pc[t] = "idle" /\ ~ over
  /\ Notify(t, Record(dropped, total, FALSE))
  /\ UNCHANGED <<engineVars, caughtUp, newLines, forwarded, taskOver, taskLog, released>>

\* the watchdog's line, once per job, that nobody is notified of: it may
\* come late, when the job is over
AppendSilently ==
  /\ ~ timedOut /\ total < MaxLines - 1
  /\ timedOut' = TRUE
  /\ AppendLog
  /\ UNCHANGED <<over, cursor, caughtUp, pc, record, newLines, forwarded, taskOver, taskLog,
                 released>>

\* finishTerminal(): the last line as a delta when there is a cursor
FinishTerminal ==
  /\ pc[Worker] = "idle" /\ ~ over
  /\ AppendLog
  /\ over' = TRUE
  /\ cursor' = 0
  /\ Notify(Worker, Record(IF cursor # 0 THEN UnshippedFrom ELSE dropped', total', TRUE))
  /\ UNCHANGED <<timedOut, caughtUp, newLines, forwarded, taskOver, taskLog, released>>

\* the submitter's snapshot, delivered like a record
CatchUp ==
  /\ pc[Submitter] = "idle" /\ ~ caughtUp
  /\ caughtUp' = TRUE
  /\ Notify(Submitter, Record(dropped, total, over))
  /\ UNCHANGED <<engineVars, newLines, forwarded, taskOver, taskLog, released>>

-----------------------------------------------------------------------------
Goto(t, l) == pc' = [pc EXCEPT ![t] = l]

\* a record of a terminal task is ignored
Check(t) ==
  /\ pc[t] = "check"
  /\ Goto(t, IF taskOver THEN "idle" ELSE "slice")
  /\ UNCHANGED <<engineVars, caughtUp, record, newLines, forwarded, taskOver, taskLog, released>>

BugNewPart(r) == [n \in 1 .. r.to - r.from |-> r.from + n]

\* the lines of a record that were not forwarded yet
NewPart(r) ==
  LET start == IF forwarded > r.from THEN forwarded ELSE r.from
  IN IF r.to > start THEN [n \in 1 .. r.to - start |-> start + n] ELSE <<>>

Slice(t) ==
  /\ pc[t] = "slice"
  /\ newLines' = [newLines EXCEPT ![t] = NewPart(record[t])]
  /\ forwarded' = IF record[t].to > forwarded THEN record[t].to ELSE forwarded
  /\ Goto(t, "append")
  /\ UNCHANGED <<engineVars, caughtUp, record, taskOver, taskLog, released>>

\* appendTaskLog(), once per line
AppendTaskLog(t) ==
  /\ pc[t] = "append" /\ newLines[t] # <<>>
  /\ taskLog' = Append(taskLog, Head(newLines[t]))
  /\ newLines' = [newLines EXCEPT ![t] = Tail(@)]
  /\ UNCHANGED <<engineVars, caughtUp, pc, record, forwarded, taskOver, released>>

\* markTaskCompleted() for a terminal record
MarkTask(t) ==
  /\ pc[t] = "append" /\ newLines[t] = <<>>
  /\ taskOver' = (taskOver \/ record[t].terminal)
  /\ Goto(t, IF record[t].terminal THEN "release" ELSE "idle")
  /\ UNCHANGED <<engineVars, caughtUp, record, newLines, forwarded, taskLog, released>>

\* and the dedup state goes
Release(t) ==
  /\ pc[t] = "release"
  /\ forwarded' = 0
  /\ released' = TRUE
  /\ Goto(t, "idle")
  /\ UNCHANGED <<engineVars, caughtUp, record, newLines, taskOver, taskLog>>

Deliver(t) == Check(t) \/ Slice(t) \/ AppendTaskLog(t) \/ MarkTask(t) \/ Release(t)

Next ==
  \/ \E t \in Loggers : LogCallback(t) \/ ProgressCallback(t)
  \/ AppendSilently \/ FinishTerminal \/ CatchUp
  \/ \E t \in Threads : Deliver(t)

Spec == Init /\ [][Next]_vars

-----------------------------------------------------------------------------
(* Every variable is what its declaration says, and the record retains at  *)
(* most MaxLogLines lines.                                                 *)
TypeOK ==
  /\ {over, timedOut, caughtUp, taskOver, released} \subseteq BOOLEAN
  /\ total \in 1 .. MaxLines /\ dropped \in 0 .. total /\ cursor \in 0 .. total
  /\ total - dropped <= MaxLogLines
  /\ pc \in [Threads -> {"idle", "check", "slice", "append", "release"}]
  /\ record \in [Threads -> [from : 0 .. MaxLines, to : 0 .. MaxLines, terminal : BOOLEAN]]
  /\ newLines \in [Threads -> Seq(1 .. MaxLines)]
  /\ forwarded \in 0 .. MaxLines
  /\ taskLog \in Seq(1 .. MaxLines)

NoDuplicates(s) == \A m, n \in 1 .. Len(s) : s[m] = s[n] => m = n

(* The lines that are to reach the task's log: those in it and those a     *)
(* thread has in hand.                                                     *)
InHand == UNION {ToSet(newLines[t]) : t \in Threads}

(* While the count of forwarded lines is kept, no line is forwarded twice, *)
(* although cumulative copies, deltas and the catch-up snapshot overlap.   *)
NoLineTwiceUntilReleased ==
  ~ released => /\ NoDuplicates(taskLog)
                /\ ToSet(taskLog) \cap InHand = {}
                /\ \A t, u \in Threads : t # u => ToSet(newLines[t]) \cap ToSet(newLines[u]) = {}

(* Once the task is terminal and nothing is being delivered, its log holds *)
(* every line up to the job's last one, those the record has since dropped *)
(* included (the worker's last record ends at the job's last line).        *)
EveryLineForwarded ==
  taskOver /\ (\A t \in Threads : pc[t] = "idle") => 1 .. record[Worker].to \subseteq ToSet(taskLog)

=============================================================================
