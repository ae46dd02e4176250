---------------------------- MODULE ChunkPipeline ----------------------------
(***************************************************************************)
(* One run() of src/src/runtime/chunk/chunk_pipeline.cpp: a producer       *)
(* thread, a thread per stage and a consumer thread, with a queue of       *)
(* bounded_chunk_queue.h between each two neighbours.                      *)
(*                                                                         *)
(* One action is one critical section of one queue's mutex, one            *)
(* notification, or one call of a user function. A thread that waits on a  *)
(* condition variable is asleep until a notification of that variable      *)
(* reaches it; each variable has one possible waiter here, the upstream    *)
(* thread (m_pushWait) or the downstream thread (m_popWait) of its queue.  *)
(***************************************************************************)
EXTENDS Integers, Sequences, SequencesExt, FiniteSets

CONSTANTS
  S,          \* stages
  N,          \* tiles the producer has
  Capacity,   \* queueCapacity
  Failing,    \* threads whose user function may throw (the consumer: or abort)
  Filtering,  \* stages that may drop a tile by an empty result
  Cancels     \* somebody may set the cancel flag

ASSUME PipelineAssumption ==
  /\ S \in Nat /\ N \in Nat /\ Capacity \in Nat \ {0}
  /\ Failing \subseteq 0 .. S + 1 /\ Filtering \subseteq 1 .. S
  /\ Cancels \in BOOLEAN

Producer == 0
Consumer == S + 1
Threads == 0 .. S + 1
Stages == 1 .. S
Queues == 0 .. S      \* thread i pushes to queue i, thread i + 1 pops from it

VARIABLES
  items, closed, cancelledQ,  \* m_items, m_closed and m_cancelled of each queue
  pc,          \* where each thread is
  held,        \* the tile each thread has in hand, 0: none
  asleep,      \* threads waiting on a condition variable
  at,          \* the queue each thread's cancelAll() is at
  produced,    \* tiles the producer has produced
  flag,        \* *m_cancelFlag
  firstError,  \* the thread whose exception is m_firstError, -1: none
  errorMutex,  \* the thread that holds m_errorMutex, -1: none
  outcome,     \* how run() ended
  consumed,    \* history: tiles m_consumer got
  dropped,     \* history: tiles the stages filtered out
  late         \* history: tiles m_consumer got although the flag was set

queueVars == <<items, closed, cancelledQ>>
errorVars == <<firstError, errorMutex>>
history == <<consumed, dropped, late>>
vars == <<queueVars, pc, held, asleep, at, produced, flag, errorVars, outcome, history>>

Init ==
  /\ items = [q \in Queues |-> <<>>]
  /\ closed = [q \in Queues |-> FALSE] /\ cancelledQ = [q \in Queues |-> FALSE]
  /\ pc = [t \in Threads |-> IF t = Producer THEN "check" ELSE "pop"]
  /\ held = [t \in Threads |-> 0]
  /\ asleep = {}
  /\ at = [t \in Threads |-> 0]
  /\ produced = 0
  /\ flag = FALSE
  /\ firstError = -1 /\ errorMutex = -1
  /\ outcome = "none"
  /\ consumed = <<>> /\ dropped = {} /\ late = 0

Goto(t, l) == pc' = [pc EXCEPT ![t] = l]

\* the state a thread starts its next round in
NextRound(t) == Goto(t, IF t = Producer THEN "check" ELSE "pop")

\* notify on m_popWait, on m_pushWait, or on both of queue q
PopWaiters(q) == {t \in {q + 1} : pc[t] = "pop"}
PushWaiters(q) == {t \in {q} : pc[t] = "push"}

-----------------------------------------------------------------------------
BugPush(t) ==
  /\ pc[t] = "push" /\ t \notin asleep
  /\ \/ /\ closed[t]
        /\ Goto(t, "done")
        /\ held' = [held EXCEPT ![t] = 0]
        /\ UNCHANGED <<items, asleep>>
     \/ /\ ~ closed[t] /\ Len(items[t]) <= Capacity
        /\ items' = [items EXCEPT ![t] = Append(@, held[t])]
        /\ held' = [held EXCEPT ![t] = 0]
        /\ Goto(t, "pushed")
        /\ UNCHANGED asleep
     \/ /\ ~ closed[t] /\ Len(items[t]) > Capacity
        /\ asleep' = asleep \cup {t}
        /\ UNCHANGED <<items, held, pc>>
  /\ UNCHANGED <<closed, cancelledQ, at, produced, flag, errorVars, outcome, history>>

\* push(): sleeps while the queue is full and open, fails when it is closed
Push(t) ==
  /\ pc[t] = "push" /\ t \notin asleep
  /\ \/ /\ closed[t]
        /\ Goto(t, "done")
        /\ held' = [held EXCEPT ![t] = 0]
        /\ UNCHANGED <<items, asleep>>
     \/ /\ ~ closed[t] /\ Len(items[t]) < Capacity
        /\ items' = [items EXCEPT ![t] = Append(@, held[t])]
        /\ held' = [held EXCEPT ![t] = 0]
        /\ Goto(t, "pushed")
        /\ UNCHANGED asleep
     \/ /\ ~ closed[t] /\ Len(items[t]) >= Capacity
        /\ asleep' = asleep \cup {t}
        /\ UNCHANGED <<items, held, pc>>
  /\ UNCHANGED <<closed, cancelledQ, at, produced, flag, errorVars, outcome, history>>

PushNotifies(t) ==
  /\ pc[t] = "pushed"
  /\ asleep' = asleep \ PopWaiters(t)
  /\ NextRound(t)
  /\ UNCHANGED <<queueVars, held, at, produced, flag, errorVars, outcome, history>>

\* pop(): sleeps while the queue is empty and open, fails when it is closed
\* and empty
Pop(t) ==
  /\ pc[t] = "pop" /\ t \notin asleep
  /\ LET q == t - 1 IN
     \/ /\ items[q] # <<>>
        /\ held' = [held EXCEPT ![t] = Head(items[q])]
        /\ items' = [items EXCEPT ![q] = Tail(@)]
        /\ Goto(t, "popped")
        /\ UNCHANGED asleep
     \/ /\ items[q] = <<>> /\ closed[q]
        /\ Goto(t, IF t = Consumer THEN "done" ELSE "close")
        /\ UNCHANGED <<items, held, asleep>>
     \/ /\ items[q] = <<>> /\ ~ closed[q]
        /\ asleep' = asleep \cup {t}
        /\ UNCHANGED <<items, held, pc>>
  /\ UNCHANGED <<closed, cancelledQ, at, produced, flag, errorVars, outcome, history>>

PopNotifies(t) ==
  /\ pc[t] = "popped"
  /\ asleep' = asleep \ PushWaiters(t - 1)
  /\ Goto(t, "check")
  /\ UNCHANGED <<queueVars, held, at, produced, flag, errorVars, outcome, history>>

\* close() of the queue downstream, a no-op when it is closed already
Close(t) ==
  /\ pc[t] = "close"
  /\ closed' = [closed EXCEPT ![t] = TRUE]
  /\ Goto(t, IF closed[t] THEN "done" ELSE "closed")
  /\ UNCHANGED <<items, cancelledQ, held, asleep, at, produced, flag, errorVars, outcome, history>>

CloseNotifies(t) ==
  /\ pc[t] = "closed"
  /\ asleep' = asleep \ (PushWaiters(t) \cup PopWaiters(t))
  /\ Goto(t, "done")
  /\ UNCHANGED <<queueVars, held, at, produced, flag, errorVars, outcome, history>>

-----------------------------------------------------------------------------
BugLooksAtFlag(t) ==
  /\ pc[t] = "check"
  /\ Goto(t, IF flag /\ t # Consumer THEN (IF t = Producer THEN "close" ELSE "cancel") ELSE "call")
  /\ UNCHANGED <<queueVars, held, asleep, at, produced, flag, errorVars, outcome, history>>

\* the thread's look at the cancel flag before it calls its user function
LooksAtFlag(t) ==
  /\ pc[t] = "check"
  /\ Goto(t, CASE ~ flag -> "call"
               [] flag /\ t = Producer -> "close"
               [] flag /\ t # Producer -> "cancel")
  /\ held' = IF flag THEN [held EXCEPT ![t] = 0] ELSE held
  /\ UNCHANGED <<queueVars, asleep, at, produced, flag, errorVars, outcome, history>>

\* m_producer gives the next tile, or none any more
Produce ==
  /\ pc[Producer] = "call"
  /\ IF produced < N
       THEN /\ produced' = produced + 1
            /\ held' = [held EXCEPT ![Producer] = produced + 1]
            /\ Goto(Producer, "push")
       ELSE Goto(Producer, "close") /\ UNCHANGED <<produced, held>>
  /\ UNCHANGED <<queueVars, asleep, at, flag, errorVars, outcome, history>>

\* m_stages[i] gives a tile, or an empty one: nothing is forwarded
Process(t) ==
  /\ pc[t] = "call" /\ t \in Stages
  /\ \/ Goto(t, "push") /\ UNCHANGED <<held, dropped>>
     \/ /\ t \in Filtering
        /\ dropped' = dropped \cup {held[t]}
        /\ held' = [held EXCEPT ![t] = 0]
        /\ Goto(t, "pop")
  /\ UNCHANGED <<queueVars, asleep, at, produced, flag, errorVars, outcome, consumed, late>>

\* m_consumer takes the tile and goes on, or says stop: ChunkConsumerAborted
Consume ==
  /\ pc[Consumer] = "call"
  /\ consumed' = Append(consumed, held[Consumer])
  /\ late' = IF flag THEN late + 1 ELSE late
  /\ held' = [held EXCEPT ![Consumer] = 0]
  /\ \/ Goto(Consumer, "pop")
     \/ Consumer \in Failing /\ Goto(Consumer, "error")
  /\ UNCHANGED <<queueVars, asleep, at, produced, flag, errorVars, outcome, dropped>>

BugThrow(t) ==
  /\ pc[t] = "call" /\ t \in Failing
  /\ held' = [held EXCEPT ![t] = 0]
  /\ NextRound(t)
  /\ UNCHANGED <<queueVars, asleep, at, produced, flag, errorVars, outcome, history>>

\* a user function, or validateBuffer(), throws
Throw(t) ==
  /\ pc[t] = "call" /\ t \in Failing
  /\ held' = [held EXCEPT ![t] = 0]
  /\ Goto(t, "error")
  /\ UNCHANGED <<queueVars, asleep, at, produced, flag, errorVars, outcome, history>>

\* threadBody: the first exception is kept, and cancelAll() runs under m_errorMutex
CatchAll(t) ==
  /\ pc[t] = "error" /\ errorMutex = -1
  /\ errorMutex' = t
  /\ firstError' = IF firstError = -1 THEN t ELSE firstError
  /\ Goto(t, "cancel")
  /\ UNCHANGED <<queueVars, held, asleep, at, produced, flag, outcome, history>>

\* cancelAll(): cancel() of one queue after the other
CancelQueue(t) ==
  /\ pc[t] = "cancel" /\ at[t] \in Queues
  /\ cancelledQ' = [cancelledQ EXCEPT ![at[t]] = TRUE]
  /\ closed' = [closed EXCEPT ![at[t]] = TRUE]
  /\ IF closed[at[t]]
       THEN at' = [at EXCEPT ![t] = @ + 1] /\ UNCHANGED pc
       ELSE Goto(t, "cancelled") /\ UNCHANGED at
  /\ UNCHANGED <<items, held, asleep, produced, flag, errorVars, outcome, history>>

BugCancelNotifies(t) ==
  /\ pc[t] = "cancelled"
  /\ asleep' = asleep \ PopWaiters(at[t])
  /\ at' = [at EXCEPT ![t] = @ + 1]
  /\ Goto(t, "cancel")
  /\ UNCHANGED <<queueVars, held, produced, flag, errorVars, outcome, history>>

CancelNotifies(t) ==
  /\ pc[t] = "cancelled"
  /\ asleep' = asleep \ (PushWaiters(at[t]) \cup PopWaiters(at[t]))
  /\ at' = [at EXCEPT ![t] = @ + 1]
  /\ Goto(t, "cancel")
  /\ UNCHANGED <<queueVars, held, produced, flag, errorVars, outcome, history>>

CancelAllReturns(t) ==
  /\ pc[t] = "cancel" /\ at[t] \notin Queues
  /\ errorMutex' = IF errorMutex = t THEN -1 ELSE errorMutex
  /\ Goto(t, "done")
  /\ UNCHANGED <<queueVars, held, asleep, at, produced, flag, firstError, outcome, history>>

BugJoin ==
  /\ outcome = "none" /\ \A t \in Threads : pc[t] = "done"
  /\ outcome' = IF firstError # -1 THEN "rethrew" ELSE "returned"
  /\ UNCHANGED <<queueVars, pc, held, asleep, at, produced, flag, errorVars, history>>

\* run() has joined every thread: it rethrows, throws ChunkCancelled or returns
Join ==
  /\ outcome = "none" /\ \A t \in Threads : pc[t] = "done"
  /\ outcome' = IF firstError # -1 THEN "rethrew" ELSE IF flag THEN "cancelled" ELSE "returned"
  /\ UNCHANGED <<queueVars, pc, held, asleep, at, produced, flag, errorVars, history>>

SetCancelFlag ==
  /\ Cancels /\ ~ flag
  /\ flag' = TRUE
  /\ UNCHANGED <<queueVars, pc, held, asleep, at, produced, errorVars, outcome, history>>

ThreadSteps(t) ==
  \/ t # Consumer /\ (Push(t) \/ PushNotifies(t) \/ Close(t) \/ CloseNotifies(t))
  \/ t # Producer /\ (Pop(t) \/ PopNotifies(t))
  \/ LooksAtFlag(t)
  \/ t = Producer /\ Produce
  \/ Process(t)
  \/ t = Consumer /\ Consume
  \/ Throw(t) \/ CatchAll(t) \/ CancelQueue(t) \/ CancelNotifies(t) \/ CancelAllReturns(t)

Next == Join \/ SetCancelFlag \/ \E t \in Threads : ThreadSteps(t)

Spec == Init /\ [][Next]_vars

\* the system runs every thread that can run; user functions return
FairSpec == Spec /\ WF_vars(Join) /\ \A t \in Threads : WF_vars(ThreadSteps(t))

-----------------------------------------------------------------------------
(* Every variable is what its declaration says, and m_errorMutex is held   *)
(* only by a thread that is still cancelling the queues.                   *)
TypeOK ==
  /\ items \in [Queues -> Seq(1 .. N)]
  /\ closed \in [Queues -> BOOLEAN] /\ cancelledQ \in [Queues -> BOOLEAN]
  /\ pc \in [Threads -> {"check", "call", "push", "pushed", "pop", "popped", "close", "closed",
                         "error", "cancel", "cancelled", "done"}]
  /\ held \in [Threads -> 0 .. N]
  /\ asleep \subseteq Threads
  /\ at \in [Threads -> 0 .. S + 1]
  /\ produced \in 0 .. N /\ flag \in BOOLEAN
  /\ firstError \in Threads \cup {-1}
  /\ errorMutex \in Threads \cup {-1}
  /\ errorMutex # -1 => pc[errorMutex] \in {"cancel", "cancelled"}
  /\ outcome \in {"none", "rethrew", "cancelled", "returned"}
  /\ consumed \in Seq(1 .. N) /\ dropped \subseteq 1 .. N /\ late \in Nat

(* run() returns normally only when every tile was produced and each of    *)
(* them reached the consumer or was filtered out: no failure, abort or     *)
(* cancellation ends as a shorter result.                                  *)
NoSilentTruncation ==
  outcome = "returned" => ToSet(consumed) \cup dropped = 1 .. N

(* The consumer gets the tiles in order, each once, and none before all    *)
(* the earlier ones that were not filtered out, also while threads are     *)
(* failing and queues are being cancelled.                                 *)
ConsumedInOrder ==
  \A n \in 1 .. Len(consumed) :
    LET before == ToSet(SubSeq(consumed, 1, n - 1))
    IN consumed[n] \notin before /\ 1 .. consumed[n] - 1 \subseteq dropped \cup before

(* Peak memory is O(capacity): the queues at their capacity and one tile   *)
(* in the hands of each thread.                                            *)
InFlight ==
  {<<t, 0>> : t \in {u \in Threads : held[u] # 0}}
    \cup UNION {{<<q, n>> : n \in 1 .. Len(items[q])} : q \in Queues}

BoundedInFlight == Cardinality(InFlight) <= (S + 1) * Capacity + S + 2

(* Once the cancel flag is set, the consumer gets at most the tile it had  *)
(* already looked at the flag for.                                         *)
AtMostOneAfterCancel == late <= 1

(* run() ends, whatever fails, aborts or is cancelled: nobody sleeps on a  *)
(* queue whose other side has gone.                                        *)
Terminates == <>(outcome # "none")

=============================================================================
