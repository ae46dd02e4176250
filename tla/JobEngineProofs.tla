--------------------------- MODULE JobEngineProofs ---------------------------
(***************************************************************************)
(* Theorems about JobEngine.tla, for any jobs, priorities and pool sizes.  *)
(***************************************************************************)
EXTENDS JobEngine, SequenceTheorems, FiniteSetTheorems, WellFoundedInduction, TLAPS

-----------------------------------------------------------------------------
(* What the sequence operators do that stand for the C++ queues:           *)
(* RemoveFirst (std::erase / a filtered rebuild of the deque) and InsertAt *)
(* (push_back into the bucket of a priority).                              *)

(* No element occurs twice in q, and e occurs in q.                        *)
Distinct(q) == \A i, k \in DOMAIN q : q[i] = q[k] => i = k
Has(q, e) == \E i \in DOMAIN q : q[i] = e

(* A nonempty set of natural numbers has a least element, which Min finds. *)
LEMMA MinOfNats ==
  ASSUME NEW I, I \subseteq Nat, I # {}
  PROVE  Min(I) \in I /\ \A x \in I : Min(I) <= x
<1>1. PICK m \in I : \A y \in I : ~ <<y, m>> \in OpToRel(<, Nat)
  BY NatLessThanWellFounded, WFMin
<1>2. ASSUME NEW y \in I PROVE m <= y
  <2>1. ~ <<y, m>> \in {ss \in Nat \X Nat : ss[1] < ss[2]}
    BY <1>1 DEF OpToRel
  <2>2. <<y, m>> \in Nat \X Nat
    OBVIOUS
  <2>3. ~ y < m
    BY <2>1, <2>2
  <2>. QED BY <2>3
<1>. QED BY <1>2 DEF Min

(* RemoveAt drops one entry and keeps the others in place or one lower.    *)
LEMMA RemoveAtEntries ==
  ASSUME NEW S, NEW q \in Seq(S), NEW n \in 1 .. Len(q)
  PROVE  /\ RemoveAt(q, n) \in Seq(S)
         /\ Len(RemoveAt(q, n)) = Len(q) - 1
         /\ \A i \in 1 .. Len(q) - 1 : RemoveAt(q, n)[i] = IF i < n THEN q[i] ELSE q[i + 1]
<1>. DEFINE front == SubSeq(q, 1, n - 1)
            back == SubSeq(q, n + 1, Len(q))
<1>1. /\ front \in Seq(S) /\ Len(front) = n - 1
      /\ \A i \in 1 .. n - 1 : front[i] = q[i]
  BY SubSeqProperties
<1>2. /\ back \in Seq(S) /\ Len(back) = Len(q) - n
      /\ \A i \in 1 .. Len(q) - n : back[i] = q[n + i]
  BY SubSeqProperties
<1>3. RemoveAt(q, n) = front \o back
  BY DEF RemoveAt
<1>. HIDE DEF front, back
<1>4. /\ front \o back \in Seq(S)
      /\ Len(front \o back) = Len(q) - 1
      /\ \A i \in 1 .. Len(q) - 1 :
           (front \o back)[i] = IF i <= n - 1 THEN front[i] ELSE back[i - (n - 1)]
  <2>1. /\ front \o back \in Seq(S)
        /\ Len(front \o back) = Len(front) + Len(back)
        /\ \A i \in 1 .. Len(front) + Len(back) :
             (front \o back)[i] = IF i <= Len(front) THEN front[i] ELSE back[i - Len(front)]
    BY <1>1, <1>2, ConcatProperties
  <2>2. Len(front) = n - 1 /\ Len(front) + Len(back) = Len(q) - 1
    BY <1>1, <1>2
  <2>. QED BY <2>1, <2>2
<1>5. ASSUME NEW i \in 1 .. Len(q) - 1
      PROVE  (front \o back)[i] = IF i < n THEN q[i] ELSE q[i + 1]
  <2>1. CASE i < n
    BY <1>1, <1>4, <2>1
  <2>2. CASE ~ i < n
    <3>1. /\ (front \o back)[i] = back[i - (n - 1)]
          /\ i - (n - 1) \in 1 .. Len(q) - n
      BY <1>4, <2>2
    <3>2. back[i - (n - 1)] = q[n + (i - (n - 1))]
      BY <1>2, <3>1
    <3>. QED BY <2>2, <3>1, <3>2
  <2>. QED BY <2>1, <2>2
<1>. QED BY <1>3, <1>4, <1>5

(* InsertAt adds one entry and moves the later ones up.                    *)
LEMMA InsertAtEntries ==
  ASSUME NEW S, NEW q \in Seq(S), NEW n \in 1 .. Len(q) + 1, NEW e \in S
  PROVE  /\ InsertAt(q, n, e) \in Seq(S)
         /\ Len(InsertAt(q, n, e)) = Len(q) + 1
         /\ \A i \in 1 .. Len(q) + 1 :
              InsertAt(q, n, e)[i] = IF i < n THEN q[i] ELSE IF i = n THEN e ELSE q[i - 1]
<1>. DEFINE front == SubSeq(q, 1, n - 1)
            back == SubSeq(q, n, Len(q))
            head == front \o <<e>>
<1>1. /\ front \in Seq(S) /\ Len(front) = n - 1
      /\ \A i \in 1 .. n - 1 : front[i] = q[i]
  BY SubSeqProperties
<1>2. /\ back \in Seq(S) /\ Len(back) = Len(q) - n + 1
      /\ \A i \in 1 .. Len(q) - n + 1 : back[i] = q[n + i - 1]
  BY SubSeqProperties
<1>3. InsertAt(q, n, e) = head \o back
  BY DEF InsertAt
<1>. HIDE DEF front, back
<1>4. /\ head \in Seq(S) /\ Len(head) = n
      /\ \A i \in 1 .. n : head[i] = IF i < n THEN q[i] ELSE e
  <2>1. head = Append(front, e)
    BY <1>1, AppendIsConcat
  <2>2. /\ Append(front, e) \in Seq(S)
        /\ Len(Append(front, e)) = Len(front) + 1
        /\ \A i \in 1 .. Len(front) : Append(front, e)[i] = front[i]
        /\ Append(front, e)[Len(front) + 1] = e
    BY <1>1, AppendProperties
  <2>. HIDE DEF head
  <2>3. head[n] = e /\ Len(head) = n
    BY <1>1, <2>1, <2>2
  <2>4. ASSUME NEW i \in 1 .. n, i < n PROVE head[i] = q[i]
    BY <1>1, <2>1, <2>2, <2>4
  <2>. QED BY <2>1, <2>2, <2>3, <2>4
<1>. HIDE DEF head
<1>5. /\ head \o back \in Seq(S)
      /\ Len(head \o back) = Len(q) + 1
      /\ \A i \in 1 .. Len(q) + 1 :
           (head \o back)[i] = IF i <= n THEN head[i] ELSE back[i - n]
  <2>1. /\ head \o back \in Seq(S)
        /\ Len(head \o back) = Len(head) + Len(back)
        /\ \A i \in 1 .. Len(head) + Len(back) :
             (head \o back)[i] = IF i <= Len(head) THEN head[i] ELSE back[i - Len(head)]
    BY <1>2, <1>4, ConcatProperties
  <2>2. Len(head) = n /\ Len(head) + Len(back) = Len(q) + 1
    BY <1>2, <1>4
  <2>. QED BY <2>1, <2>2
<1>6. ASSUME NEW i \in 1 .. Len(q) + 1
      PROVE  (head \o back)[i] = IF i < n THEN q[i] ELSE IF i = n THEN e ELSE q[i - 1]
  <2>1. CASE i <= n
    BY <1>4, <1>5, <2>1
  <2>2. CASE ~ i <= n
    <3>1. (head \o back)[i] = back[i - n] /\ i - n \in 1 .. Len(q) - n + 1
      BY <1>5, <2>2
    <3>2. back[i - n] = q[n + (i - n) - 1]
      BY <1>2, <3>1
    <3>. QED BY <2>2, <3>1, <3>2
  <2>. QED BY <2>1, <2>2
<1>. QED BY <1>3, <1>5, <1>6

(* RemoveFirst of any sequence is a sequence over the same set.            *)
LEMMA RemoveFirstType ==
  ASSUME NEW S, NEW q \in Seq(S), NEW e
  PROVE  RemoveFirst(q, e) \in Seq(S)
<1>1. CASE ~ \E i \in 1 .. Len(q) : q[i] = e
  BY <1>1 DEF RemoveFirst
<1>2. CASE \E i \in 1 .. Len(q) : q[i] = e
  <2>. DEFINE I == {i \in 1 .. Len(q) : q[i] = e}
  <2>1. I \subseteq Nat /\ I # {}
    BY <1>2
  <2>2. Min(I) \in I
    <3>. HIDE DEF I
    <3>. QED BY <2>1, MinOfNats
  <2>3. RemoveFirst(q, e) = RemoveAt(q, Min(I))
    BY <1>2 DEF RemoveFirst, SelectInSeq
  <2>. QED BY <2>2, <2>3, RemoveAtEntries
<1>. QED BY <1>1, <1>2

(* The first k positions are the only sets of positions that are closed    *)
(* downwards, so such a set is determined by its size.                     *)
LEMMA DownwardClosed ==
  ASSUME NEW n \in Nat, NEW I, I \subseteq 1 .. n,
         \A i \in I, k \in 1 .. n : k <= i => k \in I
  PROVE  /\ Cardinality(I) \in 0 .. n
         /\ I = 1 .. Cardinality(I)
<1>. DEFINE out == {k \in 1 .. n + 1 : k \notin I}
<1>1. out \subseteq Nat /\ n + 1 \in out
  OBVIOUS
<1>2. Min(out) \in out /\ \A x \in out : Min(out) <= x
  <2>. HIDE DEF out
  <2>. QED BY <1>1, MinOfNats
<1>3. PICK m \in 1 .. n + 1 : m \notin I /\ \A x \in out : m <= x
  BY <1>2
<1>4. I = 1 .. m - 1
  <2>1. ASSUME NEW i \in I PROVE i \in 1 .. m - 1
    <3>1. i \in 1 .. n /\ ~ m <= i
      BY <1>3
    <3>. QED BY <3>1
  <2>2. ASSUME NEW i \in 1 .. m - 1 PROVE i \in I
    <3>1. i \in 1 .. n + 1 /\ ~ m <= i
      OBVIOUS
    <3>. QED BY <1>3, <3>1
  <2>. QED BY <2>1, <2>2
<1>5. Cardinality(1 .. m - 1) = m - 1
  BY FS_Interval
<1>. QED BY <1>4, <1>5

(* RemoveFirst on a sequence without repetitions takes the entry out and   *)
(* leaves exactly the others, in their order.                              *)
LEMMA RemoveFirstEntries ==
  ASSUME NEW S, NEW q \in Seq(S), NEW e, Distinct(q)
  PROVE  /\ RemoveFirst(q, e) \in Seq(S)
         /\ Distinct(RemoveFirst(q, e))
         /\ \A x : Has(RemoveFirst(q, e), x) <=> Has(q, x) /\ x # e
         /\ Len(RemoveFirst(q, e)) = IF Has(q, e) THEN Len(q) - 1 ELSE Len(q)
         /\ \A i, k \in DOMAIN RemoveFirst(q, e) : i < k =>
              \E g, h \in DOMAIN q : /\ g < h
                                    /\ RemoveFirst(q, e)[i] = q[g]
                                    /\ RemoveFirst(q, e)[k] = q[h]
<1>1. CASE ~ \E i \in 1 .. Len(q) : q[i] = e
  <2>1. RemoveFirst(q, e) = q
    BY <1>1 DEF RemoveFirst
  <2>2. ~ Has(q, e)
    BY <1>1 DEF Has
  <2>3. \A x : Has(q, x) => x # e
    BY <2>2
  <2>. QED BY <2>1, <2>2, <2>3
<1>2. CASE \E i \in 1 .. Len(q) : q[i] = e
  <2>. DEFINE I == {i \in 1 .. Len(q) : q[i] = e}
              n == Min(I)
  <2>1. n \in 1 .. Len(q) /\ q[n] = e
    <3>1. I \subseteq Nat /\ I # {}
      BY <1>2
    <3>. HIDE DEF I
    <3>2. n \in I
      BY <3>1, MinOfNats
    <3>. QED BY <3>2 DEF I
  <2>2. RemoveFirst(q, e) = RemoveAt(q, n)
    BY <1>2 DEF RemoveFirst, SelectInSeq
  <2>3. /\ RemoveAt(q, n) \in Seq(S)
        /\ Len(RemoveAt(q, n)) = Len(q) - 1
        /\ \A i \in 1 .. Len(q) - 1 : RemoveAt(q, n)[i] = IF i < n THEN q[i] ELSE q[i + 1]
    BY <2>1, RemoveAtEntries
  <2>. HIDE DEF n, I
  <2>. DEFINE r == RemoveAt(q, n)
  <2>. HIDE DEF r
  <2>4. Distinct(r)
    BY <2>1, <2>3 DEF Distinct, r
  <2>5. ASSUME NEW x PROVE Has(r, x) <=> Has(q, x) /\ x # e
    <3>1. ASSUME Has(r, x) PROVE Has(q, x) /\ x # e
      <4>1. PICK i \in 1 .. Len(q) - 1 : r[i] = x
        BY <2>3, <3>1 DEF Has, r
      <4>2. CASE i < n
        <5>1. q[i] = x /\ i \in DOMAIN q /\ i # n
          BY <2>1, <2>3, <4>1, <4>2 DEF r
        <5>. QED BY <2>1, <5>1 DEF Has, Distinct
      <4>3. CASE ~ i < n
        <5>1. q[i + 1] = x /\ i + 1 \in DOMAIN q /\ i + 1 # n
          BY <2>1, <2>3, <4>1, <4>3 DEF r
        <5>. QED BY <2>1, <5>1 DEF Has, Distinct
      <4>. QED BY <4>2, <4>3
    <3>2. ASSUME Has(q, x), x # e PROVE Has(r, x)
      <4>1. PICK i \in 1 .. Len(q) : q[i] = x
        BY <3>2 DEF Has
      <4>2. CASE i < n
        BY <2>1, <2>3, <4>1, <4>2 DEF Has, r
      <4>3. CASE i > n
        <5>1. i - 1 \in 1 .. Len(q) - 1 /\ r[i - 1] = q[i]
          BY <2>1, <2>3, <4>1, <4>3 DEF r
        <5>. QED BY <5>1, <4>1, <2>3 DEF Has, r
      <4>. QED BY <2>1, <3>2, <4>1, <4>2, <4>3
    <3>. QED BY <3>1, <3>2
  <2>6. Has(q, e)
    BY <2>1 DEF Has
  <2>7. ASSUME NEW i \in DOMAIN r, NEW k \in DOMAIN r, i < k
        PROVE  \E g, h \in DOMAIN q : g < h /\ r[i] = q[g] /\ r[k] = q[h]
    <3>1. DOMAIN r = 1 .. Len(q) - 1
      BY <2>3 DEF r
    <3>. DEFINE from(x) == IF x < n THEN x ELSE x + 1
    <3>2. from(i) \in DOMAIN q /\ from(k) \in DOMAIN q /\ from(i) < from(k)
      BY <2>1, <2>7, <3>1
    <3>3. r[i] = q[from(i)] /\ r[k] = q[from(k)]
      BY <2>3, <3>1 DEF r
    <3>. QED BY <3>2, <3>3
  <2>. QED BY <2>2, <2>3, <2>4, <2>5, <2>6, <2>7 DEF r
<1>. QED BY <1>1, <1>2

-----------------------------------------------------------------------------
(* Types.                                                                  *)

(* Enqueueing and dequeueing keep the queues sequences of jobs.            *)
LEMMA EnqueueType ==
  ASSUME queue \in Seq(Jobs), exclusiveQueue \in Seq(Jobs), queuedCount \in Int,
         NEW j \in Jobs, EnqueueJob(j)
  PROVE  queue' \in Seq(Jobs) /\ exclusiveQueue' \in Seq(Jobs) /\ queuedCount' \in Int
<1>1. Cardinality(Ahead(j)) + 1 \in 1 .. Len(queue) + 1
  <2>1. IsFiniteSet(1 .. Len(queue)) /\ Cardinality(1 .. Len(queue)) = Len(queue)
    BY FS_Interval
  <2>2. Ahead(j) \subseteq 1 .. Len(queue)
    BY DEF Ahead
  <2>3. /\ Cardinality(Ahead(j)) \in Nat
        /\ Cardinality(Ahead(j)) <= Len(queue)
    BY <2>1, <2>2, FS_Subset, FS_CardinalityType
  <2>. QED BY <2>3
<1>2. InsertAt(queue, Cardinality(Ahead(j)) + 1, j) \in Seq(Jobs)
  BY <1>1, InsertAtEntries
<1>3. Append(exclusiveQueue, j) \in Seq(Jobs)
  OBVIOUS
<1>4. CASE j \in Exclusive
  BY <1>3, <1>4 DEF EnqueueJob
<1>5. CASE j \notin Exclusive
  BY <1>2, <1>5 DEF EnqueueJob
<1>. QED BY <1>4, <1>5

LEMMA DequeueType ==
  ASSUME queue \in Seq(Jobs), exclusiveQueue \in Seq(Jobs), queuedCount \in Int,
         NEW j \in Jobs, DequeueJob(j)
  PROVE  queue' \in Seq(Jobs) /\ exclusiveQueue' \in Seq(Jobs) /\ queuedCount' \in Int
BY RemoveFirstType DEF DequeueJob

USE DEF vars, queueVars, poolVars, recordVars, threadVars, callVars, shutdownVars, history

LEMMA WorkerKeepsType ==
  ASSUME TypeOK, NEW t \in Threads, WorkerStep(t)
  PROVE  TypeOK'
<1>1. CASE WorkerPicks(t)
  <2>1. PICK j \in Jobs : TryPickJob(j) /\ cur' = [cur EXCEPT ![t] = j]
    BY <1>1 DEF WorkerPicks
  <2>2. /\ queue' \in Seq(Jobs) /\ exclusiveQueue' \in Seq(Jobs)
        /\ exclusiveRunning' \in BOOLEAN
    <3>1. CASE PickExclusive(j)
      <4>1. Tail(exclusiveQueue) \in Seq(Jobs)
        BY <3>1, HeadTailProperties DEF TypeOK, PickExclusive
      <4>. QED BY <3>1, <4>1 DEF TypeOK, PickExclusive
    <3>2. CASE PickByPriority(j)
      <4>1. Tail(queue) \in Seq(Jobs)
        BY <3>2, HeadTailProperties DEF TypeOK, PickByPriority
      <4>2. exclusiveRunning' = (j \in Exclusive)
        BY <3>2 DEF PickByPriority
      <4>. QED BY <3>2, <4>1, <4>2 DEF TypeOK, PickByPriority
    <3>. QED BY <2>1, <3>1, <3>2 DEF TryPickJob
  <2>3. /\ state' \in [Jobs -> JobStates]
        /\ queuedCount' \in Int /\ running' \in Nat
    BY <2>1 DEF TypeOK, TryPickJob, JobStates
  <2>. QED BY <1>1, <2>1, <2>2, <2>3 DEF TypeOK, WorkerPicks
<1>2. CASE WorkerSleeps(t)
  BY <1>2 DEF TypeOK, WorkerSleeps
<1>3. CASE WorkerExits(t)
  BY <1>3 DEF TypeOK, WorkerExits, NotifyAll, WakeWaiters
<1>4. CASE RunOperatorJob(t)
  <2>1. pc' = [NotifyAll(pc) EXCEPT ![t] = "body"] \/ pc' = [pc EXCEPT ![t] = "body"]
    BY <1>4 DEF RunOperatorJob
  <2>2. pc' \in [Threads -> {"unspawned", "ready", "asleep", "picked", "body", "ended",
                             "noting", "waking", "exited"}]
    <3>1. CASE pc' = [pc EXCEPT ![t] = "body"]
      BY <3>1 DEF TypeOK
    <3>2. CASE pc' = [NotifyAll(pc) EXCEPT ![t] = "body"]
      BY <3>2 DEF TypeOK, NotifyAll
    <3>. QED BY <2>1, <3>1, <3>2
  <2>6. \A u \in Threads : u # t => pc'[u] = pc[u] \/ pc'[u] = "ready"
    <3>1. CASE pc' = [pc EXCEPT ![t] = "body"]
      BY <3>1 DEF TypeOK
    <3>2. CASE pc' = [NotifyAll(pc) EXCEPT ![t] = "body"]
      BY <3>2 DEF TypeOK, NotifyAll
    <3>. QED BY <2>1, <3>1, <3>2
  <2>7. pc'[t] = "body"
    BY <2>1 DEF TypeOK, NotifyAll
  <2>3. cancelFlag' \in [Jobs -> {"none", "clear", "set"}]
    BY <1>4 DEF TypeOK, RunOperatorJob, ArmedFlag
  <2>4. /\ deadlines' \subseteq Jobs
        /\ wait' \in [Jobs -> {"none", "asleep", "ready", "true", "false"}]
    BY <1>4 DEF TypeOK, RunOperatorJob, WakeWaiters
  <2>5. pc[t] = "picked" /\ cur[t] \in Jobs
    BY <1>4 DEF TypeOK, RunOperatorJob
  <2>. QED BY <1>4, <2>2, <2>3, <2>4, <2>5, <2>6, <2>7 DEF TypeOK, RunOperatorJob
<1>5. CASE BodyEnds(t)
  BY <1>5 DEF TypeOK, BodyEnds, Terminal
<1>6. CASE UnknownAlgorithm(t)
  BY <1>6 DEF TypeOK, UnknownAlgorithm, Terminal
<1>7. CASE FinishTerminal(t)
  BY <1>7, PoolAssumption DEF TypeOK, FinishTerminal, FinishJobLocked, ReleaseTransient, JobStates, Terminal
<1>8. CASE WorkerNotes(t)
  <2>1. told' \in [Jobs -> Nat] /\ pc' = [pc EXCEPT ![t] = "waking"]
    BY <1>8 DEF TypeOK, WorkerNotes
  <2>2. pc' \in [Threads -> {"unspawned", "ready", "asleep", "picked", "body", "ended",
                             "noting", "waking", "exited"}]
    BY <2>1 DEF TypeOK
  <2>3. pc[t] = "noting" /\ cur[t] \in Jobs
    BY <1>8 DEF TypeOK, WorkerNotes
  <2>4. pc'[t] = "waking" /\ \A u \in Threads : u # t => pc'[u] = pc[u]
    BY <2>1 DEF TypeOK
  <2>. QED BY <1>8, <2>1, <2>2, <2>3, <2>4 DEF TypeOK, WorkerNotes
<1>9. CASE WorkerWakes(t)
  BY <1>9 DEF TypeOK, WorkerWakes, NotifyAll, WakeWaiters
<1>. QED
  BY <1>1, <1>2, <1>3, <1>4, <1>5, <1>6, <1>7, <1>8, <1>9 DEF WorkerStep

LEMMA CancelKeepsType ==
  ASSUME TypeOK, NEW j \in Jobs, CancelLocked(j)
  PROVE  /\ state' \in [Jobs -> JobStates]
         /\ queue' \in Seq(Jobs) /\ exclusiveQueue' \in Seq(Jobs) /\ queuedCount' \in Int
         /\ running' \in Nat /\ exclusiveRunning' \in BOOLEAN
         /\ allowance' \in 0 .. MaxTransient /\ backed' \subseteq Jobs
         /\ cancelFlag' \in [Jobs -> {"none", "clear", "set"}]
         /\ body' \in [Jobs -> {"none", "executor", "hook"}]
         /\ deadlines' \subseteq Jobs
         /\ cancelPc' \in [Jobs -> {"none", "hook", "hookThenWake", "wake", "note"}]
         /\ asked' \subseteq Jobs
<1>1. CASE CancelQueued(j)
  BY <1>1, PoolAssumption, DequeueType DEF TypeOK, CancelQueued, ReleaseTransient, JobStates, Terminal
<1>2. CASE CancelRunning(j)
  BY <1>2 DEF TypeOK, CancelRunning, TakeHook
<1>. QED BY <1>1, <1>2 DEF CancelLocked

LEMMA CallKeepsType ==
  ASSUME TypeOK, NEW j \in Jobs, CallStep(j)
  PROVE  TypeOK'
<1>1. CASE SubmitWakes(j)
  BY <1>1 DEF TypeOK, SubmitWakes, NotifyAll, WakeWaiters
<1>2. CASE SubmitNotes(j)
  BY <1>2 DEF TypeOK, SubmitNotes
<1>3. CASE CancelRunsHook(j)
  BY <1>3 DEF TypeOK, CancelRunsHook, AfterHook
<1>4. CASE CancelWakes(j)
  BY <1>4 DEF TypeOK, CancelWakes, NotifyAll, WakeWaiters
<1>5. CASE CancelNotes(j)
  BY <1>5 DEF TypeOK, CancelNotes
<1>6. CASE WaiterLooks(j)
  BY <1>6 DEF TypeOK, WaiterLooks
<1>. QED BY <1>1, <1>2, <1>3, <1>4, <1>5, <1>6 DEF CallStep

LEMMA ShutdownKeepsType ==
  ASSUME TypeOK, ShutdownStep
  PROVE  TypeOK'
<1>1. CASE ShutdownWakes
  BY <1>1 DEF TypeOK, ShutdownWakes, NotifyAll, WakeWaiters
<1>2. CASE ShutdownReturns
  BY <1>2 DEF TypeOK, ShutdownReturns
<1>3. ASSUME NEW j \in Jobs, ShutdownRunsHook(j) PROVE TypeOK'
  BY <1>3 DEF TypeOK, ShutdownRunsHook
<1>4. ASSUME NEW j \in Jobs, ShutdownNotes(j) PROVE TypeOK'
  BY <1>4 DEF TypeOK, ShutdownNotes
<1>. QED BY <1>1, <1>2, <1>3, <1>4 DEF ShutdownStep

LEMMA RequestKeepsType ==
  ASSUME TypeOK, Request
  PROVE  TypeOK'
<1>1. ASSUME NEW j \in Jobs, SubmitWithId(j) PROVE TypeOK'
  <2>1. CASE terminated
    <3>1. /\ state' = [state EXCEPT ![j] = "Cancelled"]
          /\ submitPc' = [submitPc EXCEPT ![j] = "refused"]
          /\ UNCHANGED <<queueVars, allowance, backed, body, pc>>
      BY <1>1, <2>1 DEF SubmitWithId
    <3>2. state' \in [Jobs -> JobStates]
      BY <3>1 DEF TypeOK, JobStates, Terminal
    <3>. QED BY <1>1, <3>1, <3>2 DEF TypeOK, SubmitWithId
  <2>2. CASE ~ terminated
    <3>0. /\ state' = [state EXCEPT ![j] = "Queued"]
          /\ submitPc' = [submitPc EXCEPT ![j] = "wake"]
          /\ body' = [body EXCEPT ![j] = IF j \in Hooked THEN "hook"
                                         ELSE IF j \in Callable THEN "executor" ELSE "none"]
      BY <1>1, <2>2 DEF SubmitWithId
    <3>1. /\ state' \in [Jobs -> JobStates]
          /\ submitPc' \in [Jobs -> {"none", "wake", "refused", "note"}]
          /\ body' \in [Jobs -> {"none", "executor", "hook"}]
      BY <3>0 DEF TypeOK, JobStates
    <3>2. queue' \in Seq(Jobs) /\ exclusiveQueue' \in Seq(Jobs) /\ queuedCount' \in Int
      BY <1>1, <2>2, EnqueueType DEF TypeOK, SubmitWithId
    <3>3. allowance' \in 0 .. MaxTransient /\ backed' \subseteq Jobs
      BY <1>1, <2>2, PoolAssumption DEF TypeOK, SubmitWithId, IsBacked
    <3>4. \A t \in Threads : pc'[t] \in {pc[t], "ready"}
      BY <1>1, <2>2 DEF TypeOK, SubmitWithId, EnsureWorkers
    <3>5. pc' = [t \in Threads |-> pc'[t]]
      BY <1>1, <2>2 DEF SubmitWithId, EnsureWorkers
    <3>. QED BY <1>1, <3>1, <3>2, <3>3, <3>4, <3>5 DEF TypeOK, SubmitWithId
  <2>. QED BY <2>1, <2>2
<1>2. ASSUME NEW j \in Jobs, Cancel(j) PROVE TypeOK'
  BY <1>2, CancelKeepsType DEF TypeOK, Cancel
<1>3. ASSUME NEW j \in Jobs, WaitForJob(j) PROVE TypeOK'
  BY <1>3 DEF TypeOK, WaitForJob
<1>4. ASSUME NEW j \in Jobs, WatchdogPops(j) PROVE TypeOK'
  BY <1>4 DEF TypeOK, WatchdogPops
<1>5. ASSUME NEW S \in SUBSET Prunable, Prune(S) PROVE TypeOK'
  BY <1>5 DEF TypeOK, Prune, JobStates
<1>6. ASSUME NEW n \in PoolSizes, SetMaxWorkers(n) PROVE TypeOK'
  BY <1>6, PoolAssumption DEF TypeOK, SetMaxWorkers, Clamped, NotifyAll, EnsureWorkers, WakeWaiters
<1>7. CASE Shutdown
  <2>1. cancelFlag' \in [Jobs -> {"none", "clear", "set"}]
    BY <1>7 DEF TypeOK, Shutdown
  <2>2. body' \in [Jobs -> {"none", "executor", "hook"}]
    BY <1>7 DEF TypeOK, Shutdown
  <2>3. state' \in [Jobs -> JobStates]
    BY <1>7 DEF TypeOK, Shutdown, JobStates, Terminal
  <2>4. asked' \subseteq Jobs /\ shutdownHooks' \subseteq Jobs /\ shutdownNotes' \subseteq Jobs
    BY <1>7 DEF TypeOK, Shutdown, Drained, Running, InState, ToSet
  <2>. QED BY <1>7, <2>1, <2>2, <2>3, <2>4 DEF TypeOK, Shutdown
<1>. QED BY <1>1, <1>2, <1>3, <1>4, <1>5, <1>6, <1>7 DEF Request

LEMMA TypeInductive == TypeOK /\ [Next]_vars => TypeOK'
<1>. SUFFICES ASSUME TypeOK, [Next]_vars PROVE TypeOK'
  OBVIOUS
<1>1. CASE WatchdogCancels
  BY <1>1, CancelKeepsType DEF TypeOK, WatchdogCancels
<1>2. CASE UNCHANGED vars
  BY <1>2 DEF TypeOK
<1>. QED BY <1>1, <1>2, WorkerKeepsType, CallKeepsType, ShutdownKeepsType, RequestKeepsType DEF Next

LEMMA TypeInitially == Init => TypeOK
<1>. SUFFICES ASSUME Init PROVE TypeOK
  OBVIOUS
<1>1. /\ queue \in Seq(Jobs) /\ exclusiveQueue \in Seq(Jobs)
      /\ queuedCount \in Int /\ running \in Nat /\ allowance \in 0 .. MaxTransient
      /\ maxWorkers \in MinWorkers .. MaxWorkersOverride
  BY PoolAssumption DEF Init
<1>2. /\ state \in [Jobs -> JobStates]
      /\ cancelFlag \in [Jobs -> {"none", "clear", "set"}]
      /\ body \in [Jobs -> {"none", "executor", "hook"}]
      /\ submitPc \in [Jobs -> {"none", "wake", "refused", "note"}]
      /\ cancelPc \in [Jobs -> {"none", "hook", "hookThenWake", "wake", "note"}]
      /\ wait \in [Jobs -> {"none", "asleep", "ready", "true", "false"}]
      /\ hookRuns \in [Jobs -> Nat] /\ told \in [Jobs -> Nat]
  BY DEF Init, JobStates
<1>. QED BY <1>1, <1>2 DEF Init, TypeOK

(* Every variable keeps its type, a worker that holds a job knows which,   *)
(* and the transient allowance stays in its bounds, for any constants.     *)
THEOREM TypeCorrect == Spec => []TypeOK
BY TypeInitially, TypeInductive, PTL DEF Spec

-----------------------------------------------------------------------------
(* The queues.                                                             *)

(* More urgent entries come first.                                         *)
Sorted(q) == \A i, k \in DOMAIN q : i < k => Priority[q[i]] <= Priority[q[k]]

QueuesWellFormed ==
  /\ queue \in Seq(Jobs) /\ exclusiveQueue \in Seq(Jobs)
  /\ Distinct(queue) /\ Distinct(exclusiveQueue)
  /\ Sorted(queue)
  /\ queuedCount = Len(queue) + Len(exclusiveQueue)

(* What the two queues hold, read as sets.                                 *)
Holds(ordinary, exclusive) ==
  /\ \A x : Has(queue, x) <=> x \in ordinary
  /\ \A x : Has(exclusiveQueue, x) <=> x \in exclusive

(* Putting a job into the ordinary queue at m moves the later ones up.      *)
LEMMA InsertAtQueue ==
  ASSUME queue \in Seq(Jobs), NEW j \in Jobs, NEW m \in 1 .. Len(queue) + 1
  PROVE  /\ InsertAt(queue, m, j) \in Seq(Jobs)
         /\ Len(InsertAt(queue, m, j)) = Len(queue) + 1
         /\ \A i \in 1 .. Len(queue) + 1 : InsertAt(queue, m, j)[i] =
              IF i < m THEN queue[i] ELSE IF i = m THEN j ELSE queue[i - 1]
BY InsertAtEntries

(* Enqueueing puts the job into one of the queues, in its place.           *)
LEMMA EnqueueEntries ==
  ASSUME QueuesWellFormed, NEW O, NEW X, Holds(O, X),
         NEW j \in Jobs, j \notin O \cup X, EnqueueJob(j)
  PROVE  /\ QueuesWellFormed'
         /\ j \in Exclusive => Holds(O, X \cup {j})'
         /\ j \notin Exclusive => Holds(O \cup {j}, X)'
<1>1. CASE j \in Exclusive
  <2>1. /\ exclusiveQueue' = Append(exclusiveQueue, j)
        /\ queue' = queue /\ queuedCount' = queuedCount + 1
    BY <1>1 DEF EnqueueJob
  <2>. DEFINE r == Append(exclusiveQueue, j)
              n == Len(exclusiveQueue)
  <2>2. /\ r \in Seq(Jobs) /\ Len(r) = n + 1 /\ DOMAIN r = 1 .. n + 1
        /\ \A i \in 1 .. n : r[i] = exclusiveQueue[i]
        /\ r[n + 1] = j
    BY AppendProperties, LenProperties DEF QueuesWellFormed
  <2>3. exclusiveQueue \in Seq(Jobs) /\ n \in Nat /\ DOMAIN exclusiveQueue = 1 .. n
    BY LenProperties DEF QueuesWellFormed
  <2>4. \A i \in 1 .. n : exclusiveQueue[i] # j
    BY <2>3 DEF Holds, Has
  <2>. HIDE DEF r, n
  <2>5. Distinct(r)
    BY <2>2, <2>3, <2>4 DEF Distinct, QueuesWellFormed
  <2>6. ASSUME NEW x PROVE Has(r, x) <=> x \in X \cup {j}
    <3>1. Has(r, x) <=> Has(exclusiveQueue, x) \/ x = j
      BY <2>2, <2>3 DEF Has
    <3>. QED BY <3>1 DEF Holds
  <2>7. QueuesWellFormed'
    BY <2>1, <2>2, <2>3, <2>5 DEF QueuesWellFormed, Sorted, r, n
  <2>8. Holds(O, X \cup {j})'
    BY <2>1, <2>6 DEF Holds, r
  <2>. QED BY <1>1, <2>7, <2>8
<1>2. CASE j \notin Exclusive
  <2>. DEFINE n == Len(queue)
              p == Cardinality(Ahead(j))
              r == InsertAt(queue, p + 1, j)
  <2>1. queue' = r /\ exclusiveQueue' = exclusiveQueue /\ queuedCount' = queuedCount + 1
    BY <1>2 DEF EnqueueJob
  <2>2. queue \in Seq(Jobs) /\ n \in Nat /\ DOMAIN queue = 1 .. n /\ \A i \in 1 .. n : queue[i] \in Jobs
    BY LenProperties, ElementOfSeq DEF QueuesWellFormed
  <2>3. p \in 0 .. n /\ Ahead(j) = 1 .. p
    <3>1. Ahead(j) \subseteq 1 .. n
      BY <2>2 DEF Ahead
    <3>2. ASSUME NEW i \in Ahead(j), NEW k \in 1 .. n, k <= i PROVE k \in Ahead(j)
      <4>1. Priority[queue[i]] <= Priority[j] /\ i \in 1 .. n
        BY <2>2 DEF Ahead
      <4>2. Priority[queue[k]] <= Priority[queue[i]]
        <5>1. CASE k < i
          BY <2>2, <3>2, <4>1, <5>1 DEF QueuesWellFormed, Sorted
        <5>2. CASE k = i
          BY <2>2, <5>2, JobsAssumption
        <5>. QED BY <3>1, <3>2, <5>1, <5>2
      <4>3. Priority[queue[k]] \in Int /\ Priority[queue[i]] \in Int /\ Priority[j] \in Int
        BY <2>2, <4>1, JobsAssumption
      <4>. QED BY <2>2, <4>1, <4>2, <4>3 DEF Ahead
    <3>. HIDE DEF n
    <3>. QED BY <2>2, <3>1, <3>2, DownwardClosed
  <2>4. /\ r \in Seq(Jobs) /\ Len(r) = n + 1
        /\ \A i \in 1 .. n + 1 : r[i] = IF i < p + 1 THEN queue[i] ELSE IF i = p + 1 THEN j ELSE queue[i - 1]
    <3>1. p + 1 \in 1 .. Len(queue) + 1
      BY <2>2, <2>3
    <3>2. queue \in Seq(Jobs) /\ j \in Jobs
      BY <2>2
    <3>. HIDE DEF p
    <3>. QED BY <3>1, <3>2, InsertAtQueue
  <2>5. DOMAIN r = 1 .. n + 1
    BY <2>4, LenProperties
  <2>6. \A i \in 1 .. n : queue[i] # j
    BY <2>2 DEF Holds, Has
  <2>. HIDE DEF r, n, p
  <2>7. Distinct(r)
    <3>1. \A l, m \in 1 .. n : queue[l] = queue[m] => l = m
      BY <2>2 DEF Distinct, QueuesWellFormed
    <3>2. ASSUME NEW i \in 1 .. n + 1, i # p + 1
          PROVE  /\ r[i] = queue[IF i < p + 1 THEN i ELSE i - 1]
                 /\ (IF i < p + 1 THEN i ELSE i - 1) \in 1 .. n
                 /\ r[i] # j
      BY <2>2, <2>3, <2>4, <2>6, <3>2
    <3>3. ASSUME NEW i \in 1 .. n + 1, NEW k \in 1 .. n + 1, r[i] = r[k] PROVE i = k
      <4>1. r[p + 1] = j
        BY <2>2, <2>3, <2>4
      <4>2. CASE i = p + 1 \/ k = p + 1
        BY <3>2, <3>3, <4>1, <4>2
      <4>3. CASE i # p + 1 /\ k # p + 1
        <5>1. (IF i < p + 1 THEN i ELSE i - 1) = (IF k < p + 1 THEN k ELSE k - 1)
          BY <3>1, <3>2, <3>3, <4>3
        <5>. QED BY <2>3, <4>3, <5>1
      <4>. QED BY <4>2, <4>3
    <3>. QED BY <2>5, <3>3 DEF Distinct
  <2>8. ASSUME NEW x PROVE Has(r, x) <=> x \in O \cup {j}
    <3>1. ASSUME NEW i \in 1 .. n + 1, r[i] = x PROVE Has(queue, x) \/ x = j
      <4>1. CASE i < p + 1
        <5>1. i \in DOMAIN queue /\ queue[i] = x
          BY <2>2, <2>3, <2>4, <3>1, <4>1
        <5>. QED BY <5>1 DEF Has
      <4>2. CASE i = p + 1
        BY <2>3, <2>4, <3>1, <4>2
      <4>3. CASE i > p + 1
        <5>1. i - 1 \in DOMAIN queue /\ queue[i - 1] = x
          BY <2>2, <2>3, <2>4, <3>1, <4>3
        <5>. QED BY <5>1 DEF Has
      <4>. QED BY <2>3, <4>1, <4>2, <4>3
    <3>2. ASSUME NEW i \in 1 .. n, queue[i] = x PROVE Has(r, x)
      <4>1. CASE i < p + 1
        <5>1. i \in DOMAIN r /\ r[i] = queue[i]
          BY <2>2, <2>3, <2>4, <2>5, <4>1
        <5>. QED BY <3>2, <5>1 DEF Has
      <4>2. CASE ~ i < p + 1
        <5>1. i + 1 \in DOMAIN r /\ r[i + 1] = queue[i]
          BY <2>2, <2>3, <2>4, <2>5, <4>2
        <5>. QED BY <3>2, <5>1 DEF Has
      <4>. QED BY <4>1, <4>2
    <3>3. Has(r, j)
      BY <2>2, <2>3, <2>4, <2>5 DEF Has
    <3>4. Has(r, x) <=> Has(queue, x) \/ x = j
      BY <2>2, <2>5, <3>1, <3>2, <3>3 DEF Has
    <3>. QED BY <3>4 DEF Holds
  <2>9. Sorted(r)
    <3>. SUFFICES ASSUME NEW i \in 1 .. n + 1, NEW k \in 1 .. n + 1, i < k
                  PROVE  Priority[r[i]] <= Priority[r[k]]
      BY <2>5 DEF Sorted
    <3>1. \A m \in 1 .. n : Priority[queue[m]] <= Priority[j] <=> m <= p
      BY <2>2, <2>3 DEF Ahead
    <3>2. \A m \in 1 .. n : Priority[queue[m]] \in Int
      BY <2>2, JobsAssumption
    <3>3. \A l, m \in 1 .. n : l < m => Priority[queue[l]] <= Priority[queue[m]]
      BY <2>2 DEF QueuesWellFormed, Sorted
    <3>4. Priority[j] \in Int
      BY JobsAssumption
    <3>5. CASE k < p + 1
      BY <2>2, <2>3, <2>4, <3>3, <3>5
    <3>6. CASE k = p + 1
      BY <2>2, <2>3, <2>4, <3>1, <3>6
    <3>7. CASE k > p + 1
      <4>1. k - 1 \in 1 .. n /\ r[k] = queue[k - 1]
        BY <2>2, <2>3, <2>4, <3>7
      <4>2. CASE i < p + 1
        BY <2>2, <2>3, <2>4, <3>3, <3>7, <4>1, <4>2
      <4>3. CASE i = p + 1
        <5>1. ~ Priority[queue[k - 1]] <= Priority[j]
          BY <2>2, <2>3, <3>1, <3>7, <4>1
        <5>2. r[i] = j
          BY <2>4, <4>3
        <5>. QED BY <3>2, <3>4, <4>1, <5>1, <5>2
      <4>4. CASE i > p + 1
        <5>1. i - 1 \in 1 .. n /\ r[i] = queue[i - 1] /\ i - 1 < k - 1
          BY <2>2, <2>3, <2>4, <4>4
        <5>. QED BY <3>3, <4>1, <5>1
      <4>. QED BY <2>3, <4>2, <4>3, <4>4
    <3>. QED BY <2>2, <2>3, <3>5, <3>6, <3>7
  <2>10. QueuesWellFormed'
    <3>1. Len(r) + Len(exclusiveQueue) = queuedCount + 1
      <4>1. Len(exclusiveQueue) \in Nat /\ queuedCount = n + Len(exclusiveQueue)
        BY DEF QueuesWellFormed, n
      <4>. QED BY <2>2, <2>4, <4>1
    <3>. QED BY <2>1, <2>4, <2>7, <2>9, <3>1 DEF QueuesWellFormed, r, Sorted
  <2>11. Holds(O \cup {j}, X)'
    BY <2>1, <2>8 DEF Holds
  <2>. QED BY <1>2, <2>10, <2>11
<1>. QED BY <1>1, <1>2

(* Dequeueing takes the job out of the queue it is in, and only it.        *)
LEMMA DequeueEntries ==
  ASSUME QueuesWellFormed, NEW O, NEW X, Holds(O, X),
         NEW j \in Jobs, j \in Exclusive => j \in X /\ j \notin O,
         j \notin Exclusive => j \in O /\ j \notin X, DequeueJob(j)
  PROVE  QueuesWellFormed' /\ Holds(O \ {j}, X \ {j})' /\ queuedCount' = queuedCount - 1
<1>1. /\ queue' = RemoveFirst(queue, j)
      /\ exclusiveQueue' = RemoveFirst(exclusiveQueue, j)
      /\ queuedCount' = queuedCount - 1
  <2>1. \A x : ~ Has(queue, x) => RemoveFirst(queue, x) = queue
    BY LenProperties DEF Has, RemoveFirst, QueuesWellFormed
  <2>2. \A x : ~ Has(exclusiveQueue, x) => RemoveFirst(exclusiveQueue, x) = exclusiveQueue
    BY LenProperties DEF Has, RemoveFirst, QueuesWellFormed
  <2>3. CASE j \in Exclusive
    <3>1. Has(exclusiveQueue, j) /\ ~ Has(queue, j)
      BY <2>3 DEF Holds
    <3>2. j \in ToSet(exclusiveQueue)
      BY <3>1 DEF ToSet, Has
    <3>. QED BY <2>1, <2>3, <3>1, <3>2 DEF DequeueJob
  <2>4. CASE j \notin Exclusive
    <3>1. Has(queue, j) /\ ~ Has(exclusiveQueue, j)
      BY <2>4 DEF Holds
    <3>2. j \in ToSet(queue)
      BY <3>1 DEF ToSet, Has
    <3>. QED BY <2>2, <2>4, <3>1, <3>2 DEF DequeueJob
  <2>. QED BY <2>3, <2>4
<1>2. /\ queue \in Seq(Jobs) /\ exclusiveQueue \in Seq(Jobs)
      /\ Distinct(queue) /\ Distinct(exclusiveQueue)
      /\ queuedCount = Len(queue) + Len(exclusiveQueue)
      /\ Sorted(queue)
  BY DEF QueuesWellFormed
<1>3. /\ queue' \in Seq(Jobs) /\ Distinct(queue')
      /\ \A x : Has(queue', x) <=> Has(queue, x) /\ x # j
      /\ Len(queue') = IF Has(queue, j) THEN Len(queue) - 1 ELSE Len(queue)
      /\ \A i, k \in DOMAIN queue' : i < k =>
           \E g, h \in DOMAIN queue : g < h /\ queue'[i] = queue[g] /\ queue'[k] = queue[h]
  BY <1>1, <1>2, RemoveFirstEntries
<1>4. /\ exclusiveQueue' \in Seq(Jobs) /\ Distinct(exclusiveQueue')
      /\ \A x : Has(exclusiveQueue', x) <=> Has(exclusiveQueue, x) /\ x # j
      /\ Len(exclusiveQueue') = IF Has(exclusiveQueue, j) THEN Len(exclusiveQueue) - 1
                                ELSE Len(exclusiveQueue)
  BY <1>1, <1>2, RemoveFirstEntries
<1>5. Len(queue) \in Nat /\ Len(exclusiveQueue) \in Nat
  BY <1>2, LenProperties
<1>6. queuedCount' = Len(queue') + Len(exclusiveQueue')
  <2>1. CASE Has(queue, j) /\ ~ Has(exclusiveQueue, j)
    BY <1>1, <1>2, <1>3, <1>4, <1>5, <2>1
  <2>2. CASE ~ Has(queue, j) /\ Has(exclusiveQueue, j)
    BY <1>1, <1>2, <1>3, <1>4, <1>5, <2>2
  <2>. QED BY <2>1, <2>2 DEF Holds
<1>7. Sorted(queue')
  <2>. SUFFICES ASSUME NEW i \in DOMAIN queue', NEW k \in DOMAIN queue', i < k
                PROVE  Priority[queue'[i]] <= Priority[queue'[k]]
    BY DEF Sorted
  <2>1. PICK g \in DOMAIN queue, h \in DOMAIN queue :
          g < h /\ queue'[i] = queue[g] /\ queue'[k] = queue[h]
    BY <1>3
  <2>. QED BY <1>2, <2>1 DEF Sorted
<1>8. QueuesWellFormed'
  BY <1>3, <1>4, <1>6, <1>7 DEF QueuesWellFormed, Sorted
<1>9. Holds(O \ {j}, X \ {j})'
  BY <1>3, <1>4 DEF Holds
<1>. QED BY <1>1, <1>8, <1>9

(* Taking the head of a queue without repetitions.                         *)
LEMMA TailEntries ==
  ASSUME NEW S, NEW q \in Seq(S), q # <<>>, Distinct(q)
  PROVE  /\ Tail(q) \in Seq(S) /\ Distinct(Tail(q))
         /\ Has(q, Head(q)) /\ Head(q) \in S
         /\ \A x : Has(Tail(q), x) <=> Has(q, x) /\ x # Head(q)
         /\ Len(Tail(q)) = Len(q) - 1
         /\ \A i \in DOMAIN Tail(q) : i + 1 \in DOMAIN q /\ Tail(q)[i] = q[i + 1]
<1>. DEFINE r == Tail(q)
<1>1. /\ r \in Seq(S) /\ Len(r) = Len(q) - 1 /\ Head(q) \in S
      /\ \A i \in 1 .. Len(r) : r[i] = q[i + 1]
  BY HeadTailProperties
<1>2. Head(q) = q[1] /\ Len(q) \in Nat \ {0} /\ DOMAIN q = 1 .. Len(q) /\ DOMAIN r = 1 .. Len(q) - 1
  BY <1>1, LenProperties, EmptySeq
<1>. HIDE DEF r
<1>3. Has(q, Head(q))
  BY <1>2 DEF Has
<1>4. \A i, k \in 1 .. Len(q) : q[i] = q[k] => i = k
  BY <1>2 DEF Distinct
<1>5. Distinct(r)
  BY <1>1, <1>2, <1>4 DEF Distinct
<1>6. ASSUME NEW x PROVE Has(r, x) <=> Has(q, x) /\ x # Head(q)
  <2>1. ASSUME NEW i \in 1 .. Len(q) - 1, r[i] = x PROVE Has(q, x) /\ x # Head(q)
    <3>1. i + 1 \in 1 .. Len(q) /\ q[i + 1] = x /\ i + 1 # 1
      BY <1>1, <1>2, <2>1
    <3>. QED BY <1>2, <1>4, <3>1 DEF Has
  <2>2. ASSUME NEW i \in 1 .. Len(q), q[i] = x, x # Head(q) PROVE Has(r, x)
    <3>1. i - 1 \in 1 .. Len(q) - 1 /\ r[i - 1] = x
      BY <1>1, <1>2, <2>2
    <3>. QED BY <1>2, <3>1 DEF Has
  <2>. QED BY <1>2, <2>1, <2>2 DEF Has
<1>7. \A i \in DOMAIN r : i + 1 \in DOMAIN q /\ r[i] = q[i + 1]
  BY <1>1, <1>2
<1>. QED BY <1>1, <1>3, <1>5, <1>6, <1>7 DEF r

(* A pick takes the head of the exclusive queue, or that of the other one. *)
LEMMA PickEntries ==
  ASSUME QueuesWellFormed, NEW O, NEW X, Holds(O, X), NEW j \in Jobs, TryPickJob(j)
  PROVE  /\ QueuesWellFormed'
         /\ PickExclusive(j) => j \in X /\ Holds(O, X \ {j})'
         /\ PickByPriority(j) => j \in O /\ Holds(O \ {j}, X)'
<1>1. queuedCount' = queuedCount - 1
  BY DEF TryPickJob
<1>2. /\ queue \in Seq(Jobs) /\ exclusiveQueue \in Seq(Jobs)
      /\ Distinct(queue) /\ Distinct(exclusiveQueue)
      /\ queuedCount = Len(queue) + Len(exclusiveQueue)
      /\ Sorted(queue)
      /\ Len(queue) \in Nat /\ Len(exclusiveQueue) \in Nat
  BY LenProperties DEF QueuesWellFormed
<1>3. ASSUME PickExclusive(j) PROVE QueuesWellFormed' /\ j \in X /\ Holds(O, X \ {j})'
  <2>1. /\ exclusiveQueue # <<>> /\ j = Head(exclusiveQueue)
        /\ exclusiveQueue' = Tail(exclusiveQueue) /\ queue' = queue
    BY <1>3 DEF PickExclusive
  <2>2. /\ exclusiveQueue' \in Seq(Jobs) /\ Distinct(exclusiveQueue')
        /\ Has(exclusiveQueue, j)
        /\ \A x : Has(exclusiveQueue', x) <=> Has(exclusiveQueue, x) /\ x # j
        /\ Len(exclusiveQueue') = Len(exclusiveQueue) - 1
    BY <1>2, <2>1, TailEntries
  <2>. QED BY <1>1, <1>2, <2>1, <2>2 DEF QueuesWellFormed, Sorted, Holds
<1>4. ASSUME PickByPriority(j) PROVE QueuesWellFormed' /\ j \in O /\ Holds(O \ {j}, X)'
  <2>1. /\ queue # <<>> /\ j = Head(queue)
        /\ queue' = Tail(queue) /\ exclusiveQueue' = exclusiveQueue
    BY <1>4 DEF PickByPriority
  <2>2. /\ queue' \in Seq(Jobs) /\ Distinct(queue')
        /\ Has(queue, j)
        /\ \A x : Has(queue', x) <=> Has(queue, x) /\ x # j
        /\ Len(queue') = Len(queue) - 1
        /\ \A i \in DOMAIN queue' : i + 1 \in DOMAIN queue /\ queue'[i] = queue[i + 1]
    BY <1>2, <2>1, TailEntries
  <2>3. Sorted(queue')
    <3>1. DOMAIN queue' \subseteq Int
      BY <2>2, LenProperties
    <3>. QED BY <1>2, <2>2, <3>1 DEF Sorted
  <2>4. QueuesWellFormed'
    BY <1>1, <1>2, <2>1, <2>2, <2>3 DEF QueuesWellFormed, Sorted
  <2>. QED BY <2>1, <2>2, <2>4 DEF Holds
<1>. QED BY <1>3, <1>4 DEF TryPickJob

-----------------------------------------------------------------------------
(* The invariant that the theorems below rest on.                          *)

QueueInv ==
  /\ QueuesWellFormed
  /\ Holds(Queued \ Exclusive, Queued \cap Exclusive)
  /\ queuedCount = Cardinality(Queued)

ExclusiveInv == ExclusiveAlone /\ (exclusiveRunning <=> Running \cap Exclusive # {})

IInv == TypeOK /\ QueueInv /\ SlotsMatchRecords /\ ExclusiveInv

LEMMA FiniteRecords ==
  /\ IsFiniteSet(Queued) /\ Cardinality(Queued) \in Nat
  /\ IsFiniteSet(Running) /\ Cardinality(Running) \in Nat
<1>1. Queued \subseteq Jobs /\ Running \subseteq Jobs
  BY DEF Queued, Running, InState
<1>. QED BY <1>1, JobsAssumption, FS_Subset, FS_CardinalityType

(* A step that moves no record into or out of the queues and the slots.    *)
LEMMA QuietStep ==
  ASSUME IInv, TypeOK', Running' = Running, Queued' = Queued,
         UNCHANGED <<queueVars, running, exclusiveRunning>>,
         \A t \in Threads : Executing(t)' <=> Executing(t),
         \A t \in Threads : Executing(t) => cur'[t] = cur[t]
  PROVE  IInv'
<1>1. QueueInv'
  BY DEF IInv, QueueInv, QueuesWellFormed, Holds, Sorted
<1>2. SlotsMatchRecords'
  <2>1. (running = Cardinality(Running))'
    BY DEF IInv, SlotsMatchRecords
  <2>. QED BY <2>1 DEF IInv, SlotsMatchRecords
<1>3. ExclusiveInv'
  BY DEF IInv, ExclusiveInv, ExclusiveAlone
<1>. QED BY <1>1, <1>2, <1>3 DEF IInv

(* Waking the sleepers and growing the pool concern idle threads only.     *)
LEMMA WakingIsQuiet ==
  ASSUME TypeOK, NEW t \in Threads, pc' = NotifyAll(pc) \/ pc' = pc
  PROVE  Executing(t)' <=> Executing(t)
BY DEF TypeOK, NotifyAll, Executing

LEMMA GrowingIsQuiet ==
  ASSUME TypeOK, NEW t \in Threads, NEW n, pc' = EnsureWorkers(n) \/ pc' = NotifyAll(EnsureWorkers(n))
  PROVE  Executing(t)' <=> Executing(t)
<1>1. CASE pc' = EnsureWorkers(n)
  BY <1>1 DEF TypeOK, EnsureWorkers, Executing
<1>2. CASE pc' = NotifyAll(EnsureWorkers(n))
  BY <1>2 DEF TypeOK, EnsureWorkers, NotifyAll, Executing
<1>. QED BY <1>1, <1>2

LEMMA PickKeepsInv ==
  ASSUME IInv, TypeOK', NEW t \in Threads, WorkerPicks(t)
  PROVE  IInv'
<1>1. PICK j \in Jobs : TryPickJob(j) /\ cur' = [cur EXCEPT ![t] = j]
  BY DEF WorkerPicks
<1>2. PICK O, X, Q, R : O = Queued \ Exclusive /\ X = Queued \cap Exclusive /\ Q = Queued /\ R = Running
  OBVIOUS
<1>3. QueuesWellFormed /\ Holds(O, X) /\ queuedCount = Cardinality(Q)
  BY <1>2 DEF IInv, QueueInv
<1>4. /\ QueuesWellFormed'
      /\ PickExclusive(j) => j \in X /\ Holds(O, X \ {j})'
      /\ PickByPriority(j) => j \in O /\ Holds(O \ {j}, X)'
  BY <1>1, <1>3, PickEntries
<1>5. j \in Q /\ j \notin R /\ (j \in O \/ j \in X)
  BY <1>1, <1>2, <1>4 DEF TryPickJob, Queued, Running, InState
<1>6. /\ state \in [Jobs -> JobStates] /\ state' = [state EXCEPT ![j] = "Running"]
      /\ queuedCount' = queuedCount - 1 /\ running' = running + 1
  BY <1>1 DEF TryPickJob, IInv, TypeOK
<1>7. Queued' = Q \ {j} /\ Running' = R \cup {j}
  BY <1>2, <1>6 DEF Queued, Running, InState
<1>8. QueueInv'
  <2>1. Holds(Queued \ Exclusive, Queued \cap Exclusive)'
    BY <1>1, <1>2, <1>4, <1>7 DEF Holds, TryPickJob
  <2>2. Cardinality(Q \ {j}) = Cardinality(Q) - 1
    BY <1>2, <1>5, FiniteRecords, FS_RemoveElement
  <2>. QED BY <1>3, <1>4, <1>6, <1>7, <2>1, <2>2 DEF QueueInv
<1>9. /\ ~ Executing(t) /\ Executing(t)' /\ cur'[t] = j
      /\ \A u \in Threads : u # t => (Executing(u)' <=> Executing(u)) /\ cur'[u] = cur[u]
  BY <1>1 DEF WorkerPicks, Executing, IInv, TypeOK
<1>10. SlotsMatchRecords'
  <2>1. Cardinality(R \cup {j}) = Cardinality(R) + 1
    BY <1>2, <1>5, FiniteRecords, FS_AddElement
  <2>2. (running = Cardinality(Running))'
    BY <1>2, <1>6, <1>7, <2>1 DEF IInv, SlotsMatchRecords
  <2>3. (\A u \in Threads : Executing(u) => cur[u] \in Running)'
    BY <1>2, <1>7, <1>9 DEF IInv, SlotsMatchRecords
  <2>4. (\A i \in Running : \E u \in Threads : Executing(u) /\ cur[u] = i)'
    BY <1>2, <1>7, <1>9 DEF IInv, SlotsMatchRecords
  <2>5. (\A u, v \in Threads : Executing(u) /\ Executing(v) /\ cur[u] = cur[v] => u = v)'
    BY <1>2, <1>5, <1>9 DEF IInv, SlotsMatchRecords
  <2>. QED BY <2>2, <2>3, <2>4, <2>5 DEF SlotsMatchRecords
<1>11. ExclusiveInv'
  <2>1. CASE PickExclusive(j)
    <3>1. running = 0 /\ exclusiveRunning' = TRUE /\ j \in Exclusive
      BY <1>2, <1>4, <2>1 DEF PickExclusive
    <3>2. R = {}
      BY <1>2, <3>1, FiniteRecords, FS_EmptySet DEF IInv, SlotsMatchRecords
    <3>. QED BY <1>7, <3>1, <3>2 DEF ExclusiveInv, ExclusiveAlone
  <2>2. CASE PickByPriority(j)
    <3>1. ~ exclusiveRunning /\ exclusiveRunning' = (j \in Exclusive) /\ j \notin Exclusive
      BY <1>1, <1>2, <1>4, <2>2 DEF TryPickJob, PickByPriority
    <3>2. Running' \cap Exclusive = {}
      BY <1>2, <1>7, <3>1 DEF IInv, ExclusiveInv
    <3>. QED BY <3>1, <3>2 DEF ExclusiveInv, ExclusiveAlone
  <2>. QED BY <1>1, <2>1, <2>2 DEF TryPickJob
<1>. QED BY <1>8, <1>10, <1>11 DEF IInv

LEMMA FinishKeepsInv ==
  ASSUME IInv, TypeOK', NEW t \in Threads, FinishTerminal(t)
  PROVE  IInv'
<1>1. PICK j, R : j = cur[t] /\ R = Running
  OBVIOUS
<1>2. /\ state \in [Jobs -> JobStates] /\ j \in Jobs /\ outcome[t] \in Terminal
      /\ state' = [state EXCEPT ![j] = outcome[t]]
      /\ running \in Nat
      /\ running' = (IF running > 0 THEN running - 1 ELSE running)
      /\ exclusiveRunning' = (exclusiveRunning /\ j \notin Exclusive)
      /\ UNCHANGED <<queueVars, cur>>
  BY <1>1 DEF FinishTerminal, FinishJobLocked, IInv, TypeOK
<1>3. Executing(t) /\ j \in R
  BY <1>1 DEF FinishTerminal, Executing, IInv, SlotsMatchRecords
<1>4. Running' = R \ {j} /\ Queued' = Queued
  BY <1>1, <1>2, <1>3 DEF Running, Queued, InState, Terminal
<1>5. /\ ~ Executing(t)'
      /\ \A u \in Threads : u # t => (Executing(u)' <=> Executing(u))
  BY DEF FinishTerminal, Executing, IInv, TypeOK
<1>6. QueueInv'
  BY <1>2, <1>4 DEF IInv, QueueInv, QueuesWellFormed, Holds, Sorted
<1>7. SlotsMatchRecords'
  <2>1. Cardinality(R \ {j}) = Cardinality(R) - 1 /\ Cardinality(R) > 0
    <3>1. IsFiniteSet(R) /\ Cardinality(R) \in Nat /\ R # {}
      BY <1>1, <1>3, FiniteRecords
    <3>2. Cardinality(R) # 0
      BY <3>1, FS_EmptySet
    <3>3. Cardinality(R \ {j}) = Cardinality(R) - 1
      BY <1>3, <3>1, FS_RemoveElement
    <3>. QED BY <3>1, <3>2, <3>3
  <2>2. running = Cardinality(R)
    BY <1>1 DEF IInv, SlotsMatchRecords
  <2>3. (running = Cardinality(Running))'
    BY <1>2, <1>4, <2>1, <2>2
  <2>4. (\A u \in Threads : Executing(u) => cur[u] \in Running)'
    BY <1>1, <1>2, <1>3, <1>4, <1>5 DEF IInv, SlotsMatchRecords
  <2>5. (\A i \in Running : \E u \in Threads : Executing(u) /\ cur[u] = i)'
    BY <1>1, <1>2, <1>4, <1>5 DEF IInv, SlotsMatchRecords
  <2>6. (\A u, v \in Threads : Executing(u) /\ Executing(v) /\ cur[u] = cur[v] => u = v)'
    BY <1>2, <1>5 DEF IInv, SlotsMatchRecords
  <2>. QED BY <2>3, <2>4, <2>5, <2>6 DEF SlotsMatchRecords
<1>8. ExclusiveInv'
  <2>1. CASE j \in Exclusive
    <3>1. R = {j}
      BY <1>1, <1>3, <2>1 DEF IInv, ExclusiveInv, ExclusiveAlone
    <3>. QED BY <1>2, <1>4, <2>1, <3>1 DEF ExclusiveInv, ExclusiveAlone
  <2>2. CASE j \notin Exclusive
    <3>1. exclusiveRunning <=> R \cap Exclusive # {}
      BY <1>1 DEF IInv, ExclusiveInv
    <3>2. exclusiveRunning' <=> exclusiveRunning
      BY <1>2, <2>2
    <3>3. Running' \cap Exclusive = R \cap Exclusive
      BY <1>4, <2>2
    <3>4. ExclusiveAlone'
      BY <1>1, <1>3, <1>4, <2>2 DEF IInv, ExclusiveInv, ExclusiveAlone
    <3>. QED BY <3>1, <3>2, <3>3, <3>4 DEF ExclusiveInv
  <2>. QED BY <2>1, <2>2
<1>. QED BY <1>6, <1>7, <1>8 DEF IInv

(* The slots of the pool look only at the running records and the threads. *)
LEMMA SlotsUntouched ==
  ASSUME IInv, Running' = Running, UNCHANGED <<running, exclusiveRunning, cur>>,
         \A t \in Threads : Executing(t)' <=> Executing(t)
  PROVE  SlotsMatchRecords' /\ ExclusiveInv'
<1>1. (running = Cardinality(Running))'
  BY DEF IInv, SlotsMatchRecords
<1>2. SlotsMatchRecords'
  BY <1>1 DEF IInv, SlotsMatchRecords
<1>3. ExclusiveInv'
  BY DEF IInv, ExclusiveInv, ExclusiveAlone
<1>. QED BY <1>2, <1>3

LEMMA SubmitKeepsInv ==
  ASSUME IInv, TypeOK', NEW j \in Jobs, SubmitWithId(j)
  PROVE  IInv'
<1>1. /\ state \in [Jobs -> JobStates] /\ state[j] = "Absent"
      /\ UNCHANGED <<running, exclusiveRunning, cur>>
  BY DEF IInv, TypeOK, SubmitWithId
<1>2. CASE terminated
  <2>1. state' = [state EXCEPT ![j] = "Cancelled"] /\ UNCHANGED <<queueVars, pc>>
    BY <1>2 DEF SubmitWithId
  <2>2. Running' = Running /\ Queued' = Queued
    BY <1>1, <2>1 DEF Running, Queued, InState
  <2>. QED BY <1>1, <2>1, <2>2, QuietStep DEF Executing
<1>3. CASE ~ terminated
  <2>1. /\ state' = [state EXCEPT ![j] = "Queued"]
        /\ EnqueueJob(j)
        /\ \E n : pc' = EnsureWorkers(n)
    BY <1>3 DEF SubmitWithId
  <2>2. PICK O, X, Q : O = Queued \ Exclusive /\ X = Queued \cap Exclusive /\ Q = Queued
    OBVIOUS
  <2>3. QueuesWellFormed /\ Holds(O, X) /\ queuedCount = Cardinality(Q)
    BY <2>2 DEF IInv, QueueInv
  <2>4. j \notin Q /\ Queued' = Q \cup {j} /\ Running' = Running
    BY <1>1, <2>1, <2>2 DEF Queued, Running, InState
  <2>5. /\ QueuesWellFormed'
        /\ j \in Exclusive => Holds(O, X \cup {j})'
        /\ j \notin Exclusive => Holds(O \cup {j}, X)'
    BY <2>1, <2>2, <2>3, <2>4, EnqueueEntries
  <2>6. Holds(Queued \ Exclusive, Queued \cap Exclusive)'
    BY <2>2, <2>4, <2>5 DEF Holds
  <2>7. (queuedCount = Cardinality(Queued))'
    <3>1. Cardinality(Q \cup {j}) = Cardinality(Q) + 1
      BY <2>2, <2>4, FiniteRecords, FS_AddElement
    <3>. QED BY <2>1, <2>3, <2>4, <3>1 DEF EnqueueJob
  <2>8. \A t \in Threads : Executing(t)' <=> Executing(t)
    BY <2>1, GrowingIsQuiet DEF IInv
  <2>. QED BY <1>1, <2>4, <2>5, <2>6, <2>7, <2>8, SlotsUntouched DEF IInv, QueueInv
<1>. QED BY <1>2, <1>3

LEMMA CancelKeepsInv ==
  ASSUME IInv, TypeOK', NEW j \in Jobs, CancelLocked(j), UNCHANGED threadVars
  PROVE  IInv'
<1>1. \A t \in Threads : Executing(t)' <=> Executing(t)
  BY DEF Executing
<1>2. CASE CancelQueued(j)
  <2>1. /\ state \in [Jobs -> JobStates] /\ state[j] = "Queued"
        /\ state' = [state EXCEPT ![j] = "Cancelled"]
        /\ DequeueJob(j)
        /\ UNCHANGED <<running, exclusiveRunning, cur>>
    BY <1>2 DEF IInv, TypeOK, CancelQueued
  <2>2. PICK O, X, Q : O = Queued \ Exclusive /\ X = Queued \cap Exclusive /\ Q = Queued
    OBVIOUS
  <2>3. QueuesWellFormed /\ Holds(O, X) /\ queuedCount = Cardinality(Q)
    BY <2>2 DEF IInv, QueueInv
  <2>4. j \in Q /\ Queued' = Q \ {j} /\ Running' = Running
    BY <2>1, <2>2 DEF Queued, Running, InState
  <2>5. QueuesWellFormed' /\ Holds(O \ {j}, X \ {j})' /\ queuedCount' = queuedCount - 1
    <3>1. /\ j \in Exclusive => j \in X /\ j \notin O
          /\ j \notin Exclusive => j \in O /\ j \notin X
      BY <2>2, <2>4
    <3>. QED BY <2>1, <2>3, <3>1, DequeueEntries
  <2>6. Holds(Queued \ Exclusive, Queued \cap Exclusive)'
    BY <2>2, <2>4, <2>5 DEF Holds
  <2>7. (queuedCount = Cardinality(Queued))'
    <3>1. Cardinality(Q \ {j}) = Cardinality(Q) - 1
      BY <2>2, <2>4, FiniteRecords, FS_RemoveElement
    <3>. QED BY <2>3, <2>4, <2>5, <3>1
  <2>. QED BY <1>1, <2>1, <2>4, <2>5, <2>6, <2>7, SlotsUntouched DEF IInv, QueueInv
<1>3. CASE CancelRunning(j)
  <2>1. UNCHANGED <<state, queueVars, poolVars, cur>>
    BY <1>3 DEF CancelRunning
  <2>2. Running' = Running /\ Queued' = Queued
    BY <2>1 DEF Running, Queued, InState
  <2>. QED BY <1>1, <2>1, <2>2, QuietStep
<1>. QED BY <1>2, <1>3 DEF CancelLocked

(* Shutdown drains both queues, and every queued record with them.         *)
LEMMA DrainedIsQueued == QueueInv => Drained = Queued
<1>. SUFFICES ASSUME QueueInv PROVE Drained = Queued
  OBVIOUS
<1>1. \A x : x \in ToSet(queue) <=> Has(queue, x)
  BY DEF ToSet, Has
<1>2. \A x : x \in ToSet(exclusiveQueue) <=> Has(exclusiveQueue, x)
  BY DEF ToSet, Has
<1>. QED BY <1>1, <1>2 DEF Drained, QueueInv, Holds, Queued, InState

LEMMA ShutdownKeepsInv ==
  ASSUME IInv, TypeOK', Shutdown
  PROVE  IInv'
<1>1. /\ state' = [j \in Jobs |-> IF j \in Drained THEN "Cancelled" ELSE state[j]]
      /\ queue' = <<>> /\ exclusiveQueue' = <<>> /\ queuedCount' = 0
      /\ UNCHANGED <<running, exclusiveRunning, cur, pc>>
  BY DEF Shutdown
<1>2. Drained = Queued
  BY DrainedIsQueued DEF IInv
<1>3. Queued' = {} /\ Running' = Running
  BY <1>1, <1>2 DEF Queued, Running, InState
<1>4. QueueInv'
  <2>1. QueuesWellFormed'
    BY <1>1 DEF QueuesWellFormed, Distinct, Sorted
  <2>2. Holds(Queued \ Exclusive, Queued \cap Exclusive)'
    BY <1>1, <1>3 DEF Holds, Has
  <2>. QED BY <1>1, <1>3, <2>1, <2>2, FS_EmptySet DEF QueueInv
<1>5. \A t \in Threads : Executing(t)' <=> Executing(t)
  BY <1>1 DEF Executing
<1>. QED BY <1>1, <1>3, <1>4, <1>5, SlotsUntouched DEF IInv

(* The steps of a worker that hold a job or none from beginning to end.    *)
LEMMA OtherWorkerStepsKeepInv ==
  ASSUME IInv, TypeOK', NEW t \in Threads,
         \/ WorkerSleeps(t) \/ WorkerExits(t) \/ RunOperatorJob(t) \/ BodyEnds(t)
         \/ UnknownAlgorithm(t) \/ WorkerNotes(t) \/ WorkerWakes(t)
  PROVE  IInv'
<1>1. UNCHANGED <<state, queueVars, running, exclusiveRunning>>
  BY DEF WorkerSleeps, WorkerExits, RunOperatorJob, BodyEnds, UnknownAlgorithm, WorkerNotes, WorkerWakes
<1>2. Running' = Running /\ Queued' = Queued
  BY <1>1 DEF Running, Queued, InState
<1>3. ASSUME NEW u \in Threads
      PROVE  (Executing(u)' <=> Executing(u)) /\ (Executing(u) => cur'[u] = cur[u])
  <2>1. CASE WorkerSleeps(t)
    BY <2>1 DEF WorkerSleeps, Executing, IInv, TypeOK
  <2>5. CASE WorkerExits(t)
    BY <2>5 DEF WorkerExits, NotifyAll, Executing, IInv, TypeOK
  <2>2. CASE RunOperatorJob(t)
    <3>1. /\ pc[t] = "picked" /\ cur' = cur
          /\ pc' = [NotifyAll(pc) EXCEPT ![t] = "body"] \/ pc' = [pc EXCEPT ![t] = "body"]
      BY <2>2 DEF RunOperatorJob
    <3>2. CASE pc' = [pc EXCEPT ![t] = "body"]
      BY <3>1, <3>2 DEF Executing, IInv, TypeOK
    <3>3. CASE pc' = [NotifyAll(pc) EXCEPT ![t] = "body"]
      BY <3>1, <3>3 DEF NotifyAll, Executing, IInv, TypeOK
    <3>. QED BY <3>1, <3>2, <3>3
  <2>3. CASE BodyEnds(t) \/ UnknownAlgorithm(t)
    <3>1. pc[t] = "body" /\ pc' = [pc EXCEPT ![t] = "ended"] /\ cur' = cur
      BY <2>3 DEF BodyEnds, UnknownAlgorithm
    <3>. QED BY <3>1 DEF Executing, IInv, TypeOK
  <2>6. CASE WorkerNotes(t)
    BY <2>6 DEF WorkerNotes, Executing, IInv, TypeOK
  <2>4. CASE WorkerWakes(t)
    BY <2>4 DEF WorkerWakes, NotifyAll, Executing, IInv, TypeOK
  <2>. QED BY <2>1, <2>2, <2>3, <2>4, <2>5, <2>6
<1>. QED BY <1>1, <1>2, <1>3, QuietStep

LEMMA CallsKeepInv ==
  ASSUME IInv, TypeOK', (\E j \in Jobs : CallStep(j)) \/ ShutdownStep
  PROVE  IInv'
<1>1. /\ UNCHANGED <<state, queueVars, running, exclusiveRunning, cur>>
      /\ pc' = NotifyAll(pc) \/ pc' = pc
  <2>1. ASSUME NEW j \in Jobs, CallStep(j)
        PROVE  /\ UNCHANGED <<state, queueVars, running, exclusiveRunning, cur>>
               /\ pc' = NotifyAll(pc) \/ pc' = pc
    BY <2>1 DEF CallStep, SubmitWakes, SubmitNotes, CancelRunsHook, CancelWakes, CancelNotes, WaiterLooks
  <2>2. ASSUME ShutdownStep
        PROVE  /\ UNCHANGED <<state, queueVars, running, exclusiveRunning, cur>>
               /\ pc' = NotifyAll(pc) \/ pc' = pc
    BY <2>2 DEF ShutdownStep, ShutdownWakes, ShutdownReturns, ShutdownRunsHook, ShutdownNotes
  <2>. QED BY <2>1, <2>2
<1>2. Running' = Running /\ Queued' = Queued
  BY <1>1 DEF Running, Queued, InState
<1>3. \A t \in Threads : Executing(t)' <=> Executing(t)
  BY <1>1, WakingIsQuiet DEF IInv
<1>. QED BY <1>1, <1>2, <1>3, QuietStep

LEMMA RequestsKeepInv ==
  ASSUME IInv, TypeOK', Request
  PROVE  IInv'
<1>1. ASSUME NEW j \in Jobs, SubmitWithId(j) PROVE IInv'
  BY <1>1, SubmitKeepsInv
<1>2. ASSUME NEW j \in Jobs, Cancel(j) PROVE IInv'
  BY <1>2, CancelKeepsInv DEF Cancel
<1>3. ASSUME NEW j \in Jobs, WaitForJob(j) \/ WatchdogPops(j) PROVE IInv'
  <2>1. UNCHANGED <<state, queueVars, running, exclusiveRunning, cur, pc>>
    BY <1>3 DEF WaitForJob, WatchdogPops
  <2>2. Running' = Running /\ Queued' = Queued
    BY <2>1 DEF Running, Queued, InState
  <2>. QED BY <2>1, <2>2, QuietStep DEF Executing
<1>4. ASSUME NEW S \in SUBSET Prunable, Prune(S) PROVE IInv'
  <2>1. UNCHANGED <<queueVars, running, exclusiveRunning, cur, pc>>
    BY <1>4 DEF Prune
  <2>2. Running' = Running /\ Queued' = Queued
    BY <1>4 DEF Prune, Running, Queued, InState, Terminal
  <2>. QED BY <2>1, <2>2, QuietStep DEF Executing
<1>5. ASSUME NEW n \in PoolSizes, SetMaxWorkers(n) PROVE IInv'
  <2>1. UNCHANGED <<state, queueVars, running, exclusiveRunning, cur>>
    BY <1>5 DEF SetMaxWorkers
  <2>2. Running' = Running /\ Queued' = Queued
    BY <2>1 DEF Running, Queued, InState
  <2>3. \A t \in Threads : Executing(t)' <=> Executing(t)
    BY <1>5, GrowingIsQuiet DEF SetMaxWorkers, IInv
  <2>. QED BY <2>1, <2>2, <2>3, QuietStep
<1>. QED BY <1>1, <1>2, <1>3, <1>4, <1>5, ShutdownKeepsInv DEF Request

LEMMA InvInductive == IInv /\ [Next]_vars => IInv'
<1>. SUFFICES ASSUME IInv, [Next]_vars PROVE IInv'
  OBVIOUS
<1>1. TypeOK'
  BY TypeInductive DEF IInv
<1>2. ASSUME NEW t \in Threads, WorkerStep(t) PROVE IInv'
  BY <1>1, <1>2, PickKeepsInv, FinishKeepsInv, OtherWorkerStepsKeepInv DEF WorkerStep
<1>3. CASE WatchdogCancels
  <2>1. CASE CancelLocked(watchdog)
    <3>1. watchdog \in Jobs
      BY <1>3 DEF WatchdogCancels, IInv, TypeOK
    <3>. QED BY <1>1, <1>3, <2>1, <3>1, CancelKeepsInv DEF WatchdogCancels
  <2>2. CASE UNCHANGED <<state, queueVars, poolVars>>
    <3>1. UNCHANGED <<state, queueVars, poolVars, cur, pc>>
      BY <1>3, <2>2 DEF WatchdogCancels
    <3>2. Running' = Running /\ Queued' = Queued
      BY <3>1 DEF Running, Queued, InState
    <3>. QED BY <1>1, <3>1, <3>2, QuietStep DEF Executing
  <2>. QED BY <1>3, <2>1, <2>2 DEF WatchdogCancels
<1>4. CASE UNCHANGED vars
  <2>1. Running' = Running /\ Queued' = Queued
    BY <1>4 DEF Running, Queued, InState
  <2>. QED BY <1>1, <1>4, <2>1, QuietStep DEF Executing
<1>. QED BY <1>1, <1>2, <1>3, <1>4, CallsKeepInv, RequestsKeepInv DEF Next

LEMMA InvInitially == Init => IInv
<1>. SUFFICES ASSUME Init PROVE IInv
  OBVIOUS
<1>1. Queued = {} /\ Running = {}
  BY DEF Init, Queued, Running, InState
<1>2. QueueInv
  <2>1. QueuesWellFormed
    BY DEF Init, QueuesWellFormed, Distinct, Sorted
  <2>2. Holds(Queued \ Exclusive, Queued \cap Exclusive)
    BY <1>1 DEF Init, Holds, Has
  <2>. QED BY <1>1, <2>1, <2>2, FS_EmptySet DEF Init, QueueInv
<1>3. SlotsMatchRecords
  BY <1>1, FS_EmptySet DEF Init, SlotsMatchRecords, Executing
<1>4. ExclusiveInv
  BY <1>1 DEF Init, ExclusiveInv, ExclusiveAlone
<1>. QED BY <1>2, <1>3, <1>4, TypeInitially DEF IInv

LEMMA InvAlways == Spec => []IInv
BY InvInitially, InvInductive, PTL DEF Spec

(* An exclusive job never runs together with another job, whatever the     *)
(* number of jobs and workers (job_engine.h, exclusive policy).            *)
THEOREM ExclusiveNeverShares == Spec => []ExclusiveAlone
<1>1. IInv => ExclusiveAlone
  BY DEF IInv, ExclusiveInv
<1>. QED BY <1>1, InvAlways, PTL

(* m_running counts the running records, each is on exactly one worker and *)
(* each busy worker has one.                                               *)
THEOREM SlotsAreExact == Spec => []SlotsMatchRecords
<1>1. IInv => SlotsMatchRecords
  BY DEF IInv
<1>. QED BY <1>1, InvAlways, PTL

(* The queues hold the queued records, each once and by priority, and      *)
(* m_queuedCount is their number.                                          *)
THEOREM QueuesAreExact == Spec => []QueueMatchesRecords
<1>1. QueueInv => QueueMatchesRecords
  <2>. SUFFICES ASSUME QueueInv PROVE QueueMatchesRecords
    OBVIOUS
  <2>1. ToSet(queue) = Queued \ Exclusive
    BY DEF QueueInv, Holds, Has, ToSet
  <2>2. ToSet(exclusiveQueue) = Queued \cap Exclusive
    BY DEF QueueInv, Holds, Has, ToSet
  <2>. QED BY <2>1, <2>2 DEF QueueInv, QueuesWellFormed, Sorted, QueueMatchesRecords
<1>2. IInv => QueueInv
  BY DEF IInv
<1>. QED BY <1>1, <1>2, InvAlways, PTL

-----------------------------------------------------------------------------
(* The job engine implements JobLifecycle.tla: each of its steps is a step *)
(* of a job's life or changes no record.                                   *)

Quiet == UNCHANGED <<state, terminated>>
LifeStep == Lifecycle!LifecycleNext \/ Quiet

(* Steps that leave the records and the shutdown flag alone.               *)
LEMMA WorkersAreQuiet ==
  ASSUME NEW t \in Threads, WorkerStep(t)
  PROVE  Quiet \/ WorkerPicks(t) \/ FinishTerminal(t)
BY DEF Quiet, WorkerStep, WorkerSleeps, WorkerExits, RunOperatorJob, BodyEnds, UnknownAlgorithm,
       WorkerNotes, WorkerWakes

LEMMA CallsAreQuiet ==
  ASSUME (\E j \in Jobs : CallStep(j)) \/ ShutdownStep
  PROVE  Quiet
<1>1. ASSUME NEW j \in Jobs, CallStep(j) PROVE Quiet
  BY <1>1 DEF Quiet, CallStep, SubmitWakes, SubmitNotes, CancelRunsHook, CancelWakes, CancelNotes, WaiterLooks
<1>2. ASSUME ShutdownStep PROVE Quiet
  BY <1>2 DEF Quiet, ShutdownStep, ShutdownWakes, ShutdownReturns, ShutdownRunsHook, ShutdownNotes
<1>. QED BY <1>1, <1>2

(* A pick finds the engine idle for an exclusive job, and for another one  *)
(* no exclusive job running or queued, room, and nobody more urgent.       *)
LEMMA PickMayStart ==
  ASSUME IInv, NEW t \in Threads, WorkerPicks(t)
  PROVE  \E j \in Jobs : Lifecycle!Start(j)
<1>1. PICK j \in Jobs : TryPickJob(j)
  BY DEF WorkerPicks
<1>2. /\ QueuesWellFormed /\ Holds(Queued \ Exclusive, Queued \cap Exclusive)
      /\ running = Cardinality(Running) /\ running \in Nat
      /\ exclusiveRunning <=> Running \cap Exclusive # {}
      /\ allowance \in 0 .. MaxTransient /\ maxWorkers \in MinWorkers .. MaxWorkersOverride
  BY DEF IInv, QueueInv, SlotsMatchRecords, ExclusiveInv, TypeOK
<1>3. ~ terminated /\ terminated' = terminated /\ state' = [state EXCEPT ![j] = "Running"]
      /\ Running \cap Exclusive = {}
  BY <1>1, <1>2 DEF WorkerPicks, TryPickJob
<1>4. CASE PickExclusive(j)
  <2>1. exclusiveQueue \in Seq(Jobs) /\ exclusiveQueue # <<>> /\ j = Head(exclusiveQueue)
        /\ Distinct(exclusiveQueue) /\ running = 0
    BY <1>2, <1>4 DEF PickExclusive, QueuesWellFormed
  <2>2. j \in Queued \cap Exclusive
    BY <1>2, <2>1, TailEntries DEF Holds
  <2>3. Running = {}
    BY <1>2, <2>1, FiniteRecords, FS_EmptySet
  <2>. QED BY <1>3, <2>2, <2>3
       DEF Lifecycle!Start, Lifecycle!MayStart, Lifecycle!InState, Queued, Running, InState
<1>5. CASE PickByPriority(j)
  <2>1. queue \in Seq(Jobs) /\ queue # <<>> /\ j = Head(queue) /\ Distinct(queue)
        /\ exclusiveQueue = <<>> /\ Sorted(queue) /\ running < maxWorkers + allowance
    BY <1>2, <1>5 DEF PickByPriority, QueuesWellFormed
  <2>2. j \in Queued \ Exclusive
    BY <1>2, <2>1, TailEntries DEF Holds
  <2>3. Queued \cap Exclusive = {}
    <3>1. \A x : ~ Has(exclusiveQueue, x)
      BY <2>1 DEF Has
    <3>. QED BY <1>2, <3>1 DEF Holds
  <2>4. Cardinality(Running) < MaxWorkersOverride + MaxTransient
    BY <1>2, <2>1, PoolAssumption
  <2>5. ASSUME NEW k \in Queued PROVE Priority[j] <= Priority[k]
    <3>1. Has(queue, k)
      BY <1>2, <2>3 DEF Holds
    <3>2. PICK i \in 1 .. Len(queue) : queue[i] = k
      BY <2>1, <3>1 DEF Has
    <3>3. queue[1] = j /\ 1 \in DOMAIN queue
      BY <2>1, EmptySeq
    <3>4. CASE i = 1
      BY <3>2, <3>3, <3>4, JobsAssumption
    <3>5. CASE 1 < i
      BY <2>1, <3>2, <3>3, <3>5 DEF Sorted
    <3>. QED BY <3>2, <3>4, <3>5
  <2>6. /\ Lifecycle!InState("Running") = Running
        /\ Lifecycle!InState("Queued") = Queued
    BY DEF Lifecycle!InState, Queued, Running, InState
  <2>7. Lifecycle!MayStart(j)
    <3>1. state[j] = "Queued" /\ j \notin Exclusive
      BY <2>2 DEF Queued, InState
    <3>2. Lifecycle!Cardinality(Running) = Cardinality(Running)
      BY DEF Lifecycle!Cardinality, Cardinality
    <3>. QED BY <1>3, <2>3, <2>4, <2>5, <2>6, <3>1, <3>2 DEF Lifecycle!MayStart
  <2>. QED BY <1>3, <2>7
       DEF Lifecycle!Start, Lifecycle!MayStart, Lifecycle!InState, Queued, Running, InState
<1>. QED BY <1>1, <1>4, <1>5 DEF TryPickJob

LEMMA CancelIsAStep ==
  ASSUME NEW j \in Jobs, CancelLocked(j), UNCHANGED terminated
  PROVE  LifeStep
<1>1. CASE CancelQueued(j)
  BY <1>1 DEF CancelQueued, LifeStep, Lifecycle!LifecycleNext, Lifecycle!CancelQueued
<1>2. CASE CancelRunning(j)
  BY <1>2 DEF CancelRunning, LifeStep, Quiet
<1>. QED BY <1>1, <1>2 DEF CancelLocked

LEMMA RequestIsAStep ==
  ASSUME IInv, Request
  PROVE  LifeStep
<1>1. ASSUME NEW j \in Jobs, SubmitWithId(j) PROVE LifeStep
  <2>1. state[j] = "Absent" /\ terminated' = terminated
    BY <1>1 DEF SubmitWithId
  <2>2. state' = [state EXCEPT ![j] = IF terminated THEN "Cancelled" ELSE "Queued"]
    BY <1>1 DEF SubmitWithId
  <2>. QED BY <2>1, <2>2 DEF LifeStep, Lifecycle!LifecycleNext, Lifecycle!Submit
<1>2. ASSUME NEW j \in Jobs, Cancel(j) PROVE LifeStep
  BY <1>2, CancelIsAStep DEF Cancel
<1>3. ASSUME NEW j \in Jobs, WaitForJob(j) \/ WatchdogPops(j) PROVE LifeStep
  BY <1>3 DEF WaitForJob, WatchdogPops, LifeStep, Quiet
<1>4. ASSUME NEW S \in SUBSET Prunable, Prune(S) PROVE LifeStep
  <2>1. S \subseteq Jobs
    BY JobsAssumption
  <2>. QED BY <1>4, <2>1 DEF Prune, LifeStep, Lifecycle!LifecycleNext, Lifecycle!Prune,
                             Terminal, Lifecycle!Terminal
<1>5. ASSUME NEW n \in PoolSizes, SetMaxWorkers(n) PROVE LifeStep
  BY <1>5 DEF SetMaxWorkers, LifeStep, Quiet
<1>6. CASE Shutdown
  <2>1. Drained = Queued
    BY DrainedIsQueued DEF IInv
  <2>2. state' = [j \in Jobs |-> IF state[j] = "Queued" THEN "Cancelled" ELSE state[j]]
    BY <1>6, <2>1 DEF Shutdown, Queued, InState
  <2>3. ~ terminated /\ terminated' = TRUE
    BY <1>6 DEF Shutdown
  <2>. QED BY <2>2, <2>3 DEF LifeStep, Lifecycle!LifecycleNext, Lifecycle!Terminate
<1>. QED BY <1>1, <1>2, <1>3, <1>4, <1>5, <1>6 DEF Request

LEMMA NextIsAStep == IInv /\ [Next]_vars => LifeStep
<1>. SUFFICES ASSUME IInv, [Next]_vars PROVE LifeStep
  OBVIOUS
<1>1. ASSUME NEW t \in Threads, WorkerPicks(t) PROVE LifeStep
  BY <1>1, PickMayStart DEF LifeStep, Lifecycle!LifecycleNext
<1>2. ASSUME NEW t \in Threads, FinishTerminal(t) PROVE LifeStep
  <2>1. /\ state' = [state EXCEPT ![cur[t]] = outcome[t]] /\ terminated' = terminated
        /\ Executing(t) /\ outcome[t] \in Terminal
    BY <1>2 DEF FinishTerminal, Executing, IInv, TypeOK
  <2>2. cur[t] \in Jobs /\ state[cur[t]] = "Running"
    BY <2>1 DEF IInv, SlotsMatchRecords, Running, InState
  <2>. QED BY <2>1, <2>2 DEF LifeStep, Lifecycle!LifecycleNext, Lifecycle!End,
                             Terminal, Lifecycle!Terminal
<1>3. CASE WatchdogCancels
  <2>1. CASE CancelLocked(watchdog)
    <3>1. watchdog \in Jobs /\ terminated' = terminated
      BY <1>3 DEF WatchdogCancels, IInv, TypeOK
    <3>. QED BY <2>1, <3>1, CancelIsAStep
  <2>2. CASE UNCHANGED state
    BY <1>3, <2>2 DEF WatchdogCancels, LifeStep, Quiet
  <2>. QED BY <1>3, <2>1, <2>2 DEF WatchdogCancels
<1>4. CASE UNCHANGED vars
  BY <1>4 DEF LifeStep, Quiet
<1>. QED BY <1>1, <1>2, <1>3, <1>4, WorkersAreQuiet, CallsAreQuiet, RequestIsAStep DEF Next, LifeStep

(* Whatever the interleaving, what callers see of the job engine is a      *)
(* behaviour of JobLifecycle (submitWithId(), cancel(), tryPickJobLocked(),*)
(* shutdown() and the prune calls).                                        *)
THEOREM EngineImplementsLifecycle == Spec => ImplementsLifecycle
<1>1. Init => Lifecycle!LifecycleInit
  BY DEF Init, Lifecycle!LifecycleInit
<1>2. IInv /\ [Next]_vars => [Lifecycle!LifecycleNext]_(Lifecycle!lifecycleVars)
  BY NextIsAStep DEF LifeStep, Quiet, Lifecycle!lifecycleVars
<1>. QED BY <1>1, <1>2, InvAlways, PTL DEF Spec, ImplementsLifecycle, Lifecycle!LifecycleSpec

=============================================================================
