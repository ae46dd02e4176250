--------------------------- MODULE TaskCenterProofs ---------------------------
(***************************************************************************)
(* Theorems about TaskCenter.tla, for any tasks, pipelines, callers and    *)
(* limits: a task that is over stays what it is, and its end is told only  *)
(* then.                                                                   *)
(***************************************************************************)
EXTENDS TaskCenter, SequenceTheorems, FiniteSetTheorems, TLAPS

USE DEF vars, taskVars, graphVars, admissionVars, engineVars

Statuses == ReadyLike \cup ActiveStates \cup Final \cup {"Absent"}
JobStates == JobEnds \cup {"Absent", "Queued", "Running"}

(* The steps a thread may have to take, by what they are about.            *)
JobOps == {"register", "submit", "link", "snapshot", "record", "process", "mark", "forget",
           "cancel", "stop"}
TaskOps == {"resubmit", "arm", "armed", "fire", "cancelTask", "strand"}
OtherOps == {"flush", "signals", "joinWatchdog", "cancelAll", "closeEngine", "joinWorkers",
             "finalize", "clear"}

StepType ==
  [op : JobOps, arg : Jobs, state : JobStates \cup {"none"}]
    \cup [op : TaskOps, arg : Tasks, state : {"none"}]
    \cup [op : {"enterPipeline"}, arg : Pipelines, state : {"none"}]
    \cup [op : OtherOps, arg : {NoTask}, state : {"none"}]

TypeInv ==
  /\ status \in [Tasks -> Statuses]
  /\ auto \in [Tasks -> {"manual", "auto", "armed"}]
  /\ parents \in [Tasks -> SUBSET Tasks]
  /\ jobId \in [Tasks -> Jobs \cup {NoJob}]
  /\ attempts \in [Tasks -> 0 .. MaxAutoRetries]
  /\ staged \subseteq Jobs /\ ready \subseteq Tasks
  /\ job \in [Jobs -> JobStates]
  /\ callback \in [Tasks -> {"none", "waits", "told", "dropped"}]
  /\ todo \in [Threads -> Seq(StepType)]

-----------------------------------------------------------------------------
(* A task gets jobs only once it may be launched by itself, which it is    *)
(* when the tasks it takes its inputs from have completed: until then it   *)
(* is Queued or Canceled.                                                  *)
ParentsDone(t) == \A p \in parents[t] : status[p] = "Completed"
Launchable(j) == auto[TaskOf(j)] # "manual" /\ ParentsDone(TaskOf(j))

ManualInv ==
  /\ \A t \in Tasks : status[t] = "Absent" => auto[t] = "manual"
  /\ \A t \in Tasks : auto[t] = "manual" =>
        status[t] \in {"Absent", "Queued", "Canceled"} /\ jobId[t] = NoJob
  /\ \A t \in Tasks : jobId[t] # NoJob => TaskOf(jobId[t]) = t /\ Launchable(jobId[t])
  /\ \A t \in Tasks : \A p \in parents[t] : auto[p] # "manual"
  /\ \A j \in staged : Launchable(j)
  /\ \A j \in Jobs : job[j] # "Absent" => Launchable(j)
  /\ \A th \in Threads : \A x \in ToSet(todo[th]) : x.op \in JobOps => Launchable(x.arg)

(* What is launched may be launched, and stays so.                         *)
Launched == ActiveStates \cup {"Completed"}
StartInv == \A t \in Tasks : status[t] \in Launched => ParentsDone(t)

(* The tasks a call is about to put into the map are nobody else's.        *)
Enters(x) == x.op \in {"enterPipeline", "resubmit"}
Newcomers(x) == IF x.op = "enterPipeline" THEN DOMAIN x.arg ELSE {x.arg}

EntersInv ==
  /\ \A th \in Threads : \A x \in ToSet(todo[th]) : Enters(x) =>
        /\ th \in Callers /\ todo[th] = <<x>>
        /\ \A t \in Newcomers(x) : status[t] = "Absent"
  /\ \A th, u \in Threads : th # u =>
        \A x \in ToSet(todo[th]), y \in ToSet(todo[u]) :
           Enters(x) /\ Enters(y) => Newcomers(x) \cap Newcomers(y) = {}

(* A task is armed once, by the call that put it into the map, as the last *)
(* but one thing that call does.                                           *)
ArmsInv ==
  /\ \A th \in Threads : \A n \in 1 .. Len(todo[th]) : todo[th][n].op = "arm" =>
        /\ n = Len(todo[th])
        /\ status[todo[th][n].arg] # "Absent" /\ auto[todo[th][n].arg] = "manual"
  /\ \A th, u \in Threads : th # u =>
        \A x \in ToSet(todo[th]), y \in ToSet(todo[u]) :
           x.op = "arm" /\ y.op = "arm" => x.arg # y.arg

(* Without shutdown() an end is told after it has happened.                *)
ToldInv ==
  ~ MayShutDown =>
    /\ ~ down
    /\ \A th \in Threads : \A x \in ToSet(todo[th]) : x.op = "fire" => status[x.arg] \in Final
    /\ OnlyTheEndIsTold

LifeInv == TypeInv /\ ManualInv /\ StartInv /\ EntersInv /\ ArmsInv /\ ToldInv

-----------------------------------------------------------------------------
(* Sequences of steps.                                                     *)

LEMMA Entries ==
  ASSUME NEW A, NEW s \in Seq(A)
  PROVE  /\ \A x : x \in ToSet(s) <=> \E n \in 1 .. Len(s) : x = s[n]
         /\ ToSet(s) \subseteq A
<1>1. DOMAIN s = 1 .. Len(s) /\ \A n \in 1 .. Len(s) : s[n] \in A
  BY LenProperties, ElementOfSeq
<1>. QED BY <1>1 DEF ToSet

LEMMA Joined ==
  ASSUME NEW A, NEW s \in Seq(A), NEW r \in Seq(A)
  PROVE  s \o r \in Seq(A) /\ ToSet(s \o r) = ToSet(s) \cup ToSet(r)
<1>. DEFINE q == s \o r
<1>1. /\ q \in Seq(A) /\ Len(q) = Len(s) + Len(r) /\ Len(s) \in Nat /\ Len(r) \in Nat
      /\ \A n \in 1 .. Len(s) + Len(r) : q[n] = IF n <= Len(s) THEN s[n] ELSE r[n - Len(s)]
  BY ConcatProperties, LenProperties
<1>. HIDE DEF q
<1>2. ASSUME NEW n \in 1 .. Len(s) PROVE n \in 1 .. Len(q) /\ q[n] = s[n]
  BY <1>1
<1>3. ASSUME NEW n \in 1 .. Len(r) PROVE n + Len(s) \in 1 .. Len(q) /\ q[n + Len(s)] = r[n]
  <2>1. n + Len(s) \in 1 .. Len(s) + Len(r) /\ ~ n + Len(s) <= Len(s) /\ n + Len(s) - Len(s) = n
    BY <1>1
  <2>. QED BY <1>1, <2>1
<1>4. ASSUME NEW n \in 1 .. Len(q)
      PROVE  \/ n \in 1 .. Len(s) /\ q[n] = s[n]
             \/ n - Len(s) \in 1 .. Len(r) /\ q[n] = r[n - Len(s)]
  BY <1>1
<1>5. /\ \A x : x \in ToSet(q) <=> \E n \in 1 .. Len(q) : x = q[n]
      /\ \A x : x \in ToSet(s) <=> \E n \in 1 .. Len(s) : x = s[n]
      /\ \A x : x \in ToSet(r) <=> \E n \in 1 .. Len(r) : x = r[n]
  BY <1>1, Entries
<1>6. ASSUME NEW x \in ToSet(q) PROVE x \in ToSet(s) \cup ToSet(r)
  BY <1>4, <1>5
<1>7. ASSUME NEW x \in ToSet(s) \cup ToSet(r) PROVE x \in ToSet(q)
  <2>1. ASSUME NEW n \in 1 .. Len(s), x = s[n] PROVE x \in ToSet(q)
    BY <1>2, <1>5, <2>1
  <2>2. ASSUME NEW n \in 1 .. Len(r), x = r[n] PROVE x \in ToSet(q)
    BY <1>3, <1>5, <2>2
  <2>. QED BY <1>5, <1>7, <2>1, <2>2
<1>. QED BY <1>1, <1>6, <1>7 DEF q

\* what stays behind the steps a thread takes up now
Behind(th) == IF Idle(th) THEN <<>> ELSE Tail(todo[th])

LEMMA BehindFacts ==
  ASSUME TypeInv, NEW th \in Threads
  PROVE  /\ todo[th] \in Seq(StepType) /\ Behind(th) \in Seq(StepType)
         /\ ToSet(Behind(th)) \subseteq ToSet(todo[th])
         /\ Len(Behind(th)) \in Nat
         /\ \A n \in 1 .. Len(Behind(th)) :
              /\ n + 1 \in 1 .. Len(todo[th]) /\ Behind(th)[n] = todo[th][n + 1]
              /\ Len(Behind(th)) + 1 = Len(todo[th])
<1>. DEFINE s == todo[th]
            b == Behind(th)
<1>1. s \in Seq(StepType) /\ Len(s) \in Nat
  BY LenProperties DEF TypeInv
<1>2. CASE Idle(th)
  <2>1. b = <<>> /\ Len(b) = 0 /\ ToSet(b) = {}
    BY <1>2 DEF Behind, ToSet
  <2>2. 1 .. 0 = {}
    OBVIOUS
  <2>. QED BY <1>1, <2>1, <2>2
<1>3. CASE ~ Idle(th)
  <2>1. s # <<>> /\ b = Tail(s)
    BY <1>3 DEF Behind, Idle
  <2>. HIDE DEF s, b
  <2>2. /\ b \in Seq(StepType) /\ Len(b) = Len(s) - 1 /\ Len(b) \in Nat
        /\ \A n \in 1 .. Len(b) : b[n] = s[n + 1]
    BY <1>1, <2>1, HeadTailProperties, LenProperties
  <2>3. \A n \in 1 .. Len(b) : n + 1 \in 1 .. Len(s) /\ b[n] = s[n + 1] /\ Len(b) + 1 = Len(s)
    BY <1>1, <2>2
  <2>4. ToSet(b) \subseteq ToSet(s)
    BY <1>1, <2>2, <2>3, Entries
  <2>. QED BY <1>1, <2>2, <2>3, <2>4 DEF s, b
<1>. QED BY <1>2, <1>3

\* thread th takes up these steps
Takes(th, steps) == steps \in Seq(StepType) /\ todo' = [todo EXCEPT ![th] = steps \o Behind(th)]

LEMMA TakesFacts ==
  ASSUME TypeInv, NEW th \in Threads, NEW steps, Takes(th, steps)
  PROVE  /\ todo' \in [Threads -> Seq(StepType)]
         /\ todo'[th] = steps \o Behind(th)
         /\ ToSet(todo'[th]) = ToSet(steps) \cup ToSet(Behind(th))
         /\ \A u \in Threads \ {th} : todo'[u] = todo[u]
<1>1. steps \in Seq(StepType) /\ Behind(th) \in Seq(StepType)
  BY BehindFacts DEF Takes
<1>2. steps \o Behind(th) \in Seq(StepType)
      /\ ToSet(steps \o Behind(th)) = ToSet(steps) \cup ToSet(Behind(th))
  BY <1>1, Joined
<1>. QED BY <1>1, <1>2 DEF Takes, TypeInv

LEMMA CallsAndThens ==
  ASSUME TypeInv, NEW th \in Threads, NEW steps \in Seq(StepType)
  PROVE  /\ Call(th, steps) => Takes(th, steps)
         /\ ~ Idle(th) /\ Then(th, steps) => Takes(th, steps)
<1>1. steps \o <<>> = steps
  BY ConcatEmptySeq
<1>. QED BY <1>1 DEF Call, Then, Takes, Behind

-----------------------------------------------------------------------------
(* What a step may take up.                                                *)

Sound(x) ==
  /\ x.op \in JobOps => Launchable(x.arg)
  /\ x.op = "fire" /\ ~ MayShutDown => status[x.arg] \in Final

Plain(x) == ~ Enters(x) /\ x.op # "arm"

\* a task of which something has been said
Known(x) ==
  /\ Enters(x) => \A t \in Newcomers(x) : status[t] = "Absent"
  /\ x.op = "arm" => status[x.arg] # "Absent" /\ auto[x.arg] = "manual"

\* what may be launched once may be launched for ever
Lasting == \A j \in Jobs : Launchable(j) => Launchable(j)'

LEMMA TodoStep ==
  ASSUME LifeInv, NEW th \in Threads, NEW steps, Takes(th, steps),
         Lasting,
         \A t \in Tasks : status[t] \in Final => status'[t] \in Final,
         \A x \in ToSet(steps) : Sound(x)' /\ Known(x)',
         \A x \in ToSet(Behind(th)) : Known(x) => Known(x)',
         \A u \in Threads \ {th} : \A x \in ToSet(todo[u]) : Known(x) => Known(x)',
         \A x \in ToSet(steps) : Enters(x) =>
           /\ th \in Callers /\ steps = <<x>> /\ Behind(th) = <<>>
           /\ \A u \in Threads \ {th} : \A y \in ToSet(todo[u]) :
                Enters(y) => Newcomers(x) \cap Newcomers(y) = {},
         \A n \in 1 .. Len(steps) : steps[n].op = "arm" =>
           /\ n = Len(steps) /\ Behind(th) = <<>>
           /\ \A u \in Threads \ {th} : \A y \in ToSet(todo[u]) :
                y.op = "arm" => y.arg # steps[n].arg
  PROVE  /\ todo' \in [Threads -> Seq(StepType)]
         /\ \A u \in Threads : \A x \in ToSet(todo'[u]) : x.op \in JobOps => Launchable(x.arg)'
         /\ ~ MayShutDown => \A u \in Threads : \A x \in ToSet(todo'[u]) :
                                x.op = "fire" => status'[x.arg] \in Final
         /\ EntersInv' /\ ArmsInv'
<1>0. /\ TypeInv /\ ManualInv /\ EntersInv /\ ArmsInv /\ ToldInv
      /\ todo \in [Threads -> Seq(StepType)]
  BY DEF LifeInv, TypeInv
<1>1. /\ todo' \in [Threads -> Seq(StepType)]
      /\ todo'[th] = steps \o Behind(th)
      /\ ToSet(todo'[th]) = ToSet(steps) \cup ToSet(Behind(th))
      /\ \A u \in Threads \ {th} : todo'[u] = todo[u]
  BY <1>0, TakesFacts
<1>2. /\ Behind(th) \in Seq(StepType) /\ ToSet(Behind(th)) \subseteq ToSet(todo[th])
      /\ steps \in Seq(StepType)
      /\ \A u \in Threads : ToSet(todo[u]) \subseteq StepType
  BY <1>0, BehindFacts, Entries DEF Takes
\* a step that was there already
<1>3. ASSUME NEW u \in Threads, NEW x \in ToSet(todo[u])
      PROVE  /\ x.op \in JobOps => x.arg \in Jobs /\ TaskOf(x.arg) \in Tasks /\ Launchable(x.arg)'
             /\ ~ MayShutDown /\ x.op = "fire" => status'[x.arg] \in Final
  <2>1. x.op \in JobOps => x.arg \in Jobs
    BY <1>2 DEF StepType, JobOps, TaskOps, OtherOps
  <2>2. x.op = "fire" => x.arg \in Tasks
    BY <1>2 DEF StepType, JobOps, TaskOps, OtherOps
  <2>3. \A j \in Jobs : TaskOf(j) \in Tasks
    BY DEF Jobs, TaskOf
  <2>. QED BY <1>0, <2>1, <2>2, <2>3 DEF ManualInv, ToldInv, Lasting
<1>4. ASSUME NEW u \in Threads, NEW x \in ToSet(todo'[u])
      PROVE  /\ x.op \in JobOps => Launchable(x.arg)'
             /\ ~ MayShutDown /\ x.op = "fire" => status'[x.arg] \in Final
  BY <1>1, <1>2, <1>3 DEF Sound
<1>5. ASSUME NEW u \in Threads, NEW x \in ToSet(todo[u]) PROVE Known(x)
  <2>1. PICK n \in 1 .. Len(todo[u]) : x = todo[u][n]
    BY <1>0, Entries
  <2>. QED BY <1>0, <2>1 DEF EntersInv, ArmsInv, Known
<1>6. ASSUME NEW u \in Threads, NEW x \in ToSet(todo'[u]) PROVE Known(x)'
  BY <1>1, <1>2, <1>5
\* no call stays behind that has not entered its tasks
<1>7. ASSUME NEW x \in ToSet(Behind(th)) PROVE ~ Enters(x)
  <2>1. SUFFICES ASSUME Enters(x) PROVE FALSE
    OBVIOUS
  <2>2. todo[th] = <<x>>
    BY <1>0, <1>2, <2>1 DEF EntersInv
  <2>3. Behind(th) = <<>>
    BY <2>2 DEF Behind, Idle
  <2>. QED BY <2>3 DEF ToSet
<1>8. EntersInv'
  <2>1. ASSUME NEW u \in Threads, NEW x \in ToSet(todo'[u]), Enters(x)
        PROVE  u \in Callers /\ todo'[u] = <<x>> /\ \A t \in Newcomers(x) : status'[t] = "Absent"
    <3>1. \A t \in Newcomers(x) : status'[t] = "Absent"
      BY <1>6, <2>1 DEF Known
    <3>2. CASE u = th
      <4>1. x \in ToSet(steps)
        BY <1>1, <1>7, <2>1, <3>2
      <4>2. th \in Callers /\ steps = <<x>> /\ Behind(th) = <<>>
        BY <2>1, <4>1
      <4>3. steps \o <<>> = steps
        BY <1>2, ConcatEmptySeq
      <4>. QED BY <1>1, <3>1, <3>2, <4>2, <4>3
    <3>3. CASE u # th
      BY <1>0, <1>1, <2>1, <3>1, <3>3 DEF EntersInv
    <3>. QED BY <3>2, <3>3
  <2>2. ASSUME NEW u \in Threads, NEW v \in Threads, u # v,
               NEW x \in ToSet(todo'[u]), NEW y \in ToSet(todo'[v]), Enters(x), Enters(y)
        PROVE  Newcomers(x) \cap Newcomers(y) = {}
    <3>1. CASE u = th
      <4>1. x \in ToSet(steps) /\ y \in ToSet(todo[v]) /\ v \in Threads \ {th}
        BY <1>1, <1>7, <2>2, <3>1
      <4>. QED BY <2>2, <4>1
    <3>2. CASE v = th
      <4>1. y \in ToSet(steps) /\ x \in ToSet(todo[u]) /\ u \in Threads \ {th}
        BY <1>1, <1>7, <2>2, <3>2
      <4>. QED BY <2>2, <4>1
    <3>3. CASE u # th /\ v # th
      BY <1>0, <1>1, <2>2, <3>3 DEF EntersInv
    <3>. QED BY <3>1, <3>2, <3>3
  <2>. QED BY <2>1, <2>2 DEF EntersInv
<1>9. ArmsInv'
  <2>1. ASSUME NEW u \in Threads, NEW n \in 1 .. Len(todo'[u]), todo'[u][n].op = "arm"
        PROVE  n = Len(todo'[u])
    <3>1. CASE u = th
      <4>. DEFINE a == Len(steps)
                  b == Len(Behind(th))
      <4>1. /\ a \in Nat /\ b \in Nat /\ Len(todo'[th]) = a + b
            /\ n <= a => n \in 1 .. a /\ todo'[th][n] = steps[n]
            /\ n > a => n - a \in 1 .. b /\ todo'[th][n] = Behind(th)[n - a]
        BY <1>1, <1>2, <2>1, <3>1, ConcatProperties, LenProperties
      <4>2. CASE n <= a
        <5>1. n = a /\ Behind(th) = <<>>
          BY <2>1, <3>1, <4>1, <4>2
        <5>2. b = 0
          BY <5>1
        <5>. QED BY <3>1, <4>1, <5>1, <5>2
      <4>3. CASE n > a
        <5>1. /\ n - a + 1 \in 1 .. Len(todo[th]) /\ b + 1 = Len(todo[th])
              /\ todo'[th][n] = todo[th][n - a + 1]
          BY <1>0, <4>1, <4>3, BehindFacts
        <5>2. n - a + 1 = Len(todo[th])
          BY <1>0, <2>1, <3>1, <5>1 DEF ArmsInv
        <5>. QED BY <3>1, <4>1, <5>1, <5>2
      <4>. QED BY <2>1, <3>1, <4>1, <4>2, <4>3
    <3>2. CASE u # th
      BY <1>0, <1>1, <2>1, <3>2 DEF ArmsInv
    <3>. QED BY <3>1, <3>2
  <2>2. ASSUME NEW u \in Threads, NEW n \in 1 .. Len(todo'[u]), todo'[u][n].op = "arm"
        PROVE  status'[todo'[u][n].arg] # "Absent" /\ auto'[todo'[u][n].arg] = "manual"
    <3>1. todo'[u][n] \in ToSet(todo'[u])
      BY <1>1, Entries
    <3>. QED BY <1>6, <2>2, <3>1 DEF Known
  <2>3. ASSUME NEW u \in Threads \ {th}, NEW x \in ToSet(todo'[th]), NEW y \in ToSet(todo[u]),
               x.op = "arm", y.op = "arm"
        PROVE  x.arg # y.arg
    <3>1. CASE x \in ToSet(steps)
      <4>1. PICK n \in 1 .. Len(steps) : x = steps[n]
        BY <1>2, <3>1, Entries
      <4>. QED BY <2>3, <4>1
    <3>2. CASE x \in ToSet(Behind(th))
      BY <1>0, <1>2, <2>3, <3>2 DEF ArmsInv
    <3>. QED BY <1>1, <2>3, <3>1, <3>2
  <2>4. ASSUME NEW u \in Threads, NEW v \in Threads, u # v,
               NEW x \in ToSet(todo'[u]), NEW y \in ToSet(todo'[v]), x.op = "arm", y.op = "arm"
        PROVE  x.arg # y.arg
    <3>1. CASE u = th
      BY <1>1, <2>3, <2>4, <3>1
    <3>2. CASE v = th
      BY <1>1, <2>3, <2>4, <3>2
    <3>3. CASE u # th /\ v # th
      BY <1>0, <1>1, <2>4, <3>3 DEF ArmsInv
    <3>. QED BY <3>1, <3>2, <3>3
  <2>. QED BY <2>1, <2>2, <2>4 DEF ArmsInv
<1>. QED BY <1>1, <1>4, <1>8, <1>9

-----------------------------------------------------------------------------
(* One step for each member of a set.                                      *)

LEMMA Listed ==
  ASSUME NEW A, IsFiniteSet(A)
  PROVE  SetToSeq(A) \in Seq(A) /\ ToSet(SetToSeq(A)) \subseteq A
<1>. DEFINE k == Cardinality(A)
<1>1. k \in Nat /\ ExistsBijection(1 .. k, A)
  BY FS_CardinalityType
<1>2. PICK f \in Bijection(1 .. k, A) : TRUE
  BY <1>1 DEF ExistsBijection
<1>3. f \in [1 .. k -> A] /\ IsInjective(f)
  BY <1>2 DEF Bijection, Injection, IsInjective
<1>4. SetToSeq(A) \in [1 .. k -> A]
  BY <1>3 DEF SetToSeq
<1>5. SetToSeq(A) \in Seq(A)
  BY <1>1, <1>4
<1>. QED BY <1>5, Entries

LEMMA FiniteTasks ==
  /\ IsFiniteSet(Tasks) /\ IsFiniteSet(Jobs)
  /\ \A j \in Jobs : TaskOf(j) \in Tasks
  /\ NoJob \notin Jobs /\ MaxAutoRetries \in Nat
<1>1. IsFiniteSet(1 .. MaxAutoRetries + 1)
  <2>1. 1 \in Int /\ MaxAutoRetries + 1 \in Int
    BY TasksAssumption
  <2>. QED BY <2>1, FS_Interval
<1>2. IsFiniteSet(Tasks)
  BY TasksAssumption
<1>3. IsFiniteSet(Jobs)
  BY <1>1, <1>2, FS_Product DEF Jobs
<1>. QED BY <1>2, <1>3, TasksAssumption, ThreadsAssumption DEF Jobs, TaskOf

LEMMA ForEachFacts ==
  ASSUME NEW op, NEW A, IsFiniteSet(A), \A e \in A : DoFor(op, e) \in StepType
  PROVE  /\ ForEach(op, A) \in Seq(StepType)
         /\ \A x \in ToSet(ForEach(op, A)) : x.op = op /\ x.arg \in A
<1>. DEFINE T == {DoFor(op, e) : e \in A}
<1>1. [e \in A |-> DoFor(op, e)] \in Surjection(A, T)
  BY DEF Surjection
<1>2. IsFiniteSet(T)
  BY <1>1, FS_Surjection DEF ExistsSurjection
<1>3. SetToSeq(T) \in Seq(T) /\ ToSet(SetToSeq(T)) \subseteq T
  BY <1>2, Listed
<1>4. T \subseteq StepType
  OBVIOUS
<1>5. SetToSeq(T) \in Seq(StepType)
  BY <1>3, <1>4
<1>6. \A x \in T : x.op = op /\ x.arg \in A
  BY DEF DoFor
<1>. QED BY <1>3, <1>5, <1>6 DEF ForEach

LEMMA StepTypes ==
  /\ \A op \in JobOps, j \in Jobs, s \in JobStates \cup {"none"} :
       DoFor(op, j) \in StepType /\ Record(op, j, s) \in StepType
  /\ \A op \in TaskOps, t \in Tasks : DoFor(op, t) \in StepType
  /\ \A op \in OtherOps : Do(op) \in StepType
  /\ \A g \in Pipelines : DoFor("enterPipeline", g) \in StepType
  /\ Flush \in Seq(StepType)
  /\ \A x \in ToSet(Flush) : x.op \in OtherOps
BY DEF StepType, DoFor, Record, Do, Flush, OtherOps, ToSet

-----------------------------------------------------------------------------
(* What a critical section does to the statuses.                           *)

(* s is what a section may make of the statuses of tasks that were in the  *)
(* map before.                                                             *)
Calm(s) ==
  /\ s \in [Tasks -> Statuses]
  /\ \A t \in Tasks :
       /\ s[t] = "Absent" <=> status[t] = "Absent"
       /\ status[t] \in Final => s[t] = status[t]
       /\ status[t] = "Cancelling" => s[t] \in Final \cup {"Cancelling"}
       /\ auto[t] = "manual" /\ status[t] \in {"Queued", "Canceled"}
            => s[t] \in {"Queued", "Canceled"}
       /\ s[t] \in Launched => \A p \in parents[t] : s[p] = "Completed"

LEMMA PassFacts ==
  ASSUME NEW timers, NEW s \in [Tasks -> Statuses], NEW queued \in SUBSET Tasks,
         PassBefore(timers, s, queued),
         attempts' \in [Tasks -> 0 .. MaxAutoRetries], staged \subseteq Jobs,
         parents' \in [Tasks -> SUBSET Tasks],
         \A t \in Tasks : \A p \in parents'[t] : s[p] # "Absent"
  PROVE  /\ status' \in [Tasks -> Statuses]
         /\ \A t \in Tasks :
              /\ s[t] \notin ReadyLike => status'[t] = s[t]
              /\ s[t] \in ReadyLike => status'[t] \in ReadyLike \cup {"Dispatching", "Failed"}
              /\ auto'[t] = "manual" /\ s[t] = "Queued" => status'[t] = "Queued"
              /\ s[t] \in ReadyLike /\ status'[t] = "Dispatching" => ParentsDone(t)'
         /\ staged' \subseteq Jobs /\ ready' \subseteq Tasks
         /\ \A j \in staged' : j \in staged \/ Launchable(j)'
<1>. DEFINE listed == {t \in queued : s[t] \in ReadyLike}
            candidates == {t \in listed : IsLaunchCandidate(s, t)}
<1>1. CASE down
  <2>1. status' = s /\ staged' = staged /\ ready' = listed
    BY <1>1 DEF PassBefore
  <2>. QED BY <2>1 DEF Statuses, ReadyLike
<1>2. CASE ~ down
  <2>1. \E through, normal \in SUBSET candidates : \E failing \in SUBSET (through \cup normal) :
          Launch(s, listed, candidates, through, (through \cup normal) \ failing, failing)
    <3>1. \E high \in Pressure,
             through \in SUBSET {t \in candidates : WorkerOriginated(t)},
             normal \in SUBSET candidates :
            \E failing \in SUBSET ((through \cup normal) \cap Unresolved) :
              Launch(s, listed, candidates, through, (through \cup normal) \ failing, failing)
      BY <1>2, ZenonT(30) DEF PassBefore
    <3>. HIDE DEF listed, candidates
    <3>. QED BY <3>1, ZenonT(30)
  <2>0. PICK through \in SUBSET candidates, normal \in SUBSET candidates :
          \E failing \in SUBSET (through \cup normal) :
            Launch(s, listed, candidates, through, (through \cup normal) \ failing, failing)
    BY <2>1
  <2>2. PICK failing \in SUBSET (through \cup normal) :
          Launch(s, listed, candidates, through, (through \cup normal) \ failing, failing)
    BY <2>0
  <2>. DEFINE launched == (through \cup normal) \ failing
  <2>3. \A t \in candidates : /\ t \in Tasks /\ t \in listed /\ auto'[t] # "manual"
                             /\ \A p \in parents'[t] : p \in Tasks /\ s[p] = "Completed"
    BY DEF IsLaunchCandidate, ParentsSatisfied
  <2>4. launched \subseteq candidates /\ failing \subseteq candidates
    OBVIOUS
  <2>5. \A t \in listed : t \in Tasks /\ s[t] \in ReadyLike
    OBVIOUS
  <2>. HIDE DEF launched, candidates, listed
  <2>6. /\ status' = [t \in Tasks |->
             IF t \in failing THEN "Failed"
             ELSE IF t \in launched THEN "Dispatching"
             ELSE IF t \in candidates THEN "WaitingResource"
             ELSE IF t \in listed THEN "Queued" ELSE s[t]]
        /\ staged' = staged \cup {<<t, attempts'[t] + 1>> : t \in launched}
        /\ ready' = candidates \ (launched \cup failing)
    BY <2>2 DEF Launch, launched
  <2>7. /\ status' \in [Tasks -> Statuses]
        /\ \A t \in Tasks :
              /\ s[t] \notin ReadyLike => status'[t] = s[t]
              /\ s[t] \in ReadyLike => status'[t] \in ReadyLike \cup {"Dispatching", "Failed"}
              /\ auto'[t] = "manual" /\ s[t] = "Queued" => status'[t] = "Queued"
              /\ s[t] \in ReadyLike /\ status'[t] = "Dispatching" => t \in launched
    BY <2>3, <2>4, <2>5, <2>6 DEF Statuses, ReadyLike, ActiveStates, Final
  <2>11. ASSUME NEW t \in launched PROVE ParentsDone(t)'
    <3>1. \A p \in parents'[t] : p \in Tasks /\ s[p] = "Completed"
      BY <2>3, <2>4
    <3>2. \A p \in Tasks : s[p] = "Completed" => status'[p] = "Completed"
      BY <2>7 DEF ReadyLike
    <3>. QED BY <3>1, <3>2 DEF ParentsDone
  <2>8. ASSUME NEW t \in launched
        PROVE  <<t, attempts'[t] + 1>> \in Jobs /\ auto'[TaskOf(<<t, attempts'[t] + 1>>)] # "manual"
    <3>1. t \in Tasks /\ auto'[t] # "manual"
      BY <2>3, <2>4
    <3>2. attempts'[t] + 1 \in 1 .. MaxAutoRetries + 1
      BY <3>1, FiniteTasks
    <3>. QED BY <3>1, <3>2 DEF Jobs, TaskOf
  <2>9. staged' \subseteq Jobs /\ \A j \in staged' : j \in staged \/ Launchable(j)'
    <3>1. ASSUME NEW j \in staged', j \notin staged PROVE j \in Jobs /\ Launchable(j)'
      <4>1. PICK t \in launched : j = <<t, attempts'[t] + 1>>
        BY <2>6, <3>1
      <4>2. TaskOf(j) = t
        BY <4>1 DEF TaskOf
      <4>. QED BY <2>8, <2>11, <4>1, <4>2 DEF Launchable
    <3>. QED BY <3>1
  <2>10. ready' \subseteq Tasks
    BY <2>3, <2>6
  <2>. QED BY <2>7, <2>9, <2>10, <2>11
<1>. QED BY <1>1, <1>2

\* most actions put no task into the map and arm none
Ordinary(th, steps) ==
  /\ Takes(th, steps)
  /\ Calm(status') /\ auto' = auto /\ parents' = parents
  /\ jobId' \in [Tasks -> Jobs \cup {NoJob}] /\ attempts' \in [Tasks -> 0 .. MaxAutoRetries]
  /\ staged' \subseteq Jobs /\ ready' \subseteq Tasks /\ job' \in [Jobs -> JobStates]
  /\ callback' \in [Tasks -> {"none", "waits", "told", "dropped"}]
  /\ \A t \in Tasks : \/ jobId'[t] \in {jobId[t], NoJob}
                      \/ TaskOf(jobId'[t]) = t /\ Launchable(jobId'[t])
  /\ \A j \in staged' : j \in staged \/ Launchable(j)'
  /\ \A j \in Jobs : job'[j] # "Absent" => Launchable(j)
  /\ \A x \in ToSet(steps) : Plain(x) /\ Sound(x)'
  /\ ~ MayShutDown => ~ down' /\ OnlyTheEndIsTold'

OneWayStep ==
  \A t \in Tasks :
    /\ status[t] \in Final => status'[t] = status[t]
    /\ status[t] = "Cancelling" => status'[t] \in Final \cup {"Cancelling"}

LEMMA NewcomersAreTasks ==
  \A x \in StepType : /\ Enters(x) => Newcomers(x) \subseteq Tasks
                      /\ x.op = "arm" => x.arg \in Tasks
<1>1. \A g \in Pipelines : DOMAIN g \subseteq Tasks
  BY TasksAssumption
<1>. QED BY <1>1 DEF StepType, Enters, Newcomers, JobOps, TaskOps, OtherOps

LEMMA LastingFacts ==
  ASSUME TypeInv, Calm(status'), auto' = auto, parents' = parents
  PROVE  Lasting
<1>1. ASSUME NEW j \in Jobs, Launchable(j) PROVE Launchable(j)'
  <2>1. TaskOf(j) \in Tasks /\ parents[TaskOf(j)] \subseteq Tasks
    BY FiniteTasks DEF TypeInv
  <2>2. \A p \in Tasks : status[p] = "Completed" => status'[p] = "Completed"
    BY DEF Calm, Final
  <2>. QED BY <1>1, <2>1, <2>2 DEF Launchable, ParentsDone
<1>. QED BY <1>1 DEF Lasting

LEMMA LastsQuietly ==
  ASSUME LifeInv, UNCHANGED <<status, auto, parents>>
  PROVE  Lasting
BY DEF Lasting, Launchable, ParentsDone

LEMMA OrdinaryStep ==
  ASSUME LifeInv, NEW th \in Threads, NEW steps, Ordinary(th, steps)
  PROVE  LifeInv' /\ OneWayStep
<1>0. /\ TypeInv /\ ManualInv /\ ToldInv
      /\ \A u \in Threads : ToSet(todo[u]) \subseteq StepType
      /\ ToSet(Behind(th)) \subseteq ToSet(todo[th])
  BY BehindFacts, Entries DEF LifeInv, TypeInv
<1>1. ASSUME NEW x \in StepType, Known(x) PROVE Known(x)'
  BY <1>1, NewcomersAreTasks DEF Known, Ordinary, Calm
<1>8. Lasting
  BY <1>0, LastingFacts DEF Ordinary
<1>2. /\ todo' \in [Threads -> Seq(StepType)]
      /\ \A u \in Threads : \A x \in ToSet(todo'[u]) : x.op \in JobOps => Launchable(x.arg)'
      /\ ~ MayShutDown => \A u \in Threads : \A x \in ToSet(todo'[u]) :
                            x.op = "fire" => status'[x.arg] \in Final
      /\ EntersInv' /\ ArmsInv'
  <2>1. \A x \in ToSet(steps) : Sound(x)' /\ Plain(x) /\ Known(x)'
    BY DEF Ordinary, Plain, Known
  <2>2. \A n \in 1 .. Len(steps) : steps[n].op # "arm"
    <3>1. steps \in Seq(StepType)
      BY DEF Ordinary, Takes
    <3>. QED BY <2>1, <3>1, Entries DEF Plain
  <2>. HIDE DEF Known, Sound, Enters
  <2>3. /\ Takes(th, steps)
        /\ \A t \in Tasks : status[t] \in Final => status'[t] \in Final
    BY DEF Ordinary, Calm
  <2>4. \A x \in ToSet(steps) : ~ Enters(x)
    BY <2>1 DEF Plain
  <2>5. /\ \A x \in ToSet(Behind(th)) : Known(x) => Known(x)'
        /\ \A u \in Threads \ {th} : \A x \in ToSet(todo[u]) : Known(x) => Known(x)'
    BY <1>0, <1>1
  <2>. QED BY <1>8, <2>1, <2>2, <2>3, <2>4, <2>5, TodoStep
<1>3. TypeInv'
  BY <1>0, <1>2 DEF TypeInv, Ordinary, Calm
<1>4. \A t \in Tasks : auto[t] \in {"manual", "auto", "armed"} /\ status[t] \in Statuses
  BY <1>0 DEF TypeInv
<1>5. ManualInv'
  <2>1. \A t \in Tasks : status'[t] = "Absent" => auto'[t] = "manual"
    BY <1>0 DEF ManualInv, Ordinary, Calm
  <2>2. \A t \in Tasks : auto'[t] = "manual" =>
          status'[t] \in {"Absent", "Queued", "Canceled"} /\ jobId'[t] = NoJob
    BY <1>0 DEF ManualInv, Ordinary, Calm, Launchable
  <2>3. ASSUME NEW t \in Tasks, NEW j, j = jobId'[t], j # NoJob
        PROVE  TaskOf(j) = t /\ Launchable(j)'
    <3>1. j \in Jobs
      BY <2>3 DEF Ordinary
    <3>2. CASE j = jobId[t]
      BY <1>0, <1>8, <2>3, <3>1, <3>2 DEF ManualInv, Lasting
    <3>3. CASE TaskOf(j) = t /\ Launchable(j)
      BY <1>8, <3>1, <3>3 DEF Lasting
    <3>. QED BY <2>3, <3>2, <3>3 DEF Ordinary
  <2>6. \A t \in Tasks : jobId'[t] # NoJob => TaskOf(jobId'[t]) = t /\ Launchable(jobId[t])'
    BY <2>3
  <2>7. \A t \in Tasks : \A p \in parents'[t] : auto'[p] # "manual"
    BY <1>0 DEF ManualInv, Ordinary
  <2>4. /\ \A j \in staged' : Launchable(j)'
        /\ \A j \in Jobs : job'[j] # "Absent" => Launchable(j)'
    BY <1>0, <1>8 DEF ManualInv, TypeInv, Ordinary, Lasting
  <2>5. \A u \in Threads : \A x \in ToSet(todo'[u]) : x.op \in JobOps => Launchable(x.arg)'
    BY <1>2
  <2>. QED BY <2>1, <2>2, <2>4, <2>5, <2>6, <2>7 DEF ManualInv
<1>9. StartInv'
  BY DEF StartInv, ParentsDone, Ordinary, Calm
<1>6. ToldInv'
  BY <1>2 DEF ToldInv, Ordinary
<1>7. OneWayStep
  BY DEF OneWayStep, Ordinary, Calm
<1>. QED BY <1>2, <1>3, <1>5, <1>6, <1>7, <1>9 DEF LifeInv

-----------------------------------------------------------------------------
(* What the ordinary actions are made of.                                  *)

LEMMA NoSteps == <<>> \in Seq(StepType) /\ ToSet(<<>>) = {}
BY DEF ToSet

\* what the head of todo says of the state
LEMMA HeadFacts ==
  ASSUME LifeInv, NEW th \in Threads, NEW op, At(th, op)
  PROVE  /\ ~ Idle(th) /\ Head(todo[th]) \in ToSet(todo[th])
         /\ op \in JobOps => /\ Arg(th) \in Jobs /\ Launchable(Arg(th))
                             /\ TaskOf(Arg(th)) \in Tasks
                             /\ State(th) \in JobStates \cup {"none"}
         /\ op \in TaskOps => Arg(th) \in Tasks
         /\ op = "enterPipeline" => Arg(th) \in Pipelines
         /\ op = "fire" /\ ~ MayShutDown => status[Arg(th)] \in Final
         /\ op = "arm" => /\ status[Arg(th)] # "Absent" /\ auto[Arg(th)] = "manual"
                          /\ Behind(th) = <<>>
         /\ op \in {"enterPipeline", "resubmit"} =>
              /\ th \in Callers /\ todo[th] = <<Head(todo[th])>> /\ Behind(th) = <<>>
              /\ \A t \in Newcomers(Head(todo[th])) : status[t] = "Absent"
<1>. DEFINE s == todo[th]
            x == Head(s)
<1>1. s \in Seq(StepType) /\ s # <<>> /\ x.op = op
  BY DEF LifeInv, TypeInv, At
<1>2. x = s[1] /\ 1 \in 1 .. Len(s) /\ Len(s) \in Nat
  <2>1. x = s[1]
    OBVIOUS
  <2>. QED BY <1>1, <2>1, LenProperties, EmptySeq
<1>3. x \in ToSet(s) /\ x \in StepType
  BY <1>1, <1>2, Entries
<1>4. /\ op \in JobOps => x.arg \in Jobs /\ x.state \in JobStates \cup {"none"}
      /\ op \in TaskOps => x.arg \in Tasks
      /\ op = "enterPipeline" => x.arg \in Pipelines
  BY <1>1, <1>3 DEF StepType, JobOps, TaskOps, OtherOps
<1>5. op \in JobOps => Launchable(x.arg) /\ TaskOf(x.arg) \in Tasks
  BY <1>1, <1>3, <1>4, FiniteTasks DEF LifeInv, ManualInv
<1>6. op = "fire" /\ ~ MayShutDown => status[x.arg] \in Final
  BY <1>1, <1>3 DEF LifeInv, ToldInv
<1>7. ASSUME op = "arm"
      PROVE  status[x.arg] # "Absent" /\ auto[x.arg] = "manual" /\ Behind(th) = <<>>
  <2>1. 1 = Len(s) /\ status[x.arg] # "Absent" /\ auto[x.arg] = "manual"
    BY <1>1, <1>2, <1>7 DEF LifeInv, ArmsInv
  <2>2. Tail(s) \in Seq(StepType) /\ Len(Tail(s)) = 0
    BY <1>1, <2>1, HeadTailProperties
  <2>3. Tail(s) = <<>>
    BY <2>2, EmptySeq
  <2>. QED BY <1>1, <2>1, <2>3 DEF Behind, Idle
<1>8. ASSUME op \in {"enterPipeline", "resubmit"}
      PROVE  /\ th \in Callers /\ s = <<x>> /\ Behind(th) = <<>>
             /\ \A t \in Newcomers(x) : status[t] = "Absent"
  <2>1. Enters(x)
    BY <1>1, <1>8 DEF Enters
  <2>2. th \in Callers /\ s = <<x>> /\ \A t \in Newcomers(x) : status[t] = "Absent"
    BY <1>3, <2>1 DEF LifeInv, EntersInv
  <2>3. Tail(<<x>>) = <<>>
    OBVIOUS
  <2>. QED BY <1>1, <2>2, <2>3 DEF Behind, Idle
<1>. QED BY <1>1, <1>3, <1>4, <1>5, <1>6, <1>7, <1>8 DEF Arg, State, Idle

LEMMA CalmFacts ==
  ASSUME LifeInv
  PROVE  /\ Calm(status)
         /\ \A t \in Tasks, new \in Statuses \ {"Absent"} :
              /\ Live(status, t)
              /\ status[t] = "Cancelling" => new \in Final
              /\ auto[t] = "manual" => new = "Canceled"
              /\ new \in Launched => ParentsDone(t)
              => Calm(Set(t, new))
         /\ \A s : Calm(s) => \A targets : Calm(Cascade(s, targets))
<1>1. /\ status \in [Tasks -> Statuses] /\ TypeInv /\ ManualInv /\ StartInv
      /\ parents \in [Tasks -> SUBSET Tasks]
  BY DEF LifeInv, TypeInv
<1>2. Calm(status)
  BY <1>1 DEF Calm, StartInv, ParentsDone
<1>3. ASSUME NEW t \in Tasks, NEW new \in Statuses \ {"Absent"}, Live(status, t),
             status[t] = "Cancelling" => new \in Final,
             auto[t] = "manual" => new = "Canceled",
             new \in Launched => ParentsDone(t)
      PROVE  Calm(Set(t, new))
  <2>1. \A c \in Tasks : Set(t, new)[c] \in Launched =>
          \A p \in parents[c] : p # t /\ p \in Tasks /\ status[p] = "Completed"
    BY <1>1, <1>3 DEF StartInv, ParentsDone, Set, Live, Final
  <2>2. \A c \in Tasks : Set(t, new)[c] \in Launched =>
          \A p \in parents[c] : Set(t, new)[p] = "Completed"
    BY <1>1, <2>1 DEF Set
  <2>. QED BY <1>1, <1>3, <2>2 DEF Calm, Set, Live
<1>4. ASSUME NEW s, Calm(s), NEW targets
      PROVE  Calm(Cascade(s, targets))
  <2>1. Cascade(s, targets) \in [Tasks -> Statuses]
    BY <1>4 DEF Calm, Cascade, Statuses, Final, ActiveStates
  <2>2. ASSUME NEW t \in Tasks
        PROVE  \/ Cascade(s, targets)[t] = s[t]
               \/ /\ Live(s, t) /\ Cascade(s, targets)[t] \in {"Canceled", "Cancelling"}
                  /\ jobId[t] = NoJob => Cascade(s, targets)[t] = "Canceled"
    BY <1>4 DEF Cascade
  <2>. HIDE DEF Cascade
  <2>3. \A t \in Tasks : auto[t] = "manual" => jobId[t] = NoJob
    BY <1>1 DEF ManualInv
  <2>4. \A p \in Tasks : s[p] = "Completed" => Cascade(s, targets)[p] = "Completed"
    BY <2>2 DEF Live, Final
  <2>5. ASSUME NEW t \in Tasks, Cascade(s, targets)[t] \in Launched, NEW p \in parents[t]
        PROVE  Cascade(s, targets)[p] = "Completed"
    <3>1. p \in Tasks
      BY <1>1
    <3>2. CASE s[t] \in Launched
      BY <1>4, <2>4, <3>1, <3>2 DEF Calm
    <3>3. CASE jobId[t] # NoJob
      BY <1>1, <1>4, <2>4, <3>1, <3>3 DEF ManualInv, Launchable, ParentsDone, Calm, Final
    <3>4. "Canceled" \notin Launched
      BY DEF Launched, ActiveStates
    <3>. QED BY <2>2, <2>5, <3>2, <3>3, <3>4
  <2>. QED BY <1>4, <2>1, <2>2, <2>3, <2>5 DEF Calm, Live, Final
<1>. QED BY <1>2, <1>3, <1>4

\* the admission pass that ends a critical section
LEMMA CalmPass ==
  ASSUME LifeInv, NEW timers, NEW s, Calm(s), NEW queued \in SUBSET Tasks,
         PassBefore(timers, s, queued), auto' = auto, parents' = parents,
         attempts' \in [Tasks -> 0 .. MaxAutoRetries]
  PROVE  /\ Calm(status') /\ Lasting
         /\ \A t \in Tasks : s[t] \in Final => status'[t] = s[t]
         /\ staged' \subseteq Jobs /\ ready' \subseteq Tasks
         /\ \A j \in staged' : j \in staged \/ Launchable(j)'
<1>1. /\ s \in [Tasks -> Statuses] /\ staged \subseteq Jobs /\ TypeInv
      /\ parents' \in [Tasks -> SUBSET Tasks]
      /\ \A t \in Tasks : \A p \in parents'[t] : s[p] # "Absent"
  BY DEF Calm, LifeInv, TypeInv, ManualInv
<1>2. /\ status' \in [Tasks -> Statuses]
      /\ \A t \in Tasks :
           /\ s[t] \notin ReadyLike => status'[t] = s[t]
           /\ s[t] \in ReadyLike => status'[t] \in ReadyLike \cup {"Dispatching", "Failed"}
           /\ auto'[t] = "manual" /\ s[t] = "Queued" => status'[t] = "Queued"
           /\ s[t] \in ReadyLike /\ status'[t] = "Dispatching" => ParentsDone(t)'
      /\ staged' \subseteq Jobs /\ ready' \subseteq Tasks
      /\ \A j \in staged' : j \in staged \/ Launchable(j)'
  BY <1>1, PassFacts
<1>3. \A t \in Tasks : s[t] \in Final => status'[t] = s[t]
  BY <1>2 DEF Final, ReadyLike
<1>4. ASSUME NEW t \in Tasks, status'[t] \in Launched, NEW p \in parents[t]
      PROVE  status'[p] = "Completed"
  <2>1. CASE s[t] \in ReadyLike
    <3>1. status'[t] = "Dispatching"
      BY <1>2, <1>4, <2>1 DEF Launched, ActiveStates, ReadyLike
    <3>. QED BY <1>2, <1>4, <2>1, <3>1 DEF ParentsDone
  <2>2. CASE s[t] \notin ReadyLike
    <3>1. p \in Tasks /\ s[p] = "Completed"
      BY <1>1, <1>2, <1>4, <2>2 DEF Calm
    <3>. QED BY <1>3, <3>1 DEF Final
  <2>. QED BY <2>1, <2>2
<1>5. Calm(status')
  BY <1>2, <1>4 DEF Calm, Final, ReadyLike
<1>6. Lasting
  BY <1>1, <1>5, LastingFacts
<1>. QED BY <1>2, <1>3, <1>5, <1>6

\* the jobs and the tasks a cascade is about
LEMMA TargetsFacts ==
  ASSUME LifeInv, NEW s, NEW targets
  PROVE  /\ IsFiniteSet(JobsToCancel(s, targets)) /\ JobsToCancel(s, targets) \subseteq Jobs
         /\ \A j \in JobsToCancel(s, targets) : Launchable(j)
         /\ IsFiniteSet(CanceledAtOnce(s, targets)) /\ CanceledAtOnce(s, targets) \subseteq Tasks
         /\ s \in [Tasks -> Statuses] =>
              \A t \in CanceledAtOnce(s, targets) : Cascade(s, targets)[t] \in Final
         /\ \A t \in Tasks : /\ IsFiniteSet(OwnJob(t)) /\ OwnJob(t) \subseteq Jobs
                             /\ \A j \in OwnJob(t) : Launchable(j)
<1>1. /\ jobId \in [Tasks -> Jobs \cup {NoJob}]
      /\ \A t \in Tasks : jobId[t] # NoJob => Launchable(jobId[t])
  BY DEF LifeInv, TypeInv, ManualInv
<1>2. /\ JobsToCancel(s, targets) \subseteq Jobs
      /\ \A j \in JobsToCancel(s, targets) : Launchable(j)
  BY <1>1 DEF JobsToCancel
<1>3. /\ CanceledAtOnce(s, targets) \subseteq Tasks
      /\ \A t \in CanceledAtOnce(s, targets) :
           t \in Tasks /\ t \in targets /\ Live(s, t) /\ jobId[t] = NoJob
  BY DEF CanceledAtOnce
<1>4. \A t \in CanceledAtOnce(s, targets) : Cascade(s, targets)[t] \in Final
  BY <1>3 DEF Cascade, Final
<1>5. \A t \in Tasks : OwnJob(t) \subseteq Jobs /\ \A j \in OwnJob(t) : Launchable(j)
  BY <1>1 DEF OwnJob
<1>6. /\ IsFiniteSet(JobsToCancel(s, targets)) /\ IsFiniteSet(CanceledAtOnce(s, targets))
      /\ \A t \in Tasks : IsFiniteSet(OwnJob(t))
  BY <1>2, <1>3, <1>5, FiniteTasks, FS_Subset
<1>. QED BY <1>2, <1>3, <1>4, <1>5, <1>6

LEMMA CancelEach ==
  ASSUME LifeInv, NEW A, IsFiniteSet(A), A \subseteq Jobs, \A j \in A : Launchable(j),
         Lasting, NEW op \in {"cancel", "register"}
  PROVE  /\ ForEach(op, A) \in Seq(StepType)
         /\ \A x \in ToSet(ForEach(op, A)) : Plain(x) /\ Sound(x)'
<1>1. op \in JobOps /\ op # "fire" /\ op # "arm" /\ op \notin {"enterPipeline", "resubmit"}
  BY DEF JobOps
<1>2. \A j \in A : DoFor(op, j) \in StepType
  BY <1>1, StepTypes
<1>3. /\ ForEach(op, A) \in Seq(StepType)
      /\ \A x \in ToSet(ForEach(op, A)) : x.op = op /\ x.arg \in A
  BY <1>2, ForEachFacts
<1>. QED BY <1>1, <1>3 DEF Plain, Sound, Enters, Lasting

LEMMA FireEach ==
  ASSUME LifeInv, NEW A, IsFiniteSet(A), A \subseteq Tasks, \A t \in A : status'[t] \in Final
  PROVE  /\ ForEach("fire", A) \in Seq(StepType)
         /\ \A x \in ToSet(ForEach("fire", A)) : Plain(x) /\ Sound(x)'
<1>1. "fire" \in TaskOps /\ "fire" \notin JobOps
  BY DEF JobOps, TaskOps
<1>2. \A t \in A : DoFor("fire", t) \in StepType
  BY <1>1, StepTypes
<1>3. /\ ForEach("fire", A) \in Seq(StepType)
      /\ \A x \in ToSet(ForEach("fire", A)) : x.op = "fire" /\ x.arg \in A
  BY <1>2, ForEachFacts
<1>. QED BY <1>1, <1>3 DEF Plain, Sound, Enters

LEMMA OtherSteps ==
  /\ Flush \in Seq(StepType) /\ \A x \in ToSet(Flush) : Plain(x) /\ Sound(x)'
  /\ \A op \in OtherOps : Do(op) \in StepType /\ Plain(Do(op)) /\ Sound(Do(op))'
<1>1. \A op \in OtherOps : op \notin JobOps /\ op # "fire" /\ op # "arm"
                           /\ op \notin {"enterPipeline", "resubmit"}
  BY DEF OtherOps, JobOps
<1>2. \A x : x.op \in OtherOps => Plain(x) /\ Sound(x)'
  BY <1>1 DEF Plain, Sound, Enters
<1>3. \A op : Do(op).op = op
  BY DEF Do
<1>. QED BY <1>2, <1>3, StepTypes

\* sequences of such steps, one after the other
Goes(q) == q \in Seq(StepType) /\ \A x \in ToSet(q) : Plain(x) /\ Sound(x)'

LEMMA GoesOn ==
  ASSUME NEW q, NEW r, Goes(q), Goes(r)
  PROVE  Goes(q \o r)
BY Joined DEF Goes

LEMMA OneStep ==
  ASSUME NEW x \in StepType, Plain(x), Sound(x)'
  PROVE  Goes(<<x>>)
<1>1. <<x>> \in Seq(StepType) /\ ToSet(<<x>>) = {x}
  BY DEF ToSet
<1>. QED BY <1>1 DEF Goes

LEMMA FewSteps ==
  ASSUME NEW x, NEW y, NEW z, Goes(<<x>>), Goes(<<y>>), Goes(<<z>>)
  PROVE  Goes(<<x, y>>) /\ Goes(<<x, y, z>>)
<1>. DEFINE R == {x, y, z}
<1>1. ASSUME NEW e, Goes(<<e>>) PROVE e \in StepType /\ Plain(e) /\ Sound(e)'
  <2>1. <<e>>[1] = e /\ 1 \in 1 .. Len(<<e>>)
    OBVIOUS
  <2>2. e \in StepType /\ e \in ToSet(<<e>>)
    BY <1>1, <2>1, ElementOfSeq, Entries DEF Goes
  <2>. QED BY <1>1, <2>2 DEF Goes
<1>2. R \subseteq StepType /\ \A e \in R : Plain(e) /\ Sound(e)'
  BY <1>1
<1>3. <<x, y>> \in Seq(R) /\ <<x, y, z>> \in Seq(R)
  OBVIOUS
<1>. HIDE DEF R
<1>4. ASSUME NEW q \in Seq(R) PROVE Goes(q)
  <2>1. ToSet(q) \subseteq R
    BY Entries
  <2>2. q \in Seq(StepType)
    BY <1>2
  <2>. QED BY <1>2, <2>1, <2>2 DEF Goes
<1>. QED BY <1>3, <1>4

LEMMA JobStep ==
  ASSUME NEW op \in JobOps, NEW j \in Jobs, NEW s \in JobStates \cup {"none"},
         Launchable(j), Lasting
  PROVE  Goes(<<Record(op, j, s)>>) /\ Goes(<<DoFor(op, j)>>)
<1>1. op # "fire" /\ op # "arm" /\ op \notin {"enterPipeline", "resubmit"}
  BY DEF JobOps
<1>2. /\ Record(op, j, s).op = op /\ Record(op, j, s).arg = j
      /\ DoFor(op, j).op = op /\ DoFor(op, j).arg = j
  BY DEF Record, DoFor
<1>3. /\ Plain(Record(op, j, s)) /\ Sound(Record(op, j, s))'
      /\ Plain(DoFor(op, j)) /\ Sound(DoFor(op, j))'
  BY <1>1, <1>2 DEF Plain, Sound, Enters, Lasting
<1>. HIDE DEF Plain, Sound
<1>. QED BY <1>3, StepTypes, OneStep

LEMMA FireStep ==
  ASSUME NEW t \in Tasks, MayShutDown \/ status'[t] \in Final
  PROVE  Goes(<<DoFor("fire", t)>>)
<1>1. DoFor("fire", t).op = "fire" /\ DoFor("fire", t).arg = t /\ "fire" \notin JobOps
  BY DEF DoFor, JobOps
<1>2. Plain(DoFor("fire", t)) /\ Sound(DoFor("fire", t))'
  BY <1>1 DEF Plain, Sound, Enters
<1>3. "fire" \in TaskOps
  BY DEF TaskOps
<1>. QED BY <1>2, <1>3, StepTypes, OneStep

LEMMA TaskStep ==
  ASSUME NEW t \in Tasks, NEW op \in {"armed", "cancelTask", "strand"}
  PROVE  Goes(<<DoFor(op, t)>>)
<1>1. DoFor(op, t).op = op /\ DoFor(op, t).arg = t /\ op \notin JobOps /\ op \in TaskOps
  BY DEF DoFor, JobOps, TaskOps
<1>2. Plain(DoFor(op, t)) /\ Sound(DoFor(op, t))'
  BY <1>1 DEF Plain, Sound, Enters
<1>. QED BY <1>1, <1>2, StepTypes, OneStep

LEMMA NothingToDo == Goes(<<>>) /\ Goes(Flush) /\ \A op \in OtherOps : Goes(<<Do(op)>>)
<1>1. Goes(<<>>) /\ Goes(Flush)
  BY NoSteps, OtherSteps DEF Goes
<1>2. \A op \in OtherOps : Goes(<<Do(op)>>)
  BY OtherSteps, OneStep
<1>. QED BY <1>1, <1>2

TakesUp(th, steps) == Call(th, steps) \/ (~ Idle(th) /\ Then(th, steps))

JobIdMoves ==
  \/ jobId' = jobId
  \/ \E t \in Tasks : jobId' = [jobId EXCEPT ![t] = NoJob]
  \/ \E j \in Jobs : Launchable(j) /\ jobId' = [jobId EXCEPT ![TaskOf(j)] = j]

StagedMoves == staged' \subseteq Jobs /\ \A j \in staged' : j \in staged \/ Launchable(j)'

JobMoves == job' \in [Jobs -> JobStates] /\ \A j \in Jobs : job'[j] # "Absent" => Launchable(j)

CallbackMoves ==
  /\ callback' \in [Tasks -> {"none", "waits", "told", "dropped"}]
  /\ \A t \in Tasks : callback'[t] = "told" =>
       callback[t] = "told" \/ MayShutDown \/ status'[t] \in Final

LEMMA SectionStep ==
  ASSUME LifeInv, NEW th \in Threads, NEW steps, TakesUp(th, steps), Goes(steps),
         Calm(status'), auto' = auto, parents' = parents,
         JobIdMoves, attempts' = attempts \/ attempts' \in [Tasks -> 0 .. MaxAutoRetries],
         staged' \subseteq staged \/ StagedMoves, ready' \subseteq Tasks,
         job' = job \/ JobMoves, callback' = callback \/ CallbackMoves,
         down' = down \/ MayShutDown
  PROVE  LifeInv' /\ OneWayStep
<1>0. /\ TypeInv /\ ManualInv /\ ToldInv
      /\ jobId \in [Tasks -> Jobs \cup {NoJob}]
      /\ \A j \in Jobs : TaskOf(j) \in Tasks
  BY FiniteTasks DEF LifeInv, TypeInv
<1>1. Takes(th, steps) /\ \A x \in ToSet(steps) : Plain(x) /\ Sound(x)'
  BY <1>0, CallsAndThens DEF TakesUp, Goes
<1>2. /\ jobId' \in [Tasks -> Jobs \cup {NoJob}]
      /\ \A t \in Tasks : \/ jobId'[t] \in {jobId[t], NoJob}
                          \/ TaskOf(jobId'[t]) = t /\ Launchable(jobId'[t])
  <2>1. CASE jobId' = jobId
    BY <1>0, <2>1
  <2>2. ASSUME NEW t \in Tasks, jobId' = [jobId EXCEPT ![t] = NoJob]
        PROVE  jobId' \in [Tasks -> Jobs \cup {NoJob}] /\ \A u \in Tasks : jobId'[u] \in {jobId[u], NoJob}
    BY <1>0, <2>2
  <2>3. ASSUME NEW j \in Jobs, Launchable(j), jobId' = [jobId EXCEPT ![TaskOf(j)] = j]
        PROVE  /\ jobId' \in [Tasks -> Jobs \cup {NoJob}]
               /\ \A u \in Tasks : \/ jobId'[u] = jobId[u]
                                   \/ TaskOf(jobId'[u]) = u /\ Launchable(jobId'[u])
    <3>1. TaskOf(j) \in Tasks
      BY <1>0
    <3>2. ASSUME NEW u \in Tasks, u # TaskOf(j) PROVE jobId'[u] = jobId[u]
      BY <1>0, <2>3, <3>2
    <3>3. jobId'[TaskOf(j)] = j /\ jobId' \in [Tasks -> Jobs \cup {NoJob}]
      BY <1>0, <2>3, <3>1
    <3>. QED BY <2>3, <3>2, <3>3
  <2>. QED BY <2>1, <2>2, <2>3 DEF JobIdMoves
<1>3. /\ attempts' \in [Tasks -> 0 .. MaxAutoRetries] /\ staged' \subseteq Jobs
      /\ \A j \in staged' : j \in staged \/ Launchable(j)'
  BY <1>0 DEF TypeInv, StagedMoves
<1>4. job' \in [Jobs -> JobStates] /\ \A j \in Jobs : job'[j] # "Absent" => Launchable(j)
  BY <1>0 DEF TypeInv, ManualInv, JobMoves
<1>5. ~ MayShutDown => ~ down' /\ OnlyTheEndIsTold'
  <2>1. \A t \in Tasks : status[t] \in Final => status'[t] = status[t]
    BY DEF Calm
  <2>. QED BY <1>0, <2>1 DEF ToldInv, OnlyTheEndIsTold, CallbackMoves
<1>6. callback' \in [Tasks -> {"none", "waits", "told", "dropped"}]
  BY <1>0 DEF TypeInv, CallbackMoves
<1>7. Ordinary(th, steps)
  BY <1>1, <1>2, <1>3, <1>4, <1>5, <1>6 DEF Ordinary
<1>. QED BY <1>7, OrdinaryStep

LEMMA QuietStep ==
  ASSUME LifeInv, NEW th \in Threads, NEW steps, TakesUp(th, steps), Goes(steps),
         UNCHANGED <<status, auto, parents, jobId, attempts>>,
         staged' \subseteq staged, ready' \subseteq ready,
         job' = job \/ JobMoves, callback' = callback \/ CallbackMoves,
         down' = down \/ MayShutDown
  PROVE  LifeInv' /\ OneWayStep
<1>1. Calm(status') /\ ready' \subseteq Tasks /\ JobIdMoves
  BY CalmFacts DEF LifeInv, TypeInv, JobIdMoves
<1>. QED BY <1>1, SectionStep

\* a section that ends with an admission pass
LEMMA PassStep ==
  ASSUME LifeInv, NEW th \in Threads, NEW steps, TakesUp(th, steps), Goes(steps),
         NEW timers, NEW s, Calm(s), NEW queued \in SUBSET Tasks, PassBefore(timers, s, queued),
         auto' = auto, parents' = parents, JobIdMoves,
         attempts' = attempts \/ attempts' \in [Tasks -> 0 .. MaxAutoRetries],
         UNCHANGED <<job, callback, down>>
  PROVE  LifeInv' /\ OneWayStep
<1>1. attempts' \in [Tasks -> 0 .. MaxAutoRetries]
  BY DEF LifeInv, TypeInv
<1>2. Calm(status') /\ StagedMoves /\ ready' \subseteq Tasks
  BY <1>1, CalmPass DEF StagedMoves
<1>. QED BY <1>2, SectionStep

-----------------------------------------------------------------------------
(* The actions that leave the statuses alone.                              *)

LEMMA ArmedStep ==
  ASSUME LifeInv, NEW th \in Threads, Armed(th)
  PROVE  LifeInv' /\ OneWayStep
<1>. DEFINE steps == IF down THEN <<DoFor("fire", Arg(th))>> ELSE <<>>
<1>1. At(th, "armed") /\ Then(th, steps)
  BY DEF Armed
<1>2. ~ Idle(th) /\ Arg(th) \in Tasks
  BY <1>1, HeadFacts DEF TaskOps
<1>3. down => MayShutDown
  BY DEF LifeInv, ToldInv
<1>4. Goes(steps)
  BY <1>2, <1>3, NothingToDo, FireStep
<1>. QED BY <1>1, <1>2, <1>4, QuietStep DEF Armed, TakesUp

LEMMA FlushPendingLaunchesStep ==
  ASSUME LifeInv, NEW th \in Threads, FlushPendingLaunches(th)
  PROVE  LifeInv' /\ OneWayStep
<1>. DEFINE steps == IF down THEN <<>> ELSE ForEach("register", staged)
<1>1. At(th, "flush") /\ Then(th, steps) /\ auto' = auto
  BY DEF FlushPendingLaunches
<1>2. ~ Idle(th)
  BY <1>1 DEF At, Idle
<1>3. staged \subseteq Jobs /\ IsFiniteSet(staged) /\ \A j \in staged : Launchable(j)
  BY FiniteTasks, FS_Subset DEF LifeInv, TypeInv, ManualInv
<1>6. Lasting
  BY LastsQuietly DEF FlushPendingLaunches
<1>4. Goes(ForEach("register", staged))
  BY <1>3, <1>6, CancelEach DEF Goes
<1>5. Goes(steps)
  BY <1>4, NothingToDo
<1>. QED BY <1>1, <1>2, <1>5, QuietStep DEF FlushPendingLaunches, TakesUp

LEMMA RegisterStep ==
  ASSUME LifeInv, NEW th \in Threads, Register(th)
  PROVE  LifeInv' /\ OneWayStep
<1>. DEFINE j == Arg(th)
            t == TaskOf(j)
<1>1. At(th, "register") /\ "register" \in JobOps /\ {"submit", "link"} \subseteq JobOps
  BY DEF Register, JobOps
<1>2. ~ Idle(th) /\ j \in Jobs /\ Launchable(j) /\ t \in Tasks
  BY <1>1, HeadFacts
<1>3. UNCHANGED <<status, auto, parents, attempts, admissionVars, callback, down, job>>
  BY DEF Register
<1>7. Lasting
  BY <1>3, LastsQuietly
<1>4. Calm(status') /\ ready' \subseteq Tasks
  BY <1>3, CalmFacts DEF LifeInv, TypeInv
<1>5. CASE Live(status, t)
  <2>1. /\ Then(th, <<DoFor("submit", j), DoFor("link", j)>>)
        /\ jobId' = [jobId EXCEPT ![t] = j]
    BY <1>5 DEF Register
  <2>2. Goes(<<DoFor("submit", j)>>) /\ Goes(<<DoFor("link", j)>>)
    BY <1>1, <1>2, <1>7, JobStep
  <2>3. Goes(<<DoFor("submit", j), DoFor("link", j)>>)
    BY <2>2, FewSteps
  <2>4. JobIdMoves
    BY <1>2, <2>1 DEF JobIdMoves
  <2>. QED BY <1>2, <1>3, <1>4, <2>1, <2>3, <2>4, SectionStep DEF TakesUp
<1>6. CASE ~ Live(status, t)
  <2>1. Then(th, <<>>) /\ jobId' = jobId
    BY <1>6 DEF Register, Done
  <2>. QED BY <1>2, <1>3, <2>1, NothingToDo, QuietStep DEF TakesUp
<1>. QED BY <1>5, <1>6

LEMMA SubmitWithIdStep ==
  ASSUME LifeInv, NEW th \in Threads, SubmitWithId(th)
  PROVE  LifeInv' /\ OneWayStep
<1>. DEFINE j == Arg(th)
            steps == IF engineDown THEN <<Record("record", j, "Cancelled")>> ELSE <<>>
<1>1. At(th, "submit") /\ Then(th, steps) /\ "submit" \in JobOps /\ "record" \in JobOps
  BY DEF SubmitWithId, JobOps
<1>2. ~ Idle(th) /\ j \in Jobs /\ Launchable(j)
  BY <1>1, HeadFacts
<1>3. /\ UNCHANGED <<taskVars, callback, down>>
      /\ job' = [job EXCEPT ![j] = IF engineDown THEN "Cancelled" ELSE "Queued"]
  BY DEF SubmitWithId
<1>4. JobMoves
  BY <1>2, <1>3 DEF JobMoves, LifeInv, TypeInv, ManualInv, JobStates, JobEnds
<1>5. "Cancelled" \in JobStates
  BY DEF JobStates, JobEnds
<1>7. Lasting
  BY <1>3, LastsQuietly
<1>6. Goes(steps)
  BY <1>1, <1>2, <1>5, <1>7, NothingToDo, JobStep
<1>. QED BY <1>1, <1>2, <1>3, <1>4, <1>6, QuietStep DEF TakesUp

LEMMA SnapshotStep ==
  ASSUME LifeInv, NEW th \in Threads, Snapshot(th)
  PROVE  LifeInv' /\ OneWayStep
<1>. DEFINE j == Arg(th)
<1>1. /\ At(th, "snapshot") /\ Then(th, <<Record("record", j, job[j])>>)
      /\ "snapshot" \in JobOps /\ "record" \in JobOps
  BY DEF Snapshot, JobOps
<1>2. ~ Idle(th) /\ j \in Jobs /\ Launchable(j) /\ job[j] \in JobStates
  BY <1>1, HeadFacts DEF LifeInv, TypeInv
<1>3. UNCHANGED <<taskVars, callback, down, engineVars>>
  BY DEF Snapshot
<1>5. Lasting
  BY <1>3, LastsQuietly
<1>4. Goes(<<Record("record", j, job[j])>>)
  BY <1>1, <1>2, <1>5, JobStep
<1>. QED BY <1>1, <1>2, <1>3, <1>4, QuietStep DEF TakesUp

LEMMA OnJobRecordStep ==
  ASSUME LifeInv, NEW th \in Threads, OnJobRecord(th)
  PROVE  LifeInv' /\ OneWayStep
<1>. DEFINE j == Arg(th)
            steps == IF j \in mapped \/ Recovers(j)
                     THEN <<Record("process", j, State(th))>> ELSE <<>>
<1>1. At(th, "record") /\ "record" \in JobOps /\ "process" \in JobOps
  BY DEF OnJobRecord, JobOps
<1>2. ~ Idle(th) /\ j \in Jobs /\ Launchable(j) /\ State(th) \in JobStates \cup {"none"}
  BY <1>1, HeadFacts
<1>3. UNCHANGED <<status, auto, parents, attempts, admissionVars, callback, down, job>>
  BY DEF OnJobRecord
<1>4. Then(th, steps)
  BY DEF OnJobRecord, Done
<1>8. Lasting
  BY <1>3, LastsQuietly
<1>5. Goes(steps)
  BY <1>1, <1>2, <1>8, NothingToDo, JobStep
<1>6. JobIdMoves
  BY <1>2 DEF OnJobRecord, JobIdMoves
<1>7. Calm(status') /\ ready' \subseteq Tasks
  BY <1>3, CalmFacts DEF LifeInv, TypeInv
<1>. QED BY <1>2, <1>3, <1>4, <1>5, <1>6, <1>7, SectionStep DEF TakesUp

LEMMA DropsStep ==
  ASSUME LifeInv, NEW th \in Threads,
         \/ Forget(th) \/ JoinWatchdog(th) \/ JoinWorkers(th)
         \/ FireTaskCompletionCallbacks(th) \/ ClearCallbacks(th)
  PROVE  LifeInv' /\ OneWayStep
<1>. DEFINE t == Arg(th)
<1>1. /\ ~ Idle(th) /\ Then(th, <<>>) /\ down' = down /\ job' = job
      /\ UNCHANGED <<status, auto, parents, jobId, attempts>>
      /\ staged' \subseteq staged /\ ready' \subseteq ready
  BY DEF Forget, JoinWatchdog, JoinWorkers, FireTaskCompletionCallbacks, ClearCallbacks,
         At, Idle, Done
<1>2. callback' = callback \/ CallbackMoves
  <2>1. callback \in [Tasks -> {"none", "waits", "told", "dropped"}]
    BY DEF LifeInv, TypeInv
  <2>2. CASE FireTaskCompletionCallbacks(th)
    <3>1. At(th, "fire") /\ callback' = [callback EXCEPT ![t] = IF @ = "waits" THEN "told" ELSE @]
      BY <2>2 DEF FireTaskCompletionCallbacks
    <3>2. t \in Tasks /\ (MayShutDown \/ status'[t] \in Final)
      BY <1>1, <3>1, HeadFacts DEF TaskOps
    <3>. QED BY <2>1, <3>1, <3>2 DEF CallbackMoves
  <2>3. CASE ClearCallbacks(th)
    BY <2>1, <2>3 DEF ClearCallbacks, CallbackMoves
  <2>. QED BY <2>2, <2>3 DEF Forget, JoinWatchdog, JoinWorkers
<1>. QED BY <1>1, <1>2, NothingToDo, QuietStep DEF TakesUp

LEMMA CancelJobStep ==
  ASSUME LifeInv, NEW th \in Threads, CancelJob(th)
  PROVE  LifeInv' /\ OneWayStep
<1>. DEFINE j == Arg(th)
            steps == IF job[j] = "Queued" THEN <<Record("record", j, "Cancelled")>>
                     ELSE IF job[j] # "Running" /\ At(th, "cancel")
                       THEN <<DoFor("strand", TaskOf(j))>> ELSE <<>>
<1>1. /\ At(th, "cancel") \/ At(th, "stop")
      /\ Then(th, steps) /\ {"cancel", "stop", "record"} \subseteq JobOps
      /\ UNCHANGED <<taskVars, callback, down>>
      /\ job' = [job EXCEPT ![j] = IF @ = "Queued" THEN "Cancelled" ELSE @]
  BY DEF CancelJob, JobOps
<1>2. ~ Idle(th) /\ j \in Jobs /\ Launchable(j) /\ TaskOf(j) \in Tasks
  BY <1>1, HeadFacts
<1>3. JobMoves
  BY <1>1, <1>2 DEF JobMoves, LifeInv, TypeInv, ManualInv, JobStates, JobEnds
<1>4. "Cancelled" \in JobStates
  BY DEF JobStates, JobEnds
<1>7. Lasting
  BY <1>1, LastsQuietly
<1>5. Goes(<<Record("record", j, "Cancelled")>>) /\ Goes(<<DoFor("strand", TaskOf(j))>>)
  BY <1>1, <1>2, <1>4, <1>7, JobStep, TaskStep
<1>6. Goes(steps)
  BY <1>5, NothingToDo
<1>. QED BY <1>1, <1>2, <1>3, <1>6, QuietStep DEF TakesUp

LEMMA CloseEngineStep ==
  ASSUME LifeInv, NEW th \in Threads, CloseEngine(th)
  PROVE  LifeInv' /\ OneWayStep
<1>. DEFINE queued == {j \in Jobs : job[j] = "Queued"}
            T == {Record("record", j, "Cancelled") : j \in queued}
<1>1. /\ ~ Idle(th) /\ Then(th, SetToSeq(T)) /\ UNCHANGED <<taskVars, callback, down>>
      /\ job' = [j \in Jobs |-> IF j \in queued THEN "Cancelled" ELSE job[j]]
  BY DEF CloseEngine, At, Idle
<1>2. JobMoves
  BY <1>1 DEF JobMoves, LifeInv, TypeInv, ManualInv, JobStates, JobEnds
<1>3. "record" \in JobOps /\ "Cancelled" \in JobStates
  BY DEF JobOps, JobStates, JobEnds
<1>11. Lasting
  BY <1>1, LastsQuietly
<1>4. ASSUME NEW j \in queued
      PROVE  /\ Record("record", j, "Cancelled") \in StepType
             /\ Plain(Record("record", j, "Cancelled")) /\ Sound(Record("record", j, "Cancelled"))'
  <2>1. Launchable(j)
    BY DEF LifeInv, ManualInv
  <2>2. Record("record", j, "Cancelled").op = "record" /\ Record("record", j, "Cancelled").arg = j
    BY DEF Record
  <2>3. Record("record", j, "Cancelled") \in StepType
    BY <1>3, StepTypes
  <2>. QED BY <1>11, <2>1, <2>2, <2>3 DEF Plain, Sound, Enters, Lasting
<1>5. IsFiniteSet(T)
  <2>1. IsFiniteSet(queued)
    BY FiniteTasks, FS_Subset
  <2>2. [j \in queued |-> Record("record", j, "Cancelled")] \in Surjection(queued, T)
    BY DEF Surjection
  <2>. QED BY <2>1, <2>2, FS_Surjection DEF ExistsSurjection
<1>6. SetToSeq(T) \in Seq(T) /\ ToSet(SetToSeq(T)) \subseteq T
  BY <1>5, Listed
<1>7. \A x \in T : x \in StepType /\ Plain(x) /\ Sound(x)'
  BY <1>4
<1>. HIDE DEF T
<1>8. T \subseteq StepType
  BY <1>7
<1>9. SetToSeq(T) \in Seq(StepType)
  BY <1>6, <1>8
<1>10. Goes(SetToSeq(T))
  BY <1>6, <1>7, <1>9 DEF Goes
<1>. QED BY <1>1, <1>2, <1>10, QuietStep DEF TakesUp

LEMMA CancelAllForShutdownStep ==
  ASSUME LifeInv, NEW th \in Threads, CancelAllForShutdown(th)
  PROVE  LifeInv' /\ OneWayStep
<1>. DEFINE A == {t \in Tasks : Live(status, t)}
<1>1. /\ ~ Idle(th) /\ Then(th, ForEach("cancelTask", A))
      /\ UNCHANGED <<taskVars, callback, down, engineVars>>
  BY DEF CancelAllForShutdown, At, Idle
<1>2. IsFiniteSet(A) /\ A \subseteq Tasks
  BY FiniteTasks, FS_Subset
<1>3. "cancelTask" \in TaskOps /\ "cancelTask" \notin JobOps
  BY DEF TaskOps, JobOps
<1>4. /\ ForEach("cancelTask", A) \in Seq(StepType)
      /\ \A x \in ToSet(ForEach("cancelTask", A)) : x.op = "cancelTask" /\ x.arg \in A
  BY <1>2, <1>3, StepTypes, ForEachFacts
<1>5. Goes(ForEach("cancelTask", A))
  BY <1>3, <1>4 DEF Goes, Plain, Sound, Enters
<1>. QED BY <1>1, <1>5, QuietStep DEF TakesUp

LEMMA ShutdownStep ==
  ASSUME LifeInv, NEW u \in Threads, Shutdown(u)
  PROVE  LifeInv' /\ OneWayStep
<1>. DEFINE q == <<Do("joinWatchdog"), Do("cancelAll"), Do("closeEngine"), Do("joinWorkers"),
                   Do("finalize")>>
            R == {Do(op) : op \in OtherOps}
<1>1. {"joinWatchdog", "cancelAll", "closeEngine", "joinWorkers", "finalize"} \subseteq OtherOps
  BY DEF OtherOps
<1>2. q \in Seq(R)
  <2>1. ASSUME NEW A, NEW v \in A, NEW w \in A, NEW x \in A, NEW y \in A, NEW z \in A
        PROVE  <<v, w, x, y, z>> \in Seq(A)
    OBVIOUS
  <2>. QED BY <1>1, <2>1
<1>. HIDE DEF q
<1>3. \A x \in R : x \in StepType /\ Plain(x) /\ Sound(x)'
  BY OtherSteps
<1>4. ToSet(q) \subseteq R /\ R \subseteq StepType
  BY <1>2, <1>3, Entries
<1>. HIDE DEF R
<1>5. q \in Seq(StepType)
  BY <1>2, <1>4
<1>6. Goes(q)
  BY <1>3, <1>4, <1>5 DEF Goes
<1>7. Call(u, q) /\ MayShutDown /\ UNCHANGED <<taskVars, callback, engineVars>>
  BY DEF Shutdown, q
<1>. QED BY <1>6, <1>7, QuietStep DEF TakesUp

LEMMA EngineSteps ==
  ASSUME LifeInv, NEW j \in Jobs, JobStarts(j) \/ \E end \in JobEnds : JobEndsAs(j, end)
  PROVE  LifeInv' /\ OneWayStep
<1>1. PICK s \in JobStates :
        /\ job[j] \in {"Queued", "Running"} /\ job' = [job EXCEPT ![j] = s]
        /\ Call(j, <<Record("record", j, s)>>)
        /\ UNCHANGED <<taskVars, callback, down>>
  BY DEF JobStarts, JobEndsAs, JobStates
<1>2. JobMoves /\ Launchable(j) /\ j \in Threads
  BY <1>1 DEF JobMoves, LifeInv, TypeInv, ManualInv, Threads
<1>4. Lasting
  BY <1>1, LastsQuietly
<1>3. Goes(<<Record("record", j, s)>>)
  BY <1>1, <1>2, <1>4, JobStep DEF JobOps
<1>. QED BY <1>1, <1>2, <1>3, QuietStep DEF TakesUp

LEMMA AddTaskCompletionCallbackStep ==
  ASSUME LifeInv, NEW u \in Threads, NEW t \in Tasks, AddTaskCompletionCallback(u, t)
  PROVE  LifeInv' /\ OneWayStep
<1>1. /\ Idle(u) /\ UNCHANGED <<taskVars, down, todo, engineVars>>
      /\ callback' = [callback EXCEPT ![t] = IF status[t] \in Final THEN "told" ELSE "waits"]
  BY DEF AddTaskCompletionCallback
<1>2. Call(u, <<>>)
  BY <1>1 DEF Call, Idle, LifeInv, TypeInv
<1>3. CallbackMoves
  BY <1>1 DEF CallbackMoves, LifeInv, TypeInv
<1>. QED BY <1>1, <1>2, <1>3, NothingToDo, QuietStep DEF TakesUp

-----------------------------------------------------------------------------
(* The actions that change statuses.                                       *)

LEMMA NotManual ==
  ASSUME LifeInv, NEW j \in Jobs, Launchable(j)
  PROVE  /\ TaskOf(j) \in Tasks /\ auto[TaskOf(j)] # "manual" /\ ParentsDone(TaskOf(j))
         /\ status[TaskOf(j)] # "Absent"
BY FiniteTasks DEF LifeInv, ManualInv, Launchable

LEMMA LinkStep ==
  ASSUME LifeInv, NEW th \in Threads, Link(th)
  PROVE  LifeInv' /\ OneWayStep
<1>. DEFINE j == Arg(th)
            t == TaskOf(j)
<1>1. At(th, "link") /\ {"link", "stop", "snapshot"} \subseteq JobOps
  BY DEF Link, JobOps
<1>2. /\ ~ Idle(th) /\ j \in Jobs /\ Launchable(j) /\ t \in Tasks /\ auto[t] # "manual"
      /\ ParentsDone(t)
  BY <1>1, HeadFacts, NotManual
<1>3. UNCHANGED <<auto, parents, attempts, admissionVars, callback, down, job>>
  BY DEF Link
<1>4. ready' \subseteq Tasks /\ status \in [Tasks -> Statuses]
  BY <1>3 DEF LifeInv, TypeInv
<1>5. CASE Overtaken(t)
  <2>. DEFINE steps == IF status[t] = "Cancelling"
                       THEN <<DoFor("stop", j), Do("signals"), DoFor("fire", t)>>
                       ELSE <<DoFor("stop", j)>>
  <2>1. /\ status' = [status EXCEPT ![t] = "Canceled"] /\ jobId' = jobId
        /\ Then(th, steps)
    BY <1>5 DEF Link
  <2>2. Calm(status')
    <3>1. status' = Set(t, "Canceled")
      BY <2>1 DEF Set
    <3>2. CASE status[t] = "Cancelling"
      <4>1. "Canceled" \in Statuses \ {"Absent"} /\ "Canceled" \in Final
        BY DEF Statuses, Final
      <4>. QED BY <1>2, <3>1, <3>2, <4>1, CalmFacts DEF Live, Final
    <3>3. CASE status[t] = "Canceled"
      <4>1. status' = status
        BY <1>2, <1>4, <2>1, <3>3
      <4>. QED BY <4>1, CalmFacts
    <3>. QED BY <1>5, <3>2, <3>3 DEF Overtaken
  <2>9. Lasting
    BY <1>3, <2>2, LastingFacts DEF LifeInv
  <2>3. Goes(<<DoFor("stop", j)>>)
    BY <1>1, <1>2, <2>9, JobStep
  <2>4. Goes(<<DoFor("fire", t)>>)
    <3>1. status'[t] \in Final
      BY <1>2, <1>4, <2>1 DEF Final
    <3>. QED BY <1>2, <3>1, FireStep
  <2>5. Goes(<<Do("signals")>>)
    BY NothingToDo DEF OtherOps
  <2>6. Goes(<<DoFor("stop", j), Do("signals"), DoFor("fire", t)>>)
    BY <2>3, <2>4, <2>5, FewSteps
  <2>7. Goes(steps)
    BY <2>3, <2>6
  <2>8. JobIdMoves
    BY <2>1 DEF JobIdMoves
  <2>. QED BY <1>2, <1>3, <1>4, <2>1, <2>2, <2>7, <2>8, SectionStep DEF TakesUp
<1>6. CASE ~ Overtaken(t)
  <2>1. /\ status' = status /\ jobId' = [jobId EXCEPT ![t] = j]
        /\ Then(th, <<DoFor("snapshot", j)>>)
    BY <1>6 DEF Link
  <2>4. Lasting
    BY <1>3, <2>1, LastsQuietly
  <2>2. Goes(<<DoFor("snapshot", j)>>)
    BY <1>1, <1>2, <2>4, JobStep
  <2>3. JobIdMoves /\ Calm(status')
    BY <1>2, <2>1, CalmFacts DEF JobIdMoves
  <2>. QED BY <1>2, <1>3, <1>4, <2>1, <2>2, <2>3, SectionStep DEF TakesUp
<1>. QED BY <1>5, <1>6

LEMMA ProcessJobRecordStep ==
  ASSUME LifeInv, NEW th \in Threads, ProcessJobRecord(th)
  PROVE  LifeInv' /\ OneWayStep
<1>. DEFINE j == Arg(th)
            t == TaskOf(j)
            steps == IF State(th) \in JobEnds /\ Live(status, t)
                     THEN <<Record("mark", j, State(th)), DoFor("forget", j)>> ELSE <<>>
<1>1. At(th, "process") /\ {"process", "mark", "forget"} \subseteq JobOps
  BY DEF ProcessJobRecord, JobOps
<1>2. /\ ~ Idle(th) /\ j \in Jobs /\ Launchable(j) /\ t \in Tasks /\ auto[t] # "manual"
      /\ ParentsDone(t) /\ State(th) \in JobStates \cup {"none"}
  BY <1>1, HeadFacts, NotManual
<1>3. UNCHANGED <<auto, parents, jobId, attempts, staged, callback, down, job>> /\ Then(th, steps)
  BY DEF ProcessJobRecord
<1>4. /\ \/ status' = [status EXCEPT ![t] = "Running"] /\ Started(t)
         \/ status' = status
      /\ ready' \subseteq ready
  BY DEF ProcessJobRecord
<1>5. status \in [Tasks -> Statuses] /\ ready' \subseteq Tasks
  BY <1>4 DEF LifeInv, TypeInv
<1>6. Calm(status')
  <2>1. CASE status' = [status EXCEPT ![t] = "Running"] /\ Started(t)
    <3>1. status' = Set(t, "Running") /\ Live(status, t) /\ status[t] # "Cancelling"
      BY <2>1 DEF Set, Started, Live, Final, ReadyLike
    <3>2. "Running" \in Statuses \ {"Absent"}
      BY DEF Statuses, ActiveStates
    <3>. QED BY <1>2, <3>1, <3>2, CalmFacts
  <2>. QED BY <1>4, <2>1, CalmFacts
<1>9. Lasting
  BY <1>3, <1>6, LastingFacts DEF LifeInv
<1>7. Goes(steps)
  BY <1>1, <1>2, <1>9, JobStep, FewSteps, NothingToDo
<1>8. JobIdMoves
  BY <1>3 DEF JobIdMoves
<1>. QED BY <1>2, <1>3, <1>5, <1>6, <1>7, <1>8, SectionStep DEF TakesUp

LEMMA StrandStep ==
  ASSUME LifeInv, NEW th \in Threads, Strand(th)
  PROVE  LifeInv' /\ OneWayStep
<1>. DEFINE t == Arg(th)
<1>1. /\ At(th, "strand") /\ "strand" \in TaskOps
      /\ UNCHANGED <<auto, parents, attempts, ready, staged, callback, down, job>>
  BY DEF Strand, TaskOps
<1>2. ~ Idle(th) /\ t \in Tasks
  BY <1>1, HeadFacts
<1>3. status \in [Tasks -> Statuses] /\ ready' \subseteq Tasks
  BY <1>1 DEF LifeInv, TypeInv
<1>4. CASE status[t] = "Cancelling"
  <2>1. /\ status' = [status EXCEPT ![t] = "Canceled"] /\ jobId' = [jobId EXCEPT ![t] = NoJob]
        /\ Then(th, <<Do("signals"), DoFor("fire", t)>>)
    BY <1>4 DEF Strand
  <2>2. Calm(status') /\ status'[t] \in Final
    <3>1. status' = Set(t, "Canceled") /\ Live(status, t) /\ status'[t] \in Final
      BY <1>2, <1>3, <1>4, <2>1 DEF Set, Live, Final
    <3>2. "Canceled" \in Statuses \ {"Absent"} /\ "Canceled" \in Final /\ "Canceled" \notin Launched
      BY DEF Statuses, Final, Launched, ActiveStates
    <3>. QED BY <1>2, <3>1, <3>2, CalmFacts
  <2>3. Goes(<<Do("signals")>>)
    BY NothingToDo DEF OtherOps
  <2>4. Goes(<<Do("signals"), DoFor("fire", t)>>)
    BY <1>2, <2>2, <2>3, FireStep, FewSteps
  <2>5. JobIdMoves
    BY <1>2, <2>1 DEF JobIdMoves
  <2>. QED BY <1>1, <1>2, <1>3, <2>1, <2>2, <2>4, <2>5, SectionStep DEF TakesUp
<1>5. CASE status[t] # "Cancelling"
  <2>1. UNCHANGED <<status, jobId>> /\ Then(th, <<>>)
    BY <1>5 DEF Strand, Done
  <2>. QED BY <1>1, <1>2, <2>1, NothingToDo, QuietStep DEF TakesUp
<1>. QED BY <1>4, <1>5

LEMMA FlushOwnedCancelsStep ==
  ASSUME LifeInv, NEW th \in Threads, FlushOwnedCancels(th)
  PROVE  LifeInv' /\ OneWayStep
<1>. DEFINE targets == orphans \cup UNION {Descendants(status, c) : c \in orphans}
            s == Cascade(status, targets)
            a == ForEach("cancel", JobsToCancel(status, targets))
            b == ForEach("fire", CanceledAtOnce(status, targets))
<1>1. ~ Idle(th) /\ UNCHANGED <<auto, parents, jobId, attempts, staged, callback, down, job>>
  BY DEF FlushOwnedCancels, At, Idle
<1>2. CASE orphans = {}
  <2>1. UNCHANGED <<status, ready>> /\ Then(th, <<>>)
    BY <1>2 DEF FlushOwnedCancels, Done
  <2>. QED BY <1>1, <2>1, NothingToDo, QuietStep DEF TakesUp
<1>3. CASE orphans # {}
  <2>1. /\ status' = s /\ ready' \subseteq ready
        /\ Then(th, a \o b \o <<Do("signals")>>)
    BY <1>3 DEF FlushOwnedCancels
  <2>2. status \in [Tasks -> Statuses] /\ ready' \subseteq Tasks
    BY <2>1 DEF LifeInv, TypeInv
  <2>. HIDE DEF targets
  <2>3. Calm(status')
    BY <2>1, CalmFacts
  <2>9. Lasting
    BY <1>1, <2>3, LastingFacts DEF LifeInv
  <2>4. Goes(a)
    BY <2>9, TargetsFacts, CancelEach DEF Goes
  <2>5. Goes(b)
    BY <2>1, <2>2, TargetsFacts, FireEach DEF Goes
  <2>6. Goes(<<Do("signals")>>)
    BY NothingToDo DEF OtherOps
  <2>. HIDE DEF a, b, s
  <2>7. Goes(a \o b \o <<Do("signals")>>)
    BY <2>4, <2>5, <2>6, GoesOn
  <2>8. JobIdMoves
    BY <1>1 DEF JobIdMoves
  <2>. QED BY <1>1, <2>1, <2>2, <2>3, <2>7, <2>8, SectionStep DEF TakesUp
<1>. QED BY <1>2, <1>3

LEMMA EnforceCancelDeadlinesStep ==
  ASSUME LifeInv, EnforceCancelDeadlines
  PROVE  LifeInv' /\ OneWayStep
<1>1. PICK late \in SUBSET {t \in Tasks : status[t] = "Cancelling"} :
        /\ status' = [t \in Tasks |-> IF t \in late THEN "Canceled" ELSE status[t]]
        /\ Call(Watchdog, <<Do("signals")>> \o ForEach("fire", late))
        /\ UNCHANGED <<auto, parents, jobId, attempts, ready, staged, callback, down, job>>
  BY DEF EnforceCancelDeadlines
<1>2. status \in [Tasks -> Statuses] /\ ready' \subseteq Tasks /\ Watchdog \in Threads
  BY <1>1 DEF LifeInv, TypeInv, Threads
<1>3. Calm(status') /\ \A t \in late : status'[t] \in Final
  <2>1. \A t \in Tasks :
          status'[t] = status[t] \/ (status[t] = "Cancelling" /\ status'[t] = "Canceled")
    BY <1>1
  <2>2. \A t \in Tasks : \A p \in parents[t] :
          p \in Tasks /\ (status[t] \in Launched => status[p] = "Completed")
    BY DEF LifeInv, TypeInv, StartInv, ParentsDone
  <2>3. "Canceled" \notin Launched /\ "Canceled" \in Statuses
    BY DEF Launched, ActiveStates, Statuses, Final
  <2>4. \A t \in Tasks : status'[t] \in Launched => \A p \in parents[t] : status'[p] = "Completed"
    BY <2>1, <2>2, <2>3
  <2>. QED BY <1>1, <1>2, <2>1, <2>3, <2>4 DEF Calm, Final
<1>4. Goes(ForEach("fire", late))
  <2>1. IsFiniteSet(late) /\ late \subseteq Tasks
    BY FiniteTasks, FS_Subset
  <2>. QED BY <1>3, <2>1, FireEach DEF Goes
<1>5. Goes(<<Do("signals")>>)
  BY NothingToDo DEF OtherOps
<1>6. Goes(<<Do("signals")>> \o ForEach("fire", late))
  BY <1>4, <1>5, GoesOn
<1>7. JobIdMoves
  BY <1>1 DEF JobIdMoves
<1>. QED BY <1>1, <1>2, <1>3, <1>6, <1>7, SectionStep DEF TakesUp

LEMMA FinalizeStep ==
  ASSUME LifeInv, NEW th \in Threads, Finalize(th)
  PROVE  LifeInv' /\ OneWayStep
<1>. DEFINE left == {t \in Tasks : Live(status, t)}
<1>1. /\ ~ Idle(th)
      /\ status' = [t \in Tasks |-> IF t \in left THEN "Canceled" ELSE status[t]]
      /\ ready' = {}
      /\ Then(th, <<Do("signals")>> \o ForEach("fire", left) \o <<Do("clear")>>)
      /\ UNCHANGED <<auto, parents, jobId, attempts, staged, callback, down, job>>
  BY DEF Finalize, At, Idle
<1>2. status \in [Tasks -> Statuses] /\ ready' \subseteq Tasks
  BY <1>1 DEF LifeInv, TypeInv
<1>3. Calm(status') /\ \A t \in left : status'[t] \in Final
  <2>1. \A t \in Tasks : status'[t] = IF Live(status, t) THEN "Canceled" ELSE status[t]
    BY <1>1
  <2>2. \A t \in Tasks : \A p \in parents[t] :
          p \in Tasks /\ (status[t] \in Launched => status[p] = "Completed")
    BY DEF LifeInv, TypeInv, StartInv, ParentsDone
  <2>3. "Canceled" \notin Launched /\ "Canceled" \in Statuses
    BY DEF Launched, ActiveStates, Statuses, Final
  <2>4. \A t \in Tasks : status'[t] \in Launched => \A p \in parents[t] : status'[p] = "Completed"
    BY <2>1, <2>2, <2>3 DEF Live, Final
  <2>. QED BY <1>1, <1>2, <2>1, <2>3, <2>4 DEF Calm, Live, Final
<1>4. Goes(ForEach("fire", left))
  <2>1. IsFiniteSet(left) /\ left \subseteq Tasks
    BY FiniteTasks, FS_Subset
  <2>. QED BY <1>3, <2>1, FireEach DEF Goes
<1>5. Goes(<<Do("signals")>>) /\ Goes(<<Do("clear")>>)
  BY NothingToDo DEF OtherOps
<1>6. Goes(<<Do("signals")>> \o ForEach("fire", left) \o <<Do("clear")>>)
  BY <1>4, <1>5, GoesOn
<1>7. JobIdMoves
  BY <1>1 DEF JobIdMoves
<1>. QED BY <1>1, <1>2, <1>3, <1>6, <1>7, SectionStep DEF TakesUp

-----------------------------------------------------------------------------
(* The actions that end with an admission pass.                            *)

LEMMA CancelLockedStep ==
  ASSUME LifeInv, NEW th \in Threads, NEW t \in Tasks, CancelLocked(t),
         TakesUp(th, CancelSteps(t))
  PROVE  LifeInv' /\ OneWayStep
<1>. DEFINE targets == {t} \cup Descendants(status, t)
            s == Cascade(status, targets)
            a == ForEach("cancel", JobsToCancel(status, targets))
            b == ForEach("fire", CanceledAtOnce(status, targets))
<1>1. /\ UNCHANGED <<auto, parents, jobId, attempts, callback, down, job>>
      /\ PassBefore(rearm, s, ready)
  BY DEF CancelLocked, Pass
<1>2. CancelSteps(t) = a \o Flush \o b
  BY DEF CancelSteps
<1>. HIDE DEF targets
<1>3. /\ status \in [Tasks -> Statuses] /\ ready \in SUBSET Tasks
      /\ attempts' \in [Tasks -> 0 .. MaxAutoRetries]
  BY <1>1 DEF LifeInv, TypeInv
<1>4. Calm(s) /\ \A u \in CanceledAtOnce(status, targets) : s[u] \in Final
  BY <1>3, CalmFacts, TargetsFacts
<1>9. Lasting
  <2>. HIDE DEF s
  <2>. QED BY <1>1, <1>3, <1>4, CalmPass
<1>5. Goes(a)
  BY <1>9, TargetsFacts, CancelEach DEF Goes
<1>6. Goes(b)
  <2>. HIDE DEF s
  <2>1. \A u \in Tasks : s[u] \in Final => status'[u] = s[u]
    BY <1>1, <1>3, <1>4, CalmPass
  <2>2. CanceledAtOnce(status, targets) \subseteq Tasks /\ IsFiniteSet(CanceledAtOnce(status, targets))
    BY TargetsFacts
  <2>3. \A u \in CanceledAtOnce(status, targets) : status'[u] \in Final
    BY <1>4, <2>1, <2>2
  <2>. QED BY <2>2, <2>3, FireEach DEF Goes
<1>. HIDE DEF a, b, s
<1>7. Goes(CancelSteps(t))
  BY <1>2, <1>5, <1>6, NothingToDo, GoesOn
<1>8. JobIdMoves
  BY <1>1 DEF JobIdMoves
<1>. QED BY <1>1, <1>3, <1>4, <1>7, <1>8, PassStep

LEMMA CancelForShutdownStep ==
  ASSUME LifeInv, NEW th \in Threads, CancelForShutdown(th)
  PROVE  LifeInv' /\ OneWayStep
<1>. DEFINE t == Arg(th)
<1>1. At(th, "cancelTask") /\ "cancelTask" \in TaskOps
  BY DEF CancelForShutdown, TaskOps
<1>2. ~ Idle(th) /\ t \in Tasks
  BY <1>1, HeadFacts
<1>3. CASE Live(status, t)
  BY <1>2, <1>3, CancelLockedStep DEF CancelForShutdown, TakesUp
<1>4. CASE ~ Live(status, t)
  <2>1. Then(th, <<>>) /\ UNCHANGED <<taskVars, callback, down, engineVars>>
    BY <1>4 DEF CancelForShutdown, Done
  <2>. QED BY <1>2, <2>1, NothingToDo, QuietStep DEF TakesUp
<1>. QED BY <1>3, <1>4

LEMMA TimerFiresStep ==
  ASSUME LifeInv, NEW u \in Threads, TimerFires(u)
  PROVE  LifeInv' /\ OneWayStep
<1>1. /\ UNCHANGED <<auto, parents, jobId, attempts, callback, down, job>> /\ Call(u, Flush)
      /\ \E others \in BOOLEAN : PassBefore(others, status, ready)
  BY DEF TimerFires
<1>2. PICK others \in BOOLEAN : PassBefore(others, status, ready)
  BY <1>1
<1>3. Calm(status) /\ ready \in SUBSET Tasks /\ JobIdMoves
  BY <1>1, CalmFacts DEF LifeInv, TypeInv, JobIdMoves
<1>. QED BY <1>1, <1>2, <1>3, NothingToDo, PassStep DEF TakesUp

LEMMA MarkTaskCompletedStep ==
  ASSUME LifeInv, NEW th \in Threads, NEW t \in Tasks, ~ Idle(th), Live(status, t),
         auto[t] # "manual", ParentsDone(t), MarkTaskCompleted(th, t), UNCHANGED <<callback, down, engineVars>>
  PROVE  LifeInv' /\ OneWayStep
<1>. DEFINE s == Set(t, "Completed")
            queued == ready \cup Promoted(s, t)
<1>1. /\ UNCHANGED <<auto, parents, jobId, attempts>> /\ PassBefore(rearm, s, queued)
      /\ Then(th, Flush \o <<DoFor("fire", t)>>)
  BY DEF MarkTaskCompleted, Pass
<1>2. /\ status \in [Tasks -> Statuses] /\ queued \in SUBSET Tasks
      /\ attempts' \in [Tasks -> 0 .. MaxAutoRetries]
  BY <1>1 DEF LifeInv, TypeInv, Promoted
<1>3. Calm(s) /\ s[t] \in Final
  <2>1. "Completed" \in Statuses \ {"Absent"} /\ "Completed" \in Final
    BY DEF Statuses, Final
  <2>2. Calm(s)
    BY <2>1, CalmFacts
  <2>. QED BY <1>2, <2>1, <2>2 DEF Set
<1>. HIDE DEF s, queued
<1>4. status'[t] \in Final
  BY <1>1, <1>2, <1>3, CalmPass
<1>5. Goes(Flush \o <<DoFor("fire", t)>>)
  BY <1>4, NothingToDo, FireStep, GoesOn
<1>6. JobIdMoves
  BY <1>1 DEF JobIdMoves
<1>. QED BY <1>1, <1>2, <1>3, <1>5, <1>6, PassStep DEF TakesUp

LEMMA AutoRetryStep ==
  ASSUME LifeInv, NEW th \in Threads, NEW t \in Tasks, ~ Idle(th), Live(status, t),
         auto[t] # "manual", status[t] # "Cancelling", attempts[t] < MaxAutoRetries,
         AutoRetry(th, t), UNCHANGED <<callback, down, engineVars>>
  PROVE  LifeInv' /\ OneWayStep
<1>. DEFINE s == Set(t, "Queued")
            queued == IF IsLaunchCandidate(s, t) THEN ready \cup {t} ELSE ready
<1>1. /\ attempts' = [attempts EXCEPT ![t] = @ + 1] /\ jobId' = [jobId EXCEPT ![t] = NoJob]
      /\ auto' = auto /\ parents' = parents /\ PassBefore(rearm, s, queued)
      /\ Then(th, ForEach("cancel", OwnJob(t)) \o Flush)
  BY DEF AutoRetry, Pass
<1>2. status \in [Tasks -> Statuses] /\ queued \in SUBSET Tasks
  BY DEF LifeInv, TypeInv
<1>3. attempts' \in [Tasks -> 0 .. MaxAutoRetries]
  BY <1>1, FiniteTasks DEF LifeInv, TypeInv
<1>4. Calm(s)
  <2>1. "Queued" \in Statuses \ {"Absent"}
    BY DEF Statuses, ReadyLike
  <2>2. "Queued" \notin Launched
    BY DEF Launched, ActiveStates
  <2>. QED BY <2>1, <2>2, CalmFacts
<1>8. Lasting
  <2>. HIDE DEF s, queued
  <2>. QED BY <1>1, <1>2, <1>3, <1>4, CalmPass
<1>5. Goes(ForEach("cancel", OwnJob(t)))
  BY <1>8, TargetsFacts, CancelEach DEF Goes
<1>. HIDE DEF s, queued
<1>6. Goes(ForEach("cancel", OwnJob(t)) \o Flush)
  BY <1>5, NothingToDo, GoesOn
<1>7. JobIdMoves
  BY <1>1 DEF JobIdMoves
<1>. QED BY <1>1, <1>2, <1>3, <1>4, <1>6, <1>7, PassStep DEF TakesUp

LEMMA MarkTaskEndedStep ==
  ASSUME LifeInv, NEW th \in Threads, NEW t \in Tasks, ~ Idle(th), Live(status, t),
         auto[t] # "manual", NEW new \in {"Canceled", "Failed"},
         MarkTaskEnded(th, t, new), UNCHANGED <<callback, down, engineVars>>
  PROVE  LifeInv' /\ OneWayStep
<1>. DEFINE r == Set(t, new)
            below == Descendants(r, t)
            s == Cascade(r, below)
            A == OwnJob(t) \cup JobsToCancel(r, below)
            F == CanceledAtOnce(r, below)
            a == ForEach("cancel", A)
            b == ForEach("fire", F)
<1>1. /\ UNCHANGED <<auto, parents, jobId, attempts>> /\ PassBefore(rearm, s, ready)
      /\ Then(th, a \o Flush \o <<DoFor("fire", t)>> \o b)
  BY DEF MarkTaskEnded, Endings, Pass
<1>. HIDE DEF below
<1>2. /\ status \in [Tasks -> Statuses] /\ ready \in SUBSET Tasks
      /\ attempts' \in [Tasks -> 0 .. MaxAutoRetries]
  BY <1>1 DEF LifeInv, TypeInv
<1>3. Calm(r) /\ r[t] \in Final /\ r \in [Tasks -> Statuses]
  <2>1. new \in Statuses \ {"Absent"} /\ new \in Final /\ new \notin Launched
    BY DEF Statuses, Final, Launched, ActiveStates
  <2>2. Calm(r)
    BY <2>1, CalmFacts
  <2>. QED BY <1>2, <2>1, <2>2 DEF Set, Calm
<1>. HIDE DEF r
<1>4. Calm(s) /\ s[t] \in Final /\ \A u \in F : s[u] \in Final
  <2>1. Calm(s) /\ \A u \in F : s[u] \in Final
    BY <1>3, CalmFacts, TargetsFacts
  <2>2. s[t] = r[t]
    BY <1>3 DEF Cascade, Live
  <2>. QED BY <1>3, <2>1, <2>2
<1>5. /\ IsFiniteSet(A) /\ A \subseteq Jobs /\ \A j \in A : Launchable(j)
      /\ IsFiniteSet(F) /\ F \subseteq Tasks
  <2>1. /\ IsFiniteSet(OwnJob(t)) /\ OwnJob(t) \subseteq Jobs /\ \A j \in OwnJob(t) : Launchable(j)
        /\ IsFiniteSet(JobsToCancel(r, below)) /\ JobsToCancel(r, below) \subseteq Jobs
        /\ \A j \in JobsToCancel(r, below) : Launchable(j)
        /\ IsFiniteSet(F) /\ F \subseteq Tasks
    BY TargetsFacts
  <2>. HIDE DEF F, Launchable
  <2>. QED BY <2>1, FS_Union
<1>. HIDE DEF A, F, s
<1>7. Lasting /\ \A u \in Tasks : s[u] \in Final => status'[u] = s[u]
  BY <1>1, <1>2, <1>4, CalmPass
<1>6. Goes(a)
  BY <1>5, <1>7, CancelEach DEF Goes
<1>8. Goes(b)
  <2>1. \A u \in F : status'[u] \in Final
    BY <1>4, <1>5, <1>7
  <2>. QED BY <1>5, <2>1, FireEach DEF Goes
<1>9. Goes(<<DoFor("fire", t)>>)
  BY <1>4, <1>7, FireStep
<1>. HIDE DEF a, b
<1>10. Goes(a \o Flush \o <<DoFor("fire", t)>> \o b)
  BY <1>6, <1>8, <1>9, NothingToDo, GoesOn
<1>11. JobIdMoves
  BY <1>1 DEF JobIdMoves
<1>. QED BY <1>1, <1>2, <1>4, <1>10, <1>11, PassStep DEF TakesUp

LEMMA MarkStep ==
  ASSUME LifeInv, NEW th \in Threads, Mark(th)
  PROVE  LifeInv' /\ OneWayStep
<1>. DEFINE t == TaskOf(Arg(th))
            end == State(th)
<1>1. At(th, "mark") /\ "mark" \in JobOps /\ UNCHANGED <<callback, down, engineVars>>
  BY DEF Mark, JobOps
<1>2. ~ Idle(th) /\ t \in Tasks /\ auto[t] # "manual" /\ ParentsDone(t)
  BY <1>1, HeadFacts, NotManual
<1>3. CASE ~ Live(status, t)
  <2>1. Then(th, <<>>) /\ UNCHANGED <<taskVars, callback, down, engineVars>>
    BY <1>1, <1>3 DEF Mark, Done
  <2>. QED BY <1>2, <2>1, NothingToDo, QuietStep DEF TakesUp
<1>4. CASE Live(status, t)
  <2>1. CASE MarkTaskCompleted(th, t)
    BY <1>1, <1>2, <1>4, <2>1, MarkTaskCompletedStep
  <2>2. CASE MarkTaskEnded(th, t, "Canceled")
    BY <1>1, <1>2, <1>4, <2>2, MarkTaskEndedStep
  <2>3. CASE MarkTaskEnded(th, t, "Failed")
    BY <1>1, <1>2, <1>4, <2>3, MarkTaskEndedStep
  <2>4. CASE ShouldAutoRetry(t, end) /\ AutoRetry(th, t)
    BY <1>1, <1>2, <1>4, <2>4, AutoRetryStep DEF ShouldAutoRetry
  <2>. QED BY <1>4, <2>1, <2>2, <2>3, <2>4 DEF Mark
<1>. QED BY <1>3, <1>4

-----------------------------------------------------------------------------
(* The actions that put tasks into the map, or arm them.                   *)

LEMMA SubmissionStep ==
  ASSUME LifeInv, NEW th \in Threads, NEW steps \in Seq(StepType),
         TakesUp(th, steps), Behind(th) = <<>>,
         UNCHANGED <<jobId, attempts, job, callback, down>>,
         status' \in [Tasks -> Statuses], auto' \in [Tasks -> {"manual", "auto", "armed"}],
         \A t \in Tasks :
           /\ auto[t] # "manual" => auto'[t] # "manual"
           /\ status'[t] = "Absent" => auto'[t] = "manual"
           /\ auto'[t] = "manual" => status'[t] \in {"Absent", "Queued", "Canceled"} /\ jobId[t] = NoJob,
         parents' \in [Tasks -> SUBSET Tasks],
         \A t \in Tasks : \A p \in parents'[t] : auto'[p] # "manual",
         OneWayStep, Lasting, StartInv',
         staged' \subseteq Jobs, ready' \subseteq Tasks,
         \A j \in staged' : j \in staged \/ Launchable(j)',
         \A x \in ToSet(steps) : Sound(x)' /\ Known(x)',
         \A u \in Threads \ {th} : \A x \in ToSet(todo[u]) : Known(x) => Known(x)',
         \A x \in ToSet(steps) : Enters(x) =>
           /\ th \in Callers /\ steps = <<x>>
           /\ \A u \in Threads \ {th} : \A y \in ToSet(todo[u]) :
                Enters(y) => Newcomers(x) \cap Newcomers(y) = {},
         \A n \in 1 .. Len(steps) : steps[n].op = "arm" =>
           /\ n = Len(steps)
           /\ \A u \in Threads \ {th} : \A y \in ToSet(todo[u]) :
                y.op = "arm" => y.arg # steps[n].arg
  PROVE  LifeInv'
<1>0. TypeInv /\ ManualInv /\ ToldInv /\ \A j \in Jobs : TaskOf(j) \in Tasks
  BY FiniteTasks DEF LifeInv
<1>1. /\ todo' \in [Threads -> Seq(StepType)]
      /\ \A u \in Threads : \A x \in ToSet(todo'[u]) : x.op \in JobOps => Launchable(x.arg)'
      /\ ~ MayShutDown => \A u \in Threads : \A x \in ToSet(todo'[u]) :
                             x.op = "fire" => status'[x.arg] \in Final
      /\ EntersInv' /\ ArmsInv'
  <2>1. Takes(th, steps)
    BY <1>0, CallsAndThens DEF TakesUp
  <2>2. \A t \in Tasks : status[t] \in Final => status'[t] \in Final
    BY DEF OneWayStep
  <2>3. \A x \in ToSet(Behind(th)) : Known(x) => Known(x)'
    BY DEF ToSet
  <2>. HIDE DEF Known, Sound, Enters, Newcomers
  <2>. QED BY <2>1, <2>2, <2>3, TodoStep
<1>2. TypeInv'
  BY <1>0, <1>1 DEF TypeInv
<1>3. ManualInv'
  <2>1. \A j \in Jobs : Launchable(j) => Launchable(j)'
    BY DEF Lasting
  <2>2. \A t \in Tasks : jobId[t] # NoJob => jobId[t] \in Jobs
    BY <1>0 DEF TypeInv
  <2>3. ASSUME NEW t \in Tasks, NEW j, j = jobId'[t], j # NoJob
        PROVE  TaskOf(j) = t /\ Launchable(j)'
    BY <1>0, <2>1, <2>2, <2>3 DEF ManualInv
  <2>6. \A t \in Tasks : jobId'[t] # NoJob => TaskOf(jobId'[t]) = t /\ Launchable(jobId[t])'
    BY <2>3
  <2>4. /\ \A j \in staged' : Launchable(j)'
        /\ \A j \in Jobs : job'[j] # "Absent" => Launchable(j)'
    BY <1>0, <2>1 DEF ManualInv, TypeInv
  <2>5. \A u \in Threads : \A x \in ToSet(todo'[u]) : x.op \in JobOps => Launchable(x.arg)'
    BY <1>1
  <2>. QED BY <2>4, <2>5, <2>6 DEF ManualInv
<1>4. ToldInv'
  BY <1>0, <1>1 DEF ToldInv, OnlyTheEndIsTold, OneWayStep
<1>. QED BY <1>1, <1>2, <1>3, <1>4 DEF LifeInv

LEMMA FreshFacts ==
  ASSUME LifeInv, NEW t, Fresh(t)
  PROVE  /\ status[t] = "Absent"
         /\ \A u \in Threads : \A y \in ToSet(todo[u]) : Enters(y) => t \notin Newcomers(y)
<1>1. ASSUME NEW u \in Threads, NEW y \in ToSet(todo[u]), Enters(y) PROVE t \notin Newcomers(y)
  <2>1. u \in Callers /\ todo[u] = <<y>>
    BY <1>1 DEF LifeInv, EntersInv
  <2>2. <<y>> # <<>> /\ Head(<<y>>) = y
    OBVIOUS
  <2>3. At(u, y.op) /\ Arg(u) = y.arg
    BY <2>1, <2>2 DEF At, Arg
  <2>. QED BY <1>1, <2>1, <2>3 DEF Fresh, Enters, Newcomers
<1>. QED BY <1>1 DEF Fresh

\* a call that will put tasks into the map is made
LEMMA AnnouncedStep ==
  ASSUME LifeInv, NEW u \in Callers, NEW x \in StepType, Enters(x),
         \A t \in Newcomers(x) : Fresh(t), Call(u, <<x>>),
         parents' \in [Tasks -> SUBSET Tasks],
         \A t \in Tasks :
           parents'[t] = parents[t] \/ (status[t] = "Absent" /\ \A p \in parents'[t] : auto[p] # "manual"),
         UNCHANGED <<status, auto, jobId, attempts, staged, ready, callback, down, engineVars>>
  PROVE  LifeInv' /\ OneWayStep
<1>1. <<x>> \in Seq(StepType) /\ ToSet(<<x>>) = {x} /\ Len(<<x>>) = 1 /\ <<x>>[1] = x
  BY DEF ToSet
<1>2. Idle(u) /\ u \in Threads /\ Behind(u) = <<>> /\ TakesUp(u, <<x>>)
  BY DEF Call, Threads, Behind, TakesUp
<1>3. Known(x)' /\ Sound(x)'
  BY FreshFacts DEF Known, Sound, Enters, JobOps
<1>4. \A v \in Threads \ {u} : \A y \in ToSet(todo[v]) :
        Enters(y) => Newcomers(x) \cap Newcomers(y) = {}
  BY FreshFacts
<1>5. \A y : Known(y) => Known(y)'
  BY DEF Known
<1>6. OneWayStep
  BY DEF OneWayStep
<1>7. /\ TypeInv /\ ManualInv
      /\ \A t \in Tasks : /\ status[t] = "Absent" => auto[t] = "manual"
                          /\ auto[t] = "manual" =>
                               status[t] \in {"Absent", "Queued", "Canceled"} /\ jobId[t] = NoJob
  BY DEF LifeInv, ManualInv
<1>8. \A n \in 1 .. Len(<<x>>) : <<x>>[n].op # "arm"
  <2>1. \A n \in 1 .. Len(<<x>>) : n = 1
    BY <1>1
  <2>. QED BY <1>1, <2>1 DEF Enters
<1>9. LifeInv'
  <2>1. /\ status' \in [Tasks -> Statuses] /\ auto' \in [Tasks -> {"manual", "auto", "armed"}]
        /\ staged' \subseteq Jobs /\ ready' \subseteq Tasks
    BY <1>7 DEF TypeInv
  <2>2. \A y \in ToSet(<<x>>) : y = x
    BY <1>1
  <2>3. /\ \A t \in Tasks : \A p \in parents'[t] : auto'[p] # "manual"
        /\ \A t \in Tasks : auto[t] # "manual" => parents'[t] = parents[t]
    BY <1>7 DEF ManualInv
  <2>4. Lasting
    BY <2>3, FiniteTasks DEF Lasting, Launchable, ParentsDone
  <2>5. StartInv'
    <3>1. \A t \in Tasks : status'[t] \in Launched => parents'[t] = parents[t]
      BY DEF Launched, ActiveStates
    <3>. QED BY <3>1 DEF LifeInv, StartInv, ParentsDone
  <2>6. \A t \in Tasks :
          /\ auto[t] # "manual" => auto'[t] # "manual"
          /\ status'[t] = "Absent" => auto'[t] = "manual"
          /\ auto'[t] = "manual" =>
               status'[t] \in {"Absent", "Queued", "Canceled"} /\ jobId[t] = NoJob
    BY <1>7
  <2>7. \A j \in staged' : j \in staged \/ Launchable(j)'
    OBVIOUS
  <2>8. /\ \A y \in ToSet(<<x>>) : Sound(y)' /\ Known(y)'
        /\ \A y \in ToSet(<<x>>) : Enters(y) =>
             /\ u \in Callers /\ <<x>> = <<y>>
             /\ \A v \in Threads \ {u} : \A z \in ToSet(todo[v]) :
                  Enters(z) => Newcomers(y) \cap Newcomers(z) = {}
    BY <1>3, <1>4, <2>2
  <2>9. \A v \in Threads \ {u} : \A y \in ToSet(todo[v]) : Known(y) => Known(y)'
    BY <1>5
  <2>. HIDE DEF Known, Sound, Enters, Newcomers, OneWayStep
  <2>. QED BY <1>1, <1>2, <1>6, <1>8, <2>1, <2>3, <2>4, <2>5, <2>6, <2>7, <2>8, <2>9,
              SubmissionStep
<1>. QED BY <1>6, <1>9

LEMMA SubmitPipelineStep ==
  ASSUME LifeInv, NEW u \in Callers, NEW g \in Pipelines, SubmitPipeline(u, g)
  PROVE  LifeInv' /\ OneWayStep
<1>. DEFINE x == DoFor("enterPipeline", g)
<1>1. x \in StepType /\ Enters(x) /\ Newcomers(x) = DOMAIN g
  BY StepTypes DEF DoFor, Enters, Newcomers
<1>. HIDE DEF x
<1>2. /\ \A t \in Newcomers(x) : Fresh(t)
      /\ Call(u, <<x>>)
      /\ UNCHANGED <<taskVars, callback, down, engineVars>>
  BY <1>1 DEF SubmitPipeline, x
<1>3. parents' \in [Tasks -> SUBSET Tasks] /\ \A t \in Tasks : parents'[t] = parents[t]
  BY <1>2 DEF LifeInv, TypeInv
<1>. QED BY <1>1, <1>2, <1>3, AnnouncedStep

LEMMA RetryTaskStep ==
  ASSUME LifeInv, NEW u \in Callers, NEW t \in Tasks, RetryTask(u, t)
  PROVE  LifeInv' /\ OneWayStep
<1>. DEFINE x == DoFor("resubmit", t)
<1>1. x \in StepType /\ Enters(x) /\ Newcomers(x) = {t}
  <2>1. "resubmit" \in TaskOps
    BY DEF TaskOps
  <2>. QED BY <2>1, StepTypes DEF DoFor, Enters, Newcomers
<1>. HIDE DEF x
<1>2. /\ \A y \in Newcomers(x) : Fresh(y)
      /\ Call(u, <<x>>)
      /\ UNCHANGED <<status, auto, jobId, attempts, staged, ready, callback, down, engineVars>>
  BY <1>1 DEF RetryTask, x
<1>3. /\ parents' \in [Tasks -> SUBSET Tasks]
      /\ \A c \in Tasks :
           parents'[c] = parents[c] \/ (status[c] = "Absent" /\ \A p \in parents'[c] : auto[p] # "manual")
  <2>. DEFINE old == RetryOf[t]
              kept == {p \in parents[old] : status[p] = "Completed" \/ Live(status, p)}
  <2>1. old \in Tasks /\ status[t] = "Absent" /\ parents' = [parents EXCEPT ![t] = kept]
    BY TasksAssumption DEF RetryTask, Fresh
  <2>2. kept \subseteq Tasks /\ \A p \in kept : auto[p] # "manual"
    BY <2>1 DEF LifeInv, TypeInv, ManualInv
  <2>3. parents \in [Tasks -> SUBSET Tasks]
    BY DEF LifeInv, TypeInv
  <2>. HIDE DEF kept, old
  <2>. QED BY <2>1, <2>2, <2>3
<1>. QED BY <1>1, <1>2, <1>3, AnnouncedStep

LEMMA FlushAnd ==
  ASSUME NEW x \in StepType
  PROVE  /\ Flush \o <<x>> \in Seq(StepType)
         /\ ToSet(Flush \o <<x>>) = ToSet(Flush) \cup {x}
         /\ \A n \in 1 .. Len(Flush \o <<x>>) :
              \/ (Flush \o <<x>>)[n] \in ToSet(Flush)
              \/ n = Len(Flush \o <<x>>) /\ (Flush \o <<x>>)[n] = x
<1>. DEFINE q == Flush \o <<x>>
<1>1. /\ Flush \in Seq(StepType) /\ <<x>> \in Seq(StepType) /\ Len(Flush) = 2 /\ Len(<<x>>) = 1
      /\ ToSet(<<x>>) = {x} /\ <<x>>[1] = x
  BY StepTypes DEF ToSet, Flush
<1>2. q \in Seq(StepType) /\ ToSet(q) = ToSet(Flush) \cup {x}
  BY <1>1, Joined
<1>3. /\ Len(q) = 3
      /\ \A n \in 1 .. 3 : q[n] = IF n <= 2 THEN Flush[n] ELSE <<x>>[n - 2]
  <2>1. ASSUME NEW a \in Seq(StepType), NEW b \in Seq(StepType), Len(a) = 2, Len(b) = 1
        PROVE  /\ Len(a \o b) = 3
               /\ \A n \in 1 .. 3 : (a \o b)[n] = IF n <= 2 THEN a[n] ELSE b[n - 2]
    <3>. DEFINE c == a \o b
    <3>1. /\ Len(c) = Len(a) + Len(b)
          /\ \A n \in 1 .. Len(a) + Len(b) : c[n] = IF n <= Len(a) THEN a[n] ELSE b[n - Len(a)]
      BY ConcatProperties
    <3>. HIDE DEF c
    <3>2. Len(c) = 3 /\ \A n \in 1 .. 3 : c[n] = IF n <= 2 THEN a[n] ELSE b[n - 2]
      BY <2>1, <3>1
    <3>. QED BY <3>2 DEF c
  <2>. QED BY <1>1, <2>1
<1>. HIDE DEF q
<1>4. ASSUME NEW n \in 1 .. 3
      PROVE  q[n] \in ToSet(Flush) \/ (n = 3 /\ q[n] = x)
  <2>1. CASE n <= 2
    <3>1. n \in 1 .. Len(Flush) /\ q[n] = Flush[n]
      BY <1>1, <1>3, <2>1
    <3>. QED BY <1>1, <3>1, Entries
  <2>2. CASE n = 3
    <3>1. ~ n <= 2 /\ n - 2 = 1
      BY <2>2
    <3>2. q[n] = <<x>>[n - 2]
      BY <1>3, <3>1
    <3>. QED BY <1>1, <2>2, <3>1, <3>2
  <2>3. n <= 2 \/ n = 3
    OBVIOUS
  <2>. QED BY <2>1, <2>2, <2>3
<1>. QED BY <1>2, <1>3, <1>4 DEF q

LEMMA Changes ==
  ASSUME LifeInv, NEW th \in Threads, NEW N \in SUBSET Tasks,
         \A t \in Tasks \ N : /\ auto'[t] = auto[t]
                              /\ status'[t] = "Absent" <=> status[t] = "Absent",
         \A u \in Threads \ {th} : \A x \in ToSet(todo[u]) :
           /\ Enters(x) => Newcomers(x) \cap N = {}
           /\ x.op = "arm" => x.arg \notin N
  PROVE  \A u \in Threads \ {th} : \A x \in ToSet(todo[u]) : Known(x) => Known(x)'
<1>1. \A u \in Threads : ToSet(todo[u]) \subseteq StepType
  BY Entries DEF LifeInv, TypeInv
<1>. QED BY <1>1, NewcomersAreTasks DEF Known

\* the section that puts the tasks of N into the map
LEMMA EnterStep ==
  ASSUME LifeInv, NEW th \in Threads, NEW N \in SUBSET Tasks, NEW how \in {"manual", "auto"},
         NEW timers, NEW s, NEW queued \in SUBSET Tasks,
         \A t \in N : status[t] = "Absent",
         s = [t \in Tasks |-> IF t \in N THEN "Queued" ELSE status[t]],
         auto' = [t \in Tasks |-> IF t \in N THEN how ELSE auto[t]],
         parents' \in [Tasks -> SUBSET Tasks], \A t \in Tasks \ N : parents'[t] = parents[t],
         \A t \in Tasks : \A p \in parents'[t] : auto'[p] # "manual",
         PassBefore(timers, s, queued),
         UNCHANGED <<jobId, attempts, job, callback, down>>,
         \A u \in Threads \ {th} : \A x \in ToSet(todo[u]) : Enters(x) => Newcomers(x) \cap N = {},
         Behind(th) = <<>>,
         \/ TakesUp(th, Flush)
         \/ \E t \in N : how = "manual" /\ TakesUp(th, Flush \o <<DoFor("arm", t)>>)
  PROVE  LifeInv' /\ OneWayStep
<1>1. /\ TypeInv /\ ManualInv /\ status \in [Tasks -> Statuses]
      /\ auto \in [Tasks -> {"manual", "auto", "armed"}]
      /\ \A t \in N : auto[t] = "manual" /\ jobId[t] = NoJob
  BY DEF LifeInv, TypeInv, ManualInv
<1>2. s \in [Tasks -> Statuses] /\ attempts' \in [Tasks -> 0 .. MaxAutoRetries] /\ staged \subseteq Jobs
  BY <1>1 DEF TypeInv, Statuses, ReadyLike
<1>4. /\ \A t \in N : s[t] = "Queued" /\ auto'[t] = how
      /\ \A t \in Tasks \ N : s[t] = status[t] /\ auto'[t] = auto[t]
      /\ auto' \in [Tasks -> {"manual", "auto", "armed"}]
  BY <1>1
<1>12. \A t \in Tasks : \A p \in parents'[t] : s[p] # "Absent"
  <2>1. \A p \in Tasks : status[p] = "Absent" => auto[p] = "manual"
    BY <1>1 DEF ManualInv
  <2>2. ASSUME NEW t \in Tasks, NEW p \in parents'[t] PROVE s[p] # "Absent"
    <3>1. p \in Tasks /\ auto'[p] # "manual"
      BY <2>2
    <3>. QED BY <1>4, <2>1, <3>1
  <2>. QED BY <2>2
<1>3. /\ status' \in [Tasks -> Statuses]
      /\ \A t \in Tasks :
           /\ s[t] \notin ReadyLike => status'[t] = s[t]
           /\ s[t] \in ReadyLike => status'[t] \in ReadyLike \cup {"Dispatching", "Failed"}
           /\ auto'[t] = "manual" /\ s[t] = "Queued" => status'[t] = "Queued"
           /\ s[t] \in ReadyLike /\ status'[t] = "Dispatching" => ParentsDone(t)'
      /\ staged' \subseteq Jobs /\ ready' \subseteq Tasks
      /\ \A j \in staged' : j \in staged \/ Launchable(j)'
  BY <1>2, <1>12, PassFacts
<1>5. OneWayStep
  BY <1>3, <1>4 DEF OneWayStep, Final, ReadyLike
<1>6. ASSUME NEW t \in Tasks
      PROVE  /\ status'[t] = "Absent" <=> status[t] = "Absent" /\ t \notin N
             /\ auto[t] # "manual" => auto'[t] # "manual"
             /\ status'[t] = "Absent" => auto'[t] = "manual"
             /\ auto'[t] = "manual" =>
                  status'[t] \in {"Absent", "Queued", "Canceled"} /\ jobId[t] = NoJob
  <2>1. CASE t \in N
    BY <1>1, <1>3, <1>4, <2>1 DEF ReadyLike
  <2>2. CASE t \notin N
    <3>1. s[t] = status[t] /\ auto'[t] = auto[t]
      BY <1>4, <2>2
    <3>2. /\ status[t] = "Absent" => auto[t] = "manual"
          /\ auto[t] = "manual" =>
               status[t] \in {"Absent", "Queued", "Canceled"} /\ jobId[t] = NoJob
      BY <1>1 DEF ManualInv
    <3>. QED BY <1>3, <2>2, <3>1, <3>2 DEF ReadyLike
  <2>. QED BY <2>1, <2>2
<1>13. \A p \in Tasks : status[p] = "Completed" => status'[p] = "Completed"
  BY <1>5 DEF OneWayStep, Final
<1>14. Lasting
  <2>1. ASSUME NEW j \in Jobs, Launchable(j) PROVE Launchable(j)'
    <3>1. TaskOf(j) \in Tasks /\ TaskOf(j) \notin N
      BY <1>1, <2>1, FiniteTasks DEF Launchable
    <3>2. parents'[TaskOf(j)] = parents[TaskOf(j)] /\ parents[TaskOf(j)] \subseteq Tasks
      BY <1>1, <3>1 DEF TypeInv
    <3>. QED BY <1>6, <1>13, <2>1, <3>1, <3>2 DEF Launchable, ParentsDone
  <2>. QED BY <2>1 DEF Lasting
<1>15. StartInv'
  <2>1. ASSUME NEW t \in Tasks, status'[t] \in Launched PROVE ParentsDone(t)'
    <3>1. CASE s[t] \in ReadyLike
      <4>1. status'[t] = "Dispatching"
        BY <1>3, <2>1, <3>1 DEF Launched, ActiveStates, ReadyLike
      <4>. QED BY <1>3, <3>1, <4>1
    <3>2. CASE s[t] \notin ReadyLike
      <4>1. t \notin N /\ status[t] \in Launched
        BY <1>3, <1>4, <2>1, <3>2 DEF ReadyLike
      <4>2. ParentsDone(t) /\ parents'[t] = parents[t] /\ parents[t] \subseteq Tasks
        BY <1>1, <4>1 DEF LifeInv, StartInv, TypeInv
      <4>. QED BY <1>13, <4>2 DEF ParentsDone
    <3>. QED BY <3>1, <3>2
  <2>. QED BY <2>1 DEF StartInv
<1>7. \A u \in Threads : \A x \in ToSet(todo[u]) : x.op = "arm" => x.arg \notin N
  <2>1. ASSUME NEW u \in Threads, NEW x \in ToSet(todo[u]), x.op = "arm" PROVE status[x.arg] # "Absent"
    <3>1. PICK n \in 1 .. Len(todo[u]) : x = todo[u][n]
      BY <1>1, Entries DEF TypeInv
    <3>. QED BY <2>1, <3>1 DEF LifeInv, ArmsInv
  <2>. QED BY <2>1
<1>8. \A u \in Threads \ {th} : \A x \in ToSet(todo[u]) : Known(x) => Known(x)'
  <2>1. \A t \in Tasks \ N : /\ auto'[t] = auto[t]
                             /\ status'[t] = "Absent" <=> status[t] = "Absent"
    BY <1>4, <1>6
  <2>2. \A u \in Threads \ {th} : \A x \in ToSet(todo[u]) :
          /\ Enters(x) => Newcomers(x) \cap N = {}
          /\ x.op = "arm" => x.arg \notin N
    BY <1>7
  <2>. HIDE DEF Known, Enters, Newcomers
  <2>. QED BY <2>1, <2>2, Changes
<1>. HIDE DEF Known, Sound, Enters, Newcomers, OneWayStep
<1>9. ASSUME NEW x \in ToSet(Flush) PROVE Sound(x)' /\ Known(x)' /\ ~ Enters(x) /\ x.op # "arm"
  BY OtherSteps DEF Plain, Known
<1>16. /\ auto' \in [Tasks -> {"manual", "auto", "armed"}]
       /\ \A t \in Tasks :
            /\ auto[t] # "manual" => auto'[t] # "manual"
            /\ status'[t] = "Absent" => auto'[t] = "manual"
            /\ auto'[t] = "manual" => status'[t] \in {"Absent", "Queued", "Canceled"} /\ jobId[t] = NoJob
  BY <1>4, <1>6
<1>17. /\ status' \in [Tasks -> Statuses] /\ staged' \subseteq Jobs /\ ready' \subseteq Tasks
       /\ \A j \in staged' : j \in staged \/ Launchable(j)'
  BY <1>3
<1>10. CASE TakesUp(th, Flush)
  <2>1. Flush \in Seq(StepType) /\ \A n \in 1 .. Len(Flush) : Flush[n].op # "arm"
    BY <1>9, OtherSteps, Entries
  <2>. QED BY <1>5, <1>8, <1>9, <1>10, <1>14, <1>15, <1>16, <1>17, <2>1, SubmissionStep
<1>11. ASSUME NEW t \in N, how = "manual", TakesUp(th, Flush \o <<DoFor("arm", t)>>)
       PROVE  LifeInv' /\ OneWayStep
  <2>. DEFINE x == DoFor("arm", t)
              q == Flush \o <<x>>
  <2>1. x \in StepType /\ x.op = "arm" /\ x.arg = t
    <3>1. "arm" \in TaskOps
      BY DEF TaskOps
    <3>. QED BY <3>1, StepTypes DEF DoFor
  <2>. HIDE DEF x
  <2>2. /\ q \in Seq(StepType) /\ ToSet(q) = ToSet(Flush) \cup {x}
        /\ \A n \in 1 .. Len(q) : q[n] \in ToSet(Flush) \/ (n = Len(q) /\ q[n] = x)
    BY <2>1, FlushAnd
  <2>. HIDE DEF q
  <2>3. status'[t] # "Absent" /\ auto'[t] = "manual"
    BY <1>4, <1>6, <1>11
  <2>4. Sound(x)' /\ Known(x)' /\ ~ Enters(x)
    BY <2>1, <2>3 DEF Sound, Known, Enters, JobOps
  <2>5. \A y \in ToSet(q) : Sound(y)' /\ Known(y)' /\ ~ Enters(y)
    BY <1>9, <2>2, <2>4
  <2>6. \A n \in 1 .. Len(q) : q[n].op = "arm" => n = Len(q) /\ q[n].arg = t
    BY <1>9, <2>1, <2>2
  <2>7. TakesUp(th, q)
    BY <1>11 DEF q, x
  <2>8. \A y \in ToSet(q) : Sound(y)' /\ Known(y)'
    BY <2>5
  <2>9. \A y \in ToSet(q) : Enters(y) =>
          /\ th \in Callers /\ q = <<y>>
          /\ \A u \in Threads \ {th} : \A z \in ToSet(todo[u]) :
               Enters(z) => Newcomers(y) \cap Newcomers(z) = {}
    BY <2>5
  <2>10. \A n \in 1 .. Len(q) : q[n].op = "arm" =>
           /\ n = Len(q)
           /\ \A u \in Threads \ {th} : \A z \in ToSet(todo[u]) : z.op = "arm" => z.arg # q[n].arg
    BY <1>7, <2>6
  <2>11. q \in Seq(StepType)
    BY <2>2
  <2>. QED BY <1>5, <1>8, <1>14, <1>15, <1>16, <1>17, <2>7, <2>8, <2>9, <2>10, <2>11, SubmissionStep
<1>. QED BY <1>10, <1>11

LEMMA EnterPipelineStep ==
  ASSUME LifeInv, NEW u \in Threads, EnterPipeline(u)
  PROVE  LifeInv' /\ OneWayStep
<1>. DEFINE g == Arg(u)
            N == DOMAIN g
            s == [t \in Tasks |-> IF t \in N THEN "Queued" ELSE status[t]]
            queued == ready \cup {t \in N : IsLaunchCandidate(s, t)}
            x == Head(todo[u])
<1>1. At(u, "enterPipeline")
  BY DEF EnterPipeline
<1>2. /\ ~ Idle(u) /\ g \in Pipelines /\ Behind(u) = <<>> /\ x \in ToSet(todo[u])
      /\ \A t \in Newcomers(x) : status[t] = "Absent"
  BY <1>1, HeadFacts
<1>3. N \in SUBSET Tasks /\ Enters(x) /\ Newcomers(x) = N
  BY <1>1, <1>2, TasksAssumption DEF At, Arg, Enters, Newcomers
<1>4. \A v \in Threads \ {u} : \A y \in ToSet(todo[v]) : Enters(y) => Newcomers(y) \cap N = {}
  BY <1>2, <1>3 DEF LifeInv, EntersInv
<1>5. /\ auto' = [t \in Tasks |-> IF t \in N THEN "auto" ELSE auto[t]]
      /\ PassBefore(rearm, s, queued) /\ Then(u, Flush)
      /\ UNCHANGED <<jobId, attempts, job, callback, down>>
  BY DEF EnterPipeline, Pass
<1>6. queued \in SUBSET Tasks
  BY <1>3 DEF LifeInv, TypeInv
<1>7. s = [t \in Tasks |-> IF t \in N THEN "Queued" ELSE status[t]]
  OBVIOUS
<1>8. \A t \in N : status[t] = "Absent"
  BY <1>2, <1>3
<1>9. TakesUp(u, Flush)
  BY <1>2, <1>5 DEF TakesUp
<1>10. /\ parents' \in [Tasks -> SUBSET Tasks] /\ \A t \in Tasks \ N : parents'[t] = parents[t]
       /\ \A t \in Tasks : \A p \in parents'[t] : auto'[p] # "manual"
  <2>1. parents' = [t \in Tasks |-> IF t \in N THEN g[t] ELSE parents[t]]
    BY DEF EnterPipeline
  <2>2. g \in [N -> SUBSET N] /\ parents \in [Tasks -> SUBSET Tasks]
    BY <1>2, TasksAssumption DEF LifeInv, TypeInv
  <2>3. \A t \in Tasks : \A p \in parents[t] : p \in Tasks /\ auto[p] # "manual"
    BY <2>2 DEF LifeInv, ManualInv
  <2>. HIDE DEF g, N
  <2>5. /\ \A t \in N : parents'[t] = g[t] /\ g[t] \subseteq N
        /\ \A t \in Tasks \ N : parents'[t] = parents[t]
        /\ parents' \in [Tasks -> SUBSET Tasks]
    BY <1>3, <2>1, <2>2
  <2>6. \A t \in N : \A p \in parents'[t] : auto'[p] # "manual"
    BY <1>3, <1>5, <2>5
  <2>7. \A t \in Tasks \ N : \A p \in parents'[t] : auto'[p] # "manual"
    BY <1>5, <2>3, <2>5
  <2>. QED BY <2>5, <2>6, <2>7
<1>. HIDE DEF N, s, queued, x
<1>. QED BY <1>2, <1>3, <1>4, <1>5, <1>6, <1>7, <1>8, <1>9, <1>10, EnterStep

LEMMA EnqueueStep ==
  ASSUME LifeInv, NEW th \in Threads, NEW t \in Tasks, NEW how \in {"manual", "auto"},
         Enqueue(th, t, how), status[t] = "Absent", Behind(th) = <<>>,
         \A u \in Threads \ {th} : \A x \in ToSet(todo[u]) : Enters(x) => t \notin Newcomers(x),
         \/ TakesUp(th, Flush)
         \/ how = "manual" /\ TakesUp(th, Flush \o <<DoFor("arm", t)>>)
  PROVE  LifeInv' /\ OneWayStep
<1>. DEFINE s == Set(t, "Queued")
            queued == IF IsLaunchCandidate(s, t) THEN ready \cup {t} ELSE ready
<1>1. /\ auto' = [auto EXCEPT ![t] = how] /\ PassBefore(rearm, s, queued)
      /\ UNCHANGED <<jobId, attempts, job, callback, down>>
  BY DEF Enqueue, Pass
<1>2. queued \in SUBSET Tasks
  BY DEF LifeInv, TypeInv
<1>3. s = [u \in Tasks |-> IF u \in {t} THEN "Queued" ELSE status[u]]
  BY DEF Set, LifeInv, TypeInv
<1>4. auto' = [u \in Tasks |-> IF u \in {t} THEN how ELSE auto[u]]
  BY <1>1 DEF LifeInv, TypeInv
<1>5. \A u \in Threads \ {th} : \A x \in ToSet(todo[u]) : Enters(x) => Newcomers(x) \cap {t} = {}
  OBVIOUS
<1>6. \A u \in {t} : status[u] = "Absent"
  OBVIOUS
<1>7. \/ TakesUp(th, Flush)
      \/ \E u \in {t} : how = "manual" /\ TakesUp(th, Flush \o <<DoFor("arm", u)>>)
  OBVIOUS
<1>8. {t} \in SUBSET Tasks
  OBVIOUS
<1>9. /\ parents' \in [Tasks -> SUBSET Tasks] /\ \A u \in Tasks : parents'[u] = parents[u]
      /\ \A u \in Tasks : \A p \in parents'[u] : auto'[p] # "manual"
  <2>1. /\ parents' = parents /\ auto[t] = "manual" /\ parents \in [Tasks -> SUBSET Tasks]
        /\ \A u \in Tasks : \A p \in parents[u] : p \in Tasks /\ auto[p] # "manual"
    BY DEF Enqueue, LifeInv, TypeInv, ManualInv
  <2>. QED BY <1>4, <2>1
<1>. HIDE DEF s, queued
<1>. QED BY <1>1, <1>2, <1>3, <1>4, <1>5, <1>6, <1>7, <1>8, <1>9, EnterStep

LEMMA SubmitJobStep ==
  ASSUME LifeInv, NEW th \in Threads, NEW t \in Tasks, SubmitJob(th, t)
  PROVE  LifeInv' /\ OneWayStep
<1>1. /\ Fresh(t) /\ Enqueue(th, t, "manual") /\ Idle(th)
      /\ TakesUp(th, Flush \o <<DoFor("arm", t)>>) /\ Behind(th) = <<>>
  BY DEF SubmitJob, TakesUp, Call, Behind
<1>2. /\ status[t] = "Absent"
      /\ \A u \in Threads \ {th} : \A x \in ToSet(todo[u]) : Enters(x) => t \notin Newcomers(x)
  BY <1>1, FreshFacts
<1>. QED BY <1>1, <1>2, EnqueueStep

LEMMA ResubmitStep ==
  ASSUME LifeInv, NEW th \in Threads, Resubmit(th)
  PROVE  LifeInv' /\ OneWayStep
<1>. DEFINE t == Arg(th)
            x == Head(todo[th])
<1>1. At(th, "resubmit") /\ "resubmit" \in TaskOps
  BY DEF Resubmit, TaskOps
<1>2. /\ ~ Idle(th) /\ t \in Tasks /\ Behind(th) = <<>> /\ x \in ToSet(todo[th])
      /\ \A u \in Newcomers(x) : status[u] = "Absent"
  BY <1>1, HeadFacts
<1>3. Enters(x) /\ Newcomers(x) = {t}
  BY <1>1 DEF At, Arg, Enters, Newcomers
<1>4. status[t] = "Absent"
  BY <1>2, <1>3
<1>5. \A u \in Threads \ {th} : \A y \in ToSet(todo[u]) : Enters(y) => t \notin Newcomers(y)
  BY <1>2, <1>3 DEF LifeInv, EntersInv
<1>6. CASE Done(th) /\ UNCHANGED <<taskVars, callback, down, engineVars>>
  <2>1. TakesUp(th, <<>>)
    BY <1>2, <1>6 DEF Done, TakesUp
  <2>. QED BY <1>6, <2>1, NothingToDo, QuietStep
<1>7. CASE Enqueue(th, t, "manual") /\ Then(th, Flush \o <<DoFor("arm", t)>>)
  BY <1>2, <1>4, <1>5, <1>7, EnqueueStep DEF TakesUp
<1>8. CASE Enqueue(th, t, "auto") /\ Then(th, Flush)
  BY <1>2, <1>4, <1>5, <1>8, EnqueueStep DEF TakesUp
<1>. QED BY <1>6, <1>7, <1>8 DEF Resubmit

LEMMA ArmStep ==
  ASSUME LifeInv, NEW th \in Threads, Arm(th)
  PROVE  LifeInv' /\ OneWayStep
<1>. DEFINE t == Arg(th)
            s == [status EXCEPT ![t] = Arms(t)]
            queued == IF ~ down /\ IsLaunchCandidate(s, t) THEN ready \cup {t} ELSE ready
            x == DoFor("armed", t)
            q == Flush \o <<x>>
<1>1. At(th, "arm") /\ "arm" \in TaskOps
  BY DEF Arm, TaskOps
<1>2. /\ ~ Idle(th) /\ t \in Tasks /\ Behind(th) = <<>>
      /\ status[t] # "Absent" /\ auto[t] = "manual"
  BY <1>1, HeadFacts
<1>3. /\ auto' = [auto EXCEPT ![t] = IF down THEN @ ELSE "armed"]
      /\ PassBefore(rearm, s, queued) /\ TakesUp(th, q) /\ parents' = parents
      /\ UNCHANGED <<jobId, attempts, job, callback, down>>
  BY <1>2 DEF Arm, Pass, TakesUp
<1>4. /\ TypeInv /\ ManualInv /\ queued \in SUBSET Tasks
      /\ attempts' \in [Tasks -> 0 .. MaxAutoRetries] /\ staged \subseteq Jobs
      /\ status \in [Tasks -> Statuses] /\ auto \in [Tasks -> {"manual", "auto", "armed"}]
  BY <1>2, <1>3 DEF LifeInv, TypeInv
<1>10. /\ parents' \in [Tasks -> SUBSET Tasks] /\ StartInv
       /\ \A u \in Tasks : \A p \in parents'[u] : p \in Tasks /\ auto[p] # "manual" /\ status[p] # "Absent"
  BY <1>3, <1>4 DEF TypeInv, ManualInv, LifeInv
<1>5. Goes(q)
  BY <1>2, TaskStep, NothingToDo, GoesOn
<1>6. JobIdMoves
  BY <1>3 DEF JobIdMoves
<1>7. status[t] \in {"Queued", "Canceled"}
  BY <1>2, <1>4 DEF ManualInv
<1>8. CASE down
  <2>1. Calm(s)
    <3>1. s = Set(t, "Canceled")
      BY <1>8 DEF Arms, Set
    <3>2. CASE status[t] = "Queued"
      <4>1. "Canceled" \in Statuses \ {"Absent"} /\ "Canceled" \in Final /\ "Canceled" \notin Launched
        BY DEF Statuses, Final, Launched, ActiveStates
      <4>2. Live(status, t)
        BY <3>2 DEF Live, Final
      <4>. QED BY <1>2, <3>1, <4>1, <4>2, CalmFacts
    <3>3. CASE status[t] = "Canceled"
      <4>1. s = status
        BY <1>2, <1>4, <3>1, <3>3 DEF Set
      <4>. QED BY <4>1, CalmFacts
    <3>. QED BY <1>7, <3>2, <3>3
  <2>2. auto' = auto
    BY <1>3, <1>4, <1>8
  <2>. HIDE DEF s, queued, q
  <2>. QED BY <1>3, <1>4, <1>5, <1>6, <2>1, <2>2, PassStep
<1>9. CASE ~ down
  <2>1. s = status
    BY <1>4, <1>9 DEF Arms
  <2>. HIDE DEF s, queued
  <2>2. /\ status' \in [Tasks -> Statuses]
        /\ \A u \in Tasks :
             /\ status[u] \notin ReadyLike => status'[u] = status[u]
             /\ status[u] \in ReadyLike => status'[u] \in ReadyLike \cup {"Dispatching", "Failed"}
             /\ auto'[u] = "manual" /\ status[u] = "Queued" => status'[u] = "Queued"
             /\ status[u] \in ReadyLike /\ status'[u] = "Dispatching" => ParentsDone(u)'
        /\ staged' \subseteq Jobs /\ ready' \subseteq Tasks
        /\ \A j \in staged' : j \in staged \/ Launchable(j)'
    BY <1>3, <1>4, <1>10, <2>1, PassFacts
  <2>3. /\ auto'[t] = "armed" /\ \A u \in Tasks \ {t} : auto'[u] = auto[u]
        /\ auto' \in [Tasks -> {"manual", "auto", "armed"}]
    BY <1>2, <1>3, <1>4, <1>9
  <2>4. OneWayStep
    BY <2>2 DEF OneWayStep, Final, ReadyLike
  <2>5. ASSUME NEW u \in Tasks
        PROVE  /\ status'[u] = "Absent" <=> status[u] = "Absent"
               /\ auto[u] # "manual" => auto'[u] # "manual"
               /\ status'[u] = "Absent" => auto'[u] = "manual"
               /\ auto'[u] = "manual" =>
                    status'[u] \in {"Absent", "Queued", "Canceled"} /\ jobId[u] = NoJob
    <3>1. status'[u] = "Absent" <=> status[u] = "Absent"
      BY <2>2 DEF ReadyLike
    <3>2. CASE u = t
      BY <1>2, <2>3, <3>1, <3>2
    <3>3. CASE u # t
      <4>1. auto'[u] = auto[u]
        BY <2>3, <3>3
      <4>2. /\ status[u] = "Absent" => auto[u] = "manual"
            /\ auto[u] = "manual" =>
                 status[u] \in {"Absent", "Queued", "Canceled"} /\ jobId[u] = NoJob
        BY <1>4 DEF ManualInv
      <4>. QED BY <2>2, <3>1, <4>1, <4>2 DEF ReadyLike
    <3>. QED BY <3>2, <3>3
  <2>6. \A u \in Threads \ {th} : \A y \in ToSet(todo[u]) : Known(y) => Known(y)'
    <3>1. Head(todo[th]) \in ToSet(todo[th]) /\ Head(todo[th]).op = "arm" /\ Head(todo[th]).arg = t
      BY <1>1, HeadFacts DEF At, Arg
    <3>2. \A u \in Threads \ {th} : \A y \in ToSet(todo[u]) : y.op = "arm" => y.arg # t
      BY <3>1 DEF LifeInv, ArmsInv
    <3>3. \A u \in Threads : ToSet(todo[u]) \subseteq StepType
      BY <1>4, Entries DEF TypeInv
    <3>. QED BY <2>3, <2>5, <3>2, <3>3, NewcomersAreTasks DEF Known
  <2>. HIDE DEF q
  <2>7. /\ q \in Seq(StepType)
        /\ \A y \in ToSet(q) : Sound(y)' /\ Known(y)' /\ ~ Enters(y) /\ y.op # "arm"
    BY <1>5 DEF Goes, Plain, Known
  <2>8. \A n \in 1 .. Len(q) : q[n].op # "arm"
    BY <2>7, Entries
  <2>10. \A p \in Tasks : status[p] = "Completed" => status'[p] = "Completed"
    BY <2>4 DEF OneWayStep, Final
  <2>11. Lasting
    <3>1. ASSUME NEW j \in Jobs, Launchable(j) PROVE Launchable(j)'
      <4>1. TaskOf(j) \in Tasks
        BY FiniteTasks
      <4>. QED BY <1>3, <1>10, <2>5, <2>10, <3>1, <4>1 DEF Launchable, ParentsDone
    <3>. QED BY <3>1 DEF Lasting
  <2>12. StartInv'
    <3>1. ASSUME NEW u \in Tasks, status'[u] \in Launched PROVE ParentsDone(u)'
      <4>1. CASE status[u] \in ReadyLike
        <5>1. status'[u] = "Dispatching"
          BY <2>2, <3>1, <4>1 DEF Launched, ActiveStates, ReadyLike
        <5>. QED BY <2>2, <4>1, <5>1
      <4>2. CASE status[u] \notin ReadyLike
        <5>1. ParentsDone(u)
          BY <1>10, <2>2, <3>1, <4>2 DEF StartInv
        <5>. QED BY <1>3, <1>10, <2>10, <5>1 DEF ParentsDone
      <4>. QED BY <4>1, <4>2
    <3>. QED BY <3>1 DEF StartInv
  <2>13. \A u \in Tasks : \A p \in parents'[u] : auto'[p] # "manual"
    BY <1>10, <2>5
  <2>9. LifeInv'
    <3>. HIDE DEF Known, Sound, Enters, Newcomers, OneWayStep
    <3>. QED BY <1>2, <1>3, <1>10, <2>2, <2>3, <2>4, <2>5, <2>6, <2>7, <2>8, <2>11, <2>12, <2>13,
                SubmissionStep
  <2>. QED BY <2>4, <2>9
<1>. QED BY <1>8, <1>9

-----------------------------------------------------------------------------

LEMMA LifeInit == Init => LifeInv
<1>. SUFFICES ASSUME Init PROVE LifeInv
  OBVIOUS
<1>1. \A th \in Threads : todo[th] = <<>> /\ ToSet(todo[th]) = {} /\ Len(todo[th]) = 0
  BY DEF Init, ToSet
<1>2. TypeInv
  <2>1. todo \in [Threads -> Seq(StepType)]
    BY NoSteps DEF Init
  <2>. QED BY <2>1, TasksAssumption DEF Init, TypeInv, Statuses, JobStates
<1>3. ManualInv
  BY <1>1 DEF Init, ManualInv
<1>7. StartInv
  BY DEF Init, StartInv, Launched, ActiveStates
<1>4. EntersInv
  BY <1>1 DEF EntersInv
<1>5. ArmsInv
  <2>1. 1 .. 0 = {}
    OBVIOUS
  <2>. QED BY <1>1, <2>1 DEF ArmsInv
<1>6. ToldInv
  BY <1>1 DEF Init, ToldInv, OnlyTheEndIsTold
<1>. QED BY <1>2, <1>3, <1>4, <1>5, <1>6, <1>7 DEF LifeInv

LEMMA LifeNext == LifeInv /\ [Next]_vars => LifeInv' /\ [OneWayStep]_vars
<1>1. ASSUME LifeInv, NEW u \in Callers, Calls(u) PROVE LifeInv' /\ OneWayStep
  <2>1. u \in Threads
    BY DEF Threads
  <2>2. CASE \E g \in Pipelines : SubmitPipeline(u, g)
    BY <1>1, <2>2, SubmitPipelineStep
  <2>3. CASE Shutdown(u)
    BY <1>1, <2>1, <2>3, ShutdownStep
  <2>4. CASE TimerFires(u)
    BY <1>1, <2>1, <2>4, TimerFiresStep
  <2>5. ASSUME NEW t \in Tasks, CancelTask(u, t) PROVE LifeInv' /\ OneWayStep
    BY <1>1, <2>1, <2>5, CancelLockedStep DEF CancelTask, TakesUp
  <2>6. ASSUME NEW t \in Tasks,
               SubmitJob(u, t) \/ RetryTask(u, t) \/ AddTaskCompletionCallback(u, t)
        PROVE  LifeInv' /\ OneWayStep
    BY <1>1, <2>1, <2>6, SubmitJobStep, RetryTaskStep, AddTaskCompletionCallbackStep
  <2>. QED BY <1>1, <2>2, <2>3, <2>4, <2>5, <2>6 DEF Calls
<1>2. ASSUME LifeInv, NEW th \in Threads, ThreadStep(th) PROVE LifeInv' /\ OneWayStep
  <2>1. CASE EnterPipeline(th) \/ Arm(th) \/ Armed(th) \/ Resubmit(th)
    BY <1>2, <2>1, EnterPipelineStep, ArmStep, ArmedStep, ResubmitStep
  <2>2. CASE FlushPendingLaunches(th) \/ Register(th) \/ SubmitWithId(th) \/ Link(th) \/ Snapshot(th)
    BY <1>2, <2>2, FlushPendingLaunchesStep, RegisterStep, SubmitWithIdStep, LinkStep, SnapshotStep
  <2>3. CASE OnJobRecord(th) \/ ProcessJobRecord(th) \/ Mark(th) \/ CancelJob(th) \/ Strand(th)
    BY <1>2, <2>3, OnJobRecordStep, ProcessJobRecordStep, MarkStep, CancelJobStep, StrandStep
  <2>4. CASE FlushOwnedCancels(th) \/ CancelAllForShutdown(th) \/ CancelForShutdown(th)
             \/ CloseEngine(th) \/ Finalize(th)
    BY <1>2, <2>4, FlushOwnedCancelsStep, CancelAllForShutdownStep, CancelForShutdownStep,
       CloseEngineStep, FinalizeStep
  <2>5. CASE Forget(th) \/ JoinWatchdog(th) \/ JoinWorkers(th)
             \/ FireTaskCompletionCallbacks(th) \/ ClearCallbacks(th)
    BY <1>2, <2>5, DropsStep
  <2>. QED BY <1>2, <2>1, <2>2, <2>3, <2>4, <2>5 DEF ThreadStep
<1>3. ASSUME LifeInv, NEW j \in Jobs,
             JobStarts(j) \/ (\E end \in JobEnds : JobEndsAs(j, end)) \/ \E t \in Tasks : SubmitJob(j, t)
      PROVE  LifeInv' /\ OneWayStep
  <2>1. j \in Threads
    BY DEF Threads
  <2>. QED BY <1>3, <2>1, EngineSteps, SubmitJobStep
<1>4. ASSUME LifeInv, UNCHANGED vars PROVE LifeInv'
  BY <1>4 DEF LifeInv, TypeInv, ManualInv, StartInv, EntersInv, ArmsInv, ToldInv, OnlyTheEndIsTold,
              Launchable, ParentsDone
<1>5. ASSUME LifeInv, Next PROVE LifeInv' /\ OneWayStep
  BY <1>1, <1>2, <1>3, <1>5, EnforceCancelDeadlinesStep DEF Next
<1>. QED BY <1>4, <1>5

(* A task that is over stays what it is, and one that is being cancelled   *)
(* only ends, whatever record, cancel, retry, cascade or shutdown comes    *)
(* late.                                                                   *)
THEOREM EndsAreFinal == Spec => OneWay
<1>1. OneWayStep => \A t \in Tasks :
        /\ status[t] \in Final => status'[t] = status[t]
        /\ status[t] = "Cancelling" => status'[t] \in Final \cup {"Cancelling"}
  BY DEF OneWayStep
<1>2. LifeInv /\ [Next]_vars => [\A t \in Tasks :
        /\ status[t] \in Final => status'[t] = status[t]
        /\ status[t] = "Cancelling" => status'[t] \in Final \cup {"Cancelling"}]_vars
  BY <1>1, LifeNext
<1>. QED BY <1>2, LifeInit, LifeNext, PTL DEF Spec, OneWay

(* A task is launched, runs and completes only when every task it takes    *)
(* its inputs from has completed, whatever is retried, canceled or shut    *)
(* down meanwhile.                                                         *)
THEOREM ParentsComeFirst == Spec => []ParentsFirst
<1>1. LifeInv => ParentsFirst
  BY DEF LifeInv, StartInv, ParentsDone, Launched, ParentsFirst
<1>2. LifeInv /\ [Next]_vars => LifeInv'
  BY LifeNext
<1>. QED BY <1>1, <1>2, LifeInit, PTL DEF Spec

(* While nobody shuts the task center down, a completion callback is told  *)
(* of a task only when the task is over.                                   *)
THEOREM EndsAreToldAfterwards == ~ MayShutDown => (Spec => []OnlyTheEndIsTold)
<1>. SUFFICES ASSUME ~ MayShutDown PROVE Spec => []OnlyTheEndIsTold
  OBVIOUS
<1>1. LifeInv => OnlyTheEndIsTold
  BY DEF LifeInv, ToldInv
<1>2. LifeInv /\ [Next]_vars => LifeInv'
  BY LifeNext
<1>. QED BY <1>1, <1>2, LifeInit, PTL DEF Spec

=============================================================================
