------------------------ MODULE TaskCenterEndsProofs ------------------------
(***************************************************************************)
(* Theorems about what the end of a task of TaskCenter.tla does to others: *)
(* to those that take inputs from it, to those it owns, to those who wait  *)
(* to be told, to the job that runs for it; and about the end of           *)
(* everything, shutdown().                                                 *)
(***************************************************************************)
EXTENDS TaskCenterProofs

USE DEF vars, taskVars, graphVars, admissionVars, engineVars

-----------------------------------------------------------------------------
(* Nobody waits behind a task that will not complete.                      *)

Dead == {"Failed", "Canceled", "Cancelling"}
NoDeadParents(s, above) ==
  \A t \in Tasks : s[t] \in ReadyLike => \A p \in above[t] : s[p] \notin Dead

(* A task takes its inputs from nobody, or from those that its pipeline    *)
(* says.                                                                   *)
Planned(t, above) == above = {} \/ \E g \in Pipelines : t \in DOMAIN g /\ above \subseteq g[t]
StepsInv ==
  \A t \in Tasks : (status[t] = "Absent" => parents[t] = {}) /\ Planned(t, parents[t])

DeadInv == NoDeadParents(status, parents) /\ StepsInv

(* A task that is retried was at the head of its pipeline. (The parents of *)
(* another one may end between the two sections of retryTask().)           *)
RetriesTakeNothing ==
  \A t \in Tasks : RetryOf[t] # NoTask =>
    \A g \in Pipelines : RetryOf[t] \in DOMAIN g => g[RetryOf[t]] = {}

(* The descendants of t and t have no other live children.                 *)
LEMMA DescendantsClosed ==
  ASSUME NEW s, NEW t \in Tasks
  PROVE  /\ Descendants(s, t) \subseteq Tasks
         /\ \A c \in Children(s, {t} \cup Descendants(s, t)) : c \in {t} \cup Descendants(s, t)
<1>. DEFINE D == Descendants(s, t)
            All == {c \in Tasks : \A S \in SUBSET Tasks : ClosedBelow(s, t, S) => c \in S}
<1>1. D \subseteq Tasks /\ D = All \ {t}
  BY DEF Descendants
<1>2. ASSUME NEW c \in Children(s, {t} \cup D) PROVE c \in {t} \cup D
  <2>1. c \in Tasks /\ \/ owner[c] \in {t} \cup All
                       \/ Live(s, c) /\ parents[c] \cap ({t} \cup All) # {}
    BY <1>1 DEF Children
  <2>2. ASSUME NEW S \in SUBSET Tasks, ClosedBelow(s, t, S) PROVE c \in S
    <3>1. All \subseteq S
      BY <2>2
    <3>2. c \in Children(s, {t}) \/ c \in Children(s, S)
      BY <2>1, <3>1 DEF Children
    <3>. QED BY <2>2, <3>2 DEF ClosedBelow
  <2>3. c \in All
    BY <2>1, <2>2
  <2>. QED BY <1>1, <2>3
<1>. QED BY <1>1, <1>2

(* A cascade spares only those that wait for nobody it hits.               *)
LEMMA CascadeSpares ==
  ASSUME NoDeadParents(status, parents), NEW r, NEW T, NEW U,
         T \subseteq U,
         \A t \in Tasks \ U : r[t] = status[t],
         \A t \in U \ T : t \in Tasks => r[t] \notin ReadyLike,
         \A c \in Tasks : Live(r, c) /\ parents[c] \cap U # {} => c \in U,
         parents \in [Tasks -> SUBSET Tasks]
  PROVE  NoDeadParents(Cascade(r, T), parents)
<1>. DEFINE s == Cascade(r, T)
<1>1. \A t \in Tasks : s[t] = IF t \notin T \/ ~ Live(r, t) THEN r[t]
                              ELSE IF jobId[t] = NoJob THEN "Canceled" ELSE "Cancelling"
  BY DEF Cascade
<1>. HIDE DEF s
<1>2. ASSUME NEW t \in Tasks, s[t] \in ReadyLike, NEW p \in parents[t] PROVE s[p] \notin Dead
  <2>1. t \notin T /\ r[t] \in ReadyLike
    BY <1>1, <1>2 DEF Live, ReadyLike, Final
  <2>2. t \notin U /\ Live(r, t)
    BY <2>1 DEF Live, ReadyLike, Final
  <2>3. p \in Tasks /\ p \notin U
    BY <1>2, <2>2
  <2>4. s[p] = status[p] /\ status[t] \in ReadyLike
    BY <1>1, <2>1, <2>2, <2>3
  <2>. QED BY <1>2, <2>4 DEF NoDeadParents
<1>. QED BY <1>2 DEF NoDeadParents, s

(* A pass makes nobody dead when every placeholder resolves.               *)
LEMMA PassSpares ==
  ASSUME Unresolved = {}, NEW timers, NEW s \in [Tasks -> Statuses], NEW queued \in SUBSET Tasks,
         PassBefore(timers, s, queued),
         attempts' \in [Tasks -> 0 .. MaxAutoRetries], staged \subseteq Jobs,
         parents' \in [Tasks -> SUBSET Tasks],
         \A t \in Tasks : \A p \in parents'[t] : s[p] # "Absent"
  PROVE  /\ \A t \in Tasks :
              /\ s[t] \notin ReadyLike => status'[t] = s[t]
              /\ s[t] \in ReadyLike => status'[t] \in ReadyLike \cup {"Dispatching"}
         /\ NoDeadParents(s, parents') => NoDeadParents(status, parents)'
<1>. DEFINE listed == {t \in queued : s[t] \in ReadyLike}
            candidates == {t \in listed : IsLaunchCandidate(s, t)}
<1>1. \A t \in Tasks : /\ s[t] \notin ReadyLike => status'[t] = s[t]
                       /\ s[t] \in ReadyLike => status'[t] \in ReadyLike \cup {"Dispatching", "Failed"}
  BY PassFacts
<1>2. ASSUME NEW t \in Tasks, s[t] \in ReadyLike PROVE status'[t] # "Failed"
  <2>1. CASE down
    BY <1>2, <2>1 DEF PassBefore, ReadyLike
  <2>2. CASE ~ down
    <3>1. \E through, normal \in SUBSET candidates :
            Launch(s, listed, candidates, through, (through \cup normal) \ {}, {})
      <4>1. \E high \in Pressure,
               through \in SUBSET {u \in candidates : WorkerOriginated(u)},
               normal \in SUBSET candidates :
              \E failing \in SUBSET ((through \cup normal) \cap Unresolved) :
                Launch(s, listed, candidates, through, (through \cup normal) \ failing, failing)
        BY <2>2, ZenonT(30) DEF PassBefore
      <4>. HIDE DEF listed, candidates
      <4>2. PICK high \in Pressure,
               through \in SUBSET {u \in candidates : WorkerOriginated(u)},
               normal \in SUBSET candidates :
              \E failing \in SUBSET ((through \cup normal) \cap Unresolved) :
                Launch(s, listed, candidates, through, (through \cup normal) \ failing, failing)
        BY <4>1
      <4>3. PICK failing \in SUBSET ((through \cup normal) \cap Unresolved) :
                Launch(s, listed, candidates, through, (through \cup normal) \ failing, failing)
        BY <4>2
      <4>4. failing = {} /\ through \in SUBSET candidates
        OBVIOUS
      <4>. QED BY <4>3, <4>4
    <3>2. PICK through \in SUBSET candidates, normal \in SUBSET candidates :
            Launch(s, listed, candidates, through, (through \cup normal) \ {}, {})
      BY <3>1
    <3>. HIDE DEF listed, candidates
    <3>. DEFINE launched == (through \cup normal) \ {}
    <3>3. status' = [u \in Tasks |->
             IF u \in {} THEN "Failed"
             ELSE IF u \in launched THEN "Dispatching"
             ELSE IF u \in candidates THEN "WaitingResource"
             ELSE IF u \in listed THEN "Queued" ELSE s[u]]
      BY <3>2 DEF Launch
    <3>. HIDE DEF launched
    <3>. QED BY <1>2, <3>3 DEF ReadyLike
  <2>. QED BY <2>1, <2>2
<1>3. ASSUME NoDeadParents(s, parents'), NEW t \in Tasks, status'[t] \in ReadyLike,
             NEW p \in parents'[t]
      PROVE  status'[p] \notin Dead
  <2>1. p \in Tasks /\ s[t] \in ReadyLike /\ s[p] \notin Dead
    BY <1>1, <1>3 DEF NoDeadParents
  <2>. QED BY <1>1, <1>2, <2>1 DEF Dead, ReadyLike
<1>. QED BY <1>1, <1>2, <1>3 DEF NoDeadParents

-----------------------------------------------------------------------------
(* Action by action.                                                       *)

\* nobody starts to wait and nobody dies
LEMMA MilderStep ==
  ASSUME LifeInv, DeadInv, parents' = parents,
         \A t \in Tasks : /\ status'[t] \in ReadyLike => status[t] \in ReadyLike
                          /\ status'[t] \in Dead => status[t] \in Dead
                          /\ status'[t] = "Absent" => status[t] = "Absent"
  PROVE  DeadInv'
<1>1. \A t \in Tasks : parents[t] \subseteq Tasks
  BY DEF LifeInv, TypeInv
<1>. QED BY <1>1 DEF DeadInv, NoDeadParents, StepsInv

\* a section that ends with a pass and puts no task into the map
LEMMA SparingPass ==
  ASSUME LifeInv, DeadInv, Unresolved = {}, UNCHANGED <<auto, parents>>,
         NEW timers, NEW s, Calm(s), NEW queued \in SUBSET Tasks, PassBefore(timers, s, queued),
         attempts' \in [Tasks -> 0 .. MaxAutoRetries],
         NoDeadParents(s, parents)
  PROVE  DeadInv'
<1>1. /\ s \in [Tasks -> Statuses] /\ staged \subseteq Jobs
      /\ parents' \in [Tasks -> SUBSET Tasks]
      /\ \A t \in Tasks : s[t] = "Absent" <=> status[t] = "Absent"
  BY DEF LifeInv, TypeInv, Calm
<1>2. \A t \in Tasks : \A p \in parents'[t] : s[p] # "Absent"
  <2>1. \A t \in Tasks : \A p \in parents[t] : p \in Tasks /\ status[p] # "Absent"
    BY DEF LifeInv, TypeInv, ManualInv
  <2>. QED BY <1>1, <2>1
<1>3. NoDeadParents(status, parents)' /\ \A t \in Tasks : status'[t] = "Absent" => s[t] = "Absent"
  BY <1>1, <1>2, PassSpares DEF ReadyLike
<1>. QED BY <1>1, <1>3 DEF DeadInv, StepsInv

LEMMA LinkSpares ==
  ASSUME LifeInv, DeadInv, NEW th \in Threads, Link(th)
  PROVE  DeadInv'
<1>1. parents' = parents /\ \A t \in Tasks : status'[t] = status[t] \/ (Overtaken(t) /\ status'[t] = "Canceled")
  <2>1. status \in [Tasks -> Statuses]
    BY DEF LifeInv, TypeInv
  <2>. QED BY <2>1 DEF Link
<1>. QED BY <1>1, MilderStep DEF Overtaken, Dead, ReadyLike

LEMMA OthersSpare ==
  ASSUME LifeInv, DeadInv, NEW th \in Threads,
         ProcessJobRecord(th) \/ Strand(th) \/ EnforceCancelDeadlines \/ Finalize(th)
  PROVE  DeadInv'
<1>0. status \in [Tasks -> Statuses]
  BY DEF LifeInv, TypeInv
<1>1. CASE ProcessJobRecord(th)
  <2>1. parents' = parents /\ \A t \in Tasks : status'[t] \in {status[t], "Running"}
    BY <1>0, <1>1 DEF ProcessJobRecord
  <2>. QED BY <2>1, MilderStep DEF Dead, ReadyLike
<1>2. CASE Strand(th)
  <2>1. parents' = parents /\ \A t \in Tasks :
          status'[t] = status[t] \/ (status[t] = "Cancelling" /\ status'[t] = "Canceled")
    BY <1>0, <1>2 DEF Strand
  <2>. QED BY <2>1, MilderStep DEF Dead, ReadyLike
<1>3. CASE EnforceCancelDeadlines
  <2>1. parents' = parents /\ \A t \in Tasks :
          status'[t] = status[t] \/ (status[t] = "Cancelling" /\ status'[t] = "Canceled")
    BY <1>3 DEF EnforceCancelDeadlines
  <2>. QED BY <2>1, MilderStep DEF Dead, ReadyLike
<1>4. CASE Finalize(th)
  <2>1. parents' = parents /\ \A t \in Tasks : status'[t] = IF Live(status, t) THEN "Canceled" ELSE status[t]
    BY <1>4 DEF Finalize
  <2>2. \A t \in Tasks : status'[t] \notin ReadyLike /\ (status'[t] = "Absent" => status[t] = "Absent")
    BY <2>1 DEF Live, ReadyLike, Final
  <2>. QED BY <2>1, <2>2 DEF DeadInv, NoDeadParents, StepsInv
<1>. QED BY <1>1, <1>2, <1>3, <1>4

LEMMA FlushOwnedCancelsSpares ==
  ASSUME LifeInv, DeadInv, NEW th \in Threads, FlushOwnedCancels(th), orphans \subseteq Tasks
  PROVE  DeadInv'
<1>. DEFINE targets == orphans \cup UNION {Descendants(status, c) : c \in orphans}
            s == Cascade(status, targets)
<1>1. parents' = parents /\ (status' = status \/ status' = s)
  BY DEF FlushOwnedCancels
<1>2. CASE status' = status
  BY <1>1, <1>2, MilderStep
<1>3. CASE status' = s
  <2>1. ASSUME NEW c \in Tasks, Live(status, c), parents[c] \cap targets # {} PROVE c \in targets
    <3>1. PICK p \in parents[c] : p \in targets
      BY <2>1
    <3>2. PICK o \in orphans : p \in {o} \cup Descendants(status, o)
      BY <3>1
    <3>3. c \in Children(status, {o} \cup Descendants(status, o))
      BY <2>1, <3>2 DEF Children
    <3>4. c \in {o} \cup Descendants(status, o)
      BY <3>3, DescendantsClosed
    <3>. QED BY <3>4
  <2>. HIDE DEF targets
  <2>2. parents \in [Tasks -> SUBSET Tasks] /\ Calm(s)
    BY CalmFacts DEF LifeInv, TypeInv
  <2>3. NoDeadParents(s, parents)
    BY <2>1, <2>2, CascadeSpares DEF DeadInv
  <2>. QED BY <1>1, <1>3, <2>2, <2>3 DEF DeadInv, StepsInv, Calm
<1>. QED BY <1>1, <1>2, <1>3

LEMMA CancelLockedSpares ==
  ASSUME LifeInv, DeadInv, Unresolved = {}, NEW t \in Tasks, CancelLocked(t)
  PROVE  DeadInv'
<1>. DEFINE targets == {t} \cup Descendants(status, t)
            s == Cascade(status, targets)
<1>1. UNCHANGED <<auto, parents, attempts>> /\ PassBefore(rearm, s, ready)
  BY DEF CancelLocked, Pass
<1>2. \A c \in Tasks : Live(status, c) /\ parents[c] \cap targets # {} => c \in targets
  BY DescendantsClosed DEF Children
<1>. HIDE DEF targets
<1>3. /\ parents \in [Tasks -> SUBSET Tasks] /\ Calm(s)
      /\ attempts' \in [Tasks -> 0 .. MaxAutoRetries] /\ ready \in SUBSET Tasks
  BY <1>1, CalmFacts DEF LifeInv, TypeInv
<1>4. NoDeadParents(s, parents)
  BY <1>2, <1>3, CascadeSpares DEF DeadInv
<1>. HIDE DEF s
<1>. QED BY <1>1, <1>3, <1>4, SparingPass

LEMMA OneMore ==
  ASSUME NEW f \in [Tasks -> 0 .. MaxAutoRetries], NEW t \in Tasks, f[t] < MaxAutoRetries
  PROVE  [f EXCEPT ![t] = @ + 1] \in [Tasks -> 0 .. MaxAutoRetries]
<1>1. f[t] + 1 \in 0 .. MaxAutoRetries
  BY TasksAssumption
<1>. QED BY <1>1

LEMMA MarkSpares ==
  ASSUME LifeInv, DeadInv, Unresolved = {}, NEW th \in Threads, Mark(th)
  PROVE  DeadInv'
<1>. DEFINE t == TaskOf(Arg(th))
<1>1. At(th, "mark") /\ "mark" \in JobOps
  BY DEF Mark, JobOps
<1>2. t \in Tasks /\ auto[t] # "manual" /\ ParentsDone(t)
  BY <1>1, HeadFacts, NotManual
<1>3. /\ status \in [Tasks -> Statuses] /\ parents \in [Tasks -> SUBSET Tasks]
      /\ attempts \in [Tasks -> 0 .. MaxAutoRetries] /\ ready \in SUBSET Tasks
  BY DEF LifeInv, TypeInv
<1>4. CASE UNCHANGED taskVars
  BY <1>4, MilderStep
<1>5. CASE Live(status, t) /\ MarkTaskCompleted(th, t)
  <2>. DEFINE s == Set(t, "Completed")
              queued == ready \cup Promoted(s, t)
  <2>1. UNCHANGED <<auto, parents, attempts>> /\ PassBefore(rearm, s, queued)
    BY <1>5 DEF MarkTaskCompleted, Pass
  <2>2. Calm(s)
    <3>1. "Completed" \in Statuses \ {"Absent"} /\ "Completed" \in Final
      BY DEF Statuses, Final
    <3>. QED BY <1>2, <1>5, <3>1, CalmFacts
  <2>3. NoDeadParents(s, parents)
    <3>1. \A u \in Tasks : s[u] = IF u = t THEN "Completed" ELSE status[u]
      BY <1>2, <1>3 DEF Set
    <3>2. \A u \in Tasks : parents[u] \subseteq Tasks
      BY <1>3
    <3>. HIDE DEF s
    <3>. QED BY <3>1, <3>2 DEF DeadInv, NoDeadParents, Dead, ReadyLike
  <2>4. queued \in SUBSET Tasks
    BY <1>3 DEF Promoted
  <2>. HIDE DEF s, queued
  <2>. QED BY <1>3, <2>1, <2>2, <2>3, <2>4, SparingPass
<1>6. CASE Live(status, t) /\ status[t] # "Cancelling" /\ attempts[t] < MaxAutoRetries /\ AutoRetry(th, t)
  <2>. DEFINE s == Set(t, "Queued")
              queued == IF IsLaunchCandidate(s, t) THEN ready \cup {t} ELSE ready
  <2>1. /\ UNCHANGED <<auto, parents>> /\ PassBefore(rearm, s, queued)
        /\ attempts' \in [Tasks -> 0 .. MaxAutoRetries]
    <3>1. /\ UNCHANGED <<auto, parents>> /\ PassBefore(rearm, s, queued)
          /\ attempts' = [attempts EXCEPT ![t] = @ + 1]
      BY <1>6 DEF AutoRetry, Pass
    <3>2. attempts' \in [Tasks -> 0 .. MaxAutoRetries]
      BY <1>2, <1>3, <1>6, <3>1, OneMore
    <3>. QED BY <3>1, <3>2
  <2>2. Calm(s)
    <3>1. "Queued" \in Statuses \ {"Absent"} /\ "Queued" \notin Launched
      BY DEF Statuses, ReadyLike, Launched, ActiveStates
    <3>. QED BY <1>2, <1>6, <3>1, CalmFacts
  <2>3. NoDeadParents(s, parents)
    <3>1. \A u \in Tasks : s[u] = IF u = t THEN "Queued" ELSE status[u]
      BY <1>2, <1>3 DEF Set
    <3>2. \A u \in Tasks : parents[u] \subseteq Tasks
      BY <1>3
    <3>3. \A p \in parents[t] : p \in Tasks /\ status[p] = "Completed"
      BY <1>2, <3>2 DEF ParentsDone
    <3>. HIDE DEF s
    <3>. QED BY <3>1, <3>2, <3>3 DEF DeadInv, NoDeadParents, Dead, ReadyLike
  <2>4. queued \in SUBSET Tasks
    BY <1>2, <1>3
  <2>. HIDE DEF s, queued
  <2>. QED BY <2>1, <2>2, <2>3, <2>4, SparingPass
<1>7. ASSUME Live(status, t), NEW new \in {"Canceled", "Failed"}, MarkTaskEnded(th, t, new) PROVE DeadInv'
  <2>. DEFINE r == Set(t, new)
              below == Descendants(r, t)
              s == Cascade(r, below)
  <2>1. UNCHANGED <<auto, parents, attempts>> /\ PassBefore(rearm, s, ready)
    BY <1>7 DEF MarkTaskEnded, Endings, Pass
  <2>2. \A c \in Tasks : Live(r, c) /\ parents[c] \cap ({t} \cup below) # {} => c \in {t} \cup below
    BY <1>2, DescendantsClosed DEF Children
  <2>3. Calm(r)
    <3>1. new \in Statuses \ {"Absent"} /\ new \in Final /\ new \notin Launched
      BY <1>7 DEF Statuses, Final, Launched, ActiveStates
    <3>. QED BY <1>2, <1>7, <3>1, CalmFacts
  <2>4. \A u \in Tasks : r[u] = IF u = t THEN new ELSE status[u]
    BY <1>2, <1>3 DEF Set
  <2>. HIDE DEF below, r
  <2>5. Calm(s)
    BY <2>3, CalmFacts
  <2>6. NoDeadParents(s, parents)
    <3>1. /\ below \subseteq {t} \cup below
          /\ \A u \in Tasks \ ({t} \cup below) : r[u] = status[u]
          /\ \A u \in ({t} \cup below) \ below : u \in Tasks => r[u] \notin ReadyLike
      BY <1>7, <2>4 DEF ReadyLike
    <3>. QED BY <1>3, <2>2, <3>1, CascadeSpares DEF DeadInv
  <2>. HIDE DEF s
  <2>. QED BY <1>3, <2>1, <2>5, <2>6, SparingPass
<1>. QED BY <1>4, <1>5, <1>6, <1>7 DEF Mark, ShouldAutoRetry

\* the section that puts the tasks of N into the map
LEMMA EnterSpares ==
  ASSUME LifeInv, DeadInv, Unresolved = {}, NEW N \in SUBSET Tasks, NEW how,
         NEW timers, NEW s, NEW queued \in SUBSET Tasks,
         \A t \in N : status[t] = "Absent",
         s = [t \in Tasks |-> IF t \in N THEN "Queued" ELSE status[t]],
         auto' = [t \in Tasks |-> IF t \in N THEN how ELSE auto[t]],
         parents' \in [Tasks -> SUBSET Tasks], \A t \in Tasks \ N : parents'[t] = parents[t],
         \A t \in N : parents'[t] \subseteq N /\ Planned(t, parents'[t]),
         PassBefore(timers, s, queued), attempts' = attempts
  PROVE  DeadInv'
<1>1. /\ status \in [Tasks -> Statuses] /\ attempts' \in [Tasks -> 0 .. MaxAutoRetries]
      /\ staged \subseteq Jobs
      /\ \A t \in Tasks : \A p \in parents[t] : p \in Tasks /\ status[p] # "Absent" /\ p \notin N
  BY DEF LifeInv, TypeInv, ManualInv
<1>2. s \in [Tasks -> Statuses]
  BY <1>1 DEF Statuses, ReadyLike
<1>3. \A t \in Tasks : s[t] = IF t \in N THEN "Queued" ELSE status[t]
  OBVIOUS
<1>4. \A t \in Tasks : \A p \in parents'[t] : s[p] # "Absent"
  BY <1>1, <1>3
<1>5. NoDeadParents(s, parents')
  <2>1. ASSUME NEW t \in Tasks, s[t] \in ReadyLike, NEW p \in parents'[t] PROVE s[p] \notin Dead
    <3>1. CASE t \in N
      BY <1>3, <2>1, <3>1 DEF Dead
    <3>2. CASE t \notin N
      BY <1>1, <1>3, <2>1, <3>2 DEF DeadInv, NoDeadParents
    <3>. QED BY <3>1, <3>2
  <2>. QED BY <2>1 DEF NoDeadParents
<1>6. /\ \A t \in Tasks : /\ s[t] \notin ReadyLike => status'[t] = s[t]
                          /\ s[t] \in ReadyLike => status'[t] \in ReadyLike \cup {"Dispatching"}
      /\ NoDeadParents(status, parents)'
  BY <1>1, <1>2, <1>4, <1>5, PassSpares
<1>7. StepsInv'
  <2>1. ASSUME NEW t \in Tasks
        PROVE  (status'[t] = "Absent" => parents'[t] = {}) /\ Planned(t, parents'[t])
    <3>1. CASE t \in N
      BY <1>3, <1>6, <3>1 DEF ReadyLike
    <3>2. CASE t \notin N
      BY <1>3, <1>6, <3>2 DEF ReadyLike, DeadInv, StepsInv
    <3>. QED BY <3>1, <3>2
  <2>. QED BY <2>1 DEF StepsInv
<1>. QED BY <1>6, <1>7 DEF DeadInv

LEMMA EnterPipelineSpares ==
  ASSUME LifeInv, DeadInv, Unresolved = {}, NEW u \in Threads, EnterPipeline(u)
  PROVE  DeadInv'
<1>. DEFINE g == Arg(u)
            N == DOMAIN g
            s == [t \in Tasks |-> IF t \in N THEN "Queued" ELSE status[t]]
            queued == ready \cup {t \in N : IsLaunchCandidate(s, t)}
<1>1. At(u, "enterPipeline")
  BY DEF EnterPipeline
<1>2. /\ g \in Pipelines /\ N \subseteq Tasks /\ \A t \in N : g[t] \subseteq N
      /\ \A t \in N : status[t] = "Absent"
  <2>1. g \in Pipelines /\ \A t \in Newcomers(Head(todo[u])) : status[t] = "Absent"
    BY <1>1, HeadFacts
  <2>2. Newcomers(Head(todo[u])) = N
    BY <1>1 DEF At, Arg, Newcomers
  <2>. QED BY <2>1, <2>2, TasksAssumption
<1>3. /\ auto' = [t \in Tasks |-> IF t \in N THEN "auto" ELSE auto[t]]
      /\ parents' = [t \in Tasks |-> IF t \in N THEN g[t] ELSE parents[t]]
      /\ PassBefore(rearm, s, queued) /\ attempts' = attempts
  BY DEF EnterPipeline, Pass
<1>4. queued \in SUBSET Tasks /\ parents \in [Tasks -> SUBSET Tasks]
  BY <1>2 DEF LifeInv, TypeInv
<1>. HIDE DEF g, N, queued
<1>5. /\ parents' \in [Tasks -> SUBSET Tasks] /\ \A t \in Tasks \ N : parents'[t] = parents[t]
      /\ \A t \in N : parents'[t] = g[t]
  BY <1>2, <1>3, <1>4
<1>6. \A t \in N : parents'[t] \subseteq N /\ Planned(t, parents'[t])
  BY <1>2, <1>5 DEF N, Planned
<1>7. s = [t \in Tasks |-> IF t \in N THEN "Queued" ELSE status[t]]
  OBVIOUS
<1>8. N \in SUBSET Tasks /\ \A t \in N : status[t] = "Absent"
  BY <1>2
<1>9. /\ auto' = [t \in Tasks |-> IF t \in N THEN "auto" ELSE auto[t]]
      /\ PassBefore(rearm, s, queued) /\ attempts' = attempts
  BY <1>3
<1>. HIDE DEF s, Planned
<1>. QED BY <1>4, <1>5, <1>6, <1>7, <1>8, <1>9, EnterSpares

LEMMA EnqueueSpares ==
  ASSUME LifeInv, DeadInv, Unresolved = {}, NEW th, NEW t \in Tasks, NEW how,
         Enqueue(th, t, how), status[t] = "Absent"
  PROVE  DeadInv'
<1>. DEFINE N == {t}
            s == Set(t, "Queued")
            queued == IF IsLaunchCandidate(s, t) THEN ready \cup {t} ELSE ready
<1>1. /\ auto' = [auto EXCEPT ![t] = how] /\ PassBefore(rearm, s, queued)
      /\ parents' = parents /\ attempts' = attempts
  BY DEF Enqueue, Pass
<1>2. /\ queued \in SUBSET Tasks /\ auto \in [Tasks -> {"manual", "auto", "armed"}]
      /\ status \in [Tasks -> Statuses] /\ parents' \in [Tasks -> SUBSET Tasks]
  BY <1>1 DEF LifeInv, TypeInv
<1>3. s = [u \in Tasks |-> IF u \in N THEN "Queued" ELSE status[u]]
  BY <1>2 DEF Set
<1>4. auto' = [u \in Tasks |-> IF u \in N THEN how ELSE auto[u]]
  BY <1>1, <1>2
<1>5. parents'[t] = {}
  BY <1>1 DEF DeadInv, StepsInv
<1>6. /\ N \in SUBSET Tasks /\ \A u \in N : status[u] = "Absent"
      /\ \A u \in Tasks \ N : parents'[u] = parents[u]
      /\ \A u \in N : parents'[u] \subseteq N /\ Planned(u, parents'[u])
  BY <1>1, <1>5 DEF Planned
<1>7. PassBefore(rearm, s, queued) /\ attempts' = attempts
  BY <1>1
<1>. HIDE DEF N, s, queued, Planned
<1>. QED BY <1>2, <1>3, <1>4, <1>6, <1>7, EnterSpares

LEMMA ArmSpares ==
  ASSUME LifeInv, DeadInv, Unresolved = {}, NEW th \in Threads, Arm(th)
  PROVE  DeadInv'
<1>. DEFINE t == Arg(th)
            s == [status EXCEPT ![t] = Arms(t)]
            queued == IF ~ down /\ IsLaunchCandidate(s, t) THEN ready \cup {t} ELSE ready
<1>1. At(th, "arm") /\ "arm" \in TaskOps
  BY DEF Arm, TaskOps
<1>2. t \in Tasks /\ status[t] # "Absent" /\ auto[t] = "manual"
  BY <1>1, HeadFacts
<1>3. PassBefore(rearm, s, queued) /\ parents' = parents /\ attempts' = attempts
  BY DEF Arm, Pass
<1>4. /\ status \in [Tasks -> Statuses] /\ queued \in SUBSET Tasks
      /\ attempts' \in [Tasks -> 0 .. MaxAutoRetries] /\ staged \subseteq Jobs
      /\ parents' \in [Tasks -> SUBSET Tasks]
      /\ \A u \in Tasks : \A p \in parents[u] : p \in Tasks /\ status[p] # "Absent" /\ p # t
  BY <1>2, <1>3 DEF LifeInv, TypeInv, ManualInv
<1>5. \A u \in Tasks : s[u] = IF u = t /\ down THEN "Canceled" ELSE status[u]
  BY <1>2, <1>4 DEF Arms
<1>6. s \in [Tasks -> Statuses]
  BY <1>2, <1>4 DEF Arms, Statuses, Final
<1>. HIDE DEF s, queued, t
<1>7. NoDeadParents(s, parents')
  <2>1. ASSUME NEW u \in Tasks, s[u] \in ReadyLike, NEW p \in parents[u] PROVE s[p] \notin Dead
    <3>1. status[u] \in ReadyLike
      BY <1>5, <2>1 DEF ReadyLike
    <3>2. p \in Tasks /\ s[p] = status[p]
      BY <1>4, <1>5
    <3>. QED BY <2>1, <3>1, <3>2 DEF DeadInv, NoDeadParents
  <2>. QED BY <1>3, <2>1 DEF NoDeadParents
<1>8. \A u \in Tasks : \A p \in parents'[u] : s[p] # "Absent"
  BY <1>3, <1>4, <1>5
<1>9. /\ \A u \in Tasks : /\ s[u] \notin ReadyLike => status'[u] = s[u]
                          /\ s[u] \in ReadyLike => status'[u] \in ReadyLike \cup {"Dispatching"}
      /\ NoDeadParents(status, parents)'
  BY <1>3, <1>4, <1>6, <1>7, <1>8, PassSpares
<1>10. \A u \in Tasks : status'[u] = "Absent" => status[u] = "Absent"
  BY <1>5, <1>9 DEF ReadyLike
<1>. QED BY <1>3, <1>9, <1>10 DEF DeadInv, StepsInv

LEMMA RetryTaskSpares ==
  ASSUME LifeInv, DeadInv, RetriesTakeNothing, NEW u, NEW t \in Tasks, RetryTask(u, t)
  PROVE  DeadInv'
<1>. DEFINE old == RetryOf[t]
            kept == {p \in parents[old] : status[p] = "Completed" \/ Live(status, p)}
<1>1. /\ old # NoTask /\ status[t] = "Absent" /\ status' = status
      /\ parents' = [parents EXCEPT ![t] = kept]
  BY DEF RetryTask, Fresh
<1>2. old \in Tasks /\ parents \in [Tasks -> SUBSET Tasks]
  BY <1>1, TasksAssumption DEF LifeInv, TypeInv
<1>3. parents[old] = {}
  <2>1. CASE parents[old] # {}
    <3>1. PICK g \in Pipelines : old \in DOMAIN g /\ parents[old] \subseteq g[old]
      BY <1>2, <2>1 DEF DeadInv, StepsInv, Planned
    <3>. QED BY <1>1, <3>1 DEF RetriesTakeNothing
  <2>. QED BY <2>1
<1>4. kept = {} /\ parents[t] = {}
  BY <1>1, <1>3 DEF DeadInv, StepsInv
<1>. HIDE DEF kept, old
<1>5. parents' = parents
  BY <1>1, <1>2, <1>4
<1>. QED BY <1>1, <1>5, MilderStep

LEMMA TimerSpares ==
  ASSUME LifeInv, DeadInv, Unresolved = {}, NEW u, TimerFires(u)
  PROVE  DeadInv'
<1>1. /\ UNCHANGED <<auto, parents, attempts>> /\ \E others \in BOOLEAN : PassBefore(others, status, ready)
  BY DEF TimerFires
<1>2. PICK others \in BOOLEAN : PassBefore(others, status, ready)
  BY <1>1
<1>3. /\ Calm(status) /\ ready \in SUBSET Tasks /\ attempts' \in [Tasks -> 0 .. MaxAutoRetries]
      /\ NoDeadParents(status, parents)
  BY <1>1, CalmFacts DEF LifeInv, TypeInv, DeadInv
<1>. QED BY <1>1, <1>2, <1>3, SparingPass

LEMMA OrphansAreTasks == orphans \subseteq Tasks /\ [Next]_vars => orphans' \subseteq Tasks
<1>. SUFFICES ASSUME orphans \subseteq Tasks, [Next]_vars PROVE orphans' \subseteq Tasks
  OBVIOUS
<1>1. Join => orphans' \subseteq Tasks
  BY DEF Join
<1>. HIDE DEF Join
<1>2. ASSUME NEW u, Calls(u) PROVE orphans' \subseteq Tasks
  <2>1. ASSUME NEW t, SubmitJob(u, t) \/ RetryTask(u, t) \/ CancelTask(u, t) \/ AddTaskCompletionCallback(u, t)
        PROVE  orphans' \subseteq Tasks
    BY <1>1, <2>1 DEF SubmitJob, Enqueue, RetryTask, CancelTask, CancelLocked, Pass, AddTaskCompletionCallback
  <2>2. ASSUME (\E g \in Pipelines : SubmitPipeline(u, g)) \/ Shutdown(u) \/ TimerFires(u)
        PROVE  orphans' \subseteq Tasks
    BY <1>1, <2>2 DEF SubmitPipeline, Shutdown, TimerFires
  <2>. QED BY <1>2, <2>1, <2>2 DEF Calls
<1>3. ASSUME NEW th, ThreadStep(th) PROVE orphans' \subseteq Tasks
  <2>1. CASE EnterPipeline(th) \/ Arm(th) \/ Armed(th) \/ Resubmit(th)
    BY <1>1, <2>1 DEF EnterPipeline, Arm, Armed, Resubmit, Enqueue, Pass
  <2>2. CASE FlushPendingLaunches(th) \/ Register(th) \/ SubmitWithId(th) \/ Link(th) \/ Snapshot(th)
             \/ OnJobRecord(th) \/ ProcessJobRecord(th) \/ Forget(th)
    BY <1>1, <2>2 DEF FlushPendingLaunches, Register, SubmitWithId, Link, Snapshot, OnJobRecord,
                      ProcessJobRecord, Forget
  <2>3. CASE Mark(th)
    BY <1>1, <2>3 DEF Mark, MarkTaskCompleted, MarkTaskEnded, AutoRetry, Pass
  <2>4. CASE FlushOwnedCancels(th)
    BY <1>1, <2>4 DEF FlushOwnedCancels
  <2>5. CASE CancelJob(th) \/ Strand(th) \/ FireTaskCompletionCallbacks(th) \/ JoinWatchdog(th)
             \/ CancelAllForShutdown(th) \/ CancelForShutdown(th)
    BY <1>1, <2>5 DEF CancelJob, Strand, FireTaskCompletionCallbacks, JoinWatchdog, CancelAllForShutdown,
                      CancelForShutdown, CancelLocked, Pass
  <2>6. CASE CloseEngine(th) \/ JoinWorkers(th) \/ Finalize(th) \/ ClearCallbacks(th)
    BY <1>1, <2>6 DEF CloseEngine, JoinWorkers, Finalize, ClearCallbacks
  <2>. QED BY <1>3, <2>1, <2>2, <2>3, <2>4, <2>5, <2>6 DEF ThreadStep
<1>4. ASSUME NEW j,
             JobStarts(j) \/ (\E end \in JobEnds : JobEndsAs(j, end)) \/ \E t \in Tasks : SubmitJob(j, t)
      PROVE  orphans' \subseteq Tasks
  BY <1>1, <1>4 DEF JobStarts, JobEndsAs, SubmitJob, Enqueue, Pass
<1>5. ASSUME EnforceCancelDeadlines PROVE orphans' \subseteq Tasks
  BY <1>1, <1>5 DEF EnforceCancelDeadlines
<1>. QED BY <1>2, <1>3, <1>4, <1>5 DEF Next

FamilyInv == LifeInv /\ DeadInv /\ orphans \subseteq Tasks

LEMMA FamilyInit == Init => FamilyInv
<1>. SUFFICES ASSUME Init PROVE FamilyInv
  OBVIOUS
<1>1. DeadInv
  BY DEF Init, DeadInv, NoDeadParents, StepsInv, Planned, ReadyLike
<1>. QED BY <1>1, LifeInit DEF FamilyInv, Init

LEMMA DeadNext ==
  ASSUME Unresolved = {}, RetriesTakeNothing, FamilyInv, [Next]_vars
  PROVE  DeadInv'
<1>. USE DEF FamilyInv
<1>1. UNCHANGED <<status, parents>> => DeadInv'
  BY MilderStep
<1>2. ASSUME NEW u \in Callers, Calls(u) PROVE DeadInv'
  <2>1. u \in Threads
    BY DEF Threads
  <2>2. CASE (\E g \in Pipelines : SubmitPipeline(u, g)) \/ Shutdown(u)
    BY <1>1, <2>2 DEF SubmitPipeline, Shutdown
  <2>3. CASE TimerFires(u)
    BY <2>3, TimerSpares
  <2>4. ASSUME NEW t \in Tasks, CancelTask(u, t) PROVE DeadInv'
    BY <2>4, CancelLockedSpares DEF CancelTask
  <2>5. ASSUME NEW t \in Tasks, SubmitJob(u, t) PROVE DeadInv'
    BY <2>5, EnqueueSpares DEF SubmitJob, Fresh
  <2>6. ASSUME NEW t \in Tasks, RetryTask(u, t) PROVE DeadInv'
    BY <2>6, RetryTaskSpares
  <2>7. ASSUME NEW t \in Tasks, AddTaskCompletionCallback(u, t) PROVE DeadInv'
    BY <1>1, <2>7 DEF AddTaskCompletionCallback
  <2>. QED BY <1>2, <2>2, <2>3, <2>4, <2>5, <2>6, <2>7 DEF Calls
<1>3. ASSUME NEW th \in Threads, ThreadStep(th) PROVE DeadInv'
  <2>1. CASE EnterPipeline(th) \/ Arm(th) \/ Mark(th) \/ FlushOwnedCancels(th) \/ Link(th)
    BY <2>1, EnterPipelineSpares, ArmSpares, MarkSpares, FlushOwnedCancelsSpares, LinkSpares
  <2>2. CASE ProcessJobRecord(th) \/ Strand(th) \/ Finalize(th)
    BY <2>2, OthersSpare
  <2>3. CASE Resubmit(th)
    <3>1. At(th, "resubmit") /\ "resubmit" \in TaskOps
      BY <2>3 DEF Resubmit, TaskOps
    <3>2. Arg(th) \in Tasks /\ status[Arg(th)] = "Absent"
      BY <3>1, HeadFacts DEF At, Arg, Newcomers
    <3>. QED BY <1>1, <2>3, <3>2, EnqueueSpares DEF Resubmit
  <2>4. CASE CancelForShutdown(th)
    <3>1. At(th, "cancelTask") /\ "cancelTask" \in TaskOps
      BY <2>4 DEF CancelForShutdown, TaskOps
    <3>2. Arg(th) \in Tasks
      BY <3>1, HeadFacts
    <3>. QED BY <1>1, <2>4, <3>2, CancelLockedSpares DEF CancelForShutdown
  <2>5. CASE Armed(th) \/ FlushPendingLaunches(th) \/ Register(th) \/ SubmitWithId(th) \/ Snapshot(th)
             \/ OnJobRecord(th) \/ Forget(th)
    BY <1>1, <2>5 DEF Armed, FlushPendingLaunches, Register, SubmitWithId, Snapshot, OnJobRecord, Forget
  <2>6. CASE CancelJob(th) \/ FireTaskCompletionCallbacks(th) \/ JoinWatchdog(th)
             \/ CancelAllForShutdown(th) \/ CloseEngine(th) \/ JoinWorkers(th) \/ ClearCallbacks(th)
    BY <1>1, <2>6 DEF CancelJob, FireTaskCompletionCallbacks, JoinWatchdog, CancelAllForShutdown,
                      CloseEngine, JoinWorkers, ClearCallbacks
  <2>. QED BY <1>3, <2>1, <2>2, <2>3, <2>4, <2>5, <2>6 DEF ThreadStep
<1>4. ASSUME NEW j \in Jobs,
             JobStarts(j) \/ (\E end \in JobEnds : JobEndsAs(j, end)) \/ \E t \in Tasks : SubmitJob(j, t)
      PROVE  DeadInv'
  BY <1>1, <1>4, EnqueueSpares DEF JobStarts, JobEndsAs, SubmitJob, Fresh
<1>5. CASE EnforceCancelDeadlines
  <2>1. Watchdog \in Threads
    BY DEF Threads
  <2>. QED BY <1>5, <2>1, OthersSpare
<1>. QED BY <1>1, <1>2, <1>3, <1>4, <1>5 DEF Next

(* When every placeholder resolves, no task waits behind one that has      *)
(* failed or was canceled: whatever ends a task ends all that waits for it *)
(* in the same critical section. (A placeholder that does not resolve      *)
(* fails its task without a cascade, and a retry keeps parents it read in  *)
(* an earlier section: neither is covered.)                                *)
THEOREM NobodyWaitsForTheDead ==
  ASSUME Unresolved = {}, RetriesTakeNothing
  PROVE  Spec => []NeverBehindDeadParent
<1>1. FamilyInv => NeverBehindDeadParent
  BY DEF FamilyInv, DeadInv, NoDeadParents, Dead, NeverBehindDeadParent
<1>2. FamilyInv /\ [Next]_vars => FamilyInv'
  BY LifeNext, DeadNext, OrphansAreTasks DEF FamilyInv
<1>. QED BY <1>1, <1>2, FamilyInit, PTL DEF Spec

-----------------------------------------------------------------------------
(* What threads still have to do, as a whole.                              *)
Pending(x) == \E th \in Threads : x \in ToSet(todo[th])

LEMMA PendingIsOnTodo == \A x : OnTodo(x) <=> Pending(x)
  BY DEF OnTodo, Pending, ToSet

LEMMA ListedAll ==
  ASSUME NEW A, IsFiniteSet(A)
  PROVE  /\ SetToSeq(A) \in Seq(A) /\ ToSet(SetToSeq(A)) = A
         /\ \A m, n \in 1 .. Len(SetToSeq(A)) : m # n => SetToSeq(A)[m] # SetToSeq(A)[n]
<1>. DEFINE k == Cardinality(A)
            s == SetToSeq(A)
<1>1. k \in Nat /\ ExistsBijection(1 .. k, A)
  BY FS_CardinalityType
<1>2. PICK f \in Bijection(1 .. k, A) : TRUE
  BY <1>1 DEF ExistsBijection
<1>3. f \in [1 .. k -> A] /\ IsInjective(f)
  BY <1>2 DEF Bijection, Injection, IsInjective
<1>4. s \in [1 .. k -> A] /\ IsInjective(s)
  BY <1>3 DEF SetToSeq
<1>. HIDE DEF s
<1>5. s \in Seq(A) /\ Len(s) = k
  BY <1>1, <1>4
<1>6. ToSet(s) \subseteq A /\ s \in Bijection(1 .. k, ToSet(s))
  <2>1. ToSet(s) = {s[n] : n \in 1 .. k} /\ DOMAIN s = 1 .. k
    BY <1>4 DEF ToSet
  <2>2. ToSet(s) \subseteq A /\ s \in [1 .. k -> ToSet(s)]
    BY <1>4, <2>1
  <2>3. \A x \in ToSet(s) : \E n \in 1 .. k : s[n] = x
    BY <2>1
  <2>. QED BY <1>4, <2>1, <2>2, <2>3 DEF Bijection, Injection, Surjection, IsInjective
<1>7. IsFiniteSet(ToSet(s)) /\ Cardinality(ToSet(s)) = k
  <2>1. IsFiniteSet(1 .. k) /\ Cardinality(1 .. k) = k
    BY <1>1, FS_CardinalityType, FS_Interval
  <2>2. ExistsBijection(1 .. k, ToSet(s))
    BY <1>6 DEF ExistsBijection
  <2>. QED BY <2>1, <2>2, FS_Bijection
<1>8. ToSet(s) = A
  BY <1>6, <1>7, FS_Subset
<1>. QED BY <1>4, <1>5, <1>8 DEF s, IsInjective

LEMMA ForEachAll ==
  ASSUME NEW op, NEW A, IsFiniteSet(A)
  PROVE  /\ ToSet(ForEach(op, A)) = {DoFor(op, e) : e \in A}
         /\ (\A e \in A : DoFor(op, e) \in StepType) => ForEach(op, A) \in Seq(StepType)
         /\ ForEach(op, A) \in Seq({DoFor(op, e) : e \in A})
         /\ \A m, n \in 1 .. Len(ForEach(op, A)) : m # n => ForEach(op, A)[m] # ForEach(op, A)[n]
<1>. DEFINE T == {DoFor(op, e) : e \in A}
<1>1. [e \in A |-> DoFor(op, e)] \in Surjection(A, T)
  BY DEF Surjection
<1>2. IsFiniteSet(T)
  BY <1>1, FS_Surjection DEF ExistsSurjection
<1>3. (\A e \in A : DoFor(op, e) \in StepType) => T \subseteq StepType
  OBVIOUS
<1>4. ForEach(op, A) = SetToSeq(T)
  BY DEF ForEach
<1>. HIDE DEF T
<1>5. /\ SetToSeq(T) \in Seq(T) /\ ToSet(SetToSeq(T)) = T
      /\ \A m, n \in 1 .. Len(SetToSeq(T)) : m # n => SetToSeq(T)[m] # SetToSeq(T)[n]
  BY <1>2, ListedAll
<1>6. T \subseteq StepType => SetToSeq(T) \in Seq(StepType)
  BY <1>5
<1>. QED BY <1>3, <1>4, <1>5, <1>6 DEF T

\* what a thread still has to do once it has taken its next step
LEMMA StaysBehind ==
  ASSUME TypeInv, NEW th \in Threads
  PROVE  \A x \in ToSet(todo[th]) : Idle(th) \/ x # Head(todo[th]) => x \in ToSet(Behind(th))
<1>1. CASE Idle(th)
  <2>1. ToSet(todo[th]) = {}
    BY <1>1 DEF Idle, ToSet
  <2>. QED BY <2>1
<1>2. CASE ~ Idle(th)
  <2>. DEFINE s == todo[th]
  <2>1. s \in Seq(StepType) /\ s # <<>> /\ Behind(th) = Tail(s)
    BY <1>2 DEF TypeInv, Idle, Behind
  <2>. HIDE DEF s
  <2>2. /\ Tail(s) \in Seq(StepType) /\ Len(Tail(s)) = Len(s) - 1 /\ Len(s) \in Nat
        /\ \A n \in 1 .. Len(s) - 1 : Tail(s)[n] = s[n + 1]
        /\ Head(s) = s[1]
    BY <2>1, HeadTailProperties, LenProperties
  <2>3. ASSUME NEW x \in ToSet(s), x # Head(s) PROVE x \in ToSet(Tail(s))
    <3>1. PICK n \in 1 .. Len(s) : x = s[n]
      BY <2>1, Entries
    <3>2. n - 1 \in 1 .. Len(Tail(s)) /\ (n - 1) + 1 = n
      BY <2>2, <2>3, <3>1
    <3>3. x = Tail(s)[n - 1]
      BY <2>2, <3>1, <3>2
    <3>. QED BY <2>2, <3>2, <3>3, Entries
  <2>. QED BY <1>2, <2>1, <2>3 DEF s
<1>. QED BY <1>1, <1>2

\* one thread takes up some steps
LEMMA TakesPending ==
  ASSUME TypeInv, NEW th \in Threads, NEW steps \in Seq(StepType), TakesUp(th, steps)
  PROVE  /\ todo'[th] = steps \o Behind(th)
         /\ \A u \in Threads \ {th} : todo'[u] = todo[u]
         /\ ToSet(todo'[th]) = ToSet(steps) \cup ToSet(Behind(th))
         /\ \A x : x \in ToSet(steps) => Pending(x)'
         /\ \A x : Pending(x) /\ (Idle(th) \/ x # Head(todo[th])) => Pending(x)'
         /\ \A x : Pending(x)' => x \in ToSet(steps) \/ Pending(x)
<1>1. Takes(th, steps)
  BY CallsAndThens DEF TakesUp
<1>2. /\ todo'[th] = steps \o Behind(th)
      /\ \A u \in Threads \ {th} : todo'[u] = todo[u]
      /\ ToSet(todo'[th]) = ToSet(steps) \cup ToSet(Behind(th))
      /\ ToSet(Behind(th)) \subseteq ToSet(todo[th])
  BY <1>1, TakesFacts, BehindFacts
<1>3. \A x \in ToSet(todo[th]) : Idle(th) \/ x # Head(todo[th]) => x \in ToSet(Behind(th))
  BY StaysBehind
<1>. QED BY <1>2, <1>3 DEF Pending

-----------------------------------------------------------------------------
(* The set of the steps that each action takes up.                         *)

Of(steps, S) == steps \in Seq(StepType) /\ ToSet(steps) = S
Does(th, S) == \E steps : Of(steps, S) /\ TakesUp(th, steps)
Each(op, A) == {DoFor(op, e) : e \in A}
Flushes == {Do("flush"), Do("signals")}

LEMMA DoesPending ==
  ASSUME TypeInv, NEW th \in Threads, NEW S, Does(th, S)
  PROVE  /\ \A x \in S : Pending(x)'
         /\ \A x : Pending(x) /\ (Idle(th) \/ x # Head(todo[th])) => Pending(x)'
         /\ \A x : Pending(x)' => x \in S \/ Pending(x)
<1>1. PICK steps : Of(steps, S) /\ TakesUp(th, steps)
  BY DEF Does
<1>. QED BY <1>1, TakesPending DEF Of

LEMMA OfJoined ==
  ASSUME NEW q, NEW r, NEW S, NEW T, Of(q, S), Of(r, T)
  PROVE  Of(q \o r, S \cup T)
BY Joined DEF Of

LEMMA OfEach ==
  ASSUME NEW op, NEW A, IsFiniteSet(A), \A e \in A : DoFor(op, e) \in StepType
  PROVE  Of(ForEach(op, A), Each(op, A))
BY ForEachAll DEF Of, Each

LEMMA OfNone == Of(<<>>, {})
BY NoSteps DEF Of

LEMMA OfSome ==
  ASSUME NEW x \in StepType
  PROVE  /\ Of(<<x>>, {x})
         /\ \A y \in StepType : Of(<<x, y>>, {x, y})
         /\ \A y, z \in StepType : Of(<<x, y, z>>, {x, y, z})
BY DEF Of, ToSet

LEMMA OfFlush == Of(Flush, Flushes)
BY StepTypes DEF Of, Flush, Flushes, ToSet

LEMMA Ops ==
  /\ {"cancel", "register", "submit", "link", "stop", "snapshot", "record", "process", "mark", "forget"}
       \subseteq JobOps
  /\ {"fire", "armed", "arm", "resubmit", "strand", "cancelTask"} \subseteq TaskOps
  /\ {"flush", "signals", "clear", "joinWatchdog", "cancelAll", "closeEngine", "joinWorkers", "finalize"}
       \subseteq OtherOps
  /\ {"Cancelled", "Running", "Queued"} \subseteq JobStates
BY DEF JobOps, TaskOps, OtherOps, JobStates, JobEnds

LEMMA ThenDoes ==
  ASSUME NEW th, NEW steps, NEW S, Of(steps, S), Call(th, steps) \/ (~ Idle(th) /\ Then(th, steps))
  PROVE  Does(th, S)
BY DEF Does, TakesUp

LEMMA AtIsBusy ==
  ASSUME NEW th, NEW op, At(th, op)
  PROVE  ~ Idle(th) /\ Head(todo[th]).op = op
BY DEF At, Idle

LEMMA SubmissionsDo ==
  ASSUME LifeInv, NEW th \in Threads
  PROVE  /\ \A g \in Pipelines : SubmitPipeline(th, g) => Does(th, {DoFor("enterPipeline", g)})
         /\ EnterPipeline(th) => Does(th, Flushes)
         /\ \A t \in Tasks : SubmitJob(th, t) => Does(th, Flushes \cup {DoFor("arm", t)})
         /\ \A t \in Tasks : RetryTask(th, t) => Does(th, {DoFor("resubmit", t)})
         /\ TimerFires(th) => Does(th, Flushes)
         /\ Arm(th) => Does(th, Flushes \cup {DoFor("armed", Arg(th))})
         /\ Armed(th) => Does(th, IF down THEN {DoFor("fire", Arg(th))} ELSE {})
         /\ Resubmit(th) =>
              \/ Does(th, {}) /\ UNCHANGED <<taskVars, callback, down, engineVars>>
              \/ Enqueue(th, Arg(th), "manual") /\ Does(th, Flushes \cup {DoFor("arm", Arg(th))})
              \/ Enqueue(th, Arg(th), "auto") /\ Does(th, Flushes)
<1>1. /\ \A g \in Pipelines : DoFor("enterPipeline", g) \in StepType
      /\ \A t \in Tasks : /\ DoFor("arm", t) \in StepType /\ DoFor("resubmit", t) \in StepType
                          /\ DoFor("armed", t) \in StepType /\ DoFor("fire", t) \in StepType
  BY Ops, StepTypes
<1>2. \A x \in StepType : Of(<<x>>, {x}) /\ Of(Flush \o <<x>>, Flushes \cup {x})
  BY OfSome, OfFlush, OfJoined
<1>3. \A g \in Pipelines : SubmitPipeline(th, g) => Does(th, {DoFor("enterPipeline", g)})
  BY <1>1, <1>2, ThenDoes DEF SubmitPipeline
<1>4. EnterPipeline(th) => Does(th, Flushes)
  BY OfFlush, AtIsBusy, ThenDoes DEF EnterPipeline
<1>5. \A t \in Tasks : SubmitJob(th, t) => Does(th, Flushes \cup {DoFor("arm", t)})
  BY <1>1, <1>2, ThenDoes DEF SubmitJob
<1>6. \A t \in Tasks : RetryTask(th, t) => Does(th, {DoFor("resubmit", t)})
  BY <1>1, <1>2, ThenDoes DEF RetryTask
<1>7. TimerFires(th) => Does(th, Flushes)
  BY OfFlush, ThenDoes DEF TimerFires
<1>8. ASSUME NEW op \in TaskOps, At(th, op) PROVE Arg(th) \in Tasks /\ ~ Idle(th)
  BY <1>8, HeadFacts, AtIsBusy
<1>9. Arm(th) => Does(th, Flushes \cup {DoFor("armed", Arg(th))})
  BY <1>1, <1>2, <1>8, Ops, ThenDoes DEF Arm
<1>10. Armed(th) => Does(th, IF down THEN {DoFor("fire", Arg(th))} ELSE {})
  <2>1. CASE down
    BY <1>1, <1>2, <1>8, <2>1, Ops, ThenDoes DEF Armed
  <2>2. CASE ~ down
    BY <1>8, <2>2, OfNone, Ops, ThenDoes DEF Armed
  <2>. QED BY <2>1, <2>2
<1>11. ASSUME Resubmit(th)
       PROVE  \/ Does(th, {}) /\ UNCHANGED <<taskVars, callback, down, engineVars>>
              \/ Enqueue(th, Arg(th), "manual") /\ Does(th, Flushes \cup {DoFor("arm", Arg(th))})
              \/ Enqueue(th, Arg(th), "auto") /\ Does(th, Flushes)
  <2>1. Arg(th) \in Tasks /\ ~ Idle(th)
    BY <1>8, <1>11, Ops DEF Resubmit
  <2>2. /\ Then(th, <<>>) => Does(th, {})
        /\ Then(th, Flush \o <<DoFor("arm", Arg(th))>>) => Does(th, Flushes \cup {DoFor("arm", Arg(th))})
        /\ Then(th, Flush) => Does(th, Flushes)
    BY <1>1, <1>2, <2>1, OfNone, OfFlush, ThenDoes
  <2>. QED BY <1>11, <2>2 DEF Resubmit, Done
<1>. QED BY <1>3, <1>4, <1>5, <1>6, <1>7, <1>9, <1>10, <1>11

LEMMA LaunchesDo ==
  ASSUME LifeInv, NEW th \in Threads
  PROVE  /\ FlushPendingLaunches(th) => Does(th, IF down THEN {} ELSE Each("register", staged))
         /\ Register(th) =>
              Does(th, IF Live(status, TaskOf(Arg(th)))
                       THEN {DoFor("submit", Arg(th)), DoFor("link", Arg(th))} ELSE {})
         /\ SubmitWithId(th) =>
              Does(th, IF engineDown THEN {Record("record", Arg(th), "Cancelled")} ELSE {})
         /\ Link(th) =>
              Does(th, IF status[TaskOf(Arg(th))] = "Cancelling"
                         THEN {DoFor("stop", Arg(th)), Do("signals"), DoFor("fire", TaskOf(Arg(th)))}
                       ELSE IF status[TaskOf(Arg(th))] = "Canceled" THEN {DoFor("stop", Arg(th))}
                       ELSE {DoFor("snapshot", Arg(th))})
         /\ Snapshot(th) => Does(th, {Record("record", Arg(th), job[Arg(th)])})
         /\ OnJobRecord(th) =>
              Does(th, IF Arg(th) \in mapped \/ Recovers(Arg(th))
                       THEN {Record("process", Arg(th), State(th))} ELSE {})
         /\ ProcessJobRecord(th) =>
              Does(th, IF State(th) \in JobEnds /\ Live(status, TaskOf(Arg(th)))
                       THEN {Record("mark", Arg(th), State(th)), DoFor("forget", Arg(th))} ELSE {})
         /\ Forget(th) => Does(th, {})
<1>1. /\ \A op \in JobOps, j \in Jobs, s \in JobStates \cup {"none"} :
           DoFor(op, j) \in StepType /\ Record(op, j, s) \in StepType
      /\ \A t \in Tasks : DoFor("fire", t) \in StepType
      /\ Do("signals") \in StepType
  BY Ops, StepTypes
<1>2. ASSUME NEW op \in JobOps, At(th, op)
      PROVE  /\ Arg(th) \in Jobs /\ TaskOf(Arg(th)) \in Tasks /\ ~ Idle(th)
             /\ State(th) \in JobStates \cup {"none"}
  BY <1>2, HeadFacts, AtIsBusy
<1>3. staged \subseteq Jobs /\ IsFiniteSet(staged) /\ job \in [Jobs -> JobStates]
  BY FiniteTasks, FS_Subset DEF LifeInv, TypeInv
<1>4. FlushPendingLaunches(th) => Does(th, IF down THEN {} ELSE Each("register", staged))
  <2>1. Of(ForEach("register", staged), Each("register", staged))
    BY <1>1, <1>3, Ops, OfEach
  <2>2. FlushPendingLaunches(th) => /\ ~ Idle(th)
                                    /\ Then(th, IF down THEN <<>> ELSE ForEach("register", staged))
    BY AtIsBusy DEF FlushPendingLaunches
  <2>. QED BY <2>1, <2>2, OfNone, ThenDoes
<1>5. Register(th) =>
        Does(th, IF Live(status, TaskOf(Arg(th)))
                 THEN {DoFor("submit", Arg(th)), DoFor("link", Arg(th))} ELSE {})
  <2>. SUFFICES ASSUME Register(th) PROVE
        Does(th, IF Live(status, TaskOf(Arg(th)))
                 THEN {DoFor("submit", Arg(th)), DoFor("link", Arg(th))} ELSE {})
    OBVIOUS
  <2>1. Arg(th) \in Jobs /\ ~ Idle(th)
    BY <1>2, Ops DEF Register
  <2>2. Of(<<DoFor("submit", Arg(th)), DoFor("link", Arg(th))>>, {DoFor("submit", Arg(th)), DoFor("link", Arg(th))})
    BY <1>1, <2>1, Ops, OfSome
  <2>. QED BY <2>1, <2>2, OfNone, ThenDoes DEF Register, Done
<1>6. SubmitWithId(th) =>
        Does(th, IF engineDown THEN {Record("record", Arg(th), "Cancelled")} ELSE {})
  <2>. SUFFICES ASSUME SubmitWithId(th)
                PROVE  Does(th, IF engineDown THEN {Record("record", Arg(th), "Cancelled")} ELSE {})
    OBVIOUS
  <2>1. Arg(th) \in Jobs /\ ~ Idle(th)
    BY <1>2, Ops DEF SubmitWithId
  <2>2. Of(<<Record("record", Arg(th), "Cancelled")>>, {Record("record", Arg(th), "Cancelled")})
    BY <1>1, <2>1, Ops, OfSome
  <2>. QED BY <2>1, <2>2, OfNone, ThenDoes DEF SubmitWithId
<1>7. Link(th) =>
        Does(th, IF status[TaskOf(Arg(th))] = "Cancelling"
                   THEN {DoFor("stop", Arg(th)), Do("signals"), DoFor("fire", TaskOf(Arg(th)))}
                 ELSE IF status[TaskOf(Arg(th))] = "Canceled" THEN {DoFor("stop", Arg(th))}
                 ELSE {DoFor("snapshot", Arg(th))})
  <2>. SUFFICES ASSUME Link(th) PROVE
        Does(th, IF status[TaskOf(Arg(th))] = "Cancelling"
                   THEN {DoFor("stop", Arg(th)), Do("signals"), DoFor("fire", TaskOf(Arg(th)))}
                 ELSE IF status[TaskOf(Arg(th))] = "Canceled" THEN {DoFor("stop", Arg(th))}
                 ELSE {DoFor("snapshot", Arg(th))})
    OBVIOUS
  <2>1. Arg(th) \in Jobs /\ TaskOf(Arg(th)) \in Tasks /\ ~ Idle(th)
    BY <1>2, Ops DEF Link
  <2>2. /\ Of(<<DoFor("stop", Arg(th)), Do("signals"), DoFor("fire", TaskOf(Arg(th)))>>,
              {DoFor("stop", Arg(th)), Do("signals"), DoFor("fire", TaskOf(Arg(th)))})
        /\ Of(<<DoFor("stop", Arg(th))>>, {DoFor("stop", Arg(th))})
        /\ Of(<<DoFor("snapshot", Arg(th))>>, {DoFor("snapshot", Arg(th))})
    BY <1>1, <2>1, Ops, OfSome
  <2>. QED BY <2>1, <2>2, ThenDoes DEF Link, Overtaken
<1>8. Snapshot(th) => Does(th, {Record("record", Arg(th), job[Arg(th)])})
  <2>. SUFFICES ASSUME Snapshot(th) PROVE Does(th, {Record("record", Arg(th), job[Arg(th)])})
    OBVIOUS
  <2>1. Arg(th) \in Jobs /\ ~ Idle(th)
    BY <1>2, Ops DEF Snapshot
  <2>2. Of(<<Record("record", Arg(th), job[Arg(th)])>>, {Record("record", Arg(th), job[Arg(th)])})
    BY <1>1, <1>3, <2>1, Ops, OfSome
  <2>. QED BY <2>1, <2>2, ThenDoes DEF Snapshot
<1>9. OnJobRecord(th) =>
        Does(th, IF Arg(th) \in mapped \/ Recovers(Arg(th))
                 THEN {Record("process", Arg(th), State(th))} ELSE {})
  <2>. SUFFICES ASSUME OnJobRecord(th) PROVE
        Does(th, IF Arg(th) \in mapped \/ Recovers(Arg(th))
                 THEN {Record("process", Arg(th), State(th))} ELSE {})
    OBVIOUS
  <2>1. Arg(th) \in Jobs /\ ~ Idle(th) /\ State(th) \in JobStates \cup {"none"}
    BY <1>2, Ops DEF OnJobRecord
  <2>2. Of(<<Record("process", Arg(th), State(th))>>, {Record("process", Arg(th), State(th))})
    BY <1>1, <2>1, Ops, OfSome
  <2>. QED BY <2>1, <2>2, OfNone, ThenDoes DEF OnJobRecord, Done
<1>10. ProcessJobRecord(th) =>
        Does(th, IF State(th) \in JobEnds /\ Live(status, TaskOf(Arg(th)))
                 THEN {Record("mark", Arg(th), State(th)), DoFor("forget", Arg(th))} ELSE {})
  <2>. SUFFICES ASSUME ProcessJobRecord(th) PROVE
        Does(th, IF State(th) \in JobEnds /\ Live(status, TaskOf(Arg(th)))
                 THEN {Record("mark", Arg(th), State(th)), DoFor("forget", Arg(th))} ELSE {})
    OBVIOUS
  <2>1. Arg(th) \in Jobs /\ ~ Idle(th) /\ State(th) \in JobStates \cup {"none"}
    BY <1>2, Ops DEF ProcessJobRecord
  <2>2. Of(<<Record("mark", Arg(th), State(th)), DoFor("forget", Arg(th))>>,
           {Record("mark", Arg(th), State(th)), DoFor("forget", Arg(th))})
    BY <1>1, <2>1, Ops, OfSome
  <2>. QED BY <2>1, <2>2, OfNone, ThenDoes DEF ProcessJobRecord
<1>11. Forget(th) => Does(th, {})
  BY AtIsBusy, OfNone, ThenDoes DEF Forget, Done
<1>. QED BY <1>4, <1>5, <1>6, <1>7, <1>8, <1>9, <1>10, <1>11

\* what the cancel of t and of all below it makes a thread do
CancelDoes(s, targets) ==
  Each("cancel", JobsToCancel(s, targets)) \cup Flushes \cup Each("fire", CanceledAtOnce(s, targets))

LEMMA OfTargets ==
  ASSUME LifeInv, NEW s, NEW targets
  PROVE  /\ Of(ForEach("cancel", JobsToCancel(s, targets)), Each("cancel", JobsToCancel(s, targets)))
         /\ Of(ForEach("fire", CanceledAtOnce(s, targets)), Each("fire", CanceledAtOnce(s, targets)))
         /\ \A t \in Tasks : /\ Of(ForEach("cancel", OwnJob(t)), Each("cancel", OwnJob(t)))
                             /\ Of(ForEach("cancel", OwnJob(t) \cup JobsToCancel(s, targets)),
                                   Each("cancel", OwnJob(t) \cup JobsToCancel(s, targets)))
<1>. DEFINE A == JobsToCancel(s, targets)
            B == CanceledAtOnce(s, targets)
<1>1. IsFiniteSet(A) /\ A \subseteq Jobs /\ IsFiniteSet(B) /\ B \subseteq Tasks
  BY TargetsFacts
<1>2. \A t \in Tasks : IsFiniteSet(OwnJob(t)) /\ OwnJob(t) \subseteq Jobs
  BY TargetsFacts
<1>3. /\ \A j \in Jobs : DoFor("cancel", j) \in StepType
      /\ \A t \in Tasks : DoFor("fire", t) \in StepType
  BY Ops, StepTypes
<1>. HIDE DEF A, B
<1>4. \A t \in Tasks : IsFiniteSet(OwnJob(t) \cup A) /\ OwnJob(t) \cup A \subseteq Jobs
  BY <1>1, <1>2, FS_Union
<1>5. \A C : IsFiniteSet(C) /\ C \subseteq Jobs => Of(ForEach("cancel", C), Each("cancel", C))
  BY <1>3, OfEach
<1>6. Of(ForEach("fire", B), Each("fire", B))
  BY <1>1, <1>3, OfEach
<1>. QED BY <1>1, <1>2, <1>4, <1>5, <1>6 DEF A, B

LEMMA CancelStepsDo ==
  ASSUME LifeInv, NEW t
  PROVE  Of(CancelSteps(t), CancelDoes(status, {t} \cup Descendants(status, t)))
<1>. DEFINE targets == {t} \cup Descendants(status, t)
<1>1. /\ Of(ForEach("cancel", JobsToCancel(status, targets)), Each("cancel", JobsToCancel(status, targets)))
      /\ Of(ForEach("fire", CanceledAtOnce(status, targets)), Each("fire", CanceledAtOnce(status, targets)))
  BY OfTargets
<1>2. CancelSteps(t) = ForEach("cancel", JobsToCancel(status, targets)) \o Flush
                         \o ForEach("fire", CanceledAtOnce(status, targets))
  BY DEF CancelSteps
<1>. HIDE DEF targets
<1>4. Of(ForEach("cancel", JobsToCancel(status, targets)) \o Flush,
         Each("cancel", JobsToCancel(status, targets)) \cup Flushes)
  BY <1>1, OfFlush, OfJoined
<1>3. Of(CancelSteps(t), (Each("cancel", JobsToCancel(status, targets)) \cup Flushes)
                           \cup Each("fire", CanceledAtOnce(status, targets)))
  BY <1>1, <1>2, <1>4, OfJoined
<1>. QED BY <1>3 DEF CancelDoes, targets

LEMMA MarksDo ==
  ASSUME LifeInv, NEW th \in Threads, ~ Idle(th), NEW t \in Tasks
  PROVE  /\ MarkTaskCompleted(th, t) => Does(th, Flushes \cup {DoFor("fire", t)})
         /\ AutoRetry(th, t) => Does(th, Each("cancel", OwnJob(t)) \cup Flushes)
         /\ \A new : MarkTaskEnded(th, t, new) =>
              LET s == Set(t, new)
                  below == Descendants(s, t)
              IN Does(th, Each("cancel", OwnJob(t) \cup JobsToCancel(s, below)) \cup Flushes
                            \cup {DoFor("fire", t)} \cup Each("fire", CanceledAtOnce(s, below)))
<1>1. Of(<<DoFor("fire", t)>>, {DoFor("fire", t)})
  BY Ops, StepTypes, OfSome
<1>2. MarkTaskCompleted(th, t) => Does(th, Flushes \cup {DoFor("fire", t)})
  BY <1>1, OfFlush, OfJoined, ThenDoes DEF MarkTaskCompleted
<1>3. AutoRetry(th, t) => Does(th, Each("cancel", OwnJob(t)) \cup Flushes)
  BY OfTargets, OfFlush, OfJoined, ThenDoes DEF AutoRetry
<1>4. ASSUME NEW new, MarkTaskEnded(th, t, new)
      PROVE  LET s == Set(t, new)
                 below == Descendants(s, t)
             IN Does(th, Each("cancel", OwnJob(t) \cup JobsToCancel(s, below)) \cup Flushes
                           \cup {DoFor("fire", t)} \cup Each("fire", CanceledAtOnce(s, below)))
  <2>. DEFINE s == Set(t, new)
              below == Descendants(s, t)
              C == OwnJob(t) \cup JobsToCancel(s, below)
              F == CanceledAtOnce(s, below)
  <2>1. Then(th, ForEach("cancel", C) \o Flush \o <<DoFor("fire", t)>> \o ForEach("fire", F))
    BY <1>4 DEF MarkTaskEnded
  <2>2. Of(ForEach("cancel", C), Each("cancel", C)) /\ Of(ForEach("fire", F), Each("fire", F))
    BY OfTargets
  <2>. HIDE DEF C, F
  <2>3. Of(ForEach("cancel", C) \o Flush, Each("cancel", C) \cup Flushes)
    BY <2>2, OfFlush, OfJoined
  <2>4. Of(ForEach("cancel", C) \o Flush \o <<DoFor("fire", t)>>,
           Each("cancel", C) \cup Flushes \cup {DoFor("fire", t)})
    BY <1>1, <2>3, OfJoined
  <2>5. Of(ForEach("cancel", C) \o Flush \o <<DoFor("fire", t)>> \o ForEach("fire", F),
           Each("cancel", C) \cup Flushes \cup {DoFor("fire", t)} \cup Each("fire", F))
    BY <2>2, <2>4, OfJoined
  <2>6. Does(th, Each("cancel", C) \cup Flushes \cup {DoFor("fire", t)} \cup Each("fire", F))
    BY <2>1, <2>5, ThenDoes
  <2>. QED BY <2>6 DEF C, F
<1>. QED BY <1>2, <1>3, <1>4

LEMMA CancelsDo ==
  ASSUME LifeInv, NEW th \in Threads
  PROVE  /\ \A t : CancelTask(th, t) => Does(th, CancelDoes(status, {t} \cup Descendants(status, t)))
         /\ CancelForShutdown(th) =>
              Does(th, IF Live(status, Arg(th))
                       THEN CancelDoes(status, {Arg(th)} \cup Descendants(status, Arg(th))) ELSE {})
         /\ CancelJob(th) =>
              Does(th, IF job[Arg(th)] = "Queued" THEN {Record("record", Arg(th), "Cancelled")}
                       ELSE IF job[Arg(th)] # "Running" /\ At(th, "cancel")
                         THEN {DoFor("strand", TaskOf(Arg(th)))} ELSE {})
         /\ Strand(th) =>
              Does(th, IF status[Arg(th)] = "Cancelling" THEN {Do("signals"), DoFor("fire", Arg(th))} ELSE {})
         /\ FlushOwnedCancels(th) =>
              LET targets == orphans \cup UNION {Descendants(status, c) : c \in orphans}
              IN Does(th, IF orphans = {} THEN {}
                          ELSE Each("cancel", JobsToCancel(status, targets))
                                 \cup Each("fire", CanceledAtOnce(status, targets)) \cup {Do("signals")})
<1>1. \A t : CancelTask(th, t) => Does(th, CancelDoes(status, {t} \cup Descendants(status, t)))
  BY CancelStepsDo, ThenDoes DEF CancelTask
<1>2. CancelForShutdown(th) =>
        Does(th, IF Live(status, Arg(th))
                 THEN CancelDoes(status, {Arg(th)} \cup Descendants(status, Arg(th))) ELSE {})
  <2>1. CancelForShutdown(th) =>
          ~ Idle(th) /\ Then(th, IF Live(status, Arg(th)) THEN CancelSteps(Arg(th)) ELSE <<>>)
    BY AtIsBusy DEF CancelForShutdown, Done
  <2>. QED BY <2>1, CancelStepsDo, OfNone, ThenDoes
<1>3. CancelJob(th) =>
        Does(th, IF job[Arg(th)] = "Queued" THEN {Record("record", Arg(th), "Cancelled")}
                 ELSE IF job[Arg(th)] # "Running" /\ At(th, "cancel")
                   THEN {DoFor("strand", TaskOf(Arg(th)))} ELSE {})
  <2>. SUFFICES ASSUME CancelJob(th) PROVE
        Does(th, IF job[Arg(th)] = "Queued" THEN {Record("record", Arg(th), "Cancelled")}
                 ELSE IF job[Arg(th)] # "Running" /\ At(th, "cancel")
                   THEN {DoFor("strand", TaskOf(Arg(th)))} ELSE {})
    OBVIOUS
  <2>1. Arg(th) \in Jobs /\ TaskOf(Arg(th)) \in Tasks /\ ~ Idle(th)
    BY HeadFacts, AtIsBusy, Ops DEF CancelJob
  <2>2. /\ Of(<<Record("record", Arg(th), "Cancelled")>>, {Record("record", Arg(th), "Cancelled")})
        /\ Of(<<DoFor("strand", TaskOf(Arg(th)))>>, {DoFor("strand", TaskOf(Arg(th)))})
    BY <2>1, Ops, StepTypes, OfSome
  <2>. QED BY <2>1, <2>2, OfNone, ThenDoes DEF CancelJob
<1>4. Strand(th) =>
        Does(th, IF status[Arg(th)] = "Cancelling" THEN {Do("signals"), DoFor("fire", Arg(th))} ELSE {})
  <2>. SUFFICES ASSUME Strand(th) PROVE
        Does(th, IF status[Arg(th)] = "Cancelling" THEN {Do("signals"), DoFor("fire", Arg(th))} ELSE {})
    OBVIOUS
  <2>1. Arg(th) \in Tasks /\ ~ Idle(th)
    BY HeadFacts, AtIsBusy, Ops DEF Strand
  <2>2. Of(<<Do("signals"), DoFor("fire", Arg(th))>>, {Do("signals"), DoFor("fire", Arg(th))})
    BY <2>1, Ops, StepTypes, OfSome
  <2>. QED BY <2>1, <2>2, OfNone, ThenDoes DEF Strand, Done
<1>5. ASSUME FlushOwnedCancels(th)
      PROVE  LET targets == orphans \cup UNION {Descendants(status, c) : c \in orphans}
             IN Does(th, IF orphans = {} THEN {}
                         ELSE Each("cancel", JobsToCancel(status, targets))
                                \cup Each("fire", CanceledAtOnce(status, targets)) \cup {Do("signals")})
  <2>. DEFINE targets == orphans \cup UNION {Descendants(status, c) : c \in orphans}
              C == JobsToCancel(status, targets)
              F == CanceledAtOnce(status, targets)
  <2>1. /\ ~ Idle(th)
        /\ Then(th, IF orphans = {} THEN <<>>
                    ELSE ForEach("cancel", C) \o ForEach("fire", F) \o <<Do("signals")>>)
    BY <1>5, AtIsBusy DEF FlushOwnedCancels, Done
  <2>2. Of(ForEach("cancel", C), Each("cancel", C)) /\ Of(ForEach("fire", F), Each("fire", F))
        /\ Of(<<Do("signals")>>, {Do("signals")})
    BY OfTargets, OfSome, Ops, StepTypes
  <2>. HIDE DEF C, F
  <2>3. Of(ForEach("cancel", C) \o ForEach("fire", F), Each("cancel", C) \cup Each("fire", F))
    BY <2>2, OfJoined
  <2>4. Of(ForEach("cancel", C) \o ForEach("fire", F) \o <<Do("signals")>>,
           Each("cancel", C) \cup Each("fire", F) \cup {Do("signals")})
    BY <2>2, <2>3, OfJoined
  <2>5. Does(th, IF orphans = {} THEN {} ELSE Each("cancel", C) \cup Each("fire", F) \cup {Do("signals")})
    BY <2>1, <2>4, OfNone, ThenDoes
  <2>. QED BY <2>5 DEF C, F
<1>. QED BY <1>1, <1>2, <1>3, <1>4, <1>5

LEMMA EnforcesDo ==
  ASSUME LifeInv, EnforceCancelDeadlines
  PROVE  \E late \in (SUBSET {t \in Tasks : status[t] = "Cancelling"}) \ {{}} :
           /\ ~ down
           /\ status' = [t \in Tasks |-> IF t \in late THEN "Canceled" ELSE status[t]]
           /\ mapped' = mapped \ Detached(late)
           /\ Join
           /\ Idle(Watchdog) /\ Does(Watchdog, {Do("signals")} \cup Each("fire", late))
           /\ UNCHANGED <<auto, jobId, attempts, graphVars, admissionVars, callback, down, engineVars>>
<1>1. PICK late \in (SUBSET {t \in Tasks : status[t] = "Cancelling"}) \ {{}} :
        /\ ~ down
        /\ status' = [t \in Tasks |-> IF t \in late THEN "Canceled" ELSE status[t]]
        /\ mapped' = mapped \ Detached(late)
        /\ Join
        /\ Call(Watchdog, <<Do("signals")>> \o ForEach("fire", late))
        /\ UNCHANGED <<auto, jobId, attempts, graphVars, admissionVars, callback, down, engineVars>>
  BY DEF EnforceCancelDeadlines
<1>2. IsFiniteSet(late) /\ late \subseteq Tasks
  BY FiniteTasks, FS_Subset
<1>3. \A t \in late : DoFor("fire", t) \in StepType
  BY <1>2, Ops, StepTypes
<1>4. Of(ForEach("fire", late), Each("fire", late)) /\ Of(<<Do("signals")>>, {Do("signals")})
  BY <1>2, <1>3, OfEach, OfSome, Ops, StepTypes
<1>5. Of(<<Do("signals")>> \o ForEach("fire", late), {Do("signals")} \cup Each("fire", late))
  BY <1>4, OfJoined
<1>6. Idle(Watchdog) /\ Does(Watchdog, {Do("signals")} \cup Each("fire", late))
  BY <1>1, <1>5, ThenDoes DEF Call
<1>. QED BY <1>1, <1>6

ShutdownSteps == {"joinWatchdog", "cancelAll", "closeEngine", "joinWorkers", "finalize"}
LEMMA ShutdownsDo ==
  ASSUME LifeInv, NEW th \in Threads
  PROVE  /\ Shutdown(th) => Does(th, {Do(op) : op \in ShutdownSteps})
         /\ JoinWatchdog(th) \/ JoinWorkers(th) \/ ClearCallbacks(th) \/ FireTaskCompletionCallbacks(th)
              => Does(th, {})
         /\ CancelAllForShutdown(th) => Does(th, Each("cancelTask", {t \in Tasks : Live(status, t)}))
         /\ CloseEngine(th) =>
              Does(th, {Record("record", j, "Cancelled") : j \in {i \in Jobs : job[i] = "Queued"}})
         /\ Finalize(th) =>
              Does(th, {Do("signals"), Do("clear")} \cup Each("fire", {t \in Tasks : Live(status, t)}))
         /\ \A t : AddTaskCompletionCallback(th, t) => Does(th, {})
<1>. DEFINE left == {t \in Tasks : Live(status, t)}
<1>1. IsFiniteSet(left) /\ left \subseteq Tasks
  BY FiniteTasks, FS_Subset
<1>2. /\ \A t \in Tasks : DoFor("fire", t) \in StepType /\ DoFor("cancelTask", t) \in StepType
      /\ \A op \in OtherOps : Do(op) \in StepType
      /\ \A j \in Jobs : Record("record", j, "Cancelled") \in StepType
  BY Ops, StepTypes
<1>. HIDE DEF left
<1>3. Of(ForEach("fire", left), Each("fire", left)) /\ Of(ForEach("cancelTask", left), Each("cancelTask", left))
  BY <1>1, <1>2, OfEach
<1>4. Shutdown(th) => Does(th, {Do(op) : op \in ShutdownSteps})
  <2>. DEFINE q == <<Do("joinWatchdog"), Do("cancelAll"), Do("closeEngine"), Do("joinWorkers"), Do("finalize")>>
  <2>1. ASSUME NEW A, NEW v \in A, NEW w \in A, NEW x \in A, NEW y \in A, NEW z \in A
        PROVE  <<v, w, x, y, z>> \in Seq(A) /\ ToSet(<<v, w, x, y, z>>) = {v, w, x, y, z}
    BY DEF ToSet
  <2>2. /\ Do("joinWatchdog") \in StepType /\ Do("cancelAll") \in StepType
        /\ Do("closeEngine") \in StepType /\ Do("joinWorkers") \in StepType /\ Do("finalize") \in StepType
    BY <1>2, Ops
  <2>3. q \in Seq(StepType)
        /\ ToSet(q) = {Do("joinWatchdog"), Do("cancelAll"), Do("closeEngine"), Do("joinWorkers"), Do("finalize")}
    BY <2>1, <2>2
  <2>4. {Do(op) : op \in ShutdownSteps} =
          {Do("joinWatchdog"), Do("cancelAll"), Do("closeEngine"), Do("joinWorkers"), Do("finalize")}
    BY DEF ShutdownSteps
  <2>5. Shutdown(th) => Call(th, q)
    BY DEF Shutdown
  <2>. HIDE DEF q
  <2>. QED BY <2>3, <2>4, <2>5, ThenDoes DEF Of
<1>5. JoinWatchdog(th) \/ JoinWorkers(th) \/ ClearCallbacks(th) \/ FireTaskCompletionCallbacks(th) => Does(th, {})
  BY AtIsBusy, OfNone, ThenDoes
     DEF JoinWatchdog, JoinWorkers, ClearCallbacks, FireTaskCompletionCallbacks, Done
<1>6. CancelAllForShutdown(th) => Does(th, Each("cancelTask", left))
  BY <1>3, AtIsBusy, ThenDoes DEF CancelAllForShutdown, left
<1>7. CloseEngine(th) =>
        Does(th, {Record("record", j, "Cancelled") : j \in {i \in Jobs : job[i] = "Queued"}})
  <2>. DEFINE queued == {i \in Jobs : job[i] = "Queued"}
              T == {Record("record", j, "Cancelled") : j \in queued}
  <2>1. IsFiniteSet(T)
    <3>1. IsFiniteSet(queued)
      BY FiniteTasks, FS_Subset
    <3>2. [j \in queued |-> Record("record", j, "Cancelled")] \in Surjection(queued, T)
      BY DEF Surjection
    <3>. QED BY <3>1, <3>2, FS_Surjection DEF ExistsSurjection
  <2>2. T \subseteq StepType
    BY <1>2
  <2>3. CloseEngine(th) => ~ Idle(th) /\ Then(th, SetToSeq(T))
    BY AtIsBusy DEF CloseEngine
  <2>. HIDE DEF T
  <2>4. Of(SetToSeq(T), T)
    BY <2>1, <2>2, ListedAll DEF Of
  <2>5. CloseEngine(th) => Does(th, T)
    BY <2>3, <2>4, ThenDoes
  <2>. QED BY <2>5 DEF T
<1>8. Finalize(th) => Does(th, {Do("signals"), Do("clear")} \cup Each("fire", left))
  <2>1. Of(<<Do("signals")>>, {Do("signals")}) /\ Of(<<Do("clear")>>, {Do("clear")})
    BY <1>2, Ops, OfSome
  <2>2. Of(<<Do("signals")>> \o ForEach("fire", left), {Do("signals")} \cup Each("fire", left))
    BY <1>3, <2>1, OfJoined
  <2>3. Of(<<Do("signals")>> \o ForEach("fire", left) \o <<Do("clear")>>,
           {Do("signals")} \cup Each("fire", left) \cup {Do("clear")})
    BY <2>1, <2>2, OfJoined
  <2>4. Finalize(th) => ~ Idle(th) /\ Then(th, <<Do("signals")>> \o ForEach("fire", left) \o <<Do("clear")>>)
    BY AtIsBusy DEF Finalize, left
  <2>5. {Do("signals")} \cup Each("fire", left) \cup {Do("clear")}
          = {Do("signals"), Do("clear")} \cup Each("fire", left)
    OBVIOUS
  <2>6. Finalize(th) => Does(th, {Do("signals")} \cup Each("fire", left) \cup {Do("clear")})
    BY <2>3, <2>4, ThenDoes
  <2>. QED BY <2>5, <2>6
<1>9. \A t : AddTaskCompletionCallback(th, t) => Does(th, {})
  <2>1. todo \in [Threads -> Seq(StepType)]
    BY DEF LifeInv, TypeInv
  <2>2. Idle(th) /\ todo' = todo => Call(th, <<>>)
    BY <2>1 DEF Call, Idle
  <2>. QED BY <2>2, OfNone, ThenDoes DEF AddTaskCompletionCallback
<1>. QED BY <1>4, <1>5, <1>6, <1>7, <1>8, <1>9 DEF left

LEMMA EnginesDo ==
  ASSUME LifeInv, NEW j \in Jobs
  PROVE  /\ JobStarts(j) => Does(j, {Record("record", j, "Running")})
         /\ \A end \in JobEnds : JobEndsAs(j, end) => Does(j, {Record("record", j, end)})
<1>1. \A s \in JobStates \cup {"none"} : Record("record", j, s) \in StepType
  BY Ops, StepTypes
<1>2. "Running" \in JobStates /\ JobEnds \subseteq JobStates
  BY DEF JobStates
<1>3. \A s \in JobStates : Of(<<Record("record", j, s)>>, {Record("record", j, s)})
  BY <1>1, OfSome
<1>. QED BY <1>2, <1>3, ThenDoes DEF JobStarts, JobEndsAs

-----------------------------------------------------------------------------
(* No task outlives the task that owns it.                                 *)

\* what a pass makes of the tasks: some are launched, some fail
Splits(s, launched, failing) ==
  /\ launched \cap failing = {} /\ failing \subseteq Unresolved
  /\ \A t \in launched \cup failing : s[t] \in ReadyLike /\ jobId'[t] = NoJob
  /\ status' \in [Tasks -> Statuses]
  /\ \A t \in Tasks :
       /\ t \in failing => status'[t] = "Failed"
       /\ t \in launched => status'[t] = "Dispatching"
       /\ t \notin launched \cup failing =>
            IF s[t] \in ReadyLike THEN status'[t] \in ReadyLike ELSE status'[t] = s[t]
  /\ staged' = staged \cup {<<t, attempts'[t] + 1>> : t \in launched}

LEMMA PassSplit ==
  ASSUME NEW timers, NEW s \in [Tasks -> Statuses], NEW queued \in SUBSET Tasks,
         PassBefore(timers, s, queued)
  PROVE  \E launched, failing \in SUBSET Tasks : Splits(s, launched, failing)
<1>. DEFINE listed == {t \in queued : s[t] \in ReadyLike}
            candidates == {t \in listed : IsLaunchCandidate(s, t)}
<1>1. CASE down
  <2>1. status' = s /\ staged' = staged
    BY <1>1 DEF PassBefore
  <2>. WITNESS {} \in SUBSET Tasks, {} \in SUBSET Tasks
  <2>. QED BY <2>1 DEF Splits
<1>2. CASE ~ down
  <2>1. \E through, normal \in SUBSET candidates : \E failing \in SUBSET ((through \cup normal) \cap Unresolved) :
          Launch(s, listed, candidates, through, (through \cup normal) \ failing, failing)
    <3>1. \E high \in Pressure,
             through \in SUBSET {t \in candidates : WorkerOriginated(t)},
             normal \in SUBSET candidates :
            \E failing \in SUBSET ((through \cup normal) \cap Unresolved) :
              Launch(s, listed, candidates, through, (through \cup normal) \ failing, failing)
      BY <1>2, ZenonT(30) DEF PassBefore
    <3>. HIDE DEF listed, candidates
    <3>. QED BY <3>1, ZenonT(30)
  <2>2. PICK through \in SUBSET candidates, normal \in SUBSET candidates :
          \E failing \in SUBSET ((through \cup normal) \cap Unresolved) :
            Launch(s, listed, candidates, through, (through \cup normal) \ failing, failing)
    BY <2>1
  <2>3. PICK failing \in SUBSET ((through \cup normal) \cap Unresolved) :
          Launch(s, listed, candidates, through, (through \cup normal) \ failing, failing)
    BY <2>2
  <2>. DEFINE launched == (through \cup normal) \ failing
  <2>4. \A t \in candidates : t \in Tasks /\ t \in listed /\ s[t] \in ReadyLike /\ jobId'[t] = NoJob
    BY DEF IsLaunchCandidate
  <2>5. /\ launched \subseteq candidates /\ failing \subseteq candidates
        /\ launched \cap failing = {} /\ failing \subseteq Unresolved
    OBVIOUS
  <2>6. \A t \in listed : t \in Tasks /\ s[t] \in ReadyLike
    OBVIOUS
  <2>. HIDE DEF launched, candidates, listed
  <2>7. /\ status' = [t \in Tasks |->
             IF t \in failing THEN "Failed"
             ELSE IF t \in launched THEN "Dispatching"
             ELSE IF t \in candidates THEN "WaitingResource"
             ELSE IF t \in listed THEN "Queued" ELSE s[t]]
        /\ staged' = staged \cup {<<t, attempts'[t] + 1>> : t \in launched}
    BY <2>3 DEF Launch, launched
  <2>8. status' \in [Tasks -> Statuses]
    BY <2>7 DEF Statuses, ReadyLike, ActiveStates, Final
  <2>9. /\ launched \in SUBSET Tasks /\ failing \in SUBSET Tasks
        /\ \A t \in launched \cup failing : s[t] \in ReadyLike /\ jobId'[t] = NoJob
    BY <2>4, <2>5
  <2>10. \A t \in Tasks :
                /\ t \in failing => status'[t] = "Failed"
                /\ t \in launched => status'[t] = "Dispatching"
                /\ t \notin launched \cup failing =>
                     IF s[t] \in ReadyLike THEN status'[t] \in ReadyLike ELSE status'[t] = s[t]
    BY <2>4, <2>5, <2>6, <2>7 DEF ReadyLike
  <2>. QED BY <2>5, <2>7, <2>8, <2>9, <2>10 DEF Splits
<1>. QED BY <1>1, <1>2

LEMMA PassLives ==
  ASSUME NEW timers, NEW s \in [Tasks -> Statuses], NEW queued \in SUBSET Tasks,
         PassBefore(timers, s, queued)
  PROVE  \A t \in Tasks :
           /\ status'[t] = "Absent" => s[t] = "Absent"
           /\ Live(s, t) /\ jobId'[t] # NoJob => Live(status', t)
           /\ s[t] \notin ReadyLike => status'[t] = s[t]
<1>1. PICK launched, failing \in SUBSET Tasks : Splits(s, launched, failing)
  BY PassSplit
<1>. QED BY <1>1 DEF Splits, Live, Final, ReadyLike

OneJob == MaxAutoRetries = 0
LEMMA JobsAreTasks == OneJob => \A i, j \in Jobs : TaskOf(i) = TaskOf(j) => i = j
BY DEF OneJob, Jobs, TaskOf

\* A mapped job is the job of its task, and until shutdown() the task is live.
MapInv ==
  \A j \in mapped : j \in Jobs /\ jobId[TaskOf(j)] = j /\ (down \/ Live(status, TaskOf(j)))

OwnersInv ==
  /\ owner \in [Tasks -> Tasks \cup {NoTask}]
  /\ \A t \in Tasks : status[t] = "Absent" => owner[t] = NoTask
  /\ \A c \in Tasks : Live(status, c) /\ owner[c] # NoTask =>
        Live(status, owner[c]) \/ status[c] = "Cancelling" \/ c \in orphans

JoinInv ==
  /\ MapInv /\ OwnersInv
  /\ orphans \subseteq Tasks /\ (orphans # {} => Pending(Do("signals")))
  /\ Pending(Do("finalize")) => down

Onward == LifeInv /\ LifeInv' /\ OneWayStep

LEMMA OpOf ==
  /\ \A op : Do(op).op = op
  /\ \A op, x : DoFor(op, x).op = op /\ DoFor(op, x).arg = x
  /\ \A op, x, s : Record(op, x, s).op = op /\ Record(op, x, s).arg = x /\ Record(op, x, s).state = s
  /\ \A op, A : \A x \in Each(op, A) : x.op = op /\ x.arg \in A
  /\ \A x \in Flushes : x.op \in {"flush", "signals"}
BY DEF Do, DoFor, Record, Each, Flushes

LEMMA OwnersStep ==
  ASSUME Onward, OwnersInv, Join, owner' \in [Tasks -> Tasks \cup {NoTask}],
         \A t \in Tasks : status'[t] = "Absent" => status[t] = "Absent" /\ owner'[t] = owner[t],
         \A c \in Tasks : owner'[c] = owner[c] \/ owner'[c] = NoTask \/ Live(status', owner'[c])
  PROVE  OwnersInv'
<1>1. \A t \in Tasks : /\ status[t] \in Final => status'[t] = status[t]
                       /\ status[t] = "Cancelling" => status'[t] \in Final \cup {"Cancelling"}
  BY DEF Onward, OneWayStep
<1>2. ASSUME NEW c \in Tasks, Live(status', c), owner'[c] = owner[c], owner[c] # NoTask
      PROVE  Live(status', owner[c]) \/ status'[c] = "Cancelling" \/ c \in orphans'
  <2>1. owner[c] \in Tasks /\ status[c] # "Absent" /\ Live(status, c)
    BY <1>1, <1>2 DEF OwnersInv, Live
  <2>2. CASE Live(status, owner[c])
    <3>1. CASE status'[owner[c]] \in Final
      BY <1>2, <2>1, <2>2, <3>1 DEF Join
    <3>2. CASE status'[owner[c]] \notin Final
      BY <2>1, <2>2, <3>2 DEF Live
    <3>. QED BY <3>1, <3>2
  <2>3. CASE status[c] = "Cancelling"
    BY <1>1, <1>2, <2>3 DEF Live
  <2>4. CASE c \in orphans
    BY <2>4 DEF Join
  <2>. QED BY <1>2, <2>1, <2>2, <2>3, <2>4 DEF OwnersInv
<1>. QED BY <1>2 DEF OwnersInv

LEMMA JoinedStep ==
  ASSUME Onward, JoinInv, NEW th \in Threads, NEW S, Does(th, S),
         MapInv', OwnersInv', down => down', orphans' \subseteq Tasks,
         \/ Do("signals") \in S \/ orphans' = {}
         \/ orphans' = orphans /\ (Idle(th) \/ Head(todo[th]).op # "signals"),
         (\E x \in S : x.op = "finalize") => down'
  PROVE  JoinInv'
<1>1. /\ \A x \in S : Pending(x)'
      /\ \A x : Pending(x) /\ (Idle(th) \/ x # Head(todo[th])) => Pending(x)'
      /\ \A x : Pending(x)' => x \in S \/ Pending(x)
  BY DoesPending DEF Onward, LifeInv
<1>4. orphans' # {} => Pending(Do("signals"))'
  BY <1>1, OpOf DEF JoinInv
<1>5. Pending(Do("finalize"))' => down'
  BY <1>1, OpOf DEF JoinInv
<1>. QED BY <1>4, <1>5 DEF JoinInv

LEMMA JoinStep ==
  ASSUME Onward, JoinInv, NEW th \in Threads, NEW S, Does(th, S),
         MapInv', owner' = owner, Join, down => down',
         \A t \in Tasks : status'[t] = "Absent" => status[t] = "Absent",
         \/ Do("signals") \in S
         \/ orphans' = orphans /\ (Idle(th) \/ Head(todo[th]).op # "signals"),
         (\E x \in S : x.op = "finalize") => down'
  PROVE  JoinInv'
<1>1. OwnersInv'
  BY OwnersStep DEF JoinInv, OwnersInv
<1>2. orphans' \subseteq Tasks
  BY DEF Join, JoinInv
<1>. QED BY <1>1, <1>2, JoinedStep

LEMMA QuietJoin ==
  ASSUME Onward, JoinInv, NEW th \in Threads, NEW S, Does(th, S),
         UNCHANGED <<status, owner, mapped, jobId, orphans>>, down => down',
         Idle(th) \/ Head(todo[th]).op # "signals",
         (\E x \in S : x.op = "finalize") => down'
  PROVE  JoinInv'
<1>1. MapInv'
  BY DEF JoinInv, MapInv, Live
<1>2. Join
  BY DEF Join, Live
<1>. QED BY <1>1, <1>2, JoinStep

\* a section that ends with a pass, and flushes after it
LEMMA PassJoin ==
  ASSUME Onward, JoinInv, NEW th \in Threads, NEW S, Does(th, S),
         Do("signals") \in S, \A x \in S : x.op # "finalize",
         NEW timers, NEW s \in [Tasks -> Statuses], NEW queued \in SUBSET Tasks,
         PassBefore(timers, s, queued), Join, owner' = owner, down' = down,
         \A t \in Tasks : s[t] = "Absent" => status[t] = "Absent",
         \A j \in mapped' : j \in Jobs /\ jobId'[TaskOf(j)] = j /\ (down \/ Live(s, TaskOf(j)))
  PROVE  JoinInv'
<1>1. \A t \in Tasks : /\ status'[t] = "Absent" => s[t] = "Absent"
                       /\ Live(s, t) /\ jobId'[t] # NoJob => Live(status', t)
  BY PassLives
<1>2. MapInv'
  <2>1. ASSUME NEW j \in mapped' PROVE j \in Jobs /\ jobId'[TaskOf(j)] = j /\ (down' \/ Live(status', TaskOf(j)))
    <3>1. j \in Jobs /\ TaskOf(j) \in Tasks /\ j # NoJob
      BY FiniteTasks
    <3>. QED BY <1>1, <3>1
  <2>. QED BY <2>1 DEF MapInv, Live
<1>. QED BY <1>1, <1>2, JoinStep

LEMMA CascadeLives ==
  ASSUME NEW s, NEW targets
  PROVE  \A t \in Tasks :
           /\ jobId[t] # NoJob /\ Live(s, t) => Live(Cascade(s, targets), t)
           /\ ~ Live(s, t) => Cascade(s, targets)[t] = s[t]
           /\ Live(Cascade(s, targets), t) /\ t \in targets => Cascade(s, targets)[t] = "Cancelling"
           /\ t \notin targets => Cascade(s, targets)[t] = s[t]
           /\ Cascade(s, targets)[t] = "Absent" => s[t] = "Absent"
BY DEF Cascade, Live, Final

LEMMA PassesJoin ==
  ASSUME Onward, JoinInv, OneJob, NEW th \in Threads
  PROVE  /\ EnterPipeline(th) => JoinInv'
         /\ Arm(th) => JoinInv'
         /\ TimerFires(th) => JoinInv'
<1>0. /\ status \in [Tasks -> Statuses] /\ ready \subseteq Tasks
      /\ \A j \in mapped : j \in Jobs /\ TaskOf(j) \in Tasks /\ jobId[TaskOf(j)] = j /\ j # NoJob
                           /\ (down \/ Live(status, TaskOf(j)))
  BY FiniteTasks DEF Onward, LifeInv, TypeInv, JoinInv, MapInv
<1>1. Do("signals") \in Flushes /\ \A x \in Flushes : x.op # "finalize"
  BY OpOf DEF Flushes
<1>2. ASSUME EnterPipeline(th) PROVE JoinInv'
  <2>. DEFINE N == DOMAIN Arg(th)
              s == [t \in Tasks |-> IF t \in N THEN "Queued" ELSE status[t]]
              queued == ready \cup {t \in N : IsLaunchCandidate(s, t)}
  <2>1. At(th, "enterPipeline")
    BY <1>2 DEF EnterPipeline
  <2>2. N \subseteq Tasks /\ \A t \in N : status[t] = "Absent"
    <3>1. Arg(th) \in Pipelines /\ \A t \in Newcomers(Head(todo[th])) : status[t] = "Absent"
      BY <2>1, HeadFacts DEF Onward
    <3>. QED BY <2>1, <3>1, TasksAssumption DEF At, Arg, Newcomers
  <2>3. /\ PassBefore(rearm, s, queued) /\ Join /\ owner' = owner /\ down' = down
        /\ mapped' = mapped /\ jobId' = jobId
    BY <1>2 DEF EnterPipeline, Pass
  <2>4. Does(th, Flushes)
    BY <1>2, SubmissionsDo DEF Onward
  <2>5. queued \in SUBSET Tasks
    BY <1>0, <2>2
  <2>6. s \in [Tasks -> Statuses]
    BY <1>0 DEF Statuses, ReadyLike
  <2>. HIDE DEF N
  <2>7. \A t \in Tasks : s[t] = IF t \in N THEN "Queued" ELSE status[t]
    OBVIOUS
  <2>. HIDE DEF s, queued
  <2>8. \A t \in Tasks : s[t] = "Absent" => status[t] = "Absent"
    BY <2>7
  <2>9. \A j \in mapped' : j \in Jobs /\ jobId'[TaskOf(j)] = j /\ (down \/ Live(s, TaskOf(j)))
    BY <1>0, <2>2, <2>3, <2>7 DEF Live
  <2>. QED BY <1>1, <2>3, <2>4, <2>5, <2>6, <2>8, <2>9, PassJoin
<1>3. ASSUME Arm(th) PROVE JoinInv'
  <2>. DEFINE t == Arg(th)
              s == [status EXCEPT ![t] = Arms(t)]
              queued == IF ~ down /\ IsLaunchCandidate(s, t) THEN ready \cup {t} ELSE ready
              S == Flushes \cup {DoFor("armed", t)}
  <2>1. At(th, "arm")
    BY <1>3 DEF Arm
  <2>2. t \in Tasks /\ jobId[t] = NoJob
    <3>1. t \in Tasks /\ auto[t] = "manual"
      BY <2>1, Ops, HeadFacts DEF Onward
    <3>. QED BY <3>1 DEF Onward, LifeInv, ManualInv
  <2>3. /\ PassBefore(rearm, s, queued) /\ Join /\ owner' = owner /\ down' = down
        /\ mapped' = mapped /\ jobId' = jobId
    BY <1>3 DEF Arm, Pass
  <2>4. Does(th, S)
    BY <1>3, SubmissionsDo DEF Onward
  <2>5. queued \in SUBSET Tasks
    BY <1>0, <2>2
  <2>6. \A u \in Tasks : s[u] = IF u = t THEN Arms(t) ELSE status[u]
    BY <1>0, <2>2
  <2>7. s \in [Tasks -> Statuses] /\ (Arms(t) = "Absent" => status[t] = "Absent")
    BY <1>0, <2>2 DEF Statuses, Arms, Final
  <2>8. Do("signals") \in S /\ \A x \in S : x.op # "finalize"
    BY <1>1, OpOf
  <2>. HIDE DEF s, queued, t, S
  <2>9. \A u \in Tasks : s[u] = "Absent" => status[u] = "Absent"
    BY <2>6, <2>7
  <2>10. \A j \in mapped' : j \in Jobs /\ jobId'[TaskOf(j)] = j /\ (down \/ Live(s, TaskOf(j)))
    <3>1. \A j \in mapped : TaskOf(j) # t
      BY <1>0, <2>2
    <3>. QED BY <1>0, <2>3, <2>6, <3>1 DEF Live
  <2>. QED BY <2>3, <2>4, <2>5, <2>7, <2>8, <2>9, <2>10, PassJoin
<1>4. ASSUME TimerFires(th) PROVE JoinInv'
  <2>1. PICK others \in BOOLEAN : PassBefore(others, status, ready)
    BY <1>4 DEF TimerFires
  <2>2. Join /\ owner' = owner /\ down' = down /\ mapped' = mapped /\ jobId' = jobId
    BY <1>4 DEF TimerFires
  <2>3. Does(th, Flushes)
    BY <1>4, SubmissionsDo DEF Onward
  <2>4. \A j \in mapped' : j \in Jobs /\ jobId'[TaskOf(j)] = j /\ (down \/ Live(status, TaskOf(j)))
    BY <1>0, <2>2
  <2>5. ready \in SUBSET Tasks
    BY <1>0
  <2>. QED BY <1>0, <1>1, <2>1, <2>2, <2>3, <2>4, <2>5, PassJoin
<1>. QED BY <1>2, <1>3, <1>4

LEMMA CancelLockedJoins ==
  ASSUME Onward, JoinInv, NEW th \in Threads, NEW t, CancelLocked(t),
         Does(th, CancelDoes(status, {t} \cup Descendants(status, t)))
  PROVE  JoinInv'
<1>. DEFINE targets == {t} \cup Descendants(status, t)
            s == Cascade(status, targets)
            S == CancelDoes(status, targets)
<1>1. /\ PassBefore(rearm, s, ready) /\ Join /\ owner' = owner /\ down' = down
      /\ mapped' = mapped /\ jobId' = jobId
  BY DEF CancelLocked, Pass
<1>2. Do("signals") \in S /\ \A x \in S : x.op # "finalize"
  BY OpOf DEF CancelDoes, Flushes
<1>3. Does(th, S)
  OBVIOUS
<1>. HIDE DEF targets, S
<1>4. ready \in SUBSET Tasks /\ s \in [Tasks -> Statuses]
  <2>1. Calm(s)
    BY CalmFacts DEF Onward
  <2>. QED BY <2>1 DEF Calm, Onward, LifeInv, TypeInv
<1>5. \A u \in Tasks : s[u] = "Absent" => status[u] = "Absent"
  BY CascadeLives
<1>6. \A j \in mapped' : j \in Jobs /\ jobId'[TaskOf(j)] = j /\ (down \/ Live(s, TaskOf(j)))
  BY <1>1, CascadeLives, FiniteTasks DEF JoinInv, MapInv
<1>. HIDE DEF s
<1>. QED BY <1>1, <1>2, <1>3, <1>4, <1>5, <1>6, PassJoin

LEMMA MarkJoins ==
  ASSUME Onward, JoinInv, OneJob, NEW th \in Threads, Mark(th)
  PROVE  JoinInv'
<1>. DEFINE t == TaskOf(Arg(th))
<1>1. At(th, "mark") /\ ~ Idle(th) /\ Head(todo[th]).op = "mark" /\ down' = down
  BY AtIsBusy DEF Mark
<1>2. t \in Tasks
  BY <1>1, Ops, HeadFacts DEF Onward
<1>3. /\ status \in [Tasks -> Statuses] /\ ready \subseteq Tasks /\ attempts \in [Tasks -> 0 .. MaxAutoRetries]
      /\ \A j \in mapped : j \in Jobs /\ TaskOf(j) \in Tasks /\ jobId[TaskOf(j)] = j /\ j # NoJob
                           /\ (down \/ Live(status, TaskOf(j)))
  BY FiniteTasks DEF Onward, LifeInv, TypeInv, JoinInv, MapInv
<1>4. CASE ~ Live(status, t)
  <2>1. Then(th, <<>>) /\ UNCHANGED <<status, owner, mapped, jobId, orphans, down>>
    BY <1>4 DEF Mark, Done
  <2>2. Does(th, {})
    BY <1>1, <2>1, OfNone, ThenDoes
  <2>. QED BY <1>1, <2>1, <2>2, QuietJoin
<1>5. CASE Live(status, t) /\ MarkTaskCompleted(th, t)
  <2>. DEFINE s == Set(t, "Completed")
              queued == ready \cup Promoted(s, t)
              S == Flushes \cup {DoFor("fire", t)}
  <2>1. /\ PassBefore(rearm, s, queued) /\ Join /\ owner' = owner
        /\ mapped' = mapped \ {jobId[t]} /\ jobId' = jobId
    BY <1>5 DEF MarkTaskCompleted, Pass
  <2>2. Does(th, S)
    BY <1>1, <1>2, <1>5, MarksDo DEF Onward
  <2>3. Do("signals") \in S /\ \A x \in S : x.op # "finalize"
    BY OpOf DEF Flushes
  <2>4. \A u \in Tasks : s[u] = IF u = t THEN "Completed" ELSE status[u]
    BY <1>2, <1>3 DEF Set
  <2>5. s \in [Tasks -> Statuses] /\ queued \in SUBSET Tasks
    BY <1>3 DEF Set, Statuses, Final, Promoted
  <2>. HIDE DEF s, queued, S, t
  <2>6. \A j \in mapped' : TaskOf(j) # t
    BY <1>3, <2>1
  <2>7. \A u \in Tasks : s[u] = "Absent" => status[u] = "Absent"
    BY <2>4
  <2>8. \A j \in mapped' : j \in Jobs /\ jobId'[TaskOf(j)] = j /\ (down \/ Live(s, TaskOf(j)))
    BY <1>3, <2>1, <2>4, <2>6 DEF Live
  <2>. QED BY <1>1, <2>1, <2>2, <2>3, <2>5, <2>7, <2>8, PassJoin
<1>6. ASSUME attempts[t] < MaxAutoRetries PROVE FALSE
  BY <1>2, <1>3, <1>6 DEF OneJob
<1>7. ASSUME Live(status, t), NEW new \in {"Canceled", "Failed"}, MarkTaskEnded(th, t, new) PROVE JoinInv'
  <2>. DEFINE r == Set(t, new)
              below == Descendants(r, t)
              s == Cascade(r, below)
              S == Each("cancel", OwnJob(t) \cup JobsToCancel(r, below)) \cup Flushes
                     \cup {DoFor("fire", t)} \cup Each("fire", CanceledAtOnce(r, below))
  <2>1. /\ PassBefore(rearm, s, ready) /\ Join /\ owner' = owner
        /\ mapped' = mapped \ OwnJob(t) /\ jobId' = jobId
    BY <1>7 DEF MarkTaskEnded, Pass, Endings
  <2>2. Does(th, S)
    BY <1>1, <1>2, <1>7, MarksDo DEF Onward
  <2>3. Do("signals") \in S /\ \A x \in S : x.op # "finalize"
    BY OpOf DEF Flushes
  <2>4. \A u \in Tasks : r[u] = IF u = t THEN new ELSE status[u]
    BY <1>2, <1>3 DEF Set
  <2>5. r \in [Tasks -> Statuses]
    BY <1>3 DEF Set, Statuses, Final
  <2>6. s \in [Tasks -> Statuses]
    BY <2>5 DEF Cascade, Statuses, Final, ActiveStates
  <2>. HIDE DEF below, S, r, t
  <2>7. \A j \in mapped' : TaskOf(j) # t
    BY <1>3, <2>1 DEF OwnJob
  <2>8. \A u \in Tasks : s[u] = "Absent" => status[u] = "Absent"
    BY <1>7, <2>4, CascadeLives
  <2>9. \A j \in mapped' : j \in Jobs /\ jobId'[TaskOf(j)] = j /\ (down \/ Live(s, TaskOf(j)))
    <3>1. \A u \in Tasks : u # t /\ Live(status, u) => Live(r, u)
      BY <2>4 DEF Live
    <3>. QED BY <1>3, <2>1, <2>7, <3>1, CascadeLives
  <2>10. ready \in SUBSET Tasks
    BY <1>3
  <2>. HIDE DEF s
  <2>. QED BY <1>1, <2>1, <2>2, <2>3, <2>6, <2>8, <2>9, <2>10, PassJoin
<1>. QED BY <1>4, <1>5, <1>6, <1>7 DEF Mark, ShouldAutoRetry

LEMMA NobodyEnds ==
  ASSUME NEW t \in Tasks, status \in [Tasks -> Statuses], NEW new \in Statuses \ Final,
         owner \in [Tasks -> Tasks \cup {NoTask}], orphans' = orphans, owner' = owner,
         status' = status \/ status' = [status EXCEPT ![t] = new]
  PROVE  Join
<1>1. \A u \in Tasks : status'[u] \in Final => status'[u] = status[u]
  <2>1. CASE status' = [status EXCEPT ![t] = new]
    <3>1. \A u \in Tasks : status'[u] = IF u = t THEN new ELSE status[u]
      BY <2>1
    <3>. QED BY <3>1
  <2>. QED BY <2>1
<1>2. \A c \in Tasks : Live(status, owner[c]) /\ status'[owner[c]] \in Final => owner[c] \notin Tasks
  BY <1>1 DEF Live
<1>3. {c \in Tasks : /\ Live(status, c) /\ owner[c] # NoTask
                     /\ Live(status, owner[c]) /\ status'[owner[c]] \in Final} = {}
  BY <1>2
<1>. QED BY <1>3 DEF Join

LEMMA QuietsJoin ==
  ASSUME Onward, JoinInv, NEW th \in Threads
  PROVE  /\ \A g \in Pipelines : SubmitPipeline(th, g) => JoinInv'
         /\ \A t \in Tasks : RetryTask(th, t) \/ AddTaskCompletionCallback(th, t) => JoinInv'
         /\ Armed(th) \/ FlushPendingLaunches(th) \/ SubmitWithId(th) \/ Snapshot(th) => JoinInv'
         /\ CancelJob(th) \/ JoinWatchdog(th) \/ CancelAllForShutdown(th) => JoinInv'
         /\ CloseEngine(th) \/ JoinWorkers(th) \/ ClearCallbacks(th) => JoinInv'
         /\ FireTaskCompletionCallbacks(th) \/ Shutdown(th) => JoinInv'
<1>0. LifeInv
  BY DEF Onward
<1>1. ASSUME NEW S, Does(th, S), UNCHANGED <<status, owner, mapped, jobId, orphans>>,
             down' = down \/ down', Idle(th) \/ Head(todo[th]).op # "signals",
             (\A x \in S : x.op # "finalize") \/ down'
      PROVE  JoinInv'
  BY <1>1, QuietJoin
<1>2. ASSUME NEW g \in Pipelines, SubmitPipeline(th, g) PROVE JoinInv'
  <2>1. Does(th, {DoFor("enterPipeline", g)})
    BY <1>0, <1>2, SubmissionsDo
  <2>3. \A x \in {DoFor("enterPipeline", g)} : x.op # "finalize"
    BY OpOf
  <2>2. UNCHANGED <<status, owner, mapped, jobId, orphans, down>> /\ Idle(th)
    BY <1>2 DEF SubmitPipeline, Call
  <2>. QED BY <1>1, <2>1, <2>2, <2>3
<1>3. ASSUME NEW t \in Tasks, RetryTask(th, t) PROVE JoinInv'
  <2>1. Does(th, {DoFor("resubmit", t)})
    BY <1>0, <1>3, SubmissionsDo
  <2>3. \A x \in {DoFor("resubmit", t)} : x.op # "finalize"
    BY OpOf
  <2>2. UNCHANGED <<status, owner, mapped, jobId, orphans, down>> /\ Idle(th)
    BY <1>3 DEF RetryTask, Call
  <2>. QED BY <1>1, <2>1, <2>2, <2>3
<1>4. ASSUME NEW t \in Tasks, AddTaskCompletionCallback(th, t) PROVE JoinInv'
  <2>1. Does(th, {})
    BY <1>0, <1>4, ShutdownsDo
  <2>2. UNCHANGED <<status, owner, mapped, jobId, orphans, down>> /\ Idle(th)
    BY <1>4 DEF AddTaskCompletionCallback
  <2>. QED BY <1>1, <2>1, <2>2
<1>5. ASSUME Armed(th) PROVE JoinInv'
  <2>1. Does(th, IF down THEN {DoFor("fire", Arg(th))} ELSE {})
    BY <1>0, <1>5, SubmissionsDo
  <2>2. UNCHANGED <<status, owner, mapped, jobId, orphans, down>> /\ Head(todo[th]).op # "signals"
    BY <1>5, AtIsBusy DEF Armed
  <2>3. \A x \in IF down THEN {DoFor("fire", Arg(th))} ELSE {} : x.op # "finalize"
    BY OpOf
  <2>. QED BY <1>1, <2>1, <2>2, <2>3
<1>6. ASSUME FlushPendingLaunches(th) PROVE JoinInv'
  <2>1. Does(th, IF down THEN {} ELSE Each("register", staged))
    BY <1>0, <1>6, LaunchesDo
  <2>2. UNCHANGED <<status, owner, mapped, jobId, orphans, down>> /\ Head(todo[th]).op # "signals"
    BY <1>6, AtIsBusy DEF FlushPendingLaunches
  <2>3. \A x \in IF down THEN {} ELSE Each("register", staged) : x.op # "finalize"
    BY OpOf
  <2>. QED BY <1>1, <2>1, <2>2, <2>3
<1>7. ASSUME SubmitWithId(th) PROVE JoinInv'
  <2>1. Does(th, IF engineDown THEN {Record("record", Arg(th), "Cancelled")} ELSE {})
    BY <1>0, <1>7, LaunchesDo
  <2>2. UNCHANGED <<status, owner, mapped, jobId, orphans, down>> /\ Head(todo[th]).op # "signals"
    BY <1>7, AtIsBusy DEF SubmitWithId
  <2>3. \A x \in IF engineDown THEN {Record("record", Arg(th), "Cancelled")} ELSE {} : x.op # "finalize"
    BY OpOf
  <2>. QED BY <1>1, <2>1, <2>2, <2>3
<1>8. ASSUME Snapshot(th) PROVE JoinInv'
  <2>1. Does(th, {Record("record", Arg(th), job[Arg(th)])})
    BY <1>0, <1>8, LaunchesDo
  <2>2. UNCHANGED <<status, owner, mapped, jobId, orphans, down>> /\ Head(todo[th]).op # "signals"
    BY <1>8, AtIsBusy DEF Snapshot
  <2>3. \A x \in {Record("record", Arg(th), job[Arg(th)])} : x.op # "finalize"
    BY OpOf
  <2>. QED BY <1>1, <2>1, <2>2, <2>3
<1>9. ASSUME CancelJob(th) PROVE JoinInv'
  <2>. DEFINE S == IF job[Arg(th)] = "Queued" THEN {Record("record", Arg(th), "Cancelled")}
                   ELSE IF job[Arg(th)] # "Running" /\ At(th, "cancel")
                     THEN {DoFor("strand", TaskOf(Arg(th)))} ELSE {}
  <2>1. Does(th, S)
    BY <1>0, <1>9, CancelsDo
  <2>2. UNCHANGED <<status, owner, mapped, jobId, orphans, down>> /\ Head(todo[th]).op # "signals"
    BY <1>9, AtIsBusy DEF CancelJob
  <2>3. \A x \in S : x.op # "finalize"
    BY OpOf
  <2>. HIDE DEF S
  <2>. QED BY <1>1, <2>1, <2>2, <2>3
<1>10. ASSUME JoinWatchdog(th) \/ JoinWorkers(th) \/ ClearCallbacks(th) \/ FireTaskCompletionCallbacks(th)
       PROVE  JoinInv'
  <2>1. Does(th, {})
    BY <1>0, <1>10, ShutdownsDo
  <2>2. UNCHANGED <<status, owner, mapped, jobId, orphans, down>>
    BY <1>10 DEF JoinWatchdog, JoinWorkers, ClearCallbacks, FireTaskCompletionCallbacks
  <2>3. Head(todo[th]).op # "signals"
    BY <1>10, AtIsBusy DEF JoinWatchdog, JoinWorkers, ClearCallbacks, FireTaskCompletionCallbacks
  <2>. QED BY <1>1, <2>1, <2>2, <2>3
<1>11. ASSUME CancelAllForShutdown(th) PROVE JoinInv'
  <2>1. Does(th, Each("cancelTask", {t \in Tasks : Live(status, t)}))
    BY <1>0, <1>11, ShutdownsDo
  <2>2. UNCHANGED <<status, owner, mapped, jobId, orphans, down>> /\ Head(todo[th]).op # "signals"
    BY <1>11, AtIsBusy DEF CancelAllForShutdown
  <2>3. \A x \in Each("cancelTask", {t \in Tasks : Live(status, t)}) : x.op # "finalize"
    BY OpOf
  <2>. QED BY <1>1, <2>1, <2>2, <2>3
<1>12. ASSUME CloseEngine(th) PROVE JoinInv'
  <2>. DEFINE S == {Record("record", j, "Cancelled") : j \in {i \in Jobs : job[i] = "Queued"}}
  <2>1. Does(th, S)
    BY <1>0, <1>12, ShutdownsDo
  <2>2. UNCHANGED <<status, owner, mapped, jobId, orphans, down>> /\ Head(todo[th]).op # "signals"
    BY <1>12, AtIsBusy DEF CloseEngine
  <2>3. \A x \in S : x.op # "finalize"
    BY OpOf
  <2>. HIDE DEF S
  <2>. QED BY <1>1, <2>1, <2>2, <2>3
<1>13. ASSUME Shutdown(th) PROVE JoinInv'
  <2>1. Does(th, {Do(op) : op \in ShutdownSteps})
    BY <1>0, <1>13, ShutdownsDo
  <2>2. UNCHANGED <<status, owner, mapped, jobId, orphans>> /\ down' /\ Idle(th)
    BY <1>13 DEF Shutdown, Call
  <2>. QED BY <1>1, <2>1, <2>2
<1>. QED BY <1>2, <1>3, <1>4, <1>5, <1>6, <1>7, <1>8, <1>9, <1>10, <1>11, <1>12, <1>13

LEMMA RecordsJoin ==
  ASSUME Onward, JoinInv, OneJob, NEW th \in Threads
  PROVE  /\ Register(th) => JoinInv'
         /\ OnJobRecord(th) => JoinInv'
         /\ Forget(th) => JoinInv'
         /\ ProcessJobRecord(th) => JoinInv'
<1>. DEFINE j == Arg(th)
            t == TaskOf(j)
<1>0. /\ status \in [Tasks -> Statuses] /\ jobId \in [Tasks -> Jobs \cup {NoJob}]
      /\ owner \in [Tasks -> Tasks \cup {NoTask}]
      /\ \A i \in mapped : i \in Jobs /\ TaskOf(i) \in Tasks /\ jobId[TaskOf(i)] = i
                           /\ (down \/ Live(status, TaskOf(i)))
      /\ \A i \in mapped : j \in Jobs /\ TaskOf(i) = t => i = j
  BY FiniteTasks, JobsAreTasks DEF Onward, LifeInv, TypeInv, JoinInv, MapInv, OwnersInv
<1>1. ASSUME NEW op \in JobOps, At(th, op) PROVE j \in Jobs /\ t \in Tasks /\ Head(todo[th]).op = op
  BY <1>1, HeadFacts, AtIsBusy DEF Onward
<1>. HIDE DEF t
<1>2. ASSUME NEW u \in Tasks, UNCHANGED <<status, owner, orphans>> PROVE Join
  BY <1>0, <1>2, NobodyEnds DEF Statuses, ReadyLike, Final
<1>3. ASSUME Register(th) PROVE JoinInv'
  <2>. DEFINE S == IF Live(status, t) THEN {DoFor("submit", j), DoFor("link", j)} ELSE {}
  <2>1. j \in Jobs /\ t \in Tasks /\ Head(todo[th]).op # "signals"
    BY <1>1, <1>3, Ops DEF Register
  <2>2. Does(th, S) /\ \A x \in S : x.op # "finalize"
    <3>1. Does(th, S)
      BY <1>3, LaunchesDo DEF Onward, t
    <3>2. \A x \in S : x.op # "finalize"
      BY OpOf
    <3>. QED BY <3>1, <3>2
  <2>3. UNCHANGED <<status, owner, orphans, down>>
    BY <1>3 DEF Register
  <2>4. /\ Live(status, t) => mapped' \subseteq mapped \cup {j} /\ jobId' = [jobId EXCEPT ![t] = j]
        /\ ~ Live(status, t) => mapped' = mapped /\ jobId' = jobId
    BY <1>3 DEF Register, t
  <2>. HIDE DEF S
  <2>5. MapInv'
    <3>1. ASSUME NEW i \in mapped' PROVE i \in Jobs /\ jobId'[TaskOf(i)] = i /\ (down' \/ Live(status', TaskOf(i)))
      BY <1>0, <2>1, <2>3, <2>4 DEF Live, t
    <3>. QED BY <3>1 DEF MapInv, Live
  <2>6. Join
    BY <1>2, <2>1, <2>3
  <2>. QED BY <2>1, <2>2, <2>3, <2>5, <2>6, JoinStep
<1>4. ASSUME OnJobRecord(th) PROVE JoinInv'
  <2>. DEFINE S == IF j \in mapped \/ Recovers(j) THEN {Record("process", j, State(th))} ELSE {}
  <2>1. j \in Jobs /\ t \in Tasks /\ Head(todo[th]).op # "signals"
    BY <1>1, <1>4, Ops DEF OnJobRecord
  <2>2. Does(th, S) /\ \A x \in S : x.op # "finalize"
    <3>1. Does(th, S)
      BY <1>4, LaunchesDo DEF Onward
    <3>2. \A x \in S : x.op # "finalize"
      BY OpOf
    <3>. QED BY <3>1, <3>2
  <2>3. UNCHANGED <<status, owner, orphans, down>>
    BY <1>4 DEF OnJobRecord
  <2>4. \/ mapped' = mapped \cup {j} /\ jobId' = [jobId EXCEPT ![t] = j] /\ Live(status, t)
        \/ mapped' = mapped /\ jobId' = jobId
    BY <1>4 DEF OnJobRecord, Recovers, t
  <2>. HIDE DEF S
  <2>5. MapInv'
    <3>1. ASSUME NEW i \in mapped' PROVE i \in Jobs /\ jobId'[TaskOf(i)] = i /\ (down' \/ Live(status', TaskOf(i)))
      BY <1>0, <2>1, <2>3, <2>4 DEF Live, t
    <3>. QED BY <3>1 DEF MapInv, Live
  <2>6. Join
    BY <1>2, <2>1, <2>3
  <2>. QED BY <2>1, <2>2, <2>3, <2>5, <2>6, JoinStep
<1>5. ASSUME Forget(th) PROVE JoinInv'
  <2>1. t \in Tasks /\ Head(todo[th]).op # "signals"
    BY <1>1, <1>5, Ops DEF Forget
  <2>2. Does(th, {})
    BY <1>5, LaunchesDo DEF Onward
  <2>3. UNCHANGED <<status, owner, orphans, down, jobId>> /\ mapped' \subseteq mapped
    BY <1>5 DEF Forget
  <2>5. MapInv'
    BY <2>3 DEF JoinInv, MapInv, Live
  <2>6. Join
    BY <1>2, <2>1, <2>3
  <2>. QED BY <2>1, <2>2, <2>3, <2>5, <2>6, JoinStep
<1>6. ASSUME ProcessJobRecord(th) PROVE JoinInv'
  <2>. DEFINE S == IF State(th) \in JobEnds /\ Live(status, t)
                   THEN {Record("mark", j, State(th)), DoFor("forget", j)} ELSE {}
  <2>1. j \in Jobs /\ t \in Tasks /\ Head(todo[th]).op # "signals"
    BY <1>1, <1>6, Ops DEF ProcessJobRecord
  <2>2. Does(th, S) /\ \A x \in S : x.op # "finalize"
    <3>1. Does(th, S)
      BY <1>6, LaunchesDo DEF Onward, t
    <3>2. \A x \in S : x.op # "finalize"
      BY OpOf
    <3>. QED BY <3>1, <3>2
  <2>3. UNCHANGED <<owner, orphans, down, jobId, mapped>>
    BY <1>6 DEF ProcessJobRecord
  <2>4. status' = status \/ (status' = [status EXCEPT ![t] = "Running"] /\ Started(t))
    BY <1>6 DEF ProcessJobRecord, t
  <2>. HIDE DEF S
  <2>5. \A u \in Tasks : /\ Live(status, u) => Live(status', u)
                         /\ status'[u] = "Absent" => status[u] = "Absent"
    BY <1>0, <2>1, <2>4 DEF Live, Final
  <2>6. MapInv'
    BY <1>0, <2>3, <2>5 DEF MapInv, Live
  <2>7. Join
    <3>1. "Running" \in Statuses \ Final
      BY DEF Statuses, ActiveStates, Final
    <3>. QED BY <1>0, <2>1, <2>3, <2>4, <3>1, NobodyEnds
  <2>. QED BY <2>1, <2>2, <2>3, <2>5, <2>6, <2>7, JoinStep
<1>. QED BY <1>3, <1>4, <1>5, <1>6

LEMMA EndsJoin ==
  ASSUME Onward, JoinInv, OneJob, NEW th \in Threads
  PROVE  /\ Link(th) => JoinInv'
         /\ Strand(th) => JoinInv'
         /\ Finalize(th) => JoinInv'
<1>0. /\ status \in [Tasks -> Statuses] /\ jobId \in [Tasks -> Jobs \cup {NoJob}]
      /\ owner \in [Tasks -> Tasks \cup {NoTask}]
      /\ \A i \in mapped : i \in Jobs /\ TaskOf(i) \in Tasks /\ jobId[TaskOf(i)] = i /\ i # NoJob
                           /\ (down \/ Live(status, TaskOf(i)))
  BY FiniteTasks DEF Onward, LifeInv, TypeInv, JoinInv, MapInv, OwnersInv
<1>1. Join /\ UNCHANGED status => orphans' = orphans
  BY DEF Join, Live
<1>2. ASSUME Link(th) PROVE JoinInv'
  <2>. DEFINE j == Arg(th)
              t == TaskOf(j)
              S == IF status[t] = "Cancelling" THEN {DoFor("stop", j), Do("signals"), DoFor("fire", t)}
                   ELSE IF status[t] = "Canceled" THEN {DoFor("stop", j)} ELSE {DoFor("snapshot", j)}
  <2>1. j \in Jobs /\ t \in Tasks /\ Head(todo[th]).op # "signals"
    BY <1>2, HeadFacts, AtIsBusy, Ops DEF Onward, Link
  <2>2. Does(th, S)
    BY <1>2, LaunchesDo DEF Onward
  <2>3. (\A x \in S : x.op # "finalize") /\ (status[t] = "Cancelling" => Do("signals") \in S)
    BY OpOf
  <2>4. Join /\ UNCHANGED <<owner, down>>
    BY <1>2 DEF Link
  <2>5. \A i \in mapped : TaskOf(i) = t => i = j
    BY <1>0, <2>1, JobsAreTasks
  <2>6. \/ /\ status[t] \in {"Canceled", "Cancelling"}
           /\ status' = [status EXCEPT ![t] = "Canceled"] /\ mapped' = mapped \ {j} /\ jobId' = jobId
        \/ /\ status[t] \notin {"Canceled", "Cancelling"}
           /\ status' = status /\ mapped' = mapped /\ jobId' = [jobId EXCEPT ![t] = j]
    BY <1>2 DEF Link, Overtaken
  <2>. HIDE DEF S, t
  <2>7. MapInv'
    <3>1. ASSUME NEW i \in mapped' PROVE i \in Jobs /\ jobId'[TaskOf(i)] = i /\ (down' \/ Live(status', TaskOf(i)))
      <4>1. CASE status[t] \in {"Canceled", "Cancelling"}
        <5>1. i \in mapped /\ TaskOf(i) # t /\ jobId' = jobId /\ status'[TaskOf(i)] = status[TaskOf(i)]
          BY <1>0, <2>5, <2>6, <3>1, <4>1
        <5>. QED BY <1>0, <2>4, <5>1 DEF Live
      <4>2. CASE status[t] \notin {"Canceled", "Cancelling"}
        <5>1. i \in mapped /\ status' = status /\ jobId'[TaskOf(i)] = i
          BY <1>0, <2>1, <2>5, <2>6, <3>1, <4>2
        <5>. QED BY <1>0, <2>4, <5>1 DEF Live
      <4>. QED BY <4>1, <4>2
    <3>. QED BY <3>1 DEF MapInv, Live
  <2>8. \A u \in Tasks : status'[u] = "Absent" => status[u] = "Absent"
    BY <1>0, <2>1, <2>6
  <2>9. status[t] # "Cancelling" => status' = status
    BY <1>0, <2>1, <2>6
  <2>. QED BY <1>1, <2>1, <2>2, <2>3, <2>4, <2>7, <2>8, <2>9, JoinStep
<1>3. ASSUME Strand(th) PROVE JoinInv'
  <2>. DEFINE t == Arg(th)
              S == IF status[t] = "Cancelling" THEN {Do("signals"), DoFor("fire", t)} ELSE {}
  <2>1. t \in Tasks /\ Head(todo[th]).op # "signals"
    BY <1>3, HeadFacts, AtIsBusy, Ops DEF Onward, Strand
  <2>2. Does(th, S)
    BY <1>3, CancelsDo DEF Onward
  <2>3. (\A x \in S : x.op # "finalize") /\ (status[t] = "Cancelling" => Do("signals") \in S)
    BY OpOf
  <2>4. Join /\ UNCHANGED <<owner, down>>
    BY <1>3 DEF Strand
  <2>5. \/ /\ status[t] = "Cancelling" /\ status' = [status EXCEPT ![t] = "Canceled"]
           /\ mapped' = mapped \ OwnJob(t) /\ jobId' = [jobId EXCEPT ![t] = NoJob]
        \/ status[t] # "Cancelling" /\ UNCHANGED <<status, mapped, jobId>>
    BY <1>3 DEF Strand
  <2>. HIDE DEF S, t
  <2>6. MapInv'
    <3>1. ASSUME NEW i \in mapped' PROVE i \in Jobs /\ jobId'[TaskOf(i)] = i /\ (down' \/ Live(status', TaskOf(i)))
      <4>1. CASE status[t] = "Cancelling"
        <5>1. i \in mapped /\ TaskOf(i) # t
          BY <1>0, <2>5, <3>1, <4>1 DEF OwnJob
        <5>2. jobId'[TaskOf(i)] = jobId[TaskOf(i)] /\ status'[TaskOf(i)] = status[TaskOf(i)]
          BY <1>0, <2>5, <4>1, <5>1
        <5>. QED BY <1>0, <2>4, <5>1, <5>2 DEF Live
      <4>2. CASE status[t] # "Cancelling"
        BY <1>0, <2>4, <2>5, <3>1, <4>2 DEF Live
      <4>. QED BY <4>1, <4>2
    <3>. QED BY <3>1 DEF MapInv, Live
  <2>8. \A u \in Tasks : status'[u] = "Absent" => status[u] = "Absent"
    BY <1>0, <2>1, <2>5
  <2>9. status[t] # "Cancelling" => status' = status
    BY <2>5
  <2>. QED BY <1>1, <2>1, <2>2, <2>3, <2>4, <2>6, <2>8, <2>9, JoinStep
<1>4. ASSUME Finalize(th) PROVE JoinInv'
  <2>. DEFINE left == {t \in Tasks : Live(status, t)}
              S == {Do("signals"), Do("clear")} \cup Each("fire", left)
  <2>1. Head(todo[th]).op = "finalize" /\ Head(todo[th]) \in ToSet(todo[th])
    BY <1>4, HeadFacts, AtIsBusy DEF Onward, Finalize
  <2>2. down
    <3>1. Head(todo[th]) = Do("finalize")
      <4>1. Head(todo[th]) \in StepType
        BY <2>1, Entries DEF Onward, LifeInv, TypeInv
      <4>. QED BY <2>1, <4>1 DEF StepType, JobOps, TaskOps, OtherOps, Do
    <3>2. Pending(Do("finalize"))
      BY <2>1, <3>1 DEF Pending
    <3>. QED BY <3>2 DEF JoinInv
  <2>3. Does(th, S)
    BY <1>4, ShutdownsDo DEF Onward
  <2>4. (\A x \in S : x.op # "finalize") /\ Do("signals") \in S
    BY OpOf
  <2>5. Join /\ UNCHANGED <<owner, down, mapped, jobId>>
    BY <1>4 DEF Finalize
  <2>6. status' = [t \in Tasks |-> IF t \in left THEN "Canceled" ELSE status[t]]
    BY <1>4 DEF Finalize
  <2>. HIDE DEF S
  <2>7. MapInv'
    BY <1>0, <2>2, <2>5 DEF MapInv
  <2>8. \A u \in Tasks : status'[u] = "Absent" => status[u] = "Absent"
    BY <2>6 DEF Live
  <2>. QED BY <2>2, <2>3, <2>4, <2>5, <2>7, <2>8, JoinStep
<1>. QED BY <1>2, <1>3, <1>4

LEMMA EnforcesJoin ==
  ASSUME Onward, JoinInv, EnforceCancelDeadlines
  PROVE  JoinInv'
<1>0. /\ jobId \in [Tasks -> Jobs \cup {NoJob}] /\ Watchdog \in Threads
      /\ \A i \in mapped : i \in Jobs /\ TaskOf(i) \in Tasks /\ jobId[TaskOf(i)] = i
                           /\ (down \/ Live(status, TaskOf(i)))
  BY FiniteTasks DEF Onward, LifeInv, TypeInv, JoinInv, MapInv, Threads
<1>1. PICK late \in (SUBSET {t \in Tasks : status[t] = "Cancelling"}) \ {{}} :
           /\ ~ down
           /\ status' = [t \in Tasks |-> IF t \in late THEN "Canceled" ELSE status[t]]
           /\ mapped' = mapped \ Detached(late)
           /\ Join
           /\ Idle(Watchdog) /\ Does(Watchdog, {Do("signals")} \cup Each("fire", late))
           /\ UNCHANGED <<auto, jobId, attempts, graphVars, admissionVars, callback, down, engineVars>>
  BY EnforcesDo DEF Onward
<1>2. UNCHANGED <<owner, down, jobId>>
  BY <1>1
<1>3. MapInv'
  <2>1. ASSUME NEW i \in mapped' PROVE i \in Jobs /\ jobId'[TaskOf(i)] = i /\ (down' \/ Live(status', TaskOf(i)))
    <3>1. i \in mapped /\ TaskOf(i) \notin late
      BY <1>0, <1>1, <2>1 DEF Detached
    <3>2. status'[TaskOf(i)] = status[TaskOf(i)]
      BY <1>0, <1>1, <3>1
    <3>. QED BY <1>0, <1>2, <3>1, <3>2 DEF Live
  <2>. QED BY <2>1 DEF MapInv, Live
<1>4. \A u \in Tasks : status'[u] = "Absent" => status[u] = "Absent"
  BY <1>1
<1>. DEFINE S == {Do("signals")} \cup Each("fire", late)
<1>5. Does(Watchdog, S) /\ Join
  BY <1>1
<1>6. Do("signals") \in S /\ \A x \in S : x.op # "finalize"
  BY OpOf
<1>. HIDE DEF S
<1>. QED BY <1>0, <1>2, <1>3, <1>4, <1>5, <1>6, JoinStep

LEMMA FlushesJoin ==
  ASSUME Onward, JoinInv, NEW th \in Threads, FlushOwnedCancels(th)
  PROVE  JoinInv'
<1>. DEFINE targets == orphans \cup UNION {Descendants(status, c) : c \in orphans}
            s == Cascade(status, targets)
            S == IF orphans = {} THEN {}
                 ELSE Each("cancel", JobsToCancel(status, targets))
                        \cup Each("fire", CanceledAtOnce(status, targets)) \cup {Do("signals")}
<1>0. /\ jobId \in [Tasks -> Jobs \cup {NoJob}]
      /\ owner \in [Tasks -> Tasks \cup {NoTask}]
      /\ \A i \in mapped : i \in Jobs /\ TaskOf(i) \in Tasks /\ jobId[TaskOf(i)] = i /\ i # NoJob
                           /\ (down \/ Live(status, TaskOf(i)))
  BY FiniteTasks DEF Onward, LifeInv, TypeInv, JoinInv, MapInv, OwnersInv
<1>1. Does(th, S)
  BY CancelsDo DEF Onward
<1>2. (\A x \in S : x.op # "finalize") /\ (orphans # {} => Do("signals") \in S)
  BY OpOf
<1>3. UNCHANGED <<owner, jobId, mapped, down>>
  BY DEF FlushOwnedCancels
<1>4. /\ orphans = {} => UNCHANGED <<status, orphans>>
      /\ orphans # {} =>
           /\ status' = s
           /\ orphans' = {c \in Tasks : /\ Live(status, c) /\ owner[c] # NoTask
                                        /\ Live(status, owner[c]) /\ s[owner[c]] \in Final}
  BY DEF FlushOwnedCancels
<1>. HIDE DEF S
<1>5. CASE orphans = {}
  <2>1. MapInv' /\ OwnersInv' /\ orphans' = {}
    BY <1>3, <1>4, <1>5 DEF JoinInv, MapInv, OwnersInv, Live
  <2>. QED BY <1>1, <1>2, <1>3, <2>1, JoinedStep
<1>6. CASE orphans # {}
  <2>1. orphans \subseteq targets
    OBVIOUS
  <2>. HIDE DEF targets
  <2>2. \A t \in Tasks :
           /\ jobId[t] # NoJob /\ Live(status, t) => Live(s, t)
           /\ ~ Live(status, t) => s[t] = status[t]
           /\ Live(s, t) /\ t \in targets => s[t] = "Cancelling"
           /\ s[t] = "Absent" => status[t] = "Absent"
    BY CascadeLives
  <2>. HIDE DEF s
  <2>3. MapInv'
    <3>1. \A t \in Tasks : jobId[t] # NoJob /\ Live(status, t) => Live(status', t)
      BY <1>4, <1>6, <2>2
    <3>2. \A i \in mapped : i \in Jobs /\ jobId'[TaskOf(i)] = i /\ (down' \/ Live(status', TaskOf(i)))
      BY <1>0, <1>3, <3>1
    <3>. QED BY <1>3, <3>2 DEF MapInv, Live
  <2>4. \A t \in Tasks : status[t] = "Cancelling" => status'[t] \in Final \cup {"Cancelling"}
    BY DEF Onward, OneWayStep
  <2>5. ASSUME NEW c \in Tasks, Live(status', c), owner[c] # NoTask
        PROVE  Live(status', owner[c]) \/ status'[c] = "Cancelling" \/ c \in orphans'
    <3>1. owner[c] \in Tasks /\ Live(status, c)
      BY <1>0, <1>4, <1>6, <2>2, <2>5 DEF Live
    <3>2. CASE Live(status, owner[c])
      <4>1. s[owner[c]] \in Final => c \in orphans'
        BY <1>4, <1>6, <2>5, <3>1, <3>2
      <4>2. s[owner[c]] # "Absent"
        BY <2>2, <3>1, <3>2 DEF Live
      <4>. QED BY <1>4, <1>6, <4>1, <4>2 DEF Live
    <3>3. CASE status[c] = "Cancelling"
      BY <2>4, <2>5, <3>3 DEF Live
    <3>4. CASE c \in orphans
      BY <1>4, <1>6, <2>1, <2>2, <2>5, <3>4 DEF Live
    <3>. QED BY <2>5, <3>1, <3>2, <3>3, <3>4 DEF JoinInv, OwnersInv
  <2>6. OwnersInv'
    <3>1. \A t \in Tasks : status'[t] = "Absent" => owner'[t] = NoTask
      BY <1>3, <1>4, <1>6, <2>2 DEF JoinInv, OwnersInv
    <3>. QED BY <1>0, <1>3, <2>5, <3>1 DEF OwnersInv
  <2>7. orphans' \subseteq Tasks
    BY <1>4, <1>6
  <2>. QED BY <1>1, <1>2, <1>3, <1>6, <2>3, <2>6, <2>7, JoinedStep
<1>. QED BY <1>5, <1>6

LEMMA EnqueueJoins ==
  ASSUME Onward, JoinInv, NEW th \in Threads, NEW t \in Tasks, NEW how, NEW S,
         status[t] = "Absent", Enqueue(th, t, how), Does(th, S),
         Do("signals") \in S, \A x \in S : x.op # "finalize"
  PROVE  JoinInv'
<1>. DEFINE s == Set(t, "Queued")
            queued == IF IsLaunchCandidate(s, t) THEN ready \cup {t} ELSE ready
<1>0. /\ status \in [Tasks -> Statuses] /\ ready \subseteq Tasks
      /\ owner \in [Tasks -> Tasks \cup {NoTask}]
      /\ \A i \in mapped : i \in Jobs /\ TaskOf(i) \in Tasks /\ jobId[TaskOf(i)] = i /\ i # NoJob
                           /\ (down \/ Live(status, TaskOf(i)))
  BY FiniteTasks DEF Onward, LifeInv, TypeInv, JoinInv, MapInv, OwnersInv
<1>1. /\ PassBefore(rearm, s, queued) /\ Join /\ ~ down
      /\ owner' = [owner EXCEPT ![t] = IF th \in mapped THEN TaskOf(th) ELSE NoTask]
  BY DEF Enqueue, Pass, Refuses
<1>2. jobId' = jobId /\ mapped' = mapped /\ down' = down
  BY DEF Enqueue
<1>3. \A u \in Tasks : s[u] = IF u = t THEN "Queued" ELSE status[u]
  BY <1>0 DEF Set
<1>4. s \in [Tasks -> Statuses] /\ queued \in SUBSET Tasks
  BY <1>0 DEF Set, Statuses, ReadyLike
<1>. HIDE DEF s, queued
<1>5. \A u \in Tasks : /\ status'[u] = "Absent" => s[u] = "Absent"
                       /\ Live(s, u) /\ jobId'[u] # NoJob => Live(status', u)
  BY <1>1, <1>4, PassLives
<1>6. \A i \in mapped : Live(status', TaskOf(i))
  <2>1. ASSUME NEW i \in mapped PROVE Live(status', TaskOf(i))
    <3>1. Live(s, TaskOf(i)) /\ jobId'[TaskOf(i)] # NoJob /\ TaskOf(i) \in Tasks
      BY <1>0, <1>1, <1>2, <1>3 DEF Live
    <3>. QED BY <1>5, <3>1
  <2>. QED BY <2>1
<1>7. MapInv'
  BY <1>0, <1>2, <1>6 DEF MapInv, Live
<1>8. \A c \in Tasks : owner'[c] = owner[c] \/ owner'[c] = NoTask \/ Live(status', owner'[c])
  <2>1. \A c \in Tasks : owner'[c] = IF c # t THEN owner[c] ELSE IF th \in mapped THEN TaskOf(th) ELSE NoTask
    BY <1>0, <1>1
  <2>. QED BY <1>6, <2>1
<1>9. owner' \in [Tasks -> Tasks \cup {NoTask}]
  BY <1>0, <1>1
<1>10. \A u \in Tasks : status'[u] = "Absent" => status[u] = "Absent" /\ owner'[u] = owner[u]
  <2>1. \A u \in Tasks : u # t => owner'[u] = owner[u]
    BY <1>0, <1>1
  <2>. QED BY <1>3, <1>5, <2>1
<1>11. OwnersInv'
  BY <1>1, <1>8, <1>9, <1>10, OwnersStep DEF JoinInv
<1>12. orphans' \subseteq Tasks
  BY <1>1 DEF Join, JoinInv
<1>. QED BY <1>2, <1>7, <1>11, <1>12, JoinedStep

LEMMA SubmissionsJoin ==
  ASSUME Onward, JoinInv, NEW th \in Threads
  PROVE  /\ \A t \in Tasks : SubmitJob(th, t) => JoinInv'
         /\ Resubmit(th) => JoinInv'
<1>1. \A x : /\ Do("signals") \in Flushes \cup {DoFor("arm", x)} /\ Do("signals") \in Flushes
             /\ \A y \in Flushes \cup {DoFor("arm", x)} : y.op # "finalize"
  <2>1. \A x : DoFor("arm", x).op = "arm"
    BY OpOf
  <2>. QED BY <2>1, OpOf DEF Flushes
<1>2. ASSUME NEW t \in Tasks, SubmitJob(th, t) PROVE JoinInv'
  <2>1. status[t] = "Absent" /\ Enqueue(th, t, "manual")
    BY <1>2 DEF SubmitJob, Fresh
  <2>2. Does(th, Flushes \cup {DoFor("arm", t)})
    BY <1>2, SubmissionsDo DEF Onward
  <2>. QED BY <1>1, <2>1, <2>2, EnqueueJoins
<1>3. ASSUME Resubmit(th) PROVE JoinInv'
  <2>. DEFINE t == Arg(th)
  <2>1. At(th, "resubmit")
    BY <1>3 DEF Resubmit
  <2>2. t \in Tasks /\ status[t] = "Absent" /\ Head(todo[th]).op # "signals"
    <3>1. t \in Tasks /\ \A u \in Newcomers(Head(todo[th])) : status[u] = "Absent"
      BY <2>1, HeadFacts, Ops DEF Onward
    <3>2. Newcomers(Head(todo[th])) = {t} /\ Head(todo[th]).op # "signals"
      BY <2>1 DEF Newcomers, At, Arg
    <3>. QED BY <3>1, <3>2
  <2>3. \/ Does(th, {}) /\ UNCHANGED <<taskVars, callback, down, engineVars>>
        \/ Enqueue(th, t, "manual") /\ Does(th, Flushes \cup {DoFor("arm", t)})
        \/ Enqueue(th, t, "auto") /\ Does(th, Flushes)
    BY <1>3, SubmissionsDo DEF Onward
  <2>4. ASSUME Does(th, {}), UNCHANGED <<taskVars, callback, down, engineVars>> PROVE JoinInv'
    BY <2>2, <2>4, QuietJoin
  <2>. HIDE DEF t
  <2>5. ASSUME Enqueue(th, t, "manual"), Does(th, Flushes \cup {DoFor("arm", t)}) PROVE JoinInv'
    BY <1>1, <2>2, <2>5, EnqueueJoins
  <2>6. ASSUME Enqueue(th, t, "auto"), Does(th, Flushes) PROVE JoinInv'
    <3>1. Do("signals") \in Flushes /\ \A y \in Flushes : y.op # "finalize"
      BY <1>1
    <3>. QED BY <2>2, <2>6, <3>1, EnqueueJoins
  <2>. QED BY <2>3, <2>4, <2>5, <2>6
<1>. QED BY <1>2, <1>3

LEMMA CancelsJoin ==
  ASSUME Onward, JoinInv, NEW th \in Threads
  PROVE  /\ \A t \in Tasks : CancelTask(th, t) => JoinInv'
         /\ CancelForShutdown(th) => JoinInv'
<1>1. ASSUME NEW t \in Tasks, CancelTask(th, t) PROVE JoinInv'
  <2>1. CancelLocked(t) /\ Does(th, CancelDoes(status, {t} \cup Descendants(status, t)))
    BY <1>1, CancelsDo DEF Onward, CancelTask
  <2>. QED BY <2>1, CancelLockedJoins
<1>2. ASSUME CancelForShutdown(th) PROVE JoinInv'
  <2>. DEFINE t == Arg(th)
  <2>1. Does(th, IF Live(status, t) THEN CancelDoes(status, {t} \cup Descendants(status, t)) ELSE {})
    BY <1>2, CancelsDo DEF Onward
  <2>2. CASE Live(status, t)
    <3>1. CancelLocked(t)
      BY <1>2, <2>2 DEF CancelForShutdown
    <3>. QED BY <2>1, <2>2, <3>1, CancelLockedJoins
  <2>3. CASE ~ Live(status, t)
    <3>1. UNCHANGED <<status, owner, mapped, jobId, orphans, down>> /\ Head(todo[th]).op # "signals"
      BY <1>2, <2>3, AtIsBusy DEF CancelForShutdown
    <3>. QED BY <2>1, <2>3, <3>1, QuietJoin
  <2>. QED BY <2>2, <2>3
<1>. QED BY <1>1, <1>2

LEMMA EnginesJoin ==
  ASSUME Onward, JoinInv, NEW j \in Jobs
  PROVE  /\ JobStarts(j) => JoinInv'
         /\ \A end \in JobEnds : JobEndsAs(j, end) => JoinInv'
<1>0. j \in Threads
  BY DEF Threads
<1>1. ASSUME JobStarts(j) PROVE JoinInv'
  <2>1. Does(j, {Record("record", j, "Running")})
    BY <1>1, EnginesDo DEF Onward
  <2>2. UNCHANGED <<status, owner, mapped, jobId, orphans, down>> /\ Idle(j)
    BY <1>1 DEF JobStarts, Call
  <2>3. \A x \in {Record("record", j, "Running")} : x.op # "finalize"
    BY OpOf
  <2>. QED BY <1>0, <2>1, <2>2, <2>3, QuietJoin
<1>2. ASSUME NEW end \in JobEnds, JobEndsAs(j, end) PROVE JoinInv'
  <2>1. Does(j, {Record("record", j, end)})
    BY <1>2, EnginesDo DEF Onward
  <2>2. UNCHANGED <<status, owner, mapped, jobId, orphans, down>> /\ Idle(j)
    BY <1>2 DEF JobEndsAs, Call
  <2>3. \A x \in {Record("record", j, end)} : x.op # "finalize"
    BY OpOf
  <2>. QED BY <1>0, <2>1, <2>2, <2>3, QuietJoin
<1>. QED BY <1>1, <1>2

LEMMA JoinInit == Init => JoinInv
<1>. SUFFICES ASSUME Init PROVE JoinInv
  OBVIOUS
<1>1. MapInv /\ OwnersInv /\ orphans = {}
  BY DEF Init, MapInv, OwnersInv, Live
<1>2. \A x : ~ Pending(x)
  BY DEF Init, Pending, ToSet
<1>. QED BY <1>1, <1>2 DEF JoinInv

LEMMA JoinNext == OneJob /\ LifeInv /\ LifeInv' /\ JoinInv /\ [Next]_vars => JoinInv'
<1>. SUFFICES ASSUME OneJob, LifeInv, LifeInv', JoinInv, [Next]_vars PROVE JoinInv'
  OBVIOUS
<1>1. CASE UNCHANGED vars
  <2>1. MapInv' /\ OwnersInv'
    BY <1>1 DEF JoinInv, MapInv, OwnersInv, Live
  <2>2. \A x : Pending(x)' <=> Pending(x)
    BY <1>1 DEF Pending
  <2>. QED BY <1>1, <2>1, <2>2 DEF JoinInv
<1>2. CASE Next
  <2>0. Onward
    <3>1. OneWayStep \/ UNCHANGED vars
      BY LifeNext
    <3>2. UNCHANGED vars => OneWayStep
      BY DEF OneWayStep
    <3>. QED BY <3>1, <3>2 DEF Onward
  <2>1. ASSUME NEW u \in Callers, Calls(u) PROVE JoinInv'
    <3>1. u \in Threads
      BY DEF Threads
    <3>. QED BY <2>0, <2>1, <3>1, QuietsJoin, PassesJoin, SubmissionsJoin, CancelsJoin DEF Calls
  <2>2. ASSUME NEW th \in Threads, ThreadStep(th) PROVE JoinInv'
    BY <2>0, <2>2, QuietsJoin, PassesJoin, SubmissionsJoin, CancelsJoin, RecordsJoin, EndsJoin,
       FlushesJoin, MarkJoins DEF ThreadStep
  <2>3. ASSUME NEW j \in Jobs, JobStarts(j) \/ \E end \in JobEnds : JobEndsAs(j, end) PROVE JoinInv'
    BY <2>0, <2>3, EnginesJoin
  <2>4. ASSUME NEW j \in Jobs, NEW t \in Tasks, SubmitJob(j, t) PROVE JoinInv'
    <3>1. j \in Threads
      BY DEF Threads
    <3>. QED BY <2>0, <2>4, <3>1, SubmissionsJoin
  <2>. QED BY <1>2, <2>0, <2>1, <2>2, <2>3, <2>4, EnforcesJoin DEF Next
<1>. QED BY <1>1, <1>2

(* Structured ownership: without auto-retry a task that a task submitted   *)
(* from its body ends with it, is being cancelled, or is staged for a      *)
(* flushOwnedCancels() to come, whoever submits, cancels, retries and      *)
(* shuts down meanwhile. (With it, the launch of an attempt that is over   *)
(* overwrites the job of the next one in registerLaunchedJob().)           *)
THEOREM ChildrenGoWithTheirOwner ==
  ASSUME MaxAutoRetries = 0
  PROVE  Spec => []JoinRule
<1>0. OneJob
  BY DEF OneJob
<1>1. JoinInv => JoinRule
  BY PendingIsOnTodo DEF JoinInv, OwnersInv, JoinRule
<1>2. LifeInv /\ JoinInv /\ [Next]_vars => LifeInv' /\ JoinInv'
  BY <1>0, LifeNext, JoinNext
<1>. QED BY <1>1, <1>2, LifeInit, JoinInit, PTL DEF Spec

-----------------------------------------------------------------------------
(* What shutdown() leaves behind, while nobody else calls.                 *)

OneCaller == \A u, v \in Callers : u = v

Close == Do("closeEngine")
Workers == Do("joinWorkers")

ShutdownOps == {"joinWatchdog", "closeEngine", "joinWorkers", "finalize", "clear"}
LastOps == {"finalize", "clear"}

\* in the call of the one caller closeEngine stands before joinWorkers, and
\* what comes after them at the end
OrderInv ==
  /\ \A th \in Threads : \A x \in ToSet(todo[th]) : x.op \in ShutdownOps => th \in Callers
  /\ \A th \in Threads : \A m, n \in 1 .. Len(todo[th]) :
       m < n => /\ todo[th][m] = Workers => todo[th][n] # Close
                /\ todo[th][m].op \notin LastOps

NobodyEnters == \A th \in Threads : \A x \in ToSet(todo[th]) : x.op # "enterPipeline"
NoJobLeft(states) == \A j \in Jobs : job[j] \notin states
NoTaskLeft == \A t \in Tasks : ~ Live(status, t)
NobodyWaits == \A t \in Tasks : callback[t] # "waits"
WorkersIdle == \A j \in Jobs : Idle(j)

ShutInv ==
  /\ OrderInv
  /\ down => NobodyEnters
  /\ engineDown => NoJobLeft({"Queued"})
  /\ down /\ ~ Pending(Close) => engineDown
  /\ down /\ ~ Pending(Workers) => engineDown /\ NoJobLeft({"Running"}) /\ WorkersIdle
  /\ down /\ ~ Pending(Do("joinWatchdog")) => Idle(Watchdog)
  /\ down /\ ~ Pending(Do("finalize")) => NoTaskLeft
  /\ down /\ ~ Pending(Do("finalize")) /\ ~ Pending(Do("clear")) => NobodyWaits

LEMMA TakesInOrder ==
  ASSUME TypeInv, OrderInv, NEW th \in Threads, NEW S, Does(th, S),
         \A x \in S : x.op \notin ShutdownOps
  PROVE  OrderInv'
<1>1. PICK steps : Of(steps, S) /\ TakesUp(th, steps)
  BY DEF Does
<1>2. /\ steps \in Seq(StepType) /\ todo'[th] = steps \o Behind(th)
      /\ \A u \in Threads \ {th} : todo'[u] = todo[u]
      /\ ToSet(todo'[th]) = S \cup ToSet(Behind(th))
  BY <1>1, TakesPending DEF Of
<1>. DEFINE s == todo[th]
            b == Behind(th)
            q == todo'[th]
            Before(x, y) == (x = Workers => y # Close) /\ x.op \notin LastOps
<1>4. /\ ToSet(b) \subseteq ToSet(s) /\ Len(b) \in Nat
      /\ \A n \in 1 .. Len(b) : n + 1 \in 1 .. Len(s) /\ b[n] = s[n + 1]
      /\ b \in Seq(StepType)
  BY BehindFacts
<1>5. /\ Len(q) = Len(steps) + Len(b) /\ Len(steps) \in Nat
      /\ \A n \in 1 .. Len(steps) + Len(b) : q[n] = IF n <= Len(steps) THEN steps[n] ELSE b[n - Len(steps)]
  BY <1>2, <1>4, ConcatProperties, LenProperties
<1>6. \A n \in 1 .. Len(steps) : \A y : Before(steps[n], y)
  <2>1. \A n \in 1 .. Len(steps) : steps[n].op \notin ShutdownOps
    BY <1>1, <1>2, Entries DEF Of
  <2>2. Workers.op = "joinWorkers"
    BY OpOf DEF Workers
  <2>. QED BY <2>1, <2>2 DEF ShutdownOps, LastOps
<1>8. \A m, n \in 1 .. Len(s) : m < n => Before(s[m], s[n])
  BY DEF OrderInv
<1>. HIDE DEF q, s, b, Before
<1>9. ASSUME NEW m \in 1 .. Len(q), NEW n \in 1 .. Len(q), m < n PROVE Before(q[m], q[n])
  <2>1. m \in 1 .. Len(steps) + Len(b) /\ n \in 1 .. Len(steps) + Len(b)
    BY <1>5, <1>9
  <2>2. CASE m <= Len(steps)
    <3>1. m \in 1 .. Len(steps) /\ q[m] = steps[m]
      BY <1>5, <2>1, <2>2
    <3>. QED BY <1>6, <3>1
  <2>3. CASE ~ m <= Len(steps)
    <3>1. q[m] = b[m - Len(steps)] /\ m - Len(steps) \in 1 .. Len(b)
      BY <1>4, <1>5, <2>1, <2>3
    <3>2. q[n] = b[n - Len(steps)] /\ n - Len(steps) \in 1 .. Len(b)
      BY <1>4, <1>5, <1>9, <2>1, <2>3
    <3>3. /\ m - Len(steps) + 1 \in 1 .. Len(s) /\ n - Len(steps) + 1 \in 1 .. Len(s)
          /\ b[m - Len(steps)] = s[m - Len(steps) + 1] /\ b[n - Len(steps)] = s[n - Len(steps) + 1]
      BY <1>4, <3>1, <3>2
    <3>4. m - Len(steps) + 1 < n - Len(steps) + 1
      BY <1>5, <1>9, <2>1
    <3>. QED BY <1>8, <3>1, <3>2, <3>3, <3>4
  <2>. QED BY <2>2, <2>3
<1>10. \A u \in Threads : \A m, n \in 1 .. Len(todo'[u]) :
         m < n => Before(todo'[u][m], todo'[u][n])
  <2>1. ASSUME NEW u \in Threads \ {th}, NEW m \in 1 .. Len(todo'[u]), NEW n \in 1 .. Len(todo'[u]), m < n
        PROVE  Before(todo'[u][m], todo'[u][n])
    BY <1>2, <2>1 DEF OrderInv, Before
  <2>. QED BY <1>9, <2>1 DEF q
<1>11. \A u \in Threads : \A x \in ToSet(todo'[u]) : x.op \in ShutdownOps => u \in Callers
  BY <1>2, <1>4 DEF OrderInv, s, b
<1>12. Close' = Close /\ Workers' = Workers
  BY DEF Close, Workers, Do
<1>. QED BY <1>10, <1>11, <1>12 DEF OrderInv, Before

\* what one step means for each part: either the part is kept, or made true
Leaves(th, op) == Idle(th) \/ Head(todo[th]).op # op

LEMMA ShutStep ==
  ASSUME Onward, ShutInv, OrderInv', NEW th \in Threads, NEW S, Does(th, S), down' => down,
         down => \A x \in S : x.op # "enterPipeline",
         \/ engineDown' = engineDown /\ Leaves(th, "closeEngine")
              /\ \A j \in Jobs : job'[j] = "Queued" /\ engineDown => job[j] = "Queued"
         \/ engineDown' /\ \A j \in Jobs : job'[j] # "Queued",
         Idle(th) /\ down => th \in Callers \/ (th \in Jobs /\ Pending(Workers)),
         \/ Leaves(th, "joinWatchdog")
         \/ th \in Callers /\ Idle(Watchdog),
         \/ Leaves(th, "joinWorkers")
         \/ down => th \in Callers /\ engineDown /\ \A j \in Jobs : job[j] # "Running" /\ Idle(j),
         \A j \in Jobs : job'[j] = "Running" /\ engineDown => job[j] = "Running",
         \/ Leaves(th, "finalize")
              /\ \A t \in Tasks : down /\ status[t] = "Absent" => status'[t] = "Absent"
         \/ \A t \in Tasks : ~ Live(status', t),
         \/ /\ Leaves(th, "clear")
            /\ Leaves(th, "finalize") \/ Do("clear") \in S
            /\ \A t \in Tasks : callback'[t] = "waits" => callback[t] = "waits" \/ Live(status, t)
         \/ \A t \in Tasks : callback'[t] # "waits"
  PROVE  ShutInv'
<1>1. /\ \A x \in S : Pending(x)'
      /\ \A x : Pending(x) /\ (Idle(th) \/ x # Head(todo[th])) => Pending(x)'
      /\ \A x : Pending(x)' => x \in S \/ Pending(x)
  BY DoesPending DEF Onward, LifeInv
<1>2. \A op : Leaves(th, op) /\ Pending(Do(op)) => Pending(Do(op))'
  BY <1>1, OpOf DEF Leaves
<1>3. (down => NobodyEnters)'
  <2>1. NobodyEnters <=> \A x : Pending(x) => x.op # "enterPipeline"
    BY DEF NobodyEnters, Pending
  <2>2. NobodyEnters' <=> \A x : Pending(x)' => x.op # "enterPipeline"
    BY DEF NobodyEnters, Pending
  <2>. QED BY <1>1, <2>1, <2>2 DEF ShutInv
<1>4. (engineDown => NoJobLeft({"Queued"}))'
  BY DEF ShutInv, NoJobLeft
<1>5. (down /\ ~ Pending(Close) => engineDown)'
  BY <1>2 DEF ShutInv, Close
<1>6. (down /\ ~ Pending(Workers) => engineDown /\ NoJobLeft({"Running"}))'
  BY <1>2 DEF ShutInv, Workers, NoJobLeft
<1>9. /\ Callers \cap Jobs = {} /\ Watchdog \notin Callers \cup Jobs
      /\ Watchdog \in Threads /\ Jobs \subseteq Threads
      /\ \A u \in Threads \ {th} : Idle(u) => Idle(u)'
  <2>1. PICK steps : Of(steps, S) /\ TakesUp(th, steps)
    BY DEF Does
  <2>2. \A u \in Threads \ {th} : todo'[u] = todo[u]
    BY <2>1, TakesPending DEF Of, Onward, LifeInv
  <2>3. \A u \in Threads \ {th} : Idle(u) => Idle(u)'
    BY <2>2 DEF Idle
  <2>. QED BY <2>3, ThreadsAssumption DEF Threads
<1>10. (down /\ ~ Pending(Workers) => WorkersIdle)'
  <2>1. ASSUME down', ~ Pending(Workers)', NEW j \in Jobs PROVE Idle(j)'
    <3>1. CASE Leaves(th, "joinWorkers")
      <4>1. ~ Pending(Workers)
        BY <1>2, <2>1, <3>1 DEF Workers
      <4>2. Idle(j)
        BY <2>1, <4>1 DEF ShutInv, WorkersIdle
      <4>. QED BY <1>9, <2>1, <4>1, <4>2
    <3>2. CASE ~ Leaves(th, "joinWorkers")
      BY <1>9, <2>1, <3>2
    <3>. QED BY <3>1, <3>2
  <2>. QED BY <2>1 DEF WorkersIdle
<1>11. (down /\ ~ Pending(Do("joinWatchdog")) => Idle(Watchdog))'
  <2>1. ASSUME down', ~ Pending(Do("joinWatchdog"))' PROVE Idle(Watchdog)'
    <3>1. CASE Leaves(th, "joinWatchdog")
      <4>1. Idle(Watchdog)
        BY <1>2, <2>1, <3>1 DEF ShutInv
      <4>. QED BY <1>9, <2>1, <4>1
    <3>2. CASE ~ Leaves(th, "joinWatchdog")
      BY <1>9, <2>1, <3>2
    <3>. QED BY <3>1, <3>2
  <2>. QED BY <2>1
<1>7. (down /\ ~ Pending(Do("finalize")) => NoTaskLeft)'
  <2>1. CASE \A t \in Tasks : ~ Live(status', t)
    BY <2>1 DEF NoTaskLeft, Live
  <2>2. CASE Leaves(th, "finalize") /\ \A t \in Tasks : down /\ status[t] = "Absent" => status'[t] = "Absent"
    <3>1. \A t \in Tasks : status[t] \in Final => status'[t] = status[t]
      BY DEF Onward, OneWayStep
    <3>. QED BY <1>2, <2>2, <3>1 DEF ShutInv, NoTaskLeft, Live
  <2>. QED BY <2>1, <2>2
<1>8. (down /\ ~ Pending(Do("finalize")) /\ ~ Pending(Do("clear")) => NobodyWaits)'
  <2>1. CASE \A t \in Tasks : callback'[t] # "waits"
    BY <2>1 DEF NobodyWaits
  <2>2. CASE /\ Leaves(th, "clear") /\ (Leaves(th, "finalize") \/ Do("clear") \in S)
             /\ \A t \in Tasks : callback'[t] = "waits" => callback[t] = "waits" \/ Live(status, t)
    <3>1. ASSUME down', ~ Pending(Do("finalize"))', ~ Pending(Do("clear"))' PROVE NobodyWaits'
      <4>1. down /\ ~ Pending(Do("finalize")) /\ ~ Pending(Do("clear"))
        BY <1>1, <1>2, <2>2, <3>1
      <4>. QED BY <2>2, <4>1 DEF ShutInv, NobodyWaits, NoTaskLeft
    <3>. QED BY <3>1
  <2>. QED BY <2>1, <2>2
<1>. QED BY <1>3, <1>4, <1>5, <1>6, <1>7, <1>8, <1>10, <1>11 DEF ShutInv

\* what an action does that is no step of shutdown() itself
Innocent(S) ==
  \A x \in S : x.op \notin ShutdownOps /\ (down => x.op # "enterPipeline")
AbsentStays == \A t \in Tasks : status[t] = "Absent" => status'[t] = "Absent"
Calmly(th) ==
  /\ UNCHANGED <<down, engineDown>>
  /\ IF Idle(th) THEN down => th \in Callers \/ (th \in Jobs /\ Pending(Workers))
     ELSE Head(todo[th]).op \notin ShutdownOps
  /\ \A j \in Jobs : job'[j] \in {"Queued", "Running"} /\ engineDown => job'[j] = job[j]
  /\ down => AbsentStays
  /\ \A t \in Tasks : callback'[t] = "waits" => callback[t] = "waits" \/ Live(status, t)

LEMMA ShutQuiet ==
  ASSUME Onward, ShutInv, NEW th \in Threads, NEW S, Does(th, S), Innocent(S), Calmly(th)
  PROVE  ShutInv'
<1>1. OrderInv'
  BY TakesInOrder DEF Onward, LifeInv, ShutInv, Innocent
<1>2. /\ down' => down
      /\ down => \A x \in S : x.op # "enterPipeline"
      /\ Leaves(th, "closeEngine") /\ Leaves(th, "joinWorkers")
      /\ Leaves(th, "finalize") /\ Leaves(th, "clear") /\ Leaves(th, "joinWatchdog")
      /\ Idle(th) /\ down => th \in Callers \/ (th \in Jobs /\ Pending(Workers))
  BY DEF Calmly, Innocent, Leaves, ShutdownOps
<1>3. /\ engineDown' = engineDown
      /\ \A j \in Jobs : job'[j] = "Queued" /\ engineDown => job[j] = "Queued"
      /\ \A j \in Jobs : job'[j] = "Running" /\ engineDown => job[j] = "Running"
  BY DEF Calmly
<1>4. /\ \A t \in Tasks : down /\ status[t] = "Absent" => status'[t] = "Absent"
      /\ \A t \in Tasks : callback'[t] = "waits" => callback[t] = "waits" \/ Live(status, t)
  BY DEF Calmly, AbsentStays
<1>. QED BY <1>1, <1>2, <1>3, <1>4, ShutStep

LEMMA PassWhenDown ==
  ASSUME NEW timers, NEW s, NEW queued, PassBefore(timers, s, queued), down
  PROVE  status' = s
BY DEF PassBefore

LEMMA AbsentStay ==
  ASSUME Onward, ShutInv, down, NEW th \in Threads
  PROVE  /\ EnterPipeline(th) => AbsentStays
         /\ Arm(th) \/ TimerFires(th) \/ Mark(th) => AbsentStays
         /\ \A t : CancelLocked(t) => AbsentStays
         /\ Link(th) \/ ProcessJobRecord(th) \/ Strand(th) \/ FlushOwnedCancels(th) => AbsentStays
<1>0. status \in [Tasks -> Statuses]
  BY DEF Onward, LifeInv, TypeInv
<1>1. ASSUME NEW t, NEW new, NEW targets, Live(status, t) \/ new = status[t]
      PROVE  \A u \in Tasks : status[u] = "Absent" =>
               Set(t, new)[u] = "Absent" /\ Cascade(Set(t, new), targets)[u] = "Absent"
  <2>1. \A u \in Tasks : status[u] = "Absent" => Set(t, new)[u] = "Absent"
    BY <1>0, <1>1 DEF Set, Live
  <2>. QED BY <2>1, CascadeLives DEF Live
<1>2. EnterPipeline(th) => AbsentStays
  <2>1. EnterPipeline(th) => Head(todo[th]) \in ToSet(todo[th]) /\ Head(todo[th]).op = "enterPipeline"
    BY HeadFacts, AtIsBusy DEF Onward, EnterPipeline
  <2>. QED BY <2>1 DEF ShutInv, NobodyEnters
<1>3. Arm(th) => AbsentStays
  <2>. SUFFICES ASSUME Arm(th) PROVE AbsentStays
    OBVIOUS
  <2>1. status[Arg(th)] # "Absent"
    BY HeadFacts DEF Onward, Arm
  <2>2. status' = [status EXCEPT ![Arg(th)] = Arms(Arg(th))]
    BY PassWhenDown DEF Arm, Pass
  <2>. QED BY <1>0, <2>1, <2>2 DEF AbsentStays
<1>4. TimerFires(th) => AbsentStays
  BY PassWhenDown DEF TimerFires, AbsentStays
<1>5. \A t : CancelLocked(t) => AbsentStays
  <2>1. \A t : CancelLocked(t) => status' = Cascade(status, {t} \cup Descendants(status, t))
    BY PassWhenDown DEF CancelLocked, Pass
  <2>2. \A targets : \A u \in Tasks : status[u] = "Absent" => Cascade(status, targets)[u] = "Absent"
    BY CascadeLives DEF Live
  <2>. QED BY <2>1, <2>2 DEF AbsentStays
<1>6. Mark(th) => AbsentStays
  <2>. DEFINE t == TaskOf(Arg(th))
  <2>1. CASE ~ Live(status, t)
    BY <2>1 DEF Mark, AbsentStays
  <2>2. CASE Live(status, t)
    <3>1. MarkTaskCompleted(th, t) => status' = Set(t, "Completed")
      BY PassWhenDown DEF MarkTaskCompleted, Pass
    <3>2. AutoRetry(th, t) => status' = Set(t, "Queued")
      BY PassWhenDown DEF AutoRetry, Pass
    <3>3. \A new : MarkTaskEnded(th, t, new) =>
            status' = Cascade(Set(t, new), Descendants(Set(t, new), t))
      BY PassWhenDown DEF MarkTaskEnded, Pass, Endings
    <3>4. /\ MarkTaskCompleted(th, t) => AbsentStays
          /\ AutoRetry(th, t) => AbsentStays
      BY <1>1, <2>2, <3>1, <3>2 DEF AbsentStays
    <3>5. \A new : MarkTaskEnded(th, t, new) => AbsentStays
      BY <1>1, <2>2, <3>3 DEF AbsentStays
    <3>. QED BY <2>2, <3>4, <3>5 DEF Mark
  <2>. QED BY <2>1, <2>2
<1>7. Link(th) => AbsentStays
  BY <1>0 DEF Link, AbsentStays, Overtaken
<1>8. ProcessJobRecord(th) => AbsentStays
  <2>1. ProcessJobRecord(th) =>
          \/ status' = status
          \/ Started(TaskOf(Arg(th))) /\ status' = [status EXCEPT ![TaskOf(Arg(th))] = "Running"]
    BY DEF ProcessJobRecord
  <2>. QED BY <1>0, <2>1 DEF AbsentStays, Started, ReadyLike
<1>9. Strand(th) => AbsentStays
  BY <1>0 DEF Strand, AbsentStays
<1>10. FlushOwnedCancels(th) => AbsentStays
  <2>. DEFINE targets == orphans \cup UNION {Descendants(status, c) : c \in orphans}
  <2>1. FlushOwnedCancels(th) => status' = status \/ status' = Cascade(status, targets)
    BY DEF FlushOwnedCancels
  <2>. HIDE DEF targets
  <2>. QED BY <2>1, CascadeLives DEF AbsentStays, Live
<1>. QED BY <1>2, <1>3, <1>4, <1>5, <1>6, <1>7, <1>8, <1>9, <1>10

\* the engine and the callbacks are left alone
Aside == UNCHANGED <<down, engineDown, job, callback>>

LEMMA AsideIsCalm ==
  ASSUME Onward, ShutInv, NEW th \in Threads, Aside, down => AbsentStays,
         \/ Idle(th) /\ (down => th \in Callers)
         \/ ~ Idle(th) /\ Head(todo[th]).op \notin ShutdownOps
  PROVE  Calmly(th)
BY DEF Aside, Calmly

LEMMA PassesShut ==
  ASSUME Onward, ShutInv, NEW th \in Threads
  PROVE  /\ EnterPipeline(th) \/ Arm(th) => ShutInv'
         /\ th \in Callers /\ TimerFires(th) => ShutInv'
         /\ th \in Callers => \A t : CancelTask(th, t) => ShutInv'
         /\ CancelForShutdown(th) => ShutInv'
<1>0. /\ \A x : Innocent(Flushes \cup {DoFor("armed", x)}) /\ Innocent(Flushes) /\ Innocent({})
      /\ \A s, targets : Innocent(CancelDoes(s, targets))
  <2>1. \A x \in Flushes : x.op \in {"flush", "signals"}
    BY OpOf
  <2>2. \A s, targets : \A x \in CancelDoes(s, targets) : x.op \in {"flush", "signals", "cancel", "fire"}
    BY OpOf DEF CancelDoes
  <2>3. \A x : DoFor("armed", x).op = "armed"
    BY OpOf
  <2>. QED BY <2>1, <2>2, <2>3 DEF Innocent, ShutdownOps
<1>1. ASSUME EnterPipeline(th) PROVE ShutInv'
  <2>1. Does(th, Flushes)
    BY <1>1, SubmissionsDo DEF Onward
  <2>2. Aside /\ (down => AbsentStays)
    BY <1>1, AbsentStay DEF EnterPipeline, Aside
  <2>3. Head(todo[th]).op = "enterPipeline" /\ ~ Idle(th)
    BY <1>1, AtIsBusy DEF EnterPipeline
  <2>4. Calmly(th)
    BY <2>2, <2>3, AsideIsCalm DEF ShutdownOps
  <2>. QED BY <1>0, <2>1, <2>4, ShutQuiet
<1>2. ASSUME Arm(th) PROVE ShutInv'
  <2>1. Does(th, Flushes \cup {DoFor("armed", Arg(th))})
    BY <1>2, SubmissionsDo DEF Onward
  <2>2. Aside /\ (down => AbsentStays)
    BY <1>2, AbsentStay DEF Arm, Aside
  <2>3. Head(todo[th]).op = "arm" /\ ~ Idle(th)
    BY <1>2, AtIsBusy DEF Arm
  <2>4. Calmly(th)
    BY <2>2, <2>3, AsideIsCalm DEF ShutdownOps
  <2>. QED BY <1>0, <2>1, <2>4, ShutQuiet
<1>3. ASSUME th \in Callers, TimerFires(th) PROVE ShutInv'
  <2>1. Does(th, Flushes)
    BY <1>3, SubmissionsDo DEF Onward
  <2>2. Aside /\ Idle(th) /\ (down => AbsentStays)
    BY <1>3, AbsentStay DEF TimerFires, Aside, Call
  <2>4. Calmly(th)
    BY <1>3, <2>2, AsideIsCalm DEF ShutdownOps
  <2>. QED BY <1>0, <2>1, <2>4, ShutQuiet
<1>4. ASSUME th \in Callers, NEW t, CancelTask(th, t) PROVE ShutInv'
  <2>1. Does(th, CancelDoes(status, {t} \cup Descendants(status, t)))
    BY <1>4, CancelsDo DEF Onward
  <2>2. Aside /\ Idle(th) /\ (down => AbsentStays)
    BY <1>4, AbsentStay DEF CancelTask, CancelLocked, Aside, Call
  <2>4. Calmly(th)
    BY <1>4, <2>2, AsideIsCalm DEF ShutdownOps
  <2>. QED BY <1>0, <2>1, <2>4, ShutQuiet
<1>5. ASSUME CancelForShutdown(th) PROVE ShutInv'
  <2>. DEFINE t == Arg(th)
              S == IF Live(status, t) THEN CancelDoes(status, {t} \cup Descendants(status, t)) ELSE {}
  <2>1. Does(th, S)
    BY <1>5, CancelsDo DEF Onward
  <2>2. Head(todo[th]).op = "cancelTask" /\ ~ Idle(th)
    BY <1>5, AtIsBusy DEF CancelForShutdown
  <2>3. Aside
    BY <1>5 DEF CancelForShutdown, CancelLocked, Aside
  <2>4. down => AbsentStays
    <3>1. CASE Live(status, t)
      <4>1. CancelLocked(t)
        BY <1>5, <3>1 DEF CancelForShutdown
      <4>. QED BY <4>1, AbsentStay
    <3>2. CASE ~ Live(status, t)
      BY <1>5, <3>2 DEF CancelForShutdown, AbsentStays
    <3>. QED BY <3>1, <3>2
  <2>5. Calmly(th)
    BY <2>2, <2>3, <2>4, AsideIsCalm DEF ShutdownOps
  <2>6. Innocent(S)
    BY <1>0
  <2>. HIDE DEF S
  <2>. QED BY <2>1, <2>5, <2>6, ShutQuiet
<1>. QED BY <1>1, <1>2, <1>3, <1>4, <1>5

LEMMA SubmissionsShut ==
  ASSUME Onward, ShutInv, NEW th \in Threads
  PROVE  /\ \A g \in Pipelines : SubmitPipeline(th, g) => ShutInv'
         /\ \A t \in Tasks : SubmitJob(th, t) => ShutInv'
         /\ th \in Callers => \A t \in Tasks : RetryTask(th, t) => ShutInv'
         /\ Armed(th) \/ Resubmit(th) => ShutInv'
<1>1. /\ \A x : /\ Innocent(Flushes \cup {DoFor("arm", x)}) /\ Innocent({DoFor("resubmit", x)})
                /\ Innocent({DoFor("fire", x)})
      /\ Innocent(Flushes) /\ Innocent({})
      /\ ~ down => \A x : Innocent({DoFor("enterPipeline", x)})
  <2>1. \A x \in Flushes : x.op \in {"flush", "signals"}
    BY OpOf
  <2>2. \A op, x : DoFor(op, x).op = op
    BY OpOf
  <2>. QED BY <2>1, <2>2 DEF Innocent, ShutdownOps
<1>2. ASSUME NEW g \in Pipelines, SubmitPipeline(th, g) PROVE ShutInv'
  <2>1. Does(th, {DoFor("enterPipeline", g)})
    BY <1>2, SubmissionsDo DEF Onward
  <2>2. Aside /\ Idle(th) /\ ~ down
    BY <1>2 DEF SubmitPipeline, Aside, Call, Refuses
  <2>3. Calmly(th)
    BY <2>2, AsideIsCalm DEF ShutdownOps
  <2>. QED BY <1>1, <2>1, <2>2, <2>3, ShutQuiet
<1>3. ASSUME NEW t \in Tasks, SubmitJob(th, t) PROVE ShutInv'
  <2>1. Does(th, Flushes \cup {DoFor("arm", t)})
    BY <1>3, SubmissionsDo DEF Onward
  <2>2. Aside /\ Idle(th) /\ ~ down
    BY <1>3 DEF SubmitJob, Enqueue, Aside, Call, Refuses
  <2>3. Calmly(th)
    BY <2>2, AsideIsCalm DEF ShutdownOps
  <2>. QED BY <1>1, <2>1, <2>3, ShutQuiet
<1>4. ASSUME th \in Callers, NEW t \in Tasks, RetryTask(th, t) PROVE ShutInv'
  <2>1. Does(th, {DoFor("resubmit", t)})
    BY <1>4, SubmissionsDo DEF Onward
  <2>2. Aside /\ Idle(th) /\ AbsentStays
    BY <1>4 DEF RetryTask, Aside, Call, AbsentStays
  <2>3. Calmly(th)
    BY <1>4, <2>2, AsideIsCalm DEF ShutdownOps
  <2>. QED BY <1>1, <2>1, <2>3, ShutQuiet
<1>5. ASSUME Armed(th) PROVE ShutInv'
  <2>1. Does(th, {DoFor("fire", Arg(th))}) \/ Does(th, {})
    BY <1>5, SubmissionsDo DEF Onward
  <2>2. Aside /\ AbsentStays /\ Head(todo[th]).op = "armed" /\ ~ Idle(th)
    BY <1>5, AtIsBusy DEF Armed, Aside, AbsentStays
  <2>3. Calmly(th)
    BY <2>2, AsideIsCalm DEF ShutdownOps
  <2>. QED BY <1>1, <2>1, <2>3, ShutQuiet
<1>6. ASSUME Resubmit(th) PROVE ShutInv'
  <2>. DEFINE t == Arg(th)
  <2>1. \/ Does(th, {}) /\ UNCHANGED <<taskVars, callback, down, engineVars>>
        \/ Enqueue(th, t, "manual") /\ Does(th, Flushes \cup {DoFor("arm", t)})
        \/ Enqueue(th, t, "auto") /\ Does(th, Flushes)
    BY <1>6, SubmissionsDo DEF Onward
  <2>2. Head(todo[th]).op = "resubmit" /\ ~ Idle(th)
    BY <1>6, AtIsBusy DEF Resubmit
  <2>. HIDE DEF t
  <2>3. UNCHANGED <<taskVars, callback, down, engineVars>> => Aside /\ AbsentStays
    BY DEF Aside, AbsentStays
  <2>4. \A how : Enqueue(th, t, how) => Aside /\ ~ down
    BY DEF Enqueue, Aside, Refuses
  <2>5. Calmly(th)
    BY <2>1, <2>2, <2>3, <2>4, AsideIsCalm DEF ShutdownOps
  <2>. QED BY <1>1, <2>1, <2>5, ShutQuiet
<1>. QED BY <1>2, <1>3, <1>4, <1>5, <1>6

LEMMA RecordsShut ==
  ASSUME Onward, ShutInv, NEW th \in Threads
  PROVE  /\ FlushPendingLaunches(th) \/ Register(th) \/ Link(th) \/ Snapshot(th) => ShutInv'
         /\ OnJobRecord(th) \/ ProcessJobRecord(th) \/ Forget(th) \/ Mark(th) => ShutInv'
         /\ Strand(th) \/ FlushOwnedCancels(th) \/ CancelAllForShutdown(th) => ShutInv'
<1>. DEFINE Harmless == {"flush", "signals", "cancel", "fire", "register", "submit", "link", "stop",
                         "snapshot", "record", "process", "mark", "forget", "strand", "cancelTask"}
<1>0. \A S : (\A x \in S : x.op \in Harmless) => Innocent(S)
  BY DEF Innocent, ShutdownOps
<1>1. ASSUME NEW S, Does(th, S), \A x \in S : x.op \in Harmless, Aside, down => AbsentStays,
             NEW op \in {"flush", "register", "link", "snapshot", "record", "process", "forget", "mark",
                         "strand", "signals", "cancelAll"}, At(th, op)
      PROVE  ShutInv'
  <2>1. Calmly(th)
    <3>1. Head(todo[th]).op = op /\ ~ Idle(th)
      BY <1>1, AtIsBusy
    <3>. QED BY <1>1, <3>1, AsideIsCalm DEF ShutdownOps
  <2>. QED BY <1>0, <1>1, <2>1, ShutQuiet
<1>2. ASSUME FlushPendingLaunches(th) PROVE ShutInv'
  <2>. DEFINE S == IF down THEN {} ELSE Each("register", staged)
  <2>1. Does(th, S)
    BY <1>2, LaunchesDo DEF Onward
  <2>2. \A x \in S : x.op \in Harmless
    BY OpOf
  <2>3. At(th, "flush") /\ Aside /\ (down => AbsentStays)
    BY <1>2 DEF FlushPendingLaunches, Aside, AbsentStays
  <2>. HIDE DEF S, Harmless
  <2>. QED BY <1>1, <2>1, <2>2, <2>3
<1>3. ASSUME Register(th) PROVE ShutInv'
  <2>. DEFINE S == IF Live(status, TaskOf(Arg(th))) THEN {DoFor("submit", Arg(th)), DoFor("link", Arg(th))} ELSE {}
  <2>1. Does(th, S)
    BY <1>3, LaunchesDo DEF Onward
  <2>2. \A x \in S : x.op \in Harmless
    BY OpOf
  <2>3. At(th, "register") /\ Aside /\ (down => AbsentStays)
    BY <1>3 DEF Register, Aside, AbsentStays
  <2>. HIDE DEF S, Harmless
  <2>. QED BY <1>1, <2>1, <2>2, <2>3
<1>4. ASSUME Link(th) PROVE ShutInv'
  <2>. DEFINE S == IF status[TaskOf(Arg(th))] = "Cancelling"
                     THEN {DoFor("stop", Arg(th)), Do("signals"), DoFor("fire", TaskOf(Arg(th)))}
                   ELSE IF status[TaskOf(Arg(th))] = "Canceled" THEN {DoFor("stop", Arg(th))}
                   ELSE {DoFor("snapshot", Arg(th))}
  <2>1. Does(th, S)
    BY <1>4, LaunchesDo DEF Onward
  <2>2. \A x \in S : x.op \in Harmless
    BY OpOf
  <2>3. At(th, "link") /\ Aside /\ (down => AbsentStays)
    BY <1>4, AbsentStay DEF Link, Aside
  <2>. HIDE DEF S, Harmless
  <2>. QED BY <1>1, <2>1, <2>2, <2>3
<1>5. ASSUME Snapshot(th) PROVE ShutInv'
  <2>. DEFINE S == {Record("record", Arg(th), job[Arg(th)])}
  <2>1. Does(th, S)
    BY <1>5, LaunchesDo DEF Onward
  <2>2. \A x \in S : x.op \in Harmless
    BY OpOf
  <2>3. At(th, "snapshot") /\ Aside /\ (down => AbsentStays)
    BY <1>5 DEF Snapshot, Aside, AbsentStays
  <2>. HIDE DEF S, Harmless
  <2>. QED BY <1>1, <2>1, <2>2, <2>3
<1>6. ASSUME OnJobRecord(th) PROVE ShutInv'
  <2>. DEFINE S == IF Arg(th) \in mapped \/ Recovers(Arg(th)) THEN {Record("process", Arg(th), State(th))} ELSE {}
  <2>1. Does(th, S)
    BY <1>6, LaunchesDo DEF Onward
  <2>2. \A x \in S : x.op \in Harmless
    BY OpOf
  <2>3. At(th, "record") /\ Aside /\ (down => AbsentStays)
    BY <1>6 DEF OnJobRecord, Aside, AbsentStays
  <2>. HIDE DEF S, Harmless
  <2>. QED BY <1>1, <2>1, <2>2, <2>3
<1>7. ASSUME ProcessJobRecord(th) PROVE ShutInv'
  <2>. DEFINE S == IF State(th) \in JobEnds /\ Live(status, TaskOf(Arg(th)))
                   THEN {Record("mark", Arg(th), State(th)), DoFor("forget", Arg(th))} ELSE {}
  <2>1. Does(th, S)
    BY <1>7, LaunchesDo DEF Onward
  <2>2. \A x \in S : x.op \in Harmless
    BY OpOf
  <2>3. At(th, "process") /\ Aside /\ (down => AbsentStays)
    BY <1>7, AbsentStay DEF ProcessJobRecord, Aside
  <2>. HIDE DEF S, Harmless
  <2>. QED BY <1>1, <2>1, <2>2, <2>3
<1>8. ASSUME Forget(th) PROVE ShutInv'
  <2>. DEFINE S == {}
  <2>1. Does(th, S)
    BY <1>8, LaunchesDo DEF Onward
  <2>2. \A x \in S : x.op \in Harmless
    BY OpOf
  <2>3. At(th, "forget") /\ Aside /\ (down => AbsentStays)
    BY <1>8 DEF Forget, Aside, AbsentStays
  <2>. HIDE DEF S, Harmless
  <2>. QED BY <1>1, <2>1, <2>2, <2>3
<1>9. ASSUME Strand(th) PROVE ShutInv'
  <2>. DEFINE S == IF status[Arg(th)] = "Cancelling" THEN {Do("signals"), DoFor("fire", Arg(th))} ELSE {}
  <2>1. Does(th, S)
    BY <1>9, CancelsDo DEF Onward
  <2>2. \A x \in S : x.op \in Harmless
    BY OpOf
  <2>3. At(th, "strand") /\ Aside /\ (down => AbsentStays)
    BY <1>9, AbsentStay DEF Strand, Aside
  <2>. HIDE DEF S, Harmless
  <2>. QED BY <1>1, <2>1, <2>2, <2>3
<1>11. ASSUME CancelAllForShutdown(th) PROVE ShutInv'
  <2>. DEFINE S == Each("cancelTask", {t \in Tasks : Live(status, t)})
  <2>1. Does(th, S)
    BY <1>11, ShutdownsDo DEF Onward
  <2>2. \A x \in S : x.op \in Harmless
    BY OpOf
  <2>3. At(th, "cancelAll") /\ Aside /\ (down => AbsentStays)
    BY <1>11 DEF CancelAllForShutdown, Aside, AbsentStays
  <2>. HIDE DEF S, Harmless
  <2>. QED BY <1>1, <2>1, <2>2, <2>3
<1>12. ASSUME FlushOwnedCancels(th) PROVE ShutInv'
  <2>. DEFINE targets == orphans \cup UNION {Descendants(status, c) : c \in orphans}
              S == IF orphans = {} THEN {}
                   ELSE Each("cancel", JobsToCancel(status, targets))
                          \cup Each("fire", CanceledAtOnce(status, targets)) \cup {Do("signals")}
  <2>1. Does(th, S)
    BY <1>12, CancelsDo DEF Onward
  <2>. HIDE DEF targets
  <2>2. \A x \in S : x.op \in Harmless
    BY OpOf
  <2>3. At(th, "signals") /\ Aside /\ (down => AbsentStays)
    BY <1>12, AbsentStay DEF FlushOwnedCancels, Aside
  <2>. HIDE DEF S, Harmless
  <2>. QED BY <1>1, <2>1, <2>2, <2>3
<1>13. ASSUME Mark(th) PROVE ShutInv'
  <2>. DEFINE t == TaskOf(Arg(th))
  <2>1. At(th, "mark") /\ Aside /\ (down => AbsentStays)
    BY <1>13, AbsentStay DEF Mark, Aside
  <2>2. t \in Tasks /\ ~ Idle(th)
    BY <2>1, HeadFacts, Ops DEF Onward
  <2>3. ASSUME NEW S, Does(th, S), \A x \in S : x.op \in Harmless PROVE ShutInv'
    BY <1>1, <2>1, <2>3
  <2>4. CASE ~ Live(status, t)
    <3>1. Then(th, <<>>)
      BY <1>13, <2>4 DEF Mark, Done
    <3>2. Does(th, {})
      BY <2>2, <3>1, OfNone, ThenDoes
    <3>. QED BY <2>3, <3>2
  <2>5. ASSUME MarkTaskCompleted(th, t) PROVE ShutInv'
    <3>1. Does(th, Flushes \cup {DoFor("fire", t)})
      BY <2>2, <2>5, MarksDo DEF Onward
    <3>2. \A x \in Flushes \cup {DoFor("fire", t)} : x.op \in Harmless
      BY OpOf
    <3>. QED BY <2>3, <3>1, <3>2
  <2>6. ASSUME AutoRetry(th, t) PROVE ShutInv'
    <3>1. Does(th, Each("cancel", OwnJob(t)) \cup Flushes)
      BY <2>2, <2>6, MarksDo DEF Onward
    <3>2. \A x \in Each("cancel", OwnJob(t)) \cup Flushes : x.op \in Harmless
      BY OpOf
    <3>. QED BY <2>3, <3>1, <3>2
  <2>7. ASSUME NEW new, MarkTaskEnded(th, t, new) PROVE ShutInv'
    <3>. DEFINE s == Set(t, new)
                below == Descendants(s, t)
                S == Each("cancel", OwnJob(t) \cup JobsToCancel(s, below)) \cup Flushes
                       \cup {DoFor("fire", t)} \cup Each("fire", CanceledAtOnce(s, below))
    <3>1. Does(th, S)
      BY <2>2, <2>7, MarksDo DEF Onward
    <3>. HIDE DEF s, below
    <3>2. \A x \in S : x.op \in Harmless
      BY OpOf
    <3>. HIDE DEF S
    <3>. QED BY <2>3, <3>1, <3>2
  <2>. QED BY <1>13, <2>4, <2>5, <2>6, <2>7 DEF Mark
<1>. QED BY <1>2, <1>3, <1>4, <1>5, <1>6, <1>7, <1>8, <1>9, <1>11, <1>12, <1>13

LEMMA EnforcesShut ==
  ASSUME Onward, ShutInv, EnforceCancelDeadlines
  PROVE  ShutInv'
<1>1. PICK late \in (SUBSET {t \in Tasks : status[t] = "Cancelling"}) \ {{}} :
           /\ ~ down
           /\ status' = [t \in Tasks |-> IF t \in late THEN "Canceled" ELSE status[t]]
           /\ mapped' = mapped \ Detached(late)
           /\ Join
           /\ Idle(Watchdog) /\ Does(Watchdog, {Do("signals")} \cup Each("fire", late))
           /\ UNCHANGED <<auto, jobId, attempts, graphVars, admissionVars, callback, down, engineVars>>
  BY EnforcesDo DEF Onward
<1>2. Watchdog \in Threads
  BY DEF Threads
<1>3. Aside /\ Idle(Watchdog) /\ ~ down
  BY <1>1 DEF Aside
<1>4. Calmly(Watchdog)
  BY <1>2, <1>3, AsideIsCalm DEF ShutdownOps
<1>. DEFINE S == {Do("signals")} \cup Each("fire", late)
<1>5. Does(Watchdog, S)
  BY <1>1
<1>6. Innocent(S)
  <2>1. \A x \in S : x.op \in {"signals", "fire"}
    BY OpOf
  <2>. QED BY <2>1 DEF Innocent, ShutdownOps
<1>. HIDE DEF S
<1>. QED BY <1>2, <1>4, <1>5, <1>6, ShutQuiet

LEMMA EnginesShut ==
  ASSUME Onward, ShutInv
  PROVE  /\ \A j \in Jobs : JobStarts(j) => ShutInv'
         /\ \A j \in Jobs, end \in JobEnds : JobEndsAs(j, end) => ShutInv'
         /\ \A th \in Threads : SubmitWithId(th) \/ CancelJob(th) => ShutInv'
<1>0. job \in [Jobs -> JobStates] /\ \A j \in Jobs : j \in Threads
  BY DEF Onward, LifeInv, TypeInv, Threads
<1>6. down => \A j \in Jobs : job[j] = "Running" \/ ~ engineDown => Pending(Workers)
  BY DEF ShutInv, NoJobLeft
<1>1. \A j, s, op, x : Innocent({Record("record", j, s)}) /\ Innocent({}) /\ Innocent({DoFor("strand", x)})
  <2>1. \A j, s : Record("record", j, s).op = "record"
    BY OpOf
  <2>2. \A x : DoFor("strand", x).op = "strand"
    BY OpOf
  <2>. QED BY <2>1, <2>2 DEF Innocent, ShutdownOps
<1>2. ASSUME NEW j \in Jobs, JobStarts(j) PROVE ShutInv'
  <2>1. Does(j, {Record("record", j, "Running")})
    BY <1>2, EnginesDo DEF Onward
  <2>2. UNCHANGED <<status, callback, down, engineDown>> /\ ~ engineDown /\ Idle(j)
    BY <1>2 DEF JobStarts, Call
  <2>3. Calmly(j)
    BY <1>6, <2>2 DEF Calmly, AbsentStays, ShutdownOps
  <2>. QED BY <1>0, <1>1, <2>1, <2>3, ShutQuiet
<1>3. ASSUME NEW j \in Jobs, NEW end \in JobEnds, JobEndsAs(j, end) PROVE ShutInv'
  <2>1. Does(j, {Record("record", j, end)})
    BY <1>3, EnginesDo DEF Onward
  <2>2. UNCHANGED <<status, callback, down, engineDown>> /\ Idle(j) /\ job' = [job EXCEPT ![j] = end]
        /\ job[j] = "Running"
    BY <1>3 DEF JobEndsAs, Call
  <2>3. \A i \in Jobs : job'[i] \in {"Queued", "Running"} => job'[i] = job[i]
    BY <1>0, <2>2 DEF JobEnds
  <2>4. Calmly(j)
    BY <1>6, <2>2, <2>3 DEF Calmly, AbsentStays, ShutdownOps
  <2>. QED BY <1>0, <1>1, <2>1, <2>4, ShutQuiet
<1>4. ASSUME NEW th \in Threads, SubmitWithId(th) PROVE ShutInv'
  <2>1. Does(th, {Record("record", Arg(th), "Cancelled")}) \/ Does(th, {})
    BY <1>4, LaunchesDo DEF Onward
  <2>2. UNCHANGED <<status, callback, down, engineDown>> /\ Head(todo[th]).op = "submit" /\ ~ Idle(th)
    BY <1>4, AtIsBusy DEF SubmitWithId
  <2>3. \A i \in Jobs : job'[i] \in {"Queued", "Running"} /\ engineDown => job'[i] = job[i]
    BY <1>0, <1>4 DEF SubmitWithId
  <2>4. Calmly(th)
    BY <2>2, <2>3 DEF Calmly, AbsentStays, ShutdownOps
  <2>. QED BY <1>1, <2>1, <2>4, ShutQuiet
<1>5. ASSUME NEW th \in Threads, CancelJob(th) PROVE ShutInv'
  <2>1. \/ Does(th, {Record("record", Arg(th), "Cancelled")})
        \/ Does(th, {DoFor("strand", TaskOf(Arg(th)))}) \/ Does(th, {})
    BY <1>5, CancelsDo DEF Onward
  <2>2. UNCHANGED <<status, callback, down, engineDown>> /\ Head(todo[th]).op \in {"cancel", "stop"} /\ ~ Idle(th)
    BY <1>5, AtIsBusy DEF CancelJob
  <2>3. \A i \in Jobs : job'[i] \in {"Queued", "Running"} => job'[i] = job[i]
    BY <1>0, <1>5 DEF CancelJob
  <2>4. Calmly(th)
    BY <2>2, <2>3 DEF Calmly, AbsentStays, ShutdownOps
  <2>. QED BY <1>1, <2>1, <2>4, ShutQuiet
<1>. QED BY <1>2, <1>3, <1>4, <1>5

LEMMA CallbacksShut ==
  ASSUME Onward, ShutInv, NEW th \in Threads
  PROVE  /\ FireTaskCompletionCallbacks(th) => ShutInv'
         /\ th \in Callers => \A t \in Tasks : AddTaskCompletionCallback(th, t) => ShutInv'
<1>0. callback \in [Tasks -> {"none", "waits", "told", "dropped"}] /\ Innocent({})
  BY DEF Onward, LifeInv, TypeInv, Innocent
<1>1. ASSUME FireTaskCompletionCallbacks(th) PROVE ShutInv'
  <2>1. Does(th, {})
    BY <1>1, ShutdownsDo DEF Onward
  <2>2. UNCHANGED <<status, job, down, engineDown>> /\ Head(todo[th]).op = "fire" /\ ~ Idle(th)
    BY <1>1, AtIsBusy DEF FireTaskCompletionCallbacks
  <2>3. \A t \in Tasks : callback'[t] = "waits" => callback[t] = "waits"
    BY <1>0, <1>1 DEF FireTaskCompletionCallbacks
  <2>4. Calmly(th)
    BY <2>2, <2>3 DEF Calmly, AbsentStays, ShutdownOps
  <2>. QED BY <1>0, <2>1, <2>4, ShutQuiet
<1>2. ASSUME th \in Callers, NEW t \in Tasks, AddTaskCompletionCallback(th, t) PROVE ShutInv'
  <2>1. Does(th, {})
    BY <1>2, ShutdownsDo DEF Onward
  <2>2. UNCHANGED <<status, job, down, engineDown>> /\ Idle(th)
    BY <1>2 DEF AddTaskCompletionCallback
  <2>3. \A u \in Tasks : callback'[u] = "waits" => callback[u] = "waits" \/ Live(status, u)
    BY <1>0, <1>2 DEF AddTaskCompletionCallback, Live
  <2>4. Calmly(th)
    BY <1>2, <2>2, <2>3 DEF Calmly, AbsentStays, ShutdownOps
  <2>. QED BY <1>0, <2>1, <2>4, ShutQuiet
<1>. QED BY <1>1, <1>2

LEMMA HeadIs ==
  ASSUME LifeInv, NEW th \in Threads, NEW op \in OtherOps, At(th, op)
  PROVE  /\ Head(todo[th]) = Do(op) /\ Head(todo[th]).op = op
         /\ todo[th][1] = Do(op) /\ Len(todo[th]) \in Nat \ {0} /\ Do(op) \in ToSet(todo[th])
<1>. DEFINE s == todo[th]
<1>1. Head(s).op = op /\ Head(s) \in ToSet(s) /\ s \in Seq(StepType) /\ s # <<>>
  BY HeadFacts DEF LifeInv, TypeInv, At
<1>. HIDE DEF s
<1>2. Head(s) \in StepType
  BY <1>1, Entries
<1>3. Head(s) = Do(op)
  BY <1>1, <1>2 DEF StepType, JobOps, TaskOps, OtherOps, Do
<1>4. Head(s) = s[1] /\ Len(s) \in Nat
  BY <1>1, LenProperties
<1>5. Len(s) # 0
  BY <1>1, EmptySeq
<1>. QED BY <1>1, <1>3, <1>4, <1>5 DEF s

LEMMA WorkersAreLast ==
  ASSUME LifeInv, OrderInv, OneCaller, NEW th \in Threads, At(th, "joinWorkers")
  PROVE  ~ Pending(Close) /\ th \in Callers
<1>1. /\ Head(todo[th]) = Workers /\ todo[th][1] = Workers /\ Len(todo[th]) \in Nat \ {0}
      /\ Workers \in ToSet(todo[th])
  BY HeadIs, Ops DEF Workers
<1>0. Workers.op = "joinWorkers" /\ Close.op = "closeEngine"
  BY OpOf DEF Workers, Close
<1>2. th \in Callers
  BY <1>0, <1>1 DEF OrderInv, ShutdownOps
<1>3. ASSUME NEW u \in Threads, Close \in ToSet(todo[u]) PROVE FALSE
  <2>0. u \in Callers
    BY <1>0, <1>3 DEF OrderInv, ShutdownOps
  <2>1. u = th
    BY <1>2, <2>0 DEF OneCaller
  <2>2. PICK n \in 1 .. Len(todo[th]) : todo[th][n] = Close
    BY <1>3, <2>1, Entries DEF LifeInv, TypeInv
  <2>3. Workers # Close
    BY DEF Workers, Close, Do
  <2>4. n # 1
    BY <1>1, <2>2, <2>3
  <2>5. 1 \in 1 .. Len(todo[th]) /\ 1 < n
    BY <1>1, <2>2, <2>4
  <2>. QED BY <1>1, <2>2, <2>5 DEF OrderInv
<1>. QED BY <1>2, <1>3 DEF Pending

\* finalize and clear are the last things the shutting caller does
LEMMA LastIsAlone ==
  ASSUME LifeInv, OrderInv, NEW th \in Threads, NEW op \in LastOps, At(th, op)
  PROVE  th \in Callers /\ todo[th] = <<Do(op)>> /\ Behind(th) = <<>>
<1>. DEFINE s == todo[th]
<1>0. op \in OtherOps
  BY DEF LastOps, OtherOps
<1>1. /\ s[1] = Do(op) /\ Len(s) \in Nat \ {0} /\ Do(op) \in ToSet(s)
      /\ Do(op).op = op /\ op \in ShutdownOps
  BY <1>0, HeadIs, OpOf DEF LastOps, ShutdownOps
<1>2. th \in Callers
  BY <1>1 DEF OrderInv
<1>3. Len(s) = 1
  <2>1. SUFFICES ASSUME Len(s) # 1 PROVE FALSE
    OBVIOUS
  <2>2. 1 \in 1 .. Len(s) /\ 2 \in 1 .. Len(s) /\ 1 < 2
    <3>1. \A k \in Nat \ {0} : k # 1 => 1 \in 1 .. k /\ 2 \in 1 .. k /\ 1 < 2
      OBVIOUS
    <3>. QED BY <1>1, <2>1, <3>1
  <2>3. s[1].op \notin LastOps
    BY <2>2 DEF OrderInv
  <2>. QED BY <1>1, <2>3
<1>4. s \in Seq(StepType) /\ ~ Idle(th)
  BY BehindFacts, AtIsBusy DEF LifeInv
<1>5. s # <<>> /\ Behind(th) = Tail(s)
  BY <1>4 DEF Idle, Behind
<1>. HIDE DEF s
<1>6. s = <<Do(op)>>
  BY <1>1, <1>3, <1>4
<1>. QED BY <1>2, <1>5, <1>6 DEF s

LEMMA FinalizeInOrder ==
  ASSUME LifeInv, OrderInv, NEW th \in Threads, Finalize(th)
  PROVE  OrderInv'
<1>. DEFINE left == {t \in Tasks : Live(status, t)}
            f == ForEach("fire", left)
            a == <<Do("signals")>> \o f
            q == a \o <<Do("clear")>>
<1>1. At(th, "finalize") /\ Then(th, q)
  BY DEF Finalize
<1>2. th \in Callers /\ todo[th] = <<Do("finalize")>>
  BY <1>1, LastIsAlone DEF LastOps
<1>3. f \in Seq(StepType) /\ \A x \in ToSet(f) : x.op = "fire"
  <2>1. IsFiniteSet(left) /\ \A t \in left : DoFor("fire", t) \in StepType
    BY FiniteTasks, FS_Subset, StepTypes DEF TaskOps
  <2>. QED BY <2>1, ForEachFacts
<1>4. Do("signals") \in StepType /\ Do("clear") \in StepType
  BY StepTypes DEF OtherOps
<1>. HIDE DEF f
<1>5. a \in Seq(StepType) /\ ToSet(a) = ToSet(<<Do("signals")>>) \cup ToSet(f)
  <2>1. <<Do("signals")>> \in Seq(StepType)
    BY <1>4
  <2>. QED BY <1>3, <2>1, Joined
<1>6. \A x \in ToSet(a) : x.op \in {"signals", "fire"}
  BY <1>3, <1>5, OpOf DEF ToSet
<1>. HIDE DEF a
<1>7. /\ Len(q) = Len(a) + 1 /\ Len(a) \in Nat /\ q \in Seq(StepType)
      /\ \A n \in 1 .. Len(a) + 1 : q[n] = IF n <= Len(a) THEN a[n] ELSE Do("clear")
  <2>1. <<Do("clear")>> \in Seq(StepType) /\ Len(<<Do("clear")>>) = 1 /\ <<Do("clear")>>[1] = Do("clear")
    BY <1>4
  <2>2. /\ Len(q) = Len(a) + 1 /\ Len(a) \in Nat /\ q \in Seq(StepType)
        /\ \A n \in 1 .. Len(a) + 1 : q[n] = IF n <= Len(a) THEN a[n] ELSE <<Do("clear")>>[n - Len(a)]
    BY <1>5, <2>1, ConcatProperties, LenProperties
  <2>3. \A n \in 1 .. Len(a) + 1 : ~ n <= Len(a) => n - Len(a) = 1
    BY <2>2
  <2>. QED BY <2>1, <2>2, <2>3
<1>8. todo'[th] = q /\ \A u \in Threads \ {th} : todo'[u] = todo[u]
  <2>1. Tail(<<Do("finalize")>>) = <<>>
    OBVIOUS
  <2>2. q \o <<>> = q
    BY <1>7
  <2>. QED BY <1>1, <1>2, <2>1, <2>2 DEF Then, LifeInv, TypeInv
<1>. HIDE DEF q
<1>9. \A m, n \in 1 .. Len(q) : m < n => q[m] # Workers /\ q[m].op \notin LastOps
  <2>1. \A m \in 1 .. Len(a) : a[m].op \in {"signals", "fire"}
    BY <1>5, <1>6, Entries
  <2>2. \A m, n \in 1 .. Len(q) : m < n => m \in 1 .. Len(a) /\ q[m] = a[m]
    BY <1>7
  <2>. QED BY <2>1, <2>2, OpOf DEF LastOps, Workers
<1>10. Close' = Close /\ Workers' = Workers
  BY DEF Close, Workers, Do
<1>11. \A u \in Threads : \A x \in ToSet(todo'[u]) : x.op \in ShutdownOps => u \in Callers
  BY <1>2, <1>8 DEF OrderInv
<1>12. \A u \in Threads : \A m, n \in 1 .. Len(todo'[u]) :
         m < n => /\ todo'[u][m] = Workers => todo'[u][n] # Close
                  /\ todo'[u][m].op \notin LastOps
  BY <1>8, <1>9 DEF OrderInv
<1>. QED BY <1>10, <1>11, <1>12 DEF OrderInv

LEMMA ShutdownsShut ==
  ASSUME Onward, ShutInv, OneCaller, NEW th \in Threads
  PROVE  /\ JoinWatchdog(th) \/ CloseEngine(th) \/ JoinWorkers(th) => ShutInv'
         /\ Finalize(th) => ShutInv'
         /\ ClearCallbacks(th) => ShutInv'
<1>0. /\ job \in [Jobs -> JobStates] /\ callback \in [Tasks -> {"none", "waits", "told", "dropped"}]
      /\ status \in [Tasks -> Statuses]
  BY DEF Onward, LifeInv, TypeInv
<1>1. ASSUME NEW S, Does(th, S), Innocent(S) PROVE OrderInv'
  BY <1>1, TakesInOrder DEF Onward, LifeInv, ShutInv, Innocent
<1>2. Innocent({})
  BY DEF Innocent, ShutdownOps
<1>7. ASSUME NEW op, At(th, op) PROVE /\ \A other : other # op => Leaves(th, other)
                                      /\ Idle(th) /\ down => th \in Callers \/ (th \in Jobs /\ Pending(Workers))
                                      /\ op \in ShutdownOps \cap OtherOps => th \in Callers
  <2>1. Head(todo[th]).op = op /\ ~ Idle(th)
    BY <1>7, AtIsBusy
  <2>2. op \in ShutdownOps \cap OtherOps => th \in Callers
    BY <1>7, HeadIs, OpOf DEF Onward, ShutInv, OrderInv
  <2>. QED BY <2>1, <2>2 DEF Leaves
<1>8. ASSUME JoinWatchdog(th) PROVE ShutInv'
  <2>1. Does(th, {})
    BY <1>8, ShutdownsDo DEF Onward
  <2>2. UNCHANGED <<status, down, callback, engineDown, job>> /\ Idle(Watchdog) /\ At(th, "joinWatchdog")
    BY <1>8 DEF JoinWatchdog
  <2>3. /\ Leaves(th, "closeEngine") /\ Leaves(th, "joinWorkers") /\ Leaves(th, "finalize")
        /\ Leaves(th, "clear")
        /\ Idle(th) /\ down => th \in Callers \/ (th \in Jobs /\ Pending(Workers))
    BY <1>7, <2>2
  <2>4. th \in Callers
    BY <1>7, <2>2 DEF ShutdownOps, OtherOps
  <2>5. OrderInv'
    BY <1>1, <1>2, <2>1
  <2>6. /\ \A t \in Tasks : status'[t] = status[t] /\ callback'[t] = callback[t]
        /\ \A j \in Jobs : job'[j] = job[j]
    BY <2>2
  <2>. QED BY <2>1, <2>2, <2>3, <2>4, <2>5, <2>6, ShutStep
<1>3. ASSUME CloseEngine(th) PROVE ShutInv'
  <2>. DEFINE S == {Record("record", j, "Cancelled") : j \in {i \in Jobs : job[i] = "Queued"}}
  <2>1. Does(th, S)
    BY <1>3, ShutdownsDo DEF Onward
  <2>2. Innocent(S)
    BY OpOf DEF Innocent, ShutdownOps
  <2>3. /\ UNCHANGED <<status, down, callback>> /\ Head(todo[th]).op = "closeEngine" /\ engineDown'
        /\ \A j \in Jobs : job'[j] # "Queued" /\ (job'[j] = "Running" => job[j] = "Running")
    BY <1>0, <1>3, AtIsBusy DEF CloseEngine
  <2>4. /\ Leaves(th, "joinWatchdog") /\ Leaves(th, "joinWorkers") /\ Leaves(th, "finalize")
        /\ Leaves(th, "clear")
        /\ Idle(th) /\ down => th \in Callers \/ (th \in Jobs /\ Pending(Workers))
    BY <1>3, <1>7 DEF CloseEngine
  <2>5. OrderInv'
    BY <1>1, <2>1, <2>2
  <2>6. down => \A x \in S : x.op # "enterPipeline"
    BY <2>2 DEF Innocent, ShutdownOps
  <2>. HIDE DEF S
  <2>. QED BY <2>1, <2>3, <2>4, <2>5, <2>6, ShutStep
<1>4. ASSUME JoinWorkers(th) PROVE ShutInv'
  <2>1. Does(th, {})
    BY <1>4, ShutdownsDo DEF Onward
  <2>2. /\ UNCHANGED <<status, down, callback, engineDown, job>> /\ Head(todo[th]).op = "joinWorkers"
        /\ \A j \in Jobs : job[j] # "Running" /\ Idle(j)
    BY <1>4, AtIsBusy DEF JoinWorkers
  <2>3. (down => engineDown) /\ th \in Callers
    <3>1. ~ Pending(Close) /\ th \in Callers
      BY <1>4, WorkersAreLast DEF JoinWorkers, Onward, ShutInv
    <3>. QED BY <3>1 DEF ShutInv
  <2>4. /\ Leaves(th, "joinWatchdog") /\ Leaves(th, "closeEngine") /\ Leaves(th, "finalize")
        /\ Leaves(th, "clear")
        /\ Idle(th) /\ down => th \in Callers \/ (th \in Jobs /\ Pending(Workers))
    BY <1>4, <1>7 DEF JoinWorkers
  <2>5. OrderInv'
    BY <1>1, <1>2, <2>1
  <2>6. /\ \A t \in Tasks : status'[t] = status[t] /\ callback'[t] = callback[t]
        /\ \A j \in Jobs : job'[j] = job[j]
    BY <2>2
  <2>. QED BY <2>1, <2>2, <2>3, <2>4, <2>5, <2>6, ShutStep
<1>5. ASSUME Finalize(th) PROVE ShutInv'
  <2>. DEFINE left == {t \in Tasks : Live(status, t)}
              S == {Do("signals"), Do("clear")} \cup Each("fire", left)
  <2>1. Does(th, S)
    BY <1>5, ShutdownsDo DEF Onward
  <2>2. UNCHANGED <<down, callback, engineDown, job>> /\ Head(todo[th]).op = "finalize" /\ ~ Idle(th)
    BY <1>5, AtIsBusy DEF Finalize
  <2>3. \A t \in Tasks : ~ Live(status', t)
    <3>1. status' = [t \in Tasks |-> IF t \in left THEN "Canceled" ELSE status[t]]
      BY <1>5 DEF Finalize
    <3>. QED BY <3>1 DEF Live, Final
  <2>. HIDE DEF left
  <2>4. Do("clear") \in S /\ \A x \in S : x.op \in {"signals", "clear", "fire"}
    BY OpOf
  <2>. HIDE DEF S
  <2>5. /\ Leaves(th, "joinWatchdog") /\ Leaves(th, "closeEngine") /\ Leaves(th, "joinWorkers")
        /\ Leaves(th, "clear")
        /\ Idle(th) /\ down => th \in Callers \/ (th \in Jobs /\ Pending(Workers))
    BY <1>5, <1>7 DEF Finalize
  <2>6. OrderInv'
    BY <1>5, FinalizeInOrder DEF Onward, ShutInv
  <2>7. down => \A x \in S : x.op # "enterPipeline"
    BY <2>4
  <2>8. /\ \A t \in Tasks : callback'[t] = callback[t]
        /\ \A j \in Jobs : job'[j] = job[j]
    BY <2>2
  <2>. QED BY <2>1, <2>2, <2>3, <2>4, <2>5, <2>6, <2>7, <2>8, ShutStep
<1>6. ASSUME ClearCallbacks(th) PROVE ShutInv'
  <2>1. Does(th, {})
    BY <1>6, ShutdownsDo DEF Onward
  <2>2. UNCHANGED <<status, down, engineDown, job>> /\ Head(todo[th]).op = "clear" /\ ~ Idle(th)
    BY <1>6, AtIsBusy DEF ClearCallbacks
  <2>3. \A t \in Tasks : callback'[t] # "waits"
    BY <1>6 DEF ClearCallbacks
  <2>4. /\ Leaves(th, "joinWatchdog") /\ Leaves(th, "closeEngine") /\ Leaves(th, "joinWorkers")
        /\ Leaves(th, "finalize")
        /\ Idle(th) /\ down => th \in Callers \/ (th \in Jobs /\ Pending(Workers))
    BY <1>6, <1>7 DEF ClearCallbacks
  <2>5. OrderInv'
    BY <1>1, <1>2, <2>1
  <2>6. /\ \A t \in Tasks : status'[t] = status[t]
        /\ \A j \in Jobs : job'[j] = job[j]
    BY <2>2
  <2>. QED BY <2>1, <2>2, <2>3, <2>4, <2>5, <2>6, ShutStep
<1>. QED BY <1>3, <1>4, <1>5, <1>6, <1>8

\* shutdown() takes its steps in order
LEMMA ShutdownInOrder ==
  ASSUME LifeInv, OrderInv, NEW th \in Callers, Shutdown(th)
  PROVE  OrderInv'
<1>. DEFINE q == <<Do("joinWatchdog"), Do("cancelAll"), Do("closeEngine"), Do("joinWorkers"), Do("finalize")>>
<1>0. th \in Threads /\ todo \in [Threads -> Seq(StepType)]
  BY DEF Threads, LifeInv, TypeInv
<1>2. todo'[th] = q /\ \A u \in Threads \ {th} : todo'[u] = todo[u]
  BY <1>0 DEF Shutdown, Call
<1>3. /\ Len(q) = 5 /\ q[1] = Do("joinWatchdog") /\ q[2] = Do("cancelAll") /\ q[3] = Close
      /\ q[4] = Workers /\ q[5] = Do("finalize")
  BY DEF Close, Workers
<1>4. ToSet(q) = {q[1], q[2], q[3], q[4], q[5]}
  BY DEF ToSet
<1>5. /\ Do("finalize") # Close /\ Workers # Close /\ Workers # Do("joinWatchdog")
      /\ Workers # Do("cancelAll")
  BY DEF Close, Workers, Do
<1>. HIDE DEF q
<1>6. \A m, n \in 1 .. 5 : m < n /\ q[m] = Workers => q[n] # Close
  <2>1. \A m \in 1 .. 5 : m \in {1, 2, 3, 4, 5}
    OBVIOUS
  <2>2. \A m \in 1 .. 5 : q[m] = Workers => m = 4
    <3>1. \A m \in {1, 2, 3, 4, 5} : q[m] = Workers => m = 4 \/ m = 5
      BY <1>3, <1>5
    <3>2. q[5] # Workers
      BY <1>3 DEF Workers, Do
    <3>. QED BY <2>1, <3>1, <3>2
  <2>3. \A n \in 1 .. 5 : 4 < n => n = 5
    OBVIOUS
  <2>. QED BY <1>3, <1>5, <2>2, <2>3
<1>. QED
  <2>1. \A u \in Threads : \A x \in ToSet(todo'[u]) : x.op \in ShutdownOps => u \in Callers
    BY <1>2 DEF OrderInv
  <2>4. \A m, n \in 1 .. 5 : m < n => q[m].op \notin LastOps
    <3>1. \A m \in 1 .. 5 : m \in {1, 2, 3, 4, 5}
      OBVIOUS
    <3>2. \A m, n \in 1 .. 5 : m < n => m \in {1, 2, 3, 4}
      OBVIOUS
    <3>3. /\ q[1].op = "joinWatchdog" /\ q[2].op = "cancelAll" /\ q[3].op = "closeEngine"
          /\ q[4].op = "joinWorkers"
      BY <1>3, OpOf DEF Close, Workers
    <3>. QED BY <3>2, <3>3 DEF LastOps
  <2>2. \A u \in Threads : \A m, n \in 1 .. Len(todo'[u]) :
          m < n => /\ todo'[u][m] = Workers => todo'[u][n] # Close
                   /\ todo'[u][m].op \notin LastOps
    <3>1. ASSUME NEW m \in 1 .. Len(todo'[th]), NEW n \in 1 .. Len(todo'[th]), m < n
          PROVE  (todo'[th][m] = Workers => todo'[th][n] # Close) /\ todo'[th][m].op \notin LastOps
      BY <1>2, <1>3, <1>6, <2>4, <3>1
    <3>. QED BY <1>2, <3>1 DEF OrderInv
  <2>3. Close' = Close /\ Workers' = Workers
    BY DEF Close, Workers, Do
  <2>. QED BY <2>1, <2>2, <2>3 DEF OrderInv

LEMMA ShutdownShuts ==
  ASSUME Onward, ShutInv, OneCaller, NEW th \in Callers, Shutdown(th)
  PROVE  ShutInv'
<1>. DEFINE q == <<Do("joinWatchdog"), Do("cancelAll"), Do("closeEngine"), Do("joinWorkers"), Do("finalize")>>
<1>0. th \in Threads /\ todo \in [Threads -> Seq(StepType)]
  BY DEF Threads, Onward, LifeInv, TypeInv
<1>1. ~ down /\ Idle(th) /\ UNCHANGED <<engineDown, job>>
  BY DEF Shutdown, Call
<1>2. todo'[th] = q /\ \A u \in Threads \ {th} : todo'[u] = todo[u]
  BY <1>0 DEF Shutdown, Call
<1>3. /\ Len(q) = 5 /\ q[1] = Do("joinWatchdog") /\ q[2] = Do("cancelAll") /\ q[3] = Close
      /\ q[4] = Workers /\ q[5] = Do("finalize")
  BY DEF Close, Workers
<1>4. ToSet(q) = {q[1], q[2], q[3], q[4], q[5]}
  BY DEF ToSet
<1>. HIDE DEF q
<1>7. OrderInv'
  BY ShutdownInOrder DEF Onward, ShutInv
<1>8. NobodyEnters'
  <2>1. \A x \in ToSet(q) : x.op # "enterPipeline"
    BY <1>3, <1>4 DEF Close, Workers, Do
  <2>2. ASSUME NEW u \in Threads \ {th}, NEW x \in ToSet(todo[u]), x.op = "enterPipeline" PROVE FALSE
    <3>1. u \in Callers
      BY <2>2 DEF Onward, LifeInv, EntersInv, Enters
    <3>. QED BY <2>2, <3>1 DEF OneCaller
  <2>. QED BY <1>2, <2>1, <2>2 DEF NobodyEnters
<1>9. Pending(Close)' /\ Pending(Workers)' /\ Pending(Do("finalize"))' /\ Pending(Do("joinWatchdog"))'
  BY <1>0, <1>2, <1>3, <1>4 DEF Pending, Close, Workers
<1>10. (engineDown => NoJobLeft({"Queued"}))'
  BY <1>1 DEF ShutInv, NoJobLeft
<1>. QED BY <1>7, <1>8, <1>9, <1>10 DEF ShutInv

LEMMA ShutInit == Init => ShutInv
<1>. SUFFICES ASSUME Init PROVE ShutInv
  OBVIOUS
<1>1. OrderInv
  <2>1. \A th \in Threads : todo[th] = <<>>
    BY DEF Init
  <2>2. ToSet(<<>>) = {} /\ Len(<<>>) = 0
    BY DEF ToSet
  <2>3. 1 .. 0 = {}
    OBVIOUS
  <2>. QED BY <2>1, <2>2, <2>3 DEF OrderInv
<1>. QED BY <1>1 DEF Init, ShutInv

LEMMA ShutNext == OneCaller /\ LifeInv /\ LifeInv' /\ ShutInv /\ [Next]_vars => ShutInv'
<1>. SUFFICES ASSUME OneCaller, LifeInv, LifeInv', ShutInv, [Next]_vars PROVE ShutInv'
  OBVIOUS
<1>1. CASE UNCHANGED vars
  <2>1. \A x : Pending(x)' <=> Pending(x)
    BY <1>1 DEF Pending
  <2>2. OrderInv' /\ (NobodyEnters' <=> NobodyEnters)
    BY <1>1 DEF ShutInv, OrderInv, NobodyEnters, Close, Workers
  <2>3. \A t \in Tasks : status'[t] = status[t] /\ callback'[t] = callback[t]
    BY <1>1
  <2>4. (NoTaskLeft => NoTaskLeft') /\ (NobodyWaits => NobodyWaits')
    BY <2>3 DEF NoTaskLeft, NobodyWaits, Live
  <2>5. \A S : NoJobLeft(S)' <=> NoJobLeft(S)
    BY <1>1 DEF NoJobLeft
  <2>6. Close' = Close /\ Workers' = Workers
    BY DEF Close, Workers, Do
  <2>7. WorkersIdle' = WorkersIdle /\ Idle(Watchdog)' = Idle(Watchdog)
    BY <1>1 DEF WorkersIdle, Idle
  <2>. QED BY <1>1, <2>1, <2>2, <2>4, <2>5, <2>6, <2>7 DEF ShutInv
<1>2. CASE Next
  <2>0. Onward
    <3>1. OneWayStep \/ UNCHANGED vars
      BY LifeNext
    <3>2. UNCHANGED vars => OneWayStep
      BY DEF OneWayStep
    <3>. QED BY <3>1, <3>2 DEF Onward
  <2>1. ASSUME NEW u \in Callers, Calls(u) PROVE ShutInv'
    <3>1. u \in Threads
      BY DEF Threads
    <3>. QED BY <2>0, <2>1, <3>1, SubmissionsShut, PassesShut, CallbacksShut, ShutdownShuts DEF Calls
  <2>2. ASSUME NEW th \in Threads, ThreadStep(th) PROVE ShutInv'
    BY <2>0, <2>2, SubmissionsShut, PassesShut, RecordsShut, EnginesShut, CallbacksShut, ShutdownsShut
       DEF ThreadStep
  <2>3. ASSUME NEW j \in Jobs, JobStarts(j) \/ \E end \in JobEnds : JobEndsAs(j, end) PROVE ShutInv'
    BY <2>0, <2>3, EnginesShut
  <2>4. ASSUME NEW j \in Jobs, NEW t \in Tasks, SubmitJob(j, t) PROVE ShutInv'
    <3>1. j \in Threads
      BY DEF Threads
    <3>. QED BY <2>0, <2>4, <3>1, SubmissionsShut
  <2>. QED BY <1>2, <2>0, <2>1, <2>2, <2>3, <2>4, EnforcesShut DEF Next
<1>. QED BY <1>1, <1>2

(* shutdown() leaves nothing behind: when it has returned and every call   *)
(* is over, no task is live, no callback waits and no job is left in the   *)
(* engine, as long as the thread that calls it is the only one that calls  *)
(* from outside. (submitPipeline() looks at m_isShuttingDown before it     *)
(* takes the lock and not again: a second caller may bring in a pipeline   *)
(* after all tasks were cancelled.)                                        *)
THEOREM ShutdownIsComplete ==
  ASSUME \A u, v \in Callers : u = v
  PROVE  Spec => []ShutdownLeavesNothing
<1>0. OneCaller
  BY DEF OneCaller
<1>1. ShutInv => ShutdownLeavesNothing
  <2>1. ASSUME \A th \in Threads : Idle(th) PROVE \A x : ~ Pending(x)
    BY <2>1 DEF Idle, Pending, ToSet
  <2>. QED BY <2>1 DEF ShutInv, ShutdownLeavesNothing, NoTaskLeft, NobodyWaits, NoJobLeft
<1>2. LifeInv /\ ShutInv /\ [Next]_vars => LifeInv' /\ ShutInv'
  BY <1>0, LifeNext, ShutNext
<1>. QED BY <1>1, <1>2, LifeInit, ShutInit, PTL DEF Spec

-----------------------------------------------------------------------------
(* Every end is told to whoever waits for it.                              *)

\* a callback waits on a task that is known, and once the task is over some
\* thread is about to fire it
Telling(t) == Pending(DoFor("fire", t)) \/ (down /\ Pending(DoFor("armed", t)))

TellInv ==
  /\ \A t \in Tasks : /\ callback[t] # "dropped"
                      /\ callback[t] = "waits" => status[t] # "Absent"
                      /\ callback[t] = "waits" /\ status[t] \in Final => Telling(t)
  /\ \A x : Pending(x) /\ x.op \in LastOps => down

\* the ends this step brings about are told by what the thread does next
Tells(S) ==
  \A t \in Tasks : status'[t] \in Final /\ status[t] \notin Final =>
     DoFor("fire", t) \in S \/ (down' /\ DoFor("armed", t) \in S)
Remains == \A t \in Tasks : status'[t] = "Absent" => status[t] = "Absent"

LEMMA TellStep ==
  ASSUME Onward, TellInv, NEW th \in Threads, NEW S, Does(th, S), down => down', Remains, Tells(S),
         \A t \in Tasks : /\ callback'[t] # "dropped"
                          /\ callback'[t] = "waits" => callback[t] = "waits" \/ Live(status, t),
         \A t \in Tasks : Idle(th) \/ Head(todo[th]) # DoFor("fire", t) \/ callback'[t] # "waits",
         \A t \in Tasks : \/ Idle(th) \/ Head(todo[th]) # DoFor("armed", t)
                          \/ ~ down \/ DoFor("fire", t) \in S,
         \A x \in S : x.op \in LastOps => down'
  PROVE  TellInv'
<1>1. /\ \A x \in S : Pending(x)'
      /\ \A x : Pending(x) /\ (Idle(th) \/ x # Head(todo[th])) => Pending(x)'
      /\ \A x : Pending(x)' => x \in S \/ Pending(x)
  BY DoesPending DEF Onward, LifeInv
<1>2. \A x : Pending(x)' /\ x.op \in LastOps => down'
  BY <1>1 DEF TellInv
<1>3. ASSUME NEW t \in Tasks, callback'[t] = "waits"
      PROVE  status'[t] # "Absent" /\ (status'[t] \in Final => Telling(t)')
  <2>1. status[t] # "Absent"
    BY <1>3 DEF TellInv, Live
  <2>2. ASSUME status'[t] \in Final, status[t] \notin Final PROVE Telling(t)'
    <3>1. DoFor("fire", t) \in S \/ (down' /\ DoFor("armed", t) \in S)
      BY <2>2 DEF Tells
    <3>. QED BY <1>1, <3>1 DEF Telling
  <2>3. ASSUME status[t] \in Final PROVE Telling(t)'
    <3>1. Telling(t)
      BY <1>3, <2>3 DEF TellInv, Live
    <3>2. CASE Pending(DoFor("fire", t))
      BY <1>1, <1>3, <3>2 DEF Telling
    <3>3. CASE down /\ Pending(DoFor("armed", t))
      BY <1>1, <3>3 DEF Telling
    <3>. QED BY <3>1, <3>2, <3>3 DEF Telling
  <2>. QED BY <2>1, <2>2, <2>3 DEF Remains
<1>. QED BY <1>2, <1>3 DEF TellInv

\* a step that neither fires a callback nor makes one wait
Mute(th) == Idle(th) \/ Head(todo[th]).op \notin {"fire", "armed"}

LEMMA MuteStep ==
  ASSUME Onward, TellInv, NEW th \in Threads, NEW S, Does(th, S), callback' = callback, down => down',
         Mute(th), Remains, Tells(S), \A x \in S : x.op \in LastOps => down'
  PROVE  TellInv'
<1>1. \A t \in Tasks : /\ Idle(th) \/ Head(todo[th]) # DoFor("fire", t)
                       /\ Idle(th) \/ Head(todo[th]) # DoFor("armed", t)
  BY OpOf DEF Mute
<1>2. \A t \in Tasks : /\ callback'[t] # "dropped"
                       /\ callback'[t] = "waits" => callback[t] = "waits" \/ Live(status, t)
  BY DEF TellInv
<1>. QED BY <1>1, <1>2, TellStep

\* ... and ends no task
LEMMA QuietTells ==
  ASSUME Onward, TellInv, NEW th \in Threads, NEW S, Does(th, S), callback' = callback, down => down',
         Mute(th), status' = status, \A x \in S : x.op \in LastOps => down'
  PROVE  TellInv'
<1>1. Remains /\ Tells(S)
  BY DEF Remains, Tells
<1>. QED BY <1>1, MuteStep

AllResolve == Unresolved = {}

\* a pass ends no task when every placeholder resolves
LEMMA PassEnds ==
  ASSUME AllResolve, NEW timers, NEW s \in [Tasks -> Statuses], NEW queued \in SUBSET Tasks,
         PassBefore(timers, s, queued)
  PROVE  \A t \in Tasks : /\ status'[t] = "Absent" => s[t] = "Absent"
                          /\ status'[t] \in Final => s[t] \in Final
<1>1. PICK launched, failing \in SUBSET Tasks : Splits(s, launched, failing)
  BY PassSplit
<1>2. failing = {}
  BY <1>1 DEF Splits, AllResolve
<1>. QED BY <1>1, <1>2 DEF Splits, Final, ReadyLike

\* a section that ends with a pass
LEMMA PassTells ==
  ASSUME Onward, TellInv, AllResolve, NEW th \in Threads, NEW S, Does(th, S), callback' = callback,
         down' = down, Mute(th), \A x \in S : x.op \notin LastOps,
         NEW timers, NEW s \in [Tasks -> Statuses], NEW queued \in SUBSET Tasks,
         PassBefore(timers, s, queued),
         \A t \in Tasks : /\ s[t] = "Absent" => status[t] = "Absent"
                          /\ s[t] \in Final /\ status[t] \notin Final =>
                               DoFor("fire", t) \in S \/ (down /\ DoFor("armed", t) \in S)
  PROVE  TellInv'
<1>1. \A t \in Tasks : /\ status'[t] = "Absent" => s[t] = "Absent"
                       /\ status'[t] \in Final => s[t] \in Final
  BY PassEnds
<1>2. Remains /\ Tells(S)
  BY <1>1 DEF Remains, Tells
<1>. QED BY <1>2, MuteStep

LEMMA CascadeEnds ==
  ASSUME NEW s, NEW targets
  PROVE  \A t \in Tasks : Cascade(s, targets)[t] \in Final /\ s[t] \notin Final =>
           t \in CanceledAtOnce(s, targets)
BY DEF Cascade, CanceledAtOnce, Live, Final

LEMMA EachHas == \A op, A : \A x \in A : DoFor(op, x) \in Each(op, A)
BY DEF Each

LEMMA PassesTell ==
  ASSUME Onward, TellInv, AllResolve, NEW th \in Threads
  PROVE  /\ EnterPipeline(th) => TellInv'
         /\ Arm(th) => TellInv'
         /\ TimerFires(th) => TellInv'
<1>0. status \in [Tasks -> Statuses] /\ ready \subseteq Tasks
  BY DEF Onward, LifeInv, TypeInv
<1>1. \A x \in Flushes : x.op \notin LastOps
  BY OpOf DEF LastOps
<1>2. ASSUME EnterPipeline(th) PROVE TellInv'
  <2>. DEFINE N == DOMAIN Arg(th)
              s == [t \in Tasks |-> IF t \in N THEN "Queued" ELSE status[t]]
              queued == ready \cup {t \in N : IsLaunchCandidate(s, t)}
  <2>1. At(th, "enterPipeline")
    BY <1>2 DEF EnterPipeline
  <2>2. N \subseteq Tasks
    <3>1. Arg(th) \in Pipelines
      BY <2>1, HeadFacts DEF Onward
    <3>. QED BY <3>1, TasksAssumption
  <2>3. PassBefore(rearm, s, queued) /\ callback' = callback /\ down' = down
    BY <1>2 DEF EnterPipeline, Pass
  <2>4. Does(th, Flushes)
    BY <1>2, SubmissionsDo DEF Onward
  <2>10. Mute(th)
    BY <2>1, AtIsBusy DEF Mute
  <2>5. queued \in SUBSET Tasks
    BY <1>0, <2>2
  <2>6. s \in [Tasks -> Statuses]
    BY <1>0 DEF Statuses, ReadyLike
  <2>. HIDE DEF N
  <2>7. \A t \in Tasks : s[t] = IF t \in N THEN "Queued" ELSE status[t]
    OBVIOUS
  <2>. HIDE DEF s, queued
  <2>8. \A t \in Tasks : /\ s[t] = "Absent" => status[t] = "Absent"
                         /\ s[t] \in Final => status[t] \in Final
    BY <2>7 DEF Final
  <2>. QED BY <1>1, <2>3, <2>4, <2>5, <2>6, <2>8, <2>10, PassTells
<1>3. ASSUME Arm(th) PROVE TellInv'
  <2>. DEFINE t == Arg(th)
              s == [status EXCEPT ![t] = Arms(t)]
              queued == IF ~ down /\ IsLaunchCandidate(s, t) THEN ready \cup {t} ELSE ready
              S == Flushes \cup {DoFor("armed", t)}
  <2>1. At(th, "arm")
    BY <1>3 DEF Arm
  <2>2. t \in Tasks
    BY <2>1, Ops, HeadFacts DEF Onward
  <2>3. PassBefore(rearm, s, queued) /\ callback' = callback /\ down' = down
    BY <1>3 DEF Arm, Pass
  <2>4. Does(th, S)
    BY <1>3, SubmissionsDo DEF Onward
  <2>10. Mute(th)
    BY <2>1, AtIsBusy DEF Mute
  <2>5. queued \in SUBSET Tasks
    BY <1>0, <2>2
  <2>6. \A u \in Tasks : s[u] = IF u = t THEN Arms(t) ELSE status[u]
    BY <1>0, <2>2
  <2>7. s \in [Tasks -> Statuses] /\ (Arms(t) = "Absent" => status[t] = "Absent")
        /\ (~ down => Arms(t) = status[t])
    BY <1>0, <2>2 DEF Statuses, Arms, Final
  <2>8. DoFor("armed", t) \in S /\ \A x \in S : x.op \notin LastOps
    BY <1>1, OpOf DEF LastOps
  <2>. HIDE DEF s, queued, t, S
  <2>9. \A u \in Tasks : /\ s[u] = "Absent" => status[u] = "Absent"
                         /\ s[u] \in Final /\ status[u] \notin Final => down /\ DoFor("armed", u) \in S
    BY <2>6, <2>7, <2>8
  <2>. QED BY <2>3, <2>4, <2>5, <2>7, <2>8, <2>9, <2>10, PassTells
<1>4. ASSUME TimerFires(th) PROVE TellInv'
  <2>1. PICK others \in BOOLEAN : PassBefore(others, status, ready)
    BY <1>4 DEF TimerFires
  <2>2. callback' = callback /\ down' = down /\ Mute(th)
    BY <1>4 DEF TimerFires, Mute, Call
  <2>3. Does(th, Flushes)
    BY <1>4, SubmissionsDo DEF Onward
  <2>4. ready \in SUBSET Tasks
    BY <1>0
  <2>. QED BY <1>0, <1>1, <2>1, <2>2, <2>3, <2>4, PassTells
<1>. QED BY <1>2, <1>3, <1>4

LEMMA CancelLockedTells ==
  ASSUME Onward, TellInv, AllResolve, NEW th \in Threads, Mute(th), NEW t, CancelLocked(t),
         Does(th, CancelDoes(status, {t} \cup Descendants(status, t)))
  PROVE  TellInv'
<1>. DEFINE targets == {t} \cup Descendants(status, t)
            s == Cascade(status, targets)
            S == CancelDoes(status, targets)
<1>1. PassBefore(rearm, s, ready) /\ callback' = callback /\ down' = down
  BY DEF CancelLocked, Pass
<1>2. Does(th, S)
  OBVIOUS
<1>. HIDE DEF targets
<1>3. \A x \in S : x.op \in {"cancel", "flush", "signals", "fire"}
  BY OpOf DEF CancelDoes
<1>4. \A x \in S : x.op \notin LastOps
  BY <1>3 DEF LastOps
<1>5. \A u \in Tasks : /\ s[u] = "Absent" => status[u] = "Absent"
                       /\ s[u] \in Final /\ status[u] \notin Final => u \in CanceledAtOnce(status, targets)
  BY CascadeLives, CascadeEnds
<1>6. \A u \in CanceledAtOnce(status, targets) : DoFor("fire", u) \in S
  BY EachHas DEF CancelDoes
<1>. HIDE DEF S
<1>7. ready \in SUBSET Tasks /\ s \in [Tasks -> Statuses]
  <2>1. Calm(s)
    BY CalmFacts DEF Onward
  <2>. QED BY <2>1 DEF Calm, Onward, LifeInv, TypeInv
<1>. HIDE DEF s
<1>. QED BY <1>1, <1>2, <1>4, <1>5, <1>6, <1>7, PassTells

LEMMA CancelsTell ==
  ASSUME Onward, TellInv, AllResolve, NEW th \in Threads
  PROVE  (\E t : CancelTask(th, t)) \/ CancelForShutdown(th) => TellInv'
<1>1. ASSUME NEW t, CancelTask(th, t) PROVE TellInv'
  <2>1. Does(th, CancelDoes(status, {t} \cup Descendants(status, t)))
    BY <1>1, CancelsDo DEF Onward
  <2>2. CancelLocked(t) /\ Mute(th)
    BY <1>1 DEF CancelTask, Call, Mute
  <2>. QED BY <2>1, <2>2, CancelLockedTells
<1>2. ASSUME CancelForShutdown(th) PROVE TellInv'
  <2>0. Mute(th)
    BY <1>2, AtIsBusy DEF CancelForShutdown, Mute
  <2>1. CASE Live(status, Arg(th))
    <3>1. Does(th, CancelDoes(status, {Arg(th)} \cup Descendants(status, Arg(th))))
      BY <1>2, <2>1, CancelsDo DEF Onward
    <3>2. CancelLocked(Arg(th))
      BY <1>2, <2>1 DEF CancelForShutdown
    <3>. QED BY <2>0, <3>1, <3>2, CancelLockedTells
  <2>2. CASE ~ Live(status, Arg(th))
    <3>1. Does(th, {})
      BY <1>2, <2>2, CancelsDo DEF Onward
    <3>2. UNCHANGED <<status, callback, down>>
      BY <1>2, <2>2 DEF CancelForShutdown
    <3>. QED BY <2>0, <3>1, <3>2, QuietTells
  <2>. QED BY <2>1, <2>2
<1>. QED BY <1>1, <1>2

LEMMA MarkTells ==
  ASSUME Onward, TellInv, AllResolve, NEW th \in Threads, Mark(th)
  PROVE  TellInv'
<1>. DEFINE t == TaskOf(Arg(th))
<1>1. At(th, "mark") /\ ~ Idle(th) /\ Mute(th) /\ UNCHANGED <<callback, down>>
  BY AtIsBusy DEF Mark, Mute
<1>2. t \in Tasks
  BY <1>1, Ops, HeadFacts DEF Onward
<1>3. status \in [Tasks -> Statuses] /\ ready \subseteq Tasks
  BY DEF Onward, LifeInv, TypeInv
<1>4. CASE ~ Live(status, t)
  <2>1. Then(th, <<>>) /\ status' = status
    BY <1>4 DEF Mark, Done
  <2>2. Does(th, {})
    BY <1>1, <2>1, OfNone, ThenDoes
  <2>. QED BY <1>1, <2>1, <2>2, QuietTells
<1>5. CASE Live(status, t) /\ MarkTaskCompleted(th, t)
  <2>. DEFINE s == Set(t, "Completed")
              queued == ready \cup Promoted(s, t)
              S == Flushes \cup {DoFor("fire", t)}
  <2>1. PassBefore(rearm, s, queued)
    BY <1>5 DEF MarkTaskCompleted, Pass
  <2>2. Does(th, S)
    BY <1>1, <1>2, <1>5, MarksDo DEF Onward
  <2>3. DoFor("fire", t) \in S /\ \A x \in S : x.op \notin LastOps
    BY OpOf DEF LastOps
  <2>4. \A u \in Tasks : s[u] = IF u = t THEN "Completed" ELSE status[u]
    BY <1>2, <1>3 DEF Set
  <2>5. s \in [Tasks -> Statuses] /\ queued \in SUBSET Tasks
    BY <1>3 DEF Set, Statuses, Final, Promoted
  <2>. HIDE DEF s, queued, S, t
  <2>6. \A u \in Tasks : /\ s[u] = "Absent" => status[u] = "Absent"
                         /\ s[u] \in Final /\ status[u] \notin Final => DoFor("fire", u) \in S
    BY <2>3, <2>4
  <2>. QED BY <1>1, <2>1, <2>2, <2>3, <2>5, <2>6, PassTells
<1>6. CASE Live(status, t) /\ AutoRetry(th, t)
  <2>. DEFINE s == Set(t, "Queued")
              queued == IF IsLaunchCandidate(s, t) THEN ready \cup {t} ELSE ready
              S == Each("cancel", OwnJob(t)) \cup Flushes
  <2>1. PassBefore(rearm, s, queued)
    BY <1>6 DEF AutoRetry, Pass
  <2>2. Does(th, S)
    BY <1>1, <1>2, <1>6, MarksDo DEF Onward
  <2>3. \A x \in S : x.op \notin LastOps
    BY OpOf DEF LastOps
  <2>4. \A u \in Tasks : s[u] = IF u = t THEN "Queued" ELSE status[u]
    BY <1>2, <1>3 DEF Set
  <2>5. s \in [Tasks -> Statuses] /\ queued \in SUBSET Tasks
    BY <1>2, <1>3 DEF Set, Statuses, ReadyLike
  <2>. HIDE DEF s, queued, S, t
  <2>6. \A u \in Tasks : /\ s[u] = "Absent" => status[u] = "Absent"
                         /\ s[u] \in Final => status[u] \in Final
    BY <2>4 DEF Final
  <2>. QED BY <1>1, <2>1, <2>2, <2>3, <2>5, <2>6, PassTells
<1>7. ASSUME Live(status, t), NEW new \in {"Canceled", "Failed"}, MarkTaskEnded(th, t, new) PROVE TellInv'
  <2>. DEFINE r == Set(t, new)
              below == Descendants(r, t)
              s == Cascade(r, below)
              S == Each("cancel", OwnJob(t) \cup JobsToCancel(r, below)) \cup Flushes
                     \cup {DoFor("fire", t)} \cup Each("fire", CanceledAtOnce(r, below))
  <2>1. PassBefore(rearm, s, ready)
    BY <1>7 DEF MarkTaskEnded, Pass, Endings
  <2>2. Does(th, S)
    BY <1>1, <1>2, <1>7, MarksDo DEF Onward
  <2>4. \A u \in Tasks : r[u] = IF u = t THEN new ELSE status[u]
    BY <1>2, <1>3 DEF Set
  <2>5. r \in [Tasks -> Statuses]
    BY <1>3 DEF Set, Statuses, Final
  <2>6. s \in [Tasks -> Statuses]
    BY <2>5 DEF Cascade, Statuses, Final, ActiveStates
  <2>. HIDE DEF below, r, t
  <2>3. \A x \in S : x.op \in {"cancel", "flush", "signals", "fire"}
    BY OpOf
  <2>7. DoFor("fire", t) \in S /\ \A u \in CanceledAtOnce(r, below) : DoFor("fire", u) \in S
    BY EachHas
  <2>8. \A u \in Tasks : /\ s[u] = "Absent" => r[u] = "Absent"
                         /\ s[u] \in Final /\ r[u] \notin Final => u \in CanceledAtOnce(r, below)
    BY CascadeLives, CascadeEnds
  <2>. HIDE DEF S, s
  <2>9. \A u \in Tasks : /\ s[u] = "Absent" => status[u] = "Absent"
                         /\ s[u] \in Final /\ status[u] \notin Final => DoFor("fire", u) \in S
    BY <2>4, <2>7, <2>8
  <2>10. ready \in SUBSET Tasks /\ \A x \in S : x.op \notin LastOps
    BY <1>3, <2>3 DEF LastOps
  <2>. QED BY <1>1, <2>1, <2>2, <2>6, <2>9, <2>10, PassTells
<1>. QED BY <1>4, <1>5, <1>6, <1>7 DEF Mark

LEMMA RecordsTell ==
  ASSUME Onward, TellInv, NEW th \in Threads
  PROVE  /\ FlushPendingLaunches(th) \/ Register(th) \/ Snapshot(th) \/ SubmitWithId(th) => TellInv'
         /\ OnJobRecord(th) \/ ProcessJobRecord(th) \/ Forget(th) \/ Link(th) => TellInv'
<1>. DEFINE Harmless == {"register", "submit", "link", "stop", "snapshot", "record", "process", "mark",
                         "forget", "signals", "fire"}
<1>0. status \in [Tasks -> Statuses]
  BY DEF Onward, LifeInv, TypeInv
<1>1. ASSUME NEW S, Does(th, S), \A x \in S : x.op \in Harmless, UNCHANGED <<callback, down>>,
             NEW op \in {"flush", "register", "link", "snapshot", "submit", "record", "process", "forget"},
             At(th, op), Remains, Tells(S)
      PROVE  TellInv'
  <2>1. Mute(th)
    BY <1>1, AtIsBusy DEF Mute
  <2>2. \A x \in S : x.op \notin LastOps
    BY <1>1 DEF LastOps
  <2>. HIDE DEF Harmless
  <2>. QED BY <1>1, <2>1, <2>2, MuteStep
<1>2. \A S : status' = status => Remains /\ Tells(S)
  BY DEF Remains, Tells
<1>3. ASSUME FlushPendingLaunches(th) PROVE TellInv'
  <2>. DEFINE S == IF down THEN {} ELSE Each("register", staged)
  <2>1. Does(th, S)
    BY <1>3, LaunchesDo DEF Onward
  <2>2. \A x \in S : x.op \in Harmless
    BY OpOf
  <2>3. At(th, "flush") /\ UNCHANGED <<status, callback, down>>
    BY <1>3 DEF FlushPendingLaunches
  <2>. HIDE DEF S, Harmless
  <2>. QED BY <1>1, <1>2, <2>1, <2>2, <2>3
<1>4. ASSUME Register(th) PROVE TellInv'
  <2>. DEFINE S == IF Live(status, TaskOf(Arg(th))) THEN {DoFor("submit", Arg(th)), DoFor("link", Arg(th))} ELSE {}
  <2>1. Does(th, S)
    BY <1>4, LaunchesDo DEF Onward
  <2>2. \A x \in S : x.op \in Harmless
    BY OpOf
  <2>3. At(th, "register") /\ UNCHANGED <<status, callback, down>>
    BY <1>4 DEF Register
  <2>. HIDE DEF S, Harmless
  <2>. QED BY <1>1, <1>2, <2>1, <2>2, <2>3
<1>5. ASSUME Snapshot(th) PROVE TellInv'
  <2>. DEFINE S == {Record("record", Arg(th), job[Arg(th)])}
  <2>1. Does(th, S)
    BY <1>5, LaunchesDo DEF Onward
  <2>2. \A x \in S : x.op \in Harmless
    BY OpOf
  <2>3. At(th, "snapshot") /\ UNCHANGED <<status, callback, down>>
    BY <1>5 DEF Snapshot
  <2>. HIDE DEF S, Harmless
  <2>. QED BY <1>1, <1>2, <2>1, <2>2, <2>3
<1>6. ASSUME SubmitWithId(th) PROVE TellInv'
  <2>. DEFINE S == IF engineDown THEN {Record("record", Arg(th), "Cancelled")} ELSE {}
  <2>1. Does(th, S)
    BY <1>6, LaunchesDo DEF Onward
  <2>2. \A x \in S : x.op \in Harmless
    BY OpOf
  <2>3. At(th, "submit") /\ UNCHANGED <<status, callback, down>>
    BY <1>6 DEF SubmitWithId
  <2>. HIDE DEF S, Harmless
  <2>. QED BY <1>1, <1>2, <2>1, <2>2, <2>3
<1>7. ASSUME OnJobRecord(th) PROVE TellInv'
  <2>. DEFINE S == IF Arg(th) \in mapped \/ Recovers(Arg(th)) THEN {Record("process", Arg(th), State(th))} ELSE {}
  <2>1. Does(th, S)
    BY <1>7, LaunchesDo DEF Onward
  <2>2. \A x \in S : x.op \in Harmless
    BY OpOf
  <2>3. At(th, "record") /\ UNCHANGED <<status, callback, down>>
    BY <1>7 DEF OnJobRecord
  <2>. HIDE DEF S, Harmless
  <2>. QED BY <1>1, <1>2, <2>1, <2>2, <2>3
<1>8. ASSUME Forget(th) PROVE TellInv'
  <2>. DEFINE S == {}
  <2>1. Does(th, S) /\ \A x \in S : x.op \in Harmless
    BY <1>8, LaunchesDo DEF Onward
  <2>3. At(th, "forget") /\ UNCHANGED <<status, callback, down>>
    BY <1>8 DEF Forget
  <2>. HIDE DEF S, Harmless
  <2>. QED BY <1>1, <1>2, <2>1, <2>3
<1>9. ASSUME ProcessJobRecord(th) PROVE TellInv'
  <2>. DEFINE S == IF State(th) \in JobEnds /\ Live(status, TaskOf(Arg(th)))
                   THEN {Record("mark", Arg(th), State(th)), DoFor("forget", Arg(th))} ELSE {}
  <2>1. Does(th, S)
    BY <1>9, LaunchesDo DEF Onward
  <2>2. \A x \in S : x.op \in Harmless
    BY OpOf
  <2>3. At(th, "process") /\ UNCHANGED <<callback, down>>
        /\ (status' = status \/ status' = [status EXCEPT ![TaskOf(Arg(th))] = "Running"])
    BY <1>9 DEF ProcessJobRecord
  <2>4. Remains /\ Tells(S)
    <3>1. \A t \in Tasks : status'[t] = status[t] \/ status'[t] = "Running"
      BY <1>0, <2>3
    <3>. HIDE DEF S
    <3>. QED BY <3>1 DEF Remains, Tells, Final
  <2>. HIDE DEF S, Harmless
  <2>. QED BY <1>1, <2>1, <2>2, <2>3, <2>4
<1>10. ASSUME Link(th) PROVE TellInv'
  <2>. DEFINE t == TaskOf(Arg(th))
              S == IF status[t] = "Cancelling"
                     THEN {DoFor("stop", Arg(th)), Do("signals"), DoFor("fire", t)}
                   ELSE IF status[t] = "Canceled" THEN {DoFor("stop", Arg(th))}
                   ELSE {DoFor("snapshot", Arg(th))}
  <2>1. Does(th, S)
    BY <1>10, LaunchesDo DEF Onward
  <2>2. \A x \in S : x.op \in Harmless
    BY OpOf
  <2>3. At(th, "link") /\ UNCHANGED <<callback, down>>
    BY <1>10 DEF Link
  <2>4. \/ status' = status
        \/ /\ status[t] \in {"Canceled", "Cancelling"}
           /\ status' = [status EXCEPT ![t] = "Canceled"]
    BY <1>10 DEF Link, Overtaken
  <2>5. status[t] = "Cancelling" => DoFor("fire", t) \in S
    OBVIOUS
  <2>. HIDE DEF S, Harmless, t
  <2>6. Remains /\ Tells(S)
    <3>1. \A u \in Tasks : \/ status'[u] = status[u]
                           \/ u = t /\ status[t] \in {"Canceled", "Cancelling"} /\ status'[u] = "Canceled"
      BY <1>0, <2>4
    <3>. QED BY <2>5, <3>1 DEF Remains, Tells, Final
  <2>. QED BY <1>1, <2>1, <2>2, <2>3, <2>6 DEF t
<1>. QED BY <1>3, <1>4, <1>5, <1>6, <1>7, <1>8, <1>9, <1>10

LEMMA EndsTell ==
  ASSUME Onward, TellInv, NEW th \in Threads
  PROVE  Strand(th) \/ FlushOwnedCancels(th) \/ Finalize(th) => TellInv'
<1>0. status \in [Tasks -> Statuses]
  BY DEF Onward, LifeInv, TypeInv
<1>1. ASSUME Strand(th) PROVE TellInv'
  <2>. DEFINE t == Arg(th)
              S == IF status[t] = "Cancelling" THEN {Do("signals"), DoFor("fire", t)} ELSE {}
  <2>1. Does(th, S)
    BY <1>1, CancelsDo DEF Onward
  <2>2. \A x \in S : x.op \in {"signals", "fire"}
    BY OpOf
  <2>3. At(th, "strand") /\ UNCHANGED <<callback, down>>
    BY <1>1 DEF Strand
  <2>4. \/ status' = status
        \/ status[t] = "Cancelling" /\ status' = [status EXCEPT ![t] = "Canceled"]
    BY <1>1 DEF Strand
  <2>5. status[t] = "Cancelling" => DoFor("fire", t) \in S
    OBVIOUS
  <2>. HIDE DEF S, t
  <2>6. Remains /\ Tells(S)
    <3>1. \A u \in Tasks : \/ status'[u] = status[u]
                           \/ u = t /\ status[t] = "Cancelling" /\ status'[u] = "Canceled"
      BY <1>0, <2>4
    <3>. QED BY <2>5, <3>1 DEF Remains, Tells, Final
  <2>7. Mute(th) /\ \A x \in S : x.op \notin LastOps
    BY <2>2, <2>3, AtIsBusy DEF Mute, LastOps
  <2>. QED BY <2>1, <2>3, <2>6, <2>7, MuteStep
<1>2. ASSUME FlushOwnedCancels(th) PROVE TellInv'
  <2>. DEFINE targets == orphans \cup UNION {Descendants(status, c) : c \in orphans}
              S == IF orphans = {} THEN {}
                   ELSE Each("cancel", JobsToCancel(status, targets))
                          \cup Each("fire", CanceledAtOnce(status, targets)) \cup {Do("signals")}
  <2>1. Does(th, S)
    BY <1>2, CancelsDo DEF Onward
  <2>2. \/ status' = status
        \/ status' = Cascade(status, targets) /\ orphans # {}
    BY <1>2 DEF FlushOwnedCancels
  <2>. HIDE DEF targets
  <2>3. \A x \in S : x.op \in {"cancel", "fire", "signals"}
    BY OpOf
  <2>4. At(th, "signals") /\ UNCHANGED <<callback, down>>
    BY <1>2 DEF FlushOwnedCancels
  <2>5. orphans # {} => \A u \in CanceledAtOnce(status, targets) : DoFor("fire", u) \in S
    BY EachHas
  <2>6. Remains /\ Tells(S)
    <3>1. CASE status' = status
      BY <3>1 DEF Remains, Tells
    <3>2. CASE status' = Cascade(status, targets) /\ orphans # {}
      <4>1. \A u \in Tasks : /\ status'[u] = "Absent" => status[u] = "Absent"
                             /\ status'[u] \in Final /\ status[u] \notin Final
                                  => u \in CanceledAtOnce(status, targets)
        BY <3>2, CascadeLives, CascadeEnds
      <4>. HIDE DEF S
      <4>. QED BY <2>5, <3>2, <4>1 DEF Remains, Tells
    <3>. QED BY <2>2, <3>1, <3>2
  <2>. HIDE DEF S
  <2>7. Mute(th) /\ \A x \in S : x.op \notin LastOps
    BY <2>3, <2>4, AtIsBusy DEF Mute, LastOps
  <2>. QED BY <2>1, <2>4, <2>6, <2>7, MuteStep
<1>3. ASSUME Finalize(th) PROVE TellInv'
  <2>. DEFINE left == {t \in Tasks : Live(status, t)}
              S == {Do("signals"), Do("clear")} \cup Each("fire", left)
  <2>1. Does(th, S)
    BY <1>3, ShutdownsDo DEF Onward
  <2>2. At(th, "finalize") /\ UNCHANGED <<callback, down>>
        /\ status' = [t \in Tasks |-> IF t \in left THEN "Canceled" ELSE status[t]]
    BY <1>3 DEF Finalize
  <2>3. down
    <3>1. Do("finalize") \in ToSet(todo[th])
      BY <2>2, HeadIs DEF Onward, OtherOps
    <3>2. Pending(Do("finalize"))
      BY <3>1 DEF Pending
    <3>. QED BY <3>2, OpOf DEF TellInv, LastOps
  <2>4. \A u \in left : DoFor("fire", u) \in S
    BY EachHas
  <2>5. Remains /\ Tells(S)
    <3>. HIDE DEF S
    <3>. QED BY <2>2, <2>4 DEF Remains, Tells, Live, Final
  <2>. HIDE DEF S
  <2>6. Mute(th)
    BY <2>2, AtIsBusy DEF Mute
  <2>. QED BY <2>1, <2>2, <2>3, <2>5, <2>6, MuteStep
<1>. QED BY <1>1, <1>2, <1>3

LEMMA EnforcesTell ==
  ASSUME Onward, TellInv, EnforceCancelDeadlines
  PROVE  TellInv'
<1>1. PICK late \in (SUBSET {t \in Tasks : status[t] = "Cancelling"}) \ {{}} :
           /\ ~ down
           /\ status' = [t \in Tasks |-> IF t \in late THEN "Canceled" ELSE status[t]]
           /\ mapped' = mapped \ Detached(late)
           /\ Join
           /\ Idle(Watchdog) /\ Does(Watchdog, {Do("signals")} \cup Each("fire", late))
           /\ UNCHANGED <<auto, jobId, attempts, graphVars, admissionVars, callback, down, engineVars>>
  BY EnforcesDo DEF Onward
<1>. DEFINE S == {Do("signals")} \cup Each("fire", late)
<1>2. Watchdog \in Threads /\ Mute(Watchdog) /\ Does(Watchdog, S)
  BY <1>1 DEF Threads, Mute
<1>3. \A x \in S : x.op \in {"signals", "fire"}
  BY OpOf
<1>4. \A u \in late : DoFor("fire", u) \in S
  BY EachHas
<1>. HIDE DEF S
<1>5. Remains /\ Tells(S)
  BY <1>1, <1>4 DEF Remains, Tells, Final
<1>6. \A x \in S : x.op \notin LastOps
  BY <1>3 DEF LastOps
<1>. QED BY <1>1, <1>2, <1>5, <1>6, MuteStep

LEMMA EnginesTell ==
  ASSUME Onward, TellInv
  PROVE  /\ \A j \in Jobs : JobStarts(j) \/ (\E end \in JobEnds : JobEndsAs(j, end)) => TellInv'
         /\ \A th \in Threads : CancelJob(th) \/ CancelAllForShutdown(th) => TellInv'
         /\ \A th \in Threads : JoinWatchdog(th) \/ CloseEngine(th) \/ JoinWorkers(th) => TellInv'
         /\ \A th \in Threads : Shutdown(th) => TellInv'
<1>1. ASSUME NEW th \in Threads, NEW S, Does(th, S),
             \A x \in S : x.op \in {"record", "strand", "cancelTask"},
             UNCHANGED <<status, callback, down>>,
             \/ Idle(th)
             \/ \E op \in {"cancel", "stop", "cancelAll", "joinWatchdog", "closeEngine", "joinWorkers"} : At(th, op)
      PROVE  TellInv'
  <2>1. Mute(th) /\ \A x \in S : x.op \notin LastOps
    BY <1>1, AtIsBusy DEF Mute, LastOps
  <2>. QED BY <1>1, <2>1, QuietTells
<1>2. ASSUME NEW j \in Jobs, JobStarts(j) PROVE TellInv'
  <2>1. Does(j, {Record("record", j, "Running")}) /\ j \in Threads
    BY <1>2, EnginesDo DEF Onward, Threads
  <2>2. UNCHANGED <<status, callback, down>> /\ Idle(j)
    BY <1>2 DEF JobStarts, Call
  <2>. QED BY <1>1, <2>1, <2>2, OpOf
<1>3. ASSUME NEW j \in Jobs, NEW end \in JobEnds, JobEndsAs(j, end) PROVE TellInv'
  <2>1. Does(j, {Record("record", j, end)}) /\ j \in Threads
    BY <1>3, EnginesDo DEF Onward, Threads
  <2>2. UNCHANGED <<status, callback, down>> /\ Idle(j)
    BY <1>3 DEF JobEndsAs, Call
  <2>. QED BY <1>1, <2>1, <2>2, OpOf
<1>4. ASSUME NEW th \in Threads, CancelJob(th) PROVE TellInv'
  <2>1. \/ Does(th, {Record("record", Arg(th), "Cancelled")})
        \/ Does(th, {DoFor("strand", TaskOf(Arg(th)))}) \/ Does(th, {})
    BY <1>4, CancelsDo DEF Onward
  <2>2. UNCHANGED <<status, callback, down>> /\ (At(th, "cancel") \/ At(th, "stop"))
    BY <1>4 DEF CancelJob
  <2>. QED BY <1>1, <2>1, <2>2, OpOf
<1>5. ASSUME NEW th \in Threads, CancelAllForShutdown(th) PROVE TellInv'
  <2>. DEFINE S == Each("cancelTask", {t \in Tasks : Live(status, t)})
  <2>1. Does(th, S)
    BY <1>5, ShutdownsDo DEF Onward
  <2>2. UNCHANGED <<status, callback, down>> /\ At(th, "cancelAll")
    BY <1>5 DEF CancelAllForShutdown
  <2>3. \A x \in S : x.op = "cancelTask"
    BY OpOf
  <2>. HIDE DEF S
  <2>. QED BY <1>1, <2>1, <2>2, <2>3
<1>6. ASSUME NEW th \in Threads, JoinWatchdog(th) \/ JoinWorkers(th) PROVE TellInv'
  <2>1. Does(th, {})
    BY <1>6, ShutdownsDo DEF Onward
  <2>2. UNCHANGED <<status, callback, down>> /\ (At(th, "joinWatchdog") \/ At(th, "joinWorkers"))
    BY <1>6 DEF JoinWatchdog, JoinWorkers
  <2>. QED BY <1>1, <2>1, <2>2
<1>7. ASSUME NEW th \in Threads, CloseEngine(th) PROVE TellInv'
  <2>. DEFINE S == {Record("record", j, "Cancelled") : j \in {i \in Jobs : job[i] = "Queued"}}
  <2>1. Does(th, S)
    BY <1>7, ShutdownsDo DEF Onward
  <2>2. UNCHANGED <<status, callback, down>> /\ At(th, "closeEngine")
    BY <1>7 DEF CloseEngine
  <2>3. \A x \in S : x.op = "record"
    BY OpOf
  <2>. HIDE DEF S
  <2>. QED BY <1>1, <2>1, <2>2, <2>3
<1>8. ASSUME NEW th \in Threads, Shutdown(th) PROVE TellInv'
  <2>1. Does(th, {Do(op) : op \in ShutdownSteps})
    BY <1>8, ShutdownsDo DEF Onward
  <2>2. UNCHANGED <<status, callback>> /\ Idle(th) /\ down' = TRUE
    BY <1>8 DEF Shutdown, Call
  <2>3. Mute(th)
    BY <2>2 DEF Mute
  <2>. QED BY <2>1, <2>2, <2>3, QuietTells
<1>. QED BY <1>2, <1>3, <1>4, <1>5, <1>6, <1>7, <1>8

LEMMA SubmissionsTell ==
  ASSUME Onward, TellInv, AllResolve, NEW th \in Threads
  PROVE  /\ \A g \in Pipelines : SubmitPipeline(th, g) => TellInv'
         /\ \A t \in Tasks : SubmitJob(th, t) \/ RetryTask(th, t) => TellInv'
         /\ Armed(th) \/ Resubmit(th) => TellInv'
<1>0. status \in [Tasks -> Statuses] /\ ready \subseteq Tasks
  BY DEF Onward, LifeInv, TypeInv
<1>1. ASSUME NEW S, Does(th, S), Mute(th), NEW t \in Tasks, NEW how, Enqueue(th, t, how),
             \A x \in S : x.op \notin LastOps
      PROVE  TellInv'
  <2>. DEFINE s == Set(t, "Queued")
              queued == IF IsLaunchCandidate(s, t) THEN ready \cup {t} ELSE ready
  <2>1. PassBefore(rearm, s, queued) /\ UNCHANGED <<callback, down>>
    BY <1>1 DEF Enqueue, Pass
  <2>2. \A u \in Tasks : s[u] = IF u = t THEN "Queued" ELSE status[u]
    BY <1>0 DEF Set
  <2>3. s \in [Tasks -> Statuses] /\ queued \in SUBSET Tasks
    BY <1>0 DEF Set, Statuses, ReadyLike
  <2>. HIDE DEF s, queued
  <2>4. \A u \in Tasks : /\ s[u] = "Absent" => status[u] = "Absent"
                         /\ s[u] \in Final => status[u] \in Final
    BY <2>2 DEF Final
  <2>. QED BY <1>1, <2>1, <2>3, <2>4, PassTells
<1>2. /\ \A x \in Flushes : x.op \notin LastOps
      /\ \A u : \A x \in Flushes \cup {DoFor("arm", u)} : x.op \notin LastOps
      /\ \A u : DoFor("resubmit", u).op \notin LastOps /\ DoFor("enterPipeline", u).op \notin LastOps
      /\ \A u : DoFor("fire", u).op \notin LastOps
  BY OpOf DEF LastOps
<1>3. ASSUME NEW g \in Pipelines, SubmitPipeline(th, g) PROVE TellInv'
  <2>1. Does(th, {DoFor("enterPipeline", g)})
    BY <1>3, SubmissionsDo DEF Onward
  <2>2. UNCHANGED <<status, callback, down>> /\ Mute(th)
    BY <1>3 DEF SubmitPipeline, Call, Mute
  <2>. QED BY <1>2, <2>1, <2>2, QuietTells
<1>4. ASSUME NEW t \in Tasks, SubmitJob(th, t) PROVE TellInv'
  <2>1. Does(th, Flushes \cup {DoFor("arm", t)})
    BY <1>4, SubmissionsDo DEF Onward
  <2>2. Enqueue(th, t, "manual") /\ Mute(th)
    BY <1>4 DEF SubmitJob, Call, Mute
  <2>. QED BY <1>1, <1>2, <2>1, <2>2
<1>5. ASSUME NEW t \in Tasks, RetryTask(th, t) PROVE TellInv'
  <2>1. Does(th, {DoFor("resubmit", t)})
    BY <1>5, SubmissionsDo DEF Onward
  <2>2. UNCHANGED <<status, callback, down>> /\ Mute(th)
    BY <1>5 DEF RetryTask, Call, Mute
  <2>. QED BY <1>2, <2>1, <2>2, QuietTells
<1>6. ASSUME Resubmit(th) PROVE TellInv'
  <2>. DEFINE t == Arg(th)
  <2>1. At(th, "resubmit")
    BY <1>6 DEF Resubmit
  <2>2. Mute(th)
    BY <2>1, AtIsBusy DEF Mute
  <2>3. t \in Tasks
    BY <2>1, HeadFacts, Ops DEF Onward
  <2>4. \/ Does(th, {}) /\ UNCHANGED <<taskVars, callback, down, engineVars>>
        \/ Enqueue(th, t, "manual") /\ Does(th, Flushes \cup {DoFor("arm", t)})
        \/ Enqueue(th, t, "auto") /\ Does(th, Flushes)
    BY <1>6, SubmissionsDo DEF Onward
  <2>. HIDE DEF t
  <2>5. CASE Does(th, {}) /\ UNCHANGED <<taskVars, callback, down, engineVars>>
    BY <2>2, <2>5, QuietTells
  <2>6. CASE Enqueue(th, t, "manual") /\ Does(th, Flushes \cup {DoFor("arm", t)})
    BY <1>1, <1>2, <2>2, <2>3, <2>6
  <2>7. CASE Enqueue(th, t, "auto") /\ Does(th, Flushes)
    BY <1>1, <1>2, <2>2, <2>3, <2>7
  <2>. QED BY <2>4, <2>5, <2>6, <2>7
<1>7. ASSUME Armed(th) PROVE TellInv'
  <2>. DEFINE S == IF down THEN {DoFor("fire", Arg(th))} ELSE {}
  <2>1. Does(th, S)
    BY <1>7, SubmissionsDo DEF Onward
  <2>2. UNCHANGED <<status, callback, down>> /\ At(th, "armed")
    BY <1>7 DEF Armed
  <2>3. Head(todo[th]).op = "armed" /\ ~ Idle(th)
    BY <2>2, AtIsBusy
  <2>4. \A x \in S : x.op \notin LastOps
    BY <1>2
  <2>5. Remains /\ Tells(S)
    BY <2>2 DEF Remains, Tells
  <2>6. \A t \in Tasks : Head(todo[th]) # DoFor("fire", t)
    BY <2>3, OpOf
  <2>7. \A t \in Tasks : Head(todo[th]) = DoFor("armed", t) => ~ down \/ DoFor("fire", t) \in S
    <3>1. \A t \in Tasks : Head(todo[th]) = DoFor("armed", t) => Arg(th) = t
      BY OpOf DEF Arg
    <3>. QED BY <3>1
  <2>8. \A t \in Tasks : /\ callback'[t] # "dropped"
                         /\ callback'[t] = "waits" => callback[t] = "waits" \/ Live(status, t)
    BY <2>2 DEF TellInv
  <2>. HIDE DEF S
  <2>. QED BY <2>1, <2>2, <2>4, <2>5, <2>6, <2>7, <2>8, TellStep
<1>. QED BY <1>3, <1>4, <1>5, <1>6, <1>7

LEMMA CallbacksTell ==
  ASSUME Onward, TellInv, NEW th \in Threads
  PROVE  /\ FireTaskCompletionCallbacks(th) => TellInv'
         /\ \A t \in Tasks : AddTaskCompletionCallback(th, t) => TellInv'
<1>0. callback \in [Tasks -> {"none", "waits", "told", "dropped"}]
  BY DEF Onward, LifeInv, TypeInv
<1>1. ASSUME FireTaskCompletionCallbacks(th) PROVE TellInv'
  <2>1. Does(th, {})
    BY <1>1, ShutdownsDo DEF Onward
  <2>2. UNCHANGED <<status, down>> /\ At(th, "fire")
        /\ callback' = [callback EXCEPT ![Arg(th)] = IF @ = "waits" THEN "told" ELSE @]
    BY <1>1 DEF FireTaskCompletionCallbacks
  <2>3. Head(todo[th]).op = "fire" /\ ~ Idle(th)
    BY <2>2, AtIsBusy
  <2>4. \A t \in Tasks : /\ callback'[t] # "dropped"
                         /\ callback'[t] = "waits" => callback[t] = "waits" /\ t # Arg(th)
    BY <1>0, <2>2 DEF TellInv
  <2>5. \A t \in Tasks : /\ Head(todo[th]) = DoFor("fire", t) => Arg(th) = t
                         /\ Head(todo[th]) # DoFor("armed", t)
    BY <2>3, OpOf DEF Arg
  <2>6. Remains /\ Tells({})
    BY <2>2 DEF Remains, Tells
  <2>. QED BY <2>1, <2>2, <2>4, <2>5, <2>6, TellStep
<1>2. ASSUME NEW t \in Tasks, AddTaskCompletionCallback(th, t) PROVE TellInv'
  <2>1. Does(th, {})
    BY <1>2, ShutdownsDo DEF Onward
  <2>2. UNCHANGED <<status, down>> /\ Idle(th) /\ status[t] # "Absent"
        /\ callback' = [callback EXCEPT ![t] = IF status[t] \in Final THEN "told" ELSE "waits"]
    BY <1>2 DEF AddTaskCompletionCallback
  <2>3. \A u \in Tasks : /\ callback'[u] # "dropped"
                         /\ callback'[u] = "waits" => callback[u] = "waits" \/ Live(status, u)
    BY <1>0, <2>2 DEF TellInv, Live
  <2>4. Remains /\ Tells({})
    BY <2>2 DEF Remains, Tells
  <2>. QED BY <2>1, <2>2, <2>3, <2>4, TellStep
<1>. QED BY <1>1, <1>2

\* When the callbacks are dropped everything else is over, and nobody waits.
LEMMA ClearsNothing ==
  ASSUME Onward, ShutInv, TellInv, OneCaller, NEW th \in Threads, ClearCallbacks(th)
  PROVE  TellInv'
<1>1. At(th, "clear") /\ UNCHANGED <<status, down>>
      /\ callback' = [t \in Tasks |-> IF callback[t] = "waits" THEN "dropped" ELSE callback[t]]
  BY DEF ClearCallbacks
<1>2. th \in Callers /\ todo[th] = <<Do("clear")>>
  BY <1>1, LastIsAlone DEF LastOps, Onward, ShutInv
<1>3. ToSet(todo[th]) = {Do("clear")}
  BY <1>2 DEF ToSet
<1>4. down
  BY <1>2, <1>3, OpOf DEF TellInv, Pending, LastOps
<1>5. \A u \in Callers : u = th
  BY <1>2 DEF OneCaller
<1>6. \A op \in ShutdownOps \ {"clear"} : ~ Pending(Do(op))
  <2>1. ASSUME NEW op \in ShutdownOps \ {"clear"}, NEW u \in Threads, Do(op) \in ToSet(todo[u]) PROVE FALSE
    <3>1. u \in Callers
      BY <2>1, OpOf DEF ShutInv, OrderInv
    <3>2. Do(op) = Do("clear")
      BY <1>3, <1>5, <2>1, <3>1
    <3>. QED BY <2>1, <3>2, OpOf
  <2>. QED BY <2>1 DEF Pending
<1>7. NoTaskLeft /\ WorkersIdle /\ Idle(Watchdog)
  <2>1. /\ ~ Pending(Workers) /\ ~ Pending(Do("joinWatchdog")) /\ ~ Pending(Do("finalize"))
    BY <1>6 DEF ShutdownOps, Workers
  <2>. QED BY <1>4, <2>1 DEF ShutInv
<1>8. \A x : Pending(x) => x = Do("clear")
  <2>1. \A u \in Threads \ {th} : Idle(u)
    BY <1>5, <1>7 DEF WorkersIdle, Threads
  <2>2. \A u \in Threads \ {th} : ToSet(todo[u]) = {}
    BY <2>1 DEF Idle, ToSet
  <2>. QED BY <1>3, <2>2 DEF Pending
<1>9. \A t \in Tasks : callback[t] # "waits"
  <2>1. ASSUME NEW t \in Tasks, callback[t] = "waits" PROVE FALSE
    <3>1. status[t] \in Final
      BY <1>7, <2>1 DEF TellInv, NoTaskLeft, Live
    <3>2. Telling(t)
      BY <2>1, <3>1 DEF TellInv
    <3>. QED BY <1>8, <3>2, OpOf DEF Telling
  <2>. QED BY <2>1
<1>10. callback \in [Tasks -> {"none", "waits", "told", "dropped"}]
  BY DEF Onward, LifeInv, TypeInv
<1>11. callback' = callback
  BY <1>1, <1>9, <1>10
<1>12. Does(th, {})
  BY ShutdownsDo DEF Onward
<1>13. Mute(th)
  BY <1>1, AtIsBusy DEF Mute
<1>. QED BY <1>1, <1>11, <1>12, <1>13, QuietTells

LEMMA TellInit == Init => TellInv
<1>. SUFFICES ASSUME Init PROVE TellInv
  OBVIOUS
<1>1. \A x : ~ Pending(x)
  BY DEF Init, Pending, ToSet
<1>. QED BY <1>1 DEF Init, TellInv

LEMMA TellNext ==
  OneCaller /\ AllResolve /\ LifeInv /\ LifeInv' /\ ShutInv /\ TellInv /\ [Next]_vars => TellInv'
<1>. SUFFICES ASSUME OneCaller, AllResolve, LifeInv, LifeInv', ShutInv, TellInv, [Next]_vars PROVE TellInv'
  OBVIOUS
<1>1. CASE UNCHANGED vars
  <2>1. \A x : Pending(x)' <=> Pending(x)
    BY <1>1 DEF Pending
  <2>2. UNCHANGED <<status, callback, down>>
    BY <1>1
  <2>3. \A t : Telling(t)' <=> Telling(t)
    BY <2>1, <2>2 DEF Telling
  <2>. QED BY <2>1, <2>2, <2>3 DEF TellInv
<1>2. CASE Next
  <2>0. Onward
    <3>1. OneWayStep \/ UNCHANGED vars
      BY LifeNext
    <3>2. UNCHANGED vars => OneWayStep
      BY DEF OneWayStep
    <3>. QED BY <3>1, <3>2 DEF Onward
  <2>1. ASSUME NEW u \in Callers, Calls(u) PROVE TellInv'
    <3>1. u \in Threads
      BY DEF Threads
    <3>. QED BY <2>0, <2>1, <3>1, SubmissionsTell, PassesTell, CancelsTell, CallbacksTell, EnginesTell DEF Calls
  <2>2. ASSUME NEW th \in Threads, ThreadStep(th) PROVE TellInv'
    BY <2>0, <2>2, SubmissionsTell, PassesTell, CancelsTell, RecordsTell, MarkTells, EndsTell, EnginesTell,
       CallbacksTell, ClearsNothing DEF ThreadStep
  <2>3. ASSUME NEW j \in Jobs, JobStarts(j) \/ \E end \in JobEnds : JobEndsAs(j, end) PROVE TellInv'
    BY <2>0, <2>3, EnginesTell
  <2>4. ASSUME NEW j \in Jobs, NEW t \in Tasks, SubmitJob(j, t) PROVE TellInv'
    <3>1. j \in Threads
      BY DEF Threads
    <3>. QED BY <2>0, <2>4, <3>1, SubmissionsTell
  <2>. QED BY <1>2, <2>0, <2>1, <2>2, <2>3, <2>4, EnforcesTell DEF Next
<1>. QED BY <1>1, <1>2

(* Whoever asked to be told the end of a task is told, whichever of the    *)
(* ends it is (a record, a cancel, a cascade, the watchdog, a stranded or  *)
(* an overtaken job, shutdown()), and shutdown() drops no callback: for    *)
(* one calling thread, and as long as every placeholder resolves.          *)
(* (A placeholder that does not makes processNextQueuedTasks() fail the    *)
(* task without a word to those who wait; and shutdown() drops what waits  *)
(* while a second caller is still on its way to fire it.)                  *)
THEOREM EveryEndIsTold ==
  ASSUME \A u, v \in Callers : u = v, Unresolved = {}
  PROVE  Spec => []EndIsTold
<1>0. OneCaller /\ AllResolve
  BY DEF OneCaller, AllResolve
<1>1. TellInv => EndIsTold
  BY PendingIsOnTodo DEF TellInv, Telling, EndIsTold
<1>2. LifeInv /\ ShutInv /\ TellInv /\ [Next]_vars => LifeInv' /\ ShutInv' /\ TellInv'
  BY <1>0, LifeNext, ShutNext, TellNext
<1>. QED BY <1>1, <1>2, LifeInit, ShutInit, TellInit, PTL DEF Spec

-----------------------------------------------------------------------------
(* No job runs for nobody.                                                 *)

LaunchOps == {"register", "submit"}
StopOps == {"cancel", "stop", "link"}
RecordOps == {"record", "process", "mark"}

\* a job is launched by one thread, in one place, and looked at again as soon
\* as it is submitted
LaunchInv ==
  /\ \A th \in Threads : \A m, n \in 1 .. Len(todo[th]) :
       m # n /\ todo[th][m].op \in LaunchOps /\ todo[th][n].op \in LaunchOps =>
         todo[th][m].arg # todo[th][n].arg
  /\ \A th, u \in Threads : th # u =>
       \A x \in ToSet(todo[th]), y \in ToSet(todo[u]) :
         x.op \in LaunchOps /\ y.op \in LaunchOps => x.arg # y.arg
  /\ \A th \in Threads : \A x \in ToSet(Behind(th)) : x.op # "submit"
  /\ \A th \in Threads : At(th, "submit") => DoFor("link", Arg(th)) \in ToSet(Behind(th))

\* the steps this thread takes up launch no job twice, and none that a step
\* other than the one it has just taken launches
LaunchesApart(th, steps) ==
  /\ \A m, n \in 1 .. Len(steps) :
       m # n /\ steps[m].op \in LaunchOps /\ steps[n].op \in LaunchOps => steps[m].arg # steps[n].arg
  /\ \A x \in ToSet(steps) : x.op \in LaunchOps =>
       /\ \A y \in ToSet(Behind(th)) : y.op \in LaunchOps => y.arg # x.arg
       /\ \A u \in Threads \ {th} : \A y \in ToSet(todo[u]) : y.op \in LaunchOps => y.arg # x.arg

LEMMA LaunchedApart ==
  ASSUME TypeInv, LaunchInv, NEW th \in Threads, NEW steps \in Seq(StepType), TakesUp(th, steps),
         LaunchesApart(th, steps)
  PROVE  /\ \A u \in Threads : \A m, n \in 1 .. Len(todo'[u]) :
              m # n /\ todo'[u][m].op \in LaunchOps /\ todo'[u][n].op \in LaunchOps =>
                todo'[u][m].arg # todo'[u][n].arg
         /\ \A u, v \in Threads : u # v =>
              \A x \in ToSet(todo'[u]), y \in ToSet(todo'[v]) :
                x.op \in LaunchOps /\ y.op \in LaunchOps => x.arg # y.arg
<1>. DEFINE s == todo[th]
            b == Behind(th)
            q == todo'[th]
            Apart(x, y) == x.op \in LaunchOps /\ y.op \in LaunchOps => x.arg # y.arg
<1>1. /\ q = steps \o b /\ \A u \in Threads \ {th} : todo'[u] = todo[u]
      /\ ToSet(q) = ToSet(steps) \cup ToSet(b)
  BY TakesPending
<1>2. /\ ToSet(b) \subseteq ToSet(s) /\ Len(b) \in Nat
      /\ \A n \in 1 .. Len(b) : n + 1 \in 1 .. Len(s) /\ b[n] = s[n + 1]
      /\ b \in Seq(StepType)
  BY BehindFacts
<1>3. /\ Len(q) = Len(steps) + Len(b) /\ Len(steps) \in Nat
      /\ \A n \in 1 .. Len(steps) + Len(b) : q[n] = IF n <= Len(steps) THEN steps[n] ELSE b[n - Len(steps)]
  BY <1>1, <1>2, ConcatProperties, LenProperties
<1>4. /\ \A m, n \in 1 .. Len(s) : m # n => Apart(s[m], s[n])
      /\ \A m, n \in 1 .. Len(steps) : m # n => Apart(steps[m], steps[n])
  BY DEF LaunchInv, LaunchesApart
<1>5. /\ \A x \in ToSet(steps), y \in ToSet(b) : Apart(x, y) /\ Apart(y, x)
      /\ \A u \in Threads \ {th} : \A x \in ToSet(steps), y \in ToSet(todo[u]) : Apart(x, y) /\ Apart(y, x)
  BY DEF LaunchesApart
<1>6. /\ \A u, v \in Threads : u # v => \A x \in ToSet(todo[u]), y \in ToSet(todo[v]) : Apart(x, y)
      /\ \A u \in Threads : \A m, n \in 1 .. Len(todo[u]) : m # n => Apart(todo[u][m], todo[u][n])
  BY DEF LaunchInv
<1>. HIDE DEF s, b, q, Apart
<1>7. \A n \in 1 .. Len(b) : b[n] \in ToSet(b)
  BY <1>2, Entries
<1>8. \A n \in 1 .. Len(steps) : steps[n] \in ToSet(steps)
  BY Entries
<1>9. ASSUME NEW m \in 1 .. Len(q), NEW n \in 1 .. Len(q), m # n PROVE Apart(q[m], q[n])
  <2>1. m \in 1 .. Len(steps) + Len(b) /\ n \in 1 .. Len(steps) + Len(b)
    BY <1>3
  <2>2. \A k \in 1 .. Len(steps) + Len(b) :
          \/ k \in 1 .. Len(steps) /\ q[k] = steps[k]
          \/ /\ k - Len(steps) \in 1 .. Len(b) /\ ~ k <= Len(steps)
             /\ q[k] = b[k - Len(steps)]
    BY <1>2, <1>3
  <2>3. CASE m \in 1 .. Len(steps) /\ q[m] = steps[m]
    <3>1. CASE n \in 1 .. Len(steps) /\ q[n] = steps[n]
      BY <1>4, <1>9, <2>3, <3>1
    <3>2. CASE n - Len(steps) \in 1 .. Len(b) /\ q[n] = b[n - Len(steps)]
      BY <1>5, <1>7, <1>8, <2>3, <3>2
    <3>. QED BY <2>1, <2>2, <3>1, <3>2
  <2>4. CASE m - Len(steps) \in 1 .. Len(b) /\ q[m] = b[m - Len(steps)]
    <3>1. CASE n \in 1 .. Len(steps) /\ q[n] = steps[n]
      BY <1>5, <1>7, <1>8, <2>4, <3>1
    <3>2. CASE n - Len(steps) \in 1 .. Len(b) /\ q[n] = b[n - Len(steps)]
      <4>1. /\ m - Len(steps) + 1 \in 1 .. Len(s) /\ n - Len(steps) + 1 \in 1 .. Len(s)
            /\ q[m] = s[m - Len(steps) + 1] /\ q[n] = s[n - Len(steps) + 1]
        BY <1>2, <2>4, <3>2
      <4>2. m - Len(steps) + 1 # n - Len(steps) + 1
        BY <1>3, <1>9, <2>1
      <4>. QED BY <1>4, <4>1, <4>2
    <3>. QED BY <2>1, <2>2, <3>1, <3>2
  <2>. QED BY <2>1, <2>2, <2>3, <2>4
<1>10. ASSUME NEW u \in Threads, NEW m \in 1 .. Len(todo'[u]), NEW n \in 1 .. Len(todo'[u]), m # n
       PROVE  Apart(todo'[u][m], todo'[u][n])
  <2>1. CASE u = th
    BY <1>9, <1>10, <2>1 DEF q
  <2>2. CASE u # th
    BY <1>1, <1>6, <1>10, <2>2
  <2>. QED BY <2>1, <2>2
<1>11. ASSUME NEW u \in Threads, NEW v \in Threads, u # v, NEW x \in ToSet(todo'[u]), NEW y \in ToSet(todo'[v])
       PROVE  Apart(x, y)
  <2>1. CASE u # th /\ v # th
    BY <1>1, <1>6, <1>11, <2>1
  <2>2. CASE u = th
    <3>1. y \in ToSet(todo[v]) /\ v # th
      BY <1>1, <1>11, <2>2
    <3>2. CASE x \in ToSet(steps)
      BY <1>5, <3>1, <3>2
    <3>3. CASE x \in ToSet(b)
      BY <1>2, <1>6, <3>1, <3>3 DEF s
    <3>. QED BY <1>1, <1>11, <2>2, <3>2, <3>3 DEF q
  <2>3. CASE v = th
    <3>1. x \in ToSet(todo[u]) /\ u # th
      BY <1>1, <1>11, <2>3
    <3>2. CASE y \in ToSet(steps)
      BY <1>5, <3>1, <3>2
    <3>3. CASE y \in ToSet(b)
      BY <1>2, <1>6, <3>1, <3>3 DEF s
    <3>. QED BY <1>1, <1>11, <2>3, <3>2, <3>3 DEF q
  <2>. QED BY <2>1, <2>2, <2>3
<1>. QED BY <1>10, <1>11 DEF Apart

\* what stands behind the head once the thread has taken up the steps
LEMMA BehindNext ==
  ASSUME TypeInv, NEW th \in Threads, NEW steps \in Seq(StepType), TakesUp(th, steps)
  PROVE  /\ ToSet(Behind(th)') \subseteq ToSet(steps) \cup ToSet(Behind(th))
         /\ \A u \in Threads \ {th} : /\ Behind(u)' = Behind(u)
                                      /\ \A op : At(u, op)' => At(u, op) /\ Arg(u)' = Arg(u)
<1>1. /\ \A u \in Threads \ {th} : todo'[u] = todo[u]
      /\ ToSet(todo'[th]) = ToSet(steps) \cup ToSet(Behind(th))
      /\ todo'[th] = steps \o Behind(th)
  BY TakesPending
<1>2. ToSet(Behind(th)') \subseteq ToSet(todo'[th])
  <2>. DEFINE q == todo'[th]
  <2>1. q \in Seq(StepType)
    BY <1>1, BehindFacts, Joined
  <2>2. Behind(th)' = IF q = <<>> THEN <<>> ELSE Tail(q)
    BY DEF Behind, Idle
  <2>. HIDE DEF q
  <2>3. CASE q = <<>>
    BY <2>2, <2>3 DEF q
  <2>4. CASE q # <<>>
    <3>1. /\ Tail(q) \in Seq(StepType) /\ Len(Tail(q)) = Len(q) - 1 /\ Len(q) \in Nat
          /\ \A n \in 1 .. Len(q) - 1 : Tail(q)[n] = q[n + 1]
      BY <2>1, <2>4, HeadTailProperties, LenProperties
    <3>2. ASSUME NEW x \in ToSet(Tail(q)) PROVE x \in ToSet(q)
      <4>1. PICK n \in 1 .. Len(Tail(q)) : x = Tail(q)[n]
        BY <3>1, Entries
      <4>2. n + 1 \in 1 .. Len(q) /\ x = q[n + 1]
        BY <3>1, <4>1
      <4>. QED BY <2>1, <4>2, Entries
    <3>. QED BY <2>2, <2>4, <3>2 DEF q
  <2>. QED BY <2>3, <2>4 DEF q
<1>3. \A u \in Threads \ {th} : Behind(u)' = Behind(u)
  BY <1>1 DEF Behind, Idle
<1>4. \A u \in Threads \ {th} : \A op : At(u, op)' => At(u, op) /\ Arg(u)' = Arg(u)
  BY <1>1 DEF At, Arg
<1>. QED BY <1>1, <1>2, <1>3, <1>4

\* a step that launches nothing
LEMMA LaunchesNothing ==
  ASSUME TypeInv, LaunchInv, NEW th \in Threads, NEW S, Does(th, S), \A x \in S : x.op \notin LaunchOps
  PROVE  LaunchInv'
<1>1. PICK steps : Of(steps, S) /\ TakesUp(th, steps)
  BY DEF Does
<1>2. steps \in Seq(StepType) /\ ToSet(steps) = S
  BY <1>1 DEF Of
<1>3. \A n \in 1 .. Len(steps) : steps[n].op \notin LaunchOps
  BY <1>2, Entries
<1>4. LaunchesApart(th, steps)
  BY <1>2, <1>3 DEF LaunchesApart
<1>5. /\ ToSet(todo'[th]) = S \cup ToSet(Behind(th)) /\ todo'[th] = steps \o Behind(th)
      /\ Behind(th) \in Seq(StepType)
  BY <1>1, <1>2, TakesPending, BehindFacts
<1>6. \A x \in ToSet(todo'[th]) : x.op # "submit"
  BY <1>5 DEF LaunchInv, LaunchOps
<1>7. ~ At(th, "submit")'
  <2>. DEFINE q == todo'[th]
  <2>1. q \in Seq(StepType)
    BY <1>2, <1>5, Joined
  <2>2. q # <<>> => Head(q) \in ToSet(q)
    <3>. HIDE DEF q
    <3>1. q # <<>> => Head(q) = q[1] /\ 1 \in 1 .. Len(q)
      BY <2>1, LenProperties, EmptySeq
    <3>. QED BY <2>1, <3>1, Entries
  <2>. QED BY <1>6, <2>2 DEF At
<1>8. /\ ToSet(Behind(th)') \subseteq S \cup ToSet(Behind(th))
      /\ \A u \in Threads \ {th} : /\ Behind(u)' = Behind(u)
                                   /\ \A op : At(u, op)' => At(u, op) /\ Arg(u)' = Arg(u)
  BY <1>1, <1>2, BehindNext
<1>9. \A u \in Threads : \A x \in ToSet(Behind(u)') : x.op # "submit"
  BY <1>8 DEF LaunchInv, LaunchOps
<1>10. \A u \in Threads : At(u, "submit")' => DoFor("link", Arg(u)') \in ToSet(Behind(u)')
  BY <1>7, <1>8 DEF LaunchInv
<1>11. /\ \A u \in Threads : \A m, n \in 1 .. Len(todo'[u]) :
              m # n /\ todo'[u][m].op \in LaunchOps /\ todo'[u][n].op \in LaunchOps =>
                todo'[u][m].arg # todo'[u][n].arg
       /\ \A u, v \in Threads : u # v =>
              \A x \in ToSet(todo'[u]), y \in ToSet(todo'[v]) :
                x.op \in LaunchOps /\ y.op \in LaunchOps => x.arg # y.arg
  BY <1>1, <1>2, <1>4, LaunchedApart
<1>12. \A x : DoFor("link", x)' = DoFor("link", x)
  BY DEF DoFor
<1>. QED BY <1>9, <1>10, <1>11 DEF LaunchInv, ToSet, DoFor

\* what a thread launches now, nobody launches later
LEMMA LaunchedHere ==
  ASSUME LifeInv, LaunchInv, NEW th \in Threads, NEW op \in LaunchOps, At(th, op)
  PROVE  /\ \A y \in ToSet(Behind(th)) : y.op \in LaunchOps => y.arg # Arg(th)
         /\ \A u \in Threads \ {th} : \A y \in ToSet(todo[u]) : y.op \in LaunchOps => y.arg # Arg(th)
         /\ Head(todo[th]).op = op /\ Head(todo[th]) \in ToSet(todo[th])
<1>. DEFINE s == todo[th]
            b == Behind(th)
<1>1. Head(s).op = op /\ Head(s) \in ToSet(s) /\ s \in Seq(StepType) /\ s # <<>>
  BY HeadFacts DEF LifeInv, TypeInv, At
<1>2. /\ Len(b) \in Nat /\ b \in Seq(StepType)
      /\ \A n \in 1 .. Len(b) : n + 1 \in 1 .. Len(s) /\ b[n] = s[n + 1]
  BY BehindFacts DEF LifeInv
<1>3. \A m, n \in 1 .. Len(s) : m # n /\ s[m].op \in LaunchOps /\ s[n].op \in LaunchOps => s[m].arg # s[n].arg
  BY DEF LaunchInv
<1>4. \A u \in Threads \ {th} : \A y \in ToSet(todo[u]) : y.op \in LaunchOps => y.arg # Head(s).arg
  BY <1>1 DEF LaunchInv
<1>. HIDE DEF s, b
<1>5. Head(s) = s[1] /\ 1 \in 1 .. Len(s) /\ Len(s) \in Nat
  BY <1>1, LenProperties, EmptySeq
<1>6. ASSUME NEW y \in ToSet(b), y.op \in LaunchOps PROVE y.arg # Head(s).arg
  <2>1. PICK n \in 1 .. Len(b) : y = b[n]
    BY <1>2, Entries
  <2>2. n + 1 \in 1 .. Len(s) /\ y = s[n + 1] /\ n + 1 # 1
    BY <1>2, <2>1
  <2>. QED BY <1>1, <1>3, <1>5, <1>6, <2>2
<1>. QED BY <1>1, <1>4, <1>6 DEF s, b, Arg

\* flushPendingLaunches() takes over what is staged
LEMMA FlushLaunches ==
  ASSUME TypeInv, LaunchInv, NEW th \in Threads, NEW A \in SUBSET Jobs, IsFiniteSet(A),
         TakesUp(th, ForEach("register", A)),
         \A x : Pending(x) /\ x.op \in LaunchOps => x.arg \notin A
  PROVE  LaunchInv'
<1>. DEFINE steps == ForEach("register", A)
<1>1. \A j \in A : DoFor("register", j) \in StepType
  BY Ops, StepTypes
<1>2. /\ ToSet(steps) = Each("register", A) /\ steps \in Seq(StepType)
      /\ \A m, n \in 1 .. Len(steps) : m # n => steps[m] # steps[n]
  BY <1>1, ForEachAll DEF Each
<1>3. TakesUp(th, steps)
  OBVIOUS
<1>. HIDE DEF steps
<1>4. \A x \in ToSet(steps) : x.arg \in A /\ x.op = "register" /\ x = DoFor("register", x.arg)
  BY <1>2 DEF Each, DoFor
<1>5. \A m, n \in 1 .. Len(steps) : m # n => steps[m].arg # steps[n].arg
  <2>1. \A n \in 1 .. Len(steps) : steps[n] = DoFor("register", steps[n].arg)
    BY <1>2, <1>4, Entries
  <2>. QED BY <1>2, <2>1
<1>6. ToSet(Behind(th)) \subseteq ToSet(todo[th])
  BY BehindFacts
<1>7. LaunchesApart(th, steps)
  BY <1>4, <1>5, <1>6 DEF LaunchesApart, Pending
<1>8. /\ ToSet(todo'[th]) = ToSet(steps) \cup ToSet(Behind(th)) /\ todo'[th] = steps \o Behind(th)
      /\ Behind(th) \in Seq(StepType)
  BY <1>2, <1>3, TakesPending, BehindFacts
<1>9. \A x \in ToSet(todo'[th]) : x.op # "submit"
  BY <1>4, <1>8 DEF LaunchInv
<1>10. ~ At(th, "submit")'
  <2>. DEFINE q == todo'[th]
  <2>1. q \in Seq(StepType)
    BY <1>2, <1>8, Joined
  <2>2. q # <<>> => Head(q) \in ToSet(q)
    <3>. HIDE DEF q
    <3>1. q # <<>> => Head(q) = q[1] /\ 1 \in 1 .. Len(q)
      BY <2>1, LenProperties, EmptySeq
    <3>. QED BY <2>1, <3>1, Entries
  <2>. QED BY <1>9, <2>2 DEF At
<1>11. /\ ToSet(Behind(th)') \subseteq ToSet(steps) \cup ToSet(Behind(th))
       /\ \A u \in Threads \ {th} : /\ Behind(u)' = Behind(u)
                                    /\ \A op : At(u, op)' => At(u, op) /\ Arg(u)' = Arg(u)
  BY <1>2, <1>3, BehindNext
<1>12. \A u \in Threads : \A x \in ToSet(Behind(u)') : x.op # "submit"
  BY <1>4, <1>11 DEF LaunchInv
<1>13. \A u \in Threads : At(u, "submit")' => DoFor("link", Arg(u)') \in ToSet(Behind(u)')
  BY <1>10, <1>11 DEF LaunchInv
<1>14. /\ \A u \in Threads : \A m, n \in 1 .. Len(todo'[u]) :
              m # n /\ todo'[u][m].op \in LaunchOps /\ todo'[u][n].op \in LaunchOps =>
                todo'[u][m].arg # todo'[u][n].arg
       /\ \A u, v \in Threads : u # v =>
              \A x \in ToSet(todo'[u]), y \in ToSet(todo'[v]) :
                x.op \in LaunchOps /\ y.op \in LaunchOps => x.arg # y.arg
  BY <1>2, <1>3, <1>7, LaunchedApart
<1>. QED BY <1>12, <1>13, <1>14 DEF LaunchInv, ToSet, DoFor

\* a registered job is submitted, and looked at again, by the same thread
LEMMA RegisterLaunches ==
  ASSUME LifeInv, LaunchInv, NEW th \in Threads, At(th, "register"),
         Then(th, <<DoFor("submit", Arg(th)), DoFor("link", Arg(th))>>)
  PROVE  LaunchInv'
<1>. DEFINE j == Arg(th)
            steps == <<DoFor("submit", j), DoFor("link", j)>>
            b == Behind(th)
<1>0. TypeInv /\ j \in Jobs /\ ~ Idle(th)
  BY HeadFacts, Ops DEF LifeInv
<1>1. steps \in Seq(StepType) /\ ToSet(steps) = {DoFor("submit", j), DoFor("link", j)}
  <2>1. DoFor("submit", j) \in StepType /\ DoFor("link", j) \in StepType
    BY <1>0, Ops, StepTypes
  <2>. QED BY <2>1 DEF ToSet
<1>2. TakesUp(th, steps)
  BY <1>0 DEF TakesUp
<1>3. /\ Len(steps) = 2 /\ steps[1] = DoFor("submit", j) /\ steps[2] = DoFor("link", j)
  OBVIOUS
<1>4. /\ \A y \in ToSet(b) : y.op \in LaunchOps => y.arg # j
      /\ \A u \in Threads \ {th} : \A y \in ToSet(todo[u]) : y.op \in LaunchOps => y.arg # j
  BY LaunchedHere DEF LaunchOps
<1>5. LaunchesApart(th, steps)
  <2>1. \A n \in 1 .. Len(steps) : n # 1 => steps[n].op \notin LaunchOps
    BY <1>3, OpOf DEF LaunchOps
  <2>2. \A x \in ToSet(steps) : x.arg = j
    BY <1>1, OpOf
  <2>. HIDE DEF steps, j, b
  <2>. QED BY <1>4, <2>1, <2>2 DEF LaunchesApart, b
<1>6. /\ todo'[th] = steps \o b /\ b \in Seq(StepType)
  BY <1>0, <1>1, <1>2, TakesPending, BehindFacts
<1>. HIDE DEF j, b
<1>7. /\ Head(todo'[th]) = DoFor("submit", j)
      /\ ToSet(Behind(th)') = {DoFor("link", j)} \cup ToSet(b)
  <2>1. DoFor("submit", j) \in StepType /\ DoFor("link", j) \in StepType
    BY <1>0, Ops, StepTypes
  <2>2. /\ Head(steps \o b) = DoFor("submit", j) /\ Tail(steps \o b) = <<DoFor("link", j)>> \o b
        /\ steps \o b # <<>>
    BY <1>6, <2>1
  <2>3. Behind(th)' = <<DoFor("link", j)>> \o b
    BY <1>6, <2>2 DEF Behind, Idle
  <2>4. <<DoFor("link", j)>> \in Seq(StepType) /\ ToSet(<<DoFor("link", j)>>) = {DoFor("link", j)}
    BY <2>1 DEF ToSet
  <2>5. ToSet(<<DoFor("link", j)>> \o b) = {DoFor("link", j)} \cup ToSet(b)
    <3>. DEFINE c == <<DoFor("link", j)>>
    <3>1. c \in Seq(StepType) /\ ToSet(c) = {DoFor("link", j)}
      BY <2>4
    <3>. HIDE DEF c
    <3>2. ToSet(c \o b) = {DoFor("link", j)} \cup ToSet(b)
      BY <1>6, <3>1, Joined
    <3>. QED BY <3>2 DEF c
  <2>. QED BY <1>6, <2>2, <2>3, <2>5
<1>8. \A u \in Threads \ {th} : /\ Behind(u)' = Behind(u)
                                /\ \A op : At(u, op)' => At(u, op) /\ Arg(u)' = Arg(u)
  BY <1>0, <1>1, <1>2, BehindNext
<1>9. \A u \in Threads : \A x \in ToSet(Behind(u)') : x.op # "submit"
  BY <1>7, <1>8, OpOf DEF LaunchInv, b
<1>10. \A u \in Threads : At(u, "submit")' => DoFor("link", Arg(u)') \in ToSet(Behind(u)')
  BY <1>7, <1>8, OpOf DEF LaunchInv, Arg
<1>11. /\ \A u \in Threads : \A m, n \in 1 .. Len(todo'[u]) :
              m # n /\ todo'[u][m].op \in LaunchOps /\ todo'[u][n].op \in LaunchOps =>
                todo'[u][m].arg # todo'[u][n].arg
       /\ \A u, v \in Threads : u # v =>
              \A x \in ToSet(todo'[u]), y \in ToSet(todo'[v]) :
                x.op \in LaunchOps /\ y.op \in LaunchOps => x.arg # y.arg
  BY <1>0, <1>1, <1>2, <1>5, LaunchedApart
<1>. QED BY <1>9, <1>10, <1>11 DEF LaunchInv, ToSet, DoFor

\* shutdown() closes the engine before it finalizes what is left
CloseInv ==
  \A th \in Threads : Do("finalize") \in ToSet(todo[th]) => engineDown \/ Close \in ToSet(todo[th])

LEMMA ClosesLater ==
  ASSUME TypeInv, CloseInv, NEW th \in Threads, NEW S, Does(th, S), engineDown => engineDown',
         \A x \in S : x.op # "finalize", Leaves(th, "closeEngine") \/ engineDown'
  PROVE  CloseInv'
<1>1. PICK steps : Of(steps, S) /\ TakesUp(th, steps)
  BY DEF Does
<1>2. /\ ToSet(todo'[th]) = S \cup ToSet(Behind(th)) /\ ToSet(Behind(th)) \subseteq ToSet(todo[th])
      /\ \A u \in Threads \ {th} : todo'[u] = todo[u]
  BY <1>1, TakesPending, BehindFacts DEF Of
<1>3. \A x \in ToSet(todo[th]) : Idle(th) \/ x # Head(todo[th]) => x \in ToSet(Behind(th))
  BY StaysBehind
<1>4. Do("finalize").op = "finalize" /\ Close.op = "closeEngine"
  BY OpOf DEF Close
<1>5. ASSUME NEW u \in Threads, Do("finalize") \in ToSet(todo'[u])
      PROVE  engineDown' \/ Close \in ToSet(todo'[u])
  <2>1. CASE u = th
    <3>1. Do("finalize") \in ToSet(todo[th])
      BY <1>2, <1>4, <1>5, <2>1
    <3>2. engineDown \/ Close \in ToSet(todo[th])
      BY <3>1 DEF CloseInv
    <3>. QED BY <1>2, <1>3, <1>4, <2>1, <3>2 DEF Leaves
  <2>2. CASE u # th
    BY <1>2, <1>5, <2>2 DEF CloseInv
  <2>. QED BY <2>1, <2>2
<1>. QED BY <1>5 DEF CloseInv, Close, Do

\* what is still to be launched is not in the engine
StagedInv ==
  /\ \A x : Pending(x) /\ x.op \in LaunchOps => x.arg \notin staged /\ job[x.arg] = "Absent"
  /\ \A j \in staged : job[j] = "Absent"

\* a job that is staged, in the engine, its task's, or in some thread's hands
Afoot(j) ==
  \/ j \in staged \/ job[j] # "Absent" \/ jobId[TaskOf(j)] = j
  \/ \E x : Pending(x) /\ x.op \in JobOps /\ x.arg = j

\* its task was launched, and completes or fails only after the job
Begun(j) ==
  \/ status[TaskOf(j)] \in {"Dispatching", "Running", "Cancelling", "Canceled"}
  \/ status[TaskOf(j)] \in {"Completed", "Failed"} /\ job[j] \in JobEnds

\* what a record says is what has become of the job
Reported(x) ==
  /\ x.state \in JobEnds => job[x.arg] \in JobEnds
  /\ x.op = "mark" => x.state \in JobEnds

\* a live job is its task's, or some thread is about to cancel or to check it
Minded(j) == jobId[TaskOf(j)] = j /\ status[TaskOf(j)] \in {"Dispatching", "Running"}
Stopping(j) == \E op \in StopOps : Pending(DoFor(op, j))

MindInv ==
  /\ LaunchInv /\ OrderInv /\ CloseInv /\ StagedInv
  /\ \A j \in Jobs : Afoot(j) => Begun(j)
  /\ \A x : Pending(x) /\ x.op \in RecordOps => Reported(x)
  /\ \A j \in Jobs : JobLive(j) => Stopping(j) \/ Minded(j)
  /\ engineDown => \A j \in Jobs : ~ JobLive(j)

\* the step this thread takes is none that takes care of j
Spares(th, j) == Idle(th) \/ \A op \in StopOps : Head(todo[th]) # DoFor(op, j)

LEMMA PendingTypes ==
  ASSUME TypeInv, NEW x, Pending(x)
  PROVE  x \in StepType /\ (x.op \in JobOps => x.arg \in Jobs)
<1>1. PICK th \in Threads : x \in ToSet(todo[th])
  BY DEF Pending
<1>2. x \in StepType
  BY <1>1, Entries DEF TypeInv
<1>3. x.op \in JobOps => x.arg \in Jobs
  BY <1>2 DEF StepType, JobOps, TaskOps, OtherOps
<1>. QED BY <1>2, <1>3

LEMMA MindStep ==
  ASSUME Onward, MindInv, NEW th \in Threads, NEW S, Does(th, S),
         LaunchInv', OrderInv', CloseInv', StagedInv',
         \A j \in staged' : Afoot(j) \/ Begun(j)',
         \A x \in S : /\ x.op \in JobOps => Afoot(x.arg)
                      /\ x.op \in RecordOps => Reported(x)',
         \A j \in Jobs : jobId'[TaskOf(j)] = j \/ job'[j] # "Absent" => Afoot(j),
         \A j \in Jobs : job[j] \in JobEnds => job'[j] \in JobEnds,
         \A j \in Jobs : Afoot(j) => Begun(j)',
         \A j \in Jobs : JobLive(j)' =>
            \/ \E op \in StopOps : DoFor(op, j) \in S
            \/ Minded(j)' \/ Stopping(j)'
            \/ JobLive(j) /\ ~ Minded(j) /\ Spares(th, j),
         engineDown' => \A j \in Jobs : ~ JobLive(j)'
  PROVE  MindInv'
<1>1. /\ \A x \in S : Pending(x)'
      /\ \A x : Pending(x) /\ (Idle(th) \/ x # Head(todo[th])) => Pending(x)'
      /\ \A x : Pending(x)' => x \in S \/ Pending(x)
  BY DoesPending DEF Onward, LifeInv
<1>2. ASSUME NEW j \in Jobs, Afoot(j)' PROVE Begun(j)'
  <2>1. CASE j \in staged'
    BY <2>1
  <2>2. CASE job'[j] # "Absent" \/ jobId'[TaskOf(j)] = j
    BY <2>2
  <2>3. ASSUME NEW x, Pending(x)', x.op \in JobOps, x.arg = j PROVE Begun(j)'
    <3>1. Afoot(j)
      BY <1>1, <2>3 DEF Afoot
    <3>. QED BY <3>1
  <2>. QED BY <1>2, <2>1, <2>2, <2>3 DEF Afoot
<1>3. ASSUME NEW x, Pending(x)', x.op \in RecordOps PROVE Reported(x)'
  <2>1. CASE x \in S
    BY <1>3, <2>1
  <2>2. CASE Pending(x)
    <3>1. x.op \in JobOps
      BY <1>3, Ops DEF RecordOps
    <3>2. x.arg \in Jobs /\ Reported(x)
      BY <1>3, <2>2, <3>1, PendingTypes DEF Onward, LifeInv, MindInv
    <3>. QED BY <3>2 DEF Reported
  <2>. QED BY <1>1, <1>3, <2>1, <2>2
<1>4. ASSUME NEW j \in Jobs, JobLive(j)' PROVE Stopping(j)' \/ Minded(j)'
  <2>1. CASE \E op \in StopOps : DoFor(op, j) \in S
    BY <1>1, <2>1 DEF Stopping, DoFor
  <2>2. CASE JobLive(j) /\ ~ Minded(j) /\ Spares(th, j)
    <3>1. PICK op \in StopOps : Pending(DoFor(op, j))
      BY <2>2 DEF MindInv, Stopping
    <3>2. Pending(DoFor(op, j))'
      BY <1>1, <2>2, <3>1 DEF Spares
    <3>. QED BY <3>2 DEF Stopping, DoFor
  <2>. QED BY <1>4, <2>1, <2>2
<1>. QED BY <1>2, <1>3, <1>4 DEF MindInv

\* a section that takes up steps about known jobs and leaves the engine alone
Lightly(S) ==
  \A x \in S : /\ x.op \notin LaunchOps /\ x.op # "finalize"
               /\ x.op \in JobOps => Afoot(x.arg)
               /\ x.op \in RecordOps => Reported(x)

LEMMA SectionMinds ==
  ASSUME Onward, MindInv, NEW th \in Threads, NEW S, Does(th, S), Lightly(S), OrderInv',
         Leaves(th, "closeEngine"), UNCHANGED engineVars,
         \A j \in staged' : j \in staged \/ (~ Afoot(j) /\ Begun(j)'),
         \A j \in Jobs : jobId'[TaskOf(j)] = j => Afoot(j),
         \A j \in Jobs : Afoot(j) => Begun(j)',
         \A j \in Jobs : JobLive(j) =>
            \/ \E op \in StopOps : DoFor(op, j) \in S
            \/ Minded(j)'
            \/ ~ Minded(j) /\ Spares(th, j)
  PROVE  MindInv'
<1>0. TypeInv
  BY DEF Onward, LifeInv
<1>1. LaunchInv'
  BY <1>0, LaunchesNothing DEF Lightly, MindInv
<1>2. CloseInv'
  BY <1>0, ClosesLater DEF Lightly, MindInv
<1>3. StagedInv'
  <2>1. ASSUME NEW x, Pending(x)', x.op \in LaunchOps PROVE x.arg \notin staged' /\ job'[x.arg] = "Absent"
    <3>1. Pending(x)
      BY <2>1, <1>0, DoesPending DEF Lightly
    <3>2. x.arg \notin staged /\ job[x.arg] = "Absent"
      BY <2>1, <3>1 DEF MindInv, StagedInv
    <3>3. Afoot(x.arg)
      BY <2>1, <3>1, Ops DEF Afoot, LaunchOps
    <3>. QED BY <3>2, <3>3
  <2>2. \A j \in staged' : job'[j] = "Absent"
    BY DEF MindInv, StagedInv, Afoot
  <2>. QED BY <2>1, <2>2 DEF StagedInv
<1>4. \A j \in Jobs : job'[j] # "Absent" => Afoot(j)
  BY DEF Afoot
<1>5. \A j \in staged' : Afoot(j) \/ Begun(j)'
  BY DEF Afoot
<1>6. \A x \in S : /\ x.op \in JobOps => Afoot(x.arg)
                   /\ x.op \in RecordOps => Reported(x)'
  BY DEF Lightly, Reported
<1>7. \A j \in Jobs : JobLive(j)' <=> JobLive(j)
  BY DEF JobLive
<1>8. engineDown' => \A j \in Jobs : ~ JobLive(j)'
  BY <1>7 DEF MindInv
<1>9. \A j \in Jobs : job[j] \in JobEnds => job'[j] \in JobEnds
  OBVIOUS
<1>10. \A j \in Jobs : jobId'[TaskOf(j)] = j \/ job'[j] # "Absent" => Afoot(j)
  BY <1>4
<1>11. \A j \in Jobs : JobLive(j)' =>
            \/ \E op \in StopOps : DoFor(op, j) \in S
            \/ Minded(j)' \/ Stopping(j)'
            \/ JobLive(j) /\ ~ Minded(j) /\ Spares(th, j)
  BY <1>7
<1>. QED BY <1>1, <1>2, <1>3, <1>5, <1>6, <1>8, <1>9, <1>10, <1>11, MindStep

\* the thread takes a step that takes care of no job and does not close the engine
Elsewhere(th) == Idle(th) \/ Head(todo[th]).op \notin StopOps \cup {"closeEngine"}

LEMMA ElsewhereSpares ==
  ASSUME NEW th, Elsewhere(th)
  PROVE  Leaves(th, "closeEngine") /\ \A j : Spares(th, j)
<1>1. Idle(th) \/ \A op \in StopOps : \A j : Head(todo[th]) # DoFor(op, j)
  BY OpOf DEF Elsewhere
<1>. QED BY <1>1 DEF Elsewhere, Leaves, Spares

\* ... and changes no status
LEMMA QuietMinds ==
  ASSUME Onward, MindInv, NEW th \in Threads, NEW S, Does(th, S), Lightly(S),
         \A x \in S : x.op \notin ShutdownOps, Elsewhere(th),
         UNCHANGED <<status, jobId, job, stop, engineDown>>, staged' \subseteq staged
  PROVE  MindInv'
<1>1. \A j \in Jobs : /\ jobId'[TaskOf(j)] = j => Afoot(j)
                      /\ Begun(j)' <=> Begun(j)
                      /\ Minded(j)' <=> Minded(j)
  BY DEF Afoot, Begun, Minded
<1>2. \A j \in Jobs : Afoot(j) => Begun(j)'
  BY <1>1 DEF MindInv
<1>3. OrderInv'
  BY TakesInOrder DEF Onward, LifeInv, MindInv
<1>4. Leaves(th, "closeEngine") /\ \A j : Spares(th, j)
  BY ElsewhereSpares
<1>. QED BY <1>1, <1>2, <1>3, <1>4, SectionMinds

\* the statuses s, which a pass starts from, keep what holds of the jobs
Keeps(s, S) ==
  \A j \in Jobs :
    /\ Afoot(j) =>
         \/ s[TaskOf(j)] \in {"Dispatching", "Running", "Cancelling", "Canceled"}
         \/ s[TaskOf(j)] \in {"Completed", "Failed"} /\ job[j] \in JobEnds
    /\ JobLive(j) /\ Minded(j) => s[TaskOf(j)] \in {"Dispatching", "Running"} \/ DoFor("cancel", j) \in S

LEMMA PassMinds ==
  ASSUME Onward, MindInv, NEW th \in Threads, NEW S, Does(th, S), Lightly(S),
         \A x \in S : x.op \notin ShutdownOps, Elsewhere(th),
         UNCHANGED engineVars, UNCHANGED jobId,
         NEW timers, NEW s \in [Tasks -> Statuses], NEW queued \in SUBSET Tasks,
         PassBefore(timers, s, queued), Keeps(s, S)
  PROVE  MindInv'
<1>0. TypeInv /\ OrderInv /\ \A j \in Jobs : TaskOf(j) \in Tasks
  BY FiniteTasks DEF Onward, LifeInv, MindInv
<1>1. OrderInv'
  BY <1>0, TakesInOrder
<1>2. PICK launched, failing \in SUBSET Tasks : Splits(s, launched, failing)
  BY PassSplit
<1>3. \A t \in Tasks : s[t] \notin ReadyLike => status'[t] = s[t]
  BY <1>2 DEF Splits
<1>4. \A j \in Jobs : Afoot(j) => s[TaskOf(j)] \notin ReadyLike
  BY DEF Keeps, ReadyLike
<1>5. \A j \in Jobs : Afoot(j) => Begun(j)'
  BY <1>0, <1>3, <1>4 DEF Keeps, Begun
<1>6. \A j \in staged' : j \in staged \/ (~ Afoot(j) /\ Begun(j)')
  <2>. SUFFICES ASSUME NEW j \in staged', j \notin staged PROVE ~ Afoot(j) /\ Begun(j)'
    OBVIOUS
  <2>1. PICK t \in launched : j = <<t, attempts'[t] + 1>>
    BY <1>2 DEF Splits
  <2>2. s[t] \in ReadyLike /\ status'[t] = "Dispatching" /\ TaskOf(j) = t
    BY <1>2, <2>1 DEF Splits, TaskOf
  <2>3. j \in Jobs
    BY DEF Onward, LifeInv, TypeInv
  <2>4. ~ Afoot(j)
    BY <1>4, <2>2, <2>3
  <2>5. Begun(j)'
    BY <2>2 DEF Begun
  <2>. QED BY <2>4, <2>5
<1>7. \A j \in Jobs : jobId'[TaskOf(j)] = j => Afoot(j)
  BY DEF Afoot
<1>8. Leaves(th, "closeEngine") /\ \A j : Spares(th, j)
  BY ElsewhereSpares
<1>9. \A j \in Jobs : JobLive(j) =>
            \/ \E op \in StopOps : DoFor(op, j) \in S
            \/ Minded(j)'
            \/ ~ Minded(j) /\ Spares(th, j)
  <2>1. ASSUME NEW j \in Jobs, JobLive(j), Minded(j), s[TaskOf(j)] \in {"Dispatching", "Running"} PROVE Minded(j)'
    <3>1. status'[TaskOf(j)] = s[TaskOf(j)]
      BY <1>0, <1>3, <2>1 DEF ReadyLike
    <3>. QED BY <2>1, <3>1 DEF Minded
  <2>. QED BY <1>8, <2>1 DEF Keeps, StopOps
<1>. QED BY <1>1, <1>5, <1>6, <1>7, <1>8, <1>9, SectionMinds

\* steps about no job
LEMMA Lighter ==
  ASSUME NEW S, \A x \in S : x.op \notin JobOps \cup ShutdownOps
  PROVE  Lightly(S) /\ \A x \in S : x.op \notin ShutdownOps
<1>1. LaunchOps \subseteq JobOps /\ RecordOps \subseteq JobOps /\ "finalize" \in ShutdownOps
  BY DEF LaunchOps, RecordOps, JobOps, ShutdownOps
<1>. QED BY <1>1 DEF Lightly

LEMMA StatusKeeps ==
  ASSUME MindInv, NEW S, NEW s, \A j \in Jobs : Afoot(j) => s[TaskOf(j)] = status[TaskOf(j)]
  PROVE  Keeps(s, S)
<1>1. \A j \in Jobs : JobLive(j) => Afoot(j)
  BY DEF JobLive, Afoot
<1>. QED BY <1>1 DEF MindInv, Keeps, Begun, Minded

\* nobody has a job of a task that is not in the map
LEMMA AbsentHasNoJob ==
  ASSUME MindInv, NEW j \in Jobs, status[TaskOf(j)] \in ReadyLike \cup {"Absent"}
  PROVE  ~ Afoot(j)
BY DEF MindInv, Begun, ReadyLike

\* ... nor of one that is not to be launched by itself yet
LEMMA ManualHasNoJob ==
  ASSUME LifeInv, NEW j \in Jobs, auto[TaskOf(j)] = "manual"
  PROVE  ~ Afoot(j)
<1>1. ~ Launchable(j)
  BY DEF Launchable
<1>2. TaskOf(j) \in Tasks /\ j # NoJob
  BY FiniteTasks, ThreadsAssumption
<1>3. \A x : Pending(x) /\ x.op \in JobOps => Launchable(x.arg)
  BY DEF LifeInv, ManualInv, Pending
<1>4. jobId[TaskOf(j)] # j
  BY <1>2 DEF LifeInv, ManualInv
<1>. QED BY <1>1, <1>3, <1>4 DEF LifeInv, ManualInv, Afoot

LEMMA EnqueueMinds ==
  ASSUME Onward, MindInv, NEW th \in Threads, Elsewhere(th), NEW t \in Tasks, status[t] = "Absent",
         NEW how, Enqueue(th, t, how), NEW S, Does(th, S), \A x \in S : x.op \notin JobOps \cup ShutdownOps
  PROVE  MindInv'
<1>. DEFINE s == Set(t, "Queued")
            queued == IF IsLaunchCandidate(s, t) THEN ready \cup {t} ELSE ready
<1>0. status \in [Tasks -> Statuses] /\ ready \subseteq Tasks
  BY DEF Onward, LifeInv, TypeInv
<1>1. PassBefore(rearm, s, queued) /\ UNCHANGED engineVars /\ UNCHANGED jobId
  BY DEF Enqueue, Pass
<1>2. \A u \in Tasks : u # t => s[u] = status[u]
  BY <1>0 DEF Set
<1>3. s \in [Tasks -> Statuses] /\ queued \in SUBSET Tasks
  BY <1>0 DEF Set, Statuses, ReadyLike
<1>. HIDE DEF s, queued
<1>4. \A j \in Jobs : Afoot(j) => s[TaskOf(j)] = status[TaskOf(j)]
  BY <1>2, AbsentHasNoJob, FiniteTasks
<1>5. Keeps(s, S)
  BY <1>4, StatusKeeps
<1>. QED BY <1>1, <1>3, <1>5, Lighter, PassMinds

LEMMA SubmissionsMind ==
  ASSUME Onward, MindInv, NEW th \in Threads
  PROVE  /\ \A g \in Pipelines : SubmitPipeline(th, g) => MindInv'
         /\ \A t \in Tasks : SubmitJob(th, t) \/ RetryTask(th, t) => MindInv'
         /\ Resubmit(th) => MindInv'
         /\ Armed(th) => MindInv'
<1>1. /\ \A x \in Flushes : x.op \notin JobOps \cup ShutdownOps
      /\ \A op \in {"arm", "armed", "fire", "resubmit", "enterPipeline"} : op \notin JobOps \cup ShutdownOps
  BY OpOf DEF JobOps, ShutdownOps
<1>2. \A op, x : op \in {"arm", "armed", "fire", "resubmit", "enterPipeline"} =>
        \A y \in {DoFor(op, x)} : y.op \notin JobOps \cup ShutdownOps
  BY <1>1, OpOf
<1>3. \A op : At(th, op) /\ op \notin StopOps \cup {"closeEngine"} => Elsewhere(th)
  BY AtIsBusy DEF Elsewhere
<1>4. \A op : op \in {"arm", "armed", "fire", "resubmit", "enterPipeline"} => op \notin StopOps \cup {"closeEngine"}
  BY DEF StopOps
<1>5. ASSUME NEW g \in Pipelines, SubmitPipeline(th, g) PROVE MindInv'
  <2>1. Does(th, {DoFor("enterPipeline", g)})
    BY <1>5, SubmissionsDo DEF Onward
  <2>2. Lightly({DoFor("enterPipeline", g)}) /\ \A x \in {DoFor("enterPipeline", g)} : x.op \notin ShutdownOps
    BY <1>2, Lighter
  <2>3. Elsewhere(th) /\ UNCHANGED <<status, jobId, job, stop, engineDown, staged>>
    BY <1>5 DEF SubmitPipeline, Call, Elsewhere
  <2>. QED BY <2>1, <2>2, <2>3, QuietMinds
<1>6. ASSUME NEW t \in Tasks, RetryTask(th, t) PROVE MindInv'
  <2>1. Does(th, {DoFor("resubmit", t)})
    BY <1>6, SubmissionsDo DEF Onward
  <2>2. Lightly({DoFor("resubmit", t)}) /\ \A x \in {DoFor("resubmit", t)} : x.op \notin ShutdownOps
    BY <1>2, Lighter
  <2>3. Elsewhere(th) /\ UNCHANGED <<status, jobId, job, stop, engineDown, staged>>
    BY <1>6 DEF RetryTask, Call, Elsewhere
  <2>. QED BY <2>1, <2>2, <2>3, QuietMinds
<1>7. ASSUME NEW t \in Tasks, SubmitJob(th, t) PROVE MindInv'
  <2>. DEFINE S == Flushes \cup {DoFor("arm", t)}
  <2>1. Does(th, S)
    BY <1>7, SubmissionsDo DEF Onward
  <2>2. \A x \in S : x.op \notin JobOps \cup ShutdownOps
    BY <1>1, <1>2
  <2>3. Elsewhere(th) /\ status[t] = "Absent" /\ Enqueue(th, t, "manual")
    BY <1>7 DEF SubmitJob, Fresh, Call, Elsewhere
  <2>. HIDE DEF S
  <2>. QED BY <2>1, <2>2, <2>3, EnqueueMinds
<1>8. ASSUME Resubmit(th) PROVE MindInv'
  <2>. DEFINE t == Arg(th)
  <2>1. At(th, "resubmit") /\ t \in Tasks
    BY <1>8, HeadFacts, Ops DEF Resubmit, Onward
  <2>2. status[t] = "Absent"
    <3>1. /\ Head(todo[th]).op = "resubmit"
          /\ \A u \in Newcomers(Head(todo[th])) : status[u] = "Absent"
      BY <2>1, HeadFacts, AtIsBusy DEF Onward
    <3>. QED BY <3>1 DEF Newcomers, Arg
  <2>3. Elsewhere(th)
    BY <1>3, <1>4, <2>1
  <2>4. CASE Does(th, {}) /\ UNCHANGED <<taskVars, callback, down, engineVars>>
    BY <2>3, <2>4, Lighter, QuietMinds
  <2>5. CASE Enqueue(th, t, "manual") /\ Does(th, Flushes \cup {DoFor("arm", t)})
    <3>1. \A x \in Flushes \cup {DoFor("arm", t)} : x.op \notin JobOps \cup ShutdownOps
      BY <1>1, <1>2
    <3>. QED BY <2>1, <2>2, <2>3, <2>5, <3>1, EnqueueMinds
  <2>6. CASE Enqueue(th, t, "auto") /\ Does(th, Flushes)
    BY <1>1, <2>1, <2>2, <2>3, <2>6, EnqueueMinds
  <2>. QED BY <1>8, <2>4, <2>5, <2>6, SubmissionsDo DEF Onward
<1>9. ASSUME Armed(th) PROVE MindInv'
  <2>. DEFINE S == IF down THEN {DoFor("fire", Arg(th))} ELSE {}
  <2>1. Does(th, S)
    BY <1>9, SubmissionsDo DEF Onward
  <2>2. \A x \in S : x.op \notin JobOps \cup ShutdownOps
    BY <1>2
  <2>3. Elsewhere(th) /\ UNCHANGED <<status, jobId, job, stop, engineDown, staged>>
    BY <1>3, <1>4, <1>9 DEF Armed
  <2>. HIDE DEF S
  <2>4. Lightly(S) /\ \A x \in S : x.op \notin ShutdownOps
    BY <2>2, Lighter
  <2>. QED BY <2>1, <2>3, <2>4, QuietMinds
<1>. QED BY <1>5, <1>6, <1>7, <1>8, <1>9

LEMMA PassesMind ==
  ASSUME Onward, MindInv, NEW th \in Threads
  PROVE  /\ EnterPipeline(th) => MindInv'
         /\ Arm(th) => MindInv'
         /\ TimerFires(th) => MindInv'
<1>0. status \in [Tasks -> Statuses] /\ ready \subseteq Tasks /\ \A j \in Jobs : TaskOf(j) \in Tasks
  BY FiniteTasks DEF Onward, LifeInv, TypeInv
<1>1. \A x \in Flushes : x.op \notin JobOps \cup ShutdownOps
  BY OpOf DEF JobOps, ShutdownOps
<1>2. ASSUME EnterPipeline(th) PROVE MindInv'
  <2>. DEFINE N == DOMAIN Arg(th)
              s == [t \in Tasks |-> IF t \in N THEN "Queued" ELSE status[t]]
              queued == ready \cup {t \in N : IsLaunchCandidate(s, t)}
  <2>1. At(th, "enterPipeline")
    BY <1>2 DEF EnterPipeline
  <2>2. N \subseteq Tasks
    <3>1. Arg(th) \in Pipelines
      BY <2>1, HeadFacts DEF Onward
    <3>. QED BY <3>1, TasksAssumption
  <2>3. \A t \in N : status[t] = "Absent"
    <3>1. /\ Head(todo[th]).op = "enterPipeline"
          /\ \A t \in Newcomers(Head(todo[th])) : status[t] = "Absent"
      BY <2>1, HeadFacts, AtIsBusy DEF Onward
    <3>. QED BY <3>1 DEF Newcomers, Arg
  <2>4. PassBefore(rearm, s, queued) /\ UNCHANGED engineVars /\ UNCHANGED jobId
    BY <1>2 DEF EnterPipeline, Pass
  <2>5. Does(th, Flushes)
    BY <1>2, SubmissionsDo DEF Onward
  <2>6. queued \in SUBSET Tasks
    BY <1>0, <2>2
  <2>7. s \in [Tasks -> Statuses]
    BY <1>0 DEF Statuses, ReadyLike
  <2>. HIDE DEF N
  <2>8. \A t \in Tasks : s[t] = IF t \in N THEN "Queued" ELSE status[t]
    OBVIOUS
  <2>. HIDE DEF s, queued
  <2>9. \A j \in Jobs : Afoot(j) => s[TaskOf(j)] = status[TaskOf(j)]
    BY <1>0, <2>3, <2>8, AbsentHasNoJob
  <2>10. Keeps(s, Flushes)
    BY <2>9, StatusKeeps
  <2>11. Elsewhere(th)
    BY <2>1, AtIsBusy DEF Elsewhere, StopOps
  <2>. QED BY <1>1, <2>4, <2>5, <2>6, <2>7, <2>10, <2>11, Lighter, PassMinds
<1>3. ASSUME Arm(th) PROVE MindInv'
  <2>. DEFINE t == Arg(th)
              s == [status EXCEPT ![t] = Arms(t)]
              queued == IF ~ down /\ IsLaunchCandidate(s, t) THEN ready \cup {t} ELSE ready
              S == Flushes \cup {DoFor("armed", t)}
  <2>1. At(th, "arm")
    BY <1>3 DEF Arm
  <2>2. t \in Tasks /\ auto[t] = "manual"
    BY <2>1, Ops, HeadFacts DEF Onward
  <2>3. PassBefore(rearm, s, queued) /\ UNCHANGED engineVars /\ UNCHANGED jobId
    BY <1>3 DEF Arm, Pass
  <2>4. Does(th, S)
    BY <1>3, SubmissionsDo DEF Onward
  <2>5. queued \in SUBSET Tasks
    BY <1>0, <2>2
  <2>6. \A u \in Tasks : u # t => s[u] = status[u]
    BY <1>0, <2>2
  <2>7. s \in [Tasks -> Statuses]
    BY <1>0, <2>2 DEF Statuses, Arms, Final
  <2>8. \A x \in S : x.op \notin JobOps \cup ShutdownOps
    BY <1>1, OpOf DEF JobOps, ShutdownOps
  <2>9. Elsewhere(th)
    BY <2>1, AtIsBusy DEF Elsewhere, StopOps
  <2>. HIDE DEF s, queued, t, S
  <2>10. \A j \in Jobs : Afoot(j) => s[TaskOf(j)] = status[TaskOf(j)]
    BY <1>0, <2>2, <2>6, ManualHasNoJob DEF Onward
  <2>11. Keeps(s, S)
    BY <2>10, StatusKeeps
  <2>. QED BY <2>3, <2>4, <2>5, <2>7, <2>8, <2>9, <2>11, Lighter, PassMinds
<1>4. ASSUME TimerFires(th) PROVE MindInv'
  <2>1. PICK others \in BOOLEAN : PassBefore(others, status, ready)
    BY <1>4 DEF TimerFires
  <2>2. UNCHANGED engineVars /\ UNCHANGED jobId /\ Elsewhere(th)
    BY <1>4 DEF TimerFires, Elsewhere, Call
  <2>3. Does(th, Flushes)
    BY <1>4, SubmissionsDo DEF Onward
  <2>4. ready \in SUBSET Tasks /\ Keeps(status, Flushes)
    BY <1>0, StatusKeeps
  <2>. QED BY <1>0, <1>1, <2>1, <2>2, <2>3, <2>4, Lighter, PassMinds
<1>. QED BY <1>2, <1>3, <1>4

\* whom a cancel leaves without a job, had none
LEMMA CascadeKeeps ==
  ASSUME LifeInv, NEW r, NEW S, Keeps(r, S), NEW targets,
         \A j \in JobsToCancel(r, targets) : DoFor("cancel", j) \in S
  PROVE  Keeps(Cascade(r, targets), S)
<1>. DEFINE s == Cascade(r, targets)
<1>0. \A j \in Jobs : TaskOf(j) \in Tasks /\ j # NoJob
  BY FiniteTasks, ThreadsAssumption
<1>1. \A t \in Tasks : \/ s[t] = r[t]
                       \/ t \in targets /\ Live(r, t) /\ s[t] \in {"Canceled", "Cancelling"}
  BY DEF Cascade
<1>2. \A t \in Tasks : t \in targets /\ Live(r, t) /\ jobId[t] # NoJob => DoFor("cancel", jobId[t]) \in S
  BY DEF JobsToCancel
<1>. HIDE DEF s
<1>3. ASSUME NEW j \in Jobs, Afoot(j)
      PROVE  \/ s[TaskOf(j)] \in {"Dispatching", "Running", "Cancelling", "Canceled"}
             \/ s[TaskOf(j)] \in {"Completed", "Failed"} /\ job[j] \in JobEnds
  BY <1>0, <1>1, <1>3 DEF Keeps
<1>4. ASSUME NEW j \in Jobs, JobLive(j), Minded(j)
      PROVE  s[TaskOf(j)] \in {"Dispatching", "Running"} \/ DoFor("cancel", j) \in S
  <2>1. CASE s[TaskOf(j)] = r[TaskOf(j)]
    BY <1>4, <2>1 DEF Keeps
  <2>2. CASE TaskOf(j) \in targets /\ Live(r, TaskOf(j))
    <3>1. jobId[TaskOf(j)] = j
      BY <1>4 DEF Minded
    <3>. QED BY <1>0, <1>2, <2>2, <3>1
  <2>. QED BY <1>0, <1>1, <2>1, <2>2
<1>. QED BY <1>3, <1>4 DEF Keeps, s

LEMMA CancelsAreAfoot ==
  ASSUME LifeInv, NEW s, NEW targets
  PROVE  /\ \A j \in JobsToCancel(s, targets) : Afoot(j)
         /\ \A t \in Tasks : \A j \in OwnJob(t) : Afoot(j)
<1>1. \A t \in Tasks : jobId[t] # NoJob => jobId[TaskOf(jobId[t])] = jobId[t]
  BY DEF LifeInv, ManualInv
<1>2. \A t \in Tasks : jobId[t] # NoJob => Afoot(jobId[t])
  BY <1>1 DEF Afoot
<1>. QED BY <1>2 DEF JobsToCancel, OwnJob

\* steps that cancel known jobs are light
LEMMA CancelsAreLight ==
  ASSUME NEW S, \A x \in S : x.op \in {"cancel", "flush", "signals", "fire"},
         \A x \in S : x.op = "cancel" => Afoot(x.arg)
  PROVE  Lightly(S) /\ \A x \in S : x.op \notin ShutdownOps
<1>1. \A x \in S : x.op \notin LaunchOps \cup RecordOps /\ x.op # "finalize" /\ x.op \notin ShutdownOps
  BY DEF LaunchOps, RecordOps, ShutdownOps
<1>2. \A x \in S : x.op \in JobOps => x.op = "cancel"
  BY DEF JobOps
<1>. QED BY <1>1, <1>2 DEF Lightly

LEMMA CancelLockedMinds ==
  ASSUME Onward, MindInv, NEW th \in Threads, Elsewhere(th), NEW t, CancelLocked(t),
         Does(th, CancelDoes(status, {t} \cup Descendants(status, t)))
  PROVE  MindInv'
<1>. DEFINE targets == {t} \cup Descendants(status, t)
            s == Cascade(status, targets)
            S == CancelDoes(status, targets)
<1>1. PassBefore(rearm, s, ready) /\ UNCHANGED engineVars /\ UNCHANGED jobId
  BY DEF CancelLocked, Pass
<1>2. Does(th, S)
  OBVIOUS
<1>3. ready \in SUBSET Tasks /\ s \in [Tasks -> Statuses]
  <2>1. Calm(s)
    BY CalmFacts DEF Onward
  <2>. QED BY <2>1 DEF Calm, Onward, LifeInv, TypeInv
<1>. HIDE DEF targets
<1>4. \A x \in S : x.op \in {"cancel", "flush", "signals", "fire"}
  BY OpOf DEF CancelDoes
<1>5. \A x \in S : x.op = "cancel" => x.arg \in JobsToCancel(status, targets)
  BY OpOf DEF CancelDoes
<1>6. \A j \in JobsToCancel(status, targets) : DoFor("cancel", j) \in S
  BY EachHas DEF CancelDoes
<1>. HIDE DEF S
<1>7. Lightly(S) /\ \A x \in S : x.op \notin ShutdownOps
  BY <1>4, <1>5, CancelsAreAfoot, CancelsAreLight DEF Onward
<1>8. Keeps(status, S)
  BY StatusKeeps
<1>9. Keeps(s, S)
  BY <1>6, <1>8, CascadeKeeps DEF Onward
<1>. HIDE DEF s
<1>. QED BY <1>1, <1>2, <1>3, <1>7, <1>9, PassMinds

LEMMA CancelsMind ==
  ASSUME Onward, MindInv, NEW th \in Threads
  PROVE  (\E t : CancelTask(th, t)) \/ CancelForShutdown(th) => MindInv'
<1>1. ASSUME NEW t, CancelTask(th, t) PROVE MindInv'
  <2>1. Does(th, CancelDoes(status, {t} \cup Descendants(status, t)))
    BY <1>1, CancelsDo DEF Onward
  <2>2. CancelLocked(t) /\ Elsewhere(th)
    BY <1>1 DEF CancelTask, Call, Elsewhere
  <2>. QED BY <2>1, <2>2, CancelLockedMinds
<1>2. ASSUME CancelForShutdown(th) PROVE MindInv'
  <2>0. Elsewhere(th)
    BY <1>2, AtIsBusy DEF CancelForShutdown, Elsewhere, StopOps
  <2>1. CASE Live(status, Arg(th))
    <3>1. Does(th, CancelDoes(status, {Arg(th)} \cup Descendants(status, Arg(th))))
      BY <1>2, <2>1, CancelsDo DEF Onward
    <3>2. CancelLocked(Arg(th))
      BY <1>2, <2>1 DEF CancelForShutdown
    <3>. QED BY <2>0, <3>1, <3>2, CancelLockedMinds
  <2>2. CASE ~ Live(status, Arg(th))
    <3>1. Does(th, {})
      BY <1>2, <2>2, CancelsDo DEF Onward
    <3>2. UNCHANGED <<status, jobId, job, stop, engineDown, staged>>
      BY <1>2, <2>2 DEF CancelForShutdown
    <3>. QED BY <2>0, <3>1, <3>2, Lighter, QuietMinds
  <2>. QED BY <2>1, <2>2
<1>. QED BY <1>1, <1>2

LEMMA HeadIsAfoot ==
  ASSUME Onward, MindInv, NEW th \in Threads, NEW op \in JobOps, At(th, op)
  PROVE  /\ Arg(th) \in Jobs /\ TaskOf(Arg(th)) \in Tasks /\ Afoot(Arg(th))
         /\ ~ Idle(th) /\ Head(todo[th]).op = op
         /\ op \in RecordOps => /\ State(th) \in JobEnds => job[Arg(th)] \in JobEnds
                                /\ op = "mark" => State(th) \in JobEnds
<1>1. /\ Arg(th) \in Jobs /\ TaskOf(Arg(th)) \in Tasks /\ ~ Idle(th)
      /\ Head(todo[th]) \in ToSet(todo[th]) /\ Head(todo[th]).op = op
  BY HeadFacts, AtIsBusy DEF Onward
<1>2. Pending(Head(todo[th]))
  BY <1>1 DEF Pending
<1>3. Afoot(Arg(th))
  BY <1>1, <1>2 DEF Afoot, Arg
<1>4. op \in RecordOps => Reported(Head(todo[th]))
  BY <1>1, <1>2 DEF MindInv
<1>. QED BY <1>1, <1>3, <1>4 DEF Reported, Arg, State

\* the task of a job that is over may end
LEMMA EndedKeeps ==
  ASSUME OneJob, LifeInv, MindInv, NEW j \in Jobs, job[j] \in JobEnds, NEW S, NEW s,
         s[TaskOf(j)] \in Final, \A t \in Tasks : t # TaskOf(j) => s[t] = status[t]
  PROVE  Keeps(s, S)
<1>1. \A i \in Jobs : TaskOf(i) \in Tasks /\ (TaskOf(i) = TaskOf(j) => i = j)
  BY FiniteTasks, JobsAreTasks
<1>2. ~ JobLive(j)
  BY DEF JobLive, JobEnds
<1>3. s[TaskOf(j)] = "Canceled" \/ s[TaskOf(j)] \in {"Completed", "Failed"}
  BY DEF Final
<1>4. ASSUME NEW i \in Jobs PROVE i = j \/ s[TaskOf(i)] = status[TaskOf(i)]
  BY <1>1
<1>5. \A i \in Jobs : JobLive(i) => Afoot(i)
  BY DEF JobLive, Afoot
<1>6. \A i \in Jobs : Afoot(i) => Begun(i)
  BY DEF MindInv
<1>7. ASSUME NEW i \in Jobs, Afoot(i)
      PROVE  \/ s[TaskOf(i)] \in {"Dispatching", "Running", "Cancelling", "Canceled"}
             \/ s[TaskOf(i)] \in {"Completed", "Failed"} /\ job[i] \in JobEnds
  BY <1>3, <1>4, <1>6, <1>7 DEF Begun
<1>8. ASSUME NEW i \in Jobs, JobLive(i), Minded(i) PROVE s[TaskOf(i)] \in {"Dispatching", "Running"}
  BY <1>2, <1>4, <1>8 DEF Minded
<1>. QED BY <1>7, <1>8 DEF Keeps

LEMMA MarkMinds ==
  ASSUME OneJob, Onward, MindInv, NEW th \in Threads, Mark(th)
  PROVE  MindInv'
<1>. DEFINE j == Arg(th)
            t == TaskOf(j)
<1>1. At(th, "mark") /\ Elsewhere(th) /\ UNCHANGED engineVars
  BY AtIsBusy DEF Mark, Elsewhere, StopOps
<1>2. j \in Jobs /\ t \in Tasks /\ ~ Idle(th) /\ job[j] \in JobEnds
  BY <1>1, HeadIsAfoot, Ops DEF RecordOps
<1>3. status \in [Tasks -> Statuses] /\ ready \subseteq Tasks
  BY DEF Onward, LifeInv, TypeInv
<1>4. CASE ~ Live(status, t)
  <2>1. Then(th, <<>>) /\ UNCHANGED <<status, jobId, job, stop, engineDown, staged>>
    BY <1>4 DEF Mark, Done
  <2>2. Does(th, {})
    BY <1>2, <2>1, OfNone, ThenDoes
  <2>. QED BY <1>1, <2>1, <2>2, Lighter, QuietMinds
<1>5. CASE Live(status, t) /\ MarkTaskCompleted(th, t)
  <2>. DEFINE s == Set(t, "Completed")
              queued == ready \cup Promoted(s, t)
              S == Flushes \cup {DoFor("fire", t)}
  <2>1. PassBefore(rearm, s, queued) /\ UNCHANGED jobId
    BY <1>5 DEF MarkTaskCompleted, Pass
  <2>2. Does(th, S)
    BY <1>2, <1>5, MarksDo DEF Onward
  <2>3. \A x \in S : x.op \in {"flush", "signals", "fire"}
    BY OpOf
  <2>4. \A x \in S : x.op \notin JobOps \cup ShutdownOps
    BY <2>3 DEF JobOps, ShutdownOps
  <2>5. s[t] \in Final /\ \A u \in Tasks : u # t => s[u] = status[u]
    BY <1>2, <1>3 DEF Set, Final
  <2>6. s \in [Tasks -> Statuses] /\ queued \in SUBSET Tasks
    BY <1>3 DEF Set, Statuses, Final, Promoted
  <2>. HIDE DEF s, queued, S, j
  <2>7. Keeps(s, S)
    BY <1>2, <2>5, EndedKeeps DEF Onward
  <2>. QED BY <1>1, <2>1, <2>2, <2>4, <2>6, <2>7, Lighter, PassMinds
<1>6. CASE Live(status, t) /\ ShouldAutoRetry(t, State(th))
  <2>1. attempts[t] \in 0 .. 0
    BY <1>2 DEF OneJob, Onward, LifeInv, TypeInv
  <2>2. ~ attempts[t] < 0
    BY <2>1
  <2>. QED BY <1>6, <2>2 DEF ShouldAutoRetry, OneJob
<1>7. ASSUME Live(status, t), NEW new \in {"Canceled", "Failed"}, MarkTaskEnded(th, t, new) PROVE MindInv'
  <2>. DEFINE r == Set(t, new)
              below == Descendants(r, t)
              s == Cascade(r, below)
              S == Each("cancel", OwnJob(t) \cup JobsToCancel(r, below)) \cup Flushes
                     \cup {DoFor("fire", t)} \cup Each("fire", CanceledAtOnce(r, below))
  <2>1. PassBefore(rearm, s, ready) /\ UNCHANGED jobId
    BY <1>7 DEF MarkTaskEnded, Pass, Endings
  <2>2. Does(th, S)
    BY <1>2, <1>7, MarksDo DEF Onward
  <2>3. r[t] \in Final /\ \A u \in Tasks : u # t => r[u] = status[u]
    BY <1>2, <1>3 DEF Set, Final
  <2>4. r \in [Tasks -> Statuses]
    BY <1>3 DEF Set, Statuses, Final
  <2>5. s \in [Tasks -> Statuses]
    BY <2>4 DEF Cascade, Statuses, Final, ActiveStates
  <2>. HIDE DEF below, r, j
  <2>6. \A x \in S : x.op \in {"cancel", "flush", "signals", "fire"}
    BY OpOf
  <2>7. \A x \in S : x.op = "cancel" => x.arg \in OwnJob(t) \cup JobsToCancel(r, below)
    BY OpOf
  <2>8. \A i \in JobsToCancel(r, below) : DoFor("cancel", i) \in S
    BY EachHas
  <2>. HIDE DEF S
  <2>9. Lightly(S) /\ \A x \in S : x.op \notin ShutdownOps
    BY <1>2, <2>6, <2>7, CancelsAreAfoot, CancelsAreLight DEF Onward
  <2>10. Keeps(r, S)
    BY <1>2, <2>3, EndedKeeps DEF Onward
  <2>11. Keeps(s, S) /\ ready \in SUBSET Tasks
    BY <1>3, <2>8, <2>10, CascadeKeeps DEF Onward
  <2>. HIDE DEF s
  <2>. QED BY <1>1, <2>1, <2>2, <2>5, <2>9, <2>11, PassMinds
<1>. QED BY <1>4, <1>5, <1>6, <1>7 DEF Mark

\* launches that change no status
LEMMA LaunchMinds ==
  ASSUME Onward, MindInv, NEW th \in Threads, NEW S, Does(th, S), LaunchInv', StagedInv', Elsewhere(th),
         \A x \in S : x.op \in {"register", "submit", "link"} /\ Afoot(x.arg),
         UNCHANGED <<status, job, stop, engineDown>>, staged' \subseteq staged,
         \A j \in Jobs : jobId'[TaskOf(j)] = j => Afoot(j),
         \A j \in Jobs : Minded(j) => Minded(j)'
  PROVE  MindInv'
<1>0. TypeInv
  BY DEF Onward, LifeInv
<1>1. Leaves(th, "closeEngine") /\ \A j : Spares(th, j)
  BY ElsewhereSpares
<1>2. \A x \in S : x.op \notin ShutdownOps \cup RecordOps /\ x.op # "finalize"
  BY DEF ShutdownOps, RecordOps
<1>3. OrderInv' /\ CloseInv'
  BY <1>0, <1>1, <1>2, TakesInOrder, ClosesLater DEF MindInv
<1>4. \A j \in Jobs : (Begun(j)' <=> Begun(j)) /\ (JobLive(j)' <=> JobLive(j))
  BY DEF Begun, JobLive
<1>5. \A j \in Jobs : Afoot(j) => Begun(j)'
  BY <1>4 DEF MindInv
<1>6. \A j \in Jobs : jobId'[TaskOf(j)] = j \/ job'[j] # "Absent" => Afoot(j)
  BY DEF Afoot
<1>7. \A j \in staged' : Afoot(j) \/ Begun(j)'
  BY DEF Afoot
<1>8. \A j \in Jobs : JobLive(j)' =>
            \/ \E op \in StopOps : DoFor(op, j) \in S
            \/ Minded(j)' \/ Stopping(j)'
            \/ JobLive(j) /\ ~ Minded(j) /\ Spares(th, j)
  BY <1>1, <1>4
<1>9. engineDown' => \A j \in Jobs : ~ JobLive(j)'
  BY <1>4 DEF MindInv
<1>10. \A x \in S : /\ x.op \in JobOps => Afoot(x.arg)
                    /\ x.op \in RecordOps => Reported(x)'
  BY <1>2
<1>11. \A j \in Jobs : job[j] \in JobEnds => job'[j] \in JobEnds
  OBVIOUS
<1>. QED BY <1>3, <1>5, <1>6, <1>7, <1>8, <1>9, <1>10, <1>11, MindStep

LEMMA FlushMinds ==
  ASSUME Onward, MindInv, NEW th \in Threads, FlushPendingLaunches(th)
  PROVE  MindInv'
<1>1. ~ Idle(th) /\ Elsewhere(th) /\ UNCHANGED <<status, jobId, job, stop, engineDown>> /\ staged' = {}
  BY AtIsBusy DEF FlushPendingLaunches, Elsewhere, StopOps
<1>2. CASE down
  <2>1. Does(th, {})
    BY <1>2, LaunchesDo DEF Onward
  <2>. QED BY <1>1, <2>1, Lighter, QuietMinds
<1>3. CASE ~ down
  <2>. DEFINE S == Each("register", staged)
  <2>1. Does(th, S)
    BY <1>3, LaunchesDo DEF Onward
  <2>2. TypeInv /\ staged \in SUBSET Jobs /\ IsFiniteSet(staged)
    BY FiniteTasks, FS_Subset DEF Onward, LifeInv, TypeInv
  <2>3. TakesUp(th, ForEach("register", staged))
    BY <1>1, <1>3 DEF FlushPendingLaunches, TakesUp
  <2>4. \A x : Pending(x) /\ x.op \in LaunchOps => x.arg \notin staged
    BY DEF MindInv, StagedInv
  <2>5. LaunchInv'
    BY <2>2, <2>3, <2>4, FlushLaunches DEF MindInv
  <2>6. \A x \in S : x.op = "register" /\ x.arg \in staged
    BY OpOf
  <2>. HIDE DEF S
  <2>7. StagedInv'
    <3>1. \A x : Pending(x)' => x \in S \/ Pending(x)
      BY <2>1, <2>2, DoesPending
    <3>2. ASSUME NEW x, Pending(x)', x.op \in LaunchOps PROVE job[x.arg] = "Absent"
      BY <2>6, <3>1, <3>2 DEF MindInv, StagedInv
    <3>. QED BY <1>1, <3>2 DEF StagedInv
  <2>8. \A x \in S : x.op \in {"register", "submit", "link"} /\ Afoot(x.arg)
    BY <2>6 DEF Afoot
  <2>9. \A j \in Jobs : /\ jobId'[TaskOf(j)] = j => Afoot(j)
                        /\ Minded(j) => Minded(j)'
    BY <1>1 DEF Afoot, Minded
  <2>10. staged' \subseteq staged
    BY <1>1
  <2>. QED BY <1>1, <2>1, <2>5, <2>7, <2>8, <2>9, <2>10, LaunchMinds
<1>. QED BY <1>2, <1>3

\* the task of a job tracks no other job afterwards than this one
LEMMA TracksMinded ==
  ASSUME OneJob, LifeInv, NEW j \in Jobs, jobId' = [jobId EXCEPT ![TaskOf(j)] = j] \/ jobId' = jobId,
         status' = status
  PROVE  \A i \in Jobs : Minded(i) => Minded(i)'
<1>1. \A i \in Jobs : TaskOf(i) \in Tasks /\ (TaskOf(i) = TaskOf(j) => i = j)
  BY FiniteTasks, JobsAreTasks
<1>2. \A i \in Jobs : jobId[TaskOf(i)] = i => jobId'[TaskOf(i)] = i
  BY <1>1 DEF LifeInv, TypeInv
<1>. QED BY <1>2 DEF Minded

LEMMA RegisterMinds ==
  ASSUME OneJob, Onward, MindInv, NEW th \in Threads, Register(th)
  PROVE  MindInv'
<1>. DEFINE j == Arg(th)
            t == TaskOf(j)
<1>1. At(th, "register") /\ UNCHANGED <<status, job, stop, engineDown, staged>>
  BY DEF Register
<1>2. Elsewhere(th) /\ j \in Jobs /\ t \in Tasks /\ Afoot(j) /\ ~ Idle(th)
  BY <1>1, AtIsBusy, HeadIsAfoot, Ops DEF Elsewhere, StopOps
<1>3. CASE ~ Live(status, t)
  <2>1. Does(th, {}) /\ jobId' = jobId
    BY <1>3, LaunchesDo DEF Onward, Register
  <2>. QED BY <1>1, <1>2, <2>1, Lighter, QuietMinds
<1>4. CASE Live(status, t)
  <2>. DEFINE S == {DoFor("submit", j), DoFor("link", j)}
  <2>1. Does(th, S) /\ jobId' = [jobId EXCEPT ![t] = j]
    BY <1>4, LaunchesDo DEF Onward, Register
  <2>2. LaunchInv'
    <3>1. Then(th, <<DoFor("submit", Arg(th)), DoFor("link", Arg(th))>>)
      BY <1>4 DEF Register
    <3>. QED BY <1>1, <3>1, RegisterLaunches DEF Onward, MindInv
  <2>3. \A x \in S : x.op \in {"register", "submit", "link"} /\ x.arg = j
    BY OpOf
  <2>. HIDE DEF S
  <2>4. j \notin staged /\ job[j] = "Absent"
    <3>1. Pending(Head(todo[th])) /\ Head(todo[th]).op = "register"
      BY <1>1, HeadFacts, AtIsBusy DEF Onward, Pending
    <3>. QED BY <3>1 DEF MindInv, StagedInv, LaunchOps, Arg
  <2>5. StagedInv'
    <3>1. \A x : Pending(x)' => x \in S \/ Pending(x)
      BY <2>1, DoesPending DEF Onward, LifeInv
    <3>2. ASSUME NEW x, Pending(x)', x.op \in LaunchOps PROVE x.arg \notin staged /\ job[x.arg] = "Absent"
      BY <2>3, <2>4, <3>1, <3>2 DEF MindInv, StagedInv
    <3>. QED BY <1>1, <3>2 DEF MindInv, StagedInv
  <2>. HIDE DEF j
  <2>6. \A i \in Jobs : jobId'[TaskOf(i)] = i => Afoot(i)
    <3>1. \A i \in Jobs : TaskOf(i) \in Tasks
      BY FiniteTasks
    <3>2. \A i \in Jobs : jobId'[TaskOf(i)] = i => i = j \/ jobId[TaskOf(i)] = i
      BY <1>2, <2>1, <3>1 DEF Onward, LifeInv, TypeInv
    <3>. QED BY <1>2, <3>2 DEF Afoot
  <2>7. \A i \in Jobs : Minded(i) => Minded(i)'
    BY <1>1, <1>2, <2>1, TracksMinded DEF Onward
  <2>8. \A x \in S : x.op \in {"register", "submit", "link"} /\ Afoot(x.arg)
    BY <1>2, <2>3
  <2>. QED BY <1>1, <1>2, <2>1, <2>2, <2>5, <2>6, <2>7, <2>8, LaunchMinds
<1>. QED BY <1>3, <1>4

LEMMA SubmitWithIdMinds ==
  ASSUME Onward, MindInv, NEW th \in Threads, SubmitWithId(th)
  PROVE  MindInv'
<1>a. Arg(th) \in Jobs
  BY HeadIsAfoot, Ops DEF SubmitWithId
<1>. SUFFICES ASSUME NEW j \in Jobs, Arg(th) = j PROVE MindInv'
  BY <1>a
<1>. DEFINE S == IF engineDown THEN {Record("record", j, "Cancelled")} ELSE {}
<1>0. TypeInv
  BY DEF Onward, LifeInv
<1>1. /\ At(th, "submit") /\ UNCHANGED <<status, jobId, stop, engineDown, staged>>
      /\ job' = [job EXCEPT ![j] = IF engineDown THEN "Cancelled" ELSE "Queued"]
  BY DEF SubmitWithId
<1>2. /\ j \in Jobs /\ TaskOf(j) \in Tasks /\ Afoot(j) /\ ~ Idle(th)
      /\ Head(todo[th]).op = "submit" /\ Pending(Head(todo[th]))
  BY <1>1, HeadIsAfoot, HeadFacts, Ops DEF Onward, Pending
<1>3. Does(th, S)
  BY <1>1, LaunchesDo DEF Onward, SubmitWithId
<1>4. Leaves(th, "closeEngine") /\ \A i : Spares(th, i)
  BY <1>2, ElsewhereSpares DEF Elsewhere, StopOps
<1>5. job[j] = "Absent" /\ j \notin staged
  BY <1>2 DEF MindInv, StagedInv, LaunchOps, Arg
<1>6. \A i \in Jobs : job'[i] = IF i = j THEN (IF engineDown THEN "Cancelled" ELSE "Queued") ELSE job[i]
  BY <1>0, <1>1 DEF TypeInv
<1>7. \A x \in S : x.op = "record" /\ x.arg = j /\ engineDown
  BY OpOf
<1>8. LaunchInv' /\ OrderInv' /\ CloseInv'
  <2>1. \A x \in S : x.op \notin LaunchOps /\ x.op # "finalize" /\ x.op \notin ShutdownOps
    BY <1>7 DEF LaunchOps, ShutdownOps
  <2>2. LaunchInv /\ OrderInv /\ CloseInv /\ (engineDown => engineDown')
    BY <1>1 DEF MindInv
  <2>. HIDE DEF S
  <2>. QED BY <1>0, <1>3, <1>4, <2>1, <2>2, LaunchesNothing, TakesInOrder, ClosesLater
<1>. HIDE DEF S
<1>9. StagedInv'
  <2>1. /\ \A y \in ToSet(Behind(th)) : y.op \in LaunchOps => y.arg # j
        /\ \A u \in Threads \ {th} : \A y \in ToSet(todo[u]) : y.op \in LaunchOps => y.arg # j
    BY <1>1, LaunchedHere DEF Onward, MindInv, LaunchOps
  <2>2. PICK steps : Of(steps, S) /\ TakesUp(th, steps)
    BY <1>3 DEF Does
  <2>3. /\ ToSet(todo'[th]) = S \cup ToSet(Behind(th)) /\ ToSet(Behind(th)) \subseteq ToSet(todo[th])
        /\ \A u \in Threads \ {th} : todo'[u] = todo[u]
    BY <1>0, <2>2, TakesPending, BehindFacts DEF Of
  <2>4. ASSUME NEW x, Pending(x)', x.op \in LaunchOps PROVE Pending(x) /\ x.arg # j
    <3>1. PICK u \in Threads : x \in ToSet(todo'[u])
      BY <2>4 DEF Pending
    <3>2. x \notin S
      BY <1>7, <2>4 DEF LaunchOps
    <3>3. CASE u = th
      BY <2>1, <2>3, <2>4, <3>1, <3>2, <3>3 DEF Pending
    <3>4. CASE u # th
      BY <2>1, <2>3, <2>4, <3>1, <3>4 DEF Pending
    <3>. QED BY <3>3, <3>4
  <2>5. ASSUME NEW x, Pending(x)', x.op \in LaunchOps PROVE x.arg \notin staged' /\ job'[x.arg] = "Absent"
    <3>1. Pending(x) /\ x.arg # j
      BY <2>4, <2>5
    <3>2. x.arg \in Jobs
      BY <1>0, <2>5, <3>1, PendingTypes, Ops DEF LaunchOps
    <3>. QED BY <1>1, <1>6, <2>5, <3>1, <3>2 DEF MindInv, StagedInv
  <2>6. ASSUME NEW i \in staged' PROVE job'[i] = "Absent"
    BY <1>0, <1>1, <1>5, <1>6, <2>6 DEF MindInv, StagedInv, TypeInv
  <2>. QED BY <2>5, <2>6 DEF StagedInv
<1>10. Stopping(j)'
  <2>1. DoFor("link", j) \in ToSet(Behind(th))
    BY <1>1 DEF MindInv, LaunchInv
  <2>2. PICK steps : Of(steps, S) /\ TakesUp(th, steps)
    BY <1>3 DEF Does
  <2>3. DoFor("link", j) \in ToSet(todo'[th])
    BY <1>0, <2>1, <2>2, TakesPending DEF Of
  <2>4. Pending(DoFor("link", j))'
    BY <2>3 DEF Pending, DoFor
  <2>5. \A i : Pending(DoFor("link", i))' => \E op \in StopOps : Pending(DoFor(op, i))'
    BY DEF StopOps
  <2>. QED BY <2>4, <2>5 DEF Stopping, DoFor
<1>11. \A i \in Jobs : jobId'[TaskOf(i)] = i \/ job'[i] # "Absent" => Afoot(i)
  BY <1>1, <1>2, <1>6 DEF Afoot
<1>12. \A i \in staged' : Afoot(i) \/ Begun(i)'
  BY <1>1 DEF Afoot
<1>13. \A i \in Jobs : job[i] \in JobEnds => job'[i] \in JobEnds
  BY <1>5, <1>6 DEF JobEnds
<1>14. \A x \in S : /\ x.op \in JobOps => Afoot(x.arg)
                    /\ x.op \in RecordOps => Reported(x)'
  BY <1>2, <1>6, <1>7 DEF Reported, JobEnds
<1>15. \A i \in Jobs : Afoot(i) => Begun(i)'
  BY <1>1, <1>13 DEF MindInv, Begun
<1>16. \A i \in Jobs : i # j => (JobLive(i)' <=> JobLive(i))
  BY <1>1, <1>6 DEF JobLive
<1>17. engineDown' => \A i \in Jobs : ~ JobLive(i)'
  <2>1. engineDown => ~ JobLive(j)'
    BY <1>2, <1>6 DEF JobLive
  <2>. QED BY <1>1, <1>16, <2>1 DEF MindInv
<1>18. \A i \in Jobs : JobLive(i)' =>
            \/ \E op \in StopOps : DoFor(op, i) \in S
            \/ Minded(i)' \/ Stopping(i)'
            \/ JobLive(i) /\ ~ Minded(i) /\ Spares(th, i)
  <2>1. \A i \in Jobs : Minded(i)' <=> Minded(i)
    BY <1>1 DEF Minded
  <2>2. \A i \in Jobs : i = j => Stopping(i)'
    BY <1>10
  <2>. QED BY <1>4, <1>16, <2>1, <2>2
<1>. QED BY <1>3, <1>8, <1>9, <1>11, <1>12, <1>13, <1>14, <1>15, <1>17, <1>18, MindStep

\* the check after the submission sends the cancel, or finds the task waiting
LEMMA LinkMinds ==
  ASSUME OneJob, Onward, MindInv, NEW th \in Threads, Link(th)
  PROVE  MindInv'
<1>a. Arg(th) \in Jobs
  BY HeadIsAfoot, Ops DEF Link
<1>. SUFFICES ASSUME NEW j \in Jobs, Arg(th) = j PROVE MindInv'
  BY <1>a
<1>. DEFINE t == TaskOf(j)
            S == IF status[t] = "Cancelling" THEN {DoFor("stop", j), Do("signals"), DoFor("fire", t)}
                 ELSE IF status[t] = "Canceled" THEN {DoFor("stop", j)} ELSE {DoFor("snapshot", j)}
<1>0. TypeInv /\ \A i \in Jobs : TaskOf(i) \in Tasks /\ (TaskOf(i) = TaskOf(j) => i = j \/ j \notin Jobs)
  BY FiniteTasks, JobsAreTasks DEF Onward, LifeInv
<1>1. /\ At(th, "link") /\ UNCHANGED engineVars /\ UNCHANGED staged
      /\ IF Overtaken(t) THEN status' = [status EXCEPT ![t] = "Canceled"] /\ jobId' = jobId
                         ELSE status' = status /\ jobId' = [jobId EXCEPT ![t] = j]
  BY DEF Link
<1>2. j \in Jobs /\ t \in Tasks /\ Afoot(j) /\ ~ Idle(th) /\ Head(todo[th]).op = "link" /\ Head(todo[th]).arg = j
  BY <1>1, HeadIsAfoot, Ops DEF Arg
<1>3. Does(th, S)
  BY <1>1, LaunchesDo DEF Onward, Link
<1>4. \A x \in S : x.op \in {"stop", "signals", "fire", "snapshot"} /\ (x.op \in {"stop", "snapshot"} => x.arg = j)
  BY OpOf
<1>5. Overtaken(t) => DoFor("stop", j) \in S
  BY DEF Overtaken
<1>. HIDE DEF S
<1>6. Lightly(S) /\ \A x \in S : x.op \notin ShutdownOps
  BY <1>2, <1>4 DEF Lightly, LaunchOps, RecordOps, JobOps, ShutdownOps
<1>7. OrderInv'
  BY <1>0, <1>3, <1>6, TakesInOrder DEF MindInv
<1>8. Leaves(th, "closeEngine") /\ \A i : i # j => Spares(th, i)
  <2>1. \A op, i : Head(todo[th]) = DoFor(op, i) => i = j
    BY <1>2, OpOf
  <2>. QED BY <1>2, <2>1 DEF Leaves, Spares
<1>9. \A i \in Jobs : i # j => status'[TaskOf(i)] = status[TaskOf(i)] /\ jobId'[TaskOf(i)] = jobId[TaskOf(i)]
  BY <1>0, <1>1, <1>2 DEF TypeInv
<1>10. /\ status'[t] = IF Overtaken(t) THEN "Canceled" ELSE status[t]
       /\ jobId'[t] = IF Overtaken(t) THEN jobId[t] ELSE j
  BY <1>0, <1>1, <1>2 DEF TypeInv
<1>11. \A i \in Jobs : jobId'[TaskOf(i)] = i => Afoot(i)
  BY <1>2, <1>9 DEF Afoot
<1>12. \A i \in Jobs : Afoot(i) => Begun(i)'
  <2>1. ASSUME NEW i \in Jobs, Afoot(i), i # j PROVE Begun(i)'
    BY <1>1, <1>9, <2>1 DEF MindInv, Begun
  <2>2. Begun(j)'
    BY <1>1, <1>2, <1>10 DEF MindInv, Begun
  <2>. QED BY <2>1, <2>2
<1>13. ASSUME NEW i \in Jobs, JobLive(i)
       PROVE  \/ \E op \in StopOps : DoFor(op, i) \in S
              \/ Minded(i)'
              \/ ~ Minded(i) /\ Spares(th, i)
  <2>1. CASE i # j
    BY <1>8, <1>9, <2>1 DEF Minded
  <2>2. CASE i = j /\ Overtaken(t)
    BY <1>5, <2>2 DEF StopOps
  <2>3. CASE i = j /\ ~ Overtaken(t)
    <3>1. job[j] \notin JobEnds
      BY <1>13, <2>3 DEF JobLive, JobEnds
    <3>2. status[t] \in {"Dispatching", "Running"}
      BY <1>2, <2>3, <3>1 DEF MindInv, Begun, Overtaken
    <3>. QED BY <1>10, <2>3, <3>2 DEF Minded
  <2>. QED BY <2>1, <2>2, <2>3
<1>14. \A i \in staged' : i \in staged
  BY <1>1
<1>. QED BY <1>1, <1>3, <1>6, <1>7, <1>8, <1>11, <1>12, <1>13, <1>14, SectionMinds

LEMMA RecordsMind ==
  ASSUME OneJob, Onward, MindInv, NEW th \in Threads
  PROVE  /\ Snapshot(th) \/ Forget(th) => MindInv'
         /\ OnJobRecord(th) => MindInv'
         /\ ProcessJobRecord(th) => MindInv'
<1>. DEFINE j == Arg(th)
            t == TaskOf(j)
<1>0. TypeInv /\ \A i \in Jobs : TaskOf(i) \in Tasks
  BY FiniteTasks DEF Onward, LifeInv
<1>1. ASSUME NEW op \in {"snapshot", "forget", "record", "process"}, At(th, op)
      PROVE  /\ Elsewhere(th) /\ Leaves(th, "closeEngine") /\ \A i : Spares(th, i)
             /\ j \in Jobs /\ t \in Tasks /\ Afoot(j) /\ ~ Idle(th)
             /\ op \in RecordOps /\ State(th) \in JobEnds => job[j] \in JobEnds
  <2>1. op \in JobOps
    BY Ops
  <2>2. /\ j \in Jobs /\ t \in Tasks /\ Afoot(j) /\ ~ Idle(th) /\ Head(todo[th]).op = op
        /\ op \in RecordOps /\ State(th) \in JobEnds => job[j] \in JobEnds
    BY <1>1, <2>1, HeadIsAfoot
  <2>3. Elsewhere(th)
    BY <2>2 DEF Elsewhere, StopOps
  <2>. QED BY <2>2, <2>3, ElsewhereSpares
<1>2. ASSUME NEW S, \A x \in S : /\ x.op \in {"record", "process", "mark", "forget"} /\ x.arg = j
                                 /\ x.op \in RecordOps => Reported(x),
             Afoot(j)
      PROVE  Lightly(S) /\ \A x \in S : x.op \notin ShutdownOps
  BY <1>2 DEF Lightly, LaunchOps, ShutdownOps
<1>3. ASSUME Snapshot(th) PROVE MindInv'
  <2>. DEFINE S == {Record("record", j, job[j])}
  <2>1. /\ Does(th, S) /\ At(th, "snapshot")
        /\ UNCHANGED <<status, jobId, job, stop, engineDown, staged>>
    BY <1>3, LaunchesDo DEF Onward, Snapshot
  <2>2. \A x \in S : x.op = "record" /\ x.arg = j /\ Reported(x)
    BY OpOf DEF Reported
  <2>. HIDE DEF S, j
  <2>3. Elsewhere(th) /\ Lightly(S) /\ \A x \in S : x.op \notin ShutdownOps
    BY <1>1, <1>2, <2>1, <2>2
  <2>. QED BY <2>1, <2>3, QuietMinds
<1>4. ASSUME Forget(th) PROVE MindInv'
  <2>1. /\ Does(th, {}) /\ At(th, "forget")
        /\ UNCHANGED <<status, jobId, job, stop, engineDown, staged>>
    BY <1>4, LaunchesDo DEF Onward, Forget
  <2>. QED BY <1>1, <2>1, Lighter, QuietMinds
<1>5. ASSUME OnJobRecord(th) PROVE MindInv'
  <2>. DEFINE S == IF j \in mapped \/ Recovers(j) THEN {Record("process", j, State(th))} ELSE {}
  <2>1. /\ Does(th, S) /\ At(th, "record") /\ UNCHANGED engineVars /\ UNCHANGED <<status, staged>>
        /\ jobId' = [jobId EXCEPT ![t] = j] \/ jobId' = jobId
    BY <1>5, LaunchesDo DEF Onward, OnJobRecord
  <2>2. /\ Leaves(th, "closeEngine") /\ \A i : Spares(th, i)
        /\ j \in Jobs /\ t \in Tasks /\ Afoot(j)
        /\ State(th) \in JobEnds => job[j] \in JobEnds
    BY <1>1, <2>1 DEF RecordOps
  <2>3. \A x \in S : x.op = "process" /\ x.arg = j /\ Reported(x)
    BY <2>2, OpOf DEF Reported
  <2>. HIDE DEF S, j
  <2>4. Lightly(S) /\ \A x \in S : x.op \notin ShutdownOps
    BY <1>2, <2>2, <2>3
  <2>5. OrderInv'
    BY <1>0, <2>1, <2>4, TakesInOrder DEF MindInv
  <2>6. \A i \in Jobs : jobId'[TaskOf(i)] = i => Afoot(i)
    <3>1. \A i \in Jobs : jobId'[TaskOf(i)] = i => i = j \/ jobId[TaskOf(i)] = i
      BY <1>0, <2>1, <2>2 DEF TypeInv
    <3>. QED BY <2>2, <3>1 DEF Afoot
  <2>7. \A i \in Jobs : Minded(i) => Minded(i)'
    BY <2>1, <2>2, TracksMinded DEF Onward
  <2>8. \A i \in Jobs : Afoot(i) => Begun(i)'
    BY <2>1 DEF MindInv, Begun
  <2>9. \A i \in staged' : i \in staged
    BY <2>1
  <2>10. \A i \in Jobs : JobLive(i) =>
            \/ \E op \in StopOps : DoFor(op, i) \in S
            \/ Minded(i)'
            \/ ~ Minded(i) /\ Spares(th, i)
    BY <2>2, <2>7
  <2>. QED BY <2>1, <2>2, <2>4, <2>5, <2>6, <2>8, <2>9, <2>10, SectionMinds
<1>6. ASSUME ProcessJobRecord(th) PROVE MindInv'
  <2>. DEFINE S == IF State(th) \in JobEnds /\ Live(status, t)
                   THEN {Record("mark", j, State(th)), DoFor("forget", j)} ELSE {}
  <2>1. /\ Does(th, S) /\ At(th, "process") /\ UNCHANGED engineVars /\ UNCHANGED <<jobId, staged>>
        /\ (Started(t) /\ status' = [status EXCEPT ![t] = "Running"]) \/ status' = status
    BY <1>6, LaunchesDo DEF Onward, ProcessJobRecord
  <2>2. /\ Leaves(th, "closeEngine") /\ \A i : Spares(th, i)
        /\ j \in Jobs /\ t \in Tasks /\ Afoot(j)
        /\ State(th) \in JobEnds => job[j] \in JobEnds
    BY <1>1, <2>1 DEF RecordOps
  <2>3. \A x \in S : /\ x.op \in {"mark", "forget"} /\ x.arg = j
                     /\ x.op \in RecordOps => Reported(x)
    <3>1. CASE State(th) \in JobEnds /\ Live(status, t)
      <4>1. Reported(Record("mark", j, State(th)))
        BY <2>2, <3>1, OpOf DEF Reported
      <4>2. "forget" \notin RecordOps
        BY DEF RecordOps
      <4>. QED BY <3>1, <4>1, <4>2, OpOf
    <3>. QED BY <3>1
  <2>. HIDE DEF S, j
  <2>4. Lightly(S) /\ \A x \in S : x.op \notin ShutdownOps
    BY <1>2, <2>2, <2>3
  <2>5. OrderInv'
    BY <1>0, <2>1, <2>4, TakesInOrder DEF MindInv
  <2>6. Started(t) => status[t] = "Dispatching"
    BY <2>2 DEF Started, MindInv, Begun, ReadyLike
  <2>7. \A u \in Tasks : \/ status'[u] = status[u]
                         \/ status[u] = "Dispatching" /\ status'[u] = "Running"
    BY <1>0, <2>1, <2>2, <2>6 DEF TypeInv
  <2>8. \A i \in Jobs : /\ jobId'[TaskOf(i)] = i => Afoot(i)
                        /\ Begun(i) => Begun(i)'
                        /\ Minded(i) => Minded(i)'
    BY <1>0, <2>1, <2>7 DEF Afoot, Begun, Minded
  <2>9. \A i \in Jobs : Afoot(i) => Begun(i)'
    BY <2>8 DEF MindInv
  <2>10. \A i \in staged' : i \in staged
    BY <2>1
  <2>11. \A i \in Jobs : JobLive(i) =>
            \/ \E op \in StopOps : DoFor(op, i) \in S
            \/ Minded(i)'
            \/ ~ Minded(i) /\ Spares(th, i)
    BY <2>2, <2>8
  <2>. QED BY <2>1, <2>2, <2>4, <2>5, <2>8, <2>9, <2>10, <2>11, SectionMinds
<1>. QED BY <1>3, <1>4, <1>5, <1>6

LEMMA CancelJobMinds ==
  ASSUME Onward, MindInv, NEW th \in Threads, CancelJob(th)
  PROVE  MindInv'
<1>0. TypeInv /\ (At(th, "cancel") \/ At(th, "stop"))
  BY DEF Onward, LifeInv, CancelJob
<1>a. Arg(th) \in Jobs
  BY <1>0, HeadIsAfoot, Ops
<1>. SUFFICES ASSUME NEW j \in Jobs, Arg(th) = j PROVE MindInv'
  BY <1>a
<1>. DEFINE S == IF job[j] = "Queued" THEN {Record("record", j, "Cancelled")}
                 ELSE IF job[j] # "Running" /\ At(th, "cancel") THEN {DoFor("strand", TaskOf(j))} ELSE {}
<1>1. /\ UNCHANGED <<status, jobId, engineDown, staged>>
      /\ job' = [job EXCEPT ![j] = IF @ = "Queued" THEN "Cancelled" ELSE @]
      /\ stop' = IF job[j] = "Running" THEN stop \cup {j} ELSE stop
  BY DEF CancelJob
<1>2. Afoot(j) /\ ~ Idle(th) /\ Head(todo[th]).op \in {"cancel", "stop"} /\ Head(todo[th]).arg = j
  BY <1>0, HeadIsAfoot, Ops DEF Arg
<1>3. Does(th, S)
  BY CancelsDo DEF Onward
<1>4. \A i \in Jobs : job'[i] = IF i = j /\ job[j] = "Queued" THEN "Cancelled" ELSE job[i]
  BY <1>0, <1>1 DEF TypeInv
<1>5. Leaves(th, "closeEngine") /\ \A i : i # j => Spares(th, i)
  <2>1. \A op, i : Head(todo[th]) = DoFor(op, i) => i = j
    BY <1>2, OpOf
  <2>. QED BY <1>2, <2>1 DEF Leaves, Spares
<1>6. \A x \in S : x.op \in {"record", "strand"} /\ (x.op = "record" => x.arg = j /\ job[j] = "Queued")
  BY OpOf
<1>. HIDE DEF S
<1>7. LaunchInv' /\ OrderInv' /\ CloseInv'
  <2>1. \A x \in S : x.op \notin LaunchOps /\ x.op # "finalize" /\ x.op \notin ShutdownOps
    BY <1>6 DEF LaunchOps, ShutdownOps
  <2>2. LaunchInv /\ OrderInv /\ CloseInv /\ (engineDown => engineDown')
    BY <1>1 DEF MindInv
  <2>. QED BY <1>0, <1>3, <1>5, <2>1, <2>2, LaunchesNothing, TakesInOrder, ClosesLater
<1>8. StagedInv'
  <2>1. \A x : Pending(x)' => x \in S \/ Pending(x)
    BY <1>0, <1>3, DoesPending
  <2>2. \A i \in Jobs : job[i] = "Absent" => job'[i] = "Absent"
    BY <1>4
  <2>3. ASSUME NEW x, Pending(x)', x.op \in LaunchOps PROVE x.arg \notin staged' /\ job'[x.arg] = "Absent"
    <3>1. Pending(x) /\ x.arg \in Jobs
      BY <1>0, <1>6, <2>1, <2>3, PendingTypes, Ops DEF LaunchOps
    <3>. QED BY <1>1, <2>2, <2>3, <3>1 DEF MindInv, StagedInv
  <2>4. ASSUME NEW i \in staged' PROVE job'[i] = "Absent"
    BY <1>0, <1>1, <2>2, <2>4 DEF MindInv, StagedInv, TypeInv
  <2>. QED BY <2>3, <2>4 DEF StagedInv
<1>9. \A i \in Jobs : jobId'[TaskOf(i)] = i \/ job'[i] # "Absent" => Afoot(i)
  BY <1>1, <1>2, <1>4 DEF Afoot
<1>10. \A i \in staged' : Afoot(i) \/ Begun(i)'
  BY <1>1 DEF Afoot
<1>11. \A i \in Jobs : job[i] \in JobEnds => job'[i] \in JobEnds
  BY <1>4 DEF JobEnds
<1>12. \A x \in S : /\ x.op \in JobOps => Afoot(x.arg)
                    /\ x.op \in RecordOps => Reported(x)'
  <2>1. job[j] = "Queued" => job'[j] \in JobEnds
    BY <1>4 DEF JobEnds
  <2>2. "strand" \notin JobOps \cup RecordOps
    BY DEF JobOps, RecordOps
  <2>. QED BY <1>2, <1>6, <2>1, <2>2 DEF Reported
<1>13. \A i \in Jobs : Afoot(i) => Begun(i)'
  BY <1>1, <1>11 DEF MindInv, Begun
<1>14. ~ JobLive(j)' /\ \A i \in Jobs : i # j => (JobLive(i)' <=> JobLive(i))
  BY <1>1, <1>4 DEF JobLive
<1>15. engineDown' => \A i \in Jobs : ~ JobLive(i)'
  BY <1>1, <1>14 DEF MindInv
<1>16. \A i \in Jobs : JobLive(i)' =>
            \/ \E op \in StopOps : DoFor(op, i) \in S
            \/ Minded(i)' \/ Stopping(i)'
            \/ JobLive(i) /\ ~ Minded(i) /\ Spares(th, i)
  <2>1. \A i \in Jobs : Minded(i)' <=> Minded(i)
    BY <1>1 DEF Minded
  <2>2. ASSUME NEW i \in Jobs, JobLive(i)' PROVE i # j
    BY <1>14, <2>2
  <2>. QED BY <1>5, <1>14, <2>1, <2>2
<1>. QED BY <1>3, <1>7, <1>8, <1>9, <1>10, <1>11, <1>12, <1>13, <1>15, <1>16, MindStep

\* a section that ends tasks, but none that has begun with a live job
LEMMA EndsMind ==
  ASSUME Onward, MindInv, NEW th \in Threads, NEW S, Does(th, S), Elsewhere(th),
         \A x \in S : x.op \in {"cancel", "flush", "signals", "fire"},
         \A x \in S : x.op = "cancel" => Afoot(x.arg),
         UNCHANGED engineVars, staged' = staged, Keeps(status', S),
         \A j \in Jobs : jobId'[TaskOf(j)] = j \/ Minded(j) => jobId[TaskOf(j)] = j /\ jobId'[TaskOf(j)] = j
  PROVE  MindInv'
<1>1. Lightly(S) /\ \A x \in S : x.op \notin ShutdownOps
  BY CancelsAreLight
<1>2. OrderInv'
  BY <1>1, TakesInOrder DEF Onward, LifeInv, MindInv
<1>3. Leaves(th, "closeEngine") /\ \A i : Spares(th, i)
  BY ElsewhereSpares
<1>4. \A j \in Jobs : Afoot(j) => Begun(j)'
  BY DEF Keeps, Begun
<1>5. \A j \in Jobs : JobLive(j) =>
            \/ \E op \in StopOps : DoFor(op, j) \in S
            \/ Minded(j)'
            \/ ~ Minded(j) /\ Spares(th, j)
  <2>1. \A j \in Jobs : JobLive(j) /\ Minded(j) =>
          DoFor("cancel", j) \in S \/ (status'[TaskOf(j)] \in {"Dispatching", "Running"} /\ jobId'[TaskOf(j)] = j)
    BY DEF Keeps
  <2>. QED BY <1>3, <2>1 DEF Minded, StopOps
<1>6. \A j \in Jobs : jobId'[TaskOf(j)] = j => Afoot(j)
  BY DEF Afoot
<1>7. \A j \in staged' : j \in staged
  OBVIOUS
<1>. QED BY <1>1, <1>2, <1>3, <1>4, <1>5, <1>6, <1>7, SectionMinds

LEMMA StrandMinds ==
  ASSUME Onward, MindInv, NEW th \in Threads, Strand(th)
  PROVE  MindInv'
<1>. DEFINE t == Arg(th)
            S == IF status[t] = "Cancelling" THEN {Do("signals"), DoFor("fire", t)} ELSE {}
<1>0. TypeInv /\ \A i \in Jobs : TaskOf(i) \in Tasks /\ i # NoJob
  BY FiniteTasks, ThreadsAssumption DEF Onward, LifeInv
<1>1. /\ At(th, "strand") /\ UNCHANGED engineVars /\ staged' = staged
      /\ \/ /\ status[t] = "Cancelling" /\ status' = [status EXCEPT ![t] = "Canceled"]
            /\ jobId' = [jobId EXCEPT ![t] = NoJob]
         \/ status' = status /\ jobId' = jobId
  BY DEF Strand
<1>2. Elsewhere(th)
  BY <1>1, AtIsBusy DEF Elsewhere, StopOps
<1>3. Does(th, S)
  BY CancelsDo DEF Onward
<1>4. \A x \in S : x.op \in {"signals", "fire"}
  BY OpOf
<1>. HIDE DEF S, t
<1>5. \A u \in Tasks : \/ status'[u] = status[u] /\ jobId'[u] = jobId[u]
                       \/ status[u] = "Cancelling" /\ status'[u] = "Canceled" /\ jobId'[u] = NoJob
  BY <1>0, <1>1 DEF TypeInv
<1>6. Keeps(status, S)
  BY StatusKeeps
<1>7. Keeps(status', S)
  <2>1. ASSUME NEW j \in Jobs PROVE \/ status'[TaskOf(j)] = status[TaskOf(j)]
                                    \/ status[TaskOf(j)] = "Cancelling" /\ status'[TaskOf(j)] = "Canceled"
    BY <1>0, <1>5
  <2>2. ASSUME NEW j \in Jobs, Afoot(j)
        PROVE  \/ status'[TaskOf(j)] \in {"Dispatching", "Running", "Cancelling", "Canceled"}
               \/ status'[TaskOf(j)] \in {"Completed", "Failed"} /\ job[j] \in JobEnds
    BY <1>6, <2>1, <2>2 DEF Keeps
  <2>3. ASSUME NEW j \in Jobs, JobLive(j), Minded(j)
        PROVE  status'[TaskOf(j)] \in {"Dispatching", "Running"} \/ DoFor("cancel", j) \in S
    BY <2>1, <2>3 DEF Minded
  <2>. QED BY <2>2, <2>3 DEF Keeps
<1>8. \A j \in Jobs : jobId'[TaskOf(j)] = j \/ Minded(j) => jobId[TaskOf(j)] = j /\ jobId'[TaskOf(j)] = j
  BY <1>0, <1>5 DEF Minded
<1>. QED BY <1>1, <1>2, <1>3, <1>4, <1>7, <1>8, EndsMind

LEMMA FlushOwnedCancelsMinds ==
  ASSUME Onward, MindInv, NEW th \in Threads, FlushOwnedCancels(th)
  PROVE  MindInv'
<1>. DEFINE targets == orphans \cup UNION {Descendants(status, c) : c \in orphans}
            S == Each("cancel", JobsToCancel(status, targets))
                   \cup Each("fire", CanceledAtOnce(status, targets)) \cup {Do("signals")}
<1>1. Elsewhere(th) /\ UNCHANGED engineVars /\ staged' = staged /\ jobId' = jobId
  BY AtIsBusy DEF FlushOwnedCancels, Elsewhere, StopOps
<1>2. CASE orphans = {}
  <2>1. Does(th, {}) /\ UNCHANGED <<status, jobId, job, stop, engineDown, staged>>
    BY <1>2, CancelsDo DEF Onward, FlushOwnedCancels
  <2>. QED BY <1>1, <2>1, Lighter, QuietMinds
<1>3. CASE orphans # {}
  <2>1. Does(th, S) /\ status' = Cascade(status, targets)
    BY <1>3, CancelsDo DEF Onward, FlushOwnedCancels
  <2>. HIDE DEF targets
  <2>2. \A x \in S : x.op \in {"cancel", "flush", "signals", "fire"}
    BY OpOf
  <2>3. \A x \in S : x.op = "cancel" => x.arg \in JobsToCancel(status, targets)
    BY OpOf
  <2>4. \A j \in JobsToCancel(status, targets) : DoFor("cancel", j) \in S
    BY EachHas
  <2>. HIDE DEF S
  <2>5. Keeps(Cascade(status, targets), S)
    BY <2>4, StatusKeeps, CascadeKeeps DEF Onward
  <2>6. \A x \in S : x.op = "cancel" => Afoot(x.arg)
    BY <2>3, CancelsAreAfoot DEF Onward
  <2>7. Keeps(status', S)
    BY <2>1, <2>5
  <2>8. \A j \in Jobs : jobId'[TaskOf(j)] = j \/ Minded(j) => jobId[TaskOf(j)] = j /\ jobId'[TaskOf(j)] = j
    BY <1>1 DEF Minded
  <2>. QED BY <1>1, <2>1, <2>2, <2>6, <2>7, <2>8, EndsMind
<1>. QED BY <1>2, <1>3

LEMMA EnforcesMind ==
  ASSUME Onward, MindInv, EnforceCancelDeadlines
  PROVE  MindInv'
<1>1. PICK late \in (SUBSET {t \in Tasks : status[t] = "Cancelling"}) \ {{}} :
           /\ ~ down
           /\ status' = [t \in Tasks |-> IF t \in late THEN "Canceled" ELSE status[t]]
           /\ mapped' = mapped \ Detached(late)
           /\ Join
           /\ Idle(Watchdog) /\ Does(Watchdog, {Do("signals")} \cup Each("fire", late))
           /\ UNCHANGED <<auto, jobId, attempts, graphVars, admissionVars, callback, down, engineVars>>
  BY EnforcesDo DEF Onward
<1>. DEFINE S == {Do("signals")} \cup Each("fire", late)
<1>2. /\ Watchdog \in Threads /\ Elsewhere(Watchdog) /\ Does(Watchdog, S)
      /\ UNCHANGED engineVars /\ staged' = staged /\ jobId' = jobId
  BY <1>1 DEF Threads, Elsewhere
<1>3. \A x \in S : x.op \in {"signals", "fire"}
  BY OpOf
<1>. HIDE DEF S
<1>4. Keeps(status, S) /\ \A i \in Jobs : TaskOf(i) \in Tasks
  BY StatusKeeps, FiniteTasks
<1>5. Keeps(status', S)
  <2>1. ASSUME NEW j \in Jobs PROVE \/ status'[TaskOf(j)] = status[TaskOf(j)]
                                    \/ status[TaskOf(j)] = "Cancelling" /\ status'[TaskOf(j)] = "Canceled"
    BY <1>1, <1>4
  <2>2. ASSUME NEW j \in Jobs, Afoot(j)
        PROVE  \/ status'[TaskOf(j)] \in {"Dispatching", "Running", "Cancelling", "Canceled"}
               \/ status'[TaskOf(j)] \in {"Completed", "Failed"} /\ job[j] \in JobEnds
    BY <1>4, <2>1, <2>2 DEF Keeps
  <2>3. ASSUME NEW j \in Jobs, JobLive(j), Minded(j)
        PROVE  status'[TaskOf(j)] \in {"Dispatching", "Running"} \/ DoFor("cancel", j) \in S
    BY <2>1, <2>3 DEF Minded
  <2>. QED BY <2>2, <2>3 DEF Keeps
<1>6. \A j \in Jobs : jobId'[TaskOf(j)] = j \/ Minded(j) => jobId[TaskOf(j)] = j /\ jobId'[TaskOf(j)] = j
  BY <1>2 DEF Minded
<1>. QED BY <1>2, <1>3, <1>5, <1>6, EndsMind

LEMMA QuietsMind ==
  ASSUME Onward, MindInv, NEW th \in Threads
  PROVE  /\ FireTaskCompletionCallbacks(th) \/ (\E t : AddTaskCompletionCallback(th, t)) => MindInv'
         /\ JoinWatchdog(th) \/ JoinWorkers(th) \/ ClearCallbacks(th) => MindInv'
         /\ CancelAllForShutdown(th) => MindInv'
<1>1. ASSUME NEW S, Does(th, S), \A x \in S : x.op \notin JobOps \cup ShutdownOps,
             UNCHANGED <<status, jobId, job, stop, engineDown>>, staged' \subseteq staged,
             Idle(th) \/ \E op \in {"fire", "joinWatchdog", "joinWorkers", "clear", "cancelAll"} : At(th, op)
      PROVE  MindInv'
  <2>1. Elsewhere(th)
    BY <1>1, AtIsBusy DEF Elsewhere, StopOps
  <2>. QED BY <1>1, <2>1, Lighter, QuietMinds
<1>0. \A x \in {} : x.op \notin JobOps \cup ShutdownOps
  OBVIOUS
<1>2. ASSUME FireTaskCompletionCallbacks(th) PROVE MindInv'
  <2>1. Does(th, {})
    BY <1>2, ShutdownsDo DEF Onward
  <2>. QED BY <1>0, <1>1, <1>2, <2>1 DEF FireTaskCompletionCallbacks
<1>3. ASSUME NEW t, AddTaskCompletionCallback(th, t) PROVE MindInv'
  <2>1. Does(th, {})
    BY <1>3, ShutdownsDo DEF Onward
  <2>. QED BY <1>0, <1>1, <1>3, <2>1 DEF AddTaskCompletionCallback
<1>4. ASSUME JoinWatchdog(th) PROVE MindInv'
  <2>1. Does(th, {})
    BY <1>4, ShutdownsDo DEF Onward
  <2>. QED BY <1>0, <1>1, <1>4, <2>1 DEF JoinWatchdog
<1>5. ASSUME JoinWorkers(th) PROVE MindInv'
  <2>1. Does(th, {})
    BY <1>5, ShutdownsDo DEF Onward
  <2>. QED BY <1>0, <1>1, <1>5, <2>1 DEF JoinWorkers
<1>6. ASSUME ClearCallbacks(th) PROVE MindInv'
  <2>1. Does(th, {})
    BY <1>6, ShutdownsDo DEF Onward
  <2>. QED BY <1>0, <1>1, <1>6, <2>1 DEF ClearCallbacks
<1>7. ASSUME CancelAllForShutdown(th) PROVE MindInv'
  <2>. DEFINE S == Each("cancelTask", {t \in Tasks : Live(status, t)})
  <2>1. Does(th, S)
    BY <1>7, ShutdownsDo DEF Onward
  <2>2. \A x \in S : x.op \notin JobOps \cup ShutdownOps
    BY OpOf DEF JobOps, ShutdownOps
  <2>. HIDE DEF S
  <2>. QED BY <1>1, <1>7, <2>1, <2>2 DEF CancelAllForShutdown
<1>. QED BY <1>2, <1>3, <1>4, <1>5, <1>6, <1>7

\* steps that change jobs only, and put none into the engine
LEMMA JobsMind ==
  ASSUME Onward, MindInv, NEW th \in Threads, NEW S, Does(th, S), OrderInv', CloseInv',
         \A x \in S : /\ x.op \notin LaunchOps
                      /\ x.op \in JobOps => Afoot(x.arg)
                      /\ x.op \in RecordOps => Reported(x)',
         UNCHANGED <<status, jobId, staged>>,
         \A j \in Jobs : /\ job'[j] = "Absent" <=> job[j] = "Absent"
                         /\ job[j] \in JobEnds => job'[j] \in JobEnds,
         (\A j \in Jobs : ~ JobLive(j)') \/ (Idle(th) /\ engineDown' = engineDown
                                                      /\ \A j \in Jobs : JobLive(j)' => JobLive(j))
  PROVE  MindInv'
<1>0. TypeInv
  BY DEF Onward, LifeInv
<1>1. LaunchInv'
  BY <1>0, LaunchesNothing DEF MindInv
<1>2. StagedInv'
  <2>1. \A x : Pending(x)' => x \in S \/ Pending(x)
    BY <1>0, DoesPending
  <2>2. ASSUME NEW x, Pending(x)', x.op \in LaunchOps PROVE x.arg \notin staged' /\ job'[x.arg] = "Absent"
    <3>1. Pending(x) /\ x.arg \in Jobs
      BY <1>0, <2>1, <2>2, PendingTypes, Ops DEF LaunchOps
    <3>. QED BY <2>2, <3>1 DEF MindInv, StagedInv
  <2>3. ASSUME NEW j \in staged' PROVE job'[j] = "Absent"
    BY <1>0, <2>3 DEF MindInv, StagedInv, TypeInv
  <2>. QED BY <2>2, <2>3 DEF StagedInv
<1>3. \A j \in Jobs : jobId'[TaskOf(j)] = j \/ job'[j] # "Absent" => Afoot(j)
  BY DEF Afoot
<1>4. \A j \in staged' : Afoot(j) \/ Begun(j)'
  BY DEF Afoot
<1>5. \A j \in Jobs : Afoot(j) => Begun(j)'
  BY DEF MindInv, Begun
<1>6. \A j \in Jobs : JobLive(j)' =>
            \/ \E op \in StopOps : DoFor(op, j) \in S
            \/ Minded(j)' \/ Stopping(j)'
            \/ JobLive(j) /\ ~ Minded(j) /\ Spares(th, j)
  <2>1. \A j \in Jobs : Minded(j)' <=> Minded(j)
    BY DEF Minded
  <2>. QED BY <2>1 DEF Spares
<1>7. engineDown' => \A j \in Jobs : ~ JobLive(j)'
  BY DEF MindInv
<1>8. \A x \in S : /\ x.op \in JobOps => Afoot(x.arg)
                   /\ x.op \in RecordOps => Reported(x)'
  OBVIOUS
<1>9. \A j \in Jobs : job[j] \in JobEnds => job'[j] \in JobEnds
  OBVIOUS
<1>. QED BY <1>1, <1>2, <1>3, <1>4, <1>5, <1>6, <1>7, <1>8, <1>9, MindStep

LEMMA EnginesMind ==
  ASSUME Onward, MindInv, NEW j \in Jobs
  PROVE  JobStarts(j) \/ (\E end \in JobEnds : JobEndsAs(j, end)) => MindInv'
<1>1. ASSUME NEW new \in JobEnds \cup {"Running"}, job' = [job EXCEPT ![j] = new],
             job[j] \in {"Queued", "Running"}, Idle(j), Does(j, {Record("record", j, new)}),
             UNCHANGED <<status, jobId, stop, engineDown, staged>>
      PROVE  MindInv'
  <2>. DEFINE S == {Record("record", j, new)}
  <2>0. TypeInv /\ j \in Threads /\ Does(j, S)
    BY <1>1 DEF Onward, LifeInv, Threads
  <2>1. \A i \in Jobs : job'[i] = IF i = j THEN new ELSE job[i]
    BY <1>1, <2>0 DEF TypeInv
  <2>2. \A x \in S : x.op = "record" /\ x.arg = j /\ x.state = new
    BY OpOf
  <2>. HIDE DEF S
  <2>3. \A x \in S : x.op \notin LaunchOps /\ x.op # "finalize" /\ x.op \notin ShutdownOps
    BY <2>2 DEF LaunchOps, ShutdownOps
  <2>4. Leaves(j, "closeEngine") /\ OrderInv /\ CloseInv /\ (engineDown => engineDown')
    BY <1>1 DEF Leaves, MindInv
  <2>5. OrderInv' /\ CloseInv'
    BY <2>0, <2>3, <2>4, TakesInOrder, ClosesLater
  <2>6. Afoot(j)
    BY <1>1 DEF Afoot
  <2>7. \A x \in S : /\ x.op \notin LaunchOps
                     /\ x.op \in JobOps => Afoot(x.arg)
                     /\ x.op \in RecordOps => Reported(x)'
    BY <2>1, <2>2, <2>3, <2>6 DEF Reported
  <2>8. \A i \in Jobs : /\ job'[i] = "Absent" <=> job[i] = "Absent"
                        /\ job[i] \in JobEnds => job'[i] \in JobEnds
    BY <1>1, <2>1 DEF JobEnds
  <2>9. \A i \in Jobs : JobLive(i)' => JobLive(i)
    BY <1>1, <2>1 DEF JobLive
  <2>. QED BY <1>1, <2>0, <2>5, <2>7, <2>8, <2>9, JobsMind
<1>2. ASSUME JobStarts(j) PROVE MindInv'
  BY <1>1, <1>2, EnginesDo DEF Onward, JobStarts, Call
<1>3. ASSUME NEW end \in JobEnds, JobEndsAs(j, end) PROVE MindInv'
  BY <1>1, <1>3, EnginesDo DEF Onward, JobEndsAs, Call
<1>. QED BY <1>2, <1>3

LEMMA CloseEngineMinds ==
  ASSUME Onward, MindInv, NEW th \in Threads, CloseEngine(th)
  PROVE  MindInv'
<1>. DEFINE queued == {i \in Jobs : job[i] = "Queued"}
            S == {Record("record", j, "Cancelled") : j \in queued}
<1>0. TypeInv
  BY DEF Onward, LifeInv
<1>1. /\ Does(th, S) /\ UNCHANGED <<status, jobId, staged>> /\ engineDown'
      /\ stop' = stop \cup {j \in Jobs : job[j] = "Running"}
      /\ job' = [j \in Jobs |-> IF j \in queued THEN "Cancelled" ELSE job[j]]
  BY ShutdownsDo DEF Onward, CloseEngine
<1>2. \A x \in S : x.op = "record" /\ x.state = "Cancelled" /\ x.arg \in queued
  BY OpOf
<1>3. \A j \in Jobs : job'[j] = IF job[j] = "Queued" THEN "Cancelled" ELSE job[j]
  BY <1>1
<1>4. \A j \in Jobs : ~ JobLive(j)'
  BY <1>1, <1>3 DEF JobLive
<1>. HIDE DEF S
<1>5. OrderInv' /\ CloseInv'
  <2>1. \A x \in S : x.op # "finalize" /\ x.op \notin ShutdownOps
    BY <1>2 DEF ShutdownOps
  <2>2. OrderInv /\ CloseInv
    BY DEF MindInv
  <2>. QED BY <1>0, <1>1, <2>1, <2>2, TakesInOrder, ClosesLater
<1>6. \A x \in S : /\ x.op \notin LaunchOps
                   /\ x.op \in JobOps => Afoot(x.arg)
                   /\ x.op \in RecordOps => Reported(x)'
  <2>1. ASSUME NEW x \in S PROVE Afoot(x.arg) /\ job'[x.arg] = "Cancelled" /\ x.op = "record"
    BY <1>2, <1>3 DEF Afoot
  <2>. QED BY <2>1 DEF Reported, LaunchOps, JobEnds
<1>7. \A j \in Jobs : /\ job'[j] = "Absent" <=> job[j] = "Absent"
                      /\ job[j] \in JobEnds => job'[j] \in JobEnds
  BY <1>3 DEF JobEnds
<1>. QED BY <1>1, <1>4, <1>5, <1>6, <1>7, JobsMind

\* what shutdown() finalizes after the engine is closed runs no job
LEMMA FinalizeMinds ==
  ASSUME Onward, MindInv, NEW th \in Threads, Finalize(th)
  PROVE  MindInv'
<1>. DEFINE left == {t \in Tasks : Live(status, t)}
            S == {Do("signals"), Do("clear")} \cup Each("fire", left)
<1>1. /\ At(th, "finalize") /\ Does(th, S) /\ UNCHANGED engineVars /\ UNCHANGED <<jobId, staged>>
      /\ status' = [t \in Tasks |-> IF t \in left THEN "Canceled" ELSE status[t]]
  BY ShutdownsDo DEF Onward, Finalize
<1>2. engineDown
  <2>1. todo[th] = <<Do("finalize")>>
    BY <1>1, LastIsAlone DEF Onward, MindInv, LastOps
  <2>2. ToSet(<<Do("finalize")>>) = {Do("finalize")} /\ Do("finalize") # Close
    BY DEF ToSet, Close, Do
  <2>. QED BY <2>1, <2>2 DEF MindInv, CloseInv
<1>3. \A j \in Jobs : ~ JobLive(j)
  BY <1>2 DEF MindInv
<1>4. OrderInv'
  BY FinalizeInOrder DEF Onward, MindInv
<1>5. Leaves(th, "closeEngine")
  BY <1>1, AtIsBusy DEF Leaves
<1>. HIDE DEF left
<1>6. \A x \in S : x.op \in {"signals", "clear", "fire"}
  BY OpOf
<1>. HIDE DEF S
<1>7. Lightly(S)
  BY <1>6 DEF Lightly, LaunchOps, RecordOps, JobOps
<1>8. \A j \in Jobs : Afoot(j) => Begun(j)'
  <2>1. \A j \in Jobs : status'[TaskOf(j)] \in {"Canceled", status[TaskOf(j)]}
    BY <1>1, FiniteTasks
  <2>. QED BY <1>1, <2>1 DEF MindInv, Begun
<1>9. \A j \in Jobs : jobId'[TaskOf(j)] = j => Afoot(j)
  BY <1>1 DEF Afoot
<1>10. \A j \in staged' : j \in staged
  BY <1>1
<1>. QED BY <1>1, <1>3, <1>4, <1>5, <1>7, <1>8, <1>9, <1>10, SectionMinds

LEMMA ShutdownMinds ==
  ASSUME Onward, MindInv, NEW th \in Callers, Shutdown(th)
  PROVE  MindInv'
<1>. DEFINE S == {Do(op) : op \in ShutdownSteps}
            q == <<Do("joinWatchdog"), Do("cancelAll"), Do("closeEngine"), Do("joinWorkers"), Do("finalize")>>
<1>0. th \in Threads /\ todo \in [Threads -> Seq(StepType)]
  BY DEF Threads, Onward, LifeInv, TypeInv
<1>1. Does(th, S) /\ Idle(th) /\ UNCHANGED <<status, jobId, job, stop, engineDown, staged>>
  BY <1>0, ShutdownsDo DEF Onward, Shutdown, Call
<1>2. OrderInv'
  BY ShutdownInOrder DEF Onward, MindInv
<1>3. CloseInv'
  <2>1. todo'[th] = q /\ \A u \in Threads \ {th} : todo'[u] = todo[u]
    BY <1>0 DEF Shutdown, Call
  <2>2. Close \in ToSet(q)
    <3>1. 3 \in DOMAIN q /\ q[3] = Close
      BY DEF Close
    <3>. QED BY <3>1 DEF ToSet
  <2>. HIDE DEF q
  <2>3. Close' = Close /\ Do("finalize")' = Do("finalize")
    BY DEF Close, Do
  <2>4. ASSUME NEW u \in Threads, Do("finalize") \in ToSet(todo'[u])
        PROVE  engineDown' \/ Close \in ToSet(todo'[u])
    BY <1>1, <2>1, <2>2, <2>4 DEF MindInv, CloseInv
  <2>. QED BY <2>3, <2>4 DEF CloseInv
<1>4. \A x \in S : x.op \in ShutdownSteps
  BY OpOf
<1>. HIDE DEF S
<1>5. \A x \in S : /\ x.op \notin LaunchOps
                   /\ x.op \in JobOps => Afoot(x.arg)
                   /\ x.op \in RecordOps => Reported(x)'
  BY <1>4 DEF ShutdownSteps, LaunchOps, JobOps, RecordOps
<1>6. \A j \in Jobs : /\ job'[j] = "Absent" <=> job[j] = "Absent"
                      /\ job[j] \in JobEnds => job'[j] \in JobEnds
                      /\ JobLive(j)' => JobLive(j)
  BY <1>1 DEF JobLive
<1>. QED BY <1>0, <1>1, <1>2, <1>3, <1>5, <1>6, JobsMind

LEMMA MindInit == Init => MindInv
<1>. SUFFICES ASSUME Init PROVE MindInv
  OBVIOUS
<1>1. \A th \in Threads : todo[th] = <<>> /\ Behind(th) = <<>> /\ \A op : ~ At(th, op)
  BY DEF Init, Behind, Idle, At
<1>2. ToSet(<<>>) = {} /\ 1 .. Len(<<>>) = {}
  BY DEF ToSet
<1>3. \A x : ~ Pending(x)
  BY <1>1, <1>2 DEF Pending
<1>4. LaunchInv /\ OrderInv /\ CloseInv
  BY <1>1, <1>2 DEF LaunchInv, OrderInv, CloseInv
<1>5. \A j \in Jobs : TaskOf(j) \in Tasks /\ j # NoJob
  BY FiniteTasks, ThreadsAssumption
<1>6. \A j \in Jobs : ~ Afoot(j) /\ ~ JobLive(j)
  BY <1>3, <1>5 DEF Init, Afoot, JobLive
<1>7. StagedInv
  BY <1>3 DEF Init, StagedInv
<1>. QED BY <1>3, <1>4, <1>6, <1>7 DEF Init, MindInv

LEMMA MindNext == OneJob /\ LifeInv /\ LifeInv' /\ MindInv /\ [Next]_vars => MindInv'
<1>. SUFFICES ASSUME OneJob, LifeInv, LifeInv', MindInv, [Next]_vars PROVE MindInv'
  OBVIOUS
<1>1. CASE UNCHANGED vars
  <2>1. \A x : Pending(x)' <=> Pending(x)
    BY <1>1 DEF Pending
  <2>2. \A th \in Threads : todo'[th] = todo[th]
    BY <1>1
  <2>3. LaunchInv'
    BY <1>1 DEF MindInv, LaunchInv, Behind, Idle, At, Arg, DoFor
  <2>4. OrderInv' /\ CloseInv'
    BY <1>1 DEF MindInv, OrderInv, CloseInv, Close, Workers, Do
  <2>5. StagedInv'
    BY <1>1, <2>1 DEF MindInv, StagedInv
  <2>6. \A j \in Jobs : (Afoot(j)' <=> Afoot(j)) /\ (JobLive(j)' <=> JobLive(j)) /\ (Minded(j)' <=> Minded(j))
    BY <1>1, <2>1 DEF Afoot, JobLive, Minded
  <2>7. \A j \in Jobs : Begun(j) => Begun(j)'
    BY <1>1 DEF Begun
  <2>8. \A x : Reported(x) => Reported(x)'
    BY <1>1 DEF Reported
  <2>9. \A j \in Jobs : Stopping(j) => Stopping(j)'
    BY <2>1 DEF Stopping, DoFor
  <2>. QED BY <1>1, <2>1, <2>3, <2>4, <2>5, <2>6, <2>7, <2>8, <2>9 DEF MindInv
<1>2. CASE Next
  <2>0. Onward
    <3>1. OneWayStep \/ UNCHANGED vars
      BY LifeNext
    <3>2. UNCHANGED vars => OneWayStep
      BY DEF OneWayStep
    <3>. QED BY <3>1, <3>2 DEF Onward
  <2>1. ASSUME NEW u \in Callers, Calls(u) PROVE MindInv'
    <3>1. u \in Threads
      BY DEF Threads
    <3>. QED BY <2>0, <2>1, <3>1, SubmissionsMind, PassesMind, CancelsMind, QuietsMind, ShutdownMinds DEF Calls
  <2>2. ASSUME NEW th \in Threads, ThreadStep(th) PROVE MindInv'
    BY <2>0, <2>2, SubmissionsMind, PassesMind, CancelsMind, QuietsMind, FlushMinds, RegisterMinds,
       SubmitWithIdMinds, LinkMinds, RecordsMind, MarkMinds, CancelJobMinds, StrandMinds,
       FlushOwnedCancelsMinds, CloseEngineMinds, FinalizeMinds DEF ThreadStep
  <2>3. ASSUME NEW j \in Jobs, JobStarts(j) \/ \E end \in JobEnds : JobEndsAs(j, end) PROVE MindInv'
    BY <2>0, <2>3, EnginesMind
  <2>4. ASSUME NEW j \in Jobs, NEW t \in Tasks, SubmitJob(j, t) PROVE MindInv'
    <3>1. j \in Threads
      BY DEF Threads
    <3>. QED BY <2>0, <2>4, <3>1, SubmissionsMind
  <2>. QED BY <1>2, <2>0, <2>1, <2>2, <2>3, <2>4, EnforcesMind DEF Next
<1>. QED BY <1>1, <1>2

(* No job runs for nobody: a job of a task that is over, and that nobody   *)
(* has told to stop, is about to be cancelled by some thread, or on its    *)
(* way to the check after its submission, which cancels it. (For tasks     *)
(* that are not repeated: an auto-retry lets go of the job it repeats.)    *)
THEOREM NoJobRunsForNobody ==
  ASSUME MaxAutoRetries = 0
  PROVE  Spec => []Supervised
<1>0. OneJob
  BY DEF OneJob
<1>1. MindInv => Supervised
  <2>. SUFFICES ASSUME MindInv, NEW j \in Jobs, JobLive(j), status[TaskOf(j)] \in Final
                PROVE  \E op \in {"cancel", "stop", "link"} : OnTodo(DoFor(op, j))
    BY DEF Supervised
  <2>1. ~ Minded(j)
    BY DEF Minded, Final
  <2>2. PICK op \in StopOps : Pending(DoFor(op, j))
    BY <2>1 DEF MindInv, Stopping
  <2>. QED BY <2>2, PendingIsOnTodo DEF StopOps
<1>2. Spec => [](LifeInv /\ MindInv)
  <2>1. Init => LifeInv /\ MindInv
    BY LifeInit, MindInit
  <2>2. LifeInv /\ MindInv /\ [Next]_vars => LifeInv' /\ MindInv'
    BY <1>0, LifeNext, MindNext
  <2>. QED BY <2>1, <2>2, PTL DEF Spec
<1>. QED BY <1>1, <1>2, PTL
=============================================================================
