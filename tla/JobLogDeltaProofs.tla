--------------------------- MODULE JobLogDeltaProofs ---------------------------
(***************************************************************************)
(* Theorems about JobLogDelta.tla, for any number of lines: the count of   *)
(* forwarded lines is enough to forward none of them twice, in whatever    *)
(* order records arrive, and with one thread that calls back no line is    *)
(* left out.                                                               *)
(***************************************************************************)
EXTENDS JobLogDelta, SequenceTheorems, TLAPS

USE DEF vars, engineVars

RecordType == [from : Nat, to : Nat, terminal : BOOLEAN]

TypeInv ==
  /\ total \in Nat /\ dropped \in Nat /\ cursor \in Nat /\ over \in BOOLEAN
  /\ record \in [Threads -> RecordType]
  /\ newLines \in [Threads -> Seq(Nat)]
  /\ taskLog \in Seq(Nat) /\ forwarded \in Nat

(* Every line that is in the log or in a thread's hands was counted, and   *)
(* is there once.                                                          *)
Counted ==
  /\ ToSet(taskLog) \subseteq 1 .. forwarded
  /\ \A t \in Threads : ToSet(newLines[t]) \subseteq 1 .. forwarded
Once ==
  /\ NoDuplicates(taskLog)
  /\ \A t \in Threads : NoDuplicates(newLines[t])
Apart ==
  /\ \A t \in Threads : ToSet(taskLog) \cap ToSet(newLines[t]) = {}
  /\ \A t, u \in Threads : t # u => ToSet(newLines[t]) \cap ToSet(newLines[u]) = {}

DedupInv == ~ released => Counted /\ Once /\ Apart

-----------------------------------------------------------------------------
LEMMA TypeInductive == TypeInv /\ [Next]_vars => TypeInv'
<1>. SUFFICES ASSUME TypeInv, [Next]_vars PROVE TypeInv'
  OBVIOUS
<1>. USE DEF TypeInv
<1>0. Worker \in Threads /\ Submitter \in Threads /\ Loggers \subseteq Threads
      /\ MaxLogLines \in Nat /\ LogKeepLines \in Nat
  BY LogAssumption DEF Threads
<1>1. ASSUME AppendLog PROVE total' \in Nat /\ dropped' \in Nat
  <2>1. MaxLogLines \in Nat /\ LogKeepLines \in 1 .. MaxLogLines
    BY LogAssumption
  <2>2. total + 1 - dropped > MaxLogLines => total + 1 - LogKeepLines \in Nat
    BY <2>1
  <2>. QED BY <2>2, <1>1, <2>1 DEF AppendLog, DroppedBy
<1>2. ASSUME NEW t \in Threads, NEW r \in RecordType, Notify(t, r)
      PROVE  record' \in [Threads -> RecordType]
  BY <1>2 DEF Notify
<1>3. ASSUME NEW t \in Loggers, LogCallback(t) PROVE TypeInv'
  <2>1. Record(UnshippedFrom, total', FALSE) \in RecordType
    BY <1>1, <1>3 DEF LogCallback, Record, RecordType, UnshippedFrom
  <2>. QED BY <1>0, <1>1, <1>2, <1>3, <2>1 DEF LogCallback
<1>4. ASSUME NEW t \in Loggers, ProgressCallback(t) PROVE TypeInv'
  <2>1. Record(dropped, total, FALSE) \in RecordType
    BY DEF Record, RecordType
  <2>. QED BY <1>0, <1>2, <1>4, <2>1 DEF ProgressCallback
<1>5. CASE AppendSilently
  BY <1>1, <1>5 DEF AppendSilently
<1>6. CASE FinishTerminal
  <2>1. Record(IF cursor # 0 THEN UnshippedFrom ELSE dropped', total', TRUE) \in RecordType
    BY <1>1, <1>6 DEF FinishTerminal, Record, RecordType, UnshippedFrom
  <2>. QED BY <1>0, <1>1, <1>2, <1>6, <2>1 DEF FinishTerminal
<1>7. CASE CatchUp
  <2>1. Record(dropped, total, over) \in RecordType
    BY DEF Record, RecordType
  <2>. QED BY <1>0, <1>2, <1>7, <2>1 DEF CatchUp
<1>8. ASSUME NEW t \in Threads, Slice(t) PROVE TypeInv'
  <2>1. record[t].from \in Nat /\ record[t].to \in Nat
    BY DEF RecordType
  <2>2. NewPart(record[t]) \in Seq(Nat)
    <3>. DEFINE from == IF forwarded > record[t].from THEN forwarded ELSE record[t].from
    <3>1. from \in Nat
      BY <2>1
    <3>. HIDE DEF from
    <3>2. NewPart(record[t]) = IF record[t].to > from
                               THEN [n \in 1 .. record[t].to - from |-> from + n] ELSE <<>>
      BY DEF NewPart, from
    <3>3. CASE record[t].to > from
      <4>1. record[t].to - from \in Nat
        BY <2>1, <3>1, <3>3
      <4>2. [n \in 1 .. record[t].to - from |-> from + n] \in Seq(Nat)
        <5>. DEFINE k == record[t].to - from
        <5>0. k \in Nat
          BY <4>1
        <5>1. \A n \in 1 .. k : from + n \in Nat
          BY <3>1
        <5>. HIDE DEF k
        <5>2. [n \in 1 .. k |-> from + n] \in Seq(Nat)
          BY <5>0, <5>1
        <5>. QED BY <5>2 DEF k
      <4>. QED BY <3>2, <3>3, <4>2
    <3>. QED BY <3>2, <3>3
  <2>. QED BY <1>8, <2>1, <2>2 DEF Slice
<1>9. ASSUME NEW t \in Threads, AppendTaskLog(t) PROVE TypeInv'
  <2>1. newLines[t] \in Seq(Nat) /\ newLines[t] # <<>>
    BY <1>9 DEF AppendTaskLog
  <2>2. Head(newLines[t]) \in Nat /\ Tail(newLines[t]) \in Seq(Nat)
    BY <2>1, HeadTailProperties
  <2>3. Append(taskLog, Head(newLines[t])) \in Seq(Nat)
    BY <2>2, AppendProperties
  <2>. QED BY <1>9, <2>2, <2>3 DEF AppendTaskLog
<1>10. ASSUME NEW t \in Threads, Check(t) \/ MarkTask(t) \/ Release(t) PROVE TypeInv'
  BY <1>10 DEF Check, MarkTask, Release
<1>11. CASE UNCHANGED vars
  BY <1>11
<1>. QED BY <1>3, <1>4, <1>5, <1>6, <1>7, <1>8, <1>9, <1>10, <1>11 DEF Next, Deliver

LEMMA TypeInit == Init => TypeInv
<1>. SUFFICES ASSUME Init PROVE TypeInv
  OBVIOUS
<1>1. Record(0, 1, FALSE) \in RecordType /\ <<>> \in Seq(Nat)
  BY DEF Record, RecordType
<1>. QED BY <1>1 DEF Init, TypeInv

-----------------------------------------------------------------------------
(* Sequences.                                                              *)

LEMMA Entries ==
  ASSUME NEW s \in Seq(Nat)
  PROVE  \A x : x \in ToSet(s) <=> \E n \in 1 .. Len(s) : x = s[n]
<1>1. DOMAIN s = 1 .. Len(s)
  BY LenProperties
<1>. QED BY <1>1 DEF ToSet

LEMMA Appended ==
  ASSUME NEW s \in Seq(Nat), NEW e \in Nat, NoDuplicates(s), e \notin ToSet(s)
  PROVE  NoDuplicates(Append(s, e)) /\ ToSet(Append(s, e)) = ToSet(s) \cup {e}
<1>. DEFINE r == Append(s, e)
<1>1. /\ r \in Seq(Nat) /\ Len(r) = Len(s) + 1 /\ Len(s) \in Nat /\ r[Len(s) + 1] = e
      /\ \A n \in 1 .. Len(s) : r[n] = s[n]
  BY AppendProperties, LenProperties
<1>. HIDE DEF r
<1>2. \A n \in 1 .. Len(r) : n \in 1 .. Len(s) \/ n = Len(s) + 1
  BY <1>1
<1>3. \A n \in 1 .. Len(s) : s[n] \in ToSet(s)
  BY Entries
<1>4. NoDuplicates(r)
  BY <1>1, <1>2, <1>3 DEF NoDuplicates
<1>5. ToSet(r) = ToSet(s) \cup {e}
  <2>1. Len(s) + 1 \in 1 .. Len(r) /\ \A n \in 1 .. Len(s) : n \in 1 .. Len(r)
    BY <1>1
  <2>2. \A x : (\E n \in 1 .. Len(r) : x = r[n]) <=> x = e \/ \E n \in 1 .. Len(s) : x = s[n]
    BY <1>1, <1>2, <2>1
  <2>3. /\ \A x : x \in ToSet(r) <=> \E n \in 1 .. Len(r) : x = r[n]
        /\ \A x : x \in ToSet(s) <=> \E n \in 1 .. Len(s) : x = s[n]
    BY <1>1, Entries
  <2>. QED BY <2>2, <2>3
<1>. QED BY <1>4, <1>5 DEF r

LEMMA Taken ==
  ASSUME NEW s \in Seq(Nat), s # <<>>, NoDuplicates(s)
  PROVE  /\ NoDuplicates(Tail(s)) /\ Head(s) \in ToSet(s) /\ Head(s) \in Nat
         /\ ToSet(Tail(s)) = ToSet(s) \ {Head(s)}
<1>. DEFINE r == Tail(s)
<1>1. /\ r \in Seq(Nat) /\ Len(r) = Len(s) - 1 /\ Len(s) \in Nat \ {0} /\ Head(s) \in Nat
      /\ \A n \in 1 .. Len(r) : r[n] = s[n + 1]
  BY HeadTailProperties, EmptySeq
<1>2. Head(s) = s[1]
  OBVIOUS
<1>. HIDE DEF r
<1>3. 1 \in 1 .. Len(s) /\ \A n \in 1 .. Len(r) : n + 1 \in 1 .. Len(s) /\ n + 1 # 1
  BY <1>1
<1>4. \A n \in 1 .. Len(s) : n # 1 => n - 1 \in 1 .. Len(r) /\ r[n - 1] = s[n]
  <2>1. \A n \in 1 .. Len(s) : n # 1 => n - 1 \in 1 .. Len(r) /\ n - 1 + 1 = n
    BY <1>1
  <2>. QED BY <1>1, <2>1
<1>5. NoDuplicates(r)
  <2>. SUFFICES ASSUME NEW m \in 1 .. Len(r), NEW n \in 1 .. Len(r), r[m] = r[n] PROVE m = n
    BY DEF NoDuplicates
  <2>1. m + 1 = n + 1
    BY <1>1, <1>3 DEF NoDuplicates
  <2>. QED BY <1>1, <2>1
<1>6. ASSUME NEW x \in ToSet(s), x # Head(s) PROVE x \in ToSet(r)
  <2>1. PICK n \in 1 .. Len(s) : x = s[n]
    BY Entries
  <2>2. n - 1 \in 1 .. Len(r) /\ r[n - 1] = x
    BY <1>2, <1>4, <1>6, <2>1
  <2>. QED BY <1>1, <2>2, Entries
<1>7. ASSUME NEW x \in ToSet(r) PROVE x \in ToSet(s) /\ x # Head(s)
  <2>1. PICK n \in 1 .. Len(r) : x = r[n]
    BY <1>1, Entries
  <2>2. x = s[n + 1] /\ n + 1 \in 1 .. Len(s) /\ n + 1 # 1
    BY <1>1, <1>3, <2>1
  <2>3. x # s[1]
    BY <1>3, <2>2 DEF NoDuplicates
  <2>. QED BY <1>2, <2>2, <2>3, Entries
<1>8. Head(s) \in ToSet(s)
  BY <1>2, <1>3, Entries
<1>. QED BY <1>1, <1>5, <1>6, <1>7, <1>8 DEF r

LEMMA NewPartFacts ==
  ASSUME TypeInv, NEW r \in RecordType
  PROVE  /\ NewPart(r) \in Seq(Nat) /\ NoDuplicates(NewPart(r))
         /\ \A x \in ToSet(NewPart(r)) : x \in Nat /\ forwarded < x /\ x <= r.to
<1>. DEFINE start == IF forwarded > r.from THEN forwarded ELSE r.from
            s == NewPart(r)
<1>1. forwarded \in Nat /\ r.from \in Nat /\ r.to \in Nat /\ start \in Nat /\ forwarded <= start
  BY DEF TypeInv, RecordType
<1>2. s = IF r.to > start THEN [n \in 1 .. r.to - start |-> start + n] ELSE <<>>
  BY DEF NewPart
<1>. HIDE DEF start, s
<1>3. CASE r.to > start
  <2>1. r.to - start \in Nat /\ s = [n \in 1 .. r.to - start |-> start + n]
    BY <1>1, <1>2, <1>3
  <2>2. s \in Seq(Nat) /\ Len(s) = r.to - start /\ \A n \in 1 .. r.to - start : s[n] = start + n
    BY <1>1, <2>1
  <2>3. NoDuplicates(s)
    BY <1>1, <2>2 DEF NoDuplicates
  <2>4. ASSUME NEW x \in ToSet(s) PROVE x \in Nat /\ forwarded < x /\ x <= r.to
    <3>1. PICK n \in 1 .. Len(s) : x = s[n]
      BY <2>2, Entries
    <3>. QED BY <1>1, <2>2, <3>1
  <2>. QED BY <2>2, <2>3, <2>4 DEF s
<1>4. CASE ~ r.to > start
  <2>1. s = <<>> /\ Len(s) = 0 /\ s \in Seq(Nat)
    BY <1>2, <1>4
  <2>2. ToSet(s) = {}
    BY <2>1 DEF ToSet
  <2>3. NoDuplicates(s)
    BY <2>1 DEF NoDuplicates
  <2>. QED BY <2>1, <2>2, <2>3 DEF s
<1>. QED BY <1>3, <1>4

-----------------------------------------------------------------------------
LEMMA DedupInductive == TypeInv /\ DedupInv /\ [Next]_vars => DedupInv'
<1>. SUFFICES ASSUME TypeInv, DedupInv, [Next]_vars, ~ released' PROVE (Counted /\ Once /\ Apart)'
  BY DEF DedupInv
<1>1. \/ UNCHANGED <<newLines, taskLog, forwarded, released>>
      \/ \E t \in Threads : Slice(t) \/ AppendTaskLog(t) \/ Release(t)
  BY DEF Next, Deliver, LogCallback, ProgressCallback, AppendSilently, FinishTerminal, CatchUp,
         Check, MarkTask
<1>2. CASE UNCHANGED <<newLines, taskLog, forwarded, released>>
  BY <1>2 DEF DedupInv, Counted, Once, Apart
<1>3. ASSUME NEW t \in Threads, Release(t) PROVE FALSE
  BY <1>3 DEF Release
<1>4. ASSUME NEW t \in Threads, Slice(t) PROVE (Counted /\ Once /\ Apart)'
  <2>. DEFINE r == record[t]
              s == NewPart(r)
  <2>1. r \in RecordType /\ r.to \in Nat /\ forwarded \in Nat
    BY DEF TypeInv, RecordType
  <2>2. /\ s \in Seq(Nat) /\ NoDuplicates(s)
        /\ \A x \in ToSet(s) : x \in Nat /\ forwarded < x /\ x <= r.to
    BY <2>1, NewPartFacts
  <2>3. /\ newLines'[t] = s /\ taskLog' = taskLog
        /\ \A u \in Threads \ {t} : newLines'[u] = newLines[u]
        /\ forwarded' = (IF r.to > forwarded THEN r.to ELSE forwarded)
        /\ Counted /\ Once /\ Apart
    BY <1>4 DEF Slice, TypeInv, DedupInv
  <2>. HIDE DEF s, r
  <2>4. forwarded' \in Nat /\ forwarded <= forwarded' /\ r.to <= forwarded'
    BY <2>1, <2>3
  <2>5. 1 .. forwarded \subseteq 1 .. forwarded' /\ ToSet(s) \subseteq 1 .. forwarded'
        /\ ToSet(s) \cap 1 .. forwarded = {}
    BY <2>1, <2>2, <2>4
  <2>6. Counted'
    BY <2>3, <2>5 DEF Counted
  <2>7. Once'
    BY <2>2, <2>3 DEF Once
  <2>8. Apart'
    <3>1. \A u \in Threads : ToSet(newLines[u]) \cap ToSet(s) = {}
      BY <2>3, <2>5 DEF Counted
    <3>2. ToSet(taskLog) \cap ToSet(s) = {}
      BY <2>3, <2>5 DEF Counted
    <3>. QED BY <2>3, <3>1, <3>2 DEF Apart
  <2>. QED BY <2>6, <2>7, <2>8
<1>5. ASSUME NEW t \in Threads, AppendTaskLog(t) PROVE (Counted /\ Once /\ Apart)'
  <2>. DEFINE s == newLines[t]
              x == Head(s)
  <2>1. /\ s \in Seq(Nat) /\ s # <<>> /\ taskLog \in Seq(Nat)
        /\ newLines'[t] = Tail(s) /\ taskLog' = Append(taskLog, x) /\ forwarded' = forwarded
        /\ \A u \in Threads \ {t} : newLines'[u] = newLines[u]
        /\ Counted /\ Once /\ Apart
    BY <1>5 DEF AppendTaskLog, TypeInv, DedupInv
  <2>2. /\ NoDuplicates(Tail(s)) /\ x \in ToSet(s) /\ x \in Nat
        /\ ToSet(Tail(s)) = ToSet(s) \ {x}
    BY <2>1, Taken DEF Once
  <2>3. x \notin ToSet(taskLog)
    BY <2>1, <2>2 DEF Apart
  <2>4. NoDuplicates(taskLog') /\ ToSet(taskLog') = ToSet(taskLog) \cup {x}
    BY <2>1, <2>2, <2>3, Appended DEF Once
  <2>. HIDE DEF x
  <2>5. Counted'
    BY <2>1, <2>2, <2>4 DEF Counted
  <2>6. Once'
    BY <2>1, <2>2, <2>4 DEF Once
  <2>7. Apart'
    BY <2>1, <2>2, <2>4 DEF Apart
  <2>. QED BY <2>5, <2>6, <2>7
<1>. QED BY <1>1, <1>2, <1>3, <1>4, <1>5

(* As long as the count is kept no line reaches the task twice, for any    *)
(* overlap of deltas, cumulative copies and the catch-up snapshot.         *)
THEOREM NoLineIsRepeated == Spec => []NoLineTwiceUntilReleased
<1>1. Init => DedupInv
  BY DEF Init, DedupInv, Counted, Once, Apart, NoDuplicates, ToSet
<1>2. DedupInv => NoLineTwiceUntilReleased
  BY DEF DedupInv, Once, Apart, NoLineTwiceUntilReleased, InHand
<1>. QED BY <1>1, <1>2, TypeInit, TypeInductive, DedupInductive, PTL DEF Spec

-----------------------------------------------------------------------------
(* Every line reaches the task. The lines counted are those in the log or  *)
(* in hand, without a gap; a record starts no later than what is counted.  *)

Lines == ToSet(taskLog) \cup InHand

PcInv ==
  /\ pc \in [Threads -> {"idle", "check", "slice", "append", "release"}]
  /\ \A t \in Threads : newLines[t] # <<>> => pc[t] = "append"

(* What the worker was last told of is behind by the watchdog's line only. *)
WorkerInv ==
  /\ cursor <= record[Worker].to /\ record[Worker].to <= total /\ total <= record[Worker].to + 1
  /\ ~ timedOut => total = record[Worker].to

(* Until the count is released: what is counted has arrived, what the      *)
(* record lost is counted, and so is what precedes a record in delivery.   *)
CountInv ==
  ~ released =>
    /\ 1 .. forwarded \subseteq Lines
    /\ dropped <= forwarded
    /\ ~ timedOut => total <= forwarded + 1
    /\ \A t \in Threads : pc[t] \in {"check", "slice"} => record[t].from <= forwarded
    /\ \A t \in Threads : pc[t] = "append" => record[t].to <= forwarded
    /\ pc[Worker] = "idle" /\ ~ taskOver => record[Worker].to <= forwarded

(* A terminal record ends at the job's last line, or behind it; the task   *)
(* ends when such a record was sliced.                                     *)
LastInv ==
  /\ \A t \in Threads : pc[t] # "idle" /\ record[t].terminal => over /\ record[Worker].to <= record[t].to
  /\ \A t \in Threads : pc[t] = "release" => taskOver
  /\ released => taskOver
  /\ taskOver => over /\ 1 .. record[Worker].to \subseteq Lines

ForwardInv == PcInv /\ WorkerInv /\ CountInv /\ LastInv

LEMMA ForwardInit == Init => ForwardInv
<1>. SUFFICES ASSUME Init PROVE ForwardInv
  OBVIOUS
<1>1. Worker \in Threads
  BY DEF Threads
<1>2. \A t \in Threads : record[t] = Record(0, 1, FALSE) /\ newLines[t] = <<>>
                         /\ pc[t] = IF t = Worker THEN "check" ELSE "idle"
  BY DEF Init
<1>3. \A t \in Threads : record[t].from = 0 /\ record[t].to = 1 /\ record[t].terminal = FALSE
  BY <1>2 DEF Record
<1>8. /\ ~ over /\ total = 1 /\ dropped = 0 /\ cursor = 0 /\ ~ timedOut
      /\ forwarded = 0 /\ ~ taskOver /\ ~ released
  BY DEF Init
<1>4. PcInv
  BY <1>2 DEF PcInv, Init
<1>5. WorkerInv
  <2>1. record[Worker].to = 1
    BY <1>1, <1>3
  <2>. QED BY <1>8, <2>1 DEF WorkerInv
<1>6. CountInv
  <2>1. 1 .. forwarded = {}
    BY <1>8
  <2>4. 0 <= 0 /\ 1 <= 0 + 1
    OBVIOUS
  <2>2. \A t \in Threads : record[t].from <= forwarded
    BY <1>3, <1>8, <2>4
  <2>3. pc[Worker] = "check" /\ \A t \in Threads : pc[t] # "append"
    BY <1>1, <1>2
  <2>5. dropped <= forwarded /\ total <= forwarded + 1
    BY <1>8, <2>4
  <2>. QED BY <2>1, <2>2, <2>3, <2>5 DEF CountInv
<1>7. LastInv
  BY <1>1, <1>2, <1>3, <1>8 DEF LastInv
<1>. QED BY <1>4, <1>5, <1>6, <1>7 DEF ForwardInv

(* A new record: the engine's counters and one thread's record change.     *)
LEMMA NotifyForward ==
  ASSUME TypeInv, ForwardInv, NEW t \in Threads, NEW r \in RecordType,
         pc[t] = "idle", Notify(t, r),
         UNCHANGED <<newLines, forwarded, taskOver, taskLog, released>>,
         t = Worker \/ record'[Worker] = record[Worker],
         total' \in Nat, dropped' \in Nat, cursor' \in Nat,
         over => over' /\ record'[Worker] = record[Worker],
         WorkerInv',
         ~ released => r.from <= forwarded /\ dropped' <= forwarded,
         ~ released /\ ~ timedOut' => total' <= forwarded + 1,
         r.terminal => over' /\ record'[Worker].to <= r.to
  PROVE  ForwardInv'
<1>. USE DEF ForwardInv
<1>0. Worker \in Threads /\ pc \in [Threads -> {"idle", "check", "slice", "append", "release"}]
      /\ record \in [Threads -> RecordType]
  BY DEF Threads, PcInv, TypeInv
<1>1. /\ pc'[t] = "check" /\ record'[t] = r
      /\ \A u \in Threads \ {t} : pc'[u] = pc[u] /\ record'[u] = record[u]
      /\ pc' \in [Threads -> {"idle", "check", "slice", "append", "release"}]
  BY <1>0 DEF Notify
<1>2. Lines' = Lines
  BY DEF Lines, InHand
<1>3. PcInv'
  BY <1>1 DEF PcInv
<1>4. CountInv'
  <2>. SUFFICES ASSUME ~ released' PROVE
         /\ 1 .. forwarded' \subseteq Lines'
         /\ dropped' <= forwarded'
         /\ ~ timedOut' => total' <= forwarded' + 1
         /\ \A u \in Threads : pc'[u] \in {"check", "slice"} => record'[u].from <= forwarded'
         /\ \A u \in Threads : pc'[u] = "append" => record'[u].to <= forwarded'
         /\ pc'[Worker] = "idle" /\ ~ taskOver' => record'[Worker].to <= forwarded'
    BY DEF CountInv
  <2>. QED BY <1>0, <1>1, <1>2 DEF CountInv
<1>5. LastInv'
  <2>1. \A u \in Threads : pc'[u] # "idle" /\ record'[u].terminal
                           => over' /\ record'[Worker].to <= record'[u].to
    <3>. SUFFICES ASSUME NEW u \in Threads, pc'[u] # "idle", record'[u].terminal
                  PROVE over' /\ record'[Worker].to <= record'[u].to
      OBVIOUS
    <3>1. CASE u = t
      BY <1>1, <3>1
    <3>2. CASE u # t
      <4>1. over /\ record[Worker].to <= record[u].to
        BY <1>1, <3>2 DEF LastInv
      <4>. QED BY <1>1, <3>2, <4>1
    <3>. QED BY <3>1, <3>2
  <2>2. \A u \in Threads : pc'[u] = "release" => taskOver'
    BY <1>1 DEF LastInv
  <2>3. (released' => taskOver') /\ (taskOver' => over' /\ 1 .. record'[Worker].to \subseteq Lines')
    BY <1>2 DEF LastInv
  <2>. QED BY <2>1, <2>2, <2>3 DEF LastInv
<1>. QED BY <1>3, <1>4, <1>5

(* What a thread sliced is what was not counted, up to its record's end. *)
LEMMA SlicedFacts ==
  ASSUME TypeInv, NEW r \in RecordType, r.from <= forwarded
  PROVE  forwarded + 1 .. r.to \subseteq ToSet(NewPart(r))
<1>1. forwarded \in Nat /\ r.from \in Nat /\ r.to \in Nat
  BY DEF TypeInv, RecordType
<1>2. CASE r.to > forwarded
  <2>1. r.to - forwarded \in Nat
    BY <1>1, <1>2
  <2>. DEFINE k == r.to - forwarded
              s == [n \in 1 .. k |-> forwarded + n]
  <2>2. NewPart(r) = s
    <3>1. (IF forwarded > r.from THEN forwarded ELSE r.from) = forwarded
      BY <1>1
    <3>. QED BY <1>2, <3>1 DEF NewPart
  <2>3. s \in Seq(Nat) /\ Len(s) = k /\ \A n \in 1 .. k : s[n] = forwarded + n
    <3>. HIDE DEF k
    <3>1. k \in Nat
      BY <2>1 DEF k
    <3>2. \A n \in 1 .. k : forwarded + n \in Nat
      BY <1>1
    <3>. QED BY <3>1, <3>2
  <2>. HIDE DEF s
  <2>4. ASSUME NEW x \in forwarded + 1 .. r.to PROVE x \in ToSet(s)
    <3>1. x - forwarded \in 1 .. k /\ s[x - forwarded] = x
      BY <1>1, <2>3
    <3>. QED BY <2>3, <3>1, Entries
  <2>. QED BY <2>2, <2>4
<1>3. CASE ~ r.to > forwarded
  BY <1>1, <1>3
<1>. QED BY <1>2, <1>3

LEMMA SliceForward ==
  ASSUME TypeInv, ForwardInv, NEW t \in Threads, Slice(t)
  PROVE  ForwardInv'
<1>. DEFINE r == record[t]
            s == NewPart(r)
<1>. USE DEF ForwardInv
<1>0. Worker \in Threads /\ r \in RecordType /\ r.to \in Nat /\ forwarded \in Nat
      /\ pc \in [Threads -> {"idle", "check", "slice", "append", "release"}]
  BY DEF Threads, PcInv, TypeInv, RecordType
<1>1. /\ pc[t] = "slice" /\ pc'[t] = "append" /\ newLines'[t] = s
      /\ \A u \in Threads \ {t} : pc'[u] = pc[u] /\ newLines'[u] = newLines[u]
      /\ pc' \in [Threads -> {"idle", "check", "slice", "append", "release"}]
      /\ forwarded' = IF r.to > forwarded THEN r.to ELSE forwarded
      /\ UNCHANGED <<engineVars, record, taskOver, taskLog, released>>
  BY <1>0 DEF Slice, Goto, TypeInv
<1>. HIDE DEF s
<1>2. newLines[t] = <<>>
  BY <1>1 DEF PcInv
<1>3. Lines' = Lines \cup ToSet(s)
  <2>1. ToSet(newLines[t]) = {}
    BY <1>2 DEF ToSet
  <2>. QED BY <1>1, <2>1 DEF Lines, InHand
<1>4. PcInv'
  BY <1>1 DEF PcInv
<1>5. WorkerInv'
  BY <1>1 DEF WorkerInv
<1>6. forwarded <= forwarded' /\ r.to <= forwarded' /\ forwarded' \in Nat
  BY <1>0, <1>1
<1>7. CountInv'
  <2>. SUFFICES ASSUME ~ released PROVE
         /\ 1 .. forwarded' \subseteq Lines'
         /\ dropped <= forwarded'
         /\ ~ timedOut => total <= forwarded' + 1
         /\ \A u \in Threads : pc'[u] \in {"check", "slice"} => record[u].from <= forwarded'
         /\ \A u \in Threads : pc'[u] = "append" => record[u].to <= forwarded'
         /\ pc'[Worker] = "idle" /\ ~ taskOver => record[Worker].to <= forwarded'
    BY <1>1 DEF CountInv
  <2>1. r.from <= forwarded
    BY <1>1 DEF CountInv
  <2>2. forwarded + 1 .. r.to \subseteq ToSet(s)
    BY <1>0, <2>1, SlicedFacts DEF s
  <2>3. 1 .. forwarded' \subseteq Lines'
    BY <1>0, <1>1, <1>3, <2>2 DEF CountInv
  <2>4. \A u \in Threads : record[u].from \in Nat /\ record[u].to \in Nat
    BY DEF TypeInv, RecordType
  <2>5. dropped \in Nat /\ total \in Nat
    BY DEF TypeInv
  <2>. QED BY <1>0, <1>1, <1>6, <2>3, <2>4, <2>5 DEF CountInv
<1>8. LastInv'
  <2>1. Lines \subseteq Lines'
    BY <1>3
  <2>. QED BY <1>1, <2>1 DEF LastInv
<1>. QED BY <1>4, <1>5, <1>7, <1>8

LEMMA AppendForward ==
  ASSUME TypeInv, ForwardInv, NEW t \in Threads, AppendTaskLog(t)
  PROVE  ForwardInv'
<1>. USE DEF ForwardInv
<1>1. /\ newLines[t] \in Seq(Nat) /\ newLines[t] # <<>> /\ taskLog \in Seq(Nat)
      /\ pc[t] = "append"
      /\ newLines'[t] = Tail(newLines[t]) /\ taskLog' = Append(taskLog, Head(newLines[t]))
      /\ \A u \in Threads \ {t} : newLines'[u] = newLines[u]
      /\ UNCHANGED <<engineVars, pc, record, forwarded, taskOver, released>>
  BY DEF AppendTaskLog, TypeInv
<1>2. ToSet(newLines[t]) \subseteq ToSet(newLines'[t]) \cup {Head(newLines[t])}
  <2>. DEFINE s == newLines[t]
              r == Tail(s)
  <2>1. /\ r \in Seq(Nat) /\ Len(r) = Len(s) - 1 /\ Len(s) \in Nat \ {0} /\ Head(s) = s[1]
        /\ \A n \in 1 .. Len(r) : r[n] = s[n + 1]
    BY <1>1, HeadTailProperties, EmptySeq
  <2>2. s \in Seq(Nat) /\ newLines'[t] = r
    BY <1>1
  <2>. HIDE DEF s, r
  <2>3. ASSUME NEW x \in ToSet(s), x # Head(s) PROVE x \in ToSet(r)
    <3>1. PICK n \in 1 .. Len(s) : x = s[n]
      BY <2>2, Entries
    <3>2. n - 1 \in 1 .. Len(r) /\ r[n - 1] = s[n]
      <4>1. n # 1
        BY <2>1, <2>3, <3>1
      <4>2. n - 1 \in 1 .. Len(r) /\ (n - 1) + 1 = n
        BY <2>1, <4>1
      <4>. QED BY <2>1, <4>2
    <3>. QED BY <2>1, <3>1, <3>2, Entries
  <2>. QED BY <2>2, <2>3 DEF s
<1>3. ToSet(taskLog') = ToSet(taskLog) \cup {Head(newLines[t])}
  <2>. DEFINE e == Head(newLines[t])
              r == Append(taskLog, e)
  <2>1. e \in Nat
    BY <1>1, HeadTailProperties
  <2>. HIDE DEF e
  <2>2. /\ r \in Seq(Nat) /\ Len(r) = Len(taskLog) + 1 /\ Len(taskLog) \in Nat
        /\ r[Len(taskLog) + 1] = e /\ \A n \in 1 .. Len(taskLog) : r[n] = taskLog[n]
    BY <1>1, <2>1, AppendProperties, LenProperties
  <2>. HIDE DEF r
  <2>3. \A x : (\E n \in 1 .. Len(r) : x = r[n]) <=> x = e \/ \E n \in 1 .. Len(taskLog) : x = taskLog[n]
    <3>1. /\ \A n \in 1 .. Len(r) : n \in 1 .. Len(taskLog) \/ n = Len(taskLog) + 1
          /\ \A n \in 1 .. Len(taskLog) : n \in 1 .. Len(r)
          /\ Len(taskLog) + 1 \in 1 .. Len(r)
      BY <2>2
    <3>. QED BY <2>2, <3>1
  <2>4. /\ \A x : x \in ToSet(r) <=> \E n \in 1 .. Len(r) : x = r[n]
        /\ \A x : x \in ToSet(taskLog) <=> \E n \in 1 .. Len(taskLog) : x = taskLog[n]
    BY <1>1, <2>2, Entries
  <2>5. taskLog' = r
    BY <1>1 DEF r, e
  <2>. QED BY <2>3, <2>4, <2>5 DEF e
<1>4. Lines \subseteq Lines'
  BY <1>1, <1>2, <1>3 DEF Lines, InHand
<1>5. PcInv'
  BY <1>1 DEF PcInv
<1>6. WorkerInv'
  BY <1>1 DEF WorkerInv
<1>7. CountInv'
  BY <1>1, <1>4 DEF CountInv
<1>8. LastInv'
  BY <1>1, <1>4 DEF LastInv
<1>. QED BY <1>5, <1>6, <1>7, <1>8

LEMMA DeliveryForward ==
  ASSUME TypeInv, ForwardInv, NEW t \in Threads, Check(t) \/ MarkTask(t) \/ Release(t)
  PROVE  ForwardInv'
<1>. USE DEF ForwardInv
<1>0. Worker \in Threads /\ pc \in [Threads -> {"idle", "check", "slice", "append", "release"}]
      /\ record \in [Threads -> RecordType] /\ forwarded \in Nat
  BY DEF Threads, PcInv, TypeInv
<1>1. /\ UNCHANGED <<engineVars, record, newLines, taskLog>>
      /\ \A u \in Threads \ {t} : pc'[u] = pc[u]
      /\ pc' \in [Threads -> {"idle", "check", "slice", "append", "release"}]
  BY <1>0 DEF Check, MarkTask, Release, Goto
<1>2. Lines' = Lines /\ WorkerInv'
  BY <1>1 DEF Lines, InHand, WorkerInv
<1>3. CASE Check(t)
  <2>1. /\ pc[t] = "check" /\ pc'[t] = IF taskOver THEN "idle" ELSE "slice"
        /\ UNCHANGED <<forwarded, taskOver, released>>
    BY <1>0, <1>3 DEF Check, Goto
  <2>2. PcInv'
    BY <1>1, <2>1 DEF PcInv
  <2>3. CountInv'
    BY <1>0, <1>1, <1>2, <2>1 DEF CountInv
  <2>4. LastInv'
    BY <1>0, <1>1, <1>2, <2>1 DEF LastInv
  <2>. QED BY <1>2, <2>2, <2>3, <2>4
<1>4. CASE MarkTask(t)
  <2>1. /\ pc[t] = "append" /\ newLines[t] = <<>>
        /\ taskOver' = (taskOver \/ record[t].terminal)
        /\ pc'[t] = IF record[t].terminal THEN "release" ELSE "idle"
        /\ UNCHANGED <<forwarded, released>>
    BY <1>0, <1>4 DEF MarkTask, Goto
  <2>2. PcInv'
    BY <1>1, <2>1 DEF PcInv
  <2>3. CountInv'
    BY <1>0, <1>1, <1>2, <2>1 DEF CountInv
  <2>4. taskOver' => over /\ 1 .. record[Worker].to \subseteq Lines
    <3>1. CASE taskOver
      BY <3>1 DEF LastInv
    <3>2. CASE ~ taskOver /\ record[t].terminal
      <4>1. ~ released /\ over /\ record[Worker].to <= record[t].to
        BY <2>1, <3>2 DEF LastInv
      <4>2. record[t].to <= forwarded /\ 1 .. forwarded \subseteq Lines
        BY <2>1, <4>1 DEF CountInv
      <4>3. record[t].to \in Nat /\ record[Worker].to \in Nat
        BY <1>0 DEF RecordType
      <4>4. 1 .. record[Worker].to \subseteq 1 .. forwarded
        BY <1>0, <4>1, <4>2, <4>3
      <4>. QED BY <4>1, <4>2, <4>4
    <3>. QED BY <2>1, <3>1, <3>2
  <2>5. LastInv'
    BY <1>1, <1>2, <2>1, <2>4 DEF LastInv
  <2>. QED BY <1>2, <2>2, <2>3, <2>5
<1>5. CASE Release(t)
  <2>1. pc[t] = "release" /\ pc'[t] = "idle" /\ released' = TRUE /\ UNCHANGED taskOver
    BY <1>0, <1>5 DEF Release, Goto
  <2>2. PcInv'
    BY <1>1, <2>1 DEF PcInv
  <2>3. CountInv'
    BY <2>1 DEF CountInv
  <2>4. LastInv'
    BY <1>1, <1>2, <2>1 DEF LastInv
  <2>. QED BY <1>2, <2>2, <2>3, <2>4
<1>. QED BY <1>3, <1>4, <1>5

LEMMA Kept ==
  ASSUME NEW d \in Nat, NEW e \in Nat, NEW n \in Nat, NEW f \in Nat,
         d <= f, n <= f + 1, e = d \/ e + 1 <= n
  PROVE  e <= f
OBVIOUS

(* With one thread that calls back, and retention of two lines at least:   *)
(* the watchdog's line and the one after it.                               *)
LEMMA EngineForward ==
  ASSUME TypeInv, TypeInv', ForwardInv, Loggers \subseteq {Worker}, LogKeepLines >= 2,
         (\E t \in Loggers : LogCallback(t) \/ ProgressCallback(t))
           \/ AppendSilently \/ FinishTerminal \/ CatchUp
  PROVE  ForwardInv'
<1>. USE DEF ForwardInv
<1>0. /\ Worker \in Threads /\ Submitter \in Threads /\ Submitter # Worker
      /\ MaxLogLines \in Nat /\ LogKeepLines \in Nat
      /\ pc \in [Threads -> {"idle", "check", "slice", "append", "release"}]
      /\ record \in [Threads -> RecordType] /\ forwarded \in Nat
      /\ total \in Nat /\ dropped \in Nat /\ cursor \in Nat
      /\ total' \in Nat /\ dropped' \in Nat /\ cursor' \in Nat
      /\ record[Worker].to \in Nat
  BY LogAssumption DEF Threads, PcInv, TypeInv, RecordType
<1>9. /\ forwarded \in Nat /\ total \in Nat /\ dropped \in Nat /\ cursor \in Nat
      /\ total' \in Nat /\ dropped' \in Nat /\ record[Worker].to \in Nat
  BY <1>0
<1>1. ASSUME AppendLog PROVE total' = total + 1 /\ (dropped' = dropped \/ dropped' + 1 <= total)
  BY <1>0, <1>1 DEF AppendLog, DroppedBy
<1>2. taskOver => over
  BY DEF LastInv
<1>3. ASSUME AppendLog, ~ over, ~ released, pc[Worker] = "idle"
      PROVE  dropped' <= forwarded /\ cursor <= forwarded /\ dropped <= forwarded
             /\ (~ timedOut => total' <= forwarded + 1)
             /\ UnshippedFrom <= forwarded
  <2>1. record[Worker].to <= forwarded /\ dropped <= forwarded
    BY <1>2, <1>3 DEF CountInv
  <2>2. cursor <= record[Worker].to /\ total <= record[Worker].to + 1
        /\ (~ timedOut => total = record[Worker].to)
    BY DEF WorkerInv
  <2>5. total' = total + 1 /\ (dropped' = dropped \/ dropped' + 1 <= total)
    BY <1>1, <1>3
  <2>3. dropped' <= forwarded
    <3>1. total <= forwarded + 1
      BY <1>9, <2>1, <2>2
    <3>. QED BY <1>9, <2>1, <2>5, <3>1, Kept
  <2>4. cursor <= forwarded /\ (~ timedOut => total' <= forwarded + 1)
    BY <1>9, <2>1, <2>2, <2>5
  <2>. QED BY <2>1, <2>3, <2>4 DEF UnshippedFrom
<1>4. ASSUME NEW t \in Loggers, LogCallback(t) PROVE ForwardInv'
  <2>. DEFINE r == Record(UnshippedFrom, total', FALSE)
  <2>1. t = Worker /\ pc[t] = "idle" /\ ~ over /\ AppendLog /\ cursor' = total' /\ Notify(t, r)
        /\ UNCHANGED <<over, timedOut, newLines, forwarded, taskOver, taskLog, released>>
    BY <1>4 DEF LogCallback
  <2>2. r \in RecordType /\ r.to = total' /\ r.from = UnshippedFrom /\ ~ r.terminal
    BY <1>0 DEF Record, RecordType, UnshippedFrom
  <2>. HIDE DEF r
  <2>3. record'[Worker] = r
    BY <1>0, <2>1 DEF Notify
  <2>4. WorkerInv'
    BY <1>0, <2>1, <2>2, <2>3 DEF WorkerInv
  <2>5. ~ released => r.from <= forwarded /\ dropped' <= forwarded
    BY <1>3, <2>1, <2>2
  <2>6. ~ released /\ ~ timedOut' => total' <= forwarded + 1
    BY <1>3, <2>1
  <2>. QED BY <1>0, <2>1, <2>2, <2>3, <2>4, <2>5, <2>6, NotifyForward
<1>5. ASSUME NEW t \in Loggers, ProgressCallback(t) PROVE ForwardInv'
  <2>. DEFINE r == Record(dropped, total, FALSE)
  <2>1. t = Worker /\ pc[t] = "idle" /\ ~ over /\ Notify(t, r)
        /\ UNCHANGED <<engineVars, newLines, forwarded, taskOver, taskLog, released>>
    BY <1>5 DEF ProgressCallback
  <2>2. r \in RecordType /\ r.to = total /\ r.from = dropped /\ ~ r.terminal
    BY <1>0 DEF Record, RecordType
  <2>. HIDE DEF r
  <2>3. record'[Worker] = r
    BY <1>0, <2>1 DEF Notify
  <2>4. WorkerInv'
    BY <1>0, <2>1, <2>2, <2>3 DEF WorkerInv
  <2>5. ~ released => r.from <= forwarded /\ dropped' <= forwarded
    BY <2>1, <2>2 DEF CountInv
  <2>6. ~ released /\ ~ timedOut' => total' <= forwarded + 1
    BY <2>1 DEF CountInv
  <2>. QED BY <1>0, <2>1, <2>2, <2>3, <2>4, <2>5, <2>6, NotifyForward
<1>6. CASE AppendSilently
  <2>1. ~ timedOut /\ timedOut' = TRUE /\ AppendLog
        /\ UNCHANGED <<over, cursor, pc, record, newLines, forwarded, taskOver, taskLog, released>>
    BY <1>6 DEF AppendSilently
  <2>2. Lines' = Lines /\ PcInv'
    BY <2>1 DEF Lines, InHand, PcInv
  <2>3. WorkerInv'
    BY <1>0, <1>1, <2>1 DEF WorkerInv
  <2>4. CountInv'
    <3>1. ~ released => dropped' <= forwarded
      <4>1. SUFFICES ASSUME ~ released PROVE dropped' <= forwarded
        OBVIOUS
      <4>2. dropped <= forwarded /\ total <= forwarded + 1
        BY <2>1, <4>1 DEF CountInv
      <4>3. dropped' = dropped \/ dropped' + 1 <= total
        BY <1>1, <2>1
      <4>. QED BY <1>9, <4>2, <4>3, Kept
    <3>. QED BY <2>1, <2>2, <3>1 DEF CountInv
  <2>5. LastInv'
    BY <2>1, <2>2 DEF LastInv
  <2>. QED BY <2>2, <2>3, <2>4, <2>5
<1>7. CASE FinishTerminal
  <2>. DEFINE r == Record(IF cursor # 0 THEN UnshippedFrom ELSE dropped', total', TRUE)
  <2>1. pc[Worker] = "idle" /\ ~ over /\ AppendLog /\ over' = TRUE /\ cursor' = 0
        /\ Notify(Worker, r)
        /\ UNCHANGED <<timedOut, newLines, forwarded, taskOver, taskLog, released>>
    BY <1>7 DEF FinishTerminal
  <2>2. r \in RecordType /\ r.to = total' /\ (r.from = UnshippedFrom \/ r.from = dropped')
    BY <1>0 DEF Record, RecordType, UnshippedFrom
  <2>. HIDE DEF r
  <2>3. record'[Worker] = r
    BY <1>0, <2>1 DEF Notify
  <2>4. WorkerInv'
    BY <1>0, <2>1, <2>2, <2>3 DEF WorkerInv
  <2>5. ~ released => r.from <= forwarded /\ dropped' <= forwarded
    BY <1>3, <2>1, <2>2
  <2>6. ~ released /\ ~ timedOut' => total' <= forwarded + 1
    BY <1>3, <2>1
  <2>7. record'[Worker].to <= r.to
    BY <1>0, <2>2, <2>3
  <2>. QED BY <1>0, <2>1, <2>2, <2>3, <2>4, <2>5, <2>6, <2>7, NotifyForward
<1>8. CASE CatchUp
  <2>. DEFINE r == Record(dropped, total, over)
  <2>1. pc[Submitter] = "idle" /\ Notify(Submitter, r)
        /\ UNCHANGED <<engineVars, newLines, forwarded, taskOver, taskLog, released>>
    BY <1>8 DEF CatchUp
  <2>2. r \in RecordType /\ r.to = total /\ r.from = dropped /\ r.terminal = over
    BY <1>0 DEF Record, RecordType, TypeInv
  <2>. HIDE DEF r
  <2>3. record'[Worker] = record[Worker]
    BY <1>0, <2>1 DEF Notify
  <2>4. WorkerInv'
    BY <2>1, <2>3 DEF WorkerInv
  <2>5. ~ released => r.from <= forwarded /\ dropped' <= forwarded
    BY <2>1, <2>2 DEF CountInv
  <2>6. ~ released /\ ~ timedOut' => total' <= forwarded + 1
    BY <2>1 DEF CountInv
  <2>7. r.terminal => over' /\ record'[Worker].to <= r.to
    BY <2>1, <2>2, <2>3 DEF WorkerInv
  <2>. QED BY <1>0, <2>1, <2>2, <2>3, <2>4, <2>5, <2>6, <2>7, NotifyForward
<1>. QED BY <1>4, <1>5, <1>6, <1>7, <1>8

(* The task's log ends up with every line of the job, whatever the record  *)
(* dropped meanwhile: with one thread that calls back (two may deliver in  *)
(* the other order) and at least two lines kept (the code keeps 5000).     *)
THEOREM EveryLineArrives ==
  ASSUME Loggers \subseteq {Worker}, LogKeepLines >= 2
  PROVE  Spec => []EveryLineForwarded
<1>1. TypeInv /\ TypeInv' /\ ForwardInv /\ [Next]_vars => ForwardInv'
  <2>. SUFFICES ASSUME TypeInv, TypeInv', ForwardInv, [Next]_vars PROVE ForwardInv'
    OBVIOUS
  <2>1. CASE UNCHANGED vars
    BY <2>1 DEF ForwardInv, PcInv, WorkerInv, CountInv, LastInv, Lines, InHand
  <2>2. CASE \E t \in Threads : Deliver(t)
    BY <2>2, SliceForward, AppendForward, DeliveryForward DEF Deliver
  <2>. QED BY <2>1, <2>2, EngineForward DEF Next
<1>2. ForwardInv => EveryLineForwarded
  <2>. SUFFICES ASSUME ForwardInv, taskOver, \A t \in Threads : pc[t] = "idle"
                PROVE  1 .. record[Worker].to \subseteq ToSet(taskLog)
    BY DEF EveryLineForwarded
  <2>1. \A t \in Threads : newLines[t] = <<>>
    BY DEF ForwardInv, PcInv
  <2>2. InHand = {}
    BY <2>1 DEF InHand, ToSet
  <2>. QED BY <2>2 DEF ForwardInv, LastInv, Lines
<1>. QED BY <1>1, <1>2, TypeInit, TypeInductive, ForwardInit, PTL DEF Spec

=============================================================================
