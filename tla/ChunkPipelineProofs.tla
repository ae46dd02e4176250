------------------------ MODULE ChunkPipelineProofs ------------------------
(***************************************************************************)
(* Theorems about ChunkPipeline.tla, for any number of stages and tiles,   *)
(* any capacity, and whichever functions fail, filter or are cancelled.    *)
(***************************************************************************)
EXTENDS ChunkPipeline, SequenceTheorems, FiniteSetTheorems, TLAPS

USE DEF vars, queueVars, errorVars, history

Busy == {"popped", "check", "call", "push"}
Pcs == Busy \cup {"pop", "pushed", "close", "closed", "error", "cancel", "cancelled", "done"}

(* Which thread may be where, and when it has a tile in hand.              *)
Hands(t) ==
  /\ held[t] # 0 => pc[t] \in Busy
  /\ t # Producer /\ pc[t] \in Busy => held[t] # 0
  /\ t = Producer => pc[t] \notin {"pop", "popped"} /\ (pc[t] = "push" <=> held[t] # 0)
  /\ t = Consumer => pc[t] \notin {"push", "pushed", "close", "closed"}

HandsInv == \A t \in Threads : Hands(t)

(* The flag is looked at between two calls of the consumer.                *)
LateInv ==
  /\ ~ flag => late = 0
  /\ pc[Consumer] = "call" => late = 0
  /\ late <= 1

QueuesInv == \A q \in Queues : Len(items[q]) <= Capacity

\* a thread that takes no tile any more
Dead(t) == pc[t] \in {"error", "cancel", "cancelled", "close", "closed", "done"}

\* tile y is downstream of queue q
Beyond(y, q) ==
  \/ y \in ToSet(consumed)
  \/ \E u \in Threads : u > q /\ held[u] = y
  \/ \E r \in Queues : r > q /\ y \in ToSet(items[r])

\* tile y is downstream of thread q
Later(y, q) == Beyond(y, q) \/ (q \in Queues /\ y \in ToSet(items[q]))

(* Tiles keep their order.                                                 *)
HandOrder(t) == held[t] # 0 => \A y \in 1 .. N : Later(y, t) => y < held[t]
QueueOrder(q) ==
  /\ \A x \in ToSet(items[q]), y \in 1 .. N : Beyond(y, q) => y < x
  /\ \A m, n \in 1 .. Len(items[q]) : m < n => items[q][m] < items[q][n]
AllProduced == \A y \in 1 .. N : Later(y, Producer) \/ y = held[Producer] => y <= produced

OrderInv ==
  /\ \A t \in Threads : HandOrder(t)
  /\ \A q \in Queues : QueueOrder(q)
  /\ AllProduced

(* A tile is never ahead of an earlier one, unless a thread further down   *)
(* has stopped taking tiles: it has lost the earlier one.                  *)
DeadBelow(q) == \E u \in Threads : u > q /\ Dead(u)
Ahead(x, q) == \A y \in 1 .. x - 1 : y \in dropped \/ Later(y, q)
NoneLost == \A y \in 1 .. produced : y = held[Producer] \/ y \in dropped \/ Later(y, Producer)

GapInv ==
  /\ \A q \in Queues : DeadBelow(q) \/ \A x \in ToSet(items[q]) : Ahead(x, q)
  /\ \A t \in Threads : held[t] # 0 => DeadBelow(t) \/ Ahead(held[t], t)
  /\ (\E u \in Threads : Dead(u)) \/ NoneLost

\* nothing has failed, been aborted or been cancelled
Clean == firstError = -1 /\ ~ flag /\ \A t \in Threads : pc[t] \notin {"error", "cancel", "cancelled"}

(* Then nothing is lost, and a thread ends behind an empty queue.          *)
CancelHasAReason ==
  \A t \in Threads : pc[t] \in {"cancel", "cancelled"} => flag \/ firstError # -1

Over(t) == pc[t] \in {"close", "closed", "done"}
EndsAreClean ==
  /\ \A q \in Queues : closed[q] <=> pc[q] \in {"closed", "done"}
  /\ Over(Producer) => produced = N
  /\ \A q \in Queues : Over(q + 1) => closed[q] /\ items[q] = <<>>

CleanInv == CancelHasAReason /\ (Clean => NoneLost /\ EndsAreClean)

-----------------------------------------------------------------------------
(* Types.                                                                  *)

LEMMA Numbers ==
  /\ S \in Nat /\ N \in Nat /\ Capacity \in Nat \ {0}
  /\ Producer = 0 /\ Consumer = S + 1 /\ Producer \in Threads /\ Consumer \in Threads
  /\ Producer # Consumer /\ -1 \notin Threads
  /\ \A t \in Threads : t \in Int /\ (t # Consumer <=> t \in Queues)
                        /\ (t # Producer <=> t - 1 \in Queues)
  /\ \A q \in Queues : q \in Threads /\ q + 1 \in Threads /\ q \in Nat
  /\ Stages \subseteq Threads \ {Producer, Consumer}
BY PipelineAssumption DEF Producer, Consumer, Threads, Queues, Stages

LEMMA Entries ==
  ASSUME NEW s \in Seq(1 .. N)
  PROVE  /\ ToSet(s) \subseteq 1 .. N
         /\ \A e \in 1 .. N : /\ Append(s, e) \in Seq(1 .. N)
                              /\ ToSet(Append(s, e)) = ToSet(s) \cup {e}
         /\ s # <<>> => /\ Head(s) \in ToSet(s) /\ Tail(s) \in Seq(1 .. N)
                        /\ ToSet(s) = {Head(s)} \cup ToSet(Tail(s))
<1>1. ToSet(s) \subseteq 1 .. N
  <2>1. DOMAIN s = 1 .. Len(s) /\ \A n \in 1 .. Len(s) : s[n] \in 1 .. N
    BY LenProperties, ElementOfSeq
  <2>. QED BY <2>1 DEF ToSet
<1>2. ASSUME NEW e \in 1 .. N
      PROVE  Append(s, e) \in Seq(1 .. N) /\ ToSet(Append(s, e)) = ToSet(s) \cup {e}
  <2>1. /\ Append(s, e) \in Seq(1 .. N) /\ Len(Append(s, e)) = Len(s) + 1
        /\ \A n \in 1 .. Len(s) : Append(s, e)[n] = s[n]
        /\ Append(s, e)[Len(s) + 1] = e
    BY AppendProperties
  <2>2. DOMAIN Append(s, e) = DOMAIN s \cup {Len(s) + 1} /\ DOMAIN s = 1 .. Len(s)
    BY <2>1
  <2>. QED BY <2>1, <2>2 DEF ToSet
<1>3. ASSUME s # <<>>
      PROVE  /\ Head(s) \in ToSet(s) /\ Tail(s) \in Seq(1 .. N)
             /\ ToSet(s) = {Head(s)} \cup ToSet(Tail(s))
  <2>1. /\ Head(s) = s[1] /\ Len(s) \in Nat \ {0} /\ DOMAIN s = 1 .. Len(s)
        /\ Tail(s) \in Seq(1 .. N) /\ Len(Tail(s)) = Len(s) - 1
        /\ \A n \in 1 .. Len(Tail(s)) : Tail(s)[n] = s[n + 1]
    BY <1>3, HeadTailProperties, EmptySeq
  <2>2. Head(s) \in ToSet(s)
    BY <2>1 DEF ToSet
  <2>3. \A n \in 2 .. Len(s) : n - 1 \in 1 .. Len(Tail(s)) /\ Tail(s)[n - 1] = s[n]
    BY <2>1
  <2>4. \A n \in 1 .. Len(Tail(s)) : n + 1 \in 2 .. Len(s)
    BY <2>1
  <2>5. DOMAIN Tail(s) = 1 .. Len(Tail(s))
    BY <2>1
  <2>6. ToSet(s) \subseteq {Head(s)} \cup ToSet(Tail(s))
    <3>. SUFFICES ASSUME NEW n \in 1 .. Len(s) PROVE s[n] \in {Head(s)} \cup ToSet(Tail(s))
      BY <2>1 DEF ToSet
    <3>1. CASE n = 1
      BY <2>1, <3>1
    <3>2. CASE n # 1
      <4>1. n \in 2 .. Len(s)
        BY <2>1, <3>2
      <4>2. n - 1 \in DOMAIN Tail(s) /\ Tail(s)[n - 1] = s[n]
        BY <2>3, <2>5, <4>1
      <4>3. Tail(s)[n - 1] \in ToSet(Tail(s))
        BY <4>2 DEF ToSet
      <4>. QED BY <4>2, <4>3
    <3>. QED BY <3>1, <3>2
  <2>7. ToSet(Tail(s)) \subseteq ToSet(s)
    BY <2>1, <2>4, <2>5 DEF ToSet
  <2>. QED BY <2>1, <2>2, <2>6, <2>7
<1>. QED BY <1>1, <1>2, <1>3

AtInv == \A t \in Threads : pc[t] = "cancelled" => at[t] \in Queues

TypeInv == TypeOK /\ HandsInv /\ AtInv

LEMMA GotoFacts ==
  ASSUME TypeInv, NEW t \in Threads, NEW l \in Pcs, Goto(t, l)
  PROVE  /\ pc' \in [Threads -> Pcs] /\ pc'[t] = l
         /\ \A u \in Threads \ {t} : pc'[u] = pc[u]
BY DEF TypeInv, TypeOK, Goto, Pcs, Busy

LEMMA Typed ==
  ASSUME TypeInv, NEW t \in Threads
  PROVE  /\ held \in [Threads -> 0 .. N] /\ 0 \in 0 .. N /\ pc \in [Threads -> Pcs]
         /\ held[t] # 0 => held[t] \in 1 .. N
         /\ produced \in 0 .. N /\ N \in Nat /\ Hands(t)
         /\ consumed \in Seq(1 .. N) /\ dropped \subseteq 1 .. N
         /\ \A q \in Queues : items[q] \in Seq(1 .. N)
<1>1. held \in [Threads -> 0 .. N] /\ N \in Nat /\ produced \in 0 .. N
      /\ consumed \in Seq(1 .. N) /\ dropped \subseteq 1 .. N
      /\ items \in [Queues -> Seq(1 .. N)] /\ Hands(t)
  BY Numbers DEF TypeInv, TypeOK, HandsInv
<1>2. pc \in [Threads -> Pcs]
  BY DEF TypeInv, TypeOK, Pcs, Busy
<1>3. held[t] \in 0 .. N
  BY <1>1
<1>. QED BY <1>1, <1>2, <1>3

(* A step of thread t concerns t, and the variables it mentions.           *)
LEMMA Frame ==
  ASSUME TypeInv, NEW t \in Threads,
         pc' \in [Threads -> Pcs], held' \in [Threads -> 0 .. N],
         \A u \in Threads \ {t} : pc'[u] = pc[u] /\ held'[u] = held[u],
         Hands(t)', errorMutex' = errorMutex, pc[t] \notin {"cancel", "cancelled"},
         at' = at, pc'[t] # "cancelled"
  PROVE  HandsInv' /\ AtInv' /\ (errorMutex' # -1 => pc'[errorMutex'] \in {"cancel", "cancelled"})
<1>1. \A u \in Threads \ {t} : Hands(u)'
  BY DEF TypeInv, HandsInv, Hands
<1>2. errorMutex # -1 => errorMutex \in Threads \ {t} /\ pc[errorMutex] \in {"cancel", "cancelled"}
  BY DEF TypeInv, TypeOK
<1>3. AtInv'
  BY DEF TypeInv, AtInv
<1>. QED BY <1>1, <1>2, <1>3 DEF HandsInv


(* What a step of thread t does to pc, held and the queues, action by      *)
(* action; the rest of the proofs uses these facts.                        *)

LEMMA PushEffect ==
  ASSUME TypeInv, NEW t \in Threads, Push(t), t # Consumer
  PROVE  /\ t \in Queues /\ pc[t] = "push" /\ held[t] \in 1 .. N /\ items[t] \in Seq(1 .. N)
         /\ UNCHANGED <<closed, cancelledQ, at, produced, flag, errorVars, outcome, history>>
         /\ \/ /\ closed[t] /\ pc'[t] = "done" /\ held'[t] = 0 /\ UNCHANGED <<items, asleep>>
            \/ /\ Len(items[t]) < Capacity /\ pc'[t] = "pushed" /\ held'[t] = 0
               /\ Append(items[t], held[t]) \in Seq(1 .. N)
               /\ items' = [items EXCEPT ![t] = Append(items[t], held[t])]
               /\ asleep' = asleep
            \/ UNCHANGED <<items, pc, held>> /\ asleep' = asleep \cup {t}
         /\ \A u \in Threads \ {t} : pc'[u] = pc[u] /\ held'[u] = held[u]
         /\ pc' \in [Threads -> Pcs] /\ held' \in [Threads -> 0 .. N]
<1>1. pc[t] = "push" /\ t \in Queues /\ held[t] \in 1 .. N /\ items[t] \in Seq(1 .. N)
  <2>1. pc[t] = "push" /\ t \in Queues
    BY Numbers DEF Push
  <2>. QED BY <2>1, Typed DEF Hands, Busy
<1>2. Append(items[t], held[t]) \in Seq(1 .. N)
  BY <1>1, Entries
<1>3. pc \in [Threads -> Pcs] /\ held \in [Threads -> 0 .. N] /\ 0 \in 0 .. N
  BY Typed
<1>. QED BY <1>1, <1>2, <1>3, GotoFacts DEF Push, Pcs

LEMMA PopEffect ==
  ASSUME TypeInv, NEW t \in Threads, Pop(t), t # Producer
  PROVE  /\ t - 1 \in Queues /\ pc[t] = "pop" /\ held[t] = 0 /\ items[t - 1] \in Seq(1 .. N)
         /\ UNCHANGED <<closed, cancelledQ, at, produced, flag, errorVars, outcome, history>>
         /\ \/ /\ items[t - 1] # <<>> /\ pc'[t] = "popped" /\ held'[t] = Head(items[t - 1])
               /\ Head(items[t - 1]) \in 1 .. N /\ Tail(items[t - 1]) \in Seq(1 .. N)
               /\ items' = [items EXCEPT ![t - 1] = Tail(items[t - 1])]
               /\ asleep' = asleep
            \/ /\ items[t - 1] = <<>> /\ closed[t - 1]
               /\ pc'[t] = (IF t = Consumer THEN "done" ELSE "close")
               /\ UNCHANGED <<items, held, asleep>>
            \/ UNCHANGED <<items, pc, held>> /\ asleep' = asleep \cup {t}
         /\ \A u \in Threads \ {t} : pc'[u] = pc[u] /\ held'[u] = held[u]
         /\ pc' \in [Threads -> Pcs] /\ held' \in [Threads -> 0 .. N]
<1>1. pc[t] = "pop" /\ t - 1 \in Queues /\ held[t] = 0 /\ items[t - 1] \in Seq(1 .. N)
  <2>1. pc[t] = "pop" /\ t - 1 \in Queues
    BY Numbers DEF Pop
  <2>. QED BY <2>1, Typed DEF Hands, Busy
<1>2. items[t - 1] # <<>> => /\ Head(items[t - 1]) \in 1 .. N
                             /\ Tail(items[t - 1]) \in Seq(1 .. N)
  BY <1>1, Entries
<1>3. pc \in [Threads -> Pcs] /\ held \in [Threads -> 0 .. N]
  BY DEF TypeInv, TypeOK, Pcs, Busy
<1>4. CASE items[t - 1] # <<>>
  <2>1. /\ held' = [held EXCEPT ![t] = Head(items[t - 1])] /\ Goto(t, "popped")
        /\ items' = [items EXCEPT ![t - 1] = Tail(items[t - 1])] /\ asleep' = asleep
        /\ UNCHANGED <<closed, cancelledQ, at, produced, flag, errorVars, outcome, history>>
    BY <1>4 DEF Pop
  <2>2. "popped" \in Pcs
    BY DEF Pcs, Busy
  <2>3. pc' \in [Threads -> Pcs] /\ pc'[t] = "popped" /\ \A u \in Threads \ {t} : pc'[u] = pc[u]
    BY <2>1, <2>2, GotoFacts
  <2>4. Head(items[t - 1]) \in 0 .. N
    BY <1>2, <1>4
  <2>5. held'[t] = Head(items[t - 1]) /\ held' \in [Threads -> 0 .. N]
        /\ \A u \in Threads \ {t} : held'[u] = held[u]
    BY <1>3, <2>1, <2>4
  <2>. QED BY <1>1, <1>2, <1>4, <2>1, <2>3, <2>5
<1>5. CASE items[t - 1] = <<>>
  BY <1>1, <1>3, <1>5, GotoFacts DEF Pop, Pcs
<1>. QED BY <1>4, <1>5

LEMMA LooksAtFlagEffect ==
  ASSUME TypeInv, NEW t \in Threads, LooksAtFlag(t)
  PROVE  /\ pc[t] = "check"
         /\ pc'[t] = (IF ~ flag THEN "call" ELSE IF t = Producer THEN "close" ELSE "cancel")
         /\ held'[t] = (IF flag THEN 0 ELSE held[t])
         /\ UNCHANGED <<queueVars, asleep, at, produced, flag, errorVars, outcome, history>>
         /\ \A u \in Threads \ {t} : pc'[u] = pc[u] /\ held'[u] = held[u]
         /\ pc' \in [Threads -> Pcs] /\ held' \in [Threads -> 0 .. N]
<1>1. pc[t] = "check" /\ flag \in BOOLEAN /\ 0 \in 0 .. N /\ held \in [Threads -> 0 .. N]
  BY Numbers DEF LooksAtFlag, TypeInv, TypeOK
<1>2. Goto(t, IF ~ flag THEN "call" ELSE IF t = Producer THEN "close" ELSE "cancel")
  BY <1>1 DEF LooksAtFlag
<1>3. (IF ~ flag THEN "call" ELSE IF t = Producer THEN "close" ELSE "cancel") \in Pcs
  BY DEF Pcs, Busy
<1>4. /\ pc' \in [Threads -> Pcs]
      /\ pc'[t] = (IF ~ flag THEN "call" ELSE IF t = Producer THEN "close" ELSE "cancel")
      /\ \A u \in Threads \ {t} : pc'[u] = pc[u]
  BY <1>2, <1>3, GotoFacts
<1>. QED BY <1>1, <1>4 DEF LooksAtFlag

LEMMA ProduceEffect ==
  ASSUME TypeInv, Produce
  PROVE  /\ pc[Producer] = "call" /\ held[Producer] = 0
         /\ \/ /\ produced < N /\ pc'[Producer] = "push" /\ held'[Producer] = produced + 1
               /\ produced' = produced + 1 /\ produced + 1 \in 1 .. N
            \/ /\ produced = N /\ pc'[Producer] = "close" /\ UNCHANGED <<produced, held>>
         /\ UNCHANGED <<queueVars, asleep, at, flag, errorVars, outcome, history>>
         /\ \A u \in Threads \ {Producer} : pc'[u] = pc[u] /\ held'[u] = held[u]
         /\ pc' \in [Threads -> Pcs] /\ held' \in [Threads -> 0 .. N]
<1>1. pc[Producer] = "call" /\ held[Producer] = 0 /\ held \in [Threads -> 0 .. N]
      /\ produced \in 0 .. N /\ N \in Nat
  BY Numbers, Typed DEF Produce, Hands
<1>2. CASE produced < N
  BY <1>1, <1>2, Numbers, GotoFacts DEF Produce, Pcs, Busy
<1>3. CASE ~ produced < N
  BY <1>1, <1>3, Numbers, GotoFacts DEF Produce, Pcs
<1>. QED BY <1>2, <1>3

LEMMA ProcessEffect ==
  ASSUME TypeInv, NEW t \in Threads, Process(t)
  PROVE  /\ pc[t] = "call" /\ t # Producer /\ t # Consumer /\ held[t] \in 1 .. N
         /\ \/ pc'[t] = "push" /\ UNCHANGED <<held, dropped>>
            \/ pc'[t] = "pop" /\ held'[t] = 0 /\ dropped' = dropped \cup {held[t]}
         /\ UNCHANGED <<queueVars, asleep, at, produced, flag, errorVars, outcome, consumed, late>>
         /\ \A u \in Threads \ {t} : pc'[u] = pc[u] /\ held'[u] = held[u]
         /\ pc' \in [Threads -> Pcs] /\ held' \in [Threads -> 0 .. N]
<1>1. pc[t] = "call" /\ t # Producer /\ t # Consumer
  BY Numbers DEF Process
<1>2. held[t] \in 1 .. N /\ held \in [Threads -> 0 .. N] /\ 0 \in 0 .. N
  BY <1>1, Typed DEF Hands, Busy
<1>3. "push" \in Pcs /\ "pop" \in Pcs
  BY DEF Pcs, Busy
<1>. QED BY <1>1, <1>2, <1>3, GotoFacts DEF Process

LEMMA ConsumeEffect ==
  ASSUME TypeInv, Consume
  PROVE  /\ pc[Consumer] = "call" /\ held[Consumer] \in 1 .. N /\ held'[Consumer] = 0
         /\ pc'[Consumer] \in {"pop", "error"}
         /\ consumed' = Append(consumed, held[Consumer]) /\ consumed' \in Seq(1 .. N)
         /\ late' = (IF flag THEN late + 1 ELSE late)
         /\ UNCHANGED <<queueVars, asleep, at, produced, flag, errorVars, outcome, dropped>>
         /\ \A u \in Threads \ {Consumer} : pc'[u] = pc[u] /\ held'[u] = held[u]
         /\ pc' \in [Threads -> Pcs] /\ held' \in [Threads -> 0 .. N]
<1>1. pc[Consumer] = "call" /\ held[Consumer] \in 1 .. N /\ held \in [Threads -> 0 .. N]
      /\ 0 \in 0 .. N /\ consumed \in Seq(1 .. N)
  BY Numbers, Typed DEF Consume, Hands, Busy
<1>2. "error" \in Pcs /\ "pop" \in Pcs
  BY DEF Pcs
<1>3. Append(consumed, held[Consumer]) \in Seq(1 .. N)
  BY <1>1, Entries
<1>4. pc' \in [Threads -> Pcs] /\ pc'[Consumer] \in {"pop", "error"}
      /\ \A u \in Threads \ {Consumer} : pc'[u] = pc[u]
  BY <1>2, Numbers, GotoFacts DEF Consume
<1>. QED BY <1>1, <1>3, <1>4, Numbers DEF Consume

LEMMA ThrowEffect ==
  ASSUME TypeInv, NEW t \in Threads, Throw(t)
  PROVE  /\ pc[t] = "call" /\ pc'[t] = "error" /\ held'[t] = 0
         /\ UNCHANGED <<queueVars, asleep, at, produced, flag, errorVars, outcome, history>>
         /\ \A u \in Threads \ {t} : pc'[u] = pc[u] /\ held'[u] = held[u]
         /\ pc' \in [Threads -> Pcs] /\ held' \in [Threads -> 0 .. N]
<1>1. held \in [Threads -> 0 .. N] /\ 0 \in 0 .. N /\ "error" \in Pcs
  BY Numbers DEF TypeInv, TypeOK, Pcs
<1>. QED BY <1>1, GotoFacts DEF Throw

(* The steps that move no tile.                                            *)
Quiet(t) ==
  \/ t # Consumer /\ (PushNotifies(t) \/ Close(t) \/ CloseNotifies(t))
  \/ t # Producer /\ PopNotifies(t)
  \/ CatchAll(t) \/ CancelQueue(t) \/ CancelNotifies(t) \/ CancelAllReturns(t)

LEMMA QuietEffect ==
  ASSUME TypeInv, NEW t \in Threads, Quiet(t)
  PROVE  /\ UNCHANGED <<items, held, produced, flag, outcome, history>>
         /\ \A u \in Threads \ {t} : pc'[u] = pc[u]
         /\ pc' \in [Threads -> Pcs]
         /\ \/ pc[t] = "pushed" /\ pc'[t] = (IF t = Producer THEN "check" ELSE "pop")
               /\ t # Consumer /\ UNCHANGED <<closed, errorVars>>
            \/ pc[t] = "popped" /\ pc'[t] = "check" /\ t # Producer /\ UNCHANGED <<closed, errorVars>>
            \/ /\ pc[t] = "close" /\ pc'[t] \in {"closed", "done"} /\ t # Consumer
               /\ closed' = [closed EXCEPT ![t] = TRUE] /\ UNCHANGED errorVars
            \/ pc[t] = "closed" /\ pc'[t] = "done" /\ UNCHANGED <<closed, errorVars>>
            \/ /\ pc[t] = "error" /\ pc'[t] = "cancel" /\ firstError' # -1 /\ closed' = closed
               /\ errorMutex = -1 /\ errorMutex' = t /\ firstError' \in Threads
            \/ /\ pc[t] \in {"cancel", "cancelled"} /\ pc'[t] \in {"cancel", "cancelled", "done"}
               /\ closed' \in [Queues -> BOOLEAN] /\ firstError' = firstError
               /\ errorMutex' \in {errorMutex, -1}
               /\ pc'[t] = "done" => errorMutex' # t
<1>. DEFINE Same == UNCHANGED <<items, held, produced, flag, outcome, history>>
<1>1. CASE PushNotifies(t) /\ t # Consumer
  <2>1. Goto(t, IF t = Producer THEN "check" ELSE "pop")
        /\ (IF t = Producer THEN "check" ELSE "pop") \in Pcs
    BY <1>1 DEF PushNotifies, NextRound, Pcs, Busy
  <2>. QED BY <1>1, <2>1, GotoFacts DEF PushNotifies
<1>2. CASE PopNotifies(t) /\ t # Producer
  BY <1>2, GotoFacts DEF PopNotifies, Pcs, Busy
<1>3. CASE Close(t) /\ t # Consumer
  BY <1>3, GotoFacts DEF Close, Pcs
<1>4. CASE CloseNotifies(t) /\ t # Consumer
  BY <1>4, GotoFacts DEF CloseNotifies, Pcs
<1>5. CASE CatchAll(t)
  <2>1. firstError' # -1 /\ firstError' \in Threads
    BY <1>5, Numbers DEF CatchAll, TypeInv, TypeOK
  <2>. QED BY <1>5, <2>1, GotoFacts DEF CatchAll, Pcs
<1>6. CASE CancelQueue(t)
  <2>1. pc \in [Threads -> Pcs]
    BY DEF TypeInv, TypeOK, Pcs, Busy
  <2>2. closed' \in [Queues -> BOOLEAN]
    BY <1>6 DEF CancelQueue, TypeInv, TypeOK
  <2>. QED BY <1>6, <2>1, <2>2, GotoFacts DEF CancelQueue, Pcs
<1>7. CASE CancelNotifies(t)
  BY <1>7, GotoFacts DEF CancelNotifies, Pcs, TypeInv, TypeOK
<1>8. CASE CancelAllReturns(t)
  <2>1. -1 # t
    BY Numbers
  <2>. QED BY <1>8, <2>1, GotoFacts DEF CancelAllReturns, Pcs, TypeInv, TypeOK
<1>. QED BY <1>1, <1>2, <1>3, <1>4, <1>5, <1>6, <1>7, <1>8 DEF Quiet

LEMMA TypeInductive == TypeInv /\ [Next]_vars => TypeInv'
<1>. SUFFICES ASSUME TypeInv, [Next]_vars PROVE TypeInv'
  OBVIOUS
<1>1. CASE Join \/ SetCancelFlag \/ UNCHANGED vars
  BY <1>1 DEF Join, SetCancelFlag, TypeInv, TypeOK, HandsInv, Hands, AtInv
<1>2. ASSUME NEW t \in Threads, t # Consumer, Push(t) PROVE TypeInv'
  <2>1. items' \in [Queues -> Seq(1 .. N)] /\ asleep' \subseteq Threads
    <3>1. items \in [Queues -> Seq(1 .. N)] /\ asleep \subseteq Threads
      BY DEF TypeInv, TypeOK
    <3>2. /\ \/ Append(items[t], held[t]) \in Seq(1 .. N)
                /\ items' = [items EXCEPT ![t] = Append(items[t], held[t])]
             \/ UNCHANGED items
          /\ asleep' = asleep \/ asleep' = asleep \cup {t}
      BY <1>2, PushEffect
    <3>. QED BY <3>1, <3>2
  <2>2. Hands(t)'
    BY <1>2, PushEffect, Typed DEF Hands, Busy
  <2>3. /\ UNCHANGED <<closed, cancelledQ, at, produced, flag, errorVars, outcome, history>>
        /\ \A u \in Threads \ {t} : pc'[u] = pc[u] /\ held'[u] = held[u]
        /\ pc' \in [Threads -> Pcs] /\ held' \in [Threads -> 0 .. N]
        /\ pc[t] = "push" /\ pc'[t] # "cancelled"
    BY <1>2, PushEffect
  <2>. QED BY <2>1, <2>2, <2>3, Frame DEF TypeInv, TypeOK, Pcs, Busy
<1>3. ASSUME NEW t \in Threads, t # Producer, Pop(t) PROVE TypeInv'
  <2>1. items' \in [Queues -> Seq(1 .. N)] /\ asleep' \subseteq Threads
    <3>1. items \in [Queues -> Seq(1 .. N)] /\ asleep \subseteq Threads
      BY DEF TypeInv, TypeOK
    <3>2. /\ \/ Tail(items[t - 1]) \in Seq(1 .. N)
                /\ items' = [items EXCEPT ![t - 1] = Tail(items[t - 1])]
             \/ UNCHANGED items
          /\ asleep' = asleep \/ asleep' = asleep \cup {t}
      BY <1>3, PopEffect
    <3>. QED BY <3>1, <3>2
  <2>2. Hands(t)'
    <3>1. \/ pc'[t] = "popped" /\ held'[t] # 0
          \/ pc'[t] = (IF t = Consumer THEN "done" ELSE "close") /\ held'[t] = 0
          \/ pc'[t] = "pop" /\ held'[t] = 0
      BY <1>3, PopEffect
    <3>. QED BY <1>3, <3>1 DEF Hands, Busy
  <2>3. /\ UNCHANGED <<closed, cancelledQ, at, produced, flag, errorVars, outcome, history>>
        /\ \A u \in Threads \ {t} : pc'[u] = pc[u] /\ held'[u] = held[u]
        /\ pc' \in [Threads -> Pcs] /\ held' \in [Threads -> 0 .. N]
        /\ pc[t] = "pop" /\ pc'[t] # "cancelled"
    BY <1>3, PopEffect
  <2>. QED BY <2>1, <2>2, <2>3, Frame DEF TypeInv, TypeOK, Pcs, Busy
<1>4. ASSUME NEW t \in Threads, LooksAtFlag(t) PROVE TypeInv'
  <2>1. Hands(t)'
    BY <1>4, LooksAtFlagEffect, Typed, Numbers DEF Hands, Busy
  <2>. QED BY <1>4, <2>1, LooksAtFlagEffect, Frame DEF TypeInv, TypeOK, Pcs, Busy
<1>5. CASE Produce
  <2>1. Hands(Producer)'
    <3>1. \/ pc'[Producer] = "push" /\ held'[Producer] # 0
          \/ pc'[Producer] = "close" /\ held'[Producer] = 0
      <4>1. Producer \in Threads /\ 0 \notin 1 .. N
        BY Numbers
      <4>2. pc[Producer] = "call" /\ held[Producer] = 0
        BY <1>5, ProduceEffect
      <4>3. CASE pc'[Producer] = "push" /\ held'[Producer] = produced + 1 /\ produced + 1 \in 1 .. N
        BY <4>1, <4>3
      <4>4. CASE pc'[Producer] = "close" /\ UNCHANGED held
        BY <4>2, <4>4
      <4>. QED BY <1>5, <4>3, <4>4, ProduceEffect
    <3>2. Producer # Consumer
      BY Numbers
    <3>. QED BY <3>1, <3>2 DEF Hands, Busy
  <2>2. produced' \in 0 .. N
    <3>1. produced \in 0 .. N /\ N \in Nat
      BY Numbers DEF TypeInv, TypeOK
    <3>2. produced' = produced \/ produced' \in 1 .. N
      BY <1>5, ProduceEffect
    <3>. QED BY <3>1, <3>2
  <2>. QED BY <1>5, <2>1, <2>2, ProduceEffect, Frame, Numbers DEF TypeInv, TypeOK, Pcs, Busy
<1>6. ASSUME NEW t \in Threads, Process(t) PROVE TypeInv'
  <2>1. Hands(t)'
    BY <1>6, ProcessEffect, Typed DEF Hands, Busy
  <2>2. dropped' \subseteq 1 .. N
    BY <1>6, ProcessEffect, Typed
  <2>. QED BY <1>6, <2>1, <2>2, ProcessEffect, Frame DEF TypeInv, TypeOK, Pcs, Busy
<1>7. CASE Consume
  <2>1. Hands(Consumer)'
    BY <1>7, ConsumeEffect, Typed, Numbers DEF Hands, Busy
  <2>2. late' \in Nat
    BY <1>7, ConsumeEffect DEF TypeInv, TypeOK
  <2>3. /\ Consumer \in Threads /\ pc[Consumer] \notin {"cancel", "cancelled"}
        /\ pc'[Consumer] # "cancelled"
        /\ pc' \in [Threads -> Pcs] /\ held' \in [Threads -> 0 .. N]
        /\ consumed' \in Seq(1 .. N)
        /\ UNCHANGED <<queueVars, asleep, at, produced, flag, errorVars, outcome, dropped>>
        /\ \A u \in Threads \ {Consumer} : pc'[u] = pc[u] /\ held'[u] = held[u]
    BY <1>7, ConsumeEffect, Numbers
  <2>. QED BY <2>1, <2>2, <2>3, Frame DEF TypeInv, TypeOK, Pcs, Busy
<1>8. ASSUME NEW t \in Threads, Throw(t) PROVE TypeInv'
  <2>1. Hands(t)'
    BY <1>8, ThrowEffect, Typed, Numbers DEF Hands, Busy
  <2>. QED BY <1>8, <2>1, ThrowEffect, Frame DEF TypeInv, TypeOK, Pcs, Busy
<1>9. ASSUME NEW t \in Threads, Quiet(t) PROVE TypeInv'
  <2>1. /\ asleep' \subseteq Threads /\ at' \in [Threads -> 0 .. S + 1]
        /\ cancelledQ' \in [Queues -> BOOLEAN]
    <3>1. /\ asleep' \subseteq asleep /\ asleep \subseteq Threads /\ at \in [Threads -> 0 .. S + 1]
          /\ cancelledQ \in [Queues -> BOOLEAN]
      BY <1>9 DEF Quiet, PushNotifies, PopNotifies, Close, CloseNotifies, CatchAll, CancelQueue,
                  CancelNotifies, CancelAllReturns, TypeInv, TypeOK
    <3>2. CASE CancelQueue(t)
      <4>1. at[t] + 1 \in 0 .. S + 1
        BY <3>2, Numbers DEF CancelQueue, Queues
      <4>. QED BY <3>1, <3>2, <4>1 DEF CancelQueue
    <3>3. CASE CancelNotifies(t)
      <4>1. at[t] + 1 \in 0 .. S + 1
        BY <3>3, Numbers DEF CancelNotifies, Queues, TypeInv, AtInv
      <4>. QED BY <3>1, <3>3, <4>1 DEF CancelNotifies
    <3>4. CASE ~ CancelQueue(t) /\ ~ CancelNotifies(t)
      BY <1>9, <3>1, <3>4
         DEF Quiet, PushNotifies, PopNotifies, Close, CloseNotifies, CatchAll, CancelAllReturns
    <3>. QED BY <3>2, <3>3, <3>4
  <2>0. AtInv'
    <3>1. CASE CancelQueue(t)
      BY <1>9, <3>1, QuietEffect DEF CancelQueue, Goto, TypeInv, TypeOK, AtInv
    <3>2. CASE ~ CancelQueue(t)
      <4>1. pc'[t] # "cancelled"
        BY <1>9, <3>2, Typed DEF Quiet, PushNotifies, PopNotifies, Close, CloseNotifies, CatchAll,
              CancelNotifies, CancelAllReturns, Goto, NextRound
      <4>2. \A u \in Threads \ {t} : at'[u] = at[u]
        BY <1>9, <3>2 DEF Quiet, PushNotifies, PopNotifies, Close, CloseNotifies, CatchAll,
              CancelNotifies, CancelAllReturns, TypeInv, TypeOK
      <4>. QED BY <1>9, <4>1, <4>2, QuietEffect DEF TypeInv, AtInv
    <3>. QED BY <3>1, <3>2
  <2>2. closed' \in [Queues -> BOOLEAN] /\ firstError' \in Threads \cup {-1}
        /\ errorMutex' \in Threads \cup {-1}
    BY <1>9, QuietEffect DEF TypeInv, TypeOK
  <2>3. \A u \in Threads \ {t} : Hands(u)'
    BY <1>9, QuietEffect DEF TypeInv, HandsInv, Hands
  <2>4. Hands(t)'
    BY <1>9, QuietEffect, Typed DEF Hands, Busy
  <2>5. errorMutex' # -1 => pc'[errorMutex'] \in {"cancel", "cancelled"}
    BY <1>9, QuietEffect, Numbers DEF TypeInv, TypeOK
  <2>. QED BY <1>9, <2>0, <2>1, <2>2, <2>3, <2>4, <2>5, QuietEffect
           DEF TypeInv, TypeOK, HandsInv, Pcs, Busy
<1>. QED BY <1>1, <1>2, <1>3, <1>4, <1>5, <1>6, <1>7, <1>8, <1>9
         DEF Next, ThreadSteps, Quiet

LEMMA NextCases ==
  ASSUME [Next]_vars
  PROVE  \/ Join \/ SetCancelFlag \/ UNCHANGED vars
         \/ Produce \/ Consume
         \/ \E t \in Threads :
              \/ t # Consumer /\ Push(t)
              \/ t # Producer /\ Pop(t)
              \/ LooksAtFlag(t) \/ Process(t) \/ Throw(t) \/ Quiet(t)
BY DEF Next, ThreadSteps, Quiet

LEMMA TypeInit == Init => TypeInv
<1>. SUFFICES ASSUME Init PROVE TypeInv
  OBVIOUS
<1>1. \A t \in Threads : Hands(t)
  BY Numbers DEF Init, Hands, Busy
<1>2. <<>> \in Seq(1 .. N) /\ 0 \in 0 .. N /\ 0 \in 0 .. S + 1
  BY Numbers, EmptySeq
<1>3. TypeOK
  BY <1>2, Numbers DEF Init, TypeOK
<1>. QED BY <1>1, <1>3, Numbers DEF Init, TypeInv, HandsInv, AtInv

LEMMA TypeInvariant == Spec => []TypeInv
BY TypeInit, TypeInductive, PTL DEF Spec

-----------------------------------------------------------------------------
(* Cancellation and memory.                                                *)

LEMMA LateInductive == TypeInv /\ LateInv /\ [Next]_vars => LateInv'
<1>. SUFFICES ASSUME TypeInv, LateInv, [Next]_vars PROVE LateInv'
  OBVIOUS
<1>. USE DEF LateInv
<1>0. Consumer \in Threads /\ flag \in BOOLEAN /\ late \in Nat
  BY Numbers DEF TypeInv, TypeOK
<1>1. CASE Join \/ SetCancelFlag \/ UNCHANGED vars
  BY <1>1 DEF Join, SetCancelFlag
<1>2. ASSUME NEW t \in Threads, t # Consumer, Push(t) PROVE LateInv'
  BY <1>0, <1>2, PushEffect
<1>3. ASSUME NEW t \in Threads, t # Producer, Pop(t) PROVE LateInv'
  BY <1>0, <1>3, PopEffect
<1>4. ASSUME NEW t \in Threads, LooksAtFlag(t) PROVE LateInv'
  BY <1>0, <1>4, LooksAtFlagEffect
<1>5. CASE Produce
  BY <1>0, <1>5, ProduceEffect, Numbers
<1>6. ASSUME NEW t \in Threads, Process(t) PROVE LateInv'
  BY <1>0, <1>6, ProcessEffect
<1>7. CASE Consume
  BY <1>0, <1>7, ConsumeEffect
<1>8. ASSUME NEW t \in Threads, Throw(t) PROVE LateInv'
  BY <1>0, <1>8, ThrowEffect
<1>9. ASSUME NEW t \in Threads, Quiet(t) PROVE LateInv'
  BY <1>0, <1>9, QuietEffect
<1>. QED BY <1>1, <1>2, <1>3, <1>4, <1>5, <1>6, <1>7, <1>8, <1>9, NextCases

(* Once the flag is set the consumer gets at most one more tile, whatever  *)
(* the number of stages: its check and its call are one round apart.       *)
THEOREM CancelStopsTheConsumer == Spec => []AtMostOneAfterCancel
<1>1. Init => LateInv
  BY DEF Init, LateInv
<1>2. LateInv => AtMostOneAfterCancel
  BY DEF LateInv, AtMostOneAfterCancel
<1>. QED BY <1>1, <1>2, LateInductive, TypeInvariant, PTL DEF Spec

LEMMA QueuesInductive == TypeInv /\ QueuesInv /\ [Next]_vars => QueuesInv'
<1>. SUFFICES ASSUME TypeInv, QueuesInv, [Next]_vars PROVE QueuesInv'
  OBVIOUS
<1>0. \A q \in Queues : items[q] \in Seq(1 .. N) /\ Len(items[q]) \in Nat
  BY DEF TypeInv, TypeOK
<1>1. CASE UNCHANGED items
  BY <1>1 DEF QueuesInv
<1>2. ASSUME NEW t \in Threads, t # Consumer, Push(t) PROVE QueuesInv'
  <2>1. CASE Len(items[t]) < Capacity /\ items' = [items EXCEPT ![t] = Append(items[t], held[t])]
    <3>1. t \in Queues /\ Len(Append(items[t], held[t])) = Len(items[t]) + 1
      BY <1>2, PushEffect, AppendProperties
    <3>2. Len(items'[t]) <= Capacity
      BY <1>0, <2>1, <3>1, Numbers DEF TypeInv, TypeOK
    <3>. QED BY <2>1, <3>2 DEF QueuesInv, TypeInv, TypeOK
  <2>. QED BY <1>1, <1>2, <2>1, PushEffect
<1>3. ASSUME NEW t \in Threads, t # Producer, Pop(t) PROVE QueuesInv'
  <2>1. CASE items[t - 1] # <<>> /\ items' = [items EXCEPT ![t - 1] = Tail(items[t - 1])]
    <3>1. t - 1 \in Queues /\ Len(Tail(items[t - 1])) = Len(items[t - 1]) - 1
      BY <1>3, <2>1, PopEffect, HeadTailProperties
    <3>2. Len(items'[t - 1]) <= Capacity
      BY <1>0, <2>1, <3>1, Numbers DEF QueuesInv, TypeInv, TypeOK
    <3>. QED BY <2>1, <3>2 DEF QueuesInv, TypeInv, TypeOK
  <2>. QED BY <1>1, <1>3, <2>1, PopEffect
<1>4. CASE \/ Join \/ SetCancelFlag \/ UNCHANGED vars \/ Produce \/ Consume
           \/ \E t \in Threads : LooksAtFlag(t) \/ Process(t) \/ Throw(t) \/ Quiet(t)
  <2>1. UNCHANGED items
    BY <1>4, QuietEffect DEF Join, SetCancelFlag, Produce, Consume, LooksAtFlag, Process, Throw
  <2>. QED BY <1>1, <2>1
<1>. QED BY <1>2, <1>3, <1>4, NextCases

(* The memory of a run is bounded by the capacity of its queues and one    *)
(* tile per thread, for any number of tiles.                               *)
THEOREM MemoryIsBounded == Spec => []BoundedInFlight
<1>1. Init => QueuesInv
  BY Numbers DEF Init, QueuesInv
<1>2. TypeInv /\ QueuesInv => BoundedInFlight
  <2>. SUFFICES ASSUME TypeInv, QueuesInv PROVE BoundedInFlight
    OBVIOUS
  <2>. DEFINE A == Threads \X {0}
              B == Queues \X (1 .. Capacity)
  <2>0. S \in Nat /\ Capacity \in Nat /\ ~ 0 > S /\ ~ 1 > Capacity
    BY Numbers
  <2>1. InFlight \subseteq A \cup B
    <3>1. ASSUME NEW q \in Queues, NEW n \in 1 .. Len(items[q]) PROVE <<q, n>> \in B
      <4>1. Len(items[q]) \in Nat /\ Len(items[q]) <= Capacity
        BY DEF QueuesInv, TypeInv, TypeOK
      <4>2. n \in 1 .. Capacity
        BY <2>0, <4>1
      <4>. QED BY <4>2
    <3>. QED BY <3>1 DEF InFlight
  <2>2. IsFiniteSet(Threads) /\ Cardinality(Threads) = S + 2
    BY FS_Interval, Numbers DEF Threads
  <2>3. IsFiniteSet(Queues) /\ Cardinality(Queues) = S + 1
    <3>1. Cardinality(Queues) = S - 0 + 1 /\ IsFiniteSet(Queues)
      BY <2>0, FS_Interval DEF Queues
    <3>. QED BY <2>0, <3>1
  <2>4. IsFiniteSet(1 .. Capacity) /\ Cardinality(1 .. Capacity) = Capacity
    <3>1. Cardinality(1 .. Capacity) = Capacity - 1 + 1 /\ IsFiniteSet(1 .. Capacity)
      BY <2>0, FS_Interval
    <3>. QED BY <2>0, <3>1
  <2>5. IsFiniteSet({0}) /\ Cardinality({0}) = 1
    BY FS_Singleton
  <2>6. IsFiniteSet(A) /\ Cardinality(A) = (S + 2) * 1
    BY <2>2, <2>5, FS_Product
  <2>7. IsFiniteSet(B) /\ Cardinality(B) = (S + 1) * Capacity
    BY <2>3, <2>4, FS_Product
  <2>8. A \cap B = {}
    BY Numbers
  <2>. HIDE DEF A, B
  <2>9. IsFiniteSet(A \cup B) /\ Cardinality(A \cup B) = Cardinality(A) + Cardinality(B)
    <3>1. Cardinality(A \cap B) = 0
      BY <2>8, FS_EmptySet
    <3>2. Cardinality(A) \in Nat /\ Cardinality(B) \in Nat /\ IsFiniteSet(A) /\ IsFiniteSet(B)
      BY <2>6, <2>7, FS_CardinalityType
    <3>3. IsFiniteSet(A \cup B)
          /\ Cardinality(A \cup B) = Cardinality(A) + Cardinality(B) - Cardinality(A \cap B)
      BY <3>2, FS_Union
    <3>. QED BY <3>1, <3>2, <3>3
  <2>10. Cardinality(InFlight) <= Cardinality(A \cup B)
    BY <2>1, <2>9, FS_Subset
  <2>11. Cardinality(InFlight) \in Nat
    BY <2>1, <2>9, FS_Subset, FS_CardinalityType
  <2>12. (S + 1) * Capacity \in Nat
    BY Numbers
  <2>13. Cardinality(A \cup B) = (S + 2) * 1 + (S + 1) * Capacity
    BY <2>6, <2>7, <2>9
  <2>14. (S + 2) * 1 + (S + 1) * Capacity = (S + 1) * Capacity + S + 2
    BY <2>12, Numbers
  <2>. QED BY <2>10, <2>13, <2>14 DEF BoundedInFlight
<1>. QED BY <1>1, <1>2, QueuesInductive, TypeInvariant, PTL DEF Spec

-----------------------------------------------------------------------------
(* How the steps move tiles, as seen from each place of the pipeline.      *)

LEMMA Places ==
  /\ Threads \subseteq Nat /\ Queues = Threads \ {Consumer} /\ Producer = 0 /\ Consumer \in Threads
  /\ \A t \in Threads : t <= Consumer
BY Numbers DEF Threads, Queues, Consumer, Producer

\* t passes its tile to queue t
LEMMA PushMoves ==
  ASSUME TypeInv, NEW t \in Queues, held[t] \in 1 .. N,
         items' = [items EXCEPT ![t] = Append(items[t], held[t])], held'[t] = 0,
         consumed' = consumed, \A u \in Threads \ {t} : held'[u] = held[u],
         NEW q \in Threads, NEW y \in 1 .. N
  PROVE  /\ Beyond(y, q)' <=> Beyond(y, q)
         /\ Later(y, q)' <=> Later(y, q) \/ (q = t /\ y = held[t])
<1>1. t \in Threads /\ items[t] \in Seq(1 .. N)
  BY Places, Typed
<1>2. ToSet(items'[t]) = ToSet(items[t]) \cup {held[t]}
      /\ \A r \in Queues \ {t} : items'[r] = items[r]
  BY <1>1, Entries DEF TypeInv, TypeOK
<1>3. y # 0 /\ held[t] # 0
  OBVIOUS
<1>4. Beyond(y, q)' <=> Beyond(y, q)
  <2>1. CASE t > q
    BY <1>1, <1>2, <1>3, <2>1 DEF Beyond
  <2>2. CASE ~ t > q
    BY <1>1, <1>2, <1>3, <2>2 DEF Beyond
  <2>. QED BY <2>1, <2>2
<1>. QED BY <1>1, <1>2, <1>4 DEF Later

\* t takes the first tile of queue t - 1
LEMMA PopMoves ==
  ASSUME TypeInv, NEW t \in Threads, t - 1 \in Queues, held[t] = 0, items[t - 1] # <<>>,
         items' = [items EXCEPT ![t - 1] = Tail(items[t - 1])], held'[t] = Head(items[t - 1]),
         consumed' = consumed, \A u \in Threads \ {t} : held'[u] = held[u],
         NEW q \in Threads, NEW y \in 1 .. N
  PROVE  /\ Beyond(y, q)' <=> Beyond(y, q) \/ (q = t - 1 /\ y = Head(items[t - 1]))
         /\ Later(y, q)' <=> Later(y, q)
<1>. DEFINE x == Head(items[t - 1])
            p == t - 1
<1>1. p \in Queues /\ p \in Threads /\ items[p] \in Seq(1 .. N) /\ t > p /\ t \in Nat
  BY Places, Typed
<1>2. /\ ToSet(items[p]) = {x} \cup ToSet(items'[p])
      /\ \A r \in Queues \ {p} : items'[r] = items[r]
  BY <1>1, Entries DEF TypeInv, TypeOK
<1>3. y # 0 /\ held'[t] = x /\ \A r \in Threads : r > p <=> r >= t
  BY <1>1, Places
<1>. HIDE DEF x, p
<1>4. CASE p > q
  <2>1. t > q /\ q # p
    BY <1>1, <1>4, Places
  <2>. QED BY <1>1, <1>2, <1>3, <1>4, <2>1 DEF Beyond, Later, p, x
<1>5. CASE p = q
  <2>1. t > q /\ ~ p > q
    BY <1>1, <1>5, Places
  <2>2. Beyond(y, q)' <=> Beyond(y, q) \/ y = x
    BY <1>1, <1>2, <1>3, <1>5, <2>1 DEF Beyond
  <2>. QED BY <1>1, <1>2, <1>5, <2>2 DEF Later, p, x
<1>6. CASE q > p
  <2>1. ~ t > q /\ ~ p > q /\ q # p
    BY <1>1, <1>6, Places DEF p
  <2>. QED BY <1>1, <1>2, <1>3, <2>1 DEF Beyond, Later, p, x
<1>. QED BY <1>1, <1>4, <1>5, <1>6, Places DEF p

\* t loses the tile in its hand
LEMMA LossMoves ==
  ASSUME TypeInv, NEW t \in Threads, held'[t] = 0, items' = items, consumed' = consumed,
         \A u \in Threads \ {t} : held'[u] = held[u],
         NEW q \in Threads, NEW y \in 1 .. N
  PROVE  /\ Beyond(y, q)' => Beyond(y, q)
         /\ Later(y, q)' => Later(y, q)
         /\ Later(y, q) => Later(y, q)' \/ (y = held[t] /\ t > q)
<1>1. y # 0
  OBVIOUS
<1>. QED BY <1>1 DEF Beyond, Later

\* the consumer gets its tile
LEMMA ConsumeMoves ==
  ASSUME TypeInv, held[Consumer] \in 1 .. N, held'[Consumer] = 0, items' = items,
         consumed' = Append(consumed, held[Consumer]),
         \A u \in Threads \ {Consumer} : held'[u] = held[u],
         NEW q \in Threads, NEW y \in 1 .. N
  PROVE  /\ q # Consumer => (Beyond(y, q)' <=> Beyond(y, q)) /\ (Later(y, q)' <=> Later(y, q))
         /\ Later(y, q) => Later(y, q)'
<1>1. ToSet(consumed') = ToSet(consumed) \cup {held[Consumer]}
  BY Entries DEF TypeInv, TypeOK
<1>2. y # 0 /\ Consumer \in Threads /\ (q # Consumer => Consumer > q)
  BY Places
<1>3. q # Consumer => (Beyond(y, q)' <=> Beyond(y, q))
  BY <1>1, <1>2 DEF Beyond
<1>4. q = Consumer => (Beyond(y, q) => Beyond(y, q)')
  <2>1. ~ Consumer > Consumer
    BY Places
  <2>. QED BY <1>1, <1>2, <2>1 DEF Beyond
<1>. QED BY <1>3, <1>4 DEF Later

\* nothing moves downstream of the producer
LEMMA ProduceMoves ==
  ASSUME items' = items, consumed' = consumed,
         \A u \in Threads \ {Producer} : held'[u] = held[u],
         NEW q \in Threads, NEW y
  PROVE  (Beyond(y, q)' <=> Beyond(y, q)) /\ (Later(y, q)' <=> Later(y, q))
<1>1. \A u \in Threads : u > q => u # Producer
  BY Places
<1>2. Beyond(y, q)' <=> Beyond(y, q)
  BY <1>1 DEF Beyond
<1>. QED BY <1>2 DEF Later

LEMMA OrderInductive == TypeInv /\ OrderInv /\ [Next]_vars => OrderInv'
<1>. SUFFICES ASSUME TypeInv, OrderInv, [Next]_vars PROVE OrderInv'
  OBVIOUS
<1>0. /\ \A q \in Queues : items[q] \in Seq(1 .. N) /\ q \in Threads
      /\ Producer \in Threads /\ items \in [Queues -> Seq(1 .. N)]
  BY Numbers DEF TypeInv, TypeOK
<1>. USE DEF OrderInv
<1>1. CASE UNCHANGED <<items, held, consumed, produced>>
  BY <1>1 DEF HandOrder, QueueOrder, AllProduced, Later, Beyond
<1>2. ASSUME NEW t \in Threads, items' = items, held'[t] = 0, consumed' = consumed,
             produced' = produced, \A u \in Threads \ {t} : held'[u] = held[u]
      PROVE  OrderInv'
  <2>1. \A q \in Threads, y \in 1 .. N : (Beyond(y, q)' => Beyond(y, q)) /\ (Later(y, q)' => Later(y, q))
    BY <1>2, LossMoves
  <2>2. \A u \in Threads : HandOrder(u)'
    BY <1>2, <2>1 DEF HandOrder
  <2>3. \A q \in Queues : QueueOrder(q)'
    BY <1>0, <1>2, <2>1 DEF QueueOrder
  <2>4. AllProduced'
    BY <1>0, <1>2, <2>1 DEF AllProduced
  <2>. QED BY <2>2, <2>3, <2>4
<1>3. ASSUME NEW t \in Threads, t # Consumer, Push(t) PROVE OrderInv'
  <2>1. CASE closed[t] /\ held'[t] = 0 /\ items' = items
    BY <1>2, <1>3, <2>1, PushEffect
  <2>2. CASE UNCHANGED <<items, held>>
    BY <1>1, <1>3, <2>2, PushEffect
  <2>3. CASE held'[t] = 0 /\ items' = [items EXCEPT ![t] = Append(items[t], held[t])]
    <3>1. /\ t \in Queues /\ held[t] \in 1 .. N /\ consumed' = consumed /\ produced' = produced
          /\ \A u \in Threads \ {t} : held'[u] = held[u]
      BY <1>3, PushEffect
    <3>2. \A q \in Threads, y \in 1 .. N :
            /\ Beyond(y, q)' <=> Beyond(y, q)
            /\ Later(y, q)' <=> Later(y, q) \/ (q = t /\ y = held[t])
      BY <2>3, <3>1, PushMoves
    <3>3. \A u \in Threads : HandOrder(u)'
      BY <2>3, <3>1, <3>2 DEF HandOrder
    <3>4. \A q \in Queues \ {t} : QueueOrder(q)'
      <4>1. \A q \in Queues \ {t} : items'[q] = items[q]
        BY <1>0, <2>3
      <4>. QED BY <1>0, <3>2, <4>1 DEF QueueOrder
    <3>5. QueueOrder(t)'
      <4>1. \A y \in 1 .. N : Later(y, t) => y < held[t]
        BY <3>1 DEF HandOrder
      <4>2. /\ items'[t] = Append(items[t], held[t])
            /\ ToSet(items'[t]) = ToSet(items[t]) \cup {held[t]}
            /\ ToSet(items[t]) \subseteq 1 .. N
        BY <1>0, <2>3, <3>1, Entries
      <4>3. \A x \in ToSet(items'[t]), y \in 1 .. N : Beyond(y, t)' => y < x
        BY <3>1, <3>2, <4>1, <4>2 DEF QueueOrder, Later
      <4>4. /\ Len(items'[t]) = Len(items[t]) + 1
            /\ \A n \in 1 .. Len(items[t]) : items'[t][n] = items[t][n]
            /\ items'[t][Len(items[t]) + 1] = held[t] /\ Len(items[t]) \in Nat
        BY <1>0, <3>1, <4>2, AppendProperties
      <4>5. ASSUME NEW m \in 1 .. Len(items[t]) PROVE items[t][m] < held[t]
        <5>1. DOMAIN items[t] = 1 .. Len(items[t])
          BY <1>0, <3>1, LenProperties
        <5>2. items[t][m] \in ToSet(items[t])
          BY <5>1 DEF ToSet
        <5>. QED BY <3>1, <4>1, <4>2, <5>2 DEF Later
      <4>6. ASSUME NEW m \in 1 .. Len(items'[t]), NEW n \in 1 .. Len(items'[t]), m < n
            PROVE  items'[t][m] < items'[t][n]
        <5>1. m \in 1 .. Len(items[t])
          BY <4>4, <4>6
        <5>2. CASE n = Len(items[t]) + 1
          BY <4>4, <4>5, <5>1, <5>2
        <5>3. CASE n # Len(items[t]) + 1
          <6>1. n \in 1 .. Len(items[t])
            BY <4>4, <5>3
          <6>. QED BY <3>1, <4>4, <4>6, <5>1, <6>1 DEF QueueOrder
        <5>. QED BY <5>2, <5>3
      <4>. QED BY <4>3, <4>6 DEF QueueOrder
    <3>6. AllProduced'
      <4>1. CASE t = Producer
        BY <1>0, <2>3, <3>1, <3>2, <4>1 DEF AllProduced
      <4>2. CASE t # Producer
        BY <1>0, <3>1, <3>2, <4>2 DEF AllProduced
      <4>. QED BY <4>1, <4>2
    <3>. QED BY <3>3, <3>4, <3>5, <3>6
  <2>. QED BY <1>3, <2>1, <2>2, <2>3, PushEffect
<1>4. ASSUME NEW t \in Threads, t # Producer, Pop(t) PROVE OrderInv'
  <2>1. CASE UNCHANGED <<items, held>>
    BY <1>1, <1>4, <2>1, PopEffect
  <2>2. CASE /\ items[t - 1] # <<>> /\ held'[t] = Head(items[t - 1])
             /\ items' = [items EXCEPT ![t - 1] = Tail(items[t - 1])]
    <3>. DEFINE p == t - 1
                x == Head(items[p])
    <3>1. /\ p \in Queues /\ held[t] = 0 /\ consumed' = consumed /\ produced' = produced
          /\ items[p] \in Seq(1 .. N) /\ x \in 1 .. N /\ t > p /\ held'[t] = x
          /\ \A u \in Threads \ {t} : held'[u] = held[u]
      <4>1. /\ t - 1 \in Queues /\ held[t] = 0 /\ consumed' = consumed /\ produced' = produced
            /\ items[t - 1] \in Seq(1 .. N) /\ \A u \in Threads \ {t} : held'[u] = held[u]
        BY <1>4, PopEffect
      <4>2. Head(items[t - 1]) \in 1 .. N
        BY <2>2, <4>1, Entries
      <4>3. t > t - 1
        BY Places
      <4>. QED BY <2>2, <4>1, <4>2, <4>3
    <3>2. \A q \in Threads, y \in 1 .. N :
            /\ Beyond(y, q)' <=> Beyond(y, q) \/ (q = p /\ y = x)
            /\ Later(y, q)' <=> Later(y, q)
      BY <2>2, <3>1, PopMoves
    <3>3. x \in ToSet(items[p]) /\ items'[p] = Tail(items[p])
          /\ ToSet(items[p]) = {x} \cup ToSet(items'[p])
          /\ \A q \in Queues \ {p} : items'[q] = items[q]
      BY <1>0, <2>2, <3>1, Entries
    <3>4. \A y \in 1 .. N : Later(y, t) => Beyond(y, p)
      BY <3>1, Places DEF Later, Beyond
    <3>. HIDE DEF p, x
    <3>5. HandOrder(t)'
      <4>1. \A y \in 1 .. N : Beyond(y, p) => y < x
        BY <3>1, <3>3 DEF QueueOrder
      <4>. QED BY <3>1, <3>2, <3>4, <4>1 DEF HandOrder
    <3>6. \A u \in Threads \ {t} : HandOrder(u)'
      BY <3>1, <3>2 DEF HandOrder
    <3>7. \A q \in Queues \ {p} : QueueOrder(q)'
      BY <1>0, <3>2, <3>3 DEF QueueOrder
    <3>8. QueueOrder(p)'
      <4>1. /\ Len(items[p]) \in Nat \ {0} /\ x = items[p][1]
            /\ Len(items'[p]) = Len(items[p]) - 1
            /\ \A n \in 1 .. Len(items'[p]) : items'[p][n] = items[p][n + 1]
            /\ items'[p] \in Seq(1 .. N)
        <5>1. items[p] # <<>>
          BY <2>2 DEF p
        <5>4. Head(items[p]) = items[p][1]
          BY <3>1
        <5>2. /\ Tail(items[p]) \in Seq(1 .. N)
              /\ Len(Tail(items[p])) = Len(items[p]) - 1
              /\ \A n \in 1 .. Len(Tail(items[p])) : Tail(items[p])[n] = items[p][n + 1]
          BY <3>1, <5>1, HeadTailProperties
        <5>3. Len(items[p]) \in Nat \ {0}
          BY <3>1, <5>1, EmptySeq, LenProperties
        <5>. QED BY <3>3, <5>2, <5>3, <5>4 DEF x
      <4>2. \A m, n \in 1 .. Len(items'[p]) : m < n => items'[p][m] < items'[p][n]
        <5>. SUFFICES ASSUME NEW m \in 1 .. Len(items'[p]), NEW n \in 1 .. Len(items'[p]), m < n
                      PROVE  items'[p][m] < items'[p][n]
          OBVIOUS
        <5>1. m + 1 \in 1 .. Len(items[p]) /\ n + 1 \in 1 .. Len(items[p]) /\ m + 1 < n + 1
          BY <4>1
        <5>2. items[p][m + 1] < items[p][n + 1]
          BY <3>1, <5>1 DEF QueueOrder
        <5>. QED BY <4>1, <5>2
      <4>3. ASSUME NEW z \in ToSet(items'[p]) PROVE x < z
        <5>1. PICK n \in 1 .. Len(items'[p]) : z = items'[p][n]
          <6>1. DOMAIN items'[p] = 1 .. Len(items'[p])
            BY <4>1, LenProperties
          <6>. QED BY <6>1 DEF ToSet
        <5>2. z = items[p][n + 1] /\ n + 1 \in 1 .. Len(items[p]) /\ 1 < n + 1
              /\ 1 \in 1 .. Len(items[p])
          BY <4>1, <5>1
        <5>3. items[p][1] < items[p][n + 1]
          BY <3>1, <5>2 DEF QueueOrder
        <5>. QED BY <4>1, <5>2, <5>3
      <4>4. \A z \in ToSet(items'[p]), y \in 1 .. N : Beyond(y, p)' => y < z
        <5>. SUFFICES ASSUME NEW z \in ToSet(items'[p]), NEW y \in 1 .. N, Beyond(y, p)'
                      PROVE  y < z
          OBVIOUS
        <5>1. Beyond(y, p) \/ y = x
          BY <1>0, <3>1, <3>2
        <5>2. CASE y = x
          BY <4>3, <5>2
        <5>3. CASE Beyond(y, p)
          BY <3>1, <3>3, <5>3 DEF QueueOrder
        <5>. QED BY <5>1, <5>2, <5>3
      <4>. QED BY <4>2, <4>4 DEF QueueOrder
    <3>9. AllProduced'
      <4>1. held'[Producer] = held[Producer]
        BY <1>0, <1>4, <3>1
      <4>. QED BY <1>0, <3>1, <3>2, <4>1 DEF AllProduced
    <3>. QED BY <3>5, <3>6, <3>7, <3>8, <3>9
  <2>. QED BY <1>4, <2>1, <2>2, PopEffect
<1>5. ASSUME NEW t \in Threads, LooksAtFlag(t) PROVE OrderInv'
  <2>1. CASE flag
    BY <1>2, <1>5, <2>1, LooksAtFlagEffect
  <2>2. CASE ~ flag
    <3>1. held' = held
      BY <1>5, <2>2 DEF LooksAtFlag
    <3>. QED BY <1>1, <1>5, <3>1, LooksAtFlagEffect
  <2>. QED BY <2>1, <2>2
<1>6. CASE Produce
  <2>1. CASE UNCHANGED <<produced, held>>
    BY <1>1, <1>6, <2>1, ProduceEffect
  <2>2. CASE held'[Producer] = produced + 1 /\ produced' = produced + 1
    <3>1. /\ UNCHANGED <<items, consumed>> /\ produced + 1 \in 1 .. N /\ produced \in 0 .. N
          /\ \A u \in Threads \ {Producer} : held'[u] = held[u]
      <4>1. produced \in 0 .. N
        BY Numbers DEF TypeInv, TypeOK
      <4>2. produced' # produced
        BY <2>2, <4>1
      <4>. QED BY <1>6, <4>1, <4>2, ProduceEffect
    <3>2. \A q \in Threads, y \in 1 .. N :
            (Beyond(y, q)' <=> Beyond(y, q)) /\ (Later(y, q)' <=> Later(y, q))
      BY <3>1, ProduceMoves
    <3>3. \A u \in Threads \ {Producer} : HandOrder(u)'
      BY <3>1, <3>2 DEF HandOrder
    <3>4. HandOrder(Producer)'
      BY <1>0, <2>2, <3>1, <3>2 DEF HandOrder, AllProduced
    <3>5. \A q \in Queues : QueueOrder(q)'
      BY <1>0, <3>1, <3>2 DEF QueueOrder
    <3>6. AllProduced'
      BY <1>0, <2>2, <3>1, <3>2 DEF AllProduced
    <3>. QED BY <3>3, <3>4, <3>5, <3>6
  <2>. QED BY <1>6, <2>1, <2>2, ProduceEffect
<1>7. ASSUME NEW t \in Threads, Process(t) PROVE OrderInv'
  <2>1. CASE held'[t] = 0
    BY <1>2, <1>7, <2>1, ProcessEffect
  <2>2. CASE held' = held
    BY <1>1, <1>7, <2>2, ProcessEffect
  <2>. QED BY <1>7, <2>1, <2>2, ProcessEffect
<1>8. CASE Consume
  <2>1. /\ held[Consumer] \in 1 .. N /\ held'[Consumer] = 0 /\ UNCHANGED <<items, produced>>
        /\ consumed' = Append(consumed, held[Consumer])
        /\ \A u \in Threads \ {Consumer} : held'[u] = held[u]
    BY <1>8, ConsumeEffect
  <2>2. \A q \in Threads \ {Consumer}, y \in 1 .. N :
          (Beyond(y, q)' <=> Beyond(y, q)) /\ (Later(y, q)' <=> Later(y, q))
    BY <2>1, ConsumeMoves
  <2>3. \A u \in Threads : HandOrder(u)'
    BY <2>1, <2>2 DEF HandOrder
  <2>4. \A q \in Queues : QueueOrder(q)'
    BY <1>0, <2>1, <2>2, Places DEF QueueOrder
  <2>5. AllProduced'
    BY <1>0, <2>1, <2>2, Numbers DEF AllProduced
  <2>. QED BY <2>3, <2>4, <2>5
<1>9. ASSUME NEW t \in Threads, Throw(t) PROVE OrderInv'
  BY <1>2, <1>9, ThrowEffect
<1>10. ASSUME NEW t \in Threads, Quiet(t) PROVE OrderInv'
  BY <1>1, <1>10, QuietEffect
<1>11. CASE Join \/ SetCancelFlag \/ UNCHANGED vars
  BY <1>1, <1>11 DEF Join, SetCancelFlag
<1>. QED BY <1>3, <1>4, <1>5, <1>6, <1>7, <1>8, <1>9, <1>10, <1>11, NextCases

(* A thread that has stopped taking tiles does not start again.            *)
LEMMA DeadStays ==
  ASSUME TypeInv, [Next]_vars, NEW u \in Threads, Dead(u)
  PROVE  Dead(u)'
<1>. USE DEF Dead
<1>1. CASE Join \/ SetCancelFlag \/ UNCHANGED vars
  BY <1>1 DEF Join, SetCancelFlag
<1>2. ASSUME NEW t \in Threads, t # Consumer, Push(t) PROVE Dead(u)'
  BY <1>2, PushEffect
<1>3. ASSUME NEW t \in Threads, t # Producer, Pop(t) PROVE Dead(u)'
  BY <1>3, PopEffect
<1>4. ASSUME NEW t \in Threads, LooksAtFlag(t) PROVE Dead(u)'
  BY <1>4, LooksAtFlagEffect
<1>5. CASE Produce
  BY <1>5, ProduceEffect, Numbers
<1>6. ASSUME NEW t \in Threads, Process(t) PROVE Dead(u)'
  BY <1>6, ProcessEffect
<1>7. CASE Consume
  BY <1>7, ConsumeEffect, Numbers
<1>8. ASSUME NEW t \in Threads, Throw(t) PROVE Dead(u)'
  BY <1>8, ThrowEffect
<1>9. ASSUME NEW t \in Threads, Quiet(t) PROVE Dead(u)'
  BY <1>9, QuietEffect
<1>. QED BY <1>1, <1>2, <1>3, <1>4, <1>5, <1>6, <1>7, <1>8, <1>9, NextCases

LEMMA GapInductive == TypeInv /\ OrderInv /\ GapInv /\ [Next]_vars => GapInv'
<1>. SUFFICES ASSUME TypeInv, OrderInv, GapInv, [Next]_vars PROVE GapInv'
  OBVIOUS
<1>0. /\ \A q \in Queues : items[q] \in Seq(1 .. N) /\ q \in Threads /\ ToSet(items[q]) \subseteq 1 .. N
      /\ Producer \in Threads /\ produced \in 0 .. N /\ N \in Nat
      /\ items \in [Queues -> Seq(1 .. N)] /\ held \in [Threads -> 0 .. N]
  BY Numbers, Typed, Entries DEF TypeInv, TypeOK
<1>b. /\ \A q : DeadBelow(q) => DeadBelow(q)'
      /\ (\E u \in Threads : Dead(u)) => (\E u \in Threads : Dead(u))'
  BY DeadStays DEF DeadBelow
\* nothing that was ahead is lost
<1>1. ASSUME UNCHANGED <<items, held, produced>>, dropped \subseteq dropped',
             \A q \in Threads, y \in 1 .. N : Later(y, q) => Later(y, q)'
      PROVE  GapInv'
  <2>1. \A x \in 0 .. N, q \in Threads : Ahead(x, q) => Ahead(x, q)'
    BY <1>0, <1>1 DEF Ahead
  <2>2. NoneLost => NoneLost'
    BY <1>0, <1>1 DEF NoneLost
  <2>. QED BY <1>0, <1>b, <1>1, <2>1, <2>2 DEF GapInv
<1>2. CASE UNCHANGED <<items, held, consumed, dropped, produced>>
  BY <1>1, <1>2 DEF Later, Beyond
\* thread t loses the tile in its hand, and takes none any more
<1>3. ASSUME NEW t \in Threads, UNCHANGED <<items, consumed, dropped, produced>>, held'[t] = 0,
             Dead(t)', \A u \in Threads \ {t} : held'[u] = held[u]
      PROVE  GapInv'
  <2>1. ASSUME NEW q \in Threads, ~ DeadBelow(q)', NEW x \in 0 .. N, Ahead(x, q)
        PROVE  Ahead(x, q)'
    <3>1. ~ t > q
      BY <1>3, <2>1 DEF DeadBelow
    <3>2. \A y \in 1 .. N : Later(y, q) => Later(y, q)'
      BY <1>3, <3>1, LossMoves
    <3>. QED BY <1>0, <1>3, <2>1, <3>2 DEF Ahead
  <2>2. (\E u \in Threads : Dead(u))'
    BY <1>3
  <2>3. \A q \in Queues : (DeadBelow(q) \/ \A x \in ToSet(items[q]) : Ahead(x, q))'
    BY <1>0, <1>b, <1>3, <2>1 DEF GapInv
  <2>4. \A u \in Threads : (held[u] # 0 => DeadBelow(u) \/ Ahead(held[u], u))'
    BY <1>0, <1>b, <1>3, <2>1 DEF GapInv
  <2>. QED BY <2>2, <2>3, <2>4 DEF GapInv
<1>4. ASSUME NEW t \in Threads, t # Consumer, Push(t) PROVE GapInv'
  <2>1. CASE closed[t] /\ held'[t] = 0 /\ items' = items /\ pc'[t] = "done"
    BY <1>3, <1>4, <2>1, PushEffect DEF Dead
  <2>2. CASE UNCHANGED <<items, held>>
    BY <1>2, <1>4, <2>2, PushEffect
  <2>3. CASE held'[t] = 0 /\ items' = [items EXCEPT ![t] = Append(items[t], held[t])]
    <3>1. /\ t \in Queues /\ held[t] \in 1 .. N
          /\ consumed' = consumed /\ produced' = produced /\ dropped' = dropped
          /\ \A u \in Threads \ {t} : held'[u] = held[u]
      BY <1>4, PushEffect
    <3>2. \A q \in Threads, y \in 1 .. N :
            Later(y, q)' <=> Later(y, q) \/ (q = t /\ y = held[t])
      BY <2>3, <3>1, PushMoves
    <3>3. \A x \in 0 .. N, q \in Threads : Ahead(x, q) => Ahead(x, q)'
      BY <1>0, <3>1, <3>2 DEF Ahead
    <3>4. /\ ToSet(items'[t]) = ToSet(items[t]) \cup {held[t]}
          /\ \A q \in Queues \ {t} : items'[q] = items[q]
      BY <1>0, <2>3, <3>1, Entries
    <3>5. \A q \in Queues : (DeadBelow(q) \/ \A x \in ToSet(items[q]) : Ahead(x, q))'
      <4>1. \A q \in Queues \ {t} : (DeadBelow(q) \/ \A x \in ToSet(items[q]) : Ahead(x, q))'
        BY <1>0, <1>b, <3>3, <3>4 DEF GapInv
      <4>2. DeadBelow(t) \/ (Ahead(held[t], t) /\ \A x \in ToSet(items[t]) : Ahead(x, t))
        BY <3>1 DEF GapInv
      <4>3. (DeadBelow(t) \/ \A x \in ToSet(items[t]) : Ahead(x, t))'
        BY <1>0, <1>b, <3>1, <3>3, <3>4, <4>2
      <4>. QED BY <4>1, <4>3
    <3>6. \A u \in Threads : (held[u] # 0 => DeadBelow(u) \/ Ahead(held[u], u))'
      BY <1>0, <1>b, <2>3, <3>1, <3>3 DEF GapInv
    <3>7. NoneLost => NoneLost'
      <4>1. CASE t = Producer
        BY <1>0, <3>1, <3>2, <4>1 DEF NoneLost
      <4>2. CASE t # Producer
        BY <1>0, <3>1, <3>2, <4>2 DEF NoneLost
      <4>. QED BY <4>1, <4>2
    <3>. QED BY <1>b, <3>5, <3>6, <3>7 DEF GapInv
  <2>. QED BY <1>4, <2>1, <2>2, <2>3, PushEffect
<1>5. ASSUME NEW t \in Threads, t # Producer, Pop(t) PROVE GapInv'
  <2>1. CASE UNCHANGED <<items, held>>
    BY <1>2, <1>5, <2>1, PopEffect
  <2>2. CASE /\ items[t - 1] # <<>> /\ held'[t] = Head(items[t - 1])
             /\ items' = [items EXCEPT ![t - 1] = Tail(items[t - 1])]
    <3>. DEFINE p == t - 1
                x == Head(items[p])
    <3>1. /\ p \in Queues /\ held[t] = 0 /\ pc[t] = "pop"
          /\ consumed' = consumed /\ produced' = produced /\ dropped' = dropped
          /\ items[p] \in Seq(1 .. N) /\ held'[t] = x
          /\ \A u \in Threads \ {t} : held'[u] = held[u]
      BY <1>5, <2>2, PopEffect
    <3>2. \A q \in Threads, y \in 1 .. N : Later(y, q)' <=> Later(y, q)
      BY <2>2, <3>1, PopMoves
    <3>3. x \in ToSet(items[p]) /\ items'[p] = Tail(items[p]) /\ x \in 1 .. N
          /\ ToSet(items[p]) = {x} \cup ToSet(items'[p])
          /\ \A q \in Queues \ {p} : items'[q] = items[q]
      BY <1>0, <2>2, <3>1, Entries
    <3>4. \A y \in 1 .. N : Beyond(y, p) => Later(y, t)
      <4>1. \A u \in Threads : u > p => u = t \/ u > t
        BY Places DEF p
      <4>. QED BY <3>1, <4>1, Places DEF Later, Beyond
    <3>5. \A z \in ToSet(items[p]) : x <= z
      <4>1. items[p] # <<>> /\ Len(items[p]) \in Nat /\ x = items[p][1]
            /\ DOMAIN items[p] = 1 .. Len(items[p])
        BY <2>2, <3>1, LenProperties
      <4>2. ASSUME NEW n \in 1 .. Len(items[p]) PROVE x <= items[p][n]
        <5>1. CASE n = 1
          BY <3>3, <4>1, <5>1
        <5>2. CASE n # 1
          <6>1. 1 \in 1 .. Len(items[p]) /\ 1 < n
            BY <4>1, <5>2
          <6>2. items[p][1] < items[p][n]
            BY <3>1, <6>1 DEF OrderInv, QueueOrder
          <6>3. items[p][n] \in 1 .. N
            BY <3>1, ElementOfSeq
          <6>. QED BY <3>3, <4>1, <6>2, <6>3
        <5>. QED BY <5>1, <5>2
      <4>. QED BY <4>1, <4>2 DEF ToSet
    <3>6. DeadBelow(p) => DeadBelow(t)
      <4>1. \A u \in Threads : u > p => u = t \/ u > t
        BY Places DEF p
      <4>. QED BY <3>1, <4>1 DEF DeadBelow, Dead
    <3>. HIDE DEF p, x
    <3>7. \A z \in 0 .. N, q \in Threads : Ahead(z, q) => Ahead(z, q)'
      BY <1>0, <3>1, <3>2 DEF Ahead
    <3>8. ASSUME NEW q \in Queues
          PROVE  (DeadBelow(q) \/ \A z \in ToSet(items[q]) : Ahead(z, q))'
      <4>1. ToSet(items'[q]) \subseteq ToSet(items[q])
        BY <3>3
      <4>2. DeadBelow(q) \/ \A z \in ToSet(items[q]) : z \in 0 .. N /\ Ahead(z, q)
        BY <1>0 DEF GapInv
      <4>. QED BY <1>0, <1>b, <3>7, <4>1, <4>2
    <3>9. (DeadBelow(t) \/ Ahead(held[t], t))'
      <4>1. CASE DeadBelow(p)
        BY <1>b, <3>6, <4>1
      <4>2. CASE Ahead(x, p)
        <5>1. ASSUME NEW y \in 1 .. x - 1 PROVE y \in dropped \/ Later(y, t)
          <6>1. y \in 1 .. N /\ y < x
            BY <1>0, <3>3
          <6>2. y \notin ToSet(items[p])
            <7>1. y \in Int /\ x \in Int /\ ~ (x <= y)
              BY <1>0, <3>3, <6>1
            <7>. QED BY <3>5, <7>1
          <6>. QED BY <3>4, <4>2, <6>1, <6>2 DEF Ahead, Later
        <5>2. Ahead(x, t)
          BY <5>1 DEF Ahead
        <5>. QED BY <3>1, <3>3, <3>7, <5>2
      <4>. QED BY <3>1, <3>3, <4>1, <4>2 DEF GapInv
    <3>10. \A u \in Threads \ {t} : (held[u] # 0 => DeadBelow(u) \/ Ahead(held[u], u))'
      BY <1>0, <1>b, <3>1, <3>7 DEF GapInv
    <3>11. NoneLost => NoneLost'
      BY <1>0, <1>5, <3>1, <3>2 DEF NoneLost
    <3>. QED BY <1>b, <3>8, <3>9, <3>10, <3>11 DEF GapInv
  <2>. QED BY <1>5, <2>1, <2>2, PopEffect
<1>6. ASSUME NEW t \in Threads, LooksAtFlag(t) PROVE GapInv'
  <2>1. CASE flag
    <3>1. Dead(t)'
      BY <1>6, <2>1, LooksAtFlagEffect DEF Dead
    <3>. QED BY <1>3, <1>6, <2>1, <3>1, LooksAtFlagEffect
  <2>2. CASE ~ flag
    <3>1. held' = held
      BY <1>6, <2>2 DEF LooksAtFlag
    <3>. QED BY <1>2, <1>6, <3>1, LooksAtFlagEffect
  <2>. QED BY <2>1, <2>2
<1>7. CASE Produce
  <2>1. CASE UNCHANGED <<produced, held>>
    BY <1>2, <1>7, <2>1, ProduceEffect
  <2>2. CASE held'[Producer] = produced + 1 /\ produced' = produced + 1
    <3>1. /\ UNCHANGED <<items, consumed, dropped>>
          /\ held[Producer] = 0 /\ pc[Producer] = "call"
          /\ \A u \in Threads \ {Producer} : held'[u] = held[u]
      BY <1>7, ProduceEffect
    <3>0. produced + 1 \in 1 .. N
      <4>1. produced' # produced
        BY <1>0, <2>2
      <4>. QED BY <1>7, <4>1, ProduceEffect
    <3>2. \A q \in Threads, y \in 1 .. N : Later(y, q)' <=> Later(y, q)
      BY <3>1, ProduceMoves
    <3>3. \A x \in 0 .. N, q \in Threads : Ahead(x, q) => Ahead(x, q)'
      BY <1>0, <3>1, <3>2 DEF Ahead
    <3>4. (\E u \in Threads : Dead(u)) => DeadBelow(Producer)
      BY <3>1, Places DEF DeadBelow, Dead
    <3>5. NoneLost => Ahead(produced + 1, Producer)
      BY <1>0, <3>1 DEF NoneLost, Ahead
    <3>6. NoneLost => NoneLost'
      BY <1>0, <2>2, <3>0, <3>1, <3>2 DEF NoneLost
    <3>7. (DeadBelow(Producer) \/ Ahead(held[Producer], Producer))'
      BY <1>0, <1>b, <2>2, <3>0, <3>3, <3>4, <3>5 DEF GapInv
    <3>8. \A u \in Threads \ {Producer} : (held[u] # 0 => DeadBelow(u) \/ Ahead(held[u], u))'
      BY <1>0, <1>b, <3>1, <3>3 DEF GapInv
    <3>9. \A q \in Queues : (DeadBelow(q) \/ \A x \in ToSet(items[q]) : Ahead(x, q))'
      BY <1>0, <1>b, <3>1, <3>3 DEF GapInv
    <3>. QED BY <1>b, <3>6, <3>7, <3>8, <3>9 DEF GapInv
  <2>. QED BY <1>7, <2>1, <2>2, ProduceEffect
<1>8. ASSUME NEW t \in Threads, Process(t) PROVE GapInv'
  <2>1. CASE held' = held /\ dropped' = dropped
    BY <1>2, <1>8, <2>1, ProcessEffect
  <2>2. CASE held'[t] = 0 /\ dropped' = dropped \cup {held[t]}
    <3>1. UNCHANGED <<items, consumed, produced>> /\ t # Producer
          /\ \A u \in Threads \ {t} : held'[u] = held[u]
      BY <1>8, ProcessEffect
    <3>2. \A q \in Threads, y \in 1 .. N : y \in dropped \/ Later(y, q) => y \in dropped' \/ Later(y, q)'
      BY <2>2, <3>1, LossMoves
    <3>3. \A x \in 0 .. N, q \in Threads : Ahead(x, q) => Ahead(x, q)'
      BY <1>0, <3>2 DEF Ahead
    <3>4. NoneLost => NoneLost'
      BY <1>0, <3>1, <3>2 DEF NoneLost
    <3>5. \A u \in Threads : (held[u] # 0 => DeadBelow(u) \/ Ahead(held[u], u))'
      BY <1>0, <1>b, <2>2, <3>1, <3>3 DEF GapInv
    <3>6. \A q \in Queues : (DeadBelow(q) \/ \A x \in ToSet(items[q]) : Ahead(x, q))'
      BY <1>0, <1>b, <3>1, <3>3 DEF GapInv
    <3>. QED BY <1>b, <3>4, <3>5, <3>6 DEF GapInv
  <2>. QED BY <1>8, <2>1, <2>2, ProcessEffect
<1>9. CASE Consume
  <2>1. /\ held[Consumer] \in 1 .. N /\ held'[Consumer] = 0 /\ UNCHANGED <<items, produced, dropped>>
        /\ consumed' = Append(consumed, held[Consumer])
        /\ \A u \in Threads \ {Consumer} : held'[u] = held[u]
    BY <1>9, ConsumeEffect
  <2>2. \A q \in Threads, y \in 1 .. N : Later(y, q) => Later(y, q)'
    BY <2>1, ConsumeMoves
  <2>3. \A x \in 0 .. N, q \in Threads : Ahead(x, q) => Ahead(x, q)'
    BY <1>0, <2>1, <2>2 DEF Ahead
  <2>4. NoneLost => NoneLost'
    <3>1. Producer \in Threads /\ Producer # Consumer
      BY Numbers
    <3>2. \A y \in 1 .. produced : y \in 1 .. N
      BY <1>0
    <3>3. held'[Producer] = held[Producer]
      BY <2>1, <3>1
    <3>. QED BY <2>1, <2>2, <3>1, <3>2, <3>3 DEF NoneLost
  <2>5. \A u \in Threads : (held[u] # 0 => DeadBelow(u) \/ Ahead(held[u], u))'
    BY <1>0, <1>b, <2>1, <2>3 DEF GapInv
  <2>6. \A q \in Queues : (DeadBelow(q) \/ \A x \in ToSet(items[q]) : Ahead(x, q))'
    BY <1>0, <1>b, <2>1, <2>3 DEF GapInv
  <2>. QED BY <1>b, <2>4, <2>5, <2>6 DEF GapInv
<1>10. ASSUME NEW t \in Threads, Throw(t) PROVE GapInv'
  BY <1>3, <1>10, ThrowEffect DEF Dead
<1>11. CASE Join \/ SetCancelFlag \/ UNCHANGED vars \/ \E t \in Threads : Quiet(t)
  BY <1>2, <1>11, QuietEffect DEF Join, SetCancelFlag
<1>. QED BY <1>4, <1>5, <1>6, <1>7, <1>8, <1>9, <1>10, <1>11, NextCases

-----------------------------------------------------------------------------
(* What the consumer gets.                                                 *)

LEMMA NothingAtFirst == Init => OrderInv /\ GapInv
<1>. SUFFICES ASSUME Init PROVE OrderInv /\ GapInv
  OBVIOUS
<1>1. /\ \A q \in Queues : items[q] = <<>> /\ ToSet(items[q]) = {} /\ Len(items[q]) = 0
      /\ \A t \in Threads : held[t] = 0
      /\ consumed = <<>> /\ ToSet(consumed) = {} /\ produced = 0
  BY DEF Init, ToSet
<1>2. \A y \in 1 .. N : \A q : ~ Beyond(y, q) /\ ~ Later(y, q)
  BY <1>1 DEF Beyond, Later
<1>3. OrderInv
  <2>1. \A t \in Threads : HandOrder(t)
    BY <1>1 DEF HandOrder
  <2>2. \A q \in Queues : QueueOrder(q)
    <3>1. 1 .. 0 = {}
      OBVIOUS
    <3>. QED BY <1>1, <3>1 DEF QueueOrder
  <2>3. AllProduced
    <3>1. Producer \in Threads /\ 0 \notin 1 .. N
      BY Numbers
    <3>. QED BY <1>1, <1>2, <3>1 DEF AllProduced
  <2>. QED BY <2>1, <2>2, <2>3 DEF OrderInv
<1>4. GapInv
  BY <1>1 DEF GapInv, NoneLost
<1>. QED BY <1>3, <1>4

LEMMA PrefixFacts ==
  ASSUME NEW s \in Seq(1 .. N), NEW k \in 0 .. Len(s)
  PROVE  /\ k = Len(s) => SubSeq(s, 1, k) = s
         /\ \A e \in 1 .. N : SubSeq(Append(s, e), 1, k) = SubSeq(s, 1, k)
<1>. DEFINE p == SubSeq(s, 1, k)
<1>1. Len(s) \in Nat /\ k \in Nat /\ k <= Len(s)
  BY LenProperties
<1>2. p \in Seq(1 .. N) /\ Len(p) = k /\ \A n \in 1 .. k : p[n] = s[n]
  <2>1. \A n \in 1 .. k : s[n] \in 1 .. N
    <3>1. \A n \in 1 .. k : n \in 1 .. Len(s)
      BY <1>1
    <3>. QED BY <3>1, ElementOfSeq
  <2>2. 1 \in Int /\ k \in Int /\ k - 1 + 1 = k /\ (k < 1 => k = 0)
        /\ \A n \in 1 .. k : 1 + n - 1 = n
    BY <1>1
  <2>3. /\ p \in Seq(1 .. N) /\ Len(p) = IF 1 <= k THEN k - 1 + 1 ELSE 0
        /\ \A n \in 1 .. k - 1 + 1 : p[n] = s[1 + n - 1]
    BY <2>1, <2>2, SubSeqProperties
  <2>. QED BY <1>1, <2>2, <2>3
<1>3. k = Len(s) => p = s
  BY <1>1, <1>2, SeqEqual
<1>4. ASSUME NEW e \in 1 .. N PROVE SubSeq(Append(s, e), 1, k) = p
  <2>. DEFINE r == Append(s, e)
              o == SubSeq(r, 1, k)
  <2>1. r \in Seq(1 .. N) /\ Len(r) = Len(s) + 1 /\ \A n \in 1 .. Len(s) : r[n] = s[n]
    BY AppendProperties
  <2>. HIDE DEF r
  <2>2. o \in Seq(1 .. N) /\ Len(o) = k /\ \A n \in 1 .. k : o[n] = r[n]
    <3>1. \A n \in 1 .. k : r[n] \in 1 .. N
      <4>1. \A n \in 1 .. k : n \in 1 .. Len(r)
        BY <1>1, <2>1
      <4>. QED BY <2>1, <4>1, ElementOfSeq
    <3>2. 1 \in Int /\ k \in Int /\ k - 1 + 1 = k /\ (k < 1 => k = 0)
          /\ \A n \in 1 .. k : 1 + n - 1 = n
      BY <1>1
    <3>3. /\ o \in Seq(1 .. N) /\ Len(o) = IF 1 <= k THEN k - 1 + 1 ELSE 0
          /\ \A n \in 1 .. k - 1 + 1 : o[n] = r[1 + n - 1]
      BY <3>1, <3>2, SubSeqProperties
    <3>. QED BY <1>1, <3>2, <3>3
  <2>3. \A n \in 1 .. k : o[n] = p[n]
    BY <1>1, <1>2, <2>1, <2>2
  <2>. HIDE DEF o, p
  <2>4. o = p
    BY <1>2, <2>2, <2>3, SeqEqual
  <2>. QED BY <2>4 DEF o, p, r
<1>. QED BY <1>3, <1>4

InOrder(n) ==
  LET before == ToSet(SubSeq(consumed, 1, n - 1))
  IN consumed[n] \notin before /\ 1 .. consumed[n] - 1 \subseteq dropped \cup before

LEMMA ConsumedInductive ==
  TypeInv /\ OrderInv /\ GapInv /\ ConsumedInOrder /\ [Next]_vars => ConsumedInOrder'
<1>. SUFFICES ASSUME TypeInv, OrderInv, GapInv, ConsumedInOrder, [Next]_vars PROVE ConsumedInOrder'
  OBVIOUS
<1>0. consumed \in Seq(1 .. N) /\ Len(consumed) \in Nat /\ \A n \in 1 .. Len(consumed) : InOrder(n)
  BY LenProperties DEF TypeInv, TypeOK, ConsumedInOrder, InOrder
<1>1. CASE consumed' = consumed /\ dropped \subseteq dropped'
  BY <1>1 DEF ConsumedInOrder
<1>2. CASE Consume
  <2>. DEFINE x == held[Consumer]
  <2>1. x \in 1 .. N /\ consumed' = Append(consumed, x) /\ dropped' = dropped
        /\ pc[Consumer] = "call" /\ N \in Nat
    BY <1>2, ConsumeEffect, Numbers
  <2>. HIDE DEF x
  <2>2. /\ Len(consumed') = Len(consumed) + 1
        /\ \A n \in 1 .. Len(consumed) : consumed'[n] = consumed[n]
        /\ consumed'[Len(consumed) + 1] = x
    BY <1>0, <2>1, AppendProperties
  <2>3. \A y \in 1 .. N : Later(y, Consumer) <=> y \in ToSet(consumed)
    <3>1. \A u \in Threads : ~ u > Consumer
      BY Places
    <3>2. Consumer \notin Queues /\ Queues \subseteq Threads
      BY Places
    <3>. QED BY <3>1, <3>2 DEF Later, Beyond
  <2>4. x \notin ToSet(consumed)
    <3>1. Later(x, Consumer) => x < x
      BY <2>1, Places DEF OrderInv, HandOrder, x
    <3>2. ~ x < x
      BY <2>1
    <3>. QED BY <2>1, <2>3, <3>1, <3>2
  <2>5. 1 .. x - 1 \subseteq dropped \cup ToSet(consumed)
    <3>1. ~ DeadBelow(Consumer)
      BY Places DEF DeadBelow
    <3>2. Ahead(x, Consumer)
      <4>1. x # 0 /\ Consumer \in Threads
        BY <2>1, Places
      <4>. QED BY <3>1, <4>1 DEF GapInv, x
    <3>3. 1 .. x - 1 \subseteq 1 .. N
      BY <2>1
    <3>. QED BY <2>3, <3>2, <3>3 DEF Ahead
  <2>6. ASSUME NEW n \in 1 .. Len(consumed') PROVE InOrder(n)'
    <3>1. CASE n = Len(consumed) + 1
      <4>1. n - 1 = Len(consumed) /\ Len(consumed) \in 0 .. Len(consumed)
        BY <1>0, <3>1
      <4>2. SubSeq(consumed', 1, n - 1) = consumed
        <5>1. SubSeq(consumed', 1, Len(consumed)) = SubSeq(consumed, 1, Len(consumed))
              /\ SubSeq(consumed, 1, Len(consumed)) = consumed
          BY <1>0, <2>1, <4>1, PrefixFacts
        <5>. QED BY <4>1, <5>1
      <4>3. consumed'[n] = x
        BY <2>2, <3>1
      <4>. QED BY <2>1, <2>4, <2>5, <4>2, <4>3 DEF InOrder
    <3>2. CASE n # Len(consumed) + 1
      <4>1. n \in 1 .. Len(consumed) /\ n - 1 \in 0 .. Len(consumed)
        BY <1>0, <2>2, <3>2
      <4>2. SubSeq(consumed', 1, n - 1) = SubSeq(consumed, 1, n - 1)
        <5>1. PICK k \in 0 .. Len(consumed) : k = n - 1
          BY <4>1
        <5>2. SubSeq(consumed', 1, k) = SubSeq(consumed, 1, k)
          BY <1>0, <2>1, PrefixFacts
        <5>. QED BY <2>1, <5>1, <5>2
      <4>3. consumed'[n] = consumed[n] /\ InOrder(n)
        BY <1>0, <2>2, <4>1
      <4>. QED BY <2>1, <4>2, <4>3 DEF InOrder
    <3>. QED BY <3>1, <3>2
  <2>. QED BY <2>6 DEF ConsumedInOrder, InOrder
<1>3. CASE \/ Join \/ SetCancelFlag \/ UNCHANGED vars \/ Produce
           \/ \E t \in Threads : \/ t # Consumer /\ Push(t)
                                 \/ t # Producer /\ Pop(t)
                                 \/ LooksAtFlag(t) \/ Process(t) \/ Throw(t) \/ Quiet(t)
  <2>1. CASE Join \/ SetCancelFlag \/ UNCHANGED vars \/ Produce
    BY <1>1, <2>1 DEF Join, SetCancelFlag, Produce
  <2>2. ASSUME NEW t \in Threads,
               \/ t # Consumer /\ Push(t)
               \/ t # Producer /\ Pop(t)
               \/ LooksAtFlag(t) \/ Process(t) \/ Throw(t) \/ Quiet(t)
        PROVE  consumed' = consumed /\ dropped \subseteq dropped'
    <3>1. ASSUME Quiet(t) PROVE UNCHANGED <<consumed, dropped>>
      BY <3>1, QuietEffect
    <3>. QED BY <2>2, <3>1 DEF Push, Pop, LooksAtFlag, Process, Throw
  <2>. QED BY <1>1, <1>3, <2>1, <2>2
<1>. QED BY <1>2, <1>3, NextCases

(* The consumer gets the tiles in order, each once and without a gap, for  *)
(* any number of stages and tiles and whatever fails on the way.           *)
THEOREM TilesKeepTheirOrder == Spec => []ConsumedInOrder
<1>1. Init => ConsumedInOrder
  BY DEF Init, ConsumedInOrder
<1>. QED BY <1>1, NothingAtFirst, OrderInductive, GapInductive, ConsumedInductive,
            TypeInvariant, PTL DEF Spec

-----------------------------------------------------------------------------
(* A run that nothing has disturbed.                                       *)

LEMMA CleanSteps ==
  ASSUME TypeInv, CancelHasAReason, [Next]_vars
  PROVE  CancelHasAReason' /\ (Clean' => Clean)
<1>. USE DEF CancelHasAReason, Clean
<1>0. /\ flag \in BOOLEAN /\ Producer \in Threads /\ Consumer \in Threads
      /\ \A t \in Threads : pc[t] \in Pcs
  BY Numbers DEF TypeInv, TypeOK, Pcs, Busy
<1>1. CASE Join \/ SetCancelFlag \/ UNCHANGED vars
  BY <1>1 DEF Join, SetCancelFlag
<1>2. ASSUME NEW t \in Threads, t # Consumer, Push(t)
      PROVE  CancelHasAReason' /\ (Clean' => Clean)
  BY <1>2, PushEffect
<1>3. ASSUME NEW t \in Threads, t # Producer, Pop(t)
      PROVE  CancelHasAReason' /\ (Clean' => Clean)
  <2>1. /\ pc[t] = "pop" /\ UNCHANGED <<flag, firstError>>
        /\ pc'[t] \in {"popped", "done", "close", "pop"}
        /\ \A u \in Threads \ {t} : pc'[u] = pc[u]
    BY <1>3, PopEffect
  <2>. QED BY <2>1
<1>4. ASSUME NEW t \in Threads, LooksAtFlag(t)
      PROVE  CancelHasAReason' /\ (Clean' => Clean)
  BY <1>0, <1>4, LooksAtFlagEffect
<1>5. CASE Produce
  BY <1>0, <1>5, ProduceEffect
<1>6. ASSUME NEW t \in Threads, Process(t)
      PROVE  CancelHasAReason' /\ (Clean' => Clean)
  BY <1>6, ProcessEffect
<1>7. CASE Consume
  BY <1>0, <1>7, ConsumeEffect
<1>8. ASSUME NEW t \in Threads, Throw(t)
      PROVE  CancelHasAReason' /\ (Clean' => Clean)
  BY <1>8, ThrowEffect
<1>9. ASSUME NEW t \in Threads, Quiet(t)
      PROVE  CancelHasAReason' /\ (Clean' => Clean)
  BY <1>9, QuietEffect
<1>. QED BY <1>1, <1>2, <1>3, <1>4, <1>5, <1>6, <1>7, <1>8, <1>9, NextCases

LEMMA EndsInductive ==
  ASSUME TypeInv, Clean, Clean', EndsAreClean, [Next]_vars
  PROVE  EndsAreClean'
<1>. USE DEF EndsAreClean, Over
<1>0. /\ flag \in BOOLEAN /\ ~ flag /\ N \in Nat /\ produced \in 0 .. N
      /\ closed \in [Queues -> BOOLEAN] /\ items \in [Queues -> Seq(1 .. N)]
      /\ pc \in [Threads -> Pcs]
  <2>1. pc \in [Threads -> Pcs]
    BY DEF TypeInv, TypeOK, Pcs, Busy
  <2>. QED BY <2>1, Numbers DEF TypeInv, TypeOK, Clean
<1>a. /\ Producer \in Threads /\ Consumer \in Threads /\ Consumer \notin Queues
      /\ Producer # Consumer
      /\ \A q \in Queues : q \in Threads /\ q + 1 \in Threads /\ q \in Nat /\ q + 1 # Producer
      /\ \A t \in Threads : t \in Nat /\ (t # Consumer => t \in Queues)
  BY Numbers, Places
<1>1. CASE Join \/ SetCancelFlag \/ UNCHANGED vars
  BY <1>1 DEF Join, SetCancelFlag
<1>2. ASSUME NEW t \in Threads, t # Consumer, Push(t) PROVE EndsAreClean'
  <2>1. ~ closed[t] /\ pc[t] = "push" /\ t \in Queues
    BY <1>2, PushEffect
  <2>2. CASE UNCHANGED <<items, pc>>
    BY <1>2, <2>2, PushEffect
  <2>3. CASE pc'[t] = "pushed" /\ items' = [items EXCEPT ![t] = Append(items[t], held[t])]
    <3>1. closed' = closed /\ produced' = produced /\ \A u \in Threads \ {t} : pc'[u] = pc[u]
      BY <1>2, PushEffect
    <3>2. ~ Over(t + 1)
      BY <2>1
    <3>3. \A q \in Queues : Over(q + 1)' => Over(q + 1) /\ q # t
      BY <1>a, <2>3, <3>1, <3>2
    <3>. QED BY <1>0, <1>a, <2>1, <2>3, <3>1, <3>3
  <2>. QED BY <1>2, <2>1, <2>2, <2>3, PushEffect
<1>3. ASSUME NEW t \in Threads, t # Producer, Pop(t) PROVE EndsAreClean'
  <2>. DEFINE p == t - 1
  <2>1. /\ p \in Queues /\ pc[t] = "pop" /\ closed' = closed /\ produced' = produced
        /\ \A u \in Threads \ {t} : pc'[u] = pc[u]
        /\ t = p + 1 /\ \A q \in Queues : q + 1 = t => q = p
    BY <1>3, <1>a, PopEffect
  <2>2. CASE UNCHANGED <<items, pc>>
    BY <2>1, <2>2
  <2>3. CASE pc'[t] = "popped" /\ items' = [items EXCEPT ![p] = Tail(items[p])]
    <3>1. \A q \in Queues : Over(q + 1)' => Over(q + 1) /\ q # p
      BY <1>a, <2>1, <2>3
    <3>. QED BY <1>0, <1>a, <2>1, <2>3, <3>1
  <2>4. CASE /\ items[p] = <<>> /\ closed[p] /\ items' = items
             /\ pc'[t] = (IF t = Consumer THEN "done" ELSE "close")
    <3>1. \A q \in Queues : pc'[q] \in {"closed", "done"} <=> pc[q] \in {"closed", "done"}
      BY <1>a, <2>1, <2>4
    <3>2. \A q \in Queues : Over(q + 1)' => Over(q + 1) \/ q = p
      BY <1>a, <2>1
    <3>3. Over(Producer)' => Over(Producer)
      BY <1>3, <1>a, <2>1
    <3>. QED BY <2>1, <2>4, <3>1, <3>2, <3>3
  <2>. QED BY <1>3, <2>2, <2>3, <2>4, PopEffect
\* the steps between a pop or a push and the next one
<1>4. ASSUME NEW t \in Threads, UNCHANGED <<items, closed, produced>>, ~ Over(t)', ~ Over(t),
             \A u \in Threads \ {t} : pc'[u] = pc[u]
      PROVE  EndsAreClean'
  <2>1. \A u \in Threads : Over(u)' <=> Over(u)
    BY <1>4
  <2>2. \A q \in Queues : pc'[q] \in {"closed", "done"} <=> pc[q] \in {"closed", "done"}
    BY <1>4, <1>a
  <2>. QED BY <1>4, <1>a, <2>1, <2>2
<1>5. ASSUME NEW t \in Threads, LooksAtFlag(t) PROVE EndsAreClean'
  BY <1>0, <1>4, <1>5, LooksAtFlagEffect
<1>6. CASE Produce
  <2>1. CASE pc'[Producer] = "push" /\ produced' = produced + 1
    BY <1>6, <1>a, <2>1, ProduceEffect
  <2>2. CASE pc'[Producer] = "close" /\ produced = N /\ produced' = produced
    BY <1>6, <1>a, <2>2, ProduceEffect
  <2>. QED BY <1>6, <2>1, <2>2, ProduceEffect
<1>7. ASSUME NEW t \in Threads, Process(t) PROVE EndsAreClean'
  BY <1>4, <1>7, ProcessEffect
<1>8. CASE Consume
  BY <1>4, <1>8, <1>a, ConsumeEffect
<1>9. ASSUME NEW t \in Threads, Throw(t) PROVE EndsAreClean'
  BY <1>4, <1>9, ThrowEffect
<1>10. ASSUME NEW t \in Threads, Quiet(t) PROVE EndsAreClean'
  <2>1. /\ \A u \in Threads \ {t} : pc'[u] = pc[u]
        /\ UNCHANGED <<items, produced>>
        /\ pc[t] \notin {"error", "cancel", "cancelled"}
    BY <1>10, QuietEffect DEF Clean
  <2>2. CASE pc[t] \in {"pushed", "popped"} /\ closed' = closed /\ pc'[t] \in {"check", "pop"}
    BY <1>4, <2>1, <2>2
  <2>3. CASE /\ pc[t] = "close" /\ pc'[t] \in {"closed", "done"} /\ t \in Queues
             /\ closed' = [closed EXCEPT ![t] = TRUE]
    BY <1>0, <1>a, <2>1, <2>3
  <2>4. CASE pc[t] = "closed" /\ pc'[t] = "done" /\ closed' = closed
    BY <1>a, <2>1, <2>4
  <2>. QED BY <1>10, <1>a, <2>1, <2>2, <2>3, <2>4, QuietEffect
<1>. QED BY <1>1, <1>2, <1>3, <1>5, <1>6, <1>7, <1>8, <1>9, <1>10, NextCases

LEMMA NothingIsLost ==
  ASSUME TypeInv, Clean, Clean', EndsAreClean, NoneLost, [Next]_vars
  PROVE  NoneLost'
<1>0. /\ \A t \in Threads : held[t] \in 0 .. N
      /\ \A q \in Queues : q \in Threads
      /\ Producer \in Threads /\ produced \in 0 .. N /\ N \in Nat
      /\ flag \in BOOLEAN /\ ~ flag
  BY Numbers DEF TypeInv, TypeOK, Clean
<1>1. CASE UNCHANGED <<items, held, consumed, dropped, produced>>
  BY <1>1 DEF NoneLost, Later, Beyond
<1>2. ASSUME NEW t \in Threads, t # Consumer, Push(t) PROVE NoneLost'
  <2>1. /\ t \in Queues /\ held[t] \in 1 .. N /\ ~ closed[t]
        /\ consumed' = consumed /\ produced' = produced /\ dropped' = dropped
        /\ \A u \in Threads \ {t} : held'[u] = held[u]
    BY <1>2, PushEffect DEF EndsAreClean
  <2>2. CASE UNCHANGED <<items, held>>
    BY <1>1, <2>1, <2>2
  <2>3. CASE held'[t] = 0 /\ items' = [items EXCEPT ![t] = Append(items[t], held[t])]
    <3>1. \A q \in Threads, y \in 1 .. N :
            Later(y, q)' <=> Later(y, q) \/ (q = t /\ y = held[t])
      BY <2>1, <2>3, PushMoves
    <3>2. CASE t = Producer
      BY <1>0, <2>1, <3>1, <3>2 DEF NoneLost
    <3>3. CASE t # Producer
      BY <1>0, <2>1, <3>1, <3>3 DEF NoneLost
    <3>. QED BY <3>2, <3>3
  <2>. QED BY <1>2, <2>1, <2>2, <2>3, PushEffect
<1>3. ASSUME NEW t \in Threads, t # Producer, Pop(t) PROVE NoneLost'
  <2>1. /\ t - 1 \in Queues /\ held[t] = 0
        /\ consumed' = consumed /\ produced' = produced /\ dropped' = dropped
        /\ \A u \in Threads \ {t} : held'[u] = held[u]
    BY <1>3, PopEffect
  <2>2. CASE UNCHANGED <<items, held>>
    BY <1>1, <2>1, <2>2
  <2>3. CASE /\ items[t - 1] # <<>> /\ held'[t] = Head(items[t - 1])
             /\ items' = [items EXCEPT ![t - 1] = Tail(items[t - 1])]
    <3>1. \A q \in Threads, y \in 1 .. N : Later(y, q)' <=> Later(y, q)
      BY <2>1, <2>3, PopMoves
    <3>. QED BY <1>0, <1>3, <2>1, <3>1 DEF NoneLost
  <2>. QED BY <1>3, <2>1, <2>2, <2>3, PopEffect
<1>4. ASSUME NEW t \in Threads, LooksAtFlag(t) PROVE NoneLost'
  BY <1>0, <1>1, <1>4 DEF LooksAtFlag
<1>5. CASE Produce
  <2>1. /\ UNCHANGED <<items, consumed, dropped>> /\ held[Producer] = 0
        /\ \A u \in Threads \ {Producer} : held'[u] = held[u]
    BY <1>5, ProduceEffect
  <2>2. \A q \in Threads, y \in 1 .. N : Later(y, q)' <=> Later(y, q)
    BY <2>1, ProduceMoves
  <2>3. CASE UNCHANGED <<produced, held>>
    BY <1>1, <2>1, <2>3
  <2>4. CASE held'[Producer] = produced + 1 /\ produced' = produced + 1
    <3>1. produced + 1 \in 1 .. N
      <4>1. produced' # produced
        BY <1>0, <2>4
      <4>. QED BY <1>5, <4>1, ProduceEffect
    <3>. QED BY <1>0, <2>1, <2>2, <2>4, <3>1 DEF NoneLost
  <2>. QED BY <1>5, <2>3, <2>4, ProduceEffect
<1>6. ASSUME NEW t \in Threads, Process(t) PROVE NoneLost'
  <2>1. UNCHANGED <<items, consumed, produced>> /\ t # Producer
        /\ \A u \in Threads \ {t} : held'[u] = held[u]
    BY <1>6, ProcessEffect
  <2>2. CASE held' = held /\ dropped' = dropped
    BY <1>1, <2>1, <2>2
  <2>3. CASE held'[t] = 0 /\ dropped' = dropped \cup {held[t]}
    <3>1. \A q \in Threads, y \in 1 .. N :
            y \in dropped \/ Later(y, q) => y \in dropped' \/ Later(y, q)'
      BY <2>1, <2>3, LossMoves
    <3>. QED BY <1>0, <2>1, <3>1 DEF NoneLost
  <2>. QED BY <1>6, <2>2, <2>3, ProcessEffect
<1>7. CASE Consume
  <2>1. /\ held[Consumer] \in 1 .. N /\ held'[Consumer] = 0 /\ UNCHANGED <<items, produced, dropped>>
        /\ consumed' = Append(consumed, held[Consumer])
        /\ \A u \in Threads \ {Consumer} : held'[u] = held[u]
    BY <1>7, ConsumeEffect
  <2>2. \A q \in Threads, y \in 1 .. N : Later(y, q) => Later(y, q)'
    BY <2>1, ConsumeMoves
  <2>. QED BY <1>0, <2>1, <2>2, Numbers DEF NoneLost
<1>8. ASSUME NEW t \in Threads, Throw(t) PROVE NoneLost'
  BY <1>8, ThrowEffect DEF Clean
<1>9. CASE Join \/ SetCancelFlag \/ UNCHANGED vars \/ \E t \in Threads : Quiet(t)
  BY <1>1, <1>9, QuietEffect DEF Join, SetCancelFlag
<1>. QED BY <1>2, <1>3, <1>4, <1>5, <1>6, <1>7, <1>8, <1>9, NextCases

LEMMA CleanInductive == TypeInv /\ CleanInv /\ [Next]_vars => CleanInv'
BY CleanSteps, EndsInductive, NothingIsLost DEF CleanInv

LEMMA CleanInit == Init => CleanInv
<1>. SUFFICES ASSUME Init PROVE CleanInv
  OBVIOUS
<1>1. /\ \A q \in Queues : closed[q] = FALSE
      /\ \A t \in Threads : pc[t] \in {"check", "pop"}
      /\ produced = 0
  BY DEF Init
<1>2. NoneLost
  BY <1>1 DEF NoneLost
<1>3. EndsAreClean
  BY <1>1, Numbers DEF EndsAreClean, Over
<1>. QED BY <1>1, <1>2, <1>3 DEF CleanInv, CancelHasAReason

LEMMA ReturnIsComplete ==
  ASSUME TypeInv, CleanInv, Join, outcome' = "returned"
  PROVE  ToSet(consumed) \cup dropped = 1 .. N
<1>1. firstError = -1 /\ ~ flag /\ \A t \in Threads : pc[t] = "done"
  BY DEF Join
<1>2. NoneLost /\ EndsAreClean
  BY <1>1 DEF CleanInv, Clean
<1>3. \A t \in Threads : held[t] = 0
  BY <1>1, Numbers DEF TypeInv, HandsInv, Hands, Busy
<1>4. produced = N /\ \A q \in Queues : items[q] = <<>>
  BY <1>1, <1>2, Numbers DEF EndsAreClean, Over
<1>5. \A y \in 1 .. N : Later(y, Producer) => y \in ToSet(consumed)
  <2>1. \A q \in Queues : ToSet(items[q]) = {}
    BY <1>4 DEF ToSet
  <2>. QED BY <1>3, <2>1 DEF Later, Beyond
<1>6. 1 .. N \subseteq ToSet(consumed) \cup dropped
  <2>1. held[Producer] = 0 /\ 0 \notin 1 .. N
    BY <1>3, Numbers
  <2>. QED BY <1>2, <1>4, <1>5, <2>1 DEF NoneLost
<1>7. ToSet(consumed) \subseteq 1 .. N /\ dropped \subseteq 1 .. N
  BY Entries DEF TypeInv, TypeOK
<1>. QED BY <1>6, <1>7

LEMMA TruncationInductive ==
  TypeInv /\ CleanInv /\ NoSilentTruncation /\ [Next]_vars => NoSilentTruncation'
<1>. SUFFICES ASSUME TypeInv, CleanInv, NoSilentTruncation, [Next]_vars PROVE NoSilentTruncation'
  OBVIOUS
<1>. USE DEF NoSilentTruncation
<1>1. CASE Join
  <2>1. UNCHANGED <<consumed, dropped>>
    BY <1>1 DEF Join
  <2>. QED BY <1>1, <2>1, ReturnIsComplete
<1>2. CASE UNCHANGED <<outcome, consumed, dropped>>
  BY <1>2
<1>3. CASE outcome' = outcome /\ ToSet(consumed) \cup dropped \subseteq ToSet(consumed') \cup dropped'
  <2>1. ToSet(consumed') \subseteq 1 .. N /\ dropped' \subseteq 1 .. N
    <3>1. TypeInv'
      BY TypeInductive
    <3>2. consumed' \in Seq(1 .. N) /\ dropped' \subseteq 1 .. N
      BY <3>1 DEF TypeInv, TypeOK
    <3>. QED BY <3>2, Entries
  <2>. QED BY <1>3, <2>1
<1>4. CASE Consume
  <2>1. /\ outcome' = outcome /\ dropped' = dropped /\ held[Consumer] \in 1 .. N
        /\ consumed' = Append(consumed, held[Consumer])
    BY <1>4, ConsumeEffect
  <2>2. ToSet(consumed) \subseteq ToSet(consumed')
    BY <2>1, Entries DEF TypeInv, TypeOK
  <2>. QED BY <1>3, <2>1, <2>2
<1>5. ASSUME NEW t \in Threads, Process(t) PROVE NoSilentTruncation'
  BY <1>3, <1>5, ProcessEffect
<1>6. CASE \/ SetCancelFlag \/ UNCHANGED vars \/ Produce
           \/ \E t \in Threads : \/ t # Consumer /\ Push(t)
                                 \/ t # Producer /\ Pop(t)
                                 \/ LooksAtFlag(t) \/ Throw(t) \/ Quiet(t)
  <2>1. ASSUME NEW t \in Threads, Quiet(t) PROVE UNCHANGED <<outcome, consumed, dropped>>
    BY <2>1, QuietEffect
  <2>. QED BY <1>2, <1>6, <2>1 DEF SetCancelFlag, Produce, Push, Pop, LooksAtFlag, Throw
<1>. QED BY <1>1, <1>4, <1>5, <1>6, NextCases

(* A run() that returns has delivered or filtered out every tile: a thread *)
(* ends in order only behind a closed and empty queue.                     *)
THEOREM NothingIsTruncated == Spec => []NoSilentTruncation
<1>1. Init => NoSilentTruncation
  BY DEF Init, NoSilentTruncation
<1>. QED BY <1>1, CleanInit, CleanInductive, TruncationInductive, TypeInvariant, PTL DEF Spec

=============================================================================
